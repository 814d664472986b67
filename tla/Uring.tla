-------------------------------- MODULE Uring --------------------------------
(***************************************************************************)
(* The io_uring instance that the files of one event loop share            *)
(* (backend/linux/uring_pool.cpp), the files that submit to it and close   *)
(* (io_uring_backend.cpp) and native asynchronous opens (native_open.cpp). *)
(*                                                                         *)
(* A request goes through the submission queue, possibly after a wait in   *)
(* the overflow list, to the kernel and comes back through the completion  *)
(* queue.  Completions are taken out by the reaper thread or, in passing,  *)
(* by the loop's thread right after it has submitted.  The handshake of    *)
(* m_pending and m_close_wake is that of ThreadBackend: here a completion  *)
(* is one step.                                                            *)
(***************************************************************************)
EXTENDS Integers, Sequences, SequencesExt, FiniteSets

CONSTANTS
  NumReqs,       \* requests made during the life of the instance
  Files,         \* IOUringBackend objects
  NoFile,        \* owner of an open request
  Depth,         \* io_uring_queue_depth
  HarvestMax,    \* completions taken by one inline harvest (32)
  Sqpolls,       \* values of io_uring_sqpoll
  SubmitMayFail, \* io_uring_submit() may fail (EBUSY, EAGAIN)
  PollMayFail,   \* the poll may end unasked: the thread that armed it exits
  ReaperMayFail  \* io_uring_wait_cqe() or creating the reaper's thread may fail

ASSUME Bounds == /\ Depth \in Nat \ {0}
                 /\ HarvestMax \in Nat \ {0}
                 /\ Sqpolls \subseteq BOOLEAN /\ {SubmitMayFail, PollMayFail, ReaperMayFail} \subseteq BOOLEAN
                 /\ NumReqs \in Nat
                 /\ NoFile \notin Files \union {"new", "done"}
                 /\ {"new", "done", "idle", "harvest", "deliver"} \intersect Files = {}

VARIABLES
  sqpoll,    \* a kernel thread takes the submissions
  sq,        \* entries prepared and not yet taken by the kernel
  overflow,  \* UringInstance::overflow
  kernel,    \* entries the kernel works on
  cq,        \* entries completed and not yet harvested
  rpc,       \* where the reaper is
  rbatch,    \* what it has harvested and not yet delivered
  wakeup,    \* the batch held the completion of the poll
  prepared,  \* uring_drain_overflow: entries prepared since the last submit
  lpc,       \* where the loop's thread is: "idle", "harvest", "deliver" or a
             \* file it is closing
  lbatch,    \* what it has harvested and not yet delivered
  stop,      \* reaper_stop is set and event_fd written
  owner,     \* [Reqs -> file of a submitted request, "new" or "done"]
  by,        \* [Reqs -> file the request was made for]
  pending,   \* [Files -> m_pending]
  file,      \* [Files -> "open", "closing" or "closed"]
  expired    \* files whose close timeout has passed

ring == <<sq, overflow, kernel, cq>>
reaper == <<rpc, rbatch, wakeup, prepared>>
loop == <<lpc, lbatch>>
files == <<pending, file, expired>>
vars == <<sqpoll, ring, reaper, loop, stop, owner, by, files>>

\* Requests are numbered in the order of their submission; the poll of
\* event_fd is the entry without a request.
Reqs == 1 .. NumReqs
Poll == 0
Entries == Reqs \union {Poll}
ReaperPcs == {"off", "loop", "waiting", "woken", "drain", "rearm", "deliver", "exited"}

\* setup_instance: the poll of event_fd is the first submission.
Init == /\ sqpoll \in Sqpolls
        /\ sq = IF sqpoll THEN <<Poll>> ELSE <<>>
        /\ kernel = IF sqpoll THEN {} ELSE {Poll}
        /\ overflow = <<>> /\ cq = <<>>
        /\ rpc = "off" /\ rbatch = <<>> /\ wakeup = FALSE /\ prepared = FALSE
        /\ lpc = "idle" /\ lbatch = <<>>
        /\ stop = FALSE
        /\ owner = [r \in Reqs |-> "new"]
        /\ by = [r \in Reqs |-> NoFile]
        /\ pending = [f \in Files |-> 0]
        /\ file = [f \in Files |-> "open"]
        /\ expired = {}
------------------------------------------------------------------------------
(* The kernel.                                                             *)

\* io_uring_submit() of queue q: the kernel takes all of it or, when the
\* call fails, none; with SQPOLL a kernel thread takes it in its own time.
IoUringSubmit(q) ==
  \/ /\ ~sqpoll
     /\ sq' = <<>>
     /\ kernel' = kernel \union ToSet(q)
  \/ /\ sqpoll \/ SubmitMayFail
     /\ sq' = q
     /\ UNCHANGED kernel

SqThread == /\ sqpoll
            /\ sq # <<>>
            /\ kernel' = kernel \union {Head(sq)}
            /\ sq' = Tail(sq)
            /\ UNCHANGED <<sqpoll, overflow, cq, reaper, loop, stop, owner, by, files>>

\* A request ends, well or not; the poll ends when event_fd is written.
Complete(e) == /\ e \in kernel
               /\ e = Poll => stop \/ PollMayFail
               /\ kernel' = kernel \ {e}
               /\ cq' = Append(cq, e)
               /\ UNCHANGED <<sqpoll, sq, overflow, reaper, loop, stop, owner, by, files>>
------------------------------------------------------------------------------
(* The thread of the event loop.                                           *)

\* uring_submit_or_queue, under submit_mtx: behind others in the overflow
\* list, or into the submission queue when it has room.
SubmitOrQueue(r) ==
  IF overflow # <<>> \/ Len(sq) = Depth
  THEN overflow' = Append(overflow, r) /\ UNCHANGED <<sq, kernel>>
  ELSE IoUringSubmit(Append(sq, r)) /\ UNCHANGED overflow

\* r is the request made next.
Fresh(r) == owner[r] = "new" /\ \A q \in 1 .. r - 1 : owner[q] # "new"

StartReaper == rpc' = IF rpc = "off" THEN "loop" ELSE rpc

\* read, read_at, readinto, write or flush of a file that is not closed.
Submit(f, r) ==
  /\ lpc = "idle" /\ rpc # "drain"
  /\ file[f] = "open" /\ Fresh(r) /\ ~stop
  /\ StartReaper
  /\ pending' = [pending EXCEPT ![f] = @ + 1]
  /\ SubmitOrQueue(r)
  /\ owner' = [owner EXCEPT ![r] = f]
  /\ by' = [by EXCEPT ![r] = f]
  /\ lpc' = "harvest"
  /\ UNCHANGED <<sqpoll, cq, rbatch, wakeup, prepared, lbatch, stop, file, expired>>

\* submit_native_aopen: counted by no file, and no harvest afterwards.
SubmitOpen(r) ==
  /\ lpc = "idle" /\ rpc # "drain"
  /\ Fresh(r) /\ ~stop
  /\ StartReaper
  /\ SubmitOrQueue(r)
  /\ owner' = [owner EXCEPT ![r] = NoFile]
  /\ UNCHANGED <<sqpoll, cq, rbatch, wakeup, prepared, loop, stop, by, files>>

\* What try_harvest_inline takes: it stops at the completion of the poll.
Harvested == LET poll == {i \in DOMAIN cq : cq[i] = Poll}
                 ends == {Len(cq), HarvestMax} \union {i - 1 : i \in poll}
             IN  SubSeq(cq, 1, Min(ends))

\* try_harvest_inline; cq_mtx may be taken.
TryHarvestInline ==
  /\ lpc = "harvest"
  /\ \/ /\ lbatch' = Harvested
        /\ cq' = SubSeq(cq, Len(Harvested) + 1, Len(cq))
        /\ lpc' = IF lbatch' = <<>> THEN "idle" ELSE "deliver"
     \/ /\ lpc' = "idle"
        /\ UNCHANGED <<cq, lbatch>>
  /\ UNCHANGED <<sqpoll, sq, overflow, kernel, reaper, stop, owner, by, files>>

\* complete_ok, complete_error, complete_inline or complete_native_aopen:
\* the file of the request loses one pending request, the operation ends.
Finish(r) ==
  /\ owner' = [owner EXCEPT ![r] = "done"]
  /\ pending' = [f \in Files |-> pending[f] - (IF owner[r] = f THEN 1 ELSE 0)]

DeliverInline ==
  /\ lpc = "deliver"
  /\ Finish(Head(lbatch))
  /\ lbatch' = Tail(lbatch)
  /\ lpc' = IF lbatch' = <<>> THEN "idle" ELSE "deliver"
  /\ UNCHANGED <<sqpoll, ring, reaper, stop, by, file, expired>>

\* close_impl: the flag, then the wait for m_pending or for the deadline,
\* then the instance and the descriptor are let go.
BeginClose(f) ==
  /\ lpc = "idle" /\ file[f] = "open"
  /\ file' = [file EXCEPT ![f] = "closing"]
  /\ lpc' = f
  /\ UNCHANGED <<sqpoll, ring, reaper, lbatch, stop, owner, by, pending, expired>>

Expire(f) ==
  /\ lpc = f /\ pending[f] > 0 /\ f \notin expired
  /\ expired' = expired \union {f}
  /\ UNCHANGED <<sqpoll, ring, reaper, loop, stop, owner, by, pending, file>>

\* Mutant of EndClose: pending requests are not waited for.
EndCloseNow(f) ==
  /\ lpc = f
  /\ file' = [file EXCEPT ![f] = "closed"]
  /\ lpc' = "idle"
  /\ UNCHANGED <<sqpoll, ring, reaper, lbatch, stop, owner, by, pending, expired>>

EndClose(f) ==
  /\ lpc = f
  /\ pending[f] <= 0 \/ f \in expired
  /\ file' = [file EXCEPT ![f] = "closed"]
  /\ lpc' = "idle"
  /\ UNCHANGED <<sqpoll, ring, reaper, lbatch, stop, owner, by, pending, expired>>

\* cleanup_all at interpreter exit: stop_reaper sets the flag, writes
\* event_fd and joins.  No call is made afterwards.
StopReaper ==
  /\ lpc = "idle" /\ ~stop
  /\ stop' = TRUE
  /\ UNCHANGED <<sqpoll, ring, reaper, loop, owner, by, files>>
------------------------------------------------------------------------------
(* The reaper: reaper_loop_entry.                                          *)

\* Mutant of TestStop: the flag is not looked at.
TestNothing ==
  /\ rpc = "loop"
  /\ rpc' = "waiting"
  /\ UNCHANGED <<sqpoll, ring, rbatch, wakeup, prepared, loop, stop, owner, by, files>>

TestStop ==
  /\ rpc = "loop"
  /\ rpc' = IF stop THEN "exited" ELSE "waiting"
  /\ UNCHANGED <<sqpoll, ring, rbatch, wakeup, prepared, loop, stop, owner, by, files>>

\* io_uring_wait_cqe sees a completion (the loop may still take it); -EINTR
\* and -EEXIST try again.
WaitCqe ==
  /\ rpc = "waiting" /\ cq # <<>>
  /\ rpc' = "woken"
  /\ UNCHANGED <<sqpoll, ring, rbatch, wakeup, prepared, loop, stop, owner, by, files>>

\* Any other error ends reaper_loop_entry for good.  It never begins if
\* start_reaper cannot create its thread: the submission throws before it has
\* made a request, and reaper_started is not taken back.
ReaperFails ==
  /\ ReaperMayFail
  /\ rpc = "waiting" \/ (rpc = "off" /\ lpc = "idle" /\ ~stop)
  /\ rpc' = "exited"
  /\ UNCHANGED <<sqpoll, ring, rbatch, wakeup, prepared, loop, stop, owner, by, files>>

\* The batch has the requests in the order of their completion; of the poll,
\* which is armed at most once, it notes only that it has ended.

\* Mutant of ReapAll: the completion queue is not advanced.
ReapAllAgain ==
  /\ rpc = "woken"
  /\ rbatch' = RemoveFirst(cq, Poll)
  /\ wakeup' = (Poll \in ToSet(cq))
  /\ prepared' = FALSE
  /\ rpc' = "drain"
  /\ UNCHANGED <<sqpoll, ring, loop, stop, owner, by, files>>

ReapAll ==
  /\ rpc = "woken"
  /\ rbatch' = RemoveFirst(cq, Poll)
  /\ wakeup' = (Poll \in ToSet(cq))
  /\ cq' = <<>>
  /\ prepared' = FALSE
  /\ rpc' = "drain"
  /\ UNCHANGED <<sqpoll, sq, overflow, kernel, loop, stop, owner, by, files>>

\* uring_drain_overflow, under submit_mtx: entries are prepared while there
\* is room ...
DrainOne ==
  /\ rpc = "drain" /\ overflow # <<>> /\ Len(sq) < Depth
  /\ sq' = Append(sq, Head(overflow))
  /\ overflow' = Tail(overflow)
  /\ prepared' = TRUE
  /\ UNCHANGED <<sqpoll, kernel, cq, rpc, rbatch, wakeup, loop, stop, owner, by, files>>

\* ... and submitted when there is none, or none is left.
DrainSubmit ==
  /\ rpc = "drain" /\ prepared
  /\ overflow = <<>> \/ Len(sq) = Depth
  /\ IoUringSubmit(sq)
  /\ prepared' = FALSE
  /\ UNCHANGED <<sqpoll, overflow, cq, rpc, rbatch, wakeup, loop, stop, owner, by, files>>

DrainEnds ==
  /\ rpc = "drain" /\ ~prepared
  /\ overflow = <<>> \/ Len(sq) = Depth
  /\ rpc' = "rearm"
  /\ UNCHANGED <<sqpoll, ring, rbatch, wakeup, prepared, loop, stop, owner, by, files>>

\* The poll is armed again, if there is an entry for it.
Rearm ==
  /\ rpc = "rearm"
  /\ IF wakeup /\ ~stop /\ Len(sq) < Depth
     THEN IoUringSubmit(Append(sq, Poll))
     ELSE UNCHANGED <<sq, kernel>>
  /\ rpc' = "deliver"
  /\ UNCHANGED <<sqpoll, overflow, cq, rbatch, wakeup, prepared, loop, stop, owner, by, files>>

\* Mutant of Deliver: only the first of the batch is delivered.
DeliverFirst ==
  /\ rpc = "deliver"
  /\ IF rbatch = <<>>
     THEN UNCHANGED <<owner, pending>>
     ELSE Finish(Head(rbatch))
  /\ rbatch' = <<>>
  /\ rpc' = "loop"
  /\ UNCHANGED <<sqpoll, ring, wakeup, prepared, loop, stop, by, file, expired>>

Deliver ==
  /\ rpc = "deliver"
  /\ IF rbatch = <<>>
     THEN rpc' = "loop" /\ UNCHANGED <<rbatch, owner, pending>>
     ELSE Finish(Head(rbatch)) /\ rbatch' = Tail(rbatch) /\ UNCHANGED rpc
  /\ UNCHANGED <<sqpoll, ring, wakeup, prepared, loop, stop, by, file, expired>>
------------------------------------------------------------------------------
LoopStep == TryHarvestInline \/ DeliverInline
ReaperStep == \/ TestStop \/ WaitCqe \/ ReapAll \/ DrainOne \/ DrainSubmit
              \/ DrainEnds \/ Rearm \/ Deliver

Next == \/ SqThread
        \/ \E e \in Entries : Complete(e)
        \/ \E r \in Reqs : SubmitOpen(r) \/ \E f \in Files : Submit(f, r)
        \/ LoopStep
        \/ \E f \in Files : BeginClose(f) \/ Expire(f) \/ EndClose(f)
        \/ StopReaper
        \/ ReaperStep
        \/ ReaperFails

Spec == Init /\ [][Next]_vars

\* The kernel ends what it has taken, threads inside a call go on, and the
\* clock reaches the deadline of a close; nothing obliges a caller to call.
FairSpec == /\ Spec
            /\ WF_vars(SqThread) /\ WF_vars(LoopStep) /\ WF_vars(ReaperStep)
            /\ \A e \in Reqs : WF_vars(Complete(e))
            /\ WF_vars(stop /\ Complete(Poll))
            /\ \A f \in Files : WF_vars(Expire(f)) /\ WF_vars(EndClose(f))
------------------------------------------------------------------------------
(* Properties.                                                             *)

TypeOK == /\ sqpoll \in Sqpolls
          /\ sq \in Seq(Entries) /\ Len(sq) <= Depth
          /\ overflow \in Seq(Reqs) /\ cq \in Seq(Entries)
          /\ kernel \subseteq Entries
          /\ rpc \in ReaperPcs /\ rbatch \in Seq(Reqs) /\ lbatch \in Seq(Reqs)
          /\ wakeup \in BOOLEAN /\ prepared \in BOOLEAN /\ stop \in BOOLEAN
          /\ lpc \in {"idle", "harvest", "deliver"} \union Files
          /\ owner \in [Reqs -> Files \union {NoFile, "new", "done"}]
          /\ by \in [Reqs -> Files \union {NoFile}]
          /\ pending \in [Files -> Int]
          /\ file \in [Files -> {"open", "closing", "closed"}]
          /\ expired \subseteq Files

\* The number of places that hold the entry e.
In(e, S) == IF e \in S THEN 1 ELSE 0
PlacesOf(e) == In(e, ToSet(sq)) + In(e, ToSet(overflow)) + In(e, kernel) + In(e, ToSet(cq))
               + In(e, ToSet(rbatch)) + In(e, ToSet(lbatch))

\* A submitted request is in exactly one place, and there once, until it is
\* delivered, and in none before and after: whatever the reaper and the inline
\* harvest do, no request is lost and none is delivered (and freed) twice.
InOnePlace ==
  /\ IsInjective(sq) /\ IsInjective(overflow) /\ IsInjective(cq)
  /\ IsInjective(rbatch) /\ IsInjective(lbatch)
  /\ \A r \in Reqs : PlacesOf(r) = (IF owner[r] \in {"new", "done"} THEN 0 ELSE 1)

\* m_pending of each file counts the requests of that file and no others,
\* although one file's harvest and the common reaper complete requests of
\* another: a close neither waits in vain nor ends too early.
PendingIsExact ==
  \A f \in Files : pending[f] = Cardinality({r \in Reqs : owner[r] = f})

\* With the types: requests and counts agree with each other whoever reaps
\* (uring_pool.cpp:128-174, io_uring_backend.cpp:115-188).
RingAccounted == TypeOK /\ InOnePlace /\ PendingIsExact

\* What the submission queue holds is delivered, by the reaper or inline,
\* unless the reaper is told to stop or has failed.
TakenIsDelivered ==
  \A r \in Reqs :
    ~stop /\ r \in ToSet(sq) ~> owner[r] = "done" \/ stop \/ rpc = "exited"

\* stop_reaper's join returns, unless the poll was not armed again: the
\* inline harvest never takes the completion that wakes the reaper.
StopReturns ==
  stop /\ (rpc # "waiting" \/ Poll \in ToSet(sq \o cq) \union kernel)
    ~> rpc \in {"exited", "off"}

\* Each file, with the requests of the others around it, keeps the promise
\* of CloseBarrier.
Barrier(f) == INSTANCE CloseBarrier WITH
  Ops     <- Reqs,
  gate    <- CASE file[f] = "open" -> "open"
               [] file[f] = "closing" -> "shut"
               [] OTHER -> "released",
  inside  <- {r \in Reqs : owner[r] = f},
  left    <- {r \in Reqs : by[r] = f /\ owner[r] = "done"},
  overdue <- f \in expired

FilesImplementBarrier ==
  /\ \A f \in Files : Barrier(f)!Init
  /\ [][\A f \in Files : Barrier(f)!Next \/ UNCHANGED Barrier(f)!barrierVars]_vars

\* "When the submission queue is full, requests are queued to an overflow
\* deque and re-submitted by the reaper after each CQE batch"
\* (docs/CHANGES.md:533): a request of the overflow list leaves it when
\* another request is with the kernel and so will complete.
Resubmitted ==
  \A r \in Reqs : r \in ToSet(overflow) /\ kernel \intersect Reqs # {}
                   ~> r \notin ToSet(overflow) \/ stop
==============================================================================
