--------------------------------- MODULE Gcd ---------------------------------
(***************************************************************************)
(* One MacOSGCDBackend object (backend/macos/macos_gcd_backend.cpp).  A     *)
(* request takes one of four routes: read by the caller when the pages are *)
(* resident, the Dispatch I/O channel, whose handlers run on the object's  *)
(* serial queue, one task of the thread pool, or one task per chunk with   *)
(* the last of them completing the read.  close_impl() waits for the       *)
(* requests, stops the channel, waits for its cleanup handler, drains the  *)
(* queue and closes the descriptor.                                        *)
(*                                                                         *)
(* The handshake of m_pending and m_close_wake is that of ThreadBackend:   *)
(* here both are one step.  The delivery that follows takes the GIL.       *)
(***************************************************************************)
EXTENDS Integers, Sequences, SequencesExt, FiniteSets

CONSTANTS
  Ops,        \* reads and writes requested during the life of the object
  Chunks,     \* pieces of a parallel read
  GilHeld,    \* how close_impl() may be called: {TRUE} by _close_impl(),
              \* {FALSE} by close() and by the destructor
  MayThrow    \* handing a task to the pool may throw

ASSUME Parameters == /\ IsFiniteSet(Ops)
                     /\ IsFiniteSet(Chunks) /\ Chunks # {}
                     /\ GilHeld \subseteq BOOLEAN
                     /\ MayThrow \in BOOLEAN

VARIABLES
  running,    \* running_
  pending,    \* m_pending
  fd,         \* fd_ is open
  dup,        \* GcdFdCleanup::fd is open
  channel,    \* channel_: "open", "stopped", "gone" (the cleanup is queued)
  io,         \* [Ops -> what libdispatch does for it]
  queue,      \* blocks submitted to queue_, the first one is running
  route,      \* [Ops -> how the request is served]
  chunk,      \* [Ops -> [Chunks -> where the piece is]]
  remaining,  \* [Ops -> ParallelReadGroup::remaining]
  failed,     \* [Ops -> first_errno is set]
  stage,      \* [Ops -> where the operation is]
  result,     \* [Ops -> what the operation is completed with]
  cpc,        \* where close_impl() is
  gil,        \* its caller keeps the GIL
  expired,    \* the deadline of the wait for m_pending has passed
  late        \* the wait for the cleanup handler timed out

object == <<running, pending, fd>>
dispatch == <<dup, channel, io, queue>>
group == <<chunk, remaining, failed>>
ops == <<route, stage, result>>
closing == <<cpc, gil, expired, late>>
vars == <<object, dispatch, group, ops, closing>>

Routes == {"none", "inline", "channel", "task", "parallel"}
Blocks == [op : Ops, kind : {"data", "done", "error"}]
Cleanup == [kind |-> "cleanup"]
Barrier == [kind |-> "barrier"]

Init == /\ running = TRUE /\ pending = 0 /\ fd = "open"
        /\ dup = "open" /\ channel = "open"
        /\ io = [o \in Ops |-> "none"]
        /\ queue = <<>>
        /\ chunk = [o \in Ops |-> [c \in Chunks |-> "none"]]
        /\ remaining = [o \in Ops |-> 0]
        /\ failed = [o \in Ops |-> FALSE]
        /\ route = [o \in Ops |-> "none"]
        /\ stage = [o \in Ops |-> "new"]
        /\ result = [o \in Ops |-> "none"]
        /\ cpc = "idle" /\ gil = FALSE /\ expired = FALSE /\ late = FALSE

\* The loop's thread is not inside a call on the object, nor kept out of
\* Python by close_impl().
Callable == /\ cpc \in {"idle", "returned"}
            /\ \A o \in Ops : route[o] = "inline" => stage[o] = "done"

GilFree == gil => cpc \in {"idle", "returned"}
------------------------------------------------------------------------------
(* Submission.                                                             *)

\* closed(): the operation is completed at once.
Reject(o) ==
  /\ Callable /\ stage[o] = "new" /\ ~running
  /\ stage' = [stage EXCEPT ![o] = "done"]
  /\ result' = [result EXCEPT ![o] = "closed"]
  /\ UNCHANGED <<object, dispatch, group, route, closing>>

Admit(o, r) ==
  /\ Callable /\ stage[o] = "new" /\ running
  /\ pending' = pending + 1
  /\ route' = [route EXCEPT ![o] = r]
  /\ UNCHANGED <<running, fd, dup, channel, queue, result, failed, closing>>

\* try_inline_read: the pages are resident.
SubmitInline(o) ==
  /\ Admit(o, "inline")
  /\ stage' = [stage EXCEPT ![o] = "counted"]
  /\ UNCHANGED <<io, chunk, remaining>>

\* dispatch_io_read, dispatch_io_write.
SubmitChannel(o) ==
  /\ Admit(o, "channel")
  /\ stage' = [stage EXCEPT ![o] = "counted"]
  /\ io' = [io EXCEPT ![o] = "working"]
  /\ UNCHANGED <<chunk, remaining>>

\* submit_read_fast, submit_write_fast (one task) and submit_read_parallel.
SubmitTasks(o, r, tasks) ==
  /\ Admit(o, r)
  /\ stage' = [stage EXCEPT ![o] = "counted"]
  /\ chunk' = [chunk EXCEPT ![o] = [c \in Chunks |-> IF c \in tasks THEN "queued" ELSE "none"]]
  /\ remaining' = [remaining EXCEPT ![o] = Cardinality(tasks)]
  /\ UNCHANGED io

\* enqueue() throws after some of the tasks have been queued: the caller
\* gets the exception, the others still run.
SubmitThrows(o, r, tasks, queued) ==
  /\ MayThrow
  /\ Admit(o, r)
  /\ stage' = [stage EXCEPT ![o] = "leaked"]
  /\ chunk' = [chunk EXCEPT ![o] = [c \in Chunks |-> IF c \in queued THEN "queued" ELSE "none"]]
  /\ remaining' = [remaining EXCEPT ![o] = Cardinality(tasks)]
  /\ UNCHANGED io

Submit(o) ==
  \/ Reject(o) \/ SubmitInline(o) \/ SubmitChannel(o)
  \/ \E c \in Chunks : SubmitTasks(o, "task", {c}) \/ SubmitThrows(o, "task", {c}, {})
  \/ SubmitTasks(o, "parallel", Chunks)
  \/ \E queued \in SUBSET Chunks : queued # Chunks /\ SubmitThrows(o, "parallel", Chunks, queued)
------------------------------------------------------------------------------
(* Completion.                                                             *)

\* complete_ok, complete_error and complete_inline: the count and the
\* permit ...
Uncount(o, r) ==
  /\ pending' = pending - 1
  /\ stage' = [stage EXCEPT ![o] = "uncounted"]
  /\ result' = [result EXCEPT ![o] = r]
  /\ UNCHANGED <<running, fd, route>>

\* ... then operation->complete() or complete_inline(), under the GIL.
\* The block of a channel's handler ends with it.
Deliver(o) ==
  /\ stage[o] = "uncounted" /\ GilFree
  /\ stage' = [stage EXCEPT ![o] = "done"]
  /\ queue' = IF route[o] = "channel" THEN Tail(queue) ELSE queue
  /\ UNCHANGED <<object, dup, channel, io, group, route, result, closing>>

InlineRead(o) ==
  /\ route[o] = "inline" /\ stage[o] = "counted"
  /\ \E r \in {"ok", "error"} : Uncount(o, r)
  /\ UNCHANGED <<dispatch, group, closing>>
------------------------------------------------------------------------------
(* The channel: libdispatch does the I/O and submits the handlers, and the *)
(* cleanup handler once the channel is stopped and has no operation.       *)

ChannelData(o) ==
  /\ io[o] = "working" /\ channel = "open"
  /\ io' = [io EXCEPT ![o] = "partial"]
  /\ queue' = Append(queue, [op |-> o, kind |-> "data"])
  /\ UNCHANGED <<object, dup, channel, group, ops, closing>>

ChannelEnds(o) ==
  /\ io[o] \in {"working", "partial"}
  /\ io' = [io EXCEPT ![o] = "ended"]
  /\ \E k \in {"done", "error"} : queue' = Append(queue, [op |-> o, kind |-> k])
  /\ UNCHANGED <<object, dup, channel, group, ops, closing>>

ChannelIdle == \A o \in Ops : io[o] \in {"none", "ended"}

ChannelGone ==
  /\ channel = "stopped" /\ ChannelIdle
  /\ channel' = "gone"
  /\ queue' = Append(queue, Cleanup)
  /\ UNCHANGED <<object, dup, io, group, ops, closing>>

\* Mutant of RunHandler: an error is not reported.
RunDoneHandler ==
  /\ queue # <<>> /\ Head(queue) \in Blocks
  /\ LET b == Head(queue) IN
     IF b.kind # "done"
     THEN queue' = Tail(queue) /\ UNCHANGED <<object, ops>>
     ELSE /\ stage[b.op] = "counted"
          /\ Uncount(b.op, "ok")
          /\ UNCHANGED queue
  /\ UNCHANGED <<dup, channel, io, group, closing>>

\* A handler on the queue: it copies what it is given, completes the request
\* when it is done or an error is reported ...
RunHandler ==
  /\ queue # <<>> /\ Head(queue) \in Blocks
  /\ LET b == Head(queue) IN
     IF b.kind = "data"
     THEN queue' = Tail(queue) /\ UNCHANGED <<object, ops>>
     ELSE /\ stage[b.op] = "counted"
          /\ Uncount(b.op, IF b.kind = "error" THEN "error" ELSE "ok")
          /\ UNCHANGED queue
  /\ UNCHANGED <<dup, channel, io, group, closing>>

\* ... and the cleanup handler.
RunCleanup ==
  /\ queue # <<>> /\ Head(queue) = Cleanup
  /\ queue' = Tail(queue)
  /\ dup' = "closed"
  /\ UNCHANGED <<object, channel, io, group, ops, closing>>
------------------------------------------------------------------------------
(* Tasks of the thread pool.                                               *)

\* pread or pwrite of a task; what a closed descriptor gives is an error or
\* the bytes of another file.
DoTask(o, c) ==
  /\ chunk[o][c] = "queued"
  /\ chunk' = [chunk EXCEPT ![o][c] = "moved"]
  /\ \E err \in BOOLEAN : failed' = [failed EXCEPT ![o] = @ \/ err]
  /\ UNCHANGED <<object, dispatch, remaining, ops, closing>>

\* Mutant of DoneTask: an error completes the read at once.
DoneTaskEarly(o, c) ==
  /\ chunk[o][c] = "moved"
  /\ chunk' = [chunk EXCEPT ![o][c] = "settled"]
  /\ remaining' = [remaining EXCEPT ![o] = @ - 1]
  /\ IF stage[o] = "counted" /\ (remaining[o] = 1 \/ failed[o])
     THEN Uncount(o, IF failed[o] THEN "error" ELSE "ok")
     ELSE UNCHANGED <<object, ops>>
  /\ UNCHANGED <<dispatch, failed, closing>>

\* remaining.fetch_sub(1): the last task completes the request.
DoneTask(o, c) ==
  /\ chunk[o][c] = "moved"
  /\ chunk' = [chunk EXCEPT ![o][c] = "settled"]
  /\ remaining' = [remaining EXCEPT ![o] = @ - 1]
  /\ IF remaining[o] = 1
     THEN Uncount(o, IF failed[o] THEN "error" ELSE "ok")
     ELSE UNCHANGED <<object, ops>>
  /\ UNCHANGED <<dispatch, failed, closing>>
------------------------------------------------------------------------------
(* close_impl().                                                           *)

\* compare_exchange on running_: later calls return at once.
BeginClose ==
  /\ Callable /\ running
  /\ running' = FALSE
  /\ cpc' = "wait"
  /\ gil' \in GilHeld
  /\ UNCHANGED <<pending, fd, dispatch, group, ops, expired, late>>

Expire ==
  /\ cpc = "wait" /\ ~expired
  /\ expired' = TRUE
  /\ UNCHANGED <<object, dispatch, group, ops, cpc, gil, late>>

\* Mutant of WaitEnds: one completion ends the wait.
WaitEndsEarly ==
  /\ cpc = "wait"
  /\ pending < 2 \/ expired
  /\ cpc' = "stop"
  /\ UNCHANGED <<object, dispatch, group, ops, gil, expired, late>>

WaitEnds ==
  /\ cpc = "wait"
  /\ pending = 0 \/ expired
  /\ cpc' = "stop"
  /\ UNCHANGED <<object, dispatch, group, ops, gil, expired, late>>

\* munmap, dispatch_io_close(STOP) and dispatch_release.
StopChannel ==
  /\ cpc = "stop"
  /\ channel' = "stopped"
  /\ cpc' = "cleanup"
  /\ UNCHANGED <<object, dup, io, queue, group, ops, gil, expired, late>>

\* Mutant of AwaitCleanup: the wait has no timeout.
AwaitCleanupForever ==
  /\ cpc = "cleanup"
  /\ dup = "closed"
  /\ cpc' = "drain"
  /\ UNCHANGED <<object, dispatch, group, ops, gil, expired, late>>

\* dispatch_semaphore_wait, which may time out.
AwaitCleanup ==
  /\ cpc = "cleanup"
  /\ late' = (dup = "open")
  /\ cpc' = "drain"
  /\ UNCHANGED <<object, dispatch, group, ops, gil, expired>>

\* dispatch_barrier_sync: a block at the end of the queue ...
EnterBarrier ==
  /\ cpc = "drain"
  /\ queue' = Append(queue, Barrier)
  /\ cpc' = "barrier"
  /\ UNCHANGED <<object, dup, channel, io, group, ops, gil, expired, late>>

\* ... that runs, on the closing thread, after all that precede it.
PassBarrier ==
  /\ cpc = "barrier"
  /\ queue # <<>> /\ Head(queue) = Barrier
  /\ queue' = Tail(queue)
  /\ cpc' = "fd"
  /\ UNCHANGED <<object, dup, channel, io, group, ops, gil, expired, late>>

ReleaseFd ==
  /\ cpc = "fd"
  /\ fd' = "closed"
  /\ cpc' = "returned"
  /\ UNCHANGED <<running, pending, dispatch, group, ops, gil, expired, late>>

CloseStep == WaitEnds \/ StopChannel \/ AwaitCleanup \/ EnterBarrier \/ PassBarrier \/ ReleaseFd
------------------------------------------------------------------------------
QueueStep == RunHandler \/ RunCleanup
TaskStep(o, c) == DoTask(o, c) \/ DoneTask(o, c)

Next ==
  \/ \E o \in Ops : \/ Submit(o) \/ InlineRead(o) \/ Deliver(o)
                    \/ ChannelData(o) \/ ChannelEnds(o)
                    \/ \E c \in Chunks : TaskStep(o, c)
  \/ ChannelGone \/ QueueStep
  \/ BeginClose \/ Expire \/ CloseStep

Spec == Init /\ [][Next]_vars

\* Threads go on, the queue and the pool run what they are given, the
\* deadline passes.  No I/O of the channel is obliged to end.
FairSpec ==
  /\ Spec
  /\ WF_vars(QueueStep) /\ WF_vars(CloseStep) /\ WF_vars(Expire)
  /\ \A o \in Ops : /\ WF_vars(InlineRead(o))
                    /\ WF_vars(Deliver(o))
                    /\ \A c \in Chunks : WF_vars(TaskStep(o, c))

\* The I/O given to the channel ends.
IoEnds == (\A o \in Ops : WF_vars(ChannelEnds(o))) /\ WF_vars(ChannelGone)
------------------------------------------------------------------------------
(* Properties.                                                             *)

\* Every variable stays within its type; no request is completed twice, so
\* m_pending never goes below zero.
TypeOK ==
  /\ running \in BOOLEAN /\ pending \in Nat
  /\ {fd, dup} \subseteq {"open", "closed"}
  /\ channel \in {"open", "stopped", "gone"}
  /\ io \in [Ops -> {"none", "working", "partial", "ended"}]
  /\ ToSet(queue) \subseteq Blocks \union {Cleanup, Barrier}
  /\ route \in [Ops -> Routes]
  /\ chunk \in [Ops -> [Chunks -> {"none", "queued", "moved", "settled"}]]
  /\ remaining \in [Ops -> 0 .. Cardinality(Chunks)]
  /\ failed \in [Ops -> BOOLEAN]
  /\ stage \in [Ops -> {"new", "counted", "leaked", "uncounted", "done"}]
  /\ result \in [Ops -> {"none", "ok", "error", "closed"}]
  /\ cpc \in {"idle", "wait", "stop", "cleanup", "drain", "barrier", "fd", "returned"}
  /\ {gil, expired, late} \subseteq BOOLEAN

\* The requests on one of the four routes, and those given up half submitted.
Counted == {o \in Ops : stage[o] \in {"counted", "leaked"}}

\* m_pending counts the requests that are on one of the four routes, and
\* those that were given up half submitted.
PendingIsExact == pending = Cardinality(Counted)

\* submit_read_parallel: the read is completed when no task writes to its
\* buffer any more, and is a success only if every chunk was read.
ChunksSettled ==
  \A o \in Ops :
    route[o] \in {"task", "parallel"} /\ stage[o] \in {"uncounted", "done"} =>
      /\ \A c \in Chunks : chunk[o][c] \in {"none", "settled"}
      /\ (result[o] = "ok") <=> ~failed[o]

\* When close_impl() has returned, and the cleanup handler did not miss its
\* timeout, nothing of the channel touches the object any more and both
\* descriptors are closed -- even if requests outlived the first deadline.
QuietWhenClosed ==
  cpc = "returned" /\ ~late =>
    /\ {fd, dup} = {"closed"} /\ queue = <<>>
    /\ \A o \in Ops : route[o] = "channel" => stage[o] = "done"

\* With the types: counts, buffers and channel are settled at the points where
\* completion and close rely on it (macos_gcd_backend.cpp:149-202, 388-429).
Settled == TypeOK /\ PendingIsExact /\ ChunksSettled /\ QuietWhenClosed

\* close_impl() returns, whatever the channel's I/O does.
ChannelCloseReturns == (cpc = "wait") ~> (cpc = "returned")

\* If the channel's I/O ends, every request is answered ...
Delivered == IoEnds => \A o \in Ops : (stage[o] = "counted") ~> (stage[o] = "done")

\* ... and the duplicate descriptor of a closed file is closed, late or not.
DupCloses == IoEnds => ((cpc = "wait") ~> (dup = "closed"))

\* Both: what the channel was given comes to its end.
ChannelFinishes == Delivered /\ DupCloses

\* The promise of close, for all four routes.
Gate == IF running THEN "open" ELSE IF cpc = "returned" THEN "released" ELSE "shut"
Left == {o \in Ops : route[o] # "none" /\ stage[o] \in {"uncounted", "done"}}
CloseGate == INSTANCE CloseBarrier WITH
  gate <- Gate, inside <- Counted, left <- Left, overdue <- expired
ChannelImplementsBarrier == CloseGate!Spec
=============================================================================
