---------------------------- MODULE ResultBatcher ----------------------------
(***************************************************************************)
(* The delivery of results to one event loop: ResultBatcher                *)
(* (bindings/python/result_batcher.cpp) with the operations that feed it   *)
(* (py_future.cpp) and read_many (py_async_file.cpp).                      *)
(*                                                                         *)
(* Threads that complete operations -- pool workers, the io_uring reaper,  *)
(* IOCP workers -- run concurrently, each atomic operation and each m_mtx  *)
(* section a step (the module is built FREE_THREADED, so the GIL orders    *)
(* nothing).  The loop thread submits, completes inline, runs the drain    *)
(* callback, cancels and closes, one thing at a time.                      *)
(***************************************************************************)
EXTENDS Integers, FiniteSets

CONSTANTS
  Singles,     \* operations with a future of their own (PyOperation)
  Batches,     \* calls of read_many, one future each (PyBatchState)
  Width,       \* spans of a read_many (PyBatchOperation)
  MaxThreshold,\* m_threshold_max
  Sweeper,     \* the IOCP worker that calls flush_idle()
  None,
  Inline,      \* TRUE: the submitting thread harvests completions (io_uring, IOCP)
  HasSweep,    \* TRUE: somebody calls flush_idle() (IOCP)
  MayThrow,    \* TRUE: submitting may throw
  MayFail      \* TRUE: Python may fail to allocate (convert, call_soon_threadsafe)

ASSUME SetsFinite == IsFiniteSet(Singles) /\ IsFiniteSet(Batches)
ASSUME NumbersPositive == Width \in Nat \ {0} /\ MaxThreshold \in Nat \ {0}
ASSUME ModesAreFlags == Inline \in BOOLEAN /\ HasSweep \in BOOLEAN

Spans == Batches \X (1..Width)
Ops == Singles \union Spans
Futures == Singles \union Batches
Actors == Ops \union {Sweeper}

ASSUME NamesDiffer == /\ Singles \intersect Spans = {}
                      /\ Singles \intersect Batches = {}
                      /\ Sweeper \notin Ops
                      /\ None \notin Ops \union Batches

VARIABLES
  outstanding, \* m_outstanding
  submitted,   \* operations whose submitted_ flag is set
  batch,       \* futures with an entry in m_batch
  dispatch,    \* m_dispatch_pending
  drains,      \* drain callbacks scheduled on the loop
  phase,       \* [Actors -> where the completion is]
  trigger,     \* [Singles -> push() reported the count threshold]
  timed,       \* some IOCP worker is awake or waits with a time limit
  remaining,   \* [Batches -> remaining_]
  fut,         \* [Futures -> state of the asyncio future]
  lost,        \* operations whose result could not be converted
  loop,        \* "open" or "closed"
  reading,     \* <<read_many in progress or None, its next span>>
  harvesting,  \* the loop thread is in try_harvest_inline
  onLoop       \* the operation the loop thread is completing, or None

batcherVars == <<batch, dispatch, drains>>
loopVars == <<loop, reading, harvesting, onLoop>>
resultVars == <<fut, lost, remaining>>
countVars == <<outstanding, submitted>>
pushVars == <<trigger, timed>>
vars == <<countVars, batcherVars, phase, pushVars, resultVars, loopVars>>

Phases == {"new", "inflight", "answered", "counted", "finish", "flush",
           "schedule", "discard", "done"}

Init == /\ outstanding = 0
        /\ submitted = {}
        /\ batch = {}
        /\ dispatch = FALSE
        /\ drains = 0
        /\ phase = [a \in Actors |-> "new"]
        /\ trigger = [o \in Singles |-> FALSE]
        /\ timed = FALSE
        /\ remaining = [b \in Batches |-> Width]
        /\ fut = [f \in Futures |-> "pending"]
        /\ lost = {}
        /\ loop = "open"
        /\ reading = <<None, 1>>
        /\ harvesting = FALSE
        /\ onLoop = None

LoopIdle == /\ loop = "open"
            /\ reading[1] = None
            /\ ~harvesting
            /\ onLoop = None

\* future.set_result / set_exception on the loop thread; a cancelled future
\* raises InvalidStateError, which is swallowed.
Resolve(fs) == [f \in Futures |-> IF f \in fs /\ fut[f] = "pending" THEN "resolved"
                                  ELSE fut[f]]

\* The actor's completion is over; the sweeper starts again.
Finished(a) == [phase EXCEPT ![a] = IF a = Sweeper THEN "new" ELSE "done"]

\* The loop thread is free of `o' once its completion is over.
Freed(o, ph) == IF onLoop = o /\ ph = "done" THEN None ELSE onLoop
------------------------------------------------------------------------------
(* Submission, on the loop thread.                                         *)

\* make_shell() calls submitted(); the backend may then harvest inline.
Submit(o) ==
  /\ LoopIdle
  /\ phase[o] = "new"
  /\ submitted' = submitted \union {o}
  /\ outstanding' = outstanding + 1
  /\ phase' = [phase EXCEPT ![o] = "inflight"]
  /\ harvesting' = Inline
  /\ UNCHANGED <<batcherVars, pushVars, resultVars, loop, reading, onLoop>>

\* Mutant of SubmitInline: submitted_ is not asked before counting down.
SubmitInlineCounted(o) ==
  /\ LoopIdle
  /\ phase[o] = "new"
  /\ outstanding' = outstanding - 1
  /\ fut' = Resolve({o})
  /\ phase' = Finished(o)
  /\ UNCHANGED <<submitted, batcherVars, pushVars, remaining, lost, loopVars>>

\* End of file, closed file: complete_inline without submitted().
SubmitInline(o) ==
  /\ LoopIdle
  /\ phase[o] = "new"
  /\ fut' = Resolve({o})
  /\ phase' = Finished(o)
  /\ UNCHANGED <<countVars, batcherVars, pushVars, remaining, lost, loopVars>>

\* The backend throws, before or after submitted(): the exception leaves the
\* call and the future is dropped.
SubmitThrows(o) ==
  /\ MayThrow
  /\ LoopIdle
  /\ phase[o] = "new"
  /\ \/ UNCHANGED countVars
     \/ submitted' = submitted \union {o} /\ outstanding' = outstanding + 1
  /\ fut' = [fut EXCEPT ![o] = "dropped"]
  /\ phase' = Finished(o)
  /\ UNCHANGED <<batcherVars, pushVars, remaining, lost, loopVars>>

BeginReadMany(b) ==
  /\ LoopIdle
  /\ phase[<<b, 1>>] = "new"
  /\ reading' = <<b, 1>>
  /\ UNCHANGED <<countVars, batcherVars, phase, pushVars, resultVars, loop, harvesting, onLoop>>

\* The loop of read_many is between two read_at calls.
AtSpan(b) == reading[1] = b /\ ~harvesting /\ onLoop = None

NextSpan == IF reading[2] = Width THEN <<None, 1>> ELSE <<reading[1], reading[2] + 1>>

SubmitSpan(b) ==
  /\ AtSpan(b)
  /\ submitted' = submitted \union {reading}
  /\ outstanding' = outstanding + 1
  /\ phase' = [phase EXCEPT ![reading] = "inflight"]
  /\ reading' = NextSpan
  /\ harvesting' = Inline
  /\ UNCHANGED <<batcherVars, pushVars, resultVars, loop, onLoop>>

\* PyBatchState::complete of a span that needs no request.
InlineSpan(b) ==
  /\ AtSpan(b)
  /\ remaining' = [remaining EXCEPT ![b] = @ - 1]
  /\ fut' = IF remaining'[b] = 0 THEN Resolve({b}) ELSE fut
  /\ phase' = Finished(reading)
  /\ reading' = NextSpan
  /\ UNCHANGED <<countVars, batcherVars, pushVars, lost, loop, harvesting, onLoop>>

\* Mutant of SpanThrows: the failure finishes the batch at once.
SpanThrowsNow(b) ==
  /\ MayThrow
  /\ AtSpan(b)
  /\ fut' = Resolve({b})
  /\ phase' = [a \in Actors |-> IF a \in {<<b, i>> : i \in reading[2]..Width}
                                THEN "done" ELSE phase[a]]
  /\ reading' = <<None, 1>>
  /\ UNCHANGED <<countVars, batcherVars, pushVars, lost, remaining, loop, harvesting, onLoop>>

\* PyBatchState::fail_from: this span and the later ones are failed.
SpanThrows(b) ==
  /\ MayThrow
  /\ AtSpan(b)
  /\ \/ UNCHANGED countVars
     \/ submitted' = submitted \union {reading} /\ outstanding' = outstanding + 1
  /\ remaining' = [remaining EXCEPT ![b] = @ - (Width + 1 - reading[2])]
  /\ fut' = IF remaining'[b] = 0 THEN Resolve({b}) ELSE fut
  /\ phase' = [a \in Actors |-> IF a \in {<<b, i>> : i \in reading[2]..Width}
                                THEN "done" ELSE phase[a]]
  /\ reading' = <<None, 1>>
  /\ UNCHANGED <<batcherVars, pushVars, lost, loop, harvesting, onLoop>>

\* try_harvest_inline finds nothing more.
EndHarvest ==
  /\ harvesting
  /\ onLoop = None
  /\ harvesting' = FALSE
  /\ UNCHANGED <<countVars, batcherVars, phase, pushVars, resultVars, loop, reading, onLoop>>
------------------------------------------------------------------------------
(* Completion of a PyOperation: complete_locked.                           *)

\* On a worker: the entry is pushed; the adaptive threshold can be any
\* value up to m_threshold_max.  An IOCP worker is awake when it pushes; a
\* pool thread wakes none of them.
Push(o) ==
  /\ phase[o] = "inflight"
  /\ batch' = batch \union {o}
  /\ \E t \in 1..MaxThreshold :
       trigger' = [trigger EXCEPT ![o] = Cardinality(batch') >= t]
  /\ phase' = [phase EXCEPT ![o] = "answered"]
  /\ timed' \in {timed, HasSweep}
  /\ UNCHANGED <<countVars, dispatch, drains, resultVars, loopVars>>

\* convert() returns null: nothing is pushed.
ConvertFails(o) ==
  /\ MayFail
  /\ phase[o] = "inflight"
  /\ lost' = lost \union {o}
  /\ phase' = [phase EXCEPT ![o] = "answered"]
  /\ UNCHANGED <<countVars, batcherVars, pushVars, fut, remaining, loopVars>>

\* On the loop thread: the future is set at once.
Harvest(o) ==
  /\ phase[o] = "inflight"
  /\ harvesting
  /\ onLoop = None
  /\ onLoop' = o
  /\ fut' = Resolve({o})
  /\ phase' = [phase EXCEPT ![o] = "answered"]
  /\ UNCHANGED <<countVars, batcherVars, pushVars, remaining, lost, loop, reading, harvesting>>

\* Mutant of Count: only the threshold flushes.
CountOnly(o) ==
  /\ phase[o] = "answered"
  /\ submitted' = submitted \ {o}
  /\ outstanding' = outstanding - 1
  /\ LET next == IF trigger[o] THEN "flush" ELSE "done"
     IN  /\ phase' = [phase EXCEPT ![o] = next]
         /\ onLoop' = Freed(o, next)
  /\ UNCHANGED <<batcherVars, pushVars, resultVars, loop, reading, harvesting>>

\* op_completed(): flush on the threshold, or as the last one in flight.
Count(o) ==
  /\ phase[o] = "answered"
  /\ submitted' = submitted \ {o}
  /\ outstanding' = outstanding - 1
  /\ LET next == IF trigger[o] \/ outstanding = 1 THEN "flush" ELSE "done"
     IN  /\ phase' = [phase EXCEPT ![o] = next]
         /\ onLoop' = Freed(o, next)
  /\ UNCHANGED <<batcherVars, pushVars, resultVars, loop, reading, harvesting>>
------------------------------------------------------------------------------
(* Completion of a PyBatchOperation: complete, complete_inline and         *)
(* PyBatchState::complete, finish.                                         *)

\* op_completed(), its answer not looked at, on a worker or the loop thread.
CountSpan(o) ==
  /\ phase[o] = "inflight"
  /\ submitted' = submitted \ {o}
  /\ outstanding' = outstanding - 1
  /\ phase' = [phase EXCEPT ![o] = "counted"]
  /\ \/ UNCHANGED onLoop
     \/ harvesting /\ onLoop = None /\ onLoop' = o
  /\ UNCHANGED <<batcherVars, pushVars, resultVars, loop, reading, harvesting>>

\* The slot is stored; the last span finishes the batch, inline by setting
\* the future, otherwise through the batcher.
Store(o) ==
  LET b == o[1]
      last == remaining[b] = 1
      next == IF last /\ onLoop # o THEN "finish" ELSE "done"
  IN  /\ phase[o] = "counted"
      /\ remaining' = [remaining EXCEPT ![b] = @ - 1]
      /\ fut' = IF last /\ onLoop = o THEN Resolve({b}) ELSE fut
      /\ phase' = [phase EXCEPT ![o] = next]
      /\ onLoop' = Freed(o, next)
      /\ UNCHANGED <<countVars, batcherVars, pushVars, lost, loop, reading, harvesting>>

PushBatch(o) ==
  /\ phase[o] = "finish"
  /\ batch' = batch \union {o[1]}
  /\ phase' = [phase EXCEPT ![o] = "flush"]
  /\ timed' \in {timed, HasSweep}
  /\ UNCHANGED <<countVars, dispatch, drains, trigger, resultVars, loopVars>>
------------------------------------------------------------------------------
(* flush, schedule_drain, the drain callback and flush_if_idle.            *)

\* Mutant of Flush: m_dispatch_pending is not tested.
FlushAgain(a) ==
  /\ phase[a] = "flush"
  /\ batch # {}
  /\ dispatch' = TRUE
  /\ phase' = [phase EXCEPT ![a] = "schedule"]
  /\ UNCHANGED <<countVars, batch, drains, pushVars, resultVars, loopVars>>

Flush(a) ==
  /\ phase[a] = "flush"
  /\ IF batch = {} \/ dispatch
     THEN /\ phase' = Finished(a)
          /\ onLoop' = Freed(a, "done")
          /\ UNCHANGED dispatch
     ELSE /\ dispatch' = TRUE
          /\ phase' = [phase EXCEPT ![a] = "schedule"]
          /\ UNCHANGED onLoop
  /\ UNCHANGED <<countVars, batch, drains, pushVars, resultVars, loop, reading, harvesting>>

\* call_soon_threadsafe; a closed loop refuses it.
CallSoon(a) ==
  /\ phase[a] = "schedule"
  /\ IF loop = "open"
     THEN /\ drains' = drains + 1
          /\ phase' = Finished(a)
          /\ onLoop' = Freed(a, "done")
     ELSE /\ phase' = [phase EXCEPT ![a] = "discard"]
          /\ UNCHANGED <<drains, onLoop>>
  /\ UNCHANGED <<countVars, batch, dispatch, pushVars, resultVars, loop, reading, harvesting>>

\* Mutants of CallSoonFails: every failure discards; the flag stays set.
CallSoonDiscards(o) ==
  /\ MayFail
  /\ phase[o] = "schedule"
  /\ loop = "open"
  /\ phase' = [phase EXCEPT ![o] = "discard"]
  /\ UNCHANGED <<countVars, batcherVars, pushVars, resultVars, loopVars>>

CallSoonForgets(o) ==
  /\ MayFail
  /\ phase[o] = "schedule"
  /\ loop = "open"
  /\ phase' = Finished(o)
  /\ onLoop' = Freed(o, "done")
  /\ UNCHANGED <<countVars, batcherVars, pushVars, resultVars, loop, reading, harvesting>>

\* It fails on an open loop (no memory): the entries stay.
CallSoonFails(o) ==
  /\ MayFail
  /\ phase[o] = "schedule"
  /\ loop = "open"
  /\ dispatch' = FALSE
  /\ phase' = Finished(o)
  /\ onLoop' = Freed(o, "done")
  /\ UNCHANGED <<countVars, batch, drains, pushVars, resultVars, loop, reading, harvesting>>

Discard(a) ==
  /\ phase[a] = "discard"
  /\ batch' = {}
  /\ dispatch' = FALSE
  /\ phase' = Finished(a)
  /\ onLoop' = Freed(a, "done")
  /\ UNCHANGED <<countVars, drains, pushVars, resultVars, loop, reading, harvesting>>

\* Mutant of Drain: m_dispatch_pending is not cleared.
DrainKeepsFlag ==
  /\ LoopIdle
  /\ drains > 0
  /\ drains' = drains - 1
  /\ batch' = {}
  /\ fut' = Resolve(batch)
  /\ UNCHANGED <<countVars, dispatch, phase, pushVars, remaining, lost, loopVars>>

\* The callback takes the whole batch in one m_mtx section; the futures it
\* then sets are read by this thread only.
Drain ==
  /\ LoopIdle
  /\ drains > 0
  /\ drains' = drains - 1
  /\ batch' = {}
  /\ dispatch' = FALSE
  /\ fut' = Resolve(batch)
  /\ UNCHANGED <<countVars, phase, pushVars, remaining, lost, loopVars>>

\* A worker works out how long to wait: for ever when no batch holds anything
\* (and no released request is in quarantine, which also limits a wait).
WaitForPackets ==
  /\ HasSweep
  /\ phase[Sweeper] = "new"
  /\ timed' \in {TRUE, batch # {}}
  /\ UNCHANGED <<countVars, batcherVars, phase, trigger, resultVars, loopVars>>

\* flush_if_idle() of an expired batch, by a worker whose wait has ended.
Sweep ==
  /\ timed
  /\ phase[Sweeper] = "new"
  /\ batch # {}
  /\ ~dispatch
  /\ dispatch' = TRUE
  /\ phase' = [phase EXCEPT ![Sweeper] = "schedule"]
  /\ UNCHANGED <<countVars, batch, drains, pushVars, resultVars, loopVars>>
------------------------------------------------------------------------------
(* The program on the loop.                                                *)

Cancel(f) ==
  /\ LoopIdle
  /\ fut[f] = "pending"
  /\ phase[IF f \in Singles THEN f ELSE <<f, 1>>] # "new"
  /\ fut' = [fut EXCEPT ![f] = "cancelled"]
  /\ UNCHANGED <<countVars, batcherVars, phase, pushVars, remaining, lost, loopVars>>

\* loop.close() drops the callbacks that have not run.
CloseLoop ==
  /\ LoopIdle
  /\ loop' = "closed"
  /\ drains' = 0
  /\ UNCHANGED <<countVars, batch, dispatch, phase, pushVars, resultVars,
                 reading, harvesting, onLoop>>
------------------------------------------------------------------------------
Arrive(o) == IF o \in Singles THEN Push(o) \/ ConvertFails(o) ELSE CountSpan(o)

\* The rest of a completion that has begun.
Complete(a) ==
  \/ a \in Singles /\ Count(a)
  \/ a \in Spans /\ (Store(a) \/ PushBatch(a))
  \/ a \in Ops /\ CallSoonFails(a)
  \/ Flush(a) \/ CallSoon(a) \/ Discard(a)

LoopStep == \/ EndHarvest
            \/ \E b \in Batches : SubmitSpan(b) \/ InlineSpan(b) \/ SpanThrows(b)

Next ==
  \/ \E o \in Singles : Submit(o) \/ SubmitInline(o) \/ SubmitThrows(o) \/ Harvest(o)
  \/ \E b \in Batches : BeginReadMany(b)
  \/ \E o \in Ops : Arrive(o)
  \/ \E a \in Actors : Complete(a)
  \/ \E f \in Futures : Cancel(f)
  \/ LoopStep
  \/ Drain
  \/ WaitForPackets
  \/ Sweep
  \/ CloseLoop

Spec == Init /\ [][Next]_vars

\* Threads that have begun a completion go on, the loop thread leaves the
\* module and runs its callbacks, and an IOCP worker that waits with a time
\* limit wakes up.
\* Nothing obliges an operation in flight to end.
DeliverySpec == /\ Spec
                /\ \A a \in Actors : WF_vars(Complete(a))
                /\ WF_vars(LoopStep)
                /\ WF_vars(Drain)
                /\ WF_vars(Sweep)

\* The same when every operation in flight ends.
FairSpec == DeliverySpec /\ \A o \in Ops : WF_vars(Arrive(o))
------------------------------------------------------------------------------
(* Properties.                                                             *)

\* The state stays within its types: m_outstanding is not counted down by
\* more operations than were counted up, nor remaining_ below zero.
TypeOK ==
  /\ outstanding \in Nat
  /\ submitted \subseteq Ops
  /\ batch \subseteq Futures
  /\ dispatch \in BOOLEAN
  /\ drains \in Nat
  /\ phase \in [Actors -> Phases]
  /\ trigger \in [Singles -> BOOLEAN]
  /\ timed \in BOOLEAN
  /\ remaining \in [Batches -> 0..Width]
  /\ fut \in [Futures -> {"pending", "resolved", "cancelled", "dropped"}]
  /\ lost \subseteq Singles
  /\ loop \in {"open", "closed"}
  /\ reading \in (Batches \union {None}) \X (1..Width)
  /\ harvesting \in BOOLEAN
  /\ onLoop \in Ops \union {None}

\* Completions that have set m_dispatch_pending and not yet scheduled a drain.
Scheduling == {a \in Actors : phase[a] \in {"schedule", "discard"}}

\* m_dispatch_pending stands for exactly one drain that is scheduled or is
\* being scheduled.  With none, results would wait for ever behind the flag;
\* with two, a callback would run on an empty batch.
OneDrain == loop = "open" =>
              drains + Cardinality(Scheduling) = (IF dispatch THEN 1 ELSE 0)

\* While the loop is open no answered operation loses its result: it waits
\* in the batch or its future has been set.
NothingLost ==
  loop = "open" =>
    /\ \A o \in Singles \ lost : phase[o] \in {"answered", "flush", "schedule", "done"} =>
         o \in batch \/ fut[o] # "pending"
    /\ \A b \in Batches : remaining[b] = 0 =>
         \/ b \in batch
         \/ fut[b] # "pending"
         \/ \E i \in 1..Width : phase[<<b, i>>] = "finish"

\* read_many answers when all its spans have been stored or failed, and no
\* sooner; a future with an entry in the batch has not been answered.
ReadManyWaits ==
  /\ \A b \in Batches : b \in batch \/ fut[b] = "resolved" =>
       \A i \in 1..Width : phase[<<b, i>>] \notin {"new", "inflight", "counted"}
  /\ \A f \in batch : fut[f] \in {"pending", "cancelled"}

\* A result never waits unattended: while the batch holds one, a drain is on
\* its way, an operation that will look at the batch again is under way, or
\* read_many is about to submit one.
NoStrandedResult ==
  loop = "open" /\ batch # {} /\ ~dispatch =>
    \/ \E o \in Ops : phase[o] \in {"inflight", "answered", "counted", "finish", "flush"}
    \/ reading[1] # None

\* Every result that reached the batch leaves it.
Delivered == \A f \in Futures : f \in batch ~> f \notin batch \/ loop = "closed"

\* result_batcher.hpp:24-25: besides the count there is a second trigger, a
\* flush when the oldest entry is older than the idle timeout.  A result in
\* the batch reaches its caller, even if no other operation ever completes,
\* once a worker is awake or waits with a time limit; one pushed by a pool
\* thread while every worker waits for ever is not covered.
IdleTrigger ==
  \A f \in Futures :
    f \in batch /\ fut[f] = "pending" /\ timed ~> fut[f] # "pending" \/ loop = "closed"

\* result_batcher.hpp:76-79: the completion that takes the count to zero is
\* the last for a while, so the caller flushes at once.
LastOpFlushes ==
  /\ loop = "open"
  /\ outstanding = 0
  /\ reading[1] = None
  /\ \A o \in Ops : phase[o] \in {"new", "done"}
  => batch = {} \/ dispatch
==============================================================================
