---------------------------- MODULE ThreadBackend ----------------------------
(***************************************************************************)
(* One ThreadIOBackend object (backend/thread/thread_io_backend.cpp) with  *)
(* the completion half of core/io_backend.cpp: submission of operations,   *)
(* their execution by pool workers, close_impl() and the destructor.       *)
(*                                                                         *)
(* The atomics m_pending, running_ and the semaphore m_close_wake are      *)
(* separate steps, so every interleaving of submitters, workers and the    *)
(* closing thread is explored.  The pool is reduced to a set of queued     *)
(* tasks from which at most NumWorkers are in progress (GlobalThreadPool   *)
(* models the pool itself).                                                *)
(***************************************************************************)
EXTENDS Integers, FiniteSets

CONSTANTS
  Ops,          \* operations submitted during the life of the object
  CloseCalls,   \* calls of close(), close_impl() made through the handle
  Dtor,         \* the call of close_impl() made by the destructor
  NumWorkers,   \* pool threads
  OneCaller,    \* TRUE: calls on the object never overlap (one event loop)
  OwnsFd,       \* m_owns_fd
  MayThrow      \* TRUE: handing a task to the pool may throw

ASSUME OpsFinite == IsFiniteSet(Ops)
ASSUME DtorIsNoCall == Dtor \notin CloseCalls
ASSUME NumWorkersIsNat == NumWorkers \in Nat \ {0}
ASSUME FlagsAreBoolean == /\ OneCaller \in BOOLEAN
                          /\ OwnsFd \in BOOLEAN
                          /\ MayThrow \in BOOLEAN

Closers == CloseCalls \union {Dtor}

VARIABLES
  running,    \* running_
  fd,         \* fd_: "open", "dangling" (closed, number still stored), "invalid"
  pending,    \* m_pending
  wake,       \* permits of m_close_wake
  stage,      \* [Ops -> where the operation is]
  result,     \* [Ops -> what its Operation was completed with]
  cpc,        \* [Closers -> where close_impl() is]
  expired,    \* the deadline of the close in progress has passed
  abandoned,  \* close_impl() left its loop because of the deadline
  alive       \* the object has not been destroyed

vars == <<running, fd, pending, wake, stage, result, cpc, expired, abandoned,
          alive>>

Stages == {"new", "admitted", "queued", "executing", "executed",
           "uncounted", "signalled", "done", "leaked"}
Results == {"none", "ok", "error", "foreign", "closed"}
ClosePcs == {"idle", "loop", "waiting", "release", "reset", "returned"}

\* Operations that m_pending counts.
Counted == {o \in Ops : stage[o] \in {"queued", "executing", "executed", "leaked"}}

Closed == ~running \/ fd = "invalid"

Closing == {c \in Closers : cpc[c] \in {"loop", "waiting", "release", "reset"}}

\* A call through the Python object is possible: the object is alive and
\* nothing has started to destroy it.
Callable == /\ alive
            /\ cpc[Dtor] = "idle"
            /\ OneCaller => /\ Closing = {}
                            /\ \A o \in Ops : stage[o] # "admitted"

Init == /\ running = TRUE
        /\ fd = "open"
        /\ pending = 0
        /\ wake = 0
        /\ stage = [o \in Ops |-> "new"]
        /\ result = [o \in Ops |-> "none"]
        /\ cpc = [c \in Closers |-> "idle"]
        /\ expired = FALSE
        /\ abandoned = FALSE
        /\ alive = TRUE
------------------------------------------------------------------------------
(* Submission: read, read_at, write, readinto.                             *)

\* The closed() guard at the head of every submitting call; a closed file
\* completes the operation at once with ValueError.
Enter(o) ==
  /\ Callable
  /\ stage[o] = "new"
  /\ IF Closed
     THEN /\ stage' = [stage EXCEPT ![o] = "done"]
          /\ result' = [result EXCEPT ![o] = "closed"]
     ELSE /\ stage' = [stage EXCEPT ![o] = "admitted"]
          /\ UNCHANGED result
  /\ UNCHANGED <<running, fd, pending, wake, cpc, expired, abandoned, alive>>

\* End of file, empty write, bad offset: no request is made and the
\* operation is completed by the submitting thread.
FinishInline(o) ==
  /\ stage[o] = "admitted"
  /\ stage' = [stage EXCEPT ![o] = "done"]
  /\ result' = [result EXCEPT ![o] = "ok"]
  /\ UNCHANGED <<running, fd, pending, wake, cpc, expired, abandoned, alive>>

\* make_req*, m_pending.fetch_add(1) and enqueue_task.
Enqueue(o) ==
  /\ stage[o] = "admitted"
  /\ pending' = pending + 1
  /\ stage' = [stage EXCEPT ![o] = "queued"]
  /\ UNCHANGED <<running, fd, wake, result, cpc, expired, abandoned, alive>>

\* enqueue_task throws (a worker thread or a queue node cannot be created):
\* the exception leaves the call, nothing takes the increment back.
EnqueueThrows(o) ==
  /\ MayThrow
  /\ stage[o] = "admitted"
  /\ pending' = pending + 1
  /\ stage' = [stage EXCEPT ![o] = "leaked"]
  /\ result' = [result EXCEPT ![o] = "error"]
  /\ UNCHANGED <<running, fd, wake, cpc, expired, abandoned, alive>>
------------------------------------------------------------------------------
(* The task, run by a worker of the pool.                                  *)

Busy == {o \in Ops : stage[o] \in {"executing", "executed", "uncounted", "signalled"}}

StartTask(o) ==
  /\ stage[o] = "queued"
  /\ Cardinality(Busy) < NumWorkers
  /\ stage' = [stage EXCEPT ![o] = "executing"]
  /\ UNCHANGED <<running, fd, pending, wake, result, cpc, expired, abandoned, alive>>

\* file_pread / file_pwrite.  An I/O error is always possible; the number
\* of a closed descriptor may already name another file; fd_ of a destroyed
\* object can be anything.
IoOutcomes ==
  IF ~alive THEN {"ok", "error", "foreign"}
  ELSE CASE fd = "open"     -> {"ok", "error"}
         [] fd = "dangling" -> {"error", "foreign"}
         [] OTHER           -> {"error"}

Execute(o) ==
  /\ stage[o] = "executing"
  /\ \E r \in IoOutcomes : result' = [result EXCEPT ![o] = r]
  /\ stage' = [stage EXCEPT ![o] = "executed"]
  /\ UNCHANGED <<running, fd, pending, wake, cpc, expired, abandoned, alive>>

\* Mutants of Uncount: the count is taken back twice; the count is taken
\* back and m_close_wake.release() is missing.
UncountTwice(o) ==
  /\ stage[o] = "executed"
  /\ pending' = pending - 2
  /\ stage' = [stage EXCEPT ![o] = "uncounted"]
  /\ UNCHANGED <<running, fd, wake, result, cpc, expired, abandoned, alive>>

UncountSilently(o) ==
  /\ stage[o] = "executed"
  /\ pending' = pending - 1
  /\ stage' = [stage EXCEPT ![o] = "signalled"]
  /\ UNCHANGED <<running, fd, wake, result, cpc, expired, abandoned, alive>>

\* complete_ok / complete_error, first m_pending.fetch_sub(1) ...
Uncount(o) ==
  /\ stage[o] = "executed"
  /\ pending' = pending - 1
  /\ stage' = [stage EXCEPT ![o] = "uncounted"]
  /\ UNCHANGED <<running, fd, wake, result, cpc, expired, abandoned, alive>>

\* ... then m_close_wake.release() ...
Signal(o) ==
  /\ stage[o] = "uncounted"
  /\ wake' = wake + 1
  /\ stage' = [stage EXCEPT ![o] = "signalled"]
  /\ UNCHANGED <<running, fd, pending, result, cpc, expired, abandoned, alive>>

\* Mutant of Deliver: complete_error() forgets the operation.
DeliverOk(o) ==
  /\ stage[o] = "signalled"
  /\ result[o] = "ok"
  /\ stage' = [stage EXCEPT ![o] = "done"]
  /\ UNCHANGED <<running, fd, pending, wake, result, cpc, expired, abandoned, alive>>

\* ... then operation->complete() and REQ_FREE, which need the request only.
Deliver(o) ==
  /\ stage[o] = "signalled"
  /\ stage' = [stage EXCEPT ![o] = "done"]
  /\ UNCHANGED <<running, fd, pending, wake, result, cpc, expired, abandoned, alive>>
------------------------------------------------------------------------------
(* close_impl() and destruction.                                           *)

\* compare_exchange on running_: the loser returns at once.
BeginClose(c) ==
  /\ cpc[c] = "idle"
  /\ IF c = Dtor
     THEN /\ alive
          /\ Closing = {}
          /\ \A o \in Ops : stage[o] # "admitted"
     ELSE Callable
  /\ running' = FALSE
  /\ cpc' = [cpc EXCEPT ![c] = IF running THEN "loop" ELSE "returned"]
  /\ UNCHANGED <<fd, pending, wake, stage, result, expired, abandoned, alive>>

\* The while condition and the two deadline tests.
TestPending(c) ==
  /\ cpc[c] = "loop"
  /\ cpc' = [cpc EXCEPT ![c] = IF pending > 0 /\ ~expired THEN "waiting" ELSE "release"]
  /\ abandoned' = (pending > 0 /\ expired)
  /\ UNCHANGED <<running, fd, pending, wake, stage, result, expired, alive>>

\* Mutant of Acquire: m_pending is not looked at again after the wake-up.
AcquireOnce(c) ==
  /\ cpc[c] = "waiting"
  /\ wake > 0
  /\ wake' = wake - 1
  /\ cpc' = [cpc EXCEPT ![c] = "release"]
  /\ UNCHANGED <<running, fd, pending, stage, result, expired, abandoned, alive>>

\* try_acquire_for(remaining) gets a permit ...
Acquire(c) ==
  /\ cpc[c] = "waiting"
  /\ wake > 0
  /\ wake' = wake - 1
  /\ cpc' = [cpc EXCEPT ![c] = "loop"]
  /\ UNCHANGED <<running, fd, pending, stage, result, expired, abandoned, alive>>

\* ... or gives up at the deadline.
GiveUp(c) ==
  /\ cpc[c] = "waiting"
  /\ expired
  /\ cpc' = [cpc EXCEPT ![c] = "loop"]
  /\ UNCHANGED <<running, fd, pending, wake, stage, result, expired, abandoned, alive>>

\* steady_clock passes the deadline.
Expire ==
  /\ \E c \in Closers : cpc[c] \in {"loop", "waiting"}
  /\ ~expired
  /\ expired' = TRUE
  /\ UNCHANGED <<running, fd, pending, wake, stage, result, cpc, abandoned, alive>>

\* file_close, for an owned descriptor ...
ReleaseFd(c) ==
  /\ cpc[c] = "release"
  /\ fd' = IF OwnsFd THEN "dangling" ELSE fd
  /\ cpc' = [cpc EXCEPT ![c] = IF OwnsFd THEN "reset" ELSE "returned"]
  /\ UNCHANGED <<running, pending, wake, stage, result, expired, abandoned, alive>>

\* ... then fd_ = kFileInvalid.
ResetFd(c) ==
  /\ cpc[c] = "reset"
  /\ fd' = "invalid"
  /\ cpc' = [cpc EXCEPT ![c] = "returned"]
  /\ UNCHANGED <<running, pending, wake, stage, result, expired, abandoned, alive>>

\* The destructor's close_impl() has returned; the members go away.
Destroy ==
  /\ alive
  /\ cpc[Dtor] = "returned"
  /\ alive' = FALSE
  /\ UNCHANGED <<running, fd, pending, wake, stage, result, cpc, expired, abandoned>>
------------------------------------------------------------------------------
Worker(o) == Execute(o) \/ Uncount(o) \/ Signal(o) \/ Deliver(o)

CloseStep(c) == TestPending(c) \/ Acquire(c) \/ GiveUp(c) \/ ReleaseFd(c) \/ ResetFd(c)

Next ==
  \/ \E o \in Ops : \/ Enter(o) \/ FinishInline(o) \/ Enqueue(o) \/ EnqueueThrows(o)
                    \/ StartTask(o) \/ Worker(o)
  \/ \E c \in Closers : BeginClose(c) \/ CloseStep(c)
  \/ Expire
  \/ Destroy

Spec == Init /\ [][Next]_vars

\* A thread that is inside a call goes on, the pool runs what it is given
\* and a closing thread keeps running; nothing obliges a caller to make a
\* call, nor the clock to pass the deadline.
Fairness ==
  /\ \A o \in Ops : /\ WF_vars(FinishInline(o) \/ Enqueue(o) \/ EnqueueThrows(o))
                    /\ WF_vars(StartTask(o))
                    /\ WF_vars(Worker(o))
  /\ \A c \in Closers : WF_vars(CloseStep(c))

FairSpec == Spec /\ Fairness
------------------------------------------------------------------------------
(* Properties.                                                             *)

\* The state stays within its types: no permit of m_close_wake is taken that
\* was not released.
TypeOK ==
  /\ running \in BOOLEAN
  /\ fd \in {"open", "dangling", "invalid"}
  /\ pending \in Int
  /\ wake \in Nat
  /\ stage \in [Ops -> Stages]
  /\ result \in [Ops -> Results]
  /\ cpc \in [Closers -> ClosePcs]
  /\ expired \in BOOLEAN
  /\ abandoned \in BOOLEAN
  /\ alive \in BOOLEAN

\* m_pending is exactly the number of requests handed to the pool and not
\* yet completed: a count that is too small makes close_impl() release the
\* descriptor under a running task, one that is too large makes every close
\* last for the whole timeout.
PendingIsExact == pending = Cardinality(Counted)

\* close_impl() cannot sleep through the last completion: whenever it waits
\* with nothing pending, a permit is there or the worker that took the count
\* to zero is about to release one.
NoLostWakeup ==
  \A c \in Closers :
    cpc[c] = "waiting" /\ pending = 0 =>
      wake > 0 \/ \E o \in Ops : stage[o] = "uncounted"

\* Unless the deadline made close_impl() give up, releasing the descriptor
\* leaves no admitted operation behind: no task can run on a closed (or
\* reused) descriptor, and none can still need the object once it is
\* destroyed, up to the final m_close_wake.release().
DrainedWhenReleased ==
  OneCaller /\ (fd # "open" \/ ~alive) /\ ~abandoned =>
    \A o \in Ops : stage[o] \in {"new", "uncounted", "signalled", "done"}

\* Every submitted operation is delivered, whatever close does meanwhile.
OpsFinish == \A o \in Ops : stage[o] = "admitted" ~> stage[o] \in {"done", "leaked"}

\* close_impl() returns because of the completions alone: the deadline is
\* needed only for an operation that was counted and never handed over.
CloseReturns ==
  \A c \in Closers :
    cpc[c] = "loop" ~> cpc[c] = "returned" \/ \E o \in Ops : stage[o] = "leaked"

\* What a client of the handle is promised.  An operation is inside from its
\* admission until its request is no longer counted.
Barrier == INSTANCE CloseBarrier WITH
  gate    <- IF running THEN "open"
             ELSE IF \E c \in Closers : cpc[c] \in {"loop", "waiting", "release"}
                  THEN "shut"
                  ELSE "released",
  inside  <- {o \in Ops : stage[o] \in {"admitted", "queued", "executing", "executed", "leaked"}},
  left    <- {o \in Ops : \/ stage[o] \in {"uncounted", "signalled"}
                          \/ stage[o] = "done" /\ result[o] # "closed"},
  overdue <- expired

\* With calls that do not overlap, the backend implements the barrier.
ImplementsBarrier == Barrier!Spec
==============================================================================
