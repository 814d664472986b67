-------------------------- MODULE GlobalThreadPool --------------------------
(***************************************************************************)
(* core/global_thread_pool.cpp: the process-wide pool that runs the file   *)
(* operations of the thread backend, native opens and whole-file reads.    *)
(*                                                                         *)
(* m_running_workers and m_target are atomics that the workers read        *)
(* without m_mtx, so the loads, the compare-exchange and the final store   *)
(* of a resize are separate steps.                                         *)
(***************************************************************************)
EXTENDS Integers, FiniteSets

CONSTANTS
  Tasks,       \* tasks handed to enqueue()
  Threads,     \* the threads the system grants; one that has exited may be
               \* created again
  Sizes,       \* worker counts that configure() may ask for
  NoTask,
  MaxResizes,  \* bound on the calls of target_workers()
  MayShutdown  \* TRUE: shutdown() may be called, once

ASSUME ThreadsAreFinite == IsFiniteSet(Threads)
ASSUME SizesArePositive == Sizes \subseteq Nat \ {0}
ASSUME MaxResizesIsNat == MaxResizes \in Nat
ASSUME NoTaskIsNone == NoTask \notin Tasks

VARIABLES
  workers,   \* m_running_workers
  target,    \* m_target
  started,   \* m_workers is not empty
  queue,     \* m_tasks
  tpc,       \* [Tasks -> progress of the submission and of the task]
  wpc,       \* [Threads -> where worker_loop is]
  job,       \* [Threads -> the task in hand]
  cur,       \* [Threads -> `cur' of worker_retire_due]
  want,      \* [Threads -> `want' of worker_retire_due]
  resize,    \* target_workers in progress: step, size, its `cur'
  resizes,   \* calls of target_workers so far
  halt,      \* "no", "cleared" (count exchanged), "stopping" (stop requested), "over"
  slips      \* history: what has gone wrong so far (see Create and Retire)

workerVars == <<wpc, job, cur, want>>
resizeVars == <<resize, resizes>>
poolVars == <<workers, target, started, queue, tpc, workerVars, resizeVars, halt, slips>>

Idle == [step |-> "none", size |-> 0, cur |-> 0]

\* Threads that exist; m_mtx is free.
Live == {t \in Threads : wpc[t] # "gone"}
Unlocked == resize.step = "none"

\* n threads are created; which names they get makes no difference.
Spawn(n) ==
  LET new == CHOOSE s \in SUBSET (Threads \ Live) : Cardinality(s) = n
  IN  [t \in Threads |-> IF t \in new THEN "top" ELSE wpc[t]]

\* m of n threads are created; if m < n, the constructor of the next one, or
\* m_workers for want of memory, throws.
Create(m, n) ==
  /\ m <= n
  /\ m <= Cardinality(Threads \ Live)
  /\ wpc' = Spawn(m)
  /\ slips' = IF m < n THEN slips \union {"threw"} ELSE slips

PoolInit == /\ workers = 0
            /\ target = 0
            /\ started = FALSE
            /\ queue = {}
            /\ tpc = [k \in Tasks |-> "new"]
            /\ wpc = [t \in Threads |-> "gone"]
            /\ job = [t \in Threads |-> NoTask]
            /\ cur = [t \in Threads |-> 0]
            /\ want = [t \in Threads |-> 0]
            /\ resize = Idle
            /\ resizes = 0
            /\ halt = "no"
            /\ slips = {}
------------------------------------------------------------------------------
(* Submission: ensure_started(), then enqueue().                           *)

\* The pool is started by the first caller that finds it empty.  The new
\* threads may run before the two stores, but with a count of zero they
\* cannot retire, so the start is one step.  If it throws, the stores are not
\* made, the threads that were created stay, and the submission has failed:
\* it may be made again.
EnsureStarted(k) ==
  /\ tpc[k] = "new"
  /\ \/ /\ workers > 0 \/ (Unlocked /\ started)
        /\ tpc' = [tpc EXCEPT ![k] = "checked"]
        /\ UNCHANGED <<workers, target, started, wpc, slips>>
     \/ /\ workers = 0
        /\ Unlocked
        /\ ~started
        /\ \E n \in Sizes, m \in 0..Cardinality(Threads) :
             /\ Create(m, n)
             /\ started' = (m > 0)
             /\ target' = IF m = n THEN n ELSE target
             /\ workers' = IF m = n THEN n ELSE workers
             /\ tpc' = IF m = n THEN [tpc EXCEPT ![k] = "checked"] ELSE tpc
  /\ UNCHANGED <<queue, job, cur, want, resizeVars, halt>>

PoolEnqueue(k) ==
  /\ tpc[k] = "checked"
  /\ Unlocked
  /\ queue' = queue \union {k}
  /\ tpc' = [tpc EXCEPT ![k] = "queued"]
  /\ UNCHANGED <<workers, target, started, workerVars, resizeVars, halt, slips>>
------------------------------------------------------------------------------
(* target_workers(), called by configure().                                *)

\* A pool that has not been started is left alone.
BeginResize(n) ==
  /\ halt = "no"
  /\ Unlocked
  /\ started
  /\ resizes < MaxResizes
  /\ resizes' = resizes + 1
  /\ target' = n
  /\ resize' = [step |-> "set", size |-> n, cur |-> 0]
  /\ UNCHANGED <<workers, started, queue, tpc, workerVars, halt, slips>>

\* Mutant of LoadCount: a started pool never grows.
LoadAndIgnore ==
  /\ resize.step = "set"
  /\ resize' = Idle
  /\ UNCHANGED <<workers, target, started, queue, tpc, workerVars, resizes, halt, slips>>

LoadCount ==
  /\ resize.step = "set"
  /\ resize' = IF resize.size > workers
               THEN [resize EXCEPT !.step = "grow", !.cur = workers]
               ELSE Idle
  /\ UNCHANGED <<workers, target, started, queue, tpc, workerVars, resizes, halt, slips>>

\* The missing threads are created and the count is stored, unless creating
\* one throws: configure() fails, and the count stays what it was.
Grow ==
  /\ resize.step = "grow"
  /\ \E m \in 0..Cardinality(Threads) :
       /\ Create(m, resize.size - resize.cur)
       /\ workers' = IF m = resize.size - resize.cur THEN resize.size ELSE workers
  /\ resize' = Idle
  /\ UNCHANGED <<target, started, queue, tpc, job, cur, want, resizes, halt>>
------------------------------------------------------------------------------
(* worker_loop() and worker_retire_due().                                  *)

\* worker_retire_due returns; its locals are gone.
Leave(t, pc) == /\ wpc' = [wpc EXCEPT ![t] = pc]
                /\ cur' = [cur EXCEPT ![t] = 0]
                /\ want' = [want EXCEPT ![t] = 0]

LoadCur(t) ==
  /\ wpc[t] = "top"
  /\ halt # "stopping"
  /\ cur' = [cur EXCEPT ![t] = workers]
  /\ wpc' = [wpc EXCEPT ![t] = "read"]
  /\ UNCHANGED <<workers, target, started, queue, tpc, job, want, resizeVars, halt, slips>>

LoadWant(t) ==
  /\ wpc[t] = "read"
  /\ IF cur[t] > target
     THEN /\ want' = [want EXCEPT ![t] = target]
          /\ wpc' = [wpc EXCEPT ![t] = "cas"]
          /\ UNCHANGED cur
     ELSE Leave(t, "wait")
  /\ UNCHANGED <<workers, target, started, queue, tpc, job, resizeVars, halt, slips>>

\* compare_exchange_weak: on success the thread ends; on failure the count
\* is read again, the target is not.  It slips if the target has been raised
\* meanwhile: the pool may stay below it ("stale"), and a resize that has
\* loaded the count forgets the retirement ("forgotten").
Retire(t) ==
  /\ wpc[t] = "cas"
  /\ \/ /\ workers = cur[t]
        /\ workers' = workers - 1
        /\ slips' = slips \union (IF workers > target THEN {}
                                 ELSE IF resize.step = "grow" THEN {"forgotten"}
                                 ELSE {"stale"})
        /\ Leave(t, "gone")
     \/ /\ workers # cur[t]
        /\ workers > want[t]
        /\ cur' = [cur EXCEPT ![t] = workers]
        /\ UNCHANGED <<workers, wpc, want, slips>>
     \/ /\ workers # cur[t]
        /\ workers <= want[t]
        /\ Leave(t, "wait")
        /\ UNCHANGED <<workers, slips>>
  /\ UNCHANGED <<target, started, queue, tpc, job, resizeVars, halt>>

\* wait_for finds a task ...
Take(t) ==
  /\ wpc[t] = "wait"
  /\ Unlocked
  /\ \E k \in queue :
       /\ queue' = queue \ {k}
       /\ job' = [job EXCEPT ![t] = k]
       /\ tpc' = [tpc EXCEPT ![k] = "running"]
  /\ wpc' = [wpc EXCEPT ![t] = "busy"]
  /\ UNCHANGED <<workers, target, started, cur, want, resizeVars, halt, slips>>

\* Mutant of WaitEnds: an idle worker ends, still counted.
WaitKills(t) ==
  /\ wpc[t] = "wait"
  /\ Unlocked
  /\ queue = {}
  /\ wpc' = [wpc EXCEPT ![t] = "gone"]
  /\ UNCHANGED <<workers, target, started, queue, tpc, job, cur, want, resizeVars, halt, slips>>

\* ... or ends without one, after 50 ms or because of the stop request.
WaitEnds(t) ==
  /\ wpc[t] = "wait"
  /\ Unlocked
  /\ queue = {}
  /\ wpc' = [wpc EXCEPT ![t] = "top"]
  /\ UNCHANGED <<workers, target, started, queue, tpc, job, cur, want, resizeVars, halt, slips>>

FinishTask(t) ==
  /\ wpc[t] = "busy"
  /\ tpc' = [tpc EXCEPT ![job[t]] = "done"]
  /\ job' = [job EXCEPT ![t] = NoTask]
  /\ wpc' = [wpc EXCEPT ![t] = "top"]
  /\ UNCHANGED <<workers, target, started, queue, cur, want, resizeVars, halt, slips>>

\* The stop request is seen at the head of the loop: worker_mark_exit.
MarkExit(t) ==
  /\ wpc[t] = "top"
  /\ halt = "stopping"
  /\ workers' = IF workers > 0 THEN workers - 1 ELSE 0
  /\ wpc' = [wpc EXCEPT ![t] = "gone"]
  /\ UNCHANGED <<target, started, queue, tpc, job, cur, want, resizeVars, halt, slips>>
------------------------------------------------------------------------------
(* shutdown(), from cleanup(); configure() does not run beside it.         *)

ClearCount ==
  /\ MayShutdown
  /\ halt = "no"
  /\ Unlocked
  /\ workers > 0
  /\ workers' = 0
  /\ halt' = "cleared"
  /\ UNCHANGED <<target, started, queue, tpc, workerVars, resizeVars, slips>>

RequestStop ==
  /\ halt = "cleared"
  /\ halt' = "stopping"
  /\ UNCHANGED <<workers, target, started, queue, tpc, workerVars, resizeVars, slips>>

\* All threads are joined; a later submission starts the pool anew.
JoinAll ==
  /\ halt = "stopping"
  /\ Live = {}
  /\ started' = FALSE
  /\ halt' = "over"
  /\ UNCHANGED <<workers, target, queue, tpc, workerVars, resizeVars, slips>>
------------------------------------------------------------------------------
Work(t) == \/ LoadCur(t) \/ LoadWant(t) \/ Retire(t)
           \/ Take(t) \/ WaitEnds(t) \/ FinishTask(t) \/ MarkExit(t)

PoolNext ==
  \/ \E k \in Tasks : EnsureStarted(k) \/ PoolEnqueue(k)
  \/ \E n \in Sizes : BeginResize(n)
  \/ LoadCount \/ Grow
  \/ \E t \in Threads : Work(t)
  \/ ClearCount \/ RequestStop \/ JoinAll

PoolSpec == PoolInit /\ [][PoolNext]_poolVars

\* Threads that run keep running and tasks end; nobody has to submit,
\* configure or shut down.
PoolFairSpec == /\ PoolSpec
                /\ \A k \in Tasks : WF_poolVars(PoolEnqueue(k))
                /\ WF_poolVars(LoadCount \/ Grow)
                /\ \A t \in Threads : WF_poolVars(Work(t))
                /\ WF_poolVars(RequestStop \/ JoinAll)
------------------------------------------------------------------------------
(* Properties.                                                             *)

\* The state stays within its types: the worker count, decremented by the
\* threads that retire and by those that are stopped, never wraps below zero.
PoolTypeOK ==
  /\ workers \in Nat
  /\ target \in Sizes \union {0}
  /\ started \in BOOLEAN
  /\ queue \subseteq Tasks
  /\ tpc \in [Tasks -> {"new", "checked", "queued", "running", "done"}]
  /\ wpc \in [Threads -> {"gone", "top", "read", "cas", "wait", "busy"}]
  /\ job \in [Threads -> Tasks \union {NoTask}]
  /\ cur \in [Threads -> Nat]
  /\ want \in [Threads -> Sizes \union {0}]
  /\ resize.step \in {"none", "set", "grow"}
  /\ resizes \in 0..MaxResizes
  /\ halt \in {"no", "cleared", "stopping", "over"}
  /\ slips \subseteq {"threw", "stale", "forgotten"}

\* global_thread_pool.hpp:28: running_workers() is the number of workers
\* that are alive.  A count above it makes a later shrink retire too many
\* threads, down to none, and only a resize that forgets a retirement makes
\* one; a count below it makes a later growth create too many, and only a
\* thread that could not be created does.  Resizes may follow each other at
\* any pace.
CountIsLive ==
  halt \in {"no", "over"} /\ Unlocked =>
    /\ "forgotten" \notin slips => workers <= Cardinality(Live)
    /\ "threw" \notin slips => workers >= Cardinality(Live)

\* global_thread_pool.hpp:24-25: the pool is brought to the size asked for
\* last, unless a thread could not be created or a worker has retired for a
\* target that was no longer the target.
ReachesTarget == <>[](started /\ slips = {} => Cardinality(Live) = target)

\* A submitted task is run, whatever resizes happen and fail, unless the pool
\* is shut down in between or a retirement was forgotten: then the count may
\* stand for threads that are all gone.
TasksRun ==
  \A k \in Tasks :
    tpc[k] = "checked" ~> tpc[k] = "done" \/ halt # "no" \/ "forgotten" \in slips
==============================================================================
