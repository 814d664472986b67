----------------------------- MODULE ThreadProofs -----------------------------
(***************************************************************************)
(* Proofs about the thread backend, for any finite set of operations and   *)
(* any set of close calls, and about the pool whose threads serve it, for  *)
(* any number of threads, tasks and resizes.                               *)
(***************************************************************************)
EXTENDS ThreadBackend, GlobalThreadPool, FiniteSetTheorems, FunctionTheorems, TLAPS

ClosingPcs == {"loop", "waiting", "release", "reset"}

\* Before close_impl() has won running_, nobody is inside it; afterwards one
\* call at most is, and the destructor's call excludes the others.
OneCloser ==
  /\ running => \A c \in Closers : cpc[c] = "idle"
  /\ \A c, d \in Closers : cpc[c] \in ClosingPcs /\ cpc[d] \in ClosingPcs => c = d
  /\ cpc[Dtor] # "idle" =>
       \A c \in Closers : cpc[c] \in ClosingPcs => c = Dtor

\* No closing thread is still to look at m_pending for the last time.
PastLoop == ~running /\ \A c \in Closers : cpc[c] \notin {"loop", "waiting"}

\* The descriptor and the object go after the wait, and what was given up
\* was overdue.
ReleaseIsLate ==
  /\ fd # "open" \/ ~alive => PastLoop
  /\ ~alive => cpc[Dtor] = "returned"
  /\ abandoned => expired

\* With calls that do not overlap: once running_ is cleared no operation is
\* between its closed() test and m_pending, and once the wait is over no
\* request is counted.
GateHolds ==
  OneCaller =>
    /\ ~running => \A o \in Ops : stage[o] # "admitted"
    /\ PastLoop /\ ~abandoned => Counted = {}

\* A submission refused by closed() is over at once.
ClosedIsDone == \A o \in Ops : result[o] = "closed" => stage[o] = "done"

Inv == /\ TypeOK
       /\ PendingIsExact
       /\ OneCloser
       /\ NoLostWakeup
       /\ ReleaseIsLate
       /\ GateHolds
       /\ ClosedIsDone
------------------------------------------------------------------------------
(* The type invariant.                                                     *)

\* Every step of the backend keeps its state within the declared types.
LEMMA TypeStep == TypeOK /\ [Next]_vars => TypeOK'
<1> SUFFICES ASSUME TypeOK, [Next]_vars PROVE TypeOK'
  OBVIOUS
<1> USE DEF TypeOK, Stages, Results, ClosePcs
<1>1. ASSUME NEW o \in Ops, Enter(o) PROVE TypeOK'
  BY <1>1 DEF Enter
<1>2. ASSUME NEW o \in Ops, FinishInline(o) PROVE TypeOK'
  BY <1>2 DEF FinishInline
<1>3. ASSUME NEW o \in Ops, Enqueue(o) PROVE TypeOK'
  BY <1>3 DEF Enqueue
<1>4. ASSUME NEW o \in Ops, EnqueueThrows(o) PROVE TypeOK'
  BY <1>4 DEF EnqueueThrows
<1>5. ASSUME NEW o \in Ops, StartTask(o) PROVE TypeOK'
  BY <1>5 DEF StartTask
<1>6. ASSUME NEW o \in Ops, Execute(o) PROVE TypeOK'
  <2>1. IoOutcomes \subseteq Results
    BY DEF IoOutcomes
  <2>2. result' \in [Ops -> Results]
    BY <1>6, <2>1 DEF Execute
  <2> QED
    BY <1>6, <2>2 DEF Execute
<1>7. ASSUME NEW o \in Ops, Uncount(o) PROVE TypeOK'
  BY <1>7 DEF Uncount
<1>8. ASSUME NEW o \in Ops, Signal(o) PROVE TypeOK'
  BY <1>8 DEF Signal
<1>9. ASSUME NEW o \in Ops, Deliver(o) PROVE TypeOK'
  BY <1>9 DEF Deliver
<1>10. ASSUME NEW c \in Closers, BeginClose(c) PROVE TypeOK'
  BY <1>10 DEF BeginClose
<1>11. ASSUME NEW c \in Closers, TestPending(c) PROVE TypeOK'
  BY <1>11 DEF TestPending
<1>12. ASSUME NEW c \in Closers, Acquire(c) PROVE TypeOK'
  BY <1>12 DEF Acquire
<1>13. ASSUME NEW c \in Closers, GiveUp(c) PROVE TypeOK'
  BY <1>13 DEF GiveUp
<1>14. ASSUME NEW c \in Closers, ReleaseFd(c) PROVE TypeOK'
  BY <1>14, FlagsAreBoolean DEF ReleaseFd
<1>15. ASSUME NEW c \in Closers, ResetFd(c) PROVE TypeOK'
  BY <1>15 DEF ResetFd
<1>16. CASE Expire
  BY <1>16 DEF Expire
<1>17. CASE Destroy
  BY <1>17 DEF Destroy
<1>18. CASE UNCHANGED vars
  BY <1>18 DEF vars
<1> QED
  BY <1>1, <1>2, <1>3, <1>4, <1>5, <1>6, <1>7, <1>8, <1>9, <1>10, <1>11, <1>12,
     <1>13, <1>14, <1>15, <1>16, <1>17, <1>18 DEF Next, Worker, CloseStep

\* The state of the backend stays within its types for ever.
THEOREM TypeCorrect == Spec => []TypeOK
<1>1. Init => TypeOK
  <2> SUFFICES ASSUME Init PROVE TypeOK
    OBVIOUS
  <2>1. /\ running \in BOOLEAN
        /\ expired \in BOOLEAN
        /\ abandoned \in BOOLEAN
        /\ alive \in BOOLEAN
    BY Zenon DEF Init
  <2>2. /\ fd \in {"open", "dangling", "invalid"}
        /\ pending \in Int
        /\ wake \in Nat
    BY DEF Init
  <2>3. /\ stage \in [Ops -> Stages]
        /\ result \in [Ops -> Results]
        /\ cpc \in [Closers -> ClosePcs]
    BY DEF Init, Stages, Results, ClosePcs
  <2> QED
    BY <2>1, <2>2, <2>3 DEF TypeOK
<1> QED
  BY <1>1, TypeStep, PTL DEF Spec
------------------------------------------------------------------------------
(* Framing: what each kind of step leaves alone.                           *)

OpStep(o) == \/ Enter(o) \/ FinishInline(o) \/ Enqueue(o) \/ EnqueueThrows(o)
             \/ StartTask(o) \/ Execute(o) \/ Uncount(o) \/ Signal(o) \/ Deliver(o)

CloserStep(c) == \/ BeginClose(c) \/ TestPending(c) \/ Acquire(c) \/ GiveUp(c)
                 \/ ReleaseFd(c) \/ ResetFd(c)

\* Submitters and workers touch nothing that belongs to close_impl().
LEMMA OpFrame ==
  ASSUME NEW o \in Ops, OpStep(o)
  PROVE  UNCHANGED <<running, fd, cpc, expired, abandoned, alive>>
BY DEF OpStep, Enter, FinishInline, Enqueue, EnqueueThrows, StartTask, Execute,
       Uncount, Signal, Deliver

\* close_impl() touches no operation, and neither m_pending.
LEMMA CloserFrame ==
  ASSUME NEW c \in Closers, CloserStep(c)
  PROVE  UNCHANGED <<pending, stage, result, expired, alive>>
BY DEF CloserStep, BeginClose, TestPending, Acquire, GiveUp, ReleaseFd, ResetFd

\* The operations counted in m_pending are finitely many, so their number is a
\* natural number the counter can hold.
LEMMA CountedFinite == IsFiniteSet(Counted) /\ Cardinality(Counted) \in Nat
<1>1. Counted \in SUBSET Ops
  BY DEF Counted
<1> QED
  BY <1>1, OpsFinite, FS_Subset, FS_CardinalityType

\* Counted and m_pending change together, by one operation at a time.
LEMMA CountedChange ==
  ASSUME TypeOK, NEW o \in Ops, OpStep(o)
  PROVE  \/ Counted' = Counted /\ pending' = pending
         \/ o \notin Counted /\ Counted' = Counted \union {o} /\ pending' = pending + 1
         \/ o \in Counted /\ Counted' = Counted \ {o} /\ pending' = pending - 1
<1>1. CASE Enter(o)
  BY <1>1 DEF Enter, Counted, TypeOK
<1>2. CASE FinishInline(o)
  BY <1>2 DEF FinishInline, Counted, TypeOK
<1>3. CASE Enqueue(o)
  BY <1>3 DEF Enqueue, Counted, TypeOK
<1>4. CASE EnqueueThrows(o)
  BY <1>4 DEF EnqueueThrows, Counted, TypeOK
<1>5. CASE StartTask(o)
  BY <1>5 DEF StartTask, Counted, TypeOK
<1>6. CASE Execute(o)
  BY <1>6 DEF Execute, Counted, TypeOK
<1>7. CASE Uncount(o)
  BY <1>7 DEF Uncount, Counted, TypeOK
<1>8. CASE Signal(o)
  BY <1>8 DEF Signal, Counted, TypeOK
<1>9. CASE Deliver(o)
  BY <1>9 DEF Deliver, Counted, TypeOK
<1> QED
  BY <1>1, <1>2, <1>3, <1>4, <1>5, <1>6, <1>7, <1>8, <1>9 DEF OpStep

\* m_pending keeps counting the requests that are with the pool.
LEMMA PendingStep == TypeOK /\ PendingIsExact /\ [Next]_vars => PendingIsExact'
<1> SUFFICES ASSUME TypeOK, PendingIsExact, [Next]_vars PROVE PendingIsExact'
  OBVIOUS
<1>1. ASSUME NEW o \in Ops, OpStep(o) PROVE PendingIsExact'
  <2>1. CASE Counted' = Counted /\ pending' = pending
    BY <2>1 DEF PendingIsExact
  <2>2. CASE o \notin Counted /\ Counted' = Counted \union {o} /\ pending' = pending + 1
    BY <2>2, CountedFinite, FS_AddElement DEF PendingIsExact
  <2>3. CASE o \in Counted /\ Counted' = Counted \ {o} /\ pending' = pending - 1
    BY <2>3, CountedFinite, FS_RemoveElement DEF PendingIsExact
  <2> QED
    BY <1>1, <2>1, <2>2, <2>3, CountedChange
<1>2. ASSUME UNCHANGED <<pending, stage>> PROVE PendingIsExact'
  BY <1>2 DEF PendingIsExact, Counted
<1> QED
  BY <1>1, <1>2, CloserFrame
     DEF Next, Worker, CloseStep, OpStep, CloserStep, Expire, Destroy, vars

\* m_pending is exact in every reachable state.
THEOREM PendingExact == Spec => []PendingIsExact
<1>1. Init => PendingIsExact
  <2> SUFFICES ASSUME Init PROVE PendingIsExact
    OBVIOUS
  <2>1. Counted = {}
    BY DEF Init, Counted
  <2> QED
    BY <2>1, FS_EmptySet DEF Init, PendingIsExact
<1> QED
  BY <1>1, TypeCorrect, PendingStep, PTL DEF Spec
------------------------------------------------------------------------------
(* The closing thread.                                                     *)

\* compare_exchange on running_, and the destructor running alone, keep a
\* second thread out of close_impl().
LEMMA CloserAlone == TypeOK /\ OneCloser /\ [Next]_vars => OneCloser'
<1> SUFFICES ASSUME TypeOK, OneCloser, [Next]_vars PROVE OneCloser'
  OBVIOUS
<1> Dtor \in Closers
  BY DEF Closers
<1>1. ASSUME UNCHANGED <<running, cpc>> PROVE OneCloser'
  BY <1>1 DEF OneCloser
<1>2. ASSUME NEW c \in Closers, BeginClose(c) PROVE OneCloser'
  <2>1. CASE running
    <3>1. \A d \in Closers : cpc[d] = "idle"
      BY <2>1 DEF OneCloser
    <3>2. cpc' = [cpc EXCEPT ![c] = "loop"] /\ ~running'
      BY <1>2, <2>1 DEF BeginClose
    <3> QED
      BY <3>1, <3>2 DEF OneCloser, TypeOK, ClosingPcs
  <2>2. CASE ~running /\ c = Dtor
    <3>1. \A d \in Closers : cpc[d] \notin ClosingPcs
      BY <1>2, <2>2 DEF BeginClose, Closing, ClosingPcs
    <3>2. cpc' = [cpc EXCEPT ![c] = "returned"] /\ ~running'
      BY <1>2, <2>2 DEF BeginClose
    <3> QED
      BY <3>1, <3>2 DEF OneCloser, TypeOK, ClosingPcs
  <2>3. CASE ~running /\ c # Dtor
    <3>1. cpc[Dtor] = "idle"
      BY <1>2, <2>3 DEF BeginClose, Callable
    <3>2. cpc' = [cpc EXCEPT ![c] = "returned"] /\ ~running'
      BY <1>2, <2>3 DEF BeginClose
    <3> QED
      BY <2>3, <3>1, <3>2 DEF OneCloser, TypeOK, ClosingPcs
  <2> QED
    BY <2>1, <2>2, <2>3
<1>3. ASSUME NEW c \in Closers, CloserStep(c), ~BeginClose(c) PROVE OneCloser'
  <2>1. cpc[c] \in ClosingPcs /\ ~running /\ running' = running
    BY <1>3 DEF CloserStep, TestPending, Acquire, GiveUp, ReleaseFd, ResetFd,
                ClosingPcs, OneCloser
  <2>2. PICK p \in ClosePcs \ {"idle"} : cpc' = [cpc EXCEPT ![c] = p]
    BY <1>3 DEF CloserStep, TestPending, Acquire, GiveUp, ReleaseFd, ResetFd, ClosePcs
  <2> QED
    BY <2>1, <2>2 DEF OneCloser, TypeOK, ClosingPcs, ClosePcs
<1> QED
  BY <1>1, <1>2, <1>3, OpFrame
     DEF Next, Worker, CloseStep, OpStep, CloserStep, Expire, Destroy, vars

\* A step of the pool never takes the last wake-up away: the count reaches
\* zero only by a worker that is about to release the semaphore.
LEMMA WakeStep ==
  TypeOK /\ PendingIsExact /\ OneCloser /\ NoLostWakeup /\ [Next]_vars
    => NoLostWakeup'
<1> SUFFICES ASSUME TypeOK, PendingIsExact, OneCloser, NoLostWakeup, [Next]_vars,
                    NEW c \in Closers, cpc'[c] = "waiting", pending' = 0
             PROVE  wake' > 0 \/ \E o \in Ops : stage'[o] = "uncounted"
  BY DEF NoLostWakeup
<1> DEFINE Awake == wake' > 0 \/ \E o \in Ops : stage'[o] = "uncounted"
<1>1. pending \in Nat /\ wake \in Nat
  BY CountedFinite DEF PendingIsExact, TypeOK
<1>2. ASSUME NEW o \in Ops, Uncount(o) PROVE Awake
  BY <1>2 DEF Uncount, TypeOK
<1>3. ASSUME NEW o \in Ops, Signal(o) PROVE Awake
  BY <1>1, <1>3 DEF Signal
<1>4. ASSUME NEW o \in Ops, Enqueue(o) \/ EnqueueThrows(o) PROVE Awake
  BY <1>1, <1>4 DEF Enqueue, EnqueueThrows
<1>5. ASSUME NEW o \in Ops,
             Enter(o) \/ FinishInline(o) \/ StartTask(o) \/ Execute(o) \/ Deliver(o)
      PROVE  Awake
  <2>1. UNCHANGED <<pending, wake, cpc>>
    BY <1>5 DEF Enter, FinishInline, StartTask, Execute, Deliver
  <2>2. \A q \in Ops : stage[q] = "uncounted" => stage'[q] = "uncounted"
    BY <1>5 DEF Enter, FinishInline, StartTask, Execute, Deliver, TypeOK
  <2> QED
    BY <2>1, <2>2 DEF NoLostWakeup
<1>6. ASSUME NEW d \in Closers, TestPending(d) PROVE Awake
  BY <1>6 DEF TestPending, TypeOK, NoLostWakeup
<1>7. ASSUME NEW d \in Closers, Acquire(d) \/ GiveUp(d) PROVE Awake
  <2>1. cpc[d] = "waiting" /\ cpc' = [cpc EXCEPT ![d] = "loop"]
    BY <1>7 DEF Acquire, GiveUp
  <2>2. c # d /\ cpc[c] = "waiting"
    BY <2>1 DEF TypeOK
  <2> QED
    BY <2>1, <2>2 DEF OneCloser, ClosingPcs
<1>8. ASSUME NEW d \in Closers, BeginClose(d) \/ ReleaseFd(d) \/ ResetFd(d) PROVE Awake
  <2>1. UNCHANGED <<pending, wake, stage>>
    BY <1>8 DEF BeginClose, ReleaseFd, ResetFd
  <2>2. cpc[c] = "waiting"
    BY <1>8 DEF BeginClose, ReleaseFd, ResetFd, TypeOK
  <2> QED
    BY <2>1, <2>2 DEF NoLostWakeup
<1>9. ASSUME UNCHANGED <<pending, wake, stage, cpc>> PROVE Awake
  BY <1>9 DEF NoLostWakeup
<1> QED
  BY <1>2, <1>3, <1>4, <1>5, <1>6, <1>7, <1>8, <1>9
     DEF Next, Worker, CloseStep, Expire, Destroy, vars

\* A closing thread never sleeps through the last completion.
THEOREM Wakeups == Spec => []NoLostWakeup
<1>1. Init => OneCloser /\ NoLostWakeup
  BY DEF Init, OneCloser, NoLostWakeup, Closers, ClosingPcs
<1> QED
  BY <1>1, TypeCorrect, PendingExact, CloserAlone, WakeStep, PTL DEF Spec
------------------------------------------------------------------------------
(* Releasing the descriptor.                                               *)

\* fd_ and the object outlive the wait of close_impl().
LEMMA LateStep ==
  TypeOK /\ OneCloser /\ ReleaseIsLate /\ [Next]_vars => ReleaseIsLate'
<1> SUFFICES ASSUME TypeOK, OneCloser, ReleaseIsLate, [Next]_vars
             PROVE  ReleaseIsLate'
  OBVIOUS
<1> Dtor \in Closers
  BY DEF Closers
<1>1. ASSUME UNCHANGED <<running, fd, cpc, expired, abandoned, alive>>
      PROVE  ReleaseIsLate'
  BY <1>1 DEF ReleaseIsLate, PastLoop
<1>2. ASSUME NEW c \in Closers, BeginClose(c) PROVE ReleaseIsLate'
  <2>1. /\ UNCHANGED <<fd, expired, abandoned, alive>>
        /\ cpc[c] = "idle"
        /\ cpc' = [cpc EXCEPT ![c] = IF running THEN "loop" ELSE "returned"]
        /\ ~running'
    BY <1>2 DEF BeginClose
  <2>2. alive
    BY <1>2 DEF BeginClose, Callable
  <2>3. fd # "open" => PastLoop'
    BY <2>1 DEF ReleaseIsLate, PastLoop, TypeOK
  <2> QED
    BY <2>1, <2>2, <2>3 DEF ReleaseIsLate
<1>3. ASSUME NEW c \in Closers, TestPending(c) PROVE ReleaseIsLate'
  BY <1>3 DEF TestPending, ReleaseIsLate, PastLoop
<1>4. ASSUME NEW c \in Closers, Acquire(c) \/ GiveUp(c) PROVE ReleaseIsLate'
  BY <1>4 DEF Acquire, GiveUp, ReleaseIsLate, PastLoop
<1>5. ASSUME NEW c \in Closers, ReleaseFd(c) \/ ResetFd(c) PROVE ReleaseIsLate'
  <2>1. /\ UNCHANGED <<running, expired, abandoned, alive>>
        /\ cpc[c] \in {"release", "reset"}
    BY <1>5 DEF ReleaseFd, ResetFd
  <2>2. PICK p \in {"reset", "returned"} : cpc' = [cpc EXCEPT ![c] = p]
    BY <1>5 DEF ReleaseFd, ResetFd
  <2>3. PastLoop
    BY <2>1 DEF OneCloser, PastLoop, ClosingPcs
  <2>4. PastLoop'
    BY <2>1, <2>2, <2>3 DEF PastLoop, TypeOK
  <2>5. ~alive => cpc'[Dtor] = "returned"
    BY <2>1, <2>2 DEF ReleaseIsLate, TypeOK
  <2> QED
    BY <2>1, <2>4, <2>5 DEF ReleaseIsLate
<1>6. ASSUME Expire PROVE ReleaseIsLate'
  BY <1>6 DEF Expire, ReleaseIsLate, PastLoop
<1>7. ASSUME Destroy PROVE ReleaseIsLate'
  <2>1. PastLoop
    BY <1>7 DEF Destroy, OneCloser, PastLoop, ClosingPcs
  <2> QED
    BY <1>7, <2>1 DEF Destroy, ReleaseIsLate, PastLoop
<1> QED
  BY <1>1, <1>2, <1>3, <1>4, <1>5, <1>6, <1>7, OpFrame
     DEF Next, Worker, CloseStep, OpStep, vars

\* Once the gate is shut nothing more is counted, and the wait ends with
\* nothing counted unless it is given up.
LEMMA GateStep ==
  TypeOK /\ PendingIsExact /\ OneCloser /\ GateHolds /\ [Next]_vars => GateHolds'
<1> SUFFICES ASSUME TypeOK, PendingIsExact, OneCloser, GateHolds, [Next]_vars, OneCaller
             PROVE  /\ ~running' => \A o \in Ops : stage'[o] # "admitted"
                    /\ PastLoop' /\ ~abandoned' => Counted' = {}
  BY DEF GateHolds
<1>1. ASSUME UNCHANGED <<running, cpc, stage, abandoned>>
      PROVE  /\ ~running' => \A o \in Ops : stage'[o] # "admitted"
             /\ PastLoop' /\ ~abandoned' => Counted' = {}
  BY <1>1 DEF GateHolds, PastLoop, Counted
<1>2. ASSUME NEW o \in Ops, OpStep(o)
      PROVE  /\ ~running' => \A q \in Ops : stage'[q] # "admitted"
             /\ PastLoop' /\ ~abandoned' => Counted' = {}
  <2>1. UNCHANGED <<running, cpc, abandoned>>
    BY <1>2, OpFrame
  <2>2. CASE running
    BY <2>1, <2>2 DEF PastLoop
  <2>3. CASE ~running
    <3>1. \A q \in Ops : stage[q] # "admitted"
      BY <2>3 DEF GateHolds
    <3>2. \A q \in Ops : stage'[q] # "admitted"
      BY <1>2, <2>3, <3>1
         DEF OpStep, Enter, Closed, FinishInline, Enqueue, EnqueueThrows, StartTask,
             Execute, Uncount, Signal, Deliver, TypeOK
    <3>3. Counted' \subseteq Counted
      BY <1>2, <2>3, <3>1
         DEF OpStep, Enter, Closed, FinishInline, Enqueue, EnqueueThrows, StartTask,
             Execute, Uncount, Signal, Deliver, TypeOK, Counted
    <3> QED
      BY <2>1, <3>2, <3>3 DEF GateHolds, PastLoop
  <2> QED
    BY <2>2, <2>3
<1>3. ASSUME NEW c \in Closers, BeginClose(c)
      PROVE  /\ ~running' => \A o \in Ops : stage'[o] # "admitted"
             /\ PastLoop' /\ ~abandoned' => Counted' = {}
  <2>1. UNCHANGED <<stage, abandoned>> /\ cpc[c] = "idle"
    BY <1>3 DEF BeginClose
  <2>2. \A o \in Ops : stage[o] # "admitted"
    BY <1>3 DEF BeginClose, Callable
  <2>3. CASE running
    <3>1. cpc'[c] = "loop"
      BY <1>3, <2>3 DEF BeginClose, TypeOK
    <3> QED
      BY <2>1, <2>2, <3>1 DEF PastLoop
  <2>4. CASE ~running
    <3>1. PastLoop' => PastLoop
      BY <1>3, <2>1, <2>4 DEF BeginClose, PastLoop, TypeOK
    <3> QED
      BY <2>1, <2>2, <3>1 DEF GateHolds, Counted
  <2> QED
    BY <2>3, <2>4
<1>4. ASSUME NEW c \in Closers, TestPending(c)
      PROVE  /\ ~running' => \A o \in Ops : stage'[o] # "admitted"
             /\ PastLoop' /\ ~abandoned' => Counted' = {}
  <2>1. UNCHANGED <<running, stage>>
    BY <1>4 DEF TestPending
  <2>2. ASSUME PastLoop', ~abandoned' PROVE pending = 0
    <3>1. cpc'[c] # "waiting"
      BY <2>2 DEF PastLoop
    <3>2. ~(pending > 0)
      BY <1>4, <2>2, <3>1 DEF TestPending, TypeOK
    <3> QED
      BY <3>2, CountedFinite DEF PendingIsExact
  <2>3. pending = 0 => Counted = {}
    BY CountedFinite, FS_EmptySet DEF PendingIsExact
  <2> QED
    BY <2>1, <2>2, <2>3 DEF GateHolds, Counted
<1>5. ASSUME NEW c \in Closers, CloserStep(c), ~BeginClose(c), ~TestPending(c)
      PROVE  /\ ~running' => \A o \in Ops : stage'[o] # "admitted"
             /\ PastLoop' /\ ~abandoned' => Counted' = {}
  <2>1. UNCHANGED <<running, stage, abandoned>>
    BY <1>5 DEF CloserStep, Acquire, GiveUp, ReleaseFd, ResetFd
  <2>2. CASE Acquire(c) \/ GiveUp(c)
    <3>1. cpc'[c] = "loop"
      BY <2>2 DEF Acquire, GiveUp, TypeOK
    <3> QED
      BY <2>1, <3>1 DEF GateHolds, PastLoop
  <2>3. CASE ReleaseFd(c) \/ ResetFd(c)
    <3>1. PastLoop
      BY <2>3 DEF ReleaseFd, ResetFd, OneCloser, PastLoop, ClosingPcs
    <3> QED
      BY <2>1, <3>1 DEF GateHolds, Counted
  <2> QED
    BY <1>5, <2>2, <2>3 DEF CloserStep
<1> QED
  BY <1>1, <1>2, <1>3, <1>4, <1>5
     DEF Next, Worker, CloseStep, OpStep, CloserStep, Expire, Destroy, vars

\* Only a refused submission carries the closed-file error.
LEMMA ClosedStep == TypeOK /\ ClosedIsDone /\ [Next]_vars => ClosedIsDone'
<1> SUFFICES ASSUME TypeOK, ClosedIsDone, [Next]_vars PROVE ClosedIsDone'
  OBVIOUS
<1>1. ASSUME UNCHANGED <<stage, result>> PROVE ClosedIsDone'
  BY <1>1 DEF ClosedIsDone
<1>2. ASSUME NEW o \in Ops, Execute(o) PROVE ClosedIsDone'
  <2>1. "closed" \notin IoOutcomes
    BY DEF IoOutcomes
  <2>2. PICK r \in IoOutcomes : result' = [result EXCEPT ![o] = r]
    BY <1>2 DEF Execute
  <2> QED
    BY <1>2, <2>1, <2>2 DEF Execute, ClosedIsDone, TypeOK
<1>3. ASSUME NEW o \in Ops, Enter(o) \/ FinishInline(o) \/ EnqueueThrows(o)
      PROVE  ClosedIsDone'
  BY <1>3 DEF Enter, FinishInline, EnqueueThrows, ClosedIsDone, TypeOK
<1>4. ASSUME NEW o \in Ops,
             Enqueue(o) \/ StartTask(o) \/ Uncount(o) \/ Signal(o) \/ Deliver(o)
      PROVE  ClosedIsDone'
  BY <1>4 DEF Enqueue, StartTask, Uncount, Signal, Deliver, ClosedIsDone, TypeOK
<1> QED
  BY <1>1, <1>2, <1>3, <1>4, CloserFrame
     DEF Next, Worker, CloseStep, CloserStep, Expire, Destroy, vars

\* The inductive invariant.
THEOREM Invariant == Spec => []Inv
<1>1. Init => Inv
  <2> SUFFICES ASSUME Init PROVE Inv
    OBVIOUS
  <2>1. TypeOK /\ PendingIsExact
    <3>1. Counted = {}
      BY DEF Init, Counted
    <3>2. /\ running \in BOOLEAN
          /\ expired \in BOOLEAN
          /\ abandoned \in BOOLEAN
          /\ alive \in BOOLEAN
      BY Zenon DEF Init
    <3> QED
      BY <3>1, <3>2, FS_EmptySet DEF Init, TypeOK, PendingIsExact, Stages, Results, ClosePcs
  <2>2. OneCloser /\ NoLostWakeup
    BY DEF Init, OneCloser, NoLostWakeup, Closers, ClosingPcs
  <2>3. ReleaseIsLate
    BY DEF Init, ReleaseIsLate
  <2>4. GateHolds
    BY DEF Init, GateHolds, PastLoop
  <2>5. ClosedIsDone
    BY DEF Init, ClosedIsDone
  <2> QED
    BY <2>1, <2>2, <2>3, <2>4, <2>5 DEF Inv
<1>2. Inv /\ [Next]_vars => Inv'
  BY TypeStep, PendingStep, CloserAlone, WakeStep, LateStep, GateStep, ClosedStep DEF Inv
<1> QED
  BY <1>1, <1>2, PTL DEF Spec

\* No task runs on a descriptor that close() has released, and none is left
\* when the object goes away, unless the timeout cut the wait short.
THEOREM Drained == Spec => []DrainedWhenReleased
<1>1. Inv => DrainedWhenReleased
  <2> SUFFICES ASSUME Inv, OneCaller, fd # "open" \/ ~alive, ~abandoned, NEW o \in Ops
               PROVE  stage[o] \in {"new", "uncounted", "signalled", "done"}
    BY DEF DrainedWhenReleased
  <2>1. PastLoop
    BY DEF Inv, ReleaseIsLate
  <2>2. Counted = {} /\ stage[o] # "admitted"
    BY <2>1 DEF Inv, GateHolds, PastLoop
  <2> QED
    BY <2>2 DEF Inv, TypeOK, Stages, Counted
<1> QED
  BY <1>1, Invariant, PTL
------------------------------------------------------------------------------
(* The backend implements the close barrier.                               *)

Gate == IF running THEN "open"
        ELSE IF \E c \in Closers : cpc[c] \in {"loop", "waiting", "release"}
             THEN "shut"
             ELSE "released"
Inside == {o \in Ops : stage[o] \in {"admitted", "queued", "executing", "executed", "leaked"}}
Left == {o \in Ops : \/ stage[o] \in {"uncounted", "signalled"}
                     \/ stage[o] = "done" /\ result[o] # "closed"}

\* A step of a submitter or a worker is an admission, a departure or a stutter.
LEMMA OpImplements ==
  ASSUME TypeOK, ClosedIsDone, NEW o \in Ops, OpStep(o)
  PROVE  Barrier!Admit(o) \/ Barrier!Leave(o) \/ UNCHANGED Barrier!barrierVars
<1> DEFINE Goal == Barrier!Admit(o) \/ Barrier!Leave(o) \/ UNCHANGED Barrier!barrierVars
<1>1. Gate' = Gate /\ expired' = expired
  BY OpFrame DEF Gate
<1>2. CASE Enter(o) /\ ~Closed
  <2>1. Gate = "open"
    BY <1>2 DEF Closed, Gate
  <2>2. o \notin Inside \union Left
    BY <1>2 DEF Enter, Inside, Left
  <2>3. Inside' = Inside \union {o} /\ Left' = Left
    BY <1>2 DEF Enter, Inside, Left, TypeOK
  <2> QED
    BY <1>1, <2>1, <2>2, <2>3 DEF Barrier!Admit, Gate, Inside, Left
<1>3. CASE (Enter(o) /\ Closed) \/ Enqueue(o) \/ EnqueueThrows(o) \/ StartTask(o)
           \/ Execute(o) \/ Signal(o) \/ Deliver(o)
  <2>1. Inside' = Inside
    BY <1>3 DEF Enter, Enqueue, EnqueueThrows, StartTask, Execute, Signal, Deliver,
                Inside, TypeOK
  <2>2. Left' = Left
    BY <1>3 DEF Enter, Enqueue, EnqueueThrows, StartTask, Execute, Signal, Deliver,
                Left, TypeOK, ClosedIsDone
  <2> QED
    BY <1>1, <2>1, <2>2 DEF Barrier!barrierVars, Gate, Inside, Left
<1>4. CASE FinishInline(o) \/ Uncount(o)
  <2>1. o \in Inside
    BY <1>4 DEF FinishInline, Uncount, Inside
  <2>2. Inside' = Inside \ {o}
    BY <1>4 DEF FinishInline, Uncount, Inside, TypeOK
  <2>3. Left' = Left \union {o}
    BY <1>4 DEF FinishInline, Uncount, Left, TypeOK
  <2> QED
    BY <1>1, <2>1, <2>2, <2>3 DEF Barrier!Leave, Gate, Inside, Left
<1> QED
  BY <1>2, <1>3, <1>4 DEF OpStep

\* A step of close_impl() shuts the gate, releases it or stutters.
LEMMA CloserImplements ==
  ASSUME Inv, OneCaller, NEW c \in Closers, CloserStep(c)
  PROVE  Barrier!Shut \/ Barrier!Release \/ UNCHANGED Barrier!barrierVars
<1>1. Inside' = Inside /\ Left' = Left /\ expired' = expired
  BY CloserFrame DEF Inside, Left
<1>2. CASE BeginClose(c) /\ running
  <2>1. Gate = "open"
    BY <1>2 DEF Gate
  <2>2. Gate' = "shut"
    <3>1. cpc'[c] = "loop" /\ ~running'
      BY <1>2 DEF BeginClose, Inv, TypeOK
    <3> QED
      BY <3>1 DEF Gate
  <2> QED
    BY <1>1, <2>1, <2>2 DEF Barrier!Shut, Gate, Inside, Left
<1>3. CASE BeginClose(c) /\ ~running
  <2>1. \A d \in Closers : cpc[d] \in {"loop", "waiting", "release"}
                          <=> cpc'[d] \in {"loop", "waiting", "release"}
    BY <1>3 DEF BeginClose, Inv, TypeOK
  <2>2. Gate' = Gate
    BY <1>3, <2>1 DEF BeginClose, Gate
  <2> QED
    BY <1>1, <2>2 DEF Barrier!barrierVars, Gate, Inside, Left
<1>4. CASE TestPending(c) \/ Acquire(c) \/ GiveUp(c)
  <2>1. ~running /\ ~running'
    BY <1>4 DEF TestPending, Acquire, GiveUp, Inv, OneCloser
  <2>2. /\ cpc[c] \in {"loop", "waiting", "release"}
        /\ cpc'[c] \in {"loop", "waiting", "release"}
    BY <1>4 DEF TestPending, Acquire, GiveUp, Inv, TypeOK
  <2>3. Gate = "shut" /\ Gate' = "shut"
    BY <2>1, <2>2 DEF Gate
  <2> QED
    BY <1>1, <2>3 DEF Barrier!barrierVars, Gate, Inside, Left
<1>5. CASE ReleaseFd(c)
  <2>1. cpc[c] = "release" /\ ~running /\ ~running' /\ abandoned' = abandoned
    BY <1>5 DEF ReleaseFd, Inv, OneCloser
  <2>2. \A d \in Closers : d # c => cpc[d] \notin ClosingPcs
    BY <2>1 DEF Inv, OneCloser, ClosingPcs
  <2>3. \A d \in Closers : cpc'[d] \notin {"loop", "waiting", "release"}
    BY <1>5, <2>2 DEF ReleaseFd, Inv, TypeOK, ClosingPcs
  <2>4. Gate = "shut" /\ Gate' = "released"
    BY <2>1, <2>3 DEF Gate
  <2>5. PastLoop
    BY <2>1, <2>2 DEF PastLoop, ClosingPcs
  <2>6. Inside = {} \/ expired
    <3>1. CASE abandoned
      BY <3>1 DEF Inv, ReleaseIsLate
    <3>2. CASE ~abandoned
      BY <2>1, <2>5, <3>2 DEF Inv, GateHolds, Inside, Counted
    <3> QED
      BY <3>1, <3>2
  <2> QED
    BY <1>1, <2>4, <2>6 DEF Barrier!Release, Gate, Inside, Left
<1>6. CASE ResetFd(c)
  <2>1. cpc[c] = "reset" /\ ~running /\ ~running'
    BY <1>6 DEF ResetFd, Inv, OneCloser
  <2>2. \A d \in Closers : cpc[d] \notin {"loop", "waiting", "release"}
    BY <2>1 DEF Inv, OneCloser, ClosingPcs
  <2>3. \A d \in Closers : cpc'[d] \notin {"loop", "waiting", "release"}
    BY <1>6, <2>2 DEF ResetFd, Inv, TypeOK
  <2>4. Gate = "released" /\ Gate' = "released"
    BY <2>1, <2>2, <2>3 DEF Gate
  <2> QED
    BY <1>1, <2>4 DEF Barrier!barrierVars, Gate, Inside, Left
<1> QED
  BY <1>2, <1>3, <1>4, <1>5, <1>6 DEF CloserStep

\* The clock and the destructor.
LEMMA EnvImplements ==
  ASSUME Inv, Expire \/ Destroy \/ UNCHANGED vars
  PROVE  Barrier!Expire \/ UNCHANGED Barrier!barrierVars
<1>1. Gate' = Gate /\ Inside' = Inside /\ Left' = Left
  BY DEF Expire, Destroy, vars, Gate, Inside, Left
<1>2. CASE Expire
  <2>1. Gate = "shut"
    BY <1>2 DEF Expire, Gate, Inv, OneCloser
  <2> QED
    BY <1>1, <1>2, <2>1 DEF Barrier!Expire, Expire, Gate, Inside, Left
<1>3. CASE Destroy \/ UNCHANGED vars
  BY <1>1, <1>3 DEF Barrier!barrierVars, Destroy, vars, Gate, Inside, Left
<1> QED
  BY <1>2, <1>3

\* As long as calls do not overlap, the backend is a close barrier: every
\* admitted operation leaves before the descriptor is released, or the
\* timeout has passed.
THEOREM Refinement == ASSUME OneCaller PROVE Spec => ImplementsBarrier
<1>1. Init => Barrier!Init
  <2> SUFFICES ASSUME Init PROVE Barrier!Init
    OBVIOUS
  <2>1. Gate = "open" /\ Inside = {} /\ Left = {} /\ expired = FALSE
    BY DEF Init, Gate, Inside, Left
  <2> QED
    BY <2>1 DEF Barrier!Init, Gate, Inside, Left
<1>2. Inv /\ [Next]_vars => [Barrier!Next]_Barrier!barrierVars
  <2> SUFFICES ASSUME Inv, [Next]_vars PROVE [Barrier!Next]_Barrier!barrierVars
    OBVIOUS
  <2>1. ASSUME NEW o \in Ops, OpStep(o) PROVE [Barrier!Next]_Barrier!barrierVars
    BY <2>1, OpImplements DEF Inv, Barrier!Next
  <2>2. ASSUME NEW c \in Closers, CloserStep(c) PROVE [Barrier!Next]_Barrier!barrierVars
    BY <2>2, CloserImplements DEF Barrier!Next
  <2>3. CASE Expire \/ Destroy \/ UNCHANGED vars
    BY <2>3, EnvImplements DEF Barrier!Next
  <2> QED
    BY <2>1, <2>2, <2>3 DEF Next, Worker, CloseStep, OpStep, CloserStep
<1> QED
  BY <1>1, <1>2, Invariant, PTL DEF Spec, ImplementsBarrier, Barrier!Spec
------------------------------------------------------------------------------
(* The pool.                                                               *)

Pcs == {"gone", "top", "read", "cas", "wait", "busy"}
Steps == [step : {"none", "set", "grow"}, size : Sizes \union {0}, cur : Nat]

\* The types, with the fields of a resize, and what is known of a thread that is
\* about to retire: it has seen more workers than it wants.  Before the target is
\* first stored nobody has seen a count.
Shape ==
  /\ PoolTypeOK
  /\ resize \in Steps
  /\ \A t \in Threads : wpc[t] = "cas" => cur[t] > want[t] /\ want[t] \in Sizes
  /\ target = 0 => workers = 0 /\ (\A t \in Threads : cur[t] = 0) /\ resize.step = "none"

\* A resize goes by the target it has stored; the count it has loaded can only
\* be too high by then, if a retirement is being forgotten.
Resizing ==
  resize.step # "none" =>
    /\ halt = "no" /\ started
    /\ resize.size = target /\ target \in Sizes
    /\ resize.step = "grow" =>
         /\ resize.cur < resize.size /\ workers <= resize.cur
         /\ "forgotten" \notin slips => resize.cur = workers

\* Between shutdown()'s exchange of the count and the joining of the threads the
\* count stays at zero; at all other times it differs from the number of threads
\* only by retirements that were forgotten and by threads whose creation failed.
Bounds ==
  /\ "forgotten" \notin slips => workers <= Cardinality(Live)
  /\ "threw" \notin slips => workers >= Cardinality(Live)

Counting ==
  /\ halt \in {"no", "over"} => Bounds
  /\ halt \in {"cleared", "stopping"} => workers = 0 /\ started
  /\ ~started => Live = {} /\ workers = 0

PoolInv == Shape /\ Resizing /\ Counting
------------------------------------------------------------------------------
(* Sets of threads.                                                        *)

\* A finite set has a subset of every size up to its own.
LEMMA SubsetOfSize ==
  ASSUME NEW S, IsFiniteSet(S), NEW n \in 0..Cardinality(S)
  PROVE  \E T \in SUBSET S : Cardinality(T) = n
<1>1. Cardinality(S) \in Nat /\ ExistsBijection(1..Cardinality(S), S)
  BY FS_CardinalityType
<1>2. PICK f \in Bijection(1..Cardinality(S), S) : TRUE
  BY <1>1 DEF ExistsBijection
<1> DEFINE T == {f[i] : i \in 1..n}
           g == [i \in 1..n |-> f[i]]
<1>3. /\ f \in [1..Cardinality(S) -> S]
      /\ \A a, b \in 1..Cardinality(S) : f[a] = f[b] => a = b
  BY <1>2, Fun_BijectionProperties
<1>4. 1..n \subseteq 1..Cardinality(S)
  BY <1>1
<1>5. T \in SUBSET S
  BY <1>3, <1>4
<1>6. g \in Bijection(1..n, T)
  BY <1>3, <1>4 DEF Bijection, Injection, IsInjective, Surjection
<1>7. Cardinality(T) = Cardinality(1..n)
  BY <1>6, FS_Interval, FS_Bijection DEF ExistsBijection
<1>8. Cardinality(1..n) = n
  BY FS_Interval
<1> QED
  BY <1>5, <1>7, <1>8

\* n new threads are created, if there is room for them.
LEMMA SpawnMakes ==
  ASSUME Shape, NEW n \in Nat, n <= Cardinality(Threads \ Live), wpc' = Spawn(n)
  PROVE  /\ wpc' \in [Threads -> Pcs]
         /\ Cardinality(Live') = Cardinality(Live) + n
         /\ \A t \in Threads : wpc'[t] # "top" => wpc'[t] = wpc[t]
<1> DEFINE new == CHOOSE s \in SUBSET (Threads \ Live) : Cardinality(s) = n
<1>1. IsFiniteSet(Live) /\ Cardinality(Live) \in Nat
  BY ThreadsAreFinite, FS_Subset, FS_CardinalityType DEF Live
<1>2. IsFiniteSet(Threads \ Live)
  BY ThreadsAreFinite, FS_Subset
<1>4. n \in 0..Cardinality(Threads \ Live)
  BY <1>2, FS_CardinalityType
<1>5. \E s \in SUBSET (Threads \ Live) : Cardinality(s) = n
  BY <1>2, <1>4, SubsetOfSize
<1>6. new \in SUBSET (Threads \ Live) /\ Cardinality(new) = n
  BY <1>5
<1>7. wpc' = [t \in Threads |-> IF t \in new THEN "top" ELSE wpc[t]]
  BY DEF Spawn
<1> HIDE DEF new
<1>8. wpc' \in [Threads -> Pcs] /\ \A t \in Threads : wpc'[t] # "top" => wpc'[t] = wpc[t]
  BY <1>7 DEF Shape, PoolTypeOK, Pcs
<1>9. Live' = Live \union new
  BY <1>6, <1>7 DEF Live
<1>10. Live \cap new = {} /\ IsFiniteSet(new)
  BY <1>2, <1>6, FS_Subset
<1>11. Cardinality(Live \union new) = Cardinality(Live) + Cardinality(new) - Cardinality(Live \cap new)
  BY <1>1, <1>10, FS_Union
<1>12. Cardinality(Live \cap new) = 0
  BY <1>10, FS_EmptySet
<1> QED
  BY <1>1, <1>6, <1>8, <1>9, <1>11, <1>12
------------------------------------------------------------------------------
(* Types.                                                                  *)

\* A live thread goes on, or ends.
LEMMA LiveMoves ==
  ASSUME Shape, NEW t \in Live, NEW pc \in Pcs, wpc' = [wpc EXCEPT ![t] = pc]
  PROVE  /\ wpc' \in [Threads -> Pcs]
         /\ pc # "gone" => Live' = Live
         /\ pc = "gone" => Live' = Live \ {t} /\ Cardinality(Live') = Cardinality(Live) - 1
<1>1. t \in Threads /\ IsFiniteSet(Live)
  BY ThreadsAreFinite, FS_Subset DEF Live
<1>2. wpc' \in [Threads -> Pcs]
  BY <1>1 DEF Shape, PoolTypeOK, Pcs
<1>3. pc # "gone" => Live' = Live
  BY <1>1 DEF Live, Shape, PoolTypeOK
<1>4. pc = "gone" => Live' = Live \ {t}
  BY <1>1 DEF Live, Shape, PoolTypeOK
<1>5. Cardinality(Live \ {t}) = Cardinality(Live) - 1
  BY <1>1, FS_RemoveElement
<1> QED
  BY <1>2, <1>3, <1>4, <1>5

\* A worker count is a positive number.
LEMMA SizeIsNumber == \A n \in Sizes : n \in Nat /\ n >= 1
BY SizesArePositive

\* A step of one thread.
LEMMA WorkTypes == ASSUME Shape, NEW t \in Threads, Work(t) PROVE Shape'
<1> USE SizeIsNumber DEF Shape
<1>1. t \in Live
  BY DEF Work, LoadCur, LoadWant, Retire, Take, WaitEnds, FinishTask, MarkExit, Live
<1>2. UNCHANGED <<target, started, resizeVars, halt>>
  BY DEF Work, LoadCur, LoadWant, Retire, Take, WaitEnds, FinishTask, MarkExit
<1>3. /\ workers \in Nat /\ target \in Nat /\ cur \in [Threads -> Nat]
      /\ want \in [Threads -> Sizes \union {0}]
  BY DEF PoolTypeOK
<1>4. workers' \in Nat /\ (target = 0 => workers' = 0)
  <2>1. CASE Retire(t)
    <3>1. cur[t] > want[t] /\ want[t] \in Sizes /\ wpc[t] = "cas"
      BY <2>1 DEF Retire
    <3>2. cur[t] \in Nat /\ want[t] \in Nat /\ cur[t] > 0
      BY <1>3, <3>1
    <3> QED
      BY <1>3, <2>1, <3>1, <3>2 DEF Retire
  <2>2. CASE MarkExit(t)
    BY <1>3, <2>2 DEF MarkExit
  <2> QED
    BY <1>3, <2>1, <2>2 DEF Work, LoadCur, LoadWant, Take, WaitEnds, FinishTask
<1>5. queue' \subseteq Tasks /\ job' \in [Threads -> Tasks \union {NoTask}]
  BY DEF Work, LoadCur, LoadWant, Retire, Take, WaitEnds, FinishTask, MarkExit, PoolTypeOK
<1>6. tpc' \in [Tasks -> {"new", "checked", "queued", "running", "done"}]
  BY DEF Work, LoadCur, LoadWant, Retire, Take, WaitEnds, FinishTask, MarkExit, PoolTypeOK
<1>7. cur' \in [Threads -> Nat] /\ (target = 0 => \A s \in Threads : cur'[s] = 0)
  BY <1>3 DEF Work, LoadCur, LoadWant, Retire, Leave, Take, WaitEnds, FinishTask, MarkExit
<1>w. want' \in [Threads -> Sizes \union {0}]
  <2>1. target \in Sizes \union {0}
    BY DEF PoolTypeOK
  <2> QED
    BY <1>3, <2>1 DEF Work, LoadCur, LoadWant, Retire, Leave, Take, WaitEnds, FinishTask, MarkExit
<1>8. PICK pc \in Pcs : wpc' = [wpc EXCEPT ![t] = pc]
  <2>1. wpc = [wpc EXCEPT ![t] = wpc[t]] /\ wpc[t] \in Pcs
    BY DEF PoolTypeOK, Pcs
  <2> QED
    BY <2>1 DEF Work, LoadCur, LoadWant, Retire, Leave, Take, WaitEnds, FinishTask, MarkExit, Pcs
<1>9. wpc' \in [Threads -> Pcs]
  BY <1>1, <1>8, LiveMoves
<1>10. ASSUME NEW s \in Threads, wpc'[s] = "cas" PROVE cur'[s] > want'[s] /\ want'[s] \in Sizes
  <2>1. CASE s # t
    <3>1. wpc'[s] = wpc[s]
      BY <1>8, <2>1 DEF PoolTypeOK
    <3>2. cur'[s] = cur[s] /\ want'[s] = want[s]
      BY <2>1 DEF Work, LoadCur, LoadWant, Retire, Leave, Take, WaitEnds, FinishTask, MarkExit, PoolTypeOK
    <3> QED
      BY <1>10, <3>1, <3>2
  <2>2. CASE s = t
    <3>1. LoadWant(t) \/ Retire(t)
      BY <1>10, <2>2 DEF Work, LoadCur, Take, WaitEnds, FinishTask, MarkExit, PoolTypeOK
    <3>2. CASE LoadWant(t)
      <4>1. cur[t] > target /\ want'[t] = target /\ cur'[t] = cur[t]
        BY <1>3, <1>10, <2>2, <3>2 DEF LoadWant, Leave, PoolTypeOK
      <4>2. target \in Sizes
        BY <1>3, <4>1 DEF PoolTypeOK
      <4> QED
        BY <2>2, <4>1, <4>2
    <3>3. CASE Retire(t)
      BY <1>3, <1>10, <2>2, <3>3 DEF Retire, Leave, PoolTypeOK
    <3> QED
      BY <3>1, <3>2, <3>3
  <2> QED
    BY <2>1, <2>2
<1>11. slips' \subseteq {"threw", "stale", "forgotten"}
  BY DEF Work, LoadCur, LoadWant, Retire, Take, WaitEnds, FinishTask, MarkExit, PoolTypeOK
<1>12. PoolTypeOK'
  BY <1>2, <1>4, <1>5, <1>6, <1>7, <1>w, <1>9, <1>11 DEF PoolTypeOK, Pcs, resizeVars
<1> QED
  BY <1>2, <1>4, <1>7, <1>10, <1>12 DEF resizeVars

\* Threads are created, by the first submission or by a resize.
LEMMA CreateTypes ==
  ASSUME Shape, NEW m, NEW n, Create(m, n), UNCHANGED <<cur, want>>
  PROVE  /\ wpc' \in [Threads -> Pcs]
         /\ slips' \subseteq {"threw", "stale", "forgotten"}
         /\ \A t \in Threads : wpc'[t] = "cas" => cur'[t] > want'[t] /\ want'[t] \in Sizes
<1> DEFINE new == CHOOSE s \in SUBSET (Threads \ Live) : Cardinality(s) = m
<1>1. wpc' = [t \in Threads |-> IF t \in new THEN "top" ELSE wpc[t]]
  BY DEF Create, Spawn
<1> HIDE DEF new
<1>2. slips' \subseteq {"threw", "stale", "forgotten"}
  BY DEF Create, Shape, PoolTypeOK
<1> QED
  BY <1>1, <1>2 DEF Shape, PoolTypeOK, Pcs

\* Submissions, resizes and shutdown().
LEMMA OtherTypes ==
  ASSUME Shape,
         \/ \E k \in Tasks : EnsureStarted(k) \/ PoolEnqueue(k)
         \/ \E n \in Sizes : BeginResize(n)
         \/ LoadCount \/ Grow \/ ClearCount \/ RequestStop \/ JoinAll \/ UNCHANGED poolVars
  PROVE  Shape'
<1> USE SizeIsNumber DEF Shape
<1>1. ASSUME NEW k \in Tasks, EnsureStarted(k) PROVE Shape'
  <2>1. CASE UNCHANGED <<workers, target, started, wpc, slips>> /\ tpc' = [tpc EXCEPT ![k] = "checked"]
    BY <1>1, <2>1 DEF EnsureStarted, PoolTypeOK, resizeVars
  <2>2. CASE /\ workers = 0 /\ ~started /\ Unlocked
             /\ \E n \in Sizes, m \in 0..Cardinality(Threads) :
                  /\ Create(m, n) /\ started' = (m > 0)
                  /\ target' = IF m = n THEN n ELSE target
                  /\ workers' = IF m = n THEN n ELSE workers
                  /\ tpc' = IF m = n THEN [tpc EXCEPT ![k] = "checked"] ELSE tpc
    <3>1. PICK n \in Sizes, m \in 0..Cardinality(Threads) :
                  /\ Create(m, n) /\ started' = (m > 0)
                  /\ target' = IF m = n THEN n ELSE target
                  /\ workers' = IF m = n THEN n ELSE workers
                  /\ tpc' = IF m = n THEN [tpc EXCEPT ![k] = "checked"] ELSE tpc
      BY <2>2
    <3>2. n \in Nat /\ n # 0
      OBVIOUS
    <3>3. UNCHANGED <<queue, job, cur, want, resize, resizes, halt>>
      BY <1>1 DEF EnsureStarted, resizeVars
    <3>4. /\ wpc' \in [Threads -> Pcs] /\ slips' \subseteq {"threw", "stale", "forgotten"}
          /\ \A t \in Threads : wpc'[t] = "cas" => cur'[t] > want'[t] /\ want'[t] \in Sizes
      BY <3>1, <3>3, CreateTypes
    <3>5. tpc' \in [Tasks -> {"new", "checked", "queued", "running", "done"}]
      BY <3>1 DEF PoolTypeOK
    <3>6. PoolTypeOK'
      BY <3>1, <3>2, <3>3, <3>4, <3>5 DEF PoolTypeOK, Pcs
    <3>7. target' = 0 => target = 0 /\ workers' = workers
      BY <3>1, <3>2
    <3> QED
      BY <3>3, <3>4, <3>6, <3>7
  <2> QED
    BY <1>1, <2>1, <2>2 DEF EnsureStarted
<1>2. ASSUME NEW k \in Tasks, PoolEnqueue(k) PROVE Shape'
  BY <1>2 DEF PoolEnqueue, PoolTypeOK, workerVars, resizeVars
<1>3. ASSUME NEW n \in Sizes, BeginResize(n) PROVE Shape'
  <2>1. n \in Nat /\ n # 0
    OBVIOUS
  <2>2. resizes' \in 0..MaxResizes
    BY <1>3, MaxResizesIsNat DEF BeginResize, PoolTypeOK
  <2>3. resize' \in Steps /\ resize'.step \in {"none", "set", "grow"}
    BY <1>3 DEF BeginResize, Steps
  <2>4. target' = n /\ UNCHANGED <<workers, started, queue, tpc, wpc, job, cur, want, halt, slips>>
    BY <1>3 DEF BeginResize, workerVars
  <2>5. PoolTypeOK'
    BY <2>2, <2>3, <2>4 DEF PoolTypeOK
  <2> QED
    BY <2>1, <2>3, <2>4, <2>5
<1>4. CASE LoadCount
  <2>1. /\ resize.step = "set"
        /\ UNCHANGED <<workers, target, started, queue, tpc, wpc, job, cur, want, resizes, halt, slips>>
    BY <1>4 DEF LoadCount, workerVars
  <2>2. resize' \in Steps /\ resize'.step \in {"none", "set", "grow"}
    BY <1>4 DEF LoadCount, Steps, Idle, PoolTypeOK
  <2>3. PoolTypeOK'
    BY <2>1, <2>2 DEF PoolTypeOK
  <2> QED
    BY <2>1, <2>2, <2>3
<1>5. CASE Grow
  <2>1. PICK m \in 0..Cardinality(Threads) :
          /\ Create(m, resize.size - resize.cur)
          /\ workers' = IF m = resize.size - resize.cur THEN resize.size ELSE workers
    BY <1>5 DEF Grow
  <2>2. /\ resize.step = "grow" /\ resize' = Idle
        /\ UNCHANGED <<target, started, queue, tpc, job, cur, want, resizes, halt>>
    BY <1>5 DEF Grow
  <2>3. /\ wpc' \in [Threads -> Pcs] /\ slips' \subseteq {"threw", "stale", "forgotten"}
        /\ \A t \in Threads : wpc'[t] = "cas" => cur'[t] > want'[t] /\ want'[t] \in Sizes
    BY <2>1, <2>2, CreateTypes
  <2>4. resize' \in Steps /\ resize'.step = "none"
    BY <2>2 DEF Steps, Idle
  <2>5. workers' \in Nat
    BY <2>1 DEF Steps, PoolTypeOK
  <2>6. PoolTypeOK'
    BY <2>2, <2>3, <2>4, <2>5 DEF PoolTypeOK, Pcs
  <2> QED
    BY <2>2, <2>3, <2>4, <2>6
<1>6. CASE ClearCount
  BY <1>6 DEF ClearCount, PoolTypeOK, workerVars, resizeVars
<1>7. CASE RequestStop
  BY <1>7 DEF RequestStop, PoolTypeOK, workerVars, resizeVars
<1>8. CASE JoinAll
  BY <1>8 DEF JoinAll, PoolTypeOK, workerVars, resizeVars
<1>9. CASE UNCHANGED poolVars
  BY <1>9 DEF poolVars, PoolTypeOK, workerVars, resizeVars
<1> QED
  BY <1>1, <1>2, <1>3, <1>4, <1>5, <1>6, <1>7, <1>8, <1>9
------------------------------------------------------------------------------
(* The count.                                                              *)

\* The types at the start.
LEMMA ShapeInit == PoolInit => Shape
<1> SUFFICES ASSUME PoolInit PROVE Shape
  OBVIOUS
<1>1. \A t \in Threads : wpc[t] # "cas" /\ cur[t] = 0
  BY DEF PoolInit
<1>2. /\ workers \in Nat /\ target \in Sizes \union {0} /\ queue \subseteq Tasks /\ workers = 0
      /\ tpc \in [Tasks -> {"new", "checked", "queued", "running", "done"}]
      /\ wpc \in [Threads -> {"gone", "top", "read", "cas", "wait", "busy"}]
      /\ job \in [Threads -> Tasks \union {NoTask}]
      /\ cur \in [Threads -> Nat] /\ want \in [Threads -> Sizes \union {0}]
      /\ resizes \in 0..MaxResizes /\ halt \in {"no", "cleared", "stopping", "over"}
      /\ slips \subseteq {"threw", "stale", "forgotten"}
  BY MaxResizesIsNat DEF PoolInit
<1>3. resize \in Steps /\ resize.step = "none"
  BY DEF PoolInit, Idle, Steps
<1>4. started \in BOOLEAN
  BY DEF PoolInit
<1> QED
  BY <1>1, <1>2, <1>3, <1>4 DEF Shape, PoolTypeOK

\* The types hold in every step.
LEMMA ShapeStep == Shape /\ [PoolNext]_poolVars => Shape'
BY WorkTypes, OtherTypes DEF PoolNext

\* The count starts at zero threads.
LEMMA PoolInvInit == PoolInit => PoolInv
<1> SUFFICES ASSUME PoolInit PROVE PoolInv
  OBVIOUS
<1>1. Live = {}
  BY DEF PoolInit, Live
<1>2. Cardinality(Live) = 0
  BY <1>1, FS_EmptySet
<1> QED
  BY <1>1, <1>2, ShapeInit DEF PoolInv, PoolInit, Resizing, Counting, Bounds, Idle

\* A step of a thread moves the count away from the number of threads only when a
\* resize forgets it.
LEMMA WorkCounts ==
  ASSUME PoolInv, NEW t \in Threads, Work(t)
  PROVE  Resizing' /\ Counting'
<1> USE SizeIsNumber DEF PoolInv
<1>1. t \in Live /\ wpc[t] # "gone"
  BY DEF Work, LoadCur, LoadWant, Retire, Take, WaitEnds, FinishTask, MarkExit, Live
<1>2. UNCHANGED <<target, started, resize, halt>> /\ started
  BY <1>1 DEF Work, LoadCur, LoadWant, Retire, Take, WaitEnds, FinishTask, MarkExit, resizeVars, Counting
<1>3. /\ wpc \in [Threads -> Pcs] /\ workers \in Nat /\ cur[t] \in Nat
      /\ halt \in {"no", "cleared", "stopping", "over"}
      /\ resize.cur \in Nat /\ target \in Nat
  BY DEF Shape, PoolTypeOK, Pcs, Steps
<1>4. IsFiniteSet(Live) /\ Cardinality(Live) \in Nat
  BY ThreadsAreFinite, FS_Subset, FS_CardinalityType DEF Live
<1>5. CASE wpc[t] = "cas" /\ workers = cur[t]
  <2>1. cur[t] > want[t] /\ want[t] \in Nat /\ want[t] >= 1
    BY <1>5 DEF Shape
  <2>2. Retire(t)
    BY <1>5 DEF Work, LoadCur, LoadWant, Take, WaitEnds, FinishTask, MarkExit
  <2>3. /\ workers' = workers - 1 /\ wpc' = [wpc EXCEPT ![t] = "gone"]
        /\ slips \subseteq slips' /\ ("threw" \in slips' => "threw" \in slips)
        /\ resize.step = "grow" /\ workers <= target => "forgotten" \in slips'
    BY <1>5, <2>2, <1>3 DEF Retire, Leave
  <2>4. halt \in {"no", "over"}
    BY <1>3, <1>5, <2>1 DEF Counting
  <2>5. Cardinality(Live') = Cardinality(Live) - 1
    BY <1>1, <2>3, LiveMoves DEF Pcs
  <2>6. Bounds'
    BY <1>3, <1>4, <2>3, <2>4, <2>5 DEF Counting, Bounds
  <2>7. Counting'
    BY <1>2, <2>4, <2>6 DEF Counting
  <2>8. resize.step = "grow" => workers <= target
    BY <1>3 DEF Resizing
  <2>9. Resizing'
    BY <1>2, <1>3, <2>3, <2>8 DEF Resizing
  <2> QED
    BY <2>7, <2>9
<1>6. CASE MarkExit(t)
  <2>1. halt = "stopping" /\ workers = 0
    BY <1>6 DEF MarkExit, Counting
  <2>2. workers' = 0
    BY <1>6, <2>1 DEF MarkExit
  <2>3. resize.step = "none"
    BY <2>1 DEF Resizing
  <2> QED
    BY <1>2, <2>1, <2>2, <2>3 DEF Resizing, Counting
<1>7. CASE ~MarkExit(t) /\ ~(wpc[t] = "cas" /\ workers = cur[t])
  <2>1. workers' = workers /\ slips' = slips
    BY <1>7 DEF Work, LoadCur, LoadWant, Retire, Take, WaitEnds, FinishTask
  <2>2. PICK pc \in Pcs \ {"gone"} : wpc' = [wpc EXCEPT ![t] = pc]
    <3>1. wpc = [wpc EXCEPT ![t] = wpc[t]] /\ wpc[t] \in Pcs \ {"gone"}
      BY <1>1, <1>3
    <3> QED
      BY <1>7, <3>1 DEF Work, LoadCur, LoadWant, Retire, Leave, Take, WaitEnds, FinishTask, Pcs
  <2>3. Live' = Live
    BY <1>1, <2>2, LiveMoves
  <2>4. Counting'
    BY <1>2, <2>1, <2>3 DEF Counting, Bounds
  <2>5. Resizing'
    BY <1>2, <2>1 DEF Resizing
  <2> QED
    BY <2>4, <2>5
<1> QED
  BY <1>5, <1>6, <1>7

\* What creating threads does to the number of them.
LEMMA CreateCounts ==
  ASSUME Shape, NEW m \in 0..Cardinality(Threads), NEW n \in Nat, Create(m, n)
  PROVE  /\ Cardinality(Live') = Cardinality(Live) + m /\ m <= n
         /\ Cardinality(Live) \in Nat
         /\ m < n => slips' = slips \union {"threw"}
         /\ m = n => slips' = slips
<1>1. m \in Nat
  BY ThreadsAreFinite, FS_CardinalityType
<1>2. Cardinality(Live') = Cardinality(Live) + m
  BY <1>1, SpawnMakes DEF Create
<1>3. Cardinality(Live) \in Nat
  BY ThreadsAreFinite, FS_Subset, FS_CardinalityType DEF Live
<1> QED
  BY <1>1, <1>2, <1>3 DEF Create

\* The other steps.
LEMMA OtherCounts ==
  ASSUME PoolInv,
         \/ \E k \in Tasks : EnsureStarted(k) \/ PoolEnqueue(k)
         \/ \E n \in Sizes : BeginResize(n)
         \/ LoadCount \/ Grow \/ ClearCount \/ RequestStop \/ JoinAll \/ UNCHANGED poolVars
  PROVE  Resizing' /\ Counting'
<1> USE SizeIsNumber DEF PoolInv
<1>1. ASSUME NEW k \in Tasks, EnsureStarted(k) PROVE Resizing' /\ Counting'
  <2>1. CASE UNCHANGED <<workers, target, started, wpc, slips>>
    BY <1>1, <2>1 DEF EnsureStarted, Resizing, Counting, Bounds, Live, resizeVars
  <2>2. CASE /\ workers = 0 /\ ~started /\ Unlocked
             /\ \E n \in Sizes, m \in 0..Cardinality(Threads) :
                  /\ Create(m, n) /\ started' = (m > 0)
                  /\ workers' = IF m = n THEN n ELSE workers
    <3>1. PICK n \in Sizes, m \in 0..Cardinality(Threads) :
                  /\ Create(m, n) /\ started' = (m > 0)
                  /\ workers' = IF m = n THEN n ELSE workers
      BY <2>2
    <3>2. Live = {} /\ halt \notin {"cleared", "stopping"} /\ halt' = halt
      BY <1>1, <2>2 DEF Counting, EnsureStarted
    <3>3. Cardinality(Live) = 0
      BY <3>2, FS_EmptySet
    <3>4. n \in Nat /\ n >= 1 /\ m \in Nat
      BY ThreadsAreFinite, FS_CardinalityType
    <3>5. /\ Cardinality(Live') = m /\ m <= n
          /\ m < n => slips' = slips \union {"threw"}
      BY <3>1, <3>3, <3>4, CreateCounts
    <3>6. resize'.step = "none"
      BY <1>1, <2>2 DEF EnsureStarted, resizeVars, Unlocked
    <3>7. Bounds'
      BY <2>2, <3>1, <3>4, <3>5 DEF Bounds
    <3>8. ~started' => Live' = {} /\ workers' = 0
      <4>1. SUFFICES ASSUME ~started' PROVE Live' = {} /\ workers' = 0
        OBVIOUS
      <4>2. m = 0
        <5>1. ~(m > 0)
          BY <3>1, <4>1, Zenon
        <5> QED
          BY <3>4, <5>1
      <4>4. workers' = 0
        BY <2>2, <3>1, <3>4, <4>2
      <4>3. IsFiniteSet(Live')
        BY ThreadsAreFinite, FS_Subset DEF Live
      <4> QED
        BY <3>5, <4>2, <4>4, <4>3, FS_EmptySet
    <3> QED
      BY <3>2, <3>6, <3>7, <3>8 DEF Resizing, Counting
  <2> QED
    BY <1>1, <2>1, <2>2 DEF EnsureStarted
<1>2. ASSUME NEW k \in Tasks, PoolEnqueue(k) PROVE Resizing' /\ Counting'
  BY <1>2 DEF PoolEnqueue, Resizing, Counting, Bounds, Live, workerVars, resizeVars
<1>3. ASSUME NEW n \in Sizes, BeginResize(n) PROVE Resizing' /\ Counting'
  <2>1. /\ halt = "no" /\ started /\ target' = n
        /\ resize' = [step |-> "set", size |-> n, cur |-> 0]
        /\ UNCHANGED <<workers, started, wpc, halt, slips>>
    BY <1>3 DEF BeginResize, workerVars
  <2>2. Live' = Live
    BY <2>1 DEF Live
  <2> QED
    BY <2>1, <2>2 DEF Resizing, Counting, Bounds
<1>4. CASE LoadCount
  <2>1. resize.step = "set" /\ UNCHANGED <<workers, target, started, wpc, halt, slips>>
    BY <1>4 DEF LoadCount, workerVars
  <2>2. \/ resize'.step = "none"
        \/ /\ resize'.step = "grow" /\ resize'.size = resize.size
           /\ resize'.cur = workers /\ resize.size > workers
    BY <1>4 DEF LoadCount, Idle, Shape, Steps
  <2>3. workers \in Nat /\ resize.size \in Nat
    BY <2>1 DEF Resizing, Shape, PoolTypeOK
  <2>4. Live' = Live
    BY <2>1 DEF Live
  <2> QED
    BY <2>1, <2>2, <2>3, <2>4 DEF Resizing, Counting, Bounds
<1>5. CASE Grow
  <2>1. PICK m \in 0..Cardinality(Threads) :
          /\ Create(m, resize.size - resize.cur)
          /\ workers' = IF m = resize.size - resize.cur THEN resize.size ELSE workers
    BY <1>5 DEF Grow
  <2>2. resize.step = "grow" /\ resize' = Idle /\ UNCHANGED <<target, started, halt>>
    BY <1>5 DEF Grow
  <2>3. /\ halt = "no" /\ started /\ resize.size \in Nat /\ resize.cur \in Nat /\ workers \in Nat
        /\ resize.cur < resize.size /\ workers <= resize.cur
        /\ "forgotten" \notin slips => resize.cur = workers
    BY <2>2 DEF Resizing, Shape, PoolTypeOK, Steps
  <2>4. resize.size - resize.cur \in Nat /\ m \in Nat
    BY <2>3, ThreadsAreFinite, FS_CardinalityType
  <2>5. /\ Cardinality(Live') = Cardinality(Live) + m /\ m <= resize.size - resize.cur
        /\ Cardinality(Live) \in Nat
        /\ m < resize.size - resize.cur => slips' = slips \union {"threw"}
        /\ m = resize.size - resize.cur => slips' = slips
    BY <2>1, <2>4, CreateCounts
  <2>6. Bounds
    BY <2>3 DEF Counting
  <2>7. Bounds'
    <3>1. CASE m = resize.size - resize.cur
      BY <2>1, <2>3, <2>4, <2>5, <2>6, <3>1 DEF Bounds
    <3>2. CASE m < resize.size - resize.cur
      BY <2>1, <2>3, <2>4, <2>5, <2>6, <3>2 DEF Bounds
    <3> QED
      BY <2>3, <2>4, <2>5, <3>1, <3>2
  <2> QED
    BY <2>2, <2>3, <2>7 DEF Resizing, Counting, Idle
<1>6. CASE ClearCount
  <2>1. /\ halt = "no" /\ workers > 0 /\ workers' = 0 /\ halt' = "cleared"
        /\ resize.step = "none" /\ UNCHANGED <<started, wpc, resize>>
    BY <1>6 DEF ClearCount, workerVars, resizeVars, Unlocked
  <2>2. started
    BY <2>1 DEF Counting
  <2> QED
    BY <2>1, <2>2 DEF Resizing, Counting, Live
<1>7. CASE RequestStop
  BY <1>7 DEF RequestStop, Resizing, Counting, Live, workerVars, resizeVars
<1>8. CASE JoinAll
  <2>1. /\ halt = "stopping" /\ halt' = "over" /\ Live = {} /\ started' = FALSE
        /\ UNCHANGED <<workers, wpc, resize>>
    BY <1>8 DEF JoinAll, workerVars, resizeVars
  <2>2. Live' = {} /\ workers' = 0 /\ Cardinality(Live') = 0
    BY <2>1, FS_EmptySet DEF Counting, Live
  <2>3. resize'.step = "none"
    BY <2>1 DEF Resizing
  <2> QED
    BY <2>1, <2>2, <2>3 DEF Resizing, Counting, Bounds
<1>9. CASE UNCHANGED poolVars
  BY <1>9 DEF poolVars, Resizing, Counting, Bounds, Live, workerVars, resizeVars
<1> QED
  BY <1>1, <1>2, <1>3, <1>4, <1>5, <1>6, <1>7, <1>8, <1>9
------------------------------------------------------------------------------
(* The theorems.                                                           *)

\* The types hold, overlapping resizes included: m_running_workers, taken down
\* by retiring and by stopping threads, does not wrap
\* (core/global_thread_pool.cpp:154-173).
THEOREM PoolTypeCorrect == PoolSpec => []PoolTypeOK
<1>1. Shape => PoolTypeOK
  BY DEF Shape
<1> QED
  BY <1>1, ShapeInit, ShapeStep, PTL DEF PoolSpec

\* At whatever pace resizes follow each other and whatever threads cannot be
\* created, running_workers() is at most the number of live threads unless a
\* resize has forgotten a retirement, and at least that number unless creating
\* one has thrown, except between the first and the last step of shutdown()
\* (core/global_thread_pool.hpp:28).
THEOREM CountCorrect == PoolSpec => []CountIsLive
<1>1. PoolInv => CountIsLive
  BY DEF PoolInv, Counting, Bounds, CountIsLive
<1>2. PoolInv /\ [PoolNext]_poolVars => PoolInv'
  BY WorkCounts, OtherCounts, ShapeStep DEF PoolInv, PoolNext
<1> QED
  BY <1>1, <1>2, PoolInvInit, PTL DEF PoolSpec
==============================================================================
