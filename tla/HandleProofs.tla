----------------------------- MODULE HandleProofs -----------------------------
(***************************************************************************)
(* Proofs about the descriptors of a handle: about Gcd, for any finite set *)
(* of requests and any number of pieces of a parallel read, where they     *)
(* outlive the requests; and about Opening, for any number of calls and    *)
(* descriptors and every platform, where they come from.                   *)
(***************************************************************************)
EXTENDS Gcd, Opening, FiniteSetTheorems, SequenceTheorems, TLAPS

Stages == {"new", "counted", "leaked", "uncounted", "done"}
Places == {"none", "queued", "moved", "settled"}
ClosePcs == {"idle", "wait", "stop", "cleanup", "drain", "barrier", "fd", "returned"}
Queued == Blocks \union {Cleanup, Barrier}

Shape == /\ running \in BOOLEAN /\ expired \in BOOLEAN /\ pending \in Int
         /\ io \in [Ops -> {"none", "working", "partial", "ended"}]
         /\ queue \in Seq(Queued)
         /\ route \in [Ops -> Routes]
         /\ chunk \in [Ops -> [Chunks -> Places]]
         /\ remaining \in [Ops -> 0..Cardinality(Chunks)]
         /\ failed \in [Ops -> BOOLEAN]
         /\ stage \in [Ops -> Stages]
         /\ result \in [Ops -> {"none", "ok", "error", "closed"}]
         /\ cpc \in ClosePcs

\* The tasks of a request that have still to count themselves off.
Unsettled(o) == {c \in Chunks : chunk[o][c] \in {"queued", "moved"}}

ByTasks(o) == route[o] \in {"task", "parallel"}

\* A request has a route once it is admitted; its group counts the tasks
\* that are left, and one more for ever if some were never queued.
Group(o) ==
  /\ stage[o] = "new" => route[o] = "none"
  /\ stage[o] = "counted" => route[o] # "none"
  /\ stage[o] = "leaked" => ByTasks(o) /\ remaining[o] > Cardinality(Unsettled(o))
  /\ stage[o] = "counted" /\ ByTasks(o) => remaining[o] = Cardinality(Unsettled(o))
  /\ stage[o] \notin {"counted", "leaked"} \/ ~ByTasks(o) => Unsettled(o) = {}

\* What a request by tasks has been completed with.
Verdict(o) ==
  ByTasks(o) /\ stage[o] \in {"uncounted", "done"} => ((result[o] = "ok") <=> ~failed[o])

Groups == \A o \in Ops : Group(o) /\ Verdict(o)

\* The handlers of the channel run one at a time: a request that a handler has
\* taken off m_pending is the one whose block is at the head of the queue.
Serial ==
  /\ \A i \in 1..Len(queue) : queue[i] \in Blocks => route[queue[i].op] = "channel"
  /\ \A o \in Ops : io[o] # "none" => route[o] = "channel"
  /\ \A o \in Ops : stage[o] = "uncounted" /\ route[o] = "channel" =>
       queue # <<>> /\ queue[1] \in Blocks /\ queue[1].op = o /\ queue[1].kind # "data"

\* running_ goes with the start of close_impl(); past its first wait nothing is
\* counted, unless the deadline has cut it short.
Closing ==
  /\ running <=> cpc = "idle"
  /\ cpc \in {"stop", "cleanup", "drain", "barrier", "fd"} => expired \/ Counted = {}

Inv == Shape /\ Groups /\ Serial /\ Closing /\ PendingIsExact
------------------------------------------------------------------------------
(* What a step does to the requests and to the close.                      *)

Admits(o) == /\ running /\ stage[o] = "new" /\ route[o] = "none"
             /\ \E s \in {"counted", "leaked"} : stage' = [stage EXCEPT ![o] = s]
             /\ \E r \in Routes \ {"none"} : route' = [route EXCEPT ![o] = r]
             /\ pending' = pending + 1
             /\ UNCHANGED <<running, cpc, expired>>

Leaves(o) == /\ stage[o] = "counted"
             /\ stage' = [stage EXCEPT ![o] = "uncounted"]
             /\ pending' = pending - 1
             /\ UNCHANGED <<route, running, cpc, expired>>

Ends(o) == /\ stage[o] = "uncounted" \/ (stage[o] = "new" /\ route[o] = "none")
           /\ stage' = [stage EXCEPT ![o] = "done"]
           /\ UNCHANGED <<route, pending, running, cpc, expired>>

Shuts == /\ running /\ cpc' = "wait" /\ running' = FALSE
         /\ UNCHANGED <<route, stage, pending, expired>>

Passes == /\ cpc = "wait" /\ cpc' = "stop" /\ (pending = 0 \/ expired)
          /\ UNCHANGED <<route, stage, pending, running, expired>>

Proceeds == /\ \/ cpc \in {"stop", "cleanup", "drain", "barrier"}
                  /\ cpc' \in {"cleanup", "drain", "barrier", "fd"}
               \/ cpc = "fd" /\ cpc' = "returned"
            /\ UNCHANGED <<route, stage, pending, running, expired>>

TimesOut == /\ cpc = "wait" /\ expired' = TRUE
            /\ UNCHANGED <<route, stage, pending, running, cpc>>

Nothing == UNCHANGED <<route, stage, pending, running, cpc, expired>>

Kinds == \/ \E o \in Ops : Admits(o) \/ Leaves(o) \/ Ends(o)
         \/ Shuts \/ Passes \/ Proceeds \/ TimesOut \/ Nothing

\* A task that is left is one of a request that is counted or was given up, and
\* the count of its group tells whether it is the last.
LEMMA TaskOfGroup ==
  ASSUME Shape, Groups, NEW o \in Ops, NEW c \in Unsettled(o)
  PROVE  /\ ByTasks(o) /\ stage[o] \in {"counted", "leaked"}
         /\ Cardinality(Unsettled(o)) \in Nat \ {0}
         /\ remaining[o] = 1 => stage[o] = "counted" /\ Unsettled(o) = {c}
<1>1. ByTasks(o) /\ stage[o] \in {"counted", "leaked"}
  BY DEF Groups, Group
<1>2. IsFiniteSet(Unsettled(o))
  BY Parameters, FS_Subset DEF Unsettled
<1>3. Cardinality(Unsettled(o)) \in Nat /\ Cardinality(Unsettled(o)) # 0
  BY <1>2, FS_CardinalityType, FS_EmptySet
<1>4. ASSUME remaining[o] = 1 PROVE stage[o] = "counted" /\ Unsettled(o) = {c}
  <2>1. stage[o] = "counted"
    BY <1>1, <1>3, <1>4 DEF Groups, Group
  <2>2. Cardinality(Unsettled(o)) = 1
    BY <1>1, <1>4, <2>1 DEF Groups, Group
  <2> QED
    BY <1>2, <2>1, <2>2, FS_Singleton
<1> QED
  BY <1>1, <1>3, <1>4

\* Every step is of one of the kinds.
LEMMA StepKind == Inv /\ [Next]_vars => Kinds
<1> SUFFICES ASSUME Inv, [Next]_vars PROVE Kinds
  OBVIOUS
<1> USE DEF Inv, Kinds
<1>1. ASSUME NEW o \in Ops, Reject(o) PROVE Ends(o)
  BY <1>1 DEF Reject, Ends, Groups, Group, object, closing
<1>2. ASSUME NEW o \in Ops, NEW r \in Routes \ {"none"}, Admit(o, r),
             NEW s \in {"counted", "leaked"}, stage' = [stage EXCEPT ![o] = s]
      PROVE  Admits(o)
  BY <1>2 DEF Admit, Admits, Groups, Group, closing
<1>3. ASSUME NEW o \in Ops, SubmitInline(o) \/ SubmitChannel(o) PROVE Admits(o)
  BY <1>2, <1>3 DEF SubmitInline, SubmitChannel, Routes
<1>4. ASSUME NEW o \in Ops, NEW r \in Routes \ {"none"}, NEW tasks, NEW queued,
             SubmitTasks(o, r, tasks) \/ SubmitThrows(o, r, tasks, queued)
      PROVE  Admits(o)
  BY <1>2, <1>4 DEF SubmitTasks, SubmitThrows
<1>5. ASSUME NEW o \in Ops, InlineRead(o) PROVE Leaves(o)
  BY <1>5 DEF InlineRead, Uncount, Leaves, closing
<1>6. ASSUME NEW o \in Ops, Deliver(o) PROVE Ends(o)
  BY <1>6 DEF Deliver, Ends, object, closing
<1>7. ASSUME NEW o \in Ops, ChannelData(o) \/ ChannelEnds(o) PROVE Nothing
  BY <1>7 DEF ChannelData, ChannelEnds, Nothing, object, ops, closing
<1>8. ASSUME NEW o \in Ops, NEW c \in Chunks, DoTask(o, c) PROVE Nothing
  BY <1>8 DEF DoTask, Nothing, object, ops, closing
<1>9. ASSUME NEW o \in Ops, NEW c \in Chunks, DoneTask(o, c) PROVE Leaves(o) \/ Nothing
  <2>1. c \in Unsettled(o)
    BY <1>9 DEF DoneTask, Unsettled
  <2>2. CASE remaining[o] = 1
    <3>1. stage[o] = "counted"
      BY <2>1, <2>2, TaskOfGroup
    <3> QED
      BY <1>9, <2>2, <3>1 DEF DoneTask, Uncount, Leaves, closing
  <2>3. CASE remaining[o] # 1
    BY <1>9, <2>3 DEF DoneTask, Nothing, object, ops, closing
  <2> QED
    BY <2>2, <2>3
<1>10. CASE RunHandler
  <2>1. CASE Head(queue).kind = "data"
    BY <1>10, <2>1 DEF RunHandler, Nothing, object, ops, closing
  <2>2. CASE Head(queue).kind # "data"
    <3>1. Head(queue).op \in Ops
      BY <1>10 DEF RunHandler, Blocks
    <3>2. Leaves(Head(queue).op)
      BY <1>10, <2>2, <3>1 DEF RunHandler, Uncount, Leaves, closing
    <3> QED
      BY <3>1, <3>2
  <2> QED
    BY <2>1, <2>2
<1>11. CASE ChannelGone \/ RunCleanup
  BY <1>11 DEF ChannelGone, RunCleanup, Nothing, object, ops, closing
<1>12. CASE BeginClose
  BY <1>12 DEF BeginClose, Shuts, ops
<1>13. CASE Expire
  BY <1>13 DEF Expire, TimesOut, object, ops
<1>14. CASE WaitEnds
  BY <1>14 DEF WaitEnds, Passes, object, ops
<1>15. CASE StopChannel \/ AwaitCleanup \/ EnterBarrier \/ PassBarrier \/ ReleaseFd
  BY <1>15 DEF StopChannel, AwaitCleanup, EnterBarrier, PassBarrier, ReleaseFd,
               Proceeds, object, ops
<1>16. CASE UNCHANGED vars
  BY <1>16 DEF vars, Nothing, object, ops, closing
<1>17. "task" \in Routes \ {"none"} /\ "parallel" \in Routes \ {"none"}
  BY DEF Routes
<1> QED
  BY <1>1, <1>3, <1>4, <1>5, <1>6, <1>7, <1>8, <1>9, <1>10, <1>11, <1>12, <1>13, <1>14,
     <1>15, <1>16, <1>17 DEF Next, Submit, TaskStep, QueueStep, CloseStep
------------------------------------------------------------------------------
(* The parts of the invariant, as far as a step leaves them alone.         *)

\* A request that a step does not touch keeps its group and its verdict.
LEMMA KeepGroup ==
  ASSUME NEW o \in Ops, Groups, chunk'[o] = chunk[o], remaining'[o] = remaining[o],
         route'[o] = route[o], stage'[o] = stage[o], failed'[o] = failed[o],
         result'[o] = result[o]
  PROVE  Group(o)' /\ Verdict(o)'
BY DEF Groups, Group, Verdict, Unsettled, ByTasks

\* The queue when a block is submitted to it.
LEMMA AppendSerial ==
  ASSUME Shape, Serial, NEW b \in Queued, b \in Blocks => route[b.op] = "channel",
         queue' = Append(queue, b), route' = route, stage' = stage,
         \A o \in Ops : io'[o] # "none" => io[o] # "none"
  PROVE  queue' \in Seq(Queued) /\ Serial'
<1>1. queue \in Seq(Queued)
  BY DEF Shape
<1>2. /\ queue' \in Seq(Queued) /\ Len(queue') = Len(queue) + 1 /\ Len(queue) \in Nat
      /\ queue'[Len(queue) + 1] = b
      /\ \A i \in 1..Len(queue) : queue'[i] = queue[i]
  BY <1>1, AppendProperties, LenProperties
<1>3. ASSUME NEW i \in 1..Len(queue'), queue'[i] \in Blocks
      PROVE  route'[queue'[i].op] = "channel"
  <2>1. CASE i = Len(queue) + 1
    BY <1>2, <1>3, <2>1
  <2>2. CASE i # Len(queue) + 1
    <3>1. i \in 1..Len(queue)
      BY <1>2, <2>2
    <3> QED
      BY <1>2, <1>3, <3>1 DEF Serial
  <2> QED
    BY <2>1, <2>2
<1>4. ASSUME NEW o \in Ops, stage[o] = "uncounted", route[o] = "channel"
      PROVE  queue' # <<>> /\ queue'[1] \in Blocks /\ queue'[1].op = o /\ queue'[1].kind # "data"
  <2>1. queue # <<>> /\ queue[1] \in Blocks /\ queue[1].op = o /\ queue[1].kind # "data"
    BY <1>4 DEF Serial
  <2>2. 1 \in 1..Len(queue)
    BY <1>1, <1>2, <2>1, EmptySeq
  <2> QED
    BY <1>1, <1>2, <2>1, <2>2, EmptySeq
<1> QED
  BY <1>2, <1>3, <1>4 DEF Serial

\* The queue when its first block has ended.
LEMMA TailSerial ==
  ASSUME Shape, Serial, queue # <<>>, queue' = Tail(queue), route' = route, io' = io,
         \A o \in Ops : route[o] = "channel" => stage'[o] # "uncounted"
  PROVE  queue' \in Seq(Queued) /\ Serial'
<1>1. queue \in Seq(Queued)
  BY DEF Shape
<1>2. /\ queue' \in Seq(Queued) /\ Len(queue') = Len(queue) - 1 /\ Len(queue) \in Nat
      /\ \A i \in 1..Len(queue') : queue'[i] = queue[i + 1]
  BY <1>1, HeadTailProperties, LenProperties
<1>3. ASSUME NEW i \in 1..Len(queue'), queue'[i] \in Blocks
      PROVE  route'[queue'[i].op] = "channel"
  <2>1. i + 1 \in 1..Len(queue) /\ queue'[i] = queue[i + 1]
    BY <1>2
  <2> QED
    BY <1>3, <2>1 DEF Serial
<1> QED
  BY <1>2, <1>3 DEF Serial

\* The queue when a step leaves it alone and uncounts no request of the channel.
LEMMA KeepSerial ==
  ASSUME Shape, Serial, queue' = queue,
         \A o \in Ops : io'[o] # "none" => route'[o] = "channel",
         \A o \in Ops : route[o] # "none" => route'[o] = route[o],
         \A o \in Ops : stage'[o] = "uncounted" /\ route'[o] = "channel" =>
                          stage[o] = "uncounted" /\ route[o] = "channel"
  PROVE  Serial'
<1>1. ASSUME NEW i \in 1..Len(queue), queue[i] \in Blocks PROVE route'[queue[i].op] = "channel"
  <2>1. queue[i].op \in Ops /\ route[queue[i].op] = "channel"
    BY <1>1 DEF Serial, Blocks
  <2> QED
    BY <2>1
<1> QED
  BY <1>1 DEF Serial
------------------------------------------------------------------------------
(* Submission.                                                             *)

\* What every submission leaves alone.
LEMMA AdmitKeeps ==
  ASSUME Inv, NEW o \in Ops, NEW r \in Routes \ {"none"}, Admit(o, r),
         NEW s \in Stages \ {"uncounted"}, stage' = [stage EXCEPT ![o] = s],
         io' = io \/ (r = "channel" /\ io' = [io EXCEPT ![o] = "working"])
  PROVE  /\ running' \in BOOLEAN /\ expired' \in BOOLEAN /\ pending' \in Int
         /\ io' \in [Ops -> {"none", "working", "partial", "ended"}]
         /\ queue' \in Seq(Queued) /\ route' \in [Ops -> Routes]
         /\ failed' \in [Ops -> BOOLEAN] /\ stage' \in [Ops -> Stages]
         /\ result' \in [Ops -> {"none", "ok", "error", "closed"}]
         /\ cpc' \in ClosePcs
         /\ Serial'
         /\ route[o] = "none" /\ stage[o] = "new" /\ route'[o] = r
         /\ \A p \in Ops : p # o => /\ route'[p] = route[p] /\ stage'[p] = stage[p]
                                    /\ failed'[p] = failed[p] /\ result'[p] = result[p]
<1> USE DEF Inv
<1>1. route[o] = "none" /\ stage[o] = "new"
  BY DEF Admit, Groups, Group
<1>2. /\ route' = [route EXCEPT ![o] = r] /\ queue' = queue /\ pending' = pending + 1
      /\ UNCHANGED <<running, fd, failed, result, cpc, expired>>
  BY DEF Admit, closing
<1>3. /\ running' \in BOOLEAN /\ expired' \in BOOLEAN /\ pending' \in Int
      /\ io' \in [Ops -> {"none", "working", "partial", "ended"}]
      /\ queue' \in Seq(Queued) /\ route' \in [Ops -> Routes]
      /\ failed' \in [Ops -> BOOLEAN] /\ stage' \in [Ops -> Stages]
      /\ result' \in [Ops -> {"none", "ok", "error", "closed"}]
      /\ cpc' \in ClosePcs
  BY <1>2 DEF Shape
<1>4. /\ route'[o] = r
      /\ \A p \in Ops : p # o => /\ route'[p] = route[p] /\ stage'[p] = stage[p]
                                 /\ failed'[p] = failed[p] /\ result'[p] = result[p]
  BY <1>2 DEF Shape
<1>5. Serial'
  <2>1. \A p \in Ops : io'[p] # "none" => route'[p] = "channel"
    BY <1>1, <1>2 DEF Shape, Serial
  <2>2. \A p \in Ops : route[p] # "none" => route'[p] = route[p]
    BY <1>1, <1>4
  <2>3. \A p \in Ops : stage'[p] = "uncounted" /\ route'[p] = "channel" =>
                         stage[p] = "uncounted" /\ route[p] = "channel"
    BY <1>1, <1>2 DEF Shape
  <2> QED
    BY <1>2, <2>1, <2>2, <2>3, KeepSerial
<1> QED
  BY <1>1, <1>3, <1>4, <1>5

\* A request that is not served by tasks.
LEMMA SubmitPlain ==
  ASSUME Inv, NEW o \in Ops, SubmitInline(o) \/ SubmitChannel(o)
  PROVE  Shape' /\ Groups' /\ Serial'
<1>1. PICK r \in {"inline", "channel"} :
        /\ Admit(o, r) /\ stage' = [stage EXCEPT ![o] = "counted"]
        /\ chunk' = chunk /\ remaining' = remaining
        /\ io' = io \/ (r = "channel" /\ io' = [io EXCEPT ![o] = "working"])
  BY DEF SubmitInline, SubmitChannel
<1>2. r \in Routes \ {"none"} /\ "counted" \in Stages \ {"uncounted"}
  BY DEF Routes, Stages
<1>3. /\ Shape' /\ Serial'
      /\ route[o] = "none" /\ stage[o] = "new" /\ route'[o] = r
      /\ \A p \in Ops : p # o => /\ route'[p] = route[p] /\ stage'[p] = stage[p]
                                 /\ failed'[p] = failed[p] /\ result'[p] = result[p]
  BY <1>1, <1>2, AdmitKeeps DEF Inv, Shape
<1>4. ASSUME NEW p \in Ops, p # o PROVE Group(p)' /\ Verdict(p)'
  BY <1>1, <1>3, <1>4, KeepGroup DEF Inv
<1>5. Group(o)' /\ Verdict(o)'
  <2>1. Unsettled(o) = {}
    BY <1>3 DEF Inv, Groups, Group, ByTasks
  <2>2. Unsettled(o)' = {}
    BY <1>1, <2>1 DEF Unsettled
  <2>3. ~ByTasks(o)' /\ stage'[o] = "counted" /\ route'[o] # "none"
    BY <1>1, <1>3 DEF Inv, Shape, ByTasks
  <2> QED
    BY <2>2, <2>3 DEF Group, Verdict
<1> QED
  BY <1>3, <1>4, <1>5 DEF Groups

\* A request served by tasks, of which some may not have been queued.
LEMMA SubmitByTasks ==
  ASSUME Inv, NEW o \in Ops, NEW r \in {"task", "parallel"}, NEW tasks \in SUBSET Chunks,
         NEW queued \in SUBSET tasks,
         \/ SubmitTasks(o, r, tasks) /\ queued = tasks
         \/ SubmitThrows(o, r, tasks, queued) /\ queued # tasks
  PROVE  Shape' /\ Groups' /\ Serial'
<1>1. PICK s \in {"counted", "leaked"} :
        /\ Admit(o, r) /\ stage' = [stage EXCEPT ![o] = s] /\ io' = io
        /\ s = "counted" <=> queued = tasks
        /\ chunk' = [chunk EXCEPT ![o] = [c \in Chunks |-> IF c \in queued THEN "queued" ELSE "none"]]
        /\ remaining' = [remaining EXCEPT ![o] = Cardinality(tasks)]
  BY DEF SubmitTasks, SubmitThrows
<1>2. r \in Routes \ {"none"} /\ s \in Stages \ {"uncounted"}
  BY DEF Routes, Stages
<1>3. IsFiniteSet(tasks) /\ Cardinality(tasks) \in 0..Cardinality(Chunks)
  <2>1. IsFiniteSet(tasks) /\ Cardinality(tasks) <= Cardinality(Chunks)
    BY Parameters, FS_Subset
  <2>2. Cardinality(tasks) \in Nat /\ Cardinality(Chunks) \in Nat
    BY <2>1, Parameters, FS_CardinalityType
  <2> QED
    BY <2>1, <2>2
<1>4. [c \in Chunks |-> IF c \in queued THEN "queued" ELSE "none"] \in [Chunks -> Places]
  BY DEF Places
<1>5. /\ Shape' /\ Serial'
      /\ route[o] = "none" /\ stage[o] = "new" /\ route'[o] = r
      /\ \A p \in Ops : p # o => /\ route'[p] = route[p] /\ stage'[p] = stage[p]
                                 /\ failed'[p] = failed[p] /\ result'[p] = result[p]
  <2>1. chunk' \in [Ops -> [Chunks -> Places]] /\ remaining' \in [Ops -> 0..Cardinality(Chunks)]
    BY <1>1, <1>3, <1>4 DEF Inv, Shape
  <2>2. io' = io \/ (r = "channel" /\ io' = [io EXCEPT ![o] = "working"])
    BY <1>1
  <2> QED
    BY <1>1, <1>2, <2>1, <2>2, AdmitKeeps DEF Shape
<1>6. ASSUME NEW p \in Ops, p # o PROVE Group(p)' /\ Verdict(p)'
  <2>1. chunk'[p] = chunk[p] /\ remaining'[p] = remaining[p]
    BY <1>1, <1>6 DEF Inv, Shape
  <2> QED
    BY <1>5, <1>6, <2>1, KeepGroup DEF Inv
<1>7. Group(o)' /\ Verdict(o)'
  <2>1. stage'[o] = s /\ route'[o] = r /\ remaining'[o] = Cardinality(tasks)
    BY <1>1, <1>5 DEF Inv, Shape
  <2>2. Unsettled(o)' = queued
    <3>1. chunk'[o] = [c \in Chunks |-> IF c \in queued THEN "queued" ELSE "none"]
      BY <1>1 DEF Inv, Shape
    <3> QED
      BY <3>1 DEF Unsettled
  <2>3. s = "counted" => Cardinality(queued) = Cardinality(tasks)
    BY <1>1
  <2>4. s = "leaked" => Cardinality(tasks) > Cardinality(queued)
    <3>1. Cardinality(queued) \in Nat
      BY <1>3, FS_Subset, FS_CardinalityType
    <3>2. Cardinality(queued) <= Cardinality(tasks)
      BY <1>3, FS_Subset
    <3>3. Cardinality(queued) = Cardinality(tasks) => queued = tasks
      BY <1>3, FS_Subset
    <3> QED
      BY <1>1, <1>3, <3>1, <3>2, <3>3
  <2> QED
    BY <2>1, <2>2, <2>3, <2>4 DEF Group, Verdict, ByTasks
<1> QED
  BY <1>5, <1>6, <1>7 DEF Groups

\* A request after the close.
LEMMA RejectKeeps == ASSUME Inv, NEW o \in Ops, Reject(o) PROVE Shape' /\ Groups' /\ Serial'
<1>1. /\ stage[o] = "new" /\ route[o] = "none"
      /\ stage' = [stage EXCEPT ![o] = "done"] /\ result' = [result EXCEPT ![o] = "closed"]
      /\ UNCHANGED <<running, pending, fd, io, queue, chunk, remaining, failed, route, cpc, expired>>
  BY DEF Reject, object, dispatch, group, closing, Inv, Groups, Group
<1>2. Shape'
  BY <1>1 DEF Inv, Shape, Stages
<1>3. ASSUME NEW p \in Ops, p # o PROVE Group(p)' /\ Verdict(p)'
  <2>1. stage'[p] = stage[p] /\ result'[p] = result[p]
    BY <1>1, <1>3 DEF Inv, Shape
  <2> QED
    BY <1>1, <1>3, <2>1, KeepGroup DEF Inv
<1>4. Group(o)' /\ Verdict(o)'
  BY <1>1 DEF Inv, Shape, Groups, Group, Verdict, Unsettled, ByTasks
<1>5. Serial'
  BY <1>1, KeepSerial DEF Inv, Shape, Serial
<1> QED
  BY <1>2, <1>3, <1>4, <1>5 DEF Groups
------------------------------------------------------------------------------
(* Completion.                                                             *)

\* A request that is not served by tasks comes off the count; one of the
\* channel is that of the block at the head of the queue.
LEMMA UncountPlain ==
  ASSUME Inv, NEW o \in Ops, stage[o] = "counted", ~ByTasks(o), NEW r \in {"ok", "error"},
         Uncount(o, r),
         UNCHANGED <<io, queue, chunk, remaining, failed, cpc, expired>>,
         route[o] = "channel" => /\ queue # <<>> /\ queue[1] \in Blocks
                                 /\ queue[1].op = o /\ queue[1].kind # "data"
  PROVE  Shape' /\ Groups' /\ Serial'
<1> USE DEF Inv
<1>1. /\ stage' = [stage EXCEPT ![o] = "uncounted"] /\ result' = [result EXCEPT ![o] = r]
      /\ pending' = pending - 1 /\ UNCHANGED <<running, route>>
  BY DEF Uncount
<1>2. Shape'
  BY <1>1 DEF Shape, Stages
<1>3. ASSUME NEW p \in Ops, p # o PROVE Group(p)' /\ Verdict(p)'
  <2>1. stage'[p] = stage[p] /\ result'[p] = result[p]
    BY <1>1, <1>3 DEF Shape
  <2> QED
    BY <1>1, <1>3, <2>1, KeepGroup
<1>4. Group(o)' /\ Verdict(o)'
  <2>1. Unsettled(o) = {}
    BY DEF Groups, Group
  <2>2. Unsettled(o)' = {} /\ ~ByTasks(o)' /\ stage'[o] = "uncounted"
    BY <1>1, <2>1 DEF Shape, Unsettled, ByTasks
  <2> QED
    BY <2>2 DEF Group, Verdict
<1>5. Serial'
  <2>1. \A p \in Ops : stage'[p] = "uncounted" /\ p # o => stage[p] = "uncounted"
    BY <1>1 DEF Shape
  <2> QED
    BY <1>1, <2>1 DEF Serial
<1> QED
  BY <1>2, <1>3, <1>4, <1>5 DEF Groups

\* The caller's own read.
LEMMA InlineKeeps == ASSUME Inv, NEW o \in Ops, InlineRead(o) PROVE Shape' /\ Groups' /\ Serial'
<1>1. PICK r \in {"ok", "error"} : Uncount(o, r)
  BY DEF InlineRead
<1>2. /\ stage[o] = "counted" /\ ~ByTasks(o) /\ route[o] # "channel"
      /\ UNCHANGED <<io, queue, chunk, remaining, failed, cpc, expired>>
  BY DEF InlineRead, ByTasks, dispatch, group, closing
<1> QED
  BY <1>1, <1>2, UncountPlain

\* The delivery of a result.
LEMMA DeliverKeeps == ASSUME Inv, NEW o \in Ops, Deliver(o) PROVE Shape' /\ Groups' /\ Serial'
<1> USE DEF Inv
<1>1. /\ stage[o] = "uncounted" /\ stage' = [stage EXCEPT ![o] = "done"]
      /\ queue' = IF route[o] = "channel" THEN Tail(queue) ELSE queue
      /\ UNCHANGED <<running, pending, io, chunk, remaining, failed, route, result, cpc, expired>>
  BY DEF Deliver, object, group, closing
<1>2. queue' \in Seq(Queued) /\ Serial'
  <2>1. CASE route[o] = "channel"
    <3>1. queue # <<>> /\ queue[1].op = o
      BY <1>1, <2>1 DEF Serial
    <3>2. \A p \in Ops : route[p] = "channel" => stage'[p] # "uncounted"
      BY <1>1, <3>1 DEF Serial, Shape
    <3> QED
      BY <1>1, <2>1, <3>1, <3>2, TailSerial
  <2>2. CASE route[o] # "channel"
    <3>1. /\ \A p \in Ops : io'[p] # "none" => route'[p] = "channel"
          /\ \A p \in Ops : route[p] # "none" => route'[p] = route[p]
          /\ \A p \in Ops : stage'[p] = "uncounted" /\ route'[p] = "channel" =>
                              stage[p] = "uncounted" /\ route[p] = "channel"
      BY <1>1 DEF Serial, Shape
    <3>2. queue' = queue
      BY <1>1, <2>2
    <3> QED
      BY <3>1, <3>2, KeepSerial DEF Shape
  <2> QED
    BY <2>1, <2>2
<1>3. Shape'
  BY <1>1, <1>2 DEF Shape, Stages
<1>4. ASSUME NEW p \in Ops, p # o PROVE Group(p)' /\ Verdict(p)'
  <2>1. stage'[p] = stage[p]
    BY <1>1, <1>4 DEF Shape
  <2> QED
    BY <1>1, <1>4, <2>1, KeepGroup
<1>5. Group(o)' /\ Verdict(o)'
  <2>1. Unsettled(o) = {} /\ Verdict(o)
    BY <1>1 DEF Groups, Group
  <2>2. Unsettled(o)' = {} /\ ByTasks(o)' = ByTasks(o) /\ stage'[o] = "done"
    BY <1>1, <2>1 DEF Shape, Unsettled, ByTasks
  <2> QED
    BY <1>1, <2>1, <2>2 DEF Group, Verdict
<1> QED
  BY <1>2, <1>3, <1>4, <1>5 DEF Groups
------------------------------------------------------------------------------
(* The channel, its queue, and the close.                                  *)

\* A step that leaves every request where it is keeps groups and verdicts.
LEMMA KeepGroups ==
  ASSUME Groups, UNCHANGED <<chunk, remaining, route, stage, failed, result>>
  PROVE  Groups'
BY KeepGroup DEF Groups

\* libdispatch submits a block to the queue.
LEMMA ChannelKeeps ==
  ASSUME Inv, NEW o \in Ops, ChannelData(o) \/ ChannelEnds(o)
  PROVE  Shape' /\ Groups' /\ Serial'
<1> USE DEF Inv
<1>1. PICK k \in {"data", "done", "error"} : queue' = Append(queue, [op |-> o, kind |-> k])
  BY DEF ChannelData, ChannelEnds
<1>2. /\ io[o] # "none" /\ \E s \in {"partial", "ended"} : io' = [io EXCEPT ![o] = s]
      /\ UNCHANGED <<running, pending, chunk, remaining, failed, route, stage, result, cpc, expired>>
  BY DEF ChannelData, ChannelEnds, object, group, ops, closing
<1>3. [op |-> o, kind |-> k] \in Blocks /\ [op |-> o, kind |-> k] \in Queued
  BY DEF Blocks, Queued
<1>4. route[o] = "channel"
  BY <1>2 DEF Serial
<1>5. \A p \in Ops : io'[p] # "none" => io[p] # "none"
  BY <1>2 DEF Shape
<1>6. queue' \in Seq(Queued) /\ Serial'
  BY <1>1, <1>2, <1>3, <1>4, <1>5, AppendSerial
<1> QED
  BY <1>2, <1>6, KeepGroups DEF Shape

\* The cleanup handler and the barrier are submitted.
LEMMA SubmitBlock ==
  ASSUME Inv, ChannelGone \/ EnterBarrier
  PROVE  Shape' /\ Groups' /\ Serial'
<1> USE DEF Inv
<1>1. PICK b \in {Cleanup, Barrier} : queue' = Append(queue, b)
  BY DEF ChannelGone, EnterBarrier
<1>2. /\ UNCHANGED <<running, pending, io, chunk, remaining, failed, route, stage, result, expired>>
      /\ cpc' \in ClosePcs
  BY DEF ChannelGone, EnterBarrier, object, group, ops, closing, Shape, ClosePcs
<1>3. b \in Queued /\ b \notin Blocks
  BY DEF Queued, Cleanup, Barrier, Blocks
<1>4. queue' \in Seq(Queued) /\ Serial'
  BY <1>1, <1>2, <1>3, AppendSerial
<1> QED
  BY <1>2, <1>4, KeepGroups DEF Shape

\* A block that completes nothing has run.
LEMMA EndBlock ==
  ASSUME Inv, queue # <<>>, queue' = Tail(queue),
         Head(queue) \in Blocks => Head(queue).kind = "data",
         UNCHANGED <<running, pending, io, chunk, remaining, failed, route, stage, result, expired>>,
         cpc' \in ClosePcs
  PROVE  Shape' /\ Groups' /\ Serial'
<1> USE DEF Inv
<1>1. \A o \in Ops : route[o] = "channel" => stage[o] # "uncounted"
  <2>1. Head(queue) = queue[1]
    BY DEF Shape
  <2> QED
    BY <2>1 DEF Serial
<1>2. queue' \in Seq(Queued) /\ Serial'
  BY <1>1, TailSerial
<1> QED
  BY <1>2, KeepGroups DEF Shape

\* The serial queue runs a handler of the channel.
LEMMA HandlerKeeps == ASSUME Inv, RunHandler PROVE Shape' /\ Groups' /\ Serial'
<1> USE DEF Inv
<1> DEFINE b == Head(queue)
<1>1. /\ queue # <<>> /\ b \in Blocks /\ b = queue[1] /\ b.op \in Ops
      /\ UNCHANGED <<io, chunk, remaining, failed, cpc, expired>>
  BY DEF RunHandler, group, closing, Shape, Blocks
<1>2. CASE b.kind = "data"
  <2>1. queue' = Tail(queue) /\ UNCHANGED <<running, pending, route, stage, result>>
    BY <1>2 DEF RunHandler, object, ops
  <2> QED
    BY <1>1, <1>2, <2>1, EndBlock DEF Shape
<1>3. CASE b.kind # "data"
  <2>1. PICK r \in {"ok", "error"} : stage[b.op] = "counted" /\ Uncount(b.op, r) /\ queue' = queue
    BY <1>3 DEF RunHandler
  <2>2. route[b.op] = "channel"
    <3>1. 1 \in 1..Len(queue)
      BY <1>1, EmptySeq DEF Shape
    <3> QED
      BY <1>1, <3>1 DEF Serial
  <2>3. ~ByTasks(b.op)
    BY <2>2 DEF ByTasks
  <2> QED
    BY <1>1, <1>3, <2>1, <2>2, <2>3, UncountPlain
<1> QED
  BY <1>2, <1>3

\* The other blocks of the queue.
LEMMA BlocksKeep == ASSUME Inv, RunCleanup \/ PassBarrier PROVE Shape' /\ Groups' /\ Serial'
<1>1. queue # <<>> /\ queue' = Tail(queue) /\ Head(queue) \in {Cleanup, Barrier}
  BY DEF RunCleanup, PassBarrier
<1>2. Head(queue) \notin Blocks
  BY <1>1 DEF Cleanup, Barrier, Blocks
<1>3. /\ UNCHANGED <<running, pending, io, chunk, remaining, failed, route, stage, result, expired>>
      /\ cpc' \in ClosePcs
  BY DEF RunCleanup, PassBarrier, object, group, ops, closing, Inv, Shape, ClosePcs
<1> QED
  BY <1>1, <1>2, <1>3, EndBlock

\* The other steps of the close.
LEMMA CloseKeeps ==
  ASSUME Inv, \/ BeginClose \/ Expire \/ WaitEnds \/ StopChannel
              \/ AwaitCleanup \/ ReleaseFd \/ UNCHANGED vars
  PROVE  Shape' /\ Groups' /\ Serial'
<1>1. /\ UNCHANGED <<pending, io, queue, chunk, remaining, failed, route, stage, result>>
      /\ running' \in BOOLEAN /\ expired' \in BOOLEAN /\ cpc' \in ClosePcs
  BY DEF BeginClose, Expire, WaitEnds, StopChannel, AwaitCleanup, ReleaseFd, vars,
         object, dispatch, group, ops, closing, Inv, Shape, ClosePcs
<1>2. Serial'
  BY <1>1 DEF Inv, Serial
<1> QED
  BY <1>1, <1>2, KeepGroups DEF Inv, Shape
------------------------------------------------------------------------------
(* Tasks of the thread pool.                                               *)

\* A task has moved its bytes.
LEMMA MoveKeeps ==
  ASSUME Inv, NEW o \in Ops, NEW c \in Chunks, DoTask(o, c)
  PROVE  Shape' /\ Groups' /\ Serial'
<1> USE DEF Inv
<1>1. /\ chunk[o][c] = "queued" /\ chunk' = [chunk EXCEPT ![o][c] = "moved"]
      /\ UNCHANGED <<running, pending, io, queue, remaining, route, stage, result, cpc, expired>>
  BY DEF DoTask, object, dispatch, ops, closing
<1>2. PICK e \in BOOLEAN : failed' = [failed EXCEPT ![o] = @ \/ e]
  BY DEF DoTask
<1>3. failed' \in [Ops -> BOOLEAN] /\ \A p \in Ops : p # o => failed'[p] = failed[p]
  <2>1. (failed[o] \/ e) \in BOOLEAN
    OBVIOUS
  <2> QED
    BY <1>2, <2>1 DEF Shape
<1>4. chunk' \in [Ops -> [Chunks -> Places]] /\ \A p \in Ops : p # o => chunk'[p] = chunk[p]
  BY <1>1 DEF Shape, Places
<1>5. Shape' /\ Serial'
  BY <1>1, <1>3, <1>4 DEF Shape, Serial
<1>6. ASSUME NEW p \in Ops, p # o PROVE Group(p)' /\ Verdict(p)'
  BY <1>1, <1>3, <1>4, <1>6, KeepGroup
<1>7. Group(o)' /\ Verdict(o)'
  <2>1. Unsettled(o)' = Unsettled(o) /\ c \in Unsettled(o)
    <3>1. ASSUME NEW d \in Chunks PROVE d \in Unsettled(o)' <=> d \in Unsettled(o)
      BY <1>1, <3>1 DEF Unsettled, Shape
    <3> QED
      BY <1>1, <3>1 DEF Unsettled
  <2>2. ByTasks(o) /\ stage[o] \in {"counted", "leaked"}
    BY <2>1, TaskOfGroup
  <2>3. Group(o)'
    <3>1. /\ stage[o] = "leaked" => remaining[o] > Cardinality(Unsettled(o))
          /\ stage[o] = "counted" => remaining[o] = Cardinality(Unsettled(o))
      BY <2>2 DEF Groups, Group
    <3>2. ByTasks(o)' /\ route'[o] # "none"
      BY <1>1, <2>2 DEF ByTasks
    <3> QED
      BY <1>1, <2>1, <2>2, <3>1, <3>2 DEF Group
  <2>4. Verdict(o)'
    BY <1>1, <2>2 DEF Verdict
  <2> QED
    BY <2>3, <2>4
<1> QED
  BY <1>5, <1>6, <1>7 DEF Groups

\* A task counts itself off, and the last one completes the request.
LEMMA SettleKeeps ==
  ASSUME Inv, NEW o \in Ops, NEW c \in Chunks, DoneTask(o, c)
  PROVE  Shape' /\ Groups' /\ Serial'
<1> USE DEF Inv
<1>1. /\ chunk[o][c] = "moved" /\ chunk' = [chunk EXCEPT ![o][c] = "settled"]
      /\ remaining' = [remaining EXCEPT ![o] = @ - 1]
      /\ UNCHANGED <<running, route, io, queue, failed, cpc, expired>>
  BY DEF DoneTask, Uncount, object, ops, dispatch, closing
<1>2. c \in Unsettled(o)
  BY <1>1 DEF Unsettled
<1>3. /\ ByTasks(o) /\ stage[o] \in {"counted", "leaked"}
      /\ Cardinality(Unsettled(o)) \in Nat \ {0}
      /\ remaining[o] = 1 => stage[o] = "counted" /\ Unsettled(o) = {c}
  BY <1>2, TaskOfGroup
<1>4. Unsettled(o)' = Unsettled(o) \ {c}
  <2>1. ASSUME NEW d \in Chunks PROVE d \in Unsettled(o)' <=> d \in Unsettled(o) \ {c}
    BY <1>1, <2>1 DEF Unsettled, Shape
  <2> QED
    BY <2>1 DEF Unsettled
<1>5. Cardinality(Unsettled(o)') = Cardinality(Unsettled(o)) - 1
  <2>1. IsFiniteSet(Unsettled(o))
    BY Parameters, FS_Subset DEF Unsettled
  <2> QED
    BY <1>2, <1>4, <2>1, FS_RemoveElement
<1>6. /\ chunk' \in [Ops -> [Chunks -> Places]]
      /\ remaining' \in [Ops -> 0..Cardinality(Chunks)]
      /\ remaining'[o] = remaining[o] - 1 /\ remaining[o] \in Int
      /\ \A p \in Ops : p # o => chunk'[p] = chunk[p] /\ remaining'[p] = remaining[p]
  <2>1. remaining[o] >= 1 /\ remaining[o] \in 0..Cardinality(Chunks)
    BY <1>3 DEF Groups, Group, Shape
  <2>2. Cardinality(Chunks) \in Nat
    BY Parameters, FS_CardinalityType
  <2>3. remaining[o] - 1 \in 0..Cardinality(Chunks)
    BY <2>1, <2>2
  <2>4. remaining' \in [Ops -> 0..Cardinality(Chunks)]
    BY <1>1, <2>3 DEF Shape
  <2> QED
    BY <1>1, <2>1, <2>4 DEF Shape, Places
<1>7. ByTasks(o)' /\ route'[o] # "channel"
  BY <1>1, <1>3 DEF ByTasks
<1>8. CASE remaining[o] = 1
  <2>1. PICK r \in {"ok", "error"} :
          /\ Uncount(o, r) /\ r = (IF failed[o] THEN "error" ELSE "ok")
    BY <1>8 DEF DoneTask
  <2>2. /\ stage' = [stage EXCEPT ![o] = "uncounted"] /\ result' = [result EXCEPT ![o] = r]
        /\ pending' = pending - 1
    BY <2>1 DEF Uncount
  <2>3. Shape'
    BY <1>1, <1>6, <2>2 DEF Shape, Stages
  <2>4. stage'[o] = "uncounted" /\ result'[o] = r
        /\ \A p \in Ops : p # o => stage'[p] = stage[p] /\ result'[p] = result[p]
    BY <2>2 DEF Shape
  <2>5. Serial'
    BY <1>1, <1>7, <2>4 DEF Serial
  <2>6. Group(o)'
    BY <1>3, <1>4, <1>8, <2>4 DEF Group
  <2>7. Verdict(o)'
    BY <1>1, <2>1, <2>4 DEF Verdict
  <2>8. ASSUME NEW p \in Ops, p # o PROVE Group(p)' /\ Verdict(p)'
    BY <1>1, <1>6, <2>4, <2>8, KeepGroup
  <2> QED
    BY <2>3, <2>5, <2>6, <2>7, <2>8 DEF Groups
<1>9. CASE remaining[o] # 1
  <2>1. UNCHANGED <<pending, stage, result>>
    BY <1>9 DEF DoneTask, object, ops
  <2>2. Shape' /\ Serial'
    BY <1>1, <1>6, <2>1 DEF Shape, Serial
  <2>3. Group(o)' /\ Verdict(o)'
    <3>1. /\ stage[o] = "leaked" => remaining[o] > Cardinality(Unsettled(o))
          /\ stage[o] = "counted" => remaining[o] = Cardinality(Unsettled(o))
      BY <1>3 DEF Groups, Group
    <3>2. /\ stage'[o] = "leaked" => remaining'[o] > Cardinality(Unsettled(o)')
          /\ stage'[o] = "counted" => remaining'[o] = Cardinality(Unsettled(o)')
      BY <1>3, <1>5, <1>6, <2>1, <3>1
    <3>3. route'[o] # "none"
      BY <1>7 DEF ByTasks
    <3> QED
      BY <1>3, <1>7, <2>1, <3>2, <3>3 DEF Group, Verdict
  <2>4. ASSUME NEW p \in Ops, p # o PROVE Group(p)' /\ Verdict(p)'
    BY <1>1, <1>6, <2>1, <2>4, KeepGroup
  <2> QED
    BY <2>2, <2>3, <2>4 DEF Groups
<1> QED
  BY <1>8, <1>9
------------------------------------------------------------------------------
(* The count and the close, from the kinds of steps.                       *)

\* The counter of the object goes with the set of requests it counts.
LEMMA CountStep == ASSUME Inv, Kinds PROVE PendingIsExact'
<1> USE DEF Inv
<1>1. IsFiniteSet(Counted) /\ Cardinality(Counted) \in Nat /\ pending = Cardinality(Counted)
  BY Parameters, FS_Subset, FS_CardinalityType DEF Counted, PendingIsExact
<1>2. ASSUME NEW o \in Ops, Admits(o) PROVE PendingIsExact'
  <2>1. PICK s \in {"counted", "leaked"} : stage' = [stage EXCEPT ![o] = s]
    BY <1>2 DEF Admits
  <2>2. o \notin Counted /\ Counted' = Counted \union {o} /\ pending' = pending + 1
    BY <1>2, <2>1 DEF Admits, Counted, Shape
  <2> QED
    BY <1>1, <2>2, FS_AddElement DEF PendingIsExact
<1>3. ASSUME NEW o \in Ops, Leaves(o) PROVE PendingIsExact'
  <2>1. o \in Counted /\ Counted' = Counted \ {o} /\ pending' = pending - 1
    BY <1>3 DEF Leaves, Counted, Shape
  <2> QED
    BY <1>1, <2>1, FS_RemoveElement DEF PendingIsExact
<1>4. ASSUME NEW o \in Ops, Ends(o) PROVE PendingIsExact'
  <2>1. Counted' = Counted /\ pending' = pending
    BY <1>4 DEF Ends, Counted, Shape
  <2> QED
    BY <1>1, <2>1 DEF PendingIsExact
<1>5. CASE Shuts \/ Passes \/ Proceeds \/ TimesOut \/ Nothing
  <2>1. Counted' = Counted /\ pending' = pending
    BY <1>5 DEF Shuts, Passes, Proceeds, TimesOut, Nothing, Counted
  <2> QED
    BY <1>1, <2>1 DEF PendingIsExact
<1> QED
  BY <1>2, <1>3, <1>4, <1>5 DEF Kinds

\* Nothing is admitted once the close has begun, so what the first wait found
\* stays true.
LEMMA ClosingStep == ASSUME Inv, Kinds PROVE Closing'
<1> USE DEF Inv
<1>1. ASSUME NEW o \in Ops, Admits(o) PROVE Closing'
  BY <1>1 DEF Admits, Closing
<1>2. ASSUME NEW o \in Ops, Leaves(o) \/ Ends(o) PROVE Closing'
  <2>1. Counted = {} => Counted' = {}
    BY <1>2 DEF Leaves, Ends, Counted, Shape
  <2> QED
    BY <1>2, <2>1 DEF Leaves, Ends, Closing
<1>3. CASE Passes
  <2>1. IsFiniteSet(Counted)
    BY Parameters, FS_Subset DEF Counted
  <2>2. pending = 0 => Counted = {}
    BY <2>1, FS_EmptySet DEF PendingIsExact, Counted
  <2>3. Counted' = Counted
    BY <1>3 DEF Passes, Counted
  <2> QED
    BY <1>3, <2>2, <2>3 DEF Passes, Closing
<1>4. CASE Shuts \/ Proceeds \/ TimesOut \/ Nothing
  <2>1. Counted' = Counted
    BY <1>4 DEF Shuts, Proceeds, TimesOut, Nothing, Counted
  <2> QED
    BY <1>4, <2>1 DEF Shuts, Proceeds, TimesOut, Nothing, Closing
<1> QED
  BY <1>1, <1>2, <1>3, <1>4 DEF Kinds
------------------------------------------------------------------------------
(* The invariant, and the promise of close.                                *)

\* The invariant holds of a new object.
LEMMA InvInit == Init => Inv
<1> SUFFICES ASSUME Init PROVE Inv
  OBVIOUS
<1>1. queue \in Seq(Queued) /\ Len(queue) = 0
  BY EmptySeq DEF Init
<1>2. Shape
  <2>1. /\ io \in [Ops -> {"none", "working", "partial", "ended"}]
        /\ failed \in [Ops -> BOOLEAN] /\ result \in [Ops -> {"none", "ok", "error", "closed"}]
    BY DEF Init
  <2>2. chunk \in [Ops -> [Chunks -> Places]]
    BY DEF Init, Places
  <2>3. route \in [Ops -> Routes] /\ stage \in [Ops -> Stages]
    BY DEF Init, Routes, Stages
  <2>4. running \in BOOLEAN /\ expired \in BOOLEAN
    BY DEF Init
  <2>5. pending \in Int /\ cpc \in ClosePcs
    BY DEF Init, ClosePcs
  <2>6. remaining \in [Ops -> 0..Cardinality(Chunks)]
    <3>1. Cardinality(Chunks) \in Nat
      BY Parameters, FS_CardinalityType
    <3> QED
      BY <3>1 DEF Init
  <2> QED
    BY <1>1, <2>1, <2>2, <2>3, <2>4, <2>5, <2>6 DEF Shape
<1>3. ASSUME NEW o \in Ops PROVE Group(o) /\ Verdict(o)
  BY <1>3 DEF Init, Group, Verdict, Unsettled, ByTasks
<1>4. Serial
  BY <1>1 DEF Init, Serial
<1>5. Counted = {}
  BY DEF Init, Counted
<1>6. PendingIsExact
  BY <1>5, FS_EmptySet DEF Init, PendingIsExact, Counted
<1> QED
  BY <1>2, <1>3, <1>4, <1>5, <1>6 DEF Inv, Groups, Closing, Init

\* Every step keeps the groups, the queue and the types.
LEMMA StructureStep == ASSUME Inv, [Next]_vars PROVE Shape' /\ Groups' /\ Serial'
<1>1. ASSUME NEW o \in Ops, Submit(o) PROVE Shape' /\ Groups' /\ Serial'
  <2>1. ASSUME NEW c \in Chunks, SubmitTasks(o, "task", {c}) \/ SubmitThrows(o, "task", {c}, {})
        PROVE  Shape' /\ Groups' /\ Serial'
    <3>1. {c} \in SUBSET Chunks /\ {} \in SUBSET {c} /\ {c} \in SUBSET {c} /\ {} # {c}
      OBVIOUS
    <3>2. "task" \in {"task", "parallel"}
      OBVIOUS
    <3> QED
      BY <2>1, <3>1, <3>2, SubmitByTasks
  <2>2. ASSUME SubmitTasks(o, "parallel", Chunks) PROVE Shape' /\ Groups' /\ Serial'
    BY <2>2, SubmitByTasks
  <2>3. ASSUME NEW queued \in SUBSET Chunks, queued # Chunks,
               SubmitThrows(o, "parallel", Chunks, queued)
        PROVE  Shape' /\ Groups' /\ Serial'
    BY <2>3, SubmitByTasks
  <2> QED
    BY <1>1, <2>1, <2>2, <2>3, RejectKeeps, SubmitPlain DEF Submit
<1>2. ASSUME NEW o \in Ops, NEW c \in Chunks, TaskStep(o, c) PROVE Shape' /\ Groups' /\ Serial'
  BY <1>2, MoveKeeps, SettleKeeps DEF TaskStep
<1>3. ASSUME NEW o \in Ops, InlineRead(o) \/ Deliver(o) \/ ChannelData(o) \/ ChannelEnds(o)
      PROVE  Shape' /\ Groups' /\ Serial'
  BY <1>3, InlineKeeps, DeliverKeeps, ChannelKeeps
<1>4. CASE ChannelGone \/ EnterBarrier
  BY <1>4, SubmitBlock
<1>5. CASE RunHandler
  BY <1>5, HandlerKeeps
<1>6. CASE RunCleanup \/ PassBarrier
  BY <1>6, BlocksKeep
<1>7. CASE \/ BeginClose \/ Expire \/ WaitEnds \/ StopChannel
           \/ AwaitCleanup \/ ReleaseFd \/ UNCHANGED vars
  BY <1>7, CloseKeeps
<1> QED
  BY <1>1, <1>2, <1>3, <1>4, <1>5, <1>6, <1>7 DEF Next, QueueStep, CloseStep

\* The invariant is inductive.
LEMMA InvStep == Inv /\ [Next]_vars => Inv'
<1> SUFFICES ASSUME Inv, [Next]_vars PROVE Inv'
  OBVIOUS
<1>1. Kinds
  BY StepKind
<1> QED
  BY <1>1, StructureStep, CountStep, ClosingStep DEF Inv

\* A read in chunks is completed when no task touches its buffer any more, and
\* as a success only if every chunk was read.
LEMMA ChunksOfInv == Inv => ChunksSettled
<1> SUFFICES ASSUME Inv, NEW o \in Ops, route[o] \in {"task", "parallel"},
                    stage[o] \in {"uncounted", "done"}
             PROVE  /\ \A c \in Chunks : chunk[o][c] \in {"none", "settled"}
                    /\ (result[o] = "ok") <=> ~failed[o]
  BY DEF ChunksSettled
<1>1. Unsettled(o) = {} /\ Verdict(o)
  BY DEF Inv, Groups, Group
<1>2. \A c \in Chunks : chunk[o][c] \in Places
  BY DEF Inv, Shape
<1> QED
  BY <1>1, <1>2 DEF Unsettled, Verdict, ByTasks, Places

\* Every step is one of the close barrier, or none: a request enters while the
\* file is open and leaves once, and the descriptor is released behind them.
LEMMA KindImplements == Inv /\ Kinds => [CloseGate!Next]_CloseGate!barrierVars
<1> SUFFICES ASSUME Inv, Kinds PROVE [CloseGate!Next]_CloseGate!barrierVars
  OBVIOUS
<1> USE DEF Inv
<1>1. ASSUME NEW o \in Ops, Admits(o) PROVE CloseGate!Admit(o)
  <2>1. Gate = "open" /\ Gate' = "open" /\ expired' = expired
    BY <1>1 DEF Admits, Gate
  <2>2. PICK s \in {"counted", "leaked"} : stage' = [stage EXCEPT ![o] = s]
    BY <1>1 DEF Admits
  <2>3. o \notin Counted /\ o \notin Left /\ Counted' = Counted \union {o}
    BY <1>1, <2>2 DEF Admits, Counted, Left, Shape
  <2>4. ASSUME NEW p \in Ops PROVE p \in Left' <=> p \in Left
    BY <1>1, <2>2, <2>4 DEF Admits, Left, Shape
  <2>5. Left' = Left
    BY <2>4 DEF Left
  <2> QED
    BY <2>1, <2>3, <2>5 DEF CloseGate!Admit
<1>2. ASSUME NEW o \in Ops, Leaves(o) PROVE CloseGate!Leave(o)
  <2>1. Gate' = Gate /\ expired' = expired
    BY <1>2 DEF Leaves, Gate
  <2>2. o \in Counted /\ Counted' = Counted \ {o}
    BY <1>2 DEF Leaves, Counted, Shape
  <2>3. route[o] # "none"
    BY <1>2 DEF Leaves, Groups, Group
  <2>4. Left' = Left \union {o}
    BY <1>2, <2>3 DEF Leaves, Left, Shape
  <2> QED
    BY <2>1, <2>2, <2>4 DEF CloseGate!Leave
<1>3. ASSUME NEW o \in Ops, Ends(o) PROVE UNCHANGED CloseGate!barrierVars
  <2>1. Gate' = Gate /\ expired' = expired
    BY <1>3 DEF Ends, Gate
  <2>2. Counted' = Counted
    BY <1>3 DEF Ends, Counted, Shape
  <2>3. Left' = Left
    BY <1>3 DEF Ends, Left, Shape
  <2> QED
    BY <2>1, <2>2, <2>3 DEF CloseGate!barrierVars
<1>4. ASSUME Shuts \/ Passes \/ Proceeds \/ TimesOut \/ Nothing
      PROVE  Counted' = Counted /\ Left' = Left
  BY <1>4 DEF Shuts, Passes, Proceeds, TimesOut, Nothing, Counted, Left
<1>5. CASE Shuts
  <2>1. Gate = "open" /\ Gate' = "shut" /\ expired' = expired
    BY <1>5 DEF Shuts, Gate
  <2> QED
    BY <1>4, <1>5, <2>1 DEF CloseGate!Next, CloseGate!Shut
<1>6. CASE Passes \/ Nothing
  <2>1. Gate' = Gate /\ expired' = expired
    BY <1>6 DEF Passes, Nothing, Gate
  <2> QED
    BY <1>4, <1>6, <2>1 DEF CloseGate!barrierVars
<1>7. CASE Proceeds
  <2>1. ~running /\ ~running' /\ expired' = expired
    BY <1>7 DEF Proceeds, Closing
  <2>2. CASE cpc = "fd" /\ cpc' = "returned"
    <3>1. Gate = "shut" /\ Gate' = "released"
      BY <2>1, <2>2 DEF Gate
    <3>2. Counted = {} \/ expired
      BY <2>2 DEF Closing
    <3> QED
      BY <1>4, <1>7, <2>1, <3>1, <3>2 DEF CloseGate!Next, CloseGate!Release
  <2>3. CASE cpc # "fd"
    <3>1. Gate' = Gate
      BY <1>7, <2>1, <2>3 DEF Gate, Proceeds
    <3> QED
      BY <1>4, <1>7, <2>1, <3>1 DEF CloseGate!barrierVars
  <2> QED
    BY <1>7, <2>2, <2>3 DEF Proceeds
<1>8. CASE TimesOut
  <2>1. Gate = "shut" /\ Gate' = "shut" /\ expired' = TRUE
    BY <1>8 DEF TimesOut, Gate, Closing
  <2> QED
    BY <1>4, <1>8, <2>1 DEF CloseGate!Next, CloseGate!Expire
<1> QED
  BY <1>1, <1>2, <1>3, <1>5, <1>6, <1>7, <1>8 DEF Kinds, CloseGate!Next

\* On all four routes, the object is a close barrier: fd_ is closed after every
\* admitted request has been taken off the count, or after the deadline.
THEOREM Refinement == Spec => ChannelImplementsBarrier
<1>1. Init => CloseGate!Init
  <2> SUFFICES ASSUME Init PROVE CloseGate!Init
    OBVIOUS
  <2>1. Gate = "open" /\ Counted = {} /\ Left = {} /\ expired = FALSE
    BY DEF Init, Gate, Counted, Left
  <2> QED
    BY <2>1 DEF CloseGate!Init
<1>2. Inv /\ [Next]_vars => [CloseGate!Next]_CloseGate!barrierVars
  BY StepKind, KindImplements
<1> QED
  BY <1>1, <1>2, InvInit, InvStep, PTL DEF Spec, ChannelImplementsBarrier, CloseGate!Spec
------------------------------------------------------------------------------
(* The channel has come to rest when close_impl() returns.                 *)

\* The cleanup handler is submitted once, after every handler; when it has run
\* only the barrier can be on the queue, and only while close_impl() is at it.
Lines ==
  /\ \A i \in 1..Len(queue) : queue[i] = Cleanup => channel = "gone" /\ dup = "open"
  /\ \A i, j \in 1..Len(queue) : i < j /\ queue[i] = Cleanup => queue[j] = Barrier
  /\ dup = "closed" => channel = "gone" /\ \A i \in 1..Len(queue) : queue[i] = Barrier
  /\ \A i \in 1..Len(queue) : queue[i] = Barrier => cpc = "barrier"
  /\ \A i, j \in 1..Len(queue) : i < j /\ queue[i] = Barrier => queue[j] # Barrier

\* A request of the channel that is still counted has its I/O or its last
\* handler to come.
Finishing(o) ==
  stage[o] = "counted" /\ route[o] = "channel" =>
    \/ io[o] \in {"working", "partial"}
    \/ \E i \in 1..Len(queue) :
         queue[i] \in Blocks /\ queue[i].op = o /\ queue[i].kind # "data"

Served == \A o \in Ops : Finishing(o)

\* Where the channel and the descriptors are at the points of close_impl().
Descriptors ==
  /\ fd \in {"open", "closed"} /\ dup \in {"open", "closed"}
  /\ channel \in {"open", "stopped", "gone"}
  /\ gil \in BOOLEAN /\ late \in BOOLEAN
  /\ channel # "open" => cpc \in {"cleanup", "drain", "barrier", "fd", "returned"}
  /\ channel = "gone" => ChannelIdle
  /\ cpc \in {"drain", "barrier", "fd", "returned"} /\ ~late => dup = "closed"
  /\ cpc = "returned" => fd = "closed"

Rest == Lines /\ Served /\ Descriptors

\* The order of the queue when a block is submitted to it.
LEMMA AppendLines ==
  ASSUME Shape, Lines, NEW b \in Queued, queue' = Append(queue, b), dup' = dup,
         b \in Blocks => channel # "gone" /\ cpc' = cpc /\ channel' = channel,
         b = Cleanup => /\ channel # "gone" /\ channel' = "gone" /\ dup = "open"
                        /\ cpc' = cpc,
         b = Barrier => cpc # "barrier" /\ cpc' = "barrier" /\ channel' = channel
  PROVE  Lines'
<1>1. queue \in Seq(Queued)
  BY DEF Shape
<1>2. /\ Len(queue') = Len(queue) + 1 /\ Len(queue) \in Nat
      /\ queue'[Len(queue) + 1] = b
      /\ \A i \in 1..Len(queue) : queue'[i] = queue[i]
  BY <1>1, AppendProperties, LenProperties
<1>3. b \in Blocks \/ b = Cleanup \/ b = Barrier
  BY DEF Queued
<1>4. /\ Cleanup # Barrier /\ Cleanup \notin Blocks /\ Barrier \notin Blocks
  BY DEF Cleanup, Barrier, Blocks
<1>5. channel = "gone" => b = Barrier
  BY <1>3
<1>6. channel = "gone" => channel' = "gone"
  BY <1>3
<1>7. ASSUME NEW i \in 1..Len(queue')
      PROVE  IF i = Len(queue) + 1 THEN queue'[i] = b ELSE i \in 1..Len(queue) /\ queue'[i] = queue[i]
  BY <1>2
<1>8. ASSUME NEW i \in 1..Len(queue'), queue'[i] = Cleanup
      PROVE  channel' = "gone" /\ dup' = "open"
  BY <1>3, <1>4, <1>6, <1>7, <1>8 DEF Lines
<1>9. ASSUME NEW i \in 1..Len(queue'), NEW j \in 1..Len(queue'), i < j, queue'[i] = Cleanup
      PROVE  queue'[j] = Barrier
  <2>1. i \in 1..Len(queue) /\ queue[i] = Cleanup
    BY <1>2, <1>7, <1>9
  <2>2. channel = "gone"
    BY <2>1 DEF Lines
  <2> QED
    BY <1>5, <1>7, <1>9, <2>1, <2>2 DEF Lines
<1>10. ASSUME dup' = "closed"
       PROVE  channel' = "gone" /\ \A i \in 1..Len(queue') : queue'[i] = Barrier
  BY <1>5, <1>6, <1>7, <1>10 DEF Lines
<1>11. ASSUME NEW i \in 1..Len(queue'), queue'[i] = Barrier PROVE cpc' = "barrier"
  <2>1. cpc = "barrier" => cpc' = "barrier"
    BY <1>3
  <2> QED
    BY <1>4, <1>7, <1>11, <2>1 DEF Lines
<1>12. ASSUME NEW i \in 1..Len(queue'), NEW j \in 1..Len(queue'), i < j, queue'[i] = Barrier
       PROVE  queue'[j] # Barrier
  <2>1. i \in 1..Len(queue) /\ queue[i] = Barrier
    BY <1>2, <1>7, <1>12
  <2>2. b # Barrier
    BY <2>1 DEF Lines
  <2> QED
    BY <1>7, <1>12, <2>1, <2>2 DEF Lines
<1> QED
  BY <1>8, <1>9, <1>10, <1>11, <1>12 DEF Lines

\* The order of the queue when its first block has ended.
LEMMA TailLines ==
  ASSUME Shape, Lines, queue # <<>>, queue' = Tail(queue), channel' = channel,
         Head(queue) # Cleanup => dup' = dup, Head(queue) = Cleanup => dup' = "closed",
         Head(queue) # Barrier => cpc' = cpc
  PROVE  Lines'
<1>1. queue \in Seq(Queued)
  BY DEF Shape
<1>2. /\ Len(queue') = Len(queue) - 1 /\ Len(queue) \in Nat \ {0}
      /\ \A i \in 1..Len(queue') : queue'[i] = queue[i + 1]
      /\ Head(queue) = queue[1]
  BY <1>1, HeadTailProperties, EmptySeq
<1>3. ASSUME NEW i \in 1..Len(queue')
      PROVE  i + 1 \in 1..Len(queue) /\ queue'[i] = queue[i + 1] /\ 1 \in 1..Len(queue) /\ 1 < i + 1
  BY <1>2
<1>4. Cleanup # Barrier
  BY DEF Cleanup, Barrier
<1>5. CASE queue[1] = Cleanup
  <2>1. \A i \in 1..Len(queue') : queue'[i] = Barrier
    BY <1>3, <1>5 DEF Lines
  <2>2. channel = "gone"
    BY <1>2, <1>5 DEF Lines
  <2>3. \A i \in 1..Len(queue') : cpc' = "barrier"
    BY <1>2, <1>3, <1>4, <1>5, <2>1 DEF Lines
  <2>4. ASSUME NEW i \in 1..Len(queue'), NEW j \in 1..Len(queue'), i < j PROVE FALSE
    <3>1. queue[i + 1] = Barrier /\ queue[j + 1] = Barrier /\ i + 1 < j + 1
      BY <1>3, <2>1, <2>4
    <3> QED
      BY <1>3, <3>1 DEF Lines
  <2> QED
    BY <1>4, <2>1, <2>2, <2>3, <2>4 DEF Lines
<1>6. CASE queue[1] = Barrier
  <2>1. \A i \in 1..Len(queue') : queue'[i] # Barrier
    BY <1>3, <1>6 DEF Lines
  <2>2. ASSUME NEW i \in 1..Len(queue'), NEW j \in 1..Len(queue'), i < j, queue'[i] = Cleanup
        PROVE  FALSE
    <3>1. queue[i + 1] = Cleanup /\ i + 1 < j + 1
      BY <1>3, <2>2
    <3>2. queue'[j] = Barrier
      BY <1>3, <3>1 DEF Lines
    <3> QED
      BY <2>1, <3>2
  <2>3. dup' = dup
    BY <1>2, <1>4, <1>6
  <2>4. dup' = "closed" => channel' = "gone" /\ \A i \in 1..Len(queue') : queue'[i] = Barrier
    BY <1>3, <2>3 DEF Lines
  <2>5. \A i \in 1..Len(queue') : queue'[i] = Cleanup => channel' = "gone" /\ dup' = "open"
    BY <1>3, <2>3 DEF Lines
  <2> QED
    BY <2>1, <2>2, <2>4, <2>5 DEF Lines
<1>7. CASE queue[1] # Cleanup /\ queue[1] # Barrier
  <2>1. ASSUME NEW i \in 1..Len(queue'), NEW j \in 1..Len(queue'), i < j, queue'[i] = Cleanup
        PROVE  queue'[j] = Barrier
    <3>1. i + 1 < j + 1
      BY <2>1
    <3> QED
      BY <1>3, <2>1, <3>1 DEF Lines
  <2>2. ASSUME NEW i \in 1..Len(queue'), queue'[i] = Cleanup PROVE channel' = "gone" /\ dup' = "open"
    BY <1>2, <1>3, <1>7, <2>2 DEF Lines
  <2>3. ASSUME NEW i \in 1..Len(queue'), queue'[i] = Barrier PROVE cpc' = "barrier"
    BY <1>2, <1>3, <1>7, <2>3 DEF Lines
  <2>4. dup' = "closed" => channel' = "gone" /\ \A i \in 1..Len(queue') : queue'[i] = Barrier
    BY <1>2, <1>3, <1>7 DEF Lines
  <2>5. ASSUME NEW i \in 1..Len(queue'), NEW j \in 1..Len(queue'), i < j, queue'[i] = Barrier
        PROVE  queue'[j] # Barrier
    <3>1. i + 1 < j + 1
      BY <2>5
    <3> QED
      BY <1>3, <2>5, <3>1 DEF Lines
  <2> QED
    BY <2>1, <2>2, <2>3, <2>4, <2>5 DEF Lines
<1> QED
  BY <1>5, <1>6, <1>7

\* The requests of the channel when the queue stays as it is.
LEMMA KeepServed ==
  ASSUME Served, queue' = queue,
         \A o \in Ops : stage'[o] = "counted" /\ route'[o] = "channel" =>
           \/ stage[o] = "counted" /\ route[o] = "channel" /\ io'[o] = io[o]
           \/ io'[o] \in {"working", "partial"}
  PROVE  Served'
BY DEF Served, Finishing

\* A block joins the queue.
LEMMA AppendServed ==
  ASSUME Shape, Served, NEW b \in Queued, queue' = Append(queue, b),
         route' = route, stage' = stage,
         \A o \in Ops : \/ io'[o] = io[o] \/ io'[o] = "partial"
                        \/ b \in Blocks /\ b.op = o /\ b.kind # "data"
  PROVE  Served'
<1>1. /\ Len(queue') = Len(queue) + 1 /\ Len(queue) \in Nat
      /\ queue'[Len(queue) + 1] = b
      /\ \A i \in 1..Len(queue) : queue'[i] = queue[i]
  BY AppendProperties, LenProperties DEF Shape
<1>2. SUFFICES ASSUME NEW o \in Ops PROVE Finishing(o)'
  BY DEF Served
<1>3. CASE b \in Blocks /\ b.op = o /\ b.kind # "data"
  <2>1. Len(queue) + 1 \in 1..Len(queue')
    BY <1>1
  <2> QED
    BY <1>1, <1>3, <2>1 DEF Finishing
<1>4. CASE io'[o] = io[o]
  <2>1. Finishing(o)
    BY DEF Served
  <2>2. \A i \in 1..Len(queue) : i \in 1..Len(queue')
    BY <1>1
  <2> QED
    BY <1>1, <1>4, <2>1, <2>2 DEF Finishing
<1>5. CASE io'[o] = "partial"
  BY <1>5 DEF Finishing
<1> QED
  BY <1>3, <1>4, <1>5

\* The first block leaves it.
LEMMA TailServed ==
  ASSUME Shape, Served, queue # <<>>, queue' = Tail(queue), route' = route, io' = io,
         \A o \in Ops : stage'[o] = "counted" => stage[o] = "counted",
         \A o \in Ops : stage'[o] = "counted" /\ Head(queue) \in Blocks /\ Head(queue).op = o =>
                          Head(queue).kind = "data"
  PROVE  Served'
<1>1. /\ Len(queue') = Len(queue) - 1 /\ Len(queue) \in Nat \ {0}
      /\ \A i \in 1..Len(queue') : queue'[i] = queue[i + 1]
      /\ Head(queue) = queue[1]
  BY HeadTailProperties, EmptySeq DEF Shape
<1>2. SUFFICES ASSUME NEW o \in Ops, stage'[o] = "counted", route'[o] = "channel",
                      io'[o] \notin {"working", "partial"}
               PROVE  \E i \in 1..Len(queue') :
                        queue'[i] \in Blocks /\ queue'[i].op = o /\ queue'[i].kind # "data"
  BY DEF Served, Finishing
<1>3. PICK i \in 1..Len(queue) : queue[i] \in Blocks /\ queue[i].op = o /\ queue[i].kind # "data"
  BY <1>2 DEF Served, Finishing
<1>4. i # 1
  BY <1>1, <1>2, <1>3
<1>5. i - 1 \in 1..Len(queue') /\ queue'[i - 1] = queue[i]
  BY <1>1, <1>4
<1> QED
  BY <1>3, <1>5

\* The channel is at rest from the start ...
LEMMA RestInit == Init => Rest
<1> SUFFICES ASSUME Init PROVE Rest
  OBVIOUS
<1>1. \A i \in 1..Len(queue) : FALSE
  BY EmptySeq DEF Init
<1>2. Lines
  BY <1>1 DEF Init, Lines
<1>3. Served
  BY DEF Init, Served, Finishing
<1>4. gil \in BOOLEAN /\ late \in BOOLEAN
  BY DEF Init
<1>5. Descriptors
  BY <1>4 DEF Init, Descriptors
<1> QED
  BY <1>2, <1>3, <1>5 DEF Rest

\* ... a submission only happens while the file is open ...
LEMMA SubmitRests == ASSUME Inv, Rest, NEW o \in Ops, Submit(o) PROVE Rest'
<1> USE DEF Inv, Rest
<1>1. /\ UNCHANGED <<fd, dup, channel, queue, gil, late, cpc>>
      /\ \A p \in Ops : p # o => io'[p] = io[p] /\ stage'[p] = stage[p] /\ route'[p] = route[p]
      /\ stage'[o] = "counted" /\ route'[o] = "channel" => io'[o] = "working"
      /\ io' = io \/ running
  BY DEF Submit, Reject, SubmitInline, SubmitChannel, SubmitTasks, SubmitThrows, Admit, object,
         dispatch, closing, Shape
<1>2. Lines'
  BY <1>1 DEF Lines
<1>3. Served'
  BY <1>1, KeepServed
<1>4. Descriptors'
  BY <1>1 DEF Descriptors, ChannelIdle, Closing
<1> QED
  BY <1>2, <1>3, <1>4

\* ... and so do the requests, their tasks, the blocks and the close.
LEMMA RestStep == ASSUME Inv, Rest, [Next]_vars PROVE Rest'
<1> USE DEF Inv, Rest
<1>1. ASSUME UNCHANGED <<fd, dup, channel, queue, io, route, gil, late, cpc>>,
             \A o \in Ops : stage'[o] = "counted" => stage[o] = "counted"
      PROVE  Rest'
  <2>1. Lines' /\ Descriptors'
    BY <1>1 DEF Lines, Descriptors, ChannelIdle
  <2>2. Served'
    BY <1>1, KeepServed
  <2> QED
    BY <2>1, <2>2
<1>2. ASSUME NEW o \in Ops, NEW r, Uncount(o, r), UNCHANGED <<dup, channel, queue, io, gil, late, cpc>>
      PROVE  Rest'
  <2>1. \A p \in Ops : stage'[p] = "counted" => stage[p] = "counted"
    BY <1>2 DEF Uncount, Shape
  <2> QED
    BY <1>1, <1>2, <2>1 DEF Uncount
<1>3. ASSUME NEW o \in Ops, InlineRead(o) PROVE Rest'
  BY <1>2, <1>3 DEF InlineRead, dispatch, closing
<1>4. ASSUME NEW o \in Ops, NEW c \in Chunks, TaskStep(o, c) PROVE Rest'
  <2>1. CASE DoTask(o, c)
    BY <1>1, <2>1 DEF DoTask, object, dispatch, ops, closing
  <2>2. CASE DoneTask(o, c)
    <3>1. CASE remaining[o] = 1
      BY <1>2, <2>2, <3>1 DEF DoneTask, dispatch, closing
    <3>2. CASE remaining[o] # 1
      BY <1>1, <2>2, <3>2 DEF DoneTask, object, dispatch, ops, closing
    <3> QED
      BY <3>1, <3>2
  <2> QED
    BY <1>4, <2>1, <2>2 DEF TaskStep
<1>5. ASSUME queue # <<>>, queue' = Tail(queue), UNCHANGED <<fd, channel, io, route, gil, late>>,
             \A o \in Ops : stage'[o] = "counted" => stage[o] = "counted",
             \A o \in Ops : stage'[o] = "counted" /\ Head(queue) \in Blocks /\ Head(queue).op = o =>
                              Head(queue).kind = "data",
             Head(queue) # Cleanup => dup' = dup, Head(queue) = Cleanup => dup' = "closed",
             Head(queue) # Barrier => cpc' = cpc,
             Head(queue) = Barrier => cpc = "barrier" /\ cpc' = "fd"
      PROVE  Rest'
  <2>1. Lines'
    BY <1>5, TailLines
  <2>2. Served'
    BY <1>5, TailServed
  <2>3. Descriptors'
    BY <1>5 DEF Descriptors, ChannelIdle
  <2> QED
    BY <2>1, <2>2, <2>3
<1>6. Cleanup # Barrier /\ Cleanup \notin Blocks /\ Barrier \notin Blocks
  BY DEF Cleanup, Barrier, Blocks
<1>7. ASSUME NEW o \in Ops, Deliver(o) PROVE Rest'
  <2>1. /\ stage[o] = "uncounted" /\ stage' = [stage EXCEPT ![o] = "done"]
        /\ queue' = IF route[o] = "channel" THEN Tail(queue) ELSE queue
        /\ UNCHANGED <<fd, dup, channel, io, route, gil, late, cpc>>
    BY <1>7 DEF Deliver, object, closing
  <2>2. \A p \in Ops : stage'[p] = "counted" => stage[p] = "counted" /\ p # o
    BY <2>1 DEF Shape
  <2>3. CASE route[o] = "channel"
    <3>1. queue # <<>> /\ Head(queue) \in Blocks /\ Head(queue).op = o
      BY <2>1, <2>3 DEF Serial, Shape
    <3>2. Head(queue) # Cleanup /\ Head(queue) # Barrier
      BY <1>6, <3>1
    <3> QED
      BY <1>5, <2>1, <2>2, <2>3, <3>1, <3>2
  <2>4. CASE route[o] # "channel"
    BY <1>1, <2>1, <2>2, <2>4
  <2> QED
    BY <2>3, <2>4
<1>8. CASE RunHandler
  <2>1. CASE Head(queue).kind = "data"
    <3>1. /\ queue # <<>> /\ Head(queue) \in Blocks /\ queue' = Tail(queue)
          /\ UNCHANGED <<fd, dup, channel, io, route, stage, gil, late, cpc>>
      BY <1>8, <2>1 DEF RunHandler, object, ops, closing
    <3>2. Head(queue) # Cleanup /\ Head(queue) # Barrier
      BY <1>6, <3>1
    <3> QED
      BY <1>5, <2>1, <3>1, <3>2
  <2>2. CASE Head(queue).kind # "data"
    <3>1. Head(queue).op \in Ops
      BY <1>8 DEF RunHandler, Blocks
    <3> QED
      BY <1>2, <1>8, <2>2, <3>1 DEF RunHandler, closing
  <2> QED
    BY <2>1, <2>2
<1>9. CASE RunCleanup
  BY <1>5, <1>6, <1>9 DEF RunCleanup, object, ops, closing
<1>10. CASE PassBarrier
  BY <1>5, <1>6, <1>10 DEF PassBarrier, object, ops
<1>11. ASSUME NEW o \in Ops, ChannelData(o) \/ ChannelEnds(o) PROVE Rest'
  <2>1. PICK k \in {"data", "done", "error"} :
          /\ queue' = Append(queue, [op |-> o, kind |-> k])
          /\ IF k = "data" THEN io' = [io EXCEPT ![o] = "partial"]
                           ELSE io' = [io EXCEPT ![o] = "ended"]
    BY <1>11 DEF ChannelData, ChannelEnds
  <2>2. /\ io[o] \in {"working", "partial"}
        /\ UNCHANGED <<fd, dup, channel, route, stage, gil, late, cpc>>
    BY <1>11 DEF ChannelData, ChannelEnds, object, ops, closing
  <2>3. channel # "gone"
    BY <2>2 DEF Descriptors, ChannelIdle
  <2> DEFINE b == [op |-> o, kind |-> k]
  <2>4. b \in Blocks /\ b \in Queued /\ b.op = o /\ b.kind = k
    BY DEF Blocks, Queued
  <2>5. \A p \in Ops : \/ io'[p] = io[p] \/ io'[p] = "partial"
                       \/ b \in Blocks /\ b.op = p /\ b.kind # "data"
    BY <2>1, <2>4 DEF Shape
  <2>6. queue' = Append(queue, b) /\ b # Cleanup /\ b # Barrier
    BY <1>6, <2>1, <2>4
  <2> HIDE DEF b
  <2>7. Lines'
    BY <2>2, <2>3, <2>4, <2>6, AppendLines
  <2>8. Served'
    BY <2>2, <2>4, <2>5, <2>6, AppendServed
  <2>9. Descriptors'
    BY <2>2, <2>3 DEF Descriptors
  <2> QED
    BY <2>7, <2>8, <2>9
<1>12. CASE ChannelGone
  <2>1. /\ channel = "stopped" /\ ChannelIdle /\ channel' = "gone" /\ queue' = Append(queue, Cleanup)
        /\ UNCHANGED <<fd, dup, io, route, stage, gil, late, cpc>>
    BY <1>12 DEF ChannelGone, object, ops, closing
  <2>2. Cleanup \in Queued /\ dup = "open"
    BY <2>1 DEF Queued, Lines, Descriptors
  <2>3. Lines'
    BY <1>6, <2>1, <2>2, AppendLines
  <2>4. Served'
    BY <2>1, <2>2, AppendServed
  <2>5. Descriptors'
    BY <2>1 DEF Descriptors, ChannelIdle
  <2> QED
    BY <2>3, <2>4, <2>5
<1>13. CASE EnterBarrier
  <2>1. /\ cpc = "drain" /\ cpc' = "barrier" /\ queue' = Append(queue, Barrier)
        /\ UNCHANGED <<fd, dup, channel, io, route, stage, gil, late>>
    BY <1>13 DEF EnterBarrier, object, ops
  <2>2. Barrier \in Queued
    BY DEF Queued
  <2>3. Lines'
    BY <1>6, <2>1, <2>2, AppendLines
  <2>4. Served'
    BY <2>1, <2>2, AppendServed
  <2>5. Descriptors'
    BY <2>1 DEF Descriptors, ChannelIdle
  <2> QED
    BY <2>3, <2>4, <2>5
<1>14. CASE BeginClose \/ Expire \/ WaitEnds \/ StopChannel \/ AwaitCleanup \/ ReleaseFd
  <2>1. UNCHANGED <<dup, queue, io, route, stage>> /\ cpc # "barrier"
    BY <1>14 DEF BeginClose, Expire, WaitEnds, StopChannel, AwaitCleanup, ReleaseFd, Callable,
                 object, dispatch, ops
  <2>2. channel' = channel \/ (channel' = "stopped" /\ cpc = "stop")
    BY <1>14 DEF BeginClose, Expire, WaitEnds, StopChannel, AwaitCleanup, ReleaseFd, dispatch
  <2>3. channel = "gone" => channel' = "gone"
    BY <2>2 DEF Descriptors
  <2>4. Lines'
    BY <2>1, <2>3 DEF Lines
  <2>5. Served'
    BY <2>1, KeepServed
  <2>6. gil' \in BOOLEAN /\ late' \in BOOLEAN
    BY <1>14, Parameters DEF BeginClose, Expire, WaitEnds, StopChannel, AwaitCleanup, ReleaseFd, Descriptors
  <2>7. Descriptors'
    BY <1>14, <2>1, <2>6 DEF BeginClose, Expire, WaitEnds, StopChannel, AwaitCleanup, ReleaseFd,
         Descriptors, ChannelIdle, Closing, object, dispatch, ops
  <2> QED
    BY <2>4, <2>5, <2>7
<1>15. CASE UNCHANGED vars
  BY <1>1, <1>15 DEF vars, object, dispatch, ops, closing
<1> QED
  BY <1>3, <1>4, <1>7, <1>8, <1>9, <1>10, <1>11, <1>12, <1>13, <1>14, <1>15, SubmitRests
     DEF Next, QueueStep, CloseStep

\* When close_impl() has returned without missing the cleanup handler, the queue
\* is empty and no request of the channel is left.
LEMMA RestIsQuiet == Inv /\ Rest => QuietWhenClosed
<1> SUFFICES ASSUME Inv, Rest, cpc = "returned", ~late
             PROVE  /\ {fd, dup} = {"closed"} /\ queue = <<>>
                    /\ \A o \in Ops : route[o] = "channel" => stage[o] = "done"
  BY DEF QuietWhenClosed
<1> USE DEF Inv, Rest
<1>1. fd = "closed" /\ dup = "closed" /\ ChannelIdle
  BY DEF Descriptors, Lines
<1>2. queue = <<>>
  <2>1. SUFFICES ASSUME queue # <<>> PROVE FALSE
    OBVIOUS
  <2>2. 1 \in 1..Len(queue)
    BY <2>1, EmptySeq DEF Shape
  <2> QED
    BY <1>1, <2>2 DEF Lines
<1>3. ASSUME NEW o \in Ops, route[o] = "channel" PROVE stage[o] = "done"
  <2>1. stage[o] # "new" /\ stage[o] # "leaked"
    BY <1>3 DEF Groups, Group, ByTasks
  <2>2. stage[o] # "uncounted"
    BY <1>2, <1>3 DEF Serial
  <2>3. stage[o] # "counted"
    <3>1. io[o] \notin {"working", "partial"}
      BY <1>1 DEF ChannelIdle
    <3>2. \A i \in 1..Len(queue) : FALSE
      BY <1>2, EmptySeq
    <3> QED
      BY <1>3, <3>1, <3>2 DEF Served, Finishing
  <2> QED
    BY <2>1, <2>2, <2>3 DEF Shape, Stages
<1> QED
  BY <1>1, <1>2, <1>3

\* The invariant gives the types.
LEMMA TypesOf == Inv /\ Rest => TypeOK
<1> SUFFICES ASSUME Inv, Rest PROVE TypeOK
  OBVIOUS
<1> USE DEF Inv, Rest
<1>1. pending \in Nat
  BY Parameters, FS_Subset, FS_CardinalityType DEF PendingIsExact, Counted
<1>2. ToSet(queue) \subseteq Blocks \union {Cleanup, Barrier}
  BY LenProperties DEF ToSet, Shape, Queued
<1>3. {gil, expired, late} \subseteq BOOLEAN
  BY DEF Shape, Descriptors
<1>4. /\ {fd, dup} \subseteq {"open", "closed"} /\ channel \in {"open", "stopped", "gone"}
  BY DEF Descriptors
<1>5. /\ running \in BOOLEAN /\ io \in [Ops -> {"none", "working", "partial", "ended"}]
      /\ route \in [Ops -> Routes]
      /\ chunk \in [Ops -> [Chunks -> {"none", "queued", "moved", "settled"}]]
      /\ remaining \in [Ops -> 0 .. Cardinality(Chunks)] /\ failed \in [Ops -> BOOLEAN]
      /\ stage \in [Ops -> {"new", "counted", "leaked", "uncounted", "done"}]
      /\ result \in [Ops -> {"none", "ok", "error", "closed"}]
      /\ cpc \in {"idle", "wait", "stop", "cleanup", "drain", "barrier", "fd", "returned"}
  BY DEF Shape, Places, Stages, ClosePcs
<1> QED
  BY <1>1, <1>2, <1>3, <1>4, <1>5 DEF TypeOK

\* Counts, buffers and channel are settled at the points where completion and
\* close_impl() rely on it (macos_gcd_backend.cpp:149-202, 388-429).
THEOREM AlwaysSettled == Spec => []Settled
<1>1. Inv => ChunksSettled
  BY ChunksOfInv
<1>2. Inv /\ Rest => Settled
  BY <1>1, RestIsQuiet, TypesOf DEF Settled, Inv
<1>3. Inv /\ Rest /\ [Next]_vars => Inv' /\ Rest'
  BY InvStep, RestStep
<1> QED
  BY <1>2, <1>3, InvInit, RestInit, PTL DEF Spec
------------------------------------------------------------------------------
(* Opening: what the record of a call says at every point, and what the    *)
(* descriptor table has for it.                                            *)

CallPcs == {"new", "open", "wrap", "init_channel", "create_session", "failed", "built", "raised",
            "held", "dropped", "cleanup", "done", "try", "second", "kernel", "opened", "queued",
            "stat", "alloc", "read", "data", "batched"}
CallOps == {"none", "open", "wrap", "adopt", "aopen", "native", "whole"}

CallRecord == [op : CallOps, mode : {"r", "w", "x"}, pc : CallPcs, backend : Backends,
               arg : 0 .. MaxFd, fd : 0 .. MaxFd, chan : 0 .. MaxFd, owns : BOOLEAN,
               answer : {"none", "error", "exists", "data", "file"},
               refused : BOOLEAN, touched : BOOLEAN,
               total : 0 .. MaxSize, filled : 0 .. MaxSize]

\* Everything but the calls and their count.
Tables ==
  /\ platform \in Platforms /\ backend \in {"auto", "thread_pool"}
  /\ desc \in [Fds -> {Unused, Foreign} \union [call : Calls, kind : {"file", "chan"}]]
  /\ creator \in Calls \union {Nobody, Other} /\ size \in 0 .. MaxSize
  /\ drain \in BOOLEAN /\ astray \in BOOLEAN
  /\ batch \subseteq Calls /\ lost \subseteq Calls

OpeningShape == /\ Tables
                /\ call \in [Calls -> CallRecord]
                /\ outstanding \in Int /\ thrown \subseteq Calls

\* How far the calls of each kind get.
Made == {"init_channel", "create_session", "failed", "built", "raised"}
PcsOf(op) == CASE op = "none" -> {"new", "done"}
               [] op = "open" -> Made \union {"open", "held", "cleanup"}
               [] op \in {"wrap", "adopt"} -> Made \union {"wrap", "held", "cleanup"}
               [] op = "aopen" -> Made \union {"try", "second", "queued", "open",
                                               "batched", "held", "dropped", "cleanup"}
               [] op = "native" -> {"kernel", "opened", "wrap", "built", "raised",
                                    "batched", "held", "dropped", "cleanup"}
               [] op = "whole" -> {"queued", "stat", "alloc", "read", "data", "raised", "batched"}

HasFile(r) ==
  \/ r.pc \in {"init_channel", "create_session", "opened", "built", "stat", "alloc", "read",
               "held", "dropped"}
  \/ r.pc = "batched" /\ r.answer = "file"

\* What the fields of a call say at each point.
Fields(r) ==
  /\ r.pc \in PcsOf(r.op)
  /\ r.op = "none" => /\ r.mode = "r" /\ r.arg = 0 /\ r.chan = 0 /\ r.answer = "none"
                     /\ ~r.refused /\ r.total = 0 /\ r.filled = 0
  /\ r.op \in {"open", "aopen", "whole"} => r.arg = 0
  /\ r.pc = "wrap" => r.arg # 0
  /\ r.op \in {"wrap", "adopt"} /\ r.pc \in {"init_channel", "create_session", "failed"} => r.arg # 0
  /\ r.op # "wrap" => r.owns
  /\ r.op \in {"wrap", "adopt", "whole"} => r.mode = "r"
  /\ HasFile(r) => r.fd # 0
  /\ r.chan # 0 => r.pc = "cleanup" \/ (HasFile(r) /\ r.pc \in {"built", "held", "dropped", "batched"})
  /\ r.pc = "cleanup" => r.chan # 0
  /\ r.answer = "file" => r.pc \in {"batched", "held", "dropped", "cleanup"} /\ r.op # "whole"
  /\ r.answer = "data" => r.pc = "batched"

\* What they say of the build.
Backed(r) ==
  /\ r.pc \in {"open", "wrap", "failed"} => r.backend \in {Native, "thread_pool"}
  /\ r.pc = "init_channel" => platform = "macos" /\ r.backend = "dispatch_io"
  /\ r.pc = "create_session" => platform = "windows" /\ r.backend = "iocp"
  /\ r.op = "native" => platform = "linux"
  /\ r.op \in {"wrap", "adopt"} /\ r.pc = "failed" => platform \in {"macos", "windows"}
  /\ r.op = "adopt" /\ r.pc = "failed" => r.refused \/ platform = "windows"
  /\ r.op = "adopt" /\ r.refused =>
       /\ r.pc \notin {"init_channel", "create_session"} /\ platform \in {"macos", "windows"}
       /\ r.pc = "wrap" => r.backend = "thread_pool"
       /\ r.pc \in {"built", "held"} => platform = "macos"
  /\ r.op = "wrap" /\ r.owns => platform = "windows"

\* Who reads the file, how far, and whether it was there.
ReadsRight(r) ==
  /\ r.filled <= r.total
  /\ r.op # "whole" \/ r.pc \in {"queued", "stat"} => r.filled = 0
  /\ r.pc \in {"alloc", "read"} /\ ~r.touched => r.total = size
  /\ r.pc \in {"stat", "alloc", "read"} => creator # Nobody
  /\ r.pc = "data" \/ r.answer = "data" => r.touched \/ r.filled = r.total

\* Who created it: a call that has it open for itself alone, and no call that
\* has still to open it unless its native backend gave up.
CreatorRight(c, r) ==
  /\ r.mode = "x" /\ (r.arg # 0 \/ HasFile(r) \/ r.pc = "cleanup") => creator = c
  /\ \/ r.pc \in {"new", "try", "second", "kernel", "queued", "open"}
     \/ r.pc = "failed" /\ r.arg = 0
     => (creator = c => r.refused)
  /\ r.answer = "exists" => creator # Nobody /\ (creator # c \/ r.refused)

Local(c, r) == Fields(r) /\ Backed(r) /\ ReadsRight(r) /\ CreatorRight(c, r)

Locals == \A c \in Calls : Local(c, call[c])

\* m_outstanding; a call that threw is at its end, one in the batch waits there.
Tallied == /\ OutstandingExact
           /\ \A c \in thrown : call[c].pc = "done"
           /\ \A c \in batch : call[c].pc = "batched"

OpeningInv == OpeningShape /\ Locals /\ Tallied

\* The descriptor a call takes for its own, and rightly so.
OwnFd(r) == IF ~r.owns \/ (r.op = "adopt" /\ r.refused) THEN 0
            ELSE IF r.pc = "wrap"
            THEN IF platform = "windows" /\ r.backend = "thread_pool" THEN 0 ELSE r.arg
            ELSE IF HasFile(r) THEN r.fd ELSE 0

\* The table has for each call what the call believes, but for what is lost.
FdsAreRight ==
  /\ \A c \in Calls, n \in Fds :
       /\ c \notin lost => (desc[n] = Its(c, "file") <=> n = OwnFd(call[c]))
       /\ desc[n] = Its(c, "chan") <=> n = call[c].chan
  /\ \A c \in lost : call[c].pc \in {"raised", "batched", "done"} /\ call[c].answer # "file"
  /\ ~astray
------------------------------------------------------------------------------
(* One call moves, the others stay.                                        *)

\* The call that has not been made.
LEMMA NewRecord == NoCall \in CallRecord
  BY OpeningAssumption DEF NoCall, CallRecord, Backends, CallPcs, CallOps

\* What a call looks like after a step, field by field.
Follows(x, r, p) ==
  /\ x \in CallRecord /\ x.pc = p
  /\ p = "done" => /\ x.op = "none" /\ x.mode = "r" /\ x.owns /\ x.chan = 0 /\ x.arg = 0
                   /\ x.answer = "none" /\ ~x.refused /\ x.total = 0 /\ x.filled = 0
  /\ p # "done" => /\ x.op = r.op /\ x.mode = r.mode /\ x.owns = r.owns /\ x.fd = r.fd
                   /\ x.chan = r.chan /\ x.answer = r.answer /\ x.refused = r.refused
                   /\ x.touched = r.touched /\ x.total = r.total /\ x.filled = r.filled
  /\ p = "built" => x.arg = 0
  /\ p \notin {"done", "built"} => x.arg = r.arg /\ x.backend = r.backend

\* At(r, p) is such a call.
LEMMA AtFollows ==
  ASSUME NEW r \in CallRecord, NEW p \in CallPcs
  PROVE  Follows(At(r, p), r, p)
<1>0. NoCall \in CallRecord
  BY NewRecord
<1>1. CASE p = "done"
  <2>1. At(r, p) = [NoCall EXCEPT !.pc = p]
    BY <1>1 DEF At
  <2>2. At(r, p) \in CallRecord
    BY <2>1, <1>0 DEF CallRecord
  <2> QED BY <2>1, <2>2, <1>1 DEF NoCall, Follows
<1>2. CASE p = "built"
  <2>1. At(r, p) = [r EXCEPT !.pc = p, !.backend = "thread_pool", !.arg = 0]
    BY <1>2 DEF At, NoCall
  <2>2. 0 \in 0 .. MaxFd
    BY OpeningAssumption
  <2>3. At(r, p) \in CallRecord
    BY <2>1, <2>2 DEF CallRecord, Backends
  <2> QED BY <2>1, <2>3, <1>2 DEF CallRecord, Follows
<1>3. CASE p \notin {"done", "built"}
  BY <1>3 DEF At, CallRecord, Follows
<1> QED BY <1>1, <1>2, <1>3

\* What the fields of another call say stays true while it only finds the
\* file resized, created or, if it does not read, of another size.
LEMMA LocalStays ==
  ASSUME OpeningShape, NEW d \in Calls, Local(d, call[d]),
         NEW x \in CallRecord, NEW t \in BOOLEAN, x = [call[d] EXCEPT !.touched = t],
         call[d].touched => t,
         platform' = platform,
         creator' = creator \/ (creator = Nobody /\ creator' \notin {d, Nobody}),
         size' = size \/ t \/ call[d].pc \notin {"alloc", "read"}
  PROVE  Local(d, x)'
<1>1. call[d] \in CallRecord /\ creator \in Calls \union {Nobody, Other}
      /\ Fields(call[d]) /\ Backed(call[d]) /\ ReadsRight(call[d]) /\ CreatorRight(d, call[d])
  BY DEF OpeningShape, Tables, Local
<1>2. /\ x.op = call[d].op /\ x.mode = call[d].mode /\ x.pc = call[d].pc
      /\ x.backend = call[d].backend /\ x.arg = call[d].arg /\ x.fd = call[d].fd
      /\ x.chan = call[d].chan /\ x.owns = call[d].owns /\ x.answer = call[d].answer
      /\ x.refused = call[d].refused /\ x.total = call[d].total /\ x.filled = call[d].filled
      /\ x.touched = t
  BY <1>1 DEF CallRecord
<1>3. Fields(x)'
  BY <1>1, <1>2 DEF Fields, HasFile, PcsOf
<1>4. Backed(x)'
  BY <1>1, <1>2 DEF Backed, Native
<1>5. ReadsRight(x)'
  BY <1>1, <1>2, OpeningAssumption DEF ReadsRight, Calls
<1>6. CreatorRight(d, x)'
  BY <1>1, <1>2, OpeningAssumption DEF CreatorRight, HasFile, Calls
<1> QED BY <1>3, <1>4, <1>5, <1>6 DEF Local

\* A step that moves one call leaves the others where they are.
LEMMA OthersStay ==
  ASSUME OpeningShape, Locals, NEW c \in Calls, NEW r \in CallRecord, NEW p \in CallPcs,
         Goes(c, r, p), platform' = platform,
         \/ creator' = creator
         \/ creator = Nobody /\ creator' \in {c, Other},
         size' = size \/ \A d \in Calls \ {c} : call[d].pc \notin {"alloc", "read"},
         \A x : Follows(x, r, p) => Local(c, x)'
  PROVE  /\ call' \in [Calls -> CallRecord] /\ Locals'
         /\ Follows(call'[c], r, p) /\ \A d \in Calls \ {c} : call'[d] = call[d]
<1>1. /\ call' \in [Calls -> CallRecord]
      /\ call'[c] = At(r, p) /\ \A d \in Calls \ {c} : call'[d] = call[d]
  <2>1. At(r, p) \in CallRecord
    BY AtFollows DEF Follows
  <2> QED BY <2>1 DEF Goes, OpeningShape
<1>2. Follows(call'[c], r, p)
  BY <1>1, AtFollows
<1>3. ASSUME NEW d \in Calls
      PROVE  Local(d, call[d])'
  <2>1. CASE d = c
    BY <1>2, <2>1
  <2>2. CASE d # c
    <3> DEFINE t == call[d].touched
    <3>1. Local(d, call[d]) /\ call[d] \in CallRecord /\ t \in BOOLEAN
      BY DEF Locals, OpeningShape, CallRecord
    <3>2. call'[d] = [call[d] EXCEPT !.touched = t] /\ call'[d] = call[d]
      BY <1>1, <2>2, <3>1 DEF CallRecord
    <3>3. PICK x \in CallRecord : x = call'[d]
      BY <3>1, <3>2
    <3>4. Local(d, x)'
      BY <3>1, <3>2, <3>3, <2>2, LocalStays, OpeningAssumption DEF Calls
    <3> QED BY <3>3, <3>4, <3>2
  <2> QED BY <2>1, <2>2
<1> QED BY <1>1, <1>2, <1>3 DEF Locals
\* The operations in flight are those of InFlight.
Flying(r) == r.op \in Futures
             /\ r.pc \in Building \union {"try", "kernel", "opened", "queued", "stat",
                                          "alloc", "read", "data"}

\* What a call that becomes q means for the count: nothing, a submitted(), an
\* op_completed(), or a throw in between.
Counts(c, q) ==
  /\ \/ (Flying(q) <=> Flying(call[c])) /\ outstanding' = outstanding /\ thrown' = thrown
     \/ ~Flying(call[c]) /\ Flying(q) /\ outstanding' = outstanding + 1 /\ thrown' = thrown
     \/ Flying(call[c]) /\ ~Flying(q) /\ outstanding' = outstanding - 1 /\ thrown' = thrown
     \/ /\ ~Flying(call[c]) /\ ~Flying(q) /\ outstanding' = outstanding + 1
        /\ thrown' = thrown \union {c} /\ q.pc = "done"
     \/ /\ Flying(call[c]) /\ ~Flying(q) /\ outstanding' = outstanding
        /\ thrown' = thrown \union {c} /\ q.pc = "done"
  /\ batch' = batch \/ (batch' = batch \union {c} /\ q.pc = "batched")

\* There are finitely many calls.
LEMMA CallsFinite == IsFiniteSet(Calls)
<1>1. 1 \in Int /\ NumCalls \in Int
  BY OpeningAssumption
<1>2. IsFiniteSet(1 .. NumCalls)
  BY <1>1, FS_Interval
<1> QED BY <1>2 DEF Calls

\* The count is right after a step of one call.
LEMMA CountMoves ==
  ASSUME OpeningShape, Tallied, NEW c \in Calls, NEW q, call[c].pc \notin {"done", "batched"},
         \A d \in Calls \ {c} : call'[d].op = call[d].op /\ call'[d].pc = call[d].pc,
         call'[c] = q, Counts(c, q)
  PROVE  Tallied' /\ outstanding' \in Int /\ thrown' \subseteq Calls
<1> DEFINE F == {d \in Calls : InFlight(d)}
<1>1. /\ IsFiniteSet(F) /\ IsFiniteSet(thrown) /\ Cardinality(F) \in Nat
      /\ Cardinality(thrown) \in Nat /\ outstanding \in Int /\ c \notin thrown
      /\ outstanding = Cardinality(F) + Cardinality(thrown)
  <2>1. IsFiniteSet(Calls)
    BY CallsFinite
  <2>2. IsFiniteSet(F) /\ IsFiniteSet(thrown)
    BY <2>1, FS_Subset DEF OpeningShape
  <2> QED BY <2>2, FS_CardinalityType DEF Tallied, OutstandingExact, OpeningShape
<1>2. /\ Flying(q) => F' = F \union {c}
      /\ ~Flying(q) => F' = F \ {c}
      /\ c \in F <=> Flying(call[c])
  <2>1. \A d \in Calls \ {c} : InFlight(d)' <=> InFlight(d)
    BY DEF InFlight
  <2>2. (InFlight(c)' <=> Flying(q)) /\ (InFlight(c) <=> Flying(call[c]))
    BY DEF InFlight, Flying
  <2> QED BY <2>1, <2>2 DEF InFlight
<1>3. PICK G : G = F
  BY Zenon
<1>4. PICK H : H = F'
  BY Zenon
<1>5. /\ c \in G => Cardinality(G \union {c}) = Cardinality(G)
      /\ c \notin G => Cardinality(G \union {c}) = Cardinality(G) + 1
      /\ c \in G => Cardinality(G \ {c}) = Cardinality(G) - 1
      /\ c \notin G => Cardinality(G \ {c}) = Cardinality(G)
      /\ Cardinality(thrown \union {c}) = Cardinality(thrown) + 1
  BY <1>1, <1>3, FS_AddElement, FS_RemoveElement
<1>6. /\ Flying(q) => H = G \union {c}
      /\ ~Flying(q) => H = G \ {c}
      /\ c \in G <=> Flying(call[c])
  BY <1>2, <1>3, <1>4
<1>7. outstanding = Cardinality(G) + Cardinality(thrown) 
      /\ Cardinality(G) \in Nat /\ Cardinality(thrown) \in Nat
  BY <1>1, <1>3
<1>8. outstanding' = Cardinality(H) + Cardinality(thrown')
  <2>1. CASE Flying(q) /\ Flying(call[c])
    BY <1>5, <1>6, <1>7, <2>1 DEF Counts
  <2>2. CASE Flying(q) /\ ~Flying(call[c])
    <3>1. Cardinality(H) = Cardinality(G) + 1 /\ thrown' = thrown /\ outstanding' = outstanding + 1
      BY <1>5, <1>6, <2>2 DEF Counts
    <3> QED BY <3>1, <1>7
  <2>3. CASE ~Flying(q) /\ Flying(call[c])
    <3>1. Cardinality(H) = Cardinality(G) - 1
      BY <1>5, <1>6, <2>3
    <3>2. CASE outstanding' = outstanding - 1 /\ thrown' = thrown
      BY <3>1, <3>2, <1>7
    <3>3. CASE outstanding' = outstanding /\ thrown' = thrown \union {c}
      BY <3>1, <3>3, <1>5, <1>7
    <3> QED BY <3>2, <3>3, <2>3 DEF Counts
  <2>4. CASE ~Flying(q) /\ ~Flying(call[c])
    <3>1. Cardinality(H) = Cardinality(G)
      BY <1>5, <1>6, <2>4
    <3>2. CASE outstanding' = outstanding /\ thrown' = thrown
      BY <3>1, <3>2, <1>7
    <3>3. CASE outstanding' = outstanding + 1 /\ thrown' = thrown \union {c}
      BY <3>1, <3>3, <1>5, <1>7
    <3> QED BY <3>2, <3>3, <2>4 DEF Counts
  <2> QED BY <2>1, <2>2, <2>3, <2>4
<1>9. OutstandingExact'
  BY <1>4, <1>8 DEF OutstandingExact
<1>10. \A d \in thrown' : call'[d].pc = "done"
  BY DEF Tallied, Counts, OpeningShape
<1>11. \A d \in batch' : call'[d].pc = "batched"
  BY DEF Tallied, Counts, OpeningShape, Tables
<1> QED BY <1>1, <1>9, <1>10, <1>11 DEF Tallied, Counts, OpeningShape


\* What a call that becomes q means for the descriptors: those of the other
\* calls stay, its own are those it takes for its own.
Holds(c, q) ==
  /\ \A n \in Fds, d \in Calls \ {c} :
       /\ desc'[n] = Its(d, "file") <=> desc[n] = Its(d, "file")
       /\ desc'[n] = Its(d, "chan") <=> desc[n] = Its(d, "chan")
  /\ \A n \in Fds : /\ c \notin lost' => (desc'[n] = Its(c, "file") <=> n = OwnFd(q))
                    /\ desc'[n] = Its(c, "chan") <=> n = q.chan
  /\ lost' = lost \/ lost' = lost \union {c}
  /\ c \in lost' => q.pc \in {"raised", "batched", "done"} /\ q.answer # "file"
  /\ ~astray'

\* The descriptors are right after a step of one call.
LEMMA HoldsOthers ==
  ASSUME OpeningShape, FdsAreRight, NEW c \in Calls, NEW q, call'[c] = q, platform' = platform,
         \A d \in Calls \ {c} : \E t \in BOOLEAN : call'[d] = [call[d] EXCEPT !.touched = t],
         Holds(c, q)
  PROVE  FdsAreRight'
<1>1. ASSUME NEW d \in Calls \ {c}
      PROVE  /\ OwnFd(call[d])' = OwnFd(call[d]) /\ call'[d].chan = call[d].chan
             /\ call'[d].pc = call[d].pc /\ call'[d].answer = call[d].answer
  <2>1. PICK t \in BOOLEAN : call'[d] = [call[d] EXCEPT !.touched = t]
    OBVIOUS
  <2>2. call[d] \in CallRecord
    BY DEF OpeningShape
  <2>3. /\ call'[d].chan = call[d].chan /\ call'[d].pc = call[d].pc
        /\ call'[d].answer = call[d].answer /\ call'[d].op = call[d].op
        /\ call'[d].owns = call[d].owns /\ call'[d].backend = call[d].backend
        /\ call'[d].arg = call[d].arg /\ call'[d].fd = call[d].fd
        /\ call'[d].refused = call[d].refused
    BY <2>1, <2>2 DEF CallRecord
  <2> QED BY <2>3 DEF OwnFd, HasFile
<1>2. ASSUME NEW d \in Calls, NEW n \in Fds
      PROVE  /\ d \notin lost' => (desc'[n] = Its(d, "file") <=> n = OwnFd(call[d])')
             /\ desc'[n] = Its(d, "chan") <=> n = call'[d].chan
  <2>1. CASE d = c
    <3>1. OwnFd(call[c])' = OwnFd(q)
      BY DEF OwnFd
    <3> QED BY <3>1, <2>1 DEF Holds
  <2>2. CASE d # c
    BY <1>1, <2>2 DEF Holds, FdsAreRight
  <2> QED BY <2>1, <2>2
<1>3. \A d \in lost' : call'[d].pc \in {"raised", "batched", "done"} /\ call'[d].answer # "file"
  BY <1>1 DEF Holds, FdsAreRight, OpeningShape, Tables
<1> QED BY <1>2, <1>3 DEF Holds, FdsAreRight

\* The invariant after a step of one call.
LEMMA MovesInv ==
  ASSUME OpeningInv, NEW c \in Calls, NEW r \in CallRecord, NEW p \in CallPcs,
         Goes(c, r, p), call[c].pc \notin {"done", "batched"}, Tables', platform' = platform,
         \/ creator' = creator
         \/ creator = Nobody /\ creator' \in {c, Other},
         size' = size \/ \A d \in Calls \ {c} : call[d].pc \notin {"alloc", "read"},
         \A x : Follows(x, r, p) => Local(c, x)' /\ Counts(c, x)
  PROVE  /\ OpeningInv' /\ Follows(call'[c], r, p)
         /\ \A d \in Calls \ {c} : call'[d] = call[d]
<1>1. /\ call' \in [Calls -> CallRecord] /\ Locals'
      /\ Follows(call'[c], r, p) /\ \A d \in Calls \ {c} : call'[d] = call[d]
  BY OthersStay DEF OpeningInv
<1>2. PICK q : q = call'[c]
  BY Zenon
<1>3. Counts(c, q)
  BY <1>1, <1>2
<1>4. Tallied' /\ outstanding' \in Int /\ thrown' \subseteq Calls
  BY <1>1, <1>2, <1>3, CountMoves DEF OpeningInv
<1> QED BY <1>1, <1>4 DEF OpeningInv, OpeningShape

\* The descriptors after a step of one call.
LEMMA MovesDescriptors ==
  ASSUME OpeningInv, FdsAreRight, NEW c \in Calls, NEW q, q = call'[c], platform' = platform,
         \A d \in Calls \ {c} : call'[d] = call[d], Holds(c, q)
  PROVE  FdsAreRight'
<1>1. ASSUME NEW d \in Calls \ {c}
      PROVE  \E t \in BOOLEAN : call'[d] = [call[d] EXCEPT !.touched = t]
  <2>1. call[d] \in CallRecord
    BY DEF OpeningInv, OpeningShape
  <2> QED BY <2>1 DEF CallRecord
<1> QED BY <1>1, HoldsOthers DEF OpeningInv

\* The call c may become q.
Fits(c, q) == Local(c, q)' /\ Counts(c, q) /\ (FdsAreRight => Holds(c, q))

\* A step of one call that fits preserves both.
LEMMA Moves ==
  ASSUME OpeningInv, NEW c \in Calls, NEW r \in CallRecord, NEW p \in CallPcs,
         Goes(c, r, p), call[c].pc \notin {"done", "batched"}, Tables', platform' = platform,
         \/ creator' = creator
         \/ creator = Nobody /\ creator' \in {c, Other},
         size' = size \/ \A d \in Calls \ {c} : call[d].pc \notin {"alloc", "read"},
         \A x : Follows(x, r, p) => Fits(c, x)
  PROVE  OpeningInv' /\ (FdsAreRight => FdsAreRight')
<1>1. /\ OpeningInv' /\ Follows(call'[c], r, p)
      /\ \A d \in Calls \ {c} : call'[d] = call[d]
  BY MovesInv DEF Fits
<1>2. PICK q : q = call'[c]
  BY Zenon
<1>3. Fits(c, q)
  BY <1>1, <1>2
<1>4. ASSUME FdsAreRight PROVE FdsAreRight'
  BY <1>1, <1>2, <1>3, <1>4, MovesDescriptors DEF Fits
<1> QED BY <1>1, <1>4

\* A call that becomes q has opened and closed nothing.
Keeping(c, q) == /\ OwnFd(q) = OwnFd(call[c]) /\ q.chan = call[c].chan
                 /\ c \in lost => q.pc \in {"raised", "batched", "done"} /\ q.answer # "file"

\* What a call says of itself does not change with the tables.
LEMMA LocalSame ==
  ASSUME NEW c, NEW x, Local(c, x), platform' = platform, creator' = creator, size' = size
  PROVE  Local(c, x)'
<1>1. Fields(x)'
  BY DEF Local, Fields, HasFile, PcsOf
<1>2. Backed(x)'
  BY DEF Local, Backed, Native
<1>3. ReadsRight(x)'
  BY DEF Local, ReadsRight
<1>4. CreatorRight(c, x)'
  BY DEF Local, CreatorRight, HasFile
<1> QED BY <1>1, <1>2, <1>3, <1>4 DEF Local

\* The step of a call that only its own record, the count and the drain notice.
LEMMA QuietMoves ==
  ASSUME OpeningInv, NEW c \in Calls, NEW r \in CallRecord, NEW p \in CallPcs,
         Goes(c, r, p), call[c].pc \notin {"done", "batched"},
         UNCHANGED <<env, desc, fs, ghosts>>, batch' \subseteq Calls, drain' \in BOOLEAN,
         \A x : Follows(x, r, p) =>
                  Local(c, x) /\ Counts(c, x) /\ (FdsAreRight => Keeping(c, x))
  PROVE  OpeningInv' /\ (FdsAreRight => FdsAreRight')
<1>1. Tables' /\ platform' = platform /\ creator' = creator /\ size' = size
  BY DEF OpeningInv, OpeningShape, Tables, env, fs, ghosts
<1>2. ASSUME NEW x, Follows(x, r, p)
      PROVE  Fits(c, x)
  <2>1. Local(c, x)'
    BY <1>1, <1>2, LocalSame
  <2>2. FdsAreRight => Holds(c, x)
    BY <1>2 DEF FdsAreRight, Holds, Keeping, ghosts
  <2> QED BY <1>2, <2>1, <2>2 DEF Fits
<1> QED BY <1>1, <1>2, Moves

\* What is known of a call before a step.
LEMMA Before ==
  ASSUME OpeningInv, NEW c \in Calls
  PROVE  /\ call[c] \in CallRecord /\ Fields(call[c]) /\ Backed(call[c])
         /\ ReadsRight(call[c]) /\ CreatorRight(c, call[c])
         /\ FdsAreRight /\ c \in lost => /\ call[c].pc \in {"raised", "batched", "done"}
                                          /\ call[c].answer # "file"
         /\ Native = "io_uring" <=> platform = "linux"
         /\ Native = "dispatch_io" <=> platform = "macos"
         /\ Native = "iocp" <=> platform = "windows"
         /\ Native \in Backends
<1>1. platform \in {"linux", "macos", "windows", "other"}
  BY OpeningAssumption DEF OpeningInv, OpeningShape, Tables
<1> QED BY <1>1 DEF OpeningInv, OpeningShape, Locals, Local, FdsAreRight, Native, Backends
------------------------------------------------------------------------------
(* Calls that open and close nothing.                                      *)

\* The constructors that keep the number they are given.
LEMMA KeepsStep ==
  ASSUME OpeningInv, NEW c \in Calls, NEW k \in Backends, NEW next \in {"built", "init_channel"},
         Keeps(c, k, next), next = "init_channel" <=> k = "dispatch_io",
         k # "iocp", k = "thread_pool" => platform # "windows"
  PROVE  OpeningInv' /\ (FdsAreRight => FdsAreRight')
<1> DEFINE r == [call[c] EXCEPT !.fd = call[c].arg]
<1>1. call[c] \in CallRecord /\ r \in CallRecord /\ call[c].pc = "wrap" /\ call[c].backend = k
  BY Before DEF Keeps, AtWrap, CallRecord
<1>2. ASSUME NEW x, Follows(x, r, next)
      PROVE  Local(c, x) /\ Counts(c, x) /\ (FdsAreRight => Keeping(c, x))
  <2>1. Local(c, x)
    BY <1>1, <1>2, Before DEF Local, Fields, Backed, ReadsRight, CreatorRight, HasFile, PcsOf,
       Made, Follows, CallRecord, CallOps, Backends
  <2>2. Counts(c, x)
    BY <1>1, <1>2 DEF Keeps, delivery, Follows, CallRecord, Counts, Flying, Building
  <2>3. ASSUME FdsAreRight PROVE Keeping(c, x)
    BY <1>1, <1>2, <2>3, Before DEF Follows, CallRecord, Keeping, OwnFd, HasFile
  <2> QED BY <2>1, <2>2, <2>3
<1> QED BY <1>1, <1>2, QuietMoves
        DEF Keeps, CallPcs, OpeningInv, OpeningShape, Tables, delivery

\* The thread pool on Windows, which wraps nothing.
LEMMA WrapThreadStep ==
  ASSUME OpeningInv, NEW c \in Calls, WrapThread(c)
  PROVE  OpeningInv' /\ (FdsAreRight => FdsAreRight')
<1>1. CASE platform = "windows"
  <2>1. call[c] \in CallRecord /\ call[c].pc = "wrap" /\ call[c].backend = "thread_pool"
    BY <1>1, Before DEF WrapThread, AtWrap
  <2>2. ASSUME NEW x, Follows(x, call[c], "failed")
        PROVE  Local(c, x) /\ Counts(c, x) /\ (FdsAreRight => Keeping(c, x))
    <3>1. Local(c, x)
      BY <1>1, <2>1, <2>2, Before DEF Local, Fields, Backed, ReadsRight, CreatorRight, HasFile, PcsOf,
         Made, Follows, CallRecord, CallOps, Backends
    <3>2. Counts(c, x)
      BY <1>1, <2>1, <2>2 DEF WrapThread, delivery, Follows, CallRecord, Counts, Flying, Building
    <3>3. ASSUME FdsAreRight PROVE Keeping(c, x)
      BY <1>1, <2>1, <2>2, <3>3, Before DEF Follows, CallRecord, Keeping, OwnFd, HasFile
    <3> QED BY <3>1, <3>2, <3>3
  <2> QED BY <1>1, <2>1, <2>2, QuietMoves
          DEF WrapThread, CallPcs, OpeningInv, OpeningShape, Tables, delivery
<1>2. CASE platform # "windows"
  BY <1>2, KeepsStep DEF WrapThread, Backends
<1> QED BY <1>1, <1>2
\* A call that has not been made.
LEMMA NotMade ==
  ASSUME OpeningInv, NEW c \in Calls, Begins(c)
  PROVE  /\ call[c].pc = "new" /\ call[c].op = "none" /\ creator # c
         /\ ~Flying(call[c]) /\ OwnFd(call[c]) = 0 /\ call[c].chan = 0
         /\ FdsAreRight => c \notin lost
<1>1. call[c].pc = "new" /\ call[c].op = "none"
  BY Before DEF Begins, Fields, PcsOf, Made, CallRecord, CallOps
<1>2. creator # c /\ call[c].chan = 0
  BY <1>1, Before DEF Fields, CreatorRight
<1> QED BY <1>1, <1>2, Before DEF Flying, Futures, OwnFd, HasFile

\* A call at its end.
LEMMA AtEnd ==
  ASSUME NEW c, NEW r, NEW x, Follows(x, r, "done")
  PROVE  /\ Local(c, x) /\ ~Flying(x) /\ OwnFd(x) = 0 /\ x.chan = 0 /\ x.op = "none"
         /\ x.pc = "done" /\ x.answer = "none"
<1>0. /\ x.pc = "done" /\ x.op = "none" /\ x.mode = "r" /\ x.owns /\ x.arg = 0
      /\ x.chan = 0 /\ x.answer = "none" /\ ~x.refused /\ x.total = 0 /\ x.filled = 0
  BY DEF Follows
<1>1. Local(c, x)
  BY <1>0 DEF Local, Fields, Backed, ReadsRight, CreatorRight, HasFile, PcsOf
<1> QED BY <1>0, <1>1 DEF Flying, Futures, OwnFd, HasFile

\* PyAsyncFile(path).
LEMMA OpenStep ==
  ASSUME OpeningInv, NEW c \in Calls, Open(c)
  PROVE  OpeningInv' /\ (FdsAreRight => FdsAreRight')
<1>1. PICK m \in Modes :
        Goes(c, [NoCall EXCEPT !.op = "open", !.mode = m, !.backend = Effective], "open")
  BY Zenon DEF Open
<1> DEFINE r == [NoCall EXCEPT !.op = "open", !.mode = m, !.backend = Effective]
<1>2. r \in CallRecord /\ Effective \in {Native, "thread_pool"}
  <2>1. Effective \in {Native, "thread_pool"} /\ Effective \in Backends
    BY Before DEF Backends, Effective
  <2>2. m \in {"r", "w", "x"}
    BY OpeningAssumption
  <2> QED BY NewRecord, <2>1, <2>2 DEF CallRecord, CallOps
<1>3. ASSUME NEW x, Follows(x, r, "open")
      PROVE  Local(c, x) /\ Counts(c, x) /\ (FdsAreRight => Keeping(c, x))
  <2>0. /\ x.pc = "open" /\ x.op = "open" /\ x.mode = m /\ x.owns /\ x.arg = 0 /\ x.chan = 0
        /\ x.answer = "none" /\ ~x.refused /\ x.total = 0 /\ x.filled = 0
        /\ x.backend = Effective
    BY <1>3 DEF Follows, NoCall
  <2>1. Local(c, x)
    BY <1>2, <2>0, NotMade DEF Open, Local, Fields, Backed, ReadsRight, CreatorRight, HasFile,
       PcsOf
  <2>2. Counts(c, x)
    BY <2>0, NotMade DEF Open, delivery, Counts, Flying, Futures, Building
  <2>3. FdsAreRight => Keeping(c, x)
    BY <2>0, NotMade DEF Open, Keeping, OwnFd, HasFile
  <2> QED BY <2>1, <2>2, <2>3
<1> QED BY <1>1, <1>2, <1>3, NotMade, QuietMoves
        DEF Open, CallPcs, OpeningInv, OpeningShape, Tables, delivery

\* aopen().
LEMMA OpenAsyncStep ==
  ASSUME OpeningInv, NEW c \in Calls, OpenAsync(c)
  PROVE  OpeningInv' /\ (FdsAreRight => FdsAreRight')
<1>1. PICK m \in Modes : Goes(c, [NoCall EXCEPT !.op = "aopen", !.mode = m], "try")
  BY Zenon DEF OpenAsync
<1> DEFINE r == [NoCall EXCEPT !.op = "aopen", !.mode = m]
<1>2. r \in CallRecord
  BY NewRecord, OpeningAssumption DEF CallRecord, CallOps
<1>3. ASSUME NEW x, Follows(x, r, "try")
      PROVE  Local(c, x) /\ Counts(c, x) /\ (FdsAreRight => Keeping(c, x))
  <2>0. /\ x.pc = "try" /\ x.op = "aopen" /\ x.mode = m /\ x.owns /\ x.arg = 0 /\ x.chan = 0
        /\ x.answer = "none" /\ ~x.refused /\ x.total = 0 /\ x.filled = 0
    BY <1>3 DEF Follows, NoCall
  <2>1. Local(c, x)
    BY <1>2, <2>0, NotMade DEF OpenAsync, Local, Fields, Backed, ReadsRight, CreatorRight, HasFile,
       PcsOf
  <2>2. Counts(c, x)
    BY <2>0, NotMade DEF OpenAsync, delivery, Counts, Flying, Futures, Building
  <2>3. FdsAreRight => Keeping(c, x)
    BY <2>0, NotMade DEF OpenAsync, Keeping, OwnFd, HasFile
  <2> QED BY <2>1, <2>2, <2>3
<1> QED BY <1>1, <1>2, <1>3, NotMade, QuietMoves
        DEF OpenAsync, CallPcs, OpeningInv, OpeningShape, Tables

\* read_bytes().
LEMMA ReadWholeStep ==
  ASSUME OpeningInv, NEW c \in Calls, ReadWhole(c)
  PROVE  OpeningInv' /\ (FdsAreRight => FdsAreRight')
<1> DEFINE r == [NoCall EXCEPT !.op = "whole"]
<1>1. r \in CallRecord /\ Begins(c)
  BY NewRecord DEF CallRecord, CallOps, ReadWhole
<1>2. CASE Goes(c, r, "queued") /\ UNCHANGED thrown
  <2>1. ASSUME NEW x, Follows(x, r, "queued")
        PROVE  Local(c, x) /\ Counts(c, x) /\ (FdsAreRight => Keeping(c, x))
    <3>0. /\ x.pc = "queued" /\ x.op = "whole" /\ x.mode = "r" /\ x.owns /\ x.arg = 0
          /\ x.chan = 0 /\ x.answer = "none" /\ ~x.refused /\ x.total = 0 /\ x.filled = 0
      BY <2>1 DEF Follows, NoCall
    <3>1. Local(c, x)
      BY <1>1, <3>0, NotMade DEF Local, Fields, Backed, ReadsRight, CreatorRight, HasFile, PcsOf
    <3>2. Counts(c, x)
      BY <1>1, <1>2, <3>0, NotMade DEF ReadWhole, Counts, Flying, Futures
    <3>3. FdsAreRight => Keeping(c, x)
      BY <1>1, <3>0, NotMade DEF Keeping, OwnFd, HasFile
    <3> QED BY <3>1, <3>2, <3>3
  <2> QED BY <1>1, <1>2, <2>1, NotMade, QuietMoves
          DEF ReadWhole, CallPcs, OpeningInv, OpeningShape, Tables
<1>3. CASE Goes(c, r, "done") /\ thrown' = thrown \union {c}
  <2>1. ASSUME NEW x, Follows(x, r, "done")
        PROVE  Local(c, x) /\ Counts(c, x) /\ (FdsAreRight => Keeping(c, x))
    <3>1. Counts(c, x)
      BY <1>1, <1>3, <2>1, AtEnd, NotMade DEF ReadWhole, Counts
    <3>2. FdsAreRight => Keeping(c, x)
      BY <1>1, <2>1, AtEnd, NotMade DEF Keeping
    <3> QED BY <2>1, <3>1, <3>2, AtEnd
  <2> QED BY <1>1, <1>3, <2>1, NotMade, QuietMoves
          DEF ReadWhole, CallPcs, OpeningInv, OpeningShape, Tables
<1> QED BY <1>2, <1>3 DEF ReadWhole
\* The task of an aopen() begins to build a FileHandle.
LEMMA RunOpenStep ==
  ASSUME OpeningInv, NEW c \in Calls, RunOpen(c)
  PROVE  OpeningInv' /\ (FdsAreRight => FdsAreRight')
<1> DEFINE r == [call[c] EXCEPT !.backend = Effective]
<1>1. call[c] \in CallRecord /\ r \in CallRecord /\ call[c].pc = "queued"
      /\ call[c].op = "aopen" /\ Effective \in {Native, "thread_pool"}
  BY Before DEF RunOpen, CallRecord, Effective, Backends
<1>2. ASSUME NEW x, Follows(x, r, "open")
      PROVE  Local(c, x) /\ Counts(c, x) /\ (FdsAreRight => Keeping(c, x))
  <2>1. Local(c, x)
    BY <1>1, <1>2, Before DEF Local, Fields, Backed, ReadsRight, CreatorRight, HasFile,
       PcsOf, Made, Follows, CallRecord, CallOps, Backends
  <2>2. Counts(c, x)
    BY <1>1, <1>2, Before DEF RunOpen, delivery, Follows, CallRecord, Fields, PcsOf, Made,
       CallOps, Counts, Flying, Blocking, Futures, Building
  <2>3. ASSUME FdsAreRight PROVE Keeping(c, x)
    BY <1>1, <1>2, <2>3, Before DEF Fields, Follows, CallRecord, Keeping, OwnFd, HasFile
  <2> QED BY <2>1, <2>2, <2>3
<1> QED BY <1>1, <1>2, QuietMoves
        DEF RunOpen, CallPcs, OpeningInv, OpeningShape, Tables, delivery

\* What the kernel has opened is wrapped.
LEMMA CompleteNativeStep ==
  ASSUME OpeningInv, NEW c \in Calls, CompleteNative(c)
  PROVE  OpeningInv' /\ (FdsAreRight => FdsAreRight')
<1> DEFINE r == [call[c] EXCEPT !.arg = call[c].fd, !.backend = WrapsWith]
<1>1. call[c] \in CallRecord /\ r \in CallRecord /\ call[c].pc = "opened"
      /\ WrapsWith \in {Native, "thread_pool"}
  <2>1. WrapsWith \in {Native, "thread_pool"} /\ WrapsWith \in Backends
    BY Before DEF WrapsWith, Effective, Backends
  <2>2. r \in CallRecord
    BY <2>1, Before DEF CallRecord
  <2> QED BY <2>1, <2>2, Before DEF CompleteNative
<1>2. ASSUME NEW x, Follows(x, r, "wrap")
      PROVE  Local(c, x) /\ Counts(c, x) /\ (FdsAreRight => Keeping(c, x))
  <2>1. Local(c, x)
    BY <1>1, <1>2, Before DEF Local, Fields, Backed, ReadsRight, CreatorRight, HasFile,
       PcsOf, Made, Follows, CallRecord, CallOps, Backends
  <2>2. Counts(c, x)
    BY <1>1, <1>2, Before DEF CompleteNative, delivery, Follows, CallRecord, Fields, PcsOf, Made,
       CallOps, Counts, Flying, Blocking, Futures, Building
  <2>3. ASSUME FdsAreRight PROVE Keeping(c, x)
    BY <1>1, <1>2, <2>3, Before DEF Fields, Follows, CallRecord, Keeping, OwnFd, HasFile,
       Backed, PcsOf, Made, CallOps
  <2> QED BY <2>1, <2>2, <2>3
<1> QED BY <1>1, <1>2, QuietMoves
        DEF CompleteNative, CallPcs, OpeningInv, OpeningShape, Tables, delivery

\* The native open answers FALSE.
LEMMA FinishNativeStep ==
  ASSUME OpeningInv, NEW c \in Calls, FinishNative(c)
  PROVE  OpeningInv' /\ (FdsAreRight => FdsAreRight')
<1>1. call[c] \in CallRecord /\ call[c].pc = "try"
  BY Before DEF FinishNative, CallRecord
<1>2. ASSUME NEW x, Follows(x, call[c], "second")
      PROVE  Local(c, x) /\ Counts(c, x) /\ (FdsAreRight => Keeping(c, x))
  <2>1. Local(c, x)
    BY <1>1, <1>2, Before DEF Local, Fields, Backed, ReadsRight, CreatorRight, HasFile,
       PcsOf, Made, Follows, CallRecord, CallOps, Backends
  <2>2. Counts(c, x)
    BY <1>1, <1>2, Before DEF FinishNative, delivery, Follows, CallRecord, Fields, PcsOf, Made,
       CallOps, Counts, Flying, Blocking, Futures, Building, OpCompleted
  <2>3. ASSUME FdsAreRight PROVE Keeping(c, x)
    BY <1>1, <1>2, <2>3, Before DEF Fields, Follows, CallRecord, Keeping, OwnFd, HasFile
  <2> QED BY <2>1, <2>2, <2>3
<1> QED BY <1>1, <1>2, QuietMoves
        DEF FinishNative, CallPcs, OpeningInv, OpeningShape, Tables, OpCompleted

\* The read of a piece.
LEMMA ReadSomeStep ==
  ASSUME OpeningInv, NEW c \in Calls, ReadSome(c)
  PROVE  OpeningInv' /\ (FdsAreRight => FdsAreRight')
<1>0. PICK k \in 1 .. MaxSize :
        /\ call[c].filled + k <= call[c].total
        /\ Goes(c, [call[c] EXCEPT !.filled = @ + k], "read")
  BY Zenon DEF ReadSome
<1> DEFINE r == [call[c] EXCEPT !.filled = @ + k]
<1>1. /\ call[c] \in CallRecord /\ r \in CallRecord /\ call[c].pc = "read"
      /\ r.filled <= call[c].total
  BY <1>0, Before, OpeningAssumption DEF ReadSome, CallRecord
<1>2. ASSUME NEW x, Follows(x, r, "read")
      PROVE  Local(c, x) /\ Counts(c, x) /\ (FdsAreRight => Keeping(c, x))
  <2>1. Local(c, x)
    BY <1>1, <1>2, Before DEF Local, Fields, Backed, ReadsRight, CreatorRight, HasFile,
       PcsOf, Made, Follows, CallRecord, CallOps, Backends
  <2>2. Counts(c, x)
    BY <1>1, <1>2, Before DEF ReadSome, delivery, Follows, CallRecord, Fields, PcsOf, Made,
       CallOps, Counts, Flying, Blocking, Futures, Building
  <2>3. ASSUME FdsAreRight PROVE Keeping(c, x)
    BY <1>1, <1>2, <2>3, Before DEF Fields, Follows, CallRecord, Keeping, OwnFd, HasFile
  <2> QED BY <2>1, <2>2, <2>3
<1> QED BY <1>0, <1>1, <1>2, QuietMoves
        DEF ReadSome, CallPcs, OpeningInv, OpeningShape, Tables, delivery

\* A constructor returns or throws.
LEMMA ReturnStep ==
  ASSUME OpeningInv, NEW c \in Calls, Return(c)
  PROVE  OpeningInv' /\ (FdsAreRight => FdsAreRight')
<1>1. call[c] \in CallRecord /\ call[c].op \in Blocking
  BY Before DEF Return
<1>2. CASE call[c].pc = "built" /\ Goes(c, [call[c] EXCEPT !.answer = "file"], "held")
  <2> DEFINE r == [call[c] EXCEPT !.answer = "file"]
  <2>1. r \in CallRecord
    BY <1>1 DEF CallRecord, CallOps
  <2>2. ASSUME NEW x, Follows(x, r, "held")
        PROVE  Local(c, x) /\ Counts(c, x) /\ (FdsAreRight => Keeping(c, x))
    <3>1. Local(c, x)
      BY <1>1, <1>2, <2>1, <2>2, Before DEF Local, Fields, Backed, ReadsRight, CreatorRight, HasFile,
         PcsOf, Made, Follows, CallRecord, CallOps, Backends
    <3>2. Counts(c, x)
      BY <1>1, <1>2, <2>1, <2>2, Before DEF Return, delivery, Follows, CallRecord, Fields, PcsOf, Made,
         CallOps, Counts, Flying, Blocking, Futures, Building
    <3>3. ASSUME FdsAreRight PROVE Keeping(c, x)
      BY <1>1, <1>2, <2>1, <2>2, <3>3, Before DEF Fields, Follows, CallRecord, Keeping, OwnFd, HasFile
    <3> QED BY <3>1, <3>2, <3>3
  <2> QED BY <1>1, <1>2, <2>1, <2>2, QuietMoves
          DEF Return, CallPcs, OpeningInv, OpeningShape, Tables, delivery
<1>3. CASE call[c].pc = "raised" /\ Goes(c, call[c], "done")
  <2>2. ASSUME NEW x, Follows(x, call[c], "done")
        PROVE  Local(c, x) /\ Counts(c, x) /\ (FdsAreRight => Keeping(c, x))
    <3>1. Counts(c, x)
      BY <1>1, <1>3, <2>2, AtEnd, Before DEF Return, Throws, delivery, Fields, PcsOf, Made,
         CallRecord, CallOps, Counts, Flying, Blocking, Futures, Building
    <3>2. ASSUME FdsAreRight PROVE Keeping(c, x)
      BY <1>1, <1>3, <2>2, <3>2, AtEnd, Before DEF Fields, Keeping, OwnFd, HasFile
    <3> QED BY <2>2, <3>1, <3>2, AtEnd
  <2> QED BY <1>1, <1>3, <2>2, QuietMoves
          DEF Return, CallPcs, OpeningInv, OpeningShape, Tables, delivery
<1> QED BY <1>2, <1>3 DEF Return, Throws

\* The open is handed to the pool, or the pool throws.
LEMMA EnqueueOpenStep ==
  ASSUME OpeningInv, NEW c \in Calls, EnqueueOpen(c)
  PROVE  OpeningInv' /\ (FdsAreRight => FdsAreRight')
<1>1. call[c] \in CallRecord /\ call[c].pc = "second"
  BY Before DEF EnqueueOpen
<1>2. CASE Goes(c, call[c], "queued") /\ UNCHANGED <<env, desc, fs, batch, drain, thrown, ghosts>>
  <2>2. ASSUME NEW x, Follows(x, call[c], "queued")
        PROVE  Local(c, x) /\ Counts(c, x) /\ (FdsAreRight => Keeping(c, x))
    <3>1. Local(c, x)
      BY <1>1, <1>2, <2>2, Before DEF Local, Fields, Backed, ReadsRight, CreatorRight, HasFile,
         PcsOf, Made, Follows, CallRecord, CallOps, Backends
    <3>2. Counts(c, x)
      BY <1>1, <1>2, <2>2, Before DEF EnqueueOpen, delivery, Follows, CallRecord, Fields, PcsOf, Made,
         CallOps, Counts, Flying, Blocking, Futures, Building
    <3>3. ASSUME FdsAreRight PROVE Keeping(c, x)
      BY <1>1, <1>2, <2>2, <3>3, Before DEF Fields, Follows, CallRecord, Keeping, OwnFd, HasFile
    <3> QED BY <3>1, <3>2, <3>3
  <2> QED BY <1>1, <1>2, <2>2, QuietMoves
          DEF EnqueueOpen, CallPcs, OpeningInv, OpeningShape, Tables, Throws
<1>3. CASE Throws(c)
  <2>2. ASSUME NEW x, Follows(x, call[c], "done")
        PROVE  Local(c, x) /\ Counts(c, x) /\ (FdsAreRight => Keeping(c, x))
    <3>1. Counts(c, x)
      BY <1>1, <1>3, <2>2, AtEnd, Before DEF EnqueueOpen, Throws, delivery, Fields, PcsOf, Made,
         CallRecord, CallOps, Counts, Flying, Blocking, Futures, Building
    <3>2. ASSUME FdsAreRight PROVE Keeping(c, x)
      BY <1>1, <1>3, <2>2, <3>2, AtEnd, Before DEF Fields, Keeping, OwnFd, HasFile
    <3> QED BY <2>2, <3>1, <3>2, AtEnd
  <2> QED BY <1>1, <1>3, <2>2, QuietMoves
          DEF EnqueueOpen, CallPcs, OpeningInv, OpeningShape, Tables, Throws
<1> QED BY <1>2, <1>3 DEF EnqueueOpen, Throws

\* io_uring takes the open, or the start of its reaper throws.
LEMMA SubmitNativeStep ==
  ASSUME OpeningInv, NEW c \in Calls, SubmitNative(c)
  PROVE  OpeningInv' /\ (FdsAreRight => FdsAreRight')
<1>1. call[c] \in CallRecord /\ call[c].pc = "try" /\ Effective = "io_uring"
  BY Before DEF SubmitNative
<1>2. CASE Goes(c, [call[c] EXCEPT !.op = "native"], "kernel")
           /\ UNCHANGED <<env, desc, fs, delivery, ghosts>>
  <2> DEFINE r == [call[c] EXCEPT !.op = "native"]
  <2>1. r \in CallRecord
    BY <1>1 DEF CallRecord, CallOps
  <2>2. ASSUME NEW x, Follows(x, r, "kernel")
        PROVE  Local(c, x) /\ Counts(c, x) /\ (FdsAreRight => Keeping(c, x))
    <3>1. Local(c, x)
      BY <1>1, <1>2, <2>1, <2>2, Before DEF Local, Fields, Backed, ReadsRight, CreatorRight, HasFile,
         PcsOf, Made, Follows, CallRecord, CallOps, Backends, Effective
    <3>2. Counts(c, x)
      BY <1>1, <1>2, <2>1, <2>2, Before DEF SubmitNative, delivery, Follows, CallRecord, Fields, PcsOf, Made,
         CallOps, Counts, Flying, Blocking, Futures, Building
    <3>3. ASSUME FdsAreRight PROVE Keeping(c, x)
      BY <1>1, <1>2, <2>1, <2>2, <3>3, Before DEF Fields, Follows, CallRecord, Keeping, OwnFd, HasFile
    <3> QED BY <3>1, <3>2, <3>3
  <2> QED BY <1>1, <1>2, <2>1, <2>2, QuietMoves
          DEF SubmitNative, CallPcs, OpeningInv, OpeningShape, Tables, Throws, delivery
<1>3. CASE Throws(c) /\ UNCHANGED outstanding
  <2>2. ASSUME NEW x, Follows(x, call[c], "done")
        PROVE  Local(c, x) /\ Counts(c, x) /\ (FdsAreRight => Keeping(c, x))
    <3>0. Flying(call[c]) /\ ~Flying(x) /\ x.pc = "done"
      BY <1>1, <2>2, AtEnd, Before DEF Fields, PcsOf, Made, CallRecord, CallOps, Flying, Futures
    <3>1. Counts(c, x)
      BY <1>3, <3>0 DEF Throws, Counts
    <3>2. ASSUME FdsAreRight PROVE Keeping(c, x)
      BY <1>1, <1>3, <2>2, <3>2, AtEnd, Before DEF Fields, Keeping, OwnFd, HasFile
    <3> QED BY <2>2, <3>1, <3>2, AtEnd
  <2> QED BY <1>1, <1>3, <2>2, QuietMoves
          DEF SubmitNative, CallPcs, OpeningInv, OpeningShape, Tables, Throws, delivery
<1> QED BY <1>2, <1>3 DEF SubmitNative, Throws
------------------------------------------------------------------------------
(* The constructors.                                                       *)

\* Entries of the descriptor table.
LEMMA ItsDiffer ==
  /\ \A c, d : /\ Its(c, "file") = Its(d, "file") <=> c = d
               /\ Its(c, "chan") = Its(d, "chan") <=> c = d
               /\ Its(c, "file") # Its(d, "chan")
  /\ \A c : /\ Its(c, "file") \notin {Unused, Foreign}
            /\ Its(c, "chan") \notin {Unused, Foreign}
  BY DEF Its, Unused, Foreign

\* A call closes what it takes for its own.
LEMMA HoldsClosed ==
  ASSUME OpeningShape, FdsAreRight, NEW c \in Calls, c \notin lost, NEW n \in Fds,
         n = OwnFd(call[c]), Close(c, n), lost' = lost,
         NEW q, OwnFd(q) = 0, q.chan = call[c].chan
  PROVE  Holds(c, q)
<1>1. desc \in [Fds -> {Unused, Foreign} \union [call : Calls, kind : {"file", "chan"}]]
      /\ desc[n] = Its(c, "file")
  BY DEF OpeningShape, Tables, FdsAreRight
<1>2. desc' = [desc EXCEPT ![n] = Unused] /\ ~astray'
  BY <1>1 DEF Close, FdsAreRight
<1>3. \A m \in Fds : desc'[m] = IF m = n THEN Unused ELSE desc[m]
  BY <1>1, <1>2
<1>4. \A m \in Fds : m # 0
  BY DEF Fds
<1> QED BY <1>1, <1>2, <1>3, <1>4, ItsDiffer DEF Holds, FdsAreRight

\* A call that has no file is given the free number n.
LEMMA HoldsOpened ==
  ASSUME OpeningShape, FdsAreRight, NEW c \in Calls, c \notin lost, NEW n \in Free,
         OwnFd(call[c]) = 0, desc' = [desc EXCEPT ![n] = Its(c, "file")],
         lost' = lost, astray' = astray,
         NEW q, OwnFd(q) = n, q.chan = call[c].chan
  PROVE  Holds(c, q)
<1>1. /\ desc \in [Fds -> {Unused, Foreign} \union [call : Calls, kind : {"file", "chan"}]]
      /\ n \in Fds /\ desc[n] = Unused
  BY DEF OpeningShape, Tables, Free
<1>2. \A m \in Fds : desc'[m] = IF m = n THEN Its(c, "file") ELSE desc[m]
  BY <1>1
<1>3. \A m \in Fds : m # 0
  BY DEF Fds
<1> QED BY <1>1, <1>2, <1>3, ItsDiffer DEF Holds, FdsAreRight

\* A constructor that throws after the file was opened.
LEMMA GivesUpStep ==
  ASSUME OpeningInv, NEW c \in Calls, call[c].pc \in {"init_channel", "create_session"},
         GivesUp(c), UNCHANGED <<env, fs, delivery, lost>>
  PROVE  OpeningInv' /\ (FdsAreRight => FdsAreRight')
<1> DEFINE r == [call[c] EXCEPT !.fd = 0, !.refused = TRUE]
<1>1. call[c] \in CallRecord /\ r \in CallRecord /\ call[c].fd \in Fds
  <2>1. call[c] \in CallRecord /\ HasFile(call[c]) /\ 0 \in 0 .. MaxFd
    BY Before, OpeningAssumption DEF HasFile
  <2>2. r \in CallRecord
    BY <2>1 DEF CallRecord
  <2>3. call[c].fd \in 0 .. MaxFd /\ call[c].fd # 0
    BY <2>1, Before DEF CallRecord, Fields
  <2> QED BY <2>1, <2>2, <2>3 DEF Fds
<1>2. Tables' /\ platform' = platform /\ creator' = creator /\ size' = size
  <2>1. Unused \in {Unused, Foreign} \union [call : Calls, kind : {"file", "chan"}]
    OBVIOUS
  <2> QED BY <2>1 DEF GivesUp, Close, OpeningInv, OpeningShape, Tables, env, fs, delivery
<1>3. ASSUME NEW x, Follows(x, r, "failed")
      PROVE  Fits(c, x)
  <2>1. Local(c, x)
    <3>1. /\ x.pc = "failed" /\ x.op = call[c].op /\ x.mode = call[c].mode /\ x.refused
          /\ x.owns = call[c].owns /\ x.arg = call[c].arg /\ x.chan = call[c].chan
          /\ x.backend = call[c].backend /\ x.answer = call[c].answer
          /\ x.touched = call[c].touched /\ x.total = call[c].total /\ x.filled = call[c].filled
      BY <1>1, <1>3 DEF Follows, CallRecord
    <3> QED BY <1>1, <3>1, Before DEF Local, Fields, Backed, ReadsRight, CreatorRight, HasFile,
            PcsOf, Made, CallRecord, CallOps
  <2>2. Counts(c, x)
    BY <1>1, <1>3 DEF delivery, Follows, CallRecord, Counts, Flying, Building
  <2>3. ASSUME FdsAreRight PROVE Holds(c, x)
    <3>1. c \notin lost
          /\ OwnFd(x) = 0 /\ x.chan = call[c].chan /\ x.op = call[c].op
      BY <1>1, <1>3, <2>3, Before DEF Follows, CallRecord, OwnFd, HasFile
    <3>2. CASE call[c].owns
      <4>1. OwnFd(call[c]) = call[c].fd
        BY <3>2, Before DEF OwnFd, HasFile, Backed
      <4> QED BY <1>1, <2>3, <3>1, <3>2, <4>1, HoldsClosed DEF GivesUp, OpeningInv
    <3>3. CASE ~call[c].owns
      <4>1. OwnFd(call[c]) = 0
        BY <3>3 DEF OwnFd
      <4> QED BY <2>3, <3>1, <3>3, <4>1 DEF GivesUp, FdsAreRight, Holds
    <3> QED BY <3>2, <3>3, <1>1 DEF CallRecord
  <2> QED BY <1>2, <2>1, <2>2, <2>3, LocalSame DEF Fits
<1> QED BY <1>1, <1>2, <1>3, Moves DEF GivesUp, CallPcs

\* The creation of a session, or its failure.
LEMMA CreateSessionStep ==
  ASSUME OpeningInv, NEW c \in Calls, CreateSession(c)
  PROVE  OpeningInv' /\ (FdsAreRight => FdsAreRight')
<1>1. CASE Goes(c, call[c], "built") /\ UNCHANGED <<desc, astray>>
  <2>1. call[c] \in CallRecord /\ call[c].pc = "create_session"
    BY Before DEF CreateSession
  <2>2. ASSUME NEW x, Follows(x, call[c], "built")
        PROVE  Local(c, x) /\ Counts(c, x) /\ (FdsAreRight => Keeping(c, x))
    <3>1. Local(c, x)
      BY <2>1, <2>2, Before DEF Local, Fields, Backed, ReadsRight, CreatorRight, HasFile,
         PcsOf, Made, Follows, CallRecord, CallOps
    <3>2. Counts(c, x)
      BY <2>1, <2>2 DEF CreateSession, delivery, Follows, CallRecord, Counts, Flying, Building
    <3>3. ASSUME FdsAreRight PROVE Keeping(c, x)
      BY <2>1, <2>2, <3>3, Before DEF Follows, CallRecord, Keeping, OwnFd, HasFile
    <3> QED BY <3>1, <3>2, <3>3
  <2> QED BY <1>1, <2>1, <2>2, QuietMoves
          DEF CreateSession, CallPcs, OpeningInv, OpeningShape, Tables, delivery, ghosts
<1>2. CASE GivesUp(c)
  BY <1>2, GivesUpStep DEF CreateSession
<1> QED BY <1>1, <1>2 DEF CreateSession

\* The second descriptor of Dispatch I/O, or the failure to make it.
LEMMA InitChannelStep ==
  ASSUME OpeningInv, NEW c \in Calls, InitChannel(c)
  PROVE  OpeningInv' /\ (FdsAreRight => FdsAreRight')
<1>1. CASE GivesUp(c)
  BY <1>1, GivesUpStep DEF InitChannel
<1>2. CASE ~GivesUp(c)
  <2>1. PICK n \in Lowest :
          /\ desc' = [desc EXCEPT ![n] = Its(c, "chan")]
          /\ Goes(c, [call[c] EXCEPT !.chan = n], "built")
          /\ UNCHANGED astray
    BY <1>2, Zenon DEF InitChannel
  <2> DEFINE r == [call[c] EXCEPT !.chan = n]
  <2>2. /\ call[c] \in CallRecord /\ call[c].pc = "init_channel" /\ n \in Fds
        /\ desc[n] = Unused /\ n \in 0 .. MaxFd /\ n # 0
    BY Before DEF InitChannel, Lowest, Free, Fds
  <2>3. r \in CallRecord
    BY <2>2 DEF CallRecord
  <2>4. Tables' /\ platform' = platform /\ creator' = creator /\ size' = size
    <3>1. Its(c, "chan") \in [call : Calls, kind : {"file", "chan"}]
      BY DEF Its
    <3> QED BY <2>1, <2>2, <3>1
            DEF InitChannel, OpeningInv, OpeningShape, Tables, env, fs, delivery
  <2>5. ASSUME NEW x, Follows(x, r, "built")
        PROVE  Fits(c, x)
    <3>1. Local(c, x)
      BY <2>2, <2>5, Before DEF Local, Fields, Backed, ReadsRight, CreatorRight, HasFile,
         PcsOf, Made, Follows, CallRecord, CallOps
    <3>2. Counts(c, x)
      BY <2>2, <2>5 DEF InitChannel, delivery, Follows, CallRecord, Counts, Flying, Building
    <3>3. ASSUME FdsAreRight PROVE Holds(c, x)
      <4>1. /\ OwnFd(x) = OwnFd(call[c]) /\ x.chan = n /\ call[c].chan = 0 /\ c \notin lost
        BY <2>2, <2>5, <3>3, Before DEF Fields, Backed, Follows, CallRecord, OwnFd, HasFile
      <4>2. \A m \in Fds : desc'[m] = IF m = n THEN Its(c, "chan") ELSE desc[m]
        BY <2>1, <2>2 DEF OpeningInv, OpeningShape, Tables
      <4>3. \A m \in Fds : m # 0
        BY DEF Fds
      <4> QED BY <2>1, <2>2, <3>3, <4>1, <4>2, <4>3, ItsDiffer
              DEF InitChannel, Holds, FdsAreRight
    <3> QED BY <2>4, <3>1, <3>2, <3>3, LocalSame DEF Fits
  <2> QED BY <2>1, <2>2, <2>3, <2>4, <2>5, Moves DEF CallPcs
<1> QED BY <1>1, <1>2
\* The IOCP backend closes a descriptor it is to own and opens the file anew.
LEMMA WrapIocpStep ==
  ASSUME OpeningInv, NEW c \in Calls, WrapIocp(c)
  PROVE  OpeningInv' /\ (FdsAreRight => FdsAreRight')
<1> DEFINE n == call[c].arg
<1>0. /\ AtWrap(c, "iocp") /\ UNCHANGED <<env, fs, delivery, lost>>
      /\ astray' = (astray \/ (call[c].owns /\ desc[n] # Its(c, "file")))
  BY Zenon DEF WrapIocp
<1>T. PICK table : table = IF call[c].owns THEN [desc EXCEPT ![n] = Unused] ELSE desc
  BY Zenon
<1>W. \/ \E m \in Fds :
           /\ table[m] = Unused
           /\ desc' = [table EXCEPT ![m] = Its(c, "file")]
           /\ Goes(c, [call[c] EXCEPT !.fd = m, !.owns = TRUE], "create_session")
      \/ desc' = table /\ Goes(c, call[c], "failed")
  BY <1>T, Zenon DEF WrapIocp
<1>1. /\ call[c] \in CallRecord /\ call[c].pc = "wrap" /\ call[c].backend = "iocp"
      /\ platform = "windows" /\ n \in Fds /\ call[c].op \in {"wrap", "adopt"}
      /\ call[c].chan = 0
  <2>1. call[c] \in CallRecord /\ call[c].pc = "wrap" /\ call[c].backend = "iocp"
    BY <1>0, Before DEF AtWrap
  <2>2. platform = "windows" /\ call[c].op \in {"wrap", "adopt"} /\ call[c].chan = 0
    BY <2>1, Before DEF Backed, Fields, PcsOf, Made, CallRecord, CallOps
  <2>3. n \in 0 .. MaxFd /\ n # 0
    BY <2>1, Before DEF Fields, CallRecord
  <2> QED BY <2>1, <2>2, <2>3 DEF Fds
<1>2. table \in [Fds -> {Unused, Foreign} \union [call : Calls, kind : {"file", "chan"}]]
  BY <1>1, <1>T DEF OpeningInv, OpeningShape, Tables
<1>3. ASSUME FdsAreRight
      PROVE  /\ \A m \in Fds : table[m] # Its(c, "file") /\ table[m] # Its(c, "chan")
             /\ \A m \in Fds, d \in Calls \ {c} :
                  /\ table[m] = Its(d, "file") <=> desc[m] = Its(d, "file")
                  /\ table[m] = Its(d, "chan") <=> desc[m] = Its(d, "chan")
             /\ ~astray' /\ c \notin lost
  <2>1. c \notin lost
    BY <1>1, <1>3, Before
  <2>2. \A m \in Fds : m # 0
    BY DEF Fds
  <2>3. CASE call[c].owns
    <3>1. OwnFd(call[c]) = n
      BY <1>1, <2>3, Before DEF OwnFd, Backed
    <3>2. \A m \in Fds : table[m] = IF m = n THEN Unused ELSE desc[m]
      BY <1>1, <1>T, <2>3 DEF OpeningInv, OpeningShape, Tables
    <3>3. \A m \in Fds, d \in Calls :
            /\ d \notin lost => (desc[m] = Its(d, "file") <=> m = OwnFd(call[d]))
            /\ desc[m] = Its(d, "chan") <=> m = call[d].chan
      BY <1>3 DEF FdsAreRight
    <3>4. desc[n] = Its(c, "file") /\ ~astray'
      BY <1>0, <1>1, <1>3, <2>1, <3>1, <3>3 DEF FdsAreRight
    <3>5. \A m \in Fds : table[m] # Its(c, "file") /\ table[m] # Its(c, "chan")
      BY <1>1, <2>1, <2>2, <3>1, <3>2, <3>3, ItsDiffer
    <3>6. ASSUME NEW m \in Fds, NEW d \in Calls \ {c}
          PROVE  /\ table[m] = Its(d, "file") <=> desc[m] = Its(d, "file")
                 /\ table[m] = Its(d, "chan") <=> desc[m] = Its(d, "chan")
      BY <3>2, <3>4, ItsDiffer
    <3> QED BY <2>1, <3>4, <3>5, <3>6
  <2>4. CASE ~call[c].owns
    <3>1. OwnFd(call[c]) = 0 /\ table = desc
      BY <1>T, <2>4 DEF OwnFd
    <3> QED BY <1>0, <1>1, <1>3, <2>1, <2>2, <2>4, <3>1 DEF FdsAreRight
  <2> QED BY <2>3, <2>4
<1>4. CASE desc' = table /\ Goes(c, call[c], "failed")
  <2>1. Tables' /\ platform' = platform /\ creator' = creator /\ size' = size
    BY <1>0, <1>2, <1>4 DEF OpeningInv, OpeningShape, Tables, env, fs, delivery
  <2>2. ASSUME NEW x, Follows(x, call[c], "failed")
        PROVE  Fits(c, x)
    <3>1. Local(c, x)
      BY <1>1, <2>2, Before DEF Local, Fields, Backed, ReadsRight, CreatorRight, HasFile,
         PcsOf, Made, Follows, CallRecord, CallOps, Backends
    <3>2. Counts(c, x)
      BY <1>0, <1>1, <2>2 DEF delivery, Follows, CallRecord, Counts, Flying, Building
    <3>3. ASSUME FdsAreRight PROVE Holds(c, x)
      <4>1. OwnFd(x) = 0 /\ x.chan = 0 /\ x.op = call[c].op
        BY <1>1, <2>2 DEF Follows, CallRecord, OwnFd, HasFile
      <4>2. \A m \in Fds : m # 0
        BY DEF Fds
      <4> QED BY <1>0, <1>3, <1>4, <3>3, <4>1, <4>2 DEF Holds
    <3> QED BY <2>1, <3>1, <3>2, <3>3, LocalSame DEF Fits
  <2> QED BY <1>1, <1>4, <2>1, <2>2, Moves DEF CallPcs
<1>5. CASE ~(desc' = table /\ Goes(c, call[c], "failed"))
  <2>1. PICK m \in Fds :
          /\ table[m] = Unused
          /\ desc' = [table EXCEPT ![m] = Its(c, "file")]
          /\ Goes(c, [call[c] EXCEPT !.fd = m, !.owns = TRUE], "create_session")
    BY <1>W, <1>5, Zenon
  <2> DEFINE r == [call[c] EXCEPT !.fd = m, !.owns = TRUE]
  <2>2. r \in CallRecord /\ m # 0
    <3>1. m \in 0 .. MaxFd /\ m # 0
      BY DEF Fds
    <3> QED BY <1>1, <3>1 DEF CallRecord
  <2>3. Tables' /\ platform' = platform /\ creator' = creator /\ size' = size
    <3>1. Its(c, "file") \in [call : Calls, kind : {"file", "chan"}]
      BY DEF Its
    <3> QED BY <1>0, <1>2, <2>1, <3>1 DEF OpeningInv, OpeningShape, Tables, env, fs, delivery
  <2>4. ASSUME NEW x, Follows(x, r, "create_session")
        PROVE  Fits(c, x)
    <3>0. /\ x.pc = "create_session" /\ x.op = call[c].op /\ x.mode = call[c].mode
          /\ x.owns /\ x.arg = n /\ x.fd = m /\ x.chan = 0 /\ x.refused = call[c].refused
          /\ x.backend = "iocp" /\ x.answer = call[c].answer
          /\ x.touched = call[c].touched /\ x.total = call[c].total /\ x.filled = call[c].filled
      BY <1>1, <2>4 DEF Follows, CallRecord
    <3>1. Local(c, x)
      BY <1>1, <2>2, <3>0, Before DEF Local, Fields, Backed, ReadsRight, CreatorRight, HasFile,
         PcsOf, Made, CallRecord, CallOps, Backends
    <3>2. Counts(c, x)
      BY <1>0, <1>1, <3>0 DEF delivery, Counts, Flying, Building
    <3>3. ASSUME FdsAreRight PROVE Holds(c, x)
      <4>1. OwnFd(x) = m
        BY <1>1, <3>0, Before DEF OwnFd, HasFile, Backed
      <4>2. \A k \in Fds : k # 0 /\ desc'[k] = IF k = m THEN Its(c, "file") ELSE table[k]
        BY <1>2, <2>1 DEF Fds
      <4> QED BY <1>0, <1>3, <2>1, <3>0, <3>3, <4>1, <4>2, ItsDiffer DEF Holds
    <3> QED BY <2>3, <3>1, <3>2, <3>3, LocalSame DEF Fits
  <2> QED BY <1>1, <2>1, <2>2, <2>3, <2>4, Moves DEF CallPcs
<1> QED BY <1>4, <1>5

\* PyAsyncFile(fd).
LEMMA WrapStep ==
  ASSUME OpeningInv, NEW c \in Calls, Wrap(c)
  PROVE  OpeningInv' /\ (FdsAreRight => FdsAreRight')
<1>1. PICK n \in Lowest, owned \in BOOLEAN :
        /\ Goes(c, [NoCall EXCEPT !.op = IF owned THEN "adopt" ELSE "wrap", !.arg = n,
                                  !.owns = owned, !.backend = WrapsWith], "wrap")
        /\ desc' = [desc EXCEPT ![n] = IF owned THEN Its(c, "file") ELSE Foreign]
  BY Zenon DEF Wrap
<1> DEFINE r == [NoCall EXCEPT !.op = IF owned THEN "adopt" ELSE "wrap", !.arg = n,
                               !.owns = owned, !.backend = WrapsWith]
<1>2. n \in Fds /\ desc[n] = Unused /\ n \in 0 .. MaxFd /\ n # 0
  BY DEF Lowest, Free, Fds
<1>3. r \in CallRecord /\ WrapsWith \in {Native, "thread_pool"}
      /\ (platform = "windows" => WrapsWith = "iocp") /\ Begins(c)
  <2>1. WrapsWith \in {Native, "thread_pool"} /\ WrapsWith \in Backends
        /\ (platform = "windows" => WrapsWith = "iocp")
    BY Before DEF WrapsWith, Effective, Backends
  <2> QED BY NewRecord, <1>2, <2>1 DEF CallRecord, CallOps, Wrap
<1>4. Tables' /\ platform' = platform /\ creator' = creator /\ size' = size
  <2>1. Its(c, "file") \in [call : Calls, kind : {"file", "chan"}]
    BY DEF Its
  <2> QED BY <1>1, <1>2, <2>1 DEF Wrap, OpeningInv, OpeningShape, Tables, env, fs, delivery, ghosts
<1>5. ASSUME NEW x, Follows(x, r, "wrap")
      PROVE  /\ Local(c, x) /\ Counts(c, x)
             /\ FdsAreRight => Holds(c, x)
  <2>0. /\ x.pc = "wrap" /\ x.op = (IF owned THEN "adopt" ELSE "wrap") /\ x.mode = "r"
        /\ x.owns = owned /\ x.arg = n /\ x.chan = 0 /\ x.answer = "none" /\ ~x.refused
        /\ x.total = 0 /\ x.filled = 0 /\ x.backend = WrapsWith
    BY <1>5 DEF Follows, NoCall
  <2>1. Local(c, x)
    BY <1>2, <1>3, <2>0, NotMade DEF Local, Fields, Backed, ReadsRight, CreatorRight, HasFile,
       PcsOf
  <2>2. Counts(c, x)
    BY <1>3, <2>0, NotMade DEF Wrap, delivery, Counts, Flying, Futures
  <2>3. ASSUME FdsAreRight PROVE Holds(c, x)
    <3>1. OwnFd(x) = (IF owned THEN n ELSE 0)
      BY <1>3, <2>0 DEF OwnFd
    <3>2. \A m \in Fds :
            m # 0 /\ desc'[m] = IF m = n THEN (IF owned THEN Its(c, "file") ELSE Foreign)
                                ELSE desc[m]
      BY <1>1, <1>2 DEF Fds, OpeningInv, OpeningShape, Tables
    <3>3. c \notin lost /\ OwnFd(call[c]) = 0 /\ call[c].chan = 0
      BY <1>3, <2>3, NotMade
    <3> QED BY <1>1, <1>2, <2>0, <2>3, <3>1, <3>2, <3>3, ItsDiffer
            DEF Wrap, ghosts, Holds, FdsAreRight
  <2> QED BY <2>1, <2>2, <2>3
<1>6. /\ OpeningInv' /\ Follows(call'[c], r, "wrap")
      /\ \A d \in Calls \ {c} : call'[d] = call[d]
  <2>1. \A x : Follows(x, r, "wrap") => Local(c, x)' /\ Counts(c, x)
    BY <1>4, <1>5, LocalSame
  <2> QED BY <1>1, <1>3, <1>4, <2>1, NotMade, MovesInv DEF CallPcs
<1>7. ASSUME FdsAreRight PROVE FdsAreRight'
  <2>1. PICK q : q = call'[c]
    BY Zenon
  <2>2. Holds(c, q)
    BY <1>5, <1>6, <1>7, <2>1
  <2> QED BY <1>4, <1>6, <1>7, <2>1, <2>2, MovesDescriptors
<1> QED BY <1>6, <1>7
\* The thread pool after the native backend.
LEMMA FallBackStep ==
  ASSUME OpeningInv, NEW c \in Calls, FallBack(c)
  PROVE  OpeningInv' /\ (FdsAreRight => FdsAreRight')
<1>1. call[c] \in CallRecord /\ call[c].pc = "failed" /\ UNCHANGED <<env, desc, fs, delivery, ghosts>>
  BY Before DEF FallBack
<1>2. CASE call[c].backend = "thread_pool"
  <2>1. ASSUME NEW x, Follows(x, call[c], "raised")
        PROVE  Local(c, x) /\ Counts(c, x) /\ (FdsAreRight => Keeping(c, x))
    <3>1. Local(c, x)
      BY <1>1, <2>1, Before DEF Local, Fields, Backed, ReadsRight, CreatorRight, HasFile,
         PcsOf, Made, Follows, CallRecord, CallOps
    <3>2. Counts(c, x)
      BY <1>1, <2>1 DEF delivery, Follows, CallRecord, Counts, Flying, Building
    <3>3. ASSUME FdsAreRight PROVE Keeping(c, x)
      BY <1>1, <2>1, <3>3, Before DEF Follows, CallRecord, Keeping, OwnFd, HasFile
    <3> QED BY <3>1, <3>2, <3>3
  <2> QED BY <1>1, <1>2, <2>1, QuietMoves
          DEF FallBack, CallPcs, OpeningInv, OpeningShape, Tables, delivery
<1>3. CASE call[c].backend # "thread_pool"
  <2> DEFINE r == [call[c] EXCEPT !.backend = "thread_pool"]
             p == IF call[c].arg = 0 THEN "open" ELSE "wrap"
  <2>1. Goes(c, r, p) /\ r \in CallRecord /\ p \in CallPcs
    BY <1>1, <1>3 DEF FallBack, CallRecord, Backends, CallPcs
  <2>2. ASSUME NEW x, Follows(x, r, p)
        PROVE  Local(c, x) /\ Counts(c, x) /\ (FdsAreRight => Keeping(c, x))
    <3>0. /\ x.pc = p /\ x.op = call[c].op /\ x.mode = call[c].mode /\ x.owns = call[c].owns
          /\ x.arg = call[c].arg /\ x.fd = call[c].fd /\ x.chan = call[c].chan
          /\ x.refused = call[c].refused /\ x.backend = "thread_pool"
          /\ x.answer = call[c].answer /\ x.touched = call[c].touched
          /\ x.total = call[c].total /\ x.filled = call[c].filled
      BY <1>1, <2>2 DEF Follows, CallRecord
    <3>1. Local(c, x)
      BY <1>1, <1>3, <3>0, Before DEF Local, Fields, Backed, ReadsRight, CreatorRight, HasFile,
         PcsOf, Made, CallRecord, CallOps
    <3>2. Counts(c, x)
      BY <1>1, <3>0 DEF delivery, Counts, Flying, Building
    <3>3. ASSUME FdsAreRight PROVE Keeping(c, x)
      <4>1. OwnFd(call[c]) = 0 /\ OwnFd(x) = 0
        BY <1>1, <3>0, <3>3, Before DEF OwnFd, HasFile, Backed, Fields, PcsOf, Made, CallRecord, CallOps
      <4> QED BY <1>1, <3>0, <3>3, <4>1, Before DEF Keeping
    <3> QED BY <3>1, <3>2, <3>3
  <2> QED BY <1>1, <2>1, <2>2, QuietMoves DEF OpeningInv, OpeningShape, Tables, delivery
<1> QED BY <1>2, <1>3
------------------------------------------------------------------------------
(* Opening by the path.                                                    *)

\* Where a call stands that opens the file by its path.
Opens(c, next, denied) ==
  \/ /\ call[c].pc = "open" /\ denied = "failed"
     /\ \/ next = "built"
        \/ next = "init_channel" /\ call[c].backend = "dispatch_io"
        \/ next = "create_session" /\ call[c].backend = "iocp"
  \/ call[c].pc = "kernel" /\ next = "opened" /\ denied = "raised"
  \/ call[c].op = "whole" /\ call[c].pc = "queued" /\ next = "stat" /\ denied = "raised"

\* The call before it opens the file.
LEMMA BeforeOpen ==
  ASSUME OpeningInv, NEW c \in Calls, NEW next, NEW denied, Opens(c, next, denied)
  PROVE  /\ call[c] \in CallRecord /\ call[c].pc \in {"open", "kernel", "queued"}
         /\ call[c].op \in {"open", "aopen", "native", "whole"}
         /\ call[c].owns /\ call[c].chan = 0 /\ OwnFd(call[c]) = 0
         /\ call[c].answer \notin {"file", "data"}
         /\ FdsAreRight => c \notin lost
  BY Before DEF Opens, Fields, PcsOf, Made, CallRecord, CallOps, OwnFd, HasFile

\* The open that fails.
LEMMA OpenFails ==
  ASSUME OpeningInv, NEW c \in Calls, NEW next, NEW denied, Opens(c, next, denied),
         Goes(c, [call[c] EXCEPT !.answer =
                    IF call[c].mode = "x" /\ creator # Nobody THEN "exists" ELSE "error"], denied),
         UNCHANGED <<env, desc, fs, delivery, ghosts>>
  PROVE  OpeningInv' /\ (FdsAreRight => FdsAreRight')
<1> DEFINE a == IF call[c].mode = "x" /\ creator # Nobody THEN "exists" ELSE "error"
           r == [call[c] EXCEPT !.answer = a]
<1>1. r \in CallRecord /\ denied \in CallPcs
  BY BeforeOpen DEF CallRecord, CallPcs, Opens
<1>2. ASSUME NEW x, Follows(x, r, denied)
      PROVE  Local(c, x) /\ Counts(c, x) /\ (FdsAreRight => Keeping(c, x))
  <2>0. /\ x.pc = denied /\ x.op = call[c].op /\ x.mode = call[c].mode /\ x.owns = call[c].owns
        /\ x.arg = call[c].arg /\ x.fd = call[c].fd /\ x.chan = call[c].chan
        /\ x.refused = call[c].refused /\ x.backend = call[c].backend
        /\ x.answer = a /\ x.touched = call[c].touched
        /\ x.total = call[c].total /\ x.filled = call[c].filled
    BY <1>2, BeforeOpen DEF Follows, CallRecord, Opens
  <2>1. Local(c, x)
    BY <1>1, <2>0, Before, BeforeOpen DEF Opens, Local, Fields, Backed, ReadsRight, CreatorRight,
       HasFile, PcsOf, Made, CallRecord, CallOps
  <2>2. Counts(c, x)
    BY <2>0, BeforeOpen, Before
       DEF Opens, delivery, Counts, Flying, Building, Futures, Fields, PcsOf, Made, CallRecord, CallOps
  <2>3. FdsAreRight => Keeping(c, x)
    BY <2>0, BeforeOpen, Before DEF Opens, Keeping, OwnFd, HasFile
  <2> QED BY <2>1, <2>2, <2>3
<1> QED BY <1>1, <1>2, BeforeOpen, QuietMoves DEF OpeningInv, OpeningShape, Tables, delivery

\* The open that succeeds, with the number n.
OpenedAs(c, next, n) ==
  /\ Permits(call[c].mode)
  /\ desc' = [desc EXCEPT ![n] = Its(c, "file")]
  /\ creator' = IF creator = Nobody THEN c ELSE creator
  /\ size' = IF call[c].mode = "r" THEN size ELSE 0
  /\ call' = [d \in Calls |->
       IF d = c THEN [call[c] EXCEPT !.pc = next, !.fd = n]
       ELSE [call[d] EXCEPT !.touched = @ \/ (Reading(d) /\ call[c].mode = "w")]]

\* The open that gives the lowest free number.
LEMMA OpenSucceeds ==
  ASSUME OpeningInv, NEW c \in Calls, NEW next, NEW denied, Opens(c, next, denied),
         UNCHANGED <<env, delivery, ghosts>>, NEW n \in Lowest, OpenedAs(c, next, n)
  PROVE  OpeningInv' /\ (FdsAreRight => FdsAreRight')
<1>0. /\ Permits(call[c].mode)
      /\ desc' = [desc EXCEPT ![n] = Its(c, "file")]
      /\ creator' = IF creator = Nobody THEN c ELSE creator
      /\ size' = IF call[c].mode = "r" THEN size ELSE 0
      /\ call' = [d \in Calls |->
           IF d = c THEN [call[c] EXCEPT !.pc = next, !.fd = n]
           ELSE [call[d] EXCEPT !.touched = @ \/ (Reading(d) /\ call[c].mode = "w")]]
  BY Zenon DEF OpenedAs
<1>1. /\ call[c] \in CallRecord /\ n \in Fds /\ n \in 0 .. MaxFd /\ n # 0 /\ n \in Free
      /\ next \in {"built", "init_channel", "create_session", "opened", "stat"}
  BY BeforeOpen DEF Lowest, Free, Fds, Opens
<1>2. PICK q : q = call'[c]
  BY Zenon
<1>3. /\ q \in CallRecord /\ q.pc = next /\ q.op = call[c].op /\ q.mode = call[c].mode
      /\ q.owns = call[c].owns /\ q.arg = call[c].arg /\ q.fd = n /\ q.chan = call[c].chan
      /\ q.refused = call[c].refused /\ q.backend = call[c].backend
      /\ q.answer = call[c].answer /\ q.touched = call[c].touched
      /\ q.total = call[c].total /\ q.filled = call[c].filled
  <2>1. q = [call[c] EXCEPT !.pc = next, !.fd = n]
    BY <1>0, <1>2
  <2> QED BY <1>1, <2>1 DEF CallRecord, CallPcs
<1>4. ASSUME NEW d \in Calls \ {c}
      PROVE  \E t \in BOOLEAN : /\ call'[d] = [call[d] EXCEPT !.touched = t]
                                /\ t <=> call[d].touched \/ (Reading(d) /\ call[c].mode = "w")
  <2>1. call'[d] = [call[d] EXCEPT !.touched =
                      call[d].touched \/ (Reading(d) /\ call[c].mode = "w")]
    BY <1>0, Zenon
  <2>2. call[d].touched \in BOOLEAN
    BY DEF OpeningInv, OpeningShape, CallRecord
  <2>3. (call[d].touched \/ (Reading(d) /\ call[c].mode = "w")) \in BOOLEAN
    BY <2>2
  <2> QED BY <2>1, <2>3
<1>5. Tables' /\ platform' = platform /\ creator' \in Calls \union {Nobody, Other}
  <2>1. Its(c, "file") \in [call : Calls, kind : {"file", "chan"}]
    BY DEF Its
  <2>2. 0 \in 0 .. MaxSize
    BY OpeningAssumption
  <2> QED BY <1>0, <1>1, <2>1, <2>2 DEF OpeningInv, OpeningShape, Tables, env, delivery, ghosts
<1>6. ASSUME NEW d \in Calls \ {c}
      PROVE  Local(d, call[d])' /\ call'[d] \in CallRecord
             /\ call'[d].op = call[d].op /\ call'[d].pc = call[d].pc
  <2>1. PICK t \in BOOLEAN : /\ call'[d] = [call[d] EXCEPT !.touched = t]
                             /\ t <=> call[d].touched \/ (Reading(d) /\ call[c].mode = "w")
    BY <1>4
  <2>2. call[d] \in CallRecord /\ Local(d, call[d]) /\ ReadsRight(call[d])
    BY Before DEF OpeningInv, Locals
  <2>3. PICK x : x = call'[d]
    BY Zenon
  <2>4. x \in CallRecord /\ x.op = call[d].op /\ x.pc = call[d].pc
    BY <2>1, <2>2, <2>3 DEF CallRecord
  <2>5. size' = size \/ t \/ call[d].pc \notin {"alloc", "read"}
    BY <1>0, <1>1, <2>1, <2>2 DEF Reading, ReadsRight, Permits, CallRecord
  <2>6. Local(d, x)'
    BY <1>0, <1>5, <2>1, <2>2, <2>3, <2>4, <2>5, LocalStays, OpeningAssumption DEF OpeningInv, Calls
  <2> QED BY <2>3, <2>4, <2>6
<1>7. Local(c, q)'
  <2>1. Fields(q)'
    BY <1>0, <1>1, <1>3, Before, BeforeOpen DEF Opens, Fields, HasFile, PcsOf, Made
  <2>2. Backed(q)'
    BY <1>1, <1>3, <1>5, Before, BeforeOpen DEF Opens, Backed, Native
  <2>3. ReadsRight(q)'
    BY <1>0, <1>1, <1>3, Before, BeforeOpen, OpeningAssumption DEF Opens, ReadsRight, Calls
  <2>4. CreatorRight(c, q)'
    BY <1>0, <1>1, <1>3, Before, BeforeOpen DEF Opens, CreatorRight, HasFile, Permits
  <2> QED BY <2>1, <2>2, <2>3, <2>4 DEF Local
<1>8. Counts(c, q)
  BY <1>1, <1>3, Before, BeforeOpen
     DEF Opens, delivery, Counts, Flying, Building, Futures, Fields, PcsOf, Made, CallRecord, CallOps
<1>9. OpeningInv'
  <2>1. Tallied' /\ outstanding' \in Int /\ thrown' \subseteq Calls
    BY <1>1, <1>2, <1>6, <1>8, BeforeOpen, CountMoves DEF OpeningInv
  <2>2. \A d \in Calls : call'[d] \in CallRecord /\ Local(d, call[d])'
    BY <1>2, <1>3, <1>6, <1>7
  <2>3. call' \in [Calls -> CallRecord]
    BY <1>0, <2>2
  <2> QED BY <1>5, <2>1, <2>2, <2>3 DEF OpeningInv, OpeningShape, Locals
<1>10. ASSUME FdsAreRight PROVE FdsAreRight'
  <2>1. /\ OwnFd(q) = n /\ q.chan = call[c].chan /\ q.op # "adopt"
        /\ c \notin lost /\ OwnFd(call[c]) = 0
    BY <1>1, <1>3, <1>10, BeforeOpen DEF OwnFd, HasFile
  <2>2. Holds(c, q)
    BY <1>1, <1>10, <1>0, <2>1, HoldsOpened DEF OpeningInv, ghosts
  <2> QED BY <1>2, <1>4, <1>5, <1>10, <2>2, HoldsOthers DEF OpeningInv
<1> QED BY <1>9, <1>10

\* platform::file_open, wherever it is called.
LEMMA FileOpenStep ==
  ASSUME OpeningInv, NEW c \in Calls, NEW next, NEW denied, Opens(c, next, denied),
         FileOpen(c, next, denied), UNCHANGED <<env, delivery, ghosts>>
  PROVE  OpeningInv' /\ (FdsAreRight => FdsAreRight')
<1>1. CASE /\ Goes(c, [call[c] EXCEPT !.answer =
                 IF call[c].mode = "x" /\ creator # Nobody THEN "exists" ELSE "error"], denied)
           /\ UNCHANGED <<desc, fs>>
  BY <1>1, OpenFails
<1>2. CASE ~(/\ Goes(c, [call[c] EXCEPT !.answer =
                 IF call[c].mode = "x" /\ creator # Nobody THEN "exists" ELSE "error"], denied)
             /\ UNCHANGED <<desc, fs>>)
  <2>1. PICK n \in Lowest : OpenedAs(c, next, n)
    BY <1>2, Zenon DEF FileOpen, OpenedAs
  <2> QED BY <2>1, OpenSucceeds
<1> QED BY <1>1, <1>2

\* The constructors and calls that open by the path.
LEMMA PathSteps ==
  ASSUME OpeningInv, NEW c \in Calls,
         OpenUring(c) \/ OpenThread(c) \/ OpenGcd(c) \/ OpenIocp(c) \/ KernelOpens(c) \/ OpenWhole(c)
  PROVE  OpeningInv' /\ (FdsAreRight => FdsAreRight')
<1>1. CASE OpenUring(c) \/ OpenThread(c)
  BY <1>1, FileOpenStep DEF OpenUring, OpenThread, AtOpen, Opens
<1>2. CASE OpenGcd(c)
  BY <1>2, FileOpenStep DEF OpenGcd, AtOpen, Opens
<1>3. CASE OpenIocp(c)
  BY <1>3, FileOpenStep DEF OpenIocp, AtOpen, Opens
<1>4. CASE KernelOpens(c)
  BY <1>4, FileOpenStep DEF KernelOpens, Opens
<1>5. CASE OpenWhole(c)
  BY <1>5, FileOpenStep DEF OpenWhole, Opens
<1> QED BY <1>1, <1>2, <1>3, <1>4, <1>5
------------------------------------------------------------------------------
(* Closing, and whole reads.                                               *)

\* A call that has opened and closed nothing holds what it held.
LEMMA HoldsKept ==
  ASSUME FdsAreRight, NEW c \in Calls, UNCHANGED <<desc, ghosts>>, NEW q, Keeping(c, q)
  PROVE  Holds(c, q)
  BY DEF FdsAreRight, Holds, Keeping, ghosts

\* The number a call has for its file.
LEMMA FdOf ==
  ASSUME OpeningInv, NEW c \in Calls, HasFile(call[c])
  PROVE  /\ call[c].fd \in Fds
         /\ OwnFd(call[c]) = (IF call[c].owns /\ ~Disowned(c) THEN call[c].fd ELSE 0)
<1>1. call[c].fd \in 0 .. MaxFd /\ call[c].fd # 0
  BY Before DEF CallRecord, Fields
<1>2. call[c].pc # "wrap"
  BY DEF HasFile
<1> QED BY <1>1, <1>2 DEF Fds, OwnFd, Disowned

\* The tables after a close() by a call.
LEMMA TablesClosed ==
  ASSUME OpeningInv, NEW c, NEW n, Close(c, n), UNCHANGED <<env, delivery, lost, creator>>,
         size' \in 0 .. MaxSize
  PROVE  Tables' /\ platform' = platform
<1>1. Unused \in {Unused, Foreign} \union [call : Calls, kind : {"file", "chan"}]
  OBVIOUS
<1> QED BY <1>1 DEF Close, OpeningInv, OpeningShape, Tables, env, delivery

\* A number is closed that was not the caller's, and a disowned object is there.
Strays == astray' /\ platform = "macos" /\ \E c \in Calls : Disowned(c)

\* ~PyAsyncFile.
LEMMA DestroyStep ==
  ASSUME OpeningInv, NEW c \in Calls, Destroy(c)
  PROVE  OpeningInv' /\ (FdsAreRight => FdsAreRight' \/ Strays)
<1> DEFINE p == IF call[c].chan = 0 THEN "done" ELSE "cleanup"
<1>1. /\ call[c] \in CallRecord /\ call[c].pc \in {"held", "dropped"} /\ HasFile(call[c])
      /\ p \in CallPcs /\ Goes(c, call[c], p)
      /\ UNCHANGED <<env, fs, delivery, lost>>
  BY Before DEF Destroy, HasFile, CallPcs
<1>2. Tables' /\ platform' = platform /\ creator' = creator /\ size' = size
  <2>1. CASE call[c].owns
    BY <1>1, <2>1, TablesClosed DEF Destroy, fs, OpeningInv, OpeningShape, Tables
  <2>2. CASE ~call[c].owns
    BY <1>1, <2>2 DEF Destroy, OpeningInv, OpeningShape, Tables, env, fs, delivery
  <2> QED BY <2>1, <2>2, <1>1 DEF CallRecord
<1>3. ASSUME NEW x, Follows(x, call[c], p)
      PROVE  Local(c, x)' /\ Counts(c, x) /\ (FdsAreRight /\ ~Disowned(c) => Holds(c, x))
  <2>1. Local(c, x)
    <3>1. CASE p = "done"
      BY <1>3, <3>1, AtEnd
    <3>2. CASE p = "cleanup"
      <4>1. /\ x.pc = "cleanup" /\ x.op = call[c].op /\ x.mode = call[c].mode
            /\ x.owns = call[c].owns /\ x.arg = call[c].arg /\ x.chan = call[c].chan
            /\ x.refused = call[c].refused /\ x.answer = call[c].answer
            /\ x.touched = call[c].touched /\ x.total = call[c].total
            /\ x.filled = call[c].filled /\ call[c].chan # 0
        BY <1>3, <3>2 DEF Follows
      <4> QED BY <1>1, <4>1, Before DEF Local, Fields, Backed, ReadsRight, CreatorRight, HasFile,
              PcsOf, Made, CallRecord, CallOps
    <3> QED BY <3>1, <3>2
  <2>2. Counts(c, x)
    BY <1>1, <1>3, AtEnd DEF Follows, Counts, Flying, Building, delivery
  <2>3. ASSUME FdsAreRight, ~Disowned(c) PROVE Holds(c, x)
    <3>1. c \notin lost /\ OwnFd(x) = 0 /\ x.chan = call[c].chan
      BY <1>1, <1>3, <2>3, AtEnd, Before DEF Follows, OwnFd, HasFile
    <3>2. CASE call[c].owns
      BY <1>1, <2>3, <3>1, <3>2, FdOf, HoldsClosed DEF Destroy, OpeningInv
    <3>3. CASE ~call[c].owns
      BY <1>1, <2>3, <3>1, <3>3, FdOf DEF Destroy, FdsAreRight, Holds
    <3> QED BY <3>2, <3>3, <1>1 DEF CallRecord
  <2> QED BY <1>2, <2>1, <2>2, <2>3, LocalSame
<1>4. /\ OpeningInv' /\ Follows(call'[c], call[c], p)
      /\ \A d \in Calls \ {c} : call'[d] = call[d]
  BY <1>1, <1>2, <1>3, MovesInv
<1>5. ASSUME FdsAreRight, ~Disowned(c) PROVE FdsAreRight'
  <2>1. PICK q : q = call'[c]
    BY Zenon
  <2>2. Holds(c, q)
    BY <1>3, <1>4, <1>5, <2>1
  <2> QED BY <1>2, <1>4, <1>5, <2>1, <2>2, MovesDescriptors
<1>6. CASE Disowned(c)
  <2>1. platform = "macos"
    BY <1>1, <1>6, Before DEF Disowned, Backed, Fields, PcsOf, Made
  <2>2. call[c].owns /\ Close(c, call[c].fd) /\ call[c].fd \in Fds /\ OwnFd(call[c]) = 0
    BY <1>1, <1>6, Before, FdOf DEF Destroy, Disowned, Fields
  <2>3. ASSUME FdsAreRight PROVE astray'
    <3>1. c \notin lost
      BY <1>1, <2>3, Before
    <3>2. call[c].fd # 0
      BY <2>2 DEF Fds
    <3> QED BY <2>2, <2>3, <3>1, <3>2 DEF FdsAreRight, Close
  <2> QED BY <1>4, <1>6, <2>1, <2>3 DEF Strays
<1> QED BY <1>4, <1>5, <1>6

\* The cleanup handler.
LEMMA CleanUpStep ==
  ASSUME OpeningInv, NEW c \in Calls, CleanUp(c)
  PROVE  OpeningInv' /\ (FdsAreRight => FdsAreRight')
<1> DEFINE n == call[c].chan
<1>1. /\ call[c] \in CallRecord /\ call[c].pc = "cleanup" /\ n \in Fds /\ n # 0
      /\ Goes(c, call[c], "done") /\ UNCHANGED <<env, fs, delivery, lost>>
      /\ desc' = [desc EXCEPT ![n] = Unused]
      /\ astray' = (astray \/ desc[n] # Its(c, "chan"))
  <2>1. call[c] \in CallRecord /\ n # 0
    BY Before DEF CleanUp, Fields
  <2>2. n \in 0 .. MaxFd
    BY <2>1 DEF CallRecord
  <2> QED BY <2>1, <2>2 DEF CleanUp, Fds
<1>2. Tables' /\ platform' = platform /\ creator' = creator /\ size' = size
  <2>1. Unused \in {Unused, Foreign} \union [call : Calls, kind : {"file", "chan"}]
    OBVIOUS
  <2> QED BY <1>1, <2>1 DEF OpeningInv, OpeningShape, Tables, env, fs, delivery
<1>3. ASSUME NEW x, Follows(x, call[c], "done")
      PROVE  Fits(c, x)
  <2>1. Counts(c, x)
    BY <1>1, <1>3, AtEnd DEF Counts, Flying, Building, delivery
  <2>2. ASSUME FdsAreRight PROVE Holds(c, x)
    <3>1. c \notin lost /\ OwnFd(call[c]) = 0 /\ OwnFd(x) = 0 /\ x.chan = 0
      BY <1>1, <1>3, <2>2, AtEnd, Before DEF OwnFd, HasFile
    <3>2. \A m \in Fds : m # 0 /\ desc'[m] = IF m = n THEN Unused ELSE desc[m]
      BY <1>1 DEF Fds, OpeningInv, OpeningShape, Tables
    <3>3. desc[n] = Its(c, "chan")
      BY <1>1, <2>2 DEF FdsAreRight
    <3>4. ~astray' /\ lost' = lost
      BY <1>1, <2>2, <3>3 DEF FdsAreRight
    <3>5. \A m \in Fds, d \in Calls :
            /\ d \notin lost => (desc[m] = Its(d, "file") <=> m = OwnFd(call[d]))
            /\ desc[m] = Its(d, "chan") <=> m = call[d].chan
      BY <2>2 DEF FdsAreRight
    <3>6. \A m \in Fds, d \in Calls \ {c} :
            /\ desc'[m] = Its(d, "file") <=> desc[m] = Its(d, "file")
            /\ desc'[m] = Its(d, "chan") <=> desc[m] = Its(d, "chan")
      BY <3>2, <3>3, ItsDiffer
    <3>7. \A m \in Fds : desc'[m] # Its(c, "file") /\ desc'[m] # Its(c, "chan")
      BY <3>1, <3>2, <3>5, ItsDiffer
    <3> QED BY <3>1, <3>2, <3>4, <3>6, <3>7 DEF Holds
  <2> QED BY <1>2, <1>3, <2>1, <2>2, AtEnd, LocalSame DEF Fits
<1> QED BY <1>1, <1>2, <1>3, Moves DEF CallPcs
\* A whole read in progress.
LEMMA WholeBefore ==
  ASSUME OpeningInv, NEW c \in Calls, call[c].pc \in {"stat", "alloc", "read"}
  PROVE  /\ call[c] \in CallRecord /\ call[c].op = "whole" /\ call[c].mode = "r" /\ call[c].owns
         /\ call[c].fd \in Fds /\ OwnFd(call[c]) = call[c].fd /\ call[c].chan = 0
         /\ call[c].answer \notin {"file", "data"}
         /\ Flying(call[c]) /\ (FdsAreRight => c \notin lost)
<1>1. call[c] \in CallRecord /\ call[c].op = "whole" /\ HasFile(call[c]) /\ call[c].owns
  BY Before DEF Fields, PcsOf, Made, HasFile, CallRecord, CallOps
<1> QED BY <1>1, FdOf, Before DEF Fields, Flying, Futures, Disowned

\* A whole read that ends, with the answer a or with its bytes.
LEMMA WholeEnds ==
  ASSUME OpeningInv, NEW c \in Calls, call[c].pc \in {"stat", "alloc", "read"},
         NEW p \in {"raised", "data"}, NEW a \in {"none", "error", "exists"},
         p = "raised" \/ a = call[c].answer,
         p = "data" => call[c].touched \/ call[c].filled = call[c].total,
         a = "exists" => creator # Nobody /\ (creator # c \/ call[c].refused),
         Goes(c, [call[c] EXCEPT !.answer = a], p),
         UNCHANGED <<env, creator, delivery>>,
         size' = size \/ \A d \in Calls \ {c} : call[d].pc \notin {"alloc", "read"},
         size' \in 0 .. MaxSize,
         \/ Close(c, call[c].fd) /\ lost' = lost
         \/ p = "raised" /\ UNCHANGED <<desc, astray>> /\ lost' = lost \union {c}
  PROVE  OpeningInv' /\ (FdsAreRight => FdsAreRight')
<1> DEFINE r == [call[c] EXCEPT !.answer = a]
<1>1. r \in CallRecord /\ p \in CallPcs
  BY WholeBefore DEF CallRecord, CallPcs
<1>2. Tables' /\ platform' = platform /\ creator' = creator
  <2>1. CASE Close(c, call[c].fd) /\ lost' = lost
    BY <2>1, TablesClosed
  <2>2. CASE UNCHANGED <<desc, astray>> /\ lost' = lost \union {c}
    BY <2>2 DEF OpeningInv, OpeningShape, Tables, env, delivery
  <2> QED BY <2>1, <2>2
<1>3. ASSUME NEW x, Follows(x, r, p)
      PROVE  Fits(c, x)
  <2>0. /\ x.pc = p /\ x.op = call[c].op /\ x.mode = call[c].mode /\ x.owns = call[c].owns
        /\ x.arg = call[c].arg /\ x.fd = call[c].fd /\ x.chan = call[c].chan
        /\ x.refused = call[c].refused /\ x.answer = a /\ x.touched = call[c].touched
        /\ x.total = call[c].total /\ x.filled = call[c].filled
    BY <1>3, WholeBefore DEF Follows, CallRecord
  <2>1. Local(c, x)'
    <3>1. Fields(x)'
      BY <2>0, Before, WholeBefore DEF Fields, HasFile, PcsOf
    <3>2. Backed(x)'
      BY <2>0, Before, WholeBefore DEF Backed, Native
    <3>3. ReadsRight(x)'
      BY <2>0, Before, WholeBefore DEF ReadsRight
    <3>4. CreatorRight(c, x)'
      BY <2>0, <1>2, Before, WholeBefore DEF CreatorRight, HasFile
    <3> QED BY <3>1, <3>2, <3>3, <3>4 DEF Local
  <2>2. Counts(c, x)
    BY <2>0, WholeBefore DEF Counts, Flying, Futures, Building, delivery
  <2>3. ASSUME FdsAreRight PROVE Holds(c, x)
    <3>1. OwnFd(x) = 0 /\ x.chan = call[c].chan /\ c \notin lost
      BY <2>0, <2>3, WholeBefore DEF OwnFd, HasFile
    <3>2. CASE Close(c, call[c].fd) /\ lost' = lost
      BY <2>3, <3>1, <3>2, WholeBefore, HoldsClosed DEF OpeningInv
    <3>3. CASE p = "raised" /\ UNCHANGED <<desc, astray>> /\ lost' = lost \union {c}
      BY <2>0, <2>3, <3>1, <3>3, WholeBefore DEF FdsAreRight, Holds
    <3> QED BY <3>2, <3>3
  <2> QED BY <2>1, <2>2, <2>3 DEF Fits
<1> QED BY <1>1, <1>2, <1>3, WholeBefore, Moves

\* fstat() of a whole read.
LEMMA StatWholeStep ==
  ASSUME OpeningInv, NEW c \in Calls, StatWhole(c)
  PROVE  OpeningInv' /\ (FdsAreRight => FdsAreRight')
<1>1. call[c].pc = "stat" /\ UNCHANGED <<env, creator, delivery, lost>>
  BY DEF StatWhole
<1>2. CASE /\ Close(c, call[c].fd)
           /\ Goes(c, [call[c] EXCEPT !.answer = "error"], "raised")
           /\ UNCHANGED size
  BY <1>1, <1>2, WholeEnds DEF OpeningInv, OpeningShape, Tables
<1>3. CASE /\ size' \in IF \E d \in Calls : Reading(d) THEN {size} ELSE 0 .. MaxSize
           /\ Goes(c, [call[c] EXCEPT !.total = size'], "alloc")
           /\ UNCHANGED <<desc, astray>>
  <2>1. PICK s : s = size'
    BY Zenon
  <2> DEFINE r == [call[c] EXCEPT !.total = s]
  <2>2. Goes(c, r, "alloc") /\ s \in 0 .. MaxSize
    BY <1>3, <2>1 DEF OpeningInv, OpeningShape, Tables
  <2>3. r \in CallRecord
    BY <1>1, <2>2, WholeBefore DEF CallRecord
  <2>4. Tables' /\ platform' = platform /\ creator' = creator
    BY <1>1, <1>3, <2>1, <2>2 DEF OpeningInv, OpeningShape, Tables, env, delivery
  <2>5. size' = size \/ \A d \in Calls \ {c} : call[d].pc \notin {"alloc", "read"}
    BY <1>3 DEF Reading
  <2>6. ASSUME NEW x, Follows(x, r, "alloc")
        PROVE  Fits(c, x)
    <3>0. /\ x.pc = "alloc" /\ x.op = call[c].op /\ x.mode = call[c].mode /\ x.owns = call[c].owns
          /\ x.arg = call[c].arg /\ x.fd = call[c].fd /\ x.chan = call[c].chan
          /\ x.refused = call[c].refused /\ x.answer = call[c].answer
          /\ x.touched = call[c].touched /\ x.total = s /\ x.filled = call[c].filled
      BY <1>1, <2>6, WholeBefore DEF Follows, CallRecord
    <3>1. Local(c, x)'
      <4>1. Fields(x)'
        BY <1>1, <3>0, Before, WholeBefore DEF Fields, HasFile, PcsOf
      <4>2. Backed(x)'
        BY <3>0, Before, <1>1, WholeBefore DEF Backed, Native
      <4>3. ReadsRight(x)'
        BY <1>1, <2>1, <2>2, <2>4, <3>0, Before, WholeBefore DEF ReadsRight
      <4>4. CreatorRight(c, x)'
        BY <1>1, <2>4, <3>0, Before, WholeBefore DEF CreatorRight, HasFile
      <4> QED BY <4>1, <4>2, <4>3, <4>4 DEF Local
    <3>2. Counts(c, x)
      BY <1>1, <3>0, WholeBefore DEF Counts, Flying, Futures, Building, delivery
    <3>3. ASSUME FdsAreRight PROVE Holds(c, x)
      <4>1. Keeping(c, x)
        BY <1>1, <3>0, <3>3, WholeBefore DEF Keeping, OwnFd, HasFile
      <4> QED BY <1>1, <1>3, <3>3, <4>1, HoldsKept DEF ghosts
    <3> QED BY <3>1, <3>2, <3>3 DEF Fits
  <2> QED BY <1>1, <2>2, <2>3, <2>4, <2>5, <2>6, Moves DEF CallPcs
<1> QED BY <1>2, <1>3 DEF StatWhole

\* The buffer of a whole read.
LEMMA AllocateWholeStep ==
  ASSUME OpeningInv, NEW c \in Calls, AllocateWhole(c)
  PROVE  OpeningInv' /\ (FdsAreRight => FdsAreRight')
<1>1. call[c].pc = "alloc" /\ UNCHANGED <<env, desc, creator, delivery, astray>>
  BY DEF AllocateWhole
<1>2. CASE Goes(c, call[c], "read") /\ UNCHANGED lost /\ UNCHANGED size
  <2>1. ASSUME NEW x, Follows(x, call[c], "read")
        PROVE  Local(c, x) /\ Counts(c, x) /\ (FdsAreRight => Keeping(c, x))
    <3>1. Local(c, x)
      BY <1>1, <2>1, Before, WholeBefore DEF Local, Fields, Backed, ReadsRight, CreatorRight,
         HasFile, PcsOf, Made, Follows, CallRecord, CallOps
    <3>2. Counts(c, x)
      BY <1>1, <2>1, WholeBefore DEF Follows, Counts, Flying, Futures, delivery
    <3>3. FdsAreRight => Keeping(c, x)
      BY <1>1, <2>1, WholeBefore DEF Follows, Keeping, OwnFd, HasFile
    <3> QED BY <3>1, <3>2, <3>3
  <2> QED BY <1>1, <1>2, <2>1, WholeBefore, QuietMoves
          DEF CallPcs, OpeningInv, OpeningShape, Tables, delivery, fs, ghosts
<1>3. CASE /\ Goes(c, [call[c] EXCEPT !.answer = "error"], "raised")
           /\ lost' = lost \union {c}
           /\ SizeAfter(c)
  <2>1. size' \in 0 .. MaxSize
    BY <1>3, OpeningAssumption DEF SizeAfter, OpeningInv, OpeningShape, Tables
  <2>2. size' = size \/ \A d \in Calls \ {c} : call[d].pc \notin {"alloc", "read"}
    BY <1>3 DEF SizeAfter, Reading
  <2> QED BY <1>1, <1>3, <2>1, <2>2, WholeEnds
<1> QED BY <1>2, <1>3 DEF AllocateWhole

\* The end of a whole read.
LEMMA CloseWholeStep ==
  ASSUME OpeningInv, NEW c \in Calls, CloseWhole(c)
  PROVE  OpeningInv' /\ (FdsAreRight => FdsAreRight')
<1>1. /\ call[c].pc = "read" /\ UNCHANGED <<env, creator, delivery, lost>>
      /\ Close(c, call[c].fd) /\ SizeAfter(c)
  BY DEF CloseWhole
<1>2. size' \in 0 .. MaxSize
  BY <1>1, OpeningAssumption DEF SizeAfter, OpeningInv, OpeningShape, Tables
<1>3. size' = size \/ \A d \in Calls \ {c} : call[d].pc \notin {"alloc", "read"}
  BY <1>1 DEF SizeAfter, Reading
<1>4. CASE Goes(c, [call[c] EXCEPT !.answer = "error"], "raised")
  BY <1>1, <1>2, <1>3, <1>4, WholeEnds
<1>5. CASE /\ call[c].filled = call[c].total \/ size <= call[c].filled
           /\ Goes(c, call[c], "data")
  <2> DEFINE a == call[c].answer
  <2>1. a \in {"none", "error", "exists"} /\ [call[c] EXCEPT !.answer = a] = call[c]
    BY <1>1, WholeBefore DEF CallRecord
  <2>2. call[c].touched \/ call[c].filled = call[c].total
    <3>1. call[c].filled <= call[c].total /\ (~call[c].touched => call[c].total = size)
      BY <1>1, Before DEF ReadsRight
    <3>2. call[c].filled \in 0 .. MaxSize /\ call[c].total \in 0 .. MaxSize
      BY <1>1, WholeBefore DEF CallRecord
    <3> QED BY <1>5, <3>1, <3>2
  <2>3. a = "exists" => creator # Nobody /\ (creator # c \/ call[c].refused)
    BY Before DEF CreatorRight
  <2>4. Goes(c, [call[c] EXCEPT !.answer = a], "data")
    BY <1>5, <2>1
  <2> QED BY <1>1, <1>2, <1>3, <2>1, <2>2, <2>3, <2>4, WholeEnds
<1> QED BY <1>4, <1>5 DEF CloseWhole
------------------------------------------------------------------------------
(* Delivery.                                                               *)

\* A call whose future is to be given its answer.
LEMMA FinishedBefore ==
  ASSUME OpeningInv, NEW c \in Calls, Finished(c)
  PROVE  /\ call[c] \in CallRecord /\ call[c].pc \in {"built", "data", "raised"}
         /\ call[c].op \in {"aopen", "native", "whole"} /\ Flying(call[c])
         /\ call[c].pc = "built" => HasFile(call[c]) /\ call[c].op # "whole"
         /\ call[c].pc # "built" => call[c].chan = 0 /\ OwnFd(call[c]) = 0
         /\ call[c].pc = "data" => call[c].op = "whole"
         /\ call[c].answer \notin {"file", "data"}
<1>1. /\ call[c] \in CallRecord /\ call[c].pc \in {"built", "data", "raised"}
      /\ call[c].op \in {"aopen", "native", "whole"}
  BY Before DEF Finished, Futures
<1>2. /\ call[c].pc = "built" => HasFile(call[c]) /\ call[c].op # "whole"
      /\ call[c].pc # "built" => call[c].chan = 0 /\ OwnFd(call[c]) = 0
      /\ call[c].pc = "data" => call[c].op = "whole"
      /\ call[c].answer \notin {"file", "data"}
  BY <1>1, Before DEF Fields, PcsOf, HasFile, OwnFd, Made
<1> QED BY <1>1, <1>2 DEF Flying, Futures, Building

\* PyOperation::complete.
LEMMA CompleteStep ==
  ASSUME OpeningInv, NEW c \in Calls, Complete(c)
  PROVE  OpeningInv' /\ (FdsAreRight => FdsAreRight')
<1>1. /\ Finished(c) /\ batch' = batch \union {c} /\ outstanding' = outstanding - 1
      /\ drain' = (drain \/ outstanding = 1) /\ Answered(c, "batched")
      /\ UNCHANGED <<env, desc, fs, thrown, ghosts>>
  BY DEF Complete
<1>2. PICK a : a = CASE call[c].pc = "built" -> "file" [] call[c].pc = "data" -> "data"
                     [] OTHER -> call[c].answer
  BY Zenon
<1> DEFINE r == [call[c] EXCEPT !.answer = a]
<1>3. Goes(c, r, "batched")
  BY <1>1, <1>2, Zenon DEF Answered
<1>4. /\ a \in {"none", "error", "exists", "data", "file"} /\ (a = "file" <=> call[c].pc = "built")
      /\ a = "data" <=> call[c].pc = "data"
      /\ call[c].pc = "raised" => a = call[c].answer
  BY <1>1, <1>2, FinishedBefore DEF CallRecord
<1>5. r \in CallRecord
  BY <1>1, <1>4, FinishedBefore DEF CallRecord
<1>6. ASSUME NEW x, Follows(x, r, "batched")
      PROVE  Local(c, x) /\ Counts(c, x) /\ (FdsAreRight => Keeping(c, x))
  <2>0. /\ x.pc = "batched" /\ x.op = call[c].op /\ x.mode = call[c].mode /\ x.owns = call[c].owns
        /\ x.arg = call[c].arg /\ x.fd = call[c].fd /\ x.chan = call[c].chan
        /\ x.refused = call[c].refused /\ x.answer = a /\ x.touched = call[c].touched
        /\ x.total = call[c].total /\ x.filled = call[c].filled
    BY <1>1, <1>6, FinishedBefore DEF Follows, CallRecord
  <2>1. Local(c, x)
    <3>1. Fields(x)
      BY <1>1, <1>4, <2>0, Before, FinishedBefore DEF Fields, HasFile, PcsOf
    <3>2. Backed(x)
      BY <1>1, <2>0, Before, FinishedBefore DEF Backed
    <3>3. ReadsRight(x)
      BY <1>1, <1>4, <2>0, Before, FinishedBefore DEF ReadsRight
    <3>4. CreatorRight(c, x)
      BY <1>1, <1>4, <2>0, Before, FinishedBefore DEF CreatorRight, HasFile
    <3> QED BY <3>1, <3>2, <3>3, <3>4 DEF Local
  <2>2. Counts(c, x)
    BY <1>1, <2>0, FinishedBefore DEF Counts, Flying, Building
  <2>3. ASSUME FdsAreRight PROVE Keeping(c, x)
    BY <1>1, <1>4, <2>0, <2>3, Before, FinishedBefore DEF Keeping, OwnFd, HasFile
  <2> QED BY <2>1, <2>2, <2>3
<1> QED BY <1>1, <1>3, <1>5, <1>6, FinishedBefore, QuietMoves
        DEF CallPcs, OpeningInv, OpeningShape, Tables

\* A native open that the loop's thread ends itself.
LEMMA CompleteInlineStep ==
  ASSUME OpeningInv, NEW c \in Calls, CompleteInline(c)
  PROVE  OpeningInv' /\ (FdsAreRight => FdsAreRight')
<1>1. /\ Finished(c) /\ call[c].op = "native" /\ OpCompleted(batch)
      /\ UNCHANGED <<env, desc, fs, batch, thrown, ghosts>>
  BY DEF CompleteInline
<1>2. PICK a : a = IF call[c].pc = "built" THEN "file" ELSE call[c].answer
  BY Zenon
<1> DEFINE r == [call[c] EXCEPT !.answer = a]
<1>3. PICK cancelled \in BOOLEAN : Goes(c, r, Given(r, cancelled))
  BY <1>2, Zenon DEF CompleteInline
<1>4. PICK p : p = Given(r, cancelled)
  BY Zenon
<1>5. /\ a \in {"none", "error", "exists", "data", "file"} /\ (a = "file" <=> call[c].pc = "built")
      /\ r \in CallRecord /\ r.answer = a
  BY <1>1, <1>2, FinishedBefore DEF CallRecord
<1>6. /\ call[c].pc = "built" => p \in {"held", "dropped"}
      /\ call[c].pc # "built" => p = "done"
  BY <1>4, <1>5 DEF Given
<1>7. ASSUME NEW x, Follows(x, r, p)
      PROVE  Local(c, x) /\ Counts(c, x) /\ (FdsAreRight => Keeping(c, x))
  <2>1. CASE call[c].pc = "built"
    <3>0. /\ x.pc \in {"held", "dropped"} /\ x.op = call[c].op /\ x.mode = call[c].mode
          /\ x.owns = call[c].owns /\ x.arg = call[c].arg /\ x.fd = call[c].fd
          /\ x.chan = call[c].chan /\ x.refused = call[c].refused /\ x.answer = "file"
          /\ x.touched = call[c].touched /\ x.total = call[c].total /\ x.filled = call[c].filled
      BY <1>5, <1>6, <1>7, <2>1, <1>1, FinishedBefore DEF Follows, CallRecord
    <3>1. Local(c, x)
      BY <1>1, <2>1, <3>0, Before, FinishedBefore DEF Local, Fields, Backed, ReadsRight,
         CreatorRight, HasFile, PcsOf
    <3>2. Counts(c, x)
      BY <1>1, <3>0, FinishedBefore DEF Counts, Flying, Building, OpCompleted
    <3>3. ASSUME FdsAreRight PROVE Keeping(c, x)
      BY <1>1, <2>1, <3>0, <3>3, Before, FinishedBefore DEF Keeping, OwnFd, HasFile
    <3> QED BY <3>1, <3>2, <3>3
  <2>2. CASE call[c].pc # "built"
    <3>1. Counts(c, x)
      BY <1>1, <1>6, <1>7, <2>2, AtEnd, FinishedBefore DEF Counts, OpCompleted
    <3>2. FdsAreRight => Keeping(c, x)
      BY <1>1, <1>6, <1>7, <2>2, AtEnd, FinishedBefore DEF Keeping
    <3> QED BY <1>6, <1>7, <2>2, <3>1, <3>2, AtEnd
  <2> QED BY <2>1, <2>2
<1>8. Goes(c, r, p) /\ p \in CallPcs /\ drain' \in BOOLEAN
  BY <1>1, <1>3, <1>4, <1>6 DEF CallPcs, OpCompleted, OpeningInv, OpeningShape, Tables
<1> QED BY <1>1, <1>5, <1>7, <1>8, FinishedBefore, QuietMoves
        DEF OpeningInv, OpeningShape, Tables
\* A step that moves no operation in or out of flight.
LEMMA SameCount ==
  ASSUME OutstandingExact, UNCHANGED <<outstanding, thrown>>,
         \A c \in Calls : InFlight(c)' <=> InFlight(c)
  PROVE  OutstandingExact'
<1>1. PICK G : G = {c \in Calls : InFlight(c)}
  BY Zenon
<1>2. {c \in Calls : InFlight(c)}' = G
  BY <1>1
<1> QED BY <1>1, <1>2 DEF OutstandingExact

\* The call c has as q what it had, and is lost only at its end.
Has(c, q) == /\ OwnFd(q)' = OwnFd(call[c]) /\ q.chan = call[c].chan
             /\ c \in lost => q.pc \in {"raised", "batched", "done"} /\ q.answer # "file"

\* A step after which every call has what it had.
LEMMA FdsKept ==
  ASSUME FdsAreRight, lost \subseteq Calls, UNCHANGED <<platform, ghosts>>,
         \A c \in Calls, n \in Fds :
            /\ desc'[n] = Its(c, "file") <=> desc[n] = Its(c, "file")
            /\ desc'[n] = Its(c, "chan") <=> desc[n] = Its(c, "chan"),
         \A c \in Calls : \E q : q = call'[c] /\ Has(c, q)
  PROVE  FdsAreRight'
<1>1. ASSUME NEW c \in Calls
      PROVE  /\ OwnFd(call[c])' = OwnFd(call[c]) /\ call'[c].chan = call[c].chan
             /\ c \in lost => /\ call'[c].pc \in {"raised", "batched", "done"}
                              /\ call'[c].answer # "file"
  <2>1. PICK q : q = call'[c] /\ Has(c, q)
    OBVIOUS
  <2>2. OwnFd(q)' = OwnFd(call[c])'
    BY <2>1 DEF OwnFd, HasFile
  <2> QED BY <2>1, <2>2 DEF Has
<1> QED BY <1>1 DEF FdsAreRight, ghosts

\* What the drain makes of a call in the batch.
LEMMA DrainedOne ==
  ASSUME OpeningInv, NEW c \in batch, NEW x, NEW p, Follows(x, call[c], p),
         \/ call[c].answer = "file" /\ p \in {"held", "dropped"}
         \/ call[c].answer # "file" /\ p = "done"
  PROVE  /\ Local(c, x) /\ ~Flying(x) /\ ~Flying(call[c]) /\ OwnFd(x) = OwnFd(call[c])
         /\ x.chan = call[c].chan
         /\ FdsAreRight /\ c \in lost => x.pc = "done" /\ x.answer # "file"
<1>1. c \in Calls /\ call[c] \in CallRecord /\ call[c].pc = "batched"
  BY Before DEF OpeningInv, OpeningShape, Tables, Tallied
<1>2. CASE call[c].answer = "file"
  <2>1. p \in {"held", "dropped"}
    BY <1>2
  <2>2. /\ x.pc \in {"held", "dropped"} /\ x.op = call[c].op /\ x.mode = call[c].mode
        /\ x.owns = call[c].owns /\ x.arg = call[c].arg /\ x.fd = call[c].fd
        /\ x.chan = call[c].chan /\ x.refused = call[c].refused /\ x.answer = "file"
        /\ x.touched = call[c].touched /\ x.total = call[c].total /\ x.filled = call[c].filled
    BY <1>2, <2>1 DEF Follows
  <2>3. call[c].op \in {"aopen", "native"}
    BY <1>1, <1>2, Before DEF Fields, PcsOf, Made, CallRecord, CallOps
  <2>4. Local(c, x)
    BY <1>1, <1>2, <2>2, <2>3, Before DEF Local, Fields, Backed, ReadsRight, CreatorRight,
       HasFile, PcsOf
  <2> QED BY <1>1, <1>2, <2>2, <2>4, Before DEF Flying, Building, OwnFd, HasFile
<1>3. CASE call[c].answer # "file"
  <2>1. p = "done"
    BY <1>3
  <2>2. call[c].chan = 0 /\ OwnFd(call[c]) = 0
    BY <1>1, <1>3, Before DEF Fields, HasFile, OwnFd
  <2> QED BY <1>1, <2>1, <2>2, AtEnd DEF Flying, Building
<1> QED BY <1>2, <1>3

\* The drain of the batcher.
LEMMA DrainStep ==
  ASSUME OpeningInv, Drain
  PROVE  OpeningInv' /\ (FdsAreRight => FdsAreRight')
<1>1. PICK cancelled \in SUBSET batch :
        call' = [c \in Calls |-> IF c \in batch
                                THEN At(call[c], Given(call[c], c \in cancelled))
                                ELSE call[c]]
  BY Zenon DEF Drain
<1>2. drain' = FALSE /\ batch' = {} /\ UNCHANGED <<env, desc, fs, outstanding, thrown, ghosts>>
  BY DEF Drain
<1>3. Tables' /\ platform' = platform /\ creator' = creator /\ size' = size
      /\ outstanding' = outstanding /\ thrown' = thrown
  BY <1>2 DEF OpeningInv, OpeningShape, Tables, env, fs, ghosts
<1>4. ASSUME NEW c \in Calls
      PROVE  \E q : /\ q = call'[c] /\ q \in CallRecord /\ Local(c, q)'
                    /\ Flying(q) <=> Flying(call[c])
                    /\ c \in thrown => q.pc = "done"
                    /\ FdsAreRight => Has(c, q)
  <2>1. CASE c \in batch
    <3>1. call[c] \in CallRecord /\ call[c].pc = "batched" /\ c \notin thrown
      BY <2>1, Before DEF OpeningInv, Tallied
    <3>2. PICK p : p = Given(call[c], c \in cancelled)
      BY Zenon
    <3>3. /\ \/ call[c].answer = "file" /\ p \in {"held", "dropped"}
             \/ call[c].answer # "file" /\ p = "done"
          /\ p \in CallPcs
      BY <3>2 DEF Given, CallPcs
    <3>4. call'[c] = At(call[c], p)
      BY <1>1, <2>1, <3>2, Zenon
    <3>5. PICK x : x = At(call[c], p)
      BY Zenon
    <3>F. Follows(x, call[c], p)
      BY <3>1, <3>3, <3>5, AtFollows
    <3>6. /\ Local(c, x) /\ ~Flying(x) /\ ~Flying(call[c]) /\ OwnFd(x) = OwnFd(call[c])
          /\ x.chan = call[c].chan
          /\ FdsAreRight /\ c \in lost => x.pc = "done" /\ x.answer # "file"
          /\ x \in CallRecord
      BY <2>1, <3>3, <3>F, DrainedOne DEF Follows
    <3>7. Local(c, x)' /\ OwnFd(x)' = OwnFd(x)
      BY <1>3, <3>6, LocalSame DEF OwnFd
    <3> QED BY <3>1, <3>4, <3>5, <3>6, <3>7 DEF Has
  <2>2. CASE c \notin batch
    <3>1. PICK x : x = call[c]
      OBVIOUS
    <3>2. call'[c] = x /\ x \in CallRecord /\ Local(c, x)
      BY <1>1, <2>2, <3>1, Before DEF OpeningInv, Locals
    <3>3. Local(c, x)' /\ OwnFd(x)' = OwnFd(x)
      BY <1>3, <3>2, LocalSame DEF OwnFd
    <3> QED BY <3>1, <3>2, <3>3, Before DEF Has, OpeningInv, Tallied
  <2> QED BY <2>1, <2>2
<1>5. OpeningInv'
  <2>1. \A c \in Calls : /\ call'[c] \in CallRecord /\ Local(c, call[c])'
                         /\ InFlight(c)' <=> InFlight(c)
                         /\ c \in thrown => call'[c].pc = "done"
    <3>1. SUFFICES ASSUME NEW c \in Calls
                   PROVE  /\ call'[c] \in CallRecord /\ Local(c, call[c])'
                          /\ InFlight(c)' <=> InFlight(c)
                          /\ c \in thrown => call'[c].pc = "done"
      BY Zenon
    <3>2. PICK q : /\ q = call'[c] /\ q \in CallRecord /\ Local(c, q)'
                   /\ Flying(q) <=> Flying(call[c])
                   /\ c \in thrown => q.pc = "done"
      BY <1>4
    <3>3. InFlight(c)' <=> Flying(q)
      BY <3>2 DEF InFlight, Flying
    <3> QED BY <3>2, <3>3 DEF InFlight, Flying
  <2>2. call' \in [Calls -> CallRecord]
    BY <1>1, <2>1
  <2>3. OutstandingExact'
    BY <1>2, <2>1, SameCount DEF OpeningInv, Tallied
  <2> QED BY <1>2, <1>3, <2>1, <2>2, <2>3 DEF OpeningInv, OpeningShape, Locals, Tallied
<1>6. ASSUME FdsAreRight PROVE FdsAreRight'
  <2>1. \A c \in Calls : \E q : q = call'[c] /\ Has(c, q)
    BY <1>4, <1>6
  <2> QED BY <1>2, <1>3, <1>6, <2>1, FdsKept DEF OpeningInv, OpeningShape, Tables, ghosts
<1> QED BY <1>5, <1>6
------------------------------------------------------------------------------
(* The environment, and the theorems.                                      *)

\* A step that moves no call.
LEMMA Rests ==
  ASSUME OpeningInv, Tables', platform' = platform, UNCHANGED <<outstanding, thrown, batch>>,
         \A c \in Calls : \E t \in BOOLEAN : /\ call'[c] = [call[c] EXCEPT !.touched = t]
                                             /\ call[c].touched => t
                                             /\ size' = size \/ t \/ ~Reading(c),
         call' = [c \in Calls |-> call'[c]],
         creator' = creator \/ (creator = Nobody /\ creator' = Other)
  PROVE  OpeningInv'
<1>1. ASSUME NEW c \in Calls
      PROVE  /\ call'[c] \in CallRecord /\ Local(c, call[c])'
             /\ call'[c].op = call[c].op /\ call'[c].pc = call[c].pc
  <2>1. PICK t \in BOOLEAN : /\ call'[c] = [call[c] EXCEPT !.touched = t]
                             /\ call[c].touched => t
                             /\ size' = size \/ t \/ ~Reading(c)
    OBVIOUS
  <2>2. PICK x : x = call'[c]
    BY Zenon
  <2>3. call[c] \in CallRecord /\ Local(c, call[c])
    BY Before DEF OpeningInv, Locals
  <2>4. x = [call[c] EXCEPT !.touched = t] /\ x \in CallRecord
        /\ x.op = call[c].op /\ x.pc = call[c].pc
    BY <2>1, <2>2, <2>3 DEF CallRecord
  <2>5. creator' = creator \/ (creator = Nobody /\ creator' \notin {c, Nobody})
    BY OpeningAssumption DEF Calls
  <2>6. size' = size \/ t \/ call[c].pc \notin {"alloc", "read"}
    BY <2>1 DEF Reading
  <2>7. Local(c, x)'
    BY <2>1, <2>3, <2>4, <2>5, <2>6, LocalStays DEF OpeningInv
  <2> QED BY <2>2, <2>4, <2>7
<1>2. \A c \in Calls : InFlight(c)' <=> InFlight(c)
  BY <1>1 DEF InFlight
<1>3. Tallied'
  BY <1>1, <1>2, SameCount DEF OpeningInv, OpeningShape, Tables, Tallied
<1>4. call' \in [Calls -> CallRecord]
  <2>1. PICK f : f = call'
    BY Zenon
  <2>2. f = [c \in Calls |-> f[c]] /\ \A c \in Calls : f[c] \in CallRecord
    BY <1>1, <2>1
  <2> QED BY <2>1, <2>2
<1> QED BY <1>1, <1>3, <1>4 DEF OpeningInv, OpeningShape, Locals

\* A step of the environment leaves every call what it had.
LEMMA RestsDescriptors ==
  ASSUME OpeningInv, FdsAreRight, UNCHANGED <<platform, ghosts>>,
         \A c \in Calls : \E t \in BOOLEAN : call'[c] = [call[c] EXCEPT !.touched = t],
         desc' = desc \/ \E n \in Fds : desc[n] = Foreign /\ desc' = [desc EXCEPT ![n] = Unused]
  PROVE  FdsAreRight'
<1>1. ASSUME NEW c \in Calls
      PROVE  \E q : q = call'[c] /\ Has(c, q)
  <2>1. PICK t \in BOOLEAN : call'[c] = [call[c] EXCEPT !.touched = t]
    OBVIOUS
  <2>2. PICK q : q = call'[c]
    BY Zenon
  <2>3. call[c] \in CallRecord
    BY Before
  <2>4. /\ q.chan = call[c].chan /\ q.op = call[c].op /\ q.pc = call[c].pc
        /\ q.answer = call[c].answer /\ q.owns = call[c].owns /\ q.backend = call[c].backend
        /\ q.arg = call[c].arg /\ q.fd = call[c].fd /\ q.refused = call[c].refused
    BY <2>1, <2>2, <2>3 DEF CallRecord
  <2>5. OwnFd(q)' = OwnFd(call[c])
    BY <2>4 DEF OwnFd, HasFile
  <2> QED BY <2>2, <2>4, <2>5, Before DEF Has
<1>2. \A c \in Calls, n \in Fds :
         /\ desc'[n] = Its(c, "file") <=> desc[n] = Its(c, "file")
         /\ desc'[n] = Its(c, "chan") <=> desc[n] = Its(c, "chan")
  BY ItsDiffer DEF OpeningInv, OpeningShape, Tables
<1> QED BY <1>1, <1>2, FdsKept DEF OpeningInv, OpeningShape, Tables

\* configure(), the other processes, the program's own close(), or nothing.
LEMMA EnvironmentStep ==
  ASSUME OpeningInv,
         \/ Configure \/ OtherCreates \/ OtherResizes \/ \E n \in Fds : ForeignClose(n)
         \/ UNCHANGED openingVars
  PROVE  OpeningInv' /\ (FdsAreRight => FdsAreRight')
<1>1. call \in [Calls -> CallRecord]
  BY DEF OpeningInv, OpeningShape
<1>2. ASSUME UNCHANGED call
      PROVE  /\ \A c \in Calls : \E t \in BOOLEAN : /\ call'[c] = [call[c] EXCEPT !.touched = t]
                                                    /\ call[c].touched => t
             /\ call' = [c \in Calls |-> call'[c]]
  <2>1. ASSUME NEW c \in Calls
        PROVE  /\ call'[c] = [call[c] EXCEPT !.touched = call[c].touched]
               /\ call[c].touched \in BOOLEAN
    BY <1>1, <1>2 DEF CallRecord
  <2>2. call' = [c \in Calls |-> call'[c]]
    BY <1>1, <1>2
  <2> QED BY <2>1, <2>2
<1>3. CASE Configure
  <2>1. /\ UNCHANGED <<platform, ghosts, outstanding, thrown, batch, call, size, creator, desc>>
        /\ Tables'
    BY <1>3 DEF Configure, fs, delivery, ghosts, OpeningInv, OpeningShape, Tables
  <2>2. OpeningInv'
    BY <1>2, <2>1, Rests
  <2> QED BY <1>2, <2>1, <2>2, RestsDescriptors
<1>4. CASE OtherCreates
  <2>1. /\ UNCHANGED <<platform, ghosts, outstanding, thrown, batch, call, size, desc>>
        /\ Tables' /\ creator = Nobody /\ creator' = Other
    BY <1>4 DEF OtherCreates, env, delivery, ghosts, OpeningInv, OpeningShape, Tables
  <2>2. OpeningInv'
    BY <1>2, <2>1, Rests
  <2> QED BY <1>2, <2>1, <2>2, RestsDescriptors
<1>5. CASE OtherResizes
  <2>1. /\ UNCHANGED <<platform, ghosts, outstanding, thrown, batch, creator, desc>>
        /\ Tables'
    BY <1>5 DEF OtherResizes, env, delivery, ghosts, OpeningInv, OpeningShape, Tables
  <2>2. call' = [c \in Calls |-> [call[c] EXCEPT !.touched = call[c].touched \/ Reading(c)]]
    BY <1>5, Zenon DEF OtherResizes
  <2>3. ASSUME NEW c \in Calls
        PROVE  \E t \in BOOLEAN : /\ call'[c] = [call[c] EXCEPT !.touched = t]
                                  /\ call[c].touched => t
                                  /\ size' = size \/ t \/ ~Reading(c)
    <3>1. call'[c] = [call[c] EXCEPT !.touched = call[c].touched \/ Reading(c)]
      BY <2>2, Zenon
    <3>2. call[c].touched \in BOOLEAN
      BY <1>1 DEF CallRecord
    <3>3. (call[c].touched \/ Reading(c)) \in BOOLEAN
      BY <3>2
    <3> QED BY <3>1, <3>3
  <2>4. call' = [c \in Calls |-> call'[c]]
    <3>1. PICK f : f = [c \in Calls |-> [call[c] EXCEPT !.touched =
                                           call[c].touched \/ Reading(c)]]
      BY Zenon
    <3>2. f = [c \in Calls |-> f[c]]
      BY <3>1, Zenon
    <3> QED BY <2>2, <3>1, <3>2, Zenon
  <2>5. OpeningInv'
    BY <2>1, <2>3, <2>4, Rests
  <2>6. \A c \in Calls : \E t \in BOOLEAN : call'[c] = [call[c] EXCEPT !.touched = t]
    BY <2>3
  <2> QED BY <2>1, <2>5, <2>6, RestsDescriptors
<1>6. ASSUME NEW n \in Fds, ForeignClose(n)
      PROVE  OpeningInv' /\ (FdsAreRight => FdsAreRight')
  <2>1. /\ UNCHANGED <<platform, ghosts, outstanding, thrown, batch, call, size, creator>>
        /\ Tables' /\ desc[n] = Foreign /\ desc' = [desc EXCEPT ![n] = Unused]
    BY <1>6 DEF ForeignClose, env, fs, delivery, ghosts, OpeningInv, OpeningShape, Tables
  <2>2. OpeningInv'
    BY <1>2, <2>1, Rests
  <2> QED BY <1>2, <2>1, <2>2, RestsDescriptors
<1>7. CASE UNCHANGED openingVars
  <2>1. /\ UNCHANGED <<platform, ghosts, outstanding, thrown, batch, call, size, creator, desc>>
        /\ Tables'
    BY <1>7 DEF openingVars, env, fs, delivery, ghosts, OpeningInv, OpeningShape, Tables
  <2>2. OpeningInv'
    BY <1>2, <2>1, Rests
  <2> QED BY <1>2, <2>1, <2>2, RestsDescriptors
<1> QED BY <1>3, <1>4, <1>5, <1>6, <1>7

\* Before the first call.
LEMMA OpeningStarts ==
  ASSUME OpeningInit
  PROVE  OpeningInv /\ FdsAreRight
<1>1. /\ call = [c \in Calls |-> NoCall] /\ desc = [n \in Fds |-> Unused]
      /\ creator \in {Nobody, Other} /\ size = 0 /\ batch = {} /\ thrown = {} /\ lost = {}
      /\ outstanding = 0 /\ astray = FALSE
  BY DEF OpeningInit
<1>2. PICK x : x = NoCall
  OBVIOUS
<1>3. /\ x \in CallRecord /\ x.op = "none" /\ x.mode = "r" /\ x.pc = "new" /\ x.arg = 0
      /\ x.chan = 0 /\ x.owns /\ x.answer = "none" /\ ~x.refused /\ x.total = 0 /\ x.filled = 0
  BY <1>2, NewRecord DEF NoCall
<1>4. \A c \in Calls : call[c] = x
  BY <1>1, <1>2
<1>5. OpeningShape
  <2>1. call \in [Calls -> CallRecord] /\ 0 \in 0 .. MaxSize
    BY <1>1, NewRecord, OpeningAssumption
  <2>2. Tables
    BY <1>1, <2>1 DEF OpeningInit, Tables
  <2> QED BY <1>1, <2>1, <2>2 DEF OpeningShape
<1>6. ASSUME NEW c \in Calls PROVE Local(c, x)
  BY <1>1, <1>3, OpeningAssumption DEF Local, Fields, Backed, ReadsRight, CreatorRight, HasFile,
     PcsOf, Calls
<1>7. OutstandingExact
  <2>1. {c \in Calls : InFlight(c)} = {}
    BY <1>3, <1>4 DEF InFlight, Futures
  <2> QED BY <1>1, <2>1, FS_EmptySet DEF OutstandingExact
<1>8. FdsAreRight
  <2>1. OwnFd(x) = 0
    BY <1>3 DEF OwnFd, HasFile
  <2>2. \A n \in Fds : n # 0 /\ desc[n] = Unused
    BY <1>1 DEF Fds
  <2> QED BY <1>1, <1>3, <1>4, <2>1, <2>2, ItsDiffer DEF FdsAreRight
<1> QED BY <1>1, <1>4, <1>5, <1>6, <1>7, <1>8 DEF OpeningInv, Locals, Tallied

\* Every action of a call.
LEMMA CallSteps ==
  ASSUME OpeningInv, NEW c \in Calls,
         Open(c) \/ Wrap(c) \/ OpenAsync(c) \/ ReadWhole(c) \/ Step(c) \/ Destroy(c) \/ CleanUp(c)
  PROVE  OpeningInv' /\ (FdsAreRight => FdsAreRight' \/ Strays)
<1>1. CASE Construct(c)
  <2>1. CASE WrapUring(c)
    BY <2>1, KeepsStep DEF WrapUring, Backends
  <2>2. CASE WrapGcd(c)
    BY <2>2, KeepsStep DEF WrapGcd, Backends
  <2> QED BY <1>1, <2>1, <2>2, PathSteps, WrapThreadStep, WrapIocpStep, InitChannelStep,
             CreateSessionStep, FallBackStep DEF Construct
<1>2. CASE Step(c) /\ ~Construct(c)
  BY <1>2, PathSteps, ReturnStep, FinishNativeStep, SubmitNativeStep, EnqueueOpenStep, RunOpenStep,
     CompleteNativeStep, StatWholeStep, AllocateWholeStep, ReadSomeStep, CloseWholeStep,
     CompleteStep, CompleteInlineStep DEF Step
<1>3. CASE Open(c) \/ Wrap(c) \/ OpenAsync(c) \/ ReadWhole(c) \/ Destroy(c) \/ CleanUp(c)
  BY <1>3, OpenStep, WrapStep, OpenAsyncStep, ReadWholeStep, DestroyStep, CleanUpStep
<1> QED BY <1>1, <1>2, <1>3

\* Every step preserves the invariant, and the descriptors unless a disowned
\* object is there.
LEMMA OpeningSteps ==
  ASSUME OpeningInv, [OpeningNext]_openingVars
  PROVE  OpeningInv' /\ (FdsAreRight => FdsAreRight' \/ Strays)
<1>1. CASE OpeningNext
  <2>1. ASSUME NEW c \in Calls,
               Open(c) \/ Wrap(c) \/ OpenAsync(c) \/ ReadWhole(c) \/ Step(c) \/ Destroy(c) \/ CleanUp(c)
        PROVE  OpeningInv' /\ (FdsAreRight => FdsAreRight' \/ Strays)
    BY <2>1, CallSteps
  <2> QED BY <1>1, <2>1, DrainStep, EnvironmentStep DEF OpeningNext
<1>2. CASE UNCHANGED openingVars
  BY <1>2, EnvironmentStep
<1> QED BY <1>1, <1>2

\* The count is one of operations, so it never goes below zero.
LEMMA CountIsNatural ==
  ASSUME OpeningInv
  PROVE  outstanding \in Nat
<1>1. PICK F : F = {c \in Calls : InFlight(c)}
  BY Zenon
<1>2. IsFiniteSet(F) /\ IsFiniteSet(thrown)
  BY <1>1, CallsFinite, FS_Subset DEF OpeningInv, OpeningShape
<1> QED BY <1>1, <1>2, FS_CardinalityType DEF OpeningInv, Tallied, OutstandingExact

\* The descriptors are owned as the property says.
LEMMA InvOwned ==
  ASSUME OpeningInv, ~astray => FdsAreRight
  PROVE  OwnedSoFar
<1>1. OpeningTypeOK
  <2>1. \A c \in Calls : /\ DOMAIN call[c] = DOMAIN NoCall /\ call[c].backend \in Backends
                         /\ {call[c].arg, call[c].fd, call[c].chan} \subseteq 0 .. MaxFd
    BY NewRecord DEF OpeningInv, OpeningShape, CallRecord
  <2> QED BY <2>1, CountIsNatural DEF OpeningInv, OpeningShape, Tables, OpeningTypeOK
<1>2. ASSUME FdsAreRight PROVE NoLeak
  <2>1. ASSUME NEW n \in Fds, NEW c \in Calls, desc[n] = Its(c, "file"), c \notin lost
        PROVE  Live(c) /\ call[c].owns /\ n \in {call[c].fd, call[c].arg}
    <3>1. n = OwnFd(call[c]) /\ n # 0
      BY <1>2, <2>1 DEF FdsAreRight, Fds
    <3> QED BY <3>1 DEF OwnFd, HasFile, Live
  <2>2. ASSUME NEW n \in Fds, NEW c \in Calls, desc[n] = Its(c, "chan")
        PROVE  call[c].chan = n /\ (Live(c) \/ call[c].pc = "cleanup")
    <3>1. n = call[c].chan /\ n # 0
      BY <1>2, <2>2 DEF FdsAreRight, Fds
    <3> QED BY <3>1, Before DEF Fields, HasFile, Live
  <2> QED BY <2>1, <2>2 DEF NoLeak
<1>3. ASSUME FdsAreRight PROVE NoDangling
  <2>1. ASSUME NEW c \in Calls, call[c].pc \in {"built", "held", "dropped"}, call[c].owns,
               ~Disowned(c)
        PROVE  desc[call[c].fd] = Its(c, "file")
    <3>1. HasFile(call[c]) /\ c \notin lost
      BY <1>3, <2>1 DEF HasFile, FdsAreRight
    <3> QED BY <1>3, <2>1, <3>1, FdOf DEF FdsAreRight
  <2> QED BY <2>1 DEF NoDangling
<1> QED BY <1>1, <1>2, <1>3 DEF OwnedSoFar

\* What the calls answer is so.
LEMMA InvTruthful ==
  ASSUME OpeningInv
  PROVE  Truthful
<1>1. ASSUME NEW c \in Calls
      PROVE  /\ call[c].answer = "data" => call[c].touched \/ call[c].filled = call[c].total
             /\ call[c].answer = "file" /\ call[c].mode = "x" => creator = c
             /\ call[c].answer = "exists" => creator # c \/ call[c].refused
  BY Before DEF Fields, ReadsRight, CreatorRight, HasFile
<1> QED BY <1>1 DEF Truthful

\* What has gone astray stays so.
LEMMA AstrayStays ==
  ASSUME astray, [OpeningNext]_openingVars
  PROVE  astray'
<1>1. CASE UNCHANGED openingVars
  BY <1>1 DEF openingVars, ghosts
<1>2. CASE Drain \/ Configure \/ OtherCreates \/ OtherResizes \/ \E n \in Fds : ForeignClose(n)
  BY <1>2 DEF Drain, Configure, OtherCreates, OtherResizes, ForeignClose, ghosts
<1>3. ASSUME NEW c \in Calls, Construct(c) PROVE astray'
  BY <1>3 DEF Construct, OpenUring, OpenThread, OpenGcd, OpenIocp, WrapUring, WrapThread, WrapGcd,
     WrapIocp, Keeps, InitChannel, CreateSession, GivesUp, Close, FallBack, ghosts
<1>4. ASSUME NEW c \in Calls, Step(c), ~Construct(c) PROVE astray'
  BY <1>4 DEF Step, Return, FinishNative, SubmitNative, EnqueueOpen, Throws, RunOpen, KernelOpens,
     CompleteNative, OpenWhole, StatWhole, AllocateWhole, ReadSome, CloseWhole, Close, Complete,
     CompleteInline, ghosts
<1>5. ASSUME NEW c \in Calls,
             Open(c) \/ Wrap(c) \/ OpenAsync(c) \/ ReadWhole(c) \/ Destroy(c) \/ CleanUp(c)
      PROVE  astray'
  BY <1>5 DEF Open, Wrap, OpenAsync, ReadWhole, Destroy, Close, CleanUp, ghosts
<1> QED BY <1>1, <1>2, <1>3, <1>4, <1>5, Zenon DEF OpeningNext

\* Through every failure and fallback each descriptor has one owner, and no
\* number is closed that belongs to somebody else by then, but for the number
\* of a disowned object on macOS and what follows when it is closed.
THEOREM OpeningOwned == OpeningSpec => Owned
<1> DEFINE OInv == OpeningInv /\ (~astray => FdsAreRight)
<1>1. OpeningInit => OInv
  BY OpeningStarts
<1>2. OInv /\ [OpeningNext]_openingVars => OInv' /\ FirstAstray
  <2>1. ASSUME OInv, [OpeningNext]_openingVars
        PROVE  OInv' /\ FirstAstray
    <3>1. OpeningInv' /\ (FdsAreRight => FdsAreRight' \/ Strays)
      BY <2>1, OpeningSteps
    <3>2. CASE astray
      BY <2>1, <3>1, <3>2, AstrayStays DEF FirstAstray
    <3>3. CASE ~astray
      BY <2>1, <3>1, <3>3 DEF FirstAstray, Strays, FdsAreRight
    <3> QED BY <3>2, <3>3
  <2> QED BY <2>1
<1>3. OInv => OwnedSoFar
  BY InvOwned
<1> QED BY <1>1, <1>2, <1>3, PTL DEF OpeningSpec, Owned

\* m_outstanding counts the operations in flight and those whose submission
\* threw, whatever fails.
THEOREM OpeningCounts == OpeningSpec => []OutstandingExact
<1>1. OpeningInit => OpeningInv
  BY OpeningStarts
<1>2. OpeningInv /\ [OpeningNext]_openingVars => OpeningInv'
  BY OpeningSteps
<1>3. OpeningInv => OutstandingExact
  BY DEF OpeningInv, Tallied
<1> QED BY <1>1, <1>2, <1>3, PTL DEF OpeningSpec

\* A whole read of a file left alone has all its bytes; exclusive opens answer
\* that they created the file, or found it, only if so.
THEOREM OpeningTruthful == OpeningSpec => []Truthful
<1>1. OpeningInit => OpeningInv
  BY OpeningStarts
<1>2. OpeningInv /\ [OpeningNext]_openingVars => OpeningInv'
  BY OpeningSteps
<1>3. OpeningInv => Truthful
  BY InvTruthful
<1> QED BY <1>1, <1>2, <1>3, PTL DEF OpeningSpec
==============================================================================
