------------------------- MODULE ResultBatcherProofs -------------------------
(***************************************************************************)
(* Proofs about ResultBatcher, for any finite sets of operations and of    *)
(* read_many calls of any width, with and without inline completion, the   *)
(* idle sweep and failures.                                                *)
(***************************************************************************)
EXTENDS ResultBatcher, FiniteSetTheorems, TLAPS

\* What the arguments below need of the types.
Shape == /\ dispatch \in BOOLEAN
         /\ drains \in Nat
         /\ phase \in [Actors -> Phases]
         /\ remaining \in [Batches -> Int]
         /\ fut \in [Futures -> {"pending", "resolved", "cancelled", "dropped"}]
         /\ reading \in (Batches \union {None}) \X (1..Width)

\* schedule_drain() drops the batch of a closed loop only.
DiscardWhenClosed == loop = "open" => \A a \in Actors : phase[a] # "discard"

\* The spans that the loop of read_many has not come to are untouched; a
\* read_many whose first span is untouched has not begun.
SpansAhead ==
  /\ \A b \in Batches : phase[<<b, 1>>] = "new" => \A i \in 1..Width : phase[<<b, i>>] = "new"
  /\ reading[1] \in Batches =>
       /\ \A i \in reading[2]..Width : phase[<<reading[1], i>>] = "new"
       /\ reading[2] > 1 => phase[<<reading[1], 1>>] # "new"

Inv == Shape /\ OneDrain /\ DiscardWhenClosed /\ SpansAhead /\ NothingLost
------------------------------------------------------------------------------
(* Names and finite sets.                                                  *)

\* There are finitely many threads that complete something.
LEMMA ActorsFinite == IsFiniteSet(Actors)
<1>1. IsFiniteSet(1..Width)
  BY NumbersPositive, FS_Interval
<1>2. IsFiniteSet(Spans)
  BY <1>1, SetsFinite, FS_Product DEF Spans
<1>3. IsFiniteSet(Ops)
  BY <1>2, SetsFinite, FS_Union DEF Ops
<1> QED
  BY <1>3, FS_AddElement DEF Actors

\* A span is the pair of a read_many and a number.
LEMMA SpanNames ==
  /\ \A b \in Batches, i \in 1..Width : <<b, i>> \in Spans
  /\ \A o \in Spans : o[1] \in Batches /\ o[2] \in 1..Width /\ o = <<o[1], o[2]>>
  /\ Spans \subseteq Actors /\ Singles \subseteq Actors /\ Sweeper \notin Spans
  /\ Singles \subseteq Futures /\ Batches \subseteq Futures /\ Singles \cap Spans = {}
  /\ Singles \cap Batches = {} /\ None \notin Batches
BY NamesDiffer DEF Spans, Ops, Actors, Futures

\* One actor begins to schedule a drain ...
LEMMA Begins ==
  ASSUME NEW a \in Actors, a \notin Scheduling, Scheduling' = Scheduling \union {a}
  PROVE  Cardinality(Scheduling') = Cardinality(Scheduling) + 1
<1>1. IsFiniteSet(Scheduling)
  BY ActorsFinite, FS_Subset DEF Scheduling
<1> QED
  BY <1>1, FS_AddElement

\* ... and is done with it.
LEMMA Ends ==
  ASSUME NEW a \in Actors, a \in Scheduling, Scheduling' = Scheduling \ {a}
  PROVE  /\ Cardinality(Scheduling) \in Nat \ {0}
         /\ Cardinality(Scheduling') = Cardinality(Scheduling) - 1
<1>1. IsFiniteSet(Scheduling)
  BY ActorsFinite, FS_Subset DEF Scheduling
<1>2. Cardinality(Scheduling) \in Nat /\ Cardinality(Scheduling) # 0
  BY <1>1, FS_CardinalityType, FS_EmptySet
<1>3. Cardinality(Scheduling') = Cardinality(Scheduling) - 1
  BY <1>1, FS_RemoveElement
<1> QED
  BY <1>2, <1>3

\* There are finitely many that do.
LEMMA SchedulingCount == Cardinality(Scheduling) \in Nat
BY ActorsFinite, FS_Subset, FS_CardinalityType DEF Scheduling
------------------------------------------------------------------------------
(* Shapes.                                                                 *)

\* No step leaves the types that the arguments rest on.
LEMMA ShapeStep == Shape /\ [Next]_vars => Shape'
<1> SUFFICES ASSUME Shape, [Next]_vars PROVE Shape'
  OBVIOUS
<1> USE NumbersPositive, SpanNames DEF Shape, Phases
<1>1. ASSUME NEW o \in Singles, Submit(o) PROVE Shape'
  BY <1>1 DEF Submit, batcherVars, resultVars
<1>2. ASSUME NEW o \in Singles, SubmitInline(o) PROVE Shape'
  BY <1>2 DEF SubmitInline, batcherVars, loopVars, Finished, Resolve
<1>3. ASSUME NEW o \in Singles, SubmitThrows(o) PROVE Shape'
  BY <1>3 DEF SubmitThrows, batcherVars, loopVars, Finished
<1>4. ASSUME NEW o \in Singles, Harvest(o) PROVE Shape'
  BY <1>4 DEF Harvest, batcherVars, Resolve
<1>5. ASSUME NEW b \in Batches, BeginReadMany(b) PROVE Shape'
  BY <1>5 DEF BeginReadMany, batcherVars, resultVars
<1>6. ASSUME NEW o \in Singles, Push(o) PROVE Shape'
  BY <1>6 DEF Push, resultVars, loopVars
<1>7. ASSUME NEW o \in Singles, ConvertFails(o) PROVE Shape'
  BY <1>7 DEF ConvertFails, batcherVars, loopVars
<1>8. ASSUME NEW o \in Spans, CountSpan(o) PROVE Shape'
  BY <1>8 DEF CountSpan, batcherVars, resultVars
<1>9. ASSUME NEW o \in Singles, Count(o) PROVE Shape'
  BY <1>9 DEF Count, batcherVars, resultVars
<1>10. ASSUME NEW o \in Spans, Store(o) PROVE Shape'
  BY <1>10 DEF Store, batcherVars, Resolve
<1>11. ASSUME NEW o \in Spans, PushBatch(o) PROVE Shape'
  BY <1>11 DEF PushBatch, resultVars, loopVars
<1>12. ASSUME NEW a \in Actors, CallSoonFails(a) PROVE Shape'
  BY <1>12 DEF CallSoonFails, resultVars, Finished
<1>13. ASSUME NEW a \in Actors, Flush(a) PROVE Shape'
  BY <1>13 DEF Flush, resultVars, Finished
<1>14. ASSUME NEW a \in Actors, CallSoon(a) PROVE Shape'
  BY <1>14 DEF CallSoon, resultVars, Finished
<1>15. ASSUME NEW a \in Actors, Discard(a) PROVE Shape'
  BY <1>15 DEF Discard, resultVars, Finished
<1>16. ASSUME NEW f \in Futures, Cancel(f) PROVE Shape'
  BY <1>16 DEF Cancel, batcherVars, loopVars
<1>17. CASE EndHarvest
  BY <1>17 DEF EndHarvest, batcherVars, resultVars
<1>18. ASSUME NEW b \in Batches, SubmitSpan(b) PROVE Shape'
  <2>1. reading' \in (Batches \union {None}) \X (1..Width)
    BY <1>18 DEF SubmitSpan, NextSpan
  <2> QED
    BY <1>18, <2>1 DEF SubmitSpan, batcherVars, resultVars
<1>19. ASSUME NEW b \in Batches, InlineSpan(b) PROVE Shape'
  <2>1. reading' \in (Batches \union {None}) \X (1..Width)
    BY <1>19 DEF InlineSpan, NextSpan
  <2>2. phase' \in [Actors -> Phases]
    BY <1>19 DEF InlineSpan, Finished
  <2>3. fut' \in [Futures -> {"pending", "resolved", "cancelled", "dropped"}]
    BY <1>19 DEF InlineSpan, Resolve
  <2>4. remaining' \in [Batches -> Int]
    BY <1>19 DEF InlineSpan
  <2> QED
    BY <1>19, <2>1, <2>2, <2>3, <2>4 DEF InlineSpan, batcherVars
<1>20. ASSUME NEW b \in Batches, SpanThrows(b) PROVE Shape'
  <2>1. reading' \in (Batches \union {None}) \X (1..Width)
    BY <1>20 DEF SpanThrows
  <2>2. phase' \in [Actors -> Phases]
    BY <1>20 DEF SpanThrows
  <2>3. fut' \in [Futures -> {"pending", "resolved", "cancelled", "dropped"}]
    BY <1>20 DEF SpanThrows, Resolve
  <2>4. remaining' \in [Batches -> Int]
    BY <1>20 DEF SpanThrows
  <2> QED
    BY <1>20, <2>1, <2>2, <2>3, <2>4 DEF SpanThrows, batcherVars
<1>21. CASE Drain
  <2>1. fut' \in [Futures -> {"pending", "resolved", "cancelled", "dropped"}]
    BY <1>21 DEF Drain, Resolve
  <2>2. dispatch' \in BOOLEAN
    BY <1>21 DEF Drain
  <2>3. drains' \in Nat
    BY <1>21 DEF Drain
  <2> QED
    BY <1>21, <2>1, <2>2, <2>3 DEF Drain, loopVars
<1>22. CASE Sweep
  BY <1>22 DEF Sweep, resultVars, loopVars
<1>23. CASE CloseLoop
  BY <1>23 DEF CloseLoop, resultVars
<1>24. CASE UNCHANGED vars
  BY <1>24 DEF vars, batcherVars, resultVars, loopVars
<1>25. CASE WaitForPackets
  BY <1>25 DEF WaitForPackets, batcherVars, resultVars, loopVars
<1> QED
  BY <1>1, <1>2, <1>3, <1>4, <1>5, <1>6, <1>7, <1>8, <1>9, <1>10, <1>11, <1>12,
     <1>13, <1>14, <1>15, <1>16, <1>17, <1>18, <1>19, <1>20, <1>21, <1>22, <1>23, <1>24,
     <1>25
     DEF Next, Arrive, Complete, LoopStep, Ops
------------------------------------------------------------------------------
(* read_many.                                                              *)

\* The span that read_many is about to submit and those after it.
LEMMA SpanAtHand ==
  ASSUME Shape, SpansAhead, NEW b \in Batches, AtSpan(b)
  PROVE  /\ reading \in Spans /\ reading = <<b, reading[2]>> /\ reading[2] \in 1..Width
         /\ \A i \in reading[2]..Width : phase[<<b, i>>] = "new"
         /\ reading[2] > 1 => phase[<<b, 1>>] # "new"
BY SpanNames DEF Shape, SpansAhead, AtSpan

\* In particular the span at hand itself is untouched.
LEMMA HandNew ==
  ASSUME Shape, SpansAhead, NEW b \in Batches, AtSpan(b)
  PROVE  reading \in Spans /\ phase[reading] = "new"
<1> DEFINE j == reading[2]
<1>1. /\ reading \in Spans /\ reading = <<b, j>> /\ j \in 1..Width
      /\ \A i \in j..Width : phase[<<b, i>>] = "new"
  BY SpanAtHand
<1> HIDE DEF j
<1>2. j \in j..Width
  BY <1>1, NumbersPositive
<1>3. phase[<<b, j>>] = "new"
  BY <1>1, <1>2
<1> QED
  BY <1>1, <1>3

\* A step by which no span becomes new or stops being so, and which does not
\* move read_many on, keeps the spans ahead.
LEMMA AheadFrame ==
  ASSUME SpansAhead, UNCHANGED reading, Shape,
         \A o \in Spans : phase'[o] = "new" <=> phase[o] = "new"
  PROVE  SpansAhead'
<1>1. \A b \in Batches, i \in 1..Width : phase'[<<b, i>>] = "new" <=> phase[<<b, i>>] = "new"
  BY SpanNames
<1>2. 1 \in 1..Width
  BY NumbersPositive
<1>3. \A b \in Batches : phase'[<<b, 1>>] = "new" => \A i \in 1..Width : phase'[<<b, i>>] = "new"
  BY <1>1, <1>2 DEF SpansAhead
<1>4. ASSUME reading[1] \in Batches
      PROVE  /\ \A i \in reading[2]..Width : phase'[<<reading[1], i>>] = "new"
             /\ reading[2] > 1 => phase'[<<reading[1], 1>>] # "new"
  <2>1. reading[2] \in 1..Width
    BY DEF Shape
  <2>2. \A i \in reading[2]..Width : i \in 1..Width
    BY <2>1, NumbersPositive
  <2> QED
    BY <1>1, <1>2, <1>4, <2>2 DEF SpansAhead
<1> QED
  BY <1>3, <1>4 DEF SpansAhead

\* read_many moves on: the span at hand, and perhaps all later ones, leave "new".
LEMMA AheadMoves ==
  ASSUME Shape, SpansAhead, NEW b \in Batches, AtSpan(b),
         \/ /\ reading' = NextSpan
            /\ phase'[reading] # "new"
            /\ \A o \in Spans \ {reading} : phase'[o] = phase[o]
         \/ /\ reading' = <<None, 1>>
            /\ \A i \in reading[2]..Width : phase'[<<b, i>>] # "new"
            /\ \A o \in Spans : phase'[o] = phase[o] \/ o \in {<<b, i>> : i \in reading[2]..Width}
  PROVE  SpansAhead'
<1> DEFINE j == reading[2]
<1>1. /\ reading \in Spans /\ reading = <<b, j>> /\ j \in 1..Width
      /\ \A i \in j..Width : phase[<<b, i>>] = "new"
      /\ j > 1 => phase[<<b, 1>>] # "new"
  BY SpanAtHand
<1>2. phase'[<<b, 1>>] # "new"
  <2>1. CASE j = 1
    <3>1. 1 \in 1..Width
      BY NumbersPositive
    <3> QED
      BY <1>1, <2>1, <3>1
  <2>2. CASE j > 1
    <3>1. <<b, 1>> \in Spans /\ \A i \in j..Width : <<b, 1>> # <<b, i>>
      BY SpanNames, NumbersPositive, <1>1, <2>2
    <3>2. phase'[<<b, 1>>] = phase[<<b, 1>>]
      BY <1>1, <2>2, <3>1
    <3> QED
      BY <1>1, <2>2, <3>2
  <2> QED
    BY <1>1, <2>1, <2>2, NumbersPositive
<1>3. ASSUME NEW c \in Batches, phase'[<<c, 1>>] = "new", NEW i \in 1..Width
      PROVE  phase'[<<c, i>>] = "new"
  <2>1. c # b
    BY <1>2, <1>3
  <2>2. /\ <<c, i>> \in Spans /\ <<c, 1>> \in Spans
        /\ \A k \in 1..Width : <<c, i>> # <<b, k>> /\ <<c, 1>> # <<b, k>>
    BY SpanNames, NumbersPositive, <2>1
  <2>3. phase'[<<c, i>>] = phase[<<c, i>>] /\ phase'[<<c, 1>>] = phase[<<c, 1>>]
    BY <1>1, <2>2, NumbersPositive
  <2> QED
    BY <1>3, <2>3 DEF SpansAhead
<1>4. ASSUME reading'[1] \in Batches
      PROVE  /\ \A i \in reading'[2]..Width : phase'[<<reading'[1], i>>] = "new"
             /\ reading'[2] > 1 => phase'[<<reading'[1], 1>>] # "new"
  <2>1. reading' = <<b, j + 1>> /\ \A o \in Spans \ {reading} : phase'[o] = phase[o]
    BY <1>1, <1>4, SpanNames DEF NextSpan
  <2>2. ASSUME NEW i \in (j + 1)..Width PROVE phase'[<<b, i>>] = "new"
    <3>1. i \in j..Width /\ i \in 1..Width /\ <<b, i>> # <<b, j>>
      BY <1>1, NumbersPositive
    <3> QED
      BY <1>1, <2>1, <3>1, SpanNames
  <2> QED
    BY <1>2, <2>1, <2>2
<1> QED
  BY <1>3, <1>4 DEF SpansAhead

\* Every step keeps the spans ahead of read_many untouched.
LEMMA AheadStep == Shape /\ SpansAhead /\ [Next]_vars => SpansAhead'
<1> SUFFICES ASSUME Shape, SpansAhead, [Next]_vars PROVE SpansAhead'
  OBVIOUS
<1> DEFINE Frame == /\ UNCHANGED reading
                    /\ \A o \in Spans : phase'[o] = "new" <=> phase[o] = "new"
<1>0. Frame => SpansAhead'
  BY AheadFrame
<1> USE SpanNames DEF Shape
<1>1. ASSUME NEW o \in Singles, Submit(o) PROVE Frame
  BY <1>1 DEF Submit
<1>2. ASSUME NEW o \in Singles, SubmitInline(o) PROVE Frame
  BY <1>2 DEF SubmitInline, loopVars, Finished
<1>3. ASSUME NEW o \in Singles, SubmitThrows(o) PROVE Frame
  BY <1>3 DEF SubmitThrows, loopVars, Finished
<1>4. ASSUME NEW o \in Singles, Harvest(o) PROVE Frame
  BY <1>4 DEF Harvest
<1>5. ASSUME NEW b \in Batches, BeginReadMany(b) PROVE SpansAhead'
  <2>1. reading' = <<b, 1>> /\ phase' = phase /\ phase[<<b, 1>>] = "new"
    BY <1>5 DEF BeginReadMany
  <2> QED
    BY <2>1 DEF SpansAhead
<1>6. ASSUME NEW o \in Singles, Push(o) PROVE Frame
  BY <1>6 DEF Push, loopVars
<1>7. ASSUME NEW o \in Singles, ConvertFails(o) PROVE Frame
  BY <1>7 DEF ConvertFails, loopVars
<1>8. ASSUME NEW o \in Spans, CountSpan(o) PROVE Frame
  BY <1>8 DEF CountSpan
<1>9. ASSUME NEW o \in Singles, Count(o) PROVE Frame
  BY <1>9 DEF Count
<1>10. ASSUME NEW o \in Spans, Store(o) PROVE Frame
  BY <1>10 DEF Store
<1>11. ASSUME NEW o \in Spans, PushBatch(o) PROVE Frame
  BY <1>11 DEF PushBatch, loopVars
<1>12. ASSUME NEW a \in Actors, CallSoonFails(a) PROVE Frame
  BY <1>12 DEF CallSoonFails, Finished
<1>13. ASSUME NEW a \in Actors, Flush(a) PROVE Frame
  BY <1>13 DEF Flush, Finished
<1>14. ASSUME NEW a \in Actors, CallSoon(a) PROVE Frame
  BY <1>14 DEF CallSoon, Finished
<1>15. ASSUME NEW a \in Actors, Discard(a) PROVE Frame
  BY <1>15 DEF Discard, Finished
<1>16. ASSUME NEW f \in Futures, Cancel(f) PROVE Frame
  BY <1>16 DEF Cancel, loopVars
<1>17. CASE EndHarvest
  BY <1>17, <1>0 DEF EndHarvest
<1>18. ASSUME NEW b \in Batches, SubmitSpan(b) PROVE SpansAhead'
  <2>1. AtSpan(b) /\ reading' = NextSpan /\ phase' = [phase EXCEPT ![reading] = "inflight"]
    BY <1>18 DEF SubmitSpan
  <2>2. reading \in Spans
    BY <2>1, SpanAtHand
  <2>3. phase'[reading] # "new" /\ \A o \in Spans \ {reading} : phase'[o] = phase[o]
    BY <2>1, <2>2
  <2> QED
    BY <2>1, <2>3, AheadMoves
<1>19. ASSUME NEW b \in Batches, InlineSpan(b) PROVE SpansAhead'
  <2>1. AtSpan(b) /\ reading' = NextSpan /\ phase' = Finished(reading)
    BY <1>19 DEF InlineSpan
  <2>2. reading \in Spans
    BY <2>1, SpanAtHand
  <2>3. phase'[reading] # "new" /\ \A o \in Spans \ {reading} : phase'[o] = phase[o]
    BY <2>1, <2>2 DEF Finished
  <2> QED
    BY <2>1, <2>3, AheadMoves
<1>20. ASSUME NEW b \in Batches, SpanThrows(b) PROVE SpansAhead'
  <2> DEFINE Rest == {<<b, i>> : i \in reading[2]..Width}
  <2>1. /\ AtSpan(b) /\ reading' = <<None, 1>>
        /\ phase' = [a \in Actors |-> IF a \in Rest THEN "done" ELSE phase[a]]
    BY <1>20 DEF SpanThrows
  <2>2. reading[2] \in 1..Width
    BY <2>1, SpanAtHand
  <2>3. \A i \in reading[2]..Width : <<b, i>> \in Spans
    BY <2>2, NumbersPositive
  <2>4. \A i \in reading[2]..Width : phase'[<<b, i>>] # "new"
    BY <2>1, <2>3
  <2>5. \A o \in Spans : phase'[o] = phase[o] \/ o \in Rest
    BY <2>1
  <2> QED
    BY <2>1, <2>4, <2>5, AheadMoves
<1>21. CASE Drain
  BY <1>21, <1>0 DEF Drain, loopVars
<1>22. CASE Sweep
  BY <1>22, <1>0 DEF Sweep, loopVars
<1>23. CASE CloseLoop
  BY <1>23, <1>0 DEF CloseLoop
<1>24. CASE UNCHANGED vars
  BY <1>24, <1>0 DEF vars, loopVars
<1>25. CASE WaitForPackets
  BY <1>25, <1>0 DEF WaitForPackets, loopVars
<1> QED
  BY <1>0, <1>1, <1>2, <1>3, <1>4, <1>5, <1>6, <1>7, <1>8, <1>9, <1>10, <1>11, <1>12,
     <1>13, <1>14, <1>15, <1>16, <1>17, <1>18, <1>19, <1>20, <1>21, <1>22, <1>23, <1>24,
     <1>25
     DEF Next, Arrive, Complete, LoopStep, Ops
------------------------------------------------------------------------------
(* One drain.                                                              *)

\* A step that begins and ends no scheduling keeps the account.
LEMMA QuietStep ==
  ASSUME OneDrain, UNCHANGED <<drains, dispatch, loop>>,
         \A a \in Actors : phase'[a] \in {"schedule", "discard"} <=>
                           phase[a] \in {"schedule", "discard"}
  PROVE  OneDrain'
<1>1. Scheduling' = Scheduling
  BY DEF Scheduling
<1> QED
  BY <1>1 DEF OneDrain

\* A scheduling that ends leaves either its drain or a lowered flag.
LEMMA EndsOne ==
  ASSUME Shape, OneDrain, NEW a \in Actors, a \in Scheduling,
         Scheduling' = Scheduling \ {a}, loop' = loop,
         \/ drains' = drains + 1 /\ dispatch' = dispatch
         \/ drains' = drains /\ dispatch' = FALSE
  PROVE  OneDrain'
<1> DEFINE n == Cardinality(Scheduling)
           m == Cardinality(Scheduling')
<1>1. n \in Nat \ {0} /\ m = n - 1
  BY Ends
<1> SUFFICES ASSUME loop = "open" PROVE drains' + m = (IF dispatch' THEN 1 ELSE 0)
  BY DEF OneDrain
<1>2. drains + n = (IF dispatch THEN 1 ELSE 0)
  BY DEF OneDrain
<1> HIDE DEF n, m
<1>3. drains \in Nat /\ dispatch \in BOOLEAN
  BY DEF Shape
<1>4. dispatch = TRUE /\ n = 1 /\ drains = 0
  BY <1>1, <1>2, <1>3
<1>5. m = 0
  BY <1>1, <1>4
<1>6. CASE drains' = drains + 1 /\ dispatch' = dispatch
  <2>1. drains' + m = 1 /\ dispatch' = TRUE
    BY <1>4, <1>5, <1>6
  <2> QED
    BY <2>1
<1>7. CASE drains' = drains /\ dispatch' = FALSE
  <2>1. drains' + m = 0
    BY <1>4, <1>5, <1>7
  <2> QED
    BY <2>1, <1>7
<1> QED
  BY <1>6, <1>7

\* A scheduling begins with the flag.
LEMMA BeginsOne ==
  ASSUME Shape, OneDrain, NEW a \in Actors, a \notin Scheduling,
         Scheduling' = Scheduling \union {a}, UNCHANGED <<loop, drains>>,
         dispatch = FALSE, dispatch' = TRUE
  PROVE  OneDrain'
<1> DEFINE n == Cardinality(Scheduling)
           m == Cardinality(Scheduling')
<1>1. n \in Nat /\ m = n + 1
  BY Begins, SchedulingCount
<1> SUFFICES ASSUME loop = "open" PROVE drains' + m = (IF dispatch' THEN 1 ELSE 0)
  BY DEF OneDrain
<1>2. drains + n = 0
  BY DEF OneDrain
<1> HIDE DEF n, m
<1>3. drains \in Nat
  BY DEF Shape
<1> QED
  BY <1>1, <1>2, <1>3

\* m_dispatch_pending goes up with the drain that is to be scheduled, and
\* down with the drain that runs, fails or is dropped.
LEMMA DrainStep == Shape /\ SpansAhead /\ OneDrain /\ [Next]_vars => OneDrain'
<1> SUFFICES ASSUME Shape, SpansAhead, OneDrain, [Next]_vars PROVE OneDrain'
  OBVIOUS
<1> DEFINE Quiet == /\ UNCHANGED <<drains, dispatch, loop>>
                    /\ \A a \in Actors : phase'[a] \in {"schedule", "discard"} <=>
                                         phase[a] \in {"schedule", "discard"}
<1>0. Quiet => OneDrain'
  BY QuietStep
<1> USE SpanNames DEF Shape
<1>1. ASSUME NEW o \in Singles, Submit(o) PROVE Quiet
  BY <1>1 DEF Submit, batcherVars
<1>2. ASSUME NEW o \in Singles, SubmitInline(o) PROVE Quiet
  BY <1>2 DEF SubmitInline, batcherVars, loopVars, Finished
<1>3. ASSUME NEW o \in Singles, SubmitThrows(o) PROVE Quiet
  BY <1>3 DEF SubmitThrows, batcherVars, loopVars, Finished
<1>4. ASSUME NEW o \in Singles, Harvest(o) PROVE Quiet
  BY <1>4 DEF Harvest, batcherVars
<1>5. ASSUME NEW b \in Batches, BeginReadMany(b) PROVE Quiet
  BY <1>5 DEF BeginReadMany, batcherVars
<1>6. ASSUME NEW o \in Singles, Push(o) PROVE Quiet
  BY <1>6 DEF Push, loopVars
<1>7. ASSUME NEW o \in Singles, ConvertFails(o) PROVE Quiet
  BY <1>7 DEF ConvertFails, batcherVars, loopVars
<1>8. ASSUME NEW o \in Spans, CountSpan(o) PROVE Quiet
  BY <1>8 DEF CountSpan, batcherVars
<1>9. ASSUME NEW o \in Singles, Count(o) PROVE Quiet
  BY <1>9 DEF Count, batcherVars
<1>10. ASSUME NEW o \in Spans, Store(o) PROVE Quiet
  BY <1>10 DEF Store, batcherVars
<1>11. ASSUME NEW o \in Spans, PushBatch(o) PROVE Quiet
  BY <1>11 DEF PushBatch, loopVars
<1>12. ASSUME NEW a \in Actors, CallSoonFails(a) PROVE OneDrain'
  <2>1. a \in Scheduling /\ Scheduling' = Scheduling \ {a}
    BY <1>12, NamesDiffer DEF CallSoonFails, Scheduling, Finished
  <2>2. loop' = loop /\ drains' = drains /\ dispatch' = FALSE
    BY <1>12 DEF CallSoonFails
  <2> QED
    BY <2>1, <2>2, EndsOne
<1>13. ASSUME NEW a \in Actors, Flush(a) PROVE OneDrain'
  <2>1. CASE batch = {} \/ dispatch
    <3>1. Quiet
      BY <1>13, <2>1 DEF Flush, Finished
    <3> QED
      BY <3>1, <1>0
  <2>2. CASE ~(batch = {} \/ dispatch)
    <3>1. a \notin Scheduling /\ Scheduling' = Scheduling \union {a}
      BY <1>13, <2>2 DEF Flush, Scheduling
    <3>2. dispatch = FALSE /\ dispatch' = TRUE /\ drains' = drains /\ loop' = loop
      BY <1>13, <2>2 DEF Flush
    <3> QED
      BY <3>1, <3>2, BeginsOne
  <2> QED
    BY <2>1, <2>2
<1>14. ASSUME NEW a \in Actors, CallSoon(a) PROVE OneDrain'
  <2>1. CASE loop = "open"
    <3>1. a \in Scheduling /\ Scheduling' = Scheduling \ {a}
      BY <1>14, <2>1 DEF CallSoon, Scheduling, Finished
    <3>2. drains' = drains + 1 /\ dispatch' = dispatch /\ loop' = loop
      BY <1>14, <2>1 DEF CallSoon
    <3> QED
      BY <3>1, <3>2, EndsOne
  <2>2. CASE loop # "open"
    BY <1>14, <2>2 DEF CallSoon, OneDrain
  <2> QED
    BY <2>1, <2>2
<1>15. ASSUME NEW a \in Actors, Discard(a) PROVE OneDrain'
  <2>1. a \in Scheduling /\ Scheduling' = Scheduling \ {a}
    BY <1>15 DEF Discard, Scheduling, Finished
  <2>2. loop' = loop /\ drains' = drains /\ dispatch' = FALSE
    BY <1>15 DEF Discard
  <2> QED
    BY <2>1, <2>2, EndsOne
<1>16. ASSUME NEW f \in Futures, Cancel(f) PROVE Quiet
  BY <1>16 DEF Cancel, batcherVars, loopVars
<1>17. CASE EndHarvest
  BY <1>17, <1>0 DEF EndHarvest, batcherVars
<1>18. ASSUME NEW b \in Batches, SubmitSpan(b) PROVE Quiet
  <2>0. AtSpan(b)
    BY <1>18 DEF SubmitSpan
  <2>1. phase[reading] = "new" /\ reading \in Spans
    BY <2>0, HandNew
  <2> QED
    BY <1>18, <2>1 DEF SubmitSpan, batcherVars
<1>19. ASSUME NEW b \in Batches, InlineSpan(b) PROVE Quiet
  <2>0. AtSpan(b)
    BY <1>19 DEF InlineSpan
  <2>1. phase[reading] = "new" /\ reading \in Spans
    BY <2>0, HandNew
  <2> QED
    BY <1>19, <2>1 DEF InlineSpan, batcherVars, Finished
<1>20. ASSUME NEW b \in Batches, SpanThrows(b) PROVE Quiet
  <2>1. \A i \in reading[2]..Width : phase[<<b, i>>] = "new"
    BY <1>20, SpanAtHand DEF SpanThrows
  <2> QED
    BY <1>20, <2>1 DEF SpanThrows, batcherVars
<1>21. CASE Drain
  <2>1. Scheduling' = Scheduling
    BY <1>21 DEF Drain, Scheduling
  <2>2. loop = "open" /\ drains \in Nat \ {0} /\ drains' = drains - 1 /\ dispatch' = FALSE
    BY <1>21 DEF Drain, LoopIdle
  <2> QED
    BY <2>1, <2>2, SchedulingCount DEF OneDrain
<1>22. CASE Sweep
  <2>1. Sweeper \notin Scheduling /\ Scheduling' = Scheduling \union {Sweeper}
    BY <1>22 DEF Sweep, Scheduling, Actors
  <2>2. dispatch = FALSE /\ dispatch' = TRUE /\ drains' = drains /\ loop' = loop
    BY <1>22 DEF Sweep, loopVars
  <2>3. Sweeper \in Actors
    BY DEF Actors
  <2> QED
    BY <2>1, <2>2, <2>3, BeginsOne
<1>23. CASE CloseLoop
  BY <1>23 DEF CloseLoop, OneDrain
<1>24. CASE UNCHANGED vars
  BY <1>24, <1>0 DEF vars, batcherVars, loopVars
<1>25. CASE WaitForPackets
  BY <1>25, <1>0 DEF WaitForPackets, batcherVars, loopVars
<1> QED
  BY <1>0, <1>1, <1>2, <1>3, <1>4, <1>5, <1>6, <1>7, <1>8, <1>9, <1>10, <1>11, <1>12,
     <1>13, <1>14, <1>15, <1>16, <1>17, <1>18, <1>19, <1>20, <1>21, <1>22, <1>23, <1>24,
     <1>25
     DEF Next, Arrive, Complete, LoopStep, Ops
------------------------------------------------------------------------------
(* Nothing lost.                                                           *)

\* Discarding begins on a closed loop only, and a closed loop stays closed.
LEMMA DiscardStep == Shape /\ SpansAhead /\ DiscardWhenClosed /\ [Next]_vars => DiscardWhenClosed'
<1> SUFFICES ASSUME Shape, SpansAhead, DiscardWhenClosed, [Next]_vars, loop' = "open"
             PROVE  \A x \in Actors : phase'[x] # "discard"
  BY DEF DiscardWhenClosed
<1> DEFINE Goal == \A x \in Actors : phase'[x] # "discard"
<1> USE SpanNames DEF Shape, DiscardWhenClosed
<1>1. ASSUME NEW o \in Singles, Submit(o) PROVE Goal
  BY <1>1 DEF Submit
<1>2. ASSUME NEW o \in Singles, SubmitInline(o) PROVE Goal
  BY <1>2 DEF SubmitInline, loopVars, Finished
<1>3. ASSUME NEW o \in Singles, SubmitThrows(o) PROVE Goal
  BY <1>3 DEF SubmitThrows, loopVars, Finished
<1>4. ASSUME NEW o \in Singles, Harvest(o) PROVE Goal
  BY <1>4 DEF Harvest
<1>5. ASSUME NEW b \in Batches, BeginReadMany(b) PROVE Goal
  BY <1>5 DEF BeginReadMany
<1>6. ASSUME NEW o \in Singles, Push(o) PROVE Goal
  BY <1>6 DEF Push, loopVars
<1>7. ASSUME NEW o \in Singles, ConvertFails(o) PROVE Goal
  BY <1>7 DEF ConvertFails, loopVars
<1>8. ASSUME NEW o \in Spans, CountSpan(o) PROVE Goal
  BY <1>8 DEF CountSpan
<1>9. ASSUME NEW o \in Singles, Count(o) PROVE Goal
  BY <1>9 DEF Count
<1>10. ASSUME NEW o \in Spans, Store(o) PROVE Goal
  BY <1>10 DEF Store
<1>11. ASSUME NEW o \in Spans, PushBatch(o) PROVE Goal
  BY <1>11 DEF PushBatch, loopVars
<1>12. ASSUME NEW a \in Actors, CallSoonFails(a) PROVE Goal
  BY <1>12 DEF CallSoonFails, Finished
<1>13. ASSUME NEW a \in Actors, Flush(a) PROVE Goal
  BY <1>13 DEF Flush, Finished
<1>14. ASSUME NEW a \in Actors, CallSoon(a) PROVE Goal
  BY <1>14 DEF CallSoon, Finished
<1>15. ASSUME NEW a \in Actors, Discard(a) PROVE Goal
  BY <1>15 DEF Discard, Finished
<1>16. ASSUME NEW f \in Futures, Cancel(f) PROVE Goal
  BY <1>16 DEF Cancel, loopVars
<1>17. CASE EndHarvest
  BY <1>17 DEF EndHarvest
<1>18. ASSUME NEW b \in Batches, SubmitSpan(b) PROVE Goal
  BY <1>18 DEF SubmitSpan
<1>19. ASSUME NEW b \in Batches, InlineSpan(b) PROVE Goal
  BY <1>19 DEF InlineSpan, Finished
<1>20. ASSUME NEW b \in Batches, SpanThrows(b) PROVE Goal
  BY <1>20 DEF SpanThrows
<1>21. CASE Drain
  BY <1>21 DEF Drain, loopVars
<1>22. CASE Sweep
  BY <1>22 DEF Sweep, loopVars
<1>23. CASE CloseLoop
  BY <1>23 DEF CloseLoop
<1>24. CASE UNCHANGED vars
  BY <1>24 DEF vars, loopVars
<1>25. CASE WaitForPackets
  BY <1>25 DEF WaitForPackets, loopVars
<1> QED
  BY <1>1, <1>2, <1>3, <1>4, <1>5, <1>6, <1>7, <1>8, <1>9, <1>10, <1>11, <1>12,
     <1>13, <1>14, <1>15, <1>16, <1>17, <1>18, <1>19, <1>20, <1>21, <1>22, <1>23, <1>24,
     <1>25
     DEF Next, Arrive, Complete, LoopStep, Ops

\* The future needs nothing more: its answer waits in the batch or was given.
Cared(f) == f \in batch \/ fut[f] # "pending"

\* The step keeps every future that is cared for so, and takes care of the
\* results that arrive with it.
Carried ==
  /\ loop = "open"
  /\ \A f \in Futures : Cared(f) => Cared(f)'
  /\ \A o \in Singles \ lost' :
       phase'[o] \in {"answered", "flush", "schedule", "done"} =>
         \/ o \notin lost /\ phase[o] \in {"answered", "flush", "schedule", "done"}
         \/ Cared(o)'
  /\ \A b \in Batches : remaining'[b] = 0 /\ remaining[b] # 0 =>
       Cared(b)' \/ \E i \in 1..Width : phase'[<<b, i>>] = "finish"
  /\ \A b \in Batches, i \in 1..Width : phase[<<b, i>>] = "finish" =>
       phase'[<<b, i>>] = "finish" \/ Cared(b)'

\* Such a step loses nothing.
LEMMA CarriedKeeps == NothingLost /\ Carried => NothingLost'
<1> SUFFICES ASSUME NothingLost, Carried PROVE NothingLost'
  OBVIOUS
<1>1. ASSUME NEW o \in Singles \ lost',
             phase'[o] \in {"answered", "flush", "schedule", "done"}
      PROVE  Cared(o)'
  BY <1>1, SpanNames DEF Carried, NothingLost, Cared
<1>2. ASSUME NEW b \in Batches, remaining'[b] = 0
      PROVE  Cared(b)' \/ \E i \in 1..Width : phase'[<<b, i>>] = "finish"
  BY <1>2, SpanNames DEF Carried, NothingLost, Cared
<1> QED
  BY <1>1, <1>2 DEF NothingLost, Cared

\* Every step of an open loop loses nothing.
LEMMA NothingLostStep ==
  Shape /\ SpansAhead /\ DiscardWhenClosed /\ NothingLost /\ [Next]_vars => NothingLost'
<1> SUFFICES ASSUME Shape, SpansAhead, DiscardWhenClosed, NothingLost, [Next]_vars,
                    loop' = "open"
             PROVE  NothingLost'
  BY DEF NothingLost
<1>0. Carried => NothingLost'
  BY CarriedKeeps
<1> USE SpanNames DEF Shape, Cared
<1>1. ASSUME NEW o \in Singles, Submit(o) PROVE Carried
  BY <1>1 DEF Submit, batcherVars, resultVars, Carried
<1>2. ASSUME NEW o \in Singles, SubmitInline(o) PROVE Carried
  BY <1>2 DEF SubmitInline, batcherVars, loopVars, Finished, Resolve, Carried
<1>3. ASSUME NEW o \in Singles, SubmitThrows(o) PROVE Carried
  BY <1>3 DEF SubmitThrows, batcherVars, loopVars, Finished, Carried
<1>4. ASSUME NEW o \in Singles, Harvest(o) PROVE Carried
  BY <1>4 DEF Harvest, batcherVars, Resolve, Carried
<1>5. ASSUME NEW b \in Batches, BeginReadMany(b) PROVE Carried
  BY <1>5 DEF BeginReadMany, batcherVars, resultVars, Carried
<1>6. ASSUME NEW o \in Singles, Push(o) PROVE Carried
  BY <1>6 DEF Push, resultVars, loopVars, Carried
<1>7. ASSUME NEW o \in Singles, ConvertFails(o) PROVE Carried
  BY <1>7 DEF ConvertFails, batcherVars, loopVars, Carried
<1>8. ASSUME NEW o \in Spans, CountSpan(o) PROVE Carried
  BY <1>8 DEF CountSpan, batcherVars, resultVars, Carried
<1>9. ASSUME NEW o \in Singles, Count(o) PROVE Carried
  BY <1>9 DEF Count, batcherVars, resultVars, Carried
<1>10. ASSUME NEW o \in Spans, Store(o) PROVE Carried
  <2> DEFINE b == o[1]
             last == remaining[b] = 1
  <2>1. o = <<b, o[2]>> /\ b \in Batches /\ o[2] \in 1..Width
    OBVIOUS
  <2>2. /\ phase[o] = "counted" /\ loop' = loop /\ batch' = batch /\ lost' = lost
        /\ remaining' = [remaining EXCEPT ![b] = @ - 1]
        /\ \A x \in Actors \ {o} : phase'[x] = phase[x]
        /\ last /\ onLoop # o => phase'[o] = "finish"
        /\ fut' = IF last /\ onLoop = o THEN Resolve({b}) ELSE fut
    BY <1>10 DEF Store, batcherVars
  <2>3. \A f \in Futures : Cared(f) => Cared(f)'
    BY <2>2 DEF Resolve
  <2>4. ASSUME NEW c \in Batches, remaining'[c] = 0, remaining[c] # 0
        PROVE  Cared(c)' \/ \E i \in 1..Width : phase'[<<c, i>>] = "finish"
    <3>1. c = b /\ last
      BY <2>1, <2>2, <2>4
    <3> QED
      BY <2>1, <2>2, <3>1 DEF Resolve
  <2>5. ASSUME NEW c \in Batches, NEW i \in 1..Width, phase[<<c, i>>] = "finish"
        PROVE  phase'[<<c, i>>] = "finish"
    BY <2>2, <2>5
  <2> QED
    BY <2>2, <2>3, <2>4, <2>5 DEF Carried
<1>11. ASSUME NEW o \in Spans, PushBatch(o) PROVE Carried
  BY <1>11 DEF PushBatch, resultVars, loopVars, Carried
<1>12. ASSUME NEW a \in Actors, CallSoonFails(a) PROVE Carried
  BY <1>12 DEF CallSoonFails, resultVars, Finished, Carried
<1>13. ASSUME NEW a \in Actors, Flush(a) PROVE Carried
  BY <1>13 DEF Flush, resultVars, Finished, Carried
<1>14. ASSUME NEW a \in Actors, CallSoon(a) PROVE Carried
  BY <1>14 DEF CallSoon, resultVars, Finished, Carried
<1>15. ASSUME NEW a \in Actors, Discard(a) PROVE FALSE
  BY <1>15 DEF Discard, DiscardWhenClosed
<1>16. ASSUME NEW f \in Futures, Cancel(f) PROVE Carried
  BY <1>16 DEF Cancel, batcherVars, loopVars, Carried
<1>17. CASE EndHarvest
  BY <1>17, <1>0 DEF EndHarvest, batcherVars, resultVars, Carried
<1>18. ASSUME NEW b \in Batches, SubmitSpan(b) PROVE Carried
  <2>1. phase[reading] = "new" /\ reading \in Spans
    BY <1>18, HandNew DEF SubmitSpan
  <2> QED
    BY <1>18, <2>1 DEF SubmitSpan, batcherVars, resultVars, Carried
<1>19. ASSUME NEW b \in Batches, InlineSpan(b) PROVE Carried
  <2>1. phase[reading] = "new" /\ reading \in Spans
    BY <1>19, HandNew DEF InlineSpan
  <2>2. /\ loop' = loop /\ batch' = batch /\ lost' = lost
        /\ remaining' = [remaining EXCEPT ![b] = @ - 1]
        /\ fut' = IF remaining'[b] = 0 THEN Resolve({b}) ELSE fut
        /\ \A x \in Actors \ {reading} : phase'[x] = phase[x]
    BY <1>19, <2>1 DEF InlineSpan, batcherVars, Finished
  <2> QED
    BY <2>1, <2>2 DEF Resolve, Carried
<1>20. ASSUME NEW b \in Batches, SpanThrows(b) PROVE Carried
  <2> DEFINE Rest == {<<b, i>> : i \in reading[2]..Width}
  <2>1. AtSpan(b)
    BY <1>20 DEF SpanThrows
  <2>2. /\ \A i \in reading[2]..Width : phase[<<b, i>>] = "new"
        /\ reading[2] \in 1..Width
    BY <2>1, SpanAtHand
  <2>3. Rest \cap Singles = {} /\ \A x \in Rest : phase[x] = "new"
    BY <2>2, NumbersPositive
  <2>4. /\ loop' = loop /\ batch' = batch /\ lost' = lost
        /\ \A c \in Batches \ {b} : remaining'[c] = remaining[c]
        /\ fut' = IF remaining'[b] = 0 THEN Resolve({b}) ELSE fut
        /\ \A x \in Actors : x \notin Rest => phase'[x] = phase[x]
    BY <1>20 DEF SpanThrows, batcherVars
  <2> HIDE DEF Rest
  <2> QED
    BY <2>3, <2>4 DEF Resolve, Carried
<1>21. CASE Drain
  <2>1. loop = "open"
    BY <1>21 DEF Drain, LoopIdle
  <2>2. Carried
    BY <1>21, <2>1 DEF Drain, loopVars, Resolve, Carried
  <2> QED
    BY <1>0, <2>2
<1>22. CASE Sweep
  <2>1. \A x \in Ops : phase'[x] = phase[x]
    BY <1>22, NamesDiffer DEF Sweep, Actors
  <2>2. Carried
    BY <1>22, <2>1 DEF Sweep, resultVars, loopVars, Carried, Ops
  <2> QED
    BY <1>0, <2>2
<1>23. CASE CloseLoop
  BY <1>23 DEF CloseLoop
<1>24. CASE UNCHANGED vars
  BY <1>24, <1>0 DEF vars, batcherVars, resultVars, loopVars, Carried
<1>25. CASE WaitForPackets
  BY <1>25, <1>0 DEF WaitForPackets, batcherVars, resultVars, loopVars, Carried
<1> QED
  BY <1>0, <1>1, <1>2, <1>3, <1>4, <1>5, <1>6, <1>7, <1>8, <1>9, <1>10, <1>11, <1>12,
     <1>13, <1>14, <1>15, <1>16, <1>17, <1>18, <1>19, <1>20, <1>21, <1>22, <1>23, <1>24,
     <1>25
     DEF Next, Arrive, Complete, LoopStep, Ops
------------------------------------------------------------------------------
(* The theorems.                                                           *)

\* The invariant holds at first.
LEMMA InvInit == Init => Inv
<1> SUFFICES ASSUME Init PROVE Inv
  OBVIOUS
<1> USE NumbersPositive, SpanNames DEF Init
<1>1. Shape
  <2>1. reading \in (Batches \union {None}) \X (1..Width)
    OBVIOUS
  <2>2. remaining \in [Batches -> Int]
    OBVIOUS
  <2>3. phase \in [Actors -> Phases] /\ dispatch \in BOOLEAN /\ drains \in Nat
    BY DEF Phases
  <2>4. fut \in [Futures -> {"pending", "resolved", "cancelled", "dropped"}]
    OBVIOUS
  <2> QED
    BY <2>1, <2>2, <2>3, <2>4 DEF Shape
<1>2. Scheduling = {} /\ Cardinality({}) = 0
  BY FS_EmptySet DEF Scheduling
<1>3. OneDrain
  BY <1>2 DEF OneDrain
<1>4. DiscardWhenClosed /\ SpansAhead
  BY DEF DiscardWhenClosed, SpansAhead
<1>5. NothingLost
  BY DEF NothingLost
<1> QED
  BY <1>1, <1>3, <1>4, <1>5 DEF Inv

\* ... and always.
THEOREM Invariance == Spec => []Inv
<1>1. Inv /\ [Next]_vars => Inv'
  BY ShapeStep, AheadStep, DrainStep, DiscardStep, NothingLostStep DEF Inv
<1> QED
  BY <1>1, InvInit, PTL DEF Spec

\* While the loop is open, m_dispatch_pending stands for exactly one drain that
\* is scheduled or being scheduled, whoever flushes, sweeps, fails or drains at
\* the same time.
THEOREM OneDrainAlways == Spec => []OneDrain
<1>1. Inv => OneDrain
  BY DEF Inv
<1> QED
  BY <1>1, Invariance, PTL

\* While the loop is open, no operation that was answered loses its result
\* between the batch, the flush, the drain and the future.
THEOREM NothingLostAlways == Spec => []NothingLost
<1>1. Inv => NothingLost
  BY DEF Inv
<1> QED
  BY <1>1, Invariance, PTL
------------------------------------------------------------------------------
(***************************************************************************)
(* The types and the exact count of operations in flight, that a read_many *)
(* answers once and only when its last span is in, and that no result of a *)
(* single operation is left behind.                                        *)
(***************************************************************************)

\* An operation whose submitted_ flag is still to be looked at.
Uncounted(o) == phase[o] = "inflight" \/ (o \in Singles /\ phase[o] = "answered")

\* m_outstanding is the number of flags that are set.
Counts ==
  /\ submitted \subseteq Ops /\ outstanding = Cardinality(submitted)
  /\ \A o \in Ops : phase[o] = "new" => o \notin submitted
  /\ \A o \in Ops : Uncounted(o) => o \in submitted

\* The spans of a read_many whose slot is not filled.
Left(b) == {i \in 1..Width : phase[<<b, i>>] \in {"new", "inflight", "counted"}}
Lefts == \A b \in Batches : remaining[b] = Cardinality(Left(b))

Finishing(b) == \E i \in 1..Width : phase[<<b, i>>] = "finish"

\* A future is on one way to its answer: for a read_many that of one span.
Answers ==
  /\ \A b \in Batches : b \in batch \/ fut[b] = "resolved" \/ Finishing(b) => remaining[b] = 0
  /\ \A b \in Batches : Finishing(b) => b \notin batch /\ fut[b] # "resolved"
  /\ \A b \in Batches : \A i, j \in 1..Width :
       phase[<<b, i>>] = "finish" /\ phase[<<b, j>>] = "finish" => i = j
  /\ \A b \in Batches : fut[b] # "dropped"
  /\ \A o \in Singles : phase[o] \in {"new", "inflight"} =>
       o \notin batch /\ fut[o] \in {"pending", "cancelled"}
  /\ \A f \in batch : fut[f] \in {"pending", "cancelled"}
  /\ batch \subseteq Futures

\* The types that nothing above depends on.
Rest ==
  /\ trigger \in [Singles -> BOOLEAN]
  /\ timed \in BOOLEAN
  /\ lost \subseteq Singles
  /\ loop \in {"open", "closed"}
  /\ harvesting \in BOOLEAN
  /\ onLoop \in Ops \union {None}

ReadInv == Inv /\ Counts /\ Lefts /\ Answers /\ Rest
------------------------------------------------------------------------------
(* The count.                                                              *)

\* There are finitely many flags.
LEMMA SubmittedFinite == submitted \subseteq Ops => IsFiniteSet(submitted)
BY ActorsFinite, FS_Subset DEF Actors

\* A flag is set and counted, as one.
LEMMA CountUp ==
  ASSUME Counts, NEW o \in Ops, phase[o] = "new",
         submitted' = submitted \union {o}, outstanding' = outstanding + 1
  PROVE  submitted' \subseteq Ops /\ outstanding' = Cardinality(submitted')
<1>1. o \notin submitted /\ IsFiniteSet(submitted)
  BY SubmittedFinite DEF Counts
<1> QED
  BY <1>1, FS_AddElement DEF Counts

\* It is cleared and counted down.
LEMMA CountDown ==
  ASSUME Counts, NEW o \in Ops, Uncounted(o),
         submitted' = submitted \ {o}, outstanding' = outstanding - 1
  PROVE  submitted' \subseteq Ops /\ outstanding' = Cardinality(submitted')
<1>1. o \in submitted /\ IsFiniteSet(submitted)
  BY SubmittedFinite DEF Counts
<1> QED
  BY <1>1, FS_RemoveElement DEF Counts

\* Other steps make no operation new and none that is still to be counted.
LEMMA CountsFrame ==
  ASSUME Counts, UNCHANGED countVars,
         \A o \in Ops : phase'[o] # phase[o] =>
           phase'[o] # "new" /\ (Uncounted(o)' => Uncounted(o))
  PROVE  Counts'
BY DEF Counts, countVars, Uncounted

\* Every step keeps the count.
LEMMA CountsStep == Shape /\ SpansAhead /\ Counts /\ [Next]_vars => Counts'
<1> SUFFICES ASSUME Shape, SpansAhead, Counts, [Next]_vars PROVE Counts'
  OBVIOUS
<1> DEFINE Same == /\ UNCHANGED countVars
                   /\ \A o \in Ops : phase'[o] # phase[o] =>
                        phase'[o] # "new" /\ (Uncounted(o)' => Uncounted(o))
<1>0. Same => Counts'
  BY CountsFrame
<1> USE SpanNames DEF Shape, Ops, countVars
<1>1. ASSUME NEW o \in Singles, Submit(o) PROVE Counts'
  <2>1. /\ phase[o] = "new" /\ submitted' = submitted \union {o}
        /\ outstanding' = outstanding + 1 /\ phase' = [phase EXCEPT ![o] = "inflight"]
    BY <1>1 DEF Submit
  <2>2. submitted' \subseteq Ops /\ outstanding' = Cardinality(submitted')
    BY <2>1, CountUp
  <2> QED
    BY <2>1, <2>2 DEF Counts, Uncounted
<1>2. ASSUME NEW o \in Singles, SubmitInline(o) PROVE Same
  BY <1>2 DEF SubmitInline, Finished, Uncounted
<1>3. ASSUME NEW o \in Singles, SubmitThrows(o) PROVE Counts'
  <2>1. phase[o] = "new" /\ phase' = Finished(o)
    BY <1>3 DEF SubmitThrows
  <2>2. CASE UNCHANGED countVars
    BY <2>1, <2>2, <1>0 DEF Finished, Uncounted
  <2>3. CASE submitted' = submitted \union {o} /\ outstanding' = outstanding + 1
    <3>1. submitted' \subseteq Ops /\ outstanding' = Cardinality(submitted')
      BY <2>1, <2>3, CountUp
    <3> QED
      BY <2>1, <2>3, <3>1, NamesDiffer DEF Counts, Uncounted, Finished
  <2> QED
    BY <1>3, <2>2, <2>3 DEF SubmitThrows
<1>4. ASSUME NEW o \in Singles, Harvest(o) PROVE Same
  BY <1>4 DEF Harvest, Uncounted
<1>5. ASSUME NEW b \in Batches, BeginReadMany(b) PROVE Same
  BY <1>5 DEF BeginReadMany
<1>6. ASSUME NEW o \in Singles, Push(o) PROVE Same
  BY <1>6 DEF Push, Uncounted
<1>7. ASSUME NEW o \in Singles, ConvertFails(o) PROVE Same
  BY <1>7 DEF ConvertFails, Uncounted
<1>8. ASSUME NEW o \in Spans, CountSpan(o) PROVE Counts'
  <2>1. /\ phase[o] = "inflight" /\ submitted' = submitted \ {o}
        /\ outstanding' = outstanding - 1 /\ phase' = [phase EXCEPT ![o] = "counted"]
    BY <1>8 DEF CountSpan
  <2>2. submitted' \subseteq Ops /\ outstanding' = Cardinality(submitted')
    BY <2>1, CountDown DEF Uncounted
  <2> QED
    BY <2>1, <2>2 DEF Counts, Uncounted
<1>9. ASSUME NEW o \in Singles, Count(o) PROVE Counts'
  <2>1. /\ phase[o] = "answered" /\ submitted' = submitted \ {o}
        /\ outstanding' = outstanding - 1
        /\ \A x \in Ops \ {o} : phase'[x] = phase[x]
        /\ phase'[o] \in {"flush", "done"}
    BY <1>9 DEF Count
  <2>2. submitted' \subseteq Ops /\ outstanding' = Cardinality(submitted')
    BY <2>1, CountDown DEF Uncounted
  <2> QED
    BY <2>1, <2>2 DEF Counts, Uncounted
<1>10. ASSUME NEW o \in Spans, Store(o) PROVE Same
  BY <1>10 DEF Store, Uncounted
<1>11. ASSUME NEW o \in Spans, PushBatch(o) PROVE Same
  BY <1>11 DEF PushBatch, Uncounted
<1>12. ASSUME NEW a \in Actors, CallSoonFails(a) PROVE Same
  BY <1>12, NamesDiffer DEF CallSoonFails, Finished, Uncounted
<1>13. ASSUME NEW a \in Actors, Flush(a) PROVE Same
  BY <1>13, NamesDiffer DEF Flush, Finished, Uncounted
<1>14. ASSUME NEW a \in Actors, CallSoon(a) PROVE Same
  BY <1>14, NamesDiffer DEF CallSoon, Finished, Uncounted
<1>15. ASSUME NEW a \in Actors, Discard(a) PROVE Same
  BY <1>15, NamesDiffer DEF Discard, Finished, Uncounted
<1>16. ASSUME NEW f \in Futures, Cancel(f) PROVE Same
  BY <1>16 DEF Cancel
<1>17. CASE EndHarvest
  BY <1>17, <1>0 DEF EndHarvest
<1>18. ASSUME NEW b \in Batches, SubmitSpan(b) PROVE Counts'
  <2>1. AtSpan(b) /\ submitted' = submitted \union {reading} /\ outstanding' = outstanding + 1
        /\ phase' = [phase EXCEPT ![reading] = "inflight"]
    BY <1>18 DEF SubmitSpan
  <2>2. reading \in Spans /\ phase[reading] = "new"
    BY <2>1, HandNew
  <2>3. submitted' \subseteq Ops /\ outstanding' = Cardinality(submitted')
    BY <2>1, <2>2, CountUp
  <2> QED
    BY <2>1, <2>2, <2>3 DEF Counts, Uncounted
<1>19. ASSUME NEW b \in Batches, InlineSpan(b) PROVE Same
  <2>1. reading \in Spans /\ phase[reading] = "new"
    BY <1>19, HandNew DEF InlineSpan
  <2> QED
    BY <1>19, <2>1 DEF InlineSpan, Finished, Uncounted
<1>20. ASSUME NEW b \in Batches, SpanThrows(b) PROVE Counts'
  <2>1. reading \in Spans /\ phase[reading] = "new"
    BY <1>20, HandNew DEF SpanThrows
  <2>2. /\ \A x \in Ops : phase'[x] = phase[x] \/ phase'[x] = "done"
        /\ phase'[reading] = "done"
    <3>1. reading = <<b, reading[2]>> /\ reading[2] \in 1..Width
      BY <1>20, SpanAtHand DEF SpanThrows
    <3>2. reading[2] \in reading[2]..Width
      BY <3>1, NumbersPositive
    <3> QED
      BY <1>20, <2>1, <3>1, <3>2, NamesDiffer DEF SpanThrows, Actors
  <2>3. CASE UNCHANGED countVars
    BY <2>2, <2>3, <1>0 DEF Uncounted
  <2>4. CASE submitted' = submitted \union {reading} /\ outstanding' = outstanding + 1
    <3>1. submitted' \subseteq Ops /\ outstanding' = Cardinality(submitted')
      BY <2>1, <2>4, CountUp
    <3> QED
      BY <2>2, <2>4, <3>1 DEF Counts, Uncounted
  <2> QED
    BY <1>20, <2>3, <2>4 DEF SpanThrows
<1>21. CASE Drain
  BY <1>21, <1>0 DEF Drain
<1>22. CASE Sweep
  BY <1>22, <1>0, NamesDiffer DEF Sweep
<1>23. CASE CloseLoop
  BY <1>23, <1>0 DEF CloseLoop
<1>24. CASE UNCHANGED vars
  BY <1>24, <1>0 DEF vars
<1>25. CASE WaitForPackets
  BY <1>25, <1>0 DEF WaitForPackets
<1> QED
  BY <1>0, <1>1, <1>2, <1>3, <1>4, <1>5, <1>6, <1>7, <1>8, <1>9, <1>10, <1>11, <1>12,
     <1>13, <1>14, <1>15, <1>16, <1>17, <1>18, <1>19, <1>20, <1>21, <1>22, <1>23, <1>24,
     <1>25
     DEF Next, Arrive, Complete, LoopStep
------------------------------------------------------------------------------
(* The spans of a read_many.                                               *)

\* There are Width of them.
LEMMA WidthCount == Cardinality(1..Width) = Width
BY NumbersPositive, FS_Interval

\* They are finitely many, so that each can be counted.
LEMMA LeftFinite == \A b : IsFiniteSet(Left(b)) /\ IsFiniteSet(1..Width)
<1>1. IsFiniteSet(1..Width)
  BY NumbersPositive, FS_Interval
<1>2. \A b : Left(b) \subseteq 1..Width
  BY DEF Left
<1> QED
  BY <1>1, <1>2, FS_Subset

\* A slot that is to be filled: the counter is not zero yet.
LEMMA LeftCounts ==
  ASSUME Lefts, NEW b \in Batches
  PROVE  /\ remaining[b] \in Nat
         /\ \A i \in Left(b) : remaining[b] # 0
         /\ remaining[b] = 0 => Left(b) = {}
         /\ remaining[b] <= Width
<1>1. IsFiniteSet(Left(b)) /\ IsFiniteSet(1..Width) /\ Left(b) \subseteq 1..Width
  BY LeftFinite DEF Left
<1>2. remaining[b] = Cardinality(Left(b))
  BY DEF Lefts
<1>3. Cardinality(Left(b)) <= Width
  BY <1>1, WidthCount, FS_Subset
<1> QED
  BY <1>1, <1>2, <1>3, FS_CardinalityType, FS_EmptySet

\* A step that fills no slot.
SlotsStay ==
  /\ UNCHANGED remaining
  /\ \A o \in Spans : phase'[o] \in {"new", "inflight", "counted"}
                        <=> phase[o] \in {"new", "inflight", "counted"}

\* Such a step keeps the counters.
LEMMA SlotsStayKeeps == Lefts /\ SlotsStay => Lefts'
<1> SUFFICES ASSUME Lefts, SlotsStay, NEW b \in Batches
             PROVE  remaining'[b] = Cardinality(Left(b)')
  BY DEF Lefts
<1>1. Left(b)' = Left(b)
  BY SpanNames DEF Left, SlotsStay
<1> QED
  BY <1>1 DEF Lefts, SlotsStay

\* A step that fills the slots of the spans in S of one read_many.
LEMMA FillKeeps ==
  ASSUME Lefts, NEW b \in Batches, NEW S \in SUBSET Left(b), Shape,
         remaining' = [remaining EXCEPT ![b] = @ - Cardinality(S)],
         \A i \in 1..Width : phase'[<<b, i>>] \in {"new", "inflight", "counted"}
           <=> phase[<<b, i>>] \in {"new", "inflight", "counted"} /\ i \notin S,
         \A o \in Spans : o[1] # b => phase'[o] = phase[o]
  PROVE  Lefts'
<1>1. Left(b)' = Left(b) \ S
  BY DEF Left
<1>2. \A c \in Batches \ {b} : Left(c)' = Left(c)
  BY SpanNames DEF Left
<1>3. Cardinality(Left(b) \ S) = Cardinality(Left(b)) - Cardinality(S)
  <2>1. Left(b) \cap S = S
    OBVIOUS
  <2> QED
    BY <2>1, LeftFinite, FS_Difference
<1>4. remaining'[b] = remaining[b] - Cardinality(S) /\ \A c \in Batches \ {b} : remaining'[c] = remaining[c]
  BY DEF Shape
<1> QED
  BY <1>1, <1>2, <1>3, <1>4 DEF Lefts

\* One slot is filled.
LEMMA FillOne ==
  ASSUME Lefts, NEW o \in Spans, Shape,
         remaining' = [remaining EXCEPT ![o[1]] = @ - 1],
         phase[o] \in {"new", "inflight", "counted"},
         phase'[o] \notin {"new", "inflight", "counted"},
         \A x \in Spans \ {o} : phase'[x] = phase[x]
  PROVE  Lefts'
<1> DEFINE b == o[1]
           S == {o[2]}
<1>1. b \in Batches /\ o[2] \in 1..Width /\ o = <<b, o[2]>>
  BY SpanNames
<1>2. S \subseteq Left(b)
  BY <1>1 DEF Left
<1>3. Cardinality(S) = 1
  BY FS_Singleton
<1>4. \A i \in 1..Width : phase'[<<b, i>>] \in {"new", "inflight", "counted"}
        <=> phase[<<b, i>>] \in {"new", "inflight", "counted"} /\ i \notin S
  BY <1>1, SpanNames
<1>5. \A x \in Spans : x[1] # b => phase'[x] = phase[x]
  OBVIOUS
<1>6. remaining' = [remaining EXCEPT ![b] = @ - Cardinality(S)]
  BY <1>3
<1> HIDE DEF b, S
<1> QED
  BY <1>1, <1>2, <1>4, <1>5, <1>6, FillKeeps

\* Every step keeps the counters of the read_many calls.
LEMMA LeftsStep == Shape /\ SpansAhead /\ Lefts /\ [Next]_vars => Lefts'
<1> SUFFICES ASSUME Shape, SpansAhead, Lefts, [Next]_vars PROVE Lefts'
  OBVIOUS
<1>0. SlotsStay => Lefts'
  BY SlotsStayKeeps
<1> USE SpanNames DEF Shape
<1>1. ASSUME NEW o \in Singles, Submit(o) PROVE SlotsStay
  BY <1>1 DEF Submit, resultVars, SlotsStay
<1>2. ASSUME NEW o \in Singles, SubmitInline(o) PROVE SlotsStay
  BY <1>2 DEF SubmitInline, Finished, SlotsStay
<1>3. ASSUME NEW o \in Singles, SubmitThrows(o) PROVE SlotsStay
  BY <1>3 DEF SubmitThrows, Finished, SlotsStay
<1>4. ASSUME NEW o \in Singles, Harvest(o) PROVE SlotsStay
  BY <1>4 DEF Harvest, SlotsStay
<1>5. ASSUME NEW b \in Batches, BeginReadMany(b) PROVE SlotsStay
  BY <1>5 DEF BeginReadMany, resultVars, SlotsStay
<1>6. ASSUME NEW o \in Singles, Push(o) PROVE SlotsStay
  BY <1>6 DEF Push, resultVars, SlotsStay
<1>7. ASSUME NEW o \in Singles, ConvertFails(o) PROVE SlotsStay
  BY <1>7 DEF ConvertFails, SlotsStay
<1>8. ASSUME NEW o \in Spans, CountSpan(o) PROVE SlotsStay
  BY <1>8 DEF CountSpan, resultVars, SlotsStay
<1>9. ASSUME NEW o \in Singles, Count(o) PROVE SlotsStay
  BY <1>9 DEF Count, resultVars, SlotsStay
<1>10. ASSUME NEW o \in Spans, Store(o) PROVE Lefts'
  <2>1. /\ phase[o] = "counted" /\ phase'[o] \in {"finish", "done"}
        /\ remaining' = [remaining EXCEPT ![o[1]] = @ - 1]
        /\ \A x \in Spans \ {o} : phase'[x] = phase[x]
    BY <1>10 DEF Store
  <2> QED
    BY <2>1, FillOne
<1>11. ASSUME NEW o \in Spans, PushBatch(o) PROVE SlotsStay
  BY <1>11 DEF PushBatch, resultVars, SlotsStay
<1>12. ASSUME NEW a \in Actors, CallSoonFails(a) PROVE SlotsStay
  BY <1>12 DEF CallSoonFails, resultVars, Finished, SlotsStay
<1>13. ASSUME NEW a \in Actors, Flush(a) PROVE SlotsStay
  BY <1>13 DEF Flush, resultVars, Finished, SlotsStay
<1>14. ASSUME NEW a \in Actors, CallSoon(a) PROVE SlotsStay
  BY <1>14 DEF CallSoon, resultVars, Finished, SlotsStay
<1>15. ASSUME NEW a \in Actors, Discard(a) PROVE SlotsStay
  BY <1>15 DEF Discard, resultVars, Finished, SlotsStay
<1>16. ASSUME NEW f \in Futures, Cancel(f) PROVE SlotsStay
  BY <1>16 DEF Cancel, SlotsStay
<1>17. CASE EndHarvest
  BY <1>17, <1>0 DEF EndHarvest, resultVars, SlotsStay
<1>18. ASSUME NEW b \in Batches, SubmitSpan(b) PROVE SlotsStay
  <2>1. phase[reading] = "new" /\ reading \in Spans
    BY <1>18, HandNew DEF SubmitSpan
  <2> QED
    BY <1>18, <2>1 DEF SubmitSpan, resultVars, SlotsStay
<1>19. ASSUME NEW b \in Batches, InlineSpan(b) PROVE Lefts'
  <2>1. phase[reading] = "new" /\ reading \in Spans /\ reading[1] = b
    BY <1>19, HandNew DEF InlineSpan, AtSpan
  <2>2. /\ phase'[reading] = "done" /\ remaining' = [remaining EXCEPT ![reading[1]] = @ - 1]
        /\ \A x \in Spans \ {reading} : phase'[x] = phase[x]
    BY <1>19, <2>1 DEF InlineSpan, Finished
  <2> QED
    BY <2>1, <2>2, FillOne
<1>20. ASSUME NEW b \in Batches, SpanThrows(b) PROVE Lefts'
  <2> DEFINE j == reading[2]
             S == j..Width
  <2>1. j \in 1..Width /\ \A i \in S : phase[<<b, i>>] = "new"
    BY <1>20, SpanAtHand DEF SpanThrows
  <2>2. S \subseteq 1..Width /\ Cardinality(S) = Width + 1 - j
    BY <2>1, NumbersPositive, FS_Interval
  <2>3. S \subseteq Left(b)
    BY <2>1, <2>2 DEF Left
  <2>4. /\ remaining' = [remaining EXCEPT ![b] = @ - (Width + 1 - j)]
        /\ phase' = [a \in Actors |-> IF a \in {<<b, i>> : i \in S} THEN "done" ELSE phase[a]]
    BY <1>20 DEF SpanThrows
  <2>5. remaining' = [remaining EXCEPT ![b] = @ - Cardinality(S)]
    BY <2>2, <2>4
  <2> HIDE DEF S
  <2>6. \A o \in Spans : o[1] # b => phase'[o] = phase[o]
    BY <2>4
  <2>7. \A i \in 1..Width : phase'[<<b, i>>] = IF i \in S THEN "done" ELSE phase[<<b, i>>]
    BY <2>4
  <2>8. \A i \in 1..Width : phase'[<<b, i>>] \in {"new", "inflight", "counted"}
          <=> phase[<<b, i>>] \in {"new", "inflight", "counted"} /\ i \notin S
    BY <2>3, <2>7 DEF Left
  <2>9. S \in SUBSET Left(b)
    BY <2>3
  <2> QED
    BY <2>5, <2>6, <2>8, <2>9, FillKeeps
<1>21. CASE Drain
  BY <1>21, <1>0 DEF Drain, SlotsStay
<1>22. CASE Sweep
  BY <1>22, <1>0 DEF Sweep, resultVars, SlotsStay
<1>23. CASE CloseLoop
  BY <1>23, <1>0 DEF CloseLoop, resultVars, SlotsStay
<1>24. CASE UNCHANGED vars
  BY <1>24, <1>0 DEF vars, resultVars, SlotsStay
<1>25. CASE WaitForPackets
  BY <1>25, <1>0 DEF WaitForPackets, resultVars, SlotsStay
<1> QED
  BY <1>0, <1>1, <1>2, <1>3, <1>4, <1>5, <1>6, <1>7, <1>8, <1>9, <1>10, <1>11, <1>12,
     <1>13, <1>14, <1>15, <1>16, <1>17, <1>18, <1>19, <1>20, <1>21, <1>22, <1>23, <1>24,
     <1>25
     DEF Next, Arrive, Complete, LoopStep, Ops
------------------------------------------------------------------------------
(* Answers.                                                                *)

\* A span that fills the last slot finds its read_many untouched by any other:
\* not answered, not in the batch, with nobody finishing it.
LEMMA Untouched ==
  ASSUME Lefts, Answers, NEW o \in Spans, phase[o] \in {"new", "inflight", "counted"}
  PROVE  /\ remaining[o[1]] \in Nat \ {0}
         /\ o[1] \notin batch /\ fut[o[1]] # "resolved" /\ ~Finishing(o[1])
<1>1. o[1] \in Batches /\ o[2] \in Left(o[1])
  BY SpanNames DEF Left
<1>2. remaining[o[1]] \in Nat \ {0}
  BY <1>1, LeftCounts
<1> QED
  BY <1>1, <1>2 DEF Answers

\* A step that neither answers nor finishes: futures and counters stay, entries
\* may leave the batch.
NoAnswer ==
  /\ UNCHANGED <<fut, remaining>> /\ batch' \subseteq batch
  /\ \A o \in Spans : phase'[o] = "finish" <=> phase[o] = "finish"
  /\ \A o \in Singles : phase'[o] \in {"new", "inflight"} => phase[o] \in {"new", "inflight"}

\* Such a step keeps the answers apart.
LEMMA NoAnswerKeeps == Answers /\ NoAnswer => Answers'
<1> SUFFICES ASSUME Answers, NoAnswer PROVE Answers'
  OBVIOUS
<1>1. \A b \in Batches : Finishing(b)' <=> Finishing(b)
  BY SpanNames DEF NoAnswer, Finishing
<1>2. \A b \in Batches : \A i \in 1..Width :
        phase'[<<b, i>>] = "finish" <=> phase[<<b, i>>] = "finish"
  BY SpanNames DEF NoAnswer
<1> QED
  BY <1>1, <1>2 DEF Answers, NoAnswer

\* A single operation is answered or dropped.
LEMMA SingleAnswer ==
  ASSUME Shape, Answers, NEW o \in Singles, phase[o] \in {"new", "inflight"},
         UNCHANGED <<batch, remaining>>,
         \/ fut' = Resolve({o})
         \/ fut' = [fut EXCEPT ![o] = "dropped"],
         phase'[o] \notin {"new", "inflight"}, \A x \in Ops \ {o} : phase'[x] = phase[x]
  PROVE  Answers'
<1>1. \A x \in Spans : phase'[x] = phase[x]
  BY SpanNames DEF Ops
<1>2. \A b \in Batches : Finishing(b)' <=> Finishing(b)
  BY <1>1, SpanNames DEF Finishing
<1>3. \A b \in Batches : \A i \in 1..Width : phase'[<<b, i>>] = phase[<<b, i>>]
  BY <1>1, SpanNames
<1>4. \A f \in Futures \ {o} : fut'[f] = fut[f]
  BY DEF Shape, Resolve
<1>5. o \notin batch
  BY DEF Answers
<1>6. \A b \in Batches : fut'[b] = fut[b]
  BY <1>4, SpanNames
<1> QED
  BY <1>2, <1>3, <1>4, <1>5, <1>6, SpanNames DEF Answers, Ops

\* A read_many is answered by the span that fills its last slot, on the loop.
LEMMA SpanAnswer ==
  ASSUME Shape, Lefts, Answers, NEW o \in Spans, phase[o] \in {"new", "inflight", "counted"},
         UNCHANGED batch,
         \A c \in Batches \ {o[1]} : remaining'[c] = remaining[c],
         fut' = (IF remaining'[o[1]] = 0 THEN Resolve({o[1]}) ELSE fut),
         \A x \in Spans : phase'[x] = "finish" <=> phase[x] = "finish",
         \A x \in Singles : phase'[x] = phase[x]
  PROVE  Answers'
<1> DEFINE b == o[1]
<1>0. b \in Batches
  BY SpanNames
<1>1. remaining[b] \in Nat \ {0} /\ b \notin batch /\ fut[b] # "resolved" /\ ~Finishing(b)
  BY Untouched
<1>2. \A c \in Batches : Finishing(c)' <=> Finishing(c)
  BY SpanNames DEF Finishing
<1>3. \A c \in Batches : \A i \in 1..Width :
        phase'[<<c, i>>] = "finish" <=> phase[<<c, i>>] = "finish"
  BY SpanNames
<1>4. /\ \A f \in Futures \ {b} : fut'[f] = fut[f]
      /\ fut'[b] = fut[b] \/ (fut'[b] = "resolved" /\ remaining'[b] = 0)
  BY <1>0, SpanNames DEF Shape, Resolve
<1> HIDE DEF b
<1>5. /\ \A c \in Batches \ {b} : fut'[c] = fut[c]
      /\ \A s \in Singles : fut'[s] = fut[s]
      /\ \A f \in batch : fut'[f] = fut[f]
  BY <1>0, <1>1, <1>4, SpanNames DEF Answers
<1>6. \A c \in Batches : c \in batch \/ fut'[c] = "resolved" \/ Finishing(c) => remaining'[c] = 0
  <2>1. ASSUME NEW c \in Batches, c # b, c \in batch \/ fut'[c] = "resolved" \/ Finishing(c)
        PROVE  remaining'[c] = 0
    <3>1. fut'[c] = fut[c] /\ remaining'[c] = remaining[c]
      BY <1>5, <2>1 DEF b
    <3> QED
      BY <2>1, <3>1 DEF Answers
  <2> QED
    BY <1>1, <1>4, <2>1
<1>7. \A c \in Batches : Finishing(c) => c \notin batch /\ fut'[c] # "resolved"
  <2>1. ASSUME NEW c \in Batches, Finishing(c) PROVE c \notin batch /\ fut'[c] # "resolved"
    <3>1. c # b
      BY <1>1, <2>1
    <3>2. fut'[c] = fut[c]
      BY <1>5, <3>1
    <3> QED
      BY <2>1, <3>2 DEF Answers
  <2> QED
    BY <2>1
<1>8. \A c \in Batches : fut'[c] # "dropped"
  BY <1>4, <1>5 DEF Answers
<1> QED
  BY <1>2, <1>3, <1>5, <1>6, <1>7, <1>8 DEF Answers

\* Every step keeps the answers apart.
LEMMA AnswersStep == Shape /\ SpansAhead /\ Lefts /\ Answers /\ [Next]_vars => Answers'
<1> SUFFICES ASSUME Shape, SpansAhead, Lefts, Answers, [Next]_vars PROVE Answers'
  OBVIOUS
<1>0. NoAnswer => Answers'
  BY NoAnswerKeeps
<1> USE SpanNames, NamesDiffer DEF Shape
<1>1. ASSUME NEW o \in Singles, Submit(o) PROVE NoAnswer
  BY <1>1 DEF Submit, batcherVars, resultVars, NoAnswer
<1>2. ASSUME NEW o \in Singles, SubmitInline(o) PROVE Answers'
  <2>1. /\ phase[o] = "new" /\ fut' = Resolve({o}) /\ phase'[o] = "done"
        /\ UNCHANGED <<batch, remaining>> /\ \A x \in Ops \ {o} : phase'[x] = phase[x]
    BY <1>2 DEF SubmitInline, batcherVars, Finished, Ops, Actors
  <2> QED
    BY <2>1, SingleAnswer
<1>3. ASSUME NEW o \in Singles, SubmitThrows(o) PROVE Answers'
  <2>1. /\ phase[o] = "new" /\ fut' = [fut EXCEPT ![o] = "dropped"] /\ phase'[o] = "done"
        /\ UNCHANGED <<batch, remaining>> /\ \A x \in Ops \ {o} : phase'[x] = phase[x]
    BY <1>3 DEF SubmitThrows, batcherVars, Finished, Ops, Actors
  <2> QED
    BY <2>1, SingleAnswer
<1>4. ASSUME NEW o \in Singles, Harvest(o) PROVE Answers'
  <2>1. /\ phase[o] = "inflight" /\ fut' = Resolve({o}) /\ phase'[o] = "answered"
        /\ UNCHANGED <<batch, remaining>> /\ \A x \in Ops \ {o} : phase'[x] = phase[x]
    BY <1>4 DEF Harvest, batcherVars, Ops, Actors
  <2> QED
    BY <2>1, SingleAnswer
<1>5. ASSUME NEW b \in Batches, BeginReadMany(b) PROVE NoAnswer
  BY <1>5 DEF BeginReadMany, batcherVars, resultVars, NoAnswer
<1>6. ASSUME NEW o \in Singles, Push(o) PROVE Answers'
  <2>1. /\ phase[o] = "inflight" /\ batch' = batch \union {o} /\ UNCHANGED <<fut, remaining>>
        /\ phase' = [phase EXCEPT ![o] = "answered"]
    BY <1>6 DEF Push, resultVars
  <2>2. \A b \in Batches, i \in 1..Width : phase'[<<b, i>>] = phase[<<b, i>>]
    <3>1. \A x \in Spans : x # o /\ phase'[x] = phase[x]
      BY <2>1
    <3> QED
      BY <3>1
  <2>3. \A b \in Batches : (Finishing(b)' <=> Finishing(b)) /\ (b \in batch' <=> b \in batch)
    BY <2>1, <2>2 DEF Finishing
  <2>4. \A x \in Singles : phase'[x] \in {"new", "inflight"} =>
          phase[x] \in {"new", "inflight"} /\ x # o
    BY <2>1
  <2> QED
    BY <2>1, <2>2, <2>3, <2>4 DEF Answers
<1>7. ASSUME NEW o \in Singles, ConvertFails(o) PROVE NoAnswer
  BY <1>7 DEF ConvertFails, batcherVars, NoAnswer
<1>8. ASSUME NEW o \in Spans, CountSpan(o) PROVE NoAnswer
  BY <1>8 DEF CountSpan, batcherVars, resultVars, NoAnswer
<1>9. ASSUME NEW o \in Singles, Count(o) PROVE NoAnswer
  BY <1>9 DEF Count, batcherVars, resultVars, NoAnswer
<1>10. ASSUME NEW o \in Spans, Store(o) PROVE Answers'
  <2> DEFINE b == o[1]
             last == remaining[b] = 1
  <2>0. b \in Batches /\ o[2] \in 1..Width /\ o = <<b, o[2]>>
    OBVIOUS
  <2>1. /\ phase[o] = "counted" /\ batch' = batch
        /\ remaining' = [remaining EXCEPT ![b] = @ - 1]
        /\ fut' = IF last /\ onLoop = o THEN Resolve({b}) ELSE fut
        /\ phase' = [phase EXCEPT ![o] = IF last /\ onLoop # o THEN "finish" ELSE "done"]
    BY <1>10 DEF Store, batcherVars
  <2>2. remaining[b] \in Nat \ {0} /\ b \notin batch /\ fut[b] # "resolved" /\ ~Finishing(b)
    BY <2>1, Untouched
  <2>3. CASE ~last \/ onLoop = o
    <3>1. \A x \in Spans : phase'[x] = "finish" <=> phase[x] = "finish"
      BY <2>1, <2>3
    <3>2. \A x \in Singles : phase'[x] = phase[x]
      BY <2>1
    <3>3. \A c \in Batches \ {b} : remaining'[c] = remaining[c]
      BY <2>1
    <3>4. remaining'[b] = 0 <=> last
      BY <2>0, <2>1, <2>2
    <3>5. fut' = IF remaining'[b] = 0 THEN Resolve({b}) ELSE fut
      BY <2>1, <2>3, <3>4
    <3>6. phase[o] \in {"new", "inflight", "counted"}
      BY <2>1
    <3> QED
      BY <2>1, <3>1, <3>2, <3>3, <3>5, <3>6, SpanAnswer
  <2>4. CASE last /\ onLoop # o
    <3>1. /\ fut' = fut /\ batch' = batch /\ remaining'[b] = 0
          /\ phase' = [phase EXCEPT ![o] = "finish"]
          /\ \A c \in Batches \ {b} : remaining'[c] = remaining[c]
      BY <2>0, <2>1, <2>4
    <3> HIDE DEF b
    <3>2. \A c \in Batches, i \in 1..Width :
            phase'[<<c, i>>] = "finish" => phase[<<c, i>>] = "finish" \/ <<c, i>> = o
      BY <3>1
    <3>3. \A c \in Batches \ {b} : Finishing(c)' => Finishing(c)
      BY <2>0, <3>2 DEF Finishing
    <3>4. \A i \in 1..Width : phase'[<<b, i>>] = "finish" => i = o[2]
      BY <2>0, <2>2, <3>2 DEF Finishing
    <3>5. \A x \in Singles : phase'[x] = phase[x]
      BY <3>1
    <3>6. \A c \in Batches : c \in batch' \/ fut'[c] = "resolved" \/ Finishing(c)' => remaining'[c] = 0
      BY <3>1, <3>3 DEF Answers
    <3>7. \A c \in Batches : Finishing(c)' => c \notin batch /\ fut[c] # "resolved"
      BY <2>2, <3>3 DEF Answers
    <3>8. ASSUME NEW c \in Batches, NEW i \in 1..Width, NEW j \in 1..Width,
                 phase'[<<c, i>>] = "finish", phase'[<<c, j>>] = "finish"
          PROVE  i = j
      <4>1. CASE c = b
        BY <3>4, <3>8, <4>1
      <4>2. CASE c # b
        BY <2>0, <3>2, <3>8, <4>2 DEF Answers
      <4> QED
        BY <4>1, <4>2
    <3> QED
      BY <3>1, <3>5, <3>6, <3>7, <3>8 DEF Answers
  <2> QED
    BY <2>3, <2>4
<1>11. ASSUME NEW o \in Spans, PushBatch(o) PROVE Answers'
  <2> DEFINE b == o[1]
             k == o[2]
  <2>0. b \in Batches /\ k \in 1..Width /\ o = <<b, k>>
    OBVIOUS
  <2>1. /\ phase[o] = "finish" /\ batch' = batch \union {b} /\ UNCHANGED <<fut, remaining>>
        /\ phase' = [phase EXCEPT ![o] = "flush"]
    BY <1>11 DEF PushBatch, resultVars
  <2>2. Finishing(b)
    BY <2>0, <2>1 DEF Finishing
  <2> HIDE DEF b, k
  <2>3. remaining[b] = 0 /\ fut[b] \in {"pending", "cancelled"}
    BY <2>0, <2>2 DEF Answers
  <2>4. \A c \in Batches, i \in 1..Width :
          phase'[<<c, i>>] = "finish" => phase[<<c, i>>] = "finish" /\ <<c, i>> # o
    BY <2>0, <2>1
  <2>5. ~Finishing(b)'
    BY <2>0, <2>1, <2>4 DEF Answers, Finishing
  <2>6. \A c \in Batches : Finishing(c)' => Finishing(c) /\ c # b
    BY <2>4, <2>5 DEF Finishing
  <2>7. \A x \in Singles : phase'[x] = phase[x] /\ (x \in batch' <=> x \in batch)
    BY <2>0, <2>1
  <2>8. b \in Futures
    BY <2>0
  <2> QED
    BY <2>1, <2>3, <2>4, <2>6, <2>7, <2>8 DEF Answers
<1>12. ASSUME NEW a \in Actors, CallSoonFails(a) PROVE NoAnswer
  BY <1>12 DEF CallSoonFails, resultVars, Finished, NoAnswer, Ops
<1>13. ASSUME NEW a \in Actors, Flush(a) PROVE NoAnswer
  BY <1>13 DEF Flush, resultVars, Finished, NoAnswer, Ops
<1>14. ASSUME NEW a \in Actors, CallSoon(a) PROVE NoAnswer
  BY <1>14 DEF CallSoon, resultVars, Finished, NoAnswer, Ops
<1>15. ASSUME NEW a \in Actors, Discard(a) PROVE NoAnswer
  BY <1>15 DEF Discard, resultVars, Finished, NoAnswer, Ops
<1>16. ASSUME NEW f \in Futures, Cancel(f) PROVE Answers'
  <2>1. /\ fut[f] = "pending" /\ fut' = [fut EXCEPT ![f] = "cancelled"]
        /\ UNCHANGED <<phase, batch, remaining>>
    BY <1>16 DEF Cancel, batcherVars
  <2>2. \A b \in Batches : Finishing(b)' <=> Finishing(b)
    BY <2>1 DEF Finishing
  <2>3. \A g \in Futures : fut'[g] = fut[g] \/ (fut[g] = "pending" /\ fut'[g] = "cancelled")
    BY <2>1
  <2> QED
    BY <2>1, <2>2, <2>3 DEF Answers
<1>17. CASE EndHarvest
  BY <1>17, <1>0 DEF EndHarvest, batcherVars, resultVars, NoAnswer
<1>18. ASSUME NEW b \in Batches, SubmitSpan(b) PROVE NoAnswer
  <2>1. phase[reading] = "new" /\ reading \in Spans
    BY <1>18, HandNew DEF SubmitSpan
  <2> QED
    BY <1>18, <2>1 DEF SubmitSpan, batcherVars, resultVars, NoAnswer
<1>19. ASSUME NEW b \in Batches, InlineSpan(b) PROVE Answers'
  <2>1. phase[reading] = "new" /\ reading \in Spans /\ reading[1] = b
    BY <1>19, HandNew DEF InlineSpan, AtSpan
  <2>2. /\ batch' = batch /\ phase' = Finished(reading)
        /\ remaining' = [remaining EXCEPT ![b] = @ - 1]
        /\ fut' = IF remaining'[b] = 0 THEN Resolve({b}) ELSE fut
    BY <1>19 DEF InlineSpan, batcherVars
  <2>3. /\ \A x \in Spans : phase'[x] = "finish" <=> phase[x] = "finish"
        /\ \A x \in Singles : phase'[x] = phase[x]
        /\ \A c \in Batches \ {b} : remaining'[c] = remaining[c]
    BY <2>1, <2>2 DEF Finished
  <2>4. phase[reading] \in {"new", "inflight", "counted"}
    BY <2>1
  <2> DEFINE o == reading
  <2> HIDE DEF o
  <2>5. o = reading
    BY DEF o
  <2>6. /\ o \in Spans /\ o[1] = b /\ phase[o] \in {"new", "inflight", "counted"}
    BY <2>1, <2>4, <2>5
  <2> QED
    BY <2>2, <2>3, <2>6, SpanAnswer
<1>20. ASSUME NEW b \in Batches, SpanThrows(b) PROVE Answers'
  <2> DEFINE j == reading[2]
             S == {<<b, i>> : i \in j..Width}
  <2>1. /\ j \in 1..Width /\ \A i \in j..Width : phase[<<b, i>>] = "new"
        /\ reading \in Spans /\ reading[1] = b /\ phase[reading] = "new"
    BY <1>20, SpanAtHand, HandNew DEF SpanThrows, AtSpan
  <2>2. /\ batch' = batch
        /\ phase' = [a \in Actors |-> IF a \in S THEN "done" ELSE phase[a]]
        /\ remaining' = [remaining EXCEPT ![b] = @ - (Width + 1 - j)]
        /\ fut' = IF remaining'[b] = 0 THEN Resolve({b}) ELSE fut
    BY <1>20 DEF SpanThrows, batcherVars
  <2>3. \A x \in S : phase[x] = "new" /\ x \in Spans
    BY <2>1, NumbersPositive
  <2> HIDE DEF S
  <2>4. \A x \in Spans : phase'[x] = "finish" <=> phase[x] = "finish"
    BY <2>2, <2>3
  <2>5. \A x \in Singles : phase'[x] = phase[x]
    BY <2>2, <2>3
  <2>6. \A c \in Batches \ {b} : remaining'[c] = remaining[c]
    BY <2>2
  <2> DEFINE o == reading
  <2> HIDE DEF o
  <2>7. o \in Spans /\ o[1] = b /\ phase[o] \in {"new", "inflight", "counted"}
    BY <2>1 DEF o
  <2> QED
    BY <2>2, <2>4, <2>5, <2>6, <2>7, SpanAnswer
<1>21. CASE Drain
  <2>1. batch' = {} /\ fut' = Resolve(batch) /\ UNCHANGED <<phase, remaining>>
    BY <1>21 DEF Drain
  <2>2. \A b \in Batches : Finishing(b)' <=> Finishing(b)
    BY <2>1 DEF Finishing
  <2>3. \A f \in Futures : fut'[f] = fut[f] \/ (f \in batch /\ fut'[f] = "resolved")
    BY <2>1 DEF Resolve
  <2> QED
    BY <2>1, <2>2, <2>3 DEF Answers
<1>22. CASE Sweep
  BY <1>22, <1>0 DEF Sweep, resultVars, NoAnswer
<1>23. CASE CloseLoop
  BY <1>23, <1>0 DEF CloseLoop, resultVars, NoAnswer
<1>24. CASE UNCHANGED vars
  BY <1>24, <1>0 DEF vars, batcherVars, resultVars, NoAnswer
<1>25. CASE WaitForPackets
  BY <1>25, <1>0 DEF WaitForPackets, batcherVars, resultVars, NoAnswer
<1> QED
  BY <1>0, <1>1, <1>2, <1>3, <1>4, <1>5, <1>6, <1>7, <1>8, <1>9, <1>10, <1>11, <1>12,
     <1>13, <1>14, <1>15, <1>16, <1>17, <1>18, <1>19, <1>20, <1>21, <1>22, <1>23, <1>24,
     <1>25
     DEF Next, Arrive, Complete, LoopStep, Ops
------------------------------------------------------------------------------
(* The other types.                                                        *)

\* Every step keeps them.
LEMMA RestStep == Shape /\ SpansAhead /\ Rest /\ [Next]_vars => Rest'
<1> SUFFICES ASSUME Shape, SpansAhead, Rest, [Next]_vars PROVE Rest'
  OBVIOUS
<1> DEFINE Same == /\ UNCHANGED <<trigger, lost, loop, harvesting>>
                   /\ timed' \in BOOLEAN
                   /\ onLoop' = onLoop \/ onLoop' = None
<1>0. Same => Rest'
  BY DEF Rest
<1>t. timed \in BOOLEAN
  BY DEF Rest
<1> USE SpanNames, ModesAreFlags, <1>t DEF Shape, pushVars
<1>1. ASSUME NEW o \in Singles, Submit(o) PROVE Rest'
  BY <1>1 DEF Submit, resultVars, Rest
<1>2. ASSUME NEW o \in Singles, SubmitInline(o) PROVE Same
  BY <1>2 DEF SubmitInline, loopVars
<1>3. ASSUME NEW o \in Singles, SubmitThrows(o) PROVE Same
  BY <1>3 DEF SubmitThrows, loopVars
<1>4. ASSUME NEW o \in Singles, Harvest(o) PROVE Rest'
  BY <1>4 DEF Harvest, Rest, Ops
<1>5. ASSUME NEW b \in Batches, BeginReadMany(b) PROVE Same
  BY <1>5 DEF BeginReadMany, resultVars
<1>6. ASSUME NEW o \in Singles, Push(o) PROVE Rest'
  <2>1. PICK t \in 1..MaxThreshold : trigger' = [trigger EXCEPT ![o] = Cardinality(batch') >= t]
    BY <1>6 DEF Push
  <2>2. (Cardinality(batch') >= t) \in BOOLEAN
    OBVIOUS
  <2>3. trigger' \in [Singles -> BOOLEAN]
    BY <2>1, <2>2, Zenon DEF Rest
  <2> QED
    BY <1>6, <2>3 DEF Push, resultVars, loopVars, Rest
<1>7. ASSUME NEW o \in Singles, ConvertFails(o) PROVE Rest'
  BY <1>7 DEF ConvertFails, loopVars, Rest
<1>8. ASSUME NEW o \in Spans, CountSpan(o) PROVE Rest'
  BY <1>8 DEF CountSpan, resultVars, Rest, Ops
<1>9. ASSUME NEW o \in Singles, Count(o) PROVE Same
  BY <1>9 DEF Count, resultVars, Freed
<1>10. ASSUME NEW o \in Spans, Store(o) PROVE Same
  BY <1>10 DEF Store, Freed
<1>11. ASSUME NEW o \in Spans, PushBatch(o) PROVE Same
  BY <1>11 DEF PushBatch, resultVars, loopVars
<1>12. ASSUME NEW a \in Actors, CallSoonFails(a) PROVE Same
  BY <1>12 DEF CallSoonFails, resultVars, Freed
<1>13. ASSUME NEW a \in Actors, Flush(a) PROVE Same
  BY <1>13 DEF Flush, resultVars, Freed
<1>14. ASSUME NEW a \in Actors, CallSoon(a) PROVE Same
  BY <1>14 DEF CallSoon, resultVars, Freed
<1>15. ASSUME NEW a \in Actors, Discard(a) PROVE Same
  BY <1>15 DEF Discard, resultVars, Freed
<1>16. ASSUME NEW f \in Futures, Cancel(f) PROVE Same
  BY <1>16 DEF Cancel, loopVars
<1>17. CASE EndHarvest
  BY <1>17 DEF EndHarvest, resultVars, Rest
<1>18. ASSUME NEW b \in Batches, SubmitSpan(b) PROVE Rest'
  BY <1>18 DEF SubmitSpan, resultVars, Rest
<1>19. ASSUME NEW b \in Batches, InlineSpan(b) PROVE Same
  BY <1>19 DEF InlineSpan
<1>20. ASSUME NEW b \in Batches, SpanThrows(b) PROVE Same
  BY <1>20 DEF SpanThrows
<1>21. CASE Drain
  BY <1>21, <1>0 DEF Drain, loopVars
<1>22. CASE Sweep
  BY <1>22, <1>0 DEF Sweep, resultVars, loopVars
<1>23. CASE CloseLoop
  BY <1>23 DEF CloseLoop, resultVars, Rest
<1>24. CASE UNCHANGED vars
  BY <1>24, <1>0 DEF vars, resultVars, loopVars
<1>25. CASE WaitForPackets
  BY <1>25, <1>0 DEF WaitForPackets, resultVars, loopVars
<1> QED
  BY <1>0, <1>1, <1>2, <1>3, <1>4, <1>5, <1>6, <1>7, <1>8, <1>9, <1>10, <1>11, <1>12,
     <1>13, <1>14, <1>15, <1>16, <1>17, <1>18, <1>19, <1>20, <1>21, <1>22, <1>23, <1>24,
     <1>25
     DEF Next, Arrive, Complete, LoopStep, Ops
------------------------------------------------------------------------------
(* The theorems.                                                           *)

\* The invariant holds at first.
LEMMA ReadInit == Init => ReadInv
<1> SUFFICES ASSUME Init PROVE ReadInv
  OBVIOUS
<1> USE NumbersPositive, SpanNames DEF Init
<1>1. Inv
  BY InvInit
<1>2. Counts
  BY FS_EmptySet DEF Counts, Uncounted, Ops, Actors
<1>3. Lefts
  <2>1. \A b \in Batches : Left(b) = 1..Width /\ remaining[b] = Width
    BY DEF Left
  <2> QED
    BY <2>1, WidthCount DEF Lefts
<1>4. Answers
  BY DEF Answers, Finishing
<1>5. Rest
  BY DEF Rest
<1> QED
  BY <1>1, <1>2, <1>3, <1>4, <1>5 DEF ReadInv

\* ... and always.
THEOREM ReadInvariance == Spec => []ReadInv
<1>1. ReadInv /\ [Next]_vars => ReadInv'
  BY ShapeStep, AheadStep, DrainStep, DiscardStep, NothingLostStep,
     CountsStep, LeftsStep, AnswersStep, RestStep DEF ReadInv, Inv
<1> QED
  BY <1>1, ReadInit, PTL DEF Spec

\* A read_many answers when its last span has been stored or failed and no sooner,
\* whatever its width, however its spans are completed and wherever submitting
\* fails; no future is answered while its entry waits in the batch.
THEOREM AnswersAtTheEnd == Spec => []ReadManyWaits
<1>1. ReadInv => ReadManyWaits
  <2> SUFFICES ASSUME ReadInv PROVE ReadManyWaits
    OBVIOUS
  <2>1. ASSUME NEW b \in Batches, b \in batch \/ fut[b] = "resolved"
        PROVE  \A i \in 1..Width : phase[<<b, i>>] \notin {"new", "inflight", "counted"}
    <3>1. Left(b) = {}
      BY <2>1, LeftCounts DEF ReadInv, Answers
    <3> QED
      BY <3>1 DEF Left
  <2> QED
    BY <2>1 DEF ReadManyWaits, ReadInv, Answers
<1> QED
  BY <1>1, ReadInvariance, PTL

\* The types; in particular m_outstanding is exactly the number of operations
\* that have set their flag, so it is never counted below zero.
THEOREM TypeCorrect == Spec => []TypeOK
<1>1. ReadInv => TypeOK
  <2> SUFFICES ASSUME ReadInv PROVE TypeOK
    OBVIOUS
  <2>1. outstanding \in Nat
    BY SubmittedFinite, FS_CardinalityType DEF ReadInv, Counts
  <2>2. remaining \in [Batches -> 0..Width]
    <3>1. \A b \in Batches : remaining[b] \in 0..Width
      BY LeftCounts, NumbersPositive DEF ReadInv
    <3> QED
      BY <3>1 DEF ReadInv, Inv, Shape
  <2> QED
    BY <2>1, <2>2 DEF TypeOK, ReadInv, Inv, Shape, Counts, Answers, Rest
<1> QED
  BY <1>1, ReadInvariance, PTL
------------------------------------------------------------------------------
(* Nothing left behind.                                                    *)

\* The program makes single calls, and neither submitting nor Python fails.
OnlySingles == Batches = {} /\ ~MayThrow /\ ~MayFail

\* A completion that will look at the batch again.
Busy(o) == phase[o] \in {"inflight", "answered", "counted", "finish", "flush"}

\* Every flag that is set will be looked at: nothing was counted for good.
NoneLeaked == \A o \in submitted : Uncounted(o)

Attended == NoneLeaked /\ NoStrandedResult

\* A step that adds nothing to the batch and takes nobody away from it.
Attentive ==
  /\ batch' \subseteq batch /\ loop' = loop
  /\ dispatch => dispatch' \/ batch' = {}
  /\ reading' = reading
  /\ \A o \in Ops : Busy(o) => Busy(o)'
  /\ submitted' = submitted /\ \A o \in Ops : Uncounted(o) => Uncounted(o)'

\* Such a step leaves nothing behind.
LEMMA AttentiveKeeps == Counts /\ Attended /\ Attentive => Attended'
<1> SUFFICES ASSUME Counts, Attended, Attentive PROVE Attended'
  OBVIOUS
<1>1. NoneLeaked'
  BY DEF Attended, NoneLeaked, Attentive, Counts
<1>2. ASSUME loop = "open", batch' # {}, ~dispatch', reading[1] = None
      PROVE  \E o \in Ops : Busy(o)'
  <2>1. batch # {} /\ ~dispatch
    BY <1>2 DEF Attentive
  <2>2. \E o \in Ops : Busy(o)
    BY <1>2, <2>1 DEF Attended, NoStrandedResult, Busy
  <2> QED
    BY <2>2 DEF Attentive
<1>3. NoStrandedResult'
  BY <1>2 DEF NoStrandedResult, Attentive, Busy
<1> QED
  BY <1>1, <1>3 DEF Attended

\* The step of an operation that goes on looking.
LEMMA BusyKeeps ==
  ASSUME NEW o \in Ops, Busy(o)' PROVE NoStrandedResult'
BY DEF NoStrandedResult, Busy

\* Every step leaves somebody in attendance.
LEMMA AttendedStep ==
  ASSUME OnlySingles
  PROVE  Shape /\ DiscardWhenClosed /\ Counts /\ Attended /\ [Next]_vars => Attended'
<1> SUFFICES ASSUME Shape, DiscardWhenClosed, Counts, Attended, [Next]_vars PROVE Attended'
  OBVIOUS
<1>0. Attentive => Attended'
  BY AttentiveKeeps
<1>a. Spans = {} /\ Ops = Singles /\ Actors = Singles \union {Sweeper} /\ Sweeper \notin Singles
  BY NamesDiffer DEF OnlySingles, Spans, Ops, Actors
<1> USE <1>a DEF Shape
<1>1. ASSUME NEW o \in Singles, Submit(o) PROVE Attended'
  <2>1. submitted' = submitted \union {o} /\ phase' = [phase EXCEPT ![o] = "inflight"]
    BY <1>1 DEF Submit
  <2>2. NoneLeaked'
    BY <2>1 DEF Attended, NoneLeaked, Uncounted, Counts
  <2>3. Busy(o)'
    BY <2>1 DEF Busy
  <2> QED
    BY <2>2, <2>3, BusyKeeps DEF Attended
<1>2. ASSUME NEW o \in Singles, SubmitInline(o) PROVE Attentive
  BY <1>2 DEF SubmitInline, countVars, batcherVars, loopVars, Finished, Attentive, Busy, Uncounted
<1>3. ASSUME NEW o \in Singles, SubmitThrows(o) PROVE FALSE
  BY <1>3 DEF SubmitThrows, OnlySingles
<1>4. ASSUME NEW o \in Singles, Harvest(o) PROVE Attentive
  BY <1>4 DEF Harvest, countVars, batcherVars, Attentive, Busy, Uncounted
<1>6. ASSUME NEW o \in Singles, Push(o) PROVE Attended'
  <2>1. submitted' = submitted /\ phase[o] = "inflight" /\ phase' = [phase EXCEPT ![o] = "answered"]
    BY <1>6 DEF Push, countVars
  <2>2. NoneLeaked'
    BY <2>1 DEF Attended, NoneLeaked, Uncounted, Counts
  <2>3. Busy(o)'
    BY <2>1 DEF Busy
  <2> QED
    BY <2>2, <2>3, BusyKeeps DEF Attended
<1>7. ASSUME NEW o \in Singles, ConvertFails(o) PROVE FALSE
  BY <1>7 DEF ConvertFails, OnlySingles
<1>9. ASSUME NEW o \in Singles, Count(o) PROVE Attended'
  <2> DEFINE next == IF trigger[o] \/ outstanding = 1 THEN "flush" ELSE "done"
  <2>1. /\ phase[o] = "answered" /\ submitted' = submitted \ {o}
        /\ phase' = [phase EXCEPT ![o] = next]
    BY <1>9 DEF Count
  <2>2. NoneLeaked'
    BY <2>1 DEF Attended, NoneLeaked, Uncounted, Counts
  <2>3. \E x \in Ops : Busy(x)'
    <3>1. CASE next = "flush"
      BY <2>1, <3>1 DEF Busy
    <3>2. CASE next # "flush"
      <4>1. outstanding # 1 /\ o \in submitted
        BY <2>1, <3>2 DEF Counts, Uncounted
      <4>2. submitted # {o}
        BY <4>1, FS_Singleton DEF Counts
      <4>3. PICK x \in submitted : x # o
        BY <4>1, <4>2
      <4>4. x \in Ops /\ Uncounted(x) /\ phase'[x] = phase[x]
        BY <2>1, <4>3 DEF Attended, NoneLeaked, Counts
      <4> QED
        BY <4>4 DEF Busy, Uncounted
    <3> QED
      BY <3>1, <3>2
  <2> QED
    BY <2>2, <2>3, BusyKeeps DEF Attended
<1>12. ASSUME NEW a \in Actors, CallSoonFails(a) PROVE FALSE
  BY <1>12 DEF CallSoonFails, OnlySingles
<1>13. ASSUME NEW a \in Actors, Flush(a) PROVE Attended'
  <2>1. /\ phase[a] = "flush" /\ submitted' = submitted /\ batch' = batch /\ loop' = loop
        /\ \A x \in Actors \ {a} : phase'[x] = phase[x]
        /\ batch' = {} \/ dispatch'
    BY <1>13 DEF Flush, countVars, Finished
  <2>2. NoneLeaked'
    BY <2>1 DEF Attended, NoneLeaked, Uncounted, Counts
  <2>3. NoStrandedResult'
    BY <2>1 DEF NoStrandedResult
  <2> QED
    BY <2>2, <2>3 DEF Attended
<1>14. ASSUME NEW a \in Actors, CallSoon(a) PROVE Attentive
  BY <1>14 DEF CallSoon, countVars, Finished, Attentive, Busy, Uncounted
<1>15. ASSUME NEW a \in Actors, Discard(a) PROVE Attentive
  BY <1>15 DEF Discard, countVars, Finished, Attentive, Busy, Uncounted
<1>16. ASSUME NEW f \in Futures, Cancel(f) PROVE Attentive
  BY <1>16 DEF Cancel, countVars, batcherVars, loopVars, Attentive, Busy, Uncounted
<1>17. CASE EndHarvest
  BY <1>17, <1>0 DEF EndHarvest, countVars, batcherVars, Attentive, Busy, Uncounted
<1>21. CASE Drain
  BY <1>21, <1>0 DEF Drain, countVars, loopVars, Attentive, Busy, Uncounted
<1>22. CASE Sweep
  <2>1. /\ submitted' = submitted /\ dispatch' = TRUE
        /\ \A x \in Singles : phase'[x] = phase[x]
    BY <1>22 DEF Sweep, countVars
  <2>2. NoneLeaked'
    BY <2>1 DEF Attended, NoneLeaked, Uncounted, Counts
  <2>3. NoStrandedResult'
    BY <2>1 DEF NoStrandedResult
  <2> QED
    BY <2>2, <2>3 DEF Attended
<1>23. CASE CloseLoop
  BY <1>23 DEF CloseLoop, countVars, Attended, NoneLeaked, NoStrandedResult, Uncounted
<1>24. CASE UNCHANGED vars
  BY <1>24, <1>0 DEF vars, countVars, batcherVars, loopVars, Attentive, Busy, Uncounted
<1>25. CASE WaitForPackets
  BY <1>25, <1>0 DEF WaitForPackets, countVars, batcherVars, loopVars, Attentive, Busy, Uncounted
<1> QED
  BY <1>0, <1>1, <1>2, <1>3, <1>4, <1>6, <1>7, <1>9, <1>12, <1>13, <1>14, <1>15, <1>16,
     <1>17, <1>21, <1>22, <1>23, <1>24,
     <1>25
     DEF Next, Arrive, Complete, LoopStep, OnlySingles

\* While the loop is open no result of a single call waits unattended: whoever
\* counts down without flushing leaves another operation in flight, which will.
THEOREM NothingStranded ==
  ASSUME OnlySingles
  PROVE  Spec => []NoStrandedResult
<1>1. Init => Attended
  BY DEF Init, Attended, NoneLeaked, NoStrandedResult
<1>2. ReadInv /\ Attended /\ [Next]_vars => Attended'
  BY AttendedStep DEF ReadInv, Inv
<1>3. Attended => NoStrandedResult
  BY DEF Attended
<1> QED
  BY <1>1, <1>2, <1>3, ReadInvariance, PTL DEF Spec
==============================================================================
