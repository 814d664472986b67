----------------------------- MODULE FileIOProofs -----------------------------
(***************************************************************************)
(* Proofs about FileIO: for every program, the types, and that only a file *)
(* that ends there is read as ended; for programs that have any number of  *)
(* reads, positioned reads and writes in flight and do not move the        *)
(* position otherwise, that no two calls share a byte of the file and that *)
(* no written byte is lost; for programs that await each call, that the    *)
(* handle with its cached size implements PlainFile.                       *)
(***************************************************************************)
EXTENDS FileIO, SequenceTheorems, TLAPS

Bytes == Ops \union {Hole, Other}

CallType == [stage : Stages, kind : {"none", "read", "write"}, sequential : BOOLEAN,
             asked : Nat \union {ToEof}, at : Nat, len : Nat]
------------------------------------------------------------------------------
(* The system calls.                                                       *)

\* A function on 1..n is a sequence of n elements.
LEMMA FunctionIsSeq ==
  ASSUME NEW S, NEW n \in Nat, NEW g \in [1..n -> S]
  PROVE  g \in Seq(S) /\ Len(g) = n
<1>1. g \in Seq(S)
  BY SeqDef
<1>2. Len(g) \in Nat /\ 1..Len(g) = 1..n
  BY <1>1, LenProperties
<1>3. \A i \in Int : 1 <= i /\ i <= Len(g) <=> 1 <= i /\ i <= n
  BY <1>2
<1>4. Len(g) <= n
  BY <1>2, <1>3
<1>5. n <= Len(g)
  BY <1>2, <1>3
<1> QED
  BY <1>1, <1>2, <1>4, <1>5

\* pwrite leaves the bytes outside its range and puts its own inside.
LEMMA OverlayBytes ==
  ASSUME NEW S, NEW f \in Seq(S), NEW at \in Nat, NEW s \in Seq(S), NEW hole \in S
  PROVE  /\ Overlay(f, at, s, hole) \in Seq(S)
         /\ Len(Overlay(f, at, s, hole)) = Most(Len(f), at + Len(s))
         /\ \A j \in 1..Len(f) :
              j <= at \/ j > at + Len(s) => Overlay(f, at, s, hole)[j] = f[j]
         /\ \A i \in 1..Len(s) : Overlay(f, at, s, hole)[at + i] = s[i]
<1> DEFINE n == Most(Len(f), at + Len(s))
           v(i) == IF i > at /\ i <= at + Len(s) THEN s[i - at]
                   ELSE IF i <= Len(f) THEN f[i] ELSE hole
           g == [i \in 1..n |-> v(i)]
<1>1. /\ n \in Nat /\ n >= Len(f) /\ n >= at + Len(s)
      /\ Len(f) \in Nat /\ Len(s) \in Nat
  BY DEF Most
<1>2. \A i \in 1..n : v(i) \in S
  <2> SUFFICES ASSUME NEW i \in 1..n PROVE v(i) \in S
    OBVIOUS
  <2>1. CASE i > at /\ i <= at + Len(s)
    <3>1. i - at \in 1..Len(s)
      BY <1>1, <2>1
    <3> QED
      BY <2>1, <3>1
  <2>2. CASE ~(i > at /\ i <= at + Len(s)) /\ i <= Len(f)
    <3>1. i \in 1..Len(f)
      BY <1>1, <2>2
    <3> QED
      BY <2>2, <3>1
  <2>3. CASE ~(i > at /\ i <= at + Len(s)) /\ ~(i <= Len(f))
    BY <2>3
  <2> QED
    BY <2>1, <2>2, <2>3
<1>3. Overlay(f, at, s, hole) = g
  BY DEF Overlay
<1>4. g \in [1..n -> S]
  BY <1>2
<1>5. g \in Seq(S) /\ Len(g) = n
  <2> HIDE DEF g
  <2> QED
    BY <1>1, <1>4, FunctionIsSeq
<1>6. ASSUME NEW j \in 1..Len(f), j <= at \/ j > at + Len(s)
      PROVE  g[j] = f[j]
  <2>1. j \in 1..n /\ ~(j > at /\ j <= at + Len(s)) /\ j <= Len(f)
    BY <1>1, <1>6
  <2> HIDE DEF n
  <2> QED
    BY <2>1
<1>7. ASSUME NEW i \in 1..Len(s) PROVE g[at + i] = s[i]
  <2> DEFINE k == at + i
  <2>1. k \in 1..n /\ k > at /\ k <= at + Len(s) /\ k - at = i
    BY <1>1
  <2> HIDE DEF k
  <2>2. g[k] = s[k - at]
    BY <2>1
  <2> QED
    BY <2>1, <2>2 DEF k
<1> QED
  BY <1>3, <1>5, <1>6, <1>7

\* The same, byte by byte: outside the range of the write,
LEMMA OverlayOutside ==
  ASSUME NEW S, NEW f \in Seq(S), NEW at \in Nat, NEW s \in Seq(S), NEW hole \in S,
         NEW j \in 1..Len(f), j <= at \/ j > at + Len(s)
  PROVE  Overlay(f, at, s, hole)[j] = f[j]
BY OverlayBytes

\* ... inside its range.
LEMMA OverlayInside ==
  ASSUME NEW S, NEW f \in Seq(S), NEW at \in Nat, NEW s \in Seq(S), NEW hole \in S,
         NEW i \in 1..Len(s)
  PROVE  Overlay(f, at, s, hole)[at + i] = s[i]
BY OverlayBytes

\* ... and what it makes of the length of the file.
LEMMA OverlayLength ==
  ASSUME NEW f \in Seq(Bytes), NEW at \in Nat, NEW s \in Seq(Bytes)
  PROVE  Len(Overlay(f, at, s, Hole)) = Most(Len(f), at + Len(s))
<1>1. Hole \in Bytes
  BY DEF Bytes
<1> QED
  BY <1>1, OverlayBytes

\* ftruncate gives a sequence of n bytes.
LEMMA ResizeType ==
  ASSUME NEW S, NEW f \in Seq(S), NEW n \in Nat, NEW hole \in S
  PROVE  Resize(f, n, hole) \in Seq(S) /\ Len(Resize(f, n, hole)) = n
<1>1. Resize(f, n, hole) \in [1..n -> S]
  BY DEF Resize
<1> QED
  BY <1>1, FunctionIsSeq

\* pread gives bytes of the file.
LEMMA SliceType ==
  ASSUME NEW S, NEW f \in Seq(S), NEW at \in Nat, NEW n \in Nat
  PROVE  Slice(f, at, n) \in Seq(S)
<1> DEFINE e == Least(at + n, Len(f))
<1>1. e \in Nat /\ e <= Len(f) /\ Len(f) \in Nat
  BY DEF Least
<1>2. \A i \in (at + 1)..e : f[i] \in S
  BY <1>1
<1> QED
  BY <1>1, <1>2, SubSeqProperties DEF Slice
------------------------------------------------------------------------------
(* Types.                                                                  *)

\* At the start the position and the size lie in the file.
LEMMA TypeInit == Init => TypeOK
<1> SUFFICES ASSUME Init PROVE TypeOK
  OBVIOUS
<1>1. Start \in Seq(Bytes) /\ Len(Start) = StartLen /\ StartLen \in Nat
  <2>1. Start \in [1..StartLen -> Bytes]
    BY DEF Start, Bytes
  <2> QED
    BY <2>1, FunctionIsSeq, StartFits, MaxLenIsNat
<1>2. append \in BOOLEAN /\ oAppend \in Flags
  BY ModesAreBoolean DEF Init
<1>3. pos \in Nat /\ cached \in Nat
  BY <1>1 DEF Init
<1>4. Unused \in CallType
  BY DEF Unused, CallType, Stages
<1>5. <<>> \in Seq(Bytes)
  OBVIOUS
<1>6. call \in [Ops -> CallType] /\ stat \in [Ops -> Nat] /\ answer \in [Ops -> Seq(Bytes)]
  BY <1>4, <1>5 DEF Init
<1>7. file \in Seq(Bytes) /\ cutting \in Nat \union {None}
  BY <1>1 DEF Init
<1> QED
  BY <1>2, <1>3, <1>6, <1>7 DEF TypeOK, CallType, Bytes

\* The answers that a new call leaves.
LEMMA TakenType ==
  ASSUME TypeOK
  PROVE  /\ Taken \in [Ops -> Seq(Bytes)]
         /\ ~OneAtATime => Taken = answer
<1>1. <<>> \in Seq(Bytes)
  OBVIOUS
<1> QED
  BY <1>1 DEF TypeOK, Bytes, Taken

\* An ended call keeps the range it had, or is forgotten.
LEMMA EndedType ==
  ASSUME TypeOK, NEW o \in Ops
  PROVE  /\ Ended(o) \in [Ops -> CallType]
         /\ \A p \in Ops : Ended(o)[p].sequential =>
              /\ call[p].sequential
              /\ Ended(o)[p].at = call[p].at /\ Ended(o)[p].len = call[p].len
<1>1. call \in [Ops -> CallType]
  BY DEF TypeOK, CallType
<1>2. CASE OneAtATime
  <2>1. Ended(o) = [call EXCEPT ![o] = Unused] /\ Unused \in CallType
    BY <1>2 DEF Ended, Unused, CallType, Stages
  <2>2. ~Unused.sequential
    BY DEF Unused
  <2> QED
    BY <1>1, <2>1, <2>2
<1>3. CASE ~OneAtATime
  <2>1. Ended(o) = [call EXCEPT ![o].stage = "done"]
    BY <1>3 DEF Ended
  <2>2. "done" \in Stages
    BY DEF Stages
  <2> QED
    BY <1>1, <2>1, <2>2 DEF CallType
<1> QED
  BY <1>2, <1>3

\* What plan_read_locked() does: a range of n bytes at `at' is taken, and a
\* sequential read moves the position behind it.
LEMMA PlanReadDoes ==
  ASSUME TypeOK, NEW o \in Ops, NEW sequential \in BOOLEAN, NEW at \in Nat,
         NEW asked \in Nat \union {ToEof}, PlanRead(o, sequential, at, asked)
  PROVE  /\ cached' \in Nat
         /\ answer' = Taken
         /\ \E n \in Nat :
              /\ pos' = IF sequential /\ n > 0 THEN at + n ELSE pos
              /\ \/ call' = call
                 \/ \E s \in {"queued", "done"} :
                      call' = [call EXCEPT ![o] = [stage |-> s, kind |-> "read",
                                sequential |-> sequential, asked |-> asked,
                                at |-> at, len |-> n]]
<1> DEFINE left == Most(0, EndSeen(at) - at)
           n == IF asked = ToEof THEN left ELSE Least(asked, left)
<1>1. EndSeen(at) \in Nat
  <2>1. Len(file) \in Nat
    BY LenProperties DEF TypeOK
  <2> QED
    BY <2>1 DEF TypeOK, EndSeen
<1>2. left \in Nat
  BY <1>1 DEF Most
<1>3. n \in Nat
  BY <1>2 DEF Least
<1>4. /\ cached' = EndSeen(at) /\ answer' = Taken
      /\ pos' = IF sequential /\ n > 0 THEN at + n ELSE pos
      /\ call' = IF n = 0 /\ OneAtATime THEN call
                 ELSE [call EXCEPT ![o] =
                         [stage |-> IF n = 0 THEN "done" ELSE "queued", kind |-> "read",
                          sequential |-> sequential, asked |-> asked, at |-> at, len |-> n]]
  BY DEF PlanRead
<1> HIDE DEF n, left
<1>5. \/ call' = call
      \/ \E s \in {"queued", "done"} :
           call' = [call EXCEPT ![o] = [stage |-> s, kind |-> "read",
                     sequential |-> sequential, asked |-> asked, at |-> at, len |-> n]]
  <2>1. CASE n = 0 /\ OneAtATime
    BY <1>4, <2>1
  <2>2. CASE n = 0 /\ ~OneAtATime
    BY <1>4, <2>2
  <2>3. CASE n # 0
    BY <1>4, <2>3
  <2> QED
    BY <2>1, <2>2, <2>3
<1> QED
  BY <1>1, <1>3, <1>4, <1>5

\* What reserve_write() does.
LEMMA ReserveWriteDoes ==
  ASSUME TypeOK, NEW o \in Ops, NEW position \in Nat \union {None}, NEW n \in Nat,
         ReserveWrite(o, position, n)
  PROVE  /\ cached' \in Nat
         /\ answer' = Taken
         /\ \E at \in Nat, q \in BOOLEAN :
              /\ q <=> position = None
              /\ ~append /\ q => at = pos
              /\ pos' = IF q THEN at + n ELSE pos
              /\ call' = [call EXCEPT ![o] = [stage |-> "queued", kind |-> "write",
                            sequential |-> q, asked |-> n, at |-> at, len |-> n]]
<1> DEFINE at == IF position # None THEN position ELSE IF append THEN cached ELSE pos
           q == position = None
<1>1. at \in Nat /\ q \in BOOLEAN
  BY DEF TypeOK
<1>2. ~append /\ q => at = pos
  OBVIOUS
<1>3. /\ pos' = IF q THEN at + n ELSE pos
      /\ cached' = Most(cached, at + n)
      /\ call' = [call EXCEPT ![o] = [stage |-> "queued", kind |-> "write",
                    sequential |-> q, asked |-> n, at |-> at, len |-> n]]
      /\ answer' = Taken
  BY DEF ReserveWrite
<1>4. q <=> position = None
  OBVIOUS
<1> HIDE DEF at, q
<1>5. cached' \in Nat
  BY <1>1, <1>3 DEF TypeOK, Most
<1> QED
  BY <1>1, <1>2, <1>3, <1>4, <1>5

\* A call that reserves a range: record r is entered, the position goes behind
\* a range that was taken at the position.
Reserved(o, r) ==
  /\ r.stage \in {"queued", "done"}
  /\ r.kind = "write" => r.stage = "queued" /\ ("writeAt" \notin Calls => r.sequential)
  /\ ~append /\ r.sequential => r.at = pos
  /\ pos' = IF r.sequential /\ r.len > 0 THEN r.at + r.len ELSE pos
  /\ call' = call \/ call' = [call EXCEPT ![o] = r]

\* Every call that transfers bytes reserves a range when it is made.
LEMMA CallReserves ==
  ASSUME TypeOK, NEW o \in Ops, Read(o) \/ ReadAt(o) \/ Write(o) \/ WriteAt(o)
  PROVE  /\ Callable(o) /\ cached' \in Nat /\ answer' = Taken
         /\ UNCHANGED <<file, stat, cutting>>
         /\ \E r \in CallType : Reserved(o, r)
<1> DEFINE rec(s, k, q, m, a, n) == [stage |-> s, kind |-> k, sequential |-> q,
                                     asked |-> m, at |-> a, len |-> n]
           Goal == /\ Callable(o) /\ cached' \in Nat /\ answer' = Taken
                   /\ UNCHANGED <<file, stat, cutting>>
                   /\ \E r \in CallType : Reserved(o, r)
<1>0. pos \in Nat /\ \A x \in Places : x \in Nat
  BY MaxLenIsNat DEF TypeOK, Places
<1>1. \A s \in {"queued", "done"}, q \in BOOLEAN, m \in Nat \union {ToEof}, a, n \in Nat :
        rec(s, "read", q, m, a, n) \in CallType /\ rec(s, "write", q, m, a, n) \in CallType
  BY DEF CallType, Stages
<1>2. ASSUME NEW q \in BOOLEAN, NEW a \in Nat, NEW m \in Nat \union {ToEof},
             PlanRead(o, q, a, m), q => a = pos
      PROVE  cached' \in Nat /\ answer' = Taken /\ \E r \in CallType : Reserved(o, r)
  <2>1. PICK n \in Nat :
          /\ pos' = IF q /\ n > 0 THEN a + n ELSE pos
          /\ \/ call' = call
             \/ \E s \in {"queued", "done"} : call' = [call EXCEPT ![o] = rec(s, "read", q, m, a, n)]
    BY <1>2, PlanReadDoes
  <2>2. PICK s \in {"queued", "done"} :
          call' = call \/ call' = [call EXCEPT ![o] = rec(s, "read", q, m, a, n)]
    BY <2>1
  <2>3. rec(s, "read", q, m, a, n) \in CallType
    BY <1>1
  <2>4. Reserved(o, rec(s, "read", q, m, a, n))
    BY <1>2, <2>1, <2>2 DEF Reserved
  <2> QED
    BY <1>2, <2>3, <2>4, PlanReadDoes
<1>3. ASSUME NEW position \in Nat \union {None}, NEW n \in Sizes,
             ReserveWrite(o, position, n), "writeAt" \notin Calls => position = None
      PROVE  cached' \in Nat /\ answer' = Taken /\ \E r \in CallType : Reserved(o, r)
  <2>1. n \in Nat /\ n > 0
    BY SizesArePositive
  <2>2. PICK a \in Nat, q \in BOOLEAN :
          /\ q <=> position = None
          /\ ~append /\ q => a = pos
          /\ pos' = IF q THEN a + n ELSE pos
          /\ call' = [call EXCEPT ![o] = [stage |-> "queued", kind |-> "write",
                        sequential |-> q, asked |-> n, at |-> a, len |-> n]]
    BY <1>3, <2>1, ReserveWriteDoes
  <2>3. rec("queued", "write", q, n, a, n) \in CallType
    BY <1>1, <2>1
  <2>4. Reserved(o, rec("queued", "write", q, n, a, n))
    BY <1>3, <2>1, <2>2 DEF Reserved
  <2> QED
    BY <1>3, <2>1, <2>3, <2>4, ReserveWriteDoes
<1>4. CASE Read(o)
  <2>1. PICK m \in Sizes \union {0, ToEof} : PlanRead(o, TRUE, pos, m)
    BY <1>4 DEF Read
  <2>2. m \in Nat \union {ToEof}
    BY SizesArePositive
  <2> QED
    BY <1>0, <1>2, <1>4, <2>1, <2>2 DEF Read
<1>5. CASE ReadAt(o)
  <2>1. PICK m \in Sizes \union {ToEof}, a \in Places : PlanRead(o, FALSE, a, m)
    BY <1>5 DEF ReadAt
  <2>2. m \in Nat \union {ToEof} /\ a \in Nat
    BY <1>0, SizesArePositive
  <2> QED
    BY <1>2, <1>5, <2>1, <2>2 DEF ReadAt
<1>6. CASE Write(o)
  <2>1. PICK n \in Sizes : ReserveWrite(o, None, n)
    BY <1>6 DEF Write
  <2> QED
    BY <1>3, <1>6, <2>1 DEF Write
<1>7. CASE WriteAt(o)
  <2>1. PICK n \in Sizes, a \in Places : ReserveWrite(o, a, n)
    BY <1>7 DEF WriteAt
  <2> QED
    BY <1>0, <1>3, <1>7, <2>1 DEF WriteAt
<1> QED
  BY <1>4, <1>5, <1>6, <1>7

\* Where a write lands is in or right behind the file, or at its offset.
LEMMA LandingType ==
  ASSUME TypeOK, NEW o \in Ops
  PROVE  Landing(o) \in Nat /\ call[o].at \in Nat /\ call[o].len \in Nat /\ Len(file) \in Nat
<1>1. Len(file) \in Nat
  BY LenProperties DEF TypeOK
<1>2. call[o].at \in Nat /\ call[o].len \in Nat
  BY DEF TypeOK
<1> QED
  BY <1>1, <1>2 DEF Landing

\* The bytes of a write.
LEMMA Payload ==
  ASSUME NEW o \in Ops, NEW n \in Nat
  PROVE  /\ [i \in 1..n |-> o] \in Seq(Bytes)
         /\ Len([i \in 1..n |-> o]) = n
<1>1. [i \in 1..n |-> o] \in [1..n -> Bytes]
  BY DEF Bytes
<1> QED
  BY <1>1, FunctionIsSeq

\* No step leaves the types.
LEMMA TypeStep == TypeOK /\ [Next /\ UNCHANGED <<append, oAppend>>]_vars => TypeOK'
<1> SUFFICES ASSUME TypeOK, [Next /\ UNCHANGED <<append, oAppend>>]_vars PROVE TypeOK'
  OBVIOUS
<1>0. append' = append /\ oAppend' = oAppend /\ Flags' = Flags
  BY DEF vars, Flags
<1>T. /\ append \in BOOLEAN /\ oAppend \in Flags /\ file \in Seq(Bytes) /\ pos \in Nat /\ cached \in Nat
      /\ call \in [Ops -> CallType] /\ stat \in [Ops -> Nat]
      /\ answer \in [Ops -> Seq(Bytes)] /\ cutting \in Nat \union {None}
      /\ Len(file) \in Nat
  BY LenProperties DEF TypeOK, CallType, Bytes
<1>1. ASSUME NEW o \in Ops, Read(o) \/ ReadAt(o) \/ Write(o) \/ WriteAt(o) PROVE TypeOK'
  <2>1. PICK r \in CallType : Reserved(o, r)
    BY <1>1, CallReserves
  <2>2. pos' \in Nat
    BY <1>T, <2>1 DEF Reserved, CallType
  <2>3. call' \in [Ops -> CallType]
    BY <1>T, <2>1 DEF Reserved
  <2>4. /\ cached' \in Nat /\ answer' \in [Ops -> Seq(Bytes)] /\ file' = file /\ stat' = stat
        /\ cutting' = cutting
    BY <1>1, CallReserves, TakenType
  <2> QED
    BY <1>0, <1>T, <2>2, <2>3, <2>4 DEF TypeOK, CallType, Bytes
<1>2. ASSUME NEW o \in Ops, PerformRead(o) PROVE TypeOK'
  <2>1. Slice(file, call[o].at, call[o].len) \in Seq(Bytes)
    BY <1>T, LandingType, SliceType
  <2>2. answer' \in [Ops -> Seq(Bytes)]
    BY <1>2, <1>T, <2>1 DEF PerformRead
  <2>3. call' \in [Ops -> CallType]
    <3>1. call' = Ended(o) \/ call' = [call EXCEPT ![o].stage = "refresh"]
      BY <1>2 DEF PerformRead
    <3>2. "refresh" \in Stages
      BY DEF Stages
    <3>3. [call EXCEPT ![o].stage = "refresh"] \in [Ops -> CallType]
      BY <1>T, <3>2 DEF CallType
    <3> QED
      BY <3>1, <3>3, EndedType
  <2> QED
    BY <1>0, <1>2, <1>T, <2>2, <2>3 DEF PerformRead, TypeOK, CallType, Bytes
<1>3. ASSUME NEW o \in Ops, PerformWrite(o) PROVE TypeOK'
  <2>1. CASE "error" \in Faults /\ call' = [call EXCEPT ![o].stage = "refresh"]
             /\ UNCHANGED <<file, answer>>
    <3>1. "refresh" \in Stages
      BY DEF Stages
    <3>2. call' \in [Ops -> CallType]
      BY <1>T, <2>1, <3>1 DEF CallType
    <3> QED
      BY <1>0, <1>3, <1>T, <2>1, <3>2 DEF PerformWrite, TypeOK, CallType, Bytes
  <2>2. CASE \E n \in IF "short" \in Faults THEN 1..call[o].len ELSE {call[o].len} :
               /\ file' = Overlay(file, Landing(o), [i \in 1..n |-> o], Hole)
               /\ answer' = [answer EXCEPT ![o] = [i \in 1..n |-> o]]
               /\ call' = Ended(o)
    <3>1. PICK n \in IF "short" \in Faults THEN 1..call[o].len ELSE {call[o].len} :
            /\ file' = Overlay(file, Landing(o), [i \in 1..n |-> o], Hole)
            /\ answer' = [answer EXCEPT ![o] = [i \in 1..n |-> o]]
            /\ call' = Ended(o)
      BY <2>2
    <3>0. n \in Nat
      BY LandingType
    <3>2. [i \in 1..n |-> o] \in Seq(Bytes) /\ Hole \in Bytes
      BY <3>0, Payload DEF Bytes
    <3>3. file' \in Seq(Bytes)
      BY <1>T, <3>1, <3>2, LandingType, OverlayBytes
    <3>4. answer' \in [Ops -> Seq(Bytes)]
      BY <1>T, <3>1, <3>2
    <3>5. call' \in [Ops -> CallType]
      BY <3>1, EndedType
    <3> QED
      BY <1>0, <1>3, <1>T, <3>3, <3>4, <3>5 DEF PerformWrite, TypeOK, CallType, Bytes
  <2> QED
    BY <1>3, <2>1, <2>2 DEF PerformWrite
<1>4. ASSUME NEW o \in Ops, AskSize(o) PROVE TypeOK'
  <2>1. "store" \in Stages
    BY DEF Stages
  <2>2. call' \in [Ops -> CallType]
    BY <1>4, <1>T, <2>1 DEF AskSize, CallType
  <2> QED
    BY <1>0, <1>4, <1>T, <2>2 DEF AskSize, TypeOK, CallType, Bytes
<1>5. ASSUME NEW o \in Ops, StoreSize(o) PROVE TypeOK'
  <2>1. call' \in [Ops -> CallType]
    BY <1>5, EndedType DEF StoreSize
  <2> QED
    BY <1>0, <1>5, <1>T, <2>1 DEF StoreSize, TypeOK, CallType, Bytes
<1>6. CASE Seek
  <2>1. PICK t \in Int : SeekTo(t) /\ (cached' = cached \/ cached' = Len(file))
    BY <1>6, <1>T, MaxLenIsNat DEF Seek
  <2>2. pos' \in Nat /\ cached' \in Nat
    BY <1>T, <2>1 DEF SeekTo
  <2> QED
    BY <1>0, <1>6, <1>T, <2>2, TakenType DEF Seek, TypeOK, CallType, Bytes
<1>7. CASE Truncate
  <2>1. PICK n \in Places : file' = Resize(file, n, Hole) /\ cutting' = n
    BY <1>7 DEF Truncate
  <2>2. n \in Nat /\ Hole \in Bytes
    BY MaxLenIsNat DEF Places, Bytes
  <2>3. file' \in Seq(Bytes)
    BY <1>T, <2>1, <2>2, ResizeType
  <2> QED
    BY <1>0, <1>7, <1>T, <2>1, <2>2, <2>3, TakenType DEF Truncate, TypeOK, CallType, Bytes
<1>8. CASE ApplyTruncate
  <2>1. cutting \in Nat
    BY <1>8, <1>T DEF ApplyTruncate
  <2>2. pos' \in Nat
    BY <1>8, <1>T, <2>1 DEF ApplyTruncate, Least
  <2> QED
    BY <1>0, <1>8, <1>T, <2>1, <2>2 DEF ApplyTruncate, TypeOK, CallType, Bytes
<1>9. CASE Grow
  <2>1. Append(file, Other) \in Seq(Bytes)
    BY <1>T, AppendProperties DEF Bytes
  <2> QED
    BY <1>0, <1>9, <1>T, <2>1 DEF Grow, TypeOK, CallType, Bytes
<1>10. CASE UNCHANGED vars
  BY <1>0, <1>10 DEF vars, TypeOK
<1> QED
  BY <1>1, <1>2, <1>3, <1>4, <1>5, <1>6, <1>7, <1>8, <1>9, <1>10 DEF Next

\* The position, the cached size, the reserved ranges and the sizes asked for
\* are natural numbers, whatever the program does: no seek(), truncate() or
\* stale size makes one of them negative.
THEOREM TypeCorrect == Spec => []TypeOK
BY TypeInit, TypeStep, PTL DEF Spec
------------------------------------------------------------------------------
(* Calls in flight together.                                               *)

\* The program reads, reads at offsets and writes; it has several calls in
\* flight and does not move the position by other means.
ReadsAndWrites == Calls \subseteq {"read", "readAt", "write"} /\ ~OneAtATime

\* Every range that was taken at the position lies before the position.
BehindPosition ==
  /\ cutting = None
  /\ ~append => \A o \in Ops : call[o].sequential /\ call[o].len > 0 =>
                                 call[o].at + call[o].len <= pos

\* A step that takes no range keeps those that there are.
LEMMA RangesFrame ==
  ASSUME BehindPosition, RangesDisjoint, UNCHANGED <<append, pos, cutting>>,
         \A p \in Ops : call'[p].sequential =>
            call[p].sequential /\ call'[p].at = call[p].at /\ call'[p].len = call[p].len
  PROVE  BehindPosition' /\ RangesDisjoint'
<1>1. BehindPosition'
  BY DEF BehindPosition
<1>2. RangesDisjoint'
  BY DEF RangesDisjoint
<1> QED
  BY <1>1, <1>2

\* A new range at the position meets none of the others.
LEMMA RangesStep ==
  ASSUME ReadsAndWrites
  PROVE  TypeOK /\ BehindPosition /\ RangesDisjoint /\ [Next /\ UNCHANGED <<append, oAppend>>]_vars
           => BehindPosition' /\ RangesDisjoint'
<1> SUFFICES ASSUME TypeOK, BehindPosition, RangesDisjoint, [Next /\ UNCHANGED <<append, oAppend>>]_vars
             PROVE  BehindPosition' /\ RangesDisjoint'
  OBVIOUS
<1> DEFINE Goal == BehindPosition' /\ RangesDisjoint'
           Frame == /\ UNCHANGED <<append, pos, cutting>>
                    /\ \A p \in Ops : call'[p].sequential =>
                         /\ call[p].sequential
                         /\ call'[p].at = call[p].at /\ call'[p].len = call[p].len
<1>0. append' = append /\ (Frame => Goal)
  BY RangesFrame DEF vars
<1>T. call \in [Ops -> CallType] /\ pos \in Nat
  BY DEF TypeOK, CallType
<1>1. ASSUME NEW o \in Ops, Read(o) \/ ReadAt(o) \/ Write(o) \/ WriteAt(o) PROVE Goal
  <2>1. PICK r \in CallType : Reserved(o, r)
    BY <1>1, CallReserves
  <2>2. r.at \in Nat /\ r.len \in Nat /\ cutting' = cutting
    BY <1>1, CallReserves DEF CallType
  <2>3. CASE call' = call
    <3>1. pos' >= pos \/ append
      BY <1>T, <2>1, <2>2 DEF Reserved
    <3>2. BehindPosition'
      BY <1>0, <1>T, <2>1, <2>2, <2>3, <3>1 DEF BehindPosition, Reserved, CallType
    <3> QED
      BY <1>0, <2>3, <3>2 DEF RangesDisjoint
  <2>4. CASE call' = [call EXCEPT ![o] = r]
    <3>1. call'[o] = r /\ \A p \in Ops \ {o} : call'[p] = call[p]
      BY <1>T, <2>4
    <3>2. ~append => pos' >= pos /\ (r.sequential /\ r.len > 0 => r.at = pos /\ r.at + r.len <= pos')
      BY <1>T, <2>1, <2>2 DEF Reserved
    <3>3. \A p \in Ops : call[p].at \in Nat /\ call[p].len \in Nat
      BY <1>T DEF CallType
    <3>4. pos' \in Int
      BY <1>T, <2>1, <2>2 DEF Reserved
    <3>5. BehindPosition'
      BY <1>0, <1>T, <2>2, <3>1, <3>2, <3>3, <3>4 DEF BehindPosition
    <3>6. RangesDisjoint'
      BY <1>0, <1>T, <2>2, <3>1, <3>2, <3>3 DEF BehindPosition, RangesDisjoint
    <3> QED
      BY <3>5, <3>6
  <2> QED
    BY <2>1, <2>3, <2>4 DEF Reserved
<1>2. ASSUME NEW o \in Ops, PerformRead(o) \/ PerformWrite(o) \/ AskSize(o) \/ StoreSize(o)
      PROVE  Frame
  <2>1. call' = Ended(o) \/ \E s \in Stages : call' = [call EXCEPT ![o].stage = s]
    BY <1>2 DEF PerformRead, PerformWrite, AskSize, StoreSize, Stages
  <2>2. \A p \in Ops : call'[p].sequential =>
          call[p].sequential /\ call'[p].at = call[p].at /\ call'[p].len = call[p].len
    <3>1. CASE call' = Ended(o)
      BY <3>1, EndedType
    <3>2. CASE \E s \in Stages : call' = [call EXCEPT ![o].stage = s]
      BY <1>T, <3>2 DEF CallType
    <3> QED
      BY <2>1, <3>1, <3>2
  <2> QED
    BY <1>0, <1>2, <2>2 DEF PerformRead, PerformWrite, AskSize, StoreSize
<1>3. ~Seek /\ ~Truncate /\ ~ApplyTruncate
  BY DEF ReadsAndWrites, Seek, Truncate, ApplyTruncate, BehindPosition
<1>4. CASE Grow
  BY <1>0, <1>4 DEF Grow
<1>5. CASE UNCHANGED vars
  BY <1>0, <1>5 DEF vars
<1> QED
  BY <1>0, <1>1, <1>2, <1>3, <1>4, <1>5 DEF Next

\* At first no range is taken.
LEMMA RangesInit == Init => BehindPosition /\ RangesDisjoint
BY DEF Init, Unused, BehindPosition, RangesDisjoint

\* However many reads and writes are in flight, of whatever sizes, performed in
\* whatever order, failing or short, with another process appending: two calls
\* that share the position never share a byte.
THEOREM Disjoint ==
  ASSUME ReadsAndWrites
  PROVE  Spec => []RangesDisjoint
<1>1. Init => TypeOK /\ BehindPosition /\ RangesDisjoint
  BY TypeInit, RangesInit
<1>2. TypeOK /\ BehindPosition /\ RangesDisjoint /\ [Next /\ UNCHANGED <<append, oAppend>>]_vars
        => TypeOK' /\ BehindPosition' /\ RangesDisjoint'
  BY TypeStep, RangesStep
<1> QED
  BY <1>1, <1>2, PTL DEF Spec

\* The bytes of a write stand in the file: at their offset, or anywhere for an
\* appending file.
Stands(o) ==
  \E at \in 0..(Len(file) - Len(answer[o])) :
    /\ ~append /\ Len(answer[o]) > 0 => at = call[o].at
    /\ \A i \in 1..Len(answer[o]) : file[at + i] = answer[o][i]

\* What a write has transferred stands in the file, within the range it took;
\* one that has not been performed has transferred nothing.
Kept ==
  \A o \in Ops :
    /\ call[o].kind = "write" => call[o].sequential
    /\ call[o].stage = "new" \/ (call[o].kind = "write" /\ call[o].stage # "done") =>
         answer[o] = <<>>
    /\ call[o].kind = "write" => Stands(o) /\ Len(answer[o]) <= call[o].len

\* The kernel places what is appended.
Placing == append => oAppend

\* It is what WritesKept says.
LEMMA KeptSuffices == TypeOK /\ (Placing => Kept) => WritesKept
<1> SUFFICES ASSUME TypeOK, Placing, Kept, NEW o \in Ops, call[o].kind = "write"
             PROVE  \E at \in 0..(Len(file) - Len(answer[o])) :
                      Slice(file, at, Len(answer[o])) = answer[o]
  BY DEF WritesKept, Placing
<1> DEFINE n == Len(answer[o])
<1>1. file \in Seq(Bytes) /\ answer[o] \in Seq(Bytes) /\ Len(file) \in Nat /\ n \in Nat
  BY LenProperties DEF TypeOK, Bytes
<1>2. PICK at \in 0..(Len(file) - n) : \A i \in 1..n : file[at + i] = answer[o][i]
  BY DEF Kept, Stands
<1> HIDE DEF n
<1>3. Slice(file, at, n) = SubSeq(file, at + 1, at + n)
  <2>1. Least(at + n, Len(file)) = at + n
    BY <1>1, <1>2 DEF Least
  <2> QED
    BY <2>1 DEF Slice
<1>4. \A i \in (at + 1)..(at + n) : file[i] \in Bytes
  BY <1>1, <1>2
<1> DEFINE s == SubSeq(file, at + 1, at + n)
<1>5. /\ s \in Seq(Bytes)
      /\ Len(s) = IF at + 1 <= at + n THEN (at + n) - (at + 1) + 1 ELSE 0
      /\ \A i \in 1 .. ((at + n) - (at + 1) + 1) : s[i] = file[(at + 1) + i - 1]
  BY <1>1, <1>2, <1>4, SubSeqProperties
<1> HIDE DEF s
<1>6. Len(s) = n
  BY <1>1, <1>2, <1>5
<1>7. \A i \in 1..n : s[i] = answer[o][i]
  <2> SUFFICES ASSUME NEW i \in 1..n PROVE s[i] = answer[o][i]
    OBVIOUS
  <2>1. i \in 1 .. ((at + n) - (at + 1) + 1) /\ (at + 1) + i - 1 = at + i
    BY <1>1, <1>2
  <2> QED
    BY <1>2, <1>5, <2>1
<1>8. s = answer[o]
  BY <1>1, <1>5, <1>6, <1>7, SeqEqual DEF n
<1> QED
  BY <1>2, <1>3, <1>8 DEF s, n

\* A file in which the bytes of a write are not touched keeps them.
LEMMA StandsFrame ==
  ASSUME TypeOK, NEW o \in Ops, Stands(o), append' = append, answer'[o] = answer[o],
         call'[o].at = call[o].at, Len(file') \in Nat, Len(file') >= Len(file),
         \A j \in 1..Len(file) :
           \/ append
           \/ call[o].at < j /\ j <= call[o].at + Len(answer[o])
           => file'[j] = file[j]
  PROVE  Stands(o)'
<1> DEFINE n == Len(answer[o])
<1>1. /\ Len(file) \in Nat /\ n \in Nat /\ call[o].at \in Nat
      /\ Len(answer'[o]) = n
  BY LenProperties DEF TypeOK
<1>2. PICK at \in 0..(Len(file) - n) :
        /\ ~append /\ n > 0 => at = call[o].at
        /\ \A i \in 1..n : file[at + i] = answer[o][i]
  BY DEF Stands
<1> HIDE DEF n
<1>3. at \in 0..(Len(file') - n)
  BY <1>1, <1>2
<1>4. ASSUME NEW i \in 1..n PROVE file'[at + i] = answer[o][i]
  <2>1. at + i \in 1..Len(file) /\ n > 0 /\ at < at + i /\ at + i <= at + n
    BY <1>1, <1>2
  <2>2. append \/ (call[o].at < at + i /\ at + i <= call[o].at + n)
    BY <1>2, <2>1
  <2>3. file'[at + i] = file[at + i]
    BY <2>1, <2>2 DEF n
  <2> QED
    BY <1>2, <2>3
<1>5. /\ ~append' /\ Len(answer'[o]) > 0 => at = call'[o].at
      /\ \A i \in 1..Len(answer'[o]) : file'[at + i] = answer'[o][i]
      /\ at \in 0..(Len(file') - Len(answer'[o]))
  BY <1>1, <1>2, <1>3, <1>4
<1> QED
  BY <1>5 DEF Stands

\* Making a call and taking its answer move no byte.
LEMMA KeptFrame ==
  ASSUME TypeOK, Kept, UNCHANGED <<append, file>>,
         NEW o \in Ops, \A p \in Ops \ {o} : call'[p] = call[p] /\ answer'[p] = answer[p],
         call'[o].kind = "write" =>
           /\ call'[o].sequential
           /\ answer'[o] = <<>> \/ (call'[o] = call[o] /\ answer'[o] = answer[o])
           /\ call'[o].len \in Nat,
         call'[o].stage = "new" => answer'[o] = <<>>,
         call'[o].kind = "write" /\ call'[o].stage # "done" => answer'[o] = <<>>
  PROVE  Kept'
<1>1. Len(file) \in Nat
  BY LenProperties DEF TypeOK
<1>2. ASSUME NEW p \in Ops, call'[p] = call[p], answer'[p] = answer[p], Stands(p) PROVE Stands(p)'
  BY <1>1, <1>2, StandsFrame
<1>3. answer'[o] = <<>> => Stands(o)'
  <2> SUFFICES ASSUME answer'[o] = <<>> PROVE Stands(o)'
    OBVIOUS
  <2>1. Len(answer'[o]) = 0 /\ 0 \in 0..(Len(file') - 0)
    BY <1>1
  <2> QED
    BY <2>1 DEF Stands
<1>4. \A p \in Ops \ {o} : (call'[p].kind = "write" => Stands(p)')
  BY <1>2 DEF Kept
<1>5. call'[o].kind = "write" => Stands(o)'
  BY <1>2, <1>3 DEF Kept
<1> QED
  BY <1>4, <1>5 DEF Kept

\* A write puts its bytes where no other write has put any.
LEMMA WriteKeeps ==
  ASSUME TypeOK, BehindPosition, RangesDisjoint, Placing, Kept, ~OneAtATime, append' = append,
         NEW o \in Ops, call[o].stage = "queued", call[o].kind = "write",
         NEW n \in Nat, n <= call[o].len,
         file' = Overlay(file, Landing(o), [i \in 1..n |-> o], Hole),
         answer' = [answer EXCEPT ![o] = [i \in 1..n |-> o]],
         call' = [call EXCEPT ![o].stage = "done"]
  PROVE  Kept'
<1> DEFINE s == [i \in 1..n |-> o]
           l == Landing(o)
<1>1. /\ file \in Seq(Bytes) /\ call \in [Ops -> CallType] /\ answer \in [Ops -> Seq(Bytes)]
      /\ Len(file) \in Nat /\ l \in Nat /\ call[o].at \in Nat /\ call[o].len \in Nat
      /\ s \in Seq(Bytes) /\ Len(s) = n /\ Hole \in Bytes
  BY LandingType, Payload DEF TypeOK, CallType, Bytes
<1>2. /\ answer'[o] = s /\ \A p \in Ops \ {o} : answer'[p] = answer[p] /\ call'[p] = call[p]
      /\ call'[o].kind = "write" /\ call'[o].stage = "done" /\ call'[o].sequential = call[o].sequential
      /\ call'[o].at = call[o].at /\ call'[o].len = call[o].len
  BY <1>1 DEF CallType
<1>3. l = IF append THEN Len(file) ELSE call[o].at
  BY DEF Landing, Placing, TypeOK, Flags
<1> HIDE DEF s, l
<1>4. /\ file' = Overlay(file, l, s, Hole)
      /\ Len(file') = Most(Len(file), l + n)
      /\ \A j \in 1..Len(file) : j <= l \/ j > l + n => file'[j] = file[j]
      /\ \A i \in 1..n : file'[l + i] = s[i]
  <2>1. file' = Overlay(file, l, s, Hole)
    BY DEF s, l
  <2>2. /\ file \in Seq(Bytes) /\ l \in Nat /\ s \in Seq(Bytes) /\ Hole \in Bytes
    BY <1>1
  <2>3. Len(Overlay(file, l, s, Hole)) = Most(Len(file), l + Len(s))
    BY <2>2, OverlayBytes
  <2>4. \A j \in 1..Len(file) :
          j <= l \/ j > l + Len(s) => Overlay(file, l, s, Hole)[j] = file[j]
    <3> SUFFICES ASSUME NEW j \in 1..Len(file), j <= l \/ j > l + Len(s)
                 PROVE  Overlay(file, l, s, Hole)[j] = file[j]
      OBVIOUS
    <3> QED
      BY <2>2, OverlayOutside
  <2>5. \A i \in 1..Len(s) : Overlay(file, l, s, Hole)[l + i] = s[i]
    <3> SUFFICES ASSUME NEW i \in 1..Len(s) PROVE Overlay(file, l, s, Hole)[l + i] = s[i]
      OBVIOUS
    <3> QED
      BY <2>2, OverlayInside
  <2> QED
    BY <1>1, <2>1, <2>3, <2>4, <2>5
<1>5. Len(file') \in Nat /\ Len(file') >= Len(file) /\ Len(file') >= l + n
  BY <1>1, <1>4 DEF Most
<1>6. ASSUME NEW p \in Ops \ {o}, call[p].kind = "write" PROVE Stands(p)'
  <2> DEFINE m == Len(answer[p])
  <2>1. /\ Stands(p) /\ m <= call[p].len /\ call[p].sequential /\ call[o].sequential
    BY <1>6 DEF Kept
  <2>2. m \in Nat /\ call[p].at \in Nat /\ call[p].len \in Nat
    BY <1>1, LenProperties DEF CallType
  <2>3. ASSUME NEW j \in 1..Len(file),
               append \/ (call[p].at < j /\ j <= call[p].at + m)
        PROVE  file'[j] = file[j]
    <3>1. CASE append
      <4>1. j <= l
        BY <1>3, <3>1
      <4> QED
        BY <1>4, <4>1
    <3>2. CASE ~append
      <4>1. call[p].at < j /\ j <= call[p].at + m /\ call[p].len > 0
        BY <2>1, <2>2, <2>3, <3>2
      <4>2. CASE n = 0
        <5>1. j <= l \/ j > l + n
          BY <1>1, <4>2
        <5> QED
          BY <1>4, <5>1
      <4>3. CASE n > 0
        <5>1. \/ call[o].at + call[o].len <= call[p].at
              \/ call[p].at + call[p].len <= call[o].at
          BY <1>1, <2>1, <3>2, <4>1, <4>3 DEF RangesDisjoint
        <5>2. j <= l \/ j > l + n
          BY <1>1, <1>3, <2>1, <2>2, <3>2, <4>1, <5>1
        <5> QED
          BY <1>4, <5>2
      <4> QED
        BY <4>2, <4>3
    <3> QED
      BY <3>1, <3>2
  <2> QED
    BY <1>2, <1>5, <1>6, <2>1, <2>3, StandsFrame
<1>7. Stands(o)'
  <2>1. l \in 0..(Len(file') - n)
    BY <1>1, <1>5
  <2>2. Len(answer'[o]) = n /\ \A i \in 1..n : file'[l + i] = answer'[o][i]
    BY <1>1, <1>2, <1>4
  <2>3. ~append' => l = call'[o].at
    BY <1>2, <1>3
  <2> QED
    BY <2>1, <2>2, <2>3 DEF Stands
<1>8. call'[o].sequential /\ Len(answer'[o]) <= call'[o].len
  BY <1>1, <1>2 DEF Kept
<1>9. \A p \in Ops \ {o} : /\ call'[p].kind = "write" => Stands(p)' /\ Len(answer'[p]) <= call'[p].len
                           /\ call'[p].kind = "write" => call'[p].sequential
  BY <1>2, <1>6 DEF Kept
<1>10. \A p \in Ops \ {o} :
         call'[p].stage = "new" \/ (call'[p].kind = "write" /\ call'[p].stage # "done") =>
           answer'[p] = <<>>
  BY <1>2 DEF Kept
<1> QED
  BY <1>2, <1>7, <1>8, <1>9, <1>10 DEF Kept

\* No step loses a written byte.
LEMMA KeptStep ==
  ASSUME ReadsAndWrites
  PROVE  TypeOK /\ BehindPosition /\ RangesDisjoint /\ Placing /\ Kept
           /\ [Next /\ UNCHANGED <<append, oAppend>>]_vars => Kept'
<1> SUFFICES ASSUME TypeOK, BehindPosition, RangesDisjoint, Placing, Kept,
                    [Next /\ UNCHANGED <<append, oAppend>>]_vars
             PROVE  Kept'
  OBVIOUS
<1>0. append' = append /\ ~OneAtATime /\ "writeAt" \notin Calls
  BY DEF vars, ReadsAndWrites
<1>T. /\ call \in [Ops -> CallType] /\ answer \in [Ops -> Seq(Bytes)]
      /\ file \in Seq(Bytes) /\ Len(file) \in Nat
  BY LenProperties DEF TypeOK, CallType, Bytes
<1>1. ASSUME NEW o \in Ops, Read(o) \/ ReadAt(o) \/ Write(o) \/ WriteAt(o) PROVE Kept'
  <2>1. PICK r \in CallType : Reserved(o, r)
    BY <1>1, CallReserves
  <2>2. /\ answer' = answer /\ file' = file /\ call[o].stage = "new"
    BY <1>0, <1>1, CallReserves, TakenType DEF Callable
  <2>3. answer[o] = <<>>
    BY <2>2 DEF Kept
  <2>4. CASE call' = call
    BY <1>0, <1>T, <2>2, <2>3, <2>4, KeptFrame DEF Kept, CallType
  <2>5. CASE call' = [call EXCEPT ![o] = r]
    <3>1. call'[o] = r /\ \A p \in Ops \ {o} : call'[p] = call[p]
      BY <1>T, <2>5
    <3>2. r.kind = "write" => r.sequential /\ r.len \in Nat
      BY <1>0, <2>1 DEF Reserved, CallType
    <3> QED
      BY <1>0, <2>2, <2>3, <3>1, <3>2, KeptFrame
  <2> QED
    BY <2>1, <2>4, <2>5 DEF Reserved
<1>2. ASSUME NEW o \in Ops, UNCHANGED file,
             \A p \in Ops \ {o} : answer'[p] = answer[p],
             call[o].kind = "write" => answer[o] = <<>> /\ answer'[o] = <<>>,
             NEW s \in Stages \ {"new"}, call' = [call EXCEPT ![o].stage = s]
      PROVE  Kept'
  <2>1. /\ \A p \in Ops \ {o} : call'[p] = call[p]
        /\ call'[o].stage = s /\ call'[o].kind = call[o].kind
        /\ call'[o].sequential = call[o].sequential /\ call'[o].len = call[o].len
        /\ call[o].len \in Nat
    BY <1>T, <1>2 DEF CallType
  <2>2. call[o].kind = "write" => call[o].sequential
    BY DEF Kept
  <2> QED
    BY <1>0, <1>2, <2>1, <2>2, KeptFrame
<1>3. ASSUME NEW o \in Ops, PerformRead(o) PROVE Kept'
  <2>1. PICK s \in {"done", "refresh"} : call' = [call EXCEPT ![o].stage = s]
    BY <1>0, <1>3 DEF PerformRead, Ended
  <2>2. call[o].kind = "read" /\ file' = file /\ \A p \in Ops \ {o} : answer'[p] = answer[p]
    BY <1>3, <1>T DEF PerformRead
  <2>3. s \in Stages \ {"new"}
    BY DEF Stages
  <2> QED
    BY <1>2, <2>1, <2>2, <2>3
<1>4. ASSUME NEW o \in Ops, PerformWrite(o) PROVE Kept'
  <2>1. CASE call' = [call EXCEPT ![o].stage = "refresh"] /\ UNCHANGED <<file, answer>>
    <3>1. call[o].kind = "write" /\ call[o].stage = "queued"
      BY <1>4 DEF PerformWrite
    <3>2. answer[o] = <<>>
      BY <3>1 DEF Kept
    <3>3. "refresh" \in Stages \ {"new"}
      BY DEF Stages
    <3> QED
      BY <1>2, <2>1, <3>2, <3>3
  <2>2. CASE \E n \in IF "short" \in Faults THEN 1..call[o].len ELSE {call[o].len} :
               /\ file' = Overlay(file, Landing(o), [i \in 1..n |-> o], Hole)
               /\ answer' = [answer EXCEPT ![o] = [i \in 1..n |-> o]]
               /\ call' = Ended(o)
    <3>1. PICK n \in IF "short" \in Faults THEN 1..call[o].len ELSE {call[o].len} :
            /\ file' = Overlay(file, Landing(o), [i \in 1..n |-> o], Hole)
            /\ answer' = [answer EXCEPT ![o] = [i \in 1..n |-> o]]
            /\ call' = Ended(o)
      BY <2>2
    <3>2. n \in Nat /\ n <= call[o].len
      BY LandingType
    <3>3. call[o].stage = "queued" /\ call[o].kind = "write"
      BY <1>4 DEF PerformWrite
    <3>4. call' = [call EXCEPT ![o].stage = "done"]
      BY <1>0, <3>1 DEF Ended
    <3> QED
      BY <1>0, <3>1, <3>2, <3>3, <3>4, WriteKeeps
  <2> QED
    BY <1>4, <2>1, <2>2 DEF PerformWrite
<1>5. ASSUME NEW o \in Ops, AskSize(o) \/ StoreSize(o) PROVE Kept'
  <2>1. PICK s \in {"done", "store"} : call' = [call EXCEPT ![o].stage = s]
    BY <1>0, <1>5 DEF AskSize, StoreSize, Ended
  <2>2. call[o].stage \in {"refresh", "store"} /\ UNCHANGED <<file, answer>>
    BY <1>5 DEF AskSize, StoreSize
  <2>3. call[o].kind = "write" => answer[o] = <<>>
    BY <2>2 DEF Kept
  <2>4. s \in Stages \ {"new"}
    BY DEF Stages
  <2> QED
    BY <1>2, <2>1, <2>2, <2>3, <2>4
<1>6. ~Seek /\ ~Truncate /\ ~ApplyTruncate
  BY DEF ReadsAndWrites, Seek, Truncate, ApplyTruncate, BehindPosition
<1>7. CASE Grow
  <2>1. /\ UNCHANGED <<call, answer>> /\ file' = Append(file, Other) /\ Other \in Bytes
    BY <1>7 DEF Grow, Bytes
  <2>2. Len(file') = Len(file) + 1 /\ \A j \in 1..Len(file) : file'[j] = file[j]
    BY <1>T, <2>1, AppendProperties
  <2>3. ASSUME NEW p \in Ops, Stands(p) PROVE Stands(p)'
    BY <1>0, <1>T, <2>1, <2>2, <2>3, StandsFrame
  <2> QED
    BY <2>1, <2>3 DEF Kept
<1>8. CASE UNCHANGED vars
  BY <1>8 DEF vars, Kept, Stands
<1> QED
  BY <1>1, <1>3, <1>4, <1>5, <1>6, <1>7, <1>8 DEF Next

\* Nothing has been written at first.
LEMMA KeptInit == Init => Kept
BY DEF Init, Unused, Kept

\* Every byte that a successful write() has transferred is in the file, however
\* many reads and writes are in flight, in whatever order the workers perform
\* them, with failures, short writes and another process appending: without
\* append mode, and with it if the descriptor has O_APPEND (not on Windows).
THEOREM WritesAreKept ==
  ASSUME ReadsAndWrites
  PROVE  Spec => []WritesKept
<1>1. Init => TypeOK /\ BehindPosition /\ RangesDisjoint /\ (Placing => Kept)
  BY TypeInit, RangesInit, KeptInit
<1>2. TypeOK /\ BehindPosition /\ RangesDisjoint /\ (Placing => Kept)
        /\ [Next /\ UNCHANGED <<append, oAppend>>]_vars
        => TypeOK' /\ BehindPosition' /\ RangesDisjoint' /\ (Placing => Kept)'
  <2>1. ASSUME [Next /\ UNCHANGED <<append, oAppend>>]_vars, Placing' PROVE Placing
    <3>1. append' = append /\ oAppend' = oAppend
      BY <2>1 DEF vars
    <3> QED
      BY <2>1, <3>1 DEF Placing
  <2> QED
    BY <2>1, TypeStep, RangesStep, KeptStep
<1>3. TypeOK /\ (Placing => Kept) => WritesKept
  BY KeptSuffices
<1> QED
  BY <1>1, <1>2, <1>3, PTL DEF Spec
------------------------------------------------------------------------------
(* No read is told that the file ends where it does not.                   *)

\* A read that is planned with nothing to transfer has the end of the file at
\* or before its offset.
LEMMA EndIsSeen ==
  ASSUME TypeOK, NEW o \in Ops, NEW sequential \in BOOLEAN, NEW at \in Nat,
         NEW asked \in Nat \union {ToEof}, asked # 0, PlanRead(o, sequential, at, asked),
         call'[o].stage = "done", call[o].stage = "new"
  PROVE  call'[o].at = at /\ Len(file) <= at
<1> DEFINE left == Most(0, EndSeen(at) - at)
           n == IF asked = ToEof THEN left ELSE Least(asked, left)
           r == [stage |-> IF n = 0 THEN "done" ELSE "queued", kind |-> "read",
                 sequential |-> sequential, asked |-> asked, at |-> at, len |-> n]
<1>1. Len(file) \in Nat /\ cached \in Nat /\ call \in [Ops -> CallType]
  BY LenProperties DEF TypeOK, CallType
<1>2. EndSeen(at) \in Nat
  BY <1>1 DEF EndSeen
<1>3. call' = IF n = 0 /\ OneAtATime THEN call ELSE [call EXCEPT ![o] = r]
  BY DEF PlanRead
<1>4. r.at = at /\ r.stage = (IF n = 0 THEN "done" ELSE "queued")
  OBVIOUS
<1>5. n = 0 => EndSeen(at) <= at
  BY <1>2 DEF Most, Least, ToEof
<1>6. EndSeen(at) <= at => Len(file) <= at
  BY <1>1 DEF EndSeen
<1> HIDE DEF r, n
<1>7. call'[o] = r
  BY <1>1, <1>3
<1> QED
  BY <1>4, <1>5, <1>6, <1>7

\* A transfer that stops short, with no bytes, has started at or behind the end.
LEMMA ShortAtEnd ==
  ASSUME TypeOK, NEW o \in Ops, NEW at \in Nat, NEW n \in Nat,
         Slice(file, at, n) = <<>>, Len(Slice(file, at, n)) < n
  PROVE  Len(file) <= at
<1> DEFINE e == Least(at + n, Len(file))
<1>1. Len(file) \in Nat /\ file \in Seq(Bytes)
  BY LenProperties DEF TypeOK, Bytes
<1>2. e \in Nat /\ e <= Len(file) /\ (at < Len(file) /\ 0 < n => at < e)
  BY <1>1 DEF Least
<1>3. \A i \in (at + 1)..e : file[i] \in Bytes
  BY <1>1, <1>2
<1>4. Slice(file, at, n) = SubSeq(file, at + 1, e)
  BY DEF Slice
<1>5. at + 1 <= e + 1 => Len(SubSeq(file, at + 1, e)) = e + 1 - (at + 1)
  BY <1>1, <1>2, <1>3, SubSeqProperties
<1>6. Len(Slice(file, at, n)) = 0 /\ 0 < n
  BY EmptySeq
<1> HIDE DEF e
<1>7. ASSUME at < Len(file) PROVE FALSE
  <2>1. at < e
    BY <1>2, <1>6, <1>7
  <2>2. Len(SubSeq(file, at + 1, e)) = e + 1 - (at + 1)
    BY <1>2, <1>5, <2>1
  <2>3. 0 = e + 1 - (at + 1)
    BY ONLY <1>4, <1>6, <2>2, Zenon
  <2> QED
    BY <1>2, <2>1, <2>3
<1> QED
  BY <1>1, <1>7

\* An ended call is done or forgotten, the others are left alone.
LEMMA EndedStage ==
  ASSUME TypeOK, NEW p \in Ops
  PROVE  /\ Ended(p)[p].stage \in {"new", "done"}
         /\ \A o \in Ops : o # p => Ended(p)[o] = call[o]
<1>1. call \in [Ops -> CallType]
  BY DEF TypeOK, CallType
<1> QED
  BY <1>1 DEF Ended, Unused, CallType

\* No read is answered with nothing while the file goes on at its offset: the
\* cached size, however stale, is never taken for the end, whatever the program,
\* the failures and other processes do.
THEOREM EndIsTrue == Spec => NoFalseEof
<1> DEFINE Ends(o) ==
             /\ call'[o].kind = "read"
             /\ call'[o].asked # 0
             /\ answer'[o] = <<>>
             /\ \/ call[o].stage = "new" /\ call'[o].stage = "done"
                \/ call[o].stage = "queued" /\ call'[o].stage = "refresh"
<1>1. ASSUME TypeOK, Next, NEW o \in Ops, Ends(o) PROVE Len(file) <= call'[o].at
  <2>0. call \in [Ops -> CallType] /\ call'[o] # call[o]
    BY <1>1 DEF TypeOK, CallType
  <2>1. ASSUME NEW p \in Ops, Read(p) \/ ReadAt(p) \/ Write(p) \/ WriteAt(p)
        PROVE  Len(file) <= call'[o].at
    <3>1. PICK r \in CallType : Reserved(p, r)
      BY <1>1, <2>1, CallReserves
    <3>2. p = o /\ call'[o] = r /\ call[o].stage = "new" /\ r.stage = "done"
      BY <1>1, <2>0, <3>1 DEF Reserved
    <3>3. ASSUME Write(p) \/ WriteAt(p) PROVE FALSE
      <4>1. PICK position, n : ReserveWrite(p, position, n)
        BY <3>3 DEF Write, WriteAt
      <4>2. call'[p].stage = "queued"
        BY <2>0, <4>1 DEF ReserveWrite
      <4> QED
        BY <3>2, <4>2
    <3>4. CASE Read(p)
      <4>1. PICK m \in Sizes \union {0, ToEof} : PlanRead(p, TRUE, pos, m)
        BY <3>4 DEF Read
      <4>0. pos \in Nat
        BY <1>1 DEF TypeOK
      <4>2. m \in Nat \union {ToEof}
        BY SizesArePositive
      <4>3. m # 0
        BY <1>1, <2>0, <3>2, <4>1 DEF PlanRead
      <4> QED
        BY <1>1, <3>2, <4>0, <4>1, <4>2, <4>3, EndIsSeen
    <3>5. CASE ReadAt(p)
      <4>1. PICK m \in Sizes \union {ToEof}, a \in Places : PlanRead(p, FALSE, a, m)
        BY <3>5 DEF ReadAt
      <4>2. m \in Nat \union {ToEof} /\ a \in Nat /\ m # 0
        BY SizesArePositive, MaxLenIsNat DEF Places, ToEof
      <4> QED
        BY <1>1, <3>2, <4>1, <4>2, EndIsSeen
    <3> QED
      BY <2>1, <3>3, <3>4, <3>5
  <2>2. ASSUME NEW p \in Ops, PerformRead(p) PROVE Len(file) <= call'[o].at
    <3> DEFINE got == Slice(file, call[p].at, call[p].len)
    <3>1. /\ call[p].stage = "queued"
          /\ \/ /\ answer' = [answer EXCEPT ![p] = got] /\ Len(got) < call[p].len
                /\ call' = [call EXCEPT ![p].stage = "refresh"]
             \/ call' = Ended(p)
      BY <2>2 DEF PerformRead
    <3>2. call' # Ended(p)
      BY <1>1, <2>0, <3>1, EndedStage
    <3>3. p = o
      BY <2>0, <3>1, <3>2 DEF CallType
    <3>4. answer \in [Ops -> Seq(Bytes)]
      BY <1>1 DEF TypeOK, Bytes
    <3>5. got = <<>> /\ call'[o].at = call[o].at
      BY <1>1, <2>0, <3>1, <3>2, <3>3, <3>4 DEF CallType
    <3>6. call[o].at \in Nat /\ call[o].len \in Nat
      BY <2>0 DEF CallType
    <3> QED
      BY <1>1, <3>1, <3>2, <3>3, <3>5, <3>6, ShortAtEnd
  <2>3. ASSUME NEW p \in Ops, PerformWrite(p) PROVE FALSE
    <3>1. /\ call[p].kind = "write" /\ call[p].stage = "queued"
          /\ call' = Ended(p) \/ call' = [call EXCEPT ![p].stage = "refresh"]
      BY <2>3 DEF PerformWrite
    <3> QED
      BY <1>1, <2>0, <3>1, EndedStage DEF CallType
  <2>4. ASSUME NEW p \in Ops, AskSize(p) \/ StoreSize(p) PROVE FALSE
    <3>1. /\ call[p].stage \in {"refresh", "store"}
          /\ call' = Ended(p) \/ call' = [call EXCEPT ![p].stage = "store"]
      BY <2>4 DEF AskSize, StoreSize
    <3> QED
      BY <1>1, <2>0, <3>1, EndedStage DEF CallType
  <2>5. ~Seek /\ ~Truncate /\ ~ApplyTruncate /\ ~Grow
    BY <2>0 DEF Seek, Truncate, ApplyTruncate, Grow
  <2> QED
    BY <1>1, <2>1, <2>2, <2>3, <2>4, <2>5 DEF Next
<1>2. TypeOK /\ [Next /\ UNCHANGED <<append, oAppend>>]_vars
        => [\A o \in Ops : Ends(o) => Len(file) <= call'[o].at]_vars
  BY <1>1
<1> QED
  BY <1>2, TypeCorrect, PTL DEF Spec, NoFalseEof
------------------------------------------------------------------------------
(* The handle as an ordinary file object.                                  *)
(*                                                                         *)
(* For a program that awaits its calls the cached size is the size, but    *)
(* for the time a call needs to make them agree again.                     *)

\* The cached size is right from the start: the constructor stores it (a wrapped
\* descriptor, append mode), or the file is empty ("w", "x").
StartsRight == KnowsSize \/ StartLen = 0 \/ Appending \subseteq {TRUE}

\* The program only reads ("r"), moves and truncates.
OnlyReads == {"write", "writeAt"} \intersect Calls = {}

\* The program awaits every call; the file is the handle's alone, and a write
\* that succeeds writes everything.  A file opened by path that has a content
\* and is written to ("r+") is the only one left out.
Awaits ==
  /\ OneAtATime /\ ~Shared /\ "short" \notin Faults
  /\ StartsRight \/ OnlyReads

\* The cached size is that of the file, or, for a program that only reads, still
\* zero, which is at or before any offset, so that a read asks for the size.
Agrees == cached = Len(file) \/ (cached = 0 /\ OnlyReads)

\* One call is under way, and until it is performed nothing is transferred.
OneCall ==
  /\ \A o \in Ops : call[o].stage # "done"
  /\ \A o, p \in Ops : call[o].stage # "new" /\ call[p].stage # "new" => o = p
  /\ cutting # None => \A o \in Ops : call[o].stage = "new"
  /\ \A o \in Ops : call[o].stage = "queued" => \A p \in Ops : answer[p] = <<>>
  /\ \A o, p \in Ops : answer[o] # <<>> /\ answer[p] # <<>> => o = p

\* The cached size between the calls, and what each call relies on.
SizeKnown ==
  /\ cutting # None => cutting = Len(file)
  /\ cutting = None /\ (\A o \in Ops : call[o].stage = "new") => Agrees
  /\ \A o \in Ops :
       /\ call[o].stage = "queued" /\ call[o].kind = "read" => cached = Len(file)
       /\ call[o].stage = "queued" /\ call[o].kind = "write" =>
            /\ cached = Most(Len(file), call[o].at + call[o].len)
            /\ append => call[o].at = Len(file)
       /\ call[o].stage = "store" => stat[o] = Len(file)

Awaited == TypeOK /\ OneCall /\ SizeKnown

\* No call is in progress in the abstract file.
Idle == [kind |-> "none", at |-> 0, len |-> 0, op |-> Hole]

\* The call in progress is the one that is queued, before and after a step.
LEMMA TurnIs ==
  /\ (\A p \in Ops : call[p].stage # "queued") => Turn = Idle
  /\ (\A p \in Ops : call'[p].stage # "queued") => Turn' = Idle
  /\ \A o \in Ops :
       call[o].stage = "queued" /\ (\A p \in Ops : p # o => call[p].stage # "queued") =>
         Turn = [kind |-> call[o].kind, at |-> call[o].at, len |-> call[o].len, op |-> o]
  /\ \A o \in Ops :
       call'[o].stage = "queued" /\ (\A p \in Ops : p # o => call'[p].stage # "queued") =>
         Turn' = [kind |-> call'[o].kind, at |-> call'[o].at, len |-> call'[o].len, op |-> o]
<1>1. (\A p \in Ops : call[p].stage # "queued") => InFlight = {}
  BY DEF InFlight
<1>2. (\A p \in Ops : call'[p].stage # "queued") => InFlight' = {}
  BY DEF InFlight
<1>3. ASSUME NEW o \in Ops,
             call[o].stage = "queued", \A p \in Ops : p # o => call[p].stage # "queued"
      PROVE  Turn = [kind |-> call[o].kind, at |-> call[o].at, len |-> call[o].len, op |-> o]
  <2>1. InFlight = {o}
    BY <1>3 DEF InFlight
  <2>2. (CHOOSE p \in {o} : TRUE) = o
    OBVIOUS
  <2>3. InFlight # {} /\ (CHOOSE p \in InFlight : TRUE) = o
    BY <2>1, <2>2
  <2> QED
    BY <2>3 DEF Turn
<1>4. ASSUME NEW o \in Ops,
             call'[o].stage = "queued", \A p \in Ops : p # o => call'[p].stage # "queued"
      PROVE  Turn' = [kind |-> call'[o].kind, at |-> call'[o].at, len |-> call'[o].len, op |-> o]
  <2>1. InFlight' = {o}
    BY <1>4 DEF InFlight
  <2>2. (CHOOSE p \in {o} : TRUE) = o
    OBVIOUS
  <2>3. InFlight' # {} /\ (CHOOSE p \in InFlight' : TRUE) = o
    BY <2>1, <2>2
  <2> QED
    BY <2>3 DEF Turn
<1> QED
  BY <1>1, <1>2, <1>3, <1>4 DEF Turn, Idle

\* What the last call has transferred, before and after a step.
LEMMA TransferredIs ==
  /\ (\A p \in Ops : answer[p] = <<>>) => Transferred = <<>>
  /\ (\A p \in Ops : answer'[p] = <<>>) => Transferred' = <<>>
  /\ \A o \in Ops : (\A p \in Ops : p # o => answer'[p] = <<>>) => Transferred' = answer'[o]
<1>1. ASSUME NEW o \in Ops, \A p \in Ops : p # o => answer'[p] = <<>>
      PROVE  Transferred' = answer'[o]
  <2>1. CASE answer'[o] = <<>>
    BY <1>1, <2>1 DEF Transferred
  <2>2. CASE answer'[o] # <<>>
    <3>1. (CHOOSE p \in Ops : answer'[p] # <<>>) = o
      BY <1>1, <2>2
    <3> QED
      BY <2>2, <3>1 DEF Transferred
  <2> QED
    BY <2>1, <2>2
<1> QED
  BY <1>1 DEF Transferred

\* A program that may make a call has none under way, and knows the size.
LEMMA Free ==
  ASSUME Awaits, Awaited, LoopFree
  PROVE  /\ cutting = None /\ Cursor = pos /\ \A p \in Ops : call[p].stage = "new"
         /\ Turn = Idle /\ Agrees /\ Taken = [p \in Ops |-> <<>>]
<1>1. cutting = None /\ \A p \in Ops : call[p].stage = "new"
  BY DEF Awaits, Awaited, LoopFree, Quiet, OneCall
<1>2. Turn = Idle
  BY <1>1, TurnIs
<1> QED
  BY <1>1, <1>2 DEF Cursor, Awaited, SizeKnown, Awaits, Taken

\* A call that is queued is the only one; the position is the program's.
LEMMA Flying ==
  ASSUME Awaited, NEW o \in Ops, call[o].stage = "queued"
  PROVE  /\ cutting = None /\ Cursor = pos
         /\ \A p \in Ops : p # o => call[p].stage = "new"
         /\ \A p \in Ops : answer[p] = <<>>
         /\ Turn = [kind |-> call[o].kind, at |-> call[o].at, len |-> call[o].len, op |-> o]
<1>1. /\ cutting = None /\ \A p \in Ops : p # o => call[p].stage = "new"
      /\ \A p \in Ops : answer[p] = <<>>
  BY DEF Awaited, OneCall
<1>2. Turn = [kind |-> call[o].kind, at |-> call[o].at, len |-> call[o].len, op |-> o]
  BY <1>1, TurnIs
<1> QED
  BY <1>1, <1>2 DEF Cursor

\* A step that leaves the call `r' queued, or none when it has no bytes to
\* transfer, begins that call in the file.
LEMMA Begins ==
  ASSUME Awaits, Awaited, NEW o \in Ops, LoopFree, file' = file, cutting' = cutting,
         answer' = Taken, NEW r, r.stage = "queued",
         r.len = 0 => call' = call, r.len # 0 => call' = [call EXCEPT ![o] = r]
  PROVE  /\ Turn = Idle /\ Transferred' = <<>>
         /\ r.len = 0 => Turn' = Idle /\ \A p \in Ops : call'[p].stage = "new"
         /\ r.len # 0 => /\ Turn' = [kind |-> r.kind, at |-> r.at, len |-> r.len, op |-> o]
                         /\ call'[o] = r /\ \A p \in Ops : p # o => call'[p].stage = "new"
         /\ OneCall' /\ Cursor' = pos' /\ cutting' = None
<1>1. /\ cutting = None /\ \A p \in Ops : call[p].stage = "new"
      /\ Turn = Idle /\ Taken = [p \in Ops |-> <<>>]
  BY Free
<1>2. call \in [Ops -> CallType]
  BY DEF Awaited, TypeOK, CallType
<1>3. cutting' = None /\ Cursor' = pos' /\ \A p \in Ops : answer'[p] = <<>>
  BY <1>1 DEF Cursor
<1>4. /\ r.len = 0 => \A p \in Ops : call'[p].stage = "new"
      /\ r.len # 0 => call'[o] = r /\ \A p \in Ops : p # o => call'[p].stage = "new"
  BY <1>1, <1>2
<1>5. ASSUME r.len = 0 PROVE Turn' = Idle
  BY <1>4, <1>5, TurnIs
<1>6. ASSUME r.len # 0
      PROVE  Turn' = [kind |-> r.kind, at |-> r.at, len |-> r.len, op |-> o]
  <2>1. Turn' = [kind |-> call'[o].kind, at |-> call'[o].at, len |-> call'[o].len, op |-> o]
    BY <1>4, <1>6, TurnIs
  <2> QED
    BY <1>4, <1>6, <2>1
<1>7. Transferred' = <<>>
  BY <1>3, TransferredIs
<1>8. OneCall'
  BY <1>3, <1>4 DEF OneCall
<1> QED
  BY <1>1, <1>3, <1>4, <1>5, <1>6, <1>7, <1>8

\* How many of the m bytes it asks for a read at `at' finds in the file.
FoundAt(at, m) == IF m = ToEof THEN Most(0, Len(file) - at)
                               ELSE Least(m, Most(0, Len(file) - at))

\* Planning a read: with the size known, it finds what the file has.
LEMMA ReadBegins ==
  ASSUME Awaits, Awaited, NEW o \in Ops, LoopFree, UNCHANGED <<file, stat, cutting>>,
         NEW q \in BOOLEAN, NEW at \in Nat, q => at = pos,
         NEW m \in Nat \union {ToEof}, PlanRead(o, q, at, m)
  PROVE  \E n \in Nat :
           /\ n = FoundAt(at, m)
           /\ Turn = Idle /\ Transferred' = <<>>
           /\ Turn' = IF n = 0 THEN Idle ELSE [kind |-> "read", at |-> at, len |-> n, op |-> o]
           /\ Cursor' = IF q THEN at + n ELSE pos
           /\ OneCall' /\ SizeKnown'
<1>1. cutting = None /\ Agrees /\ Len(file) \in Nat /\ pos \in Nat
  BY Free, LenProperties DEF Awaited, TypeOK
<1>2. EndSeen(at) = Len(file)
  BY <1>1 DEF EndSeen, Agrees
<1>3. Most(0, Len(file) - at) \in Nat
  BY <1>1 DEF Most
<1>4. FoundAt(at, m) \in Nat
  BY <1>3 DEF FoundAt, Least
<1>5. PICK n \in Nat : n = FoundAt(at, m)
  BY <1>4
<1> DEFINE r == [stage |-> "queued", kind |-> "read", sequential |-> q,
                 asked |-> m, at |-> at, len |-> n]
<1>6. /\ cached' = Len(file) /\ answer' = Taken
      /\ pos' = IF q /\ n > 0 THEN at + n ELSE pos
      /\ call' = IF n = 0 /\ OneAtATime THEN call
                 ELSE [call EXCEPT ![o] =
                         [stage |-> IF n = 0 THEN "done" ELSE "queued", kind |-> "read",
                          sequential |-> q, asked |-> m, at |-> at, len |-> n]]
  BY <1>2, <1>5 DEF PlanRead, FoundAt
<1>7. /\ r.stage = "queued" /\ r.kind = "read" /\ r.at = at /\ r.len = n
      /\ n # 0 => r = [stage |-> IF n = 0 THEN "done" ELSE "queued", kind |-> "read",
                       sequential |-> q, asked |-> m, at |-> at, len |-> n]
  OBVIOUS
<1> HIDE DEF r
<1>8. /\ r.len = 0 => call' = call
      /\ r.len # 0 => call' = [call EXCEPT ![o] = r]
  BY <1>6, <1>7 DEF Awaits
<1>9. /\ Turn = Idle /\ Transferred' = <<>>
      /\ r.len = 0 => Turn' = Idle /\ \A p \in Ops : call'[p].stage = "new"
      /\ r.len # 0 => /\ Turn' = [kind |-> r.kind, at |-> r.at, len |-> r.len, op |-> o]
                      /\ call'[o] = r /\ \A p \in Ops : p # o => call'[p].stage = "new"
      /\ OneCall' /\ Cursor' = pos' /\ cutting' = None
  <2>1. file' = file /\ cutting' = cutting /\ answer' = Taken
    BY <1>6
  <2> QED
    BY <1>7, <1>8, <2>1, Begins
<1>10. pos' = IF q THEN at + n ELSE pos
  BY <1>1, <1>6
<1>11. SizeKnown'
  BY <1>6, <1>7, <1>9 DEF SizeKnown, Agrees
<1>12. Turn' = IF n = 0 THEN Idle ELSE [kind |-> "read", at |-> at, len |-> n, op |-> o]
  BY <1>7, <1>9
<1> QED
  BY <1>5, <1>9, <1>10, <1>11, <1>12

\* Reserving for a write: an appending one starts at the end of the file.
LEMMA WriteBegins ==
  ASSUME Awaits, Awaited, NEW o \in Ops, LoopFree, UNCHANGED <<append, file, stat, cutting>>,
         NEW position \in Nat \union {None}, position # None => ~append,
         NEW n \in Sizes, ReserveWrite(o, position, n), ~OnlyReads
  PROVE  \E at \in Nat :
           /\ at = IF position # None THEN position ELSE IF append THEN Len(file) ELSE Cursor
           /\ Turn = Idle /\ Transferred' = <<>>
           /\ Turn' = [kind |-> "write", at |-> at, len |-> n, op |-> o]
           /\ Cursor' = IF position = None THEN at + n ELSE Cursor
           /\ OneCall' /\ SizeKnown'
<1>1. /\ cutting = None /\ Cursor = pos /\ cached = Len(file)
      /\ Len(file) \in Nat /\ pos \in Nat /\ n \in Nat /\ n # 0
  BY Free, LenProperties, SizesArePositive DEF Awaited, TypeOK, Agrees
<1>2. PICK at \in Nat :
        /\ at = IF position # None THEN position ELSE IF append THEN Len(file) ELSE Cursor
        /\ at = IF position # None THEN position ELSE IF append THEN cached ELSE pos
        /\ append => at = Len(file)
  BY <1>1
<1> DEFINE r == [stage |-> "queued", kind |-> "write", sequential |-> position = None,
                 asked |-> n, at |-> at, len |-> n]
<1>3. /\ pos' = IF position = None THEN at + n ELSE pos
      /\ cached' = Most(cached, at + n) /\ answer' = Taken
      /\ call' = [call EXCEPT ![o] = r]
  BY <1>2 DEF ReserveWrite
<1>4. r.stage = "queued" /\ r.kind = "write" /\ r.at = at /\ r.len = n
  OBVIOUS
<1> HIDE DEF r
<1>5. /\ Turn = Idle /\ Transferred' = <<>>
      /\ Turn' = [kind |-> r.kind, at |-> r.at, len |-> r.len, op |-> o]
      /\ call'[o] = r /\ \A p \in Ops : p # o => call'[p].stage = "new"
      /\ OneCall' /\ Cursor' = pos' /\ cutting' = None
  <2>1. /\ file' = file /\ cutting' = cutting /\ answer' = Taken
        /\ r.len # 0 /\ call' = [call EXCEPT ![o] = r]
    BY <1>1, <1>3, <1>4
  <2> QED
    BY <1>4, <2>1, Begins
<1>6. SizeKnown'
  BY <1>1, <1>2, <1>3, <1>4, <1>5 DEF SizeKnown, Agrees
<1> QED
  BY <1>1, <1>2, <1>3, <1>4, <1>5, <1>6

\* A call begins as in the abstract file.
LEMMA CallBegins ==
  ASSUME Awaits, Awaited, NEW o \in Ops, Read(o) \/ ReadAt(o) \/ Write(o) \/ WriteAt(o),
         append' = append
  PROVE  Plain!Next /\ OneCall' /\ SizeKnown'
<1>1. LoopFree /\ UNCHANGED <<append, file, stat, cutting>>
  BY DEF Read, ReadAt, Write, WriteAt, Callable
<1>2. /\ Cursor = pos /\ pos \in Nat /\ append' = append /\ file' = file
      /\ \A x \in Places : x \in Nat
  BY <1>1, Free, MaxLenIsNat DEF Awaited, TypeOK, Places
<1> USE DEF Plain!Begin, Plain!Free, Idle
<1>3. CASE Read(o)
  <2>1. PICK a \in Nat : a = pos
    BY <1>2
  <2>2. PICK m \in Sizes \union {0, ToEof} : PlanRead(o, TRUE, a, m)
    BY <1>3, <2>1 DEF Read, PlanRead
  <2>3. m \in Nat \union {ToEof}
    BY SizesArePositive
  <2>4. PICK n \in Nat :
          /\ n = FoundAt(a, m)
          /\ Turn = Idle /\ Transferred' = <<>>
          /\ Turn' = IF n = 0 THEN Idle ELSE [kind |-> "read", at |-> a, len |-> n, op |-> o]
          /\ Cursor' = (IF TRUE THEN a + n ELSE pos) /\ OneCall' /\ SizeKnown'
    <3>1. (TRUE => a = pos) /\ TRUE \in BOOLEAN
      BY <2>1
    <3> QED
      BY <1>1, <2>2, <2>3, <3>1, ReadBegins
  <2>5. a = Cursor /\ n = Plain!Found(Cursor, m)
    BY <1>2, <2>1, <2>4
       DEF Plain!Found, Plain!Most, Plain!Least, Plain!ToEof, FoundAt, Most, Least, ToEof
  <2>6. Plain!BeginRead(o)
    BY <1>2, <2>2, <2>4, <2>5 DEF Plain!BeginRead, Plain!ToEof, ToEof
  <2> QED
    BY <2>4, <2>6 DEF Plain!Next
<1>4. CASE ReadAt(o)
  <2>1. PICK m \in Sizes \union {ToEof}, a \in Places : PlanRead(o, FALSE, a, m)
    BY <1>4 DEF ReadAt
  <2>2. m \in Nat \union {ToEof} /\ a \in Nat /\ (FALSE => a = pos)
    BY <1>2, SizesArePositive
  <2>3. PICK n \in Nat :
          /\ n = FoundAt(a, m)
          /\ Turn = Idle /\ Transferred' = <<>>
          /\ Turn' = IF n = 0 THEN Idle ELSE [kind |-> "read", at |-> a, len |-> n, op |-> o]
          /\ Cursor' = pos /\ OneCall' /\ SizeKnown'
    BY <1>1, <2>1, <2>2, ReadBegins
  <2>4. n = Plain!Found(a, m)
    BY <2>3 DEF Plain!Found, Plain!Most, Plain!Least, Plain!ToEof, FoundAt, Most, Least, ToEof
  <2>5. Plain!BeginReadAt(o)
    BY <1>2, <2>1, <2>3, <2>4 DEF Plain!BeginReadAt, Plain!ToEof, ToEof
  <2> QED
    BY <2>3, <2>5 DEF Plain!Next
<1>5. CASE Write(o)
  <2>1. PICK n \in Sizes : ReserveWrite(o, None, n) /\ ~OnlyReads
    BY <1>5 DEF Write, OnlyReads
  <2>2. PICK a \in Nat :
          /\ a = IF append THEN Len(file) ELSE Cursor
          /\ Turn = Idle /\ Transferred' = <<>>
          /\ Turn' = [kind |-> "write", at |-> a, len |-> n, op |-> o]
          /\ Cursor' = a + n /\ OneCall' /\ SizeKnown'
    BY <1>1, <2>1, WriteBegins
  <2>3. n # 0
    BY SizesArePositive
  <2>4. Plain!BeginWrite(o)
    BY <1>2, <2>2, <2>3 DEF Plain!BeginWrite
  <2> QED
    BY <2>2, <2>4 DEF Plain!Next
<1>6. CASE WriteAt(o)
  <2>1. PICK n \in Sizes, a \in Places : ReserveWrite(o, a, n) /\ ~append /\ ~OnlyReads
    BY <1>6 DEF WriteAt, OnlyReads
  <2>2. a \in Nat /\ a # None
    BY <1>2 DEF None
  <2>3. /\ Turn = Idle /\ Transferred' = <<>>
        /\ Turn' = [kind |-> "write", at |-> a, len |-> n, op |-> o]
        /\ Cursor' = Cursor /\ OneCall' /\ SizeKnown'
    BY <1>1, <2>1, <2>2, WriteBegins
  <2>4. n # 0
    BY SizesArePositive
  <2>5. Plain!BeginWriteAt(o)
    BY <1>2, <2>1, <2>3, <2>4 DEF Plain!BeginWriteAt
  <2> QED
    BY <2>3, <2>5 DEF Plain!Next
<1> QED
  BY <1>3, <1>4, <1>5, <1>6

\* The two modules lay bytes over a file, cut it and read it alike.
LEMMA SameBytes ==
  ASSUME NEW f, NEW at, NEW x, NEW hole
  PROVE  /\ Plain!Overlay(f, at, x, hole) = Overlay(f, at, x, hole)
         /\ Plain!Resize(f, x, hole) = Resize(f, x, hole)
         /\ Plain!Slice(f, at, x) = Slice(f, at, x)
BY DEF Plain!Overlay, Overlay, Plain!Most, Most, Plain!Resize, Resize,
       Plain!Slice, Slice, Plain!Least, Least

\* A worker that performs the call leaves none queued.
LEMMA Performs ==
  ASSUME Awaits, Awaited, NEW o \in Ops, call[o].stage = "queued",
         UNCHANGED <<pos, stat, cutting>>,
         call' = Ended(o) \/ call' = [call EXCEPT ![o].stage = "refresh"],
         \A p \in Ops : p # o => answer'[p] = answer[p]
  PROVE  /\ call'[o].stage \in {"new", "refresh"} /\ \A p \in Ops : p # o => call'[p].stage = "new"
         /\ call' = Ended(o) => call'[o].stage = "new"
         /\ Turn' = Idle /\ Cursor' = Cursor /\ cutting' = None /\ OneCall'
         /\ Transferred = <<>> /\ Transferred' = answer'[o]
         /\ Turn = [kind |-> call[o].kind, at |-> call[o].at, len |-> call[o].len, op |-> o]
<1>1. call \in [Ops -> CallType] /\ Ended(o) = [call EXCEPT ![o] = Unused]
  BY DEF Awaits, Awaited, TypeOK, CallType, Ended
<1>2. /\ cutting = None /\ Cursor = pos
      /\ \A p \in Ops : p # o => call[p].stage = "new"
      /\ \A p \in Ops : answer[p] = <<>>
      /\ Turn = [kind |-> call[o].kind, at |-> call[o].at, len |-> call[o].len, op |-> o]
  BY Flying
<1>3. /\ call'[o].stage \in {"new", "refresh"} /\ \A p \in Ops : p # o => call'[p].stage = "new"
      /\ call' = Ended(o) => call'[o].stage = "new"
  <2>1. CASE call' = Ended(o)
    BY <1>1, <1>2, <2>1 DEF Unused
  <2>2. CASE call' = [call EXCEPT ![o].stage = "refresh"]
    <3>1. call'[o].stage = "refresh" /\ \A p \in Ops : p # o => call'[p].stage = "new"
      BY <1>1, <1>2, <2>2 DEF CallType
    <3>2. call' # Ended(o)
      BY <1>1, <3>1 DEF Unused
    <3> QED
      BY <3>1, <3>2
  <2> QED
    BY <2>1, <2>2
<1>4. \A p \in Ops : p # o => answer'[p] = <<>>
  BY <1>2
<1>5. Turn' = Idle
  <2>1. \A p \in Ops : call'[p].stage # "queued"
    BY <1>3
  <2> QED
    BY <2>1, TurnIs
<1>6. Transferred = <<>> /\ Transferred' = answer'[o]
  BY <1>2, <1>4, TransferredIs
<1>7. cutting' = None /\ Cursor' = Cursor
  BY <1>2 DEF Cursor
<1>8. OneCall'
  BY <1>3, <1>4, <1>7 DEF OneCall
<1> QED
  BY <1>2, <1>3, <1>5, <1>6, <1>7, <1>8

\* A system call that fails transfers nothing.
LEMMA FailsPlainly ==
  ASSUME Awaits, Awaited, NEW o \in Ops, call[o].stage = "queued",
         call[o].kind \in {"read", "write"},
         UNCHANGED <<append, file, pos, stat, answer, cutting>>,
         call' = Ended(o) \/ call' = [call EXCEPT ![o].stage = "refresh"]
  PROVE  /\ Plain!EndFailed /\ OneCall' /\ cutting' = None
         /\ call'[o].stage \in {"new", "refresh"} /\ \A p \in Ops : p # o => call'[p].stage = "new"
         /\ call' = Ended(o) => call'[o].stage = "new"
<1>1. \A p \in Ops : p # o => answer'[p] = answer[p]
  OBVIOUS
<1>2. /\ call'[o].stage \in {"new", "refresh"} /\ \A p \in Ops : p # o => call'[p].stage = "new"
      /\ call' = Ended(o) => call'[o].stage = "new"
      /\ Turn' = Idle /\ Cursor' = Cursor /\ cutting' = None /\ OneCall'
      /\ Transferred = <<>> /\ Transferred' = answer'[o]
      /\ Turn = [kind |-> call[o].kind, at |-> call[o].at, len |-> call[o].len, op |-> o]
  BY <1>1, Performs
<1>3. answer'[o] = <<>>
  BY Flying
<1>4. Turn # Idle
  <2>1. Turn.kind # "none" /\ Idle.kind = "none"
    BY <1>2 DEF Idle
  <2> QED
    BY <2>1
<1>5. Plain!EndFailed
  BY <1>2, <1>3, <1>4 DEF Plain!EndFailed, Plain!Free, Idle
<1> QED
  BY <1>2, <1>5

\* A read ends as in the abstract file.
LEMMA ReadEnds ==
  ASSUME Awaits, Awaited, NEW o \in Ops, PerformRead(o), append' = append
  PROVE  Plain!Next /\ OneCall' /\ SizeKnown'
<1> DEFINE got == Slice(file, call[o].at, call[o].len)
<1>1. /\ call[o].stage = "queued" /\ call[o].kind = "read"
      /\ UNCHANGED <<append, file, pos, cached, stat, cutting>>
      /\ call' = Ended(o) \/ call' = [call EXCEPT ![o].stage = "refresh"]
      /\ answer' = [answer EXCEPT ![o] = got] \/ answer' = answer
  BY DEF PerformRead
<1>2. cached = Len(file) /\ answer \in [Ops -> Seq(Bytes)]
  BY <1>1 DEF Awaited, SizeKnown, TypeOK, Bytes
<1>3. CASE answer' = [answer EXCEPT ![o] = got]
  <2>1. \A p \in Ops : p # o => answer'[p] = answer[p]
    BY <1>2, <1>3
  <2>2. /\ call'[o].stage \in {"new", "refresh"}
        /\ \A p \in Ops : p # o => call'[p].stage = "new"
        /\ Turn' = Idle /\ Cursor' = Cursor /\ cutting' = None /\ OneCall'
        /\ Transferred' = answer'[o]
        /\ Turn = [kind |-> call[o].kind, at |-> call[o].at, len |-> call[o].len, op |-> o]
    BY <1>1, <2>1, Performs
  <2>3. Turn.kind = "read" /\ Transferred' = Slice(file, Turn.at, Turn.len)
    BY <1>1, <1>2, <1>3, <2>2
  <2>4. Plain!EndRead
    BY <1>1, <2>2, <2>3 DEF Plain!EndRead, Plain!Free, Idle, Plain!Slice, Slice, Plain!Least, Least
  <2>5. SizeKnown'
    BY <1>1, <1>2, <2>2 DEF SizeKnown, Agrees
  <2> QED
    BY <2>2, <2>4, <2>5 DEF Plain!Next
<1>4. CASE answer' = answer
  <2>1. /\ Plain!EndFailed /\ OneCall' /\ cutting' = None
        /\ call'[o].stage \in {"new", "refresh"} /\ \A p \in Ops : p # o => call'[p].stage = "new"
    BY <1>1, <1>4, FailsPlainly
  <2>2. SizeKnown'
    BY <1>1, <1>2, <2>1 DEF SizeKnown, Agrees
  <2> QED
    BY <2>1, <2>2 DEF Plain!Next
<1> QED
  BY <1>1, <1>3, <1>4

\* A write ends as in the abstract file.
LEMMA WriteEnds ==
  ASSUME Awaits, Awaited, NEW o \in Ops, PerformWrite(o), append' = append
  PROVE  Plain!Next /\ OneCall' /\ SizeKnown'
<1>1. /\ call[o].stage = "queued" /\ call[o].kind = "write"
      /\ UNCHANGED <<append, pos, cached, stat, cutting>>
  BY DEF PerformWrite
<1>2. /\ cached = Most(Len(file), call[o].at + call[o].len) /\ Landing(o) = call[o].at
      /\ call[o].at \in Nat /\ call[o].len \in Nat /\ file \in Seq(Bytes)
      /\ answer \in [Ops -> Seq(Bytes)]
  BY <1>1 DEF Awaited, SizeKnown, Landing, TypeOK, Flags, Bytes
<1> DEFINE bytes == [i \in 1..call[o].len |-> o]
           laid == Overlay(file, call[o].at, bytes, Hole)
<1>3. CASE /\ file' = laid
           /\ answer' = [answer EXCEPT ![o] = bytes]
           /\ call' = Ended(o)
  <2>1. bytes \in Seq(Bytes) /\ Len(bytes) = call[o].len
    BY <1>2, Payload
  <2>2. Len(laid) = Most(Len(file), call[o].at + Len(bytes))
    <3>1. PICK f \in Seq(Bytes), a \in Nat, b \in Seq(Bytes) :
            f = file /\ a = call[o].at /\ b = bytes
      BY <1>2, <2>1
    <3>2. Len(Overlay(f, a, b, Hole)) = Most(Len(f), a + Len(b))
      BY OverlayLength
    <3> QED
      BY <3>1, <3>2
  <2>3. Len(file') = cached
    BY <1>2, <1>3, <2>1, <2>2
  <2>4. (\A p \in Ops : p # o => answer'[p] = answer[p]) /\ answer'[o] = bytes
    BY <1>2, <1>3
  <2>5. /\ call'[o].stage = "new" /\ \A p \in Ops : p # o => call'[p].stage = "new"
        /\ Turn' = Idle /\ Cursor' = Cursor /\ cutting' = None /\ OneCall'
        /\ Transferred' = answer'[o]
        /\ Turn = [kind |-> call[o].kind, at |-> call[o].at, len |-> call[o].len, op |-> o]
    BY <1>1, <1>3, <2>4, Performs
  <2>6. /\ Turn.kind = "write" /\ Turn.at = call[o].at /\ Turn.len = call[o].len /\ Turn.op = o
    BY <1>1, <2>5
  <2>7. Plain!EndWrite
    <3>1. bytes = [i \in 1..Turn.len |-> Turn.op]
      BY <2>6
    <3>2. file' = Plain!Overlay(file, Turn.at, bytes, Hole)
      BY <1>3, <2>6, SameBytes
    <3> HIDE DEF bytes
    <3> QED
      BY <2>4, <2>5, <2>6, <3>1, <3>2 DEF Plain!EndWrite, Plain!Free, Idle
  <2>8. SizeKnown'
    BY <1>1, <2>3, <2>5 DEF SizeKnown, Agrees
  <2> QED
    BY <2>5, <2>7, <2>8 DEF Plain!Next
<1>4. CASE UNCHANGED <<file, answer>> /\ call' = [call EXCEPT ![o].stage = "refresh"]
  <2>1. call'[o].stage = "refresh"
    BY <1>4 DEF Awaited, TypeOK
  <2>2. /\ Plain!EndFailed /\ OneCall' /\ cutting' = None
        /\ \A p \in Ops : p # o => call'[p].stage = "new"
    BY <1>1, <1>4, FailsPlainly
  <2>3. SizeKnown'
    BY <2>1, <2>2 DEF SizeKnown
  <2> QED
    BY <2>2, <2>3 DEF Plain!Next
<1> QED
  BY <1>2, <1>3, <1>4 DEF PerformWrite, Awaits

\* Asking for the size and storing it cannot be seen.
LEMMA RefreshesUnseen ==
  ASSUME Awaits, Awaited, NEW o \in Ops, AskSize(o) \/ StoreSize(o), append' = append
  PROVE  UNCHANGED Plain!fileVars /\ OneCall' /\ SizeKnown'
<1>1. /\ call \in [Ops -> CallType] /\ stat \in [Ops -> Nat]
      /\ Ended(o) = [call EXCEPT ![o] = Unused]
  BY DEF Awaits, Awaited, TypeOK, CallType, Ended
<1>2. UNCHANGED <<append, file, pos, answer, cutting>> /\ call[o].stage \in {"refresh", "store"}
  BY DEF AskSize, StoreSize
<1>3. cutting = None /\ \A p \in Ops : p # o => call[p].stage = "new"
  BY <1>2 DEF Awaited, OneCall
<1>4. /\ \A p \in Ops : p # o => call'[p].stage = "new"
      /\ \/ call'[o].stage = "store" /\ stat'[o] = Len(file)
         \/ call'[o].stage = "new" /\ cached' = Len(file)
  <2>1. CASE AskSize(o)
    BY <1>1, <1>3, <2>1 DEF AskSize, CallType
  <2>2. CASE StoreSize(o)
    <3>1. /\ \A p \in Ops : p # o => call'[p].stage = "new"
          /\ call'[o].stage = "new" /\ cached' = stat[o]
      BY <1>1, <1>3, <2>2 DEF StoreSize, Unused
    <3>2. stat[o] = Len(file)
      BY <2>2 DEF StoreSize, Awaited, SizeKnown
    <3> QED
      BY <3>1, <3>2
  <2> QED
    BY <2>1, <2>2
<1>5. Turn = Idle /\ Turn' = Idle
  <2>1. \A p \in Ops : call[p].stage # "queued" /\ call'[p].stage # "queued"
    BY <1>2, <1>3, <1>4
  <2> QED
    BY <2>1, TurnIs
<1>6. Cursor' = Cursor /\ Transferred' = Transferred
  BY <1>2 DEF Cursor, Transferred
<1>7. OneCall'
  BY <1>2, <1>3, <1>4 DEF OneCall, Awaited
<1>8. SizeKnown'
  BY <1>2, <1>3, <1>4 DEF SizeKnown, Agrees
<1> QED
  BY <1>2, <1>5, <1>6, <1>7, <1>8 DEF Plain!fileVars

\* A call that takes effect at once leaves none under way.
LEMMA Atonce ==
  ASSUME Awaits, Awaited, LoopFree, UNCHANGED call, answer' = Taken
  PROVE  /\ Turn = Idle /\ Turn' = Idle /\ Transferred' = <<>>
         /\ cutting = None /\ Cursor = pos /\ Agrees
         /\ \A p \in Ops : call'[p].stage = "new"
         /\ OneCall'
<1>1. /\ cutting = None /\ Cursor = pos /\ \A p \in Ops : call[p].stage = "new"
      /\ Turn = Idle /\ Agrees /\ Taken = [p \in Ops |-> <<>>]
  BY Free
<1>2. \A p \in Ops : call'[p].stage = "new" /\ answer'[p] = <<>>
  BY <1>1
<1>3. Turn' = Idle
  BY <1>2, TurnIs
<1>4. Transferred' = <<>>
  BY <1>2, TransferredIs
<1>5. OneCall'
  BY <1>2 DEF OneCall
<1> QED
  BY <1>1, <1>2, <1>3, <1>4, <1>5

\* A position call takes effect at once; a refused one moves by nothing.
LEMMA SeeksPlainly ==
  ASSUME Awaits, Awaited, Seek, append' = append
  PROVE  Plain!Next /\ OneCall' /\ SizeKnown'
<1>1. LoopFree /\ UNCHANGED <<append, file, call, stat, cutting>> /\ answer' = Taken
  BY DEF Seek
<1>2. /\ Turn = Idle /\ Turn' = Idle /\ Transferred' = <<>>
      /\ cutting = None /\ Cursor = pos /\ Agrees
      /\ \A p \in Ops : call'[p].stage = "new"
      /\ OneCall'
  BY <1>1, Atonce
<1>3. Cursor' = pos' /\ cutting' = None
  BY <1>1, <1>2 DEF Cursor
<1>4. pos \in Nat /\ Len(file) \in Nat
  BY LenProperties DEF Awaited, TypeOK
<1>5. PICK d \in -MaxLen..MaxLen :
        /\ cached' = cached \/ cached' = Len(file)
        /\ \E base \in {0, Cursor, Len(file)} : SeekTo(base + d)
  <2>1. PICK d \in -MaxLen..MaxLen :
          \/ SeekTo(d) /\ UNCHANGED cached
          \/ SeekTo(pos + d) /\ UNCHANGED cached
          \/ SeekTo(Len(file) + d) /\ cached' = Len(file)
    BY DEF Seek
  <2>2. 0 + d = d
    BY <2>1, MaxLenIsNat
  <2> QED
    BY <1>2, <2>1, <2>2 DEF SeekTo
<1>6. PICK base \in {0, Cursor, Len(file)} : SeekTo(base + d)
  BY <1>5
<1>7. base \in Nat
  BY <1>2, <1>4, <1>6
<1>8. \E e \in Places, b \in {0, Cursor, Len(file)} : Cursor' \in {b + e, b - e} \intersect Nat
  <2>1. d \in Int /\ MaxLen \in Nat /\ -MaxLen <= d /\ d <= MaxLen
    BY <1>5, MaxLenIsNat
  <2>2. CASE base + d < 0
    <3>1. Cursor' = Cursor + 0 /\ Cursor' \in Nat /\ 0 \in Places
      BY <1>2, <1>3, <1>4, <1>6, <2>1, <2>2 DEF SeekTo, Places
    <3> QED
      BY <3>1
  <2>3. CASE base + d >= 0 /\ d >= 0
    <3>1. Cursor' = base + d /\ Cursor' \in Nat /\ d \in Places
      BY <1>3, <1>6, <1>7, <2>1, <2>3 DEF SeekTo, Places
    <3> QED
      BY <3>1
  <2>4. CASE base + d >= 0 /\ d < 0
    <3>1. Cursor' = base - (-d) /\ Cursor' \in Nat /\ -d \in Places
      BY <1>3, <1>6, <1>7, <2>1, <2>4 DEF SeekTo, Places
    <3> QED
      BY <3>1
  <2> QED
    BY <1>7, <2>1, <2>2, <2>3, <2>4
<1>9. Plain!Seek
  BY <1>1, <1>2, <1>8 DEF Plain!Seek, Plain!Free, Idle
<1>10. SizeKnown'
  BY <1>1, <1>2, <1>3, <1>5 DEF SizeKnown, Agrees
<1> QED
  BY <1>2, <1>9, <1>10 DEF Plain!Next

\* A truncation cuts the file and, from then on, the position.
LEMMA CutsPlainly ==
  ASSUME Awaits, Awaited, Truncate, append' = append
  PROVE  Plain!Next /\ OneCall' /\ SizeKnown'
<1>1. LoopFree /\ UNCHANGED <<append, pos, cached, call, stat>> /\ answer' = Taken
  BY DEF Truncate
<1>2. /\ Turn = Idle /\ Turn' = Idle /\ Transferred' = <<>>
      /\ cutting = None /\ Cursor = pos /\ Agrees
      /\ \A p \in Ops : call'[p].stage = "new"
      /\ OneCall'
  BY <1>1, Atonce
<1>3. PICK n \in Places : file' = Resize(file, n, Hole) /\ cutting' = n
  BY DEF Truncate
<1>4. n \in Nat /\ n # None
  BY <1>3, MaxLenIsNat DEF Places, None
<1>5. Cursor' = Plain!Least(Cursor, n)
  BY <1>1, <1>2, <1>3, <1>4 DEF Cursor, Plain!Least, Least
<1>6. file' = Plain!Resize(file, n, Hole)
  BY <1>3, SameBytes
<1>7. Plain!Truncate
  BY <1>2, <1>3, <1>5, <1>6 DEF Plain!Truncate, Plain!Free, Idle
<1>8. Len(file') = n
  <2>1. PICK f \in Seq(Bytes) : f = file
    BY DEF Awaited, TypeOK, Bytes
  <2>2. Len(Resize(f, n, Hole)) = n
    BY <1>4, <2>1, ResizeType DEF Bytes
  <2> QED
    BY <1>3, <2>1, <2>2
<1>9. SizeKnown'
  BY <1>2, <1>3, <1>4, <1>8 DEF SizeKnown, Agrees
<1> QED
  BY <1>2, <1>7, <1>9 DEF Plain!Next

\* Applying it to the position and the cached size cannot be seen.
LEMMA AppliesUnseen ==
  ASSUME Awaits, Awaited, ApplyTruncate, append' = append
  PROVE  UNCHANGED Plain!fileVars /\ OneCall' /\ SizeKnown'
<1>1. /\ cutting # None /\ cutting' = None /\ pos' = Least(pos, cutting) /\ cached' = cutting
      /\ UNCHANGED <<append, file, call, stat, answer>>
  BY DEF ApplyTruncate
<1>2. Cursor' = Cursor /\ Turn' = Turn /\ Transferred' = Transferred
  BY <1>1 DEF Cursor, Turn, InFlight, Transferred
<1>3. cutting = Len(file) /\ \A p \in Ops : call[p].stage = "new"
  BY <1>1 DEF Awaited, OneCall, SizeKnown, Agrees
<1>4. OneCall'
  BY <1>1, <1>3 DEF Awaited, OneCall
<1>5. SizeKnown'
  BY <1>1, <1>3 DEF SizeKnown, Agrees
<1> QED
  BY <1>1, <1>2, <1>4, <1>5 DEF Plain!fileVars

\* Every step of the handle is one of the abstract file, or is not seen.
LEMMA PlainStep ==
  ASSUME Awaits, Awaited, [Next /\ UNCHANGED <<append, oAppend>>]_vars
  PROVE  /\ OneCall' /\ SizeKnown'
         /\ [Plain!Next /\ UNCHANGED append]_(Plain!fileVars)
<1>1. CASE Next /\ UNCHANGED <<append, oAppend>>
  <2>1. ASSUME NEW o \in Ops, Read(o) \/ ReadAt(o) \/ Write(o) \/ WriteAt(o)
        PROVE  Plain!Next /\ OneCall' /\ SizeKnown'
    BY <1>1, <2>1, CallBegins
  <2>2. ASSUME NEW o \in Ops, PerformRead(o) PROVE Plain!Next /\ OneCall' /\ SizeKnown'
    BY <1>1, <2>2, ReadEnds
  <2>3. ASSUME NEW o \in Ops, PerformWrite(o) PROVE Plain!Next /\ OneCall' /\ SizeKnown'
    BY <1>1, <2>3, WriteEnds
  <2>4. ASSUME NEW o \in Ops, AskSize(o) \/ StoreSize(o)
        PROVE  UNCHANGED Plain!fileVars /\ OneCall' /\ SizeKnown'
    BY <1>1, <2>4, RefreshesUnseen
  <2>5. CASE Seek
    BY <1>1, <2>5, SeeksPlainly
  <2>6. CASE Truncate
    BY <1>1, <2>6, CutsPlainly
  <2>7. CASE ApplyTruncate
    BY <1>1, <2>7, AppliesUnseen
  <2>8. ~Grow
    BY DEF Grow, Awaits
  <2> QED
    BY <1>1, <2>1, <2>2, <2>3, <2>4, <2>5, <2>6, <2>7, <2>8 DEF Next
<1>2. CASE UNCHANGED vars
  <2>1. UNCHANGED <<append, file, pos, cached, call, stat, answer, cutting>>
    BY <1>2 DEF vars
  <2>2. UNCHANGED Plain!fileVars
    BY <2>1 DEF Plain!fileVars, Cursor, Turn, InFlight, Transferred
  <2>3. OneCall' /\ SizeKnown'
    BY <2>1 DEF Awaited, OneCall, SizeKnown, Agrees
  <2> QED
    BY <2>2, <2>3
<1> QED
  BY <1>1, <1>2

\* The handle is opened on the abstract file.
LEMMA PlainInit ==
  ASSUME Awaits, Init
  PROVE  OneCall /\ SizeKnown /\ Plain!Init
<1>1. /\ \A o \in Ops : call[o].stage = "new" /\ answer[o] = <<>>
      /\ cutting = None /\ file = Start /\ append \in BOOLEAN
      /\ pos = (IF append THEN Len(Start) ELSE 0) /\ Agrees
  <2>1. Len(Start) = StartLen
    BY StartFits, MaxLenIsNat DEF Start
  <2> QED
    BY <2>1, ModesAreBoolean DEF Init, Unused, Awaits, StartsRight, Agrees
<1>2. OneCall /\ SizeKnown
  BY <1>1 DEF OneCall, SizeKnown
<1>3. Turn = Idle /\ Transferred = <<>> /\ Cursor = pos
  BY <1>1, TurnIs, TransferredIs DEF Cursor
<1>4. Plain!Init
  BY <1>1, <1>3 DEF Plain!Init, Plain!Free, Idle
<1> QED
  BY <1>2, <1>4

\* A program that awaits every call cannot tell the handle from an ordinary
\* file object: the cached size of core/file_state.hpp is invisible.
THEOREM PlainFileImplemented ==
  ASSUME Awaits PROVE Spec => ImplementsPlainFile
<1>1. Init => OneCall /\ SizeKnown /\ Plain!Init
  BY PlainInit
<1>2. TypeOK /\ OneCall /\ SizeKnown /\ [Next /\ UNCHANGED <<append, oAppend>>]_vars
        => /\ OneCall' /\ SizeKnown'
           /\ [Plain!Next /\ UNCHANGED append]_(Plain!fileVars)
  BY PlainStep DEF Awaited
<1> QED
  BY <1>1, <1>2, TypeCorrect, PTL DEF Spec, ImplementsPlainFile, Plain!Spec
==============================================================================
