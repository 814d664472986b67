----------------------------- MODULE UringProofs -----------------------------
(***************************************************************************)
(* Proofs about Uring, for any number of requests and files and any depth  *)
(* of the queues: no request is lost or delivered twice, whoever reaps it, *)
(* m_pending counts the requests of its file, and each file, with the      *)
(* requests of the others around it, implements CloseBarrier.              *)
(***************************************************************************)
EXTENDS Uring, FiniteSetTheorems, SequenceTheorems, TLAPS

(* Sequences without repetition.                                           *)

\* An entry that is not in the sequence is appended to it.
LEMMA Appended ==
  ASSUME NEW S, NEW s \in Seq(S), NEW e \in S
  PROVE  /\ Append(s, e) \in Seq(S) /\ Len(Append(s, e)) = Len(s) + 1
         /\ ToSet(Append(s, e)) = ToSet(s) \union {e}
         /\ IsInjective(s) /\ e \notin ToSet(s) => IsInjective(Append(s, e))
<1>1. /\ Append(s, e) \in Seq(S) /\ Len(Append(s, e)) = Len(s) + 1
      /\ \A i \in 1 .. Len(s) : Append(s, e)[i] = s[i]
      /\ Append(s, e)[Len(s) + 1] = e
  BY AppendProperties
<1>2. DOMAIN s = 1 .. Len(s) /\ DOMAIN Append(s, e) = 1 .. Len(s) + 1 /\ Len(s) \in Nat
  BY <1>1
<1>3. ToSet(Append(s, e)) \subseteq ToSet(s) \union {e}
  BY <1>1, <1>2 DEF ToSet
<1>4. ToSet(s) \union {e} \subseteq ToSet(Append(s, e))
  BY <1>1, <1>2 DEF ToSet
<1>5. ASSUME IsInjective(s), e \notin ToSet(s)
      PROVE  IsInjective(Append(s, e))
  BY <1>1, <1>2, <1>5 DEF ToSet, IsInjective
<1> QED
  BY <1>1, <1>3, <1>4, <1>5

\* The head of a sequence leaves it.
LEMMA Shifted ==
  ASSUME NEW S, NEW s \in Seq(S), s # <<>>
  PROVE  /\ Head(s) \in S /\ Tail(s) \in Seq(S) /\ Len(Tail(s)) = Len(s) - 1
         /\ Head(s) \in ToSet(s)
         /\ IsInjective(s) => /\ ToSet(Tail(s)) = ToSet(s) \ {Head(s)}
                              /\ IsInjective(Tail(s))
<1>1. /\ Head(s) \in S /\ Tail(s) \in Seq(S) /\ Len(Tail(s)) = Len(s) - 1
      /\ Head(s) = s[1] /\ \A i \in 1 .. Len(s) - 1 : Tail(s)[i] = s[i + 1]
      /\ Len(s) \in Nat /\ Len(s) # 0
  BY HeadTailProperties, EmptySeq
<1>2. DOMAIN s = 1 .. Len(s) /\ DOMAIN Tail(s) = 1 .. Len(s) - 1
  BY <1>1
<1>3. Head(s) \in ToSet(s)
  BY <1>1, <1>2 DEF ToSet
<1>4. ASSUME IsInjective(s)
      PROVE  ToSet(Tail(s)) = ToSet(s) \ {Head(s)} /\ IsInjective(Tail(s))
  <2>1. ToSet(Tail(s)) \subseteq ToSet(s) \ {Head(s)}
    <3> SUFFICES ASSUME NEW i \in 1 .. Len(s) - 1
                 PROVE  Tail(s)[i] \in ToSet(s) \ {Head(s)}
      BY <1>2 DEF ToSet
    <3>1. Tail(s)[i] = s[i + 1] /\ i + 1 \in 1 .. Len(s) /\ i + 1 # 1 /\ 1 \in 1 .. Len(s)
      BY <1>1
    <3> QED
      BY <3>1, <1>1, <1>2, <1>4 DEF ToSet, IsInjective
  <2>2. ToSet(s) \ {Head(s)} \subseteq ToSet(Tail(s))
    <3> SUFFICES ASSUME NEW i \in 1 .. Len(s), i # 1
                 PROVE  s[i] \in ToSet(Tail(s))
      BY <1>1, <1>2 DEF ToSet
    <3>1. i - 1 \in 1 .. Len(s) - 1 /\ Tail(s)[i - 1] = s[i]
      BY <1>1
    <3> QED
      BY <3>1, <1>2 DEF ToSet
  <2>3. IsInjective(Tail(s))
    <3> SUFFICES ASSUME NEW i \in 1 .. Len(s) - 1, NEW j \in 1 .. Len(s) - 1,
                        Tail(s)[i] = Tail(s)[j]
                 PROVE  i = j
      BY <1>2 DEF IsInjective
    <3>1. s[i + 1] = s[j + 1] /\ i + 1 \in 1 .. Len(s) /\ j + 1 \in 1 .. Len(s)
      BY <1>1
    <3>2. i + 1 = j + 1
      BY <3>1, <1>2, <1>4 DEF IsInjective
    <3> QED
      BY <3>2
  <2> QED
    BY <2>1, <2>2, <2>3
<1> QED
  BY <1>1, <1>3, <1>4

\* The sequence s is a followed by b.
Parts(s, a, b) == /\ Len(s) = Len(a) + Len(b)
                  /\ \A i \in 1 .. Len(a) : a[i] = s[i]
                  /\ \A i \in 1 .. Len(b) : b[i] = s[Len(a) + i]

\* The two parts of a sequence without repetition have nothing in common.
LEMMA Halves ==
  ASSUME NEW S, NEW s \in Seq(S), IsInjective(s),
         NEW a \in Seq(S), NEW b \in Seq(S), Parts(s, a, b)
  PROVE  /\ IsInjective(a) /\ IsInjective(b)
         /\ ToSet(a) \union ToSet(b) = ToSet(s)
         /\ ToSet(a) \intersect ToSet(b) = {}
<1>1. PICK n \in Nat, m \in Nat : n = Len(a) /\ m = Len(b)
  <2>1. Len(a) \in Nat /\ Len(b) \in Nat
    OBVIOUS
  <2> QED
    BY <2>1, Zenon
<1>2. /\ Len(s) = n + m /\ \A i \in 1 .. n : a[i] = s[i]
      /\ \A i \in 1 .. m : b[i] = s[n + i]
  BY <1>1 DEF Parts
<1>3. DOMAIN s = 1 .. n + m /\ DOMAIN a = 1 .. n /\ DOMAIN b = 1 .. m
  BY <1>1, <1>2
<1>4. \A i \in 1 .. n : i \in 1 .. n + m
  OBVIOUS
<1>5. \A i \in 1 .. m : n + i \in 1 .. n + m
  OBVIOUS
<1>6. IsInjective(a) /\ IsInjective(b)
  <2>1. ASSUME NEW i \in 1 .. n, NEW j \in 1 .. n, a[i] = a[j] PROVE i = j
    BY <1>2, <1>3, <1>4, <2>1 DEF IsInjective
  <2>2. ASSUME NEW i \in 1 .. m, NEW j \in 1 .. m, b[i] = b[j] PROVE i = j
    <3>1. b[i] = s[n + i] /\ b[j] = s[n + j]
      BY <1>2
    <3>2. n + i \in DOMAIN s /\ n + j \in DOMAIN s /\ s[n + i] = s[n + j]
      BY <3>1, <1>3, <1>5, <2>2
    <3>3. n + i = n + j
      BY <3>2 DEF IsInjective
    <3> QED
      BY <3>3
  <2> QED
    BY <1>3, <2>1, <2>2 DEF IsInjective
<1>7. ToSet(a) \subseteq ToSet(s) /\ ToSet(b) \subseteq ToSet(s)
  <2>1. ASSUME NEW i \in 1 .. n PROVE a[i] \in ToSet(s)
    BY <1>2, <1>3, <1>4 DEF ToSet
  <2>2. ASSUME NEW i \in 1 .. m PROVE b[i] \in ToSet(s)
    <3>1. n + i \in DOMAIN s /\ b[i] = s[n + i]
      BY <1>2, <1>3, <1>5
    <3> QED
      BY <3>1 DEF ToSet
  <2>3. ToSet(a) = {a[i] : i \in 1 .. n} /\ ToSet(b) = {b[i] : i \in 1 .. m}
    BY <1>3 DEF ToSet
  <2> QED
    BY <2>1, <2>2, <2>3
<1>8. ToSet(s) \subseteq ToSet(a) \union ToSet(b)
  <2> SUFFICES ASSUME NEW i \in 1 .. n + m
               PROVE  s[i] \in ToSet(a) \union ToSet(b)
    BY <1>3 DEF ToSet
  <2>1. CASE i <= n
    <3>1. i \in 1 .. n
      BY <2>1
    <3> QED
      BY <3>1, <1>2, <1>3 DEF ToSet
  <2>2. CASE i > n
    <3>1. i - n \in 1 .. m /\ n + (i - n) = i
      BY <2>2
    <3>2. b[i - n] = s[i]
      BY <3>1, <1>2
    <3> QED
      BY <3>1, <3>2, <1>3 DEF ToSet
  <2> QED
    BY <2>1, <2>2
<1>9. ToSet(a) \intersect ToSet(b) = {}
  <2> SUFFICES ASSUME NEW i \in 1 .. n, NEW j \in 1 .. m, a[i] = b[j]
               PROVE  FALSE
    BY <1>3 DEF ToSet
  <2>1. s[i] = s[n + j] /\ i # n + j
    BY <1>2
  <2> QED
    BY <2>1, <1>3, <1>4, <1>5 DEF IsInjective
<1> QED
  BY <1>6, <1>7, <1>8, <1>9

\* The first n entries of a sequence and the others.
LEMMA Split ==
  ASSUME NEW S, NEW s \in Seq(S), NEW n \in 0 .. Len(s)
  PROVE  /\ SubSeq(s, 1, n) \in Seq(S) /\ Len(SubSeq(s, 1, n)) = n
         /\ \A i \in 1 .. n : SubSeq(s, 1, n)[i] = s[i]
         /\ SubSeq(s, n + 1, Len(s)) \in Seq(S)
         /\ Len(SubSeq(s, n + 1, Len(s))) = Len(s) - n
         /\ \A i \in 1 .. Len(s) - n : SubSeq(s, n + 1, Len(s))[i] = s[n + i]
<1>1. Len(s) \in Nat /\ \A i \in 1 .. Len(s) : s[i] \in S
  OBVIOUS
<1>2. PICK l \in Nat : l = Len(s)
  BY <1>1
<1>3. /\ SubSeq(s, 1, n) \in Seq(S)
      /\ Len(SubSeq(s, 1, n)) = IF 1 <= n THEN n - 1 + 1 ELSE 0
      /\ \A i \in 1 .. n - 1 + 1 : SubSeq(s, 1, n)[i] = s[1 + i - 1]
  <2>1. \A i \in 1 .. n : s[i] \in S
    BY <1>1
  <2> QED
    BY <2>1, SubSeqProperties
<1>4. /\ SubSeq(s, n + 1, l) \in Seq(S)
      /\ Len(SubSeq(s, n + 1, l)) = IF n + 1 <= l THEN l - (n + 1) + 1 ELSE 0
      /\ \A i \in 1 .. l - (n + 1) + 1 : SubSeq(s, n + 1, l)[i] = s[(n + 1) + i - 1]
  <2>1. \A i \in n + 1 .. l : s[i] \in S
    BY <1>1, <1>2
  <2>2. n + 1 \in Int /\ l \in Int
    BY <1>2
  <2> QED
    BY <2>1, <2>2, SubSeqProperties
<1> DEFINE a == SubSeq(s, 1, n)
           b == SubSeq(s, n + 1, l)
<1> HIDE DEF a, b
<1>5. a \in Seq(S) /\ Len(a) = n /\ \A i \in 1 .. n : a[i] = s[i]
  BY <1>3 DEF a
<1>6. b \in Seq(S) /\ Len(b) = IF n + 1 <= l THEN l - (n + 1) + 1 ELSE 0
  BY <1>4 DEF b
<1>7. Len(b) = l - n
  BY <1>6, <1>2
<1>8. \A i \in 1 .. l - n : b[i] = s[n + i]
  <2>1. \A i \in 1 .. l - (n + 1) + 1 : b[i] = s[(n + 1) + i - 1]
    BY <1>4 DEF b
  <2>2. TAKE i \in 1 .. l - n
  <2>3. i \in 1 .. l - (n + 1) + 1 /\ (n + 1) + i - 1 = n + i
    BY <1>2
  <2> QED
    BY <2>1, <2>3
<1> QED
  BY <1>2, <1>5, <1>6, <1>7, <1>8 DEF a, b

\* They have nothing in common.
LEMMA Parted ==
  ASSUME NEW S, NEW s \in Seq(S), IsInjective(s), NEW n \in 0 .. Len(s)
  PROVE  /\ IsInjective(SubSeq(s, 1, n)) /\ IsInjective(SubSeq(s, n + 1, Len(s)))
         /\ ToSet(SubSeq(s, 1, n)) \union ToSet(SubSeq(s, n + 1, Len(s))) = ToSet(s)
         /\ ToSet(SubSeq(s, 1, n)) \intersect ToSet(SubSeq(s, n + 1, Len(s))) = {}
<1> DEFINE a == SubSeq(s, 1, n)
           b == SubSeq(s, n + 1, Len(s))
           m == Len(s) - n
<1>1. Len(s) \in Nat
  OBVIOUS
<1>2. n \in Nat /\ m \in Nat /\ Len(s) = n + m
  BY <1>1
<1>3. /\ a \in Seq(S) /\ Len(a) = n /\ \A i \in 1 .. n : a[i] = s[i]
      /\ b \in Seq(S) /\ Len(b) = m /\ \A i \in 1 .. m : b[i] = s[n + i]
  BY Split
<1> HIDE DEF a, b, m
<1>4. Parts(s, a, b)
  BY <1>2, <1>3 DEF Parts
<1>5. /\ IsInjective(a) /\ IsInjective(b)
      /\ ToSet(a) \union ToSet(b) = ToSet(s) /\ ToSet(a) \intersect ToSet(b) = {}
  BY <1>3, <1>4, Halves
<1> QED
  BY <1>5 DEF a, b

\* The sequence of nothing.
LEMMA Nothing == \A S : <<>> \in Seq(S) /\ ToSet(<<>>) = {} /\ IsInjective(<<>>)
  BY DEF ToSet, IsInjective

\* One entry is taken out of a sequence.
LEMMA Removed ==
  ASSUME NEW S, NEW s \in Seq(S), IsInjective(s), NEW e
  PROVE  /\ RemoveFirst(s, e) \in Seq(S \ {e})
         /\ IsInjective(RemoveFirst(s, e))
         /\ ToSet(RemoveFirst(s, e)) = ToSet(s) \ {e}
<1>1. DOMAIN s = 1 .. Len(s) /\ Len(s) \in Nat
  OBVIOUS
<1>2. CASE e \notin ToSet(s)
  <2>1. RemoveFirst(s, e) = s
    BY <1>1, <1>2 DEF ToSet, RemoveFirst
  <2>2. \A i \in 1 .. Len(s) : s[i] \in S \ {e}
    BY <1>1, <1>2 DEF ToSet
  <2>3. s \in [1 .. Len(s) -> S \ {e}]
    BY <2>2, <1>1
  <2>4. s \in Seq(S \ {e})
    BY <2>3, <1>1, SeqDef
  <2> QED
    BY <1>2, <2>1, <2>4
<1>3. CASE e \in ToSet(s)
  <2>1. PICK k \in 1 .. Len(s) : s[k] = e
    BY <1>1, <1>3 DEF ToSet
  <2>2. {i \in 1 .. Len(s) : s[i] = e} = {k}
    BY <1>1, <2>1 DEF IsInjective
  <2>3. Min({k}) = k
    BY DEF Min
  <2>4. SelectInSeq(s, LAMBDA v : v = e) = k
    BY <2>2, <2>3 DEF SelectInSeq
  <2>5. RemoveFirst(s, e) = SubSeq(s, 1, k - 1) \o SubSeq(s, k + 1, Len(s))
    BY <2>1, <2>4 DEF RemoveFirst, RemoveAt
  <2>6. PICK l \in Nat : l = Len(s)
    BY <1>1, Zenon
  <2>7. k - 1 \in 0 .. l /\ k \in 0 .. l /\ k \in 1 .. l
    BY <2>6
  <2> DEFINE a == SubSeq(s, 1, k - 1)
             b == SubSeq(s, k + 1, l)
             t == a \o b
  <2>8. a \in Seq(S) /\ Len(a) = k - 1 /\ \A i \in 1 .. k - 1 : a[i] = s[i]
    BY <2>6, <2>7, Split
  <2>9. b \in Seq(S) /\ Len(b) = l - k /\ \A i \in 1 .. l - k : b[i] = s[k + i]
    BY <2>6, <2>7, Split
  <2>10. RemoveFirst(s, e) = t
    BY <2>5, <2>6
  <2> HIDE DEF a, b
  <2>11. /\ t \in Seq(S) /\ Len(t) = Len(a) + Len(b)
         /\ \A i \in 1 .. Len(a) + Len(b) : t[i] = IF i <= Len(a) THEN a[i] ELSE b[i - Len(a)]
    BY <2>8, <2>9, ConcatProperties
  <2> HIDE DEF t
  <2>12. Len(t) = l - 1 /\ DOMAIN t = 1 .. l - 1
    BY <2>7, <2>8, <2>9, <2>11
  <2> DEFINE old(i) == IF i < k THEN i ELSE i + 1
  <2>13. \A i \in 1 .. l - 1 : old(i) \in 1 .. l /\ old(i) # k /\ t[i] = s[old(i)]
    <3> SUFFICES ASSUME NEW i \in 1 .. l - 1
                 PROVE  old(i) \in 1 .. l /\ old(i) # k /\ t[i] = s[old(i)]
      OBVIOUS
    <3>1. CASE i < k
      <4>1. i \in 1 .. k - 1 /\ i \in 1 .. Len(a) + Len(b) /\ i <= Len(a)
        BY <3>1, <2>7, <2>8, <2>9
      <4>2. t[i] = s[i]
        BY <4>1, <2>8, <2>11
      <4> QED
        BY <3>1, <4>2, <2>6, <2>7
    <3>2. CASE i >= k
      <4>1. /\ i \in 1 .. Len(a) + Len(b) /\ ~(i <= Len(a)) /\ i - Len(a) = i - (k - 1)
            /\ i - (k - 1) \in 1 .. l - k /\ k + (i - (k - 1)) = i + 1
        BY <3>2, <2>7, <2>8, <2>9
      <4>2. t[i] = b[i - (k - 1)]
        BY <4>1, <2>11
      <4>3. b[i - (k - 1)] = s[k + (i - (k - 1))]
        BY <4>1, <2>9
      <4>4. t[i] = s[i + 1]
        BY <4>1, <4>2, <4>3
      <4> QED
        BY <3>2, <4>4, <2>6, <2>7
    <3> QED
      BY <3>1, <3>2, <2>7
  <2>14. \A i, j \in 1 .. l - 1 : old(i) = old(j) => i = j
    BY <2>7
  <2>15. \A i \in 1 .. l : i # k => \E j \in 1 .. l - 1 : old(j) = i
    <3> SUFFICES ASSUME NEW i \in 1 .. l, i # k
                 PROVE  \E j \in 1 .. l - 1 : old(j) = i
      OBVIOUS
    <3>1. CASE i < k
      <4>1. i \in 1 .. l - 1 /\ old(i) = i
        BY <3>1, <2>7
      <4> QED
        BY <4>1
    <3>2. CASE i > k
      <4>1. i - 1 \in 1 .. l - 1 /\ old(i - 1) = i
        BY <3>2, <2>7
      <4> QED
        BY <4>1
    <3> QED
      BY <3>1, <3>2, <2>7
  <2> HIDE DEF old
  <2>16. DOMAIN s = 1 .. l
    BY <1>1, <2>6
  <2>17. \A i \in 1 .. l : i # k => s[i] # e
    BY <2>1, <2>7, <2>16 DEF IsInjective
  <2>18. ToSet(t) \subseteq ToSet(s) \ {e}
    <3>1. ASSUME NEW i \in 1 .. l - 1 PROVE t[i] \in ToSet(s) \ {e}
      BY <2>13, <2>16, <2>17 DEF ToSet
    <3> QED
      BY <3>1, <2>12 DEF ToSet
  <2>19. ToSet(s) \ {e} \subseteq ToSet(t)
    <3>1. ASSUME NEW i \in 1 .. l, i # k PROVE s[i] \in ToSet(t)
      <4>1. PICK j \in 1 .. l - 1 : old(j) = i
        BY <3>1, <2>15
      <4>2. t[j] = s[i]
        BY <4>1, <2>13
      <4> QED
        BY <4>2, <2>12 DEF ToSet
    <3>2. s[k] = e
      BY <2>1
    <3> QED
      BY <3>1, <3>2, <2>16 DEF ToSet
  <2>20. IsInjective(t)
    <3>1. ASSUME NEW i \in 1 .. l - 1, NEW j \in 1 .. l - 1, t[i] = t[j] PROVE i = j
      <4>1. s[old(i)] = s[old(j)] /\ old(i) \in DOMAIN s /\ old(j) \in DOMAIN s
        BY <3>1, <2>13, <2>16
      <4>2. old(i) = old(j)
        BY <4>1 DEF IsInjective
      <4> QED
        BY <4>2, <2>14
    <3> QED
      BY <3>1, <2>12 DEF IsInjective
  <2>21. t \in Seq(S \ {e})
    <3>1. \A i \in 1 .. l - 1 : t[i] \in S /\ t[i] # e
      BY <2>11, <2>12, <2>13, <2>17
    <3>2. l - 1 \in Nat /\ t = [i \in 1 .. l - 1 |-> t[i]]
      BY <2>7, <2>11, <2>12
    <3>3. t \in [1 .. l - 1 -> S \ {e}]
      BY <3>1, <3>2
    <3> QED
      BY <3>2, <3>3, SeqDef
  <2> QED
    BY <2>10, <2>18, <2>19, <2>20, <2>21
<1> QED
  BY <1>2, <1>3
------------------------------------------------------------------------------
(* Where the entries are.                                                  *)

\* The reaper has the poll in its hand, until it has armed it again.
Hand == IF rpc \in {"drain", "rearm"} /\ wakeup THEN 1 ELSE 0

\* The poll is armed at most once.
PollOnce == PlacesOf(Poll) + Hand <= 1

\* Who has a batch delivers it, and a file is being closed that the loop closes.
Batches == /\ lpc = "deliver" <=> lbatch # <<>>
           /\ rpc \notin {"drain", "rearm", "deliver"} => rbatch = <<>>
           /\ lpc \in Files => file[lpc] = "closing"

Places == TypeOK /\ InOnePlace /\ PollOnce /\ Batches

\* A request is not the poll.
LEMMA PollIsNone == Poll \notin Reqs /\ Entries \ {Poll} = Reqs /\ Reqs \subseteq Entries
  BY Bounds DEF Poll, Reqs, Entries

\* Entries that have been submitted are in the submission queue or with the
\* kernel.
LEMMA Taken ==
  ASSUME NEW q \in Seq(Entries), IsInjective(q), ToSet(q) \intersect kernel = {},
         Len(q) <= Depth, kernel \subseteq Entries,
         \/ sq' = <<>> /\ kernel' = kernel \union ToSet(q)
         \/ sq' = q /\ kernel' = kernel
  PROVE  /\ sq' \in Seq(Entries) /\ Len(sq') <= Depth /\ kernel' \subseteq Entries
         /\ IsInjective(sq') /\ ToSet(sq') \intersect kernel' = {}
         /\ ToSet(sq') \union kernel' = ToSet(q) \union kernel
<1>1. ToSet(q) \subseteq Entries
  BY DEF ToSet
<1>2. Len(<<>>) = 0 /\ 0 <= Depth
  BY Bounds
<1> QED
  BY <1>1, <1>2, Nothing

\* The places of a step that moves no entry.
LEMMA Still ==
  ASSUME InOnePlace, UNCHANGED <<sq, overflow, kernel, cq, rbatch, lbatch, owner>>
  PROVE  InOnePlace' /\ PlacesOf(Poll)' = PlacesOf(Poll)
  BY DEF InOnePlace, PlacesOf

\* The types and the batches of such a step.
LEMMA StillTypes ==
  ASSUME TypeOK, Batches,
         \/ \E f \in Files : BeginClose(f) \/ Expire(f) \/ EndClose(f)
         \/ StopReaper \/ TestStop \/ WaitCqe \/ ReaperFails \/ DrainEnds
         \/ UNCHANGED vars
  PROVE  TypeOK' /\ Batches'
<1> USE DEF ring, reaper, loop, files, ReaperPcs
<1>1. ASSUME NEW f \in Files, BeginClose(f) PROVE TypeOK' /\ Batches'
  BY <1>1, Bounds DEF BeginClose, TypeOK, Batches
<1>2. ASSUME NEW f \in Files, Expire(f) PROVE TypeOK' /\ Batches'
  BY <1>2 DEF Expire, TypeOK, Batches
<1>3. ASSUME NEW f \in Files, EndClose(f) PROVE TypeOK' /\ Batches'
  BY <1>3, Bounds DEF EndClose, TypeOK, Batches
<1>4. CASE StopReaper
  BY <1>4 DEF StopReaper, TypeOK, Batches
<1>5. CASE TestStop
  BY <1>5 DEF TestStop, TypeOK, Batches
<1>6. CASE WaitCqe
  BY <1>6 DEF WaitCqe, TypeOK, Batches
<1>10. CASE ReaperFails
  BY <1>10 DEF ReaperFails, TypeOK, Batches
<1>7. CASE DrainEnds
  BY <1>7 DEF DrainEnds, TypeOK, Batches
<1>8. CASE UNCHANGED vars
  BY <1>8 DEF vars, TypeOK, Batches
<1> QED
  BY <1>1, <1>2, <1>3, <1>4, <1>5, <1>6, <1>7, <1>8, <1>10

\* The thread of the kernel takes an entry.
LEMMA SqThreadPlaces == ASSUME Places, SqThread PROVE Places'
<1> USE DEF ring, reaper, loop, files
<1>1. sq \in Seq(Entries) /\ sq # <<>> /\ IsInjective(sq)
  BY DEF Places, TypeOK, InOnePlace, SqThread
<1>2. /\ sq' \in Seq(Entries) /\ Len(sq') = Len(sq) - 1 /\ IsInjective(sq')
      /\ Head(sq) \in Entries /\ Head(sq) \in ToSet(sq)
      /\ ToSet(sq') = ToSet(sq) \ {Head(sq)} /\ kernel' = kernel \union {Head(sq)}
  BY <1>1, Shifted DEF SqThread
<1>3. TypeOK' /\ Batches'
  <2>1. Len(sq') <= Depth /\ kernel' \subseteq Entries
    BY <1>1, <1>2, Bounds DEF Places, TypeOK
  <2> QED
    BY <1>2, <2>1 DEF Places, TypeOK, Batches, SqThread
<1>4. \A e \in Entries : PlacesOf(e) <= 1 => PlacesOf(e)' = PlacesOf(e)
  BY <1>2 DEF SqThread, PlacesOf, In
<1>5. InOnePlace'
  BY <1>2, <1>4, PollIsNone DEF Places, InOnePlace, SqThread
<1>6. Hand' = Hand /\ Hand \in {0, 1} /\ Poll \in Entries /\ PlacesOf(Poll) \in Nat
  BY DEF Hand, SqThread, Entries, PlacesOf, In
<1>7. PollOnce'
  BY <1>4, <1>6 DEF Places, PollOnce
<1> QED
  BY <1>3, <1>5, <1>7 DEF Places

\* The kernel ends an entry.
LEMMA CompletePlaces == ASSUME Places, NEW c \in Entries, Complete(c) PROVE Places'
<1> USE DEF ring, reaper, loop, files
<1>1. cq \in Seq(Entries) /\ IsInjective(cq) /\ c \in kernel
  BY DEF Places, TypeOK, InOnePlace, Complete
<1>2. Hand \in {0, 1} /\ \A e : PlacesOf(e) \in Nat
  BY DEF Hand, PlacesOf, In
<1>3. PlacesOf(c) <= 1
  BY <1>2 DEF Places, InOnePlace, PollOnce, Entries
<1>4. c \notin ToSet(cq)
  BY <1>1, <1>3 DEF PlacesOf, In
<1>5. /\ cq' \in Seq(Entries) /\ IsInjective(cq') /\ ToSet(cq') = ToSet(cq) \union {c}
      /\ kernel' = kernel \ {c}
  BY <1>1, <1>4, Appended DEF Complete
<1>6. TypeOK' /\ Batches'
  BY <1>5 DEF Places, TypeOK, Batches, Complete
<1>7. \A e \in Entries : PlacesOf(e)' = PlacesOf(e)
  BY <1>1, <1>4, <1>5 DEF Complete, PlacesOf, In
<1>8. InOnePlace'
  BY <1>5, <1>7, PollIsNone DEF Places, InOnePlace, Complete
<1>9. Hand' = Hand
  BY DEF Hand, Complete
<1>10. PollOnce'
  BY <1>7, <1>9 DEF Places, PollOnce, Entries
<1> QED
  BY <1>6, <1>8, <1>10 DEF Places

\* What a new request does to the queues.
LEMMA SubmitOrQueuePlaces ==
  ASSUME Places, NEW r \in Reqs, owner[r] = "new", SubmitOrQueue(r)
  PROVE  /\ sq' \in Seq(Entries) /\ Len(sq') <= Depth /\ kernel' \subseteq Entries
         /\ overflow' \in Seq(Reqs)
         /\ IsInjective(sq') /\ IsInjective(overflow')
         /\ \A e \in Entries :
              In(e, ToSet(sq')) + In(e, ToSet(overflow')) + In(e, kernel')
                = In(e, ToSet(sq)) + In(e, ToSet(overflow)) + In(e, kernel) + In(e, {r})
<1>1. /\ sq \in Seq(Entries) /\ Len(sq) <= Depth /\ overflow \in Seq(Reqs)
      /\ kernel \subseteq Entries
      /\ IsInjective(sq) /\ IsInjective(overflow)
  BY DEF Places, TypeOK, InOnePlace
<1>2. PlacesOf(r) = 0
  BY DEF Places, InOnePlace
<1>3. r \notin ToSet(sq) /\ r \notin ToSet(overflow) /\ r \notin kernel
  BY <1>2 DEF PlacesOf, In
<1>4. CASE overflow # <<>> \/ Len(sq) = Depth
  <2>1. overflow' = Append(overflow, r) /\ UNCHANGED <<sq, kernel>>
    BY <1>4 DEF SubmitOrQueue
  <2>2. /\ overflow' \in Seq(Reqs) /\ IsInjective(overflow')
        /\ ToSet(overflow') = ToSet(overflow) \union {r}
    BY <1>1, <1>3, <2>1, Appended
  <2> QED
    BY <1>1, <1>3, <2>1, <2>2 DEF In
<1>5. CASE ~(overflow # <<>> \/ Len(sq) = Depth)
  <2>1. IoUringSubmit(Append(sq, r)) /\ UNCHANGED overflow
    BY <1>5 DEF SubmitOrQueue
  <2> DEFINE q == Append(sq, r)
  <2>2. /\ q \in Seq(Entries) /\ Len(q) = Len(sq) + 1 /\ IsInjective(q)
        /\ ToSet(q) = ToSet(sq) \union {r}
    BY <1>1, <1>3, PollIsNone, Appended
  <2>3. \/ sq' = <<>> /\ kernel' = kernel \union ToSet(q)
        \/ sq' = q /\ kernel' = kernel
    BY <2>1 DEF IoUringSubmit
  <2> HIDE DEF q
  <2>4. \A e \in Entries : e \in ToSet(sq) => e \notin kernel
    <3>1. \A e : PlacesOf(e) \in Nat /\ Hand \in {0, 1}
      BY DEF Hand, PlacesOf, In
    <3>2. \A e \in Entries : PlacesOf(e) <= 1
      BY <3>1 DEF Places, InOnePlace, PollOnce, Entries
    <3> QED
      BY <3>2 DEF PlacesOf, In
  <2>5. ToSet(q) \intersect kernel = {}
    BY <1>1, <1>3, <2>2, <2>4
  <2>6. Len(q) <= Depth
    BY <1>1, <1>5, <2>2, Bounds
  <2>7. /\ sq' \in Seq(Entries) /\ Len(sq') <= Depth /\ kernel' \subseteq Entries
        /\ IsInjective(sq') /\ ToSet(sq') \intersect kernel' = {}
        /\ ToSet(sq') \union kernel' = ToSet(q) \union kernel
    BY <1>1, <2>2, <2>3, <2>5, <2>6, Taken
  <2>8. \A e : In(e, ToSet(sq')) + In(e, kernel') = In(e, ToSet(sq)) + In(e, kernel) + In(e, {r})
    BY <1>3, <2>2, <2>5, <2>7 DEF In
  <2>9. \A e :
          In(e, ToSet(sq')) + In(e, ToSet(overflow')) + In(e, kernel')
            = In(e, ToSet(sq)) + In(e, ToSet(overflow)) + In(e, kernel) + In(e, {r})
    <3> TAKE e
    <3>1. /\ In(e, ToSet(sq')) \in Nat /\ In(e, kernel') \in Nat /\ In(e, ToSet(sq)) \in Nat
          /\ In(e, kernel) \in Nat /\ In(e, {r}) \in Nat /\ In(e, ToSet(overflow)) \in Nat
      BY DEF In
    <3>2. In(e, ToSet(sq')) + In(e, kernel') = In(e, ToSet(sq)) + In(e, kernel) + In(e, {r})
      BY <2>8
    <3>3. In(e, ToSet(overflow')) = In(e, ToSet(overflow))
      BY <2>1
    <3> QED
      BY <3>1, <3>2, <3>3
  <2> QED
    BY <1>1, <2>1, <2>7, <2>9
<1> QED
  BY <1>4, <1>5

\* A request is made.
LEMMA SubmitPlaces ==
  ASSUME Places, NEW r \in Reqs, SubmitOpen(r) \/ \E f \in Files : Submit(f, r)
  PROVE  Places'
<1> USE DEF ring, reaper, loop, files
<1>1. owner[r] = "new" /\ SubmitOrQueue(r)
  BY DEF SubmitOpen, Submit, Fresh
<1>2. /\ sq' \in Seq(Entries) /\ Len(sq') <= Depth /\ kernel' \subseteq Entries
      /\ overflow' \in Seq(Reqs)
      /\ IsInjective(sq') /\ IsInjective(overflow')
      /\ \A e \in Entries :
           In(e, ToSet(sq')) + In(e, ToSet(overflow')) + In(e, kernel')
             = In(e, ToSet(sq)) + In(e, ToSet(overflow)) + In(e, kernel) + In(e, {r})
  BY <1>1, SubmitOrQueuePlaces
<1>3. TypeOK' /\ Batches'
  <2>1. CASE SubmitOpen(r)
    BY <1>2, <2>1 DEF Places, TypeOK, Batches, SubmitOpen, StartReaper, ReaperPcs
  <2>2. ASSUME NEW f \in Files, Submit(f, r) PROVE TypeOK' /\ Batches'
    BY <1>2, <2>2, Bounds DEF Places, TypeOK, Batches, Submit, StartReaper, ReaperPcs
  <2> QED
    BY <2>1, <2>2
<1>4. UNCHANGED <<cq, rbatch, lbatch, wakeup>> /\ rpc' = IF rpc = "off" THEN "loop" ELSE rpc
  BY DEF SubmitOpen, Submit, StartReaper
<1>5. \A e \in Entries : PlacesOf(e)' = PlacesOf(e) + In(e, {r})
  <2> TAKE e \in Entries
  <2>1. \A S : In(e, S) \in Nat
    BY DEF In
  <2>2. /\ In(e, ToSet(cq')) = In(e, ToSet(cq)) /\ In(e, ToSet(rbatch')) = In(e, ToSet(rbatch))
        /\ In(e, ToSet(lbatch')) = In(e, ToSet(lbatch))
    BY <1>4
  <2>3. In(e, ToSet(sq')) + In(e, ToSet(overflow')) + In(e, kernel')
          = In(e, ToSet(sq)) + In(e, ToSet(overflow)) + In(e, kernel) + In(e, {r})
    BY <1>2
  <2>4. /\ In(e, ToSet(sq')) \in Nat /\ In(e, ToSet(overflow')) \in Nat /\ In(e, kernel') \in Nat
        /\ In(e, ToSet(sq)) \in Nat /\ In(e, ToSet(overflow)) \in Nat /\ In(e, kernel) \in Nat
        /\ In(e, ToSet(cq)) \in Nat /\ In(e, ToSet(rbatch)) \in Nat
        /\ In(e, ToSet(lbatch)) \in Nat /\ In(e, {r}) \in Nat
    BY <2>1
  <2> QED
    BY <2>2, <2>3, <2>4 DEF PlacesOf
<1>6. InOnePlace'
  <2>1. /\ owner' = [owner EXCEPT ![r] = owner'[r]]
        /\ owner'[r] \notin {"new", "done"}
    BY Bounds DEF Places, TypeOK, SubmitOpen, Submit
  <2>2. \A q \in Reqs : PlacesOf(q)' = IF owner'[q] \in {"new", "done"} THEN 0 ELSE 1
    <3> TAKE q \in Reqs
    <3>1. PlacesOf(q)' = PlacesOf(q) + In(q, {r})
      BY <1>5, PollIsNone
    <3>2. owner \in [Reqs -> Files \union {NoFile, "new", "done"}]
      BY DEF Places, TypeOK
    <3>3. PlacesOf(q) = IF owner[q] \in {"new", "done"} THEN 0 ELSE 1
      BY DEF Places, InOnePlace
    <3> QED
      BY <1>1, <2>1, <3>1, <3>2, <3>3 DEF In
  <2> QED
    BY <1>2, <1>4, <2>2 DEF Places, InOnePlace
<1>7. PollOnce'
  <2>1. PlacesOf(Poll)' = PlacesOf(Poll)
    <3>1. PlacesOf(Poll)' = PlacesOf(Poll) + In(Poll, {r}) /\ In(Poll, {r}) = 0
      BY <1>5, PollIsNone DEF Entries, In
    <3>2. PlacesOf(Poll) \in Nat
      BY DEF PlacesOf, In
    <3> QED
      BY <3>1, <3>2
  <2>2. Hand' = Hand
    BY <1>4 DEF Hand
  <2> QED
    BY <2>1, <2>2 DEF Places, PollOnce
<1> QED
  BY <1>3, <1>6, <1>7 DEF Places

\* The least of two numbers.
LEMMA LeastOfTwo ==
  ASSUME NEW a \in Int, NEW b \in Int
  PROVE  Min({a, b}) \in Int /\ Min({a, b}) <= a /\ Min({a, b}) <= b /\ Min({a, b}) \in {a, b}
<1>1. \E m \in {a, b} : \A x \in {a, b} : m <= x
  <2>1. CASE a <= b
    BY <2>1
  <2>2. CASE b <= a
    BY <2>2
  <2> QED
    BY <2>1, <2>2
<1>2. Min({a, b}) \in {a, b} /\ \A x \in {a, b} : Min({a, b}) <= x
  BY <1>1 DEF Min
<1> QED
  BY <1>2

\* The least of three numbers.
LEMMA LeastOfThree ==
  ASSUME NEW a \in Int, NEW b \in Int, NEW c \in Int
  PROVE  /\ Min({a, b, c}) \in Int /\ Min({a, b, c}) \in {a, b, c}
         /\ Min({a, b, c}) <= a /\ Min({a, b, c}) <= b /\ Min({a, b, c}) <= c
<1>1. \E m \in {a, b, c} : \A x \in {a, b, c} : m <= x
  <2>1. CASE a <= b /\ a <= c
    BY <2>1
  <2>2. CASE b <= a /\ b <= c
    BY <2>2
  <2>3. CASE c <= a /\ c <= b
    BY <2>3
  <2> QED
    BY <2>1, <2>2, <2>3
<1>2. Min({a, b, c}) \in {a, b, c} /\ \A x \in {a, b, c} : Min({a, b, c}) <= x
  BY <1>1 DEF Min
<1> QED
  BY <1>2

\* The loop takes the completions up to the one of the poll.
LEMMA HarvestedIs ==
  ASSUME cq \in Seq(Entries), IsInjective(cq)
  PROVE  \E n \in 0 .. Len(cq) : /\ Harvested = SubSeq(cq, 1, n)
                                 /\ \A i \in 1 .. n : cq[i] # Poll
<1> DEFINE poll == {i \in DOMAIN cq : cq[i] = Poll}
           ends == {Len(cq), HarvestMax} \union {i - 1 : i \in poll}
<1>1. Len(cq) \in Nat /\ DOMAIN cq = 1 .. Len(cq) /\ HarvestMax \in Nat \ {0}
  BY Bounds
<1>2. Harvested = SubSeq(cq, 1, Min(ends))
  BY DEF Harvested
<1>3. CASE poll = {}
  <2>1. ends = {Len(cq), HarvestMax}
    BY <1>3
  <2>2. \A i \in 1 .. Len(cq) : cq[i] # Poll
    BY <1>1, <1>3
  <2> HIDE DEF ends, poll
  <2>3. Min(ends) \in 0 .. Len(cq)
    <3>1. PICK l \in Int, h \in Int : l = Len(cq) /\ h = HarvestMax /\ 0 <= l /\ 0 < h
      <4>1. Len(cq) \in Int /\ HarvestMax \in Int /\ 0 <= Len(cq) /\ 0 < HarvestMax
        BY <1>1
      <4> QED
        BY <4>1, Zenon
    <3>2. Min({l, h}) \in Int /\ Min({l, h}) <= l /\ Min({l, h}) \in {l, h}
      BY LeastOfTwo
    <3> QED
      BY <2>1, <3>1, <3>2
  <2>4. \A i \in 1 .. Min(ends) : cq[i] # Poll
    BY <1>1, <2>2, <2>3
  <2> QED
    BY <1>2, <2>3, <2>4
<1>4. CASE poll # {}
  <2>1. PICK k \in 1 .. Len(cq) : cq[k] = Poll
    BY <1>1, <1>4
  <2>2. poll = {k}
    BY <1>1, <2>1 DEF IsInjective
  <2>3. ends = {Len(cq), HarvestMax, k - 1}
    BY <2>2
  <2> HIDE DEF ends, poll
  <2>4. Min(ends) \in 0 .. Len(cq) /\ Min(ends) < k
    <3>1. PICK l \in Int, h \in Int : l = Len(cq) /\ h = HarvestMax /\ 0 <= l /\ 0 < h
      <4>1. Len(cq) \in Int /\ HarvestMax \in Int /\ 0 <= Len(cq) /\ 0 < HarvestMax
        BY <1>1
      <4> QED
        BY <4>1, Zenon
    <3>2. k - 1 \in Int /\ 0 <= k - 1 /\ k \in Int
      BY <1>1
    <3>3. /\ Min({l, h, k - 1}) \in Int /\ Min({l, h, k - 1}) \in {l, h, k - 1}
          /\ Min({l, h, k - 1}) <= l /\ Min({l, h, k - 1}) <= k - 1
      BY <3>2, LeastOfThree
    <3> QED
      BY <2>3, <3>1, <3>2, <3>3
  <2>5. \A i \in 1 .. Min(ends) : i \in DOMAIN cq /\ i # k
    BY <1>1, <2>4
  <2>6. k \in DOMAIN cq
    BY <1>1
  <2>7. \A i \in 1 .. Min(ends) : cq[i] # Poll
    BY <2>1, <2>5, <2>6 DEF IsInjective
  <2> QED
    BY <1>2, <2>4, <2>7
<1> QED
  BY <1>3, <1>4

\* The loop harvests in passing.
LEMMA HarvestPlaces == ASSUME Places, TryHarvestInline PROVE Places'
<1> USE DEF ring, reaper, loop, files
<1>1. lbatch = <<>> /\ lpc = "harvest" /\ cq \in Seq(Entries) /\ IsInjective(cq)
  BY DEF Places, TypeOK, Batches, InOnePlace, TryHarvestInline
<1>2. Hand' = Hand
  BY DEF Hand, TryHarvestInline
<1>3. CASE lpc' = "idle" /\ UNCHANGED <<cq, lbatch>>
  <2>1. TypeOK' /\ Batches'
    BY <1>1, <1>3, Bounds DEF Places, TypeOK, Batches, TryHarvestInline
  <2>2. InOnePlace' /\ PlacesOf(Poll)' = PlacesOf(Poll)
    BY <1>3, Still DEF Places, TryHarvestInline
  <2> QED
    BY <1>2, <2>1, <2>2 DEF Places, PollOnce
<1>4. CASE /\ lbatch' = Harvested
           /\ cq' = SubSeq(cq, Len(Harvested) + 1, Len(cq))
           /\ lpc' = IF lbatch' = <<>> THEN "idle" ELSE "deliver"
  <2>1. PICK n \in 0 .. Len(cq) : Harvested = SubSeq(cq, 1, n) /\ \A i \in 1 .. n : cq[i] # Poll
    BY <1>1, HarvestedIs
  <2>2. Len(cq) \in Nat
    BY <1>1
  <2>3. /\ lbatch' \in Seq(Entries) /\ Len(lbatch') = n
        /\ \A i \in 1 .. n : lbatch'[i] = cq[i]
    BY <1>1, <1>4, <2>1, Split
  <2>4. cq' = SubSeq(cq, n + 1, Len(cq))
    BY <1>4, <2>1, <2>3
  <2>5. /\ cq' \in Seq(Entries) /\ Len(cq') = Len(cq) - n
        /\ \A i \in 1 .. Len(cq) - n : cq'[i] = cq[n + i]
    BY <1>1, <2>4, Split
  <2>6. n \in Nat
    BY <2>2
  <2>7. /\ IsInjective(lbatch') /\ IsInjective(cq')
        /\ ToSet(lbatch') \union ToSet(cq') = ToSet(cq)
        /\ ToSet(lbatch') \intersect ToSet(cq') = {}
    BY <1>1, <1>4, <2>1, <2>4, Parted
  <2>8. lbatch' \in Seq(Reqs)
    <3>1. \A i \in 1 .. n : lbatch'[i] \in Reqs
      BY <2>1, <2>3, PollIsNone
    <3>2. lbatch' = [i \in 1 .. n |-> lbatch'[i]]
      BY <2>3, <2>6
    <3>3. lbatch' \in [1 .. n -> Reqs]
      BY <3>1, <3>2
    <3> QED
      BY <2>6, <3>3, SeqDef
  <2>9. lpc' = "deliver" <=> lbatch' # <<>>
    BY <1>4
  <2>10. lpc' \in {"idle", "deliver"} /\ lpc' \notin Files
    BY <1>4, Bounds
  <2>11. TypeOK' /\ Batches'
    BY <2>5, <2>8, <2>9, <2>10 DEF Places, TypeOK, Batches, TryHarvestInline
  <2>12. ToSet(lbatch) = {}
    BY <1>1, Nothing
  <2>13. \A e \in Entries : PlacesOf(e)' = PlacesOf(e)
    BY <2>7, <2>12 DEF PlacesOf, In, TryHarvestInline
  <2>14. InOnePlace'
    BY <2>7, <2>13, PollIsNone DEF Places, InOnePlace, TryHarvestInline
  <2>15. PollOnce'
    BY <1>2, <2>13 DEF Places, PollOnce, Entries
  <2> QED
    BY <2>11, <2>14, <2>15 DEF Places
<1> QED
  BY <1>3, <1>4 DEF TryHarvestInline

\* The reaper takes all completions.
LEMMA ReapPlaces == ASSUME Places, ReapAll PROVE Places'
<1> USE DEF ring, reaper, loop, files
<1>1. rbatch = <<>> /\ rpc = "woken" /\ cq \in Seq(Entries) /\ IsInjective(cq)
  BY DEF Places, TypeOK, Batches, InOnePlace, ReapAll
<1>2. /\ rbatch' \in Seq(Reqs) /\ IsInjective(rbatch') /\ ToSet(rbatch') = ToSet(cq) \ {Poll}
  BY <1>1, Removed, PollIsNone DEF ReapAll
<1>3. cq' = <<>> /\ cq' \in Seq(Entries) /\ ToSet(cq') = {} /\ IsInjective(cq')
  BY Nothing DEF ReapAll
<1>4. ToSet(rbatch) = {}
  BY <1>1, Nothing
<1>5. TypeOK' /\ Batches'
  <2>1. wakeup' \in BOOLEAN
    BY DEF ReapAll
  <2> QED
    BY <1>2, <1>3, <2>1 DEF Places, TypeOK, Batches, ReapAll, ReaperPcs
<1>6. \A r \in Reqs : PlacesOf(r)' = PlacesOf(r)
  BY <1>2, <1>3, <1>4, PollIsNone DEF ReapAll, PlacesOf, In
<1>7. InOnePlace'
  BY <1>2, <1>3, <1>6 DEF Places, InOnePlace, ReapAll
<1>8. Hand = 0 /\ Hand' = In(Poll, ToSet(cq))
  BY <1>1 DEF Hand, In, ReapAll
<1>9. PlacesOf(Poll)' + In(Poll, ToSet(cq)) = PlacesOf(Poll)
  BY <1>2, <1>3, <1>4 DEF ReapAll, PlacesOf, In
<1>10. PollOnce'
  <2>1. PlacesOf(Poll) \in Nat /\ PlacesOf(Poll)' \in Nat /\ In(Poll, ToSet(cq)) \in Nat
    BY DEF PlacesOf, In
  <2> QED
    BY <1>8, <1>9, <2>1 DEF Places, PollOnce
<1> QED
  BY <1>5, <1>7, <1>10 DEF Places

\* An entry of the overflow list is prepared.
LEMMA DrainOnePlaces == ASSUME Places, DrainOne PROVE Places'
<1> USE DEF ring, reaper, loop, files
<1>1. /\ sq \in Seq(Entries) /\ Len(sq) \in Nat /\ Len(sq) < Depth /\ IsInjective(sq)
      /\ overflow \in Seq(Reqs) /\ overflow # <<>> /\ IsInjective(overflow)
  BY DEF Places, TypeOK, InOnePlace, DrainOne
<1>2. PICK h \in Reqs : h = Head(overflow) /\ h \in ToSet(overflow)
  BY <1>1, Shifted
<1>3. /\ overflow' \in Seq(Reqs) /\ IsInjective(overflow')
      /\ ToSet(overflow') = ToSet(overflow) \ {h}
  BY <1>1, <1>2, Shifted DEF DrainOne
<1>4. \A e : PlacesOf(e) \in Nat
  BY DEF PlacesOf, In
<1>5. PlacesOf(h) <= 1
  BY <1>4 DEF Places, InOnePlace
<1>6. h \notin ToSet(sq)
  BY <1>2, <1>5 DEF PlacesOf, In
<1>7. /\ sq' \in Seq(Entries) /\ Len(sq') = Len(sq) + 1 /\ IsInjective(sq')
      /\ ToSet(sq') = ToSet(sq) \union {h}
  BY <1>1, <1>2, <1>6, PollIsNone, Appended DEF DrainOne
<1>8. Len(sq') <= Depth
  BY <1>1, <1>7, Bounds
<1>9. TypeOK' /\ Batches'
  BY <1>3, <1>7, <1>8 DEF Places, TypeOK, Batches, DrainOne
<1>10. \A e \in Entries : PlacesOf(e)' = PlacesOf(e)
  BY <1>2, <1>3, <1>6, <1>7 DEF DrainOne, PlacesOf, In
<1>11. InOnePlace'
  BY <1>3, <1>7, <1>10, PollIsNone DEF Places, InOnePlace, DrainOne
<1>12. Hand' = Hand
  BY DEF Hand, DrainOne
<1>13. PollOnce'
  BY <1>10, <1>12 DEF Places, PollOnce, Entries
<1> QED
  BY <1>9, <1>11, <1>13 DEF Places

\* No entry is in two places.
LEMMA Apart ==
  ASSUME Places
  PROVE  /\ \A e \in Entries : PlacesOf(e) <= 1 /\ PlacesOf(e) \in Nat
         /\ ToSet(sq) \intersect kernel = {}
<1>1. \A e : PlacesOf(e) \in Nat /\ Hand \in {0, 1}
  BY DEF Hand, PlacesOf, In
<1>2. \A e \in Entries : PlacesOf(e) <= 1
  BY <1>1 DEF Places, InOnePlace, PollOnce, Entries
<1>3. kernel \subseteq Entries
  BY DEF Places, TypeOK
<1> QED
  BY <1>1, <1>2, <1>3 DEF PlacesOf, In

\* What has been prepared is submitted.
LEMMA DrainSubmitPlaces == ASSUME Places, DrainSubmit PROVE Places'
<1> USE DEF ring, reaper, loop, files
<1>1. /\ sq \in Seq(Entries) /\ Len(sq) <= Depth /\ IsInjective(sq) /\ kernel \subseteq Entries
  BY DEF Places, TypeOK, InOnePlace
<1>2. \/ sq' = <<>> /\ kernel' = kernel \union ToSet(sq)
      \/ sq' = sq /\ kernel' = kernel
  BY DEF DrainSubmit, IoUringSubmit
<1>3. /\ sq' \in Seq(Entries) /\ Len(sq') <= Depth /\ kernel' \subseteq Entries
      /\ IsInjective(sq') /\ ToSet(sq') \intersect kernel' = {}
      /\ ToSet(sq') \union kernel' = ToSet(sq) \union kernel
  BY <1>1, <1>2, Apart, Taken
<1>4. TypeOK' /\ Batches'
  BY <1>3 DEF Places, TypeOK, Batches, DrainSubmit
<1>5. \A e \in Entries : PlacesOf(e)' = PlacesOf(e)
  BY <1>3, Apart DEF DrainSubmit, PlacesOf, In
<1>6. InOnePlace'
  BY <1>3, <1>5, PollIsNone DEF Places, InOnePlace, DrainSubmit
<1>7. Hand' = Hand
  BY DEF Hand, DrainSubmit
<1>8. PollOnce'
  BY <1>5, <1>7 DEF Places, PollOnce, Entries
<1> QED
  BY <1>4, <1>6, <1>8 DEF Places

\* The poll is armed again.
LEMMA RearmPlaces == ASSUME Places, Rearm PROVE Places'
<1> USE DEF ring, reaper, loop, files
<1>1. /\ sq \in Seq(Entries) /\ Len(sq) \in Nat /\ Len(sq) <= Depth /\ IsInjective(sq)
      /\ kernel \subseteq Entries
  BY DEF Places, TypeOK, InOnePlace
<1>2. Hand' = 0 /\ Hand \in {0, 1} /\ PlacesOf(Poll) \in Nat /\ Poll \in Entries
  BY DEF Hand, Rearm, PlacesOf, In, Entries
<1>3. CASE wakeup /\ ~stop /\ Len(sq) < Depth
  <2>1. Hand = 1 /\ IoUringSubmit(Append(sq, Poll))
    BY <1>3 DEF Hand, Rearm
  <2>2. PlacesOf(Poll) = 0
    BY <1>2, <2>1 DEF Places, PollOnce
  <2>3. Poll \notin ToSet(sq) /\ Poll \notin kernel
    BY <2>2 DEF PlacesOf, In
  <2> DEFINE q == Append(sq, Poll)
  <2>4. /\ q \in Seq(Entries) /\ Len(q) = Len(sq) + 1 /\ IsInjective(q)
        /\ ToSet(q) = ToSet(sq) \union {Poll}
    BY <1>1, <1>2, <2>3, Appended
  <2>5. \/ sq' = <<>> /\ kernel' = kernel \union ToSet(q)
        \/ sq' = q /\ kernel' = kernel
    BY <2>1 DEF IoUringSubmit
  <2> HIDE DEF q
  <2>6. ToSet(q) \intersect kernel = {} /\ Len(q) <= Depth
    BY <1>1, <1>3, <2>3, <2>4, Apart, Bounds
  <2>7. /\ sq' \in Seq(Entries) /\ Len(sq') <= Depth /\ kernel' \subseteq Entries
        /\ IsInjective(sq') /\ ToSet(sq') \intersect kernel' = {}
        /\ ToSet(sq') \union kernel' = ToSet(q) \union kernel
    BY <1>1, <2>4, <2>5, <2>6, Taken
  <2>8. TypeOK' /\ Batches'
    BY <2>7 DEF Places, TypeOK, Batches, Rearm, ReaperPcs
  <2>9. \A r \in Reqs : PlacesOf(r)' = PlacesOf(r)
    BY <2>4, <2>6, <2>7, PollIsNone DEF Rearm, PlacesOf, In
  <2>10. InOnePlace'
    BY <2>7, <2>9 DEF Places, InOnePlace, Rearm
  <2>11. PlacesOf(Poll)' <= 1
    <3>1. Poll \notin ToSet(cq') /\ Poll \notin ToSet(rbatch') /\ Poll \notin ToSet(lbatch')
          /\ Poll \notin ToSet(overflow')
      BY <2>2 DEF PlacesOf, In, Rearm
    <3> QED
      BY <2>7, <3>1 DEF PlacesOf, In
  <2>12. PollOnce'
    BY <1>2, <2>11 DEF PollOnce, PlacesOf, In
  <2> QED
    BY <2>8, <2>10, <2>12 DEF Places
<1>4. CASE ~(wakeup /\ ~stop /\ Len(sq) < Depth)
  <2>1. UNCHANGED <<sq, overflow, kernel, cq, rbatch, lbatch, owner>>
    BY <1>4 DEF Rearm
  <2>2. InOnePlace' /\ PlacesOf(Poll)' = PlacesOf(Poll)
    BY <2>1, Still DEF Places
  <2>3. TypeOK' /\ Batches'
    BY <2>1 DEF Places, TypeOK, Batches, Rearm, ReaperPcs
  <2> QED
    BY <1>2, <2>2, <2>3 DEF Places, PollOnce
<1> QED
  BY <1>3, <1>4

\* An entry of a batch is delivered: it was submitted and is in no place
\* afterwards.
LEMMA FinishPlaces ==
  ASSUME Places, NEW h \in Reqs, Finish(h), PlacesOf(h) = 1,
         \A e \in Entries : PlacesOf(e)' = PlacesOf(e) - In(e, {h})
  PROVE  /\ \A r \in Reqs : PlacesOf(r)' = IF owner'[r] \in {"new", "done"} THEN 0 ELSE 1
         /\ PlacesOf(Poll)' = PlacesOf(Poll)
<1>1. owner' = [owner EXCEPT ![h] = "done"]
  BY DEF Finish
<1>2. owner \in [Reqs -> Files \union {NoFile, "new", "done"}]
  BY DEF Places, TypeOK
<1>3. ASSUME NEW r \in Reqs
      PROVE  PlacesOf(r)' = IF owner'[r] \in {"new", "done"} THEN 0 ELSE 1
  <2>1. PlacesOf(r)' = PlacesOf(r) - In(r, {h})
    BY PollIsNone
  <2>2. PlacesOf(r) = IF owner[r] \in {"new", "done"} THEN 0 ELSE 1
    BY DEF Places, InOnePlace
  <2>3. CASE r = h
    BY <1>1, <1>2, <2>1, <2>3 DEF In
  <2>4. CASE r # h
    BY <1>1, <1>2, <2>1, <2>2, <2>4 DEF In
  <2> QED
    BY <2>3, <2>4
<1>4. PlacesOf(Poll)' = PlacesOf(Poll) - In(Poll, {h}) /\ In(Poll, {h}) = 0
  BY PollIsNone DEF Entries, In
<1>5. PlacesOf(Poll) \in Nat
  BY DEF PlacesOf, In
<1> QED
  BY <1>3, <1>4, <1>5

\* What the delivery does to the types.
LEMMA FinishTypes ==
  ASSUME TypeOK, NEW h \in Reqs, Finish(h)
  PROVE  /\ owner' \in [Reqs -> Files \union {NoFile, "new", "done"}]
         /\ pending' \in [Files -> Int]
<1>1. owner' \in [Reqs -> Files \union {NoFile, "new", "done"}]
  BY DEF TypeOK, Finish
<1>2. \A f \in Files : pending[f] - (IF owner[h] = f THEN 1 ELSE 0) \in Int
  BY DEF TypeOK
<1>3. pending' \in [Files -> Int]
  BY <1>2 DEF Finish
<1> QED
  BY <1>1, <1>3

\* The loop delivers.
LEMMA DeliverInlinePlaces == ASSUME Places, DeliverInline PROVE Places'
<1> USE DEF ring, reaper, loop, files
<1>1. lbatch \in Seq(Reqs) /\ lbatch # <<>> /\ IsInjective(lbatch)
  BY DEF Places, TypeOK, Batches, InOnePlace, DeliverInline
<1>2. PICK h \in Reqs : h = Head(lbatch) /\ h \in ToSet(lbatch)
  BY <1>1, Shifted
<1>3. /\ lbatch' \in Seq(Reqs) /\ IsInjective(lbatch')
      /\ ToSet(lbatch') = ToSet(lbatch) \ {h}
  BY <1>1, <1>2, Shifted DEF DeliverInline
<1>4. Finish(h)
  BY <1>2 DEF DeliverInline
<1>5. PlacesOf(h) = 1
  <2>1. PlacesOf(h) \in Nat /\ PlacesOf(h) <= 1 /\ PlacesOf(h) # 0
    BY <1>2, Apart, PollIsNone DEF PlacesOf, In
  <2> QED
    BY <2>1
<1>6. \A e \in Entries : PlacesOf(e)' = PlacesOf(e) - In(e, {h})
  BY <1>2, <1>3 DEF DeliverInline, PlacesOf, In
<1>7. /\ \A r \in Reqs : PlacesOf(r)' = IF owner'[r] \in {"new", "done"} THEN 0 ELSE 1
      /\ PlacesOf(Poll)' = PlacesOf(Poll)
  BY <1>4, <1>5, <1>6, FinishPlaces
<1>8. TypeOK' /\ Batches'
  <2>1. /\ owner' \in [Reqs -> Files \union {NoFile, "new", "done"}]
        /\ pending' \in [Files -> Int]
    BY <1>4, FinishTypes DEF Places
  <2>2. lpc' \in {"idle", "deliver"} /\ (lpc' = "deliver" <=> lbatch' # <<>>) /\ lpc' \notin Files
    BY Bounds DEF DeliverInline
  <2> QED
    BY <1>3, <2>1, <2>2 DEF Places, TypeOK, Batches, DeliverInline
<1>9. InOnePlace'
  BY <1>3, <1>7 DEF Places, InOnePlace, DeliverInline
<1>10. Hand' = Hand
  BY DEF Hand, DeliverInline
<1> QED
  BY <1>7, <1>8, <1>9, <1>10 DEF Places, PollOnce

\* The reaper delivers.
LEMMA DeliverPlaces == ASSUME Places, Deliver PROVE Places'
<1> USE DEF ring, reaper, loop, files
<1>1. Hand' = 0 /\ Hand = 0
  BY DEF Hand, Deliver
<1>2. CASE rbatch = <<>>
  <2>1. UNCHANGED <<sq, overflow, kernel, cq, rbatch, lbatch, owner, pending>> /\ rpc' = "loop"
    BY <1>2 DEF Deliver
  <2>2. InOnePlace' /\ PlacesOf(Poll)' = PlacesOf(Poll)
    BY <2>1, Still DEF Places
  <2>3. TypeOK' /\ Batches'
    BY <1>2, <2>1 DEF Places, TypeOK, Batches, Deliver, ReaperPcs
  <2> QED
    BY <1>1, <2>2, <2>3 DEF Places, PollOnce
<1>3. CASE rbatch # <<>>
  <2>1. rbatch \in Seq(Reqs) /\ IsInjective(rbatch)
    BY DEF Places, TypeOK, InOnePlace
  <2>2. PICK h \in Reqs : h = Head(rbatch) /\ h \in ToSet(rbatch)
    BY <1>3, <2>1, Shifted
  <2>3. Finish(h) /\ rbatch' = Tail(rbatch) /\ rpc' = rpc /\ rpc = "deliver"
    BY <1>3, <2>2 DEF Deliver
  <2>4. /\ rbatch' \in Seq(Reqs) /\ IsInjective(rbatch')
        /\ ToSet(rbatch') = ToSet(rbatch) \ {h}
    BY <1>3, <2>1, <2>2, <2>3, Shifted
  <2>5. PlacesOf(h) = 1
    <3>1. PlacesOf(h) \in Nat /\ PlacesOf(h) <= 1 /\ PlacesOf(h) # 0
      BY <2>2, Apart, PollIsNone DEF PlacesOf, In
    <3> QED
      BY <3>1
  <2>6. \A e \in Entries : PlacesOf(e)' = PlacesOf(e) - In(e, {h})
    BY <2>2, <2>4 DEF Deliver, PlacesOf, In
  <2>7. /\ \A r \in Reqs : PlacesOf(r)' = IF owner'[r] \in {"new", "done"} THEN 0 ELSE 1
        /\ PlacesOf(Poll)' = PlacesOf(Poll)
    BY <2>3, <2>5, <2>6, FinishPlaces
  <2>8. TypeOK' /\ Batches'
    <3>1. /\ owner' \in [Reqs -> Files \union {NoFile, "new", "done"}]
          /\ pending' \in [Files -> Int]
      BY <2>3, FinishTypes DEF Places
    <3> QED
      BY <2>3, <2>4, <3>1 DEF Places, TypeOK, Batches, Deliver
  <2>9. InOnePlace'
    BY <2>4, <2>7 DEF Places, InOnePlace, Deliver
  <2> QED
    BY <1>1, <2>7, <2>8, <2>9 DEF Places, PollOnce
<1> QED
  BY <1>2, <1>3

\* The places after any step.
LEMMA PlacesStep == Places /\ [Next]_vars => Places'
<1> SUFFICES ASSUME Places, [Next]_vars PROVE Places'
  OBVIOUS
<1>1. CASE SqThread
  BY <1>1, SqThreadPlaces
<1>2. ASSUME NEW c \in Entries, Complete(c) PROVE Places'
  BY <1>2, CompletePlaces
<1>3. ASSUME NEW r \in Reqs, SubmitOpen(r) \/ \E f \in Files : Submit(f, r) PROVE Places'
  BY <1>3, SubmitPlaces
<1>4. CASE TryHarvestInline
  BY <1>4, HarvestPlaces
<1>5. CASE DeliverInline
  BY <1>5, DeliverInlinePlaces
<1>6. CASE \/ \E f \in Files : BeginClose(f) \/ Expire(f) \/ EndClose(f)
           \/ StopReaper \/ TestStop \/ WaitCqe \/ ReaperFails \/ DrainEnds
           \/ UNCHANGED vars
  <2>1. TypeOK' /\ Batches'
    BY <1>6, StillTypes DEF Places
  <2>2. UNCHANGED <<sq, overflow, kernel, cq, rbatch, lbatch, owner>>
    BY <1>6 DEF BeginClose, Expire, EndClose, StopReaper, TestStop, WaitCqe, ReaperFails, DrainEnds, vars,
                ring, reaper, loop, files
  <2>3. InOnePlace' /\ PlacesOf(Poll)' = PlacesOf(Poll)
    BY <2>2, Still DEF Places
  <2>4. Hand' = Hand
    BY <1>6 DEF BeginClose, Expire, EndClose, StopReaper, TestStop, WaitCqe, ReaperFails, DrainEnds, vars,
                ring, reaper, loop, files, Hand
  <2> QED
    BY <2>1, <2>3, <2>4 DEF Places, PollOnce
<1>7. CASE ReapAll
  BY <1>7, ReapPlaces
<1>8. CASE DrainOne
  BY <1>8, DrainOnePlaces
<1>9. CASE DrainSubmit
  BY <1>9, DrainSubmitPlaces
<1>10. CASE Rearm
  BY <1>10, RearmPlaces
<1>11. CASE Deliver
  BY <1>11, DeliverPlaces
<1> QED
  BY <1>1, <1>2, <1>3, <1>4, <1>5, <1>6, <1>7, <1>8, <1>9, <1>10, <1>11
     DEF Next, LoopStep, ReaperStep

\* The first state.
LEMMA PlacesInit == Init => Places
<1> SUFFICES ASSUME Init PROVE Places
  OBVIOUS
<1>1. /\ <<Poll>> \in Seq(Entries) /\ Len(<<Poll>>) = 1 /\ ToSet(<<Poll>>) = {Poll}
      /\ IsInjective(<<Poll>>)
  BY DEF ToSet, IsInjective, Entries
<1>2. /\ sq \in Seq(Entries) /\ Len(sq) <= Depth /\ kernel \subseteq Entries /\ IsInjective(sq)
      /\ ToSet(sq) \subseteq {Poll} /\ kernel \subseteq {Poll} /\ ToSet(sq) \intersect kernel = {}
  <2>1. Poll \in Entries /\ Depth \in Nat /\ 1 <= Depth
    BY Bounds DEF Entries
  <2>2. CASE sqpoll
    BY <1>1, <2>1, <2>2 DEF Init
  <2>3. CASE ~sqpoll
    <3>1. sq = <<>> /\ kernel = {Poll} /\ Len(sq) = 0
      BY <2>3 DEF Init
    <3> QED
      BY <2>1, <3>1, Nothing
  <2> QED
    BY <2>2, <2>3
<1>3. TypeOK /\ Batches
  <2>1. /\ overflow \in Seq(Reqs) /\ cq \in Seq(Entries)
        /\ rbatch \in Seq(Reqs) /\ lbatch \in Seq(Reqs)
    BY Nothing DEF Init
  <2>2. /\ owner \in [Reqs -> Files \union {NoFile, "new", "done"}]
        /\ by \in [Reqs -> Files \union {NoFile}]
        /\ pending \in [Files -> Int]
        /\ file \in [Files -> {"open", "closing", "closed"}]
    BY DEF Init
  <2>3. /\ sqpoll \in Sqpolls /\ rpc \in ReaperPcs
        /\ wakeup \in BOOLEAN /\ prepared \in BOOLEAN /\ stop \in BOOLEAN
        /\ lpc \in {"idle", "harvest", "deliver"} \union Files
        /\ expired \subseteq Files
    BY DEF Init, ReaperPcs
  <2>4. Batches
    BY Bounds DEF Init, Batches
  <2> QED
    BY <1>2, <2>1, <2>2, <2>3, <2>4 DEF TypeOK
<1>4. /\ ToSet(overflow) = {} /\ ToSet(cq) = {} /\ ToSet(rbatch) = {} /\ ToSet(lbatch) = {}
      /\ IsInjective(overflow) /\ IsInjective(cq) /\ IsInjective(rbatch) /\ IsInjective(lbatch)
  BY Nothing DEF Init
<1>5. InOnePlace
  <2>1. ASSUME NEW r \in Reqs
        PROVE  PlacesOf(r) = IF owner[r] \in {"new", "done"} THEN 0 ELSE 1
    <3>1. owner[r] = "new" /\ r # Poll
      BY PollIsNone DEF Init
    <3>2. r \notin ToSet(sq) /\ r \notin kernel
      BY <1>2, <3>1
    <3> QED
      BY <1>4, <3>1, <3>2 DEF PlacesOf, In
  <2> QED
    BY <1>2, <1>4, <2>1 DEF InOnePlace
<1>6. PollOnce
  BY <1>2, <1>4 DEF Init, PollOnce, PlacesOf, In, Hand
<1> QED
  BY <1>3, <1>5, <1>6 DEF Places
------------------------------------------------------------------------------
(* What is counted.                                                        *)

\* Whose request it is stays known.
Made == \A r \in Reqs : /\ owner[r] = "new" => by[r] = NoFile
                        /\ owner[r] \in Files \union {NoFile} => by[r] = owner[r]

\* Types, places, counts and makers: the inductive invariant.
Inv == Places /\ PendingIsExact /\ Made

\* The requests of a file.
RequestsOf(f) == {r \in Reqs : owner[r] = f}

\* They can be counted.
LEMMA RequestsFinite == \A f : IsFiniteSet(RequestsOf(f)) /\ Cardinality(RequestsOf(f)) \in Nat
<1> TAKE f
<1>1. IsFiniteSet(Reqs)
  BY FS_Interval, Bounds DEF Reqs
<1>2. RequestsOf(f) \subseteq Reqs
  BY DEF RequestsOf
<1>3. IsFiniteSet(RequestsOf(f))
  BY <1>1, <1>2, FS_Subset
<1> QED
  BY <1>3, FS_CardinalityType

\* A request is delivered: its file counts one less, the others as before.
LEMMA FinishCounts ==
  ASSUME TypeOK, PendingIsExact, Made, NEW h \in Reqs, owner[h] \in Files \union {NoFile},
         Finish(h), by' = by
  PROVE  PendingIsExact' /\ Made'
<1>1. owner \in [Reqs -> Files \union {NoFile, "new", "done"}] /\ pending \in [Files -> Int]
  BY DEF TypeOK
<1>2. /\ owner' = [owner EXCEPT ![h] = "done"]
      /\ \A f \in Files : pending'[f] = pending[f] - (IF owner[h] = f THEN 1 ELSE 0)
  BY DEF Finish
<1>3. ASSUME NEW f \in Files PROVE pending'[f] = Cardinality(RequestsOf(f)')
  <2>1. pending[f] = Cardinality(RequestsOf(f)) /\ f # "done"
    BY Bounds DEF PendingIsExact, RequestsOf
  <2>2. CASE owner[h] = f
    <3>1. h \in RequestsOf(f) /\ RequestsOf(f)' = RequestsOf(f) \ {h}
      BY <1>1, <1>2, <2>1, <2>2 DEF RequestsOf
    <3>2. Cardinality(RequestsOf(f)') = Cardinality(RequestsOf(f)) - 1
      BY <3>1, RequestsFinite, FS_RemoveElement
    <3> QED
      BY <1>2, <2>1, <2>2, <3>2
  <2>3. CASE owner[h] # f
    <3>1. RequestsOf(f)' = RequestsOf(f)
      BY <1>1, <1>2, <2>1, <2>3 DEF RequestsOf
    <3> QED
      BY <1>1, <1>2, <2>1, <2>3, <3>1
  <2> QED
    BY <2>2, <2>3
<1>4. PendingIsExact'
  BY <1>3 DEF PendingIsExact, RequestsOf
<1>5. Made'
  BY <1>1, <1>2, Bounds DEF Made
<1> QED
  BY <1>4, <1>5

\* What is counted after any step.
LEMMA CountsStep ==
  ASSUME Places, PendingIsExact, Made, [Next]_vars
  PROVE  PendingIsExact' /\ Made'
<1> USE DEF ring, reaper, loop, files
<1>1. TypeOK
  BY DEF Places
<1>2. owner \in [Reqs -> Files \union {NoFile, "new", "done"}] /\ pending \in [Files -> Int]
      /\ by \in [Reqs -> Files \union {NoFile}]
  BY <1>1 DEF TypeOK
<1>3. ASSUME UNCHANGED <<owner, by, pending>> PROVE PendingIsExact' /\ Made'
  BY <1>3 DEF PendingIsExact, Made
<1>4. ASSUME NEW r \in Reqs, SubmitOpen(r) PROVE PendingIsExact' /\ Made'
  <2>1. owner[r] = "new" /\ owner' = [owner EXCEPT ![r] = NoFile] /\ by' = by /\ pending' = pending
    BY <1>4 DEF SubmitOpen, Fresh
  <2>2. ASSUME NEW f \in Files PROVE RequestsOf(f)' = RequestsOf(f)
    BY <1>2, <2>1, Bounds DEF RequestsOf
  <2>3. PendingIsExact'
    BY <2>1, <2>2 DEF PendingIsExact, RequestsOf
  <2>4. Made'
    BY <1>2, <2>1, Bounds DEF Made
  <2> QED
    BY <2>3, <2>4
<1>5. ASSUME NEW r \in Reqs, NEW g \in Files, Submit(g, r) PROVE PendingIsExact' /\ Made'
  <2>1. /\ owner[r] = "new" /\ owner' = [owner EXCEPT ![r] = g] /\ by' = [by EXCEPT ![r] = g]
        /\ pending' = [pending EXCEPT ![g] = @ + 1]
    BY <1>5 DEF Submit, Fresh
  <2>2. ASSUME NEW f \in Files PROVE pending'[f] = Cardinality(RequestsOf(f)')
    <3>1. pending[f] = Cardinality(RequestsOf(f))
      BY DEF PendingIsExact, RequestsOf
    <3>2. CASE f = g
      <4>1. r \notin RequestsOf(f) /\ RequestsOf(f)' = RequestsOf(f) \union {r}
        BY <1>2, <2>1, <3>2, Bounds DEF RequestsOf
      <4>2. Cardinality(RequestsOf(f)') = Cardinality(RequestsOf(f)) + 1
        BY <4>1, RequestsFinite, FS_AddElement
      <4> QED
        BY <1>2, <2>1, <3>1, <3>2, <4>2
    <3>3. CASE f # g
      <4>1. RequestsOf(f)' = RequestsOf(f)
        BY <1>2, <2>1, <3>3, Bounds DEF RequestsOf
      <4> QED
        BY <1>2, <2>1, <3>1, <3>3, <4>1
    <3> QED
      BY <3>2, <3>3
  <2>3. PendingIsExact'
    BY <2>2 DEF PendingIsExact, RequestsOf
  <2>4. Made'
    BY <1>2, <2>1, Bounds DEF Made
  <2> QED
    BY <2>3, <2>4
<1>6. ASSUME NEW h \in Reqs, PlacesOf(h) # 0, Finish(h), by' = by
      PROVE  PendingIsExact' /\ Made'
  <2>1. owner[h] \notin {"new", "done"}
    BY <1>6 DEF Places, InOnePlace
  <2>2. owner[h] \in Files \union {NoFile}
    BY <1>2, <2>1
  <2> QED
    BY <1>1, <1>6, <2>2, FinishCounts
<1>7. ASSUME NEW q \in Seq(Reqs), q # <<>>, q \in {lbatch, rbatch}
      PROVE  Head(q) \in Reqs /\ PlacesOf(Head(q)) # 0
  <2>1. Head(q) \in Reqs /\ Head(q) \in ToSet(q)
    BY <1>7, Shifted
  <2> QED
    BY <1>7, <2>1 DEF PlacesOf, In
<1>8. CASE DeliverInline
  <2>1. lbatch # <<>> /\ lbatch \in Seq(Reqs)
    BY <1>8 DEF Places, TypeOK, Batches, DeliverInline
  <2>2. Finish(Head(lbatch)) /\ by' = by
    BY <1>8 DEF DeliverInline
  <2> QED
    BY <1>6, <1>7, <2>1, <2>2
<1>9. CASE Deliver
  <2>1. CASE rbatch = <<>>
    BY <1>3, <1>9, <2>1 DEF Deliver
  <2>2. CASE rbatch # <<>>
    <3>1. rbatch \in Seq(Reqs)
      BY <1>1 DEF TypeOK
    <3>2. Finish(Head(rbatch)) /\ by' = by
      BY <1>9, <2>2 DEF Deliver
    <3> QED
      BY <1>6, <1>7, <2>2, <3>1, <3>2
  <2> QED
    BY <2>1, <2>2
<1>10. CASE \/ SqThread
            \/ \E e \in Entries : Complete(e)
            \/ TryHarvestInline
            \/ \E f \in Files : BeginClose(f) \/ Expire(f) \/ EndClose(f)
            \/ StopReaper \/ TestStop \/ WaitCqe \/ ReaperFails \/ ReapAll \/ DrainOne \/ DrainSubmit
            \/ DrainEnds \/ Rearm
            \/ UNCHANGED vars
  <2>1. UNCHANGED <<owner, by, pending>>
    BY <1>10 DEF SqThread, Complete, TryHarvestInline, BeginClose, Expire, EndClose, StopReaper,
                 TestStop, WaitCqe, ReaperFails, ReapAll, DrainOne, DrainSubmit, DrainEnds, Rearm, vars
  <2> QED
    BY <1>3, <2>1
<1> QED
  BY <1>4, <1>5, <1>8, <1>9, <1>10 DEF Next, LoopStep, ReaperStep

\* The invariant holds at first ...
LEMMA InvInit == Init => Inv
<1> SUFFICES ASSUME Init PROVE Inv
  OBVIOUS
<1>1. Places
  BY PlacesInit
<1>2. ASSUME NEW f \in Files PROVE pending[f] = Cardinality(RequestsOf(f))
  <2>1. RequestsOf(f) = {} /\ pending[f] = 0
    BY <1>2, Bounds DEF Init, RequestsOf
  <2> QED
    BY <2>1, FS_EmptySet
<1>3. Made
  BY Bounds DEF Init, Made
<1> QED
  BY <1>1, <1>2, <1>3 DEF Inv, PendingIsExact, RequestsOf

\* ... and after any step.
LEMMA InvStep == Inv /\ [Next]_vars => Inv'
  BY PlacesStep, CountsStep DEF Inv

\* Whatever the reaper and the inline harvest do and however the queues fill
\* up, a submitted request is in one place until it is delivered, once, and
\* m_pending of each file counts the requests of that file and no others
\* (uring_pool.cpp:128-174, io_uring_backend.cpp:115-188).
THEOREM RequestsAccounted == Spec => []RingAccounted
<1>1. Inv => RingAccounted
  BY DEF Inv, Places, RingAccounted
<1> QED
  BY <1>1, InvInit, InvStep, PTL DEF Spec
------------------------------------------------------------------------------
(* Each file keeps the promise of CloseBarrier.                            *)

\* The requests that a file has made and that have ended.
Left(f) == {r \in Reqs : by[r] = f /\ owner[r] = "done"}

\* A step that leaves a file and its requests alone.
LEMMA BarrierStutters ==
  ASSUME NEW f \in Files, UNCHANGED <<file[f], RequestsOf(f), Left(f), f \in expired>>
  PROVE  UNCHANGED Barrier(f)!barrierVars
  BY DEF RequestsOf, Left, Barrier!barrierVars

\* A delivered request leaves its file, and no other.
LEMMA FinishLeaves ==
  ASSUME Inv, NEW h \in Reqs, PlacesOf(h) # 0, Finish(h), UNCHANGED <<by, file, expired>>,
         NEW f \in Files
  PROVE  Barrier(f)!Next \/ UNCHANGED Barrier(f)!barrierVars
<1>1. owner \in [Reqs -> Files \union {NoFile, "new", "done"}] /\ by \in [Reqs -> Files \union {NoFile}]
  BY DEF Inv, Places, TypeOK
<1>2. owner[h] \notin {"new", "done"}
  BY DEF Inv, Places, InOnePlace
<1>3. owner[h] \in Files \union {NoFile} /\ by[h] = owner[h]
  BY <1>1, <1>2 DEF Inv, Made
<1>4. owner' = [owner EXCEPT ![h] = "done"]
  BY DEF Finish
<1>5. CASE owner[h] = f
  <2>1. /\ h \in RequestsOf(f) /\ RequestsOf(f)' = RequestsOf(f) \ {h}
        /\ Left(f)' = Left(f) \union {h}
    BY <1>1, <1>3, <1>4, <1>5, Bounds DEF RequestsOf, Left
  <2>2. Barrier(f)!Leave(h)
    BY <2>1 DEF Barrier!Leave, RequestsOf, Left
  <2> QED
    BY <2>2 DEF Barrier!Next
<1>6. CASE owner[h] # f
  <2>1. RequestsOf(f)' = RequestsOf(f) /\ Left(f)' = Left(f)
    BY <1>1, <1>3, <1>4, <1>6, Bounds DEF RequestsOf, Left
  <2> QED
    BY <2>1, BarrierStutters
<1> QED
  BY <1>5, <1>6

\* What any step does to any file.
LEMMA BarrierStep ==
  ASSUME Inv, [Next]_vars, NEW f \in Files
  PROVE  Barrier(f)!Next \/ UNCHANGED Barrier(f)!barrierVars
<1> USE DEF ring, reaper, loop, files
<1>1. /\ TypeOK /\ Batches /\ PendingIsExact
      /\ owner \in [Reqs -> Files \union {NoFile, "new", "done"}]
      /\ by \in [Reqs -> Files \union {NoFile}]
      /\ file \in [Files -> {"open", "closing", "closed"}]
  BY DEF Inv, Places, TypeOK
<1>2. ASSUME UNCHANGED <<file, owner, by, expired>>
      PROVE  UNCHANGED Barrier(f)!barrierVars
  BY <1>2, BarrierStutters DEF RequestsOf, Left
<1>3. ASSUME NEW r \in Reqs, SubmitOpen(r)
      PROVE  UNCHANGED Barrier(f)!barrierVars
  <2>1. owner[r] = "new" /\ owner' = [owner EXCEPT ![r] = NoFile] /\ UNCHANGED <<by, file, expired>>
    BY <1>3 DEF SubmitOpen, Fresh
  <2>2. RequestsOf(f)' = RequestsOf(f) /\ Left(f)' = Left(f)
    BY <1>1, <2>1, Bounds DEF RequestsOf, Left
  <2> QED
    BY <2>1, <2>2, BarrierStutters
<1>4. ASSUME NEW r \in Reqs, NEW g \in Files, Submit(g, r)
      PROVE  Barrier(f)!Next \/ UNCHANGED Barrier(f)!barrierVars
  <2>1. /\ owner[r] = "new" /\ owner' = [owner EXCEPT ![r] = g] /\ by' = [by EXCEPT ![r] = g]
        /\ file[g] = "open" /\ UNCHANGED <<file, expired>>
    BY <1>4 DEF Submit, Fresh
  <2>2. by[r] = NoFile
    BY <2>1 DEF Inv, Made
  <2>3. CASE f = g
    <3>1. /\ r \notin RequestsOf(f) \union Left(f) /\ RequestsOf(f)' = RequestsOf(f) \union {r}
          /\ Left(f)' = Left(f)
      BY <1>1, <2>1, <2>2, <2>3, Bounds DEF RequestsOf, Left
    <3>2. Barrier(f)!Admit(r)
      BY <2>1, <2>3, <3>1 DEF Barrier!Admit, RequestsOf, Left
    <3> QED
      BY <3>2 DEF Barrier!Next
  <2>4. CASE f # g
    <3>1. RequestsOf(f)' = RequestsOf(f) /\ Left(f)' = Left(f)
      BY <1>1, <2>1, <2>2, <2>4, Bounds DEF RequestsOf, Left
    <3> QED
      BY <2>1, <3>1, BarrierStutters
  <2> QED
    BY <2>3, <2>4
<1>5. ASSUME NEW g \in Files, BeginClose(g)
      PROVE  Barrier(f)!Next \/ UNCHANGED Barrier(f)!barrierVars
  <2>1. file[g] = "open" /\ file' = [file EXCEPT ![g] = "closing"] /\ UNCHANGED <<owner, by, expired>>
    BY <1>5 DEF BeginClose
  <2>2. RequestsOf(f)' = RequestsOf(f) /\ Left(f)' = Left(f)
    BY <2>1 DEF RequestsOf, Left
  <2>3. CASE f = g
    <3>1. file[f] = "open" /\ file'[f] = "closing"
      BY <1>1, <2>1, <2>3
    <3>2. Barrier(f)!Shut
      BY <2>1, <2>2, <3>1 DEF Barrier!Shut, RequestsOf, Left
    <3> QED
      BY <3>2 DEF Barrier!Next
  <2>4. CASE f # g
    <3>1. file'[f] = file[f]
      BY <1>1, <2>1, <2>4
    <3> QED
      BY <2>1, <2>2, <3>1, BarrierStutters
  <2> QED
    BY <2>3, <2>4
<1>6. ASSUME NEW g \in Files, Expire(g)
      PROVE  Barrier(f)!Next \/ UNCHANGED Barrier(f)!barrierVars
  <2>1. file[g] = "closing" /\ expired' = expired \union {g} /\ UNCHANGED <<owner, by, file>>
    BY <1>1, <1>6 DEF Expire, Batches
  <2>2. RequestsOf(f)' = RequestsOf(f) /\ Left(f)' = Left(f)
    BY <2>1 DEF RequestsOf, Left
  <2>3. CASE f = g
    <3>1. Barrier(f)!Expire
      BY <2>1, <2>2, <2>3 DEF Barrier!Expire, RequestsOf, Left
    <3> QED
      BY <3>1 DEF Barrier!Next
  <2>4. CASE f # g
    BY <2>1, <2>2, <2>4, BarrierStutters
  <2> QED
    BY <2>3, <2>4
<1>7. ASSUME NEW g \in Files, EndClose(g)
      PROVE  Barrier(f)!Next \/ UNCHANGED Barrier(f)!barrierVars
  <2>1. /\ file[g] = "closing" /\ file' = [file EXCEPT ![g] = "closed"]
        /\ pending[g] <= 0 \/ g \in expired
        /\ UNCHANGED <<owner, by, expired>>
    BY <1>1, <1>7 DEF EndClose, Batches
  <2>2. RequestsOf(f)' = RequestsOf(f) /\ Left(f)' = Left(f)
    BY <2>1 DEF RequestsOf, Left
  <2>3. CASE f = g
    <3>1. file[f] = "closing" /\ file'[f] = "closed"
      BY <1>1, <2>1, <2>3
    <3>2. RequestsOf(f) = {} \/ f \in expired
      <4>1. pending[f] = Cardinality(RequestsOf(f))
        BY <1>1 DEF PendingIsExact, RequestsOf
      <4>2. Cardinality(RequestsOf(f)) = 0 => RequestsOf(f) = {}
        BY RequestsFinite, FS_EmptySet
      <4> QED
        BY <2>1, <2>3, <4>1, <4>2, RequestsFinite
    <3>3. Barrier(f)!Release
      BY <2>1, <2>2, <3>1, <3>2 DEF Barrier!Release, RequestsOf, Left
    <3> QED
      BY <3>3 DEF Barrier!Next
  <2>4. CASE f # g
    <3>1. file'[f] = file[f]
      BY <1>1, <2>1, <2>4
    <3> QED
      BY <2>1, <2>2, <3>1, BarrierStutters
  <2> QED
    BY <2>3, <2>4
<1>8. ASSUME NEW q \in Seq(Reqs), q # <<>>, q \in {lbatch, rbatch}
      PROVE  Head(q) \in Reqs /\ PlacesOf(Head(q)) # 0
  <2>1. Head(q) \in Reqs /\ Head(q) \in ToSet(q)
    BY <1>8, Shifted
  <2> QED
    BY <1>8, <2>1 DEF PlacesOf, In
<1>9. CASE DeliverInline
  <2>1. lbatch # <<>> /\ lbatch \in Seq(Reqs)
    BY <1>1, <1>9 DEF TypeOK, Batches, DeliverInline
  <2>2. Finish(Head(lbatch)) /\ UNCHANGED <<by, file, expired>>
    BY <1>9 DEF DeliverInline
  <2> QED
    BY <1>8, <2>1, <2>2, FinishLeaves
<1>10. CASE Deliver
  <2>1. CASE rbatch = <<>>
    BY <1>2, <1>10, <2>1 DEF Deliver
  <2>2. CASE rbatch # <<>>
    <3>1. rbatch \in Seq(Reqs)
      BY <1>1 DEF TypeOK
    <3>2. Finish(Head(rbatch)) /\ UNCHANGED <<by, file, expired>>
      BY <1>10, <2>2 DEF Deliver
    <3> QED
      BY <1>8, <2>2, <3>1, <3>2, FinishLeaves
  <2> QED
    BY <2>1, <2>2
<1>11. CASE \/ SqThread
            \/ \E e \in Entries : Complete(e)
            \/ TryHarvestInline
            \/ StopReaper \/ TestStop \/ WaitCqe \/ ReaperFails \/ ReapAll \/ DrainOne \/ DrainSubmit
            \/ DrainEnds \/ Rearm
            \/ UNCHANGED vars
  <2>1. UNCHANGED <<file, owner, by, expired>>
    BY <1>11 DEF SqThread, Complete, TryHarvestInline, StopReaper,
                 TestStop, WaitCqe, ReaperFails, ReapAll, DrainOne, DrainSubmit, DrainEnds, Rearm, vars
  <2> QED
    BY <1>2, <2>1
<1> QED
  BY <1>3, <1>4, <1>5, <1>6, <1>7, <1>9, <1>10, <1>11 DEF Next, LoopStep, ReaperStep

\* Each file is open and without requests at first.
LEMMA BarrierInit == ASSUME Init, NEW f \in Files PROVE Barrier(f)!Init
<1>1. RequestsOf(f) = {} /\ Left(f) = {} /\ f \notin expired /\ file[f] = "open"
  BY Bounds DEF Init, RequestsOf, Left
<1> QED
  BY <1>1 DEF Barrier!Init, RequestsOf, Left

\* Whatever the other files of the instance do, a file admits requests while
\* it is open, each of them leaves once, and close() lets the instance and the
\* descriptor go only when all of them have left or the close timeout has
\* passed (io_uring_backend.cpp:319-337).
THEOREM FilesKeepTheBarrier == Spec => FilesImplementBarrier
<1>1. Init => \A f \in Files : Barrier(f)!Init
  BY BarrierInit
<1>2. Inv /\ [Next]_vars
        => [\A f \in Files : Barrier(f)!Next \/ UNCHANGED Barrier(f)!barrierVars]_vars
  BY BarrierStep
<1> QED
  BY <1>1, <1>2, InvInit, InvStep, PTL DEF Spec, FilesImplementBarrier
=============================================================================
