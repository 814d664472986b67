---------------------------- MODULE BuffersProofs ----------------------------
(***************************************************************************)
(* The invariants of Buffers for every number of threads, requests, blocks *)
(* and sizes.  The argument has three layers: what appending to and taking *)
(* from a list without duplicates does to its range, what the calls of the *)
(* pool promise about a well-formed store, and one step per action.        *)
(***************************************************************************)
EXTENDS Buffers, FiniteSetTheorems, SequenceTheorems, TLAPS

\* Lists without duplicates.

\* A list without duplicates, as the caches, buckets and free lists are.
List(S) == {s \in Seq(S) : IsInjective(s)}

\* Set A is B without its element x, or with x, which B does not have.
Less(A, B, x) == x \in B /\ A = B \ {x}
More(A, B, x) == x \notin B /\ A = B \cup {x}

\* Appending an element the list does not hold.
LEMMA AppendList ==
  ASSUME NEW S, NEW s \in List(S), NEW x \in S, x \notin Range(s)
  PROVE  Append(s, x) \in List(S) /\ More(Range(Append(s, x)), Range(s), x)
<1>1. s \in Seq(S) /\ IsInjective(s)
  BY DEF List
<1>2. /\ Append(s, x) \in Seq(S) /\ Len(Append(s, x)) = Len(s) + 1 /\ Len(s) \in Nat
      /\ \A i \in 1..Len(s) : Append(s, x)[i] = s[i]
      /\ Append(s, x)[Len(s) + 1] = x
      /\ DOMAIN s = 1..Len(s) /\ DOMAIN Append(s, x) = 1..(Len(s) + 1)
  BY <1>1, AppendProperties, LenProperties
<1>3. \A i \in 1..Len(s) : s[i] # x
  BY <1>2 DEF Range
<1>4. IsInjective(Append(s, x))
  BY <1>1, <1>2, <1>3 DEF IsInjective
<1>5. Range(Append(s, x)) = Range(s) \cup {x}
  <2>1. ASSUME NEW y \in Range(s) PROVE y \in Range(Append(s, x))
    BY <1>2 DEF Range
  <2>2. x \in Range(Append(s, x))
    BY <1>2 DEF Range
  <2>3. ASSUME NEW y \in Range(Append(s, x)) PROVE y \in Range(s) \cup {x}
    <3>1. PICK i \in 1..(Len(s) + 1) : y = Append(s, x)[i]
      BY <1>2 DEF Range
    <3>2. i \in 1..Len(s) \/ i = Len(s) + 1
      BY <1>2
    <3> QED
      BY <1>2, <3>1, <3>2 DEF Range
  <2> QED
    BY <2>1, <2>2, <2>3
<1> QED
  BY <1>2, <1>4, <1>5 DEF List, More

\* Taking out the entry at i.
LEMMA RemoveList ==
  ASSUME NEW S, NEW s \in List(S), NEW i \in DOMAIN s
  PROVE  RemoveAt(s, i) \in List(S) /\ Less(Range(RemoveAt(s, i)), Range(s), s[i]) /\ s[i] \in S
<1> DEFINE r == RemoveAt(s, i)
<1>1. s \in Seq(S) /\ IsInjective(s) /\ Len(s) \in Nat /\ DOMAIN s = 1..Len(s)
  BY LenProperties DEF List
<1>2. /\ i \in 1..Len(s) /\ Len(s) >= 1
      /\ \A j \in 1..Len(s) : s[j] \in S
  BY <1>1, ElementOfSeq
<1> DEFINE a == SubSeq(s, 1, i - 1)
           b == SubSeq(s, i + 1, Len(s))
<1>3. a \in Seq(S) /\ Len(a) = i - 1 /\ \A j \in 1..(i - 1) : a[j] = s[j]
  BY <1>1, <1>2, SubSeqProperties
<1>4. b \in Seq(S) /\ Len(b) = Len(s) - i /\ \A j \in 1..(Len(s) - i) : b[j] = s[i + j]
  BY <1>1, <1>2, SubSeqProperties
<1>5. r = a \o b
  BY DEF RemoveAt
<1> HIDE DEF a, b, r
<1>6. r \in Seq(S) /\ Len(r) = Len(s) - 1
  <2>1. r \in Seq(S) /\ Len(r) = Len(a) + Len(b)
    BY <1>3, <1>4, <1>5, ConcatProperties
  <2> QED
    BY <1>1, <1>2, <1>3, <1>4, <2>1
<1>7. \A j \in 1..(Len(s) - 1) : r[j] = IF j < i THEN s[j] ELSE s[j + 1]
  <2> TAKE j \in 1..(Len(s) - 1)
  <2>1. r[j] = IF j <= Len(a) THEN a[j] ELSE b[j - Len(a)]
    BY <1>1, <1>2, <1>3, <1>4, <1>5, ConcatProperties
  <2>2. CASE j < i
    BY <1>1, <1>2, <1>3, <2>1, <2>2
  <2>3. CASE j >= i
    <3>1. r[j] = b[j - (i - 1)] /\ j - (i - 1) \in 1..(Len(s) - i)
      BY <1>1, <1>2, <1>3, <2>1, <2>3
    <3>2. b[j - (i - 1)] = s[i + (j - (i - 1))] /\ i + (j - (i - 1)) = j + 1
      BY <1>1, <1>2, <1>4, <3>1
    <3> QED
      BY <3>1, <3>2, <2>3
  <2> QED
    BY <1>1, <1>2, <2>2, <2>3
<1>8. DOMAIN r = 1..(Len(s) - 1)
  BY <1>6, LenProperties
<1>9. IsInjective(r)
  BY <1>1, <1>2, <1>7, <1>8 DEF IsInjective
<1>10. Range(r) = Range(s) \ {s[i]}
  <2>1. ASSUME NEW y \in Range(r) PROVE y \in Range(s) \ {s[i]}
    <3>1. PICK j \in 1..(Len(s) - 1) : y = r[j]
      BY <1>8 DEF Range
    <3>2. PICK k \in 1..Len(s) : y = s[k] /\ k # i
      BY <1>1, <1>2, <1>7, <3>1
    <3> QED
      BY <1>1, <1>2, <3>2 DEF Range, IsInjective
  <2>2. ASSUME NEW y \in Range(s), y # s[i] PROVE y \in Range(r)
    <3>1. PICK k \in 1..Len(s) : y = s[k] /\ k # i
      BY <1>1, <2>2 DEF Range
    <3>2. CASE k < i
      BY <1>1, <1>2, <1>7, <1>8, <3>1, <3>2 DEF Range
    <3>3. CASE k > i
      <4>1. k - 1 \in 1..(Len(s) - 1) /\ r[k - 1] = s[k]
        BY <1>1, <1>2, <1>7, <3>1, <3>3
      <4> QED
        BY <1>8, <3>1, <4>1 DEF Range
    <3> QED
      BY <1>1, <1>2, <3>1, <3>2, <3>3
  <2> QED
    BY <2>1, <2>2
<1> QED
  BY <1>1, <1>2, <1>6, <1>9, <1>10 DEF List, r, Range, Less

\* Taking out the last entry.
LEMMA FrontList ==
  ASSUME NEW S, NEW s \in List(S), s # <<>>
  PROVE  Front(s) \in List(S) /\ Less(Range(Front(s)), Range(s), Last(s)) /\ Last(s) \in S
<1>1. s \in Seq(S) /\ Len(s) \in Nat \ {0} /\ DOMAIN s = 1..Len(s)
  BY LenProperties, EmptySeq DEF List
<1>2. SubSeq(s, Len(s) + 1, Len(s)) = <<>>
  BY <1>1, SubSeqEmpty
<1>3. SubSeq(s, 1, Len(s) - 1) \in Seq(S)
  BY <1>1, SubSeqProperties, ElementOfSeq
<1>4. RemoveAt(s, Len(s)) = Front(s)
  BY <1>2, <1>3, ConcatEmptySeq DEF RemoveAt, Front
<1> QED
  BY <1>1, <1>4, RemoveList DEF Last

\* The empty list.
LEMMA EmptyList ==
  ASSUME NEW S
  PROVE  <<>> \in List(S) /\ Range(<<>>) = {} /\ Len(<<>>) = 0
BY EmptySeq DEF List, IsInjective, Range

------------------------------------------------------------------------------
\* Families of lists that share no element.

Lists(I, S) == {F \in [I -> List(S)] :
                  \A i, j \in I : i # j => Range(F[i]) \cap Range(F[j]) = {}}
Content(I, F) == UNION {Range(F[i]) : i \in I}

\* One list loses one element.
LEMMA TakeFrom ==
  ASSUME NEW I, NEW S, NEW F \in Lists(I, S), NEW k \in I, NEW s \in List(S), NEW x,
         Less(Range(s), Range(F[k]), x), NEW G, G = [F EXCEPT ![k] = s]
  PROVE  /\ G \in Lists(I, S)
         /\ Less(Content(I, G), Content(I, F), x)
<1>1. /\ F \in [I -> List(S)] /\ G \in [I -> List(S)] /\ G[k] = s
      /\ \A i \in I \ {k} : G[i] = F[i]
      /\ \A i, j \in I : i # j => Range(F[i]) \cap Range(F[j]) = {}
  BY DEF Lists, Less
<1>2. \A i \in I : Range(G[i]) = Range(F[i]) \ {x}
  BY <1>1 DEF Less
<1>3. \A i, j \in I : i # j => Range(G[i]) \cap Range(G[j]) = {}
  BY <1>1, <1>2 DEF More, Less
<1>4. Content(I, G) = Content(I, F) \ {x}
  BY <1>2 DEF Content
<1> QED
  BY <1>1, <1>3, <1>4 DEF Lists, Content, Less

\* One list gains an element none of them has.
LEMMA AddTo ==
  ASSUME NEW I, NEW S, NEW F \in Lists(I, S), NEW k \in I, NEW s \in List(S), NEW x,
         More(Range(s), Range(F[k]), x), x \notin Content(I, F), NEW G, G = [F EXCEPT ![k] = s]
  PROVE  /\ G \in Lists(I, S)
         /\ More(Content(I, G), Content(I, F), x)
<1>1. /\ F \in [I -> List(S)] /\ G \in [I -> List(S)] /\ G[k] = s
      /\ \A i \in I \ {k} : G[i] = F[i]
      /\ \A i, j \in I : i # j => Range(F[i]) \cap Range(F[j]) = {}
      /\ \A i \in I : x \notin Range(F[i])
  BY DEF Lists, Content, More
<1>2. \A i \in I \ {k} : Range(G[i]) = Range(F[i])
  BY <1>1
<1>3. \A i, j \in I : i # j => Range(G[i]) \cap Range(G[j]) = {}
  BY <1>1, <1>2 DEF More, Less
<1>4. Content(I, G) = Content(I, F) \cup {x}
  BY <1>1, <1>2 DEF Content, More
<1> QED
  BY <1>1, <1>3, <1>4 DEF Lists, More

\* Set A is what B has and R has not.
Without(A, B, R) == A = B \ R

\* One list is emptied.
LEMMA Emptied ==
  ASSUME NEW I, NEW S, NEW F \in Lists(I, S), NEW k \in I,
         NEW G, G = [F EXCEPT ![k] = <<>>]
  PROVE  /\ G \in Lists(I, S)
         /\ Without(Content(I, G), Content(I, F), Range(F[k]))
<1>1. /\ F \in [I -> List(S)] /\ G \in [I -> List(S)] /\ Range(G[k]) = {}
      /\ \A i \in I \ {k} : G[i] = F[i]
      /\ \A i, j \in I : i # j => Range(F[i]) \cap Range(F[j]) = {}
  BY EmptyList DEF Lists
<1>2. \A i \in I : Range(G[i]) = Range(F[i]) \ Range(F[k])
  BY <1>1
<1>3. \A i, j \in I : i # j => Range(G[i]) \cap Range(G[j]) = {}
  BY <1>1, <1>2
<1>4. Content(I, G) = Content(I, F) \ Range(F[k])
  BY <1>2 DEF Content
<1> QED
  BY <1>1, <1>3, <1>4 DEF Lists, Without

------------------------------------------------------------------------------
\* The calls of the pool.

\* The part of the invariant that is about the store alone.
WellFormed(st) ==
  /\ st \in Stores
  /\ Sorted(st)
  /\ \A b \in Cached(st) : st.size[b] \in Classes
  /\ st.total = Cardinality(Pooled(st))

\* The same in terms of families of lists.
Stocked(st) ==
  /\ st \in Stores
  /\ st.cache \in Lists(Threads, Blocks) /\ st.pools \in Lists(Classes, Blocks)
  /\ \A c \in Classes : \A b \in Range(st.pools[c]) : st.size[b] = c
  /\ Content(Threads, st.cache) \cap Content(Classes, st.pools) = {}
  /\ \A b \in Content(Threads, st.cache) : st.size[b] \in Classes
  /\ st.total = Cardinality(Content(Classes, st.pools))

\* Both say the same.
LEMMA WellFormedLists == ASSUME NEW st PROVE WellFormed(st) <=> Stocked(st)
<1> USE DEF WellFormed, Stocked, Sorted, Cached, Pooled, Content
<1>1. ASSUME WellFormed(st) PROVE Stocked(st)
  <2>1. st.cache \in [Threads -> List(Blocks)] /\ st.pools \in [Classes -> List(Blocks)]
    BY <1>1 DEF Stores, List
  <2>2. ASSUME NEW c \in Classes, NEW d \in Classes, c # d
        PROVE  Range(st.pools[c]) \cap Range(st.pools[d]) = {}
    BY <1>1, <2>2
  <2> QED
    BY <1>1, <2>1, <2>2 DEF Lists
<1>2. ASSUME Stocked(st) PROVE WellFormed(st)
  BY <1>2 DEF Lists, List
<1> QED
  BY <1>1, <1>2

\* What is kept is allocated, and there is finitely much of it.
LEMMA KeptIsAllocated ==
  ASSUME NEW st, Stocked(st)
  PROVE  /\ Classes \subseteq Nat \ {0}
         /\ Kept(st) = Content(Threads, st.cache) \cup Content(Classes, st.pools)
         /\ Kept(st) \subseteq Blocks
         /\ \A b \in Kept(st) : st.size[b] \in Classes /\ st.size[b] > 0
         /\ IsFiniteSet(Content(Classes, st.pools))
<1>1. Classes \subseteq Nat \ {0}
  BY SizesAreNaturals DEF Classes
<1>2. Kept(st) = Content(Threads, st.cache) \cup Content(Classes, st.pools)
  BY DEF Kept, Cached, Pooled, Content
<1>3. Content(Threads, st.cache) \subseteq Blocks /\ Content(Classes, st.pools) \subseteq Blocks
  <2>1. \A s \in List(Blocks) : Range(s) \subseteq Blocks
    BY RangeOfSeq, LenProperties, ElementOfSeq DEF List, Range
  <2> QED
    BY <2>1 DEF Stocked, Lists, Content
<1>4. \A b \in Kept(st) : st.size[b] \in Classes
  BY <1>2 DEF Stocked, Content
<1>5. IsFiniteSet(Content(Classes, st.pools))
  BY <1>3, MemoryIsFinite, FS_Subset
<1>6. \A c \in Classes : c \in Nat /\ c > 0
  BY <1>1
<1>7. \A b \in Kept(st) : st.size[b] > 0
  BY <1>4, <1>6
<1>8. Kept(st) \subseteq Blocks
  BY <1>2, <1>3
<1> QED
  BY <1>1, <1>2, <1>4, <1>5, <1>7, <1>8

\* What a caller gets: a block that was kept or not allocated, and a store
\* that has let go of it.
Taken(st, a, n) ==
  LET b == a.buffer.block IN
    /\ Stocked(a.store)
    /\ a.buffer \in Buffers /\ b \in Blocks /\ a.buffer.asked = n
    /\ b \in Kept(st) \/ st.size[b] = 0
    /\ Kept(a.store) = Kept(st) \ {b}
    /\ \A x \in Blocks \ {b} : a.store.size[x] = st.size[x]
    /\ a.store.size[b] >= n /\ a.store.size[b] > 0
    /\ a.buffer.pooled => a.store.size[b] \in Classes

\* New memory of the pool or of the heap.
LEMMA AllocatedIsTaken ==
  ASSUME NEW st, Stocked(st), NEW n \in Nat, NEW bytes \in Nat, bytes >= n, bytes > 0,
         NEW pooled \in BOOLEAN, pooled => bytes \in Classes,
         NEW a \in Allocated(st, n, bytes, pooled)
  PROVE  Taken(st, a, n)
<1>1. PICK b \in Blocks :
        /\ st.size[b] = 0
        /\ a = [store |-> [st EXCEPT !.size[b] = bytes],
                buffer |-> [block |-> b, pooled |-> pooled, asked |-> n]]
  BY DEF Allocated, Unallocated
<1> DEFINE u == [st EXCEPT !.size[b] = bytes]
<1>2. a.store = u /\ a.buffer = [block |-> b, pooled |-> pooled, asked |-> n]
  BY <1>1
<1>3. /\ u \in Stores /\ u.cache = st.cache /\ u.pools = st.pools /\ u.total = st.total
      /\ u.size[b] = bytes /\ \A x \in Blocks \ {b} : u.size[x] = st.size[x]
  BY DEF Stocked, Stores
<1> HIDE DEF u
<1>4. b \notin Kept(st)
  BY <1>1, KeptIsAllocated
<1>5. Kept(u) = Kept(st)
  BY <1>3 DEF Kept, Cached, Pooled
<1>6. Stocked(u)
  <2>1. \A x \in Kept(st) : u.size[x] = st.size[x]
    BY <1>3, <1>4, KeptIsAllocated
  <2>2. \A c \in Classes : \A x \in Range(st.pools[c]) : u.size[x] = c
    BY <2>1 DEF Stocked, Kept, Pooled
  <2>3. \A x \in Content(Threads, st.cache) : u.size[x] \in Classes
    BY <2>1, KeptIsAllocated DEF Stocked
  <2> QED
    BY <1>3, <2>2, <2>3 DEF Stocked
<1>7. [block |-> b, pooled |-> pooled, asked |-> n] \in Buffers
  BY DEF Buffers
<1> QED
  BY <1>1, <1>2, <1>3, <1>4, <1>5, <1>6, <1>7 DEF Taken

\* The first entry of the thread's cache that is large enough.
LEMMA FromCacheIsTaken ==
  ASSUME NEW st, Stocked(st), NEW t \in Threads, NEW n \in Nat, NEW a \in FromCache(st, t, n)
  PROVE  Taken(st, a, n)
<1>1. PICK i \in DOMAIN st.cache[t] :
        /\ st.size[st.cache[t][i]] >= n
        /\ a = [store |-> [st EXCEPT !.cache[t] = RemoveAt(@, i)],
                buffer |-> [block |-> st.cache[t][i], pooled |-> TRUE, asked |-> n]]
  BY DEF FromCache, FirstFit
<1> DEFINE b == st.cache[t][i]
           s == RemoveAt(st.cache[t], i)
           u == [st EXCEPT !.cache[t] = s]
<1>2. a.store = u /\ a.buffer = [block |-> b, pooled |-> TRUE, asked |-> n]
  BY <1>1
<1>3. st.cache[t] \in List(Blocks)
  BY DEF Stocked, Lists
<1>4. s \in List(Blocks) /\ Less(Range(s), Range(st.cache[t]), b) /\ b \in Blocks
  BY <1>3, RemoveList
<1> HIDE DEF b, s
<1>5. /\ u.size = st.size /\ u.keys = st.keys /\ u.pools = st.pools /\ u.total = st.total
      /\ u.max = st.max /\ u.cache = [st.cache EXCEPT ![t] = s] /\ u \in Stores
  BY <1>4 DEF Stocked, Stores, List
<1>6. /\ u.cache \in Lists(Threads, Blocks)
      /\ Less(Content(Threads, u.cache), Content(Threads, st.cache), b)
  <2>1. st.cache \in Lists(Threads, Blocks) /\ u.cache = [st.cache EXCEPT ![t] = s]
    BY <1>5 DEF Stocked
  <2> HIDE DEF u
  <2> QED
    BY <1>4, <2>1, TakeFrom
<1> HIDE DEF u
<1>7. Stocked(u)
  BY <1>5, <1>6 DEF Stocked, Less
<1>8. Kept(u) = Kept(st) \ {b} /\ b \in Kept(st)
  <2>1. b \notin Content(Classes, st.pools)
    BY <1>6 DEF Stocked, Less
  <2> QED
    BY <1>5, <1>6, <1>7, <2>1, KeptIsAllocated DEF Less
<1>9. u.size[b] \in Classes /\ u.size[b] > 0 /\ u.size[b] >= n
  BY <1>1, <1>5, <1>8, KeptIsAllocated DEF b
<1>10. [block |-> b, pooled |-> TRUE, asked |-> n] \in Buffers
  BY <1>4 DEF Buffers
<1> QED
  BY <1>2, <1>4, <1>5, <1>7, <1>8, <1>9, <1>10 DEF Taken

\* The last entry of the first bucket whose size is large enough.
LEMMA FromPoolIsTaken ==
  ASSUME NEW st, Stocked(st), NEW n \in Nat, NEW a \in FromPool(st, n)
  PROVE  Taken(st, a, n)
<1>0. st.keys \subseteq Classes
  BY DEF Stocked, Stores
<1>1. PICK c \in Classes :
        /\ c >= n /\ st.pools[c] # <<>>
        /\ a = [store |-> [st EXCEPT !.pools[c] = Front(@), !.total = @ - 1],
                buffer |-> [block |-> Last(st.pools[c]), pooled |-> TRUE, asked |-> n]]
  BY <1>0 DEF FromPool, Filled, LowerBound
<1> DEFINE b == Last(st.pools[c])
           s == Front(st.pools[c])
           u == [st EXCEPT !.pools[c] = s, !.total = @ - 1]
<1>2. a.store = u /\ a.buffer = [block |-> b, pooled |-> TRUE, asked |-> n]
  BY <1>1
<1>3. st.pools[c] \in List(Blocks)
  BY DEF Stocked, Lists
<1>4. s \in List(Blocks) /\ Less(Range(s), Range(st.pools[c]), b) /\ b \in Blocks
  BY <1>1, <1>3, FrontList
<1> HIDE DEF b, s
<1>5. b \in Content(Classes, st.pools) /\ st.total \in Nat /\ st.total - 1 \in Nat
      /\ st.total - 1 = Cardinality(Content(Classes, st.pools) \ {b})
  <2>1. b \in Content(Classes, st.pools)
    BY <1>3, <1>4 DEF Content, Less
  <2>2. /\ Cardinality(Content(Classes, st.pools) \ {b})
             = Cardinality(Content(Classes, st.pools)) - 1
        /\ IsFiniteSet(Content(Classes, st.pools) \ {b})
    BY <2>1, KeptIsAllocated, FS_RemoveElement
  <2> QED
    BY <2>1, <2>2, FS_CardinalityType DEF Stocked, Stores
<1>6. /\ u.size = st.size /\ u.keys = st.keys /\ u.cache = st.cache /\ u.total = st.total - 1
      /\ u.max = st.max /\ u.pools = [st.pools EXCEPT ![c] = s] /\ u \in Stores
  BY <1>3, <1>4, <1>5 DEF Stocked, Stores, List
<1>7. /\ u.pools \in Lists(Classes, Blocks)
      /\ Less(Content(Classes, u.pools), Content(Classes, st.pools), b)
  <2>1. st.pools \in Lists(Classes, Blocks) /\ u.pools = [st.pools EXCEPT ![c] = s]
    BY <1>6 DEF Stocked
  <2> HIDE DEF u
  <2> QED
    BY <1>4, <2>1, TakeFrom
<1>8. \A d \in Classes : Range(u.pools[d]) \subseteq Range(st.pools[d])
  BY <1>3, <1>4, <1>6 DEF Stocked, Lists, Less
<1> HIDE DEF u
<1>9. Stocked(u)
  <2>1. \A d \in Classes : \A x \in Range(u.pools[d]) : u.size[x] = d
    BY <1>6, <1>8 DEF Stocked
  <2>2. Content(Threads, u.cache) \cap Content(Classes, u.pools) = {}
    BY <1>6, <1>7 DEF Stocked, Less
  <2> QED
    BY <1>5, <1>6, <1>7, <2>1, <2>2 DEF Stocked, Less
<1>10. Kept(u) = Kept(st) \ {b} /\ b \in Kept(st)
  <2>1. b \notin Content(Threads, st.cache)
    BY <1>5 DEF Stocked
  <2> QED
    BY <1>5, <1>6, <1>7, <1>9, <2>1, KeptIsAllocated DEF Less
<1>11. u.size[b] \in Classes /\ u.size[b] > 0 /\ u.size[b] >= n
  <2>1. st.size[b] = c
    BY <1>3, <1>4 DEF Stocked, Less
  <2> QED
    BY <1>1, <1>6, <1>10, <2>1, KeptIsAllocated
<1>12. [block |-> b, pooled |-> TRUE, asked |-> n] \in Buffers
  BY <1>4 DEF Buffers
<1> QED
  BY <1>2, <1>4, <1>6, <1>9, <1>10, <1>11, <1>12 DEF Taken

\* Buffer::pool() and Buffer::heap().
LEMMA ChosenIsTaken ==
  ASSUME NEW st, Stocked(st), NEW t \in Threads, NEW n \in Asked,
         NEW a \in Acquired(st, t, n) \cup (IF n > 0 THEN Heap(st, n) ELSE {})
  PROVE  Taken(st, a, n)
<1>1. n \in Nat /\ BufferSize \in Nat
  BY SizesAreNaturals
<1>2. ASSUME a \in FromCache(st, t, n) PROVE Taken(st, a, n)
  BY <1>1, <1>2, FromCacheIsTaken
<1>3. ASSUME a \in FromPool(st, n) PROVE Taken(st, a, n)
  BY <1>1, <1>3, FromPoolIsTaken
<1>4. ASSUME a \in Allocated(st, n, SizeClass(n), TRUE) PROVE Taken(st, a, n)
  <2>1. SizeClass(n) \in Classes /\ SizeClass(n) >= n
    <3>1. CASE n <= MinClass
      BY <1>1, <3>1, SizesAreNaturals DEF SizeClass, Classes
    <3>2. CASE ~(n <= MinClass)
      <4>1. \E c \in Powers : n <= c /\ c < 2 * n
        BY <3>2, EverySizeHasAClass
      <4>2. SizeClass(n) = CHOOSE c \in Powers : n <= c /\ c < 2 * n
        BY <3>2 DEF SizeClass
      <4>3. SizeClass(n) \in Powers /\ n <= SizeClass(n)
        BY <4>1, <4>2
      <4>4. SizeClass(n) \in Nat
        BY <4>3, SizesAreNaturals
      <4> QED
        BY <1>1, <4>3, <4>4 DEF Classes
    <3> QED
      BY <3>1, <3>2
  <2>2. SizeClass(n) \in Nat /\ SizeClass(n) > 0
    BY <2>1, KeptIsAllocated
  <2> QED
    BY <1>1, <1>4, <2>1, <2>2, AllocatedIsTaken
<1>5. ASSUME n > 0, a \in Heap(st, n) PROVE Taken(st, a, n)
  <2>1. n >= n
    BY <1>1
  <2>2. \A pooled \in BOOLEAN : ~pooled /\ a \in Allocated(st, n, n, pooled) => Taken(st, a, n)
    BY <1>1, <1>5, <2>1, AllocatedIsTaken
  <2> QED
    BY <1>5, <2>2, Zenon DEF Heap
<1> QED
  BY <1>2, <1>3, <1>4, <1>5 DEF Acquired

\* What reset() leaves: the block is kept, or it is not allocated any more.
Given(st, u, b) ==
  /\ Stocked(u)
  /\ \A x \in Blocks \ {b} : u.size[x] = st.size[x]
  /\ \/ u.size[b] = 0 /\ Kept(u) = Kept(st)
     \/ u.size[b] = st.size[b] /\ Kept(u) = Kept(st) \cup {b}

\* free() of a block no list holds.
LEMMA FreedIsGiven ==
  ASSUME NEW st, Stocked(st), NEW b \in Blocks, b \notin Kept(st)
  PROVE  Given(st, Freed(st, b), b)
<1> DEFINE u == Freed(st, b)
<1>1. /\ u \in Stores /\ u.cache = st.cache /\ u.pools = st.pools /\ u.total = st.total
      /\ u.size[b] = 0 /\ \A x \in Blocks \ {b} : u.size[x] = st.size[x]
  BY DEF Stocked, Stores, Freed
<1> HIDE DEF u
<1>2. Kept(u) = Kept(st)
  BY <1>1 DEF Kept, Cached, Pooled
<1>3. \A x \in Kept(st) : u.size[x] = st.size[x]
  BY <1>1, KeptIsAllocated
<1>4. \A c \in Classes : \A x \in Range(st.pools[c]) : u.size[x] = c
  BY <1>3 DEF Stocked, Kept, Pooled
<1>5. \A x \in Content(Threads, st.cache) : u.size[x] \in Classes
  BY <1>3, KeptIsAllocated DEF Stocked
<1>6. Stocked(u)
  BY <1>1, <1>4, <1>5 DEF Stocked
<1> QED
  BY <1>1, <1>2, <1>6 DEF Given, u

\* A block put into the bucket of its size.
LEMMA FiledIsGiven ==
  ASSUME NEW st, Stocked(st), NEW b \in Blocks, b \notin Kept(st), st.size[b] \in Classes
  PROVE  Given(st, Filed(st, b), b)
<1> DEFINE c == st.size[b]
           s == Append(st.pools[c], b)
           u == Filed(st, b)
<1>1. st.pools[c] \in List(Blocks) /\ c \in Classes
  BY DEF Stocked, Lists
<1>2. b \notin Range(st.pools[c]) /\ b \notin Content(Classes, st.pools)
      /\ b \notin Content(Threads, st.cache)
  BY <1>1, KeptIsAllocated DEF Content
<1>3. s \in List(Blocks) /\ More(Range(s), Range(st.pools[c]), b)
  BY <1>1, <1>2, AppendList
<1> HIDE DEF c, s
<1>4. /\ Cardinality(Content(Classes, st.pools) \cup {b})
             = Cardinality(Content(Classes, st.pools)) + 1
      /\ st.total \in Nat /\ st.total + 1 \in Nat
  <2>1. IsFiniteSet(Content(Classes, st.pools))
    BY KeptIsAllocated
  <2>2. Cardinality(Content(Classes, st.pools) \cup {b})
           = Cardinality(Content(Classes, st.pools)) + 1
    BY <1>2, <2>1, FS_AddElement
  <2>3. st.total \in Nat
    BY DEF Stocked, Stores
  <2> QED
    BY <2>2, <2>3
<1>5. /\ u.size = st.size /\ u.cache = st.cache /\ u.total = st.total + 1
      /\ u.pools = [st.pools EXCEPT ![c] = s] /\ u \in Stores
  BY <1>1, <1>3, <1>4 DEF Stocked, Stores, List, Filed, c, s
<1> HIDE DEF u
<1>6. /\ u.pools \in Lists(Classes, Blocks)
      /\ More(Content(Classes, u.pools), Content(Classes, st.pools), b)
  <2>1. st.pools \in Lists(Classes, Blocks)
    BY DEF Stocked
  <2> QED
    BY <1>1, <1>2, <1>3, <1>5, <2>1, AddTo
<1>7. \A d \in Classes : \A x \in Range(u.pools[d]) : u.size[x] = d
  <2>1. \A d \in Classes \ {c} : u.pools[d] = st.pools[d]
    BY <1>5 DEF Stocked, Lists
  <2>2. u.pools[c] = s
    BY <1>1, <1>5 DEF Stocked, Lists
  <2>3. \A x \in Range(s) : u.size[x] = c
    BY <1>1, <1>3, <1>5 DEF Stocked, More, c
  <2> QED
    BY <1>5, <2>1, <2>2, <2>3 DEF Stocked
<1>8. Stocked(u)
  <2>1. Content(Threads, u.cache) \cap Content(Classes, u.pools) = {}
    BY <1>2, <1>5, <1>6 DEF Stocked, More
  <2>2. u.total = Cardinality(Content(Classes, u.pools))
    BY <1>4, <1>5, <1>6 DEF Stocked, More
  <2> QED
    BY <1>5, <1>6, <1>7, <2>1, <2>2 DEF Stocked
<1>9. Kept(u) = Kept(st) \cup {b}
  BY <1>5, <1>6, <1>8, KeptIsAllocated DEF More
<1> QED
  BY <1>5, <1>8, <1>9 DEF Given, u

\* A block put into the cache of the thread.
LEMMA CachedIsGiven ==
  ASSUME NEW st, Stocked(st), NEW b \in Blocks, b \notin Kept(st), st.size[b] \in Classes,
         NEW t \in Threads
  PROVE  Given(st, [st EXCEPT !.cache[t] = Append(@, b)], b)
<1> DEFINE s == Append(st.cache[t], b)
           u == [st EXCEPT !.cache[t] = s]
<1>1. st.cache[t] \in List(Blocks)
  BY DEF Stocked, Lists
<1>2. b \notin Range(st.cache[t]) /\ b \notin Content(Classes, st.pools)
      /\ b \notin Content(Threads, st.cache)
  BY <1>1, KeptIsAllocated DEF Content
<1>3. s \in List(Blocks) /\ More(Range(s), Range(st.cache[t]), b)
  BY <1>1, <1>2, AppendList
<1> HIDE DEF s
<1>4. /\ u.size = st.size /\ u.pools = st.pools /\ u.total = st.total
      /\ u.cache = [st.cache EXCEPT ![t] = s] /\ u \in Stores
  BY <1>1, <1>3 DEF Stocked, Stores, List
<1> HIDE DEF u
<1>5. /\ u.cache \in Lists(Threads, Blocks)
      /\ More(Content(Threads, u.cache), Content(Threads, st.cache), b)
  <2>1. st.cache \in Lists(Threads, Blocks)
    BY DEF Stocked
  <2> QED
    BY <1>2, <1>3, <1>4, <2>1, AddTo
<1>6. Stocked(u)
  <2>1. Content(Threads, u.cache) \cap Content(Classes, u.pools) = {}
    BY <1>2, <1>4, <1>5 DEF Stocked, More
  <2>2. \A x \in Content(Threads, u.cache) : u.size[x] \in Classes
    BY <1>4, <1>5 DEF Stocked, More
  <2> QED
    BY <1>4, <1>5, <2>1, <2>2 DEF Stocked
<1>7. Kept(u) = Kept(st) \cup {b}
  BY <1>4, <1>5, <1>6, KeptIsAllocated DEF More
<1> QED
  BY <1>4, <1>6, <1>7 DEF Given, u, s

\* Buffer::reset() of a Buffer that owns a block.
LEMMA ResetIsGiven ==
  ASSUME NEW st, Stocked(st), NEW t \in Threads, NEW buf \in Buffers, buf.block # None,
         buf.block \notin Kept(st), buf.pooled => st.size[buf.block] \in Classes
  PROVE  Given(st, Reset(st, t, buf), buf.block)
<1>1. buf.block \in Blocks
  BY DEF Buffers
<1> QED
  BY <1>1, FreedIsGiven, FiledIsGiven, CachedIsGiven DEF Reset, Released, PoolReleased

------------------------------------------------------------------------------
\* The blocks and their owners.

\* Every block the code has allocated has one owner, and is large enough.
Owned ==
  /\ Stocked(store)
  /\ buffer \in [Holders -> Buffers] /\ lostBlocks \subseteq Blocks
  /\ \A h \in Holders : LET b == buffer[h].block IN b # None =>
       /\ b \notin Kept(store) /\ b \notin lostBlocks
       /\ store.size[b] > 0 /\ buffer[h].asked <= store.size[b]
       /\ buffer[h].pooled => store.size[b] \in Classes
  /\ \A h, k \in Holders : buffer[h].block = buffer[k].block => h = k \/ buffer[h].block = None
  /\ lostBlocks \cap Kept(store) = {}
  /\ \A b \in Blocks : store.size[b] > 0 <=>
       (\E h \in Holders : buffer[h].block = b) \/ b \in Kept(store) \/ b \in lostBlocks

\* Sizes are numbers.
LEMMA SizesAreNat ==
  ASSUME NEW st, Stocked(st), NEW b \in Blocks
  PROVE  st.size[b] \in Nat
BY DEF Stocked, Stores

\* A holder without a Buffer is given a block the pool let go of.
LEMMA TakeKeepsOwned ==
  ASSUME Owned, NEW n \in Nat, NEW a, Taken(store, a, n), NEW h \in Holders,
         buffer[h].block = None, store' = a.store,
         buffer' = [buffer EXCEPT ![h] = a.buffer], lostBlocks' = lostBlocks
  PROVE  Owned'
<1> DEFINE b == a.buffer.block
<1>1. /\ Stocked(store') /\ a.buffer \in Buffers /\ b \in Blocks /\ a.buffer.asked = n
      /\ b \in Kept(store) \/ store.size[b] = 0
      /\ Kept(store') = Kept(store) \ {b}
      /\ \A x \in Blocks \ {b} : store'.size[x] = store.size[x]
      /\ store'.size[b] >= n /\ store'.size[b] > 0
      /\ a.buffer.pooled => store'.size[b] \in Classes
  BY DEF Taken
<1>2. /\ buffer' \in [Holders -> Buffers] /\ buffer'[h] = a.buffer /\ buffer'[h].block = b
      /\ \A k \in Holders \ {h} : buffer'[k] = buffer[k]
  BY <1>1 DEF Owned
<1>3. /\ Stocked(store) /\ Kept(store) \subseteq Blocks /\ None \notin Blocks
      /\ \A x \in Blocks : store.size[x] \in Nat
      /\ \A k \in Holders : buffer[k].block \in Blocks \cup {None}
  BY KeptIsAllocated, HoldersDiffer, SizesAreNat DEF Owned, Buffers
<1> HIDE DEF b
<1>4. \A k \in Holders : buffer[k].block # b
  BY <1>1, <1>3 DEF Owned
<1>5. b \notin lostBlocks
  <2>1. CASE b \in Kept(store)
    BY <2>1 DEF Owned
  <2>2. CASE store.size[b] = 0
    BY <1>1, <2>2 DEF Owned
  <2> QED
    BY <1>1, <2>1, <2>2
<1>6. ASSUME NEW k \in Holders, buffer'[k].block # None
      PROVE  /\ buffer'[k].block \notin Kept(store') /\ buffer'[k].block \notin lostBlocks'
             /\ store'.size[buffer'[k].block] > 0
             /\ buffer'[k].asked <= store'.size[buffer'[k].block]
             /\ buffer'[k].pooled => store'.size[buffer'[k].block] \in Classes
  <2>1. CASE k = h
    <3>1. store'.size[b] \in Nat
      BY <1>1, SizesAreNat
    <3> QED
      BY <1>1, <1>2, <1>5, <2>1, <3>1
  <2>2. CASE k # h
    <3>1. buffer'[k] = buffer[k] /\ buffer[k].block \in Blocks \ {b}
      BY <1>2, <1>3, <1>4, <1>6, <2>2
    <3> QED
      BY <1>1, <1>6, <3>1 DEF Owned
  <2> QED
    BY <2>1, <2>2
<1>7. ASSUME NEW k \in Holders, NEW l \in Holders, buffer'[k].block = buffer'[l].block
      PROVE  k = l \/ buffer'[k].block = None
  BY <1>2, <1>4, <1>7 DEF Owned
<1>8. ASSUME NEW x \in Blocks
      PROVE  store'.size[x] > 0 <=>
               (\E k \in Holders : buffer'[k].block = x) \/ x \in Kept(store') \/ x \in lostBlocks'
  <2>1. CASE x = b
    BY <1>1, <1>2, <2>1
  <2>2. CASE x # b
    <3>1. store'.size[x] = store.size[x] /\ (x \in Kept(store') <=> x \in Kept(store))
      BY <1>1, <2>2
    <3>2. (\E k \in Holders : buffer'[k].block = x) <=> (\E k \in Holders : buffer[k].block = x)
      BY <1>2, <1>3, <2>2, <1>8
    <3> QED
      BY <3>1, <3>2 DEF Owned
  <2> QED
    BY <2>1, <2>2
<1>9. lostBlocks' \cap Kept(store') = {} /\ lostBlocks' \subseteq Blocks
  BY <1>1 DEF Owned
<1> QED
  BY <1>1, <1>2, <1>6, <1>7, <1>8, <1>9 DEF Owned

\* A holder's Buffer is destroyed.
LEMMA ResetKeepsOwned ==
  ASSUME Owned, NEW t \in Threads, NEW h \in Holders,
         store' = Reset(store, t, buffer[h]),
         buffer' = [buffer EXCEPT ![h] = NoBuffer], lostBlocks' = lostBlocks
  PROVE  Owned'
<1> DEFINE b == buffer[h].block
<1>1. /\ buffer' \in [Holders -> Buffers] /\ buffer'[h] = NoBuffer /\ buffer'[h].block = None
      /\ \A k \in Holders \ {h} : buffer'[k] = buffer[k]
  BY DEF Owned, Buffers, NoBuffer
<1>2. /\ Stocked(store) /\ Kept(store) \subseteq Blocks /\ None \notin Blocks
      /\ \A x \in Blocks : store.size[x] \in Nat
      /\ \A k \in Holders : buffer[k].block \in Blocks \cup {None}
  BY KeptIsAllocated, HoldersDiffer, SizesAreNat DEF Owned, Buffers
<1>3. CASE b = None
  <2>1. store' = store
    BY <1>3 DEF Reset
  <2>2. \A k \in Holders : buffer'[k].block = buffer[k].block
    BY <1>1, <1>3
  <2>3. \A k \in Holders : buffer'[k].block # None => buffer'[k] = buffer[k]
    BY <1>1
  <2> QED
    BY <1>1, <2>1, <2>2, <2>3 DEF Owned
<1>4. CASE b # None
  <2>1. Given(store, store', b) /\ b \in Blocks
    BY <1>2, <1>4, ResetIsGiven DEF Owned
  <2>2. /\ Stocked(store')
        /\ \A x \in Blocks \ {b} : store'.size[x] = store.size[x]
        /\ \/ store'.size[b] = 0 /\ Kept(store') = Kept(store)
           \/ store'.size[b] = store.size[b] /\ Kept(store') = Kept(store) \cup {b}
    BY <2>1 DEF Given
  <2>3. b \notin lostBlocks /\ store.size[b] > 0 /\ b \notin Kept(store)
    BY <1>4 DEF Owned
  <2>4. \A k \in Holders \ {h} : buffer[k].block # b
    BY <1>4 DEF Owned
  <2> HIDE DEF b
  <2>5. ASSUME NEW k \in Holders, buffer'[k].block # None
        PROVE  /\ buffer'[k].block \notin Kept(store') /\ buffer'[k].block \notin lostBlocks'
               /\ store'.size[buffer'[k].block] > 0
               /\ buffer'[k].asked <= store'.size[buffer'[k].block]
               /\ buffer'[k].pooled => store'.size[buffer'[k].block] \in Classes
    <3>1. k # h /\ buffer'[k] = buffer[k] /\ buffer[k].block \in Blocks \ {b}
      BY <1>1, <1>2, <2>4, <2>5
    <3> QED
      BY <2>2, <2>5, <3>1 DEF Owned
  <2>6. ASSUME NEW k \in Holders, NEW l \in Holders, buffer'[k].block = buffer'[l].block
        PROVE  k = l \/ buffer'[k].block = None
    BY <1>1, <2>6 DEF Owned
  <2>7. ASSUME NEW x \in Blocks
        PROVE  store'.size[x] > 0 <=>
                 (\E k \in Holders : buffer'[k].block = x) \/ x \in Kept(store') \/ x \in lostBlocks'
    <3>1. CASE x = b
      <4>1. ~\E k \in Holders : buffer'[k].block = b
        BY <1>1, <1>2, <2>1, <2>4
      <4> QED
        BY <2>2, <2>3, <3>1, <4>1
    <3>2. CASE x # b
      <4>1. store'.size[x] = store.size[x] /\ (x \in Kept(store') <=> x \in Kept(store))
        BY <2>2, <3>2
      <4>2. (\E k \in Holders : buffer'[k].block = x) <=> (\E k \in Holders : buffer[k].block = x)
        BY <1>1, <1>2, <2>7, <3>2 DEF b
      <4> QED
        BY <4>1, <4>2 DEF Owned
    <3> QED
      BY <3>1, <3>2
  <2>8. lostBlocks' \cap Kept(store') = {} /\ lostBlocks' \subseteq Blocks
    BY <2>2, <2>3 DEF Owned
  <2> QED
    BY <1>1, <2>2, <2>5, <2>6, <2>7, <2>8 DEF Owned
<1> QED
  BY <1>3, <1>4

\* A Buffer is taken and destroyed by the same call.
LEMMA TakeResetKeepsOwned ==
  ASSUME Owned, NEW t \in Threads, NEW n \in Nat, NEW a, Taken(store, a, n),
         store' = Reset(a.store, t, a.buffer), buffer' = buffer, lostBlocks' = lostBlocks
  PROVE  Owned'
<1> DEFINE b == a.buffer.block
<1>1. /\ Stocked(a.store) /\ a.buffer \in Buffers /\ b \in Blocks
      /\ b \in Kept(store) \/ store.size[b] = 0
      /\ Kept(a.store) = Kept(store) \ {b}
      /\ \A x \in Blocks \ {b} : a.store.size[x] = store.size[x]
      /\ a.store.size[b] > 0
      /\ a.buffer.pooled => a.store.size[b] \in Classes
  BY DEF Taken
<1>2. Given(a.store, store', b)
  <2>1. b # None /\ b \notin Kept(a.store)
    BY <1>1, HoldersDiffer
  <2> QED
    BY <1>1, <2>1, ResetIsGiven
<1> HIDE DEF b
<1>3. /\ Stocked(store')
      /\ \A x \in Blocks \ {b} : store'.size[x] = store.size[x]
      /\ \/ store'.size[b] = 0 /\ Kept(store') = Kept(store) \ {b}
         \/ store'.size[b] > 0 /\ Kept(store') = Kept(store) \cup {b}
  BY <1>1, <1>2 DEF Given
<1>4. /\ Stocked(store) /\ Kept(store) \subseteq Blocks /\ None \notin Blocks
      /\ \A k \in Holders : buffer[k].block \in Blocks \cup {None}
      /\ \A x \in Blocks : store.size[x] \in Nat
  BY KeptIsAllocated, HoldersDiffer, SizesAreNat DEF Owned, Buffers
<1>5. b \notin lostBlocks /\ \A k \in Holders : buffer[k].block # b
  <2>1. CASE b \in Kept(store)
    BY <1>1, <1>4, <2>1 DEF Owned
  <2>2. CASE store.size[b] = 0
    BY <1>1, <1>4, <2>2 DEF Owned
  <2> QED
    BY <1>1, <2>1, <2>2
<1>6. ASSUME NEW k \in Holders, buffer'[k].block # None
      PROVE  /\ buffer'[k].block \notin Kept(store') /\ buffer'[k].block \notin lostBlocks'
             /\ store'.size[buffer'[k].block] > 0
             /\ buffer'[k].asked <= store'.size[buffer'[k].block]
             /\ buffer'[k].pooled => store'.size[buffer'[k].block] \in Classes
  <2>1. buffer[k].block \in Blocks \ {b}
    BY <1>4, <1>5, <1>6
  <2> QED
    BY <1>3, <1>6, <2>1 DEF Owned
<1>7. ASSUME NEW x \in Blocks
      PROVE  store'.size[x] > 0 <=>
               (\E k \in Holders : buffer'[k].block = x) \/ x \in Kept(store') \/ x \in lostBlocks'
  <2>1. CASE x = b
    BY <1>3, <1>5, <2>1
  <2>2. CASE x # b
    BY <1>3, <2>2 DEF Owned
  <2> QED
    BY <2>1, <2>2
<1>8. lostBlocks' \cap Kept(store') = {}
  BY <1>3, <1>5 DEF Owned
<1> QED
  BY <1>3, <1>6, <1>7, <1>8 DEF Owned

\* A Buffer moves to a holder that has none.
LEMMA MoveKeepsOwned ==
  ASSUME Owned, NEW r \in Holders, NEW c \in Holders, r # c, buffer[c].block = None,
         store' = store, buffer' = Moved(r, c), lostBlocks' = lostBlocks
  PROVE  Owned'
<1>1. /\ buffer' \in [Holders -> Buffers] /\ buffer'[c] = buffer[r] /\ buffer'[r] = NoBuffer
      /\ buffer'[r].block = None
      /\ \A k \in Holders \ {r, c} : buffer'[k] = buffer[k]
  BY DEF Owned, Moved, Buffers, NoBuffer
<1>2. \A x \in Blocks : (\E k \in Holders : buffer'[k].block = x)
                          <=> (\E k \in Holders : buffer[k].block = x)
  BY <1>1, HoldersDiffer
<1>3. ASSUME NEW k \in Holders, buffer'[k].block # None
      PROVE  \E l \in Holders : buffer'[k] = buffer[l] /\ (k = c => l = r) /\ (k # c => l = k)
  BY <1>1, <1>3
<1>4. ASSUME NEW k \in Holders, buffer'[k].block # None
      PROVE  /\ buffer'[k].block \notin Kept(store) /\ buffer'[k].block \notin lostBlocks
             /\ store.size[buffer'[k].block] > 0
             /\ buffer'[k].asked <= store.size[buffer'[k].block]
             /\ buffer'[k].pooled => store.size[buffer'[k].block] \in Classes
  BY <1>3, <1>4 DEF Owned
<1>5. ASSUME NEW k \in Holders, NEW l \in Holders, buffer'[k].block = buffer'[l].block
      PROVE  k = l \/ buffer'[k].block = None
  BY <1>1, <1>5 DEF Owned
<1> QED
  BY <1>1, <1>2, <1>4, <1>5 DEF Owned

\* A block is given away.
LEMMA ReleaseKeepsOwned ==
  ASSUME Owned, NEW r \in Requests, ReleaseOwnership(r)
  PROVE  Owned'
<1> DEFINE b == buffer[r].block
<1>1. /\ buffer' \in [Holders -> Buffers] /\ buffer'[r].block = None /\ r \in Holders
      /\ \A k \in Holders \ {r} : buffer'[k] = buffer[k]
  BY DEF Owned, ReleaseOwnership, Buffers, NoBuffer, Holders
<1>2. /\ store' = store /\ lostBlocks' = lostBlocks \cup {b} /\ b # None /\ b \in Blocks
      /\ b \notin Kept(store) /\ store.size[b] > 0
      /\ \A k \in Holders \ {r} : buffer[k].block # b
  BY <1>1, HoldersDiffer DEF Owned, ReleaseOwnership, Buffers
<1>3. ASSUME NEW x \in Blocks
      PROVE  (\E k \in Holders : buffer[k].block = x)
               <=> (\E k \in Holders : buffer'[k].block = x) \/ x = b
  BY <1>1, HoldersDiffer
<1>4. ASSUME NEW k \in Holders, buffer'[k].block # None
      PROVE  k # r /\ buffer'[k] = buffer[k] /\ buffer[k].block # b
  BY <1>1, <1>2, <1>4
<1> HIDE DEF b
<1>5. \A k, l \in Holders : buffer'[k].block = buffer'[l].block
                              => k = l \/ buffer'[k].block = None
  BY <1>4 DEF Owned
<1>6. \A x \in Blocks : store'.size[x] > 0 <=>
        (\E k \in Holders : buffer'[k].block = x) \/ x \in Kept(store') \/ x \in lostBlocks'
  BY <1>2, <1>3 DEF Owned
<1>7. \A k \in Holders : buffer'[k].block # None =>
        /\ buffer'[k].block \notin Kept(store') /\ buffer'[k].block \notin lostBlocks'
        /\ store'.size[buffer'[k].block] > 0
        /\ buffer'[k].asked <= store'.size[buffer'[k].block]
        /\ buffer'[k].pooled => store'.size[buffer'[k].block] \in Classes
  BY <1>2, <1>4 DEF Owned
<1> QED
  BY <1>1, <1>2, <1>5, <1>6, <1>7 DEF Owned

\* The cache of a thread that ends is lost.
LEMMA ExitKeepsOwned ==
  ASSUME Owned, NEW t \in Threads, ThreadExit(t)
  PROVE  Owned'
<1> DEFINE R == Range(store.cache[t])
<1>1. Stocked(store)
  BY DEF Owned
<1>2. /\ store' = [store EXCEPT !.cache[t] = <<>>] /\ buffer' = buffer
      /\ lostBlocks' = lostBlocks \cup R
  BY DEF ThreadExit
<1>3. /\ store' \in Stores /\ store'.size = store.size /\ store'.pools = store.pools
      /\ store'.total = store.total /\ store'.cache = [store.cache EXCEPT ![t] = <<>>]
  BY <1>1, <1>2, EmptySeq DEF Stocked, Stores
<1> HIDE DEF R
<1>4. /\ store'.cache \in Lists(Threads, Blocks)
      /\ Content(Threads, store'.cache) = Content(Threads, store.cache) \ R
  <2>1. store.cache \in Lists(Threads, Blocks)
    BY <1>1 DEF Stocked
  <2> QED
    BY <1>3, <2>1, Emptied DEF R, Without
<1>5. R \subseteq Content(Threads, store.cache)
  BY DEF R, Content
<1>6. Stocked(store')
  BY <1>1, <1>3, <1>4 DEF Stocked
<1>7. Kept(store') = Kept(store) \ R /\ R \subseteq Kept(store) /\ Kept(store) \subseteq Blocks
  <2>1. R \cap Content(Classes, store.pools) = {}
    BY <1>1, <1>5 DEF Stocked
  <2> QED
    BY <1>1, <1>3, <1>4, <1>5, <1>6, <2>1, KeptIsAllocated
<1> QED
  BY <1>2, <1>3, <1>6, <1>7 DEF Owned

\* pool_clear() frees what the buckets hold.
LEMMA ClearKeepsOwned == Owned /\ PoolClear => Owned'
<1> SUFFICES ASSUME Owned, PoolClear PROVE Owned'
  OBVIOUS
<1> DEFINE P == Content(Classes, store.pools)
<1>1. /\ Stocked(store) /\ P = Pooled(store) /\ P \subseteq Kept(store)
      /\ Kept(store) = Content(Threads, store.cache) \cup P /\ Kept(store) \subseteq Blocks
      /\ Content(Threads, store.cache) \cap P = {}
  BY KeptIsAllocated DEF Owned, Stocked, Content, Pooled
<1>2. /\ store' \in Stores /\ store'.cache = store.cache /\ store'.pools = NoBuckets
      /\ store'.total = 0 /\ buffer' = buffer /\ lostBlocks' = lostBlocks
      /\ \A x \in Blocks : store'.size[x] = IF x \in P THEN 0 ELSE store.size[x]
  BY <1>1, EmptySeq DEF PoolClear, Stocked, Stores, NoBuckets
<1> HIDE DEF P
<1>3. NoBuckets \in Lists(Classes, Blocks) /\ Content(Classes, NoBuckets) = {}
      /\ \A c \in Classes : Range(NoBuckets[c]) = {}
  BY EmptyList DEF Lists, NoBuckets, Content
<1>4. Stocked(store')
  <2>1. \A x \in Content(Threads, store.cache) : store'.size[x] \in Classes
    BY <1>1, <1>2 DEF Stocked
  <2> QED
    BY <1>1, <1>2, <1>3, <2>1, FS_EmptySet DEF Stocked
<1>5. Kept(store') = Kept(store) \ P
  BY <1>1, <1>2, <1>3, <1>4, KeptIsAllocated
<1>6. \A k \in Holders : buffer[k].block # None => buffer[k].block \in Blocks \ P
  BY <1>1 DEF Owned, Buffers
<1>7. \A x \in Blocks : store'.size[x] > 0 <=>
        (\E k \in Holders : buffer'[k].block = x) \/ x \in Kept(store') \/ x \in lostBlocks'
  <2> TAKE x \in Blocks
  <2>1. CASE x \in P
    BY <1>1, <1>2, <1>5, <2>1, HoldersDiffer DEF Owned
  <2>2. CASE x \notin P
    BY <1>2, <1>5, <2>2 DEF Owned
  <2> QED
    BY <2>1, <2>2
<1>8. \A k \in Holders : buffer'[k].block # None =>
        /\ buffer'[k].block \notin Kept(store') /\ buffer'[k].block \notin lostBlocks'
        /\ store'.size[buffer'[k].block] > 0
        /\ buffer'[k].asked <= store'.size[buffer'[k].block]
        /\ buffer'[k].pooled => store'.size[buffer'[k].block] \in Classes
  BY <1>2, <1>5, <1>6 DEF Owned
<1> QED
  BY <1>2, <1>4, <1>5, <1>7, <1>8 DEF Owned

\* A step that changes nothing but the limit of the pool.
LEMMA LimitKeepsOwned ==
  ASSUME Owned, NEW m \in Nat, store' = [store EXCEPT !.max = m], buffer' = buffer,
         lostBlocks' = lostBlocks
  PROVE  Owned'
<1>1. /\ store' \in Stores /\ store'.size = store.size /\ store'.pools = store.pools
      /\ store'.cache = store.cache /\ store'.total = store.total
  BY DEF Owned, Stocked, Stores
<1>2. Stocked(store') /\ Kept(store') = Kept(store)
  BY <1>1 DEF Owned, Stocked, Kept, Cached, Pooled
<1> QED
  BY <1>1, <1>2 DEF Owned

------------------------------------------------------------------------------
\* The memory of the requests.

\* Memory of a request is in use, in one list, lost or with the allocator.
Recycled ==
  /\ type \in [Requests -> {"none", "Read", "Other"}]
  /\ freelist \in Lists(Threads, Requests) /\ lostRequests \subseteq Requests
  /\ \A r \in Content(Threads, freelist) : type[r] = "none" /\ r \notin lostRequests
  /\ \A r \in lostRequests : type[r] = "none"
  /\ \A r \in Requests : type[r] = "none" => buffer[r] = NoBuffer

\* REQ_ALLOC gives memory that is not in use.
LEMMA ShellIsFresh ==
  ASSUME Recycled, NEW t \in Threads, NEW r, r \in Reusable(t)
  PROVE  r \in Requests /\ type[r] = "none" /\ buffer[r] = NoBuffer
<1>1. CASE freelist[t] = <<>>
  BY <1>1 DEF Recycled, Reusable, NewMemory
<1>2. CASE freelist[t] # <<>>
  <2>1. freelist[t] \in List(Requests)
    BY DEF Recycled, Lists
  <2>2. r \in Range(freelist[t]) /\ r \in Requests
    BY <1>2, <2>1, FrontList DEF Reusable, Less
  <2> QED
    BY <2>2 DEF Recycled, Content
<1> QED
  BY <1>1, <1>2

\* A request is constructed.
LEMMA ShellKeepsRecycled ==
  ASSUME Recycled, NEW t \in Threads, NEW r, NEW ty \in {"Read", "Other"}, MakeShell(t, r, ty),
         \A q \in Requests \ {r} : buffer'[q] = buffer[q]
  PROVE  Recycled'
<1>1. /\ r \in Requests /\ type[r] = "none" /\ r \in Reusable(t)
      /\ type' = [type EXCEPT ![r] = ty] /\ lostRequests' = lostRequests
  BY ShellIsFresh DEF MakeShell
<1>2. /\ freelist' \in Lists(Threads, Requests)
      /\ Content(Threads, freelist') = Content(Threads, freelist) \ {r}
      /\ r \notin lostRequests
  <2>1. CASE freelist[t] = <<>>
    <3>1. freelist' = freelist
      BY <2>1 DEF MakeShell, Recycled, Lists
    <3>2. r \notin Content(Threads, freelist) /\ r \notin lostRequests
      BY <1>1, <2>1 DEF Reusable, NewMemory, Listed, Content
    <3> QED
      BY <3>1, <3>2 DEF Recycled
  <2>2. CASE freelist[t] # <<>>
    <3>1. freelist[t] \in List(Requests) /\ freelist \in Lists(Threads, Requests)
      BY DEF Recycled, Lists
    <3>2. /\ r = Last(freelist[t]) /\ Front(freelist[t]) \in List(Requests)
          /\ Less(Range(Front(freelist[t])), Range(freelist[t]), r)
      BY <1>1, <2>2, <3>1, FrontList DEF Reusable
    <3>3. freelist' = [freelist EXCEPT ![t] = Front(freelist[t])]
      BY <2>2 DEF MakeShell
    <3>4. /\ freelist' \in Lists(Threads, Requests)
          /\ Less(Content(Threads, freelist'), Content(Threads, freelist), r)
      BY <3>1, <3>2, <3>3, TakeFrom
    <3> QED
      BY <3>4 DEF Recycled, Less
  <2> QED
    BY <2>1, <2>2
<1>3. type'[r] = ty /\ \A q \in Requests \ {r} : type'[q] = type[q]
  BY <1>1 DEF Recycled
<1>4. type' \in [Requests -> {"none", "Read", "Other"}]
  BY <1>1 DEF Recycled
<1>5. \A q \in Requests : type'[q] = "none" => buffer'[q] = NoBuffer
  BY <1>3 DEF Recycled
<1>6. Content(Threads, freelist) \subseteq Requests
  <2>1. \A s \in List(Requests) : Range(s) \subseteq Requests
    BY LenProperties, ElementOfSeq DEF List, Range
  <2> QED
    BY <2>1 DEF Recycled, Lists, Content
<1>7. \A q \in Content(Threads, freelist') : type'[q] = "none" /\ q \notin lostRequests'
  BY <1>1, <1>2, <1>3, <1>6 DEF Recycled
<1>8. \A q \in lostRequests' : type'[q] = "none"
  BY <1>1, <1>2, <1>3 DEF Recycled
<1> QED
  BY <1>1, <1>2, <1>4, <1>5, <1>7, <1>8 DEF Recycled

\* A request is destroyed.
LEMMA FreeKeepsRecycled ==
  ASSUME Recycled, NEW t \in Threads, NEW r \in Requests, NEW buf, type[r] # "none",
         Free(t, r, buf), buffer'[r] = NoBuffer,
         \A q \in Requests \ {r} : buffer'[q] = buffer[q]
  PROVE  Recycled'
<1>1. /\ type' = [type EXCEPT ![r] = "none"] /\ lostRequests' = lostRequests
      /\ freelist' = [freelist EXCEPT ![t] = IF Len(@) < MaxEntries THEN Append(@, r) ELSE @]
  BY DEF Free
<1>2. r \notin Content(Threads, freelist) /\ r \notin lostRequests
  BY DEF Recycled
<1>3. /\ freelist' \in Lists(Threads, Requests)
      /\ Content(Threads, freelist') \subseteq Content(Threads, freelist) \cup {r}
  <2>1. freelist[t] \in List(Requests) /\ freelist \in Lists(Threads, Requests)
    BY DEF Recycled, Lists
  <2>2. CASE Len(freelist[t]) < MaxEntries
    <3>1. r \notin Range(freelist[t])
      BY <1>2 DEF Content
    <3>2. /\ Append(freelist[t], r) \in List(Requests)
          /\ More(Range(Append(freelist[t], r)), Range(freelist[t]), r)
      BY <2>1, <3>1, AppendList
    <3>3. freelist' = [freelist EXCEPT ![t] = Append(freelist[t], r)]
      BY <1>1, <2>2
    <3>4. /\ freelist' \in Lists(Threads, Requests)
          /\ More(Content(Threads, freelist'), Content(Threads, freelist), r)
      BY <1>2, <2>1, <3>2, <3>3, AddTo
    <3> QED
      BY <3>4 DEF More
  <2>3. CASE ~(Len(freelist[t]) < MaxEntries)
    <3>1. freelist' = freelist
      BY <1>1, <2>1, <2>3 DEF Lists
    <3> QED
      BY <2>1, <3>1
  <2> QED
    BY <2>2, <2>3
<1>4. type'[r] = "none" /\ \A q \in Requests \ {r} : type'[q] = type[q]
  BY <1>1 DEF Recycled
<1>5. type' \in [Requests -> {"none", "Read", "Other"}]
  BY <1>1 DEF Recycled
<1>6. Content(Threads, freelist) \subseteq Requests
  <2>1. \A s \in List(Requests) : Range(s) \subseteq Requests
    BY LenProperties, ElementOfSeq DEF List, Range
  <2> QED
    BY <2>1 DEF Recycled, Lists, Content
<1>7. \A q \in Content(Threads, freelist') : type'[q] = "none" /\ q \notin lostRequests'
  BY <1>1, <1>2, <1>3, <1>4, <1>6 DEF Recycled
<1>8. \A q \in lostRequests' : type'[q] = "none"
  BY <1>1, <1>4 DEF Recycled
<1>9. \A q \in Requests : type'[q] = "none" => buffer'[q] = NoBuffer
  BY <1>4 DEF Recycled
<1> QED
  BY <1>1, <1>3, <1>5, <1>7, <1>8, <1>9 DEF Recycled

------------------------------------------------------------------------------
\* The theorems.

Inv == Owned /\ Recycled

\* The invariants the runs check follow.
LEMMA InvImplies ==
  Inv => TypeOK /\ OneOwner /\ MemoryAccounted /\ BigEnough
<1> SUFFICES ASSUME Inv
    PROVE TypeOK /\ OneOwner /\ MemoryAccounted /\ BigEnough
  OBVIOUS
<1>1. /\ Stocked(store) /\ WellFormed(store) /\ Kept(store) \subseteq Blocks
      /\ \A b \in Blocks : store.size[b] \in Nat
  BY WellFormedLists, KeptIsAllocated, SizesAreNat DEF Inv, Owned
<1>2. /\ freelist \in [Threads -> Seq(Requests)]
      /\ \A t \in Threads : IsInjective(freelist[t])
      /\ \A t, u \in Threads : t # u => Range(freelist[t]) \cap Range(freelist[u]) = {}
  BY DEF Inv, Recycled, Lists, List
<1>3. TypeOK
  BY <1>1, <1>2 DEF TypeOK, Inv, Owned, Recycled, WellFormed
<1>4. \A b \in Held : b \in Blocks /\ b \notin Kept(store) /\ b \notin lostBlocks
  BY DEF Inv, Owned, Held, Buffers
<1>5. Owner
  BY <1>1, <1>4 DEF Owner, Inv, Owned, WellFormed
<1>6. \A b \in Blocks : b \in Held <=> \E h \in Holders : buffer[h].block = b
  BY HoldersDiffer DEF Held
<1>7. {b \in Blocks : store.size[b] > 0} = Held \cup Kept(store) \cup lostBlocks
  <2>1. \A b \in Blocks : store.size[b] > 0 <=> b \in Held \cup Kept(store) \cup lostBlocks
    BY <1>6 DEF Inv, Owned
  <2>2. Held \cup Kept(store) \cup lostBlocks \subseteq Blocks
    BY <1>1, <1>4 DEF Inv, Owned
  <2> QED
    BY <2>1, <2>2
<1>8. BigEnough
  BY DEF BigEnough, Inv, Owned
<1>9. TotalIsExact
  BY <1>1 DEF TotalIsExact, WellFormed
<1>10. Listed = Content(Threads, freelist)
  BY DEF Listed, Content
<1>11. Listed \subseteq Requests
  <2>1. \A s \in List(Requests) : Range(s) \subseteq Requests
    BY LenProperties, ElementOfSeq DEF List, Range
  <2> QED
    BY <1>10, <2>1 DEF Inv, Recycled, Lists, Content
<1>12. OneRequest
  BY <1>2, <1>10, <1>11 DEF OneRequest, Inv, Recycled
<1>13. OneOwner /\ MemoryAccounted
  BY <1>5, <1>7, <1>9, <1>12 DEF OneOwner, MemoryAccounted
<1> QED
  BY <1>3, <1>8, <1>13

\* Nothing is allocated at the start.
LEMMA InitInv == Init => Inv
<1> SUFFICES ASSUME Init PROVE Inv
  OBVIOUS
<1>1. PICK m \in Maxes :
        store = [size |-> [b \in Blocks |-> 0], cache |-> [t \in Threads |-> <<>>],
                 keys |-> {}, pools |-> NoBuckets, total |-> 0, max |-> m]
  BY DEF Init
<1>2. store \in Stores
  BY <1>1, EmptySeq, SizesAreNaturals DEF Stores, NoBuckets
<1>3. \A I, S : [i \in I |-> <<>>] \in Lists(I, S) /\ Content(I, [i \in I |-> <<>>]) = {}
  BY EmptyList DEF Lists, Content
<1>4. /\ store.cache \in Lists(Threads, Blocks) /\ Content(Threads, store.cache) = {}
      /\ store.pools \in Lists(Classes, Blocks) /\ Content(Classes, store.pools) = {}
      /\ \A c \in Classes : Range(store.pools[c]) = {}
      /\ store.total = 0 /\ \A b \in Blocks : store.size[b] = 0
  BY <1>1, <1>3, EmptyList DEF NoBuckets
<1>5. Stocked(store)
  BY <1>2, <1>4, FS_EmptySet DEF Stocked
<1>6. Kept(store) = {}
  BY <1>4, <1>5, KeptIsAllocated
<1>7. /\ buffer \in [Holders -> Buffers] /\ lostBlocks = {}
      /\ \A h \in Holders : buffer[h].block = None
  BY DEF Init, Buffers, NoBuffer
<1>8. Owned
  BY <1>4, <1>5, <1>6, <1>7, HoldersDiffer DEF Owned
<1>9. freelist \in Lists(Threads, Requests) /\ Content(Threads, freelist) = {}
  BY <1>3 DEF Init
<1>10. Recycled
  BY <1>9 DEF Recycled, Init, Holders
<1> QED
  BY <1>8, <1>10 DEF Inv

\* Every step keeps the invariant.
LEMMA NextInv == Inv /\ [Next]_vars => Inv'
<1> SUFFICES ASSUME Inv, [Next]_vars PROVE Inv'
  OBVIOUS
<1> USE DEF Inv
<1>0. /\ Owned /\ Recycled /\ Requests \subseteq Holders /\ Results \subseteq Holders
      /\ Stocked(store) /\ Asked \subseteq Nat /\ buffer \in [Holders -> Buffers]
      /\ NoBuffer.block = None
  BY SizesAreNaturals DEF Holders, Owned, NoBuffer
<1>1. ASSUME NEW t \in Threads, NEW n \in Asked, NEW a \in Chosen(t, n)
      PROVE  Taken(store, a, n)
  <2>1. CASE n <= BufferSize
    BY <1>0, <1>1, <2>1, ChosenIsTaken DEF Chosen
  <2>2. CASE ~(n <= BufferSize)
    <3>1. n > 0 /\ a \in Heap(store, n)
      BY <1>0, <1>1, <2>2, SizesAreNaturals DEF Chosen
    <3> QED
      BY <1>0, <3>1, ChosenIsTaken
  <2> QED
    BY <2>1, <2>2
<1>2. ASSUME NEW t \in Threads, NEW r, NEW n \in Asked, NEW a, Taken(store, a, n),
             NEW ty \in {"Read", "Other"}, MakeShell(t, r, ty), store' = a.store,
             buffer' = [buffer EXCEPT ![r] = a.buffer], lostBlocks' = lostBlocks
      PROVE  Inv'
  <2>1. r \in Requests /\ buffer[r].block = None
    BY <1>0, <1>2, ShellIsFresh DEF MakeShell
  <2>2. Owned'
    BY <1>0, <1>2, <2>1, TakeKeepsOwned
  <2>3. \A q \in Requests \ {r} : buffer'[q] = buffer[q]
    BY <1>0, <1>2
  <2>4. Recycled'
    BY <1>0, <1>2, <2>3, ShellKeepsRecycled
  <2> QED
    BY <2>2, <2>4
<1>3. ASSUME NEW t \in Threads, NEW r \in Requests, NEW n \in Asked, MakeReq(t, r, n)
      PROVE  Inv'
  BY <1>1, <1>2, <1>3 DEF MakeReq
<1>4. ASSUME NEW t \in Threads, NEW r \in Requests, NEW n \in Asked,
             NEW ty \in {"Read", "Other"}, MakeHeapReq(t, r, n, ty)
      PROVE  Inv'
  <2>1. PICK a \in Heap(store, n) :
          /\ n > 0 /\ MakeShell(t, r, ty) /\ store' = a.store
          /\ buffer' = [buffer EXCEPT ![r] = a.buffer] /\ lostBlocks' = lostBlocks
    BY <1>4 DEF MakeHeapReq
  <2>2. Taken(store, a, n)
    BY <1>0, <2>1, ChosenIsTaken
  <2> QED
    BY <1>2, <2>1, <2>2
<1>5. ASSUME NEW t \in Threads, NEW r \in Requests, MakeViewReq(t, r) PROVE Inv'
  <2>1. Recycled'
    BY <1>0, <1>5, ShellKeepsRecycled DEF MakeViewReq
  <2>2. Owned'
    BY <1>0, <1>5 DEF MakeViewReq, Owned
  <2> QED
    BY <2>1, <2>2
<1>6. ASSUME NEW t \in Threads, NEW r \in Requests, Complete(t, r) PROVE Inv'
  <2>1. /\ Free(t, r, buffer[r]) /\ store' = Reset(store, t, buffer[r])
        /\ buffer' = [buffer EXCEPT ![r] = NoBuffer] /\ lostBlocks' = lostBlocks
        /\ type[r] # "none"
    BY <1>6 DEF Complete, Free
  <2>2. Owned'
    BY <1>0, <2>1, ResetKeepsOwned
  <2>3. buffer'[r] = NoBuffer /\ \A q \in Requests \ {r} : buffer'[q] = buffer[q]
    BY <1>0, <2>1
  <2>4. Recycled'
    BY <1>0, <2>1, <2>3, FreeKeepsRecycled
  <2> QED
    BY <2>2, <2>4
<1>7. ASSUME NEW t \in Threads, NEW n \in Asked, MakeReqFails(t, n) PROVE Inv'
  <2>1. PICK a \in Chosen(t, n) :
          /\ store' = Reset(a.store, t, a.buffer) /\ buffer' = buffer
          /\ lostBlocks' = lostBlocks
    BY <1>7 DEF MakeReqFails
  <2>2. Owned'
    BY <1>0, <1>1, <2>1, TakeResetKeepsOwned
  <2>3. Recycled'
    BY <1>7, <1>0 DEF MakeReqFails, Recycled
  <2> QED
    BY <2>2, <2>3
<1>8. ASSUME NEW r \in Requests, ReleaseOwnership(r) PROVE Inv'
  <2>1. Recycled'
    <3>1. \A q \in Requests : buffer[q] = NoBuffer => buffer'[q] = NoBuffer
      BY <1>0, <1>8 DEF ReleaseOwnership
    <3> QED
      BY <1>0, <1>8, <3>1 DEF ReleaseOwnership, Recycled
  <2> QED
    BY <1>0, <1>8, <2>1, ReleaseKeepsOwned
<1>9. ASSUME NEW t \in Threads, NEW r \in Requests, NEW c \in Results, CompleteRead(t, r, c)
      PROVE  Inv'
  <2>1. /\ Free(t, r, NoBuffer) /\ store' = store /\ lostBlocks' = lostBlocks
        /\ buffer' = Moved(r, c) /\ buffer[c].block = None /\ r # c /\ type[r] # "none"
    BY <1>0, <1>9, HoldersDiffer DEF CompleteRead, Free, Reset
  <2>2. Owned'
    BY <1>0, <2>1, MoveKeepsOwned
  <2>3. buffer'[r] = NoBuffer /\ \A q \in Requests \ {r} : buffer'[q] = buffer[q]
    BY <1>0, <2>1, HoldersDiffer DEF Moved
  <2>4. Recycled'
    BY <1>0, <2>1, <2>3, FreeKeepsRecycled
  <2> QED
    BY <2>2, <2>4
<1>10. ASSUME NEW t \in Threads, NEW c \in Results, DropResult(t, c) PROVE Inv'
  <2>1. Owned'
    BY <1>0, <1>10, ResetKeepsOwned DEF DropResult
  <2>2. \A q \in Requests : buffer'[q] = buffer[q]
    BY <1>0, <1>10, HoldersDiffer DEF DropResult
  <2>3. Recycled'
    BY <1>0, <1>10, <2>2 DEF DropResult, Recycled
  <2> QED
    BY <2>1, <2>3
<1>11. ASSUME NEW t \in Threads, ThreadExit(t) PROVE Inv'
  <2>1. Owned'
    BY <1>0, <1>11, ExitKeepsOwned
  <2>2. /\ freelist' \in Lists(Threads, Requests)
        /\ Content(Threads, freelist') = Content(Threads, freelist) \ Range(freelist[t])
    <3>1. freelist \in Lists(Threads, Requests) /\ freelist' = [freelist EXCEPT ![t] = <<>>]
      BY <1>11 DEF Recycled, ThreadExit
    <3>2. /\ freelist' \in Lists(Threads, Requests)
          /\ Without(Content(Threads, freelist'), Content(Threads, freelist), Range(freelist[t]))
      BY <3>1, Emptied
    <3> QED
      BY <3>2 DEF Without
  <2>3. /\ lostRequests' = lostRequests \cup Range(freelist[t]) /\ type' = type
        /\ buffer' = buffer /\ Range(freelist[t]) \subseteq Content(Threads, freelist)
    BY <1>11 DEF ThreadExit, Content
  <2>4. Content(Threads, freelist) \subseteq Requests
    <3>1. \A s \in List(Requests) : Range(s) \subseteq Requests
      BY LenProperties, ElementOfSeq DEF List, Range
    <3> QED
      BY <3>1 DEF Recycled, Lists, Content
  <2>5. Recycled'
    BY <1>0, <2>2, <2>3, <2>4 DEF Recycled
  <2> QED
    BY <2>1, <2>5
<1>12. ASSUME PoolClear PROVE Inv'
  <2>1. Recycled'
    BY <1>0, <1>12 DEF PoolClear, Recycled
  <2> QED
    BY <1>0, <1>12, <2>1, ClearKeepsOwned
<1>13. ASSUME RefreshConfig PROVE Inv'
  <2>1. PICK m \in Maxes : store' = [store EXCEPT !.max = m]
    BY <1>13 DEF RefreshConfig
  <2>2. m \in Nat
    BY SizesAreNaturals
  <2>3. Owned'
    BY <1>0, <1>13, <2>1, <2>2, LimitKeepsOwned DEF RefreshConfig
  <2>4. Recycled'
    BY <1>0, <1>13 DEF RefreshConfig, Recycled
  <2> QED
    BY <2>3, <2>4
<1>14. ASSUME UNCHANGED vars PROVE Inv'
  BY <1>0, <1>14 DEF vars, Owned, Recycled
<1> QED
  BY <1>3, <1>4, <1>5, <1>6, <1>7, <1>8, <1>9, <1>10, <1>11, <1>12, <1>13, <1>14 DEF Next

\* The inductive invariant holds always.
THEOREM AlwaysInv == Spec => []Inv
BY InitInv, NextInv, PTL DEF Spec

\* The variables keep their types.
THEOREM TypeCorrect == Spec => []TypeOK
BY AlwaysInv, InvImplies, PTL

\* No two callers ever get the same block or the same request (the moves of
\* buffer.cpp, the caches and buckets of buffer_pool.hpp, io_request.cpp).
THEOREM OwnersDiffer == Spec => []OneOwner
BY AlwaysInv, InvImplies, PTL

\* No block is used after it was freed, none leaks but by a thread's end or
\* release_ownership(), and m_total counts the entries of the buckets.
THEOREM BlocksAccounted == Spec => []MemoryAccounted
BY AlwaysInv, InvImplies, PTL

\* A Buffer is as large as it was asked to be.
THEOREM BuffersFit == Spec => []BigEnough
BY AlwaysInv, InvImplies, PTL
==============================================================================
