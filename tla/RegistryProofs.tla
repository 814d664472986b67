--------------------------- MODULE RegistryProofs ---------------------------
(***************************************************************************)
(* RightBatcher and SettingsReach of Registry, for every set of loops,     *)
(* addresses and threads and any bounds: a loop is never given the batcher *)
(* of a dead loop that had its address, no batcher is lost or destroyed    *)
(* twice, and what configure() sets reaches every batcher.                 *)
(***************************************************************************)
EXTENDS Registry, FiniteSetTheorems, SequenceTheorems, TLAPS

Batchers == [loop : Loops, addr : Addrs, max : Vals, cur : Vals, lat : Vals]
Frames == [pc : {"build", "lat", "insert"}, b : Ids \union {0}]
ConfCalls == [pc : {"idle", "update", "snapshot", "next", "max", "clamp", "lat"},
              copy : [Keys -> Vals], todo : SUBSET Ids, b : Ids \union {0},
              val : Vals \union {0}]

\* The types, with the shape of look and conf that TypeOK leaves open.
Shape ==
  /\ at \in [Addrs -> Loops \union {Nil}] /\ gone \subseteq Loops
  /\ bat \in Seq(Batchers) /\ Len(bat) <= MaxBatchers
  /\ active \subseteq Built /\ retired \subseteq Built /\ freed \subseteq Built
  /\ look \in [Loops -> Seq(Frames)] /\ ctx \in [Loops -> SUBSET Built]
  /\ \A l \in Loops : Len(look[l]) <= MaxNest
  /\ \A l \in Loops : \A i \in 1 .. Len(look[l]) : look[l][i].b \in Built \union {0}
  /\ push \in [Ids -> Vals \union {0}] /\ raced \in BOOLEAN

Settings ==
  /\ config \in [Keys -> Vals] /\ asked \in [Keys -> Vals]
  /\ conf \in [Calls -> ConfCalls]
  /\ \A c \in Calls : conf[c].todo \subseteq Built
  /\ \A c \in Calls : conf[c].pc \in {"max", "clamp"} => conf[c].val \in Vals

\* A call of get_or_create() that has built a candidate is on a living loop,
\* for which and at whose address the candidate was made; no other call has it.
Stacks ==
  /\ \A l \in Loops : \A i \in 1 .. Len(look[l]) :
       LET f == look[l][i] IN
       /\ f.pc = "build" <=> f.b = 0
       /\ f.b # 0 => bat[f.b].loop = l /\ at[bat[f.b].addr] = l
  /\ \A l \in Loops : \A i, j \in 1 .. Len(look[l]) :
       look[l][i].b = look[l][j].b /\ look[l][i].b # 0 => i = j

Candidate(b) == \E l \in Loops : \E i \in 1 .. Len(look[l]) : look[l][i].b = b

\* A batcher is in one place.
Placed ==
  /\ \A b \in Built : Candidate(b) \/ b \in active \/ b \in retired \/ b \in freed
  /\ \A b \in Built : Candidate(b) => b \notin active \union retired \union freed
  /\ active \intersect retired = {}
  /\ active \intersect freed = {} /\ retired \intersect freed = {}

\* A loop lives at one address, an address has one active batcher, and handles
\* hold an active batcher of their own loop, made for the address it lives at.
Homes ==
  /\ \A a, x \in Addrs : at[a] = at[x] /\ at[a] # Nil => a = x
  /\ \A b, d \in active : bat[b].addr = bat[d].addr => b = d
  /\ \A l \in Loops : \A b \in ctx[l] :
       b \in active /\ bat[b].loop = l /\ at[bat[b].addr] = l

Inv == Shape /\ Settings /\ Stacks /\ Placed /\ Homes

-----------------------------------------------------------------------------
\* Nothing is built at the start.
LEMMA InitInv == Init => Inv
<1> SUFFICES ASSUME Init PROVE Inv
  OBVIOUS
<1>0. MaxBatchers \in Nat /\ MaxNest \in Nat
  BY RegistryAssumption DEF RegistryAssumption
<1>1. /\ bat = <<>> /\ Len(bat) = 0 /\ Built = {}
      /\ \A l \in Loops : look[l] = <<>> /\ Len(look[l]) = 0
      /\ <<>> \in Seq(Batchers) /\ <<>> \in Seq(Frames)
  BY EmptySeq DEF Init, Built
<1>2. Defaults \in [Keys -> Vals]
  BY DEF Defaults, Vals
<1>3. Shape
  <2>1. look \in [Loops -> Seq(Frames)] /\ ctx \in [Loops -> SUBSET Built]
    BY <1>1 DEF Init
  <2>2. /\ at \in [Addrs -> Loops \union {Nil}] /\ gone \subseteq Loops
        /\ push \in [Ids -> Vals \union {0}] /\ raced \in BOOLEAN
    BY DEF Init
  <2>3. bat \in Seq(Batchers) /\ Len(bat) <= MaxBatchers
    BY <1>0, <1>1
  <2>4. active \subseteq Built /\ retired \subseteq Built /\ freed \subseteq Built
    BY DEF Init
  <2>5. \A l \in Loops : Len(look[l]) <= MaxNest /\ 1 .. Len(look[l]) = {}
    BY <1>0, <1>1
  <2> QED
    BY <2>1, <2>2, <2>3, <2>4, <2>5 DEF Shape
<1>4. NoCall \in ConfCalls
  BY <1>2 DEF NoCall, ConfCalls
<1>5. Settings
  BY <1>2, <1>4 DEF Init, Settings, NoCall
<1>6. Stacks /\ Placed /\ Homes
  BY <1>1 DEF Init, Stacks, Placed, Homes, Candidate
<1> QED
  BY <1>3, <1>5, <1>6 DEF Inv

\* The batchers have their types.
LEMMA Typed == Shape => \A b \in Built : bat[b] \in Batchers /\ bat[b].addr \in Addrs
<1> SUFFICES ASSUME Shape, NEW b \in Built PROVE bat[b] \in Batchers /\ bat[b].addr \in Addrs
  OBVIOUS
<1>1. bat \in Seq(Batchers) /\ b \in 1 .. Len(bat)
  BY DEF Shape, Built
<1>2. bat[b] \in Batchers
  BY <1>1, ElementOfSeq
<1> QED
  BY <1>2 DEF Batchers

\* A step that changes no more than the settings of batchers keeps them where
\* they are.
Quiet ==
  /\ UNCHANGED <<at, gone, active, retired, freed, look, ctx>>
  /\ Len(bat') = Len(bat)
  /\ \A b \in Built : bat'[b].loop = bat[b].loop /\ bat'[b].addr = bat[b].addr

\* Where the batchers are does not depend on their settings.
LEMMA QuietKeeps ==
  ASSUME Inv, Quiet
  PROVE  Stacks' /\ Placed' /\ Homes'
<1>1. Built' = Built
  BY DEF Quiet, Built
<1>2. Stacks'
  BY <1>1 DEF Inv, Quiet, Shape, Stacks
<1>3. Placed'
  BY <1>1 DEF Inv, Quiet, Placed, Candidate
<1>4. Homes'
  BY <1>1 DEF Inv, Quiet, Shape, Homes
<1> QED
  BY <1>2, <1>3, <1>4

\* The batchers are a function, and storing a setting keeps it one.
LEMMA Stored ==
  ASSUME Shape
  PROVE  /\ bat \in [1 .. Len(bat) -> Batchers] /\ Len(bat) \in Nat
         /\ \A t : t \in [1 .. Len(bat) -> Batchers] => t \in Seq(Batchers) /\ Len(t) = Len(bat)
<1>1. bat \in Seq(Batchers)
  BY DEF Shape
<1>2. bat \in [1 .. Len(bat) -> Batchers] /\ Len(bat) \in Nat
  BY <1>1, LenProperties, ElementOfSeq
<1>3. ASSUME NEW t \in [1 .. Len(bat) -> Batchers]
      PROVE  t \in Seq(Batchers) /\ Len(t) = Len(bat)
  <2>1. t \in Seq(Batchers)
    BY <1>2, SeqDef
  <2> QED
    BY <1>2, <2>1, LenProperties
<1> QED
  BY <1>2, <1>3

\* Storing one setting leaves the number of batchers, their loops and addresses.
LEMMA SettingKeeps ==
  ASSUME Shape, NEW c, NEW v \in Vals,
         \/ bat' = [bat EXCEPT ![c].max = v]
         \/ bat' = [bat EXCEPT ![c].cur = v]
         \/ bat' = [bat EXCEPT ![c].lat = v]
  PROVE  /\ bat' \in Seq(Batchers) /\ Len(bat') = Len(bat)
         /\ \A b \in Built : bat'[b].loop = bat[b].loop /\ bat'[b].addr = bat[b].addr
<1>1. bat \in [1 .. Len(bat) -> Batchers]
  BY Stored
<1>2. \A r \in Batchers : /\ [r EXCEPT !.max = v] \in Batchers
                          /\ [r EXCEPT !.cur = v] \in Batchers
                          /\ [r EXCEPT !.lat = v] \in Batchers
                          /\ [r EXCEPT !.max = v].loop = r.loop /\ [r EXCEPT !.max = v].addr = r.addr
                          /\ [r EXCEPT !.cur = v].loop = r.loop /\ [r EXCEPT !.cur = v].addr = r.addr
                          /\ [r EXCEPT !.lat = v].loop = r.loop /\ [r EXCEPT !.lat = v].addr = r.addr
  BY DEF Batchers
<1>3. ASSUME NEW r, bat' = [bat EXCEPT ![c] = r],
             bat[c] \in Batchers => r \in Batchers /\ r.loop = bat[c].loop /\ r.addr = bat[c].addr
      PROVE  /\ bat' \in [1 .. Len(bat) -> Batchers]
             /\ \A b \in 1 .. Len(bat) : bat'[b].loop = bat[b].loop /\ bat'[b].addr = bat[b].addr
  <2>1. bat' = [b \in 1 .. Len(bat) |-> IF b = c THEN r ELSE bat[b]]
    BY <1>1, <1>3
  <2>2. \A b \in 1 .. Len(bat) : bat[b] \in Batchers
    BY <1>1
  <2> QED
    BY <1>3, <2>1, <2>2
<1>4. /\ bat' \in [1 .. Len(bat) -> Batchers]
      /\ \A b \in 1 .. Len(bat) : bat'[b].loop = bat[b].loop /\ bat'[b].addr = bat[b].addr
  <2>1. CASE bat' = [bat EXCEPT ![c].max = v]
    <3>1. bat' = [bat EXCEPT ![c] = [bat[c] EXCEPT !.max = v]]
      BY <2>1
    <3> QED
      BY <1>2, <1>3, <3>1
  <2>2. CASE bat' = [bat EXCEPT ![c].cur = v]
    <3>1. bat' = [bat EXCEPT ![c] = [bat[c] EXCEPT !.cur = v]]
      BY <2>2
    <3> QED
      BY <1>2, <1>3, <3>1
  <2>3. CASE bat' = [bat EXCEPT ![c].lat = v]
    <3>1. bat' = [bat EXCEPT ![c] = [bat[c] EXCEPT !.lat = v]]
      BY <2>3
    <3> QED
      BY <1>2, <1>3, <3>1
  <2> QED
    BY <2>1, <2>2, <2>3
<1>5. bat' \in Seq(Batchers) /\ Len(bat') = Len(bat)
  BY <1>4, Stored
<1> QED
  BY <1>4, <1>5 DEF Built

-----------------------------------------------------------------------------
\* The stack of calls: a call begins, moves on, ends.

\* A frame is pushed: the others move down by one.
LEMMA PushFrame ==
  ASSUME NEW s \in Seq(Frames), NEW x \in Frames
  PROVE  /\ <<x>> \o s \in Seq(Frames) /\ Len(<<x>> \o s) = Len(s) + 1 /\ Len(s) \in Nat
         /\ (<<x>> \o s)[1] = x
         /\ \A i \in 2 .. (Len(s) + 1) : (<<x>> \o s)[i] = s[i - 1]
<1>1. <<x>> \in Seq(Frames) /\ Len(<<x>>) = 1 /\ <<x>>[1] = x /\ Len(s) \in Nat
  BY LenProperties
<1> QED
  BY <1>1, ConcatProperties

\* The top frame is replaced: the others stay.
LEMMA TopFrame ==
  ASSUME NEW s \in Seq(Frames), s # <<>>, NEW x \in Frames
  PROVE  /\ [s EXCEPT ![1] = x] \in Seq(Frames) /\ Len([s EXCEPT ![1] = x]) = Len(s)
         /\ Len(s) \in Nat \ {0} /\ Head(s) = s[1] /\ s[1] \in Frames
         /\ [s EXCEPT ![1] = x][1] = x
         /\ \A i \in 2 .. Len(s) : [s EXCEPT ![1] = x][i] = s[i]
<1>1. Len(s) \in Nat \ {0} /\ DOMAIN s = 1 .. Len(s) /\ s[1] \in Frames
  BY LenProperties, ElementOfSeq, EmptySeq
<1>2. [s EXCEPT ![1] = x] \in Seq(Frames) /\ Len([s EXCEPT ![1] = x]) = Len(s)
  BY <1>1, ExceptSeq
<1> QED
  BY <1>1, <1>2

\* The top frame is popped: the others move up by one.
LEMMA PopFrame ==
  ASSUME NEW s \in Seq(Frames), s # <<>>
  PROVE  /\ Tail(s) \in Seq(Frames) /\ Len(Tail(s)) = Len(s) - 1 /\ Len(s) \in Nat \ {0}
         /\ Head(s) = s[1] /\ s[1] \in Frames
         /\ \A i \in 1 .. (Len(s) - 1) : Tail(s)[i] = s[i + 1]
<1>1. Len(s) \in Nat \ {0} /\ s[1] \in Frames
  BY LenProperties, ElementOfSeq, EmptySeq
<1> QED
  BY <1>1, HeadTailProperties

-----------------------------------------------------------------------------
\* Loops come and go.

\* A loop is created at a free address: what lives at the others stays.
LEMMA NewLoopKeeps ==
  ASSUME Inv, NEW l \in Loops, NEW a \in Addrs, NewLoop(l, a) PROVE Inv'
<1> USE DEF NewLoop, regVars, confVars, Inv
<1>0. Nil # l /\ Built' = Built /\ at' = [at EXCEPT ![a] = l] /\ at \in [Addrs -> Loops \union {Nil}]
  BY RegistryAssumption DEF RegistryAssumption, Built, Shape
<1>1. \A x \in Addrs : at[x] \in Loops => x # a /\ at'[x] = at[x]
  BY <1>0, RegistryAssumption DEF RegistryAssumption
<1>2. \A b \in Built : bat[b].addr \in Addrs
  BY Typed
<1>3. Shape'
  BY <1>0 DEF Shape
<1>4. Settings'
  BY <1>0 DEF Settings
<1>5. Stacks'
  <2>1. \A k \in Loops : \A i \in 1 .. Len(look[k]) :
          look[k][i].b # 0 => bat[look[k][i].b].addr \in Addrs
    BY <1>2 DEF Shape
  <2> QED
    BY <1>1, <2>1 DEF Stacks
<1>6. Placed'
  BY <1>0 DEF Placed, Candidate
<1>7. Homes'
  <2>1. \A x, y \in Addrs : at'[x] = at'[y] /\ at'[x] # Nil => x = y
    BY <1>0 DEF Homes
  <2>2. \A k \in Loops : \A b \in ctx[k] : bat[b].addr \in Addrs
    BY <1>2 DEF Shape
  <2> QED
    BY <1>1, <2>1, <2>2 DEF Homes
<1> QED
  BY <1>3, <1>4, <1>5, <1>6, <1>7

\* A loop is collected: it has no call under way and its handles are gone.
LEMMA CollectKeeps ==
  ASSUME Inv, NEW a \in Addrs, Collect(a) PROVE Inv'
<1> USE DEF Collect, confVars, Inv
<1> DEFINE l == at[a]
<1>0. /\ l \in Loops /\ Built' = Built /\ at' = [at EXCEPT ![a] = Nil] /\ look[l] = <<>>
      /\ at \in [Addrs -> Loops \union {Nil}] /\ ctx' = [ctx EXCEPT ![l] = {}]
      /\ Len(look[l]) = 0 /\ ctx \in [Loops -> SUBSET Built] /\ Nil \notin Loops
  BY EmptySeq, RegistryAssumption DEF RegistryAssumption, Built, Shape
<1>2. \A b \in Built : bat[b].addr \in Addrs
  BY Typed
<1>3. Shape'
  BY <1>0 DEF Shape
<1>4. Settings'
  BY <1>0 DEF Settings
<1>1. \A k \in Loops : \A x \in Addrs : at[x] = k /\ k # l => at'[x] = k
  BY <1>0
<1>5. Stacks'
  <2>1. \A k \in Loops : \A i \in 1 .. Len(look[k]) :
          /\ k # l
          /\ look[k][i].b # 0 => bat[look[k][i].b].addr \in Addrs
    BY <1>0, <1>2 DEF Shape
  <2> QED
    BY <1>1, <2>1 DEF Stacks
<1>6. Placed'
  BY <1>0 DEF Placed, Candidate
<1>7. Homes'
  <2>1. \A x, y \in Addrs : at'[x] = at'[y] /\ at'[x] # Nil => x = y
    BY <1>0 DEF Homes
  <2>2. \A k \in Loops : \A b \in ctx'[k] : k # l /\ b \in ctx[k] /\ bat[b].addr \in Addrs
    BY <1>0, <1>2 DEF Shape
  <2> QED
    BY <1>1, <2>1, <2>2 DEF Homes
<1> QED
  BY <1>3, <1>4, <1>5, <1>6, <1>7

-----------------------------------------------------------------------------
\* get_or_create().

\* A batcher is found: it is the loop's own.
LEMMA FindKeeps ==
  ASSUME Inv, NEW l \in Loops, NEW a \in Addrs, Find(l, a) PROVE Inv'
<1> USE DEF Find, Hits, LoopIs, loopVars, confVars, Inv
<1>1. PICK b \in Hits(l, a) : ctx' = [ctx EXCEPT ![l] = @ \union {b}]
  OBVIOUS
<1>2. Built' = Built /\ b \in active /\ b \in Built /\ bat[b].loop = l /\ at[bat[b].addr] = l
  BY <1>1 DEF Built, Shape
<1>3. Shape'
  BY <1>1, <1>2 DEF Shape
<1>4. Settings' /\ Stacks' /\ Placed'
  BY <1>2 DEF Settings, Stacks, Placed, Candidate
<1>5. Homes'
  <2>1. \A k \in Loops : \A d \in ctx'[k] : d \in ctx[k] \/ (d = b /\ k = l)
    BY <1>1 DEF Shape
  <2> QED
    BY <1>2, <2>1 DEF Homes
<1> QED
  BY <1>3, <1>4, <1>5

\* Nobody holds a batcher that is stale at the address of a living loop.
LEMMA StaleIsUnheld ==
  ASSUME Inv, NEW l \in Loops, NEW a \in Addrs, at[a] = l
  PROVE  \A k \in Loops : ctx[k] \intersect Stale(l, a) = {}
BY DEF Inv, Homes, Stale, LoopIs

\* A lookup fails: stale batchers, which nobody holds, are retired.
LEMMA MissKeeps ==
  ASSUME Inv, NEW l \in Loops, NEW a \in Addrs, Miss(l, a) PROVE Inv'
<1> USE DEF Miss, loopVars, confVars, Inv
<1> DEFINE x == [pc |-> "build", b |-> 0]
           s == look[l]
<1>0. /\ look \in [Loops -> Seq(Frames)] /\ s \in Seq(Frames) /\ x \in Frames
      /\ look' = [look EXCEPT ![l] = <<x>> \o s] /\ Built' = Built
  BY DEF Shape, Frames, Built
<1>1. /\ look'[l] = <<x>> \o s /\ look'[l] \in Seq(Frames) /\ Len(look'[l]) = Len(s) + 1
      /\ Len(s) \in Nat /\ look'[l][1] = x
      /\ \A i \in 2 .. (Len(s) + 1) : look'[l][i] = s[i - 1]
      /\ \A k \in Loops : k # l => look'[k] = look[k]
  BY <1>0, PushFrame
<1>2. Len(look'[l]) <= MaxNest
  <2>1. s = <<>> => Len(s) = 0
    BY EmptySeq
  <2> QED
    BY <1>1, <2>1, RegistryAssumption DEF RegistryAssumption, CallAllowed
<1>3. \A k \in Loops : \A i \in 1 .. Len(look'[k]) :
        \/ k = l /\ i = 1 /\ look'[k][i] = x
        \/ k = l /\ (i - 1) \in 1 .. Len(look[k]) /\ look'[k][i] = look[k][i - 1]
        \/ k # l /\ i \in 1 .. Len(look[k]) /\ look'[k][i] = look[k][i]
  BY <1>1
<1>4. Stale(l, a) \subseteq active
  BY DEF Stale
<1>5. Shape'
  <2>1. raced' \in BOOLEAN
    OBVIOUS
  <2>2. look' \in [Loops -> Seq(Frames)]
    BY <1>0, <1>1
  <2>3. \A k \in Loops : \A i \in 1 .. Len(look'[k]) : look'[k][i].b \in Built \union {0}
    BY <1>3 DEF Shape
  <2>4. \A k \in Loops : Len(look'[k]) <= MaxNest
    BY <1>1, <1>2 DEF Shape
  <2> QED
    BY <1>0, <1>4, <2>1, <2>2, <2>3, <2>4 DEF Shape
<1>6. Settings'
  BY <1>0 DEF Settings
<1>7. Stacks'
  <2>1. ASSUME NEW k \in Loops, NEW i \in 1 .. Len(look'[k])
        PROVE  /\ look'[k][i].pc = "build" <=> look'[k][i].b = 0
               /\ look'[k][i].b # 0 => /\ bat[look'[k][i].b].loop = k
                                       /\ at[bat[look'[k][i].b].addr] = k
    BY <1>3 DEF Stacks
  <2>2. ASSUME NEW k \in Loops, NEW i \in 1 .. Len(look'[k]), NEW j \in 1 .. Len(look'[k]),
               look'[k][i].b = look'[k][j].b, look'[k][i].b # 0
        PROVE  i = j
    <3>1. CASE k = l
      <4>1. i # 1 /\ j # 1
        BY <1>3, <2>2, <3>1
      <4>2. /\ (i - 1) \in 1 .. Len(look[k]) /\ (j - 1) \in 1 .. Len(look[k])
            /\ look'[k][i] = look[k][i - 1] /\ look'[k][j] = look[k][j - 1]
        BY <1>3, <3>1, <4>1
      <4>3. i - 1 = j - 1
        <5> DEFINE p == i - 1
                   q == j - 1
        <5>1. /\ p \in 1 .. Len(look[k]) /\ q \in 1 .. Len(look[k])
              /\ look[k][p].b = look[k][q].b /\ look[k][p].b # 0
          BY <2>2, <4>2
        <5> HIDE DEF p, q
        <5>2. p = q
          BY <5>1 DEF Stacks
        <5> QED
          BY <5>2 DEF p, q
      <4> QED
        BY <1>1, <3>1, <4>3
    <3>2. CASE k # l
      BY <1>1, <2>2, <3>2 DEF Stacks
    <3> QED
      BY <3>1, <3>2
  <2> QED
    BY <2>1, <2>2 DEF Stacks
<1>8. Placed'
  <2>1. ASSUME NEW b \in Built PROVE Candidate(b)' <=> Candidate(b)
    <3>1. b # 0
      BY DEF Built
    <3>2. ASSUME Candidate(b)' PROVE Candidate(b)
      BY <1>3, <3>1, <3>2 DEF Candidate
    <3>3. ASSUME Candidate(b) PROVE Candidate(b)'
      <4>0. PICK k \in Loops : \E i \in 1 .. Len(look[k]) : look[k][i].b = b
        BY <3>3 DEF Candidate
      <4>1. PICK i \in 1 .. Len(look[k]) : look[k][i].b = b
        BY <4>0
      <4>2. CASE k = l
        <5>1. i + 1 \in 1 .. Len(look'[l]) /\ look'[l][i + 1] = look[l][i]
          BY <1>1, <4>2
        <5> QED
          BY <4>1, <4>2, <5>1 DEF Candidate
      <4>3. CASE k # l
        BY <1>1, <4>1, <4>3 DEF Candidate
      <4> QED
        BY <4>2, <4>3
    <3> QED
      BY <3>2, <3>3
  <2> QED
    BY <1>0, <1>4, <2>1 DEF Placed
<1>9. Homes'
  <2>1. \A k \in Loops : ctx[k] \intersect Stale(l, a) = {}
    BY StaleIsUnheld
  <2> QED
    BY <1>4, <2>1 DEF Homes
<1> QED
  BY <1>5, <1>6, <1>7, <1>8, <1>9

\* The candidate is new, of this loop, and made for the address it lives at.
LEMMA ConstructKeeps ==
  ASSUME Inv, NEW l \in Loops, NEW a \in Addrs, Construct(l, a) PROVE Inv'
<1> USE DEF Construct, loopVars, confVars, Inv
<1> DEFINE n == Len(bat) + 1
           x == [pc |-> "lat", b |-> n]
           r == [loop |-> l, addr |-> a, max |-> config["cap"], cur |-> config["cap"],
                 lat |-> Default]
           s == look[l]
<1>0. /\ look \in [Loops -> Seq(Frames)] /\ s \in Seq(Frames) /\ s # <<>>
      /\ Head(s).pc = "build" /\ bat \in Seq(Batchers) /\ Len(bat) \in Nat
      /\ Len(bat) < MaxBatchers /\ MaxBatchers \in Nat
  BY LenProperties, RegistryAssumption DEF RegistryAssumption, Shape, Top
<1>1. x \in Frames /\ r \in Batchers
  BY <1>0 DEF Frames, Batchers, Settings, Ids, Keys, Vals
<1>2. /\ bat' \in Seq(Batchers) /\ Len(bat') = n
      /\ \A b \in Built : bat'[b] = bat[b]
      /\ bat'[n] = r /\ bat'[n].loop = l /\ bat'[n].addr = a
  BY <1>0, <1>1, AppendProperties DEF Built
<1>3. /\ Built' = Built \union {n} /\ n \notin Built /\ n # 0
  BY <1>0, <1>2 DEF Built
<1>4. /\ look'[l] = [s EXCEPT ![1] = x] /\ look'[l] \in Seq(Frames) /\ Len(look'[l]) = Len(s)
      /\ Len(s) \in Nat \ {0} /\ s[1].pc = "build" /\ look'[l][1] = x
      /\ \A i \in 2 .. Len(s) : look'[l][i] = s[i]
      /\ \A k \in Loops : k # l => look'[k] = look[k]
  BY <1>0, <1>1, TopFrame
<1>5. s[1].b = 0
  BY <1>4 DEF Stacks
<1>6. \A k \in Loops : \A i \in 1 .. Len(look'[k]) :
        /\ i \in 1 .. Len(look[k])
        /\ (k = l /\ i = 1 /\ look'[k][i] = x) \/ (~(k = l /\ i = 1) /\ look'[k][i] = look[k][i])
  BY <1>4
<1>7. \A k \in Loops : Len(look'[k]) = Len(look[k])
  BY <1>4
<1>8. \A k \in Loops : \A i \in 1 .. Len(look[k]) : look[k][i].b \in Built \union {0}
  BY DEF Shape
<1>9. Shape'
  <2>1. look' \in [Loops -> Seq(Frames)]
    BY <1>0, <1>4
  <2>2. \A k \in Loops : \A i \in 1 .. Len(look'[k]) : look'[k][i].b \in Built' \union {0}
    BY <1>3, <1>6, <1>8
  <2>3. \A k \in Loops : Len(look'[k]) <= MaxNest
    BY <1>7 DEF Shape
  <2>4. Len(bat') <= MaxBatchers
    BY <1>0, <1>2
  <2> QED
    BY <1>2, <1>3, <2>1, <2>2, <2>3, <2>4 DEF Shape
<1>10. Settings'
  BY <1>3 DEF Settings
<1>11. Stacks'
  <2>1. ASSUME NEW k \in Loops, NEW i \in 1 .. Len(look'[k])
        PROVE  /\ look'[k][i].pc = "build" <=> look'[k][i].b = 0
               /\ look'[k][i].b # 0 => /\ bat'[look'[k][i].b].loop = k
                                       /\ at[bat'[look'[k][i].b].addr] = k
    <3>1. CASE k = l /\ i = 1
      BY <1>2, <1>3, <1>6, <3>1
    <3>2. CASE ~(k = l /\ i = 1)
      <4>1. i \in 1 .. Len(look[k]) /\ look'[k][i] = look[k][i]
        BY <1>6, <3>2
      <4>2. look[k][i].b # 0 => bat'[look[k][i].b] = bat[look[k][i].b]
        BY <1>2, <1>8, <4>1
      <4>3. /\ look[k][i].pc = "build" <=> look[k][i].b = 0
            /\ look[k][i].b # 0 => /\ bat[look[k][i].b].loop = k
                                   /\ at[bat[look[k][i].b].addr] = k
        BY <4>1 DEF Stacks
      <4> QED
        BY <4>1, <4>2, <4>3
    <3> QED
      BY <3>1, <3>2
  <2>2. ASSUME NEW k \in Loops, NEW i \in 1 .. Len(look'[k]), NEW j \in 1 .. Len(look'[k]),
               look'[k][i].b = look'[k][j].b, look'[k][i].b # 0
        PROVE  i = j
    <3>1. \A m \in 1 .. Len(look'[k]) : look'[k][m].b = n => k = l /\ m = 1
      BY <1>3, <1>6, <1>8
    <3>2. CASE look'[k][i].b = n
      BY <2>2, <3>1, <3>2
    <3>3. CASE look'[k][i].b # n
      <4>1. look'[k][i] = look[k][i] /\ look'[k][j] = look[k][j]
        BY <1>6, <2>2, <3>3
      <4>2. /\ i \in 1 .. Len(look[k]) /\ j \in 1 .. Len(look[k])
            /\ look[k][i].b = look[k][j].b /\ look[k][i].b # 0
        BY <1>7, <2>2, <4>1
      <4> QED
        BY <4>2 DEF Stacks
    <3> QED
      BY <3>2, <3>3
  <2> QED
    BY <2>1, <2>2 DEF Stacks
<1>12. Placed'
  <2>1. \A b \in Built : Candidate(b)' <=> Candidate(b)
    <3> SUFFICES ASSUME NEW b \in Built PROVE Candidate(b)' <=> Candidate(b)
      OBVIOUS
    <3>1. b # 0 /\ b # n
      BY <1>3 DEF Built
    <3>2. \A k \in Loops : \A i \in 1 .. Len(look[k]) :
            look'[k][i].b = b <=> look[k][i].b = b
      BY <1>5, <1>6, <1>7, <3>1
    <3> QED
      BY <1>7, <3>2 DEF Candidate
  <2>2. ASSUME NEW b, b = n PROVE Candidate(b)'
    <3>1. 1 \in 1 .. Len(look'[l]) /\ look'[l][1].b = b
      BY <1>4, <2>2
    <3> QED
      BY <3>1 DEF Candidate
  <2>3. n \notin active \union retired \union freed
    BY <1>3 DEF Shape
  <2>4. \A b \in Built' : b \in Built \/ b = n
    BY <1>3
  <2> HIDE DEF n
  <2> QED
    BY <2>1, <2>2, <2>3, <2>4 DEF Placed
<1>13. Homes'
  <2>1. \A b \in active : bat'[b] = bat[b]
    BY <1>2 DEF Shape
  <2>2. \A k \in Loops : \A b \in ctx[k] : bat'[b] = bat[b]
    BY <2>1 DEF Homes
  <2>3. ASSUME NEW b \in active, NEW d \in active, bat'[b].addr = bat'[d].addr PROVE b = d
    <3>1. bat'[b] = bat[b] /\ bat'[d] = bat[d]
      BY <2>1
    <3>2. bat[b].addr = bat[d].addr
      BY <2>3, <3>1
    <3> QED
      BY <3>2 DEF Homes
  <2>4. ASSUME NEW k \in Loops, NEW b \in ctx[k]
        PROVE  b \in active /\ bat'[b].loop = k /\ at[bat'[b].addr] = k
    <3>1. bat'[b] = bat[b]
      BY <2>2
    <3>2. b \in active /\ bat[b].loop = k /\ at[bat[b].addr] = k
      BY DEF Homes
    <3> QED
      BY <3>1, <3>2
  <2> QED
    BY <2>3, <2>4 DEF Homes
<1> QED
  BY <1>9, <1>10, <1>11, <1>12, <1>13

\* A candidate gets its target latency.
LEMMA SetCandidateKeeps ==
  ASSUME Inv, NEW l \in Loops, SetCandidate(l) PROVE Inv'
<1> USE DEF SetCandidate, loopVars, confVars, Inv
<1> DEFINE s == look[l]
           h == Head(s)
           x == [h EXCEPT !.pc = "insert"]
<1>0. /\ look \in [Loops -> Seq(Frames)] /\ s \in Seq(Frames) /\ s # <<>>
      /\ h.pc = "lat" /\ bat \in Seq(Batchers) /\ config["lat"] \in Vals
  BY DEF Shape, Top, Settings, Keys
<1>1. /\ bat' \in Seq(Batchers) /\ Len(bat') = Len(bat) /\ Built' = Built
      /\ \A b \in Built : bat'[b].loop = bat[b].loop /\ bat'[b].addr = bat[b].addr
  <2> DEFINE c == h.b
             v == config["lat"]
  <2>1. bat' = [bat EXCEPT ![c].lat = v] /\ v \in Vals
    BY <1>0
  <2> HIDE DEF c, v
  <2> QED
    BY <2>1, SettingKeeps DEF Built
<1>2. h \in Frames /\ h = s[1] /\ Len(s) \in Nat \ {0}
  BY <1>0, PopFrame
<1>3. x \in Frames /\ x.b = h.b /\ x.pc = "insert"
  BY <1>2 DEF Frames
<1>4. /\ look'[l] = [s EXCEPT ![1] = x]
      /\ \A k \in Loops : k # l => look'[k] = look[k]
  BY <1>0, <1>2
<1>5. /\ look'[l] \in Seq(Frames) /\ Len(look'[l]) = Len(s) /\ look'[l][1] = x
      /\ \A i \in 2 .. Len(s) : look'[l][i] = s[i]
  <2> HIDE DEF x
  <2>1. /\ [s EXCEPT ![1] = x] \in Seq(Frames) /\ Len([s EXCEPT ![1] = x]) = Len(s)
        /\ [s EXCEPT ![1] = x][1] = x
        /\ \A i \in 2 .. Len(s) : [s EXCEPT ![1] = x][i] = s[i]
    BY <1>0, <1>3, TopFrame
  <2> QED
    BY <1>4, <2>1
<1>6. \A k \in Loops : Len(look'[k]) = Len(look[k])
  BY <1>4, <1>5
<1>7. \A k \in Loops : \A i \in 1 .. Len(look[k]) :
        /\ look'[k][i].b = look[k][i].b
        /\ look'[k][i].pc = "build" <=> look[k][i].pc = "build"
  BY <1>0, <1>2, <1>3, <1>4, <1>5
<1>8. \A k \in Loops : \A i \in 1 .. Len(look[k]) : look[k][i].b \in Built \union {0}
  BY DEF Shape
<1>9. Shape'
  <2>1. look' \in [Loops -> Seq(Frames)]
    BY <1>0, <1>4, <1>5
  <2> QED
    BY <1>1, <1>6, <1>7, <1>8, <2>1 DEF Shape
<1>10. Settings'
  BY <1>1 DEF Settings
<1>11. Stacks'
  <2>1. ASSUME NEW k \in Loops, NEW i \in 1 .. Len(look'[k])
        PROVE  /\ look'[k][i].pc = "build" <=> look'[k][i].b = 0
               /\ look'[k][i].b # 0 => /\ bat'[look'[k][i].b].loop = k
                                       /\ at[bat'[look'[k][i].b].addr] = k
    <3>1. /\ i \in 1 .. Len(look[k]) /\ look'[k][i].b = look[k][i].b
          /\ look'[k][i].pc = "build" <=> look[k][i].pc = "build"
      BY <1>6, <1>7
    <3>2. look[k][i].b # 0 => /\ bat'[look[k][i].b].loop = bat[look[k][i].b].loop
                              /\ bat'[look[k][i].b].addr = bat[look[k][i].b].addr
      BY <1>1, <1>8, <3>1
    <3> QED
      BY <3>1, <3>2 DEF Stacks
  <2>2. ASSUME NEW k \in Loops, NEW i \in 1 .. Len(look'[k]), NEW j \in 1 .. Len(look'[k]),
               look'[k][i].b = look'[k][j].b, look'[k][i].b # 0
        PROVE  i = j
    <3>1. /\ i \in 1 .. Len(look[k]) /\ j \in 1 .. Len(look[k])
          /\ look[k][i].b = look[k][j].b /\ look[k][i].b # 0
      BY <1>6, <1>7, <2>2
    <3> QED
      BY <3>1 DEF Stacks
  <2> QED
    BY <2>1, <2>2 DEF Stacks
<1>12. Placed'
  BY <1>1, <1>6, <1>7 DEF Placed, Candidate
<1>13. Homes'
  BY <1>1 DEF Homes, Shape
<1> QED
  BY <1>9, <1>10, <1>11, <1>12, <1>13

\* The candidate leaves the stack, which no other call has.
LEMMA InsertPops ==
  ASSUME Inv, NEW l \in Loops, NEW a \in Addrs, Insert(l, a)
  PROVE  LET b == Head(look[l]).b IN
         /\ b \in Built /\ Candidate(b) /\ bat[b].loop = l /\ bat[b].addr = a /\ at[a] = l
         /\ Built' = Built /\ Stacks' /\ look' \in [Loops -> Seq(Frames)]
         /\ \A k \in Loops : Len(look'[k]) <= MaxNest
         /\ \A k \in Loops : \A i \in 1 .. Len(look'[k]) : look'[k][i].b \in Built \union {0}
         /\ \A d \in Built : Candidate(d)' <=> Candidate(d) /\ d # b
<1> USE DEF Inv
<1> DEFINE s == look[l]
           b == Head(look[l]).b
<1>0. /\ look \in [Loops -> Seq(Frames)] /\ s \in Seq(Frames) /\ s # <<>>
      /\ Head(s).pc = "insert" /\ look' = [look EXCEPT ![l] = Tail(s)]
      /\ at[a] = l /\ Built' = Built /\ bat' = bat /\ at' = at
  BY DEF Insert, loopVars, Shape, Top, Built
<1>1. /\ Tail(s) \in Seq(Frames) /\ Len(Tail(s)) = Len(s) - 1 /\ Len(s) \in Nat \ {0}
      /\ Head(s) = s[1] /\ \A i \in 1 .. (Len(s) - 1) : Tail(s)[i] = s[i + 1]
  BY <1>0, PopFrame
<1>2. /\ look'[l] = Tail(s) /\ look' \in [Loops -> Seq(Frames)]
      /\ \A k \in Loops : k # l => look'[k] = look[k]
  BY <1>0, <1>1
<1>3. \A k \in Loops : \A i \in 1 .. Len(look'[k]) :
        \/ k = l /\ (i + 1) \in 1 .. Len(look[k]) /\ look'[k][i] = look[k][i + 1] /\ i + 1 # 1
        \/ k # l /\ i \in 1 .. Len(look[k]) /\ look'[k][i] = look[k][i]
  BY <1>1, <1>2
<1>4. \A k \in Loops : \A i \in 1 .. Len(look[k]) :
        \/ k = l /\ i = 1 /\ look[k][i].b = b
        \/ k = l /\ (i - 1) \in 1 .. Len(look'[k]) /\ look'[k][i - 1] = look[k][i] /\ i # 1
        \/ k # l /\ i \in 1 .. Len(look'[k]) /\ look'[k][i] = look[k][i]
  <2>1. look[l][1].b = b
    BY <1>0, <1>1
  <2>2. ASSUME NEW i \in 1 .. Len(look[l]), i # 1
        PROVE  (i - 1) \in 1 .. Len(look'[l]) /\ look'[l][i - 1] = look[l][i]
    <3>1. (i - 1) \in 1 .. (Len(s) - 1) /\ (i - 1) + 1 = i
      BY <1>1, <2>2
    <3>2. Tail(s)[i - 1] = s[(i - 1) + 1]
      BY <1>1, <3>1
    <3> QED
      BY <1>1, <1>2, <3>1, <3>2
  <2> QED
    BY <1>2, <2>1, <2>2
<1>5. b # 0 /\ b \in Built /\ bat[b].loop = l /\ at[bat[b].addr] = l
  <2>1. 1 \in 1 .. Len(look[l]) /\ look[l][1].b = b /\ look[l][1].pc = "insert"
    BY <1>0, <1>1
  <2>2. b # 0 /\ b \in Built
    BY <2>1 DEF Stacks, Shape
  <2> QED
    BY <2>1, <2>2 DEF Stacks
<1>6. bat[b].addr = a
  <2>1. bat[b].addr \in Addrs
    BY <1>5, Typed
  <2>2. l # Nil
    BY RegistryAssumption DEF RegistryAssumption
  <2> QED
    BY <1>0, <1>5, <2>1, <2>2 DEF Homes
<1>7. Candidate(b)
  <2>1. 1 \in 1 .. Len(look[l]) /\ look[l][1].b = b
    BY <1>0, <1>1
  <2> QED
    BY <2>1 DEF Candidate
<1>8. \A k \in Loops : \A i \in 1 .. Len(look[k]) : look[k][i].b = b => k = l /\ i = 1
  <2> SUFFICES ASSUME NEW k \in Loops, NEW i \in 1 .. Len(look[k]), look[k][i].b = b
      PROVE k = l /\ i = 1
    OBVIOUS
  <2>1. k = l
    BY <1>5 DEF Stacks
  <2>2. 1 \in 1 .. Len(look[l]) /\ look[l][1].b = b
    BY <1>0, <1>1
  <2> QED
    BY <1>5, <2>1, <2>2 DEF Stacks
<1>9. Stacks'
  <2>1. ASSUME NEW k \in Loops, NEW i \in 1 .. Len(look'[k])
        PROVE  /\ look'[k][i].pc = "build" <=> look'[k][i].b = 0
               /\ look'[k][i].b # 0 => /\ bat'[look'[k][i].b].loop = k
                                       /\ at'[bat'[look'[k][i].b].addr] = k
    BY <1>0, <1>3 DEF Stacks
  <2>2. ASSUME NEW k \in Loops, NEW i \in 1 .. Len(look'[k]), NEW j \in 1 .. Len(look'[k]),
               look'[k][i].b = look'[k][j].b, look'[k][i].b # 0
        PROVE  i = j
    <3>1. CASE k = l
      <4> DEFINE p == i + 1
                 q == j + 1
      <4>1. /\ p \in 1 .. Len(look[k]) /\ q \in 1 .. Len(look[k])
            /\ look[k][p].b = look[k][q].b /\ look[k][p].b # 0
        BY <1>3, <2>2, <3>1
      <4> HIDE DEF p, q
      <4>2. p = q
        BY <4>1 DEF Stacks
      <4>3. i \in Nat /\ j \in Nat
        BY <1>1, <1>2, <3>1
      <4> QED
        BY <4>2, <4>3 DEF p, q
    <3>2. CASE k # l
      BY <1>2, <2>2, <3>2 DEF Stacks
    <3> QED
      BY <3>1, <3>2
  <2> QED
    BY <2>1, <2>2 DEF Stacks
<1>10. \A k \in Loops : Len(look'[k]) <= MaxNest
  <2>1. Len(look[l]) <= MaxNest /\ MaxNest \in Nat
    BY RegistryAssumption DEF RegistryAssumption, Shape
  <2> QED
    BY <1>1, <1>2, <2>1 DEF Shape
<1>11. \A k \in Loops : \A i \in 1 .. Len(look'[k]) : look'[k][i].b \in Built \union {0}
  BY <1>3 DEF Shape
<1>12. ASSUME NEW d \in Built PROVE Candidate(d)' <=> Candidate(d) /\ d # b
  <2>1. ASSUME Candidate(d)' PROVE Candidate(d) /\ d # b
    BY <1>3, <1>8, <2>1 DEF Candidate
  <2>2. ASSUME Candidate(d), d # b PROVE Candidate(d)'
    BY <1>4, <2>2 DEF Candidate
  <2> QED
    BY <2>1, <2>2
<1> HIDE DEF Inv
<1> QED
  BY <1>0, <1>2, <1>5, <1>6, <1>7, <1>9, <1>10, <1>11, <1>12

\* A candidate is inserted, or destroyed in favour of the batcher that came before.
LEMMA InsertKeeps ==
  ASSUME Inv, NEW l \in Loops, NEW a \in Addrs, Insert(l, a) PROVE Inv'
<1> USE DEF Inv, confVars, loopVars
<1> DEFINE b == Head(look[l]).b
<1>0. /\ b \in Built /\ Candidate(b) /\ bat[b].loop = l /\ bat[b].addr = a /\ at[a] = l
      /\ Built' = Built /\ Stacks' /\ look' \in [Loops -> Seq(Frames)]
      /\ \A k \in Loops : Len(look'[k]) <= MaxNest
      /\ \A k \in Loops : \A i \in 1 .. Len(look'[k]) : look'[k][i].b \in Built \union {0}
      /\ \A d \in Built : Candidate(d)' <=> Candidate(d) /\ d # b
  BY InsertPops
<1>1. /\ UNCHANGED <<bat, at, gone, config, conf, asked, push, raced>>
      /\ \/ /\ Hits(l, a) = {}
            /\ active' = (active \ Stale(l, a)) \union {b}
            /\ retired' = retired \union Stale(l, a)
            /\ ctx' = [ctx EXCEPT ![l] = @ \union {b}]
            /\ freed' = freed
         \/ /\ freed' = freed \union {b} /\ active' = active /\ retired' = retired
            /\ \E h \in Hits(l, a) : ctx' = [ctx EXCEPT ![l] = @ \union {h}]
  BY DEF Insert
<1> HIDE DEF b
<1>2. Stale(l, a) \subseteq active /\ Hits(l, a) \subseteq active
  BY DEF Stale, Hits
<1>3. Settings'
  BY <1>0, <1>1 DEF Settings
<1>4. b \notin active \union retired \union freed
  BY <1>0 DEF Placed
<1>5. CASE /\ Hits(l, a) = {}
           /\ active' = (active \ Stale(l, a)) \union {b}
           /\ retired' = retired \union Stale(l, a)
           /\ ctx' = [ctx EXCEPT ![l] = @ \union {b}]
           /\ freed' = freed
  <2>1. Shape'
    BY <1>0, <1>1, <1>2, <1>5 DEF Shape
  <2>2. Placed'
    BY <1>0, <1>2, <1>4, <1>5 DEF Placed
  <2>3. \A d \in active \ Stale(l, a) : bat[d].addr # a
    BY <1>5 DEF Hits, Stale
  <2>4. \A k \in Loops : \A d \in ctx'[k] :
          (d \in ctx[k] /\ d \notin Stale(l, a)) \/ (d = b /\ k = l)
    BY <1>0, <1>5, StaleIsUnheld DEF Shape
  <2>5. \A d, e \in active' : bat[d].addr = bat[e].addr => d = e
    BY <1>0, <1>5, <2>3 DEF Homes
  <2>6. Homes'
    BY <1>0, <1>1, <1>5, <2>4, <2>5 DEF Homes
  <2> QED
    BY <1>0, <1>3, <2>1, <2>2, <2>6
<1>6. CASE /\ freed' = freed \union {b} /\ active' = active /\ retired' = retired
           /\ \E h \in Hits(l, a) : ctx' = [ctx EXCEPT ![l] = @ \union {h}]
  <2>1. PICK h \in Hits(l, a) : ctx' = [ctx EXCEPT ![l] = @ \union {h}]
    BY <1>6
  <2>2. h \in active /\ h \in Built /\ bat[h].loop = l /\ at[bat[h].addr] = l
    BY <1>0 DEF Hits, LoopIs, Shape
  <2>3. Shape'
    BY <1>0, <1>1, <1>6, <2>1, <2>2 DEF Shape
  <2>4. Placed'
    BY <1>0, <1>4, <1>6 DEF Placed
  <2>5. \A k \in Loops : \A d \in ctx'[k] : d \in ctx[k] \/ (d = h /\ k = l)
    BY <2>1 DEF Shape
  <2>6. Homes'
    BY <1>1, <1>6, <2>2, <2>5 DEF Homes
  <2> QED
    BY <1>0, <1>3, <2>3, <2>4, <2>6
<1> QED
  BY <1>1, <1>5, <1>6

\* At exit nothing is held and nothing is being built.
LEMMA ClearKeeps == ASSUME Inv, Clear PROVE Inv'
<1> USE DEF Inv, Clear, confVars, loopVars
<1>0. Built' = Built /\ \A b : Candidate(b)' <=> Candidate(b)
  BY DEF Built, Candidate
<1>1. \A b \in Built : ~Candidate(b)
  <2>1. \A l \in Loops : look[l] = <<>> /\ Len(look[l]) = 0
    BY EmptySeq DEF Building
  <2> QED
    BY <2>1 DEF Candidate
<1>2. Shape'
  BY <1>0 DEF Shape
<1>3. Settings' /\ Stacks'
  BY <1>0 DEF Settings, Stacks
<1>4. Placed'
  BY <1>0, <1>1 DEF Placed
<1>5. Homes'
  BY DEF Homes
<1> QED
  BY <1>2, <1>3, <1>4, <1>5

-----------------------------------------------------------------------------
\* configure() and the pushes.

\* A step that leaves the batchers alone, but for the settings of one.
LEMMA BatchersKeep ==
  ASSUME Inv, UNCHANGED <<at, gone, active, retired, freed, look, ctx>>,
         \/ bat' = bat
         \/ \E c : \E v \in Vals : \/ bat' = [bat EXCEPT ![c].max = v]
                                   \/ bat' = [bat EXCEPT ![c].cur = v]
                                   \/ bat' = [bat EXCEPT ![c].lat = v],
         push' \in [Ids -> Vals \union {0}], raced' \in BOOLEAN, Settings'
  PROVE  Inv'
<1>1. /\ bat' \in Seq(Batchers) /\ Len(bat') = Len(bat)
      /\ \A b \in Built : bat'[b].loop = bat[b].loop /\ bat'[b].addr = bat[b].addr
  <2>1. CASE bat' = bat
    BY <2>1 DEF Inv, Shape
  <2>2. CASE bat' # bat
    <3>1. PICK c : \E v \in Vals : \/ bat' = [bat EXCEPT ![c].max = v]
                                   \/ bat' = [bat EXCEPT ![c].cur = v]
                                   \/ bat' = [bat EXCEPT ![c].lat = v]
      BY <2>2
    <3>2. PICK v \in Vals : \/ bat' = [bat EXCEPT ![c].max = v]
                            \/ bat' = [bat EXCEPT ![c].cur = v]
                            \/ bat' = [bat EXCEPT ![c].lat = v]
      BY <3>1
    <3> QED
      BY <3>2, SettingKeeps DEF Inv
  <2> QED
    BY <2>1, <2>2
<1>2. Quiet
  BY <1>1 DEF Quiet
<1>3. Shape'
  BY <1>1 DEF Inv, Shape, Built
<1>4. Stacks' /\ Placed' /\ Homes'
  BY <1>2, QuietKeeps
<1> QED
  BY <1>3, <1>4 DEF Inv

\* A call of configure() or reset_config() begins with a copy.
LEMMA CallBeginsKeeps ==
  ASSUME Inv, NEW c \in Calls,
         (\E k \in Keys, v \in Vals : Get(c, k, v)) \/ Reset(c)
  PROVE  Inv'
<1> USE DEF Inv
<1>0. Defaults \in [Keys -> Vals] /\ conf \in [Calls -> ConfCalls] /\ config \in [Keys -> Vals]
  BY DEF Settings, Defaults, Vals
<1>1. /\ UNCHANGED <<at, gone, bat, active, retired, freed, look, ctx, push, config>>
      /\ raced' \in BOOLEAN /\ asked' \in [Keys -> Vals]
  BY <1>0 DEF Get, Reset, regVars, loopVars
<1>2. PICK m \in [Keys -> Vals] :
        conf' = [conf EXCEPT ![c].pc = "update", ![c].copy = m]
  BY <1>0 DEF Get, Reset
<1>3. /\ conf' \in [Calls -> ConfCalls]
      /\ \A d \in Calls : conf'[d].todo = conf[d].todo
      /\ \A d \in Calls : conf'[d].pc \in {"max", "clamp"} =>
                            conf'[d].pc = conf[d].pc /\ conf'[d].val = conf[d].val
  BY <1>0, <1>2 DEF ConfCalls
<1>4. Settings'
  BY <1>0, <1>1, <1>3 DEF Settings, Built
<1> QED
  BY <1>1, <1>4, BatchersKeep DEF Shape

\* A step of configure() works on copies, and stores one setting at a time.
LEMMA ConfigureStepKeeps ==
  ASSUME Inv, NEW c \in Calls, ConfigureStep(c) PROVE Inv'
<1> USE DEF Inv, loopVars, regVars
<1>0. /\ Defaults \in [Keys -> Vals] /\ conf \in [Calls -> ConfCalls]
      /\ config \in [Keys -> Vals] /\ asked \in [Keys -> Vals]
      /\ "cap" \in Keys /\ "lat" \in Keys /\ config["cap"] \in Vals /\ config["lat"] \in Vals
      /\ \A d \in Calls : conf[d].todo \subseteq Built
      /\ \A d \in Calls : conf[d].pc \in {"max", "clamp"} => conf[d].val \in Vals
  BY DEF Settings, Defaults, Vals, Keys
<1>1. active \subseteq Built /\ Built \subseteq Ids
  BY Stored, RegistryAssumption DEF RegistryAssumption, Shape, Built, Ids
<1>2. push \in [Ids -> Vals \union {0}] /\ raced \in BOOLEAN
  BY DEF Shape
<1>3. ASSUME UNCHANGED <<at, gone, active, retired, freed, look, ctx, push, raced, asked>>,
             \/ bat' = bat
             \/ \E b : \E v \in Vals : \/ bat' = [bat EXCEPT ![b].max = v]
                                       \/ bat' = [bat EXCEPT ![b].cur = v]
                                       \/ bat' = [bat EXCEPT ![b].lat = v],
             config' \in [Keys -> Vals],
             NEW r \in ConfCalls, conf' = [conf EXCEPT ![c] = r],
             r.todo \subseteq Built, r.pc \in {"max", "clamp"} => r.val \in Vals
      PROVE  Inv'
  <2>1. Built' = Built
    <3>1. Len(bat') = Len(bat)
      <4>1. CASE bat' = bat
        BY <4>1
      <4>2. ASSUME NEW b, NEW v \in Vals,
                   \/ bat' = [bat EXCEPT ![b].max = v]
                   \/ bat' = [bat EXCEPT ![b].cur = v]
                   \/ bat' = [bat EXCEPT ![b].lat = v]
            PROVE  Len(bat') = Len(bat)
        BY <4>2, SettingKeeps
      <4> QED
        BY <1>3, <4>1, <4>2
    <3> QED
      BY <3>1 DEF Built
  <2>2. conf' \in [Calls -> ConfCalls] /\ conf'[c] = r /\ \A d \in Calls : d # c => conf'[d] = conf[d]
    BY <1>0, <1>3
  <2>3. Settings'
    BY <1>0, <1>3, <2>1, <2>2 DEF Settings
  <2> QED
    BY <1>2, <1>3, <2>3, BatchersKeep
<1> DEFINE f == conf[c]
<1>4. f \in ConfCalls
  BY <1>0
<1>5. CASE Update(c)
  <2> DEFINE r == [f EXCEPT !.pc = "snapshot", !.copy = Defaults]
  <2>1. r \in ConfCalls /\ r.todo = f.todo /\ r.pc = "snapshot" /\ conf' = [conf EXCEPT ![c] = r]
    BY <1>0, <1>4, <1>5 DEF Update, ConfCalls
  <2>2. config' \in [Keys -> Vals]
    BY <1>4, <1>5 DEF Update, ConfCalls
  <2> HIDE DEF r
  <2>3. UNCHANGED <<at, gone, active, retired, freed, look, ctx, push, raced, asked, bat>>
    BY <1>5 DEF Update
  <2> QED
    BY <1>0, <1>3, <2>1, <2>2, <2>3
<1>6. CASE Snapshot(c)
  <2> DEFINE r == [f EXCEPT !.pc = "next", !.todo = active]
  <2>1. r \in ConfCalls /\ r.todo = active /\ r.pc = "next" /\ conf' = [conf EXCEPT ![c] = r]
    BY <1>0, <1>1, <1>4, <1>6 DEF Snapshot, ConfCalls
  <2> HIDE DEF r
  <2>2. UNCHANGED <<at, gone, active, retired, freed, look, ctx, push, raced, asked, bat, config>>
    BY <1>6 DEF Snapshot
  <2> QED
    BY <1>0, <1>1, <1>3, <2>1, <2>2
<1>7. CASE ReadCap(c)
  <2>1. PICK b \in f.todo :
          conf' = [conf EXCEPT ![c].pc = "max", ![c].b = b, ![c].todo = @ \ {b},
                               ![c].val = config["cap"]]
    BY <1>7 DEF ReadCap
  <2> DEFINE r == [f EXCEPT !.pc = "max", !.b = b, !.todo = @ \ {b}, !.val = config["cap"]]
  <2>2. f.todo \subseteq Built /\ b \in Ids
    BY <1>0, <1>1
  <2>3. r \in ConfCalls
    BY <1>0, <1>1, <1>4, <2>2 DEF ConfCalls
  <2>4. r.todo = f.todo \ {b} /\ r.pc = "max" /\ r.val = config["cap"]
    BY <1>4 DEF ConfCalls
  <2>5. conf' = [conf EXCEPT ![c] = r]
    BY <1>0, <2>1
  <2> HIDE DEF r
  <2>6. UNCHANGED <<at, gone, active, retired, freed, look, ctx, push, raced, asked, bat, config>>
    BY <1>7 DEF ReadCap
  <2> QED
    BY <1>0, <1>3, <2>2, <2>3, <2>4, <2>5, <2>6
<1>8. CASE StoreMax(c)
  <2> DEFINE r == [f EXCEPT !.pc = "clamp"]
  <2>1. /\ r \in ConfCalls /\ r.todo = f.todo /\ r.pc = "clamp" /\ r.val = f.val
        /\ conf' = [conf EXCEPT ![c] = r] /\ f.val \in Vals
    BY <1>0, <1>4, <1>8 DEF StoreMax, ConfCalls
  <2> HIDE DEF r
  <2>2. /\ UNCHANGED <<at, gone, active, retired, freed, look, ctx, push, raced, asked, config>>
        /\ bat' = [bat EXCEPT ![f.b].max = f.val]
    BY <1>8 DEF StoreMax
  <2>3. \E b : \E v \in Vals : bat' = [bat EXCEPT ![b].max = v]
    BY <2>1, <2>2
  <2> QED
    BY <1>0, <1>3, <2>1, <2>2, <2>3
<1>9. CASE Clamp(c)
  <2> DEFINE r == [f EXCEPT !.pc = "lat", !.val = 0]
  <2>1. /\ r \in ConfCalls /\ r.todo = f.todo /\ r.pc = "lat"
        /\ conf' = [conf EXCEPT ![c] = r] /\ f.val \in Vals
    BY <1>0, <1>4, <1>9 DEF Clamp, ConfCalls
  <2> HIDE DEF r
  <2>2. /\ UNCHANGED <<at, gone, active, retired, freed, look, ctx, push, raced, asked, config>>
        /\ bat' = bat \/ bat' = [bat EXCEPT ![f.b].cur = f.val]
    BY <1>9 DEF Clamp
  <2>3. bat' = bat \/ \E b : \E v \in Vals : bat' = [bat EXCEPT ![b].cur = v]
    BY <2>1, <2>2
  <2> QED
    BY <1>0, <1>3, <2>1, <2>2, <2>3
<1>10. CASE StoreLat(c)
  <2> DEFINE r == [f EXCEPT !.pc = "next", !.b = 0]
  <2>1. /\ r \in ConfCalls /\ r.todo = f.todo /\ r.pc = "next"
        /\ conf' = [conf EXCEPT ![c] = r]
    BY <1>0, <1>4, <1>10 DEF StoreLat, ConfCalls
  <2> HIDE DEF r
  <2>2. /\ UNCHANGED <<at, gone, active, retired, freed, look, ctx, push, raced, asked, config>>
        /\ bat' = [bat EXCEPT ![f.b].lat = config["lat"]]
    BY <1>10 DEF StoreLat
  <2>3. \E b : \E v \in Vals : bat' = [bat EXCEPT ![b].lat = v]
    BY <1>0, <2>2
  <2> QED
    BY <1>0, <1>3, <2>1, <2>2, <2>3
<1>11. CASE Return(c)
  <2>1. NoCall \in ConfCalls /\ NoCall.todo = {} /\ NoCall.pc = "idle"
    BY <1>0 DEF NoCall, ConfCalls
  <2>2. /\ UNCHANGED <<at, gone, active, retired, freed, look, ctx, push, raced, asked, bat, config>>
        /\ conf' = [conf EXCEPT ![c] = NoCall]
    BY <1>11 DEF Return
  <2> QED
    BY <1>0, <1>3, <2>1, <2>2
<1> QED
  BY <1>5, <1>6, <1>7, <1>8, <1>9, <1>10, <1>11 DEF ConfigureStep

\* A push reads the cap of a batcher and stores a threshold.
LEMMA PushKeeps ==
  ASSUME Inv, NEW b \in Ids, LoadMax(b) \/ StoreThreshold(b) PROVE Inv'
<1> USE DEF Inv, loopVars, regVars, confVars
<1>0. /\ push \in [Ids -> Vals \union {0}] /\ raced \in BOOLEAN
      /\ active \union retired \subseteq Built
  BY DEF Shape
<1>1. CASE LoadMax(b)
  <2>1. bat[b].max \in Vals
    <3>1. b \in Built
      BY <1>0, <1>1 DEF LoadMax
    <3>2. bat[b] \in Batchers
      BY <3>1, Typed
    <3> QED
      BY <3>2 DEF Batchers
  <2>2. /\ UNCHANGED <<at, gone, active, retired, freed, look, ctx, bat, config, conf, asked>>
        /\ push' = [push EXCEPT ![b] = bat[b].max] /\ raced' \in BOOLEAN
    BY <1>0, <1>1 DEF LoadMax
  <2>3. Settings'
    BY <2>2 DEF Settings, Built
  <2> QED
    BY <1>0, <2>1, <2>2, <2>3, BatchersKeep
<1>2. CASE StoreThreshold(b)
  <2>1. push[b] \in Vals /\ Low \in Vals
    BY <1>0, <1>2 DEF StoreThreshold, Vals
  <2>2. PICK t \in {Low, push[b]} : bat' = [bat EXCEPT ![b].cur = t]
    BY <1>2 DEF StoreThreshold
  <2>3. t \in Vals
    BY <2>1
  <2>4. /\ UNCHANGED <<at, gone, active, retired, freed, look, ctx, config, conf, asked, raced>>
        /\ push' = [push EXCEPT ![b] = 0]
    BY <1>2 DEF StoreThreshold
  <2>5. Len(bat') = Len(bat)
    BY <2>2, <2>3, SettingKeeps
  <2>6. Settings'
    BY <2>4, <2>5 DEF Settings, Built
  <2>7. push' \in [Ids -> Vals \union {0}] /\ raced' \in BOOLEAN
    BY <1>0, <2>4
  <2>8. \E c : \E v \in Vals : bat' = [bat EXCEPT ![c].cur = v]
    BY <2>2, <2>3
  <2> QED
    BY <2>4, <2>6, <2>7, <2>8, BatchersKeep
<1> QED
  BY <1>1, <1>2

\* Every step keeps the invariant.
LEMMA NextInv == Inv /\ [Next]_vars => Inv'
<1> SUFFICES ASSUME Inv, [Next]_vars PROVE Inv'
  OBVIOUS
<1>1. CASE \E l \in Loops, a \in Addrs :
             NewLoop(l, a) \/ Find(l, a) \/ Miss(l, a) \/ Construct(l, a) \/ Insert(l, a)
  BY <1>1, NewLoopKeeps, FindKeeps, MissKeeps, ConstructKeeps, InsertKeeps
<1>2. CASE (\E l \in Loops : SetCandidate(l)) \/ (\E a \in Addrs : Collect(a)) \/ Clear
  BY <1>2, SetCandidateKeeps, CollectKeeps, ClearKeeps
<1>3. CASE \E c \in Calls : \/ \E k \in Keys, v \in Vals : Get(c, k, v)
                            \/ Reset(c) \/ ConfigureStep(c)
  BY <1>3, CallBeginsKeeps, ConfigureStepKeeps
<1>4. CASE \E b \in Ids : LoadMax(b) \/ StoreThreshold(b)
  BY <1>4, PushKeeps
<1>5. CASE UNCHANGED vars
  BY <1>5 DEF vars, loopVars, regVars, confVars, Inv, Shape, Settings, Stacks, Placed,
              Homes, Candidate, Built
<1> QED
  BY <1>1, <1>2, <1>3, <1>4, <1>5 DEF Next

-----------------------------------------------------------------------------
\* A set whose members are all equal has none or one.
LEMMA AtMostOne ==
  ASSUME NEW S, \A x, y \in S : x = y PROVE Cardinality(S) <= 1
<1>1. CASE S = {}
  BY <1>1, FS_EmptySet
<1>2. CASE S # {}
  <2>1. PICK x \in S : TRUE
    BY <1>2
  <2>2. S = {x}
    BY <2>1
  <2> QED
    BY <2>2, FS_Singleton
<1> QED
  BY <1>1, <1>2

\* The members of the stack of a loop are the batchers that a call has built.
LEMMA CandidatesOf ==
  ASSUME Inv, NEW l \in Loops, NEW b \in Built
  PROVE  b \in Candidates(l) <=> \E i \in 1 .. Len(look[l]) : look[l][i].b = b
<1>1. look[l] \in Seq(Frames) /\ b # 0
  BY DEF Inv, Shape, Built
<1>2. DOMAIN look[l] = 1 .. Len(look[l])
  BY <1>1, LenProperties
<1> QED
  BY <1>1, <1>2 DEF Candidates

\* The parts of the invariant give the types and both promises.
LEMMA InvImplies == Inv => RightBatcher
<1> SUFFICES ASSUME Inv PROVE RightBatcher
  OBVIOUS
<1>1. TypeOK
  <2>1. bat \in Seq([loop : Loops, addr : Addrs, max : Vals, cur : Vals, lat : Vals])
    BY DEF Inv, Shape, Batchers
  <2>2. ASSUME NEW l \in Loops
        PROVE  /\ ctx[l] \subseteq Built
               /\ Len(look[l]) <= MaxNest
               /\ \A i \in DOMAIN look[l] :
                    look[l][i].pc \in {"build", "lat", "insert"} /\ look[l][i].b \in Built \union {0}
    <3>1. look[l] \in Seq(Frames)
      BY DEF Inv, Shape
    <3>2. DOMAIN look[l] = 1 .. Len(look[l])
      BY <3>1, LenProperties
    <3>3. \A i \in 1 .. Len(look[l]) : look[l][i] \in Frames
      BY <3>1, ElementOfSeq
    <3> QED
      BY <3>2, <3>3 DEF Inv, Shape, Frames
  <2>3. ASSUME NEW c \in Calls
        PROVE  /\ conf[c].pc \in {"idle", "update", "snapshot", "next", "max", "clamp", "lat"}
               /\ conf[c].copy \in [Keys -> Vals] /\ conf[c].todo \subseteq Built
    BY DEF Inv, Settings, ConfCalls
  <2> QED
    BY <2>1, <2>2, <2>3 DEF TypeOK, Inv, Shape, Settings
<1>2. OneForEachLoop
  <2>1. ASSUME NEW l \in Loops PROVE Cardinality(ctx[l]) <= 1
    <3>1. ASSUME NEW b \in ctx[l], NEW d \in ctx[l] PROVE b = d
      <4>1. /\ b \in active /\ d \in active /\ b \in Built /\ d \in Built
            /\ at[bat[b].addr] = l /\ at[bat[d].addr] = l
        BY DEF Inv, Homes, Shape
      <4>2. bat[b].addr \in Addrs /\ bat[d].addr \in Addrs
        BY <4>1, Typed DEF Inv
      <4>3. l # Nil
        BY RegistryAssumption DEF RegistryAssumption
      <4>4. bat[b].addr = bat[d].addr
        BY <4>1, <4>2, <4>3 DEF Inv, Homes
      <4> QED
        BY <4>1, <4>4 DEF Inv, Homes
    <3> QED
      BY <3>1, AtMostOne
  <2> QED
    BY <2>1 DEF OneForEachLoop, Inv, Homes
<1>3. ASSUME NEW b \in Built
      PROVE  Cardinality({l \in Loops : b \in Candidates(l)})
               + Cardinality({s \in {"a", "r", "f"} :
                   b \in (CASE s = "a" -> active [] s = "r" -> retired [] s = "f" -> freed)}) = 1
  <2> DEFINE S == {l \in Loops : b \in Candidates(l)}
             T == {s \in {"a", "r", "f"} :
                    b \in (CASE s = "a" -> active [] s = "r" -> retired [] s = "f" -> freed)}
  <2>1. /\ "a" \in T <=> b \in active
        /\ "r" \in T <=> b \in retired
        /\ "f" \in T <=> b \in freed
        /\ T \subseteq {"a", "r", "f"}
    OBVIOUS
  <2> HIDE DEF T
  <2>2. CASE Candidate(b)
    <3>1. PICK l \in Loops : b \in Candidates(l)
      BY <2>2, CandidatesOf DEF Candidate
    <3>2. ASSUME NEW k \in Loops, b \in Candidates(k) PROVE k = bat[b].loop
      <4>1. PICK i \in 1 .. Len(look[k]) : look[k][i].b = b
        BY <3>2, CandidatesOf
      <4>2. b # 0
        BY DEF Built
      <4> QED
        BY <4>1, <4>2 DEF Inv, Stacks
    <3>3. S = {l}
      BY <3>1, <3>2
    <3>4. T = {}
      BY <2>1, <2>2 DEF Inv, Placed
    <3>5. Cardinality(S) = 1 /\ Cardinality(T) = 0
      BY <3>3, <3>4, FS_EmptySet, FS_Singleton
    <3> HIDE DEF S
    <3>6. Cardinality(S) + Cardinality(T) = 1
      BY <3>5
    <3> QED
      BY <3>6 DEF S, T
  <2>3. CASE ~Candidate(b)
    <3>1. S = {}
      BY <2>3, CandidatesOf DEF Candidate
    <3>2. T = {"a"} \/ T = {"r"} \/ T = {"f"}
      BY <2>1, <2>3 DEF Inv, Placed
    <3>3. Cardinality(S) = 0 /\ Cardinality(T) = 1
      BY <3>1, <3>2, FS_EmptySet, FS_Singleton
    <3> HIDE DEF S
    <3>4. Cardinality(S) + Cardinality(T) = 1
      BY <3>3
    <3> QED
      BY <3>4 DEF S, T
  <2> QED
    BY <2>2, <2>3
<1>4. Accounted
  BY <1>3 DEF Accounted, Inv, Homes
<1> QED
  BY <1>1, <1>2, <1>4 DEF RightBatcher

\* Every reachable state is in the invariant.
THEOREM AlwaysInv == Spec => []Inv
  BY InitInv, NextInv, PTL DEF Spec

\* A loop gets its own batcher, and none is lost or destroyed twice, for any
\* loops, addresses and threads (batcher_registry.cpp:16-78).
THEOREM LoopsOwn == Spec => []RightBatcher
  BY AlwaysInv, InvImplies, PTL

-----------------------------------------------------------------------------
(***************************************************************************)
(* SettingsReach.  The values arrive while the call runs: what is still to *)
(* be done is in todo, and everything else already agrees.  A batcher that *)
(* is being built, and a cap that a push has read, agree too, because the  *)
(* call began with none of them under way and raced records the rest.      *)
(***************************************************************************)
Agrees(b) ==
  bat[b].max = config["cap"] /\ bat[b].lat = config["lat"] /\ bat[b].cur <= bat[b].max

\* The call has the registry to itself.
Alone ==
  /\ \A c, d \in Calls : conf[c].pc # "idle" /\ conf[d].pc # "idle" => c = d
  /\ Configuring => ~Building /\ ~Pushing

\* What was asked for is in the copy until it is stored.
Asking ==
  /\ ~Configuring => config = asked
  /\ \A c \in Calls : conf[c].pc = "update" => conf[c].copy = asked
  /\ \A c \in Calls : conf[c].pc \notin {"idle", "update"} => config = asked

\* A batcher has the values, or its turn is yet to come.
Turn(f) ==
  /\ f.pc \in {"next", "max", "clamp", "lat"} =>
       \A b \in active : b \in f.todo \/ (f.pc # "next" /\ b = f.b) \/ Agrees(b)
  /\ f.pc \in {"max", "clamp", "lat"} => f.b \in Built
  /\ f.pc \in {"max", "clamp"} => f.val = config["cap"]
  /\ f.pc \in {"clamp", "lat"} => bat[f.b].max = config["cap"]
  /\ f.pc = "lat" => bat[f.b].cur <= bat[f.b].max

Refreshing == \A c \in Calls : Turn(conf[c])

\* Between the calls every batcher agrees, a candidate as far as it is built.
Settled ==
  ~Configuring =>
    /\ \A b \in active : Agrees(b)
    /\ \A l \in Loops : \A i \in 1 .. Len(look[l]) :
         LET f == look[l][i] IN
         /\ f.b # 0 => bat[f.b].max = config["cap"] /\ bat[f.b].cur = config["cap"]
         /\ f.pc = "insert" => bat[f.b].lat = config["lat"]

\* A push goes on in a batcher that has been inserted, with its cap.
Pushed ==
  \A b \in Ids : push[b] # 0 =>
    /\ b \in active \union retired
    /\ ~raced => push[b] = bat[b].max

Reach == Pushed /\ (~raced => Alone /\ Asking /\ Refreshing /\ Settled)

\* At the start nothing is under way and there is no batcher.
LEMMA InitReach == Init => Reach
<1> SUFFICES ASSUME Init PROVE Reach
  OBVIOUS
<1>1. /\ \A c \in Calls : conf[c].pc = "idle"
      /\ \A b \in Ids : push[b] = 0
      /\ \A l \in Loops : look[l] = <<>> /\ Len(look[l]) = 0
      /\ active = {} /\ config = asked /\ ~raced
  BY EmptySeq DEF Init, NoCall
<1>2. ~Configuring
  BY <1>1 DEF Configuring
<1> QED
  BY <1>1, <1>2 DEF Reach, Pushed, Alone, Asking, Refreshing, Turn, Settled

\* The settings are numbers, and Low is the smaller one.
LEMMA Numbers ==
  /\ Vals \subseteq Nat /\ 0 \notin Vals /\ \A v \in Vals : Low <= v
  /\ Inv => /\ \A b \in Built : bat[b].max \in Vals /\ bat[b].cur \in Vals /\ bat[b].lat \in Vals
            /\ config["cap"] \in Vals /\ config["lat"] \in Vals
<1>1. Vals \subseteq Nat /\ 0 \notin Vals /\ \A v \in Vals : Low <= v
  BY RegistryAssumption DEF RegistryAssumption, Vals
<1>2. ASSUME Inv
      PROVE  /\ \A b \in Built : bat[b].max \in Vals /\ bat[b].cur \in Vals /\ bat[b].lat \in Vals
             /\ config["cap"] \in Vals /\ config["lat"] \in Vals
  <2>1. \A b \in Built : bat[b] \in Batchers
    BY <1>2, Typed DEF Inv
  <2> QED
    BY <1>2, <2>1 DEF Inv, Settings, Batchers, Keys
<1> QED
  BY <1>1, <1>2

\* One setting of one batcher is stored: the rest stays as it was.
LEMMA OneSetting ==
  ASSUME Inv, NEW c \in Built, NEW v
  PROVE  /\ bat' = [bat EXCEPT ![c].max = v] =>
              /\ \A b \in Built : b # c => bat'[b] = bat[b]
              /\ bat'[c].max = v /\ bat'[c].cur = bat[c].cur /\ bat'[c].lat = bat[c].lat
         /\ bat' = [bat EXCEPT ![c].cur = v] =>
              /\ \A b \in Built : b # c => bat'[b] = bat[b]
              /\ bat'[c].cur = v /\ bat'[c].max = bat[c].max /\ bat'[c].lat = bat[c].lat
         /\ bat' = [bat EXCEPT ![c].lat = v] =>
              /\ \A b \in Built : b # c => bat'[b] = bat[b]
              /\ bat'[c].lat = v /\ bat'[c].max = bat[c].max /\ bat'[c].cur = bat[c].cur
<1>1. bat \in [Built -> Batchers]
  BY Stored DEF Inv, Built
<1>2. bat[c] \in Batchers
  BY <1>1
<1> QED
  BY <1>1, <1>2 DEF Batchers

\* While no call is under way, a step that leaves the configuration alone has
\* only the batchers to answer for.
LEMMA BetweenCalls ==
  ASSUME ~Configuring, Asking, UNCHANGED <<config, conf, asked>>
  PROVE  ~Configuring' /\ Alone' /\ Asking' /\ Refreshing'
<1>1. \A c \in Calls : conf[c].pc = "idle" /\ conf'[c].pc = "idle"
  BY DEF Configuring
<1>2. ~Configuring'
  BY <1>1 DEF Configuring
<1>3. Alone' /\ Refreshing'
  BY <1>1, <1>2 DEF Alone, Refreshing, Turn
<1>4. Asking'
  BY <1>1, <1>2 DEF Asking
<1> QED
  BY <1>2, <1>3, <1>4

-----------------------------------------------------------------------------
\* Loops and handles do not matter to the settings.
LEMMA LoopsReach ==
  ASSUME Reach, NEW l \in Loops, NEW a \in Addrs, NewLoop(l, a) \/ Find(l, a)
  PROVE  Reach'
<1>1. UNCHANGED <<bat, active, retired, look, config, conf, asked, push, raced>>
  BY DEF NewLoop, Find, regVars, confVars
<1>2. (Configuring' <=> Configuring) /\ (Building' <=> Building) /\ (Pushing' <=> Pushing)
  BY <1>1 DEF Configuring, Building, Pushing
<1> QED
  BY <1>1, <1>2 DEF Reach, Pushed, Alone, Asking, Refreshing, Turn, Settled, Agrees, Built

\* A lookup that fails under a call of configure() races with it; otherwise it
\* adds a call without a candidate.
LEMMA MissReach ==
  ASSUME Inv, Reach, NEW l \in Loops, NEW a \in Addrs, Miss(l, a) PROVE Reach'
<1> DEFINE x == [pc |-> "build", b |-> 0]
           s == look[l]
<1>1. /\ UNCHANGED <<bat, config, conf, asked, push>>
      /\ active' \subseteq active /\ active \union retired \subseteq active' \union retired'
      /\ ~raced' => ~raced /\ ~Configuring
  BY DEF Miss, confVars
<1>2. /\ look \in [Loops -> Seq(Frames)] /\ s \in Seq(Frames) /\ x \in Frames
      /\ look' = [look EXCEPT ![l] = <<x>> \o s]
  BY DEF Miss, Inv, Shape, Frames
<1>3. /\ Len(look'[l]) = Len(s) + 1 /\ Len(s) \in Nat /\ look'[l][1] = x
      /\ \A i \in 2 .. (Len(s) + 1) : look'[l][i] = s[i - 1]
      /\ \A k \in Loops : k # l => look'[k] = look[k]
  BY <1>2, PushFrame
<1>4. \A k \in Loops : \A i \in 1 .. Len(look'[k]) :
        \/ look'[k][i] = x
        \/ k = l /\ (i - 1) \in 1 .. Len(look[k]) /\ look'[k][i] = look[k][i - 1]
        \/ k # l /\ i \in 1 .. Len(look[k]) /\ look'[k][i] = look[k][i]
  BY <1>3
<1>5. Pushed'
  BY <1>1 DEF Reach, Pushed
<1>6. ASSUME ~raced' PROVE Alone' /\ Asking' /\ Refreshing' /\ Settled'
  <2>1. ~raced /\ ~Configuring /\ Asking /\ Settled
    BY <1>1, <1>6 DEF Reach
  <2>2. ~Configuring' /\ Alone' /\ Asking' /\ Refreshing'
    BY <1>1, <2>1, BetweenCalls
  <2>3. x.b = 0 /\ x.pc = "build"
    OBVIOUS
  <2> HIDE DEF x
  <2>4. \A b \in active' : Agrees(b)'
    BY <1>1, <2>1 DEF Settled, Agrees
  <2>5. ASSUME NEW k \in Loops, NEW i \in 1 .. Len(look'[k])
        PROVE  LET f == look'[k][i] IN
               /\ f.b # 0 => bat'[f.b].max = config'["cap"] /\ bat'[f.b].cur = config'["cap"]
               /\ f.pc = "insert" => bat'[f.b].lat = config'["lat"]
    <3>1. CASE look'[k][i] = x
      BY <2>3, <3>1
    <3>2. CASE look'[k][i] # x
      <4>1. PICK j \in 1 .. Len(look[k]) : look'[k][i] = look[k][j]
        BY <1>4, <3>2
      <4>2. LET f == look[k][j] IN
            /\ f.b # 0 => bat[f.b].max = config["cap"] /\ bat[f.b].cur = config["cap"]
            /\ f.pc = "insert" => bat[f.b].lat = config["lat"]
        BY <2>1 DEF Settled
      <4> QED
        BY <1>1, <4>1, <4>2
    <3> QED
      BY <3>1, <3>2
  <2>6. Settled'
    BY <2>4, <2>5 DEF Settled
  <2> QED
    BY <2>2, <2>6
<1> QED
  BY <1>5, <1>6 DEF Reach

\* The candidate is built with the cap of the configuration.
LEMMA ConstructReach ==
  ASSUME Inv, Reach, NEW l \in Loops, NEW a \in Addrs, Construct(l, a) PROVE Reach'
<1> DEFINE n == Len(bat) + 1
           x == [pc |-> "lat", b |-> n]
           r == [loop |-> l, addr |-> a, max |-> config["cap"], cur |-> config["cap"],
                 lat |-> Default]
           s == look[l]
<1>1. /\ UNCHANGED <<active, retired, config, conf, asked, push, raced>>
      /\ bat' = Append(bat, r) /\ s # <<>> /\ look' = [look EXCEPT ![l][1] = x]
  BY DEF Construct, confVars, Top
<1>2. /\ look \in [Loops -> Seq(Frames)] /\ s \in Seq(Frames) /\ bat \in Seq(Batchers)
      /\ Len(bat) \in Nat /\ Len(bat) < MaxBatchers /\ MaxBatchers \in Nat
  BY LenProperties, RegistryAssumption DEF RegistryAssumption, Inv, Shape, Construct
<1>3. x \in Frames /\ r \in Batchers
  BY <1>2 DEF Frames, Batchers, Inv, Settings, Ids, Keys, Vals
<1>4. /\ \A b \in Built : bat'[b] = bat[b]
      /\ bat'[n] = r /\ n # 0
  BY <1>1, <1>2, <1>3, AppendProperties DEF Built
<1>5. /\ look'[l] = [s EXCEPT ![1] = x] /\ Len(look'[l]) = Len(s) /\ look'[l][1] = x
      /\ Len(s) \in Nat
      /\ \A i \in 2 .. Len(s) : look'[l][i] = s[i]
      /\ \A k \in Loops : k # l => look'[k] = look[k]
  BY <1>1, <1>2, <1>3, TopFrame
<1>6. \A k \in Loops : \A i \in 1 .. Len(look'[k]) :
        look'[k][i] = x \/ (i \in 1 .. Len(look[k]) /\ look'[k][i] = look[k][i])
  BY <1>5
<1>7. active \union retired \subseteq Built
      /\ \A k \in Loops : \A i \in 1 .. Len(look[k]) : look[k][i].b \in Built \union {0}
  BY DEF Inv, Shape
<1>8. Pushed'
  BY <1>1, <1>4, <1>7 DEF Reach, Pushed
<1>9. ASSUME ~raced' PROVE Alone' /\ Asking' /\ Refreshing' /\ Settled'
  <2>1. ~raced /\ Alone /\ Asking /\ Settled
    BY <1>1, <1>9 DEF Reach
  <2>2. ~Configuring
    BY <1>1, <2>1 DEF Alone, Building
  <2>3. ~Configuring' /\ Alone' /\ Asking' /\ Refreshing'
    BY <1>1, <2>1, <2>2, BetweenCalls
  <2>4. /\ r.max = config["cap"] /\ r.cur = config["cap"]
        /\ x.b = n /\ x.pc = "lat"
    OBVIOUS
  <2> HIDE DEF r, x, n
  <2>5. \A b \in active : Agrees(b)'
    BY <1>1, <1>4, <1>7, <2>1, <2>2 DEF Settled, Agrees
  <2>6. ASSUME NEW k \in Loops, NEW i \in 1 .. Len(look'[k])
        PROVE  LET f == look'[k][i] IN
               /\ f.b # 0 => bat'[f.b].max = config'["cap"] /\ bat'[f.b].cur = config'["cap"]
               /\ f.pc = "insert" => bat'[f.b].lat = config'["lat"]
    <3>1. CASE look'[k][i] = x
      BY <1>1, <1>4, <2>4, <3>1
    <3>2. CASE i \in 1 .. Len(look[k]) /\ look'[k][i] = look[k][i]
      <4> DEFINE f == look[k][i]
      <4>1. /\ f.b # 0 => bat[f.b].max = config["cap"] /\ bat[f.b].cur = config["cap"]
            /\ f.pc = "insert" => bat[f.b].lat = config["lat"]
        BY <2>1, <2>2, <3>2 DEF Settled
      <4>2. f.b \in Built \union {0} /\ (f.pc = "insert" => f.b # 0)
        BY <1>7, <3>2 DEF Inv, Stacks
      <4> QED
        BY <1>1, <1>4, <3>2, <4>1, <4>2
    <3> QED
      BY <1>6, <3>1, <3>2
  <2>7. Settled'
    BY <1>1, <2>5, <2>6 DEF Settled
  <2> QED
    BY <2>3, <2>7
<1> QED
  BY <1>8, <1>9 DEF Reach

\* The candidate gets the target latency of the configuration.
LEMMA SetCandidateReach ==
  ASSUME Inv, Reach, NEW l \in Loops, SetCandidate(l) PROVE Reach'
<1> DEFINE s == look[l]
           n == Head(s).b
           x == [s[1] EXCEPT !.pc = "insert"]
<1>1. /\ UNCHANGED <<active, retired, config, conf, asked, push, raced>>
      /\ bat' = [bat EXCEPT ![n].lat = config["lat"]] /\ s # <<>> /\ Head(s).pc = "lat"
      /\ look' = [look EXCEPT ![l][1].pc = "insert"]
  BY DEF SetCandidate, confVars, Top
<1>2. look \in [Loops -> Seq(Frames)] /\ s \in Seq(Frames)
  BY DEF Inv, Shape
<1>3. Len(s) \in Nat \ {0} /\ Head(s) = s[1] /\ s[1] \in Frames
  BY <1>1, <1>2, PopFrame
<1>4. x \in Frames /\ x.b = n /\ x.pc = "insert"
  BY <1>3 DEF Frames
<1>5. look'[l] = [s EXCEPT ![1] = x] /\ \A k \in Loops : k # l => look'[k] = look[k]
  BY <1>1, <1>2
<1> HIDE DEF x
<1>6. /\ Len(look'[l]) = Len(s) /\ look'[l][1] = x
      /\ \A i \in 2 .. Len(s) : look'[l][i] = s[i]
  <2>1. /\ Len([s EXCEPT ![1] = x]) = Len(s) /\ [s EXCEPT ![1] = x][1] = x
        /\ \A i \in 2 .. Len(s) : [s EXCEPT ![1] = x][i] = s[i]
    BY <1>1, <1>2, <1>4, TopFrame
  <2> QED
    BY <1>5, <2>1
<1>7. \A k \in Loops : \A i \in 1 .. Len(look'[k]) :
        /\ i \in 1 .. Len(look[k])
        /\ (k = l /\ i = 1) \/ (~(k = l /\ i = 1) /\ look'[k][i] = look[k][i])
  BY <1>3, <1>5, <1>6
<1>8. /\ active \union retired \subseteq Built
      /\ \A k \in Loops : \A i \in 1 .. Len(look[k]) :
           look[k][i].b \in Built \union {0} /\ (look[k][i].pc = "insert" => look[k][i].b # 0)
  BY DEF Inv, Shape, Stacks
<1>9. 1 \in 1 .. Len(s) /\ n = s[1].b /\ n # 0 /\ n \in Built
  BY <1>1, <1>3, <1>8 DEF Inv, Stacks
<1>10. \A k \in Loops : \A i \in 1 .. Len(look[k]) : look[k][i].b = n => k = l /\ i = 1
  <2> SUFFICES ASSUME NEW k \in Loops, NEW i \in 1 .. Len(look[k]), look[k][i].b = n
               PROVE  k = l /\ i = 1
    OBVIOUS
  <2>1. bat[n].loop = k /\ bat[n].loop = l
    BY <1>9 DEF Inv, Stacks
  <2> QED
    BY <1>9, <2>1 DEF Inv, Stacks
<1>11. n \notin active \union retired
  BY <1>9 DEF Inv, Placed, Candidate
<1>12. /\ \A b \in Built : b # n => bat'[b] = bat[b]
       /\ bat'[n].lat = config["lat"] /\ bat'[n].max = bat[n].max /\ bat'[n].cur = bat[n].cur
  <2> HIDE DEF n
  <2> QED
    BY <1>1, <1>9, OneSetting
<1> HIDE DEF n
<1>13. Pushed'
  BY <1>1, <1>8, <1>11, <1>12 DEF Reach, Pushed
<1>14. ASSUME ~raced' PROVE Alone' /\ Asking' /\ Refreshing' /\ Settled'
  <2>1. ~raced /\ Alone /\ Asking /\ Settled
    BY <1>1, <1>14 DEF Reach
  <2>2. ~Configuring
    BY <1>1, <2>1 DEF Alone, Building
  <2>3. ~Configuring' /\ Alone' /\ Asking' /\ Refreshing'
    BY <1>1, <2>1, <2>2, BetweenCalls
  <2>4. ASSUME NEW k \in Loops, NEW j \in 1 .. Len(look[k])
        PROVE  LET f == look[k][j] IN
               /\ f.b # 0 => bat[f.b].max = config["cap"] /\ bat[f.b].cur = config["cap"]
               /\ f.pc = "insert" => bat[f.b].lat = config["lat"]
    BY <2>1, <2>2 DEF Settled
  <2>5. \A b \in active : Agrees(b)'
    BY <1>1, <1>8, <1>11, <1>12, <2>1, <2>2 DEF Settled, Agrees
  <2>6. ASSUME NEW k \in Loops, NEW i \in 1 .. Len(look'[k])
        PROVE  LET f == look'[k][i] IN
               /\ f.b # 0 => bat'[f.b].max = config'["cap"] /\ bat'[f.b].cur = config'["cap"]
               /\ f.pc = "insert" => bat'[f.b].lat = config'["lat"]
    <3>1. CASE k = l /\ i = 1
      <4>1. bat[n].max = config["cap"] /\ bat[n].cur = config["cap"]
        BY <1>9, <2>4
      <4> QED
        BY <1>1, <1>4, <1>6, <1>12, <3>1, <4>1
    <3>2. CASE ~(k = l /\ i = 1)
      <4>1. i \in 1 .. Len(look[k]) /\ look'[k][i] = look[k][i]
        BY <1>7, <3>2
      <4>2. look[k][i].b # n
        BY <1>10, <3>2, <4>1
      <4> DEFINE f == look[k][i]
      <4>3. /\ f.b # 0 => bat'[f.b] = bat[f.b]
            /\ f.pc = "insert" => f.b # 0
        BY <1>8, <1>12, <4>1, <4>2
      <4>4. /\ f.b # 0 => bat[f.b].max = config["cap"] /\ bat[f.b].cur = config["cap"]
            /\ f.pc = "insert" => bat[f.b].lat = config["lat"]
        BY <2>4, <4>1
      <4> HIDE DEF f
      <4>5. /\ f.b # 0 => bat'[f.b].max = config'["cap"] /\ bat'[f.b].cur = config'["cap"]
            /\ f.pc = "insert" => bat'[f.b].lat = config'["lat"]
        BY <1>1, <4>3, <4>4
      <4>6. look'[k][i] = f
        BY <4>1 DEF f
      <4> QED
        BY <4>5, <4>6
    <3> QED
      BY <3>1, <3>2
  <2>7. Settled'
    BY <1>1, <2>5, <2>6 DEF Settled
  <2> QED
    BY <2>3, <2>7
<1> QED
  BY <1>13, <1>14 DEF Reach

\* What is inserted agrees with the configuration.
LEMMA InsertReach ==
  ASSUME Inv, Reach, NEW l \in Loops, NEW a \in Addrs, Insert(l, a) PROVE Reach'
<1> DEFINE s == look[l]
           n == Head(s).b
<1>1. /\ UNCHANGED <<bat, config, conf, asked, push, raced>>
      /\ s # <<>> /\ Head(s).pc = "insert" /\ look' = [look EXCEPT ![l] = Tail(s)]
      /\ active' \subseteq active \union {n}
      /\ active \union retired \subseteq active' \union retired'
  BY DEF Insert, confVars, loopVars, Top, Stale
<1>2. look \in [Loops -> Seq(Frames)] /\ s \in Seq(Frames)
  BY DEF Inv, Shape
<1>3. /\ Len(s) \in Nat \ {0} /\ Head(s) = s[1] /\ Len(Tail(s)) = Len(s) - 1
      /\ \A i \in 1 .. (Len(s) - 1) : Tail(s)[i] = s[i + 1]
  BY <1>1, <1>2, PopFrame
<1>4. /\ look'[l] = Tail(s)
      /\ \A k \in Loops : k # l => look'[k] = look[k]
  BY <1>1, <1>2
<1>5. \A k \in Loops : \A i \in 1 .. Len(look'[k]) :
        \E j \in 1 .. Len(look[k]) : look'[k][i] = look[k][j]
  <2> SUFFICES ASSUME NEW k \in Loops, NEW i \in 1 .. Len(look'[k])
               PROVE  \E j \in 1 .. Len(look[k]) : look'[k][i] = look[k][j]
    OBVIOUS
  <2>1. CASE k = l
    <3>1. i \in 1 .. (Len(s) - 1) /\ look'[k][i] = Tail(s)[i]
      BY <1>3, <1>4, <2>1
    <3>2. (i + 1) \in 1 .. Len(s) /\ Tail(s)[i] = s[i + 1]
      <4> HIDE DEF s
      <4> QED
        BY <1>3, <3>1
    <3> QED
      BY <2>1, <3>1, <3>2
  <2>2. CASE k # l
    <3>1. i \in 1 .. Len(look[k]) /\ look'[k][i] = look[k][i]
      BY <1>4, <2>2
    <3> QED
      BY <3>1
  <2> QED
    BY <2>1, <2>2
<1>6. Pushed'
  BY <1>1 DEF Reach, Pushed
<1>7. ASSUME ~raced' PROVE Alone' /\ Asking' /\ Refreshing' /\ Settled'
  <2>1. ~raced /\ Alone /\ Asking /\ Settled
    BY <1>1, <1>7 DEF Reach
  <2>2. ~Configuring
    BY <1>1, <2>1 DEF Alone, Building
  <2>3. ~Configuring' /\ Alone' /\ Asking' /\ Refreshing'
    BY <1>1, <2>1, <2>2, BetweenCalls
  <2>4. ASSUME NEW k \in Loops, NEW j \in 1 .. Len(look[k])
        PROVE  LET f == look[k][j] IN
               /\ f.b # 0 => bat[f.b].max = config["cap"] /\ bat[f.b].cur = config["cap"]
               /\ f.pc = "insert" => bat[f.b].lat = config["lat"]
    BY <2>1, <2>2 DEF Settled
  <2>5. Agrees(n)
    <3>1. 1 \in 1 .. Len(s) /\ s[1].b = n /\ s[1].pc = "insert" /\ n # 0
      BY <1>1, <1>3 DEF Inv, Stacks
    <3>2. bat[n].max = config["cap"] /\ bat[n].cur = config["cap"] /\ bat[n].lat = config["lat"]
      BY <2>4, <3>1
    <3>3. config["cap"] \in Nat
      BY Numbers
    <3> HIDE DEF n
    <3> QED
      BY <3>2, <3>3 DEF Agrees
  <2> HIDE DEF n
  <2>6. \A b \in active' : Agrees(b)'
    BY <1>1, <2>1, <2>2, <2>5 DEF Settled, Agrees
  <2>7. ASSUME NEW k \in Loops, NEW i \in 1 .. Len(look'[k])
        PROVE  LET f == look'[k][i] IN
               /\ f.b # 0 => bat'[f.b].max = config'["cap"] /\ bat'[f.b].cur = config'["cap"]
               /\ f.pc = "insert" => bat'[f.b].lat = config'["lat"]
    <3>1. PICK j \in 1 .. Len(look[k]) : look'[k][i] = look[k][j]
      BY <1>5
    <3>2. LET f == look[k][j] IN
          /\ f.b # 0 => bat[f.b].max = config["cap"] /\ bat[f.b].cur = config["cap"]
          /\ f.pc = "insert" => bat[f.b].lat = config["lat"]
      BY <2>4
    <3> QED
      BY <1>1, <3>1, <3>2
  <2>8. Settled'
    BY <2>6, <2>7 DEF Settled
  <2> QED
    BY <2>3, <2>8
<1> QED
  BY <1>6, <1>7 DEF Reach

\* At exit there is nothing left to agree.
LEMMA ClearReach == ASSUME Inv, Reach, Clear PROVE Reach'
<1>1. /\ UNCHANGED <<bat, look, config, conf, asked, push, raced>> /\ active' = {}
      /\ ~Configuring /\ ~Building /\ ~Pushing
  BY DEF Clear, confVars
<1>2. Pushed'
  BY <1>1 DEF Pushed, Pushing
<1>3. ASSUME ~raced' PROVE Alone' /\ Asking' /\ Refreshing' /\ Settled'
  <2>1. Asking
    BY <1>1, <1>3 DEF Reach
  <2>2. ~Configuring' /\ Alone' /\ Asking' /\ Refreshing'
    BY <1>1, <2>1, BetweenCalls
  <2>3. \A l \in Loops : look'[l] = <<>> /\ Len(look'[l]) = 0
    BY <1>1, EmptySeq DEF Building
  <2> QED
    BY <1>1, <2>2, <2>3 DEF Settled
<1> QED
  BY <1>2, <1>3 DEF Reach

\* A call begins alone, or says that it does not.
LEMMA CallBeginsReach ==
  ASSUME Inv, Reach, NEW c \in Calls,
         (\E k \in Keys, v \in Vals : Get(c, k, v)) \/ Reset(c)
  PROVE  Reach'
<1>1. /\ UNCHANGED <<bat, active, retired, look, config, push>>
      /\ raced' = (Configuring \/ Building \/ Pushing)
  BY DEF Get, Reset, regVars
<1>2. PICK m : /\ conf' = [conf EXCEPT ![c].pc = "update", ![c].copy = m]
               /\ ~raced' => asked' = m
  BY DEF Get, Reset
<1>3. ASSUME Pushing PROVE raced'
  BY <1>1, <1>3
<1>4. Pushed'
  BY <1>1, <1>3 DEF Reach, Pushed, Pushing
<1>5. ASSUME ~raced' PROVE Alone' /\ Asking' /\ Refreshing' /\ Settled'
  <2>1. ~Configuring /\ ~Building /\ ~Pushing
    BY <1>1, <1>5
  <2>2. conf \in [Calls -> ConfCalls]
    BY DEF Inv, Settings
  <2>3. /\ conf'[c].pc = "update" /\ conf'[c].copy = asked'
        /\ \A d \in Calls : d # c => conf'[d].pc = "idle"
    BY <1>2, <1>5, <2>1, <2>2 DEF ConfCalls, Configuring
  <2>4. Configuring'
    BY <2>3 DEF Configuring
  <2>5. ~Building' /\ ~Pushing'
    BY <1>1, <2>1 DEF Building, Pushing
  <2>6. Alone'
    BY <2>3, <2>5 DEF Alone
  <2>7. Asking'
    BY <2>3, <2>4 DEF Asking
  <2>8. Refreshing' /\ Settled'
    BY <2>3, <2>4 DEF Refreshing, Turn, Settled
  <2> QED
    BY <2>6, <2>7, <2>8
<1> QED
  BY <1>4, <1>5 DEF Reach

\* What the steps of a call leave alone.
LEMMA ConfigureSteps ==
  ASSUME Inv, NEW c \in Calls, ConfigureStep(c)
  PROVE  /\ UNCHANGED <<active, retired, look, push, asked, raced>>
         /\ conf[c].pc # "idle" /\ \A d \in Calls : d # c => conf'[d] = conf[d]
         /\ Update(c) \/ (conf[c].pc # "update" /\ config' = config)
<1> USE DEF regVars
<1>0. conf \in [Calls -> ConfCalls]
  BY DEF Inv, Settings
<1>1. CASE Update(c)
  BY <1>0, <1>1 DEF Update
<1>2. CASE Snapshot(c)
  BY <1>0, <1>2 DEF Snapshot
<1>3. CASE ReadCap(c)
  BY <1>0, <1>3 DEF ReadCap
<1>4. CASE StoreMax(c)
  BY <1>0, <1>4 DEF StoreMax
<1>5. CASE Clamp(c)
  BY <1>0, <1>5 DEF Clamp
<1>6. CASE StoreLat(c)
  BY <1>0, <1>6 DEF StoreLat
<1>7. CASE Return(c)
  BY <1>0, <1>7 DEF Return
<1> QED
  BY <1>1, <1>2, <1>3, <1>4, <1>5, <1>6, <1>7 DEF ConfigureStep

\* The batcher whose turn comes leaves todo, and the cap for it is read.
LEMMA ReadCapPicks ==
  ASSUME Inv, NEW c \in Calls, ReadCap(c)
  PROVE  /\ conf[c].pc = "next" /\ bat' = bat
         /\ conf'[c].pc = "max" /\ conf'[c].val = config["cap"] /\ conf'[c].b \in conf[c].todo
         /\ conf'[c].todo = conf[c].todo \ {conf'[c].b}
<1> USE DEF Inv, loopVars, regVars
<1> DEFINE f == conf[c]
<1>1. conf \in [Calls -> ConfCalls] /\ f \in ConfCalls
  BY DEF Settings
<1>0. ReadCap(c)
  OBVIOUS
<1>2. PICK b \in f.todo :
        conf' = [conf EXCEPT ![c].pc = "max", ![c].b = b, ![c].todo = @ \ {b},
                             ![c].val = config["cap"]]
  BY ONLY <1>0, Zenon DEF ReadCap
<1>3. /\ conf'[c].pc = "max" /\ conf'[c].b = b /\ conf'[c].todo = f.todo \ {b}
      /\ conf'[c].val = config["cap"]
  BY <1>1, <1>2 DEF ConfCalls
<1>4. f.pc = "next" /\ bat' = bat
  BY DEF ReadCap
<1> QED
  BY <1>3, <1>4

\* Each step of a call brings the values nearer to every batcher.
LEMMA ConfigureStepReach ==
  ASSUME Inv, Reach, NEW c \in Calls, ConfigureStep(c) PROVE Reach'
<1>1. UNCHANGED <<active, retired, look, push, asked, raced>>
  BY ConfigureSteps
<1>2. conf[c].pc # "idle" /\ \A d \in Calls : d # c => conf'[d] = conf[d]
  BY ConfigureSteps
<1>3. Configuring
  BY <1>2 DEF Configuring
<1>4. ~raced => \A b \in Ids : push[b] = 0
  BY <1>3 DEF Reach, Alone, Pushing
<1>5. Pushed'
  BY <1>1, <1>4 DEF Reach, Pushed
<1>6. ASSUME ~raced' PROVE Alone' /\ Asking' /\ Refreshing' /\ Settled'
  <2>1. ~raced /\ Alone /\ Asking /\ Turn(conf[c])
    BY <1>1, <1>6 DEF Reach, Refreshing
  <2>2. ~Building' /\ ~Pushing' /\ \A l \in Loops : look'[l] = <<>> /\ Len(look'[l]) = 0
    BY <1>1, <1>3, <2>1, EmptySeq DEF Alone, Building, Pushing
  <2>3. \A d \in Calls : d # c => conf'[d].pc = "idle"
    BY <1>2, <2>1 DEF Alone
  <2>4. Alone'
    BY <2>2, <2>3 DEF Alone
  <2>5. ASSUME conf'[c].pc = "idle" => \A b \in active : Agrees(b)',
               conf'[c].pc # "update", config' = asked, Turn(conf[c])'
        PROVE  Alone' /\ Asking' /\ Refreshing' /\ Settled'
    <3>1. Asking'
      BY <1>1, <2>3, <2>5 DEF Asking, Configuring
    <3>2. Refreshing'
      BY <2>3, <2>5 DEF Refreshing, Turn
    <3>3. Settled'
      BY <1>1, <2>2, <2>5 DEF Settled, Configuring
    <3> QED
      BY <2>4, <3>1, <3>2, <3>3
  <2> DEFINE f == conf[c]
             g == conf'[c]
  <2>6. conf \in [Calls -> ConfCalls] /\ f \in ConfCalls
    BY DEF Inv, Settings
  <2>7. active \subseteq Built /\ f.todo \subseteq Built
    BY DEF Inv, Shape, Settings
  <2>8. CASE Update(c)
    <3>1. g.pc = "snapshot" /\ config' = f.copy /\ f.copy = asked
      BY <2>1, <2>6, <2>8 DEF Update, ConfCalls, Asking
    <3>2. Turn(conf[c])'
      BY <3>1 DEF Turn
    <3> QED
      BY <1>1, <2>5, <3>1, <3>2
  <2>9. CASE ~Update(c)
    <3>1. f.pc \notin {"idle", "update"} /\ config' = config /\ config = asked
      BY <1>2, <2>1, <2>9, ConfigureSteps DEF Asking
    <3>2. CASE Snapshot(c)
      <4>1. g.pc = "next" /\ g.todo = active
        BY <2>6, <3>2 DEF Snapshot, ConfCalls
      <4>2. Turn(conf[c])'
        BY <1>1, <4>1 DEF Turn
      <4> QED
        BY <2>5, <3>1, <4>1, <4>2
    <3>3. CASE ReadCap(c)
      <4> DEFINE b == g.b
      <4>1. /\ f.pc = "next" /\ bat' = bat
            /\ g.pc = "max" /\ b \in f.todo /\ g.todo = f.todo \ {b} /\ g.val = config["cap"]
        BY <3>3, ReadCapPicks
      <4>2. b \in Built /\ Built' = Built
        BY <2>7, <4>1 DEF Built
      <4>3. \A d \in active : d \in f.todo \/ Agrees(d)
        BY <2>1, <4>1 DEF Turn
      <4>4. Turn(conf[c])'
        BY <1>1, <3>1, <4>1, <4>2, <4>3 DEF Turn, Agrees
      <4> QED
        BY <2>5, <3>1, <4>1, <4>4
    <3>4. ASSUME f.pc \in {"max", "clamp", "lat"}
          PROVE  f.b \in Built /\ \A d \in active : d \in f.todo \/ d = f.b \/ Agrees(d)
      BY <2>1, <3>4 DEF Turn
    <3>5. CASE StoreMax(c)
      <4>1. g.pc = "clamp" /\ g.b = f.b /\ g.todo = f.todo /\ g.val = f.val
        BY <2>6, <3>5 DEF StoreMax, ConfCalls
      <4>2. f.pc = "max" /\ f.val = config["cap"] /\ bat' = [bat EXCEPT ![f.b].max = f.val]
        BY <2>1, <3>5 DEF StoreMax, Turn
      <4>3. /\ \A d \in Built : d # f.b => bat'[d] = bat[d]
            /\ bat'[f.b].max = f.val
        BY <3>4, <4>2, OneSetting
      <4>4. Built' = Built
        BY <4>2, <3>4, Numbers, SettingKeeps DEF Built, Inv
      <4>5. Turn(conf[c])'
        BY <1>1, <2>7, <3>1, <3>4, <4>1, <4>2, <4>3, <4>4 DEF Turn, Agrees
      <4> QED
        BY <2>5, <3>1, <4>1, <4>5
    <3>6. CASE Clamp(c)
      <4>1. g.pc = "lat" /\ g.b = f.b /\ g.todo = f.todo
        BY <2>6, <3>6 DEF Clamp, ConfCalls
      <4>2. /\ f.pc = "clamp" /\ f.val = config["cap"] /\ bat[f.b].max = config["cap"]
            /\ bat' = IF bat[f.b].cur > f.val THEN [bat EXCEPT ![f.b].cur = f.val] ELSE bat
        BY <2>1, <3>6 DEF Clamp, Turn
      <4>3. bat[f.b].cur \in Nat /\ config["cap"] \in Nat
        BY <3>4, <4>2, Numbers
      <4>4. /\ \A d \in Built : d # f.b => bat'[d] = bat[d]
            /\ bat'[f.b].max = config["cap"] /\ bat'[f.b].cur <= bat'[f.b].max
        <5>1. CASE bat[f.b].cur > f.val
          <6>1. bat' = [bat EXCEPT ![f.b].cur = f.val]
            BY <4>2, <5>1
          <6>2. /\ \A d \in Built : d # f.b => bat'[d] = bat[d]
                /\ bat'[f.b].cur = f.val /\ bat'[f.b].max = bat[f.b].max
            BY <3>4, <4>2, <6>1, OneSetting
          <6> QED
            BY <4>2, <4>3, <6>2
        <5>2. CASE ~(bat[f.b].cur > f.val)
          BY <4>2, <4>3, <5>2
        <5> QED
          BY <5>1, <5>2
      <4>5. Built' = Built
        <5>1. bat' = bat \/ bat' = [bat EXCEPT ![f.b].cur = f.val]
          BY <4>2
        <5> QED
          BY <3>4, <4>2, <5>1, Numbers, SettingKeeps DEF Built, Inv
      <4>6. Turn(conf[c])'
        BY <1>1, <2>7, <3>1, <3>4, <4>1, <4>2, <4>4, <4>5 DEF Turn, Agrees
      <4> QED
        BY <2>5, <3>1, <4>1, <4>6
    <3>7. CASE StoreLat(c)
      <4>1. g.pc = "next" /\ g.todo = f.todo
        BY <2>6, <3>7 DEF StoreLat, ConfCalls
      <4>2. /\ f.pc = "lat" /\ bat[f.b].max = config["cap"] /\ bat[f.b].cur <= bat[f.b].max
            /\ bat' = [bat EXCEPT ![f.b].lat = config["lat"]]
        BY <2>1, <3>7 DEF StoreLat, Turn
      <4>3. /\ \A d \in Built : d # f.b => bat'[d] = bat[d]
            /\ bat'[f.b].lat = config["lat"]
            /\ bat'[f.b].max = bat[f.b].max /\ bat'[f.b].cur = bat[f.b].cur
        BY <3>4, <4>2, OneSetting
      <4>4. \A d \in active : d \in f.todo \/ Agrees(d)'
        BY <2>7, <3>1, <3>4, <4>2, <4>3 DEF Agrees
      <4>5. Turn(conf[c])'
        BY <1>1, <4>1, <4>4 DEF Turn
      <4> QED
        BY <2>5, <3>1, <4>1, <4>5
    <3>8. CASE Return(c)
      <4>1. g.pc = "idle"
        BY <2>6, <3>8 DEF Return, NoCall
      <4>2. f.pc = "next" /\ f.todo = {} /\ bat' = bat
        BY <3>8 DEF Return, regVars
      <4>3. \A b \in active : Agrees(b)'
        BY <2>1, <3>1, <4>2 DEF Turn, Agrees
      <4>4. Turn(conf[c])'
        BY <4>1 DEF Turn
      <4> QED
        BY <2>5, <3>1, <4>1, <4>3, <4>4
    <3> QED
      BY <2>9, <3>2, <3>3, <3>5, <3>6, <3>7, <3>8 DEF ConfigureStep
  <2> QED
    BY <2>8, <2>9
<1> QED
  BY <1>5, <1>6 DEF Reach

\* A push under a call races with it; otherwise it keeps the threshold within
\* the cap of the batcher.
LEMMA PushReach ==
  ASSUME Inv, Reach, NEW b \in Ids, LoadMax(b) \/ StoreThreshold(b) PROVE Reach'
<1>0. push \in [Ids -> Vals \union {0}] /\ active \union retired \subseteq Built
  BY DEF Inv, Shape
<1>1. UNCHANGED <<active, retired, look, config, conf, asked>>
  BY DEF LoadMax, StoreThreshold, regVars, confVars
<1>2. CASE LoadMax(b)
  <2>1. /\ bat' = bat /\ b \in active \union retired
        /\ push' = [push EXCEPT ![b] = bat[b].max]
        /\ ~raced' => ~raced /\ ~Configuring
    BY <1>2 DEF LoadMax, regVars
  <2>2. Pushed'
    BY <1>0, <1>1, <2>1 DEF Reach, Pushed
  <2>3. ASSUME ~raced' PROVE Alone' /\ Asking' /\ Refreshing' /\ Settled'
    <3>1. ~Configuring' /\ Alone' /\ Asking' /\ Refreshing'
      BY <1>1, <2>1, <2>3, BetweenCalls DEF Reach
    <3>2. Settled'
      BY <1>1, <2>1, <2>3 DEF Reach, Settled, Agrees
    <3> QED
      BY <3>1, <3>2
  <2> QED
    BY <2>2, <2>3 DEF Reach
<1>3. CASE StoreThreshold(b)
  <2>1. /\ push[b] # 0 /\ push' = [push EXCEPT ![b] = 0] /\ raced' = raced
        /\ b \in active \union retired
    BY <1>3 DEF StoreThreshold, Reach, Pushed
  <2>2. PICK t \in {Low, push[b]} : bat' = [bat EXCEPT ![b].cur = t]
    BY <1>3 DEF StoreThreshold
  <2>3. /\ b \in Built
        /\ \A d \in Built : d # b => bat'[d] = bat[d]
        /\ bat'[b].cur = t /\ bat'[b].max = bat[b].max /\ bat'[b].lat = bat[b].lat
    BY <1>0, <2>1, <2>2, OneSetting
  <2>4. Pushed'
    <3>1. \A d \in Ids : push'[d] # 0 => d # b /\ push'[d] = push[d]
      BY <1>0, <2>1
    <3> QED
      BY <1>0, <1>1, <2>1, <2>3, <3>1 DEF Reach, Pushed
  <2>5. ASSUME ~raced' PROVE Alone' /\ Asking' /\ Refreshing' /\ Settled'
    <3>1. ~raced /\ Alone /\ Asking /\ Settled
      BY <2>1, <2>5 DEF Reach
    <3>2. ~Configuring
      BY <2>1, <3>1 DEF Alone, Pushing
    <3>3. ~Configuring' /\ Alone' /\ Asking' /\ Refreshing'
      BY <1>1, <3>1, <3>2, BetweenCalls
    <3>4. bat'[b].cur <= bat'[b].max
      <4>1. push[b] = bat[b].max
        BY <2>1, <3>1 DEF Reach, Pushed
      <4>2. bat[b].max \in Vals /\ bat[b].max \in Nat /\ Low <= bat[b].max
        BY <2>3, Numbers
      <4> QED
        BY <2>2, <2>3, <4>1, <4>2
    <3>5. \A d \in active : Agrees(d)'
      <4>1. \A d \in active : Agrees(d) /\ d \in Built
        BY <1>0, <3>1, <3>2 DEF Settled
      <4> QED
        BY <1>1, <2>3, <3>4, <4>1 DEF Agrees
    <3>6. ASSUME NEW k \in Loops, NEW i \in 1 .. Len(look[k])
          PROVE  LET f == look[k][i] IN
                 /\ f.b # 0 => bat'[f.b].max = config["cap"] /\ bat'[f.b].cur = config["cap"]
                 /\ f.pc = "insert" => bat'[f.b].lat = config["lat"]
      <4> DEFINE f == look[k][i]
      <4>1. /\ f.b # 0 => bat[f.b].max = config["cap"] /\ bat[f.b].cur = config["cap"]
            /\ f.pc = "insert" => bat[f.b].lat = config["lat"]
        BY <3>1, <3>2 DEF Settled
      <4>2. f.b \in Built \union {0} /\ (f.pc = "insert" => f.b # 0)
        BY DEF Inv, Shape, Stacks
      <4>3. f.b # b
        BY <2>1, <2>3 DEF Inv, Placed, Candidate
      <4> QED
        BY <2>3, <4>1, <4>2, <4>3
    <3>7. Settled'
      BY <1>1, <3>5, <3>6 DEF Settled
    <3> QED
      BY <3>3, <3>7
  <2> QED
    BY <2>4, <2>5 DEF Reach
<1> QED
  BY <1>2, <1>3

\* Every step keeps the promise of the calls.
LEMMA NextReach == Inv /\ Reach /\ [Next]_vars => Reach'
<1> SUFFICES ASSUME Inv, Reach, [Next]_vars PROVE Reach'
  OBVIOUS
<1>1. CASE \E l \in Loops, a \in Addrs :
             NewLoop(l, a) \/ Find(l, a) \/ Miss(l, a) \/ Construct(l, a) \/ Insert(l, a)
  BY <1>1, LoopsReach, MissReach, ConstructReach, InsertReach
<1>2. CASE \E a \in Addrs : Collect(a)
  <2>1. PICK a \in Addrs : Collect(a)
    BY <1>2
  <2>2. UNCHANGED <<bat, active, retired, look, config, conf, asked, push, raced>>
    BY <2>1 DEF Collect, confVars
  <2>3. (Configuring' <=> Configuring) /\ (Building' <=> Building) /\ (Pushing' <=> Pushing)
    BY <2>2 DEF Configuring, Building, Pushing
  <2> QED
    BY <2>2, <2>3 DEF Reach, Pushed, Alone, Asking, Refreshing, Turn, Settled, Agrees, Built
<1>3. CASE (\E l \in Loops : SetCandidate(l)) \/ Clear
  BY <1>3, SetCandidateReach, ClearReach
<1>4. CASE \E c \in Calls : \/ \E k \in Keys, v \in Vals : Get(c, k, v)
                            \/ Reset(c) \/ ConfigureStep(c)
  BY <1>4, CallBeginsReach, ConfigureStepReach
<1>5. CASE \E b \in Ids : LoadMax(b) \/ StoreThreshold(b)
  BY <1>5, PushReach
<1>6. CASE UNCHANGED vars
  <2>1. UNCHANGED <<bat, active, retired, look, config, conf, asked, push, raced>>
    BY <1>6 DEF vars, regVars, confVars
  <2>2. (Configuring' <=> Configuring) /\ (Building' <=> Building) /\ (Pushing' <=> Pushing)
    BY <2>1 DEF Configuring, Building, Pushing
  <2> QED
    BY <2>1, <2>2 DEF Reach, Pushed, Alone, Asking, Refreshing, Turn, Settled, Agrees, Built
<1> QED
  BY <1>1, <1>2, <1>3, <1>4, <1>5, <1>6 DEF Next

\* After a call of configure() or reset_config() that had no company, and until
\* the next, every active batcher has what was asked for, however many there
\* are and whenever they were made (py_config.cpp:148-150,
\* batcher_registry.cpp:80-87).
THEOREM SettingsArrive == Spec => []SettingsReach
<1>1. Inv /\ Reach => SettingsReach
  BY DEF Reach, Asking, Settled, Agrees, SettingsReach
<1> QED
  BY <1>1, InitReach, NextReach, AlwaysInv, PTL DEF Spec
=============================================================================
