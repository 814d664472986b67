------------------------------ MODULE Registry ------------------------------
(***************************************************************************)
(* BatcherRegistry and the settings its batchers take from the             *)
(* configuration: get_or_create() for event loops whose addresses are      *)
(* reused, configure() and reset_config(), the adaptive threshold.         *)
(*                                                                         *)
(* A batcher is cached under the ADDRESS of its loop and holds a weak      *)
(* reference to the loop.  get_or_create() looks up, builds a candidate    *)
(* outside the lock, looks up again and inserts; building makes Python     *)
(* objects, so a finaliser may call get_or_create() on the same loop       *)
(* meanwhile.  configure() copies the configuration, changes one setting,  *)
(* stores the copy and then sets the values in every active batcher.  The  *)
(* extension can be built without the GIL: each lock section and each      *)
(* atomic is a step.                                                       *)
(***************************************************************************)
EXTENDS Integers, Sequences, FiniteSets

CONSTANTS
  Loops,        \* event loop objects, each lives once
  Addrs,        \* their addresses
  Calls,        \* threads that call configure() or reset_config()
  MaxBatchers,  \* bound on the batchers ever built
  MaxNest,      \* bound on the calls of get_or_create() under way on a loop
  Default,      \* value of both settings at the start and after a reset
  Low,          \* the other value
  Nil

ASSUME RegistryAssumption ==
  /\ MaxBatchers \in Nat \ {0} /\ MaxNest \in Nat \ {0}
  /\ Default \in Nat /\ Low \in 1 .. (Default - 1)
  /\ Nil \notin Loops

VARIABLES
  at,       \* the loop that lives at an address, or Nil
  gone,     \* loops that have been collected
  bat,      \* the batchers built so far: [loop, addr, max, cur, lat]
  active,   \* active_
  retired,  \* retired_
  freed,    \* batchers that have been destroyed
  look,     \* per loop, the stack of get_or_create() calls
  ctx,      \* per loop, the batchers its handles hold
  config,   \* ConfigManager::m_config: [cap, lat]
  conf,     \* per thread, the configure() call: [pc, copy, todo, b, val]
  push,     \* per batcher, the cap update_adaptive_locked() has read, or 0
  asked,    \* what the calls of configure() asked for
  raced     \* the last configure() ran beside something else

regVars == <<bat, active, retired, freed, look, ctx>>
loopVars == <<at, gone>>
confVars == <<config, conf, asked>>
vars == <<loopVars, regVars, confVars, push, raced>>

Keys == {"cap", "lat"}
Vals == {Low, Default}
Ids == 1 .. MaxBatchers
Built == 1 .. Len(bat)
Defaults == [k \in Keys |-> Default]
NoCall == [pc |-> "idle", copy |-> Defaults, todo |-> {}, b |-> 0, val |-> 0]

Configuring == \E c \in Calls : conf[c].pc # "idle"
Building == \E l \in Loops : look[l] # <<>>
Pushing == \E b \in Ids : push[b] # 0

Init ==
  /\ at = [a \in Addrs |-> Nil] /\ gone = {}
  /\ bat = <<>> /\ active = {} /\ retired = {} /\ freed = {}
  /\ look = [l \in Loops |-> <<>>] /\ ctx = [l \in Loops |-> {}]
  /\ config = Defaults /\ conf = [c \in Calls |-> NoCall]
  /\ push = [b \in Ids |-> 0]
  /\ asked = Defaults /\ raced = FALSE

-----------------------------------------------------------------------------
(* Event loops. *)

\* A loop object is created at a free address.
NewLoop(l, a) ==
  /\ l \notin gone /\ at[a] = Nil /\ \A x \in Addrs : at[x] # l
  /\ at' = [at EXCEPT ![a] = l]
  /\ UNCHANGED <<gone, regVars, confVars, push, raced>>

\* The handles of a loop go (each LoopContext holds the loop) and the loop is
\* collected: weak references to it are dead, its address is free.
Collect(a) ==
  /\ at[a] # Nil /\ look[at[a]] = <<>>
  /\ gone' = gone \union {at[a]}
  /\ at' = [at EXCEPT ![a] = Nil]
  /\ ctx' = [ctx EXCEPT ![at[a]] = {}]
  /\ UNCHANGED <<bat, active, retired, freed, look, confVars, push, raced>>

-----------------------------------------------------------------------------
(* get_or_create(). *)

\* Mutant of LoopIs: the address alone decides.
LoopIsAnyone(b, l) == TRUE

\* loop_is(): the weak reference leads to this very loop.
LoopIs(b, l) == bat[b].loop = l

\* Entries under an address: those of the loop itself, and those of dead loops.
Hits(l, a) == {b \in active : bat[b].addr = a /\ LoopIs(b, l)}
Stale(l, a) == {b \in active : bat[b].addr = a /\ ~LoopIs(b, l)}

\* A call may begin on a loop, or inside another while that builds.
CallAllowed(l) ==
  look[l] # <<>> => Len(look[l]) < MaxNest /\ Head(look[l]).pc = "lat"

\* First lookup: the batcher of the loop, if there is one.
Find(l, a) ==
  /\ at[a] = l /\ CallAllowed(l)
  /\ Hits(l, a) # {}
  /\ \E b \in Hits(l, a) : ctx' = [ctx EXCEPT ![l] = @ \union {b}]
  /\ UNCHANGED <<bat, active, retired, freed, look, loopVars, confVars, push, raced>>

\* First lookup without a hit: stale entries are retired and a candidate is
\* to be built outside the lock.
Miss(l, a) ==
  /\ at[a] = l /\ CallAllowed(l)
  /\ Hits(l, a) = {}
  /\ retired' = retired \union Stale(l, a)
  /\ active' = active \ Stale(l, a)
  /\ look' = [look EXCEPT ![l] = <<[pc |-> "build", b |-> 0]>> \o @]
  /\ raced' = (raced \/ Configuring)
  /\ UNCHANGED <<bat, freed, ctx, loopVars, confVars, push>>

Top(l, pc) == look[l] # <<>> /\ Head(look[l]).pc = pc

\* new ResultBatcher(loop, cfg.iocp_batch_size(), 5)
Construct(l, a) ==
  /\ at[a] = l /\ Top(l, "build") /\ Len(bat) < MaxBatchers
  /\ bat' = Append(bat, [loop |-> l, addr |-> a, max |-> config["cap"],
                         cur |-> config["cap"], lat |-> Default])
  /\ look' = [look EXCEPT ![l][1] = [pc |-> "lat", b |-> Len(bat) + 1]]
  /\ UNCHANGED <<active, retired, freed, ctx, loopVars, confVars, push, raced>>

\* set_adaptive(), set_target_latency_us() on the candidate.
SetCandidate(l) ==
  /\ Top(l, "lat")
  /\ bat' = [bat EXCEPT ![Head(look[l]).b].lat = config["lat"]]
  /\ look' = [look EXCEPT ![l][1].pc = "insert"]
  /\ UNCHANGED <<active, retired, freed, ctx, loopVars, confVars, push, raced>>

\* Second lookup: the candidate is inserted, or destroyed if a batcher of this
\* loop has come in between.
Insert(l, a) ==
  LET b == Head(look[l]).b IN
  /\ at[a] = l /\ Top(l, "insert")
  /\ IF Hits(l, a) = {}
     THEN /\ active' = (active \ Stale(l, a)) \union {b}
          /\ retired' = retired \union Stale(l, a)
          /\ ctx' = [ctx EXCEPT ![l] = @ \union {b}]
          /\ UNCHANGED freed
     ELSE /\ freed' = freed \union {b}
          /\ \E h \in Hits(l, a) : ctx' = [ctx EXCEPT ![l] = @ \union {h}]
          /\ UNCHANGED <<active, retired>>
  /\ look' = [look EXCEPT ![l] = Tail(@)]
  /\ UNCHANGED <<bat, loopVars, confVars, push, raced>>

\* clear(), from the module's cleanup at exit: no call runs and no handle is left.
Clear ==
  /\ ~Building /\ ~Configuring /\ ~Pushing
  /\ \A l \in Loops : ctx[l] = {}
  /\ active \union retired # {}
  /\ freed' = freed \union active \union retired
  /\ active' = {} /\ retired' = {}
  /\ UNCHANGED <<bat, look, ctx, loopVars, confVars, push, raced>>

-----------------------------------------------------------------------------
(* configure(), reset_config() and the refresh of the batchers. *)

\* config().get(), and the options applied to the copy.
Get(c, k, v) ==
  /\ conf[c].pc = "idle"
  /\ conf' = [conf EXCEPT ![c].pc = "update", ![c].copy = [config EXCEPT ![k] = v]]
  /\ raced' = (Configuring \/ Building \/ Pushing)
  /\ asked' = IF raced' THEN Defaults ELSE [config EXCEPT ![k] = v]
  /\ UNCHANGED <<config, loopVars, regVars, push>>

\* reset_config() begins with the defaults.
Reset(c) ==
  /\ conf[c].pc = "idle"
  /\ conf' = [conf EXCEPT ![c].pc = "update", ![c].copy = Defaults]
  /\ raced' = (Configuring \/ Building \/ Pushing)
  /\ asked' = Defaults
  /\ UNCHANGED <<config, loopVars, regVars, push>>

\* config().update(cfg)
Update(c) ==
  /\ conf[c].pc = "update"
  /\ config' = conf[c].copy
  /\ conf' = [conf EXCEPT ![c].pc = "snapshot", ![c].copy = Defaults]
  /\ UNCHANGED <<asked, loopVars, regVars, push, raced>>

\* refresh_config() copies the active batchers under the lock.
Snapshot(c) ==
  /\ conf[c].pc = "snapshot"
  /\ conf' = [conf EXCEPT ![c].pc = "next", ![c].todo = active]
  /\ UNCHANGED <<config, asked, loopVars, regVars, push, raced>>

\* The next batcher, and the cap for it.
ReadCap(c) ==
  /\ conf[c].pc = "next"
  /\ \E b \in conf[c].todo :
       conf' = [conf EXCEPT ![c].pc = "max", ![c].b = b, ![c].todo = @ \ {b},
                            ![c].val = config["cap"]]
  /\ UNCHANGED <<config, asked, loopVars, regVars, push, raced>>

\* set_threshold_max(): the cap is stored, then the current threshold clamped.
StoreMax(c) ==
  /\ conf[c].pc = "max"
  /\ bat' = [bat EXCEPT ![conf[c].b].max = conf[c].val]
  /\ conf' = [conf EXCEPT ![c].pc = "clamp"]
  /\ UNCHANGED <<config, asked, active, retired, freed, look, ctx, loopVars, push, raced>>

\* Mutant of Clamp: the current threshold stays until the next push.
ClampLater(c) ==
  /\ conf[c].pc = "clamp"
  /\ conf' = [conf EXCEPT ![c].pc = "lat", ![c].val = 0]
  /\ UNCHANGED <<bat, config, asked, active, retired, freed, look, ctx, loopVars, push, raced>>

Clamp(c) ==
  /\ conf[c].pc = "clamp"
  /\ bat' = IF bat[conf[c].b].cur > conf[c].val
            THEN [bat EXCEPT ![conf[c].b].cur = conf[c].val] ELSE bat
  /\ conf' = [conf EXCEPT ![c].pc = "lat", ![c].val = 0]
  /\ UNCHANGED <<config, asked, active, retired, freed, look, ctx, loopVars, push, raced>>

\* set_target_latency_us(cfg.adaptive_target_latency_us())
StoreLat(c) ==
  /\ conf[c].pc = "lat"
  /\ bat' = [bat EXCEPT ![conf[c].b].lat = config["lat"]]
  /\ conf' = [conf EXCEPT ![c].pc = "next", ![c].b = 0]
  /\ UNCHANGED <<config, asked, active, retired, freed, look, ctx, loopVars, push, raced>>

Return(c) ==
  /\ conf[c].pc = "next" /\ conf[c].todo = {}
  /\ conf' = [conf EXCEPT ![c] = NoCall]
  /\ UNCHANGED <<config, asked, loopVars, regVars, push, raced>>

ConfigureStep(c) ==
  \/ Update(c) \/ Snapshot(c) \/ ReadCap(c) \/ StoreMax(c) \/ Clamp(c)
  \/ StoreLat(c) \/ Return(c)

-----------------------------------------------------------------------------
(* The adaptive threshold, recomputed by push() under the batcher's mutex. *)

\* The cap is read; pushes come from operations of any loop, late ones included.
LoadMax(b) ==
  /\ b \in active \union retired /\ push[b] = 0
  /\ push' = [push EXCEPT ![b] = bat[b].max]
  /\ raced' = (raced \/ Configuring)
  /\ UNCHANGED <<loopVars, regVars, confVars>>

\* The median can be anything: so can the threshold, up to the cap that was read.
StoreThreshold(b) ==
  /\ push[b] # 0
  /\ \E t \in {Low, push[b]} : bat' = [bat EXCEPT ![b].cur = t]
  /\ push' = [push EXCEPT ![b] = 0]
  /\ UNCHANGED <<active, retired, freed, look, ctx, loopVars, confVars, raced>>

-----------------------------------------------------------------------------
Next ==
  \/ \E l \in Loops, a \in Addrs :
       NewLoop(l, a) \/ Find(l, a) \/ Miss(l, a) \/ Construct(l, a) \/ Insert(l, a)
  \/ \E l \in Loops : SetCandidate(l)
  \/ \E a \in Addrs : Collect(a)
  \/ Clear
  \/ \E c \in Calls :
       \/ \E k \in Keys, v \in Vals : Get(c, k, v)
       \/ Reset(c) \/ ConfigureStep(c)
  \/ \E b \in Ids : LoadMax(b) \/ StoreThreshold(b)

Spec == Init /\ [][Next]_vars

-----------------------------------------------------------------------------
Candidates(l) == {look[l][i].b : i \in DOMAIN look[l]} \ {0}

\* Type invariant.
TypeOK ==
  /\ at \in [Addrs -> Loops \union {Nil}] /\ gone \subseteq Loops
  /\ bat \in Seq([loop : Loops, addr : Addrs, max : Vals, cur : Vals, lat : Vals])
  /\ Len(bat) <= MaxBatchers
  /\ active \subseteq Built /\ retired \subseteq Built /\ freed \subseteq Built
  /\ \A l \in Loops :
       /\ ctx[l] \subseteq Built
       /\ Len(look[l]) <= MaxNest
       /\ \A i \in DOMAIN look[l] :
            look[l][i].pc \in {"build", "lat", "insert"} /\ look[l][i].b \in Built \union {0}
  /\ config \in [Keys -> Vals] /\ asked \in [Keys -> Vals]
  /\ \A c \in Calls :
       /\ conf[c].pc \in {"idle", "update", "snapshot", "next", "max", "clamp", "lat"}
       /\ conf[c].copy \in [Keys -> Vals] /\ conf[c].todo \subseteq Built
  /\ push \in [Ids -> Vals \union {0}] /\ raced \in BOOLEAN

\* All handles of a loop share one batcher, which is the loop's own and alive,
\* even if the address had another loop or a nested call came first.
OneForEachLoop ==
  \A l \in Loops :
    /\ Cardinality(ctx[l]) <= 1
    /\ \A b \in ctx[l] : bat[b].loop = l /\ b \in active

\* A batcher that has been built is being built by one call, active, retired or
\* destroyed, and only one of these; an address has one active batcher.
Accounted ==
  /\ \A b \in Built :
       Cardinality({l \in Loops : b \in Candidates(l)})
         + Cardinality({s \in {"a", "r", "f"} :
             b \in (CASE s = "a" -> active [] s = "r" -> retired [] s = "f" -> freed)}) = 1
  /\ \A b, d \in active : bat[b].addr = bat[d].addr => b = d

\* With the types: a loop gets its own batcher, and none is lost or destroyed twice
\* (batcher_registry.cpp:16-78).
RightBatcher == TypeOK /\ OneForEachLoop /\ Accounted

\* After a configure() or reset_config() beside which no other call of these,
\* no creation of a batcher and no push ran, and until the next: the
\* configuration is what was asked for, and every active batcher has its
\* values, those made since included, with a threshold within the cap
\* (py_config.cpp:148-150, batcher_registry.cpp:80-87).
SettingsReach ==
  (~Configuring /\ ~raced) =>
    /\ config = asked
    /\ \A b \in active : /\ bat[b].max = config["cap"] /\ bat[b].lat = config["lat"]
                         /\ bat[b].cur <= bat[b].max

\* CHANGES.md:398 without the condition: configure() and reset_config() "now
\* push the current values into every live batcher".
SettingsAlwaysReach ==
  (~Configuring) => \A b \in active : bat[b].max = config["cap"]
=============================================================================
