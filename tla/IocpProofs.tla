------------------------------ MODULE IocpProofs ------------------------------
(***************************************************************************)
(* Proofs about Iocp, for any number of operations, sessions and blocks,   *)
(* with and without packets that come twice or late: who ends a request,   *)
(* where its block is, and what the count of a session says.               *)
(*                                                                         *)
(* A stray packet that comes "early", while the submitting thread still    *)
(* runs, is left out: README.                                              *)
(***************************************************************************)
EXTENDS Iocp, FiniteSetTheorems, TLAPS

\* The loop's thread is inside ReadFile/WriteFile or behind it.
AtWork == {"start", "synced", "failed", "RESOLVED", "REJECTED", "deliver"}
LoopPcs == {"idle", "checked", "close", "wait"} \union AtWork
Requested == {"counted", "kernel", "posted"}

\* What the loop's thread holds: an operation it has let in, then the request
\* it made for it, or a session it closes.
LoopHolds ==
  /\ loop \in [pc : LoopPcs, op : Ops \union {None}, blk : Blocks \union {None},
               ses : Sessions \union {None}]
  /\ loop.pc = "idle" => loop = Idle
  /\ loop.pc = "checked" => /\ loop.op \in Ops /\ loop.ses \in Sessions /\ loop.blk = None
                            /\ stage[loop.op] = "new" /\ sess[loop.op] = loop.ses
  /\ loop.pc \in AtWork => /\ loop.op \in Ops /\ loop.ses \in Sessions /\ loop.blk \in Blocks
                           /\ stage[loop.op] = "counted" /\ sess[loop.op] = loop.ses
                           /\ req[loop.blk].op = loop.op
                           /\ loop.pc # "deliver" => /\ req[loop.blk].state = "PENDING"
                                                     /\ ~req[loop.blk].reaped
                           /\ loop.pc = "deliver" => req[loop.blk].state # "PENDING"
  /\ loop.pc \in {"close", "wait"} => loop.op = None /\ loop.blk = None /\ loop.ses \in Sessions

\* What a worker holds: the request that its packet was posted for.
Claims == [pc : {"claimed", "uncounted"}, op : Ops, blk : Blocks, ses : Sessions]

WorkersHold ==
  /\ worker \in [Sessions -> Claims \union {Idle}]
  /\ \A s \in Sessions : worker[s] # Idle =>
       /\ req[worker[s].blk] = [op |-> worker[s].op, ses |-> s,
                                state |-> "RESOLVED", reaped |-> FALSE]
       /\ stage[worker[s].op] = "posted"

\* Where the loop's thread or a worker has decided the end of a request that
\* has not been released yet.
Deciding(b) == (loop.pc = "deliver" /\ loop.blk = b) \/ \E s \in Sessions : worker[s].blk = b

\* Requests: each operation has one at most, in one block; a request that is
\* released belongs to an operation that has ended, or is ending.
Requests ==
  /\ \A b \in Blocks : req[b].op \in Ops =>
       /\ req[b].ses = sess[req[b].op] /\ stage[req[b].op] \in Requested \union {"done"}
       /\ \A c \in Blocks : req[c].op = req[b].op => c = b
  /\ \A b \in Blocks : ~req[b].reaped =>
       /\ req[b].op \in Ops /\ stage[req[b].op] \in Requested
       /\ req[b].state = "PENDING" \/ Deciding(b)
  /\ \A b \in Blocks : req[b].reaped =>
       /\ req[b].state # "PENDING"
       /\ req[b].op \in Ops => stage[req[b].op] = "done" \/ (loop.pc = "deliver" /\ loop.blk = b)
  /\ \A o \in Ops : stage[o] \in {"kernel", "posted"} =>
       \E b \in Blocks : req[b].op = o /\ ~req[b].reaped

\* An operation ends once; it is counted only while the loop's thread has it.
Stages ==
  /\ \A o \in Ops : delivered[o] = IF stage[o] = "done" THEN 1 ELSE 0
  /\ \A o \in Ops : stage[o] = "counted" => loop.op = o /\ loop.pc \in AtWork
  /\ \A o \in Ops : stage[o] \notin {"new", "done"} => sess[o] \in Sessions

\* Packets: one that names a block with another request names another
\* session, and a free block is named only by packets of sessions that are
\* gone for good; none is there before the call that starts the request.
PacketOK(p) ==
  /\ p.op \in Ops /\ p.blk \in Blocks /\ p.ses \in Sessions
  /\ stage[p.op] \in {"counted", "posted", "done"} /\ sess[p.op] = p.ses
  /\ req[p.blk].op = p.op \/ req[p.blk].ses # p.ses
  /\ free[p.blk] > 0 => p.ses \notin map \union {loop.ses}
  /\ loop.pc = "start" => p.op # loop.op

Packets == \A p \in packets : PacketOK(p)

\* The count of a session that is gone may stay too high, never too low.
Counts ==
  \A s \in Sessions : /\ Cardinality(Counted(s)) <= pending[s]
                      /\ s \in map => pending[s] = Cardinality(Counted(s))

Inv == /\ TypeOK /\ BlockInOnePlace
       /\ LoopHolds /\ WorkersHold /\ Requests /\ Stages /\ Packets /\ Counts
------------------------------------------------------------------------------
(* What stays when a step leaves something alone.                          *)

\* Names differ from the name that stands for nothing.
LEMMA NoneDiffers == None \notin Ops /\ None \notin Sessions /\ None \notin Blocks
BY Flags DEF Ops, Sessions

\* The idle record.
LEMMA IdleFields == Idle.pc = "idle" /\ Idle.op = None /\ Idle.blk = None /\ Idle.ses = None
BY DEF Idle

\* Workers keep what they hold while their operations stay posted.
LEMMA WorkersFrame ==
  ASSUME WorkersHold, UNCHANGED <<worker, req>>,
         \A o \in Ops : stage[o] = "posted" => stage'[o] = "posted"
  PROVE  WorkersHold'
BY DEF WorkersHold, Claims

\* Whoever has decided the end of a request.
LEMMA DecidingFrame ==
  ASSUME NEW b \in Blocks, UNCHANGED worker,
         (loop.pc = "deliver" /\ loop.blk = b) <=> (loop'.pc = "deliver" /\ loop'.blk = b)
  PROVE  Deciding(b)' <=> Deciding(b)
BY DEF Deciding

\* Requests stay as they are when their operations do.
LEMMA RequestsFrame ==
  ASSUME Requests, UNCHANGED <<req, worker>>,
         \A o \in Ops : stage[o] # "new" => sess'[o] = sess[o],
         \A o \in Ops : stage[o] \in Requested => stage'[o] \in Requested,
         \A o \in Ops : stage[o] = "done" => stage'[o] = "done",
         \A o \in Ops : stage'[o] \in {"kernel", "posted"} => stage[o] \in Requested,
         \A o \in Ops : stage'[o] \in {"kernel", "posted"} =>
            \E b \in Blocks : req[b].op = o /\ ~req[b].reaped,
         \A b \in Blocks : (loop.pc = "deliver" /\ loop.blk = b) <=> (loop'.pc = "deliver" /\ loop'.blk = b)
  PROVE  Requests'
<1>1. \A b \in Blocks : Deciding(b)' <=> Deciding(b)
  BY DecidingFrame
<1>2. (\A b \in Blocks : req[b].op \in Ops =>
         /\ req[b].ses = sess[req[b].op] /\ stage[req[b].op] \in Requested \union {"done"}
         /\ \A c \in Blocks : req[c].op = req[b].op => c = b)'
  BY DEF Requests, Requested
<1>3. (\A b \in Blocks : ~req[b].reaped =>
         /\ req[b].op \in Ops /\ stage[req[b].op] \in Requested
         /\ req[b].state = "PENDING" \/ Deciding(b))'
  BY <1>1 DEF Requests
<1>4. (\A b \in Blocks : req[b].reaped =>
         /\ req[b].state # "PENDING"
         /\ req[b].op \in Ops => stage[req[b].op] = "done" \/ (loop.pc = "deliver" /\ loop.blk = b))'
  BY DEF Requests
<1> QED
  BY <1>2, <1>3, <1>4 DEF Requests

\* Packets stay right when no stage goes back, no session comes back and no
\* block becomes free.
LEMMA PacketsFrame ==
  ASSUME Packets, UNCHANGED <<req, free>>,
         \A p \in packets' : p \in packets \/ PacketOK(p)',
         \A o \in Ops : stage[o] # "new" => sess'[o] = sess[o],
         \A o \in Ops : stage[o] \in {"counted", "posted", "done"} =>
                        stage'[o] \in {"counted", "posted", "done"},
         map' \subseteq map, loop'.ses \in map \union {loop.ses, None},
         loop'.pc = "start" => loop.pc = "start" /\ loop'.op = loop.op
  PROVE  Packets'
<1> SUFFICES ASSUME NEW p \in packets' PROVE PacketOK(p)'
  BY DEF Packets
<1>1. CASE PacketOK(p)'
  BY <1>1
<1>2. CASE p \in packets
  <2>1. PacketOK(p)
    BY <1>2 DEF Packets
  <2> QED
    BY <2>1, NoneDiffers DEF PacketOK
<1> QED
  BY <1>1, <1>2

\* A block that is in quarantine or free has been released, and is there once.
LEMMA Released ==
  ASSUME TypeOK, BlockInOnePlace, NEW b \in Blocks
  PROVE  /\ shelf[b] \in Nat /\ free[b] \in Nat
         /\ ~req[b].reaped => shelf[b] = 0 /\ free[b] = 0
         /\ free[b] > 0 => req[b].reaped /\ shelf[b] = 0 /\ free[b] = 1
         /\ shelf[b] > 0 => req[b].reaped /\ shelf[b] = 1 /\ free[b] = 0
<1>1. shelf[b] \in Nat /\ free[b] \in Nat
  BY DEF TypeOK
<1>2. CASE req[b].reaped
  <2>1. shelf[b] + free[b] = 1
    BY <1>2 DEF BlockInOnePlace
  <2> QED
    BY <1>1, <1>2, <2>1
<1>3. CASE ~req[b].reaped
  <2>1. shelf[b] + free[b] = 0
    BY <1>3 DEF BlockInOnePlace
  <2>2. shelf[b] = 0 /\ free[b] = 0
    BY <1>1, <2>1
  <2> QED
    BY <1>1, <1>3, <2>2
<1> QED
  BY <1>2, <1>3

\* There are finitely many counted operations.
LEMMA CountedFinite == \A s : IsFiniteSet(Counted(s)) /\ Cardinality(Counted(s)) \in Nat
<1>1. IsFiniteSet(Ops)
  BY Flags, FS_Interval DEF Ops, Flags
<1>2. \A s : Counted(s) \subseteq Ops
  BY DEF Counted
<1> QED
  BY <1>1, <1>2, FS_Subset, FS_CardinalityType

\* The count stays while nothing is counted.
LEMMA CountsFrame ==
  ASSUME Counts, map' \subseteq map, pending' = pending,
         \A s \in Sessions : Counted(s)' = Counted(s)
  PROVE  Counts'
BY DEF Counts

\* What is counted, as a relation of its own.
Counting(o, s) ==
  /\ sess[o] = s
  /\ stage[o] \in {"counted", "kernel", "posted", "pool", "leaked"}
  /\ ~(loop.op = o /\ loop.pc \in {"RESOLVED", "REJECTED", "deliver"})
  /\ ~(worker[s].op = o /\ worker[s].pc = "uncounted")

\* The set and the relation agree, before a step and after.
LEMMA CountedIs == /\ \A s : Counted(s) = {o \in Ops : Counting(o, s)}
                   /\ \A s : Counted(s)' = {o \in Ops : Counting(o, s)'}
BY DEF Counted, Counting

\* The set stays when the relation does.
LEMMA CountedFrame ==
  ASSUME \A o \in Ops, s \in Sessions : Counting(o, s)' <=> Counting(o, s)
  PROVE  \A s \in Sessions : Counted(s)' = Counted(s)
BY CountedIs

\* One operation more ...
LEMMA CountUp ==
  ASSUME Counts, TypeOK, map' = map, NEW a \in Ops, NEW t \in Sessions,
         pending' = [pending EXCEPT ![t] = @ + 1],
         ~Counting(a, t),
         \A o \in Ops, s \in Sessions : Counting(o, s)' <=> Counting(o, s) \/ (o = a /\ s = t)
  PROVE  Counts'
<1>1. Counted(t)' = Counted(t) \union {a}
  BY CountedIs
<1>2. Cardinality(Counted(t)') = Cardinality(Counted(t)) + 1
  <2>1. a \notin Counted(t)
    BY CountedIs
  <2>2. IsFiniteSet(Counted(t))
    BY CountedFinite
  <2> QED
    BY ONLY <1>1, <2>1, <2>2, FS_AddElement
<1>3. \A s \in Sessions : s # t => Counted(s)' = Counted(s) /\ pending'[s] = pending[s]
  BY CountedIs DEF TypeOK
<1>4. pending[t] \in Nat /\ pending'[t] = pending[t] + 1
  BY DEF TypeOK
<1> QED
  BY <1>2, <1>3, <1>4, CountedFinite DEF Counts

\* ... or one less: the count goes down too, except for a session that has
\* left the map.
LEMMA CountDown ==
  ASSUME Counts, TypeOK, map' = map, NEW a \in Ops, NEW t \in Sessions, NEW n \in {-1, 0},
         pending' = [pending EXCEPT ![t] = @ + n], t \in map => n = -1,
         Counting(a, t),
         \A o \in Ops, s \in Sessions : Counting(o, s)' <=> Counting(o, s) /\ ~(o = a /\ s = t)
  PROVE  Counts' /\ pending' \in [Sessions -> Nat]
<1>1. Counted(t)' = Counted(t) \ {a} /\ a \in Counted(t)
  BY CountedIs
<1>2. Cardinality(Counted(t)') = Cardinality(Counted(t)) - 1
  <2>1. IsFiniteSet(Counted(t))
    BY CountedFinite
  <2> QED
    BY ONLY <1>1, <2>1, FS_RemoveElement
<1>3. \A s \in Sessions : s # t => Counted(s)' = Counted(s) /\ pending'[s] = pending[s]
  BY CountedIs DEF TypeOK
<1>4. pending[t] \in Nat /\ pending'[t] = pending[t] + n /\ Cardinality(Counted(t)') \in Nat
  BY <1>1, CountedFinite, FS_RemoveElement, FS_CardinalityType DEF TypeOK
<1>5. pending'[t] >= Cardinality(Counted(t)') /\ (t \in map => pending'[t] = Cardinality(Counted(t)'))
  BY <1>2, <1>4, CountedFinite DEF Counts
<1>6. \A s \in Sessions : pending'[s] \in Nat
  BY <1>3, <1>4, <1>5 DEF TypeOK
<1>7. pending' \in [Sessions -> Nat]
  BY <1>6 DEF TypeOK
<1> QED
  BY <1>3, <1>5, <1>7 DEF Counts
------------------------------------------------------------------------------
(* Steps that neither submit nor end anything.                             *)

\* The loop's thread is as far with its operation as before.
LoopAsFar ==
  /\ \A b \in Blocks : (loop.pc = "deliver" /\ loop.blk = b) <=> (loop'.pc = "deliver" /\ loop'.blk = b)
  /\ \A o \in Ops : (loop.op = o /\ loop.pc \in {"RESOLVED", "REJECTED", "deliver"}) <=>
                    (loop'.op = o /\ loop'.pc \in {"RESOLVED", "REJECTED", "deliver"})
  /\ \A o \in Ops : loop.op = o /\ loop.pc \in AtWork => loop'.op = o /\ loop'.pc \in AtWork
  /\ loop'.ses \in map \union {loop.ses, None}
  /\ loop'.pc = "start" => loop.pc = "start" /\ loop'.op = loop.op

\* Sessions that close, with all that is in flight left alone.
LEMMA QuietKeeps ==
  ASSUME Inv, UNCHANGED <<ops, memory, worker, pending, skip>>,
         \A p \in packets' : p \in packets \/ PacketOK(p)',
         map' \subseteq map, running' \subseteq Sessions, handle' \subseteq Sessions,
         cancelled' \subseteq Sessions, expired' \in BOOLEAN,
         LoopHolds', LoopAsFar
  PROVE  Inv'
<1>1. UNCHANGED <<sess, stage, delivered, req, shelf, free, worker, pending, skip>>
  BY DEF ops, memory
<1>2. TypeOK'
  BY <1>1 DEF Inv, TypeOK
<1>3. BlockInOnePlace'
  BY <1>1 DEF Inv, BlockInOnePlace
<1>4. WorkersHold'
  BY <1>1, WorkersFrame DEF Inv
<1>5. Requests'
  <2>1. \A o \in Ops : stage'[o] \in {"kernel", "posted"} =>
            \E b \in Blocks : req[b].op = o /\ ~req[b].reaped
    BY <1>1 DEF Inv, Requests
  <2> QED
    BY <1>1, <2>1, RequestsFrame DEF Inv, LoopAsFar, Requested
<1>6. Stages'
  BY <1>1 DEF Inv, Stages, LoopAsFar
<1>7. Packets'
  BY <1>1, PacketsFrame DEF Inv, LoopAsFar
<1>8. Counts'
  <2>1. \A o \in Ops, s \in Sessions : Counting(o, s)' <=> Counting(o, s)
    BY <1>1 DEF Counting, LoopAsFar
  <2> QED
    BY <1>1, <2>1, CountsFrame, CountedFrame DEF Inv
<1> QED
  BY <1>2, <1>3, <1>4, <1>5, <1>6, <1>7, <1>8 DEF Inv

\* The loop's thread stands still.
LEMMA LoopStays ==
  ASSUME Inv, UNCHANGED <<loop, stage, sess, req>>
  PROVE  LoopHolds' /\ LoopAsFar
<1>1. LoopHolds'
  BY DEF Inv, LoopHolds
<1>2. LoopAsFar
  BY DEF LoopAsFar
<1> QED
  BY <1>1, <1>2

\* The call fails: nothing else is known yet.
LEMMA StartFailsKeeps == ASSUME Inv, StartFails PROVE Inv'
<1>1. /\ loop.pc = "start" /\ loop'.pc = "failed" /\ loop'.op = loop.op /\ loop'.blk = loop.blk
      /\ loop'.ses = loop.ses
      /\ loop' \in [pc : LoopPcs, op : Ops \union {None}, blk : Blocks \union {None}, ses : Sessions \union {None}]
  BY DEF StartFails, Inv, LoopHolds, LoopPcs, AtWork
<1>2. UNCHANGED <<sessions, ops, memory, packets, worker, expired, all>>
  BY DEF StartFails
<1>3. LoopHolds'
  BY <1>1, <1>2 DEF Inv, LoopHolds, AtWork, ops, memory
<1>4. LoopAsFar
  BY <1>1 DEF LoopAsFar, AtWork
<1> QED
  BY <1>2, <1>3, <1>4, QuietKeeps DEF sessions, Inv, TypeOK

\* Closing a session begins, ...
LEMMA BeginCloseKeeps == ASSUME Inv, NEW s \in Sessions, BeginClose(s) PROVE Inv'
<1>1. /\ loop.pc = "idle" /\ s \in map
      /\ loop' = [pc |-> "close", op |-> None, blk |-> None, ses |-> s]
  BY DEF BeginClose, Idle
<1>2. /\ UNCHANGED <<map, handle, skip, pending, cancelled, ops, memory, packets, worker, expired, all>>
      /\ running' \subseteq running
  BY DEF BeginClose
<1>3. LoopHolds'
  BY <1>1, <1>2 DEF LoopHolds, AtWork, LoopPcs
<1>4. LoopAsFar
  BY <1>1 DEF LoopAsFar, AtWork
<1> QED
  BY <1>2, <1>3, <1>4, QuietKeeps DEF Inv, TypeOK

\* ... cancels ...
LEMMA CancelKeeps == ASSUME Inv, Cancel PROVE Inv'
<1>1. /\ loop.pc = "close" /\ loop.op = None /\ loop.blk = None /\ loop.ses \in Sessions
      /\ loop'.pc = "wait" /\ loop'.op = None /\ loop'.blk = None /\ loop'.ses = loop.ses
      /\ loop' \in [pc : LoopPcs, op : Ops \union {None}, blk : Blocks \union {None}, ses : Sessions \union {None}]
  BY DEF Cancel, Inv, LoopHolds, LoopPcs
<1>2. /\ UNCHANGED <<map, running, handle, skip, pending, ops, memory, packets, worker, expired, all>>
      /\ cancelled' \subseteq Sessions
  BY <1>1 DEF Cancel, Inv, TypeOK
<1>3. LoopHolds'
  BY <1>1, <1>2 DEF LoopHolds, AtWork
<1>4. LoopAsFar
  BY <1>1 DEF LoopAsFar, AtWork
<1> QED
  BY <1>2, <1>3, <1>4, QuietKeeps DEF Inv, TypeOK

\* ... and ends.
LEMMA CloseSessionKeeps == ASSUME Inv, CloseSession PROVE Inv'
<1>1. loop.pc = "wait" /\ loop' = Idle
  BY DEF CloseSession
<1>2. /\ UNCHANGED <<running, skip, pending, cancelled, ops, memory, packets, worker, all>>
      /\ map' \subseteq map /\ handle' \subseteq handle /\ expired' = FALSE
  BY DEF CloseSession
<1>3. LoopHolds'
  BY <1>1 DEF LoopHolds, AtWork, Idle, LoopPcs
<1>4. LoopAsFar
  BY <1>1 DEF LoopAsFar, AtWork, Idle
<1> QED
  BY <1>2, <1>3, <1>4, QuietKeeps DEF Inv, TypeOK

\* The deadline and the steps of close_all_sessions() and shutdown().
LEMMA ElsewhereKeeps ==
  ASSUME Inv,
         \/ Expire \/ AllBegin \/ AllClear \/ Shutdown
         \/ \E s \in Sessions : AllShut(s) \/ AllClose(s)
  PROVE  Inv'
<1>1. /\ UNCHANGED <<ops, memory, packets, worker, pending, skip, loop>>
      /\ map' \subseteq map /\ running' \subseteq Sessions /\ handle' \subseteq Sessions
      /\ cancelled' \subseteq Sessions /\ expired' \in BOOLEAN
  <2> USE DEF Inv, TypeOK, sessions
  <2>1. CASE Expire
    BY <2>1 DEF Expire
  <2>2. CASE AllBegin \/ AllClear \/ Shutdown
    BY <2>2 DEF AllBegin, AllClear, Shutdown
  <2>3. ASSUME NEW s \in Sessions, AllShut(s) \/ AllClose(s)
        PROVE  /\ UNCHANGED <<ops, memory, packets, worker, pending, skip, loop>>
               /\ map' \subseteq map /\ running' \subseteq Sessions /\ handle' \subseteq Sessions
               /\ cancelled' \subseteq Sessions /\ expired' \in BOOLEAN
    BY <2>3 DEF AllShut, AllClose
  <2> QED
    BY <2>1, <2>2, <2>3
<1> QED
  BY <1>1, LoopStays, QuietKeeps DEF ops, memory
------------------------------------------------------------------------------
(* Operations without a request.                                           *)

\* What ends in the call, or is let in, leaves requests and packets alone.
LEMMA RefusedKeeps ==
  ASSUME Inv, NEW o \in Ops, stage[o] = "new",
         stage' = [stage EXCEPT ![o] = "done"], Complete(o),
         \A x \in Ops : x # o => sess'[x] = sess[x],
         sess' \in [Ops -> Sessions \union {None}],
         UNCHANGED <<sessions, memory, packets, worker, expired>>,
         loop' = Idle, loop.pc \in {"idle", "checked"},
         loop.pc = "checked" => sess' = sess
  PROVE  Inv'
<1> USE IdleFields, NoneDiffers
<1>1. /\ stage'[o] = "done" /\ (\A x \in Ops : x # o => stage'[x] = stage[x])
      /\ stage' \in [Ops -> {"new", "counted", "kernel", "posted", "pool", "leaked", "done"}]
      /\ delivered'[o] = delivered[o] + 1 /\ (\A x \in Ops : x # o => delivered'[x] = delivered[x])
      /\ delivered' \in [Ops -> Nat]
  BY DEF Inv, TypeOK, Complete
<1>2. UNCHANGED <<map, running, handle, skip, pending, cancelled, req, shelf, free>>
  BY DEF sessions, memory
<1>3. TypeOK'
  BY <1>1, <1>2 DEF Inv, TypeOK
<1>4. BlockInOnePlace'
  BY <1>2 DEF Inv, BlockInOnePlace
<1>5. LoopHolds'
  BY DEF LoopHolds, AtWork, Idle, LoopPcs
<1>6. WorkersHold'
  BY <1>1, <1>2, WorkersFrame DEF Inv
<1>7. \A b \in Blocks : ~(loop.pc = "deliver" /\ loop.blk = b) /\ ~(loop'.pc = "deliver" /\ loop'.blk = b)
  OBVIOUS
<1>8. Requests'
  <2>1. \A x \in Ops : stage'[x] \in {"kernel", "posted"} =>
            \E b \in Blocks : req[b].op = x /\ ~req[b].reaped
    BY <1>1 DEF Inv, Requests
  <2> QED
    BY <1>1, <1>2, <1>7, <2>1, RequestsFrame DEF Inv, Requested
<1>9. Stages'
  <2>1. \A x \in Ops : stage[x] # "counted"
    BY DEF Inv, Stages, AtWork
  <2> QED
    BY <1>1, <2>1 DEF Inv, Stages
<1>10. Packets'
  BY <1>1, <1>2, PacketsFrame DEF Inv
<1>11. Counts'
  <2>1. \A x \in Ops, s \in Sessions : Counting(x, s)' <=> Counting(x, s)
    BY <1>1 DEF Counting
  <2> QED
    BY <1>2, <2>1, CountsFrame, CountedFrame DEF Inv
<1> QED
  BY <1>3, <1>4, <1>5, <1>6, <1>8, <1>9, <1>10, <1>11 DEF Inv

\* End of file, bad argument and the like.
LEMMA FinishInlineKeeps == ASSUME Inv, FinishInline PROVE Inv'
<1>1. loop.pc = "checked" /\ loop.op \in Ops /\ stage[loop.op] = "new"
  BY DEF FinishInline, Inv, LoopHolds
<1>2. /\ stage' = [stage EXCEPT ![loop.op] = "done"] /\ Complete(loop.op) /\ loop' = Idle
      /\ UNCHANGED <<sessions, sess, memory, packets, worker, expired>>
  BY DEF FinishInline
<1> QED
  BY <1>1, <1>2, RefusedKeeps DEF Inv, TypeOK

\* An operation is let in or refused.
LEMMA EnterKeeps ==
  ASSUME Inv, NEW o \in Ops, NEW s \in Sessions, Enter(o, s)
  PROVE  Inv'
<1> USE IdleFields, NoneDiffers
<1>1. /\ loop.pc = "idle" /\ loop = Idle /\ stage[o] = "new" /\ sess' = [sess EXCEPT ![o] = s]
      /\ UNCHANGED <<sessions, memory, packets, worker, expired>>
  BY DEF Enter, Inv, LoopHolds
<1>2. /\ sess'[o] = s /\ (\A x \in Ops : x # o => sess'[x] = sess[x])
      /\ sess' \in [Ops -> Sessions \union {None}]
  BY <1>1 DEF Inv, TypeOK
<1>3. CASE stage' = [stage EXCEPT ![o] = "done"] /\ Complete(o) /\ UNCHANGED loop
  BY <1>1, <1>2, <1>3, RefusedKeeps
<1>4. CASE /\ s \in map
           /\ loop' = [Idle EXCEPT !.pc = "checked", !.op = o, !.ses = s]
           /\ UNCHANGED <<stage, delivered>>
  <2>1. loop' = [pc |-> "checked", op |-> o, blk |-> None, ses |-> s]
    BY <1>4 DEF Idle
  <2>2. UNCHANGED <<map, running, handle, skip, pending, cancelled, req, shelf, free, stage, delivered>>
    BY <1>1, <1>4 DEF sessions, memory
  <2>3. TypeOK'
    BY <1>1, <1>2, <2>2 DEF Inv, TypeOK
  <2>4. BlockInOnePlace'
    BY <2>2 DEF Inv, BlockInOnePlace
  <2>5. LoopHolds'
    BY <1>1, <1>2, <2>1, <2>2 DEF LoopHolds, AtWork, LoopPcs
  <2>6. WorkersHold'
    BY <1>1, <2>2, WorkersFrame DEF Inv
  <2>7. \A b \in Blocks : ~(loop.pc = "deliver" /\ loop.blk = b) /\ ~(loop'.pc = "deliver" /\ loop'.blk = b)
    BY <1>1, <2>1
  <2>8. Requests'
    <3>1. \A x \in Ops : stage'[x] \in {"kernel", "posted"} =>
              \E b \in Blocks : req[b].op = x /\ ~req[b].reaped
      BY <2>2 DEF Inv, Requests
    <3> QED
      BY <1>1, <1>2, <2>2, <2>7, <3>1, RequestsFrame DEF Inv, Requested
  <2>9. Stages'
    <3>1. \A x \in Ops : stage[x] # "counted"
      BY <1>1 DEF Inv, Stages, AtWork
    <3> QED
      BY <1>1, <1>2, <2>2, <3>1 DEF Inv, Stages
  <2>10. Packets'
    <3>1. loop'.ses \in map /\ loop'.pc # "start"
      BY <1>4, <2>1
    <3> QED
      BY <1>1, <1>2, <2>2, <3>1, PacketsFrame DEF Inv
  <2>11. Counts'
    <3>1. \A x \in Ops, t \in Sessions : Counting(x, t)' <=> Counting(x, t)
      BY <1>1, <1>2, <2>1, <2>2 DEF Counting
    <3> QED
      BY <2>2, <3>1, CountsFrame, CountedFrame DEF Inv
  <2> QED
    BY <2>3, <2>4, <2>5, <2>6, <2>8, <2>9, <2>10, <2>11 DEF Inv
<1> QED
  BY <1>3, <1>4 DEF Enter

\* The operation a worker holds is in stage posted.
LEMMA HeldArePosted ==
  ASSUME WorkersHold, NEW s \in Sessions, worker[s].pc = "uncounted"
  PROVE  worker[s].op \in Ops /\ stage[worker[s].op] = "posted"
BY IdleFields DEF WorkersHold, Claims

\* A flush is counted and handed to the pool, ...
LEMMA FlushKeeps == ASSUME Inv, Flush PROVE Inv'
<1> USE IdleFields, NoneDiffers
<1> DEFINE a == loop.op  t == loop.ses
<1>1. /\ loop.pc = "checked" /\ a \in Ops /\ t \in Sessions /\ stage[a] = "new" /\ sess[a] = t
  BY DEF Flush, Inv, LoopHolds
<1>2. /\ pending' = [pending EXCEPT ![t] = @ + 1]
      /\ loop' = Idle
      /\ UNCHANGED <<map, running, handle, skip, cancelled, sess, delivered, req, shelf, free,
                     packets, worker, expired>>
  BY DEF Flush, Add, memory
<1>p. PICK st \in {"pool", "leaked"} : stage' = [stage EXCEPT ![a] = st]
  BY Zenon DEF Flush
<1> HIDE DEF a, t
<1>3. /\ stage'[a] \in {"pool", "leaked"} /\ (\A x \in Ops : x # a => stage'[x] = stage[x])
      /\ stage' \in [Ops -> {"new", "counted", "kernel", "posted", "pool", "leaked", "done"}]
      /\ pending' \in [Sessions -> Nat]
  BY <1>1, <1>2, <1>p DEF Inv, TypeOK
<1>4. TypeOK'
  BY <1>2, <1>3 DEF Inv, TypeOK
<1>5. BlockInOnePlace'
  BY <1>2 DEF Inv, BlockInOnePlace
<1>6. LoopHolds'
  BY <1>2 DEF LoopHolds, AtWork, Idle, LoopPcs
<1>7. WorkersHold'
  BY <1>1, <1>2, <1>3, WorkersFrame DEF Inv
<1>8. Requests'
  <2>1. \A x \in Ops : stage'[x] \in {"kernel", "posted"} =>
            \E b \in Blocks : req[b].op = x /\ ~req[b].reaped
    BY <1>3 DEF Inv, Requests
  <2>2. \A b \in Blocks : ~(loop.pc = "deliver" /\ loop.blk = b) /\ ~(loop'.pc = "deliver" /\ loop'.blk = b)
    BY <1>1, <1>2
  <2> QED
    BY <1>1, <1>2, <1>3, <2>1, <2>2, RequestsFrame DEF Inv, Requested
<1>9. Stages'
  <2>1. \A x \in Ops : stage[x] # "counted"
    BY <1>1 DEF Inv, Stages, AtWork
  <2> QED
    BY <1>1, <1>2, <1>3, <2>1 DEF Inv, Stages
<1>10. Packets'
  BY <1>1, <1>2, <1>3, PacketsFrame DEF Inv
<1>11. Counts'
  <2>1. \A x \in Ops, s \in Sessions : Counting(x, s)' <=> Counting(x, s) \/ (x = a /\ s = t)
    BY <1>1, <1>2, <1>3, HeldArePosted DEF Counting, Inv
  <2>2. ~Counting(a, t)
    BY <1>1 DEF Counting
  <2>3. map' = map /\ pending' = [pending EXCEPT ![t] = @ + 1] /\ Counts /\ TypeOK
    BY <1>2 DEF Inv
  <2> QED
    BY ONLY <1>1, <2>1, <2>2, <2>3, CountUp
<1> QED
  BY <1>4, <1>5, <1>6, <1>7, <1>8, <1>9, <1>10, <1>11 DEF Inv

\* ... where it ends.
LEMMA FlushTaskKeeps == ASSUME Inv, NEW o \in Ops, FlushTask(o) PROVE Inv'
<1> USE IdleFields, NoneDiffers
<1> DEFINE t == sess[o]
<1>1. stage[o] = "pool" /\ t \in Sessions
  BY DEF FlushTask, Inv, Stages
<1>2. /\ pending' = [pending EXCEPT ![t] = @ + (-1)] /\ stage' = [stage EXCEPT ![o] = "done"]
      /\ UNCHANGED <<map, running, handle, skip, cancelled, sess, req, shelf, free,
                     packets, worker, loop, expired>>
      /\ Complete(o)
  BY DEF FlushTask, Add, memory
<1>3. /\ stage'[o] = "done" /\ (\A x \in Ops : x # o => stage'[x] = stage[x])
      /\ stage' \in [Ops -> {"new", "counted", "kernel", "posted", "pool", "leaked", "done"}]
      /\ delivered'[o] = delivered[o] + 1 /\ (\A x \in Ops : x # o => delivered'[x] = delivered[x])
      /\ delivered' \in [Ops -> Nat]
  BY <1>1, <1>2 DEF Inv, TypeOK, Complete
<1>4. Counts' /\ pending' \in [Sessions -> Nat]
  <2>1. \A x \in Ops, s \in Sessions : Counting(x, s)' <=> Counting(x, s) /\ ~(x = o /\ s = t)
    BY <1>1, <1>2, <1>3 DEF Counting
  <2>2. Counting(o, t)
    <3>1. worker[t].pc = "uncounted" => worker[t].op # o
      BY <1>1, HeldArePosted DEF Inv
    <3>2. loop.pc \in AtWork => loop.op # o
      BY <1>1 DEF Inv, LoopHolds
    <3> QED
      BY <1>1, <3>1, <3>2 DEF Counting, AtWork
  <2> HIDE DEF t
  <2> QED
    BY <1>1, <1>2, <2>1, <2>2, CountDown DEF Inv
<1> HIDE DEF t
<1>5. TypeOK'
  BY <1>2, <1>3, <1>4 DEF Inv, TypeOK
<1>6. BlockInOnePlace'
  BY <1>2 DEF Inv, BlockInOnePlace
<1>7. LoopHolds'
  BY <1>1, <1>2, <1>3 DEF Inv, LoopHolds
<1>8. WorkersHold'
  BY <1>1, <1>2, <1>3, WorkersFrame DEF Inv
<1>9. Requests'
  <2>1. \A x \in Ops : stage'[x] \in {"kernel", "posted"} =>
            \E b \in Blocks : req[b].op = x /\ ~req[b].reaped
    BY <1>3 DEF Inv, Requests
  <2> QED
    BY <1>1, <1>2, <1>3, <2>1, RequestsFrame DEF Inv, Requested
<1>10. Stages'
  BY <1>1, <1>2, <1>3 DEF Inv, Stages
<1>11. Packets'
  BY <1>1, <1>2, <1>3, PacketsFrame DEF Inv
<1> QED
  BY <1>4, <1>5, <1>6, <1>7, <1>8, <1>9, <1>10, <1>11 DEF Inv
------------------------------------------------------------------------------
(* Requests in the hands of the loop's thread.                             *)

\* What a worker has in hand.
LEMMA WorkerHas ==
  ASSUME Inv, NEW s \in Sessions, worker[s] # Idle
  PROVE  /\ worker[s].pc \in {"claimed", "uncounted"}
         /\ worker[s].op \in Ops /\ worker[s].blk \in Blocks
         /\ stage[worker[s].op] = "posted" /\ sess[worker[s].op] = s
         /\ req[worker[s].blk].op = worker[s].op /\ req[worker[s].blk].ses = s
         /\ req[worker[s].blk].state = "RESOLVED" /\ ~req[worker[s].blk].reaped
<1>1. /\ worker[s] \in Claims
      /\ req[worker[s].blk] = [op |-> worker[s].op, ses |-> s,
                               state |-> "RESOLVED", reaped |-> FALSE]
      /\ stage[worker[s].op] = "posted"
  BY DEF Inv, WorkersHold
<1>2. /\ worker[s].pc \in {"claimed", "uncounted"}
      /\ worker[s].op \in Ops /\ worker[s].blk \in Blocks
  BY <1>1 DEF Claims
<1>3. /\ req[worker[s].blk].op = worker[s].op /\ req[worker[s].blk].ses = s
      /\ req[worker[s].blk].state = "RESOLVED" /\ ~req[worker[s].blk].reaped
  BY <1>1
<1>4. sess[worker[s].op] = s
  BY <1>2, <1>3 DEF Inv, Requests
<1> QED
  BY <1>1, <1>2, <1>3, <1>4

\* A request is made in a free block, which only packets of other sessions
\* can still name.
LEMMA CountKeeps == ASSUME Inv, Count PROVE Inv'
<1> USE IdleFields, NoneDiffers
<1> DEFINE o == loop.op  t == loop.ses
           b == CHOOSE x \in Blocks : free[x] > 0
<1>1. /\ loop.pc = "checked" /\ o \in Ops /\ t \in Sessions /\ loop.blk = None
      /\ stage[o] = "new" /\ sess[o] = t
  BY DEF Count, Inv, LoopHolds
<1>2. b \in Blocks /\ free[b] > 0
  BY DEF Count
<1>3. /\ free' = [free EXCEPT ![b] = @ - 1]
      /\ req' = [req EXCEPT ![b] = [op |-> o, ses |-> t, state |-> "PENDING", reaped |-> FALSE]]
      /\ loop' = [loop EXCEPT !.pc = "start", !.blk = b]
      /\ pending' = [pending EXCEPT ![t] = @ + 1] /\ stage' = [stage EXCEPT ![o] = "counted"]
      /\ UNCHANGED <<map, running, handle, skip, cancelled, sess, delivered, shelf, packets,
                     worker, expired>>
  BY DEF Count, Add
<1> HIDE DEF o, t, b
<1>4. /\ stage'[o] = "counted" /\ (\A x \in Ops : x # o => stage'[x] = stage[x])
      /\ stage' \in [Ops -> {"new", "counted", "kernel", "posted", "pool", "leaked", "done"}]
      /\ pending' \in [Sessions -> Nat]
  BY <1>1, <1>3 DEF Inv, TypeOK
<1>5. /\ req'[b] = [op |-> o, ses |-> t, state |-> "PENDING", reaped |-> FALSE]
      /\ \A c \in Blocks : c # b => req'[c] = req[c]
      /\ req' \in [Blocks -> [op : Ops \union {None}, ses : Sessions \union {None},
                              state : {"PENDING", "RESOLVED", "REJECTED"}, reaped : BOOLEAN]]
  BY <1>1, <1>2, <1>3 DEF Inv, TypeOK
<1>6. req[b].reaped /\ shelf[b] = 0 /\ free[b] = 1
  BY <1>2, Released DEF Inv
<1>7. /\ free'[b] = 0 /\ (\A c \in Blocks : c # b => free'[c] = free[c])
      /\ free' \in [Blocks -> Nat]
  BY <1>2, <1>3, <1>6 DEF Inv, TypeOK
<1>8. /\ loop' \in [pc : LoopPcs, op : Ops \union {None}, blk : Blocks \union {None}, ses : Sessions \union {None}]
      /\ loop'.pc = "start" /\ loop'.op = o /\ loop'.blk = b /\ loop'.ses = t
  BY <1>1, <1>2, <1>3 DEF Inv, LoopHolds, LoopPcs, AtWork, o, t
<1>9. TypeOK'
  BY <1>3, <1>4, <1>5, <1>7 DEF Inv, TypeOK
<1>10. BlockInOnePlace'
  BY <1>3, <1>5, <1>6, <1>7 DEF Inv, BlockInOnePlace
<1>11. LoopHolds'
  BY <1>1, <1>2, <1>3, <1>4, <1>5, <1>8 DEF LoopHolds, AtWork, LoopPcs
<1>12. WorkersHold'
  <2>1. \A s \in Sessions : worker[s] # Idle =>
          req'[worker[s].blk] = req[worker[s].blk] /\ stage'[worker[s].op] = stage[worker[s].op]
    BY <1>1, <1>4, <1>5, <1>6, WorkerHas
  <2> QED
    BY <1>3, <2>1 DEF Inv, WorkersHold
<1>13. Requests'
  <2>1. \A c \in Blocks : req[c].op # o
    BY <1>1 DEF Inv, Requests, Requested
  <2>2. (\A c \in Blocks : req[c].op \in Ops =>
           /\ req[c].ses = sess[req[c].op] /\ stage[req[c].op] \in Requested \union {"done"}
           /\ \A d \in Blocks : req[d].op = req[c].op => d = c)'
    BY <2>1, <1>1, <1>3, <1>4, <1>5 DEF Inv, Requests, Requested
  <2>3. \A c \in Blocks : Deciding(c)' <=> Deciding(c)
    BY <1>1, <1>3, <1>8, DecidingFrame
  <2>4. (\A c \in Blocks : ~req[c].reaped =>
           /\ req[c].op \in Ops /\ stage[req[c].op] \in Requested
           /\ req[c].state = "PENDING" \/ Deciding(c))'
    BY <2>1, <2>3, <1>1, <1>4, <1>5 DEF Inv, Requests, Requested
  <2>5. (\A c \in Blocks : req[c].reaped =>
           /\ req[c].state # "PENDING"
           /\ req[c].op \in Ops => stage[req[c].op] = "done" \/ (loop.pc = "deliver" /\ loop.blk = c))'
    BY <2>1, <1>1, <1>4, <1>5 DEF Inv, Requests
  <2>6. (\A x \in Ops : stage[x] \in {"kernel", "posted"} =>
            \E c \in Blocks : req[c].op = x /\ ~req[c].reaped)'
    <3> SUFFICES ASSUME NEW x \in Ops, stage'[x] \in {"kernel", "posted"}
                 PROVE  \E c \in Blocks : req'[c].op = x /\ ~req'[c].reaped
      OBVIOUS
    <3>1. x # o /\ stage[x] \in {"kernel", "posted"}
      BY <1>4
    <3>2. PICK c \in Blocks : req[c].op = x /\ ~req[c].reaped
      BY <3>1 DEF Inv, Requests
    <3> QED
      BY <3>2, <1>5, <1>6
  <2> QED
    BY <2>2, <2>4, <2>5, <2>6 DEF Requests
<1>14. Stages'
  <2>1. \A x \in Ops : stage[x] # "counted"
    BY <1>1 DEF Inv, Stages, AtWork
  <2> QED
    BY <1>1, <1>3, <1>4, <1>8, <2>1 DEF Inv, Stages, AtWork
<1>15. Packets'
  <2> SUFFICES ASSUME NEW p \in packets PROVE PacketOK(p)'
    BY <1>3 DEF Packets
  <2>1. PacketOK(p)
    BY DEF Inv, Packets
  <2>2. CASE p.blk = b
    BY <2>1, <2>2, <1>1, <1>2, <1>3, <1>4, <1>5, <1>7, <1>8 DEF PacketOK, t
  <2>3. CASE p.blk # b
    BY <2>1, <2>3, <1>1, <1>3, <1>4, <1>5, <1>7, <1>8 DEF PacketOK, t
  <2> QED
    BY <2>2, <2>3
<1>16. Counts'
  <2>1. \A x \in Ops, s \in Sessions : Counting(x, s)' <=> Counting(x, s) \/ (x = o /\ s = t)
    BY <1>1, <1>3, <1>4, <1>8, HeldArePosted DEF Counting, Inv
  <2>2. ~Counting(o, t)
    BY <1>1 DEF Counting
  <2>3. map' = map /\ pending' = [pending EXCEPT ![t] = @ + 1] /\ Counts /\ TypeOK
    BY <1>3 DEF Inv
  <2> QED
    BY ONLY <1>1, <2>1, <2>2, <2>3, CountUp
<1> QED
  BY <1>9, <1>10, <1>11, <1>12, <1>13, <1>14, <1>15, <1>16 DEF Inv
\* What the loop's thread has in hand during a request.
LEMMA AtHand ==
  ASSUME Inv, loop.pc \in AtWork
  PROVE  /\ loop.op \in Ops /\ loop.ses \in Sessions /\ loop.blk \in Blocks
         /\ stage[loop.op] = "counted" /\ sess[loop.op] = loop.ses
         /\ req[loop.blk].op = loop.op /\ req[loop.blk].ses = loop.ses
         /\ (loop.pc # "deliver" =>
               /\ req[loop.blk].state = "PENDING" /\ ~req[loop.blk].reaped
               /\ free[loop.blk] = 0)
         /\ \A s \in Sessions : worker[s].op # loop.op /\ worker[s].blk # loop.blk
<1> USE IdleFields, NoneDiffers
<1>1. /\ loop.op \in Ops /\ loop.ses \in Sessions /\ loop.blk \in Blocks
      /\ stage[loop.op] = "counted" /\ sess[loop.op] = loop.ses
      /\ req[loop.blk].op = loop.op
      /\ (loop.pc # "deliver" => req[loop.blk].state = "PENDING" /\ ~req[loop.blk].reaped)
  BY DEF Inv, LoopHolds
<1>2. req[loop.blk].ses = loop.ses
  BY <1>1 DEF Inv, Requests
<1>3. ~req[loop.blk].reaped => free[loop.blk] = 0
  BY <1>1, Released DEF Inv
<1>4. \A s \in Sessions : worker[s].op # loop.op /\ worker[s].blk # loop.blk
  <2> SUFFICES ASSUME NEW s \in Sessions
               PROVE  worker[s].op # loop.op /\ worker[s].blk # loop.blk
    OBVIOUS
  <2>1. CASE worker[s] = Idle
    BY <1>1, <2>1
  <2>2. CASE worker[s] # Idle
    BY <1>1, <2>2, WorkerHas
  <2> QED
    BY <2>1, <2>2
<1> QED
  BY <1>1, <1>2, <1>3, <1>4

\* What a post adds.
LEMMA PostAdds ==
  ASSUME NEW o \in Ops, NEW b \in Blocks, NEW n \in Nat, Post(o, b, n)
  PROVE  \A p \in packets' : p \in packets \/ (p.op = o /\ p.blk = b /\ p.ses = sess[o])
BY DEF Post

\* The loop's thread hands a request over, to the kernel or to a worker by
\* way of a packet.
LEMMA HandedKeeps ==
  ASSUME Inv, loop.pc = "start", NEW x \in {"kernel", "posted"},
         stage' = [stage EXCEPT ![loop.op] = x], loop' = Idle,
         UNCHANGED <<sessions, sess, delivered, memory, worker, expired, all>>,
         \A p \in packets' : \/ p \in packets
                             \/ /\ x = "posted"
                                /\ p.op = loop.op /\ p.blk = loop.blk /\ p.ses = sess[loop.op]
  PROVE  Inv'
<1> USE IdleFields, NoneDiffers
<1> DEFINE o == loop.op  t == loop.ses  b == loop.blk
<1>1. /\ o \in Ops /\ t \in Sessions /\ b \in Blocks /\ stage[o] = "counted" /\ sess[o] = t
      /\ req[b].op = o /\ req[b].ses = t /\ req[b].state = "PENDING" /\ ~req[b].reaped /\ free[b] = 0
      /\ \A s \in Sessions : worker[s].op # o /\ worker[s].blk # b
  BY AtHand DEF AtWork
<1>2. /\ UNCHANGED <<map, running, handle, skip, pending, cancelled, sess, delivered, req, shelf, free,
                     worker, expired>>
      /\ loop'.pc = "idle"
  BY DEF sessions, memory
<1>3. /\ stage'[o] = x /\ (\A y \in Ops : y # o => stage'[y] = stage[y])
      /\ stage' \in [Ops -> {"new", "counted", "kernel", "posted", "pool", "leaked", "done"}]
  BY <1>1 DEF Inv, TypeOK
<1>4. \A y \in Ops : stage[y] = "counted" => y = o
  BY DEF Inv, Stages
<1>5. Packets'
  <2> SUFFICES ASSUME NEW p \in packets' PROVE PacketOK(p)'
    BY DEF Packets
  <2>1. CASE p \in packets
    <3>1. PacketOK(p)
      BY <2>1 DEF Inv, Packets
    <3> QED
      BY <3>1, <1>1, <1>2, <1>3 DEF PacketOK
  <2>2. CASE x = "posted" /\ p.op = o /\ p.blk = b /\ p.ses = sess[o]
    BY <2>2, <1>1, <1>2, <1>3 DEF PacketOK
  <2> QED
    BY <2>1, <2>2
<1> HIDE DEF o, t, b
<1>6. TypeOK'
  BY <1>2, <1>3 DEF Inv, TypeOK
<1>7. BlockInOnePlace'
  BY <1>2 DEF Inv, BlockInOnePlace
<1>8. LoopHolds'
  BY DEF LoopHolds, AtWork, Idle, LoopPcs
<1>9. WorkersHold'
  BY <1>1, <1>2, <1>3, WorkersFrame DEF Inv
<1>10. Requests'
  <2>1. \A y \in Ops : stage'[y] \in {"kernel", "posted"} =>
            \E c \in Blocks : req[c].op = y /\ ~req[c].reaped
    BY <1>1, <1>3 DEF Inv, Requests
  <2>2. \A c \in Blocks : ~(loop.pc = "deliver" /\ loop.blk = c) /\ ~(loop'.pc = "deliver" /\ loop'.blk = c)
    BY <1>2
  <2> QED
    BY <1>1, <1>2, <1>3, <2>1, <2>2, RequestsFrame DEF Inv, Requested
<1>11. Stages'
  BY <1>1, <1>2, <1>3, <1>4 DEF Inv, Stages
<1>12. Counts'
  <2>1. \A y \in Ops, s \in Sessions : Counting(y, s)' <=> Counting(y, s)
    BY <1>1, <1>2, <1>3 DEF Counting
  <2> QED
    BY <1>2, <2>1, CountsFrame, CountedFrame DEF Inv
<1> QED
  BY <1>5, <1>6, <1>7, <1>8, <1>9, <1>10, <1>11, <1>12 DEF Inv

\* The call is pending.
LEMMA StartPendsKeeps == ASSUME Inv, StartPends PROVE Inv'
BY HandedKeeps DEF StartPends

\* The call succeeds at once.
LEMMA StartSucceedsKeeps == ASSUME Inv, StartSucceeds PROVE Inv'
<1> USE IdleFields, NoneDiffers
<1>1. /\ loop.pc = "start"
      /\ loop.op \in Ops /\ loop.ses \in Sessions /\ loop.blk \in Blocks
      /\ stage[loop.op] = "counted" /\ sess[loop.op] = loop.ses
      /\ req[loop.blk].op = loop.op /\ req[loop.blk].state = "PENDING" /\ ~req[loop.blk].reaped
      /\ free[loop.blk] = 0
  BY AtHand DEF StartSucceeds, AtWork
<1>2. UNCHANGED <<sessions, sess, delivered, memory, worker, expired, all>>
  BY DEF StartSucceeds
<1>3. CASE skip
  <2>1. /\ loop'.pc = "synced" /\ loop'.op = loop.op /\ loop'.blk = loop.blk /\ loop'.ses = loop.ses
        /\ loop' \in [pc : LoopPcs, op : Ops \union {None}, blk : Blocks \union {None}, ses : Sessions \union {None}]
        /\ UNCHANGED stage
    BY <1>3 DEF StartSucceeds, Inv, LoopHolds, LoopPcs, AtWork
  <2>2. PICK n \in {0, 1} : Post(loop.op, loop.blk, n)
    BY <1>3 DEF StartSucceeds
  <2>3. \A p \in packets' : p \in packets \/ (p.op = loop.op /\ p.blk = loop.blk /\ p.ses = sess[loop.op])
    BY <1>1, <2>2, PostAdds
  <2>4. \A p \in packets' : p \in packets \/ PacketOK(p)'
    BY <1>1, <1>2, <2>1, <2>3 DEF PacketOK, memory
  <2>5. LoopHolds'
    BY <1>1, <1>2, <2>1 DEF LoopHolds, AtWork, memory
  <2>6. LoopAsFar
    BY <1>1, <2>1 DEF LoopAsFar, AtWork
  <2> QED
    BY <1>2, <2>1, <2>4, <2>5, <2>6, QuietKeeps DEF sessions, ops, memory, Inv, TypeOK
<1>4. CASE ~skip
  <2>1. loop' = Idle /\ stage' = [stage EXCEPT ![loop.op] = "posted"]
    BY <1>4 DEF StartSucceeds
  <2>2. PICK n \in {1, 2} : Post(loop.op, loop.blk, n)
    BY <1>4 DEF StartSucceeds
  <2>3. \A p \in packets' : p \in packets \/ (p.op = loop.op /\ p.blk = loop.blk /\ p.ses = sess[loop.op])
    BY <1>1, <2>2, PostAdds
  <2> QED
    BY <1>1, <1>2, <2>1, <2>3, HandedKeeps
<1> QED
  BY <1>3, <1>4
\* The submitting thread ends an operation: it takes back the count, ...
LEMMA SyncUncountKeeps == ASSUME Inv, SyncUncount PROVE Inv'
<1> USE IdleFields, NoneDiffers
<1> DEFINE o == loop.op  t == loop.ses  b == loop.blk
<1>1. /\ loop.pc \in {"synced", "failed"}
      /\ o \in Ops /\ t \in Sessions /\ b \in Blocks /\ stage[o] = "counted" /\ sess[o] = t
      /\ \A s \in Sessions : worker[s].op # o
  BY AtHand DEF SyncUncount, AtWork
<1>2. /\ pending' = [pending EXCEPT ![t] = @ + (-1)]
      /\ UNCHANGED <<map, running, handle, skip, cancelled, sess, stage, delivered, req, shelf, free,
                     packets, worker, expired>>
  BY DEF SyncUncount, Add, ops, memory
<1>3. /\ loop'.pc \in {"RESOLVED", "REJECTED"} /\ loop'.op = o /\ loop'.blk = b /\ loop'.ses = t
      /\ loop' \in [pc : LoopPcs, op : Ops \union {None}, blk : Blocks \union {None}, ses : Sessions \union {None}]
  BY <1>1 DEF SyncUncount, Inv, LoopHolds, LoopPcs, AtWork
<1>4. LoopHolds'
  BY <1>1, <1>2, <1>3 DEF Inv, LoopHolds, AtWork
<1>5. /\ Counting(o, t)
      /\ \A x \in Ops, s \in Sessions : Counting(x, s)' <=> Counting(x, s) /\ ~(x = o /\ s = t)
  BY <1>1, <1>2, <1>3 DEF Counting
<1>6. \A c \in Blocks : ~(loop.pc = "deliver" /\ loop.blk = c) /\ ~(loop'.pc = "deliver" /\ loop'.blk = c)
  BY <1>1, <1>3
<1>7. Requests'
  <2>1. \A x \in Ops : stage'[x] \in {"kernel", "posted"} =>
            \E c \in Blocks : req[c].op = x /\ ~req[c].reaped
    BY <1>2 DEF Inv, Requests
  <2> QED
    BY <1>2, <1>6, <2>1, RequestsFrame DEF Inv, Requested
<1>8. Stages'
  BY <1>1, <1>2, <1>3 DEF Inv, Stages, AtWork
<1>9. Packets'
  BY <1>2, <1>3, PacketsFrame DEF Inv
<1> HIDE DEF o, t, b
<1>10. Counts' /\ pending' \in [Sessions -> Nat]
  BY <1>1, <1>2, <1>5, CountDown DEF Inv
<1>11. TypeOK'
  BY <1>2, <1>10 DEF Inv, TypeOK
<1>12. BlockInOnePlace'
  BY <1>2 DEF Inv, BlockInOnePlace
<1>13. WorkersHold'
  BY <1>2, WorkersFrame DEF Inv
<1> QED
  BY <1>4, <1>7, <1>8, <1>9, <1>10, <1>11, <1>12, <1>13 DEF Inv

\* What a change of one request's state leaves alone.
LEMMA Decides ==
  ASSUME Inv, NEW b \in Blocks, NEW x \in {"RESOLVED", "REJECTED"},
         req' = [req EXCEPT ![b].state = x]
  PROVE  /\ req' \in [Blocks -> [op : Ops \union {None}, ses : Sessions \union {None},
                                 state : {"PENDING", "RESOLVED", "REJECTED"}, reaped : BOOLEAN]]
         /\ \A c \in Blocks : c # b => req'[c] = req[c]
         /\ req'[b].op = req[b].op /\ req'[b].ses = req[b].ses /\ req'[b].state = x
         /\ req'[b].reaped = req[b].reaped
BY DEF Inv, TypeOK

\* Packets do not depend on how far a request is.
LEMMA PacketsDecided ==
  ASSUME Inv, packets' \subseteq packets, UNCHANGED <<map, sess, free>>,
         \A c \in Blocks : req'[c].op = req[c].op /\ req'[c].ses = req[c].ses,
         \A o \in Ops : stage[o] \in {"counted", "posted", "done"} =>
                        stage'[o] \in {"counted", "posted", "done"},
         loop'.ses \in {loop.ses, None}, loop'.pc # "start" \/ loop' = loop
  PROVE  Packets'
<1> SUFFICES ASSUME NEW p \in packets' PROVE PacketOK(p)'
  BY DEF Packets
<1>1. PacketOK(p)
  BY DEF Inv, Packets
<1> QED
  BY <1>1, NoneDiffers DEF PacketOK

\* ... decides, ...
LEMMA SyncResolveKeeps == ASSUME Inv, SyncResolve PROVE Inv'
<1> USE IdleFields, NoneDiffers
<1> DEFINE o == loop.op  t == loop.ses  b == loop.blk
<1>1. /\ loop.pc \in {"RESOLVED", "REJECTED"}
      /\ o \in Ops /\ t \in Sessions /\ b \in Blocks /\ stage[o] = "counted" /\ sess[o] = t
      /\ req[b].op = o /\ req[b].state = "PENDING" /\ ~req[b].reaped
      /\ \A s \in Sessions : worker[s].op # o /\ worker[s].blk # b
  BY AtHand DEF SyncResolve, AtWork
<1>2. UNCHANGED <<map, running, handle, skip, pending, cancelled, sess, stage, delivered, shelf, free,
                  packets, worker, expired>>
  BY DEF SyncResolve, sessions, ops
<1>3. /\ loop'.pc = "deliver" /\ loop'.op = o /\ loop'.blk = b /\ loop'.ses = t
      /\ loop' \in [pc : LoopPcs, op : Ops \union {None}, blk : Blocks \union {None}, ses : Sessions \union {None}]
  BY <1>1 DEF SyncResolve, Inv, LoopHolds, LoopPcs, AtWork
<1>4. /\ req' \in [Blocks -> [op : Ops \union {None}, ses : Sessions \union {None},
                              state : {"PENDING", "RESOLVED", "REJECTED"}, reaped : BOOLEAN]]
      /\ \A c \in Blocks : c # b => req'[c] = req[c]
      /\ req'[b].op = o /\ req'[b].ses = req[b].ses /\ req'[b].state # "PENDING" /\ ~req'[b].reaped
  <2>1. req' = [req EXCEPT ![b].state = loop.pc]
    BY DEF SyncResolve
  <2> QED
    BY <1>1, <2>1, Decides
<1> HIDE DEF o, t, b
<1>5. TypeOK'
  BY <1>2, <1>4 DEF Inv, TypeOK
<1>6. BlockInOnePlace'
  <2>1. \A c \in Blocks : req'[c].reaped <=> req[c].reaped
    BY <1>1, <1>4
  <2> QED
    BY <1>2, <2>1 DEF Inv, BlockInOnePlace
<1>7. LoopHolds'
  BY <1>1, <1>2, <1>3, <1>4 DEF LoopHolds, AtWork
<1>8. WorkersHold'
  <2>1. \A s \in Sessions : worker[s] # Idle => req'[worker[s].blk] = req[worker[s].blk]
    BY <1>1, <1>4, WorkerHas
  <2> QED
    BY <1>2, <2>1 DEF Inv, WorkersHold
<1>9. Requests'
  <2>1. (\A c \in Blocks : req[c].op \in Ops =>
           /\ req[c].ses = sess[req[c].op] /\ stage[req[c].op] \in Requested \union {"done"}
           /\ \A d \in Blocks : req[d].op = req[c].op => d = c)'
    BY <1>1, <1>2, <1>4 DEF Inv, Requests
  <2>2. \A c \in Blocks : Deciding(c) => Deciding(c)'
    BY <1>1, <1>2, <1>3 DEF Deciding
  <2>3. \A c \in Blocks : c = b => Deciding(c)'
    BY <1>3 DEF Deciding
  <2>4. (\A c \in Blocks : ~req[c].reaped =>
           /\ req[c].op \in Ops /\ stage[req[c].op] \in Requested
           /\ req[c].state = "PENDING" \/ Deciding(c))'
    BY <2>2, <2>3, <1>1, <1>2, <1>4 DEF Inv, Requests, Requested
  <2>5. (\A c \in Blocks : req[c].reaped =>
           /\ req[c].state # "PENDING"
           /\ req[c].op \in Ops => stage[req[c].op] = "done" \/ (loop.pc = "deliver" /\ loop.blk = c))'
    BY <1>1, <1>2, <1>3, <1>4 DEF Inv, Requests
  <2>6. (\A x \in Ops : stage[x] \in {"kernel", "posted"} =>
            \E c \in Blocks : req[c].op = x /\ ~req[c].reaped)'
    BY <1>1, <1>2, <1>4 DEF Inv, Requests
  <2> QED
    BY <2>1, <2>4, <2>5, <2>6 DEF Requests
<1>10. Stages'
  BY <1>1, <1>2, <1>3 DEF Inv, Stages, AtWork, o
<1>11. Packets'
  BY <1>1, <1>2, <1>3, <1>4, PacketsDecided DEF t
<1>12. Counts'
  <2>1. \A x \in Ops, s \in Sessions : Counting(x, s)' <=> Counting(x, s)
    BY <1>1, <1>2, <1>3 DEF Counting, o
  <2> QED
    BY <1>2, <2>1, CountsFrame, CountedFrame DEF Inv
<1> QED
  BY <1>5, <1>6, <1>7, <1>8, <1>9, <1>10, <1>11, <1>12 DEF Inv

\* What release_request() does: the block is in quarantine or where it was.
LEMMA ReleaseDoes ==
  ASSUME Inv, NEW b \in Blocks, Release(b)
  PROVE  /\ req' \in [Blocks -> [op : Ops \union {None}, ses : Sessions \union {None},
                                 state : {"PENDING", "RESOLVED", "REJECTED"}, reaped : BOOLEAN]]
         /\ \A c \in Blocks : c # b => req'[c] = req[c]
         /\ req'[b].op = req[b].op /\ req'[b].ses = req[b].ses /\ req'[b].state = req[b].state
         /\ req'[b].reaped = TRUE
         /\ free' = free /\ shelf' \in [Blocks -> Nat] /\ BlockInOnePlace'
<1>1. /\ req' \in [Blocks -> [op : Ops \union {None}, ses : Sessions \union {None},
                              state : {"PENDING", "RESOLVED", "REJECTED"}, reaped : BOOLEAN]]
      /\ \A c \in Blocks : c # b => req'[c] = req[c]
      /\ req'[b].op = req[b].op /\ req'[b].ses = req[b].ses /\ req'[b].state = req[b].state
      /\ req'[b].reaped = TRUE
      /\ free' = free
  BY DEF Release, Inv, TypeOK
<1>2. CASE req[b].reaped
  <2>1. shelf' = shelf
    BY <1>2 DEF Release, Inv, TypeOK
  <2>2. \A c \in Blocks : req'[c].reaped <=> req[c].reaped
    BY <1>1, <1>2
  <2>3. BlockInOnePlace'
    BY <1>1, <2>1, <2>2 DEF Inv, BlockInOnePlace
  <2> QED
    BY <1>1, <2>1, <2>3 DEF Inv, TypeOK
<1>3. CASE ~req[b].reaped
  <2>1. shelf' = [shelf EXCEPT ![b] = @ + 1] /\ shelf[b] = 0 /\ free[b] = 0
    BY <1>3, Released DEF Release, Inv
  <2>2. /\ shelf'[b] = 1 /\ (\A c \in Blocks : c # b => shelf'[c] = shelf[c])
        /\ shelf' \in [Blocks -> Nat]
    BY <2>1 DEF Inv, TypeOK
  <2>3. \A c \in Blocks : shelf'[c] + free'[c] = IF req'[c].reaped THEN 1 ELSE 0
    <3> SUFFICES ASSUME NEW c \in Blocks
                 PROVE  shelf'[c] + free'[c] = IF req'[c].reaped THEN 1 ELSE 0
      OBVIOUS
    <3>1. CASE c = b
      <4>1. req'[c].reaped = TRUE
        BY <1>1, <3>1
      <4>2. shelf'[c] + free'[c] = 1
        BY <3>1, <2>1, <2>2, <1>1
      <4> QED
        BY <4>1, <4>2
    <3>2. CASE c # b
      BY <3>2, <1>1, <2>2 DEF Inv, BlockInOnePlace
    <3> QED
      BY <3>1, <3>2
  <2> QED
    BY <1>1, <2>2, <2>3 DEF BlockInOnePlace
<1> QED
  BY <1>2, <1>3
\* An operation ends and its request is released, by whichever thread.
LEMMA EndKeeps ==
  ASSUME Inv, NEW o \in Ops, NEW b \in Blocks, req[b].op = o,
         stage[o] \in {"counted", "posted"}, req[b].state # "PENDING",
         stage' = [stage EXCEPT ![o] = "done"], Complete(o), Release(b),
         UNCHANGED <<sessions, sess, packets, expired>>,
         LoopHolds', WorkersHold',
         \A c \in Blocks : c # b /\ Deciding(c) => Deciding(c)',
         \A c \in Blocks : c # b /\ loop.pc = "deliver" /\ loop.blk = c => loop'.pc = "deliver" /\ loop'.blk = c,
         \A x \in Ops : x # o /\ loop.op = x /\ loop.pc \in AtWork => loop'.op = x /\ loop'.pc \in AtWork,
         loop'.ses \in {loop.ses, None}, loop'.pc # "start" \/ loop' = loop,
         \A x \in Ops, s \in Sessions : Counting(x, s)' <=> Counting(x, s)
  PROVE  Inv'
<1>1. /\ stage'[o] = "done" /\ (\A x \in Ops : x # o => stage'[x] = stage[x])
      /\ stage' \in [Ops -> {"new", "counted", "kernel", "posted", "pool", "leaked", "done"}]
      /\ delivered'[o] = delivered[o] + 1 /\ (\A x \in Ops : x # o => delivered'[x] = delivered[x])
      /\ delivered' \in [Ops -> Nat]
  BY DEF Inv, TypeOK, Complete
<1>2. /\ req' \in [Blocks -> [op : Ops \union {None}, ses : Sessions \union {None},
                              state : {"PENDING", "RESOLVED", "REJECTED"}, reaped : BOOLEAN]]
      /\ \A c \in Blocks : c # b => req'[c] = req[c]
      /\ req'[b].op = req[b].op /\ req'[b].ses = req[b].ses /\ req'[b].state = req[b].state
      /\ req'[b].reaped = TRUE
      /\ free' = free /\ shelf' \in [Blocks -> Nat] /\ BlockInOnePlace'
  BY ReleaseDoes
<1>3. UNCHANGED <<map, running, handle, skip, pending, cancelled>>
  BY DEF sessions
<1>4. TypeOK'
  BY <1>1, <1>2, <1>3 DEF Inv, TypeOK
<1>5. Requests'
  <2>1. (\A c \in Blocks : req[c].op \in Ops =>
           /\ req[c].ses = sess[req[c].op] /\ stage[req[c].op] \in Requested \union {"done"}
           /\ \A d \in Blocks : req[d].op = req[c].op => d = c)'
    BY <1>1, <1>2 DEF Inv, Requests
  <2>2. \A c \in Blocks : c # b => req[c].op # o
    BY DEF Inv, Requests
  <2>3. (\A c \in Blocks : ~req[c].reaped =>
           /\ req[c].op \in Ops /\ stage[req[c].op] \in Requested
           /\ req[c].state = "PENDING" \/ Deciding(c))'
    BY <2>2, <1>1, <1>2 DEF Inv, Requests
  <2>4. (\A c \in Blocks : req[c].reaped =>
           /\ req[c].state # "PENDING"
           /\ req[c].op \in Ops => stage[req[c].op] = "done" \/ (loop.pc = "deliver" /\ loop.blk = c))'
    <3> SUFFICES ASSUME NEW c \in Blocks, req'[c].reaped
                 PROVE  /\ req'[c].state # "PENDING"
                        /\ req'[c].op \in Ops => \/ stage'[req'[c].op] = "done"
                                                 \/ loop'.pc = "deliver" /\ loop'.blk = c
      OBVIOUS
    <3>1. CASE c = b
      BY <3>1, <1>1, <1>2
    <3>2. CASE c # b
      BY <3>2, <2>2, <1>1, <1>2 DEF Inv, Requests
    <3> QED
      BY <3>1, <3>2
  <2>5. (\A x \in Ops : stage[x] \in {"kernel", "posted"} =>
            \E c \in Blocks : req[c].op = x /\ ~req[c].reaped)'
    <3> SUFFICES ASSUME NEW x \in Ops, stage'[x] \in {"kernel", "posted"}
                 PROVE  \E c \in Blocks : req'[c].op = x /\ ~req'[c].reaped
      OBVIOUS
    <3>1. x # o /\ stage[x] \in {"kernel", "posted"}
      BY <1>1
    <3>2. PICK c \in Blocks : req[c].op = x /\ ~req[c].reaped
      BY <3>1 DEF Inv, Requests
    <3> QED
      BY <3>1, <3>2, <1>2
  <2> QED
    BY <2>1, <2>3, <2>4, <2>5 DEF Requests
<1>6. Stages'
  BY <1>1 DEF Inv, Stages
<1>7. Packets'
  BY <1>1, <1>2, <1>3, PacketsDecided
<1>8. Counts'
  BY <1>3, CountsFrame, CountedFrame DEF Inv
<1> QED
  BY <1>2, <1>4, <1>5, <1>6, <1>7, <1>8 DEF Inv

\* ... and delivers.
LEMMA SyncDeliverKeeps == ASSUME Inv, SyncDeliver PROVE Inv'
<1> USE IdleFields, NoneDiffers
<1> DEFINE o == loop.op  b == loop.blk
<1>1. /\ loop.pc = "deliver" /\ o \in Ops /\ b \in Blocks /\ stage[o] = "counted" /\ req[b].op = o
      /\ req[b].state # "PENDING"
      /\ \A s \in Sessions : worker[s].op # o /\ worker[s].blk # b
  BY AtHand DEF SyncDeliver, AtWork, Inv, LoopHolds
<1>2. /\ stage' = [stage EXCEPT ![o] = "done"] /\ Complete(o) /\ Release(b) /\ loop' = Idle
      /\ UNCHANGED <<sessions, sess, packets, worker, expired>>
  BY DEF SyncDeliver
<1>3. /\ stage'[o] = "done" /\ \A x \in Ops : x # o => stage'[x] = stage[x]
  BY <1>1, <1>2 DEF Inv, TypeOK
<1>4. LoopHolds'
  BY <1>2 DEF LoopHolds, AtWork, Idle, LoopPcs
<1>5. WorkersHold'
  <2>1. \A s \in Sessions : worker[s] # Idle =>
          req'[worker[s].blk] = req[worker[s].blk] /\ stage'[worker[s].op] = stage[worker[s].op]
    BY <1>1, <1>2, <1>3, WorkerHas, ReleaseDoes
  <2> QED
    BY <1>2, <2>1 DEF Inv, WorkersHold
<1>6. \A c \in Blocks : c # b /\ Deciding(c) => Deciding(c)'
  BY <1>2 DEF Deciding
<1>7. \A x \in Ops, s \in Sessions : Counting(x, s)' <=> Counting(x, s)
  BY <1>1, <1>2, <1>3 DEF Counting
<1> HIDE DEF o, b
<1> QED
  BY <1>1, <1>2, <1>4, <1>5, <1>6, <1>7, EndKeeps DEF o, b
------------------------------------------------------------------------------
(* The kernel, the workers and the quarantine.                             *)

\* A worker delivers what it has claimed.
LEMMA WorkerDeliverKeeps == ASSUME Inv, NEW s \in Sessions, WorkerDeliver(s) PROVE Inv'
<1> USE IdleFields, NoneDiffers
<1> DEFINE o == worker[s].op  b == worker[s].blk
<1>1. /\ worker[s].pc = "uncounted" /\ o \in Ops /\ b \in Blocks /\ stage[o] = "posted" /\ sess[o] = s
      /\ req[b].op = o /\ req[b].ses = s /\ req[b].state = "RESOLVED"
  BY WorkerHas DEF WorkerDeliver
<1>2. /\ stage' = [stage EXCEPT ![o] = "done"] /\ Complete(o) /\ Release(b)
      /\ worker' = [worker EXCEPT ![s] = Idle]
      /\ UNCHANGED <<sessions, sess, packets, loop, expired>>
  BY <1>1 DEF WorkerDeliver
<1>3. /\ stage'[o] = "done" /\ \A x \in Ops : x # o => stage'[x] = stage[x]
  BY <1>1, <1>2 DEF Inv, TypeOK
<1>4. /\ worker'[s] = Idle /\ (\A r \in Sessions : r # s => worker'[r] = worker[r])
      /\ worker' \in [Sessions -> Claims \union {Idle}]
  BY <1>2 DEF Inv, WorkersHold
<1>5. \A c \in Blocks : c # b => req'[c] = req[c]
  BY <1>1, <1>2, ReleaseDoes
<1>6. \A r \in Sessions : r # s /\ worker[r] # Idle =>
        req'[worker[r].blk] = req[worker[r].blk] /\ stage'[worker[r].op] = stage[worker[r].op]
  BY <1>1, <1>3, <1>5, WorkerHas
<1>7. WorkersHold'
  BY <1>4, <1>6 DEF Inv, WorkersHold
<1>8. loop.pc \in AtWork => loop.op # o /\ loop.blk # b
  BY <1>1, AtHand
<1>9. LoopHolds'
  BY <1>1, <1>2, <1>3, <1>5, <1>8 DEF Inv, LoopHolds
<1>10. \A c \in Blocks : c # b /\ Deciding(c) => Deciding(c)'
  BY <1>2, <1>4 DEF Deciding
<1>11. \A x \in Ops, r \in Sessions : Counting(x, r)' <=> Counting(x, r)
  <2> SUFFICES ASSUME NEW x \in Ops, NEW r \in Sessions PROVE Counting(x, r)' <=> Counting(x, r)
    OBVIOUS
  <2>1. CASE x = o
    <3>1. ~Counting(x, r) /\ ~Counting(x, r)'
      BY <2>1, <1>1, <1>2, <1>3 DEF Counting
    <3> QED
      BY <3>1
  <2>2. CASE x # o
    BY <2>2, <1>1, <1>2, <1>3, <1>4 DEF Counting
  <2> QED
    BY <2>1, <2>2
<1> HIDE DEF o, b
<1> QED
  BY <1>1, <1>2, <1>7, <1>8, <1>9, <1>10, <1>11, EndKeeps
\* A worker takes back the count, if the session is still in the map.
LEMMA WorkerUncountKeeps == ASSUME Inv, NEW s \in Sessions, WorkerUncount(s) PROVE Inv'
<1> USE IdleFields, NoneDiffers
<1> DEFINE o == worker[s].op
           n == IF s \in map THEN -1 ELSE 0
<1>1. /\ worker[s].pc = "claimed" /\ worker[s] \in Claims /\ o \in Ops
      /\ stage[o] = "posted" /\ sess[o] = s
  BY WorkerHas DEF WorkerUncount, Inv, WorkersHold
<1>2. /\ pending' = [pending EXCEPT ![s] = @ + n] /\ n \in {-1, 0} /\ (s \in map => n = -1)
      /\ worker' = [worker EXCEPT ![s].pc = "uncounted"]
      /\ UNCHANGED <<map, running, handle, skip, cancelled, sess, stage, delivered, req, shelf, free,
                     packets, loop, expired>>
  BY DEF WorkerUncount, Add, ops, memory
<1> HIDE DEF n
<1>3. /\ worker'[s].pc = "uncounted" /\ worker'[s].op = o /\ worker'[s].blk = worker[s].blk
      /\ worker'[s] \in Claims
      /\ \A r \in Sessions : r # s => worker'[r] = worker[r]
      /\ worker' \in [Sessions -> Claims \union {Idle}]
  BY <1>1, <1>2 DEF Inv, WorkersHold, Claims
<1>4. Counts' /\ pending' \in [Sessions -> Nat]
  <2>1. Counting(o, s)
    <3>1. loop.pc \in AtWork => loop.op # o
      BY <1>1, AtHand
    <3> QED
      BY <1>1, <3>1 DEF Counting, AtWork
  <2>2. \A x \in Ops, r \in Sessions : Counting(x, r)' <=> Counting(x, r) /\ ~(x = o /\ r = s)
    <3> SUFFICES ASSUME NEW x \in Ops, NEW r \in Sessions
                 PROVE  Counting(x, r)' <=> Counting(x, r) /\ ~(x = o /\ r = s)
      OBVIOUS
    <3>1. CASE r = s
      BY <3>1, <1>1, <1>2, <1>3 DEF Counting
    <3>2. CASE r # s
      BY <3>2, <1>2, <1>3 DEF Counting
    <3> QED
      BY <3>1, <3>2
  <2> HIDE DEF o
  <2> QED
    BY <1>1, <1>2, <2>1, <2>2, CountDown DEF Inv
<1>5. TypeOK'
  BY <1>2, <1>4 DEF Inv, TypeOK
<1>6. BlockInOnePlace'
  BY <1>2 DEF Inv, BlockInOnePlace
<1>7. LoopHolds'
  BY <1>2 DEF Inv, LoopHolds
<1>8. WorkersHold'
  <2>1. \A r \in Sessions : worker'[r] # Idle => worker[r] # Idle /\ worker'[r].op = worker[r].op
                                                 /\ worker'[r].blk = worker[r].blk
    BY <1>1, <1>3
  <2> QED
    BY <2>1, <1>2, <1>3 DEF Inv, WorkersHold
<1>9. Requests'
  <2>1. \A c \in Blocks : Deciding(c) => Deciding(c)'
    BY <1>2, <1>3 DEF Deciding
  <2>2. (\A c \in Blocks : ~req[c].reaped =>
           /\ req[c].op \in Ops /\ stage[req[c].op] \in Requested
           /\ req[c].state = "PENDING" \/ Deciding(c))'
    BY <2>1, <1>2 DEF Inv, Requests
  <2> QED
    BY <2>2, <1>2 DEF Inv, Requests
<1>10. Stages'
  BY <1>2 DEF Inv, Stages
<1>11. Packets'
  BY <1>2, PacketsFrame DEF Inv
<1> QED
  BY <1>4, <1>5, <1>6, <1>7, <1>8, <1>9, <1>10, <1>11 DEF Inv

\* A block leaves its quarantine when no packet can name it with success.
LEMMA ReclaimKeeps == ASSUME Inv, NEW b \in Blocks, Reclaim(b) PROVE Inv'
<1>1. /\ shelf[b] > 0
      /\ \A p \in packets : p.blk = b => p.ses \notin map \union {loop.ses}
      /\ shelf' = [shelf EXCEPT ![b] = @ - 1] /\ free' = [free EXCEPT ![b] = @ + 1]
      /\ UNCHANGED <<map, running, handle, skip, pending, cancelled, sess, stage, delivered, req,
                     packets, worker, loop, expired>>
  BY DEF Reclaim, sessions, ops
<1>2. req[b].reaped /\ shelf[b] = 1 /\ free[b] = 0
  BY <1>1, Released DEF Inv
<1>3. /\ shelf'[b] = 0 /\ free'[b] = 1
      /\ \A c \in Blocks : c # b => shelf'[c] = shelf[c] /\ free'[c] = free[c]
      /\ shelf' \in [Blocks -> Nat] /\ free' \in [Blocks -> Nat]
  BY <1>1, <1>2 DEF Inv, TypeOK
<1>4. TypeOK'
  BY <1>1, <1>3 DEF Inv, TypeOK
<1>5. BlockInOnePlace'
  BY <1>1, <1>2, <1>3 DEF Inv, BlockInOnePlace
<1>6. LoopHolds' /\ WorkersHold' /\ Stages'
  BY <1>1 DEF Inv, LoopHolds, WorkersHold, Stages
<1>7. Requests'
  BY <1>1 DEF Inv, Requests, Deciding
<1>8. Packets'
  <2> SUFFICES ASSUME NEW p \in packets PROVE PacketOK(p)'
    BY <1>1 DEF Packets
  <2>1. PacketOK(p)
    BY DEF Inv, Packets
  <2> QED
    BY <2>1, <1>1, <1>3 DEF PacketOK
<1>9. Counts'
  <2>1. \A x \in Ops, s \in Sessions : Counting(x, s)' <=> Counting(x, s)
    BY <1>1 DEF Counting
  <2> QED
    BY <1>1, <2>1, CountsFrame, CountedFrame DEF Inv
<1> QED
  BY <1>4, <1>5, <1>6, <1>7, <1>8, <1>9 DEF Inv

\* The kernel ends a request and posts its packets.
LEMMA KernelDoneKeeps == ASSUME Inv, NEW o \in Ops, KernelDone(o) PROVE Inv'
<1> USE IdleFields, NoneDiffers
<1> DEFINE b == BlockOf(o)
<1>1. stage[o] = "kernel" /\ sess[o] \in Sessions
  BY DEF KernelDone, Inv, Stages
<1>2. PICK c \in Blocks : req[c].op = o /\ ~req[c].reaped
  BY <1>1 DEF Inv, Requests
<1>3. b = c
  <2>1. \A d \in Blocks : req[d].op = o => d = c
    BY <1>2 DEF Inv, Requests
  <2> QED
    BY <1>2, <2>1 DEF BlockOf
<1>4. req[c].ses = sess[o] /\ free[c] = 0
  BY <1>2, Released DEF Inv, Requests
<1>5. /\ stage' = [stage EXCEPT ![o] = "posted"]
      /\ UNCHANGED <<map, running, handle, skip, pending, cancelled, sess, delivered, req, shelf, free,
                     worker, loop, expired>>
  BY DEF KernelDone, sessions, memory
<1>6. PICK n \in {1, 2} : Post(o, b, n)
  BY DEF KernelDone
<1>7. \A p \in packets' : p \in packets \/ (p.op = o /\ p.blk = c /\ p.ses = sess[o])
  BY <1>3, <1>6, PostAdds
<1> HIDE DEF b
<1>8. /\ stage'[o] = "posted" /\ (\A x \in Ops : x # o => stage'[x] = stage[x])
      /\ stage' \in [Ops -> {"new", "counted", "kernel", "posted", "pool", "leaked", "done"}]
  BY <1>5 DEF Inv, TypeOK
<1>9. loop.pc \in AtWork => loop.op # o
  BY <1>1, AtHand
<1>10. TypeOK'
  BY <1>5, <1>8 DEF Inv, TypeOK
<1>11. BlockInOnePlace'
  BY <1>5 DEF Inv, BlockInOnePlace
<1>12. LoopHolds'
  BY <1>1, <1>5, <1>8, <1>9 DEF Inv, LoopHolds
<1>13. WorkersHold'
  BY <1>1, <1>5, <1>8, WorkersFrame DEF Inv
<1>14. Requests'
  <2>1. \A x \in Ops : stage'[x] \in {"kernel", "posted"} =>
            \E d \in Blocks : req[d].op = x /\ ~req[d].reaped
    BY <1>2, <1>8 DEF Inv, Requests
  <2> QED
    BY <1>1, <1>5, <1>8, <2>1, RequestsFrame DEF Inv, Requested
<1>15. Stages'
  BY <1>1, <1>5, <1>8 DEF Inv, Stages
<1>16. Packets'
  <2>1. \A p \in packets' : p \in packets \/ PacketOK(p)'
    <3> SUFFICES ASSUME NEW p \in packets', p \notin packets PROVE PacketOK(p)'
      OBVIOUS
    <3>1. p.op = o /\ p.blk = c /\ p.ses = sess[o]
      BY <1>7
    <3> QED
      BY <3>1, <1>1, <1>2, <1>4, <1>5, <1>8, <1>9 DEF PacketOK, AtWork
  <2> QED
    BY <2>1, <1>1, <1>5, <1>8, PacketsFrame DEF Inv
<1>17. Counts'
  <2>1. \A x \in Ops, s \in Sessions : Counting(x, s)' <=> Counting(x, s)
    <3> SUFFICES ASSUME NEW x \in Ops, NEW s \in Sessions PROVE Counting(x, s)' <=> Counting(x, s)
      OBVIOUS
    <3>1. CASE x = o
      BY <3>1, <1>1, <1>5, <1>8 DEF Counting
    <3>2. CASE x # o
      BY <3>2, <1>5, <1>8 DEF Counting
    <3> QED
      BY <3>1, <3>2
  <2> QED
    BY <1>5, <2>1, CountsFrame, CountedFrame DEF Inv
<1> QED
  BY <1>10, <1>11, <1>12, <1>13, <1>14, <1>15, <1>16, <1>17 DEF Inv
\* A packet for a request that is decided already helps to release it.
LEMMA HelpKeeps ==
  ASSUME Inv, NEW s \in Sessions, worker[s].pc = "idle", NEW b \in Blocks,
         req[b].ses = s, req[b].state # "PENDING", Release(b),
         UNCHANGED <<sessions, ops, worker, loop, expired>>, packets' \subseteq packets
  PROVE  Inv'
<1> USE IdleFields, NoneDiffers
<1>1. /\ req' \in [Blocks -> [op : Ops \union {None}, ses : Sessions \union {None},
                              state : {"PENDING", "RESOLVED", "REJECTED"}, reaped : BOOLEAN]]
      /\ \A c \in Blocks : c # b => req'[c] = req[c]
      /\ req'[b].op = req[b].op /\ req'[b].ses = req[b].ses /\ req'[b].state = req[b].state
      /\ req'[b].reaped = TRUE
      /\ free' = free /\ shelf' \in [Blocks -> Nat] /\ BlockInOnePlace'
  BY ReleaseDoes
<1>2. UNCHANGED <<map, running, handle, skip, pending, cancelled, sess, stage, delivered, worker, loop, expired>>
  BY DEF sessions, ops
<1>3. \A r \in Sessions : worker[r].blk # b
  <2> SUFFICES ASSUME NEW r \in Sessions, worker[r].blk = b PROVE FALSE
    OBVIOUS
  <2>1. worker[r] # Idle
    OBVIOUS
  <2>2. r = s
    BY <2>1, WorkerHas
  <2> QED
    BY <2>1, <2>2, WorkerHas
<1>4. ~req[b].reaped => loop.pc = "deliver" /\ loop.blk = b
  BY <1>3 DEF Inv, Requests, Deciding
<1>5. TypeOK'
  BY <1>1, <1>2 DEF Inv, TypeOK
<1>6. LoopHolds'
  <2>1. loop.pc \in AtWork /\ loop.pc # "deliver" => loop.blk # b
    BY AtHand
  <2> QED
    BY <1>1, <1>2, <2>1 DEF Inv, LoopHolds
<1>7. WorkersHold'
  <2>1. \A r \in Sessions : worker[r] # Idle => req'[worker[r].blk] = req[worker[r].blk]
    BY <1>1, <1>3, WorkerHas
  <2> QED
    BY <1>2, <2>1 DEF Inv, WorkersHold
<1>8. Requests'
  <2>1. (\A c \in Blocks : req[c].op \in Ops =>
           /\ req[c].ses = sess[req[c].op] /\ stage[req[c].op] \in Requested \union {"done"}
           /\ \A d \in Blocks : req[d].op = req[c].op => d = c)'
    BY <1>1, <1>2 DEF Inv, Requests
  <2>2. \A c \in Blocks : Deciding(c)' <=> Deciding(c)
    BY <1>2 DEF Deciding
  <2>3. (\A c \in Blocks : ~req[c].reaped =>
           /\ req[c].op \in Ops /\ stage[req[c].op] \in Requested
           /\ req[c].state = "PENDING" \/ Deciding(c))'
    BY <2>2, <1>1, <1>2 DEF Inv, Requests
  <2>4. (\A c \in Blocks : req[c].reaped =>
           /\ req[c].state # "PENDING"
           /\ req[c].op \in Ops => stage[req[c].op] = "done" \/ (loop.pc = "deliver" /\ loop.blk = c))'
    <3> SUFFICES ASSUME NEW c \in Blocks, req'[c].reaped
                 PROVE  /\ req'[c].state # "PENDING"
                        /\ req'[c].op \in Ops => \/ stage[req'[c].op] = "done"
                                                 \/ loop.pc = "deliver" /\ loop.blk = c
      BY <1>2
    <3>1. CASE c = b /\ ~req[b].reaped
      BY <3>1, <1>1, <1>4
    <3>2. CASE c # b \/ req[b].reaped
      BY <3>2, <1>1 DEF Inv, Requests
    <3> QED
      BY <3>1, <3>2
  <2>5. (\A x \in Ops : stage[x] \in {"kernel", "posted"} =>
            \E c \in Blocks : req[c].op = x /\ ~req[c].reaped)'
    <3> SUFFICES ASSUME NEW x \in Ops, stage[x] \in {"kernel", "posted"}
                 PROVE  \E c \in Blocks : req'[c].op = x /\ ~req'[c].reaped
      BY <1>2
    <3>1. PICK c \in Blocks : req[c].op = x /\ ~req[c].reaped
      BY DEF Inv, Requests
    <3>2. c # b
      BY <3>1, <1>4, AtHand DEF AtWork
    <3> QED
      BY <3>1, <3>2, <1>1
  <2> QED
    BY <2>1, <2>3, <2>4, <2>5 DEF Requests
<1>9. Stages'
  BY <1>2 DEF Inv, Stages
<1>10. Packets'
  BY <1>1, <1>2, PacketsDecided
<1>11. Counts'
  <2>1. \A x \in Ops, r \in Sessions : Counting(x, r)' <=> Counting(x, r)
    BY <1>2 DEF Counting
  <2> QED
    BY <1>2, <2>1, CountsFrame, CountedFrame DEF Inv
<1> QED
  BY <1>1, <1>5, <1>6, <1>7, <1>8, <1>9, <1>10, <1>11 DEF Inv

\* A packet for a pending request of its own session is for that request.
LEMMA ClaimKeeps ==
  ASSUME Inv, Stray # "early", NEW s \in Sessions, NEW p \in packets, Dequeue(s, p),
         req[p.blk].ses = s, req[p.blk].state = "PENDING", Claim(s, p),
         UNCHANGED <<sessions, ops, loop, expired>>
  PROVE  Inv'
<1> USE IdleFields, NoneDiffers
<1> DEFINE o == p.op  b == p.blk
<1>1. PacketOK(p) /\ p.ses = s /\ packets' \subseteq packets
  BY DEF Inv, Packets, Dequeue
<1>2. o \in Ops /\ b \in Blocks /\ req[b].op = o /\ sess[o] = s /\ stage[o] \in {"counted", "posted", "done"}
  BY <1>1 DEF PacketOK
<1>3. ~req[b].reaped /\ stage[o] = "posted"
  <2>1. ~req[b].reaped
    BY <1>2 DEF Inv, Requests
  <2>2. stage[o] \in Requested
    BY <1>2, <2>1 DEF Inv, Requests
  <2>3. stage[o] # "counted"
    BY DEF Dequeue
  <2> QED
    BY <1>2, <2>1, <2>2, <2>3 DEF Requested
<1>4. worker[s] = Idle
  BY WorkerHas DEF Dequeue
<1>5. /\ worker' = [worker EXCEPT ![s] = [pc |-> "claimed", op |-> o, blk |-> b, ses |-> s]]
      /\ req' = [req EXCEPT ![b].state = "RESOLVED"]
      /\ UNCHANGED <<map, running, handle, skip, pending, cancelled, sess, stage, delivered, shelf, free,
                     loop, expired>>
  BY DEF Claim, sessions, ops
<1> HIDE DEF o, b
<1>6. /\ worker'[s] = [pc |-> "claimed", op |-> o, blk |-> b, ses |-> s]
      /\ \A r \in Sessions : r # s => worker'[r] = worker[r]
      /\ worker' \in [Sessions -> Claims \union {Idle}]
  BY <1>2, <1>5 DEF Inv, WorkersHold, Claims
<1>7. /\ req' \in [Blocks -> [op : Ops \union {None}, ses : Sessions \union {None},
                              state : {"PENDING", "RESOLVED", "REJECTED"}, reaped : BOOLEAN]]
      /\ \A c \in Blocks : c # b => req'[c] = req[c]
      /\ req'[b].op = o /\ req'[b].ses = s /\ req'[b].state = "RESOLVED" /\ ~req'[b].reaped
  <2>1. req[b].ses = s
    BY DEF b
  <2> QED
    BY <1>2, <1>3, <1>5, <2>1, Decides
<1>8. loop.pc \in AtWork => loop.op # o /\ loop.blk # b
  BY <1>2, <1>3, AtHand
<1>9. TypeOK'
  BY <1>5, <1>7 DEF Inv, TypeOK
<1>10. BlockInOnePlace'
  <2>1. \A c \in Blocks : req'[c].reaped <=> req[c].reaped
    BY <1>3, <1>7
  <2> QED
    BY <1>5, <2>1 DEF Inv, BlockInOnePlace
<1>11. LoopHolds'
  BY <1>5, <1>7, <1>8 DEF Inv, LoopHolds
<1>12. WorkersHold'
  <2>1. \A r \in Sessions : r # s /\ worker[r] # Idle => req'[worker[r].blk] = req[worker[r].blk]
    <3> SUFFICES ASSUME NEW r \in Sessions, r # s, worker[r] # Idle
                 PROVE  req'[worker[r].blk] = req[worker[r].blk]
      OBVIOUS
    <3>1. worker[r].blk \in Blocks /\ req[worker[r].blk].ses = r
      BY WorkerHas
    <3>2. req[b].ses = s
      BY DEF b
    <3> QED
      BY <3>1, <3>2, <1>7
  <2>2. req'[b] = [op |-> o, ses |-> s, state |-> "RESOLVED", reaped |-> FALSE]
    BY <1>2, <1>7
  <2>3. /\ worker'[s].op = o /\ worker'[s].blk = b
    BY <1>6
  <2> QED
    BY <1>3, <1>5, <1>6, <2>1, <2>2, <2>3 DEF Inv, WorkersHold
<1>13. Requests'
  <2>1. (\A c \in Blocks : req[c].op \in Ops =>
           /\ req[c].ses = sess[req[c].op] /\ stage[req[c].op] \in Requested \union {"done"}
           /\ \A d \in Blocks : req[d].op = req[c].op => d = c)'
    BY <1>2, <1>3, <1>5, <1>7 DEF Inv, Requests, Requested
  <2>2. \A c \in Blocks : Deciding(c) => Deciding(c)'
    BY <1>4, <1>5, <1>6 DEF Deciding
  <2>3. \A c \in Blocks : c = b => Deciding(c)'
    BY <1>6 DEF Deciding
  <2>4. (\A c \in Blocks : ~req[c].reaped =>
           /\ req[c].op \in Ops /\ stage[req[c].op] \in Requested
           /\ req[c].state = "PENDING" \/ Deciding(c))'
    BY <2>2, <2>3, <1>2, <1>3, <1>5, <1>7 DEF Inv, Requests, Requested
  <2>5. (\A c \in Blocks : req[c].reaped =>
           /\ req[c].state # "PENDING"
           /\ req[c].op \in Ops => stage[req[c].op] = "done" \/ (loop.pc = "deliver" /\ loop.blk = c))'
    BY <1>5, <1>7 DEF Inv, Requests
  <2>6. (\A x \in Ops : stage[x] \in {"kernel", "posted"} =>
            \E c \in Blocks : req[c].op = x /\ ~req[c].reaped)'
    BY <1>2, <1>3, <1>5, <1>7 DEF Inv, Requests
  <2> QED
    BY <2>1, <2>4, <2>5, <2>6 DEF Requests
<1>14. Stages'
  BY <1>5 DEF Inv, Stages
<1>15. Packets'
  <2>1. \A c \in Blocks : req'[c].op = req[c].op /\ req'[c].ses = req[c].ses
    <3>1. req[b].ses = s
      BY DEF b
    <3> QED
      BY <3>1, <1>2, <1>7
  <2> QED
    BY <1>1, <1>5, <2>1, PacketsDecided
<1>16. Counts'
  <2>1. \A x \in Ops, r \in Sessions : Counting(x, r)' <=> Counting(x, r)
    <3> SUFFICES ASSUME NEW x \in Ops, NEW r \in Sessions PROVE Counting(x, r)' <=> Counting(x, r)
      OBVIOUS
    <3>1. CASE r = s
      BY <3>1, <1>4, <1>5, <1>6 DEF Counting
    <3>2. CASE r # s
      BY <3>2, <1>5, <1>6 DEF Counting
    <3> QED
      BY <3>1, <3>2
  <2> QED
    BY <1>5, <2>1, CountsFrame, CountedFrame DEF Inv
<1> QED
  BY <1>9, <1>10, <1>11, <1>12, <1>13, <1>14, <1>15, <1>16 DEF Inv

\* A worker takes a packet.
LEMMA ProcessOneKeeps ==
  ASSUME Inv, Stray # "early", NEW s \in Sessions, ProcessOne(s)
  PROVE  Inv'
<1>1. PICK p \in packets :
        /\ Dequeue(s, p)
        /\ CASE req[p.blk].ses # s -> UNCHANGED <<memory, worker>>
             [] req[p.blk].ses = s /\ req[p.blk].state # "PENDING" ->
                  Release(p.blk) /\ UNCHANGED worker
             [] OTHER -> Claim(s, p)
        /\ UNCHANGED <<sessions, ops, loop, expired, all>>
  BY DEF ProcessOne
<1>2. /\ p.blk \in Blocks /\ packets' \subseteq packets /\ worker[s].pc = "idle"
  BY <1>1 DEF Inv, Packets, PacketOK, Dequeue
<1>3. CASE req[p.blk].ses # s
  <2>1. UNCHANGED <<memory, worker>>
    BY <1>1, <1>3
  <2> QED
    BY <2>1, <1>1, <1>2, LoopStays, QuietKeeps DEF sessions, ops, memory, Inv, TypeOK
<1>4. CASE req[p.blk].ses = s /\ req[p.blk].state # "PENDING"
  <2>1. Release(p.blk) /\ UNCHANGED worker
    BY <1>1, <1>4
  <2> QED
    BY <2>1, <1>1, <1>2, <1>4, HelpKeeps
<1>5. CASE req[p.blk].ses = s /\ req[p.blk].state = "PENDING"
  <2>1. Claim(s, p)
    BY <1>1, <1>5
  <2> QED
    BY <2>1, <1>1, <1>5, ClaimKeeps
<1> QED
  BY <1>3, <1>4, <1>5
------------------------------------------------------------------------------
(* The theorems.                                                           *)

\* At the start nothing is in flight and every block is free.
LEMMA InvInit == Init => Inv
<1> SUFFICES ASSUME Init PROVE Inv
  OBVIOUS
<1> USE IdleFields, NoneDiffers DEF Init
<1>1. TypeOK
  BY DEF TypeOK
<1>2. BlockInOnePlace
  BY DEF BlockInOnePlace
<1>3. LoopHolds
  BY DEF LoopHolds, AtWork, LoopPcs, Idle
<1>4. WorkersHold
  BY DEF WorkersHold
<1>5. Requests
  BY DEF Requests
<1>6. Stages /\ Packets
  BY DEF Stages, Packets
<1>7. Counts
  <2>1. \A s \in Sessions : Counted(s) = {}
    BY DEF Counted
  <2>2. \A s \in Sessions : Cardinality(Counted(s)) = 0
    BY <2>1, FS_EmptySet
  <2>3. \A s \in Sessions : pending[s] = 0
    OBVIOUS
  <2> QED
    BY ONLY <2>2, <2>3 DEF Counts
<1> QED
  BY <1>1, <1>2, <1>3, <1>4, <1>5, <1>6, <1>7 DEF Inv

\* Every step keeps it.
LEMMA InvStep == ASSUME Inv, Stray # "early", [Next]_vars PROVE Inv'
<1>1. CASE UNCHANGED vars
  <2>1. UNCHANGED <<map, running, handle, skip, pending, cancelled, sess, stage, delivered,
                    req, shelf, free, packets, worker, loop, expired, all>>
    BY <1>1 DEF vars, sessions, ops, memory
  <2> QED
    BY <2>1, LoopStays, QuietKeeps DEF ops, memory, Inv, TypeOK
<1>2. CASE Next
  <2>1. ASSUME NEW b \in Blocks, Reclaim(b) PROVE Inv'
    BY <2>1, ReclaimKeeps
  <2>2. ASSUME NEW o \in Ops, FlushTask(o) \/ KernelDone(o) PROVE Inv'
    BY <2>2, FlushTaskKeeps, KernelDoneKeeps
  <2>3. ASSUME NEW o \in Ops, NEW s \in Sessions, Enter(o, s) PROVE Inv'
    BY <2>3, EnterKeeps
  <2>4. ASSUME SubmitStep PROVE Inv'
    BY <2>4, FinishInlineKeeps, FlushKeeps, CountKeeps, StartFailsKeeps, StartPendsKeeps,
       StartSucceedsKeeps, SyncUncountKeeps, SyncResolveKeeps, SyncDeliverKeeps DEF SubmitStep
  <2>5. ASSUME NEW s \in Sessions, WorkerStep(s) \/ BeginClose(s) PROVE Inv'
    BY <2>5, ProcessOneKeeps, WorkerUncountKeeps, WorkerDeliverKeeps, BeginCloseKeeps DEF WorkerStep
  <2>6. ASSUME CloseStep PROVE Inv'
    BY <2>6, CancelKeeps, CloseSessionKeeps DEF CloseStep
  <2>7. ASSUME \/ Expire \/ AllBegin \/ AllClear \/ Shutdown
               \/ \E s \in Sessions : AllShut(s) \/ AllClose(s)
        PROVE  Inv'
    BY <2>7, ElsewhereKeeps
  <2> QED
    BY <1>2, <2>1, <2>2, <2>3, <2>4, <2>5, <2>6, <2>7 DEF Next
<1> QED
  BY <1>1, <1>2

\* The invariant, where no stray packet overtakes the submitting thread.
THEOREM Invariance == ASSUME Stray # "early" PROVE Spec => []Inv
<1>1. Inv /\ [Next]_vars => Inv'
  BY InvStep
<1> QED
  BY <1>1, InvInit, PTL DEF Spec

\* Whatever packets come twice or late, an operation is completed once, and
\* a packet never ends a request other than its own
\* (iocp_worker.cpp:93-107, 157-187).
THEOREM PacketsEndTheirOwn == ASSUME Stray # "early" PROVE Spec => []EndsItsOwn
<1>1. Inv => EndsItsOwn
  <2> SUFFICES ASSUME Inv PROVE EndsItsOwn
    OBVIOUS
  <2>1. DeliveredOnce
    BY DEF DeliveredOnce, Inv, Stages
  <2>2. OwnPacket
    BY IdleFields, WorkerHas DEF OwnPacket
  <2> QED
    BY <2>1, <2>2 DEF EndsItsOwn
<1> QED
  BY <1>1, Invariance, PTL

\* Each block is in use, in quarantine or free, and the count of a session in
\* the map is the number of its operations that nobody has begun to end, with
\* those whose submission threw (iocp_request.cpp, iocp_submit.cpp:316-321).
THEOREM BlocksAndCounts == ASSUME Stray # "early" PROVE Spec => []PacketsAccounted
<1>1. Inv => PacketsAccounted
  BY DEF Inv, PacketsAccounted, Counts, PendingIsExact, TypeOK
<1> QED
  BY <1>1, Invariance, PTL

\* A close that ends by itself leaves no request of its session behind
\* (iocp_submit.cpp:333-366).
THEOREM ClosesDrained == ASSUME Stray # "early" PROVE Spec => DrainedWhenClosed
<1> DEFINE Drained == \A s \in map \ map' : all.pc = "idle" /\ ~expired => Counted(s) = {}
<1>1. Inv /\ [Next]_vars => Drained \/ UNCHANGED vars
  <2> SUFFICES ASSUME Inv, Next, NEW s \in map \ map', all.pc = "idle", ~expired
               PROVE  Counted(s) = {}
    OBVIOUS
  <2>1. CloseSession
    <3>1. ~AllClear
      BY DEF AllClear
    <3> QED
      BY <3>1 DEF Next, SubmitStep, CloseStep, WorkerStep, sessions, ops, memory,
         Reclaim, Enter, FinishInline, Flush, FlushTask, Count, StartFails, StartPends, StartSucceeds,
         SyncUncount, SyncResolve, SyncDeliver, KernelDone, ProcessOne, WorkerUncount, WorkerDeliver,
         BeginClose, Cancel, Expire, AllBegin, AllShut, AllClose, Shutdown
  <2>2. s = loop.ses /\ pending[s] <= 0
    BY <2>1 DEF CloseSession
  <2>3. s \in Sessions /\ pending[s] \in Nat /\ pending[s] = Cardinality(Counted(s))
    BY DEF Inv, TypeOK, Counts
  <2>4. Cardinality(Counted(s)) = 0
    BY <2>2, <2>3
  <2> QED
    BY <2>4, CountedFinite, FS_EmptySet
<1> QED
  BY <1>1, Invariance, PTL DEF Spec, DrainedWhenClosed
===============================================================================
