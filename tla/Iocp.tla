--------------------------------- MODULE Iocp ---------------------------------
(***************************************************************************)
(* Sessions, requests and completion packets of the IOCP backend           *)
(* (backend/windows).  A request lives in a block of memory that is used   *)
(* again; a packet names a session and a block, not a request.  Three      *)
(* kinds of threads meet: the loop's thread, which submits and closes, the *)
(* workers of the completion ports, and the console handler (or shutdown), *)
(* which closes every session.                                             *)
(*                                                                         *)
(* A worker takes packets of one port in order; each session has its own   *)
(* worker here, which allows every interleaving that two ports allow.      *)
(***************************************************************************)
EXTENDS Integers, FiniteSets

CONSTANTS
  NumOps,      \* operations, numbered in the order of their submission
  NumSessions, \* sessions, numbered in the order of their first use
  Blocks,      \* blocks of memory for requests
  None,        \* no operation, block or session
  Duplicates,  \* the kernel may post a packet twice
  Stray        \* with FILE_SKIP_COMPLETION_PORT_ON_SUCCESS a packet may come
               \* all the same: "never", "late" (the request is resolved) or
               \* "early"

ASSUME Flags ==
  /\ NumOps \in Nat /\ NumSessions \in Nat
  /\ Duplicates \in BOOLEAN /\ Stray \in {"never", "late", "early"}
  /\ None \notin (1 .. NumOps) \union (1 .. NumSessions) \union Blocks

Ops == 1 .. NumOps
Sessions == 1 .. NumSessions

VARIABLES
  map,        \* sessions_
  running,    \* sessions that are running
  handle,     \* sessions whose handle is open
  skip,       \* skipCPOnSuccess (the same in all sessions)
  pending,    \* [Sessions -> pending]
  cancelled,  \* sessions whose requests were cancelled
  sess,       \* [Ops -> session of the operation]
  stage,      \* [Ops -> "new", "counted", "kernel", "posted", "pool", "leaked",
              \* "done"]
  delivered,  \* [Ops -> number of times the operation was completed]
  req,        \* [Blocks -> the request in the block]
  shelf,      \* [Blocks -> number of entries in the quarantine queues]
  free,       \* [Blocks -> number of entries in the free lists]
  packets,    \* completion packets posted and not yet dequeued
  worker,     \* [Sessions -> block a worker has claimed, how far it is, and
              \* the operation the packet was posted for]
  loop,       \* what the loop's thread does
  expired,    \* the deadline of the close in progress has passed
  all         \* what close_all_sessions does

sessions == <<map, running, handle, skip, pending, cancelled>>
ops == <<sess, stage, delivered>>
memory == <<req, shelf, free>>
vars == <<sessions, ops, memory, packets, worker, loop, expired, all>>

Idle == [pc |-> "idle", op |-> None, blk |-> None, ses |-> None]

\* create_session: every session is open, with or without the skip mode.
Init == /\ map = Sessions /\ running = Sessions /\ handle = Sessions
        /\ skip \in BOOLEAN
        /\ pending = [s \in Sessions |-> 0] /\ cancelled = {}
        /\ sess = [o \in Ops |-> None]
        /\ stage = [o \in Ops |-> "new"]
        /\ delivered = [o \in Ops |-> 0]
        /\ req = [b \in Blocks |-> [op |-> None, ses |-> None,
                                    state |-> "RESOLVED", reaped |-> TRUE]]
        /\ shelf = [b \in Blocks |-> 0] /\ free = [b \in Blocks |-> 1]
        /\ packets = {}
        /\ worker = [s \in Sessions |-> Idle]
        /\ loop = Idle /\ expired = FALSE
        /\ all = [pc |-> "idle", ses |-> None, todo |-> {}]

Complete(o) == delivered' = [delivered EXCEPT ![o] = @ + 1]

\* Session::complete_request and the increment before ReadFile/WriteFile.
Add(s, n) == pending' = [pending EXCEPT ![s] = @ + n]

Post(o, b, n) == packets' = packets \union
                   {[ses |-> sess[o], blk |-> b, op |-> o, nr |-> i] : i \in 1 .. n}
------------------------------------------------------------------------------
(* Release of requests.                                                    *)

\* Mutant of Release: the block is given back at once, without quarantine.
ReleaseNow(b) ==
  /\ free' = [free EXCEPT ![b] = IF req[b].reaped THEN @ ELSE @ + 1]
  /\ req' = [req EXCEPT ![b].reaped = TRUE]
  /\ UNCHANGED shelf

\* release_request: whoever sets reaped puts the block into its quarantine.
Release(b) ==
  /\ shelf' = [shelf EXCEPT ![b] = IF req[b].reaped THEN @ ELSE @ + 1]
  /\ req' = [req EXCEPT ![b].reaped = TRUE]
  /\ UNCHANGED free

Handled(b) == loop.blk = b \/ \E s \in Sessions : worker[s].blk = b

\* quarantine_drain and IOCP_REQ_FREE after quarantine_ms.  What the time is
\* for: no thread handles the request any more and no packet for it is on
\* its way, except one of a session that has been closed and is no longer
\* being submitted to.
Reclaim(b) ==
  /\ shelf[b] > 0 /\ ~Handled(b)
  /\ \A p \in packets : p.blk = b => p.ses \notin map \union {loop.ses}
  /\ shelf' = [shelf EXCEPT ![b] = @ - 1]
  /\ free' = [free EXCEPT ![b] = @ + 1]
  /\ UNCHANGED <<sessions, ops, req, packets, worker, loop, expired, all>>
------------------------------------------------------------------------------
(* Submission.                                                             *)

\* get_session and unavailable().
Enter(o, s) ==
  /\ loop.pc = "idle" /\ stage[o] = "new"
  /\ \A p \in 1 .. o - 1 : stage[p] # "new"
  /\ \A t \in 1 .. s - 1 : t \in {sess[p] : p \in Ops}
  /\ sess' = [sess EXCEPT ![o] = s]
  /\ IF s \in map \intersect running \intersect handle /\ all.pc = "idle"
     THEN loop' = [Idle EXCEPT !.pc = "checked", !.op = o, !.ses = s]
          /\ UNCHANGED <<stage, delivered>>
     ELSE stage' = [stage EXCEPT ![o] = "done"] /\ Complete(o) /\ UNCHANGED loop
  /\ UNCHANGED <<sessions, memory, packets, worker, expired, all>>

\* End of file, empty buffer, bad argument, seek, tell, truncate.
FinishInline ==
  /\ loop.pc = "checked"
  /\ stage' = [stage EXCEPT ![loop.op] = "done"]
  /\ Complete(loop.op)
  /\ loop' = Idle
  /\ UNCHANGED <<sessions, sess, memory, packets, worker, expired, all>>

\* submit_flush: a task of the global pool, with no request.  Starting the
\* pool or queueing the task may throw, and nothing takes the count back.
Flush ==
  /\ loop.pc = "checked"
  /\ Add(loop.ses, 1)
  /\ \E st \in {"pool", "leaked"} : stage' = [stage EXCEPT ![loop.op] = st]
  /\ loop' = Idle
  /\ UNCHANGED <<map, running, handle, skip, cancelled, sess, delivered,
                 memory, packets, worker, expired, all>>

FlushTask(o) ==
  /\ stage[o] = "pool"
  /\ Add(sess[o], -1)
  /\ stage' = [stage EXCEPT ![o] = "done"]
  /\ Complete(o)
  /\ UNCHANGED <<map, running, handle, skip, cancelled, sess, memory, packets,
                 worker, loop, expired, all>>

\* make_read_request ... and the count.  Which free block is used does not
\* matter.
Count ==
  /\ loop.pc = "checked"
  /\ \E x \in Blocks : free[x] > 0
  /\ LET b == CHOOSE x \in Blocks : free[x] > 0 IN
       /\ free' = [free EXCEPT ![b] = @ - 1]
       /\ req' = [req EXCEPT ![b] = [op |-> loop.op, ses |-> loop.ses,
                                     state |-> "PENDING", reaped |-> FALSE]]
       /\ loop' = [loop EXCEPT !.pc = "start", !.blk = b]
  /\ Add(loop.ses, 1)
  /\ stage' = [stage EXCEPT ![loop.op] = "counted"]
  /\ UNCHANGED <<map, running, handle, skip, cancelled, sess, delivered, shelf,
                 packets, worker, expired, all>>

\* ReadFile or WriteFile fails ...
StartFails ==
  /\ loop.pc = "start"
  /\ loop' = [loop EXCEPT !.pc = "failed"]
  /\ UNCHANGED <<sessions, ops, memory, packets, worker, expired, all>>

\* ... is pending ...
StartPends ==
  /\ loop.pc = "start" /\ loop.ses \in handle
  /\ stage' = [stage EXCEPT ![loop.op] = "kernel"]
  /\ loop' = Idle
  /\ UNCHANGED <<sessions, sess, delivered, memory, packets, worker, expired, all>>

\* ... or succeeds at once: a packet is posted, which ends the operation, or
\* with the skip mode none should be.
StartSucceeds ==
  /\ loop.pc = "start" /\ loop.ses \in handle
  /\ IF skip
     THEN /\ loop' = [loop EXCEPT !.pc = "synced"]
          /\ UNCHANGED stage
          /\ \E n \in (IF Stray = "never" THEN {0} ELSE {0, 1}) : Post(loop.op, loop.blk, n)
     ELSE /\ loop' = Idle
          /\ stage' = [stage EXCEPT ![loop.op] = "posted"]
          /\ \E n \in (IF Duplicates THEN {1, 2} ELSE {1}) : Post(loop.op, loop.blk, n)
  /\ UNCHANGED <<sessions, sess, delivered, memory, worker, expired, all>>

\* Mutant of SyncUncount: the submitting thread leaves the count alone.
SyncForget ==
  /\ loop.pc \in {"synced", "failed"}
  /\ loop' = [loop EXCEPT !.pc = IF @ = "synced" THEN "RESOLVED" ELSE "REJECTED"]
  /\ UNCHANGED <<sessions, ops, memory, packets, worker, expired, all>>

\* The end of an operation that succeeded or failed in the call: the count,
SyncUncount ==
  /\ loop.pc \in {"synced", "failed"}
  /\ Add(loop.ses, -1)
  /\ loop' = [loop EXCEPT !.pc = IF @ = "synced" THEN "RESOLVED" ELSE "REJECTED"]
  /\ UNCHANGED <<map, running, handle, skip, cancelled, ops, memory, packets,
                 worker, expired, all>>

\* the state (a plain store),
SyncResolve ==
  /\ loop.pc \in {"RESOLVED", "REJECTED"}
  /\ req' = [req EXCEPT ![loop.blk].state = loop.pc]
  /\ loop' = [loop EXCEPT !.pc = "deliver"]
  /\ UNCHANGED <<sessions, ops, shelf, free, packets, worker, expired, all>>

\* complete_inline and release_request.
SyncDeliver ==
  /\ loop.pc = "deliver"
  /\ Complete(loop.op)
  /\ stage' = [stage EXCEPT ![loop.op] = "done"]
  /\ Release(loop.blk)
  /\ loop' = Idle
  /\ UNCHANGED <<sessions, sess, packets, worker, expired, all>>
------------------------------------------------------------------------------
(* The kernel and the workers.                                             *)

BlockOf(o) == CHOOSE b \in Blocks : req[b].op = o

KernelDone(o) ==
  /\ stage[o] = "kernel"
  /\ stage' = [stage EXCEPT ![o] = "posted"]
  /\ \E n \in (IF Duplicates THEN {1, 2} ELSE {1}) : Post(o, BlockOf(o), n)
  /\ UNCHANGED <<sessions, sess, delivered, memory, worker, loop, expired, all>>

Dequeue(s, p) ==
  /\ p \in packets /\ p.ses = s
  /\ worker[s].pc = "idle" /\ all.pc # "down"
  /\ stage[p.op] = "counted" /\ req[p.blk].state = "PENDING" => Stray = "early"
  /\ packets' = packets \ {p}

Claim(s, p) ==
  /\ req' = [req EXCEPT ![p.blk].state = "RESOLVED"]
  /\ worker' = [worker EXCEPT ![s] = [pc |-> "claimed", op |-> p.op,
                                      blk |-> p.blk, ses |-> s]]
  /\ UNCHANGED <<shelf, free>>

\* process_one up to the compare_exchange on state: a packet of another
\* session is dropped, one for a request that is resolved only helps to
\* release it.
ProcessOne(s) ==
  \E p \in packets :
    /\ Dequeue(s, p)
    /\ CASE req[p.blk].ses # s -> UNCHANGED <<memory, worker>>
         [] req[p.blk].ses = s /\ req[p.blk].state # "PENDING" ->
              Release(p.blk) /\ UNCHANGED worker
         [] OTHER -> Claim(s, p)
    /\ UNCHANGED <<sessions, ops, loop, expired, all>>

\* get_session again; the count is lowered when the session is still there.
WorkerUncount(s) ==
  /\ worker[s].pc = "claimed"
  /\ Add(s, IF s \in map THEN -1 ELSE 0)
  /\ worker' = [worker EXCEPT ![s].pc = "uncounted"]
  /\ UNCHANGED <<map, running, handle, skip, cancelled, ops, memory, packets,
                 loop, expired, all>>

WorkerDeliver(s) ==
  /\ worker[s].pc = "uncounted"
  /\ Complete(req[worker[s].blk].op)
  /\ stage' = [stage EXCEPT ![req[worker[s].blk].op] = "done"]
  /\ Release(worker[s].blk)
  /\ worker' = [worker EXCEPT ![s] = Idle]
  /\ UNCHANGED <<sessions, sess, packets, loop, expired, all>>
------------------------------------------------------------------------------
(* Closing one session: submit_close.                                      *)

BeginClose(s) ==
  /\ loop.pc = "idle" /\ s \in map \intersect running
  /\ running' = running \ {s}
  /\ loop' = [Idle EXCEPT !.pc = "close", !.ses = s]
  /\ UNCHANGED <<map, handle, skip, pending, cancelled, ops, memory, packets,
                 worker, expired, all>>

\* Mutant of Cancel: CancelIoEx is missing.
CancelNothing ==
  /\ loop.pc = "close"
  /\ loop' = [loop EXCEPT !.pc = "wait"]
  /\ UNCHANGED <<sessions, ops, memory, packets, worker, expired, all>>

Cancel ==
  /\ loop.pc = "close"
  /\ cancelled' = IF pending[loop.ses] > 0 THEN cancelled \union {loop.ses} ELSE cancelled
  /\ loop' = [loop EXCEPT !.pc = "wait"]
  /\ UNCHANGED <<map, running, handle, skip, pending, ops, memory, packets,
                 worker, expired, all>>

Expire ==
  /\ loop.pc = "wait" /\ ~expired /\ pending[loop.ses] > 0
  /\ expired' = TRUE
  /\ UNCHANGED <<sessions, ops, memory, packets, worker, loop, all>>

\* Mutant of CloseSession: the handle is closed without waiting.
CloseSessionNow ==
  /\ loop.pc = "wait"
  /\ handle' = handle \ {loop.ses} /\ map' = map \ {loop.ses}
  /\ loop' = Idle /\ expired' = FALSE
  /\ UNCHANGED <<running, skip, pending, cancelled, ops, memory, packets,
                 worker, all>>

\* The end of the wait, CloseHandle and remove_session.
CloseSession ==
  /\ loop.pc = "wait"
  /\ pending[loop.ses] <= 0 \/ expired
  /\ handle' = handle \ {loop.ses} /\ map' = map \ {loop.ses}
  /\ loop' = Idle /\ expired' = FALSE
  /\ UNCHANGED <<running, skip, pending, cancelled, ops, memory, packets,
                 worker, all>>
------------------------------------------------------------------------------
(* Closing all: the console handler on a thread of its own, or shutdown.   *)

AllBegin ==
  /\ all.pc = "idle"
  /\ all' = [pc |-> "each", ses |-> None, todo |-> map]
  /\ UNCHANGED <<sessions, ops, memory, packets, worker, loop, expired>>

\* The flag of one session; its requests are cancelled.
AllShut(s) ==
  /\ all.pc = "each" /\ s \in all.todo
  /\ running' = running \ {s}
  /\ cancelled' = IF s \in running /\ pending[s] > 0 THEN cancelled \union {s} ELSE cancelled
  /\ all' = IF s \in running THEN [all EXCEPT !.pc = "wait", !.ses = s]
                             ELSE [all EXCEPT !.todo = @ \ {s}]
  /\ UNCHANGED <<map, handle, skip, pending, ops, memory, packets, worker,
                 loop, expired>>

\* The wait for at most 500 ms, then CloseHandle.
AllClose(s) ==
  /\ all.pc = "wait" /\ all.ses = s
  /\ handle' = handle \ {s}
  /\ all' = [pc |-> "each", ses |-> None, todo |-> all.todo \ {s}]
  /\ UNCHANGED <<map, running, skip, pending, cancelled, ops, memory, packets,
                 worker, loop, expired>>

AllClear ==
  /\ all.pc = "each" /\ all.todo = {}
  /\ map' = {}
  /\ all' = [all EXCEPT !.pc = "cleared"]
  /\ UNCHANGED <<running, handle, skip, pending, cancelled, ops, memory,
                 packets, worker, loop, expired>>

\* shutdown() at interpreter exit: the workers take no more packets.
Shutdown ==
  /\ all.pc = "cleared" /\ loop.pc = "idle"
  /\ all' = [all EXCEPT !.pc = "down"]
  /\ UNCHANGED <<sessions, ops, memory, packets, worker, loop, expired>>
------------------------------------------------------------------------------
SubmitStep == \/ FinishInline \/ Flush \/ Count \/ StartFails \/ StartPends
              \/ StartSucceeds \/ SyncUncount \/ SyncResolve \/ SyncDeliver
CloseStep == Cancel \/ CloseSession
WorkerStep(s) == ProcessOne(s) \/ WorkerUncount(s) \/ WorkerDeliver(s)

Next == \/ \E b \in Blocks : Reclaim(b)
        \/ \E o \in Ops : \/ FlushTask(o) \/ KernelDone(o)
                          \/ \E s \in Sessions : Enter(o, s)
        \/ SubmitStep
        \/ \E s \in Sessions : WorkerStep(s) \/ BeginClose(s)
        \/ CloseStep \/ Expire
        \/ AllBegin
        \/ \E s \in Sessions : AllShut(s) \/ AllClose(s)
        \/ AllClear \/ Shutdown

Spec == Init /\ [][Next]_vars

\* Threads inside a call go on.  A request in the kernel need not end by
\* itself: it ends when it is cancelled or its handle is closed.
FairSpec ==
  /\ Spec /\ WF_vars(SubmitStep) /\ WF_vars(CloseStep)
  /\ \A s \in Sessions : WF_vars(WorkerStep(s))
  /\ \A o \in Ops :
       /\ WF_vars(FlushTask(o))
       /\ WF_vars((sess[o] \in cancelled \/ sess[o] \notin handle) /\ KernelDone(o))
  /\ \A b \in Blocks : WF_vars(Reclaim(b))
------------------------------------------------------------------------------
(* Properties.                                                             *)

TypeOK ==
  /\ map \subseteq Sessions /\ running \subseteq Sessions
  /\ handle \subseteq Sessions /\ cancelled \subseteq Sessions
  /\ skip \in BOOLEAN /\ pending \in [Sessions -> Nat]
  /\ sess \in [Ops -> Sessions \union {None}]
  /\ stage \in [Ops -> {"new", "counted", "kernel", "posted", "pool", "leaked", "done"}]
  /\ delivered \in [Ops -> Nat]
  /\ req \in [Blocks -> [op : Ops \union {None}, ses : Sessions \union {None},
                         state : {"PENDING", "RESOLVED", "REJECTED"}, reaped : BOOLEAN]]
  /\ shelf \in [Blocks -> Nat] /\ free \in [Blocks -> Nat]
  /\ expired \in BOOLEAN

\* The threads decide by the state of the request who ends it: whatever
\* packets come twice, or late, an operation is completed once.
DeliveredOnce == \A o \in Ops : delivered[o] <= 1

\* A packet of one request never ends another one that lives in the same
\* block of memory.
OwnPacket ==
  \A s \in Sessions :
    worker[s].blk # None => req[worker[s].blk].op = worker[s].op

\* Both: a packet ends its own operation, and that only once
\* (iocp_worker.cpp:93-107, 157-187).
EndsItsOwn == DeliveredOnce /\ OwnPacket

\* A block is in one place: it holds a request that has not been released,
\* or it is in quarantine, or it is free, and never twice, so that two
\* requests in flight never share a block.
BlockInOnePlace ==
  \A b \in Blocks : shelf[b] + free[b] = IF req[b].reaped THEN 1 ELSE 0

\* The count of a session in the map is the number of its operations that
\* nobody has started to end; one whose submission threw stays counted.
Counted(s) ==
  {o \in Ops : /\ sess[o] = s
               /\ stage[o] \in {"counted", "kernel", "posted", "pool", "leaked"}
               /\ ~(loop.op = o /\ loop.pc \in {"RESOLVED", "REJECTED", "deliver"})
               /\ ~(worker[s].op = o /\ worker[s].pc = "uncounted")}

PendingIsExact == \A s \in map : pending[s] = Cardinality(Counted(s))

\* With the types: memory and count are right whatever the order of packets,
\* synchronous answers and releases.
PacketsAccounted == TypeOK /\ BlockInOnePlace /\ PendingIsExact

\* submit_close closes a handle only when no operation of the session is left,
\* unless its deadline has passed.
DrainedWhenClosed ==
  [][\A s \in map \ map' : all.pc = "idle" /\ ~expired => Counted(s) = {}]_vars

\* The cancelled requests come back and let submit_close go on, without the
\* deadline, unless all sessions are being closed or a flush of this one has
\* thrown: then only the deadline ends the wait.
Leaked(s) == \E o \in Ops : sess[o] = s /\ stage[o] = "leaked"

SubmitCloseReturns == loop.pc = "wait" /\ all.pc = "idle" /\ ~Leaked(loop.ses)
                  ~> loop.pc # "wait" \/ all.pc # "idle"

\* Once its session is closed, by whomever, an operation ends, unless its
\* caller has got an exception or the workers are shut down before.
ClosedMeansDelivered ==
  \A o \in Ops : sess[o] # None /\ sess[o] \notin handle
                 ~> delivered[o] = 1 \/ stage[o] = "leaked" \/ all.pc = "down"

\* Both: closing ends, for the caller and for the operations
\* (iocp_submit.cpp:333-366).
CloseEnds == SubmitCloseReturns /\ ClosedMeansDelivered
==============================================================================
