---------------------------- MODULE CloseBarrier ----------------------------
(***************************************************************************)
(* What closing a file promises, whatever the backend: operations are      *)
(* admitted while the file is open, each admitted operation leaves once,   *)
(* and the descriptor is released only after the gate has been shut and    *)
(* every admitted operation has left -- or the close timeout has passed.   *)
(***************************************************************************)
CONSTANT Ops

VARIABLES gate,       \* "open", "shut" (close() has begun), "released"
          inside,     \* operations admitted and not yet finished
          left,       \* operations that were admitted and have finished
          overdue     \* the close timeout has expired

barrierVars == <<gate, inside, left, overdue>>

Init == /\ gate = "open"
        /\ inside = {}
        /\ left = {}
        /\ overdue = FALSE

Admit(o) == /\ gate = "open"
            /\ o \notin inside \union left
            /\ inside' = inside \union {o}
            /\ UNCHANGED <<gate, left, overdue>>

Leave(o) == /\ o \in inside
            /\ inside' = inside \ {o}
            /\ left' = left \union {o}
            /\ UNCHANGED <<gate, overdue>>

Shut == /\ gate = "open"
        /\ gate' = "shut"
        /\ UNCHANGED <<inside, left, overdue>>

Expire == /\ gate = "shut"
          /\ overdue' = TRUE
          /\ UNCHANGED <<gate, inside, left>>

Release == /\ gate = "shut"
           /\ inside = {} \/ overdue
           /\ gate' = "released"
           /\ UNCHANGED <<inside, left, overdue>>

Next == \/ \E o \in Ops : Admit(o) \/ Leave(o)
        \/ Shut
        \/ Expire
        \/ Release

Spec == Init /\ [][Next]_barrierVars
=============================================================================
