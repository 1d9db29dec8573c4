------------------------------ MODULE OneSlot ------------------------------
(***************************************************************************)
(* What a hand-over buffer with room for one value promises, whatever      *)
(* semaphores, locks and heap nodes it is made of: a value is put only     *)
(* into an empty slot, and the value taken out is the one last put in.     *)
(***************************************************************************)
CONSTANTS Value,   \* what can be handed over
          Empty    \* the slot holds nothing; not a Value

VARIABLES slot,    \* the value waiting to be taken, or Empty
          taken    \* the value the taker saw last, Empty before the first

vars == <<slot, taken>>

Init == slot = Empty /\ taken = Empty

Put(v) == /\ slot = Empty
          /\ slot' = v
          /\ UNCHANGED taken

Take == /\ slot # Empty
        /\ taken' = slot
        /\ slot' = Empty

Next == Take \/ \E v \in Value : Put(v)

Spec == Init /\ [][Next]_vars
=============================================================================
