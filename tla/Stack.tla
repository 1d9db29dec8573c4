------------------------------- MODULE Stack -------------------------------
(***************************************************************************)
(* What a shared stack promises: one item at a time goes on top or comes   *)
(* off the top, no item is on it twice, and none disappears.               *)
(***************************************************************************)
EXTENDS Sequences

CONSTANT Item

VARIABLE stack   \* the items, the top one first

Init == stack = <<>>

Push(x) == /\ \A k \in DOMAIN stack : stack[k] # x
           /\ stack' = <<x>> \o stack

Pop == stack # <<>> /\ stack' = Tail(stack)

Next == Pop \/ \E x \in Item : Push(x)

Spec == Init /\ [][Next]_stack
=============================================================================
