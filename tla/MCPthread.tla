----------------------------- MODULE MCPthread -----------------------------
(* One client types two lines: the second write to it can meet a reset.     *)
EXTENDS PthreadSystem, TLC

CONSTANTS c1, c2

TwoAndOne == c1 :> 2 @@ c2 :> 1
=============================================================================
