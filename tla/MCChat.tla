------------------------------- MODULE MCChat -------------------------------
(* The clients are interchangeable: only safety is checked under symmetry.  *)
EXTENDS ChatSystem, TLC

OneEach == [c \in Clients |-> 1]
TwoEach == [c \in Clients |-> 2]

Symmetry == Permutations(Clients)
=============================================================================
