------------------------------ MODULE MCEpoll -------------------------------
EXTENDS EpollSystem, TLC

\* cfg files have no negative numbers.
FreedFdValues == {-1, 0}

Symmetry == Permutations(Clients) \cup Permutations(Rec)
=============================================================================
