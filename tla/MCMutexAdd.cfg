SPECIFICATION AddFairSpec
CONSTANT N = 3
INVARIANTS NoLostUpdate PrintsSum
PROPERTY Terminates
CHECK_DEADLOCK FALSE
