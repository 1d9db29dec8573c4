SPECIFICATION GetLineSpec
CONSTANTS
  Alphabet = {10, 13, 37, 50, 99, 195}
  MaxText = 4
  size = 3
INVARIANTS LinesFaithful RoundTrip
CHECK_DEADLOCK FALSE
