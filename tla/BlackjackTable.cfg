CONSTANTS
  Ranks = {"6", "10", "A"}
  Copies = 4
  CutCard = 4
  MaxSplitHands = 3
SPECIFICATION Spec
INVARIANTS CountIsOfSeenCards OnlyOpenHandsPlay
\* a shoe that runs out in the middle of a round makes the code throw
CHECK_DEADLOCK FALSE
