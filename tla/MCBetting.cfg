CONSTANTS
  a = a
  b = b
  c = c
  d = d
  Players = {a, b, c, d}
  SmallestChip = 2
  MaxStack = 10
  BigBlind = 4
  Entries <- MCEntries
SPECIFICATION FairSpec
INVARIANTS ChipsConserved ClosedRoundIsMatched
PROPERTIES TurnOrderKept RaiseStructure RoundEnds
