CONSTANTS
  TableSize = 3
  StartingStack = 4
  SmallestChip = 1
  FirstBlind = 1
  SecondBlind = 2
  River = 2
  Hero = 1
  FullField = TRUE
  Timed = TRUE
  Friendly = 1
  Levels <- MCLevels
SPECIFICATION FairSpec
INVARIANTS LedgerSettles RoundsOpenValid DeadlineForcesAllIn
PROPERTIES IsFreezeout HandEnds
