CONSTANTS
  MaxRequests = 4
  MaxSlices = 3
SPECIFICATION EquitySpec
INVARIANTS OnlyGivenUpWorkIsDropped StopsAtASlice
PROPERTIES KeepsPromises
CHECK_DEADLOCK FALSE
