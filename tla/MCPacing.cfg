CONSTANTS
  Reasons = {"blurred", "hidden", "minimized"}
  RoomTime = 1
  EventTime <- MCEventTime
  Events = 2
  MaxAdvance = 3
  RecapAfter = 1
  MaxRestarts = 1
  MaxTime = 5
SPECIFICATION FairSpec
INVARIANTS NeverEarly NoSoundWhileAway
PROPERTIES EachEventPresented ReportsTimePlayed RoomArrives TableGoesOn
CHECK_DEADLOCK FALSE
