CONSTANTS
  Settings = {s1}
  Progress = {fresh, played}
  Fresh = fresh
  MaxCommits = 1
  MaxOps = 0
  MaxEdits = 0
  MaxFlight = 2
SPECIFICATION Spec
INVARIANTS AsksOnlyIfUnsaved
CHECK_DEADLOCK FALSE
