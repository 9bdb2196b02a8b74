CONSTANTS
  Settings = {s1, s2}
  Progress = {fresh, played}
  Fresh = fresh
  MaxCommits = 2
  MaxOps = 3
  MaxEdits = 1
  MaxFlight = 2
SPECIFICATION Spec
INVARIANTS NothingPendingIsSaved
PROPERTIES WritesAsConfirmed
SYMMETRY SettingsAlike
CHECK_DEADLOCK FALSE
