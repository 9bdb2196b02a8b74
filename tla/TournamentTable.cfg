CONSTANTS
  Modes = {"rational", "timed"}
  Tokens = {1, 2}
  MaxGames = 2
  MaxStep = 3
  MaxTime = 2
SPECIFICATION FairSpec
INVARIANTS DecisionIsCurrent PresentsOwnTable AcceptedIsSaved ClockAccounts
PROPERTIES AnswerIsForItsDecision TableMovesOn
