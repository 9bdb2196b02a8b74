CONSTANTS
  FailureThreshold = 3
  MaxFailures = 5
SPECIFICATION DesktopFairSpec
PROPERTIES RepeatedFailuresSelectSafeMode QuitNeverEscalates StuckRendererCannotTrapWindow
