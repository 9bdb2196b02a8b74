CONSTANTS
  MaxSave = 3
  MaxCorruptions = 1
  Missing = Missing
  Corrupt = Corrupt
SPECIFICATION Spec
PROPERTIES RecoveryLeavesSavesAlone
