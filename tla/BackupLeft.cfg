SPECIFICATION Spec
CONSTANTS
  a1 = a1
  Alarms <- AlarmSet
  Tool <- BackupTool
  MaxFaults = 1
  MaxChanges = 1
  MaxSignals = 2
  MaxRestores = 1
INVARIANT BackupCleared
CHECK_DEADLOCK FALSE
