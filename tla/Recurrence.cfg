SPECIFICATION Spec
CONSTANTS
  Minute = 2
  Hour = 6
  Day = 18
  Week = 3
  Year = 2
  FirstDay <- Calendar
  Alarms <- Masked
  Delays = {0, 1, 5, 20}
  Jumps <- JumpSet
  MaxTime = 200
INVARIANTS TriggerPermitted NoneSkipped
PROPERTIES GoesOn
CHECK_DEADLOCK FALSE
