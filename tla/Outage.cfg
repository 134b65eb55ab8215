SPECIFICATION Spec
CONSTANTS
  INT_MAX = 1000
  SERVER_MISSED_LIMIT = 1
  Day = 4
  MinSnooze = 2
  BackLimit = 1
  CLK_JITTER = 1
  CLK_STABLE = 1
  CLK_RESCHED = 1
  TwoWeeks = 3
  POWERUP_COMPENSATION_SECS = 1
  ALARM_INTERRUPT_LIMIT_SECS = 1
  DefaultSnooze = 2
  Cookies = 1
  Kinds <- DialogOnly
  SnoozeVals = {}
  Buttons <- OneButton
  Zones = {0}
  Jumps = {}
  Churn = {"SYSTEMUI"}
  Stimuli = {"add", "names"}
  InitUp <- AllUp
  InitFlags <- User
  WaitState = "startup"
  QuickRestart = TRUE
  Prompt = FALSE
  MaxTime = 3
  Busy = 2
  MaxDelta = 0
INVARIANTS DialogsMatch
CHECK_DEADLOCK FALSE
