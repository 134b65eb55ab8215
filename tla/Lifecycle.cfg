SPECIFICATION Spec
CONSTANTS
  INT_MAX = 1000
  SERVER_MISSED_LIMIT = 0
  Day = 4
  MinSnooze = 2
  BackLimit = 1
  CLK_JITTER = 1
  CLK_STABLE = 1
  CLK_RESCHED = 1
  TwoWeeks = 2
  POWERUP_COMPENSATION_SECS = 1
  ALARM_INTERRUPT_LIMIT_SECS = 1
  DefaultSnooze = 2
  Cookies = 2
  Kinds <- LifecycleKinds
  SnoozeVals = {}
  Buttons <- AnyButton
  Zones = {0}
  Jumps = {}
  Churn = {}
  Stimuli = {"add", "del", "ack", "answer"}
  InitUp <- AllUp
  InitFlags <- User
  WaitState = "startup"
  QuickRestart = FALSE
  Prompt = TRUE
  MaxTime = 6
  Busy = 4
  MaxDelta = 0
INVARIANTS TypeOK DialogsMatch PhaseKept NoneMissed
CHECK_DEADLOCK FALSE
