SPECIFICATION Spec
CONSTANTS
  INT_MAX = 1000
  SERVER_MISSED_LIMIT = 1
  Day = 4
  MinSnooze = 2
  BackLimit = 1
  CLK_JITTER = 1
  CLK_STABLE = 1
  CLK_RESCHED = 1
  TwoWeeks = 3
  POWERUP_COMPENSATION_SECS = 1
  ALARM_INTERRUPT_LIMIT_SECS = 1
  DefaultSnooze = 2
  Cookies = 2
  Kinds <- BootKinds
  SnoozeVals = {3}
  Buttons <- OneButton
  Zones = {0}
  Jumps = {}
  Churn = {}
  Stimuli = {"add", "desktop", "update", "del", "snooze", "CUD", "RFS", "save_data", "save"}
  InitUp <- AllUp
  InitFlags <- Limbo
  WaitState = "hildon"
  QuickRestart = FALSE
  Prompt = FALSE
  MaxTime = 2
  Busy = 1
  MaxDelta = 0
INVARIANTS LimboHolds NoWorkLeftBehind Durable
CHECK_DEADLOCK FALSE
