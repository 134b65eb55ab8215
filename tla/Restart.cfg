SPECIFICATION RestartSpec
CONSTANTS
  INT_MAX = 1000
  SERVER_MISSED_LIMIT = 0
  Day = 4
  MinSnooze = 2
  BackLimit = 1
  CLK_JITTER = 1
  CLK_STABLE = 1
  CLK_RESCHED = 1
  TwoWeeks = 3
  POWERUP_COMPENSATION_SECS = 1
  ALARM_INTERRUPT_LIMIT_SECS = 1
  DefaultSnooze = 2
  Cookies = 1
  Kinds <- RestartKinds
  SnoozeVals = {}
  Buttons <- OneButton
  Zones = {0}
  Jumps = {}
  Churn = {"SYSTEMUI", "DSME", "STATUSBAR"}
  Stimuli = {"add", "del", "save", "names", "answer", "ack"}
  InitUp <- SomeUp
  InitFlags <- Modes
  WaitState = "hildon"
  QuickRestart = FALSE
  Prompt = TRUE
  MaxTime = 2
  Busy = 1
  MaxDelta = 0
  MaxRestarts = 1
INVARIANTS DialogsOwned RingsAgain StatusFresh
CHECK_DEADLOCK FALSE
