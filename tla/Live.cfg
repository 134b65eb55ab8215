SPECIFICATION FairSpec
CONSTANTS
  INT_MAX = 1000
  SERVER_MISSED_LIMIT = 1
  Day = 4
  MinSnooze = 2
  BackLimit = 1
  CLK_JITTER = 1
  CLK_STABLE = 1
  CLK_RESCHED = 1
  TwoWeeks = 3
  POWERUP_COMPENSATION_SECS = 1
  ALARM_INTERRUPT_LIMIT_SECS = 1
  DefaultSnooze = 2
  Cookies = 1
  Kinds <- LiveKinds
  SnoozeVals = {}
  Buttons <- OneButton
  Zones = {0}
  Jumps <- LiveJumps
  Churn = {"DSME"}
  Stimuli = {"add", "del", "answer", "powerup", "names", "jump", "clockd"}
  InitUp <- AllUp
  InitFlags <- User
  WaitState = "startup"
  QuickRestart = FALSE
  Prompt = TRUE
  MaxTime = 6
  Busy = 1
  MaxDelta = 2
PROPERTIES RethinkTerminates DueIsHandled PowerupSent TimeChangeAnnounced
CHECK_DEADLOCK FALSE
