SPECIFICATION Spec
CONSTANTS
  INT_MAX = 1000
  SERVER_MISSED_LIMIT = 1
  Day = 4
  MinSnooze = 2
  BackLimit = 1
  CLK_JITTER = 1
  CLK_STABLE = 1
  CLK_RESCHED = 2
  TwoWeeks = 6
  POWERUP_COMPENSATION_SECS = 1
  ALARM_INTERRUPT_LIMIT_SECS = 1
  DefaultSnooze = 2
  Cookies = 1
  Kinds <- ClockKinds
  SnoozeVals = {}
  Buttons <- OneButton
  Zones = {0, 1}
  Jumps <- ClockJumps
  Churn = {}
  Stimuli = {"add", "jump", "zone", "clockd"}
  InitUp <- AllUp
  InitFlags <- User
  WaitState = "startup"
  QuickRestart = FALSE
  Prompt = FALSE
  MaxTime = 4
  Busy = 1
  MaxDelta = 2
INVARIANTS WakeupCovers LocalTimeKept
CHECK_DEADLOCK FALSE
