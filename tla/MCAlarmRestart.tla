--------------------------- MODULE MCAlarmRestart ---------------------------
(***************************************************************************)
(* Instances of AlarmRestart for TLC: a wakeup alarm, which does not ring   *)
(* in acting dead and whose button snoozes it.                             *)
(***************************************************************************)
EXTENDS AlarmRestart

Stop == [when |-> {"RESPONDED"}, what |-> {}, label |-> TRUE]
Later == [when |-> {"RESPONDED"}, what |-> {"SNOOZE"}, label |-> TRUE]
Wake == [flags |-> {"BOOT", "SHOW_ICON"}, acts |-> <<Later, Stop>>, snooze |-> 0,
         recur |-> 0, mask |-> -1, count |-> 0, how |-> "abs", at |-> 1]

RestartKinds == {Wake}
OneButton == {0}
SomeUp == {Services, {}}
Modes == {{"DESKTOP_UP"}, {"ACT_DEAD"}}
=============================================================================
