--------------------------- MODULE MCAlarmServer ---------------------------
(***************************************************************************)
(* Instances of AlarmServer for TLC: what clients ask for, and the sets    *)
(* the environment draws from.  Times are scaled down: a day is 4.         *)
(***************************************************************************)
EXTENDS AlarmServer

Button(what) == [when |-> {"RESPONDED"}, what |-> what, label |-> TRUE]
Effect(when, what) == [when |-> {when}, what |-> {what}, label |-> FALSE]
SnoozeOrStop == <<Button({"SNOOZE"}), Button({})>>

Plain == [flags |-> {}, acts |-> << >>, snooze |-> 0, recur |-> 0, mask |-> -1,
          count |-> 0, how |-> "abs", at |-> 2]

(* A wakeup alarm with a dialog, and one shown in acting dead only.        *)
Dialog   == [Plain EXCEPT !.acts = SnoozeOrStop, !.flags = {"BOOT", "SHOW_ICON"}]
Actdead  == [Dialog EXCEPT !.flags = {"ACTDEAD"}, !.at = 3]
(* Alarms that recur: every 3, twice in all; and at a time of day.         *)
Periodic == [Plain EXCEPT !.acts = SnoozeOrStop, !.recur = 3, !.count = 2,
                          !.flags = {"RUN_DELAYED"}]
Daily    == [Plain EXCEPT !.mask = 3, !.count = -1, !.how = "daily", !.at = 3]
(* What a missed alarm may do.                                             *)
Postpone == [Dialog EXCEPT !.flags = {"POSTPONE_DELAYED"}, !.snooze = 2]
Disable  == [Dialog EXCEPT !.flags = {"DISABLE_DELAYED"}]
Missed   == [Plain EXCEPT !.acts = <<Effect("DELAYED", "SNOOZE"),
                                     Effect("TRIGGERED", "DISABLE")>>]
(* An alarm that needs the internet.                                       *)
Online   == [Plain EXCEPT !.flags = {"CONNECTED"}, !.acts = SnoozeOrStop]
(* Alarms by the clock on the wall.                                        *)
Date     == [Plain EXCEPT !.how = "date", !.at = 6]
DateBack == [Date EXCEPT !.flags = {"BACK_RESCHEDULE"}]

LifecycleKinds == {Dialog, Periodic, Daily}
MissedKinds    == {Postpone, Disable, Missed, Online}
ClockKinds     == {Periodic, Date, DateBack}
DialogOnly     == {[Dialog EXCEPT !.at = 1]}
LiveKinds      == {[Dialog EXCEPT !.at = 1]}
OnlineKinds    == {[Online EXCEPT !.at = 1]}
BootKinds      == {[Dialog EXCEPT !.at = 1], [Actdead EXCEPT !.at = 1]}

ClockJumps == {-3, 1}
LiveJumps == {-2, 2}
OneButton == {0}
AnyButton == {-1, 0, 1}
AllUp   == {Services}
User    == {{"DESKTOP_UP"}}
Limbo   == {{}, {"ACT_DEAD"}}
=============================================================================
