---------------------------- MODULE AlarmRestart ----------------------------
(***************************************************************************)
(* The server with a daemon that dies and is started again.  The process   *)
(* may be killed anywhere, inside a rethink too, or may save its queue and *)
(* exit; the device may lose power.  Writing the file is one step here:    *)
(* DurableQueue states, and QueueStorage shows, that a death within a save *)
(* leaves the contents from before or after it.                            *)
(***************************************************************************)
EXTENDS AlarmServer

CONSTANT MaxRestarts       (* bound of the restarts                         *)

ASSUME RestartConstants == MaxRestarts \in Nat

VARIABLES
  restarts,                (* how often the daemon was started again        *)
  leftover,                (* dialogs a dead daemon opened: for properties  *)
  owed                     (* alarms that rang before: for properties       *)

restartVars == <<vars, restarts, leftover, owed>>

-----------------------------------------------------------------------------
Rang(e) == e.state \in S_LIMBO .. S_SYSUI_RSP

(* Mistake: an alarm that rang is taken for one that waits.                *)
ReloadedNew(e) == [e EXCEPT !.response = -1, !.state = S_NEW]

(* The end of queue_load_from_path: what had rung waits to ring again, all *)
(* others are evaluated anew.  Responses are not in the file.              *)
Reloaded(e) ==
  [e EXCEPT !.response = -1, !.state = IF Rang(e) THEN S_LIMBO ELSE S_NEW]

(* queue_load, and server_init of a process that knows the file, the peers *)
(* that are on the bus and what the state of the device shows as flags.    *)
(* Any time may have passed since the old process died.                    *)
Started(file, shown, present) ==
  /\ ev' = [c \in DOMAIN file.ev |-> Reloaded(file.ev[c])]
  /\ Lowest({n \in 0 .. Cookies : DOMAIN file.ev \subseteq 0 .. n}, lastCookie')
  /\ snooze' = file.snooze
  /\ pc' = "idle" /\ dirty' = FALSE /\ now' = 0
  /\ mono' \in mono .. MaxTime
  /\ rethink' = mono' /\ wakeup' = NoWakeup /\ save' = FALSE /\ limboTimer' = FALSE
  /\ clk' = [initialized |-> FALSE, clock |-> 0, sched |-> 0, until |-> 0,
             forw |-> 0, back |-> 0]
  /\ tzCurr' = tz /\ tzPrev' = tz
  /\ flags' = shown /\ up' = present /\ dn' = Services
  /\ qs' = EmptyStatus /\ qsPrev' = NoView /\ icons' = 0 /\ iconsPrev' = -1
  /\ UNCHANGED <<delta, tz, rtc>>

(* The desktop is taken to be up when its home service is on the bus, which *)
(* need not agree with the signals the old process saw.                    *)
ProcessStarted(file) ==
  /\ \E desktop \in SUBSET {"DESKTOP_UP"} :
       /\ WaitState = "disabled" => desktop # {}
       /\ Started(file, (flags \cap {"ACT_DEAD"}) \cup desktop, up)
  /\ answers' = {}
  /\ UNCHANGED <<dialogs, views, iconShown>>

(* The process is killed and started again; its peers live on.             *)
Crash == ProcessStarted(disk) /\ UNCHANGED disk

(* The main loop is left, the queue saved, the daemon started again.       *)
Terminate == pc = "idle" /\ disk' = Snapshot /\ ProcessStarted(disk')

(* The device starts again, in acting dead or user mode.                   *)
PowerCycle ==
  /\ \E f \in InitFlags, u \in InitUp : Started(disk, f, u)
  /\ dialogs' = {} /\ answers' = {} /\ iconShown' = FALSE
  /\ views' = [s \in Listeners |-> NoView]
  /\ UNCHANGED disk

RestartStep ==
  /\ restarts < MaxRestarts
  /\ Crash \/ Terminate \/ PowerCycle
  /\ restarts' = restarts + 1
  /\ leftover' = dialogs'
  /\ owed' = {c \in DOMAIN disk'.ev : Visible(disk'.ev[c]) /\ Rang(disk'.ev[c])}

(* A dialog stays left over until it is gone and its answer handled, or    *)
(* the new daemon asks for it with no answer to the old one on its way.    *)
OnItsWay(c) == \E m \in answers : m.cookie = c
StaysLeft(c) == OnItsWay(c) \/ (c \in dialogs /\ c \notin InState(S_SYSUI_REQ))

(* An alarm is owed until it rings once more, a client deletes it or its   *)
(* own action hides it; what has no button rings by being triggered.       *)
Ringing(e) == e.state = S_SYSUI_REQ \/ (e.state = S_TRIGGERED /\ ~HasButtons(e))
StaysOwed(c) ==
  c \in DOMAIN ev /\ Visible(ev[c]) /\ ev[c].state # S_DELETED /\ ~Ringing(ev[c])

ServerStep ==
  /\ Next
  /\ UNCHANGED restarts
  /\ leftover' = {c \in leftover : StaysLeft(c)'}
  /\ owed' = {c \in owed : StaysOwed(c)'}

RestartInit == Init /\ restarts = 0 /\ leftover = {} /\ owed = {}
RestartNext == ServerStep \/ RestartStep
RestartSpec == RestartInit /\ [][RestartNext]_restartVars

-----------------------------------------------------------------------------
(* Properties.                                                             *)

(* System ui and the queue agree, restarts of either included: whoever     *)
(* waits for the user has a dialog or an answer on its way, and a dialog   *)
(* of an alarm that does not wait was opened by a daemon that died, or     *)
(* while the answer to such a dialog was on its way.                       *)
DialogsOwned ==
  Quiescent =>
    LET asking == InState(S_SYSUI_REQ) \cup InState(S_SYSUI_ACK)
    IN  /\ asking \subseteq dialogs \cup {m.cookie : m \in answers}
        /\ dialogs \subseteq asking \cup leftover

(* An alarm that the queue file knows to have rung is not lost by a        *)
(* restart, however long the daemon was away: it is not taken for missed   *)
(* or queued again, but stays on its way to the user until it rings or a   *)
(* client deletes it.                                                      *)
RingsAgain ==
  \A c \in owed : c \in DOMAIN ev /\ ev[c].state \in S_LIMBO .. S_WAITSYSUI
=============================================================================
