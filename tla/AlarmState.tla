----------------------------- MODULE AlarmState -----------------------------
(***************************************************************************)
(* The state of the alarmd process and of the peers it talks to, and the   *)
(* operations of server.c that its handlers share: state flags, the        *)
(* rethink, wakeup and save timers, and the queue status.                  *)
(*                                                                         *)
(* alarmd is one thread driven by a main loop.  A timer is modelled by the *)
(* monotonic time at which it falls due; the loop may run it at any later  *)
(* moment, and several due timers in any order.                            *)
(***************************************************************************)
EXTENDS AlarmTypes, FiniteSets

CONSTANTS
  Cookies,       (* cookies the queue may hand out, bound of queue_cookie  *)
  CLK_JITTER, CLK_STABLE, CLK_RESCHED,   (* 2, 2 and 5 s in the code       *)
  TwoWeeks,                  (* cap of the software wakeup                 *)
  POWERUP_COMPENSATION_SECS, ALARM_INTERRUPT_LIMIT_SECS, (* 60 s, 60 s     *)
  DefaultSnooze              (* QUEUE_SNOOZE_DEFAULT                       *)

ASSUME ServerConstants ==
  /\ Cookies \in Nat
  /\ CLK_JITTER \in Nat /\ CLK_STABLE \in Nat \ {0} /\ CLK_RESCHED \in Nat
  /\ TwoWeeks \in Nat \ {0}
  /\ POWERUP_COMPENSATION_SECS \in Nat
  /\ ALARM_INTERRUPT_LIMIT_SECS \in Nat
  /\ DefaultSnooze \in Nat

VARIABLES
  ev, lastCookie, snooze,    (* queue_by_cookie, queue_cookie, queue_snooze *)
  pc, dirty,                 (* place in the rethink loop, queue_dirty     *)
  now,                       (* server_rethink_time                        *)
  rethink, wakeup, save, limboTimer,     (* pending GLib sources           *)
  mono, delta, clk,          (* clocks; statics of the stability check     *)
  tz, tzCurr, tzPrev,        (* system zone, server_tz_curr, server_tz_prev *)
  flags, up, dn,             (* server_state_real                          *)
  qs, qsPrev, icons, iconsPrev, rtc,     (* queue status and RTC alarm     *)
  dialogs, answers, views, iconShown,    (* what the peers show and send   *)
  disk                       (* contents of the queue file                 *)

queueVars  == <<lastCookie, snooze>>
timerVars  == <<rethink, wakeup, save, limboTimer>>
clockVars  == <<mono, delta, clk, now>>
zoneVars   == <<tz, tzCurr, tzPrev>>
stateVars  == <<flags, up, dn>>
statusVars == <<qs, qsPrev, icons, iconsPrev, rtc>>
peerVars   == <<dialogs, answers, views, iconShown>>
vars == <<ev, queueVars, pc, dirty, timerVars, clockVars, zoneVars, stateVars,
          statusVars, peerVars, disk>>

-----------------------------------------------------------------------------
Never == -1                          (* the due time of a timer that is off *)

Services == {"SYSTEMUI", "CLOCKD", "DSME", "MCE", "STATUSBAR"}

(* The rest of server_state_real; the UP and DN bits are up and dn.        *)
StateFlags == {"CONNECTED", "ACT_DEAD", "DESKTOP_UP", "SEND_POWERUP",
               "CLK_BCAST", "TZ_CHANGED", "CLK_CHANGED", "CLK_MV_FORW",
               "CLK_MV_BACK"}

Places == {"idle", "new", "waitconn", "timechange", "queued", "missed",
           "postponed", "limbo", "triggered", "waitsysui", "sysui_req",
           "sysui_ack", "sysui_rsp", "snoozed", "served", "recurring",
           "deleted", "cleanup", "finish"}

QueueStatus == [alarms : Int, desktop : Int, actdead : Int, no_boot : Int]
EmptyStatus == [alarms |-> 0, desktop |-> INT_MAX, actdead |-> INT_MAX,
                no_boot |-> INT_MAX]
(* Mistake: a listener that came back is taken to know the status.         *)
NotInvalidated(q) == q
Invalidated(q) == [q EXCEPT !.alarms = -1]
Listeners == {"DSME", "MCE"}         (* services that follow the status    *)
NoView == Invalidated(EmptyStatus)   (* a listener that was told nothing   *)

(* ticker_get_time and ticker_get_monotonic: delta is the difference that  *)
(* setting the system clock changes.                                       *)
Wall == mono + delta

NoEvents == [c \in {} |-> 0]         (* the empty queue                     *)

(* What queue_save_to_memory writes.                                       *)
Snapshot == [ev |-> ev, snooze |-> snooze]

InState(s) == {c \in DOMAIN ev : Visible(ev[c]) /\ ev[c].state = s}

-----------------------------------------------------------------------------
(* server_rethink_request: at once (g_idle_add) or after 100 ms, both below *)
(* the one second grain of mono; a pending request is kept as it is.       *)
Requested == IF rethink = Never THEN mono ELSE rethink
RethinkRequest == rethink' = Requested

(* server_state_set, with the UP and DN bits given apart.                  *)
(* Mistake: only flags that were raised ask for a rethink.                 *)
SetState3Raised(f, u, d) ==
  /\ flags' = f /\ up' = u /\ dn' = d
  /\ rethink' = IF f \subseteq flags /\ u \subseteq up /\ d \subseteq dn
                THEN rethink ELSE Requested

SetState3(f, u, d) ==
  /\ flags' = f /\ up' = u /\ dn' = d
  /\ rethink' = IF f = flags /\ u = up /\ d = dn THEN rethink ELSE Requested

SetFlags(set) == SetState3(flags \cup set, up, dn)

(* Mistake: any wakeup that is pending stays.                              *)
RequestFirstWakeup(t) ==
  LET tmo == MinOf(t, now + TwoWeeks)
  IN  wakeup' = IF wakeup.due = Never
                THEN [time |-> tmo, due |-> mono + MaxOf(0, tmo - now)]
                ELSE wakeup

(* server_request_wakeup: an earlier wakeup that is pending stays.         *)
RequestWakeup(t) ==
  LET tmo == MinOf(t, now + TwoWeeks)
  IN  wakeup' = IF wakeup.time > tmo
                THEN [time |-> tmo, due |-> mono + MaxOf(0, tmo - now)]
                ELSE wakeup

NoWakeup == [time |-> INT_MAX, due |-> Never]

(* Mistake: the events are written, the default snooze is not.             *)
ForcedSaveOfEvents(contents) ==
  save' = FALSE /\ disk' = [contents EXCEPT !.snooze = DefaultSnooze]

(* server_queue_request_save and server_queue_forced_save.                 *)
RequestSave == save' = TRUE
ForcedSave(contents) == save' = FALSE /\ disk' = contents
=============================================================================
