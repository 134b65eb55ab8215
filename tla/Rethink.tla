------------------------------- MODULE Rethink -------------------------------
(***************************************************************************)
(* server_rethink_start_cb: the loop that takes every queued event through *)
(* its states until no event was moved backwards, one action per function  *)
(* the loop calls.  No handler runs and no time passes inside the loop.    *)
(***************************************************************************)
EXTENDS AlarmState

(* What the functions of the loop share: the events in state s are looked  *)
(* up once, each is taken through Step, and queue_dirty collects the marks. *)
PassOver(place, s, next, Step(_)) ==
  LET out == [c \in DOMAIN ev |->
                IF Visible(ev[c]) /\ ev[c].state = s
                THEN Step(ev[c]) ELSE Cell(ev[c])]
  IN  /\ pc = place
      /\ ev' = [c \in DOMAIN ev |-> out[c].e]
      /\ dirty' = (dirty \/ \E c \in DOMAIN ev : out[c].d)
      /\ pc' = next

(* Most of them touch nothing but the events.                              *)
Phase(place, s, next, Step(_)) ==
  /\ PassOver(place, s, next, Step)
  /\ UNCHANGED <<queueVars, timerVars, clockVars, zoneVars, stateVars, disk>>

Connected == "CONNECTED" \in flags
Needs(e, flag) == flag \in e.kind.flags
Offline(e) == Needs(e, "CONNECTED") /\ ~Connected

-----------------------------------------------------------------------------
(* server_clock_source_is_stable, evaluated when the rethink timer runs.   *)
ClkBase == IF clk.initialized THEN clk
           ELSE [clk EXCEPT !.initialized = TRUE, !.clock = delta,
                            !.sched = delta, !.until = mono]
(* Mistake: a change of twice the jitter is still taken for drift.         *)
ClkDetectedLate ==
  \/ "CLK_CHANGED" \in flags
  \/ delta - ClkBase.clock \notin -2 * CLK_JITTER .. 2 * CLK_JITTER

ClkDetected ==
  \/ "CLK_CHANGED" \in flags
  \/ delta - ClkBase.clock \notin -CLK_JITTER .. CLK_JITTER
ClkSeen == IF ClkDetected
           THEN [ClkBase EXCEPT !.clock = delta, !.until = mono + CLK_STABLE]
           ELSE ClkBase
ClkStable == mono >= ClkSeen.until

(* Mistakes: the wakeup computed with the old clock is kept; the callback  *)
(* removes its source without adding the next one.                         *)
UnstableKeepsWakeup ==
  /\ pc = "idle" /\ rethink # Never /\ mono >= rethink
  /\ ~ClkStable
  /\ clk' = ClkSeen
  /\ flags' = (flags \ {"CLK_CHANGED"}) \cup {"CLK_BCAST"}
  /\ qsPrev' = Invalidated(qsPrev)
  /\ rethink' = mono + 1
  /\ UNCHANGED <<ev, queueVars, pc, dirty, wakeup, save, limboTimer, mono, delta, now,
                 zoneVars, up, dn, qs, icons, iconsPrev, rtc, peerVars, disk>>

UnstableForgets ==
  /\ pc = "idle" /\ rethink # Never /\ mono >= rethink
  /\ ~ClkStable
  /\ clk' = ClkSeen
  /\ flags' = (flags \ {"CLK_CHANGED"}) \cup {"CLK_BCAST"}
  /\ wakeup' = NoWakeup
  /\ qsPrev' = Invalidated(qsPrev)
  /\ rethink' = Never
  /\ UNCHANGED <<ev, queueVars, pc, dirty, save, limboTimer, mono, delta, now,
                 zoneVars, up, dn, qs, icons, iconsPrev, rtc, peerVars, disk>>

(* The rethink is put off by one second and the wakeup dropped.            *)
RethinkUnstable ==
  /\ pc = "idle" /\ rethink # Never /\ mono >= rethink
  /\ ~ClkStable
  /\ clk' = ClkSeen
  /\ flags' = (flags \ {"CLK_CHANGED"}) \cup {"CLK_BCAST"}
  /\ wakeup' = NoWakeup
  /\ qsPrev' = Invalidated(qsPrev)
  /\ rethink' = mono + 1
  /\ UNCHANGED <<ev, queueVars, pc, dirty, save, limboTimer, mono, delta, now,
                 zoneVars, up, dn, qs, icons, iconsPrev, rtc, peerVars, disk>>

RethinkStart ==
  LET moved == ClkSeen.clock - ClkSeen.sched IN
  /\ pc = "idle" /\ rethink # Never /\ mono >= rethink
  /\ ClkStable
  /\ clk' = CASE moved > CLK_RESCHED ->
                   [ClkSeen EXCEPT !.sched = @ + moved, !.forw = @ + moved]
              [] moved < -CLK_RESCHED ->
                   [ClkSeen EXCEPT !.sched = @ + moved, !.back = @ + moved]
              [] OTHER -> ClkSeen
  /\ flags' = CASE moved > CLK_RESCHED -> flags \cup {"CLK_MV_FORW"}
                [] moved < -CLK_RESCHED -> flags \cup {"CLK_MV_BACK"}
                [] OTHER -> flags
  /\ rethink' = Never
  /\ now' = Wall
  /\ save' = FALSE
  /\ pc' = "new" /\ dirty' = FALSE
  /\ UNCHANGED <<ev, queueVars, wakeup, limboTimer, mono, delta, zoneVars, up,
                 dn, statusVars, peerVars, disk>>

-----------------------------------------------------------------------------
NewStep(e) ==
  IF Offline(e) THEN SetState(Cell(e), S_WAITCONN)
  ELSE DoStateActions(SetState(Cell(e), S_QUEUED), "QUEUED")

RethinkNew ==
  /\ Phase("new", S_NEW, "waitconn", NewStep)
  /\ UNCHANGED <<statusVars, peerVars>>

WaitconnStep(e) == IF Connected THEN SetState(Cell(e), S_NEW) ELSE Cell(e)

RethinkWaitconn ==
  /\ Phase("waitconn", S_WAITCONN, "timechange", WaitconnStep)
  /\ UNCHANGED <<statusVars, peerVars>>

(* Mistake: BACK_RESCHEDULE is not looked at.                              *)
RescheduledAhead(e, adj) ==
  LET use == NextTrigger(now, 0, e, tzCurr) IN
  IF e.snoozed # 0 THEN SetState(SetTrigger(Cell(e), e.trigger + adj), S_NEW)
  ELSE IF e.kind.how = "abs" \/ use <= e.trigger THEN Cell(e)
  ELSE SetState(SetTrigger(Cell(e), use), S_NEW)

(* server_rethink_timechange, for one queued event: adj is the clock change *)
(* that has not been accounted for.                                        *)
Rescheduled(e, adj) ==
  LET use == NextTrigger(now, 0, e, tzCurr) IN
  CASE e.snoozed # 0 -> SetState(SetTrigger(Cell(e), e.trigger + adj), S_NEW)
    [] e.snoozed = 0 /\ e.kind.how = "abs" -> Cell(e)
    [] e.snoozed = 0 /\ e.kind.how # "abs" ->
         IF \/ use = e.trigger
            \/ /\ ~Needs(e, "BACK_RESCHEDULE")
               /\ use < e.trigger /\ adj < -BackLimit
         THEN Cell(e)
         ELSE SetState(SetTrigger(Cell(e), use), S_NEW)

(* Events that moved send the loop back to its start.                      *)
RethinkTimechange ==
  LET zone == "TZ_CHANGED" \in flags
      forw == IF "CLK_MV_FORW" \in flags THEN clk.forw ELSE 0
      back == IF "CLK_MV_BACK" \in flags THEN clk.back ELSE 0
      out  == [c \in DOMAIN ev |->
                 IF (zone \/ forw + back # 0) /\ c \in InState(S_QUEUED)
                 THEN Rescheduled(ev[c], forw + back) ELSE Cell(ev[c])]
  IN  /\ pc = "timechange"
      /\ flags' = flags \ {"TZ_CHANGED", "CLK_MV_FORW", "CLK_MV_BACK"}
      /\ clk' = [clk EXCEPT !.forw = @ - forw, !.back = @ - back]
      /\ tzPrev' = IF zone \/ forw + back # 0 THEN tzCurr ELSE tzPrev
      /\ ev' = [c \in DOMAIN ev |-> out[c].e]
      /\ IF \E c \in DOMAIN ev : out[c].d
         THEN pc' = "new" /\ dirty' = FALSE
         ELSE pc' = "queued" /\ UNCHANGED dirty
      /\ UNCHANGED <<queueVars, timerVars, mono, delta, now, tz, tzCurr, up, dn,
                     statusVars, peerVars, disk>>

(* The events that wait, by the most powerful way they may start the device. *)
Waiting == {c \in InState(S_QUEUED) : ~Offline(ev[c]) /\ ev[c].trigger > now}
Boots(c) == CASE Needs(ev[c], "BOOT") -> "desktop"
              [] ~Needs(ev[c], "BOOT") /\ Needs(ev[c], "ACTDEAD") -> "actdead"
              [] OTHER -> "no_boot"
TimesOf(b) == {ev[c].trigger : c \in {x \in Waiting : Boots(x) = b}} \cup {INT_MAX}

(* server_rethink_queued, with the server_queuestate_reset that begins each *)
(* pass: nothing reads the status in between.                              *)
QueuedStep(e) ==
  IF Offline(e) THEN SetState(Cell(e), S_WAITCONN)
  ELSE IF e.trigger > now THEN Cell(e)
  ELSE IF now - e.trigger > SERVER_MISSED_LIMIT THEN SetState(Cell(e), S_MISSED)
  ELSE SetState(Cell(e), S_LIMBO)

(* hwrtc_set_alarm.                                                        *)
SetHardwareAlarm(trg) ==
  rtc' = MaxOf(trg - POWERUP_COMPENSATION_SECS, now + ALARM_INTERRUPT_LIMIT_SECS)

RethinkQueued ==
  \E d \in TimesOf("desktop"), a \in TimesOf("actdead"), n \in TimesOf("no_boot") :
    LET thw == MinOf(d, a)
        tsw == MinOf(thw, n)
    IN
    /\ Lowest(TimesOf("desktop"), d)
    /\ Lowest(TimesOf("actdead"), a)
    /\ Lowest(TimesOf("no_boot"), n)
    /\ PassOver("queued", S_QUEUED, "missed", QueuedStep)
    /\ qs' = [alarms |-> 0, desktop |-> d, actdead |-> a, no_boot |-> n]
    /\ icons' = Cardinality({c \in Waiting : Needs(ev[c], "SHOW_ICON")})
    /\ IF tsw < INT_MAX THEN RequestWakeup(tsw) ELSE UNCHANGED wakeup
    /\ IF thw < INT_MAX THEN SetHardwareAlarm(thw) ELSE UNCHANGED rtc
    /\ UNCHANGED <<queueVars, rethink, save, limboTimer, clockVars, zoneVars,
                   stateVars, qsPrev, iconsPrev, peerVars, disk>>

MissedStep(e) ==
  LET x == DoStateActions(Cell(e), "DELAYED") IN
  CASE Needs(e, "RUN_DELAYED") -> SetState(x, S_LIMBO)
    [] ~Needs(e, "RUN_DELAYED") /\ Needs(e, "POSTPONE_DELAYED") ->
         SetState(x, S_POSTPONED)
    [] ~Needs(e, "RUN_DELAYED") /\ ~Needs(e, "POSTPONE_DELAYED")
       /\ Needs(e, "DISABLE_DELAYED") ->
         DoStateActions(Disabled(x), "DISABLED")
    [] OTHER -> SetState(x, S_SERVED)

RethinkMissed ==
  /\ Phase("missed", S_MISSED, "postponed", MissedStep)
  /\ UNCHANGED <<statusVars, peerVars>>

(* Less than a day late triggers anyway, otherwise the event is moved past *)
(* tomorrow in steps of its snooze time.                                   *)
PostponedStep(e) ==
  LET s   == SnoozeOf(e, snooze)
      add == now + Day - e.trigger
      pad == add % s
  IN  IF now - e.trigger - s < Day THEN SetState(Cell(e), S_LIMBO)
      ELSE SetState(SetTrigger(Cell(e), e.trigger + add
                                 + (IF pad = 0 THEN 0 ELSE s - pad)),
                    S_NEW)

RethinkPostponed ==
  /\ Phase("postponed", S_POSTPONED, "limbo", PostponedStep)
  /\ UNCHANGED <<statusVars, peerVars>>

(* Mistake: one of the two conditions is enough.                           *)
MayLeaveLimboEither(e) ==
  \/ "DESKTOP_UP" \in flags
  \/ "ACT_DEAD" \notin flags \/ Needs(e, "ACTDEAD")

MayLeaveLimbo(e) ==
  /\ "DESKTOP_UP" \in flags
  /\ "ACT_DEAD" \notin flags \/ Needs(e, "ACTDEAD")

LimboStep(e) == IF MayLeaveLimbo(e) THEN SetState(Cell(e), S_TRIGGERED) ELSE Cell(e)

RethinkLimbo ==
  /\ Phase("limbo", S_LIMBO, "triggered", LimboStep)
  /\ UNCHANGED <<statusVars, peerVars>>

TriggeredStep(e) ==
  LET x == DoStateActions(Cell(e), "TRIGGERED") IN
  CASE HasButtons(e) -> SetState(x, S_WAITSYSUI)
    [] ~HasButtons(e) /\ x.e.state = S_SNOOZED -> x
    [] OTHER -> SetState(x, S_SERVED)

RethinkTriggered ==
  /\ Phase("triggered", S_TRIGGERED, "waitsysui", TriggeredStep)
  /\ UNCHANGED <<statusVars, peerVars>>

(* ipc_systemui_add_dialog and ipc_systemui_cancel_dialog: a message for   *)
(* each dialog; the answers to them change nothing.                        *)
AddDialogs(cookies) == dialogs' = dialogs \cup cookies
CancelDialogs(cookies) == dialogs' = dialogs \ cookies

(* The dialogs of all waiting events are requested from system ui.         *)
SysuiUp == "SYSTEMUI" \in up

WaitsysuiStep(e) == IF SysuiUp THEN SetState(Cell(e), S_SYSUI_REQ) ELSE Cell(e)

RethinkWaitsysui ==
  /\ Phase("waitsysui", S_WAITSYSUI, "sysui_req", WaitsysuiStep)
  /\ IF SysuiUp THEN AddDialogs(InState(S_WAITSYSUI)) ELSE UNCHANGED dialogs
  /\ UNCHANGED <<statusVars, answers, views, iconShown>>

(* Mistake: an acknowledged dialog is taken to outlive system ui.          *)
BackUnlessAcked(e) ==
  IF SysuiUp \/ e.state = S_SYSUI_ACK THEN Cell(e) ELSE SetState(Cell(e), S_WAITSYSUI)

(* A dialog that died with system ui will be requested again.              *)
BackToWait(e) == IF SysuiUp THEN Cell(e) ELSE SetState(Cell(e), S_WAITSYSUI)

RethinkSysuiReq ==
  /\ Phase("sysui_req", S_SYSUI_REQ, "sysui_ack", BackToWait)
  /\ UNCHANGED <<statusVars, peerVars>>

RethinkSysuiAck ==
  /\ Phase("sysui_ack", S_SYSUI_ACK, "sysui_rsp", BackToWait)
  /\ UNCHANGED <<statusVars, peerVars>>

(* A dialog that was not answered disables a one-shot DISABLE_DELAYED event; *)
(* otherwise the pressed button decides.                                   *)
Unanswered(e) ==
  e.response = -1 /\ Needs(e, "DISABLE_DELAYED") /\ ~IsRecurring(e)
Answered(x) == IF x.e.state = S_SNOOZED THEN x ELSE SetState(x, S_SERVED)
SysuiRspStep(e) ==
  IF Unanswered(e) THEN Disabled(Cell(e)) ELSE Answered(DoResponseActions(Cell(e)))

RethinkSysuiRsp ==
  /\ Phase("sysui_rsp", S_SYSUI_RSP, "snoozed", SysuiRspStep)
  /\ UNCHANGED <<statusVars, peerVars>>

(* snooze_total keeps the trigger time from before the first snooze.       *)
SnoozedStep(e) ==
  LET f == [e EXCEPT !.snoozed = IF @ = 0 THEN e.trigger ELSE @]
  IN  SetState(SetTrigger(Cell(f), now + SnoozeOf(e, snooze)), S_NEW)

RethinkSnoozed ==
  /\ Phase("snoozed", S_SNOOZED, "served", SnoozedStep)
  /\ UNCHANGED <<statusVars, peerVars>>

ServedStep(e) == SetState(Cell(e), IF IsRecurring(e) THEN S_RECURRING ELSE S_DELETED)

RethinkServed ==
  /\ Phase("served", S_SERVED, "recurring", ServedStep)
  /\ UNCHANGED <<statusVars, peerVars>>

RecurringStep(e) ==
  LET left == IF e.count > 0 THEN e.count - 1 ELSE e.count
      prev == IF e.snoozed # 0 THEN e.snoozed ELSE e.trigger
      curr == CASE left = 0 -> INT_MAX
                [] left # 0 /\ e.kind.recur > 0 ->
                     BumpTime(prev, e.kind.recur, now)
                [] OTHER -> AlignDaily(now + 1, e.kind.mask, tzCurr)
      f    == [e EXCEPT !.count = left, !.snoozed = 0]
  IN  IF 0 < curr /\ curr < INT_MAX
      THEN SetState(SetTrigger(Cell(f), curr), S_NEW)
      ELSE SetState(Cell(f), S_DELETED)

RethinkRecurring ==
  /\ Phase("recurring", S_RECURRING, "deleted", RecurringStep)
  /\ UNCHANGED <<statusVars, peerVars>>

DeletedStep(e) == DoStateActions(Cell(e), "DELETED")

(* Mistake: the dialogs of deleted events are not cancelled.               *)
DeletedNotCancelled ==
  /\ Phase("deleted", S_DELETED, "cleanup", DeletedStep)
  /\ UNCHANGED <<statusVars, peerVars>>

RethinkDeleted ==
  /\ Phase("deleted", S_DELETED, "cleanup", DeletedStep)
  /\ CancelDialogs(InState(S_DELETED))
  /\ UNCHANGED <<statusVars, answers, views, iconShown>>

(* queue_cleanup_deleted, which also removes disabled events, and the end  *)
(* of the loop's body.                                                     *)
Kept == {c \in DOMAIN ev : ev[c].state \notin {S_DELETED, S_FINALIZED}}

(* Mistake: the mark is not cleared before the next pass.                  *)
CleanupStaysDirty ==
  /\ pc = "cleanup"
  /\ ev' = [c \in Kept |-> ev[c]]
  /\ pc' = IF dirty THEN "new" ELSE "finish"
  /\ UNCHANGED <<dirty, queueVars, timerVars, clockVars, zoneVars, stateVars,
                 statusVars, peerVars, disk>>

RethinkCleanup ==
  /\ pc = "cleanup"
  /\ ev' = [c \in Kept |-> ev[c]]
  /\ dirty' = FALSE
  /\ pc' = IF dirty THEN "new" ELSE "finish"
  /\ UNCHANGED <<queueVars, timerVars, clockVars, zoneVars, stateVars,
                 statusVars, peerVars, disk>>

-----------------------------------------------------------------------------
(* After the loop: peers that came back are synchronised, a power up asked *)
(* for by the user is passed to dsme, the status is broadcast and a save   *)
(* requested.                                                              *)
ActiveAlarms ==
  Cardinality(InState(S_WAITSYSUI) \cup InState(S_SYSUI_REQ) \cup InState(S_SYSUI_ACK)
              \cup {c \in InState(S_LIMBO) :
                      "ACT_DEAD" \in flags /\ Needs(ev[c], "ACTDEAD")})

(* server_state_sync: services that were away and are back.                *)
Returned == dn \cap up
ZoneNews == "CLOCKD" \in Returned /\ tz # tzPrev

ServerStateSync ==
  /\ dn' = dn \ Returned
  /\ tzCurr' = IF "CLOCKD" \in Returned THEN tz ELSE tzCurr
  /\ rethink' = IF ZoneNews THEN Requested ELSE rethink

(* ipc_dsme_req_powerup is called if there is a dsme to hear it.            *)
Powerup == "SEND_POWERUP" \in flags /\ "DSME" \in up

(* server_queuestate_sync: differences to what was broadcast last are      *)
(* broadcast; those who are back get it again.                             *)
QueuestateSync(status) ==
  LET previous == IF Returned \cap Listeners # {} THEN Invalidated(qsPrev) ELSE qsPrev
      shown    == IF "STATUSBAR" \in Returned THEN -1 ELSE iconsPrev
  IN
  /\ qsPrev' = status
  /\ views' = IF previous # status
              THEN [s \in Listeners |-> IF s \in up THEN status ELSE views[s]]
              ELSE views
  /\ iconsPrev' = IF "STATUSBAR" \in up THEN icons ELSE shown
  /\ iconShown' = IF "STATUSBAR" \in up /\ shown # icons
                     /\ (icons = 0 \/ shown <= 0)
                  THEN icons > 0 ELSE iconShown

RethinkFinish ==
  LET status == [qs EXCEPT !.alarms = ActiveAlarms]
  IN
  /\ pc = "finish"
  /\ ServerStateSync
  /\ flags' = ((IF ZoneNews THEN flags \cup {"TZ_CHANGED"} ELSE flags)
                 \ (IF Powerup THEN {"SEND_POWERUP"} ELSE {}))
                 \ {"CLK_BCAST"}
  /\ disk' = IF Powerup THEN Snapshot ELSE disk
  /\ save' = TRUE
  /\ qs' = status /\ QueuestateSync(status)
  /\ pc' = "idle"
  /\ UNCHANGED <<ev, queueVars, dirty, wakeup, limboTimer, clockVars, tz, tzPrev,
                 up, icons, rtc, dialogs, answers>>

RethinkStep ==
  \/ RethinkNew \/ RethinkWaitconn \/ RethinkTimechange \/ RethinkQueued
  \/ RethinkMissed \/ RethinkPostponed \/ RethinkLimbo \/ RethinkTriggered
  \/ RethinkWaitsysui \/ RethinkSysuiReq \/ RethinkSysuiAck \/ RethinkSysuiRsp
  \/ RethinkSnoozed \/ RethinkServed \/ RethinkRecurring \/ RethinkDeleted
  \/ RethinkCleanup \/ RethinkFinish
=============================================================================
