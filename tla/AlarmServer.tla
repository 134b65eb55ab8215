---------------------------- MODULE AlarmServer ----------------------------
(***************************************************************************)
(* The alarmd process: its D-Bus and timer handlers around the rethink     *)
(* loop, with the clients, the peer services, the user and the clocks as   *)
(* its environment.                                                        *)
(***************************************************************************)
EXTENDS Rethink

CONSTANTS
  Kinds,        (* what clients ask for                                    *)
  SnoozeVals,   (* arguments of the snooze_set method                      *)
  Buttons,      (* answers of a dialog, -1 when it was not answered        *)
  Zones,        (* offsets of the zones the user may select                *)
  Jumps,        (* changes of the system clock                             *)
  Churn,        (* services that may stop and start                        *)
  Stimuli,      (* names of the environment's actions that may happen      *)
  InitUp,       (* possible sets of services at startup                    *)
  InitFlags,    (* possible startup values of ACT_DEAD and DESKTOP_UP      *)
  WaitState,    (* server_limbo_wait_state                                 *)
  QuickRestart, (* may a service return before the daemon saw it gone      *)
  Prompt,       (* do due timers and messages run before time passes       *)
  MaxTime,      (* the clock stops here ...                                *)
  Busy,         (* ... and the environment stays quiet from here on        *)
  MaxDelta      (* bound of the accumulated clock changes                  *)

ASSUME EnvironmentConstants ==
  /\ Kinds \subseteq Kind /\ \A k \in Kinds : k.how = "abs" => k.at > 0
  /\ SnoozeVals \subseteq Nat
  /\ Buttons \subseteq Int
  /\ Zones \subseteq Int /\ Zones # {}
  /\ Jumps \subseteq Int
  /\ Churn \subseteq Services
  /\ InitUp \subseteq SUBSET Services
  /\ InitFlags \subseteq SUBSET {"ACT_DEAD", "DESKTOP_UP"}
  /\ WaitState \in {"disabled", "home", "hildon", "startup"}
  /\ QuickRestart \in BOOLEAN /\ Prompt \in BOOLEAN
  /\ MaxTime \in Nat /\ Busy \in Nat /\ MaxDelta \in Nat

(* A stimulus may arrive whenever the main loop is waiting.                *)
May(name) == name \in Stimuli /\ pc = "idle" /\ mono <= Busy

-----------------------------------------------------------------------------
(* Requests of clients.                                                    *)

(* event_add: the queue gives out the next cookie; a trigger in the past   *)
(* is refused, and the loop is requested either way.                       *)
(* Mistake: the cookie is given out before it is counted up.               *)
InsertUncounted(q, k) ==
  LET t == InitialTrigger(k, Wall, tzCurr) IN
  IF t >= Wall
  THEN /\ lastCookie' = lastCookie + 1
       /\ ev' = [c \in DOMAIN q \cup {lastCookie} |->
                   IF c = lastCookie THEN FreshEvent(k, t) ELSE q[c]]
  ELSE lastCookie' = lastCookie /\ ev' = q

Insert(q, k) ==
  LET t == InitialTrigger(k, Wall, tzCurr) IN
  IF t >= Wall
  THEN /\ lastCookie' = lastCookie + 1
       /\ ev' = [c \in DOMAIN q \cup {lastCookie + 1} |->
                   IF c = lastCookie + 1 THEN FreshEvent(k, t) ELSE q[c]]
  ELSE lastCookie' = lastCookie /\ ev' = q

Deleting(c) == IF c \in DOMAIN ev
               THEN [ev EXCEPT ![c].state = S_DELETED] ELSE ev

HandlerFrame == UNCHANGED <<snooze, pc, dirty, wakeup, save, limboTimer, clockVars,
                            statusVars, disk>>

EventAdd(k) ==
  /\ May("add") /\ lastCookie < Cookies
  /\ Insert(ev, k)
  /\ RethinkRequest
  /\ HandlerFrame /\ UNCHANGED <<zoneVars, stateVars, peerVars>>

EventUpdate(c, k) ==
  /\ May("update") /\ lastCookie < Cookies
  /\ Insert(Deleting(c), k)
  /\ RethinkRequest
  /\ HandlerFrame /\ UNCHANGED <<zoneVars, stateVars, peerVars>>

EventDel(c) ==
  /\ May("del")
  /\ ev' = Deleting(c)
  /\ RethinkRequest
  /\ HandlerFrame /\ UNCHANGED <<lastCookie, zoneVars, stateVars, peerVars>>

(* queue_set_snooze keeps values of up to one day.                         *)
SnoozeSet(s) ==
  /\ May("snooze")
  /\ snooze' = IF s \in 1 .. Day THEN s ELSE DefaultSnooze
  /\ RequestSave
  /\ UNCHANGED <<ev, lastCookie, pc, dirty, rethink, wakeup, limboTimer, clockVars,
                 zoneVars, stateVars, statusVars, peerVars, disk>>

(* Clear user data: no state change of the events is acted upon.           *)
ClearUserData ==
  /\ May("CUD")
  /\ snooze' = DefaultSnooze
  /\ ev' = NoEvents
  /\ ForcedSave([ev |-> ev', snooze |-> snooze'])
  /\ UNCHANGED <<lastCookie, pc, dirty, rethink, wakeup, limboTimer, clockVars,
                 zoneVars, stateVars, statusVars, peerVars>>

RestoreFactorySettings ==
  /\ May("RFS")
  /\ snooze' = DefaultSnooze
  /\ ForcedSave([ev |-> ev, snooze |-> snooze'])
  /\ UNCHANGED <<ev, lastCookie, pc, dirty, rethink, wakeup, limboTimer, clockVars,
                 zoneVars, stateVars, statusVars, peerVars>>

(* The save_data signal of dsme.                                           *)
SaveData ==
  /\ May("save_data")
  /\ ForcedSave(Snapshot)
  /\ UNCHANGED <<ev, queueVars, pc, dirty, rethink, wakeup, limboTimer, clockVars,
                 zoneVars, stateVars, statusVars, peerVars>>

-----------------------------------------------------------------------------
(* System ui: it acknowledges a dialog, and the user's answers to dialogs  *)
(* are messages on their way.                                              *)
EventInState(c, s) ==
  IF c \in DOMAIN ev THEN [ev EXCEPT ![c] = SetState(Cell(@), s).e] ELSE ev

QueueAck(c) ==
  /\ May("ack") /\ c \in dialogs
  /\ ev' = EventInState(c, S_SYSUI_ACK)
  /\ RethinkRequest
  /\ HandlerFrame /\ UNCHANGED <<lastCookie, zoneVars, stateVars, peerVars>>

UserAnswers(c, button, powerup) ==
  /\ May("answer") /\ c \in dialogs
  /\ powerup => "powerup" \in Stimuli /\ button # -1
  /\ dialogs' = dialogs \ {c}
  /\ answers' = answers \cup {[cookie |-> c, button |-> button, powerup |-> powerup]}
  /\ UNCHANGED <<ev, queueVars, pc, dirty, timerVars, clockVars, zoneVars,
                 stateVars, statusVars, views, iconShown, disk>>

(* Mistake: an answer to an event that is gone is dropped half way.        *)
EventAckOfKnown(m) ==
  LET q == EventInState(m.cookie, S_SYSUI_RSP) IN
  /\ pc = "idle"
  /\ answers' = answers \ {m}
  /\ ev' = IF m.cookie \in DOMAIN q
           THEN [q EXCEPT ![m.cookie].response = m.button] ELSE q
  /\ flags' = IF m.powerup THEN flags \cup {"SEND_POWERUP"} ELSE flags
  /\ rethink' = IF m.cookie \in DOMAIN q THEN Requested ELSE rethink
  /\ HandlerFrame
  /\ UNCHANGED <<lastCookie, zoneVars, up, dn, dialogs, views, iconShown>>

EventAck(m) ==
  LET q == EventInState(m.cookie, S_SYSUI_RSP) IN
  /\ pc = "idle"
  /\ answers' = answers \ {m}
  /\ ev' = IF m.cookie \in DOMAIN q
           THEN [q EXCEPT ![m.cookie].response = m.button] ELSE q
  /\ flags' = IF m.powerup THEN flags \cup {"SEND_POWERUP"} ELSE flags
  /\ RethinkRequest
  /\ HandlerFrame
  /\ UNCHANGED <<lastCookie, zoneVars, up, dn, dialogs, views, iconShown>>

-----------------------------------------------------------------------------
(* Signals of the other services.                                          *)

(* A service leaves or enters the bus.  What it showed is lost with it;    *)
(* system ui's last answers arrive before the news that it left.           *)
NameLost(s) ==
  /\ May("names") /\ s \in Churn \cap up
  /\ s = "SYSTEMUI" => answers = {}
  /\ SetState3(flags, up \ {s}, dn \cup {s})
  /\ dialogs' = IF s = "SYSTEMUI" THEN {} ELSE dialogs
  /\ views' = IF s \in Listeners THEN [views EXCEPT ![s] = NoView] ELSE views
  /\ iconShown' = IF s = "STATUSBAR" THEN FALSE ELSE iconShown
  /\ HandlerFrame /\ UNCHANGED <<ev, lastCookie, zoneVars, answers>>

NameGained(s) ==
  /\ May("names") /\ s \in Churn \ up
  /\ QuickRestart \/ rethink = Never
  /\ SetState3(flags, up \cup {s}, dn)
  /\ HandlerFrame /\ UNCHANGED <<ev, lastCookie, zoneVars, peerVars>>

(* Mistake: the flag is raised and no one told.                            *)
LimboDisabledQuietly ==
  /\ limboTimer' = FALSE
  /\ flags' = flags \cup {"DESKTOP_UP"} /\ UNCHANGED <<up, dn, rethink>>

LimboDisabled ==
  /\ limboTimer' = FALSE
  /\ SetFlags({"DESKTOP_UP"})

LimboFrame == UNCHANGED <<ev, queueVars, pc, dirty, wakeup, save, clockVars,
                          zoneVars, statusVars, peerVars, disk>>

InitDone == May("desktop") /\ LimboDisabled /\ LimboFrame

HildonReady ==
  /\ May("desktop") /\ WaitState = "hildon"
  /\ LimboDisabled
  /\ LimboFrame

HomeReady ==
  /\ May("desktop")
  /\ IF WaitState = "home" THEN LimboDisabled
     ELSE /\ limboTimer' = (limboTimer \/ "DESKTOP_UP" \notin flags)
          /\ UNCHANGED <<stateVars, rethink>>
  /\ LimboFrame

LimboTimeout == pc = "idle" /\ limboTimer /\ LimboDisabled /\ LimboFrame

IcdStatus ==
  /\ May("icd")
  /\ SetState3((flags \ {"CONNECTED"}) \cup ({"CONNECTED"} \ flags), up, dn)
  /\ HandlerFrame /\ UNCHANGED <<ev, lastCookie, zoneVars, peerVars>>

(* The time change signal of clockd; clk tells whether the clock was set.  *)
TimeChange(clkSet) ==
  /\ May("clockd")
  /\ tzCurr' = tz
  /\ SetFlags({"CLK_BCAST"} \cup (IF tz # tzPrev THEN {"TZ_CHANGED"} ELSE {})
                            \cup (IF clkSet THEN {"CLK_CHANGED"} ELSE {}))
  /\ HandlerFrame /\ UNCHANGED <<ev, lastCookie, tz, tzPrev, peerVars>>

-----------------------------------------------------------------------------
(* Timers of the main loop.                                                *)
(* Mistake: the wakeup only clears itself.                                 *)
WakeupForgets ==
  /\ pc = "idle" /\ wakeup.due # Never /\ mono >= wakeup.due
  /\ wakeup' = NoWakeup
  /\ UNCHANGED <<ev, queueVars, pc, dirty, rethink, save, limboTimer, clockVars, zoneVars,
                 stateVars, statusVars, peerVars, disk>>

WakeupFires ==
  /\ pc = "idle" /\ wakeup.due # Never /\ mono >= wakeup.due
  /\ wakeup' = NoWakeup
  /\ RethinkRequest
  /\ UNCHANGED <<ev, queueVars, pc, dirty, save, limboTimer, clockVars, zoneVars,
                 stateVars, statusVars, peerVars, disk>>

(* Left out of instances that do not ask about the queue file.             *)
SaveFires ==
  /\ pc = "idle" /\ save /\ "save" \in Stimuli
  /\ ForcedSave(Snapshot)
  /\ UNCHANGED <<ev, queueVars, pc, dirty, rethink, wakeup, limboTimer, clockVars,
                 zoneVars, stateVars, statusVars, peerVars>>

(* The clocks and the time zone of the device.                             *)
ClockFrame == UNCHANGED <<ev, queueVars, pc, dirty, timerVars, clk, now, stateVars,
                          statusVars, peerVars, disk>>

Pending == answers # {} \/ \E due \in {rethink, wakeup.due} \ {Never} : mono >= due

Tick ==
  /\ pc = "idle" /\ mono < MaxTime
  /\ Prompt => ~Pending
  /\ mono' = mono + 1
  /\ ClockFrame /\ UNCHANGED <<delta, zoneVars>>

ClockJump(j) ==
  /\ May("jump") /\ delta + j \in -MaxDelta .. MaxDelta /\ Wall + j >= 0
  /\ delta' = delta + j
  /\ ClockFrame /\ UNCHANGED <<mono, zoneVars>>

ZoneChange(z) ==
  /\ May("zone") /\ z # tz
  /\ tz' = z
  /\ ClockFrame /\ UNCHANGED <<mono, delta, tzCurr, tzPrev>>

-----------------------------------------------------------------------------
(* server_init with an empty queue file.                                   *)
Init ==
  /\ ev = NoEvents /\ lastCookie = 0 /\ snooze = DefaultSnooze
  /\ disk = Snapshot
  /\ pc = "idle" /\ dirty = FALSE /\ now = 0
  /\ mono = 0 /\ delta = 0
  /\ clk = [initialized |-> FALSE, clock |-> 0, sched |-> 0, until |-> 0,
            forw |-> 0, back |-> 0]
  /\ rethink = mono /\ wakeup = NoWakeup /\ save = FALSE /\ limboTimer = FALSE
  /\ tz \in Zones /\ tzCurr = tz /\ tzPrev = tz
  /\ flags \in InitFlags
  /\ WaitState = "disabled" => "DESKTOP_UP" \in flags
  /\ up \in InitUp /\ dn = Services
  /\ qs = EmptyStatus /\ qsPrev = NoView
  /\ icons = 0 /\ iconsPrev = -1 /\ rtc = INT_MAX
  /\ dialogs = {} /\ answers = {} /\ iconShown = FALSE
  /\ views = [s \in Listeners |-> NoView]

ClientStep ==
  \/ \E k \in Kinds : EventAdd(k) \/ \E c \in 1 .. lastCookie : EventUpdate(c, k)
  \/ \E c \in DOMAIN ev : EventDel(c)
  \/ \E s \in SnoozeVals : SnoozeSet(s)
  \/ ClearUserData \/ RestoreFactorySettings \/ SaveData

UserStep ==
  \/ \E c \in dialogs : QueueAck(c)
  \/ \E c \in dialogs, b \in Buttons, p \in BOOLEAN : UserAnswers(c, b, p)
  \/ \E m \in answers : EventAck(m)

SignalStep ==
  \/ \E s \in Churn : NameLost(s) \/ NameGained(s)
  \/ InitDone \/ HildonReady \/ HomeReady \/ IcdStatus
  \/ \E b \in BOOLEAN : TimeChange(b)

ClockStep == Tick \/ (\E j \in Jumps : ClockJump(j)) \/ (\E z \in Zones : ZoneChange(z))

TimerStep == RethinkUnstable \/ RethinkStart \/ WakeupFires \/ SaveFires \/ LimboTimeout

Next == RethinkStep \/ TimerStep \/ ClientStep \/ UserStep \/ SignalStep \/ ClockStep

Spec == Init /\ [][Next]_vars

(* The main loop serves its sources: the loop's functions run, a callback  *)
(* that is due runs, messages are handled.  Time passes, however much is   *)
(* asked of the daemon: it is strongly fair because the environment could  *)
(* otherwise act for ever within one second.                               *)
RethinkTimer == RethinkStart \/ RethinkUnstable

Fairness ==
  /\ WF_vars(RethinkStep) /\ WF_vars(RethinkTimer)
  /\ WF_vars(WakeupFires) /\ WF_vars(SaveFires)
  /\ WF_vars(\E m \in answers : EventAck(m))
  /\ SF_vars(Tick)

FairSpec == Spec /\ Fairness

-----------------------------------------------------------------------------
(* Properties.                                                             *)

QueueOK ==
  /\ lastCookie \in 0 .. Cookies /\ snooze \in Nat
  /\ DOMAIN ev \subseteq 1 .. lastCookie /\ ev \in [DOMAIN ev -> Event]

LoopOK == pc \in Places /\ dirty \in BOOLEAN /\ now \in Int

TimersOK ==
  /\ rethink \in Nat \cup {Never}
  /\ wakeup \in [time : Int, due : Int]
  /\ save \in BOOLEAN /\ limboTimer \in BOOLEAN

ClocksOK ==
  /\ mono \in Nat /\ delta \in Int
  /\ clk \in [initialized : BOOLEAN, clock : Int, sched : Int, until : Int,
             forw : Int, back : Int]

ZonesOK == tz \in Zones /\ tzCurr \in Zones /\ tzPrev \in Zones

FlagsOK ==
  flags \in SUBSET StateFlags /\ up \in SUBSET Services /\ dn \in SUBSET Services

StatusOK ==
  /\ qs \in QueueStatus /\ qsPrev \in QueueStatus
  /\ icons \in Int /\ iconsPrev \in Int /\ rtc \in Int

PeersOK ==
  /\ dialogs \in SUBSET (1 .. Cookies)
  /\ answers \in SUBSET [cookie : 1 .. Cookies, button : Buttons, powerup : BOOLEAN]
  /\ views \in [Listeners -> QueueStatus] /\ iconShown \in BOOLEAN

Typed == /\ QueueOK /\ LoopOK /\ TimersOK /\ ClocksOK /\ ZonesOK /\ FlagsOK
         /\ StatusOK /\ PeersOK

(* No dialog or answer has a cookie that the queue did not hand out yet.   *)
HandedOut ==
  \A c \in dialogs \cup {m.cookie : m \in answers} : c <= lastCookie

(* Every variable keeps its type; in particular no cookie of a dialog or   *)
(* of an answer is one the queue never handed out.                         *)
TypeOK == Typed /\ HandedOut

(* The daemon is at rest: no rethink runs or is going to.                  *)
Quiescent == pc = "idle" /\ rethink = Never

(* What the loop has nothing more to do with.                              *)
Settled(e) ==
  \/ e.state = S_WAITCONN /\ ~Connected
  \/ e.state = S_QUEUED /\ ~Offline(e) /\ e.trigger > now
  \/ e.state = S_LIMBO /\ ~MayLeaveLimbo(e)
  \/ e.state = S_WAITSYSUI /\ ~SysuiUp
  \/ e.state \in {S_SYSUI_REQ, S_SYSUI_ACK} /\ SysuiUp

(* Whatever mix of requests, signals and timers arrived, a daemon at rest  *)
(* has no event its state machine could move: no flag change, dialog       *)
(* answer or client request is left without a rethink, and the loop does   *)
(* not stop before its last event is settled.                              *)
NoWorkLeftBehind ==
  Quiescent => \A c \in DOMAIN ev : Visible(ev[c]) => Settled(ev[c])

(* Where the loop stands: the states below Pos(pc) have been dealt with in *)
(* this pass.                                                              *)
Pos(p) ==
  CASE p = "new" -> S_NEW              [] p = "waitconn" -> S_WAITCONN
    [] p = "timechange" -> S_QUEUED    [] p = "queued" -> S_QUEUED
    [] p = "missed" -> S_MISSED        [] p = "postponed" -> S_POSTPONED
    [] p = "limbo" -> S_LIMBO          [] p = "triggered" -> S_TRIGGERED
    [] p = "waitsysui" -> S_WAITSYSUI  [] p = "sysui_req" -> S_SYSUI_REQ
    [] p = "sysui_ack" -> S_SYSUI_ACK  [] p = "sysui_rsp" -> S_SYSUI_RSP
    [] p = "snoozed" -> S_SNOOZED      [] p = "served" -> S_SERVED
    [] p = "recurring" -> S_RECURRING  [] p = "deleted" -> S_DELETED
    [] p = "cleanup" -> S_DELETED      [] OTHER -> S_FINALIZED + 1

(* A pass that is not going to be repeated has settled every event in a    *)
(* state it has gone past: moving an event backwards, be it by a snooze    *)
(* action of any kind, marks the queue dirty.                              *)
PassInv ==
  pc # "idle" /\ ~dirty =>
    \A c \in DOMAIN ev :
      Visible(ev[c]) /\ ev[c].state < Pos(pc) => Settled(ev[c])

(* While the clock stays within the jitter the stability check tolerates,  *)
(* an alarm that waits has a wakeup pending, at most twice the jitter late: *)
(* a wakeup that was kept, dropped or moved never loses a trigger time.    *)
WakeupCovers ==
  Quiescent /\ clk.initialized /\ delta - clk.clock \in -CLK_JITTER .. CLK_JITTER
  => \A c \in InState(S_QUEUED) :
       ev[c].trigger < INT_MAX =>
         /\ wakeup.due # Never
         /\ wakeup.due + delta <= ev[c].trigger + 2 * CLK_JITTER

(* System ui and the queue agree: whoever waits for the user has a dialog  *)
(* on the screen or an answer on its way, and no dialog is left on the     *)
(* screen for an alarm that does not wait for it.                          *)
DialogsMatch ==
  Quiescent =>
    LET asking == InState(S_SYSUI_REQ) \cup InState(S_SYSUI_ACK)
    IN  /\ asking \subseteq dialogs \cup {m.cookie : m \in answers}
        /\ dialogs \subseteq asking

(* dsme and mce, which decide about powering the device up and down, know  *)
(* the number of active alarms and the nearest trigger times; the status   *)
(* bar icon shows whether an alarm that asked for it is queued.            *)
StatusFresh ==
  Quiescent =>
    /\ \A s \in Listeners \cap up :
         /\ views[s].alarms = ActiveAlarms
         /\ Lowest(TimesOf("desktop"), views[s].desktop)
         /\ Lowest(TimesOf("actdead"), views[s].actdead)
         /\ Lowest(TimesOf("no_boot"), views[s].no_boot)
    /\ "STATUSBAR" \in up =>
         (iconShown <=> \E c \in Waiting : Needs(ev[c], "SHOW_ICON"))

(* With no save pending, the queue file holds the queue.                   *)
Durable == Quiescent /\ ~save => disk = Snapshot

(* A simple recurrence keeps its phase: through snoozing, being missed and *)
(* clock changes, an absolute alarm recurs at multiples of its period from *)
(* the time the client asked for.  (POSTPONE_DELAYED alarms do not.)       *)
PhaseKept ==
  \A c \in DOMAIN ev :
    LET e == ev[c] IN
    /\ e.kind.how = "abs" /\ e.kind.recur > 0 /\ ~Needs(e, "POSTPONE_DELAYED")
    /\ e.count # 0
    => ((IF e.snoozed # 0 THEN e.snoozed ELSE e.trigger) - e.kind.at)
         % e.kind.recur = 0

(* The trigger times the loop computes for postponed, snoozed and          *)
(* recurring alarms lie ahead: no alarm is queued into the past.           *)
TriggersAhead ==
  [][\A c \in DOMAIN ev \cap DOMAIN ev' :
       pc \in {"postponed", "snoozed", "recurring"}
         /\ ev'[c].trigger # ev[c].trigger
       => ev'[c].trigger > now]_vars

(* With timers that run when they are due and a clock that is not set, no  *)
(* alarm is missed: the chain of capped software wakeups has no gap.       *)
NoneMissed == InState(S_MISSED) = {}

(* An alarm given by the clock on the wall stays at that time of day: once *)
(* the news of a zone change was handled, whatever else was queued, jumped *)
(* or changed meanwhile, its trigger is its time in the current zone.      *)
AtLocalTime(e) ==
  e.kind.how = "date" /\ e.snoozed = 0 /\ ~Needs(e, "POSTPONE_DELAYED")
  => e.trigger = e.kind.at - tzCurr

LocalTimeKept ==
  Quiescent /\ tz = tzPrev =>
    \A c \in InState(S_QUEUED) : Needs(ev[c], "BACK_RESCHEDULE") => AtLocalTime(ev[c])

(* Nothing reaches the user before there is someone to see it: a dialog is *)
(* up only when the desktop is, and in acting dead only for an alarm that  *)
(* may be shown there, however the alarm came by it.                       *)
LimboHolds ==
  \A c \in dialogs \cap DOMAIN ev :
    "DESKTOP_UP" \in flags /\ ("ACT_DEAD" \in flags => Needs(ev[c], "ACTDEAD"))

(* Every rethink comes to an end.                                          *)
RethinkTerminates == pc # "idle" ~> pc = "idle"

(* An alarm whose time has come does not stay in the queue.                *)
DueIsHandled ==
  \A c \in 1 .. Cookies :
    (c \in InState(S_QUEUED) /\ ev[c].trigger < MaxTime - MaxDelta - CLK_STABLE)
      ~> ~(c \in InState(S_QUEUED) /\ ev[c].trigger <= Wall)

(* The user's wish to power up reaches dsme unless dsme stays away.        *)
PowerupSent == "SEND_POWERUP" \in flags ~> ("SEND_POWERUP" \notin flags \/ "DSME" \notin up)

(* The announcement of a time change is never forgotten.                   *)
TimeChangeAnnounced == "CLK_BCAST" \in flags ~> "CLK_BCAST" \notin flags

-----------------------------------------------------------------------------
(* What comments and documents say of the program, and it does not do.     *)

(* libalarm.h: an alarm that needs the internet runs only when there is a  *)
(* connection.                                                             *)
OnlineOnly ==
  [][\A c \in InState(S_LIMBO) \cap DOMAIN ev' :
       ev'[c].state = S_TRIGGERED => ~Offline(ev[c])]_vars
=============================================================================
