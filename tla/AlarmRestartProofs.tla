------------------------- MODULE AlarmRestartProofs -------------------------
(***************************************************************************)
(* What the server promises with a daemon that dies at any point and is    *)
(* started again, for every value of the constants and any number of       *)
(* restarts: the invariants of the single process hold from one process to *)
(* the next, and what the restart itself must not lose is not lost.        *)
(***************************************************************************)
EXTENDS AlarmRestart, AlarmPeerProofs

-----------------------------------------------------------------------------
(* The queue file.                                                         *)

(* What every queue the daemon writes looks like; of Kinds, because the    *)
(* file holds only what a client once asked for.                           *)
Storable(q) ==
  /\ q.ev \in [DOMAIN q.ev -> Event] /\ DOMAIN q.ev \subseteq 1 .. Cookies
  /\ q.snooze \in Nat
  /\ \A c \in DOMAIN q.ev : q.ev[c].kind \in Kinds

FileInv == Storable(disk) /\ KindsKnown

(* The file is written from the queue as it is, or as a step leaves it.    *)
LEMMA FileWritten ==
  ASSUME [Next]_vars
  PROVE  disk' \in {disk, Snapshot, Snapshot'}
<1>1. CASE RethinkStep
  <2>1. CASE RethinkFinish
    BY <2>1 DEF RethinkFinish
  <2>2. CASE ~RethinkFinish
    BY <1>1, <2>2 DEF RethinkStep, RethinkNew, RethinkWaitconn, RethinkTimechange,
       RethinkQueued, RethinkMissed, RethinkPostponed, RethinkLimbo, RethinkTriggered,
       RethinkWaitsysui, RethinkSysuiReq, RethinkSysuiAck, RethinkSysuiRsp, RethinkSnoozed,
       RethinkServed, RethinkRecurring, RethinkDeleted, RethinkCleanup, Phase, PassOver
  <2> QED BY <2>1, <2>2
<1>2. CASE TimerStep
  BY <1>2 DEF TimerStep, RethinkUnstable, RethinkStart, WakeupFires, SaveFires, ForcedSave,
              LimboTimeout, LimboFrame
<1>3. CASE ClientStep
  BY <1>3 DEF ClientStep, EventAdd, EventUpdate, EventDel, SnoozeSet, RequestSave, ClearUserData,
              RestoreFactorySettings, SaveData, ForcedSave, HandlerFrame, Snapshot
<1>4. CASE UserStep
  BY <1>4 DEF UserStep, QueueAck, UserAnswers, EventAck, HandlerFrame
<1>5. CASE SignalStep
  BY <1>5 DEF SignalStep, NameLost, NameGained, InitDone, HildonReady, HomeReady, IcdStatus,
              TimeChange, LimboFrame, HandlerFrame
<1>6. CASE ClockStep
  BY <1>6 DEF ClockStep, Tick, ClockJump, ZoneChange, ClockFrame
<1>7. CASE UNCHANGED vars
  BY <1>7 DEF vars
<1> QED BY <1>1, <1>2, <1>3, <1>4, <1>5, <1>6, <1>7 DEF Next

LEMMA SnapshotStorable ==
  ASSUME Typed, KindsKnown
  PROVE  Storable(Snapshot)
<1>1. Snapshot.ev = ev /\ Snapshot.snooze = snooze
  BY DEF Snapshot
<1>2. DOMAIN ev \subseteq 1 .. Cookies
  BY ServerConstants DEF Typed, QueueOK
<1> QED BY <1>1, <1>2 DEF Typed, QueueOK, KindsKnown, Storable

LEMMA FileStep == IInv /\ IInv' /\ FileInv /\ [Next]_vars => FileInv'
<1> SUFFICES ASSUME IInv, IInv', FileInv, [Next]_vars PROVE FileInv'
  OBVIOUS
<1>1. KindsKnown /\ KindsKnown' /\ Typed /\ Typed'
  BY KindsStep DEF FileInv, IInv
<1>2. Storable(Snapshot)
  BY <1>1, SnapshotStorable
<1>3. Storable(Snapshot)'
  <2>1. (Typed /\ KindsKnown => Storable(Snapshot))'
    BY SnapshotStorable, PTL
  <2> QED BY <1>1, <2>1
<1>4. Storable(disk')
  BY <1>2, <1>3, FileWritten DEF FileInv, Storable, Snapshot
<1> QED BY <1>1, <1>4 DEF FileInv, Storable

-----------------------------------------------------------------------------
(* A new process.                                                          *)

LEMMA ReloadedKeeps ==
  ASSUME NEW e \in Event
  PROVE  /\ Reloaded(e) \in Event /\ Reloaded(e).kind = e.kind
         /\ Reloaded(e).disabled = e.disabled /\ SameTimes(e, Reloaded(e))
         /\ Reloaded(e).state = IF Rang(e) THEN S_LIMBO ELSE S_NEW
<1> DEFINE s == IF Rang(e) THEN S_LIMBO ELSE S_NEW
<1>1. s \in States
  BY DEF States, S_NEW, S_LIMBO, S_FINALIZED
<1>2. Reloaded(e) = [e EXCEPT !.response = -1, !.state = s]
  BY DEF Reloaded
<1> HIDE DEF s
<1> DEFINE d == [e EXCEPT !.response = -1]
<1>3. d \in Event /\ d.kind = e.kind /\ d.disabled = e.disabled /\ SameTimes(e, d)
  BY DEF Event, SameTimes
<1>4. Reloaded(e) = [d EXCEPT !.state = s]
  BY <1>2
<1> HIDE DEF d
<1>5. /\ Reloaded(e) \in Event /\ Reloaded(e).kind = d.kind
      /\ Reloaded(e).disabled = d.disabled /\ SameTimes(d, Reloaded(e))
      /\ Reloaded(e).state = s
  BY <1>1, <1>3, <1>4 DEF Event, SameTimes
<1> QED BY <1>3, <1>5 DEF s, SameTimes

(* How a new process finds the file and its peers.                         *)
PeersLive == UNCHANGED <<up, dialogs, views, iconShown>>
PeersAnew ==
  dialogs' = {} /\ iconShown' = FALSE /\ views' = [s \in Listeners |-> NoView]

LEMMA RestartStarts ==
  ASSUME Typed, RestartStep
  PROVE  /\ \E shown \in SUBSET StateFlags, present \in SUBSET Services :
              Started(disk', shown, present)
         /\ disk' \in {disk, Snapshot}
         /\ answers' = {} /\ (PeersLive \/ PeersAnew)
         /\ leftover' = dialogs'
         /\ owed' = {c \in DOMAIN disk'.ev : Visible(disk'.ev[c]) /\ Rang(disk'.ev[c])}
<1>1. ASSUME NEW file, ProcessStarted(file)
      PROVE  /\ \E shown \in SUBSET StateFlags, present \in SUBSET Services :
                   Started(file, shown, present)
             /\ answers' = {} /\ PeersLive
  <2>1. PICK desktop \in SUBSET {"DESKTOP_UP"} :
               Started(file, (flags \cap {"ACT_DEAD"}) \cup desktop, up)
    BY <1>1 DEF ProcessStarted
  <2>2. (flags \cap {"ACT_DEAD"}) \cup desktop \in SUBSET StateFlags
    BY DEF StateFlags
  <2>3. up \in SUBSET Services /\ up' = up
    BY <2>1 DEF Typed, FlagsOK, Started
  <2>4. answers' = {} /\ UNCHANGED <<dialogs, views, iconShown>>
    BY <1>1 DEF ProcessStarted
  <2> QED BY <2>1, <2>2, <2>3, <2>4 DEF PeersLive
<1>2. CASE Crash
  <2>1. ProcessStarted(disk) /\ disk' = disk
    BY <1>2 DEF Crash
  <2>2. ProcessStarted(disk')
    BY <2>1
  <2> QED BY <1>1, <2>1, <2>2 DEF RestartStep
<1>3. CASE Terminate
  <2>1. disk' = Snapshot /\ ProcessStarted(disk')
    BY <1>3 DEF Terminate
  <2> QED BY <1>1, <2>1 DEF RestartStep
<1>4. CASE PowerCycle
  <2>1. PICK f \in InitFlags, u \in InitUp : Started(disk, f, u)
    BY <1>4 DEF PowerCycle
  <2>2. f \in SUBSET StateFlags /\ u \in SUBSET Services
    BY EnvironmentConstants DEF StateFlags
  <2>3. disk' = disk /\ answers' = {} /\ PeersAnew
    BY <1>4 DEF PowerCycle, PeersAnew
  <2>4. Started(disk', f, u)
    BY <2>1, <2>3
  <2> QED BY <2>2, <2>3, <2>4 DEF RestartStep
<1> QED BY <1>2, <1>3, <1>4 DEF RestartStep

(* The queue of a new process is the one in the file, to be looked at.     *)
LEMMA RestartQueue ==
  ASSUME Typed, FileInv, RestartStep
  PROVE  /\ Storable(disk')
         /\ DOMAIN ev' = DOMAIN disk'.ev
         /\ \A c \in DOMAIN ev' : disk'.ev[c] \in Event /\ ev'[c] = Reloaded(disk'.ev[c])
         /\ QueueOK' /\ KindsKnown' /\ FileInv'
<1>1. Storable(disk')
  BY RestartStarts, SnapshotStorable DEF FileInv
<1>2. /\ ev' = [c \in DOMAIN disk'.ev |-> Reloaded(disk'.ev[c])]
      /\ Lowest({n \in 0 .. Cookies : DOMAIN disk'.ev \subseteq 0 .. n}, lastCookie')
      /\ snooze' = disk'.snooze
  BY RestartStarts DEF Started
<1>3. \A c \in DOMAIN ev' : disk'.ev[c] \in Event /\ ev'[c] = Reloaded(disk'.ev[c])
  BY <1>1, <1>2 DEF Storable
<1>4. KindsKnown'
  BY <1>1, <1>2, <1>3, ReloadedKeeps DEF KindsKnown, Storable
<1>5. lastCookie' \in 0 .. Cookies /\ DOMAIN ev' \subseteq 1 .. lastCookie'
  <2>1. Cookies \in {n \in 0 .. Cookies : DOMAIN disk'.ev \subseteq 0 .. n}
    BY <1>1, ServerConstants DEF Storable
  <2>2. lastCookie' \in {n \in 0 .. Cookies : DOMAIN disk'.ev \subseteq 0 .. n}
    BY <1>2, <2>1 DEF Lowest
  <2> QED BY <1>1, <1>2, <2>2 DEF Storable
<1>6. QueueOK'
  <2>1. ev' \in [DOMAIN ev' -> Event]
    BY <1>2, <1>3, ReloadedKeeps
  <2> QED BY <1>1, <1>2, <1>5, <2>1 DEF QueueOK, Storable
<1> QED BY <1>1, <1>2, <1>3, <1>4, <1>6 DEF FileInv, Storable

LEMMA RestartTyped ==
  ASSUME Typed, FileInv, RestartStep
  PROVE  /\ Typed' /\ pc' = "idle" /\ rethink' # Never /\ dn' = Services
         /\ up' \subseteq Services /\ wakeup' = NoWakeup /\ delta' = delta /\ now' = 0
         /\ mono \in Nat /\ mono' \in mono .. MaxTime
<1>1. PICK shown \in SUBSET StateFlags, present \in SUBSET Services :
             Started(disk', shown, present)
  BY RestartStarts
<1>2. mono \in Nat /\ delta \in Int /\ mono' \in mono .. MaxTime /\ delta' = delta
  BY <1>1 DEF Typed, ClocksOK, Started
<1>3. mono' \in Nat /\ rethink' = mono' /\ rethink' # Never
  BY <1>1, <1>2, EnvironmentConstants DEF Started, Never
<1>4. LoopOK' /\ pc' = "idle" /\ now' = 0
  <2>1. pc' = "idle" /\ dirty' = FALSE /\ now' = 0
    BY <1>1 DEF Started
  <2>2. pc' \in Places
    BY <2>1 DEF Places
  <2>3. dirty' \in BOOLEAN
    BY <2>1
  <2> QED BY <2>1, <2>2, <2>3 DEF LoopOK
<1>5. TimersOK' /\ wakeup' = NoWakeup
  <2>1. wakeup' = NoWakeup /\ save' = FALSE /\ limboTimer' = FALSE
    BY <1>1 DEF Started
  <2>2. NoWakeup \in [time : Int, due : Int]
    BY TimeConstants DEF NoWakeup, Never
  <2>3. save' \in BOOLEAN /\ limboTimer' \in BOOLEAN
    BY <2>1
  <2> QED BY <1>3, <2>1, <2>2, <2>3 DEF TimersOK
<1>6. ClocksOK'
  <2>1. clk' = [initialized |-> FALSE, clock |-> 0, sched |-> 0, until |-> 0,
                forw |-> 0, back |-> 0]
    BY <1>1 DEF Started
  <2>2. clk' \in [initialized : BOOLEAN, clock : Int, sched : Int, until : Int,
                  forw : Int, back : Int]
    BY <2>1
  <2> QED BY <1>2, <1>3, <2>2 DEF ClocksOK
<1>7. ZonesOK' /\ FlagsOK' /\ dn' = Services /\ up' \subseteq Services
  <2>1. tz' = tz /\ tzCurr' = tz /\ tzPrev' = tz
    BY <1>1 DEF Started
  <2>2. flags' = shown /\ up' = present /\ dn' = Services
    BY <1>1 DEF Started
  <2>3. ZonesOK'
    BY <2>1 DEF Typed, ZonesOK
  <2> QED BY <2>2, <2>3 DEF FlagsOK
<1>8. StatusOK'
  <2>1. NoView \in QueueStatus /\ EmptyStatus \in QueueStatus
    BY TimeConstants DEF NoView, EmptyStatus, Invalidated, QueueStatus
  <2>2. qs' = EmptyStatus /\ qsPrev' = NoView /\ icons' = 0 /\ iconsPrev' = -1 /\ rtc' = rtc
    BY <1>1 DEF Started
  <2> QED BY <2>1, <2>2 DEF Typed, StatusOK
<1>9. PeersOK'
  <2>1. answers' = {} /\ (PeersLive \/ PeersAnew)
    BY RestartStarts
  <2>2. CASE PeersLive
    BY <2>1, <2>2 DEF PeersLive, Typed, PeersOK
  <2>3. CASE PeersAnew
    <3>1. NoView \in QueueStatus
      BY TimeConstants DEF NoView, EmptyStatus, Invalidated, QueueStatus
    <3>2. views' \in [Listeners -> QueueStatus]
      BY <2>3, <3>1 DEF PeersAnew
    <3> QED BY <2>1, <2>3, <3>2 DEF PeersAnew, PeersOK
  <2> QED BY <2>1, <2>2, <2>3
<1> QED BY <1>2, <1>3, <1>4, <1>5, <1>6, <1>7, <1>8, <1>9, RestartQueue DEF Typed

(* The invariant of the process and that of its file, from one process to  *)
(* the next.                                                               *)
RestartInv == IInv /\ FileInv

LEMMA RestartInvStep == RestartInv /\ [RestartNext]_restartVars => RestartInv'
<1> SUFFICES ASSUME RestartInv, [RestartNext]_restartVars PROVE RestartInv'
  OBVIOUS
<1>1. CASE RestartStep
  BY <1>1, RestartTyped, RestartQueue, AskingIInv DEF RestartInv, IInv
<1>2. CASE [Next]_vars
  <2>1. IInv'
    BY <1>2, RethinkIInv, TimerIInv, ClientIInv, UserIInv, SignalIInv, ClockIInv, StutterIInv
       DEF Next, RestartInv
  <2> QED BY <1>2, <2>1, FileStep DEF RestartInv
<1> QED BY <1>1, <1>2 DEF RestartNext, ServerStep, restartVars

LEMMA AlwaysRestartInv == RestartSpec => []RestartInv
<1>1. RestartInit => RestartInv
  <2> SUFFICES ASSUME RestartInit PROVE RestartInv
    OBVIOUS
  <2>1. Init /\ IInv
    BY InitIInv DEF RestartInit
  <2>2. KindsKnown /\ disk = Snapshot
    BY <2>1 DEF Init, KindsKnown, NoEvents
  <2>3. Typed
    BY <2>1 DEF IInv
  <2> QED BY <2>1, <2>2, <2>3, SnapshotStorable DEF RestartInv, FileInv
<1> QED BY <1>1, RestartInvStep, PTL DEF RestartSpec

-----------------------------------------------------------------------------
(* Alarms that rang.                                                       *)

(* What is owed is on its way to the user.                                 *)
OwedInv ==
  \A c \in owed : StaysOwed(c) /\ ev[c].state \in S_LIMBO .. S_WAITSYSUI

LEMMA OwedMoves ==
  ASSUME NEW e, NEW f, Becomes(e, f) \/ Handled(e, f), e.state \in S_LIMBO .. S_WAITSYSUI,
         ~Ringing(e), f.state # S_DELETED, ~Ringing(f)
  PROVE  f.state \in S_LIMBO .. S_WAITSYSUI
<1> USE DEF S_NEW, S_WAITCONN, S_QUEUED, S_MISSED, S_POSTPONED, S_LIMBO, S_TRIGGERED,
            S_WAITSYSUI, S_SYSUI_REQ, S_SYSUI_ACK, S_SYSUI_RSP, S_SNOOZED, S_SERVED,
            S_RECURRING, S_DELETED
<1>1. CASE Handled(e, f)
  BY <1>1 DEF Handled
<1>2. CASE Moves(e, f)
  <2>1. e.state \in {S_LIMBO, S_TRIGGERED, S_WAITSYSUI}
    OBVIOUS
  <2>2. CASE e.state = S_LIMBO
    BY <1>2, <2>2 DEF Moves
  <2>3. CASE e.state = S_TRIGGERED
    <3>1. HasButtons(e)
      BY <2>3 DEF Ringing
    <3> QED BY <1>2, <2>3, <3>1 DEF Moves
  <2>4. CASE e.state = S_WAITSYSUI
    BY <1>2, <2>4 DEF Moves, Ringing
  <2> QED BY <2>1, <2>2, <2>3, <2>4
<1>3. CASE Shifts(e, f)
  BY <1>3 DEF Shifts
<1> QED BY <1>1, <1>2, <1>3 DEF Becomes

LEMMA OwedStep == RestartInv /\ OwedInv /\ [RestartNext]_restartVars => OwedInv'
<1> SUFFICES ASSUME RestartInv, OwedInv, [RestartNext]_restartVars PROVE OwedInv'
  OBVIOUS
<1>0. IInv /\ Typed /\ FileInv
  BY DEF RestartInv, IInv
<1>1. ASSUME RestartStep, NEW c \in owed'
      PROVE  StaysOwed(c)' /\ ev'[c].state \in S_LIMBO .. S_WAITSYSUI
  <2>1. c \in DOMAIN disk'.ev /\ Visible(disk'.ev[c]) /\ Rang(disk'.ev[c])
    BY <1>0, <1>1, RestartStarts
  <2>2. c \in DOMAIN ev' /\ disk'.ev[c] \in Event /\ ev'[c] = Reloaded(disk'.ev[c])
    BY <1>0, <1>1, <2>1, RestartQueue
  <2>3. ev'[c].state = S_LIMBO /\ Visible(ev'[c])
    BY <2>1, <2>2, ReloadedKeeps DEF Visible
  <2> QED BY <2>2, <2>3 DEF StaysOwed, Ringing, S_LIMBO, S_TRIGGERED, S_WAITSYSUI,
                            S_SYSUI_REQ, S_DELETED
<1>2. ASSUME ServerStep, NEW c \in owed'
      PROVE  StaysOwed(c)' /\ ev'[c].state \in S_LIMBO .. S_WAITSYSUI
  <2>1. c \in owed /\ StaysOwed(c)' /\ [Next]_vars
    BY <1>2 DEF ServerStep
  <2>2. c \in DOMAIN ev /\ ~Ringing(ev[c]) /\ ev[c].state \in S_LIMBO .. S_WAITSYSUI
    BY <2>1 DEF OwedInv, StaysOwed
  <2>3. c \in DOMAIN ev' /\ ev'[c].state # S_DELETED /\ ~Ringing(ev'[c])
    BY <2>1 DEF StaysOwed
  <2>4. c # lastCookie + 1
    BY <1>0, <2>2 DEF Typed, QueueOK
  <2>5. ev'[c] = ev[c] \/ Becomes(ev[c], ev'[c]) \/ Handled(ev[c], ev'[c])
    BY <1>0, <2>1, <2>3, <2>4, StepEvents
  <2> QED BY <2>1, <2>2, <2>3, <2>5, OwedMoves
<1>3. CASE UNCHANGED restartVars
  BY <1>3 DEF restartVars, vars, OwedInv, StaysOwed, Visible, Ringing, HasButtons, ActionsOf
<1> QED BY <1>1, <1>2, <1>3 DEF RestartNext, OwedInv

(* An alarm that rang before the daemon died rings again: no restart, at   *)
(* whatever point of a rethink, takes it for missed or queues it anew, and *)
(* no answer to a dialog of the dead daemon, signal or time change makes   *)
(* the new one forget it.                                                  *)
THEOREM RungRingsAgain == RestartSpec => []RingsAgain
<1>1. RestartInit => OwedInv
  BY DEF RestartInit, OwedInv
<1>2. OwedInv => RingsAgain
  BY DEF OwedInv, RingsAgain, StaysOwed
<1> QED BY <1>1, <1>2, OwedStep, AlwaysRestartInv, PTL DEF RestartSpec

-----------------------------------------------------------------------------
(* Dialogs of a daemon that died.                                          *)

LeftInv(L) == HandedOutBut(L) /\ DialogInv(L)

(* A dialog that is gone and answered, or asked for anew, is like any.     *)
LEMMA FewerLeft ==
  ASSUME NEW L, NEW M, Typed, LeftInv(L), \A c \in L \ M : ~StaysLeft(c)
  PROVE  LeftInv(M)
<1>1. \A m \in answers : m.cookie \notin M => m.cookie \notin L
  BY DEF StaysLeft, OnItsWay
<1>2. \A c \in dialogs \ M : c \notin L \/ c \in InState(S_SYSUI_REQ)
  BY DEF StaysLeft
<1>3. \A c \in InState(S_SYSUI_REQ) : c \in DOMAIN ev /\ Visible(ev[c]) /\ ev[c].state \in Asking
  BY DEF InState, Asking
<1>4. \A c \in DOMAIN ev : c <= lastCookie
  BY DEF Typed, QueueOK
<1>5. HandedOutBut(M)
  BY <1>1, <1>2, <1>3, <1>4 DEF LeftInv, HandedOutBut
<1>6. DialogsShown(M)
  BY <1>2, <1>3 DEF LeftInv, DialogInv, DialogsShown
<1>7. AnswersOpen(M)
  <2>1. ASSUME NEW m \in answers, m.cookie \notin M
        PROVE  /\ m.cookie \notin dialogs
               /\ m.cookie \in DOMAIN ev => ev[m.cookie].state \in Asking \cup {S_DELETED}
    BY <1>1, <2>1 DEF LeftInv, DialogInv, AnswersOpen
  <2>2. ASSUME NEW m \in answers, NEW n \in answers, m.cookie = n.cookie, m.cookie \notin M
        PROVE  m = n
    BY <1>1, <2>2 DEF LeftInv, DialogInv, AnswersOpen
  <2> QED BY <2>1, <2>2 DEF AnswersOpen
<1> QED BY <1>5, <1>6, <1>7 DEF LeftInv, DialogInv

LEMMA LeftStep ==
  ASSUME DialogsOwn
  PROVE  RestartInv /\ LeftInv(leftover) /\ [RestartNext]_restartVars => LeftInv(leftover)'
<1> SUFFICES ASSUME RestartInv, LeftInv(leftover), [RestartNext]_restartVars
             PROVE  LeftInv(leftover)'
  OBVIOUS
<1>0. IInv /\ Typed /\ FileInv /\ Typed'
  BY RestartInvStep DEF RestartInv, IInv
<1>1. CASE RestartStep
  <2>1. answers' = {} /\ leftover' = dialogs' /\ (PeersLive \/ PeersAnew)
    BY <1>0, <1>1, RestartStarts
  <2>2. KindsKnown'
    BY <1>0, <1>1, RestartQueue
  <2>3. HandedOutBut(leftover)' /\ DialogsShown(leftover)' /\ AnswersOpen(leftover)'
    BY <2>1 DEF HandedOutBut, DialogsShown, AnswersOpen
  <2>4. NoUi'
    BY <2>1 DEF LeftInv, DialogInv, NoUi, SysuiUp, PeersLive, PeersAnew
  <2>5. ASSUME NEW c \in DOMAIN ev' PROVE ev'[c].state \notin Asking
    <3>1. ev'[c].state \in {S_LIMBO, S_NEW}
      BY <1>0, <1>1, RestartQueue, ReloadedKeeps
    <3> QED BY <3>1 DEF Asking, S_NEW, S_LIMBO, S_SYSUI_REQ, S_SYSUI_ACK
  <2>6. Asked'
    BY <2>5 DEF Asked
  <2> QED BY <2>2, <2>3, <2>4, <2>6 DEF LeftInv, DialogInv
<1>2. CASE ServerStep
  <2>1. PICK L : L = leftover
    OBVIOUS
  <2>2. [Next]_vars /\ leftover' = {c \in leftover : StaysLeft(c)'}
    BY <1>2 DEF ServerStep
  <2>3. LeftInv(L)'
    BY <1>0, <2>1, <2>2, HandedOutStep, DialogStep DEF LeftInv
  <2>4. \A c \in L \ leftover' : ~StaysLeft(c)'
    BY <2>1, <2>2
  <2>5. PICK M : M = leftover'
    OBVIOUS
  <2>6. (Typed /\ LeftInv(L) /\ (\A c \in L \ M : ~StaysLeft(c)) => LeftInv(M))'
    BY FewerLeft, PTL
  <2>7. LeftInv(M)'
    BY <1>0, <2>3, <2>4, <2>5, <2>6
  <2> QED BY <2>5, <2>7 DEF LeftInv, HandedOutBut, DialogInv, DialogsShown, AnswersOpen
<1>3. CASE UNCHANGED restartVars
  <2>1. leftover' = leftover /\ [Next]_vars
    BY <1>3 DEF restartVars
  <2>2. PICK L : L = leftover
    OBVIOUS
  <2>3. LeftInv(L)'
    BY <1>0, <2>1, <2>2, HandedOutStep, DialogStep DEF LeftInv
  <2> QED BY <2>1, <2>2, <2>3 DEF LeftInv, HandedOutBut, DialogInv, DialogsShown, AnswersOpen
<1> QED BY <1>1, <1>2, <1>3 DEF RestartNext

(* System ui and the queue agree, whoever of the two was restarted: the    *)
(* alarms of the new daemon that wait for the user have a dialog or an     *)
(* answer on its way, and the only dialogs without such an alarm are those *)
(* a daemon that died left, until they are asked for anew or are gone.     *)
THEOREM DialogsAgreeAnew ==
  ASSUME DialogsOwn
  PROVE  RestartSpec => []DialogsOwned
<1>1. RestartInit => LeftInv(leftover)
  BY DEF RestartInit, Init, NoEvents, LeftInv, HandedOutBut, DialogInv, DialogsShown, Asked,
         NoUi, AnswersOpen, KindsKnown
<1>2. RestartInv /\ LeftInv(leftover) => DialogsOwned
  <2> SUFFICES ASSUME RestartInv, LeftInv(leftover), Quiescent
               PROVE  LET asking == InState(S_SYSUI_REQ) \cup InState(S_SYSUI_ACK)
                      IN  /\ asking \subseteq dialogs \cup {m.cookie : m \in answers}
                          /\ dialogs \subseteq asking \cup leftover
    BY DEF DialogsOwned
  <2>1. PICK L : L = leftover
    OBVIOUS
  <2>2. IInv /\ DialogInv(L)
    BY <2>1 DEF RestartInv, LeftInv
  <2> QED BY <2>1, <2>2, MatchAtRest DEF Asks
<1> QED BY <1>1, <1>2, LeftStep, AlwaysRestartInv, PTL DEF RestartSpec

-----------------------------------------------------------------------------
(* What holds from one process to the next.                                *)

(* A new process has told its peers nothing, and knows it.                 *)
LEMMA RestartStatus ==
  ASSUME Typed, FileInv, RestartStep
  PROVE  StatusInv'
<1>1. pc' = "idle" /\ dn' = Services /\ up' \subseteq Services /\ ~Quiescent'
  BY RestartTyped DEF Quiescent
<1>2. DownNoted' /\ Told' /\ IconTold'
  BY <1>1 DEF DownNoted, Told, IconTold, Listeners, Services
<1> QED BY <1>1, <1>2 DEF StatusInv, Computed, AfterQueued, StatusFresh

(* dsme, mce and the status bar know what the queue of the new daemon      *)
(* holds, whatever the dead one had told them.                             *)
THEOREM StatusToldAnew ==
  ASSUME "CUD" \notin Stimuli
  PROVE  RestartSpec => []StatusFresh
<1>1. RestartInit => StatusInv
  <2> SUFFICES ASSUME RestartInit PROVE StatusInv
    OBVIOUS
  <2>1. /\ pc = "idle" /\ rethink = 0 /\ dn = Services /\ up \subseteq Services
        /\ ~Quiescent
    BY EnvironmentConstants DEF RestartInit, Init, Quiescent, Never
  <2> QED BY <2>1 DEF StatusInv, DownNoted, Told, IconTold, Computed, AfterQueued, StatusFresh,
                      Listeners, Services
<1>2. RestartInv /\ StatusInv /\ [RestartNext]_restartVars => StatusInv'
  <2> SUFFICES ASSUME RestartInv, StatusInv, [RestartNext]_restartVars PROVE StatusInv'
    OBVIOUS
  <2>1. CASE RestartStep
    BY <2>1, RestartStatus DEF RestartInv, IInv
  <2>2. CASE [Next]_vars
    BY <2>2, StatusStep DEF RestartInv
  <2> QED BY <2>1, <2>2 DEF RestartNext, ServerStep, restartVars
<1>3. StatusInv => StatusFresh
  BY DEF StatusInv
<1> QED BY <1>1, <1>2, <1>3, AlwaysRestartInv, PTL DEF RestartSpec

(* A process that was just started is going to rethink and has no wakeup.  *)
LEMMA RestartWakeup ==
  ASSUME Typed, FileInv, RestartStep
  PROVE  WakeupInv'
<1>1. /\ pc' = "idle" /\ ~Quiescent' /\ wakeup' = NoWakeup
      /\ wakeup'.due = Never /\ wakeup'.time = INT_MAX
  BY RestartTyped DEF Quiescent, NoWakeup
<1>2. TimerTrue' /\ TimerOff' /\ LoopClock'
  BY <1>1 DEF TimerTrue, TimerOff, LoopClock
<1>3. Covered'
  BY <1>1 DEF Covered, AfterQueued
<1> QED BY <1>2, <1>3 DEF WakeupInv

(* No alarm that a dead daemon had queued is without a wakeup once the new *)
(* one rests.                                                              *)
THEOREM WakeupSetAnew == RestartSpec => []WakeupCovers
<1>1. RestartInit => WakeupInv
  BY DEF RestartInit, Init, WakeupInv, TimerTrue, TimerOff, LoopClock, Covered, NoWakeup,
         InState, NoEvents
<1>2. RestartInv /\ WakeupInv /\ [RestartNext]_restartVars => WakeupInv'
  <2> SUFFICES ASSUME RestartInv, WakeupInv, [RestartNext]_restartVars PROVE WakeupInv'
    OBVIOUS
  <2>1. CASE RestartStep
    BY <2>1, RestartWakeup DEF RestartInv, IInv
  <2>2. CASE [Next]_vars
    BY <2>2, WakeupStep DEF RestartInv
  <2> QED BY <2>1, <2>2 DEF RestartNext, ServerStep, restartVars
<1>3. RestartInv /\ WakeupInv => WakeupCovers
  BY WakeupAtRest DEF RestartInv
<1> QED BY <1>1, <1>2, <1>3, AlwaysRestartInv, PTL DEF RestartSpec

(* Where a recurrence is counted from is in the file, in phase.            *)
FilePhase ==
  \A c \in DOMAIN disk.ev :
    Periodic(disk.ev[c].kind) /\ disk.ev[c].count # 0 => InPhase(disk.ev[c])

LEMMA FilePhaseStep ==
  ASSUME PhaseInv, PhaseInv', FilePhase, [Next]_vars
  PROVE  FilePhase'
BY FileWritten DEF FilePhase, PhaseInv, Snapshot, InPhase, Base

LEMMA RestartPhase ==
  ASSUME Typed, FileInv, ClockRange, PhaseInv, FilePhase, RestartStep
  PROVE  ClockRange' /\ PhaseInv' /\ FilePhase'
<1>1. ClockRange'
  <2>1. /\ mono \in Nat /\ delta \in Int /\ mono' \in mono .. MaxTime /\ delta' = delta
        /\ now' = 0 /\ MaxTime \in Nat /\ MaxDelta \in Nat
    BY RestartTyped, EnvironmentConstants DEF Typed, ClocksOK
  <2>2. mono' \in Int /\ mono <= mono' /\ mono' <= MaxTime
    BY <2>1
  <2>3. mono + delta >= 0
    BY DEF ClockRange, Wall
  <2>4. delta \in -MaxDelta .. MaxDelta /\ now' \in 0 .. MaxTime + MaxDelta
    BY <2>1 DEF ClockRange
  <2>5. mono' \in 0 .. MaxTime
    BY <2>1, <2>2
  <2>6. mono' + delta' >= 0
    <3>1. \A a, b, d \in Int : a <= b /\ a + d >= 0 => b + d >= 0
      OBVIOUS
    <3>2. mono \in Int /\ delta \in Int /\ delta' = delta
      BY <2>1
    <3> QED BY <2>2, <2>3, <3>1, <3>2
  <2> QED BY <2>1, <2>4, <2>5, <2>6 DEF ClockRange, Wall
<1>2. FilePhase'
  <2>1. disk' \in {disk, Snapshot}
    BY RestartStarts
  <2> QED BY <2>1 DEF FilePhase, PhaseInv, Snapshot, InPhase, Base
<1>3. ASSUME NEW c \in DOMAIN ev'
      PROVE  /\ ev'[c].kind \in Kinds
             /\ ev'[c].state = S_POSTPONED => Needs(ev'[c], "POSTPONE_DELAYED")
             /\ Periodic(ev'[c].kind) /\ ev'[c].count # 0 => InPhase(ev'[c])
  <2> DEFINE e == disk'.ev[c]
  <2>1. c \in DOMAIN disk'.ev /\ e \in Event /\ ev'[c] = Reloaded(e) /\ ev'[c].kind \in Kinds
    BY <1>3, RestartQueue DEF KindsKnown
  <2>2. /\ ev'[c].kind = e.kind /\ SameTimes(e, ev'[c])
        /\ ev'[c].state \in {S_LIMBO, S_NEW}
    BY <2>1, ReloadedKeeps
  <2>3. Periodic(e.kind) /\ e.count # 0 => InPhase(e)
    BY <1>2, <2>1 DEF FilePhase, InPhase, Base
  <2> HIDE DEF e
  <2> QED BY <2>1, <2>2, <2>3 DEF SameTimes, InPhase, Base, S_NEW, S_LIMBO, S_POSTPONED
<1>4. PhaseInv'
  BY <1>3 DEF PhaseInv, InPhase, Base, Needs
<1> QED BY <1>1, <1>2, <1>4

(* Recurrences keep their phase through restarts: neither the file nor the *)
(* way it is read back loses the moment they are counted from.             *)
THEOREM RecurrencesInPhaseAnew ==
  ASSUME RecurrencesFit
  PROVE  RestartSpec => []PhaseKept
<1> DEFINE PInv == ClockRange /\ PhaseInv /\ FilePhase
<1>1. RestartInit => PInv
  <2> SUFFICES ASSUME RestartInit PROVE PInv
    OBVIOUS
  <2>1. ClockRange /\ PhaseInv
    BY EnvironmentConstants DEF RestartInit, Init, ClockRange, Wall, PhaseInv, NoEvents
  <2>2. FilePhase
    BY DEF RestartInit, Init, FilePhase, NoEvents, Snapshot
  <2> QED BY <2>1, <2>2
<1>2. RestartInv /\ PInv /\ [RestartNext]_restartVars => PInv'
  <2> SUFFICES ASSUME RestartInv, PInv, [RestartNext]_restartVars PROVE PInv'
    OBVIOUS
  <2>1. CASE RestartStep
    BY <2>1, RestartPhase DEF RestartInv, IInv
  <2>2. CASE [Next]_vars
    BY <2>2, RangeStep, PhaseStep, FilePhaseStep DEF RestartInv
  <2> QED BY <2>1, <2>2 DEF RestartNext, ServerStep, restartVars
<1>3. PInv => PhaseKept
  BY DEF PhaseInv, PhaseKept, Periodic, InPhase, Base, Needs
<1> HIDE DEF PInv
<1> QED BY <1>1, <1>2, <1>3, AlwaysRestartInv, PTL DEF RestartSpec

(* Nor does a restart leave an event behind, or the file out of step.      *)
THEOREM RestedAnew == RestartSpec => [](NoWorkLeftBehind /\ Durable)
<1>1. RestartInit => Durable
  BY DEF RestartInit, Init, Durable, Snapshot
<1>2. RestartInv /\ Durable /\ [RestartNext]_restartVars => Durable'
  <2> SUFFICES ASSUME RestartInv, Durable, [RestartNext]_restartVars PROVE Durable'
    OBVIOUS
  <2>1. CASE RestartStep
    BY <2>1, RestartTyped, DurableBusy DEF RestartInv, IInv
  <2>2. CASE Next
    BY <2>2, DurableLoop, DurableHandler, NextSplit DEF RestartInv, IInv
  <2>3. CASE UNCHANGED vars
    BY <2>3 DEF vars, queueVars, timerVars, Durable, Quiescent, Snapshot
  <2> QED BY <2>1, <2>2, <2>3 DEF RestartNext, ServerStep, restartVars
<1>3. RestartInv => NoWorkLeftBehind
  BY DEF RestartInv, IInv
<1> QED BY <1>1, <1>2, <1>3, AlwaysRestartInv, PTL DEF RestartSpec
=============================================================================
