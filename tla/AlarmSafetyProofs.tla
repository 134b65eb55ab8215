------------------------- MODULE AlarmSafetyProofs -------------------------
(***************************************************************************)
(* Safety properties of the alarmd process that hold for every value of    *)
(* the constants: the queue file, the limbo, the trigger times, the        *)
(* software wakeup, the recurrences, the time on the wall, and that no     *)
(* alarm is missed.                                                        *)
(*                                                                         *)
(* They rest on the life of one event: which way the functions of the      *)
(* rethink loop and the handlers may take it through the states of         *)
(* states.inc, and which of its fields they change on the way.             *)
(***************************************************************************)
EXTENDS AlarmServerProofs

-----------------------------------------------------------------------------
(* What one event may become.                                              *)

SameTimes(e, f) ==
  f.trigger = e.trigger /\ f.snoozed = e.snoozed /\ f.count = e.count

(* The trigger time from before the first snooze, where a recurrence is    *)
(* counted from.                                                           *)
Base(e) == IF e.snoozed # 0 THEN e.snoozed ELSE e.trigger

(* A deleted event may snooze itself back into the queue.                  *)
Revives(k) ==
  \E i \in DOMAIN k.acts : "DELETED" \in k.acts[i].when /\ "SNOOZE" \in k.acts[i].what

(* The functions of the loop, each for the events in its state.            *)
Moves(e, f) ==
  \/ /\ e.state = S_NEW /\ f.state \in {S_WAITCONN, S_QUEUED, S_SNOOZED}
     /\ f.state = S_WAITCONN => Offline(e)
     /\ SameTimes(e, f)
  \/ e.state = S_WAITCONN /\ f.state = S_NEW /\ SameTimes(e, f)
  \/ /\ e.state = S_QUEUED /\ f.state \in {S_WAITCONN, S_MISSED, S_LIMBO}
     /\ f.state = S_WAITCONN => Offline(e)
     /\ f.state = S_MISSED => now - e.trigger > SERVER_MISSED_LIMIT
     /\ SameTimes(e, f)
  \/ /\ e.state = S_MISSED
     /\ f.state \in {S_MISSED, S_POSTPONED, S_LIMBO, S_SNOOZED, S_SERVED}
     /\ f.state = S_POSTPONED => Needs(e, "POSTPONE_DELAYED")
     /\ SameTimes(e, f)
  \/ e.state = S_POSTPONED /\ f.state = S_LIMBO /\ SameTimes(e, f)
  \/ e.state = S_POSTPONED /\ f.state = S_NEW /\ f.trigger > now
  \/ e.state = S_LIMBO /\ f.state = S_TRIGGERED /\ MayLeaveLimbo(e) /\ SameTimes(e, f)
  \/ /\ e.state = S_TRIGGERED /\ f.state \in {S_WAITSYSUI, S_SNOOZED, S_SERVED}
     /\ HasButtons(e) => f.state = S_WAITSYSUI
     /\ SameTimes(e, f)
  \/ /\ e.state = S_WAITSYSUI /\ f.state = S_SYSUI_REQ /\ SysuiUp
     /\ f.disabled = e.disabled /\ SameTimes(e, f)
  \/ /\ e.state \in {S_SYSUI_REQ, S_SYSUI_ACK} /\ f.state = S_WAITSYSUI /\ ~SysuiUp
     /\ f.disabled = e.disabled /\ SameTimes(e, f)
  \/ /\ e.state = S_SYSUI_RSP /\ f.state \in {S_SYSUI_RSP, S_SNOOZED, S_SERVED}
     /\ SameTimes(e, f)
  \/ /\ e.state = S_SNOOZED /\ f.state = S_NEW /\ f.count = e.count
     /\ f.snoozed = (IF e.snoozed = 0 THEN e.trigger ELSE e.snoozed)
     /\ f.trigger > now
  \/ /\ e.state = S_SERVED /\ f.state \in {S_RECURRING, S_DELETED}
     /\ f.state = S_RECURRING => IsRecurring(e)
     /\ SameTimes(e, f)
  \/ /\ e.state = S_RECURRING /\ f.state = S_NEW
     /\ f.snoozed = 0 /\ e.count # 0 /\ f.trigger > now
     /\ e.kind.recur > 0 => f.trigger = BumpTime(Base(e), e.kind.recur, now)
  \/ /\ e.state = S_RECURRING /\ f.state = S_DELETED
     /\ f.snoozed = 0 /\ f.trigger = e.trigger
     /\ \/ f.count = 0
        \/ e.kind.recur = 0
        \/ BumpTime(Base(e), e.kind.recur, now) \notin 1 .. INT_MAX - 1
  \/ /\ e.state = S_DELETED /\ f.state \in {S_DELETED, S_SNOOZED}
     /\ f.state = S_SNOOZED => Revives(e.kind)
     /\ SameTimes(e, f)

(* A time change moves an event that waits: to the time asked for, or with *)
(* the clock while it is snoozed; an absolute one is moved only then.      *)
Shifts(e, f) ==
  /\ e.state = S_QUEUED /\ f.state = S_NEW
  /\ f.snoozed = e.snoozed /\ f.count = e.count
  /\ e.kind.how = "abs" => e.snoozed # 0
  /\ e.snoozed = 0 => f.trigger = NextTrigger(now, 0, e, tzCurr)

(* What a function of the loop makes of an event.                          *)
Becomes(e, f) ==
  f \in Event /\ f.kind = e.kind /\ (f = e \/ Moves(e, f) \/ Shifts(e, f))

-----------------------------------------------------------------------------
(* The operators on one event keep what they are not about.                *)

LEMMA CellKeeps ==
  ASSUME NEW e
  PROVE  Cell(e).e = e
BY DEF Cell

LEMMA SetStateKeeps ==
  ASSUME NEW x \in CellType, NEW s \in States
  PROVE  /\ SameTimes(x.e, SetState(x, s).e)
         /\ SetState(x, s).e.disabled = x.e.disabled
BY DEF SetState, SameTimes, CellType, Event

LEMMA DisabledKeeps ==
  ASSUME NEW x \in CellType
  PROVE  SameTimes(x.e, Disabled(x).e)
BY DEF Disabled, SameTimes, CellType, Event

LEMMA DoActionsKeeps ==
  ASSUME NEW x \in CellType, NEW A
  PROVE  SameTimes(x.e, DoActions(x, A).e)
<1> DEFINE y == IF \E a \in A : "SNOOZE" \in a.what
                THEN SetState(x, S_SNOOZED) ELSE x
<1>1. S_SNOOZED \in States
  BY DEF S_SNOOZED, States, S_NEW, S_FINALIZED
<1>2. y \in CellType /\ SameTimes(x.e, y.e)
  <2>1. CASE \E a \in A : "SNOOZE" \in a.what
    BY <2>1, <1>1, SetStateOk, SetStateKeeps
  <2>2. CASE ~ \E a \in A : "SNOOZE" \in a.what
    BY <2>2 DEF SameTimes
  <2> QED BY <2>1, <2>2
<1> HIDE DEF y
<1>3. CASE \E a \in A : "DISABLE" \in a.what
  <2>1. DoActions(x, A) = Disabled(y)
    BY <1>3 DEF DoActions, y
  <2>2. SameTimes(y.e, Disabled(y).e)
    BY <1>2, DisabledKeeps
  <2> QED BY <2>1, <2>2, <1>2 DEF SameTimes
<1>4. CASE ~ \E a \in A : "DISABLE" \in a.what
  BY <1>2, <1>4 DEF DoActions, y
<1> QED BY <1>3, <1>4

LEMMA DoStateActionsKeeps ==
  ASSUME NEW x \in CellType, NEW when
  PROVE  SameTimes(x.e, DoStateActions(x, when).e)
BY DoActionsKeeps DEF DoStateActions

LEMMA DoResponseActionsKeeps ==
  ASSUME NEW x \in CellType
  PROVE  SameTimes(x.e, DoResponseActions(x).e)
BY DoActionsKeeps DEF DoResponseActions

LEMMA SameTimesTrans ==
  ASSUME NEW e, NEW f, NEW g, SameTimes(e, f), SameTimes(f, g)
  PROVE  SameTimes(e, g)
BY DEF SameTimes

(* Going to a state from an event as it is in the queue.                   *)
LEMMA GoTo ==
  ASSUME NEW e \in Event, NEW s \in States, s \notin {S_SYSUI_ACK, S_SYSUI_RSP}
  PROVE  /\ SetState(Cell(e), s).e \in Event
         /\ SetState(Cell(e), s).e.kind = e.kind
         /\ SetState(Cell(e), s).e.disabled = e.disabled
         /\ SetState(Cell(e), s).e.state = s
         /\ SameTimes(e, SetState(Cell(e), s).e)
<1>1. Cell(e) \in CellType /\ Cell(e).e = e
  BY CellOk
<1>2. SetState(Cell(e), s) \in CellType
  BY <1>1, SetStateOk
<1> QED BY <1>1, <1>2, SetStateOk, SetStateKeeps DEF CellType

(* The same after actions were done.                                       *)
LEMMA GoOn ==
  ASSUME NEW x \in CellType, NEW s \in States, s \notin {S_SYSUI_ACK, S_SYSUI_RSP},
         NEW e, x.e.kind = e.kind, SameTimes(e, x.e)
  PROVE  /\ SetState(x, s).e \in Event
         /\ SetState(x, s).e.kind = e.kind
         /\ SetState(x, s).e.state = s
         /\ SameTimes(e, SetState(x, s).e)
<1>1. SetState(x, s) \in CellType
  BY SetStateOk
<1> QED BY <1>1, SetStateOk, SetStateKeeps, SameTimesTrans DEF CellType

(* Restarting with a new trigger.                                          *)
LEMMA Restart ==
  ASSUME NEW e \in Event, NEW t \in Int
  PROVE  LET f == SetState(SetTrigger(Cell(e), t), S_NEW).e
         IN  /\ f \in Event /\ f.kind = e.kind /\ f.state = S_NEW /\ f.trigger = t
             /\ f.snoozed = e.snoozed /\ f.count = e.count
<1> DEFINE x == SetTrigger(Cell(e), t)
<1>1. Cell(e) \in CellType /\ Cell(e).e = e
  BY CellOk
<1>2. x \in CellType
  BY <1>1, SetTriggerOk
<1>3. x.e = [e EXCEPT !.trigger = t]
  BY <1>1 DEF SetTrigger
<1>4. /\ x.e.kind = e.kind /\ x.e.trigger = t
      /\ x.e.snoozed = e.snoozed /\ x.e.count = e.count
  BY <1>3 DEF Event
<1> HIDE DEF x
<1>5. S_NEW \in States /\ S_NEW \notin {S_SYSUI_ACK, S_SYSUI_RSP}
  BY DEF States, S_NEW, S_FINALIZED, S_SYSUI_ACK, S_SYSUI_RSP
<1>6. SetState(x, S_NEW) \in CellType
  BY <1>2, <1>5, SetStateOk
<1>7. SameTimes(x.e, SetState(x, S_NEW).e)
  BY <1>2, <1>5, SetStateKeeps
<1> QED BY <1>2, <1>4, <1>5, <1>6, <1>7, SetStateOk DEF SameTimes, CellType, x

-----------------------------------------------------------------------------
(* The functions of the loop, one by one.                                  *)
LEMMA NewBecomes ==
  ASSUME NEW e \in Event, e.state = S_NEW
  PROVE  Becomes(e, NewStep(e).e) /\ NewStep(e).e.state # S_NEW
<1> USE DEF States, S_NEW, S_WAITCONN, S_QUEUED, S_SNOOZED, S_FINALIZED, S_SYSUI_ACK,
            S_SYSUI_RSP
<1>1. CASE Offline(e)
  <2>1. NewStep(e) = SetState(Cell(e), S_WAITCONN)
    BY <1>1 DEF NewStep
  <2> QED BY <1>1, <2>1, GoTo DEF Becomes, Moves
<1>2. CASE ~Offline(e)
  <2> DEFINE x == SetState(Cell(e), S_QUEUED)
  <2>1. x \in CellType /\ x.e.kind = e.kind /\ x.e.state = S_QUEUED /\ SameTimes(e, x.e)
    <3>1. Cell(e) \in CellType
      BY CellOk
    <3>2. x \in CellType
      BY <3>1, SetStateOk
    <3> QED BY <3>2, GoTo
  <2> HIDE DEF x
  <2> DEFINE y == DoStateActions(x, "QUEUED")
  <2>2. NewStep(e) = y
    BY <1>2 DEF NewStep, x
  <2>3. y \in CellType /\ y.e.kind = x.e.kind /\ y.e.state \in {x.e.state, S_SNOOZED}
    BY <2>1, DoStateActionsOk
  <2>4. SameTimes(e, y.e)
    BY <2>1, DoStateActionsKeeps, SameTimesTrans
  <2> HIDE DEF y
  <2> QED BY <2>1, <2>2, <2>3, <2>4 DEF Becomes, Moves, CellType
<1> QED BY <1>1, <1>2

LEMMA WaitconnBecomes ==
  ASSUME NEW e \in Event, e.state = S_WAITCONN
  PROVE  Becomes(e, WaitconnStep(e).e)
<1>1. CASE Connected
  <2>1. WaitconnStep(e) = SetState(Cell(e), S_NEW)
    BY <1>1 DEF WaitconnStep
  <2> QED BY <2>1, GoTo DEF Becomes, Moves, States, S_NEW, S_FINALIZED, S_SYSUI_ACK, S_SYSUI_RSP
<1>2. CASE ~Connected
  <2>1. WaitconnStep(e) = Cell(e)
    BY <1>2 DEF WaitconnStep
  <2> QED BY <2>1, CellKeeps DEF Becomes
<1> QED BY <1>1, <1>2

LEMMA QueuedBecomes ==
  ASSUME NEW e \in Event, e.state = S_QUEUED
  PROVE  /\ Becomes(e, QueuedStep(e).e)
         /\ QueuedStep(e).e.state = S_QUEUED => ~Offline(e) /\ e.trigger > now
         /\ QueuedStep(e).e.state # S_NEW
<1> USE DEF States, S_NEW, S_WAITCONN, S_QUEUED, S_MISSED, S_LIMBO, S_FINALIZED,
            S_SYSUI_ACK, S_SYSUI_RSP
<1>1. CASE ~Offline(e) /\ e.trigger > now
  <2>1. QueuedStep(e) = Cell(e)
    BY <1>1 DEF QueuedStep
  <2> QED BY <1>1, <2>1, CellKeeps DEF Becomes
<1>2. CASE ~(~Offline(e) /\ e.trigger > now)
  <2>1. PICK s \in {S_WAITCONN, S_MISSED, S_LIMBO} :
          /\ QueuedStep(e) = SetState(Cell(e), s)
          /\ s = S_WAITCONN => Offline(e)
          /\ s = S_MISSED => now - e.trigger > SERVER_MISSED_LIMIT
    BY <1>2 DEF QueuedStep
  <2> QED BY <2>1, GoTo DEF Becomes, Moves
<1> QED BY <1>1, <1>2

LEMMA MissedBecomes ==
  ASSUME NEW e \in Event, e.state = S_MISSED
  PROVE  Becomes(e, MissedStep(e).e)
<1> DEFINE x == DoStateActions(Cell(e), "DELAYED")
<1> USE DEF States, S_NEW, S_MISSED, S_LIMBO, S_POSTPONED, S_SNOOZED, S_SERVED, S_FINALIZED,
            S_SYSUI_ACK, S_SYSUI_RSP
<1>1. x \in CellType /\ x.e.kind = e.kind /\ x.e.state \in {S_MISSED, S_SNOOZED}
      /\ SameTimes(e, x.e)
  <2>1. Cell(e) \in CellType /\ Cell(e).e = e
    BY CellOk
  <2> QED BY <2>1, DoStateActionsOk, DoStateActionsKeeps
<1> HIDE DEF x
<1>2. CASE Needs(e, "RUN_DELAYED")
  <2>1. MissedStep(e) = SetState(x, S_LIMBO)
    BY <1>2 DEF MissedStep, x
  <2> QED BY <1>1, <2>1, GoOn DEF Becomes, Moves
<1>3. CASE ~Needs(e, "RUN_DELAYED") /\ Needs(e, "POSTPONE_DELAYED")
  <2>1. MissedStep(e) = SetState(x, S_POSTPONED)
    BY <1>3 DEF MissedStep, x
  <2> QED BY <1>1, <1>3, <2>1, GoOn DEF Becomes, Moves
<1>4. CASE ~Needs(e, "RUN_DELAYED") /\ ~Needs(e, "POSTPONE_DELAYED")
           /\ Needs(e, "DISABLE_DELAYED")
  <2> DEFINE y == Disabled(x)
             z == DoStateActions(y, "DISABLED")
  <2>1. MissedStep(e) = z
    BY <1>4 DEF MissedStep, x
  <2>2. y \in CellType /\ y.e.kind = e.kind /\ y.e.state = x.e.state /\ SameTimes(e, y.e)
    <3>1. SameTimes(x.e, y.e)
      BY <1>1, DisabledKeeps
    <3>2. y \in CellType /\ y.e.kind = x.e.kind /\ y.e.state = x.e.state
      BY <1>1, DisabledOk
    <3> QED BY <1>1, <3>1, <3>2, SameTimesTrans
  <2> HIDE DEF y
  <2>3. z \in CellType /\ z.e.kind = y.e.kind /\ z.e.state \in {y.e.state, S_SNOOZED}
        /\ SameTimes(y.e, z.e)
    BY <2>2, DoStateActionsOk, DoStateActionsKeeps
  <2> HIDE DEF z
  <2>4. SameTimes(e, z.e)
    BY <2>2, <2>3, SameTimesTrans
  <2> QED BY <1>1, <2>1, <2>2, <2>3, <2>4 DEF Becomes, Moves, CellType
<1>5. CASE ~Needs(e, "RUN_DELAYED") /\ ~Needs(e, "POSTPONE_DELAYED")
           /\ ~Needs(e, "DISABLE_DELAYED")
  <2>1. MissedStep(e) = SetState(x, S_SERVED)
    BY <1>5 DEF MissedStep, x
  <2> QED BY <1>1, <2>1, GoOn DEF Becomes, Moves
<1> QED BY <1>2, <1>3, <1>4, <1>5

LEMMA PostponedBecomes ==
  ASSUME NEW e \in Event, e.state = S_POSTPONED, now \in Int, snooze \in Nat
  PROVE  Becomes(e, PostponedStep(e).e)
<1> DEFINE s   == SnoozeOf(e, snooze)
           add == now + Day - e.trigger
           pad == add % s
<1> USE DEF States, S_NEW, S_POSTPONED, S_LIMBO, S_FINALIZED, S_SYSUI_ACK, S_SYSUI_RSP
<1>1. e.trigger \in Int /\ s \in Nat \ {0}
  BY SnoozeOfPos DEF Event
<1>2. add \in Int /\ e.trigger + add = now + Day
  BY <1>1, TimeConstants
<1> HIDE DEF s
<1>3. pad \in Int /\ pad < s
  BY <1>1, <1>2
<1> HIDE DEF pad, add
<1>4. CASE now - e.trigger - s < Day
  <2>1. PostponedStep(e) = SetState(Cell(e), S_LIMBO)
    BY <1>4 DEF PostponedStep, s
  <2> QED BY <2>1, GoTo DEF Becomes, Moves
<1>5. CASE ~(now - e.trigger - s < Day)
  <2> DEFINE t == e.trigger + add + (IF pad = 0 THEN 0 ELSE s - pad)
  <2>1. t \in Int /\ t > now
    BY <1>1, <1>2, <1>3, TimeConstants
  <2>2. PostponedStep(e) = SetState(SetTrigger(Cell(e), t), S_NEW)
    BY <1>5 DEF PostponedStep, s, add, pad
  <2> HIDE DEF t
  <2> QED BY <2>1, <2>2, Restart DEF Becomes, Moves
<1> QED BY <1>4, <1>5

LEMMA LimboBecomes ==
  ASSUME NEW e \in Event, e.state = S_LIMBO
  PROVE  Becomes(e, LimboStep(e).e)
<1>1. CASE MayLeaveLimbo(e)
  <2>1. LimboStep(e) = SetState(Cell(e), S_TRIGGERED)
    BY <1>1 DEF LimboStep
  <2> QED BY <1>1, <2>1, GoTo DEF Becomes, Moves, States, S_NEW, S_TRIGGERED, S_FINALIZED,
                                  S_SYSUI_ACK, S_SYSUI_RSP
<1>2. CASE ~MayLeaveLimbo(e)
  <2>1. LimboStep(e) = Cell(e)
    BY <1>2 DEF LimboStep
  <2> QED BY <2>1, CellKeeps DEF Becomes
<1> QED BY <1>1, <1>2

LEMMA TriggeredBecomes ==
  ASSUME NEW e \in Event, e.state = S_TRIGGERED
  PROVE  Becomes(e, TriggeredStep(e).e)
<1> DEFINE x == DoStateActions(Cell(e), "TRIGGERED")
<1> USE DEF States, S_NEW, S_TRIGGERED, S_WAITSYSUI, S_SNOOZED, S_SERVED, S_FINALIZED,
            S_SYSUI_ACK, S_SYSUI_RSP
<1>1. x \in CellType /\ x.e.kind = e.kind /\ SameTimes(e, x.e)
  <2>1. Cell(e) \in CellType /\ Cell(e).e = e
    BY CellOk
  <2> QED BY <2>1, DoStateActionsOk, DoStateActionsKeeps
<1> HIDE DEF x
<1>2. CASE HasButtons(e)
  <2>1. TriggeredStep(e) = SetState(x, S_WAITSYSUI)
    BY <1>2 DEF TriggeredStep, x
  <2> QED BY <1>1, <2>1, GoOn DEF Becomes, Moves
<1>3. CASE ~HasButtons(e) /\ x.e.state = S_SNOOZED
  <2>1. TriggeredStep(e) = x
    BY <1>3 DEF TriggeredStep, x
  <2> QED BY <1>1, <1>3, <2>1 DEF Becomes, Moves, CellType
<1>4. CASE ~HasButtons(e) /\ x.e.state # S_SNOOZED
  <2>1. TriggeredStep(e) = SetState(x, S_SERVED)
    BY <1>4 DEF TriggeredStep, x
  <2> QED BY <1>1, <1>4, <2>1, GoOn DEF Becomes, Moves
<1> QED BY <1>2, <1>3, <1>4

LEMMA WaitsysuiBecomes ==
  ASSUME NEW e \in Event, e.state = S_WAITSYSUI
  PROVE  Becomes(e, WaitsysuiStep(e).e)
<1>1. CASE SysuiUp
  <2>1. WaitsysuiStep(e) = SetState(Cell(e), S_SYSUI_REQ)
    BY <1>1 DEF WaitsysuiStep
  <2> QED BY <1>1, <2>1, GoTo DEF Becomes, Moves, States, S_NEW, S_SYSUI_REQ, S_FINALIZED,
                            S_SYSUI_ACK, S_SYSUI_RSP
<1>2. CASE ~SysuiUp
  <2>1. WaitsysuiStep(e) = Cell(e)
    BY <1>2 DEF WaitsysuiStep
  <2> QED BY <2>1, CellKeeps DEF Becomes
<1> QED BY <1>1, <1>2

LEMMA BackToWaitBecomes ==
  ASSUME NEW e \in Event, e.state \in {S_SYSUI_REQ, S_SYSUI_ACK}
  PROVE  Becomes(e, BackToWait(e).e)
<1>1. CASE SysuiUp
  <2>1. BackToWait(e) = Cell(e)
    BY <1>1 DEF BackToWait
  <2> QED BY <2>1, CellKeeps DEF Becomes
<1>2. CASE ~SysuiUp
  <2>1. BackToWait(e) = SetState(Cell(e), S_WAITSYSUI)
    BY <1>2 DEF BackToWait
  <2> QED BY <1>2, <2>1, GoTo DEF Becomes, Moves, States, S_NEW, S_WAITSYSUI, S_FINALIZED,
                            S_SYSUI_ACK, S_SYSUI_RSP
<1> QED BY <1>1, <1>2

LEMMA SysuiRspBecomes ==
  ASSUME NEW e \in Event, e.state = S_SYSUI_RSP
  PROVE  Becomes(e, SysuiRspStep(e).e)
<1> USE DEF States, S_NEW, S_SNOOZED, S_SERVED, S_FINALIZED, S_SYSUI_ACK, S_SYSUI_RSP
<1>0. Cell(e) \in CellType /\ Cell(e).e = e
  BY CellOk
<1>1. CASE Unanswered(e)
  <2> DEFINE x == Disabled(Cell(e))
  <2>1. SysuiRspStep(e) = x
    BY <1>1 DEF SysuiRspStep
  <2>2. x \in CellType /\ x.e.kind = e.kind /\ x.e.state = e.state /\ SameTimes(e, x.e)
    BY <1>0, DisabledOk, DisabledKeeps
  <2> HIDE DEF x
  <2> QED BY <2>1, <2>2 DEF Becomes, Moves, CellType
<1>2. CASE ~Unanswered(e)
  <2> DEFINE x == DoResponseActions(Cell(e))
  <2>1. x \in CellType /\ x.e.kind = e.kind /\ SameTimes(e, x.e)
    BY <1>0, DoResponseActionsOk, DoResponseActionsKeeps
  <2>2. SysuiRspStep(e) = Answered(x)
    BY <1>2 DEF SysuiRspStep
  <2> HIDE DEF x
  <2>3. CASE x.e.state = S_SNOOZED
    <3>1. Answered(x) = x
      BY <2>3 DEF Answered
    <3> QED BY <2>1, <2>2, <2>3, <3>1 DEF Becomes, Moves, CellType
  <2>4. CASE x.e.state # S_SNOOZED
    <3>1. Answered(x) = SetState(x, S_SERVED)
      BY <2>4 DEF Answered
    <3> QED BY <2>1, <2>2, <3>1, GoOn DEF Becomes, Moves
  <2> QED BY <2>3, <2>4
<1> QED BY <1>1, <1>2

LEMMA SnoozedBecomes ==
  ASSUME NEW e \in Event, e.state = S_SNOOZED, now \in Int, snooze \in Nat
  PROVE  Becomes(e, SnoozedStep(e).e)
<1> DEFINE f == [e EXCEPT !.snoozed = IF @ = 0 THEN e.trigger ELSE @]
           t == now + SnoozeOf(e, snooze)
<1>1. /\ f \in Event /\ f.kind = e.kind /\ f.count = e.count
      /\ f.snoozed = (IF e.snoozed = 0 THEN e.trigger ELSE e.snoozed)
  BY DEF Event
<1>2. t \in Int /\ t > now
  BY SnoozeOfPos
<1>3. SnoozedStep(e) = SetState(SetTrigger(Cell(f), t), S_NEW)
  BY DEF SnoozedStep
<1> HIDE DEF f, t
<1>4. LET g == SetState(SetTrigger(Cell(f), t), S_NEW).e
      IN  /\ g \in Event /\ g.kind = f.kind /\ g.state = S_NEW /\ g.trigger = t
          /\ g.snoozed = f.snoozed /\ g.count = f.count
  BY <1>1, <1>2, Restart
<1> QED BY <1>1, <1>2, <1>3, <1>4 DEF Becomes, Moves

LEMMA ServedBecomes ==
  ASSUME NEW e \in Event, e.state = S_SERVED
  PROVE  Becomes(e, ServedStep(e).e)
<1>1. PICK s \in {S_RECURRING, S_DELETED} :
        ServedStep(e) = SetState(Cell(e), s) /\ (s = S_RECURRING => IsRecurring(e))
  BY DEF ServedStep, S_RECURRING, S_DELETED
<1> QED BY <1>1, GoTo DEF Becomes, Moves, States, S_NEW, S_RECURRING, S_DELETED, S_FINALIZED,
                          S_SYSUI_ACK, S_SYSUI_RSP

LEMMA RecurringBecomes ==
  ASSUME NEW e \in Event, e.state = S_RECURRING, now \in Int, tzCurr \in Int
  PROVE  Becomes(e, RecurringStep(e).e)
<1> DEFINE left == IF e.count > 0 THEN e.count - 1 ELSE e.count
           prev == IF e.snoozed # 0 THEN e.snoozed ELSE e.trigger
           curr == CASE left = 0 -> INT_MAX
                     [] left # 0 /\ e.kind.recur > 0 -> BumpTime(prev, e.kind.recur, now)
                     [] OTHER -> AlignDaily(now + 1, e.kind.mask, tzCurr)
           f    == [e EXCEPT !.count = left, !.snoozed = 0]
<1>1. e.count \in Int /\ e.snoozed \in Int /\ e.trigger \in Int /\ e.kind \in Kind
  BY DEF Event
<1>2. left \in Int /\ prev \in Int /\ prev = Base(e) /\ (left # 0 => e.count # 0)
  BY <1>1 DEF Base
<1>3. RecurringStep(e) = IF 0 < curr /\ curr < INT_MAX
                         THEN SetState(SetTrigger(Cell(f), curr), S_NEW)
                         ELSE SetState(Cell(f), S_DELETED)
  BY DEF RecurringStep
<1>4. /\ f \in Event /\ f.kind = e.kind /\ f.count = left /\ f.snoozed = 0
      /\ f.trigger = e.trigger
  <2>1. f \in Event
    BY <1>2, RecountedOk
  <2> QED BY <2>1 DEF Event
<1>5. /\ left = 0 => curr = INT_MAX
      /\ left # 0 /\ e.kind.recur > 0 => curr = BumpTime(prev, e.kind.recur, now)
      /\ left # 0 /\ ~(e.kind.recur > 0) => curr = AlignDaily(now + 1, e.kind.mask, tzCurr)
  OBVIOUS
<1> HIDE DEF left, prev, curr, f
<1>6. curr \in Int /\ (left # 0 => curr > now)
  <2>1. CASE left = 0
    BY <1>5, <2>1, TimeConstants
  <2>2. CASE left # 0 /\ e.kind.recur > 0
    <3>1. e.kind.recur \in Nat \ {0}
      BY <1>1, <2>2, KindFields
    <3> QED BY <1>2, <1>5, <2>2, <3>1, BumpTimeInt, BumpTimeAhead
  <2>3. CASE left # 0 /\ ~(e.kind.recur > 0)
    <3>1. now + 1 \in Int /\ e.kind.mask \in Int
      BY <1>1, KindFields
    <3>2. AlignDaily(now + 1, e.kind.mask, tzCurr) \in Int
          /\ AlignDaily(now + 1, e.kind.mask, tzCurr) >= now + 1
      BY <3>1, AlignDailyInt, AlignDailyAhead
    <3> QED BY <1>5, <2>3, <3>2
  <2> QED BY <2>1, <2>2, <2>3
<1>7. CASE 0 < curr /\ curr < INT_MAX
  <2> DEFINE g == SetState(SetTrigger(Cell(f), curr), S_NEW).e
  <2>1. /\ g \in Event /\ g.kind = f.kind /\ g.state = S_NEW /\ g.trigger = curr
        /\ g.snoozed = f.snoozed
    BY <1>4, <1>6, Restart
  <2>2. left # 0
    BY <1>5, <1>7, TimeConstants
  <2>3. RecurringStep(e).e = g
    BY <1>3, <1>7
  <2> HIDE DEF g
  <2> QED BY <1>2, <1>4, <1>5, <1>6, <2>1, <2>2, <2>3 DEF Becomes, Moves
<1>8. CASE ~(0 < curr /\ curr < INT_MAX)
  <2> DEFINE g == SetState(Cell(f), S_DELETED).e
  <2>1. /\ g \in Event /\ g.kind = f.kind /\ g.state = S_DELETED /\ SameTimes(f, g)
    BY <1>4, GoTo DEF States, S_NEW, S_DELETED, S_FINALIZED, S_SYSUI_ACK, S_SYSUI_RSP
  <2>2. RecurringStep(e).e = g
    BY <1>3, <1>8
  <2>3. \/ left = 0 \/ e.kind.recur = 0
        \/ BumpTime(Base(e), e.kind.recur, now) \notin 1 .. INT_MAX - 1
    <3>1. e.kind.recur \in Nat
      BY <1>1, KindFields
    <3>2. CASE left # 0 /\ e.kind.recur > 0
      BY <1>2, <1>5, <1>6, <1>8, <3>2, TimeConstants
    <3> QED BY <3>1, <3>2
  <2> HIDE DEF g
  <2> QED BY <1>4, <2>1, <2>2, <2>3 DEF Becomes, Moves, SameTimes
<1> QED BY <1>7, <1>8

LEMMA DeletedBecomes ==
  ASSUME NEW e \in Event, e.state = S_DELETED
  PROVE  Becomes(e, DeletedStep(e).e)
<1> DEFINE x == DoStateActions(Cell(e), "DELETED")
           A == {a \in ActionsOf(e) : "DELETED" \in a.when}
<1>1. Cell(e) \in CellType /\ Cell(e).e = e
  BY CellOk
<1>2. /\ x \in CellType /\ x.e.kind = e.kind /\ x.e.state \in {e.state, S_SNOOZED}
      /\ SameTimes(e, x.e)
  BY <1>1, DoStateActionsOk, DoStateActionsKeeps
<1>3. DeletedStep(e) = x /\ x = DoActions(Cell(e), A)
  BY <1>1 DEF DeletedStep, DoStateActions
<1>4. CASE \E a \in A : "SNOOZE" \in a.what
  <2>1. Revives(e.kind)
    BY <1>4 DEF Revives, ActionsOf
  <2> HIDE DEF x
  <2> QED BY <1>2, <1>3, <2>1 DEF Becomes, Moves, CellType
<1>5. CASE ~ \E a \in A : "SNOOZE" \in a.what
  <2> HIDE DEF A, x
  <2>1. x = Cell(e) \/ x = Disabled(Cell(e))
    BY <1>3, <1>5 DEF DoActions
  <2>2. x.e.state = e.state
    BY <1>1, <2>1, DisabledOk
  <2> QED BY <1>2, <1>3, <2>2 DEF Becomes, Moves, CellType, S_DELETED, S_SNOOZED
<1> QED BY <1>4, <1>5

LEMMA RescheduledBecomes ==
  ASSUME NEW e \in Event, NEW adj \in Int, e.state = S_QUEUED, now \in Int, tzCurr \in Int
  PROVE  /\ Becomes(e, Rescheduled(e, adj).e)
         /\ e.snoozed = 0 /\ e.kind.how # "abs" /\ Needs(e, "BACK_RESCHEDULE")
              => Rescheduled(e, adj).e.trigger = NextTrigger(now, 0, e, tzCurr)
<1> DEFINE use == NextTrigger(now, 0, e, tzCurr)
<1>1. use \in Int /\ e.trigger + adj \in Int
  BY NextTriggerInt DEF Event
<1> HIDE DEF use
<1>2. CASE e.snoozed # 0
  <2>1. Rescheduled(e, adj) = SetState(SetTrigger(Cell(e), e.trigger + adj), S_NEW)
    BY <1>2 DEF Rescheduled
  <2> QED BY <1>1, <1>2, <2>1, Restart DEF Becomes, Shifts
<1>3. CASE e.snoozed = 0 /\ e.kind.how = "abs"
  <2>1. Rescheduled(e, adj) = Cell(e)
    BY <1>3 DEF Rescheduled
  <2> QED BY <1>3, <2>1, CellKeeps DEF Becomes
<1>4. CASE e.snoozed = 0 /\ e.kind.how # "abs"
  <2>1. \/ /\ Rescheduled(e, adj) = Cell(e)
           /\ Needs(e, "BACK_RESCHEDULE") => e.trigger = use
        \/ Rescheduled(e, adj) = SetState(SetTrigger(Cell(e), use), S_NEW)
    BY <1>4 DEF Rescheduled, use
  <2> QED BY <1>1, <1>4, <2>1, Restart, CellKeeps DEF Becomes, Shifts, use
<1> QED BY <1>2, <1>3, <1>4

-----------------------------------------------------------------------------
(* What a step of the loop does to the queue: it takes events through the  *)
(* function of the phase, or drops deleted ones.                           *)
LoopEvents ==
  \A c \in DOMAIN ev' :
    /\ c \in DOMAIN ev
    /\ \/ ev'[c] = ev[c]
       \/ /\ Visible(ev[c]) /\ ev[c].state = Pos(pc)
          /\ Becomes(ev[c], ev'[c])

LEMMA PhaseEvents ==
  ASSUME IInv, NEW s, s = Pos(pc), NEW out,
         \A c \in DOMAIN ev : IF Visible(ev[c]) /\ ev[c].state = s
                              THEN Becomes(ev[c], out[c].e) ELSE out[c] = Cell(ev[c]),
         ev' = [c \in DOMAIN ev |-> out[c].e]
  PROVE  LoopEvents
<1> SUFFICES ASSUME NEW c \in DOMAIN ev
             PROVE  \/ ev'[c] = ev[c]
                    \/ /\ Visible(ev[c]) /\ ev[c].state = Pos(pc)
                       /\ Becomes(ev[c], ev'[c])
  BY DEF LoopEvents
<1>1. ev'[c] = out[c].e
  OBVIOUS
<1>2. CASE Visible(ev[c]) /\ ev[c].state = s
  BY <1>1, <1>2
<1>3. CASE ~(Visible(ev[c]) /\ ev[c].state = s)
  BY <1>1, <1>3, CellKeeps
<1> QED BY <1>2, <1>3

LEMMA LoopBecomes == IInv /\ RethinkStep => LoopEvents
<1> SUFFICES ASSUME IInv, RethinkStep PROVE LoopEvents
  OBVIOUS
<1>0. /\ \A c \in DOMAIN ev : ev[c] \in Event
      /\ now \in Int /\ snooze \in Nat /\ tzCurr \in Int
  BY EnvironmentConstants DEF IInv, Typed, QueueOK, LoopOK, ZonesOK
<1>1. CASE RethinkNew
  <2> DEFINE out == [c \in DOMAIN ev |-> IF Visible(ev[c]) /\ ev[c].state = S_NEW
                                        THEN NewStep(ev[c]) ELSE Cell(ev[c])]
  <2>1. Pos(pc) = S_NEW /\ ev' = [c \in DOMAIN ev |-> out[c].e]
    BY <1>1 DEF RethinkNew, Phase, PassOver, Pos
  <2>2. \A c \in DOMAIN ev : IF Visible(ev[c]) /\ ev[c].state = S_NEW
                             THEN Becomes(ev[c], out[c].e) ELSE out[c] = Cell(ev[c])
    BY <1>0, NewBecomes
  <2> HIDE DEF out
  <2> QED BY <2>1, <2>2, PhaseEvents
<1>2. CASE RethinkWaitconn
  <2> DEFINE out == [c \in DOMAIN ev |-> IF Visible(ev[c]) /\ ev[c].state = S_WAITCONN
                                        THEN WaitconnStep(ev[c]) ELSE Cell(ev[c])]
  <2>1. Pos(pc) = S_WAITCONN /\ ev' = [c \in DOMAIN ev |-> out[c].e]
    BY <1>2 DEF RethinkWaitconn, Phase, PassOver, Pos
  <2>2. \A c \in DOMAIN ev : IF Visible(ev[c]) /\ ev[c].state = S_WAITCONN
                             THEN Becomes(ev[c], out[c].e) ELSE out[c] = Cell(ev[c])
    BY <1>0, WaitconnBecomes
  <2> HIDE DEF out
  <2> QED BY <2>1, <2>2, PhaseEvents
<1>3. CASE RethinkMissed
  <2> DEFINE out == [c \in DOMAIN ev |-> IF Visible(ev[c]) /\ ev[c].state = S_MISSED
                                        THEN MissedStep(ev[c]) ELSE Cell(ev[c])]
  <2>1. Pos(pc) = S_MISSED /\ ev' = [c \in DOMAIN ev |-> out[c].e]
    BY <1>3 DEF RethinkMissed, Phase, PassOver, Pos
  <2>2. \A c \in DOMAIN ev : IF Visible(ev[c]) /\ ev[c].state = S_MISSED
                             THEN Becomes(ev[c], out[c].e) ELSE out[c] = Cell(ev[c])
    BY <1>0, MissedBecomes
  <2> HIDE DEF out
  <2> QED BY <2>1, <2>2, PhaseEvents
<1>4. CASE RethinkPostponed
  <2> DEFINE out == [c \in DOMAIN ev |-> IF Visible(ev[c]) /\ ev[c].state = S_POSTPONED
                                        THEN PostponedStep(ev[c]) ELSE Cell(ev[c])]
  <2>1. Pos(pc) = S_POSTPONED /\ ev' = [c \in DOMAIN ev |-> out[c].e]
    BY <1>4 DEF RethinkPostponed, Phase, PassOver, Pos
  <2>2. \A c \in DOMAIN ev : IF Visible(ev[c]) /\ ev[c].state = S_POSTPONED
                             THEN Becomes(ev[c], out[c].e) ELSE out[c] = Cell(ev[c])
    BY <1>0, PostponedBecomes
  <2> HIDE DEF out
  <2> QED BY <2>1, <2>2, PhaseEvents
<1>5. CASE RethinkLimbo
  <2> DEFINE out == [c \in DOMAIN ev |-> IF Visible(ev[c]) /\ ev[c].state = S_LIMBO
                                        THEN LimboStep(ev[c]) ELSE Cell(ev[c])]
  <2>1. Pos(pc) = S_LIMBO /\ ev' = [c \in DOMAIN ev |-> out[c].e]
    BY <1>5 DEF RethinkLimbo, Phase, PassOver, Pos
  <2>2. \A c \in DOMAIN ev : IF Visible(ev[c]) /\ ev[c].state = S_LIMBO
                             THEN Becomes(ev[c], out[c].e) ELSE out[c] = Cell(ev[c])
    BY <1>0, LimboBecomes
  <2> HIDE DEF out
  <2> QED BY <2>1, <2>2, PhaseEvents
<1>6. CASE RethinkTriggered
  <2> DEFINE out == [c \in DOMAIN ev |-> IF Visible(ev[c]) /\ ev[c].state = S_TRIGGERED
                                        THEN TriggeredStep(ev[c]) ELSE Cell(ev[c])]
  <2>1. Pos(pc) = S_TRIGGERED /\ ev' = [c \in DOMAIN ev |-> out[c].e]
    BY <1>6 DEF RethinkTriggered, Phase, PassOver, Pos
  <2>2. \A c \in DOMAIN ev : IF Visible(ev[c]) /\ ev[c].state = S_TRIGGERED
                             THEN Becomes(ev[c], out[c].e) ELSE out[c] = Cell(ev[c])
    BY <1>0, TriggeredBecomes
  <2> HIDE DEF out
  <2> QED BY <2>1, <2>2, PhaseEvents
<1>7. CASE RethinkWaitsysui
  <2> DEFINE out == [c \in DOMAIN ev |-> IF Visible(ev[c]) /\ ev[c].state = S_WAITSYSUI
                                        THEN WaitsysuiStep(ev[c]) ELSE Cell(ev[c])]
  <2>1. Pos(pc) = S_WAITSYSUI /\ ev' = [c \in DOMAIN ev |-> out[c].e]
    BY <1>7 DEF RethinkWaitsysui, Phase, PassOver, Pos
  <2>2. \A c \in DOMAIN ev : IF Visible(ev[c]) /\ ev[c].state = S_WAITSYSUI
                             THEN Becomes(ev[c], out[c].e) ELSE out[c] = Cell(ev[c])
    BY <1>0, WaitsysuiBecomes
  <2> HIDE DEF out
  <2> QED BY <2>1, <2>2, PhaseEvents
<1>8. CASE RethinkSysuiReq
  <2> DEFINE out == [c \in DOMAIN ev |-> IF Visible(ev[c]) /\ ev[c].state = S_SYSUI_REQ
                                        THEN BackToWait(ev[c]) ELSE Cell(ev[c])]
  <2>1. Pos(pc) = S_SYSUI_REQ /\ ev' = [c \in DOMAIN ev |-> out[c].e]
    BY <1>8 DEF RethinkSysuiReq, Phase, PassOver, Pos
  <2>2. \A c \in DOMAIN ev : IF Visible(ev[c]) /\ ev[c].state = S_SYSUI_REQ
                             THEN Becomes(ev[c], out[c].e) ELSE out[c] = Cell(ev[c])
    BY <1>0, BackToWaitBecomes
  <2> HIDE DEF out
  <2> QED BY <2>1, <2>2, PhaseEvents
<1>9. CASE RethinkSysuiAck
  <2> DEFINE out == [c \in DOMAIN ev |-> IF Visible(ev[c]) /\ ev[c].state = S_SYSUI_ACK
                                        THEN BackToWait(ev[c]) ELSE Cell(ev[c])]
  <2>1. Pos(pc) = S_SYSUI_ACK /\ ev' = [c \in DOMAIN ev |-> out[c].e]
    BY <1>9 DEF RethinkSysuiAck, Phase, PassOver, Pos
  <2>2. \A c \in DOMAIN ev : IF Visible(ev[c]) /\ ev[c].state = S_SYSUI_ACK
                             THEN Becomes(ev[c], out[c].e) ELSE out[c] = Cell(ev[c])
    BY <1>0, BackToWaitBecomes
  <2> HIDE DEF out
  <2> QED BY <2>1, <2>2, PhaseEvents
<1>10. CASE RethinkSysuiRsp
  <2> DEFINE out == [c \in DOMAIN ev |-> IF Visible(ev[c]) /\ ev[c].state = S_SYSUI_RSP
                                        THEN SysuiRspStep(ev[c]) ELSE Cell(ev[c])]
  <2>1. Pos(pc) = S_SYSUI_RSP /\ ev' = [c \in DOMAIN ev |-> out[c].e]
    BY <1>10 DEF RethinkSysuiRsp, Phase, PassOver, Pos
  <2>2. \A c \in DOMAIN ev : IF Visible(ev[c]) /\ ev[c].state = S_SYSUI_RSP
                             THEN Becomes(ev[c], out[c].e) ELSE out[c] = Cell(ev[c])
    BY <1>0, SysuiRspBecomes
  <2> HIDE DEF out
  <2> QED BY <2>1, <2>2, PhaseEvents
<1>11. CASE RethinkSnoozed
  <2> DEFINE out == [c \in DOMAIN ev |-> IF Visible(ev[c]) /\ ev[c].state = S_SNOOZED
                                        THEN SnoozedStep(ev[c]) ELSE Cell(ev[c])]
  <2>1. Pos(pc) = S_SNOOZED /\ ev' = [c \in DOMAIN ev |-> out[c].e]
    BY <1>11 DEF RethinkSnoozed, Phase, PassOver, Pos
  <2>2. \A c \in DOMAIN ev : IF Visible(ev[c]) /\ ev[c].state = S_SNOOZED
                             THEN Becomes(ev[c], out[c].e) ELSE out[c] = Cell(ev[c])
    BY <1>0, SnoozedBecomes
  <2> HIDE DEF out
  <2> QED BY <2>1, <2>2, PhaseEvents
<1>12. CASE RethinkServed
  <2> DEFINE out == [c \in DOMAIN ev |-> IF Visible(ev[c]) /\ ev[c].state = S_SERVED
                                        THEN ServedStep(ev[c]) ELSE Cell(ev[c])]
  <2>1. Pos(pc) = S_SERVED /\ ev' = [c \in DOMAIN ev |-> out[c].e]
    BY <1>12 DEF RethinkServed, Phase, PassOver, Pos
  <2>2. \A c \in DOMAIN ev : IF Visible(ev[c]) /\ ev[c].state = S_SERVED
                             THEN Becomes(ev[c], out[c].e) ELSE out[c] = Cell(ev[c])
    BY <1>0, ServedBecomes
  <2> HIDE DEF out
  <2> QED BY <2>1, <2>2, PhaseEvents
<1>13. CASE RethinkRecurring
  <2> DEFINE out == [c \in DOMAIN ev |-> IF Visible(ev[c]) /\ ev[c].state = S_RECURRING
                                        THEN RecurringStep(ev[c]) ELSE Cell(ev[c])]
  <2>1. Pos(pc) = S_RECURRING /\ ev' = [c \in DOMAIN ev |-> out[c].e]
    BY <1>13 DEF RethinkRecurring, Phase, PassOver, Pos
  <2>2. \A c \in DOMAIN ev : IF Visible(ev[c]) /\ ev[c].state = S_RECURRING
                             THEN Becomes(ev[c], out[c].e) ELSE out[c] = Cell(ev[c])
    BY <1>0, RecurringBecomes
  <2> HIDE DEF out
  <2> QED BY <2>1, <2>2, PhaseEvents
<1>14. CASE RethinkDeleted
  <2> DEFINE out == [c \in DOMAIN ev |-> IF Visible(ev[c]) /\ ev[c].state = S_DELETED
                                        THEN DeletedStep(ev[c]) ELSE Cell(ev[c])]
  <2>1. Pos(pc) = S_DELETED /\ ev' = [c \in DOMAIN ev |-> out[c].e]
    BY <1>14 DEF RethinkDeleted, Phase, PassOver, Pos
  <2>2. \A c \in DOMAIN ev : IF Visible(ev[c]) /\ ev[c].state = S_DELETED
                             THEN Becomes(ev[c], out[c].e) ELSE out[c] = Cell(ev[c])
    BY <1>0, DeletedBecomes
  <2> HIDE DEF out
  <2> QED BY <2>1, <2>2, PhaseEvents
<1>15. CASE RethinkQueued
  <2> DEFINE out == [c \in DOMAIN ev |-> IF Visible(ev[c]) /\ ev[c].state = S_QUEUED
                                        THEN QueuedStep(ev[c]) ELSE Cell(ev[c])]
  <2>1. Pos(pc) = S_QUEUED /\ ev' = [c \in DOMAIN ev |-> out[c].e]
    BY <1>15 DEF RethinkQueued, PassOver, Pos
  <2>2. \A c \in DOMAIN ev : IF Visible(ev[c]) /\ ev[c].state = S_QUEUED
                             THEN Becomes(ev[c], out[c].e) ELSE out[c] = Cell(ev[c])
    BY <1>0, QueuedBecomes
  <2> HIDE DEF out
  <2> QED BY <2>1, <2>2, PhaseEvents
<1>16. CASE RethinkTimechange
  <2> DEFINE forw == IF "CLK_MV_FORW" \in flags THEN clk.forw ELSE 0
             back == IF "CLK_MV_BACK" \in flags THEN clk.back ELSE 0
             all == "TZ_CHANGED" \in flags \/ forw + back # 0
             out == [c \in DOMAIN ev |-> IF all /\ c \in InState(S_QUEUED)
                                        THEN Rescheduled(ev[c], forw + back) ELSE Cell(ev[c])]
  <2>1. Pos(pc) = S_QUEUED /\ ev' = [c \in DOMAIN ev |-> out[c].e]
    BY <1>16 DEF RethinkTimechange, Pos
  <2>2. forw + back \in Int
    BY DEF IInv, Typed, ClocksOK
  <2>3. ASSUME NEW c \in DOMAIN ev
        PROVE  \/ ev'[c] = ev[c]
               \/ /\ Visible(ev[c]) /\ ev[c].state = S_QUEUED
                  /\ Becomes(ev[c], ev'[c])
    <3>1. ev'[c] = out[c].e
      BY <2>1
    <3> HIDE DEF forw, back
    <3>2. CASE all /\ c \in InState(S_QUEUED)
      <4>1. Visible(ev[c]) /\ ev[c].state = S_QUEUED /\ out[c] = Rescheduled(ev[c], forw + back)
        BY <3>2 DEF InState
      <4> HIDE DEF out
      <4> QED BY <1>0, <2>2, <3>1, <4>1, RescheduledBecomes
    <3>3. CASE ~(all /\ c \in InState(S_QUEUED))
      <4>1. out[c] = Cell(ev[c])
        BY <3>3
      <4> HIDE DEF out
      <4> QED BY <3>1, <4>1, CellKeeps
    <3> QED BY <3>2, <3>3
  <2> QED BY <2>1, <2>3 DEF LoopEvents
<1>17. CASE RethinkCleanup
  BY <1>17 DEF RethinkCleanup, LoopEvents, Kept
<1>18. CASE RethinkFinish
  BY <1>18 DEF RethinkFinish, LoopEvents
<1> QED BY <1>1, <1>2, <1>3, <1>4, <1>5, <1>6, <1>7, <1>8, <1>9, <1>10, <1>11, <1>12,
          <1>13, <1>14, <1>15, <1>16, <1>17, <1>18
        DEF RethinkStep

-----------------------------------------------------------------------------
(* What the handlers and timers outside the loop do to the queue.          *)
HandlerStep == TimerStep \/ ClientStep \/ UserStep \/ SignalStep \/ ClockStep

Handled(e, f) ==
  /\ f \in Event /\ f.kind = e.kind /\ f.disabled = e.disabled /\ SameTimes(e, f)
  /\ \/ f.state = e.state
     \/ f.state = S_DELETED
     \/ e.state = S_SYSUI_REQ /\ f.state = S_SYSUI_ACK
     \/ e.state \in {S_SYSUI_REQ, S_SYSUI_ACK} /\ f.state = S_SYSUI_RSP

(* An event a client has just added, not triggered in the past.            *)
Added(f) ==
  \E k \in Kinds : /\ f = FreshEvent(k, InitialTrigger(k, Wall, tzCurr))
                   /\ InitialTrigger(k, Wall, tzCurr) >= Wall

HandlerEvents ==
  \A c \in DOMAIN ev' :
    \/ c \in DOMAIN ev /\ Handled(ev[c], ev'[c])
    \/ c = lastCookie + 1 /\ lastCookie' = lastCookie + 1 /\ Added(ev'[c])

LEMMA HandledSelf ==
  ASSUME NEW e \in Event
  PROVE  Handled(e, e)
BY DEF Handled, SameTimes

LEMMA QuietEvents ==
  ASSUME QueueOK, UNCHANGED ev
  PROVE  HandlerEvents
BY HandledSelf DEF HandlerEvents, QueueOK

LEMMA DeletingEvents ==
  ASSUME QueueOK, NEW c, NEW d \in DOMAIN ev
  PROVE  /\ DOMAIN Deleting(c) = DOMAIN ev /\ Handled(ev[d], Deleting(c)[d])
         /\ Deleting(c)[d].state \in {ev[d].state, S_DELETED}
<1>0. DOMAIN Deleting(c) = DOMAIN ev /\ Deleting(c)[d] \in Event /\ ev[d] \in Event
  BY DeletingOk DEF QueueOK
<1>1. CASE c \in DOMAIN ev /\ d = c
  <2>1. Deleting(c) = [ev EXCEPT ![c] = [ev[c] EXCEPT !.state = S_DELETED]]
    BY <1>1 DEF Deleting, QueueOK
  <2>2. Deleting(c)[d] = [ev[d] EXCEPT !.state = S_DELETED]
    BY <1>1, <2>1 DEF QueueOK
  <2>3. /\ Deleting(c)[d].kind = ev[d].kind /\ Deleting(c)[d].disabled = ev[d].disabled
        /\ Deleting(c)[d].state = S_DELETED /\ SameTimes(ev[d], Deleting(c)[d])
    BY <1>0, <2>2 DEF SameTimes, Event
  <2> QED BY <1>0, <2>3 DEF Handled
<1>2. CASE c \in DOMAIN ev /\ d # c
  <2>1. Deleting(c) = [ev EXCEPT ![c] = [ev[c] EXCEPT !.state = S_DELETED]]
    BY <1>2 DEF Deleting, QueueOK
  <2>2. Deleting(c)[d] = ev[d]
    BY <1>2, <2>1 DEF QueueOK
  <2> QED BY <1>0, <2>2, HandledSelf
<1>3. CASE c \notin DOMAIN ev
  BY <1>0, <1>3, HandledSelf DEF Deleting
<1> QED BY <1>0, <1>1, <1>2, <1>3

LEMMA InsertEvents ==
  ASSUME Typed, NEW q, NEW k \in Kinds, Insert(q, k), DOMAIN q = DOMAIN ev,
         \A c \in DOMAIN ev : Handled(ev[c], q[c])
  PROVE  HandlerEvents
<1> DEFINE t == InitialTrigger(k, Wall, tzCurr)
<1>1. CASE t >= Wall
  <2>1. /\ lastCookie' = lastCookie + 1
        /\ ev' = [c \in DOMAIN q \cup {lastCookie + 1} |->
                    IF c = lastCookie + 1 THEN FreshEvent(k, t) ELSE q[c]]
    BY <1>1 DEF Insert
  <2>2. \A c \in DOMAIN ev' : \/ c = lastCookie + 1 /\ ev'[c] = FreshEvent(k, t)
                              \/ c \in DOMAIN ev /\ ev'[c] = q[c]
    BY <2>1
  <2> QED BY <1>1, <2>1, <2>2 DEF HandlerEvents, Added
<1>2. CASE ~(t >= Wall)
  <2>1. ev' = q
    BY <1>2 DEF Insert
  <2> QED BY <2>1 DEF HandlerEvents
<1> QED BY <1>1, <1>2

(* The filter of queue_event_set_state at work.                            *)
LEMMA EventInStateEvents ==
  ASSUME QueueOK, NEW c, NEW s \in {S_SYSUI_ACK, S_SYSUI_RSP}, NEW d \in DOMAIN ev
  PROVE  /\ DOMAIN EventInState(c, s) = DOMAIN ev
         /\ Handled(ev[d], EventInState(c, s)[d])
         /\ d # c => EventInState(c, s)[d] = ev[d]
         /\ EventInState(c, s)[d].state \in {ev[d].state, s}
         /\ d = c /\ s = S_SYSUI_RSP /\ ev[d].state \in {S_SYSUI_REQ, S_SYSUI_ACK}
              => EventInState(c, s)[d].state = s
<1> USE DEF States, S_NEW, S_SYSUI_REQ, S_SYSUI_ACK, S_SYSUI_RSP, S_FINALIZED
<1>0. /\ DOMAIN EventInState(c, s) = DOMAIN ev /\ EventInState(c, s)[d] \in Event
      /\ ev[d] \in Event
  BY EventInStateOk DEF QueueOK
<1>1. CASE c \in DOMAIN ev /\ d = c
  <2> DEFINE x == SetState(Cell(ev[d]), s)
  <2>1. EventInState(c, s) = [ev EXCEPT ![c] = SetState(Cell(ev[c]), s).e]
    BY <1>1 DEF EventInState
  <2>2. EventInState(c, s)[d] = x.e
    BY <1>1, <2>1 DEF QueueOK
  <2>3. Cell(ev[d]) \in CellType /\ Cell(ev[d]).e = ev[d]
    BY <1>0, CellOk
  <2>4. /\ x.e.kind = ev[d].kind /\ x.e.disabled = ev[d].disabled /\ SameTimes(ev[d], x.e)
    <3>1. s \in States
      OBVIOUS
    <3>2. /\ x.e.kind = Cell(ev[d]).e.kind /\ x.e.disabled = Cell(ev[d]).e.disabled
          /\ SameTimes(Cell(ev[d]).e, x.e)
      BY <2>3, <3>1, SetStateOk, SetStateKeeps
    <3> QED BY <2>3, <3>2
  <2>5. \/ x.e.state = ev[d].state
        \/ ev[d].state = S_SYSUI_REQ /\ x.e.state = S_SYSUI_ACK
        \/ ev[d].state \in {S_SYSUI_REQ, S_SYSUI_ACK} /\ x.e.state = S_SYSUI_RSP
    <3>1. CASE Admits(ev[d].state, s)
      <4>1. x.e = [ev[d] EXCEPT !.state = s]
        BY <2>3, <3>1 DEF SetState
      <4>2. x.e.state = s
        BY <1>0, <4>1 DEF Event
      <4>3. \/ s = S_SYSUI_ACK /\ ev[d].state = S_SYSUI_REQ
            \/ s = S_SYSUI_RSP /\ ev[d].state \in {S_SYSUI_REQ, S_SYSUI_ACK}
        <5>1. CASE s = S_SYSUI_ACK
          BY <3>1, <5>1 DEF Admits
        <5>2. CASE s = S_SYSUI_RSP
          BY <3>1, <5>2 DEF Admits
        <5> QED BY <5>1, <5>2
      <4> QED BY <4>2, <4>3
    <3>2. CASE ~Admits(ev[d].state, s)
      BY <2>3, <3>2 DEF SetState
    <3> QED BY <3>1, <3>2
  <2>6. /\ x.e.state \in {ev[d].state, s}
        /\ s = S_SYSUI_RSP /\ ev[d].state \in {S_SYSUI_REQ, S_SYSUI_ACK} => x.e.state = s
    <3>1. s \in States
      OBVIOUS
    <3>2. x.e.state \in {ev[d].state, s}
      BY <2>3, <3>1, SetStateOk
    <3>3. ASSUME s = S_SYSUI_RSP, ev[d].state \in {S_SYSUI_REQ, S_SYSUI_ACK}
          PROVE  x.e.state = s
      <4>1. Admits(ev[d].state, s)
        BY <3>3 DEF Admits
      <4>2. x.e = [ev[d] EXCEPT !.state = s]
        BY <2>3, <4>1 DEF SetState
      <4> QED BY <1>0, <4>2 DEF Event
    <3> QED BY <3>2, <3>3
  <2> HIDE DEF x
  <2> QED BY <1>0, <1>1, <2>2, <2>4, <2>5, <2>6 DEF Handled
<1>2. CASE c \in DOMAIN ev /\ d # c
  <2>1. EventInState(c, s) = [ev EXCEPT ![c] = SetState(Cell(ev[c]), s).e]
    BY <1>2 DEF EventInState
  <2>2. EventInState(c, s)[d] = ev[d]
    BY <1>2, <2>1 DEF QueueOK
  <2> QED BY <1>0, <1>2, <2>2, HandledSelf
<1>3. CASE c \notin DOMAIN ev
  BY <1>0, <1>3, HandledSelf DEF EventInState
<1> QED BY <1>0, <1>1, <1>2, <1>3

LEMMA HandlerBecomes == IInv /\ HandlerStep => HandlerEvents
<1> SUFFICES ASSUME IInv, HandlerStep PROVE HandlerEvents
  OBVIOUS
<1>0. Typed /\ QueueOK
  BY DEF IInv, Typed
<1>1. CASE TimerStep
  <2>1. UNCHANGED ev
    BY <1>1 DEF TimerStep, RethinkUnstable, RethinkStart, WakeupFires, SaveFires,
                LimboTimeout, LimboFrame
  <2> QED BY <1>0, <2>1, QuietEvents
<1>2. CASE SignalStep
  <2>1. UNCHANGED ev
    BY <1>2 DEF SignalStep, NameLost, NameGained, InitDone, HildonReady, HomeReady,
                IcdStatus, TimeChange, LimboFrame
  <2> QED BY <1>0, <2>1, QuietEvents
<1>3. CASE ClockStep
  <2>1. UNCHANGED ev
    BY <1>3 DEF ClockStep, Tick, ClockJump, ZoneChange, ClockFrame
  <2> QED BY <1>0, <2>1, QuietEvents
<1>4. CASE ClientStep
  <2>1. ASSUME NEW k \in Kinds, EventAdd(k) PROVE HandlerEvents
    <3>1. \A c \in DOMAIN ev : Handled(ev[c], ev[c])
      BY <1>0, HandledSelf DEF QueueOK
    <3> QED BY <1>0, <2>1, <3>1, InsertEvents DEF EventAdd
  <2>2. ASSUME NEW k \in Kinds, NEW c, EventUpdate(c, k) PROVE HandlerEvents
    <3>1. DOMAIN Deleting(c) = DOMAIN ev
      BY <1>0, DeletingOk
    <3>2. \A d \in DOMAIN ev : Handled(ev[d], Deleting(c)[d])
      BY <1>0, DeletingEvents
    <3> QED BY <1>0, <2>2, <3>1, <3>2, InsertEvents DEF EventUpdate
  <2>3. ASSUME NEW c, EventDel(c) PROVE HandlerEvents
    <3>1. ev' = Deleting(c) /\ DOMAIN Deleting(c) = DOMAIN ev
      BY <1>0, <2>3, DeletingOk DEF EventDel
    <3>2. \A d \in DOMAIN ev : Handled(ev[d], Deleting(c)[d])
      BY <1>0, DeletingEvents
    <3> QED BY <3>1, <3>2 DEF HandlerEvents
  <2>4. CASE ClearUserData
    BY <2>4 DEF ClearUserData, NoEvents, HandlerEvents
  <2>5. ASSUME UNCHANGED ev PROVE HandlerEvents
    BY <1>0, <2>5, QuietEvents
  <2>6. (\E s \in SnoozeVals : SnoozeSet(s)) \/ RestoreFactorySettings \/ SaveData
          => UNCHANGED ev
    BY DEF SnoozeSet, RestoreFactorySettings, SaveData
  <2> QED BY <1>4, <2>1, <2>2, <2>3, <2>4, <2>5, <2>6 DEF ClientStep
<1>5. CASE UserStep
  <2>1. ASSUME NEW c, QueueAck(c) PROVE HandlerEvents
    <3>1. ev' = EventInState(c, S_SYSUI_ACK)
      BY <2>1 DEF QueueAck
    <3>2. DOMAIN EventInState(c, S_SYSUI_ACK) = DOMAIN ev
      BY <1>0, EventInStateOk DEF States, S_NEW, S_SYSUI_ACK, S_FINALIZED
    <3>3. \A d \in DOMAIN ev : Handled(ev[d], EventInState(c, S_SYSUI_ACK)[d])
      BY <1>0, EventInStateEvents
    <3> QED BY <3>1, <3>2, <3>3 DEF HandlerEvents
  <2>2. ASSUME NEW c, NEW b, NEW p, UserAnswers(c, b, p) PROVE HandlerEvents
    BY <1>0, <2>2, QuietEvents DEF UserAnswers
  <2>3. ASSUME NEW m \in answers, EventAck(m) PROVE HandlerEvents
    <3> DEFINE q == EventInState(m.cookie, S_SYSUI_RSP)
    <3>1. ev' = IF m.cookie \in DOMAIN q
                THEN [q EXCEPT ![m.cookie].response = m.button] ELSE q
      BY <2>3 DEF EventAck
    <3>2. DOMAIN q = DOMAIN ev /\ q \in [DOMAIN ev -> Event]
      BY <1>0, EventInStateOk DEF States, S_NEW, S_SYSUI_RSP, S_FINALIZED
    <3>3. \A d \in DOMAIN ev : Handled(ev[d], q[d])
      BY <1>0, EventInStateEvents
    <3>4. m.button \in Int
      BY <1>0, EnvironmentConstants DEF Typed, PeersOK
    <3> HIDE DEF q
    <3>5. ASSUME NEW d \in DOMAIN ev, d = m.cookie PROVE Handled(ev[d], ev'[d])
      <4>1. ev'[d] = [q[d] EXCEPT !.response = m.button]
        BY <3>1, <3>2, <3>5
      <4>2. q[d] \in Event /\ Handled(ev[d], q[d])
        BY <3>2, <3>3
      <4>3. /\ ev'[d] \in Event /\ ev'[d].kind = q[d].kind /\ ev'[d].disabled = q[d].disabled
            /\ ev'[d].state = q[d].state /\ SameTimes(q[d], ev'[d])
        BY <3>4, <4>1, <4>2 DEF Event, SameTimes
      <4> QED BY <4>2, <4>3 DEF Handled, SameTimes
    <3>6. ASSUME NEW d \in DOMAIN ev, d # m.cookie PROVE Handled(ev[d], ev'[d])
      <4>1. ev'[d] = q[d]
        BY <3>1, <3>2, <3>6
      <4> QED BY <3>3, <4>1
    <3>7. DOMAIN ev' = DOMAIN ev
      BY <3>1, <3>2
    <3> QED BY <3>5, <3>6, <3>7 DEF HandlerEvents
  <2> QED BY <1>5, <2>1, <2>2, <2>3 DEF UserStep
<1> QED BY <1>1, <1>2, <1>3, <1>4, <1>5 DEF HandlerStep

-----------------------------------------------------------------------------
(* The process.                                                            *)


(* Handlers and timers run while the loop waits.                           *)
LEMMA HandlersWait == HandlerStep => pc = "idle"
<1>1. TimerStep => pc = "idle"
  BY DEF TimerStep, RethinkUnstable, RethinkStart, WakeupFires, SaveFires, LimboTimeout
<1>2. ClientStep => pc = "idle"
  BY DEF ClientStep, EventAdd, EventUpdate, EventDel, SnoozeSet, ClearUserData,
         RestoreFactorySettings, SaveData, May
<1>3. UserStep => pc = "idle"
  BY DEF UserStep, QueueAck, UserAnswers, EventAck, May
<1>4. SignalStep => pc = "idle"
  BY DEF SignalStep, NameLost, NameGained, InitDone, HildonReady, HomeReady, IcdStatus,
         TimeChange, May
<1>5. ClockStep => pc = "idle"
  BY DEF ClockStep, Tick, ClockJump, ZoneChange, May
<1> QED BY <1>1, <1>2, <1>3, <1>4, <1>5 DEF HandlerStep

LEMMA NextSplit == Next <=> RethinkStep \/ HandlerStep
BY DEF Next, HandlerStep

-----------------------------------------------------------------------------
(* The queue file.                                                         *)

LEMMA DurableQuiet ==
  ASSUME Durable, pc = "idle", UNCHANGED <<ev, snooze, save, disk>>,
         rethink' = Never => rethink = Never
  PROVE  Durable'
BY DEF Durable, Quiescent, Snapshot

LEMMA DurableBusy ==
  ASSUME pc' # "idle" \/ rethink' # Never \/ save' = TRUE \/ disk' = Snapshot'
  PROVE  Durable'
BY DEF Durable, Quiescent

LEMMA DurableLoop == RethinkStep => Durable'
<1>1. ASSUME RethinkFinish PROVE Durable'
  BY <1>1, DurableBusy DEF RethinkFinish
<1>2. RethinkStep => RethinkFinish \/ pc' # "idle"
  BY DEF RethinkStep, RethinkNew, RethinkWaitconn, RethinkTimechange, RethinkQueued,
         RethinkMissed, RethinkPostponed, RethinkLimbo, RethinkTriggered, RethinkWaitsysui,
         RethinkSysuiReq, RethinkSysuiAck, RethinkSysuiRsp, RethinkSnoozed, RethinkServed,
         RethinkRecurring, RethinkDeleted, RethinkCleanup, Phase, PassOver
<1> QED BY <1>1, <1>2, DurableBusy

LEMMA RequestAsks ==
  ASSUME Typed
  PROVE  /\ RethinkRequest => rethink' # Never
         /\ \A f, u, d : SetState3(f, u, d) => (rethink' = Never => rethink = Never)
BY RequestedOk DEF RethinkRequest, SetState3

LEMMA DurableHandler == Typed /\ Durable /\ HandlerStep => Durable'
<1> SUFFICES ASSUME Typed, Durable, HandlerStep PROVE Durable'
  OBVIOUS
<1>0. pc = "idle"
  BY HandlersWait
<1>1. CASE TimerStep
  <2>1. CASE RethinkUnstable
    <3>1. rethink' = mono + 1 /\ mono \in Nat
      BY <2>1 DEF RethinkUnstable, Typed, ClocksOK
    <3>2. rethink' # Never
      BY <3>1 DEF Never
    <3> QED BY <3>2, DurableBusy
  <2>2. CASE RethinkStart
    BY <2>2, DurableBusy DEF RethinkStart
  <2>3. CASE WakeupFires
    BY <2>3, RequestAsks, DurableBusy DEF WakeupFires
  <2>4. CASE SaveFires
    BY <2>4, DurableBusy DEF SaveFires, ForcedSave, Snapshot, queueVars
  <2>5. CASE LimboTimeout
    BY <1>0, <2>5, RequestAsks, DurableQuiet
       DEF LimboTimeout, LimboDisabled, LimboFrame, SetFlags, queueVars
  <2> QED BY <1>1, <2>1, <2>2, <2>3, <2>4, <2>5 DEF TimerStep
<1>2. CASE ClientStep
  <2>1. (\E k \in Kinds : EventAdd(k) \/ \E c \in 1 .. lastCookie : EventUpdate(c, k))
          \/ (\E c \in DOMAIN ev : EventDel(c)) => RethinkRequest
    BY DEF EventAdd, EventUpdate, EventDel
  <2>2. (\E s \in SnoozeVals : SnoozeSet(s)) => save' = TRUE
    BY DEF SnoozeSet, RequestSave
  <2>3. ClearUserData => disk' = Snapshot'
    BY DEF ClearUserData, ForcedSave, Snapshot
  <2>4. RestoreFactorySettings => disk' = Snapshot'
    BY DEF RestoreFactorySettings, ForcedSave, Snapshot
  <2>5. SaveData => disk' = Snapshot'
    BY DEF SaveData, ForcedSave, Snapshot, queueVars
  <2> QED BY <1>2, <2>1, <2>2, <2>3, <2>4, <2>5, RequestAsks, DurableBusy DEF ClientStep
<1>3. CASE UserStep
  <2>1. (\E c \in dialogs : QueueAck(c)) \/ (\E m \in answers : EventAck(m)) => RethinkRequest
    BY DEF QueueAck, EventAck
  <2>2. ASSUME NEW c, NEW b, NEW p, UserAnswers(c, b, p) PROVE Durable'
    BY <1>0, <2>2, DurableQuiet DEF UserAnswers, queueVars, timerVars
  <2> QED BY <1>3, <2>1, <2>2, RequestAsks, DurableBusy DEF UserStep
<1>4. CASE SignalStep
  <2>1. /\ UNCHANGED <<ev, snooze, save, disk>>
        /\ \/ rethink' = rethink
           \/ \E f, u, d : SetState3(f, u, d)
    <3>1. ASSUME NEW s, NameLost(s) \/ NameGained(s)
          PROVE  /\ UNCHANGED <<ev, snooze, save, disk>>
                 /\ \E f, u, d : SetState3(f, u, d)
      BY <3>1 DEF NameLost, NameGained, HandlerFrame
    <3>2. ASSUME LimboDisabled, LimboFrame
          PROVE  /\ UNCHANGED <<ev, snooze, save, disk>>
                 /\ \E f, u, d : SetState3(f, u, d)
      BY <3>2 DEF LimboDisabled, LimboFrame, SetFlags, queueVars
    <3>3. ASSUME HomeReady, WaitState # "home"
          PROVE  /\ UNCHANGED <<ev, snooze, save, disk>> /\ rethink' = rethink
      BY <3>3 DEF HomeReady, LimboFrame, queueVars
    <3>4. ASSUME NEW b, IcdStatus \/ TimeChange(b)
          PROVE  /\ UNCHANGED <<ev, snooze, save, disk>>
                 /\ \E f, u, d : SetState3(f, u, d)
      BY <3>4 DEF IcdStatus, TimeChange, HandlerFrame, SetFlags
    <3> QED BY <1>4, <3>1, <3>2, <3>3, <3>4 DEF SignalStep, InitDone, HildonReady, HomeReady
  <2> QED BY <1>0, <2>1, RequestAsks, DurableQuiet
<1>5. CASE ClockStep
  <2>1. UNCHANGED <<ev, snooze, save, disk, rethink>>
    BY <1>5 DEF ClockStep, Tick, ClockJump, ZoneChange, ClockFrame, queueVars, timerVars
  <2> QED BY <1>0, <2>1, DurableQuiet
<1> QED BY <1>1, <1>2, <1>3, <1>4, <1>5 DEF HandlerStep

(* Whatever was asked of the daemon and however its timers interleave: a   *)
(* daemon at rest without a save pending has the queue and the default     *)
(* snooze in the queue file.                                               *)
THEOREM SavedAtRest == Spec => []Durable
<1>1. Init => Durable
  BY DEF Init, Durable, Snapshot
<1>2. Typed /\ Durable /\ [Next]_vars => Durable'
  <2> SUFFICES ASSUME Typed, Durable, [Next]_vars PROVE Durable'
    OBVIOUS
  <2>1. CASE UNCHANGED vars
    BY <2>1 DEF vars, queueVars, timerVars, Durable, Quiescent, Snapshot
  <2> QED BY <2>1, DurableLoop, DurableHandler, NextSplit
<1> QED BY <1>1, <1>2, AlwaysTyped, PTL DEF Spec

-----------------------------------------------------------------------------
(* The trigger times the loop computes.                                    *)

LEMMA AheadLoop ==
  ASSUME IInv, RethinkStep, NEW c \in DOMAIN ev \cap DOMAIN ev',
         pc \in {"postponed", "snoozed", "recurring"}, ev'[c].trigger # ev[c].trigger
  PROVE  ev'[c].trigger > now
<1>1. LoopEvents
  BY LoopBecomes
<1>2. ev[c].state = Pos(pc) /\ Becomes(ev[c], ev'[c]) /\ ev'[c] # ev[c]
  BY <1>1 DEF LoopEvents
<1>3. Pos(pc) \in {S_POSTPONED, S_SNOOZED, S_RECURRING}
  BY DEF Pos
<1>4. ~SameTimes(ev[c], ev'[c])
  BY DEF SameTimes
<1>5. ~Shifts(ev[c], ev'[c])
  BY <1>2, <1>3 DEF Shifts, S_QUEUED, S_POSTPONED, S_SNOOZED, S_RECURRING
<1>6. Moves(ev[c], ev'[c])
  BY <1>2, <1>5 DEF Becomes
<1> QED BY <1>4, <1>6 DEF Moves

(* An alarm that was postponed, snoozed or comes again is never queued     *)
(* into the past.                                                          *)
THEOREM QueuedAhead == Spec => TriggersAhead
<1> DEFINE A == \A c \in DOMAIN ev \cap DOMAIN ev' :
                  pc \in {"postponed", "snoozed", "recurring"}
                    /\ ev'[c].trigger # ev[c].trigger
                  => ev'[c].trigger > now
<1>1. IInv /\ [Next]_vars => [A]_vars
  <2> SUFFICES ASSUME IInv, Next PROVE A
    OBVIOUS
  <2>1. CASE RethinkStep
    BY <2>1, AheadLoop
  <2>2. CASE HandlerStep
    BY <2>2, HandlersWait
  <2> QED BY <2>1, <2>2, NextSplit
<1> QED BY <1>1, Inductive, PTL DEF Spec, TriggersAhead

-----------------------------------------------------------------------------
(* The limbo.                                                              *)

BeyondLimbo == {S_TRIGGERED, S_WAITSYSUI, S_SYSUI_REQ, S_SYSUI_ACK, S_SYSUI_RSP}

(* The inductive invariant: an event is in the states between limbo and    *)
(* the answer of the user, and has a dialog, only when it may leave limbo. *)
LimboGate ==
  /\ \A c \in DOMAIN ev : ev[c].state \in BeyondLimbo => MayLeaveLimbo(ev[c])
  /\ \A c \in dialogs \cap DOMAIN ev : MayLeaveLimbo(ev[c])

(* The desktop stays up, and acting dead is left for good.                 *)
LEMMA LimboFlags ==
  ASSUME [Next]_vars
  PROVE  /\ "DESKTOP_UP" \in flags => "DESKTOP_UP" \in flags'
         /\ "ACT_DEAD" \in flags' => "ACT_DEAD" \in flags
<1> DEFINE GoodFlags(F) == /\ "DESKTOP_UP" \in flags => "DESKTOP_UP" \in F
                           /\ "ACT_DEAD" \in F => "ACT_DEAD" \in flags
<1>1. CASE RethinkStep
  <2>1. RethinkFinish => GoodFlags(flags')
    BY DEF RethinkFinish
  <2>2. RethinkTimechange => GoodFlags(flags')
    BY DEF RethinkTimechange
  <2>3. RethinkStep => RethinkFinish \/ RethinkTimechange \/ UNCHANGED flags
    BY DEF RethinkStep, RethinkNew, RethinkWaitconn, RethinkQueued,
         RethinkMissed, RethinkPostponed, RethinkLimbo, RethinkTriggered, RethinkWaitsysui,
         RethinkSysuiReq, RethinkSysuiAck, RethinkSysuiRsp, RethinkSnoozed, RethinkServed,
         RethinkRecurring, RethinkDeleted, RethinkCleanup, Phase, stateVars
  <2> QED BY <1>1, <2>1, <2>2, <2>3
<1>2. CASE TimerStep
  <2>1. RethinkUnstable => GoodFlags(flags')
    BY DEF RethinkUnstable
  <2>2. RethinkStart => GoodFlags(flags')
    BY DEF RethinkStart
  <2>3. LimboTimeout => GoodFlags(flags')
    BY DEF LimboTimeout, LimboDisabled, SetFlags, SetState3
  <2>4. WakeupFires \/ SaveFires => UNCHANGED flags
    BY DEF WakeupFires, SaveFires, stateVars
  <2> QED BY <1>2, <2>1, <2>2, <2>3, <2>4 DEF TimerStep
<1>3. CASE ClientStep
  <2>1. UNCHANGED flags
    BY <1>3 DEF ClientStep, EventAdd, EventUpdate, EventDel, SnoozeSet, ClearUserData,
                RestoreFactorySettings, SaveData, stateVars
  <2> QED BY <2>1
<1>4. CASE UserStep
  <2>1. ASSUME NEW m, EventAck(m) PROVE GoodFlags(flags')
    BY <2>1 DEF EventAck
  <2>2. (\E c \in dialogs : QueueAck(c))
          \/ (\E c \in dialogs, b \in Buttons, q \in BOOLEAN : UserAnswers(c, b, q))
          => UNCHANGED flags
    BY DEF QueueAck, UserAnswers, stateVars
  <2> QED BY <1>4, <2>1, <2>2 DEF UserStep
<1>5. CASE SignalStep
  <2>1. ASSUME NEW s, NameLost(s) \/ NameGained(s) PROVE UNCHANGED flags
    BY <2>1 DEF NameLost, NameGained, SetState3
  <2>2. LimboDisabled => GoodFlags(flags')
    BY DEF LimboDisabled, SetFlags, SetState3
  <2>3. HomeReady /\ WaitState # "home" => UNCHANGED flags
    BY DEF HomeReady, stateVars
  <2>4. IcdStatus => GoodFlags(flags')
    BY DEF IcdStatus, SetState3
  <2>5. ASSUME NEW b, TimeChange(b) PROVE GoodFlags(flags')
    BY <2>5 DEF TimeChange, SetFlags, SetState3
  <2> QED BY <1>5, <2>1, <2>2, <2>3, <2>4, <2>5
          DEF SignalStep, InitDone, HildonReady, HomeReady
<1>6. CASE ClockStep
  <2>1. UNCHANGED flags
    BY <1>6 DEF ClockStep, Tick, ClockJump, ZoneChange, ClockFrame, stateVars
  <2> QED BY <2>1
<1>7. CASE UNCHANGED vars
  BY <1>7 DEF vars, stateVars
<1> QED BY <1>1, <1>2, <1>3, <1>4, <1>5, <1>6, <1>7 DEF Next

(* A dialog comes up only for an event that waits for system ui.           *)
LEMMA DialogsGrow ==
  ASSUME [Next]_vars
  PROVE  dialogs' \subseteq dialogs \cup InState(S_WAITSYSUI)
<1>1. CASE RethinkStep
  <2>1. RethinkWaitsysui => dialogs' \subseteq dialogs \cup InState(S_WAITSYSUI)
    BY DEF RethinkWaitsysui, AddDialogs
  <2>2. RethinkDeleted => dialogs' \subseteq dialogs
    BY DEF RethinkDeleted, CancelDialogs
  <2>3. RethinkStep => RethinkWaitsysui \/ RethinkDeleted \/ UNCHANGED dialogs
    BY DEF RethinkStep, RethinkNew, RethinkWaitconn, RethinkTimechange, RethinkQueued,
         RethinkMissed, RethinkPostponed, RethinkLimbo, RethinkTriggered,
         RethinkSysuiReq, RethinkSysuiAck, RethinkSysuiRsp, RethinkSnoozed, RethinkServed,
         RethinkRecurring, RethinkCleanup, RethinkFinish, peerVars
  <2> QED BY <1>1, <2>1, <2>2, <2>3
<1>2. CASE TimerStep
  BY <1>2 DEF TimerStep, RethinkUnstable, RethinkStart, WakeupFires, SaveFires,
              LimboTimeout, LimboFrame, peerVars
<1>3. CASE ClientStep
  BY <1>3 DEF ClientStep, EventAdd, EventUpdate, EventDel, SnoozeSet, ClearUserData,
              RestoreFactorySettings, SaveData, peerVars
<1>4. CASE UserStep
  BY <1>4 DEF UserStep, QueueAck, UserAnswers, EventAck, peerVars
<1>5. CASE SignalStep
  BY <1>5 DEF SignalStep, NameLost, NameGained, InitDone, HildonReady, HomeReady,
              IcdStatus, TimeChange, LimboFrame, peerVars
<1>6. CASE ClockStep
  BY <1>6 DEF ClockStep, Tick, ClockJump, ZoneChange, ClockFrame, peerVars
<1>7. CASE UNCHANGED vars
  BY <1>7 DEF vars, peerVars
<1> QED BY <1>1, <1>2, <1>3, <1>4, <1>5, <1>6, <1>7 DEF Next

(* The queue after a step, seen from the queue before it.                  *)
LEMMA StepEvents ==
  ASSUME IInv, [Next]_vars, NEW c \in DOMAIN ev'
  PROVE  \/ c \in DOMAIN ev /\ ev'[c] = ev[c]
         \/ c \in DOMAIN ev /\ Becomes(ev[c], ev'[c]) /\ Visible(ev[c])
         \/ c \in DOMAIN ev /\ Handled(ev[c], ev'[c])
         \/ c = lastCookie + 1 /\ Added(ev'[c])
<1>1. CASE RethinkStep
  BY <1>1, LoopBecomes DEF LoopEvents
<1>2. CASE HandlerStep
  BY <1>2, HandlerBecomes DEF HandlerEvents
<1>3. CASE UNCHANGED vars
  BY <1>3 DEF vars
<1> QED BY <1>1, <1>2, <1>3, NextSplit

(* Only an event that may leave limbo, or had left it, is beyond it.       *)
LEMMA BeyondMoves ==
  ASSUME NEW e \in Event, NEW f, f.state \in BeyondLimbo,
         Becomes(e, f) \/ Handled(e, f)
  PROVE  f.kind = e.kind /\ (e.state \in BeyondLimbo \/ MayLeaveLimbo(e))
<1> USE DEF BeyondLimbo, S_NEW, S_WAITCONN, S_QUEUED, S_MISSED, S_POSTPONED, S_LIMBO,
            S_TRIGGERED, S_WAITSYSUI, S_SYSUI_REQ, S_SYSUI_ACK, S_SYSUI_RSP, S_SNOOZED,
            S_SERVED, S_RECURRING, S_DELETED
<1>1. CASE Handled(e, f)
  BY <1>1 DEF Handled
<1>2. CASE Becomes(e, f)
  <2>1. CASE f = e
    BY <2>1
  <2>2. CASE Moves(e, f)
    BY <1>2, <2>2 DEF Moves, Becomes
  <2>3. CASE Shifts(e, f)
    BY <2>3 DEF Shifts
  <2> QED BY <1>2, <2>1, <2>2, <2>3 DEF Becomes
<1> QED BY <1>1, <1>2

LEMMA LimboGateStep == IInv /\ HandedOut /\ LimboGate /\ [Next]_vars => LimboGate'
<1> SUFFICES ASSUME IInv, HandedOut, LimboGate, [Next]_vars PROVE LimboGate'
  OBVIOUS
<1>0. /\ \A c \in DOMAIN ev : ev[c] \in Event
      /\ dialogs \subseteq 1 .. lastCookie /\ lastCookie \in Int
      /\ DOMAIN ev \subseteq 1 .. lastCookie
  BY ServerConstants DEF IInv, Typed, QueueOK, PeersOK, HandedOut
<1>1. ASSUME NEW c \in DOMAIN ev, c \in DOMAIN ev', ev'[c].kind = ev[c].kind,
             MayLeaveLimbo(ev[c])
      PROVE  MayLeaveLimbo(ev[c])'
  BY <1>1, LimboFlags DEF MayLeaveLimbo, Needs
<1>2. ASSUME NEW c \in DOMAIN ev', ev'[c].state \in BeyondLimbo
      PROVE  MayLeaveLimbo(ev[c])'
  <2>1. CASE c \in DOMAIN ev /\ ev'[c] = ev[c]
    BY <1>1, <1>2, <2>1 DEF LimboGate
  <2>2. CASE c \in DOMAIN ev /\ (Becomes(ev[c], ev'[c]) \/ Handled(ev[c], ev'[c]))
    <3>1. ev'[c].kind = ev[c].kind /\ MayLeaveLimbo(ev[c])
      BY <1>0, <1>2, <2>2, BeyondMoves DEF LimboGate
    <3> QED BY <1>1, <2>2, <3>1
  <2>3. CASE Added(ev'[c])
    BY <1>2, <2>3 DEF Added, FreshEvent, BeyondLimbo, S_NEW, S_TRIGGERED, S_WAITSYSUI,
                      S_SYSUI_REQ, S_SYSUI_ACK, S_SYSUI_RSP
  <2> QED BY <2>1, <2>2, <2>3, StepEvents
<1>3. ASSUME NEW c \in dialogs' \cap DOMAIN ev'
      PROVE  MayLeaveLimbo(ev[c])'
  <2>1. c \in dialogs \/ c \in InState(S_WAITSYSUI)
    BY <1>3, DialogsGrow
  <2>2. c \in 1 .. lastCookie
    BY <1>0, <2>1 DEF InState
  <2>3. c # lastCookie + 1
    BY <1>0, <2>2
  <2>4. c \in DOMAIN ev /\ ev'[c].kind = ev[c].kind
    BY <2>3, StepEvents DEF Becomes, Handled
  <2>5. MayLeaveLimbo(ev[c])
    BY <2>1, <2>4 DEF LimboGate, InState, BeyondLimbo
  <2> QED BY <1>1, <2>4, <2>5
<1> QED BY <1>2, <1>3 DEF LimboGate

(* Nothing reaches the user before there is someone to see it: whatever    *)
(* answers, restarts of system ui, snoozes and updates went before, a      *)
(* dialog is up only for an alarm that was let out of limbo.               *)
THEOREM LimboKept == Spec => []LimboHolds
<1>1. Init => LimboGate
  BY DEF Init, LimboGate, NoEvents
<1>2. LimboGate => LimboHolds
  BY DEF LimboGate, LimboHolds, MayLeaveLimbo
<1> QED BY <1>1, <1>2, LimboGateStep, AlwaysHandedOut, PTL DEF Spec

-----------------------------------------------------------------------------
(* What the stability check leaves in its statics.                         *)

Jitter == -CLK_JITTER .. CLK_JITTER

LEMMA BaseClock ==
  ASSUME Typed
  PROVE  /\ ClkBase.initialized
         /\ ClkBase.clock \in Int /\ ClkBase.until \in Int
         /\ clk.initialized => ClkBase.clock = clk.clock
<1>1. CASE clk.initialized
  BY <1>1 DEF ClkBase, Typed, ClocksOK
<1>2. CASE ~clk.initialized
  <2>1. ClkBase = [clk EXCEPT !.initialized = TRUE, !.clock = delta,
                              !.sched = delta, !.until = mono]
    BY <1>2 DEF ClkBase
  <2>2. clk \in [initialized : BOOLEAN, clock : Int, sched : Int, until : Int,
                 forw : Int, back : Int]
    BY DEF Typed, ClocksOK
  <2>3. ClkBase.initialized /\ ClkBase.clock = delta /\ ClkBase.until = mono
    BY <2>1, <2>2
  <2> QED BY <1>2, <2>3 DEF Typed, ClocksOK
<1> QED BY <1>1, <1>2

(* A clock found stable is the one the statics know, within the jitter.    *)
LEMMA StableClock ==
  ASSUME Typed, ClkStable
  PROVE  ClkSeen = ClkBase /\ delta - ClkBase.clock \in Jitter
<1>1. ~ClkDetected
  <2> SUFFICES ASSUME ClkDetected PROVE FALSE
    OBVIOUS
  <2>1. ClkSeen = [ClkBase EXCEPT !.clock = delta, !.until = mono + CLK_STABLE]
    BY DEF ClkSeen
  <2>2. ClkBase \in ClkType /\ mono \in Int /\ CLK_STABLE \in Nat \ {0}
    BY ServerConstants, ClkBaseOk DEF Typed, ClocksOK
  <2>3. ClkSeen.until = mono + CLK_STABLE
    BY <2>1, <2>2 DEF ClkType
  <2> QED BY <2>2, <2>3 DEF ClkStable
<1> QED BY <1>1 DEF ClkSeen, ClkDetected, Jitter

(* A rethink that starts knows the clock.                                  *)
LEMMA StartClock ==
  ASSUME Typed, RethinkStart
  PROVE  /\ clk'.initialized /\ clk'.clock = ClkBase.clock
         /\ delta - clk'.clock \in Jitter
<1>1. ClkSeen = ClkBase /\ delta - ClkBase.clock \in Jitter
  BY StableClock DEF RethinkStart
<1>2. ClkSeen \in ClkType
  BY ClkSeenOk
<1>3. clk'.initialized = ClkSeen.initialized /\ clk'.clock = ClkSeen.clock
  <2> DEFINE moved == ClkSeen.clock - ClkSeen.sched
  <2>1. \/ clk' = [ClkSeen EXCEPT !.sched = @ + moved, !.forw = @ + moved]
        \/ clk' = [ClkSeen EXCEPT !.sched = @ + moved, !.back = @ + moved]
        \/ clk' = ClkSeen
    BY DEF RethinkStart
  <2> HIDE DEF moved
  <2> QED BY <1>2, <2>1 DEF ClkType
<1> QED BY <1>1, <1>3, BaseClock

-----------------------------------------------------------------------------
(* The software wakeup.                                                    *)

(* A pending wakeup rings, by the clock the statics know, when it says.    *)
TimerTrue ==
  wakeup.due # Never =>
    clk.initialized /\ wakeup.due + clk.clock - wakeup.time \in Jitter

TimerOff == wakeup.due = Never => wakeup.time = INT_MAX

(* No time passes inside the loop.                                         *)
LoopClock ==
  pc # "idle" =>
    clk.initialized /\ now = mono + delta /\ delta - clk.clock \in Jitter

(* Once a pass has looked at the queued events, the wakeup is set for the  *)
(* first of them or earlier, and stays so until the next rethink.          *)
AfterQueued == {"missed", "postponed", "limbo", "triggered", "waitsysui", "sysui_req",
                "sysui_ack", "sysui_rsp", "snoozed", "served", "recurring", "deleted",
                "cleanup", "finish"}
Covered ==
  pc \in AfterQueued \/ Quiescent =>
    \A c \in InState(S_QUEUED) :
      ev[c].trigger < INT_MAX => wakeup.due # Never /\ wakeup.time <= ev[c].trigger

WakeupInv == TimerTrue /\ TimerOff /\ LoopClock /\ Covered

(* What the functions of the loop leave of the clock and the wakeup.       *)
LEMMA LoopClocks ==
  ASSUME Typed, RethinkStep
  PROVE  /\ pc # "idle" /\ UNCHANGED <<mono, delta, now>>
         /\ clk'.initialized = clk.initialized /\ clk'.clock = clk.clock
         /\ RethinkQueued \/ UNCHANGED wakeup
<1>1. RethinkStep => pc # "idle"
  BY DEF RethinkStep, RethinkNew, RethinkWaitconn, RethinkTimechange, RethinkQueued,
         RethinkMissed, RethinkPostponed, RethinkLimbo, RethinkTriggered, RethinkWaitsysui,
         RethinkSysuiReq, RethinkSysuiAck, RethinkSysuiRsp, RethinkSnoozed, RethinkServed,
         RethinkRecurring, RethinkDeleted, RethinkCleanup, RethinkFinish, Phase, PassOver
<1>2. RethinkStep => UNCHANGED <<mono, delta, now>>
  BY DEF RethinkStep, RethinkNew, RethinkWaitconn, RethinkTimechange, RethinkQueued,
         RethinkMissed, RethinkPostponed, RethinkLimbo, RethinkTriggered, RethinkWaitsysui,
         RethinkSysuiReq, RethinkSysuiAck, RethinkSysuiRsp, RethinkSnoozed, RethinkServed,
         RethinkRecurring, RethinkDeleted, RethinkCleanup, RethinkFinish, Phase, clockVars
<1>3. RethinkStep => RethinkTimechange \/ UNCHANGED clk
  BY DEF RethinkStep, RethinkNew, RethinkWaitconn, RethinkQueued,
         RethinkMissed, RethinkPostponed, RethinkLimbo, RethinkTriggered, RethinkWaitsysui,
         RethinkSysuiReq, RethinkSysuiAck, RethinkSysuiRsp, RethinkSnoozed, RethinkServed,
         RethinkRecurring, RethinkDeleted, RethinkCleanup, RethinkFinish, Phase, clockVars
<1>4. RethinkTimechange => clk'.initialized = clk.initialized /\ clk'.clock = clk.clock
  <2> DEFINE forw == IF "CLK_MV_FORW" \in flags THEN clk.forw ELSE 0
             back == IF "CLK_MV_BACK" \in flags THEN clk.back ELSE 0
  <2>1. RethinkTimechange => clk' = [clk EXCEPT !.forw = @ - forw, !.back = @ - back]
    BY DEF RethinkTimechange
  <2>2. clk \in ClkType
    BY DEF Typed, ClocksOK, ClkType
  <2> HIDE DEF forw, back
  <2> QED BY <2>1, <2>2 DEF ClkType
<1>5. RethinkStep => RethinkQueued \/ UNCHANGED wakeup
  BY DEF RethinkStep, RethinkNew, RethinkWaitconn, RethinkTimechange,
         RethinkMissed, RethinkPostponed, RethinkLimbo, RethinkTriggered, RethinkWaitsysui,
         RethinkSysuiReq, RethinkSysuiAck, RethinkSysuiRsp, RethinkSnoozed, RethinkServed,
         RethinkRecurring, RethinkDeleted, RethinkCleanup, RethinkFinish, Phase, timerVars
<1> QED BY <1>1, <1>2, <1>3, <1>4, <1>5

(* Events enter the state QUEUED at the beginning of a pass only.          *)
LEMMA QueuedAreOld ==
  ASSUME IInv, RethinkStep, pc \in AfterQueued, NEW c \in InState(S_QUEUED)'
  PROVE  c \in InState(S_QUEUED) /\ ev'[c] = ev[c]
<1>1. /\ c \in DOMAIN ev' /\ Visible(ev'[c]) /\ ev'[c].state = S_QUEUED
      /\ LoopEvents
  BY LoopBecomes DEF InState, Visible
<1>2. CASE ev'[c] = ev[c]
  BY <1>1, <1>2 DEF InState, LoopEvents
<1>3. CASE ev'[c] # ev[c]
  <2>1. ev[c].state = Pos(pc) /\ (Moves(ev[c], ev'[c]) \/ Shifts(ev[c], ev'[c]))
    BY <1>1, <1>3 DEF LoopEvents, Becomes
  <2>2. ev[c].state = S_NEW
    BY <1>1, <2>1 DEF Moves, Shifts, S_NEW, S_WAITCONN, S_QUEUED, S_MISSED, S_POSTPONED,
        S_LIMBO, S_TRIGGERED, S_WAITSYSUI, S_SYSUI_REQ, S_SYSUI_ACK, S_SYSUI_RSP,
        S_SNOOZED, S_SERVED, S_RECURRING, S_DELETED
  <2>3. Pos(pc) # S_NEW
    BY DEF Pos, AfterQueued, S_NEW, S_MISSED, S_POSTPONED, S_LIMBO, S_TRIGGERED,
           S_WAITSYSUI, S_SYSUI_REQ, S_SYSUI_ACK, S_SYSUI_RSP, S_SNOOZED, S_SERVED,
           S_RECURRING, S_DELETED, S_FINALIZED
  <2> QED BY <2>1, <2>2, <2>3
<1> QED BY <1>2, <1>3

LEMMA LoopPlaces ==
  ASSUME RethinkStep, ~RethinkQueued, pc' \in AfterQueued \cup {"idle"}
  PROVE  pc \in AfterQueued
BY DEF AfterQueued, RethinkStep, RethinkNew, RethinkWaitconn, RethinkTimechange,
       RethinkMissed, RethinkPostponed, RethinkLimbo, RethinkTriggered, RethinkWaitsysui,
       RethinkSysuiReq, RethinkSysuiAck, RethinkSysuiRsp, RethinkSnoozed, RethinkServed,
       RethinkRecurring, RethinkDeleted, RethinkCleanup, RethinkFinish, Phase, PassOver

LEMMA LoopWakeup ==
  ASSUME IInv, WakeupInv, RethinkStep, ~RethinkQueued
  PROVE  WakeupInv'
<1>1. Typed
  BY DEF IInv
<1>2. /\ pc # "idle" /\ UNCHANGED <<mono, delta, now, wakeup>>
      /\ clk'.initialized = clk.initialized /\ clk'.clock = clk.clock
  BY <1>1, LoopClocks
<1>3. TimerTrue' /\ TimerOff' /\ LoopClock'
  BY <1>2 DEF WakeupInv, TimerTrue, TimerOff, LoopClock, Jitter
<1>4. Covered'
  <2> SUFFICES ASSUME (pc \in AfterQueued \/ Quiescent)', NEW c \in InState(S_QUEUED)',
                      ev'[c].trigger < INT_MAX
               PROVE  wakeup'.due # Never /\ wakeup'.time <= ev'[c].trigger
    BY DEF Covered
  <2>1. pc \in AfterQueued
    BY LoopPlaces DEF Quiescent
  <2>2. c \in InState(S_QUEUED) /\ ev'[c] = ev[c]
    BY <2>1, QueuedAreOld
  <2> QED BY <1>2, <2>1, <2>2 DEF WakeupInv, Covered
<1> QED BY <1>3, <1>4 DEF WakeupInv

(* server_request_wakeup sets a true wakeup or keeps an earlier one.       *)
LEMMA RequestedWakeup ==
  ASSUME Typed, TimerTrue, TimerOff, LoopClock, pc # "idle",
         NEW t \in Int, t > now, t < INT_MAX, RequestWakeup(t),
         clk' = clk
  PROVE  TimerTrue' /\ TimerOff' /\ wakeup'.due # Never /\ wakeup'.time <= t
<1> DEFINE tmo == MinOf(t, now + TwoWeeks)
<1>1. /\ now \in Int /\ mono \in Nat /\ delta \in Int /\ clk.clock \in Int
      /\ wakeup.time \in Int /\ wakeup.due \in Int /\ TwoWeeks \in Nat \ {0}
      /\ CLK_JITTER \in Nat /\ INT_MAX \in Nat
  BY ServerConstants, TimeConstants DEF Typed, LoopOK, ClocksOK, TimersOK
<1>2. tmo \in Int /\ tmo > now /\ tmo <= t
  BY <1>1 DEF MinOf
<1>3. wakeup' = IF wakeup.time > tmo
                THEN [time |-> tmo, due |-> mono + MaxOf(0, tmo - now)]
                ELSE wakeup
  BY DEF RequestWakeup
<1> HIDE DEF tmo
<1>4. CASE wakeup.time > tmo
  <2>1. wakeup'.time = tmo /\ wakeup'.due = mono + (tmo - now)
    BY <1>1, <1>2, <1>3, <1>4 DEF MaxOf
  <2>2. wakeup'.due # Never
    BY <1>1, <1>2, <2>1 DEF Never
  <2>3. wakeup'.due + clk.clock - wakeup'.time = clk.clock - delta
    BY <1>1, <1>2, <2>1 DEF LoopClock
  <2> QED BY <1>1, <1>2, <2>1, <2>2, <2>3 DEF TimerTrue, TimerOff, LoopClock, Jitter
<1>5. CASE ~(wakeup.time > tmo)
  <2>1. wakeup' = wakeup /\ wakeup.time <= tmo
    BY <1>1, <1>2, <1>3, <1>5
  <2>2. wakeup.due # Never
    BY <1>1, <1>2, <2>1 DEF TimerOff
  <2> QED BY <1>1, <1>2, <2>1, <2>2 DEF TimerTrue, TimerOff
<1> QED BY <1>4, <1>5

LEMMA QueuedWakeup ==
  ASSUME IInv, WakeupInv, RethinkQueued
  PROVE  WakeupInv'
<1>0. /\ Typed /\ now \in Int /\ INT_MAX \in Int
      /\ \A c \in DOMAIN ev : ev[c] \in Event
  BY TimeConstants DEF IInv, Typed, LoopOK, QueueOK
<1>1. /\ pc = "queued" /\ pc' = "missed" /\ UNCHANGED <<mono, delta, now, clk>>
  BY DEF RethinkQueued, PassOver, clockVars
<1>2. PICK d \in TimesOf("desktop"), a \in TimesOf("actdead"), n \in TimesOf("no_boot") :
        /\ Lowest(TimesOf("desktop"), d)
        /\ Lowest(TimesOf("actdead"), a)
        /\ Lowest(TimesOf("no_boot"), n)
        /\ IF MinOf(MinOf(d, a), n) < INT_MAX
           THEN RequestWakeup(MinOf(MinOf(d, a), n)) ELSE UNCHANGED wakeup
  BY DEF RethinkQueued
<1> DEFINE tsw == MinOf(MinOf(d, a), n)
<1>3. ASSUME NEW b, NEW t \in TimesOf(b)
      PROVE  t \in Int /\ (t = INT_MAX \/ t > now)
  BY <1>0 DEF TimesOf, Waiting, InState, Event
<1>4. d \in Int /\ a \in Int /\ n \in Int
  BY <1>3
<1>5. tsw \in Int /\ tsw <= d /\ tsw <= a /\ tsw <= n /\ tsw \in {d, a, n}
  BY <1>4 DEF MinOf
<1>6. tsw < INT_MAX => tsw > now
  BY <1>3, <1>5
<1> HIDE DEF tsw
<1>7. tsw < INT_MAX => RequestWakeup(tsw)
  BY <1>2 DEF tsw
<1>8. ~(tsw < INT_MAX) => UNCHANGED wakeup
  BY <1>2 DEF tsw
<1>9. /\ TimerTrue' /\ TimerOff'
      /\ tsw < INT_MAX => wakeup'.due # Never /\ wakeup'.time <= tsw
  <2>1. CASE tsw < INT_MAX
    BY <1>0, <1>1, <1>5, <1>6, <1>7, <2>1, RequestedWakeup DEF WakeupInv
  <2>2. CASE ~(tsw < INT_MAX)
    BY <1>1, <1>8, <2>2 DEF WakeupInv, TimerTrue, TimerOff
  <2> QED BY <2>1, <2>2
<1>10. LoopClock'
  BY <1>1 DEF WakeupInv, LoopClock, Jitter
<1>11. Covered'
  <2> SUFFICES ASSUME NEW c \in InState(S_QUEUED)', ev'[c].trigger < INT_MAX
               PROVE  wakeup'.due # Never /\ wakeup'.time <= ev'[c].trigger
    BY DEF Covered
  <2>1. c \in DOMAIN ev /\ ev'[c].state = S_QUEUED /\ Visible(ev'[c])
    BY DEF InState, Visible, RethinkQueued, PassOver
  <2>2. ev'[c] = (IF Visible(ev[c]) /\ ev[c].state = S_QUEUED
                  THEN QueuedStep(ev[c]) ELSE Cell(ev[c])).e
    BY <2>1 DEF RethinkQueued, PassOver
  <2>3. Visible(ev[c]) /\ ev[c].state = S_QUEUED
    BY <2>1, <2>2, CellKeeps
  <2>4. ~Offline(ev[c]) /\ ev[c].trigger > now /\ Becomes(ev[c], ev'[c])
    BY <1>0, <2>1, <2>2, <2>3, QueuedBecomes
  <2>5. ev'[c] = ev[c]
    BY <2>1, <2>3, <2>4 DEF Becomes, Moves, Shifts, S_NEW, S_WAITCONN, S_QUEUED, S_MISSED,
        S_POSTPONED, S_LIMBO, S_TRIGGERED, S_WAITSYSUI, S_SYSUI_REQ, S_SYSUI_ACK,
        S_SYSUI_RSP, S_SNOOZED, S_SERVED, S_RECURRING, S_DELETED
  <2>6. c \in Waiting
    BY <2>1, <2>3, <2>4 DEF Waiting, InState
  <2>7. Boots(c) \in {"desktop", "actdead", "no_boot"}
    BY DEF Boots
  <2>8. ev[c].trigger \in TimesOf(Boots(c))
    BY <2>6 DEF TimesOf
  <2>9. \/ d <= ev[c].trigger \/ a <= ev[c].trigger \/ n <= ev[c].trigger
    BY <1>2, <2>7, <2>8 DEF Lowest
  <2>10. ev[c].trigger \in Int
    BY <1>0, <2>1 DEF Event
  <2>11. tsw <= ev[c].trigger /\ tsw < INT_MAX
    BY <1>0, <1>4, <1>5, <2>5, <2>9, <2>10
  <2>12. wakeup'.time \in Int
    BY QueuedIInv DEF IInv, Typed, TimersOK
  <2> QED BY <1>5, <1>9, <2>5, <2>10, <2>11, <2>12
<1> QED BY <1>9, <1>10, <1>11 DEF WakeupInv

(* A rethink that starts or is put off.                                    *)
LEMMA StartWakeup ==
  ASSUME IInv, WakeupInv, RethinkStart
  PROVE  WakeupInv'
<1>0. Typed
  BY DEF IInv
<1>1. /\ clk'.initialized /\ clk'.clock = ClkBase.clock
      /\ delta - clk'.clock \in Jitter
  BY <1>0, StartClock
<1>2. UNCHANGED <<wakeup, mono, delta>> /\ now' = mono + delta /\ pc' = "new"
  BY DEF RethinkStart, Wall
<1>3. TimerTrue' /\ TimerOff'
  BY <1>0, <1>1, <1>2, BaseClock DEF WakeupInv, TimerTrue, TimerOff, Jitter
<1>4. LoopClock'
  BY <1>1, <1>2 DEF LoopClock, Jitter
<1>5. Covered'
  BY <1>2 DEF Covered, AfterQueued, Quiescent
<1> QED BY <1>3, <1>4, <1>5 DEF WakeupInv

(* The wakeup falls away only together with a request for a rethink.       *)
LEMMA DropWakeup ==
  ASSUME pc' = "idle", rethink' # Never, wakeup' = NoWakeup
  PROVE  WakeupInv'
BY DEF WakeupInv, TimerTrue, TimerOff, LoopClock, Covered, AfterQueued, Quiescent, NoWakeup

LEMMA KeepWakeup ==
  ASSUME WakeupInv, pc = "idle", pc' = "idle", UNCHANGED <<wakeup, clk>>,
         rethink' = Never => rethink = Never /\ ev' \in {ev, NoEvents}
  PROVE  WakeupInv'
<1>1. TimerTrue' /\ TimerOff' /\ LoopClock'
  BY DEF WakeupInv, TimerTrue, TimerOff, LoopClock, Jitter
<1>2. Covered'
  BY DEF WakeupInv, Covered, Quiescent, AfterQueued, InState, Visible, NoEvents
<1> QED BY <1>1, <1>2 DEF WakeupInv

LEMMA TimerWakeup ==
  ASSUME IInv, WakeupInv, TimerStep
  PROVE  WakeupInv'
<1>0. Typed
  BY DEF IInv
<1>1. CASE RethinkUnstable
  <2>1. rethink' = mono + 1 /\ mono \in Nat
    BY <1>0, <1>1 DEF RethinkUnstable, Typed, ClocksOK
  <2>2. rethink' # Never
    BY <2>1 DEF Never
  <2> QED BY <1>1, <2>2, DropWakeup DEF RethinkUnstable
<1>2. CASE RethinkStart
  BY <1>2, StartWakeup
<1>3. CASE WakeupFires
  BY <1>0, <1>3, RequestAsks, DropWakeup DEF WakeupFires
<1>4. CASE SaveFires
  BY <1>4, KeepWakeup DEF SaveFires, clockVars
<1>5. CASE LimboTimeout
  <2>1. \E f, u, d : SetState3(f, u, d)
    BY <1>5 DEF LimboTimeout, LimboDisabled, SetFlags
  <2> QED BY <1>0, <1>5, <2>1, RequestAsks, KeepWakeup
          DEF LimboTimeout, LimboFrame, clockVars
<1> QED BY <1>1, <1>2, <1>3, <1>4, <1>5 DEF TimerStep

LEMMA ClientWakeup ==
  ASSUME IInv, WakeupInv, ClientStep
  PROVE  WakeupInv'
<1>0. Typed
  BY DEF IInv
<1>1. (\E k \in Kinds : EventAdd(k) \/ \E c \in 1 .. lastCookie : EventUpdate(c, k))
        \/ (\E c \in DOMAIN ev : EventDel(c))
      => RethinkRequest /\ pc = "idle" /\ UNCHANGED <<pc, wakeup, clk>>
  BY DEF EventAdd, EventUpdate, EventDel, May, HandlerFrame, clockVars
<1>2. (\E s \in SnoozeVals : SnoozeSet(s)) \/ RestoreFactorySettings \/ SaveData
      => pc = "idle" /\ UNCHANGED <<ev, pc, wakeup, clk, rethink>>
  BY DEF SnoozeSet, RestoreFactorySettings, SaveData, May, clockVars
<1>3. ClearUserData => ev' = NoEvents /\ pc = "idle" /\ UNCHANGED <<pc, wakeup, clk, rethink>>
  BY DEF ClearUserData, May, clockVars
<1>4. CASE RethinkRequest /\ pc = "idle" /\ UNCHANGED <<pc, wakeup, clk>>
  BY <1>0, <1>4, RequestAsks, KeepWakeup
<1>5. CASE pc = "idle" /\ UNCHANGED <<ev, pc, wakeup, clk, rethink>>
  BY <1>5, KeepWakeup
<1>6. CASE ClearUserData
  BY <1>3, <1>6, KeepWakeup
<1> QED BY <1>1, <1>2, <1>4, <1>5, <1>6 DEF ClientStep

LEMMA UserWakeup ==
  ASSUME IInv, WakeupInv, UserStep
  PROVE  WakeupInv'
<1>0. Typed
  BY DEF IInv
<1>1. (\E c \in dialogs : QueueAck(c)) \/ (\E m \in answers : EventAck(m))
      => RethinkRequest /\ pc = "idle" /\ UNCHANGED <<pc, wakeup, clk>>
  BY DEF QueueAck, EventAck, May, HandlerFrame, clockVars
<1>2. ASSUME NEW c, NEW b, NEW p, UserAnswers(c, b, p) PROVE WakeupInv'
  BY <1>2, KeepWakeup DEF UserAnswers, May, timerVars, clockVars
<1>3. CASE RethinkRequest /\ pc = "idle" /\ UNCHANGED <<pc, wakeup, clk>>
  BY <1>0, <1>3, RequestAsks, KeepWakeup
<1> QED BY <1>1, <1>2, <1>3 DEF UserStep

LEMMA SignalWakeup ==
  ASSUME IInv, WakeupInv, SignalStep \/ ClockStep
  PROVE  WakeupInv'
<1>0. Typed
  BY DEF IInv
<1>1. ASSUME UNCHANGED <<ev, pc, wakeup, clk>>, pc = "idle",
             rethink' = rethink \/ \E f, u, d : SetState3(f, u, d)
      PROVE  WakeupInv'
  <2>1. rethink' = Never => rethink = Never
    BY <1>0, <1>1, RequestAsks
  <2> QED BY <1>1, <2>1, KeepWakeup
<1>2. ASSUME NEW s, NameLost(s) \/ NameGained(s) PROVE WakeupInv'
  <2>1. \E f, u, d : SetState3(f, u, d)
    BY <1>2 DEF NameLost, NameGained
  <2> QED BY <1>1, <1>2, <2>1 DEF NameLost, NameGained, May, HandlerFrame, clockVars
<1>3. ASSUME LimboDisabled, LimboFrame, pc = "idle" PROVE WakeupInv'
  <2>1. \E f, u, d : SetState3(f, u, d)
    BY <1>3 DEF LimboDisabled, SetFlags
  <2> QED BY <1>1, <1>3, <2>1 DEF LimboFrame, clockVars
<1>4. ASSUME HomeReady, WaitState # "home" PROVE WakeupInv'
  BY <1>1, <1>4 DEF HomeReady, LimboFrame, May, clockVars
<1>5. ASSUME NEW b, IcdStatus \/ TimeChange(b) PROVE WakeupInv'
  <2>1. \E f, u, d : SetState3(f, u, d)
    BY <1>5 DEF IcdStatus, TimeChange, SetFlags
  <2> QED BY <1>1, <1>5, <2>1 DEF IcdStatus, TimeChange, May, HandlerFrame, clockVars
<1>6. CASE ClockStep
  BY <1>1, <1>6 DEF ClockStep, Tick, ClockJump, ZoneChange, May, ClockFrame, timerVars
<1>7. CASE SignalStep
  BY <1>2, <1>3, <1>4, <1>5, <1>7 DEF SignalStep, InitDone, HildonReady, HomeReady, May
<1> QED BY <1>6, <1>7

LEMMA WakeupStep == IInv /\ WakeupInv /\ [Next]_vars => WakeupInv'
<1> SUFFICES ASSUME IInv, WakeupInv, [Next]_vars PROVE WakeupInv'
  OBVIOUS
<1>1. CASE UNCHANGED vars
  BY <1>1 DEF vars, timerVars, clockVars, WakeupInv, TimerTrue, TimerOff, LoopClock,
              Covered, Quiescent, InState, Visible, Jitter
<1>2. CASE RethinkStep
  BY <1>2, LoopWakeup, QueuedWakeup
<1>3. CASE HandlerStep
  BY <1>3, TimerWakeup, ClientWakeup, UserWakeup, SignalWakeup DEF HandlerStep
<1> QED BY <1>1, <1>2, <1>3, NextSplit

LEMMA WakeupAtRest == IInv /\ WakeupInv => WakeupCovers
<1> SUFFICES ASSUME IInv, WakeupInv, Quiescent, clk.initialized,
                    delta - clk.clock \in -CLK_JITTER .. CLK_JITTER,
                    NEW c \in InState(S_QUEUED), ev[c].trigger < INT_MAX
             PROVE  /\ wakeup.due # Never
                    /\ wakeup.due + delta <= ev[c].trigger + 2 * CLK_JITTER
  BY DEF WakeupCovers
<1>1. /\ ev[c].trigger \in Int /\ wakeup.due \in Int /\ wakeup.time \in Int
      /\ clk.clock \in Int /\ delta \in Int /\ CLK_JITTER \in Nat
  BY ServerConstants DEF IInv, Typed, QueueOK, TimersOK, ClocksOK, InState, Event
<1>2. wakeup.due # Never /\ wakeup.time <= ev[c].trigger
  BY DEF WakeupInv, Covered
<1>3. wakeup.due + clk.clock - wakeup.time \in -CLK_JITTER .. CLK_JITTER
  BY <1>2 DEF WakeupInv, TimerTrue, Jitter
<1> QED BY <1>1, <1>2, <1>3

LEMMA WakeupAlways == Spec => []WakeupInv
<1>1. Init => WakeupInv
  BY DEF Init, WakeupInv, TimerTrue, TimerOff, LoopClock, Covered, NoWakeup, InState,
         NoEvents
<1> QED BY <1>1, WakeupStep, Inductive, PTL DEF Spec

(* While the clock stays within the jitter, no waiting alarm of a daemon   *)
(* at rest is without a wakeup, however often the clock was set and        *)
(* wakeups kept, dropped, capped or moved before.                          *)
THEOREM WakeupSet == Spec => []WakeupCovers
BY WakeupAtRest, WakeupAlways, Inductive, PTL

-----------------------------------------------------------------------------
(* The phase of a recurrence.                                              *)

LEMMA DivMod ==
  ASSUME NEW a \in Int, NEW s \in Nat \ {0}
  PROVE  \E q \in Int : a = s * q + (a % s) /\ a % s \in 0 .. s - 1
<1>1. a \div s \in Int /\ a = s * (a \div s) + (a % s) /\ a % s \in 0 .. s - 1
  BY Z3
<1> QED BY <1>1

LEMMA Multiple ==
  ASSUME NEW s \in Nat \ {0}, NEW q \in Int
  PROVE  (s * q) % s = 0
<1>1. PICK p \in Int : s * q = s * p + ((s * q) % s) /\ (s * q) % s \in 0 .. s - 1
  <2>1. s * q \in Int
    OBVIOUS
  <2> QED BY <2>1, DivMod
<1> DEFINE r == (s * q) % s
<1>2. r \in 0 .. s - 1 /\ s * (q - p) = r
  BY <1>1
<1> HIDE DEF r
<1>3. CASE q - p >= 1
  <2>1. s * (q - p) >= s
    BY <1>3
  <2> QED BY <1>2, <2>1
<1>4. CASE q - p <= -1
  <2>1. s * (q - p) <= -s
    BY <1>4
  <2> QED BY <1>2, <2>1
<1>5. CASE q - p = 0
  <2>1. s * (q - p) = 0
    BY <1>5
  <2> QED BY <1>2, <2>1 DEF r
<1> QED BY <1>3, <1>4, <1>5

(* server_bump_time keeps the phase.                                       *)
LEMMA BumpTimePhase ==
  ASSUME NEW base \in Int, NEW skip \in Nat \ {0}, NEW target \in Int, NEW at \in Int,
         (base - at) % skip = 0
  PROVE  (BumpTime(base, skip, target) - at) % skip = 0
<1>1. PICK p \in Int : base - at = skip * p
  <2>1. base - at \in Int
    OBVIOUS
  <2>2. \E p \in Int : base - at = skip * p + ((base - at) % skip)
    BY <2>1, DivMod
  <2>3. ASSUME NEW p \in Int PROVE skip * p + 0 = skip * p
    OBVIOUS
  <2> QED BY <2>2, <2>3, Zenon
<1>2. ASSUME NEW t \in Int, NEW q \in Int, t = base + skip * q
      PROVE  (t - at) % skip = 0
  <2>1. t - at = skip * (p + q) /\ p + q \in Int
    BY <1>1, <1>2
  <2> QED BY <2>1, Multiple
<1>3. CASE target < base
  <2> DEFINE add == (base - target) % skip
  <2>1. PICK q \in Int : base - target = skip * q + add /\ add \in 0 .. skip - 1
    <3>1. base - target \in Int
      OBVIOUS
    <3> QED BY <3>1, DivMod
  <2>2. BumpTime(base, skip, target) = target + (IF add # 0 THEN add ELSE skip)
    BY <1>3 DEF BumpTime
  <2> HIDE DEF add
  <2>3. CASE add # 0
    <3>1. target + add = base + skip * (-q) /\ -q \in Int /\ target + add \in Int
      BY <2>1
    <3> QED BY <1>2, <2>2, <2>3, <3>1
  <2>4. CASE add = 0
    <3>1. target + skip = base + skip * (1 - q) /\ 1 - q \in Int /\ target + skip \in Int
      BY <2>1, <2>4
    <3> QED BY <1>2, <2>2, <2>4, <3>1
  <2> QED BY <2>3, <2>4
<1>4. CASE ~(target < base)
  <2> DEFINE over == (target - base) % skip
             t    == (target + skip) - over
  <2>1. PICK q \in Int : target - base = skip * q + over /\ over \in 0 .. skip - 1
    <3>1. target - base \in Int
      OBVIOUS
    <3> QED BY <3>1, DivMod
  <2>2. BumpTime(base, skip, target) = t
    BY <1>4 DEF BumpTime
  <2> HIDE DEF over
  <2>3. t = base + skip * (q + 1) /\ q + 1 \in Int /\ t \in Int
    BY <2>1
  <2> HIDE DEF t
  <2> QED BY <1>2, <2>2, <2>3
<1> QED BY <1>3, <1>4

(* The next multiple is no further away than one period.                   *)
LEMMA BumpTimeNear ==
  ASSUME NEW base \in Int, NEW skip \in Nat \ {0}, NEW target \in Int
  PROVE  BumpTime(base, skip, target) <= target + skip
<1> DEFINE add  == (base - target) % skip
           over == (target - base) % skip
<1>1. add \in 0 .. skip - 1 /\ over \in 0 .. skip - 1
  <2>1. base - target \in Int /\ target - base \in Int
    OBVIOUS
  <2> QED BY <2>1, DivMod
<1>2. BumpTime(base, skip, target) = IF target < base
                                     THEN target + (IF add # 0 THEN add ELSE skip)
                                     ELSE (target + skip) - over
  BY DEF BumpTime
<1> HIDE DEF add, over
<1> QED BY <1>1, <1>2

(* No recurrence leads past the end of time.                               *)
RecurrencesFit == \A k \in Kinds : MaxTime + MaxDelta + k.recur < INT_MAX

(* The clock on the wall as the environment moves it.                      *)
ClockRange ==
  /\ mono \in 0 .. MaxTime /\ delta \in -MaxDelta .. MaxDelta /\ Wall >= 0
  /\ now \in 0 .. MaxTime + MaxDelta

Periodic(k) == k.how = "abs" /\ k.recur > 0 /\ "POSTPONE_DELAYED" \notin k.flags

InPhase(e) == Base(e) # 0 /\ (Base(e) - e.kind.at) % e.kind.recur = 0

(* The inductive invariant: the moment a recurrence is counted from is in  *)
(* phase, be it the trigger or what snooze_total keeps of it; events are   *)
(* as clients ask for them; only those that may be postponed are.          *)
PhaseInv ==
  \A c \in DOMAIN ev :
    /\ ev[c].kind \in Kinds
    /\ ev[c].state = S_POSTPONED => Needs(ev[c], "POSTPONE_DELAYED")
    /\ Periodic(ev[c].kind) /\ ev[c].count # 0 => InPhase(ev[c])

LEMMA RangeStep == IInv /\ ClockRange /\ [Next]_vars => ClockRange'
<1> SUFFICES ASSUME IInv, ClockRange, [Next]_vars PROVE ClockRange'
  OBVIOUS
<1>0. /\ Typed /\ MaxTime \in Nat /\ MaxDelta \in Nat
      /\ mono \in Nat /\ delta \in Int /\ now \in Int
  BY EnvironmentConstants DEF IInv, Typed, ClocksOK, LoopOK
<1>1. ASSUME UNCHANGED <<mono, delta, now>> PROVE ClockRange'
  BY <1>1 DEF ClockRange, Wall
<1>2. CASE RethinkStep
  BY <1>0, <1>1, <1>2, LoopClocks
<1>3. CASE RethinkStart
  <2>1. now' = mono + delta /\ mono' = mono /\ delta' = delta
    BY <1>3 DEF RethinkStart, Wall
  <2> QED BY <1>0, <2>1 DEF ClockRange, Wall
<1>4. CASE RethinkUnstable \/ WakeupFires \/ SaveFires \/ LimboTimeout
  BY <1>1, <1>4 DEF RethinkUnstable, WakeupFires, SaveFires, LimboTimeout, LimboFrame, clockVars
<1>5. CASE ClientStep
  BY <1>1, <1>5 DEF ClientStep, EventAdd, EventUpdate, EventDel, SnoozeSet, ClearUserData,
              RestoreFactorySettings, SaveData, HandlerFrame, clockVars
<1>6. CASE UserStep
  BY <1>1, <1>6 DEF UserStep, QueueAck, UserAnswers, EventAck, HandlerFrame, clockVars
<1>7. CASE SignalStep
  BY <1>1, <1>7 DEF SignalStep, NameLost, NameGained, InitDone, HildonReady, HomeReady,
              IcdStatus, TimeChange, HandlerFrame, LimboFrame, clockVars
<1>8. CASE Tick
  <2>1. mono < MaxTime /\ mono' = mono + 1 /\ delta' = delta /\ now' = now
    BY <1>8 DEF Tick, ClockFrame
  <2> QED BY <1>0, <2>1 DEF ClockRange, Wall
<1>9. ASSUME NEW j \in Jumps, ClockJump(j) PROVE ClockRange'
  <2>1. /\ j \in Int /\ delta + j \in -MaxDelta .. MaxDelta /\ mono + delta + j >= 0
        /\ mono' = mono /\ delta' = delta + j /\ now' = now
    BY <1>9, EnvironmentConstants DEF ClockJump, ClockFrame, Wall
  <2> QED BY <1>0, <2>1 DEF ClockRange, Wall
<1>10. ASSUME NEW z, ZoneChange(z) PROVE ClockRange'
  BY <1>1, <1>10 DEF ZoneChange, ClockFrame
<1>11. CASE UNCHANGED vars
  BY <1>1, <1>11 DEF vars, clockVars
<1> QED BY <1>2, <1>3, <1>4, <1>5, <1>6, <1>7, <1>8, <1>9, <1>10, <1>11
        DEF Next, TimerStep, ClockStep

(* An absolute alarm is added with its own time or a multiple after it.    *)
LEMMA AddedInPhase ==
  ASSUME Typed, ClockRange, NEW f, Added(f)
  PROVE  /\ f.kind \in Kinds /\ f.state = S_NEW
         /\ Periodic(f.kind) /\ f.count # 0 => InPhase(f)
<1>1. PICK k \in Kinds : f = FreshEvent(k, InitialTrigger(k, Wall, tzCurr))
  BY DEF Added
<1> DEFINE t == InitialTrigger(k, Wall, tzCurr)
<1>2. f.kind = k /\ f.state = S_NEW /\ f.count = k.count /\ f.snoozed = 0 /\ f.trigger = t
  BY <1>1 DEF FreshEvent
<1>3. ASSUME Periodic(k), k.count # 0 PROVE InPhase(f)
  <2>1. /\ k.recur \in Nat \ {0} /\ k.at \in Int /\ k.at > 0 /\ k.how = "abs"
        /\ Wall \in Int /\ Wall >= 0
    BY <1>3, KindFields, EnvironmentConstants DEF Periodic, Typed, ClocksOK, Wall, ClockRange
  <2> DEFINE g == FreshEvent(k, 0)
  <2>2. g.kind = k /\ IsRecurring(g)
    BY <1>3, <2>1 DEF FreshEvent, IsRecurring
  <2>3. t = NextTrigger(Wall, k.at, g, tzCurr)
    BY <2>1 DEF InitialTrigger
  <2> HIDE DEF g, t
  <2>4. t = IF k.at <= Wall THEN BumpTime(k.at, k.recur, Wall) ELSE k.at
    <3>1. CASE k.at <= Wall
      BY <2>1, <2>2, <2>3, <3>1 DEF NextTrigger
    <3>2. CASE ~(k.at <= Wall)
      BY <2>1, <2>2, <2>3, <3>2 DEF NextTrigger
    <3> QED BY <3>1, <3>2
  <2>5. (k.at - k.at) % k.recur = 0
    <3>1. k.at - k.at = k.recur * 0
      BY <2>1
    <3> QED BY <2>1, <3>1, Multiple
  <2>6. (t - k.at) % k.recur = 0
    BY <2>1, <2>4, <2>5, BumpTimePhase
  <2>7. t # 0
    <3>1. CASE k.at <= Wall
      <4>1. BumpTime(k.at, k.recur, Wall) > Wall /\ BumpTime(k.at, k.recur, Wall) \in Int
        BY <2>1, BumpTimeAhead, BumpTimeInt
      <4> QED BY <2>1, <2>4, <3>1, <4>1
    <3>2. CASE ~(k.at <= Wall)
      BY <2>1, <2>4, <3>2
    <3> QED BY <3>1, <3>2
  <2> QED BY <1>2, <2>6, <2>7 DEF InPhase, Base
<1> QED BY <1>2, <1>3

(* The functions of the loop keep an event in phase.                       *)
LEMMA MovesInPhase ==
  ASSUME ClockRange, Typed, RecurrencesFit,
         NEW e \in Event, NEW f, Becomes(e, f), e.kind \in Kinds,
         e.state = S_POSTPONED => Needs(e, "POSTPONE_DELAYED"),
         Periodic(e.kind) /\ e.count # 0 => InPhase(e)
  PROVE  /\ f.kind \in Kinds
         /\ f.state = S_POSTPONED => Needs(f, "POSTPONE_DELAYED")
         /\ Periodic(f.kind) /\ f.count # 0 => InPhase(f)
<1> USE DEF S_NEW, S_WAITCONN, S_QUEUED, S_MISSED, S_POSTPONED, S_LIMBO,
            S_TRIGGERED, S_WAITSYSUI, S_SYSUI_REQ, S_SYSUI_ACK, S_SYSUI_RSP, S_SNOOZED,
            S_SERVED, S_RECURRING, S_DELETED
<1>0. f.kind = e.kind /\ f \in Event
  BY DEF Becomes
<1>1. f.state = S_POSTPONED => Needs(f, "POSTPONE_DELAYED")
  <2>1. CASE f = e
    BY <2>1
  <2>2. CASE Moves(e, f)
    BY <1>0, <2>2 DEF Moves, Needs
  <2>3. CASE Shifts(e, f)
    BY <2>3 DEF Shifts
  <2> QED BY <2>1, <2>2, <2>3 DEF Becomes
<1>2. ASSUME Periodic(e.kind), f.count # 0 PROVE InPhase(f)
  <2>0. /\ e.kind.recur \in Nat \ {0} /\ e.kind.at \in Int /\ Base(e) \in Int
        /\ now \in Int /\ now >= 0 /\ now + e.kind.recur < INT_MAX
    <3>1. e.kind \in Kind
      BY DEF Event
    <3>2. e.kind.recur \in Nat \ {0} /\ e.kind.at \in Int
      BY <1>2, <3>1, KindFields DEF Periodic
    <3>3. Base(e) \in Int
      BY DEF Event, Base
    <3>4. MaxTime + MaxDelta + e.kind.recur < INT_MAX /\ MaxTime \in Nat /\ MaxDelta \in Nat
      BY EnvironmentConstants DEF RecurrencesFit
    <3> QED BY <3>2, <3>3, <3>4, TimeConstants DEF ClockRange
  <2>1. ASSUME SameTimes(e, f) PROVE InPhase(f)
    BY <1>0, <1>2, <2>1 DEF SameTimes, InPhase, Base
  <2>2. CASE Shifts(e, f)
    BY <1>0, <1>2, <2>2 DEF Shifts, InPhase, Base, Periodic
  <2>3. CASE e.state = S_SNOOZED /\ Moves(e, f)
    <3>1. f.count = e.count /\ f.snoozed = Base(e)
      BY <2>3 DEF Moves, Base
    <3> QED BY <1>0, <1>2, <3>1 DEF InPhase, Base
  <2>4. CASE e.state = S_RECURRING /\ Moves(e, f)
    <3> DEFINE b == BumpTime(Base(e), e.kind.recur, now)
    <3>1. b \in Int /\ b > now /\ b <= now + e.kind.recur
      BY <2>0, BumpTimeInt, BumpTimeAhead, BumpTimeNear
    <3>2. b \in 1 .. INT_MAX - 1
      BY <2>0, <3>1, TimeConstants
    <3> HIDE DEF b
    <3>3. f.snoozed = 0 /\ e.count # 0 /\ f.trigger = b
      BY <1>2, <2>0, <2>4, <3>2 DEF Moves, b
    <3>4. InPhase(e)
      BY <1>2, <3>3
    <3>5. (b - e.kind.at) % e.kind.recur = 0
      BY <2>0, <3>4, BumpTimePhase DEF b, InPhase
    <3>6. Base(f) = b
      BY <3>3 DEF Base
    <3> QED BY <1>0, <3>2, <3>5, <3>6 DEF InPhase
  <2>5. CASE e.state = S_POSTPONED /\ Moves(e, f)
    BY <1>2, <2>5 DEF Periodic, Needs
  <2>6. CASE f = e
    BY <1>2, <2>6
  <2>7. Moves(e, f) /\ e.state \notin {S_SNOOZED, S_RECURRING, S_POSTPONED} => SameTimes(e, f)
    BY DEF Moves
  <2> QED BY <2>1, <2>2, <2>3, <2>4, <2>5, <2>6, <2>7 DEF Becomes
<1> QED BY <1>0, <1>1, <1>2

LEMMA HandledInPhase ==
  ASSUME NEW e, NEW f, Handled(e, f), e.kind \in Kinds,
         e.state = S_POSTPONED => Needs(e, "POSTPONE_DELAYED"),
         Periodic(e.kind) /\ e.count # 0 => InPhase(e)
  PROVE  /\ f.kind \in Kinds
         /\ f.state = S_POSTPONED => Needs(f, "POSTPONE_DELAYED")
         /\ Periodic(f.kind) /\ f.count # 0 => InPhase(f)
<1>1. f.kind = e.kind /\ SameTimes(e, f)
  BY DEF Handled
<1>2. f.state = S_POSTPONED => e.state = S_POSTPONED
  BY DEF Handled, S_POSTPONED, S_DELETED, S_SYSUI_ACK, S_SYSUI_RSP
<1> QED BY <1>1, <1>2 DEF SameTimes, InPhase, Base, Needs

LEMMA PhaseStep ==
  ASSUME RecurrencesFit
  PROVE  IInv /\ ClockRange /\ PhaseInv /\ [Next]_vars => PhaseInv'
<1> SUFFICES ASSUME IInv, ClockRange, PhaseInv, [Next]_vars, NEW c \in DOMAIN ev'
             PROVE  /\ ev'[c].kind \in Kinds
                    /\ ev'[c].state = S_POSTPONED => Needs(ev'[c], "POSTPONE_DELAYED")
                    /\ Periodic(ev'[c].kind) /\ ev'[c].count # 0 => InPhase(ev'[c])
  BY DEF PhaseInv, Needs, InPhase, Base
<1>0. Typed /\ \A d \in DOMAIN ev : ev[d] \in Event
  BY DEF IInv, Typed, QueueOK
<1>1. CASE c \in DOMAIN ev /\ ev'[c] = ev[c]
  BY <1>1 DEF PhaseInv
<1>2. CASE c \in DOMAIN ev /\ Becomes(ev[c], ev'[c])
  BY <1>0, <1>2, MovesInPhase DEF PhaseInv
<1>3. CASE c \in DOMAIN ev /\ Handled(ev[c], ev'[c])
  BY <1>3, HandledInPhase DEF PhaseInv
<1>4. CASE Added(ev'[c])
  BY <1>0, <1>4, AddedInPhase DEF S_NEW, S_POSTPONED
<1> QED BY <1>1, <1>2, <1>3, <1>4, StepEvents

(* An absolute alarm recurs at multiples of its period from the time its   *)
(* client asked for, through snoozes, misses and clock changes, as long as *)
(* no recurrence leads past the end of time.                               *)
THEOREM RecurrencesInPhase ==
  ASSUME RecurrencesFit
  PROVE  Spec => []PhaseKept
<1>1. Init => ClockRange /\ PhaseInv
  BY EnvironmentConstants DEF Init, ClockRange, Wall, PhaseInv, NoEvents
<1>2. IInv /\ ClockRange /\ PhaseInv /\ [Next]_vars => ClockRange' /\ PhaseInv'
  BY RangeStep, PhaseStep
<1>3. PhaseInv => PhaseKept
  BY DEF PhaseInv, PhaseKept, Periodic, InPhase, Base, Needs
<1> QED BY <1>1, <1>2, <1>3, Inductive, PTL DEF Spec

-----------------------------------------------------------------------------
(* Alarms by the clock on the wall.                                        *)

OnWall(k) ==
  k.how = "date" /\ "BACK_RESCHEDULE" \in k.flags /\ "POSTPONE_DELAYED" \notin k.flags

(* Such alarms ring once, do not wait for the internet and are not given   *)
(* for the beginning of time.                                              *)
DatesOnce ==
  \A k \in Kinds : OnWall(k) =>
    /\ k.recur = 0 /\ k.mask < 0 /\ "CONNECTED" \notin k.flags
    /\ \A z \in Zones : k.at - z # 0

(* A zone the daemon knows of and has not acted upon yet is marked, ...    *)
ZoneNoted == "TZ_CHANGED" \notin flags => tzCurr = tzPrev

(* ... and the mark is gone once a pass has looked for it, until the next  *)
(* rethink is asked for.                                                   *)
ZoneHandled ==
  Quiescent \/ pc \in AfterQueued \cup {"queued"} => "TZ_CHANGED" \notin flags

(* The inductive invariant: an alarm that is going to be queued, or is,    *)
(* has its time in the zone the daemon knows unless a change is marked.    *)
(* None is outside the queue when changes are looked for.                  *)
OnTime(e) ==
  /\ e.state \notin {S_WAITCONN, S_POSTPONED, S_RECURRING}
  /\ e.state = S_NEW => pc \notin {"waitconn", "timechange"}
  /\ e.snoozed = 0 => e.trigger # 0
  /\ e.snoozed = 0 /\ e.state \in {S_NEW, S_QUEUED} /\ "TZ_CHANGED" \notin flags
       => e.trigger = e.kind.at - tzCurr

DateInv ==
  \A c \in DOMAIN ev :
    /\ ev[c].kind \in Kinds
    /\ OnWall(ev[c].kind) /\ Visible(ev[c]) => OnTime(ev[c])

LEMMA KeepZone ==
  ASSUME ZoneNoted, ZoneHandled, UNCHANGED <<tzCurr, tzPrev>>,
         "TZ_CHANGED" \in flags' <=> "TZ_CHANGED" \in flags,
         pc' \in AfterQueued \cup {"queued"} => pc \in AfterQueued \cup {"queued"},
         Quiescent' => Quiescent
  PROVE  /\ ZoneNoted' /\ ZoneHandled'
         /\ "TZ_CHANGED" \notin flags' => "TZ_CHANGED" \notin flags /\ tzCurr' = tzCurr
BY DEF ZoneNoted, ZoneHandled

LEMMA LoopZone ==
  ASSUME Typed, ZoneNoted, ZoneHandled, RethinkStep
  PROVE  /\ ZoneNoted' /\ ZoneHandled'
         /\ \/ RethinkTimechange /\ tzCurr' = tzCurr
            \/ "TZ_CHANGED" \notin flags' => "TZ_CHANGED" \notin flags /\ tzCurr' = tzCurr
<1>1. CASE RethinkTimechange
  <2> DEFINE moved == (IF "CLK_MV_FORW" \in flags THEN clk.forw ELSE 0)
                        + (IF "CLK_MV_BACK" \in flags THEN clk.back ELSE 0)
  <2>1. /\ flags' = flags \ {"TZ_CHANGED", "CLK_MV_FORW", "CLK_MV_BACK"}
        /\ tzCurr' = tzCurr
        /\ tzPrev' = IF "TZ_CHANGED" \in flags \/ moved # 0 THEN tzCurr ELSE tzPrev
    BY <1>1 DEF RethinkTimechange
  <2> HIDE DEF moved
  <2> QED BY <1>1, <2>1 DEF ZoneNoted, ZoneHandled
<1>2. CASE RethinkFinish
  <2>1. /\ "TZ_CHANGED" \in flags' <=> ("TZ_CHANGED" \in flags \/ ZoneNews)
        /\ tzCurr' = (IF "CLOCKD" \in Returned THEN tz ELSE tzCurr) /\ tzPrev' = tzPrev
        /\ rethink' = (IF ZoneNews THEN Requested ELSE rethink)
        /\ pc = "finish" /\ pc' = "idle"
    BY <1>2 DEF RethinkFinish, ServerStateSync
  <2>2. "TZ_CHANGED" \notin flags
    BY <2>1 DEF ZoneHandled, AfterQueued
  <2>3. CASE ZoneNews
    <3>1. rethink' # Never
      BY <2>1, <2>3, RequestAsks DEF RethinkRequest
    <3> QED BY <2>1, <2>3, <3>1 DEF ZoneNoted, ZoneHandled, Quiescent, AfterQueued
  <2>4. CASE ~ZoneNews
    <3>1. tzCurr' = tzCurr
      BY <2>1, <2>2, <2>4 DEF ZoneNoted, ZoneNews
    <3> QED BY <2>1, <2>2, <2>4, <3>1 DEF ZoneNoted, ZoneHandled
  <2> QED BY <2>3, <2>4
<1>3. CASE ~RethinkTimechange /\ ~RethinkFinish
  <2>1. UNCHANGED <<flags, tzCurr, tzPrev>>
    BY <1>3 DEF RethinkStep, RethinkNew, RethinkWaitconn, RethinkQueued,
         RethinkMissed, RethinkPostponed, RethinkLimbo, RethinkTriggered, RethinkWaitsysui,
         RethinkSysuiReq, RethinkSysuiAck, RethinkSysuiRsp, RethinkSnoozed, RethinkServed,
         RethinkRecurring, RethinkDeleted, RethinkCleanup, Phase, zoneVars, stateVars
  <2>2. /\ pc' # "idle"
        /\ pc' \in AfterQueued \cup {"queued"} => pc \in AfterQueued \cup {"queued"}
    BY <1>3 DEF AfterQueued, RethinkStep, RethinkNew, RethinkWaitconn, RethinkQueued,
         RethinkMissed, RethinkPostponed, RethinkLimbo, RethinkTriggered, RethinkWaitsysui,
         RethinkSysuiReq, RethinkSysuiAck, RethinkSysuiRsp, RethinkSnoozed, RethinkServed,
         RethinkRecurring, RethinkDeleted, RethinkCleanup, Phase, PassOver
  <2> QED BY <2>1, <2>2, KeepZone DEF Quiescent
<1> QED BY <1>1, <1>2, <1>3

LEMMA HandlerZone ==
  ASSUME Typed, ZoneNoted, ZoneHandled, HandlerStep
  PROVE  /\ ZoneNoted' /\ ZoneHandled'
         /\ "TZ_CHANGED" \notin flags' => "TZ_CHANGED" \notin flags /\ tzCurr' = tzCurr
<1> DEFINE Goal == /\ ZoneNoted' /\ ZoneHandled'
                   /\ "TZ_CHANGED" \notin flags'
                        => "TZ_CHANGED" \notin flags /\ tzCurr' = tzCurr
           Quiet == UNCHANGED <<tzCurr, tzPrev>>
                    /\ ("TZ_CHANGED" \in flags' <=> "TZ_CHANGED" \in flags)
<1>0. pc = "idle"
  BY HandlersWait
<1>1. ASSUME Quiet, pc' = "idle", rethink' = Never => rethink = Never PROVE Goal
  BY <1>0, <1>1, KeepZone DEF Quiescent, AfterQueued
<1>2. ASSUME Quiet, pc' = "idle", rethink' = rethink \/ RethinkRequest
                                    \/ \E f, u, d : SetState3(f, u, d)
      PROVE  Goal
  <2>1. rethink' = Never => rethink = Never
    BY <1>2, RequestAsks
  <2> HIDE DEF Quiet, Goal
  <2> QED BY <1>1, <1>2, <2>1
<1>3. CASE TimerStep
  <2>1. CASE RethinkUnstable
    <3>1. rethink' # Never
      BY <2>1 DEF RethinkUnstable, Typed, ClocksOK, Never
    <3> QED BY <1>0, <1>1, <2>1, <3>1 DEF RethinkUnstable, zoneVars
  <2>2. CASE RethinkStart
    <3>1. Quiet /\ pc' = "new"
      BY <2>2 DEF RethinkStart, zoneVars
    <3> QED BY <3>1, KeepZone DEF Quiescent, AfterQueued
  <2>3. CASE WakeupFires \/ SaveFires
    BY <1>0, <1>2, <2>3 DEF WakeupFires, SaveFires, zoneVars, stateVars
  <2>4. CASE LimboTimeout
    BY <1>0, <1>2, <2>4 DEF LimboTimeout, LimboDisabled, LimboFrame, SetFlags, SetState3,
                            zoneVars
  <2> QED BY <1>3, <2>1, <2>2, <2>3, <2>4 DEF TimerStep
<1>4. CASE ClientStep
  BY <1>0, <1>2, <1>4 DEF ClientStep, EventAdd, EventUpdate, EventDel, SnoozeSet,
     ClearUserData, RestoreFactorySettings, SaveData, HandlerFrame, zoneVars, stateVars
<1>5. CASE UserStep
  <2>1. ASSUME NEW m, EventAck(m) PROVE Goal
    <3>1. flags' \in {flags, flags \cup {"SEND_POWERUP"}}
      BY <2>1 DEF EventAck
    <3>2. UNCHANGED <<tzCurr, tzPrev, pc>> /\ RethinkRequest
      BY <2>1 DEF EventAck, HandlerFrame, zoneVars
    <3> QED BY <1>0, <1>2, <3>1, <3>2
  <2>2. (\E c \in dialogs : QueueAck(c))
          \/ (\E c \in dialogs, b \in Buttons, q \in BOOLEAN : UserAnswers(c, b, q))
          => Quiet /\ UNCHANGED pc /\ (rethink' = rethink \/ RethinkRequest)
    BY DEF QueueAck, UserAnswers, HandlerFrame, zoneVars, stateVars, timerVars
  <2> HIDE DEF Quiet, Goal
  <2>3. Goal
    BY <1>0, <1>2, <1>5, <2>1, <2>2 DEF UserStep
  <2> QED BY <2>3 DEF Goal
<1>6. CASE SignalStep
  <2>1. ASSUME NEW s, NameLost(s) \/ NameGained(s) PROVE Goal
    BY <1>0, <1>2, <2>1 DEF NameLost, NameGained, SetState3, HandlerFrame, zoneVars
  <2>2. ASSUME LimboDisabled, LimboFrame PROVE Goal
    BY <1>0, <1>2, <2>2 DEF LimboDisabled, LimboFrame, SetFlags, SetState3, zoneVars
  <2>3. ASSUME HomeReady, WaitState # "home" PROVE Goal
    BY <1>0, <1>2, <2>3 DEF HomeReady, LimboFrame, zoneVars, stateVars
  <2>4. CASE IcdStatus
    BY <1>0, <1>2, <2>4 DEF IcdStatus, SetState3, HandlerFrame, zoneVars
  <2>5. ASSUME NEW b, TimeChange(b) PROVE Goal
    <3>1. /\ tzCurr' = tz /\ tzPrev' = tzPrev /\ pc' = "idle"
          /\ "TZ_CHANGED" \in flags' <=> ("TZ_CHANGED" \in flags \/ tz # tzPrev)
      BY <1>0, <2>5 DEF TimeChange, SetFlags, SetState3, HandlerFrame
    <3>2. flags' # flags => rethink' # Never
      BY <2>5, RequestAsks DEF TimeChange, SetFlags, SetState3, RethinkRequest
    <3>3. flags' = flags => (rethink' = Never => rethink = Never)
      BY <2>5, RequestAsks DEF TimeChange, SetFlags
    <3>4. ZoneHandled'
      BY <1>0, <3>1, <3>2, <3>3 DEF ZoneHandled, Quiescent, AfterQueued
    <3> QED BY <3>1, <3>4 DEF ZoneNoted
  <2> QED BY <1>6, <2>1, <2>2, <2>3, <2>4, <2>5
          DEF SignalStep, InitDone, HildonReady, HomeReady
<1>7. CASE ClockStep
  BY <1>0, <1>2, <1>7 DEF ClockStep, Tick, ClockJump, ZoneChange, ClockFrame, zoneVars,
     stateVars, timerVars
<1> QED BY <1>3, <1>4, <1>5, <1>6, <1>7 DEF HandlerStep

(* server_event_get_next_trigger for such an alarm.                        *)
LEMMA TimeOnWall ==
  ASSUME DatesOnce, NEW k \in Kinds, OnWall(k), NEW z \in Zones, NEW t0 \in Int
  PROVE  /\ \A e : e.kind = k => NextTrigger(t0, 0, e, z) = k.at - z
         /\ InitialTrigger(k, t0, z) = k.at - z
         /\ k.at - z # 0
<1>1. /\ k.at \in Int /\ k.recur = 0 /\ k.mask < 0 /\ k.mask \in Int /\ z \in Int
      /\ k.at - z # 0 /\ k.how = "date"
  BY EnvironmentConstants DEF DatesOnce, OnWall, Kind
<1>2. ASSUME NEW e, e.kind = k PROVE NextTrigger(t0, 0, e, z) = k.at - z
  <2>1. ~IsRecurring(e)
    BY <1>1, <1>2 DEF IsRecurring
  <2>2. BaseTime(k, t0, z) = k.at - z
    BY <1>1 DEF BaseTime
  <2> QED BY <1>2, <2>1, <2>2 DEF NextTrigger
<1>3. InitialTrigger(k, t0, z) = NextTrigger(t0, 0, FreshEvent(k, 0), z)
  BY <1>1 DEF InitialTrigger
<1>4. FreshEvent(k, 0).kind = k
  BY DEF FreshEvent
<1> QED BY <1>1, <1>2, <1>3, <1>4

(* A marked change of the zone reaches every queued alarm.                 *)
LEMMA ZoneReaches ==
  ASSUME IInv, RethinkTimechange, "TZ_CHANGED" \in flags,
         NEW c \in InState(S_QUEUED), ev[c].snoozed = 0, OnWall(ev[c].kind)
  PROVE  ev'[c].trigger = NextTrigger(now, 0, ev[c], tzCurr)
<1> DEFINE forw == IF "CLK_MV_FORW" \in flags THEN clk.forw ELSE 0
           back == IF "CLK_MV_BACK" \in flags THEN clk.back ELSE 0
<1>1. /\ c \in DOMAIN ev /\ ev[c] \in Event /\ ev[c].state = S_QUEUED
      /\ now \in Int /\ tzCurr \in Int /\ clk.forw \in Int /\ clk.back \in Int
  BY EnvironmentConstants DEF IInv, Typed, QueueOK, LoopOK, ZonesOK, ClocksOK, InState
<1>2. forw + back \in Int
  BY <1>1
<1>3. ev'[c] = Rescheduled(ev[c], forw + back).e
  BY <1>1 DEF RethinkTimechange
<1> HIDE DEF forw, back
<1> QED BY <1>1, <1>2, <1>3, RescheduledBecomes DEF OnWall, Needs

(* After its first function a pass has no new alarms left.                 *)
LEMMA NoneNew ==
  ASSUME IInv, RethinkNew, NEW c \in DOMAIN ev', Visible(ev'[c])
  PROVE  ev'[c].state # S_NEW
<1>1. /\ c \in DOMAIN ev /\ ev[c] \in Event
      /\ ev'[c] = (IF Visible(ev[c]) /\ ev[c].state = S_NEW
                   THEN NewStep(ev[c]) ELSE Cell(ev[c])).e
  BY DEF IInv, Typed, QueueOK, RethinkNew, Phase, PassOver
<1> QED BY <1>1, NewBecomes, CellKeeps

(* The functions of the loop.                                              *)
LEMMA MovesOnTime ==
  ASSUME Typed, DatesOnce, NEW e \in Event, NEW f, e.kind \in Kinds, OnWall(e.kind), OnTime(e),
         Becomes(e, f), f # e
  PROVE  /\ f.state \notin {S_WAITCONN, S_POSTPONED, S_RECURRING}
         /\ f.snoozed = 0 => f.trigger # 0
         /\ \/ f.state # S_NEW
            \/ f.snoozed # 0
            \/ f.snoozed = 0 /\ f.trigger = e.kind.at - tzCurr
         /\ f.state = S_QUEUED => e.state = S_NEW /\ SameTimes(e, f)
         /\ f.state = S_NEW => e.state \in {S_QUEUED, S_SNOOZED}
<1> USE DEF S_NEW, S_WAITCONN, S_QUEUED, S_MISSED, S_POSTPONED, S_LIMBO, S_TRIGGERED,
            S_WAITSYSUI, S_SYSUI_REQ, S_SYSUI_ACK, S_SYSUI_RSP, S_SNOOZED, S_SERVED,
            S_RECURRING, S_DELETED
<1>1. /\ ~IsRecurring(e) /\ ~Offline(e) /\ ~Needs(e, "POSTPONE_DELAYED")
      /\ e.kind.at \in Int /\ tzCurr \in Zones /\ now \in Int
  BY EnvironmentConstants DEF DatesOnce, OnWall, IsRecurring, Offline, Needs, Kind, Typed,
     ZonesOK, LoopOK
<1>2. /\ e.state \notin {S_WAITCONN, S_POSTPONED, S_RECURRING}
      /\ e.snoozed = 0 => e.trigger # 0
  BY DEF OnTime
<1>3. CASE Shifts(e, f)
  <2>1. NextTrigger(now, 0, e, tzCurr) = e.kind.at - tzCurr /\ e.kind.at - tzCurr # 0
    BY <1>1, TimeOnWall
  <2> QED BY <1>2, <1>3, <2>1 DEF Shifts
<1>4. CASE e.state = S_SNOOZED /\ Moves(e, f)
  <2>1. f.state = S_NEW /\ f.snoozed # 0
    BY <1>2, <1>4 DEF Moves
  <2> QED BY <1>4, <2>1
<1>5. CASE e.state = S_NEW /\ Moves(e, f)
  BY <1>1, <1>2, <1>5 DEF Moves, SameTimes
<1>6. CASE e.state = S_QUEUED /\ Moves(e, f)
  BY <1>1, <1>2, <1>6 DEF Moves, SameTimes
<1>7. CASE e.state \notin {S_SNOOZED, S_NEW, S_QUEUED} /\ Moves(e, f)
  <2>1. /\ SameTimes(e, f)
        /\ f.state \notin {S_NEW, S_QUEUED, S_WAITCONN, S_POSTPONED, S_RECURRING}
    BY <1>1, <1>2, <1>7 DEF Moves
  <2> QED BY <1>2, <2>1 DEF SameTimes
<1> QED BY <1>3, <1>4, <1>5, <1>6, <1>7 DEF Becomes

LEMMA NewPlaces ==
  ASSUME IInv, DateInv, [Next]_vars, pc' \in {"waitconn", "timechange"},
         NEW c \in DOMAIN ev', OnWall(ev'[c].kind), Visible(ev'[c])
  PROVE  ev'[c].state # S_NEW
<1>1. CASE RethinkNew
  BY <1>1, NoneNew
<1>2. CASE RethinkWaitconn
  <2>1. pc = "waitconn" /\ Pos(pc) = S_WAITCONN /\ LoopEvents
    BY <1>2, LoopBecomes DEF RethinkWaitconn, Phase, PassOver, Pos, RethinkStep
  <2>2. CASE c \in DOMAIN ev /\ ev'[c] = ev[c]
    BY <2>1, <2>2 DEF DateInv, OnTime
  <2>3. CASE c \in DOMAIN ev /\ Visible(ev[c]) /\ ev[c].state = S_WAITCONN
             /\ Becomes(ev[c], ev'[c])
    BY <2>3 DEF DateInv, OnTime, Becomes
  <2> QED BY <2>1, <2>2, <2>3 DEF LoopEvents
<1>3. CASE UNCHANGED vars
  BY <1>3 DEF vars, DateInv, OnTime
<1>4. RethinkStep => RethinkNew \/ RethinkWaitconn
  BY DEF RethinkStep, RethinkTimechange, RethinkQueued,
     RethinkMissed, RethinkPostponed, RethinkLimbo, RethinkTriggered, RethinkWaitsysui,
     RethinkSysuiReq, RethinkSysuiAck, RethinkSysuiRsp, RethinkSnoozed, RethinkServed,
     RethinkRecurring, RethinkDeleted, RethinkCleanup, RethinkFinish, Phase, PassOver
<1>5. HandlerStep => pc' \in {"idle", "new"}
  <2>1. TimerStep => RethinkStart \/ UNCHANGED pc
    BY DEF TimerStep, RethinkUnstable, WakeupFires, SaveFires, LimboTimeout, LimboFrame
  <2>2. ClientStep => UNCHANGED pc
    BY DEF ClientStep, EventAdd, EventUpdate, EventDel, SnoozeSet, ClearUserData,
           RestoreFactorySettings, SaveData, HandlerFrame
  <2>3. UserStep \/ SignalStep \/ ClockStep => UNCHANGED pc
    BY DEF UserStep, QueueAck, UserAnswers, EventAck, SignalStep, NameLost, NameGained,
           InitDone, HildonReady, HomeReady, IcdStatus, TimeChange, ClockStep, Tick,
           ClockJump, ZoneChange, HandlerFrame, LimboFrame, ClockFrame
  <2> QED BY <2>1, <2>2, <2>3, HandlersWait DEF HandlerStep, RethinkStart
<1> QED BY <1>1, <1>2, <1>3, <1>4, <1>5, NextSplit

LEMMA DateStep ==
  ASSUME DatesOnce
  PROVE  IInv /\ ZoneNoted /\ ZoneHandled /\ DateInv /\ [Next]_vars
           => ZoneNoted' /\ ZoneHandled' /\ DateInv'
<1> SUFFICES ASSUME IInv, ZoneNoted, ZoneHandled, DateInv, [Next]_vars
             PROVE  ZoneNoted' /\ ZoneHandled' /\ DateInv'
  OBVIOUS
<1>0. /\ Typed /\ tzCurr \in Zones /\ now \in Int /\ Wall \in Int
      /\ \A c \in DOMAIN ev : ev[c] \in Event
  BY DEF IInv, Typed, QueueOK, ZonesOK, LoopOK, ClocksOK, Wall
<1>1. /\ ZoneNoted' /\ ZoneHandled'
      /\ \/ RethinkTimechange /\ tzCurr' = tzCurr
         \/ "TZ_CHANGED" \notin flags' => "TZ_CHANGED" \notin flags /\ tzCurr' = tzCurr
  <2>1. CASE UNCHANGED vars
    BY <2>1, KeepZone DEF vars, zoneVars, stateVars, timerVars, Quiescent
  <2> QED BY <1>0, <2>1, LoopZone, HandlerZone, NextSplit
<1>2. ASSUME NEW c \in DOMAIN ev'
      PROVE  /\ ev'[c].kind \in Kinds
             /\ OnWall(ev'[c].kind) /\ Visible(ev'[c]) => OnTime(ev[c])'
  <2>1. ev'[c].kind \in Kinds
    BY StepEvents DEF DateInv, Becomes, Handled, Added, FreshEvent
  <2> SUFFICES ASSUME OnWall(ev'[c].kind), Visible(ev'[c]) PROVE OnTime(ev[c])'
    BY <2>1
  <2>2. ev'[c].state = S_NEW => pc' \notin {"waitconn", "timechange"}
    BY NewPlaces
  <2>3. ASSUME c \in DOMAIN ev, Visible(ev[c]), ev'[c].kind = ev[c].kind,
               SameTimes(ev[c], ev'[c]), ev[c].state \in {S_NEW, S_QUEUED},
               ev'[c].snoozed = 0, "TZ_CHANGED" \notin flags'
        PROVE  ev'[c].trigger = ev'[c].kind.at - tzCurr'
    <3>1. OnTime(ev[c]) /\ ev[c].snoozed = 0 /\ ev'[c].trigger = ev[c].trigger
      BY <2>3 DEF DateInv, SameTimes
    <3>2. CASE "TZ_CHANGED" \in flags
      <4>1. RethinkTimechange /\ tzCurr' = tzCurr /\ pc = "timechange"
        BY <1>1, <2>3, <3>2 DEF RethinkTimechange
      <4>2. c \in InState(S_QUEUED)
        BY <2>3, <3>1, <4>1 DEF OnTime, InState
      <4>3. ev'[c].trigger = NextTrigger(now, 0, ev[c], tzCurr)
        BY <2>3, <3>1, <3>2, <4>1, <4>2, ZoneReaches
      <4> QED BY <1>0, <2>1, <2>3, <4>1, <4>3, TimeOnWall
    <3>3. CASE "TZ_CHANGED" \notin flags
      <4>1. tzCurr' = tzCurr
        BY <1>1, <2>3, <3>3
      <4> QED BY <2>3, <3>1, <3>3, <4>1 DEF OnTime
    <3> QED BY <3>2, <3>3
  <2>4. "TZ_CHANGED" \notin flags' => tzCurr' = tzCurr
    BY <1>1
  <2>5. CASE c \in DOMAIN ev /\ ev'[c] = ev[c]
    <3>1. OnTime(ev[c])
      BY <2>5 DEF DateInv
    <3> QED BY <2>2, <2>3, <2>5, <3>1 DEF OnTime, SameTimes
  <2>6. CASE c \in DOMAIN ev /\ Handled(ev[c], ev'[c])
    <3>1. OnTime(ev[c]) /\ Visible(ev[c]) /\ ev'[c].kind = ev[c].kind
          /\ SameTimes(ev[c], ev'[c])
      BY <2>6 DEF DateInv, Handled, Visible
    <3>2. ev'[c].state = ev[c].state
            \/ ev'[c].state \in {S_DELETED, S_SYSUI_ACK, S_SYSUI_RSP}
      BY <2>6 DEF Handled
    <3> QED BY <2>2, <2>3, <2>6, <3>1, <3>2 DEF OnTime, SameTimes, S_NEW, S_QUEUED, S_WAITCONN,
               S_POSTPONED, S_RECURRING, S_DELETED, S_SYSUI_ACK, S_SYSUI_RSP
  <2>7. CASE c \in DOMAIN ev /\ Becomes(ev[c], ev'[c]) /\ Visible(ev[c]) /\ ev'[c] # ev[c]
    <3>1. ev'[c].kind = ev[c].kind /\ OnTime(ev[c])
      BY <2>7 DEF DateInv, Becomes
    <3>2. /\ ev'[c].state \notin {S_WAITCONN, S_POSTPONED, S_RECURRING}
          /\ ev'[c].snoozed = 0 => ev'[c].trigger # 0
          /\ \/ ev'[c].state # S_NEW
             \/ ev'[c].snoozed # 0
             \/ ev'[c].snoozed = 0 /\ ev'[c].trigger = ev[c].kind.at - tzCurr
          /\ ev'[c].state = S_QUEUED => ev[c].state = S_NEW /\ SameTimes(ev[c], ev'[c])
      BY <1>0, <2>1, <2>7, <3>1, MovesOnTime
    <3>3. ev'[c].snoozed = 0 /\ ev'[c].state \in {S_NEW, S_QUEUED} /\ "TZ_CHANGED" \notin flags'
            => ev'[c].trigger = ev'[c].kind.at - tzCurr'
      BY <2>3, <2>4, <2>7, <3>1, <3>2
    <3> QED BY <2>2, <3>2, <3>3 DEF OnTime
  <2>8. CASE Added(ev'[c])
    <3>1. PICK k \in Kinds : ev'[c] = FreshEvent(k, InitialTrigger(k, Wall, tzCurr))
      BY <2>8 DEF Added
    <3>2. /\ ev'[c].kind = k /\ ev'[c].state = S_NEW /\ ev'[c].snoozed = 0
          /\ ev'[c].trigger = InitialTrigger(k, Wall, tzCurr)
      BY <3>1 DEF FreshEvent
    <3>3. ev'[c].trigger = k.at - tzCurr /\ k.at - tzCurr # 0
      BY <1>0, <3>2, TimeOnWall
    <3> QED BY <2>2, <2>4, <3>2, <3>3 DEF OnTime, S_NEW, S_WAITCONN, S_POSTPONED, S_RECURRING
  <2> QED BY <2>5, <2>6, <2>7, <2>8, StepEvents
<1> QED BY <1>1, <1>2 DEF DateInv

(* An alarm given by the clock on the wall stays at that time of day,      *)
(* whatever zones, jumps of the clock and other alarms come between, as    *)
(* long as it rings once and does not wait for the internet.               *)
THEOREM LocalTimesKept ==
  ASSUME DatesOnce
  PROVE  Spec => []LocalTimeKept
<1>1. Init => ZoneNoted /\ ZoneHandled /\ DateInv
  BY EnvironmentConstants DEF Init, ZoneNoted, ZoneHandled, DateInv, NoEvents
<1>2. IInv /\ ZoneNoted /\ ZoneHandled /\ DateInv /\ [Next]_vars
        => ZoneNoted' /\ ZoneHandled' /\ DateInv'
  BY DateStep
<1>3. ZoneHandled /\ DateInv => LocalTimeKept
  BY DEF ZoneHandled, DateInv, LocalTimeKept, OnWall, OnTime, AtLocalTime, InState, Needs
<1> QED BY <1>1, <1>2, <1>3, Inductive, PTL DEF Spec

-----------------------------------------------------------------------------
(* Alarms that are not missed.                                             *)

(* Due timers and messages run before time passes, nobody sets the clock   *)
(* or changes the zone, no alarm waits for the internet, and the clock     *)
(* stops before the end of time.                                           *)
PromptAlarms ==
  /\ Prompt /\ Stimuli \cap {"jump", "zone", "clockd"} = {}
  /\ \A k \in Kinds : "CONNECTED" \notin k.flags
  /\ MaxTime < INT_MAX

(* The stability check finds nothing to do, ...                            *)
ClockNews == {"TZ_CHANGED", "CLK_CHANGED", "CLK_MV_FORW", "CLK_MV_BACK"}
Steady ==
  /\ delta = 0 /\ mono <= MaxTime /\ tzPrev = tz /\ flags \cap ClockNews = {}
  /\ clk.initialized => clk.clock = 0 /\ clk.sched = 0 /\ clk.until <= mono

(* ... a rethink that was asked for is due, a wakeup rings when it says,   *)
Punctual ==
  rethink <= mono /\ (wakeup.due # Never => wakeup.due = wakeup.time)

(* and what waits for its time has not let it pass.                        *)
Ahead(e) ==
  /\ e.state \notin {S_WAITCONN, S_MISSED}
  /\ e.state \in {S_NEW, S_QUEUED} => e.trigger >= mono

AheadInv ==
  \A c \in DOMAIN ev : ev[c].kind \in Kinds /\ (Visible(ev[c]) => Ahead(ev[c]))

(* A steady clock stays so.                                                *)
LEMMA KeepSteady ==
  ASSUME Steady, UNCHANGED <<mono, delta, clk, tz, tzPrev>>, flags' \cap ClockNews = {}
  PROVE  Steady'
BY DEF Steady

LEMMA SteadyStart ==
  ASSUME Typed, Steady, RethinkStart
  PROVE  Steady'
<1>0. /\ clk \in ClkType /\ mono \in Nat /\ CLK_RESCHED \in Nat
  BY ServerConstants DEF Typed, ClocksOK, ClkType
<1>1. ClkSeen = ClkBase
  BY StableClock DEF RethinkStart
<1>2. /\ ClkBase \in ClkType /\ ClkBase.clock = 0 /\ ClkBase.sched = 0
      /\ ClkBase.until <= mono
  <2>1. CASE clk.initialized
    BY <1>0, <2>1 DEF ClkBase, Steady
  <2>2. CASE ~clk.initialized
    <3>1. ClkBase = [clk EXCEPT !.initialized = TRUE, !.clock = delta,
                                !.sched = delta, !.until = mono]
      BY <2>2 DEF ClkBase
    <3>2. ClkBase.clock = delta /\ ClkBase.sched = delta /\ ClkBase.until = mono
      BY <1>0, <3>1 DEF ClkType
    <3> QED BY <1>0, <3>2, ClkBaseOk DEF Steady
  <2> QED BY <2>1, <2>2
<1>3. ClkSeen.clock - ClkSeen.sched = 0
  BY <1>1, <1>2
<1>4. /\ ~(ClkSeen.clock - ClkSeen.sched > CLK_RESCHED)
      /\ ~(ClkSeen.clock - ClkSeen.sched < -CLK_RESCHED)
  BY <1>0, <1>3
<1>5. clk' = ClkSeen /\ flags' = flags
  BY <1>4 DEF RethinkStart
<1>6. UNCHANGED <<mono, delta, tz, tzPrev>>
  BY DEF RethinkStart, zoneVars
<1> QED BY <1>1, <1>2, <1>5, <1>6 DEF Steady

LEMMA SteadyIsStable ==
  ASSUME Typed, Steady
  PROVE  ~RethinkUnstable
<1>0. /\ clk \in ClkType /\ mono \in Nat /\ CLK_JITTER \in Nat
  BY ServerConstants DEF Typed, ClocksOK, ClkType
<1>2. ClkBase.clock = 0 /\ ClkBase.until <= mono
  <2>1. CASE clk.initialized
    BY <1>0, <2>1 DEF ClkBase, Steady
  <2>2. CASE ~clk.initialized
    <3>1. ClkBase = [clk EXCEPT !.initialized = TRUE, !.clock = delta,
                                !.sched = delta, !.until = mono]
      BY <2>2 DEF ClkBase
    <3>2. ClkBase.clock = delta /\ ClkBase.until = mono
      BY <1>0, <3>1 DEF ClkType
    <3> QED BY <1>0, <3>2 DEF Steady
  <2> QED BY <2>1, <2>2
<1>3. ~ClkDetected
  BY <1>0, <1>2 DEF ClkDetected, Steady, ClockNews
<1> QED BY <1>2, <1>3 DEF RethinkUnstable, ClkStable, ClkSeen

LEMMA SteadyLoop ==
  ASSUME Typed, Steady, RethinkStep
  PROVE  Steady' /\ flags' \subseteq flags /\ ~ZoneNews
<1>0. ~ZoneNews
  BY DEF Steady, ZoneNews
<1>1. CASE RethinkTimechange
  <2> DEFINE forw == IF "CLK_MV_FORW" \in flags THEN clk.forw ELSE 0
             back == IF "CLK_MV_BACK" \in flags THEN clk.back ELSE 0
  <2>0. "TZ_CHANGED" \notin flags /\ forw = 0 /\ back = 0
    BY DEF Steady, ClockNews
  <2>1. /\ clk' = [clk EXCEPT !.forw = @ - forw, !.back = @ - back]
        /\ flags' = flags \ {"TZ_CHANGED", "CLK_MV_FORW", "CLK_MV_BACK"}
        /\ tzPrev' = IF "TZ_CHANGED" \in flags \/ forw + back # 0 THEN tzCurr ELSE tzPrev
        /\ UNCHANGED <<mono, delta, tz>>
    BY <1>1 DEF RethinkTimechange
  <2> HIDE DEF forw, back
  <2>2. clk \in ClkType
    BY DEF Typed, ClocksOK, ClkType
  <2>3. /\ clk'.initialized = clk.initialized /\ clk'.clock = clk.clock
        /\ clk'.sched = clk.sched /\ clk'.until = clk.until
    BY <2>1, <2>2 DEF ClkType
  <2>4. tzPrev' = tzPrev
    BY <2>0, <2>1
  <2> QED BY <1>0, <2>1, <2>3, <2>4 DEF Steady
<1>2. CASE RethinkFinish
  <2>1. flags' \subseteq flags /\ UNCHANGED <<mono, delta, clk, tz, tzPrev>>
    BY <1>0, <1>2 DEF RethinkFinish, clockVars
  <2> QED BY <1>0, <2>1 DEF Steady
<1>3. CASE ~RethinkTimechange /\ ~RethinkFinish
  <2>1. UNCHANGED <<flags, mono, delta, clk, tz, tzPrev>>
    BY <1>3 DEF RethinkStep, RethinkNew, RethinkWaitconn, RethinkQueued,
         RethinkMissed, RethinkPostponed, RethinkLimbo, RethinkTriggered, RethinkWaitsysui,
         RethinkSysuiReq, RethinkSysuiAck, RethinkSysuiRsp, RethinkSnoozed, RethinkServed,
         RethinkRecurring, RethinkDeleted, RethinkCleanup, Phase, zoneVars, stateVars,
         clockVars
  <2> QED BY <1>0, <2>1, KeepSteady DEF Steady
<1> QED BY <1>1, <1>2, <1>3

LEMMA SteadyStep ==
  ASSUME PromptAlarms, Typed, Steady, [Next]_vars
  PROVE  Steady'
<1>1. CASE RethinkStep
  BY <1>1, SteadyLoop
<1>2. CASE TimerStep
  <2>1. CASE WakeupFires \/ SaveFires
    BY <2>1, KeepSteady DEF WakeupFires, SaveFires, clockVars, zoneVars, stateVars, Steady
  <2>2. CASE LimboTimeout
    BY <2>2, KeepSteady DEF LimboTimeout, LimboDisabled, LimboFrame, SetFlags, SetState3,
         clockVars, zoneVars, Steady, ClockNews
  <2> QED BY <1>2, <2>1, <2>2, SteadyIsStable, SteadyStart DEF TimerStep
<1>3. CASE ClientStep
  <2>1. UNCHANGED <<flags, mono, delta, clk, tz, tzPrev>>
    BY <1>3 DEF ClientStep, EventAdd, EventUpdate, EventDel, SnoozeSet, ClearUserData,
       RestoreFactorySettings, SaveData, HandlerFrame, clockVars, zoneVars, stateVars
  <2> QED BY <2>1, KeepSteady DEF Steady
<1>4. CASE UserStep
  <2>1. /\ UNCHANGED <<mono, delta, clk, tz, tzPrev>>
        /\ flags' \in {flags, flags \cup {"SEND_POWERUP"}}
    BY <1>4 DEF UserStep, QueueAck, UserAnswers, EventAck, HandlerFrame, clockVars, zoneVars,
       stateVars
  <2> QED BY <2>1, KeepSteady DEF Steady, ClockNews
<1>5. CASE SignalStep
  <2>1. ASSUME NEW s, NameLost(s) \/ NameGained(s) PROVE Steady'
    BY <2>1, KeepSteady DEF NameLost, NameGained, SetState3, HandlerFrame, clockVars, zoneVars,
         Steady
  <2>2. ASSUME LimboDisabled, LimboFrame PROVE Steady'
    BY <2>2, KeepSteady DEF LimboDisabled, LimboFrame, SetFlags, SetState3, clockVars,
         zoneVars, Steady, ClockNews
  <2>3. ASSUME HomeReady, WaitState # "home" PROVE Steady'
    BY <2>3, KeepSteady DEF HomeReady, LimboFrame, clockVars, zoneVars, stateVars, Steady
  <2>4. CASE IcdStatus
    BY <2>4, KeepSteady DEF IcdStatus, SetState3, HandlerFrame, clockVars, zoneVars,
         Steady, ClockNews
  <2>5. ASSUME NEW b, TimeChange(b) PROVE FALSE
    BY <2>5 DEF TimeChange, May, PromptAlarms
  <2> QED BY <1>5, <2>1, <2>2, <2>3, <2>4, <2>5 DEF SignalStep, InitDone, HildonReady, HomeReady
<1>6. CASE Tick
  <2>1. /\ mono' = mono + 1 /\ mono < MaxTime /\ mono \in Nat /\ MaxTime \in Nat
        /\ UNCHANGED <<delta, clk, tz, tzPrev, flags>>
    BY <1>6, EnvironmentConstants DEF Tick, ClockFrame, zoneVars, stateVars, Typed, ClocksOK
  <2>2. clk.until \in Int
    BY DEF Typed, ClocksOK
  <2> QED BY <2>1, <2>2 DEF Steady
<1>7. ASSUME NEW x, ClockJump(x) \/ ZoneChange(x) PROVE FALSE
  BY <1>7 DEF ClockJump, ZoneChange, May, PromptAlarms
<1>8. CASE UNCHANGED vars
  BY <1>8, KeepSteady DEF vars, clockVars, zoneVars, stateVars, Steady
<1> QED BY <1>1, <1>2, <1>3, <1>4, <1>5, <1>6, <1>7, <1>8 DEF Next, ClockStep


(* So do the timers.                                                       *)
LEMMA KeepPunctual ==
  ASSUME Typed, Punctual, mono' \in {mono, mono + 1},
         rethink' \in {rethink, Never, Requested}, wakeup' \in {wakeup, NoWakeup}
  PROVE  Punctual'
<1>1. mono \in Nat /\ rethink \in Nat \cup {Never} /\ rethink <= mono
  BY DEF Typed, ClocksOK, TimersOK, Punctual
<1>2. rethink' <= mono'
  BY <1>1 DEF Requested, Never
<1>3. wakeup'.due # Never => wakeup' = wakeup
  BY DEF NoWakeup
<1> QED BY <1>2, <1>3 DEF Punctual

(* A wakeup that is requested is exact as long as the clock is not set.    *)
LEMMA ExactWakeup ==
  ASSUME Typed, Steady, LoopClock, Punctual, RethinkQueued
  PROVE  Punctual'
<1>0. /\ now \in Int /\ INT_MAX \in Int /\ mono \in Nat /\ TwoWeeks \in Nat \ {0}
      /\ \A c \in DOMAIN ev : ev[c] \in Event
  BY TimeConstants, ServerConstants DEF Typed, LoopOK, QueueOK, ClocksOK
<1>1. pc = "queued" /\ UNCHANGED <<mono, rethink>> /\ now = mono + delta
  BY DEF RethinkQueued, PassOver, clockVars, LoopClock
<1>2. PICK d \in TimesOf("desktop"), a \in TimesOf("actdead"), n \in TimesOf("no_boot") :
        IF MinOf(MinOf(d, a), n) < INT_MAX
        THEN RequestWakeup(MinOf(MinOf(d, a), n)) ELSE UNCHANGED wakeup
  BY DEF RethinkQueued
<1> DEFINE tsw == MinOf(MinOf(d, a), n)
           tmo == MinOf(tsw, now + TwoWeeks)
<1>3. ASSUME NEW b, NEW t \in TimesOf(b)
      PROVE  t \in Int /\ (t = INT_MAX \/ t > now)
  BY <1>0, <1>3 DEF TimesOf, Waiting, InState, Event
<1>4. tsw \in {d, a, n}
  BY DEF MinOf
<1>5. tsw \in Int /\ (tsw < INT_MAX => tsw > now)
  BY <1>3, <1>4
<1>6. \/ UNCHANGED wakeup
      \/ tsw < INT_MAX /\ wakeup' = [time |-> tmo, due |-> mono + MaxOf(0, tmo - now)]
  BY <1>2 DEF RequestWakeup
<1> HIDE DEF tsw
<1>7. tsw < INT_MAX => tmo \in Int /\ tmo > now
  BY <1>0, <1>5 DEF MinOf
<1> HIDE DEF tmo
<1>8. wakeup' = wakeup \/ wakeup'.due = wakeup'.time
  <2>1. CASE tsw < INT_MAX /\ wakeup' = [time |-> tmo, due |-> mono + MaxOf(0, tmo - now)]
    <3>1. MaxOf(0, tmo - now) = tmo - now
      BY <1>0, <1>7, <2>1 DEF MaxOf
    <3>2. mono + (tmo - now) = tmo
      BY <1>0, <1>1, <1>7, <2>1 DEF Steady
    <3> QED BY <2>1, <3>1, <3>2
  <2> QED BY <1>6, <2>1
<1> QED BY <1>1, <1>8 DEF Punctual

LEMMA PunctualStep ==
  ASSUME PromptAlarms, Typed, Steady, LoopClock, Punctual, [Next]_vars
  PROVE  Punctual'
<1>1. CASE RethinkStep
  <2>1. CASE RethinkFinish
    BY <2>1, KeepPunctual DEF RethinkFinish, ServerStateSync, clockVars
  <2>2. CASE ~RethinkFinish /\ ~RethinkQueued
    <3>1. UNCHANGED <<mono, rethink, wakeup>>
      BY <1>1, <2>2 DEF RethinkStep, RethinkNew, RethinkWaitconn, RethinkTimechange,
         RethinkMissed, RethinkPostponed, RethinkLimbo, RethinkTriggered, RethinkWaitsysui,
         RethinkSysuiReq, RethinkSysuiAck, RethinkSysuiRsp, RethinkSnoozed, RethinkServed,
         RethinkRecurring, RethinkDeleted, RethinkCleanup, Phase, timerVars, clockVars
    <3> QED BY <3>1, KeepPunctual
  <2> QED BY <2>1, <2>2, ExactWakeup
<1>2. CASE TimerStep
  <2>1. CASE RethinkStart
    BY <2>1, KeepPunctual DEF RethinkStart
  <2>2. CASE WakeupFires \/ SaveFires
    BY <2>2, KeepPunctual DEF WakeupFires, SaveFires, RethinkRequest, clockVars
  <2>3. CASE LimboTimeout
    BY <2>3, KeepPunctual DEF LimboTimeout, LimboDisabled, LimboFrame, SetFlags, SetState3,
         clockVars
  <2> QED BY <1>2, <2>1, <2>2, <2>3, SteadyIsStable DEF TimerStep
<1>3. CASE ClientStep
  <2>1. UNCHANGED <<mono, wakeup>> /\ rethink' \in {rethink, Requested}
    BY <1>3 DEF ClientStep, EventAdd, EventUpdate, EventDel, SnoozeSet, ClearUserData,
       RestoreFactorySettings, SaveData, HandlerFrame, RethinkRequest, clockVars
  <2> QED BY <2>1, KeepPunctual
<1>4. CASE UserStep
  <2>1. UNCHANGED <<mono, wakeup>> /\ rethink' \in {rethink, Requested}
    BY <1>4 DEF UserStep, QueueAck, UserAnswers, EventAck, HandlerFrame, RethinkRequest,
       clockVars, timerVars
  <2> QED BY <2>1, KeepPunctual
<1>5. CASE SignalStep
  <2>1. ASSUME NEW s, NameLost(s) \/ NameGained(s) PROVE Punctual'
    BY <2>1, KeepPunctual DEF NameLost, NameGained, SetState3, HandlerFrame, clockVars
  <2>2. ASSUME LimboDisabled, LimboFrame PROVE Punctual'
    BY <2>2, KeepPunctual DEF LimboDisabled, LimboFrame, SetFlags, SetState3, clockVars
  <2>3. ASSUME HomeReady, WaitState # "home" PROVE Punctual'
    BY <2>3, KeepPunctual DEF HomeReady, LimboFrame, clockVars
  <2>4. CASE IcdStatus
    BY <2>4, KeepPunctual DEF IcdStatus, SetState3, HandlerFrame, clockVars
  <2>5. ASSUME NEW b, TimeChange(b) PROVE FALSE
    BY <2>5 DEF TimeChange, May, PromptAlarms
  <2> QED BY <1>5, <2>1, <2>2, <2>3, <2>4, <2>5 DEF SignalStep, InitDone, HildonReady, HomeReady
<1>6. CASE Tick
  BY <1>6, KeepPunctual DEF Tick, ClockFrame, timerVars
<1>7. ASSUME NEW x, ClockJump(x) \/ ZoneChange(x) PROVE FALSE
  BY <1>7 DEF ClockJump, ZoneChange, May, PromptAlarms
<1>8. CASE UNCHANGED vars
  BY <1>8, KeepPunctual DEF vars, clockVars, timerVars
<1> QED BY <1>1, <1>2, <1>3, <1>4, <1>5, <1>6, <1>7, <1>8 DEF Next, ClockStep

(* Time passes only while every alarm still lies ahead.                    *)
LEMMA TickAhead ==
  ASSUME PromptAlarms, IInv, Covered, Steady, Punctual, Tick,
         NEW c \in DOMAIN ev, Visible(ev[c]), ev[c].state \in {S_NEW, S_QUEUED}
  PROVE  ev[c].trigger >= mono + 1
<1>0. /\ mono \in Nat /\ mono < MaxTime /\ MaxTime \in Nat /\ INT_MAX \in Nat
      /\ rethink \in Nat \cup {Never} /\ wakeup.due \in Int /\ wakeup.time \in Int
      /\ ev[c] \in Event
  BY EnvironmentConstants, TimeConstants DEF IInv, Typed, ClocksOK, TimersOK, QueueOK, Tick
<1>1. pc = "idle" /\ ~Pending
  BY DEF Tick, PromptAlarms
<1>2. rethink = Never
  BY <1>0, <1>1 DEF Pending, Punctual
<1>3. Quiescent /\ Settled(ev[c])
  BY <1>1, <1>2 DEF Quiescent, IInv, NoWorkLeftBehind
<1>4. c \in InState(S_QUEUED)
  BY <1>3 DEF Settled, InState, S_NEW, S_QUEUED, S_WAITCONN, S_LIMBO, S_WAITSYSUI,
     S_SYSUI_REQ, S_SYSUI_ACK
<1>5. CASE ev[c].trigger < INT_MAX
  <2>1. wakeup.due # Never /\ wakeup.time <= ev[c].trigger
    BY <1>3, <1>4, <1>5 DEF Covered
  <2>2. mono < wakeup.due /\ wakeup.due = wakeup.time
    BY <1>0, <1>1, <2>1 DEF Pending, Punctual
  <2> QED BY <1>0, <2>1, <2>2 DEF Event
<1>6. CASE ~(ev[c].trigger < INT_MAX)
  BY <1>0, <1>6 DEF PromptAlarms, Event
<1> QED BY <1>5, <1>6

(* The functions of the loop.                                              *)
LEMMA MovesAhead ==
  ASSUME Typed, LoopClock, Steady, pc # "idle", NEW e \in Event, NEW f, Ahead(e),
         "CONNECTED" \notin e.kind.flags, Becomes(e, f), ~Shifts(e, f)
  PROVE  Ahead(f)
<1> USE DEF S_NEW, S_WAITCONN, S_QUEUED, S_MISSED, S_POSTPONED, S_LIMBO, S_TRIGGERED,
            S_WAITSYSUI, S_SYSUI_REQ, S_SYSUI_ACK, S_SYSUI_RSP, S_SNOOZED, S_SERVED,
            S_RECURRING, S_DELETED
<1>0. /\ now \in Int /\ mono \in Nat /\ now = mono /\ SERVER_MISSED_LIMIT \in Nat
      /\ e.trigger \in Int /\ f.trigger \in Int /\ ~Offline(e)
  BY TimeConstants DEF Typed, LoopOK, ClocksOK, LoopClock, Steady, Event, Becomes, Offline,
     Needs
<1>1. CASE f = e
  BY <1>1
<1>2. CASE e.state \in {S_NEW, S_QUEUED} /\ Moves(e, f)
  <2>1. /\ e.trigger >= mono /\ f.trigger = e.trigger
        /\ f.state \in {S_QUEUED, S_SNOOZED, S_MISSED, S_LIMBO}
        /\ f.state = S_MISSED => now - e.trigger > SERVER_MISSED_LIMIT
    BY <1>0, <1>2 DEF Moves, SameTimes, Ahead
  <2> QED BY <1>0, <2>1 DEF Ahead
<1>3. CASE e.state \notin {S_NEW, S_QUEUED} /\ Moves(e, f)
  <2>1. /\ f.state \notin {S_WAITCONN, S_MISSED, S_QUEUED}
        /\ f.state = S_NEW => f.trigger > now
    BY <1>3 DEF Moves, Ahead
  <2> QED BY <1>0, <2>1 DEF Ahead
<1> QED BY <1>1, <1>2, <1>3 DEF Becomes

(* Nothing is rescheduled while the clock is steady.                       *)
LEMMA NothingShifts ==
  ASSUME Typed, Steady, RethinkTimechange, NEW c \in DOMAIN ev
  PROVE  ev'[c] = ev[c]
<1> DEFINE forw == IF "CLK_MV_FORW" \in flags THEN clk.forw ELSE 0
           back == IF "CLK_MV_BACK" \in flags THEN clk.back ELSE 0
           zone == "TZ_CHANGED" \in flags
<1>1. ~zone /\ forw = 0 /\ back = 0
  BY DEF Steady, ClockNews
<1>2. ev'[c] = (IF (zone \/ forw + back # 0) /\ c \in InState(S_QUEUED)
                THEN Rescheduled(ev[c], forw + back) ELSE Cell(ev[c])).e
  BY DEF RethinkTimechange
<1> HIDE DEF forw, back, zone
<1>3. ev'[c] = Cell(ev[c]).e
  BY <1>1, <1>2
<1> QED BY <1>3 DEF Cell

LEMMA NoneShifts ==
  ASSUME IInv, Steady, RethinkStep, NEW c \in DOMAIN ev', c \in DOMAIN ev,
         Visible(ev[c]), ev[c].state = Pos(pc), ev'[c] # ev[c]
  PROVE  ~Shifts(ev[c], ev'[c])
<1> SUFFICES ASSUME Shifts(ev[c], ev'[c]) PROVE FALSE
  OBVIOUS
<1>0. ev[c] \in Event /\ ev[c].state = S_QUEUED /\ ev'[c].state = S_NEW
  BY DEF IInv, Typed, QueueOK, Shifts
<1>1. RethinkTimechange \/ RethinkQueued
  <2>1. pc \in {"timechange", "queued"}
    BY <1>0 DEF IInv, Typed, LoopOK, Places, Pos, S_NEW, S_WAITCONN, S_QUEUED, S_MISSED,
       S_POSTPONED, S_LIMBO, S_TRIGGERED, S_WAITSYSUI, S_SYSUI_REQ, S_SYSUI_ACK,
       S_SYSUI_RSP, S_SNOOZED, S_SERVED, S_RECURRING, S_DELETED, S_FINALIZED
  <2> QED BY <2>1 DEF RethinkStep, RethinkNew, RethinkWaitconn,
         RethinkMissed, RethinkPostponed, RethinkLimbo, RethinkTriggered, RethinkWaitsysui,
         RethinkSysuiReq, RethinkSysuiAck, RethinkSysuiRsp, RethinkSnoozed, RethinkServed,
         RethinkRecurring, RethinkDeleted, RethinkCleanup, RethinkFinish, Phase, PassOver
<1>2. CASE RethinkTimechange
  BY <1>2, NothingShifts DEF IInv
<1>3. CASE RethinkQueued
  <2>1. ev'[c] = QueuedStep(ev[c]).e
    BY <1>0, <1>3 DEF RethinkQueued, PassOver
  <2> QED BY <1>0, <2>1, QueuedBecomes
<1> QED BY <1>1, <1>2, <1>3

LEMMA AheadStep ==
  ASSUME PromptAlarms, IInv, LoopClock, Covered, Steady, Punctual, AheadInv, [Next]_vars
  PROVE  AheadInv'
<1> USE DEF S_NEW, S_WAITCONN, S_QUEUED, S_MISSED, S_SYSUI_ACK, S_SYSUI_RSP, S_DELETED
<1>0. Typed /\ mono \in Nat /\ \A c \in DOMAIN ev : ev[c] \in Event
  BY DEF IInv, Typed, QueueOK, ClocksOK
<1>1. mono' = mono \/ Tick
  <2>1. RethinkStep => mono' = mono
    BY <1>0, LoopClocks
  <2>2. TimerStep => mono' = mono
    BY DEF TimerStep, RethinkUnstable, RethinkStart, WakeupFires, SaveFires, LimboTimeout,
       LimboFrame, clockVars
  <2>3. ClientStep => mono' = mono
    BY DEF ClientStep, EventAdd, EventUpdate, EventDel, SnoozeSet, ClearUserData,
       RestoreFactorySettings, SaveData, HandlerFrame, clockVars
  <2>4. UserStep \/ SignalStep => mono' = mono
    BY DEF UserStep, QueueAck, UserAnswers, EventAck, SignalStep, NameLost, NameGained,
       InitDone, HildonReady, HomeReady, IcdStatus, TimeChange, HandlerFrame, LimboFrame,
       clockVars
  <2>5. ClockStep => Tick \/ mono' = mono
    BY DEF ClockStep, ClockJump, ZoneChange
  <2>6. UNCHANGED vars => mono' = mono
    BY DEF vars, clockVars
  <2> QED BY <2>1, <2>2, <2>3, <2>4, <2>5, <2>6 DEF Next
<1>2. CASE Tick
  <2>1. ev' = ev /\ mono' = mono + 1
    BY <1>2 DEF Tick, ClockFrame
  <2> SUFFICES ASSUME NEW c \in DOMAIN ev
               PROVE  ev[c].kind \in Kinds /\ (Visible(ev[c]) => Ahead(ev[c])')
    BY <2>1 DEF AheadInv, Visible
  <2> QED BY <1>2, <2>1, TickAhead DEF AheadInv, Ahead
<1>3. CASE mono' = mono
  <2> SUFFICES ASSUME NEW c \in DOMAIN ev'
               PROVE  ev'[c].kind \in Kinds /\ (Visible(ev'[c]) => Ahead(ev'[c]))
    BY <1>3 DEF AheadInv, Ahead, Visible
  <2>1. CASE c \in DOMAIN ev /\ ev'[c] = ev[c]
    BY <2>1 DEF AheadInv
  <2>2. CASE c \in DOMAIN ev /\ Handled(ev[c], ev'[c])
    <3>1. /\ ev'[c].kind = ev[c].kind /\ (Visible(ev'[c]) => Visible(ev[c]))
          /\ ev'[c].trigger = ev[c].trigger
          /\ \/ ev'[c].state = ev[c].state
             \/ ev'[c].state \in {S_DELETED, S_SYSUI_ACK, S_SYSUI_RSP}
      BY <2>2 DEF Handled, SameTimes, Visible
    <3> QED BY <2>2, <3>1 DEF AheadInv, Ahead
  <2>3. CASE Added(ev'[c])
    <3>1. PICK k \in Kinds : /\ ev'[c] = FreshEvent(k, InitialTrigger(k, Wall, tzCurr))
                             /\ InitialTrigger(k, Wall, tzCurr) >= Wall
      BY <2>3 DEF Added
    <3>2. ev'[c].kind = k /\ ev'[c].state = S_NEW /\ ev'[c].trigger >= Wall
      BY <3>1 DEF FreshEvent
    <3>3. Wall = mono
      BY <1>0 DEF Wall, Steady
    <3> QED BY <3>2, <3>3 DEF Ahead
  <2>4. CASE /\ RethinkStep /\ c \in DOMAIN ev /\ Visible(ev[c]) /\ ev'[c] # ev[c]
             /\ ev[c].state = Pos(pc) /\ Becomes(ev[c], ev'[c])
    <3>1. ~Shifts(ev[c], ev'[c])
      BY <2>4, NoneShifts
    <3>2. pc # "idle" /\ ev'[c].kind = ev[c].kind /\ ev[c].kind \in Kinds
          /\ "CONNECTED" \notin ev[c].kind.flags /\ Ahead(ev[c])
      BY <1>0, <2>4, LoopClocks DEF Becomes, AheadInv, PromptAlarms
    <3> QED BY <1>0, <2>4, <3>1, <3>2, MovesAhead
  <2>5. RethinkStep => LoopEvents
    BY LoopBecomes
  <2>6. HandlerStep => HandlerEvents
    BY HandlerBecomes
  <2>7. UNCHANGED vars => ev' = ev
    BY DEF vars
  <2> QED BY <2>1, <2>2, <2>3, <2>4, <2>5, <2>6, <2>7, NextSplit DEF LoopEvents, HandlerEvents
<1> QED BY <1>1, <1>2, <1>3

(* No alarm is missed by a daemon that is not kept from running, whatever  *)
(* else is queued, snoozed, answered, updated or deleted meanwhile.        *)
THEOREM AlarmsNotMissed ==
  ASSUME PromptAlarms
  PROVE  Spec => []NoneMissed
<1>1. Init => Steady /\ Punctual /\ AheadInv
  <2> SUFFICES ASSUME Init PROVE Steady /\ Punctual /\ AheadInv
    OBVIOUS
  <2>1. Steady
    BY EnvironmentConstants DEF Init, Steady, ClockNews
  <2>2. Punctual
    BY DEF Init, Punctual, NoWakeup
  <2>3. AheadInv
    BY DEF Init, AheadInv, NoEvents
  <2> QED BY <2>1, <2>2, <2>3
<1>2. IInv /\ WakeupInv /\ Steady /\ Punctual /\ AheadInv /\ [Next]_vars
        => Steady' /\ Punctual' /\ AheadInv'
  BY SteadyStep, PunctualStep, AheadStep DEF IInv, WakeupInv
<1>3. AheadInv => NoneMissed
  BY DEF AheadInv, Ahead, NoneMissed, InState
<1> QED BY <1>1, <1>2, <1>3, Inductive, WakeupAlways, PTL DEF Spec
=============================================================================
