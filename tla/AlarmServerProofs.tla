------------------------- MODULE AlarmServerProofs -------------------------
(***************************************************************************)
(* Proofs about AlarmServer, for every value of its constants: the type    *)
(* invariant, and that the rethink loop leaves no event behind.            *)
(***************************************************************************)
EXTENDS AlarmServer, FiniteSetTheorems, TLAPS

CellType == [e : Event, d : BOOLEAN]

-----------------------------------------------------------------------------
(* The operators on one event.                                             *)

(* A fresh cell holds its event, unmarked.                                 *)
LEMMA CellOk ==
  ASSUME NEW e \in Event
  PROVE  /\ Cell(e) \in CellType
         /\ Cell(e).e = e /\ Cell(e).d = FALSE
BY DEF Cell, CellType

(* A new state is taken over unless it is an acknowledgement or response   *)
(* out of place; moving backwards leaves a mark; nothing else changes.     *)
LEMMA SetStateOk ==
  ASSUME NEW x \in CellType, NEW s \in States
  PROVE  /\ SetState(x, s) \in CellType
         /\ SetState(x, s).e.kind = x.e.kind
         /\ SetState(x, s).e.disabled = x.e.disabled
         /\ SetState(x, s).e.trigger = x.e.trigger
         /\ SetState(x, s).e.state \in {x.e.state, s}
         /\ s \notin {S_SYSUI_ACK, S_SYSUI_RSP} => SetState(x, s).e.state = s
         /\ x.d => SetState(x, s).d
         /\ s = S_NEW /\ x.e.state # S_NEW => SetState(x, s).d
         /\ SetState(x, s).e.state < x.e.state => SetState(x, s).d
<1> DEFINE f == [x.e EXCEPT !.state = s]
           m == x.d \/ Dirtying(x.e.state, s)
<1>1. /\ f \in Event
      /\ f.kind = x.e.kind /\ f.disabled = x.e.disabled
      /\ f.trigger = x.e.trigger /\ f.state = s
  BY DEF CellType, Event
<1>2. /\ m \in BOOLEAN
      /\ x.d => m
      /\ s < x.e.state => m
      /\ s = S_NEW /\ x.e.state # S_NEW => m
  BY DEF CellType, Event, States, Dirtying, S_NEW, S_FINALIZED
<1>3. x.e.state \in States /\ x.e.state \in Int
  BY DEF CellType, Event, States, S_NEW, S_FINALIZED
<1> HIDE DEF f, m
<1>4. CASE Admits(x.e.state, s)
  <2>1. SetState(x, s) = [e |-> f, d |-> m]
    BY <1>4 DEF SetState, f, m
  <2>2. /\ SetState(x, s) \in CellType
        /\ SetState(x, s).e = f /\ SetState(x, s).d = m
    BY <2>1, <1>1, <1>2 DEF CellType
  <2> QED BY <2>2, <1>1, <1>2
<1>5. CASE ~Admits(x.e.state, s)
  <2>1. SetState(x, s) = x
    BY <1>5 DEF SetState
  <2>2. s \in {S_SYSUI_ACK, S_SYSUI_RSP} /\ s # S_NEW
    BY <1>5 DEF Admits, S_NEW, S_SYSUI_ACK, S_SYSUI_RSP
  <2> QED BY <2>1, <2>2, <1>3
<1> QED BY <1>4, <1>5

(* Setting the trigger always leaves a mark.                               *)
LEMMA SetTriggerOk ==
  ASSUME NEW x \in CellType, NEW t \in Int
  PROVE  /\ SetTrigger(x, t) \in CellType
         /\ SetTrigger(x, t).d = TRUE
         /\ SetTrigger(x, t).e.state = x.e.state
BY DEF SetTrigger, CellType, Event

(* Disabling an event changes nothing but its visibility.                  *)
LEMMA DisabledOk ==
  ASSUME NEW x \in CellType
  PROVE  /\ Disabled(x) \in CellType
         /\ Disabled(x).e.disabled = TRUE
         /\ Disabled(x).e.kind = x.e.kind
         /\ Disabled(x).e.trigger = x.e.trigger
         /\ Disabled(x).e.state = x.e.state
         /\ Disabled(x).d = x.d
BY DEF Disabled, CellType, Event

(* Actions move an event to SNOOZED or nowhere, and never reveal it.       *)
LEMMA DoActionsOk ==
  ASSUME NEW x \in CellType, NEW A
  PROVE  /\ DoActions(x, A) \in CellType
         /\ DoActions(x, A).e.kind = x.e.kind
         /\ DoActions(x, A).e.trigger = x.e.trigger
         /\ DoActions(x, A).e.state \in {x.e.state, S_SNOOZED}
         /\ x.e.disabled => DoActions(x, A).e.disabled
         /\ x.d => DoActions(x, A).d
         /\ DoActions(x, A).e.state < x.e.state => DoActions(x, A).d
<1> DEFINE y == IF \E a \in A : "SNOOZE" \in a.what
                THEN SetState(x, S_SNOOZED) ELSE x
<1>1. S_SNOOZED \in States
  BY DEF S_SNOOZED, States, S_NEW, S_FINALIZED
<1>2. /\ y \in CellType
      /\ y.e.kind = x.e.kind /\ y.e.disabled = x.e.disabled
      /\ y.e.trigger = x.e.trigger
      /\ y.e.state \in {x.e.state, S_SNOOZED}
      /\ x.d => y.d
      /\ y.e.state < x.e.state => y.d
  <2>1. CASE \E a \in A : "SNOOZE" \in a.what
    BY <2>1, <1>1, SetStateOk
  <2>2. CASE ~ \E a \in A : "SNOOZE" \in a.what
    BY <2>2 DEF CellType, Event, States, S_NEW, S_FINALIZED
  <2> QED BY <2>1, <2>2
<1> HIDE DEF y
<1>3. CASE \E a \in A : "DISABLE" \in a.what
  <2>1. DoActions(x, A) = Disabled(y)
    BY <1>3 DEF DoActions, y
  <2> QED BY <2>1, <1>2, DisabledOk
<1>4. CASE ~ \E a \in A : "DISABLE" \in a.what
  <2>1. DoActions(x, A) = y
    BY <1>4 DEF DoActions, y
  <2> QED BY <2>1, <1>2
<1> QED BY <1>3, <1>4

LEMMA DoStateActionsOk ==
  ASSUME NEW x \in CellType, NEW when
  PROVE  /\ DoStateActions(x, when) \in CellType
         /\ DoStateActions(x, when).e.kind = x.e.kind
         /\ DoStateActions(x, when).e.trigger = x.e.trigger
         /\ DoStateActions(x, when).e.state \in {x.e.state, S_SNOOZED}
         /\ x.e.disabled => DoStateActions(x, when).e.disabled
         /\ x.d => DoStateActions(x, when).d
         /\ DoStateActions(x, when).e.state < x.e.state => DoStateActions(x, when).d
BY DoActionsOk DEF DoStateActions

LEMMA DoResponseActionsOk ==
  ASSUME NEW x \in CellType
  PROVE  /\ DoResponseActions(x) \in CellType
         /\ DoResponseActions(x).e.kind = x.e.kind
         /\ DoResponseActions(x).e.trigger = x.e.trigger
         /\ DoResponseActions(x).e.state \in {x.e.state, S_SNOOZED}
         /\ x.e.disabled => DoResponseActions(x).e.disabled
         /\ x.d => DoResponseActions(x).d
         /\ DoResponseActions(x).e.state < x.e.state => DoResponseActions(x).d
BY DoActionsOk DEF DoResponseActions

-----------------------------------------------------------------------------
(* The arithmetic of trigger times stays within the integers.              *)

LEMMA KindFields ==
  ASSUME NEW k \in Kind
  PROVE  /\ k.snooze \in Nat /\ k.recur \in Nat /\ k.mask \in Int
         /\ k.count \in Int /\ k.at \in Int
BY DEF Kind

LEMMA BumpTimeInt ==
  ASSUME NEW base \in Int, NEW skip \in Nat \ {0}, NEW target \in Int
  PROVE  BumpTime(base, skip, target) \in Int
BY DEF BumpTime

LEMMA AlignDailyInt ==
  ASSUME NEW t \in Int, NEW tod \in Int, NEW z \in Int
  PROVE  AlignDaily(t, tod, z) \in Int
BY TimeConstants DEF AlignDaily

LEMMA NextTriggerInt ==
  ASSUME NEW e \in Event, NEW t0 \in Int, NEW t1 \in Int, NEW z \in Int
  PROVE  NextTrigger(t0, t1, e, z) \in Int
<1> DEFINE b == IF t1 > 0 THEN t1 ELSE BaseTime(e.kind, t0, z)
<1>1. e.kind \in Kind
  BY DEF Event
<1>2. b \in Int
  BY <1>1, KindFields, AlignDailyInt DEF BaseTime
<1> HIDE DEF b
<1>3. CASE IsRecurring(e) /\ e.kind.recur > 0 /\ b <= t0
  <2>1. BumpTime(b, e.kind.recur, t0) \in Int
    BY <1>1, <1>2, <1>3, KindFields, BumpTimeInt
  <2> QED BY <2>1, <1>3 DEF NextTrigger, b
<1>4. CASE IsRecurring(e) /\ e.kind.recur = 0
  <2>1. AlignDaily(IF b < t0 THEN t0 ELSE b, e.kind.mask, z) \in Int
    BY <1>1, <1>2, KindFields, AlignDailyInt
  <2>2. ~(e.kind.recur > 0)
    BY <1>4
  <2> QED BY <2>1, <2>2, <1>4 DEF NextTrigger, b
<1>5. CASE ~(IsRecurring(e) /\ e.kind.recur > 0 /\ b <= t0)
           /\ ~(IsRecurring(e) /\ e.kind.recur = 0)
  BY <1>2, <1>5 DEF NextTrigger, b
<1> QED BY <1>3, <1>4, <1>5

LEMMA FreshEventOk ==
  ASSUME NEW k \in Kind, NEW t \in Int
  PROVE  FreshEvent(k, t) \in Event
<1>1. k.count \in Int
  BY KindFields
<1> QED BY <1>1 DEF FreshEvent, Event, States, S_NEW, S_FINALIZED

LEMMA InitialTriggerInt ==
  ASSUME NEW k \in Kind, NEW t0 \in Int, NEW z \in Int
  PROVE  InitialTrigger(k, t0, z) \in Int
<1>1. FreshEvent(k, 0) \in Event
  BY FreshEventOk
<1>2. (IF k.how = "abs" THEN k.at ELSE 0) \in Int
  BY KindFields
<1> QED BY <1>1, <1>2, NextTriggerInt DEF InitialTrigger

LEMMA SnoozeOfPos ==
  ASSUME NEW e \in Event, NEW s \in Nat
  PROVE  SnoozeOf(e, s) \in Nat \ {0}
<1>1. e.kind.snooze \in Nat
  BY KindFields DEF Event
<1> QED BY <1>1, TimeConstants DEF SnoozeOf

(* A bumped time is later than the target, by at most one period.          *)
LEMMA BumpTimeAhead ==
  ASSUME NEW base \in Int, NEW skip \in Nat \ {0}, NEW target \in Int
  PROVE  /\ BumpTime(base, skip, target) > target
         /\ BumpTime(base, skip, target) <= target + skip
<1>1. CASE target < base
  <2>1. (base - target) % skip \in 0 .. skip - 1
    OBVIOUS
  <2> QED BY <1>1, <2>1 DEF BumpTime
<1>2. CASE ~(target < base)
  <2>1. (target - base) % skip \in 0 .. skip - 1
    OBVIOUS
  <2> QED BY <1>2, <2>1 DEF BumpTime
<1> QED BY <1>1, <1>2

(* Aligning to a time of day never goes back, and less than a day ahead.   *)
LEMMA AlignDailyAhead ==
  ASSUME NEW t \in Int, NEW tod \in Int, NEW z \in Int
  PROVE  /\ AlignDaily(t, tod, z) >= t
         /\ AlignDaily(t, tod, z) < t + Day
<1>1. (tod - (t + z)) % Day \in 0 .. Day - 1
  BY TimeConstants
<1> QED BY <1>1, TimeConstants DEF AlignDaily

-----------------------------------------------------------------------------
(* What a function of the loop achieves for an event in its state s: it    *)
(* moves the event on, hides it, leaves a mark, or there is nothing to do. *)
Moved(s, x) ==
  /\ x \in CellType
  /\ \/ x.d
     \/ ~Visible(x.e)
     \/ s < x.e.state
     \/ Settled(x.e)

(* Going to a state from a cell whose state is known.                      *)
LEMMA ForwardMoved ==
  ASSUME NEW x \in CellType, NEW s \in States, NEW t \in States,
         s < t, t \notin {S_SYSUI_ACK, S_SYSUI_RSP}
  PROVE  Moved(s, SetState(x, t))
BY SetStateOk DEF Moved

LEMMA BackwardMoved ==
  ASSUME NEW x \in CellType, NEW s \in States, NEW t \in States,
         x.d \/ t < x.e.state, t \notin {S_SYSUI_ACK, S_SYSUI_RSP}
  PROVE  Moved(s, SetState(x, t))
BY SetStateOk DEF Moved

(* The same for an event that was just taken from the queue.               *)
LEMMA Forward ==
  ASSUME NEW e \in Event, NEW s \in States, NEW t \in States,
         s < t, t \notin {S_SYSUI_ACK, S_SYSUI_RSP}
  PROVE  Moved(s, SetState(Cell(e), t))
<1>1. Cell(e) \in CellType
  BY CellOk
<1> QED BY <1>1, ForwardMoved

LEMMA Backward ==
  ASSUME NEW e \in Event, NEW s \in States, NEW t \in States,
         t < e.state, t \notin {S_SYSUI_ACK, S_SYSUI_RSP}
  PROVE  Moved(s, SetState(Cell(e), t))
<1>1. Cell(e) \in CellType /\ t < Cell(e).e.state
  BY CellOk
<1> QED BY <1>1, BackwardMoved

LEMMA Stay ==
  ASSUME NEW e \in Event, NEW s \in States, Settled(e)
  PROVE  Moved(s, Cell(e))
<1>1. Cell(e) \in CellType /\ Cell(e).e = e
  BY CellOk
<1> QED BY <1>1 DEF Moved

LEMMA NewMoved ==
  ASSUME NEW e \in Event, e.state = S_NEW
  PROVE  Moved(S_NEW, NewStep(e))
<1> USE DEF States, S_NEW, S_WAITCONN, S_QUEUED, S_SNOOZED, S_FINALIZED,
            S_SYSUI_ACK, S_SYSUI_RSP
<1>1. CASE Offline(e)
  <2>1. NewStep(e) = SetState(Cell(e), S_WAITCONN)
    BY <1>1 DEF NewStep
  <2> QED BY <2>1, Forward
<1>2. CASE ~Offline(e)
  <2> DEFINE x == SetState(Cell(e), S_QUEUED)
  <2>1. Cell(e) \in CellType
    BY CellOk
  <2>3. x \in CellType /\ x.e.state = S_QUEUED
    BY <2>1, SetStateOk
  <2> HIDE DEF x
  <2>2. NewStep(e) = DoStateActions(x, "QUEUED")
    BY <1>2 DEF NewStep, x
  <2> QED BY <2>3, <2>2, DoStateActionsOk DEF Moved
<1> QED BY <1>1, <1>2

LEMMA WaitconnMoved ==
  ASSUME NEW e \in Event, e.state = S_WAITCONN
  PROVE  Moved(S_WAITCONN, WaitconnStep(e))
<1> USE DEF States, S_NEW, S_WAITCONN, S_FINALIZED, S_SYSUI_ACK, S_SYSUI_RSP
<1>1. CASE Connected
  <2>1. WaitconnStep(e) = SetState(Cell(e), S_NEW)
    BY <1>1 DEF WaitconnStep
  <2> QED BY <2>1, Backward
<1>2. CASE ~Connected
  <2>1. WaitconnStep(e) = Cell(e)
    BY <1>2 DEF WaitconnStep
  <2>2. Settled(e)
    BY <1>2 DEF Settled
  <2> QED BY <2>1, <2>2, Stay
<1> QED BY <1>1, <1>2

LEMMA QueuedMoved ==
  ASSUME NEW e \in Event, e.state = S_QUEUED, now \in Int
  PROVE  Moved(S_QUEUED, QueuedStep(e))
<1> USE DEF States, S_NEW, S_WAITCONN, S_QUEUED, S_MISSED, S_LIMBO, S_FINALIZED,
            S_SYSUI_ACK, S_SYSUI_RSP
<1>1. CASE Offline(e)
  <2>1. QueuedStep(e) = SetState(Cell(e), S_WAITCONN)
    BY <1>1 DEF QueuedStep
  <2> QED BY <2>1, Backward
<1>2. CASE ~Offline(e) /\ e.trigger > now
  <2>1. QueuedStep(e) = Cell(e)
    BY <1>2 DEF QueuedStep
  <2>2. Settled(e)
    BY <1>2 DEF Settled
  <2> QED BY <2>1, <2>2, Stay
<1>3. CASE ~Offline(e) /\ ~(e.trigger > now) /\ now - e.trigger > SERVER_MISSED_LIMIT
  <2>1. QueuedStep(e) = SetState(Cell(e), S_MISSED)
    BY <1>3 DEF QueuedStep
  <2> QED BY <2>1, Forward
<1>4. CASE ~Offline(e) /\ ~(e.trigger > now) /\ ~(now - e.trigger > SERVER_MISSED_LIMIT)
  <2>1. QueuedStep(e) = SetState(Cell(e), S_LIMBO)
    BY <1>4 DEF QueuedStep
  <2> QED BY <2>1, Forward
<1> QED BY <1>1, <1>2, <1>3, <1>4

LEMMA MissedMoved ==
  ASSUME NEW e \in Event, e.state = S_MISSED
  PROVE  Moved(S_MISSED, MissedStep(e))
<1> DEFINE x == DoStateActions(Cell(e), "DELAYED")
<1> USE DEF States, S_NEW, S_MISSED, S_LIMBO, S_POSTPONED, S_SERVED, S_FINALIZED,
            S_SYSUI_ACK, S_SYSUI_RSP
<1>1. x \in CellType
  BY CellOk, DoStateActionsOk
<1> HIDE DEF x
<1>2. CASE Needs(e, "RUN_DELAYED")
  <2>1. MissedStep(e) = SetState(x, S_LIMBO)
    BY <1>2 DEF MissedStep, x
  <2> QED BY <1>1, <2>1, ForwardMoved
<1>3. CASE ~Needs(e, "RUN_DELAYED") /\ Needs(e, "POSTPONE_DELAYED")
  <2>1. MissedStep(e) = SetState(x, S_POSTPONED)
    BY <1>3 DEF MissedStep, x
  <2> QED BY <1>1, <2>1, ForwardMoved
<1>4. CASE ~Needs(e, "RUN_DELAYED") /\ ~Needs(e, "POSTPONE_DELAYED")
           /\ Needs(e, "DISABLE_DELAYED")
  <2>1. MissedStep(e) = DoStateActions(Disabled(x), "DISABLED")
    BY <1>4 DEF MissedStep, x
  <2>2. Disabled(x) \in CellType /\ Disabled(x).e.disabled
    BY <1>1, DisabledOk
  <2> QED BY <2>1, <2>2, DoStateActionsOk DEF Moved, Visible
<1>5. CASE ~Needs(e, "RUN_DELAYED") /\ ~Needs(e, "POSTPONE_DELAYED")
           /\ ~Needs(e, "DISABLE_DELAYED")
  <2>1. MissedStep(e) = SetState(x, S_SERVED)
    BY <1>5 DEF MissedStep, x
  <2> QED BY <1>1, <2>1, ForwardMoved
<1> QED BY <1>2, <1>3, <1>4, <1>5

(* An event that was given a new trigger time starts over.                 *)
LEMMA RestartMoved ==
  ASSUME NEW e \in Event, NEW t \in Int, NEW s \in States
  PROVE  Moved(s, SetState(SetTrigger(Cell(e), t), S_NEW))
<1>1. /\ SetTrigger(Cell(e), t) \in CellType
      /\ SetTrigger(Cell(e), t).d
  BY CellOk, SetTriggerOk
<1> QED BY <1>1, BackwardMoved
        DEF States, S_NEW, S_FINALIZED, S_SYSUI_ACK, S_SYSUI_RSP

LEMMA PostponedMoved ==
  ASSUME NEW e \in Event, e.state = S_POSTPONED, now \in Int, snooze \in Nat
  PROVE  Moved(S_POSTPONED, PostponedStep(e))
<1> DEFINE s   == SnoozeOf(e, snooze)
           add == now + Day - e.trigger
           pad == add % s
<1> USE DEF States, S_NEW, S_POSTPONED, S_LIMBO, S_FINALIZED, S_SYSUI_ACK, S_SYSUI_RSP
<1>1. e.trigger \in Int /\ s \in Nat \ {0}
  BY SnoozeOfPos DEF Event
<1>2. add \in Int
  BY <1>1, TimeConstants
<1> HIDE DEF s, add
<1>3. pad \in Int
  BY <1>1, <1>2
<1> HIDE DEF pad
<1>4. CASE now - e.trigger - s < Day
  <2>1. PostponedStep(e) = SetState(Cell(e), S_LIMBO)
    BY <1>4 DEF PostponedStep, s
  <2> QED BY <2>1, Forward
<1>5. CASE ~(now - e.trigger - s < Day)
  <2> DEFINE t == e.trigger + add + (IF pad = 0 THEN 0 ELSE s - pad)
  <2>1. t \in Int
    BY <1>1, <1>2, <1>3
  <2>2. PostponedStep(e) = SetState(SetTrigger(Cell(e), t), S_NEW)
    BY <1>5 DEF PostponedStep, s, add, pad
  <2> HIDE DEF t
  <2> QED BY <2>1, <2>2, RestartMoved
<1> QED BY <1>4, <1>5

LEMMA LimboMoved ==
  ASSUME NEW e \in Event, e.state = S_LIMBO
  PROVE  Moved(S_LIMBO, LimboStep(e))
<1> USE DEF States, S_NEW, S_LIMBO, S_TRIGGERED, S_FINALIZED, S_SYSUI_ACK, S_SYSUI_RSP
<1>1. CASE MayLeaveLimbo(e)
  <2>1. LimboStep(e) = SetState(Cell(e), S_TRIGGERED)
    BY <1>1 DEF LimboStep
  <2> QED BY <2>1, Forward
<1>2. CASE ~MayLeaveLimbo(e)
  <2>1. LimboStep(e) = Cell(e)
    BY <1>2 DEF LimboStep
  <2>2. Settled(e)
    BY <1>2 DEF Settled
  <2> QED BY <2>1, <2>2, Stay
<1> QED BY <1>1, <1>2

LEMMA TriggeredMoved ==
  ASSUME NEW e \in Event, e.state = S_TRIGGERED
  PROVE  Moved(S_TRIGGERED, TriggeredStep(e))
<1> DEFINE x == DoStateActions(Cell(e), "TRIGGERED")
<1> USE DEF States, S_NEW, S_TRIGGERED, S_WAITSYSUI, S_SNOOZED, S_SERVED, S_FINALIZED,
            S_SYSUI_ACK, S_SYSUI_RSP
<1>1. x \in CellType
  BY CellOk, DoStateActionsOk
<1> HIDE DEF x
<1>2. CASE HasButtons(e)
  <2>1. TriggeredStep(e) = SetState(x, S_WAITSYSUI)
    BY <1>2 DEF TriggeredStep, x
  <2> QED BY <1>1, <2>1, ForwardMoved
<1>3. CASE ~HasButtons(e) /\ x.e.state = S_SNOOZED
  <2>1. TriggeredStep(e) = x
    BY <1>3 DEF TriggeredStep, x
  <2> QED BY <1>1, <1>3, <2>1 DEF Moved
<1>4. CASE ~HasButtons(e) /\ x.e.state # S_SNOOZED
  <2>1. TriggeredStep(e) = SetState(x, S_SERVED)
    BY <1>4 DEF TriggeredStep, x
  <2> QED BY <1>1, <2>1, ForwardMoved
<1> QED BY <1>2, <1>3, <1>4

LEMMA WaitsysuiMoved ==
  ASSUME NEW e \in Event, e.state = S_WAITSYSUI
  PROVE  Moved(S_WAITSYSUI, WaitsysuiStep(e))
<1> USE DEF States, S_NEW, S_WAITSYSUI, S_SYSUI_REQ, S_FINALIZED, S_SYSUI_ACK, S_SYSUI_RSP
<1>1. CASE SysuiUp
  <2>1. WaitsysuiStep(e) = SetState(Cell(e), S_SYSUI_REQ)
    BY <1>1 DEF WaitsysuiStep
  <2> QED BY <2>1, Forward
<1>2. CASE ~SysuiUp
  <2>1. WaitsysuiStep(e) = Cell(e)
    BY <1>2 DEF WaitsysuiStep
  <2>2. Settled(e)
    BY <1>2 DEF Settled
  <2> QED BY <2>1, <2>2, Stay
<1> QED BY <1>1, <1>2

LEMMA BackToWaitMoved ==
  ASSUME NEW e \in Event, NEW s \in {S_SYSUI_REQ, S_SYSUI_ACK}, e.state = s
  PROVE  Moved(s, BackToWait(e))
<1> USE DEF States, S_NEW, S_WAITSYSUI, S_SYSUI_REQ, S_FINALIZED, S_SYSUI_ACK, S_SYSUI_RSP
<1>1. CASE SysuiUp
  <2>1. BackToWait(e) = Cell(e)
    BY <1>1 DEF BackToWait
  <2>2. Settled(e)
    BY <1>1 DEF Settled
  <2> QED BY <2>1, <2>2, Stay
<1>2. CASE ~SysuiUp
  <2>1. BackToWait(e) = SetState(Cell(e), S_WAITSYSUI)
    BY <1>2 DEF BackToWait
  <2> QED BY <2>1, Backward
<1> QED BY <1>1, <1>2

LEMMA SysuiRspMoved ==
  ASSUME NEW e \in Event, e.state = S_SYSUI_RSP
  PROVE  Moved(S_SYSUI_RSP, SysuiRspStep(e))
<1> USE DEF States, S_NEW, S_SNOOZED, S_SERVED, S_FINALIZED, S_SYSUI_ACK, S_SYSUI_RSP
<1>1. CASE Unanswered(e)
  <2>1. SysuiRspStep(e) = Disabled(Cell(e))
    BY <1>1 DEF SysuiRspStep
  <2>2. /\ Disabled(Cell(e)) \in CellType
        /\ Disabled(Cell(e)).e.disabled
    BY CellOk, DisabledOk
  <2> QED BY <2>1, <2>2 DEF Moved, Visible
<1>2. CASE ~Unanswered(e)
  <2> DEFINE x == DoResponseActions(Cell(e))
  <2>1. x \in CellType
    BY CellOk, DoResponseActionsOk
  <2>2. SysuiRspStep(e) = Answered(x)
    BY <1>2 DEF SysuiRspStep
  <2> HIDE DEF x
  <2>3. CASE x.e.state = S_SNOOZED
    BY <2>1, <2>2, <2>3 DEF Answered, Moved
  <2>4. CASE x.e.state # S_SNOOZED
    BY <2>1, <2>2, <2>4, ForwardMoved DEF Answered
  <2> QED BY <2>3, <2>4
<1> QED BY <1>1, <1>2

LEMMA SnoozedMoved ==
  ASSUME NEW e \in Event, e.state = S_SNOOZED, now \in Int, snooze \in Nat
  PROVE  Moved(S_SNOOZED, SnoozedStep(e))
<1> DEFINE f == [e EXCEPT !.snoozed = IF @ = 0 THEN e.trigger ELSE @]
<1>1. f \in Event
  BY DEF Event
<1>2. now + SnoozeOf(e, snooze) \in Int
  BY SnoozeOfPos
<1>3. SnoozedStep(e) = SetState(SetTrigger(Cell(f), now + SnoozeOf(e, snooze)), S_NEW)
  BY DEF SnoozedStep
<1>4. S_SNOOZED \in States
  BY DEF States, S_NEW, S_SNOOZED, S_FINALIZED
<1> HIDE DEF f
<1> QED BY <1>1, <1>2, <1>3, <1>4, RestartMoved

LEMMA ServedMoved ==
  ASSUME NEW e \in Event, e.state = S_SERVED
  PROVE  Moved(S_SERVED, ServedStep(e))
<1> USE DEF States, S_NEW, S_SERVED, S_RECURRING, S_DELETED, S_FINALIZED,
            S_SYSUI_ACK, S_SYSUI_RSP
<1>1. CASE IsRecurring(e)
  <2>1. ServedStep(e) = SetState(Cell(e), S_RECURRING)
    BY <1>1 DEF ServedStep
  <2> QED BY <2>1, Forward
<1>2. CASE ~IsRecurring(e)
  <2>1. ServedStep(e) = SetState(Cell(e), S_DELETED)
    BY <1>2 DEF ServedStep
  <2> QED BY <2>1, Forward
<1> QED BY <1>1, <1>2

(* A recurrence that is used up is counted and its snoozes forgotten.      *)
LEMMA RecountedOk ==
  ASSUME NEW e \in Event, NEW n \in Int
  PROVE  [e EXCEPT !.count = n, !.snoozed = 0] \in Event
<1>1. [e EXCEPT !.count = n, !.snoozed = 0]
        = [[e EXCEPT !.count = n] EXCEPT !.snoozed = 0]
  BY Zenon DEF Event
<1>2. [e EXCEPT !.count = n] \in Event
  BY DEF Event
<1>3. \A g \in Event : [g EXCEPT !.snoozed = 0] \in Event
  BY DEF Event
<1> QED BY <1>1, <1>2, <1>3

LEMMA RecurringMoved ==
  ASSUME NEW e \in Event, e.state = S_RECURRING, now \in Int, tzCurr \in Int
  PROVE  Moved(S_RECURRING, RecurringStep(e))
<1> DEFINE left == IF e.count > 0 THEN e.count - 1 ELSE e.count
           prev == IF e.snoozed # 0 THEN e.snoozed ELSE e.trigger
           curr == CASE left = 0 -> INT_MAX
                     [] left # 0 /\ e.kind.recur > 0 -> BumpTime(prev, e.kind.recur, now)
                     [] OTHER -> AlignDaily(now + 1, e.kind.mask, tzCurr)
           f    == [e EXCEPT !.count = left, !.snoozed = 0]
<1>1. left \in Int /\ prev \in Int
  <2>1. e.count \in Int /\ e.snoozed \in Int /\ e.trigger \in Int
    BY DEF Event
  <2> QED BY <2>1
<1> HIDE DEF left, prev
<1>2. f \in Event
  BY <1>1, RecountedOk
<1>3. e.kind \in Kind
  BY DEF Event
<1>4. curr \in Int
  <2>1. CASE left = 0
    BY <2>1, TimeConstants
  <2>2. CASE left # 0 /\ e.kind.recur > 0
    <3>1. e.kind.recur \in Nat \ {0}
      BY <1>3, <2>2, KindFields
    <3> QED BY <1>1, <2>2, <3>1, BumpTimeInt
  <2>3. CASE left # 0 /\ ~(e.kind.recur > 0)
    <3>1. now + 1 \in Int /\ e.kind.mask \in Int
      BY <1>3, KindFields
    <3>2. AlignDaily(now + 1, e.kind.mask, tzCurr) \in Int
      BY <3>1, AlignDailyInt
    <3> QED BY <2>3, <3>2
  <2> QED BY <2>1, <2>2, <2>3
<1>5. RecurringStep(e) = IF 0 < curr /\ curr < INT_MAX
                         THEN SetState(SetTrigger(Cell(f), curr), S_NEW)
                         ELSE SetState(Cell(f), S_DELETED)
  BY DEF RecurringStep, left, prev
<1> HIDE DEF curr, f
<1> USE DEF States, S_NEW, S_RECURRING, S_DELETED, S_FINALIZED, S_SYSUI_ACK, S_SYSUI_RSP
<1>6. CASE 0 < curr /\ curr < INT_MAX
  BY <1>2, <1>4, <1>5, <1>6, RestartMoved
<1>7. CASE ~(0 < curr /\ curr < INT_MAX)
  BY <1>2, <1>5, <1>7, Forward
<1> QED BY <1>6, <1>7

(* A deleted event stays where it is unless an action snoozes it; either   *)
(* way the event is a proper one and a snooze leaves a mark.               *)
LEMMA DeletedMoved ==
  ASSUME NEW e \in Event, e.state = S_DELETED
  PROVE  /\ DeletedStep(e) \in CellType
         /\ DeletedStep(e).d \/ DeletedStep(e).e.state = S_DELETED
<1>1. Cell(e) \in CellType /\ Cell(e).e = e
  BY CellOk
<1> DEFINE x == DoStateActions(Cell(e), "DELETED")
<1>2. /\ x \in CellType
      /\ x.e.state \in {e.state, S_SNOOZED}
      /\ x.e.state < e.state => x.d
  BY <1>1, DoStateActionsOk
<1>3. DeletedStep(e) = x
  BY DEF DeletedStep
<1> HIDE DEF x
<1> QED BY <1>2, <1>3 DEF S_DELETED, S_SNOOZED

(* A time change either leaves an event alone or restarts it.              *)
LEMMA RescheduledOk ==
  ASSUME NEW e \in Event, NEW adj \in Int, now \in Int, tzCurr \in Int
  PROVE  /\ Rescheduled(e, adj) \in CellType
         /\ Rescheduled(e, adj).d \/ Rescheduled(e, adj) = Cell(e)
<1> DEFINE use == NextTrigger(now, 0, e, tzCurr)
<1>1. use \in Int /\ e.trigger + adj \in Int
  BY NextTriggerInt DEF Event
<1>2. ASSUME NEW t \in Int
      PROVE  LET x == SetState(SetTrigger(Cell(e), t), S_NEW)
             IN  x \in CellType /\ x.d
  <2>1. SetTrigger(Cell(e), t) \in CellType /\ SetTrigger(Cell(e), t).d
    BY CellOk, SetTriggerOk
  <2> QED BY <2>1, SetStateOk DEF States, S_NEW, S_FINALIZED
<1>3. \/ \E t \in Int : Rescheduled(e, adj) = SetState(SetTrigger(Cell(e), t), S_NEW)
      \/ Rescheduled(e, adj) = Cell(e)
  <2> HIDE DEF use
  <2>1. CASE e.snoozed # 0
    BY <1>1, <2>1 DEF Rescheduled
  <2>2. CASE e.snoozed = 0 /\ e.kind.how = "abs"
    BY <2>2 DEF Rescheduled
  <2>3. CASE e.snoozed = 0 /\ e.kind.how # "abs"
    BY <1>1, <2>3 DEF Rescheduled, use
  <2> QED BY <2>1, <2>2, <2>3
<1> QED BY <1>2, <1>3, CellOk

-----------------------------------------------------------------------------
(* The inductive invariant.  NoWorkLeftBehind alone is not inductive: what *)
(* the loop has settled when it ends follows from PassInv, which says how  *)
(* far each pass has come, and from the loop ending with a clean pass.     *)
CleanFinish == pc = "finish" => ~dirty

IInv == Typed /\ PassInv /\ NoWorkLeftBehind /\ CleanFinish

(* One pass over the events in state s: what has been settled stays        *)
(* settled, and the events in state s are dealt with.                      *)
LEMMA PassOk ==
  ASSUME QueueOK, dirty \in BOOLEAN, PassInv,
         NEW s \in States, NEW n \in Int, n <= s, NEW out,
         NEW place \in Places, NEW next \in Places,
         \A c \in DOMAIN ev : IF Visible(ev[c]) /\ ev[c].state = s
                              THEN Moved(n, out[c]) ELSE out[c] = Cell(ev[c]),
         pc = place, place # "idle", Pos(place) = s,
         pc' = next, Pos(next) \in Int, Pos(next) <= n + 1,
         ev' = [c \in DOMAIN ev |-> out[c].e],
         dirty' = (dirty \/ \E c \in DOMAIN ev : out[c].d),
         UNCHANGED <<flags, up, now>>
  PROVE  /\ DOMAIN ev' = DOMAIN ev /\ ev' \in [DOMAIN ev -> Event]
         /\ dirty' \in BOOLEAN
         /\ PassInv'
<1>1. \A c \in DOMAIN ev : ev[c] \in Event
  BY DEF QueueOK
<1>2. \A c \in DOMAIN ev : out[c] \in CellType
  BY <1>1, CellOk DEF Moved
<1>3. /\ DOMAIN ev' = DOMAIN ev
      /\ \A c \in DOMAIN ev : ev'[c] = out[c].e /\ ev'[c] \in Event
  BY <1>2 DEF CellType
<1>4. dirty' \in BOOLEAN
  BY <1>2 DEF CellType
<1>5. ASSUME ~dirty', NEW c \in DOMAIN ev, Visible(ev'[c]), ev'[c].state < Pos(next)
      PROVE  Settled(ev'[c])
  <2>1. ~dirty /\ ~out[c].d
    BY <1>5
  <2>2. CASE Visible(ev[c]) /\ ev[c].state = s
    <3>1. Moved(n, out[c])
      BY <2>2
    <3>2. ev'[c].state \in Int
      BY <1>3 DEF Event, States, S_NEW, S_FINALIZED
    <3>3. ~(n < ev'[c].state)
      BY <1>5, <3>2 DEF States, S_NEW, S_FINALIZED
    <3> QED BY <1>3, <1>5, <2>1, <3>1, <3>3 DEF Moved
  <2>3. CASE ~(Visible(ev[c]) /\ ev[c].state = s)
    <3>1. out[c] = Cell(ev[c]) /\ ev'[c] = ev[c]
      BY <1>1, <1>3, <2>3, CellOk
    <3>2. ev[c].state \in Int
      BY <1>1 DEF Event, States, S_NEW, S_FINALIZED
    <3>3. ev[c].state < Pos(place)
      BY <1>5, <2>3, <3>1, <3>2 DEF States, S_NEW, S_FINALIZED
    <3> QED BY <1>5, <2>1, <3>1, <3>3 DEF PassInv
  <2> QED BY <2>2, <2>3
<1>6. PassInv'
  BY <1>3, <1>5 DEF PassInv, Visible, Settled, Offline, Needs, Connected,
                    MayLeaveLimbo, SysuiUp
<1> QED BY <1>3, <1>4, <1>6

(* The rest of the invariant follows when a pass leaves the other          *)
(* variables well typed and the loop goes on.                              *)
LEMMA PassIInv ==
  ASSUME IInv,
         DOMAIN ev' = DOMAIN ev, ev' \in [DOMAIN ev -> Event],
         dirty' \in BOOLEAN, PassInv',
         pc' \in Places \ {"idle", "finish"},
         UNCHANGED <<queueVars, clockVars, zoneVars, stateVars>>,
         TimersOK', StatusOK', PeersOK'
  PROVE  IInv'
<1>1. QueueOK'
  BY DEF IInv, Typed, QueueOK, queueVars
<1>2. LoopOK'
  BY DEF IInv, Typed, LoopOK, clockVars
<1>3. ClocksOK' /\ ZonesOK' /\ FlagsOK'
  BY DEF IInv, Typed, ClocksOK, ZonesOK, FlagsOK, clockVars, zoneVars, stateVars
<1>4. NoWorkLeftBehind' /\ CleanFinish'
  BY DEF NoWorkLeftBehind, CleanFinish, Quiescent
<1> QED BY <1>1, <1>2, <1>3, <1>4 DEF IInv, Typed

(* A function of the loop that touches nothing but the events and perhaps  *)
(* the dialogs.                                                            *)
LEMMA PhaseIInv ==
  ASSUME IInv,
         NEW s \in States, NEW n \in Int, n <= s, NEW out,
         NEW place \in Places, NEW next \in Places \ {"idle", "finish"},
         \A c \in DOMAIN ev : IF Visible(ev[c]) /\ ev[c].state = s
                              THEN Moved(n, out[c]) ELSE out[c] = Cell(ev[c]),
         pc = place, place # "idle", Pos(place) = s,
         pc' = next, Pos(next) \in Int, Pos(next) <= n + 1,
         ev' = [c \in DOMAIN ev |-> out[c].e],
         dirty' = (dirty \/ \E c \in DOMAIN ev : out[c].d),
         UNCHANGED <<queueVars, timerVars, clockVars, zoneVars, stateVars, statusVars>>,
         PeersOK'
  PROVE  IInv'
<1>1. QueueOK /\ dirty \in BOOLEAN /\ PassInv
  BY DEF IInv, Typed, LoopOK
<1>2. UNCHANGED <<flags, up, now>>
  BY DEF stateVars, clockVars
<1>3. /\ DOMAIN ev' = DOMAIN ev /\ ev' \in [DOMAIN ev -> Event]
      /\ dirty' \in BOOLEAN /\ PassInv'
  BY <1>1, <1>2, PassOk
<1>4. TimersOK' /\ StatusOK'
  BY DEF IInv, Typed, TimersOK, StatusOK, timerVars, statusVars
<1> QED BY <1>3, <1>4, PassIInv

LEMMA NewIInv == IInv /\ RethinkNew => IInv'
<1> SUFFICES ASSUME IInv, RethinkNew PROVE IInv'
  OBVIOUS
<1> DEFINE out == [c \in DOMAIN ev |->
                     IF Visible(ev[c]) /\ ev[c].state = S_NEW
                     THEN NewStep(ev[c]) ELSE Cell(ev[c])]
<1>1. /\ pc = "new" /\ pc' = "waitconn"
      /\ ev' = [c \in DOMAIN ev |-> out[c].e]
      /\ dirty' = (dirty \/ \E c \in DOMAIN ev : out[c].d)
      /\ UNCHANGED <<queueVars, timerVars, clockVars, zoneVars, stateVars,
                      statusVars, peerVars>>
  BY DEF RethinkNew, Phase, PassOver
<1>2. \A c \in DOMAIN ev : IF Visible(ev[c]) /\ ev[c].state = S_NEW
                           THEN Moved(S_NEW, out[c]) ELSE out[c] = Cell(ev[c])
  BY NewMoved DEF IInv, Typed, QueueOK
<1>3. PeersOK'
  BY <1>1 DEF IInv, Typed, PeersOK, queueVars, peerVars
<1>4. /\ Pos("new") = S_NEW /\ Pos("waitconn") = S_NEW + 1 /\ S_NEW \in States
      /\ "new" \in Places /\ "waitconn" \in Places \ {"idle", "finish"}
      /\ S_NEW \in Int /\ S_NEW <= S_NEW
  BY DEF Pos, Places, States, S_NEW, S_FINALIZED, S_WAITCONN
<1> HIDE DEF out
<1> QED BY <1>1, <1>2, <1>3, <1>4, PhaseIInv

LEMMA WaitconnIInv == IInv /\ RethinkWaitconn => IInv'
<1> SUFFICES ASSUME IInv, RethinkWaitconn PROVE IInv'
  OBVIOUS
<1> DEFINE out == [c \in DOMAIN ev |->
                     IF Visible(ev[c]) /\ ev[c].state = S_WAITCONN
                     THEN WaitconnStep(ev[c]) ELSE Cell(ev[c])]
<1>1. /\ pc = "waitconn" /\ pc' = "timechange"
      /\ ev' = [c \in DOMAIN ev |-> out[c].e]
      /\ dirty' = (dirty \/ \E c \in DOMAIN ev : out[c].d)
      /\ UNCHANGED <<queueVars, timerVars, clockVars, zoneVars, stateVars,
                      statusVars, peerVars>>
  BY DEF RethinkWaitconn, Phase, PassOver
<1>2. \A c \in DOMAIN ev : IF Visible(ev[c]) /\ ev[c].state = S_WAITCONN
                           THEN Moved(S_WAITCONN, out[c]) ELSE out[c] = Cell(ev[c])
  BY WaitconnMoved DEF IInv, Typed, QueueOK
<1>3. PeersOK'
  BY <1>1 DEF IInv, Typed, PeersOK, queueVars, peerVars
<1>4. /\ Pos("waitconn") = S_WAITCONN /\ Pos("timechange") = S_WAITCONN + 1 /\ S_WAITCONN \in States
      /\ "waitconn" \in Places /\ "timechange" \in Places \ {"idle", "finish"}
      /\ S_WAITCONN \in Int /\ S_WAITCONN <= S_WAITCONN
  BY DEF Pos, Places, States, S_NEW, S_FINALIZED, S_WAITCONN, S_QUEUED
<1> HIDE DEF out
<1> QED BY <1>1, <1>2, <1>3, <1>4, PhaseIInv

LEMMA MissedIInv == IInv /\ RethinkMissed => IInv'
<1> SUFFICES ASSUME IInv, RethinkMissed PROVE IInv'
  OBVIOUS
<1> DEFINE out == [c \in DOMAIN ev |->
                     IF Visible(ev[c]) /\ ev[c].state = S_MISSED
                     THEN MissedStep(ev[c]) ELSE Cell(ev[c])]
<1>1. /\ pc = "missed" /\ pc' = "postponed"
      /\ ev' = [c \in DOMAIN ev |-> out[c].e]
      /\ dirty' = (dirty \/ \E c \in DOMAIN ev : out[c].d)
      /\ UNCHANGED <<queueVars, timerVars, clockVars, zoneVars, stateVars,
                      statusVars, peerVars>>
  BY DEF RethinkMissed, Phase, PassOver
<1>2. \A c \in DOMAIN ev : IF Visible(ev[c]) /\ ev[c].state = S_MISSED
                           THEN Moved(S_MISSED, out[c]) ELSE out[c] = Cell(ev[c])
  BY MissedMoved DEF IInv, Typed, QueueOK
<1>3. PeersOK'
  BY <1>1 DEF IInv, Typed, PeersOK, queueVars, peerVars
<1>4. /\ Pos("missed") = S_MISSED /\ Pos("postponed") = S_MISSED + 1 /\ S_MISSED \in States
      /\ "missed" \in Places /\ "postponed" \in Places \ {"idle", "finish"}
      /\ S_MISSED \in Int /\ S_MISSED <= S_MISSED
  BY DEF Pos, Places, States, S_NEW, S_FINALIZED, S_MISSED, S_POSTPONED
<1> HIDE DEF out
<1> QED BY <1>1, <1>2, <1>3, <1>4, PhaseIInv

LEMMA PostponedIInv == IInv /\ RethinkPostponed => IInv'
<1> SUFFICES ASSUME IInv, RethinkPostponed PROVE IInv'
  OBVIOUS
<1> DEFINE out == [c \in DOMAIN ev |->
                     IF Visible(ev[c]) /\ ev[c].state = S_POSTPONED
                     THEN PostponedStep(ev[c]) ELSE Cell(ev[c])]
<1>1. /\ pc = "postponed" /\ pc' = "limbo"
      /\ ev' = [c \in DOMAIN ev |-> out[c].e]
      /\ dirty' = (dirty \/ \E c \in DOMAIN ev : out[c].d)
      /\ UNCHANGED <<queueVars, timerVars, clockVars, zoneVars, stateVars,
                      statusVars, peerVars>>
  BY DEF RethinkPostponed, Phase, PassOver
<1>2. \A c \in DOMAIN ev : IF Visible(ev[c]) /\ ev[c].state = S_POSTPONED
                           THEN Moved(S_POSTPONED, out[c]) ELSE out[c] = Cell(ev[c])
  BY PostponedMoved DEF IInv, Typed, QueueOK, LoopOK
<1>3. PeersOK'
  BY <1>1 DEF IInv, Typed, PeersOK, queueVars, peerVars
<1>4. /\ Pos("postponed") = S_POSTPONED /\ Pos("limbo") = S_POSTPONED + 1 /\ S_POSTPONED \in States
      /\ "postponed" \in Places /\ "limbo" \in Places \ {"idle", "finish"}
      /\ S_POSTPONED \in Int /\ S_POSTPONED <= S_POSTPONED
  BY DEF Pos, Places, States, S_NEW, S_FINALIZED, S_POSTPONED, S_LIMBO
<1> HIDE DEF out
<1> QED BY <1>1, <1>2, <1>3, <1>4, PhaseIInv

LEMMA LimboPassIInv == IInv /\ RethinkLimbo => IInv'
<1> SUFFICES ASSUME IInv, RethinkLimbo PROVE IInv'
  OBVIOUS
<1> DEFINE out == [c \in DOMAIN ev |->
                     IF Visible(ev[c]) /\ ev[c].state = S_LIMBO
                     THEN LimboStep(ev[c]) ELSE Cell(ev[c])]
<1>1. /\ pc = "limbo" /\ pc' = "triggered"
      /\ ev' = [c \in DOMAIN ev |-> out[c].e]
      /\ dirty' = (dirty \/ \E c \in DOMAIN ev : out[c].d)
      /\ UNCHANGED <<queueVars, timerVars, clockVars, zoneVars, stateVars,
                      statusVars, peerVars>>
  BY DEF RethinkLimbo, Phase, PassOver
<1>2. \A c \in DOMAIN ev : IF Visible(ev[c]) /\ ev[c].state = S_LIMBO
                           THEN Moved(S_LIMBO, out[c]) ELSE out[c] = Cell(ev[c])
  BY LimboMoved DEF IInv, Typed, QueueOK
<1>3. PeersOK'
  BY <1>1 DEF IInv, Typed, PeersOK, queueVars, peerVars
<1>4. /\ Pos("limbo") = S_LIMBO /\ Pos("triggered") = S_LIMBO + 1 /\ S_LIMBO \in States
      /\ "limbo" \in Places /\ "triggered" \in Places \ {"idle", "finish"}
      /\ S_LIMBO \in Int /\ S_LIMBO <= S_LIMBO
  BY DEF Pos, Places, States, S_NEW, S_FINALIZED, S_LIMBO, S_TRIGGERED
<1> HIDE DEF out
<1> QED BY <1>1, <1>2, <1>3, <1>4, PhaseIInv

LEMMA TriggeredIInv == IInv /\ RethinkTriggered => IInv'
<1> SUFFICES ASSUME IInv, RethinkTriggered PROVE IInv'
  OBVIOUS
<1> DEFINE out == [c \in DOMAIN ev |->
                     IF Visible(ev[c]) /\ ev[c].state = S_TRIGGERED
                     THEN TriggeredStep(ev[c]) ELSE Cell(ev[c])]
<1>1. /\ pc = "triggered" /\ pc' = "waitsysui"
      /\ ev' = [c \in DOMAIN ev |-> out[c].e]
      /\ dirty' = (dirty \/ \E c \in DOMAIN ev : out[c].d)
      /\ UNCHANGED <<queueVars, timerVars, clockVars, zoneVars, stateVars,
                      statusVars, peerVars>>
  BY DEF RethinkTriggered, Phase, PassOver
<1>2. \A c \in DOMAIN ev : IF Visible(ev[c]) /\ ev[c].state = S_TRIGGERED
                           THEN Moved(S_TRIGGERED, out[c]) ELSE out[c] = Cell(ev[c])
  BY TriggeredMoved DEF IInv, Typed, QueueOK
<1>3. PeersOK'
  BY <1>1 DEF IInv, Typed, PeersOK, queueVars, peerVars
<1>4. /\ Pos("triggered") = S_TRIGGERED /\ Pos("waitsysui") = S_TRIGGERED + 1 /\ S_TRIGGERED \in States
      /\ "triggered" \in Places /\ "waitsysui" \in Places \ {"idle", "finish"}
      /\ S_TRIGGERED \in Int /\ S_TRIGGERED <= S_TRIGGERED
  BY DEF Pos, Places, States, S_NEW, S_FINALIZED, S_TRIGGERED, S_WAITSYSUI
<1> HIDE DEF out
<1> QED BY <1>1, <1>2, <1>3, <1>4, PhaseIInv

LEMMA WaitsysuiIInv == IInv /\ RethinkWaitsysui => IInv'
<1> SUFFICES ASSUME IInv, RethinkWaitsysui PROVE IInv'
  OBVIOUS
<1> DEFINE out == [c \in DOMAIN ev |->
                     IF Visible(ev[c]) /\ ev[c].state = S_WAITSYSUI
                     THEN WaitsysuiStep(ev[c]) ELSE Cell(ev[c])]
<1>1. /\ pc = "waitsysui" /\ pc' = "sysui_req"
      /\ ev' = [c \in DOMAIN ev |-> out[c].e]
      /\ dirty' = (dirty \/ \E c \in DOMAIN ev : out[c].d)
      /\ UNCHANGED <<queueVars, timerVars, clockVars, zoneVars, stateVars,
                      statusVars, answers, views, iconShown>>
  BY DEF RethinkWaitsysui, Phase, PassOver
<1>2. \A c \in DOMAIN ev : IF Visible(ev[c]) /\ ev[c].state = S_WAITSYSUI
                           THEN Moved(S_WAITSYSUI, out[c]) ELSE out[c] = Cell(ev[c])
  BY WaitsysuiMoved DEF IInv, Typed, QueueOK
<1>3. PeersOK'
  <2>1. InState(S_WAITSYSUI) \subseteq 1 .. Cookies
    BY ServerConstants DEF InState, IInv, Typed, QueueOK
  <2>2. dialogs' \in SUBSET (1 .. Cookies)
    BY <2>1 DEF RethinkWaitsysui, AddDialogs, IInv, Typed, PeersOK
  <2> QED BY <1>1, <2>2 DEF IInv, Typed, PeersOK, queueVars
<1>4. /\ Pos("waitsysui") = S_WAITSYSUI /\ Pos("sysui_req") = S_WAITSYSUI + 1 /\ S_WAITSYSUI \in States
      /\ "waitsysui" \in Places /\ "sysui_req" \in Places \ {"idle", "finish"}
      /\ S_WAITSYSUI \in Int /\ S_WAITSYSUI <= S_WAITSYSUI
  BY DEF Pos, Places, States, S_NEW, S_FINALIZED, S_WAITSYSUI, S_SYSUI_REQ
<1> HIDE DEF out
<1> QED BY <1>1, <1>2, <1>3, <1>4, PhaseIInv

LEMMA SysuiReqIInv == IInv /\ RethinkSysuiReq => IInv'
<1> SUFFICES ASSUME IInv, RethinkSysuiReq PROVE IInv'
  OBVIOUS
<1> DEFINE out == [c \in DOMAIN ev |->
                     IF Visible(ev[c]) /\ ev[c].state = S_SYSUI_REQ
                     THEN BackToWait(ev[c]) ELSE Cell(ev[c])]
<1>1. /\ pc = "sysui_req" /\ pc' = "sysui_ack"
      /\ ev' = [c \in DOMAIN ev |-> out[c].e]
      /\ dirty' = (dirty \/ \E c \in DOMAIN ev : out[c].d)
      /\ UNCHANGED <<queueVars, timerVars, clockVars, zoneVars, stateVars,
                      statusVars, peerVars>>
  BY DEF RethinkSysuiReq, Phase, PassOver
<1>2. \A c \in DOMAIN ev : IF Visible(ev[c]) /\ ev[c].state = S_SYSUI_REQ
                           THEN Moved(S_SYSUI_REQ, out[c]) ELSE out[c] = Cell(ev[c])
  BY BackToWaitMoved DEF IInv, Typed, QueueOK
<1>3. PeersOK'
  BY <1>1 DEF IInv, Typed, PeersOK, queueVars, peerVars
<1>4. /\ Pos("sysui_req") = S_SYSUI_REQ /\ Pos("sysui_ack") = S_SYSUI_REQ + 1 /\ S_SYSUI_REQ \in States
      /\ "sysui_req" \in Places /\ "sysui_ack" \in Places \ {"idle", "finish"}
      /\ S_SYSUI_REQ \in Int /\ S_SYSUI_REQ <= S_SYSUI_REQ
  BY DEF Pos, Places, States, S_NEW, S_FINALIZED, S_SYSUI_REQ, S_SYSUI_ACK
<1> HIDE DEF out
<1> QED BY <1>1, <1>2, <1>3, <1>4, PhaseIInv

LEMMA SysuiAckIInv == IInv /\ RethinkSysuiAck => IInv'
<1> SUFFICES ASSUME IInv, RethinkSysuiAck PROVE IInv'
  OBVIOUS
<1> DEFINE out == [c \in DOMAIN ev |->
                     IF Visible(ev[c]) /\ ev[c].state = S_SYSUI_ACK
                     THEN BackToWait(ev[c]) ELSE Cell(ev[c])]
<1>1. /\ pc = "sysui_ack" /\ pc' = "sysui_rsp"
      /\ ev' = [c \in DOMAIN ev |-> out[c].e]
      /\ dirty' = (dirty \/ \E c \in DOMAIN ev : out[c].d)
      /\ UNCHANGED <<queueVars, timerVars, clockVars, zoneVars, stateVars,
                      statusVars, peerVars>>
  BY DEF RethinkSysuiAck, Phase, PassOver
<1>2. \A c \in DOMAIN ev : IF Visible(ev[c]) /\ ev[c].state = S_SYSUI_ACK
                           THEN Moved(S_SYSUI_ACK, out[c]) ELSE out[c] = Cell(ev[c])
  BY BackToWaitMoved DEF IInv, Typed, QueueOK
<1>3. PeersOK'
  BY <1>1 DEF IInv, Typed, PeersOK, queueVars, peerVars
<1>4. /\ Pos("sysui_ack") = S_SYSUI_ACK /\ Pos("sysui_rsp") = S_SYSUI_ACK + 1 /\ S_SYSUI_ACK \in States
      /\ "sysui_ack" \in Places /\ "sysui_rsp" \in Places \ {"idle", "finish"}
      /\ S_SYSUI_ACK \in Int /\ S_SYSUI_ACK <= S_SYSUI_ACK
  BY DEF Pos, Places, States, S_NEW, S_FINALIZED, S_SYSUI_ACK, S_SYSUI_RSP
<1> HIDE DEF out
<1> QED BY <1>1, <1>2, <1>3, <1>4, PhaseIInv

LEMMA SysuiRspIInv == IInv /\ RethinkSysuiRsp => IInv'
<1> SUFFICES ASSUME IInv, RethinkSysuiRsp PROVE IInv'
  OBVIOUS
<1> DEFINE out == [c \in DOMAIN ev |->
                     IF Visible(ev[c]) /\ ev[c].state = S_SYSUI_RSP
                     THEN SysuiRspStep(ev[c]) ELSE Cell(ev[c])]
<1>1. /\ pc = "sysui_rsp" /\ pc' = "snoozed"
      /\ ev' = [c \in DOMAIN ev |-> out[c].e]
      /\ dirty' = (dirty \/ \E c \in DOMAIN ev : out[c].d)
      /\ UNCHANGED <<queueVars, timerVars, clockVars, zoneVars, stateVars,
                      statusVars, peerVars>>
  BY DEF RethinkSysuiRsp, Phase, PassOver
<1>2. \A c \in DOMAIN ev : IF Visible(ev[c]) /\ ev[c].state = S_SYSUI_RSP
                           THEN Moved(S_SYSUI_RSP, out[c]) ELSE out[c] = Cell(ev[c])
  BY SysuiRspMoved DEF IInv, Typed, QueueOK
<1>3. PeersOK'
  BY <1>1 DEF IInv, Typed, PeersOK, queueVars, peerVars
<1>4. /\ Pos("sysui_rsp") = S_SYSUI_RSP /\ Pos("snoozed") = S_SYSUI_RSP + 1 /\ S_SYSUI_RSP \in States
      /\ "sysui_rsp" \in Places /\ "snoozed" \in Places \ {"idle", "finish"}
      /\ S_SYSUI_RSP \in Int /\ S_SYSUI_RSP <= S_SYSUI_RSP
  BY DEF Pos, Places, States, S_NEW, S_FINALIZED, S_SYSUI_RSP, S_SNOOZED
<1> HIDE DEF out
<1> QED BY <1>1, <1>2, <1>3, <1>4, PhaseIInv

LEMMA SnoozedIInv == IInv /\ RethinkSnoozed => IInv'
<1> SUFFICES ASSUME IInv, RethinkSnoozed PROVE IInv'
  OBVIOUS
<1> DEFINE out == [c \in DOMAIN ev |->
                     IF Visible(ev[c]) /\ ev[c].state = S_SNOOZED
                     THEN SnoozedStep(ev[c]) ELSE Cell(ev[c])]
<1>1. /\ pc = "snoozed" /\ pc' = "served"
      /\ ev' = [c \in DOMAIN ev |-> out[c].e]
      /\ dirty' = (dirty \/ \E c \in DOMAIN ev : out[c].d)
      /\ UNCHANGED <<queueVars, timerVars, clockVars, zoneVars, stateVars,
                      statusVars, peerVars>>
  BY DEF RethinkSnoozed, Phase, PassOver
<1>2. \A c \in DOMAIN ev : IF Visible(ev[c]) /\ ev[c].state = S_SNOOZED
                           THEN Moved(S_SNOOZED, out[c]) ELSE out[c] = Cell(ev[c])
  BY SnoozedMoved DEF IInv, Typed, QueueOK, LoopOK
<1>3. PeersOK'
  BY <1>1 DEF IInv, Typed, PeersOK, queueVars, peerVars
<1>4. /\ Pos("snoozed") = S_SNOOZED /\ Pos("served") = S_SNOOZED + 1 /\ S_SNOOZED \in States
      /\ "snoozed" \in Places /\ "served" \in Places \ {"idle", "finish"}
      /\ S_SNOOZED \in Int /\ S_SNOOZED <= S_SNOOZED
  BY DEF Pos, Places, States, S_NEW, S_FINALIZED, S_SNOOZED, S_SERVED
<1> HIDE DEF out
<1> QED BY <1>1, <1>2, <1>3, <1>4, PhaseIInv

LEMMA ServedIInv == IInv /\ RethinkServed => IInv'
<1> SUFFICES ASSUME IInv, RethinkServed PROVE IInv'
  OBVIOUS
<1> DEFINE out == [c \in DOMAIN ev |->
                     IF Visible(ev[c]) /\ ev[c].state = S_SERVED
                     THEN ServedStep(ev[c]) ELSE Cell(ev[c])]
<1>1. /\ pc = "served" /\ pc' = "recurring"
      /\ ev' = [c \in DOMAIN ev |-> out[c].e]
      /\ dirty' = (dirty \/ \E c \in DOMAIN ev : out[c].d)
      /\ UNCHANGED <<queueVars, timerVars, clockVars, zoneVars, stateVars,
                      statusVars, peerVars>>
  BY DEF RethinkServed, Phase, PassOver
<1>2. \A c \in DOMAIN ev : IF Visible(ev[c]) /\ ev[c].state = S_SERVED
                           THEN Moved(S_SERVED, out[c]) ELSE out[c] = Cell(ev[c])
  BY ServedMoved DEF IInv, Typed, QueueOK
<1>3. PeersOK'
  BY <1>1 DEF IInv, Typed, PeersOK, queueVars, peerVars
<1>4. /\ Pos("served") = S_SERVED /\ Pos("recurring") = S_SERVED + 1 /\ S_SERVED \in States
      /\ "served" \in Places /\ "recurring" \in Places \ {"idle", "finish"}
      /\ S_SERVED \in Int /\ S_SERVED <= S_SERVED
  BY DEF Pos, Places, States, S_NEW, S_FINALIZED, S_SERVED, S_RECURRING
<1> HIDE DEF out
<1> QED BY <1>1, <1>2, <1>3, <1>4, PhaseIInv

LEMMA RecurringIInv == IInv /\ RethinkRecurring => IInv'
<1> SUFFICES ASSUME IInv, RethinkRecurring PROVE IInv'
  OBVIOUS
<1> DEFINE out == [c \in DOMAIN ev |->
                     IF Visible(ev[c]) /\ ev[c].state = S_RECURRING
                     THEN RecurringStep(ev[c]) ELSE Cell(ev[c])]
<1>0. tzCurr \in Int
  BY EnvironmentConstants DEF IInv, Typed, ZonesOK
<1>1. /\ pc = "recurring" /\ pc' = "deleted"
      /\ ev' = [c \in DOMAIN ev |-> out[c].e]
      /\ dirty' = (dirty \/ \E c \in DOMAIN ev : out[c].d)
      /\ UNCHANGED <<queueVars, timerVars, clockVars, zoneVars, stateVars,
                      statusVars, peerVars>>
  BY DEF RethinkRecurring, Phase, PassOver
<1>2. \A c \in DOMAIN ev : IF Visible(ev[c]) /\ ev[c].state = S_RECURRING
                           THEN Moved(S_RECURRING, out[c]) ELSE out[c] = Cell(ev[c])
  BY <1>0, RecurringMoved DEF IInv, Typed, QueueOK, LoopOK
<1>3. PeersOK'
  BY <1>1 DEF IInv, Typed, PeersOK, queueVars, peerVars
<1>4. /\ Pos("recurring") = S_RECURRING /\ Pos("deleted") = S_RECURRING + 1 /\ S_RECURRING \in States
      /\ "recurring" \in Places /\ "deleted" \in Places \ {"idle", "finish"}
      /\ S_RECURRING \in Int /\ S_RECURRING <= S_RECURRING
  BY DEF Pos, Places, States, S_NEW, S_FINALIZED, S_RECURRING, S_DELETED
<1> HIDE DEF out
<1> QED BY <1>1, <1>2, <1>3, <1>4, PhaseIInv

LEMMA DeletedIInv == IInv /\ RethinkDeleted => IInv'
<1> SUFFICES ASSUME IInv, RethinkDeleted PROVE IInv'
  OBVIOUS
<1> DEFINE out == [c \in DOMAIN ev |->
                     IF Visible(ev[c]) /\ ev[c].state = S_DELETED
                     THEN DeletedStep(ev[c]) ELSE Cell(ev[c])]
<1>1. /\ pc = "deleted" /\ pc' = "cleanup"
      /\ ev' = [c \in DOMAIN ev |-> out[c].e]
      /\ dirty' = (dirty \/ \E c \in DOMAIN ev : out[c].d)
      /\ UNCHANGED <<queueVars, timerVars, clockVars, zoneVars, stateVars,
                      statusVars, answers, views, iconShown>>
  BY DEF RethinkDeleted, Phase, PassOver
<1>2. \A c \in DOMAIN ev : IF Visible(ev[c]) /\ ev[c].state = S_DELETED
                           THEN Moved(S_RECURRING, out[c]) ELSE out[c] = Cell(ev[c])
  BY DeletedMoved DEF IInv, Typed, QueueOK, Moved, S_RECURRING, S_DELETED
<1>3. PeersOK'
  <2>1. InState(S_DELETED) \subseteq 1 .. Cookies
    BY ServerConstants DEF InState, IInv, Typed, QueueOK
  <2>2. dialogs' \in SUBSET (1 .. Cookies)
    BY <2>1 DEF RethinkDeleted, CancelDialogs, IInv, Typed, PeersOK
  <2> QED BY <1>1, <2>2 DEF IInv, Typed, PeersOK, queueVars
<1>4. /\ Pos("deleted") = S_DELETED /\ Pos("cleanup") = S_RECURRING + 1 /\ S_DELETED \in States
      /\ "deleted" \in Places /\ "cleanup" \in Places \ {"idle", "finish"}
      /\ S_RECURRING \in Int /\ S_RECURRING <= S_DELETED
  BY DEF Pos, Places, States, S_NEW, S_FINALIZED, S_DELETED, S_RECURRING
<1> HIDE DEF out
<1> QED BY <1>1, <1>2, <1>3, <1>4, PhaseIInv

(* The queue is finite, and so are the sets the status is counted from.    *)
LEMMA CountOk ==
  ASSUME QueueOK, NEW S \in SUBSET DOMAIN ev
  PROVE  Cardinality(S) \in Int
<1>1. S \subseteq 1 .. lastCookie /\ lastCookie \in Int
  BY ServerConstants DEF QueueOK
<1>2. IsFiniteSet(1 .. lastCookie)
  BY <1>1, FS_Interval
<1>3. IsFiniteSet(S)
  BY <1>1, <1>2, FS_Subset
<1> QED BY <1>3, FS_CardinalityType

ClkType == [initialized : BOOLEAN, clock : Int, sched : Int, until : Int,
            forw : Int, back : Int]

(* The statics of the stability check keep their types one by one.         *)
LEMMA ClkFields ==
  ASSUME NEW r \in ClkType, NEW n \in Int
  PROVE  /\ [r EXCEPT !.initialized = TRUE] \in ClkType
         /\ [r EXCEPT !.clock = n] \in ClkType
         /\ [r EXCEPT !.sched = n] \in ClkType
         /\ [r EXCEPT !.until = n] \in ClkType
         /\ [r EXCEPT !.forw = n] \in ClkType
         /\ [r EXCEPT !.back = n] \in ClkType
BY DEF ClkType

(* The two clock changes that were accounted for are taken off.            *)
LEMMA ClkOk ==
  ASSUME ClocksOK, NEW n \in Int, NEW m \in Int
  PROVE  [clk EXCEPT !.forw = n, !.back = m]
           \in [initialized : BOOLEAN, clock : Int, sched : Int, until : Int,
                forw : Int, back : Int]
<1>1. [clk EXCEPT !.forw = n, !.back = m]
        = [[clk EXCEPT !.forw = n] EXCEPT !.back = m]
  BY Zenon DEF ClocksOK
<1>2. clk \in ClkType
  BY DEF ClocksOK, ClkType
<1> QED BY <1>1, <1>2, ClkFields DEF ClkType

LEMMA QueuedIInv == IInv /\ RethinkQueued => IInv'
<1> SUFFICES ASSUME IInv, RethinkQueued PROVE IInv'
  OBVIOUS
<1> DEFINE out == [c \in DOMAIN ev |->
                     IF Visible(ev[c]) /\ ev[c].state = S_QUEUED
                     THEN QueuedStep(ev[c]) ELSE Cell(ev[c])]
<1>1. /\ pc = "queued" /\ pc' = "missed"
      /\ ev' = [c \in DOMAIN ev |-> out[c].e]
      /\ dirty' = (dirty \/ \E c \in DOMAIN ev : out[c].d)
      /\ UNCHANGED <<queueVars, rethink, save, limboTimer, clockVars, zoneVars,
                      stateVars, qsPrev, iconsPrev, peerVars>>
  BY DEF RethinkQueued, PassOver
<1>2. \A c \in DOMAIN ev : IF Visible(ev[c]) /\ ev[c].state = S_QUEUED
                           THEN Moved(S_QUEUED, out[c]) ELSE out[c] = Cell(ev[c])
  BY QueuedMoved DEF IInv, Typed, QueueOK, LoopOK
<1>3. QueueOK /\ dirty \in BOOLEAN /\ PassInv /\ now \in Int /\ mono \in Int
  BY DEF IInv, Typed, LoopOK, ClocksOK
<1>4. /\ Pos("queued") = S_QUEUED /\ Pos("missed") = S_QUEUED + 1
      /\ S_QUEUED \in States /\ S_QUEUED \in Int
      /\ "queued" \in Places /\ "missed" \in Places
  BY DEF Pos, Places, States, S_NEW, S_QUEUED, S_MISSED, S_FINALIZED
<1> HIDE DEF out
<1>5. UNCHANGED <<flags, up, now>>
  BY <1>1 DEF stateVars, clockVars
<1>6. /\ DOMAIN ev' = DOMAIN ev /\ ev' \in [DOMAIN ev -> Event]
      /\ dirty' \in BOOLEAN /\ PassInv'
  BY <1>1, <1>2, <1>3, <1>4, <1>5, PassOk
<1>7. PeersOK'
  BY <1>1 DEF IInv, Typed, PeersOK, queueVars, peerVars
<1>8. \A b : TimesOf(b) \subseteq Int
  BY <1>3, TimeConstants DEF TimesOf, Waiting, InState, QueueOK, Event
<1>9. TimersOK' /\ StatusOK'
  <2>1. PICK d \in TimesOf("desktop"), a \in TimesOf("actdead"), n \in TimesOf("no_boot") :
          /\ qs' = [alarms |-> 0, desktop |-> d, actdead |-> a, no_boot |-> n]
          /\ icons' = Cardinality({c \in Waiting : Needs(ev[c], "SHOW_ICON")})
          /\ IF MinOf(MinOf(d, a), n) < INT_MAX
             THEN RequestWakeup(MinOf(MinOf(d, a), n)) ELSE UNCHANGED wakeup
          /\ rtc' = IF MinOf(d, a) < INT_MAX
                    THEN MaxOf(MinOf(d, a) - POWERUP_COMPENSATION_SECS,
                               now + ALARM_INTERRUPT_LIMIT_SECS)
                    ELSE rtc
    BY DEF RethinkQueued, SetHardwareAlarm
  <2>2. d \in Int /\ a \in Int /\ n \in Int
    BY <1>8
  <2>3. qs' \in QueueStatus
    BY <2>1, <2>2 DEF QueueStatus
  <2>4. icons' \in Int
    <3>1. {c \in Waiting : Needs(ev[c], "SHOW_ICON")} \in SUBSET DOMAIN ev
      BY DEF Waiting, InState
    <3> QED BY <1>3, <2>1, <3>1, CountOk
  <2>5. wakeup' \in [time : Int, due : Int]
    <3>1. MinOf(MinOf(d, a), n) \in Int
      BY <2>2 DEF MinOf
    <3>2. wakeup \in [time : Int, due : Int]
      BY DEF IInv, Typed, TimersOK
    <3>3. ASSUME NEW t \in Int, RequestWakeup(t)
          PROVE  wakeup' \in [time : Int, due : Int]
      BY <1>3, <3>2, <3>3, ServerConstants DEF RequestWakeup, MinOf, MaxOf
    <3> QED BY <2>1, <3>1, <3>2, <3>3
  <2>6. rtc' \in Int
    BY <1>3, <2>1, <2>2, ServerConstants DEF MaxOf, MinOf, IInv, Typed, StatusOK
  <2> QED BY <1>1, <2>3, <2>4, <2>5, <2>6 DEF IInv, Typed, TimersOK, StatusOK
<1>10. pc' \in Places \ {"idle", "finish"}
  BY <1>1 DEF Places
<1> QED BY <1>1, <1>6, <1>7, <1>9, <1>10, PassIInv

LEMMA TimechangeIInv == IInv /\ RethinkTimechange => IInv'
<1> SUFFICES ASSUME IInv, RethinkTimechange PROVE IInv'
  OBVIOUS
<1> DEFINE zone == "TZ_CHANGED" \in flags
           forw == IF "CLK_MV_FORW" \in flags THEN clk.forw ELSE 0
           back == IF "CLK_MV_BACK" \in flags THEN clk.back ELSE 0
           out  == [c \in DOMAIN ev |->
                      IF (zone \/ forw + back # 0) /\ c \in InState(S_QUEUED)
                      THEN Rescheduled(ev[c], forw + back) ELSE Cell(ev[c])]
<1>1. /\ pc = "timechange"
      /\ flags' = flags \ {"TZ_CHANGED", "CLK_MV_FORW", "CLK_MV_BACK"}
      /\ clk' = [clk EXCEPT !.forw = @ - forw, !.back = @ - back]
      /\ tzPrev' = (IF zone \/ forw + back # 0 THEN tzCurr ELSE tzPrev)
      /\ ev' = [c \in DOMAIN ev |-> out[c].e]
      /\ IF \E c \in DOMAIN ev : out[c].d
         THEN pc' = "new" /\ dirty' = FALSE
         ELSE pc' = "queued" /\ UNCHANGED dirty
      /\ UNCHANGED <<queueVars, timerVars, mono, delta, now, tz, tzCurr, up, dn,
                     statusVars, peerVars>>
  BY DEF RethinkTimechange
<1>2. /\ QueueOK /\ now \in Int /\ dirty \in BOOLEAN /\ tzCurr \in Int
      /\ forw \in Int /\ back \in Int
  BY EnvironmentConstants DEF IInv, Typed, LoopOK, ZonesOK, ClocksOK
<1>3. ASSUME NEW c \in DOMAIN ev
      PROVE  out[c] \in CellType /\ (out[c].d \/ out[c] = Cell(ev[c]))
  <2>1. forw + back \in Int /\ ev[c] \in Event
    BY <1>2 DEF QueueOK
  <2> DEFINE adj == forw + back
  <2>2. out[c] = (IF (zone \/ adj # 0) /\ c \in InState(S_QUEUED)
                  THEN Rescheduled(ev[c], adj) ELSE Cell(ev[c]))
    OBVIOUS
  <2> HIDE DEF out, adj, zone
  <2>3. adj \in Int
    BY <2>1 DEF adj
  <2> QED BY <1>2, <2>1, <2>2, <2>3, RescheduledOk, CellOk
<1> HIDE DEF out, forw, back, zone
<1>4. clk' \in [initialized : BOOLEAN, clock : Int, sched : Int, until : Int,
                forw : Int, back : Int]
  <2>1. clk.forw - forw \in Int /\ clk.back - back \in Int /\ ClocksOK
    BY <1>2 DEF IInv, Typed, ClocksOK
  <2> QED BY <1>1, <2>1, ClkOk
<1>5. DOMAIN ev' = DOMAIN ev /\ ev' \in [DOMAIN ev -> Event]
  BY <1>1, <1>3 DEF CellType
<1>6. QueueOK' /\ LoopOK'
  BY <1>1, <1>2, <1>5 DEF QueueOK, LoopOK, Places, queueVars
<1>7. TimersOK' /\ ClocksOK' /\ ZonesOK' /\ FlagsOK' /\ StatusOK'
  BY <1>1, <1>4 DEF IInv, Typed, TimersOK, ClocksOK, ZonesOK, FlagsOK, StatusOK,
                    timerVars, statusVars
<1>8. PeersOK'
  BY <1>1 DEF IInv, Typed, PeersOK, queueVars, peerVars
<1>9. PassInv'
  <2>1. CASE pc' = "new"
    <3>1. Pos(pc') = 0
      BY <2>1 DEF Pos, S_NEW
    <3>2. \A c \in DOMAIN ev' : ~(ev'[c].state < 0)
      BY <1>5 DEF Event, States, S_NEW, S_FINALIZED
    <3> QED BY <3>1, <3>2 DEF PassInv
  <2>2. CASE pc' # "new"
    <3>1. pc' = "queued" /\ dirty' = dirty /\ ~ \E c \in DOMAIN ev : out[c].d
      BY <1>1, <2>2
    <3>2. Pos(pc) = S_QUEUED /\ Pos(pc') = S_QUEUED /\ pc # "idle"
      BY <1>1, <3>1 DEF Pos
    <3>3. \A c \in DOMAIN ev : ev'[c] = ev[c]
      BY <1>1, <1>2, <1>3, <3>1, CellOk DEF QueueOK
    <3>4. "CONNECTED" \in flags' <=> "CONNECTED" \in flags
      BY <1>1
    <3>5. /\ "DESKTOP_UP" \in flags' <=> "DESKTOP_UP" \in flags
          /\ "ACT_DEAD" \in flags' <=> "ACT_DEAD" \in flags
      BY <1>1
    <3>6. ASSUME NEW c \in DOMAIN ev, ~dirty, Visible(ev'[c]), ev'[c].state < Pos(pc')
          PROVE  Settled(ev'[c])
      BY <3>2, <3>3, <3>6 DEF IInv, PassInv
    <3> QED BY <1>1, <1>5, <3>1, <3>4, <3>5, <3>6
            DEF PassInv, Visible, Settled, Offline, Needs, Connected,
                MayLeaveLimbo, SysuiUp
  <2> QED BY <2>1, <2>2
<1>10. NoWorkLeftBehind' /\ CleanFinish'
  BY <1>1 DEF NoWorkLeftBehind, CleanFinish, Quiescent
<1> QED BY <1>6, <1>7, <1>8, <1>9, <1>10 DEF IInv, Typed

LEMMA CleanupIInv == IInv /\ RethinkCleanup => IInv'
<1> SUFFICES ASSUME IInv, RethinkCleanup PROVE IInv'
  OBVIOUS
<1>1. /\ pc = "cleanup" /\ Pos(pc) = S_DELETED
      /\ pc' = (IF dirty THEN "new" ELSE "finish") /\ dirty' = FALSE
      /\ UNCHANGED <<queueVars, timerVars, clockVars, zoneVars, stateVars,
                     statusVars, peerVars>>
  BY DEF RethinkCleanup, Pos
<1>2. /\ DOMAIN ev' = Kept
      /\ \A c \in Kept : ev'[c] = ev[c] /\ c \in DOMAIN ev /\ ev[c] \in Event
                          /\ ev[c].state < S_DELETED
  BY DEF RethinkCleanup, Kept, IInv, Typed, QueueOK, Event, States, S_NEW,
         S_DELETED, S_FINALIZED
<1>3. ev' \in [DOMAIN ev' -> Event]
  <2>1. ev' = [c \in Kept |-> ev[c]]
    BY DEF RethinkCleanup
  <2> QED BY <1>2, <2>1
<1>4. QueueOK'
  BY <1>1, <1>2, <1>3 DEF IInv, Typed, QueueOK, queueVars
<1>5. LoopOK' /\ TimersOK' /\ ClocksOK' /\ ZonesOK' /\ FlagsOK' /\ StatusOK'
  BY <1>1 DEF IInv, Typed, LoopOK, TimersOK, ClocksOK, ZonesOK, FlagsOK, StatusOK,
              Places, timerVars, clockVars, zoneVars, stateVars, statusVars
<1>6. PeersOK'
  BY <1>1 DEF IInv, Typed, PeersOK, queueVars, peerVars
<1>7. PassInv'
  <2>1. CASE dirty
    <3>1. Pos(pc') = 0
      BY <1>1, <2>1 DEF Pos, S_NEW
    <3>2. \A c \in DOMAIN ev' : ~(ev'[c].state < 0)
      BY <1>3 DEF Event, States, S_NEW, S_FINALIZED
    <3> QED BY <3>1, <3>2 DEF PassInv
  <2>2. CASE ~dirty
    <3>1. \A c \in Kept : Visible(ev[c]) => Settled(ev[c])
      BY <1>1, <1>2, <2>2 DEF IInv, PassInv
    <3> QED BY <1>1, <1>2, <3>1
            DEF PassInv, Visible, Settled, Offline, Needs, Connected,
                MayLeaveLimbo, SysuiUp, stateVars, clockVars
  <2> QED BY <2>1, <2>2
<1>8. NoWorkLeftBehind' /\ CleanFinish'
  BY <1>1 DEF NoWorkLeftBehind, CleanFinish, Quiescent
<1> QED BY <1>4, <1>5, <1>6, <1>7, <1>8 DEF IInv, Typed

(* The loop ends with a clean pass, after which every event is settled.    *)
LEMMA FinishIInv == IInv /\ RethinkFinish => IInv'
<1> SUFFICES ASSUME IInv, RethinkFinish PROVE IInv'
  OBVIOUS
<1> DEFINE status == [qs EXCEPT !.alarms = ActiveAlarms]
<1>1. /\ pc = "finish" /\ pc' = "idle" /\ Pos(pc) = S_FINALIZED + 1
      /\ UNCHANGED <<ev, queueVars, dirty, wakeup, limboTimer, clockVars, tz,
                     tzPrev, up, icons, rtc, dialogs, answers>>
      /\ save' = TRUE
  BY DEF RethinkFinish, Pos
<1>2. QueueOK' /\ LoopOK' /\ ClocksOK' /\ ZonesOK'
  <2>1. tzCurr' \in {tz, tzCurr}
    BY DEF RethinkFinish, ServerStateSync
  <2> QED BY <1>1, <2>1 DEF IInv, Typed, QueueOK, LoopOK, ClocksOK, ZonesOK, Places,
                            queueVars, clockVars
<1>3. TimersOK'
  <2>1. rethink' \in Nat \cup {Never}
    BY DEF RethinkFinish, ServerStateSync, Requested, IInv, Typed, TimersOK, ClocksOK
  <2> QED BY <1>1, <2>1 DEF IInv, Typed, TimersOK
<1>4. FlagsOK'
  BY <1>1 DEF RethinkFinish, ServerStateSync, Returned, IInv, Typed, FlagsOK,
              StateFlags
<1>5. status \in QueueStatus
  <2>1. ActiveAlarms \in Int
    <3>1. InState(S_WAITSYSUI) \cup InState(S_SYSUI_REQ) \cup InState(S_SYSUI_ACK)
            \cup {c \in InState(S_LIMBO) :
                    "ACT_DEAD" \in flags /\ Needs(ev[c], "ACTDEAD")}
          \in SUBSET DOMAIN ev
      BY DEF InState
    <3> QED BY <3>1, CountOk DEF ActiveAlarms, IInv, Typed
  <2> HIDE DEF status
  <2>2. status = [qs EXCEPT !.alarms = ActiveAlarms]
    BY DEF status
  <2> QED BY <2>1, <2>2 DEF IInv, Typed, StatusOK, QueueStatus
<1> HIDE DEF status
<1>6. StatusOK'
  <2>1. qs' = status /\ qsPrev' = status /\ iconsPrev' \in {icons, -1, iconsPrev}
    BY DEF RethinkFinish, QueuestateSync, status
  <2> QED BY <1>1, <1>5, <2>1 DEF IInv, Typed, StatusOK
<1>7. PeersOK'
  <2>1. views' \in [Listeners -> QueueStatus]
    <3>1. \/ views' = [s \in Listeners |-> IF s \in up THEN status ELSE views[s]]
          \/ views' = views
      BY DEF RethinkFinish, QueuestateSync, status
    <3> QED BY <1>5, <3>1 DEF IInv, Typed, PeersOK
  <2>2. iconShown' \in BOOLEAN
    <3>1. iconShown' = (icons > 0) \/ iconShown' = iconShown
      BY DEF RethinkFinish, QueuestateSync
    <3>2. iconShown \in BOOLEAN /\ (icons > 0) \in BOOLEAN
      BY DEF IInv, Typed, PeersOK, StatusOK
    <3> QED BY <3>1, <3>2
  <2> QED BY <1>1, <2>1, <2>2 DEF IInv, Typed, PeersOK, queueVars
<1>8. NoWorkLeftBehind'
  <2>1. ~dirty /\ pc # "idle"
    BY <1>1 DEF IInv, CleanFinish
  <2>2. \A c \in DOMAIN ev : ev[c].state < Pos(pc)
    BY <1>1 DEF IInv, Typed, QueueOK, Event, States, S_NEW, S_FINALIZED
  <2>3. \A c \in DOMAIN ev : Visible(ev[c]) => Settled(ev[c])
    BY <2>1, <2>2 DEF IInv, PassInv
  <2>4. "CONNECTED" \in flags' <=> "CONNECTED" \in flags
    BY DEF RethinkFinish
  <2>5. /\ "DESKTOP_UP" \in flags' <=> "DESKTOP_UP" \in flags
        /\ "ACT_DEAD" \in flags' <=> "ACT_DEAD" \in flags
    BY DEF RethinkFinish
  <2> QED BY <1>1, <2>3, <2>4, <2>5
          DEF NoWorkLeftBehind, Visible, Settled, Offline, Needs, Connected,
              MayLeaveLimbo, SysuiUp, clockVars
<1>9. PassInv' /\ CleanFinish'
  BY <1>1 DEF PassInv, CleanFinish
<1> QED BY <1>2, <1>3, <1>4, <1>6, <1>7, <1>8, <1>9 DEF IInv, Typed

-----------------------------------------------------------------------------
(* The handlers of the main loop.  They run between rethinks, and whatever *)
(* could leave an event unsettled asks for the next one.                   *)

LEMMA AskingIInv ==
  ASSUME pc' = "idle", rethink' # Never, Typed'
  PROVE  IInv'
BY DEF IInv, PassInv, NoWorkLeftBehind, Quiescent, CleanFinish

LEMMA QuietIInv ==
  ASSUME IInv, pc = "idle", pc' = "idle", Typed',
         UNCHANGED <<ev, now, flags, up>>,
         rethink' = Never => rethink = Never
  PROVE  IInv'
<1>1. PassInv' /\ CleanFinish'
  BY DEF PassInv, CleanFinish
<1>2. NoWorkLeftBehind'
  BY DEF IInv, NoWorkLeftBehind, Quiescent, Visible, Settled, Offline, Needs,
         Connected, MayLeaveLimbo, SysuiUp
<1> QED BY <1>1, <1>2 DEF IInv

(* A request for a rethink is never lost, and asking leaves a valid timer. *)
LEMMA RequestedOk ==
  ASSUME Typed
  PROVE  Requested \in Nat \cup {Never} /\ Requested # Never
BY DEF Typed, TimersOK, ClocksOK, Requested, Never

(* What a handler leaves alone keeps its type.                             *)
LEMMA Frames ==
  ASSUME Typed
  PROVE  /\ UNCHANGED <<ev, lastCookie, snooze>> => QueueOK'
         /\ UNCHANGED <<pc, dirty, now>> => LoopOK'
         /\ UNCHANGED <<mono, delta, clk>> => ClocksOK'
         /\ UNCHANGED <<tz, tzCurr, tzPrev>> => ZonesOK'
         /\ UNCHANGED <<flags, up, dn>> => FlagsOK'
         /\ UNCHANGED <<qs, qsPrev, icons, iconsPrev, rtc>> => StatusOK'
         /\ UNCHANGED <<rethink, wakeup, save, limboTimer>> => TimersOK'
         /\ UNCHANGED <<lastCookie, dialogs, answers, views, iconShown>> => PeersOK'
BY DEF Typed, QueueOK, LoopOK, ClocksOK, ZonesOK, FlagsOK, StatusOK, TimersOK, PeersOK

LEMMA RequestFrame ==
  ASSUME Typed, RethinkRequest, UNCHANGED <<wakeup, save, limboTimer>>
  PROVE  TimersOK' /\ rethink' # Never
BY RequestedOk DEF Typed, TimersOK, RethinkRequest

LEMMA SetState3Ok ==
  ASSUME Typed, NEW f \in SUBSET StateFlags, NEW u \in SUBSET Services,
         NEW d \in SUBSET Services, SetState3(f, u, d)
  PROVE  /\ FlagsOK' /\ rethink' \in Nat \cup {Never}
         /\ rethink' = Never => rethink = Never /\ UNCHANGED <<flags, up>>
BY RequestedOk DEF Typed, TimersOK, FlagsOK, SetState3

LEMMA InsertOk ==
  ASSUME Typed, NEW q, NEW k \in Kind, lastCookie < Cookies,
         DOMAIN q \subseteq 1 .. lastCookie, q \in [DOMAIN q -> Event],
         Insert(q, k), UNCHANGED snooze
  PROVE  QueueOK' /\ lastCookie \in Int /\ lastCookie' \in Int /\ lastCookie <= lastCookie'
<1> DEFINE t == InitialTrigger(k, Wall, tzCurr)
<1>1. Wall \in Int /\ tzCurr \in Int /\ lastCookie \in Nat
  BY ServerConstants, EnvironmentConstants
     DEF Wall, Typed, ClocksOK, ZonesOK, QueueOK
<1>2. FreshEvent(k, t) \in Event
  <2>1. t \in Int
    BY <1>1, InitialTriggerInt
  <2> HIDE DEF t
  <2> QED BY <2>1, FreshEventOk
<1>3. CASE t >= Wall
  <2>1. /\ lastCookie' = lastCookie + 1
        /\ ev' = [c \in DOMAIN q \cup {lastCookie + 1} |->
                    IF c = lastCookie + 1 THEN FreshEvent(k, t) ELSE q[c]]
    BY <1>3 DEF Insert
  <2> HIDE DEF t
  <2>2. ev' \in [DOMAIN ev' -> Event] /\ DOMAIN ev' = DOMAIN q \cup {lastCookie + 1}
    BY <1>2, <2>1
  <2> QED BY <1>1, <2>1, <2>2, ServerConstants DEF Typed, QueueOK
<1>4. CASE ~(t >= Wall)
  BY <1>1, <1>4 DEF Insert, Typed, QueueOK
<1> QED BY <1>3, <1>4

LEMMA PeersKept ==
  ASSUME Typed, UNCHANGED peerVars
  PROVE  PeersOK'
BY DEF Typed, PeersOK, peerVars

LEMMA DeletingOk ==
  ASSUME QueueOK, NEW c
  PROVE  Deleting(c) \in [DOMAIN ev -> Event] /\ DOMAIN Deleting(c) = DOMAIN ev
<1>1. \A e \in Event : [e EXCEPT !.state = S_DELETED] \in Event
  BY DEF Event, States, S_NEW, S_DELETED, S_FINALIZED
<1>2. CASE c \in DOMAIN ev
  <2>1. Deleting(c) = [ev EXCEPT ![c] = [ev[c] EXCEPT !.state = S_DELETED]]
    BY <1>2 DEF Deleting, QueueOK
  <2>2. [ev[c] EXCEPT !.state = S_DELETED] \in Event
    BY <1>1, <1>2 DEF QueueOK
  <2> QED BY <2>1, <2>2 DEF QueueOK
<1>3. CASE c \notin DOMAIN ev
  BY <1>3 DEF Deleting, QueueOK
<1> QED BY <1>2, <1>3

LEMMA EventInStateOk ==
  ASSUME QueueOK, NEW c, NEW s \in States
  PROVE  EventInState(c, s) \in [DOMAIN ev -> Event] /\ DOMAIN EventInState(c, s) = DOMAIN ev
<1>1. CASE c \in DOMAIN ev
  <2>1. SetState(Cell(ev[c]), s).e \in Event
    BY <1>1, CellOk, SetStateOk DEF QueueOK, CellType
  <2>2. EventInState(c, s) = [ev EXCEPT ![c] = SetState(Cell(ev[c]), s).e]
    BY <1>1 DEF EventInState
  <2> QED BY <2>1, <2>2 DEF QueueOK
<1>2. CASE c \notin DOMAIN ev
  BY <1>2 DEF EventInState, QueueOK
<1> QED BY <1>1, <1>2

LEMMA ClientIInv == IInv /\ ClientStep => IInv'
<1> SUFFICES ASSUME IInv, ClientStep PROVE IInv'
  OBVIOUS
<1>0. Typed /\ QueueOK
  BY DEF IInv, Typed
<1>1. ASSUME NEW k \in Kinds, EventAdd(k) PROVE IInv'
  <2>1. k \in Kind
    BY EnvironmentConstants
  <2>2. QueueOK' /\ PeersOK'
    BY <1>0, <1>1, <2>1, InsertOk, PeersKept DEF EventAdd, HandlerFrame, QueueOK
  <2>3. TimersOK' /\ rethink' # Never
    BY <1>0, <1>1, RequestFrame DEF EventAdd, HandlerFrame
  <2>4. LoopOK' /\ ClocksOK' /\ ZonesOK' /\ FlagsOK' /\ StatusOK' /\ pc' = "idle"
    BY <1>0, <1>1, Frames
       DEF EventAdd, May, HandlerFrame, clockVars, zoneVars, stateVars, statusVars
  <2> QED BY <2>2, <2>3, <2>4, AskingIInv DEF Typed
<1>2. ASSUME NEW k \in Kinds, NEW c \in 1 .. lastCookie, EventUpdate(c, k) PROVE IInv'
  <2>1. k \in Kind
    BY EnvironmentConstants
  <2>2. QueueOK' /\ PeersOK'
    BY <1>0, <1>2, <2>1, InsertOk, DeletingOk, PeersKept
       DEF EventUpdate, HandlerFrame, QueueOK
  <2>3. TimersOK' /\ rethink' # Never
    BY <1>0, <1>2, RequestFrame DEF EventUpdate, HandlerFrame
  <2>4. LoopOK' /\ ClocksOK' /\ ZonesOK' /\ FlagsOK' /\ StatusOK' /\ pc' = "idle"
    BY <1>0, <1>2, Frames
       DEF EventUpdate, May, HandlerFrame, clockVars, zoneVars, stateVars, statusVars
  <2> QED BY <2>2, <2>3, <2>4, AskingIInv DEF Typed
<1>3. ASSUME NEW c \in DOMAIN ev, EventDel(c) PROVE IInv'
  <2>1. QueueOK'
    BY <1>0, <1>3, DeletingOk DEF EventDel, HandlerFrame, QueueOK
  <2>2. TimersOK' /\ rethink' # Never
    BY <1>0, <1>3, RequestFrame DEF EventDel, HandlerFrame
  <2>3. /\ LoopOK' /\ ClocksOK' /\ ZonesOK' /\ FlagsOK' /\ StatusOK' /\ PeersOK'
        /\ pc' = "idle"
    BY <1>0, <1>3, Frames
       DEF EventDel, May, HandlerFrame, clockVars, zoneVars, stateVars, statusVars, peerVars
  <2> QED BY <2>1, <2>2, <2>3, AskingIInv DEF Typed
<1>4. ASSUME NEW s \in SnoozeVals, SnoozeSet(s) PROVE IInv'
  <2>1. QueueOK' /\ TimersOK'
    BY <1>0, <1>4, TimeConstants, ServerConstants, EnvironmentConstants
       DEF SnoozeSet, RequestSave, Typed, QueueOK, TimersOK
  <2>2. /\ LoopOK' /\ ClocksOK' /\ ZonesOK' /\ FlagsOK' /\ StatusOK' /\ PeersOK'
        /\ pc = "idle" /\ pc' = "idle"
    BY <1>0, <1>4, Frames
       DEF SnoozeSet, May, clockVars, zoneVars, stateVars, statusVars, peerVars
  <2>3. UNCHANGED <<ev, now, flags, up, rethink>>
    BY <1>4 DEF SnoozeSet, clockVars, stateVars
  <2> QED BY <2>1, <2>2, <2>3, QuietIInv DEF Typed
<1>5. CASE ClearUserData
  <2>1. QueueOK' /\ TimersOK' /\ ev' = NoEvents
    BY <1>0, <1>5, ServerConstants
       DEF ClearUserData, ForcedSave, Typed, QueueOK, TimersOK, NoEvents
  <2>2. /\ LoopOK' /\ ClocksOK' /\ ZonesOK' /\ FlagsOK' /\ StatusOK' /\ PeersOK'
        /\ pc' = "idle"
    BY <1>0, <1>5, Frames
       DEF ClearUserData, May, clockVars, zoneVars, stateVars, statusVars, peerVars
  <2> QED BY <2>1, <2>2 DEF IInv, Typed, PassInv, NoWorkLeftBehind, CleanFinish, NoEvents
<1>6. CASE RestoreFactorySettings
  <2>1. QueueOK' /\ TimersOK'
    BY <1>0, <1>6, ServerConstants
       DEF RestoreFactorySettings, ForcedSave, Typed, QueueOK, TimersOK
  <2>2. /\ LoopOK' /\ ClocksOK' /\ ZonesOK' /\ FlagsOK' /\ StatusOK' /\ PeersOK'
        /\ pc = "idle" /\ pc' = "idle"
    BY <1>0, <1>6, Frames
       DEF RestoreFactorySettings, May, clockVars, zoneVars, stateVars, statusVars, peerVars
  <2>3. UNCHANGED <<ev, now, flags, up, rethink>>
    BY <1>6 DEF RestoreFactorySettings, clockVars, stateVars
  <2> QED BY <2>1, <2>2, <2>3, QuietIInv DEF Typed
<1>7. CASE SaveData
  <2>1. TimersOK'
    BY <1>0, <1>7 DEF SaveData, ForcedSave, Typed, TimersOK
  <2>2. /\ QueueOK' /\ LoopOK' /\ ClocksOK' /\ ZonesOK' /\ FlagsOK' /\ StatusOK' /\ PeersOK'
        /\ pc = "idle" /\ pc' = "idle"
    BY <1>0, <1>7, Frames
       DEF SaveData, May, queueVars, clockVars, zoneVars, stateVars, statusVars, peerVars
  <2>3. UNCHANGED <<ev, now, flags, up, rethink>>
    BY <1>7 DEF SaveData, clockVars, stateVars
  <2> QED BY <2>1, <2>2, <2>3, QuietIInv DEF Typed
<1> QED BY <1>1, <1>2, <1>3, <1>4, <1>5, <1>6, <1>7 DEF ClientStep

LEMMA UserIInv == IInv /\ UserStep => IInv'
<1> SUFFICES ASSUME IInv, UserStep PROVE IInv'
  OBVIOUS
<1>0. Typed /\ QueueOK /\ PeersOK
  BY DEF IInv, Typed
<1>1. ASSUME NEW c \in dialogs, QueueAck(c) PROVE IInv'
  <2>1. QueueOK'
    <3>1. S_SYSUI_ACK \in States
      BY DEF States, S_NEW, S_SYSUI_ACK, S_FINALIZED
    <3> QED BY <1>0, <1>1, <3>1, EventInStateOk DEF QueueAck, HandlerFrame, QueueOK
  <2>2. TimersOK' /\ rethink' # Never
    BY <1>0, <1>1, RequestFrame DEF QueueAck, HandlerFrame
  <2>3. /\ LoopOK' /\ ClocksOK' /\ ZonesOK' /\ FlagsOK' /\ StatusOK' /\ PeersOK'
        /\ pc' = "idle"
    BY <1>0, <1>1, Frames
       DEF QueueAck, May, HandlerFrame, clockVars, zoneVars, stateVars, statusVars, peerVars
  <2> QED BY <2>1, <2>2, <2>3, AskingIInv DEF Typed
<1>2. ASSUME NEW c \in dialogs, NEW b \in Buttons, NEW p \in BOOLEAN, UserAnswers(c, b, p)
      PROVE  IInv'
  <2>1. PeersOK'
    <3>1. [cookie |-> c, button |-> b, powerup |-> p]
            \in [cookie : 1 .. Cookies, button : Buttons, powerup : BOOLEAN]
      BY <1>0 DEF PeersOK
    <3> QED BY <1>0, <1>2, <3>1 DEF UserAnswers, PeersOK, queueVars
  <2>2. /\ QueueOK' /\ LoopOK' /\ TimersOK' /\ ClocksOK' /\ ZonesOK' /\ FlagsOK' /\ StatusOK'
        /\ pc = "idle" /\ pc' = "idle"
    BY <1>0, <1>2, Frames
       DEF UserAnswers, May, queueVars, timerVars, clockVars, zoneVars, stateVars, statusVars
  <2>3. UNCHANGED <<ev, now, flags, up, rethink>>
    BY <1>2 DEF UserAnswers, clockVars, stateVars, timerVars
  <2> QED BY <2>1, <2>2, <2>3, QuietIInv DEF Typed
<1>3. ASSUME NEW m \in answers, EventAck(m) PROVE IInv'
  <2> DEFINE q == EventInState(m.cookie, S_SYSUI_RSP)
  <2>1. m.button \in Int
    BY <1>0, EnvironmentConstants DEF PeersOK
  <2>2. q \in [DOMAIN ev -> Event] /\ DOMAIN q = DOMAIN ev
    <3>1. S_SYSUI_RSP \in States
      BY DEF States, S_NEW, S_SYSUI_RSP, S_FINALIZED
    <3> QED BY <1>0, <3>1, EventInStateOk
  <2>3. ev' = (IF m.cookie \in DOMAIN q THEN [q EXCEPT ![m.cookie].response = m.button] ELSE q)
    BY <1>3 DEF EventAck
  <2> HIDE DEF q
  <2>4. ev' \in [DOMAIN ev -> Event] /\ DOMAIN ev' = DOMAIN ev
    <3>1. CASE m.cookie \in DOMAIN q
      <4>1. ev' = [q EXCEPT ![m.cookie] = [q[m.cookie] EXCEPT !.response = m.button]]
        BY <2>3, <3>1
      <4>2. [q[m.cookie] EXCEPT !.response = m.button] \in Event
        BY <2>1, <2>2, <3>1 DEF Event
      <4> QED BY <2>2, <4>1, <4>2
    <3>2. CASE m.cookie \notin DOMAIN q
      BY <2>2, <2>3, <3>2
    <3> QED BY <3>1, <3>2
  <2>5. QueueOK'
    BY <1>0, <1>3, <2>4 DEF EventAck, HandlerFrame, QueueOK
  <2>6. FlagsOK' /\ PeersOK'
    BY <1>0, <1>3 DEF EventAck, Typed, FlagsOK, StateFlags, PeersOK
  <2>7. TimersOK' /\ rethink' # Never
    BY <1>0, <1>3, RequestFrame DEF EventAck, HandlerFrame
  <2>8. LoopOK' /\ ClocksOK' /\ ZonesOK' /\ StatusOK' /\ pc' = "idle"
    BY <1>0, <1>3, Frames DEF EventAck, HandlerFrame, clockVars, zoneVars, statusVars
  <2> QED BY <2>5, <2>6, <2>7, <2>8, AskingIInv DEF Typed
<1> QED BY <1>1, <1>2, <1>3 DEF UserStep

(* A handler that sets state flags: the rethink is asked for exactly when  *)
(* they changed.                                                           *)
LEMMA SignalOk ==
  ASSUME IInv, pc = "idle", pc' = "idle", UNCHANGED <<ev, now>>,
         NEW f \in SUBSET StateFlags, NEW u \in SUBSET Services,
         NEW d \in SUBSET Services, SetState3(f, u, d),
         QueueOK', LoopOK', ClocksOK', ZonesOK', StatusOK', PeersOK',
         wakeup' = wakeup, save' = save, limboTimer' \in BOOLEAN
  PROVE  IInv'
<1>1. FlagsOK' /\ TimersOK'
  BY SetState3Ok DEF IInv, Typed, TimersOK
<1>2. rethink' = Never => rethink = Never /\ UNCHANGED <<flags, up>>
  BY SetState3Ok DEF IInv
<1>3. CASE rethink' # Never
  BY <1>1, <1>3, AskingIInv DEF Typed
<1>4. CASE rethink' = Never
  BY <1>1, <1>2, <1>4, QuietIInv DEF Typed
<1> QED BY <1>3, <1>4

LEMMA LimboIInv ==
  ASSUME IInv, LimboDisabled, LimboFrame, pc = "idle"
  PROVE  IInv'
<1>0. /\ Typed /\ flags \in SUBSET StateFlags
      /\ up \in SUBSET Services /\ dn \in SUBSET Services
  BY DEF IInv, Typed, FlagsOK
<1>1. /\ QueueOK' /\ LoopOK' /\ ClocksOK' /\ ZonesOK' /\ StatusOK' /\ PeersOK'
      /\ pc' = "idle" /\ UNCHANGED <<ev, now, wakeup, save>>
  BY <1>0, Frames DEF LimboFrame, queueVars, clockVars, zoneVars, statusVars, peerVars
<1>2. SetState3(flags \cup {"DESKTOP_UP"}, up, dn) /\ limboTimer' \in BOOLEAN
  BY DEF LimboDisabled, SetFlags
<1>3. flags \cup {"DESKTOP_UP"} \in SUBSET StateFlags
  BY <1>0 DEF StateFlags
<1> QED BY <1>0, <1>1, <1>2, <1>3, SignalOk

LEMMA SignalIInv == IInv /\ SignalStep => IInv'
<1> SUFFICES ASSUME IInv, SignalStep PROVE IInv'
  OBVIOUS
<1>0. /\ Typed /\ QueueOK /\ PeersOK /\ ZonesOK /\ Churn \subseteq Services
      /\ flags \in SUBSET StateFlags /\ up \in SUBSET Services /\ dn \in SUBSET Services
      /\ limboTimer \in BOOLEAN
  BY EnvironmentConstants DEF IInv, Typed, FlagsOK, TimersOK
<1>1. ASSUME NEW s \in Churn, NameLost(s) PROVE IInv'
  <2>1. PeersOK'
    <3>1. NoView \in QueueStatus
      BY TimeConstants DEF NoView, Invalidated, EmptyStatus, QueueStatus
    <3>2. views' \in [Listeners -> QueueStatus]
      BY <1>0, <1>1, <3>1 DEF NameLost, PeersOK
    <3>3. /\ dialogs' \in SUBSET (1 .. Cookies) /\ iconShown' \in BOOLEAN
      BY <1>0, <1>1 DEF NameLost, PeersOK
    <3> QED BY <1>0, <1>1, <3>2, <3>3 DEF NameLost, PeersOK
  <2>2. /\ QueueOK' /\ LoopOK' /\ ClocksOK' /\ ZonesOK' /\ StatusOK'
        /\ pc = "idle" /\ pc' = "idle" /\ UNCHANGED <<ev, now, wakeup, save, limboTimer>>
    BY <1>0, <1>1, Frames DEF NameLost, May, HandlerFrame, clockVars, zoneVars, statusVars
  <2>3. SetState3(flags, up \ {s}, dn \cup {s})
    BY <1>1 DEF NameLost
  <2> QED BY <1>0, <2>1, <2>2, <2>3, SignalOk
<1>2. ASSUME NEW s \in Churn, NameGained(s) PROVE IInv'
  <2>1. /\ QueueOK' /\ LoopOK' /\ ClocksOK' /\ ZonesOK' /\ StatusOK' /\ PeersOK'
        /\ pc = "idle" /\ pc' = "idle" /\ UNCHANGED <<ev, now, wakeup, save, limboTimer>>
    BY <1>0, <1>2, Frames
       DEF NameGained, May, HandlerFrame, clockVars, zoneVars, statusVars, peerVars
  <2>2. SetState3(flags, up \cup {s}, dn)
    BY <1>2 DEF NameGained
  <2> QED BY <1>0, <2>1, <2>2, SignalOk
<1>3. ASSUME LimboDisabled, LimboFrame, pc = "idle" PROVE IInv'
  BY <1>3, LimboIInv
<1>4. CASE InitDone
  BY <1>3, <1>4 DEF InitDone, May
<1>5. CASE HildonReady
  BY <1>3, <1>5 DEF HildonReady, May
<1>6. CASE HomeReady
  <2>1. CASE WaitState = "home"
    BY <1>3, <1>6, <2>1 DEF HomeReady, May
  <2>2. CASE WaitState # "home"
    <3>1. /\ QueueOK' /\ LoopOK' /\ ClocksOK' /\ ZonesOK' /\ FlagsOK' /\ StatusOK' /\ PeersOK'
          /\ pc = "idle" /\ pc' = "idle" /\ UNCHANGED <<ev, now, flags, up, rethink, wakeup, save>>
      BY <1>0, <1>6, <2>2, Frames
         DEF HomeReady, May, LimboFrame, queueVars, clockVars, zoneVars, stateVars,
             statusVars, peerVars
    <3>2. TimersOK'
      BY <1>0, <1>6, <2>2, <3>1 DEF HomeReady, Typed, TimersOK
    <3> QED BY <3>1, <3>2, QuietIInv DEF Typed
  <2> QED BY <2>1, <2>2
<1>7. CASE IcdStatus
  <2>1. /\ QueueOK' /\ LoopOK' /\ ClocksOK' /\ ZonesOK' /\ StatusOK' /\ PeersOK'
        /\ pc = "idle" /\ pc' = "idle" /\ UNCHANGED <<ev, now, wakeup, save, limboTimer>>
    BY <1>0, <1>7, Frames
       DEF IcdStatus, May, HandlerFrame, clockVars, zoneVars, statusVars, peerVars
  <2> DEFINE f == (flags \ {"CONNECTED"}) \cup ({"CONNECTED"} \ flags)
  <2>2. SetState3(f, up, dn)
    BY <1>7 DEF IcdStatus
  <2>3. f \in SUBSET StateFlags
    BY <1>0 DEF StateFlags
  <2> HIDE DEF f
  <2> QED BY <1>0, <2>1, <2>2, <2>3, SignalOk
<1>8. ASSUME NEW b \in BOOLEAN, TimeChange(b) PROVE IInv'
  <2> DEFINE f == flags \cup ({"CLK_BCAST"} \cup (IF tz # tzPrev THEN {"TZ_CHANGED"} ELSE {})
                            \cup (IF b THEN {"CLK_CHANGED"} ELSE {}))
  <2>1. /\ QueueOK' /\ LoopOK' /\ ClocksOK' /\ StatusOK' /\ PeersOK'
        /\ pc = "idle" /\ pc' = "idle" /\ UNCHANGED <<ev, now, wakeup, save, limboTimer>>
    BY <1>0, <1>8, Frames
       DEF TimeChange, May, HandlerFrame, clockVars, statusVars, peerVars
  <2>2. ZonesOK'
    BY <1>0, <1>8 DEF TimeChange, ZonesOK
  <2>3. SetState3(f, up, dn)
    BY <1>8 DEF TimeChange, SetFlags
  <2>4. f \in SUBSET StateFlags
    BY <1>0 DEF StateFlags
  <2> HIDE DEF f
  <2> QED BY <1>0, <2>1, <2>2, <2>3, <2>4, SignalOk
<1> QED BY <1>1, <1>2, <1>4, <1>5, <1>6, <1>7, <1>8 DEF SignalStep

LEMMA ClockIInv == IInv /\ ClockStep => IInv'
<1> SUFFICES ASSUME IInv, ClockStep PROVE IInv'
  OBVIOUS
<1>0. Typed
  BY DEF IInv
<1>1. ASSUME ClockFrame, pc = "idle", ClocksOK', ZonesOK' PROVE IInv'
  <2>1. /\ QueueOK' /\ LoopOK' /\ TimersOK' /\ FlagsOK' /\ StatusOK' /\ PeersOK'
        /\ pc' = "idle" /\ UNCHANGED <<ev, now, flags, up, rethink>>
    BY <1>0, <1>1, Frames
       DEF ClockFrame, queueVars, timerVars, stateVars, statusVars, peerVars
  <2> QED BY <1>1, <2>1, QuietIInv DEF Typed
<1>2. CASE Tick
  <2>1. ClocksOK' /\ ZonesOK'
    BY <1>0, <1>2 DEF Tick, ClockFrame, Typed, ClocksOK, ZonesOK, zoneVars
  <2> QED BY <1>1, <1>2, <2>1 DEF Tick
<1>3. ASSUME NEW j \in Jumps, ClockJump(j) PROVE IInv'
  <2>1. ClocksOK' /\ ZonesOK'
    BY <1>0, <1>3, EnvironmentConstants
       DEF ClockJump, ClockFrame, Typed, ClocksOK, ZonesOK, zoneVars
  <2> QED BY <1>1, <1>3, <2>1 DEF ClockJump, May
<1>4. ASSUME NEW z \in Zones, ZoneChange(z) PROVE IInv'
  <2>1. ClocksOK' /\ ZonesOK'
    BY <1>0, <1>4 DEF ZoneChange, ClockFrame, Typed, ClocksOK, ZonesOK
  <2> QED BY <1>1, <1>4, <2>1 DEF ZoneChange, May
<1> QED BY <1>2, <1>3, <1>4 DEF ClockStep

LEMMA ClkBaseOk ==
  ASSUME Typed
  PROVE  ClkBase \in ClkType
<1>1. clk \in ClkType /\ delta \in Int /\ mono \in Int
  BY DEF Typed, ClocksOK, ClkType
<1>2. CASE clk.initialized
  BY <1>1, <1>2 DEF ClkBase
<1>3. CASE ~clk.initialized
  <2>1. ClkBase = [[[[clk EXCEPT !.initialized = TRUE] EXCEPT !.clock = delta]
                     EXCEPT !.sched = delta] EXCEPT !.until = mono]
    <3>1. ClkBase = [clk EXCEPT !.initialized = TRUE, !.clock = delta,
                                !.sched = delta, !.until = mono]
      BY <1>3 DEF ClkBase
    <3>2. clk \in [initialized : BOOLEAN, clock : Int, sched : Int, until : Int,
                   forw : Int, back : Int]
      BY <1>1 DEF ClkType
    <3> QED BY <3>1, <3>2, Zenon
  <2>2. [clk EXCEPT !.initialized = TRUE] \in ClkType
    BY <1>1, ClkFields
  <2>3. [[clk EXCEPT !.initialized = TRUE] EXCEPT !.clock = delta] \in ClkType
    BY <1>1, <2>2, ClkFields
  <2>4. [[[clk EXCEPT !.initialized = TRUE] EXCEPT !.clock = delta]
          EXCEPT !.sched = delta] \in ClkType
    BY <1>1, <2>3, ClkFields
  <2> QED BY <1>1, <2>1, <2>4, ClkFields
<1> QED BY <1>2, <1>3

LEMMA ClkSeenOk ==
  ASSUME Typed
  PROVE  ClkSeen \in ClkType
<1>1. ClkBase \in ClkType /\ delta \in Int /\ mono + CLK_STABLE \in Int
  BY ClkBaseOk, ServerConstants DEF Typed, ClocksOK
<1>2. CASE ClkDetected
  <2>1. ClkSeen = [[ClkBase EXCEPT !.clock = delta] EXCEPT !.until = mono + CLK_STABLE]
    <3>1. ClkSeen = [ClkBase EXCEPT !.clock = delta, !.until = mono + CLK_STABLE]
      BY <1>2 DEF ClkSeen
    <3>2. ClkBase \in [initialized : BOOLEAN, clock : Int, sched : Int, until : Int,
                       forw : Int, back : Int]
      BY <1>1 DEF ClkType
    <3> QED BY <3>1, <3>2, Zenon
  <2>2. [ClkBase EXCEPT !.clock = delta] \in ClkType
    BY <1>1, ClkFields
  <2> QED BY <1>1, <2>1, <2>2, ClkFields
<1>3. CASE ~ClkDetected
  BY <1>1, <1>3 DEF ClkSeen
<1> QED BY <1>2, <1>3

LEMMA StartIInv == IInv /\ RethinkStart => IInv'
<1> SUFFICES ASSUME IInv, RethinkStart PROVE IInv'
  OBVIOUS
<1>0. Typed
  BY DEF IInv
<1> DEFINE moved == ClkSeen.clock - ClkSeen.sched
<1>1. ClkSeen \in ClkType /\ moved \in Int
  BY <1>0, ClkSeenOk DEF ClkType
<1>2. clk' \in ClkType
  <2>1. \/ clk' = [ClkSeen EXCEPT !.sched = @ + moved, !.forw = @ + moved]
        \/ clk' = [ClkSeen EXCEPT !.sched = @ + moved, !.back = @ + moved]
        \/ clk' = ClkSeen
    BY DEF RethinkStart
  <2> DEFINE r == ClkSeen
             a == r.sched + moved
             b == r.forw + moved
             d == r.back + moved
  <2>2. a \in Int /\ b \in Int /\ d \in Int
    BY <1>1 DEF ClkType
  <2>3. \/ clk' = [r EXCEPT !.sched = a, !.forw = b]
        \/ clk' = [r EXCEPT !.sched = a, !.back = d]
        \/ clk' = r
    BY <2>1
  <2> HIDE DEF r, a, b, d, moved
  <2>4. r \in ClkType
    BY <1>1 DEF r
  <2>5. /\ [r EXCEPT !.sched = a, !.forw = b] = [[r EXCEPT !.sched = a] EXCEPT !.forw = b]
        /\ [r EXCEPT !.sched = a, !.back = d] = [[r EXCEPT !.sched = a] EXCEPT !.back = d]
    BY <2>4, Zenon DEF ClkType
  <2>6. [r EXCEPT !.sched = a] \in ClkType
    BY <2>2, <2>4, ClkFields
  <2> QED BY <2>2, <2>3, <2>4, <2>5, <2>6, ClkFields
<1>3. /\ pc' = "new" /\ dirty' = FALSE /\ now' = Wall /\ rethink' = Never /\ save' = FALSE
      /\ UNCHANGED <<ev, queueVars, wakeup, limboTimer, mono, delta, zoneVars, up,
                     dn, statusVars, peerVars>>
  BY DEF RethinkStart
<1>4. /\ QueueOK' /\ ZonesOK' /\ StatusOK' /\ PeersOK'
  BY <1>0, <1>3, Frames DEF queueVars, zoneVars, statusVars, peerVars
<1>5. LoopOK' /\ TimersOK' /\ ClocksOK'
  <2>1. now' \in Int
    BY <1>0, <1>3 DEF Typed, ClocksOK, Wall
  <2>2. LoopOK'
    BY <1>3, <2>1 DEF LoopOK, Places
  <2>3. TimersOK'
    BY <1>0, <1>3 DEF Typed, TimersOK
  <2>4. ClocksOK'
    BY <1>0, <1>2, <1>3 DEF Typed, ClocksOK, ClkType
  <2> QED BY <2>2, <2>3, <2>4
<1>6. FlagsOK'
  <2>1. flags' \subseteq flags \cup {"CLK_MV_FORW", "CLK_MV_BACK"}
    BY DEF RethinkStart
  <2> QED BY <1>0, <1>3, <2>1 DEF Typed, FlagsOK, StateFlags
<1>7. PassInv'
  <2>1. Pos(pc') = 0
    BY <1>3 DEF Pos, S_NEW
  <2>2. \A c \in DOMAIN ev' : ~(ev'[c].state < 0)
    BY <1>4 DEF QueueOK, Event, States, S_NEW, S_FINALIZED
  <2> QED BY <2>1, <2>2 DEF PassInv
<1>8. NoWorkLeftBehind' /\ CleanFinish'
  BY <1>3 DEF NoWorkLeftBehind, CleanFinish, Quiescent
<1> QED BY <1>4, <1>5, <1>6, <1>7, <1>8 DEF IInv, Typed

LEMMA TimerIInv == IInv /\ TimerStep => IInv'
<1> SUFFICES ASSUME IInv, TimerStep PROVE IInv'
  OBVIOUS
<1>0. Typed
  BY DEF IInv
<1>1. NoWakeup \in [time : Int, due : Int]
  BY TimeConstants DEF NoWakeup, Never
<1>2. CASE RethinkUnstable
  <2>1. QueueOK' /\ LoopOK' /\ ZonesOK' /\ PeersOK' /\ pc' = "idle"
    BY <1>0, <1>2, Frames DEF RethinkUnstable, queueVars, zoneVars, peerVars
  <2>2. TimersOK' /\ rethink' # Never
    BY <1>0, <1>1, <1>2 DEF RethinkUnstable, Typed, TimersOK, ClocksOK, Never
  <2>3. ClocksOK'
    <3>1. clk' \in ClkType
      BY <1>0, <1>2, ClkSeenOk DEF RethinkUnstable
    <3> QED BY <1>0, <1>2, <3>1 DEF RethinkUnstable, Typed, ClocksOK, ClkType
  <2>4. FlagsOK' /\ StatusOK'
    BY <1>0, <1>2 DEF RethinkUnstable, Typed, FlagsOK, StateFlags, StatusOK,
                      QueueStatus, Invalidated
  <2> QED BY <2>1, <2>2, <2>3, <2>4, AskingIInv DEF Typed
<1>3. CASE WakeupFires
  <2>1. /\ QueueOK' /\ LoopOK' /\ ClocksOK' /\ ZonesOK' /\ FlagsOK' /\ StatusOK' /\ PeersOK'
        /\ pc' = "idle"
    BY <1>0, <1>3, Frames
       DEF WakeupFires, queueVars, clockVars, zoneVars, stateVars, statusVars, peerVars
  <2>2. TimersOK' /\ rethink' # Never
    BY <1>0, <1>1, <1>3, RequestedOk DEF WakeupFires, RethinkRequest, Typed, TimersOK
  <2> QED BY <2>1, <2>2, AskingIInv DEF Typed
<1>4. CASE SaveFires
  <2>1. /\ QueueOK' /\ LoopOK' /\ ClocksOK' /\ ZonesOK' /\ FlagsOK' /\ StatusOK' /\ PeersOK'
        /\ pc = "idle" /\ pc' = "idle" /\ UNCHANGED <<ev, now, flags, up, rethink>>
    BY <1>0, <1>4, Frames
       DEF SaveFires, queueVars, clockVars, zoneVars, stateVars, statusVars, peerVars
  <2>2. TimersOK'
    BY <1>0, <1>4 DEF SaveFires, ForcedSave, Typed, TimersOK
  <2> QED BY <2>1, <2>2, QuietIInv DEF Typed
<1>5. CASE LimboTimeout
  BY <1>5, LimboIInv DEF LimboTimeout
<1>6. CASE RethinkStart
  BY <1>6, StartIInv
<1> QED BY <1>2, <1>3, <1>4, <1>5, <1>6 DEF TimerStep

-----------------------------------------------------------------------------
LEMMA RethinkIInv == IInv /\ RethinkStep => IInv'
BY NewIInv, WaitconnIInv, TimechangeIInv, QueuedIInv, MissedIInv, PostponedIInv,
   LimboPassIInv, TriggeredIInv, WaitsysuiIInv, SysuiReqIInv, SysuiAckIInv,
   SysuiRspIInv, SnoozedIInv, ServedIInv, RecurringIInv, DeletedIInv, CleanupIInv,
   FinishIInv DEF RethinkStep

LEMMA StutterIInv == IInv /\ UNCHANGED vars => IInv'
<1> SUFFICES ASSUME IInv, UNCHANGED vars PROVE IInv'
  OBVIOUS
<1>1. Typed'
  BY Frames DEF IInv, Typed, vars, queueVars, timerVars, clockVars, zoneVars,
                stateVars, statusVars, peerVars
<1>2. UNCHANGED <<ev, pc, dirty, now, flags, up, rethink>>
  BY DEF vars, clockVars, stateVars, timerVars
<1>3. PassInv' /\ NoWorkLeftBehind' /\ CleanFinish'
  BY <1>2 DEF IInv, PassInv, NoWorkLeftBehind, CleanFinish, Quiescent, Visible,
              Settled, Offline, Needs, Connected, MayLeaveLimbo, SysuiUp
<1> QED BY <1>1, <1>3 DEF IInv

LEMMA InitIInv == Init => IInv
<1> SUFFICES ASSUME Init PROVE IInv
  OBVIOUS
<1>1. QueueOK
  <2>1. ev = NoEvents /\ lastCookie = 0 /\ snooze = DefaultSnooze
    BY DEF Init
  <2>2. DOMAIN ev = {} /\ ev \in [DOMAIN ev -> Event]
    BY <2>1 DEF NoEvents
  <2> QED BY <2>1, <2>2, ServerConstants DEF QueueOK
<1>2. LoopOK /\ ZonesOK
  <2>1. pc = "idle" /\ dirty = FALSE /\ now = 0
    BY DEF Init
  <2>2. tz \in Zones /\ tzCurr = tz /\ tzPrev = tz
    BY DEF Init
  <2>3. pc \in Places /\ now \in Int
    BY <2>1 DEF Places
  <2>4. dirty \in BOOLEAN
    BY <2>1
  <2> QED BY <2>2, <2>3, <2>4 DEF LoopOK, ZonesOK
<1>3. FlagsOK
  BY EnvironmentConstants DEF Init, FlagsOK, StateFlags
<1>4. TimersOK /\ ClocksOK
  <2>1. /\ rethink = 0 /\ wakeup = [time |-> INT_MAX, due |-> Never]
        /\ save = FALSE /\ limboTimer = FALSE /\ mono = 0 /\ delta = 0
        /\ clk = [initialized |-> FALSE, clock |-> 0, sched |-> 0, until |-> 0,
                  forw |-> 0, back |-> 0]
    BY DEF Init, NoWakeup
  <2>2. wakeup \in [time : Int, due : Int]
    BY <2>1, TimeConstants DEF Never
  <2>3. clk \in [initialized : BOOLEAN, clock : Int, sched : Int, until : Int,
                 forw : Int, back : Int]
    BY <2>1
  <2> QED BY <2>1, <2>2, <2>3 DEF TimersOK, ClocksOK
<1>5. StatusOK /\ PeersOK
  <2>1. NoView \in QueueStatus /\ EmptyStatus \in QueueStatus
    BY TimeConstants DEF NoView, EmptyStatus, Invalidated, QueueStatus
  <2>2. StatusOK
    BY <2>1, TimeConstants DEF Init, StatusOK
  <2>3. views \in [Listeners -> QueueStatus]
    BY <2>1 DEF Init
  <2> QED BY <2>2, <2>3 DEF Init, PeersOK
<1>6. PassInv /\ NoWorkLeftBehind /\ CleanFinish
  BY DEF Init, PassInv, NoWorkLeftBehind, CleanFinish, NoEvents
<1> QED BY <1>1, <1>2, <1>3, <1>4, <1>5, <1>6 DEF IInv, Typed

LEMMA Inductive == Spec => []IInv
<1>1. IInv /\ [Next]_vars => IInv'
  BY RethinkIInv, TimerIInv, ClientIInv, UserIInv, SignalIInv, ClockIInv, StutterIInv
     DEF Next
<1> QED BY InitIInv, <1>1, PTL DEF Spec

LEMMA AlwaysTyped == Spec => []Typed
<1>1. IInv => Typed
  BY DEF IInv
<1> QED BY <1>1, Inductive, PTL

(* Dialogs are opened for events of the queue and answers are about        *)
(* dialogs, while the cookie the queue counts from only grows; L are       *)
(* dialogs of someone else, which were there before.                       *)
HandedOutBut(L) ==
  \A c \in (dialogs \cup {m.cookie : m \in answers}) \ L : c <= lastCookie

LEMMA HandedOutStep ==
  ASSUME NEW L
  PROVE  IInv /\ HandedOutBut(L) /\ [Next]_vars => HandedOutBut(L)'
<1> SUFFICES ASSUME IInv, HandedOutBut(L), [Next]_vars PROVE HandedOutBut(L)'
  OBVIOUS
<1>0. /\ lastCookie \in Int /\ DOMAIN ev \subseteq 1 .. lastCookie
      /\ \A c \in dialogs : c \in Int /\ (c \notin L => c <= lastCookie)
      /\ \A m \in answers : m.cookie \in Int /\ (m.cookie \notin L => m.cookie <= lastCookie)
  BY DEF IInv, Typed, QueueOK, PeersOK, HandedOutBut
<1>1. ASSUME lastCookie' \in Int, lastCookie <= lastCookie',
             dialogs' \subseteq dialogs \cup DOMAIN ev, answers' \subseteq answers
      PROVE  HandedOutBut(L)'
  BY <1>0, <1>1 DEF HandedOutBut
<1>2. CASE UNCHANGED <<lastCookie, peerVars>>
  BY <1>0, <1>1, <1>2 DEF peerVars
<1>3. ASSUME RethinkStep PROVE HandedOutBut(L)'
  <2>1. CASE RethinkWaitsysui
    <3>1. InState(S_WAITSYSUI) \subseteq DOMAIN ev
      BY DEF InState
    <3> QED BY <2>1, <3>1, <1>0, <1>1
            DEF RethinkWaitsysui, Phase, PassOver, AddDialogs, queueVars
  <2>2. CASE RethinkDeleted
    BY <2>2, <1>0, <1>1 DEF RethinkDeleted, Phase, PassOver, CancelDialogs, queueVars
  <2>3. CASE RethinkFinish
    BY <2>3, <1>0, <1>1 DEF RethinkFinish, queueVars
  <2>4. CASE ~(RethinkWaitsysui \/ RethinkDeleted \/ RethinkFinish)
    <3>1. UNCHANGED <<lastCookie, peerVars>>
      BY <2>4, <1>3 DEF RethinkStep, RethinkNew, RethinkWaitconn, RethinkTimechange,
         RethinkQueued, RethinkMissed, RethinkPostponed, RethinkLimbo, RethinkTriggered,
         RethinkSysuiReq, RethinkSysuiAck, RethinkSysuiRsp, RethinkSnoozed,
         RethinkServed, RethinkRecurring, RethinkCleanup, Phase, PassOver, queueVars
    <3> QED BY <1>2, <3>1
  <2> QED BY <2>1, <2>2, <2>3, <2>4
<1>4. ASSUME TimerStep \/ ClockStep PROVE HandedOutBut(L)'
  BY <1>4, <1>2 DEF TimerStep, ClockStep, RethinkUnstable, RethinkStart, WakeupFires,
     SaveFires, LimboTimeout, LimboFrame, Tick, ClockJump, ZoneChange, ClockFrame,
     queueVars
<1>5. ASSUME ClientStep PROVE HandedOutBut(L)'
  <2>1. ASSUME NEW q, NEW k, Insert(q, k), UNCHANGED peerVars PROVE HandedOutBut(L)'
    BY <2>1, <1>0, <1>1 DEF Insert, peerVars
  <2>2. ASSUME UNCHANGED lastCookie, UNCHANGED peerVars PROVE HandedOutBut(L)'
    BY <2>2, <1>2
  <2> QED BY <1>5, <2>1, <2>2 DEF ClientStep, EventAdd, EventUpdate, EventDel, SnoozeSet,
             ClearUserData, RestoreFactorySettings, SaveData, queueVars
<1>6. ASSUME UserStep PROVE HandedOutBut(L)'
  <2>1. ASSUME NEW c \in dialogs, QueueAck(c) PROVE HandedOutBut(L)'
    BY <2>1, <1>2 DEF QueueAck
  <2>2. ASSUME NEW c \in dialogs, NEW b, NEW p, UserAnswers(c, b, p) PROVE HandedOutBut(L)'
    <3>1. /\ lastCookie' = lastCookie /\ dialogs' \subseteq dialogs
          /\ answers' = answers \cup {[cookie |-> c, button |-> b, powerup |-> p]}
      BY <2>2 DEF UserAnswers, queueVars
    <3> QED BY <3>1, <1>0 DEF HandedOutBut
  <2>3. ASSUME NEW m \in answers, EventAck(m) PROVE HandedOutBut(L)'
    BY <2>3, <1>0, <1>1 DEF EventAck
  <2> QED BY <1>6, <2>1, <2>2, <2>3 DEF UserStep
<1>7. ASSUME SignalStep PROVE HandedOutBut(L)'
  <2>1. ASSUME NEW s, NameLost(s) PROVE HandedOutBut(L)'
    <3>1. lastCookie' = lastCookie /\ dialogs' \subseteq dialogs /\ answers' = answers
      BY <2>1 DEF NameLost
    <3> QED BY <3>1, <1>0, <1>1
  <2>2. ASSUME ~\E s \in Churn : NameLost(s) PROVE HandedOutBut(L)'
    <3>1. ASSUME NEW s, NameGained(s) PROVE HandedOutBut(L)'
      BY <3>1, <1>2 DEF NameGained
    <3>2. ASSUME NEW b, TimeChange(b) PROVE HandedOutBut(L)'
      BY <3>2, <1>2 DEF TimeChange
    <3>3. ASSUME LimboFrame \/ IcdStatus PROVE HandedOutBut(L)'
      BY <3>3, <1>2 DEF LimboFrame, IcdStatus, queueVars
    <3> QED BY <1>7, <2>2, <3>1, <3>2, <3>3
            DEF SignalStep, InitDone, HildonReady, HomeReady
  <2> QED BY <2>1, <2>2
<1> QED BY <1>2, <1>3, <1>4, <1>5, <1>6, <1>7 DEF Next, vars, queueVars

LEMMA AlwaysHandedOut == Spec => [](IInv /\ HandedOut)
<1>1. Init => HandedOut
  BY DEF Init, HandedOut
<1>2. IInv /\ HandedOut /\ [Next]_vars => HandedOut'
  <2>1. (HandedOut <=> HandedOutBut({})) /\ (HandedOut <=> HandedOutBut({}))'
    BY DEF HandedOut, HandedOutBut
  <2> QED BY <2>1, HandedOutStep
<1> QED BY <1>1, <1>2, Inductive, PTL DEF Spec

(* Every reachable state of the daemon and its peers is well typed.        *)
THEOREM TypeCorrect == Spec => []TypeOK
<1>1. IInv /\ HandedOut => TypeOK
  BY DEF IInv, TypeOK
<1> QED BY <1>1, AlwaysHandedOut, PTL

(* Each pass of the loop settles what it has gone past, or is repeated.    *)
THEOREM PassesSettle == Spec => []PassInv
<1>1. IInv => PassInv
  BY DEF IInv
<1> QED BY <1>1, Inductive, PTL

(* A daemon at rest has no event its state machine could move, for any     *)
(* number of events of any kind and any timing of requests, answers,       *)
(* signals, timers and clock changes.                                      *)
THEOREM NothingLeftBehind == Spec => []NoWorkLeftBehind
<1>1. IInv => NoWorkLeftBehind
  BY DEF IInv
<1> QED BY <1>1, Inductive, PTL
=============================================================================
