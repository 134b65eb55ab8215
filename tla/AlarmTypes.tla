----------------------------- MODULE AlarmTypes -----------------------------
(***************************************************************************)
(* Alarm events as alarmd keeps them: the states of states.inc, the record *)
(* of one event, the state filter of queue.c, the actions an event may     *)
(* carry and the arithmetic that computes trigger times.  Times are whole  *)
(* seconds.  Everything here is a pure function of its arguments.          *)
(***************************************************************************)
EXTENDS Integers, Sequences

CONSTANTS
  INT_MAX,       (* "no time": every real trigger is below it             *)
  SERVER_MISSED_LIMIT, (* lateness still on time, 59 s in the code      *)
  Day,           (* 24 * 60 * 60 in the code                              *)
  MinSnooze,     (* the 10 s floor of server_event_get_snooze             *)
  BackLimit      (* the 5 min tolerance of the no-move-backwards rule     *)

ASSUME TimeConstants ==
  /\ INT_MAX \in Nat
  /\ SERVER_MISSED_LIMIT \in Nat
  /\ Day \in Nat \ {0}
  /\ MinSnooze \in Nat \ {0}
  /\ BackLimit \in Nat

(***************************************************************************)
(* states.inc.  The numeric order is part of the program: a transition to  *)
(* a lower state is what makes the rethink loop run once more.             *)
(***************************************************************************)
S_NEW       == 0
S_WAITCONN  == 1
S_QUEUED    == 2
S_MISSED    == 3
S_POSTPONED == 4
S_LIMBO     == 5
S_TRIGGERED == 6
S_WAITSYSUI == 7
S_SYSUI_REQ == 8
S_SYSUI_ACK == 9
S_SYSUI_RSP == 10
S_SNOOZED   == 11
S_SERVED    == 12
S_RECURRING == 13
S_DELETED   == 14
S_FINALIZED == 15

States == S_NEW .. S_FINALIZED

-----------------------------------------------------------------------------
(* What the client asks for; alarmd never changes it.                      *)

EventFlags == {"CONNECTED", "ACTDEAD", "BOOT", "SHOW_ICON", "RUN_DELAYED",
               "POSTPONE_DELAYED", "DISABLE_DELAYED", "BACK_RESCHEDULE",
               "DISABLED"}

(* An action of the event: when it is done, which of its effects are       *)
(* visible to alarmd (dbus and exec effects leave the daemon), and         *)
(* whether it has a button label.                                          *)
When == {"QUEUED", "DELAYED", "TRIGGERED", "DISABLED", "RESPONDED", "DELETED"}
What == {"SNOOZE", "DISABLE"}
Action == [when : SUBSET When, what : SUBSET What, label : BOOLEAN]

(* How the first trigger is given: "abs" is alarm_time; "date" a fully     *)
(* qualified and "daily" a partly filled alarm_tm; "now" none of them.     *)
(* mask is the time of day of a recurrence_tab entry, -1 for no entry.     *)
Kind == [flags : SUBSET EventFlags, acts : Seq(Action), snooze : Nat,
         recur : Nat, mask : Int, count : Int,
         how : {"abs", "date", "daily", "now"}, at : Int]

Event == [kind : Kind, state : States, disabled : BOOLEAN, trigger : Int,
          snoozed : Int, count : Int, response : Int]

(* An event as event_add and event_update put it in the queue.             *)
FreshEvent(k, t) ==
  [kind |-> k, state |-> S_NEW, disabled |-> "DISABLED" \in k.flags,
   trigger |-> t, snoozed |-> 0, count |-> k.count, response |-> -1]

(* queue_query_by_state and the counters skip disabled events.             *)
Visible(e) == ~e.disabled

IsRecurring(e) == e.count # 0 /\ (e.kind.recur > 0 \/ e.kind.mask >= 0)

ActionsOf(e) == {e.kind.acts[i] : i \in DOMAIN e.kind.acts}

HasButtons(e) ==
  \E a \in ActionsOf(e) : a.label /\ "RESPONDED" \in a.when

-----------------------------------------------------------------------------
(***************************************************************************)
(* A cell is an event being processed together with the mark it leaves on  *)
(* queue_dirty.                                                            *)
(***************************************************************************)
Cell(e) == [e |-> e, d |-> FALSE]

(* The filter of queue_event_set_state: acknowledgements and responses     *)
(* count only for events whose dialog was requested.                       *)
Admits(previous, state) ==
  CASE state = S_SYSUI_ACK -> previous = S_SYSUI_REQ
    [] state = S_SYSUI_RSP -> previous \in {S_SYSUI_REQ, S_SYSUI_ACK}
    [] OTHER -> TRUE

(* Mistake: a move back to S_NEW leaves no mark.                           *)
DirtyingBelow(previous, current) == current < previous /\ current # S_NEW

Dirtying(previous, current) ==
  previous # current /\ (current = S_NEW \/ current < previous)

SetState(x, state) ==
  IF Admits(x.e.state, state)
  THEN [e |-> [x.e EXCEPT !.state = state],
        d |-> x.d \/ Dirtying(x.e.state, state)]
  ELSE x

SetTrigger(x, t) == [e |-> [x.e EXCEPT !.trigger = t], d |-> TRUE]

(* An event with ALARM_EVENT_DISABLED set is invisible to the loop.        *)
Disabled(x) == [e |-> [x.e EXCEPT !.disabled = TRUE], d |-> x.d]

(* server_action_do_all over a set of actions: a snooze action changes the *)
(* state, a disable action hides the event from the state machine.         *)
DoActions(x, A) ==
  LET y == IF \E a \in A : "SNOOZE" \in a.what
           THEN SetState(x, S_SNOOZED) ELSE x
  IN  IF \E a \in A : "DISABLE" \in a.what THEN Disabled(y) ELSE y

DoStateActions(x, when) ==
  DoActions(x, {a \in ActionsOf(x.e) : when \in a.when})

(* The response is the index of the pressed button in action_tab; it is    *)
(* ignored when it is no action or one that is not bound to responses.     *)
DoResponseActions(x) ==
  DoActions(x, {a \in ActionsOf(x.e) :
                  /\ "RESPONDED" \in a.when
                  /\ \E i \in DOMAIN x.e.kind.acts :
                       x.e.response = i - 1 /\ a = x.e.kind.acts[i]})

-----------------------------------------------------------------------------
(* Mistake: neither default nor floor for an event without a snooze time.  *)
SnoozeOfEvent(e, default) == e.kind.snooze

SnoozeOf(e, default) ==
  LET s == IF e.kind.snooze = 0 THEN default ELSE e.kind.snooze
  IN  IF s < MinSnooze THEN MinSnooze ELSE s

(* Mistake: periods counted from the moment instead of the base.           *)
BumpFromTarget(base, skip, target) == target + skip

(* server_bump_time: base + skip * N, past target.                         *)
BumpTime(base, skip, target) ==
  IF target < base
  THEN LET add == (base - target) % skip
       IN  target + (IF add # 0 THEN add ELSE skip)
  ELSE (target + skip) - ((target - base) % skip)

(* alarm_recur_align for a mask that selects one time of day: the first    *)
(* moment, not before t, that has this time of day in zone tz.             *)
AlignDaily(t, tod, tz) == t + ((tod - (t + tz)) % Day)

(* The time given by the client, before recurrence is considered.          *)
BaseTime(k, t0, tz) ==
  CASE k.how = "date"  -> k.at - tz
    [] k.how = "daily" -> AlignDaily(t0, k.at, tz)
    [] OTHER -> t0

(* server_event_get_next_trigger at time t0, t1 <= 0 for "not absolute".   *)
NextTrigger(t0, t1, e, tz) ==
  LET k == e.kind
      b == IF t1 > 0 THEN t1 ELSE BaseTime(k, t0, tz)
  IN  CASE IsRecurring(e) /\ k.recur > 0 /\ b <= t0 -> BumpTime(b, k.recur, t0)
        [] IsRecurring(e) /\ k.recur = 0 ->
             AlignDaily(IF b < t0 THEN t0 ELSE b, k.mask, tz)
        [] OTHER -> b

(* server_event_evaluate_initial_trigger: alarm_time is used when it is    *)
(* set, that is for "abs" kinds only.                                      *)
InitialTrigger(k, t0, tz) ==
  NextTrigger(t0, IF k.how = "abs" THEN k.at ELSE 0, FreshEvent(k, 0), tz)

Lowest(S, m) == m \in S /\ \A x \in S : m <= x

MinOf(a, b) == IF a < b THEN a ELSE b
MaxOf(a, b) == IF a > b THEN a ELSE b
=============================================================================
