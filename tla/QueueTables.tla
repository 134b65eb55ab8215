---------------------------- MODULE QueueTables -----------------------------
(***************************************************************************)
(* The two tables of the queue, sorted by cookie and by trigger, searched  *)
(* by bisection and kept sorted by shifting (queue.c).  A table is a        *)
(* sequence of cookies; events gives the event of a cookie.  Slots count   *)
(* from 0, as in the code.                                                 *)
(***************************************************************************)
EXTENDS Integers, Sequences, SequencesExt

(* queue_cmp_event_trigger: the next to trigger is last, and of two at the *)
(* same time the older.  Does (c, t) come before the entry (d, u)?         *)
TriggerBefore(c, t, d, u) == t > u \/ (t = u /\ c > d)

(* The bisection of both tables: the first of n slots that is not in before. *)
FirstSlot(n, before) ==
  LET slot[w \in (0 .. n) \X (0 .. n)] ==
        LET l == w[1]  h == w[2]  i == (l + h) \div 2
        IN IF l >= h THEN l
           ELSE IF i \in before THEN slot[<<i + 1, h>>] ELSE slot[<<l, i>>]
  IN slot[<<0, n>>]

(* queue_get_trigger_slot.                                                 *)
TriggerSlot(byTrigger, events, cookie, trigger) ==
  FirstSlot(Len(byTrigger),
            {i \in 0 .. Len(byTrigger) - 1 :
               LET c == byTrigger[i + 1]
               IN TriggerBefore(c, events[c].trigger, cookie, trigger)})

(* queue_get_cookie_slot.                                                  *)
CookieSlot(byCookie, cookie) ==
  FirstSlot(Len(byCookie), {i \in 0 .. Len(byCookie) - 1 : byCookie[i + 1] < cookie})

(* queue_get_event: the place of the event, 0 if there is none.            *)
EventPlace(byCookie, cookie) ==
  LET n == Len(byCookie)
      found[w \in (0 .. n) \X (0 .. n)] ==
        LET l == w[1]  h == w[2]  i == (l + h) \div 2
        IN IF l >= h THEN 0
           ELSE IF byCookie[i + 1] < cookie THEN found[<<i + 1, h>>]
           ELSE IF byCookie[i + 1] > cookie THEN found[<<l, i>>] ELSE i + 1
  IN found[<<0, n>>]

HasEvent(byCookie, cookie) == EventPlace(byCookie, cookie) # 0

(* The shifting in queue_event_set_trigger: what is at slot ti goes to the *)
(* slot found for its new trigger, and what is between makes room.         *)
(* Mistake: the slot is not corrected for the place that is left.          *)
ShiftedTo(tab, ti, to) ==
  [i \in DOMAIN tab |->
     CASE i = to + 1                      -> tab[ti + 1]
       [] to < ti /\ i > to + 1 /\ i <= ti + 1 -> tab[i - 1]
       [] to > ti /\ i > ti /\ i < to + 1      -> tab[i + 1]
       [] OTHER                           -> tab[i]]

ShiftedPast(tab, ti, slot) == ShiftedTo(tab, ti, IF slot < Len(tab) THEN slot ELSE slot - 1)

Shifted(tab, ti, slot) == ShiftedTo(tab, ti, IF slot <= ti THEN slot ELSE slot - 1)

(* queue_query_events looks at the alarms in the order of their triggers   *)
(* and stops at the first that is too late; a limit that is not positive   *)
(* is none.                                                                *)
Early(event, lo) == lo > 0 /\ event.trigger < lo
Late(event, hi)  == hi > 0 /\ event.trigger > hi

(* Mistake: one that is too early ends the search as well.                 *)
QueryStopping(byTrigger, events, lo, hi) ==
  LET next == SelectSeq(Reverse(byTrigger), LAMBDA c : events[c].state # "DELETED")
      stop == SelectInSeq(next, LAMBDA c : Late(events[c], hi) \/ Early(events[c], lo))
  IN IF stop = 0 THEN next ELSE SubSeq(next, 1, stop - 1)

Query(byTrigger, events, lo, hi) ==
  LET next == SelectSeq(Reverse(byTrigger), LAMBDA c : /\ events[c].state # "DELETED"
                                                      /\ ~Early(events[c], lo))
      late == SelectInSeq(next, LAMBDA c : Late(events[c], hi))
  IN IF late = 0 THEN next ELSE SubSeq(next, 1, late - 1)

(* Conditions a client may add to a query.                                 *)
QueryFor(byTrigger, events, q) ==
  SelectSeq(Query(byTrigger, events, q.lo, q.hi),
            LAMBDA c : /\ events[c].flags \cap q.mask = q.flags
                       /\ q.appid \in {<< >>, events[c].appid})

(* queue_cleanup_deleted: both tables lose the same events, each in a loop. *)
Kept(tab, events) ==
  LET kept[i \in 0 .. Len(tab)] ==
        IF i = 0 THEN << >>
        ELSE IF events[tab[i]].state \in {"DELETED", "FINALIZED"} THEN kept[i - 1]
        ELSE Append(kept[i - 1], tab[i])
  IN kept[Len(tab)]
=============================================================================
