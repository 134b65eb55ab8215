------------------------- MODULE AlarmClientsProofs -------------------------
(***************************************************************************)
(* The two tables of the queue hold the same events in their two orders,   *)
(* whatever the applications ask for and however often the daemon saves,   *)
(* restarts and moves alarms.  Text comes back from the file as it was     *)
(* written, but for the white space around it; so the actions of an alarm  *)
(* keep what the library has checked, in messages, queue and file.         *)
(***************************************************************************)
EXTENDS AlarmClients, QueueTablesProofs, FiniteSetTheorems

-----------------------------------------------------------------------------
(* One queue.                                                              *)

(* As much of an event as the tables depend on.                            *)
IsEvent(e) ==
  /\ {"cookie", "trigger", "state", "acts"} \subseteq DOMAIN e
  /\ e.cookie \in Nat /\ e.trigger \in Int /\ e.state \in {"NEW", "DELETED"}

IsQueue(q) ==
  /\ DOMAIN q = {"events", "byCookie", "byTrigger", "cookie", "snooze"}
  /\ q.cookie \in Nat /\ q.snooze \in 1 .. MAX_SNOOZE
  /\ q.byCookie \in Seq(Nat) /\ q.byTrigger \in Seq(Nat)
  /\ \A c \in DOMAIN q.events :
       IsEvent(q.events[c]) /\ q.events[c].cookie = c /\ c \in 1 .. q.cookie

Agree(q) ==
  /\ \A c : c \in DOMAIN q.events <=> Holds(q.byCookie, c)
  /\ \A c : c \in DOMAIN q.events <=> Holds(q.byTrigger, c)
  /\ CookieSorted(q.byCookie)
  /\ TriggerSorted(q.byTrigger, q.events)

(* The events of p that q has as well have the actions they have in q.     *)
SameActs(q, p) ==
  \A c \in DOMAIN q.events : c \in DOMAIN p.events /\ q.events[c].acts = p.events[c].acts

LEMMA SnoozeRange == MAX_SNOOZE \in Nat /\ QUEUE_SNOOZE_DEFAULT \in 1 .. MAX_SNOOZE
<1>1. 24 * 60 * 60 = 86400
  OBVIOUS
<1> QED BY <1>1 DEF MAX_SNOOZE, QUEUE_SNOOZE_DEFAULT

LEMMA KnownTriggers ==
  ASSUME NEW q, IsQueue(q), Agree(q)
  PROVE  TriggersKnown(q.byTrigger, q.events)
<1> SUFFICES ASSUME NEW i \in DOMAIN q.byTrigger
             PROVE  At(q.events, q.byTrigger[i]) \in Int
  BY DEF TriggersKnown
<1>1. q.byTrigger[i] \in DOMAIN q.events
  BY DEF Agree, Holds
<1> QED BY <1>1 DEF IsQueue, IsEvent, At

(* queue_insert_event, of an event that is not there yet.                  *)
LEMMA InsertAgrees ==
  ASSUME NEW q, IsQueue(q), Agree(q),
         NEW e, IsEvent(e), e.cookie \in 1 .. q.cookie, e.cookie \notin DOMAIN q.events
  PROVE  /\ IsQueue(Insert(q, e)) /\ Agree(Insert(q, e))
         /\ DOMAIN Insert(q, e).events = DOMAIN q.events \cup {e.cookie}
         /\ Insert(q, e).events[e.cookie] = e
         /\ \A d \in DOMAIN q.events : Insert(q, e).events[d] = q.events[d]
         /\ Insert(q, e).cookie = q.cookie
<1> DEFINE r == Insert(q, e)
           c == e.cookie
           byCookie == InsertAt(q.byCookie, CookieSlot(q.byCookie, c) + 1, c)
           byTrigger == InsertAt(q.byTrigger,
                                 TriggerSlot(q.byTrigger, q.events, c, e.trigger) + 1, c)
           events == [d \in DOMAIN q.events \cup {c} |-> IF d = c THEN e ELSE q.events[d]]
<1>1. /\ DOMAIN r = DOMAIN q
      /\ r.events = events /\ r.byCookie = byCookie /\ r.byTrigger = byTrigger
      /\ r.cookie = q.cookie /\ r.snooze = q.snooze
  <2> HIDE DEF events, byCookie, byTrigger
  <2>1. r = [q EXCEPT !.events = events, !.byCookie = byCookie, !.byTrigger = byTrigger]
    BY DEF Insert, events, byCookie, byTrigger
  <2> HIDE DEF r
  <2> QED BY <2>1 DEF IsQueue
<1>2. /\ DOMAIN events = DOMAIN q.events \cup {c}
      /\ events[c] = e
      /\ \A d \in DOMAIN q.events : events[d] = q.events[d]
  OBVIOUS
<1> HIDE DEF r, events
<1>3. /\ q.byCookie \in Seq(Nat) /\ q.byTrigger \in Seq(Nat)
      /\ c \in Nat /\ e.trigger \in Int /\ c \in 1 .. q.cookie
  BY DEF IsQueue, IsEvent
<1>4. /\ byCookie \in Seq(Nat) /\ CookieSorted(byCookie)
      /\ \A d : Holds(byCookie, d) <=> d = c \/ Holds(q.byCookie, d)
  <2>1. CookieSorted(q.byCookie) /\ ~Holds(q.byCookie, c)
    BY DEF Agree
  <2> QED BY <1>3, <2>1, CookieInserted
<1>5. /\ byTrigger \in Seq(Nat) /\ TriggerSorted(byTrigger, events)
      /\ \A d : Holds(byTrigger, d) <=> d = c \/ Holds(q.byTrigger, d)
  <2>1. /\ TriggerSorted(q.byTrigger, q.events) /\ ~Holds(q.byTrigger, c)
        /\ TriggersKnown(q.byTrigger, q.events)
    BY KnownTriggers DEF Agree
  <2>2. At(events, c) = e.trigger
    BY <1>2 DEF At
  <2>3. \A d : Holds(q.byTrigger, d) => At(events, d) = At(q.events, d)
    BY <1>2 DEF At, Agree
  <2> QED BY <1>3, <2>1, <2>2, <2>3, TriggerInserted
<1> HIDE DEF byCookie, byTrigger
<1>6. IsQueue(r)
  BY <1>1, <1>2, <1>3, <1>4, <1>5 DEF IsQueue
<1>7. Agree(r)
  BY <1>1, <1>2, <1>4, <1>5 DEF Agree
<1> QED BY <1>1, <1>2, <1>6, <1>7 DEF r

(* queue_add_event.                                                        *)
LEMMA AddAgrees ==
  ASSUME NEW q, IsQueue(q), Agree(q),
         NEW e, IsEvent(e), e.cookie \notin DOMAIN q.events
  PROVE  LET r == AddEvent(q, e)
             c == IF e.cookie = 0 THEN q.cookie + 1 ELSE e.cookie
         IN  /\ IsQueue(r) /\ Agree(r) /\ DOMAIN r.events = DOMAIN q.events \cup {c}
             /\ r.events[c].acts = e.acts
             /\ \A d \in DOMAIN q.events : r.events[d] = q.events[d]
<1>1. CASE e.cookie = 0
  <2> DEFINE p == [q EXCEPT !.cookie = @ + 1]
             f == [e EXCEPT !.cookie = q.cookie + 1]
  <2>1. AddEvent(q, e) = Insert(p, f)
    BY <1>1 DEF AddEvent
  <2>2. /\ DOMAIN p = DOMAIN q /\ p.cookie = q.cookie + 1 /\ p.events = q.events
        /\ p.snooze = q.snooze /\ p.byCookie = q.byCookie /\ p.byTrigger = q.byTrigger
    BY DEF IsQueue
  <2>3. /\ DOMAIN f = DOMAIN e /\ f.cookie = q.cookie + 1 /\ f.trigger = e.trigger
        /\ f.state = e.state /\ f.acts = e.acts
    BY DEF IsEvent
  <2> HIDE DEF p, f
  <2>4. IsQueue(p) /\ Agree(p)
    BY <2>2 DEF IsQueue, Agree
  <2>5. IsEvent(f) /\ f.cookie \in 1 .. p.cookie /\ f.cookie \notin DOMAIN p.events
    BY <2>2, <2>3 DEF IsEvent, IsQueue
  <2> QED BY <1>1, <2>1, <2>2, <2>3, <2>4, <2>5, InsertAgrees
<1>2. CASE e.cookie # 0
  <2> DEFINE p == [q EXCEPT !.cookie = IF @ < e.cookie THEN e.cookie ELSE @]
  <2>1. AddEvent(q, e) = Insert(p, e)
    BY <1>2 DEF AddEvent
  <2>2. /\ DOMAIN p = DOMAIN q /\ p.events = q.events /\ p.snooze = q.snooze
        /\ p.cookie = IF q.cookie < e.cookie THEN e.cookie ELSE q.cookie
        /\ p.byCookie = q.byCookie /\ p.byTrigger = q.byTrigger
    BY DEF IsQueue
  <2> HIDE DEF p
  <2>3. /\ p.cookie \in Nat /\ e.cookie \in 1 .. p.cookie
        /\ \A c \in 1 .. q.cookie : c \in 1 .. p.cookie
    BY <1>2, <2>2 DEF IsEvent, IsQueue
  <2>4. IsQueue(p) /\ Agree(p)
    BY <2>2, <2>3 DEF IsQueue, Agree
  <2> QED BY <1>2, <2>1, <2>2, <2>3, <2>4, InsertAgrees
<1> QED BY <1>1, <1>2

(* queue_del_event marks an event; the tables stay as they are.            *)
LEMMA DelAgrees ==
  ASSUME NEW q, IsQueue(q), Agree(q), NEW cookie \in Nat
  PROVE  /\ IsQueue(DelEvent(q, cookie)) /\ Agree(DelEvent(q, cookie))
         /\ SameActs(DelEvent(q, cookie), q)
<1>1. CASE ~HasEvent(q.byCookie, cookie)
  BY <1>1 DEF DelEvent, SameActs
<1>2. CASE HasEvent(q.byCookie, cookie)
  <2> DEFINE r == DelEvent(q, cookie)
             events == [q.events EXCEPT ![cookie] = [@ EXCEPT !.state = "DELETED"]]
  <2>1. r = [q EXCEPT !.events = events]
    BY <1>2 DEF DelEvent
  <2>2. /\ DOMAIN r = DOMAIN q /\ r.events = events /\ r.cookie = q.cookie
        /\ r.snooze = q.snooze /\ r.byCookie = q.byCookie /\ r.byTrigger = q.byTrigger
    <3> HIDE DEF r, events
    <3> QED BY <2>1 DEF IsQueue
  <2>3. /\ DOMAIN events = DOMAIN q.events
        /\ \A c \in DOMAIN q.events :
             /\ IsEvent(events[c]) /\ events[c].cookie = q.events[c].cookie
             /\ events[c].trigger = q.events[c].trigger
             /\ events[c].acts = q.events[c].acts
    BY DEF IsQueue, IsEvent
  <2> HIDE DEF r, events
  <2>4. IsQueue(r)
    BY <2>2, <2>3 DEF IsQueue
  <2>5. TriggerSorted(q.byTrigger, events)
    <3>1. \A i \in DOMAIN q.byTrigger : q.byTrigger[i] \in DOMAIN q.events
      BY DEF Agree, Holds
    <3>2. \A i \in DOMAIN q.byTrigger :
            At(events, q.byTrigger[i]) = At(q.events, q.byTrigger[i])
      BY <2>3, <3>1 DEF At
    <3> QED BY <3>2 DEF Agree, TriggerSorted
  <2>6. Agree(r)
    BY <2>2, <2>3, <2>5 DEF Agree
  <2>7. SameActs(r, q)
    BY <2>2, <2>3 DEF SameActs
  <2> QED BY <2>4, <2>6, <2>7 DEF r
<1> QED BY <1>1, <1>2

(* queue_event_set_trigger.                                                *)
LEMMA SetTriggerAgrees ==
  ASSUME NEW q, IsQueue(q), Agree(q), NEW cookie \in DOMAIN q.events, NEW trigger \in Int
  PROVE  /\ IsQueue(SetTrigger(q, cookie, trigger)) /\ Agree(SetTrigger(q, cookie, trigger))
         /\ SameActs(SetTrigger(q, cookie, trigger), q)
<1> DEFINE r == SetTrigger(q, cookie, trigger)
           events == [q.events EXCEPT ![cookie] = [@ EXCEPT !.trigger = trigger]]
           ti == TriggerSlot(q.byTrigger, q.events, cookie, q.events[cookie].trigger)
           to == TriggerSlot(q.byTrigger, q.events, cookie, trigger)
           byTrigger == Shifted(q.byTrigger, ti, to)
<1>1. r = [q EXCEPT !.events = events, !.byTrigger = byTrigger]
  BY DEF SetTrigger
<1>2. /\ DOMAIN r = DOMAIN q /\ r.events = events /\ r.cookie = q.cookie
      /\ r.snooze = q.snooze /\ r.byCookie = q.byCookie /\ r.byTrigger = byTrigger
  <2> HIDE DEF r, events, byTrigger
  <2> QED BY <1>1 DEF IsQueue
<1>3. /\ DOMAIN events = DOMAIN q.events
      /\ \A c \in DOMAIN q.events :
           /\ IsEvent(events[c]) /\ events[c].cookie = q.events[c].cookie
           /\ c # cookie => events[c] = q.events[c]
           /\ events[c].acts = q.events[c].acts
      /\ events[cookie].trigger = trigger
  BY DEF IsQueue, IsEvent
<1> HIDE DEF r, events
<1>4. /\ byTrigger \in Seq(Nat) /\ TriggerSorted(byTrigger, events)
      /\ \A c : Holds(byTrigger, c) <=> Holds(q.byTrigger, c)
  <2>1. /\ q.byTrigger \in Seq(Nat) /\ TriggerSorted(q.byTrigger, q.events)
        /\ TriggersKnown(q.byTrigger, q.events) /\ Holds(q.byTrigger, cookie)
    BY KnownTriggers DEF Agree, IsQueue
  <2>2. At(events, cookie) = trigger
    BY <1>3 DEF At
  <2>3. \A c : Holds(q.byTrigger, c) /\ c # cookie => At(events, c) = At(q.events, c)
    BY <1>3 DEF At, Agree
  <2>4. ti = TriggerSlot(q.byTrigger, q.events, cookie, At(q.events, cookie))
    BY DEF At
  <2> QED BY <2>1, <2>2, <2>3, <2>4, TriggerMoved
<1> HIDE DEF byTrigger
<1>5. IsQueue(r)
  BY <1>2, <1>3, <1>4 DEF IsQueue
<1>6. Agree(r)
  BY <1>2, <1>3, <1>4 DEF Agree
<1>7. SameActs(r, q)
  BY <1>2, <1>3 DEF SameActs
<1> QED BY <1>5, <1>6, <1>7 DEF r

(* queue_cleanup_deleted.                                                  *)
LEMMA CleanupAgrees ==
  ASSUME NEW q, IsQueue(q), Agree(q)
  PROVE  /\ IsQueue(CleanupDeleted(q)) /\ Agree(CleanupDeleted(q))
         /\ SameActs(CleanupDeleted(q), q)
<1> DEFINE r == CleanupDeleted(q)
           byCookie == Kept(q.byCookie, q.events)
           byTrigger == Kept(q.byTrigger, q.events)
           events == [c \in {byCookie[i] : i \in DOMAIN byCookie} |-> q.events[c]]
           Stays(c) == q.events[c].state \notin {"DELETED", "FINALIZED"}
<1>1. r = [q EXCEPT !.byCookie = byCookie, !.byTrigger = byTrigger, !.events = events]
  BY DEF CleanupDeleted
<1>2. /\ DOMAIN r = DOMAIN q /\ r.events = events /\ r.cookie = q.cookie
      /\ r.snooze = q.snooze /\ r.byCookie = byCookie /\ r.byTrigger = byTrigger
  <2> HIDE DEF r, events, byTrigger, byCookie
  <2> QED BY <1>1 DEF IsQueue
<1>3. /\ byCookie \in Seq(Nat) /\ CookieSorted(byCookie)
      /\ \A c : Holds(byCookie, c) <=> Holds(q.byCookie, c) /\ Stays(c)
  <2>1. q.byCookie \in Seq(Nat) /\ Ordered(q.byCookie, CookieOrder)
    BY CookiesOrdered DEF IsQueue, Agree
  <2>2. /\ byCookie \in Seq(Nat) /\ Ordered(byCookie, CookieOrder)
        /\ \A c : Holds(byCookie, c) <=> Holds(q.byCookie, c) /\ Stays(c)
    BY <2>1, KeptInOrder
  <2> HIDE DEF byCookie
  <2> QED BY <2>2, CookiesOrdered
<1>4. /\ byTrigger \in Seq(Nat) /\ TriggerSorted(byTrigger, q.events)
      /\ \A c : Holds(byTrigger, c) <=> Holds(q.byTrigger, c) /\ Stays(c)
  <2>1. q.byTrigger \in Seq(Nat) /\ Ordered(q.byTrigger, TriggerOrder(q.events))
    BY TriggersOrdered DEF IsQueue, Agree
  <2>2. /\ byTrigger \in Seq(Nat) /\ Ordered(byTrigger, TriggerOrder(q.events))
        /\ \A c : Holds(byTrigger, c) <=> Holds(q.byTrigger, c) /\ Stays(c)
    BY <2>1, KeptInOrder
  <2> HIDE DEF byTrigger
  <2> QED BY <2>2, TriggersOrdered
<1>5. /\ \A c : c \in DOMAIN events <=> Holds(byCookie, c)
      /\ \A c \in DOMAIN events : events[c] = q.events[c] /\ c \in DOMAIN q.events
  <2>1. \A c : c \in DOMAIN events <=> Holds(byCookie, c)
    BY DEF Holds
  <2>2. \A c \in DOMAIN events : events[c] = q.events[c]
    OBVIOUS
  <2> HIDE DEF events, byCookie
  <2> QED BY <1>3, <2>1, <2>2 DEF Agree
<1> HIDE DEF r, events, byTrigger, byCookie
<1>6. IsQueue(r)
  BY <1>2, <1>3, <1>4, <1>5 DEF IsQueue
<1>7. \A c : c \in DOMAIN events <=> Holds(byTrigger, c)
  BY <1>3, <1>4, <1>5 DEF Agree
<1>8. TriggerSorted(byTrigger, events)
  <2>1. \A i \in DOMAIN byTrigger : At(events, byTrigger[i]) = At(q.events, byTrigger[i])
    <3> SUFFICES ASSUME NEW i \in DOMAIN byTrigger
                 PROVE  At(events, byTrigger[i]) = At(q.events, byTrigger[i])
      OBVIOUS
    <3>1. byTrigger[i] \in DOMAIN events
      BY <1>7 DEF Holds
    <3> QED BY <1>5, <3>1 DEF At
  <2> QED BY <1>4, <2>1 DEF TriggerSorted
<1>9. Agree(r)
  BY <1>2, <1>3, <1>5, <1>7, <1>8 DEF Agree
<1>10. SameActs(r, q)
  BY <1>2, <1>5 DEF SameActs
<1> QED BY <1>6, <1>9, <1>10 DEF r

-----------------------------------------------------------------------------
(* The file.                                                               *)

(* The loop that adds one event after the other.                           *)
LEMMA AddedStep ==
  ASSUME NEW q, NEW es, Len(es) \in Nat
  PROVE  \E f : /\ f[0] = q /\ Added(q, es) = f[Len(es)]
               /\ \A i \in 1 .. Len(es) : f[i] = AddEvent(f[i - 1], es[i])
<1> DEFINE n == Len(es)
           Next_(m, f) == [i \in 0 .. m |-> IF i = 0 THEN q ELSE AddEvent(f[i - 1], es[i])]
           added == CHOOSE f : f = Next_(n, f)
           T == {m \in 0 .. n : ~\E f : f = Next_(m, f)}
<1>1. Added(q, es) = added[n]
  BY Zenon DEF Added
<1> HIDE DEF n
<1>2. n \in Nat
  BY DEF n
<1>3. ASSUME T # {} PROVE FALSE
  <2>1. PICK m \in T : \A k \in T : m <= k
    <3>1. T \in SUBSET Nat
      BY <1>2
    <3> HIDE DEF T
    <3> QED BY <1>3, <3>1, LeastNumber
  <2>2. m \in 0 .. n /\ ~\E f : f = Next_(m, f)
    OBVIOUS
  <2>3. m # 0
    <3> DEFINE g == [i \in 0 .. 0 |-> q]
    <3>1. g = Next_(0, g)
      OBVIOUS
    <3> HIDE DEF g
    <3> QED BY <2>2, <3>1
  <2>4. m - 1 \in 0 .. n /\ ~(m <= m - 1) /\ m \in Nat
    BY <1>2, <2>2, <2>3
  <2>5. PICK f : f = Next_(m - 1, f)
    <3>1. m - 1 \notin T
      BY <2>1, <2>4
    <3> QED BY <2>4, <3>1
  <2> DEFINE g == [i \in 0 .. m |-> IF i = m THEN AddEvent(f[m - 1], es[m]) ELSE f[i]]
  <2>6. ASSUME NEW i \in 0 .. m
        PROVE  g[i] = IF i = 0 THEN q ELSE AddEvent(g[i - 1], es[i])
    <3>1. CASE i = 0
      <4>1. 0 \in 0 .. m - 1 /\ 0 # m
        BY <2>3, <2>4
      <4> QED BY <2>5, <3>1, <4>1
    <3>2. CASE i # 0
      <4>1. i - 1 \in 0 .. m /\ i - 1 # m
        BY <2>4, <3>2
      <4>2. g[i - 1] = f[i - 1]
        BY <4>1
      <4>3. CASE i = m
        BY <3>2, <4>2, <4>3
      <4>4. CASE i # m
        <5>1. i \in 0 .. m - 1
          BY <2>4, <4>4
        <5>2. f[i] = AddEvent(f[i - 1], es[i])
          BY <2>5, <3>2, <5>1
        <5> QED BY <3>2, <4>2, <4>4, <5>2
      <4> QED BY <4>3, <4>4
    <3> QED BY <3>1, <3>2
  <2>7. g = Next_(m, g)
    <3>1. g = [i \in 0 .. m |-> g[i]]
      OBVIOUS
    <3> HIDE DEF g
    <3> QED BY <2>6, <3>1
  <2> HIDE DEF g
  <2> QED BY <2>2, <2>7
<1>4. added = Next_(n, added)
  <2>1. n \in 0 .. n
    BY <1>2
  <2>2. \E f : f = Next_(n, f)
    BY <1>3, <2>1
  <2> HIDE DEF Next_
  <2> QED BY <2>2, Zenon
<1> HIDE DEF added
<1>5. added[0] = q /\ \A i \in 1 .. n : added[i] = AddEvent(added[i - 1], es[i])
  BY <1>2, <1>4
<1> QED BY <1>1, <1>5 DEF n

(* Events that get their cookies in the loop, or bring cookies that differ *)
(* to an empty queue.                                                      *)
Addable(es) ==
  /\ Len(es) \in Nat
  /\ \A i \in 1 .. Len(es) : IsEvent(es[i])
  /\ \/ \A i \in 1 .. Len(es) : es[i].cookie = 0
     \/ /\ \A i \in 1 .. Len(es) : es[i].cookie # 0
        /\ \A i, j \in 1 .. Len(es) : i # j => es[i].cookie # es[j].cookie

LEMMA AddedAgrees ==
  ASSUME NEW q, IsQueue(q), Agree(q), q.events = << >>, NEW es, Addable(es)
  PROVE  /\ IsQueue(Added(q, es)) /\ Agree(Added(q, es))
         /\ \A c \in DOMAIN Added(q, es).events :
              \E i \in 1 .. Len(es) : Added(q, es).events[c].acts = es[i].acts
<1> DEFINE n == Len(es)
<1>1. n \in Nat
  BY DEF Addable
<1>2. PICK f : /\ f[0] = q /\ Added(q, es) = f[n]
               /\ \A i \in 1 .. n : f[i] = AddEvent(f[i - 1], es[i])
  BY AddedStep DEF Addable
<1>3. DOMAIN q.events = {}
  OBVIOUS
<1> HIDE DEF n
<1> DEFINE Good(i) ==
             /\ IsQueue(f[i]) /\ Agree(f[i])
             /\ (\A j \in 1 .. n : es[j].cookie # 0)
                  => DOMAIN f[i].events = {es[j].cookie : j \in 1 .. i}
             /\ \A d \in DOMAIN f[i].events : \E j \in 1 .. n : f[i].events[d].acts = es[j].acts
           T == {i \in 0 .. n : ~Good(i)}
<1>4. Good(0)
  BY <1>2, <1>3
<1>5. ASSUME NEW i \in 1 .. n, Good(i - 1)
      PROVE  Good(i)
  <2> DEFINE p == f[i - 1]
             c == IF es[i].cookie = 0 THEN p.cookie + 1 ELSE es[i].cookie
  <2>1. f[i] = AddEvent(p, es[i]) /\ IsEvent(es[i]) /\ IsQueue(p) /\ Agree(p)
    BY <1>2, <1>5 DEF Addable, n
  <2>2. /\ (\A j \in 1 .. n : es[j].cookie # 0)
             => DOMAIN p.events = {es[j].cookie : j \in 1 .. i - 1}
        /\ \A d \in DOMAIN p.events : \E j \in 1 .. n : p.events[d].acts = es[j].acts
    BY <1>5
  <2> HIDE DEF p
  <2>3. /\ \A j \in 1 .. i - 1 : j \in 1 .. n /\ j # i /\ j \in 1 .. i
        /\ \A j \in 1 .. i : j = i \/ j \in 1 .. i - 1
        /\ i \in 1 .. i
    BY <1>1
  <2>4. es[i].cookie \notin DOMAIN p.events
    <3>1. CASE es[i].cookie = 0
      BY <2>1, <3>1 DEF IsQueue
    <3>2. CASE es[i].cookie # 0
      <4>1. /\ \A j \in 1 .. n : es[j].cookie # 0
            /\ \A j, k \in 1 .. n : j # k => es[j].cookie # es[k].cookie
        BY <3>2 DEF Addable, n
      <4> QED BY <2>2, <2>3, <4>1
    <3> QED BY <3>1, <3>2
  <2>5. /\ IsQueue(f[i]) /\ Agree(f[i]) /\ DOMAIN f[i].events = DOMAIN p.events \cup {c}
        /\ f[i].events[c].acts = es[i].acts
        /\ \A d \in DOMAIN p.events : f[i].events[d] = p.events[d]
    BY <2>1, <2>4, AddAgrees
  <2>6. ASSUME \A j \in 1 .. n : es[j].cookie # 0
        PROVE  DOMAIN f[i].events = {es[j].cookie : j \in 1 .. i}
    <3>1. c = es[i].cookie
      BY <2>6
    <3> HIDE DEF c
    <3> QED BY <2>2, <2>3, <2>5, <2>6, <3>1
  <2>7. ASSUME NEW d \in DOMAIN f[i].events
        PROVE  \E j \in 1 .. n : f[i].events[d].acts = es[j].acts
    <3>1. CASE d = c
      BY <2>5, <3>1
    <3>2. CASE d # c
      <4>1. d \in DOMAIN p.events
        BY <2>5, <3>2
      <4> QED BY <2>2, <2>5, <4>1
    <3> QED BY <3>1, <3>2
  <2> QED BY <2>5, <2>6, <2>7
<1> HIDE DEF Good
<1>6. ASSUME T # {} PROVE FALSE
  <2>1. PICK m \in T : \A k \in T : m <= k
    <3>1. T \in SUBSET Nat
      BY <1>1
    <3> HIDE DEF T
    <3> QED BY <1>6, <3>1, LeastNumber
  <2>2. m \in 0 .. n /\ ~Good(m)
    OBVIOUS
  <2>3. m - 1 \in 0 .. n /\ ~(m <= m - 1) /\ m \in 1 .. n
    <3>1. m # 0
      BY <1>4, <2>2
    <3> QED BY <1>1, <2>2, <3>1
  <2>4. Good(m - 1)
    BY <2>1, <2>3
  <2> QED BY <1>5, <2>2, <2>3, <2>4
<1>7. n \in 0 .. n
  BY <1>1
<1>8. Good(n)
  <2>1. n \notin T
    BY <1>6
  <2> QED BY <1>7, <2>1
<1> QED BY <1>2, <1>8 DEF Good, n

(* What comes back of an event that was written into the file.             *)
LEMMA SectionRead ==
  ASSUME NEW e, IsEvent(e)
  PROVE  LET r == LoadedEvent(Section(e))
         IN  IsEvent(r) /\ r.cookie = e.cookie /\ r.trigger = e.trigger
<1> DEFINE sec == Section(e)
           nums == [k \in {h \in HeadNumbers : e[h] # 0} |-> e[k]]
           r == LoadedEvent(sec)
<1>1. sec.nums = nums
  <2> HIDE DEF nums
  <2> QED BY DEF Section, nums
<1>2. NumberIn(sec, "cookie") = e.cookie /\ NumberIn(sec, "trigger") = e.trigger
  <2> HIDE DEF sec
  <2>1. /\ DOMAIN nums = {h \in HeadNumbers : e[h] # 0}
        /\ \A k \in DOMAIN nums : nums[k] = e[k]
    OBVIOUS
  <2>2. "cookie" \in HeadNumbers /\ "trigger" \in HeadNumbers
    BY DEF HeadNumbers
  <2> HIDE DEF nums
  <2> QED BY <1>1, <2>1, <2>2 DEF NumberIn
<1>2a. LoadedState(sec.flags[2]) = "NEW"
  <2>1. sec.flags = <<e.flags, e.state>>
    BY DEF Section
  <2>2. e.state \in {"NEW", "DELETED"}
    BY DEF IsEvent
  <2> HIDE DEF sec
  <2> QED BY <2>1, <2>2 DEF LoadedState
<1> HIDE DEF sec
<1>3. /\ DOMAIN r = DOMAIN NewEvent
      /\ r.cookie = NumberIn(sec, "cookie") /\ r.trigger = NumberIn(sec, "trigger")
      /\ r.state = LoadedState(sec.flags[2])
  BY DEF LoadedEvent, NewEvent
<1>4. {"cookie", "trigger", "state", "acts"} \subseteq DOMAIN NewEvent
  BY DEF NewEvent
<1> HIDE DEF r
<1>5. IsEvent(r) /\ r.cookie = e.cookie /\ r.trigger = e.trigger
  BY <1>2, <1>2a, <1>3, <1>4 DEF IsEvent
<1> QED BY <1>5 DEF r, sec

(* What a daemon may find in its file.                                     *)
Sound(f) ==
  /\ f.snooze \in Int
  /\ Len(f.sections) \in Nat /\ DOMAIN f.sections = 1 .. Len(f.sections)
  /\ \A i \in DOMAIN f.sections : /\ IsEvent(LoadedEvent(f.sections[i]))
                                  /\ LoadedEvent(f.sections[i]).cookie # 0
  /\ \A i, j \in DOMAIN f.sections :
       i # j => LoadedEvent(f.sections[i]).cookie # LoadedEvent(f.sections[j]).cookie

(* queue_save_to_memory.                                                   *)
LEMMA SavedSound ==
  ASSUME NEW q, IsQueue(q), Agree(q)
  PROVE  /\ Sound(Saved(q))
         /\ \A i \in DOMAIN Saved(q).sections :
              \E c \in DOMAIN q.events : Saved(q).sections[i] = Section(q.events[c])
<1> DEFINE secs == [i \in DOMAIN q.byCookie |-> Section(q.events[q.byCookie[i]])]
           n == Len(q.byCookie)
<1>1. Saved(q).sections = secs /\ Saved(q).snooze \in Int
  <2>1. q.snooze \in Int
    BY SnoozeRange DEF IsQueue
  <2> QED BY <2>1 DEF Saved, File
<1>2. n \in Nat /\ DOMAIN q.byCookie = 1 .. n
  BY DEF IsQueue
<1>3. Len(secs) = n /\ DOMAIN secs = 1 .. n
  <2> HIDE DEF n
  <2> QED BY <1>2
<1>4. ASSUME NEW i \in 1 .. n
      PROVE  /\ IsEvent(LoadedEvent(secs[i]))
             /\ LoadedEvent(secs[i]).cookie = q.byCookie[i]
             /\ q.byCookie[i] # 0 /\ q.byCookie[i] \in Nat
             /\ \E c \in DOMAIN q.events : secs[i] = Section(q.events[c])
  <2> DEFINE c == q.byCookie[i]
             e == q.events[c]
  <2>1. c \in DOMAIN q.events
    BY <1>2 DEF Agree, Holds
  <2>2. IsEvent(e) /\ e.cookie = c /\ c # 0 /\ c \in Nat
    BY <2>1 DEF IsQueue
  <2>3. secs[i] = Section(e)
    BY <1>2
  <2>4. \E d \in DOMAIN q.events : secs[i] = Section(q.events[d])
    <3> HIDE DEF c, secs
    <3> QED BY <2>1, <2>3
  <2> HIDE DEF c, e, secs
  <2>5. IsEvent(LoadedEvent(secs[i])) /\ LoadedEvent(secs[i]).cookie = c
    BY <2>2, <2>3, SectionRead
  <2> QED BY <2>2, <2>4, <2>5 DEF c
<1>5. \A i, j \in 1 .. n : i # j => q.byCookie[i] # q.byCookie[j]
  <2> SUFFICES ASSUME NEW i \in 1 .. n, NEW j \in 1 .. n, i < j
               PROVE  q.byCookie[i] # q.byCookie[j]
    BY <1>2
  <2>1. q.byCookie[i] < q.byCookie[j]
    BY <1>2 DEF Agree, CookieSorted
  <2>2. q.byCookie[i] \in Nat /\ q.byCookie[j] \in Nat
    BY <1>4
  <2> HIDE DEF secs, n
  <2> QED BY <2>1, <2>2
<1> HIDE DEF secs, n
<1> QED BY <1>1, <1>2, <1>3, <1>4, <1>5 DEF Sound

LEMMA SnoozeSane ==
  ASSUME NEW q, "snooze" \in DOMAIN q, q.snooze \in 1 .. MAX_SNOOZE, NEW value \in Int
  PROVE  SetSnooze(q, value).snooze \in 1 .. MAX_SNOOZE
<1>1. QUEUE_SNOOZE_DEFAULT \in 1 .. MAX_SNOOZE /\ MAX_SNOOZE \in Nat
  BY SnoozeRange
<1>2. SetSnooze(q, value).snooze =
        IF value < 1 \/ value > MAX_SNOOZE THEN QUEUE_SNOOZE_DEFAULT ELSE value
  BY DEF SetSnooze
<1> QED BY <1>1, <1>2

(* queue_load_from_path.                                                   *)
LEMMA LoadedAgrees ==
  ASSUME NEW f, Sound(f)
  PROVE  /\ IsQueue(Loaded(f)) /\ Agree(Loaded(f))
         /\ \A c \in DOMAIN Loaded(f).events : \E i \in DOMAIN f.sections :
              Loaded(f).events[c].acts = LoadedEvent(f.sections[i]).acts
<1> DEFINE q == SetSnooze(EmptyQueue, f.snooze)
           es == [i \in DOMAIN f.sections |-> LoadedEvent(f.sections[i])]
           n == Len(f.sections)
<1>1. /\ DOMAIN q = {"events", "byCookie", "byTrigger", "cookie", "snooze"}
      /\ q.events = << >> /\ q.byCookie = << >> /\ q.byTrigger = << >> /\ q.cookie = 0
  BY DEF SetSnooze, EmptyQueue
<1>1a. q.snooze \in 1 .. MAX_SNOOZE
  <2>1. /\ "snooze" \in DOMAIN EmptyQueue
        /\ EmptyQueue.snooze \in 1 .. MAX_SNOOZE
    BY SnoozeRange DEF EmptyQueue
  <2>2. f.snooze \in Int
    BY DEF Sound
  <2> QED BY <2>1, <2>2, SnoozeSane DEF q
<1> HIDE DEF q
<1>2. IsQueue(q)
  BY <1>1, <1>1a DEF IsQueue
<1>3. Agree(q)
  BY <1>1 DEF Agree, Holds, CookieSorted, TriggerSorted
<1>4. n \in Nat /\ DOMAIN f.sections = 1 .. n
  BY DEF Sound
<1>5. Len(es) = n /\ \A i \in 1 .. n : es[i] = LoadedEvent(f.sections[i])
  <2> HIDE DEF n
  <2> QED BY <1>4
<1> HIDE DEF es, n
<1>6. Addable(es)
  BY <1>4, <1>5 DEF Sound, Addable
<1>7. /\ IsQueue(Added(q, es)) /\ Agree(Added(q, es))
      /\ \A c \in DOMAIN Added(q, es).events :
           \E i \in 1 .. n : Added(q, es).events[c].acts = es[i].acts
  BY <1>1, <1>2, <1>3, <1>5, <1>6, AddedAgrees
<1>8. Loaded(f) = Added(q, es)
  BY DEF Loaded, q, es
<1> QED BY <1>4, <1>5, <1>7, <1>8

-----------------------------------------------------------------------------
(* Texts.                                                                  *)

(* A function whose value at d is out[d], or computed by step from its     *)
(* value at next[d], where next gets smaller, exists.                      *)
Recurs(f, D, B, out, step, next) ==
  \A d \in D : f[d] = IF d \in B THEN out[d] ELSE step[<<d, f[next[d]]>>]

LEMMA Recursion ==
  ASSUME NEW D, NEW V, NEW B, NEW out \in [D -> V], NEW step \in [D \X V -> V],
         NEW next \in [D -> D], NEW size \in [D -> Nat],
         \A d \in D : d \notin B => size[next[d]] < size[d]
  PROVE  \E f \in [D -> V] : Recurs(f, D, B, out, step, next)
<1> DEFINE Eq(f, d) == IF d \in B THEN out[d] ELSE step[<<d, f[next[d]]>>]
           To(f, n) == \A d \in D : size[d] < n => f[d] = Eq(f, d)
<1>1. ASSUME NEW f \in [D -> V], NEW d \in D PROVE Eq(f, d) \in V
  OBVIOUS
<1>2. ASSUME NEW f \in [D -> V], NEW g \in [D -> V], NEW d \in D, f[next[d]] = g[next[d]]
      PROVE  Eq(f, d) = Eq(g, d)
  BY <1>2
<1>3. \A d \in D : d \in B \/ (next[d] \in D /\ size[next[d]] < size[d])
  OBVIOUS
<1>4. ASSUME NEW f \in [D -> V], NEW g \in [D -> V], NEW d \in D, d \in B
      PROVE  Eq(f, d) = Eq(g, d)
  BY <1>4
<1> HIDE DEF Eq
<1>5. ASSUME NEW n \in Nat PROVE \E f \in [D -> V] : To(f, n)
  <2> DEFINE T == {m \in Nat : ~\E f \in [D -> V] : To(f, m)}
  <2>1. ASSUME T # {} PROVE FALSE
    <3>1. PICK m \in T : \A k \in T : m <= k
      <4>1. T \in SUBSET Nat
        OBVIOUS
      <4> HIDE DEF T
      <4> QED BY <2>1, <4>1, LeastNumber
    <3>2. m \in Nat /\ ~\E f \in [D -> V] : To(f, m)
      OBVIOUS
    <3>3. m # 0
      <4>1. To(out, 0)
        OBVIOUS
      <4> QED BY <3>2, <4>1
    <3>4. m - 1 \in Nat /\ ~(m <= m - 1)
      BY <3>2, <3>3
    <3>5. PICK f \in [D -> V] : To(f, m - 1)
      <4>1. m - 1 \notin T
        BY <3>1, <3>4
      <4> QED BY <3>4, <4>1
    <3> DEFINE g == [d \in D |-> IF size[d] < m - 1 THEN f[d] ELSE Eq(f, d)]
    <3>6. g \in [D -> V]
      BY <1>1
    <3>7. \A d \in D : size[d] < m - 1 => g[d] = f[d]
      OBVIOUS
    <3>8. \A d \in D : g[d] = Eq(f, d)
      BY <3>5
    <3> HIDE DEF g
    <3>9. ASSUME NEW d \in D, size[d] < m PROVE g[d] = Eq(g, d)
      <4>1. CASE d \in B
        BY <1>4, <3>6, <3>8, <4>1
      <4>2. CASE d \notin B
        <5>1. next[d] \in D /\ size[next[d]] < m - 1
          BY <1>3, <3>4, <3>9, <4>2
        <5>2. g[next[d]] = f[next[d]]
          BY <3>7, <5>1
        <5> QED BY <1>2, <3>6, <3>8, <5>2
      <4> QED BY <4>1, <4>2
    <3> QED BY <3>2, <3>6, <3>9
  <2> QED BY <2>1
<1>6. ASSUME NEW f \in [D -> V], NEW g \in [D -> V], NEW n \in Nat, NEW m \in Nat,
             To(f, n), To(g, m), NEW e \in D, size[e] < n, size[e] < m
      PROVE  f[e] = g[e]
  <2> DEFINE T == {k \in Nat : \E d \in D : /\ size[d] = k /\ k < n /\ k < m
                                             /\ f[d] # g[d]}
  <2>1. ASSUME T # {} PROVE FALSE
    <3>1. PICK k \in T : \A j \in T : k <= j
      <4>1. T \in SUBSET Nat
        OBVIOUS
      <4> HIDE DEF T
      <4> QED BY <2>1, <4>1, LeastNumber
    <3>2. PICK d \in D : size[d] = k /\ k < n /\ k < m /\ f[d] # g[d]
      BY <3>1
    <3>3. f[d] = Eq(f, d) /\ g[d] = Eq(g, d)
      BY <1>6, <3>2
    <3>4. CASE d \in B
      BY <1>4, <3>2, <3>3, <3>4
    <3>5. CASE d \notin B
      <4>1. next[d] \in D /\ size[next[d]] < k /\ size[next[d]] \in Nat /\ k \in Nat
        BY <1>3, <3>2, <3>5
      <4>2. size[next[d]] \notin T
        BY <3>1, <4>1
      <4>3. f[next[d]] = g[next[d]]
        BY <3>2, <4>1, <4>2
      <4> QED BY <1>2, <3>2, <3>3, <4>3
    <3> QED BY <3>4, <3>5
  <2>2. size[e] \notin T
    BY <2>1
  <2> QED BY <1>6, <2>2
<1> DEFINE G(n) == CHOOSE f \in [D -> V] : To(f, n)
           h == [d \in D |-> G(size[d] + 1)[d]]
<1> HIDE DEF To
<1>7. \A n \in Nat : G(n) \in [D -> V] /\ To(G(n), n)
  BY <1>5
<1> HIDE DEF G
<1>8. h \in [D -> V]
  BY <1>7
<1>9. \A d \in D : h[d] = G(size[d] + 1)[d]
  OBVIOUS
<1> HIDE DEF h
<1>10. ASSUME NEW d \in D PROVE h[d] = Eq(h, d)
  <2> DEFINE n == size[d] + 1
             g == G(n)
  <2>1. n \in Nat /\ size[d] < n /\ size[d] \in Nat
    OBVIOUS
  <2>2. g \in [D -> V] /\ To(g, n)
    BY <1>7, <2>1
  <2>3. g[d] = Eq(g, d)
    BY <2>1, <2>2 DEF To
  <2>4. h[d] = g[d]
    BY <1>9
  <2> HIDE DEF n, g
  <2>5. CASE d \in B
    BY <1>4, <1>8, <2>2, <2>3, <2>4, <2>5
  <2>6. CASE d \notin B
    <3> DEFINE b == next[d]
               m == size[b] + 1
    <3>1. b \in D /\ size[b] < n /\ size[b] \in Nat
      BY <1>3, <2>1, <2>6 DEF n
    <3>2. m \in Nat /\ size[b] < m
      BY <3>1
    <3>3. G(m) \in [D -> V] /\ To(G(m), m)
      BY <1>7, <3>2
    <3>4. h[b] = G(m)[b]
      BY <1>9, <3>1
    <3> HIDE DEF m, b
    <3>5. G(m)[b] = g[b]
      BY <1>6, <2>1, <2>2, <3>1, <3>2, <3>3
    <3>6. h[next[d]] = g[next[d]]
      BY <3>4, <3>5 DEF b
    <3> QED BY <1>2, <1>8, <2>2, <2>3, <2>4, <3>6
  <2> QED BY <2>5, <2>6
<1> QED BY <1>8, <1>10 DEF Recurs, Eq

-----------------------------------------------------------------------------
LEMMA TextLength == \A s \in String : Len(s) \in Nat
  BY DEF String

LEMMA TextEnds ==
  ASSUME NEW s \in String, s # << >>
  PROVE  /\ Len(s) \in Nat \ {0} /\ s[1] \in Chars /\ s[Len(s)] \in Chars
         /\ Tail(s) \in String /\ Len(Tail(s)) = Len(s) - 1
         /\ \A i \in 1 .. Len(s) - 1 : Tail(s)[i] = s[i + 1]
         /\ Front(s) \in String /\ Len(Front(s)) = Len(s) - 1
         /\ \A i \in 1 .. Len(s) - 1 : Front(s)[i] = s[i]
<1>1. Len(s) \in Nat \ {0} /\ \A i \in 1 .. Len(s) : s[i] \in Chars
  BY DEF String
<1>2. /\ Tail(s) \in String /\ Len(Tail(s)) = Len(s) - 1
      /\ \A i \in 1 .. Len(s) - 1 : Tail(s)[i] = s[i + 1]
  BY HeadTailProperties DEF String
<1>3. /\ Front(s) \in String /\ Len(Front(s)) = Len(s) - 1
      /\ \A i \in 1 .. Len(s) - 1 : Front(s)[i] = s[i]
  <2> DEFINE t == SubSeq(s, 1, Len(s) - 1)
             n == Len(s) - 1
  <2>1. n \in Int /\ 1 \in Int /\ \A i \in 1 .. n : s[i] \in Chars
    BY <1>1
  <2>2. Front(s) = SubSeq(s, 1, n)
    BY DEF Front
  <2>3. n \in Nat
    BY <1>1
  <2> HIDE DEF n
  <2>4. /\ SubSeq(s, 1, n) \in Seq(Chars)
        /\ Len(SubSeq(s, 1, n)) = IF 1 <= n THEN n - 1 + 1 ELSE 0
        /\ \A i \in 1 .. n - 1 + 1 : SubSeq(s, 1, n)[i] = s[1 + i - 1]
    BY <2>1, SubSeqProperties
  <2>5. Front(s) \in Seq(Chars) /\ Len(Front(s)) = n /\ \A i \in 1 .. n : Front(s)[i] = s[i]
    BY <2>2, <2>3, <2>4
  <2> QED BY <2>5 DEF String, n
<1>4. 1 \in 1 .. Len(s) /\ Len(s) \in 1 .. Len(s)
  BY <1>1
<1> QED BY <1>1, <1>2, <1>3, <1>4

LEMMA FewChars ==
  \A a, b, c, d \in Chars :
    <<a>> \in String /\ <<a, b>> \in String /\ <<a, b, c, d>> \in String
  BY DEF String

LEMMA EscapeValues ==
  ASSUME NEW c \in Chars
  PROVE  Escape(c) \in String
<1>1. "\\" \in Chars /\ "n" \in Chars /\ "x" \in Chars /\ "0" \in Chars /\ "1" \in Chars
  BY DEF Chars
<1>2. <<"\\", "\\">> \in String /\ <<"\\", "n">> \in String
  BY <1>1, FewChars, Zenon
<1>3. <<"\\", "x", "0", "1">> \in String /\ <<c>> \in String
  BY <1>1, FewChars, Zenon
<1> QED BY <1>2, <1>3 DEF Escape

LEMMA EscapeTextValue ==
  /\ EscapeText \in [String -> String]
  /\ EscapeText[<< >>] = << >>
  /\ \A s \in String : s # << >> => EscapeText[s] = Escape(s[1]) \o EscapeText[Tail(s)]
<1> DEFINE Next_(f) == [s \in String |-> IF s = << >> THEN << >>
                                         ELSE Escape(s[1]) \o f[Tail(s)]]
           B == {<< >>}
           out == [s \in String |-> << >>]
           step == [w \in String \X String |-> IF w[1] = << >> THEN << >>
                                               ELSE Escape(w[1][1]) \o w[2]]
           next == [s \in String |-> IF s = << >> THEN << >> ELSE Tail(s)]
           size == [s \in String |-> Len(s)]
<1>1. << >> \in String
  BY DEF String
<1>2. step \in [String \X String -> String]
  <2> SUFFICES ASSUME NEW w \in String \X String, w[1] # << >>
               PROVE  Escape(w[1][1]) \o w[2] \in String
    BY <1>1
  <2>1. w[1] \in String /\ w[2] \in String
    OBVIOUS
  <2>2. Escape(w[1][1]) \in String
    BY <2>1, TextEnds, EscapeValues
  <2> QED BY <2>1, <2>2, ConcatProperties DEF String
<1>3. next \in [String -> String] /\ size \in [String -> Nat] /\ out \in [String -> String]
  <2>1. \A s \in String : s # << >> => Tail(s) \in String
    BY TextEnds
  <2>2. \A s \in String : Len(s) \in Nat
    BY DEF String
  <2> QED BY <1>1, <2>1, <2>2
<1>4. ASSUME NEW s \in String, s \notin B PROVE size[next[s]] < size[s]
  <2>1. Tail(s) \in String /\ Len(Tail(s)) = Len(s) - 1 /\ Len(s) \in Nat
    BY <1>4, TextEnds
  <2>2. next[s] = Tail(s)
    BY <1>4
  <2>3. size[s] = Len(s) /\ size[Tail(s)] = Len(s) - 1
    BY <2>1
  <2> HIDE DEF next, size
  <2> QED BY <2>1, <2>2, <2>3
<1>5. /\ \A s \in String : s # << >> => next[s] = Tail(s)
      /\ \A s \in String : out[s] = << >>
      /\ \A s, t \in String : s # << >> => step[<<s, t>>] = Escape(s[1]) \o t
  OBVIOUS
<1> HIDE DEF out, step, next, size, B
<1>6. PICK g \in [String -> String] : Recurs(g, String, B, out, step, next)
  BY <1>2, <1>3, <1>4, Recursion
<1>7. g = Next_(g)
  <2>1. ASSUME NEW s \in String
        PROVE  g[s] = IF s = << >> THEN << >> ELSE Escape(s[1]) \o g[Tail(s)]
    <3>1. CASE s = << >>
      BY <1>5, <1>6, <3>1 DEF Recurs, B
    <3>2. CASE s # << >>
      <4>1. g[s] = step[<<s, g[Tail(s)]>>]
        BY <1>5, <1>6, <3>2 DEF Recurs, B
      <4>2. g[Tail(s)] \in String
        BY <1>6, <3>2, TextEnds
      <4> QED BY <1>5, <3>2, <4>1, <4>2
    <3> QED BY <3>1, <3>2
  <2>2. g = [s \in String |-> g[s]]
    OBVIOUS
  <2> QED BY <2>1, <2>2
<1>8. EscapeText = CHOOSE f : f = Next_(f)
  BY Zenon DEF EscapeText
<1>9. EscapeText = Next_(EscapeText)
  <2> HIDE DEF Next_
  <2> QED BY <1>7, <1>8, Zenon
<1> DEFINE e == EscapeText
<1>10. e = Next_(e)
  BY <1>9
<1> HIDE DEF e
<1>11. /\ e[<< >>] = << >>
       /\ \A s \in String : s # << >> => e[s] = Escape(s[1]) \o e[Tail(s)]
       /\ e = [s \in String |-> e[s]]
  BY <1>1, <1>10
<1>12. ASSUME NEW s \in String PROVE e[s] \in String
  <2> DEFINE T == {n \in Nat : \E t \in String : Len(t) = n /\ e[t] \notin String}
  <2>1. ASSUME T # {} PROVE FALSE
    <3>1. PICK n \in T : \A k \in T : n <= k
      <4>1. T \in SUBSET Nat
        OBVIOUS
      <4> HIDE DEF T
      <4> QED BY <2>1, <4>1, LeastNumber
    <3>2. PICK t \in String : Len(t) = n /\ e[t] \notin String
      BY <3>1
    <3>3. t # << >>
      BY <1>1, <1>11, <3>2
    <3>4. Tail(t) \in String /\ Len(Tail(t)) = n - 1 /\ n - 1 \in Nat /\ ~(n <= n - 1)
      BY <3>2, <3>3, TextEnds
    <3>5. e[Tail(t)] \in String
      BY <3>1, <3>4
    <3>6. Escape(t[1]) \in String
      BY <3>3, TextEnds, EscapeValues
    <3>7. Escape(t[1]) \o e[Tail(t)] \in String
      BY <3>5, <3>6, ConcatProperties DEF String
    <3> QED BY <1>11, <3>2, <3>3, <3>7
  <2>2. Len(s) \in Nat
    BY TextLength
  <2>3. Len(s) \notin T
    BY <2>1
  <2> QED BY <2>2, <2>3
<1> QED BY <1>11, <1>12 DEF e

(* What is read of an escaped text from p on.                              *)
Unescaping(u, f) ==
  \A p \in Nat : f[p] = IF p > Len(u) THEN << >>
                        ELSE <<Escaped(u, p)>> \o f[p + EscapeLen(u, p)]

LEMMA UnescapeValue ==
  ASSUME NEW u \in String
  PROVE  \E f : Unescape[u] = f[1] /\ Unescaping(u, f)
<1> DEFINE Next_(f) == [p \in Nat |-> IF p > Len(u) THEN << >>
                                      ELSE <<Escaped(u, p)>> \o f[p + EscapeLen(u, p)]]
           A == {Escaped(u, p) : p \in Nat}
           V == Seq(A)
           B == {p \in Nat : p > Len(u)}
           out == [p \in Nat |-> << >>]
           step == [w \in Nat \X V |-> <<Escaped(u, w[1])>> \o w[2]]
           next == [p \in Nat |-> p + EscapeLen(u, p)]
           Left(p) == IF p > Len(u) THEN 0 ELSE Len(u) + 1 - p
           size == [p \in Nat |-> Left(p)]
           from == CHOOSE f : f = Next_(f)
<1>1. Unescape[u] = from[1]
  BY Zenon DEF Unescape
<1>2. /\ Len(u) \in Nat
      /\ \A p \in Nat : p + EscapeLen(u, p) \in Nat /\ p + EscapeLen(u, p) > p
  <2>1. ASSUME NEW p \in Nat
        PROVE  p + EscapeLen(u, p) \in Nat /\ p + EscapeLen(u, p) > p
    <3>1. EscapeLen(u, p) \in {1, 2, 4}
      BY DEF EscapeLen
    <3> QED BY <3>1
  <2> QED BY <2>1, TextLength
<1>3. out \in [Nat -> V]
  <2>1. << >> \in V
    OBVIOUS
  <2> HIDE DEF V
  <2> QED BY <2>1
<1>4. step \in [Nat \X V -> V]
  <2> SUFFICES ASSUME NEW w \in Nat \X V
               PROVE  <<Escaped(u, w[1])>> \o w[2] \in V
    OBVIOUS
  <2>1. Escaped(u, w[1]) \in A /\ w[2] \in Seq(A)
    OBVIOUS
  <2> HIDE DEF A
  <2>2. <<Escaped(u, w[1])>> \in Seq(A)
    BY <2>1
  <2> QED BY <2>1, <2>2, ConcatProperties
<1>5. next \in [Nat -> Nat] /\ size \in [Nat -> Nat]
  <2>1. next \in [Nat -> Nat]
    BY <1>2
  <2>2. size \in [Nat -> Nat]
    <3>1. \A p \in Nat : Left(p) \in Nat
      BY <1>2
    <3> HIDE DEF Left
    <3> QED BY <3>1
  <2> HIDE DEF next, size
  <2> QED BY <2>1, <2>2
<1>6. ASSUME NEW p \in Nat, p \notin B PROVE size[next[p]] < size[p]
  <2> DEFINE n == next[p]
  <2>1. n \in Nat /\ n > p /\ p <= Len(u)
    BY <1>2, <1>6
  <2> HIDE DEF n
  <2>2. Left(n) < Left(p)
    <3> DEFINE m == Len(u)
    <3>1. m \in Nat /\ p <= m
      BY <1>2, <2>1
    <3>2. (IF n > m THEN 0 ELSE m + 1 - n) < (IF p > m THEN 0 ELSE m + 1 - p)
      <4> HIDE DEF m
      <4> QED BY <2>1, <3>1
    <3> QED BY <3>2
  <2>3. size[n] = Left(n) /\ size[p] = Left(p)
    <3> HIDE DEF Left
    <3> QED BY <2>1
  <2> HIDE DEF size, Left, next
  <2>4. size[n] < size[p]
    BY <2>2, <2>3
  <2> QED BY <2>4 DEF n
<1>7. /\ \A p \in Nat : next[p] = p + EscapeLen(u, p) /\ out[p] = << >>
      /\ \A p \in Nat : p \in B <=> p > Len(u)
      /\ \A p \in Nat, v \in V : step[<<p, v>>] = <<Escaped(u, p)>> \o v
  OBVIOUS
<1> HIDE DEF V, B, out, step, next, size
<1>8. PICK g \in [Nat -> V] : Recurs(g, Nat, B, out, step, next)
  BY <1>3, <1>4, <1>5, <1>6, Recursion
<1>9. g = Next_(g)
  <2>1. ASSUME NEW p \in Nat
        PROVE  g[p] = IF p > Len(u) THEN << >>
                      ELSE <<Escaped(u, p)>> \o g[p + EscapeLen(u, p)]
    <3>1. CASE p \in B
      BY <1>7, <1>8, <3>1 DEF Recurs
    <3>2. CASE p \notin B
      <4>1. g[p] = step[<<p, g[p + EscapeLen(u, p)]>>]
        BY <1>7, <1>8, <3>2 DEF Recurs
      <4>2. g[p + EscapeLen(u, p)] \in V
        <5>1. p + EscapeLen(u, p) \in Nat
          BY <1>2
        <5> QED BY <1>8, <5>1
      <4> QED BY <1>7, <3>2, <4>1, <4>2
    <3> QED BY <3>1, <3>2
  <2>2. g = [p \in Nat |-> g[p]]
    OBVIOUS
  <2> QED BY <2>1, <2>2
<1>10. from = Next_(from)
  <2> HIDE DEF Next_
  <2> QED BY <1>9, Zenon
<1> HIDE DEF from
<1>11. Unescaping(u, from)
  BY <1>10 DEF Unescaping
<1> QED BY <1>1, <1>11

LEMMA CharLength == \A c \in Chars : Len(Escape(c)) \in Nat \ {0}
<1> SUFFICES ASSUME NEW c \in Chars PROVE Len(Escape(c)) \in Nat \ {0}
  OBVIOUS
<1> QED BY DEF Escape

(* A character that was escaped is read as it was, whatever comes after.   *)
LEMMA CharComesBack ==
  ASSUME NEW c \in Chars, NEW u, NEW p \in Nat, u[p] = Escape(c)[1],
         Len(Escape(c)) > 1 => u[p + 1] = Escape(c)[2]
  PROVE  /\ Escaped(u, p) = c /\ EscapeLen(u, p) = Len(Escape(c))
         /\ Len(Escape(c)) \in Nat \ {0}
<1>1. CASE c = "\\"
  <2>1. Escape(c) = <<"\\", "\\">>
    BY <1>1 DEF Escape
  <2>2. Len(Escape(c)) = 2 /\ u[p] = "\\" /\ u[p + 1] = "\\"
    BY <2>1
  <2> QED BY <1>1, <2>2 DEF Escaped, EscapeLen
<1>2. CASE c = "nl"
  <2>1. Escape(c) = <<"\\", "n">>
    BY <1>2 DEF Escape
  <2>2. Len(Escape(c)) = 2 /\ u[p] = "\\" /\ u[p + 1] = "n"
    BY <2>1
  <2> QED BY <1>2, <2>2 DEF Escaped, EscapeLen
<1>3. CASE c = "ctl"
  <2>1. Escape(c) = <<"\\", "x", "0", "1">>
    BY <1>3 DEF Escape
  <2>2. Len(Escape(c)) = 4 /\ u[p] = "\\" /\ u[p + 1] = "x"
    BY <2>1
  <2> QED BY <1>3, <2>2 DEF Escaped, EscapeLen
<1>4. CASE c \notin {"\\", "nl", "ctl"}
  <2>1. Escape(c) = <<c>>
    BY <1>4 DEF Escape
  <2>2. Len(Escape(c)) = 1 /\ u[p] = c
    BY <2>1
  <2> QED BY <1>4, <2>2 DEF Escaped, EscapeLen
<1> QED BY <1>1, <1>2, <1>3, <1>4

(* u is t from p on.                                                       *)
Ends(u, p, t) == Len(u) = p - 1 + Len(t) /\ \A i \in 1 .. Len(t) : u[p - 1 + i] = t[i]

LEMMA TextComesBack ==
  ASSUME NEW u \in String, NEW f, Unescaping(u, f),
         NEW s \in String, NEW p \in Nat \ {0}, Ends(u, p, EscapeText[s])
  PROVE  f[p] = s
<1> DEFINE T == {n \in Nat : \E t \in String, q \in Nat \ {0} :
                               Len(t) = n /\ Ends(u, q, EscapeText[t]) /\ f[q] # t}
<1>1. ASSUME T # {} PROVE FALSE
  <2>1. PICK n \in T : \A k \in T : n <= k
    <3>1. T \in SUBSET Nat
      OBVIOUS
    <3> HIDE DEF T
    <3> QED BY <1>1, <3>1, LeastNumber
  <2>2. PICK t \in String, q \in Nat \ {0} :
          Len(t) = n /\ Ends(u, q, EscapeText[t]) /\ f[q] # t
    BY <2>1
  <2>3. CASE t = << >>
    <3>1. Len(EscapeText[t]) = 0
      BY <2>3, EscapeTextValue
    <3>2. Len(u) = q - 1
      BY <2>2, <3>1 DEF Ends
    <3>3. q > Len(u)
      BY <3>2
    <3> QED BY <2>2, <2>3, <3>3 DEF Unescaping
  <2>4. CASE t # << >>
    <3> DEFINE c == t[1]
               r == Tail(t)
               e == Escape(c)
               x == EscapeText[t]
               y == EscapeText[r]
    <3>1. /\ c \in Chars /\ r \in String /\ Len(r) = n - 1 /\ n - 1 \in Nat
          /\ ~(n <= n - 1)
      BY <2>2, <2>4, TextEnds
    <3>2. e \in String /\ x \in String /\ y \in String /\ x = e \o y
      BY <2>2, <2>4, <3>1, EscapeValues, EscapeTextValue
    <3>3. t = <<c>> \o r
      BY <2>4 DEF String
    <3>4. f[q] = IF q > Len(u) THEN << >>
                 ELSE <<Escaped(u, q)>> \o f[q + EscapeLen(u, q)]
      BY DEF Unescaping
    <3>5. Len(u) = q - 1 + Len(x) /\ \A i \in 1 .. Len(x) : u[q - 1 + i] = x[i]
      BY <2>2 DEF Ends
    <3>6. \A k \in T : n <= k
      BY <2>1
    <3> HIDE DEF c, r, e, x, y
    <3>7. /\ Len(e) \in Nat /\ Len(y) \in Nat /\ Len(x) = Len(e) + Len(y)
          /\ \A i \in 1 .. Len(e) + Len(y) : x[i] = IF i <= Len(e) THEN e[i] ELSE y[i - Len(e)]
      BY <3>2, ConcatProperties, TextLength DEF String
    <3>8. Len(e) \in Nat \ {0} /\ e = Escape(c)
      BY <3>1, CharLength DEF e
    <3>9. /\ u[q] = e[1] /\ q - 1 + 1 = q /\ q <= Len(u)
          /\ Len(e) > 1 => u[q + 1] = e[2]
      <4>1. 1 \in 1 .. Len(x) /\ x[1] = e[1]
        BY <3>7, <3>8
      <4>2. u[q - 1 + 1] = x[1] /\ q - 1 + 1 = q
        BY <3>5, <4>1
      <4>3. ASSUME Len(e) > 1 PROVE u[q + 1] = e[2]
        <5>1. 2 \in 1 .. Len(x) /\ x[2] = e[2]
          BY <3>7, <4>3
        <5>2. u[q - 1 + 2] = x[2] /\ q - 1 + 2 = q + 1
          BY <3>5, <5>1
        <5> QED BY <5>1, <5>2
      <4>4. q <= Len(u)
        BY <3>5, <3>7, <3>8
      <4> QED BY <4>1, <4>2, <4>3, <4>4
    <3>10. Escaped(u, q) = c /\ EscapeLen(u, q) = Len(e)
      BY <3>1, <3>8, <3>9, CharComesBack
    <3>11. Ends(u, q + Len(e), y)
      <4>1. Len(u) = q + Len(e) - 1 + Len(y)
        BY <3>5, <3>7
      <4>2. ASSUME NEW i \in 1 .. Len(y) PROVE u[q + Len(e) - 1 + i] = y[i]
        <5>1. /\ Len(e) + i \in 1 .. Len(e) + Len(y) /\ ~(Len(e) + i <= Len(e))
              /\ Len(e) + i - Len(e) = i
          BY <3>7, <3>8
        <5>2. x[Len(e) + i] = y[i]
          BY <3>7, <5>1
        <5>3. q - 1 + (Len(e) + i) = q + Len(e) - 1 + i
          BY <3>7
        <5>4. u[q - 1 + (Len(e) + i)] = x[Len(e) + i]
          BY <3>5, <3>7, <5>1
        <5> QED BY <5>2, <5>3, <5>4
      <4>3. Len(u) = (q + Len(e)) - 1 + Len(y)
        BY <4>1
      <4> DEFINE k == q + Len(e)
      <4>4. Len(u) = k - 1 + Len(y) /\ \A i \in 1 .. Len(y) : u[k - 1 + i] = y[i]
        BY <4>2, <4>3
      <4> HIDE DEF k
      <4>5. Ends(u, k, y)
        BY <4>4 DEF Ends
      <4> QED BY <4>5 DEF k
    <3>12. f[q + Len(e)] = r
      <4>1. q + Len(e) \in Nat \ {0}
        BY <3>7
      <4>2. n - 1 \notin T
        BY <3>1, <3>6
      <4> QED BY <3>1, <3>11, <4>1, <4>2 DEF y
    <3>13. f[q] = <<c>> \o r
      <4>1. ~(q > Len(u))
        BY <3>5, <3>7, <3>9
      <4> QED BY <3>4, <3>10, <3>12, <4>1
    <3> QED BY <2>2, <3>3, <3>13
  <2> QED BY <2>3, <2>4
<1>2. Len(s) \in Nat /\ Len(s) \notin T
  <2>1. Len(s) \in Nat
    BY TextLength
  <2> QED BY <1>1, <2>1
<1> QED BY <1>2

(* escape_putline, inifile_load: a text that is written is read as it was. *)
THEOREM WrittenIsRead == \A s \in String : Unescape[EscapeText[s]] = s
<1> SUFFICES ASSUME NEW s \in String PROVE Unescape[EscapeText[s]] = s
  OBVIOUS
<1>1. EscapeText[s] \in String
  BY EscapeTextValue
<1>2. PICK f : Unescape[EscapeText[s]] = f[1] /\ Unescaping(EscapeText[s], f)
  BY <1>1, UnescapeValue
<1>3. Ends(EscapeText[s], 1, EscapeText[s])
  <2>1. Len(EscapeText[s]) \in Nat
    BY <1>1, TextLength
  <2> QED BY <2>1 DEF Ends
<1> QED BY <1>1, <1>2, <1>3, TextComesBack

-----------------------------------------------------------------------------
(* xstrip: what is left is a part of the text, and what there is to see in *)
(* it.                                                                     *)
Visible(s) == \E i \in DOMAIN s : s[i] \notin White

Padded(s) == s # << >> /\ (s[1] \in White \/ s[Len(s)] \in White)

LEMMA StrippedValue ==
  ASSUME NEW s \in String
  PROVE  Stripped[s] = IF ~Padded(s) THEN s
                       ELSE IF s[1] \in White THEN Stripped[Tail(s)]
                       ELSE Stripped[Front(s)]
<1> DEFINE Next_(f) == [t \in String |->
                          IF t = << >> THEN << >>
                          ELSE IF t[1] \in White THEN f[Tail(t)]
                          ELSE IF t[Len(t)] \in White THEN f[Front(t)] ELSE t]
           B == {t \in String : ~Padded(t)}
           out == [t \in String |-> t]
           step == [w \in String \X String |-> w[2]]
           Rest(t) == IF t = << >> THEN t
                      ELSE IF t[1] \in White THEN Tail(t) ELSE Front(t)
           next == [t \in String |-> Rest(t)]
           size == [t \in String |-> Len(t)]
<1>1. step \in [String \X String -> String] /\ out \in [String -> String]
  OBVIOUS
<1>2. ASSUME NEW t \in String
      PROVE  Rest(t) \in String /\ (Padded(t) => Len(Rest(t)) < Len(t))
  <2>1. CASE t = << >>
    BY <2>1 DEF Padded
  <2>2. CASE t # << >>
    <3>1. /\ Tail(t) \in String /\ Len(Tail(t)) = Len(t) - 1 /\ Len(t) \in Nat
          /\ Front(t) \in String /\ Len(Front(t)) = Len(t) - 1
      BY <2>2, TextEnds
    <3>2. Rest(t) = Tail(t) \/ Rest(t) = Front(t)
      BY <2>2
    <3> HIDE DEF Rest
    <3>3. Rest(t) \in String /\ Len(Rest(t)) = Len(t) - 1
      BY <3>1, <3>2
    <3>4. Len(t) - 1 < Len(t)
      BY <3>1
    <3> QED BY <3>3, <3>4
  <2> QED BY <2>1, <2>2
<1> HIDE DEF Rest
<1>3. next \in [String -> String]
  BY <1>2
<1>4. size \in [String -> Nat]
  BY TextLength
<1>5. /\ \A t \in String : next[t] = Rest(t) /\ out[t] = t /\ size[t] = Len(t)
      /\ \A t \in String : t \in B <=> ~Padded(t)
      /\ \A t, v \in String : step[<<t, v>>] = v
  OBVIOUS
<1> HIDE DEF B, out, step, next, size
<1>6. ASSUME NEW t \in String, t \notin B PROVE size[next[t]] < size[t]
  BY <1>2, <1>5, <1>6
<1>7. PICK g \in [String -> String] : Recurs(g, String, B, out, step, next)
  BY <1>1, <1>3, <1>4, <1>6, Recursion
<1>8. g = Next_(g)
  <2>1. ASSUME NEW t \in String
        PROVE  g[t] = IF t = << >> THEN << >>
                      ELSE IF t[1] \in White THEN g[Tail(t)]
                      ELSE IF t[Len(t)] \in White THEN g[Front(t)] ELSE t
    <3>1. CASE t \in B
      <4>1. g[t] = t
        BY <1>5, <1>7, <3>1 DEF Recurs
      <4> QED BY <1>5, <3>1, <4>1 DEF Padded
    <3>2. CASE t \notin B
      <4>1. g[t] = g[Rest(t)]
        <5>1. g[t] = step[<<t, g[Rest(t)]>>]
          BY <1>5, <1>7, <3>2 DEF Recurs
        <5>2. g[Rest(t)] \in String
          BY <1>2, <1>7
        <5> QED BY <1>5, <5>1, <5>2
      <4>2. Padded(t)
        BY <1>5, <3>2
      <4> QED BY <4>1, <4>2 DEF Rest, Padded
    <3> QED BY <3>1, <3>2
  <2>2. g = [t \in String |-> g[t]]
    OBVIOUS
  <2> QED BY <2>1, <2>2
<1>9. Stripped = CHOOSE f : f = Next_(f)
  BY Zenon DEF Stripped
<1>10. Stripped = Next_(Stripped)
  <2> HIDE DEF Next_
  <2> QED BY <1>8, <1>9, Zenon
<1> DEFINE e == Stripped
<1>11. e = Next_(e)
  BY <1>10
<1> HIDE DEF e
<1>12. e[s] = IF s = << >> THEN << >>
              ELSE IF s[1] \in White THEN e[Tail(s)]
              ELSE IF s[Len(s)] \in White THEN e[Front(s)] ELSE s
  BY <1>11
<1> QED BY <1>12 DEF e, Padded

LEMMA StrippedText ==
  ASSUME NEW s \in String
  PROVE  Stripped[s] \in String /\ (Visible(s) => Visible(Stripped[s]))
<1> DEFINE Kept_(t) == Stripped[t] \in String /\ (Visible(t) => Visible(Stripped[t]))
           T == {n \in Nat : \E t \in String : Len(t) = n /\ ~Kept_(t)}
<1>1. ASSUME T # {} PROVE FALSE
  <2>1. PICK n \in T : \A k \in T : n <= k
    <3>1. T \in SUBSET Nat
      OBVIOUS
    <3> HIDE DEF T
    <3> QED BY <1>1, <3>1, LeastNumber
  <2>2. PICK t \in String : Len(t) = n /\ ~Kept_(t)
    BY <2>1
  <2>3. Padded(t)
    <3>1. ASSUME ~Padded(t) PROVE FALSE
      <4>1. Stripped[t] = t
        BY <3>1, StrippedValue
      <4> QED BY <2>2, <4>1
    <3> QED BY <3>1
  <2>4. /\ n \in Nat \ {0} /\ n - 1 \in Nat /\ ~(n <= n - 1) /\ DOMAIN t = 1 .. n
        /\ Tail(t) \in String /\ Len(Tail(t)) = n - 1 /\ DOMAIN Tail(t) = 1 .. n - 1
        /\ Front(t) \in String /\ Len(Front(t)) = n - 1 /\ DOMAIN Front(t) = 1 .. n - 1
        /\ \A i \in 1 .. n - 1 : Tail(t)[i] = t[i + 1] /\ Front(t)[i] = t[i]
    <3>1. t # << >>
      BY <2>3 DEF Padded
    <3>2. \A x \in String : DOMAIN x = 1 .. Len(x)
      BY DEF String
    <3> QED BY <2>2, <3>1, <3>2, TextEnds
  <2>5. ASSUME NEW r \in String, Len(r) = n - 1 PROVE Kept_(r)
    <3>1. n - 1 \notin T
      BY <2>1, <2>4
    <3> QED BY <2>4, <2>5, <3>1
  <2>6. CASE t[1] \in White
    <3>1. Stripped[t] = Stripped[Tail(t)]
      BY <2>3, <2>6, StrippedValue
    <3>2. ASSUME Visible(t) PROVE Visible(Tail(t))
      <4>1. PICK i \in 1 .. n : t[i] \notin White
        BY <2>4, <3>2 DEF Visible
      <4>2. i - 1 \in 1 .. n - 1 /\ (i - 1) + 1 = i
        BY <2>4, <2>6, <4>1
      <4>3. Tail(t)[i - 1] \notin White
        BY <2>4, <4>1, <4>2
      <4> QED BY <2>4, <4>2, <4>3 DEF Visible
    <3>3. Kept_(Tail(t))
      BY <2>4, <2>5
    <3> QED BY <2>2, <3>1, <3>2, <3>3
  <2>7. CASE t[1] \notin White
    <3>1. Stripped[t] = Stripped[Front(t)] /\ t[n] \in White
      BY <2>2, <2>3, <2>7, StrippedValue DEF Padded
    <3>2. ASSUME Visible(t) PROVE Visible(Front(t))
      <4>1. PICK i \in 1 .. n : t[i] \notin White
        BY <2>4, <3>2 DEF Visible
      <4>2. i \in 1 .. n - 1
        BY <2>4, <3>1, <4>1
      <4> QED BY <2>4, <4>1, <4>2 DEF Visible
    <3>3. Kept_(Front(t))
      BY <2>4, <2>5
    <3> QED BY <2>2, <3>1, <3>2, <3>3
  <2> QED BY <2>6, <2>7
<1>2. Len(s) \in Nat
  BY TextLength
<1>3. Len(s) \notin T
  BY <1>1
<1> QED BY <1>2, <1>3

(* A text that went through the file.                                      *)
LEMMA LineTextRead ==
  ASSUME NEW s \in String, s # Null
  PROVE  LineText(s) = Stripped[s]
<1>1. Text(s) = s
  BY DEF Text
<1> QED BY <1>1, WrittenIsRead DEF LineText, LineRead

LEMMA NullIsNoText == Null \notin String
<1>1. "NULL" \notin Chars
  BY DEF Chars
<1>2. Len(Null) = 1 /\ Null[1] = "NULL"
  BY DEF Null
<1>3. ASSUME Null \in String PROVE FALSE
  <2>1. Null[1] \in Chars
    <3> DEFINE t == Null
    <3>1. t \in String /\ Len(t) = 1
      BY <1>2, <1>3
    <3> HIDE DEF t
    <3>2. t # << >>
      BY <3>1
    <3>3. t[1] \in Chars
      BY <3>1, <3>2, TextEnds
    <3> QED BY <3>3 DEF t
  <2> QED BY <1>1, <1>2, <2>1
<1> QED BY <1>3

-----------------------------------------------------------------------------
(* The messages.                                                           *)

LEMMA SequenceOf ==
  ASSUME NEW T, NEW s \in Seq(T)
  PROVE  IsSeq(s) /\ Len(s) \in Nat /\ DOMAIN s = 1 .. Len(s)
<1>1. Len(s) \in Nat /\ DOMAIN s = 1 .. Len(s) /\ s = [i \in 1 .. Len(s) |-> s[i]]
  OBVIOUS
<1> DEFINE S == {s[i] : i \in DOMAIN s}
<1>2. s \in [1 .. Len(s) -> S]
  BY <1>1
<1>3. s \in Seq(S)
  <2> HIDE DEF S
  <2> QED BY <1>1, <1>2
<1> QED BY <1>1, <1>3 DEF IsSeq

LEMMA NothingHeld ==
  ASSUME NEW T, NEW s \in Seq(T), Len(s) = 0
  PROVE  IsSeq(s) /\ \A i : i \notin DOMAIN s
<1>1. IsSeq(s) /\ DOMAIN s = 1 .. Len(s)
  BY SequenceOf
<1>2. \A i : i \notin DOMAIN s
  BY <1>1
<1> QED BY <1>1, <1>2

LEMMA Joined ==
  ASSUME NEW s, NEW t, IsSeq(s), IsSeq(t)
  PROVE  /\ IsSeq(s \o t) /\ \A i \in 1 .. Len(s) : (s \o t)[i] = s[i]
         /\ \A k \in 1 .. Len(t) : (s \o t)[Len(s) + k] = t[k]
<1> DEFINE S == {s[i] : i \in DOMAIN s} \cup {t[i] : i \in DOMAIN t}
<1>1. s \in Seq(S) /\ t \in Seq(S)
  <2>1. s \in Seq({s[i] : i \in DOMAIN s}) /\ t \in Seq({t[i] : i \in DOMAIN t})
    BY DEF IsSeq
  <2>2. {s[i] : i \in DOMAIN s} \subseteq S /\ {t[i] : i \in DOMAIN t} \subseteq S
    OBVIOUS
  <2>3. \A A, B, x : A \subseteq B /\ x \in Seq(A) => x \in Seq(B)
    OBVIOUS
  <2> HIDE DEF S
  <2> QED BY <2>1, <2>2, <2>3
<1> HIDE DEF S
<1>2. s \o t \in Seq(S) /\ Len(s) \in Nat /\ Len(t) \in Nat
      /\ \A i \in 1 .. Len(s) + Len(t) :
           (s \o t)[i] = IF i <= Len(s) THEN s[i] ELSE t[i - Len(s)]
  BY <1>1, ConcatProperties
<1>3. IsSeq(s \o t)
  BY <1>2, SequenceOf
<1>4. ASSUME NEW k \in 1 .. Len(t)
      PROVE  (s \o t)[Len(s) + k] = t[k]
  <2>1. /\ Len(s) + k \in 1 .. Len(s) + Len(t) /\ ~(Len(s) + k <= Len(s))
        /\ Len(s) + k - Len(s) = k
    BY <1>2
  <2> QED BY <1>2, <2>1
<1> QED BY <1>2, <1>3, <1>4

LEMMA Appended ==
  ASSUME NEW s, IsSeq(s), NEW x
  PROVE  /\ IsSeq(Append(s, x)) /\ Len(s) \in Nat /\ Len(Append(s, x)) = Len(s) + 1
         /\ DOMAIN s = 1 .. Len(s) /\ DOMAIN Append(s, x) = 1 .. Len(s) + 1
         /\ Append(s, x)[Len(s) + 1] = x
         /\ \A i \in 1 .. Len(s) : Append(s, x)[i] = s[i]
<1> DEFINE S == {s[i] : i \in DOMAIN s}
<1>1. s \in Seq(S) /\ s \in Seq(S \cup {x})
  BY DEF IsSeq
<1> HIDE DEF S
<1>2. /\ Append(s, x) \in Seq(S \cup {x}) /\ Len(s) \in Nat
      /\ DOMAIN Append(s, x) = 1 .. Len(s) + 1 /\ DOMAIN s = 1 .. Len(s)
      /\ Append(s, x)[Len(s) + 1] = x /\ Len(Append(s, x)) = Len(s) + 1
      /\ \A i \in 1 .. Len(s) : Append(s, x)[i] = s[i]
  BY <1>1
<1> QED BY <1>2, SequenceOf

LEMMA TailOf ==
  ASSUME NEW s, IsSeq(s), s # << >>
  PROVE  /\ Head(s) = s[1] /\ 1 \in DOMAIN s /\ IsSeq(Tail(s))
         /\ \A i \in DOMAIN Tail(s) : i + 1 \in DOMAIN s /\ Tail(s)[i] = s[i + 1]
<1> DEFINE S == {s[i] : i \in DOMAIN s}
<1>1. s \in Seq(S)
  BY DEF IsSeq
<1> HIDE DEF S
<1>2. /\ Head(s) = s[1] /\ 1 \in DOMAIN s /\ Tail(s) \in Seq(S)
      /\ \A i \in DOMAIN Tail(s) : i + 1 \in DOMAIN s /\ Tail(s)[i] = s[i + 1]
  BY <1>1
<1> QED BY <1>2, SequenceOf

LEMMA JoinedLength ==
  \A s, t : IsSeq(s) /\ IsSeq(t) => Len(s \o t) = Len(s) + Len(t) /\ Len(t) \in Nat
<1> SUFFICES ASSUME NEW s, NEW t, IsSeq(s), IsSeq(t)
             PROVE  Len(s \o t) = Len(s) + Len(t) /\ Len(t) \in Nat
  OBVIOUS
<1> DEFINE S == {s[i] : i \in DOMAIN s}
           T == {t[i] : i \in DOMAIN t}
           U == S \cup T
<1>1. s \in Seq(S) /\ t \in Seq(T)
  BY DEF IsSeq
<1>2. \A A, B, x : A \subseteq B /\ x \in Seq(A) => x \in Seq(B)
  OBVIOUS
<1>3. S \subseteq U /\ T \subseteq U
  OBVIOUS
<1> HIDE DEF S, T, U
<1>4. s \in Seq(U) /\ t \in Seq(U)
  BY <1>1, <1>2, <1>3
<1> QED BY <1>4, ConcatProperties

(* The sequences are joined one after the other.                           *)
Joins(f, seqs, S) ==
  /\ FlattenSeq(seqs) = f[Len(seqs)] /\ f[1] = seqs[1]
  /\ \A i \in 1 .. Len(seqs) : f[i] \in Seq(S) /\ (i # 1 => f[i] = f[i - 1] \o seqs[i])

LEMMA FlattenedSteps ==
  ASSUME NEW S, NEW seqs \in Seq(Seq(S)), Len(seqs) # 0
  PROVE  \E f : Joins(f, seqs, S)
<1> DEFINE n == Len(seqs)
           Next_(f) == [i \in 1 .. n |-> IF i = 1 THEN seqs[i] ELSE f[i - 1] \o seqs[i]]
           flat == CHOOSE f : f = Next_(f)
           step == [w \in (1 .. n - 1) \X Seq(S) |-> w[2] \o seqs[w[1] + 1]]
<1>0. n # 0
  OBVIOUS
<1>1. n \in Nat /\ \A i \in 1 .. n : seqs[i] \in Seq(S)
  OBVIOUS
<1>2. FlattenSeq(seqs) = flat[n]
  BY <1>0, Zenon DEF FlattenSeq
<1> HIDE DEF n
<1>3. n - 1 \in Nat /\ \A i \in 1 .. n - 1 : i + 1 \in 1 .. n
  BY <1>1, <1>0
<1> DEFINE T == Seq(S)
<1>4. step \in [(1 .. n - 1) \X T -> T] /\ seqs[1] \in T
  <2>1. ASSUME NEW w \in (1 .. n - 1) \X Seq(S)
        PROVE  w[2] \o seqs[w[1] + 1] \in Seq(S)
    <3>1. w[2] \in Seq(S) /\ w[1] \in 1 .. n - 1
      OBVIOUS
    <3>2. seqs[w[1] + 1] \in Seq(S)
      BY <1>1, <1>3, <3>1
    <3> QED BY <3>1, <3>2, ConcatProperties
  <2>2. 1 \in 1 .. n
    BY <1>1, <1>0
  <2> QED BY <1>1, <2>1, <2>2
<1>5. \A i \in 1 .. n - 1, t \in T : step[<<i, t>>] = t \o seqs[i + 1]
  OBVIOUS
<1> HIDE DEF T, step
<1>6. PICK f \in [0 .. n - 1 -> T] : Computed(f, n - 1, seqs[1], step)
  BY <1>3, <1>4, StepByStep
<1> DEFINE g == [i \in 1 .. n |-> f[i - 1]]
<1>7. ASSUME NEW i \in 1 .. n
      PROVE  g[i] = IF i = 1 THEN seqs[i] ELSE g[i - 1] \o seqs[i]
  <2>1. CASE i = 1
    BY <1>6, <2>1 DEF Computed
  <2>2. CASE i # 1
    <3>1. /\ i - 1 \in 1 .. n - 1 /\ i - 1 \in 1 .. n /\ (i - 1) + 1 = i
          /\ (i - 1) - 1 \in 0 .. n - 1
      BY <1>1, <2>2
    <3>2. f[i - 1] = step[<<i - 1, f[(i - 1) - 1]>>]
      BY <1>6, <3>1 DEF Computed
    <3>3. f[(i - 1) - 1] \in T
      BY <3>1
    <3>4. f[i - 1] = f[(i - 1) - 1] \o seqs[i]
      BY <1>5, <3>1, <3>2, <3>3
    <3> QED BY <2>2, <3>1, <3>4
  <2> QED BY <2>1, <2>2
<1>8. g = Next_(g)
  <2>1. g = [i \in 1 .. n |-> g[i]]
    OBVIOUS
  <2> HIDE DEF g
  <2> QED BY <1>7, <2>1
<1>9. flat = Next_(flat)
  <2> HIDE DEF g, Next_
  <2> QED BY <1>8, Zenon
<1> HIDE DEF g, flat
<1>10. \A i \in 1 .. n : flat[i] = IF i = 1 THEN seqs[i] ELSE flat[i - 1] \o seqs[i]
  BY <1>9
<1> DEFINE Bad == {i \in 1 .. n : flat[i] \notin Seq(S)}
<1>11. ASSUME Bad # {} PROVE FALSE
  <2>1. PICK m \in Bad : \A k \in Bad : m <= k
    <3>1. Bad \in SUBSET Nat
      BY <1>1
    <3> HIDE DEF Bad
    <3> QED BY <1>11, <3>1, LeastNumber
  <2>2. m \in 1 .. n /\ flat[m] \notin Seq(S)
    OBVIOUS
  <2>3. m # 1
    BY <1>1, <1>10, <2>2
  <2>4. m - 1 \in 1 .. n /\ ~(m <= m - 1)
    BY <1>1, <2>2, <2>3
  <2>5. flat[m - 1] \in Seq(S)
    BY <2>1, <2>4
  <2>6. flat[m] = flat[m - 1] \o seqs[m] /\ seqs[m] \in Seq(S)
    BY <1>1, <1>10, <2>2, <2>3
  <2> QED BY <2>2, <2>5, <2>6, ConcatProperties
<1>12. \A i \in 1 .. n : flat[i] \in Seq(S)
  BY <1>11
<1>13. 1 \in 1 .. n
  BY <1>1, <1>0
<1>14. flat[1] = seqs[1] /\ \A i \in 1 .. n : i # 1 => flat[i] = flat[i - 1] \o seqs[i]
  BY <1>10, <1>13
<1>15. Joins(flat, seqs, S)
  BY <1>2, <1>12, <1>14 DEF n, Joins
<1> QED BY <1>15

LEMMA Flattened ==
  ASSUME NEW S, NEW seqs \in Seq(Seq(S))
  PROVE  FlattenSeq(seqs) \in Seq(S)
<1>1. CASE Len(seqs) = 0
  <2>1. FlattenSeq(seqs) = seqs
    BY <1>1 DEF FlattenSeq
  <2>2. seqs = << >>
    BY <1>1
  <2> QED BY <2>1, <2>2
<1>2. CASE Len(seqs) # 0
  <2>1. Len(seqs) \in 1 .. Len(seqs)
    BY <1>2
  <2>2. PICK f : Joins(f, seqs, S)
    BY <1>2, FlattenedSteps
  <2> QED BY <2>1, <2>2 DEF Joins
<1> QED BY <1>1, <1>2

(* Joined sequences of five.                                               *)
LEMMA FlattenedFives ==
  ASSUME NEW S, NEW seqs \in Seq(Seq(S)), \A i \in 1 .. Len(seqs) : Len(seqs[i]) = 5
  PROVE  /\ Len(FlattenSeq(seqs)) = 5 * Len(seqs)
         /\ \A i \in 1 .. Len(seqs), j \in 1 .. 5 :
              FlattenSeq(seqs)[5 * (i - 1) + j] = seqs[i][j]
<1> DEFINE n == Len(seqs)
<1>1. n \in Nat /\ \A i \in 1 .. n : seqs[i] \in Seq(S)
  OBVIOUS
<1>2. CASE n = 0
  <2>1. FlattenSeq(seqs) = seqs
    BY <1>2 DEF FlattenSeq
  <2> QED BY <1>2, <2>1
<1>3. CASE n # 0
  <2>0. PICK f : Joins(f, seqs, S)
    BY <1>3, FlattenedSteps
  <2>1. /\ FlattenSeq(seqs) = f[n] /\ f[1] = seqs[1]
        /\ \A i \in 1 .. n : f[i] \in Seq(S) /\ (i # 1 => f[i] = f[i - 1] \o seqs[i])
    BY <2>0 DEF Joins
  <2> DEFINE Good(m) == /\ Len(f[m]) = 5 * m
                        /\ \A i \in 1 .. m, j \in 1 .. 5 : f[m][5 * (i - 1) + j] = seqs[i][j]
             Bad == {m \in 1 .. n : ~Good(m)}
  <2> HIDE DEF n
  <2>2. Good(1)
    <3>1. 1 \in 1 .. n
      BY <1>1, <1>3
    <3>2. \A i \in 1 .. 1, j \in 1 .. 5 : i = 1 /\ 5 * (i - 1) + j = j
      OBVIOUS
    <3> QED BY <2>1, <3>1, <3>2 DEF n
  <2>3. ASSUME Bad # {} PROVE FALSE
    <3>1. PICK m \in Bad : \A k \in Bad : m <= k
      <4>1. Bad \in SUBSET Nat
        BY <1>1
      <4> HIDE DEF Bad
      <4> QED BY <2>3, <4>1, LeastNumber
    <3>2. m \in 1 .. n /\ ~Good(m)
      OBVIOUS
    <3>3. m # 1
      BY <2>2, <3>2
    <3>4. m - 1 \in 1 .. n /\ ~(m <= m - 1) /\ m \in Nat
      BY <1>1, <3>2, <3>3
    <3>5. Good(m - 1)
      BY <3>1, <3>4
    <3> DEFINE g == f[m - 1]
               t == seqs[m]
    <3>6. f[m] = g \o t /\ g \in Seq(S) /\ t \in Seq(S) /\ Len(t) = 5
      BY <1>1, <2>1, <3>2, <3>3, <3>4 DEF n
    <3>7. Len(g) = 5 * (m - 1) /\ \A i \in 1 .. m - 1, j \in 1 .. 5 : g[5 * (i - 1) + j] = seqs[i][j]
      BY <3>5
    <3> HIDE DEF g, t, Good
    <3>8. /\ Len(f[m]) = Len(g) + 5
          /\ \A k \in 1 .. Len(g) + 5 : f[m][k] = IF k <= Len(g) THEN g[k] ELSE t[k - Len(g)]
      <4>1. /\ Len(g \o t) = Len(g) + Len(t)
            /\ \A k \in 1 .. Len(g) + Len(t) :
                 (g \o t)[k] = IF k <= Len(g) THEN g[k] ELSE t[k - Len(g)]
        BY <3>6, ConcatProperties, Zenon
      <4> QED BY <3>6, <4>1, Zenon
    <3> USE DEF t, Good
    <3>9. Len(f[m]) = 5 * m
      BY <3>4, <3>7, <3>8
    <3>10. ASSUME NEW i \in 1 .. m, NEW j \in 1 .. 5
           PROVE  f[m][5 * (i - 1) + j] = seqs[i][j]
      <4>1. CASE i = m
        <5>1. /\ 5 * (i - 1) + j \in 1 .. Len(g) + 5 /\ ~(5 * (i - 1) + j <= Len(g))
              /\ 5 * (i - 1) + j - Len(g) = j
          BY <3>4, <3>7, <4>1
        <5> QED BY <3>8, <4>1, <5>1
      <4>2. CASE i # m
        <5>1. /\ i \in 1 .. m - 1
              /\ 5 * (i - 1) + j \in 1 .. Len(g) + 5 /\ 5 * (i - 1) + j <= Len(g)
          BY <3>4, <3>7, <4>2
        <5> QED BY <3>7, <3>8, <5>1
      <4> QED BY <4>1, <4>2
    <3> QED BY <3>2, <3>9, <3>10
  <2>4. n \in 1 .. n
    BY <1>1, <1>3
  <2>5. Good(n)
    BY <2>3, <2>4
  <2> QED BY <2>1, <2>5 DEF n
<1> QED BY <1>2, <1>3

LEMMA InOneSet ==
  ASSUME NEW seqs, IsSeq(seqs), \A i \in DOMAIN seqs : IsSeq(seqs[i])
  PROVE  \E S : seqs \in Seq(Seq(S))
<1> DEFINE S == UNION {{seqs[i][j] : j \in DOMAIN seqs[i]} : i \in DOMAIN seqs}
<1>1. seqs \in Seq({seqs[i] : i \in DOMAIN seqs})
  BY DEF IsSeq
<1>2. ASSUME NEW i \in DOMAIN seqs PROVE seqs[i] \in Seq(S)
  <2>1. seqs[i] \in Seq({seqs[i][j] : j \in DOMAIN seqs[i]})
    BY DEF IsSeq
  <2>2. {seqs[i][j] : j \in DOMAIN seqs[i]} \subseteq S
    OBVIOUS
  <2>3. \A A, B, x : A \subseteq B /\ x \in Seq(A) => x \in Seq(B)
    OBVIOUS
  <2> HIDE DEF S
  <2> QED BY <2>1, <2>2, <2>3
<1> HIDE DEF S
<1>3. seqs \in Seq(Seq(S))
  BY <1>1, <1>2
<1> QED BY <1>3

LEMMA FlattenedAny ==
  ASSUME NEW seqs, IsSeq(seqs), \A i \in DOMAIN seqs : IsSeq(seqs[i])
  PROVE  IsSeq(FlattenSeq(seqs))
<1>1. PICK S : seqs \in Seq(Seq(S))
  BY InOneSet
<1>2. FlattenSeq(seqs) \in Seq(S)
  BY <1>1, Flattened
<1> QED BY <1>2, SequenceOf

LEMMA FlattenedAnyFives ==
  ASSUME NEW seqs, IsSeq(seqs),
         \A i \in DOMAIN seqs : IsSeq(seqs[i]) /\ Len(seqs[i]) = 5
  PROVE  /\ Len(FlattenSeq(seqs)) = 5 * Len(seqs)
         /\ \A i \in 1 .. Len(seqs), j \in 1 .. 5 :
              FlattenSeq(seqs)[5 * (i - 1) + j] = seqs[i][j]
<1>1. PICK S : seqs \in Seq(Seq(S))
  BY InOneSet
<1>2. \A i \in 1 .. Len(seqs) : Len(seqs[i]) = 5
  BY SequenceOf DEF IsSeq
<1> QED BY <1>1, <1>2, FlattenedFives

(* The first values of an encoded event; those of its lists come after.    *)
IsBuilt(e) ==
  /\ DOMAIN e = DOMAIN NewEvent /\ e.cookie \in Nat /\ e.time \in Int
  /\ IsSeq(e.acts) /\ IsSeq(e.recs) /\ IsSeq(e.attrs)
  /\ \A i \in DOMAIN e.attrs : e.attrs[i].type \in {"NULL", "INT", "TIME", "STRING"}

LEMMA HeadValues ==
  ASSUME NEW e
  PROVE  /\ IsSeq(HeadArgs(e)) /\ Len(HeadArgs(e)) = 11
         /\ HeadArgs(e)[1].v = e.cookie /\ HeadArgs(e)[6].v = e.time
         /\ HeadArgs(e)[10].v = Len(e.acts)
<1> DEFINE h == HeadArgs(e)
           S == {h[i] : i \in 1 .. 11}
<1>1. Len(h) = 11 /\ DOMAIN h = 1 .. 11
  BY DEF HeadArgs
<1>2. h[1] = Arg("u", e.cookie) /\ h[6] = Arg("i", e.time) /\ h[10] = Arg("u", Len(e.acts))
  BY DEF HeadArgs
<1>3. h = [i \in 1 .. 11 |-> h[i]]
  BY DEF HeadArgs
<1> HIDE DEF h
<1>4. h \in [1 .. 11 -> S]
  BY <1>3
<1>5. h \in Seq(S)
  <2> HIDE DEF S
  <2>1. \A f : \A n \in Nat : f \in [1 .. n -> S] => f \in Seq(S)
    OBVIOUS
  <2>2. 11 \in Nat
    OBVIOUS
  <2> QED BY <1>4, <2>1, <2>2, Zenon
<1>6. IsSeq(h)
  BY <1>5, SequenceOf
<1>7. h[1].v = e.cookie /\ h[6].v = e.time /\ h[10].v = Len(e.acts)
  BY <1>2 DEF Arg
<1> QED BY <1>1, <1>6, <1>7 DEF h

LEMMA Mapped ==
  ASSUME NEW s, IsSeq(s), NEW t, t = [i \in DOMAIN s |-> t[i]]
  PROVE  IsSeq(t) /\ DOMAIN t = DOMAIN s
<1>1. Len(s) \in Nat /\ DOMAIN s = 1 .. Len(s)
  BY SequenceOf DEF IsSeq
<1> DEFINE S == {t[i] : i \in DOMAIN s}
<1>2. t \in [1 .. Len(s) -> S]
  BY <1>1
<1>3. t \in Seq(S)
  <2> HIDE DEF S
  <2> QED BY <1>1, <1>2
<1> QED BY <1>3, SequenceOf

LEMMA OneValue == \A a : IsSeq(<<a>>)
<1> SUFFICES ASSUME NEW a PROVE IsSeq(<<a>>)
  OBVIOUS
<1>1. <<a>> \in Seq({a})
  OBVIOUS
<1> QED BY <1>1, SequenceOf

LEMMA ActionValues == \A a : IsSeq(ActionArgs(a)) /\ Len(ActionArgs(a)) = 5
<1> SUFFICES ASSUME NEW a PROVE IsSeq(ActionArgs(a)) /\ Len(ActionArgs(a)) = 5
  OBVIOUS
<1>0. Len(ActionArgs(a)) = 5
  BY DEF ActionArgs
<1> DEFINE t == ActionArgs(a)
           S == {t[i] : i \in 1 .. 5}
<1>1. t = [i \in 1 .. 5 |-> t[i]]
  BY DEF ActionArgs
<1> HIDE DEF t
<1>2. t \in [1 .. 5 -> S]
  BY <1>1
<1>3. t \in Seq(S)
  <2> HIDE DEF S
  <2>1. \A f : \A n \in Nat : f \in [1 .. n -> S] => f \in Seq(S)
    OBVIOUS
  <2>2. 5 \in Nat
    OBVIOUS
  <2> QED BY <1>2, <2>1, <2>2, Zenon
<1> QED BY <1>0, <1>3, SequenceOf DEF t

LEMMA AttrValues ==
  ASSUME NEW att, att.type \in {"NULL", "INT", "TIME", "STRING"}
  PROVE  IsSeq(AttrArgs(att))
<1> DEFINE name == <<TextArg(att.name), Arg("i", att.type)>>
<1>1. IsSeq(name)
  <2>1. name \in Seq({TextArg(att.name), Arg("i", att.type)})
    OBVIOUS
  <2> HIDE DEF name
  <2> QED BY <2>1, SequenceOf
<1> HIDE DEF name
<1>2. IsSeq(<< >>)
  <2>1. << >> \in Seq({})
    OBVIOUS
  <2> QED BY <2>1, SequenceOf
<1>3. CASE att.type \in {"INT", "TIME"}
  <2>1. AttrArgs(att) = name \o <<Arg("i", att.val)>>
    BY <1>3 DEF AttrArgs, name
  <2> QED BY <1>1, <2>1, Joined, OneValue
<1>4. CASE att.type = "STRING"
  <2>1. AttrArgs(att) = name \o <<TextArg(att.val)>>
    BY <1>4 DEF AttrArgs, name
  <2> QED BY <1>1, <2>1, Joined, OneValue
<1>5. CASE att.type = "NULL"
  <2>1. AttrArgs(att) = name \o << >>
    BY <1>5 DEF AttrArgs, name
  <2> QED BY <1>1, <1>2, <2>1, Joined
<1> QED BY <1>3, <1>4, <1>5

(* The values of the actions in a message.                                 *)
HoldsActions(msg, acts) ==
  /\ msg[10].v = Len(acts)
  /\ \A i \in 1 .. Len(acts), j \in 1 .. 5 :
       msg[11 + (5 * (i - 1) + j)] = ActionArgs(acts[i])[j]

(* encode_event: wherever it is decoded, the cookie comes first, the time  *)
(* is the sixth value, and every action has the place it is looked for.    *)
LEMMA EncodedValues ==
  ASSUME NEW e, IsBuilt(e)
  PROVE  /\ Encode(e)[1].v = e.cookie /\ Encode(e)[6].v = e.time
         /\ EncodeOld(e)[1].v = e.cookie /\ EncodeOld(e)[6].v = e.time
         /\ HoldsActions(Encode(e), e.acts) /\ HoldsActions(EncodeOld(e), e.acts)
<1> DEFINE acts == [i \in DOMAIN e.acts |-> ActionArgs(e.acts[i])]
           recs == [i \in DOMAIN e.recs |-> RecurArgs(e.recs[i])]
           attrs == [i \in DOMAIN e.attrs |-> AttrArgs(e.attrs[i])]
<1>1. /\ IsSeq(EncodeActions(e)) /\ Len(EncodeActions(e)) = 5 * Len(e.acts)
      /\ \A i \in 1 .. Len(e.acts), j \in 1 .. 5 :
           EncodeActions(e)[5 * (i - 1) + j] = ActionArgs(e.acts[i])[j]
  <2>1. IsSeq(acts) /\ DOMAIN acts = DOMAIN e.acts
    <3>1. acts = [i \in DOMAIN e.acts |-> acts[i]]
      OBVIOUS
    <3> HIDE DEF acts
    <3> QED BY <3>1, Mapped DEF IsBuilt
  <2>2. \A i \in DOMAIN acts : IsSeq(acts[i]) /\ Len(acts[i]) = 5
    BY ActionValues
  <2>3. EncodeActions(e) = FlattenSeq(acts)
    BY Zenon DEF EncodeActions
  <2>4. \A i \in DOMAIN e.acts : acts[i] = ActionArgs(e.acts[i])
    OBVIOUS
  <2> HIDE DEF acts
  <2>5. IsSeq(EncodeActions(e))
    BY <2>1, <2>2, <2>3, FlattenedAny
  <2>6. /\ DOMAIN acts = 1 .. Len(acts) /\ Len(acts) \in Nat
        /\ DOMAIN e.acts = 1 .. Len(e.acts) /\ Len(e.acts) \in Nat
    BY <2>1, SequenceOf DEF IsSeq, IsBuilt
  <2>7. Len(acts) = Len(e.acts)
    <3>1. \A m, n \in Nat : 1 .. m = 1 .. n => m = n
      <4> SUFFICES ASSUME NEW m \in Nat, NEW n \in Nat, 1 .. m = 1 .. n PROVE m = n
        OBVIOUS
      <4>1. \A k : k \in 1 .. m <=> k \in 1 .. n
        OBVIOUS
      <4>2. m \in 1 .. m <=> m \in 1 .. n
        BY <4>1
      <4>3. n \in 1 .. m <=> n \in 1 .. n
        BY <4>1
      <4> QED BY <4>2, <4>3
    <3> QED BY <2>1, <2>6, <3>1
  <2>8. /\ Len(FlattenSeq(acts)) = 5 * Len(acts)
        /\ \A i \in 1 .. Len(acts), j \in 1 .. 5 :
             FlattenSeq(acts)[5 * (i - 1) + j] = acts[i][j]
    BY <2>1, <2>2, FlattenedAnyFives
  <2> QED BY <2>3, <2>4, <2>5, <2>6, <2>7, <2>8
<1>2. IsSeq(EncodeRecurrences(e))
  <2>1. IsSeq(recs) /\ DOMAIN recs = DOMAIN e.recs
    <3>1. recs = [i \in DOMAIN e.recs |-> recs[i]]
      OBVIOUS
    <3> HIDE DEF recs
    <3> QED BY <3>1, Mapped DEF IsBuilt
  <2>2. \A i \in DOMAIN recs : IsSeq(recs[i])
    BY OneValue DEF RecurArgs
  <2>3. EncodeRecurrences(e) = <<Arg("u", Len(e.recs))>> \o FlattenSeq(recs)
    BY Zenon DEF EncodeRecurrences
  <2> HIDE DEF recs
  <2>4. IsSeq(FlattenSeq(recs)) /\ IsSeq(<<Arg("u", Len(e.recs))>>)
    BY <2>1, <2>2, FlattenedAny, OneValue
  <2> QED BY <2>3, <2>4, Joined
<1>3. IsSeq(EncodeAttrs(e))
  <2>1. IsSeq(attrs) /\ DOMAIN attrs = DOMAIN e.attrs
    <3>1. attrs = [i \in DOMAIN e.attrs |-> attrs[i]]
      OBVIOUS
    <3> HIDE DEF attrs
    <3> QED BY <3>1, Mapped DEF IsBuilt
  <2>2. \A i \in DOMAIN attrs : IsSeq(attrs[i])
    BY AttrValues DEF IsBuilt
  <2>3. EncodeAttrs(e) = <<Arg("u", Len(e.attrs))>> \o FlattenSeq(attrs)
    BY Zenon DEF EncodeAttrs
  <2> HIDE DEF attrs
  <2>4. IsSeq(FlattenSeq(attrs)) /\ IsSeq(<<Arg("u", Len(e.attrs))>>)
    BY <2>1, <2>2, FlattenedAny, OneValue
  <2> QED BY <2>3, <2>4, Joined
<1> DEFINE h == HeadArgs(e)
           ha == h \o EncodeActions(e)
           har == ha \o EncodeRecurrences(e)
           all == har \o EncodeAttrs(e)
<1>4. IsSeq(h) /\ Len(h) = 11 /\ h[1].v = e.cookie /\ h[6].v = e.time
      /\ h[10].v = Len(e.acts)
  BY HeadValues
<1>5. EncodeOld(e) = har /\ Encode(e) = all
  BY DEF EncodeOld, Encode
<1>6. /\ IsSeq(ha) /\ \A i \in 1 .. Len(h) : ha[i] = h[i]
      /\ \A k \in 1 .. Len(EncodeActions(e)) : ha[Len(h) + k] = EncodeActions(e)[k]
  <2>1. IsSeq(EncodeActions(e)) /\ IsSeq(h)
    BY <1>1, <1>4
  <2> HIDE DEF h
  <2> QED BY <2>1, Joined
<1>7. IsSeq(har) /\ \A i \in 1 .. Len(ha) : har[i] = ha[i]
  <2> HIDE DEF ha
  <2> QED BY <1>2, <1>6, Joined
<1>8. IsSeq(all) /\ \A i \in 1 .. Len(har) : all[i] = har[i]
  <2> HIDE DEF har
  <2> QED BY <1>3, <1>7, Joined
<1>9. /\ Len(ha) \in Nat /\ Len(ha) >= 11 /\ Len(har) \in Nat /\ Len(har) >= 11
      /\ Len(ha) = 11 + 5 * Len(e.acts) /\ Len(har) >= Len(ha)
  <2>1. \A s, t : IsSeq(s) /\ IsSeq(t) => Len(s \o t) = Len(s) + Len(t) /\ Len(t) \in Nat
    BY JoinedLength
  <2>2. Len(ha) = Len(h) + Len(EncodeActions(e)) /\ Len(EncodeActions(e)) \in Nat
    <3> HIDE DEF h
    <3> QED BY <1>1, <1>4, <2>1
  <2>3. Len(har) = Len(ha) + Len(EncodeRecurrences(e)) /\ Len(EncodeRecurrences(e)) \in Nat
    <3> HIDE DEF ha
    <3> QED BY <1>2, <1>6, <2>1
  <2> HIDE DEF h, ha, har
  <2> QED BY <1>1, <1>4, <2>2, <2>3
<1> HIDE DEF h, ha, har, all
<1>10. /\ 1 \in 1 .. Len(h) /\ 1 \in 1 .. Len(ha) /\ 1 \in 1 .. Len(har)
       /\ 6 \in 1 .. Len(h) /\ 6 \in 1 .. Len(ha) /\ 6 \in 1 .. Len(har)
       /\ 10 \in 1 .. Len(h) /\ 10 \in 1 .. Len(ha) /\ 10 \in 1 .. Len(har)
  BY <1>4, <1>9
<1>11. /\ har[10].v = Len(e.acts) /\ all[10].v = Len(e.acts)
  BY <1>4, <1>6, <1>7, <1>8, <1>10
<1>12. ASSUME NEW i \in 1 .. Len(e.acts), NEW j \in 1 .. 5
       PROVE  /\ har[11 + (5 * (i - 1) + j)] = ActionArgs(e.acts[i])[j]
              /\ all[11 + (5 * (i - 1) + j)] = ActionArgs(e.acts[i])[j]
  <2> DEFINE k == 5 * (i - 1) + j
             n == Len(e.acts)
  <2>1. n \in Nat
    BY SequenceOf DEF IsBuilt, IsSeq
  <2>2. k \in 1 .. 5 * n /\ k \in Nat
    <3>1. \A a \in Nat : \A b \in 1 .. a, c \in 1 .. 5 :
            5 * (b - 1) + c \in 1 .. 5 * a /\ 5 * (b - 1) + c \in Nat
      OBVIOUS
    <3> QED BY <2>1, <3>1
  <2>3. EncodeActions(e)[k] = ActionArgs(e.acts[i])[j]
    BY <1>1
  <2> HIDE DEF k
  <2>4. ha[11 + k] = ActionArgs(e.acts[i])[j]
    BY <1>1, <1>4, <1>6, <2>2, <2>3
  <2>5. 11 + k \in 1 .. Len(ha) /\ 11 + k \in 1 .. Len(har)
    <3> HIDE DEF n
    <3>1. Len(ha) = 11 + 5 * n
      BY <1>9 DEF n
    <3> QED BY <1>9, <2>1, <2>2, <3>1
  <2>6. har[11 + k] = ha[11 + k] /\ all[11 + k] = har[11 + k]
    BY <1>7, <1>8, <2>5
  <2> QED BY <2>4, <2>6 DEF k
<1>13. HoldsActions(Encode(e), e.acts) /\ HoldsActions(EncodeOld(e), e.acts)
  BY <1>5, <1>11, <1>12 DEF HoldsActions
<1> QED BY <1>4, <1>5, <1>6, <1>7, <1>8, <1>10, <1>13

(* What decode_event makes of a message, if anything.                      *)
ActionsRead(msg) ==
  LET places == [i \in 1 .. msg[10].v |-> Len(HeadTypes) + (i - 1) * Len(ActionTypes) + 1]
  IN [i \in DOMAIN places |-> ActionAt(msg, places[i])]

EventRead(msg, recs, attrs) ==
  [cookie |-> msg[1].v, trigger |-> msg[2].v, title |-> msg[3].v,
   flags |-> msg[4].v[1], state |-> msg[4].v[2], appid |-> msg[5].v,
   time |-> msg[6].v, recurSecs |-> msg[7].v, recurCount |-> msg[8].v,
   total |-> msg[9].v, response |-> msg[11].v,
   acts |-> ActionsRead(msg), recs |-> recs, attrs |-> attrs]

LEMMA DecodedValues ==
  ASSUME NEW msg
  PROVE  \/ Decode(msg) = << >>
         \/ \E e : /\ Decode(msg) = <<e>> /\ DOMAIN e = DOMAIN NewEvent
                  /\ e.cookie = msg[1].v /\ e.time = msg[6].v
                  /\ e.acts = ActionsRead(msg)
<1>1. ASSUME Decode(msg) # << >>
      PROVE  \E recs, attrs : Decode(msg) = <<EventRead(msg, recs, attrs)>>
  BY <1>1, Zenon DEF Decode, EventRead, ActionsRead
<1>2. ASSUME Decode(msg) # << >>
      PROVE  \E e : /\ Decode(msg) = <<e>> /\ DOMAIN e = DOMAIN NewEvent
                   /\ e.cookie = msg[1].v /\ e.time = msg[6].v
                   /\ e.acts = ActionsRead(msg)
  <2>1. PICK recs, attrs : Decode(msg) = <<EventRead(msg, recs, attrs)>>
    BY <1>1, <1>2
  <2> DEFINE e == EventRead(msg, recs, attrs)
  <2>2. e.cookie = msg[1].v /\ e.time = msg[6].v /\ e.acts = ActionsRead(msg)
    BY DEF EventRead
  <2>3. DOMAIN e = DOMAIN NewEvent
    BY DEF NewEvent, EventRead
  <2>4. Decode(msg) = <<e>>
    BY <2>1
  <2> HIDE DEF e
  <2> QED BY <2>2, <2>3, <2>4
<1> QED BY <1>2

(* An action as it arrives: the missing texts are empty ones.              *)
Sent(a) ==
  [when |-> a.when, type |-> a.type, label |-> Text(a.label), command |-> Text(a.command),
   target |-> Text(a.target), args |-> Text(a.args)]

LEMMA ActionsArrive ==
  ASSUME NEW msg, NEW acts, IsSeq(acts), HoldsActions(msg, acts)
  PROVE  /\ IsSeq(ActionsRead(msg)) /\ DOMAIN ActionsRead(msg) = DOMAIN acts
         /\ \A i \in DOMAIN acts : ActionsRead(msg)[i] = Sent(acts[i])
<1> DEFINE n == Len(acts)
           places == [i \in 1 .. msg[10].v |-> Len(HeadTypes) + (i - 1) * Len(ActionTypes) + 1]
           read == [i \in DOMAIN places |-> ActionAt(msg, places[i])]
<1>1. n \in Nat /\ DOMAIN acts = 1 .. n /\ msg[10].v = n
  BY SequenceOf DEF IsSeq, HoldsActions
<1>2. ActionsRead(msg) = read
  BY Zenon DEF ActionsRead
<1>3. Len(HeadTypes) = 11 /\ Len(ActionTypes) = 5
  BY DEF HeadTypes, ActionTypes
<1>4. DOMAIN read = 1 .. n /\ \A i \in 1 .. n : read[i] = ActionAt(msg, 11 + (i - 1) * 5 + 1)
  <2> HIDE DEF n
  <2> QED BY <1>1, <1>3
<1>5. read = [i \in DOMAIN acts |-> read[i]]
  BY <1>1
<1>6. IsSeq(read) /\ DOMAIN read = DOMAIN acts
  <2> HIDE DEF read
  <2> QED BY <1>5, Mapped
<1> HIDE DEF read, places
<1>7. ASSUME NEW i \in 1 .. n
      PROVE  read[i] = Sent(acts[i])
  <2> DEFINE p == 11 + (i - 1) * 5 + 1
             t == ActionArgs(acts[i])
  <2>1. /\ p = 11 + (5 * (i - 1) + 1) /\ p + 1 = 11 + (5 * (i - 1) + 2)
        /\ p + 2 = 11 + (5 * (i - 1) + 3) /\ p + 3 = 11 + (5 * (i - 1) + 4)
        /\ p + 4 = 11 + (5 * (i - 1) + 5)
    BY <1>1
  <2>2. /\ msg[p] = t[1] /\ msg[p + 1] = t[2] /\ msg[p + 2] = t[3]
        /\ msg[p + 3] = t[4] /\ msg[p + 4] = t[5]
    <3>1. \A j \in 1 .. 5 : msg[11 + (5 * (i - 1) + j)] = t[j]
      BY DEF HoldsActions
    <3>2. 1 \in 1 .. 5 /\ 2 \in 1 .. 5 /\ 3 \in 1 .. 5 /\ 4 \in 1 .. 5 /\ 5 \in 1 .. 5
      OBVIOUS
    <3> HIDE DEF p, t
    <3> QED BY <2>1, <3>1, <3>2
  <2>3. /\ t[1].v = <<acts[i].when, acts[i].type>> /\ t[2].v = Text(acts[i].label)
        /\ t[3].v = Text(acts[i].command) /\ t[4].v = Text(acts[i].target)
        /\ t[5].v = Text(acts[i].args)
    BY DEF ActionArgs, Arg, TextArg
  <2>4. read[i] = ActionAt(msg, p)
    BY <1>4
  <2> HIDE DEF p, t
  <2> QED BY <2>2, <2>3, <2>4 DEF ActionAt, Sent
<1> QED BY <1>1, <1>2, <1>6, <1>7

(* Events as the library sends them.                                       *)
LEMMA BuiltEvent ==
  ASSUME NEW shape, IsShape(shape)
  PROVE  /\ IsBuilt(Built(shape))
         /\ Built(shape).cookie = 0 /\ Built(shape).time = shape.event.time
         /\ Built(shape).state = "NEW"
<1> DEFINE e == shape.event
           acts == [i \in DOMAIN e.acts |-> IF shape.own[i] = << >> THEN e.acts[i]
                                ELSE [e.acts[i] EXCEPT !.args = Pack(shape.own[i][1])]]
           b == Built(shape)
<1>1. b = [e EXCEPT !.acts = acts]
  BY DEF Built
<1>2. IsSeq(acts)
  <2>1. acts = [i \in DOMAIN e.acts |-> acts[i]]
    OBVIOUS
  <2>2. IsSeq(e.acts)
    BY DEF IsShape
  <2> HIDE DEF acts
  <2> QED BY <2>1, <2>2, Mapped
<1> HIDE DEF acts, b
<1>3. /\ DOMAIN b = DOMAIN e /\ b.cookie = e.cookie /\ b.time = e.time
      /\ b.state = e.state /\ b.acts = acts /\ b.recs = e.recs /\ b.attrs = e.attrs
  <2>1. DOMAIN e = DOMAIN NewEvent
    BY DEF IsShape
  <2>2. {"cookie", "time", "state", "acts", "recs", "attrs"} \subseteq DOMAIN e
    BY <2>1 DEF NewEvent
  <2> HIDE DEF e
  <2> QED BY <1>1, <2>2
<1>4. IsBuilt(b)
  BY <1>2, <1>3 DEF IsShape, IsBuilt
<1>5. b.cookie = 0 /\ b.time = e.time /\ b.state = "NEW"
  BY <1>3 DEF IsShape
<1> QED BY <1>4, <1>5 DEF b

LEMMA WithArgsBuilt ==
  ASSUME NEW e, IsBuilt(e), NEW args
  PROVE  LET r == WithArgs(e, args)
         IN  IsBuilt(r) /\ r.cookie = e.cookie /\ r.time = e.time
<1> DEFINE k == Taker(e)
           acts == [e.acts EXCEPT ![k] = [@ EXCEPT !.args = args]]
           r == [e EXCEPT !.acts = acts]
<1>1. WithArgs(e, args) = e \/ WithArgs(e, args) = r
  BY DEF WithArgs
<1> HIDE DEF k
<1>2. IsSeq(acts)
  <2>1. acts = [i \in DOMAIN e.acts |-> acts[i]]
    OBVIOUS
  <2>2. IsSeq(e.acts)
    BY DEF IsBuilt
  <2> HIDE DEF acts
  <2> QED BY <2>1, <2>2, Mapped
<1> HIDE DEF acts
<1>3. {"cookie", "time", "acts", "recs", "attrs"} \subseteq DOMAIN e
  BY DEF IsBuilt, NewEvent
<1>4. /\ DOMAIN r = DOMAIN e /\ r.cookie = e.cookie /\ r.time = e.time
      /\ r.acts = acts /\ r.recs = e.recs /\ r.attrs = e.attrs
  BY <1>3
<1> HIDE DEF r
<1>5. IsBuilt(r)
  BY <1>2, <1>4 DEF IsBuilt
<1> QED BY <1>1, <1>4, <1>5

(* What alarmd relies on in a message of the library.                      *)
IsMessage(m) ==
  /\ m.member \in {"add", "update"} => m.body[1].v \in Nat /\ m.body[6].v \in Int
  /\ m.member = "del" => m.body[1].v \in Nat
  /\ m.member = "set_snooze" => m.body[1].v \in Int

LEMMA BodyValues ==
  ASSUME NEW client, NEW call \in CallsOf(client), NEW n
  PROVE  IsMessage([id |-> n, member |-> call.op, body |-> Body(call)])
<1> DEFINE m == [id |-> n, member |-> call.op, body |-> Body(call)]
<1>1. m.member = call.op /\ m.body = Body(call)
  OBVIOUS
<1>2. /\ call.op \in {"add", "update"}        => IsShape(call.shape)
      /\ call.op \in {"update", "del", "get"} => call.cookie \in Nat
      /\ call.op = "set_snooze"               => call.value \in Int
  <2>1. PICK r \in Requests :
          call = [k \in DOMAIN r \cup {"client"} |-> IF k = "client" THEN client ELSE r[k]]
    BY DEF CallsOf
  <2>2. \A k \in DOMAIN r : k # "client" => call[k] = r[k]
    BY <2>1
  <2>3. call.op = r.op
    BY <2>2, RequestTypes
  <2>4. ASSUME call.op \in {"add", "update"}
        PROVE  IsShape(call.shape)
    <3>1. "shape" \in DOMAIN r /\ IsShape(r.shape)
      BY <2>3, <2>4, RequestTypes
    <3>2. call.shape = r.shape
      BY <2>2, <3>1
    <3> QED BY <3>1, <3>2
  <2>5. ASSUME call.op \in {"update", "del", "get"}
        PROVE  call.cookie \in Nat
    <3>1. "cookie" \in DOMAIN r /\ r.cookie \in Nat
      BY <2>3, <2>5, RequestTypes
    <3>2. call.cookie = r.cookie
      BY <2>2, <3>1
    <3> QED BY <3>1, <3>2
  <2>6. ASSUME call.op = "set_snooze"
        PROVE  call.value \in Int
    <3>1. "value" \in DOMAIN r /\ r.value \in Int
      BY <2>3, <2>6, RequestTypes
    <3>2. call.value = r.value
      BY <2>2, <3>1
    <3> QED BY <3>1, <3>2
  <2> QED BY <2>4, <2>5, <2>6
<1> HIDE DEF m
<1>3. CASE call.op = "add"
  <2> DEFINE b == Built(call.shape)
             e == WithArgs(b, CallText(call.shape))
  <2>1. IsBuilt(b) /\ b.cookie = 0
    BY <1>2, <1>3, BuiltEvent
  <2>2. IsBuilt(e)
    <3> HIDE DEF b
    <3> QED BY <2>1, WithArgsBuilt
  <2>3. Body(call) = Encode(e) \/ Body(call) = EncodeOld(e)
    BY <1>3 DEF Body, EncodeAdd
  <2> HIDE DEF e
  <2>4. Body(call)[1].v = e.cookie /\ Body(call)[6].v = e.time
    BY <2>2, <2>3, EncodedValues
  <2> QED BY <1>1, <1>3, <2>2, <2>4 DEF IsMessage, IsBuilt
<1>4. CASE call.op = "update"
  <2> DEFINE b == Built(call.shape)
             e == [b EXCEPT !.cookie = call.cookie]
  <2>1. IsBuilt(b)
    BY <1>2, <1>4, BuiltEvent
  <2>2. Body(call) = Encode(e)
    BY <1>4 DEF Body, EncodeUpdate
  <2> HIDE DEF b
  <2>3. {"cookie", "time", "acts", "recs", "attrs"} \subseteq DOMAIN b
    BY <2>1 DEF IsBuilt, NewEvent
  <2>4. /\ DOMAIN e = DOMAIN b /\ e.cookie = call.cookie /\ e.time = b.time
        /\ e.acts = b.acts /\ e.recs = b.recs /\ e.attrs = b.attrs
    BY <2>3
  <2> HIDE DEF e
  <2>5. IsBuilt(e)
    BY <1>2, <1>4, <2>1, <2>4 DEF IsBuilt
  <2>6. Body(call)[1].v = e.cookie /\ Body(call)[6].v = e.time
    BY <2>2, <2>5, EncodedValues
  <2> QED BY <1>1, <1>4, <2>5, <2>6 DEF IsMessage, IsBuilt
<1>5. CASE call.op = "del"
  <2>1. Body(call) = <<Arg("i", call.cookie)>>
    BY <1>5 DEF Body
  <2>2. Body(call)[1].v = call.cookie
    BY <2>1 DEF Arg
  <2> QED BY <1>1, <1>2, <1>5, <2>2 DEF IsMessage
<1>6. CASE call.op = "set_snooze"
  <2>1. Body(call) = <<Arg("u", call.value)>>
    BY <1>6 DEF Body
  <2>2. Body(call)[1].v = call.value
    BY <2>1 DEF Arg
  <2> QED BY <1>1, <1>2, <1>6, <2>2 DEF IsMessage
<1>7. CASE call.op \notin {"add", "update", "del", "set_snooze"}
  BY <1>1, <1>7 DEF IsMessage
<1> QED BY <1>3, <1>4, <1>5, <1>6, <1>7 DEF m

-----------------------------------------------------------------------------
(* The handlers.                                                           *)

(* The actions of the events of q are those of events of p, or in A.       *)
ActsFrom(q, p, A) ==
  \A c \in DOMAIN q.events :
    q.events[c].acts \in A \cup {p.events[d].acts : d \in DOMAIN p.events}

LEMMA AcceptedAgrees ==
  ASSUME NEW q, IsQueue(q), Agree(q),
         NEW e, DOMAIN e = DOMAIN NewEvent, e.time \in Int
  PROVE  /\ IsQueue(Accepted(q, e)[1]) /\ Agree(Accepted(q, e)[1])
         /\ ActsFrom(Accepted(q, e)[1], q, {e.acts})
<1> DEFINE r == Reset(e)
           a == [r EXCEPT !.trigger = e.time]
<1>1. Accepted(q, e)[1] = q \/ Accepted(q, e)[1] = AddEvent(q, a)
  BY DEF Accepted
<1>2. {"cookie", "trigger", "state", "acts"} \subseteq DOMAIN e
  BY DEF NewEvent
<1>3. DOMAIN r = DOMAIN e /\ r.cookie = 0 /\ r.state = "NEW" /\ r.acts = e.acts
  BY <1>2 DEF Reset
<1> HIDE DEF r
<1>4. /\ DOMAIN a = DOMAIN e /\ a.cookie = 0 /\ a.trigger = e.time
      /\ a.state = "NEW" /\ a.acts = e.acts
  BY <1>2, <1>3
<1> HIDE DEF a
<1>5. IsEvent(a) /\ a.cookie \notin DOMAIN q.events
  BY <1>2, <1>4 DEF IsEvent, IsQueue
<1>6. ActsFrom(AddEvent(q, a), q, {e.acts})
  <2>1. /\ DOMAIN AddEvent(q, a).events = DOMAIN q.events \cup {q.cookie + 1}
        /\ AddEvent(q, a).events[q.cookie + 1].acts = e.acts
        /\ \A d \in DOMAIN q.events : AddEvent(q, a).events[d] = q.events[d]
    BY <1>4, <1>5, AddAgrees
  <2> QED BY <2>1 DEF ActsFrom
<1>7. ActsFrom(q, q, {e.acts})
  BY DEF ActsFrom
<1>8. IsQueue(AddEvent(q, a)) /\ Agree(AddEvent(q, a))
  BY <1>5, AddAgrees
<1> QED BY <1>1, <1>6, <1>7, <1>8

(* The actions that come with a message.                                   *)
ActsIn(m) == IF m.member \in {"add", "update"} /\ Decode(m.body) # << >>
             THEN {Decode(m.body)[1].acts} ELSE {}

LEMMA HandledAgrees ==
  ASSUME NEW q, IsQueue(q), Agree(q), NEW m, IsMessage(m)
  PROVE  /\ IsQueue(HandleMember(q, m)[1]) /\ Agree(HandleMember(q, m)[1])
         /\ ActsFrom(HandleMember(q, m)[1], q, ActsIn(m))
<1> DEFINE r == HandleMember(q, m)[1]
           d == Decode(m.body)
<1>1. ASSUME m.member \in {"add", "update"}, d # << >>
      PROVE  /\ DOMAIN d[1] = DOMAIN NewEvent /\ d[1].time \in Int /\ d[1].cookie \in Nat
  <2>1. PICK e : /\ d = <<e>> /\ DOMAIN e = DOMAIN NewEvent
                 /\ e.cookie = m.body[1].v /\ e.time = m.body[6].v
    BY <1>1, DecodedValues
  <2> HIDE DEF d
  <2>2. d[1] = e
    BY <2>1
  <2> QED BY <1>1, <2>1, <2>2 DEF IsMessage
<1>2. CASE m.member = "add"
  <2>1. HandleMember(q, m) = EventAdd(q, m.body)
    BY <1>2 DEF HandleMember
  <2>2. r = q \/ (d # << >> /\ r = Accepted(q, d[1])[1])
    BY <2>1 DEF EventAdd
  <2> HIDE DEF r, d
  <2>3. IsQueue(r) /\ Agree(r) /\ ActsFrom(r, q, ActsIn(m))
    <3>1. CASE r = q
      BY <3>1 DEF ActsFrom
    <3>2. CASE d # << >> /\ r = Accepted(q, d[1])[1]
      <4>1. IsQueue(r) /\ Agree(r) /\ ActsFrom(r, q, {d[1].acts})
        BY <1>1, <1>2, <3>2, AcceptedAgrees
      <4>2. ActsIn(m) = {d[1].acts}
        BY <1>2, <3>2 DEF ActsIn, d
      <4> QED BY <4>1, <4>2
    <3> QED BY <2>2, <3>1, <3>2
  <2> QED BY <2>3 DEF r
<1>3. CASE m.member = "update"
  <2> DEFINE p == DelEvent(q, d[1].cookie)
  <2>1. HandleMember(q, m) = EventUpdate(q, m.body)
    BY <1>3 DEF HandleMember
  <2>2. r = q \/ (d # << >> /\ r = Accepted(p, d[1])[1])
    BY <2>1 DEF EventUpdate
  <2> HIDE DEF r, d
  <2>3. d # << >> => IsQueue(p) /\ Agree(p) /\ SameActs(p, q)
    BY <1>1, <1>3, DelAgrees
  <2> HIDE DEF p
  <2>4. IsQueue(r) /\ Agree(r) /\ ActsFrom(r, q, ActsIn(m))
    <3>1. CASE r = q
      BY <3>1 DEF ActsFrom
    <3>2. CASE d # << >> /\ r = Accepted(p, d[1])[1]
      <4>1. IsQueue(r) /\ Agree(r) /\ ActsFrom(r, p, {d[1].acts})
        BY <1>1, <1>3, <2>3, <3>2, AcceptedAgrees
      <4>2. ActsIn(m) = {d[1].acts}
        BY <1>3, <3>2 DEF ActsIn, d
      <4>3. SameActs(p, q)
        BY <2>3, <3>2
      <4>4. ActsFrom(r, q, {d[1].acts})
        BY <4>1, <4>3 DEF ActsFrom, SameActs
      <4> QED BY <4>1, <4>2, <4>4
    <3> QED BY <2>2, <3>1, <3>2
  <2> QED BY <2>4 DEF r
<1>4. CASE m.member = "del"
  <2>1. r = DelEvent(q, m.body[1].v)
    BY <1>4 DEF HandleMember, EventDel
  <2>2. m.body[1].v \in Nat
    BY <1>4 DEF IsMessage
  <2> HIDE DEF r
  <2>3. IsQueue(r) /\ Agree(r) /\ SameActs(r, q)
    BY <2>1, <2>2, DelAgrees
  <2>4. ActsFrom(r, q, ActsIn(m))
    BY <2>3 DEF ActsFrom, SameActs
  <2> QED BY <2>3, <2>4 DEF r
<1>5. CASE m.member = "set_snooze"
  <2>1. r = SetSnooze(q, m.body[1].v)
    BY <1>5 DEF HandleMember, SnoozeSet
  <2>2. /\ DOMAIN r = DOMAIN q /\ r.events = q.events /\ r.cookie = q.cookie
        /\ r.byCookie = q.byCookie /\ r.byTrigger = q.byTrigger
    <3> HIDE DEF r
    <3> QED BY <2>1 DEF SetSnooze, IsQueue
  <2>3. r.snooze \in 1 .. MAX_SNOOZE
    <3>1. m.body[1].v \in Int
      BY <1>5 DEF IsMessage
    <3>2. "snooze" \in DOMAIN q /\ q.snooze \in 1 .. MAX_SNOOZE
      BY DEF IsQueue
    <3> HIDE DEF r
    <3> QED BY <2>1, <3>1, <3>2, SnoozeSane
  <2> HIDE DEF r
  <2>4. IsQueue(r) /\ Agree(r)
    BY <2>2, <2>3 DEF IsQueue, Agree
  <2>5. ActsFrom(r, q, ActsIn(m))
    BY <2>2 DEF ActsFrom
  <2> QED BY <2>4, <2>5 DEF r
<1>6. CASE m.member \notin {"add", "update", "del", "set_snooze"}
  <2>1. r = q
    <3>1. CASE m.member = "query"
      BY <3>1 DEF HandleMember, EventQuery
    <3>2. CASE m.member = "get"
      BY <3>2 DEF HandleMember, EventGet
    <3>3. CASE m.member = "get_snooze"
      BY <3>3 DEF HandleMember, SnoozeGet
    <3>4. CASE m.member \notin {"query", "get", "get_snooze"}
      <4>1. HandleMember(q, m) = <<q, ErrorReply>>
        BY <1>6, <3>4 DEF HandleMember
      <4> QED BY <4>1
    <3> QED BY <3>1, <3>2, <3>3, <3>4
  <2> HIDE DEF r
  <2>2. IsQueue(r) /\ Agree(r) /\ ActsFrom(r, q, ActsIn(m))
    BY <2>1 DEF ActsFrom
  <2> QED BY <2>2 DEF r
<1> QED BY <1>2, <1>3, <1>4, <1>5, <1>6

-----------------------------------------------------------------------------
(* Packed arguments.                                                       *)

(* A function of the places of a text that looks at one place after the    *)
(* other.                                                                  *)
LEMMA Onward ==
  ASSUME NEW n \in Nat, NEW V, NEW B, NEW out \in [Nat -> V],
         NEW step \in [Nat \X V -> V], NEW next \in [Nat -> Nat],
         \A p \in Nat : p \notin B => p <= n /\ next[p] > p
  PROVE  \E f \in [Nat -> V] : Recurs(f, Nat, B, out, step, next)
<1> DEFINE Left(p) == IF p > n THEN 0 ELSE n + 1 - p
           size == [p \in Nat |-> Left(p)]
<1>1. size \in [Nat -> Nat] /\ \A p \in Nat : size[p] = Left(p)
  <2>1. \A p \in Nat : Left(p) \in Nat
    OBVIOUS
  <2> HIDE DEF Left
  <2> QED BY <2>1
<1>2. ASSUME NEW p \in Nat, p \notin B PROVE size[next[p]] < size[p]
  <2> DEFINE k == next[p]
  <2>1. k \in Nat /\ k > p /\ p <= n
    BY <1>2
  <2> HIDE DEF k, size
  <2>2. Left(k) < Left(p)
    BY <2>1
  <2> HIDE DEF Left
  <2>3. size[k] < size[p]
    BY <1>1, <2>1, <2>2
  <2> QED BY <2>3 DEF k
<1> HIDE DEF size
<1> QED BY <1>1, <1>2, Recursion

LEMMA EscapeLenValue ==
  \A s : \A p \in Nat : EscapeLen(s, p) \in {1, 2, 4} /\ p + EscapeLen(s, p) \in Nat
                        /\ p + EscapeLen(s, p) > p
<1> SUFFICES ASSUME NEW s, NEW p \in Nat
             PROVE  EscapeLen(s, p) \in {1, 2, 4} /\ p + EscapeLen(s, p) \in Nat
                    /\ p + EscapeLen(s, p) > p
  OBVIOUS
<1>1. EscapeLen(s, p) \in {1, 2, 4}
  BY DEF EscapeLen
<1> QED BY <1>1

(* strbuf_get_string stops at an end mark, or where the text is over.      *)
AtEnd(s, p) == p > Len(s) \/ (s[p] = "\\" /\ s[p + 1] = ";")

LEMMA PastEnd ==
  ASSUME NEW s \in String, NEW p \in Nat, ~AtEnd(s, p)
  PROVE  p <= Len(s) /\ Len(s) - p \in Nat
<1>1. ~(p > Len(s)) /\ Len(s) \in Nat
  BY TextLength DEF AtEnd
<1> QED BY <1>1

LEMMA TextEndValue ==
  ASSUME NEW s \in String
  PROVE  \A p \in Nat :
           /\ TextEnd(s, p) \in Nat /\ TextEnd(s, p) >= p
           /\ TextEnd(s, p) = IF AtEnd(s, p) THEN p ELSE TextEnd(s, p + EscapeLen(s, p))
<1> DEFINE Next_(f) == [q \in Nat |->
                          IF q > Len(s) \/ (s[q] = "\\" /\ s[q + 1] = ";") THEN q
                          ELSE f[q + EscapeLen(s, q)]]
           end == CHOOSE f : f = Next_(f)
           B == {p \in Nat : AtEnd(s, p)}
           out == [p \in Nat |-> p]
           step == [w \in Nat \X Nat |-> w[2]]
           next == [p \in Nat |-> p + EscapeLen(s, p)]
<1>1. \A p : TextEnd(s, p) = end[p]
  BY Zenon DEF TextEnd
<1>2. out \in [Nat -> Nat] /\ step \in [Nat \X Nat -> Nat] /\ next \in [Nat -> Nat]
  BY EscapeLenValue
<1>3. /\ \A p \in Nat : out[p] = p /\ next[p] = p + EscapeLen(s, p) /\ next[p] > p
      /\ \A p, q \in Nat : step[<<p, q>>] = q
      /\ \A p \in Nat : p \in B <=> AtEnd(s, p)
  BY EscapeLenValue
<1>0. Len(s) \in Nat
  BY TextLength
<1>4. \A p \in Nat : p \notin B => p <= Len(s)
  BY <1>0, <1>3, PastEnd
<1> HIDE DEF B, out, step, next
<1>5. \A p \in Nat : p \notin B => p <= Len(s) /\ next[p] > p
  BY <1>3, <1>4
<1>6. PICK f \in [Nat -> Nat] : Recurs(f, Nat, B, out, step, next)
  BY <1>0, <1>2, <1>5, Onward
<1>7. \A p \in Nat : f[p] = IF AtEnd(s, p) THEN p ELSE f[p + EscapeLen(s, p)]
  <2> SUFFICES ASSUME NEW p \in Nat
               PROVE  f[p] = IF AtEnd(s, p) THEN p ELSE f[p + EscapeLen(s, p)]
    OBVIOUS
  <2>1. f[p] = IF p \in B THEN out[p] ELSE step[<<p, f[next[p]]>>]
    BY <1>6 DEF Recurs
  <2>2. next[p] = p + EscapeLen(s, p) /\ p + EscapeLen(s, p) \in Nat
    BY <1>3, EscapeLenValue
  <2>3. f[next[p]] \in Nat
    BY <2>2
  <2> QED BY <1>3, <2>1, <2>2, <2>3
<1>8. f = Next_(f)
  <2>1. f = [p \in Nat |-> f[p]]
    OBVIOUS
  <2> QED BY <1>7, <2>1 DEF AtEnd
<1>9. end = Next_(end)
  <2> HIDE DEF Next_
  <2> QED BY <1>8, Zenon
<1> HIDE DEF end
<1>10. \A p \in Nat : end[p] = IF AtEnd(s, p) THEN p ELSE end[p + EscapeLen(s, p)]
  BY <1>9 DEF AtEnd
<1> DEFINE Good(p) == end[p] \in Nat /\ end[p] >= p
           T == {n \in Nat : \E p \in Nat : ~AtEnd(s, p) /\ n = Len(s) - p /\ ~Good(p)}
<1>11. ASSUME NEW p \in Nat, AtEnd(s, p) PROVE Good(p)
  <2>1. end[p] = p
    BY <1>10, <1>11
  <2> QED BY <2>1
<1>12. ASSUME T # {} PROVE FALSE
  <2>1. PICK n \in T : \A k \in T : n <= k
    <3>1. T \in SUBSET Nat
      OBVIOUS
    <3> HIDE DEF T
    <3> QED BY <1>12, <3>1, LeastNumber
  <2>2. PICK p \in Nat : ~AtEnd(s, p) /\ n = Len(s) - p /\ ~Good(p)
    BY <2>1
  <2> DEFINE q == p + EscapeLen(s, p)
  <2>4. q \in Nat /\ q > p
    BY EscapeLenValue
  <2>5. end[p] = end[q]
    BY <1>10, <2>2
  <2> HIDE DEF q
  <2>6. Good(q)
    <3>1. CASE AtEnd(s, q)
      BY <1>11, <2>4, <3>1
    <3>2. CASE ~AtEnd(s, q)
      <4>1. Len(s) - q \in Nat
        BY <2>4, <3>2, PastEnd
      <4>2. ~(n <= Len(s) - q)
        BY <1>0, <2>2, <2>4
      <4>3. Len(s) - q \notin T
        BY <2>1, <4>2
      <4> HIDE DEF Good
      <4> QED BY <2>4, <3>2, <4>1, <4>3
    <3> QED BY <3>1, <3>2
  <2>7. Good(p)
    <3> DEFINE x == end[q]
    <3>1. x \in Nat /\ x >= q /\ end[p] = x
      BY <2>5, <2>6
    <3> HIDE DEF x
    <3>2. end[p] \in Nat /\ end[p] >= p
      BY <2>4, <3>1
    <3> QED BY <3>2
  <2> QED BY <2>2, <2>7
<1>13. \A p \in Nat : Good(p)
  <2> SUFFICES ASSUME NEW p \in Nat, ~AtEnd(s, p) PROVE Good(p)
    BY <1>11
  <2>1. Len(s) - p \in Nat
    BY PastEnd
  <2>2. Len(s) - p \notin T
    BY <1>12
  <2> HIDE DEF Good
  <2> QED BY <2>1, <2>2
<1> HIDE DEF Good
<1>14. ASSUME NEW p \in Nat
       PROVE  /\ TextEnd(s, p) = end[p] /\ Good(p)
              /\ TextEnd(s, p + EscapeLen(s, p)) = end[p + EscapeLen(s, p)]
              /\ end[p] = IF AtEnd(s, p) THEN p ELSE end[p + EscapeLen(s, p)]
  BY <1>1, <1>10, <1>13
<1> QED BY <1>14 DEF Good

LEMMA AfterValue ==
  ASSUME NEW s \in String, NEW p \in Nat, NEW t
  PROVE  AfterBasic(t, s, p) \in Nat /\ AfterBasic(t, s, p) > p
BY TextEndValue DEF AfterBasic

(* strbuf_get_array: the elements lie one after the other.                 *)
LEMMA ElementValue ==
  ASSUME NEW s \in String, NEW p \in Nat, NEW t
  PROVE  \A i \in Nat :
           /\ ElementAt(t, s, p)[i] \in Nat /\ ElementAt(t, s, p)[i] >= p
           /\ ElementAt(t, s, p)[i] =
                IF i <= 1 THEN p ELSE AfterBasic(t, s, ElementAt(t, s, p)[i - 1])
<1> DEFINE Next_(f) == [j \in Nat |-> IF j <= 1 THEN p ELSE AfterBasic(t, s, f[j - 1])]
           at == CHOOSE f : f = Next_(f)
           V == {k \in Nat : k >= p}
           B == {0, 1}
           out == [j \in Nat |-> p]
           step == [w \in Nat \X V |-> AfterBasic(t, s, w[2])]
           next == [j \in Nat |-> IF j <= 1 THEN j ELSE j - 1]
           size == [j \in Nat |-> j]
<1>1. \A i \in Nat : ElementAt(t, s, p)[i] = at[i]
  <2>1. ElementAt(t, s, p) = [i \in Nat |-> at[i]]
    BY Zenon DEF ElementAt
  <2> HIDE DEF at
  <2> QED BY <2>1
<1>2. \A k \in V : AfterBasic(t, s, k) \in V
  BY AfterValue
<1>3. /\ out \in [Nat -> V] /\ step \in [Nat \X V -> V] /\ next \in [Nat -> Nat]
      /\ size \in [Nat -> Nat] /\ V \subseteq Nat
  <2>1. p \in V
    OBVIOUS
  <2> HIDE DEF V
  <2>2. out \in [Nat -> V] /\ step \in [Nat \X V -> V]
    BY <1>2, <2>1
  <2>3. next \in [Nat -> Nat] /\ size \in [Nat -> Nat]
    OBVIOUS
  <2> QED BY <2>2, <2>3 DEF V
<1>4. /\ \A j \in Nat : out[j] = p /\ next[j] = (IF j <= 1 THEN j ELSE j - 1) /\ size[j] = j
      /\ \A j \in Nat, k \in V : step[<<j, k>>] = AfterBasic(t, s, k)
      /\ \A j \in Nat : j \in B <=> j <= 1
  OBVIOUS
<1>5. \A j \in Nat : j \notin B => size[next[j]] < size[j]
  BY <1>3, <1>4
<1> HIDE DEF V, B, out, step, next, size
<1>6. PICK f \in [Nat -> V] : Recurs(f, Nat, B, out, step, next)
  BY <1>3, <1>5, Recursion
<1>7. \A j \in Nat : f[j] = IF j <= 1 THEN p ELSE AfterBasic(t, s, f[j - 1])
  <2> SUFFICES ASSUME NEW j \in Nat
               PROVE  f[j] = IF j <= 1 THEN p ELSE AfterBasic(t, s, f[j - 1])
    OBVIOUS
  <2>1. f[j] = IF j \in B THEN out[j] ELSE step[<<j, f[next[j]]>>]
    BY <1>6 DEF Recurs
  <2>2. f[next[j]] \in V
    BY <1>3
  <2> QED BY <1>4, <2>1, <2>2
<1>8. f = Next_(f)
  <2>1. f = [j \in Nat |-> f[j]]
    OBVIOUS
  <2> QED BY <1>7, <2>1
<1>9. at = Next_(at)
  <2> HIDE DEF Next_
  <2> QED BY <1>8, Zenon
<1> HIDE DEF at
<1>10. \A j \in Nat : at[j] = IF j <= 1 THEN p ELSE AfterBasic(t, s, at[j - 1])
  BY <1>9
<1> DEFINE T == {j \in Nat : at[j] \notin V}
<1>11. ASSUME T # {} PROVE FALSE
  <2>1. PICK m \in T : \A k \in T : m <= k
    <3>1. T \in SUBSET Nat
      OBVIOUS
    <3> HIDE DEF T
    <3> QED BY <1>11, <3>1, LeastNumber
  <2>2. m \in Nat /\ at[m] \notin V
    OBVIOUS
  <2>3. ~(m <= 1)
    BY <1>10, <2>2 DEF V
  <2>4. m - 1 \in Nat /\ ~(m <= m - 1)
    BY <2>2, <2>3
  <2>5. at[m - 1] \in V
    BY <2>1, <2>4
  <2> QED BY <1>2, <1>10, <2>2, <2>3, <2>5
<1>12. \A j \in Nat : at[j] \in V
  BY <1>11
<1>13. \A j \in Nat : at[j] \in Nat /\ at[j] >= p
  BY <1>12 DEF V
<1>14. ASSUME NEW j \in Nat
       PROVE  ElementAt(t, s, p)[j] =
                IF j <= 1 THEN p ELSE AfterBasic(t, s, ElementAt(t, s, p)[j - 1])
  <2>1. CASE j <= 1
    BY <1>1, <1>10, <2>1
  <2>2. CASE ~(j <= 1)
    <3>1. j - 1 \in Nat
      BY <2>2
    <3> QED BY <1>1, <1>10, <2>2, <3>1
  <2> QED BY <2>1, <2>2
<1> QED BY <1>1, <1>13, <1>14

-----------------------------------------------------------------------------
(* t lies in s from p on.                                                  *)
Lies(s, p, t) ==
  p + Len(t) - 1 <= Len(s) /\ \A i \in 1 .. Len(t) : s[p - 1 + i] = t[i]

LEMMA LiesParts ==
  ASSUME NEW s \in String, NEW p \in Nat \ {0}, NEW a \in String, NEW b \in String,
         Lies(s, p, a \o b)
  PROVE  /\ Lies(s, p, a) /\ Lies(s, p + Len(a), b) /\ p + Len(a) \in Nat \ {0}
         /\ Len(a \o b) = Len(a) + Len(b) /\ a \o b \in String
<1> DEFINE t == a \o b
<1>1. /\ Len(a) \in Nat /\ Len(b) \in Nat /\ Len(s) \in Nat /\ t \in String
      /\ Len(t) = Len(a) + Len(b)
      /\ \A i \in 1 .. Len(a) + Len(b) : t[i] = IF i <= Len(a) THEN a[i] ELSE b[i - Len(a)]
  BY ConcatProperties, TextLength DEF String
<1>2. /\ p + Len(t) - 1 <= Len(s)
      /\ \A i \in 1 .. Len(t) : s[p - 1 + i] = t[i]
  BY DEF Lies
<1> HIDE DEF t
<1>3. Lies(s, p, a)
  <2>1. p + Len(a) - 1 <= Len(s)
    BY <1>1, <1>2
  <2>2. ASSUME NEW i \in 1 .. Len(a) PROVE s[p - 1 + i] = a[i]
    <3>1. i \in 1 .. Len(a) + Len(b) /\ i <= Len(a)
      BY <1>1
    <3> QED BY <1>1, <1>2, <3>1
  <2> QED BY <2>1, <2>2 DEF Lies
<1>4. Lies(s, p + Len(a), b)
  <2> DEFINE q == p + Len(a)
  <2>1. q + Len(b) - 1 <= Len(s)
    BY <1>1, <1>2
  <2>2. ASSUME NEW i \in 1 .. Len(b) PROVE s[q - 1 + i] = b[i]
    <3>1. /\ Len(a) + i \in 1 .. Len(a) + Len(b) /\ ~(Len(a) + i <= Len(a))
          /\ Len(a) + i - Len(a) = i /\ p - 1 + (Len(a) + i) = q - 1 + i
      BY <1>1
    <3>2. t[Len(a) + i] = b[i]
      BY <1>1, <3>1
    <3>3. s[p - 1 + (Len(a) + i)] = t[Len(a) + i]
      BY <1>1, <1>2, <3>1
    <3> HIDE DEF q
    <3> QED BY <3>1, <3>2, <3>3
  <2> HIDE DEF q
  <2>3. Lies(s, q, b)
    BY <2>1, <2>2 DEF Lies
  <2> QED BY <2>3 DEF q
<1> QED BY <1>1, <1>3, <1>4 DEF t

(* strbuf_put_string ends a string with this, which no escaped character    *)
(* begins with.                                                            *)
Mark == <<"\\", ";">>

LEMMA MarkLength == Mark \in String /\ Len(Mark) = 2
<1>1. "\\" \in Chars /\ ";" \in Chars
  BY DEF Chars
<1>2. Mark \in String
  BY <1>1, FewChars, Zenon DEF Mark
<1>3. Len(Mark) = 2
  BY DEF Mark
<1> QED BY <1>2, <1>3

LEMMA EscapeGoesOn ==
  ASSUME NEW s \in String, NEW p \in Nat \ {0}, NEW c \in Chars, Lies(s, p, Escape(c))
  PROVE  ~AtEnd(s, p) /\ EscapeLen(s, p) = Len(Escape(c))
<1> DEFINE e == Escape(c)
<1>1. Len(e) \in Nat \ {0} /\ Len(s) \in Nat
  BY CharLength, TextLength
<1>2. /\ p + Len(e) - 1 <= Len(s)
      /\ \A i \in 1 .. Len(e) : s[p - 1 + i] = e[i]
  BY DEF Lies
<1> HIDE DEF e
<1>3. s[p] = e[1]
  <2>1. 1 \in 1 .. Len(e) /\ p - 1 + 1 = p
    BY <1>1
  <2> QED BY <1>2, <2>1
<1>4. Len(e) > 1 => s[p + 1] = e[2]
  <2>1. ASSUME Len(e) > 1 PROVE 2 \in 1 .. Len(e) /\ p - 1 + 2 = p + 1
    BY <1>1, <2>1
  <2> QED BY <1>2, <2>1
<1>5. EscapeLen(s, p) = Len(e)
  BY <1>3, <1>4, CharComesBack DEF e
<1>6. ~(p > Len(s))
  BY <1>1, <1>2
<1>7. ~(s[p] = "\\" /\ s[p + 1] = ";")
  <2>1. CASE c = "\\"
    <3>1. e = <<"\\", "\\">>
      BY <2>1 DEF Escape, e
    <3>2. Len(e) > 1 /\ e[2] # ";"
      BY <3>1
    <3> QED BY <1>4, <3>2
  <2>2. CASE c = "nl"
    <3>1. e = <<"\\", "n">>
      BY <2>2 DEF Escape, e
    <3>2. Len(e) > 1 /\ e[2] # ";"
      BY <3>1
    <3> QED BY <1>4, <3>2
  <2>3. CASE c = "ctl"
    <3>1. e = <<"\\", "x", "0", "1">>
      BY <2>3 DEF Escape, e
    <3>2. Len(e) > 1 /\ e[2] # ";"
      BY <3>1
    <3> QED BY <1>4, <3>2
  <2>4. CASE c \notin {"\\", "nl", "ctl"}
    <3>1. e = <<c>>
      BY <2>4 DEF Escape, e
    <3>2. e[1] # "\\"
      BY <2>4, <3>1
    <3> QED BY <1>3, <3>2
  <2> QED BY <2>1, <2>2, <2>3, <2>4
<1> QED BY <1>5, <1>6, <1>7 DEF AtEnd, e

LEMMA TextEndThere ==
  ASSUME NEW s \in String, NEW p \in Nat \ {0}, NEW v \in String,
         Lies(s, p, EscapeText[v]), Lies(s, p + Len(EscapeText[v]), Mark)
  PROVE  TextEnd(s, p) = p + Len(EscapeText[v])
<1> DEFINE Wrong(t, q) ==
             /\ Lies(s, q, EscapeText[t]) /\ Lies(s, q + Len(EscapeText[t]), Mark)
             /\ TextEnd(s, q) # q + Len(EscapeText[t])
           T == {n \in Nat : \E t \in String, q \in Nat \ {0} : Len(t) = n /\ Wrong(t, q)}
<1>1. ASSUME T # {} PROVE FALSE
  <2>1. PICK n \in T : \A k \in T : n <= k
    <3>1. T \in SUBSET Nat
      OBVIOUS
    <3> HIDE DEF T
    <3> QED BY <1>1, <3>1, LeastNumber
  <2>2. PICK t \in String, q \in Nat \ {0} : Len(t) = n /\ Wrong(t, q)
    BY <2>1
  <2>3. CASE t = << >>
    <3>1. Len(EscapeText[t]) = 0
      BY <2>3, EscapeTextValue
    <3>2. Lies(s, q, Mark) /\ TextEnd(s, q) # q
      <4>1. q + Len(EscapeText[t]) = q
        BY <3>1
      <4> QED BY <2>2, <4>1
    <3>3. s[q] = "\\" /\ s[q + 1] = ";"
      <4>1. Mark[1] = "\\" /\ Mark[2] = ";"
        BY DEF Mark
      <4>2. s[q - 1 + 1] = Mark[1] /\ s[q - 1 + 2] = Mark[2]
        BY <3>2, MarkLength DEF Lies
      <4>3. q - 1 + 1 = q /\ q - 1 + 2 = q + 1
        OBVIOUS
      <4> QED BY <4>1, <4>2, <4>3
    <3>4. AtEnd(s, q)
      BY <3>3 DEF AtEnd
    <3> QED BY <3>2, <3>4, TextEndValue
  <2>4. CASE t # << >>
    <3> DEFINE c == t[1]
               r == Tail(t)
               e == Escape(c)
               x == EscapeText[t]
               y == EscapeText[r]
               k == q + Len(e)
    <3>1. /\ c \in Chars /\ r \in String /\ Len(r) = n - 1 /\ n - 1 \in Nat
          /\ ~(n <= n - 1)
      BY <2>2, <2>4, TextEnds
    <3>2. e \in String /\ x \in String /\ y \in String /\ x = e \o y
      BY <2>2, <2>4, <3>1, EscapeValues, EscapeTextValue
    <3>3. /\ Lies(s, q, x) /\ Lies(s, q + Len(x), Mark) /\ TextEnd(s, q) # q + Len(x)
      BY <2>2
    <3> HIDE DEF x
    <3>4. /\ Lies(s, q, e) /\ Lies(s, k, y) /\ k \in Nat \ {0}
          /\ Len(x) = Len(e) + Len(y)
      <4> HIDE DEF e, y
      <4> QED BY <3>2, <3>3, LiesParts
    <3>5. Len(e) \in Nat /\ Len(y) \in Nat
      <4> HIDE DEF e, y
      <4> QED BY <3>2, TextLength
    <3>6. q + Len(x) = k + Len(y)
      <4> HIDE DEF e, y
      <4> QED BY <3>4, <3>5
    <3>7. ~AtEnd(s, q) /\ EscapeLen(s, q) = Len(e)
      BY <3>1, <3>4, EscapeGoesOn DEF e
    <3>8. TextEnd(s, q) = TextEnd(s, k)
      <4>1. q \in Nat /\ q + EscapeLen(s, q) = k
        BY <3>7
      <4>2. TextEnd(s, q) = TextEnd(s, q + EscapeLen(s, q))
        BY <3>7, <4>1, TextEndValue
      <4> QED BY <4>1, <4>2
    <3>9. TextEnd(s, k) # k + Len(y) /\ Lies(s, k + Len(y), Mark)
      <4> HIDE DEF k
      <4> QED BY <3>3, <3>6, <3>8
    <3>10. Wrong(r, k)
      BY <3>4, <3>9
    <3> HIDE DEF Wrong, k, r
    <3>11. n - 1 \in T
      BY <3>1, <3>4, <3>10
    <3> HIDE DEF T
    <3> QED BY <2>1, <3>1, <3>11
  <2> QED BY <2>3, <2>4
<1>2. Len(v) \in Nat
  BY TextLength
<1> HIDE DEF Wrong
<1>3. ~Wrong(v, p)
  BY <1>1, <1>2
<1> QED BY <1>3 DEF Wrong

(* Joined texts lie one after the other.                                   *)
PlacesOf(at, s, p, seqs) ==
  /\ at[1] = p /\ at[Len(seqs) + 1] = p + Len(FlattenSeq(seqs))
  /\ \A i \in 1 .. Len(seqs) :
       /\ at[i] \in Nat \ {0} /\ at[i + 1] = at[i] + Len(seqs[i])
       /\ Lies(s, at[i], seqs[i])

LEMMA FlattenedPlaces ==
  ASSUME NEW s \in String, NEW p \in Nat \ {0}, NEW seqs \in Seq(String),
         Lies(s, p, FlattenSeq(seqs))
  PROVE  \E at : PlacesOf(at, s, p, seqs)
<1> DEFINE n == Len(seqs)
<1>1. n \in Nat /\ (\A i \in 1 .. n : seqs[i] \in String) /\ seqs \in Seq(Seq(Chars))
  BY DEF String
<1>2. CASE n = 0
  <2>1. Len(FlattenSeq(seqs)) = 0
    BY <1>2 DEF FlattenSeq
  <2> DEFINE at == [i \in {1} |-> p]
  <2>2. at[1] = p /\ at[n + 1] = p + Len(FlattenSeq(seqs))
    BY <1>2, <2>1
  <2>3. PlacesOf(at, s, p, seqs)
    BY <1>2, <2>2 DEF PlacesOf
  <2> QED BY <2>3
<1>3. CASE n # 0
  <2>0. PICK f : Joins(f, seqs, Chars)
    BY <1>1, <1>3, FlattenedSteps
  <2>1. /\ FlattenSeq(seqs) = f[n] /\ f[1] = seqs[1]
        /\ \A i \in 1 .. n : f[i] \in String /\ (i # 1 => f[i] = f[i - 1] \o seqs[i])
    BY <2>0 DEF Joins, String
  <2> HIDE DEF n
  <2> DEFINE Bad == {k \in 0 .. n - 1 : ~Lies(s, p, f[n - k])}
  <2>2. ASSUME Bad # {} PROVE FALSE
    <3>1. PICK k \in Bad : \A j \in Bad : k <= j
      <4>1. Bad \in SUBSET Nat
        BY <1>1
      <4> HIDE DEF Bad
      <4> QED BY <2>2, <4>1, LeastNumber
    <3>2. k \in 0 .. n - 1 /\ ~Lies(s, p, f[n - k])
      OBVIOUS
    <3>3. k # 0
      BY <1>1, <2>1, <3>2 DEF n
    <3>4. /\ k - 1 \in 0 .. n - 1 /\ ~(k <= k - 1) /\ n - (k - 1) \in 1 .. n
          /\ n - (k - 1) # 1 /\ (n - (k - 1)) - 1 = n - k /\ n - k \in 1 .. n
      BY <1>1, <3>2, <3>3
    <3>5. Lies(s, p, f[n - (k - 1)])
      BY <3>1, <3>4
    <3>6. f[n - (k - 1)] = f[n - k] \o seqs[n - (k - 1)]
      BY <2>1, <3>4
    <3>7. f[n - k] \in String /\ seqs[n - (k - 1)] \in String
      BY <1>1, <2>1, <3>4
    <3> QED BY <3>2, <3>5, <3>6, <3>7, LiesParts
  <2>3. ASSUME NEW i \in 1 .. n PROVE Lies(s, p, f[i])
    <3>1. n - i \in 0 .. n - 1 /\ n - (n - i) = i
      BY <1>1
    <3>2. n - i \notin Bad
      BY <2>2
    <3> QED BY <3>1, <3>2
  <2> DEFINE at == [i \in 1 .. n + 1 |-> IF i = 1 THEN p ELSE p + Len(f[i - 1])]
  <2>4. /\ at[1] = p /\ at[n + 1] = p + Len(f[n])
        /\ \A i \in 1 .. n : at[i + 1] = p + Len(f[i])
        /\ \A i \in 1 .. n : i # 1 => at[i] = p + Len(f[i - 1])
    <3>1. 1 \in 1 .. n + 1 /\ n + 1 \in 1 .. n + 1 /\ n + 1 # 1 /\ (n + 1) - 1 = n
      BY <1>1, <1>3
    <3>2. \A i \in 1 .. n : i \in 1 .. n + 1 /\ i + 1 \in 1 .. n + 1 /\ i + 1 # 1 /\ (i + 1) - 1 = i
      BY <1>1
    <3> QED BY <3>1, <3>2
  <2> HIDE DEF at
  <2>5. ASSUME NEW i \in 1 .. n
        PROVE  /\ at[i] \in Nat \ {0} /\ at[i + 1] = at[i] + Len(seqs[i])
               /\ Lies(s, at[i], seqs[i])
    <3>1. CASE i = 1
      <4>1. at[i] = p /\ at[i + 1] = p + Len(seqs[i]) /\ f[i] = seqs[i]
        BY <2>1, <2>4, <3>1
      <4>2. Lies(s, p, seqs[i])
        BY <2>3, <4>1
      <4> QED BY <4>1, <4>2
    <3>2. CASE i # 1
      <4> DEFINE g == f[i - 1]
                 t == seqs[i]
      <4>1. i - 1 \in 1 .. n
        BY <1>1, <3>2
      <4>2. /\ at[i] = p + Len(g) /\ at[i + 1] = p + Len(f[i]) /\ f[i] = g \o t
            /\ g \in String /\ t \in String
        BY <1>1, <2>1, <2>4, <3>2, <4>1
      <4>3. Lies(s, p, f[i])
        BY <2>3
      <4> HIDE DEF g
      <4>4. /\ Lies(s, p + Len(g), t) /\ p + Len(g) \in Nat \ {0}
            /\ Len(f[i]) = Len(g) + Len(t)
        <5> HIDE DEF t
        <5> QED BY <4>2, <4>3, LiesParts
      <4>5. Len(g) \in Nat /\ Len(t) \in Nat
        <5> HIDE DEF t
        <5> QED BY <4>2, TextLength
      <4>6. at[i + 1] = at[i] + Len(t)
        <5> HIDE DEF t
        <5> QED BY <4>2, <4>4, <4>5
      <4>7. at[i] \in Nat \ {0} /\ Lies(s, at[i], t)
        <5> HIDE DEF t
        <5> QED BY <4>2, <4>4
      <4> QED BY <4>6, <4>7
    <3> QED BY <3>1, <3>2
  <2>6. PlacesOf(at, s, p, seqs)
    BY <2>1, <2>4, <2>5 DEF PlacesOf, n
  <2> QED BY <2>6
<1> QED BY <1>2, <1>3

(* strbuf_put_* and strbuf_get_* of a number or a text.                    *)
LEMMA Marked ==
  ASSUME NEW x \in String
  PROVE  x \o Mark \in String /\ Len(x \o Mark) = Len(x) + 2 /\ Len(x) \in Nat
<1>1. x \in Seq(Chars) /\ Mark \in Seq(Chars) /\ Len(Mark) = 2 /\ Len(x) \in Nat
  BY MarkLength, TextLength DEF String
<1>2. x \o Mark \in Seq(Chars) /\ Len(x \o Mark) = Len(x) + Len(Mark)
  BY <1>1, ConcatProperties
<1> QED BY <1>1, <1>2 DEF String

LEMMA BasicValue ==
  ASSUME NEW t, NEW v, IsBasic(t, v)
  PROVE  PutBasic(t, v) \in String /\ Len(PutBasic(t, v)) \in Nat \ {0}
<1>1. CASE t = "s" /\ v \in String
  <2> DEFINE x == EscapeText[v]
  <2>1. x \in String
    BY <1>1, EscapeTextValue
  <2>2. PutBasic(t, v) = x \o Mark
    BY <1>1 DEF PutBasic, Mark
  <2> HIDE DEF x
  <2> QED BY <2>1, <2>2, Marked
<1>2. CASE t = "i" /\ v \in Chars
  <2>1. PutBasic(t, v) = <<v, ";">>
    BY <1>2 DEF PutBasic
  <2>2. ";" \in Chars
    BY DEF Chars
  <2>3. <<v, ";">> \in String
    BY <1>2, <2>2, FewChars, Zenon
  <2>4. Len(<<v, ";">>) \in Nat \ {0}
    OBVIOUS
  <2> QED BY <2>1, <2>3, <2>4, Zenon
<1> QED BY <1>1, <1>2 DEF IsBasic

LEMMA BasicThere ==
  ASSUME NEW s \in String, NEW p \in Nat \ {0}, NEW t, NEW v, IsBasic(t, v),
         Lies(s, p, PutBasic(t, v))
  PROVE  GetBasic(t, s, p) = v /\ AfterBasic(t, s, p) = p + Len(PutBasic(t, v))
<1>1. CASE t = "s" /\ v \in String
  <2> DEFINE x == EscapeText[v]
             q == p + Len(x)
  <2>1. x \in String /\ Unescape[x] = v
    BY <1>1, EscapeTextValue, WrittenIsRead
  <2>2. PutBasic(t, v) = x \o Mark
    BY <1>1 DEF PutBasic, Mark
  <2>3. Lies(s, p, x) /\ Lies(s, q, Mark) /\ Len(x \o Mark) = Len(x) + 2
    <3>1. Lies(s, p, x \o Mark)
      BY <2>2
    <3> HIDE DEF x
    <3> QED BY <2>1, <3>1, Marked, MarkLength, LiesParts
  <2>4. TextEnd(s, p) = q
    BY <1>1, <2>3, TextEndThere
  <2>5. /\ GetBasic(t, s, p) = Unescape[SubSeq(s, p, q - 1)]
        /\ AfterBasic(t, s, p) = q + 2
    BY <1>1, <2>4 DEF GetBasic, AfterBasic
  <2> HIDE DEF x
  <2>6. Len(x) \in Nat /\ Len(s) \in Nat
    BY <2>1, TextLength
  <2>7. SubSeq(s, p, q - 1) = x
    <3> DEFINE m == q - 1
               u == SubSeq(s, p, m)
    <3>1. p + Len(x) - 1 <= Len(s) /\ \A i \in 1 .. Len(x) : s[p - 1 + i] = x[i]
      BY <2>3 DEF Lies
    <3>2. m \in Int /\ p \in Int /\ \A i \in p .. m : s[i] \in Chars
      <4>1. \A i \in p .. m : i \in 1 .. Len(s)
        BY <2>6, <3>1
      <4>2. m \in Int
        BY <2>6
      <4> QED BY <4>1, <4>2 DEF String
    <3>3. m - p + 1 = Len(x) /\ (p <= m \/ (Len(x) = 0 /\ ~(p <= m)))
      BY <2>6
    <3> HIDE DEF m
    <3>4. /\ u \in Seq(Chars) /\ Len(u) = (IF p <= m THEN m - p + 1 ELSE 0)
          /\ \A i \in 1 .. m - p + 1 : u[i] = s[p + i - 1]
      BY <3>2, SubSeqProperties
    <3> HIDE DEF u
    <3>5. Len(u) = Len(x) /\ \A i \in 1 .. Len(x) : u[i] = x[i]
      <4>1. Len(u) = Len(x)
        BY <3>3, <3>4
      <4>2. ASSUME NEW i \in 1 .. Len(x) PROVE u[i] = x[i]
        <5>1. p + i - 1 = p - 1 + i
          BY <2>6
        <5> QED BY <3>1, <3>3, <3>4, <5>1
      <4> QED BY <4>1, <4>2
    <3>6. u = x
      BY <2>1, <3>4, <3>5 DEF String
    <3> QED BY <3>6 DEF u, m
  <2>8. q + 2 = p + Len(PutBasic(t, v))
    BY <2>2, <2>3, <2>6
  <2> QED BY <2>1, <2>5, <2>7, <2>8
<1>2. CASE t = "i" /\ v \in Chars
  <2>1. PutBasic(t, v) = <<v, ";">>
    BY <1>2 DEF PutBasic
  <2>2. Len(<<v, ";">>) = 2 /\ <<v, ";">>[1] = v
    OBVIOUS
  <2>3. s[p] = v
    <3> DEFINE w == <<v, ";">>
    <3>1. Len(w) = 2 /\ w[1] = v /\ Lies(s, p, w)
      BY <2>1
    <3> HIDE DEF w
    <3>2. s[p - 1 + 1] = w[1] /\ p - 1 + 1 = p
      BY <3>1 DEF Lies
    <3> QED BY <3>1, <3>2
  <2>4. GetBasic(t, s, p) = s[p] /\ AfterBasic(t, s, p) = p + 2
    BY <1>2 DEF GetBasic, AfterBasic
  <2> QED BY <2>1, <2>2, <2>3, <2>4
<1> QED BY <1>1, <1>2 DEF IsBasic

LEMMA TextsFor ==
  ASSUME NEW a, NEW b, IsSeq(a), b = [i \in DOMAIN a |-> b[i]],
         \A i \in DOMAIN a : b[i] \in String
  PROVE  /\ b \in Seq(String) /\ Len(b) = Len(a) /\ Len(a) \in Nat
         /\ DOMAIN a = 1 .. Len(a) /\ DOMAIN b = 1 .. Len(a) /\ FlattenSeq(b) \in String
<1>1. Len(a) \in Nat /\ DOMAIN a = 1 .. Len(a)
  BY SequenceOf DEF IsSeq
<1>2. b \in [1 .. Len(a) -> String]
  BY <1>1
<1>3. b \in Seq(String) /\ Len(b) = Len(a) /\ DOMAIN b = 1 .. Len(a)
  <2> DEFINE n == Len(a)
  <2>1. n \in Nat /\ b \in [1 .. n -> String]
    BY <1>1, <1>2
  <2> HIDE DEF n
  <2>2. b \in Seq(String) /\ Len(b) = n /\ DOMAIN b = 1 .. n
    BY <2>1
  <2> QED BY <2>2 DEF n
<1>4. FlattenSeq(b) \in String
  <2>1. b \in Seq(Seq(Chars))
    BY <1>3 DEF String
  <2> QED BY <2>1, Flattened DEF String
<1> QED BY <1>1, <1>3, <1>4

(* strbuf_put_array, strbuf_get_array: the elements.                       *)
ElementTexts(t, vs) == [i \in DOMAIN vs |-> PutBasic(t, vs[i])]

LEMMA ElementsThere ==
  ASSUME NEW s \in String, NEW p \in Nat \ {0}, NEW t, NEW vs, IsSeq(vs),
         \A i \in DOMAIN vs : IsBasic(t, vs[i]),
         NEW w, w = FlattenSeq(ElementTexts(t, vs)), Lies(s, p, w)
  PROVE  GetArray(t, s, p, Len(vs)) = vs /\ ElementAt(t, s, p)[Len(vs) + 1] = p + Len(w)
<1> DEFINE seqs == [i \in DOMAIN vs |-> PutBasic(t, vs[i])]
           n == Len(vs)
           El == ElementAt(t, s, p)
<1>1. seqs = [i \in DOMAIN vs |-> seqs[i]] /\ \A i \in DOMAIN vs : seqs[i] = PutBasic(t, vs[i])
  OBVIOUS
<1>2. \A i \in DOMAIN vs : seqs[i] \in String
  BY <1>1, BasicValue
<1>3. w = FlattenSeq(seqs) /\ Lies(s, p, FlattenSeq(seqs))
  BY DEF ElementTexts
<1> HIDE DEF seqs
<1>4. seqs \in Seq(String) /\ Len(seqs) = n /\ n \in Nat /\ DOMAIN vs = 1 .. n
  BY <1>1, <1>2, TextsFor
<1>5. PICK at : PlacesOf(at, s, p, seqs)
  BY <1>3, <1>4, FlattenedPlaces
<1> HIDE DEF n
<1>6. /\ at[1] = p /\ at[n + 1] = p + Len(FlattenSeq(seqs))
      /\ \A i \in 1 .. n : /\ at[i] \in Nat \ {0} /\ at[i + 1] = at[i] + Len(seqs[i])
                           /\ Lies(s, at[i], seqs[i])
  BY <1>4, <1>5 DEF PlacesOf
<1>7. ASSUME NEW i \in 1 .. n
      PROVE  GetBasic(t, s, at[i]) = vs[i] /\ AfterBasic(t, s, at[i]) = at[i + 1]
  <2>1. seqs[i] = PutBasic(t, vs[i]) /\ IsBasic(t, vs[i])
    BY <1>1, <1>4
  <2> QED BY <1>6, <2>1, BasicThere
<1>8. \A i \in Nat : El[i] = IF i <= 1 THEN p ELSE AfterBasic(t, s, El[i - 1])
  BY ElementValue
<1> HIDE DEF El
<1> DEFINE Bad == {i \in 1 .. n + 1 : El[i] # at[i]}
<1>9. ASSUME Bad # {} PROVE FALSE
  <2>1. PICK m \in Bad : \A k \in Bad : m <= k
    <3>1. Bad \in SUBSET Nat
      BY <1>4
    <3> HIDE DEF Bad
    <3> QED BY <1>9, <3>1, LeastNumber
  <2>2. m \in 1 .. n + 1 /\ El[m] # at[m]
    OBVIOUS
  <2>3. m # 1
    BY <1>6, <1>8, <2>2
  <2>4. /\ m \in Nat /\ ~(m <= 1) /\ m - 1 \in 1 .. n /\ m - 1 \in 1 .. n + 1
        /\ ~(m <= m - 1) /\ (m - 1) + 1 = m
    BY <1>4, <2>2, <2>3
  <2>5. El[m - 1] = at[m - 1]
    BY <2>1, <2>4
  <2>6. El[m] = AfterBasic(t, s, El[m - 1])
    BY <1>8, <2>4
  <2>7. AfterBasic(t, s, at[m - 1]) = at[m]
    BY <1>7, <2>4
  <2> QED BY <2>2, <2>5, <2>6, <2>7
<1>10. \A i \in 1 .. n + 1 : El[i] = at[i]
  BY <1>9
<1>11. GetArray(t, s, p, n) = vs
  <2>1. GetArray(t, s, p, n) = [i \in 1 .. n |-> GetBasic(t, s, El[i])]
    BY DEF GetArray, El
  <2>2. \A i \in 1 .. n : GetBasic(t, s, El[i]) = vs[i]
    <3>1. \A i \in 1 .. n : i \in 1 .. n + 1
      BY <1>4
    <3> QED BY <1>7, <1>10, <3>1
  <2>3. vs = [i \in 1 .. n |-> vs[i]]
    <3>1. vs \in Seq({vs[i] : i \in DOMAIN vs})
      BY DEF IsSeq
    <3> DEFINE S == {vs[i] : i \in DOMAIN vs}
    <3> HIDE DEF S
    <3>2. vs \in Seq(S)
      BY <3>1 DEF S
    <3>3. vs = [i \in DOMAIN vs |-> vs[i]]
      BY <3>2
    <3> QED BY <1>4, <3>3
  <2> QED BY <2>1, <2>2, <2>3
<1>12. El[n + 1] = p + Len(FlattenSeq(seqs))
  <2>1. n + 1 \in 1 .. n + 1
    BY <1>4
  <2> QED BY <1>6, <1>10, <2>1
<1> QED BY <1>3, <1>11, <1>12 DEF n, El

LEMMA DigitValue ==
  ASSUME NEW n \in 0 .. 4
  PROVE  Digit(n) \in Chars /\ Number(Digit(n)) = n
<1>1. /\ Digit(0) = "0" /\ Digit(1) = "1" /\ Digit(2) = "2" /\ Digit(3) = "3" /\ Digit(4) = "4"
  BY DEF Digit, Digits
<1>2. n = 0 \/ n = 1 \/ n = 2 \/ n = 3 \/ n = 4
  OBVIOUS
<1>3. \A m \in 0 .. 4 : m = 0 \/ m = 1 \/ m = 2 \/ m = 3 \/ m = 4
  OBVIOUS
<1>4. \A m \in 0 .. 4 : Digit(m) = Digit(n) => m = n
  BY <1>1, <1>2, <1>3
<1>5. Digit(n) \in Chars
  BY <1>1, <1>2 DEF Chars
<1>6. Number(Digit(n)) = CHOOSE m \in 0 .. 4 : Digit(m) = Digit(n)
  BY Zenon DEF Number
<1> QED BY <1>4, <1>5, <1>6

LEMMA NumberValue == \A c : Number(c) \in Nat
<1> SUFFICES ASSUME NEW c PROVE Number(c) \in Nat
  OBVIOUS
<1>1. CASE c \in {Digit(n) : n \in 0 .. 4}
  <2>1. PICK n \in 0 .. 4 : c = Digit(n)
    BY <1>1
  <2>2. Number(c) = n
    BY <2>1, DigitValue
  <2> QED BY <2>2
<1>2. CASE c \notin {Digit(n) : n \in 0 .. 4}
  BY <1>2 DEF Number
<1> QED BY <1>1, <1>2

(* What strbuf_put_array puts, part by part.                               *)
Opening(v)  == <<"[", v[1]>>
Count(v)    == PutBasic("L", Digit(Len(v[2])))
Elements(v) == FlattenSeq(ElementTexts(v[1], v[2]))
Closing     == <<"]">>

LEMMA ArrayParts ==
  ASSUME NEW v, IsArray(v)
  PROVE  /\ PutArray(v[1], v[2]) = ((Opening(v) \o Count(v)) \o Elements(v)) \o Closing
         /\ Opening(v) \in String /\ Count(v) \in String
         /\ Elements(v) \in String /\ Closing \in String
         /\ Len(Opening(v)) = 2 /\ Opening(v)[1] = "[" /\ Opening(v)[2] = v[1]
         /\ Len(Count(v)) = 2 /\ Count(v)[1] = Digit(Len(v[2]))
         /\ Len(Closing) = 1 /\ Closing[1] = "]"
<1>1. "[" \in Chars /\ "]" \in Chars /\ ";" \in Chars /\ "s" \in Chars /\ "i" \in Chars
  BY DEF Chars
<1>2. v[1] \in Chars /\ Len(v[2]) \in 0 .. 4
  BY <1>1 DEF IsArray
<1>3. \A a, b : Len(<<a, b>>) = 2 /\ <<a, b>>[1] = a /\ <<a, b>>[2] = b
  OBVIOUS
<1>4. \A a : Len(<<a>>) = 1 /\ <<a>>[1] = a
  OBVIOUS
<1>5. Opening(v) \in String /\ Closing \in String
  BY <1>1, <1>2, FewChars, Zenon DEF Opening, Closing
<1>6. Count(v) = <<Digit(Len(v[2])), ";">>
  BY DEF Count, PutBasic
<1>7. Count(v) \in String
  <2> DEFINE d == Digit(Len(v[2]))
  <2>1. d \in Chars
    BY <1>2, DigitValue
  <2> HIDE DEF d
  <2>2. <<d, ";">> \in String
    BY <1>1, <2>1, FewChars, Zenon
  <2> QED BY <1>6, <2>2 DEF d
<1>8. Elements(v) \in String
  <2> DEFINE vs == v[2]
             b == [i \in DOMAIN vs |-> PutBasic(v[1], vs[i])]
  <2>1. IsSeq(vs) /\ \A i \in DOMAIN vs : IsBasic(v[1], vs[i])
    BY DEF IsArray
  <2>2. b = [i \in DOMAIN vs |-> b[i]] /\ \A i \in DOMAIN vs : b[i] \in String
    BY <2>1, BasicValue
  <2>3. Elements(v) = FlattenSeq(b)
    BY DEF Elements, ElementTexts
  <2> HIDE DEF b, vs
  <2> QED BY <2>1, <2>2, <2>3, TextsFor
<1>9. PutArray(v[1], v[2]) = ((Opening(v) \o Count(v)) \o Elements(v)) \o Closing
  BY Zenon DEF PutArray, Opening, Count, Elements, ElementTexts, Closing
<1>10. Len(Opening(v)) = 2 /\ Opening(v)[1] = "[" /\ Opening(v)[2] = v[1]
  BY <1>3, Zenon DEF Opening
<1>11. Len(Count(v)) = 2 /\ Count(v)[1] = Digit(Len(v[2]))
  BY <1>3, <1>6, Zenon
<1>12. Len(Closing) = 1 /\ Closing[1] = "]"
  BY <1>4, Zenon DEF Closing
<1> QED BY <1>5, <1>7, <1>8, <1>9, <1>10, <1>11, <1>12

LEMMA ArrayThere ==
  ASSUME NEW s \in String, NEW p \in Nat \ {0}, NEW v, IsArray(v), Lies(s, p, Elements(v))
  PROVE  /\ GetArray(v[1], s, p, Len(v[2])) = v[2]
         /\ ElementAt(v[1], s, p)[Len(v[2]) + 1] = p + Len(Elements(v))
<1>1. IsSeq(v[2]) /\ \A i \in DOMAIN v[2] : IsBasic(v[1], v[2][i])
  BY DEF IsArray
<1>2. Elements(v) = FlattenSeq(ElementTexts(v[1], v[2]))
  BY DEF Elements
<1> QED BY <1>1, <1>2, ElementsThere

LEMMA JoinedTexts ==
  ASSUME NEW a \in String, NEW b \in String
  PROVE  /\ a \o b \in String /\ Len(a \o b) = Len(a) + Len(b)
         /\ Len(a) \in Nat /\ Len(b) \in Nat
         /\ Len(a) # 0 => (a \o b)[1] = a[1]
         /\ Len(b) # 0 => (a \o b)[Len(a) + Len(b)] = b[Len(b)]
<1> DEFINE t == a \o b
<1>1. /\ Len(a) \in Nat /\ Len(b) \in Nat /\ t \in String /\ Len(t) = Len(a) + Len(b)
      /\ \A i \in 1 .. Len(a) + Len(b) : t[i] = IF i <= Len(a) THEN a[i] ELSE b[i - Len(a)]
  BY ConcatProperties, TextLength DEF String
<1> HIDE DEF t
<1>2. ASSUME Len(a) # 0 PROVE t[1] = a[1]
  <2>1. 1 \in 1 .. Len(a) + Len(b) /\ 1 <= Len(a)
    BY <1>1, <1>2
  <2> QED BY <1>1, <2>1
<1>3. ASSUME Len(b) # 0 PROVE t[Len(a) + Len(b)] = b[Len(b)]
  <2>1. /\ Len(a) + Len(b) \in 1 .. Len(a) + Len(b) /\ ~(Len(a) + Len(b) <= Len(a))
        /\ Len(a) + Len(b) - Len(a) = Len(b)
    BY <1>1, <1>3
  <2> QED BY <1>1, <2>1
<1> QED BY <1>1, <1>2, <1>3 DEF t

LEMMA BasicEnds ==
  ASSUME NEW t, NEW v, IsBasic(t, v)
  PROVE  PutBasic(t, v)[Len(PutBasic(t, v))] = ";"
<1>1. CASE t = "s" /\ v \in String
  <2> DEFINE x == EscapeText[v]
  <2>1. x \in String
    BY <1>1, EscapeTextValue
  <2>2. PutBasic(t, v) = x \o Mark
    BY <1>1 DEF PutBasic, Mark
  <2> HIDE DEF x
  <2>3. Mark[2] = ";"
    BY DEF Mark
  <2> DEFINE m == Mark
  <2>4. m \in String /\ Len(m) = 2
    BY MarkLength
  <2>9. m[2] = ";"
    BY <2>3
  <2> HIDE DEF m
  <2>5. Len(m) # 0
    BY <2>4
  <2>6. Len(x \o m) = Len(x) + Len(m) /\ (x \o m)[Len(x) + Len(m)] = m[Len(m)]
    BY <2>1, <2>4, <2>5, JoinedTexts, Zenon
  <2> DEFINE y == x \o m
  <2> HIDE DEF y
  <2>7. y[Len(y)] = ";"
    <3>1. Len(x) \in Nat /\ Len(y) = Len(x) + 2 /\ y[Len(x) + 2] = m[2]
      BY <2>1, <2>4, <2>6, TextLength DEF y
    <3> QED BY <2>9, <3>1
  <2> QED BY <2>2, <2>7 DEF y, m
<1>2. CASE t = "i" /\ v \in Chars
  <2>1. PutBasic(t, v) = <<v, ";">>
    BY <1>2 DEF PutBasic
  <2>2. <<v, ";">>[Len(<<v, ";">>)] = ";"
    OBVIOUS
  <2> QED BY <2>1, <2>2
<1> QED BY <1>1, <1>2 DEF IsBasic

(* An argument that is packed: a text that begins with the tag and ends     *)
(* with an end mark.                                                       *)
LEMMA PutValue ==
  ASSUME NEW arg, IsArg(arg)
  PROVE  /\ Put(arg) \in String /\ Len(Put(arg)) \in Nat \ {0}
         /\ Put(arg)[1] \in {"s", "i", "["}
         /\ Put(arg)[Len(Put(arg))] \in {";", "]"}
<1>1. CASE arg.t = "["
  <2> DEFINE v == arg.v
             a == Opening(v)
             b == Count(v)
             c == Elements(v)
  <2>1. IsArray(v)
    BY <1>1 DEF IsArg
  <2>2. Put(arg) = ((a \o b) \o c) \o Closing
    BY <1>1, <2>1, ArrayParts, Zenon DEF Put
  <2>3. /\ a \in String /\ b \in String /\ c \in String /\ Closing \in String
        /\ Len(a) = 2 /\ a[1] = "[" /\ Len(b) = 2 /\ Len(Closing) = 1 /\ Closing[1] = "]"
    BY <2>1, ArrayParts
  <2> HIDE DEF v, a, b, c
  <2> DEFINE d == a \o b
  <2>4. d \in String /\ Len(d) = 4 /\ d[1] = "["
    <3>1. Len(a) # 0
      BY <2>3
    <3>2. d \in String /\ Len(d) = Len(a) + Len(b) /\ d[1] = a[1]
      BY <2>3, <3>1, JoinedTexts, Zenon
    <3> HIDE DEF d
    <3> QED BY <2>3, <3>2
  <2> HIDE DEF d
  <2> DEFINE e == d \o c
  <2>5. e \in String /\ Len(e) \in Nat \ {0} /\ e[1] = "["
    <3>1. Len(d) # 0
      BY <2>4
    <3>2. e \in String /\ Len(e) = Len(d) + Len(c) /\ Len(c) \in Nat /\ e[1] = d[1]
      BY <2>3, <2>4, <3>1, JoinedTexts, Zenon
    <3> HIDE DEF e
    <3> QED BY <2>4, <3>2
  <2> HIDE DEF e
  <2> DEFINE f == e \o Closing
  <2>6. f \in String /\ Len(f) \in Nat \ {0} /\ f[1] = "[" /\ f[Len(f)] = "]"
    <3>1. Len(e) # 0 /\ Len(Closing) # 0
      BY <2>3, <2>5
    <3>2. /\ f \in String /\ Len(f) = Len(e) + Len(Closing) /\ f[1] = e[1]
          /\ f[Len(e) + Len(Closing)] = Closing[Len(Closing)]
      BY <2>3, <2>5, <3>1, JoinedTexts, Zenon
    <3> HIDE DEF f
    <3> QED BY <2>3, <2>5, <3>2
  <2>7. Put(arg) = f
    BY <2>2 DEF d, e
  <2> HIDE DEF f
  <2> QED BY <2>6, <2>7
<1>2. CASE arg.t # "["
  <2> DEFINE t == arg.t
             v == arg.v
             a == <<t>>
             b == PutBasic(t, v)
  <2>1. IsBasic(t, v) /\ Put(arg) = a \o b
    BY <1>2 DEF IsArg, Put
  <2>2. t \in {"s", "i"}
    BY <2>1 DEF IsBasic
  <2>3. t \in Chars
    BY <2>2 DEF Chars
  <2>4. a \in String /\ Len(a) = 1 /\ a[1] = t
    <3>1. a \in String
      BY <2>3, FewChars, Zenon
    <3> HIDE DEF t
    <3> QED BY <3>1
  <2>5. b \in String /\ Len(b) \in Nat \ {0}
    BY <2>1, BasicValue
  <2>8. b[Len(b)] = ";"
    BY <2>1, BasicEnds
  <2> HIDE DEF a, b
  <2> DEFINE f == a \o b
  <2>6. f \in String /\ Len(f) \in Nat \ {0} /\ f[1] = t /\ f[Len(f)] = ";"
    <3> HIDE DEF t
    <3>1. Len(a) # 0 /\ Len(b) # 0
      BY <2>4, <2>5
    <3>2. /\ f \in String /\ Len(f) = Len(a) + Len(b) /\ f[1] = a[1]
          /\ f[Len(a) + Len(b)] = b[Len(b)]
      BY <2>4, <2>5, <3>1, JoinedTexts, Zenon
    <3> HIDE DEF f
    <3>3. Len(f) \in Nat \ {0}
      BY <2>4, <2>5, <3>2
    <3>4. f[1] = t /\ f[Len(f)] = ";"
      BY <2>4, <2>8, <3>2, Zenon
    <3> QED BY <3>2, <3>3, <3>4
  <2> HIDE DEF f
  <2>7. Put(arg) = f
    BY <2>1 DEF f
  <2> QED BY <2>2, <2>6, <2>7
<1> QED BY <1>1, <1>2

(* What is unpacked at p, and where it goes on.                            *)
ArgAt(s, p) ==
  IF s[p] = "[" THEN Arg("[", <<s[p + 1], GetArray(s[p + 1], s, p + 4, Number(s[p + 2]))>>)
  ELSE Arg(s[p], GetBasic(s[p], s, p + 1))

AfterArg(s, p) ==
  IF s[p] = "[" THEN ElementAt(s[p + 1], s, p + 4)[Number(s[p + 2]) + 1] + 1
  ELSE AfterBasic(s[p], s, p + 1)

LEMMA PutThere ==
  ASSUME NEW s \in String, NEW p \in Nat \ {0}, NEW arg, IsArg(arg), Lies(s, p, Put(arg))
  PROVE  ArgAt(s, p) = arg /\ AfterArg(s, p) = p + Len(Put(arg)) /\ p <= Len(s)
<1>0. p <= Len(s)
  <2> DEFINE t == Put(arg)
  <2>1. p + Len(t) - 1 <= Len(s)
    BY DEF Lies
  <2>2. Len(t) \in Nat \ {0} /\ Len(s) \in Nat
    BY PutValue, TextLength
  <2> HIDE DEF t
  <2> QED BY <2>1, <2>2
<1>1. CASE arg.t = "["
  <2> DEFINE v == arg.v
             a == Opening(v)
             b == Count(v)
             c == Elements(v)
             q == p + 4
             n == Len(v[2])
  <2>1. IsArray(v) /\ arg = Arg("[", v)
    BY <1>1 DEF IsArg
  <2>2. Put(arg) = ((a \o b) \o c) \o Closing
    BY <1>1, <2>1, ArrayParts, Zenon DEF Put
  <2>3. /\ a \in String /\ b \in String /\ c \in String /\ Closing \in String
        /\ Len(a) = 2 /\ a[1] = "[" /\ a[2] = v[1] /\ Len(b) = 2 /\ b[1] = Digit(n)
        /\ Len(Closing) = 1
    BY <2>1, ArrayParts
  <2> HIDE DEF v, a, b, c
  <2> DEFINE d == a \o b
             e == d \o c
             f == e \o Closing
  <2>4. d \in String /\ Len(d) = 4
    <3>1. d \in String /\ Len(d) = Len(a) + Len(b)
      BY <2>3, JoinedTexts, Zenon
    <3> HIDE DEF d
    <3> QED BY <2>3, <3>1
  <2> HIDE DEF d
  <2>5. e \in String /\ Len(e) = 4 + Len(c) /\ Len(c) \in Nat
    <3>1. e \in String /\ Len(e) = Len(d) + Len(c) /\ Len(c) \in Nat
      BY <2>3, <2>4, JoinedTexts, Zenon
    <3> HIDE DEF e
    <3> QED BY <2>4, <3>1
  <2> HIDE DEF e
  <2>6. Lies(s, p, e) /\ Len(f) = Len(e) + 1
    <3>1. Lies(s, p, e \o Closing)
      BY <2>2 DEF d, e
    <3>3. e \in String /\ Closing \in String
      BY <2>3, <2>5
    <3>2. Lies(s, p, e)
      BY <3>1, <3>3, LiesParts, Zenon
    <3>4. Len(f) = Len(e) + Len(Closing)
      BY <3>3, JoinedTexts, Zenon
    <3> HIDE DEF f
    <3> QED BY <2>3, <3>2, <3>4
  <2>7. Lies(s, p, d) /\ Lies(s, q, c)
    <3>1. Lies(s, p, d \o c)
      BY <2>6 DEF e
    <3>2. Lies(s, p, d) /\ Lies(s, p + Len(d), c)
      BY <2>3, <2>4, <3>1, LiesParts, Zenon
    <3> QED BY <2>4, <3>2
  <2>8. Lies(s, p, a) /\ Lies(s, p + 2, b)
    <3>1. Lies(s, p, a \o b)
      BY <2>7 DEF d
    <3>2. Lies(s, p, a) /\ Lies(s, p + Len(a), b)
      BY <2>3, <3>1, LiesParts, Zenon
    <3> QED BY <2>3, <3>2
  <2>9. s[p] = "[" /\ s[p + 1] = v[1] /\ s[p + 2] = Digit(n)
    <3>1. s[p - 1 + 1] = a[1] /\ s[p - 1 + 2] = a[2] /\ s[(p + 2) - 1 + 1] = b[1]
      <4>1. 1 \in 1 .. 2 /\ 2 \in 1 .. 2
        OBVIOUS
      <4>2. \A i \in 1 .. 2 : s[p - 1 + i] = a[i]
        BY <2>3, <2>8 DEF Lies
      <4>3. \A i \in 1 .. 2 : s[(p + 2) - 1 + i] = b[i]
        BY <2>3, <2>8 DEF Lies
      <4> QED BY <4>1, <4>2, <4>3
    <3>2. p - 1 + 1 = p /\ p - 1 + 2 = p + 1 /\ (p + 2) - 1 + 1 = p + 2
      OBVIOUS
    <3> QED BY <2>3, <3>1, <3>2
  <2>10. n \in Nat /\ Number(s[p + 2]) = n
    <3>1. n \in 0 .. 4
      BY <2>1 DEF IsArray
    <3> HIDE DEF n
    <3> QED BY <2>9, <3>1, DigitValue
  <2>11. /\ GetArray(v[1], s, q, n) = v[2]
         /\ ElementAt(v[1], s, q)[n + 1] = q + Len(c)
    <3>1. Lies(s, q, Elements(v)) /\ c = Elements(v)
      BY <2>7 DEF c
    <3>2. q \in Nat \ {0}
      OBVIOUS
    <3> HIDE DEF q
    <3> QED BY <2>1, <3>1, <3>2, ArrayThere
  <2>12. v = <<v[1], v[2]>>
    BY <2>1 DEF IsArray
  <2> HIDE DEF n
  <2>13. ArgAt(s, p) = Arg("[", <<v[1], v[2]>>)
    BY <2>9, <2>10, <2>11 DEF ArgAt
  <2>14. AfterArg(s, p) = q + Len(c) + 1
    BY <2>9, <2>10, <2>11 DEF AfterArg
  <2>15. q + Len(c) + 1 = p + Len(f)
    <3> HIDE DEF f
    <3> QED BY <2>5, <2>6
  <2>16. Put(arg) = f
    BY <2>2 DEF d, e
  <2> HIDE DEF f, q
  <2> QED BY <1>0, <2>1, <2>12, <2>13, <2>14, <2>15, <2>16
<1>2. CASE arg.t # "["
  <2> DEFINE t == arg.t
             v == arg.v
             a == <<t>>
             b == PutBasic(t, v)
             q == p + 1
  <2>1. IsBasic(t, v) /\ Put(arg) = a \o b /\ arg = Arg(t, v)
    BY <1>2 DEF IsArg, Put
  <2>2. t \in Chars
    BY <2>1 DEF IsBasic, Chars
  <2>3. a \in String /\ Len(a) = 1 /\ a[1] = t
    <3>1. a \in String
      BY <2>2, FewChars, Zenon
    <3> HIDE DEF t
    <3> QED BY <3>1
  <2>4. b \in String /\ Len(b) \in Nat \ {0}
    BY <2>1, BasicValue
  <2> HIDE DEF a
  <2>5. /\ Lies(s, p, a) /\ Lies(s, q, b) /\ Len(a \o b) = 1 + Len(b)
    <3> HIDE DEF b, t, v
    <3>1. Lies(s, p, a \o b)
      BY <2>1
    <3>3. a \in String /\ b \in String
      BY <2>3, <2>4
    <3>2. Lies(s, p, a) /\ Lies(s, p + Len(a), b)
      BY <3>1, <3>3, LiesParts, Zenon
    <3>4. Len(a \o b) = Len(a) + Len(b)
      BY <3>3, JoinedTexts, Zenon
    <3> QED BY <2>3, <3>2, <3>4
  <2>6. s[p] = t
    <3>1. s[p - 1 + 1] = a[1] /\ p - 1 + 1 = p
      BY <2>3, <2>5 DEF Lies
    <3> QED BY <2>3, <3>1
  <2>7. GetBasic(t, s, q) = v /\ AfterBasic(t, s, q) = q + Len(b)
    <3>1. q \in Nat \ {0}
      OBVIOUS
    <3> HIDE DEF q, t, v
    <3> QED BY <2>1, <2>5, <3>1, BasicThere
  <2>8. ArgAt(s, p) = arg /\ AfterArg(s, p) = q + Len(b)
    BY <1>2, <2>1, <2>6, <2>7 DEF ArgAt, AfterArg
  <2>9. q + Len(b) = p + Len(Put(arg))
    <3> HIDE DEF b, t, v
    <3> QED BY <2>1, <2>4, <2>5
  <2> QED BY <1>0, <2>8, <2>9
<1> QED BY <1>1, <1>2

(* serialize_unpack_strbuf_to_dbus_message: one argument after the other.   *)
Unpacking(s, f) ==
  \A p \in Nat : f[p] = IF p > Len(s) THEN << >> ELSE <<ArgAt(s, p)>> \o f[AfterArg(s, p)]

LEMMA AfterArgValue ==
  ASSUME NEW s \in String, NEW p \in Nat
  PROVE  AfterArg(s, p) \in Nat /\ AfterArg(s, p) > p
<1>1. CASE s[p] = "["
  <2> DEFINE n == Number(s[p + 2])
             t == s[p + 1]
             q == p + 4
             e == ElementAt(t, s, q)[n + 1]
  <2>1. n \in Nat /\ n + 1 \in Nat /\ q \in Nat
    BY NumberValue
  <2> HIDE DEF n, t, q
  <2>2. e \in Nat /\ e >= q
    BY <2>1, ElementValue
  <2>3. AfterArg(s, p) = e + 1
    BY <1>1 DEF AfterArg, n, t, q
  <2> HIDE DEF e
  <2> QED BY <2>1, <2>2, <2>3 DEF q
<1>2. CASE s[p] # "["
  <2> DEFINE t == s[p]
             q == p + 1
             e == AfterBasic(t, s, q)
  <2>1. q \in Nat
    OBVIOUS
  <2> HIDE DEF t, q
  <2>2. e \in Nat /\ e > q
    BY <2>1, AfterValue
  <2>3. AfterArg(s, p) = e
    BY <1>2 DEF AfterArg, t, q
  <2> HIDE DEF e
  <2> QED BY <2>1, <2>2, <2>3 DEF q
<1> QED BY <1>1, <1>2

LEMMA UnpackValue ==
  ASSUME NEW s \in String
  PROVE  \E f : Unpack[s] = f[1] /\ Unpacking(s, f)
<1> DEFINE Next_(f) == [p \in Nat |->
             IF p > Len(s) THEN << >>
             ELSE IF s[p] = "["
             THEN LET n == Number(s[p+2])
                  IN <<Arg("[", <<s[p+1], GetArray(s[p+1], s, p + 4, n)>>)>> \o
                     f[ElementAt(s[p+1], s, p + 4)[n+1] + 1]
             ELSE <<Arg(s[p], GetBasic(s[p], s, p + 1))>> \o f[AfterBasic(s[p], s, p + 1)]]
           A == {ArgAt(s, p) : p \in Nat}
           V == Seq(A)
           B == {p \in Nat : p > Len(s)}
           out == [p \in Nat |-> << >>]
           step == [w \in Nat \X V |-> <<ArgAt(s, w[1])>> \o w[2]]
           next == [p \in Nat |-> AfterArg(s, p)]
           from == CHOOSE f : f = Next_(f)
<1>1. Unpack[s] = from[1]
  BY Zenon DEF Unpack
<1>2. Len(s) \in Nat
  BY TextLength
<1>3. out \in [Nat -> V]
  <2>1. << >> \in V
    OBVIOUS
  <2> HIDE DEF V
  <2> QED BY <2>1
<1>4. step \in [Nat \X V -> V]
  <2> SUFFICES ASSUME NEW w \in Nat \X V
               PROVE  <<ArgAt(s, w[1])>> \o w[2] \in V
    OBVIOUS
  <2>1. ArgAt(s, w[1]) \in A /\ w[2] \in Seq(A)
    OBVIOUS
  <2> HIDE DEF A
  <2>2. <<ArgAt(s, w[1])>> \in Seq(A)
    BY <2>1
  <2> QED BY <2>1, <2>2, ConcatProperties
<1>5. next \in [Nat -> Nat]
  BY AfterArgValue
<1>6. /\ \A p \in Nat : next[p] = AfterArg(s, p) /\ out[p] = << >>
      /\ \A p \in Nat : p \in B <=> p > Len(s)
      /\ \A p \in Nat, v \in V : step[<<p, v>>] = <<ArgAt(s, p)>> \o v
  OBVIOUS
<1> HIDE DEF V, B, out, step, next
<1>7. \A p \in Nat : p \notin B => p <= Len(s) /\ next[p] > p
  BY <1>2, <1>6, AfterArgValue
<1>8. PICK g \in [Nat -> V] : Recurs(g, Nat, B, out, step, next)
  BY <1>2, <1>3, <1>4, <1>5, <1>7, Onward
<1>9. g = Next_(g)
  <2>1. ASSUME NEW p \in Nat
        PROVE  g[p] = IF p > Len(s) THEN << >> ELSE <<ArgAt(s, p)>> \o g[AfterArg(s, p)]
    <3>1. CASE p \in B
      BY <1>6, <1>8, <3>1 DEF Recurs
    <3>2. CASE p \notin B
      <4>1. g[p] = step[<<p, g[AfterArg(s, p)]>>]
        BY <1>6, <1>8, <3>2 DEF Recurs
      <4>2. g[AfterArg(s, p)] \in V
        BY AfterArgValue
      <4> QED BY <1>6, <3>2, <4>1, <4>2
    <3> QED BY <3>1, <3>2
  <2>2. ASSUME NEW p \in Nat PROVE g[p] = Next_(g)[p]
    <3>1. CASE p > Len(s)
      BY <2>1, <3>1
    <3>2. CASE ~(p > Len(s)) /\ s[p] = "["
      <4>1. g[p] = <<ArgAt(s, p)>> \o g[AfterArg(s, p)]
        BY <2>1, <3>2
      <4> QED BY <3>2, <4>1, Zenon DEF ArgAt, AfterArg
    <3>3. CASE ~(p > Len(s)) /\ s[p] # "["
      <4>1. g[p] = <<ArgAt(s, p)>> \o g[AfterArg(s, p)]
        BY <2>1, <3>3
      <4> QED BY <3>3, <4>1, Zenon DEF ArgAt, AfterArg
    <3> QED BY <3>1, <3>2, <3>3
  <2> DEFINE h == Next_(g)
  <2>3. h = [p \in Nat |-> h[p]] /\ g = [p \in Nat |-> g[p]]
    OBVIOUS
  <2>4. \A p \in Nat : g[p] = h[p]
    BY <2>2
  <2> HIDE DEF h
  <2>5. g = h
    BY <2>3, <2>4
  <2> QED BY <2>5 DEF h
<1>10. from = Next_(from)
  <2> HIDE DEF Next_
  <2> QED BY <1>9, Zenon
<1> HIDE DEF from
<1>11. ASSUME NEW p \in Nat
       PROVE  from[p] = IF p > Len(s) THEN << >> ELSE <<ArgAt(s, p)>> \o from[AfterArg(s, p)]
  <2> DEFINE h == Next_(from)
  <2>1. from[p] = h[p]
    BY <1>10
  <2>2. CASE p > Len(s)
    BY <2>1, <2>2
  <2>3. CASE ~(p > Len(s)) /\ s[p] = "["
    BY <2>1, <2>3, Zenon DEF ArgAt, AfterArg
  <2>4. CASE ~(p > Len(s)) /\ s[p] # "["
    BY <2>1, <2>4, Zenon DEF ArgAt, AfterArg
  <2> QED BY <2>2, <2>3, <2>4
<1>12. Unpacking(s, from)
  BY <1>11 DEF Unpacking
<1> QED BY <1>1, <1>12

ArgTexts(args) == [i \in DOMAIN args |-> Put(args[i])]

LEMMA PackPlaces ==
  ASSUME NEW args, IsArgs(args)
  PROVE  /\ Pack(args) \in String /\ Len(args) \in Nat /\ DOMAIN args = 1 .. Len(args)
         /\ \A i \in 1 .. Len(args) : ArgTexts(args)[i] = Put(args[i])
         /\ Len(ArgTexts(args)) = Len(args) /\ FlattenSeq(ArgTexts(args)) = Pack(args)
         /\ \E at : PlacesOf(at, Pack(args), 1, ArgTexts(args))
<1> DEFINE seqs == ArgTexts(args)
           s == Pack(args)
<1>1. seqs = [i \in DOMAIN args |-> seqs[i]] /\ \A i \in DOMAIN args : seqs[i] = Put(args[i])
  BY DEF ArgTexts
<1>2. IsSeq(args) /\ \A i \in DOMAIN args : IsArg(args[i])
  BY DEF IsArgs
<1>3. FlattenSeq(seqs) = s
  BY DEF Pack, ArgTexts
<1> HIDE DEF seqs, s
<1>4. \A i \in DOMAIN args : seqs[i] \in String
  BY <1>1, <1>2, PutValue
<1>5. /\ seqs \in Seq(String) /\ Len(seqs) = Len(args) /\ Len(args) \in Nat
      /\ DOMAIN args = 1 .. Len(args) /\ FlattenSeq(seqs) \in String
  BY <1>1, <1>2, <1>4, TextsFor
<1>6. s \in String /\ Lies(s, 1, s)
  <2>1. s \in String /\ Len(s) \in Nat
    BY <1>3, <1>5, TextLength
  <2>2. 1 + Len(s) - 1 <= Len(s) /\ \A i \in 1 .. Len(s) : 1 - 1 + i = i
    BY <2>1
  <2> QED BY <2>1, <2>2 DEF Lies
<1>7. \E at : PlacesOf(at, s, 1, seqs)
  <2>1. Lies(s, 1, FlattenSeq(seqs)) /\ 1 \in Nat \ {0}
    BY <1>3, <1>6
  <2> QED BY <1>5, <1>6, <2>1, FlattenedPlaces, Zenon
<1> QED BY <1>1, <1>3, <1>5, <1>6, <1>7 DEF seqs, s

(* strbuf.c, serialize.c: the arguments that are packed into an action are  *)
(* those that are unpacked when its call is made.                          *)
THEOREM PackedIsUnpacked == \A args : IsArgs(args) => Unpack[Pack(args)] = args
<1> SUFFICES ASSUME NEW args, IsArgs(args) PROVE Unpack[Pack(args)] = args
  OBVIOUS
<1> DEFINE s == Pack(args)
           seqs == ArgTexts(args)
           n == Len(args)
<1>1. /\ s \in String /\ n \in Nat /\ DOMAIN args = 1 .. n
      /\ \A i \in 1 .. n : seqs[i] = Put(args[i])
      /\ Len(seqs) = n /\ FlattenSeq(seqs) = s
  BY PackPlaces
<1>2. PICK at : PlacesOf(at, s, 1, seqs)
  BY PackPlaces
<1>3. PICK f : Unpack[s] = f[1] /\ Unpacking(s, f)
  BY <1>1, UnpackValue
<1> DEFINE A == {args[i] : i \in DOMAIN args}
<1>4. args \in Seq(A) /\ \A i \in 1 .. n : IsArg(args[i]) /\ args[i] \in A
  BY <1>1 DEF IsArgs, IsSeq
<1> HIDE DEF s, seqs, n, A
<1>5. /\ at[1] = 1 /\ at[n + 1] = 1 + Len(s)
      /\ \A i \in 1 .. n : /\ at[i] \in Nat \ {0} /\ at[i + 1] = at[i] + Len(seqs[i])
                           /\ Lies(s, at[i], seqs[i])
  BY <1>1, <1>2 DEF PlacesOf
<1>6. ASSUME NEW i \in 1 .. n
      PROVE  f[at[i]] = <<args[i]>> \o f[at[i + 1]]
  <2>1. Lies(s, at[i], Put(args[i])) /\ at[i + 1] = at[i] + Len(Put(args[i]))
    BY <1>1, <1>5
  <2>2. ArgAt(s, at[i]) = args[i] /\ AfterArg(s, at[i]) = at[i + 1] /\ at[i] <= Len(s)
    BY <1>1, <1>4, <1>5, <2>1, PutThere
  <2>3. at[i] \in Nat /\ ~(at[i] > Len(s))
    BY <1>1, <1>5, <2>2, TextLength
  <2> QED BY <1>3, <2>2, <2>3 DEF Unpacking
<1>7. f[at[n + 1]] = << >>
  <2>1. Len(s) \in Nat
    BY <1>1, TextLength
  <2>2. 1 + Len(s) \in Nat /\ 1 + Len(s) > Len(s)
    BY <2>1
  <2> QED BY <1>3, <1>5, <2>2 DEF Unpacking
<1> DEFINE Rest(i) == SubSeq(args, i, n)
           Bad == {k \in 0 .. n : f[at[n + 1 - k]] # Rest(n + 1 - k)}
<1>8. n = Len(args)
  BY DEF n
<1>9. Rest(n + 1) = << >>
  BY <1>1, SubSeqEmpty
<1>10. ASSUME NEW i \in 1 .. n PROVE Rest(i) = <<args[i]>> \o Rest(i + 1)
  BY <1>1, <1>4, <1>8
<1>11. Rest(1) = args
  BY <1>1, <1>4, <1>8
<1> HIDE DEF Rest
<1>12. ASSUME Bad # {} PROVE FALSE
  <2>1. PICK k \in Bad : \A j \in Bad : k <= j
    <3>1. Bad \in SUBSET Nat
      BY <1>1
    <3> HIDE DEF Bad
    <3> QED BY <1>12, <3>1, LeastNumber
  <2>2. k \in 0 .. n /\ f[at[n + 1 - k]] # Rest(n + 1 - k)
    OBVIOUS
  <2>3. k # 0
    <3>1. n + 1 - 0 = n + 1
      BY <1>1
    <3> QED BY <1>7, <1>9, <2>2, <3>1
  <2> DEFINE i == n + 1 - k
  <2>4. /\ i \in 1 .. n /\ k - 1 \in 0 .. n /\ ~(k <= k - 1) /\ n + 1 - (k - 1) = i + 1
    BY <1>1, <2>2, <2>3
  <2>5. f[at[n + 1 - (k - 1)]] = Rest(n + 1 - (k - 1))
    BY <2>1, <2>4
  <2>6. f[at[i]] # Rest(i)
    BY <2>2
  <2> HIDE DEF i
  <2>7. f[at[i + 1]] = Rest(i + 1)
    BY <2>4, <2>5
  <2> QED BY <1>6, <1>10, <2>4, <2>6, <2>7
<1>13. f[at[1]] = Rest(1)
  <2>1. n \in 0 .. n /\ n + 1 - n = 1
    BY <1>1
  <2>2. n \notin Bad
    BY <1>12
  <2>3. f[at[n + 1 - n]] = Rest(n + 1 - n)
    BY <2>1, <2>2
  <2> QED BY <2>1, <2>3
<1> QED BY <1>3, <1>5, <1>11, <1>13 DEF s

-----------------------------------------------------------------------------
(* The arguments of actions.                                               *)

(* A text that is written, and read again.                                 *)
Reread(s) == IF Blank(s) THEN << >> ELSE LineText(s)

(* The actions of an event that comes back from the file.                  *)
RereadAction(a) ==
  LET act == [flags |-> <<a.when, a.type>>,
              texts |-> [k \in {h \in ActionTexts : ~Blank(a[h])} |-> LineText(a[k])]]
  IN LoadedAction(act)

LEMMA RereadFields ==
  ASSUME NEW a
  PROVE  /\ RereadAction(a).when = a.when /\ RereadAction(a).type = a.type
         /\ RereadAction(a).label = Reread(a.label)
         /\ RereadAction(a).command = Reread(a.command)
         /\ RereadAction(a).target = Reread(a.target)
         /\ RereadAction(a).args = Reread(a.args)
<1> DEFINE texts == [k \in {h \in ActionTexts : ~Blank(a[h])} |-> LineText(a[k])]
           act == [flags |-> <<a.when, a.type>>, texts |-> texts]
<1>1. ASSUME NEW k \in ActionTexts
      PROVE  TextIn(texts, k) = Reread(a[k])
  BY DEF TextIn, Reread
<1>2. /\ "label" \in ActionTexts /\ "command" \in ActionTexts /\ "target" \in ActionTexts
      /\ "args" \in ActionTexts
  BY DEF ActionTexts
<1> HIDE DEF texts
<1>3. act.flags = <<a.when, a.type>> /\ act.texts = texts
  OBVIOUS
<1>4. RereadAction(a) = LoadedAction(act)
  BY DEF RereadAction, texts
<1> HIDE DEF act
<1>5. /\ LoadedAction(act).when = a.when /\ LoadedAction(act).type = a.type
      /\ LoadedAction(act).label = TextIn(texts, "label")
      /\ LoadedAction(act).command = TextIn(texts, "command")
      /\ LoadedAction(act).target = TextIn(texts, "target")
      /\ LoadedAction(act).args = TextIn(texts, "args")
  BY <1>3 DEF LoadedAction
<1> QED BY <1>1, <1>2, <1>4, <1>5

(* Actions that differ in nothing but their arguments.                     *)
SameButArgs(acts, others) ==
  /\ IsSeq(acts) /\ DOMAIN acts = DOMAIN others
  /\ \A i \in DOMAIN acts :
       /\ acts[i].when = others[i].when /\ acts[i].type = others[i].type
       /\ acts[i].label = others[i].label /\ acts[i].command = others[i].command
       /\ acts[i].target = others[i].target

LEMMA ArgsGiven ==
  ASSUME NEW a, DOMAIN a = DOMAIN NewAction, NEW args
  PROVE  LET b == [a EXCEPT !.args = args]
         IN  /\ DOMAIN b = DOMAIN NewAction /\ b.when = a.when /\ b.type = a.type
             /\ b.label = a.label /\ b.command = a.command /\ b.target = a.target
             /\ b.args = args
<1>1. {"when", "type", "label", "command", "target", "args"} \subseteq DOMAIN a
  BY DEF NewAction
<1> QED BY <1>1

LEMMA BuiltActs ==
  ASSUME NEW shape, IsShape(shape)
  PROVE  /\ SameButArgs(Built(shape).acts, shape.event.acts)
         /\ \A i \in DOMAIN Built(shape).acts :
              DOMAIN Built(shape).acts[i] = DOMAIN NewAction
<1> DEFINE e == shape.event
           acts == [i \in DOMAIN e.acts |-> IF shape.own[i] = << >> THEN e.acts[i]
                                ELSE [e.acts[i] EXCEPT !.args = Pack(shape.own[i][1])]]
<1>1. Built(shape) = [e EXCEPT !.acts = acts] /\ "acts" \in DOMAIN e
  BY DEF Built, IsShape, NewEvent
<1>2. IsSeq(e.acts) /\ \A i \in DOMAIN e.acts : DOMAIN e.acts[i] = DOMAIN NewAction
  BY DEF IsShape
<1>3. acts = [i \in DOMAIN e.acts |-> acts[i]] /\ DOMAIN acts = DOMAIN e.acts
  OBVIOUS
<1>4. ASSUME NEW i \in DOMAIN e.acts
      PROVE  \/ acts[i] = e.acts[i]
             \/ acts[i] = [e.acts[i] EXCEPT !.args = Pack(shape.own[i][1])]
  OBVIOUS
<1> HIDE DEF acts, e
<1>5. IsSeq(acts)
  BY <1>2, <1>3, Mapped
<1>6. Built(shape).acts = acts
  BY <1>1
<1>7. ASSUME NEW i \in DOMAIN acts
      PROVE  /\ DOMAIN acts[i] = DOMAIN NewAction
             /\ acts[i].when = e.acts[i].when /\ acts[i].type = e.acts[i].type
             /\ acts[i].label = e.acts[i].label /\ acts[i].command = e.acts[i].command
             /\ acts[i].target = e.acts[i].target
  <2>1. CASE acts[i] = e.acts[i]
    BY <1>2, <1>3, <2>1
  <2>2. CASE acts[i] = [e.acts[i] EXCEPT !.args = Pack(shape.own[i][1])]
    <3> DEFINE a == e.acts[i]
    <3>1. DOMAIN a = DOMAIN NewAction
      BY <1>2, <1>3
    <3> HIDE DEF a
    <3>2. /\ DOMAIN acts[i] = DOMAIN NewAction
          /\ acts[i].when = a.when /\ acts[i].type = a.type
          /\ acts[i].label = a.label /\ acts[i].command = a.command
          /\ acts[i].target = a.target
      BY <2>2, <3>1, ArgsGiven DEF a
    <3> QED BY <3>2 DEF a
  <2> QED BY <1>3, <1>4, <2>1, <2>2
<1> QED BY <1>3, <1>5, <1>6, <1>7 DEF SameButArgs, e

(* The packed text of arguments has no white space around it, so the file  *)
(* gives it back as it is.                                                 *)
LEMMA PackedStays ==
  ASSUME NEW args, IsArgs(args)
  PROVE  /\ Pack(args) \in String /\ Pack(args) # Null /\ Text(Pack(args)) = Pack(args)
         /\ Reread(Pack(args)) = Pack(args)
<1> DEFINE s == Pack(args)
           seqs == ArgTexts(args)
           n == Len(args)
<1>1. /\ s \in String /\ n \in Nat /\ DOMAIN args = 1 .. n
      /\ \A i \in 1 .. n : seqs[i] = Put(args[i])
      /\ Len(seqs) = n /\ FlattenSeq(seqs) = s
  BY PackPlaces
<1>2. PICK at : PlacesOf(at, s, 1, seqs)
  BY PackPlaces
<1>3. \A i \in 1 .. n : IsArg(args[i])
  BY <1>1 DEF IsArgs
<1> HIDE DEF s, seqs, n
<1>4. /\ at[1] = 1 /\ at[n + 1] = 1 + Len(s)
      /\ \A i \in 1 .. n : /\ at[i] \in Nat \ {0} /\ at[i + 1] = at[i] + Len(seqs[i])
                           /\ Lies(s, at[i], seqs[i])
  BY <1>1, <1>2 DEF PlacesOf
<1>5. s # Null
  BY <1>1, NullIsNoText
<1>6. ASSUME s # << >> PROVE ~Padded(s)
  <2>1. Len(s) \in Nat \ {0}
    BY <1>1, <1>6, TextEnds
  <2>2. n # 0
    <3>1. CASE n = 0
      <4>1. at[1] = 1 + Len(s)
        BY <1>4, <3>1
      <4> QED BY <1>4, <2>1, <4>1
    <3> QED BY <3>1
  <2>3. 1 \in 1 .. n /\ n \in 1 .. n
    BY <1>1, <2>2
  <2> DEFINE a == Put(args[1])
             b == Put(args[n])
  <2>4. /\ Len(a) \in Nat \ {0} /\ a[1] \in {"s", "i", "["}
        /\ Len(b) \in Nat \ {0} /\ b[Len(b)] \in {";", "]"}
    BY <1>3, <2>3, PutValue
  <2>5. seqs[1] = a /\ seqs[n] = b
    BY <1>1, <2>3
  <2> HIDE DEF a, b
  <2>6. s[1] = a[1]
    <3>1. Lies(s, 1, a)
      BY <1>4, <2>3, <2>5
    <3>2. 1 \in 1 .. Len(a) /\ 1 - 1 + 1 = 1
      <4>1. Len(a) \in Nat \ {0}
        BY <2>4
      <4> QED BY <4>1
    <3>3. \A i \in 1 .. Len(a) : s[1 - 1 + i] = a[i]
      BY <3>1 DEF Lies
    <3> QED BY <3>2, <3>3
  <2>7. s[Len(s)] = b[Len(b)]
    <3> DEFINE p == at[n]
    <3>1. Lies(s, p, b) /\ p \in Nat \ {0} /\ at[n + 1] = p + Len(b)
      BY <1>4, <2>3, <2>5
    <3> HIDE DEF p
    <3>2. Len(b) \in Nat \ {0}
      BY <2>4
    <3>3. Len(b) \in 1 .. Len(b) /\ p - 1 + Len(b) = Len(s)
      BY <1>4, <2>1, <3>1, <3>2
    <3>4. \A i \in 1 .. Len(b) : s[p - 1 + i] = b[i]
      BY <3>1 DEF Lies
    <3> QED BY <3>3, <3>4
  <2>8. a[1] \notin White
    BY <2>4 DEF White
  <2>9. b[Len(b)] \notin White
    BY <2>4 DEF White
  <2> QED BY <2>6, <2>7, <2>8, <2>9 DEF Padded
<1>7. Reread(s) = s
  <2>1. CASE s = << >>
    BY <2>1 DEF Reread, Blank
  <2>2. CASE s # << >>
    <3>1. Reread(s) = Stripped[s]
      BY <1>1, <1>5, <2>2, LineTextRead DEF Reread, Blank
    <3>2. Stripped[s] = s
      BY <1>1, <1>6, <2>2, StrippedValue
    <3> QED BY <3>1, <3>2
  <2> QED BY <2>1, <2>2
<1>8. Text(s) = s
  BY <1>5 DEF Text
<1> QED BY <1>1, <1>5, <1>7, <1>8 DEF s

(* The arguments of actions are, packed, those that an application meant.  *)
HasArgs(a, args) == IsArgs(args) /\ (a.args = Pack(args) \/ (a.args = Null /\ args = << >>))

CarriesThese(acts, given) ==
  /\ given \in AllMeant /\ given = [i \in DOMAIN acts |-> given[i]]
  /\ \A i \in DOMAIN acts : HasArgs(acts[i], given[i])

Carries(acts) == \E given : CarriesThese(acts, given)

LEMMA NoArgs == IsArgs(<< >>) /\ Pack(<< >>) = << >>
<1>1. IsSeq(<< >>)
  BY DEF IsSeq
<1>2. IsArgs(<< >>)
  BY <1>1 DEF IsArgs
<1> DEFINE seqs == [i \in DOMAIN << >> |-> Put(<< >>[i])]
<1>3. seqs = << >>
  OBVIOUS
<1>4. Pack(<< >>) = << >>
  BY <1>3 DEF Pack, FlattenSeq
<1> QED BY <1>2, <1>4

LEMMA SentArgs ==
  ASSUME NEW a, NEW args, HasArgs(a, args)
  PROVE  HasArgs(Sent(a), args) /\ HasArgs(RereadAction(a), args)
<1>1. IsArgs(args)
  BY DEF HasArgs
<1>2. Text(a.args) = Pack(args) /\ Reread(a.args) = Pack(args)
  <2>1. CASE a.args = Pack(args)
    <3>1. Reread(Pack(args)) = Pack(args)
      BY <1>1, PackedStays
    <3> QED BY <1>1, <2>1, <3>1, PackedStays
  <2>2. CASE a.args = Null /\ args = << >>
    BY <2>2, NoArgs DEF Text, Reread, Blank
  <2> QED BY <2>1, <2>2 DEF HasArgs
<1>3. Sent(a).args = Text(a.args)
  BY DEF Sent
<1>4. RereadAction(a).args = Reread(a.args)
  BY RereadFields
<1> QED BY <1>1, <1>2, <1>3, <1>4 DEF HasArgs

LEMMA CarriedOn ==
  ASSUME NEW acts, Carries(acts), NEW others, DOMAIN others = DOMAIN acts,
         \A i \in DOMAIN acts : others[i] = Sent(acts[i]) \/ others[i] = RereadAction(acts[i])
  PROVE  Carries(others)
<1>1. PICK given : CarriesThese(acts, given)
  BY DEF Carries
<1>2. \A i \in DOMAIN acts : HasArgs(others[i], given[i])
  BY <1>1, SentArgs DEF CarriesThese
<1>3. CarriesThese(others, given)
  BY <1>1, <1>2 DEF CarriesThese
<1> QED BY <1>3 DEF Carries

(* What is meant for an action.                                            *)
Bare(shape, i) == "DBUS" \in shape.event.acts[i].type /\ shape.own[i] = << >>
FirstBare(shape, i) == Bare(shape, i) /\ \A j \in 1 .. i - 1 : ~Bare(shape, j)

LEMMA MeantValues ==
  ASSUME NEW shape, IsShape(shape), NEW args, IsGiven(args)
  PROVE  LET given == MeantArgs(shape, args)
         IN  /\ given = [i \in DOMAIN shape.event.acts |-> given[i]]
             /\ \A i \in DOMAIN shape.event.acts :
                  given[i] = IF shape.own[i] # << >> THEN shape.own[i][1]
                             ELSE IF args # << >> /\ FirstBare(shape, i) THEN args[1] ELSE << >>
             /\ \A i \in DOMAIN shape.event.acts : IsArgs(given[i])
<1> DEFINE given == MeantArgs(shape, args)
           acts == shape.event.acts
<1>1. DOMAIN shape.own = DOMAIN acts /\ \A i \in DOMAIN acts : IsGiven(shape.own[i])
  BY DEF IsShape
<1>2. given = [i \in DOMAIN shape.own |->
                 IF shape.own[i] # << >> THEN shape.own[i][1]
                 ELSE IF args # << >> /\ FirstBare(shape, i) THEN args[1] ELSE << >>]
  BY Zenon DEF MeantArgs, FirstBare, Bare
<1> HIDE DEF given, acts
<1>3. ASSUME NEW i \in DOMAIN acts
      PROVE  given[i] = IF shape.own[i] # << >> THEN shape.own[i][1]
                        ELSE IF args # << >> /\ FirstBare(shape, i) THEN args[1] ELSE << >>
  BY <1>1, <1>2
<1>4. ASSUME NEW i \in DOMAIN acts PROVE IsArgs(given[i])
  BY <1>1, <1>3, NoArgs DEF IsGiven
<1>5. given = [i \in DOMAIN acts |-> given[i]]
  BY <1>1, <1>2
<1> QED BY <1>3, <1>4, <1>5 DEF given, acts

LEMMA BuiltArgs ==
  ASSUME NEW shape, IsShape(shape)
  PROVE  /\ DOMAIN Built(shape).acts = DOMAIN shape.event.acts /\ IsSeq(Built(shape).acts)
         /\ \A i \in DOMAIN shape.event.acts :
              /\ Built(shape).acts[i].type = shape.event.acts[i].type
              /\ Built(shape).acts[i].args =
                   IF shape.own[i] = << >> THEN Null ELSE Pack(shape.own[i][1])
<1> DEFINE e == shape.event
           acts == [i \in DOMAIN e.acts |-> IF shape.own[i] = << >> THEN e.acts[i]
                                ELSE [e.acts[i] EXCEPT !.args = Pack(shape.own[i][1])]]
<1>1. Built(shape) = [e EXCEPT !.acts = acts] /\ "acts" \in DOMAIN e
  BY DEF Built, IsShape, NewEvent
<1>2. \A i \in DOMAIN e.acts : DOMAIN e.acts[i] = DOMAIN NewAction /\ e.acts[i].args = Null
  BY DEF IsShape
<1>3. /\ DOMAIN acts = DOMAIN e.acts
      /\ \A i \in DOMAIN e.acts :
           acts[i] = IF shape.own[i] = << >> THEN e.acts[i]
                     ELSE [e.acts[i] EXCEPT !.args = Pack(shape.own[i][1])]
  OBVIOUS
<1>4. SameButArgs(Built(shape).acts, e.acts)
  BY BuiltActs
<1> HIDE DEF acts, e
<1>5. Built(shape).acts = acts
  BY <1>1
<1>6. ASSUME NEW i \in DOMAIN e.acts
      PROVE  acts[i].args = IF shape.own[i] = << >> THEN Null ELSE Pack(shape.own[i][1])
  <2> DEFINE a == e.acts[i]
             t == Pack(shape.own[i][1])
  <2>1. DOMAIN a = DOMAIN NewAction /\ a.args = Null
    BY <1>2
  <2>2. acts[i] = IF shape.own[i] = << >> THEN a ELSE [a EXCEPT !.args = t]
    BY <1>3
  <2> HIDE DEF a, t
  <2>3. [a EXCEPT !.args = t].args = t
    BY <2>1, ArgsGiven
  <2>4. acts[i].args = IF shape.own[i] = << >> THEN Null ELSE t
    BY <2>1, <2>2, <2>3
  <2> QED BY <2>4 DEF t
<1> QED BY <1>4, <1>5, <1>6 DEF SameButArgs, e

LEMMA BuiltCarries ==
  ASSUME NEW shape \in Shapes, IsShape(shape)
  PROVE  Carries(Built(shape).acts)
<1> DEFINE given == MeantArgs(shape, << >>)
           acts == Built(shape).acts
<1>1. given \in AllMeant
  BY DEF AllMeant
<1>2. /\ DOMAIN acts = DOMAIN shape.event.acts
      /\ \A i \in DOMAIN shape.event.acts :
           acts[i].args = IF shape.own[i] = << >> THEN Null ELSE Pack(shape.own[i][1])
  BY BuiltArgs
<1>3. IsGiven(<< >>)
  BY DEF IsGiven
<1>4. /\ given = [i \in DOMAIN shape.event.acts |-> given[i]]
      /\ \A i \in DOMAIN shape.event.acts :
           given[i] = IF shape.own[i] # << >> THEN shape.own[i][1] ELSE << >>
      /\ \A i \in DOMAIN shape.event.acts : IsArgs(given[i])
  BY <1>3, MeantValues
<1> HIDE DEF given, acts
<1>5. ASSUME NEW i \in DOMAIN acts PROVE HasArgs(acts[i], given[i])
  BY <1>2, <1>4 DEF HasArgs
<1>6. given = [i \in DOMAIN acts |-> given[i]]
  BY <1>2, <1>4
<1>7. CarriesThese(acts, given)
  BY <1>1, <1>5, <1>6 DEF CarriesThese
<1> QED BY <1>7 DEF Carries, acts

LEMMA TakerValue ==
  ASSUME NEW e, IsSeq(e.acts)
  PROVE  LET open(i) == "DBUS" \in e.acts[i].type /\ e.acts[i].args = Null
         IN  \/ Taker(e) = 0 /\ \A i \in DOMAIN e.acts : ~open(i)
             \/ /\ Taker(e) \in DOMAIN e.acts /\ open(Taker(e))
                /\ \A j \in 1 .. Taker(e) - 1 : ~open(j)
<1> DEFINE open(i) == "DBUS" \in e.acts[i].type /\ e.acts[i].args = Null
           I == {i \in 1 .. Len(e.acts) : open(i)}
           k == Taker(e)
<1>1. Len(e.acts) \in Nat /\ DOMAIN e.acts = 1 .. Len(e.acts)
  BY SequenceOf DEF IsSeq
<1>2. k = IF I # {} THEN CHOOSE x \in I : \A y \in I : x <= y ELSE 0
  BY Zenon DEF Taker, SelectInSeq, Min
<1> HIDE DEF k
<1>3. \A i \in DOMAIN e.acts : i \in I <=> open(i)
  BY <1>1
<1>4. CASE I = {}
  BY <1>2, <1>3, <1>4 DEF k
<1>5. CASE I # {}
  <2>1. I \in SUBSET Nat /\ I \subseteq DOMAIN e.acts
    BY <1>1
  <2> HIDE DEF I
  <2>2. \E x \in I : \A y \in I : x <= y
    BY <1>5, <2>1, LeastNumber
  <2>3. k \in I /\ \A y \in I : k <= y
    BY <1>2, <1>5, <2>2
  <2> HIDE DEF open
  <2>4. ASSUME NEW j \in 1 .. k - 1 PROVE ~open(j)
    <3>1. j \in DOMAIN e.acts /\ ~(k <= j)
      BY <1>1, <2>1, <2>3
    <3> QED BY <1>3, <2>3, <3>1
  <2>5. k \in DOMAIN e.acts /\ open(k)
    BY <1>3, <2>1, <2>3
  <2> QED BY <2>4, <2>5 DEF k, open
<1> QED BY <1>4, <1>5

(* encode_action gives the arguments of the call to the action that they   *)
(* are meant for.                                                          *)
LEMMA CallCarries ==
  ASSUME NEW shape \in Shapes, IsShape(shape)
  PROVE  Carries(WithArgs(Built(shape), CallText(shape)).acts)
<1> DEFINE b == Built(shape)
           acts == b.acts
           text == CallText(shape)
           k == Taker(b)
<1>1. CASE shape.args = << >>
  <2>1. WithArgs(b, text) = b
    BY <1>1 DEF CallText, WithArgs
  <2> QED BY <2>1, BuiltCarries
<1>2. CASE shape.args # << >>
  <2> DEFINE given == MeantArgs(shape, shape.args)
             c == shape.args[1]
             r == WithArgs(b, text)
             D == DOMAIN shape.event.acts
  <2>1. given \in AllMeant
    BY DEF AllMeant
  <2>2. /\ DOMAIN acts = D /\ IsSeq(acts)
        /\ \A i \in D : /\ acts[i].type = shape.event.acts[i].type
                       /\ acts[i].args = IF shape.own[i] = << >> THEN Null
                                         ELSE Pack(shape.own[i][1])
    BY BuiltArgs
  <2>3. IsGiven(shape.args) /\ \A i \in D : IsGiven(shape.own[i])
    BY DEF IsShape
  <2>4. IsArgs(c) /\ text = Pack(c) /\ text # Null
    BY <1>2, <2>3, PackedStays DEF IsGiven, CallText
  <2>5. /\ given = [i \in D |-> given[i]]
        /\ \A i \in D :
             given[i] = IF shape.own[i] # << >> THEN shape.own[i][1]
                        ELSE IF FirstBare(shape, i) THEN c ELSE << >>
        /\ \A i \in D : IsArgs(given[i])
    BY <1>2, <2>3, MeantValues
  <2>6. r = IF k = 0 THEN b ELSE [b EXCEPT !.acts[k].args = text]
    BY <2>4 DEF WithArgs
  <2>7. IsBuilt(b) /\ \A i \in DOMAIN acts : DOMAIN acts[i] = DOMAIN NewAction
    BY BuiltEvent, BuiltActs
  <2>8. "acts" \in DOMAIN b
    BY <2>7 DEF IsBuilt, NewEvent
  <2>9. ASSUME NEW i \in D
        PROVE  ("DBUS" \in acts[i].type /\ acts[i].args = Null) <=> Bare(shape, i)
    <3>1. shape.own[i] # << >> => Pack(shape.own[i][1]) # Null
      BY <2>3, PackedStays DEF IsGiven
    <3> QED BY <2>2, <3>1 DEF Bare
  <2>10. \/ k = 0 /\ \A i \in D : ~FirstBare(shape, i)
         \/ k \in D /\ k # 0 /\ \A i \in D : FirstBare(shape, i) <=> i = k
    <3>1. CASE k = 0
      <4>1. ~(k \in D /\ "DBUS" \in acts[k].type /\ acts[k].args = Null)
        <5>1. D = 1 .. Len(acts) /\ Len(acts) \in Nat
          BY <2>2, SequenceOf DEF IsSeq
        <5> HIDE DEF D, acts, k
        <5> QED BY <3>1, <5>1
      <4>2. \A i \in DOMAIN acts : ~("DBUS" \in acts[i].type /\ acts[i].args = Null)
        <5>1. \/ k = 0 /\ \A i \in DOMAIN acts : ~("DBUS" \in acts[i].type /\ acts[i].args = Null)
              \/ k \in DOMAIN acts /\ "DBUS" \in acts[k].type /\ acts[k].args = Null
          BY <2>2, TakerValue
        <5> HIDE DEF D, acts, k
        <5> QED BY <2>2, <4>1, <5>1
      <4>3. \A i \in D : ~Bare(shape, i)
        <5> HIDE DEF D, acts, k
        <5> QED BY <2>2, <2>9, <4>2
      <4> QED BY <3>1, <4>3 DEF FirstBare
    <3>2. CASE k # 0
      <4>1. /\ k \in D /\ "DBUS" \in acts[k].type /\ acts[k].args = Null
            /\ \A j \in 1 .. k - 1 : ~("DBUS" \in acts[j].type /\ acts[j].args = Null)
        BY <2>2, <3>2, TakerValue
      <4>2. D = 1 .. Len(acts) /\ Len(acts) \in Nat
        BY <2>2, SequenceOf DEF IsSeq
      <4>3. Bare(shape, k) /\ \A j \in 1 .. k - 1 : ~Bare(shape, j)
        <5> HIDE DEF k, D, acts
        <5>1. \A j \in 1 .. k - 1 : j \in D
          BY <4>1, <4>2
        <5> QED BY <2>9, <4>1, <5>1
      <4>4. ASSUME NEW i \in D, i # k PROVE ~FirstBare(shape, i)
        <5> HIDE DEF k, D, acts
        <5>1. k \in 1 .. i - 1 \/ i \in 1 .. k - 1
          BY <4>1, <4>2, <4>4
        <5> QED BY <4>3, <5>1 DEF FirstBare
      <4> QED BY <3>2, <4>1, <4>3, <4>4 DEF FirstBare
    <3> QED BY <3>1, <3>2
  <2> HIDE DEF given, b, k, D, text, c
  <2>11. /\ DOMAIN r.acts = D
         /\ \A i \in D : r.acts[i].args = IF k # 0 /\ i = k THEN text ELSE acts[i].args
    <3>1. CASE k = 0
      BY <2>2, <2>6, <3>1
    <3>2. CASE k # 0
      <4> DEFINE new == [acts EXCEPT ![k] = [@ EXCEPT !.args = text]]
      <4>1. r.acts = new
        BY <2>6, <2>8, <3>2
      <4>2. DOMAIN new = D /\ \A i \in D : i # k => new[i] = acts[i]
        BY <2>2
      <4>3. new[k].args = text
        <5> DEFINE a == acts[k]
        <5>1. DOMAIN a = DOMAIN NewAction /\ k \in DOMAIN acts
          BY <2>2, <2>7, <2>10, <3>2
        <5>2. new[k] = [a EXCEPT !.args = text]
          BY <5>1
        <5> HIDE DEF a, new
        <5> QED BY <5>1, <5>2, ArgsGiven
      <4> HIDE DEF new
      <4> QED BY <3>2, <4>1, <4>2, <4>3
    <3> QED BY <3>1, <3>2
  <2> HIDE DEF r, acts
  <2>12. ASSUME NEW i \in D PROVE HasArgs(r.acts[i], given[i])
    <3>1. CASE k # 0 /\ i = k
      <4>1. FirstBare(shape, i) /\ shape.own[i] = << >>
        BY <2>10, <3>1 DEF FirstBare, Bare
      <4>2. given[i] = c
        BY <2>5, <4>1
      <4> QED BY <2>4, <2>11, <3>1, <4>2 DEF HasArgs
    <3>2. CASE ~(k # 0 /\ i = k)
      <4>1. ~FirstBare(shape, i)
        BY <2>10, <3>2
      <4>2. r.acts[i].args = acts[i].args
        BY <2>11, <3>2
      <4> QED BY <2>2, <2>5, <4>1, <4>2 DEF HasArgs
    <3> QED BY <3>1, <3>2
  <2>13. CarriesThese(r.acts, given)
    BY <2>1, <2>5, <2>11, <2>12 DEF CarriesThese
  <2> QED BY <2>13 DEF Carries, r, b, text
<1> QED BY <1>1, <1>2

-----------------------------------------------------------------------------
(* The actions.                                                            *)

(* No text of an alarm consists of white space only; the file has alarms   *)
(* that were checked when they were sent.                                  *)
TextsSeen ==
  \A shape \in Shapes : \A i \in DOMAIN shape.event.acts :
    LET a == shape.event.acts[i]
    IN \A s \in {a.label, a.command, a.target} : Blank(s) \/ Visible(s)

EarlierSane == \A i \in DOMAIN Earlier : IsSane(Built(Earlier[i]))

Seen(s) == s \in String /\ Visible(s)

(* Under these conditions what an action needs can be seen.                *)
Useful(a) ==
  TextsSeen /\ EarlierSane =>
    /\ "RESPONDED" \in a.when => Seen(a.label)
    /\ "DBUS" \in a.type      => Seen(a.target)
    /\ "EXEC" \in a.type      => Seen(a.command)

(* An action as the library has it, and as the daemon has it.              *)
Given(a) ==
  /\ a.label \in String \cup {Null} /\ a.command \in String \cup {Null}
  /\ a.target \in String \cup {Null}
  /\ Useful(a)

Whole(a) ==
  /\ a.label \in String /\ a.command \in String /\ a.target \in String
  /\ Useful(a)

GivenActs(acts) == IsSeq(acts) /\ Carries(acts) /\ \A i \in DOMAIN acts : Given(acts[i])
WholeActs(acts) == IsSeq(acts) /\ Carries(acts) /\ \A i \in DOMAIN acts : Whole(acts[i])

LEMMA EmptyText == << >> \in String /\ ~Seen(<< >>)
  BY DEF String, Seen, Visible

LEMMA SentWhole ==
  ASSUME NEW a, Given(a)
  PROVE  Whole(Sent(a))
<1>1. ASSUME NEW s \in String \cup {Null}
      PROVE  Text(s) \in String /\ (Seen(s) => Seen(Text(s)))
  <2>1. CASE s = Null
    BY <2>1, EmptyText, NullIsNoText DEF Text, Seen
  <2>2. CASE s # Null
    BY <2>2 DEF Text
  <2> QED BY <2>1, <2>2
<1> DEFINE b == Sent(a)
<1>2. /\ b.when = a.when /\ b.type = a.type /\ b.label = Text(a.label)
      /\ b.command = Text(a.command) /\ b.target = Text(a.target)
  BY DEF Sent
<1> HIDE DEF b
<1>3. /\ b.label \in String /\ b.command \in String /\ b.target \in String
      /\ Seen(a.label) => Seen(b.label)
      /\ Seen(a.command) => Seen(b.command)
      /\ Seen(a.target) => Seen(b.target)
  BY <1>1, <1>2 DEF Given
<1>4. Useful(b)
  BY <1>2, <1>3 DEF Given, Useful
<1> QED BY <1>3, <1>4 DEF Whole, b

LEMMA RereadText ==
  ASSUME NEW s \in String \cup {Null}
  PROVE  Reread(s) \in String /\ (Seen(s) => Seen(Reread(s)))
<1>1. CASE Blank(s)
  <2>1. ~Seen(s)
    BY <1>1, EmptyText, NullIsNoText DEF Blank, Seen
  <2> QED BY <1>1, <2>1, EmptyText DEF Reread
<1>2. CASE ~Blank(s)
  <2>1. s \in String /\ s # Null
    BY <1>2 DEF Blank
  <2>2. Reread(s) = Stripped[s]
    BY <1>2, <2>1, LineTextRead DEF Reread
  <2> QED BY <2>1, <2>2, StrippedText DEF Seen
<1> QED BY <1>1, <1>2

LEMMA RereadWhole ==
  ASSUME NEW a, Given(a)
  PROVE  Whole(RereadAction(a))
<1> DEFINE b == RereadAction(a)
<1>1. /\ b.when = a.when /\ b.type = a.type /\ b.label = Reread(a.label)
      /\ b.command = Reread(a.command) /\ b.target = Reread(a.target)
  BY RereadFields
<1> HIDE DEF b
<1>2. /\ b.label \in String /\ b.command \in String /\ b.target \in String
      /\ Seen(a.label) => Seen(b.label)
      /\ Seen(a.command) => Seen(b.command)
      /\ Seen(a.target) => Seen(b.target)
  BY <1>1, RereadText DEF Given
<1>3. Useful(b)
  BY <1>1, <1>2 DEF Given, Useful
<1> QED BY <1>2, <1>3 DEF Whole, b

LEMMA SectionActs ==
  ASSUME NEW e, GivenActs(e.acts)
  PROVE  WholeActs(LoadedEvent(Section(e)).acts)
<1> DEFINE n == Len(e.acts)
           sec == Section(e)
           Written(i) == [flags |-> <<e.acts[i].when, e.acts[i].type>>,
                          texts |-> [k \in {h \in ActionTexts : ~Blank(e.acts[i][h])} |->
                                       LineText(e.acts[i][k])]]
           back == [i \in 1 .. sec.counts[1] |-> LoadedAction(sec.acts[i])]
<1>1. n \in Nat /\ DOMAIN e.acts = 1 .. n
  BY SequenceOf DEF GivenActs, IsSeq
<1>2. sec.counts[1] = n /\ sec.acts = [i \in DOMAIN e.acts |-> Written(i)]
  <2>1. sec.counts = <<Len(e.acts), Len(e.recs), Len(e.attrs)>>
    BY DEF Section
  <2>2. sec.acts = [i \in DOMAIN e.acts |-> Written(i)]
    BY DEF Section
  <2> QED BY <2>1, <2>2
<1>3. LoadedEvent(sec).acts = back
  <2> HIDE DEF sec, back
  <2> QED BY DEF LoadedEvent, NewEvent, back
<1>4. \A i \in 1 .. n : LoadedAction(Written(i)) = RereadAction(e.acts[i])
  BY DEF RereadAction
<1> HIDE DEF sec, Written
<1>5. DOMAIN back = 1 .. n /\ \A i \in 1 .. n : back[i] = RereadAction(e.acts[i])
  <2> HIDE DEF n
  <2> QED BY <1>1, <1>2, <1>4
<1>6. back = [i \in DOMAIN e.acts |-> back[i]]
  BY <1>1, <1>2
<1>7. IsSeq(back)
  <2> HIDE DEF back
  <2> QED BY <1>6, Mapped DEF GivenActs
<1>8. \A i \in DOMAIN back : Whole(back[i])
  BY <1>1, <1>5, RereadWhole DEF GivenActs
<1> HIDE DEF back
<1>9. Carries(back)
  BY <1>1, <1>5, CarriedOn DEF GivenActs
<1> QED BY <1>3, <1>7, <1>8, <1>9 DEF WholeActs, sec

LEMMA WholeGiven == \A acts : WholeActs(acts) => GivenActs(acts)
  BY DEF WholeActs, GivenActs, Whole, Given

LEMMA WithArgsActs ==
  ASSUME NEW e, IsBuilt(e), \A i \in DOMAIN e.acts : DOMAIN e.acts[i] = DOMAIN NewAction,
         NEW args
  PROVE  SameButArgs(WithArgs(e, args).acts, e.acts)
<1> DEFINE k == Taker(e)
           acts == [e.acts EXCEPT ![k] = [@ EXCEPT !.args = args]]
<1>1. WithArgs(e, args) = e \/ WithArgs(e, args) = [e EXCEPT !.acts = acts]
  BY DEF WithArgs
<1>2. IsSeq(e.acts) /\ "acts" \in DOMAIN e
  BY DEF IsBuilt, NewEvent
<1>3. /\ acts = [i \in DOMAIN e.acts |-> acts[i]] /\ DOMAIN acts = DOMAIN e.acts
      /\ \A i \in DOMAIN acts : \/ acts[i] = e.acts[i]
                                \/ acts[i] = [e.acts[i] EXCEPT !.args = args]
  <2> HIDE DEF k
  <2> QED OBVIOUS
<1> HIDE DEF acts, k
<1>4. IsSeq(acts)
  BY <1>2, <1>3, Mapped
<1>5. ASSUME NEW i \in DOMAIN acts
      PROVE  /\ acts[i].when = e.acts[i].when /\ acts[i].type = e.acts[i].type
             /\ acts[i].label = e.acts[i].label /\ acts[i].command = e.acts[i].command
             /\ acts[i].target = e.acts[i].target
  <2>1. CASE acts[i] = e.acts[i]
    BY <2>1
  <2>2. CASE acts[i] = [e.acts[i] EXCEPT !.args = args]
    <3> DEFINE a == e.acts[i]
    <3>1. DOMAIN a = DOMAIN NewAction
      BY <1>3
    <3> HIDE DEF a
    <3>2. /\ acts[i].when = a.when /\ acts[i].type = a.type
          /\ acts[i].label = a.label /\ acts[i].command = a.command
          /\ acts[i].target = a.target
      BY <2>2, <3>1, ArgsGiven DEF a
    <3> QED BY <3>2 DEF a
  <2> QED BY <1>3, <2>1, <2>2
<1>6. SameButArgs(acts, e.acts)
  BY <1>3, <1>4, <1>5 DEF SameButArgs
<1>7. SameButArgs(e.acts, e.acts)
  BY <1>2 DEF SameButArgs
<1>8. CASE WithArgs(e, args) = e
  BY <1>7, <1>8
<1>9. CASE WithArgs(e, args) = [e EXCEPT !.acts = acts]
  BY <1>2, <1>6, <1>9
<1> QED BY <1>1, <1>8, <1>9

LEMMA SameGiven ==
  ASSUME NEW acts, NEW others, SameButArgs(acts, others), Carries(acts), GivenActs(others)
  PROVE  GivenActs(acts)
BY DEF SameButArgs, GivenActs, Given, Useful

(* What the library has checked: is_sane finds no error in the actions.    *)
LEMMA SaneGiven ==
  ASSUME NEW shape, IsShape(shape), shape \in Shapes,
         TextsSeen /\ EarlierSane => IsSane(Built(shape))
  PROVE  GivenActs(Built(shape).acts)
<1> DEFINE b == Built(shape).acts
           acts == shape.event.acts
<1>1. SameButArgs(b, acts)
  BY BuiltActs
<1>2. \A i \in DOMAIN acts :
        /\ acts[i].label \in String \cup {Null} /\ acts[i].command \in String \cup {Null}
        /\ acts[i].target \in String \cup {Null}
  BY DEF IsShape
<1>3. ASSUME TextsSeen, EarlierSane
      PROVE  \A i \in DOMAIN acts : ~ActionError(b[i])
  <2>1. IsSane(Built(shape))
    BY <1>3
  <2> QED BY <1>1, <2>1 DEF IsSane, SameButArgs
<1>4. TextsSeen => \A i \in DOMAIN acts :
        /\ Blank(acts[i].label) \/ Visible(acts[i].label)
        /\ Blank(acts[i].command) \/ Visible(acts[i].command)
        /\ Blank(acts[i].target) \/ Visible(acts[i].target)
  BY DEF TextsSeen
<1> HIDE DEF b, acts
<1>5. ASSUME NEW i \in DOMAIN b
      PROVE  Given(b[i])
  <2>1. /\ i \in DOMAIN acts /\ b[i].label = acts[i].label
        /\ b[i].command = acts[i].command /\ b[i].target = acts[i].target
    BY <1>1 DEF SameButArgs
  <2>2. /\ b[i].label \in String \cup {Null} /\ b[i].command \in String \cup {Null}
        /\ b[i].target \in String \cup {Null}
    BY <1>2, <2>1
  <2>3. ASSUME TextsSeen, EarlierSane
        PROVE  /\ "RESPONDED" \in b[i].when => Seen(b[i].label)
               /\ "DBUS" \in b[i].type      => Seen(b[i].target)
               /\ "EXEC" \in b[i].type      => Seen(b[i].command)
    <3>1. ~ActionError(b[i])
      BY <1>3, <2>1, <2>3
    <3>2. /\ Blank(b[i].label) \/ Visible(b[i].label)
          /\ Blank(b[i].command) \/ Visible(b[i].command)
          /\ Blank(b[i].target) \/ Visible(b[i].target)
      BY <1>4, <2>1, <2>3
    <3> QED BY <2>2, <3>1, <3>2 DEF ActionError, Seen, Blank
  <2> QED BY <2>2, <2>3 DEF Given, Useful
<1>6. Carries(b)
  BY BuiltCarries DEF b
<1> QED BY <1>1, <1>5, <1>6 DEF GivenActs, SameButArgs, b

(* The actions that a message of the library brings to the daemon.         *)
LEMMA ArrivedWhole ==
  ASSUME NEW m, NEW acts, GivenActs(acts), HoldsActions(m.body, acts)
  PROVE  \A arrived \in ActsIn(m) : WholeActs(arrived)
<1> SUFFICES ASSUME NEW arrived \in ActsIn(m) PROVE WholeActs(arrived)
  OBVIOUS
<1>1. Decode(m.body) # << >> /\ arrived = Decode(m.body)[1].acts
  BY DEF ActsIn
<1>2. arrived = ActionsRead(m.body)
  <2>1. PICK e : Decode(m.body) = <<e>> /\ e.acts = ActionsRead(m.body)
    BY <1>1, DecodedValues
  <2> QED BY <1>1, <2>1
<1>3. /\ IsSeq(arrived) /\ DOMAIN arrived = DOMAIN acts
      /\ \A i \in DOMAIN acts : arrived[i] = Sent(acts[i])
  BY <1>2, ActionsArrive DEF GivenActs
<1>4. Carries(arrived)
  BY <1>3, CarriedOn DEF GivenActs
<1> QED BY <1>3, <1>4, SentWhole DEF GivenActs, WholeActs

LEMMA CalledWhole ==
  ASSUME NEW client, NEW call \in CallsOf(client), Takes(call), NEW n
  PROVE  \A acts \in ActsIn([id |-> n, member |-> call.op, body |-> Body(call)]) :
           WholeActs(acts)
<1> DEFINE m == [id |-> n, member |-> call.op, body |-> Body(call)]
<1>1. m.member = call.op /\ m.body = Body(call)
  OBVIOUS
<1> HIDE DEF m
<1>2. ASSUME call.op \in {"add", "update"}
      PROVE  /\ IsShape(call.shape) /\ call.shape \in Shapes /\ IsSane(Built(call.shape))
             /\ call.op = "update" => call.cookie \in Nat
  <2>1. PICK r \in Requests :
          call = [k \in DOMAIN r \cup {"client"} |-> IF k = "client" THEN client ELSE r[k]]
    BY DEF CallsOf
  <2>2. \A k \in DOMAIN r : k # "client" => call[k] = r[k]
    BY <2>1
  <2>3. "op" \in DOMAIN r /\ call.op = r.op
    BY <2>2, RequestTypes
  <2>4. "shape" \in DOMAIN r /\ IsShape(r.shape)
    BY <1>2, <2>3, RequestTypes
  <2>5. call.shape = r.shape
    BY <2>2, <2>4
  <2>6. r.shape \in Shapes
    BY <1>2, <2>3 DEF Shapes
  <2>7. ASSUME call.op = "update" PROVE call.cookie \in Nat
    <3>1. "cookie" \in DOMAIN r /\ r.cookie \in Nat
      BY <2>3, <2>7, RequestTypes
    <3> QED BY <2>2, <3>1
  <2>8. IsSane(Built(call.shape))
    BY <1>2 DEF Takes
  <2> QED BY <2>4, <2>5, <2>6, <2>7, <2>8
<1>3. CASE call.op = "add"
  <2> DEFINE b == Built(call.shape)
             e == WithArgs(b, CallText(call.shape))
  <2>1. IsBuilt(b) /\ GivenActs(b.acts)
        /\ \A i \in DOMAIN b.acts : DOMAIN b.acts[i] = DOMAIN NewAction
    BY <1>2, <1>3, BuiltEvent, BuiltActs, SaneGiven
  <2>2. IsBuilt(e) /\ SameButArgs(e.acts, b.acts)
    <3> HIDE DEF b
    <3> QED BY <2>1, WithArgsBuilt, WithArgsActs
  <2>3. Carries(e.acts)
    BY <1>2, <1>3, CallCarries
  <2>4. Body(call) = Encode(e) \/ Body(call) = EncodeOld(e)
    BY <1>3 DEF Body, EncodeAdd
  <2> HIDE DEF e, b
  <2>5. HoldsActions(m.body, e.acts) /\ GivenActs(e.acts)
    BY <1>1, <2>1, <2>2, <2>3, <2>4, EncodedValues, SameGiven
  <2> QED BY <2>5, ArrivedWhole DEF m
<1>4. CASE call.op = "update"
  <2> DEFINE b == Built(call.shape)
             e == [b EXCEPT !.cookie = call.cookie]
  <2>1. IsBuilt(b) /\ GivenActs(b.acts)
    BY <1>2, <1>4, BuiltEvent, SaneGiven
  <2>2. Body(call) = Encode(e)
    BY <1>4 DEF Body, EncodeUpdate
  <2> HIDE DEF b
  <2>3. {"cookie", "time", "acts", "recs", "attrs"} \subseteq DOMAIN b
    BY <2>1 DEF IsBuilt, NewEvent
  <2>4. /\ DOMAIN e = DOMAIN b /\ e.cookie = call.cookie /\ e.time = b.time
        /\ e.acts = b.acts /\ e.recs = b.recs /\ e.attrs = b.attrs
    BY <2>3
  <2> HIDE DEF e
  <2>5. IsBuilt(e)
    BY <1>2, <1>4, <2>1, <2>4 DEF IsBuilt
  <2>6. HoldsActions(m.body, e.acts) /\ GivenActs(e.acts)
    BY <1>1, <2>1, <2>2, <2>4, <2>5, EncodedValues
  <2> QED BY <2>6, ArrivedWhole DEF m
<1>5. CASE call.op \notin {"add", "update"}
  BY <1>1, <1>5 DEF ActsIn, m
<1> QED BY <1>3, <1>4, <1>5

-----------------------------------------------------------------------------
(* The specification.                                                      *)

(* The tables agree; the events of the file and of the messages that are   *)
(* still on their way are such that adding them keeps it so.               *)
QueueInv ==
  /\ IsQueue(queue) /\ Agree(queue)
  /\ Sound(file)
  /\ IsSeq(bus) /\ \A i \in DOMAIN bus : IsMessage(bus[i])

LEMMA EmptyAgrees ==
  EmptyQueue.events = << >> /\ IsQueue(EmptyQueue) /\ Agree(EmptyQueue)
BY SnoozeRange DEF EmptyQueue, IsQueue, Agree, Holds, CookieSorted, TriggerSorted

(* The alarms that are in the file from the beginning.                     *)
Start(i) == [Built(Earlier[i]) EXCEPT !.trigger = Earlier[i].event.time]
Starts == [i \in DOMAIN Earlier |-> Start(i)]

LEMMA StartsAddable ==
  /\ Addable(Starts) /\ Len(Starts) \in Nat /\ DOMAIN Starts = 1 .. Len(Starts)
  /\ Init => file = Saved(Added(EmptyQueue, Starts)) /\ queue = Loaded(file)
<1>1. IsSeq(Earlier) /\ \A i \in DOMAIN Earlier : IsShape(Earlier[i])
  BY RequestTypes
<1>2. ASSUME NEW i \in DOMAIN Earlier
      PROVE  IsEvent(Start(i)) /\ Start(i).cookie = 0
  <2> DEFINE b == Built(Earlier[i])
             s == [b EXCEPT !.trigger = Earlier[i].event.time]
  <2>1. /\ IsBuilt(b) /\ b.cookie = 0 /\ b.time = Earlier[i].event.time
        /\ b.state = "NEW"
    BY <1>1, BuiltEvent
  <2> HIDE DEF b
  <2>2. {"cookie", "trigger", "state", "acts"} \subseteq DOMAIN b /\ b.time \in Int
    BY <2>1 DEF IsBuilt, NewEvent
  <2>3. /\ DOMAIN s = DOMAIN b /\ s.cookie = 0 /\ s.trigger = Earlier[i].event.time
        /\ s.state = "NEW"
    BY <2>1, <2>2
  <2>4. Start(i) = s
    BY DEF b, Start
  <2> HIDE DEF s
  <2> QED BY <2>1, <2>2, <2>3, <2>4 DEF IsEvent
<1>3. /\ IsSeq(Starts) /\ DOMAIN Starts = DOMAIN Earlier
      /\ \A i \in DOMAIN Earlier : Starts[i] = Start(i)
  <2>1. /\ Starts = [i \in DOMAIN Earlier |-> Starts[i]]
        /\ \A i \in DOMAIN Earlier : Starts[i] = Start(i)
    BY DEF Starts
  <2> QED BY <1>1, <2>1, Mapped
<1>4. Len(Starts) \in Nat /\ DOMAIN Starts = 1 .. Len(Starts)
  BY <1>3, SequenceOf DEF IsSeq
<1>5. Addable(Starts)
  BY <1>2, <1>3, <1>4 DEF Addable
<1>6. Init => file = Saved(Added(EmptyQueue, Starts)) /\ queue = Loaded(file)
  BY Zenon DEF Init, Starts, Start
<1> QED BY <1>4, <1>5, <1>6

LEMMA InitQueueInv == Init => QueueInv
<1> SUFFICES ASSUME Init PROVE QueueInv
  OBVIOUS
<1> DEFINE q == Added(EmptyQueue, Starts)
<1>1. IsQueue(q) /\ Agree(q)
  BY StartsAddable, EmptyAgrees, AddedAgrees
<1>2. file = Saved(q) /\ queue = Loaded(file)
  BY StartsAddable
<1> HIDE DEF q
<1>3. Sound(file)
  BY <1>1, <1>2, SavedSound
<1>4. IsQueue(queue) /\ Agree(queue)
  BY <1>2, <1>3, LoadedAgrees
<1>5. IsSeq(bus) /\ \A i : i \notin DOMAIN bus
  <2>1. bus \in Seq(Nat) /\ Len(bus) = 0
    BY DEF Init
  <2> QED BY <2>1, NothingHeld
<1> QED BY <1>3, <1>4, <1>5 DEF QueueInv

LEMMA NextQueueInv == QueueInv /\ [Next]_vars => QueueInv'
<1> SUFFICES ASSUME QueueInv, [Next]_vars PROVE QueueInv'
  OBVIOUS
<1> USE DEF QueueInv
<1>1. ASSUME NEW client \in Clients, NEW call \in CallsOf(client), Call(call)
      PROVE  QueueInv'
  <2> DEFINE m == [id |-> Len(calls'), member |-> call.op, body |-> Body(call)]
  <2>1. /\ bus' = Append(bus, m) /\ queue' = queue /\ file' = file
    BY <1>1 DEF Call, serverVars, fileVars
  <2>2. IsMessage(m)
    BY BodyValues
  <2> HIDE DEF m
  <2> DEFINE S == {bus[i] : i \in DOMAIN bus}
  <2>3. bus \in Seq(S) /\ bus \in Seq(S \cup {m})
    BY DEF IsSeq
  <2> HIDE DEF S
  <2>4. /\ Append(bus, m) \in Seq(S \cup {m}) /\ Len(bus) \in Nat
        /\ DOMAIN Append(bus, m) = 1 .. Len(bus) + 1 /\ DOMAIN bus = 1 .. Len(bus)
        /\ Append(bus, m)[Len(bus) + 1] = m
        /\ \A i \in 1 .. Len(bus) : Append(bus, m)[i] = bus[i]
    BY <2>3
  <2>5. IsSeq(Append(bus, m))
    BY <2>4, SequenceOf
  <2>6. ASSUME NEW i \in 1 .. Len(bus) + 1
        PROVE  IsMessage(Append(bus, m)[i])
    <3>1. i \in 1 .. Len(bus) \/ i = Len(bus) + 1
      BY <2>4
    <3> QED BY <2>2, <2>4, <3>1
  <2> QED BY <2>1, <2>4, <2>5, <2>6
<1>2. ASSUME NEW client \in Clients, Refuse(client) \/ Return(client) \/ GiveUp(client)
      PROVE  QueueInv'
  <2>1. bus' = bus /\ queue' = queue /\ file' = file
    BY <1>2 DEF Refuse, Return, GiveUp, serverVars, fileVars
  <2> QED BY <2>1
<1>3. ASSUME Serve
      PROVE  QueueInv'
  <2>1. /\ bus # << >> /\ bus' = Tail(bus) /\ queue' = HandleMember(queue, Head(bus))[1]
        /\ file' = file
    BY <1>3 DEF Serve, fileVars
  <2> DEFINE S == {bus[i] : i \in DOMAIN bus}
  <2>2. bus \in Seq(S)
    BY DEF IsSeq
  <2> HIDE DEF S
  <2>3. /\ Head(bus) = bus[1] /\ 1 \in DOMAIN bus
        /\ Tail(bus) \in Seq(S)
        /\ \A i \in DOMAIN Tail(bus) : i + 1 \in DOMAIN bus /\ Tail(bus)[i] = bus[i + 1]
    BY <2>1, <2>2
  <2>4. IsMessage(Head(bus)) /\ \A i \in DOMAIN Tail(bus) : IsMessage(Tail(bus)[i])
    BY <2>3
  <2>5. IsSeq(Tail(bus))
    BY <2>3, SequenceOf
  <2>6. IsQueue(queue') /\ Agree(queue')
    BY <2>1, <2>4, HandledAgrees
  <2> QED BY <2>1, <2>4, <2>5, <2>6
<1>4. ASSUME NEW c \in DOMAIN queue.events, NEW t \in Times, Move(c, t)
      PROVE  QueueInv'
  <2>1. queue' = SetTrigger(queue, c, t) /\ bus' = bus /\ file' = file /\ t \in Int
    BY <1>4, RequestTypes DEF Move, fileVars
  <2>2. IsQueue(queue') /\ Agree(queue')
    BY <2>1, SetTriggerAgrees
  <2> QED BY <2>1, <2>2
<1>5. ASSUME Cleanup
      PROVE  QueueInv'
  <2>1. queue' = CleanupDeleted(queue) /\ bus' = bus /\ file' = file
    BY <1>5 DEF Cleanup, fileVars
  <2>2. IsQueue(queue') /\ Agree(queue')
    BY <2>1, CleanupAgrees
  <2> QED BY <2>1, <2>2
<1>6. ASSUME Save
      PROVE  QueueInv'
  <2>1. queue' = queue /\ bus' = bus /\ file' = Saved(queue)
    BY <1>6 DEF Save
  <2>2. Sound(file')
    BY <2>1, SavedSound
  <2> QED BY <2>1, <2>2
<1>7. ASSUME Restart
      PROVE  QueueInv'
  <2>1. queue' = Loaded(file) /\ bus' = << >> /\ file' = file
    BY <1>7 DEF Restart, fileVars
  <2>2. IsQueue(queue') /\ Agree(queue')
    BY <2>1, LoadedAgrees
  <2>3. bus' \in Seq(Nat) /\ Len(bus') = 0
    BY <2>1
  <2>4. IsSeq(bus') /\ \A i : i \notin DOMAIN bus'
    BY <2>3, NothingHeld
  <2> QED BY <2>1, <2>2, <2>4
<1>8. CASE UNCHANGED vars
  <2>1. bus' = bus /\ queue' = queue /\ file' = file
    BY <1>8 DEF vars
  <2> QED BY <2>1
<1> QED BY <1>1, <1>2, <1>3, <1>4, <1>5, <1>6, <1>7, <1>8 DEF Next

LEMMA InvAgrees == QueueInv => TablesAgree
<1> SUFFICES ASSUME QueueInv PROVE TablesAgree
  OBVIOUS
<1> DEFINE c == queue.byCookie
           t == queue.byTrigger
           e == queue.events
<1>1. /\ c \in Seq(Nat) /\ t \in Seq(Nat)
      /\ \A d : d \in DOMAIN e <=> Holds(c, d)
      /\ \A d : d \in DOMAIN e <=> Holds(t, d)
      /\ CookieSorted(c) /\ TriggerSorted(t, e)
      /\ \A d \in DOMAIN e : e[d].trigger \in Int /\ d \in Nat
  BY DEF QueueInv, IsQueue, IsEvent, Agree
<1> HIDE DEF c, t, e
<1>2. DOMAIN e = {c[i] : i \in DOMAIN c} /\ DOMAIN e = {t[i] : i \in DOMAIN t}
  BY <1>1 DEF Holds
<1>3. /\ \A i \in DOMAIN c : c[i] \in Nat
      /\ \A i \in DOMAIN t : t[i] \in Nat /\ e[t[i]].trigger \in Int
  BY <1>1, <1>2
<1>4. \A i, j \in DOMAIN c : i # j => c[i] # c[j]
  <2> SUFFICES ASSUME NEW i \in DOMAIN c, NEW j \in DOMAIN c, i < j
               PROVE  c[i] # c[j]
    BY <1>1
  <2>1. c[i] < c[j]
    BY <1>1 DEF CookieSorted
  <2> QED BY <1>3, <2>1
<1>5. \A i, j \in DOMAIN t : i < j =>
        \/ e[t[i]].trigger > e[t[j]].trigger
        \/ e[t[i]].trigger = e[t[j]].trigger /\ t[i] > t[j]
  BY <1>1 DEF TriggerSorted, TriggerBefore, At
<1>6. \A i, j \in DOMAIN t : i # j => t[i] # t[j]
  <2> SUFFICES ASSUME NEW i \in DOMAIN t, NEW j \in DOMAIN t, i < j
               PROVE  t[i] # t[j]
    BY <1>1
  <2> QED BY <1>3, <1>5
<1>7. ASSUME NEW s \in Seq(Nat), \A i, j \in DOMAIN s : i # j => s[i] # s[j],
             DOMAIN e = {s[i] : i \in DOMAIN s}
      PROVE  Len(s) = Cardinality(DOMAIN e)
  <2> DEFINE n == Len(s)
             D == DOMAIN e
  <2>1. n \in Nat /\ DOMAIN s = 1 .. n
    OBVIOUS
  <2>2. s \in [1 .. n -> D]
    BY <1>7, <2>1
  <2> HIDE DEF n, D
  <2>3. s \in Bijection(1 .. n, D)
    BY <1>7, <2>1, <2>2 DEF Bijection, Injection, Surjection, IsInjective, D
  <2>4. ExistsBijection(1 .. n, D)
    BY <2>3 DEF ExistsBijection
  <2>5. Cardinality(D) = n
    BY <2>1, <2>4, FS_CountingElements
  <2> QED BY <2>5 DEF n, D
<1>8. Len(c) = Cardinality(DOMAIN e) /\ Len(t) = Len(c) /\ DOMAIN c = DOMAIN t
  <2>1. Len(c) = Cardinality(DOMAIN e) /\ Len(t) = Cardinality(DOMAIN e)
    BY <1>1, <1>2, <1>4, <1>6, <1>7
  <2>2. DOMAIN c = 1 .. Len(c) /\ DOMAIN t = 1 .. Len(t)
    BY <1>1
  <2> QED BY <2>1, <2>2
<1>9. \A i, j \in DOMAIN c : i < j => c[i] < c[j]
  BY <1>1 DEF CookieSorted
<1> QED BY <1>2, <1>5, <1>8, <1>9 DEF TablesAgree, c, t, e

(* Every call is one of a client's, and a reply is on its way only to a    *)
(* client that is blocked in the call.                                     *)
CallsInv ==
  /\ IsSeq(calls) /\ Len(calls) \in 0 .. MaxCalls
  /\ \A i \in DOMAIN calls : calls[i].client \in Clients
  /\ waiting \in [Clients -> 0 .. MaxCalls]
  /\ DOMAIN replies \subseteq {waiting[c] : c \in Clients} \ {0}
  /\ \A i \in DOMAIN bus : bus[i].id \in DOMAIN calls

LEMMA MeaningClient ==
  ASSUME NEW client, NEW call \in CallsOf(client)
  PROVE  call.client = client /\ Meaning(call).client = client
<1>1. PICK r \in Requests :
        call = [k \in DOMAIN r \cup {"client"} |-> IF k = "client" THEN client ELSE r[k]]
  BY DEF CallsOf
<1>2. "client" \in DOMAIN call /\ call.client = client
  BY <1>1
<1>3. CASE call.op = "add"
  BY <1>2, <1>3 DEF Meaning
<1>4. CASE call.op = "update"
  BY <1>2, <1>4 DEF Meaning
<1>5. CASE call.op = "query"
  BY <1>2, <1>5 DEF Meaning
<1>6. CASE call.op \notin {"add", "update", "query"}
  <2>1. Meaning(call) = call
    BY <1>6 DEF Meaning
  <2> QED BY <1>2, <2>1
<1> QED BY <1>2, <1>3, <1>4, <1>5, <1>6

LEMMA InitCallsInv == Init => CallsInv
<1> SUFFICES ASSUME Init PROVE CallsInv
  OBVIOUS
<1>1. /\ calls \in Seq(Nat) /\ Len(calls) = 0 /\ bus \in Seq(Nat) /\ Len(bus) = 0
      /\ DOMAIN replies = {} /\ waiting = [c \in Clients |-> 0]
  BY DEF Init
<1>2. IsSeq(calls) /\ (\A i : i \notin DOMAIN calls) /\ \A i : i \notin DOMAIN bus
  BY <1>1, NothingHeld
<1>3. MaxCalls \in Nat
  BY RequestTypes
<1> QED BY <1>1, <1>2, <1>3 DEF CallsInv

LEMMA NextCallsInv == QueueInv /\ CallsInv /\ [Next]_vars => CallsInv'
<1> SUFFICES ASSUME QueueInv, CallsInv, [Next]_vars PROVE CallsInv'
  OBVIOUS
<1> DEFINE Blocked == {waiting[c] : c \in Clients}
<1>0. MaxCalls \in Nat /\ IsSeq(bus) /\ IsSeq(calls) /\ DOMAIN calls = 1 .. Len(calls)
  BY RequestTypes, SequenceOf DEF QueueInv, CallsInv, IsSeq
<1>1. ASSUME NEW client \in Clients, NEW call \in CallsOf(client), Call(call)
      PROVE  CallsInv'
  <2> DEFINE n == Len(calls) + 1
             m == [id |-> Len(calls'), member |-> call.op, body |-> Body(call)]
  <2>1. /\ waiting[client] = 0 /\ Len(calls) < MaxCalls
        /\ calls' = Append(calls, Meaning(call)) /\ bus' = Append(bus, m)
        /\ waiting' = [waiting EXCEPT ![client] = Len(calls')] /\ replies' = replies
    BY <1>1, MeaningClient DEF Call
  <2>2. /\ IsSeq(calls') /\ Len(calls') = n /\ Len(calls) \in Nat
        /\ DOMAIN calls' = 1 .. n
        /\ calls'[n].client = client
        /\ \A i \in 1 .. Len(calls) : calls'[i] = calls[i]
    BY <1>0, <2>1, Appended, MeaningClient
  <2>3. m.id = n
    BY <2>2
  <2> HIDE DEF m
  <2>4. /\ Len(bus) \in Nat /\ DOMAIN bus = 1 .. Len(bus) /\ DOMAIN bus' = 1 .. Len(bus) + 1
        /\ bus'[Len(bus) + 1] = m /\ \A i \in 1 .. Len(bus) : bus'[i] = bus[i]
    BY <1>0, <2>1, Appended
  <2>5. n \in 0 .. MaxCalls /\ n \in 1 .. n /\ \A i \in 1 .. n : i = n \/ i \in 1 .. Len(calls)
    BY <1>0, <2>1, <2>2
  <2>6. \A i \in DOMAIN calls' : calls'[i].client \in Clients
    BY <1>0, <2>2, <2>5 DEF CallsInv
  <2>7. waiting' = [waiting EXCEPT ![client] = n]
    BY <2>1, <2>2
  <2> HIDE DEF n
  <2>8. waiting' \in [Clients -> 0 .. MaxCalls]
    BY <2>5, <2>7 DEF CallsInv
  <2>9. DOMAIN replies' \subseteq {waiting'[c] : c \in Clients} \ {0}
    <3> SUFFICES ASSUME NEW k \in DOMAIN replies
                 PROVE  \E c \in Clients : k = waiting'[c] /\ k # 0
      BY <2>1
    <3>1. PICK c \in Clients : k = waiting[c] /\ k # 0
      BY DEF CallsInv
    <3>2. c # client
      BY <2>1, <3>1
    <3>3. waiting'[c] = waiting[c]
      BY <2>7, <3>2 DEF CallsInv
    <3> QED BY <3>1, <3>3
  <2>10. ASSUME NEW i \in DOMAIN bus' PROVE bus'[i].id \in DOMAIN calls'
    <3>1. i = Len(bus) + 1 \/ i \in 1 .. Len(bus)
      BY <2>4
    <3>2. \A k \in DOMAIN calls : k \in DOMAIN calls'
      BY <1>0, <2>2 DEF n
    <3>3. n \in DOMAIN calls'
      BY <2>2, <2>5
    <3> QED BY <2>3, <2>4, <3>1, <3>2, <3>3 DEF CallsInv
  <2> QED BY <2>2, <2>5, <2>6, <2>8, <2>9, <2>10 DEF CallsInv
<1>2. ASSUME NEW client \in Clients, Refuse(client)
      PROVE  CallsInv'
  BY <1>2 DEF Refuse, CallsInv
<1>3. ASSUME NEW client \in Clients, Return(client) \/ GiveUp(client)
      PROVE  CallsInv'
  <2>1. /\ DOMAIN replies' = DOMAIN replies \ {waiting[client]}
        /\ waiting' = [waiting EXCEPT ![client] = 0]
        /\ bus' = bus /\ calls' = calls
    BY <1>3 DEF Return, GiveUp
  <2>2. waiting' \in [Clients -> 0 .. MaxCalls]
    BY <1>0, <2>1 DEF CallsInv
  <2>3. DOMAIN replies' \subseteq {waiting'[c] : c \in Clients} \ {0}
    <3> SUFFICES ASSUME NEW k \in DOMAIN replies'
                 PROVE  \E c \in Clients : k = waiting'[c] /\ k # 0
      OBVIOUS
    <3>1. k \in DOMAIN replies /\ k # waiting[client]
      BY <2>1
    <3>2. PICK c \in Clients : k = waiting[c] /\ k # 0
      BY <3>1 DEF CallsInv
    <3>3. waiting'[c] = waiting[c]
      BY <2>1, <3>1, <3>2 DEF CallsInv
    <3> QED BY <3>2, <3>3
  <2> QED BY <2>1, <2>2, <2>3 DEF CallsInv
<1>4. ASSUME Serve
      PROVE  CallsInv'
  <2> DEFINE n == Head(bus).id
  <2>1. /\ bus # << >> /\ bus' = Tail(bus) /\ calls' = calls /\ waiting' = waiting
        /\ \/ /\ waiting[calls[n].client] = n
              /\ DOMAIN replies' = DOMAIN replies \cup {n}
           \/ replies' = replies
    BY <1>4 DEF Serve, clientVars
  <2>2. Head(bus) = bus[1] /\ 1 \in DOMAIN bus
        /\ \A i \in DOMAIN Tail(bus) : i + 1 \in DOMAIN bus /\ Tail(bus)[i] = bus[i + 1]
    BY <1>0, <2>1, TailOf
  <2>3. n \in DOMAIN calls /\ n # 0 /\ calls[n].client \in Clients
    BY <1>0, <2>2 DEF CallsInv
  <2>4. DOMAIN replies' \subseteq {waiting'[c] : c \in Clients} \ {0}
    <3> HIDE DEF n
    <3> QED BY <2>1, <2>3 DEF CallsInv
  <2>5. \A i \in DOMAIN bus' : bus'[i].id \in DOMAIN calls'
    BY <2>1, <2>2 DEF CallsInv
  <2> QED BY <2>1, <2>4, <2>5 DEF CallsInv
<1>5. ASSUME \/ \E c \in DOMAIN queue.events, t \in Times : Move(c, t)
             \/ Cleanup \/ Save
      PROVE  CallsInv'
  <2>1. calls' = calls /\ bus' = bus /\ waiting' = waiting /\ replies' = replies
    BY <1>5 DEF Move, Cleanup, Save, clientVars
  <2> QED BY <2>1 DEF CallsInv
<1>6. ASSUME Restart
      PROVE  CallsInv'
  <2>1. calls' = calls /\ waiting' = waiting /\ replies' = replies
        /\ bus' \in Seq(Nat) /\ Len(bus') = 0
    BY <1>6 DEF Restart, clientVars
  <2>2. \A i : i \notin DOMAIN bus'
    BY <2>1, NothingHeld
  <2> QED BY <2>1, <2>2 DEF CallsInv
<1>7. CASE UNCHANGED vars
  BY <1>7 DEF vars, CallsInv
<1> QED BY <1>1, <1>2, <1>3, <1>4, <1>5, <1>6, <1>7 DEF Next

(* Wherever actions are kept, or are on their way to, they are whole.      *)
ActsInv ==
  /\ \A c \in DOMAIN queue.events : WholeActs(queue.events[c].acts)
  /\ \A i \in DOMAIN file.sections : WholeActs(LoadedEvent(file.sections[i]).acts)
  /\ \A i \in DOMAIN bus : \A acts \in ActsIn(bus[i]) : WholeActs(acts)

LEMMA InitActsInv == Init => ActsInv
<1> SUFFICES ASSUME Init PROVE ActsInv
  OBVIOUS
<1> DEFINE es == Starts
           q == Added(EmptyQueue, es)
<1>1. IsSeq(Earlier) /\ \A i \in DOMAIN Earlier : IsShape(Earlier[i])
  BY RequestTypes
<1>2. ASSUME NEW i \in DOMAIN Earlier
      PROVE  GivenActs(Start(i).acts)
  <2> DEFINE b == Built(Earlier[i])
             s == [b EXCEPT !.trigger = Earlier[i].event.time]
  <2>1. Earlier[i] \in Shapes /\ (EarlierSane => IsSane(b))
    BY DEF Shapes, EarlierSane
  <2>2. GivenActs(b.acts) /\ IsBuilt(b)
    BY <1>1, <2>1, SaneGiven, BuiltEvent
  <2>3. Start(i) = s
    BY DEF b, Start
  <2> HIDE DEF b
  <2>4. s.acts = b.acts
    BY <2>2 DEF IsBuilt, NewEvent
  <2> HIDE DEF s
  <2> QED BY <2>2, <2>3, <2>4
<1>3. Addable(es) /\ Len(es) \in Nat /\ DOMAIN es = 1 .. Len(es)
  BY StartsAddable
<1>4. \A i \in DOMAIN es : GivenActs(es[i].acts)
  BY <1>2 DEF Starts
<1>5. file = Saved(q) /\ queue = Loaded(file)
  BY StartsAddable
<1> HIDE DEF es
<1>6. EmptyQueue.events = << >> /\ IsQueue(EmptyQueue) /\ Agree(EmptyQueue)
  BY EmptyAgrees
<1>7. /\ IsQueue(q) /\ Agree(q)
      /\ \A c \in DOMAIN q.events : \E i \in 1 .. Len(es) : q.events[c].acts = es[i].acts
  BY <1>3, <1>6, AddedAgrees
<1> HIDE DEF q
<1>8. \A c \in DOMAIN q.events : GivenActs(q.events[c].acts)
  BY <1>3, <1>4, <1>7
<1>9. /\ Sound(file)
      /\ \A i \in DOMAIN file.sections :
           \E c \in DOMAIN q.events : file.sections[i] = Section(q.events[c])
  BY <1>5, <1>7, SavedSound
<1>10. \A i \in DOMAIN file.sections : WholeActs(LoadedEvent(file.sections[i]).acts)
  <2> SUFFICES ASSUME NEW i \in DOMAIN file.sections
               PROVE  WholeActs(LoadedEvent(file.sections[i]).acts)
    OBVIOUS
  <2>1. PICK c \in DOMAIN q.events : file.sections[i] = Section(q.events[c])
    BY <1>9
  <2>2. GivenActs(q.events[c].acts)
    BY <1>8
  <2> QED BY <2>1, <2>2, SectionActs
<1>11. \A c \in DOMAIN queue.events : \E i \in DOMAIN file.sections :
         queue.events[c].acts = LoadedEvent(file.sections[i]).acts
  BY <1>5, <1>9, LoadedAgrees
<1>12. \A i : i \notin DOMAIN bus
  <2>1. bus \in Seq(Nat) /\ Len(bus) = 0
    BY DEF Init
  <2> QED BY <2>1, NothingHeld
<1> QED BY <1>10, <1>11, <1>12 DEF ActsInv

LEMMA NextActsInv == QueueInv /\ ActsInv /\ [Next]_vars => ActsInv'
<1> SUFFICES ASSUME QueueInv, ActsInv, [Next]_vars PROVE ActsInv'
  OBVIOUS
<1>0. /\ IsQueue(queue) /\ Agree(queue) /\ Sound(file) /\ IsSeq(bus)
      /\ \A i \in DOMAIN bus : IsMessage(bus[i])
  BY DEF QueueInv
<1>1. ASSUME NEW client \in Clients, NEW call \in CallsOf(client), Call(call)
      PROVE  ActsInv'
  <2> DEFINE m == [id |-> Len(calls'), member |-> call.op, body |-> Body(call)]
  <2>1. /\ bus' = Append(bus, m) /\ queue' = queue /\ file' = file /\ Takes(call)
    BY <1>1 DEF Call, serverVars, fileVars
  <2>2. \A acts \in ActsIn(m) : WholeActs(acts)
    BY <2>1, CalledWhole
  <2> HIDE DEF m
  <2>3. /\ DOMAIN bus = 1 .. Len(bus) /\ DOMAIN bus' = 1 .. Len(bus) + 1
        /\ bus'[Len(bus) + 1] = m /\ \A i \in 1 .. Len(bus) : bus'[i] = bus[i]
        /\ Len(bus) \in Nat
    BY <1>0, <2>1, Appended
  <2>4. \A i \in DOMAIN bus' : \A acts \in ActsIn(bus'[i]) : WholeActs(acts)
    <3> SUFFICES ASSUME NEW i \in DOMAIN bus', NEW acts \in ActsIn(bus'[i])
                 PROVE  WholeActs(acts)
      OBVIOUS
    <3>1. i = Len(bus) + 1 \/ i \in 1 .. Len(bus)
      BY <2>3
    <3> QED BY <2>2, <2>3, <3>1 DEF ActsInv
  <2> QED BY <2>1, <2>4 DEF ActsInv
<1>2. ASSUME NEW client \in Clients, Refuse(client) \/ Return(client) \/ GiveUp(client)
      PROVE  ActsInv'
  <2>1. bus' = bus /\ queue' = queue /\ file' = file
    BY <1>2 DEF Refuse, Return, GiveUp, serverVars, fileVars
  <2> QED BY <2>1 DEF ActsInv
<1>3. ASSUME Serve
      PROVE  ActsInv'
  <2>1. /\ bus # << >> /\ bus' = Tail(bus) /\ queue' = HandleMember(queue, Head(bus))[1]
        /\ file' = file
    BY <1>3 DEF Serve, fileVars
  <2>2. Head(bus) = bus[1] /\ 1 \in DOMAIN bus
        /\ \A i \in DOMAIN Tail(bus) : i + 1 \in DOMAIN bus /\ Tail(bus)[i] = bus[i + 1]
    BY <1>0, <2>1, TailOf
  <2>3. ActsFrom(queue', queue, ActsIn(Head(bus)))
    BY <1>0, <2>1, <2>2, HandledAgrees
  <2>4. \A acts \in ActsIn(Head(bus)) : WholeActs(acts)
    BY <2>2 DEF ActsInv
  <2>5. \A c \in DOMAIN queue'.events : WholeActs(queue'.events[c].acts)
    BY <2>3, <2>4 DEF ActsFrom, ActsInv
  <2>6. \A i \in DOMAIN bus' : \A acts \in ActsIn(bus'[i]) : WholeActs(acts)
    BY <2>1, <2>2 DEF ActsInv
  <2> QED BY <2>1, <2>5, <2>6 DEF ActsInv
<1>4. ASSUME NEW c \in DOMAIN queue.events, NEW t \in Times, Move(c, t)
      PROVE  ActsInv'
  <2>1. queue' = SetTrigger(queue, c, t) /\ bus' = bus /\ file' = file /\ t \in Int
    BY <1>4, RequestTypes DEF Move, fileVars
  <2>2. SameActs(queue', queue)
    BY <1>0, <2>1, SetTriggerAgrees
  <2> QED BY <2>1, <2>2 DEF ActsInv, SameActs
<1>5. ASSUME Cleanup
      PROVE  ActsInv'
  <2>1. queue' = CleanupDeleted(queue) /\ bus' = bus /\ file' = file
    BY <1>5 DEF Cleanup, fileVars
  <2>2. SameActs(queue', queue)
    BY <1>0, <2>1, CleanupAgrees
  <2> QED BY <2>1, <2>2 DEF ActsInv, SameActs
<1>6. ASSUME Save
      PROVE  ActsInv'
  <2>1. queue' = queue /\ bus' = bus /\ file' = Saved(queue)
    BY <1>6 DEF Save
  <2>2. ASSUME NEW i \in DOMAIN file'.sections
        PROVE  WholeActs(LoadedEvent(file'.sections[i]).acts)
    <3>1. PICK c \in DOMAIN queue.events : file'.sections[i] = Section(queue.events[c])
      BY <1>0, <2>1, SavedSound
    <3>2. GivenActs(queue.events[c].acts)
      BY WholeGiven DEF ActsInv
    <3> QED BY <3>1, <3>2, SectionActs
  <2> QED BY <2>1, <2>2 DEF ActsInv
<1>7. ASSUME Restart
      PROVE  ActsInv'
  <2>1. queue' = Loaded(file) /\ bus' = << >> /\ file' = file
    BY <1>7 DEF Restart, fileVars
  <2>2. \A c \in DOMAIN queue'.events : \E i \in DOMAIN file.sections :
          queue'.events[c].acts = LoadedEvent(file.sections[i]).acts
    BY <1>0, <2>1, LoadedAgrees
  <2>3. bus' \in Seq(Nat) /\ Len(bus') = 0
    BY <2>1
  <2>4. \A i : i \notin DOMAIN bus'
    BY <2>3, NothingHeld
  <2> QED BY <2>1, <2>2, <2>4 DEF ActsInv
<1>8. CASE UNCHANGED vars
  <2>1. bus' = bus /\ queue' = queue /\ file' = file
    BY <1>8 DEF vars
  <2> QED BY <2>1 DEF ActsInv
<1> QED BY <1>1, <1>2, <1>3, <1>4, <1>5, <1>6, <1>7, <1>8 DEF Next

AllInv == QueueInv /\ CallsInv /\ ActsInv

LEMMA SpecInv == Spec => []AllInv
<1>1. Init => AllInv
  BY InitQueueInv, InitCallsInv, InitActsInv DEF AllInv
<1>2. AllInv /\ [Next]_vars => AllInv'
  BY NextQueueInv, NextCallsInv, NextActsInv DEF AllInv
<1> QED BY <1>1, <1>2, PTL DEF Spec

(* The tables of the queue always hold the same events in their two        *)
(* orders, whatever is added, updated, deleted, moved, dropped, saved and  *)
(* loaded: the bisections of queue.c can be relied on.                     *)
THEOREM TablesStayInStep == Spec => []TablesAgree
<1>1. AllInv => TablesAgree
  BY InvAgrees DEF AllInv
<1> QED BY <1>1, SpecInv, PTL

(* Every value keeps its type: no event loses its cookie or the label of   *)
(* an action, and a reply is on its way only to a client that waits for    *)
(* it.                                                                     *)
THEOREM TypesKept == Spec => []TypeOK
<1>1. AllInv => TypeOK
  <2> SUFFICES ASSUME AllInv PROVE TypeOK
    OBVIOUS
  <2>1. ASSUME NEW c \in DOMAIN queue.events
        PROVE  /\ queue.events[c].cookie = c /\ c \in 1 .. queue.cookie
               /\ queue.events[c].state \in {"NEW", "DELETED"}
               /\ \A i \in DOMAIN queue.events[c].acts : queue.events[c].acts[i].label # Null
    <3>1. /\ queue.events[c].cookie = c /\ c \in 1 .. queue.cookie
          /\ queue.events[c].state \in {"NEW", "DELETED"}
      BY DEF AllInv, QueueInv, IsQueue, IsEvent
    <3>2. \A i \in DOMAIN queue.events[c].acts : queue.events[c].acts[i].label # Null
      BY NullIsNoText DEF AllInv, ActsInv, WholeActs, Whole
    <3> QED BY <3>1, <3>2
  <2>2. queue.snooze \in 1 .. MAX_SNOOZE
    BY DEF AllInv, QueueInv, IsQueue
  <2>3. /\ waiting \in [Clients -> 0 .. MaxCalls]
        /\ DOMAIN replies \subseteq {waiting[c] : c \in Clients}
        /\ \A i \in DOMAIN bus : bus[i].id \in DOMAIN calls
    BY DEF AllInv, CallsInv
  <2> QED BY <2>1, <2>2, <2>3 DEF TypeOK
<1> QED BY <1>1, SpecInv, PTL

(* If nothing that an application sends is blank but not empty, no action  *)
(* ever loses the text it needs: what the library has checked stays true   *)
(* through the message, the queue and the file.                            *)
THEOREM ActionsStayComplete ==
  ASSUME TextsSeen, EarlierSane
  PROVE  Spec => []ActionsComplete
<1>1. AllInv => ActionsComplete
  <2> SUFFICES ASSUME AllInv,
                      NEW c \in DOMAIN queue.events, NEW i \in DOMAIN queue.events[c].acts
               PROVE  LET a == queue.events[c].acts[i]
                      IN /\ "RESPONDED" \in a.when => a.label # << >>
                         /\ "DBUS" \in a.type => a.target # << >>
                         /\ "EXEC" \in a.type => a.command # << >>
    BY DEF ActionsComplete
  <2>1. Useful(queue.events[c].acts[i])
    BY DEF AllInv, ActsInv, WholeActs, Whole
  <2> QED BY <2>1, EmptyText DEF Useful
<1> QED BY <1>1, SpecInv, PTL

LEMMA ArgsRead ==
  ASSUME NEW a, NEW args, HasArgs(a, args)
  PROVE  Unpack[Text(a.args)] = args
<1>1. IsArgs(args)
  BY DEF HasArgs
<1>2. Text(a.args) = Pack(args)
  <2>1. CASE a.args = Pack(args)
    BY <1>1, <2>1, PackedStays
  <2>2. CASE a.args = Null /\ args = << >>
    BY <2>2, NoArgs DEF Text
  <2> QED BY <2>1, <2>2 DEF HasArgs
<1> QED BY <1>1, <1>2, PackedIsUnpacked

(* The calls that the actions of an alarm make have the arguments that the *)
(* application gave, each those that are for it: packed by the library,    *)
(* sent, kept, written to the file as a text, read again as often as the   *)
(* daemon is started, and unpacked when the action is run.                 *)
THEOREM ArgsStayTheirs == Spec => []ArgsDelivered
<1>1. AllInv => ArgsDelivered
  <2> SUFFICES ASSUME AllInv, NEW c \in DOMAIN queue.events
               PROVE  [i \in DOMAIN queue.events[c].acts |->
                         Unpack[Text(queue.events[c].acts[i].args)]] \in AllMeant
    BY DEF ArgsDelivered
  <2> DEFINE acts == queue.events[c].acts
  <2>1. Carries(acts)
    BY DEF AllInv, ActsInv, WholeActs
  <2> HIDE DEF acts
  <2>2. PICK given : CarriesThese(acts, given)
    BY <2>1 DEF Carries
  <2>3. \A i \in DOMAIN acts : Unpack[Text(acts[i].args)] = given[i]
    BY <2>2, ArgsRead DEF CarriesThese
  <2>4. [i \in DOMAIN acts |-> Unpack[Text(acts[i].args)]] = given
    BY <2>2, <2>3 DEF CarriesThese
  <2> QED BY <2>2, <2>4 DEF CarriesThese, acts
<1> QED BY <1>1, SpecInv, PTL
=============================================================================
