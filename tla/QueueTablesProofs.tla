------------------------- MODULE QueueTablesProofs -------------------------
(***************************************************************************)
(* The searches in the tables of the queue find what they look for, and    *)
(* what is put in, moved or dropped leaves the tables sorted, for tables   *)
(* of any length.  Each bisection is a recursive function; that it has the *)
(* value it should have is shown by looking at the shortest interval for   *)
(* which it has not.                                                       *)
(***************************************************************************)
EXTENDS QueueTables, WellFoundedInduction, SequenceTheorems, TLAPS

-----------------------------------------------------------------------------
(* A set of natural numbers has a least one.                               *)
LEMMA LeastNumber ==
  ASSUME NEW T \in SUBSET Nat, T # {}
  PROVE  \E x \in T : \A y \in T : x <= y
<1>1. PICK x \in T : \A y \in T : <<y, x>> \notin OpToRel(<, Nat)
  BY WFMin, NatLessThanWellFounded
<1>2. \A y \in T : ~(y < x)
  BY <1>1 DEF OpToRel
<1> QED BY <1>2

(* Intervals of slots, and their two parts.                                *)
Width(w) == IF w[1] >= w[2] THEN 0 ELSE w[2] - w[1]

Mid(w) == (w[1] + w[2]) \div 2

LEMMA Halves ==
  ASSUME NEW n \in Nat, NEW w \in (0 .. n) \X (0 .. n), w[1] < w[2]
  PROVE  /\ w[1] \in Nat /\ w[2] \in Nat /\ Mid(w) \in Nat
         /\ Mid(w) \in 0 .. n - 1 /\ Mid(w) + 1 \in 1 .. n
         /\ w[1] <= Mid(w) /\ Mid(w) < w[2]
         /\ <<Mid(w) + 1, w[2]>> \in (0 .. n) \X (0 .. n)
         /\ <<w[1], Mid(w)>> \in (0 .. n) \X (0 .. n)
         /\ Width(<<Mid(w) + 1, w[2]>>) < Width(w)
         /\ Width(<<w[1], Mid(w)>>) < Width(w)
<1>1. PICK l \in 0 .. n, h \in 0 .. n : w = <<l, h>> /\ l < h
  OBVIOUS
<1>2. Mid(w) = (l + h) \div 2
  BY <1>1 DEF Mid
<1>3. Mid(w) \in Int /\ l <= Mid(w) /\ Mid(w) < h
  BY <1>2, <1>1
<1>4. w[1] = l /\ w[2] = h /\ Width(w) = h - l
  BY <1>1 DEF Width
<1>5. /\ Width(<<Mid(w) + 1, h>>) = IF Mid(w) + 1 >= h THEN 0 ELSE h - (Mid(w) + 1)
      /\ Width(<<l, Mid(w)>>) = IF l >= Mid(w) THEN 0 ELSE Mid(w) - l
  BY DEF Width
<1> QED BY <1>1, <1>3, <1>4, <1>5

(* A slot as near to s as the interval allows, and p if it is in it.       *)
Nearest(w, s) == IF w[1] >= w[2] \/ s < w[1] THEN w[1] ELSE IF s > w[2] THEN w[2] ELSE s

Within(w, p) == IF w[1] < p /\ p <= w[2] THEN p ELSE 0

LEMMA HalvesNearest ==
  ASSUME NEW n \in Nat, NEW w \in (0 .. n) \X (0 .. n), w[1] < w[2], NEW s \in 0 .. n
  PROVE  /\ Mid(w) < s => Nearest(<<Mid(w) + 1, w[2]>>, s) = Nearest(w, s)
         /\ s <= Mid(w) => Nearest(<<w[1], Mid(w)>>, s) = Nearest(w, s)
<1>1. /\ w[1] \in Nat /\ w[2] \in Nat /\ Mid(w) \in Nat
      /\ w[1] <= Mid(w) /\ Mid(w) < w[2]
  BY Halves
<1>2. /\ Nearest(<<Mid(w) + 1, w[2]>>, s) =
           IF Mid(w) + 1 >= w[2] \/ s < Mid(w) + 1 THEN Mid(w) + 1
           ELSE IF s > w[2] THEN w[2] ELSE s
      /\ Nearest(<<w[1], Mid(w)>>, s) =
           IF w[1] >= Mid(w) \/ s < w[1] THEN w[1]
           ELSE IF s > Mid(w) THEN Mid(w) ELSE s
  BY DEF Nearest
<1> QED BY <1>1, <1>2 DEF Nearest

LEMMA HalvesWithin ==
  ASSUME NEW n \in Nat, NEW w \in (0 .. n) \X (0 .. n), w[1] < w[2], NEW p \in 0 .. n
  PROVE  /\ p = 0 \/ Mid(w) + 1 < p => Within(<<Mid(w) + 1, w[2]>>, p) = Within(w, p)
         /\ p = 0 \/ p < Mid(w) + 1 => Within(<<w[1], Mid(w)>>, p) = Within(w, p)
         /\ p = Mid(w) + 1 => Within(w, p) = p
<1>1. /\ w[1] \in Nat /\ w[2] \in Nat /\ Mid(w) \in Nat
      /\ w[1] <= Mid(w) /\ Mid(w) < w[2]
  BY Halves
<1>2. /\ Within(<<Mid(w) + 1, w[2]>>, p) = IF Mid(w) + 1 < p /\ p <= w[2] THEN p ELSE 0
      /\ Within(<<w[1], Mid(w)>>, p) = IF w[1] < p /\ p <= Mid(w) THEN p ELSE 0
  BY DEF Within
<1> QED BY <1>1, <1>2 DEF Within

(* The bisection finds the border between what is before and what is not.  *)
LEMMA Bisection ==
  ASSUME NEW n \in Nat, NEW before,
         \A i, j \in 0 .. n - 1 : i < j /\ j \in before => i \in before
  PROVE  /\ FirstSlot(n, before) \in 0 .. n
         /\ \A i \in 0 .. n - 1 : i \in before <=> i < FirstSlot(n, before)
<1> DEFINE Area == (0 .. n) \X (0 .. n)
           Step(f) == [w \in Area |-> IF w[1] >= w[2] THEN w[1]
                                      ELSE IF Mid(w) \in before THEN f[<<Mid(w) + 1, w[2]>>]
                                                                ELSE f[<<w[1], Mid(w)>>]]
           slot == CHOOSE f : f = Step(f)
<1>1. PICK s \in 0 .. n : \A i \in 0 .. n - 1 : i \in before <=> i < s
  <2> DEFINE T == {i \in 0 .. n : i = n \/ i \notin before}
  <2>1. T \in SUBSET Nat /\ n \in T
    OBVIOUS
  <2>2. PICK s \in T : \A y \in T : s <= y
    BY <2>1, LeastNumber
  <2>3. ASSUME NEW i \in 0 .. n - 1, i < s PROVE i \in before
    BY <2>2, <2>3
  <2>4. ASSUME NEW i \in 0 .. n - 1, s <= i, i \in before PROVE FALSE
    BY <2>2, <2>4
  <2>5. s \in 0 .. n /\ \A i \in 0 .. n - 1 : i \in before <=> i < s
    BY <2>2, <2>3, <2>4
  <2> QED BY <2>5
<1> DEFINE near == [w \in Area |-> Nearest(w, s)]
<1>2. ASSUME NEW w \in Area, w[1] < w[2]
      PROVE  /\ Mid(w) \in 0 .. n - 1
             /\ <<Mid(w) + 1, w[2]>> \in Area /\ <<w[1], Mid(w)>> \in Area
  BY <1>2, Halves
<1>3. near = Step(near)
  <2>1. ASSUME NEW w \in Area
        PROVE  near[w] = Step(near)[w]
    <3>1. CASE w[1] >= w[2]
      BY <3>1 DEF Nearest
    <3>2. CASE w[1] < w[2] /\ Mid(w) \in before
      <4>1. Mid(w) < s
        BY <3>2, <1>2, <1>1
      <4>2. Nearest(<<Mid(w) + 1, w[2]>>, s) = Nearest(w, s)
        BY <3>2, <4>1, HalvesNearest
      <4>3. near[<<Mid(w) + 1, w[2]>>] = Nearest(<<Mid(w) + 1, w[2]>>, s)
        BY <3>2, <1>2
      <4> QED BY <3>2, <4>2, <4>3
    <3>3. CASE w[1] < w[2] /\ Mid(w) \notin before
      <4>1. s <= Mid(w)
        <5>1. Mid(w) \in 0 .. n - 1
          BY <3>3, <1>2
        <5>2. ~(Mid(w) < s)
          BY <3>3, <5>1, <1>1
        <5> QED BY <5>1, <5>2
      <4>2. Nearest(<<w[1], Mid(w)>>, s) = Nearest(w, s)
        BY <3>3, <4>1, HalvesNearest
      <4>3. near[<<w[1], Mid(w)>>] = Nearest(<<w[1], Mid(w)>>, s)
        BY <3>3, <1>2
      <4> QED BY <3>3, <4>2, <4>3
    <3> QED BY <3>1, <3>2, <3>3
  <2> QED BY <2>1
<1>4. slot = Step(slot)
  <2> HIDE DEF near, Step
  <2> QED BY <1>3, Zenon
<1>5. \A w \in Area : slot[w] = near[w]
  <2> DEFINE T == {k \in Nat : \E w \in Area : k = Width(w) /\ slot[w] # near[w]}
  <2>1. \A w \in Area : Width(w) \in Nat
    BY DEF Width
  <2> SUFFICES ASSUME T # {} PROVE FALSE
    BY <2>1
  <2>2. PICK k \in T : \A y \in T : k <= y
    BY LeastNumber
  <2>3. PICK w \in Area : k = Width(w) /\ slot[w] # near[w]
    BY <2>2
  <2> HIDE DEF slot, near
  <2>4. ASSUME NEW v \in Area, Width(v) < k PROVE slot[v] = near[v]
    <3>1. Width(v) \in Nat /\ k \in Nat
      BY <2>1, <2>2
    <3>2. Width(v) \notin T
      BY <2>4, <2>2, <3>1
    <3> QED BY <3>1, <3>2
  <2>5. slot[w] = Step(slot)[w] /\ near[w] = Step(near)[w]
    BY <1>3, <1>4
  <2>6. w[1] < w[2]
    BY <2>3, <2>5
  <2>7. /\ Width(<<Mid(w) + 1, w[2]>>) < k
        /\ Width(<<w[1], Mid(w)>>) < k
    BY <2>3, <2>6, Halves
  <2> QED BY <2>3, <2>4, <2>5, <2>6, <2>7, <1>2
<1>6. FirstSlot(n, before) = slot[<<0, n>>]
  BY DEF FirstSlot, Mid
<1>7. near[<<0, n>>] = s
  BY DEF Nearest
<1>8. slot[<<0, n>>] = s
  BY <1>5, <1>7
<1> HIDE DEF slot
<1> QED BY <1>1, <1>6, <1>8

-----------------------------------------------------------------------------
(* The table of cookies.                                                   *)

CookieSorted(tab) == \A i, j \in DOMAIN tab : i < j => tab[i] < tab[j]

LEMMA CookieSlotFound ==
  ASSUME NEW tab \in Seq(Nat), CookieSorted(tab), NEW cookie \in Nat
  PROVE  /\ CookieSlot(tab, cookie) \in 0 .. Len(tab)
         /\ \A i \in 1 .. Len(tab) : tab[i] < cookie <=> i <= CookieSlot(tab, cookie)
<1> DEFINE n == Len(tab)
           before == {i \in 0 .. n - 1 : tab[i + 1] < cookie}
<1>1. ASSUME NEW i \in 0 .. n - 1, NEW j \in 0 .. n - 1, i < j, j \in before
      PROVE  i \in before
  <2>1. i + 1 \in DOMAIN tab /\ j + 1 \in DOMAIN tab /\ i + 1 < j + 1
    BY <1>1
  <2>2. tab[i + 1] < tab[j + 1] /\ tab[i + 1] \in Nat /\ tab[j + 1] \in Nat
    BY <2>1 DEF CookieSorted
  <2> QED BY <1>1, <2>2
<1>2. n \in Nat
  OBVIOUS
<1>3. /\ FirstSlot(n, before) \in 0 .. n
      /\ \A i \in 0 .. n - 1 : i \in before <=> i < FirstSlot(n, before)
  <2> HIDE DEF n, before
  <2> QED BY <1>1, <1>2, Bisection
<1>4. CookieSlot(tab, cookie) = FirstSlot(n, before)
  BY DEF CookieSlot
<1>5. ASSUME NEW i \in 1 .. n
      PROVE  tab[i] < cookie <=> i <= FirstSlot(n, before)
  <2>1. i - 1 \in 0 .. n - 1 /\ (i - 1) + 1 = i
    OBVIOUS
  <2>2. i - 1 \in before <=> tab[i] < cookie
    BY <2>1
  <2>3. i - 1 \in before <=> i - 1 < FirstSlot(n, before)
    BY <2>1, <1>3
  <2> HIDE DEF before
  <2> QED BY <2>1, <2>2, <2>3, <1>3
<1> HIDE DEF before
<1> QED BY <1>3, <1>4, <1>5

(* queue_get_event finds an event if and only if it is in the table.       *)
THEOREM EventFound ==
  ASSUME NEW tab \in Seq(Nat), CookieSorted(tab), NEW cookie \in Nat
  PROVE  HasEvent(tab, cookie) <=> \E i \in DOMAIN tab : tab[i] = cookie
<1> DEFINE n == Len(tab)
           Area == (0 .. n) \X (0 .. n)
           Step(f) == [w \in Area |->
                         IF w[1] >= w[2] THEN 0
                         ELSE IF tab[Mid(w) + 1] < cookie THEN f[<<Mid(w) + 1, w[2]>>]
                         ELSE IF tab[Mid(w) + 1] > cookie THEN f[<<w[1], Mid(w)>>]
                         ELSE Mid(w) + 1]
           found == CHOOSE f : f = Step(f)
<1>1. n \in Nat /\ DOMAIN tab = 1 .. n /\ \A i \in 1 .. n : tab[i] \in Nat
  OBVIOUS
<1>2. PICK p \in 0 .. n : /\ p # 0 <=> \E i \in DOMAIN tab : tab[i] = cookie
                          /\ \A i \in 1 .. n :
                               /\ tab[i] < cookie => p = 0 \/ i < p
                               /\ tab[i] > cookie => p = 0 \/ p < i
                               /\ tab[i] = cookie => p = i
  <2>1. CASE \E i \in 1 .. n : tab[i] = cookie
    <3>1. PICK p \in 1 .. n : tab[p] = cookie
      BY <2>1
    <3>2. \A i \in 1 .. n : (i < p => tab[i] < tab[p]) /\ (p < i => tab[p] < tab[i])
      BY <1>1 DEF CookieSorted
    <3>3. \A i \in 1 .. n : /\ tab[i] < cookie => i < p
                            /\ tab[i] > cookie => p < i
                            /\ tab[i] = cookie => p = i
      BY <1>1, <3>1, <3>2
    <3>4. /\ p \in 0 .. n /\ p # 0 /\ \E i \in DOMAIN tab : tab[i] = cookie
          /\ \A i \in 1 .. n : /\ tab[i] < cookie => p = 0 \/ i < p
                               /\ tab[i] > cookie => p = 0 \/ p < i
                               /\ tab[i] = cookie => p = i
      BY <1>1, <3>1, <3>3
    <3> HIDE DEF n
    <3> QED BY <3>4
  <2>2. CASE ~\E i \in 1 .. n : tab[i] = cookie
    BY <1>1, <2>2
  <2> QED BY <2>1, <2>2
<1>3. ASSUME NEW w \in Area, w[1] < w[2]
      PROVE  /\ Mid(w) + 1 \in 1 .. n /\ tab[Mid(w) + 1] \in Nat
             /\ <<Mid(w) + 1, w[2]>> \in Area /\ <<w[1], Mid(w)>> \in Area
  BY <1>1, <1>3, Halves
<1> DEFINE there == [w \in Area |-> Within(w, p)]
<1>4. there = Step(there)
  <2>1. ASSUME NEW w \in Area
        PROVE  there[w] = Step(there)[w]
    <3> DEFINE m == Mid(w) + 1
    <3>0. there[w] = Within(w, p)
      OBVIOUS
    <3>1. CASE w[1] >= w[2]
      <4>1. Within(w, p) = 0
        BY <3>1, <1>1 DEF Within
      <4> QED BY <3>0, <3>1, <4>1
    <3>2. CASE w[1] < w[2] /\ tab[m] < cookie
      <4>1. p = 0 \/ m < p
        BY <3>2, <1>2, <1>3
      <4>2. Within(<<m, w[2]>>, p) = Within(w, p)
        BY <3>2, <4>1, <1>1, HalvesWithin
      <4>3. there[<<m, w[2]>>] = Within(<<m, w[2]>>, p)
        BY <3>2, <1>3
      <4> HIDE DEF there
      <4> QED BY <3>0, <3>2, <4>2, <4>3
    <3>3. CASE w[1] < w[2] /\ tab[m] > cookie
      <4>1. p = 0 \/ p < m
        BY <3>3, <1>2, <1>3
      <4>2. Within(<<w[1], Mid(w)>>, p) = Within(w, p)
        BY <3>3, <4>1, <1>1, HalvesWithin
      <4>3. there[<<w[1], Mid(w)>>] = Within(<<w[1], Mid(w)>>, p)
        BY <3>3, <1>3
      <4>4. ~(tab[m] < cookie)
        <5>1. tab[m] \in Nat
          BY <3>3, <1>3
        <5> HIDE DEF m
        <5> QED BY <3>3, <5>1
      <4> HIDE DEF there
      <4> QED BY <3>0, <3>3, <4>2, <4>3, <4>4
    <3>4. CASE w[1] < w[2] /\ tab[m] = cookie
      <4>1. p = m
        BY <3>4, <1>2, <1>3
      <4>2. Within(w, p) = m
        BY <3>4, <4>1, <1>1, HalvesWithin
      <4> HIDE DEF there
      <4> QED BY <3>0, <3>4, <4>2
    <3>5. w[1] < w[2] => tab[m] \in Nat
      BY <1>3
    <3>6. w[1] \in Int /\ w[2] \in Int
      BY <1>1
    <3>7. w[1] >= w[2] \/ (w[1] < w[2] /\ (tab[m] < cookie \/ tab[m] > cookie \/ tab[m] = cookie))
      <4> HIDE DEF m
      <4> QED BY <3>5, <3>6
    <3> QED BY <3>1, <3>2, <3>3, <3>4, <3>7
  <2> QED BY <2>1
<1>5. found = Step(found)
  <2> HIDE DEF there, Step
  <2> QED BY <1>4, Zenon
<1>6. \A w \in Area : found[w] = there[w]
  <2> DEFINE T == {k \in Nat : \E w \in Area : k = Width(w) /\ found[w] # there[w]}
  <2>1. \A w \in Area : Width(w) \in Nat
    BY <1>1 DEF Width
  <2> SUFFICES ASSUME T # {} PROVE FALSE
    BY <2>1
  <2>2. PICK k \in T : \A y \in T : k <= y
    BY LeastNumber
  <2>3. PICK w \in Area : k = Width(w) /\ found[w] # there[w]
    BY <2>2
  <2> HIDE DEF found, there
  <2>4. ASSUME NEW v \in Area, Width(v) < k PROVE found[v] = there[v]
    <3>1. Width(v) \in Nat /\ k \in Nat
      BY <2>1, <2>2
    <3>2. Width(v) \notin T
      BY <2>4, <2>2, <3>1
    <3> QED BY <3>1, <3>2
  <2>5. found[w] = Step(found)[w] /\ there[w] = Step(there)[w]
    BY <1>4, <1>5
  <2>6. w[1] < w[2]
    BY <2>3, <2>5
  <2>7. /\ Width(<<Mid(w) + 1, w[2]>>) < k
        /\ Width(<<w[1], Mid(w)>>) < k
    BY <2>3, <2>6, <1>1, Halves
  <2> QED BY <2>3, <2>4, <2>5, <2>6, <2>7, <1>3
<1>7. EventPlace(tab, cookie) = found[<<0, n>>]
  BY DEF EventPlace, Mid
<1>8. there[<<0, n>>] = p
  BY <1>1 DEF Within
<1>9. EventPlace(tab, cookie) = p
  <2> HIDE DEF found, there
  <2> QED BY <1>6, <1>7, <1>8, <1>1
<1> QED BY <1>2, <1>9 DEF HasEvent

-----------------------------------------------------------------------------
(* The table of triggers.                                                  *)

At(events, cookie) == events[cookie].trigger

TriggerSorted(tab, events) ==
  \A i, j \in DOMAIN tab :
    i < j => TriggerBefore(tab[i], At(events, tab[i]), tab[j], At(events, tab[j]))

TriggersKnown(tab, events) == \A i \in DOMAIN tab : At(events, tab[i]) \in Int

LEMMA TriggerSlotFound ==
  ASSUME NEW tab \in Seq(Nat), NEW events, TriggersKnown(tab, events),
         TriggerSorted(tab, events), NEW cookie \in Nat, NEW trigger \in Int
  PROVE  /\ TriggerSlot(tab, events, cookie, trigger) \in 0 .. Len(tab)
         /\ \A i \in 1 .. Len(tab) :
              TriggerBefore(tab[i], At(events, tab[i]), cookie, trigger)
                <=> i <= TriggerSlot(tab, events, cookie, trigger)
<1> DEFINE n == Len(tab)
           before == {i \in 0 .. n - 1 :
                        TriggerBefore(tab[i + 1], At(events, tab[i + 1]), cookie, trigger)}
<1>1. ASSUME NEW i \in 0 .. n - 1, NEW j \in 0 .. n - 1, i < j, j \in before
      PROVE  i \in before
  <2>1. i + 1 \in DOMAIN tab /\ j + 1 \in DOMAIN tab /\ i + 1 < j + 1
    BY <1>1
  <2>2. /\ tab[i + 1] \in Nat /\ tab[j + 1] \in Nat
        /\ At(events, tab[i + 1]) \in Int /\ At(events, tab[j + 1]) \in Int
    BY <2>1 DEF TriggersKnown
  <2>3. TriggerBefore(tab[i + 1], At(events, tab[i + 1]), tab[j + 1], At(events, tab[j + 1]))
    BY <2>1 DEF TriggerSorted
  <2>4. TriggerBefore(tab[j + 1], At(events, tab[j + 1]), cookie, trigger)
    BY <1>1
  <2> HIDE DEF before
  <2>5. TriggerBefore(tab[i + 1], At(events, tab[i + 1]), cookie, trigger)
    BY <2>2, <2>3, <2>4 DEF TriggerBefore
  <2> QED BY <2>5 DEF before
<1>2. n \in Nat
  OBVIOUS
<1>3. /\ FirstSlot(n, before) \in 0 .. n
      /\ \A i \in 0 .. n - 1 : i \in before <=> i < FirstSlot(n, before)
  <2> HIDE DEF n, before
  <2> QED BY <1>1, <1>2, Bisection
<1>4. TriggerSlot(tab, events, cookie, trigger) = FirstSlot(n, before)
  BY DEF TriggerSlot, At
<1>5. ASSUME NEW i \in 1 .. n
      PROVE  TriggerBefore(tab[i], At(events, tab[i]), cookie, trigger)
               <=> i <= FirstSlot(n, before)
  <2>1. i - 1 \in 0 .. n - 1 /\ (i - 1) + 1 = i
    OBVIOUS
  <2>2. i - 1 \in before <=> TriggerBefore(tab[i], At(events, tab[i]), cookie, trigger)
    BY <2>1
  <2>3. i - 1 \in before <=> i - 1 < FirstSlot(n, before)
    BY <2>1, <1>3
  <2> HIDE DEF before
  <2> QED BY <2>1, <2>2, <2>3, <1>3
<1> HIDE DEF before
<1> QED BY <1>3, <1>4, <1>5

-----------------------------------------------------------------------------
(* Putting an event in.                                                    *)

LEMMA Inserted ==
  ASSUME NEW tab \in Seq(Nat), NEW s \in 0 .. Len(tab), NEW cookie \in Nat
  PROVE  LET new == InsertAt(tab, s + 1, cookie)
         IN  /\ new \in Seq(Nat) /\ Len(new) = Len(tab) + 1
             /\ \A i \in 1 .. Len(tab) + 1 :
                  new[i] = IF i <= s THEN tab[i] ELSE IF i = s + 1 THEN cookie ELSE tab[i - 1]
<1> DEFINE n == Len(tab)
           front == SubSeq(tab, 1, s)
           back == SubSeq(tab, s + 1, n)
<1>1. n \in Nat /\ s \in Nat /\ s <= n /\ \A i \in 1 .. n : tab[i] \in Nat
  OBVIOUS
<1>2. /\ front \in Seq(Nat) /\ Len(front) = s
      /\ \A i \in 1 .. s : front[i] = tab[i]
  <2>1. /\ front \in Seq(Nat) /\ Len(front) = IF 1 <= s THEN s - 1 + 1 ELSE 0
        /\ \A i \in 1 .. s - 1 + 1 : front[i] = tab[1 + i - 1]
    <3> HIDE DEF n
    <3> QED BY <1>1, SubSeqProperties
  <2> HIDE DEF front
  <2> QED BY <1>1, <2>1
<1>3. /\ back \in Seq(Nat) /\ Len(back) = n - s
      /\ \A i \in 1 .. n - s : back[i] = tab[s + i]
  <2>1. /\ back \in Seq(Nat) /\ Len(back) = IF s + 1 <= n THEN n - (s + 1) + 1 ELSE 0
        /\ \A i \in 1 .. n - (s + 1) + 1 : back[i] = tab[s + 1 + i - 1]
    <3> HIDE DEF n
    <3> QED BY <1>1, SubSeqProperties
  <2> HIDE DEF back, n
  <2> QED BY <1>1, <2>1
<1> DEFINE part == front \o <<cookie>>
           new == part \o back
<1>4. /\ part \in Seq(Nat) /\ Len(part) = s + 1
      /\ \A i \in 1 .. s : part[i] = tab[i]
      /\ part[s + 1] = cookie
  <2> HIDE DEF front
  <2>1. <<cookie>> \in Seq(Nat) /\ Len(<<cookie>>) = 1 /\ <<cookie>>[1] = cookie
    OBVIOUS
  <2>2. /\ part \in Seq(Nat) /\ Len(part) = Len(front) + 1
        /\ \A i \in 1 .. Len(front) + 1 :
             part[i] = IF i <= Len(front) THEN front[i] ELSE <<cookie>>[i - Len(front)]
    BY <1>2, <2>1, ConcatProperties
  <2> HIDE DEF part
  <2> QED BY <1>1, <1>2, <2>1, <2>2
<1>5. /\ new \in Seq(Nat) /\ Len(new) = n + 1
      /\ \A i \in 1 .. n + 1 :
           new[i] = IF i <= s THEN tab[i] ELSE IF i = s + 1 THEN cookie ELSE tab[i - 1]
  <2> HIDE DEF part, back
  <2>1. /\ new \in Seq(Nat) /\ Len(new) = Len(part) + Len(back)
        /\ \A i \in 1 .. Len(part) + Len(back) :
             new[i] = IF i <= Len(part) THEN part[i] ELSE back[i - Len(part)]
    BY <1>3, <1>4, ConcatProperties
  <2>2. Len(part) + Len(back) = n + 1
    BY <1>1, <1>3, <1>4
  <2> HIDE DEF new, n
  <2>3. ASSUME NEW i \in 1 .. n + 1, i > s + 1
        PROVE  new[i] = tab[i - 1]
    <3>1. i - (s + 1) \in 1 .. n - s /\ s + (i - (s + 1)) = i - 1
      BY <1>1, <2>3
    <3> QED BY <1>1, <1>3, <1>4, <2>1, <2>2, <2>3, <3>1
  <2>4. ASSUME NEW i \in 1 .. n + 1, i <= s + 1
        PROVE  new[i] = part[i]
    BY <1>1, <1>4, <2>1, <2>2, <2>4
  <2>5. ASSUME NEW i \in 1 .. n + 1, i <= s
        PROVE  new[i] = tab[i]
    BY <1>1, <1>4, <2>4, <2>5
  <2> QED BY <1>1, <1>4, <2>1, <2>2, <2>3, <2>4, <2>5
<1>6. InsertAt(tab, s + 1, cookie) = new
  <2>1. (s + 1) - 1 = s
    OBVIOUS
  <2>2. InsertAt(tab, s + 1, cookie) = SubSeq(tab, 1, (s + 1) - 1) \o <<cookie>> \o back
    BY Zenon DEF InsertAt
  <2> HIDE DEF back
  <2> QED BY <2>1, <2>2, Zenon
<1> HIDE DEF new
<1> QED BY <1>5, <1>6

(* A table in the order of a set of pairs, where an event is put between   *)
(* those that come before it and those that come after.                    *)
Ordered(tab, order) == \A i, j \in DOMAIN tab : i < j => <<tab[i], tab[j]>> \in order

Holds(tab, c) == \E i \in DOMAIN tab : tab[i] = c

LEMMA InsertedInOrder ==
  ASSUME NEW tab \in Seq(Nat), NEW order, Ordered(tab, order),
         NEW s \in 0 .. Len(tab), NEW cookie \in Nat,
         \A i \in 1 .. s : <<tab[i], cookie>> \in order,
         \A i \in s + 1 .. Len(tab) : <<cookie, tab[i]>> \in order
  PROVE  LET new == InsertAt(tab, s + 1, cookie)
         IN  /\ new \in Seq(Nat) /\ Len(new) = Len(tab) + 1
             /\ Ordered(new, order)
             /\ \A c : Holds(new, c) <=> c = cookie \/ Holds(tab, c)
<1> DEFINE n == Len(tab)
           new == InsertAt(tab, s + 1, cookie)
<1>1. n \in Nat /\ DOMAIN tab = 1 .. n /\ s \in 0 .. n
  OBVIOUS
<1>2. /\ new \in Seq(Nat) /\ Len(new) = n + 1
      /\ \A i \in 1 .. n + 1 :
           new[i] = IF i <= s THEN tab[i] ELSE IF i = s + 1 THEN cookie ELSE tab[i - 1]
  BY Inserted
<1>3. DOMAIN new = 1 .. n + 1
  <2> HIDE DEF new
  <2> QED BY <1>2
<1>4. \A i \in s + 1 .. n : <<cookie, tab[i]>> \in order
  OBVIOUS
<1> HIDE DEF new, n
<1>5. /\ \A i \in 1 .. s : i \in 1 .. n + 1 /\ i \in 1 .. n /\ new[i] = tab[i]
      /\ s + 1 \in 1 .. n + 1 /\ new[s + 1] = cookie
      /\ \A i \in s + 1 .. n : i + 1 \in 1 .. n + 1 /\ i \in 1 .. n /\ new[i + 1] = tab[i]
  <2>1. ASSUME NEW i \in s + 1 .. n
        PROVE  i + 1 \in 1 .. n + 1 /\ i \in 1 .. n /\ new[i + 1] = tab[i]
    <3>1. i + 1 \in 1 .. n + 1 /\ ~(i + 1 <= s) /\ i + 1 # s + 1 /\ (i + 1) - 1 = i
      BY <1>1
    <3> QED BY <1>1, <1>2, <3>1
  <2> QED BY <1>1, <1>2, <2>1
<1>6. ASSUME NEW i \in 1 .. n + 1, NEW j \in 1 .. n + 1, i < j
      PROVE  <<new[i], new[j]>> \in order
  <2>1. \A k, m \in 1 .. n : k < m => <<tab[k], tab[m]>> \in order
    BY <1>1 DEF Ordered
  <2>2. CASE j <= s
    <3>1. i \in 1 .. s /\ j \in 1 .. s
      BY <1>1, <1>6, <2>2
    <3> QED BY <1>5, <1>6, <2>1, <3>1
  <2>3. CASE j = s + 1
    <3>1. i \in 1 .. s
      BY <1>1, <1>6, <2>3
    <3> QED BY <1>5, <2>3, <3>1
  <2>4. CASE j > s + 1
    <3>1. j - 1 \in s + 1 .. n /\ (j - 1) + 1 = j
      BY <1>1, <2>4
    <3>2. new[j] = tab[j - 1] /\ j - 1 \in 1 .. n /\ s < j - 1
      BY <1>1, <1>5, <3>1
    <3>3. CASE i <= s
      <4>1. i \in 1 .. s
        BY <1>1, <3>3
      <4> QED BY <1>1, <1>5, <2>1, <3>2, <3>3, <4>1
    <3>4. CASE i = s + 1
      BY <1>4, <1>5, <3>1, <3>2, <3>4
    <3>5. CASE i > s + 1
      <4>1. i - 1 \in s + 1 .. n /\ (i - 1) + 1 = i /\ i - 1 < j - 1
        BY <1>1, <1>6, <3>5
      <4>2. new[i] = tab[i - 1] /\ i - 1 \in 1 .. n
        BY <1>5, <4>1
      <4> QED BY <2>1, <3>2, <4>1, <4>2
    <3> QED BY <1>1, <3>3, <3>4, <3>5
  <2> QED BY <1>1, <2>2, <2>3, <2>4
<1>7. ASSUME NEW c
      PROVE  Holds(new, c) <=> c = cookie \/ Holds(tab, c)
  <2>1. ASSUME NEW i \in 1 .. n + 1, new[i] = c
        PROVE  c = cookie \/ \E k \in 1 .. n : tab[k] = c
    <3>1. i \in 1 .. s \/ i = s + 1 \/ (i - 1 \in s + 1 .. n /\ (i - 1) + 1 = i)
      BY <1>1
    <3> QED BY <1>5, <2>1, <3>1
  <2>2. ASSUME NEW k \in 1 .. n, tab[k] = c
        PROVE  \E i \in 1 .. n + 1 : new[i] = c
    <3>1. k \in 1 .. s \/ k \in s + 1 .. n
      BY <1>1
    <3> QED BY <1>5, <2>2, <3>1
  <2> QED BY <1>1, <1>3, <1>5, <2>1, <2>2 DEF Holds
<1>8. Ordered(new, order)
  BY <1>3, <1>6 DEF Ordered
<1> QED BY <1>2, <1>7, <1>8 DEF new, n

(* The orders of the two tables as sets of pairs.                          *)
CookieOrder == {p \in Nat \X Nat : p[1] < p[2]}

TriggerOrder(events) ==
  {p \in Nat \X Nat : TriggerBefore(p[1], At(events, p[1]), p[2], At(events, p[2]))}

LEMMA CookiesOrdered == \A t \in Seq(Nat) : Ordered(t, CookieOrder) <=> CookieSorted(t)
<1> SUFFICES ASSUME NEW t \in Seq(Nat) PROVE Ordered(t, CookieOrder) <=> CookieSorted(t)
  OBVIOUS
<1>1. \A i \in DOMAIN t : t[i] \in Nat
  OBVIOUS
<1>2. \A a, b \in Nat : <<a, b>> \in CookieOrder <=> a < b
  BY DEF CookieOrder
<1> QED BY <1>1, <1>2 DEF Ordered, CookieSorted

LEMMA TriggersOrdered ==
  \A e : \A t \in Seq(Nat) : Ordered(t, TriggerOrder(e)) <=> TriggerSorted(t, e)
<1> SUFFICES ASSUME NEW t \in Seq(Nat), NEW e
             PROVE  Ordered(t, TriggerOrder(e)) <=> TriggerSorted(t, e)
  OBVIOUS
<1>1. \A i \in DOMAIN t : t[i] \in Nat
  OBVIOUS
<1>2. \A a, b \in Nat :
        <<a, b>> \in TriggerOrder(e) <=> TriggerBefore(a, At(e, a), b, At(e, b))
  BY DEF TriggerOrder
<1> QED BY <1>1, <1>2 DEF Ordered, TriggerSorted

(* The table of cookies stays sorted, and gains the new event alone.       *)
THEOREM CookieInserted ==
  ASSUME NEW tab \in Seq(Nat), CookieSorted(tab), NEW cookie \in Nat, ~Holds(tab, cookie)
  PROVE  LET new == InsertAt(tab, CookieSlot(tab, cookie) + 1, cookie)
         IN  /\ new \in Seq(Nat) /\ Len(new) = Len(tab) + 1
             /\ CookieSorted(new)
             /\ \A c : Holds(new, c) <=> c = cookie \/ Holds(tab, c)
<1> DEFINE order == CookieOrder
           s == CookieSlot(tab, cookie)
           new == InsertAt(tab, s + 1, cookie)
<1>1. \A i \in 1 .. Len(tab) : tab[i] \in Nat /\ tab[i] # cookie
  BY DEF Holds
<1>2. s \in 0 .. Len(tab) /\ \A i \in 1 .. Len(tab) : tab[i] < cookie <=> i <= s
  BY CookieSlotFound
<1>3. \A t \in Seq(Nat) : Ordered(t, order) <=> CookieSorted(t)
  BY CookiesOrdered
<1> HIDE DEF s
<1>4. /\ \A i \in 1 .. s : <<tab[i], cookie>> \in order
      /\ \A i \in s + 1 .. Len(tab) : <<cookie, tab[i]>> \in order
  BY <1>1, <1>2 DEF CookieOrder
<1> HIDE DEF order
<1>5. /\ new \in Seq(Nat) /\ Len(new) = Len(tab) + 1
      /\ Ordered(new, order)
      /\ \A c : Holds(new, c) <=> c = cookie \/ Holds(tab, c)
  BY <1>2, <1>3, <1>4, InsertedInOrder
<1> HIDE DEF new
<1> QED BY <1>3, <1>5 DEF new, s

(* So does the table of triggers, when the new event has its trigger.      *)
THEOREM TriggerInserted ==
  ASSUME NEW tab \in Seq(Nat), NEW events, TriggersKnown(tab, events),
         TriggerSorted(tab, events), NEW cookie \in Nat, NEW trigger \in Int,
         ~Holds(tab, cookie),
         NEW after, At(after, cookie) = trigger,
         \A c : Holds(tab, c) => At(after, c) = At(events, c)
  PROVE  LET new == InsertAt(tab, TriggerSlot(tab, events, cookie, trigger) + 1, cookie)
         IN  /\ new \in Seq(Nat) /\ Len(new) = Len(tab) + 1
             /\ TriggersKnown(new, after) /\ TriggerSorted(new, after)
             /\ \A c : Holds(new, c) <=> c = cookie \/ Holds(tab, c)
<1> DEFINE order == TriggerOrder(after)
           s == TriggerSlot(tab, events, cookie, trigger)
           new == InsertAt(tab, s + 1, cookie)
<1>1. \A i \in 1 .. Len(tab) : /\ tab[i] \in Nat /\ tab[i] # cookie
                               /\ At(after, tab[i]) = At(events, tab[i])
                               /\ At(after, tab[i]) \in Int
  BY DEF Holds, TriggersKnown
<1>2. /\ s \in 0 .. Len(tab)
      /\ \A i \in 1 .. Len(tab) :
           TriggerBefore(tab[i], At(events, tab[i]), cookie, trigger) <=> i <= s
  BY TriggerSlotFound
<1>3. \A t \in Seq(Nat) : Ordered(t, order) <=> TriggerSorted(t, after)
  BY TriggersOrdered
<1>4. Ordered(tab, order)
  <2>1. TriggerSorted(tab, after)
    <3> SUFFICES ASSUME NEW i \in DOMAIN tab, NEW j \in DOMAIN tab, i < j
                 PROVE  TriggerBefore(tab[i], At(after, tab[i]), tab[j], At(after, tab[j]))
      BY DEF TriggerSorted
    <3>1. i \in 1 .. Len(tab) /\ j \in 1 .. Len(tab)
      OBVIOUS
    <3>2. TriggerBefore(tab[i], At(events, tab[i]), tab[j], At(events, tab[j]))
      BY DEF TriggerSorted
    <3> QED BY <1>1, <3>1, <3>2
  <2> QED BY <1>3, <2>1
<1> HIDE DEF s
<1>5. /\ \A i \in 1 .. s : <<tab[i], cookie>> \in order
      /\ \A i \in s + 1 .. Len(tab) : <<cookie, tab[i]>> \in order
  <2>1. ASSUME NEW i \in 1 .. s
        PROVE  <<tab[i], cookie>> \in order
    <3>1. i \in 1 .. Len(tab) /\ i <= s
      BY <1>2
    <3> QED BY <1>1, <1>2, <3>1 DEF TriggerOrder
  <2>2. ASSUME NEW i \in s + 1 .. Len(tab)
        PROVE  <<cookie, tab[i]>> \in order
    <3>1. i \in 1 .. Len(tab) /\ ~(i <= s)
      BY <1>2
    <3>2. ~TriggerBefore(tab[i], At(after, tab[i]), cookie, trigger)
      BY <1>1, <1>2, <3>1
    <3>3. TriggerBefore(cookie, trigger, tab[i], At(after, tab[i]))
      BY <1>1, <3>1, <3>2 DEF TriggerBefore
    <3> QED BY <1>1, <3>1, <3>3 DEF TriggerOrder
  <2> QED BY <2>1, <2>2
<1> HIDE DEF order
<1>6. /\ new \in Seq(Nat) /\ Len(new) = Len(tab) + 1
      /\ Ordered(new, order)
      /\ \A c : Holds(new, c) <=> c = cookie \/ Holds(tab, c)
  BY <1>2, <1>4, <1>5, InsertedInOrder
<1> HIDE DEF new
<1>7. TriggersKnown(new, after)
  <2> SUFFICES ASSUME NEW i \in DOMAIN new PROVE At(after, new[i]) \in Int
    BY DEF TriggersKnown
  <2>1. Holds(new, new[i])
    BY DEF Holds
  <2>2. new[i] = cookie \/ Holds(tab, new[i])
    BY <1>6, <2>1
  <2> QED BY <1>1, <2>2 DEF Holds
<1> QED BY <1>3, <1>6, <1>7 DEF new, s

-----------------------------------------------------------------------------
(* Moving an event.                                                        *)

(* Where the entry at place i comes from when the one at slot ti goes to.  *)
Source(i, ti, to) == IF i = to + 1 THEN ti + 1
                     ELSE IF to < ti /\ i > to + 1 /\ i <= ti + 1 THEN i - 1
                     ELSE IF to > ti /\ i > ti /\ i < to + 1 THEN i + 1
                     ELSE i

(* The others keep their order; those found before slot s stay before.     *)
InOrder(n, ti, s, to) ==
  /\ to \in 0 .. n - 1
  /\ Source(to + 1, ti, to) = ti + 1
  /\ \A i \in 1 .. n : Source(i, ti, to) \in 1 .. n
  /\ \A i \in 1 .. n : i # to + 1 => Source(i, ti, to) # ti + 1
  /\ \A i \in 1 .. n : i < to + 1 => Source(i, ti, to) <= s
  /\ \A i \in 1 .. n : i > to + 1 => Source(i, ti, to) > s
  /\ \A i, j \in 1 .. n : i < j /\ i # to + 1 /\ j # to + 1
                           => Source(i, ti, to) < Source(j, ti, to)
  /\ \A k \in 1 .. n : \E i \in 1 .. n : Source(i, ti, to) = k

LEMMA SourceOrder ==
  ASSUME NEW n \in Nat, NEW ti \in 0 .. n - 1, NEW s \in 0 .. n,
         NEW to \in Int, to = IF s <= ti THEN s ELSE s - 1
  PROVE  InOrder(n, ti, s, to)
<1>1. to \in 0 .. n - 1 /\ to \in Int /\ ti \in Int /\ s \in Int
  OBVIOUS
<1>2. Source(to + 1, ti, to) = ti + 1
  BY DEF Source
<1>3. \A i \in 1 .. n : Source(i, ti, to) \in 1 .. n
  BY <1>1 DEF Source
<1>4. \A i \in 1 .. n : i # to + 1 => Source(i, ti, to) # ti + 1
  BY <1>1 DEF Source
<1>5. \A i \in 1 .. n : i < to + 1 => Source(i, ti, to) <= s
  BY <1>1 DEF Source
<1>6. \A i \in 1 .. n : i > to + 1 => Source(i, ti, to) > s
  BY <1>1 DEF Source
<1>7. \A i, j \in 1 .. n : i < j /\ i # to + 1 /\ j # to + 1
                           => Source(i, ti, to) < Source(j, ti, to)
  BY <1>1 DEF Source
<1>8. ASSUME NEW k \in 1 .. n
      PROVE  \E i \in 1 .. n : Source(i, ti, to) = k
  <2>1. CASE k = ti + 1
    BY <1>1, <1>2, <2>1
  <2>2. CASE k <= ti /\ k <= to
    BY <1>1, <2>2 DEF Source
  <2>3. CASE k <= ti /\ k > to
    <3>1. k + 1 \in 1 .. n /\ Source(k + 1, ti, to) = k
      BY <1>1, <2>3 DEF Source
    <3> QED BY <3>1
  <2>4. CASE k > ti + 1 /\ k > to + 1
    BY <1>1, <2>4 DEF Source
  <2>5. CASE k > ti + 1 /\ k <= to + 1
    <3>1. k - 1 \in 1 .. n /\ Source(k - 1, ti, to) = k
      BY <1>1, <2>5 DEF Source
    <3> QED BY <3>1
  <2> QED BY <1>1, <2>1, <2>2, <2>3, <2>4, <2>5
<1> QED BY <1>1, <1>2, <1>3, <1>4, <1>5, <1>6, <1>7, <1>8 DEF InOrder

(* The bisection finds an event that is in the table.                      *)
LEMMA OwnSlot ==
  ASSUME NEW tab \in Seq(Nat), NEW events, TriggersKnown(tab, events),
         TriggerSorted(tab, events), NEW p \in 1 .. Len(tab)
  PROVE  TriggerSlot(tab, events, tab[p], At(events, tab[p])) = p - 1
<1> DEFINE c == tab[p]
           ti == TriggerSlot(tab, events, c, At(events, c))
<1>1. \A i \in 1 .. Len(tab) : tab[i] \in Nat /\ At(events, tab[i]) \in Int
  BY DEF TriggersKnown
<1>2. /\ ti \in 0 .. Len(tab)
      /\ \A i \in 1 .. Len(tab) :
           TriggerBefore(tab[i], At(events, tab[i]), c, At(events, c)) <=> i <= ti
  BY <1>1, TriggerSlotFound
<1>3. p > ti
  <2>1. ~TriggerBefore(tab[p], At(events, tab[p]), c, At(events, c))
    BY <1>1 DEF TriggerBefore
  <2> HIDE DEF c, ti
  <2> QED BY <1>2, <2>1
<1>4. p = 1 \/ p - 1 <= ti
  <2> SUFFICES ASSUME p # 1 PROVE p - 1 <= ti
    OBVIOUS
  <2>1. p - 1 \in 1 .. Len(tab) /\ p - 1 \in DOMAIN tab /\ p \in DOMAIN tab /\ p - 1 < p
    OBVIOUS
  <2>2. TriggerBefore(tab[p - 1], At(events, tab[p - 1]), c, At(events, c))
    BY <2>1 DEF TriggerSorted
  <2> HIDE DEF c, ti
  <2> QED BY <1>2, <2>1, <2>2
<1> HIDE DEF c, ti
<1>5. ti = p - 1
  BY <1>2, <1>3, <1>4
<1> QED BY <1>5 DEF c, ti

(* Moving an event to the slot of its new trigger keeps the table sorted   *)
(* and loses no event, however far up or down the event goes               *)
(* (queue_event_set_trigger).                                              *)
THEOREM TriggerMoved ==
  ASSUME NEW tab \in Seq(Nat), NEW events, TriggersKnown(tab, events),
         TriggerSorted(tab, events),
         NEW cookie, Holds(tab, cookie), NEW trigger \in Int,
         NEW after, At(after, cookie) = trigger,
         \A c : Holds(tab, c) /\ c # cookie => At(after, c) = At(events, c)
  PROVE  LET ti  == TriggerSlot(tab, events, cookie, At(events, cookie))
             new == Shifted(tab, ti, TriggerSlot(tab, events, cookie, trigger))
         IN  /\ new \in Seq(Nat) /\ Len(new) = Len(tab)
             /\ TriggersKnown(new, after) /\ TriggerSorted(new, after)
             /\ \A c : Holds(new, c) <=> Holds(tab, c)
<1> DEFINE n == Len(tab)
           ti == TriggerSlot(tab, events, cookie, At(events, cookie))
           s == TriggerSlot(tab, events, cookie, trigger)
           to == IF s <= ti THEN s ELSE s - 1
           new == Shifted(tab, ti, s)
<1>1. PICK p \in 1 .. n : tab[p] = cookie
  BY DEF Holds
<1>2. /\ n \in Nat /\ DOMAIN tab = 1 .. n /\ cookie \in Nat
      /\ \A i \in 1 .. n : tab[i] \in Nat /\ At(events, tab[i]) \in Int
  BY <1>1 DEF TriggersKnown
<1>3. ti = p - 1
  BY <1>1, OwnSlot
<1>4. /\ s \in 0 .. n
      /\ \A i \in 1 .. n : TriggerBefore(tab[i], At(events, tab[i]), cookie, trigger) <=> i <= s
  BY <1>2, TriggerSlotFound
<1>5. \A i, j \in 1 .. n :
        i < j => TriggerBefore(tab[i], At(events, tab[i]), tab[j], At(events, tab[j]))
  BY <1>2 DEF TriggerSorted
<1>6. new = ShiftedTo(tab, ti, to)
  BY DEF Shifted
<1> HIDE DEF ti, s, n
<1>7. to \in Int /\ ti \in 0 .. n - 1
  BY <1>2, <1>3, <1>4
<1>8. to = IF s <= ti THEN s ELSE s - 1
  OBVIOUS
<1> HIDE DEF to, new
<1>9. /\ to \in 0 .. n - 1
      /\ Source(to + 1, ti, to) = p
      /\ \A i \in 1 .. n : Source(i, ti, to) \in 1 .. n
      /\ \A i \in 1 .. n : i # to + 1 => Source(i, ti, to) # p
      /\ \A i \in 1 .. n : i < to + 1 => Source(i, ti, to) <= s
      /\ \A i \in 1 .. n : i > to + 1 => Source(i, ti, to) > s
      /\ \A i, j \in 1 .. n : i < j /\ i # to + 1 /\ j # to + 1
                               => Source(i, ti, to) < Source(j, ti, to)
      /\ \A k \in 1 .. n : \E i \in 1 .. n : Source(i, ti, to) = k
  <2>1. ti + 1 = p
    BY <1>1, <1>3
  <2>2. n \in Nat /\ s \in 0 .. n
    BY <1>2, <1>4
  <2>3. InOrder(n, ti, s, to)
    BY <2>2, <1>7, <1>8, SourceOrder
  <2> QED BY <2>1, <2>3 DEF InOrder
<1>10. new \in Seq(Nat) /\ Len(new) = n /\ DOMAIN new = 1 .. n
       /\ \A i \in 1 .. n : new[i] = tab[Source(i, ti, to)]
  <2>1. ASSUME NEW i \in 1 .. n
        PROVE  new[i] = tab[Source(i, ti, to)]
    <3>1. new[i] = CASE i = to + 1                      -> tab[ti + 1]
                     [] to < ti /\ i > to + 1 /\ i <= ti + 1 -> tab[i - 1]
                     [] to > ti /\ i > ti /\ i < to + 1      -> tab[i + 1]
                     [] OTHER                           -> tab[i]
      BY <1>2, <1>6 DEF ShiftedTo
    <3>2. CASE i = to + 1
      BY <1>7, <3>1, <3>2 DEF Source
    <3>3. CASE to < ti /\ i > to + 1 /\ i <= ti + 1
      BY <1>7, <3>1, <3>3 DEF Source
    <3>4. CASE to > ti /\ i > ti /\ i < to + 1
      BY <1>7, <3>1, <3>4 DEF Source
    <3>5. CASE /\ i # to + 1
               /\ ~(to < ti /\ i > to + 1 /\ i <= ti + 1)
               /\ ~(to > ti /\ i > ti /\ i < to + 1)
      BY <1>7, <3>1, <3>5 DEF Source
    <3> QED BY <3>2, <3>3, <3>4, <3>5
  <2>2. \A i \in 1 .. n : tab[Source(i, ti, to)] \in Nat
    BY <1>2, <1>9
  <2>3. new = [i \in 1 .. n |-> new[i]]
    BY <1>2, <1>6 DEF ShiftedTo
  <2>4. \A i \in 1 .. n : new[i] \in Nat
    BY <2>1, <2>2
  <2>5. new \in [1 .. n -> Nat]
    BY <2>3, <2>4
  <2>6. new \in Seq(Nat) /\ DOMAIN new = 1 .. n
    BY <1>2, <2>5
  <2>7. Len(new) = n
    BY <1>2, <2>6
  <2> QED BY <2>1, <2>6, <2>7
<1>11. ASSUME NEW i \in 1 .. n, i # to + 1
       PROVE  LET k == Source(i, ti, to)
              IN  /\ k \in 1 .. n /\ new[i] = tab[k] /\ tab[k] # cookie
                  /\ tab[k] \in Nat /\ At(after, tab[k]) = At(events, tab[k])
                  /\ At(events, tab[k]) \in Int
  <2> DEFINE k == Source(i, ti, to)
  <2>1. k \in 1 .. n /\ k # p /\ new[i] = tab[k]
    BY <1>9, <1>10, <1>11
  <2> HIDE DEF k
  <2>2. tab[k] # cookie
    <3>1. k < p \/ p < k
      BY <1>1, <2>1
    <3>2. \A a, b \in 1 .. n : a < b => tab[a] # tab[b]
      BY <1>2, <1>5 DEF TriggerBefore
    <3> QED BY <1>1, <2>1, <3>1, <3>2
  <2>3. Holds(tab, tab[k])
    BY <1>2, <2>1 DEF Holds
  <2> QED BY <1>2, <2>1, <2>2, <2>3 DEF k
<1>12. new[to + 1] = cookie /\ to + 1 \in 1 .. n
  BY <1>1, <1>9, <1>10
<1>13. ASSUME NEW i \in 1 .. n, NEW j \in 1 .. n, i < j
       PROVE  TriggerBefore(new[i], At(after, new[i]), new[j], At(after, new[j]))
  <2>1. CASE j = to + 1
    <3> DEFINE k == Source(i, ti, to)
    <3>1. i # to + 1 /\ k <= s
      BY <1>9, <1>13, <2>1
    <3>2. k \in 1 .. n /\ new[i] = tab[k] /\ At(after, tab[k]) = At(events, tab[k])
      BY <1>11, <3>1
    <3> HIDE DEF k
    <3>3. TriggerBefore(tab[k], At(events, tab[k]), cookie, trigger)
      BY <1>4, <3>1, <3>2
    <3> QED BY <1>12, <2>1, <3>2, <3>3
  <2>2. CASE i = to + 1
    <3> DEFINE k == Source(j, ti, to)
    <3>1. j # to + 1 /\ k > s
      BY <1>9, <1>13, <2>2
    <3>2. /\ k \in 1 .. n /\ new[j] = tab[k] /\ At(after, tab[k]) = At(events, tab[k])
          /\ tab[k] # cookie /\ tab[k] \in Nat /\ At(events, tab[k]) \in Int
      BY <1>11, <3>1
    <3> HIDE DEF k
    <3>3. ~TriggerBefore(tab[k], At(events, tab[k]), cookie, trigger)
      BY <1>4, <3>1, <3>2
    <3>4. TriggerBefore(cookie, trigger, tab[k], At(events, tab[k]))
      BY <1>2, <3>2, <3>3 DEF TriggerBefore
    <3> QED BY <1>12, <2>2, <3>2, <3>4
  <2>3. CASE i # to + 1 /\ j # to + 1
    <3> DEFINE k == Source(i, ti, to)
               m == Source(j, ti, to)
    <3>1. k < m
      BY <1>9, <1>13, <2>3
    <3>2. k \in 1 .. n /\ new[i] = tab[k] /\ At(after, tab[k]) = At(events, tab[k])
      BY <1>11, <2>3
    <3>3. m \in 1 .. n /\ new[j] = tab[m] /\ At(after, tab[m]) = At(events, tab[m])
      BY <1>11, <2>3
    <3> HIDE DEF k, m
    <3> QED BY <1>5, <3>1, <3>2, <3>3
  <2> QED BY <2>1, <2>2, <2>3
<1>14. TriggerSorted(new, after)
  BY <1>10, <1>13 DEF TriggerSorted
<1>15. TriggersKnown(new, after)
  <2> SUFFICES ASSUME NEW i \in 1 .. n PROVE At(after, new[i]) \in Int
    BY <1>10 DEF TriggersKnown
  <2> QED BY <1>11, <1>12
<1>16. ASSUME NEW c
       PROVE  Holds(new, c) <=> Holds(tab, c)
  <2>1. ASSUME NEW i \in 1 .. n, new[i] = c
        PROVE  \E k \in 1 .. n : tab[k] = c
    BY <1>9, <1>10, <2>1
  <2>2. ASSUME NEW k \in 1 .. n, tab[k] = c
        PROVE  \E i \in 1 .. n : new[i] = c
    <3>1. PICK i \in 1 .. n : Source(i, ti, to) = k
      BY <1>9
    <3> QED BY <1>10, <2>2, <3>1
  <2> QED BY <1>2, <1>10, <2>1, <2>2 DEF Holds
<1> QED BY <1>10, <1>14, <1>15, <1>16 DEF new, ti, s, n

-----------------------------------------------------------------------------
(* Dropping events.                                                        *)

(* A function that is computed step by step from a first value exists.     *)
Computed(f, n, first, step) ==
  f[0] = first /\ \A i \in 1 .. n : f[i] = step[<<i, f[i - 1]>>]

LEMMA StepByStep ==
  ASSUME NEW n \in Nat, NEW S, NEW first \in S, NEW step \in [(1 .. n) \X S -> S]
  PROVE  \E f \in [0 .. n -> S] : Computed(f, n, first, step)
<1> DEFINE Goes(f, m) == f[0] = first /\ \A i \in 1 .. m : f[i] = step[<<i, f[i - 1]>>]
           T == {m \in 0 .. n : ~\E f \in [0 .. m -> S] : Goes(f, m)}
<1>1. ASSUME T # {} PROVE FALSE
  <2>1. PICK m \in T : \A k \in T : m <= k
    <3>1. T \in SUBSET Nat
      OBVIOUS
    <3> HIDE DEF T
    <3> QED BY <1>1, <3>1, LeastNumber
  <2>2. m \in 0 .. n
    OBVIOUS
  <2>3. m # 0
    <3>1. [i \in 0 .. 0 |-> first] \in [0 .. 0 -> S] /\ Goes([i \in 0 .. 0 |-> first], 0)
      OBVIOUS
    <3> QED BY <3>1
  <2>4. PICK f \in [0 .. m - 1 -> S] : Goes(f, m - 1)
    <3>1. m - 1 \in 0 .. n /\ ~(m <= m - 1)
      BY <2>2, <2>3
    <3>2. m - 1 \notin T
      BY <2>1, <3>1
    <3> QED BY <3>1, <3>2
  <2> DEFINE g == [i \in 0 .. m |-> IF i = m THEN step[<<m, f[m - 1]>>] ELSE f[i]]
  <2>5. m \in 1 .. n /\ m - 1 \in 0 .. m - 1 /\ step[<<m, f[m - 1]>>] \in S
    BY <2>2, <2>3
  <2>6. g \in [0 .. m -> S]
    BY <2>5
  <2>7. g[0] = first
    BY <2>3, <2>4, <2>5
  <2>8. ASSUME NEW i \in 1 .. m
        PROVE  g[i] = step[<<i, g[i - 1]>>]
    <3>1. i - 1 \in 0 .. m - 1 /\ i - 1 # m /\ i - 1 \in 0 .. m /\ i \in 0 .. m
      BY <2>5
    <3>2. g[i - 1] = f[i - 1]
      BY <3>1
    <3>3. CASE i = m
      BY <3>1, <3>2, <3>3
    <3>4. CASE i # m
      <4>1. i \in 1 .. m - 1
        BY <2>5, <3>4
      <4> QED BY <2>4, <3>1, <3>2, <3>4, <4>1
    <3> QED BY <3>3, <3>4
  <2> HIDE DEF g
  <2> QED BY <2>6, <2>7, <2>8
<1>2. n \in 0 .. n
  OBVIOUS
<1> QED BY <1>1, <1>2 DEF Computed

(* The loop of queue_cleanup_deleted over one table.                       *)
LEMMA KeptStep ==
  ASSUME NEW tab \in Seq(Nat), NEW events
  PROVE  \E f \in [0 .. Len(tab) -> Seq(Nat)] :
           /\ f[0] = << >> /\ Kept(tab, events) = f[Len(tab)]
           /\ \A i \in 1 .. Len(tab) :
                f[i] = IF events[tab[i]].state \in {"DELETED", "FINALIZED"}
                       THEN f[i - 1] ELSE Append(f[i - 1], tab[i])
<1> DEFINE n == Len(tab)
           Gone(i) == events[tab[i]].state \in {"DELETED", "FINALIZED"}
           Next(f) == [i \in 0 .. n |->
                         IF i = 0 THEN << >>
                         ELSE IF Gone(i) THEN f[i - 1] ELSE Append(f[i - 1], tab[i])]
           kept == CHOOSE f : f = Next(f)
           step == [w \in (1 .. n) \X Seq(Nat) |->
                      IF Gone(w[1]) THEN w[2] ELSE Append(w[2], tab[w[1]])]
<1>1. n \in Nat /\ \A i \in 1 .. n : tab[i] \in Nat
  OBVIOUS
<1>2. step \in [(1 .. n) \X Seq(Nat) -> Seq(Nat)]
  <2>1. ASSUME NEW w \in (1 .. n) \X Seq(Nat)
        PROVE  (IF Gone(w[1]) THEN w[2] ELSE Append(w[2], tab[w[1]])) \in Seq(Nat)
    <3>1. w[1] \in 1 .. n /\ w[2] \in Seq(Nat)
      OBVIOUS
    <3>2. Append(w[2], tab[w[1]]) \in Seq(Nat)
      BY <1>1, <3>1
    <3> HIDE DEF Gone
    <3> QED BY <3>1, <3>2
  <2> HIDE DEF Gone
  <2> QED BY <2>1
<1>3. \A i \in 1 .. n, t \in Seq(Nat) :
        step[<<i, t>>] = IF Gone(i) THEN t ELSE Append(t, tab[i])
  <2> HIDE DEF Gone, n
  <2> QED OBVIOUS
<1> HIDE DEF step
<1>4. PICK f \in [0 .. n -> Seq(Nat)] :
        f[0] = << >> /\ \A i \in 1 .. n : f[i] = step[<<i, f[i - 1]>>]
  <2>1. << >> \in Seq(Nat)
    OBVIOUS
  <2> DEFINE S == Seq(Nat)
  <2>2. n \in Nat /\ << >> \in S /\ step \in [(1 .. n) \X S -> S]
    BY <1>1, <1>2, <2>1
  <2> HIDE DEF S, n
  <2>3. \E f \in [0 .. n -> S] : Computed(f, n, << >>, step)
    BY <2>2, StepByStep
  <2> QED BY <2>3 DEF S, Computed
<1>5. \A i \in 1 .. n : f[i] = IF Gone(i) THEN f[i - 1] ELSE Append(f[i - 1], tab[i])
  <2> SUFFICES ASSUME NEW i \in 1 .. n
               PROVE  f[i] = IF Gone(i) THEN f[i - 1] ELSE Append(f[i - 1], tab[i])
    OBVIOUS
  <2>1. i - 1 \in 0 .. n /\ f[i - 1] \in Seq(Nat)
    BY <1>1
  <2> HIDE DEF Gone, n
  <2> QED BY <1>3, <1>4, <2>1
<1>6. f = Next(f)
  <2>1. ASSUME NEW i \in 0 .. n
        PROVE  f[i] = IF i = 0 THEN << >>
                      ELSE IF Gone(i) THEN f[i - 1] ELSE Append(f[i - 1], tab[i])
    <3>1. i = 0 \/ i \in 1 .. n
      BY <1>1
    <3> HIDE DEF Gone, n
    <3> QED BY <1>4, <1>5, <3>1
  <2> HIDE DEF Gone, n
  <2> QED BY <2>1
<1>7. kept = Next(kept)
  <2> HIDE DEF Next
  <2> QED BY <1>6, Zenon
<1>8. Kept(tab, events) = kept[n]
  BY Zenon DEF Kept
<1> HIDE DEF kept
<1>9. \A i \in 0 .. n : kept[i] = IF i = 0 THEN << >>
                       ELSE IF Gone(i) THEN kept[i - 1] ELSE Append(kept[i - 1], tab[i])
  <2> HIDE DEF Gone, n
  <2> QED BY <1>7
<1> DEFINE T == {i \in 0 .. n : kept[i] # f[i]}
<1>10. ASSUME T # {} PROVE FALSE
  <2>1. PICK m \in T : \A k \in T : m <= k
    <3>1. T \in SUBSET Nat
      BY <1>1
    <3> HIDE DEF T
    <3> QED BY <1>10, <3>1, LeastNumber
  <2>2. m \in 0 .. n /\ kept[m] # f[m]
    OBVIOUS
  <2>3. m # 0
    BY <1>4, <1>9, <2>2
  <2>4. m - 1 \in 0 .. n /\ ~(m <= m - 1) /\ m \in 1 .. n
    BY <1>1, <2>2, <2>3
  <2>5. kept[m - 1] = f[m - 1]
    BY <2>1, <2>4
  <2> HIDE DEF Gone, n
  <2> QED BY <1>5, <1>9, <2>2, <2>3, <2>4, <2>5
<1>11. kept[n] = f[n]
  BY <1>1, <1>10
<1> HIDE DEF n
<1> QED BY <1>4, <1>5, <1>8, <1>11 DEF n

(* Each table keeps its order, and loses exactly the events that are gone  *)
(* (queue_cleanup_deleted).                                                *)
LEMMA KeptInOrder ==
  ASSUME NEW tab \in Seq(Nat), NEW events, NEW order, Ordered(tab, order)
  PROVE  /\ Kept(tab, events) \in Seq(Nat)
         /\ Ordered(Kept(tab, events), order)
         /\ \A c : Holds(Kept(tab, events), c)
                     <=> Holds(tab, c) /\ events[c].state \notin {"DELETED", "FINALIZED"}
<1> DEFINE n == Len(tab)
           Gone(c) == events[c].state \in {"DELETED", "FINALIZED"}
<1>1. n \in Nat /\ DOMAIN tab = 1 .. n /\ \A i \in 1 .. n : tab[i] \in Nat
  OBVIOUS
<1>2. PICK f \in [0 .. n -> Seq(Nat)] :
        /\ f[0] = << >> /\ Kept(tab, events) = f[n]
        /\ \A i \in 1 .. n : f[i] = IF Gone(tab[i]) THEN f[i - 1] ELSE Append(f[i - 1], tab[i])
  BY KeptStep
<1> HIDE DEF n, Gone
<1> DEFINE Part(i) == /\ Ordered(f[i], order)
                      /\ \A c : Holds(f[i], c) <=> \E j \in 1 .. i : tab[j] = c /\ ~Gone(c)
           T == {i \in 0 .. n : ~Part(i)}
<1>3. Part(0)
  BY <1>2 DEF Ordered, Holds
<1>4. ASSUME NEW i \in 1 .. n, Part(i - 1)
      PROVE  Part(i)
  <2>1. /\ i - 1 \in 0 .. n /\ f[i - 1] \in Seq(Nat) /\ i \in Nat
        /\ \A j \in 1 .. i : j = i \/ j \in 1 .. i - 1
        /\ \A j \in 1 .. i - 1 : j \in 1 .. n /\ j < i /\ j \in 1 .. i
        /\ i \in 1 .. i /\ tab[i] \in Nat
    BY <1>1
  <2>2. CASE Gone(tab[i])
    <3>1. f[i] = f[i - 1]
      BY <1>2, <2>2
    <3>2. ASSUME NEW c
          PROVE  (\E j \in 1 .. i - 1 : tab[j] = c /\ ~Gone(c))
                   <=> (\E j \in 1 .. i : tab[j] = c /\ ~Gone(c))
      BY <2>1, <2>2
    <3> QED BY <1>4, <3>1, <3>2
  <2>3. CASE ~Gone(tab[i])
    <3> DEFINE t == f[i - 1]
               m == Len(t)
    <3>1. /\ f[i] = Append(t, tab[i]) /\ t \in Seq(Nat)
          /\ m \in Nat /\ DOMAIN t = 1 .. m
      <4>1. t \in Seq(Nat)
        BY <2>1
      <4>2. f[i] = Append(f[i - 1], tab[i])
        BY <1>2, <2>3
      <4> HIDE DEF t
      <4>3. m \in Nat /\ DOMAIN t = 1 .. m
        BY <4>1
      <4> QED BY <4>1, <4>2, <4>3 DEF t
    <3> HIDE DEF t, m
    <3>2. /\ DOMAIN f[i] = 1 .. m + 1 /\ f[i][m + 1] = tab[i]
          /\ \A k \in 1 .. m : f[i][k] = t[k] /\ k \in 1 .. m + 1
      BY <2>1, <3>1 DEF m
    <3>3. Ordered(t, order) /\ \A c : Holds(t, c) <=> \E j \in 1 .. i - 1 : tab[j] = c /\ ~Gone(c)
      BY <1>4 DEF t
    <3>4. ASSUME NEW k \in 1 .. m
          PROVE  <<t[k], tab[i]>> \in order
      <4>1. Holds(t, t[k])
        BY <3>1 DEF Holds
      <4>2. PICK j \in 1 .. i - 1 : tab[j] = t[k]
        BY <3>3, <4>1
      <4> QED BY <1>1, <2>1, <4>2 DEF Ordered
    <3>5. Ordered(f[i], order)
      <4> SUFFICES ASSUME NEW k \in 1 .. m + 1, NEW l \in 1 .. m + 1, k < l
                   PROVE  <<f[i][k], f[i][l]>> \in order
        BY <3>2 DEF Ordered
      <4>1. k \in 1 .. m /\ (l \in 1 .. m \/ l = m + 1)
        BY <3>1
      <4>2. CASE l = m + 1
        BY <3>2, <3>4, <4>1, <4>2
      <4>3. CASE l \in 1 .. m
        <5>1. <<t[k], t[l]>> \in order
          BY <3>1, <3>3, <4>1, <4>3 DEF Ordered
        <5> QED BY <3>2, <4>1, <4>3, <5>1
      <4> QED BY <4>1, <4>2, <4>3
    <3>6. ASSUME NEW c
          PROVE  Holds(f[i], c) <=> \E j \in 1 .. i : tab[j] = c /\ ~Gone(c)
      <4>1. Holds(f[i], c) <=> c = tab[i] \/ Holds(t, c)
        <5>1. \A k \in 1 .. m + 1 : k \in 1 .. m \/ k = m + 1
          BY <3>1
        <5>2. m + 1 \in 1 .. m + 1
          BY <3>1
        <5>3. Holds(t, c) <=> \E k \in 1 .. m : t[k] = c
          BY <3>1 DEF Holds
        <5>4. Holds(f[i], c) <=> \E k \in 1 .. m + 1 : f[i][k] = c
          BY <3>2 DEF Holds
        <5> QED BY <3>2, <5>1, <5>2, <5>3, <5>4
      <4>2. Holds(t, c) <=> \E j \in 1 .. i - 1 : tab[j] = c /\ ~Gone(c)
        BY <3>3
      <4> QED BY <2>1, <2>3, <4>1, <4>2
    <3> QED BY <3>5, <3>6
  <2> QED BY <2>2, <2>3
<1> HIDE DEF Part
<1>5. ASSUME T # {} PROVE FALSE
  <2>1. PICK m \in T : \A k \in T : m <= k
    <3>1. T \in SUBSET Nat
      BY <1>1
    <3> HIDE DEF T
    <3> QED BY <1>5, <3>1, LeastNumber
  <2>2. m \in 0 .. n /\ ~Part(m)
    OBVIOUS
  <2>3. m - 1 \in 0 .. n /\ ~(m <= m - 1) /\ m \in 1 .. n
    <3>1. m # 0
      BY <1>3, <2>2
    <3> QED BY <1>1, <2>2, <3>1
  <2>4. Part(m - 1)
    BY <2>1, <2>3
  <2> QED BY <1>4, <2>2, <2>3, <2>4
<1>6. n \in 0 .. n /\ Part(n)
  <2>1. n \in 0 .. n
    BY <1>1
  <2>2. n \notin T
    BY <1>5
  <2> QED BY <2>1, <2>2
<1>7. \A c : Holds(tab, c) <=> \E j \in 1 .. n : tab[j] = c
  BY <1>1 DEF Holds
<1> QED BY <1>2, <1>6, <1>7 DEF Part, Gone
=============================================================================
