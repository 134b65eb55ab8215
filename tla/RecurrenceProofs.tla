-------------------------- MODULE RecurrenceProofs --------------------------
(***************************************************************************)
(* What Recurrence says of recurring alarms holds in every calendar, for   *)
(* every mask: an alarm rings when one of its recurrences permits it,      *)
(* passes over none of the times that it should ring at, and goes on.      *)
(*                                                                         *)
(* The way there: division, the clock field by field, the order of times,  *)
(* the calendar and the days that are tried, the masks together, special   *)
(* periods, and the steps of the server.                                   *)
(***************************************************************************)
EXTENDS Recurrence, FiniteSetTheorems, WellFoundedInduction, TLAPS

-----------------------------------------------------------------------------
(* A time is whole units and a rest, which are unique.                     *)
LEMMA DivMod ==
  ASSUME NEW n \in Nat \ {0}, NEW x \in Int
  PROVE  /\ x = n * (x \div n) + (x % n) /\ x % n \in 0 .. n - 1 /\ x \div n \in Int
OBVIOUS

LEMMA Unique ==
  ASSUME NEW n \in Nat \ {0}, NEW q \in Int, NEW r \in 0 .. n - 1
  PROVE  (n * q + r) \div n = q /\ (n * q + r) % n = r
OBVIOUS

(* Units that are added change the number of units and not the rest.       *)
LEMMA Plus ==
  ASSUME NEW n \in Nat \ {0}, NEW x \in Int, NEW k \in Int
  PROVE  (x + k * n) % n = x % n /\ (x + k * n) \div n = x \div n + k
<1> DEFINE q == x \div n
           r == x % n
<1>1. x = n * q + r /\ r \in 0 .. n - 1 /\ q \in Int
  BY DivMod
<1> HIDE DEF q, r
<1>2. x + k * n = n * (q + k) + r
  BY <1>1
<1>3. q + k \in Int
  BY <1>1
<1>4. (x + k * n) % n = r /\ (x + k * n) \div n = q + k
  BY <1>1, <1>2, <1>3, Unique
<1> QED BY <1>4 DEF q, r

(* Units of units: a field of a time in its hour or day is that of the     *)
(* number of minutes or hours.                                             *)
LEMMA Nested ==
  ASSUME NEW n \in Nat \ {0}, NEW k \in Nat \ {0}, NEW x \in Int
  PROVE  /\ x \div (n * k) = (x \div n) \div k
         /\ (x % (n * k)) \div n = (x \div n) % k
         /\ (x % (n * k)) % n = x % n
<1> DEFINE q == x \div n
           r == x % n
           a == q \div k
           b == q % k
<1>1. x = n * q + r /\ r \in 0 .. n - 1 /\ q \in Int
  BY DivMod
<1> HIDE DEF q, r
<1>2. q = k * a + b /\ b \in 0 .. k - 1 /\ a \in Int
  BY <1>1, DivMod
<1> HIDE DEF a, b
<1> DEFINE c == n * b + r
           m == n * k
<1>3. c \in Int /\ 0 <= c
  <2>1. n * b \in Nat
    BY <1>2
  <2> QED BY <1>1, <2>1
<1>4. c <= m - 1
  <2>1. n * b <= n * (k - 1)
    BY <1>2
  <2>2. n * (k - 1) = n * k - n
    OBVIOUS
  <2> QED BY <1>1, <1>2, <2>1, <2>2
<1>5. x = m * a + c
  <2>1. n * (k * a + b) = (n * k) * a + n * b
    BY <1>2
  <2> QED BY <1>1, <1>2, <2>1
<1>6. m \in Nat \ {0}
  OBVIOUS
<1>7. c \div n = b /\ c % n = r
  BY <1>1, <1>2, Unique
<1> HIDE DEF c, m
<1>8. x \div m = a /\ x % m = c
  <2>1. c \in 0 .. m - 1
    BY <1>3, <1>4, <1>6
  <2> QED BY <1>2, <1>5, <1>6, <2>1, Unique
<1> QED BY <1>7, <1>8 DEF m, a, b, q, r

(* Division gives numbers and keeps their order.                           *)
LEMMA DivNat ==
  ASSUME NEW n \in Nat \ {0}, NEW x \in Nat
  PROVE  x \div n \in Nat /\ x \div n <= x
OBVIOUS

LEMMA DivMono ==
  ASSUME NEW n \in Nat \ {0}, NEW x \in Int, NEW y \in Int, x <= y
  PROVE  x \div n <= y \div n
OBVIOUS

(* The least of some times.                                                *)
LEMMA LeastTime ==
  ASSUME NEW T \in SUBSET Nat, T # {}
  PROVE  \E x \in T : \A y \in T : x <= y
<1>1. PICK x \in T : \A y \in T : <<y, x>> \notin OpToRel(<, Nat)
  BY WFMin, NatLessThanWellFounded
<1>2. \A y \in T : ~(y < x)
  BY <1>1 DEF OpToRel
<1> QED BY <1>2

LEMMA MinValue ==
  ASSUME NEW T \in SUBSET Nat, T # {}
  PROVE  Min(T) \in T /\ \A y \in T : Min(T) <= y
<1>1. \E x \in T : \A y \in T : x <= y
  BY LeastTime
<1> QED BY <1>1, Zenon DEF Min

-----------------------------------------------------------------------------
(* The clock.                                                              *)
HourMinutes == Hour \div Minute
DayHours    == Day \div Hour

(* An hour has whole minutes, a day whole hours.                           *)
LEMMA Units ==
  /\ Minute \in Nat \ {0} /\ Hour \in Nat \ {0} /\ Day \in Nat \ {0}
  /\ Week \in Nat \ {0} /\ Year \in Nat \ {0}
  /\ HourMinutes \in Nat \ {0} /\ Hour = Minute * HourMinutes
  /\ DayHours \in Nat \ {0} /\ Day = Hour * DayHours
<1>1. ASSUME NEW a \in Nat \ {0}, NEW b \in Nat \ {0}, a % b = 0
      PROVE  a \div b \in Nat \ {0} /\ a = b * (a \div b)
  <2> DEFINE q == a \div b
  <2>1. a = b * q + 0 /\ q \in Nat
    BY <1>1, DivMod, DivNat
  <2> HIDE DEF q
  <2>2. q # 0 /\ a = b * q
    BY <2>1
  <2> QED BY <2>1, <2>2 DEF q
<1>2. /\ Minute \in Nat \ {0} /\ Hour \in Nat \ {0} /\ Day \in Nat \ {0}
      /\ Week \in Nat \ {0} /\ Year \in Nat \ {0} /\ Hour % Minute = 0 /\ Day % Hour = 0
  BY CalendarUnits
<1> QED BY <1>1, <1>2 DEF HourMinutes, DayHours

(* Minutes and hours, counted from the beginning of time.                  *)
LEMMA ClockValues ==
  ASSUME NEW t \in Nat
  PROVE  /\ tm_min(t) = (t \div Minute) % HourMinutes
         /\ tm_hour(t) = (t \div Hour) % DayHours
         /\ t \div Hour = (t \div Minute) \div HourMinutes
         /\ t \div Day = (t \div Hour) \div DayHours
         /\ (t % Day) % Hour = t % Hour /\ (t % Hour) % Minute = t % Minute
<1>1. t \in Int
  OBVIOUS
<1> HIDE DEF HourMinutes, DayHours
<1>2. /\ t \div Hour = (t \div Minute) \div HourMinutes
      /\ (t % Hour) \div Minute = (t \div Minute) % HourMinutes
      /\ (t % Hour) % Minute = t % Minute
  <2>1. Minute \in Nat \ {0} /\ HourMinutes \in Nat \ {0} /\ Hour = Minute * HourMinutes
    BY Units
  <2> QED BY <1>1, <2>1, Nested
<1>3. /\ t \div Day = (t \div Hour) \div DayHours
      /\ (t % Day) \div Hour = (t \div Hour) % DayHours
      /\ (t % Day) % Hour = t % Hour
  <2>1. Hour \in Nat \ {0} /\ DayHours \in Nat \ {0} /\ Day = Hour * DayHours
    BY Units
  <2> QED BY <1>1, <2>1, Nested
<1> QED BY <1>2, <1>3 DEF tm_min, tm_hour

(* What a time is when a field has been handled.                           *)
Advanced(r, s, mask, unit, n) ==
  LET from == s.t + s.inc * unit
  IN \E k \in 0 .. n - 1 :
       /\ r.t = from + k * unit /\ r.t \in Nat /\ r.inc = 0 /\ r.res = r.t
       /\ r.t \div unit = (from \div unit) + k
       /\ r.t % unit = s.t % unit
       /\ (r.t \div unit) % n \in mask
       /\ \A j \in 0 .. k - 1 : ((from \div unit) + j) % n \notin mask

(* A field that is handled is moved to the first unit whose place in the   *)
(* cycle is in the mask.                                                   *)
LEMMA AdvanceValue ==
  ASSUME NEW unit \in Nat \ {0}, NEW n \in Nat \ {0}, NEW cycle, cycle = unit * n,
         NEW s, s.t \in Nat, s.inc \in {0, 1},
         NEW mask, mask \subseteq 0 .. n - 1, mask # {}
  PROVE  Advanced(Advance(s, mask, unit, cycle), s, mask, unit, n)
<1> DEFINE from == s.t + s.inc * unit
           f == from \div unit
           at(k) == from + k * unit
           S == {k \in 0 .. (cycle \div unit) - 1 : (at(k) % cycle) \div unit \in mask}
           m == Min(S)
<1>1. from \in Nat /\ f \in Nat /\ from % unit = s.t % unit
  <2>1. s.inc \in Int /\ s.t \in Int /\ s.inc * unit \in Nat
    OBVIOUS
  <2>2. from \in Nat
    BY <2>1
  <2>3. from % unit = s.t % unit
    BY <2>1, Plus
  <2> HIDE DEF from
  <2> QED BY <2>2, <2>3, DivNat
<1>2. cycle \div unit = n
  <2>1. cycle = unit * n + 0 /\ 0 \in 0 .. unit - 1
    OBVIOUS
  <2> QED BY <2>1, Unique
<1> HIDE DEF from
<1>3. ASSUME NEW k \in Nat
      PROVE  /\ at(k) \in Nat /\ at(k) \div unit = f + k /\ at(k) % unit = s.t % unit
             /\ (at(k) % cycle) \div unit = (f + k) % n
  <2>1. at(k) \in Nat
    <3>1. k * unit \in Nat
      OBVIOUS
    <3> QED BY <1>1, <3>1
  <2>2. at(k) \div unit = f + k /\ at(k) % unit = s.t % unit
    BY <1>1, Plus
  <2> HIDE DEF at, f
  <2>3. (at(k) % (unit * n)) \div unit = (at(k) \div unit) % n
    BY <2>1, Nested
  <2> QED BY <2>1, <2>2, <2>3
<1> HIDE DEF f, at
<1>4. S = {k \in 0 .. n - 1 : (f + k) % n \in mask}
  BY <1>2, <1>3
<1>5. S # {}
  <2>1. PICK v \in mask : v \in 0 .. n - 1
    OBVIOUS
  <2> DEFINE d == v - f
             k == d % n
             q == d \div n
  <2>2. d \in Int /\ d = v - f
    BY <1>1, <2>1
  <2> HIDE DEF d
  <2>5. d = n * q + k /\ k \in 0 .. n - 1 /\ q \in Int
    BY <2>2, DivMod
  <2> HIDE DEF k, q
  <2>3. f + k = n * (-q) + v
    BY <1>1, <2>1, <2>2, <2>5
  <2>4. (f + k) % n = v
    <3>1. -q \in Int
      BY <2>5
    <3> QED BY <2>1, <2>3, <3>1, Unique
  <2> QED BY <1>4, <2>1, <2>5, <2>4
<1>6. m \in S /\ \A k \in S : m <= k
  <2>1. S \in SUBSET Nat
    BY <1>4
  <2> HIDE DEF S
  <2> QED BY <1>5, <2>1, MinValue
<1> HIDE DEF m
<1>7. m \in 0 .. n - 1 /\ (f + m) % n \in mask
  BY <1>4, <1>6
<1>8. ASSUME NEW j \in 0 .. m - 1 PROVE (f + j) % n \notin mask
  <2>1. j \in 0 .. n - 1 /\ ~(m <= j)
    BY <1>7
  <2> QED BY <1>4, <1>6, <2>1
<1>9. Advance(s, mask, unit, cycle) = [t |-> at(m), inc |-> 0, res |-> at(m)]
  BY DEF Advance, m, at, from
<1> DEFINE r == Advance(s, mask, unit, cycle)
<1>10. r.t = at(m) /\ r.inc = 0 /\ r.res = r.t
  BY <1>9
<1> HIDE DEF r
<1>11. r.t = from + m * unit
  BY <1>10 DEF at
<1>12. /\ r.t \in Nat /\ r.t \div unit = f + m /\ r.t % unit = s.t % unit
       /\ (r.t \div unit) % n \in mask
  BY <1>3, <1>7, <1>10
<1>13. \E k \in 0 .. n - 1 :
         /\ r.t = from + k * unit /\ r.t \in Nat /\ r.inc = 0 /\ r.res = r.t
         /\ r.t \div unit = f + k
         /\ r.t % unit = s.t % unit
         /\ (r.t \div unit) % n \in mask
         /\ \A j \in 0 .. k - 1 : (f + j) % n \notin mask
  BY <1>7, <1>8, <1>10, <1>11, <1>12, Zenon
<1> QED BY <1>13, Zenon DEF Advanced, r, f, from

-----------------------------------------------------------------------------
(* The fields that can be handled one by one.                              *)
IsTime(s) == s.t \in Nat /\ s.t % Minute = 0 /\ s.inc \in {0, 1} /\ s.res \in {-1, s.t}

Floor(x) == x - (x % Minute)

(* Whole minutes.                                                          *)
LEMMA WholeMinutes ==
  ASSUME NEW t \in Nat, t % Minute = 0
  PROVE  /\ t = Minute * (t \div Minute) /\ t \div Minute \in Nat
         /\ \A u \in Nat : u % Minute = 0 => (u <= t <=> u \div Minute <= t \div Minute)
<1>1. ASSUME NEW u \in Nat, u % Minute = 0
      PROVE  u = Minute * (u \div Minute) /\ u \div Minute \in Nat
  <2> DEFINE q == u \div Minute
  <2>1. u = Minute * q + 0 /\ q \in Nat
    BY <1>1, Units, DivMod, DivNat
  <2> HIDE DEF q
  <2>2. u = Minute * q
    BY <2>1, Units
  <2> QED BY <2>1, <2>2 DEF q
<1>2. ASSUME NEW u \in Nat, u % Minute = 0
      PROVE  u <= t <=> u \div Minute <= t \div Minute
  <2> DEFINE a == u \div Minute
             b == t \div Minute
  <2>1. u = Minute * a /\ a \in Nat /\ t = Minute * b /\ b \in Nat
    BY <1>1, <1>2
  <2> HIDE DEF a, b
  <2>2. ASSUME a <= b PROVE Minute * a <= Minute * b
    BY <2>1, <2>2, Units
  <2>3. ASSUME b < a PROVE Minute * b < Minute * a
    BY <2>1, <2>3, Units
  <2>4. u <= t <=> a <= b
    BY <2>1, <2>2, <2>3
  <2> QED BY <2>4 DEF a, b
<1> QED BY <1>1, <1>2

(* The first whole minute after a time.                                    *)
LEMMA NextMinute ==
  ASSUME NEW x \in Int
  PROVE  /\ Floor(x) \in Int /\ Floor(x) <= x /\ x < Floor(x) + Minute
         /\ Floor(x) % Minute = 0 /\ Floor(x) \div Minute = x \div Minute
         /\ \A u \in Nat : u % Minute = 0 /\ u > x => u >= Floor(x) + Minute
<1> DEFINE q == x \div Minute
           r == x % Minute
           f == Floor(x)
<1>1. x = Minute * q + r /\ r \in 0 .. Minute - 1 /\ q \in Int
  BY Units, DivMod
<1>2. f = x - r
  BY DEF Floor
<1> HIDE DEF q, r, f
<1>3. f = Minute * q + 0 /\ 0 \in 0 .. Minute - 1 /\ f \in Int /\ f <= x /\ x < f + Minute
  BY <1>1, <1>2, Units
<1>4. f % Minute = 0 /\ f \div Minute = q
  BY <1>1, <1>3, Units, Unique
<1>5. ASSUME NEW u \in Nat, u % Minute = 0, u > x PROVE u >= f + Minute
  <2> DEFINE a == u \div Minute
  <2>1. u = Minute * a /\ a \in Nat
    BY <1>5, WholeMinutes
  <2> HIDE DEF a
  <2>2. Minute * a > Minute * q
    BY <1>1, <1>3, <1>5, <2>1, Units
  <2>3. a >= q + 1
    <3>1. ASSUME a <= q PROVE Minute * a <= Minute * q
      BY <1>1, <2>1, <3>1, Units
    <3>2. Minute * a \in Int /\ Minute * q \in Int
      BY <1>1, <2>1, Units
    <3> QED BY <1>1, <2>1, <2>2, <3>1, <3>2
  <2>4. Minute * a >= Minute * (q + 1)
    BY <1>1, <2>1, <2>3, Units
  <2>5. Minute * (q + 1) = Minute * q + Minute
    BY <1>1, Units
  <2> QED BY <1>1, <1>3, <2>1, <2>4, <2>5, Units
<1> QED BY <1>3, <1>4, <1>5 DEF f, q

(* Whichever way the seconds are handled, minutes are looked for from the  *)
(* first whole minute that is not before the time, or is after it.         *)
LEMMA SecondsValue ==
  ASSUME NEW t \in Nat, NEW inc \in {0, 1}
  PROVE  LET s == HandleSeconds(t, inc)
         IN  /\ IsTime(s) /\ t <= s.t /\ s.inc <= inc
             /\ \/ s.t = t /\ s.inc = inc /\ s.res = -1
                \/ s.t > t /\ s.res = s.t /\ s.inc = 0
             /\ s.t + s.inc * Minute = Floor(t + inc - 1) + Minute
<1> DEFINE s == HandleSeconds(t, inc)
           r == t % Minute
           q == t \div Minute
           x == t + inc - 1
<1>1. t = Minute * q + r /\ r \in 0 .. Minute - 1 /\ q \in Nat /\ Minute \in Nat \ {0}
  <2>1. t \in Int /\ Minute \in Nat \ {0}
    BY Units
  <2>2. t = Minute * q + r /\ r \in 0 .. Minute - 1
    BY <2>1, DivMod
  <2>3. q \in Nat
    BY <2>1, DivNat
  <2> QED BY <2>1, <2>2, <2>3
<1>2. s = IF r = 0 THEN [t |-> t, inc |-> inc, res |-> -1]
          ELSE [t |-> t + (Minute - r), inc |-> 0, res |-> t + (Minute - r)]
  BY DEF HandleSeconds
<1>3. r = 0 <=> t % Minute = 0
  OBVIOUS
<1> HIDE DEF s, r, q
<1>4. CASE r = 0
  <2>1. s.t = t /\ s.inc = inc /\ s.res = -1
    BY <1>2, <1>4
  <2>2. IsTime(s)
    BY <1>3, <1>4, <2>1 DEF IsTime
  <2>3. s.t + s.inc * Minute = Floor(x) + Minute
    <3>1. CASE inc = 1
      <4>1. x = t /\ s.inc * Minute = Minute
        BY <1>1, <2>1, <3>1
      <4>2. Floor(x) = t - r
        BY <4>1 DEF Floor, r
      <4> QED BY <1>1, <1>4, <2>1, <4>1, <4>2
    <3>2. CASE inc = 0
      <4>1. x = Minute * (q - 1) + (Minute - 1) /\ q - 1 \in Int /\ Minute - 1 \in 0 .. Minute - 1
        <5>1. Minute * (q - 1) = Minute * q - Minute
          BY <1>1
        <5>2. Minute * q \in Int
          BY <1>1
        <5> QED BY <1>1, <1>4, <3>2, <5>1, <5>2
      <4>2. x % Minute = Minute - 1
        <5> HIDE DEF x
        <5> QED BY <1>1, <4>1, Unique
      <4>3. Floor(x) = x - (Minute - 1)
        BY <4>2 DEF Floor
      <4>4. s.inc * Minute = 0
        BY <1>1, <2>1, <3>2
      <4> QED BY <1>1, <2>1, <3>2, <4>3, <4>4
    <3> QED BY <3>1, <3>2
  <2> QED BY <2>1, <2>2, <2>3 DEF s
<1>5. CASE r # 0
  <2>1. s.t = t + (Minute - r) /\ s.inc = 0 /\ s.res = s.t
    BY <1>2, <1>5
  <2>2. s.t > t /\ s.t \in Nat
    BY <1>1, <2>1
  <2>3. s.t = Minute * (q + 1) + 0 /\ q + 1 \in Int /\ 0 \in 0 .. Minute - 1
    <3>1. Minute * (q + 1) = Minute * q + Minute /\ Minute * q \in Int
      BY <1>1
    <3> QED BY <1>1, <2>1, <3>1
  <2>4. s.t % Minute = 0
    BY <1>1, <2>3, Unique
  <2>5. IsTime(s)
    BY <2>1, <2>2, <2>4 DEF IsTime
  <2>6. s.t + s.inc * Minute = Floor(x) + Minute
    <3>1. s.inc * Minute = 0
      BY <1>1, <2>1
    <3>2. CASE inc = 1
      <4>1. x = t
        BY <3>2
      <4>2. Floor(x) = t - r
        BY <4>1 DEF Floor, r
      <4> QED BY <1>1, <2>1, <3>1, <4>2
    <3>3. CASE inc = 0
      <4>1. x = Minute * q + (r - 1) /\ q \in Int /\ r - 1 \in 0 .. Minute - 1
        <5>1. Minute * q \in Int
          BY <1>1
        <5> QED BY <1>1, <1>5, <3>3, <5>1
      <4>2. x % Minute = r - 1
        <5> HIDE DEF x
        <5> QED BY <1>1, <4>1, Unique
      <4>3. Floor(x) = x - (r - 1)
        BY <4>2 DEF Floor
      <4> QED BY <1>1, <2>1, <3>1, <3>3, <4>3
    <3> QED BY <3>2, <3>3
  <2> QED BY <2>1, <2>2, <2>5, <2>6 DEF s
<1> QED BY <1>4, <1>5

(* Minutes move to the first whole minute that is in the mask.             *)
LEMMA MinutesValue ==
  ASSUME NEW rec, IsMask(rec), rec.min # {}, NEW s, IsTime(s)
  PROVE  LET r    == HandleMinutes(rec, s)
             from == s.t + s.inc * Minute
         IN  /\ IsTime(r) /\ r.inc = 0 /\ r.res = r.t /\ from <= r.t
             /\ tm_min(r.t) \in rec.min
             /\ r.t \div Minute <= (from \div Minute) + HourMinutes - 1
             /\ \A u \in Nat : u % Minute = 0 /\ from <= u /\ u < r.t => tm_min(u) \notin rec.min
<1> DEFINE from == s.t + s.inc * Minute
           f == from \div Minute
           r == HandleMinutes(rec, s)
<1>1. /\ Minute \in Nat \ {0} /\ HourMinutes \in Nat \ {0} /\ Hour = Minute * HourMinutes
      /\ s.t \in Nat /\ s.inc \in {0, 1} /\ rec.min \subseteq 0 .. HourMinutes - 1
  BY Units DEF IsTime, IsMask, HourMinutes
<1>2. PICK k \in 0 .. HourMinutes - 1 :
        /\ r.t = from + k * Minute /\ r.t \in Nat /\ r.inc = 0 /\ r.res = r.t
        /\ r.t \div Minute = f + k
        /\ r.t % Minute = s.t % Minute
        /\ (r.t \div Minute) % HourMinutes \in rec.min
        /\ \A j \in 0 .. k - 1 : (f + j) % HourMinutes \notin rec.min
  <2> HIDE DEF HourMinutes
  <2>1. Advanced(Advance(s, rec.min, Minute, Hour), s, rec.min, Minute, HourMinutes)
    BY <1>1, AdvanceValue
  <2> QED BY <2>1, Zenon DEF HandleMinutes, Advanced
<1>3. s.t % Minute = 0 /\ from \in Nat
  <2>1. s.inc * Minute \in Nat
    BY <1>1
  <2> QED BY <1>1, <2>1 DEF IsTime
<1> HIDE DEF r
<1>4. from % Minute = 0 /\ f \in Nat
  <2>1. from % Minute = s.t % Minute
    <3>1. s.t \in Int /\ s.inc \in Int
      BY <1>1
    <3> QED BY <1>1, <3>1, Plus
  <2> HIDE DEF from
  <2> QED BY <1>1, <1>3, <2>1, DivNat
<1> HIDE DEF from, f, HourMinutes
<1>5. IsTime(r)
  BY <1>2, <1>3 DEF IsTime
<1>6. tm_min(r.t) \in rec.min
  BY <1>2, ClockValues
<1>7. from <= r.t
  <2>1. k * Minute \in Nat
    BY <1>1
  <2> QED BY <1>2, <1>3, <2>1
<1>8. r.t \div Minute <= f + HourMinutes - 1
  BY <1>1, <1>2, <1>4
<1>9. ASSUME NEW u \in Nat, u % Minute = 0, from <= u, u < r.t
      PROVE  tm_min(u) \notin rec.min
  <2> DEFINE a == u \div Minute
  <2>1. f <= a /\ a \in Nat
    BY <1>3, <1>4, <1>9, WholeMinutes DEF f
  <2>2. ~(f + k <= a)
    BY <1>2, <1>3, <1>9, WholeMinutes
  <2>3. tm_min(u) = a % HourMinutes
    BY ClockValues
  <2> HIDE DEF a
  <2> DEFINE j == a - f
  <2>4. j \in 0 .. k - 1 /\ f + j = a
    BY <1>4, <2>1, <2>2
  <2> HIDE DEF j
  <2> QED BY <1>2, <2>3, <2>4
<1> QED BY <1>2, <1>5, <1>6, <1>7, <1>8, <1>9 DEF r, from, f

-----------------------------------------------------------------------------
(* Hours move to the first hour that is in the mask and keep the minute.   *)
LEMMA HoursValue ==
  ASSUME NEW rec, IsMask(rec), rec.hour # {}, NEW s, IsTime(s)
  PROVE  LET r == HandleHours(rec, s)
             h == (s.t \div Hour) + s.inc
         IN  /\ IsTime(r) /\ r.inc = 0 /\ r.res = r.t /\ s.t <= r.t
             /\ tm_hour(r.t) \in rec.hour
             /\ r.t % Hour = s.t % Hour /\ tm_min(r.t) = tm_min(s.t)
             /\ h \in Nat /\ h <= r.t \div Hour
             /\ \A u \in Nat : h <= u \div Hour /\ u \div Hour < r.t \div Hour =>
                               tm_hour(u) \notin rec.hour
<1> DEFINE from == s.t + s.inc * Hour
           f == from \div Hour
           r == HandleHours(rec, s)
<1>1. /\ Hour \in Nat \ {0} /\ DayHours \in Nat \ {0} /\ Day = Hour * DayHours
      /\ s.t \in Nat /\ s.inc \in {0, 1} /\ rec.hour \subseteq 0 .. DayHours - 1
  BY Units DEF IsTime, IsMask, DayHours
<1>2. PICK k \in 0 .. DayHours - 1 :
        /\ r.t = from + k * Hour /\ r.t \in Nat /\ r.inc = 0 /\ r.res = r.t
        /\ r.t \div Hour = f + k
        /\ r.t % Hour = s.t % Hour
        /\ (r.t \div Hour) % DayHours \in rec.hour
        /\ \A j \in 0 .. k - 1 : (f + j) % DayHours \notin rec.hour
  <2> HIDE DEF DayHours
  <2>1. Advanced(Advance(s, rec.hour, Hour, Day), s, rec.hour, Hour, DayHours)
    BY <1>1, AdvanceValue
  <2> QED BY <2>1, Zenon DEF HandleHours, Advanced
<1>3. f = (s.t \div Hour) + s.inc /\ f \in Nat
  <2>1. s.t \in Int /\ s.inc \in Int /\ s.inc \in Nat
    BY <1>1
  <2>2. f = (s.t \div Hour) + s.inc
    BY <1>1, <2>1, Plus
  <2>3. s.t \div Hour \in Nat
    BY <1>1, DivNat
  <2> HIDE DEF f
  <2> QED BY <2>1, <2>2, <2>3
<1>4. s.t <= r.t
  <2>1. s.inc * Hour \in Nat /\ k * Hour \in Nat
    BY <1>1
  <2> HIDE DEF r
  <2> QED BY <1>1, <1>2, <2>1
<1> HIDE DEF r, from, f, DayHours
<1>5. IsTime(r) /\ tm_min(r.t) = tm_min(s.t)
  <2>1. /\ (r.t % Hour) % Minute = r.t % Minute
        /\ (s.t % Hour) % Minute = s.t % Minute
    BY <1>1, <1>2, ClockValues
  <2>2. r.t % Minute = 0
    BY <1>2, <2>1 DEF IsTime
  <2>3. tm_min(r.t) = tm_min(s.t)
    BY <1>2 DEF tm_min
  <2> QED BY <1>2, <2>2, <2>3 DEF IsTime
<1>6. tm_hour(r.t) \in rec.hour
  BY <1>2, ClockValues
<1>7. ASSUME NEW u \in Nat, f <= u \div Hour, u \div Hour < r.t \div Hour
      PROVE  tm_hour(u) \notin rec.hour
  <2> DEFINE a == u \div Hour
             j == a - f
  <2>1. a \in Nat /\ f <= a /\ a < f + k
    BY <1>1, <1>2, <1>7, DivNat
  <2>2. tm_hour(u) = a % DayHours
    BY ClockValues
  <2> HIDE DEF a
  <2>3. j \in 0 .. k - 1 /\ f + j = a
    BY <1>1, <1>3, <2>1
  <2> HIDE DEF j
  <2> QED BY <1>2, <2>2, <2>3
<1>8. f <= r.t \div Hour
  BY <1>2, <1>3
<1> QED BY <1>2, <1>3, <1>4, <1>5, <1>6, <1>7, <1>8 DEF r

-----------------------------------------------------------------------------
(* The time of day.                                                        *)
Clock(rec, t, inc) == HandleHours(rec, HandleMinutes(rec, HandleSeconds(t, inc)))

(* What a recurrence asks of a time of day.                                *)
Suits(rec, u) ==
  /\ u % Minute = 0
  /\ rec.min = {} \/ tm_min(u) \in rec.min
  /\ rec.hour = {} \/ tm_hour(u) \in rec.hour

(* The three fields of the clock together give a time that suits and that  *)
(* is not earlier.                                                         *)
LEMMA ClockSuits ==
  ASSUME NEW rec, IsMask(rec), NEW t \in Nat, NEW inc \in {0, 1}
  PROVE  LET s == Clock(rec, t, inc)
         IN  /\ IsTime(s) /\ t <= s.t /\ s.inc <= inc /\ Suits(rec, s.t)
             /\ s.inc = 1 => s.t = t
             /\ s.res = -1 => s.t = t /\ rec.min = {} /\ rec.hour = {}
             /\ inc = 1 => s.t > t \/ (s.inc = 1 /\ s.res = -1)
<1> DEFINE a == HandleSeconds(t, inc)
           b == HandleMinutes(rec, a)
           s == HandleHours(rec, b)
<1>1. /\ IsTime(a) /\ t <= a.t /\ a.inc <= inc
      /\ \/ a.t = t /\ a.inc = inc /\ a.res = -1
         \/ a.t > t /\ a.res = a.t /\ a.inc = 0
  BY SecondsValue
<1> HIDE DEF a
<1>2. CASE rec.min = {}
  <2>1. b = a
    BY <1>2 DEF HandleMinutes, Advance
  <2> HIDE DEF b
  <2>2. CASE rec.hour = {}
    <3>1. s = b
      BY <2>2 DEF HandleHours, Advance
    <3> HIDE DEF s
    <3> QED BY <1>1, <1>2, <2>1, <2>2, <3>1 DEF IsTime, Suits, Clock, s, b, a
  <2>3. CASE rec.hour # {}
    <3>1. /\ IsTime(s) /\ s.inc = 0 /\ s.res = s.t /\ b.t <= s.t /\ tm_hour(s.t) \in rec.hour
          /\ (b.t \div Hour) + b.inc <= s.t \div Hour
      BY <1>1, <2>1, <2>3, HoursValue
    <3>2. b.inc = 1 => b.t # s.t
      <4>1. b.t \div Hour \in Nat
        BY <1>1, <2>1, Units, DivNat DEF IsTime
      <4> HIDE DEF s
      <4> QED BY <3>1, <4>1
    <3> HIDE DEF s
    <3> QED BY <1>1, <1>2, <2>1, <2>3, <3>1, <3>2 DEF IsTime, Suits, Clock, s, b, a
  <2> QED BY <2>2, <2>3
<1>3. CASE rec.min # {}
  <2>1. /\ IsTime(b) /\ b.inc = 0 /\ b.res = b.t /\ a.t + a.inc * Minute <= b.t
        /\ tm_min(b.t) \in rec.min
    BY <1>1, <1>3, MinutesValue
  <2>2. a.t <= b.t /\ (a.inc = 1 => a.t < b.t)
    <3>1. a.inc * Minute \in Nat /\ (a.inc = 1 => a.inc * Minute > 0)
      BY <1>1, Units DEF IsTime
    <3> HIDE DEF b
    <3> QED BY <1>1, <2>1, <3>1 DEF IsTime
  <2> HIDE DEF b
  <2>3. CASE rec.hour = {}
    <3>1. s = b
      BY <2>3 DEF HandleHours, Advance
    <3> HIDE DEF s
    <3> QED BY <1>1, <1>3, <2>1, <2>2, <2>3, <3>1 DEF IsTime, Suits, Clock, s, b, a
  <2>4. CASE rec.hour # {}
    <3>1. /\ IsTime(s) /\ s.inc = 0 /\ s.res = s.t /\ b.t <= s.t /\ tm_hour(s.t) \in rec.hour
          /\ tm_min(s.t) = tm_min(b.t)
      BY <2>1, <2>4, HoursValue
    <3> HIDE DEF s
    <3> QED BY <1>1, <1>3, <2>1, <2>2, <2>4, <3>1 DEF IsTime, Suits, Clock, s, b, a
  <2> QED BY <2>3, <2>4
<1> QED BY <1>2, <1>3

-----------------------------------------------------------------------------
(* The order of times by day, hour and minute: a time by its days, hours   *)
(* and minutes.                                                            *)
LEMMA TimeParts ==
  ASSUME NEW t \in Nat
  PROVE  /\ t = Day * (t \div Day) + (t % Day) /\ t % Day \in 0 .. Day - 1 /\ t \div Day \in Nat
         /\ t % Day = Hour * tm_hour(t) + (t % Hour) /\ tm_hour(t) \in 0 .. DayHours - 1
         /\ t % Hour \in 0 .. Hour - 1 /\ tm_min(t) \in 0 .. HourMinutes - 1
         /\ t % Hour = Minute * tm_min(t) + (t % Minute)
         /\ t \div Hour \in Nat /\ t \div Hour = DayHours * (t \div Day) + tm_hour(t)
         /\ t \div Minute \in Nat /\ t \div Minute = HourMinutes * (t \div Hour) + tm_min(t)
<1>1. \A n \in Nat \ {0}, x \in Nat :
        x = n * (x \div n) + (x % n) /\ x % n \in 0 .. n - 1 /\ x \div n \in Nat
  <2> SUFFICES ASSUME NEW n \in Nat \ {0}, NEW x \in Nat
               PROVE  /\ x = n * (x \div n) + (x % n) /\ x % n \in 0 .. n - 1
                      /\ x \div n \in Nat
    OBVIOUS
  <2>1. x \in Int
    OBVIOUS
  <2> QED BY <2>1, DivMod, DivNat
<1>2. /\ t = Day * (t \div Day) + (t % Day) /\ t % Day \in 0 .. Day - 1
      /\ t \div Day \in Nat /\ t % Hour \in 0 .. Hour - 1
      /\ t \div Hour \in Nat /\ t \div Minute \in Nat
  <2>1. Day \in Nat \ {0} /\ Hour \in Nat \ {0} /\ Minute \in Nat \ {0}
    BY Units
  <2>2. t = Day * (t \div Day) + (t % Day) /\ t % Day \in 0 .. Day - 1 /\ t \div Day \in Nat
    BY <1>1, <2>1, Zenon
  <2>3. t % Hour \in 0 .. Hour - 1 /\ t \div Hour \in Nat
    BY <1>1, <2>1, Zenon
  <2>4. t \div Minute \in Nat
    BY <1>1, <2>1, Zenon
  <2> QED BY <2>2, <2>3, <2>4
<1>3. t % Day \in Nat /\ t % Hour \in Nat
  BY <1>2, Units
<1>4. /\ t % Day = Hour * tm_hour(t) + (t % Hour)
      /\ t % Hour = Minute * tm_min(t) + (t % Minute)
  <2>1. t % Day = Hour * tm_hour(t) + ((t % Day) % Hour)
    BY <1>1, <1>3, Units, Zenon DEF tm_hour
  <2>2. t % Hour = Minute * tm_min(t) + ((t % Hour) % Minute)
    BY <1>1, <1>3, Units, Zenon DEF tm_min
  <2> QED BY <2>1, <2>2, ClockValues, Zenon
<1>5. /\ t \div Hour = DayHours * (t \div Day) + tm_hour(t) /\ tm_hour(t) \in 0 .. DayHours - 1
      /\ t \div Minute = HourMinutes * (t \div Hour) + tm_min(t)
      /\ tm_min(t) \in 0 .. HourMinutes - 1
  <2> DEFINE h == t \div Hour
             m == t \div Minute
  <2>1. h \in Nat /\ m \in Nat
    BY <1>2
  <2>2. h = DayHours * (h \div DayHours) + (h % DayHours) /\ h % DayHours \in 0 .. DayHours - 1
    BY <1>1, <2>1, Units, Zenon
  <2>3. m = HourMinutes * (m \div HourMinutes) + (m % HourMinutes)
        /\ m % HourMinutes \in 0 .. HourMinutes - 1
    BY <1>1, <2>1, Units, Zenon
  <2>4. /\ tm_min(t) = m % HourMinutes /\ tm_hour(t) = h % DayHours
        /\ h = m \div HourMinutes /\ t \div Day = h \div DayHours
    BY ClockValues
  <2> QED BY <2>2, <2>3, <2>4, Zenon
<1> QED BY <1>2, <1>4, <1>5, Zenon

(* A number made of a large and a small part.                              *)
LEMMA Parts ==
  ASSUME NEW n \in Nat \ {0}, NEW a \in Int, NEW b \in Int,
         NEW c \in 0 .. n - 1, NEW d \in 0 .. n - 1
  PROVE  /\ a < b => n * a + c < n * b + d
         /\ n * a + c \in Int
         /\ a = b => (n * a + c <= n * b + d <=> c <= d)
<1>1. n * a \in Int /\ n * b \in Int
  OBVIOUS
<1>2. ASSUME a < b PROVE n * a + c < n * b + d
  <2>1. n * (a + 1) <= n * b
    BY <1>2
  <2>2. n * (a + 1) = n * a + n
    OBVIOUS
  <2> QED BY <1>1, <2>1, <2>2
<1>3. ASSUME a = b PROVE n * a + c <= n * b + d <=> c <= d
  <2>1. n * a = n * b
    BY <1>3
  <2> QED BY <1>1, <2>1
<1> QED BY <1>1, <1>2, <1>3

LEMMA DayOrder ==
  ASSUME NEW u \in Nat, NEW v \in Nat
  PROVE  /\ u \div Day < v \div Day => u < v
         /\ u \div Day = v \div Day => (u <= v <=> u % Day <= v % Day)
<1> DEFINE a == u \div Day
           b == v \div Day
           c == u % Day
           d == v % Day
<1>1. /\ u = Day * a + c /\ c \in 0 .. Day - 1 /\ a \in Int /\ Day \in Nat \ {0}
      /\ v = Day * b + d /\ d \in 0 .. Day - 1 /\ b \in Int
  <2>1. u = Day * a + c /\ c \in 0 .. Day - 1 /\ a \in Nat
    BY TimeParts
  <2>2. v = Day * b + d /\ d \in 0 .. Day - 1 /\ b \in Nat
    BY TimeParts
  <2> HIDE DEF a, b, c, d
  <2> QED BY <2>1, <2>2, Units
<1> HIDE DEF a, b, c, d
<1>2. (a < b => u < v) /\ (a = b => (u <= v <=> c <= d))
  BY <1>1, Parts
<1> QED BY <1>2 DEF a, b, c, d

(* Whole minutes are ordered by their hours and the minutes in them.       *)
LEMMA HourOrder ==
  ASSUME NEW u \in Nat, u % Minute = 0, NEW v \in Nat, v % Minute = 0
  PROVE  /\ u \div Hour < v \div Hour => u < v
         /\ u \div Hour = v \div Hour => (u <= v <=> tm_min(u) <= tm_min(v))
<1> DEFINE a == u \div Hour
           b == v \div Hour
           c == tm_min(u)
           d == tm_min(v)
           i == u \div Minute
           j == v \div Minute
<1>1. /\ i = HourMinutes * a + c /\ c \in 0 .. HourMinutes - 1 /\ a \in Int
      /\ j = HourMinutes * b + d /\ d \in 0 .. HourMinutes - 1 /\ b \in Int
      /\ HourMinutes \in Nat \ {0} /\ i \in Nat /\ j \in Nat
  <2>1. /\ i = HourMinutes * a + c /\ c \in 0 .. HourMinutes - 1 /\ a \in Nat
        /\ i \in Nat
    BY TimeParts
  <2>2. /\ j = HourMinutes * b + d /\ d \in 0 .. HourMinutes - 1 /\ b \in Nat
        /\ j \in Nat
    BY TimeParts
  <2> HIDE DEF a, b, c, d, i, j, HourMinutes
  <2> QED BY <2>1, <2>2, Units
<1>2. (u <= v <=> i <= j) /\ (v <= u <=> j <= i)
  BY WholeMinutes
<1> HIDE DEF a, b, c, d, i, j, HourMinutes
<1>3. (a < b => i < j) /\ (a = b => (i <= j <=> c <= d))
  BY <1>1, Parts
<1>4. (a < b => u < v) /\ (a = b => (u <= v <=> c <= d))
  BY <1>1, <1>2, <1>3
<1> QED BY <1>4 DEF a, b, c, d

LEMMA ClockOrder ==
  ASSUME NEW u \in Nat, u % Minute = 0, NEW v \in Nat, v % Minute = 0,
         \/ tm_hour(u) < tm_hour(v)
         \/ tm_hour(u) = tm_hour(v) /\ tm_min(u) <= tm_min(v)
  PROVE  u % Day <= v % Day
<1> DEFINE a == tm_hour(u)
           b == tm_hour(v)
           c == u % Hour
           d == v % Hour
           p == tm_min(u)
           q == tm_min(v)
<1>1. /\ u % Day = Hour * a + c /\ c \in 0 .. Hour - 1 /\ a \in Int
      /\ v % Day = Hour * b + d /\ d \in 0 .. Hour - 1 /\ b \in Int
      /\ Hour \in Nat \ {0} /\ Minute \in Nat \ {0}
      /\ u % Day \in Int /\ v % Day \in Int
      /\ c = Minute * p /\ d = Minute * q /\ p \in Int /\ q \in Int
  <2>1. /\ u % Day = Hour * a + c /\ c \in 0 .. Hour - 1 /\ a \in Int
        /\ u % Day \in Int /\ c = Minute * p + (u % Minute) /\ p \in Int
    BY TimeParts
  <2>2. /\ v % Day = Hour * b + d /\ d \in 0 .. Hour - 1 /\ b \in Int
        /\ v % Day \in Int /\ d = Minute * q + (v % Minute) /\ q \in Int
    BY TimeParts
  <2> HIDE DEF a, b, c, d, p, q
  <2> QED BY <2>1, <2>2, Units
<1>2. a < b \/ (a = b /\ p <= q)
  OBVIOUS
<1> HIDE DEF a, b, c, d, p, q
<1>3. p <= q => c <= d
  BY <1>1
<1>4. CASE a < b
  <2>1. Hour * a + c < Hour * b + d
    BY <1>1, <1>4, Parts
  <2> QED BY <1>1, <2>1
<1>5. CASE a = b /\ p <= q
  <2>1. Hour * a + c <= Hour * b + d
    BY <1>1, <1>3, <1>5, Parts
  <2> QED BY <1>1, <2>1
<1> QED BY <1>2, <1>4, <1>5

(* Every minute of every hour is some time.                                *)
LEMMA EveryMinute ==
  ASSUME NEW h \in Nat, NEW m \in 0 .. HourMinutes - 1
  PROVE  \E w \in Nat : w % Minute = 0 /\ w \div Hour = h /\ tm_min(w) = m
<1> DEFINE i == HourMinutes * h + m
           w == Minute * i
<1>1. Minute \in Nat \ {0} /\ HourMinutes \in Nat \ {0}
  BY Units
<1> HIDE DEF HourMinutes
<1>2. i \in Nat /\ i \div HourMinutes = h /\ i % HourMinutes = m
  <2>1. HourMinutes * h \in Nat
    BY <1>1
  <2> QED BY <1>1, <2>1, Unique
<1> HIDE DEF i
<1>3. w \in Nat /\ w = Minute * i + 0 /\ 0 \in 0 .. Minute - 1
  BY <1>1, <1>2
<1> HIDE DEF w
<1>4. w \div Minute = i /\ w % Minute = 0
  BY <1>1, <1>2, <1>3, Unique
<1>5. w \div Hour = h /\ tm_min(w) = m
  BY <1>2, <1>3, <1>4, ClockValues
<1> QED BY <1>3, <1>4, <1>5

(* Every hour of every day is some time.                                   *)
LEMMA EveryHour ==
  ASSUME NEW d \in Nat, NEW h \in 0 .. DayHours - 1
  PROVE  \E w \in Nat : w \div Hour = DayHours * d + h /\ tm_hour(w) = h
<1> DEFINE i == DayHours * d + h
           w == Hour * i
<1>1. Hour \in Nat \ {0} /\ DayHours \in Nat \ {0}
  BY Units
<1> HIDE DEF DayHours
<1>2. i \in Nat /\ i \div DayHours = d /\ i % DayHours = h
  <2>1. DayHours * d \in Nat
    BY <1>1
  <2> QED BY <1>1, <2>1, Unique
<1> HIDE DEF i
<1>3. w \in Nat /\ w = Hour * i + 0 /\ 0 \in 0 .. Hour - 1
  BY <1>1, <1>2
<1> HIDE DEF w
<1>4. w \div Hour = i
  BY <1>1, <1>2, <1>3, Unique
<1>5. tm_hour(w) = h
  BY <1>2, <1>3, <1>4, ClockValues
<1> QED BY <1>3, <1>4, <1>5 DEF i

-----------------------------------------------------------------------------
(* The calendar: what the constants say of the calendar.                   *)
LEMMA CalendarValues ==
  /\ Len(FirstDay) \in Nat /\ Len(FirstDay) > 1 /\ DOMAIN FirstDay = 1 .. Len(FirstDay)
  /\ \A m \in DOMAIN FirstDay : FirstDay[m] \in Nat
  /\ FirstDay[1] = 0 /\ Days \in Nat \ {0}
  /\ \A m, n \in DOMAIN FirstDay : m < n => FirstDay[m] < FirstDay[n]
  /\ \A m \in Months : m \in DOMAIN FirstDay /\ m + 1 \in DOMAIN FirstDay /\ m \in Nat
<1>1. /\ FirstDay \in Seq(Nat) /\ Len(FirstDay) > 1 /\ FirstDay[1] = 0
      /\ \A m, n \in DOMAIN FirstDay : m < n => FirstDay[m] < FirstDay[n]
  BY CalendarUnits
<1>2. /\ Len(FirstDay) \in Nat /\ DOMAIN FirstDay = 1 .. Len(FirstDay)
      /\ \A m \in DOMAIN FirstDay : FirstDay[m] \in Nat
  BY <1>1
<1>3. Days \in Nat \ {0}
  <2>1. 1 \in DOMAIN FirstDay /\ Len(FirstDay) \in DOMAIN FirstDay /\ 1 < Len(FirstDay)
    BY <1>1, <1>2
  <2>2. FirstDay[1] < FirstDay[Len(FirstDay)]
    BY <1>1, <2>1
  <2> QED BY <1>1, <1>2, <2>1, <2>2 DEF Days
<1>4. \A m \in Months : m \in DOMAIN FirstDay /\ m + 1 \in DOMAIN FirstDay /\ m \in Nat
  BY <1>2 DEF Months
<1> QED BY <1>1, <1>2, <1>3, <1>4

(* Each day has one month.                                                 *)
LEMMA MonthValue ==
  ASSUME NEW day \in 0 .. Days - 1
  PROVE  /\ MonthOf(day) \in Months
         /\ FirstDay[MonthOf(day)] <= day /\ day < FirstDay[MonthOf(day) + 1]
<1> DEFINE T == {m \in DOMAIN FirstDay : day < FirstDay[m]}
<1>1. T # {} /\ T \in SUBSET Nat
  <2>1. Len(FirstDay) \in T
    BY CalendarValues DEF Days
  <2> QED BY <2>1, CalendarValues
<1> HIDE DEF T
<1>2. PICK n \in T : \A m \in T : n <= m
  BY <1>1, LeastTime
<1>3. n \in DOMAIN FirstDay /\ day < FirstDay[n]
  BY <1>2 DEF T
<1>4. n # 1
  BY <1>3, CalendarValues
<1> DEFINE m == n - 1
<1>5. m \in Months /\ m + 1 = n /\ ~(n <= m)
  BY <1>3, <1>4, CalendarValues DEF Months
<1> HIDE DEF m
<1>6. FirstDay[m] <= day
  <2>1. m \notin T
    BY <1>2, <1>5
  <2> QED BY <1>5, <2>1, CalendarValues DEF T
<1>7. \E k \in Months : FirstDay[k] <= day /\ day < FirstDay[k + 1]
  BY <1>3, <1>5, <1>6
<1> QED BY <1>7, Zenon DEF MonthOf

LEMMA MonthSame ==
  ASSUME NEW m \in Months, NEW day \in 0 .. Days - 1,
         FirstDay[m] <= day, day < FirstDay[m + 1]
  PROVE  MonthOf(day) = m
<1> DEFINE n == MonthOf(day)
<1>1. n \in Months /\ FirstDay[n] <= day /\ day < FirstDay[n + 1]
  BY MonthValue
<1> HIDE DEF n
<1>2. ASSUME NEW i \in Months, NEW j \in Months, i < j PROVE FirstDay[i + 1] <= FirstDay[j]
  <2>1. i \in Nat /\ j \in Nat /\ i + 1 \in DOMAIN FirstDay /\ j \in DOMAIN FirstDay
    BY CalendarValues
  <2>2. i + 1 = j \/ i + 1 < j
    BY <1>2, <2>1
  <2>3. FirstDay[i + 1] \in Nat /\ FirstDay[j] \in Nat
    BY <2>1, CalendarValues
  <2>4. i + 1 < j => FirstDay[i + 1] < FirstDay[j]
    BY <2>1, CalendarValues
  <2> QED BY <2>2, <2>3, <2>4
<1>3. ~(n < m) /\ ~(m < n)
  <2>1. FirstDay[m] \in Nat /\ FirstDay[n] \in Nat
        /\ FirstDay[m + 1] \in Nat /\ FirstDay[n + 1] \in Nat
    BY <1>1, CalendarValues
  <2> QED BY <1>1, <1>2, <2>1
<1>4. n = m
  BY <1>1, <1>3, CalendarValues
<1> QED BY <1>4 DEF n

Good(rec, day) == GoodMonth(rec, day) /\ GoodDay(rec, day)

(* The days that are passed over when a month is left are all in it.       *)
LEMMA MonthLeft ==
  ASSUME NEW rec, NEW day \in 0 .. Days - 1, ~GoodMonth(rec, day)
  PROVE  /\ LeaveMonth(day) \in day + 1 .. Days
         /\ \A e \in day .. LeaveMonth(day) - 1 : ~GoodMonth(rec, e)
<1> DEFINE m == MonthOf(day)
<1>1. m \in Months /\ FirstDay[m] <= day /\ day < FirstDay[m + 1]
  BY MonthValue
<1>2. LeaveMonth(day) = FirstDay[m + 1] /\ tm_mon(day) = (m - 1) % Year
  BY DEF LeaveMonth, tm_mon
<1> HIDE DEF m
<1>3. FirstDay[m] \in Nat /\ FirstDay[m + 1] \in Nat /\ FirstDay[m + 1] <= Days
  <2>1. m + 1 \in DOMAIN FirstDay /\ (m + 1 = Len(FirstDay) \/ m + 1 < Len(FirstDay))
        /\ Len(FirstDay) \in DOMAIN FirstDay /\ m \in DOMAIN FirstDay
    BY <1>1, CalendarValues
  <2> QED BY <2>1, CalendarValues DEF Days
<1>4. ASSUME NEW e \in day .. FirstDay[m + 1] - 1 PROVE ~GoodMonth(rec, e)
  <2>1. e \in 0 .. Days - 1 /\ FirstDay[m] <= e /\ e < FirstDay[m + 1]
    BY <1>1, <1>3, CalendarValues
  <2>2. MonthOf(e) = m
    BY <1>1, <2>1, MonthSame
  <2>3. tm_mon(e) = tm_mon(day)
    BY <1>2, <2>2 DEF tm_mon
  <2> QED BY <2>3 DEF GoodMonth
<1> QED BY <1>1, <1>2, <1>3, <1>4, CalendarValues

(* The days that are tried lead to the first good one.                     *)
LEMMA DateValue ==
  ASSUME NEW rec, NEW first \in 0 .. Days
  PROVE  LET d == DateFrom(rec, first)
         IN  \/ d = -1 /\ \A e \in first .. Days - 1 : ~Good(rec, e)
             \/ /\ d \in first .. Days - 1 /\ Good(rec, d)
                /\ \A e \in first .. d - 1 : ~Good(rec, e)
<1> DEFINE Next_(f) ==
             [day \in 0 .. Days |->
               IF day = Days THEN -1
               ELSE IF ~GoodMonth(rec, day) THEN f[LeaveMonth(day)]
               ELSE IF ~GoodDay(rec, day) THEN f[day + 1]
               ELSE day]
           date == CHOOSE f : f = Next_(f)
           From(day) == {e \in day .. Days - 1 : Good(rec, e)}
           f == [day \in 0 .. Days |-> IF From(day) = {} THEN -1 ELSE Min(From(day))]
           Right(day, d) ==
             \/ d = -1 /\ \A e \in day .. Days - 1 : ~Good(rec, e)
             \/ /\ d \in day .. Days - 1 /\ Good(rec, d)
                /\ \A e \in day .. d - 1 : ~Good(rec, e)
<1>1. DateFrom(rec, first) = date[first]
  BY Zenon DEF DateFrom
<1>2. Days \in Nat
  BY CalendarValues
<1>3. ASSUME NEW day \in 0 .. Days PROVE From(day) \in SUBSET Nat
  BY <1>2
<1>4. ASSUME NEW day \in 0 .. Days, NEW next \in day + 1 .. Days,
             \A e \in day .. next - 1 : ~Good(rec, e)
      PROVE  From(day) = From(next)
  <2>1. ASSUME NEW e \in From(day) PROVE e \in From(next)
    <3>1. e \in Int /\ day <= e /\ e <= Days - 1 /\ Good(rec, e)
      BY <1>2
    <3>2. ~(e <= next - 1)
      BY <1>2, <1>4, <3>1
    <3> QED BY <1>2, <3>1, <3>2
  <2>2. ASSUME NEW e \in From(next) PROVE e \in From(day)
    BY <1>2
  <2> HIDE DEF From
  <2> QED BY <2>1, <2>2
<1>5. ASSUME NEW day \in 0 .. Days - 1, Good(rec, day) PROVE From(day) # {} /\ Min(From(day)) = day
  <2>1. day \in From(day) /\ \A e \in From(day) : e >= day
    BY <1>2, <1>5
  <2>2. From(day) \in SUBSET Nat
    BY <1>2
  <2> HIDE DEF From
  <2>3. Min(From(day)) \in From(day) /\ \A e \in From(day) : Min(From(day)) <= e
    BY <2>1, <2>2, MinValue
  <2> DEFINE k == Min(From(day))
  <2>4. k \in Nat /\ k >= day /\ k <= day
    BY <2>1, <2>2, <2>3
  <2> HIDE DEF k
  <2>5. k = day
    BY <2>4
  <2> QED BY <2>1, <2>5 DEF k
<1>6. From(Days) = {}
  BY <1>2
<1>7. \A day \in 0 .. Days : f[day] = IF From(day) = {} THEN -1 ELSE Min(From(day))
  OBVIOUS
<1>8. f = [day \in 0 .. Days |-> f[day]]
  OBVIOUS
<1> HIDE DEF f, From
<1>9. ASSUME NEW day \in 0 .. Days
      PROVE  f[day] = IF day = Days THEN -1
                      ELSE IF ~GoodMonth(rec, day) THEN f[LeaveMonth(day)]
                      ELSE IF ~GoodDay(rec, day) THEN f[day + 1]
                      ELSE day
  <2>1. CASE day = Days
    BY <1>6, <1>7, <2>1
  <2>2. CASE day < Days /\ ~GoodMonth(rec, day)
    <3> DEFINE next == LeaveMonth(day)
    <3>1. day \in 0 .. Days - 1
      BY <1>2, <2>2
    <3>2. next \in day + 1 .. Days /\ \A e \in day .. next - 1 : ~GoodMonth(rec, e)
      BY <2>2, <3>1, MonthLeft
    <3> HIDE DEF next
    <3>3. From(day) = From(next) /\ next \in 0 .. Days
      BY <1>2, <1>4, <3>1, <3>2 DEF Good
    <3>4. f[day] = f[next]
      BY <1>7, <3>3
    <3> QED BY <2>2, <3>1, <3>4 DEF next
  <2>3. CASE day < Days /\ GoodMonth(rec, day) /\ ~GoodDay(rec, day)
    <3> DEFINE next == day + 1
    <3>1. next \in day + 1 .. Days /\ next \in 0 .. Days
      BY <1>2, <2>3
    <3>2. \A e \in day .. next - 1 : ~Good(rec, e)
      BY <2>3 DEF Good
    <3> HIDE DEF next
    <3>3. From(day) = From(next)
      BY <1>4, <3>1, <3>2
    <3>4. f[day] = f[next]
      BY <1>7, <3>1, <3>3
    <3> QED BY <2>3, <3>4 DEF next
  <2>4. CASE day < Days /\ GoodMonth(rec, day) /\ GoodDay(rec, day)
    <3>1. day \in 0 .. Days - 1
      BY <1>2, <2>4
    <3>2. From(day) # {} /\ Min(From(day)) = day
      BY <1>5, <2>4, <3>1 DEF Good
    <3> QED BY <1>7, <2>4, <3>2
  <2> QED BY <1>2, <2>1, <2>2, <2>3, <2>4
<1>10. f = Next_(f)
  BY <1>8, <1>9
<1>11. date = Next_(date)
  <2> HIDE DEF Next_
  <2> QED BY <1>10, Zenon
<1> HIDE DEF date
<1>12. ASSUME NEW day \in 0 .. Days
       PROVE  /\ day = Days => date[day] = -1
              /\ day < Days /\ ~GoodMonth(rec, day) => date[day] = date[LeaveMonth(day)]
              /\ day < Days /\ GoodMonth(rec, day) /\ ~GoodDay(rec, day) =>
                 date[day] = date[day + 1]
              /\ day < Days /\ Good(rec, day) => date[day] = day
  <2>1. date[day] = Next_(date)[day]
    BY <1>11, Zenon
  <2>2. day = Days => ~(day < Days)
    BY <1>2
  <2> QED BY <2>1, <2>2 DEF Good
<1> HIDE DEF Next_
<1> DEFINE T == {n \in Nat : \E day \in 0 .. Days : n = Days - day /\ ~Right(day, date[day])}
<1>13. ASSUME T # {} PROVE FALSE
  <2>1. PICK n \in T : \A k \in T : n <= k
    <3>1. T \in SUBSET Nat
      OBVIOUS
    <3> HIDE DEF T
    <3> QED BY <1>13, <3>1, LeastTime
  <2>2. PICK day \in 0 .. Days : n = Days - day /\ ~Right(day, date[day])
    BY <2>1
  <2>3. ASSUME NEW next \in day + 1 .. Days, \A e \in day .. next - 1 : ~Good(rec, e),
               date[day] = date[next]
        PROVE  FALSE
    <3>1. next \in 0 .. Days /\ Days - next \in Nat /\ ~(n <= Days - next)
      BY <1>2, <2>2, <2>3
    <3>2. Right(next, date[next])
      <4> HIDE DEF Right
      <4>1. Days - next \notin T
        BY <2>1, <3>1
      <4> QED BY <3>1, <4>1
    <3> DEFINE d == date[next]
    <3>3. Right(next, d) => Right(day, d)
      <4> HIDE DEF d
      <4> QED BY <1>2, <2>3
    <3> QED BY <2>2, <2>3, <3>2, <3>3
  <2>4. CASE day = Days
    <3>1. Right(day, -1)
      BY <1>2, <2>4
    <3> QED BY <1>12, <2>2, <2>4, <3>1
  <2>5. CASE day < Days /\ ~GoodMonth(rec, day)
    <3>1. day \in 0 .. Days - 1
      BY <1>2, <2>5
    <3>2. LeaveMonth(day) \in day + 1 .. Days
          /\ \A e \in day .. LeaveMonth(day) - 1 : ~Good(rec, e)
      BY <2>5, <3>1, MonthLeft DEF Good
    <3> QED BY <1>12, <2>3, <2>5, <3>2
  <2>6. CASE day < Days /\ GoodMonth(rec, day) /\ ~GoodDay(rec, day)
    <3> DEFINE next == day + 1
    <3>1. next \in day + 1 .. Days
      BY <1>2, <2>6
    <3>2. \A e \in day .. next - 1 : ~Good(rec, e)
      BY <2>6 DEF Good
    <3>3. date[day] = date[next]
      BY <1>12, <2>6
    <3> HIDE DEF next
    <3> QED BY <2>3, <3>1, <3>2, <3>3
  <2>7. CASE day < Days /\ Good(rec, day)
    <3>1. Right(day, day)
      BY <1>2, <2>7
    <3> QED BY <1>12, <2>2, <2>7, <3>1
  <2> QED BY <1>2, <2>4, <2>5, <2>6, <2>7 DEF Good
<1>14. Right(first, date[first])
  <2>1. Days - first \in Nat
    BY <1>2
  <2>2. Days - first \notin T
    BY <1>13
  <2> HIDE DEF Right
  <2> QED BY <2>1, <2>2
<1> QED BY <1>1, <1>14

-----------------------------------------------------------------------------
(* Times that a recurrence permits, by the day and the time of day.        *)
LEMMA LastDay ==
  ASSUME NEW day \in 0 .. Days - 1
  PROVE  IsLast(day) <=> \E m \in Months : day + 1 = FirstDay[m + 1]
<1> DEFINE m == MonthOf(day)
<1>1. m \in Months /\ FirstDay[m] <= day /\ day < FirstDay[m + 1]
  BY MonthValue
<1>2. \A n \in Months : /\ FirstDay[n] \in Nat /\ FirstDay[n + 1] \in Nat
                        /\ FirstDay[n] < FirstDay[n + 1]
  BY CalendarValues
<1>3. day \in Int
  BY CalendarValues
<1>4. IsLast(day) <=> day - FirstDay[m] + 1 = FirstDay[m + 1] - FirstDay[m]
  BY DEF IsLast, tm_mday, MonthDays
<1>5. ASSUME NEW n \in Months, day + 1 = FirstDay[n + 1] PROVE n = m
  <2>1. FirstDay[n] <= day /\ day < FirstDay[n + 1]
    BY <1>2, <1>3, <1>5
  <2> QED BY <2>1, MonthSame
<1> HIDE DEF m
<1>6. IsLast(day) <=> day + 1 = FirstDay[m + 1]
  BY <1>1, <1>2, <1>3, <1>4
<1> QED BY <1>1, <1>5, <1>6

(* Times and days before the end of the calendar.                          *)
LEMMA DayOf ==
  ASSUME NEW u \in Nat
  PROVE  u < End <=> u \div Day \in 0 .. Days - 1
<1> DEFINE d == u \div Day
           c == u % Day
<1>1. /\ u = Day * d + c /\ c \in 0 .. Day - 1 /\ d \in Nat
      /\ Day \in Nat \ {0} /\ Days \in Nat \ {0}
  BY TimeParts, Units, CalendarValues
<1> HIDE DEF d, c
<1>2. End = Day * Days + 0 /\ 0 \in 0 .. Day - 1
  BY <1>1 DEF End
<1>3. (d < Days => u < End) /\ (Days < d => End < u) /\ (d = Days => (End <= u <=> 0 <= c))
  BY <1>1, <1>2, Parts
<1>4. u < End <=> d < Days
  BY <1>1, <1>2, <1>3
<1> QED BY <1>1, <1>4 DEF d

LEMMA Permission ==
  ASSUME NEW rec, IsMask(rec), NEW u \in Nat, u < End
  PROVE  Permits(rec, u) <=> Suits(rec, u) /\ Good(rec, u \div Day)
<1>1. u \div Day \in 0 .. Days - 1
  BY DayOf
<1>2. IsLast(u \div Day) <=> \E m \in Months : (u \div Day) + 1 = FirstDay[m + 1]
  BY <1>1, LastDay
<1> QED BY <1>2, Zenon DEF Permits, Suits, Good, GoodMonth, GoodDay

LEMMA SameClock ==
  ASSUME NEW rec, NEW u \in Nat, NEW v \in Nat, u % Day = v % Day
  PROVE  /\ tm_hour(u) = tm_hour(v) /\ tm_min(u) = tm_min(v) /\ u % Minute = v % Minute
         /\ Suits(rec, u) <=> Suits(rec, v)
<1>1. (u % Day) % Hour = u % Hour /\ (u % Hour) % Minute = u % Minute
  BY ClockValues
<1>2. (v % Day) % Hour = v % Hour /\ (v % Hour) % Minute = v % Minute
  BY ClockValues
<1>3. tm_hour(u) = tm_hour(v) /\ tm_min(u) = tm_min(v) /\ u % Minute = v % Minute
  BY <1>1, <1>2, Zenon DEF tm_hour, tm_min
<1> QED BY <1>3, Zenon DEF Suits

-----------------------------------------------------------------------------
(* What all the masks give.                                                *)
Dated(rec) == ~(rec.wday = {} /\ rec.mday = {} /\ ~rec.eom /\ rec.mon = {})

Aligned(rec, r, s) ==
  LET first == (s.t \div Day) + s.inc
  IN /\ s.t >= End => r = -1
     /\ s.t < End /\ ~Dated(rec) => r = s.res
     /\ s.t < End /\ Dated(rec) =>
        \/ r = -1 /\ \A e \in first .. Days - 1 : ~Good(rec, e)
        \/ /\ r \in Nat /\ r < End /\ r % Day = s.t % Day
           /\ first <= r \div Day /\ Good(rec, r \div Day)
           /\ \A e \in first .. (r \div Day) - 1 : ~Good(rec, e)

(* The masks give the clock's time of day on the first good day.           *)
LEMMA MasksValue ==
  ASSUME NEW rec, IsMask(rec), NEW t \in Nat, NEW inc \in {0, 1}
  PROVE  Aligned(rec, alarm_recur_handle_masks(rec, t, inc), Clock(rec, t, inc))
<1> DEFINE s == Clock(rec, t, inc)
           r == alarm_recur_handle_masks(rec, t, inc)
           first == (s.t \div Day) + s.inc
           d == DateFrom(rec, first)
           p == HandleDate(rec, s).res
<1>1. IsTime(s) /\ s.t \in Nat /\ s.inc \in {0, 1} /\ s.res \in {-1, s.t}
  BY ClockSuits DEF IsTime
<1>2. r = IF s.t >= End THEN -1 ELSE IF p >= End THEN -1 ELSE p
  <2>1. ~(t < 0)
    OBVIOUS
  <2> QED BY <2>1, Zenon DEF alarm_recur_handle_masks, Clock
<1>3. p = IF Dated(rec) THEN IF d = -1 THEN -1 ELSE d * Day + (s.t % Day) ELSE s.res
  <2>1. CASE Dated(rec)
    BY <2>1 DEF Dated, HandleDate
  <2>2. CASE ~Dated(rec)
    BY <2>2 DEF Dated, HandleDate
  <2> QED BY <2>1, <2>2
<1>4. End \in Nat /\ Days \in Nat \ {0} /\ Day \in Nat \ {0}
  <2>1. Days \in Nat \ {0} /\ Day \in Nat \ {0}
    BY CalendarValues, Units
  <2> QED BY <2>1 DEF End
<1> HIDE DEF r, p, s
<1>5. CASE s.t >= End
  <2>1. r = -1 /\ ~(s.t < End)
    BY <1>1, <1>2, <1>4, <1>5
  <2> QED BY <2>1, <1>5, Zenon DEF Aligned, r, s
<1>6. CASE s.t < End /\ ~Dated(rec)
  <2>1. r = s.res /\ ~(s.t >= End)
    BY <1>1, <1>2, <1>3, <1>4, <1>6
  <2> QED BY <2>1, <1>6, Zenon DEF Aligned, r, s
<1>7. CASE s.t < End /\ Dated(rec)
  <2>1. first \in 0 .. Days
    <3>1. s.t \div Day \in 0 .. Days - 1
      BY <1>1, <1>7, DayOf
    <3> QED BY <1>1, <1>4, <3>1
  <2>2. \/ d = -1 /\ \A e \in first .. Days - 1 : ~Good(rec, e)
        \/ /\ d \in first .. Days - 1 /\ Good(rec, d)
           /\ \A e \in first .. d - 1 : ~Good(rec, e)
    <3> HIDE DEF first
    <3> QED BY <2>1, DateValue
  <2> HIDE DEF d
  <2>3. CASE d = -1 /\ \A e \in first .. Days - 1 : ~Good(rec, e)
    <3>1. r = -1 /\ ~(s.t >= End)
      BY <1>1, <1>2, <1>3, <1>4, <1>7, <2>3
    <3> QED BY <3>1, <1>7, <2>3, Zenon DEF Aligned, r, s
  <2>4. CASE /\ d \in first .. Days - 1 /\ Good(rec, d)
             /\ \A e \in first .. d - 1 : ~Good(rec, e)
    <3> DEFINE c == s.t % Day
               v == d * Day + c
    <3>1. c \in 0 .. Day - 1
      BY <1>1, TimeParts
    <3>2. d \in 0 .. Days - 1 /\ first <= d /\ d # -1
      BY <1>4, <2>1, <2>4
    <3> HIDE DEF first
    <3>3. v = Day * d + c /\ d \in Int
      BY <1>4, <3>1, <3>2
    <3>4. v \div Day = d /\ v % Day = c
      <4> HIDE DEF v, c
      <4> QED BY <1>4, <3>1, <3>3, Unique
    <3>5. v \in Nat
      <4>1. d * Day \in Nat
        BY <1>4, <3>2
      <4> QED BY <3>1, <4>1
    <3> HIDE DEF v
    <3>6. v < End
      BY <3>2, <3>4, <3>5, DayOf
    <3>7. p = v
      BY <1>3, <1>7, <3>2 DEF v
    <3>8. r = v /\ ~(s.t >= End)
      BY <1>1, <1>2, <1>4, <1>7, <3>5, <3>6, <3>7
    <3>9. /\ r \in Nat /\ r < End /\ r % Day = s.t % Day
          /\ first <= r \div Day /\ Good(rec, r \div Day)
          /\ \A e \in first .. (r \div Day) - 1 : ~Good(rec, e)
      BY <2>4, <3>2, <3>4, <3>5, <3>6, <3>8
    <3> QED BY <3>8, <3>9, <1>7, Zenon DEF Aligned, r, s, first
  <2> QED BY <2>2, <2>3, <2>4
<1>8. (s.t >= End) \/ (s.t < End)
  BY <1>1, <1>4
<1> QED BY <1>5, <1>6, <1>7, <1>8

(* Without a mask for days all of them are good.                           *)
LEMMA UndatedGood ==
  ASSUME NEW rec, ~Dated(rec), NEW day
  PROVE  Good(rec, day)
BY DEF Dated, Good, GoodMonth, GoodDay

(* What the masks give is permitted and not too early.                     *)
LEMMA MasksSound ==
  ASSUME NEW rec, IsMask(rec), NEW t \in Nat, NEW inc \in {0, 1},
         alarm_recur_handle_masks(rec, t, inc) # -1
  PROVE  LET r == alarm_recur_handle_masks(rec, t, inc)
         IN  r \in Nat /\ r < End /\ t <= r /\ Permits(rec, r) /\ (inc = 1 => t < r)
<1> DEFINE s == Clock(rec, t, inc)
           r == alarm_recur_handle_masks(rec, t, inc)
           first == (s.t \div Day) + s.inc
<1>1. Aligned(rec, r, s) /\ r # -1
  BY MasksValue
<1>2. /\ s.t \in Nat /\ s.inc \in {0, 1} /\ s.res \in {-1, s.t} /\ t <= s.t /\ Suits(rec, s.t)
      /\ inc = 1 => s.t > t \/ (s.inc = 1 /\ s.res = -1)
  BY ClockSuits DEF IsTime
<1>3. End \in Nat
  BY CalendarValues, Units DEF End
<1> HIDE DEF r, s
<1>4. s.t < End
  BY <1>1, <1>2, <1>3 DEF Aligned
<1>5. CASE ~Dated(rec)
  <2>1. r = s.t /\ s.res # -1
    BY <1>1, <1>2, <1>4, <1>5 DEF Aligned
  <2>2. Permits(rec, r)
    BY <1>2, <1>4, <1>5, <2>1, Permission, UndatedGood
  <2> QED BY <1>2, <1>4, <2>1, <2>2 DEF r
<1>6. CASE Dated(rec)
  <2>1. /\ r \in Nat /\ r < End /\ r % Day = s.t % Day
        /\ first <= r \div Day /\ Good(rec, r \div Day)
    BY <1>1, <1>4, <1>6 DEF Aligned
  <2>2. Permits(rec, r)
    BY <1>2, <2>1, SameClock, Permission
  <2>3. s.t <= r /\ (s.inc = 1 => s.t < r)
    <3> DEFINE i == s.t \div Day
               j == r \div Day
    <3>1. i \in Nat /\ j \in Nat /\ s.t % Day \in Int
      <4>1. i \in Nat /\ s.t % Day \in 0 .. Day - 1
        BY <1>2, TimeParts
      <4>2. j \in Nat
        BY <2>1, TimeParts
      <4> QED BY <4>1, <4>2, Units
    <3>2. (i < j => s.t < r) /\ (i = j => (s.t <= r <=> s.t % Day <= r % Day))
      BY <1>2, <2>1, DayOrder
    <3>3. i + s.inc <= j
      BY <2>1
    <3> HIDE DEF i, j
    <3> QED BY <1>2, <2>1, <3>1, <3>2, <3>3
  <2> QED BY <1>2, <2>1, <2>2, <2>3 DEF r
<1> QED BY <1>5, <1>6

-----------------------------------------------------------------------------
(* No time that is permitted is passed over.                               *)

(* The clock does not move to a later hour than that of a time that suits. *)
LEMMA ClockComplete ==
  ASSUME NEW rec, IsMask(rec), NEW t \in Nat, NEW inc \in {0, 1},
         NEW u \in Nat, Suits(rec, u), t + inc <= u,
         inc = 0 \/ rec.min # {} \/ t \div Hour < u \div Hour
  PROVE  LET s == Clock(rec, t, inc)
         IN  /\ s.t \div Hour <= u \div Hour /\ s.t \div Day <= u \div Day
             /\ inc = 0 \/ rec.min # {} => s.inc = 0
<1> DEFINE a == HandleSeconds(t, inc)
           b == HandleMinutes(rec, a)
           s == HandleHours(rec, b)
           f == Floor(t + inc - 1)
<1>1. /\ IsTime(a) /\ a.t \in Nat /\ a.inc \in {0, 1} /\ a.inc <= inc
      /\ a.t + a.inc * Minute = f + Minute
  BY SecondsValue DEF IsTime
<1>2. u >= f + Minute /\ u % Minute = 0
  <2>1. t + inc - 1 \in Int /\ u > t + inc - 1
    OBVIOUS
  <2> QED BY <2>1, NextMinute DEF Suits
<1>3. f \in Int
  <2>1. t + inc - 1 \in Int
    OBVIOUS
  <2> QED BY <2>1, NextMinute
<1>t. a.inc = 1 => a.t = t
  BY SecondsValue
<1> HIDE DEF a, f
<1>4. /\ IsTime(b) /\ b.t <= u /\ (inc = 0 \/ rec.min # {} => b.inc = 0)
      /\ b.inc = 1 => b.t = t /\ t \div Hour < u \div Hour
  <2>1. CASE rec.min = {}
    <3>1. b = a
      BY <2>1 DEF HandleMinutes, Advance
    <3>2. a.inc * Minute = (IF a.inc = 1 THEN Minute ELSE 0)
      BY <1>1, Units
    <3> HIDE DEF b
    <3>3. b.t <= u
      BY <1>1, <1>2, <1>3, <3>1, <3>2, Units
    <3> QED BY <1>1, <1>t, <2>1, <3>1, <3>3
  <2>2. CASE rec.min # {}
    <3>1. /\ IsTime(b) /\ b.inc = 0
          /\ \A v \in Nat : v % Minute = 0 /\ f + Minute <= v /\ v < b.t => tm_min(v) \notin rec.min
      BY <1>1, <2>2, MinutesValue
    <3>2. tm_min(u) \in rec.min /\ b.t \in Nat
      BY <2>2, <3>1 DEF Suits, IsTime
    <3>3. ~(u < b.t)
      BY <1>2, <1>3, <3>1, <3>2, Units
    <3> HIDE DEF b
    <3> QED BY <3>1, <3>2, <3>3
  <2> QED BY <2>1, <2>2
<1> HIDE DEF b
<1>5. /\ b.t \in Nat /\ b.t \div Hour <= u \div Hour /\ b.t \div Hour \in Nat /\ u \div Hour \in Nat
      /\ (b.t \div Hour) + b.inc <= u \div Hour
  <2>1. b.t \in Nat /\ b.inc \in {0, 1}
    BY <1>4 DEF IsTime
  <2>2. b.t \div Hour <= u \div Hour
    BY <1>4, <2>1, Units, DivMono
  <2>3. b.t \div Hour \in Nat
    BY <2>1, TimeParts
  <2>4. u \div Hour \in Nat
    BY TimeParts
  <2>5. (b.t \div Hour) + b.inc <= u \div Hour
    <3>1. b.inc = 1 => b.t \div Hour < u \div Hour
      BY <1>4
    <3> DEFINE i == b.t \div Hour
               j == u \div Hour
    <3>2. i \in Nat /\ j \in Nat /\ i <= j /\ (b.inc = 1 => i < j)
      BY <2>2, <2>3, <2>4, <3>1
    <3> HIDE DEF i, j
    <3>3. i + b.inc <= j
      BY <2>1, <3>2
    <3> QED BY <3>3 DEF i, j
  <2> QED BY <2>1, <2>2, <2>3, <2>4, <2>5
<1>6. s.t \in Nat /\ s.t \div Hour <= u \div Hour /\ (inc = 0 \/ rec.min # {} => s.inc = 0)
  <2>1. CASE rec.hour = {}
    <3>1. s = b
      BY <2>1 DEF HandleHours, Advance
    <3> HIDE DEF s
    <3> QED BY <1>4, <1>5, <3>1
  <2>2. CASE rec.hour # {}
    <3>1. /\ IsTime(s) /\ s.inc = 0
          /\ \A v \in Nat : (b.t \div Hour) + b.inc <= v \div Hour /\ v \div Hour < s.t \div Hour =>
                            tm_hour(v) \notin rec.hour
      BY <1>4, <2>2, HoursValue
    <3>2. tm_hour(u) \in rec.hour /\ s.t \in Nat
      BY <2>2, <3>1 DEF Suits, IsTime
    <3>3. ~(u \div Hour < s.t \div Hour)
      BY <1>5, <3>1, <3>2
    <3>4. s.t \div Hour \in Nat
      BY <3>2, TimeParts
    <3> HIDE DEF s
    <3> QED BY <1>5, <3>1, <3>2, <3>3, <3>4
  <2> QED BY <2>1, <2>2
<1> HIDE DEF s
<1>7. s.t \div Day <= u \div Day
  <2>1. s.t \div Day = (s.t \div Hour) \div DayHours /\ s.t \div Hour \in Nat
    BY <1>6, ClockValues, TimeParts
  <2>2. u \div Day = (u \div Hour) \div DayHours
    BY ClockValues
  <2> HIDE DEF DayHours
  <2> QED BY <1>5, <1>6, <2>1, <2>2, Units, DivMono
<1> QED BY <1>6, <1>7 DEF s, b, a, Clock

(* The masks give nothing only when there is nothing to give or the time   *)
(* itself will do.                                                         *)
LEMMA MasksComplete ==
  ASSUME NEW rec, IsMask(rec), NEW t \in Nat, NEW u \in Nat, t <= u, u < End, Permits(rec, u),
         alarm_recur_handle_masks(rec, t, 0) = -1
  PROVE  Permits(rec, t)
<1> DEFINE s == Clock(rec, t, 0)
           r == alarm_recur_handle_masks(rec, t, 0)
           i == s.t \div Day
           d == u \div Day
<1>1. Aligned(rec, r, s)
  BY MasksValue
<1>2. /\ s.t \in Nat /\ s.inc \in {0, 1} /\ Suits(rec, s.t)
      /\ s.res = -1 => s.t = t
  BY ClockSuits DEF IsTime
<1>3. Suits(rec, u) /\ Good(rec, d) /\ d \in 0 .. Days - 1
  BY Permission, DayOf
<1>4. s.inc = 0 /\ i <= d /\ i \in Nat
  <2>1. s.inc = 0 /\ i <= d
    BY <1>3, ClockComplete
  <2>2. i \in Nat
    BY <1>2, TimeParts
  <2> QED BY <2>1, <2>2
<1>5. Days \in Nat
  BY CalendarValues
<1>6. i \in 0 .. Days - 1 /\ d \in i + s.inc .. Days - 1
  <2> HIDE DEF i, d, s
  <2> QED BY <1>3, <1>4, <1>5
<1>7. s.t < End
  BY <1>2, <1>6, DayOf
<1>8. r = -1
  OBVIOUS
<1> HIDE DEF s, r
<1>9. ~Dated(rec)
  <2>1. ~(r \in Nat)
    BY <1>8
  <2> HIDE DEF d
  <2> QED BY <1>1, <1>3, <1>6, <1>7, <2>1 DEF Aligned
<1>10. s.t = t
  BY <1>1, <1>2, <1>7, <1>8, <1>9 DEF Aligned
<1> QED BY <1>2, <1>7, <1>9, <1>10, UndatedGood, Permission

(* The day for which a time of day is found.                               *)
LEMMA MasksNext ==
  ASSUME NEW rec, IsMask(rec), rec.min # {}, NEW t \in Nat, NEW inc \in {0, 1},
         NEW u \in Nat, t + inc <= u, u < End, Permits(rec, u)
  PROVE  LET r == alarm_recur_handle_masks(rec, t, inc)
             s == Clock(rec, t, inc)
         IN  /\ r \in Nat /\ r % Day = s.t % Day /\ s.t \in Nat
             /\ s.t \div Day <= r \div Day /\ r \div Day <= u \div Day
             /\ \A e \in s.t \div Day .. (r \div Day) - 1 : ~Good(rec, e)
<1> DEFINE s == Clock(rec, t, inc)
           r == alarm_recur_handle_masks(rec, t, inc)
           i == s.t \div Day
           d == u \div Day
<1>1. Aligned(rec, r, s)
  BY MasksValue
<1>2. s.t \in Nat /\ s.res = s.t
  BY ClockSuits DEF IsTime
<1>3. Suits(rec, u) /\ Good(rec, d) /\ d \in 0 .. Days - 1
  BY Permission, DayOf
<1>4. s.inc = 0 /\ i <= d /\ i \in Nat
  <2>1. s.inc = 0 /\ i <= d
    BY <1>3, ClockComplete
  <2>2. i \in Nat
    BY <1>2, TimeParts
  <2> QED BY <2>1, <2>2
<1>5. Days \in Nat
  BY CalendarValues
<1> HIDE DEF s, r
<1>6. i \in 0 .. Days - 1 /\ i + s.inc = i
  <2> HIDE DEF i, d
  <2> QED BY <1>3, <1>4, <1>5
<1>7. s.t < End
  BY <1>2, <1>6, DayOf
<1>8. CASE ~Dated(rec)
  <2>1. r = s.t
    BY <1>1, <1>2, <1>7, <1>8 DEF Aligned
  <2>2. i .. i - 1 = {}
    BY <1>4
  <2> QED BY <1>2, <1>4, <2>1, <2>2 DEF s, r
<1>9. CASE Dated(rec)
  <2>1. \/ \A e \in i .. Days - 1 : ~Good(rec, e)
        \/ /\ r \in Nat /\ r < End /\ r % Day = s.t % Day /\ i <= r \div Day
           /\ \A e \in i .. (r \div Day) - 1 : ~Good(rec, e)
    BY <1>1, <1>6, <1>7, <1>9, Zenon DEF Aligned
  <2>2. ~\A e \in i .. Days - 1 : ~Good(rec, e)
    <3>1. d \in i .. Days - 1
      <4> HIDE DEF i, d
      <4> QED BY <1>3, <1>4, <1>5
    <3> QED BY <1>3, <3>1
  <2>3. r \div Day \in Nat /\ r \div Day <= d
    <3> DEFINE j == r \div Day
    <3>1. j \in Nat
      BY <2>1, <2>2, TimeParts
    <3> HIDE DEF i, d, j
    <3>2. ~(d < j)
      <4>1. d < j => d \in i .. j - 1
        BY <1>3, <1>4, <3>1
      <4> QED BY <1>3, <2>1, <2>2, <4>1 DEF j
    <3> QED BY <1>3, <3>1, <3>2 DEF j
  <2> QED BY <1>2, <2>1, <2>2, <2>3 DEF s, r
<1> QED BY <1>8, <1>9

-----------------------------------------------------------------------------
(* A clock that is moved from the minute after f to the first one that the *)
(* mask has, b, and from there to the first such hour.                     *)
Moved(rec, f, b, s) ==
  /\ b \in Nat /\ b % Minute = 0 /\ s \in Nat /\ s % Minute = 0
  /\ f + Minute <= b /\ b \div Minute <= (f \div Minute) + HourMinutes
  /\ \A w \in Nat : w % Minute = 0 /\ f + Minute <= w /\ w < b => tm_min(w) \notin rec.min
  /\ tm_min(s) = tm_min(b) /\ b \div Hour <= s \div Hour
  /\ tm_min(b) \in rec.min /\ tm_hour(s) \in rec.hour
  /\ \A w \in Nat : b \div Hour <= w \div Hour /\ w \div Hour < s \div Hour =>
                    tm_hour(w) \notin rec.hour

LEMMA ClockSteps ==
  ASSUME NEW rec, IsMask(rec), rec.min # {}, rec.hour # {}, NEW t \in Nat, NEW inc \in {0, 1}
  PROVE  Moved(rec, Floor(t + inc - 1), HandleMinutes(rec, HandleSeconds(t, inc)).t,
               Clock(rec, t, inc).t)
<1> DEFINE a == HandleSeconds(t, inc)
           b == HandleMinutes(rec, a)
           s == HandleHours(rec, b)
           f == Floor(t + inc - 1)
<1>1. IsTime(a) /\ a.t + a.inc * Minute = f + Minute
  BY SecondsValue
<1>2. f \in Int /\ f % Minute = 0
  <2>1. t + inc - 1 \in Int
    OBVIOUS
  <2> QED BY <2>1, NextMinute
<1> HIDE DEF a, f
<1>3. /\ IsTime(b) /\ b.inc = 0 /\ f + Minute <= b.t
      /\ tm_min(b.t) \in rec.min
      /\ b.t \div Minute <= ((f + Minute) \div Minute) + HourMinutes - 1
      /\ \A u \in Nat : u % Minute = 0 /\ f + Minute <= u /\ u < b.t => tm_min(u) \notin rec.min
  <2> HIDE DEF HourMinutes
  <2> QED BY <1>1, MinutesValue
<1>4. (f + Minute) \div Minute = (f \div Minute) + 1 /\ f \div Minute \in Int
  <2>1. (f + 1 * Minute) \div Minute = (f \div Minute) + 1
    BY <1>2, Units, Plus
  <2>2. 1 * Minute = Minute
    BY Units
  <2>3. f \div Minute \in Int
    BY <1>2, Units, DivMod
  <2> QED BY <2>1, <2>2, <2>3
<1> HIDE DEF b
<1>5. /\ IsTime(s) /\ tm_hour(s.t) \in rec.hour /\ tm_min(s.t) = tm_min(b.t)
      /\ (b.t \div Hour) + b.inc <= s.t \div Hour
      /\ \A u \in Nat : (b.t \div Hour) + b.inc <= u \div Hour /\ u \div Hour < s.t \div Hour =>
                        tm_hour(u) \notin rec.hour
  BY <1>3, HoursValue
<1>6. (b.t \div Hour) + b.inc = b.t \div Hour
  <2>1. b.t \div Hour \in Nat
    BY <1>3, TimeParts DEF IsTime
  <2> QED BY <1>3, <2>1
<1>7. b.t \div Minute <= (f \div Minute) + HourMinutes
  <2>1. b.t \div Minute \in Nat
    BY <1>3, TimeParts DEF IsTime
  <2>2. HourMinutes \in Nat
    BY Units
  <2> HIDE DEF HourMinutes
  <2> QED BY <1>3, <1>4, <2>1, <2>2
<1> HIDE DEF s, HourMinutes
<1>8. b.t \in Nat /\ b.t % Minute = 0 /\ s.t \in Nat /\ s.t % Minute = 0
  BY <1>3, <1>5 DEF IsTime
<1>9. /\ b.t \div Hour <= s.t \div Hour
      /\ \A w \in Nat : b.t \div Hour <= w \div Hour /\ w \div Hour < s.t \div Hour =>
                        tm_hour(w) \notin rec.hour
  BY <1>5, <1>6
<1>10. s = Clock(rec, t, inc)
  BY DEF s, b, a, Clock
<1> QED BY <1>3, <1>5, <1>7, <1>8, <1>9, <1>10, Zenon DEF Moved, b, a, f

(* The hours and days of times that are in order.                          *)
LEMMA HourParts ==
  ASSUME NEW u \in Nat, NEW v \in Nat
  PROVE  /\ u \div Hour < v \div Hour /\ u \div Day = v \div Day => tm_hour(u) < tm_hour(v)
         /\ u \div Hour = v \div Hour => u \div Day = v \div Day /\ tm_hour(u) = tm_hour(v)
         /\ u \div Hour <= v \div Hour => u \div Day <= v \div Day
<1> DEFINE a == u \div Day
           b == v \div Day
           i == u \div Hour
           j == v \div Hour
           c == tm_hour(u)
           d == tm_hour(v)
<1>1. a \in Nat /\ c \in 0 .. DayHours - 1 /\ i \in Nat /\ i = DayHours * a + c
  <2> HIDE DEF DayHours
  <2> QED BY TimeParts
<1>2. b \in Nat /\ d \in 0 .. DayHours - 1 /\ j \in Nat /\ j = DayHours * b + d
  <2> HIDE DEF DayHours
  <2> QED BY TimeParts
<1>3. a = i \div DayHours /\ c = i % DayHours
  BY ClockValues
<1>4. b = j \div DayHours /\ d = j % DayHours
  BY ClockValues
<1> HIDE DEF a, b, i, j, c, d, DayHours
<1>5. i <= j => a <= b
  BY <1>1, <1>2, <1>3, <1>4, Units, DivMono
<1>6. i < j /\ a = b => c < d
  <2>1. DayHours \in Nat
    BY Units
  <2>2. ASSUME i < j, a = b PROVE c < d
    <3>1. DayHours * a = DayHours * b /\ DayHours * a \in Int
      BY <1>1, <2>1, <2>2
    <3>2. c \in Int /\ d \in Int
      BY <1>1, <1>2, <2>1
    <3> QED BY <1>1, <1>2, <2>2, <3>1, <3>2
  <2> QED BY <2>2
<1>7. i = j => a = b /\ c = d
  BY <1>3, <1>4
<1> QED BY <1>5, <1>6, <1>7 DEF a, b, i, j, c, d

(* Order, for the prover that does no arithmetic.                          *)
LEMMA Ordered ==
  ASSUME NEW x \in Nat, NEW y \in Nat
  PROVE  /\ x <= y <=> (x < y \/ x = y)
         /\ x <= y <=> ~(y < x)
OBVIOUS

(* The masks pass over no time that is permitted, if there is one time of  *)
(* day, or if they start from a minute that is permitted.                  *)
LEMMA NoneBefore ==
  ASSUME NEW rec, IsMask(rec), rec.min # {}, rec.hour # {}, NEW t \in Nat, NEW inc \in {0, 1},
         Floor(t + inc - 1) \in Nat,
         NEW u \in Nat, t + inc <= u, u < End, Permits(rec, u),
         \/ Cardinality(rec.min) = 1 /\ Cardinality(rec.hour) = 1
         \/ Permits(rec, Floor(t + inc - 1))
  PROVE  LET r == alarm_recur_handle_masks(rec, t, inc) IN r \in Nat /\ r <= u
<1> DEFINE b == HandleMinutes(rec, HandleSeconds(t, inc)).t
           s == Clock(rec, t, inc).t
           f == Floor(t + inc - 1)
           r == alarm_recur_handle_masks(rec, t, inc)
<1>1. /\ b \in Nat /\ b % Minute = 0 /\ s \in Nat /\ s % Minute = 0
      /\ f + Minute <= b /\ b \div Minute <= (f \div Minute) + HourMinutes
      /\ \A w \in Nat : w % Minute = 0 /\ f + Minute <= w /\ w < b => tm_min(w) \notin rec.min
      /\ tm_min(s) = tm_min(b) /\ b \div Hour <= s \div Hour
      /\ tm_min(b) \in rec.min /\ tm_hour(s) \in rec.hour
      /\ \A w \in Nat : b \div Hour <= w \div Hour /\ w \div Hour < s \div Hour =>
                        tm_hour(w) \notin rec.hour
  <2>1. Moved(rec, f, b, s)
    BY ClockSteps
  <2> HIDE DEF f, b, s
  <2> QED BY <2>1, Zenon DEF Moved
<1>2. /\ r \in Nat /\ r % Day = s % Day
      /\ s \div Day <= r \div Day /\ r \div Day <= u \div Day
      /\ \A e \in s \div Day .. (r \div Day) - 1 : ~Good(rec, e)
  BY MasksNext
<1>3. /\ u % Minute = 0 /\ tm_min(u) \in rec.min /\ tm_hour(u) \in rec.hour
      /\ s \div Hour <= u \div Hour
  <2>1. Suits(rec, u)
    BY Permission
  <2>2. s \div Hour <= u \div Hour
    BY <2>1, ClockComplete
  <2> QED BY <2>1, <2>2 DEF Suits
<1>4. f \in Nat /\ f % Minute = 0 /\ Floor(f) = f
  <2>1. t + inc - 1 \in Int
    OBVIOUS
  <2>2. f \in Nat /\ f % Minute = 0
    BY <2>1, NextMinute
  <2> HIDE DEF f
  <2> QED BY <2>2 DEF Floor
<1>5. f + Minute <= u
  <2>1. t + inc - 1 \in Int /\ u > t + inc - 1
    OBVIOUS
  <2> QED BY <1>3, <2>1, NextMinute
<1>6. \A w \in Nat : /\ w \div Minute \in Nat /\ w \div Hour \in Nat /\ w \div Day \in Nat
                     /\ tm_hour(w) \in Nat /\ tm_min(w) \in Nat /\ w % Day \in Nat
  <2> SUFFICES ASSUME NEW w \in Nat
               PROVE  /\ w \div Minute \in Nat /\ w \div Hour \in Nat /\ w \div Day \in Nat
                      /\ tm_hour(w) \in Nat /\ tm_min(w) \in Nat /\ w % Day \in Nat
    OBVIOUS
  <2>1. /\ w \div Minute \in Nat /\ w \div Hour \in Nat /\ w \div Day \in Nat
        /\ tm_hour(w) \in 0 .. DayHours - 1 /\ tm_min(w) \in 0 .. HourMinutes - 1
        /\ w % Day \in 0 .. Day - 1
    BY TimeParts
  <2> HIDE DEF DayHours, HourMinutes
  <2> QED BY <2>1, Units
<1>7. ASSUME Permits(rec, f)
      PROVE  /\ Good(rec, f \div Day) /\ tm_hour(f) \in rec.hour
  <2>1. f < End
    <3>1. End \in Nat
      BY CalendarValues, Units DEF End
    <3> HIDE DEF f
    <3> QED BY <1>4, <1>5, <3>1, Units
  <2>2. Good(rec, f \div Day) /\ Suits(rec, f)
    BY <1>4, <1>7, <2>1, Permission
  <2> QED BY <2>2 DEF Suits
<1> HIDE DEF b, s, f, r
(* It is enough that the times of day are in order when the days are one.  *)
<1>8. SUFFICES ASSUME r \div Day = u \div Day PROVE s % Day <= u % Day
  <2>1. (r \div Day < u \div Day => r < u)
        /\ (r \div Day = u \div Day => (r <= u <=> r % Day <= u % Day))
    BY <1>2, DayOrder
  <2>2. r \div Day < u \div Day \/ r \div Day = u \div Day
    BY <1>1, <1>2, <1>6, Ordered, Zenon
  <2> QED BY <1>2, <1>8, <2>1, <2>2 DEF r
<1>9. CASE Cardinality(rec.min) = 1 /\ Cardinality(rec.hour) = 1
  <2>1. tm_hour(s) = tm_hour(u) /\ tm_min(s) = tm_min(u)
    <3>1. ASSUME NEW S, NEW k, k \in Int, S \subseteq 0 .. k, Cardinality(S) = 1,
                 NEW x \in S, NEW y \in S
          PROVE  x = y
      <4>1. IsFiniteSet(0 .. k)
        BY <3>1, FS_Interval
      <4>2. IsFiniteSet(S)
        BY <3>1, <4>1, FS_Subset
      <4>3. \E z : S = {z}
        BY <3>1, <4>2, FS_Singleton
      <4> QED BY <4>3
    <3>2. /\ rec.min \subseteq 0 .. HourMinutes - 1 /\ HourMinutes - 1 \in Int
          /\ rec.hour \subseteq 0 .. DayHours - 1 /\ DayHours - 1 \in Int
      BY Units DEF IsMask, HourMinutes, DayHours
    <3> HIDE DEF HourMinutes, DayHours
    <3>3. tm_hour(s) = tm_hour(u)
      BY <1>1, <1>3, <1>9, <3>1, <3>2
    <3>4. tm_min(s) = tm_min(u)
      BY <1>1, <1>3, <1>9, <3>1, <3>2
    <3> QED BY <3>3, <3>4
  <2>2. tm_min(s) <= tm_min(u)
    BY <1>1, <1>6, <2>1
  <2> QED BY <1>1, <1>3, <2>1, <2>2, ClockOrder
<1>10. CASE Permits(rec, f)
  <2>1. Good(rec, f \div Day) /\ tm_hour(f) \in rec.hour
    BY <1>7, <1>10
  <2>2. f \div Hour <= b \div Hour
    <3>1. f <= b
      BY <1>1, <1>4, Units
    <3> QED BY <1>1, <1>4, <3>1, Units, DivMono
  (* The first good day is the day of f if the clock ends on it.           *)
  <2>3. ASSUME s \div Day = f \div Day PROVE s \div Day = u \div Day
    <3>1. ~(s \div Day < r \div Day)
      <4> DEFINE i == s \div Day
                 j == r \div Day
      <4>1. i \in Nat /\ j \in Nat
        BY <1>1, <1>2, <1>6
      <4>2. i < j => i \in i .. j - 1
        <5> HIDE DEF i, j
        <5> QED BY <4>1
      <4> QED BY <1>2, <2>1, <2>3, <4>2
    <3> QED BY <1>1, <1>2, <1>6, <1>8, <3>1, Ordered, Zenon
  <2>4. CASE b \div Hour = f \div Hour
    <3>1. tm_hour(b) = tm_hour(f)
      BY <1>1, <1>4, <2>4, HourParts
    <3>2. s \div Hour = b \div Hour
      <4>1. ~(b \div Hour < s \div Hour)
        BY <1>1, <1>6, <2>1, <3>1, Ordered, Zenon
      <4> QED BY <1>1, <1>6, <4>1, Ordered, Zenon
    <3>3. s \div Day = f \div Day
      BY <1>1, <1>4, <2>4, <3>2, HourParts
    <3>4. s \div Day = u \div Day
      BY <2>3, <3>3
    <3>5. CASE s \div Hour < u \div Hour
      <4>1. tm_hour(s) < tm_hour(u)
        BY <1>1, <3>4, <3>5, HourParts
      <4> QED BY <1>1, <1>3, <4>1, ClockOrder
    <3>6. CASE s \div Hour = u \div Hour
      <4>1. tm_hour(s) = tm_hour(u)
        BY <1>1, <3>6, HourParts
      <4>2. b <= u
        BY <1>1, <1>3, <1>5
      <4>3. tm_min(b) <= tm_min(u)
        BY <1>1, <1>3, <3>2, <3>6, <4>2, HourOrder
      <4> QED BY <1>1, <1>3, <4>1, <4>3, ClockOrder
    <3> QED BY <1>1, <1>3, <1>6, <3>5, <3>6, Ordered, Zenon
  <2>5. CASE b \div Hour # f \div Hour
    <3>1. f \div Hour < b \div Hour
      BY <1>1, <1>4, <1>6, <2>2, <2>5, Ordered, Zenon
    (* An hour that is entered is entered at its first minute.             *)
    <3>2. tm_min(s) <= tm_min(u)
      <4>1. tm_min(u) \in 0 .. HourMinutes - 1 /\ b \div Hour \in Nat
        <5> HIDE DEF HourMinutes
        <5> QED BY <1>1, TimeParts
      <4>2. PICK w \in Nat : w % Minute = 0 /\ w \div Hour = b \div Hour /\ tm_min(w) = tm_min(u)
        <5> HIDE DEF HourMinutes
        <5> QED BY <4>1, EveryMinute
      <4>3. f < w
        BY <1>4, <3>1, <4>2, HourOrder
      <4>4. f + Minute <= w
        BY <1>4, <4>2, <4>3, NextMinute
      <4>5. b <= w
        BY <1>1, <1>3, <4>2, <4>4
      <4>6. tm_min(b) <= tm_min(w)
        BY <1>1, <4>2, <4>5, HourOrder
      <4> QED BY <1>1, <4>2, <4>6
    <3>3. b \div Hour <= (f \div Hour) + 1
      <4> DEFINE m == f \div Minute
      <4>1. m \in Nat /\ b \div Minute \in Nat
        BY <1>1, <1>4, <1>6
      <4>2. f \div Hour = m \div HourMinutes
        BY <1>4, ClockValues
      <4>3. b \div Hour = (b \div Minute) \div HourMinutes
        BY <1>1, ClockValues
      <4> HIDE DEF m, HourMinutes
      <4>4. (b \div Minute) \div HourMinutes <= (m + HourMinutes) \div HourMinutes
        <5>1. b \div Minute <= m + HourMinutes
          BY <1>1 DEF m
        <5> QED BY <4>1, <5>1, Units, DivMono
      <4>5. (m + 1 * HourMinutes) \div HourMinutes = (m \div HourMinutes) + 1
        BY <4>1, Units, Plus
      <4>6. 1 * HourMinutes = HourMinutes
        BY Units
      <4> QED BY <4>2, <4>3, <4>4, <4>5, <4>6
    <3>4. tm_hour(s) <= tm_hour(u)
      <4>1. CASE s \div Day = f \div Day
        <5>1. s \div Day = u \div Day
          BY <2>3, <4>1
        <5>2. s \div Hour < u \div Hour \/ s \div Hour = u \div Hour
          BY <1>1, <1>3, <1>6, Ordered, Zenon
        <5>3. tm_hour(s) < tm_hour(u) \/ tm_hour(s) = tm_hour(u)
          BY <1>1, <5>1, <5>2, HourParts
        <5> QED BY <1>1, <1>6, <5>3, Ordered, Zenon
      (* A day that is entered is entered at its first hour.               *)
      <4>2. CASE s \div Day # f \div Day
        <5>1. f \div Day < s \div Day
          <6>1. f \div Day <= s \div Day
            <7>1. f \div Hour <= s \div Hour
              BY <1>1, <1>4, <1>6, <2>2
            <7> QED BY <1>1, <1>4, <7>1, HourParts
          <6> QED BY <1>1, <1>4, <1>6, <4>2, <6>1, Ordered, Zenon
        <5>2. tm_hour(u) \in 0 .. DayHours - 1 /\ s \div Day \in Nat
          <6> HIDE DEF DayHours
          <6> QED BY <1>1, TimeParts
        <5> DEFINE d == s \div Day
        <5>3. PICK w \in Nat : w \div Hour = DayHours * d + tm_hour(u) /\ tm_hour(w) = tm_hour(u)
          <6> HIDE DEF DayHours, d
          <6> QED BY <5>2, EveryHour DEF d
        <5>4. w \div Day = d
          <6> DEFINE h == tm_hour(u)
          <6>1. w \div Day = (w \div Hour) \div DayHours
            BY ClockValues
          <6> HIDE DEF DayHours, d, h
          <6>2. (DayHours * d + h) \div DayHours = d
            <7>1. DayHours \in Nat \ {0} /\ d \in Int /\ h \in 0 .. DayHours - 1
              BY <5>2, Units DEF d, h
            <7> QED BY <7>1, Unique
          <6> QED BY <5>3, <6>1, <6>2 DEF h
        <5> HIDE DEF d
        <5>5. ~(w \div Hour <= f \div Hour)
          <6>1. w \div Hour <= f \div Hour => w \div Day <= f \div Day
            BY <1>4, HourParts
          <6> QED BY <1>1, <1>4, <1>6, <5>1, <5>4, <6>1 DEF d
        <5>6. b \div Hour <= w \div Hour
          <6> DEFINE x == b \div Hour
                     y == w \div Hour
                     z == f \div Hour
          <6>1. x \in Nat /\ y \in Nat /\ z \in Nat
            BY <1>1, <1>4, <1>6
          <6>2. x <= z + 1 /\ ~(y <= z)
            BY <3>3, <5>5
          <6> HIDE DEF x, y, z
          <6>3. x <= y
            BY <6>1, <6>2
          <6> QED BY <6>3 DEF x, y
        <5>7. ~(w \div Hour < s \div Hour)
          BY <1>1, <1>3, <5>3, <5>6
        <5>8. ~(tm_hour(w) < tm_hour(s))
          <6>1. s \div Hour < w \div Hour \/ s \div Hour = w \div Hour
            BY <1>1, <1>6, <5>7, Ordered, Zenon
          <6>2. tm_hour(s) < tm_hour(w) \/ tm_hour(s) = tm_hour(w)
            BY <1>1, <5>4, <6>1, HourParts DEF d
          <6> QED BY <1>1, <1>6, <6>2, Ordered, Zenon
        <5> QED BY <1>1, <1>6, <5>3, <5>8
      <4> QED BY <4>1, <4>2
    <3>5. tm_hour(s) < tm_hour(u) \/ tm_hour(s) = tm_hour(u)
      BY <1>1, <1>6, <3>4, Ordered, Zenon
    <3> QED BY <1>1, <1>3, <3>2, <3>5, ClockOrder
  <2> QED BY <2>4, <2>5
<1> QED BY <1>9, <1>10 DEF f

-----------------------------------------------------------------------------
(* Special periods move a time forward or to the end of the calendar.      *)
LEMMA BuildLater ==
  ASSUME NEW t \in Nat, t < End, NEW k \in Nat \ {0}
  PROVE  LET v == Build(MonthOf(t \div Day) + k, tm_mday(t \div Day), t % Day)
         IN  v = -1 \/ (v \in Nat /\ t <= v)
<1> DEFINE d == t \div Day
           c == t % Day
           m == MonthOf(d)
           n == m + k
           e == FirstDay[n] + tm_mday(d) - 1
           v == Build(n, tm_mday(d), c)
           time == e * Day + c
<1>1. /\ t = Day * d + c /\ c \in 0 .. Day - 1 /\ d \in Nat /\ Day \in Nat \ {0}
      /\ d \in 0 .. Days - 1
  BY TimeParts, DayOf, Units
<1> HIDE DEF d, c
<1>2. m \in Months /\ FirstDay[m] <= d
  BY <1>1, MonthValue
<1> HIDE DEF m
<1>3. m \in Nat /\ n \in Nat
  BY <1>2, CalendarValues
<1>4. v = IF n \notin Months THEN -1 ELSE IF time < End THEN time ELSE -1
  BY DEF Build
<1>5. ASSUME n \in Months PROVE time \in Nat /\ t <= time
  <2>1. FirstDay[m] < FirstDay[n] /\ FirstDay[m] \in Nat /\ FirstDay[n] \in Nat
    <3>1. m \in DOMAIN FirstDay /\ n \in DOMAIN FirstDay /\ m < n
      BY <1>2, <1>3, <1>5, CalendarValues
    <3> HIDE DEF n
    <3> QED BY <3>1, CalendarValues
  <2>2. e = FirstDay[n] + (d - FirstDay[m] + 1) - 1
    BY DEF tm_mday, m
  <2> HIDE DEF n
  <2>3. e \in Nat /\ d < e
    BY <1>1, <1>2, <2>1, <2>2
  <2> HIDE DEF e
  <2>4. Day * d + c < Day * e + c
    BY <1>1, <2>3, Parts
  <2>5. time = Day * e + c
    BY <1>1, <2>3
  <2> HIDE DEF time
  <2>6. Day * e \in Nat /\ Day * d \in Nat
    BY <1>1, <2>3
  <2> QED BY <1>1, <2>4, <2>5, <2>6
<1> HIDE DEF v, time, n
<1>6. v = -1 \/ (v \in Nat /\ t <= v)
  BY <1>4, <1>5
<1> QED BY <1>6 DEF v, n, m, d, c

LEMMA SpecialsValue ==
  ASSUME NEW rec, NEW t \in Nat, t < End
  PROVE  LET v == alarm_recur_handle_specials(rec, t) IN v = -1 \/ (v \in Nat /\ t <= v)
<1> DEFINE w == t + 2 * Week * Day
           p == Build(MonthOf(t \div Day) + 1, tm_mday(t \div Day), t % Day)
           q == Build(MonthOf(t \div Day) + Year, tm_mday(t \div Day), t % Day)
           v == alarm_recur_handle_specials(rec, t)
<1>1. p = -1 \/ (p \in Nat /\ t <= p)
  BY BuildLater
<1>2. q = -1 \/ (q \in Nat /\ t <= q)
  BY BuildLater, Units
<1>3. w \in Nat /\ t <= w
  <2>1. 2 * Week * Day \in Nat
    BY Units
  <2> QED BY <2>1
<1>4. v \in {w, p, q, t, -1}
  <2> HIDE DEF w, p, q
  <2>1. CASE rec.special = "BIWEEKLY"
    BY <2>1 DEF alarm_recur_handle_specials, w
  <2>2. CASE rec.special = "MONTHLY"
    BY <2>2 DEF alarm_recur_handle_specials, p
  <2>3. CASE rec.special = "YEARLY"
    BY <2>3 DEF alarm_recur_handle_specials, q
  <2>4. CASE rec.special \notin {"BIWEEKLY", "MONTHLY", "YEARLY"}
    BY <2>4 DEF alarm_recur_handle_specials
  <2> QED BY <2>1, <2>2, <2>3, <2>4
<1> HIDE DEF w, p, q, v
<1>5. v = -1 \/ (v \in Nat /\ t <= v)
  BY <1>1, <1>2, <1>3, <1>4
<1> QED BY <1>5 DEF v

(* Most recurrences have no special period.                                *)
LEMMA NoSpecial ==
  ASSUME NEW rec, rec.special = "NONE", NEW t
  PROVE  alarm_recur_handle_specials(rec, t) = t
BY DEF alarm_recur_handle_specials

(* A recurrence that has a time on a later day goes on.                    *)
LEMMA MasksGoOn ==
  ASSUME NEW rec, IsMask(rec), HasMask(rec), NEW t \in Nat,
         NEW u \in Nat, u < End, t \div Day < u \div Day, Permits(rec, u)
  PROVE  alarm_recur_handle_masks(rec, t, 1) # -1
<1> DEFINE s == Clock(rec, t, 1)
           r == alarm_recur_handle_masks(rec, t, 1)
           i == s.t \div Day
           d == u \div Day
<1>1. Aligned(rec, r, s)
  BY MasksValue
<1>2. /\ s.t \in Nat /\ s.inc \in {0, 1} /\ s.res \in {-1, s.t}
      /\ s.inc = 1 => s.t = t
      /\ s.res = -1 => rec.min = {} /\ rec.hour = {}
  BY ClockSuits DEF IsTime
<1>3. Suits(rec, u) /\ Good(rec, d) /\ d \in 0 .. Days - 1
  BY Permission, DayOf
<1>4. t + 1 <= u
  <2>1. t < u
    BY DayOrder
  <2> QED BY <2>1
<1>5. t \div Hour < u \div Hour
  <2>1. ~(u \div Hour <= t \div Hour)
    <3>1. u \div Hour <= t \div Hour => d <= t \div Day
      BY HourParts
    <3>2. t \div Day \in Nat /\ d \in Nat
      BY TimeParts
    <3> QED BY <3>1, <3>2, Ordered, Zenon
  <2>2. t \div Hour \in Nat
    BY TimeParts
  <2>3. u \div Hour \in Nat
    BY TimeParts
  <2> QED BY <2>1, <2>2, <2>3, Ordered, Zenon
<1>6. i <= d /\ i \in Nat /\ (s.inc = 1 => i < d)
  <2>1. i <= d
    BY <1>3, <1>4, <1>5, ClockComplete
  <2>2. i \in Nat
    BY <1>2, TimeParts
  <2> HIDE DEF s
  <2>3. s.inc = 1 => i < d
    BY <1>2
  <2> QED BY <2>1, <2>2, <2>3
<1>7. Days \in Nat
  BY CalendarValues
<1> HIDE DEF s, r
<1>8. i \in 0 .. Days - 1 /\ d \in i + s.inc .. Days - 1
  <2> HIDE DEF i, d
  <2> QED BY <1>2, <1>3, <1>6, <1>7
<1>9. s.t < End
  BY <1>2, <1>8, DayOf
<1>10. CASE Dated(rec)
  <2>1. r \in Nat
    <3> HIDE DEF d
    <3> QED BY <1>1, <1>3, <1>8, <1>9, <1>10 DEF Aligned
  <2> QED BY <2>1 DEF r
<1>11. CASE ~Dated(rec)
  <2>1. r = s.res
    BY <1>1, <1>9, <1>11 DEF Aligned
  <2>2. s.res # -1
    BY <1>2, <1>11 DEF Dated, HasMask
  <2> QED BY <2>1, <2>2 DEF r
<1> QED BY <1>10, <1>11

-----------------------------------------------------------------------------
(* What the server makes of them.                                          *)
Types == alarm \in Alarms /\ since \in Nat \ {0} /\ trigger \in Nat

(* What the constants say of alarms.                                       *)
LEMMA AlarmValues ==
  ASSUME NEW a \in Alarms
  PROVE  /\ \A i \in DOMAIN a.tab : IsMask(a.tab[i])
         /\ DOMAIN a.tab = 1 .. Len(a.tab)
         /\ a.time \in Int /\ (a.tm # << >> => IsMask(a.tm[1]))
         /\ MaxTime \in Nat /\ MaxTime < End /\ End \in Nat
<1>1. End \in Nat
  BY CalendarValues, Units DEF End
<1>2. MaxTime \in Nat /\ MaxTime < End
  BY <1>1, RecurTypes
<1> QED BY <1>1, <1>2, RecurTypes

(* Triggers are looked for from now or later.                              *)
LEMMA LowValue ==
  ASSUME NEW a \in Alarms, NEW t \in Nat \ {0}
  PROVE  LowBound(a, t, a.time) \in Nat \ {0} /\ t <= LowBound(a, t, a.time)
<1> DEFINE p == alarm_recur_align(a.tm[1], t)
           base == CASE a.time > 0                    -> a.time
                     [] a.time <= 0 /\ a.tm = << >> -> t
                     [] OTHER                         -> p
<1>1. a.time \in Int
  BY AlarmValues
<1>2. a.tm # << >> => p \in Int
  <2> SUFFICES ASSUME a.tm # << >> PROVE p \in Int
    OBVIOUS
  <2>1. IsMask(a.tm[1])
    BY AlarmValues
  <2>2. p = -1 \/ p \in Nat
    BY <2>1, MasksSound DEF alarm_recur_align
  <2> QED BY <2>2
<1>3. LowBound(a, t, a.time) = IF base < t THEN t ELSE base
  BY DEF LowBound
<1> HIDE DEF p
<1>4. base \in Int
  <2>1. CASE a.time > 0
    BY <1>1, <2>1
  <2>2. CASE a.time <= 0 /\ a.tm = << >>
    BY <1>1, <2>2
  <2>3. CASE a.time <= 0 /\ a.tm # << >>
    BY <1>1, <1>2, <2>3
  <2> QED BY <1>1, <2>1, <2>2, <2>3
<1> HIDE DEF base
<1> QED BY <1>3, <1>4

(* The first trigger: the low bound, or the least time after it that some  *)
(* recurrence aligns to.                                                   *)
LEMMA FirstValue ==
  ASSUME NEW a \in Alarms, NEW low \in Nat
  PROVE  LET g == GetNextTrigger(a, low)
             at(i) == alarm_recur_align(a.tab[i], low)
         IN  /\ g \in Nat /\ low <= g
             /\ \A i \in DOMAIN a.tab : at(i) \in Nat /\ low < at(i) => low < g /\ g <= at(i)
             /\ g # low => \E i \in DOMAIN a.tab : g = at(i) /\ g # -1
<1> DEFINE at(i) == alarm_recur_align(a.tab[i], low)
           later == {t \in {at(i) : i \in DOMAIN a.tab} : low < t}
           g == GetNextTrigger(a, low)
<1>1. \A i \in DOMAIN a.tab : at(i) = -1 \/ at(i) \in Nat
  <2> SUFFICES ASSUME NEW i \in DOMAIN a.tab PROVE at(i) = -1 \/ at(i) \in Nat
    OBVIOUS
  <2>1. IsMask(a.tab[i])
    BY AlarmValues
  <2> QED BY <2>1, MasksSound DEF alarm_recur_align
<1>2. g = IF later = {} THEN low ELSE Min(later)
  BY DEF GetNextTrigger
<1> HIDE DEF at, g
<1>3. later \in SUBSET Nat
  BY <1>1
<1>4. CASE later = {}
  <2>1. \A i \in DOMAIN a.tab : ~(at(i) \in Nat /\ low < at(i))
    BY <1>4
  <2> HIDE DEF later
  <2> QED BY <1>2, <1>4, <2>1 DEF g, at
<1>5. CASE later # {}
  <2>1. g \in later /\ \A t \in later : g <= t
    <3> HIDE DEF later
    <3> QED BY <1>2, <1>3, <1>5, MinValue
  <2>2. \E i \in DOMAIN a.tab : g = at(i)
    BY <2>1
  <2>3. g \in Nat /\ low < g
    BY <1>3, <2>1
  <2>4. \A i \in DOMAIN a.tab : at(i) \in Nat /\ low < at(i) => low < g /\ g <= at(i)
    BY <2>1, <2>3
  <2>5. low <= g /\ g # -1
    BY <2>3
  <2> HIDE DEF later
  <2> QED BY <2>2, <2>3, <2>4, <2>5 DEF g, at
<1> QED BY <1>4, <1>5

(* The trigger of an alarm that has been served.                           *)
LEMMA ServedValue ==
  ASSUME NEW rec, IsMask(rec), NEW now \in Nat, now < End
  PROVE  LET r == alarm_recur_next(rec, now)
         IN  r = -1 \/ (r \in Nat /\ now < r /\ Permits(rec, r))
<1> DEFINE v == alarm_recur_handle_specials(rec, now)
           r == alarm_recur_handle_masks(rec, v, 1)
<1>1. v = -1 \/ (v \in Nat /\ now <= v)
  BY SpecialsValue
<1>2. alarm_recur_next(rec, now) = r
  BY DEF alarm_recur_next
<1> HIDE DEF v
<1>3. CASE v = -1
  <2>1. v < 0
    BY <1>3
  <2>2. r = -1
    BY <2>1 DEF alarm_recur_handle_masks
  <2> QED BY <1>2, <2>2
<1>4. CASE v \in Nat /\ now <= v
  <2>1. r # -1 => r \in Nat /\ v < r /\ Permits(rec, r)
    BY <1>4, MasksSound
  <2> HIDE DEF r
  <2> QED BY <1>2, <1>4, <2>1
<1> QED BY <1>1, <1>3, <1>4

(* The least of what the recurrences give next.                            *)
LEMMA NextValue ==
  ASSUME NEW a \in Alarms, NEW now \in Nat, now < End
  PROVE  LET g == NextRecurrence(a, now)
             at(i) == alarm_recur_next(a.tab[i], now)
         IN  /\ g \in Nat
             /\ \A i \in DOMAIN a.tab : at(i) # -1 => now < g /\ g <= at(i)
             /\ g # 0 => \E i \in DOMAIN a.tab : g = at(i) /\ g # -1
<1> DEFINE at(i) == alarm_recur_next(a.tab[i], now)
           next == {t \in {at(i) : i \in DOMAIN a.tab} : t > 0}
           g == NextRecurrence(a, now)
<1>1. \A i \in DOMAIN a.tab : at(i) = -1 \/ (at(i) \in Nat /\ now < at(i))
  <2> SUFFICES ASSUME NEW i \in DOMAIN a.tab
               PROVE  at(i) = -1 \/ (at(i) \in Nat /\ now < at(i))
    OBVIOUS
  <2>1. IsMask(a.tab[i])
    BY AlarmValues
  <2> QED BY <2>1, ServedValue
<1>2. g = IF next = {} THEN 0 ELSE Min(next)
  BY DEF NextRecurrence
<1> HIDE DEF at, g
<1>3. \A t \in next : t \in Nat /\ now < t
  BY <1>1
<1>4. \A i \in DOMAIN a.tab : at(i) # -1 => at(i) \in next
  BY <1>1
<1>5. \A t \in next : \E i \in DOMAIN a.tab : t = at(i)
  OBVIOUS
<1> HIDE DEF next
<1>6. CASE next = {}
  <2>1. \A i \in DOMAIN a.tab : at(i) = -1
    BY <1>4, <1>6
  <2> QED BY <1>2, <1>6, <2>1 DEF g, at
<1>7. CASE next # {}
  <2>1. g \in next /\ \A t \in next : g <= t
    <3>1. next \in SUBSET Nat
      BY <1>3
    <3> QED BY <1>2, <1>7, <3>1, MinValue
  <2>2. /\ g \in Nat /\ now < g /\ g # -1
        /\ \A i \in DOMAIN a.tab : at(i) # -1 => now < g /\ g <= at(i)
        /\ \E i \in DOMAIN a.tab : g = at(i)
    <3>1. g \in Nat /\ now < g
      BY <1>3, <2>1
    <3>2. g # -1
      BY <3>1
    <3> QED BY <1>4, <1>5, <2>1, <3>1, <3>2, Zenon
  <2> QED BY <2>2, Zenon DEF g, at
<1> QED BY <1>6, <1>7

-----------------------------------------------------------------------------
(* The states.                                                             *)
LEMMA InitValues ==
  ASSUME Init
  PROVE  /\ alarm \in Alarms /\ trigger = GetNextTrigger(alarm, since)
         /\ \E t \in 1 .. MaxTime : since = LowBound(alarm, t, alarm.time)
BY DEF Init

LEMMA RecurValues ==
  ASSUME Types, Recur
  PROVE  /\ alarm' = alarm /\ trigger # 0
         /\ \E now \in 1 .. MaxTime : /\ since' = now + 1
                                      /\ trigger' = NextRecurrence(alarm, now)
<1>1. PICK delay \in Delays : /\ trigger + delay <= MaxTime
                              /\ since' = trigger + delay + 1
                              /\ trigger' = NextRecurrence(alarm, trigger + delay)
  BY DEF Recur
<1> DEFINE now == trigger + delay
<1>2. trigger \in Nat /\ trigger # 0 /\ delay \in Nat /\ MaxTime \in Nat
  BY AlarmValues, RecurTypes DEF Types, Recur
<1>3. now \in 1 .. MaxTime
  BY <1>1, <1>2
<1> HIDE DEF now
<1>4. since' = now + 1 /\ trigger' = NextRecurrence(alarm, now)
  BY <1>1 DEF now
<1> QED BY <1>3, <1>4 DEF Recur

LEMMA RescheduleValues ==
  ASSUME Types, Reschedule
  PROVE  /\ alarm' = alarm /\ trigger' = GetNextTrigger(alarm', since')
         /\ \E t \in 1 .. MaxTime : since' = LowBound(alarm, t, alarm.time)
BY DEF Reschedule, Types

(* Triggers are times, 0 when the alarm was deleted, and never an error    *)
(* that is taken for a time.                                               *)
LEMMA TypesInit == Init => Types
<1> SUFFICES ASSUME Init PROVE Types
  OBVIOUS
<1>1. PICK t \in 1 .. MaxTime : since = LowBound(alarm, t, alarm.time)
  BY InitValues
<1>2. alarm \in Alarms /\ trigger = GetNextTrigger(alarm, since)
  BY InitValues
<1>3. t \in Nat \ {0}
  BY <1>2, AlarmValues
<1>4. since \in Nat \ {0}
  BY <1>1, <1>2, <1>3, LowValue
<1>5. trigger \in Nat
  BY <1>2, <1>4, FirstValue
<1> QED BY <1>2, <1>4, <1>5 DEF Types

LEMMA TypesNext == Types /\ [Next]_vars => Types'
<1> SUFFICES ASSUME Types, [Next]_vars PROVE Types'
  OBVIOUS
<1>1. CASE Recur
  <2>1. PICK now \in 1 .. MaxTime : since' = now + 1 /\ trigger' = NextRecurrence(alarm, now)
    BY <1>1, RecurValues
  <2>2. alarm' = alarm /\ alarm \in Alarms
    BY <1>1, RecurValues DEF Types
  <2>3. now \in Nat /\ now < End
    BY <2>2, AlarmValues
  <2>4. trigger' \in Nat
    BY <2>1, <2>2, <2>3, NextValue
  <2> QED BY <2>1, <2>2, <2>3, <2>4 DEF Types
<1>2. CASE Reschedule
  <2>1. PICK t \in 1 .. MaxTime : since' = LowBound(alarm, t, alarm.time)
    BY <1>2, RescheduleValues
  <2>2. alarm' = alarm /\ alarm \in Alarms /\ trigger' = GetNextTrigger(alarm, since')
    BY <1>2, RescheduleValues DEF Types
  <2>3. t \in Nat \ {0}
    BY <2>2, AlarmValues
  <2>4. since' \in Nat \ {0}
    BY <2>1, <2>2, <2>3, LowValue
  <2>5. trigger' \in Nat
    BY <2>2, <2>4, FirstValue
  <2> QED BY <2>2, <2>4, <2>5 DEF Types
<1>3. CASE UNCHANGED vars
  BY <1>3 DEF Types, vars
<1> QED BY <1>1, <1>2, <1>3 DEF Next

(* Type correctness: what server.c takes for a trigger is never one of the *)
(* errors of recurrence.c.                                                 *)
THEOREM TriggersAreTimes == Spec => []Types
<1>1. Init => Types
  BY TypesInit
<1>2. Types /\ [Next]_vars => Types'
  BY TypesNext
<1> QED BY <1>1, <1>2, PTL DEF Spec

-----------------------------------------------------------------------------
(* An alarm rings when it may.                                             *)
LEMMA FirstPermitted ==
  ASSUME NEW a \in Alarms, NEW low \in Nat,
         \E i \in DOMAIN a.tab, u \in low .. End - 1 : Permits(a.tab[i], u)
  PROVE  \E i \in DOMAIN a.tab : Permits(a.tab[i], GetNextTrigger(a, low))
<1> DEFINE at(i) == alarm_recur_align(a.tab[i], low)
           g == GetNextTrigger(a, low)
<1>1. /\ \A i \in DOMAIN a.tab : at(i) \in Nat /\ low < at(i) => low < g /\ g <= at(i)
      /\ g # low => \E i \in DOMAIN a.tab : g = at(i) /\ g # -1
  BY FirstValue
<1>2. \A i \in DOMAIN a.tab : at(i) # -1 => /\ at(i) \in Nat /\ low <= at(i)
                                            /\ Permits(a.tab[i], at(i))
  <2> SUFFICES ASSUME NEW i \in DOMAIN a.tab, at(i) # -1
               PROVE  at(i) \in Nat /\ low <= at(i) /\ Permits(a.tab[i], at(i))
    OBVIOUS
  <2>1. IsMask(a.tab[i])
    BY AlarmValues
  <2>2. at(i) = alarm_recur_handle_masks(a.tab[i], low, 0)
    BY DEF alarm_recur_align
  <2> HIDE DEF at
  <2> QED BY <2>1, <2>2, MasksSound
<1>3. PICK i \in DOMAIN a.tab, u \in low .. End - 1 : Permits(a.tab[i], u)
  OBVIOUS
<1>4. at(i) = -1 => Permits(a.tab[i], low)
  <2> SUFFICES ASSUME at(i) = -1 PROVE Permits(a.tab[i], low)
    OBVIOUS
  <2>1. IsMask(a.tab[i])
    BY AlarmValues
  <2>2. alarm_recur_handle_masks(a.tab[i], low, 0) = -1
    BY DEF alarm_recur_align
  <2>3. u \in Nat /\ low <= u /\ u < End
    BY AlarmValues
  <2> QED BY <1>3, <2>1, <2>2, <2>3, MasksComplete
<1> HIDE DEF at, g
<1>5. CASE g = low
  <2>1. at(i) = -1 \/ at(i) = low
    BY <1>1, <1>2, <1>5
  <2> QED BY <1>2, <1>4, <1>5, <2>1 DEF g
<1>6. CASE g # low
  BY <1>1, <1>2, <1>6 DEF g
<1> QED BY <1>5, <1>6

(* However the masks are worked through, the time they lead to is one that *)
(* some recurrence permits: if there is one at all when the alarm is given *)
(* to the queue.                                                           *)
THEOREM RingsWhenPermitted ==
  ASSUME Foreseen
  PROVE  Spec => []TriggerPermitted
<1>1. Init => TriggerPermitted
  <2> SUFFICES ASSUME Init PROVE Permitted(trigger)
    BY DEF TriggerPermitted
  <2>1. PICK t \in 1 .. MaxTime : since = LowBound(alarm, t, alarm.time)
    BY InitValues
  <2>2. alarm \in Alarms /\ trigger = GetNextTrigger(alarm, since) /\ since \in Nat
    BY InitValues, TypesInit DEF Types
  <2>3. \E i \in DOMAIN alarm.tab, u \in since .. End - 1 : Permits(alarm.tab[i], u)
    BY <2>1, <2>2 DEF Foreseen
  <2> QED BY <2>2, <2>3, FirstPermitted DEF Permitted
<1>2. TriggerPermitted /\ Types /\ [Next]_vars => TriggerPermitted'
  <2> SUFFICES ASSUME TriggerPermitted, Types, [Next]_vars PROVE TriggerPermitted'
    OBVIOUS
  <2>1. CASE Recur
    <3>1. PICK now \in 1 .. MaxTime : trigger' = NextRecurrence(alarm, now)
      BY <2>1, RecurValues
    <3>2. alarm' = alarm /\ alarm \in Alarms
      BY <2>1, RecurValues DEF Types
    <3>3. now \in Nat /\ now < End
      BY <3>2, AlarmValues
    <3>4. trigger' # 0 => \E i \in DOMAIN alarm.tab :
                            trigger' = alarm_recur_next(alarm.tab[i], now) /\ trigger' # -1
      BY <3>1, <3>2, <3>3, NextValue
    <3>5. ASSUME NEW i \in DOMAIN alarm.tab,
                 trigger' = alarm_recur_next(alarm.tab[i], now), trigger' # -1
          PROVE  Permits(alarm.tab[i], trigger')
      <4>1. IsMask(alarm.tab[i])
        BY <3>2, AlarmValues
      <4> QED BY <3>3, <3>5, <4>1, ServedValue
    <3> QED BY <3>2, <3>4, <3>5 DEF TriggerPermitted, Permitted
  <2>2. CASE Reschedule
    <3>1. PICK t \in 1 .. MaxTime : since' = LowBound(alarm, t, alarm.time)
      BY <2>2, RescheduleValues
    <3>2. alarm' = alarm /\ alarm \in Alarms /\ trigger' = GetNextTrigger(alarm, since')
          /\ since' \in Nat
      BY <2>2, RescheduleValues, TypesNext DEF Types
    <3>3. \E i \in DOMAIN alarm.tab, u \in since' .. End - 1 : Permits(alarm.tab[i], u)
      BY <3>1, <3>2 DEF Foreseen
    <3>4. \E i \in DOMAIN alarm.tab : Permits(alarm.tab[i], trigger')
      BY <3>2, <3>3, FirstPermitted
    <3> QED BY <3>2, <3>4 DEF TriggerPermitted, Permitted
  <2>3. CASE UNCHANGED vars
    BY <2>3 DEF TriggerPermitted, Permitted, vars
  <2> QED BY <2>1, <2>2, <2>3 DEF Next
<1> QED BY <1>1, <1>2, TriggersAreTimes, PTL DEF Spec

-----------------------------------------------------------------------------
(* Nothing that is permitted is passed over.                               *)
Sure(a, low) ==
  \/ /\ \A i \in DOMAIN a.tab : Single(a.tab[i])
     /\ Len(a.tab) = 1 \/ ~\E i \in DOMAIN a.tab : Permits(a.tab[i], low)
  \/ /\ Len(a.tab) = 1 /\ Timed(a.tab[1])
     /\ \E i \in DOMAIN a.tab : Permits(a.tab[i], Floor(low - 1))

(* A single recurrence passes over nothing ...                             *)
LEMMA SureMasks ==
  ASSUME NEW a \in Alarms, NEW i \in DOMAIN a.tab, NEW t \in Nat, NEW inc \in {0, 1},
         t + inc > 0, Sure(a, t + inc),
         NEW u \in Nat, t + inc <= u, u < End, Permits(a.tab[i], u)
  PROVE  LET r == alarm_recur_handle_masks(a.tab[i], t, inc)
         IN  r \in Nat /\ r <= u /\ a.tab[i].special = "NONE"
<1> DEFINE rec == a.tab[i]
           x == t + inc - 1
<1>1. IsMask(rec) /\ DOMAIN a.tab = 1 .. Len(a.tab)
  BY AlarmValues
<1>2. x \in Nat /\ x = (t + inc) - 1
  OBVIOUS
<1>3. Floor(x) \in Nat
  <2> DEFINE q == x \div Minute
             r == x % Minute
  <2>1. x = Minute * q + r /\ r \in 0 .. Minute - 1 /\ q \in Nat /\ Minute \in Nat
    <3>1. x \in Int /\ Minute \in Nat \ {0}
      BY <1>2, Units
    <3>2. x = Minute * q + r /\ r \in 0 .. Minute - 1
      BY <3>1, DivMod
    <3>3. q \in Nat
      BY <1>2, <3>1, DivNat
    <3> QED BY <3>1, <3>2, <3>3
  <2>2. Floor(x) = x - r
    BY DEF Floor
  <2> HIDE DEF x, q, r
  <2>3. Minute * q \in Nat
    BY <2>1
  <2> QED BY <1>2, <2>1, <2>2, <2>3
<1>4. Timed(rec) /\ \/ Cardinality(rec.min) = 1 /\ Cardinality(rec.hour) = 1
                    \/ Permits(rec, Floor(x))
  <2>1. CASE \A j \in DOMAIN a.tab : Single(a.tab[j])
    BY <2>1 DEF Single
  <2>2. CASE /\ Len(a.tab) = 1 /\ Timed(a.tab[1])
             /\ \E j \in DOMAIN a.tab : Permits(a.tab[j], Floor(x))
    <3>1. \A j \in DOMAIN a.tab : j = 1
      BY <1>1, <2>2
    <3> HIDE DEF x
    <3> QED BY <2>2, <3>1
  <2> QED BY <1>2, <2>1, <2>2, Zenon DEF Sure
<1>5. rec.min # {} /\ rec.hour # {} /\ rec.special = "NONE"
  BY <1>4 DEF Timed
<1> HIDE DEF rec
<1>6. Permits(rec, u)
  BY DEF rec
<1> QED BY <1>1, <1>3, <1>4, <1>5, <1>6, NoneBefore DEF rec

(* ... so the first trigger does not ...                                   *)
LEMMA FirstSure ==
  ASSUME NEW a \in Alarms, NEW low \in Nat \ {0}, Sure(a, low),
         NEW u \in low .. GetNextTrigger(a, low) - 1, NEW i \in DOMAIN a.tab
  PROVE  ~Permits(a.tab[i], u)
<1> SUFFICES ASSUME Permits(a.tab[i], u) PROVE FALSE
  OBVIOUS
<1> DEFINE at(j) == alarm_recur_align(a.tab[j], low)
           g == GetNextTrigger(a, low)
<1>1. /\ g \in Nat /\ low <= g
      /\ \A j \in DOMAIN a.tab : at(j) \in Nat /\ low < at(j) => low < g /\ g <= at(j)
      /\ g # low => \E j \in DOMAIN a.tab : g = at(j) /\ g # -1
  BY FirstValue
<1>2. ASSUME NEW j \in DOMAIN a.tab, at(j) # -1
      PROVE  at(j) \in Nat /\ at(j) < End /\ low <= at(j) /\ Permits(a.tab[j], at(j))
  <2>1. IsMask(a.tab[j])
    BY AlarmValues
  <2>2. at(j) = alarm_recur_handle_masks(a.tab[j], low, 0)
    BY DEF alarm_recur_align
  <2>3. alarm_recur_handle_masks(a.tab[j], low, 0) # -1
    BY <1>2, <2>2
  <2> HIDE DEF at
  <2> QED BY <2>1, <2>2, <2>3, MasksSound
<1>3. End \in Nat
  BY AlarmValues
<1> HIDE DEF g, at
<1>4. u \in Nat /\ low <= u /\ u < g
  BY <1>1 DEF g
<1>5. PICK j \in DOMAIN a.tab : g = at(j) /\ g # -1
  BY <1>1, <1>4
<1>6. u < End
  BY <1>1, <1>2, <1>3, <1>4, <1>5
<1>7. at(i) \in Nat /\ at(i) <= u
  <2>1. low + 0 = low /\ low + 0 > 0 /\ low + 0 <= u /\ 0 \in {0, 1} /\ low \in Nat
    BY <1>4
  <2>3. Sure(a, low + 0)
    BY <2>1
  <2>2. /\ alarm_recur_handle_masks(a.tab[i], low, 0) \in Nat
        /\ alarm_recur_handle_masks(a.tab[i], low, 0) <= u
    <3> DEFINE n == 0
               m == low + n
    <3>1. n \in {0, 1} /\ m > 0 /\ Sure(a, m) /\ m <= u
      BY <2>1, <2>3
    <3>2. /\ alarm_recur_handle_masks(a.tab[i], low, n) \in Nat
          /\ alarm_recur_handle_masks(a.tab[i], low, n) <= u
      <4> HIDE DEF n
      <4> QED BY <1>4, <1>6, <2>1, <3>1, SureMasks
    <3> QED BY <3>2
  <2> QED BY <2>2 DEF at, alarm_recur_align
<1>8. ~(low < at(i)) /\ at(i) # -1
  BY <1>1, <1>4, <1>7
<1>9. at(i) = low /\ Permits(a.tab[i], low)
  <2>1. low <= at(i) /\ Permits(a.tab[i], at(i))
    BY <1>2, <1>8
  <2>2. at(i) = low
    BY <1>7, <1>8, <2>1
  <2> QED BY <2>1, <2>2
(* Another recurrence is later than low, so there is more than one ...     *)
<1>10. j # i /\ g # low
  BY <1>4, <1>5, <1>9
<1>11. Len(a.tab) # 1
  <2>1. DOMAIN a.tab = 1 .. Len(a.tab)
    BY AlarmValues
  <2> SUFFICES ASSUME Len(a.tab) = 1 PROVE FALSE
    OBVIOUS
  <2>2. j \in 1 .. 1 /\ i \in 1 .. 1
    BY <2>1
  <2> QED BY <1>10, <2>2
(* ... and low is not one that is permitted.                               *)
<1> QED BY <1>9, <1>11 DEF Sure

(* ... nor the next one.                                                   *)
LEMMA NextSure ==
  ASSUME NEW a \in Alarms, NEW now \in Nat, now < End, Sure(a, now + 1),
         NEW u \in now + 1 .. NextRecurrence(a, now) - 1, NEW i \in DOMAIN a.tab
  PROVE  ~Permits(a.tab[i], u)
<1> SUFFICES ASSUME Permits(a.tab[i], u) PROVE FALSE
  OBVIOUS
<1> DEFINE at(j) == alarm_recur_next(a.tab[j], now)
           g == NextRecurrence(a, now)
<1>1. /\ g \in Nat
      /\ \A j \in DOMAIN a.tab : at(j) # -1 => now < g /\ g <= at(j)
      /\ g # 0 => \E j \in DOMAIN a.tab : g = at(j) /\ g # -1
  BY NextValue
<1>2. u \in Nat /\ now + 1 <= u /\ u < g
  BY <1>1
<1>3. PICK j \in DOMAIN a.tab : g = at(j) /\ g # -1
  BY <1>1, <1>2
<1>4. g < End
  <2>1. IsMask(a.tab[j])
    BY AlarmValues
  <2>2. g = alarm_recur_handle_masks(a.tab[j], alarm_recur_handle_specials(a.tab[j], now), 1)
    BY <1>3 DEF alarm_recur_next
  <2> DEFINE v == alarm_recur_handle_specials(a.tab[j], now)
  <2>3. v = -1 \/ v \in Nat
    BY SpecialsValue
  <2>4. v # -1
    <3> SUFFICES ASSUME v = -1 PROVE FALSE
      OBVIOUS
    <3>1. v < 0
      OBVIOUS
    <3> QED BY <1>3, <2>2, <3>1 DEF alarm_recur_handle_masks
  <2> HIDE DEF v, at
  <2> QED BY <1>3, <2>1, <2>2, <2>3, <2>4, MasksSound DEF v
<1>5. u < End
  BY <1>1, <1>2, <1>4, AlarmValues
<1> HIDE DEF g
<1>6. at(i) \in Nat /\ at(i) <= u
  <2>1. now + 1 > 0 /\ 1 \in {0, 1}
    OBVIOUS
  <2>2. /\ alarm_recur_handle_masks(a.tab[i], now, 1) \in Nat
        /\ alarm_recur_handle_masks(a.tab[i], now, 1) <= u
        /\ a.tab[i].special = "NONE"
    BY <1>2, <1>5, <2>1, SureMasks
  <2>3. alarm_recur_handle_specials(a.tab[i], now) = now
    BY <2>2, NoSpecial
  <2> QED BY <2>2, <2>3 DEF at, alarm_recur_next
<1> HIDE DEF at
<1> QED BY <1>1, <1>2, <1>6

(* A time that is permitted is passed over neither when the alarm is given *)
(* to the queue, nor when the clock is changed, nor when it was served, in *)
(* the cases that NoneSkipped tells.                                       *)
THEOREM PermittedNotSkipped == Spec => []NoneSkipped
<1> DEFINE Skips(tab, low, g) ==
      \A u \in low .. g - 1 : \A i \in DOMAIN tab : ~Permits(tab[i], u)
<1>1. NoneSkipped <=> (Sure(alarm, since) => Skips(alarm.tab, since, trigger))
  BY Zenon DEF NoneSkipped, Permitted, Sure, Floor
<1>2. Init => NoneSkipped
  <2> SUFFICES ASSUME Init, Sure(alarm, since) PROVE Skips(alarm.tab, since, trigger)
    BY <1>1
  <2>1. alarm \in Alarms /\ trigger = GetNextTrigger(alarm, since) /\ since \in Nat \ {0}
    BY InitValues, TypesInit DEF Types
  <2> QED BY <2>1, FirstSure
<1>3. NoneSkipped /\ Types /\ [Next]_vars => NoneSkipped'
  <2> SUFFICES ASSUME NoneSkipped, Types, [Next]_vars PROVE NoneSkipped'
    OBVIOUS
  <2>1. NoneSkipped' <=> (Sure(alarm', since') => Skips(alarm'.tab, since', trigger'))
    BY Zenon DEF NoneSkipped, Permitted, Sure, Floor
  <2>2. CASE Recur
    <3> SUFFICES ASSUME Sure(alarm', since') PROVE Skips(alarm'.tab, since', trigger')
      BY <2>1
    <3>1. PICK now \in 1 .. MaxTime : since' = now + 1 /\ trigger' = NextRecurrence(alarm, now)
      BY <2>2, RecurValues
    <3>2. alarm' = alarm /\ alarm \in Alarms
      BY <2>2, RecurValues DEF Types
    <3>3. now \in Nat /\ now < End
      BY <3>2, AlarmValues
    <3>4. \A u \in now + 1 .. NextRecurrence(alarm, now) - 1 : \A i \in DOMAIN alarm.tab :
            ~Permits(alarm.tab[i], u)
      BY <3>1, <3>2, <3>3, NextSure
    <3> QED BY <3>1, <3>2, <3>4
  <2>3. CASE Reschedule
    <3> SUFFICES ASSUME Sure(alarm', since') PROVE Skips(alarm'.tab, since', trigger')
      BY <2>1
    <3>1. /\ alarm' \in Alarms /\ since' \in Nat \ {0}
          /\ trigger' = GetNextTrigger(alarm', since')
      BY <2>3, RescheduleValues, TypesNext DEF Types
    <3> QED BY <3>1, FirstSure
  <2>4. CASE UNCHANGED vars
    BY <1>1, <2>1, <2>4 DEF vars
  <2> QED BY <2>2, <2>3, <2>4 DEF Next
<1> QED BY <1>2, <1>3, TriggersAreTimes, PTL DEF Spec

(* An alarm that was served rings again, later than it was: if one of its  *)
(* recurrences has a time on a later day.                                  *)
THEOREM RingsAgainLater ==
  ASSUME Lasting
  PROVE  Spec => GoesOn
<1>1. Types /\ [Next]_vars => [Recur => trigger' >= since']_vars
  <2> SUFFICES ASSUME Types, Recur PROVE trigger' >= since'
    OBVIOUS
  <2>1. PICK now \in 1 .. MaxTime : since' = now + 1 /\ trigger' = NextRecurrence(alarm, now)
    BY RecurValues
  <2>2. alarm \in Alarms
    BY DEF Types
  <2>3. now \in Nat /\ now < End /\ End \in Nat
    BY <2>2, AlarmValues
  <2>4. PICK i \in DOMAIN alarm.tab :
          LET rec == alarm.tab[i]
              t1  == alarm_recur_handle_specials(rec, now)
          IN /\ t1 >= 0 /\ HasMask(rec)
             /\ \E u \in t1 .. End - 1 : u \div Day > t1 \div Day /\ Permits(rec, u)
    BY <2>2, Zenon DEF Lasting
  <2> DEFINE rec == alarm.tab[i]
             t1  == alarm_recur_handle_specials(rec, now)
  <2>5. t1 \in Nat
    BY <2>3, <2>4, SpecialsValue
  <2>6. IsMask(rec)
    BY <2>2, AlarmValues
  <2>7. PICK u \in t1 .. End - 1 : u \div Day > t1 \div Day /\ Permits(rec, u)
    BY <2>4
  <2> HIDE DEF rec, t1
  <2>8. u \in Nat /\ u < End
    BY <2>3, <2>5
  <2>9. t1 \div Day < u \div Day /\ HasMask(rec)
    BY <2>4, <2>7 DEF rec
  <2>10. alarm_recur_handle_masks(rec, t1, 1) # -1
    BY <2>5, <2>6, <2>7, <2>8, <2>9, MasksGoOn
  <2>11. alarm_recur_next(alarm.tab[i], now) # -1
    BY <2>10 DEF alarm_recur_next, rec, t1
  <2>12. NextRecurrence(alarm, now) \in Nat /\ now < NextRecurrence(alarm, now)
    BY <2>2, <2>3, <2>11, NextValue
  <2> QED BY <2>1, <2>3, <2>12
<1> QED BY <1>1, TriggersAreTimes, PTL DEF Spec, GoesOn
=============================================================================
