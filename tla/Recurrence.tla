----------------------------- MODULE Recurrence ------------------------------
(***************************************************************************)
(* When an alarm with recurrence masks is due: masks and special periods   *)
(* (recurrence.c), and how server.c uses them for the first time, after a  *)
(* change of the clock, and each time the alarm has been served.           *)
(*                                                                         *)
(* The calendar is that of a zone with a constant offset, in which a       *)
(* struct tm, normalised or not, is the time it denotes.                   *)
(***************************************************************************)
EXTENDS Integers, Sequences, FiniteSetsExt

CONSTANTS
  Minute, Hour, Day,   (* in seconds                                       *)
  Week,                (* in days                                          *)
  Year,                (* in months                                        *)
  FirstDay,            (* of each month, and of the one time_t ends before *)
  Alarms,              (* [tab, tm, time] as clients may send them         *)
  Delays,              (* how long an alarm may wait to be served          *)
  Jumps,               (* how far the clock may be set                     *)
  MaxTime              (* bound of the time at which something happens     *)

ASSUME CalendarUnits ==
  /\ {Minute, Hour, Day, Week, Year} \subseteq Nat \ {0}
  /\ Hour % Minute = 0 /\ Day % Hour = 0
  /\ FirstDay \in Seq(Nat) /\ Len(FirstDay) > 1 /\ FirstDay[1] = 0
  /\ \A m, n \in DOMAIN FirstDay : m < n => FirstDay[m] < FirstDay[n]

VARIABLES
  alarm,
  since,               (* the first time that was looked at for a trigger  *)
  trigger              (* 0 once the alarm was deleted                     *)

vars == <<alarm, since, trigger>>

-----------------------------------------------------------------------------
(* The calendar.  Weekdays and months count from 0, days of months from 1. *)

Months       == 1 .. Len(FirstDay) - 1
MonthDays(m) == FirstDay[m + 1] - FirstDay[m]

Days == FirstDay[Len(FirstDay)]
End  == Days * Day

(* What ALARM_RECUR_MIN_ALL and _HOUR_ALL leave of masks.                  *)
IsMask(rec) ==
  /\ rec.min \subseteq 0 .. (Hour \div Minute) - 1
  /\ rec.hour \subseteq 0 .. (Day \div Hour) - 1
  /\ rec.eom \in BOOLEAN

ASSUME RecurTypes ==
  /\ \A a \in Alarms : /\ DOMAIN a.tab = 1 .. Len(a.tab)
                       /\ \A i \in DOMAIN a.tab : IsMask(a.tab[i])
                       /\ a.time \in Int /\ (a.tm # << >> => IsMask(a.tm[1]))
  /\ Delays \subseteq Nat /\ Jumps \subseteq Int /\ MaxTime \in 0 .. End - 1

MonthOf(day) == CHOOSE m \in Months : FirstDay[m] <= day /\ day < FirstDay[m + 1]

tm_min(t)  == (t % Hour) \div Minute
tm_hour(t) == (t % Day) \div Hour
tm_wday(day) == day % Week
tm_mon(day)  == (MonthOf(day) - 1) % Year
tm_mday(day) == day - FirstDay[MonthOf(day)] + 1

(* mktime of a day that the month may not have; -1 past the end.           *)
Build(month, mday, tod) ==
  IF month \notin Months THEN -1
  ELSE LET t == (FirstDay[month] + mday - 1) * Day + tod IN IF t < End THEN t ELSE -1

-----------------------------------------------------------------------------
(* Masks are sets, empty for DONTCARE; eom is ALARM_RECUR_MDAY_EOM.         *)

(* What alarm_recur_handle_masks carries from field to field: the time, how *)
(* much is to be added first, and its result.                              *)
(* First, seconds are rounded up to a full minute.                         *)
HandleSeconds(t, inc) ==
  IF t % Minute = 0 THEN [t |-> t, inc |-> inc, res |-> -1]
  ELSE LET up == t + (Minute - (t % Minute)) IN [t |-> up, inc |-> 0, res |-> up]

(* The first of the times that are whole units away and have the field,    *)
(* which comes round with each cycle, in the mask.                         *)
Advance(s, mask, unit, cycle) ==
  LET from   == s.t + s.inc * unit
      at(k)  == from + k * unit
      up     == at(Min({k \in 0 .. cycle \div unit - 1 : (at(k) % cycle) \div unit \in mask}))
  IN IF mask = {} THEN s ELSE [t |-> up, inc |-> 0, res |-> up]

HandleMinutes(rec, s) == Advance(s, rec.min, Minute, Hour)

HandleHours(rec, s) == Advance(s, rec.hour, Hour, Day)

(* ticker_get_days_in_month.                                               *)
IsLast(day) == tm_mday(day) = MonthDays(MonthOf(day))

GoodMonth(rec, day) == rec.mon = {} \/ tm_mon(day) \in rec.mon

(* Mistake: months are taken to have the length of the first.              *)
GoodDayFixed(rec, day) ==
  /\ rec.wday = {} \/ tm_wday(day) \in rec.wday
  /\ \/ rec.mday = {} /\ ~rec.eom
     \/ tm_mday(day) \in rec.mday
     \/ rec.eom /\ tm_mday(day) = MonthDays(1)

GoodDay(rec, day) ==
  /\ rec.wday = {} \/ tm_wday(day) \in rec.wday
  /\ \/ rec.mday = {} /\ ~rec.eom
     \/ tm_mday(day) \in rec.mday
     \/ rec.eom /\ IsLast(day)

(* A month that is not allowed is left for the first of the next one.      *)
(* Mistake: the day of the month is kept.                                  *)
LeaveMonthLate(day) == day + MonthDays(MonthOf(day))

LeaveMonth(day) == FirstDay[MonthOf(day) + 1]

(* The days are tried until one fits or the calendar ends.                 *)
DateFrom(rec, first) ==
  LET date[day \in 0 .. Days] ==
        IF day = Days THEN -1
        ELSE IF ~GoodMonth(rec, day) THEN date[LeaveMonth(day)]
        ELSE IF ~GoodDay(rec, day) THEN date[day + 1]
        ELSE day
  IN date[first]

HandleDate(rec, s) ==
  LET found == DateFrom(rec, (s.t \div Day) + s.inc)
      time  == IF found = -1 THEN -1 ELSE found * Day + (s.t % Day)
  IN IF rec.wday = {} /\ rec.mday = {} /\ ~rec.eom /\ rec.mon = {} THEN s
     ELSE [t |-> time, inc |-> 0, res |-> time]

(* Every time that is built may be past the end, which ends it with -1.    *)
alarm_recur_handle_masks(rec, t, inc) ==
  LET time == HandleHours(rec, HandleMinutes(rec, HandleSeconds(t, inc)))
  IN IF t < 0 \/ time.t >= End THEN -1
     ELSE LET r == HandleDate(rec, time).res IN IF r >= End THEN -1 ELSE r

alarm_recur_handle_specials(rec, t) ==
  LET day == t \div Day
      Later(months) == Build(MonthOf(day) + months, tm_mday(day), t % Day)
  IN CASE rec.special = "BIWEEKLY" -> IF t + 2 * Week * Day < End THEN t + 2 * Week * Day ELSE -1
       [] rec.special = "MONTHLY"  -> Later(1)
       [] rec.special = "YEARLY"   -> Later(Year)
       [] OTHER                    -> t

alarm_recur_align(rec, t) == alarm_recur_handle_masks(rec, t, 0)

(* Mistake: the time is aligned, but not moved.                            *)
NextAligned(rec, t) == alarm_recur_handle_masks(rec, alarm_recur_handle_specials(rec, t), 0)

alarm_recur_next(rec, t) ==
  alarm_recur_handle_masks(rec, alarm_recur_handle_specials(rec, t), 1)

-----------------------------------------------------------------------------
(* server.c.                                                               *)

(* server_event_get_next_trigger at time t0 with alarm_time t1: the time   *)
(* that is given by it, by the fields of alarm_tm that are set, or now ... *)
LowBound(a, t0, t1) ==
  LET base == CASE t1 > 0                  -> t1
                [] t1 <= 0 /\ a.tm = << >> -> t0
                [] OTHER                   -> alarm_recur_align(a.tm[1], t0)
  IN IF base < t0 THEN t0 ELSE base

(* ... and then the first time after it that some recurrence aligns to.    *)
GetNextTrigger(a, low) ==
  LET later == {t \in {alarm_recur_align(a.tab[i], low) : i \in DOMAIN a.tab} : low < t}
  IN IF later = {} THEN low ELSE Min(later)

(* server_rethink_recurring: 0 for an alarm that is deleted.               *)
NextRecurrence(a, now) ==
  LET next == {t \in {alarm_recur_next(a.tab[i], now) : i \in DOMAIN a.tab} : t > 0}
  IN IF next = {} THEN 0 ELSE Min(next)

(* server_event_evaluate_initial_trigger.                                  *)
Init ==
  /\ alarm \in Alarms
  /\ \E now \in 1 .. MaxTime : since = LowBound(alarm, now, alarm.time)
  /\ trigger = GetNextTrigger(alarm, since)

(* The alarm has rung, and maybe was snoozed, and is served.               *)
Recur ==
  /\ trigger # 0
  /\ \E delay \in Delays :
       /\ trigger + delay <= MaxTime
       /\ since' = trigger + delay + 1
       /\ trigger' = NextRecurrence(alarm, trigger + delay)
  /\ UNCHANGED alarm

(* server_rethink_timechange of an alarm that may be moved back as well.   *)
Reschedule ==
  /\ trigger # 0 /\ alarm.time = 0
  /\ \E jump \in Jumps :
       /\ since + jump \in 1 .. MaxTime
       /\ since' = LowBound(alarm, since + jump, 0)
       /\ trigger' = GetNextTrigger(alarm, since')
  /\ UNCHANGED alarm

Next == Recur \/ Reschedule

Spec == Init /\ [][Next]_vars

-----------------------------------------------------------------------------
(* Properties.                                                             *)

HasMask(rec) ==
  \/ rec.min # {} \/ rec.hour # {} \/ rec.wday # {} \/ rec.mon # {} \/ rec.mday # {}
  \/ rec.eom

(* What a recurrence asks of a time, field by field.                       *)
Permits(rec, t) ==
  LET day == t \div Day
  IN /\ t % Minute = 0
     /\ rec.min = {} \/ tm_min(t) \in rec.min
     /\ rec.hour = {} \/ tm_hour(t) \in rec.hour
     /\ rec.wday = {} \/ tm_wday(day) \in rec.wday
     /\ rec.mon = {} \/ tm_mon(day) \in rec.mon
     /\ \/ rec.mday = {} /\ ~rec.eom
        \/ tm_mday(day) \in rec.mday
        \/ rec.eom /\ \E m \in Months : day + 1 = FirstDay[m + 1]

(* Some recurrence has a time left whenever an alarm is given to the queue, *)
(* and one of a later day whenever it has been served.                     *)
Foreseen ==
  \A a \in Alarms, t \in 1 .. MaxTime :
    \E i \in DOMAIN a.tab, u \in LowBound(a, t, a.time) .. End - 1 : Permits(a.tab[i], u)

Lasting ==
  \A a \in Alarms, t \in 1 .. MaxTime :
    \E i \in DOMAIN a.tab :
      LET rec == a.tab[i]
          t1  == alarm_recur_handle_specials(rec, t)
      IN /\ t1 >= 0 /\ HasMask(rec)
         /\ \E u \in t1 .. End - 1 : u \div Day > t1 \div Day /\ Permits(rec, u)

Permitted(t) == \E i \in DOMAIN alarm.tab : Permits(alarm.tab[i], t)

Timed(rec)  == rec.min # {} /\ rec.hour # {} /\ rec.special = "NONE"
Single(rec) == Timed(rec) /\ Cardinality(rec.min) = 1 /\ Cardinality(rec.hour) = 1

(* However the fields are aligned one after the other, and across the ends *)
(* of months and years, an alarm rings only when one of its recurrences    *)
(* permits.                                                                *)
TriggerPermitted == trigger # 0 => Permitted(trigger)

(* No time that is permitted is passed over: not when each recurrence has  *)
(* one time of day, however late the alarm was served, unless several of   *)
(* them start from a time that one permits; and not by one recurrence with *)
(* any masks, when the alarm was served within the minute it was due.      *)
NoneSkipped ==
  LET tab    == alarm.tab
      minute == (since - 1) - ((since - 1) % Minute)
      single == /\ \A i \in DOMAIN tab : Single(tab[i])
                /\ Len(tab) = 1 \/ ~Permitted(since)
      prompt == Len(tab) = 1 /\ Timed(tab[1]) /\ Permitted(minute)
  IN single \/ prompt => \A t \in since .. trigger - 1 : ~Permitted(t)

(* An alarm that is served and recurs is put into the queue again, for a   *)
(* time that has not passed.                                               *)
GoesOn == [][Recur => trigger' >= since']_vars
=============================================================================
