---------------------------- MODULE MCRecurrence -----------------------------
(***************************************************************************)
(* A calendar of two seconds to a minute, three minutes to an hour, three  *)
(* hours to a day, three days to a week, two months of two or three days   *)
(* to a year, and alarms of every shape that the masks make.               *)
(***************************************************************************)
EXTENDS Recurrence

Calendar == <<0, 3, 5, 8, 11, 14, 16, 19, 21, 24, 27, 30, 32>>

Recur0 == [min |-> {}, hour |-> {}, mday |-> {}, eom |-> FALSE, wday |-> {}, mon |-> {},
           special |-> "NONE"]

Masks == [min : {{}, {1}, {0, 2}}, hour : {{}, {2}, {0, 1}}, mday : {{}, {2}},
          eom : BOOLEAN, wday : {{}, {0, 1}}, mon : {{}, {1}}, special : {"NONE"}]

At(m, h) == [Recur0 EXCEPT !.min = {m}, !.hour = {h}]

(* All masks; one time on weekdays and another one in the weekend; one     *)
(* every day and one on the last of the month; special periods.            *)
Tables ==
  {<<m>> : m \in Masks \ {Recur0}}
  \cup {<<[At(1, 2) EXCEPT !.wday = {0, 1}], [At(0, 1) EXCEPT !.wday = {2}]>>,
        <<At(2, 0), [At(0, 2) EXCEPT !.eom = TRUE]>>,
        <<[At(1, 1) EXCEPT !.special = "MONTHLY"]>>,
        <<[At(1, 1) EXCEPT !.special = "BIWEEKLY", !.wday = {1}]>>,
        <<[At(1, 1) EXCEPT !.special = "YEARLY"]>>}

Times == {[tm |-> << >>, time |-> 0], [tm |-> << >>, time |-> 40],
          [tm |-> <<[At(0, 1) EXCEPT !.mday = {3}]>>, time |-> 0]}

Masked == {[tab |-> b, tm |-> t.tm, time |-> t.time] : b \in Tables, t \in Times}

JumpSet == {-25, -7, 11}

ASSUME Foreseen /\ Lasting
=============================================================================
