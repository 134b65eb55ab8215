--------------------------- MODULE MCAlarmClients ---------------------------
(* Two applications; alarms that differ in what the wire, the file and the *)
(* check of the library make of them.                                      *)
EXTENDS AlarmClients

CONSTANTS c1, c2

Both == {c1, c2}
Exchange == Permutations(Both)

App == <<"a">>
Button == [NewAction EXCEPT !.when = {"RESPONDED"}, !.label = <<"a">>]
Dbus   == [NewAction EXCEPT !.when = {"TRIGGERED"}, !.type = {"DBUS"}, !.target = <<"a">>]
Exec   == [NewAction EXCEPT !.when = {"QUEUED"}, !.type = {"EXEC"}, !.command = <<"a">>]

At(t) == [NewEvent EXCEPT !.appid = App, !.time = t]

Shape(e) == [event |-> e, own |-> [i \in DOMAIN e.acts |-> << >>], args |-> << >>,
             old |-> FALSE]

(* A dialog whose title has white space around it.                         *)
Dialog == Shape(AddAction([At(8) EXCEPT !.title = <<" ", "a", "nl">>, !.flags = {"SHOW"}],
                          Button))

(* Three calls; the middle one has arguments, the first takes those of the *)
(* call.                                                                   *)
CallArguments == <<Arg("s", <<"a", "\\", "nl", "a">>), Arg("i", "3"), Arg("s", << >>),
                   Arg("[", <<"s", <<(<<"ctl">>), << >>, <<"a", "nl">> >> >>)>>

Calling == [Shape(SetAttr(AddAction(AddAction(AddAction(At(6), Dbus), Dbus), Dbus),
                          <<"a">>, "INT", 0))
            EXCEPT !.own = << << >>, <<(<<Arg("i", "2")>>)>>, << >> >>,
                   !.args = <<CallArguments>>]

Repeating ==
  Shape(SetAttr(SetAttr(RemAttr(SetAttr(
          AddRecurrence(AddAction([At(7) EXCEPT !.recurCount = -1, !.title = << >>], Exec), "m1"),
          <<"b">>, "TIME", 9), <<"b">>), <<"a">>, "INT", 3), <<"a">>, "STRING", <<"a">>))

Old == [Shape(SetAttr(AddAction(At(6), Button), <<"a">>, "INT", 1)) EXCEPT !.old = TRUE]

(* A time that has passed.                                                 *)
Past == Shape(AddAction(At(4), Button))

(* Refused: nothing to do; a call without a target.                        *)
Idle == Shape(AddAction(At(6), NewAction))
Lost == Shape(AddAction(AddAction(At(6), Button), [Dbus EXCEPT !.target = << >>]))

(* Refused: arguments for a call that is not there.                        *)
Astray == [Dialog EXCEPT !.args = <<CallArguments>>]

(* The alarms of an earlier run of the daemon.                             *)
TwoAlarms == <<Calling, Dialog>>

AnyTime == [lo |-> 0, hi |-> 0, mask |-> {}, flags |-> {}, appid |-> Null]
Shown   == [lo |-> 7, hi |-> 7, mask |-> {"SHOW"}, flags |-> {}, appid |-> App]

AllRequests ==
  {[op |-> "add", shape |-> s] : s \in {Dialog, Calling, Repeating, Old, Idle, Lost,
                                          Astray}}
  \cup {[op |-> "update", shape |-> Dialog, cookie |-> c] : c \in {1, 3}}
  \cup {[op |-> "update", shape |-> Past, cookie |-> 1]}
  \cup {[op |-> o, cookie |-> c] : o \in {"del", "get"}, c \in {1, 3}}
  \cup {[op |-> "query", query |-> q] : q \in {AnyTime, Shown}}
  \cup {[op |-> "set_snooze", value |-> 7], [op |-> "get_snooze"]}
=============================================================================
