---------------------------- MODULE AlarmRegistry ----------------------------
(***************************************************************************)
(* What alarmd promises the applications that call it: a registry of       *)
(* alarms under cookies.  A call is done at one moment between the         *)
(* question and its answer, in any order with the calls of others; a       *)
(* caller that lost its patience does not know whether its call was or     *)
(* will be done.  A restart goes back to what was saved last, in which a   *)
(* deleted alarm may still be present.                                     *)
(***************************************************************************)
EXTENDS Integers, Sequences, FiniteSets, TLC

CONSTANTS Clients, Cookies, Calls, Times, Now, DefaultSnooze

VARIABLES
  entries,   (* cookie -> [content, due, gone]; gone: deleted, still there *)
  snooze,    (* the default snooze period                                  *)
  saved,     (* the last save: [entries, snooze]                           *)
  calls,     (* every call, in the order of asking                         *)
  asked,     (* the calls, by number, that are still to be done            *)
  waiting,   (* client -> the call it waits for, 0 for none                *)
  answers,   (* call -> its answer, on the way to the caller               *)
  results    (* client -> answer of its last call                          *)

vars == <<entries, snooze, saved, calls, asked, waiting, answers, results>>

(* The answer to a call that failed or was not answered.                   *)
Void(op) == CASE op \in {"add", "update"}     -> <<"cookie", 0>>
              [] op \in {"del", "set_snooze"} -> <<"ok", FALSE>>
              [] op = "get"                   -> <<"event", << >> >>
              [] op = "query"                 -> <<"list", << >> >>
              [] op = "get_snooze"            -> <<"snooze", 0>>

Known == DOMAIN entries
There == {c \in Known : ~entries[c].gone}

Deleted(c) == IF c \in Known THEN [entries EXCEPT ![c].gone = TRUE] ELSE entries

-----------------------------------------------------------------------------
Ask(client) ==
  /\ waiting[client] = 0
  /\ asked' = asked \cup {Len(calls) + 1}
  /\ waiting' = [waiting EXCEPT ![client] = Len(calls) + 1]
  /\ \E call \in Calls : call.client = client /\ calls' = Append(calls, call)
  /\ UNCHANGED <<snooze, answers, results, entries, saved>>

(* The answer goes to the caller if it still waits.                        *)
Answer(n, value) ==
  answers' = IF waiting[calls[n].client] = n THEN n :> value @@ answers ELSE answers

(* An alarm is accepted unless its time has passed; its cookie is one that *)
(* no alarm has.                                                           *)
Accept(n, before) ==
  LET call == calls[n]
  IN IF call.due < Now
     THEN entries' = before /\ Answer(n, Void(call.op))
     ELSE \E c \in Cookies \ Known :
            /\ entries' = c :> [content |-> call.content, due |-> call.due,
                                gone |-> FALSE] @@ before
            /\ Answer(n, <<"cookie", c>>)

Add(n) == calls[n].op = "add" /\ Accept(n, entries) /\ UNCHANGED snooze

(* The alarm that is updated goes in any case.                             *)
Update(n) ==
  /\ calls[n].op = "update"
  /\ Accept(n, Deleted(calls[n].cookie))
  /\ UNCHANGED snooze

Delete(n) ==
  /\ calls[n].op = "del"
  /\ entries' = Deleted(calls[n].cookie)
  /\ Answer(n, <<"ok", calls[n].cookie \in Known>>)
  /\ UNCHANGED snooze

Get(n) ==
  LET c == calls[n].cookie
  IN /\ calls[n].op = "get"
     /\ Answer(n, IF c \in There
                  THEN <<"event", <<[content |-> entries[c].content, due |-> entries[c].due]>> >>
                  ELSE Void("get"))
     /\ UNCHANGED <<entries, snooze>>

(* All the alarms that are asked for, and no others, the next one first.   *)
Matching(q) == {c \in There : /\ q.lo <= entries[c].due
                              /\ q.hi > 0 => entries[c].due <= q.hi
                              /\ entries[c].content.flags \cap q.mask = q.flags
                              /\ q.appid \in {<< >>, entries[c].content.appid}}

Listing(S) ==
  {s \in [1 .. Cardinality(S) -> S] :
     /\ {s[i] : i \in DOMAIN s} = S
     /\ \A i, j \in DOMAIN s : i < j => entries[s[i]].due <= entries[s[j]].due}

Query(n) ==
  /\ calls[n].op = "query"
  /\ \E list \in Listing(Matching(calls[n].query)) : Answer(n, <<"list", list>>)
  /\ UNCHANGED <<entries, snooze>>

(* A period of no second, or of more than a day, means the default.        *)
SetSnooze(n) ==
  /\ calls[n].op = "set_snooze"
  /\ snooze' = IF calls[n].value \in 1 .. 86400 THEN calls[n].value ELSE DefaultSnooze
  /\ Answer(n, <<"ok", TRUE>>)
  /\ UNCHANGED entries

GetSnooze(n) ==
  /\ calls[n].op = "get_snooze"
  /\ Answer(n, <<"snooze", snooze>>)
  /\ UNCHANGED <<entries, snooze>>

Do(n) ==
  /\ n \in asked
  /\ asked' = asked \ {n}
  /\ \/ Add(n) \/ Update(n) \/ Delete(n) \/ Get(n) \/ Query(n)
     \/ SetSnooze(n) \/ GetSnooze(n)
  /\ UNCHANGED <<waiting, calls, results, saved>>

Return(client) ==
  LET n == waiting[client]
  IN /\ n \in DOMAIN answers
     /\ waiting' = [waiting EXCEPT ![client] = 0]
     /\ answers' = [m \in DOMAIN answers \ {n} |-> answers[m]]
     /\ results' = [results EXCEPT ![client] = answers[n]]
     /\ UNCHANGED <<asked, snooze, calls, entries, saved>>

(* No answer came in time.                                                 *)
GiveUp(client) ==
  /\ waiting[client] # 0
  /\ waiting' = [waiting EXCEPT ![client] = 0]
  /\ answers' = [m \in DOMAIN answers \ {waiting[client]} |-> answers[m]]
  /\ results' = [results EXCEPT ![client] = Void(calls[waiting[client]].op)]
  /\ UNCHANGED <<asked, snooze, calls, entries, saved>>

(* The library does not ask the daemon for alarms that make no sense.      *)
Refuse(client) ==
  /\ waiting[client] = 0
  /\ UNCHANGED <<asked, waiting, snooze, calls, answers, entries, saved>>
  /\ results' = [results EXCEPT ![client] = Void("add")]

-----------------------------------------------------------------------------
(* What the daemon does by itself.                                         *)

(* An alarm is snoozed, recurs or follows a change of the clock.           *)
Move(c, t) ==
  /\ UNCHANGED <<asked, waiting, snooze, calls, answers, results, saved>>
  /\ entries' = [entries EXCEPT ![c].due = t]

Purge ==
  /\ UNCHANGED <<asked, waiting, snooze, calls, answers, results, saved>>
  /\ entries' = [c \in There |-> entries[c]]

Save ==
  /\ UNCHANGED <<asked, waiting, snooze, calls, answers, results, entries>>
  /\ saved' = [entries |-> entries, snooze |-> snooze]

Restart ==
  /\ asked' = {}
  /\ UNCHANGED <<waiting, calls, answers, results, saved>>
  /\ snooze' = saved.snooze
  /\ entries' = [c \in DOMAIN saved.entries |-> [saved.entries[c] EXCEPT !.gone = FALSE]]

Init ==
  /\ entries = saved.entries /\ snooze = saved.snooze
  /\ calls = << >> /\ asked = {} /\ answers = << >>
  /\ waiting = [c \in Clients |-> 0]
  /\ results = [c \in Clients |-> Void("add")]

Next ==
  \/ \E client \in Clients :
       \/ Ask(client) \/ Return(client) \/ GiveUp(client) \/ Refuse(client)
  \/ \E n \in asked : Do(n)
  \/ \E c \in Known, t \in Times : Move(c, t)
  \/ Purge \/ Save \/ Restart

RSpec == Init /\ [][Next]_vars
=============================================================================
