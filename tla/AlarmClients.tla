---------------------------- MODULE AlarmClients ----------------------------
(***************************************************************************)
(* Applications that call alarmd through the client library (client.c),    *)
(* the bus between them, and the daemon's side of the calls: the method    *)
(* handlers of server.c, the queue's tables and the queue file.  What the  *)
(* rest of the daemon does to an alarm is here a change of its trigger;    *)
(* times are absolute, and no time passes.  How the file is replaced is    *)
(* the matter of QueueStorage; here a save is one step.                    *)
(***************************************************************************)
EXTENDS QueueFile, QueueTables, FiniteSets, TLC

CONSTANTS
  Clients, Requests,  (* applications, and the calls they make             *)
  Earlier,            (* alarms that are in the file from the beginning    *)
  Now, Times,         (* the moment; trigger times the daemon may compute  *)
  MaxCalls,
  MaxUpsets           (* timeouts, moved triggers, saves and restarts      *)

QUEUE_SNOOZE_DEFAULT == 600
MAX_SNOOZE == 24 * 60 * 60

Cookies == 1 .. Len(Earlier) + MaxCalls

(* Arguments that may be given, or not.                                    *)
IsGiven(args) == args = << >> \/ IsArgs(args[1])

(* An alarm as an application builds it: with as many fields and lists as  *)
(* the constructors make, new and without a cookie, and with arguments for *)
(* some of its actions, or for the call.                                   *)
IsShape(shape) ==
  LET e == shape.event
  IN /\ DOMAIN e = DOMAIN NewEvent
     /\ e.cookie = 0 /\ e.state = "NEW" /\ e.time \in Int
     /\ IsSeq(e.acts) /\ IsSeq(e.recs) /\ IsSeq(e.attrs)
     /\ \A i \in DOMAIN e.acts :
          /\ DOMAIN e.acts[i] = DOMAIN NewAction
          /\ {e.acts[i].label, e.acts[i].command, e.acts[i].target}
               \subseteq String \cup {Null}
          /\ e.acts[i].args = Null
     /\ DOMAIN shape.own = DOMAIN e.acts /\ \A i \in DOMAIN e.acts : IsGiven(shape.own[i])
     /\ IsGiven(shape.args)
     /\ \A i \in DOMAIN e.attrs : e.attrs[i].type \in {"NULL", "INT", "TIME", "STRING"}

ASSUME RequestTypes ==
  /\ \A r \in Requests :
       /\ "op" \in DOMAIN r
       /\ r.op \in {"add", "update"}        => "shape" \in DOMAIN r /\ IsShape(r.shape)
       /\ r.op \in {"update", "del", "get"} => "cookie" \in DOMAIN r /\ r.cookie \in Nat
       /\ r.op = "set_snooze"               => "value" \in DOMAIN r /\ r.value \in Int
  /\ IsSeq(Earlier) /\ \A i \in DOMAIN Earlier : IsShape(Earlier[i])
  /\ Times \subseteq Int /\ MaxCalls \in Nat

VARIABLES
  queue,     (* [events, byCookie, byTrigger, cookie, snooze]              *)
  file,      (* [sections, snooze] as it was saved last                    *)
  saved,     (* history: the queue at that time                            *)
  calls,     (* history: what the applications asked for                   *)
  bus,       (* messages on their way to alarmd                            *)
  replies,   (* call -> message on its way back                            *)
  waiting,   (* client -> the call it is blocked in, 0 for none            *)
  results,   (* client -> what its last call returned                      *)
  upsets

fileVars == <<file, saved>>
serverVars == <<queue, fileVars>>
clientVars == <<calls, waiting, results>>
vars == <<queue, file, saved, calls, bus, replies, waiting, results, upsets>>

-----------------------------------------------------------------------------
(* The contents of an alarm as applications see it.  White space around a  *)
(* text gets lost in the file.                                             *)
Plain(s) == Stripped[Text(s)]

Content(e) ==
  [title |-> Plain(e.title), appid |-> Plain(e.appid), flags |-> e.flags, time |-> e.time,
   recurSecs |-> e.recurSecs, recurCount |-> e.recurCount, recs |-> e.recs,
   attrs |-> [i \in DOMAIN e.attrs |->
                IF e.attrs[i].type = "STRING"
                THEN [e.attrs[i] EXCEPT !.val = Plain(@)] ELSE e.attrs[i]],
   acts  |-> [i \in DOMAIN e.acts |->
                [when |-> e.acts[i].when, type |-> e.acts[i].type,
                 label |-> Plain(e.acts[i].label), command |-> Plain(e.acts[i].command),
                 target |-> Plain(e.acts[i].target), args |-> Plain(e.acts[i].args)]]]

(* The arguments an application means for each action: those of the call   *)
(* are for the first D-Bus action that has none of its own.                *)
MeantArgs(shape, args) ==
  LET Bare(i) == "DBUS" \in shape.event.acts[i].type /\ shape.own[i] = << >>
  IN [i \in DOMAIN shape.own |->
        IF shape.own[i] # << >> THEN shape.own[i][1]
        ELSE IF args # << >> /\ Bare(i) /\ \A j \in 1 .. i - 1 : ~Bare(j)
             THEN args[1] ELSE << >>]

(* The alarm an application means; old libraries know no attributes.       *)
Meant(shape, args) ==
  LET given == MeantArgs(shape, args)
  IN Content([shape.event EXCEPT
                !.attrs = IF shape.old THEN << >> ELSE @,
                !.acts  = [i \in DOMAIN @ |-> [@[i] EXCEPT !.args = Pack(given[i])]]])

Shapes == {r.shape : r \in {x \in Requests : x.op \in {"add", "update"}}}
          \cup {Earlier[i] : i \in DOMAIN Earlier}

AllMeant == {MeantArgs(s, s.args) : s \in Shapes} \cup {MeantArgs(s, << >>) : s \in Shapes}

(* What an application asks for.                                           *)
Meaning(call) ==
  CASE call.op = "add" ->
         [client |-> call.client, op |-> call.op,
          content |-> Meant(call.shape, call.shape.args), due |-> call.shape.event.time]
    [] call.op = "update" ->
         [client |-> call.client, op |-> call.op, cookie |-> call.cookie,
          content |-> Meant(call.shape, << >>), due |-> call.shape.event.time]
    [] call.op = "query" -> [call EXCEPT !.query.appid = Text(@)]
    [] OTHER -> call

-----------------------------------------------------------------------------
(* The queue.                                                              *)

EmptyQueue == [events |-> << >>, byCookie |-> << >>, byTrigger |-> << >>,
               cookie |-> 0, snooze |-> QUEUE_SNOOZE_DEFAULT]

(* queue_insert_event.                                                     *)
Insert(q, e) ==
  [q EXCEPT
     !.events    = [c \in DOMAIN @ \cup {e.cookie} |-> IF c = e.cookie THEN e ELSE @[c]],
     !.byCookie  = InsertAt(@, CookieSlot(@, e.cookie) + 1, e.cookie),
     !.byTrigger = InsertAt(@, TriggerSlot(@, q.events, e.cookie, e.trigger) + 1, e.cookie)]

(* queue_add_event: cookies are counted from the largest one seen.         *)
AddEvent(q, e) ==
  IF e.cookie = 0
  THEN Insert([q EXCEPT !.cookie = @ + 1], [e EXCEPT !.cookie = q.cookie + 1])
  ELSE Insert([q EXCEPT !.cookie = IF @ < e.cookie THEN e.cookie ELSE @], e)

DelEvent(q, cookie) ==
  IF HasEvent(q.byCookie, cookie)
  THEN [q EXCEPT !.events[cookie].state = "DELETED"] ELSE q

(* queue_event_set_trigger.                                                *)
SetTrigger(q, cookie, trigger) ==
  LET ti == TriggerSlot(q.byTrigger, q.events, cookie, q.events[cookie].trigger)
      to == TriggerSlot(q.byTrigger, q.events, cookie, trigger)
  IN [q EXCEPT !.events[cookie].trigger = trigger,
               !.byTrigger = Shifted(@, ti, to)]

CleanupDeleted(q) ==
  LET kept == Kept(q.byCookie, q.events)
  IN [q EXCEPT !.byCookie = kept, !.byTrigger = Kept(@, q.events),
               !.events = [c \in {kept[i] : i \in DOMAIN kept} |-> @[c]]]

SetSnooze(q, value) ==
  [q EXCEPT !.snooze = IF value < 1 \/ value > MAX_SNOOZE THEN QUEUE_SNOOZE_DEFAULT
                       ELSE value]

(* queue_save_to_memory, queue_load_from_path.                             *)
Saved(q) == [sections |-> File(q.events, q.byCookie), snooze |-> q.snooze]

(* The loop that adds the events of the file, one after the other.         *)
Added(q, es) ==
  LET added[i \in 0 .. Len(es)] == IF i = 0 THEN q ELSE AddEvent(added[i - 1], es[i])
  IN added[Len(es)]

Loaded(f) ==
  Added(SetSnooze(EmptyQueue, f.snooze),
        [i \in DOMAIN f.sections |-> LoadedEvent(f.sections[i])])

-----------------------------------------------------------------------------
(* Method handlers: from a queue and the arguments of the message, the     *)
(* queue after the call and the reply.                                     *)

Reply(body)  == [type |-> "return", body |-> body]
ErrorReply   == [type |-> "error", body |-> << >>]

(* What the client has no say in.                                          *)
Reset(e) == [e EXCEPT !.response = -1, !.total = 0, !.cookie = 0,
                      !.trigger = 0, !.state = "NEW"]

Accepted(q, e) ==
  IF e.time < Now THEN <<q, Reply(<<Arg("i", 0)>>)>>
  ELSE LET r == AddEvent(q, [Reset(e) EXCEPT !.trigger = e.time])
       IN <<r, Reply(<<Arg("i", r.cookie)>>)>>

EventAdd(q, body) ==
  LET e == Decode(body)
  IN IF e = << >> THEN <<q, Reply(<<Arg("i", 0)>>)>> ELSE Accepted(q, e[1])

EventUpdate(q, body) ==
  LET e == Decode(body)
  IN IF e = << >> THEN <<q, Reply(<<Arg("i", 0)>>)>>
     ELSE Accepted(DelEvent(q, e[1].cookie), e[1])

EventDel(q, body) ==
  <<DelEvent(q, body[1].v), Reply(<<Arg("b", HasEvent(q.byCookie, body[1].v))>>)>>

EventQuery(q, body) ==
  LET query == [lo |-> body[1].v, hi |-> body[2].v, mask |-> body[3].v,
                flags |-> body[4].v, appid |-> body[5].v]
  IN <<q, Reply(<<Arg("ai", QueryFor(q.byTrigger, q.events, query))>>)>>

(* Without a reply of its own the call is answered by an error.            *)
EventGet(q, body) ==
  LET cookie == body[1].v
  IN <<q, IF HasEvent(q.byCookie, cookie) /\ q.events[cookie].state # "DELETED"
          THEN Reply(Encode(q.events[cookie])) ELSE ErrorReply>>

SnoozeGet(q, body) == <<q, Reply(<<Arg("u", q.snooze)>>)>>

SnoozeSet(q, body) == <<SetSnooze(q, body[1].v), Reply(<<Arg("b", TRUE)>>)>>

(* dbusif_handle_message_by_member.                                        *)
HandleMember(q, msg) ==
  CASE msg.member = "add"        -> EventAdd(q, msg.body)
    [] msg.member = "update"     -> EventUpdate(q, msg.body)
    [] msg.member = "del"        -> EventDel(q, msg.body)
    [] msg.member = "query"      -> EventQuery(q, msg.body)
    [] msg.member = "get"        -> EventGet(q, msg.body)
    [] msg.member = "set_snooze" -> SnoozeSet(q, msg.body)
    [] msg.member = "get_snooze" -> SnoozeGet(q, msg.body)
    [] OTHER                     -> <<q, ErrorReply>>

-----------------------------------------------------------------------------
(* The client library.                                                     *)

(* An event is built with the arguments each action was given of its own;  *)
(* alarmd_event_add_with_dbus_params brings those of the call.             *)
Built(shape) ==
  [shape.event EXCEPT !.acts =
     [i \in DOMAIN @ |-> IF shape.own[i] = << >> THEN @[i]
                         ELSE [@[i] EXCEPT !.args = Pack(shape.own[i][1])]]]

CallText(shape) == IF shape.args = << >> THEN Null ELSE Pack(shape.args[1])

EncodeAdd(shape) ==
  LET e == WithArgs(Built(shape), CallText(shape))
  IN IF shape.old THEN EncodeOld(e) ELSE Encode(e)

EncodeUpdate(shape, cookie) == Encode([Built(shape) EXCEPT !.cookie = cookie])

EncodeQuery(q) ==
  <<Arg("i", q.lo), Arg("i", q.hi), Arg("i", q.mask), Arg("i", q.flags), TextArg(q.appid)>>

Body(call) ==
  CASE call.op = "add"            -> EncodeAdd(call.shape)
    [] call.op = "update"         -> EncodeUpdate(call.shape, call.cookie)
    [] call.op \in {"del", "get"} -> <<Arg("i", call.cookie)>>
    [] call.op = "query"          -> EncodeQuery(call.query)
    [] call.op = "set_snooze"     -> <<Arg("u", call.value)>>
    [] call.op = "get_snooze"     -> << >>

Upset == upsets < MaxUpsets /\ upsets' = upsets + 1

(* What the library returns when there is no reply, or an error.           *)
Void(op) == CASE op \in {"add", "update"}     -> <<"cookie", 0>>
              [] op \in {"del", "set_snooze"} -> <<"ok", FALSE>>
              [] op = "get"                   -> <<"event", << >> >>
              [] op = "query"                 -> <<"list", << >> >>
              [] op = "get_snooze"            -> <<"snooze", 0>>

Parsed(op, rsp) ==
  IF rsp.type = "error" THEN Void(op)
  ELSE IF op = "get" THEN <<"event", Decode(rsp.body)>>
       ELSE <<Void(op)[1], rsp.body[1].v>>

CallsOf(client) ==
  {[k \in DOMAIN r \cup {"client"} |-> IF k = "client" THEN client ELSE r[k]] : r \in Requests}

(* The library sends what is sane, and arguments of the call only if there  *)
(* is an action that takes them.                                           *)
Takes(call) ==
  /\ call.op \in {"add", "update"} => IsSane(Built(call.shape))
  /\ call.op = "add" /\ call.shape.args # << >> => Taker(Built(call.shape)) # 0

(* client_exec_method_call sends the message and blocks.                   *)
Call(call) ==
  /\ waiting[call.client] = 0 /\ Len(calls) < MaxCalls
  /\ Takes(call)
  /\ calls' = Append(calls, Meaning(call))
  /\ waiting' = [waiting EXCEPT ![call.client] = Len(calls')]
  /\ bus' = Append(bus, [id |-> Len(calls'), member |-> call.op, body |-> Body(call)])
  /\ UNCHANGED <<serverVars, replies, results, upsets>>

Refused == {r.op : r \in {x \in Requests : ~Takes(x)}}

Refuse(client) ==
  /\ waiting[client] = 0
  /\ \E op \in Refused : results' = [results EXCEPT ![client] = Void(op)]
  /\ UNCHANGED <<serverVars, calls, bus, replies, waiting, upsets>>

Return(client) ==
  LET n == waiting[client]
  IN /\ n \in DOMAIN replies
     /\ results' = [results EXCEPT ![client] = Parsed(calls[n].op, replies[n])]
     /\ replies' = [m \in DOMAIN replies \ {n} |-> replies[m]]
     /\ waiting' = [waiting EXCEPT ![client] = 0]
     /\ UNCHANGED <<serverVars, calls, bus, upsets>>

(* The time limit of the bus library, or its notice that alarmd has gone.  *)
(* A reply that comes later is dropped.                                    *)
(* Mistake: a reply that is there already is left for the next call.       *)
GiveUpOnly(client) ==
  LET n == waiting[client]
  IN /\ n # 0 /\ Upset
     /\ results' = [results EXCEPT ![client] = Void(calls[n].op)]
     /\ waiting' = [waiting EXCEPT ![client] = 0]
     /\ UNCHANGED <<serverVars, calls, bus, replies>>

GiveUp(client) ==
  LET n == waiting[client]
  IN /\ n # 0 /\ Upset
     /\ results' = [results EXCEPT ![client] = Void(calls[n].op)]
     /\ replies' = [m \in DOMAIN replies \ {n} |-> replies[m]]
     /\ waiting' = [waiting EXCEPT ![client] = 0]
     /\ UNCHANGED <<serverVars, calls, bus>>

-----------------------------------------------------------------------------
(* The daemon.                                                             *)

Serve ==
  /\ bus # << >>
  /\ \E msg \in {Head(bus)} : \E done \in {HandleMember(queue, msg)} :
        /\ queue' = done[1]
        /\ bus' = Tail(bus)
        /\ replies' = IF waiting[calls[msg.id].client] = msg.id
                      THEN [n \in DOMAIN replies \cup {msg.id} |->
                              IF n = msg.id THEN done[2] ELSE replies[n]]
                      ELSE replies
        /\ UNCHANGED <<fileVars, clientVars, upsets>>

(* The rethink loop snoozes, repeats or reschedules an alarm ...           *)
Move(cookie, trigger) ==
  /\ Upset
  /\ queue.events[cookie].state # "DELETED"
  /\ queue.events[cookie].trigger # trigger
  /\ queue' = SetTrigger(queue, cookie, trigger)
  /\ UNCHANGED <<fileVars, clientVars, bus, replies>>

(* ... and at its end drops what was deleted.                              *)
Cleanup ==
  /\ \E c \in DOMAIN queue.events : queue.events[c].state = "DELETED"
  /\ queue' = CleanupDeleted(queue)
  /\ UNCHANGED <<fileVars, clientVars, bus, replies, upsets>>

Save ==
  /\ queue # saved
  /\ Upset
  /\ file' = Saved(queue) /\ saved' = queue
  /\ UNCHANGED <<queue, clientVars, bus, replies>>

(* The process ends in any way, and another one starts.                    *)
Restart ==
  /\ Upset
  /\ queue' = Loaded(file)
  /\ bus' = << >>
  /\ UNCHANGED <<fileVars, clientVars, replies>>

Init ==
  /\ file = Saved(Added(EmptyQueue, [i \in DOMAIN Earlier |->
               [Built(Earlier[i]) EXCEPT !.trigger = Earlier[i].event.time]]))
  /\ queue = Loaded(file) /\ saved = queue
  /\ calls = << >> /\ bus = << >> /\ replies = << >>
  /\ waiting = [c \in Clients |-> 0]
  /\ results = [c \in Clients |-> Void("add")]
  /\ upsets = 0

Next ==
  \/ \E client \in Clients :
       \/ \E call \in CallsOf(client) : Call(call)
       \/ Refuse(client) \/ Return(client) \/ GiveUp(client)
  \/ Serve
  \/ \E c \in DOMAIN queue.events, t \in Times : Move(c, t)
  \/ Cleanup \/ Save \/ Restart

Spec == Init /\ [][Next]_vars

-----------------------------------------------------------------------------
(* Properties.                                                             *)

(* Every value has its type; at most one reply is on its way to a client,  *)
(* that of the call it is blocked in.                                      *)
TypeOK ==
  /\ \A c \in DOMAIN queue.events :
       /\ queue.events[c].cookie = c /\ c \in 1 .. queue.cookie
       /\ queue.events[c].state \in {"NEW", "DELETED"}
       /\ \A i \in DOMAIN queue.events[c].acts : queue.events[c].acts[i].label # Null
  /\ queue.snooze \in 1 .. MAX_SNOOZE
  /\ waiting \in [Clients -> 0 .. MaxCalls]
  /\ DOMAIN replies \subseteq {waiting[c] : c \in Clients}
  /\ \A i \in DOMAIN bus : bus[i].id \in DOMAIN calls

(* The two tables of the queue hold the same events, one sorted by cookie, *)
(* the other by trigger with the next to trigger last, whatever was added, *)
(* moved, dropped and loaded before: the searches by bisection rely on it. *)
TablesAgree ==
  LET c == queue.byCookie  t == queue.byTrigger  e == queue.events
  IN /\ DOMAIN e = {c[i] : i \in DOMAIN c} /\ DOMAIN e = {t[i] : i \in DOMAIN t}
     /\ Len(c) = Cardinality(DOMAIN e) /\ Len(t) = Len(c)
     /\ \A i, j \in DOMAIN c : i < j =>
          /\ c[i] < c[j]
          /\ \/ e[t[i]].trigger > e[t[j]].trigger
             \/ e[t[i]].trigger = e[t[j]].trigger /\ t[i] > t[j]

(* The daemon trusts the check of the library: what is in its queue, sent  *)
(* by an application or read from the file, never has a button without a   *)
(* label, a call without a target or a command that is empty.              *)
ActionsComplete ==
  \A c \in DOMAIN queue.events :
    \A i \in DOMAIN queue.events[c].acts :
      LET a == queue.events[c].acts[i]
      IN /\ "RESPONDED" \in a.when => a.label # << >>
         /\ "DBUS" \in a.type => a.target # << >>
         /\ "EXEC" \in a.type => a.command # << >>

(* Whatever way an alarm came into the queue, the calls that its actions   *)
(* make have the arguments the application gave, each those that are for   *)
(* it.                                                                     *)
ArgsDelivered ==
  \A c \in DOMAIN queue.events :
    LET acts == queue.events[c].acts
    IN [i \in DOMAIN acts |-> Unpack[Text(acts[i].args)]] \in AllMeant

Meanings == {Meaning(call) : call \in UNION {CallsOf(client) : client \in Clients}}

Answered(value) ==
  IF value[1] = "event" /\ value[2] # << >>
  THEN <<"event", <<[content |-> Content(value[2][1]), due |-> value[2][1].trigger]>> >>
  ELSE value

Entries(events) ==
  [c \in DOMAIN events |-> [content |-> Content(events[c]), due |-> events[c].trigger,
                            gone |-> events[c].state = "DELETED"]]

(* The calls do what was promised: every alarm is kept as it was meant,    *)
(* through two messages and the file, under a cookie of its own; a call    *)
(* is done once or not at all; queries find exactly what they ask for; and *)
(* a restart goes back to the last save.                                   *)
Registry == INSTANCE AlarmRegistry WITH
  Calls   <- Meanings,
  DefaultSnooze <- QUEUE_SNOOZE_DEFAULT,
  entries <- Entries(queue.events),
  snooze  <- queue.snooze,
  saved   <- [entries |-> Entries(saved.events), snooze |-> saved.snooze],
  asked   <- {bus[i].id : i \in DOMAIN bus},
  answers <- [n \in DOMAIN replies |-> Answered(Parsed(calls[n].op, replies[n]))],
  results <- [c \in Clients |-> Answered(results[c])]

IsRegistry == Registry!RSpec
=============================================================================
