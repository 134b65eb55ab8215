----------------------------- MODULE EventWire ------------------------------
(***************************************************************************)
(* Events as the client library builds and checks them, and the messages   *)
(* they travel in (event.c, action.c, attr.c, codec.c).  A C string is a   *)
(* sequence of characters, or Null; one text field, one recurrence mask    *)
(* and one target of a D-Bus action stand for their like.                  *)
(***************************************************************************)
EXTENDS Integers, Sequences, SequencesExt

Null == <<"NULL">>

Blank(s) == s \in {Null, << >>}

(* encode_string, decode_dstring: a missing string arrives as an empty one. *)
Text(s) == IF s = Null THEN << >> ELSE s

(* A sequence, of whatever values.                                         *)
IsSeq(s) == s \in Seq({s[i] : i \in DOMAIN s})

-----------------------------------------------------------------------------
(* Constructors.                                                           *)

NewAction == [when |-> {}, type |-> {}, label |-> Null, command |-> Null,
              target |-> Null, args |-> Null]

NewEvent == [cookie |-> 0, trigger |-> 0, state |-> "NEW", response |-> -1,
             title |-> Null, flags |-> {}, appid |-> Null, time |-> -1,
             recurSecs |-> 0, recurCount |-> 0, total |-> 0,
             acts |-> << >>, recs |-> << >>, attrs |-> << >>]

AddAction(e, a) == [e EXCEPT !.acts = Append(@, a)]

AddRecurrence(e, mask) == [e EXCEPT !.recs = Append(@, mask)]

(* alarm_attr_set_int, alarm_attr_set_string and their like.               *)
Attr(name, type, val) == [name |-> name, type |-> type, val |-> val]

(* alarm_event_add_attr: an attribute that has the name is used again.     *)
SetAttr(e, name, type, val) ==
  LET att == Attr(name, type, val)
      at  == SelectInSeq(e.attrs, LAMBDA x : x.name = name)
  IN [e EXCEPT !.attrs = IF at = 0 THEN Append(@, att) ELSE ReplaceAt(@, at, att)]

RemAttr(e, name) == [e EXCEPT !.attrs = SelectSeq(@, LAMBDA x : x.name # name)]

-----------------------------------------------------------------------------
(* alarm_event_is_sane, as far as it refuses events.  Clients check what    *)
(* they send; the server does not check again.                             *)

IsButton(a) == ~Blank(a.label) /\ "RESPONDED" \in a.when

(* Mistake: only the kind of an action is looked at.                       *)
ActionErrorKind(a) == "EXEC" \in a.type /\ Blank(a.command)

ActionError(a) ==
  \/ "RESPONDED" \in a.when /\ Blank(a.label)
  \/ "DBUS" \in a.type /\ Blank(a.target)
  \/ "EXEC" \in a.type /\ Blank(a.command)

DoesSomething(a) == IsButton(a) \/ (a.when # {} /\ a.type # {})

NoMask == "dontcare"

RecurrenceError(e) ==
  \/ e.recurSecs < 0
  \/ e.recurCount # 0 /\ e.recurSecs <= 0 /\ \A i \in DOMAIN e.recs : e.recs[i] = NoMask
  \/ (e.recurSecs > 0 \/ e.recs # << >>) /\ e.recurCount = 0
  \/ e.recurSecs > 0 /\ e.recs # << >>

IsSane(e) ==
  /\ ~Blank(e.appid)
  /\ \A i \in DOMAIN e.acts : ~ActionError(e.acts[i])
  /\ \E i \in DOMAIN e.acts : DoesSomething(e.acts[i])
  /\ ~RecurrenceError(e)

-----------------------------------------------------------------------------
(* Messages: sequences of typed values.                                    *)

Arg(t, v) == [t |-> t, v |-> v]
TextArg(s) == Arg("s", Text(s))

(* encode_action: the first D-Bus action that has no arguments of its own  *)
(* takes those of the call.                                                *)
Taker(e) == SelectInSeq(e.acts, LAMBDA a : "DBUS" \in a.type /\ a.args = Null)

(* Mistake: every such action takes them.                                  *)
WithArgsAll(e, args) ==
  [e EXCEPT !.acts = [i \in DOMAIN e.acts |->
     IF "DBUS" \in e.acts[i].type /\ e.acts[i].args = Null
     THEN [e.acts[i] EXCEPT !.args = args] ELSE e.acts[i]]]

WithArgs(e, args) ==
  IF args = Null \/ Taker(e) = 0 THEN e ELSE [e EXCEPT !.acts[Taker(e)].args = args]

ActionArgs(a) ==
  <<Arg("u", <<a.when, a.type>>), TextArg(a.label), TextArg(a.command),
    TextArg(a.target), TextArg(a.args)>>

RecurArgs(mask) == <<Arg("t", mask)>>

AttrArgs(att) ==
  <<TextArg(att.name), Arg("i", att.type)>> \o
  CASE att.type \in {"INT", "TIME"} -> <<Arg("i", att.val)>>
    [] att.type = "STRING"          -> <<TextArg(att.val)>>
    [] att.type = "NULL"            -> << >>

HeadArgs(e) ==
  <<Arg("u", e.cookie), Arg("i", e.trigger), TextArg(e.title),
    Arg("u", <<e.flags, e.state>>), TextArg(e.appid), Arg("i", e.time),
    Arg("i", e.recurSecs), Arg("i", e.recurCount), Arg("i", e.total),
    Arg("u", Len(e.acts)), Arg("i", e.response)>>

EncodeActions(e) == FlattenSeq([i \in DOMAIN e.acts |-> ActionArgs(e.acts[i])])

EncodeRecurrences(e) ==
  <<Arg("u", Len(e.recs))>> \o FlattenSeq([i \in DOMAIN e.recs |-> RecurArgs(e.recs[i])])

EncodeAttrs(e) ==
  <<Arg("u", Len(e.attrs))>> \o FlattenSeq([i \in DOMAIN e.attrs |-> AttrArgs(e.attrs[i])])

(* Clients linked with a libalarm before 1.0.4 send no attributes.         *)
EncodeOld(e) == HeadArgs(e) \o EncodeActions(e) \o EncodeRecurrences(e)

Encode(e) == EncodeOld(e) \o EncodeAttrs(e)

-----------------------------------------------------------------------------
(* Decoding.  A value of another type, or the end of the message, makes    *)
(* the whole event void.                                                   *)

HeadTypes   == <<"u", "i", "s", "u", "s", "i", "i", "i", "i", "u", "i">>
ActionTypes == <<"u", "s", "s", "s", "s">>

Typed(msg, from, types) ==
  /\ from + Len(types) - 1 <= Len(msg)
  /\ \A i \in DOMAIN types : msg[from + i - 1].t = types[i]

ActionAt(msg, p) ==
  [when |-> msg[p].v[1], type |-> msg[p].v[2], label |-> msg[p+1].v,
   command |-> msg[p+2].v, target |-> msg[p+3].v, args |-> msg[p+4].v]

AttrAt(msg, p) ==
  Attr(msg[p].v, msg[p+1].v, IF msg[p+1].v = "NULL" THEN 0 ELSE msg[p+2].v)

AttrLen(msg, p) == IF msg[p+1].v = "NULL" THEN 2 ELSE 3

AttrTyped(msg, p) ==
  /\ Typed(msg, p, <<"s", "i">>)
  /\ CASE msg[p+1].v \in {"INT", "TIME"} -> Typed(msg, p + 2, <<"i">>)
       [] msg[p+1].v = "STRING"          -> Typed(msg, p + 2, <<"s">>)
       [] OTHER                          -> TRUE

(* The attributes from p on, n of them; decode_eom_p: there may be none.   *)
AttrsFrom(msg, p) ==
  LET starts[i \in Nat] == IF i = 1 THEN p + 1 ELSE starts[i-1] + AttrLen(msg, starts[i-1])
  IN IF p > Len(msg) THEN << >>
     ELSE [i \in 1 .. msg[p].v |-> AttrAt(msg, starts[i])]

AttrsValid(msg, p) ==
  LET starts[i \in Nat] == IF i = 1 THEN p + 1 ELSE starts[i-1] + AttrLen(msg, starts[i-1])
      valid[i \in Nat]  == i = 0 \/ (valid[i-1] /\ AttrTyped(msg, starts[i]))
  IN p > Len(msg) \/ (Typed(msg, p, <<"u">>) /\ valid[msg[p].v])

Decode(msg) ==
  LET head == Typed(msg, 1, HeadTypes)
      acts == [i \in 1 .. msg[10].v |-> Len(HeadTypes) + (i - 1) * Len(ActionTypes) + 1]
      recs == Len(HeadTypes) + msg[10].v * Len(ActionTypes) + 1
      attr == recs + msg[recs].v + 1
  IN IF /\ head
        /\ \A i \in DOMAIN acts : Typed(msg, acts[i], ActionTypes)
        /\ Typed(msg, recs, <<"u">>)
        /\ \A i \in 1 .. msg[recs].v : Typed(msg, recs + i, <<"t">>)
        /\ AttrsValid(msg, attr)
     THEN <<[cookie |-> msg[1].v, trigger |-> msg[2].v, title |-> msg[3].v,
             flags |-> msg[4].v[1], state |-> msg[4].v[2], appid |-> msg[5].v,
             time |-> msg[6].v, recurSecs |-> msg[7].v, recurCount |-> msg[8].v,
             total |-> msg[9].v, response |-> msg[11].v,
             acts |-> [i \in DOMAIN acts |-> ActionAt(msg, acts[i])],
             recs |-> [i \in 1 .. msg[recs].v |-> msg[recs + i].v],
             attrs |-> AttrsFrom(msg, attr)]>>
     ELSE << >>
=============================================================================
