----------------------------- MODULE QueueFile ------------------------------
(***************************************************************************)
(* What the queue file says of an event (queue.c, inifile.c, symtab.c,     *)
(* unique.c, escape.c): a section of keys and values for each event.       *)
(* Values that are zero or empty have no line, text is escaped, and        *)
(* reading a line takes the white space around its value away.             *)
(***************************************************************************)
EXTENDS CallArgs

White == {" ", "nl", "ctl"}

(* xstrip.                                                                 *)
Stripped[s \in String] ==
  IF s = << >> THEN << >>
  ELSE IF s[1] \in White THEN Stripped[Tail(s)]
  ELSE IF s[Len(s)] \in White THEN Stripped[Front(s)] ELSE s

(* inifile_load: what is read of a line.                                   *)
LineRead(line) == Stripped[Unescape[line]]

(* What comes back of a text that is written by escape_putline.            *)
LineText(s) == LineRead(EscapeText[Text(s)])

-----------------------------------------------------------------------------
(* A section: the keys that have a line, the numbers and the texts.  Keys   *)
(* are the field and the place of the action, recurrence or attribute.     *)

HeadNumbers == {"cookie", "trigger", "time", "recurSecs", "recurCount", "total"}
HeadTexts   == {"title", "appid"}
ActionTexts == {"label", "command", "target", "args"}

Section(e) ==
  [cookie |-> e.cookie,
   flags  |-> <<e.flags, e.state>>,
   counts |-> <<Len(e.acts), Len(e.recs), Len(e.attrs)>>,
   nums   |-> [k \in {h \in HeadNumbers : e[h] # 0} |-> e[k]],
   texts  |-> [k \in {h \in HeadTexts : ~Blank(e[h])} |-> LineText(e[k])],
   acts   |-> [i \in DOMAIN e.acts |->
                 [flags |-> <<e.acts[i].when, e.acts[i].type>>,
                  texts |-> [k \in {h \in ActionTexts : ~Blank(e.acts[i][h])} |->
                               LineText(e.acts[i][k])]]],
   recs   |-> e.recs,
   attrs  |-> [i \in DOMAIN e.attrs |->
                 [e.attrs[i] EXCEPT !.name = LineText(@),
                    !.val = IF e.attrs[i].type = "STRING" THEN LineText(@) ELSE @]]]

(* queue_load_from_path: every field is asked for; an absent number is 0,  *)
(* an absent text is empty.                                                *)
NumberIn(sec, k) == IF k \in DOMAIN sec.nums THEN sec.nums[k] ELSE 0

TextIn(texts, k) == IF k \in DOMAIN texts THEN texts[k] ELSE << >>

LoadedState(s) ==
  IF s \in {"LIMBO", "TRIGGERED", "WAITSYSUI", "SYSUI_REQ", "SYSUI_ACK", "SYSUI_RSP"}
  THEN "LIMBO" ELSE "NEW"

LoadedAction(act) ==
  [when |-> act.flags[1], type |-> act.flags[2],
   label |-> TextIn(act.texts, "label"), command |-> TextIn(act.texts, "command"),
   target |-> TextIn(act.texts, "target"), args |-> TextIn(act.texts, "args")]

LoadedEvent(sec) ==
  [NewEvent EXCEPT
     !.cookie = NumberIn(sec, "cookie"), !.trigger = NumberIn(sec, "trigger"),
     !.time = NumberIn(sec, "time"), !.recurSecs = NumberIn(sec, "recurSecs"),
     !.recurCount = NumberIn(sec, "recurCount"), !.total = NumberIn(sec, "total"),
     !.title = TextIn(sec.texts, "title"), !.appid = TextIn(sec.texts, "appid"),
     !.flags = sec.flags[1], !.state = LoadedState(sec.flags[2]),
     !.acts = [i \in 1 .. sec.counts[1] |-> LoadedAction(sec.acts[i])],
     !.recs = SubSeq(sec.recs, 1, sec.counts[2]),
     !.attrs = SubSeq(sec.attrs, 1, sec.counts[3])]

(* The file: its sections, in the order of their cookies.                  *)
File(events, byCookie) == [i \in DOMAIN byCookie |-> Section(events[byCookie[i]])]
=============================================================================
