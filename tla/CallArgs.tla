------------------------------ MODULE CallArgs ------------------------------
(***************************************************************************)
(* The arguments of a D-Bus call as they are kept in an action: packed in  *)
(* a text when the client gives them, unpacked into the message when the   *)
(* action is done (serialize.c, strbuf.c).  A character is one of          *)
(*   "a", "b"  that are printed as they are    "\\"   a backslash          *)
(*   "nl"  that has a name of its own          "ctl"  that is put in hex   *)
(* a space, or one of those that escaping and packing give a meaning to.   *)
(* Numbers are one character.                                              *)
(***************************************************************************)
EXTENDS EventWire

Chars == {"a", "b", " ", "nl", "ctl", "\\", "n", "x", ";", "[", "]", "s", "i",
          "0", "1", "2", "3", "4"}

String == Seq(Chars)

Digits == <<"0", "1", "2", "3", "4">>
Digit(n) == Digits[n + 1]
Number(c) == IF c \in {Digit(n) : n \in 0 .. 4} THEN CHOOSE n \in 0 .. 4 : Digit(n) = c
             ELSE 255

(* output_esc: everything but printable ASCII.                             *)
Escape(c) == CASE c = "\\"  -> <<"\\", "\\">>
               [] c = "nl"  -> <<"\\", "n">>
               [] c = "ctl" -> <<"\\", "x", "0", "1">>
               [] OTHER     -> <<c>>

EscapeText[s \in String] == IF s = << >> THEN << >> ELSE Escape(s[1]) \o EscapeText[Tail(s)]

(* The character at p of an escaped text, and how long it is there.        *)
EscapeLen(s, p) == IF s[p] # "\\" THEN 1 ELSE IF s[p+1] = "x" THEN 4 ELSE 2
Escaped(s, p)   == IF s[p] # "\\" THEN s[p]
                   ELSE CASE s[p+1] = "n" -> "nl" [] s[p+1] = "x" -> "ctl" [] OTHER -> s[p+1]

Unescape[s \in String] ==
  LET from[p \in Nat] ==
        IF p > Len(s) THEN << >> ELSE <<Escaped(s, p)>> \o from[p + EscapeLen(s, p)]
  IN from[1]

-----------------------------------------------------------------------------
(* strbuf_put_*: a tag, the value, and an end: ";" after a number, "\;"    *)
(* after a string.                                                         *)
PutBasic(t, v) == IF t = "s" THEN EscapeText[v] \o <<"\\", ";">> ELSE <<v, ";">>

(* strbuf_put_array: the tag of the elements and their number.             *)
PutArray(t, vs) ==
  <<"[", t>> \o PutBasic("L", Digit(Len(vs))) \o
  FlattenSeq([i \in DOMAIN vs |-> PutBasic(t, vs[i])]) \o <<"]">>

Put(arg) == IF arg.t = "[" THEN PutArray(arg.v[1], arg.v[2])
            ELSE <<arg.t>> \o PutBasic(arg.t, arg.v)

(* Numbers and texts, and arrays of them.                                  *)
IsBasic(t, v) == (t = "s" /\ v \in String) \/ (t = "i" /\ v \in Chars)

IsArray(v) ==
  /\ v = <<v[1], v[2]>> /\ v[1] \in {"s", "i"}
  /\ IsSeq(v[2]) /\ Len(v[2]) \in 0 .. 4 /\ \A i \in DOMAIN v[2] : IsBasic(v[1], v[2][i])

IsArg(arg) ==
  /\ arg = Arg(arg.t, arg.v)
  /\ IF arg.t = "[" THEN IsArray(arg.v) ELSE IsBasic(arg.t, arg.v)

IsArgs(args) == IsSeq(args) /\ \A i \in DOMAIN args : IsArg(args[i])

Pack(args) == FlattenSeq([i \in DOMAIN args |-> Put(args[i])])

(* strbuf_get_*: where the string that begins at p ends; the value at p,   *)
(* and what comes after it.                                                *)
TextEnd(s, p) ==
  LET end[q \in Nat] ==
        IF q > Len(s) \/ (s[q] = "\\" /\ s[q+1] = ";") THEN q
        ELSE end[q + EscapeLen(s, q)]
  IN end[p]

GetBasic(t, s, p) == IF t = "s" THEN Unescape[SubSeq(s, p, TextEnd(s, p) - 1)] ELSE s[p]
AfterBasic(t, s, p) == (IF t = "s" THEN TextEnd(s, p) ELSE p) + 2

ElementAt(t, s, p) ==
  [i \in Nat |-> LET at[j \in Nat] == IF j <= 1 THEN p ELSE AfterBasic(t, s, at[j-1]) IN at[i]]

GetArray(t, s, p, n) == [i \in 1 .. n |-> GetBasic(t, s, ElementAt(t, s, p)[i])]

(* serialize_unpack_strbuf_to_dbus_message.                                *)
Unpack[s \in String] ==
  LET from[p \in Nat] ==
        IF p > Len(s) THEN << >>
        ELSE IF s[p] = "["
        THEN LET n == Number(s[p+2])
             IN <<Arg("[", <<s[p+1], GetArray(s[p+1], s, p + 4, n)>>)>> \o
                from[ElementAt(s[p+1], s, p + 4)[n+1] + 1]
        ELSE <<Arg(s[p], GetBasic(s[p], s, p + 1))>> \o from[AfterBasic(s[p], s, p + 1)]
  IN from[1]
=============================================================================
