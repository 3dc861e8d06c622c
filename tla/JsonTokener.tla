---------------------------- MODULE JsonTokener ----------------------------
(***************************************************************************)
(* json_tokener_parse_ex of json-c, which can be fed a text in pieces, and *)
(* the serializers whose text it reads.  A text is made of tokens, which   *)
(* are sequences of characters; a piece may end between any two            *)
(* characters, and what the function keeps in local variables is lost      *)
(* there.  A word has two letters here (null is "n" "l"), a \u escape two  *)
(* digits, of which the first says what it stands for.  Characters: "q"    *)
(* and "sq" are the quotes, "bs" the backslash, "0" the terminating NUL.   *)
(***************************************************************************)
EXTENDS Integers, Sequences, SequencesExt, FiniteSetsExt

CONSTANTS JsonAtoms,      \* the tokens that are values, with the value each stands for
          JsonBlanks,     \* tokens that stand for nothing
          JsonFragile,    \* tokens and blanks the tokener is known to misread in places
          JsonValues,     \* values that are serialized and read back
          JsonMaxDepth,   \* tok->max_depth
          MaxTokens       \* bound: tokens of a free text

VARIABLES jstack,   \* tok->stack[0..depth]: [state, saved, current, field]
          jpb, jpos, jquote, jdouble, jucs,   \* tok->pb, st_pos, quote_char, is_double, ucs_char
          jerr,     \* tok->err
          jstrict,  \* JSON_TOKENER_STRICT
          jobj, jcaseLen, jhi,  \* locals: obj, case_len, got_hi_surrogate
          jc,       \* the character looked at; NoChar when the next has to be fetched
          jleft,    \* characters until the piece ends, -1 when not known
          jcall,    \* "in" json_tokener_parse_ex or "out"
          jresult,  \* what it returned
          jrest, jfed, jscript,  \* text not read yet; all tokens so far; tokens to come
          jwrote    \* the value a scripted text was written from

jsonVars == <<jstack, jpb, jpos, jquote, jdouble, jucs, jerr, jstrict, jobj, jcaseLen, jhi, jc, jleft,
              jcall, jresult, jrest, jfed, jscript, jwrote>>
jlocals == <<jobj, jcaseLen, jhi>>
jinput == <<jleft, jcall, jresult, jrest, jfed, jscript, jwrote, jstrict>>

NoChar == "none"
NoValue == <<"none">>
Null == <<"null">>

WordNull == <<"n", "l">>
WordNaN == <<"n", "N">>
WordTrue == <<"t", "r">>
WordFalse == <<"f", "s">>
WordInf == <<"i", "y">>
HexLen == 2
NumberChars == {"z", "1", ".", "-"}   \* "z" is the digit 0; no exponents
Blank == {"ws", "nl"}

\* Pieces of a token sequence: punctuation is a token of one character.
Punct(c) == <<c>>

-----------------------------------------------------------------------------
(* Serializers. *)

\* json_escape_str: "U" is a control character.
json_escape_str(s) ==
  FlattenSeq([i \in DOMAIN s |->
    CASE s[i] \in {"q", "bs", "/"} -> <<"bs", s[i]>>
      [] s[i] = "nl" -> <<"bs", "n">>
      [] s[i] = "U" -> <<"bs", "u", "pl", "h">>
      [] OTHER -> <<s[i]>>])

string_to_json_string(s) == <<"q">> \o json_escape_str(s) \o <<"q">>

\* %.17g drops the zeros at the end of a fraction, and the point when none is left.
General(s) ==
  SubSeq(s, 1, Max({i \in DOMAIN s : s[i] # "." /\ (s[i] = "z" => \A k \in 1..i - 1 : s[k] # ".")}))

\* A double, <<"float", digits>>; one that was made with its text, <<"dbl", text>>, has that
\* written instead.
double_to_json_string(v) ==
  CASE v[1] = "nan" -> WordNaN
    [] v[1] = "inf" -> (IF v[2] = "-" THEN <<"-">> ELSE <<>>) \o WordInf
    [] OTHER -> General(v[2])

userdata_to_json_string(v) == v[2]

\* What stands before element i of an array or an object, and before its end.
Gap(spaced) == IF spaced THEN <<<<"ws">>>> ELSE <<>>
Separated(i, spaced) == (IF i = 1 THEN <<>> ELSE <<Punct(",")>>) \o Gap(spaced)

\* json_object_to_json_string_ext: the tokens of a value; spaced when the flag says so.
RECURSIVE to_json_string(_, _), array_to_json_string(_, _), object_to_json_string(_, _)
array_to_json_string(es, spaced) ==
  <<Punct("[")>>
  \o FlattenSeq([i \in DOMAIN es |-> Separated(i, spaced) \o to_json_string(es[i], spaced)])
  \o Gap(spaced) \o <<Punct("]")>>
object_to_json_string(ms, spaced) ==
  <<Punct("{")>>
  \o FlattenSeq([i \in DOMAIN ms |->
       Separated(i, spaced) \o <<string_to_json_string(ms[i][1]), Punct(":")>>
       \o Gap(spaced) \o to_json_string(ms[i][2], spaced)])
  \o Gap(spaced) \o <<Punct("}")>>
to_json_string(v, spaced) ==
  CASE v[1] = "arr" -> array_to_json_string(v[2], spaced)
    [] v[1] = "obj" -> object_to_json_string(v[2], spaced)
    [] v[1] = "str" -> <<string_to_json_string(v[2])>>
    [] v = Null -> <<WordNull>>
    [] v[1] = "bool" -> <<IF v[2] THEN WordTrue ELSE WordFalse>>
    [] v[1] \in {"nan", "inf", "float"} -> <<double_to_json_string(v)>>
    [] v[1] = "dbl" -> <<userdata_to_json_string(v)>>
    [] OTHER -> <<v[2]>>

-----------------------------------------------------------------------------
(* The tokener's stack. *)

NewLevel == [state |-> "eatws", saved |-> "start", current |-> Null, field |-> <<>>]

JTop == jstack[Len(jstack)]
JDepth == Len(jstack) - 1
\* state and saved_state of the level on top.
To(st, sv) == [jstack EXCEPT ![Len(jstack)] = [@ EXCEPT !.state = st, !.saved = sv]]
Done(v) == [jstack EXCEPT ![Len(jstack)] = [@ EXCEPT !.state = "eatws", !.saved = "finish", !.current = v]]
State(s) == jcall = "in" /\ jc # NoChar /\ JTop.state = s

JsonInit ==
  /\ jstack = <<NewLevel>> /\ jpb = <<>> /\ jpos = 0 /\ jquote = "q" /\ jdouble = FALSE /\ jucs = "pl"
  /\ jerr = "success" /\ jstrict \in BOOLEAN
  /\ jobj = Null /\ jcaseLen = 0 /\ jhi = FALSE /\ jc = NoChar /\ jleft = -1 /\ jcall = "in"
  /\ jresult = NoValue /\ jrest = <<>> /\ jfed = <<>>
  /\ \/ jwrote = NoValue /\ jscript = <<>>
     \/ /\ jwrote \in JsonValues
        /\ \E spaced \in BOOLEAN : jscript = Append(to_json_string(jwrote, spaced), <<"0">>)

\* AddMember: a known key keeps its place.
AddMember(o, key, v) ==
  LET at == {i \in DOMAIN o[2] : o[2][i][1] = key}
  IN  IF at = {} THEN <<"obj", Append(o[2], <<key, v>>)>>
      ELSE <<"obj", [o[2] EXCEPT ![CHOOSE i \in at : TRUE] = <<key, v>>]>>

\* The label out.  stack is the stack by then, e the error so far.
Out(stack, e) ==
  LET top == stack[Len(stack)]
      e1 == IF jc # "0" /\ top.state = "finish" /\ Len(stack) = 1 /\ jstrict THEN "unexpected" ELSE e
      e2 == IF jc = "0" /\ top.state # "finish" /\ top.saved # "finish" THEN "eof" ELSE e1
  IN  /\ jcall' = "out" /\ jerr' = e2
      /\ jresult' = IF e2 = "success" THEN top.current ELSE NoValue
      /\ jstack' = IF e2 = "success" THEN <<NewLevel>> ELSE stack
      /\ UNCHANGED <<jc, jleft, jrest, jfed, jscript, jwrote, jstrict>>

Fails(e) == Out(jstack, e) /\ UNCHANGED <<jpb, jpos, jquote, jdouble, jucs, jlocals>>

\* ADVANCE_CHAR: a NUL ends the call.
Advance(stack) ==
  IF jc = "0" THEN Out(stack, "success")
  ELSE /\ jstack' = stack /\ jc' = NoChar /\ UNCHANGED <<jerr, jinput>>

Redo(stack) == jstack' = stack /\ UNCHANGED <<jc, jerr, jinput>>

Keep == UNCHANGED <<jpb, jpos, jquote, jdouble, jucs, jlocals>>

-----------------------------------------------------------------------------
(* Text and pieces. *)

\* PEEK_CHAR within a piece.
PeekChar ==
  /\ jcall = "in" /\ jc = NoChar /\ jrest # <<>> /\ jleft # 0
  /\ jc' = Head(jrest) /\ jrest' = Tail(jrest)
  /\ jleft' = IF jleft > 0 THEN jleft - 1 ELSE jleft
  /\ UNCHANGED <<jstack, jpb, jpos, jquote, jdouble, jucs, jerr, jlocals, jcall, jresult, jfed, jscript,
                 jwrote, jstrict>>

\* The text goes on: with any token, but numbers are kept apart.
LastChar == IF jfed = <<>> THEN "ws" ELSE Last(Last(jfed))
Tokens == DOMAIN JsonAtoms \union JsonBlanks \union {Punct(c) : c \in {"[", "]", "{", "}", ",", ":", "0"}}
NextTokens ==
  IF jscript # <<>> THEN {Head(jscript)}
  ELSE {t \in Tokens : jwrote = NoValue /\ Len(jfed) < MaxTokens /\ ~({LastChar, t[1]} \subseteq NumberChars)}

TextGoesOn ==
  /\ jcall = "in" /\ jc = NoChar /\ jrest = <<>>
  /\ \E t \in NextTokens : jfed' = Append(jfed, t) /\ jrest' = t
  /\ jscript' = IF jscript # <<>> THEN Tail(jscript) ELSE jscript
  /\ UNCHANGED <<jstack, jpb, jpos, jquote, jdouble, jucs, jerr, jlocals, jc, jleft, jcall, jresult,
                 jwrote, jstrict>>

\* Fault: a piece that ends between values is taken for the end of the text.
PieceEnd_Eager(top) == IF top.state = "eatws" THEN "success" ELSE "continue"

\* PEEK_CHAR at the end of a piece.
PieceEnd(top) ==
  IF JDepth = 0 /\ top.state = "eatws" /\ top.saved = "finish" THEN "success" ELSE "continue"

\* A pending high surrogate is replaced ("R") at the end of its piece; when that is right
\* after the second \u, st_pos still has the end of the first half.
PieceEnds ==
  /\ jcall = "in" /\ jc = NoChar /\ jfed # <<>>
  /\ Len(jrest) < Len(Last(jfed))   \* some of the last token is in this piece
  /\ jpb' = IF jhi THEN Append(jpb, "R") ELSE jpb
  /\ jpos' = IF jhi /\ jpos = 0 THEN HexLen ELSE jpos
  /\ Out(jstack, PieceEnd(JTop))
  /\ UNCHANGED <<jquote, jdouble, jucs, jlocals>>

json_tokener_parse_ex ==
  /\ jcall = "out" /\ jerr = "continue"
  /\ jcall' = "in" /\ jerr' = "success" /\ jleft' = -1
  /\ jobj' = Null /\ jcaseLen' = 0 /\ jhi' = FALSE
  /\ UNCHANGED <<jstack, jpb, jpos, jquote, jdouble, jucs, jc, jresult, jrest, jfed, jscript, jwrote, jstrict>>

-----------------------------------------------------------------------------
(* One action per case of the switch. *)

EatWs ==
  /\ State("eatws")
  /\ IF jc \in Blank THEN Advance(jstack) /\ Keep
     ELSE IF jc = "/" /\ ~jstrict
     THEN /\ Advance(To("comment_start", JTop.saved)) /\ jpb' = <<>>
          /\ UNCHANGED <<jpos, jquote, jdouble, jucs, jlocals>>
     ELSE Redo(To(JTop.saved, JTop.saved)) /\ Keep

WordState(c) == CASE c = "i" -> "inf" [] c = "n" -> "null" [] OTHER -> "boolean"

Begin ==
  /\ State("start")
  /\ CASE jc = "{" -> /\ Advance([To("eatws", "object_field_start") EXCEPT ![Len(jstack)].current = <<"obj", <<>>>>])
                      /\ Keep
       [] jc = "[" -> /\ Advance([To("eatws", "array") EXCEPT ![Len(jstack)].current = <<"arr", <<>>>>])
                      /\ Keep
       [] jc \in {"i", "n", "t", "f"} ->
            /\ Redo(To(WordState(jc), JTop.saved)) /\ jpb' = <<>> /\ jpos' = 0
            /\ UNCHANGED <<jquote, jdouble, jucs, jlocals>>
       [] jc = "q" \/ (jc = "sq" /\ ~jstrict) ->
            /\ Advance(To("string", JTop.saved)) /\ jpb' = <<>> /\ jquote' = jc
            /\ UNCHANGED <<jpos, jdouble, jucs, jlocals>>
       [] jc \in NumberChars \ {"."} ->
            /\ Redo(To("number", JTop.saved)) /\ jpb' = <<>> /\ jdouble' = FALSE /\ jcaseLen' = 0
            /\ UNCHANGED <<jpos, jquote, jucs, jobj, jhi>>
       [] OTHER -> Fails("unexpected")

\* The value of a level is handed to the level below.
Finish ==
  /\ State("finish")
  /\ IF JDepth = 0 THEN Fails("success")
     ELSE /\ jobj' = JTop.current /\ Redo(Front(jstack))
          /\ UNCHANGED <<jpb, jpos, jquote, jdouble, jucs, jcaseLen, jhi>>

\* buf begins like word, as far as st_pos.
Begins(word, buf) ==
  LET size == Min({jpos + 1, Len(word)})
  IN  Len(buf) >= size /\ SubSeq(word, 1, size) = SubSeq(buf, 1, size)

\* The cases inf, null and boolean: words are pairs of a word and its value.
Word(words, buf, e) ==
  /\ jpb' = Append(jpb, jc)
  /\ IF \E w \in words : Begins(w[1], buf)
     THEN LET w == CHOOSE w \in words : Begins(w[1], buf)
          IN  IF jpos = Len(w[1]) THEN Redo(Done(w[2])) /\ UNCHANGED jpos
              ELSE Advance(jstack) /\ jpos' = jpos + 1
     ELSE Out(jstack, e) /\ UNCHANGED jpos
  /\ UNCHANGED <<jquote, jdouble, jucs, jlocals>>

Infinity ==
  /\ State("inf")
  /\ LET all == Append(jpb, jc)
         neg == all[1] = "-"
     IN  Word({<<WordInf, <<"inf", IF neg THEN "-" ELSE "+">>>>}, IF neg THEN Tail(all) ELSE all, "unexpected")

NullOrNaN == State("null") /\ Word({<<WordNull, Null>>, <<WordNaN, <<"nan">>>>}, Append(jpb, jc), "null")

Boolean ==
  /\ State("boolean")
  /\ Word({<<WordTrue, <<"bool", TRUE>>>>, <<WordFalse, <<"bool", FALSE>>>>}, Append(jpb, jc), "boolean")

Comment ==
  /\ \/ /\ State("comment_start")
        /\ CASE jc = "*" -> Advance(To("comment", JTop.saved))
             [] jc = "/" -> Advance(To("comment_eol", JTop.saved))
             [] OTHER -> Out(jstack, "comment")
     \/ /\ State("comment")
        /\ Advance(IF jc = "*" THEN To("comment_end", JTop.saved) ELSE jstack)
     \/ /\ State("comment_eol")
        /\ Advance(IF jc = "nl" THEN To("eatws", JTop.saved) ELSE jstack)
     \/ /\ State("comment_end")
        /\ Advance(To(IF jc = "/" THEN "eatws" ELSE "comment", JTop.saved))
  /\ Keep

\* The cases string and object_field.
Quoted ==
  /\ State("string") \/ State("object_field")
  /\ LET str == JTop.state = "string"
     IN  CASE jc = jquote ->
                /\ Advance(IF str THEN Done(<<"str", jpb>>)
                           ELSE [To("eatws", "object_field_end") EXCEPT ![Len(jstack)].field = jpb])
                /\ UNCHANGED jpb
           [] jc = "bs" -> Advance(To("string_escape", JTop.state)) /\ UNCHANGED jpb
           [] OTHER -> Advance(jstack) /\ jpb' = Append(jpb, jc)
  /\ UNCHANGED <<jpos, jquote, jdouble, jucs, jlocals>>

Escape ==
  /\ State("string_escape")
  /\ CASE jc \in {"q", "bs", "/", "n"} ->
            /\ Advance(To(JTop.saved, JTop.saved))
            /\ jpb' = Append(jpb, IF jc = "n" THEN "nl" ELSE jc) /\ UNCHANGED <<jpos, jucs>>
       [] jc = "u" -> Advance(To("escape_unicode", JTop.saved)) /\ jucs' = "pl" /\ jpos' = 0 /\ UNCHANGED jpb
       [] OTHER -> Out(jstack, "string") /\ UNCHANGED <<jpb, jpos, jucs>>
  /\ UNCHANGED <<jquote, jdouble, jlocals>>

\* escape_unicode: "U" is a plain character, "P" one of a surrogate pair, "R" the
\* replacement.  The second half is looked for in the piece at hand only; once st_pos is
\* beyond the digits no further one completes the escape.
EscapeUnicode ==
  /\ State("escape_unicode")
  /\ UNCHANGED <<jquote, jdouble, jobj, jcaseLen>>
  /\ LET digit == IF jpos = 0 THEN jc ELSE jucs
         pair == jhi /\ digit = "lo"
         before == IF jhi /\ ~pair THEN <<"R">> ELSE <<>>
         goesOn == Len(jrest) >= 2 /\ jrest[1] = "bs" /\ jrest[2] = "u"
         ends(ch) == /\ Advance(To(JTop.saved, JTop.saved)) /\ jpb' = jpb \o before \o ch
                     /\ jpos' = jpos + 1 /\ jucs' = digit /\ jhi' = FALSE
     IN  IF jc \notin {"hi", "lo", "pl", "h"} THEN Out(jstack, "string") /\ UNCHANGED <<jpb, jpos, jucs, jhi>>
         ELSE IF jpos >= HexLen THEN Advance(jstack) /\ UNCHANGED <<jpb, jpos, jucs, jhi>>
         ELSE IF jpos + 1 < HexLen
         THEN Advance(jstack) /\ jucs' = digit /\ jpos' = jpos + 1 /\ UNCHANGED <<jpb, jhi>>
         ELSE CASE pair -> ends(<<"P">>)
                [] digit = "pl" -> ends(<<"U">>)
                [] digit = "lo" /\ ~pair -> ends(<<"R">>)
                [] OTHER ->
                     \/ /\ goesOn
                        /\ jrest' = SubSeq(jrest, 3, Len(jrest)) /\ jc' = NoChar
                        /\ jpb' = jpb \o before /\ jhi' = TRUE /\ jpos' = 0 /\ jucs' = "pl"
                        /\ UNCHANGED <<jstack, jerr, jleft, jcall, jresult, jfed, jscript, jwrote, jstrict>>
                     \/ ~goesOn /\ ends(<<"R">>)
                     \/ \E left \in {0, 1} :   \* the piece ends before the second half
                          /\ goesOn /\ jleft' = left /\ jc' = NoChar
                          /\ jstack' = To(JTop.saved, JTop.saved) /\ jpb' = jpb \o before \o <<"R">>
                          /\ jpos' = jpos + 1 /\ jucs' = digit /\ jhi' = FALSE
                          /\ UNCHANGED <<jerr, jcall, jresult, jrest, jfed, jscript, jwrote, jstrict>>

\* json_parse_int64 and json_parse_double take the number at the front.
Digits(s) == {i \in DOMAIN s : s[i] \in {"z", "1"} /\ \A k \in 1..i - 1 : s[k] \in {"z", "1"} \/ (k = 1 /\ s[k] = "-")}
IntFront(s) == SubSeq(s, 1, Max(Digits(s)))
NumberStarts(s) == Digits(s) # {} \/ (\E i \in 1..Len(s) - 1 : s[i] = "." /\ s[i + 1] \in {"z", "1"} /\ i <= 2 /\ (i = 2 => s[1] = "-"))

Number ==
  /\ State("number")
  /\ IF jc \in NumberChars
     THEN /\ Advance(jstack) /\ jcaseLen' = jcaseLen + 1 /\ jpb' = Append(jpb, jc)
          /\ jdouble' = (jdouble \/ jc = ".")
     ELSE /\ UNCHANGED <<jpb, jdouble, jcaseLen>>
          /\ CASE jpb[1] = "-" /\ jcaseLen = 1 /\ jc = "i" -> Redo(To("inf", JTop.saved))
               [] ~jdouble /\ Digits(jpb) # {} ->
                    IF jpb[1] = "z" /\ (\E i \in DOMAIN IntFront(jpb) : jpb[i] = "1") /\ jstrict
                    THEN Out(jstack, "number") ELSE Redo(Done(<<"int", IntFront(jpb)>>))
               [] jdouble /\ NumberStarts(jpb) -> Redo(Done(<<"dbl", jpb>>))
               [] OTHER -> Out(jstack, "number")
  /\ UNCHANGED <<jpos, jquote, jucs, jobj, jhi>>

TooDeep == JDepth >= JsonMaxDepth - 1

Push(st) == Append(To(st, JTop.saved), NewLevel)

Array ==
  /\ \/ /\ State("array") \/ State("array_after_sep")
        /\ IF jc = "]"
           THEN IF JTop.state = "array_after_sep" /\ jstrict THEN Out(jstack, "unexpected")
                ELSE Advance(To("eatws", "finish"))
           ELSE IF TooDeep THEN Out(jstack, "depth") ELSE Redo(Push("array_add"))
     \/ /\ State("array_add")
        /\ Redo([To("eatws", "array_sep") EXCEPT ![Len(jstack)].current = <<"arr", Append(@[2], jobj)>>])
     \/ /\ State("array_sep")
        /\ CASE jc = "]" -> Advance(To("eatws", "finish"))
             [] jc = "," -> Advance(To("eatws", "array_after_sep"))
             [] OTHER -> Out(jstack, "array")
  /\ Keep

FieldStart ==
  /\ State("object_field_start") \/ State("object_field_start_after_sep")
  /\ CASE jc = "}" ->
            /\ IF JTop.state = "object_field_start_after_sep" /\ jstrict THEN Out(jstack, "unexpected")
               ELSE Advance(To("eatws", "finish"))
            /\ Keep
       [] jc \in {"q", "sq"} ->
            /\ Advance(To("object_field", JTop.saved)) /\ jquote' = jc /\ jpb' = <<>>
            /\ UNCHANGED <<jpos, jdouble, jucs, jlocals>>
       [] OTHER -> Fails("key_name")

Object ==
  /\ \/ /\ State("object_field_end")
        /\ IF jc = ":" THEN Advance(To("eatws", "object_value")) ELSE Out(jstack, "key_sep")
     \/ /\ State("object_value")
        /\ IF TooDeep THEN Out(jstack, "depth") ELSE Redo(Push("object_value_add"))
     \/ /\ State("object_value_add")
        /\ Redo([To("eatws", "object_sep") EXCEPT ![Len(jstack)] =
                   [@ EXCEPT !.current = AddMember(@, JTop.field, jobj), !.field = <<>>]])
     \/ /\ State("object_sep")
        /\ CASE jc = "}" -> Advance(To("eatws", "finish"))
             [] jc = "," -> Advance(To("eatws", "object_field_start_after_sep"))
             [] OTHER -> Out(jstack, "value_sep")
  /\ Keep

JsonNext ==
  \/ PeekChar \/ TextGoesOn \/ PieceEnds \/ json_tokener_parse_ex
  \/ EatWs \/ Begin \/ Finish \/ Infinity \/ NullOrNaN \/ Boolean \/ Comment \/ Quoted
  \/ Escape \/ EscapeUnicode \/ Number \/ Array \/ FieldStart \/ Object

-----------------------------------------------------------------------------
(* Properties. *)

\* What JSON says a sequence of tokens stands for: a set of at most one value.  The
\* tokener takes a comma too many outside strict mode, and a key in single quotes always.
RECURSIVE Reading(_), Items(_), Members(_)
Reading(t) ==
  (IF Len(t) = 1 /\ t[1] \in DOMAIN JsonAtoms /\ ~(jstrict /\ t[1][1] = "sq") /\ ~(jstrict /\ t[1] = <<"z", "1">>)
   THEN {JsonAtoms[t[1]]} ELSE {})
  \union (IF Len(t) >= 2 /\ t[1] = Punct("[") /\ Last(t) = Punct("]")
          THEN {<<"arr", s>> : s \in Items(SubSeq(t, 2, Len(t) - 1))} ELSE {})
  \union (IF Len(t) >= 2 /\ t[1] = Punct("{") /\ Last(t) = Punct("}")
          THEN {<<"obj", s>> : s \in Members(SubSeq(t, 2, Len(t) - 1))} ELSE {})
Splits(t) == {i \in DOMAIN t : t[i] = Punct(",") /\ ~(jstrict /\ i = Len(t))}
Items(t) ==
  IF t = <<>> THEN {<<>>}
  ELSE {<<v>> : v \in Reading(t)} \union
       UNION {{<<v>> \o r : v \in Reading(SubSeq(t, 1, i - 1)), r \in Items(SubSeq(t, i + 1, Len(t)))} : i \in Splits(t)}
Member(t) ==
  IF Len(t) < 3 \/ t[1] \notin DOMAIN JsonAtoms \/ t[2] # Punct(":") THEN {}
  ELSE IF JsonAtoms[t[1]][1] # "str" THEN {}
  ELSE {<<JsonAtoms[t[1]][2], v>> : v \in Reading(SubSeq(t, 3, Len(t)))}
Joined(m, r) ==
  LET again == {i \in DOMAIN r : r[i][1] = m[1]}
  IN  IF again = {} THEN <<m>> \o r
      ELSE LET i == CHOOSE i \in again : TRUE IN <<r[i]>> \o RemoveAt(r, i)
Members(t) ==
  IF t = <<>> THEN {<<>>}
  ELSE {<<m>> : m \in Member(t)} \union
       UNION {{Joined(m, r) : m \in Member(SubSeq(t, 1, i - 1)), r \in Members(SubSeq(t, i + 1, Len(t)))} : i \in Splits(t)}

\* In strict mode a comment is no blank.
Means(t) == t # <<"0">> /\ (t \in JsonBlanks => jstrict /\ t[1] = "/")
Doc == SelectSeq(jfed, Means)
NotFragile == \A i \in DOMAIN jfed : jfed[i] \notin JsonFragile

\* However a text is cut into pieces, and wherever blanks and comments stand: a value
\* is returned exactly when the tokens so far make one (or those before a token that
\* is too many, which is refused in strict mode), it is that value, an error never
\* rejects a text that is one, and as long as the answer is json_tokener_continue the
\* text is not complete or could still go on.  Texts with fragile tokens are left out.
ReadsTheText ==
  jcall = "out" /\ jwrote = NoValue /\ NotFragile =>
    CASE jerr = "success" -> \/ jresult \in Reading(Doc)
                             \/ ~jstrict /\ Len(Doc) > 1 /\ jresult \in Reading(Front(Doc))
      [] jerr = "continue" -> \/ Reading(Doc) = {} \/ jrest # <<>>
                              \/ Len(Doc) = 1   \* a word or a number, which may go on
                              \/ Last(jfed) \in JsonBlanks   \* within a comment
      [] jerr = "depth" -> TRUE
      [] OTHER -> Reading(Doc) = {}

\* The value that a value's text is read back as: a double comes back with its text, and
\* as an integer when it is a whole number that had none.
RECURSIVE ReadBack(_)
ReadBack(v) ==
  CASE v[1] = "float" -> <<IF "." \in ToSet(General(v[2])) THEN "dbl" ELSE "int", General(v[2])>>
    [] v[1] = "arr" -> <<"arr", [i \in DOMAIN v[2] |-> ReadBack(v[2][i])]>>
    [] v[1] = "obj" -> <<"obj", [i \in DOMAIN v[2] |-> <<v[2][i][1], ReadBack(v[2][i][2])>>]>>
    [] OTHER -> v

\* What the serializers write, plain or spaced, is read back as the same value, whatever
\* the pieces it arrives in, but for a whole number that is a double, which comes back as
\* an integer unless it was made with a text of its own.
RoundTrip ==
  jcall = "out" /\ jwrote # NoValue /\ NotFragile =>
    jerr \in {"success", "continue"} /\ (jerr = "success" => jresult = ReadBack(jwrote))

\* Texts, the program's and those the serializers wrote, are read as what they say,
\* whatever the pieces they arrive in.
TextsReadRight == ReadsTheText /\ RoundTrip
=============================================================================
