---------------------------- MODULE JsonScript ----------------------------
(***************************************************************************)
(* json_script: scripts in JSON arrays, with conditions, includes and      *)
(* commands that are handed to the program.  A run is one step, as the     *)
(* interpreter neither waits nor lets the program run scripts meanwhile.   *)
(*                                                                         *)
(* An element of a script is <<"s", string>>, <<"a", elements>>,           *)
(* <<"t", <<name, element>> pairs>> or <<"n">>, a number; a string is a    *)
(* sequence of chunks, "%" being one of its own.                           *)
(***************************************************************************)
EXTENDS Integers, Sequences, SequencesExt, FiniteSetsExt

CONSTANTS ScriptOf,    \* file name -> the scripts handle_file chains for it
          ScriptVars,  \* sets of runtime variables: functions from names to strings
          RegexPairs,  \* <<string, pattern>> that match
          ScriptSeqs,  \* width of the run counter, 2^32 in the code
          FirstSeqs,   \* values of the counter to begin with
          MaxScriptRuns

VARIABLES jsSeq,     \* _seq of json_script_run_file
          jsFileSeq, \* file->seq of the files that were loaded
          jsLog,     \* what the last run did
          jsCall,    \* the last run: [name, vars, can]
          jsRuns,    \* how many there were
          jsRanAt    \* history: the run before the last in which a file ran last, or 0

scriptVars == <<jsSeq, jsFileSeq, jsLog, jsCall, jsRuns, jsRanAt>>

Files == DOMAIN ScriptOf
Undefined == <<"undefined">>

-----------------------------------------------------------------------------
(* A call [part, vars, seq, can], and the state s = [seqs, log, ret] that   *)
(* the handlers pass on; ret is the value returned, 0 or 1, -1 or -2.       *)

Type(e) == e[1]
Elements(e) == e[2]
Name(e) == Elements(e)[1][2]

Says(s, event) == [s EXCEPT !.log = Append(@, event)]
Ends(s, r) == [s EXCEPT !.ret = r]
Errs(c, s, msg) == Ends(Says(s, <<"error", msg>>), -1)

msg_find_var(c, name) == IF name \in DOMAIN c.vars THEN c.vars[name] ELSE Undefined

\* blobmsg_parse_array: elements that do not fit the next entry are passed over.
RECURSIVE ParseArray(_, _, _)
ParseArray(types, es, tb) ==
  IF es = <<>> \/ Len(tb) = Len(types) THEN tb
  ELSE ParseArray(types, Tail(es),
                  IF types[Len(tb) + 1] \in {"any", Type(Head(es))} THEN Append(tb, Head(es)) ELSE tb)

json_get_tuple(e, t1, t2) == ParseArray(<<"s", t1, t2>>, Elements(e), <<>>)

eq_regex_cmp(str, pattern, regex) == IF regex THEN <<str, pattern>> \in RegexPairs ELSE str = pattern

\* The string or the strings that are compared.
StringsIn(e) ==
  CASE Type(e) = "s" -> {e[2]}
    [] Type(e) = "a" -> {x[2] : x \in {y \in ToSet(Elements(e)) : Type(y) = "s"}}
    [] OTHER -> {}

\* The first element that is no string, or one of the hits, decides.
Search(c, s, es, hits) ==
  LET k == SelectInSeq(es, LAMBDA e : IF Type(e) # "s" THEN TRUE ELSE e[2] \in hits)
  IN  IF k = 0 THEN Ends(s, 0)
      ELSE IF Type(es[k]) # "s" THEN Errs(c, s, "type") ELSE Ends(s, 1)

OneOrSeveral(c, s, e, hits) ==
  CASE Type(e) = "s" -> Ends(s, IF e[2] \in hits THEN 1 ELSE 0)
    [] Type(e) = "a" -> Search(c, s, Elements(e), hits)
    [] OTHER -> Errs(c, s, "type")

expr_eq_regex(c, s, e, regex) ==
  LET tb == json_get_tuple(e, "s", "any")
      var == msg_find_var(c, tb[2][2])
      hits == {str \in StringsIn(tb[3]) : eq_regex_cmp(var, str, regex)}
  IN  IF Len(tb) < 3 THEN Ends(s, -1)
      ELSE IF var = Undefined THEN Ends(s, 0)
      ELSE OneOrSeveral(c, s, tb[3], hits)

handle_expr_has(c, s, e) ==
  LET tb == json_get_tuple(e, "any", "any")
      hits == {str \in StringsIn(tb[2]) : msg_find_var(c, str) # Undefined}
  IN  IF Len(tb) < 2 THEN Ends(s, -1) ELSE OneOrSeveral(c, s, tb[2], hits)

\* json_process_expr and its handlers; ctx->handle_expr is never called.  Of an array
\* without elements the code reads the attribute behind it; what comes of that depends on
\* the memory, and the scripts given to this module have no such expression.
RECURSIVE json_process_expr(_, _, _), expr_and_or(_, _, _, _)
expr_and_or(c, s, es, and) ==
  IF es = <<>> THEN Ends(s, and)
  ELSE LET r == json_process_expr(c, s, Head(es))
       IN  IF r.ret # and THEN r ELSE expr_and_or(c, r, Tail(es), and)
json_process_expr(c, s, e) ==
  IF Type(e) # "a" THEN Errs(c, s, "type")
  ELSE IF Type(Elements(e)[1]) # "s" THEN Errs(c, s, "type")
  ELSE CASE Name(e) = <<"eq">> -> expr_eq_regex(c, s, e, FALSE)
         [] Name(e) = <<"regex">> -> expr_eq_regex(c, s, e, TRUE)
         [] Name(e) = <<"has">> -> handle_expr_has(c, s, e)
         [] Name(e) = <<"and">> -> expr_and_or(c, s, Tail(Elements(e)), 1)
         [] Name(e) = <<"or">> -> expr_and_or(c, s, Tail(Elements(e)), 0)
         [] Name(e) = <<"not">> ->
              LET tb == json_get_tuple(e, "a", "any")
                  r == json_process_expr(c, s, tb[2])
              IN  IF Len(tb) < 2 THEN Ends(s, -1) ELSE IF r.ret < 0 THEN r ELSE Ends(r, 1 - r.ret)
         [] OTHER -> Errs(c, s, "unknown")

-----------------------------------------------------------------------------
(* Commands. *)

\* eval_string: [out, var], var telling whether a reference is still open.

Reference(c, name) ==
  IF name = <<>> THEN <<"%">>
  ELSE IF msg_find_var(c, name) = Undefined THEN <<>> ELSE msg_find_var(c, name)

RECURSIVE EvalPieces(_, _, _, _)
EvalPieces(c, str, var, out) ==
  LET end == SelectInSeq(str, LAMBDA chunk : chunk = "%")
      piece == IF end = 0 THEN str ELSE SubSeq(str, 1, end - 1)
      more == out \o (IF var THEN Reference(c, piece) ELSE piece)
  IN  IF end = 0 THEN [out |-> more, var |-> var]
      ELSE EvalPieces(c, SubSeq(str, end + 1, Len(str)), ~var, more)

eval_string(c, pattern) == EvalPieces(c, pattern, FALSE, <<>>)

cmd_process_strings(c, s, e) ==
  LET args == Tail(Elements(e))
      bad == SelectInSeq(args, LAMBDA a : IF Type(a) # "s" THEN TRUE ELSE eval_string(c, a[2]).var)
  IN  IF bad = 0
      THEN Ends(Says(s, <<"command", c.part, [i \in DOMAIN args |-> args[i][2]],
                          [i \in DOMAIN args |-> eval_string(c, args[i][2]).out]>>), 0)
      ELSE Errs(c, s, IF Type(args[bad]) # "s" THEN "argument" ELSE "unterminated")

StopsBlock(ret) == ret < -1

HasRun(c, s, f) == s.seqs[f] = c.seq

RECURSIVE json_process_cmd(_, _, _), ProcessBlock(_, _, _), RunScripts(_, _, _, _), json_script_run_(_, _, _, _)
json_script_run_(c, s, f, included) ==
  IF HasRun(c, s, f)
  THEN IF included THEN Says(s, <<"error", "recursive", f>>) ELSE s
  ELSE RunScripts(c, Says([s EXCEPT !.seqs[f] = c.seq], <<"run", f>>), f, 1)
RunScripts(c, s, f, k) ==
  IF k > Len(ScriptOf[f]) THEN s
  ELSE RunScripts(c, json_process_cmd([c EXCEPT !.part = <<f, k>>], Says(s, <<"script", <<f, k>>>>), ScriptOf[f][k]),
                  f, k + 1)
json_process_cmd(c, s, e) ==
  IF Type(e) # "a" THEN Errs(c, s, "type")
  ELSE IF Elements(e) = <<>> THEN Ends(s, 0)
  ELSE IF Type(Elements(e)[1]) # "s" THEN ProcessBlock(c, s, Elements(e))
  ELSE LET iftb == ParseArray(<<"s", "a", "a", "a">>, Elements(e), <<>>)
           test == json_process_expr(c, s, iftb[2])
           casetb == json_get_tuple(e, "s", "t")
           var == msg_find_var(c, casetb[2][2])
           k == SelectInSeq(casetb[3][2], LAMBDA pair : pair[1] = var)
           inctb == json_get_tuple(e, "s", "any")
           f == inctb[2][2]
       IN  CASE Name(e) = <<"if">> ->
                  IF Len(iftb) < 3 THEN Ends(s, 0)
                  ELSE IF test.ret < 0 THEN Ends(test, 0)
                  ELSE IF test.ret = 1 THEN json_process_cmd(c, test, iftb[3])
                  ELSE IF Len(iftb) < 4 THEN test ELSE json_process_cmd(c, test, iftb[4])
             [] Name(e) = <<"case">> ->
                  IF Len(casetb) < 3 THEN Ends(s, 0)
                  ELSE IF var = Undefined THEN Ends(s, 0)
                  ELSE IF k = 0 THEN Ends(s, 0) ELSE json_process_cmd(c, s, casetb[3][2][k][2])
             [] Name(e) = <<"return">> -> Ends(Says(s, <<"return", c.part>>), -2)
             [] Name(e) = <<"include">> ->
                  IF Len(inctb) < 2 THEN Ends(s, 0)
                  ELSE IF f \notin Files THEN Ends(s, 0)
                  ELSE IF f \notin c.can THEN Ends(s, 0) ELSE Ends(json_script_run_(c, s, f, TRUE), 0)
             [] OTHER -> cmd_process_strings(c, s, e)
ProcessBlock(c, s, es) ==
  IF es = <<>> THEN Ends(s, 0)
  ELSE LET r == json_process_cmd(c, s, Head(es))
       IN  IF StopsBlock(r.ret) THEN r ELSE ProcessBlock(c, r, Tail(es))

-----------------------------------------------------------------------------
(* Runs. *)

\* Fault: the number of a run may be 0, which files have that never ran.
NextSeq_Zero == (jsSeq + 1) % ScriptSeqs

NextSeq == IF (jsSeq + 1) % ScriptSeqs = 0 THEN 1 ELSE (jsSeq + 1) % ScriptSeqs

ScriptInit ==
  /\ jsSeq \in FirstSeqs /\ jsFileSeq = [f \in Files |-> 0] /\ jsLog = <<>>
  /\ jsCall = [name |-> <<>>, vars |-> <<>>, can |-> {}] /\ jsRuns = 0
  /\ jsRanAt = [f \in Files |-> 0]

\* json_script_run; can are the files handle_file finds, now or in an earlier run.
json_script_run(f, vars, can) ==
  /\ jsRuns < MaxScriptRuns /\ jsRuns' = jsRuns + 1
  /\ {g \in Files : jsFileSeq[g] # 0} \subseteq can /\ f \in can
  /\ LET c == [part |-> <<f, 1>>, vars |-> vars, seq |-> NextSeq, can |-> can]
         r == json_script_run_(c, [seqs |-> jsFileSeq, log |-> <<>>, ret |-> 0], f, FALSE)
     IN  jsFileSeq' = r.seqs /\ jsLog' = r.log
  /\ jsSeq' = NextSeq /\ jsCall' = [name |-> f, vars |-> vars, can |-> can]
  /\ jsRanAt' = [g \in Files |-> IF <<"run", g>> \in ToSet(jsLog) THEN jsRuns ELSE jsRanAt[g]]

ScriptNext == \E f \in Files, vars \in ScriptVars, can \in SUBSET Files : json_script_run(f, vars, can)

-----------------------------------------------------------------------------
(* Properties. *)

Events(kind) == {i \in DOMAIN jsLog : jsLog[i][1] = kind}

\* A file that last ran a full turn of the counter ago has the number of this run.
Confused(f) == jsRanAt[f] # 0 /\ (jsRuns - jsRanAt[f]) % (ScriptSeqs - 1) = 0

\* The numbers that tell runs apart, in the file and in the call, do their work when the
\* counter wraps, but for a file that last ran a full turn of it ago: that one is taken
\* for one that has run already and passed over.  Otherwise a run begins with its file,
\* no file is run twice in it, and an include is refused as recursive only for a file
\* that has been run.
IncludedOnce ==
  jsRuns > 0 =>
    /\ IF Confused(jsCall.name) THEN jsLog = <<>> ELSE jsLog # <<>> /\ jsLog[1] = <<"run", jsCall.name>>
    /\ \A i \in Events("run") : ~Confused(jsLog[i][2])
    /\ \A i, j \in Events("run") : jsLog[i] = jsLog[j] => i = j
    /\ \A i \in Events("error") : jsLog[i][2] = "recursive" =>
         Confused(jsLog[i][3]) \/ \E j \in Events("run") : j < i /\ jsLog[j][2] = jsLog[i][3]

\* After return no further command of the same script is handed out, however deep in
\* blocks, conditions and cases it stands, while the script chained behind it is run
\* and the files that included it go on.
ReturnEnds ==
  \A i \in Events("return") :
    LET f == jsLog[i][2][1]
        k == jsLog[i][2][2]
    IN  /\ \A j \in Events("command") : j > i => jsLog[j][2] # <<f, k>>
        /\ k < Len(ScriptOf[f]) => \E j \in Events("script") : j > i /\ jsLog[j][2] = <<f, k + 1>>

\* The pieces of a pattern between its % signs are text and references in turn.
Piece(p, k) ==
  LET at == <<0>> \o SelectSeq([i \in 1..Len(p) |-> i], LAMBDA i : p[i] = "%") \o <<Len(p) + 1>>
  IN  SubSeq(p, at[k] + 1, at[k + 1] - 1)
Percents(p) == Cardinality({i \in DOMAIN p : p[i] = "%"})

\* eval_string gives every argument of a command its text, with %name% replaced by
\* the value of a variable that is set, or by nothing, and %% by a percent sign; a
\* reference that is left open is never handed out.
ArgumentsRight ==
  \A i \in Events("command") : \A a \in DOMAIN jsLog[i][3] :
    LET p == jsLog[i][3][a]
        value(name) == IF name = <<>> THEN <<"%">> ELSE IF name \in DOMAIN jsCall.vars THEN jsCall.vars[name] ELSE <<>>
    IN  /\ Percents(p) % 2 = 0
        /\ jsLog[i][4][a] = FlattenSeq([k \in 1..Percents(p) + 1 |-> IF k % 2 = 1 THEN Piece(p, k) ELSE value(Piece(p, k))])

\* A run executes no file twice and refuses no other but after a full turn of the
\* counter, return ends exactly its script, and commands are handed out with their
\* arguments evaluated.
ScriptsRunRight == IncludedOnce /\ ReturnEnds /\ ArgumentsRight
=============================================================================
