------------------------------ MODULE MCLibs ------------------------------
(***************************************************************************)
(* Small instances of the specifications of the libraries, for TLC: avl    *)
(* trees, ustream, vlist, blobmsg and json_script of libubox, and the      *)
(* tokener and the objects of json-c.  They share no variable; a behaviour *)
(* is one of the specification `which`.                                    *)
(***************************************************************************)
EXTENDS Avl, Ustream, Vlist, Blobmsg, JsonScript, JsonTokener, JsonObject, TLC

VARIABLE which

\* Eight keys in a row and two further nodes with the second of them.
AvlKeys == [a |-> 1, b |-> 2, c |-> 3, d |-> 4, e |-> 5, f |-> 6, g |-> 7, h |-> 8, x |-> 2, y |-> 2]

\* Fields without a name and with one, of three cells; a JSON object of nested arrays
\* and objects, two with empty keys, and one with a double, which cannot be converted.
BlobNames == {<<>>, <<"x", "y">>}
BlobData == {<<<<"c", 8>>, <<"c", 9>>, <<"c", 8>>>>}
BlobObjects ==
  {<<"obj", <<<<<<"a">>, <<"arr", <<<<"int", 5>>, <<"null">>, <<"arr", <<>>>>>>>>>>,
              <<<<"b", "b">>, <<"str", <<<<"c", 1>>>>>>>>,
              <<<<"c">>, <<"obj", <<<<<<"d">>, <<"bool", TRUE>>>>>>>>>>>>>>,
   <<"obj", <<<<<<>>, <<"int", 1>>>>>>>>,
   <<"obj", <<<<<<"a">>, <<"arr", <<<<"obj", <<<<<<>>, <<"bool", TRUE>>>>>>>>>>>>>>>>>>,
   <<"obj", <<<<<<"a">>, <<"int", -1>>>>, <<<<"b">>, <<"arr", <<<<"dbl">>>>>>>>>>>>}
BlobHandler ==
  <<[name |-> <<"x", "y">>, type |-> "STRING"], [name |-> <<"b", "b">>, type |-> "UNSPEC"],
    [name |-> <<"a">>, type |-> "ARRAY"]>>

\* A script and one it includes twice, which includes it in turn.
Str(x) == <<"s", <<x>>>>
Arr(es) == <<"a", es>>
MainScript == Arr(<<
  Arr(<<Str("case"), Str("v"),
        <<"t", <<<<<<"x">>, Arr(<<Str("log"), <<"s", <<"is ", "%", "v", "%", "%", "%">>>>>>)>>,
                 <<<<"y">>, Arr(<<Arr(<<Str("return")>>)>>)>>>>>>>>),
  Arr(<<Str("include"), Str("sub")>>),
  Arr(<<Str("if"), Arr(<<Str("and"), Arr(<<Str("eq"), Str("v"), Arr(<<Str("z"), Str("x")>>)>>),
                         Arr(<<Str("not"), Arr(<<Str("has"), Str("w")>>)>>)>>),
        Arr(<<Str("include"), Str("main")>>), Arr(<<Str("tell"), <<"s", <<"100", "%", "%">>>>>>)>>),
  Arr(<<Str("include"), Str("sub")>>),
  Arr(<<Str("bad"), <<"s", <<"%", "w">>>>>>),
  Str("loose"), Arr(<<Str("bad"), <<"n">>>>)>>)
SubScript == Arr(<<
  Arr(<<Str("if"), Arr(<<Str("or"), Arr(<<Str("regex"), Str("v"), Str("x|y")>>),
                         Arr(<<Str("has"), Arr(<<Str("q"), Str("w")>>)>>)>>),
        Arr(<<Arr(<<Str("return")>>), Arr(<<Str("never")>>)>>)>>),
  Arr(<<Str("if"), Arr(<<Str("eq"), Str("v"), Arr(<<<<"n">>>>)>>), Arr(<<>>)>>),
  Arr(<<Str("if"), Arr(<<Str("or"), Arr(<<Str("eq"), Str("v")>>)>>), Arr(<<>>)>>),
  Arr(<<Str("if"), Arr(<<Str("odd")>>), Arr(<<>>)>>),
  Arr(<<Str("include"), Str("main")>>), Arr(<<Str("after"), Str("it")>>)>>)
Scripts == [f \in {<<"main">>, <<"sub">>} |->
              IF f = <<"main">> THEN <<MainScript>> ELSE <<SubScript, Arr(<<Str("second")>>)>>]
ScriptVariables ==
  {<<>>, [n \in {<<"v">>} |-> <<"x">>], [n \in {<<"v">>} |-> <<"y">>], [n \in {<<"v">>, <<"w">>} |-> <<"z">>]}
ScriptRegexes == {<<<<"x">>, <<"x|y">>>>, <<<<"y">>, <<"x|y">>>>}

\* A string, one that is a surrogate pair, null, a number, -Infinity; two comments.
PairToken == <<"q", "bs", "u", "hi", "h", "bs", "u", "lo", "h", "q">>
TokenerAtoms ==
  (<<"q", "a", "q">> :> <<"str", <<"a">>>>) @@ (PairToken :> <<"str", <<"P">>>>) @@ (<<"n", "l">> :> Null)
  @@ (<<"z", "1">> :> <<"int", <<"z", "1">>>>) @@ (<<"-", "i", "y">> :> <<"inf", "-">>)
TokenerBlanks == {<<"/", "*", "*", "/">>, <<"/", "/", "nl">>}
TokenerFragile == {PairToken, <<"-", "i", "y">>}
TokenerValues ==
  {<<"arr", <<<<"obj", <<<<<<"U", "q">>, Null>>, <<<<"a">>, <<"arr", <<>>>>>>>>>>, <<"bool", FALSE>>,
              <<"nan">>, <<"inf", "+">>, <<"int", <<"-", "1">>>>>>>>,
   <<"arr", <<<<"float", <<"1", ".", "z">>>>, <<"dbl", <<"1", ".", "z">>>>, <<"float", <<"1", ".", "1">>>>>>>>,
   <<"obj", <<>>>>, <<"dbl", <<"1", ".", "1">>>>, <<"str", <<"nl", "bs", "/">>>>}

\* An object, an array and a leaf; three keys, two of them with one hash in a table of three.
ObjectKinds == [o1 |-> "object", a1 |-> "array", v1 |-> "leaf"]
ObjectHashes == [k1 |-> 0, k2 |-> 3, k3 |-> 1]

libSuiteVars == <<which, avl, ustreamVars, vlistVars, blobVars, scriptVars, jsonVars, objectVars>>

Init ==
  /\ which \in {"avl", "ustream", "vlist", "blobmsg", "script", "tokener", "object"}
  /\ AvlInit /\ UstreamInit /\ VlistInit /\ BlobInit /\ ScriptInit /\ JsonInit /\ JInit
  \* The initial states of the others are not varied.
  /\ which # "vlist" => vFlags = [keep_old |-> FALSE, no_delete |-> FALSE]
  /\ which # "script" => jsSeq = 0
  /\ which # "tokener" => ~jstrict /\ jwrote = NoValue

Next ==
  /\ UNCHANGED which
  /\ \/ /\ which = "avl" /\ AvlNext
        /\ UNCHANGED <<ustreamVars, vlistVars, blobVars, scriptVars, jsonVars, objectVars>>
     \/ /\ which = "ustream" /\ UstreamNext
        /\ UNCHANGED <<avl, vlistVars, blobVars, scriptVars, jsonVars, objectVars>>
     \/ /\ which = "vlist" /\ VlistNext
        /\ UNCHANGED <<avl, ustreamVars, blobVars, scriptVars, jsonVars, objectVars>>
     \/ /\ which = "blobmsg" /\ BlobNext
        /\ UNCHANGED <<avl, ustreamVars, vlistVars, scriptVars, jsonVars, objectVars>>
     \/ /\ which = "script" /\ ScriptNext
        /\ UNCHANGED <<avl, ustreamVars, vlistVars, blobVars, jsonVars, objectVars>>
     \/ /\ which = "tokener" /\ JsonNext
        /\ UNCHANGED <<avl, ustreamVars, vlistVars, blobVars, scriptVars, objectVars>>
     \/ /\ which = "object" /\ JNext
        /\ UNCHANGED <<avl, ustreamVars, vlistVars, blobVars, scriptVars, jsonVars>>

Spec == Init /\ [][Next]_libSuiteVars
=============================================================================
