---------------------------- MODULE MCHandlePath ----------------------------
(***************************************************************************)
(* HandlePath on templates that reach every rule of the grammar and on raw   *)
(* programs of up to three operations, in a mode that keeps some escapes.   *)
(***************************************************************************)
EXTENDS HandlePath, TLC

Of == [c \in {"", "v1", "x", "5", "a", "F", "y"} |-> IF c = "" THEN <<>> ELSE <<c>>]
  @@ ("5:get" :> <<"5", ":", "get">>) @@ (":get" :> <<":", "get">>)
  @@ ("x:y" :> <<"x", ":", "y">>) @@ ("5:y:get" :> <<"5", ":", "y", ":", "get">>)
  @@ ("a%2Fx" :> <<"a", "%", "2", "F", "x">>) @@ ("%252F" :> <<"%", "2", "5", "2", "F">>)
  @@ ("%41" :> <<"%", "4", "1">>) @@ ("%zz" :> <<"%", "z", "z">>) @@ ("%2" :> <<"%", "2">>)
  @@ (":y" :> <<":", "y">>) @@ ("y:get" :> <<"y", ":", "get">>)
  @@ ("x:" :> <<"x", ":">>) @@ ("x:get" :> <<"x", ":", "get">>) @@ ("5:y" :> <<"5", ":", "y">>)

MCChars == Of
MCComp  == DOMAIN Of
MCText  == [c \in MCComp |-> TextOf(Of[c])]

MCHex  == {"1", "2", "4", "5", "F"}
MCByte == [d \in MCHex \X MCHex |->
  CASE d = <<"2", "F">> -> "/" [] d = <<"2", "5">> -> "%" [] d = <<"4", "1">> -> "A" [] OTHER -> "."]

In(inner) == <<"{">> \o inner \o <<"}">>
Root == <<"/">>
V1   == <<"/", "v1">>
MCTmpl ==
  { <<>>, <<"v1">>, Root, Root \o <<":", "get">>,
    V1 \o <<"/", "x">>, V1 \o Root, V1 \o Root \o Root, <<"/", "/", "/", "x">>, <<"/", "/", "x">>,
    V1 \o Root \o In(<<"id">>), V1 \o Root \o In(<<"id", "=", "*">>) \o <<":", "get">>,
    V1 \o Root \o In(<<"a", ".", "id">>), V1 \o <<"/", "*">>,
    V1 \o Root \o In(<<"p", "=", "*", "*">>), Root \o In(<<"p", "=", "*", "*">>) \o <<"/", "x", ":", "get">>,
    V1 \o Root \o In(<<"p", "=", "x", "/", "*">>),
    V1 \o Root \o In(<<"p", "=", "x", "/", "*", "*">>) \o Root \o In(<<"id">>),
    V1 \o Root \o In(<<"p", "=", "x", ":", "y">>), Root \o In(<<"p", "=", "v1">>) \o <<"/", "x">>,
    V1 \o <<"/", "x", ":", "y", "/", "5">>, V1 \o Root \o In(<<"id">>) \o <<":", "y", ":", "get">>,
    V1 \o <<"/", "x", ":", "y", ":", "get">>, <<"/", "*", "*", "/", "*", "*">>,
    <<"/", "*", "*", "/">> \o In(<<"p", "=", "*", "*">>), <<"/", "*", "*">>,
    V1 \o <<"/", "{", "id">>, V1 \o Root \o In(<<"5">>), V1 \o Root \o In(<<"id", "=">>),
    <<"/", "%zz">>, Root \o In(<<"id">>) \o Root \o In(<<"id">>), Root \o In(<<"id">>) \o <<"x">> }

MCUrl ==
  { <<"">>, <<"v1">>, <<"v1", "x">>, <<"v1", "5:get">>, <<"v1", ":get">>, <<"v1", "5:y:get">>,
    <<"v1", "x:y", "5">>, <<"v1", "x", "5">>, <<"v1", "x", "5", "a%2Fx">>, <<"v1", "a%2Fx">>,
    <<"v1", "%252F", "%41">>, <<"v1", "%2", "F">>, <<"v1", "%zz">>, <<"v1", "x", "", "%41">>,
    <<"5", "x:get">>, <<"a", "5", "x:get">>, <<"x:get">>, <<"v1", "x:y">>, <<"v1", "x:">> }

Codes == {Op("nop", 0), Op("push", 0), Op("pushM", 0), Op("litPush", 0), Op("litPush", 2),
          Op("litPush", -1), Op("concatN", 0), Op("concatN", 1), Op("concatN", 2),
          Op("capture", 1), Op("capture", 2), Op("end", 0)}
Program(ops) == [version |-> 1, whole |-> TRUE, ops |-> ops, pool |-> <<"x", "p">>, verb |-> NoVerb]
MCDefinition ==
  {Program(ops) : ops \in UNION {[1 .. n -> Codes] : n \in 0 .. 3}}
  \cup {[Program(<<Op("push", 0)>>) EXCEPT !.verb = "get"], [Program(<<>>) EXCEPT !.version = 2],
        [Program(<<>>) EXCEPT !.whole = FALSE]}
MCLookup ==
  {[comps |-> <<>>, verb |-> NoVerb], [comps |-> <<"x", "5">>, verb |-> NoVerb],
   [comps |-> <<"5">>, verb |-> "get"], [comps |-> <<"x", "a", "5">>, verb |-> NoVerb]}
=============================================================================
