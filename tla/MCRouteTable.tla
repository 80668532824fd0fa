---------------------------- MODULE MCRouteTable ----------------------------
(***************************************************************************)
(* RouteTable on the tables a ServeMux builds: eleven patterns, one        *)
(* method, up to three registrations, and the paths of up to two           *)
(* components, and longer ones, that the patterns tell apart.              *)
(***************************************************************************)
EXTENDS RouteTable, TLC

Plain(c) == [base |-> c, verb |-> NoVerb, one |-> c, many |-> c, split |-> <<c>>]

MCComp == {"", "v1", "x", "5", "5:get", ":get", "x:", "a%2Fb", "%zz", "a", "b"}

\* The trie cuts "x:" off its colon, the pattern does not.  "%2F" stays in a multi-segment capture (UnescapingModeAllExceptSlash).
MCText == [c \in MCComp |->
  CASE c = "5:get" -> [Plain(c) EXCEPT !.base = "5", !.verb = "get"]
    [] c = ":get"  -> [Plain(c) EXCEPT !.base = "", !.verb = "get"]
    [] c = "x:"    -> [Plain(c) EXCEPT !.base = "x"]
    [] c = "a%2Fb" -> [Plain(c) EXCEPT !.one = "a/b", !.split = <<"a", "b">>]
    [] c = "%zz"   -> [Plain(c) EXCEPT !.one = Malformed, !.many = Malformed]
    [] OTHER       -> Plain(c)]

Templates ==
  [ user    |-> Template(<<Lit("v1"), Star>>, <<Var("id", 2, 2)>>, NoVerb),       \* /v1/{id}
    userGet |-> Template(<<Lit("v1"), Star>>, <<Var("name", 2, 2)>>, "get"),      \* /v1/{name}:get
    again   |-> Template(<<Lit("v1"), Star>>, <<Var("key", 2, 2)>>, NoVerb),      \* /v1/{key}
    pair    |-> Template(<<Star, Star>>, <<Var("a", 1, 1), Var("b", 2, 2)>>, NoVerb),
    tail    |-> Template(<<Star, Lit("x")>>, <<Var("a", 1, 1)>>, NoVerb),         \* /{a}/x
    deep    |-> Template(<<Lit("v1"), DStar>>, <<Var("p", 2, 2)>>, NoVerb),       \* /v1/{p=**}
    nested  |-> Template(<<Lit("v1"), Lit("x"), Star>>, <<Var("n", 2, 3)>>, NoVerb),
    nested2 |-> Template(<<Lit("v1"), Lit("x"), Star>>, <<Var("q", 2, 3)>>, NoVerb),
    bare    |-> Template(<<Lit("v1"), Star>>, <<>>, NoVerb),                      \* /v1/*
    middle  |-> Template(<<DStar, Lit("x")>>, <<Var("p", 1, 1)>>, NoVerb),        \* /{p=**}/x
    fixed   |-> Template(<<Lit("v1"), Lit("x")>>, <<>>, NoVerb) ]                 \* /v1/x

MCRoute == DOMAIN Templates

\* ServeMux.registerHandler: a static pattern is registered by path alone.
MCRouteDef == [r \in MCRoute |->
  IF IsStatic(Templates[r])
  THEN [static |-> [i \in DOMAIN Templates[r].segs |-> Templates[r].segs[i].lit],
        template |-> NoTemplate, fn |-> TRUE]
  ELSE [static |-> NoPath, template |-> Templates[r], fn |-> TRUE]]

Used == MCComp \ {"a", "b"}
MCPath ==
  {<<c>> : c \in Used} \cup ({"v1", "5", "", "%zz"} \X Used)
  \cup {<<"v1", "x", "5">>, <<"v1", "x", "x">>, <<"v1", "", "5">>, <<"v1", "5", "">>, <<"", "v1", "5">>,
        <<"v1", "a%2Fb", "x">>, <<"v1", "%zz", "x">>, <<"v1", "x", "5:get">>, <<"5", "5", "x">>}

MCMatcher == [r \in MCRoute |-> [p \in MCPath |-> MatchPatternPath(Templates[r], p)]]
=============================================================================
