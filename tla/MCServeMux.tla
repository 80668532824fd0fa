----------------------------- MODULE MCServeMux -----------------------------
(***************************************************************************)
(* ServeMux on small tables: a static route, templates, one that shares     *)
(* no leaf, a broken percent sequence, the root, and three methods.        *)
(***************************************************************************)
EXTENDS ServeMux, TLC

CONSTANTS o1, o2, o3, o4, q1, q2

Plain(c) == [base |-> c, verb |-> NoVerb, one |-> c, many |-> c, split |-> <<c>>]

MCComp == {"", "v1", "x", "5", "%zz", "%2F"}

\* In UnescapingModeAllCharacters "%2F" separates, and nothing is left.
MCText == [c \in MCComp |->
  CASE c = "%zz" -> [Plain(c) EXCEPT !.one = Malformed, !.many = Malformed]
    [] c = "%2F" -> [Plain(c) EXCEPT !.one = "/", !.many = "/", !.split = <<>>]
    [] OTHER     -> Plain(c)]

Templates ==
  [ user   |-> Template(<<Lit("v1"), Star>>, <<Var("id", 2, 2)>>, NoVerb),         \* /v1/{id}
    pair   |-> Template(<<Star, Star>>, <<Var("a", 1, 1), Var("b", 2, 2)>>, NoVerb),
    bare   |-> Template(<<Lit("v1"), Star>>, <<>>, NoVerb),                        \* /v1/*
    any    |-> Template(<<Star>>, <<Var("a", 1, 1)>>, NoVerb),                     \* /{a}
    odd    |-> Template(<<Star, Lit("%zz")>>, <<Var("a", 1, 1)>>, NoVerb),         \* /{a}/%zz, raw NewPattern
    fixed  |-> Template(<<Lit("v1"), Lit("x")>>, <<>>, NoVerb) ]                   \* /v1/x

MCRoute == DOMAIN Templates

MCRouteDef == [r \in MCRoute |->
  IF IsStatic(Templates[r])
  THEN [static |-> [i \in DOMAIN Templates[r].segs |-> Templates[r].segs[i].lit],
        template |-> NoTemplate, fn |-> TRUE]
  ELSE [static |-> NoPath, template |-> Templates[r], fn |-> TRUE]]

MCPath == {<<"v1", "5">>, <<"v1", "x">>, <<"v1", "%zz">>, <<"">>, <<"%2F">>,
           <<"%2F", "%zz">>}

MCMatcher == [r \in MCRoute |-> [p \in MCPath |-> MatchPatternPath(Templates[r], p)]]

Ask(path, method) ==
  [path |-> path, method |-> method, form |-> FALSE, wellFormed |-> TRUE, override |-> NoMethod]
Form(path) == [Ask(path, POST) EXCEPT !.form = TRUE]

\* Every way a request is answered.
MCKind ==
  {Ask(p, m) : p \in MCPath \cup {NoPath}, m \in {GET, POST}}
  \cup {Form(p) : p \in MCPath}
  \cup {[Form(<<"v1", "5">>) EXCEPT !.wellFormed = FALSE],
        [Form(<<"v1", "5">>) EXCEPT !.wellFormed = FALSE, !.override = GET],
        [Form(<<"v1", "x">>) EXCEPT !.override = "DELETE"]}

MCRegistration ==
  {<<GET, "user">>, <<GET, "pair">>, <<GET, "bare">>, <<GET, "any">>, <<GET, "odd">>,
   <<POST, "pair">>, <<POST, "fixed">>, <<"DELETE", "user">>}

\* Two requests that share the pool: two captures, a route of each kind of
\* handler, and a refusal.
PoolKind == {Ask(<<"v1", "5">>, GET), Ask(<<"v1", "x">>, GET),
             [Form(<<"v1", "5">>) EXCEPT !.wellFormed = FALSE]}
PoolRegistration == {<<GET, "user">>, <<GET, "pair">>, <<GET, "fixed">>}

\* Two requests and two registrations that compete for the lock.
LockKind == {Ask(<<"v1", "x">>, GET), Ask(<<"v1", "x">>, POST)}
LockRegistration == {<<GET, "fixed">>, <<GET, "any">>}

ThreeObjs == {o1, o2, o3}
OneRequest == {q1}
TwoObjs    == {o1, o2}
MCObj == {o1, o2, o3, o4}
MCRequest == {q1, q2}
Symmetry == Permutations(MCObj) \cup Permutations(MCRequest)
=============================================================================
