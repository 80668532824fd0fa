----------------------------- MODULE RouteTable -----------------------------
(***************************************************************************)
(* routing.Table: routes by HTTP method, in a static index, a radix trie   *)
(* and a linear fallback list (routing/route_table.go, routing/trie.go,    *)
(* routing/static_index.go).  A trie is represented by its nodes' paths    *)
(* from the root: a node is the sequence of edges that leads to it, so the *)
(* tree is the set of leaves and the names kept at the inner nodes.        *)
(*                                                                         *)
(* Add runs under the write lock and a lookup under the read lock, so each *)
(* is atomic here; ServeMux composes the table with its callers.           *)
(***************************************************************************)
EXTENDS PathTemplate

CONSTANTS
  Method,     \* HTTP methods
  Path,       \* request paths: non-empty sequences over Comp
  Route,      \* the routes that may be registered
  RouteDef,   \* [Route -> [static, template, fn]], what Add is given
  Matcher,    \* [Route -> [Path -> verdict]], the Match functions
  MaxRoutes   \* bound on registrations

NoPath     == <<>>
NoTemplate == Template(<<>>, <<>>, NoVerb)
NoRoute    == "no route"
NoName     == "no name"

Static(r)   == RouteDef[r].static
TemplateOf(r) == RouteDef[r].template
HasMatch(r) == RouteDef[r].fn

InTrie(r) == Compilable(TemplateOf(r))

Name == {"path"} \cup UNION {VarNames(TemplateOf(r)) : r \in Route}
Edge == {ParamEdge, WildEdge} \cup {LitEdge(c) : c \in Comp \cup {"*"}}
Node == Seq(Edge)

Segment == [kind : {"lit", "star", "dstar"}, lit : Comp]

Verdict == {"ok", "no", "err", "panic"}

ASSUME RouteTableAssumption ==
  /\ NoRoute \notin Route
  /\ Path \subseteq Seq(Comp) \ {NoPath}
  /\ \A r \in Route :
       /\ Static(r) \in Path \cup {NoPath}
       /\ RouteDef[r].fn \in BOOLEAN
       /\ TemplateOf(r).segs \in Seq(Segment)
       /\ CompiledEdges(TemplateOf(r)) \in Node
       /\ \A p \in Path :
            /\ Matcher[r][p].tag \in Verdict
            /\ Matcher[r][p].tag = "ok" => Matcher[r][p] = Accepted(Matcher[r][p].params)
  /\ MaxRoutes \in Nat

VARIABLES
  static,    \* [Method -> (Path -> Route)], StaticIndex
  tries,     \* [Method -> trie]
  fallback,  \* [Method -> Seq(Route)], newest first
  methods,   \* methods with a route
  added      \* history: the registrations in order, <<method, route>>

tableVars == <<static, tries, fallback, methods, added>>

\* leaf: the route stored at a node; param: the name at a node's parameter
\* child; wild: the name a node keeps for its wildcard child.
EmptyTrie == [leaf |-> [n \in {} |-> NoRoute], param |-> [n \in {} |-> NoName],
              wild |-> [n \in {} |-> NoName]]

TableInit ==
  /\ static   = [m \in Method |-> [p \in {} |-> NoRoute]]
  /\ tries    = [m \in Method |-> EmptyTrie]
  /\ fallback = [m \in Method |-> <<>>]
  /\ methods  = {}
  /\ added    = <<>>

-----------------------------------------------------------------------------
(* Registration.                                                           *)

\* f with the entries of g, which win.
Override(f, g) == [x \in DOMAIN f \cup DOMAIN g |-> IF x \in DOMAIN g THEN g[x] ELSE f[x]]

\* The node above segment i of a template, and the names its segments bring.
Above(t, i) == SubSeq(CompiledEdges(t), 1, i - 1)

NamesAt(t, edge) ==
  LET at == {i \in DOMAIN t.segs : CompiledEdge(t, i) = edge}
  IN  [n \in {Above(t, i) : i \in at} |-> CompiledName(t, Len(n) + 1)]

\* A parameter node keeps the name of its first route, a wildcard node takes
\* that of its last, and a leaf is overwritten with its value, verb, matcher.
InsertShort(trie, r) ==              \* one segment short
  LET t     == TemplateOf(r)
      short == SubSeq(CompiledEdges(t), 1, Len(t.segs) - 1)
  IN  [leaf  |-> Override(trie.leaf, [n \in {short} |-> r]),
       param |-> Override(NamesAt(t, ParamEdge), trie.param),
       wild  |-> Override(trie.wild, NamesAt(t, WildEdge))]

Insert(trie, r) ==
  LET t == TemplateOf(r)
  IN  [leaf  |-> Override(trie.leaf, [n \in {CompiledEdges(t)} |-> r]),
       param |-> Override(NamesAt(t, ParamEdge), trie.param),
       wild  |-> Override(trie.wild, NamesAt(t, WildEdge))]

\* Whether the route also goes to the linear list: not a purely static one,
\* nor one the trie answers alone.
OnlyWithoutTrie(r) == ~InTrie(r) /\ Static(r) = NoPath

NeedsFallback(r) ==
  /\ ~(Static(r) # NoPath /\ TemplateOf(r) = NoTemplate)
  /\ InTrie(r) => HasMatch(r)

AtEnd(list, r)   == Append(list, r)
Prepend(list, r) == <<r>> \o list

Add(m, r) ==
  /\ Len(added) < MaxRoutes
  /\ methods' = methods \cup {m}
  /\ static'  = IF Static(r) = NoPath THEN static
                ELSE [static EXCEPT ![m] = Override(@, [p \in {Static(r)} |-> r])]
  /\ tries'   = IF InTrie(r) THEN [tries EXCEPT ![m] = Insert(@, r)] ELSE tries
  /\ fallback' = IF NeedsFallback(r) THEN [fallback EXCEPT ![m] = Prepend(@, r)] ELSE fallback
  /\ added'   = Append(added, <<m, r>>)

-----------------------------------------------------------------------------
(* Trie lookup: literal child first, then parameter, then wildcard, with   *)
(* one buffer of captures that a failed branch must leave as it found it.  *)

Nodes(trie) ==
  {<<>>} \cup UNION {{SubSeq(n, 1, k) : k \in 1 .. Len(n)} : n \in DOMAIN trie.leaf}

Capture == [name : Name, value : Seq(STRING)]

Miss(buf)   == [route |-> NoRoute, buf |-> buf]
Hit(r, buf) == [route |-> r, buf |-> buf]

IsLeafFor(trie, node, verb) ==
  node \in DOMAIN trie.leaf /\ TemplateOf(trie.leaf[node]).verb = verb

\* The remaining components as one captured value; malformed if one is.
Remaining(parts, i) == [k \in 1 .. Len(parts) - i + 1 |-> Text[parts[i + k - 1]].many]

Push(buf, name, value) == Append(buf, [name |-> name, value |-> value])
PopNothing(buf)        == buf
Pop(buf)               == SubSeq(buf, 1, Len(buf) - 1)

\* The next branch is tried with the buffer the failed one left.
OrElse(res, Next(_)) == IF res.route # NoRoute THEN res ELSE Next(res.buf)

\* A failed parameter branch takes its own capture back.
Undone(res) == IF res.route # NoRoute THEN res ELSE Miss(Pop(res.buf))

\* A wildcard takes all that remains, and nothing is below it.
WildBranch(trie, node, parts, verb, buf) ==
  LET rest == Remaining(parts, Len(node) + 1)
      wild == Append(node, WildEdge)
  IN  IF node \in DOMAIN trie.wild /\ Malformed \notin {rest[k] : k \in DOMAIN rest}
         /\ IsLeafFor(trie, wild, verb)
      THEN Hit(trie.leaf[wild], Push(buf, trie.wild[node], rest))
      ELSE Miss(buf)

\* The other branches go on below a child, by Search.
LiteralBranch(Search, trie, node, parts, buf) ==
  LET lit == Append(node, LitEdge(parts[Len(node) + 1]))
  IN  IF lit \in Nodes(trie) THEN Search[<<lit, buf>>] ELSE Miss(buf)

ParamBranch(Search, trie, node, parts, buf) ==
  LET value == Text[parts[Len(node) + 1]].many
  IN  IF node \in DOMAIN trie.param /\ value # Malformed
      THEN Undone(Search[<<Append(node, ParamEdge), Push(buf, trie.param[node], <<value>>)>>])
      ELSE Miss(buf)

FromNode(Search, trie, node, parts, verb, buf) ==
  LET Param(b) == ParamBranch(Search, trie, node, parts, b)
      Rest(b)  == WildBranch(trie, node, parts, verb, b)
  IN  IF Len(node) >= Len(parts)
      THEN IF IsLeafFor(trie, node, verb) THEN Hit(trie.leaf[node], buf) ELSE Miss(buf)
      ELSE OrElse(OrElse(LiteralBranch(Search, trie, node, parts, buf), Param), Rest)

TrieLookup(trie, parts, verb) ==
  LET Search[at \in Nodes(trie) \X Seq(Capture)] ==
        FromNode(Search, trie, at[1], parts, verb, at[2])
  IN  Search[<< <<>>, <<>> >>]

-----------------------------------------------------------------------------
(* Lookup in the table.                                                    *)

Found(r, params) == [tag |-> "ok", route |-> r, params |-> params]
NotFound         == [tag |-> "no", route |-> NoRoute, params |-> NoParams]
Failed(tag)      == [tag |-> tag, route |-> NoRoute, params |-> NoParams]

\* The Params a buffer stands for: its Get and Map see the last of a name.
ParamsOf(buf) ==
  [x \in {buf[k].name : k \in DOMAIN buf} |->
     buf[CHOOSE k \in DOMAIN buf : /\ buf[k].name = x
                                   /\ \A j \in DOMAIN buf : buf[j].name = x => j <= k].value]

\* What a matcher's verdict on its route means for the lookup.
Decided(r, verdict, otherwise) ==
  IF verdict.tag = "ok" THEN Found(r, verdict.params)
  ELSE IF verdict.tag = "no" THEN otherwise
  ELSE Failed(verdict.tag)

\* The first of a list of routes whose matcher does not decline.
MatchFallback(list, path) ==
  LET answers == {i \in DOMAIN list : HasMatch(list[i]) /\ Matcher[list[i]][path].tag # "no"}
      first   == list[CHOOSE i \in answers : \A j \in answers : i <= j]
  IN  IF answers = {} THEN NotFound ELSE Decided(first, Matcher[first][path], NotFound)

\* The verdict on the trie's candidate: that of its own matcher, if it has
\* one, and the trie's captures are dropped.
TrustedLeaf(r, path, buf) == Accepted(ParamsOf(buf))

LeafVerdict(r, path, buf) ==
  IF HasMatch(r) THEN Matcher[r][path] ELSE Accepted(ParamsOf(buf))

\* The trie's candidate if its matcher stands by it, else the linear list.
FromTrie(hit, list, path) ==
  IF hit.route = NoRoute THEN MatchFallback(list, path)
  ELSE Decided(hit.route, LeafVerdict(hit.route, path, hit.buf), MatchFallback(list, path))

MatchInternal(m, path) ==
  IF path \in DOMAIN static[m] THEN Found(static[m][path], NoParams)
  ELSE FromTrie(TrieLookup(tries[m], TrieParts(path), TrieVerb(path)), fallback[m], path)

\* The methods are visited in no particular order: the results a lookup
\* among the others may return.
MatchOtherResults(excluded, path) ==
  LET answers == {m \in methods \ {excluded} : MatchInternal(m, path).tag # "no"}
  IN  IF answers = {} THEN {[method |-> excluded, result |-> NotFound]}
      ELSE {[method |-> m, result |-> MatchInternal(m, path)] : m \in answers}

TableNext == \E m \in Method, r \in Route : Add(m, r)

TableSpec == TableInit /\ [][TableNext]_tableVars

-----------------------------------------------------------------------------
(* Properties.                                                             *)

Registered(m) == {added[i][2] : i \in {j \in DOMAIN added : added[j][1] = m}}

\* The shape of the three indexes: every static entry and list entry is a
\* registered route of that method, and every leaf lies at its route's edges.
TableTypeOK ==
  /\ DOMAIN static = Method
  /\ \A m \in Method : \A p \in DOMAIN static[m] :
       p = Static(static[m][p]) /\ static[m][p] \in Registered(m)
  /\ DOMAIN tries = Method
  /\ \A m \in Method : \A n \in DOMAIN tries[m].leaf :
       /\ n = CompiledEdges(TemplateOf(tries[m].leaf[n]))
       /\ tries[m].leaf[n] \in Registered(m)
  /\ DOMAIN fallback = Method
  /\ \A m \in Method : fallback[m] \in Seq(Registered(m))
  /\ methods \subseteq Method
  /\ added \in Seq(Method \X Route)

\* Dispatch is sound: what a lookup returns is a route registered for that
\* method which itself stands for the path, as its static path or because its
\* own matcher accepts it, and the params are that route's own captures, never
\* those of a sibling that shares the trie leaf (Table.matchInternal).
DispatchSound ==
  \A m \in Method, p \in Path :
    LET res == MatchInternal(m, p)
    IN  res.tag = "ok" =>
          /\ res.route \in Registered(m)
          /\ \/ Static(res.route) = p /\ res.params = NoParams
             \/ Matcher[res.route][p] = Accepted(res.params)

\* Dispatch is complete: a path is not found only if no registered route's
\* matcher accepts it, whatever was overwritten in the trie, and also for the
\* static routes, which are in no list (Table.Add, "static only in the index").
DispatchComplete ==
  \A m \in Method, p \in Path :
    MatchInternal(m, p).tag = "no" =>
      \A r \in Registered(m) : Matcher[r][p].tag # "ok"

Spans(t) == [v \in DOMAIN t.vars |-> <<t.vars[v].lo, t.vars[v].hi>>]

\* The same template up to the names of its variables.
SameTemplate(r1, r2) ==
  /\ TemplateOf(r1).segs = TemplateOf(r2).segs
  /\ Spans(TemplateOf(r1)) = Spans(TemplateOf(r2))
  /\ TemplateOf(r1).verb = TemplateOf(r2).verb
  /\ Static(r1) = Static(r2)

\* Registering a template again replaces its handler: a lookup never returns
\* a route when a later registration of the same template also accepts.
LatestRegistrationWins ==
  \A m \in Method, p \in Path :
    LET res == MatchInternal(m, p)
    IN  res.tag = "ok" =>
          \E i \in DOMAIN added :
            /\ added[i] = <<m, res.route>>
            /\ \A j \in DOMAIN added :
                 (j > i /\ added[j][1] = m /\ SameTemplate(added[j][2], res.route))
                   => Matcher[added[j][2]][p].tag # "ok"

Rank(edge) == CASE edge[1] = "lit" -> 1 [] edge[1] = "param" -> 2 [] edge[1] = "wild" -> 3

\* n1 is reached first by a depth-first search in the order of Rank.
Precedes(n1, n2) ==
  \E i \in DOMAIN n1 \cap DOMAIN n2 :
    /\ \A j \in 1 .. i - 1 : n1[j] = n2[j]
    /\ Rank(n1[i]) < Rank(n2[i])

\* Edge i of a node against the component there; a wildcard takes the rest.
EdgeFits(n, i, parts) ==
  \/ n[i] = LitEdge(parts[i])
  \/ n[i] = ParamEdge /\ Text[parts[i]].many # Malformed
  \/ n[i] = WildEdge /\ i = Len(n) /\ \A k \in i .. Len(parts) : Text[parts[k]].many # Malformed

NodeMatches(trie, n, parts, verb) ==
  /\ IsLeafFor(trie, n, verb)
  /\ IF WildEdge \in {n[i] : i \in DOMAIN n} THEN Len(n) <= Len(parts) ELSE Len(n) = Len(parts)
  /\ \A i \in DOMAIN n : EdgeFits(n, i, parts)

\* What edge i of a node captures, and the captures of its edges behind the
\* first k.
Captured(trie, n, parts, i, buf) ==
  IF n[i] = ParamEdge
  THEN Push(buf, trie.param[SubSeq(n, 1, i - 1)], <<Text[parts[i]].many>>)
  ELSE IF n[i] = WildEdge
  THEN Push(buf, trie.wild[SubSeq(n, 1, i - 1)], Remaining(parts, i))
  ELSE buf

CapturesBehind(trie, n, parts, k, buf) ==
  LET Of[i \in k .. Len(n)] == IF i = k THEN buf ELSE Captured(trie, n, parts, i, Of[i - 1])
  IN  Of[Len(n)]

NodeCaptures(trie, n, parts) == CapturesBehind(trie, n, parts, 0, <<>>)

\* The recursive search against its definition: it finds the first matching
\* leaf in literal, parameter, wildcard order, wherever backtracking leads,
\* and its buffer then holds the captures of that leaf alone.
TrieSearchIsReference ==
  \A m \in Method, p \in Path :
    LET parts   == TrieParts(p)
        hit     == TrieLookup(tries[m], parts, TrieVerb(p))
        matches == {n \in DOMAIN tries[m].leaf : NodeMatches(tries[m], n, parts, TrieVerb(p))}
    IN  IF matches = {} THEN hit = Miss(<<>>)
        ELSE \E best \in matches :
               /\ \A o \in matches \ {best} : Precedes(best, o)
               /\ hit = Hit(tries[m].leaf[best], NodeCaptures(tries[m], best, parts))

\* Splitting a path for the matcher is what regexp.Split would do ("replaces
\* regexp.Split", mux.go:52), so no path makes a matcher read past it: every
\* lookup returns.
EveryLookupReturns ==
  \A m \in Method, p \in Path : MatchInternal(m, p).tag # "panic"
=============================================================================
