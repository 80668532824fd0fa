---------------------------- MODULE PathTemplate ----------------------------
(***************************************************************************)
(* Path templates and request paths.  Two parts of the runtime read the    *)
(* same template: the routing trie compiles it into edges                  *)
(* (routing/template.go) and the Pattern matcher interprets its opcodes    *)
(* (pattern.go, mux.go).  This module has both readings as operators.      *)
(*                                                                         *)
(* A path is the non-empty sequence of what stands between its slashes.    *)
(* Characters are abstracted: Text gives, for every component, what the    *)
(* runtime computes from its characters in the mux's unescaping mode.      *)
(***************************************************************************)
EXTENDS Naturals, Sequences, FiniteSets, SequencesExt

CONSTANTS
  Comp,           \* path components; "" is the empty one ("/a//b", "/a/")
  Text,           \* [Comp -> record]: see TextOK
  AllCharacters   \* the mux runs in UnescapingModeAllCharacters

NoVerb    == ""
Malformed == "malformed percent sequence"

(***************************************************************************)
(* base, verb: the component cut at its last colon, after which nothing    *)
(* may be left; one, many: the component unescaped as a single segment and *)
(* as part of a multi-segment capture (or in the trie); split: the pieces  *)
(* between encoded slashes.                                                *)
(***************************************************************************)
TextOK ==
  \A c \in Comp :
    /\ Text[c].base \in Comp
    /\ Text[c].verb \in STRING
    /\ Text[c].one \in STRING /\ Text[c].many \in STRING
    /\ Text[c].split \in Seq(Comp)

ASSUME PathTemplateAssumption ==
  /\ "" \in Comp
  /\ AllCharacters \in BOOLEAN
  /\ TextOK

(***************************************************************************)
(* Templates: a sequence of segments (a literal, "*" or "**"), the         *)
(* variables with the segments lo..hi each captures, and a verb.           *)
(***************************************************************************)
Lit(c) == [kind |-> "lit", lit |-> c]
Star   == [kind |-> "star", lit |-> ""]
DStar  == [kind |-> "dstar", lit |-> ""]

Var(name, lo, hi) == [name |-> name, lo |-> lo, hi |-> hi]

Template(segs, vars, verb) == [segs |-> segs, vars |-> vars, verb |-> verb]

VarNames(t) == {t.vars[v].name : v \in DOMAIN t.vars}

-----------------------------------------------------------------------------
(* The trie's reading of a template: one edge per segment.                 *)

LitEdge(c) == <<"lit", c>>
ParamEdge  == <<"param", "">>
WildEdge   == <<"wild", "">>

\* The trie expresses a variable over a single "*" or "**", nothing longer
\* and no literal; the empty template has no leaf.
Compilable(t) ==
  /\ t.segs # <<>>
  /\ \A v \in DOMAIN t.vars :
       /\ t.vars[v].lo = t.vars[v].hi
       /\ t.segs[t.vars[v].lo].kind # "lit"

CapturedAt(t, i) == {v \in DOMAIN t.vars : t.vars[v].lo = i}

\* An uncaptured "*" is not a pattern to the compiler but the literal "*".
CompiledEdge(t, i) ==
  CASE t.segs[i].kind = "lit"   -> LitEdge(t.segs[i].lit)
    [] t.segs[i].kind = "dstar" -> WildEdge
    [] t.segs[i].kind = "star"  -> IF CapturedAt(t, i) = {} THEN LitEdge("*")
                                                            ELSE ParamEdge

CompiledEdges(t) == [i \in DOMAIN t.segs |-> CompiledEdge(t, i)]

CompiledName(t, i) ==
  IF CapturedAt(t, i) = {} THEN "path"
                           ELSE t.vars[CHOOSE v \in CapturedAt(t, i) : TRUE].name

(* The trie's reading of a path: empty components dropped, verb cut off.   *)

TrieVerb(path) == Text[path[Len(path)]].verb

\* The components that are not empty, in order.
NonEmpty(comps) ==
  LET Kept[i \in 0 .. Len(comps)] ==
        IF i = 0 THEN <<>>
        ELSE IF comps[i] = "" THEN Kept[i - 1]
        ELSE Append(Kept[i - 1], comps[i])
  IN  Kept[Len(comps)]

TrieParts(path) == NonEmpty([path EXCEPT ![Len(path)] = Text[path[Len(path)]].base])

-----------------------------------------------------------------------------
(* The Pattern matcher: a verdict and the captured variables.              *)

NoParams == [n \in {} |-> <<>>]

Accepted(params) == [tag |-> "ok", params |-> params]
NotMatched       == [tag |-> "no", params |-> NoParams]
MalformedPath    == [tag |-> "err", params |-> NoParams]
MatcherPanics    == [tag |-> "panic", params |-> NoParams]

\* The components segment i of the template reads from n of them: all but
\* the tail for "**", one otherwise.
Wild(t)     == {i \in DOMAIN t.segs : t.segs[i].kind = "dstar"}
TailLen(t)  == IF Wild(t) = {} THEN 0 ELSE Len(t.segs) - (CHOOSE w \in Wild(t) : TRUE)
SpanFrom(t, n, i) ==
  IF \E w \in Wild(t) : w < i THEN n - (Len(t.segs) - i) ELSE i
SpanTo(t, n, i) ==
  IF i \in Wild(t) THEN n - TailLen(t) ELSE SpanFrom(t, n, i)

\* What executing segment i decides: go on, fail to match, or malformed.
SegVerdict(t, comps, i) ==
  LET n    == Len(comps)
      from == SpanFrom(t, n, i)
      seg  == t.segs[i]
  IN  IF seg.kind = "dstar"
      THEN IF n < (i - 1) + TailLen(t) THEN "no"
           ELSE IF \E k \in from .. SpanTo(t, n, i) : Text[comps[k]].many = Malformed
                THEN "err" ELSE "ok"
      ELSE IF from \notin 1 .. n THEN "no"
           ELSE IF seg.kind = "lit" THEN IF comps[from] = seg.lit THEN "ok" ELSE "no"
                ELSE IF Text[comps[from]].one = Malformed THEN "err" ELSE "ok"

\* What segment i pushes on the stack; an empty "**" pushes the empty string.
Piece(t, comps, i) ==
  LET from == SpanFrom(t, Len(comps), i)
      to   == SpanTo(t, Len(comps), i)
  IN  CASE t.segs[i].kind = "lit"   -> <<comps[from]>>
        [] t.segs[i].kind = "star"  -> <<Text[comps[from]].one>>
        [] t.segs[i].kind = "dstar" ->
             IF to < from THEN <<"">>
             ELSE [k \in 1 .. to - from + 1 |-> Text[comps[from + k - 1]].many]

\* The pieces of segments lo..hi, joined.
Joined(t, comps, lo, hi) == FlattenSeq([k \in 1 .. hi - lo + 1 |-> Piece(t, comps, lo + k - 1)])

\* Captures of a template over components it accepts; of two variables of
\* one name the later one stays.
Bindings(t, comps) ==
  [x \in VarNames(t) |->
     LET v == CHOOSE v \in DOMAIN t.vars :
                /\ t.vars[v].name = x
                /\ \A w \in DOMAIN t.vars : t.vars[w].name = x => w <= v
     IN  Joined(t, comps, t.vars[v].lo, t.vars[v].hi)]

MatchAndEscape(t, comps) ==
  LET failing == {i \in DOMAIN t.segs : SegVerdict(t, comps, i) # "ok"}
  IN  IF failing # {}
      THEN LET first == CHOOSE i \in failing : \A j \in failing : i <= j
           IN  IF SegVerdict(t, comps, first) = "no" THEN NotMatched ELSE MalformedPath
      ELSE IF Wild(t) = {} /\ Len(t.segs) < Len(comps)
           THEN NotMatched
           ELSE Accepted(Bindings(t, comps))

\* In UnescapingModeAllCharacters the path is split at encoded slashes too,
\* and empty components disappear.
PatternComponents(path) ==
  IF ~AllCharacters THEN path
  ELSE LET Split[i \in 0 .. Len(path)] ==
             IF i = 0 THEN <<>> ELSE Split[i - 1] \o Text[path[i]].split
       IN  NonEmpty(Split[Len(path)])

\* The template's own matcher, as a mux handler carries it.  The last
\* component is read without asking whether there is one.
MatchPatternPath(t, path) ==
  LET comps   == PatternComponents(path)
      last    == comps[Len(comps)]
      hasVerb == t.verb # NoVerb /\ Text[last].verb = t.verb
  IN  IF comps = <<>> THEN MatcherPanics
      ELSE IF t.verb # NoVerb /\ (~hasVerb \/ Text[last].base = "") THEN NotMatched
      ELSE MatchAndEscape(t, IF hasVerb THEN [comps EXCEPT ![Len(comps)] = Text[last].base]
                                        ELSE comps)

\* A template of literals only, without variables, is one static path.
IsStatic(t) == t.vars = <<>> /\ \A i \in DOMAIN t.segs : t.segs[i].kind = "lit"
=============================================================================
