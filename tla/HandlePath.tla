----------------------------- MODULE HandlePath -----------------------------
(***************************************************************************)
(* From the text of a template to a route (ServeMux.HandlePath and what the  *)
(* code generator does in two programs): httprule parses and compiles it,   *)
(* NewPattern checks the opcodes, registerHandler prints the pattern for    *)
(* the routing table, which reads the text with a parser of its own         *)
(* (routing/template.go), and a request's path is matched.                  *)
(***************************************************************************)
EXTENDS PatternVM, HttpRule, Unescape

CONSTANTS
  Tmpl,      \* what HandlePath is called with: sequences of lexemes
  Url,       \* paths of requests: sequences of components
  Chars,     \* [Comp -> sequence of characters]
  Mode       \* the mux's unescaping mode

ASSUME HandlePathAssumption == Tmpl \subseteq Seq(STRING) /\ Url \subseteq Seq(Comp)

VARIABLES written, parsed   \* the template and what httprule made of it
pathVars == <<vmVars, written, parsed>>

\* Lexemes and characters as a string; the end of tokens prints as nothing.
Str(s) ==
  LET Upto[i \in 0 .. Len(s)] ==
        IF i = 0 THEN ""
        ELSE IF s[i] = EndOfTokens THEN Upto[i - 1]
        ELSE Upto[i - 1] \o s[i]
  IN  Upto[Len(s)]

\* What PathTemplate asks of a component, computed from its characters.
TextOf(s) ==
  LET shown(u) == IF u = NotWellFormed THEN Malformed ELSE Str(u)
  IN  [base  |-> Str(Base(s)), verb |-> Str(Verb(s)),
       one   |-> shown(UnescapeComponent(s, Mode, FALSE)),
       many  |-> shown(UnescapeComponent(s, Mode, TRUE)),
       split |-> [i \in DOMAIN Pieces(s) |-> Str(Pieces(s)[i])]]

PathInit == VMInit /\ written = <<>> /\ parsed = Fail

-----------------------------------------------------------------------------
DefinitionOf(t) ==
  LET c == Compile(t)
  IN  [version |-> 1, whole |-> TRUE, ops |-> c.ops,
       pool |-> [i \in DOMAIN c.pool |-> Str(c.pool[i])], verb |-> Str(t.verb)]

HandleTemplate ==
  /\ stage = "new"
  /\ \E tmpl \in Tmpl :
       LET t == Parse(tmpl)
       IN  /\ written' = tmpl /\ parsed' = t
           /\ IF t.ok THEN Begin(DefinitionOf(t))
              ELSE stage' = "refused" /\ UNCHANGED <<patternVars, matchVars>>

\* The colons of the last component after which the
\* pattern's verb is all that is left.
VerbCuts(last) ==
  {i \in DOMAIN Chars[last] :
     /\ source.verb # NoVerb /\ Chars[last][i] = ":"
     /\ Str(SubSeq(Chars[last], i + 1, Len(Chars[last]))) = source.verb}

\* matchPatternPath.  A path of encoded slashes alone has no components where
\* they separate, and the last one is read all the same.
MatchPath ==
  /\ stage = "ready"
  /\ \E path \in Url :
       LET cs   == PatternComponents(path)
           last == cs[Len(cs)]
       IN  IF cs = <<>> THEN Crash
           ELSE IF VerbCuts(last) = {} THEN StartMatch(cs, NoVerb)
           ELSE LET cut == CHOOSE i \in VerbCuts(last) : TRUE
                IN  IF cut = 1 THEN Finish(NotMatched)
                    ELSE StartMatch([cs EXCEPT ![Len(cs)] = Str(SubSeq(Chars[last], 1, cut - 1))],
                                    source.verb)

Keeping(A) == A /\ UNCHANGED <<written, parsed>>

PathNext ==
  \/ HandleTemplate
  \/ Keeping(NewPattern) \/ Keeping(CheckOp) \/ Keeping(Accept)
  \/ Keeping(MatchPath)
  \/ Keeping(parsed = Fail /\ Match) \/ Keeping(Execute) \/ Keeping(EndMatch)

PathSpec == PathInit /\ [][PathNext]_pathVars

-----------------------------------------------------------------------------
(* The table's reading of the text (routing/template.go): the verb begins   *)
(* at the first colon outside of braces, slashes split inside of them too.  *)

BraceDepth(s, i) ==
  LET seen == SubSeq(s, 1, i)
  IN  Len(SelectSeq(seen, LAMBDA x : x = "{")) - Len(SelectSeq(seen, LAMBDA x : x = "}"))

LastVerbSeparator(s) ==
  LET cs == {i \in Colons(s) : BraceDepth(s, i) = 0}
  IN  IF cs = {} THEN 0 ELSE CHOOSE i \in cs : \A j \in cs : j <= i

VerbSeparator(s) ==
  LET cs == {i \in Colons(s) : BraceDepth(s, i) = 0}
  IN  IF cs = {} THEN 0 ELSE CHOOSE i \in cs : \A j \in cs : i <= j

SplitPath(s) ==
  LET split == FoldLeft(LAMBDA acc, x : IF x = "/" THEN Append(acc, <<>>)
                                        ELSE [acc EXCEPT ![Len(acc)] = Append(@, x)],
                        <<<<>>>>, s)
  IN  SelectSeq(split, LAMBDA part : part # <<>>)

\* [ok, name, expr] of a part in braces.
ParamPart(part) ==
  LET inner  == SubSeq(part, 2, Len(part) - 1)
      equals == {i \in DOMAIN inner : inner[i] = "="}
      at     == CHOOSE i \in equals : \A j \in equals : i <= j
  IN  IF Len(part) < 2 \/ Last(part) # "}" THEN [ok |-> FALSE, name |-> <<>>, expr |-> <<>>]
      ELSE IF equals = {} THEN [ok |-> TRUE, name |-> inner, expr |-> <<>>]
      ELSE [ok |-> TRUE, name |-> SubSeq(inner, 1, at - 1),
            expr |-> SubSeq(inner, at + 1, Len(inner))]

\* [ok, edge, name] of one part.
ReadPart(part) ==
  LET p == ParamPart(part)
      Is(ok, edge, name) == [ok |-> ok, edge |-> edge, name |-> name]
  IN  IF part \in {<<"*", "*">>, <<"{", "*", "*", "}">>, <<"{", "*", "path", "}">>}
      THEN Is(TRUE, WildEdge, "path")
      ELSE IF part[1] # "{" THEN Is(TRUE, LitEdge(Str(part)), "")
      ELSE CASE ~p.ok                     -> Is(FALSE, <<>>, "")
             [] p.expr \in {<<>>, <<"*">>} -> Is(TRUE, ParamEdge, Str(p.name))
             [] p.expr = <<"*", "*">>     -> Is(TRUE, WildEdge, Str(p.name))
             [] OTHER                     -> Is(FALSE, <<>>, "")

CompileTemplate(text) ==
  LET rest  == Tail(text)
      at    == VerbSeparator(rest)
      parts == SplitPath(IF at = 0 THEN rest ELSE SubSeq(rest, 1, at - 1))
      read  == [i \in DOMAIN parts |-> ReadPart(parts[i])]
  IN  [ok    |-> \A i \in DOMAIN read : read[i].ok,
       edges |-> [i \in DOMAIN read |-> read[i].edge],
       names |-> [i \in DOMAIN read |-> read[i].name],
       verb  |-> IF at = 0 THEN <<>> ELSE SubSeq(rest, at + 1, Len(rest))]

-----------------------------------------------------------------------------
(* The template as PathTemplate writes it: variables over segments lo..hi.  *)

Leaf(s) == CASE s.kind = "star" -> Star [] s.kind = "dstar" -> DStar
             [] s.kind = "lit" -> Lit(Str(s.lit))
Leaves(s) == IF s.kind = "var" THEN [i \in DOMAIN s.segs |-> Leaf(s.segs[i])] ELSE <<Leaf(s)>>

WithSegment(flat, s) ==
  LET n == Len(flat.leaves)
  IN  [leaves |-> flat.leaves \o Leaves(s),
       vars   |-> IF s.kind # "var" THEN flat.vars
                  ELSE Append(flat.vars, Var(Str(FieldName(s.path)), n + 1, n + Len(s.segs)))]

Flat(t) ==
  LET Upto[i \in 0 .. Len(t.segs)] ==
        IF i = 0 THEN [leaves |-> <<>>, vars |-> <<>>] ELSE WithSegment(Upto[i - 1], t.segs[i])
  IN  Template(Upto[Len(t.segs)].leaves, Upto[Len(t.segs)].vars, Str(t.verb))

HasPattern == parsed.ok /\ stage \in {"ready", "match", "done"}

\* What a template's opcodes compute on a path is what PathTemplate says the
\* template matches and captures (the reading the routing properties and
\* proofs rest on).  About Pattern.MatchAndEscape and httprule.Compile.
MachineIsReference ==
  parsed.ok /\ stage = "done" /\ comps # <<>> => outcome = MatchAndEscape(Flat(parsed), comps)

\* NewPattern takes every template that parses and has no second "**": the
\* compiler never emits an operand outside of the pool or more than the stack.
TemplatesCompile ==
  LET deepWildcards(n) == Cardinality({i \in 1 .. n : source.ops[i].code = "pushM"})
  IN  parsed.ok =>
        IF stage = "refused" THEN checked < Len(source.ops) /\ deepWildcards(checked + 1) = 2
                             ELSE deepWildcards(checked) < 2

\* registerHandler gives the table Pattern.String, put together again from
\* the opcodes: it is the template that was written, normalised, and httprule
\* would read it back as the same.
PrintedAsWritten ==
  HasPattern =>
    /\ PatternText = Str(TemplateText(parsed))
    /\ parsed.segs # <<Literal(RootLiteral)>> => Parse(TemplateText(parsed)) = parsed

\* The table's own parser reads in that text the edges, names and verb that
\* PathTemplate says it compiles to, or a verb that no path can have because
\* it has a slash or a colon in it.
TrieReadsPattern ==
  HasPattern /\ parsed.segs # <<Literal(RootLiteral)>> =>
    LET t    == Flat(parsed)
        trie == CompileTemplate(TemplateText(parsed))
    IN  \/ \E x \in {"/", ":"} : x \in ToSet(trie.verb)
        \/ /\ trie.ok <=> Compilable(t)
           /\ trie.ok => /\ trie.edges = CompiledEdges(t) /\ Str(trie.verb) = t.verb
                         /\ \A i \in DOMAIN trie.edges :
                              trie.edges[i][1] # "lit" => trie.names[i] = CompiledName(t, i)

\* Components that "**" takes are joined and decoded at once, by the pattern
\* and by the trie; that is the same as decoding each, and the trie decodes
\* as the pattern does.  About unescape, unescapePath and joinPath.
WholeIsPiecewise ==
  stage \in {"match", "done"} =>
    \A from \in DOMAIN comps :
      LET pieces == SubSeq(comps, from, Len(comps))
          whole  == JoinWith([i \in DOMAIN pieces |-> Chars[pieces[i]]], <<"/">>)
          parts  == [i \in DOMAIN pieces |-> Text[pieces[i]].many]
          value  == IF Malformed \in ToSet(parts) THEN Malformed ELSE JoinText(parts)
          shown(u) == IF u = NotWellFormed THEN Malformed ELSE Str(u)
      IN  /\ shown(UnescapeComponent(whole, Mode, TRUE)) = value
          /\ shown(UnescapePath(whole, Mode)) = value
=============================================================================
