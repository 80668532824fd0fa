------------------------------ MODULE HttpRule ------------------------------
(***************************************************************************)
(* The path templates of google.api.http (src/httprule): the tokenizer, the *)
(* recursive-descent parser, the compiler to opcodes, the printer.          *)
(*                                                                         *)
(* A template is a sequence of lexemes: the characters the code tells apart *)
(* and words, which are the runs of characters between them.  A token is a  *)
(* sequence of lexemes too, so "a.b" outside of braces is one token.        *)
(***************************************************************************)
EXTENDS Integers, Sequences, SequencesExt

CONSTANTS
  Ident,    \* words that are identifiers
  Unclean   \* words that no path segment may contain ("%zz", "a b")

EndOfTokens == "NUL"
Punctuation == {"/", "{", "}", ".", "=", "*", ":", EndOfTokens}

ASSUME HttpRuleAssumption ==
  /\ Ident \cup Unclean \cup Punctuation \subseteq STRING
  /\ Ident \cap (Unclean \cup Punctuation) = {}

Slash == <<"/">>
RootLiteral == <<EndOfTokens>>   \* the only segment of the template "/"

Fail == [ok |-> FALSE]

-----------------------------------------------------------------------------
(* Tokens.                                                                 *)

\* What separates depends on where the tokenizer is: outside of braces, in
\* a field path, or in the pattern of a variable.
Separates(x, state) ==
  CASE state = "init"   -> x \in {"/", "{"}
    [] state = "field"  -> x \in {".", "=", "}"}
    [] state = "nested" -> x \in {"/", "}"}

StateAfter(x, state) ==
  CASE x = "{" -> "field" [] x = "=" -> "nested" [] x = "}" -> "init" [] OTHER -> state

Flush(s) == IF s.word = <<>> THEN s.tokens ELSE Append(s.tokens, s.word)

Scanned(s, x) ==
  IF Separates(x, s.state)
  THEN [state |-> StateAfter(x, s.state), word |-> <<>>, tokens |-> Append(Flush(s), <<x>>)]
  ELSE [s EXCEPT !.word = Append(@, x)]

Scan(path) ==
  LET After[k \in 0 .. Len(path)] ==
        IF k = 0 THEN [state |-> "init", word |-> <<>>, tokens |-> <<>>]
        ELSE Scanned(After[k - 1], path[k])
  IN  After[Len(path)]

Colons(t) == {i \in DOMAIN t : t[i] = ":"}

\* After a variable the verb is all that follows the first colon, otherwise
\* what follows the last one.
VerbAt(tokens) ==
  LET cs == Colons(Last(tokens))
      afterVariable == Len(tokens) >= 2 /\ tokens[Len(tokens) - 1] = <<"}">>
  IN  CHOOSE i \in cs : \A j \in cs : IF afterVariable THEN i <= j ELSE j <= i

\* The tokens, ended, and the verb.
Tokenize(path) ==
  LET tokens == Flush(Scan(path))
      final  == Last(tokens)
      at     == VerbAt(tokens)
      cut    == IF at = 1 THEN Front(tokens) ELSE Append(Front(tokens), SubSeq(final, 1, at - 1))
  IN  IF path = <<>> \/ Colons(final) = {}
      THEN [tokens |-> Append(IF path = <<>> THEN <<>> ELSE tokens, RootLiteral), verb |-> <<>>]
      ELSE [tokens |-> Append(cut, RootLiteral), verb |-> SubSeq(final, at + 1, Len(final))]

-----------------------------------------------------------------------------
(* Segments: [kind, lit, path, segs]; a variable has a field path and the   *)
(* segments it stands for.                                                 *)

Plain(kind)       == [kind |-> kind, lit |-> <<>>, path |-> <<>>, segs |-> <<>>]
Wildcard          == Plain("star")
DeepWildcard      == Plain("dstar")
Literal(t)        == [Plain("lit") EXCEPT !.lit = t]
Variable(path, s) == [kind |-> "var", lit |-> <<>>, path |-> path, segs |-> s]

\* accept takes a slash wherever it expects any punctuation or wildcard.
Takes(t, term) == t = term \/ t = Slash

IsIdent(t)  == Len(t) = 1 /\ t[1] \in Ident
IsPChars(t) == \A i \in DOMAIN t : t[i] \notin Unclean \cup {"/", "{", "}", EndOfTokens}

\* What the parser reads from each token on, and the token it stops at.

FieldPathAt(ts, i, From) ==
  LET name == <<ts[i][1]>>
      more == From[i + 2]
  IN  IF ~IsIdent(ts[i]) THEN Fail
      ELSE IF ~Takes(ts[i + 1], <<".">>) THEN [ok |-> TRUE, path |-> name, next |-> i + 1]
      ELSE IF more.ok THEN [more EXCEPT !.path = name \o @] ELSE Fail

FieldPaths(ts) ==
  LET From[i \in DOMAIN ts] == FieldPathAt(ts, i, From) IN From

VariableSegment(ts, i, From) ==
  LET name  == FieldPaths(ts)[i + 1]
      given == Takes(ts[name.next], <<"=">>)
      body  == IF given THEN From[name.next + 1]
               ELSE [ok |-> TRUE, segs |-> <<Wildcard>>, next |-> name.next]
  IN  IF ~Takes(ts[i], <<"{">>) THEN Fail
      ELSE IF ~name.ok THEN Fail
      ELSE IF ~body.ok THEN Fail
      ELSE IF ~Takes(ts[body.next], <<"}">>) THEN Fail
      ELSE [ok |-> TRUE, seg |-> Variable(name.path, body.segs), next |-> body.next + 1]

Segment(ts, i, From) ==
  LET Is(seg) == [ok |-> TRUE, seg |-> seg, next |-> i + 1]
  IN  IF Takes(ts[i], <<"*">>) THEN Is(Wildcard)
      ELSE IF ts[i] = <<"*", "*">> THEN Is(DeepWildcard)
      ELSE IF IsPChars(ts[i]) THEN Is(Literal(ts[i]))
      ELSE VariableSegment(ts, i, From)

SegmentsAt(ts, i, From) ==
  LET first == Segment(ts, i, From)
      more  == From[first.next + 1]
  IN  IF ~first.ok THEN Fail
      ELSE IF ~Takes(ts[first.next], Slash)
           THEN [ok |-> TRUE, segs |-> <<first.seg>>, next |-> first.next]
      ELSE IF more.ok THEN [more EXCEPT !.segs = <<first.seg>> \o @] ELSE Fail

Segments(ts) ==
  LET From[i \in DOMAIN ts] == SegmentsAt(ts, i, From) IN From

AtEnd(ts, s) == IF s.ok /\ ts[s.next] = RootLiteral THEN [ok |-> TRUE, segs |-> s.segs] ELSE Fail

\* A template that begins with the end is the root; nothing after it counts.
TopLevelSegments(ts) ==
  IF ts[1] = RootLiteral THEN [ok |-> TRUE, segs |-> <<Literal(RootLiteral)>>]
  ELSE AtEnd(ts, Segments(ts)[1])

ParsedTemplate(s, verb) == IF s.ok THEN [ok |-> TRUE, segs |-> s.segs, verb |-> verb] ELSE Fail

ParseTokens(t) == ParsedTemplate(TopLevelSegments(t.tokens), t.verb)

\* [ok, segs, verb], or a failure.
Parse(tmpl) == IF tmpl = <<>> \/ tmpl[1] # "/" THEN Fail ELSE ParseTokens(Tokenize(Tail(tmpl)))

-----------------------------------------------------------------------------
(* The printer: template.String, as lexemes.                               *)

JoinWith(pieces, sep) ==
  LET Upto[i \in DOMAIN pieces] ==
        IF i = 1 THEN pieces[1] ELSE Upto[i - 1] \o sep \o pieces[i]
  IN  Upto[Len(pieces)]

FieldName(path) == JoinWith([i \in DOMAIN path |-> <<path[i]>>], <<".">>)

\* What a variable stands for has no variables: after its "=" the tokenizer
\* leaves no field path for a second "{".
LeafText(s) ==
  CASE s.kind = "star"  -> <<"*">>
    [] s.kind = "dstar" -> <<"*", "*">>
    [] s.kind = "lit"   -> s.lit

SegmentText(s) ==
  IF s.kind # "var" THEN LeafText(s)
  ELSE <<"{">> \o FieldName(s.path) \o <<"=">>
         \o JoinWith([i \in DOMAIN s.segs |-> LeafText(s.segs[i])], Slash) \o <<"}">>

TemplateText(t) ==
  Slash \o JoinWith([i \in DOMAIN t.segs |-> SegmentText(t.segs[i])], Slash)
        \o (IF t.verb = <<>> THEN <<>> ELSE <<":">> \o t.verb)

-----------------------------------------------------------------------------
(* The compiler.                                                           *)

Op(code, operand) == [code |-> code, operand |-> operand]

\* Operations with their string or their number.
CompileLeaf(s) ==
  CASE s.kind = "star"  -> Op("push", 0)
    [] s.kind = "dstar" -> Op("pushM", 0)
    [] s.kind = "lit"   -> Op("litPush", s.lit)

CompileSegment(s) ==
  IF s.kind # "var" THEN <<CompileLeaf(s)>>
  ELSE [i \in DOMAIN s.segs |-> CompileLeaf(s.segs[i])]
         \o <<Op("concatN", Len(s.segs)), Op("capture", FieldName(s.path))>>

InternedFromOne(out, raw) ==
  LET str  == IF raw.operand = RootLiteral THEN <<>> ELSE raw.operand
      pool == IF str \in ToSet(out.pool) THEN out.pool ELSE Append(out.pool, str)
  IN  [pool   |-> pool,
       ops    |-> Append(out.ops, Op(raw.code, CHOOSE i \in DOMAIN pool : pool[i] = str)),
       fields |-> out.fields]

\* Literals and names share one pool of constants, counted from 0.
Interned(out, raw) ==
  LET str  == IF raw.operand = RootLiteral THEN <<>> ELSE raw.operand
      pool == IF str \in ToSet(out.pool) THEN out.pool ELSE Append(out.pool, str)
  IN  [pool   |-> pool,
       ops    |-> Append(out.ops, Op(raw.code, (CHOOSE i \in DOMAIN pool : pool[i] = str) - 1)),
       fields |-> IF raw.code = "capture" THEN Append(out.fields, str) ELSE out.fields]

Numbered(out, raw) == [out EXCEPT !.ops = Append(@, raw)]

Emitted(out, raw) ==
  IF raw.code \in {"litPush", "capture"} THEN Interned(out, raw) ELSE Numbered(out, raw)

RawOps(t) == FlattenSeq([i \in DOMAIN t.segs |-> CompileSegment(t.segs[i])])

Compile(t) ==
  LET raw == RawOps(t)
      After[j \in 0 .. Len(raw)] ==
        IF j = 0 THEN [pool |-> <<>>, ops |-> <<>>, fields |-> <<>>]
        ELSE Emitted(After[j - 1], raw[j])
  IN  After[Len(raw)]
=============================================================================
