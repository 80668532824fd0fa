--------------------------- MODULE HttpRule_proofs ---------------------------
(***************************************************************************)
(* What the parser of path templates returns, for every template: the       *)
(* tokenizer's state decides where a "{" can begin a variable, so that what  *)
(* a variable stands for has no variable in it, and the compiler needs no    *)
(* more than two levels.                                                    *)
(***************************************************************************)
EXTENDS HttpRule, RecursionLemmas

NonEmptySeq(S) == Seq(S) \ {<<>>}
Word == Seq(STRING)

LeafSegment ==
  [kind : {"star", "dstar", "lit"}, lit : Word, path : {<<>>}, segs : {<<>>}]
VarSegment ==
  [kind : {"var"}, lit : {<<>>}, path : NonEmptySeq(STRING), segs : NonEmptySeq(LeafSegment)]
ParsedSegment == LeafSegment \cup VarSegment
WellParsed == [ok : {TRUE}, segs : NonEmptySeq(ParsedSegment), verb : Word]

-----------------------------------------------------------------------------
(* The tokenizer.                                                          *)

State == {"init", "field", "nested"}

\* A separator of the state the tokenizer was in, which changes the state ...
SeparatorIn(t, before, after) ==
  \E x \in STRING : t = <<x>> /\ Separates(x, before) /\ after = StateAfter(x, before)

\* ... or a word that has none of them, and changes nothing.
WordIn(t, state) == t \in Word /\ \A i \in DOMAIN t : ~Separates(t[i], state)

\* g has the state before each token; a word ends at a separator or at the end.
Closed(ts, g) ==
  /\ g \in [1 .. Len(ts) + 1 -> State] /\ g[1] = "init"
  /\ \A k \in 1 .. Len(ts) :
       \/ SeparatorIn(ts[k], g[k], g[k + 1])
       \/ /\ WordIn(ts[k], g[k]) /\ g[k + 1] = g[k]
          /\ k < Len(ts) => SeparatorIn(ts[k + 1], g[k + 1], g[k + 2])

\* A word may follow.
Open(ts, g) == Len(ts) > 0 => SeparatorIn(ts[Len(ts)], g[Len(ts)], g[Len(ts) + 1])

ScanState == [state : State, word : Word, tokens : Seq(Word)]

Scanning(s) ==
  /\ s \in ScanState /\ WordIn(s.word, s.state)
  /\ \E g : Closed(s.tokens, g) /\ Open(s.tokens, g) /\ g[Len(s.tokens) + 1] = s.state

LeftBrace  == "{"
RightBrace == "}"

\* What separates in each state.
LEMMA SeparatorsAre ==
  /\ \A x : Separates(x, "init")   <=> x = "/" \/ x = LeftBrace
  /\ \A x : Separates(x, "field")  <=> x = "." \/ x = "=" \/ x = RightBrace
  /\ \A x : Separates(x, "nested") <=> x = "/" \/ x = RightBrace
  <1>1. "init" # "field" /\ "field" # "nested" /\ "init" # "nested"
    OBVIOUS
  <1> QED BY <1>1, Zenon DEF Separates, LeftBrace, RightBrace

\* The punctuation is told apart, and none of it is an identifier.
LEMMA PunctuationDiffers ==
  /\ {LeftBrace, RightBrace, "/", ".", "=", "*", EndOfTokens} \subseteq STRING \ Ident
  /\ LeftBrace \notin {RightBrace, "/", ".", "=", "*", EndOfTokens}
  /\ RightBrace \notin {"/", ".", "=", "*", EndOfTokens}
  /\ EndOfTokens \notin {"/", ".", "=", "*"}
  <1>1. {LeftBrace, RightBrace, "/", ".", "=", "*", EndOfTokens} \subseteq Punctuation
    BY Zenon DEF Punctuation, LeftBrace, RightBrace
  <1>2. Punctuation \subseteq STRING \ Ident
    BY HttpRuleAssumption
  <1>3. {LeftBrace, RightBrace, "/", ".", "=", "*", EndOfTokens} \subseteq STRING \ Ident
    BY <1>1, <1>2
  <1>4. LeftBrace \notin {RightBrace, "/", ".", "=", "*", EndOfTokens}
    BY Zenon DEF LeftBrace, RightBrace, EndOfTokens
  <1>5. RightBrace \notin {"/", ".", "=", "*", EndOfTokens}
    BY Zenon DEF RightBrace, EndOfTokens
  <1>6. EndOfTokens \notin {"/", ".", "=", "*"}
    BY Zenon DEF EndOfTokens
  <1> QED BY <1>3, <1>4, <1>5, <1>6

\* The state after each separator.
LEMMA StatesAfter ==
  ASSUME NEW state
  PROVE  /\ StateAfter(LeftBrace, state) = "field" /\ StateAfter(RightBrace, state) = "init"
         /\ StateAfter("=", state) = "nested"
         /\ StateAfter("/", state) = state /\ StateAfter(".", state) = state
  <1>1. "{" \notin {"}", "/", "=", "."} /\ "}" \notin {"/", "=", "."} /\ "=" \notin {"/", "."}
    BY Zenon
  <1>2. StateAfter(LeftBrace, state) = "field"
    BY Zenon DEF StateAfter, LeftBrace
  <1>3. StateAfter(RightBrace, state) = "init"
    BY <1>1, Zenon DEF StateAfter, RightBrace
  <1>4. StateAfter("=", state) = "nested" /\ StateAfter("/", state) = state /\ StateAfter(".", state) = state
    BY <1>1, Zenon DEF StateAfter
  <1> QED BY <1>2, <1>3, <1>4

LEMMA StateAfterIsState ==
  ASSUME NEW x, NEW state \in State
  PROVE  StateAfter(x, state) \in State
  BY DEF StateAfter, State

LEMMA OneOf ==
  ASSUME NEW S, NEW x \in S
  PROVE  <<x>> \in Seq(S) /\ <<x>> # <<>> /\ Len(<<x>>) = 1
  OBVIOUS

LEMMA OneWord == \A x \in STRING : <<x>> \in Word
  <1> SUFFICES ASSUME NEW x \in STRING PROVE <<x>> \in Seq(STRING)
    BY DEF Word
  <1> QED BY OneOf

\* One more token, a separator or a word where one may follow.
LEMMA ClosedAppend ==
  ASSUME NEW ts \in Seq(Word), NEW g, Closed(ts, g), NEW t \in Word, NEW after \in State,
         \/ SeparatorIn(t, g[Len(ts) + 1], after)
         \/ WordIn(t, g[Len(ts) + 1]) /\ after = g[Len(ts) + 1] /\ Open(ts, g)
  PROVE  \E h : /\ Closed(Append(ts, t), h) /\ h[Len(ts) + 2] = after
                /\ SeparatorIn(t, g[Len(ts) + 1], after) => Open(Append(ts, t), h)
  <1> DEFINE n == Len(ts)
             h == [k \in 1 .. n + 2 |-> IF k = n + 2 THEN after ELSE g[k]]
             us == Append(ts, t)
  <1>1. n \in Nat /\ g \in [1 .. n + 1 -> State] /\ g[1] = "init"
    BY DEF Closed
  <1>2. us \in Seq(Word) /\ Len(us) = n + 1 /\ us[n + 1] = t
        /\ \A k \in 1 .. n : us[k] = ts[k]
    BY AppendProperties
  <1>4. /\ h \in [1 .. n + 2 -> State] /\ h[n + 2] = after
        /\ \A k \in 1 .. n + 1 : h[k] = g[k]
    BY <1>1
  <1> HIDE DEF h, us, n
  <1>5. us[n + 1] = t /\ h[n + 1] = g[n + 1] /\ h[n + 2] = after
    BY <1>1, <1>2, <1>4
  <1>6. ASSUME NEW k \in 1 .. Len(us)
        PROVE  \/ SeparatorIn(us[k], h[k], h[k + 1])
               \/ /\ WordIn(us[k], h[k]) /\ h[k + 1] = h[k]
                  /\ k < Len(us) => SeparatorIn(us[k + 1], h[k + 1], h[k + 2])
    <2>1. CASE k = n + 1
      <3>1. h[k + 1] = after /\ us[k] = t /\ h[k] = g[n + 1] /\ ~(k < Len(us))
        BY <1>1, <1>2, <1>5, <2>1
      <3> QED BY <3>1 DEF n
    <2>2. CASE k = n
      <3>1. k \in 1 .. n /\ us[k] = ts[k] /\ h[k] = g[k] /\ h[k + 1] = g[k + 1] /\ k < Len(us)
            /\ us[k + 1] = t /\ h[k + 2] = after /\ n > 0
        BY <1>1, <1>2, <1>4, <1>5, <2>2
      <3>2. \/ SeparatorIn(ts[k], g[k], g[k + 1])
            \/ WordIn(ts[k], g[k]) /\ g[k + 1] = g[k]
        BY <3>1 DEF Closed, n
      <3>3. \/ SeparatorIn(t, g[k + 1], after) \/ SeparatorIn(ts[k], g[k], g[k + 1])
        BY <2>2, <3>1 DEF Open, n
      <3> QED BY <3>1, <3>2, <3>3
    <2>3. CASE k # n + 1 /\ k # n
      <3>1. k \in 1 .. n /\ k + 1 \in 1 .. n /\ k + 1 \in 1 .. n + 1 /\ k + 2 \in 1 .. n + 1 /\ k < n
        BY <1>1, <1>2, <2>3
      <3>2. /\ us[k] = ts[k] /\ h[k] = g[k] /\ us[k + 1] = ts[k + 1]
            /\ h[k + 1] = g[k + 1] /\ h[k + 2] = g[k + 2]
        BY <1>1, <1>2, <1>4, <3>1
      <3> QED BY <3>1, <3>2 DEF Closed, n
    <2> QED BY <2>1, <2>2, <2>3
  <1>7. Closed(us, h)
    <2>1. Len(us) + 1 = n + 2 /\ 1 \in 1 .. n + 1
      BY <1>1, <1>2
    <2> QED BY <1>1, <1>4, <1>6, <2>1 DEF Closed
  <1>8. SeparatorIn(t, g[n + 1], after) => Open(us, h)
    BY <1>1, <1>2, <1>5 DEF Open
  <1>9. Closed(us, h) /\ h[n + 2] = after /\ (SeparatorIn(t, g[n + 1], after) => Open(us, h))
    BY <1>5, <1>7, <1>8
  <1> QED BY <1>9, Zenon DEF us, n

\* Flushing the word that has been read.
LEMMA FlushCloses ==
  ASSUME NEW s, Scanning(s)
  PROVE  /\ Flush(s) \in Seq(Word)
         /\ \E g : Closed(Flush(s), g) /\ g[Len(Flush(s)) + 1] = s.state
  <1>1. s.tokens \in Seq(Word) /\ s.word \in Word /\ s.state \in State /\ WordIn(s.word, s.state)
    BY DEF Scanning, ScanState
  <1>2. PICK g : Closed(s.tokens, g) /\ Open(s.tokens, g) /\ g[Len(s.tokens) + 1] = s.state
    BY DEF Scanning
  <1>3. CASE s.word = <<>>
    BY <1>1, <1>2, <1>3 DEF Flush
  <1>4. CASE s.word # <<>>
    <2>1. Flush(s) = Append(s.tokens, s.word)
      BY <1>4 DEF Flush
    <2>2. PICK h : Closed(Flush(s), h) /\ h[Len(s.tokens) + 2] = s.state
      BY <1>1, <1>2, <2>1, ClosedAppend
    <2>3. Flush(s) \in Seq(Word) /\ Len(Flush(s)) = Len(s.tokens) + 1 /\ Len(s.tokens) \in Nat
      BY <1>1, <2>1, AppendProperties
    <2>4. Len(Flush(s)) + 1 = Len(s.tokens) + 2
      BY <2>3
    <2> QED BY <2>2, <2>3, <2>4
  <1> QED BY <1>3, <1>4

LEMMA ScannedKeeps ==
  ASSUME NEW s, Scanning(s), NEW x \in STRING
  PROVE  Scanning(Scanned(s, x))
  <1>1. /\ s.tokens \in Seq(Word) /\ s.word \in Word /\ s.state \in State /\ WordIn(s.word, s.state)
        /\ s = [state |-> s.state, word |-> s.word, tokens |-> s.tokens]
    BY DEF Scanning, ScanState
  <1>2. CASE Separates(x, s.state)
    <2> DEFINE after == StateAfter(x, s.state)
               us == Append(Flush(s), <<x>>)
    <2>1. Scanned(s, x) = [state |-> after, word |-> <<>>, tokens |-> us]
      BY <1>2 DEF Scanned
    <2>2. PICK g : Closed(Flush(s), g) /\ g[Len(Flush(s)) + 1] = s.state
      BY FlushCloses
    <2>3. Flush(s) \in Seq(Word) /\ <<x>> \in Word /\ after \in State
      BY <1>1, FlushCloses, OneWord, StateAfterIsState
    <2>4. SeparatorIn(<<x>>, g[Len(Flush(s)) + 1], after)
      BY <1>2, <2>2 DEF SeparatorIn
    <2>5. PICK h : Closed(us, h) /\ h[Len(Flush(s)) + 2] = after /\ Open(us, h)
      <3> HIDE DEF after
      <3> QED BY <2>2, <2>3, <2>4, ClosedAppend
    <2>6. us \in Seq(Word) /\ Len(us) + 1 = Len(Flush(s)) + 2
      <3>1. us \in Seq(Word) /\ Len(us) = Len(Flush(s)) + 1 /\ Len(Flush(s)) \in Nat
        BY <2>3, AppendProperties
      <3> QED BY <3>1
    <2>7. WordIn(<<>>, after) /\ <<>> \in Word
      <3>1. <<>> \in Word /\ DOMAIN <<>> = {}
        BY DEF Word
      <3> QED BY <3>1 DEF WordIn
    <2> HIDE DEF after, us
    <2> QED BY <2>1, <2>3, <2>5, <2>6, <2>7 DEF Scanning, ScanState
  <1>3. CASE ~Separates(x, s.state)
    <2> DEFINE word == Append(s.word, x)
    <2>1. Scanned(s, x) = [state |-> s.state, word |-> word, tokens |-> s.tokens]
      BY <1>1, <1>3 DEF Scanned
    <2>2. word \in Word /\ WordIn(word, s.state)
      <3>1. /\ word \in Word /\ Len(word) = Len(s.word) + 1 /\ Len(s.word) \in Nat
            /\ word[Len(s.word) + 1] = x /\ \A i \in 1 .. Len(s.word) : word[i] = s.word[i]
        BY <1>1, AppendProperties DEF Word
      <3>2. ASSUME NEW i \in DOMAIN word PROVE ~Separates(word[i], s.state)
        <4>1. i \in 1 .. Len(s.word) + 1 /\ DOMAIN s.word = 1 .. Len(s.word)
          BY <1>1, <3>1 DEF Word
        <4>2. CASE i = Len(s.word) + 1
          BY <1>3, <3>1, <4>2
        <4>3. CASE i # Len(s.word) + 1
          BY <1>1, <3>1, <4>1, <4>3 DEF WordIn
        <4> QED BY <4>2, <4>3
      <3> QED BY <3>1, <3>2 DEF WordIn
    <2> HIDE DEF word
    <2> QED BY <1>1, <2>1, <2>2 DEF Scanning, ScanState
  <1> QED BY <1>2, <1>3

\* What has been read is there.
LEMMA ScannedFlushes ==
  ASSUME NEW s, Scanning(s), NEW x \in STRING
  PROVE  Flush(Scanned(s, x)) # <<>>
  <1>1. /\ s.tokens \in Seq(Word) /\ s.word \in Word /\ s.state \in State
        /\ s = [state |-> s.state, word |-> s.word, tokens |-> s.tokens]
    BY DEF Scanning, ScanState
  <1>2. CASE Separates(x, s.state)
    <2> DEFINE us == Append(Flush(s), <<x>>)
    <2>1. Scanned(s, x).word = <<>> /\ Scanned(s, x).tokens = us
      BY <1>2 DEF Scanned
    <2>2. us # <<>>
      BY FlushCloses, OneWord, AppendProperties
    <2> QED BY <2>1, <2>2 DEF Flush
  <1>3. CASE ~Separates(x, s.state)
    <2> DEFINE word == Append(s.word, x)
    <2>1. Scanned(s, x).word = word /\ Scanned(s, x).tokens = s.tokens
      BY <1>1, <1>3 DEF Scanned
    <2>2. word # <<>> /\ word \in Word
      BY <1>1, AppendProperties DEF Word
    <2> HIDE DEF word
    <2>3. Flush(Scanned(s, x)) = Append(s.tokens, word)
      BY <2>1, <2>2 DEF Flush
    <2> QED BY <1>1, <2>2, <2>3, AppendProperties
  <1> QED BY <1>2, <1>3

LEMMA ScanCloses ==
  ASSUME NEW path \in Word
  PROVE  Scanning(Scan(path)) /\ (path # <<>> => Flush(Scan(path)) # <<>>)
  <1> DEFINE L     == Len(path)
             V     == {s \in ScanState : Scanning(s)}
             start == [state |-> "init", word |-> <<>>, tokens |-> <<>>]
             Next(k, s) == IF k \in 1 .. L THEN Scanned(s, path[k]) ELSE s
             step  == [at \in Nat \X V |-> Next(at[1], at[2])]
             Body(f) == [k \in 0 .. L |-> IF k = 0 THEN start ELSE Scanned(f[k - 1], path[k])]
             After == CHOOSE f : f = Body(f)
  <1>1. L \in Nat /\ \A k \in 1 .. L : path[k] \in STRING
    BY DEF Word
  <1>2. start \in V
    <2>1. <<>> \in Word /\ <<>> \in Seq(Word) /\ DOMAIN <<>> = {} /\ Len(<<>>) = 0
      BY DEF Word
    <2>2. WordIn(<<>>, "init")
      BY <2>1 DEF WordIn
    <2> DEFINE g == [k \in 1 .. 1 |-> "init"]
    <2>3. g \in [1 .. Len(<<>>) + 1 -> State] /\ g[1] = "init"
      BY <2>1 DEF State
    <2> HIDE DEF g
    <2>4. Closed(<<>>, g) /\ Open(<<>>, g) /\ g[Len(<<>>) + 1] = "init"
      BY <2>1, <2>3 DEF Closed, Open
    <2>5. start \in ScanState
      BY <2>1 DEF ScanState, State
    <2>6. start.tokens = <<>> /\ start.word = <<>> /\ start.state = "init"
      OBVIOUS
    <2> HIDE DEF start
    <2> QED BY <2>2, <2>4, <2>5, <2>6 DEF Scanning
  <1> HIDE DEF start
  <1>3. \A s \in V, k \in 1 .. L : Scanned(s, path[k]) \in V
    BY <1>1, ScannedKeeps DEF Scanning
  <1>4. step \in [Nat \X V -> V]
    <2>1. \A k \in Nat, s \in V : Next(k, s) \in V
      BY <1>3
    <2> HIDE DEF Next, V
    <2> QED BY <2>1
  <1>5. PICK f \in [0 .. L -> V] : Recursion(f, 0, L, start, step)
    <2> HIDE DEF step, L, V
    <2>1. 0 \in Nat
      OBVIOUS
    <2> QED BY <1>1, <1>2, <1>4, <2>1, RecursionExists
  <1>6. f = Body(f)
    <2>1. ASSUME NEW k \in 0 .. L
          PROVE  f[k] = IF k = 0 THEN start ELSE Scanned(f[k - 1], path[k])
      <3>1. CASE k = 0
        <4> HIDE DEF step, L, V
        <4> QED BY <1>5, <3>1 DEF Recursion
      <3>2. CASE k # 0
        <4>1. k \in 1 .. L /\ f[k] = step[<<k, f[k - 1]>>] /\ <<k, f[k - 1]>> \in Nat \X V
          <5> HIDE DEF step, L, V
          <5> QED BY <1>1, <1>5, <3>2 DEF Recursion
        <4>2. step[<<k, f[k - 1]>>] = Next(k, f[k - 1])
          <5> HIDE DEF Next, V
          <5> QED BY <4>1
        <4> QED BY <3>2, <4>1, <4>2
      <3> QED BY <3>1, <3>2
    <2>2. f = [k \in 0 .. L |-> f[k]]
      OBVIOUS
    <2> HIDE DEF L, V
    <2> QED BY <2>1, <2>2
  <1>7. After = Body(After)
    <2> HIDE DEF Body
    <2> QED BY <1>6, Zenon
  <1>8. Scan(path) = After[L]
    BY Zenon DEF Scan, start
  <1> HIDE DEF After, V, L
  <1>9. \A k \in 0 .. L : After[k] = IF k = 0 THEN start ELSE Scanned(After[k - 1], path[k])
    <2>1. \A k \in 0 .. L : After[k] = Body(After)[k]
      <3> HIDE DEF Body
      <3> QED BY <1>7
    <2> QED BY <2>1
  <1>10. \A k \in 0 .. L : After[k] \in V
    <2>1. After[0] \in V
      BY <1>1, <1>2, <1>9
    <2>2. \A k \in 0 .. L : k # 0 /\ After[k - 1] \in V => After[k] \in V
      BY <1>1, <1>3, <1>9
    <2>3. 0 \in Nat
      OBVIOUS
    <2> QED BY <1>1, <2>1, <2>2, <2>3, RecursionTyped
  <1>11. After[L] \in V
    BY <1>1, <1>10
  <1>12. ASSUME path # <<>> PROVE Flush(Scan(path)) # <<>>
    <2>1. L \in 1 .. L /\ L \in 0 .. L /\ L - 1 \in 0 .. L /\ L # 0
      BY <1>12, EmptySeq DEF L, Word
    <2>2. After[L] = Scanned(After[L - 1], path[L]) /\ Scanning(After[L - 1]) /\ path[L] \in STRING
      BY <1>1, <1>9, <1>10, <2>1 DEF V
    <2> QED BY <1>8, <2>2, ScannedFlushes
  <1> QED BY <1>8, <1>11, <1>12 DEF V

\* Without the last token.
LEMMA ClosedFront ==
  ASSUME NEW ts \in Seq(Word), NEW g, Closed(ts, g), ts # <<>>
  PROVE  /\ Front(ts) \in Seq(Word) /\ Len(Front(ts)) = Len(ts) - 1
         /\ \E h : /\ Closed(Front(ts), h) /\ h[Len(ts)] = g[Len(ts)]
                   /\ ~SeparatorIn(ts[Len(ts)], g[Len(ts)], g[Len(ts) + 1]) => Open(Front(ts), h)
  <1> DEFINE n == Len(ts)
             us == Front(ts)
             h == [k \in 1 .. n |-> g[k]]
  <1>1. n \in Nat /\ n > 0 /\ g \in [1 .. n + 1 -> State] /\ g[1] = "init"
    BY EmptySeq DEF Closed
  <1>2. us \in Seq(Word) /\ Len(us) = n - 1 /\ \A k \in 1 .. n - 1 : us[k] = ts[k]
    <2>1. us = SubSeq(ts, 1, n - 1)
      BY DEF Front
    <2>2. \A k \in 1 .. n - 1 : ts[k] \in Word
      BY <1>1
    <2>3. /\ SubSeq(ts, 1, n - 1) \in Seq(Word)
          /\ Len(SubSeq(ts, 1, n - 1)) = IF 1 <= n - 1 THEN n - 1 - 1 + 1 ELSE 0
          /\ \A k \in 1 .. n - 1 - 1 + 1 : SubSeq(ts, 1, n - 1)[k] = ts[1 + k - 1]
      <3> HIDE DEF n
      <3>1. 1 \in Int /\ n - 1 \in Int
        BY <1>1
      <3> QED BY <2>2, <3>1, SubSeqProperties
    <2> HIDE DEF n, us
    <2>4. Len(us) = n - 1
      BY <1>1, <2>1, <2>3
    <2>5. ASSUME NEW k \in 1 .. n - 1 PROVE us[k] = ts[k]
      <3>1. k \in 1 .. n - 1 - 1 + 1 /\ 1 + k - 1 = k
        BY <1>1
      <3> QED BY <2>1, <2>3, <3>1
    <2> QED BY <2>1, <2>3, <2>4, <2>5
  <1> HIDE DEF n, us
  <1>3. h \in [1 .. Len(us) + 1 -> State] /\ h[1] = "init" /\ \A k \in 1 .. n : h[k] = g[k]
    BY <1>1, <1>2
  <1> HIDE DEF h
  <1>4. ASSUME NEW k \in 1 .. Len(us)
        PROVE  /\ \/ SeparatorIn(us[k], h[k], h[k + 1])
                  \/ /\ WordIn(us[k], h[k]) /\ h[k + 1] = h[k]
                     /\ k < Len(us) => SeparatorIn(us[k + 1], h[k + 1], h[k + 2])
               /\ k = n - 1 /\ ~SeparatorIn(ts[n], g[n], g[n + 1]) => SeparatorIn(us[k], h[k], h[k + 1])
    <2>1. k \in 1 .. n /\ us[k] = ts[k] /\ h[k] = g[k] /\ h[k + 1] = g[k + 1] /\ k < n
      BY <1>1, <1>2, <1>3
    <2>2. k < Len(us) => us[k + 1] = ts[k + 1] /\ h[k + 2] = g[k + 2]
      BY <1>1, <1>2, <1>3
    <2>3. \/ SeparatorIn(ts[k], g[k], g[k + 1])
          \/ /\ WordIn(ts[k], g[k]) /\ g[k + 1] = g[k]
             /\ SeparatorIn(ts[k + 1], g[k + 1], g[k + 2])
      BY <2>1 DEF Closed, n
    <2>4. k = n - 1 => k + 1 = n /\ k + 2 = n + 1
      BY <1>1
    <2> QED BY <2>1, <2>2, <2>3, <2>4
  <1>5. Closed(us, h)
    BY <1>3, <1>4 DEF Closed
  <1>6. ~SeparatorIn(ts[n], g[n], g[n + 1]) => Open(us, h)
    BY <1>1, <1>2, <1>4 DEF Open
  <1>7. h[n] = g[n]
    BY <1>1, <1>3
  <1> QED BY <1>2, <1>5, <1>6, <1>7, Zenon DEF us, n

\* A non-empty set of places has a first and a last one.
LEMMA FirstAndLast ==
  ASSUME NEW n \in Nat, NEW S \in SUBSET (1 .. n), S # {}
  PROVE  (\E i \in S : \A j \in S : i <= j) /\ (\E i \in S : \A j \in S : j <= i)
  <1>1. \E i \in S : \A j \in S : i <= j
    <2>1. S \in SUBSET Nat
      OBVIOUS
    <2> QED BY <2>1, LeastElement
  <1>2. \E i \in S : \A j \in S : j <= i
    <2> DEFINE T == {n - i : i \in S}
    <2>1. T \in SUBSET Nat /\ T # {}
      <3>1. \A i \in S : n - i \in Nat
        OBVIOUS
      <3>2. \A x \in T : x \in Nat
        BY <3>1
      <3>3. PICK i \in S : TRUE
        OBVIOUS
      <3>4. n - i \in T
        BY <3>3
      <3> HIDE DEF T
      <3> QED BY <3>2, <3>4
    <2>2. PICK x \in T : \A y \in T : x <= y
      BY <2>1, LeastElement
    <2>3. PICK i \in S : x = n - i
      OBVIOUS
    <2>4. ASSUME NEW j \in S PROVE j <= i
      <3>1. n - j \in T /\ i \in Nat /\ j \in Nat
        OBVIOUS
      <3> QED BY <2>2, <2>3, <3>1
    <2> QED BY <2>4
  <1> QED BY <1>1, <1>2

LEMMA VerbAtIsColon ==
  ASSUME NEW tokens \in Seq(Word), tokens # <<>>, Colons(Last(tokens)) # {}
  PROVE  VerbAt(tokens) \in Colons(Last(tokens))
  <1> DEFINE cs == Colons(Last(tokens))
             after == Len(tokens) >= 2 /\ tokens[Len(tokens) - 1] = <<"}">>
             Is(i) == i \in cs /\ \A j \in cs : IF after THEN i <= j ELSE j <= i
  <1>1. Len(tokens) \in 1 .. Len(tokens)
    BY EmptySeq
  <1>2. Last(tokens) \in Word
    BY <1>1 DEF Last
  <1>3. cs \in SUBSET (1 .. Len(Last(tokens))) /\ Len(Last(tokens)) \in Nat /\ cs # {}
    BY <1>2 DEF Colons, Word
  <1>4. \E i : Is(i)
    <2> HIDE DEF cs, after
    <2>1. (\E i \in cs : \A j \in cs : i <= j) /\ (\E i \in cs : \A j \in cs : j <= i)
      BY <1>3, FirstAndLast
    <2>2. CASE after
      BY <2>1, <2>2
    <2>3. CASE ~after
      BY <2>1, <2>3
    <2> QED BY <2>2, <2>3
  <1>5. VerbAt(tokens) = CHOOSE i : Is(i)
    BY Zenon DEF VerbAt
  <1>6. Is(CHOOSE i : Is(i))
    <2> HIDE DEF Is
    <2> QED BY <1>4, Zenon
  <1> QED BY <1>5, <1>6

\* Tokens with the end: no separator is missed, and a word is followed by one
\* or by the end.
Marked(ts, g) ==
  /\ ts \in Seq(Word) /\ Len(ts) > 0 /\ ts[Len(ts)] = RootLiteral
  /\ g \in [1 .. Len(ts) -> State] /\ g[1] = "init"
  /\ \A k \in 1 .. Len(ts) - 1 :
       \/ SeparatorIn(ts[k], g[k], g[k + 1])
       \/ /\ WordIn(ts[k], g[k]) /\ g[k + 1] = g[k]
          /\ k + 1 < Len(ts) => SeparatorIn(ts[k + 1], g[k + 1], g[k + 2])

LEMMA EndIsWord == RootLiteral \in Word
  <1>1. EndOfTokens \in STRING
    BY HttpRuleAssumption DEF Punctuation
  <1> QED BY <1>1, OneWord DEF RootLiteral

LEMMA ClosedIsMarked ==
  ASSUME NEW ts \in Seq(Word), NEW g, Closed(ts, g)
  PROVE  Append(ts, RootLiteral) \in Seq(Word) /\ Marked(Append(ts, RootLiteral), g)
  <1> DEFINE n == Len(ts)
             us == Append(ts, RootLiteral)
  <1>1. /\ n \in Nat /\ us \in Seq(Word) /\ Len(us) = n + 1 /\ us[n + 1] = RootLiteral
        /\ \A k \in 1 .. n : us[k] = ts[k]
    BY EndIsWord, AppendProperties
  <1> HIDE DEF us, n
  <1>2. ASSUME NEW k \in 1 .. Len(us) - 1
        PROVE  \/ SeparatorIn(us[k], g[k], g[k + 1])
               \/ /\ WordIn(us[k], g[k]) /\ g[k + 1] = g[k]
                  /\ k + 1 < Len(us) => SeparatorIn(us[k + 1], g[k + 1], g[k + 2])
    <2>1. k \in 1 .. n /\ us[k] = ts[k] /\ (k + 1 < Len(us) => k < n /\ us[k + 1] = ts[k + 1])
      BY <1>1
    <2> QED BY <2>1 DEF Closed, n
  <1>3. g \in [1 .. Len(us) -> State] /\ g[1] = "init"
    BY <1>1 DEF Closed, n
  <1>4. Marked(us, g)
    BY <1>1, <1>2, <1>3 DEF Marked
  <1> QED BY <1>1, <1>4 DEF us

LEMMA SubSeqOfWord ==
  ASSUME NEW S, NEW w \in Seq(S), NEW m \in Nat \ {0}, NEW n \in 0 .. Len(w)
  PROVE  /\ SubSeq(w, m, n) \in Seq(S)
         /\ Len(SubSeq(w, m, n)) = IF m <= n THEN n - m + 1 ELSE 0
         /\ \A i \in 1 .. Len(SubSeq(w, m, n)) : SubSeq(w, m, n)[i] = w[m + i - 1]
  <1>1. \A i \in m .. n : w[i] \in S
    OBVIOUS
  <1>2. m \in Int /\ n \in Int
    OBVIOUS
  <1>3. /\ SubSeq(w, m, n) \in Seq(S)
        /\ Len(SubSeq(w, m, n)) = IF m <= n THEN n - m + 1 ELSE 0
        /\ \A i \in 1 .. n - m + 1 : SubSeq(w, m, n)[i] = w[m + i - 1]
    BY <1>1, <1>2, SubSeqProperties
  <1>4. \A i \in 1 .. Len(SubSeq(w, m, n)) : i \in 1 .. n - m + 1
    BY <1>3
  <1> QED BY <1>3, <1>4

LEMMA TokenizeMarks ==
  ASSUME NEW path \in Word
  PROVE  /\ Tokenize(path).verb \in Word
         /\ \E g : Marked(Tokenize(path).tokens, g)
  <1> DEFINE tokens == Flush(Scan(path))
             final  == Last(tokens)
             at     == VerbAt(tokens)
             n      == Len(tokens)
  <1>1. tokens \in Seq(Word) /\ \E g : Closed(tokens, g)
    BY ScanCloses, FlushCloses
  <1>2. <<>> \in Word /\ <<>> \in Seq(Word)
    BY DEF Word
  <1> HIDE DEF tokens
  <1>3. CASE path = <<>>
    <2>1. Tokenize(path) = [tokens |-> Append(<<>>, RootLiteral), verb |-> <<>>]
      BY <1>3, Zenon DEF Tokenize
    <2> DEFINE g == [k \in 1 .. 1 |-> "init"]
    <2>2. g \in [1 .. Len(<<>>) + 1 -> State] /\ g[1] = "init" /\ Len(<<>>) = 0
      BY DEF State
    <2> HIDE DEF g
    <2>3. Closed(<<>>, g)
      BY <2>2 DEF Closed
    <2>4. Marked(Append(<<>>, RootLiteral), g)
      BY <1>2, <2>3, ClosedIsMarked
    <2>5. Tokenize(path).tokens = Append(<<>>, RootLiteral) /\ Tokenize(path).verb = <<>>
      BY <2>1
    <2> QED BY <1>2, <2>4, <2>5
  <1>4. CASE path # <<>> /\ Colons(final) = {}
    <2>1. Tokenize(path) = [tokens |-> Append(tokens, RootLiteral), verb |-> <<>>]
      BY <1>4, Zenon DEF Tokenize, tokens
    <2>2. PICK g : Closed(tokens, g)
      BY <1>1
    <2>3. Marked(Append(tokens, RootLiteral), g)
      BY <1>1, <2>2, ClosedIsMarked
    <2>4. Tokenize(path).tokens = Append(tokens, RootLiteral) /\ Tokenize(path).verb = <<>>
      BY <2>1
    <2> QED BY <1>2, <2>3, <2>4
  <1>5. CASE path # <<>> /\ Colons(final) # {}
    <2> DEFINE cut == IF at = 1 THEN Front(tokens) ELSE Append(Front(tokens), SubSeq(final, 1, at - 1))
    <2>1. Tokenize(path) = [tokens |-> Append(cut, RootLiteral), verb |-> SubSeq(final, at + 1, Len(final))]
      BY <1>5, Zenon DEF Tokenize, tokens
    <2>2. PICK g : Closed(tokens, g)
      BY <1>1
    <2>3. n \in Nat /\ n \in 1 .. n /\ final = tokens[n] /\ final \in Word /\ tokens # <<>>
      <3>1. tokens # <<>>
        BY <1>5, ScanCloses DEF tokens
      <3> QED BY <1>1, <3>1, EmptySeq DEF Last
    <2>4. at \in 1 .. Len(final) /\ Len(final) \in Nat /\ \E i \in DOMAIN final : final[i] = ":"
      <3>1. at \in Colons(final)
        BY <1>1, <1>5, <2>3, VerbAtIsColon
      <3> QED BY <2>3, <3>1 DEF Colons, Word
    <2> HIDE DEF at, final
    <2>5. SubSeq(final, at + 1, Len(final)) \in Word
      <3>1. at + 1 \in Nat \ {0} /\ Len(final) \in 0 .. Len(final)
        BY <2>4
      <3> QED BY <2>3, <3>1, SubSeqOfWord DEF Word
    <2>6. ~SeparatorIn(final, g[n], g[n + 1]) /\ WordIn(final, g[n])
      <3>1. ~SeparatorIn(final, g[n], g[n + 1])
        <4> SUFFICES ASSUME NEW x \in STRING, final = <<x>>, Separates(x, g[n]) PROVE FALSE
          BY DEF SeparatorIn
        <4>1. x = ":"
          BY <2>4
        <4>2. g[n] \in State
          <5>1. n \in 1 .. Len(tokens) + 1
            BY <2>3
          <5> QED BY <2>2, <5>1 DEF Closed
        <4> HIDE DEF n
        <4> QED BY <4>1, <4>2 DEF Separates, State
      <3> QED BY <2>2, <2>3, <3>1 DEF Closed
    <2>7. PICK h : /\ Closed(Front(tokens), h) /\ h[n] = g[n] /\ Open(Front(tokens), h)
                   /\ Front(tokens) \in Seq(Word) /\ Len(Front(tokens)) = n - 1
      <3>1. final = tokens[n]
        BY <2>3
      <3> QED BY <1>1, <2>2, <2>3, <2>6, <3>1, ClosedFront
    <2>8. cut \in Seq(Word) /\ \E k : Closed(cut, k)
      <3>1. CASE at = 1
        BY <2>7, <3>1
      <3>2. CASE at # 1
        <4> DEFINE w == SubSeq(final, 1, at - 1)
        <4>1. w \in Word /\ \A i \in 1 .. Len(w) : w[i] = final[i] /\ i \in 1 .. Len(final)
          <5>1. at - 1 \in 0 .. Len(final) /\ 1 \in Nat \ {0}
            BY <2>4
          <5>2. /\ SubSeq(final, 1, at - 1) \in Seq(STRING)
                /\ Len(SubSeq(final, 1, at - 1)) = IF 1 <= at - 1 THEN at - 1 - 1 + 1 ELSE 0
                /\ \A i \in 1 .. Len(SubSeq(final, 1, at - 1)) : SubSeq(final, 1, at - 1)[i] = final[1 + i - 1]
            BY <2>3, <5>1, SubSeqOfWord DEF Word
          <5>3. Len(w) = at - 1
            BY <2>4, <3>2, <5>2
          <5>4. ASSUME NEW i \in 1 .. Len(w) PROVE w[i] = final[i] /\ i \in 1 .. Len(final)
            <6>1. 1 + i - 1 = i /\ i \in 1 .. Len(final)
              BY <2>4, <5>3
            <6> QED BY <5>2, <6>1
          <5> HIDE DEF w
          <5> QED BY <5>2, <5>4 DEF w, Word
        <4>2. WordIn(w, g[n])
          <5>1. DOMAIN w = 1 .. Len(w) /\ DOMAIN final = 1 .. Len(final)
            BY <2>3, <4>1 DEF Word
          <5> HIDE DEF w
          <5> QED BY <2>6, <4>1, <5>1 DEF WordIn
        <4> HIDE DEF w
        <4>3. cut = Append(Front(tokens), w)
          BY <3>2 DEF w
        <4>4. Len(Front(tokens)) + 1 = n
          BY <2>3, <2>7
        <4>5. g[n] \in State /\ h[Len(Front(tokens)) + 1] = g[n]
          <5>1. n \in 1 .. n + 1
            BY <2>3
          <5> QED BY <2>2, <2>7, <4>4, <5>1 DEF Closed
        <4>6. \E k : Closed(Append(Front(tokens), w), k)
          BY <2>7, <4>1, <4>2, <4>5, ClosedAppend
        <4>7. Append(Front(tokens), w) \in Seq(Word)
          BY <2>7, <4>1, AppendProperties
        <4> QED BY <4>3, <4>6, <4>7
      <3> QED BY <3>1, <3>2
    <2> HIDE DEF cut
    <2>9. \E k : Marked(Append(cut, RootLiteral), k)
      BY <2>8, ClosedIsMarked
    <2>10. /\ Tokenize(path).tokens = Append(cut, RootLiteral)
           /\ Tokenize(path).verb = SubSeq(final, at + 1, Len(final))
      <3> DEFINE marked == Append(cut, RootLiteral)
                 verb   == SubSeq(final, at + 1, Len(final))
      <3>1. Tokenize(path) = [tokens |-> marked, verb |-> verb]
        BY <2>1 DEF cut
      <3> HIDE DEF marked, verb
      <3>2. Tokenize(path).tokens = marked /\ Tokenize(path).verb = verb
        BY <3>1
      <3> QED BY <3>2 DEF marked, verb
    <2> QED BY <2>5, <2>9, <2>10
  <1> QED BY <1>3, <1>4, <1>5

-----------------------------------------------------------------------------
(* Field paths.                                                            *)

\* What the parser may return for the field path at token i: in braces it
\* stays there, and stops at no slash.
NameIs(ts, g, i, r) ==
  \/ r = Fail
  \/ /\ r \in [ok : {TRUE}, path : NonEmptySeq(STRING), next : 1 .. Len(ts)]
     /\ i < r.next
     /\ g[i] = "field" => g[r.next] = "field" /\ ts[r.next] # Slash

\* In a field path a separator is none of the identifiers, and what follows an
\* identifier is a separator or the end.
LEMMA IdentFacts ==
  ASSUME NEW ts, NEW g, Marked(ts, g), NEW i \in 1 .. Len(ts), IsIdent(ts[i])
  PROVE  /\ i < Len(ts) /\ i + 1 \in 1 .. Len(ts)
         /\ ts[i][1] \in STRING
         /\ g[i] = "field" =>
              /\ g[i + 1] = "field"
              /\ i + 1 < Len(ts) => SeparatorIn(ts[i + 1], "field", g[i + 2])
  <1>1. Len(ts) \in Nat /\ ts[Len(ts)] = <<EndOfTokens>>
    BY DEF Marked, RootLiteral
  <1>2. EndOfTokens \notin Ident /\ ts[i][1] \in Ident /\ ts[i][1] \in STRING
    BY HttpRuleAssumption DEF IsIdent, Punctuation
  <1>3. i # Len(ts)
    BY <1>1, <1>2
  <1>4. i \in 1 .. Len(ts) - 1 /\ i + 1 \in 1 .. Len(ts)
    BY <1>1, <1>3
  <1>5. ASSUME g[i] = "field"
        PROVE  ~SeparatorIn(ts[i], g[i], g[i + 1])
    <2> SUFFICES ASSUME NEW x \in STRING, ts[i] = <<x>>, Separates(x, "field") PROVE FALSE
      BY <1>5 DEF SeparatorIn
    <2>1. x \in Ident
      BY <1>2
    <2> QED BY <2>1, HttpRuleAssumption DEF Separates, Punctuation
  <1> QED BY <1>1, <1>2, <1>4, <1>5 DEF Marked

LEMMA OneBefore ==
  ASSUME NEW S, NEW x \in S, NEW s \in Seq(S)
  PROVE  <<x>> \o s \in NonEmptySeq(S)
  <1>1. <<x>> \in Seq(S) /\ <<x>> # <<>>
    BY OneOf
  <1>2. <<x>> \o s \in Seq(S)
    BY <1>1, ConcatProperties
  <1>3. <<x>> \o s # <<>>
    BY <1>1, ConcatEqualIffEmpty
  <1> QED BY <1>2, <1>3 DEF NonEmptySeq

LEMMA FieldPathStep ==
  ASSUME NEW ts, NEW g, Marked(ts, g), NEW i \in 1 .. Len(ts),
         NEW f, \A j \in 1 .. Len(ts) : j > i => NameIs(ts, g, j, f[j])
  PROVE  /\ NameIs(ts, g, i, FieldPathAt(ts, i, f))
         /\ \A h : (\A j \in 1 .. Len(ts) : j > i => f[j] = h[j]) =>
                   FieldPathAt(ts, i, h) = FieldPathAt(ts, i, f)
  <1> DEFINE name == <<ts[i][1]>>
             more == f[i + 2]
  <1>1. CASE ~IsIdent(ts[i])
    BY <1>1 DEF FieldPathAt, NameIs
  <1>2. CASE IsIdent(ts[i]) /\ ~Takes(ts[i + 1], <<".">>)
    <2>1. FieldPathAt(ts, i, f) = [ok |-> TRUE, path |-> name, next |-> i + 1]
          /\ \A h : FieldPathAt(ts, i, h) = [ok |-> TRUE, path |-> name, next |-> i + 1]
      BY <1>2 DEF FieldPathAt
    <2>2. /\ i + 1 \in 1 .. Len(ts) /\ ts[i][1] \in STRING
          /\ g[i] = "field" => g[i + 1] = "field"
      BY <1>2, IdentFacts
    <2>3. name \in NonEmptySeq(STRING)
      BY <2>2, OneOf DEF NonEmptySeq
    <2>4. ts[i + 1] # Slash
      BY <1>2 DEF Takes
    <2> HIDE DEF name
    <2> QED BY <2>1, <2>2, <2>3, <2>4 DEF NameIs
  <1>3. CASE IsIdent(ts[i]) /\ Takes(ts[i + 1], <<".">>)
    <2>1. /\ i + 1 \in 1 .. Len(ts) /\ ts[i][1] \in STRING /\ Len(ts) \in Nat
          /\ g[i] = "field" => g[i + 1] = "field" /\ (i + 1 < Len(ts) => SeparatorIn(ts[i + 1], "field", g[i + 2]))
      <3>1. Len(ts) \in Nat
        BY DEF Marked
      <3> QED BY <1>3, <3>1, IdentFacts
    <2>2. i + 1 # Len(ts)
      <3>1. ts[Len(ts)] = <<EndOfTokens>>
        BY DEF Marked, RootLiteral
      <3>2. ts[i + 1] = <<".">> \/ ts[i + 1] = <<"/">>
        BY <1>3 DEF Takes, Slash
      <3> QED BY <3>1, <3>2 DEF EndOfTokens
    <2>3. i + 1 < Len(ts) /\ i + 2 \in 1 .. Len(ts) /\ i + 2 > i
      BY <2>1, <2>2
    <2>4. NameIs(ts, g, i + 2, more)
      BY <2>3
    <2>5. g[i] = "field" => g[i + 2] = "field"
      <3> SUFFICES ASSUME g[i] = "field" PROVE g[i + 2] = "field"
        OBVIOUS
      <3>1. PICK x \in STRING : ts[i + 1] = <<x>> /\ Separates(x, "field") /\ g[i + 2] = StateAfter(x, "field")
        BY <2>1, <2>3 DEF SeparatorIn
      <3>2. x = "." \/ x = "/"
        BY <1>3, <3>1 DEF Takes, Slash
      <3>3. x = "."
        BY <3>1, <3>2 DEF Separates
      <3> QED BY <3>1, <3>3 DEF StateAfter
    <2>6. FieldPathAt(ts, i, f) = IF more.ok THEN [more EXCEPT !.path = name \o @] ELSE Fail
      BY <1>3 DEF FieldPathAt
    <2>7. NameIs(ts, g, i, FieldPathAt(ts, i, f))
      <3>1. CASE more = Fail
        BY <2>6, <3>1 DEF Fail, NameIs
      <3>2. CASE more # Fail
        <4>1. /\ more \in [ok : {TRUE}, path : NonEmptySeq(STRING), next : 1 .. Len(ts)]
              /\ i + 2 < more.next
              /\ g[i + 2] = "field" => g[more.next] = "field" /\ ts[more.next] # Slash
          BY <2>4, <3>2 DEF NameIs
        <4>2. name \o more.path \in NonEmptySeq(STRING)
          BY <2>1, <4>1, OneBefore DEF NonEmptySeq
        <4>3. FieldPathAt(ts, i, f) = [ok |-> TRUE, path |-> name \o more.path, next |-> more.next]
          BY <2>6, <4>1
        <4>4. i < more.next
          <5>1. more.next \in 1 .. Len(ts)
            BY <4>1
          <5> HIDE DEF more
          <5> QED BY <2>1, <4>1, <5>1
        <4> DEFINE path == name \o more.path
        <4> HIDE DEF path, name, more
        <4> QED BY <2>5, <4>1, <4>2, <4>3, <4>4 DEF NameIs, path
      <3> QED BY <3>1, <3>2
    <2>8. ASSUME NEW h, \A j \in 1 .. Len(ts) : j > i => f[j] = h[j]
          PROVE  FieldPathAt(ts, i, h) = FieldPathAt(ts, i, f)
      <3>1. h[i + 2] = f[i + 2]
        BY <2>3, <2>8
      <3> QED BY <3>1, Zenon DEF FieldPathAt
    <2> QED BY <2>7, <2>8
  <1> QED BY <1>1, <1>2, <1>3

\* What a field path is at each token, from what it is later on.
LEMMA FieldPathsAre ==
  ASSUME NEW ts, NEW g, Marked(ts, g)
  PROVE  \A i \in 1 .. Len(ts) : /\ FieldPaths(ts)[i] = FieldPathAt(ts, i, FieldPaths(ts))
                                 /\ NameIs(ts, g, i, FieldPaths(ts)[i])
  <1> DEFINE L    == Len(ts)
             V    == {Fail} \cup [ok : {TRUE}, path : NonEmptySeq(STRING), next : 1 .. L]
             In(r) == IF r \in V THEN r ELSE Fail
             Next(i, f) == In(FieldPathAt(ts, i, f))
             step == [at \in (1 .. L) \X [1 .. L -> V] |-> Next(at[1], at[2])]
             Body(f) == [i \in DOMAIN ts |-> FieldPathAt(ts, i, f)]
             From == CHOOSE f : f = Body(f)
             Good(f) == {i \in 1 .. L : NameIs(ts, g, i, f[i])}
  <1>1. L \in Nat /\ DOMAIN ts = 1 .. L
    BY DEF Marked
  <1>2. step \in [(1 .. L) \X [1 .. L -> V] -> V]
    <2>1. \A r : In(r) \in V
      OBVIOUS
    <2> HIDE DEF In, V
    <2> QED BY <2>1
  <1>3. PICK f \in [1 .. L -> V] : Backward(f, L, Fail, step)
    <2>1. Fail \in V
      OBVIOUS
    <2> HIDE DEF Next, step, L, V
    <2>2. L \in Nat
      BY <1>1
    <2> QED BY <1>2, <2>1, <2>2, BackwardExists
  <1>4. ASSUME NEW i \in 1 .. L, \A j \in 1 .. L : j > i => NameIs(ts, g, j, f[j])
        PROVE  NameIs(ts, g, i, f[i]) /\ f[i] = FieldPathAt(ts, i, f)
    <2> DEFINE h == Later(f, i, L, Fail)
    <2>1. h \in [1 .. L -> V] /\ \A j \in 1 .. L : j > i => h[j] = f[j]
      BY DEF Later
    <2>2. f[i] = In(FieldPathAt(ts, i, h))
      <3>1. f[i] = step[<<i, h>>]
        <4> HIDE DEF step, V, h
        <4> QED BY <1>3, Zenon DEF Backward, h
      <3>2. <<i, h>> \in (1 .. L) \X [1 .. L -> V]
        <4> HIDE DEF h, V
        <4> QED BY <2>1
      <3>3. step[<<i, h>>] = Next(i, h)
        <4> HIDE DEF Next, V, h
        <4> QED BY <3>2
      <3> QED BY <3>1, <3>3, Zenon
    <2> HIDE DEF h
    <2>3. \A j \in 1 .. Len(ts) : j > i => NameIs(ts, g, j, h[j])
      BY <1>4, <2>1
    <2>4. NameIs(ts, g, i, FieldPathAt(ts, i, h)) /\ FieldPathAt(ts, i, f) = FieldPathAt(ts, i, h)
      <3>1. \A j \in 1 .. Len(ts) : j > i => h[j] = f[j]
        BY <2>1
      <3> HIDE DEF L, V
      <3> QED BY <2>3, <3>1, FieldPathStep DEF L
    <2>5. FieldPathAt(ts, i, h) \in V
      BY <2>4 DEF NameIs
    <2> QED BY <2>2, <2>4, <2>5
  <1>5. \A i \in 1 .. L : i \in Good(f)
    <2>1. \A i \in 1 .. L : (\A j \in 1 .. L : j > i => j \in Good(f)) => i \in Good(f)
      BY <1>4
    <2> HIDE DEF Good, L
    <2> QED BY <1>1, <2>1, Descending
  <1>6. f = Body(f)
    <2>1. \A i \in 1 .. L : f[i] = FieldPathAt(ts, i, f)
      BY <1>4, <1>5
    <2> HIDE DEF L, V
    <2> QED BY <1>1, <2>1
  <1>7. From = Body(From)
    <2> HIDE DEF Body
    <2> QED BY <1>6, Zenon
  <1>8. FieldPaths(ts) = From
    BY Zenon DEF FieldPaths
  <1> HIDE DEF From
  <1>9. \A i \in 1 .. L : From[i] = FieldPathAt(ts, i, From)
    <2>1. \A i \in DOMAIN ts : From[i] = Body(From)[i]
      <3> HIDE DEF Body
      <3> QED BY <1>7
    <2> QED BY <1>1, <2>1
  <1>10. \A i \in 1 .. L : i \in Good(From)
    <2>1. ASSUME NEW i \in 1 .. L, \A j \in 1 .. L : j > i => j \in Good(From)
          PROVE  i \in Good(From)
      <3>1. \A j \in 1 .. Len(ts) : j > i => NameIs(ts, g, j, From[j])
        BY <2>1
      <3> QED BY <1>9, <3>1, FieldPathStep
    <2> HIDE DEF Good, L
    <2> QED BY <1>1, <2>1, Descending
  <1> QED BY <1>8, <1>9, <1>10

-----------------------------------------------------------------------------
(* Segments.                                                               *)

\* What the parser may return for the segments at token i: in the pattern of
\* a variable there are no variables.
SegmentsAre(ts, g, i, r) ==
  \/ r = Fail
  \/ /\ r \in [ok : {TRUE}, segs : NonEmptySeq(ParsedSegment), next : 1 .. Len(ts)]
     /\ i < r.next
     /\ g[i] = "nested" => r.segs \in NonEmptySeq(LeafSegment)

FirstIs(ts, g, i, r) ==
  \/ r = Fail
  \/ /\ r \in [ok : {TRUE}, seg : ParsedSegment, next : 1 .. Len(ts)]
     /\ i < r.next
     /\ g[i] = "nested" => r.seg \in LeafSegment /\ r.next = i + 1 /\ g[i + 1] = "nested"

LEMMA PlainSegments ==
  /\ Wildcard \in LeafSegment /\ DeepWildcard \in LeafSegment
  /\ \A w \in Word : Literal(w) \in LeafSegment
  /\ \A path \in NonEmptySeq(STRING), segs \in NonEmptySeq(LeafSegment) :
       Variable(path, segs) \in VarSegment
  <1>1. <<>> \in Word
    BY DEF Word
  <1>2. Wildcard \in LeafSegment /\ DeepWildcard \in LeafSegment
    BY <1>1 DEF Wildcard, DeepWildcard, Plain, LeafSegment
  <1>3. ASSUME NEW w \in Word PROVE Literal(w) \in LeafSegment
    <2>1. Literal(w) = [kind |-> "lit", lit |-> w, path |-> <<>>, segs |-> <<>>]
      BY DEF Literal, Plain
    <2> QED BY <2>1 DEF LeafSegment
  <1>4. ASSUME NEW path \in NonEmptySeq(STRING), NEW segs \in NonEmptySeq(LeafSegment)
        PROVE  Variable(path, segs) \in VarSegment
    <2>1. Variable(path, segs) = [kind |-> "var", lit |-> <<>>, path |-> path, segs |-> segs]
      BY DEF Variable, Plain
    <2> QED BY <2>1 DEF VarSegment
  <1> QED BY <1>2, <1>3, <1>4

\* A token that is not the end nor closes a variable leaves the tokenizer in
\* the pattern of the variable, if it is there.
LEMMA StaysNested ==
  ASSUME NEW ts, NEW g, Marked(ts, g), NEW i \in 1 .. Len(ts), i < Len(ts),
         g[i] = "nested", ts[i] # <<RightBrace>>
  PROVE  g[i + 1] = "nested"
  <1>1. i \in 1 .. Len(ts) - 1
    BY DEF Marked
  <1>2. CASE SeparatorIn(ts[i], g[i], g[i + 1])
    <2>1. PICK x \in STRING : ts[i] = <<x>> /\ Separates(x, "nested") /\ g[i + 1] = StateAfter(x, "nested")
      BY <1>2 DEF SeparatorIn
    <2>2. x = "/"
      BY <2>1, SeparatorsAre
    <2> QED BY <2>1, <2>2, StatesAfter
  <1>3. CASE g[i + 1] = g[i]
    BY <1>3
  <1> QED BY <1>1, <1>2, <1>3 DEF Marked

\* A "{" begins a field path where the tokenizer is outside of braces, and
\* nothing that parses where it is not.
LEMMA BraceFacts ==
  ASSUME NEW ts, NEW g, Marked(ts, g), NEW i \in 1 .. Len(ts), ts[i] = <<LeftBrace>>
  PROVE  /\ i < Len(ts) /\ i + 1 \in 1 .. Len(ts)
         /\ g[i] = "init" => g[i + 1] = "field"
         /\ g[i] # "init" => ~IsIdent(ts[i + 1])
  <1>1. Len(ts) \in Nat /\ ts[Len(ts)] = <<EndOfTokens>> /\ g[i] \in State
    BY DEF Marked, RootLiteral
  <1>2. i # Len(ts)
    BY <1>1, PunctuationDiffers
  <1>3. i \in 1 .. Len(ts) - 1 /\ i + 1 \in 1 .. Len(ts) /\ i < Len(ts)
    BY <1>1, <1>2
  <1>4. /\ \/ SeparatorIn(ts[i], g[i], g[i + 1])
           \/ /\ WordIn(ts[i], g[i]) /\ g[i + 1] = g[i]
              /\ i + 1 < Len(ts) => SeparatorIn(ts[i + 1], g[i + 1], g[i + 2])
    BY <1>3 DEF Marked
  <1>5. WordIn(ts[i], g[i]) => g[i] # "init"
    <2>1. ts[i][1] = LeftBrace /\ 1 \in DOMAIN ts[i]
      OBVIOUS
    <2> QED BY <2>1, SeparatorsAre DEF WordIn
  <1>6. SeparatorIn(ts[i], g[i], g[i + 1]) => g[i] = "init" /\ g[i + 1] = "field"
    <2> SUFFICES ASSUME NEW x \in STRING, ts[i] = <<x>>, Separates(x, g[i]), g[i + 1] = StateAfter(x, g[i])
                 PROVE  g[i] = "init" /\ g[i + 1] = "field"
      BY DEF SeparatorIn
    <2>1. x = LeftBrace
      OBVIOUS
    <2>2. g[i] = "init"
      BY <1>1, <2>1, SeparatorsAre, PunctuationDiffers DEF State
    <2> QED BY <2>1, <2>2, StatesAfter
  <1>7. ASSUME g[i] # "init" PROVE ~IsIdent(ts[i + 1])
    <2>1. CASE i + 1 = Len(ts)
      BY <1>1, <2>1, PunctuationDiffers DEF IsIdent
    <2>2. CASE i + 1 # Len(ts)
      <3>1. SeparatorIn(ts[i + 1], g[i + 1], g[i + 2]) /\ g[i + 1] = g[i]
        <4>1. i + 1 < Len(ts)
          BY <1>1, <1>3, <2>2
        <4> QED BY <1>4, <1>6, <1>7, <4>1
      <3>2. PICK x \in STRING : ts[i + 1] = <<x>> /\ Separates(x, g[i])
        BY <3>1 DEF SeparatorIn
      <3>3. x \in {"/", RightBrace, ".", "="}
        BY <1>1, <1>7, <3>2, SeparatorsAre DEF State
      <3>4. x \notin Ident
        BY <3>3, PunctuationDiffers
      <3> QED BY <3>2, <3>4 DEF IsIdent
    <2> QED BY <2>1, <2>2
  <1> QED BY <1>3, <1>4, <1>5, <1>6, <1>7

\* Before the end only.
LEMMA NotTheEnd ==
  ASSUME NEW ts, NEW g, Marked(ts, g), NEW i \in 1 .. Len(ts), ts[i] # RootLiteral
  PROVE  i < Len(ts) /\ i + 1 \in 1 .. Len(ts)
  <1>1. Len(ts) \in Nat /\ ts[Len(ts)] = RootLiteral
    BY DEF Marked
  <1>2. i # Len(ts)
    BY <1>1
  <1> QED BY <1>1, <1>2

LEMMA TokensDiffer ==
  /\ RootLiteral # Slash /\ RootLiteral # <<"*">> /\ RootLiteral # <<"*", "*">>
  /\ RootLiteral # <<RightBrace>> /\ RootLiteral # <<LeftBrace>> /\ RootLiteral # <<"=">>
  /\ <<RightBrace>> # Slash /\ <<RightBrace>> # <<"*">> /\ <<RightBrace>> # <<"*", "*">>
  BY PunctuationDiffers DEF RootLiteral, Slash

\* The names of tokens in the model, and here.
LEMMA TakesBraces ==
  \A t : /\ Takes(t, <<"{">>) <=> t = <<LeftBrace>> \/ t = Slash
         /\ Takes(t, <<"}">>) <=> t = <<RightBrace>> \/ t = Slash
  BY Zenon DEF Takes, LeftBrace, RightBrace

\* A segment of one token.
LEMMA OneToken ==
  ASSUME NEW ts, NEW g, Marked(ts, g), NEW i \in 1 .. Len(ts), NEW seg \in LeafSegment,
         ts[i] # RootLiteral, ts[i] # <<RightBrace>>
  PROVE  FirstIs(ts, g, i, [ok |-> TRUE, seg |-> seg, next |-> i + 1])
  <1> DEFINE r == [ok |-> TRUE, seg |-> seg, next |-> i + 1]
  <1>1. i < Len(ts) /\ i + 1 \in 1 .. Len(ts)
    BY NotTheEnd
  <1>2. seg \in ParsedSegment
    BY DEF ParsedSegment
  <1>3. r.ok = TRUE /\ r.seg = seg /\ r.next = i + 1
        /\ r \in [ok : {TRUE}, seg : ParsedSegment, next : 1 .. Len(ts)]
    BY <1>1, <1>2
  <1>4. g[i] = "nested" => g[i + 1] = "nested"
    BY <1>1, StaysNested
  <1>5. i < i + 1
    BY <1>1
  <1> HIDE DEF r
  <1>6. FirstIs(ts, g, i, r)
    BY <1>3, <1>4, <1>5 DEF FirstIs
  <1> QED BY <1>6 DEF r

LEMMA VariableStep ==
  ASSUME NEW ts, NEW g, Marked(ts, g), NEW i \in 1 .. Len(ts), ts[i] # Slash,
         NEW f, \A j \in 1 .. Len(ts) : j > i => SegmentsAre(ts, g, j, f[j])
  PROVE  /\ FirstIs(ts, g, i, VariableSegment(ts, i, f))
         /\ \A h : (\A j \in 1 .. Len(ts) : j > i => f[j] = h[j]) =>
                   VariableSegment(ts, i, h) = VariableSegment(ts, i, f)
  <1> DEFINE name == FieldPaths(ts)[i + 1]
             given == Takes(ts[name.next], <<"=">>)
             Body(h) == IF given THEN h[name.next + 1]
                        ELSE [ok |-> TRUE, segs |-> <<Wildcard>>, next |-> name.next]
             body == Body(f)
  <1>1. CASE ~Takes(ts[i], <<"{">>) \/ ~name.ok
    <2>1. \A h : VariableSegment(ts, i, h) = Fail
      BY <1>1, Zenon DEF VariableSegment
    <2> QED BY <2>1 DEF FirstIs
  <1>2. CASE Takes(ts[i], <<"{">>) /\ name.ok
    <2>1. ts[i] = <<LeftBrace>>
      BY <1>2, TakesBraces
    <2>2. i < Len(ts) /\ i + 1 \in 1 .. Len(ts) /\ Len(ts) \in Nat
      <3>1. Len(ts) \in Nat
        BY DEF Marked
      <3> QED BY <2>1, <3>1, BraceFacts
    <2>3. NameIs(ts, g, i + 1, name)
      BY <2>2, FieldPathsAre
    <2>4. g[i] = "init" /\ g[i + 1] = "field"
      <3>1. IsIdent(ts[i + 1])
        <4>1. name = FieldPathAt(ts, i + 1, FieldPaths(ts))
          BY <2>2, FieldPathsAre
        <4>2. ~Fail.ok
          BY DEF Fail
        <4> QED BY <1>2, <4>1, <4>2, Zenon DEF FieldPathAt
      <3> QED BY <2>1, <3>1, BraceFacts
    <2>5. /\ name.path \in NonEmptySeq(STRING) /\ name.next \in 1 .. Len(ts) /\ i + 1 < name.next
          /\ g[name.next] = "field" /\ ts[name.next] # Slash
      <3> HIDE DEF name
      <3>1. name # Fail
        <4>1. ~Fail.ok
          BY DEF Fail
        <4> QED BY <1>2, <4>1, Zenon
      <3> QED BY <2>3, <2>4, <3>1 DEF NameIs
    <2> HIDE DEF name
    <2>6. ASSUME given
          PROVE  /\ name.next + 1 \in 1 .. Len(ts) /\ name.next + 1 > i
                 /\ g[name.next + 1] = "nested"
      <3>1. ts[name.next] = <<"=">>
        BY <2>5, <2>6 DEF Takes
      <3>2. name.next < Len(ts) /\ name.next + 1 \in 1 .. Len(ts)
        BY <2>5, <3>1, NotTheEnd, TokensDiffer
      <3>3. name.next \in 1 .. Len(ts) - 1
        BY <2>2, <2>5, <3>2
      <3>4. \/ SeparatorIn(<<"=">>, "field", g[name.next + 1]) \/ WordIn(<<"=">>, "field")
        BY <2>5, <3>1, <3>3 DEF Marked
      <3>5. ~WordIn(<<"=">>, "field")
        <4>1. <<"=">>[1] = "=" /\ 1 \in DOMAIN <<"=">>
          OBVIOUS
        <4> QED BY <4>1, SeparatorsAre DEF WordIn
      <3>6. g[name.next + 1] = "nested"
        <4>1. PICK x \in STRING : <<"=">> = <<x>> /\ g[name.next + 1] = StateAfter(x, "field")
          BY <3>4, <3>5 DEF SeparatorIn
        <4>2. x = "="
          BY <4>1
        <4> QED BY <4>1, <4>2, StatesAfter
      <3>7. name.next + 1 > i
        BY <2>2, <2>5
      <3> QED BY <3>2, <3>6, <3>7
    <2>7. body = Fail \/ /\ body.segs \in NonEmptySeq(LeafSegment) /\ body.next \in 1 .. Len(ts)
                         /\ i < body.next /\ body.ok = TRUE
      <3>1. CASE given
        <4>1. SegmentsAre(ts, g, name.next + 1, f[name.next + 1]) /\ body = f[name.next + 1]
          BY <2>6, <3>1
        <4> HIDE DEF body
        <4>2. body = Fail \/ /\ body.ok = TRUE /\ body.segs \in NonEmptySeq(LeafSegment)
                             /\ body.next \in 1 .. Len(ts) /\ name.next + 1 < body.next
          BY <2>6, <3>1, <4>1 DEF SegmentsAre
        <4> QED BY <2>2, <2>5, <4>2
      <3>2. CASE ~given
        <4>1. body = [ok |-> TRUE, segs |-> <<Wildcard>>, next |-> name.next]
          BY <3>2
        <4>2. <<Wildcard>> \in NonEmptySeq(LeafSegment)
          BY PlainSegments, OneOf DEF NonEmptySeq
        <4>3. i < name.next
          BY <2>2, <2>5
        <4> HIDE DEF body
        <4> QED BY <2>5, <4>1, <4>2, <4>3
      <3> QED BY <3>1, <3>2
    <2>8. ASSUME NEW h, \A j \in 1 .. Len(ts) : j > i => f[j] = h[j]
          PROVE  Body(h) = body
      <3>1. CASE given
        BY <2>6, <2>8, <3>1
      <3>2. CASE ~given
        BY <3>2
      <3> QED BY <3>1, <3>2
    <2> DEFINE Of(b) == IF ~b.ok THEN Fail
                        ELSE IF ~Takes(ts[b.next], <<"}">>) THEN Fail
                        ELSE [ok |-> TRUE, seg |-> Variable(name.path, b.segs), next |-> b.next + 1]
    <2>9. \A h : VariableSegment(ts, i, h) = Of(Body(h))
      BY <1>2, Zenon DEF VariableSegment, name
    <2> HIDE DEF Body, body
    <2>10. FirstIs(ts, g, i, Of(body))
      <3>1. CASE body = Fail \/ ~Takes(ts[body.next], <<"}">>)
        <4>1. ~Fail.ok
          BY DEF Fail
        <4>2. Of(body) = Fail
          BY <3>1, <4>1, Zenon
        <4> QED BY <4>2 DEF FirstIs
      <3>2. CASE body # Fail /\ Takes(ts[body.next], <<"}">>)
        <4> DEFINE r == [ok |-> TRUE, seg |-> Variable(name.path, body.segs), next |-> body.next + 1]
        <4>1. Of(body) = r
          BY <2>7, <3>2
        <4>2. body.next < Len(ts) /\ body.next + 1 \in 1 .. Len(ts)
          BY <2>7, <3>2, NotTheEnd, TokensDiffer, TakesBraces
        <4>3. Variable(name.path, body.segs) \in ParsedSegment
          BY <2>5, <2>7, <3>2, PlainSegments DEF ParsedSegment
        <4>4. r \in [ok : {TRUE}, seg : ParsedSegment, next : 1 .. Len(ts)] /\ r.next = body.next + 1
          BY <4>2, <4>3
        <4>5. i < body.next + 1 /\ g[i] # "nested"
          <5>1. i < body.next /\ body.next \in 1 .. Len(ts)
            BY <2>7, <3>2
          <5>2. i < body.next + 1
            BY <2>2, <5>1
          <5>3. "init" # "nested"
            OBVIOUS
          <5> QED BY <2>4, <5>2, <5>3
        <4> HIDE DEF r, Of
        <4> QED BY <4>1, <4>4, <4>5 DEF FirstIs
      <3> QED BY <3>1, <3>2
    <2> HIDE DEF Of
    <2>11. VariableSegment(ts, i, f) = Of(body)
      BY <2>9 DEF body
    <2>12. \A h : (\A j \in 1 .. Len(ts) : j > i => f[j] = h[j]) =>
                  VariableSegment(ts, i, h) = VariableSegment(ts, i, f)
      BY <2>8, <2>9, <2>11
    <2> QED BY <2>10, <2>11, <2>12
  <1> QED BY <1>1, <1>2

LEMMA FirstStep ==
  ASSUME NEW ts, NEW g, Marked(ts, g), NEW i \in 1 .. Len(ts),
         NEW f, \A j \in 1 .. Len(ts) : j > i => SegmentsAre(ts, g, j, f[j])
  PROVE  /\ FirstIs(ts, g, i, Segment(ts, i, f))
         /\ \A h : (\A j \in 1 .. Len(ts) : j > i => f[j] = h[j]) =>
                   Segment(ts, i, h) = Segment(ts, i, f)
  <1> DEFINE Is(seg) == [ok |-> TRUE, seg |-> seg, next |-> i + 1]
  <1>1. CASE Takes(ts[i], <<"*">>)
    <2>1. \A h : Segment(ts, i, h) = Is(Wildcard)
      BY <1>1, Zenon DEF Segment
    <2>2. ts[i] # RootLiteral /\ ts[i] # <<RightBrace>>
      BY <1>1, TokensDiffer DEF Takes
    <2>3. FirstIs(ts, g, i, Is(Wildcard))
      BY <2>2, PlainSegments, OneToken
    <2> QED BY <2>1, <2>3, Zenon
  <1>2. CASE ~Takes(ts[i], <<"*">>) /\ ts[i] = <<"*", "*">>
    <2>1. \A h : Segment(ts, i, h) = Is(DeepWildcard)
      BY <1>2, Zenon DEF Segment
    <2>2. ts[i] # RootLiteral /\ ts[i] # <<RightBrace>>
      BY <1>2, TokensDiffer
    <2>3. FirstIs(ts, g, i, Is(DeepWildcard))
      BY <2>2, PlainSegments, OneToken
    <2> QED BY <2>1, <2>3, Zenon
  <1>3. CASE ~Takes(ts[i], <<"*">>) /\ ts[i] # <<"*", "*">> /\ IsPChars(ts[i])
    <2>1. \A h : Segment(ts, i, h) = Is(Literal(ts[i]))
      BY <1>3, Zenon DEF Segment
    <2>2. ts[i] # RootLiteral /\ ts[i] # <<RightBrace>>
      <3> SUFFICES ASSUME NEW x, ts[i] = <<x>>, x = EndOfTokens \/ x = RightBrace PROVE FALSE
        BY DEF RootLiteral
      <3>1. 1 \in DOMAIN ts[i] /\ ts[i][1] = x
        OBVIOUS
      <3>2. x \in Unclean \cup {"/", "{", "}", EndOfTokens}
        BY Zenon DEF RightBrace
      <3> QED BY <1>3, <3>1, <3>2 DEF IsPChars
    <2>3. ts[i] \in Word
      BY DEF Marked
    <2>4. FirstIs(ts, g, i, Is(Literal(ts[i])))
      <3>1. Literal(ts[i]) \in LeafSegment
        BY <2>3, PlainSegments
      <3> QED BY <2>2, <3>1, OneToken
    <2> QED BY <2>1, <2>4, Zenon
  <1>4. CASE ~Takes(ts[i], <<"*">>) /\ ts[i] # <<"*", "*">> /\ ~IsPChars(ts[i])
    <2>1. \A h : Segment(ts, i, h) = VariableSegment(ts, i, h)
      BY <1>4, Zenon DEF Segment
    <2>2. ts[i] # Slash
      BY <1>4 DEF Takes
    <2> QED BY <2>1, <2>2, VariableStep
  <1> QED BY <1>1, <1>2, <1>3, <1>4

LEMMA SegmentsStep ==
  ASSUME NEW ts, NEW g, Marked(ts, g), NEW i \in 1 .. Len(ts),
         NEW f, \A j \in 1 .. Len(ts) : j > i => SegmentsAre(ts, g, j, f[j])
  PROVE  /\ SegmentsAre(ts, g, i, SegmentsAt(ts, i, f))
         /\ \A h : (\A j \in 1 .. Len(ts) : j > i => f[j] = h[j]) =>
                   SegmentsAt(ts, i, h) = SegmentsAt(ts, i, f)
  <1> DEFINE first == Segment(ts, i, f)
             Body(h) == h[first.next + 1]
             Of(more) ==
               IF ~first.ok THEN Fail
               ELSE IF ~Takes(ts[first.next], Slash)
                    THEN [ok |-> TRUE, segs |-> <<first.seg>>, next |-> first.next]
               ELSE IF more.ok THEN [more EXCEPT !.segs = <<first.seg>> \o @] ELSE Fail
  <1>1. ASSUME NEW h, \A j \in 1 .. Len(ts) : j > i => f[j] = h[j]
        PROVE  SegmentsAt(ts, i, h) = Of(Body(h))
    <2>1. Segment(ts, i, h) = first
      BY <1>1, FirstStep
    <2> QED BY <2>1, Zenon DEF SegmentsAt
  <1>2. SegmentsAt(ts, i, f) = Of(Body(f))
    BY Zenon DEF SegmentsAt
  <1>3. FirstIs(ts, g, i, first)
    BY FirstStep
  <1>4. ~Fail.ok /\ Len(ts) \in Nat
    BY DEF Fail, Marked
  <1> HIDE DEF first
  <1>5. CASE ~first.ok
    <2>1. \A more : Of(more) = Fail
      BY <1>5, Zenon
    <2>2. SegmentsAt(ts, i, f) = Fail /\ \A h : (\A j \in 1 .. Len(ts) : j > i => f[j] = h[j]) => SegmentsAt(ts, i, h) = Fail
      <3> HIDE DEF Of, Body
      <3> QED BY <1>1, <1>2, <2>1
    <2> QED BY <2>2 DEF SegmentsAre
  <1>6. CASE first.ok
    <2>1. /\ first \in [ok : {TRUE}, seg : ParsedSegment, next : 1 .. Len(ts)]
          /\ i < first.next
          /\ g[i] = "nested" => first.seg \in LeafSegment /\ first.next = i + 1 /\ g[i + 1] = "nested"
      <3>1. first # Fail
        BY <1>4, <1>6, Zenon
      <3> QED BY <1>3, <3>1 DEF FirstIs
    <2>2. first.seg \in ParsedSegment /\ first.next \in 1 .. Len(ts)
      BY <2>1
    <2>3. CASE ~Takes(ts[first.next], Slash)
      <3> DEFINE r == [ok |-> TRUE, segs |-> <<first.seg>>, next |-> first.next]
      <3>1. \A more : Of(more) = r
        BY <1>6, <2>3, Zenon
      <3>2. <<first.seg>> \in NonEmptySeq(ParsedSegment)
        BY <2>2, OneOf DEF NonEmptySeq
      <3>3. g[i] = "nested" => <<first.seg>> \in NonEmptySeq(LeafSegment)
        BY <2>1, OneOf DEF NonEmptySeq
      <3>4. r \in [ok : {TRUE}, segs : NonEmptySeq(ParsedSegment), next : 1 .. Len(ts)]
            /\ r.segs = <<first.seg>> /\ r.next = first.next
        BY <2>2, <3>2
      <3> HIDE DEF r, Of, Body
      <3>5. SegmentsAre(ts, g, i, r)
        BY <2>1, <3>3, <3>4 DEF SegmentsAre
      <3> QED BY <1>1, <1>2, <3>1, <3>5
    <2>4. CASE Takes(ts[first.next], Slash)
      <3>1. ts[first.next] = Slash
        BY <2>4 DEF Takes
      <3>2. first.next < Len(ts) /\ first.next + 1 \in 1 .. Len(ts) /\ first.next + 1 > i
        <4>1. first.next < Len(ts) /\ first.next + 1 \in 1 .. Len(ts)
          BY <2>2, <3>1, NotTheEnd, TokensDiffer
        <4> QED BY <2>1, <2>2, <4>1
      <3> DEFINE more == Body(f)
      <3>3. SegmentsAre(ts, g, first.next + 1, more)
        BY <3>2
      <3>4. \A h : (\A j \in 1 .. Len(ts) : j > i => f[j] = h[j]) => Body(h) = more
        BY <3>2
      <3> HIDE DEF Body, more
      <3>5. SegmentsAre(ts, g, i, Of(more))
        <4>1. CASE more = Fail
          <5>1. Of(more) = Fail
            BY <1>4, <1>6, <2>4, <4>1, Zenon
          <5> QED BY <5>1 DEF SegmentsAre
        <4>2. CASE more # Fail
          <5>1. /\ more \in [ok : {TRUE}, segs : NonEmptySeq(ParsedSegment), next : 1 .. Len(ts)]
                /\ first.next + 1 < more.next
                /\ g[first.next + 1] = "nested" => more.segs \in NonEmptySeq(LeafSegment)
            BY <3>3, <4>2 DEF SegmentsAre
          <5>2. more.segs \in NonEmptySeq(ParsedSegment) /\ more.next \in 1 .. Len(ts) /\ more.ok = TRUE
            BY <5>1
          <5> DEFINE segs == <<first.seg>> \o more.segs
                     r == [ok |-> TRUE, segs |-> segs, next |-> more.next]
          <5>3. segs \in NonEmptySeq(ParsedSegment)
            BY <2>2, <5>2, OneBefore DEF NonEmptySeq
          <5>4. g[i] = "nested" => segs \in NonEmptySeq(LeafSegment)
            <6> SUFFICES ASSUME g[i] = "nested" PROVE segs \in NonEmptySeq(LeafSegment)
              OBVIOUS
            <6>1. first.seg \in LeafSegment /\ first.next = i + 1 /\ g[first.next] = "nested"
              BY <2>1
            <6>2. g[first.next + 1] = "nested"
              BY <2>2, <3>1, <3>2, <6>1, StaysNested, TokensDiffer
            <6> QED BY <5>1, <6>1, <6>2, OneBefore DEF NonEmptySeq
          <5>5. Of(more) = r
            <6>1. Of(more) = [more EXCEPT !.segs = <<first.seg>> \o @]
              BY <1>6, <2>4, <5>2, Zenon
            <6> QED BY <5>1, <6>1
          <5>6. i < more.next
            BY <2>1, <2>2, <5>1, <5>2
          <5> HIDE DEF segs
          <5>7. r \in [ok : {TRUE}, segs : NonEmptySeq(ParsedSegment), next : 1 .. Len(ts)]
                /\ r.segs = segs /\ r.next = more.next
            BY <5>2, <5>3
          <5> HIDE DEF r, Of
          <5> QED BY <5>4, <5>5, <5>6, <5>7 DEF SegmentsAre
        <4> QED BY <4>1, <4>2
      <3> HIDE DEF Of
      <3>6. SegmentsAt(ts, i, f) = Of(more)
        BY <1>2 DEF more
      <3>7. \A h : (\A j \in 1 .. Len(ts) : j > i => f[j] = h[j]) => SegmentsAt(ts, i, h) = Of(more)
        BY <1>1, <3>4
      <3> QED BY <3>5, <3>6, <3>7
    <2> QED BY <2>3, <2>4
  <1> QED BY <1>5, <1>6

LEMMA SegmentsTyped ==
  ASSUME NEW ts, NEW g, Marked(ts, g)
  PROVE  \A i \in 1 .. Len(ts) : SegmentsAre(ts, g, i, Segments(ts)[i])
  <1> DEFINE L    == Len(ts)
             V    == {Fail} \cup [ok : {TRUE}, segs : NonEmptySeq(ParsedSegment), next : 1 .. L]
             In(r) == IF r \in V THEN r ELSE Fail
             Next(i, f) == In(SegmentsAt(ts, i, f))
             step == [at \in (1 .. L) \X [1 .. L -> V] |-> Next(at[1], at[2])]
             Body(f) == [i \in DOMAIN ts |-> SegmentsAt(ts, i, f)]
             From == CHOOSE f : f = Body(f)
             Good(f) == {i \in 1 .. L : SegmentsAre(ts, g, i, f[i])}
  <1>1. L \in Nat /\ DOMAIN ts = 1 .. L
    BY DEF Marked
  <1>2. step \in [(1 .. L) \X [1 .. L -> V] -> V]
    <2>1. \A r : In(r) \in V
      OBVIOUS
    <2> HIDE DEF In, V
    <2> QED BY <2>1
  <1>3. PICK f \in [1 .. L -> V] : Backward(f, L, Fail, step)
    <2>1. Fail \in V
      OBVIOUS
    <2> HIDE DEF Next, step, L, V
    <2>2. L \in Nat
      BY <1>1
    <2> QED BY <1>2, <2>1, <2>2, BackwardExists
  <1>4. ASSUME NEW i \in 1 .. L, \A j \in 1 .. L : j > i => SegmentsAre(ts, g, j, f[j])
        PROVE  SegmentsAre(ts, g, i, f[i]) /\ f[i] = SegmentsAt(ts, i, f)
    <2> DEFINE h == Later(f, i, L, Fail)
    <2>1. h \in [1 .. L -> V] /\ \A j \in 1 .. L : j > i => h[j] = f[j]
      BY DEF Later
    <2>2. f[i] = In(SegmentsAt(ts, i, h))
      <3>1. f[i] = step[<<i, h>>]
        <4> HIDE DEF step, V, h
        <4> QED BY <1>3, Zenon DEF Backward, h
      <3>2. <<i, h>> \in (1 .. L) \X [1 .. L -> V]
        <4> HIDE DEF h, V
        <4> QED BY <2>1
      <3>3. step[<<i, h>>] = Next(i, h)
        <4> HIDE DEF Next, V, h
        <4> QED BY <3>2
      <3> QED BY <3>1, <3>3, Zenon
    <2> HIDE DEF h
    <2>3. \A j \in 1 .. Len(ts) : j > i => SegmentsAre(ts, g, j, h[j])
      BY <1>4, <2>1
    <2>4. SegmentsAre(ts, g, i, SegmentsAt(ts, i, h)) /\ SegmentsAt(ts, i, f) = SegmentsAt(ts, i, h)
      <3>1. \A j \in 1 .. Len(ts) : j > i => h[j] = f[j]
        BY <2>1
      <3> HIDE DEF L, V
      <3> QED BY <2>3, <3>1, SegmentsStep DEF L
    <2>5. SegmentsAt(ts, i, h) \in V
      BY <2>4 DEF SegmentsAre
    <2> QED BY <2>2, <2>4, <2>5
  <1>5. \A i \in 1 .. L : i \in Good(f)
    <2>1. \A i \in 1 .. L : (\A j \in 1 .. L : j > i => j \in Good(f)) => i \in Good(f)
      BY <1>4
    <2> HIDE DEF Good, L
    <2> QED BY <1>1, <2>1, Descending
  <1>6. f = Body(f)
    <2>1. \A i \in 1 .. L : f[i] = SegmentsAt(ts, i, f)
      BY <1>4, <1>5
    <2> HIDE DEF L, V
    <2> QED BY <1>1, <2>1
  <1>7. From = Body(From)
    <2> HIDE DEF Body
    <2> QED BY <1>6, Zenon
  <1>8. Segments(ts) = From
    BY Zenon DEF Segments
  <1> HIDE DEF From
  <1>9. \A i \in 1 .. L : From[i] = SegmentsAt(ts, i, From)
    <2>1. \A i \in DOMAIN ts : From[i] = Body(From)[i]
      <3> HIDE DEF Body
      <3> QED BY <1>7
    <2> QED BY <1>1, <2>1
  <1>10. \A i \in 1 .. L : i \in Good(From)
    <2>1. ASSUME NEW i \in 1 .. L, \A j \in 1 .. L : j > i => j \in Good(From)
          PROVE  i \in Good(From)
      <3>1. \A j \in 1 .. Len(ts) : j > i => SegmentsAre(ts, g, j, From[j])
        BY <2>1
      <3> QED BY <1>9, <3>1, SegmentsStep
    <2> HIDE DEF Good, L
    <2> QED BY <1>1, <2>1, Descending
  <1> QED BY <1>8, <1>10

-----------------------------------------------------------------------------
(* Templates.                                                              *)

\* A template that parses is a verb and segments, and a variable among them
\* stands for literals and wildcards only: the parser of nested variables
\* (parse.go, segment and variable) never returns one.
THEOREM ParseIsShaped ==
  ASSUME NEW tmpl \in Word, Parse(tmpl).ok
  PROVE  Parse(tmpl) \in WellParsed
  <1> DEFINE t == Tokenize(Tail(tmpl))
             ts == t.tokens
             s == TopLevelSegments(ts)
  <1>1. ~Fail.ok
    BY DEF Fail
  <1>2. tmpl # <<>> /\ Parse(tmpl) = ParseTokens(t)
    <2>1. ~(tmpl = <<>> \/ tmpl[1] # "/")
      BY <1>1, Zenon DEF Parse
    <2> QED BY <2>1, Zenon DEF Parse
  <1>3. Tail(tmpl) \in Word
    BY <1>2 DEF Word
  <1>4. t.verb \in Word /\ \E g : Marked(ts, g)
    BY <1>3, TokenizeMarks
  <1> HIDE DEF t
  <1>5. PICK g : Marked(ts, g)
    BY <1>4
  <1>6. s.ok /\ ParseTokens(t) = [ok |-> TRUE, segs |-> s.segs, verb |-> t.verb]
    <2>1. ParseTokens(t) = IF s.ok THEN [ok |-> TRUE, segs |-> s.segs, verb |-> t.verb] ELSE Fail
      BY Zenon DEF ParseTokens, ParsedTemplate
    <2>2. s.ok
      BY <1>1, <1>2, <2>1, Zenon
    <2> QED BY <2>1, <2>2, Zenon
  <1>7. s.segs \in NonEmptySeq(ParsedSegment)
    <2>1. CASE ts[1] = RootLiteral
      <3>1. s = [ok |-> TRUE, segs |-> <<Literal(RootLiteral)>>]
        BY <2>1, Zenon DEF TopLevelSegments
      <3>2. Literal(RootLiteral) \in ParsedSegment
        BY EndIsWord, PlainSegments DEF ParsedSegment
      <3>3. <<Literal(RootLiteral)>> \in NonEmptySeq(ParsedSegment)
        BY <3>2, OneOf DEF NonEmptySeq
      <3>4. s.segs = <<Literal(RootLiteral)>>
        BY <3>1
      <3> QED BY <3>3, <3>4
    <2>2. CASE ts[1] # RootLiteral
      <3> DEFINE r == Segments(ts)[1]
      <3>1. s = AtEnd(ts, r)
        BY <2>2, Zenon DEF TopLevelSegments
      <3>2. r.ok /\ s = [ok |-> TRUE, segs |-> r.segs]
        <4>1. r.ok
          BY <1>1, <1>6, <3>1, Zenon DEF AtEnd
        <4>2. ts[r.next] = RootLiteral
          BY <1>1, <1>6, <3>1, Zenon DEF AtEnd
        <4> QED BY <3>1, <4>1, <4>2, Zenon DEF AtEnd
      <3>3. 1 \in 1 .. Len(ts)
        <4> HIDE DEF ts
        <4> QED BY <1>5 DEF Marked
      <3>4. SegmentsAre(ts, g, 1, r)
        BY <1>5, <3>3, SegmentsTyped
      <3>5. r # Fail
        BY <1>1, <3>2, Zenon
      <3> HIDE DEF r
      <3>6. r.segs \in NonEmptySeq(ParsedSegment)
        BY <3>4, <3>5 DEF SegmentsAre
      <3>7. s.segs = r.segs
        <4> HIDE DEF s
        <4> QED BY <3>2
      <3> QED BY <3>6, <3>7
    <2> QED BY <2>1, <2>2
  <1> HIDE DEF s
  <1>8. [ok |-> TRUE, segs |-> s.segs, verb |-> t.verb] \in WellParsed
    BY <1>4, <1>7 DEF WellParsed
  <1> QED BY <1>2, <1>6, <1>8

-----------------------------------------------------------------------------
(* The compiler.                                                           *)

Codes == {"push", "pushM", "litPush", "concatN", "capture"}
Literals == {"litPush", "capture"}

\* The strings literals and captures have.
Names == Word \cup {FieldName(path) : path \in NonEmptySeq(STRING)}

\* Operations with their string or their number, and with a place in the pool.
RawOp    == [code : Literals, operand : Names] \cup [code : Codes \ Literals, operand : Nat]
Compiled == [pool : Seq(Names), ops : Seq([code : Codes, operand : Int]), fields : Seq(Names)]

Interns(w) == IF w = RootLiteral THEN <<>> ELSE w

\* What op of a program with that pool stands for.
StandsFor(pool, op, raw) ==
  /\ op.code = raw.code
  /\ IF raw.code \in Literals
     THEN op.operand \in 0 .. Len(pool) - 1 /\ pool[op.operand + 1] = Interns(raw.operand)
     ELSE op.operand = raw.operand

Encodes(c, raw) ==
  Len(c.ops) = Len(raw) /\ \A j \in 1 .. Len(raw) : StandsFor(c.pool, c.ops[j], raw[j])

\* What has been interned stays where it is.
LEMMA PoolGrows ==
  ASSUME NEW pool \in Seq(Names), NEW w, NEW op, NEW raw, StandsFor(pool, op, raw)
  PROVE  StandsFor(Append(pool, w), op, raw)
  <1>1. /\ Len(pool) \in Nat /\ Len(Append(pool, w)) = Len(pool) + 1
        /\ \A i \in 1 .. Len(pool) : Append(pool, w)[i] = pool[i]
    <2>1. pool \in Seq(Names \cup {w})
      BY SeqMonotonic
    <2> QED BY <2>1, AppendProperties
  <1> DEFINE more == Append(pool, w)
  <1> HIDE DEF more
  <1>2. CASE raw.code \in Literals
    <2>1. op.code = raw.code /\ op.operand \in 0 .. Len(pool) - 1 /\ pool[op.operand + 1] = Interns(raw.operand)
      BY <1>2 DEF StandsFor
    <2>2. op.operand + 1 \in 1 .. Len(pool) /\ op.operand \in 0 .. Len(more) - 1
      BY <1>1, <2>1 DEF more
    <2>3. more[op.operand + 1] = pool[op.operand + 1]
      BY <1>1, <2>2 DEF more
    <2>4. StandsFor(more, op, raw)
      BY <1>2, <2>1, <2>2, <2>3 DEF StandsFor
    <2> QED BY <2>4 DEF more
  <1>3. CASE raw.code \notin Literals
    BY <1>3 DEF StandsFor
  <1> QED BY <1>2, <1>3

\* One more operation.
LEMMA EmittedStands ==
  ASSUME NEW c \in Compiled, NEW raw \in RawOp
  PROVE  /\ Emitted(c, raw) \in Compiled /\ Len(Emitted(c, raw).ops) = Len(c.ops) + 1
         /\ StandsFor(Emitted(c, raw).pool, Emitted(c, raw).ops[Len(c.ops) + 1], raw)
         /\ \A j \in 1 .. Len(c.ops) :
              /\ Emitted(c, raw).ops[j] = c.ops[j]
              /\ \A r : StandsFor(c.pool, c.ops[j], r) => StandsFor(Emitted(c, raw).pool, c.ops[j], r)
  <1>1. /\ c.pool \in Seq(Names) /\ c.ops \in Seq([code : Codes, operand : Int]) /\ c.fields \in Seq(Names)
        /\ c = [pool |-> c.pool, ops |-> c.ops, fields |-> c.fields]
    BY DEF Compiled
  <1>2. CASE raw.code \notin Literals
    <2>1. raw \in [code : Codes, operand : Int] /\ raw.code \in Codes \ Literals
      BY <1>2 DEF RawOp, Codes, Literals
    <2> DEFINE ops == Append(c.ops, raw)
    <2>2. Emitted(c, raw) = [pool |-> c.pool, ops |-> ops, fields |-> c.fields]
      BY <1>1, <1>2 DEF Emitted, Numbered, Literals
    <2>3. /\ ops \in Seq([code : Codes, operand : Int]) /\ Len(ops) = Len(c.ops) + 1
          /\ ops[Len(c.ops) + 1] = raw /\ \A j \in 1 .. Len(c.ops) : ops[j] = c.ops[j]
      BY <1>1, <2>1, AppendProperties
    <2>4. StandsFor(c.pool, raw, raw)
      BY <1>2 DEF StandsFor
    <2> HIDE DEF ops
    <2> QED BY <1>1, <2>2, <2>3, <2>4 DEF Compiled
  <1>3. CASE raw.code \in Literals
    <2> DEFINE str == Interns(raw.operand)
               pool == IF str \in ToSet(c.pool) THEN c.pool ELSE Append(c.pool, str)
               at == CHOOSE i \in DOMAIN pool : pool[i] = str
               op == Op(raw.code, at - 1)
               ops == Append(c.ops, op)
               fields == IF raw.code = "capture" THEN Append(c.fields, str) ELSE c.fields
    <2>1. Emitted(c, raw) = [pool |-> pool, ops |-> ops, fields |-> fields]
      BY <1>3, Zenon DEF Emitted, Interned, Interns, Literals
    <2>2. str \in Names
      <3>1. <<>> \in Names
        BY DEF Names, Word
      <3>2. raw.operand \in Names
        BY <1>3 DEF RawOp, Codes, Literals
      <3> QED BY <3>1, <3>2 DEF Interns
    <2> HIDE DEF str
    <2>3. pool \in Seq(Names) /\ \E i \in DOMAIN pool : pool[i] = str
      <3>1. CASE str \in ToSet(c.pool)
        BY <1>1, <3>1 DEF ToSet
      <3>2. CASE str \notin ToSet(c.pool)
        <4>1. pool = Append(c.pool, str)
          BY <3>2
        <4>2. /\ Append(c.pool, str) \in Seq(Names) /\ Len(Append(c.pool, str)) = Len(c.pool) + 1
              /\ Append(c.pool, str)[Len(c.pool) + 1] = str
          BY <1>1, <2>2, AppendProperties
        <4>3. Len(c.pool) + 1 \in DOMAIN Append(c.pool, str)
          <5> DEFINE more == Append(c.pool, str)
          <5>1. Len(c.pool) \in Nat
            BY <1>1
          <5>2. more \in Seq(Names) /\ Len(more) = Len(c.pool) + 1
            BY <4>2
          <5> HIDE DEF more
          <5>3. Len(c.pool) + 1 \in DOMAIN more
            BY <5>1, <5>2
          <5> QED BY <5>3 DEF more
        <4> QED BY <4>1, <4>2, <4>3
      <3> QED BY <3>1, <3>2
    <2>4. \A j \in 1 .. Len(c.ops) :
            \A r : StandsFor(c.pool, c.ops[j], r) => StandsFor(pool, c.ops[j], r)
      BY <1>1, PoolGrows
    <2> HIDE DEF pool
    <2>5. at \in 1 .. Len(pool) /\ pool[at] = str
      BY <2>3
    <2> HIDE DEF at
    <2>6. at - 1 \in 0 .. Len(pool) - 1 /\ (at - 1) + 1 = at
      BY <2>3, <2>5
    <2>7. op = [code |-> raw.code, operand |-> at - 1] /\ op \in [code : Codes, operand : Int]
      BY <1>3, <2>6 DEF Op, Codes, Literals
    <2>8. op.code = raw.code /\ op.operand = at - 1
      BY <2>7
    <2> HIDE DEF op
    <2>9. StandsFor(pool, op, raw)
      BY <1>3, <2>5, <2>6, <2>8 DEF StandsFor, str
    <2>10. /\ ops \in Seq([code : Codes, operand : Int]) /\ Len(ops) = Len(c.ops) + 1
           /\ ops[Len(c.ops) + 1] = op /\ \A j \in 1 .. Len(c.ops) : ops[j] = c.ops[j]
      BY <1>1, <2>7, AppendProperties
    <2>11. fields \in Seq(Names)
      BY <1>1, <2>2, AppendProperties
    <2> HIDE DEF ops, fields
    <2>12. Emitted(c, raw).pool = pool /\ Emitted(c, raw).ops = ops
      BY <2>1
    <2>13. Emitted(c, raw) \in Compiled
      BY <2>1, <2>3, <2>10, <2>11 DEF Compiled
    <2> QED BY <2>4, <2>9, <2>10, <2>12, <2>13
  <1> QED BY <1>2, <1>3

\* The program says what the operations of the template say.
LEMMA CompileEncodes ==
  ASSUME NEW t, RawOps(t) \in Seq(RawOp)
  PROVE  Compile(t) \in Compiled /\ Encodes(Compile(t), RawOps(t))
  <1> DEFINE raw   == RawOps(t)
             L     == Len(raw)
             start == [pool |-> <<>>, ops |-> <<>>, fields |-> <<>>]
             Next(j, c) == IF j \in 1 .. L THEN Emitted(c, raw[j]) ELSE c
             step  == [at \in Nat \X Compiled |-> Next(at[1], at[2])]
             Body(f) == [j \in 0 .. L |-> IF j = 0 THEN start ELSE Emitted(f[j - 1], raw[j])]
             After == CHOOSE f : f = Body(f)
  <1>1. L \in Nat /\ \A j \in 1 .. L : raw[j] \in RawOp
    OBVIOUS
  <1>2. Compile(t) = After[L]
    BY Zenon DEF Compile
  <1> HIDE DEF raw
  <1>3. start \in Compiled
    <2>1. <<>> \in Seq(Names) /\ <<>> \in Seq([code : Codes, operand : Int])
      OBVIOUS
    <2> QED BY <2>1 DEF Compiled
  <1>4. start.ops = <<>>
    OBVIOUS
  <1> HIDE DEF start
  <1>5. \A c \in Compiled, j \in 1 .. L : Emitted(c, raw[j]) \in Compiled
    BY <1>1, EmittedStands
  <1>6. step \in [Nat \X Compiled -> Compiled]
    <2>1. \A j \in Nat, c \in Compiled : Next(j, c) \in Compiled
      BY <1>5
    <2> HIDE DEF Next
    <2> QED BY <2>1
  <1>7. PICK f \in [0 .. L -> Compiled] : Recursion(f, 0, L, start, step)
    <2> HIDE DEF step, L
    <2>1. 0 \in Nat
      OBVIOUS
    <2> QED BY <1>1, <1>3, <1>6, <2>1, RecursionExists
  <1>8. f = Body(f)
    <2>1. ASSUME NEW j \in 0 .. L
          PROVE  f[j] = IF j = 0 THEN start ELSE Emitted(f[j - 1], raw[j])
      <3>1. CASE j = 0
        <4> HIDE DEF step, L
        <4> QED BY <1>7, <3>1 DEF Recursion
      <3>2. CASE j # 0
        <4>1. j \in 1 .. L /\ f[j] = step[<<j, f[j - 1]>>] /\ <<j, f[j - 1]>> \in Nat \X Compiled
          <5> HIDE DEF step, L
          <5> QED BY <1>1, <1>7, <3>2 DEF Recursion
        <4>2. step[<<j, f[j - 1]>>] = Next(j, f[j - 1])
          <5> HIDE DEF Next
          <5> QED BY <4>1
        <4> QED BY <3>2, <4>1, <4>2
      <3> QED BY <3>1, <3>2
    <2>2. f = [j \in 0 .. L |-> f[j]]
      OBVIOUS
    <2> HIDE DEF L
    <2> QED BY <2>1, <2>2
  <1>9. After = Body(After)
    <2> HIDE DEF Body
    <2> QED BY <1>8, Zenon
  <1> HIDE DEF After, L
  <1>10. \A j \in 0 .. L : After[j] = IF j = 0 THEN start ELSE Emitted(After[j - 1], raw[j])
    <2>1. \A j \in 0 .. L : After[j] = Body(After)[j]
      <3> HIDE DEF Body
      <3> QED BY <1>9
    <2> QED BY <2>1
  <1> DEFINE Sofar(k) == /\ After[k] \in Compiled /\ Len(After[k].ops) = k
                         /\ \A j \in 1 .. k : StandsFor(After[k].pool, After[k].ops[j], raw[j])
             good == {k \in Nat : k <= L => Sofar(k)}
  <1>11. 0 \in good
    <2>1. Sofar(0)
      <3>1. After[0] = start
        BY <1>1, <1>10
      <3>2. Len(<<>>) = 0
        OBVIOUS
      <3> QED BY <1>3, <1>4, <3>1, <3>2
    <2> HIDE DEF Sofar
    <2> QED BY <2>1
  <1>12. ASSUME NEW k \in Nat, k > 0, k - 1 \in good PROVE k \in good
    <2> SUFFICES ASSUME k <= L PROVE Sofar(k)
      OBVIOUS
    <2>1. k \in 1 .. L /\ k - 1 <= L /\ k - 1 \in Nat /\ k \in 0 .. L /\ k # 0
      BY <1>1, <1>12
    <2>2. Sofar(k - 1)
      <3> HIDE DEF Sofar
      <3> QED BY <1>12, <2>1
    <2> DEFINE c == After[k - 1]
               e == Emitted(c, raw[k])
    <2>3. After[k] = e
      BY <1>10, <2>1
    <2>4. raw[k] \in RawOp /\ c \in Compiled /\ Len(c.ops) = k - 1
      BY <1>1, <2>1, <2>2
    <2>5. /\ e \in Compiled /\ Len(e.ops) = Len(c.ops) + 1
          /\ StandsFor(e.pool, e.ops[Len(c.ops) + 1], raw[k])
          /\ \A j \in 1 .. Len(c.ops) :
               /\ e.ops[j] = c.ops[j]
               /\ \A r : StandsFor(c.pool, c.ops[j], r) => StandsFor(e.pool, c.ops[j], r)
      BY <2>4, EmittedStands
    <2>6. \A j \in 1 .. k - 1 : StandsFor(c.pool, c.ops[j], raw[j])
      BY <2>2
    <2> HIDE DEF e, c
    <2>7. Len(c.ops) + 1 = k /\ Len(e.ops) = k
      BY <2>4, <2>5
    <2>8. ASSUME NEW j \in 1 .. k PROVE StandsFor(e.pool, e.ops[j], raw[j])
      <3>1. CASE j = k
        BY <2>5, <2>7, <3>1
      <3>2. CASE j # k
        <4>1. j \in 1 .. k - 1 /\ j \in 1 .. Len(c.ops)
          BY <2>1, <2>4, <3>2
        <4> QED BY <2>5, <2>6, <4>1
      <3> QED BY <3>1, <3>2
    <2> QED BY <2>3, <2>5, <2>7, <2>8
  <1>13. Sofar(L)
    <2> HIDE DEF good, Sofar
    <2>1. 0 \in Nat
      OBVIOUS
    <2>2. L \in good
      BY <1>1, <1>11, <1>12, <2>1, Climbing
    <2> QED BY <1>1, <2>2 DEF good
  <1>14. After[L] \in Compiled /\ Encodes(After[L], raw)
    BY <1>13 DEF Encodes, L
  <1> QED BY <1>2, <1>14 DEF raw

\* Words joined by a word are a word.
LEMMA JoinIsWord ==
  ASSUME NEW pieces \in NonEmptySeq(Word), NEW sep \in Word
  PROVE  JoinWith(pieces, sep) \in Word
  <1> DEFINE L == Len(pieces)
             Step(i, b) == IF i \in 1 .. L THEN b \o sep \o pieces[i] ELSE b
             step == [at \in Nat \X Word |-> Step(at[1], at[2])]
             Body(f) == [i \in DOMAIN pieces |-> IF i = 1 THEN pieces[1] ELSE f[i - 1] \o sep \o pieces[i]]
             upto == CHOOSE f : f = Body(f)
  <1>1. JoinWith(pieces, sep) = upto[L]
    BY Zenon DEF JoinWith
  <1>2. /\ L \in Nat /\ L >= 1 /\ DOMAIN pieces = 1 .. L
        /\ \A i \in 1 .. L : pieces[i] \in Word
    <2>1. pieces \in Seq(Word) /\ pieces # <<>>
      BY DEF NonEmptySeq
    <2> QED BY <2>1, EmptySeq
  <1>3. \A b \in Word, i \in 1 .. L : b \o sep \o pieces[i] \in Word
    <2> SUFFICES ASSUME NEW b \in Word, NEW i \in 1 .. L PROVE b \o sep \o pieces[i] \in Word
      OBVIOUS
    <2> DEFINE p == pieces[i]
    <2>1. p \in Word
      BY <1>2
    <2> HIDE DEF p
    <2>2. b \o sep \in Word
      BY ConcatProperties DEF Word
    <2>3. (b \o sep) \o p \in Word
      BY <2>1, <2>2, ConcatProperties DEF Word
    <2> QED BY <2>3 DEF p
  <1>4. step \in [Nat \X Word -> Word]
    <2>1. \A i \in Nat, b \in Word : Step(i, b) \in Word
      BY <1>3
    <2> HIDE DEF Step
    <2> QED BY <2>1
  <1>5. pieces[1] \in Word /\ 1 \in Nat
    BY <1>2
  <1>6. PICK f \in [1 .. L -> Word] : Recursion(f, 1, L, pieces[1], step)
    <2> HIDE DEF step, L
    <2> QED BY <1>2, <1>4, <1>5, RecursionExists
  <1>7. f = Body(f)
    <2>1. ASSUME NEW i \in 1 .. L
          PROVE  f[i] = IF i = 1 THEN pieces[1] ELSE f[i - 1] \o sep \o pieces[i]
      <3>1. CASE i = 1
        <4> HIDE DEF step, L
        <4> QED BY <1>6, <3>1 DEF Recursion
      <3>2. CASE i # 1
        <4>1. f[i] = step[<<i, f[i - 1]>>] /\ <<i, f[i - 1]>> \in Nat \X Word
          <5> HIDE DEF step, L
          <5> QED BY <1>2, <1>6, <3>2 DEF Recursion
        <4>2. step[<<i, f[i - 1]>>] = Step(i, f[i - 1])
          <5> HIDE DEF Step
          <5> QED BY <4>1
        <4> QED BY <3>2, <4>1, <4>2
      <3> QED BY <3>1, <3>2
    <2>2. f = [i \in 1 .. L |-> f[i]]
      OBVIOUS
    <2> HIDE DEF L
    <2> QED BY <1>2, <2>1, <2>2
  <1>8. upto = Body(upto)
    <2> HIDE DEF Body
    <2> QED BY <1>7, Zenon
  <1> HIDE DEF upto
  <1>9. \A i \in 1 .. L : upto[i] = IF i = 1 THEN pieces[1] ELSE upto[i - 1] \o sep \o pieces[i]
    <2>1. \A i \in 1 .. L : upto[i] = Body(upto)[i]
      <3> HIDE DEF Body
      <3> QED BY <1>8
    <2> HIDE DEF L
    <2> QED BY <1>2, <2>1
  <1> HIDE DEF L
  <1>10. \A i \in 1 .. L : upto[i] \in Word
    <2>1. 1 \in 1 .. L /\ upto[1] \in Word
      BY <1>2, <1>5, <1>9
    <2>2. \A i \in 1 .. L : i # 1 /\ upto[i - 1] \in Word => upto[i] \in Word
      BY <1>3, <1>9
    <2> QED BY <1>2, <1>5, <2>1, <2>2, RecursionTyped
  <1> QED BY <1>1, <1>2, <1>10

LEMMA FieldNameIsWord ==
  ASSUME NEW path \in NonEmptySeq(STRING)
  PROVE  FieldName(path) \in Word
  <1> DEFINE n      == Len(path)
             pieces == [i \in DOMAIN path |-> <<path[i]>>]
  <1>1. n \in Nat /\ n # 0 /\ DOMAIN path = 1 .. n /\ \A i \in 1 .. n : path[i] \in STRING
    BY EmptySeq DEF NonEmptySeq
  <1>2. \A i \in 1 .. n : <<path[i]>> \in Word
    BY <1>1, OneWord, Zenon
  <1>3. pieces \in [1 .. n -> Word]
    <2> HIDE DEF n
    <2> QED BY <1>1, <1>2
  <1>4. pieces \in Seq(Word) /\ Len(pieces) = n
    <2> HIDE DEF n, pieces
    <2> QED BY <1>1, <1>3, Mapped
  <1>5. pieces \in NonEmptySeq(Word)
    <2>1. Len(<<>>) = 0
      OBVIOUS
    <2> HIDE DEF n, pieces
    <2> QED BY <1>1, <1>4, <2>1, Zenon DEF NonEmptySeq
  <1>6. <<".">> \in Word
    <2>1. "." \in STRING
      BY HttpRuleAssumption DEF Punctuation
    <2> QED BY <2>1, OneWord, Zenon
  <1> HIDE DEF pieces
  <1>7. JoinWith(pieces, <<".">>) \in Word
    BY <1>5, <1>6, JoinIsWord
  <1> QED BY <1>7, Zenon DEF FieldName, pieces

LEMMA LeafCompiles ==
  ASSUME NEW s \in LeafSegment
  PROVE  CompileLeaf(s) \in RawOp
  <1>1. s.kind \in {"star", "dstar", "lit"} /\ s.lit \in Word
    BY DEF LeafSegment
  <1>2. s.lit \in Names /\ 0 \in Nat
    BY <1>1 DEF Names
  <1>3. /\ "push" \in Codes \ Literals /\ "pushM" \in Codes \ Literals /\ "litPush" \in Literals
    BY DEF Codes, Literals
  <1>4. \A c \in Codes \ Literals, n \in Nat : Op(c, n) \in RawOp
    BY DEF RawOp, Op
  <1>5. \A c \in Literals, w \in Names : Op(c, w) \in RawOp
    BY DEF RawOp, Op
  <1>6. \/ s.kind = "star" /\ CompileLeaf(s) = Op("push", 0)
        \/ s.kind = "dstar" /\ CompileLeaf(s) = Op("pushM", 0)
        \/ s.kind = "lit" /\ CompileLeaf(s) = Op("litPush", s.lit)
    BY <1>1 DEF CompileLeaf
  <1> QED BY <1>2, <1>3, <1>4, <1>5, <1>6, Zenon

LEMMA SegmentCompiles ==
  ASSUME NEW s \in ParsedSegment
  PROVE  CompileSegment(s) \in Seq(RawOp)
  <1>1. CASE s \in LeafSegment
    <2>1. s.kind # "var"
      BY <1>1 DEF LeafSegment
    <2>2. CompileSegment(s) = <<CompileLeaf(s)>>
      BY <2>1, Zenon DEF CompileSegment
    <2> DEFINE op == CompileLeaf(s)
    <2>3. op \in RawOp
      BY <1>1, LeafCompiles
    <2> HIDE DEF op
    <2>4. <<op>> \in Seq(RawOp)
      BY <2>3
    <2> QED BY <2>2, <2>4, Zenon DEF op
  <1>2. CASE s \in VarSegment
    <2>1. s.kind = "var" /\ s.path \in NonEmptySeq(STRING) /\ s.segs \in NonEmptySeq(LeafSegment)
      BY <1>2 DEF VarSegment
    <2> DEFINE m  == Len(s.segs)
               ms == [i \in DOMAIN s.segs |-> CompileLeaf(s.segs[i])]
               w  == FieldName(s.path)
               two == <<Op("concatN", m), Op("capture", w)>>
    <2>2. m \in Nat /\ DOMAIN s.segs = 1 .. m /\ \A i \in 1 .. m : s.segs[i] \in LeafSegment
      BY <2>1 DEF NonEmptySeq
    <2>3. ms \in [1 .. m -> RawOp]
      <3>1. \A i \in DOMAIN s.segs : CompileLeaf(s.segs[i]) \in RawOp
        BY <2>2, LeafCompiles, Zenon
      <3> QED BY <2>2, <3>1, Zenon
    <2>4. w \in Names
      BY <2>1, Zenon DEF Names
    <2>5. Op("concatN", m) \in RawOp /\ Op("capture", w) \in RawOp
      <3>1. "concatN" \in Codes \ Literals /\ "capture" \in Literals
        BY DEF Codes, Literals
      <3> HIDE DEF m, w
      <3> QED BY <2>2, <2>4, <3>1 DEF RawOp, Op
    <2>6. CompileSegment(s) = ms \o two
      BY <2>1, Zenon DEF CompileSegment
    <2> HIDE DEF ms, m, w
    <2>7. ms \in Seq(RawOp)
      BY <2>2, <2>3, Mapped
    <2>8. two \in Seq(RawOp)
      BY <2>5
    <2> HIDE DEF two
    <2>9. ms \o two \in Seq(RawOp)
      BY <2>7, <2>8, ConcatProperties
    <2> QED BY <2>6, <2>9
  <1> QED BY <1>1, <1>2 DEF ParsedSegment

LEMMA RawOpsAreOps ==
  ASSUME NEW t \in WellParsed
  PROVE  RawOps(t) \in Seq(RawOp)
  <1> DEFINE L     == Len(t.segs)
             parts == [i \in DOMAIN t.segs |-> CompileSegment(t.segs[i])]
             Q     == Seq(RawOp)
  <1>1. L \in Nat /\ DOMAIN t.segs = 1 .. L /\ \A i \in 1 .. L : t.segs[i] \in ParsedSegment
    <2>1. t.segs \in Seq(ParsedSegment)
      BY DEF WellParsed, NonEmptySeq
    <2> QED BY <2>1
  <1>2. parts \in [1 .. L -> Q]
    <2>1. \A i \in DOMAIN t.segs : CompileSegment(t.segs[i]) \in Q
      BY <1>1, SegmentCompiles, Zenon
    <2> QED BY <1>1, <2>1, Zenon
  <1>3. RawOps(t) = FlattenSeq(parts)
    BY Zenon DEF RawOps
  <1> HIDE DEF parts, L, Q
  <1>4. parts \in Seq(Q)
    BY <1>1, <1>2, Mapped
  <1>5. FlattenSeq(parts) \in Seq(RawOp)
    BY <1>4, FlattenIsSeq DEF Q
  <1> QED BY <1>3, <1>5, Zenon

\* The names of the fields that the parameters of a template are for.
LEMMA FieldsAreWords ==
  ASSUME NEW tmpl \in Word, Parse(tmpl).ok
  PROVE  Compile(Parse(tmpl)).fields \in Seq(Word)
  <1> DEFINE t == Parse(tmpl)
             c == Compile(t)
  <1>1. t \in WellParsed
    BY ParseIsShaped
  <1> HIDE DEF t
  <1>2. c \in Compiled
    BY <1>1, RawOpsAreOps, CompileEncodes
  <1> HIDE DEF c
  <1>3. c.fields \in Seq(Names)
    BY <1>2 DEF Compiled
  <1>4. Names = Word
    BY FieldNameIsWord DEF Names
  <1>5. c.fields \in Seq(Word)
    BY <1>3, <1>4, Zenon
  <1> QED BY <1>5, Zenon DEF c, t
==============================================================================
