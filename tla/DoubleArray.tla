---------------------------- MODULE DoubleArray ----------------------------
(***************************************************************************)
(* The trie of field paths in two arrays (utilities/trie.go) and the query  *)
(* filter made of it (binding/types.go).  Cells outside of the arrays hold  *)
(* 0, as those the code has not grown into do.                             *)
(***************************************************************************)
EXTENDS Integers, Sequences, SequencesExt, TLC

Cell(array, i) == IF i \in DOMAIN array THEN array[i] ELSE 0

\* registerTokens: tokens are numbered as they come.
Tokens(seqs)        == FoldLeft(LAMBDA acc, t : IF t \in ToSet(acc) THEN acc ELSE Append(acc, t),
                                <<>>, FlattenSeq(seqs))
CodeOf(tokens, t)   == (CHOOSE i \in DOMAIN tokens : tokens[i] = t) - 1
Encoded(tokens, s)  == Append([i \in DOMAIN s |-> CodeOf(tokens, s[i])], Len(tokens))

\* byLex
Less(s, t) ==
  \E k \in 1 .. Len(t) :
    /\ \A i \in 1 .. k - 1 : i <= Len(s) /\ s[i] = t[i]
    /\ k > Len(s) \/ s[k] < t[k]

\* The least base at which no cell of a child is taken.
FreeBase(check, codes) ==
  LET Free(i) == \A c \in codes : Cell(check, i + c) = 0
      far     == 1 + Cardinality(DOMAIN check) * Cardinality(codes)
  IN  CHOOSE i \in 1 .. far : Free(i) /\ \A k \in 1 .. i - 1 : ~Free(k)

\* addSeqs for the rows that agree on their first col values, at cell pos.
\* children compares with a lastVal that it never sets: every row is a child
\* of its own, also where rows share a value.
RECURSIVE AddSeqs(_, _, _, _, _)
AddSeqs(da, rows, col, pos, terminator) ==
  LET codes == {rows[i][col] : i \in DOMAIN rows}
      base  == FreeBase(da.check, codes)
      here  == [base  |-> (pos :> base) @@ da.base,
                check |-> [j \in {base + c : c \in codes} |-> pos + 1] @@ da.check]
  IN  FoldLeft(LAMBDA acc, row : IF row[col] = terminator THEN acc
                                 ELSE AddSeqs(acc, <<row>>, col + 1, base + row[col], terminator),
               here, rows)

NewDoubleArray(seqs) ==
  LET tokens == Tokens(seqs)
      rows   == SortSeq([i \in DOMAIN seqs |-> Encoded(tokens, seqs[i])], Less)
  IN  IF seqs = <<>> THEN [tokens |-> <<>>, base |-> <<>>, check |-> <<>>]
      ELSE LET da == AddSeqs([base |-> <<>>, check |-> <<>>], rows, 1, 0, Len(tokens))
           IN  [tokens |-> tokens, base |-> da.base, check |-> da.check]

\* The cell the walk along a sequence ends in.
Walk(da, seq) ==
  FoldLeft(LAMBDA s, t :
             LET j == Cell(da.base, s.at) + CodeOf(da.tokens, t)
             IN  IF s.stopped \/ t \notin ToSet(da.tokens) THEN [s EXCEPT !.stopped = TRUE]
                 ELSE IF Cell(da.check, j) # s.at + 1 THEN [s EXCEPT !.stopped = TRUE]
                 ELSE [s EXCEPT !.at = j],
           [at |-> 0, stopped |-> FALSE], seq).at

HasCommonPrefix(da, seq) ==
  LET at == Walk(da, seq)
  IN  da.tokens # <<>> /\ Cell(da.check, Cell(da.base, at) + Len(da.tokens)) = at + 1

\* The empty path, which is the whole body, is left out.
NewQueryFilter(paths) == NewDoubleArray(SelectSeq(paths, LAMBDA p : p # <<>>))

-----------------------------------------------------------------------------
\* What HasCommonPrefix is documented to say.
SomePrefix(paths, seq) == \E i \in DOMAIN paths : paths[i] # <<>> /\ IsPrefix(paths[i], seq)
=============================================================================
