--------------------------- MODULE RecursionLemmas ---------------------------
(***************************************************************************)
(* Induction over the naturals by least elements, functions defined by      *)
(* recursion over an interval, and what FlattenSeq computes.  The proofs    *)
(* about tries, templates and programs rest on these.                       *)
(***************************************************************************)
EXTENDS Integers, SequencesExt, SequenceTheorems, WellFoundedInduction, TLAPS

\* A set of naturals has a least element.
LEMMA LeastElement ==
  ASSUME NEW T \in SUBSET Nat, T # {}
  PROVE  \E x \in T : \A y \in T : x <= y
  <1>1. PICK x \in T : \A y \in T : ~ (<<y, x>> \in OpToRel(<, Nat))
    BY WFMin, NatLessThanWellFounded
  <1>2. \A y, z \in Nat : <<y, z>> \in OpToRel(<, Nat) <=> y < z
    BY DEF OpToRel
  <1>3. ASSUME NEW y \in T PROVE x <= y
    <2>1. x \in Nat /\ y \in Nat
      OBVIOUS
    <2>2. ~ (y < x)
      BY <1>1, <1>2, <2>1, Zenon
    <2> QED BY <2>1, <2>2
  <1> QED BY <1>3

\* A set of naturals from k on that has k, and i with every i - 1, has all.
LEMMA Climbing ==
  ASSUME NEW k \in Nat, NEW T, k \in T,
         \A i \in Nat : i > k /\ i - 1 \in T => i \in T
  PROVE  \A i \in Nat : i >= k => i \in T
  <1> DEFINE missing == {i \in Nat : i >= k /\ i \notin T}
  <1>1. CASE missing = {}
    BY <1>1
  <1>2. CASE missing # {}
    <2>1. PICK x \in missing : \A y \in missing : x <= y
      BY <1>2, LeastElement
    <2>2. x # k
      OBVIOUS
    <2>3. x - 1 \notin missing
      BY <2>1
    <2> QED BY <2>2, <2>3
  <1> QED BY <1>1, <1>2

\* f is base at k, and goes on by step up to L.
Recursion(f, k, L, base, step) ==
  \A i \in k .. L : f[i] = IF i = k THEN base ELSE step[<<i, f[i - 1]>>]

\* What is defined from k on, each value from the one before, exists ...
LEMMA RecursionExists ==
  ASSUME NEW k \in Nat, NEW L \in Nat, NEW V, NEW base \in V,
         NEW step \in [Nat \X V -> V]
  PROVE  \E f \in [k .. L -> V] : Recursion(f, k, L, base, step)
  <1> USE DEF Recursion
  <1> DEFINE Rec(f, n) == Recursion(f, k, n, base, step)
             defined   == {n \in Nat : \E f \in [k .. n -> V] : Rec(f, n)}
  <1>1. k \in defined
    <2>1. [i \in k .. k |-> base] \in [k .. k -> V] /\ Rec([i \in k .. k |-> base], k)
      OBVIOUS
    <2> HIDE DEF Rec
    <2> QED BY <2>1
  <1>2. ASSUME NEW n \in Nat, n > k, n - 1 \in defined PROVE n \in defined
    <2>1. PICK f \in [k .. n - 1 -> V] : Rec(f, n - 1)
      BY <1>2
    <2>2. f[n - 1] \in V
      BY <1>2
    <2> DEFINE last == step[<<n, f[n - 1]>>]
               g    == [i \in k .. n |-> IF i = n THEN last ELSE f[i]]
    <2>3. last \in V
      BY <2>2
    <2> HIDE DEF last
    <2>4. g \in [k .. n -> V]
      BY <1>2, <2>3
    <2>5. ASSUME NEW i \in k .. n
          PROVE  g[i] = IF i = k THEN base ELSE step[<<i, g[i - 1]>>]
      <3>1. CASE i = n
        <4>1. g[n] = last /\ g[n - 1] = f[n - 1]
          BY <1>2
        <4> HIDE DEF g
        <4> QED BY <1>2, <3>1, <4>1 DEF last
      <3>2. CASE i # n
        <4>1. i \in k .. n - 1 /\ g[i] = f[i]
          BY <1>2, <3>2
        <4>2. i # k => g[i - 1] = f[i - 1]
          BY <1>2, <3>2
        <4> QED BY <2>1, <4>1, <4>2
      <3> QED BY <3>1, <3>2
    <2> HIDE DEF g
    <2> QED BY <2>4, <2>5
  <1> HIDE DEF defined
  <1>3. L >= k => L \in defined
    BY <1>1, <1>2, Climbing
  <1>4. CASE L >= k
    BY <1>3, <1>4 DEF defined
  <1>5. CASE ~(L >= k)
    <2>1. k .. L = {}
      BY <1>5
    <2>2. [i \in k .. L |-> base] \in [k .. L -> V]
      OBVIOUS
    <2> QED BY <2>1, <2>2
  <1> QED BY <1>4, <1>5

\* ... and is unique.
Agree(f, g, k, L) == \A i \in k .. L : f[i] = g[i]

LEMMA RecursionUnique ==
  ASSUME NEW k \in Nat, NEW L \in Nat, NEW f, NEW g, f[k] = g[k],
         \A i \in k .. L : i # k /\ f[i - 1] = g[i - 1] => f[i] = g[i]
  PROVE  Agree(f, g, k, L)
  <1> USE DEF Agree
  <1> DEFINE same == {i \in Nat : i <= L => f[i] = g[i]}
  <1>1. k \in same
    OBVIOUS
  <1>2. ASSUME NEW i \in Nat, i > k, i - 1 \in same PROVE i \in same
    BY <1>2
  <1>3. \A i \in Nat : i >= k => i \in same
    <2> HIDE DEF same
    <2> QED BY <1>1, <1>2, Climbing
  <1> QED BY <1>3

\* What keeps to V from each value to the next has all its values in V.
LEMMA RecursionTyped ==
  ASSUME NEW k \in Nat, NEW L \in Nat, NEW V, NEW f, f[k] \in V,
         \A i \in k .. L : i # k /\ f[i - 1] \in V => f[i] \in V
  PROVE  \A i \in k .. L : f[i] \in V
  <1> DEFINE typed == {i \in Nat : i <= L => f[i] \in V}
  <1>1. k \in typed
    OBVIOUS
  <1>2. ASSUME NEW i \in Nat, i > k, i - 1 \in typed PROVE i \in typed
    BY <1>2
  <1>3. \A i \in Nat : i >= k => i \in typed
    <2> HIDE DEF typed
    <2> QED BY <1>1, <1>2, Climbing
  <1> QED BY <1>3

\* f is base at first, and goes on by step over L elements.
IsFold(f, L, base, step) == f = [i \in 0 .. L |-> IF i = 0 THEN base ELSE step[<<i, f[i - 1]>>]]

\* A fold that has its values in V exists.
LEMMA FoldExists ==
  ASSUME NEW L \in Nat, NEW V, NEW base \in V, NEW step \in [(1 .. L) \X V -> V]
  PROVE  \E f \in [0 .. L -> V] : IsFold(f, L, base, step)
  <1> DEFINE more == [x \in Nat \X V |-> IF x[1] \in 1 .. L THEN step[x] ELSE base]
  <1>1. more \in [Nat \X V -> V]
    <2>1. ASSUME NEW x \in Nat \X V, x[1] \in 1 .. L PROVE step[x] \in V
      <3>1. x \in (1 .. L) \X V
        BY <2>1
      <3> QED BY <3>1
    <2> QED BY <2>1
  <1>2. \A i \in 1 .. L, v \in V : more[<<i, v>>] = step[<<i, v>>]
    OBVIOUS
  <1> HIDE DEF more
  <1>3. PICK f \in [0 .. L -> V] : Recursion(f, 0, L, base, more)
    <2>1. 0 \in Nat
      OBVIOUS
    <2> QED BY <1>1, <2>1, RecursionExists
  <1>4. ASSUME NEW i \in 0 .. L
        PROVE  f[i] = IF i = 0 THEN base ELSE step[<<i, f[i - 1]>>]
    <2>1. CASE i = 0
      BY <1>3, <2>1 DEF Recursion
    <2>2. CASE i # 0
      <3>1. f[i] = more[<<i, f[i - 1]>>]
        BY <1>3, <2>2 DEF Recursion
      <3>2. i \in 1 .. L /\ f[i - 1] \in V
        BY <2>2
      <3> QED BY <1>2, <2>2, <3>1, <3>2
    <2> QED BY <2>1, <2>2
  <1>5. f = [i \in 0 .. L |-> f[i]]
    OBVIOUS
  <1> QED BY <1>4, <1>5 DEF IsFold

\* The values of f after place i.
Later(f, i, L, default) == [j \in 1 .. L |-> IF j > i THEN f[j] ELSE default]

\* f is at each place what step makes of the places after it.
Backward(f, L, default, step) ==
  \A i \in 1 .. L : f[i] = step[<<i, Later(f, i, L, default)>>]

\* What is defined at each place from the places after it exists.
LEMMA BackwardExists ==
  ASSUME NEW L \in Nat, NEW V, NEW d \in V, NEW step \in [(1 .. L) \X [1 .. L -> V] -> V]
  PROVE  \E f \in [1 .. L -> V] : Backward(f, L, d, step)
  <1> DEFINE At(f, i) == step[<<i, Later(f, i, L, d)>>]
             Good(f, n) == \A i \in 1 .. L : i > L - n => f[i] = At(f, i)
             T == {n \in Nat : n <= L => \E f \in [1 .. L -> V] : Good(f, n)}
  <1>1. 0 \in T
    <2>2. [i \in 1 .. L |-> d] \in [1 .. L -> V]
      OBVIOUS
    <2>3. ASSUME NEW f PROVE Good(f, 0)
      OBVIOUS
    <2> HIDE DEF Good
    <2> QED BY <2>2, <2>3
  <1>2. ASSUME NEW n \in Nat, n > 0, n - 1 \in T PROVE n \in T
    <2> SUFFICES ASSUME n <= L PROVE \E g \in [1 .. L -> V] : Good(g, n)
      OBVIOUS
    <2>1. PICK f \in [1 .. L -> V] : Good(f, n - 1)
      <3> HIDE DEF Good
      <3>1. n - 1 <= L
        BY <1>2
      <3> QED BY <1>2, <3>1
    <2> DEFINE at == L - n + 1
               g  == [f EXCEPT ![at] = At(f, at)]
    <2>2. at \in 1 .. L
      BY <1>2
    <2>3. <<at, Later(f, at, L, d)>> \in (1 .. L) \X [1 .. L -> V]
      BY <2>2 DEF Later
    <2>4. At(f, at) \in V
      BY <2>3
    <2> HIDE DEF At
    <2>5. g \in [1 .. L -> V] /\ g[at] = At(f, at) /\ \A j \in 1 .. L : j # at => g[j] = f[j]
      BY <2>2, <2>4
    <2> HIDE DEF g
    <2>6. ASSUME NEW i \in 1 .. L, i > L - n PROVE g[i] = At(g, i)
      <3>1. At(f, i) = At(g, i)
        <4>1. \A j \in 1 .. L : j > i => f[j] = g[j]
          BY <2>5, <2>6, <1>2
        <4>2. Later(f, i, L, d) = Later(g, i, L, d)
          BY <4>1 DEF Later
        <4> QED BY <4>2 DEF At
      <3>2. CASE i = at
        BY <2>5, <3>1, <3>2
      <3>3. CASE i # at
        <4>1. i > L - (n - 1)
          BY <1>2, <2>6, <3>3
        <4>2. f[i] = At(f, i) /\ g[i] = f[i]
          BY <2>1, <2>5, <3>3, <4>1
        <4> QED BY <3>1, <4>2
      <3> QED BY <3>2, <3>3
    <2> QED BY <2>5, <2>6
  <1>3. L \in T
    <2> HIDE DEF T
    <2>1. 0 \in Nat
      OBVIOUS
    <2> QED BY <1>1, <1>2, <2>1, Climbing
  <1>4. PICK f \in [1 .. L -> V] : Good(f, L)
    <2> HIDE DEF Good
    <2> QED BY <1>3
  <1>5. \A i \in 1 .. L : i > L - L
    OBVIOUS
  <1>6. \A i \in 1 .. L : f[i] = At(f, i)
    <2> HIDE DEF At
    <2> QED BY <1>4, <1>5
  <1>7. Backward(f, L, d, step)
    BY <1>6, Zenon DEF Backward
  <1> QED BY <1>7

\* From the last place down to the first.
LEMMA Descending ==
  ASSUME NEW L \in Nat, NEW T,
         \A i \in 1 .. L : (\A j \in 1 .. L : j > i => j \in T) => i \in T
  PROVE  \A i \in 1 .. L : i \in T
  <1> DEFINE S == {n \in Nat : \A i \in 1 .. L : i > L - n => i \in T}
  <1>1. 0 \in S
    OBVIOUS
  <1>2. ASSUME NEW n \in Nat, n > 0, n - 1 \in S PROVE n \in S
    <2> SUFFICES ASSUME NEW i \in 1 .. L, i > L - n PROVE i \in T
      OBVIOUS
    <2>1. \A j \in 1 .. L : j > i => j \in T
      BY <1>2
    <2> QED BY <2>1
  <1>3. L \in S
    <2> HIDE DEF S
    <2>1. 0 \in Nat
      OBVIOUS
    <2> QED BY <1>1, <1>2, <2>1, Climbing
  <1> QED BY <1>3

-----------------------------------------------------------------------------
(* FlattenSeq.                                                             *)

\* The sequences before place i, joined; the last of these is all of them.
PrefixJoins(s, f) ==
  /\ f[0] = <<>> /\ \A i \in 1 .. Len(s) : f[i] = f[i - 1] \o s[i]
  /\ FlattenSeq(s) = f[Len(s)]

LEMMA FlattenUnfolds ==
  ASSUME NEW S, NEW s \in Seq(Seq(S))
  PROVE  \E f \in [0 .. Len(s) -> Seq(S)] : PrefixJoins(s, f)
  <1> DEFINE L == Len(s)
  <1>0. L \in Nat /\ \A i \in 1 .. L : s[i] \in Seq(S)
    OBVIOUS
  <1>1. CASE L = 0
    <2> DEFINE f == [i \in 0 .. L |-> <<>>]
    <2>1. s = <<>>
      BY <1>1, EmptySeq
    <2>2. FlattenSeq(s) = <<>>
      BY <1>1, <2>1 DEF FlattenSeq
    <2>3. f[0] = <<>> /\ f[L] = <<>> /\ f \in [0 .. L -> Seq(S)]
      BY <1>1
    <2>4. \A i \in 1 .. L : FALSE
      BY <1>1
    <2> HIDE DEF f
    <2> QED BY <2>2, <2>3, <2>4 DEF PrefixJoins
  <1>2. CASE L # 0
    <2> DEFINE Step(i, b) == IF i \in 1 .. L THEN b \o s[i] ELSE b
               step == [at \in Nat \X Seq(S) |-> Step(at[1], at[2])]
               Body(f) == [i \in 1 .. L |-> IF i = 1 THEN s[i] ELSE f[i - 1] \o s[i]]
               flatten == CHOOSE f : f = Body(f)
    <2>1. FlattenSeq(s) = flatten[L]
      BY <1>2, Zenon DEF FlattenSeq
    <2>2. step \in [Nat \X Seq(S) -> Seq(S)]
      <3>1. \A i \in Nat, b \in Seq(S) : Step(i, b) \in Seq(S)
        BY <1>0
      <3> HIDE DEF Step
      <3> QED BY <3>1
    <2>3. PICK f \in [0 .. L -> Seq(S)] : Recursion(f, 0, L, <<>>, step)
      <3> HIDE DEF step, L
      <3>1. 0 \in Nat /\ <<>> \in Seq(S)
        OBVIOUS
      <3> QED BY <1>0, <2>2, <3>1, RecursionExists
    <2>4. f[0] = <<>> /\ \A i \in 1 .. L : f[i] = f[i - 1] \o s[i]
      <3> HIDE DEF step, L
      <3>1. f[0] = <<>>
        <4>1. 0 \in 0 .. L
          BY <1>0
        <4> QED BY <2>3, <4>1 DEF Recursion
      <3>2. ASSUME NEW i \in 1 .. L PROVE f[i] = f[i - 1] \o s[i]
        <4>1. f[i] = step[<<i, f[i - 1]>>] /\ f[i - 1] \in Seq(S)
          BY <1>0, <2>3 DEF Recursion
        <4>2. <<i, f[i - 1]>> \in Nat \X Seq(S)
          BY <4>1
        <4>3. step[<<i, f[i - 1]>>] = Step(i, f[i - 1])
          <5> HIDE DEF Step
          <5> QED BY <4>2 DEF step
        <4> QED BY <4>1, <4>3
      <3> QED BY <3>1, <3>2
    <2>a. f[1] = s[1]
      <3> HIDE DEF L
      <3>1. 1 \in 1 .. L
        BY <1>0, <1>2
      <3>2. f[1] = f[1 - 1] \o s[1] /\ s[1] \in Seq(S)
        BY <1>0, <2>4, <3>1
      <3>3. f[1 - 1] = <<>>
        BY <2>4
      <3>4. <<>> \o s[1] = s[1]
        BY <3>2, ConcatEmptySeq
      <3> QED BY <3>2, <3>3, <3>4, Zenon
    <2> DEFINE g == [i \in 1 .. L |-> f[i]]
    <2>5. g = Body(g)
      <3>1. ASSUME NEW i \in 1 .. L PROVE f[i] = IF i = 1 THEN s[i] ELSE g[i - 1] \o s[i]
        <4>1. CASE i = 1
          BY <2>a, <4>1
        <4>2. CASE i # 1
          <5>1. i - 1 \in 1 .. L
            BY <1>0, <4>2
          <5>2. g[i - 1] = f[i - 1]
            BY <5>1
          <5> QED BY <2>4, <4>2, <5>2
        <4> QED BY <4>1, <4>2
      <3> QED BY <3>1
    <2>6. flatten = Body(flatten)
      <3> HIDE DEF Body, g
      <3> QED BY <2>5, Zenon
    <2> HIDE DEF flatten
    <2>7. \A i \in 1 .. L : flatten[i] = IF i = 1 THEN s[i] ELSE flatten[i - 1] \o s[i]
      <3>1. \A i \in 1 .. L : flatten[i] = Body(flatten)[i]
        <4> HIDE DEF Body
        <4> QED BY <2>6
      <3> QED BY <3>1
    <2>8. Agree(f, flatten, 1, L)
      <3>1. f[1] = flatten[1]
        <4>1. 1 \in 1 .. L /\ s[1] \in Seq(S)
          BY <1>0, <1>2
        <4>2. flatten[1] = s[1]
          BY <2>7, <4>1
        <4> QED BY <2>a, <4>2
      <3>2. \A i \in 1 .. L : i # 1 /\ f[i - 1] = flatten[i - 1] => f[i] = flatten[i]
        BY <2>4, <2>7
      <3> QED BY <1>0, <3>1, <3>2, RecursionUnique
    <2>9. f[L] = flatten[L]
      BY <1>0, <1>2, <2>8 DEF Agree
    <2> QED BY <2>1, <2>3, <2>4, <2>9 DEF PrefixJoins
  <1> QED BY <1>1, <1>2

LEMMA FlattenIsSeq ==
  ASSUME NEW S, NEW s \in Seq(Seq(S))
  PROVE  FlattenSeq(s) \in Seq(S)
  <1>1. PICK f \in [0 .. Len(s) -> Seq(S)] : PrefixJoins(s, f)
    BY FlattenUnfolds
  <1>2. Len(s) \in 0 .. Len(s)
    OBVIOUS
  <1> QED BY <1>1, <1>2 DEF PrefixJoins

-----------------------------------------------------------------------------
(* Sequences joined.                                                       *)

\* A sequence joined to the first elements of another, one after one.
LEMMA PrefixGrows ==
  ASSUME NEW R, NEW p \in Seq(R), NEW more \in Seq(R)
  PROVE  /\ p \o SubSeq(more, 1, 0) = p
         /\ \A k \in 1 .. Len(more) :
              p \o SubSeq(more, 1, k) = Append(p \o SubSeq(more, 1, k - 1), more[k])
         /\ p \o SubSeq(more, 1, Len(more)) = p \o more
         /\ \A k \in 0 .. Len(more) : p \o SubSeq(more, 1, k) \in Seq(R)
  <1>1. SubSeq(more, 1, 0) = <<>>
    BY SubSeqEmpty
  <1>2. p \o SubSeq(more, 1, 0) = p
    BY <1>1, ConcatEmptySeq
  <1>3. \A k \in 0 .. Len(more) : SubSeq(more, 1, k) \in Seq(R)
    OBVIOUS
  <1>4. \A k \in 0 .. Len(more) : p \o SubSeq(more, 1, k) \in Seq(R)
    BY <1>3, ConcatProperties
  <1>5. ASSUME NEW k \in 1 .. Len(more)
        PROVE  p \o SubSeq(more, 1, k) = Append(p \o SubSeq(more, 1, k - 1), more[k])
    <2> DEFINE s == SubSeq(more, 1, k - 1)
               x == more[k]
    <2>1. SubSeq(more, 1, k) = s \o <<x>>
      <3>1. 1 \in 1 .. Len(more) /\ k \in 1 .. Len(more)
        OBVIOUS
      <3> QED BY <3>1, SubSeqRecursiveSecond
    <2>2. s \in Seq(R) /\ x \in R /\ <<x>> \in Seq(R)
      BY <1>3
    <2> HIDE DEF s, x
    <2>3. p \o (s \o <<x>>) = (p \o s) \o <<x>>
      BY <2>2, ConcatAssociative
    <2>4. p \o s \in Seq(R)
      BY <2>2, ConcatProperties
    <2>5. (p \o s) \o <<x>> = Append(p \o s, x)
      <3> DEFINE t == p \o s
      <3>1. t \in Seq(R)
        BY <2>4
      <3> HIDE DEF t
      <3>2. t \o <<x>> = Append(t, x)
        BY <2>2, <3>1
      <3> QED BY <3>2 DEF t
    <2> QED BY <2>1, <2>3, <2>5, Zenon DEF s, x
  <1>6. p \o SubSeq(more, 1, Len(more)) = p \o more
    BY SubSeqFull
  <1> QED BY <1>2, <1>4, <1>5, <1>6

\* A head joined to a prefix joins to the whole.
LEMMA JoinedOnce ==
  ASSUME NEW R, NEW s \in Seq(R), NEW x \in R, NEW more \in Seq(R)
  PROVE  Append(s, x) \o more = s \o (<<x>> \o more)
  <1>1. Append(s, x) = s \o <<x>> /\ <<x>> \in Seq(R)
    OBVIOUS
  <1> QED BY <1>1, ConcatAssociative

LEMMA OneElement ==
  ASSUME NEW S, NEW x \in S
  PROVE  /\ <<x>> \in Seq(S) /\ Len(<<x>>) = 1 /\ <<x>>[1] = x
         /\ \A i \in 1 .. Len(<<x>>) : <<x>>[i] = x
         /\ <<>> \o <<x>> = <<x>> /\ <<x>> \o <<>> = <<x>>
  <1>1. <<x>> \in Seq(S) /\ Len(<<x>>) = 1 /\ <<x>>[1] = x
    OBVIOUS
  <1>2. \A i \in 1 .. Len(<<x>>) : i = 1
    OBVIOUS
  <1>3. <<>> \o <<x>> = <<x>> /\ <<x>> \o <<>> = <<x>>
    BY <1>1, ConcatEmptySeq
  <1> QED BY <1>1, <1>2, <1>3, Zenon

LEMMA Appended ==
  ASSUME NEW S, NEW s \in Seq(S), NEW x \in S
  PROVE  Append(s, x) # <<>>
  <1>1. Len(Append(s, x)) = Len(s) + 1 /\ Len(s) \in Nat
    OBVIOUS
  <1> QED BY <1>1

\* The elements of a sequence mapped make a sequence.
LEMMA Mapped ==
  ASSUME NEW S, NEW n \in Nat, NEW f \in [1 .. n -> S]
  PROVE  f \in Seq(S) /\ Len(f) = n /\ (n = 0 => f = <<>>)
  <1>1. f \in Seq(S) /\ Len(f) = n
    OBVIOUS
  <1> QED BY <1>1, EmptySeq
=============================================================================
