------------------------- MODULE RouteTable_proofs -------------------------
(***************************************************************************)
(* Theorems about RouteTable for every set of routes, paths and methods.   *)
(* The table re-checks what the trie search returns, so completeness does  *)
(* not depend on the search at all; soundness and the rule that the latest *)
(* registration wins need that its result is a leaf of the trie.  That the  *)
(* recursive search finds what its definition says, for every trie that a   *)
(* table can build (trie.go, lookupRecursive), comes first: inductions are  *)
(* over the least or deepest counterexample of a set.                       *)
(***************************************************************************)
EXTENDS RouteTable, RecursionLemmas

\* Among some nodes there is one that none is below, as long as it is above
\* the depth N.
LEMMA Deepest ==
  ASSUME NEW N \in Nat, NEW B \in SUBSET Node, B # {}
  PROVE  \E u \in B : Len(u) < N => \A w \in B : Len(w) <= Len(u)
  <1> DEFINE Room(u) == IF Len(u) < N THEN N - Len(u) ELSE 0
             rooms   == {Room(u) : u \in B}
  <1>1. \A u \in B : Len(u) \in Nat
    BY DEF Node
  <1>2. rooms \in SUBSET Nat /\ rooms # {}
    BY <1>1
  <1>3. PICK x \in rooms : \A y \in rooms : x <= y
    BY <1>2, LeastElement
  <1>4. PICK u \in B : x = Room(u)
    OBVIOUS
  <1>5. ASSUME Len(u) < N, NEW w \in B PROVE Len(w) <= Len(u)
    <2>1. Room(u) <= Room(w)
      BY <1>3, <1>4
    <2> QED BY <1>1, <1>5, <2>1
  <1> QED BY <1>5

-----------------------------------------------------------------------------
(* The components of a path.                                               *)

LEMMA NonEmptyIsSeq ==
  ASSUME NEW S, NEW comps \in Seq(S)
  PROVE  NonEmpty(comps) \in Seq(S)
  <1> DEFINE L       == Len(comps)
             Next(i, kept) == IF comps[i] = "" THEN kept ELSE Append(kept, comps[i])
             step    == [at \in Nat \X Seq(S) |->
                           IF at[1] \in 1 .. L THEN Next(at[1], at[2]) ELSE at[2]]
             Kept(f) == [i \in 0 .. L |-> IF i = 0 THEN <<>>
                                         ELSE IF comps[i] = "" THEN f[i - 1]
                                         ELSE Append(f[i - 1], comps[i])]
             kept    == CHOOSE f : f = Kept(f)
  <1>1. L \in Nat
    OBVIOUS
  <1>2. step \in [Nat \X Seq(S) -> Seq(S)]
    <2>1. ASSUME NEW i \in Nat, NEW b \in Seq(S)
          PROVE  (IF i \in 1 .. L THEN Next(i, b) ELSE b) \in Seq(S)
      <3>1. i \in 1 .. L => comps[i] \in S
        OBVIOUS
      <3> HIDE DEF L
      <3>2. CASE i \in 1 .. L
        <4>1. Append(b, comps[i]) \in Seq(S)
          BY <3>1, <3>2
        <4> QED BY <3>2, <4>1
      <3> QED BY <3>2
    <2> HIDE DEF L, Next
    <2> QED BY <2>1
  <1>3. PICK f \in [0 .. L -> Seq(S)] : Recursion(f, 0, L, <<>>, step)
    <2> HIDE DEF step, L
    <2>1. 0 \in Nat /\ <<>> \in Seq(S)
      OBVIOUS
    <2> QED BY <1>1, <1>2, <2>1, RecursionExists
  <1>4. ASSUME NEW i \in 0 .. L, i # 0 PROVE f[i] = Next(i, f[i - 1])
    <2> HIDE DEF step
    <2>1. f[i] = step[<<i, f[i - 1]>>]
      BY <1>3, <1>4 DEF Recursion
    <2>2. i \in 1 .. L /\ <<i, f[i - 1]>> \in Nat \X Seq(S)
      BY <1>1, <1>4
    <2> HIDE DEF L, Next
    <2> QED BY <2>1, <2>2 DEF step
  <1>5. f = Kept(f)
    <2> HIDE DEF step, L
    <2>1. \A i \in 0 .. L : f[i] = Kept(f)[i]
      BY <1>3, <1>4 DEF Recursion
    <2>2. f = [i \in 0 .. L |-> f[i]]
      OBVIOUS
    <2> QED BY <2>1, <2>2
  <1>6. kept = Kept(kept)
    <2> HIDE DEF Kept
    <2> QED BY <1>5, Zenon
  <1>7. NonEmpty(comps) = kept[L]
    BY Zenon DEF NonEmpty
  <1> HIDE DEF kept, step, L
  <1>8. kept[0] = <<>> /\ \A i \in 1 .. L : kept[i] = Next(i, kept[i - 1])
    <2>1. \A i \in 0 .. L : kept[i] = Kept(kept)[i]
      <3> HIDE DEF Kept
      <3> QED BY <1>6
    <2>2. 0 \in 0 .. L /\ \A i \in 1 .. L : i \in 0 .. L /\ i # 0
      BY <1>1
    <2> QED BY <2>1, <2>2
  <1>9. Agree(f, kept, 0, L)
    <2>1. f[0] = kept[0]
      <3>1. 0 \in 0 .. L
        BY <1>1
      <3> QED BY <1>3, <1>8, <3>1 DEF Recursion
    <2>2. \A i \in 0 .. L : i # 0 /\ f[i - 1] = kept[i - 1] => f[i] = kept[i]
      <3> HIDE DEF Next
      <3> QED BY <1>1, <1>4, <1>8
    <2>3. 0 \in Nat
      OBVIOUS
    <2> QED BY <1>1, <2>1, <2>2, <2>3, RecursionUnique
  <1> QED BY <1>1, <1>7, <1>9 DEF Agree

LEMMA TrieInputs ==
  ASSUME NEW p \in Path
  PROVE  TrieParts(p) \in Seq(Comp)
  <1>1. p \in Seq(Comp) /\ p # <<>>
    BY RouteTableAssumption DEF NoPath
  <1>2. Len(p) \in DOMAIN p
    BY <1>1
  <1>3. Text[p[Len(p)]].base \in Comp
    <2>1. p[Len(p)] \in Comp
      BY <1>1, <1>2
    <2> QED BY <2>1, PathTemplateAssumption DEF TextOK
  <1>4. [p EXCEPT ![Len(p)] = Text[p[Len(p)]].base] \in Seq(Comp)
    BY <1>1, <1>3
  <1> QED BY <1>4, NonEmptyIsSeq DEF TrieParts
-----------------------------------------------------------------------------
(* The captures of a node.                                                 *)

CaptureStep(trie, n, parts) ==
  [at \in Nat \X Seq(Capture) |->
     IF at[1] \in 1 .. Len(n) THEN Captured(trie, n, parts, at[1], at[2]) ELSE at[2]]

\* Every edge adds captures to captures.
CapturesTyped(trie, n, parts) ==
  /\ Len(n) \in Nat
  /\ \A i \in 1 .. Len(n), buf \in Seq(Capture) : Captured(trie, n, parts, i, buf) \in Seq(Capture)

LEMMA CaptureSteps ==
  ASSUME NEW trie, NEW n, NEW parts, CapturesTyped(trie, n, parts)
  PROVE  /\ CaptureStep(trie, n, parts) \in [Nat \X Seq(Capture) -> Seq(Capture)]
         /\ \A i \in 1 .. Len(n), buf \in Seq(Capture) :
              CaptureStep(trie, n, parts)[<<i, buf>>] = Captured(trie, n, parts, i, buf)
  <1> DEFINE Next(i, buf) == IF i \in 1 .. Len(n) THEN Captured(trie, n, parts, i, buf) ELSE buf
  <1>1. \A i \in Nat, buf \in Seq(Capture) : Next(i, buf) \in Seq(Capture)
    BY DEF CapturesTyped
  <1>2. CaptureStep(trie, n, parts) = [at \in Nat \X Seq(Capture) |-> Next(at[1], at[2])]
    BY Zenon DEF CaptureStep
  <1>3. \A i \in 1 .. Len(n), buf \in Seq(Capture) : Next(i, buf) = Captured(trie, n, parts, i, buf)
    OBVIOUS
  <1>4. \A i \in 1 .. Len(n) : i \in Nat
    BY DEF CapturesTyped
  <1> HIDE DEF Next
  <1> QED BY <1>1, <1>2, <1>3, <1>4

LEMMA CapturesRecursion ==
  ASSUME NEW trie, NEW n, NEW parts, CapturesTyped(trie, n, parts),
         NEW k \in 0 .. Len(n), NEW buf \in Seq(Capture)
  PROVE  \E f : /\ Recursion(f, k, Len(n), buf, CaptureStep(trie, n, parts))
               /\ \A i \in k .. Len(n) : f[i] \in Seq(Capture)
               /\ CapturesBehind(trie, n, parts, k, buf) = f[Len(n)]
  <1> DEFINE L     == Len(n)
             step  == CaptureStep(trie, n, parts)
             Of(f) == [i \in k .. L |-> IF i = k THEN buf ELSE Captured(trie, n, parts, i, f[i - 1])]
             found == CHOOSE f : f = Of(f)
  <1>1. L \in Nat /\ k \in Nat
    BY DEF CapturesTyped
  <1>2. step \in [Nat \X Seq(Capture) -> Seq(Capture)]
    BY CaptureSteps
  <1> HIDE DEF step
  <1>3. PICK f \in [k .. L -> Seq(Capture)] : Recursion(f, k, L, buf, step)
    BY <1>1, <1>2, RecursionExists
  <1>4. ASSUME NEW i \in k .. L, i # k PROVE f[i] = Captured(trie, n, parts, i, f[i - 1])
    <2>1. f[i] = step[<<i, f[i - 1]>>]
      BY <1>3, <1>4 DEF Recursion
    <2>2. i \in 1 .. L /\ f[i - 1] \in Seq(Capture)
      <3> HIDE DEF L
      <3> QED BY <1>1, <1>4
    <2> QED BY <2>1, <2>2, CaptureSteps DEF step
  <1> HIDE DEF L
  <1>5. f = Of(f)
    <2>1. \A i \in k .. L : f[i] = Of(f)[i]
      BY <1>3, <1>4 DEF Recursion
    <2>2. f = [i \in k .. L |-> f[i]]
      OBVIOUS
    <2> QED BY <2>1, <2>2
  <1>6. found = Of(found)
    <2> HIDE DEF Of
    <2> QED BY <1>5, Zenon
  <1>7. CapturesBehind(trie, n, parts, k, buf) = found[L]
    BY Zenon DEF CapturesBehind, L
  <1> HIDE DEF found
  <1>8. \A i \in k .. L : found[i] = IF i = k THEN buf ELSE Captured(trie, n, parts, i, found[i - 1])
    <2>1. \A i \in k .. L : found[i] = Of(found)[i]
      <3> HIDE DEF Of
      <3> QED BY <1>6
    <2> QED BY <2>1
  <1>9. Agree(f, found, k, L)
    <2>1. k \in k .. L
      BY <1>1 DEF L
    <2>2. f[k] = found[k]
      BY <1>3, <1>8, <2>1 DEF Recursion
    <2>3. \A i \in k .. L : i # k /\ f[i - 1] = found[i - 1] => f[i] = found[i]
      BY <1>4, <1>8
    <2> QED BY <1>1, <2>2, <2>3, RecursionUnique
  <1>10. L \in k .. L
    BY <1>1 DEF L
  <1>11. CapturesBehind(trie, n, parts, k, buf) = f[L]
    BY <1>7, <1>9, <1>10 DEF Agree
  <1> QED BY <1>3, <1>11 DEF step, L

\* The captures behind k edges: none of them at the node itself, and else
\* those of edge k + 1 and behind it.
LEMMA CapturesUnfold ==
  ASSUME NEW trie, NEW n, NEW parts, CapturesTyped(trie, n, parts),
         NEW k \in 0 .. Len(n), NEW buf \in Seq(Capture)
  PROVE  /\ k = Len(n) => CapturesBehind(trie, n, parts, k, buf) = buf
         /\ k < Len(n) => CapturesBehind(trie, n, parts, k, buf)
                           = CapturesBehind(trie, n, parts, k + 1, Captured(trie, n, parts, k + 1, buf))
  <1> DEFINE L    == Len(n)
             step == CaptureStep(trie, n, parts)
             next == Captured(trie, n, parts, k + 1, buf)
  <1>1. L \in Nat /\ k \in Nat /\ k <= L
    BY DEF CapturesTyped
  <1>2. PICK f : /\ Recursion(f, k, L, buf, step)
                 /\ CapturesBehind(trie, n, parts, k, buf) = f[L]
    BY CapturesRecursion
  <1>3. f[k] = buf
    <2> HIDE DEF step, L
    <2>1. k \in k .. L
      BY <1>1
    <2> QED BY <1>2, <2>1 DEF Recursion
  <1>4. CASE k < L
    <2>1. k + 1 \in 0 .. Len(n) /\ k + 1 \in 1 .. Len(n)
      BY <1>1, <1>4
    <2>2. next \in Seq(Capture)
      BY <2>1 DEF CapturesTyped
    <2> HIDE DEF next
    <2>3. PICK g : /\ Recursion(g, k + 1, L, next, step)
                   /\ CapturesBehind(trie, n, parts, k + 1, next) = g[L]
      BY <2>1, <2>2, CapturesRecursion
    <2>4. step[<<k + 1, buf>>] = next
      BY <2>1, CaptureSteps DEF next
    <2> HIDE DEF step, L
    <2>5. f[k + 1] = g[k + 1]
      <3>1. k + 1 \in k .. L /\ k + 1 # k /\ k + 1 - 1 = k /\ k + 1 \in k + 1 .. L
        BY <1>1, <1>4
      <3>2. f[k + 1] = step[<<k + 1, f[k]>>]
        BY <1>2, <3>1 DEF Recursion
      <3>3. g[k + 1] = next
        BY <2>3, <3>1 DEF Recursion
      <3> QED BY <1>3, <2>4, <3>2, <3>3
    <2>6. ASSUME NEW i \in k + 1 .. L, i # k + 1, f[i - 1] = g[i - 1] PROVE f[i] = g[i]
      <3>1. i \in k .. L /\ i # k
        BY <1>1
      <3>2. f[i] = step[<<i, f[i - 1]>>]
        BY <1>2, <3>1 DEF Recursion
      <3>3. g[i] = step[<<i, g[i - 1]>>]
        BY <2>3, <2>6 DEF Recursion
      <3> QED BY <2>6, <3>2, <3>3
    <2>7. Agree(f, g, k + 1, L)
      <3>1. k + 1 \in Nat
        BY <1>1
      <3> QED BY <1>1, <2>5, <2>6, <3>1, RecursionUnique
    <2>8. f[L] = g[L]
      <3>1. L \in k + 1 .. L
        BY <1>1, <1>4
      <3> QED BY <2>7, <3>1 DEF Agree
    <2> QED BY <1>2, <1>4, <2>3, <2>8 DEF L, next
  <1>5. CASE k = L
    BY <1>2, <1>3, <1>5
  <1> QED BY <1>1, <1>4, <1>5
-----------------------------------------------------------------------------
(* Nodes.                                                                  *)

\* A leaf is below the root, at a registered route; the nodes above its
\* captures keep names; a parameter name is kept only for a child that exists.
TrieShaped(trie) ==
  /\ \A n \in DOMAIN trie.leaf :
       /\ n \in Node /\ n # <<>> /\ trie.leaf[n] \in Route
       /\ \A i \in 1 .. Len(n) :
            /\ n[i] = ParamEdge => SubSeq(n, 1, i - 1) \in DOMAIN trie.param
            /\ n[i] = WildEdge  => SubSeq(n, 1, i - 1) \in DOMAIN trie.wild
  /\ \A u \in DOMAIN trie.param : Append(u, ParamEdge) \in Nodes(trie) /\ trie.param[u] \in Name
  /\ \A u \in DOMAIN trie.wild : trie.wild[u] \in Name

Extends(n, u) == Len(u) <= Len(n) /\ \A j \in 1 .. Len(u) : n[j] = u[j]

LEMMA ExtendsPrefix ==
  ASSUME NEW n \in Node, NEW u \in Node, Extends(n, u)
  PROVE  u = SubSeq(n, 1, Len(u))
  <1>1. Len(u) \in Nat /\ Len(n) \in Nat /\ u \in Seq(Edge) /\ n \in Seq(Edge)
    BY DEF Node
  <1>2. /\ SubSeq(n, 1, Len(u)) \in Seq(Edge)
        /\ Len(SubSeq(n, 1, Len(u))) = Len(u)
        /\ \A j \in 1 .. Len(u) : SubSeq(n, 1, Len(u))[j] = n[j]
    BY <1>1 DEF Extends
  <1> QED BY <1>1, <1>2, SeqEqual DEF Extends

LEMMA ExtendsChild ==
  ASSUME NEW n \in Node, NEW u \in Node, Extends(n, u), Len(n) = Len(u) + 1
  PROVE  n = Append(u, n[Len(n)])
  <1>1. Len(u) \in Nat /\ Len(n) \in Nat /\ u \in Seq(Edge) /\ n \in Seq(Edge)
    BY DEF Node
  <1>2. n[Len(n)] \in Edge
    BY <1>1
  <1> DEFINE c == Append(u, n[Len(n)])
  <1>3. c \in Seq(Edge) /\ Len(c) = Len(n) /\ \A j \in 1 .. Len(n) : c[j] = n[j]
    BY <1>1, <1>2 DEF Extends
  <1> QED BY <1>1, <1>3, SeqEqual

\* A child of a node, and what is below it.
LEMMA ChildOf ==
  ASSUME NEW u \in Node, NEW e \in Edge
  PROVE  /\ Append(u, e) \in Node /\ Len(Append(u, e)) = Len(u) + 1 /\ Len(u) \in Nat
         /\ \A n \in Node : Extends(n, Append(u, e))
              <=> Extends(n, u) /\ Len(n) >= Len(u) + 1 /\ n[Len(u) + 1] = e
  <1>1. u \in Seq(Edge) /\ Len(u) \in Nat
    BY DEF Node
  <1>2. /\ Append(u, e) \in Seq(Edge) /\ Len(Append(u, e)) = Len(u) + 1
        /\ \A j \in 1 .. Len(u) : Append(u, e)[j] = u[j]
        /\ Append(u, e)[Len(u) + 1] = e
    BY <1>1
  <1>3. ASSUME NEW n \in Node
        PROVE  Extends(n, Append(u, e))
                 <=> Extends(n, u) /\ Len(n) >= Len(u) + 1 /\ n[Len(u) + 1] = e
    <2> DEFINE c == Append(u, e)
    <2>1. Len(n) \in Nat
      BY DEF Node
    <2> HIDE DEF c
    <2>2. /\ Len(c) = Len(u) + 1 /\ \A j \in 1 .. Len(u) : c[j] = u[j]
          /\ c[Len(u) + 1] = e
      BY <1>2 DEF c
    <2>3. Extends(n, c) => Extends(n, u) /\ Len(n) >= Len(u) + 1 /\ n[Len(u) + 1] = e
      BY <1>1, <2>1, <2>2 DEF Extends
    <2>4. Extends(n, u) /\ Len(n) >= Len(u) + 1 /\ n[Len(u) + 1] = e => Extends(n, c)
      BY <1>1, <2>1, <2>2 DEF Extends
    <2> QED BY <2>3, <2>4 DEF c
  <1> QED BY <1>1, <1>2, <1>3 DEF Node

LEMMA NodesAreNodes ==
  ASSUME NEW trie, TrieShaped(trie)
  PROVE  /\ Nodes(trie) \in SUBSET Node /\ <<>> \in Nodes(trie)
         /\ \A n \in DOMAIN trie.leaf : \A u \in Node :
              Extends(n, u) /\ Len(u) >= 1 => u \in Nodes(trie)
  <1>1. ASSUME NEW n \in DOMAIN trie.leaf, NEW k \in 1 .. Len(n) PROVE SubSeq(n, 1, k) \in Node
    <2>1. n \in Seq(Edge) /\ Len(n) \in Nat
      BY DEF TrieShaped, Node
    <2> QED BY <2>1 DEF Node
  <1>2. ASSUME NEW n \in DOMAIN trie.leaf, NEW u \in Node, Extends(n, u), Len(u) >= 1
        PROVE  u \in Nodes(trie)
    <2>1. n \in Node /\ Len(n) \in Nat /\ Len(u) \in Nat
      BY DEF TrieShaped, Node
    <2>2. u = SubSeq(n, 1, Len(u)) /\ Len(u) \in 1 .. Len(n)
      BY <1>2, <2>1, ExtendsPrefix DEF Extends
    <2>3. u \in {SubSeq(n, 1, k) : k \in 1 .. Len(n)}
      BY <2>2
    <2> QED BY <2>3, Zenon DEF Nodes
  <1>3. <<>> \in Node /\ <<>> \in Nodes(trie)
    BY DEF Node, Nodes
  <1>4. ASSUME NEW u \in Nodes(trie) PROVE u \in Node
    <2>1. u = <<>> \/ \E n \in DOMAIN trie.leaf : \E k \in 1 .. Len(n) : u = SubSeq(n, 1, k)
      BY Zenon DEF Nodes
    <2> QED BY <1>1, <1>3, <2>1, Zenon
  <1> QED BY <1>2, <1>3, <1>4, Zenon
-----------------------------------------------------------------------------
(* The leaves that match below a node, split by the first edge.            *)

MatchesBelow(trie, u, parts, verb) ==
  {n \in DOMAIN trie.leaf :
     /\ IsLeafFor(trie, n, verb) /\ Extends(n, u)
     /\ IF Len(u) >= Len(parts) THEN Len(n) = Len(u)
        ELSE /\ Len(n) > Len(u)
             /\ IF n[Len(n)] = WildEdge THEN Len(n) <= Len(parts) ELSE Len(n) = Len(parts)
     /\ \A i \in Len(u) + 1 .. Len(n) : EdgeFits(n, i, parts)}

LitMatches(trie, u, parts, verb) ==
  LET lit == Append(u, LitEdge(parts[Len(u) + 1]))
  IN  IF lit \in Nodes(trie) THEN MatchesBelow(trie, lit, parts, verb) ELSE {}

ParamMatches(trie, u, parts, verb) ==
  IF u \in DOMAIN trie.param /\ Text[parts[Len(u) + 1]].many # Malformed
  THEN MatchesBelow(trie, Append(u, ParamEdge), parts, verb) ELSE {}

WildMatches(trie, u, parts, verb) ==
  LET rest == Remaining(parts, Len(u) + 1)
  IN  {n \in {Append(u, WildEdge)} :
         /\ u \in DOMAIN trie.wild /\ Malformed \notin {rest[k] : k \in DOMAIN rest}
         /\ IsLeafFor(trie, n, verb)}

LEMMA EdgesDiffer ==
  /\ \A c : LitEdge(c) # ParamEdge /\ LitEdge(c) # WildEdge
  /\ ParamEdge # WildEdge
  /\ \A c \in Comp : LitEdge(c) \in Edge
  /\ ParamEdge \in Edge /\ WildEdge \in Edge
  BY DEF LitEdge, ParamEdge, WildEdge, Edge

LEMMA RemainingUnescapes ==
  ASSUME NEW parts \in Seq(Comp), NEW i \in 1 .. Len(parts)
  PROVE  LET rest == Remaining(parts, i)
         IN  Malformed \notin {rest[k] : k \in DOMAIN rest}
               <=> \A k \in i .. Len(parts) : Text[parts[k]].many # Malformed
  <1> DEFINE L    == Len(parts)
             rest == Remaining(parts, i)
  <1>1. L \in Nat /\ i \in 1 .. L
    OBVIOUS
  <1> HIDE DEF L
  <1>2. rest = [k \in 1 .. L - i + 1 |-> Text[parts[i + k - 1]].many]
    BY DEF Remaining, L
  <1> HIDE DEF rest
  <1>3. ASSUME NEW k \in i .. L
        PROVE  k - i + 1 \in DOMAIN rest /\ rest[k - i + 1] = Text[parts[k]].many
    BY <1>1, <1>2
  <1>4. ASSUME NEW k \in DOMAIN rest
        PROVE  i + k - 1 \in i .. L /\ rest[k] = Text[parts[i + k - 1]].many
    BY <1>1, <1>2
  <1>5. Malformed \notin {rest[k] : k \in DOMAIN rest}
          <=> \A k \in i .. L : Text[parts[k]].many # Malformed
    <2>1. ASSUME NEW k \in i .. L, Text[parts[k]].many = Malformed
          PROVE  Malformed \in {rest[j] : j \in DOMAIN rest}
      BY <1>3, <2>1
    <2>2. ASSUME NEW k \in DOMAIN rest, rest[k] = Malformed
          PROVE  \E j \in i .. L : Text[parts[j]].many = Malformed
      BY <1>4, <2>2
    <2> QED BY <2>1, <2>2
  <1> QED BY <1>5 DEF L, rest

\* The edge takes the next component alone.
TakesOne(e, u, parts) ==
  LET next == parts[Len(u) + 1]
  IN  e # WildEdge /\ (e = LitEdge(next) \/ (e = ParamEdge /\ Text[next].many # Malformed))

\* What matches below a child over one component is what matches below the
\* node and goes on over that child.
LEMMA MatchesOver ==
  ASSUME NEW trie, TrieShaped(trie), NEW parts \in Seq(Comp), NEW verb,
         NEW u \in Node, Len(u) < Len(parts), NEW e \in Edge, TakesOne(e, u, parts)
  PROVE  \A n : n \in MatchesBelow(trie, Append(u, e), parts, verb)
                <=> n \in MatchesBelow(trie, u, parts, verb) /\ n[Len(u) + 1] = e
  <1> DEFINE i == Len(u) + 1
             c == Append(u, e)
             L == Len(parts)
  <1>1. i \in Nat /\ i >= 1 /\ Len(u) = i - 1 /\ Len(c) = i /\ L \in Nat /\ i <= L
    BY ChildOf
  <1>2. ASSUME NEW n \in DOMAIN trie.leaf
        PROVE  n \in MatchesBelow(trie, c, parts, verb)
                 <=> n \in MatchesBelow(trie, u, parts, verb) /\ n[i] = e
    <2>1. n \in Node /\ Len(n) \in Nat
      BY DEF TrieShaped, Node
    <2>2. Extends(n, c) <=> Extends(n, u) /\ Len(n) >= i /\ n[i] = e
      BY <2>1, ChildOf
    <2>3. n[i] = e => EdgeFits(n, i, parts)
      BY DEF EdgeFits, TakesOne
    <2>4. (\A j \in i .. Len(n) : EdgeFits(n, j, parts))
            <=> (Len(n) >= i => EdgeFits(n, i, parts)) /\ \A j \in i + 1 .. Len(n) : EdgeFits(n, j, parts)
      <3> HIDE DEF i
      <3> QED BY <1>1, <2>1
    <2> HIDE DEF i, c, L
    <2>5. n \in MatchesBelow(trie, u, parts, verb)
            <=> /\ IsLeafFor(trie, n, verb) /\ Extends(n, u)
                /\ Len(n) >= i
                /\ IF n[Len(n)] = WildEdge THEN Len(n) <= L ELSE Len(n) = L
                /\ \A j \in i .. Len(n) : EdgeFits(n, j, parts)
      BY <1>1, <2>1 DEF MatchesBelow, L, i
    <2>6. n \in MatchesBelow(trie, c, parts, verb)
            <=> /\ IsLeafFor(trie, n, verb) /\ Extends(n, c)
                /\ IF i >= L THEN Len(n) = i
                   ELSE /\ Len(n) > i
                        /\ IF n[Len(n)] = WildEdge THEN Len(n) <= L ELSE Len(n) = L
                /\ \A j \in i + 1 .. Len(n) : EdgeFits(n, j, parts)
      BY <1>1, <2>1 DEF MatchesBelow, L
    <2>7. ASSUME n[i] = e, Len(n) >= i
          PROVE  (IF i >= L THEN Len(n) = i
                  ELSE /\ Len(n) > i
                       /\ IF n[Len(n)] = WildEdge THEN Len(n) <= L ELSE Len(n) = L)
                 <=> (IF n[Len(n)] = WildEdge THEN Len(n) <= L ELSE Len(n) = L)
      BY <1>1, <2>1, <2>7 DEF TakesOne
    <2> QED BY <2>2, <2>3, <2>4, <2>5, <2>6, <2>7
  <1>3. ASSUME NEW n, n \notin DOMAIN trie.leaf
        PROVE  n \notin MatchesBelow(trie, c, parts, verb) /\ n \notin MatchesBelow(trie, u, parts, verb)
    BY <1>3 DEF MatchesBelow
  <1> QED BY <1>2, <1>3
LEMMA WildAlone ==
  ASSUME NEW trie, TrieShaped(trie), NEW parts \in Seq(Comp), NEW verb,
         NEW u \in Node, Len(u) < Len(parts)
  PROVE  \A n : n \in WildMatches(trie, u, parts, verb)
                <=> n \in MatchesBelow(trie, u, parts, verb) /\ n[Len(u) + 1] = WildEdge
  <1> DEFINE i    == Len(u) + 1
             L    == Len(parts)
             wild == Append(u, WildEdge)
             Rest == \A k \in i .. L : Text[parts[k]].many # Malformed
  <1>1. i \in Nat /\ i >= 1 /\ Len(u) = i - 1 /\ L \in Nat /\ i <= L /\ WildEdge \in Edge
    BY ChildOf, EdgesDiffer
  <1>2. wild \in Node /\ Len(wild) = i /\ wild[i] = WildEdge /\ Extends(wild, u)
    <2>1. wild \in Node /\ Len(wild) = i
      BY <1>1, ChildOf
    <2>2. Extends(wild, wild)
      BY <2>1, <1>1 DEF Extends
    <2> QED BY <1>1, <2>1, <2>2, ChildOf
  <1>3. \A n : n \in WildMatches(trie, u, parts, verb)
               <=> n = wild /\ u \in DOMAIN trie.wild /\ Rest /\ IsLeafFor(trie, n, verb)
    <2>1. LET rest == Remaining(parts, i) IN Malformed \notin {rest[k] : k \in DOMAIN rest} <=> Rest
      BY <1>1, RemainingUnescapes
    <2> QED BY <2>1, Zenon DEF WildMatches
  <1>4. ASSUME NEW n \in MatchesBelow(trie, u, parts, verb), n[i] = WildEdge
        PROVE  n = wild /\ u \in DOMAIN trie.wild /\ Rest /\ IsLeafFor(trie, n, verb)
    <2>1. n \in DOMAIN trie.leaf /\ n \in Node /\ Len(n) \in Nat
      BY DEF MatchesBelow, TrieShaped, Node
    <2> HIDE DEF i, L
    <2>2. Extends(n, u) /\ IsLeafFor(trie, n, verb) /\ i \in 1 .. Len(n) /\ EdgeFits(n, i, parts)
      BY <1>1, <2>1 DEF MatchesBelow, L, i
    <2>3. i = Len(n) /\ Rest
      BY <1>4, <2>2, EdgesDiffer DEF EdgeFits, L
    <2>4. n = wild
      BY <1>1, <1>4, <2>1, <2>2, <2>3, ExtendsChild
    <2>5. u = SubSeq(n, 1, i - 1)
      BY <1>1, <2>1, <2>2, ExtendsPrefix
    <2>6. u \in DOMAIN trie.wild
      BY <1>4, <2>1, <2>2, <2>5 DEF TrieShaped
    <2> QED BY <2>2, <2>3, <2>4, <2>6
  <1>5. ASSUME u \in DOMAIN trie.wild, Rest, IsLeafFor(trie, wild, verb)
        PROVE  wild \in MatchesBelow(trie, u, parts, verb) /\ wild[i] = WildEdge
    <2> HIDE DEF wild
    <2>1. wild \in DOMAIN trie.leaf
      BY <1>5 DEF IsLeafFor
    <2>2. \A j \in Len(u) + 1 .. Len(wild) : EdgeFits(wild, j, parts)
      BY <1>1, <1>2, <1>5 DEF EdgeFits
    <2> HIDE DEF i, L
    <2>3. Len(wild) > Len(u) /\ Len(wild) <= L /\ ~(Len(u) >= L)
      BY <1>1, <1>2
    <2> QED BY <1>2, <1>5, <2>1, <2>2, <2>3 DEF MatchesBelow, L
  <1> QED BY <1>3, <1>4, <1>5

\* The matches below a node are those over its literal, its parameter and its
\* wildcard child.
LEMMA MatchesSplit ==
  ASSUME NEW trie, TrieShaped(trie), NEW parts \in Seq(Comp), NEW verb,
         NEW u \in Node, Len(u) < Len(parts)
  PROVE  /\ MatchesBelow(trie, u, parts, verb)
              = (LitMatches(trie, u, parts, verb) \cup ParamMatches(trie, u, parts, verb))
                  \cup WildMatches(trie, u, parts, verb)
         /\ \A n \in LitMatches(trie, u, parts, verb) :
              n[Len(u) + 1] = LitEdge(parts[Len(u) + 1])
         /\ \A n \in ParamMatches(trie, u, parts, verb) : n[Len(u) + 1] = ParamEdge
         /\ \A n \in WildMatches(trie, u, parts, verb) : n[Len(u) + 1] = WildEdge
  <1> DEFINE i     == Len(u) + 1
             L     == Len(parts)
             e     == LitEdge(parts[i])
             below == MatchesBelow(trie, u, parts, verb)
  <1>1. i \in Nat /\ i >= 1 /\ Len(u) = i - 1 /\ i \in 1 .. L /\ L \in Nat
    BY ChildOf, EdgesDiffer
  <1>2. e \in Edge /\ e # WildEdge
    <2>1. parts[i] \in Comp
      BY <1>1
    <2> QED BY <2>1, EdgesDiffer
  <1>3. ASSUME NEW n \in below
        PROVE  /\ n \in DOMAIN trie.leaf /\ n \in Node /\ Extends(n, u)
               /\ i \in 1 .. Len(n) /\ EdgeFits(n, i, parts)
    <2>1. n \in DOMAIN trie.leaf /\ n \in Node /\ Len(n) \in Nat
      BY DEF MatchesBelow, TrieShaped, Node
    <2>2. Extends(n, u) /\ Len(n) > Len(u) /\ \A j \in Len(u) + 1 .. Len(n) : EdgeFits(n, j, parts)
      <3> HIDE DEF i, L
      <3> QED BY <1>1, <2>1 DEF MatchesBelow, L
    <2> QED BY <1>1, <2>1, <2>2
  <1>4. \A n : n \in LitMatches(trie, u, parts, verb) <=> n \in below /\ n[i] = e
    <2> DEFINE lit == Append(u, e)
    <2>1. \A n : n \in MatchesBelow(trie, lit, parts, verb) <=> n \in below /\ n[i] = e
      <3>1. TakesOne(e, u, parts)
        BY <1>2 DEF TakesOne
      <3> HIDE DEF e
      <3> QED BY <1>2, <3>1, MatchesOver
    <2>2. ASSUME NEW n \in below, n[i] = e PROVE lit \in Nodes(trie)
      <3>1. lit \in Node /\ Len(lit) >= 1 /\ Extends(n, lit)
        BY <1>1, <1>2, <1>3, <2>2, ChildOf
      <3> QED BY <1>3, <3>1, NodesAreNodes
    <2>3. LitMatches(trie, u, parts, verb)
            = IF lit \in Nodes(trie) THEN MatchesBelow(trie, lit, parts, verb) ELSE {}
      BY Zenon DEF LitMatches
    <2> HIDE DEF lit, below
    <2> QED BY <2>1, <2>2, <2>3
  <1>5. \A n : n \in ParamMatches(trie, u, parts, verb) <=> n \in below /\ n[i] = ParamEdge
    <2>1. ASSUME NEW n \in below, n[i] = ParamEdge
          PROVE  u \in DOMAIN trie.param /\ Text[parts[i]].many # Malformed
      <3>1. Text[parts[i]].many # Malformed
        BY <1>3, <2>1, EdgesDiffer DEF EdgeFits
      <3>2. u = SubSeq(n, 1, i - 1)
        BY <1>1, <1>3, ExtendsPrefix
      <3> QED BY <1>3, <2>1, <3>1, <3>2 DEF TrieShaped
    <2>2. CASE Text[parts[i]].many # Malformed
      <3>1. \A n : n \in MatchesBelow(trie, Append(u, ParamEdge), parts, verb)
                   <=> n \in below /\ n[i] = ParamEdge
        <4>1. TakesOne(ParamEdge, u, parts)
          BY <2>2, EdgesDiffer DEF TakesOne
        <4> QED BY <4>1, MatchesOver, EdgesDiffer
      <3> HIDE DEF below
      <3> QED BY <2>1, <2>2, <3>1 DEF ParamMatches
    <2>3. CASE Text[parts[i]].many = Malformed
      BY <2>1, <2>3 DEF ParamMatches
    <2> QED BY <2>2, <2>3
  <1>6. \A n : n \in WildMatches(trie, u, parts, verb) <=> n \in below /\ n[i] = WildEdge
    BY WildAlone
  <1>7. \A n \in below : n[i] = e \/ n[i] = ParamEdge \/ n[i] = WildEdge
    BY <1>3 DEF EdgeFits
  <1> HIDE DEF below, i, e
  <1> QED BY <1>4, <1>5, <1>6, <1>7 DEF below, i, e
-----------------------------------------------------------------------------
(* What a search may answer that finds one of the leaves M.                *)

\* The first of them, with the captures of its edges behind the first k, and
\* the buffer as it was if there is none.
Outcome(trie, parts, M, k, buf, res) ==
  IF M = {} THEN res = Miss(buf)
  ELSE \E best \in M :
         /\ \A o \in M \ {best} : Precedes(best, o)
         /\ res = Hit(trie.leaf[best], CapturesBehind(trie, best, parts, k, buf))

LEMMA Ranks ==
  /\ \A c : Rank(LitEdge(c)) = 1
  /\ Rank(ParamEdge) = 2 /\ Rank(WildEdge) = 3
  /\ \A e \in Edge : Rank(e) \in Nat
  <1>1. /\ \A c : Rank(LitEdge(c)) = 1
        /\ Rank(ParamEdge) = 2 /\ Rank(WildEdge) = 3
    BY DEF Rank, LitEdge, ParamEdge, WildEdge
  <1>2. \A e \in Edge : e = ParamEdge \/ e = WildEdge \/ \E c : e = LitEdge(c)
    BY DEF Edge
  <1> QED BY <1>1, <1>2

LEMMA PrecedesOnce ==
  ASSUME NEW n1 \in Node, NEW n2 \in Node, Precedes(n1, n2), Precedes(n2, n1)
  PROVE  FALSE
  <1>1. DOMAIN n1 \subseteq Nat /\ DOMAIN n2 \subseteq Nat
    BY DEF Node
  <1>2. PICK i \in DOMAIN n1 \cap DOMAIN n2 :
          (\A j \in 1 .. i - 1 : n1[j] = n2[j]) /\ Rank(n1[i]) < Rank(n2[i])
    BY DEF Precedes
  <1>3. PICK k \in DOMAIN n1 \cap DOMAIN n2 :
          (\A j \in 1 .. k - 1 : n1[j] = n2[j]) /\ Rank(n2[k]) < Rank(n1[k])
    BY DEF Precedes
  <1>4. /\ n1[i] \in Edge /\ n2[i] \in Edge /\ n1[k] \in Edge /\ n2[k] \in Edge
        /\ i \in Nat /\ k \in Nat /\ i >= 1 /\ k >= 1
    BY DEF Node
  <1>5. /\ Rank(n1[i]) \in Nat /\ Rank(n2[i]) \in Nat
        /\ Rank(n1[k]) \in Nat /\ Rank(n2[k]) \in Nat
    BY <1>4, Ranks
  <1>6. CASE i < k
    BY <1>2, <1>3, <1>4, <1>5, <1>6
  <1>7. CASE k < i
    BY <1>2, <1>3, <1>4, <1>5, <1>7
  <1>8. CASE i = k
    BY <1>2, <1>3, <1>5, <1>8
  <1> QED BY <1>4, <1>6, <1>7, <1>8

LEMMA PrecedesByRank ==
  ASSUME NEW n1 \in Node, NEW n2 \in Node, NEW u \in Node, Extends(n1, u), Extends(n2, u),
         Len(n1) > Len(u), Len(n2) > Len(u), Rank(n1[Len(u) + 1]) < Rank(n2[Len(u) + 1])
  PROVE  Precedes(n1, n2)
  <1> DEFINE i == Len(u) + 1
  <1>1. Len(u) \in Nat /\ Len(n1) \in Nat /\ Len(n2) \in Nat
    BY DEF Node
  <1>2. DOMAIN n1 = 1 .. Len(n1) /\ DOMAIN n2 = 1 .. Len(n2)
    BY DEF Node
  <1>3. i \in DOMAIN n1 \cap DOMAIN n2
    BY <1>1, <1>2
  <1>4. \A j \in 1 .. i - 1 : n1[j] = n2[j]
    BY <1>1 DEF Extends
  <1> HIDE DEF i
  <1>5. Rank(n1[i]) < Rank(n2[i])
    BY DEF i
  <1> QED BY <1>3, <1>4, <1>5 DEF Precedes

LEMMA OutcomeUnique ==
  ASSUME NEW trie, NEW parts, NEW M \in SUBSET Node, NEW k, NEW buf, NEW r1, NEW r2,
         Outcome(trie, parts, M, k, buf, r1), Outcome(trie, parts, M, k, buf, r2)
  PROVE  r1 = r2
  <1>1. CASE M = {}
    BY <1>1 DEF Outcome
  <1>2. CASE M # {}
    <2> DEFINE of(n) == Hit(trie.leaf[n], CapturesBehind(trie, n, parts, k, buf))
    <2>1. PICK b1 \in M : (\A o \in M \ {b1} : Precedes(b1, o)) /\ r1 = of(b1)
      BY <1>2, Zenon DEF Outcome
    <2>2. PICK b2 \in M : (\A o \in M \ {b2} : Precedes(b2, o)) /\ r2 = of(b2)
      BY <1>2, Zenon DEF Outcome
    <2> HIDE DEF of
    <2>3. b1 = b2
      BY <2>1, <2>2, PrecedesOnce
    <2> QED BY <2>1, <2>2, <2>3
  <1> QED BY <1>1, <1>2

\* A search that found nothing left the buffer as it was.
LEMMA OutcomeMiss ==
  ASSUME NEW trie, TrieShaped(trie), NEW parts, NEW M \in SUBSET DOMAIN trie.leaf,
         NEW k, NEW buf, NEW res, Outcome(trie, parts, M, k, buf, res)
  PROVE  /\ M = {} => res = Miss(buf) /\ res.route = NoRoute
         /\ M # {} => res.route # NoRoute
  <1>1. CASE M = {}
    BY <1>1 DEF Outcome, Miss
  <1>2. CASE M # {}
    <2>1. PICK b \in M : res = Hit(trie.leaf[b], CapturesBehind(trie, b, parts, k, buf))
      BY <1>2, Zenon DEF Outcome
    <2>2. res.route = trie.leaf[b]
      BY <2>1 DEF Hit
    <2> QED BY <1>2, <2>2, RouteTableAssumption DEF TrieShaped
  <1> QED BY <1>1, <1>2

\* Searching one set of leaves, and another one if nothing was found.
LEMMA OutcomeOrElse ==
  ASSUME NEW trie, TrieShaped(trie), NEW parts,
         NEW M1 \in SUBSET DOMAIN trie.leaf, NEW M2 \in SUBSET DOMAIN trie.leaf,
         NEW k, NEW buf, NEW r1, NEW r2,
         Outcome(trie, parts, M1, k, buf, r1), Outcome(trie, parts, M2, k, buf, r2),
         \A n1 \in M1, n2 \in M2 : Precedes(n1, n2)
  PROVE  Outcome(trie, parts, M1 \cup M2, k, buf, IF r1.route # NoRoute THEN r1 ELSE r2)
  <1>1. CASE M1 = {}
    <2>1. M1 \cup M2 = M2 /\ ~(r1.route # NoRoute)
      BY <1>1, OutcomeMiss
    <2> QED BY <2>1
  <1>2. CASE M1 # {}
    <2>1. r1.route # NoRoute
      BY <1>2, OutcomeMiss
    <2>2. PICK b \in M1 : /\ \A o \in M1 \ {b} : Precedes(b, o)
                          /\ r1 = Hit(trie.leaf[b], CapturesBehind(trie, b, parts, k, buf))
      BY <1>2, Zenon DEF Outcome
    <2>3. b \in M1 \cup M2 /\ \A o \in (M1 \cup M2) \ {b} : Precedes(b, o)
      BY <2>2
    <2>4. Outcome(trie, parts, M1 \cup M2, k, buf, r1)
      <3>1. M1 \cup M2 # {}
        BY <1>2
      <3> QED BY <2>2, <2>3, <3>1, Zenon DEF Outcome
    <2> QED BY <2>1, <2>4
  <1> QED BY <1>1, <1>2
-----------------------------------------------------------------------------
(* The branches of the search.                                             *)

\* From node w the search finds what is below it, with any buffer.
Finds(Search, trie, w, parts, verb) ==
  \A buf \in Seq(Capture) :
    Outcome(trie, parts, MatchesBelow(trie, w, parts, verb), Len(w), buf, Search[<<w, buf>>])

LEMMA CapturesNone ==
  ASSUME NEW trie, NEW n, NEW parts, Len(n) \in Nat, NEW buf
  PROVE  CapturesBehind(trie, n, parts, Len(n), buf) = buf
  <1> DEFINE L     == Len(n)
             Of(f) == [i \in L .. L |-> IF i = L THEN buf ELSE Captured(trie, n, parts, i, f[i - 1])]
             found == CHOOSE f : f = Of(f)
             none  == [i \in L .. L |-> buf]
  <1>1. \A i \in L .. L : i = L
    OBVIOUS
  <1>2. none = Of(none)
    BY <1>1
  <1>3. found = Of(found)
    <2> HIDE DEF Of, none
    <2> QED BY <1>2, Zenon
  <1>4. CapturesBehind(trie, n, parts, L, buf) = found[L]
    BY Zenon DEF CapturesBehind
  <1>5. Of(found)[L] = buf
    <2>1. L \in L .. L
      OBVIOUS
    <2> HIDE DEF found, L
    <2> QED BY <2>1
  <1> HIDE DEF Of, found
  <1> QED BY <1>3, <1>4, <1>5

LEMMA LeafCapturesTyped ==
  ASSUME NEW trie, TrieShaped(trie), NEW parts \in Seq(Comp), NEW n \in DOMAIN trie.leaf,
         Len(n) <= Len(parts)
  PROVE  CapturesTyped(trie, n, parts)
  <1>1. Len(n) \in Nat /\ Len(parts) \in Nat
    BY DEF TrieShaped, Node
  <1>2. \A c \in Comp : Text[c].many \in STRING
    BY PathTemplateAssumption DEF TextOK
  <1>3. ASSUME NEW i \in 1 .. Len(n), NEW buf \in Seq(Capture)
        PROVE  Captured(trie, n, parts, i, buf) \in Seq(Capture)
    <2>1. \A j \in i .. Len(parts) : parts[j] \in Comp
      BY <1>1
    <2>2. i \in i .. Len(parts)
      BY <1>1
    <2>3. CASE n[i] = ParamEdge
      <3> DEFINE name  == trie.param[SubSeq(n, 1, i - 1)]
                 value == <<Text[parts[i]].many>>
      <3>1. name \in Name
        BY <2>3 DEF TrieShaped
      <3>2. value \in Seq(STRING)
        BY <1>2, <2>1, <2>2
      <3>3. Captured(trie, n, parts, i, buf) = Push(buf, name, value)
        BY <2>3 DEF Captured
      <3> HIDE DEF name, value
      <3> QED BY <3>1, <3>2, <3>3 DEF Push, Capture
    <2>4. CASE n[i] # ParamEdge /\ n[i] = WildEdge
      <3> DEFINE name  == trie.wild[SubSeq(n, 1, i - 1)]
                 value == Remaining(parts, i)
      <3>1. name \in Name
        BY <2>4 DEF TrieShaped
      <3>2. value \in Seq(STRING)
        <4>1. Len(parts) - i + 1 \in Nat
          BY <1>1
        <4>2. \A k \in 1 .. Len(parts) - i + 1 : Text[parts[i + k - 1]].many \in STRING
          BY <1>1, <1>2, <2>1
        <4> QED BY <4>1, <4>2 DEF Remaining
      <3>3. Captured(trie, n, parts, i, buf) = Push(buf, name, value)
        BY <2>4 DEF Captured
      <3> HIDE DEF name, value
      <3> QED BY <3>1, <3>2, <3>3 DEF Push, Capture
    <2>5. CASE n[i] # ParamEdge /\ n[i] # WildEdge
      BY <2>5 DEF Captured
    <2> QED BY <2>3, <2>4, <2>5
  <1> QED BY <1>1, <1>3 DEF CapturesTyped

LEMMA MatchesAreLeaves ==
  ASSUME NEW trie, TrieShaped(trie), NEW parts \in Seq(Comp), NEW verb, NEW u \in Node
  PROVE  /\ MatchesBelow(trie, u, parts, verb) \in SUBSET DOMAIN trie.leaf
         /\ MatchesBelow(trie, u, parts, verb) \in SUBSET Node
         /\ Len(u) < Len(parts) =>
              \A n \in MatchesBelow(trie, u, parts, verb) :
                Extends(n, u) /\ Len(n) > Len(u) /\ Len(n) <= Len(parts)
  <1>1. /\ MatchesBelow(trie, u, parts, verb) \in SUBSET DOMAIN trie.leaf
        /\ MatchesBelow(trie, u, parts, verb) \in SUBSET Node
    BY DEF MatchesBelow, TrieShaped
  <1>2. ASSUME Len(u) < Len(parts), NEW n \in MatchesBelow(trie, u, parts, verb)
        PROVE  Extends(n, u) /\ Len(n) > Len(u) /\ Len(n) <= Len(parts)
    <2>1. Len(u) \in Nat /\ Len(n) \in Nat /\ Len(parts) \in Nat
      BY <1>1 DEF Node
    <2>2. ~(Len(u) >= Len(parts))
      BY <1>2, <2>1
    <2>3. /\ Extends(n, u) /\ Len(n) > Len(u)
          /\ IF n[Len(n)] = WildEdge THEN Len(n) <= Len(parts) ELSE Len(n) = Len(parts)
      BY <2>2 DEF MatchesBelow
    <2> QED BY <2>1, <2>3
  <1> QED BY <1>1, <1>2

\* The captures of leaves below a node, begun at one of its children.
LEMMA OutcomeOfChild ==
  ASSUME NEW trie, TrieShaped(trie), NEW parts \in Seq(Comp),
         NEW k \in Nat, NEW M \in SUBSET DOMAIN trie.leaf,
         NEW buf \in Seq(Capture), NEW after \in Seq(Capture), NEW res,
         \A n \in M : /\ Len(n) > k /\ Len(n) <= Len(parts)
                      /\ Captured(trie, n, parts, k + 1, buf) = after,
         M # {}, Outcome(trie, parts, M, k + 1, after, res)
  PROVE  Outcome(trie, parts, M, k, buf, res)
  <1>1. PICK b \in M : /\ \A o \in M \ {b} : Precedes(b, o)
                       /\ res = Hit(trie.leaf[b], CapturesBehind(trie, b, parts, k + 1, after))
    BY Zenon DEF Outcome
  <1>2. Len(b) \in Nat /\ k \in 0 .. Len(b) /\ k < Len(b)
    BY DEF TrieShaped, Node
  <1>3. CapturesTyped(trie, b, parts)
    BY LeafCapturesTyped
  <1>4. CapturesBehind(trie, b, parts, k, buf) = CapturesBehind(trie, b, parts, k + 1, after)
    BY <1>2, <1>3, CapturesUnfold
  <1> QED BY <1>1, <1>4, Zenon DEF Outcome
LEMMA LiteralOutcome ==
  ASSUME NEW trie, TrieShaped(trie), NEW parts \in Seq(Comp), NEW verb,
         NEW u \in Node, Len(u) < Len(parts), NEW Search,
         \A w \in Nodes(trie) : Len(w) > Len(u) => Finds(Search, trie, w, parts, verb),
         NEW buf \in Seq(Capture)
  PROVE  Outcome(trie, parts, LitMatches(trie, u, parts, verb), Len(u), buf,
                 LiteralBranch(Search, trie, u, parts, buf))
  <1> DEFINE lit == Append(u, LitEdge(parts[Len(u) + 1]))
             M   == LitMatches(trie, u, parts, verb)
             res == Search[<<lit, buf>>]
  <1>1. Len(u) \in Nat /\ Len(u) + 1 \in 1 .. Len(parts)
    BY DEF Node
  <1>2. lit \in Node /\ Len(lit) = Len(u) + 1
    <2>1. LitEdge(parts[Len(u) + 1]) \in Edge
      BY <1>1, EdgesDiffer
    <2> QED BY <1>1, <2>1, ChildOf
  <1>3. CASE lit \in Nodes(trie)
    <2>1. M = MatchesBelow(trie, lit, parts, verb) /\ LiteralBranch(Search, trie, u, parts, buf) = res
      BY <1>3, Zenon DEF LitMatches, LiteralBranch
    <2>2. Finds(Search, trie, lit, parts, verb)
      <3> HIDE DEF lit
      <3> QED BY <1>1, <1>2, <1>3
    <2>3. Outcome(trie, parts, M, Len(u) + 1, buf, res)
      <3> HIDE DEF lit
      <3> QED BY <1>2, <2>1, <2>2, Zenon DEF Finds
    <2>4. CASE M = {}
      BY <2>1, <2>3, <2>4, Zenon DEF Outcome
    <2>5. CASE M # {}
      <3>1. M \in SUBSET DOMAIN trie.leaf
        BY <1>2, <2>1, MatchesAreLeaves
      <3>2. ASSUME NEW n \in M
            PROVE  /\ Len(n) > Len(u) /\ Len(n) <= Len(parts)
                   /\ Captured(trie, n, parts, Len(u) + 1, buf) = buf
        <4>1. n \in MatchesBelow(trie, u, parts, verb) /\ n[Len(u) + 1] = LitEdge(parts[Len(u) + 1])
          BY <3>2, MatchesSplit
        <4> QED BY <4>1, MatchesAreLeaves, EdgesDiffer DEF Captured
      <3> HIDE DEF M, res
      <3>3. Outcome(trie, parts, M, Len(u), buf, res)
        BY <1>1, <2>3, <2>5, <3>1, <3>2, OutcomeOfChild
      <3> QED BY <2>1, <3>3 DEF M
    <2> QED BY <2>4, <2>5
  <1>4. CASE lit \notin Nodes(trie)
    BY <1>4, Zenon DEF LitMatches, LiteralBranch, Outcome
  <1> QED BY <1>3, <1>4

LEMMA PopOfPush ==
  ASSUME NEW buf \in Seq(Capture), NEW name \in Name, NEW value \in Seq(STRING)
  PROVE  Push(buf, name, value) \in Seq(Capture) /\ Pop(Push(buf, name, value)) = buf
  <1> DEFINE c == [name |-> name, value |-> value]
             s == SubSeq(Append(buf, c), 1, Len(buf))
  <1>1. c \in Capture
    BY DEF Capture
  <1> HIDE DEF c
  <1>2. Append(buf, c) \in Seq(Capture) /\ Len(Append(buf, c)) = Len(buf) + 1 /\ Len(buf) \in Nat
    BY <1>1
  <1>3. s \in Seq(Capture) /\ Len(s) = Len(buf) /\ \A i \in 1 .. Len(buf) : s[i] = buf[i]
    BY <1>1, <1>2
  <1>4. s = buf
    <2> HIDE DEF s
    <2> QED BY <1>3, SeqEqual
  <1>5. Pop(Append(buf, c)) = s
    BY <1>2 DEF Pop
  <1> QED BY <1>2, <1>4, <1>5 DEF Push, c

LEMMA ParamOutcome ==
  ASSUME NEW trie, TrieShaped(trie), NEW parts \in Seq(Comp), NEW verb,
         NEW u \in Node, Len(u) < Len(parts), NEW Search,
         \A w \in Nodes(trie) : Len(w) > Len(u) => Finds(Search, trie, w, parts, verb),
         NEW buf \in Seq(Capture)
  PROVE  Outcome(trie, parts, ParamMatches(trie, u, parts, verb), Len(u), buf,
                 ParamBranch(Search, trie, u, parts, buf))
  <1> DEFINE par   == Append(u, ParamEdge)
             value == Text[parts[Len(u) + 1]].many
             after == Push(buf, trie.param[u], <<value>>)
             M     == ParamMatches(trie, u, parts, verb)
             res   == Search[<<par, after>>]
             tried == u \in DOMAIN trie.param /\ value # Malformed
  <1>1. Len(u) \in Nat /\ Len(u) + 1 \in 1 .. Len(parts)
    BY DEF Node
  <1>2. par \in Node /\ Len(par) = Len(u) + 1
    BY ChildOf, EdgesDiffer
  <1>3. CASE tried
    <2>1. /\ M = MatchesBelow(trie, par, parts, verb)
          /\ ParamBranch(Search, trie, u, parts, buf) = Undone(res)
      BY <1>3, Zenon DEF ParamMatches, ParamBranch
    <2>2. par \in Nodes(trie) /\ trie.param[u] \in Name
      BY <1>3 DEF TrieShaped
    <2>3. after \in Seq(Capture) /\ Pop(after) = buf
      <3>1. parts[Len(u) + 1] \in Comp
        BY <1>1
      <3>2. value \in STRING
        BY <3>1, PathTemplateAssumption DEF TextOK
      <3>3. <<value>> \in Seq(STRING)
        BY <3>2
      <3> QED BY <2>2, <3>3, PopOfPush
    <2>4. Outcome(trie, parts, M, Len(u) + 1, after, res)
      <3> HIDE DEF par, after
      <3>1. Finds(Search, trie, par, parts, verb)
        BY <1>1, <1>2, <2>2
      <3> QED BY <1>2, <2>1, <2>3, <3>1, Zenon DEF Finds
    <2>5. M \in SUBSET DOMAIN trie.leaf
      BY <1>2, <2>1, MatchesAreLeaves
    <2>6. CASE M = {}
      <3>1. res = Miss(after)
        BY <2>4, <2>6, Zenon DEF Outcome
      <3>2. Undone(res) = Miss(buf)
        <4> HIDE DEF res, after
        <4> QED BY <2>3, <3>1 DEF Undone, Miss
      <3> QED BY <2>1, <2>6, <3>2, Zenon DEF Outcome
    <2>7. CASE M # {}
      <3>1. ASSUME NEW n \in M
            PROVE  /\ Len(n) > Len(u) /\ Len(n) <= Len(parts)
                   /\ Captured(trie, n, parts, Len(u) + 1, buf) = after
        <4>1. n \in MatchesBelow(trie, u, parts, verb) /\ n[Len(u) + 1] = ParamEdge
          BY <3>1, MatchesSplit
        <4>2. n \in Node /\ Extends(n, u) /\ Len(n) > Len(u) /\ Len(n) <= Len(parts)
          BY <4>1, MatchesAreLeaves
        <4>3. u = SubSeq(n, 1, Len(u) + 1 - 1)
          BY <1>1, <4>2, ExtendsPrefix
        <4>4. Captured(trie, n, parts, Len(u) + 1, buf)
                = Push(buf, trie.param[SubSeq(n, 1, Len(u) + 1 - 1)], <<value>>)
          BY <4>1 DEF Captured
        <4> QED BY <4>2, <4>3, <4>4
      <3> HIDE DEF M, res, after
      <3>2. Outcome(trie, parts, M, Len(u), buf, res)
        BY <1>1, <2>3, <2>4, <2>5, <2>7, <3>1, OutcomeOfChild
      <3>3. Undone(res) = res
        BY <2>5, <2>7, <3>2, OutcomeMiss DEF Undone
      <3> QED BY <2>1, <3>2, <3>3 DEF M
    <2> QED BY <2>6, <2>7
  <1>4. CASE ~tried
    BY <1>4, Zenon DEF ParamMatches, ParamBranch, Outcome
  <1> QED BY <1>3, <1>4

LEMMA WildOutcome ==
  ASSUME NEW trie, TrieShaped(trie), NEW parts \in Seq(Comp), NEW verb,
         NEW u \in Node, Len(u) < Len(parts), NEW buf \in Seq(Capture)
  PROVE  Outcome(trie, parts, WildMatches(trie, u, parts, verb), Len(u), buf,
                 WildBranch(trie, u, parts, verb, buf))
  <1> DEFINE wild  == Append(u, WildEdge)
             rest  == Remaining(parts, Len(u) + 1)
             M     == WildMatches(trie, u, parts, verb)
             taken == /\ u \in DOMAIN trie.wild /\ Malformed \notin {rest[k] : k \in DOMAIN rest}
                      /\ IsLeafFor(trie, wild, verb)
             hit   == Hit(trie.leaf[wild], Push(buf, trie.wild[u], rest))
  <1>1. Len(u) \in Nat
    BY DEF Node
  <1>2. wild \in Node /\ Len(wild) = Len(u) + 1
    BY ChildOf, EdgesDiffer
  <1>3. WildBranch(trie, u, parts, verb, buf) = IF taken THEN hit ELSE Miss(buf)
    BY Zenon DEF WildBranch
  <1>4. CASE taken
    <2>1. M = {wild}
      BY <1>4, Zenon DEF WildMatches
    <2>2. /\ wild \in DOMAIN trie.leaf /\ Extends(wild, u) /\ Len(wild) <= Len(parts)
          /\ wild[Len(u) + 1] = WildEdge
      <3>1. wild \in M
        BY <2>1
      <3> HIDE DEF wild
      <3>2. wild \in MatchesBelow(trie, u, parts, verb) /\ wild[Len(u) + 1] = WildEdge
        BY <3>1, MatchesSplit
      <3> QED BY <3>2, MatchesAreLeaves
    <2> HIDE DEF wild
    <2>3. u = SubSeq(wild, 1, Len(u) + 1 - 1)
      BY <1>1, <1>2, <2>2, ExtendsPrefix
    <2>4. Captured(trie, wild, parts, Len(u) + 1, buf) = Push(buf, trie.wild[u], rest)
      <3>1. wild[Len(u) + 1] # ParamEdge
        BY <2>2, EdgesDiffer
      <3>2. Captured(trie, wild, parts, Len(u) + 1, buf)
              = Push(buf, trie.wild[SubSeq(wild, 1, Len(u) + 1 - 1)], rest)
        BY <2>2, <3>1 DEF Captured
      <3> QED BY <2>3, <3>2
    <2>5. CapturesBehind(trie, wild, parts, Len(u), buf) = Push(buf, trie.wild[u], rest)
      <3> HIDE DEF rest
      <3>1. CapturesTyped(trie, wild, parts)
        BY <2>2, LeafCapturesTyped
      <3>2. Len(u) \in 0 .. Len(wild) /\ Len(u) < Len(wild) /\ Len(wild) \in Nat
        BY <1>1, <1>2
      <3>3. CapturesBehind(trie, wild, parts, Len(u), buf)
              = CapturesBehind(trie, wild, parts, Len(wild), Push(buf, trie.wild[u], rest))
        BY <1>2, <2>4, <3>1, <3>2, CapturesUnfold
      <3> QED BY <3>2, <3>3, CapturesNone
    <2>6. Outcome(trie, parts, {wild}, Len(u), buf, hit)
      <3> HIDE DEF rest
      <3>1. hit = Hit(trie.leaf[wild], CapturesBehind(trie, wild, parts, Len(u), buf))
        BY <2>5
      <3> QED BY <3>1, Zenon DEF Outcome
    <2> QED BY <1>3, <1>4, <2>1, <2>6
  <1>5. CASE ~taken
    <2>1. M = {}
      BY <1>5, Zenon DEF WildMatches
    <2> QED BY <1>3, <1>5, <2>1, Zenon DEF Outcome
  <1> QED BY <1>4, <1>5
-----------------------------------------------------------------------------
(* The search.                                                             *)

LEMMA RanksOfMatches ==
  ASSUME NEW trie, TrieShaped(trie), NEW parts \in Seq(Comp), NEW verb,
         NEW u \in Node, Len(u) < Len(parts)
  PROVE  LET lits   == LitMatches(trie, u, parts, verb)
             params == ParamMatches(trie, u, parts, verb)
             wilds  == WildMatches(trie, u, parts, verb)
         IN  /\ lits \cup params \in SUBSET DOMAIN trie.leaf
             /\ wilds \in SUBSET DOMAIN trie.leaf
             /\ \A n1 \in lits, n2 \in params : Precedes(n1, n2)
             /\ \A n1 \in lits \cup params, n2 \in wilds : Precedes(n1, n2)
  <1> DEFINE lits   == LitMatches(trie, u, parts, verb)
             params == ParamMatches(trie, u, parts, verb)
             wilds  == WildMatches(trie, u, parts, verb)
  <1>1. \A n \in (lits \cup params) \cup wilds :
          n \in DOMAIN trie.leaf /\ n \in Node /\ Extends(n, u) /\ Len(n) > Len(u)
    BY MatchesSplit, MatchesAreLeaves
  <1>2. /\ \A n \in lits : Rank(n[Len(u) + 1]) = 1
        /\ \A n \in params : Rank(n[Len(u) + 1]) = 2
        /\ \A n \in wilds : Rank(n[Len(u) + 1]) = 3
    BY MatchesSplit, Ranks
  <1> HIDE DEF lits, params, wilds
  <1>3. \A n1 \in lits, n2 \in params : Precedes(n1, n2)
    BY <1>1, <1>2, PrecedesByRank
  <1>4. \A n1 \in lits \cup params, n2 \in wilds : Precedes(n1, n2)
    BY <1>1, <1>2, PrecedesByRank
  <1> QED BY <1>1, <1>3, <1>4 DEF lits, params, wilds

\* If the search finds what is below all longer nodes, then it finds what is
\* below this one.
LEMMA SearchStep ==
  ASSUME NEW trie, TrieShaped(trie), NEW parts \in Seq(Comp), NEW verb,
         NEW u \in Nodes(trie), NEW Search,
         Len(u) < Len(parts) =>
           \A w \in Nodes(trie) : Len(w) > Len(u) => Finds(Search, trie, w, parts, verb),
         NEW buf \in Seq(Capture)
  PROVE  Outcome(trie, parts, MatchesBelow(trie, u, parts, verb), Len(u), buf,
                 FromNode(Search, trie, u, parts, verb, buf))
  <1> DEFINE below == MatchesBelow(trie, u, parts, verb)
             res   == FromNode(Search, trie, u, parts, verb, buf)
  <1>1. u \in Node /\ Len(u) \in Nat /\ Len(parts) \in Nat
    BY NodesAreNodes DEF Node
  <1>2. CASE Len(u) >= Len(parts)
    <2>1. \A n : n \in below <=> n = u /\ IsLeafFor(trie, u, verb)
      <3>1. ASSUME NEW n \in below PROVE n = u /\ IsLeafFor(trie, u, verb)
        <4>1. n \in Node /\ Len(n) = Len(u) /\ Extends(n, u) /\ IsLeafFor(trie, n, verb)
          BY <1>2 DEF MatchesBelow, TrieShaped
        <4>2. n = u
          BY <1>1, <4>1, SeqEqual DEF Extends, Node
        <4> QED BY <4>1, <4>2
      <3>2. ASSUME IsLeafFor(trie, u, verb) PROVE u \in below
        <4>1. u \in DOMAIN trie.leaf /\ Extends(u, u)
          BY <1>1, <3>2 DEF IsLeafFor, Extends
        <4>2. Len(u) + 1 .. Len(u) = {}
          BY <1>1
        <4> QED BY <1>1, <1>2, <3>2, <4>1, <4>2 DEF MatchesBelow
      <3> QED BY <3>1, <3>2
    <2>2. res = IF IsLeafFor(trie, u, verb) THEN Hit(trie.leaf[u], buf) ELSE Miss(buf)
      BY <1>2, Zenon DEF FromNode
    <2>3. CASE IsLeafFor(trie, u, verb)
      <3>1. below = {u}
        BY <2>1, <2>3
      <3>2. res = Hit(trie.leaf[u], CapturesBehind(trie, u, parts, Len(u), buf))
        BY <1>1, <2>2, <2>3, CapturesNone
      <3> HIDE DEF below, res
      <3> QED BY <3>1, <3>2, Zenon DEF Outcome, below, res
    <2>4. CASE ~IsLeafFor(trie, u, verb)
      <3>1. below = {}
        BY <2>1, <2>4
      <3> QED BY <2>2, <2>4, <3>1, Zenon DEF Outcome
    <2> QED BY <2>3, <2>4
  <1>3. CASE Len(u) < Len(parts)
    <2> DEFINE lits   == LitMatches(trie, u, parts, verb)
               params == ParamMatches(trie, u, parts, verb)
               wilds  == WildMatches(trie, u, parts, verb)
               lit    == LiteralBranch(Search, trie, u, parts, buf)
               param(b) == ParamBranch(Search, trie, u, parts, b)
               wild(b)  == WildBranch(trie, u, parts, verb, b)
               one    == IF lit.route # NoRoute THEN lit ELSE param(lit.buf)
    <2>1. res = IF one.route # NoRoute THEN one ELSE wild(one.buf)
      <3>1. ~(Len(u) >= Len(parts))
        BY <1>1, <1>3
      <3> QED BY <3>1, Zenon DEF FromNode, OrElse
    <2>2. Outcome(trie, parts, lits, Len(u), buf, lit)
      BY <1>1, <1>3, LiteralOutcome
    <2>3. Outcome(trie, parts, params, Len(u), buf, param(buf))
      BY <1>1, <1>3, ParamOutcome
    <2>4. Outcome(trie, parts, wilds, Len(u), buf, wild(buf))
      BY <1>1, <1>3, WildOutcome
    <2>5. /\ lits \cup params \in SUBSET DOMAIN trie.leaf
          /\ wilds \in SUBSET DOMAIN trie.leaf
          /\ \A n1 \in lits, n2 \in params : Precedes(n1, n2)
          /\ \A n1 \in lits \cup params, n2 \in wilds : Precedes(n1, n2)
      BY <1>1, <1>3, RanksOfMatches
    <2>6. below = (lits \cup params) \cup wilds
      BY <1>1, <1>3, MatchesSplit
    <2> HIDE DEF below, res, lits, params, wilds, lit, param, wild
    <2>7. one = IF lit.route # NoRoute THEN lit ELSE param(buf)
      <3>1. lit.route = NoRoute => lit = Miss(buf)
        <4>1. lits \in SUBSET DOMAIN trie.leaf
          BY <2>5
        <4> QED BY <2>2, <4>1, OutcomeMiss
      <3> QED BY <3>1 DEF Miss
    <2>8. Outcome(trie, parts, lits \cup params, Len(u), buf, one)
      <3>1. lits \in SUBSET DOMAIN trie.leaf /\ params \in SUBSET DOMAIN trie.leaf
        BY <2>5
      <3>2. \A n1 \in lits, n2 \in params : Precedes(n1, n2)
        BY <2>5, Zenon
      <3> HIDE DEF one
      <3>3. Outcome(trie, parts, lits \cup params, Len(u), buf, IF lit.route # NoRoute THEN lit ELSE param(buf))
        BY <1>1, <2>2, <2>3, <3>1, <3>2, OutcomeOrElse, Zenon
      <3> QED BY <2>7, <3>3, Zenon
    <2> HIDE DEF one
    <2>9. res = IF one.route # NoRoute THEN one ELSE wild(buf)
      <3>1. one.route = NoRoute => one = Miss(buf)
        BY <2>5, <2>8, OutcomeMiss
      <3> QED BY <2>1, <3>1 DEF Miss
    <2>10. Outcome(trie, parts, (lits \cup params) \cup wilds, Len(u), buf, res)
      BY <2>4, <2>5, <2>8, <2>9, OutcomeOrElse
    <2> QED BY <2>6, <2>10 DEF below, res
  <1> QED BY <1>1, <1>2, <1>3

\* What a search finds that is built on itself: what is below every node.
LEMMA SearchFinds ==
  ASSUME NEW trie, TrieShaped(trie), NEW parts \in Seq(Comp), NEW verb, NEW Search,
         \A u \in Nodes(trie), buf \in Seq(Capture) :
           (\A w \in Nodes(trie) : Len(w) > Len(u) => Finds(Search, trie, w, parts, verb))
             \/ Len(u) >= Len(parts)
           => Outcome(trie, parts, MatchesBelow(trie, u, parts, verb), Len(u), buf, Search[<<u, buf>>])
  PROVE  \A u \in Nodes(trie) : Finds(Search, trie, u, parts, verb)
  <1> DEFINE bad == {u \in Nodes(trie) : ~Finds(Search, trie, u, parts, verb)}
  <1>1. CASE bad = {}
    BY <1>1
  <1>2. CASE bad # {}
    <2>1. bad \in SUBSET Node /\ Len(parts) \in Nat
      BY NodesAreNodes
    <2>2. PICK u \in bad : Len(u) < Len(parts) => \A w \in bad : Len(w) <= Len(u)
      BY <1>2, <2>1, Deepest
    <2>3. Len(u) \in Nat /\ \A w \in Nodes(trie) : Len(w) \in Nat
      BY NodesAreNodes DEF Node
    <2>4. (\A w \in Nodes(trie) : Len(w) > Len(u) => Finds(Search, trie, w, parts, verb))
             \/ Len(u) >= Len(parts)
      BY <2>1, <2>2, <2>3
    <2>5. Finds(Search, trie, u, parts, verb)
      BY <2>4, Zenon DEF Finds
    <2> QED BY <2>5
  <1> QED BY <1>1, <1>2
\* The trie lookup finds the first of the leaves below the root that match.
LEMMA TrieLookupOutcome ==
  ASSUME NEW trie, TrieShaped(trie), NEW parts \in Seq(Comp), NEW verb
  PROVE  Outcome(trie, parts, MatchesBelow(trie, <<>>, parts, verb), 0, <<>>,
                 TrieLookup(trie, parts, verb))
  <1> DEFINE At       == Nodes(trie) \X Seq(Capture)
             Below(F) == [at \in At |-> FromNode(F, trie, at[1], parts, verb, at[2])]
             found    == CHOOSE F : F = Below(F)
             Found1(u, buf, res) ==
               Outcome(trie, parts, MatchesBelow(trie, u, parts, verb), Len(u), buf, res)
             some     == [at \in At |-> CHOOSE res : Found1(at[1], at[2], res)]
  <1>1. <<>> \in Nodes(trie) /\ <<>> \in Seq(Capture) /\ Nodes(trie) \in SUBSET Node
    BY NodesAreNodes
  <1>2. ASSUME NEW F, NEW u \in Nodes(trie), NEW buf \in Seq(Capture),
               (\A w \in Nodes(trie) : Len(w) > Len(u) => Finds(F, trie, w, parts, verb))
                 \/ Len(u) >= Len(parts)
        PROVE  Found1(u, buf, FromNode(F, trie, u, parts, verb, buf))
    <2>1. Len(u) < Len(parts) =>
            \A w \in Nodes(trie) : Len(w) > Len(u) => Finds(F, trie, w, parts, verb)
      <3>1. Len(u) \in Nat /\ Len(parts) \in Nat
        BY <1>1 DEF Node
      <3> QED BY <1>2, <3>1
    <2> QED BY <2>1, SearchStep
  <1>3. \A u \in Nodes(trie), buf \in Seq(Capture) :
          some[<<u, buf>>] = CHOOSE res : Found1(u, buf, res)
    <2> HIDE DEF Found1
    <2> QED OBVIOUS
  <1> HIDE DEF some
  <1>4. \A u \in Nodes(trie), buf \in Seq(Capture) :
          (\A w \in Nodes(trie) : Len(w) > Len(u) => Finds(some, trie, w, parts, verb))
            \/ Len(u) >= Len(parts)
          => Found1(u, buf, some[<<u, buf>>])
    <2> HIDE DEF Found1
    <2> QED BY <1>2, <1>3, Zenon
  <1>5. \A u \in Nodes(trie) : Finds(some, trie, u, parts, verb)
    BY <1>4, SearchFinds
  <1>6. some = Below(some)
    <2>1. ASSUME NEW u \in Nodes(trie), NEW buf \in Seq(Capture)
          PROVE  some[<<u, buf>>] = FromNode(some, trie, u, parts, verb, buf)
      <3>1. Found1(u, buf, FromNode(some, trie, u, parts, verb, buf))
        BY <1>2, <1>5
      <3>2. Found1(u, buf, some[<<u, buf>>])
        BY <1>5, Zenon DEF Finds
      <3>3. MatchesBelow(trie, u, parts, verb) \in SUBSET Node
        BY <1>1, MatchesAreLeaves
      <3> QED BY <3>1, <3>2, <3>3, OutcomeUnique
    <2>2. \A at \in At : some[at] = FromNode(some, trie, at[1], parts, verb, at[2])
      BY <2>1
    <2>3. some = [at \in At |-> some[at]]
      <3> HIDE DEF Found1
      <3> QED BY DEF some
    <2> QED BY <2>2, <2>3
  <1>7. found = Below(found)
    <2> HIDE DEF Below
    <2> QED BY <1>6, Zenon
  <1>8. TrieLookup(trie, parts, verb) = found[<< <<>>, <<>> >>]
    BY Zenon DEF TrieLookup
  <1> HIDE DEF found
  <1>9. \A u \in Nodes(trie), buf \in Seq(Capture) :
          found[<<u, buf>>] = FromNode(found, trie, u, parts, verb, buf)
    <2>1. \A u \in Nodes(trie), buf \in Seq(Capture) :
            Below(found)[<<u, buf>>] = FromNode(found, trie, u, parts, verb, buf)
      OBVIOUS
    <2> HIDE DEF Below
    <2> QED BY <1>7, <2>1
  <1>10. \A u \in Nodes(trie) : Finds(found, trie, u, parts, verb)
    <2>1. \A u \in Nodes(trie), buf \in Seq(Capture) :
            (\A w \in Nodes(trie) : Len(w) > Len(u) => Finds(found, trie, w, parts, verb))
              \/ Len(u) >= Len(parts)
            => Found1(u, buf, found[<<u, buf>>])
      <3> HIDE DEF Found1
      <3> QED BY <1>2, <1>9, Zenon
    <2> QED BY <2>1, SearchFinds
  <1>11. Outcome(trie, parts, MatchesBelow(trie, <<>>, parts, verb), Len(<<>>), <<>>,
                 found[<< <<>>, <<>> >>])
    BY <1>1, <1>10, Zenon DEF Finds
  <1>12. Len(<<>>) = 0
    OBVIOUS
  <1> QED BY <1>8, <1>11, <1>12, Zenon

LEMMA TopMatches ==
  ASSUME NEW trie, TrieShaped(trie), NEW parts \in Seq(Comp), NEW verb
  PROVE  MatchesBelow(trie, <<>>, parts, verb)
           = {n \in DOMAIN trie.leaf : NodeMatches(trie, n, parts, verb)}
  <1> DEFINE L == Len(parts)
  <1>1. L \in Nat /\ Len(<<>>) = 0
    OBVIOUS
  <1>2. ASSUME NEW n \in DOMAIN trie.leaf
        PROVE  n \in MatchesBelow(trie, <<>>, parts, verb) <=> NodeMatches(trie, n, parts, verb)
    <2>1. n \in Node /\ Len(n) \in Nat /\ Len(n) > 0 /\ DOMAIN n = 1 .. Len(n)
      BY DEF TrieShaped, Node
    <2>2. Extends(n, <<>>)
      BY <1>1, <2>1 DEF Extends
    <2> DEFINE fits == \A i \in 1 .. Len(n) : EdgeFits(n, i, parts)
               wild == WildEdge \in {n[i] : i \in DOMAIN n}
    <2>3. n \in MatchesBelow(trie, <<>>, parts, verb)
            <=> /\ IsLeafFor(trie, n, verb)
                /\ IF 0 >= L THEN Len(n) = 0
                   ELSE IF n[Len(n)] = WildEdge THEN Len(n) <= L ELSE Len(n) = L
                /\ fits
      <3> HIDE DEF L
      <3>1. 0 + 1 = 1 /\ Len(n) > 0
        BY <2>1
      <3> QED BY <1>1, <2>1, <2>2, <3>1 DEF MatchesBelow, L
    <2>4. NodeMatches(trie, n, parts, verb)
            <=> /\ IsLeafFor(trie, n, verb)
                /\ IF wild THEN Len(n) <= L ELSE Len(n) = L
                /\ fits
      BY <2>1 DEF NodeMatches
    <2>5. fits => (wild <=> n[Len(n)] = WildEdge)
      <3>1. Len(n) \in DOMAIN n
        BY <2>1
      <3>2. ASSUME fits, NEW i \in DOMAIN n, n[i] = WildEdge PROVE i = Len(n)
        BY <2>1, <3>2, EdgesDiffer DEF EdgeFits
      <3> QED BY <3>1, <3>2
    <2> HIDE DEF fits, wild, L
    <2>6. ASSUME fits
          PROVE  (IF 0 >= L THEN Len(n) = 0
                  ELSE IF n[Len(n)] = WildEdge THEN Len(n) <= L ELSE Len(n) = L)
                 <=> (IF wild THEN Len(n) <= L ELSE Len(n) = L)
      <3>1. wild <=> n[Len(n)] = WildEdge
        BY <2>5, <2>6
      <3>2. L \in Nat /\ Len(n) \in Nat /\ Len(n) > 0
        BY <1>1, <2>1
      <3>3. CASE 0 >= L
        <4>1. L = 0
          BY <3>2, <3>3
        <4> QED BY <3>2, <4>1
      <3>4. CASE ~(0 >= L)
        BY <3>1, <3>4
      <3> QED BY <3>3, <3>4
    <2> QED BY <2>3, <2>4, <2>6
  <1>3. MatchesBelow(trie, <<>>, parts, verb) \in SUBSET DOMAIN trie.leaf
    BY DEF MatchesBelow
  <1> QED BY <1>2, <1>3

\* The search of a well-shaped trie against the reference: the first matching
\* leaf in literal, parameter, wildcard order, with its own captures.
LEMMA SearchIsReference ==
  ASSUME NEW trie, TrieShaped(trie), NEW parts \in Seq(Comp), NEW verb
  PROVE  LET hit     == TrieLookup(trie, parts, verb)
             matches == {n \in DOMAIN trie.leaf : NodeMatches(trie, n, parts, verb)}
         IN  IF matches = {} THEN hit = Miss(<<>>)
             ELSE \E best \in matches :
                    /\ \A o \in matches \ {best} : Precedes(best, o)
                    /\ hit = Hit(trie.leaf[best], NodeCaptures(trie, best, parts))
  <1> DEFINE matches == {n \in DOMAIN trie.leaf : NodeMatches(trie, n, parts, verb)}
             hit     == TrieLookup(trie, parts, verb)
  <1>1. Outcome(trie, parts, matches, 0, <<>>, hit)
    BY TrieLookupOutcome, TopMatches
  <1> HIDE DEF matches, hit
  <1>2. IF matches = {} THEN hit = Miss(<<>>)
        ELSE \E best \in matches :
               /\ \A o \in matches \ {best} : Precedes(best, o)
               /\ hit = Hit(trie.leaf[best], NodeCaptures(trie, best, parts))
    BY <1>1 DEF Outcome, NodeCaptures
  <1> QED BY <1>2 DEF matches, hit

-----------------------------------------------------------------------------
(* The table.                                                              *)

\* ServeMux.registerHandler gives every route a matcher.
AllHaveMatchers == \A r \in Route : HasMatch(r)

\* The matcher of a route that is only in the static index accepts nothing
\* but its static path.
StaticMatchersExact ==
  \A r \in Route, p \in Path :
    Static(r) # NoPath /\ TemplateOf(r) = NoTemplate /\ Matcher[r][p].tag = "ok" => p = Static(r)

-----------------------------------------------------------------------------
(* Lemmas.                                                                 *)

\* The routes registered for a method after one more registration.
LEMMA RegisteredGrows ==
  ASSUME NEW m \in Method, NEW r \in Route, added \in Seq(Method \X Route),
         added' = Append(added, <<m, r>>)
  PROVE  /\ added' \in Seq(Method \X Route)
         /\ \A k \in Method :
              Registered(k)' = IF k = m THEN Registered(k) \cup {r} ELSE Registered(k)
  <1>1. /\ added' \in Seq(Method \X Route)
        /\ Len(added') = Len(added) + 1
        /\ DOMAIN added = 1 .. Len(added) /\ DOMAIN added' = 1 .. Len(added')
        /\ \A i \in DOMAIN added : added'[i] = added[i]
        /\ added'[Len(added')] = <<m, r>>
        /\ Len(added) \in Nat
    OBVIOUS
  <1>2. ASSUME NEW k \in Method
        PROVE  Registered(k)' = IF k = m THEN Registered(k) \cup {r} ELSE Registered(k)
    <2>1. ASSUME NEW x \in Registered(k) PROVE x \in Registered(k)'
      BY <1>1, <2>1 DEF Registered
    <2>2. ASSUME k = m PROVE r \in Registered(k)'
      BY <1>1, <2>2 DEF Registered
    <2>3. ASSUME NEW x \in Registered(k)'
          PROVE  x \in Registered(k) \/ (k = m /\ x = r)
      <3>1. PICK i \in DOMAIN added' : added'[i][1] = k /\ x = added'[i][2]
        BY <2>3 DEF Registered
      <3>2. CASE i \in DOMAIN added
        BY <1>1, <3>1, <3>2 DEF Registered
      <3>3. CASE i = Len(added')
        BY <1>1, <3>1, <3>3
      <3> QED BY <1>1, <3>2, <3>3
    <2> QED BY <2>1, <2>2, <2>3
  <1> QED BY <1>1, <1>2

\* A longer set of elements admits the same sequences.
LEMMA SeqOfMore ==
  ASSUME NEW S, NEW T, S \subseteq T, NEW s \in Seq(S)
  PROVE  s \in Seq(T)
  BY ElementOfSeq, SeqDef

Holds(list, x) == \E i \in DOMAIN list : list[i] = x

\* A list with one more route in front.
LEMMA PrependHolds ==
  ASSUME NEW S, NEW list \in Seq(S), NEW r
  PROVE  /\ Prepend(list, r) \in Seq(S \cup {r})
         /\ Holds(Prepend(list, r), r)
         /\ \A x : Holds(list, x) => Holds(Prepend(list, r), x)
  <1>1. list \in Seq(S \cup {r}) /\ <<r>> \in Seq(S \cup {r})
    BY SeqOfMore
  <1>2. Prepend(list, r) = <<r>> \o list
    BY DEF Prepend
  <1>3. 1 \in DOMAIN Prepend(list, r)
    BY <1>1, <1>2
  <1>4. Prepend(list, r)[1] = r
    BY <1>1, <1>2
  <1>5. ASSUME NEW i \in DOMAIN list
        PROVE  i + 1 \in DOMAIN Prepend(list, r) /\ Prepend(list, r)[i + 1] = list[i]
    BY <1>1, <1>2
  <1>6. Holds(Prepend(list, r), r)
    BY <1>3, <1>4, Zenon DEF Holds
  <1>7. ASSUME NEW x, Holds(list, x) PROVE Holds(Prepend(list, r), x)
    BY <1>5, <1>7, Zenon DEF Holds
  <1> QED BY <1>1, <1>2, <1>6, <1>7

-----------------------------------------------------------------------------
(* The shape of the indexes.                                               *)

LEMMA TableInitTypeOK == TableInit => TableTypeOK
  BY RouteTableAssumption DEF TableInit, TableTypeOK, EmptyTrie

LEMMA AddKeepsTypeOK ==
  ASSUME TableTypeOK, NEW m \in Method, NEW r \in Route, Add(m, r)
  PROVE  TableTypeOK'
  <1> USE DEF TableTypeOK
  <1>1. /\ added' \in Seq(Method \X Route)
        /\ \A k \in Method :
             Registered(k)' = IF k = m THEN Registered(k) \cup {r} ELSE Registered(k)
    BY RegisteredGrows DEF Add
  <1>2. DOMAIN static' = Method /\ DOMAIN tries' = Method /\ DOMAIN fallback' = Method
    BY DEF Add
  <1>3. ASSUME NEW k \in Method, NEW p \in DOMAIN static'[k]
        PROVE  p = Static(static'[k][p]) /\ static'[k][p] \in Registered(k)'
    <2>1. CASE k = m /\ Static(r) # NoPath
      <3>1. static'[k] = Override(static[k], [x \in {Static(r)} |-> r])
        BY <2>1 DEF Add
      <3>2. CASE p = Static(r)
        BY <1>1, <2>1, <3>1, <3>2 DEF Override
      <3>3. CASE p # Static(r)
        BY <1>1, <1>3, <2>1, <3>1, <3>3 DEF Override
      <3> QED BY <3>2, <3>3
    <2>2. CASE ~(k = m /\ Static(r) # NoPath)
      BY <1>1, <1>3, <2>2 DEF Add
    <2> QED BY <2>1, <2>2
  <1>4. ASSUME NEW k \in Method, NEW n \in DOMAIN tries'[k].leaf
        PROVE  /\ n = CompiledEdges(TemplateOf(tries'[k].leaf[n]))
               /\ tries'[k].leaf[n] \in Registered(k)'
    <2>1. CASE k = m /\ InTrie(r)
      <3>1. tries'[k].leaf
              = Override(tries[k].leaf, [x \in {CompiledEdges(TemplateOf(r))} |-> r])
        BY <2>1 DEF Add, Insert
      <3>2. CASE n = CompiledEdges(TemplateOf(r))
        BY <1>1, <2>1, <3>1, <3>2 DEF Override
      <3>3. CASE n # CompiledEdges(TemplateOf(r))
        BY <1>1, <1>4, <2>1, <3>1, <3>3 DEF Override
      <3> QED BY <3>2, <3>3
    <2>2. CASE ~(k = m /\ InTrie(r))
      BY <1>1, <1>4, <2>2 DEF Add
    <2> QED BY <2>1, <2>2
  <1>5. ASSUME NEW k \in Method PROVE fallback'[k] \in Seq(Registered(k)')
    <2>1. CASE k = m /\ NeedsFallback(r)
      BY <1>1, <2>1, PrependHolds DEF Add
    <2>2. CASE ~(k = m /\ NeedsFallback(r))
      <3>1. fallback'[k] = fallback[k]
        BY <2>2 DEF Add
      <3>2. Registered(k) \subseteq Registered(k)'
        BY <1>1
      <3> QED BY <3>1, <3>2, SeqOfMore
    <2> QED BY <2>1, <2>2
  <1>6. methods' \subseteq Method
    BY DEF Add
  <1> QED BY <1>1, <1>2, <1>3, <1>4, <1>5, <1>6

\* The indexes keep their shape: every static entry, trie leaf and list entry
\* is a route registered for that method, stored where its template says.
THEOREM TableTypeCorrect == TableSpec => []TableTypeOK
  <1>1. TableInit => TableTypeOK
    BY TableInitTypeOK
  <1>2. TableTypeOK /\ [TableNext]_tableVars => TableTypeOK'
    <2> SUFFICES ASSUME TableTypeOK, [TableNext]_tableVars PROVE TableTypeOK'
      OBVIOUS
    <2>1. CASE TableNext
      BY <2>1, AddKeepsTypeOK DEF TableNext
    <2>2. CASE UNCHANGED tableVars
      BY <2>2 DEF tableVars, TableTypeOK, Registered
    <2> QED BY <2>1, <2>2
  <1> QED BY <1>1, <1>2, PTL DEF TableSpec

-----------------------------------------------------------------------------
(* The tries.                                                              *)

TriesShaped == \A m \in Method : TrieShaped(tries[m])

LEMMA NodesGrow ==
  ASSUME NEW trie1, NEW trie2, DOMAIN trie1.leaf \subseteq DOMAIN trie2.leaf
  PROVE  Nodes(trie1) \subseteq Nodes(trie2)
  BY DEF Nodes

\* The names that a template brings are below its own edges.
LEMMA NamesAtShape ==
  ASSUME NEW r \in Route, NEW e
  PROVE  LET t == TemplateOf(r)
         IN  /\ DOMAIN NamesAt(t, e) = {Above(t, i) : i \in {j \in DOMAIN t.segs : CompiledEdge(t, j) = e}}
             /\ \A u \in DOMAIN NamesAt(t, e) : NamesAt(t, e)[u] \in Name
             /\ DOMAIN CompiledEdges(t) = DOMAIN t.segs
             /\ \A i \in DOMAIN t.segs : CompiledEdges(t)[i] = CompiledEdge(t, i)
  <1> DEFINE t  == TemplateOf(r)
             at == {j \in DOMAIN t.segs : CompiledEdge(t, j) = e}
  <1>1. ASSUME NEW i PROVE CompiledName(t, i) \in Name
    <2>1. CASE CapturedAt(t, i) = {}
      <3>1. CompiledName(t, i) = "path"
        BY <2>1, Zenon DEF CompiledName
      <3> QED BY <3>1, Zenon DEF Name
    <2>2. CASE CapturedAt(t, i) # {}
      <3>1. PICK v \in DOMAIN t.vars : CompiledName(t, i) = t.vars[v].name
        <4>1. (CHOOSE v \in CapturedAt(t, i) : TRUE) \in CapturedAt(t, i)
          BY <2>2
        <4>2. (CHOOSE v \in CapturedAt(t, i) : TRUE) \in DOMAIN t.vars
          BY <4>1 DEF CapturedAt
        <4> QED BY <2>2, <4>2 DEF CompiledName
      <3>2. CompiledName(t, i) \in VarNames(t)
        BY <3>1 DEF VarNames
      <3> QED BY <3>2 DEF Name
    <2> QED BY <2>1, <2>2
  <1>2. NamesAt(t, e) = [u \in {Above(t, i) : i \in at} |-> CompiledName(t, Len(u) + 1)]
    BY Zenon DEF NamesAt
  <1>3. /\ DOMAIN NamesAt(t, e) = {Above(t, i) : i \in at}
        /\ \A u \in DOMAIN NamesAt(t, e) : NamesAt(t, e)[u] \in Name
    <2> HIDE DEF t, at
    <2> QED BY <1>1, <1>2
  <1>4. /\ DOMAIN CompiledEdges(t) = DOMAIN t.segs
        /\ \A i \in DOMAIN t.segs : CompiledEdges(t)[i] = CompiledEdge(t, i)
    <2> HIDE DEF t
    <2> QED BY DEF CompiledEdges
  <1> QED BY <1>3, <1>4, Zenon

LEMMA InsertKeepsShape ==
  ASSUME NEW trie, TrieShaped(trie), NEW r \in Route, InTrie(r)
  PROVE  TrieShaped(Insert(trie, r))
  <1> DEFINE t     == TemplateOf(r)
             edges == CompiledEdges(t)
             new   == Insert(trie, r)
             At(e) == {j \in DOMAIN t.segs : CompiledEdge(t, j) = e}
             params == NamesAt(t, ParamEdge)
             wilds  == NamesAt(t, WildEdge)
  <1>1. /\ new.leaf  = Override(trie.leaf, [n \in {edges} |-> r])
        /\ new.param = Override(params, trie.param)
        /\ new.wild  = Override(trie.wild, wilds)
    BY DEF Insert
  <1>2. /\ DOMAIN new.leaf  = DOMAIN trie.leaf \cup {edges}
        /\ new.leaf[edges] = r
        /\ \A n \in DOMAIN trie.leaf : n # edges => new.leaf[n] = trie.leaf[n]
    <2> HIDE DEF edges, new
    <2> QED BY <1>1 DEF Override
  <1>3. /\ DOMAIN new.param = DOMAIN trie.param \cup DOMAIN params
        /\ \A u \in DOMAIN new.param :
             new.param[u] = IF u \in DOMAIN trie.param THEN trie.param[u] ELSE params[u]
    <2> HIDE DEF params, new
    <2> QED BY <1>1 DEF Override
  <1>4. /\ DOMAIN new.wild = DOMAIN trie.wild \cup DOMAIN wilds
        /\ \A u \in DOMAIN new.wild :
             new.wild[u] = IF u \in DOMAIN wilds THEN wilds[u] ELSE trie.wild[u]
    <2> HIDE DEF wilds, new
    <2> QED BY <1>1 DEF Override
  <1>5. /\ DOMAIN params = {Above(t, i) : i \in At(ParamEdge)}
        /\ DOMAIN wilds = {Above(t, i) : i \in At(WildEdge)}
        /\ \A u \in DOMAIN params : params[u] \in Name
        /\ \A u \in DOMAIN wilds : wilds[u] \in Name
        /\ DOMAIN edges = DOMAIN t.segs
        /\ \A i \in DOMAIN t.segs : edges[i] = CompiledEdge(t, i)
    BY NamesAtShape, Zenon
  <1>6. edges \in Node /\ edges # <<>> /\ DOMAIN edges = 1 .. Len(edges) /\ Len(edges) \in Nat
    <2>1. edges \in Node /\ t.segs \in Seq(Segment)
      BY RouteTableAssumption
    <2>2. t.segs # <<>>
      BY DEF InTrie, Compilable
    <2>3. 1 \in DOMAIN t.segs
      <3> HIDE DEF t
      <3> QED BY <2>1, <2>2
    <2>4. 1 \in DOMAIN edges
      BY <1>5, <2>3
    <2> HIDE DEF edges
    <2> QED BY <2>1, <2>4 DEF Node
  <1> HIDE DEF new
  <1>7. ASSUME NEW n \in DOMAIN new.leaf
        PROVE  /\ n \in Node /\ n # <<>> /\ new.leaf[n] \in Route
               /\ \A i \in 1 .. Len(n) :
                    /\ n[i] = ParamEdge => SubSeq(n, 1, i - 1) \in DOMAIN new.param
                    /\ n[i] = WildEdge  => SubSeq(n, 1, i - 1) \in DOMAIN new.wild
    <2>1. CASE n = edges
      <3>1. ASSUME NEW i \in 1 .. Len(n), NEW e, n[i] = e
            PROVE  SubSeq(n, 1, i - 1) \in {Above(t, k) : k \in At(e)}
        <4>1. i \in At(e)
          BY <1>5, <1>6, <2>1, <3>1
        <4>2. SubSeq(n, 1, i - 1) = Above(t, i)
          BY <2>1, Zenon DEF Above
        <4> QED BY <4>1, <4>2, Zenon
      <3>2. \A i \in 1 .. Len(n) :
              /\ n[i] = ParamEdge => SubSeq(n, 1, i - 1) \in DOMAIN params
              /\ n[i] = WildEdge  => SubSeq(n, 1, i - 1) \in DOMAIN wilds
        BY <1>5, <3>1, Zenon
      <3> HIDE DEF edges, params, wilds
      <3> QED BY <1>2, <1>3, <1>4, <1>6, <2>1, <3>2
    <2>2. CASE n # edges
      <3>1. n \in DOMAIN trie.leaf /\ new.leaf[n] = trie.leaf[n]
        BY <1>2, <2>2
      <3> QED BY <1>3, <1>4, <3>1 DEF TrieShaped
    <2> QED BY <2>1, <2>2
  <1>8. ASSUME NEW u \in DOMAIN new.param
        PROVE  Append(u, ParamEdge) \in Nodes(new) /\ new.param[u] \in Name
    <2>1. CASE u \in DOMAIN trie.param
      <3>1. Nodes(trie) \subseteq Nodes(new)
        BY <1>2, NodesGrow
      <3> QED BY <1>3, <2>1, <3>1 DEF TrieShaped
    <2>2. CASE u \notin DOMAIN trie.param
      <3>1. u \in DOMAIN params /\ new.param[u] = params[u]
        BY <1>3, <2>2
      <3>2. PICK i \in At(ParamEdge) : u = Above(t, i)
        BY <1>5, <3>1
      <3>3. i \in 1 .. Len(edges) /\ edges[i] = ParamEdge /\ u = SubSeq(edges, 1, i - 1)
        <4>1. i \in DOMAIN t.segs /\ CompiledEdge(t, i) = ParamEdge
          BY <3>2
        <4>2. u = SubSeq(edges, 1, i - 1)
          BY <3>2, Zenon DEF Above
        <4> QED BY <1>5, <1>6, <4>1, <4>2
      <3>4. Append(u, ParamEdge) = SubSeq(edges, 1, i)
        <4> HIDE DEF edges
        <4>1. edges \in Seq(Edge) /\ Len(edges) \in Nat
          BY <1>6 DEF Node
        <4>2. /\ u \in Seq(Edge) /\ Len(u) = i - 1
              /\ \A j \in 1 .. i - 1 : u[j] = edges[j]
          BY <3>3, <4>1
        <4>3. /\ SubSeq(edges, 1, i) \in Seq(Edge) /\ Len(SubSeq(edges, 1, i)) = i
              /\ \A j \in 1 .. i : SubSeq(edges, 1, i)[j] = edges[j]
          BY <3>3, <4>1
        <4>4. /\ Append(u, ParamEdge) \in Seq(Edge) /\ Len(Append(u, ParamEdge)) = i
              /\ \A j \in 1 .. i : Append(u, ParamEdge)[j] = edges[j]
          BY <3>3, <4>2, EdgesDiffer
        <4> QED BY <4>3, <4>4, SeqEqual
      <3>5. SubSeq(edges, 1, i) \in Nodes(new)
        <4>1. SubSeq(edges, 1, i) \in {SubSeq(edges, 1, k) : k \in 1 .. Len(edges)}
          BY <3>3
        <4>2. edges \in DOMAIN new.leaf
          BY <1>2
        <4> QED BY <4>1, <4>2, Zenon DEF Nodes
      <3> QED BY <1>5, <3>1, <3>4, <3>5
    <2> QED BY <2>1, <2>2
  <1>9. ASSUME NEW u \in DOMAIN new.wild PROVE new.wild[u] \in Name
    BY <1>4, <1>5, <1>9 DEF TrieShaped
  <1> QED BY <1>7, <1>8, <1>9 DEF TrieShaped, new

LEMMA AddKeepsTries ==
  ASSUME TableTypeOK, TriesShaped, NEW m \in Method, NEW r \in Route, Add(m, r)
  PROVE  TriesShaped'
  <1> SUFFICES ASSUME NEW k \in Method PROVE TrieShaped(tries'[k])
    BY DEF TriesShaped, TrieShaped, Nodes
  <1>1. CASE InTrie(r)
    <2>1. tries'[k] = IF k = m THEN Insert(tries[m], r) ELSE tries[k]
      BY <1>1 DEF Add, TableTypeOK
    <2> QED BY <1>1, <2>1, InsertKeepsShape DEF TriesShaped
  <1>2. CASE ~InTrie(r)
    BY <1>2 DEF Add, TriesShaped
  <1> QED BY <1>1, <1>2

\* The tries of a table keep the shape that their search relies on.
THEOREM TriesKeepShape == TableSpec => []TriesShaped
  <1>1. TableInit => TriesShaped
    BY DEF TableInit, TriesShaped, TrieShaped, EmptyTrie
  <1>2. TableTypeOK /\ TriesShaped /\ [TableNext]_tableVars => TriesShaped'
    <2> SUFFICES ASSUME TableTypeOK, TriesShaped, [TableNext]_tableVars PROVE TriesShaped'
      OBVIOUS
    <2>1. CASE TableNext
      BY <2>1, AddKeepsTries DEF TableNext
    <2>2. CASE UNCHANGED tableVars
      BY <2>2 DEF tableVars, TriesShaped, TrieShaped, Nodes
    <2> QED BY <2>1, <2>2
  <1> QED BY <1>1, <1>2, TableTypeCorrect, PTL DEF TableSpec

\* The recursive search with its shared buffer is the search its definition
\* asks for, in every trie that registrations build and for every path.
THEOREM TrieSearchIsAlwaysReference == TableSpec => []TrieSearchIsReference
  <1>1. TriesShaped => TrieSearchIsReference
    <2> SUFFICES ASSUME TriesShaped, NEW m \in Method, NEW p \in Path
        PROVE  LET parts   == TrieParts(p)
                   hit     == TrieLookup(tries[m], parts, TrieVerb(p))
                   matches == {n \in DOMAIN tries[m].leaf : NodeMatches(tries[m], n, parts, TrieVerb(p))}
               IN  IF matches = {} THEN hit = Miss(<<>>)
                   ELSE \E best \in matches :
                          /\ \A o \in matches \ {best} : Precedes(best, o)
                          /\ hit = Hit(tries[m].leaf[best], NodeCaptures(tries[m], best, parts))
      BY Zenon DEF TrieSearchIsReference
    <2>1. TrieParts(p) \in Seq(Comp)
      BY TrieInputs
    <2>2. TrieShaped(tries[m])
      BY DEF TriesShaped
    <2> QED BY <2>1, <2>2, SearchIsReference
  <1> QED BY <1>1, TriesKeepShape, PTL

-----------------------------------------------------------------------------
(* Completeness.                                                           *)

\* Every route that was registered can still be found where a lookup ends:
\* its path is in the static index, or the route is in the linear list.
Listed ==
  \A m \in Method : \A r \in Registered(m) :
    /\ Static(r) # NoPath => Static(r) \in DOMAIN static[m]
    /\ NeedsFallback(r) => Holds(fallback[m], r)

LEMMA AddKeepsListed ==
  ASSUME TableTypeOK, Listed, NEW m \in Method, NEW r \in Route, Add(m, r)
  PROVE  Listed'
  <1>1. \A k \in Method :
          Registered(k)' = IF k = m THEN Registered(k) \cup {r} ELSE Registered(k)
    BY RegisteredGrows DEF Add, TableTypeOK
  <1>2. ASSUME NEW k \in Method, NEW x \in Registered(k)', Static(x) # NoPath
        PROVE  Static(x) \in DOMAIN static'[k]
    <2>1. CASE k = m /\ Static(r) # NoPath
      <3>1. DOMAIN static'[k] = DOMAIN static[k] \cup {Static(r)}
        BY <2>1 DEF Add, Override, TableTypeOK
      <3> QED BY <1>1, <1>2, <2>1, <3>1 DEF Listed
    <2>2. CASE k = m /\ Static(r) = NoPath
      BY <1>1, <1>2, <2>2 DEF Add, Listed
    <2>3. CASE k # m
      BY <1>1, <1>2, <2>3 DEF Add, Listed, TableTypeOK
    <2> QED BY <2>1, <2>2, <2>3
  <1>3. ASSUME NEW k \in Method, NEW x \in Registered(k)', NeedsFallback(x)
        PROVE  Holds(fallback'[k], x)
    <2>1. CASE k = m /\ NeedsFallback(r)
      <3>1. fallback'[k] = Prepend(fallback[k], r)
        BY <2>1 DEF Add, TableTypeOK
      <3>2. fallback[k] \in Seq(Registered(k))
        BY DEF TableTypeOK
      <3>3. x = r \/ Holds(fallback[k], x)
        BY <1>1, <1>3 DEF Listed
      <3>4. Holds(Prepend(fallback[k], r), x)
        BY <3>2, <3>3, PrependHolds, Zenon
      <3> QED BY <3>1, <3>4, Zenon
    <2>2. CASE k = m /\ ~NeedsFallback(r)
      BY <1>1, <1>3, <2>2 DEF Add, Listed
    <2>3. CASE k # m
      BY <1>1, <1>3, <2>3 DEF Add, Listed, TableTypeOK
    <2> QED BY <2>1, <2>2, <2>3
  <1> QED BY <1>2, <1>3 DEF Listed, NeedsFallback, InTrie, HasMatch, Static, TemplateOf

THEOREM ListedAlways == TableSpec => []Listed
  <1>1. TableInit => Listed
    BY DEF TableInit, Listed, Registered
  <1>2. TableTypeOK /\ Listed /\ [TableNext]_tableVars => Listed'
    <2> SUFFICES ASSUME TableTypeOK, Listed, [TableNext]_tableVars PROVE Listed'
      OBVIOUS
    <2>1. CASE TableNext
      BY <2>1, AddKeepsListed DEF TableNext
    <2>2. CASE UNCHANGED tableVars
      BY <2>2 DEF tableVars, Listed, Registered, NeedsFallback, InTrie, HasMatch, Static, TemplateOf
    <2> QED BY <2>1, <2>2
  <1> QED BY <1>1, <1>2, TableTypeCorrect, PTL DEF TableSpec

\* The linear list's answer is that of one of its routes, the first one whose
\* matcher does not decline, and there is none only if all decline.
LEMMA FallbackAnswers ==
  ASSUME NEW S, NEW list \in Seq(S), NEW p
  PROVE  \/ /\ MatchFallback(list, p) = NotFound
            /\ \A i \in DOMAIN list : HasMatch(list[i]) => Matcher[list[i]][p].tag = "no"
         \/ \E i \in DOMAIN list :
              LET verdict == Matcher[list[i]][p]
              IN  /\ HasMatch(list[i]) /\ verdict.tag # "no"
                  /\ MatchFallback(list, p) = IF verdict.tag = "ok" THEN Found(list[i], verdict.params)
                                              ELSE Failed(verdict.tag)
                  /\ \A h \in DOMAIN list :
                       h < i /\ HasMatch(list[h]) => Matcher[list[h]][p].tag = "no"
  <1> DEFINE answers == {i \in DOMAIN list : HasMatch(list[i]) /\ Matcher[list[i]][p].tag # "no"}
             first   == CHOOSE i \in answers : \A j \in answers : i <= j
  <1>1. CASE answers = {}
    <2>1. MatchFallback(list, p) = NotFound
      BY <1>1, Zenon DEF MatchFallback
    <2>2. \A i \in DOMAIN list : HasMatch(list[i]) => Matcher[list[i]][p].tag = "no"
      BY <1>1, Zenon
    <2> QED BY <2>1, <2>2, Zenon
  <1>2. CASE answers # {}
    <2>1. answers \in SUBSET Nat
      BY DOMAIN list = 1 .. Len(list), Len(list) \in Nat
    <2>2. \E i \in answers : \A j \in answers : i <= j
      BY <1>2, <2>1, LeastElement
    <2>3. first \in answers
      BY <2>2
    <2>4. MatchFallback(list, p) = IF Matcher[list[first]][p].tag = "ok"
                                   THEN Found(list[first], Matcher[list[first]][p].params)
                                   ELSE Failed(Matcher[list[first]][p].tag)
      <3>1. Matcher[list[first]][p].tag # "no"
        BY <2>3
      <3>2. MatchFallback(list, p) = Decided(list[first], Matcher[list[first]][p], NotFound)
        BY <1>2, Zenon DEF MatchFallback
      <3> QED BY <3>1, <3>2, ZenonT(40) DEF Decided
    <2>5. \A h \in answers : first <= h
      BY <2>2
    <2>6. \A h \in DOMAIN list :
            h < first /\ HasMatch(list[h]) => Matcher[list[h]][p].tag = "no"
      <3> HIDE DEF first
      <3> QED BY <2>1, <2>3, <2>5
    <2> QED BY <2>3, <2>4, <2>6
  <1> QED BY SMTT(40), <1>1, <1>2

\* A path is not found only if no registered route's matcher accepts it.
THEOREM DispatchIsComplete ==
  ASSUME AllHaveMatchers, StaticMatchersExact
  PROVE  TableSpec => []DispatchComplete
  <1>1. ASSUME TableTypeOK, Listed, NEW m \in Method, NEW p \in Path,
               MatchInternal(m, p).tag = "no", NEW r \in Registered(m)
        PROVE  Matcher[r][p].tag # "ok"
    <2>1. p \notin DOMAIN static[m] /\ MatchFallback(fallback[m], p).tag = "no"
      BY <1>1 DEF MatchInternal, FromTrie, Decided, Found, Failed, NotFound
    <2>2. r \in Route
      BY <1>1 DEF TableTypeOK, Registered
    <2>3. CASE NeedsFallback(r)
      <3>1. PICK i \in DOMAIN fallback[m] : fallback[m][i] = r
        BY <1>1, <2>3 DEF Listed, Holds
      <3>2. fallback[m] \in Seq(Registered(m))
        BY <1>1 DEF TableTypeOK
      <3> QED BY <2>1, <2>2, <3>1, <3>2, FallbackAnswers
            DEF AllHaveMatchers, Found, Failed, NotFound
    <2>4. CASE ~NeedsFallback(r)
      <3>1. Static(r) # NoPath /\ TemplateOf(r) = NoTemplate
        BY <2>2, <2>4 DEF NeedsFallback, AllHaveMatchers
      <3> QED BY <1>1, <2>1, <2>2, <3>1 DEF Listed, StaticMatchersExact
    <2> QED BY <2>3, <2>4
  <1>2. TableTypeOK /\ Listed => DispatchComplete
    BY <1>1 DEF DispatchComplete
  <1> QED BY <1>2, TableTypeCorrect, ListedAlways, PTL

-----------------------------------------------------------------------------
(* Soundness.                                                              *)

\* The result of the reference search is no route or the route of a leaf.
LEMMA ReferenceFindsLeaf ==
  ASSUME TrieSearchIsReference, NEW m \in Method, NEW p \in Path
  PROVE  LET hit == TrieLookup(tries[m], TrieParts(p), TrieVerb(p))
         IN  hit.route = NoRoute \/ \E n \in DOMAIN tries[m].leaf : hit.route = tries[m].leaf[n]
  <1> DEFINE parts   == TrieParts(p)
             verb    == TrieVerb(p)
             hit     == TrieLookup(tries[m], parts, verb)
             matches == {n \in DOMAIN tries[m].leaf : NodeMatches(tries[m], n, parts, verb)}
  <1>1. CASE matches = {}
    <2>1. hit = Miss(<<>>)
      BY <1>1, Zenon DEF TrieSearchIsReference
    <2> QED BY <2>1 DEF Miss
  <1>2. CASE matches # {}
    <2>1. PICK best \in matches : hit = Hit(tries[m].leaf[best], NodeCaptures(tries[m], best, parts))
      BY <1>2, Zenon DEF TrieSearchIsReference
    <2> QED BY <2>1 DEF Hit
  <1> QED BY <1>1, <1>2

LEMMA AcceptedVerdict ==
  ASSUME NEW r \in Route, NEW p \in Path, Matcher[r][p].tag = "ok"
  PROVE  Matcher[r][p] = Accepted(Matcher[r][p].params)
  BY RouteTableAssumption

\* What a lookup returns stands for the path, with its own captures: the table
\* never trusts the captures of the trie.
THEOREM DispatchIsSound ==
  ASSUME AllHaveMatchers
  PROVE  TableSpec => []DispatchSound
  <1>1. ASSUME TableTypeOK, TrieSearchIsReference, NEW m \in Method, NEW p \in Path,
               MatchInternal(m, p).tag = "ok"
        PROVE  LET res == MatchInternal(m, p)
               IN  /\ res.route \in Registered(m)
                   /\ \/ Static(res.route) = p /\ res.params = NoParams
                      \/ Matcher[res.route][p] = Accepted(res.params)
    <2> DEFINE res == MatchInternal(m, p)
               hit == TrieLookup(tries[m], TrieParts(p), TrieVerb(p))
    <2>1. CASE p \in DOMAIN static[m]
      BY <1>1, <2>1 DEF MatchInternal, Found, TableTypeOK
    <2>2. CASE p \notin DOMAIN static[m] /\ res = MatchFallback(fallback[m], p)
      <3>1. fallback[m] \in Seq(Registered(m)) /\ Registered(m) \subseteq Route
        BY <1>1 DEF TableTypeOK, Registered
      <3>2. PICK i \in DOMAIN fallback[m] :
              /\ HasMatch(fallback[m][i]) /\ Matcher[fallback[m][i]][p].tag = "ok"
              /\ res = Found(fallback[m][i], Matcher[fallback[m][i]][p].params)
        <4> DEFINE list == fallback[m]
        <4>1. res = MatchFallback(list, p) /\ res.tag = "ok"
          BY <1>1, <2>2
        <4>2. \/ res = NotFound
              \/ \E i \in DOMAIN list :
                   LET verdict == Matcher[list[i]][p]
                   IN  /\ HasMatch(list[i]) /\ verdict.tag # "no"
                       /\ res = IF verdict.tag = "ok" THEN Found(list[i], verdict.params)
                                                      ELSE Failed(verdict.tag)
          <5> HIDE DEF res
          <5> QED BY <3>1, <4>1, FallbackAnswers
        <4> HIDE DEF res, list
        <4>3. PICK i \in DOMAIN list :
                LET verdict == Matcher[list[i]][p]
                IN  /\ HasMatch(list[i]) /\ verdict.tag # "no"
                    /\ res = IF verdict.tag = "ok" THEN Found(list[i], verdict.params)
                                                   ELSE Failed(verdict.tag)
          BY <4>1, <4>2 DEF NotFound
        <4>4. Matcher[list[i]][p].tag = "ok"
          BY <4>1, <4>3 DEF Failed
        <4> QED BY <4>3, <4>4 DEF list
      <3>3. fallback[m][i] \in Registered(m)
        BY <3>1
      <3>4. /\ res.route = fallback[m][i]
            /\ res.params = Matcher[fallback[m][i]][p].params
        BY SMTT(40), <3>2 DEF Found
      <3> QED BY <3>1, <3>2, <3>3, <3>4, AcceptedVerdict
    <2>3. CASE p \notin DOMAIN static[m] /\ res # MatchFallback(fallback[m], p)
      <3>1. hit.route # NoRoute
        BY <2>3, Zenon DEF MatchInternal, FromTrie
      <3>2. PICK n \in DOMAIN tries[m].leaf : hit.route = tries[m].leaf[n]
        BY <1>1, <3>1, ReferenceFindsLeaf
      <3>3. hit.route \in Registered(m) /\ hit.route \in Route
        BY <1>1, <3>2 DEF TableTypeOK, Registered
      <3>4. LeafVerdict(hit.route, p, hit.buf) = Matcher[hit.route][p]
        BY <3>3 DEF LeafVerdict, AllHaveMatchers
      <3>5. /\ Matcher[hit.route][p].tag = "ok"
            /\ res = Found(hit.route, Matcher[hit.route][p].params)
        <4>1. res = Decided(hit.route, Matcher[hit.route][p], MatchFallback(fallback[m], p))
          BY <2>3, <3>1, <3>4, Zenon DEF MatchInternal, FromTrie
        <4> QED BY <1>1, <2>3, <4>1 DEF Decided, Found, Failed
      <3>6. res.route = hit.route /\ res.params = Matcher[hit.route][p].params
        BY <3>5 DEF Found
      <3> QED BY <3>3, <3>5, <3>6, AcceptedVerdict
    <2> QED BY <2>1, <2>2, <2>3
  <1>2. TableTypeOK /\ TrieSearchIsReference => DispatchSound
    BY <1>1 DEF DispatchSound
  <1> QED BY <1>2, TableTypeCorrect, TrieSearchIsAlwaysReference, PTL
-----------------------------------------------------------------------------
(* The latest registration.                                                *)

\* What each index holds is the latest registration that had to go there: of
\* a static path, of the edges of a leaf; a list has what came later in front.
LatestStatic ==
  \A m \in Method : \A p \in DOMAIN static[m] :
    /\ p # NoPath
    /\ \E i \in DOMAIN added :
         /\ added[i] = <<m, static[m][p]>>
         /\ \A j \in DOMAIN added : j > i /\ added[j][1] = m => Static(added[j][2]) # p

LatestLeaf ==
  \A m \in Method : \A n \in DOMAIN tries[m].leaf :
    /\ InTrie(tries[m].leaf[n])
    /\ \E i \in DOMAIN added :
         /\ added[i] = <<m, tries[m].leaf[n]>>
         /\ \A j \in DOMAIN added :
              j > i /\ added[j][1] = m /\ InTrie(added[j][2])
                => CompiledEdges(TemplateOf(added[j][2])) # n

LatestListed ==
  \A m \in Method : \A k \in DOMAIN fallback[m] :
    /\ NeedsFallback(fallback[m][k])
    /\ \E i \in DOMAIN added :
         /\ added[i] = <<m, fallback[m][k]>>
         /\ \A j \in DOMAIN added :
              j > i /\ added[j][1] = m /\ NeedsFallback(added[j][2])
                => \E h \in DOMAIN fallback[m] : h < k /\ fallback[m][h] = added[j][2]

LatestInv == LatestStatic /\ LatestLeaf /\ LatestListed

\* One more registration at the end of the history.
LEMMA HistoryGrows ==
  ASSUME TableTypeOK, NEW m \in Method, NEW r \in Route, Add(m, r)
  PROVE  LET last == Len(added) + 1
         IN  /\ DOMAIN added' = DOMAIN added \cup {last}
             /\ added'[last] = <<m, r>>
             /\ \A i \in DOMAIN added : added'[i] = added[i] /\ i \in Nat /\ i < last
             /\ last \in Nat /\ last \notin DOMAIN added
  BY DEF Add, TableTypeOK

LEMMA AddKeepsLatestStatic ==
  ASSUME TableTypeOK, LatestStatic, NEW m \in Method, NEW r \in Route, Add(m, r)
  PROVE  LatestStatic'
  <1> DEFINE last == Len(added) + 1
  <1>1. /\ DOMAIN added' = DOMAIN added \cup {last}
        /\ added'[last] = <<m, r>>
        /\ \A i \in DOMAIN added : added'[i] = added[i] /\ i \in Nat /\ i < last
        /\ last \in Nat /\ last \notin DOMAIN added
    BY HistoryGrows, Zenon
  <1> HIDE DEF last
  <1> SUFFICES ASSUME NEW k \in Method, NEW p \in DOMAIN static'[k]
      PROVE  /\ p # NoPath
             /\ \E i \in DOMAIN added' :
                  /\ added'[i] = <<k, static'[k][p]>>
                  /\ \A j \in DOMAIN added' : j > i /\ added'[j][1] = k => Static(added'[j][2]) # p
    BY Zenon DEF LatestStatic, Static, NoPath
  <1>2. CASE k = m /\ Static(r) # NoPath /\ p = Static(r)
    <2>1. static'[k][p] = r
      BY <1>2 DEF Add, Override, TableTypeOK
    <2> QED BY <1>1, <1>2, <2>1
  <1>3. CASE ~(k = m /\ Static(r) # NoPath /\ p = Static(r))
    <2>1. p \in DOMAIN static[k] /\ static'[k][p] = static[k][p]
      BY <1>3 DEF Add, Override, TableTypeOK
    <2>2. PICK i \in DOMAIN added :
            /\ added[i] = <<k, static[k][p]>>
            /\ \A j \in DOMAIN added : j > i /\ added[j][1] = k => Static(added[j][2]) # p
      BY <2>1 DEF LatestStatic
    <2>3. p # NoPath
      BY <2>1 DEF LatestStatic
    <2>4. k = m => Static(r) # p
      BY <1>3, <2>3
    <2> QED BY <1>1, <2>1, <2>2, <2>3, <2>4
  <1> QED BY <1>2, <1>3

LEMMA AddKeepsLatestLeaf ==
  ASSUME TableTypeOK, LatestLeaf, NEW m \in Method, NEW r \in Route, Add(m, r)
  PROVE  LatestLeaf'
  <1> DEFINE last  == Len(added) + 1
             edges == CompiledEdges(TemplateOf(r))
  <1>1. /\ DOMAIN added' = DOMAIN added \cup {last}
        /\ added'[last] = <<m, r>>
        /\ \A i \in DOMAIN added : added'[i] = added[i] /\ i \in Nat /\ i < last
        /\ last \in Nat /\ last \notin DOMAIN added
    BY HistoryGrows, Zenon
  <1>2. ASSUME NEW k \in Method
        PROVE  tries'[k].leaf = IF k = m /\ InTrie(r)
                                THEN Override(tries[k].leaf, [x \in {edges} |-> r])
                                ELSE tries[k].leaf
    BY DEF Add, Insert, TableTypeOK
  <1> HIDE DEF last, edges
  <1> SUFFICES ASSUME NEW k \in Method, NEW n \in DOMAIN tries'[k].leaf
      PROVE  /\ InTrie(tries'[k].leaf[n])
             /\ \E i \in DOMAIN added' :
                  /\ added'[i] = <<k, tries'[k].leaf[n]>>
                  /\ \A j \in DOMAIN added' :
                       j > i /\ added'[j][1] = k /\ InTrie(added'[j][2])
                         => CompiledEdges(TemplateOf(added'[j][2])) # n
    BY Zenon DEF LatestLeaf, InTrie, TemplateOf
  <1>3. CASE k = m /\ InTrie(r) /\ n = edges
    <2>1. tries'[k].leaf[n] = r
      BY <1>2, <1>3 DEF Override
    <2> QED BY <1>1, <1>3, <2>1
  <1>4. CASE ~(k = m /\ InTrie(r) /\ n = edges)
    <2>1. n \in DOMAIN tries[k].leaf /\ tries'[k].leaf[n] = tries[k].leaf[n]
      BY <1>2, <1>4 DEF Override
    <2>2. PICK i \in DOMAIN added :
            /\ added[i] = <<k, tries[k].leaf[n]>>
            /\ \A j \in DOMAIN added :
                 j > i /\ added[j][1] = k /\ InTrie(added[j][2])
                   => CompiledEdges(TemplateOf(added[j][2])) # n
      BY <2>1 DEF LatestLeaf
    <2>3. InTrie(tries[k].leaf[n])
      BY <2>1 DEF LatestLeaf
    <2>4. k = m /\ InTrie(r) => CompiledEdges(TemplateOf(r)) # n
      BY <1>4 DEF edges
    <2> QED BY <1>1, <2>1, <2>2, <2>3, <2>4
  <1> QED BY <1>3, <1>4

LEMMA AddKeepsLatestListed ==
  ASSUME TableTypeOK, LatestListed, NEW m \in Method, NEW r \in Route, Add(m, r)
  PROVE  LatestListed'
  <1> DEFINE last == Len(added) + 1
  <1>1. /\ DOMAIN added' = DOMAIN added \cup {last}
        /\ added'[last] = <<m, r>>
        /\ \A i \in DOMAIN added : added'[i] = added[i] /\ i \in Nat /\ i < last
        /\ last \in Nat /\ last \notin DOMAIN added
    BY HistoryGrows, Zenon
  <1> HIDE DEF last
  <1> SUFFICES ASSUME NEW k \in Method, NEW x \in DOMAIN fallback'[k]
      PROVE  /\ NeedsFallback(fallback'[k][x])
             /\ \E i \in DOMAIN added' :
                  /\ added'[i] = <<k, fallback'[k][x]>>
                  /\ \A j \in DOMAIN added' :
                       j > i /\ added'[j][1] = k /\ NeedsFallback(added'[j][2])
                         => \E h \in DOMAIN fallback'[k] : h < x /\ fallback'[k][h] = added'[j][2]
    BY Zenon DEF LatestListed, NeedsFallback, InTrie, HasMatch, Static, TemplateOf
  <1>2. /\ fallback[k] \in Seq(Registered(k))
        /\ DOMAIN fallback[k] = 1 .. Len(fallback[k]) /\ Len(fallback[k]) \in Nat
    BY DEF TableTypeOK
  <1>3. ASSUME NEW y \in DOMAIN fallback[k]
        PROVE  \E i \in DOMAIN added :
                 /\ added[i] = <<k, fallback[k][y]>>
                 /\ \A j \in DOMAIN added :
                      j > i /\ added[j][1] = k /\ NeedsFallback(added[j][2])
                        => \E h \in DOMAIN fallback[k] : h < y /\ fallback[k][h] = added[j][2]
    BY DEF LatestListed
  <1>4. CASE k = m /\ NeedsFallback(r)
    <2>1. /\ DOMAIN fallback'[k] = 1 .. Len(fallback[k]) + 1
          /\ fallback'[k][1] = r
          /\ \A y \in DOMAIN fallback[k] : fallback'[k][y + 1] = fallback[k][y]
      <3>1. fallback'[k] = <<r>> \o fallback[k]
        BY <1>4 DEF Add, Prepend, TableTypeOK
      <3>2. fallback[k] \in Seq(Registered(k) \cup {r}) /\ <<r>> \in Seq(Registered(k) \cup {r})
        BY <1>2, SeqOfMore
      <3> QED BY <1>2, <3>1, <3>2
    <2>2. CASE x = 1
      BY <1>1, <1>4, <2>1, <2>2
    <2>3. CASE x # 1
      <3> DEFINE y == x - 1
      <3>1. y \in DOMAIN fallback[k] /\ x = y + 1 /\ fallback'[k][x] = fallback[k][y]
        BY <1>2, <2>1, <2>3
      <3>2. NeedsFallback(fallback[k][y])
        BY <3>1 DEF LatestListed
      <3>3. PICK i \in DOMAIN added :
              /\ added[i] = <<k, fallback[k][y]>>
              /\ \A j \in DOMAIN added :
                   j > i /\ added[j][1] = k /\ NeedsFallback(added[j][2])
                     => \E h \in DOMAIN fallback[k] : h < y /\ fallback[k][h] = added[j][2]
        BY <1>3, <3>1
      <3>4. ASSUME NEW j \in DOMAIN added', j > i, added'[j][1] = k, NeedsFallback(added'[j][2])
            PROVE  \E h \in DOMAIN fallback'[k] : h < x /\ fallback'[k][h] = added'[j][2]
        <4>1. CASE j = last
          <5>1. 1 \in DOMAIN fallback'[k] /\ 1 < x
            BY <1>2, <2>1, <3>1
          <5>2. fallback'[k][1] = added'[j][2]
            BY <1>1, <2>1, <4>1
          <5> QED BY <5>1, <5>2, Zenon
        <4>2. CASE j \in DOMAIN added
          <5>1. PICK h \in DOMAIN fallback[k] : h < y /\ fallback[k][h] = added[j][2]
            BY <1>1, <3>3, <3>4, <4>2
          <5>2. h + 1 \in DOMAIN fallback'[k] /\ h + 1 < x /\ fallback'[k][h + 1] = added'[j][2]
            <6>1. h \in Nat /\ y \in Nat /\ h <= Len(fallback[k])
              BY <1>2, <3>1
            <6>2. h + 1 \in DOMAIN fallback'[k] /\ h + 1 < x
              BY <1>2, <2>1, <3>1, <5>1, <6>1
            <6>3. fallback'[k][h + 1] = fallback[k][h] /\ added'[j] = added[j]
              BY <1>1, <2>1, <4>2
            <6> QED BY <5>1, <6>2, <6>3
          <5> QED BY <5>2, Zenon
        <4> QED BY <1>1, <4>1, <4>2
      <3>5. i \in DOMAIN added' /\ added'[i] = <<k, fallback'[k][x]>>
        BY <1>1, <3>1, <3>3
      <3> HIDE DEF y
      <3> QED BY <3>1, <3>2, <3>4, <3>5
    <2> QED BY <2>2, <2>3
  <1>5. CASE ~(k = m /\ NeedsFallback(r))
    <2>1. fallback'[k] = fallback[k]
      BY <1>5 DEF Add, TableTypeOK
    <2>2. NeedsFallback(fallback[k][x])
      BY <2>1 DEF LatestListed
    <2>3. PICK i \in DOMAIN added :
            /\ added[i] = <<k, fallback[k][x]>>
            /\ \A j \in DOMAIN added :
                 j > i /\ added[j][1] = k /\ NeedsFallback(added[j][2])
                   => \E h \in DOMAIN fallback[k] : h < x /\ fallback[k][h] = added[j][2]
      BY <1>3, <2>1
    <2>4. ASSUME NEW j \in DOMAIN added', j > i, added'[j][1] = k, NeedsFallback(added'[j][2])
          PROVE  \E h \in DOMAIN fallback[k] : h < x /\ fallback[k][h] = added'[j][2]
      BY <1>1, <1>5, <2>3, <2>4
    <2>5. i \in DOMAIN added' /\ added'[i] = <<k, fallback[k][x]>>
      BY <1>1, <2>3
    <2> QED BY <2>1, <2>2, <2>4, <2>5
  <1> QED BY <1>4, <1>5

THEOREM LatestAlways == TableSpec => []LatestInv
  <1>1. TableInit => LatestInv
    BY DEF TableInit, LatestInv, LatestStatic, LatestLeaf, LatestListed, EmptyTrie
  <1>2. TableTypeOK /\ LatestInv /\ [TableNext]_tableVars => LatestInv'
    <2> SUFFICES ASSUME TableTypeOK, LatestInv, [TableNext]_tableVars PROVE LatestInv'
      OBVIOUS
    <2>1. CASE TableNext
      <3>1. PICK m \in Method, r \in Route : Add(m, r)
        BY <2>1 DEF TableNext
      <3> QED BY <3>1, AddKeepsLatestStatic, AddKeepsLatestLeaf, AddKeepsLatestListed DEF LatestInv
    <2>2. CASE UNCHANGED tableVars
      BY <2>2 DEF tableVars, LatestInv, LatestStatic, LatestLeaf, LatestListed,
                  Static, InTrie, TemplateOf, NeedsFallback, HasMatch
    <2> QED BY <2>1, <2>2
  <1> QED BY <1>1, <1>2, TableTypeCorrect, PTL DEF TableSpec

\* Templates that differ only in their variables' names have the same edges.
LEMMA SameTemplateSameEdges ==
  ASSUME NEW x \in Route, NEW r \in Route, SameTemplate(x, r)
  PROVE  /\ InTrie(x) <=> InTrie(r)
         /\ CompiledEdges(TemplateOf(x)) = CompiledEdges(TemplateOf(r))
  <1> DEFINE t == TemplateOf(x)
             u == TemplateOf(r)
  <1>1. t.segs = u.segs
    BY DEF SameTemplate
  <1>2. /\ DOMAIN t.vars = DOMAIN u.vars
        /\ \A v \in DOMAIN t.vars : t.vars[v].lo = u.vars[v].lo /\ t.vars[v].hi = u.vars[v].hi
    <2>1. [v \in DOMAIN t.vars |-> <<t.vars[v].lo, t.vars[v].hi>>]
            = [v \in DOMAIN u.vars |-> <<u.vars[v].lo, u.vars[v].hi>>]
      BY Zenon DEF SameTemplate, Spans
    <2> HIDE DEF t, u
    <2>2. DOMAIN t.vars = DOMAIN u.vars
      BY <2>1
    <2>3. ASSUME NEW v \in DOMAIN t.vars
          PROVE  <<t.vars[v].lo, t.vars[v].hi>> = <<u.vars[v].lo, u.vars[v].hi>>
      BY <2>1, <2>2
    <2> QED BY <2>2, <2>3
  <1>3. Compilable(t) <=> Compilable(u)
    <2> HIDE DEF t, u
    <2> QED BY <1>1, <1>2 DEF Compilable
  <1>4. \A i : CapturedAt(t, i) = CapturedAt(u, i)
    <2> HIDE DEF t, u
    <2> QED BY <1>2 DEF CapturedAt
  <1>5. CompiledEdges(t) = CompiledEdges(u)
    <2> HIDE DEF t, u
    <2>1. \A i : CompiledEdge(t, i) = CompiledEdge(u, i)
      BY <1>1, <1>4, Zenon DEF CompiledEdge
    <2> QED BY <1>1, <2>1, Zenon DEF CompiledEdges
  <1> QED BY <1>3, <1>5 DEF InTrie

\* No later registration of the template of route r accepts the path.
WinsFor(m, p, r) ==
  \E i \in DOMAIN added :
    /\ added[i] = <<m, r>>
    /\ \A j \in DOMAIN added :
         (j > i /\ added[j][1] = m /\ SameTemplate(added[j][2], r))
           => Matcher[added[j][2]][p].tag # "ok"

\* Registering a template again replaces its handler, in whichever of the
\* three indexes the route is looked up.
THEOREM LatestRegistrationAlwaysWins ==
  ASSUME AllHaveMatchers, StaticMatchersExact
  PROVE  TableSpec => []LatestRegistrationWins
  <1>1. ASSUME TableTypeOK, TrieSearchIsReference, Listed, LatestInv, NEW m \in Method,
               NEW p \in Path, MatchInternal(m, p).tag = "ok"
        PROVE  WinsFor(m, p, MatchInternal(m, p).route)
    <2> DEFINE res == MatchInternal(m, p)
               hit == TrieLookup(tries[m], TrieParts(p), TrieVerb(p))
    <2>0. \A j \in DOMAIN added : added[j] \in Method \X Route
      BY <1>1 DEF TableTypeOK
    <2>1. CASE p \in DOMAIN static[m]
      <3>1. res.route = static[m][p]
        BY <2>1 DEF MatchInternal, Found
      <3>2. PICK i \in DOMAIN added :
              /\ added[i] = <<m, static[m][p]>>
              /\ \A j \in DOMAIN added : j > i /\ added[j][1] = m => Static(added[j][2]) # p
        BY <1>1, <2>1 DEF LatestInv, LatestStatic
      <3>3. p = Static(static[m][p])
        BY <1>1, <2>1 DEF TableTypeOK
      <3>4. WinsFor(m, p, static[m][p])
        BY <3>2, <3>3 DEF WinsFor, SameTemplate
      <3> QED BY <3>1, <3>4
    <2>2. CASE p \notin DOMAIN static[m] /\ res = MatchFallback(fallback[m], p)
      <3> DEFINE list == fallback[m]
      <3>1. list \in Seq(Registered(m)) /\ Registered(m) \subseteq Route
        BY <1>1 DEF TableTypeOK, Registered
      <3>2. PICK k \in DOMAIN list :
              /\ res.route = list[k]
              /\ \A h \in DOMAIN list :
                   h < k /\ HasMatch(list[h]) => Matcher[list[h]][p].tag = "no"
        <4> HIDE DEF list
        <4>1. MatchFallback(list, p).tag = "ok" /\ res = MatchFallback(list, p)
          BY <1>1, <2>2 DEF list
        <4>2. MatchFallback(list, p) # NotFound
          BY <4>1 DEF NotFound
        <4>3. PICK k \in DOMAIN list :
                LET verdict == Matcher[list[k]][p]
                IN  /\ MatchFallback(list, p) = IF verdict.tag = "ok" THEN Found(list[k], verdict.params)
                                                ELSE Failed(verdict.tag)
                    /\ \A h \in DOMAIN list :
                         h < k /\ HasMatch(list[h]) => Matcher[list[h]][p].tag = "no"
          BY <3>1, <4>2, FallbackAnswers
        <4>4. res.route = list[k]
          <5> HIDE DEF res
          <5> QED BY <4>1, <4>3 DEF Found, Failed
        <4> QED BY <4>3, <4>4
      <3>3. PICK i \in DOMAIN added :
              /\ added[i] = <<m, list[k]>>
              /\ \A j \in DOMAIN added :
                   j > i /\ added[j][1] = m /\ NeedsFallback(added[j][2])
                     => \E h \in DOMAIN list : h < k /\ list[h] = added[j][2]
        BY <1>1, <3>2 DEF LatestInv, LatestListed
      <3>4. ASSUME NEW j \in DOMAIN added, j > i, added[j][1] = m
            PROVE  Matcher[added[j][2]][p].tag # "ok"
        <4> DEFINE x == added[j][2]
        <4>1. x \in Route /\ x \in Registered(m) /\ HasMatch(x)
          BY <2>0, <3>4 DEF Registered, AllHaveMatchers
        <4>2. CASE NeedsFallback(x)
          <5>1. PICK h \in DOMAIN list : h < k /\ list[h] = x
            BY <3>3, <3>4, <4>2
          <5> QED BY <3>2, <4>1, <5>1
        <4>3. CASE ~NeedsFallback(x)
          <5>1. Static(x) # NoPath /\ TemplateOf(x) = NoTemplate
            BY <4>1, <4>3 DEF NeedsFallback
          <5>2. Static(x) \in DOMAIN static[m]
            BY <1>1, <4>1, <5>1 DEF Listed
          <5> QED BY <2>2, <4>1, <5>1, <5>2 DEF StaticMatchersExact
        <4> QED BY <4>2, <4>3
      <3>5. WinsFor(m, p, list[k])
        BY <3>3, <3>4 DEF WinsFor
      <3> QED BY <3>2, <3>5
    <2>3. CASE p \notin DOMAIN static[m] /\ res # MatchFallback(fallback[m], p)
      <3>1. hit.route # NoRoute
        BY <2>3, Zenon DEF MatchInternal, FromTrie
      <3>2. PICK n \in DOMAIN tries[m].leaf : hit.route = tries[m].leaf[n]
        BY <1>1, <3>1, ReferenceFindsLeaf
      <3> DEFINE r == tries[m].leaf[n]
      <3>3. r \in Route /\ n = CompiledEdges(TemplateOf(r)) /\ InTrie(r)
        BY <1>1, <3>2 DEF TableTypeOK, Registered, LatestInv, LatestLeaf
      <3>4. res.route = r
        <4>1. res = Decided(hit.route, LeafVerdict(hit.route, p, hit.buf), MatchFallback(fallback[m], p))
          BY <2>3, <3>1, Zenon DEF MatchInternal, FromTrie
        <4> QED BY <1>1, <2>3, <3>2, <4>1 DEF Decided, Found, Failed
      <3>5. PICK i \in DOMAIN added :
              /\ added[i] = <<m, r>>
              /\ \A j \in DOMAIN added :
                   j > i /\ added[j][1] = m /\ InTrie(added[j][2])
                     => CompiledEdges(TemplateOf(added[j][2])) # n
        BY <1>1, <3>2 DEF LatestInv, LatestLeaf
      <3>6. ASSUME NEW j \in DOMAIN added, j > i, added[j][1] = m
            PROVE  ~SameTemplate(added[j][2], r)
        <4>1. added[j][2] \in Route
          BY <2>0
        <4> QED BY <3>3, <3>5, <3>6, <4>1, SameTemplateSameEdges
      <3>7. WinsFor(m, p, r)
        BY <3>5, <3>6 DEF WinsFor
      <3> QED BY <3>4, <3>7
    <2> QED BY <2>1, <2>2, <2>3
  <1>2. TableTypeOK /\ TrieSearchIsReference /\ Listed /\ LatestInv => LatestRegistrationWins
    BY <1>1, Zenon DEF LatestRegistrationWins, WinsFor
  <1> QED BY <1>2, TableTypeCorrect, TrieSearchIsAlwaysReference, ListedAlways, LatestAlways, PTL
=============================================================================
