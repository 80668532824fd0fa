----------------------- MODULE ContextAnnotation_proofs -----------------------
(***************************************************************************)
(* In whatever order the headers of a request are walked, its metadata has   *)
(* each value that may pass as often as it came.                            *)
(***************************************************************************)
EXTENDS ContextAnnotation, RecursionLemmas, FiniteSetTheorems, FunctionTheorems

-----------------------------------------------------------------------------
(* How often something stands in a sequence.                               *)

Places(s, x) == {j \in DOMAIN s : s[j] = x}
Count(s, x)  == Cardinality(Places(s, x))
Once(i, A)   == IF i \in A THEN 1 ELSE 0
UpTo(A, n)   == Cardinality(A \cap 1 .. n)

\* As many as what they are paired with.
LEMMA EquallyMany ==
  ASSUME NEW A, IsFiniteSet(A), NEW B, NEW f \in [A -> B],
         \A i, j \in A : f[i] = f[j] => i = j,
         \A b \in B : \E i \in A : f[i] = b
  PROVE  IsFiniteSet(B) /\ Cardinality(B) = Cardinality(A)
  <1>1. f \in Surjection(A, B)
    BY Fun_IsSurj
  <1>2. f \in Injection(A, B)
    BY Fun_IsInj
  <1>3. f \in Bijection(A, B)
    BY <1>1, <1>2, Fun_IsBij
  <1>4. ExistsBijection(A, B)
    BY <1>3 DEF ExistsBijection
  <1> QED BY <1>4, FS_Bijection

LEMMA CountOfNone ==
  ASSUME NEW x
  PROVE  Count(<<>>, x) = 0
  <1>1. Places(<<>>, x) = {}
    BY DEF Places
  <1> QED BY <1>1, FS_EmptySet DEF Count

LEMMA CountIsNat ==
  ASSUME NEW S, NEW s \in Seq(S), NEW x
  PROVE  IsFiniteSet(Places(s, x)) /\ Count(s, x) \in Nat
  <1>1. IsFiniteSet(1 .. Len(s))
    BY FS_Interval
  <1>2. Places(s, x) \in SUBSET (1 .. Len(s))
    BY DEF Places
  <1>3. IsFiniteSet(Places(s, x))
    BY <1>1, <1>2, FS_Subset
  <1> QED BY <1>3, FS_CardinalityType DEF Count

LEMMA CountAppended ==
  ASSUME NEW S, NEW s \in Seq(S), NEW e \in S, NEW x
  PROVE  Count(Append(s, e), x) = Count(s, x) + Once(e, {x})
  <1> DEFINE n == Len(s) + 1
  <1>1. IsFiniteSet(Places(s, x)) /\ Cardinality(Places(s, x)) \in Nat
    BY CountIsNat DEF Count
  <1>2. n \notin Places(s, x)
    BY DEF Places
  <1>3. Places(Append(s, e), x) = IF e = x THEN Places(s, x) \cup {n} ELSE Places(s, x)
    <2>1. DOMAIN Append(s, e) = 1 .. n /\ DOMAIN s = 1 .. Len(s) /\ Len(s) \in Nat
      OBVIOUS
    <2>2. Append(s, e)[n] = e /\ \A j \in 1 .. Len(s) : Append(s, e)[j] = s[j]
      OBVIOUS
    <2> HIDE DEF n
    <2>3. 1 .. n = (1 .. Len(s)) \cup {n}
      BY <2>1 DEF n
    <2> QED BY <2>1, <2>2, <2>3 DEF Places
  <1>4. Cardinality(Places(s, x) \cup {n}) = Cardinality(Places(s, x)) + 1
    BY <1>1, <1>2, FS_AddElement
  <1> QED BY <1>1, <1>3, <1>4 DEF Count, Once

LEMMA CountJoined ==
  ASSUME NEW S, NEW s \in Seq(S), NEW t \in Seq(S), NEW x
  PROVE  Count(s \o t, x) = Count(s, x) + Count(t, x)
  <1> DEFINE n == Len(s)
             moved == [j \in Places(t, x) |-> n + j]
             M     == {n + j : j \in Places(t, x)}
  <1>1. /\ n \in Nat /\ Len(t) \in Nat /\ Len(s \o t) = n + Len(t)
        /\ \A j \in 1 .. n + Len(t) : (s \o t)[j] = IF j <= n THEN s[j] ELSE t[j - n]
    BY ConcatProperties
  <1>2. /\ DOMAIN s = 1 .. n /\ DOMAIN t = 1 .. Len(t) /\ DOMAIN (s \o t) = 1 .. n + Len(t)
    BY <1>1
  <1>3. /\ IsFiniteSet(Places(s, x)) /\ Cardinality(Places(s, x)) \in Nat
        /\ IsFiniteSet(Places(t, x)) /\ Cardinality(Places(t, x)) \in Nat
    BY CountIsNat DEF Count
  <1>4. Places(t, x) \subseteq Int
    BY <1>1, <1>2 DEF Places
  <1> HIDE DEF n
  <1>5. IsFiniteSet(M) /\ Cardinality(M) = Cardinality(Places(t, x))
    <2>1. moved \in [Places(t, x) -> M]
      OBVIOUS
    <2>2. \A i, j \in Places(t, x) : moved[i] = moved[j] => i = j
      BY <1>1, <1>4
    <2>3. \A b \in M : \E i \in Places(t, x) : moved[i] = b
      OBVIOUS
    <2> HIDE DEF moved, M
    <2> QED BY <1>3, <2>1, <2>2, <2>3, EquallyMany
  <1>6. Places(s \o t, x) = Places(s, x) \cup M
    <2>1. ASSUME NEW j \in Places(s \o t, x) PROVE j \in Places(s, x) \cup M
      <3>1. CASE j <= n
        BY <1>1, <1>2, <2>1, <3>1 DEF Places
      <3>2. CASE j > n
        <4>1. j \in 1 .. n + Len(t) /\ t[j - n] = x
          BY <1>1, <1>2, <2>1, <3>2 DEF Places
        <4>2. j - n \in Places(t, x) /\ j = n + (j - n)
          BY <1>1, <1>2, <3>2, <4>1 DEF Places
        <4> QED BY <4>2
      <3>3. j \in Int
        BY <1>1, <1>2 DEF Places
      <3> QED BY <1>1, <3>1, <3>2, <3>3
    <2>2. Places(s, x) \subseteq Places(s \o t, x)
      BY <1>1, <1>2 DEF Places
    <2>3. ASSUME NEW j \in Places(t, x) PROVE n + j \in Places(s \o t, x)
      <3>1. j \in 1 .. Len(t) /\ t[j] = x
        BY <1>2 DEF Places
      <3>2. n + j \in 1 .. n + Len(t) /\ ~(n + j <= n) /\ (n + j) - n = j
        BY <1>1, <3>1
      <3> QED BY <1>1, <1>2, <3>1, <3>2 DEF Places
    <2> QED BY <2>1, <2>2, <2>3
  <1>7. Places(s, x) \cap M = {}
    <2>1. \A i \in Places(s, x) : i <= n
      BY <1>1, <1>2 DEF Places
    <2>2. \A j \in Places(t, x) : ~(n + j <= n)
      BY <1>1, <1>2 DEF Places
    <2> QED BY <2>1, <2>2
  <1>8. Cardinality(Places(s, x) \cap M) = 0
    BY <1>7, FS_EmptySet
  <1> HIDE DEF M
  <1>9. Cardinality(Places(s, x) \cup M)
          = Cardinality(Places(s, x)) + Cardinality(M) - Cardinality(Places(s, x) \cap M)
    BY <1>3, <1>5, FS_Union
  <1> QED BY <1>3, <1>5, <1>6, <1>8, <1>9 DEF Count

\* One more number of an interval.
LEMMA OneMore ==
  ASSUME NEW A, NEW n \in Nat, n > 0
  PROVE  /\ IsFiniteSet(A \cap 1 .. n) /\ Cardinality(A \cap 1 .. n) \in Nat
         /\ Cardinality(A \cap 1 .. (n - 1)) \in Nat
         /\ Cardinality(A \cap 1 .. n) = Cardinality(A \cap 1 .. (n - 1)) + Once(n, A)
  <1>1. ASSUME NEW m \in Nat PROVE IsFiniteSet(A \cap 1 .. m) /\ Cardinality(A \cap 1 .. m) \in Nat
    <2>1. IsFiniteSet(1 .. m) /\ A \cap 1 .. m \in SUBSET (1 .. m)
      BY FS_Interval
    <2>2. IsFiniteSet(A \cap 1 .. m)
      BY <2>1, FS_Subset
    <2> QED BY <2>2, FS_CardinalityType
  <1> DEFINE B == A \cap 1 .. (n - 1)
  <1>2. IsFiniteSet(B) /\ n \notin B
    BY <1>1
  <1>3. A \cap 1 .. n = IF n \in A THEN B \cup {n} ELSE B
    OBVIOUS
  <1> HIDE DEF B
  <1>4. Cardinality(B \cup {n}) = Cardinality(B) + 1
    BY <1>2, FS_AddElement
  <1>5. Cardinality(A \cap 1 .. n) = Cardinality(B) + Once(n, A)
    <2>1. Cardinality(B) \in Nat
      BY <1>2, FS_CardinalityType
    <2>2. CASE n \in A
      BY <1>3, <1>4, <2>1, <2>2 DEF Once
    <2>3. CASE n \notin A
      <3>1. A \cap 1 .. n = B
        BY <1>3, <2>3
      <3>2. Once(n, A) = 0
        BY <2>3 DEF Once
      <3>3. Cardinality(A \cap 1 .. n) = Cardinality(B)
        BY <3>1
      <3> QED BY <2>1, <3>2, <3>3
    <2> QED BY <2>2, <2>3
  <1>6. Cardinality(B) \in Nat
    BY <1>1 DEF B
  <1>7. IsFiniteSet(A \cap 1 .. n) /\ Cardinality(A \cap 1 .. n) \in Nat
    BY <1>1
  <1> QED BY <1>5, <1>6, <1>7 DEF B

\* Sequences that have x for each of two reasons, joined.
LEMMA CountFlattened ==
  ASSUME NEW S, NEW s \in Seq(Seq(S)), NEW x, NEW A, NEW B,
         \A i \in 1 .. Len(s) : Count(s[i], x) = Once(i, A) + Once(i, B)
  PROVE  Count(FlattenSeq(s), x) = UpTo(A, Len(s)) + UpTo(B, Len(s))
  <1>1. PICK f \in [0 .. Len(s) -> Seq(S)] : PrefixJoins(s, f)
    BY FlattenUnfolds
  <1> DEFINE T == {n \in Nat : n <= Len(s) =>
                     Count(f[n], x) = UpTo(A, n) + UpTo(B, n)}
  <1>2. 0 \in T
    <2>1. f[0] = <<>> /\ A \cap 1 .. 0 = {} /\ B \cap 1 .. 0 = {}
      BY <1>1 DEF PrefixJoins
    <2> QED BY <2>1, CountOfNone, FS_EmptySet DEF UpTo
  <1>3. ASSUME NEW n \in Nat, n > 0, n - 1 \in T PROVE n \in T
    <2> SUFFICES ASSUME n <= Len(s)
                 PROVE  Count(f[n], x) = UpTo(A, n) + UpTo(B, n)
      OBVIOUS
    <2>1. /\ n \in 1 .. Len(s) /\ n - 1 \in 0 .. Len(s)
          /\ f[n - 1] \in Seq(S) /\ s[n] \in Seq(S)
      <3>1. n \in 1 .. Len(s) /\ n - 1 \in 0 .. Len(s)
        BY <1>3
      <3>2. f[n - 1] \in Seq(S)
        BY <3>1
      <3>3. s[n] \in Seq(S)
        BY <3>1
      <3> QED BY <3>1, <3>2, <3>3
    <2>2. f[n] = f[n - 1] \o s[n]
      BY <1>1, <2>1 DEF PrefixJoins
    <2>3. Count(f[n - 1], x) = UpTo(A, n - 1) + UpTo(B, n - 1)
      BY <1>3
    <2> HIDE DEF T
    <2>4. Count(f[n], x) = Count(f[n - 1], x) + Count(s[n], x)
      BY <2>1, <2>2, CountJoined
    <2>5. Count(s[n], x) = Once(n, A) + Once(n, B)
      BY <2>1
    <2>6. UpTo(A, n) = UpTo(A, n - 1) + Once(n, A)
      BY <1>3, OneMore DEF UpTo
    <2>7. UpTo(B, n) = UpTo(B, n - 1) + Once(n, B)
      BY <1>3, OneMore DEF UpTo
    <2>8. UpTo(A, n - 1) \in Nat /\ UpTo(B, n - 1) \in Nat
      BY <1>3, OneMore DEF UpTo
    <2> QED BY <2>3, <2>4, <2>5, <2>6, <2>7, <2>8 DEF Once
  <1>4. Len(s) \in T
    <2> HIDE DEF T
    <2> QED BY <1>2, <1>3, Climbing
  <1>5. FlattenSeq(s) = f[Len(s)]
    BY <1>1 DEF PrefixJoins
  <1> QED BY <1>4, <1>5

\* Pairs of one key and each number of a set are as many as the set has.
LEMMA CountOfPaired ==
  ASSUME NEW k, NEW A, IsFiniteSet(A)
  PROVE  IsFiniteSet({k} \X A) /\ Cardinality({k} \X A) = Cardinality(A)
  <1> DEFINE f == [i \in A |-> <<k, i>>]
  <1>1. f \in [A -> {k} \X A]
    OBVIOUS
  <1>2. \A i, j \in A : f[i] = f[j] => i = j
    OBVIOUS
  <1>3. \A p \in {k} \X A : \E i \in A : f[i] = p
    OBVIOUS
  <1> HIDE DEF f
  <1> QED BY <1>1, <1>2, <1>3, EquallyMany

\* One pair, or none.
LEMMA CountIf ==
  ASSUME NEW P \in BOOLEAN, NEW a, NEW x
  PROVE  Count(IF P THEN <<a>> ELSE <<>>, x) = (IF P /\ a = x THEN 1 ELSE 0)
  <1>1. CASE P
    <2> DEFINE none == <<>>
               S    == {a}
    <2>1. none \in Seq(S) /\ a \in S /\ Append(none, a) = <<a>>
      OBVIOUS
    <2> HIDE DEF none, S
    <2>2. Count(Append(none, a), x) = Count(none, x) + Once(a, {x})
      BY <2>1, CountAppended
    <2>3. Count(none, x) = 0
      BY CountOfNone DEF none
    <2>4. Count(<<a>>, x) = (IF a = x THEN 1 ELSE 0)
      BY <2>1, <2>2, <2>3 DEF Once
    <2> QED BY <1>1, <2>4
  <1>2. CASE ~P
    <2>1. (IF P /\ a = x THEN 1 ELSE 0) = 0
      BY <1>2 DEF Once
    <2> QED BY <1>2, <2>1, CountOfNone
  <1> QED BY <1>1, <1>2

-----------------------------------------------------------------------------
(* One header.                                                             *)

\* <<k, v>> comes from this value of this header.
FromValue(m, key, value, k, v) ==
  /\ key \notin Forwarding /\ key \in DOMAIN m
  /\ m[key] \notin InvalidKey /\ Lower[m[key]] = k
  /\ IF key \in Binary THEN value \in DOMAIN Base64 /\ Base64[value] = v
                       ELSE value \notin Unprintable /\ value = v

IsCredential(key, value, k, v) == key = "Authorization" /\ k = "authorization" /\ value = v

LEMMA PairsCounted ==
  ASSUME NEW m, NEW key, NEW value, NEW k, NEW v,
         key \notin Forwarding, ~BadBinary(m, key, value)
  PROVE  Count(PairsOf(m, key, value), <<k, v>>)
           = (IF IsCredential(key, value, k, v) THEN 1 ELSE 0) + (IF FromValue(m, key, value, k, v) THEN 1 ELSE 0)
  <1> DEFINE x == <<k, v>>
             a == <<"authorization", value>>
             b == <<Lower[m[key]], IF key \in Binary THEN Base64[value] ELSE value>>
             P == key = "Authorization"
             Q == IsForwarded(m, key, value)
             A == IF P THEN <<a>> ELSE <<>>
             B == IF Q THEN <<b>> ELSE <<>>
  <1>1. PairsOf(m, key, value) = A \o B
    BY DEF PairsOf
  <1>2. (P /\ a = x) = IsCredential(key, value, k, v)
    BY DEF IsCredential
  <1>3. (Q /\ b = x) = FromValue(m, key, value, k, v)
    BY DEF FromValue, IsForwarded, BadBinary
  <1>4. P \in BOOLEAN /\ Q \in BOOLEAN
    BY DEF IsForwarded
  <1> HIDE DEF x, a, b, P, Q
  <1>5. A \in Seq({a, b}) /\ B \in Seq({a, b})
    <2>1. <<a>> \in Seq({a, b}) /\ <<b>> \in Seq({a, b}) /\ <<>> \in Seq({a, b})
      OBVIOUS
    <2> QED BY <1>4, <2>1
  <1>6. Count(A, x) = (IF P /\ a = x THEN 1 ELSE 0) /\ Count(B, x) = (IF Q /\ b = x THEN 1 ELSE 0)
    BY <1>4, CountIf
  <1> HIDE DEF A, B
  <1>7. Count(A \o B, x) = Count(A, x) + Count(B, x)
    BY <1>5, CountJoined
  <1>8. Count(A \o B, x) = (IF P /\ a = x THEN 1 ELSE 0) + (IF Q /\ b = x THEN 1 ELSE 0)
    BY <1>6, <1>7
  <1> QED BY <1>1, <1>2, <1>3, <1>8 DEF x

\* The values of a header from which <<k, v>> comes, and those that are credentials.
From(m, key, values, k, v) == {i \in DOMAIN values : FromValue(m, key, values[i], k, v)}
Given(key, values, k, v)   == {i \in DOMAIN values : IsCredential(key, values[i], k, v)}

LEMMA HeaderCounted ==
  ASSUME NEW m, NEW key, NEW values \in Seq(STRING), NEW k, NEW v,
         HeaderPairs(m, key, values).ok
  PROVE  Count(HeaderPairs(m, key, values).pairs, <<k, v>>)
           = Cardinality(Given(key, values, k, v)) + Cardinality(From(m, key, values, k, v))
  <1> DEFINE n == Len(values)
             A == Given(key, values, k, v)
             B == From(m, key, values, k, v)
  <1>1. CASE key \in Forwarding
    <2>1. HeaderPairs(m, key, values).pairs = <<>>
      BY <1>1 DEF HeaderPairs
    <2>2. key # "Authorization"
      BY <1>1 DEF Forwarding, XForwardedFor, XForwardedHost
    <2>3. A = {} /\ B = {}
      BY <1>1, <2>2 DEF Given, From, IsCredential, FromValue
    <2>4. Cardinality(A) = 0 /\ Cardinality(B) = 0
      BY <2>3, FS_EmptySet
    <2> QED BY <2>1, <2>4, CountOfNone
  <1>2. CASE key \notin Forwarding
    <2>1. \A i \in DOMAIN values : ~BadBinary(m, key, values[i])
      BY <1>2, Zenon DEF HeaderPairs
    <2> DEFINE each == [i \in DOMAIN values |-> PairsOf(m, key, values[i])]
               S    == UNION {{<<"authorization", values[i]>>,
                        <<Lower[m[key]], IF key \in Binary THEN Base64[values[i]] ELSE values[i]>>} : i \in DOMAIN values}
    <2>2. HeaderPairs(m, key, values).pairs = FlattenSeq(each)
      BY <1>2, <2>1, Zenon DEF HeaderPairs
    <2>3. n \in Nat /\ DOMAIN values = 1 .. n
      OBVIOUS
    <2>4. \A i \in DOMAIN values : PairsOf(m, key, values[i]) \in Seq(S)
      <3> TAKE i \in DOMAIN values
      <3> DEFINE a == <<"authorization", values[i]>>
                 b == <<Lower[m[key]], IF key \in Binary THEN Base64[values[i]] ELSE values[i]>>
      <3>1. a \in S /\ b \in S
        OBVIOUS
      <3>2. PairsOf(m, key, values[i]) = (IF key = "Authorization" THEN <<a>> ELSE <<>>)
                                          \o (IF IsForwarded(m, key, values[i]) THEN <<b>> ELSE <<>>)
        BY DEF PairsOf
      <3> HIDE DEF a, b, S
      <3>3. <<a>> \in Seq(S) /\ <<b>> \in Seq(S) /\ <<>> \in Seq(S)
        BY <3>1
      <3>4. /\ (IF key = "Authorization" THEN <<a>> ELSE <<>>) \in Seq(S)
            /\ (IF IsForwarded(m, key, values[i]) THEN <<b>> ELSE <<>>) \in Seq(S)
        BY <3>3
      <3> QED BY <3>2, <3>4
    <2>5. each \in Seq(Seq(S)) /\ Len(each) = n
      <3> HIDE DEF S
      <3> QED BY <2>3, <2>4
    <2>6. \A i \in 1 .. n : Count(each[i], <<k, v>>) = Once(i, A) + Once(i, B)
      <3> TAKE i \in 1 .. n
      <3>1. each[i] = PairsOf(m, key, values[i])
        BY <2>3
      <3>2. Count(PairsOf(m, key, values[i]), <<k, v>>)
              = (IF IsCredential(key, values[i], k, v) THEN 1 ELSE 0) + (IF FromValue(m, key, values[i], k, v) THEN 1 ELSE 0)
        BY <1>2, <2>1, <2>3, PairsCounted
      <3>3. (i \in A) = IsCredential(key, values[i], k, v)
        BY <2>3 DEF Given, IsCredential
      <3>4. (i \in B) = FromValue(m, key, values[i], k, v)
        <4>1. FromValue(m, key, values[i], k, v) \in BOOLEAN
          BY DEF FromValue
        <4>2. i \in B <=> FromValue(m, key, values[i], k, v)
          BY <2>3 DEF From
        <4> QED BY <4>1, <4>2
      <3>5. /\ Once(i, A) = IF IsCredential(key, values[i], k, v) THEN 1 ELSE 0
            /\ Once(i, B) = IF FromValue(m, key, values[i], k, v) THEN 1 ELSE 0
        BY <3>3, <3>4 DEF Once
      <3> QED BY <3>1, <3>2, <3>5
    <2>7. A \cap 1 .. n = A /\ B \cap 1 .. n = B
      BY <2>3 DEF Given, From
    <2> DEFINE x == <<k, v>>
    <2> HIDE DEF each, S, A, B, n
    <2>8. \A i \in 1 .. Len(each) : Count(each[i], x) = Once(i, A) + Once(i, B)
      BY <2>5, <2>6
    <2> HIDE DEF x
    <2>9. Count(FlattenSeq(each), x)
            = UpTo(A, Len(each)) + UpTo(B, Len(each))
      BY <2>5, <2>8, CountFlattened
    <2> QED BY <2>2, <2>5, <2>7, <2>9 DEF A, B, x, UpTo
  <1> QED BY <1>1, <1>2

\* The pairs of a header are keys of K with values of V.
LEMMA HeaderTyped ==
  ASSUME NEW m, NEW key, NEW values \in Seq(STRING), NEW K, NEW V,
         HeaderPairs(m, key, values).ok,
         "authorization" \in K, key \in DOMAIN m => Lower[m[key]] \in K,
         \A i \in DOMAIN values : values[i] \in V,
         \A w \in DOMAIN Base64 : Base64[w] \in V
  PROVE  HeaderPairs(m, key, values).pairs \in Seq(K \X V)
  <1>1. CASE key \in Forwarding
    <2>1. HeaderPairs(m, key, values).pairs = <<>>
      BY <1>1 DEF HeaderPairs
    <2> QED BY <2>1
  <1>2. CASE key \notin Forwarding
    <2>1. \A i \in DOMAIN values : ~BadBinary(m, key, values[i])
      BY <1>2, Zenon DEF HeaderPairs
    <2> DEFINE each == [i \in DOMAIN values |-> PairsOf(m, key, values[i])]
               S    == K \X V
    <2>2. HeaderPairs(m, key, values).pairs = FlattenSeq(each)
      BY <1>2, <2>1, Zenon DEF HeaderPairs
    <2>3. \A i \in DOMAIN values : PairsOf(m, key, values[i]) \in Seq(S)
      <3> TAKE i \in DOMAIN values
      <3> DEFINE a == <<"authorization", values[i]>>
                 b == <<Lower[m[key]], IF key \in Binary THEN Base64[values[i]] ELSE values[i]>>
                 A == IF key = "Authorization" THEN <<a>> ELSE <<>>
                 B == IF IsForwarded(m, key, values[i]) THEN <<b>> ELSE <<>>
      <3>1. a \in S
        OBVIOUS
      <3>2. IsForwarded(m, key, values[i]) => b \in S
        BY <2>1 DEF IsForwarded, BadBinary
      <3>3. PairsOf(m, key, values[i]) = A \o B
        BY DEF PairsOf
      <3> HIDE DEF a, b, S
      <3>4. A \in Seq(S)
        BY <3>1
      <3>5. B \in Seq(S)
        BY <3>2
      <3> HIDE DEF A, B
      <3> QED BY <3>3, <3>4, <3>5
    <2>4. each \in Seq(Seq(S))
      <3> HIDE DEF S
      <3> QED BY <2>3
    <2> HIDE DEF each, S
    <2>5. FlattenSeq(each) \in Seq(S)
      BY <2>4, FlattenIsSeq
    <2> QED BY <2>2, <2>5 DEF S
  <1> QED BY <1>1, <1>2

-----------------------------------------------------------------------------
(* All headers.                                                            *)

\* What the headers of K have to do with <<k, v>>.
SourcesIn(K, k, v) == {at \in Sources(k, v) : at[1] \in K}
GivenIn(K, k, v)   == IF k = "authorization" /\ "Authorization" \in K THEN Credentials(v) ELSE {}

Accounted(K, ps, k, v) ==
  /\ IsFiniteSet(SourcesIn(K, k, v)) /\ IsFiniteSet(GivenIn(K, k, v))
  /\ Count(ps, <<k, v>>) = Cardinality(SourcesIn(K, k, v)) + Cardinality(GivenIn(K, k, v))

LEMMA SourcesGrow ==
  ASSUME NEW K, NEW key \in (DOMAIN request.headers) \ K, NEW k, NEW v
  PROVE  /\ SourcesIn(K \cup {key}, k, v)
              = SourcesIn(K, k, v) \cup ({key} \X From(Matched, key, request.headers[key], k, v))
         /\ SourcesIn(K, k, v) \cap ({key} \X From(Matched, key, request.headers[key], k, v)) = {}
         /\ GivenIn(K \cup {key}, k, v)
              = GivenIn(K, k, v) \cup Given(key, request.headers[key], k, v)
         /\ GivenIn(K, k, v) \cap Given(key, request.headers[key], k, v) = {}
  <1> DEFINE values == request.headers[key]
             new    == {key} \X From(Matched, key, values, k, v)
             all    == UNION {{h} \X DOMAIN request.headers[h] : h \in DOMAIN request.headers}
  <1>1. \A at : at \in Sources(k, v) <=>
          at \in all /\ FromValue(Matched, at[1], request.headers[at[1]][at[2]], k, v)
    BY DEF Sources, FromValue
  <1>2. \A at \in new : at[1] = key /\ at[2] \in DOMAIN values
                        /\ FromValue(Matched, key, values[at[2]], k, v) /\ at = <<key, at[2]>>
    BY DEF From
  <1>3. \A at \in new : at \in all
    BY <1>2
  <1>4. \A at \in all : at = <<at[1], at[2]>> /\ at[2] \in DOMAIN request.headers[at[1]]
    OBVIOUS
  <1>5. ASSUME NEW at \in SourcesIn(K \cup {key}, k, v), at[1] \notin K PROVE at \in new
    <2>1. at \in all /\ FromValue(Matched, at[1], request.headers[at[1]][at[2]], k, v) /\ at[1] = key
      BY <1>1, <1>5 DEF SourcesIn
    <2>2. at = <<key, at[2]>> /\ at[2] \in DOMAIN values /\ FromValue(Matched, key, values[at[2]], k, v)
      BY <1>4, <2>1
    <2>3. at[2] \in From(Matched, key, values, k, v)
      BY <2>2 DEF From
    <2> QED BY <2>2, <2>3
  <1>6. ASSUME NEW at \in new PROVE at \in SourcesIn(K \cup {key}, k, v) /\ at \notin SourcesIn(K, k, v)
    <2>1. at[1] = key /\ at \in all /\ FromValue(Matched, at[1], request.headers[at[1]][at[2]], k, v)
      BY <1>2, <1>3
    <2> QED BY <1>1, <2>1 DEF SourcesIn
  <1>7. SourcesIn(K, k, v) \subseteq SourcesIn(K \cup {key}, k, v)
    BY DEF SourcesIn
  <1>8. \A at \in SourcesIn(K \cup {key}, k, v) : at[1] \in K => at \in SourcesIn(K, k, v)
    BY DEF SourcesIn
  <1>9. /\ GivenIn(K \cup {key}, k, v) = GivenIn(K, k, v) \cup Given(key, values, k, v)
        /\ GivenIn(K, k, v) \cap Given(key, values, k, v) = {}
    <2>1. CASE k = "authorization" /\ key = "Authorization"
      <3>1. Given(key, values, k, v) = Credentials(v)
        BY <2>1 DEF Given, IsCredential, Credentials, Values
      <3> QED BY <2>1, <3>1 DEF GivenIn
    <2>2. CASE ~(k = "authorization" /\ key = "Authorization")
      <3>1. Given(key, values, k, v) = {}
        BY <2>2 DEF Given, IsCredential
      <3>2. GivenIn(K \cup {key}, k, v) = GivenIn(K, k, v)
        BY <2>2 DEF GivenIn
      <3> QED BY <3>1, <3>2
    <2> QED BY <2>1, <2>2
  <1> HIDE DEF new, all
  <1>10. /\ SourcesIn(K \cup {key}, k, v) = SourcesIn(K, k, v) \cup new
         /\ SourcesIn(K, k, v) \cap new = {}
    BY <1>5, <1>6, <1>7, <1>8
  <1> QED BY <1>9, <1>10 DEF new

\* Joining the sets of two headers adds their numbers.
LEMMA Disjoint ==
  ASSUME NEW A, NEW B, IsFiniteSet(A), IsFiniteSet(B), A \cap B = {}
  PROVE  /\ IsFiniteSet(A \cup B) /\ Cardinality(A) \in Nat /\ Cardinality(B) \in Nat
         /\ Cardinality(A \cup B) = Cardinality(A) + Cardinality(B)
  <1>1. Cardinality(A \cap B) = 0
    BY FS_EmptySet
  <1>2. IsFiniteSet(A \cup B) /\ Cardinality(A \cup B) = Cardinality(A) + Cardinality(B) - Cardinality(A \cap B)
    BY FS_Union
  <1>3. Cardinality(A) \in Nat /\ Cardinality(B) \in Nat
    BY FS_CardinalityType
  <1> QED BY <1>1, <1>2, <1>3

\* What was accounted for stays so with the pairs of one more header.
LEMMA OneMoreHeader ==
  ASSUME NEW K, NEW key \in (DOMAIN request.headers) \ K, request.headers[key] \in Seq(STRING),
         NEW S, NEW ps \in Seq(S), NEW k, NEW v,
         HeaderPairs(Matched, key, request.headers[key]).ok,
         HeaderPairs(Matched, key, request.headers[key]).pairs \in Seq(S),
         Accounted(K, ps, k, v)
  PROVE  Accounted(K \cup {key}, ps \o HeaderPairs(Matched, key, request.headers[key]).pairs, k, v)
  <1> DEFINE values == request.headers[key]
             h      == HeaderPairs(Matched, key, values).pairs
             A      == SourcesIn(K, k, v)
             B      == From(Matched, key, values, k, v)
             C      == GivenIn(K, k, v)
             D      == Given(key, values, k, v)
             x      == <<k, v>>
  <1>1. IsFiniteSet(B) /\ IsFiniteSet(D)
    <2>1. IsFiniteSet(1 .. Len(values)) /\ DOMAIN values = 1 .. Len(values)
      BY FS_Interval
    <2>2. B \in SUBSET (1 .. Len(values)) /\ D \in SUBSET (1 .. Len(values))
      BY <2>1 DEF From, Given
    <2> HIDE DEF B, D
    <2> QED BY <2>1, <2>2, FS_Subset
  <1>2. Count(h, x) = Cardinality(D) + Cardinality(B)
    BY HeaderCounted
  <1>3. /\ IsFiniteSet(A) /\ IsFiniteSet(C)
        /\ Count(ps, x) = Cardinality(A) + Cardinality(C)
    BY DEF Accounted
  <1>4. /\ SourcesIn(K \cup {key}, k, v) = A \cup ({key} \X B) /\ A \cap ({key} \X B) = {}
        /\ GivenIn(K \cup {key}, k, v) = C \cup D /\ C \cap D = {}
    BY SourcesGrow
  <1>5. h \in Seq(S)
    OBVIOUS
  <1> HIDE DEF values, h, A, B, C, D, x
  <1>6. IsFiniteSet({key} \X B) /\ Cardinality({key} \X B) = Cardinality(B)
    BY <1>1, CountOfPaired
  <1>7. Count(ps \o h, x) = Count(ps, x) + Count(h, x)
    BY <1>5, CountJoined
  <1> DEFINE E == {key} \X B
  <1>8. IsFiniteSet(E) /\ A \cap E = {} /\ Cardinality(E) = Cardinality(B)
    BY <1>4, <1>6
  <1> HIDE DEF E
  <1>9. /\ IsFiniteSet(A \cup E) /\ Cardinality(A) \in Nat /\ Cardinality(E) \in Nat
        /\ Cardinality(A \cup E) = Cardinality(A) + Cardinality(E)
    BY <1>3, <1>8, Disjoint
  <1>10. /\ IsFiniteSet(C \cup D) /\ Cardinality(C) \in Nat /\ Cardinality(D) \in Nat
         /\ Cardinality(C \cup D) = Cardinality(C) + Cardinality(D)
    BY <1>1, <1>3, <1>4, Disjoint
  <1>11. Count(ps \o h, x) = Cardinality(A \cup E) + Cardinality(C \cup D)
    BY <1>2, <1>3, <1>7, <1>8, <1>9, <1>10
  <1>12. SourcesIn(K \cup {key}, k, v) = A \cup E /\ GivenIn(K \cup {key}, k, v) = C \cup D
    BY <1>4 DEF E
  <1>13. IsFiniteSet(SourcesIn(K \cup {key}, k, v)) /\ IsFiniteSet(GivenIn(K \cup {key}, k, v))
    BY <1>9, <1>10, <1>12
  <1>14. Count(ps \o h, x) = Cardinality(SourcesIn(K \cup {key}, k, v)) + Cardinality(GivenIn(K \cup {key}, k, v))
    BY <1>11, <1>12
  <1> QED BY <1>13, <1>14 DEF Accounted, values, h, x

\* A duration that fits is not changed by the width.
LEMMA WrapFits ==
  ASSUME NEW n \in Int, -HalfRange <= n, n < HalfRange
  PROVE  Wrap(n) = n
  <1>1. HalfRange \in Int /\ HalfRange > 0
    BY HeaderAssumption DEF HalfRange
  <1> DEFINE H == HalfRange
  <1> HIDE DEF H
  <1>2. H \in Int /\ H > 0 /\ -H <= n /\ n < H
    BY <1>1 DEF H
  <1>3. ((n + H) % (2 * H)) - H = n
    BY <1>2
  <1> QED BY <1>3 DEF Wrap, H

\* Whole seconds are less than a second short.
LEMMA SecondsBelow ==
  ASSUME NEW d \in Nat
  PROVE  InSeconds(d) \in 0 .. d /\ d - InSeconds(d) < Units["S"]
  <1>1. PICK s \in Int : s = Units["S"] /\ s > 0
    BY HeaderAssumption
  <1>2. d % s \in 0 .. s - 1
    BY <1>1
  <1>3. d < s => d % s = d
    BY <1>1
  <1>4. PICK m \in 0 .. s - 1 : m = d % s
    BY <1>2
  <1>5. m \in 0 .. d
    BY <1>1, <1>3, <1>4
  <1>6. InSeconds(d) = d - m
    BY <1>1, <1>4, Zenon DEF InSeconds
  <1> QED BY <1>1, <1>4, <1>5, <1>6

LEMMA DefaultApproximates == Approximates(DefaultTimeout, DefaultContextTimeout)
  <1>1. PICK t \in Int : t = DefaultContextTimeout
    <2>1. 2 ^ (Width - 1) \in Int
      BY HeaderAssumption
    <2> QED BY <2>1, HeaderAssumption
  <1>2. Units["S"] \in Int
    BY HeaderAssumption
  <1>3. CASE t < 0
    <2>1. -t \in Nat
      BY <1>3
    <2>2. InSeconds(-t) \in 0 .. -t /\ (-t) - InSeconds(-t) < Units["S"]
      BY <2>1, SecondsBelow
    <2>3. DefaultTimeout = -InSeconds(-t)
      BY <1>1, <1>3 DEF DefaultTimeout, Truncated
    <2> QED BY <1>1, <1>2, <1>3, <2>2, <2>3 DEF Approximates
  <1>4. CASE ~(t < 0)
    <2>1. InSeconds(t) \in 0 .. t /\ t - InSeconds(t) < Units["S"]
      BY <1>4, SecondsBelow
    <2>2. DefaultTimeout = InSeconds(t)
      BY <1>1, <1>4 DEF DefaultTimeout, Truncated
    <2> QED BY <1>1, <1>2, <1>4, <2>1, <2>2 DEF Approximates
  <1> QED BY <1>3, <1>4

-----------------------------------------------------------------------------
(* The invariant: of the headers seen so far, everything is accounted for.   *)

Seen == (DOMAIN request.headers) \ pending

AllAccounted ==
  /\ request \in Requests
  /\ request.timeout # <<>> => TimeoutOK(request.timeout)
  /\ pending \subseteq DOMAIN request.headers
  /\ pairs \in Seq(KeysMeant \X ValuesMeant)
  /\ \A key \in Seen : \A i \in DOMAIN request.headers[key] : ~BadBinary(Matched, key, request.headers[key][i])
  /\ \A k \in KeysMeant, v \in ValuesMeant : Accounted(Seen, pairs, k, v)

InTime ==
  /\ request.timeout # <<>> => Magnitude \in Int /\ deadline = Wrap(Magnitude)
  /\ request.timeout = <<>> => deadline = DefaultTimeout

HeadersInv ==
  /\ stage \in {"serving", "headers"} => problem = ""
  /\ stage = "serving" => pairs = <<>>
  /\ problem = "header" => Undecodable
  /\ stage = "headers" => AllAccounted
  /\ stage = "body" => InTime

LEMMA HeadersInvInit == ContextInit => HeadersInv
  BY DEF ContextInit, NothingAsked, HeadersInv

LEMMA ReceiveKeeps ==
  ASSUME HeadersInv, NEW r \in Requests, Receive(r)
  PROVE  HeadersInv'
  <1>1. stage = "serving" /\ request' = r /\ pairs' = <<>> /\ problem = "" /\ mux' = mux
    BY DEF Receive, HeadersInv
  <1>2. CASE stage' = "failed" /\ problem' = "timeout"
    BY <1>2 DEF HeadersInv
  <1>3. CASE /\ stage' = "headers" /\ pending' = DOMAIN r.headers /\ problem' = ""
             /\ (r.timeout # <<>> => TimeoutOK(r.timeout))
    <2>1. Seen' = {}
      BY <1>1, <1>3 DEF Seen
    <2>2. pairs' \in Seq((KeysMeant \X ValuesMeant)')
      <3>1. \A S : <<>> \in Seq(S)
        OBVIOUS
      <3> QED BY <1>1, <3>1, Zenon
    <2>3. \A k, v : Accounted({}, <<>>, k, v)'
      <3> TAKE k, v
      <3>1. SourcesIn({}, k, v)' = {} /\ GivenIn({}, k, v)' = {}
        BY DEF SourcesIn, GivenIn
      <3>2. Cardinality(SourcesIn({}, k, v)') = 0 /\ Cardinality(GivenIn({}, k, v)') = 0
        BY <3>1, FS_EmptySet
      <3>3. IsFiniteSet(SourcesIn({}, k, v)') /\ IsFiniteSet(GivenIn({}, k, v)')
        BY <3>1, FS_EmptySet
      <3>4. Count(<<>>, <<k, v>>) = 0
        BY CountOfNone
      <3> QED BY <3>2, <3>3, <3>4 DEF Accounted
    <2>4. AllAccounted'
      BY <1>1, <1>3, <2>1, <2>2, <2>3 DEF AllAccounted
    <2> QED BY <1>3, <2>4 DEF HeadersInv
  <1>4. \/ stage' = "failed" /\ problem' = "timeout"
        \/ /\ stage' = "headers" /\ pending' = DOMAIN r.headers /\ problem' = ""
           /\ (r.timeout # <<>> => TimeoutOK(r.timeout))
    BY <1>1, Zenon DEF Receive, FailFor
  <1> QED BY <1>2, <1>3, <1>4

\* Nothing but the request and the mux says what the metadata has to be.
LEMMA MeaningKept ==
  ASSUME request' = request, mux' = mux
  PROVE  /\ KeysMeant' = KeysMeant /\ ValuesMeant' = ValuesMeant /\ Undecodable' = Undecodable
         /\ \A K, ps, k, v : Accounted(K, ps, k, v)' = Accounted(K, ps, k, v)
  <1>1. KeysMeant' = KeysMeant /\ ValuesMeant' = ValuesMeant
    BY DEF KeysMeant, ValuesMeant, Matched
  <1>2. Undecodable' = Undecodable
    BY DEF Undecodable, Matched
  <1>3. ASSUME NEW k, NEW v PROVE Sources(k, v)' = Sources(k, v) /\ Credentials(v)' = Credentials(v)
    BY DEF Sources, Credentials, Matched
  <1>4. ASSUME NEW K, NEW k, NEW v
        PROVE  SourcesIn(K, k, v)' = SourcesIn(K, k, v) /\ GivenIn(K, k, v)' = GivenIn(K, k, v)
    BY <1>3 DEF SourcesIn, GivenIn
  <1>5. ASSUME NEW K, NEW ps, NEW k, NEW v
        PROVE  Accounted(K, ps, k, v)' = Accounted(K, ps, k, v)
    BY <1>4 DEF Accounted
  <1> QED BY <1>1, <1>2, <1>5

LEMMA HeaderAccounted ==
  ASSUME HeadersInv, stage = "headers", NEW key \in pending,
         request' = request, mux' = mux, stage' = stage, problem' = problem,
         HeaderPairs(Matched, key, request.headers[key]).ok,
         pairs' = pairs \o HeaderPairs(Matched, key, request.headers[key]).pairs,
         pending' = pending \ {key}
  PROVE  HeadersInv'
  <1> DEFINE values == request.headers[key]
             more   == HeaderPairs(Matched, key, values).pairs
             S      == KeysMeant \X ValuesMeant
  <1>1. AllAccounted /\ problem = ""
    BY DEF HeadersInv
  <1>2. /\ request \in Requests /\ pending \subseteq DOMAIN request.headers
        /\ pairs \in Seq(S) /\ key \in DOMAIN request.headers
    BY <1>1 DEF AllAccounted
  <1>3. values \in Seq(STRING)
    BY <1>2, RequestsAssumption
  <1>4. more \in Seq(S)
    <2>1. "authorization" \in KeysMeant /\ (key \in DOMAIN Matched => Lower[Matched[key]] \in KeysMeant)
      BY <1>2 DEF KeysMeant
    <2>2. \A i \in DOMAIN values : values[i] \in ValuesMeant
      <3>1. \A i \in DOMAIN values : values[i] \in ToSet(values)
        BY DEF ToSet
      <3>2. ToSet(values) \in {ToSet(request.headers[h]) : h \in DOMAIN request.headers}
        BY <1>2, Zenon
      <3>3. ToSet(values) \subseteq ValuesMeant
        BY <3>2, Zenon DEF ValuesMeant
      <3> HIDE DEF values
      <3> QED BY <3>1, <3>3
    <2>3. \A w \in DOMAIN Base64 : Base64[w] \in ValuesMeant
      BY DEF ValuesMeant
    <2> QED BY <1>3, <2>1, <2>2, <2>3, HeaderTyped
  <1>5. Seen' = Seen \cup {key} /\ key \in (DOMAIN request.headers) \ Seen
    BY <1>2 DEF Seen
  <1>6. \A i \in DOMAIN values : ~BadBinary(Matched, key, values[i])
    <2>1. CASE key \in Forwarding
      BY <2>1, HeaderAssumption DEF BadBinary, Forwarding, XForwardedFor, XForwardedHost
    <2>2. CASE key \notin Forwarding
      BY <2>2, Zenon DEF HeaderPairs
    <2> QED BY <2>1, <2>2
  <1>7. ASSUME NEW k \in KeysMeant, NEW v \in ValuesMeant
        PROVE  Accounted(Seen \cup {key}, pairs \o more, k, v)
    <2>1. Accounted(Seen, pairs, k, v)
      BY <1>1 DEF AllAccounted
    <2> HIDE DEF S
    <2> QED BY <1>2, <1>3, <1>4, <1>5, <2>1, OneMoreHeader
  <1>8. KeysMeant' = KeysMeant /\ ValuesMeant' = ValuesMeant
    BY MeaningKept
  <1>9. pairs' = pairs \o more /\ pairs \o more \in Seq(S)
    BY <1>2, <1>4
  <1>10. pairs' \in Seq((KeysMeant \X ValuesMeant)')
    BY <1>8, <1>9
  <1>11. ASSUME NEW k \in KeysMeant', NEW v \in ValuesMeant'
         PROVE  Accounted(Seen, pairs, k, v)'
    <2>1. Accounted(Seen \cup {key}, pairs \o more, k, v)
      BY <1>7, <1>8
    <2> QED BY <1>5, <1>9, <2>1, MeaningKept
  <1>12. \A h \in Seen' : \A i \in DOMAIN request'.headers[h] : ~BadBinary(Matched, h, request.headers[h][i])'
    BY <1>1, <1>5, <1>6 DEF AllAccounted, Matched
  <1>13. pending' \subseteq DOMAIN request'.headers /\ request' \in Requests
         /\ (request'.timeout # <<>> => TimeoutOK(request.timeout)')
    BY <1>1, <1>2 DEF AllAccounted
  <1> HIDE DEF values, more, S
  <1>14. AllAccounted'
    BY <1>10, <1>11, <1>12, <1>13 DEF AllAccounted
  <1> QED BY <1>1, <1>14 DEF HeadersInv

LEMMA AnnotateHeaderKeeps ==
  ASSUME HeadersInv, AnnotateHeader
  PROVE  HeadersInv'
  <1>1. PICK key \in pending :
          LET h == HeaderPairs(mux.incomingHeaderMatcher, key, request.headers[key])
          IN  IF h.ok THEN pairs' = pairs \o h.pairs /\ pending' = pending \ {key} /\ UNCHANGED <<stage, problem>>
              ELSE FailFor("header") /\ UNCHANGED <<pairs, pending>>
    BY DEF AnnotateHeader
  <1>2. stage = "headers" /\ request' = request /\ mux' = mux
    BY DEF AnnotateHeader
  <1> DEFINE h == HeaderPairs(Matched, key, request.headers[key])
  <1>3. CASE h.ok
    <2>1. pairs' = pairs \o h.pairs /\ pending' = pending \ {key} /\ stage' = stage /\ problem' = problem
      BY <1>1, <1>3, Zenon DEF Matched
    <2> QED BY <1>2, <1>3, <2>1, HeaderAccounted
  <1>4. CASE ~h.ok
    <2>1. stage' = "failed" /\ problem' = "header"
      BY <1>1, <1>4, Zenon DEF Matched, FailFor
    <2>2. \E i \in DOMAIN request.headers[key] : BadBinary(Matched, key, request.headers[key][i])
      BY <1>4, Zenon DEF HeaderPairs
    <2>3. key \in DOMAIN request.headers
      BY <1>2 DEF HeadersInv, AllAccounted
    <2>4. Undecodable
      BY <2>2, <2>3 DEF Undecodable, BadBinary, IsForwarded, ToSet
    <2>5. Undecodable'
      BY <1>2, <2>4, MeaningKept
    <2> QED BY <2>1, <2>5 DEF HeadersInv
  <1> QED BY <1>3, <1>4

LEMMA AnnotateContextKeeps ==
  ASSUME HeadersInv, AnnotateContext
  PROVE  HeadersInv'
  <1>1. stage' = "body" /\ deadline' = DurationOf(request.timeout) /\ request' = request /\ problem' = ""
    BY DEF AnnotateContext, HeadersInv
  <1>2. AllAccounted
    BY DEF AnnotateContext, HeadersInv
  <1>3. InTime'
    <2>1. CASE request.timeout = <<>>
      BY <1>1, <2>1 DEF InTime, DurationOf
    <2>2. CASE request.timeout # <<>>
      <3>1. request.timeout[1] \in Int /\ request.timeout[2] \in DOMAIN Units
        BY <1>2, <2>2, RequestsAssumption DEF AllAccounted, TimeoutOK
      <3>2. Units[request.timeout[2]] \in Int
        BY <3>1, HeaderAssumption
      <3>3. Magnitude \in Int
        BY <3>1, <3>2 DEF Magnitude
      <3>4. deadline' = Wrap(Magnitude)
        BY <1>1, <2>2 DEF DurationOf, DecodeTimeout, Magnitude
      <3>5. Magnitude' = Magnitude /\ Wrap(Magnitude)' = Wrap(Magnitude)
        BY <1>1 DEF Magnitude, Wrap, HalfRange
      <3> QED BY <1>1, <2>2, <3>3, <3>4, <3>5 DEF InTime
    <2> QED BY <2>1, <2>2
  <1> QED BY <1>1, <1>3 DEF HeadersInv

LEMMA HeadersInvSays == HeadersInv => HeadersBecomeMetadata
  <1> SUFFICES ASSUME HeadersInv PROVE HeadersBecomeMetadata
    OBVIOUS
  <1>1. problem = "header" => Undecodable
    BY DEF HeadersInv
  <1>2. ASSUME stage = "headers", pending = {}
        PROVE  /\ ~Undecodable
               /\ \A pair \in ToSet(pairs) \cup (KeysMeant \X ValuesMeant) :
                    Cardinality({j \in DOMAIN pairs : pairs[j] = pair})
                      = Cardinality(Sources(pair[1], pair[2]))
                        + (IF pair[1] = "authorization" THEN Cardinality(Credentials(pair[2])) ELSE 0)
    <2>1. AllAccounted /\ Seen = DOMAIN request.headers
      BY <1>2 DEF HeadersInv, Seen
    <2>2. ~Undecodable
      <3>1. \A key \in DOMAIN request.headers : \A i \in DOMAIN request.headers[key] :
              ~BadBinary(Matched, key, request.headers[key][i])
        BY <2>1 DEF AllAccounted
      <3> QED BY <3>1 DEF Undecodable, BadBinary, IsForwarded, ToSet
    <2>3. ASSUME NEW k \in KeysMeant, NEW v \in ValuesMeant
          PROVE  Count(pairs, <<k, v>>)
                   = Cardinality(Sources(k, v)) + (IF k = "authorization" THEN Cardinality(Credentials(v)) ELSE 0)
      <3>1. Count(pairs, <<k, v>>) = Cardinality(SourcesIn(Seen, k, v)) + Cardinality(GivenIn(Seen, k, v))
        BY <2>1 DEF AllAccounted, Accounted
      <3>2. SourcesIn(Seen, k, v) = Sources(k, v)
        BY <2>1 DEF SourcesIn, Sources
      <3>3. Cardinality(GivenIn(Seen, k, v)) = IF k = "authorization" THEN Cardinality(Credentials(v)) ELSE 0
        <4>1. CASE k # "authorization"
          <5>1. GivenIn(Seen, k, v) = {}
            BY <4>1 DEF GivenIn
          <5> QED BY <4>1, <5>1, FS_EmptySet
        <4>2. CASE k = "authorization" /\ "Authorization" \in DOMAIN request.headers
          <5>1. GivenIn(Seen, k, v) = Credentials(v)
            BY <2>1, <4>2 DEF GivenIn
          <5> QED BY <4>2, <5>1
        <4>3. CASE k = "authorization" /\ "Authorization" \notin DOMAIN request.headers
          <5>1. GivenIn(Seen, k, v) = {} /\ Credentials(v) = {}
            BY <2>1, <4>3 DEF GivenIn, Credentials, Values
          <5> QED BY <4>3, <5>1, FS_EmptySet
        <4> QED BY <4>1, <4>2, <4>3
      <3> QED BY <3>1, <3>2, <3>3
    <2>4. ASSUME NEW pair \in ToSet(pairs) \cup (KeysMeant \X ValuesMeant)
          PROVE  Cardinality({j \in DOMAIN pairs : pairs[j] = pair})
                   = Cardinality(Sources(pair[1], pair[2]))
                     + (IF pair[1] = "authorization" THEN Cardinality(Credentials(pair[2])) ELSE 0)
      <3>1. pair \in KeysMeant \X ValuesMeant
        BY <2>1 DEF AllAccounted, ToSet
      <3>2. pair[1] \in KeysMeant /\ pair[2] \in ValuesMeant /\ pair = <<pair[1], pair[2]>>
        BY <3>1
      <3>3. Count(pairs, pair) = Cardinality(Sources(pair[1], pair[2]))
                     + (IF pair[1] = "authorization" THEN Cardinality(Credentials(pair[2])) ELSE 0)
        BY <2>3, <3>2
      <3> QED BY <3>3 DEF Count, Places
    <2> QED BY <2>2, <2>4
  <1>3. ASSUME stage = "body", request.timeout # <<>>,
               Magnitude \in -(2 ^ (Width - 1)) .. 2 ^ (Width - 1) - 1
        PROVE  deadline = Magnitude
    <2>1. Magnitude \in Int /\ deadline = Wrap(Magnitude)
      BY <1>3 DEF HeadersInv, InTime
    <2>2. HalfRange \in Int
      BY HeaderAssumption DEF HalfRange
    <2>3. -HalfRange <= Magnitude /\ Magnitude < HalfRange
      BY <1>3, <2>1, <2>2 DEF HalfRange
    <2> QED BY <2>1, <2>3, WrapFits
  <1>4. ASSUME stage = "body", request.timeout = <<>>
        PROVE  Approximates(deadline, DefaultContextTimeout)
    BY <1>4, DefaultApproximates DEF HeadersInv, InTime
  <1> QED BY <1>1, <1>2, <1>3, <1>4 DEF HeadersBecomeMetadata

\* Whatever headers a request has, in whatever order they are walked, for any
\* matcher and any width of a duration: they become metadata, each value that
\* may pass as often as it came.  About AnnotateContext.
THEOREM HeadersAlwaysBecomeMetadata == ContextSpec => []HeadersBecomeMetadata
  <1>1. HeadersInv /\ [ContextNext]_contextVars => HeadersInv'
    <2> SUFFICES ASSUME HeadersInv, [ContextNext]_contextVars PROVE HeadersInv'
      OBVIOUS
    <2>1. ASSUME NEW r \in Requests, Receive(r) PROVE HeadersInv'
      BY <2>1, ReceiveKeeps
    <2>2. CASE AnnotateHeader
      BY <2>2, AnnotateHeaderKeeps
    <2>3. CASE AnnotateContext
      BY <2>3, AnnotateContextKeeps
    <2>4. CASE UNCHANGED contextVars
      <3>1. /\ stage' = stage /\ mux' = mux /\ request' = request /\ pending' = pending
            /\ pairs' = pairs /\ deadline' = deadline /\ problem' = problem
        BY <2>4 DEF contextVars
      <3>2. AllAccounted' = AllAccounted
        BY <3>1 DEF AllAccounted, Seen, KeysMeant, ValuesMeant, Matched, Accounted, SourcesIn, GivenIn,
                    Sources, Credentials
      <3>3. InTime' = InTime
        BY <3>1 DEF InTime, Magnitude
      <3> QED BY <3>1, <3>2, <3>3, MeaningKept DEF HeadersInv
    <2> QED BY <2>1, <2>2, <2>3, <2>4 DEF ContextNext
  <1> QED BY <1>1, HeadersInvInit, HeadersInvSays, PTL DEF ContextSpec
=============================================================================
