---------------------- MODULE DescriptorRegistry_proofs ----------------------
(***************************************************************************)
(* Whatever a plugin reserves and whichever files it has, the names of Go    *)
(* packages in generated code tell the packages apart, each rule of a        *)
(* method has the binding it asks for, and a load that fails for a missing   *)
(* message misses one.                                                      *)
(***************************************************************************)
EXTENDS DescriptorRegistry, HttpRule_proofs, FiniteSetTheorems

\* fmt.Sprintf writes two numbers in two ways, and no suffixed name is empty.
NumberedApart(n) ==
  \A k \in Nat : /\ Suffixed(n, k) # ""
                 /\ \A l \in Nat : Suffixed(n, k) = Suffixed(n, l) => k = l
SuffixesDiffer == \A i \in Input : \A f \in ToSet(i.files) : NumberedApart(f.goName)

\* Aliases are only ever added.
Extended(a, b)         == DOMAIN a \subseteq DOMAIN b /\ \A x \in DOMAIN a : b[x] = a[x]
Holds(a, alias, path)  == alias \in DOMAIN a /\ a[alias] = path
Denied(a, alias, path) == alias \in DOMAIN a /\ a[alias] # path

LEMMA ReserveExtends ==
  ASSUME NEW a, IsFiniteSet(DOMAIN a), NEW alias, NEW path
  PROVE  /\ IsFiniteSet(DOMAIN Reserve(a, alias, path).aliases)
         /\ Extended(a, Reserve(a, alias, path).aliases)
         /\ Reserve(a, alias, path).ok \in BOOLEAN
         /\ Reserve(a, alias, path).ok => Holds(Reserve(a, alias, path).aliases, alias, path)
         /\ ~ Reserve(a, alias, path).ok => Denied(a, alias, path)
  <1> DEFINE r == Reserve(a, alias, path)
             Goal(ok, b) == /\ IsFiniteSet(DOMAIN b) /\ Extended(a, b)
                            /\ ok \in BOOLEAN
                            /\ ok => Holds(b, alias, path)
                            /\ ~ ok => Denied(a, alias, path)
  <1> SUFFICES Goal(r.ok, r.aliases)
    BY Zenon
  <1>1. Extended(a, a)
    BY Zenon DEF Extended
  <1>2. CASE alias \in DOMAIN a /\ a[alias] = path
    <2>1. r = [ok |-> TRUE, aliases |-> a]
      BY <1>2 DEF Reserve
    <2> HIDE DEF r
    <2>2. r.ok = TRUE /\ r.aliases = a
      BY <2>1
    <2>3. Goal(TRUE, a)
      BY <1>1, <1>2, Zenon DEF Holds
    <2> HIDE DEF Goal
    <2> QED BY <2>2, <2>3, Zenon
  <1>3. CASE alias \in DOMAIN a /\ a[alias] # path
    <2>1. r = [ok |-> FALSE, aliases |-> a]
      BY <1>3 DEF Reserve
    <2> HIDE DEF r
    <2>2. r.ok = FALSE /\ r.aliases = a
      BY <2>1
    <2>3. Goal(FALSE, a)
      BY <1>1, <1>3, Zenon DEF Denied
    <2> HIDE DEF Goal
    <2> QED BY <2>2, <2>3, Zenon
  <1>4. CASE alias \notin DOMAIN a
    <2> DEFINE b == Updated(a, alias, path)
    <2>1. r = [ok |-> TRUE, aliases |-> b]
      BY <1>4, Zenon DEF Reserve
    <2>2. /\ DOMAIN b = DOMAIN a \cup {alias}
          /\ \A x \in DOMAIN b : b[x] = IF x = alias THEN path ELSE a[x]
      BY Zenon DEF Updated
    <2> HIDE DEF b, r
    <2>3. r.ok = TRUE /\ r.aliases = b
      BY <2>1
    <2>4. IsFiniteSet(DOMAIN b)
      BY <2>2, FS_AddElement, Zenon
    <2>5. Extended(a, b) /\ Holds(b, alias, path)
      BY <1>4, <2>2 DEF Extended, Holds
    <2>6. Goal(TRUE, b)
      BY <2>4, <2>5, Zenon
    <2> HIDE DEF Goal
    <2> QED BY <2>3, <2>6, Zenon
  <1> QED BY <1>2, <1>3, <1>4, Zenon

LEMMA ExtendedTwice ==
  ASSUME NEW a, NEW b, NEW c, Extended(a, b), Extended(b, c)
  PROVE  Extended(a, c)
  BY DEF Extended

-----------------------------------------------------------------------------
(* The search for a free suffix.                                            *)

\* Among one more suffix than there are aliases one is free.
LEMMA SuffixFree ==
  ASSUME NEW a, IsFiniteSet(DOMAIN a), NEW n, NEW path,
         \A k, l \in Nat : Suffixed(n, k) = Suffixed(n, l) => k = l
  PROVE  \E i \in 0 .. Cardinality(DOMAIN a) : Reserve(a, Suffixed(n, i), path).ok
  <1> DEFINE c == Cardinality(DOMAIN a)
             suffix == [i \in 0 .. c |-> Suffixed(n, i)]
  <1>1. c \in Nat
    BY FS_CardinalityType, Zenon
  <1>2. IsFiniteSet(0 .. c) /\ Cardinality(0 .. c) = c + 1
    <2> HIDE DEF c
    <2> QED BY <1>1, FS_Interval
  <1> SUFFICES ASSUME \A i \in 0 .. c : ~ Reserve(a, Suffixed(n, i), path).ok
               PROVE  FALSE
    BY Zenon
  <1>3. \A i \in 0 .. c : Suffixed(n, i) \in DOMAIN a
    BY ReserveExtends, Zenon DEF Denied
  <1>4. suffix \in [0 .. c -> DOMAIN a]
    BY <1>3, Zenon
  <1>5. Cardinality(DOMAIN a) < Cardinality(0 .. c)
    <2>1. Cardinality(DOMAIN a) = c
      OBVIOUS
    <2> HIDE DEF c
    <2> QED BY <1>1, <1>2, <2>1
  <1>6. PICK k, l \in 0 .. c : k # l /\ suffix[k] = suffix[l]
    <2> DEFINE S == 0 .. c
               T == DOMAIN a
    <2>1. IsFiniteSet(S) /\ IsFiniteSet(T) /\ Cardinality(T) < Cardinality(S) /\ suffix \in [S -> T]
      BY <1>2, <1>4, <1>5, Zenon
    <2> HIDE DEF c, suffix, S, T
    <2>2. \E k, l \in S : k # l /\ suffix[k] = suffix[l]
      BY <2>1, FS_PigeonHole
    <2> QED BY <2>2, Zenon DEF S
  <1>7. Suffixed(n, k) = Suffixed(n, l)
    BY <1>6, Zenon
  <1>8. k \in Nat /\ l \in Nat
    <2> HIDE DEF c
    <2> QED BY <1>1
  <1> QED BY <1>6, <1>7, <1>8, Zenon

\* The alias that AliasFor gives, and what it means: without one the name is
\* the path's; with one the name is another path's, and so are the suffixes
\* before.
Told(a, f, alias) ==
  \/ alias = "" /\ Holds(a, f.goName, f.goPath)
  \/ /\ Denied(a, f.goName, f.goPath)
     /\ \E k \in Nat : /\ alias = Suffixed(f.goName, k)
                       /\ Holds(a, Suffixed(f.goName, k), f.goPath)
                       /\ \A l \in 0 .. k - 1 : Denied(a, Suffixed(f.goName, l), f.goPath)

LEMMA ToldStays ==
  ASSUME NEW a, NEW b, Extended(a, b), NEW f, NEW alias, Told(a, f, alias)
  PROVE  Told(b, f, alias)
  <1>1. \A x : /\ Holds(a, x, f.goPath) => Holds(b, x, f.goPath)
               /\ Denied(a, x, f.goPath) => Denied(b, x, f.goPath)
    BY Zenon DEF Extended, Holds, Denied
  <1> QED BY <1>1, Zenon DEF Told

\* The name that generated code uses for the package of a file.
NameIn(f, alias) == IF alias = "" THEN f.goName ELSE alias

\* Two files have one name exactly if they have one path.
LEMMA ToldApart ==
  ASSUME NEW a, NEW f, NEW g, NEW x, NEW y, Told(a, f, x), Told(a, g, y),
         NumberedApart(f.goName), NumberedApart(g.goName), f.goPath = g.goPath => f.goName = g.goName
  PROVE  /\ a[NameIn(f, x)] = f.goPath
         /\ NameIn(f, x) = NameIn(g, y) <=> f.goPath = g.goPath
  <1>1. a[NameIn(f, x)] = f.goPath /\ a[NameIn(g, y)] = g.goPath
    BY Zenon DEF Told, Holds, NumberedApart, NameIn
  <1>2. ASSUME f.goPath = g.goPath PROVE NameIn(f, x) = NameIn(g, y)
    <2> DEFINE n == f.goName
               p == f.goPath
    <2>1. g.goName = n /\ g.goPath = p
      BY <1>2, Zenon
    <2>2. ~ (Holds(a, n, p) /\ Denied(a, n, p))
      BY Zenon DEF Holds, Denied
    <2>3. CASE Holds(a, n, p)
      <3>1. x = "" /\ y = ""
        BY <2>1, <2>2, <2>3, Zenon DEF Told
      <3> QED BY <2>1, <3>1, Zenon DEF NameIn
    <2>4. CASE Denied(a, n, p)
      <3>1. PICK k \in Nat : /\ x = Suffixed(n, k) /\ Holds(a, Suffixed(n, k), p)
                             /\ \A l \in 0 .. k - 1 : Denied(a, Suffixed(n, l), p)
        BY <2>2, <2>4, Zenon DEF Told
      <3>2. PICK l \in Nat : /\ y = Suffixed(n, l) /\ Holds(a, Suffixed(n, l), p)
                             /\ \A m \in 0 .. l - 1 : Denied(a, Suffixed(n, m), p)
        BY <2>1, <2>2, <2>4, Zenon DEF Told
      <3>3. k \notin 0 .. l - 1 /\ l \notin 0 .. k - 1
        BY <3>1, <3>2, Zenon DEF Holds, Denied
      <3>4. k = l
        BY <3>1, <3>2, <3>3
      <3> QED BY <3>1, <3>2, <3>4, Zenon DEF NameIn, NumberedApart
    <2> QED BY <2>3, <2>4, Zenon DEF Told
  <1> QED BY <1>1, <1>2, Zenon

-----------------------------------------------------------------------------
(* A file is loaded.                                                        *)

\* Whatever is reserved before, the file gets an alias that tells its package.
LEMMA AliasTells ==
  ASSUME NEW f, NumberedApart(f.goName), IsFiniteSet(DOMAIN pkgAliases)
  PROVE  /\ IsFiniteSet(DOMAIN AliasFor(f).aliases)
         /\ Extended(pkgAliases, AliasFor(f).aliases)
         /\ ~ settings.standalone => Told(AliasFor(f).aliases, f, AliasFor(f).alias)
         /\ \/ AliasFor(f).alias \in {"", Title[f.goName]}
            \/ \E k \in Nat : AliasFor(f).alias = Suffixed(f.goName, k)
  <1> DEFINE a   == pkgAliases
             own == Reserve(a, f.goName, f.goPath)
             res == AliasFor(f)
             Goal(alias, b) == /\ IsFiniteSet(DOMAIN b) /\ Extended(a, b)
                               /\ ~ settings.standalone => Told(b, f, alias)
                               /\ \/ alias \in {"", Title[f.goName]}
                                  \/ \E k \in Nat : alias = Suffixed(f.goName, k)
  <1> SUFFICES Goal(res.alias, res.aliases)
    BY Zenon
  <1>1. CASE own.ok
    <2> DEFINE alias == IF settings.standalone THEN Title[f.goName] ELSE ""
               b     == own.aliases
    <2>1. res = [alias |-> alias, aliases |-> b]
      BY <1>1, Zenon DEF AliasFor
    <2>2. IsFiniteSet(DOMAIN b) /\ Extended(a, b) /\ Holds(b, f.goName, f.goPath)
      BY <1>1, ReserveExtends, Zenon
    <2>3. ~ settings.standalone => alias = ""
      BY Zenon
    <2>4. alias \in {"", Title[f.goName]}
      BY Zenon
    <2> HIDE DEF res, own, alias, b
    <2>5. res.alias = alias /\ res.aliases = b
      BY <2>1
    <2>6. Goal(alias, b)
      BY <2>2, <2>3, <2>4, Zenon DEF Told
    <2> HIDE DEF Goal
    <2> QED BY <2>5, <2>6, Zenon
  <1>2. CASE ~ own.ok
    <2> DEFINE Try(i) == Reserve(a, Suffixed(f.goName, i), f.goPath)
               free   == {i \in 0 .. Cardinality(DOMAIN a) : Try(i).ok}
               k      == CHOOSE i \in free : \A j \in free : i <= j
               first  == Suffixed(f.goName, k)
               b      == Reserve(a, first, f.goPath).aliases
    <2>1. res = [alias |-> first, aliases |-> b]
      BY <1>2, Zenon DEF AliasFor
    <2>2. free # {}
      BY SuffixFree, Zenon DEF NumberedApart
    <2>3. Cardinality(DOMAIN a) \in Nat
      BY FS_CardinalityType, Zenon
    <2>4. free \in SUBSET Nat
      <3> DEFINE c == Cardinality(DOMAIN a)
      <3>1. c \in Nat /\ free \subseteq 0 .. c
        BY <2>3, Zenon
      <3> HIDE DEF free, c
      <3> QED BY <3>1
    <2>5. k \in free /\ \A j \in free : k <= j
      <3> HIDE DEF free
      <3>1. \E i \in free : \A j \in free : i <= j
        BY <2>2, <2>4, LeastElement
      <3> QED BY <3>1, Zenon
    <2>6. \A l \in 0 .. k - 1 : l \in 0 .. Cardinality(DOMAIN a) /\ l \notin free
      <3> DEFINE c == Cardinality(DOMAIN a)
      <3>1. k \in 0 .. c
        BY <2>5, Zenon
      <3>2. c \in Nat
        BY <2>3
      <3> HIDE DEF k, free, c
      <3>3. \A l \in 0 .. k - 1 : l \in 0 .. c /\ l \notin free
        BY <2>4, <2>5, <3>1, <3>2
      <3> QED BY <3>3, Zenon DEF c
    <2>7. Try(k).ok /\ \A l \in 0 .. k - 1 : ~ Try(l).ok
      <3> HIDE DEF k, Try
      <3> QED BY <2>5, <2>6, Zenon
    <2>8. k \in Nat
      <3> HIDE DEF k, free
      <3> QED BY <2>4, <2>5
    <2>9. /\ IsFiniteSet(DOMAIN b) /\ Extended(a, b) /\ Holds(b, first, f.goPath)
          /\ Denied(a, f.goName, f.goPath)
          /\ \A l \in 0 .. k - 1 : Denied(a, Suffixed(f.goName, l), f.goPath)
      <3> HIDE DEF k
      <3> QED BY <1>2, <2>7, ReserveExtends, Zenon
    <2> HIDE DEF res, own, k, b
    <2>10. res.alias = first /\ res.aliases = b
      <3> HIDE DEF first
      <3> QED BY <2>1
    <2>11. \A x : Denied(a, x, f.goPath) => Denied(b, x, f.goPath)
      BY <2>9, Zenon DEF Extended, Denied
    <2>12. Told(b, f, first)
      BY <2>8, <2>9, <2>11, Zenon DEF Told
    <2>13. Goal(first, b)
      BY <2>8, <2>9, <2>12, Zenon
    <2> HIDE DEF Goal
    <2> QED BY <2>10, <2>13, Zenon
  <1> QED BY <1>1, <1>2, Zenon

\* What the aliases of files can be.
AliasNames == {""} \cup UNION {{Title[f.goName]} \cup {Suffixed(f.goName, k) : k \in Nat} : f \in ToSet(Files)}

\* Strengthening of PackagesToldApart: aliases are looked for in a finite
\* table, and each file loaded has been told.
FilesTold ==
  /\ input \in Input
  /\ IsFiniteSet(DOMAIN pkgAliases)
  /\ aliasOf \in Seq(AliasNames)
  /\ Len(aliasOf) <= Len(Files)
  /\ phase = "configure" => aliasOf = <<>>
  /\ phase = "configure" => next = 1
  /\ phase = "files" => next = Len(aliasOf) + 1
  /\ ~ settings.standalone =>
       \A i \in 1 .. Len(aliasOf) : Told(pkgAliases, Files[i], aliasOf[i])

LEMMA ToldAtFirst == RegistryInit => FilesTold
  <1> SUFFICES ASSUME RegistryInit PROVE FilesTold
    OBVIOUS
  <1>1. Files \in Seq(ToSet(Files))
    BY FilesAssumption, Zenon DEF RegistryInit, Files
  <1>2. Len(Files) \in Nat
    BY <1>1
  <1>3. IsFiniteSet(DOMAIN <<>>)
    BY FS_EmptySet
  <1>4. phase = "configure" /\ input \in Input /\ next = 1 /\ aliasOf = <<>> /\ pkgAliases = <<>>
    BY Zenon DEF RegistryInit
  <1>5. /\ <<>> \in Seq(AliasNames) /\ Len(<<>>) <= Len(Files)
        /\ \A i \in 1 .. Len(<<>>) : FALSE
    <2> DEFINE S == AliasNames
               n == Len(Files)
    <2> HIDE DEF S, n
    <2>1. <<>> \in Seq(S) /\ (n \in Nat => Len(<<>>) <= n) /\ \A i \in 1 .. Len(<<>>) : FALSE
      OBVIOUS
    <2> QED BY <1>2, <2>1, Zenon DEF S, n
  <1>6. phase # "files"
    BY <1>4
  <1> QED BY <1>3, <1>4, <1>5, <1>6, Zenon DEF FilesTold

\* A reservation adds a name, and no other call takes one.
LEMMA ConfigureKeeps ==
  ASSUME FilesTold, Configure
  PROVE  FilesTold'
  <1>1. phase = "configure" /\ UNCHANGED <<phase, input, next, aliasOf>>
    BY Zenon DEF Configure, loadVars
  <1>2. PICK c \in calls : \/ Set(c) \/ SetSeparator(c) \/ SetUseFQN(c) \/ AddPkgMap(c) \/ SetGoTemplateArgs(c)
                           \/ SetVisibilityRestrictionSelectors(c) \/ ReserveGoPackageAlias(c) \/ LoadRules(c)
    BY Zenon DEF Configure
  <1>3. IsFiniteSet(DOMAIN pkgAliases)'
    <2>1. CASE ReserveGoPackageAlias(c)
      <3>1. pkgAliases' = Reserve(pkgAliases, c.alias, c.path).aliases
        BY <2>1, Zenon DEF ReserveGoPackageAlias
      <3> QED BY <3>1, ReserveExtends, Zenon DEF FilesTold
    <2>2. CASE ~ ReserveGoPackageAlias(c)
      <3>1. pkgAliases' = pkgAliases
        BY <1>2, <2>2, Zenon DEF Set, SetSeparator, SetUseFQN, AddPkgMap, SetGoTemplateArgs,
                                 SetVisibilityRestrictionSelectors, LoadRules
      <3> QED BY <3>1, Zenon DEF FilesTold
    <2> QED BY <2>1, <2>2
  <1>4. aliasOf = <<>>
    BY <1>1, Zenon DEF FilesTold
  <1>5. \A i \in 1 .. Len(aliasOf') : FALSE
    BY <1>1, <1>4
  <1> QED BY <1>1, <1>3, <1>5, Zenon DEF FilesTold, AliasNames, Files

LEMMA LoadFileKeeps ==
  ASSUME SuffixesDiffer, FilesTold, LoadFile
  PROVE  FilesTold'
  <1> DEFINE f == Files[next]
             a == AliasFor(f)
  <1>1. /\ phase = "files" /\ next <= Len(Files)
        /\ pkgAliases' = a.aliases /\ aliasOf' = Append(aliasOf, a.alias) /\ next' = next + 1
        /\ UNCHANGED <<phase, input, settings>>
    BY Zenon DEF LoadFile
  <1>2. Files' = Files /\ AliasNames' = AliasNames
    BY <1>1, Zenon DEF Files, AliasNames
  <1>3. next = Len(aliasOf) + 1 /\ Len(aliasOf) \in Nat
    BY <1>1 DEF FilesTold
  <1>4. Files \in Seq(ToSet(Files))
    BY FilesAssumption, Zenon DEF FilesTold, Files
  <1>5. f \in ToSet(Files)
    <2> DEFINE S == ToSet(Files)
    <2>1. Files \in Seq(S) /\ next \in 1 .. Len(Files)
      BY <1>1, <1>3, <1>4
    <2> HIDE DEF S
    <2>2. Files[next] \in S
      BY <2>1
    <2> QED BY <2>2, Zenon DEF S
  <1>6. NumberedApart(f.goName)
    BY <1>5, Zenon DEF SuffixesDiffer, FilesTold, Files
  <1>7. /\ IsFiniteSet(DOMAIN a.aliases) /\ Extended(pkgAliases, a.aliases)
        /\ ~ settings.standalone => Told(a.aliases, f, a.alias)
        /\ a.alias \in {"", Title[f.goName]} \/ \E k \in Nat : a.alias = Suffixed(f.goName, k)
    <2> HIDE DEF f
    <2> QED BY <1>6, AliasTells, Zenon DEF FilesTold
  <1>8. a.alias \in AliasNames
    <2> DEFINE Of(g) == {Title[g.goName]} \cup {Suffixed(g.goName, k) : k \in Nat}
    <2> HIDE DEF a, f
    <2>1. a.alias = "" \/ a.alias \in Of(f)
      BY <1>7, Zenon
    <2>2. Of(f) \in {Of(g) : g \in ToSet(Files)}
      <3> HIDE DEF Of
      <3> QED BY <1>5, Zenon
    <2>3. AliasNames = {""} \cup UNION {Of(g) : g \in ToSet(Files)}
      BY Zenon DEF AliasNames
    <2> HIDE DEF Of
    <2> QED BY <2>1, <2>2, <2>3, Zenon
  <1> DEFINE new == a.alias
             b   == a.aliases
  <1>9. /\ aliasOf' \in Seq(AliasNames) /\ Len(aliasOf') = Len(aliasOf) + 1
        /\ aliasOf'[Len(aliasOf) + 1] = new
        /\ \A i \in 1 .. Len(aliasOf) : aliasOf'[i] = aliasOf[i]
    <2> DEFINE S == AliasNames
               s == aliasOf
    <2>1. s \in Seq(S) /\ new \in S /\ aliasOf' = Append(s, new)
      BY <1>1, <1>8, Zenon DEF FilesTold
    <2> HIDE DEF S, new, s
    <2>2. /\ Append(s, new) \in Seq(S) /\ Len(Append(s, new)) = Len(s) + 1
          /\ Append(s, new)[Len(s) + 1] = new
          /\ \A i \in 1 .. Len(s) : Append(s, new)[i] = s[i]
      BY <2>1
    <2> QED BY <2>1, <2>2, Zenon DEF S, s
  <1>10. ASSUME ~ settings.standalone, NEW i \in 1 .. Len(aliasOf')
         PROVE  Told(b, Files[i], aliasOf'[i])
    <2> DEFINE n == Len(aliasOf)
    <2>1. i \in 1 .. n \/ i = n + 1
      <3>1. n \in Nat /\ i \in 1 .. n + 1
        BY <1>3, <1>9, <1>10
      <3> HIDE DEF n
      <3> QED BY <3>1
    <2>2. CASE i \in 1 .. n
      <3>1. Told(pkgAliases, Files[i], aliasOf[i])
        BY <1>10, <2>2, Zenon DEF FilesTold
      <3> HIDE DEF b
      <3>2. Extended(pkgAliases, b)
        BY <1>7, Zenon DEF b
      <3>3. aliasOf'[i] = aliasOf[i]
        BY <1>9, <2>2, Zenon
      <3> QED BY <3>1, <3>2, <3>3, ToldStays, Zenon
    <2>3. CASE i = n + 1
      BY <1>3, <1>7, <1>9, <1>10, <2>3, Zenon
    <2> QED BY <2>1, <2>2, <2>3
  <1>11. /\ input' \in Input /\ IsFiniteSet(DOMAIN pkgAliases') /\ aliasOf' \in Seq(AliasNames')
         /\ phase' # "configure"
         /\ ~ settings'.standalone => \A i \in 1 .. Len(aliasOf') : Told(pkgAliases', Files'[i], aliasOf'[i])
    BY <1>1, <1>2, <1>7, <1>9, <1>10, Zenon DEF FilesTold
  <1>12. Len(aliasOf') <= Len(Files') /\ next' = Len(aliasOf') + 1
    <2> HIDE DEF f, a, new, b
    <2>1. Len(Files) \in Nat
      BY <1>4
    <2> QED BY <1>1, <1>2, <1>3, <1>9, <2>1
  <1> QED BY <1>11, <1>12, Zenon DEF FilesTold

\* Every other step leaves the aliases as they are.
LEMMA OthersKeep ==
  ASSUME FilesTold,
         \/ Load \/ FilesLoaded \/ LoadServices \/ ServicesLoaded \/ CheckDuplicateAnnotation
         \/ RegisterOpenAPIOptions \/ UNCHANGED registryVars
  PROVE  FilesTold'
  <1>1. UNCHANGED <<input, pkgAliases, aliasOf, settings>>
    BY Zenon DEF Load, FilesLoaded, LoadServices, ServicesLoaded, CheckDuplicateAnnotation,
                 RegisterOpenAPIOptions, registryVars, configVars, loadVars
  <1>2. Files' = Files /\ AliasNames' = AliasNames
    BY <1>1, Zenon DEF Files, AliasNames
  <1>3. /\ phase' = "configure" => phase = "configure" /\ next' = next
        /\ phase' = "files" => phase \in {"configure", "files"} /\ next' = next
    BY DEF Load, FilesLoaded, LoadServices, ServicesLoaded, CheckDuplicateAnnotation,
           RegisterOpenAPIOptions, registryVars, configVars, loadVars
  <1>4. phase' = "files" => next' = Len(aliasOf') + 1
    <2>1. CASE phase = "configure"
      BY <1>1, <1>3, <2>1 DEF FilesTold
    <2>2. CASE phase = "files"
      BY <1>1, <1>3, <2>2 DEF FilesTold
    <2> QED BY <1>3, <2>1, <2>2
  <1> QED BY <1>1, <1>2, <1>3, <1>4, Zenon DEF FilesTold

LEMMA FilesAlwaysTold == ASSUME SuffixesDiffer PROVE RegistrySpec => []FilesTold
  <1>1. FilesTold /\ [RegistryNext]_registryVars => FilesTold'
    BY ConfigureKeeps, LoadFileKeeps, OthersKeep, Zenon DEF RegistryNext
  <1> QED BY <1>1, ToldAtFirst, PTL DEF RegistrySpec

LEMMA ToldIsApart ==
  ASSUME SuffixesDiffer, FilesTold
  PROVE  PackagesToldApart
  <1> SUFFICES ASSUME ~ settings.standalone, NEW i \in DOMAIN aliasOf, NEW j \in DOMAIN aliasOf
               PROVE  /\ pkgAliases[Pkg(i)] = Files[i].goPath
                      /\ Pkg(i) = Pkg(j) <=> Files[i].goPath = Files[j].goPath
    BY Zenon DEF PackagesToldApart
  <1>1. i \in 1 .. Len(aliasOf) /\ j \in 1 .. Len(aliasOf) /\ Len(aliasOf) <= Len(Files)
    BY DEF FilesTold
  <1>2. Files \in Seq(ToSet(Files))
    BY FilesAssumption, Zenon DEF FilesTold, Files
  <1>3. Files[i] \in ToSet(Files) /\ Files[j] \in ToSet(Files)
    <2> DEFINE S == ToSet(Files)
    <2>1. Files \in Seq(S) /\ i \in 1 .. Len(Files) /\ j \in 1 .. Len(Files)
      <3>1. Len(Files) \in Nat /\ Len(aliasOf) \in Nat
        BY <1>2 DEF FilesTold
      <3> QED BY <1>1, <1>2, <3>1
    <2> HIDE DEF S
    <2>2. Files[i] \in S /\ Files[j] \in S
      BY <2>1
    <2> QED BY <2>2, Zenon DEF S
  <1>4. NumberedApart(Files[i].goName) /\ NumberedApart(Files[j].goName)
    BY <1>3, Zenon DEF SuffixesDiffer, FilesTold, Files
  <1>5. Files[i].goPath = Files[j].goPath => Files[i].goName = Files[j].goName
    BY <1>3, FilesAssumption, Zenon DEF FilesTold, Files
  <1>6. Told(pkgAliases, Files[i], aliasOf[i]) /\ Told(pkgAliases, Files[j], aliasOf[j])
    BY <1>1, Zenon DEF FilesTold
  <1>7. Pkg(i) = NameIn(Files[i], aliasOf[i]) /\ Pkg(j) = NameIn(Files[j], aliasOf[j])
    BY Zenon DEF Pkg, NameIn
  <1> DEFINE p == Files[i]
             q == Files[j]
             x == aliasOf[i]
             y == aliasOf[j]
  <1>8. /\ Told(pkgAliases, p, x) /\ Told(pkgAliases, q, y) /\ NumberedApart(p.goName) /\ NumberedApart(q.goName)
        /\ p.goPath = q.goPath => p.goName = q.goName
    BY <1>4, <1>5, <1>6, Zenon
  <1> HIDE DEF p, q, x, y
  <1>9. /\ pkgAliases[NameIn(p, x)] = p.goPath
        /\ NameIn(p, x) = NameIn(q, y) <=> p.goPath = q.goPath
    BY <1>8, ToldApart
  <1> QED BY <1>7, <1>9, Zenon DEF p, q, x, y

\* The name a generated file uses for a Go package always tells the package,
\* whatever files there are, whatever names were reserved before and in
\* whichever order.  About loadFile and ReserveGoPackageAlias.
THEOREM PackagesAlwaysToldApart ==
  ASSUME SuffixesDiffer
  PROVE  RegistrySpec => []PackagesToldApart
  BY FilesAlwaysTold, ToldIsApart, PTL

-----------------------------------------------------------------------------
(* The bindings of a method.                                                *)

\* What newBinding returns for the rule in place k: an error, nothing for a
\* rule without a pattern, or the binding of that rule.
BindingOf(n, rule, k) ==
  \/ n.err # ""
  \/ n.err = "" /\ rule.verb = "none" /\ n.binding = NoBinding
  \/ /\ n.err = "" /\ rule.verb # "none"
     /\ n.binding.nil = FALSE /\ n.binding.rule = rule /\ n.binding.index = k

LEMMA BoundOf ==
  ASSUME NEW rule, NEW k, NEW params, NEW body, NEW answer, rule.verb # "none"
  PROVE  BindingOf(Bound(rule, k, params, body, answer), rule, k)
  <1> DEFINE e == FirstError(params \o <<body, answer>>)
             p == [i \in DOMAIN params |-> params[i].path]
             h == rule.body # <<>>
             res == Bound(rule, k, params, body, answer)
             b == [nil |-> FALSE, index |-> k, rule |-> rule, params |-> p, hasBody |-> h,
                   body |-> body.path, response |-> answer.path]
  <1>1. res = IF e # "" THEN [err |-> e, binding |-> NoBinding] ELSE [err |-> "", binding |-> b]
    BY Zenon DEF Bound, Unbound
  <1>2. b.nil = FALSE /\ b.rule = rule /\ b.index = k
    <2> HIDE DEF p, h
    <2> QED OBVIOUS
  <1> HIDE DEF e, b, res
  <1>3. CASE e # ""
    <2>1. res.err = e
      BY <1>1, <1>3
    <2> QED BY <1>3, <2>1, Zenon DEF BindingOf, res
  <1>4. CASE e = ""
    <2>1. res.err = "" /\ res.binding = b
      BY <1>1, <1>4
    <2> QED BY <1>2, <2>1, Zenon DEF BindingOf, res
  <1> QED BY <1>3, <1>4

LEMMA NewBindingOf ==
  ASSUME NEW m, NEW request, NEW response, NEW rule, NEW k
  PROVE  BindingOf(NewBinding(m, request, response, rule, k), rule, k)
  <1>1. Unbound("").err = "" /\ Unbound("").binding = NoBinding
    BY DEF Unbound
  <1>2. Unbound("body").err # "" /\ Unbound("template").err # "" /\ Unbound("streaming").err # ""
    BY DEF Unbound
  <1>3. CASE rule.verb = "none"
    BY <1>1, <1>3, Zenon DEF NewBinding, BindingOf
  <1>4. CASE rule.verb # "none"
    <2>1. CASE BodyRefused(rule)
      BY <1>2, <1>4, <2>1, Zenon DEF NewBinding, BindingOf
    <2>2. CASE ~ BodyRefused(rule)
      <3> DEFINE tmpl   == Parse(rule.path)
                 fields == Compile(tmpl).fields
      <3>1. NewBinding(m, request, response, rule, k) = BoundAt(m, request, response, rule, k, tmpl)
        BY <1>4, <2>2, Zenon DEF NewBinding
      <3>2. \/ BoundAt(m, request, response, rule, k, tmpl) = Unbound("template")
            \/ BoundAt(m, request, response, rule, k, tmpl) = BoundTo(m, request, response, rule, k, fields)
        BY Zenon DEF BoundAt
      <3> HIDE DEF tmpl, fields
      <3>3. BindingOf(BoundTo(m, request, response, rule, k, fields), rule, k)
        <4>1. CASE m.streaming /\ fields # <<>>
          BY <1>2, <4>1, Zenon DEF BoundTo, BindingOf
        <4>2. CASE ~ (m.streaming /\ fields # <<>>)
          BY <1>4, <4>2, BoundOf, Zenon DEF BoundTo
        <4> QED BY <4>1, <4>2
      <3>4. BindingOf(Unbound("template"), rule, k)
        BY <1>2, Zenon DEF BindingOf
      <3> QED BY <3>1, <3>2, <3>3, <3>4, Zenon
    <2> QED BY <2>1, <2>2
  <1> QED BY <1>3, <1>4

-----------------------------------------------------------------------------
(* applyOpts.                                                              *)

\* What a rule gets: a main rule without a pattern nothing, an additional one
\* its place.
Given(rule) == (IF rule.verb = "none" THEN <<>> ELSE <<rule>>) \o rule.additional

OneAnswer(rule, b, k) ==
  IF rule.verb = "none" THEN b.nil ELSE ~ b.nil /\ b.rule = rule /\ b.index = k

LEMMA AnswersGrow ==
  ASSUME NEW R, NEW rules \in Seq(R), NEW B, NEW bindings \in Seq(B), Answer(rules, bindings),
         NEW rule \in R, NEW b \in B, OneAnswer(rule, b, Len(bindings))
  PROVE  Answer(Append(rules, rule), Append(bindings, b))
  <1> DEFINE r2 == Append(rules, rule)
             b2 == Append(bindings, b)
             n  == Len(rules)
  <1>1. Len(bindings) = n /\ \A i \in 1 .. n : OneAnswer(rules[i], bindings[i], i - 1)
    BY Zenon DEF Answer, OneAnswer
  <1>2. n \in Nat
    OBVIOUS
  <1>3. /\ Len(r2) = n + 1 /\ Len(b2) = n + 1 /\ r2[n + 1] = rule /\ b2[n + 1] = b
        /\ \A i \in 1 .. n : r2[i] = rules[i] /\ b2[i] = bindings[i]
    BY <1>1
  <1> HIDE DEF r2, b2, n
  <1>4. OneAnswer(rule, b, n)
    BY <1>1, Zenon
  <1>5. ASSUME NEW i \in 1 .. n + 1 PROVE OneAnswer(r2[i], b2[i], i - 1)
    <2>1. CASE i = n + 1
      <3>1. i - 1 = n
        BY <1>2, <2>1
      <3> QED BY <1>3, <1>4, <2>1, <3>1, Zenon
    <2>2. CASE i # n + 1
      <3>1. i \in 1 .. n
        BY <1>2, <2>2
      <3> QED BY <1>1, <1>3, <3>1, Zenon
    <2> QED BY <2>1, <2>2
  <1>6. Len(r2) = n + 1 /\ Len(b2) = Len(r2)
    BY <1>3
  <1>7. Answer(r2, b2)
    BY <1>5, <1>6, Zenon DEF Answer, OneAnswer
  <1> QED BY <1>7, Zenon DEF r2, b2

LEMMA OneAnswerOf ==
  ASSUME NEW n, NEW rule, NEW k, BindingOf(n, rule, k), n.err = ""
  PROVE  OneAnswer(rule, n.binding, k)
  <1>1. NoBinding.nil = TRUE
    BY DEF NoBinding
  <1> QED BY <1>1, Zenon DEF BindingOf, OneAnswer

ErrorsOf(m, request, response, R) ==
  {"", "nested additional"} \cup {NewBinding(m, request, response, p[1], p[2]).err : p \in R \X Nat}
BindingsOf(m, request, response, R) ==
  {NewBinding(m, request, response, p[1], p[2]).binding : p \in R \X Nat}
ResultsOf(m, request, response, R) ==
  [err : ErrorsOf(m, request, response, R), bindings : Seq(BindingsOf(m, request, response, R))]

\* The bindings answer the rules, unless something has failed.
AnswersUnlessFailed(rules, acc) == acc.err = "" => Answer(rules, acc.bindings)

LEMMA ResultFields ==
  ASSUME NEW E, NEW B, NEW acc \in [err : E, bindings : Seq(B)]
  PROVE  /\ acc.err \in E /\ acc.bindings \in Seq(B) /\ Len(acc.bindings) \in Nat
         /\ \A e \in E : /\ [acc EXCEPT !.err = e] \in [err : E, bindings : Seq(B)]
                         /\ [acc EXCEPT !.err = e].err = e
         /\ \A b \in B : LET new == [acc EXCEPT !.bindings = Append(@, b)]
                         IN  /\ new \in [err : E, bindings : Seq(B)]
                             /\ new.err = acc.err /\ new.bindings = Append(acc.bindings, b)
  <1>1. acc.err \in E /\ acc.bindings \in Seq(B) /\ Len(acc.bindings) \in Nat
    OBVIOUS
  <1>2. ASSUME NEW e \in E
        PROVE  /\ [acc EXCEPT !.err = e] \in [err : E, bindings : Seq(B)]
               /\ [acc EXCEPT !.err = e].err = e
    OBVIOUS
  <1>3. ASSUME NEW b \in B
        PROVE  LET new == [acc EXCEPT !.bindings = Append(@, b)]
               IN  /\ new \in [err : E, bindings : Seq(B)]
                   /\ new.err = acc.err /\ new.bindings = Append(acc.bindings, b)
    <2> DEFINE s == Append(acc.bindings, b)
               S == Seq(B)
    <2>1. s \in S
      BY <1>1
    <2>2. acc \in [err : E, bindings : S]
      OBVIOUS
    <2> HIDE DEF s, S
    <2>3. /\ [acc EXCEPT !.bindings = s] \in [err : E, bindings : S]
          /\ [acc EXCEPT !.bindings = s].err = acc.err
          /\ [acc EXCEPT !.bindings = s].bindings = s
      BY <2>1, <2>2
    <2> QED BY <2>3 DEF s, S
  <1> QED BY <1>1, <1>2, <1>3, Zenon

LEMMA ResultsHave ==
  ASSUME NEW m, NEW request, NEW response, NEW R, NEW x \in R, NEW i \in Nat
  PROVE  /\ NewBinding(m, request, response, x, i).err \in ErrorsOf(m, request, response, R)
         /\ NewBinding(m, request, response, x, i).binding \in BindingsOf(m, request, response, R)
  <1> DEFINE at == <<x, i>>
  <1>1. at \in R \X Nat /\ at[1] = x /\ at[2] = i
    OBVIOUS
  <1> HIDE DEF at
  <1>2. /\ NewBinding(m, request, response, at[1], at[2]).err \in ErrorsOf(m, request, response, R)
        /\ NewBinding(m, request, response, at[1], at[2]).binding \in BindingsOf(m, request, response, R)
    BY <1>1, Zenon DEF ErrorsOf, BindingsOf
  <1> QED BY <1>1, <1>2, Zenon

\* What AddBinding makes of the results so far: with an error no more, ...
LEMMA ErrorAdded ==
  ASSUME NEW E, NEW B, NEW acc \in [err : E, bindings : Seq(B)], NEW i, NEW n, n.err \in E, n.err # "",
         NEW rules
  PROVE  /\ AddBinding(acc, i, n) \in [err : E, bindings : Seq(B)]
         /\ AnswersUnlessFailed(rules, AddBinding(acc, i, n))
  <1> DEFINE res == AddBinding(acc, i, n)
             e   == n.err
  <1>1. res = [acc EXCEPT !.err = e]
    BY Zenon DEF AddBinding
  <1> HIDE DEF res, e
  <1>2. res \in [err : E, bindings : Seq(B)] /\ res.err = e
    BY <1>1, ResultFields DEF e
  <1>3. AnswersUnlessFailed(rules, res)
    BY <1>2, Zenon DEF AnswersUnlessFailed, e
  <1> QED BY <1>2, <1>3, Zenon DEF res

\* ... with a binding one more, ...
LEMMA OneAdded ==
  ASSUME NEW E, NEW B, NEW acc \in [err : E, bindings : Seq(B)], acc.err = "",
         NEW i, NEW n, n.err = "", n.binding \in B, ~ (i = 1 /\ n.binding.nil),
         NEW R, NEW rules \in Seq(R), NEW rule \in R, Answer(rules, acc.bindings),
         OneAnswer(rule, n.binding, Len(acc.bindings))
  PROVE  /\ AddBinding(acc, i, n) \in [err : E, bindings : Seq(B)]
         /\ AnswersUnlessFailed(Append(rules, rule), AddBinding(acc, i, n))
  <1> DEFINE res == AddBinding(acc, i, n)
             b   == n.binding
  <1>1. res = [acc EXCEPT !.bindings = Append(@, b)]
    BY Zenon DEF AddBinding
  <1> HIDE DEF res, b
  <1>2. /\ res \in [err : E, bindings : Seq(B)] /\ res.bindings = Append(acc.bindings, b)
        /\ acc.bindings \in Seq(B)
    BY <1>1, ResultFields DEF b
  <1> DEFINE bs == acc.bindings
  <1> HIDE DEF bs
  <1>3. bs \in Seq(B) /\ b \in B /\ Answer(rules, bs) /\ OneAnswer(rule, b, Len(bs))
    BY <1>2, Zenon DEF bs, b
  <1>4. Answer(Append(rules, rule), Append(bs, b))
    BY <1>3, AnswersGrow
  <1>5. AnswersUnlessFailed(Append(rules, rule), res)
    BY <1>2, <1>4, Zenon DEF AnswersUnlessFailed, bs
  <1> QED BY <1>2, <1>5, Zenon DEF res

\* The rules a main rule leaves answered.
WithMain(rules, rule) == IF rule.verb = "none" THEN rules ELSE Append(rules, rule)

\* ... so that a main rule is skipped only without a pattern, ...
LEMMA MainAdded ==
  ASSUME NEW m, NEW request, NEW response, NEW R, NEW acc \in ResultsOf(m, request, response, R),
         acc.err = "", NEW rule \in R, NEW rules \in Seq(R), Answer(rules, acc.bindings)
  PROVE  LET res == AddBinding(acc, 1, NewBinding(m, request, response, rule, Len(acc.bindings)))
         IN  /\ res \in ResultsOf(m, request, response, R)
             /\ AnswersUnlessFailed(WithMain(rules, rule), res)
  <1> DEFINE n   == NewBinding(m, request, response, rule, Len(acc.bindings))
             res == AddBinding(acc, 1, n)
             E   == ErrorsOf(m, request, response, R)
             B   == BindingsOf(m, request, response, R)
  <1>1. acc \in [err : E, bindings : Seq(B)]
    BY Zenon DEF ResultsOf
  <1>2. Len(acc.bindings) \in Nat
    <2> HIDE DEF E, B
    <2> QED BY <1>1, ResultFields
  <1>3. n.err \in E /\ n.binding \in B
    BY <1>2, ResultsHave, Zenon
  <1>4. BindingOf(n, rule, Len(acc.bindings))
    BY NewBindingOf, Zenon
  <1> HIDE DEF n, E, B
  <1>5. res \in [err : E, bindings : Seq(B)] /\ AnswersUnlessFailed(WithMain(rules, rule), res)
    <2>1. CASE n.err # ""
      BY <1>1, <1>3, <2>1, ErrorAdded
    <2>2. CASE n.err = "" /\ rule.verb = "none"
      <3>1. NoBinding.nil = TRUE
        BY DEF NoBinding
      <3>2. n.binding.nil = TRUE
        BY <1>4, <2>2, <3>1, Zenon DEF BindingOf
      <3>3. res = acc
        BY <2>2, <3>2, Zenon DEF AddBinding
      <3> QED BY <1>1, <2>2, <3>3, Zenon DEF WithMain, AnswersUnlessFailed
    <2>3. CASE n.err = "" /\ rule.verb # "none"
      <3>1. OneAnswer(rule, n.binding, Len(acc.bindings))
        BY <1>4, <2>3, OneAnswerOf, Zenon
      <3>2. ~ n.binding.nil
        BY <2>3, <3>1, Zenon DEF OneAnswer
      <3>3. ~ (1 = 1 /\ n.binding.nil)
        BY <3>2, Zenon
      <3>4. res \in [err : E, bindings : Seq(B)] /\ AnswersUnlessFailed(Append(rules, rule), res)
        BY <1>1, <1>3, <2>3, <3>1, <3>3, OneAdded, Zenon
      <3> QED BY <2>3, <3>4, Zenon DEF WithMain
    <2> QED BY <2>1, <2>2, <2>3, Zenon
  <1> QED BY <1>5, Zenon DEF ResultsOf, E, B, n

\* ... and an additional one never.
LEMMA AdditionalAdded ==
  ASSUME NEW m, NEW request, NEW response, NEW R, NEW acc \in ResultsOf(m, request, response, R),
         acc.err = "", NEW rule \in R, NEW rules \in Seq(R), Answer(rules, acc.bindings), NEW i, i # 1
  PROVE  LET res == AddBinding(acc, i, NewBinding(m, request, response, rule, Len(acc.bindings)))
         IN  /\ res \in ResultsOf(m, request, response, R)
             /\ AnswersUnlessFailed(Append(rules, rule), res)
  <1> DEFINE n   == NewBinding(m, request, response, rule, Len(acc.bindings))
             res == AddBinding(acc, i, n)
             E   == ErrorsOf(m, request, response, R)
             B   == BindingsOf(m, request, response, R)
  <1>1. acc \in [err : E, bindings : Seq(B)]
    BY Zenon DEF ResultsOf
  <1>2. Len(acc.bindings) \in Nat
    <2> HIDE DEF E, B
    <2> QED BY <1>1, ResultFields
  <1>3. n.err \in E /\ n.binding \in B
    BY <1>2, ResultsHave, Zenon
  <1>4. BindingOf(n, rule, Len(acc.bindings))
    BY NewBindingOf, Zenon
  <1> HIDE DEF n, E, B
  <1>5. res \in [err : E, bindings : Seq(B)] /\ AnswersUnlessFailed(Append(rules, rule), res)
    <2>1. CASE n.err # ""
      BY <1>1, <1>3, <2>1, ErrorAdded
    <2>2. CASE n.err = ""
      <3>1. OneAnswer(rule, n.binding, Len(acc.bindings))
        BY <1>4, <2>2, OneAnswerOf, Zenon
      <3>2. ~ (i = 1 /\ n.binding.nil)
        BY Zenon
      <3> QED BY <1>1, <1>3, <2>2, <3>1, <3>2, OneAdded, Zenon
    <2> QED BY <2>1, <2>2, Zenon
  <1> QED BY <1>5, Zenon DEF ResultsOf, E, B, n

\* The rules answered after a main rule and the first k - 1 additional ones.
Upto(rules, rule, k) ==
  IF k = 0 THEN rules ELSE WithMain(rules, rule) \o SubSeq(rule.additional, 1, k - 1)

LEMMA UptoGrows ==
  ASSUME NEW R, NEW rules \in Seq(R), NEW rule \in R, rule.additional \in Seq(R)
  PROVE  /\ Upto(rules, rule, 0) = rules
         /\ Upto(rules, rule, 1) = WithMain(rules, rule)
         /\ \A k \in 1 .. Len(rule.additional) :
              Upto(rules, rule, k + 1) = Append(Upto(rules, rule, k), rule.additional[k])
         /\ Upto(rules, rule, Len(rule.additional) + 1) = rules \o Given(rule)
         /\ \A k \in 0 .. Len(rule.additional) + 1 : Upto(rules, rule, k) \in Seq(R)
         /\ rules \o Given(rule) \in Seq(R)
  <1> DEFINE more == rule.additional
             L    == Len(more)
             w    == WithMain(rules, rule)
             U(k) == Upto(rules, rule, k)
  <1>1. more \in Seq(R) /\ L \in Nat
    OBVIOUS
  <1>2. w \in Seq(R)
    BY DEF WithMain
  <1>3. w \o more = rules \o Given(rule)
    <2>1. CASE rule.verb = "none"
      <3>1. Given(rule) = <<>> \o more /\ w = rules
        BY <2>1, Zenon DEF Given, WithMain
      <3>2. <<>> \o more = more
        BY <1>1, ConcatEmptySeq
      <3> QED BY <3>1, <3>2, Zenon
    <2>2. CASE rule.verb # "none"
      <3>1. Given(rule) = <<rule>> \o more /\ w = Append(rules, rule)
        BY <2>2, Zenon DEF Given, WithMain
      <3>2. \A t \in Seq(R) : Append(rules, rule) \o t = rules \o (<<rule>> \o t)
        BY JoinedOnce
      <3> QED BY <1>1, <3>1, <3>2, Zenon
    <2> QED BY <2>1, <2>2
  <1>4. U(0) = rules
    BY Zenon DEF Upto
  <1>5. \A k \in 0 .. L : U(k + 1) = w \o SubSeq(more, 1, k)
    <2> SUFFICES ASSUME NEW k \in 0 .. L PROVE U(k + 1) = w \o SubSeq(more, 1, k)
      OBVIOUS
    <2>1. k + 1 # 0 /\ (k + 1) - 1 = k
      OBVIOUS
    <2> QED BY <2>1, Zenon DEF Upto
  <1> HIDE DEF more, w, U
  <1>6. /\ w \o SubSeq(more, 1, 0) = w
        /\ \A k \in 1 .. L : w \o SubSeq(more, 1, k) = Append(w \o SubSeq(more, 1, k - 1), more[k])
        /\ w \o SubSeq(more, 1, L) = w \o more
        /\ \A k \in 0 .. L : w \o SubSeq(more, 1, k) \in Seq(R)
    BY <1>1, <1>2, PrefixGrows
  <1> HIDE DEF L
  <1>7. U(1) = w
    <2>1. 0 \in 0 .. L /\ 0 + 1 = 1
      BY <1>1
    <2> QED BY <1>5, <1>6, <2>1
  <1>8. ASSUME NEW k \in 1 .. L PROVE U(k + 1) = Append(U(k), more[k])
    <2>1. k \in 0 .. L /\ k - 1 \in 0 .. L /\ (k - 1) + 1 = k
      BY <1>1
    <2>2. U(k + 1) = w \o SubSeq(more, 1, k)
      BY <1>5, <2>1
    <2>3. U((k - 1) + 1) = w \o SubSeq(more, 1, k - 1)
      BY <1>5, <2>1
    <2>4. w \o SubSeq(more, 1, k) = Append(w \o SubSeq(more, 1, k - 1), more[k])
      BY <1>6
    <2> QED BY <2>1, <2>2, <2>3, <2>4
  <1>9. U(L + 1) = w \o more
    <2>1. L \in 0 .. L
      BY <1>1
    <2> QED BY <1>5, <1>6, <2>1
  <1>10. ASSUME NEW k \in 0 .. L + 1 PROVE U(k) \in Seq(R)
    <2>1. CASE k = 0
      BY <1>4, <2>1
    <2>2. CASE k # 0
      <3>1. k - 1 \in 0 .. L /\ (k - 1) + 1 = k
        BY <1>1, <2>2
      <3>2. U((k - 1) + 1) = w \o SubSeq(more, 1, k - 1)
        BY <1>5, <3>1
      <3> QED BY <1>6, <3>1, <3>2
    <2> QED BY <2>1, <2>2
  <1>11. w \o more \in Seq(R)
    BY <1>1, <1>2, ConcatProperties
  <1> QED BY <1>3, <1>4, <1>7, <1>8, <1>9, <1>10, <1>11, Zenon DEF L, more, w, U
LEMMA UptoFirst ==
  ASSUME NEW R, NEW rules \in Seq(R), NEW rule \in R, rule.additional \in Seq(R)
  PROVE  Upto(rules, rule, 0) = rules /\ Upto(rules, rule, 1) = WithMain(rules, rule)
  BY DEF Upto, WithMain
LEMMA UptoLast ==
  ASSUME NEW R, NEW rules \in Seq(R), NEW rule \in R, rule.additional \in Seq(R)
  PROVE  Upto(rules, rule, Len(rule.additional) + 1) = rules \o Given(rule)
  <1>1. Upto(rules, rule, Len(rule.additional) + 1) = rules \o Given(rule)
    BY UptoGrows
  <1> QED BY <1>1, Zenon
LEMMA UptoNext ==
  ASSUME NEW R, NEW rules \in Seq(R), NEW rule \in R, rule.additional \in Seq(R), NEW k \in 1 .. Len(rule.additional)
  PROVE  Upto(rules, rule, k + 1) = Append(Upto(rules, rule, k), rule.additional[k])
  <1>1. \A i \in 1 .. Len(rule.additional) :
          Upto(rules, rule, i + 1) = Append(Upto(rules, rule, i), rule.additional[i])
    BY UptoGrows
  <1> QED BY <1>1, Zenon

LEMMA AddTyped ==
  ASSUME NEW E, NEW B, NEW acc \in [err : E, bindings : Seq(B)], NEW i, NEW n, n.err \in E, n.binding \in B
  PROVE  AddBinding(acc, i, n) \in [err : E, bindings : Seq(B)]
  <1> DEFINE b == n.binding
  <1>1. CASE n.err # ""
    BY <1>1, ErrorAdded
  <1>2. CASE n.err = "" /\ i = 1 /\ b.nil
    BY <1>2, Zenon DEF AddBinding
  <1>3. CASE n.err = "" /\ ~ (i = 1 /\ b.nil)
    <2>1. AddBinding(acc, i, n) = [acc EXCEPT !.bindings = Append(@, b)]
      BY <1>3, Zenon DEF AddBinding
    <2> HIDE DEF b
    <2>2. [acc EXCEPT !.bindings = Append(@, b)] \in [err : E, bindings : Seq(B)]
      BY ResultFields DEF b
    <2> QED BY <2>1, <2>2, Zenon
  <1> QED BY <1>1, <1>2, <1>3, Zenon

LEMMA AddRuleTyped ==
  ASSUME NEW m, NEW request, NEW response, NEW R, NEW all, NEW i, all[i] \in R,
         NEW a \in ResultsOf(m, request, response, R)
  PROVE  AddRule(m, request, response, all, a, i) \in ResultsOf(m, request, response, R)
  <1> DEFINE E == ErrorsOf(m, request, response, R)
             B == BindingsOf(m, request, response, R)
             n == NewBinding(m, request, response, all[i], Len(a.bindings))
             r == AddRule(m, request, response, all, a, i)
  <1>1. a \in [err : E, bindings : Seq(B)]
    BY Zenon DEF ResultsOf
  <1>2. "nested additional" \in E
    BY DEF ErrorsOf
  <1>3. Len(a.bindings) \in Nat
    <2> HIDE DEF E, B
    <2> QED BY <1>1, ResultFields
  <1>4. n.err \in E /\ n.binding \in B
    BY <1>3, ResultsHave, Zenon
  <1>5. \/ r = a
        \/ r = [a EXCEPT !.err = "nested additional"]
        \/ r = AddBinding(a, i, n)
    BY Zenon DEF AddRule
  <1> HIDE DEF E, B, n, r
  <1>6. [a EXCEPT !.err = "nested additional"] \in [err : E, bindings : Seq(B)]
    BY <1>1, <1>2, ResultFields
  <1>7. AddBinding(a, i, n) \in [err : E, bindings : Seq(B)]
    BY <1>1, <1>4, AddTyped
  <1>8. r \in [err : E, bindings : Seq(B)]
    BY <1>1, <1>5, <1>6, <1>7, Zenon
  <1> QED BY <1>8, Zenon DEF ResultsOf, E, B, r

LEMMA AddRuleAnswers ==
  ASSUME NEW m, NEW request, NEW response, NEW R, NEW rules \in Seq(R), NEW rule \in R, rule.additional \in Seq(R),
         NEW all, NEW i \in 1 .. Len(rule.additional) + 1,
         all[1] = rule, i # 1 => all[i] = rule.additional[i - 1],
         NEW a \in ResultsOf(m, request, response, R), AnswersUnlessFailed(Upto(rules, rule, i - 1), a)
  PROVE  AnswersUnlessFailed(Upto(rules, rule, i), AddRule(m, request, response, all, a, i))
  <1> DEFINE more == rule.additional
             L    == Len(more)
             n    == NewBinding(m, request, response, all[i], Len(a.bindings))
             r    == AddRule(m, request, response, all, a, i)
  <1>0. more \in Seq(R) /\ L \in Nat
    OBVIOUS
  <1>a. Upto(rules, rule, 0) = rules /\ Upto(rules, rule, 1) = WithMain(rules, rule)
    BY UptoFirst, Zenon
  <1>b. \A k \in 1 .. L : Upto(rules, rule, k + 1) = Append(Upto(rules, rule, k), more[k])
    <2>1. \A k \in 1 .. Len(rule.additional) :
            Upto(rules, rule, k + 1) = Append(Upto(rules, rule, k), rule.additional[k])
      BY UptoNext, Zenon
    <2> QED BY <2>1, Zenon
  <1>c. \A k \in 0 .. L + 1 : Upto(rules, rule, k) \in Seq(R)
    BY UptoGrows, Zenon
  <1>2. CASE a.err # ""
    <2>1. r = a
      BY <1>2, Zenon DEF AddRule
    <2> QED BY <1>2, <2>1, Zenon DEF AnswersUnlessFailed
  <1>3. CASE a.err = "" /\ i > 1 /\ all[i].additional # <<>>
    <2>1. r = [a EXCEPT !.err = "nested additional"]
      BY <1>3, Zenon DEF AddRule
    <2> HIDE DEF r
    <2>2. r.err = "nested additional"
      BY <2>1 DEF ResultsOf
    <2>3. r.err # ""
      BY <2>2
    <2> QED BY <2>3, Zenon DEF AnswersUnlessFailed, r
  <1>4. CASE a.err = "" /\ ~ (i > 1 /\ all[i].additional # <<>>)
    <2>1. r = AddBinding(a, i, n)
      BY <1>4, Zenon DEF AddRule
    <2>2. Answer(Upto(rules, rule, i - 1), a.bindings)
      BY <1>4, Zenon DEF AnswersUnlessFailed
    <2>3. CASE i = 1
      <3>1. i - 1 = 0 /\ all[i] = rule
        BY <2>3
      <3>2. Answer(rules, a.bindings)
        BY <1>a, <2>2, <3>1, Zenon
      <3>3. AnswersUnlessFailed(WithMain(rules, rule), AddBinding(a, 1, n))
        BY <1>4, <3>1, <3>2, MainAdded, Zenon
      <3> QED BY <1>a, <2>1, <2>3, <3>3, Zenon
    <2>4. CASE i # 1
      <3> DEFINE u == Upto(rules, rule, i - 1)
                 x == all[i]
      <3>1. i - 1 \in 1 .. L /\ i - 1 \in 0 .. L + 1 /\ (i - 1) + 1 = i
        BY <1>0, <2>4
      <3>2. u \in Seq(R) /\ Upto(rules, rule, i) = Append(u, more[i - 1])
        BY <1>b, <1>c, <3>1
      <3>3. x = more[i - 1] /\ x \in R
        <4>1. x = more[i - 1]
          BY <2>4, Zenon
        <4> HIDE DEF more, x
        <4>2. more[i - 1] \in R
          BY <1>0, <3>1 DEF L
        <4> QED BY <4>1, <4>2
      <3> HIDE DEF u, x
      <3>4. Answer(u, a.bindings)
        BY <2>2, Zenon DEF u
      <3>5. n = NewBinding(m, request, response, x, Len(a.bindings))
        BY Zenon DEF x
      <3>6. AnswersUnlessFailed(Append(u, x), AddBinding(a, i, n))
        BY <1>4, <2>4, <3>2, <3>3, <3>4, <3>5, AdditionalAdded, Zenon
      <3> QED BY <2>1, <3>2, <3>3, <3>6, Zenon
    <2> QED BY <2>3, <2>4
  <1> QED BY <1>2, <1>3, <1>4, Zenon
LEMMA AllRules ==
  ASSUME NEW R, NEW rule \in R, rule.additional \in Seq(R)
  PROVE  LET all == <<rule>> \o rule.additional
         IN  /\ all \in Seq(R) /\ Len(all) = Len(rule.additional) + 1 /\ all[1] = rule
             /\ \A i \in 1 .. Len(all) : all[i] \in R /\ (i # 1 => all[i] = rule.additional[i - 1])
  <1> DEFINE more == rule.additional
  <1>1. more \in Seq(R) /\ <<rule>> \in Seq(R)
    OBVIOUS
  <1> HIDE DEF more
  <1> DEFINE all == <<rule>> \o more
  <1>2. Len(<<rule>>) = 1 /\ <<rule>>[1] = rule
    OBVIOUS
  <1>3. all \in Seq(R) /\ Len(all) = Len(more) + 1 /\ Len(more) \in Nat
    BY <1>1
  <1>4. all[1] = rule
    BY <1>1
  <1>5. ASSUME NEW i \in 1 .. Len(all) PROVE all[i] \in R /\ (i # 1 => all[i] = more[i - 1])
    <2>1. all[i] \in R
      BY <1>3
    <2>2. i # 1 => all[i] = more[i - 1]
      BY <1>1, <1>3
    <2> QED BY <2>1, <2>2
  <1> QED BY <1>3, <1>4, <1>5, Zenon DEF more

\* ApplyRule goes from a rule to the next.
RuleSteps(f, m, request, response, acc, rule) ==
  LET all == <<rule>> \o rule.additional
  IN  /\ f[0] = acc /\ ApplyRule(m, request, response, acc, rule) = f[Len(all)]
      /\ \A i \in 1 .. Len(all) : f[i] = AddRule(m, request, response, all, f[i - 1], i)

LEMMA RuleUnfolds ==
  ASSUME NEW m, NEW request, NEW response, NEW R, NEW acc \in ResultsOf(m, request, response, R),
         NEW rule \in R, rule.additional \in Seq(R)
  PROVE  \E f \in [0 .. Len(rule.additional) + 1 -> ResultsOf(m, request, response, R)] :
           RuleSteps(f, m, request, response, acc, rule)
  <1> DEFINE all     == <<rule>> \o rule.additional
             L       == Len(all)
             V       == ResultsOf(m, request, response, R)
             Add(a, i) == AddRule(m, request, response, all, a, i)
             Body(f) == [i \in 0 .. L |-> IF i = 0 THEN acc ELSE Add(f[i - 1], i)]
             applied == CHOOSE f : f = Body(f)
             step    == [p \in (1 .. L) \X V |-> Add(p[2], p[1])]
  <1>1. ApplyRule(m, request, response, acc, rule) = applied[L]
    BY Zenon DEF ApplyRule
  <1>2. \A a, i : Add(a, i) = AddRule(m, request, response, all, a, i)
    BY Zenon
  <1>3. /\ all \in Seq(R) /\ L = Len(rule.additional) + 1
        /\ \A i \in 1 .. L : all[i] \in R
    BY AllRules, Zenon
  <1> HIDE DEF all
  <1>4. L \in Nat
    BY <1>3
  <1> HIDE DEF L, Add
  <1>5. \A a \in V, i \in 1 .. L : Add(a, i) \in V
    <2> SUFFICES ASSUME NEW a \in V, NEW i \in 1 .. L PROVE Add(a, i) \in V
      BY Zenon
    <2>1. all[i] \in R
      BY <1>3, Zenon
    <2> QED BY <1>2, <2>1, AddRuleTyped, Zenon
  <1> HIDE DEF V
  <1>6. step \in [(1 .. L) \X V -> V] /\ \A a \in V, i \in 1 .. L : step[<<i, a>>] = Add(a, i)
    <2>1. \A p \in (1 .. L) \X V : Add(p[2], p[1]) \in V
      BY <1>5
    <2> QED BY <2>1
  <1> HIDE DEF step
  <1>7. acc \in V
    BY Zenon DEF V
  <1>8. PICK f \in [0 .. L -> V] : IsFold(f, L, acc, step)
    BY <1>4, <1>6, <1>7, FoldExists, Zenon
  <1>9. f = Body(f)
    <2>1. ASSUME NEW i \in 0 .. L, i # 0 PROVE step[<<i, f[i - 1]>>] = Add(f[i - 1], i)
      <3>1. i \in 1 .. L /\ f[i - 1] \in V
        BY <1>4, <1>8, <2>1
      <3> QED BY <1>6, <3>1, Zenon
    <2>2. [i \in 0 .. L |-> IF i = 0 THEN acc ELSE step[<<i, f[i - 1]>>]] = Body(f)
      BY <2>1
    <2> HIDE DEF Body
    <2> QED BY <1>8, <2>2 DEF IsFold
  <1>10. applied = Body(applied)
    <2> HIDE DEF Body
    <2> QED BY <1>9, Zenon
  <1> HIDE DEF applied
  <1>11. applied[0] = acc /\ \A i \in 1 .. L : applied[i] = Add(applied[i - 1], i)
    <2>1. \A i \in 0 .. L : applied[i] = Body(applied)[i]
      <3> HIDE DEF Body
      <3> QED BY <1>10
    <2> QED BY <1>4, <2>1
  <1>12. \A i \in 0 .. L : applied[i] \in V
    <2>1. \A i \in 0 .. L : i # 0 /\ applied[i - 1] \in V => applied[i] \in V
      <3> SUFFICES ASSUME NEW i \in 0 .. L, i # 0, applied[i - 1] \in V PROVE applied[i] \in V
        OBVIOUS
      <3>1. i \in 1 .. L
        BY <1>4
      <3> QED BY <1>5, <1>11, <3>1
    <2> QED BY <1>4, <1>7, <1>11, <2>1, RecursionTyped
  <1>13. applied = [i \in 0 .. L |-> applied[i]]
    <2>1. applied = [i \in 0 .. L |-> IF i = 0 THEN acc ELSE Add(applied[i - 1], i)]
      BY <1>10, Zenon
    <2> QED BY <2>1
  <1>14. applied \in [0 .. Len(rule.additional) + 1 -> V]
    BY <1>3, <1>12, <1>13
  <1>15. RuleSteps(applied, m, request, response, acc, rule)
    BY <1>1, <1>2, <1>11, Zenon DEF RuleSteps, all, L
  <1> QED BY <1>14, <1>15, Zenon DEF V

\* A rule and its additional ones have a result ...
LEMMA RuleTyped ==
  ASSUME NEW m, NEW request, NEW response, NEW R, NEW acc \in ResultsOf(m, request, response, R),
         NEW rule \in R, rule.additional \in Seq(R)
  PROVE  ApplyRule(m, request, response, acc, rule) \in ResultsOf(m, request, response, R)
  <1> DEFINE V == ResultsOf(m, request, response, R)
             L == Len(rule.additional) + 1
  <1>1. PICK f \in [0 .. L -> V] : RuleSteps(f, m, request, response, acc, rule)
    BY RuleUnfolds, Zenon
  <1>2. Len(<<rule>> \o rule.additional) = L /\ L \in 0 .. L
    <2>1. L \in Nat
      OBVIOUS
    <2>2. Len(<<rule>> \o rule.additional) = L
      BY AllRules, Zenon
    <2> HIDE DEF L
    <2> QED BY <2>1, <2>2
  <1>3. ApplyRule(m, request, response, acc, rule) = f[L]
    BY <1>1, <1>2, Zenon DEF RuleSteps
  <1> HIDE DEF V, L
  <1>4. f[L] \in V
    BY <1>2
  <1> QED BY <1>3, <1>4, Zenon DEF V

\* ... and get their bindings after those before, or an error.
LEMMA RuleApplied ==
  ASSUME NEW m, NEW request, NEW response, NEW R, NEW acc \in ResultsOf(m, request, response, R),
         NEW rules \in Seq(R), AnswersUnlessFailed(rules, acc), NEW rule \in R, rule.additional \in Seq(R)
  PROVE  AnswersUnlessFailed(rules \o Given(rule), ApplyRule(m, request, response, acc, rule))
  <1> DEFINE all == <<rule>> \o rule.additional
             L   == Len(rule.additional) + 1
             V   == ResultsOf(m, request, response, R)
  <1>1. PICK f \in [0 .. L -> V] : RuleSteps(f, m, request, response, acc, rule)
    BY RuleUnfolds, Zenon
  <1>a. /\ Len(all) = L /\ all[1] = rule
        /\ \A i \in 1 .. Len(all) : all[i] \in R /\ (i # 1 => all[i] = rule.additional[i - 1])
    <2> HIDE DEF L
    <2>1. Len(all) = Len(rule.additional) + 1
      BY AllRules, Zenon
    <2>2. all[1] = rule
      BY AllRules, Zenon
    <2>3. \A i \in 1 .. Len(all) : all[i] \in R /\ (i # 1 => all[i] = rule.additional[i - 1])
      BY AllRules, Zenon
    <2> QED BY <2>1, <2>2, <2>3, Zenon DEF L
  <1>2. /\ Len(all) = L /\ all[1] = rule
        /\ \A i \in 1 .. L : all[i] \in R /\ (i # 1 => all[i] = rule.additional[i - 1])
    <2> HIDE DEF L, all
    <2> QED BY <1>a
  <1>3. L \in Nat
    OBVIOUS
  <1>4. /\ f[0] = acc /\ ApplyRule(m, request, response, acc, rule) = f[L]
        /\ \A i \in 1 .. L : f[i] = AddRule(m, request, response, all, f[i - 1], i)
    BY <1>1, <1>2, Zenon DEF RuleSteps
  <1> DEFINE G(i) == AnswersUnlessFailed(Upto(rules, rule, i), f[i])
             good == {i \in Nat : i <= L => G(i)}
  <1> HIDE DEF all, V
  <1>5. 0 \in good
    <2>1. Upto(rules, rule, 0) = rules
      BY UptoGrows, Zenon
    <2>2. G(0)
      BY <1>4, <2>1, Zenon
    <2> HIDE DEF G
    <2> QED BY <2>2
  <1>6. ASSUME NEW i \in Nat, i > 0, i - 1 \in good PROVE i \in good
    <2> SUFFICES ASSUME i <= L PROVE G(i)
      OBVIOUS
    <2>1. i \in 1 .. L
      BY <1>3, <1>6
    <2>2. G(i - 1) /\ i - 1 \in 0 .. L
      <3> HIDE DEF G, L
      <3> QED BY <1>3, <1>6
    <2>3. f[i] = AddRule(m, request, response, all, f[i - 1], i)
      BY <1>4, <2>1, Zenon
    <2>4. f[i - 1] \in V
      <3> HIDE DEF L
      <3> QED BY <2>2
    <2>5. all[i] \in R /\ all[1] = rule /\ (i # 1 => all[i] = rule.additional[i - 1])
      BY <1>2, <2>1, Zenon
    <2> DEFINE a == f[i - 1]
    <2>6. a \in ResultsOf(m, request, response, R) /\ AnswersUnlessFailed(Upto(rules, rule, i - 1), a)
      BY <2>2, <2>4, Zenon DEF V
    <2> HIDE DEF a
    <2>7. AnswersUnlessFailed(Upto(rules, rule, i), AddRule(m, request, response, all, a, i))
      BY <2>1, <2>5, <2>6, AddRuleAnswers, Zenon
    <2> QED BY <2>3, <2>7, Zenon DEF a
  <1>7. G(L)
    <2> HIDE DEF G, L
    <2>1. 0 \in Nat /\ L >= 0
      BY <1>3
    <2>2. \A i \in Nat : i >= 0 => i \in good
      <3> HIDE DEF good
      <3> QED BY <1>5, <1>6, <2>1, Climbing
    <2> QED BY <1>3, <2>1, <2>2
  <1>8. Upto(rules, rule, L) = rules \o Given(rule)
    BY UptoLast, Zenon
  <1> QED BY <1>4, <1>7, <1>8, Zenon

-----------------------------------------------------------------------------
(* All rules of a method.                                                  *)

\* ApplyRules goes from a rule to the next.
RulesSteps(f, m, request, response, rules) ==
  /\ f[0] = [err |-> "", bindings |-> <<>>]
  /\ ApplyRules(m, request, response, rules) = f[Len(rules)]
  /\ \A i \in 1 .. Len(rules) : f[i] = ApplyRule(m, request, response, f[i - 1], rules[i])

LEMMA RulesUnfold ==
  ASSUME NEW m, NEW request, NEW response, NEW R, NEW rules \in Seq(R),
         \A i \in 1 .. Len(rules) : rules[i].additional \in Seq(R)
  PROVE  \E f \in [0 .. Len(rules) -> ResultsOf(m, request, response, R)] :
           RulesSteps(f, m, request, response, rules)
  <1> DEFINE L       == Len(rules)
             V       == ResultsOf(m, request, response, R)
             none    == [err |-> "", bindings |-> <<>>]
             Add(a, i) == ApplyRule(m, request, response, a, rules[i])
             Body(f) == [i \in 0 .. L |-> IF i = 0 THEN none ELSE Add(f[i - 1], i)]
             applied == CHOOSE f : f = Body(f)
             step    == [p \in (1 .. L) \X V |-> Add(p[2], p[1])]
  <1>1. ApplyRules(m, request, response, rules) = applied[L]
    BY Zenon DEF ApplyRules
  <1>2. L \in Nat /\ \A i \in 1 .. L : rules[i] \in R
    OBVIOUS
  <1>3. none \in V
    <2> DEFINE E == ErrorsOf(m, request, response, R)
               B == BindingsOf(m, request, response, R)
    <2>1. "" \in E
      BY DEF ErrorsOf
    <2> HIDE DEF E, B
    <2>2. none \in [err : E, bindings : Seq(B)]
      <3> DEFINE S == Seq(B)
      <3>1. <<>> \in S
        OBVIOUS
      <3> HIDE DEF S
      <3>2. none \in [err : E, bindings : S]
        BY <2>1, <3>1
      <3> QED BY <3>2 DEF S
    <2> QED BY <2>2, Zenon DEF ResultsOf, E, B
  <1>4. \A a \in V, i \in 1 .. L : Add(a, i) \in V
    <2> SUFFICES ASSUME NEW a \in V, NEW i \in 1 .. L PROVE Add(a, i) \in V
      BY Zenon
    <2> QED BY <1>2, RuleTyped, Zenon
  <1> HIDE DEF L, V, Add, none
  <1>5. step \in [(1 .. L) \X V -> V] /\ \A a \in V, i \in 1 .. L : step[<<i, a>>] = Add(a, i)
    <2>1. \A p \in (1 .. L) \X V : Add(p[2], p[1]) \in V
      BY <1>4
    <2> QED BY <2>1
  <1> HIDE DEF step
  <1>6. PICK f \in [0 .. L -> V] : IsFold(f, L, none, step)
    BY <1>2, <1>3, <1>5, FoldExists, Zenon
  <1>7. f = Body(f)
    <2>1. ASSUME NEW i \in 0 .. L, i # 0 PROVE step[<<i, f[i - 1]>>] = Add(f[i - 1], i)
      <3>1. i \in 1 .. L /\ f[i - 1] \in V
        BY <1>2, <1>6, <2>1
      <3> QED BY <1>5, <3>1, Zenon
    <2>2. [i \in 0 .. L |-> IF i = 0 THEN none ELSE step[<<i, f[i - 1]>>]] = Body(f)
      BY <2>1
    <2> HIDE DEF Body
    <2> QED BY <1>6, <2>2 DEF IsFold
  <1>8. applied = Body(applied)
    <2> HIDE DEF Body
    <2> QED BY <1>7, Zenon
  <1> HIDE DEF applied
  <1>9. applied[0] = none /\ \A i \in 1 .. L : applied[i] = Add(applied[i - 1], i)
    <2>1. \A i \in 0 .. L : applied[i] = Body(applied)[i]
      <3> HIDE DEF Body
      <3> QED BY <1>8
    <2> QED BY <1>2, <2>1
  <1>10. \A i \in 0 .. L : applied[i] \in V
    <2>1. \A i \in 0 .. L : i # 0 /\ applied[i - 1] \in V => applied[i] \in V
      <3> SUFFICES ASSUME NEW i \in 0 .. L, i # 0, applied[i - 1] \in V PROVE applied[i] \in V
        OBVIOUS
      <3>1. i \in 1 .. L
        BY <1>2
      <3> QED BY <1>4, <1>9, <3>1
    <2> QED BY <1>2, <1>3, <1>9, <2>1, RecursionTyped
  <1>11. applied = [i \in 0 .. L |-> applied[i]]
    <2>1. applied = [i \in 0 .. L |-> IF i = 0 THEN none ELSE Add(applied[i - 1], i)]
      BY <1>8, Zenon
    <2> QED BY <2>1
  <1>12. applied \in [0 .. L -> V]
    BY <1>10, <1>11
  <1>13. RulesSteps(applied, m, request, response, rules)
    BY <1>1, <1>9, Zenon DEF RulesSteps, Add, L, none
  <1> QED BY <1>12, <1>13, Zenon DEF V, L

\* All rules have their bindings, in order, unless one has an error.
LEMMA RulesApplied ==
  ASSUME NEW m, NEW request, NEW response, NEW R, NEW rules \in Seq(R),
         \A i \in 1 .. Len(rules) : rules[i].additional \in Seq(R)
  PROVE  AnswersUnlessFailed(FlattenSeq([i \in 1 .. Len(rules) |-> Given(rules[i])]),
                             ApplyRules(m, request, response, rules))
  <1> DEFINE L     == Len(rules)
             V     == ResultsOf(m, request, response, R)
             parts == [i \in 1 .. L |-> Given(rules[i])]
  <1>1. PICK f \in [0 .. L -> V] : RulesSteps(f, m, request, response, rules)
    BY RulesUnfold, Zenon
  <1>2. L \in Nat /\ \A i \in 1 .. L : rules[i] \in R
    OBVIOUS
  <1>3. \A i \in 1 .. L : Given(rules[i]) \in Seq(R)
    <2> SUFFICES ASSUME NEW i \in 1 .. L PROVE Given(rules[i]) \in Seq(R)
      OBVIOUS
    <2> DEFINE rule == rules[i]
               more == rule.additional
    <2>1. rule \in R /\ more \in Seq(R)
      BY <1>2
    <2> HIDE DEF rule
    <2>2. <<>> \in Seq(R) /\ <<rule>> \in Seq(R)
      BY <2>1
    <2> HIDE DEF more
    <2>3. <<>> \o more \in Seq(R) /\ <<rule>> \o more \in Seq(R)
      BY <2>1, <2>2, ConcatProperties
    <2>4. Given(rule) \in {<<>> \o more, <<rule>> \o more}
      BY Zenon DEF Given, more
    <2> QED BY <2>3, <2>4 DEF rule
  <1>4. parts \in Seq(Seq(R)) /\ Len(parts) = L
    <2> DEFINE S == Seq(R)
    <2> HIDE DEF S, L
    <2>1. \A i \in 1 .. L : Given(rules[i]) \in S
      BY <1>3 DEF S
    <2>2. parts \in Seq(S) /\ Len(parts) = L
      BY <1>2, <2>1
    <2> QED BY <2>2 DEF S
  <1>5. \A i \in 1 .. L : parts[i] = Given(rules[i])
    OBVIOUS
  <1>6. /\ f[0] = [err |-> "", bindings |-> <<>>]
        /\ ApplyRules(m, request, response, rules) = f[L]
        /\ \A i \in 1 .. L : f[i] = ApplyRule(m, request, response, f[i - 1], rules[i])
    BY <1>1, Zenon DEF RulesSteps
  <1> HIDE DEF V, L, parts
  <1>7. PICK join \in [0 .. L -> Seq(R)] : PrefixJoins(parts, join)
    BY <1>4, FlattenUnfolds, Zenon
  <1>8. /\ join[0] = <<>> /\ FlattenSeq(parts) = join[L]
        /\ \A i \in 1 .. L : join[i] = join[i - 1] \o Given(rules[i])
    BY <1>4, <1>5, <1>7, Zenon DEF PrefixJoins
  <1> DEFINE G(i) == AnswersUnlessFailed(join[i], f[i])
             good == {i \in Nat : i <= L => G(i)}
  <1>9. 0 \in good
    <2>1. Answer(<<>>, <<>>)
      BY DEF Answer
    <2>2. f[0].bindings = <<>>
      <3>1. [err |-> "", bindings |-> <<>>].bindings = <<>>
        OBVIOUS
      <3> QED BY <1>6, <3>1, Zenon
    <2>3. G(0)
      BY <1>8, <2>1, <2>2, Zenon DEF AnswersUnlessFailed
    <2> HIDE DEF G
    <2> QED BY <2>3
  <1>10. ASSUME NEW i \in Nat, i > 0, i - 1 \in good PROVE i \in good
    <2> SUFFICES ASSUME i <= L PROVE G(i)
      OBVIOUS
    <2>1. i \in 1 .. L /\ i - 1 \in 0 .. L
      BY <1>2, <1>10
    <2>2. G(i - 1)
      <3> HIDE DEF G
      <3> QED BY <1>2, <1>10
    <2>3. f[i - 1] \in V /\ join[i - 1] \in Seq(R)
      BY <2>1
    <2> DEFINE a == f[i - 1]
               j == join[i - 1]
    <2>4. a \in ResultsOf(m, request, response, R) /\ j \in Seq(R) /\ AnswersUnlessFailed(j, a)
      BY <2>2, <2>3, Zenon DEF V
    <2>5. rules[i] \in R /\ rules[i].additional \in Seq(R)
      BY <1>2, <2>1, Zenon DEF L
    <2>6. f[i] = ApplyRule(m, request, response, a, rules[i]) /\ join[i] = j \o Given(rules[i])
      BY <1>6, <1>8, <2>1, Zenon
    <2> HIDE DEF a, j
    <2>7. AnswersUnlessFailed(j \o Given(rules[i]), ApplyRule(m, request, response, a, rules[i]))
      BY <2>4, <2>5, RuleApplied, Zenon
    <2> QED BY <2>6, <2>7, Zenon
  <1>11. G(L)
    <2> HIDE DEF G
    <2>1. 0 \in Nat /\ L >= 0
      BY <1>2
    <2>2. \A i \in Nat : i >= 0 => i \in good
      <3> HIDE DEF good
      <3> QED BY <1>9, <1>10, <2>1, Climbing
    <2> QED BY <1>2, <2>1, <2>2
  <1> QED BY <1>6, <1>8, <1>11, Zenon DEF L, parts
-----------------------------------------------------------------------------
(* newMethod.                                                              *)

\* What a method's annotation and the external rules ask for.
OwnRules(m) == IF m[2].rule = NoRule THEN RulesFor(m[1]) ELSE Append(RulesFor(m[1]), m[2].rule)

LEMMA OwnAnswered ==
  ASSUME NEW m, NEW own, OwnRules(m) = own, NEW R, own \in Seq(R), own # <<>>,
         \A i \in 1 .. Len(own) : own[i].additional \in Seq(R),
         NEW request, NEW response, ApplyRules(m[2], request, response, own).err = ""
  PROVE  Accounted(m, ApplyRules(m[2], request, response, own).bindings)
  <1> DEFINE res == ApplyRules(m[2], request, response, own)
  <1>1. AnswersUnlessFailed(FlattenSeq([i \in 1 .. Len(own) |-> Given(own[i])]), res)
    BY RulesApplied, Zenon
  <1> HIDE DEF res
  <1>2. Answer(FlattenSeq([i \in 1 .. Len(own) |-> Given(own[i])]), res.bindings)
    BY <1>1, Zenon DEF AnswersUnlessFailed, res
  <1>3. DOMAIN own = 1 .. Len(own)
    BY LenProperties
  <1>4. Asked(m) = FlattenSeq([i \in DOMAIN own |-> Given(own[i])])
    BY Zenon DEF Asked, OwnRules, Given
  <1>5. Answer(Asked(m), res.bindings)
    BY <1>2, <1>3, <1>4, Zenon
  <1>6. ~ (m[2].rule = NoRule /\ RulesFor(m[1]) = <<>>)
    BY Zenon DEF OwnRules
  <1> QED BY <1>5, <1>6, Zenon DEF Accounted, res

LEMMA DefaultGiven ==
  ASSUME NEW name
  PROVE  Given(DefaultRule(name)) = <<DefaultRule(name)>> /\ DefaultRule(name).additional = <<>>
  <1> DEFINE d == DefaultRule(name)
             p == DefaultPath(name)
  <1>1. d = [verb |-> "POST", path |-> p, body |-> <<"*">>, response |-> <<>>, additional |-> <<>>]
    BY Zenon DEF DefaultRule
  <1> HIDE DEF d, p
  <1>2. d.verb = "POST" /\ d.additional = <<>>
    BY <1>1
  <1>3. d.verb # "none"
    BY <1>2
  <1>4. Given(d) = <<d>> \o <<>>
    BY <1>2, <1>3, Zenon DEF Given
  <1>5. <<d>> \in Seq({d})
    OBVIOUS
  <1>6. <<d>> \o <<>> = <<d>>
    BY <1>5, ConcatEmptySeq
  <1> QED BY <1>2, <1>4, <1>6, Zenon DEF d

\* The rules of a method joined: of one rule ...
LEMMA OneJoined ==
  ASSUME NEW R, NEW d \in R, NEW one \in Seq(R), NEW rules, Len(rules) = 1, rules[1] = d, Given(d) = one
  PROVE  FlattenSeq([i \in 1 .. Len(rules) |-> Given(rules[i])]) = one
  <1> DEFINE S     == Seq(R)
             n     == Len(rules)
             parts == [i \in 1 .. n |-> Given(rules[i])]
  <1>1. n = 1
    OBVIOUS
  <1>2. \A i \in 1 .. n : Given(rules[i]) = one
    OBVIOUS
  <1>3. one \in S
    OBVIOUS
  <1> HIDE DEF S, n
  <1>4. parts \in [1 .. n -> S] /\ n \in Nat /\ parts[1] = one
    BY <1>1, <1>2, <1>3
  <1> HIDE DEF parts
  <1>5. parts \in Seq(S) /\ Len(parts) = 1
    BY <1>1, <1>4, Mapped
  <1>6. PICK join \in [0 .. Len(parts) -> S] : PrefixJoins(parts, join)
    BY <1>5, FlattenUnfolds, Zenon DEF S
  <1>7. join[0] = <<>> /\ FlattenSeq(parts) = join[1] /\ join[1] = join[1 - 1] \o parts[1]
    <2>1. 1 \in 1 .. Len(parts)
      BY <1>5
    <2> QED BY <1>5, <1>6, <2>1, Zenon DEF PrefixJoins
  <1>8. 1 - 1 = 0
    OBVIOUS
  <1>9. <<>> \o one = one
    BY ConcatEmptySeq
  <1>10. FlattenSeq(parts) = one
    BY <1>4, <1>7, <1>8, <1>9, Zenon
  <1> QED BY <1>10, Zenon DEF parts, n

\* ... and of none.
LEMMA NoneJoined ==
  ASSUME NEW rules, Len(rules) = 0
  PROVE  FlattenSeq([i \in 1 .. Len(rules) |-> Given(rules[i])]) = <<>>
  <1> DEFINE n     == Len(rules)
             S     == {Given(rules[i]) : i \in 1 .. n}
             parts == [i \in 1 .. n |-> Given(rules[i])]
  <1>1. n = 0 /\ n \in Nat
    OBVIOUS
  <1>2. parts \in [1 .. n -> S]
    BY Zenon
  <1> HIDE DEF n, S, parts
  <1>3. parts = <<>>
    BY <1>1, <1>2, Mapped
  <1>4. FlattenSeq(<<>>) = <<>>
    BY DEF FlattenSeq
  <1> QED BY <1>3, <1>4, Zenon DEF parts, n

LEMMA DefaultJoined ==
  ASSUME NEW d, Given(d) = <<d>>
  PROVE  \A s : Len(s) = 1 /\ s[1] = d => FlattenSeq([i \in 1 .. Len(s) |-> Given(s[i])]) = <<d>>
  <1> DEFINE one == <<d>>
             R   == {d}
  <1>1. d \in R
    BY Zenon
  <1> HIDE DEF R
  <1>2. one \in Seq(R) /\ Given(d) = one
    BY <1>1, OneElement, Zenon
  <1> SUFFICES ASSUME NEW s, Len(s) = 1, s[1] = d
               PROVE  FlattenSeq([i \in 1 .. Len(s) |-> Given(s[i])]) = one
    BY Zenon
  <1> HIDE DEF one
  <1> QED BY <1>1, <1>2, OneJoined, Zenon

LEMMA DefaultAnswered ==
  ASSUME NEW m, NEW request, NEW response, NEW d, d.additional = <<>>, Given(d) = <<d>>,
         NEW rules, rules = <<d>>, ApplyRules(m, request, response, rules).err = ""
  PROVE  Len(ApplyRules(m, request, response, rules).bindings) = 1
  <1> DEFINE R == {d}
  <1>1. d \in R
    BY Zenon
  <1> HIDE DEF R
  <1>2. /\ <<d>> \in Seq(R) /\ Len(rules) = 1 /\ rules[1] = d
        /\ \A i \in 1 .. Len(rules) : rules[i] = d
    BY <1>1, OneElement, Zenon
  <1>3. \A i \in 1 .. Len(rules) : rules[i].additional \in Seq(R)
    BY <1>2, EmptySeq, Zenon
  <1>4. AnswersUnlessFailed(FlattenSeq([i \in 1 .. Len(rules) |-> Given(rules[i])]),
                            ApplyRules(m, request, response, rules))
    BY <1>2, <1>3, RulesApplied, Zenon
  <1>5. FlattenSeq([i \in 1 .. Len(rules) |-> Given(rules[i])]) = <<d>>
    BY <1>2, DefaultJoined, Zenon
  <1>6. Answer(<<d>>, ApplyRules(m, request, response, rules).bindings)
    BY <1>4, <1>5, Zenon DEF AnswersUnlessFailed
  <1> QED BY <1>2, <1>6, Zenon DEF Answer

LEMMA NoPlace == \A i \in 1 .. 0 : FALSE
  OBVIOUS

LEMMA NoneAnswered ==
  ASSUME NEW m, NEW request, NEW response, NEW rules, rules = <<>>,
         ApplyRules(m, request, response, rules).err = ""
  PROVE  Len(ApplyRules(m, request, response, rules).bindings) = 0
  <1>1. rules \in Seq({}) /\ Len(rules) = 0
    BY EmptySeq, Zenon
  <1>3. \A i \in 1 .. Len(rules) : FALSE
    BY <1>1, NoPlace, Zenon
  <1>4. AnswersUnlessFailed(FlattenSeq([i \in 1 .. Len(rules) |-> Given(rules[i])]),
                            ApplyRules(m, request, response, rules))
    BY <1>1, <1>3, RulesApplied, Zenon
  <1>5. FlattenSeq([i \in 1 .. Len(rules) |-> Given(rules[i])]) = <<>>
    BY <1>1, NoneJoined, Zenon
  <1>6. Answer(rules, ApplyRules(m, request, response, rules).bindings)
    BY <1>4, <1>5, Zenon DEF AnswersUnlessFailed
  <1> QED BY <1>1, <1>6, Zenon DEF Answer

LEMMA UnboundAnswered ==
  ASSUME NEW m, m[2].rule = NoRule, RulesFor(m[1]) = <<>>, NEW request, NEW response,
         NEW rules, rules = RulesOf(m[1], m[2]), ApplyRules(m[2], request, response, rules).err = ""
  PROVE  Accounted(m, ApplyRules(m[2], request, response, rules).bindings)
  <1>1. SUFFICES Len(ApplyRules(m[2], request, response, rules).bindings)
                   = IF settings.generateUnboundMethods THEN 1 ELSE 0
    BY Zenon DEF Accounted
  <1>2. CASE settings.generateUnboundMethods
    <2> DEFINE d == DefaultRule(m[1])
    <2>1. rules = <<d>>
      BY <1>2, Zenon DEF RulesOf
    <2>2. Given(d) = <<d>> /\ d.additional = <<>>
      BY DefaultGiven, Zenon
    <2>3. Len(ApplyRules(m[2], request, response, rules).bindings) = 1
      BY <2>1, <2>2, DefaultAnswered, Zenon
    <2> QED BY <1>2, <2>3, Zenon
  <1>3. CASE ~ settings.generateUnboundMethods
    <2>1. rules = <<>>
      BY <1>3, Zenon DEF RulesOf
    <2> QED BY <1>3, <2>1, NoneAnswered, Zenon
  <1> QED BY <1>2, <1>3

\* The rules of a method and the additional ones of each have known types.
LEMMA OwnTyped ==
  ASSUME NEW m, NEW R, NEW X \in SUBSET R, \A x \in X : x.additional \in Seq(R),
         RulesFor(m[1]) \in Seq(X), m[2].rule # NoRule => m[2].rule \in X
  PROVE  /\ OwnRules(m) \in Seq(R)
         /\ \A i \in 1 .. Len(OwnRules(m)) : OwnRules(m)[i].additional \in Seq(R)
         /\ OwnRules(m) = <<>> => m[2].rule = NoRule /\ RulesFor(m[1]) = <<>>
  <1> DEFINE s   == RulesFor(m[1])
             x   == m[2].rule
             own == OwnRules(m)
  <1>1. IF x = NoRule THEN own = s ELSE own = Append(s, x)
    BY Zenon DEF OwnRules
  <1>2. s \in Seq(X) /\ (x # NoRule => x \in X)
    BY Zenon
  <1> HIDE DEF s, x, own
  <1>3. own \in Seq(X)
    BY <1>1, <1>2
  <1>4. own \in Seq(R)
    BY <1>3
  <1>5. \A i \in 1 .. Len(own) : own[i] \in X
    BY <1>3
  <1>6. own = <<>> => x = NoRule /\ s = <<>>
    <2>1. x # NoRule => Append(s, x) # <<>>
      BY <1>2, Appended
    <2> QED BY <1>1, <2>1, Zenon
  <1> QED BY <1>4, <1>5, <1>6, Zenon DEF own, s, x

\* A method that is not refused has its bindings.
LEMMA MethodAccounted ==
  ASSUME NEW f, NEW m, NEW R, NEW X \in SUBSET R, \A x \in X : x.additional \in Seq(R),
         RulesFor(m[1]) \in Seq(X), m[2].rule # NoRule => m[2].rule \in X,
         NewMethod(f, m[1], m[2]).err = ""
  PROVE  Accounted(m, NewMethod(f, m[1], m[2]).bindings)
  <1> DEFINE request  == LookupName(DOMAIN msgs, f.pkg, m[2].input)
             response == LookupName(DOMAIN msgs, f.pkg, m[2].output)
             rules    == RulesOf(m[1], m[2])
             own      == OwnRules(m)
             new      == NewMethod(f, m[1], m[2])
             refusal  == [err |-> "missing", bindings |-> <<>>]
  <1>1. \/ new = refusal
        \/ new = ApplyRules(m[2], request, response, rules)
    BY Zenon DEF NewMethod
  <1>2. refusal.err # ""
    OBVIOUS
  <1>3. new = ApplyRules(m[2], request, response, rules)
    <2> HIDE DEF refusal
    <2> QED BY <1>1, <1>2, Zenon
  <1> HIDE DEF request, response
  <1>4. CASE own = <<>>
    <2>1. m[2].rule = NoRule /\ RulesFor(m[1]) = <<>>
      BY <1>4, OwnTyped, Zenon
    <2> QED BY <1>3, <2>1, UnboundAnswered, Zenon
  <1>5. CASE own # <<>>
    <2>1. rules = own
      BY <1>5, Zenon DEF RulesOf, OwnRules
    <2>2. own \in Seq(R) /\ \A i \in 1 .. Len(own) : own[i].additional \in Seq(R)
      BY OwnTyped, Zenon
    <2> QED BY <1>3, <1>5, <2>1, <2>2, OwnAnswered, Zenon
  <1> QED BY <1>4, <1>5
-----------------------------------------------------------------------------
(* Tables of rules and of methods.                                         *)

\* Tables of some names with values of a set.
Tables(N, X) == UNION {[D -> X] : D \in SUBSET N}
TableOf(f, N, X) == DOMAIN f \subseteq N /\ \A k \in DOMAIN f : f[k] \in X

LEMMA InTables ==
  ASSUME NEW N, NEW X, NEW f \in Tables(N, X)
  PROVE  TableOf(f, N, X)
  <1>1. PICK D \in SUBSET N : f \in [D -> X]
    BY Zenon DEF Tables
  <1>2. DOMAIN f = D /\ \A k \in D : f[k] \in X
    BY <1>1
  <1> QED BY <1>2 DEF TableOf

LEMMA UpdatedIsTable ==
  ASSUME NEW N, NEW X, NEW f, TableOf(f, N, X), NEW key \in N, NEW value \in X
  PROVE  /\ Updated(f, key, value) \in Tables(N, X)
         /\ DOMAIN Updated(f, key, value) = DOMAIN f \cup {key}
         /\ Updated(f, key, value)[key] = value
         /\ \A k \in DOMAIN f : k # key => Updated(f, key, value)[k] = f[k]
  <1> DEFINE D == DOMAIN f \cup {key}
             g == Updated(f, key, value)
  <1>1. g = [k \in D |-> IF k = key THEN value ELSE f[k]]
    BY Zenon DEF Updated
  <1>2. D \in SUBSET N /\ key \in D /\ \A k \in D : k # key => f[k] \in X
    BY Zenon DEF TableOf
  <1>3. \A k \in DOMAIN f : k \in D
    BY Zenon
  <1> HIDE DEF g
  <1>4. DOMAIN g = D
    BY <1>1, Zenon
  <1> HIDE DEF D
  <1>5. g \in [D -> X] /\ g[key] = value /\ \A k \in DOMAIN f : k # key => g[k] = f[k]
    BY <1>1, <1>2, <1>3
  <1>6. g \in Tables(N, X)
    BY <1>2, <1>5, Zenon DEF Tables
  <1> QED BY <1>4, <1>5, <1>6, Zenon DEF g, D

LEMMA RulesInTyped ==
  ASSUME NEW N, NEW Y, NEW known, TableOf(known, N, Seq(Y)), NEW m
  PROVE  RulesIn(known, m) \in Seq(Y)
  <1>1. <<>> \in Seq(Y)
    OBVIOUS
  <1> QED BY <1>1, Zenon DEF TableOf, RulesIn

LEMMA RuleAdded ==
  ASSUME NEW N, NEW Y, NEW known, TableOf(known, N, Seq(Y)), NEW r, r.selector \in N, r.rule \in Y
  PROVE  AddExternalHTTPRule(known, r) \in Tables(N, Seq(Y))
  <1> DEFINE s == RulesIn(known, r.selector)
             x == r.rule
  <1>1. s \in Seq(Y) /\ x \in Y
    BY RulesInTyped, Zenon
  <1> HIDE DEF s, x
  <1>2. Append(s, x) \in Seq(Y)
    BY <1>1
  <1> DEFINE S == Seq(Y)
             v == Append(s, x)
  <1> HIDE DEF S, v
  <1>3. Updated(known, r.selector, v) \in Tables(N, S)
    BY <1>2, UpdatedIsTable, Zenon DEF S, v
  <1> QED BY <1>3, Zenon DEF AddExternalHTTPRule, S, v, s, x

\* After any rules are added the external rules are rules.
LEMMA RulesAdded ==
  ASSUME NEW Y, \A k \in DOMAIN external : external[k] \in Seq(Y), NEW rules, Len(rules) \in Nat,
         \A i \in 1 .. Len(rules) : rules[i].rule \in Y
  PROVE  \A k \in DOMAIN AddRules(rules) : AddRules(rules)[k] \in Seq(Y)
  <1> DEFINE L == Len(rules)
             N == DOMAIN external \cup {rules[i].selector : i \in 1 .. L}
             V == {external} \cup Tables(N, Seq(Y))
             Add(known, i) ==
               IF \E j \in 1 .. i : HasWildcard(rules[j]) THEN known ELSE AddExternalHTTPRule(known, rules[i])
             Body(f) == [i \in 0 .. L |-> IF i = 0 THEN external ELSE Add(f[i - 1], i)]
             added   == CHOOSE f : f = Body(f)
             step    == [p \in (1 .. L) \X V |-> Add(p[2], p[1])]
  <1>1. AddRules(rules) = added[L]
    BY Zenon DEF AddRules
  <1>2. \A v \in V : TableOf(v, N, Seq(Y))
    <2>1. TableOf(external, N, Seq(Y))
      BY Zenon DEF TableOf
    <2>2. \A v \in Tables(N, Seq(Y)) : TableOf(v, N, Seq(Y))
      BY InTables, Zenon
    <2> QED BY <2>1, <2>2, Zenon
  <1>3. \A i \in 1 .. L : rules[i].selector \in N /\ rules[i].rule \in Y
    BY Zenon
  <1>4. \A v \in V, i \in 1 .. L : Add(v, i) \in V
    <2> SUFFICES ASSUME NEW v \in V, NEW i \in 1 .. L PROVE Add(v, i) \in V
      BY Zenon
    <2>1. TableOf(v, N, Seq(Y)) /\ rules[i].selector \in N /\ rules[i].rule \in Y
      BY <1>2, <1>3, Zenon
    <2> HIDE DEF N
    <2>2. AddExternalHTTPRule(v, rules[i]) \in Tables(N, Seq(Y))
      BY <2>1, RuleAdded, Zenon
    <2> QED BY <2>2, Zenon
  <1>5. external \in V
    BY Zenon
  <1> HIDE DEF N, V, Add, L
  <1>6. step \in [(1 .. L) \X V -> V] /\ \A a \in V, i \in 1 .. L : step[<<i, a>>] = Add(a, i)
    <2>1. \A p \in (1 .. L) \X V : Add(p[2], p[1]) \in V
      BY <1>4
    <2> QED BY <2>1
  <1> HIDE DEF step
  <1>7. L \in Nat
    BY Zenon DEF L
  <1>8. PICK f \in [0 .. L -> V] : IsFold(f, L, external, step)
    BY <1>5, <1>6, <1>7, FoldExists, Zenon
  <1>9. f = Body(f)
    <2>1. ASSUME NEW i \in 0 .. L, i # 0 PROVE step[<<i, f[i - 1]>>] = Add(f[i - 1], i)
      <3>1. i \in 1 .. L /\ f[i - 1] \in V
        BY <1>7, <1>8, <2>1
      <3> QED BY <1>6, <3>1, Zenon
    <2>2. [i \in 0 .. L |-> IF i = 0 THEN external ELSE step[<<i, f[i - 1]>>]] = Body(f)
      BY <2>1
    <2> HIDE DEF Body
    <2> QED BY <1>8, <2>2 DEF IsFold
  <1>10. added = Body(added)
    <2> HIDE DEF Body
    <2> QED BY <1>9, Zenon
  <1> HIDE DEF added
  <1>11. added[0] = external /\ \A i \in 1 .. L : added[i] = Add(added[i - 1], i)
    <2>1. \A i \in 0 .. L : added[i] = Body(added)[i]
      <3> HIDE DEF Body
      <3> QED BY <1>10
    <2> QED BY <1>7, <2>1
  <1>12. \A i \in 0 .. L : added[i] \in V
    <2>1. \A i \in 0 .. L : i # 0 /\ added[i - 1] \in V => added[i] \in V
      <3> SUFFICES ASSUME NEW i \in 0 .. L, i # 0, added[i - 1] \in V PROVE added[i] \in V
        OBVIOUS
      <3>1. i \in 1 .. L
        BY <1>7
      <3> QED BY <1>4, <1>11, <3>1
    <2> QED BY <1>5, <1>7, <1>11, <2>1, RecursionTyped
  <1>13. added[L] \in V
    BY <1>7, <1>12
  <1> QED BY <1>1, <1>2, <1>13, Zenon DEF TableOf

-----------------------------------------------------------------------------
(* The methods of a file.                                                  *)

\* A method has bindings, and those its rules ask for.
Kept(m, table) == m[1] \in DOMAIN table /\ Accounted(m, table[m[1]])

LoadSteps(g, f, all) ==
  /\ g[0] = [err |-> "", meths |-> meths] /\ LoadMethods(f) = g[Len(all)]
  /\ \A i \in 1 .. Len(all) : g[i] = LoadMethod(f, g[i - 1], all[i])

\* The table has got the method's bindings, if nothing has failed.
LoadedInto(res, acc, m, new) ==
  /\ res.err = acc.err \/ res.err = new.err
  /\ res.err = "" => acc.err = "" /\ new.err = "" /\ res.meths = Updated(acc.meths, m[1], new.bindings)

LEMMA MethodFields ==
  ASSUME NEW E, NEW T, NEW acc \in [err : E, meths : T]
  PROVE  /\ acc.err \in E /\ acc.meths \in T
         /\ \A e \in E : /\ [acc EXCEPT !.err = e] \in [err : E, meths : T]
                         /\ [acc EXCEPT !.err = e].err = e
         /\ \A t \in T : /\ [acc EXCEPT !.meths = t] \in [err : E, meths : T]
                         /\ [acc EXCEPT !.meths = t].err = acc.err /\ [acc EXCEPT !.meths = t].meths = t
  OBVIOUS

\* A method loaded: an error, or its bindings are in the table.
StepFits(f, acc, m, V) ==
  /\ LoadMethod(f, acc, m) \in V
  /\ LoadedInto(LoadMethod(f, acc, m), acc, m, NewMethod(f, m[1], m[2]))

LEMMA LoadMethodDoes ==
  ASSUME NEW E, NEW N, NEW X, NEW T, Tables(N, X) \subseteq T, \A t \in T : TableOf(t, N, X),
         NEW V, V = [err : E, meths : T], NEW acc \in V, NEW f, NEW m, m[1] \in N,
         NewMethod(f, m[1], m[2]).err \in E, NewMethod(f, m[1], m[2]).bindings \in X
  PROVE  StepFits(f, acc, m, V)
  <1> DEFINE new == NewMethod(f, m[1], m[2])
             res == LoadMethod(f, acc, m)
             b   == new.bindings
             e   == new.err
             t   == Updated(acc.meths, m[1], b)
  <1>1. acc.err \in E /\ acc.meths \in T
    BY MethodFields, Zenon
  <1>2. t \in T
    <2>1. TableOf(acc.meths, N, X) /\ b \in X
      BY <1>1, Zenon
    <2> HIDE DEF b
    <2> QED BY <2>1, UpdatedIsTable, Zenon
  <1>3. e \in E
    BY Zenon
  <1>4. Updated(acc.meths, m[1], new.bindings) = t
    OBVIOUS
  <1>5. \/ acc.err # "" /\ res = acc
        \/ acc.err = "" /\ e # "" /\ res = [acc EXCEPT !.err = e]
        \/ acc.err = "" /\ e = "" /\ res = [acc EXCEPT !.meths = t]
    BY Zenon DEF LoadMethod, AddMethod
  <1> HIDE DEF t, e, res
  <1>6. /\ [acc EXCEPT !.err = e] \in [err : E, meths : T] /\ [acc EXCEPT !.err = e].err = e
        /\ [acc EXCEPT !.meths = t] \in [err : E, meths : T] /\ [acc EXCEPT !.meths = t].meths = t
    BY <1>2, <1>3, MethodFields, Zenon
  <1>7. res \in [err : E, meths : T]
    BY <1>5, <1>6, Zenon
  <1>8. /\ res.err = acc.err \/ res.err = e
        /\ res.err = "" => acc.err = "" /\ e = "" /\ res.meths = t
    <2>1. [acc EXCEPT !.meths = t].err = acc.err
      BY <1>2, MethodFields, Zenon
    <2> QED BY <1>5, <1>6, <2>1, Zenon
  <1> QED BY <1>4, <1>7, <1>8, Zenon DEF e, res, LoadedInto, StepFits

LoadsStepwise(g, f, all) ==
  /\ LoadSteps(g, f, all)
  /\ \A i \in 0 .. Len(all) : DOMAIN g[i].meths \subseteq DOMAIN meths \cup {all[j][1] : j \in 1 .. Len(all)}
  /\ \A i \in 1 .. Len(all) : LoadedInto(g[i], g[i - 1], all[i], NewMethod(f, all[i][1], all[i][2]))

LEMMA LoadUnfolds ==
  ASSUME NEW f, NEW all, MethodsOf(f) = all, Len(all) \in Nat
  PROVE  \E g : LoadsStepwise(g, f, all)
  <1> DEFINE L      == Len(all)
             New(i) == NewMethod(f, all[i][1], all[i][2])
             N      == DOMAIN meths \cup {all[j][1] : j \in 1 .. L}
             E      == {""} \cup {New(i).err : i \in 1 .. L}
             X      == {meths[k] : k \in DOMAIN meths} \cup {New(i).bindings : i \in 1 .. L}
             T      == {meths} \cup Tables(N, X)
             V      == [err : E, meths : T]
             none   == [err |-> "", meths |-> meths]
             Add(a, i) == LoadMethod(f, a, all[i])
             Body(g) == [i \in 0 .. L |-> IF i = 0 THEN none ELSE Add(g[i - 1], i)]
             loaded  == CHOOSE g : g = Body(g)
             step    == [p \in (1 .. L) \X V |-> Add(p[2], p[1])]
  <1>1. LoadMethods(f) = loaded[L]
    BY Zenon DEF LoadMethods
  <1>2. \A t \in T : TableOf(t, N, X)
    <2>1. TableOf(meths, N, X)
      BY Zenon DEF TableOf
    <2>2. \A t \in Tables(N, X) : TableOf(t, N, X)
      BY InTables, Zenon
    <2> QED BY <2>1, <2>2, Zenon
  <1>3. \A i \in 1 .. L : all[i][1] \in N /\ New(i).err \in E /\ New(i).bindings \in X
    BY Zenon
  <1>4. Tables(N, X) \subseteq T /\ meths \in T /\ "" \in E
    BY Zenon
  <1>a. N = DOMAIN meths \cup {all[j][1] : j \in 1 .. Len(all)}
    BY Zenon
  <1>b. \A i : New(i) = NewMethod(f, all[i][1], all[i][2])
    BY Zenon
  <1> HIDE DEF L, New, N, E, X, T
  <1>5. none \in V /\ none.meths = meths
    BY <1>4
  <1>6. \A v \in V, i \in 1 .. L : Add(v, i) \in V /\ LoadedInto(Add(v, i), v, all[i], New(i))
    <2> SUFFICES ASSUME NEW v \in V, NEW i \in 1 .. L
                 PROVE  Add(v, i) \in V /\ LoadedInto(Add(v, i), v, all[i], New(i))
      BY Zenon
    <2> DEFINE m == all[i]
    <2>1. m[1] \in N /\ NewMethod(f, m[1], m[2]).err \in E /\ NewMethod(f, m[1], m[2]).bindings \in X
      BY <1>3, Zenon DEF New
    <2>2. New(i) = NewMethod(f, m[1], m[2]) /\ Add(v, i) = LoadMethod(f, v, m)
      BY Zenon DEF New
    <2> HIDE DEF m
    <2>3. V = [err : E, meths : T]
      BY Zenon
    <2> HIDE DEF V
    <2>4. StepFits(f, v, m, V)
      <3>1. /\ Tables(N, X) \subseteq T /\ (\A t \in T : TableOf(t, N, X)) /\ V = [err : E, meths : T] /\ v \in V
            /\ m[1] \in N /\ NewMethod(f, m[1], m[2]).err \in E /\ NewMethod(f, m[1], m[2]).bindings \in X
        BY <1>2, <1>4, <2>1, <2>3, Zenon
      <3> HIDE DEF step, Body, loaded, Add, none
      <3> QED BY <3>1, LoadMethodDoes, Zenon
    <2> QED BY <2>2, <2>4, Zenon DEF m, V, StepFits
  <1>7. \A v \in V : DOMAIN v.meths \subseteq N
    <2>1. \A v \in V : v.meths \in T
      BY DEF V
    <2> QED BY <1>2, <2>1, Zenon DEF TableOf
  <1>c. \A a, i : Add(a, i) = LoadMethod(f, a, all[i])
    BY Zenon
  <1> HIDE DEF V, Add, none
  <1>8. step \in [(1 .. L) \X V -> V] /\ \A a \in V, i \in 1 .. L : step[<<i, a>>] = Add(a, i)
    <2>1. \A p \in (1 .. L) \X V : Add(p[2], p[1]) \in V
      BY <1>6
    <2> QED BY <2>1
  <1> HIDE DEF step
  <1>9. L \in Nat
    BY Zenon DEF L
  <1>10. PICK g \in [0 .. L -> V] : IsFold(g, L, none, step)
    BY <1>5, <1>8, <1>9, FoldExists, Zenon
  <1>11. g = Body(g)
    <2>1. ASSUME NEW i \in 0 .. L, i # 0 PROVE step[<<i, g[i - 1]>>] = Add(g[i - 1], i)
      <3>1. i \in 1 .. L /\ g[i - 1] \in V
        BY <1>9, <1>10, <2>1
      <3> QED BY <1>8, <3>1, Zenon
    <2>2. [i \in 0 .. L |-> IF i = 0 THEN none ELSE step[<<i, g[i - 1]>>]] = Body(g)
      BY <2>1
    <2> HIDE DEF Body
    <2> QED BY <1>10, <2>2 DEF IsFold
  <1>12. loaded = Body(loaded)
    <2> HIDE DEF Body
    <2> QED BY <1>11, Zenon
  <1> HIDE DEF loaded
  <1>13. loaded[0] = none /\ \A i \in 1 .. L : loaded[i] = Add(loaded[i - 1], i)
    <2>1. \A i \in 0 .. L : loaded[i] = Body(loaded)[i]
      <3> HIDE DEF Body
      <3> QED BY <1>12
    <2> QED BY <1>9, <2>1
  <1>14. \A i \in 0 .. L : loaded[i] \in V
    <2>1. \A i \in 0 .. L : i # 0 /\ loaded[i - 1] \in V => loaded[i] \in V
      <3> SUFFICES ASSUME NEW i \in 0 .. L, i # 0, loaded[i - 1] \in V PROVE loaded[i] \in V
        OBVIOUS
      <3>1. i \in 1 .. L
        BY <1>9
      <3> QED BY <1>6, <1>13, <3>1, Zenon
    <2> QED BY <1>5, <1>9, <1>13, <2>1, RecursionTyped
  <1>15. LoadSteps(loaded, f, all)
    BY <1>1, <1>13, <1>c, Zenon DEF LoadSteps, L, none
  <1>16. \A i \in 0 .. L : DOMAIN loaded[i].meths \subseteq N
    BY <1>7, <1>14, Zenon
  <1>17. ASSUME NEW i \in 1 .. L
         PROVE  LoadedInto(loaded[i], loaded[i - 1], all[i], New(i))
    <2>1. i - 1 \in 0 .. L
      BY <1>9
    <2>2. loaded[i - 1] \in V /\ loaded[i] = Add(loaded[i - 1], i)
      BY <1>13, <1>14, <2>1, Zenon
    <2> QED BY <1>6, <1>17, <2>2, Zenon
  <1>18. LoadsStepwise(loaded, f, all)
    BY <1>15, <1>16, <1>17, <1>a, <1>b, Zenon DEF L, LoadsStepwise
  <1> QED BY <1>18, Zenon

\* A table gets a method's bindings and loses no other method's.
LEMMA UpdatedKeeps ==
  ASSUME NEW t, NEW m, NEW b, Accounted(m, b), NEW k, Kept(k, t) \/ k = m, k[1] = m[1] => k = m
  PROVE  Kept(k, Updated(t, m[1], b))
  <1> DEFINE u == Updated(t, m[1], b)
  <1>1. /\ DOMAIN u = DOMAIN t \cup {m[1]}
        /\ \A x \in DOMAIN u : u[x] = IF x = m[1] THEN b ELSE t[x]
    BY Zenon DEF Updated
  <1> HIDE DEF u
  <1>2. CASE k = m
    <2>1. k[1] \in DOMAIN u
      BY <1>1, <1>2, Zenon
    <2>2. u[k[1]] = b /\ Accounted(k, b)
      BY <1>1, <1>2, <2>1, Zenon
    <2>3. Accounted(k, u[k[1]])
      BY <2>2, Zenon
    <2> QED BY <2>1, <2>3, Zenon DEF Kept, u
  <1>3. CASE k # m
    <2>1. Kept(k, t) /\ k[1] # m[1]
      BY <1>3, Zenon
    <2>2. k[1] \in DOMAIN u
      BY <1>1, <2>1, Zenon DEF Kept
    <2>3. u[k[1]] = t[k[1]]
      BY <1>1, <2>1, <2>2, Zenon
    <2>4. Accounted(k, t[k[1]])
      BY <2>1, Zenon DEF Kept
    <2>5. Accounted(k, u[k[1]])
      BY <2>3, <2>4, Zenon
    <2> QED BY <2>2, <2>5, Zenon DEF Kept, u
  <1> QED BY <1>2, <1>3

\* After a file f is loaded only its methods are new; without an error they
\* have their bindings, and so have those of M loaded before.
LoadKept(f, all, M) ==
  /\ DOMAIN LoadMethods(f).meths \subseteq DOMAIN meths \cup {all[j][1] : j \in 1 .. Len(all)}
  /\ LoadMethods(f).err = "" =>
       \A k \in M : (Kept(k, meths) \/ \E i \in 1 .. Len(all) : k = all[i]) => Kept(k, LoadMethods(f).meths)

LEMMA LoadKeeps ==
  ASSUME NEW f, NEW all, MethodsOf(f) = all, Len(all) \in Nat,
         NEW M, \A i \in 1 .. Len(all) : all[i] \in M, \A k, m \in M : k[1] = m[1] => k = m,
         NEW R, NEW X \in SUBSET R, \A x \in X : x.additional \in Seq(R),
         \A m \in M : RulesFor(m[1]) \in Seq(X) /\ (m[2].rule # NoRule => m[2].rule \in X)
  PROVE  LoadKept(f, all, M)
  <1> DEFINE L      == Len(all)
             New(i) == NewMethod(f, all[i][1], all[i][2])
             names  == DOMAIN meths \cup {all[j][1] : j \in 1 .. L}
  <1>0. PICK g : LoadsStepwise(g, f, all)
    BY LoadUnfolds, Zenon
  <1>1. /\ LoadSteps(g, f, all)
        /\ \A i \in 0 .. L : DOMAIN g[i].meths \subseteq names
        /\ \A i \in 1 .. L : LoadedInto(g[i], g[i - 1], all[i], New(i))
    BY <1>0, Zenon DEF LoadsStepwise
  <1>2. g[0] = [err |-> "", meths |-> meths] /\ LoadMethods(f) = g[L]
    BY <1>1, Zenon DEF LoadSteps
  <1>3. \A i \in 1 .. L : New(i).err = "" => Accounted(all[i], New(i).bindings)
    <2> SUFFICES ASSUME NEW i \in 1 .. L, New(i).err = "" PROVE Accounted(all[i], New(i).bindings)
      BY Zenon
    <2> DEFINE m == all[i]
    <2>1. RulesFor(m[1]) \in Seq(X) /\ (m[2].rule # NoRule => m[2].rule \in X) /\ NewMethod(f, m[1], m[2]).err = ""
      BY Zenon
    <2> HIDE DEF m
    <2>2. Accounted(m, NewMethod(f, m[1], m[2]).bindings)
      BY <2>1, MethodAccounted, Zenon
    <2> QED BY <2>2, Zenon DEF m
  <1>4. L \in Nat
    BY Zenon
  <1> DEFINE G(i) == g[i].err = "" =>
                       \A k \in M : (Kept(k, meths) \/ \E j \in 1 .. i : k = all[j]) => Kept(k, g[i].meths)
             good == {i \in Nat : i <= L => G(i)}
  <1>a. \A i \in 1 .. L : all[i] \in M
    BY Zenon
  <1>b. DOMAIN LoadMethods(f).meths \subseteq DOMAIN meths \cup {all[j][1] : j \in 1 .. Len(all)}
    <2>1. L \in 0 .. L
      BY <1>4
    <2> QED BY <1>1, <1>2, <2>1, Zenon
  <1> HIDE DEF L, New, names
  <1>5. 0 \in good
    <2>1. g[0].meths = meths
      <3>1. [err |-> "", meths |-> meths].meths = meths
        OBVIOUS
      <3> QED BY <1>2, <3>1, Zenon
    <2>2. \A j \in 1 .. 0 : FALSE
      BY NoPlace
    <2>3. G(0)
      BY <2>1, <2>2, Zenon
    <2> HIDE DEF G
    <2> QED BY <2>3
  <1>6. ASSUME NEW i \in Nat, i > 0, i - 1 \in good PROVE i \in good
    <2> SUFFICES ASSUME i <= L PROVE G(i)
      OBVIOUS
    <2>1. i \in 1 .. L /\ i - 1 \in Nat /\ i - 1 <= L
      <3> HIDE DEF G, good
      <3> QED BY <1>4, <1>6
    <2>2. G(i - 1)
      <3> HIDE DEF G
      <3> QED BY <1>6, <2>1
    <2>3. \A j \in 1 .. i : j = i \/ j \in 1 .. i - 1
      BY <2>1
    <2> SUFFICES ASSUME g[i].err = "", NEW k \in M, Kept(k, meths) \/ \E j \in 1 .. i : k = all[j]
                 PROVE  Kept(k, g[i].meths)
      BY Zenon
    <2>4. /\ g[i - 1].err = "" /\ New(i).err = ""
          /\ g[i].meths = Updated(g[i - 1].meths, all[i][1], New(i).bindings)
      BY <1>1, <2>1, Zenon DEF LoadedInto
    <2>5. Kept(k, g[i - 1].meths) \/ k = all[i]
      BY <2>2, <2>3, <2>4, Zenon
    <2>6. Accounted(all[i], New(i).bindings)
      BY <1>3, <2>1, <2>4, Zenon
    <2>7. k[1] = all[i][1] => k = all[i]
      BY <1>a, <2>1, Zenon
    <2> DEFINE t == g[i - 1].meths
               b == New(i).bindings
               m == all[i]
    <2>8. Accounted(m, b) /\ (Kept(k, t) \/ k = m) /\ (k[1] = m[1] => k = m) /\ g[i].meths = Updated(t, m[1], b)
      BY <2>4, <2>5, <2>6, <2>7, Zenon
    <2> HIDE DEF t, b, m
    <2> HIDE DEF G, good
    <2>9. Kept(k, Updated(t, m[1], b))
      BY <2>8, UpdatedKeeps
    <2> QED BY <2>8, <2>9, Zenon
  <1>7. G(L)
    <2> HIDE DEF G
    <2>1. 0 \in Nat /\ L >= 0
      BY <1>4
    <2>2. \A i \in Nat : i >= 0 => i \in good
      <3> HIDE DEF good
      <3> QED BY <1>5, <1>6, <2>1, Climbing
    <2> QED BY <1>4, <2>1, <2>2
  <1> QED BY <1>2, <1>7, <1>b, Zenon DEF L, LoadKept

\* MethodsOf makes a sequence of the methods.
LEMMA MethodsAreSeq ==
  ASSUME NEW i \in Input, NEW f \in ToSet(i.files)
  PROVE  /\ Len(MethodsOf(f)) \in Nat
         /\ ToSet(MethodsOf(f)) = {MethodsOf(f)[k] : k \in 1 .. Len(MethodsOf(f))}
  <1> DEFINE At(s, k) == <<FQMN(f.pkg, <<f.services[s].name>>, f.services[s].methods[k].name), f.services[s].methods[k]>>
             Part(s)  == [k \in DOMAIN f.services[s].methods |-> At(s, k)]
             parts    == [s \in DOMAIN f.services |-> Part(s)]
             Ats(x)   == {At(x, k) : k \in DOMAIN f.services[x].methods}
             S        == UNION {Ats(x) : x \in DOMAIN f.services}
             D        == ToSet(f.services)
             services_ == f.services
  <1>1. MethodsOf(f) = FlattenSeq(parts)
    BY Zenon DEF MethodsOf
  <1>2. services_ \in Seq(D) /\ \A s \in D : s.methods \in Seq(ToSet(s.methods))
    BY FilesAssumption, Zenon
  <1>3. DOMAIN services_ = 1 .. Len(services_) /\ Len(services_) \in Nat /\ \A s \in 1 .. Len(services_) : services_[s] \in D
    <2> HIDE DEF services_, D
    <2> QED BY <1>2
  <1>4. ASSUME NEW s \in DOMAIN services_ PROVE Part(s) \in Seq(S)
    <2> DEFINE ms == f.services[s].methods
               M  == ToSet(ms)
    <2>1. ms \in Seq(M)
      BY <1>2, <1>3, <1>4, Zenon
    <2> HIDE DEF M
    <2>2. DOMAIN ms = 1 .. Len(ms) /\ Len(ms) \in Nat
      BY <2>1, LenProperties
    <2>3. \A k \in DOMAIN ms : At(s, k) \in S
      <3>1. \A k \in DOMAIN ms : At(s, k) \in Ats(s)
        <4> HIDE DEF At
        <4> QED BY Zenon
      <3> HIDE DEF Ats, At
      <3> QED BY <1>4, <3>1, Zenon
    <2>4. Part(s) \in [DOMAIN ms -> S]
      <3> HIDE DEF At, S
      <3> QED BY <2>3, Zenon
    <2> HIDE DEF ms, Part, S
    <2> QED BY <2>2, <2>4, Mapped
  <1> DEFINE Q == Seq(S)
  <1>5. parts \in [DOMAIN services_ -> Q]
    <2> HIDE DEF Part, S
    <2> QED BY <1>4, Zenon
  <1> HIDE DEF parts, services_, Q, S
  <1>6. parts \in Seq(Q)
    BY <1>3, <1>5, Mapped
  <1>7. FlattenSeq(parts) \in Seq(S)
    BY <1>6, FlattenIsSeq DEF Q
  <1> DEFINE all == MethodsOf(f)
  <1>8. all \in Seq(S)
    BY <1>1, <1>7, Zenon
  <1> HIDE DEF all
  <1>9. DOMAIN all = 1 .. Len(all) /\ Len(all) \in Nat
    BY <1>8, LenProperties
  <1>10. ToSet(all) = {all[k] : k \in DOMAIN all}
    BY Zenon DEF ToSet
  <1> QED BY <1>9, <1>10, Zenon DEF all

-----------------------------------------------------------------------------
(* The registry.                                                           *)

MethodsOfFiles == UNION {ToSet(MethodsOf(f)) : f \in ToSet(Files)}

\* The rules there are: external ones, and those of annotations.
YamlRules   == UNION {{r.rule : r \in ToSet(c.rules)} : c \in {x \in input.calls : x.op = "yaml"}}
Annotations == {m[2].rule : m \in {x \in MethodsOfFiles : x[2].rule # NoRule}}
KnownRules  == YamlRules \cup Annotations

FileKept(i) == Files[i].generate => \A m \in ToSet(MethodsOf(Files[i])) : Kept(m, meths)

\* Strengthening of RulesAccounted: the files loaded so far keep what their
\* rules ask for while others are loaded.
RulesKept ==
  /\ input \in Input
  /\ calls \subseteq input.calls
  /\ \A k \in DOMAIN external : external[k] \in Seq(YamlRules)
  /\ next \in Nat \ {0}
  /\ DOMAIN meths \subseteq {m[1] : m \in MethodsOfFiles}
  /\ phase = "services" => \A i \in 1 .. next - 1 : FileKept(i)
  /\ phase = "loaded" => \A i \in 1 .. Len(Files) : FileKept(i)

LEMMA KeptAtFirst == RegistryInit => RulesKept
  <1> SUFFICES ASSUME RegistryInit PROVE RulesKept
    OBVIOUS
  <1>1. /\ phase = "configure" /\ input \in Input /\ calls = input.calls /\ external = <<>> /\ next = 1
        /\ meths = <<>>
    BY Zenon DEF RegistryInit
  <1>2. DOMAIN external = {} /\ DOMAIN meths = {} /\ next \in Nat \ {0}
    BY <1>1
  <1>3. phase # "services" /\ phase # "loaded"
    BY <1>1
  <1> QED BY <1>1, <1>2, <1>3, Zenon DEF RulesKept

\* The rules there are stay the same as long as the input does.
LEMMA SameInput ==
  ASSUME UNCHANGED input
  PROVE  Files' = Files /\ MethodsOfFiles' = MethodsOfFiles /\ YamlRules' = YamlRules
  BY Zenon DEF Files, MethodsOfFiles, YamlRules

\* What a method has does not change with the table of the others ...
LEMMA KeptAfter ==
  ASSUME UNCHANGED <<external, settings>>, NEW t, meths' = t, NEW m, Kept(m, t)
  PROVE  Kept(m, meths)'
  BY Zenon DEF Kept, Accounted, Asked, RulesFor, Answer

\* ... nor with the rest.
LEMMA SameFileKept ==
  ASSUME UNCHANGED <<input, external, settings, meths>>, NEW i, FileKept(i)
  PROVE  FileKept(i)'
  <1>1. Files' = Files
    BY Zenon DEF Files
  <1> SUFFICES ASSUME Files[i].generate, NEW m \in ToSet(MethodsOf(Files[i])) PROVE Kept(m, meths)'
    BY <1>1, Zenon DEF FileKept
  <1>2. Kept(m, meths)
    BY Zenon DEF FileKept
  <1> QED BY <1>2, KeptAfter, Zenon

\* Rules of a configuration are external rules.
LEMMA ConfigureKeepsRules ==
  ASSUME RulesKept, Configure
  PROVE  RulesKept'
  <1>1. phase = "configure" /\ UNCHANGED <<phase, input, next, meths>>
    BY Zenon DEF Configure, loadVars
  <1>2. PICK c \in calls : /\ calls' = calls \ {c}
                           /\ \/ Set(c) \/ SetSeparator(c) \/ SetUseFQN(c) \/ AddPkgMap(c) \/ SetGoTemplateArgs(c)
                              \/ SetVisibilityRestrictionSelectors(c) \/ ReserveGoPackageAlias(c) \/ LoadRules(c)
    BY Zenon DEF Configure
  <1>3. Files' = Files /\ MethodsOfFiles' = MethodsOfFiles /\ YamlRules' = YamlRules
    BY <1>1, SameInput, Zenon
  <1>4. \A k \in DOMAIN external : external[k] \in Seq(YamlRules)
    BY Zenon DEF RulesKept
  <1>5. \A k \in DOMAIN external' : external'[k] \in Seq(YamlRules)
    <2>1. CASE LoadRules(c)
      <3>1. c.op = "yaml" /\ external' = AddRules(c.rules) /\ c \in input.calls
        BY <1>2, <2>1, Zenon DEF LoadRules, RulesKept
      <3>2. c.rules \in Seq(ToSet(c.rules))
        BY <3>1, MethodsAssumption, Zenon DEF RulesKept
      <3> DEFINE rules == c.rules
                 D     == ToSet(rules)
      <3>3. rules \in Seq(D)
        BY <3>2, Zenon
      <3>4. \A r \in D : r.rule \in YamlRules
        <4> DEFINE Of(x) == {r.rule : r \in ToSet(x.rules)}
        <4>1. \A r \in D : r.rule \in Of(c)
          BY Zenon
        <4>2. c \in {x \in input.calls : x.op = "yaml"}
          BY <3>1, Zenon
        <4>3. YamlRules = UNION {Of(x) : x \in {y \in input.calls : y.op = "yaml"}}
          BY Zenon DEF YamlRules
        <4> HIDE DEF Of
        <4> QED BY <4>1, <4>2, <4>3, Zenon
      <3> HIDE DEF rules, D
      <3>5. Len(rules) \in Nat /\ \A i \in 1 .. Len(rules) : rules[i] \in D
        BY <3>3
      <3>6. \A k \in DOMAIN AddRules(rules) : AddRules(rules)[k] \in Seq(YamlRules)
        BY <1>4, <3>4, <3>5, RulesAdded, Zenon
      <3> QED BY <3>1, <3>6, Zenon DEF rules
    <2>2. CASE ~ LoadRules(c)
      <3>1. external' = external
        BY <1>2, <2>2, Zenon DEF Set, SetSeparator, SetUseFQN, AddPkgMap, SetGoTemplateArgs,
                                 SetVisibilityRestrictionSelectors, ReserveGoPackageAlias
      <3> QED BY <1>4, <3>1, Zenon
    <2> QED BY <2>1, <2>2
  <1>6. phase' # "services" /\ phase' # "loaded"
    BY <1>1
  <1>7. calls' \subseteq input'.calls
    BY <1>1, <1>2, Zenon DEF RulesKept
  <1> QED BY <1>1, <1>3, <1>5, <1>6, <1>7, Zenon DEF RulesKept

\* Every step but these leaves what the methods have as it is.
LEMMA OthersKeepRules ==
  ASSUME RulesKept,
         Load \/ LoadFile \/ FilesLoaded \/ ServicesLoaded \/ CheckDuplicateAnnotation \/ RegisterOpenAPIOptions
         \/ UNCHANGED registryVars
  PROVE  RulesKept'
  <1>1. UNCHANGED <<input, external, settings, meths, calls>>
    BY Zenon DEF Load, LoadFile, FilesLoaded, ServicesLoaded, CheckDuplicateAnnotation,
                 RegisterOpenAPIOptions, registryVars, configVars, loadVars
  <1>2. Files' = Files /\ MethodsOfFiles' = MethodsOfFiles /\ YamlRules' = YamlRules
    BY <1>1, SameInput, Zenon
  <1>3. \A i : FileKept(i) => FileKept(i)'
    BY <1>1, SameFileKept, Zenon
  <1>4. next \in Nat \ {0} /\ (next' = next \/ next' = next + 1 \/ next' = 1)
    BY DEF RulesKept, Load, LoadFile, FilesLoaded, ServicesLoaded, CheckDuplicateAnnotation,
           RegisterOpenAPIOptions, registryVars, configVars, loadVars
  <1>5. next' \in Nat \ {0}
    BY <1>4
  <1>6. ASSUME phase' = "services" PROVE next' = 1 \/ (phase = "services" /\ next' = next)
    BY <1>6 DEF Load, LoadFile, FilesLoaded, ServicesLoaded, CheckDuplicateAnnotation,
           RegisterOpenAPIOptions, registryVars, configVars, loadVars
  <1>7. ASSUME phase' = "loaded" PROVE phase = "loaded" \/ (phase = "services" /\ next > Len(Files))
    BY <1>7 DEF Load, LoadFile, FilesLoaded, ServicesLoaded, CheckDuplicateAnnotation,
           RegisterOpenAPIOptions, registryVars, configVars, loadVars
  <1>8. phase' = "services" => \A i \in 1 .. next' - 1 : FileKept(i)'
    <2>1. \A i \in 1 .. 1 - 1 : FALSE
      OBVIOUS
    <2> QED BY <1>3, <1>6, <2>1, Zenon DEF RulesKept
  <1>9. phase' = "loaded" => \A i \in 1 .. Len(Files') : FileKept(i)'
    <2>1. Len(Files) \in Nat
      <3> DEFINE D == ToSet(Files)
      <3>1. Files \in Seq(D)
        BY FilesAssumption, Zenon DEF RulesKept, Files
      <3> HIDE DEF D
      <3> QED BY <3>1
    <2>2. next > Len(Files) => \A i \in 1 .. Len(Files) : i \in 1 .. next - 1
      BY <1>4, <2>1
    <2> QED BY <1>2, <1>3, <1>7, <2>2, Zenon DEF RulesKept
  <1> QED BY <1>1, <1>2, <1>5, <1>8, <1>9, Zenon DEF RulesKept

\* A file's methods get their bindings, and the files before keep theirs.
LEMMA InSequence ==
  ASSUME NEW D, NEW s \in Seq(D), NEW n \in Nat \ {0}, n <= Len(s)
  PROVE  n \in 1 .. Len(s) /\ s[n] \in D
  OBVIOUS

LEMMA PositiveNext == ASSUME NEW n \in Nat \ {0} PROVE n + 1 \in Nat \ {0}
  OBVIOUS

LEMMA LoadServicesKeeps ==
  ASSUME RulesKept, LoadServices
  PROVE  RulesKept'
  <1> DEFINE f   == Files[next]
             res == LoadMethods(f)
             all == MethodsOf(f)
             D   == ToSet(Files)
             M   == MethodsOfFiles
  <1>1. /\ phase = "services" /\ next <= Len(Files)
        /\ UNCHANGED <<input, calls, external, settings>>
        /\ \/ ~ f.generate /\ next' = next + 1 /\ UNCHANGED <<phase, meths>>
           \/ /\ f.generate /\ meths' = res.meths
              /\ \/ res.err # "" /\ phase' = "failed" /\ UNCHANGED next
                 \/ res.err = "" /\ next' = next + 1 /\ UNCHANGED phase
    BY Zenon DEF LoadServices, configVars
  <1>2. Files' = Files /\ MethodsOfFiles' = MethodsOfFiles /\ YamlRules' = YamlRules
    BY <1>1, SameInput, Zenon
  <1>3. next \in Nat \ {0} /\ next \in 1 .. Len(Files) /\ f \in D
    <2>1. Files \in Seq(D)
      BY FilesAssumption, Zenon DEF RulesKept, Files
    <2>2. next \in Nat \ {0} /\ next <= Len(Files)
      BY <1>1, Zenon DEF RulesKept
    <2>3. \A n \in Nat \ {0} : n <= Len(Files) => n \in 1 .. Len(Files) /\ Files[n] \in D
      BY <2>1, InSequence, Zenon
    <2> QED BY <2>2, <2>3, Zenon
  <1>4. next' \in Nat \ {0}
    <2>1. next' = next \/ next' = next + 1
      BY <1>1, Zenon
    <2>2. next \in Nat \ {0}
      BY <1>3, Zenon
    <2>3. \A n \in Nat \ {0} : n + 1 \in Nat \ {0}
      BY PositiveNext, Zenon
    <2> QED BY <2>1, <2>2, <2>3, Zenon
  <1>5. Len(all) \in Nat /\ ToSet(all) = {all[k] : k \in 1 .. Len(all)}
    BY <1>3, MethodsAreSeq, Zenon DEF RulesKept, Files
  <1>6. /\ \A i \in 1 .. Len(all) : all[i] \in M
        /\ \A i \in 1 .. next - 1 : \A m \in ToSet(MethodsOf(Files[i])) : m \in M
    <2>1. \A g \in D : \A m \in ToSet(MethodsOf(g)) : m \in M
      BY Zenon DEF MethodsOfFiles
    <2>2. \A i \in 1 .. next - 1 : Files[i] \in D
      <3>1. Files \in Seq(D)
        BY FilesAssumption, Zenon DEF RulesKept, Files
      <3> HIDE DEF D, f, res, all, M
      <3>2. \A i \in 1 .. next - 1 : i \in 1 .. Len(Files)
        BY <1>3, <3>1
      <3> QED BY <3>1, <3>2
    <2>3. \A i \in 1 .. Len(all) : all[i] \in ToSet(all)
      BY <1>5, Zenon
    <2> QED BY <1>3, <2>1, <2>2, <2>3, Zenon
  <1>7. \A k, m \in M : k[1] = m[1] => k = m
    <2> SUFFICES ASSUME NEW k \in M, NEW m \in M, k[1] = m[1] PROVE k = m
      BY Zenon
    <2>1. PICK g \in D : k \in ToSet(MethodsOf(g))
      BY Zenon DEF MethodsOfFiles
    <2>2. PICK h \in D : m \in ToSet(MethodsOf(h))
      BY Zenon DEF MethodsOfFiles
    <2> QED BY <2>1, <2>2, MethodsAssumption, Zenon DEF RulesKept, Files
  <1> DEFINE X == KnownRules
             R == X \cup UNION {ToSet(x.additional) : x \in X}
  <1>8. \A x \in X : x.additional \in Seq(R)
    <2> SUFFICES ASSUME NEW x \in X PROVE x.additional \in Seq(R)
      BY Zenon
    <2>1. IsRule(x)
      <3>1. CASE x \in YamlRules
        <4>1. PICK c \in input.calls : c.op = "yaml" /\ x \in {r.rule : r \in ToSet(c.rules)}
          BY <3>1, Zenon DEF YamlRules
        <4> QED BY <4>1, MethodsAssumption, Zenon DEF RulesKept
      <3>2. CASE x \in Annotations
        <4>1. PICK m \in M : m[2].rule # NoRule /\ x = m[2].rule
          BY <3>2, Zenon DEF Annotations
        <4>2. PICK g \in D : m \in ToSet(MethodsOf(g))
          BY Zenon DEF MethodsOfFiles
        <4> QED BY <4>1, <4>2, MethodsAssumption, Zenon DEF RulesKept, Files
      <3> QED BY <3>1, <3>2, Zenon DEF KnownRules
    <2> DEFINE A == ToSet(x.additional)
    <2>2. x.additional \in Seq(A)
      BY <2>1, Zenon DEF IsRule
    <2>3. A \subseteq R
      BY Zenon
    <2> HIDE DEF A, R
    <2> QED BY <2>2, <2>3
  <1>9. X \in SUBSET R
    BY Zenon
  <1>10. \A m \in M : RulesFor(m[1]) \in Seq(X) /\ (m[2].rule # NoRule => m[2].rule \in X)
    <2>1. \A m \in M : RulesFor(m[1]) \in Seq(YamlRules)
      <3>1. TableOf(external, DOMAIN external, Seq(YamlRules))
        BY Zenon DEF TableOf, RulesKept
      <3> QED BY <3>1, RulesInTyped, Zenon DEF RulesFor
    <2>2. \A s \in Seq(YamlRules) : s \in Seq(X)
      <3>1. YamlRules \subseteq X
        BY Zenon DEF KnownRules
      <3> HIDE DEF X
      <3> QED BY <3>1
    <2>3. \A m \in M : m[2].rule # NoRule => m[2].rule \in X
      <3>1. \A m \in M : m[2].rule # NoRule => m[2].rule \in Annotations
        BY Zenon DEF Annotations
      <3> QED BY <3>1, Zenon DEF KnownRules
    <2> QED BY <2>1, <2>2, <2>3, Zenon
  <1> HIDE DEF X, R, M, D, all, res
  <1>11. /\ DOMAIN res.meths \subseteq DOMAIN meths \cup {all[j][1] : j \in 1 .. Len(all)}
         /\ res.err = "" =>
              \A k \in M : (Kept(k, meths) \/ \E i \in 1 .. Len(all) : k = all[i]) => Kept(k, res.meths)
    <2>1. MethodsOf(f) = all /\ LoadMethods(f) = res
      BY Zenon DEF all, res
    <2>2. LoadKept(f, all, M)
      BY <1>5, <1>6, <1>7, <1>8, <1>9, <1>10, <2>1, LoadKeeps, Zenon
    <2> QED BY <2>1, <2>2, Zenon DEF LoadKept
  <1>12. DOMAIN meths' \subseteq {m[1] : m \in MethodsOfFiles'}
    <2>1. DOMAIN meths \subseteq {m[1] : m \in M}
      BY Zenon DEF RulesKept, M
    <2>2. \A j \in 1 .. Len(all) : all[j][1] \in {m[1] : m \in M}
      BY <1>6, Zenon
    <2>3. DOMAIN res.meths \subseteq {m[1] : m \in M}
      BY <1>11, <2>1, <2>2, Zenon
    <2>4. meths' = meths \/ meths' = res.meths
      BY <1>1, Zenon
    <2> QED BY <1>2, <2>1, <2>3, <2>4, Zenon DEF M
  <1>13. ASSUME phase' = "services", NEW i \in 1 .. next' - 1 PROVE FileKept(i)'
    <2>1. next' = next + 1
      <3>1. phase' # "failed"
        BY <1>13
      <3> QED BY <1>1, <3>1, Zenon
    <2>2. i \in 1 .. next - 1 \/ i = next
      BY <1>3, <1>13, <2>1
    <2>3. i \in 1 .. next - 1 => FileKept(i)
      BY <1>1, Zenon DEF RulesKept
    <2>4. CASE ~ f.generate
      <3>1. UNCHANGED meths
        BY <1>1, <2>4, Zenon
      <3>2. i = next => FileKept(i)
        BY <2>4, Zenon DEF FileKept
      <3> QED BY <1>1, <2>2, <2>3, <3>1, <3>2, SameFileKept, Zenon
    <2>5. CASE f.generate
      <3>1. meths' = res.meths /\ res.err = ""
        <4>1. phase' # "failed"
          BY <1>13
        <4> QED BY <1>1, <2>5, <4>1, Zenon
      <3> SUFFICES ASSUME Files[i].generate, NEW m \in ToSet(MethodsOf(Files[i])) PROVE Kept(m, meths)'
        BY <1>2, Zenon DEF FileKept
      <3>2. m \in M /\ (Kept(m, meths) \/ \E k \in 1 .. Len(all) : m = all[k])
        <4>1. CASE i \in 1 .. next - 1
          BY <1>6, <2>3, <4>1, Zenon DEF FileKept
        <4>2. CASE i = next
          <5>1. m \in ToSet(all)
            BY <4>2, Zenon DEF all
          <5>2. PICK k \in 1 .. Len(all) : m = all[k]
            BY <1>5, <5>1, Zenon
          <5> QED BY <1>6, <5>2, Zenon
        <4> QED BY <2>2, <4>1, <4>2
      <3>3. Kept(m, res.meths)
        BY <1>11, <3>1, <3>2, Zenon
      <3> QED BY <1>1, <3>1, <3>3, KeptAfter, Zenon
    <2> QED BY <2>4, <2>5
  <1>14. phase' # "loaded"
    <2>1. phase' = "failed" \/ phase' = "services"
      BY <1>1, Zenon
    <2> QED BY <2>1
  <1> QED BY <1>1, <1>2, <1>4, <1>12, <1>13, <1>14, Zenon DEF RulesKept

LEMMA RulesAlwaysKept == RegistrySpec => []RulesKept
  <1>1. RulesKept /\ [RegistryNext]_registryVars => RulesKept'
    BY ConfigureKeepsRules, OthersKeepRules, LoadServicesKeeps, Zenon DEF RegistryNext
  <1> QED BY <1>1, KeptAtFirst, PTL DEF RegistrySpec

LEMMA KeptIsAccounted == RulesKept => RulesAccounted
  <1> SUFFICES ASSUME RulesKept, phase = "loaded"
               PROVE  /\ UnboundExternalHTTPRules \cap DOMAIN meths = {}
                      /\ \A m \in GeneratedMethods : m[1] \in DOMAIN meths /\ Accounted(m, meths[m[1]])
    BY Zenon DEF RulesAccounted
  <1>1. UnboundExternalHTTPRules \cap DOMAIN meths = {}
    <2> DEFINE Named(f) == {m[1] : m \in ToSet(MethodsOf(f))}
    <2>1. \A x \in {m[1] : m \in MethodsOfFiles} : x \in UNION {Named(f) : f \in ToSet(Files)}
      BY DEF MethodsOfFiles
    <2>2. UnboundExternalHTTPRules = DOMAIN external \ UNION {Named(f) : f \in ToSet(Files)}
      BY Zenon DEF UnboundExternalHTTPRules
    <2> HIDE DEF Named
    <2> QED BY <2>1, <2>2, Zenon DEF RulesKept
  <1>2. ASSUME NEW m \in GeneratedMethods PROVE Kept(m, meths)
    <2>1. PICK f \in ToSet(Files) : f.generate /\ m \in ToSet(MethodsOf(f))
      BY <1>2, Zenon DEF GeneratedMethods
    <2>2. PICK i \in DOMAIN Files : f = Files[i]
      BY <2>1, Zenon DEF ToSet
    <2>3. DOMAIN Files = 1 .. Len(Files)
      <3> DEFINE D == ToSet(Files)
      <3>1. Files \in Seq(D)
        BY FilesAssumption, Zenon DEF RulesKept, Files
      <3> HIDE DEF D
      <3> QED BY <3>1, LenProperties
    <2> QED BY <2>1, <2>2, <2>3, Zenon DEF RulesKept, FileKept
  <1> QED BY <1>1, <1>2, Zenon DEF Kept

\* No rule is lost: whatever files there are and whatever is configured, after
\* a load each rule of a method that is generated has its binding, external
\* ones before the annotation, numbered in that order, and none that is
\* reported unbound has bindings.  About loadServices, newMethod and
\* UnboundExternalHTTPRules.
THEOREM RulesAlwaysAccounted == RegistrySpec => []RulesAccounted
  BY RulesAlwaysKept, KeptIsAccounted, PTL

-----------------------------------------------------------------------------
(* Names and the scopes they are looked up in.                              *)

LEMMA InnermostScope ==
  ASSUME NEW n \in Nat, NEW S \in SUBSET (0 .. n), S # {}
  PROVE  \E i \in S : \A j \in S : j <= i
  <1> DEFINE T == {n - i : i \in S}
  <1>1. T \in SUBSET Nat /\ T # {}
    <2>1. \A i \in S : i \in 0 .. n
      OBVIOUS
    <2>2. \A i \in S : n - i \in Nat
      BY <2>1
    <2> QED BY <2>2, Zenon
  <1>2. PICK x \in T : \A y \in T : x <= y
    BY <1>1, LeastElement
  <1>3. PICK i \in S : x = n - i
    OBVIOUS
  <1>4. \A j \in S : j <= i
    <2> SUFFICES ASSUME NEW j \in S PROVE j <= i
      OBVIOUS
    <2>1. x <= n - j
      BY <1>2
    <2> QED BY <1>3, <2>1
  <1> QED BY <1>4

LEMMA NoPrefix ==
  ASSUME NEW S, NEW s \in Seq(S), NEW t \in Seq(S)
  PROVE  SubSeq(s, 1, 0) \o t = t
  <1>1. SubSeq(s, 1, 0) = <<>>
    OBVIOUS
  <1> QED BY <1>1, ConcatEmptySeq

\* A name is found if there is a scope that has it.
LEMMA LookupFinds ==
  ASSUME NEW known, <<>> \notin known, NEW location \in Word, NEW name, IsTypeName(name)
  PROVE  /\ LookupName(known, location, name) # NotFound <=> ResolvableIn(known, location, name)
         /\ LookupName(known, location, name) # NotFound => LookupName(known, location, name) \in known
  <1> DEFINE Scope(i)  == SubSeq(location, 1, i) \o name.parts
             scopes == {i \in 0 .. Len(location) : Scope(i) \in known}
             found  == LookupName(known, location, name)
  <1>1. location \in Seq(STRING) /\ name.parts \in Seq(STRING) /\ Len(location) \in Nat
    BY DEF Word, IsTypeName
  <1>2. Scope(0) = name.parts
    BY <1>1, NoPrefix, Zenon
  <1>3. CASE name.abs
    <2>1. found = IF name.parts \in known THEN name.parts ELSE NotFound
      BY <1>3, Zenon DEF LookupName
    <2>2. ResolvableIn(known, location, name) <=> \E i \in 0 .. Len(location) : i = 0 /\ Scope(i) \in known
      BY <1>3, Zenon DEF ResolvableIn
    <2>3. 0 \in 0 .. Len(location)
      <3> DEFINE n == Len(location)
      <3>1. n \in Nat
        BY <1>1, Zenon
      <3> HIDE DEF n
      <3>2. 0 \in 0 .. n
        BY <3>1
      <3> QED BY <3>2 DEF n
    <2>4. ResolvableIn(known, location, name) <=> name.parts \in known
      BY <1>2, <2>2, <2>3, Zenon
    <2>5. NotFound = <<>>
      BY Zenon DEF NotFound
    <2> HIDE DEF found
    <2> QED BY <2>1, <2>4, <2>5, Zenon DEF found
  <1>4. CASE ~ name.abs
    <2>1. found = IF scopes = {} THEN NotFound ELSE Scope(CHOOSE i \in scopes : \A j \in scopes : j <= i)
      BY <1>4, Zenon DEF LookupName
    <2>2. ResolvableIn(known, location, name) <=> scopes # {}
      BY <1>4, Zenon DEF ResolvableIn
    <2>3. scopes # {} => \E i \in scopes : \A j \in scopes : j <= i
      <3> DEFINE n == Len(location)
                 S == scopes
      <3>1. n \in Nat /\ S \in SUBSET (0 .. n)
        BY <1>1, Zenon
      <3> HIDE DEF n, S
      <3> QED BY <3>1, InnermostScope, Zenon DEF S
    <2>4. scopes # {} => found \in known
      <3> SUFFICES ASSUME scopes # {} PROVE found \in known
        BY Zenon
      <3> DEFINE last == CHOOSE i \in scopes : \A j \in scopes : j <= i
      <3>1. last \in scopes
        BY <2>3, Zenon
      <3>2. Scope(last) \in known
        BY <3>1, Zenon
      <3> QED BY <2>1, <3>2, Zenon
    <2>5. NotFound = <<>>
      BY Zenon DEF NotFound
    <2>6. scopes = {} => found = NotFound
      BY <2>1, Zenon
    <2> HIDE DEF found, scopes
    <2> QED BY <2>2, <2>4, <2>5, <2>6, Zenon DEF found
  <1>5. name.abs \/ ~ name.abs
    BY Zenon
  <1> QED BY <1>3, <1>4, <1>5, Zenon

-----------------------------------------------------------------------------
(* Field paths.                                                            *)

\* A table of messages under their names.
IsTable(M) == \A n \in DOMAIN M : n \in Word /\ n # <<>> /\ IsDeclaration(M[n])

\* A field of some message has a message for its type that is not there.
MissingIn(M) ==
  \E n \in DOMAIN M : \E f \in ToSet(M[n].fields) : IsAggregate(f) /\ ~ResolvableIn(DOMAIN M, n, f.type)

Steps(M, N) ==
  {s \in [name : N, field : UNION {ToSet(M[n].fields) : n \in DOMAIN M}, msg : DOMAIN M] :
     s.field \in ToSet(M[s.msg].fields)}
PathErrors == {"", "not aggregate", "missing", "no field", "optional"}
Paths(M, N) ==
  {r \in [err : PathErrors, path : Seq(Steps(M, N))] : r.err = "missing" => MissingIn(M)}

LEMMA FirstIsNamed ==
  ASSUME NEW m, m.fields \in Seq(ToSet(m.fields)), NEW name, FieldsNamed(m, name) # {}
  PROVE  FirstNamed(m, name) \in ToSet(m.fields)
  <1> DEFINE F == ToSet(m.fields)
             s == m.fields
             S == FieldsNamed(m, name)
             i == CHOOSE k \in S : \A j \in S : k <= j
  <1>1. s \in Seq(F)
    BY Zenon
  <1> HIDE DEF s, F
  <1>2. DOMAIN s \subseteq Nat /\ \A k \in DOMAIN s : s[k] \in F
    BY <1>1
  <1>3. S \subseteq DOMAIN s
    BY Zenon DEF FieldsNamed, s
  <1> HIDE DEF S
  <1>4. S # {} /\ S \in SUBSET Nat
    BY <1>2, <1>3 DEF S
  <1>5. \E k \in S : \A j \in S : k <= j
    BY <1>4, LeastElement
  <1>6. i \in S
    BY <1>5, Zenon
  <1>7. FirstNamed(m, name) = s[i]
    BY Zenon DEF FirstNamed, S, s
  <1> QED BY <1>2, <1>3, <1>6, <1>7, Zenon DEF F, s

LEMMA PathFields ==
  ASSUME NEW E, NEW S, NEW acc \in [err : E, path : Seq(S)]
  PROVE  /\ acc.err \in E /\ acc.path \in Seq(S)
         /\ \A e \in E : /\ [acc EXCEPT !.err = e] \in [err : E, path : Seq(S)]
                         /\ [acc EXCEPT !.err = e].err = e
         /\ \A b \in S : /\ [acc EXCEPT !.path = Append(@, b)] \in [err : E, path : Seq(S)]
                         /\ [acc EXCEPT !.path = Append(@, b)].err = acc.err
  <1>1. acc.err \in E /\ acc.path \in Seq(S)
    OBVIOUS
  <1>2. ASSUME NEW e \in E
        PROVE  [acc EXCEPT !.err = e] \in [err : E, path : Seq(S)] /\ [acc EXCEPT !.err = e].err = e
    OBVIOUS
  <1>3. ASSUME NEW b \in S
        PROVE  /\ [acc EXCEPT !.path = Append(@, b)] \in [err : E, path : Seq(S)]
               /\ [acc EXCEPT !.path = Append(@, b)].err = acc.err
    <2> DEFINE s == Append(acc.path, b)
               T == Seq(S)
    <2>1. s \in T
      BY <1>1
    <2>2. acc \in [err : E, path : T]
      OBVIOUS
    <2> HIDE DEF s, T
    <2>3. /\ [acc EXCEPT !.path = s] \in [err : E, path : T]
          /\ [acc EXCEPT !.path = s].err = acc.err
      BY <2>1, <2>2
    <2> QED BY <2>3 DEF s, T
  <1> QED BY <1>1, <1>2, <1>3, Zenon

LEMMA LastStep ==
  ASSUME NEW S, NEW path \in Seq(S), path # <<>>
  PROVE  Last(path) \in S
  BY DEF Last

\* The table's names are those of its messages: what is not found there is not
\* declared.
LEMMA TypeFound ==
  ASSUME NEW M, IsTable(M), NEW n \in DOMAIN M, NEW f \in ToSet(M[n].fields)
  PROVE  /\ LookupName(DOMAIN M, n, f.type) # NotFound => LookupName(DOMAIN M, n, f.type) \in DOMAIN M
         /\ LookupName(DOMAIN M, n, f.type) = NotFound /\ IsAggregate(f) => MissingIn(M)
  <1>1. n \in Word /\ IsTypeName(f.type) /\ <<>> \notin DOMAIN M
    BY Zenon DEF IsTable, IsDeclaration
  <1>2. /\ LookupName(DOMAIN M, n, f.type) # NotFound <=> ResolvableIn(DOMAIN M, n, f.type)
        /\ LookupName(DOMAIN M, n, f.type) # NotFound => LookupName(DOMAIN M, n, f.type) \in DOMAIN M
    BY <1>1, LookupFinds, Zenon
  <1> QED BY <1>2, Zenon DEF MissingIn

LEMMA NextFieldBlames ==
  ASSUME NEW M, IsTable(M), NEW root \in DOMAIN M, NEW N, NEW name \in N, NEW use, NEW acc \in Paths(M, N)
  PROVE  NextField(M, root, acc, name, use) \in Paths(M, N)
  <1> DEFINE fqn   == NextMessage(M, root, acc.path)
             field == FirstNamed(M[fqn], name)
             step  == [name |-> name, field |-> field, msg |-> fqn]
             S     == Steps(M, N)
             res   == NextField(M, root, acc, name, use)
  <1>1. \/ res = acc
        \/ res = [acc EXCEPT !.err = "not aggregate"]
        \/ /\ fqn = NotFound /\ res = [acc EXCEPT !.err = "missing"]
           /\ ~ (acc.path # <<>> /\ ~IsAggregate(Last(acc.path).field))
        \/ res = [acc EXCEPT !.err = "no field"]
        \/ res = [acc EXCEPT !.err = "optional"]
        \/ /\ fqn # NotFound /\ FieldsNamed(M[fqn], name) # {} /\ acc.err = ""
           /\ res = [acc EXCEPT !.path = Append(@, step)]
    BY Zenon DEF NextField
  <1>2. acc \in [err : PathErrors, path : Seq(S)] /\ (acc.err = "missing" => MissingIn(M))
    BY Zenon DEF Paths
  <1>3. PathErrors = {"", "not aggregate", "missing", "no field", "optional"}
    BY Zenon DEF PathErrors
  <1>4. root # <<>>
    BY Zenon DEF IsTable
  <1> DEFINE last == Last(acc.path)
  <1>5. acc.path # <<>> => last \in S /\ last.msg \in DOMAIN M /\ last.field \in ToSet(M[last.msg].fields)
    <2> SUFFICES ASSUME acc.path # <<>>
                 PROVE  last \in S /\ last.msg \in DOMAIN M /\ last.field \in ToSet(M[last.msg].fields)
      BY Zenon
    <2> DEFINE path == acc.path
    <2>1. path \in Seq(S)
      BY <1>2, PathFields, Zenon
    <2> HIDE DEF path, S
    <2>2. Last(path) \in S
      BY <2>1, LastStep, Zenon DEF path
    <2>3. \A s \in S : s.msg \in DOMAIN M /\ s.field \in ToSet(M[s.msg].fields)
      BY DEF S, Steps
    <2> QED BY <2>2, <2>3, Zenon DEF path
  <1>6. fqn # NotFound => fqn \in DOMAIN M
    BY <1>5, TypeFound, Zenon DEF NextMessage
  <1>7. fqn = NotFound /\ ~ (acc.path # <<>> /\ ~IsAggregate(Last(acc.path).field)) => MissingIn(M)
    <2>1. NotFound = <<>>
      BY Zenon DEF NotFound
    <2> QED BY <1>4, <1>5, <2>1, TypeFound, Zenon DEF NextMessage
  <1>8. fqn # NotFound /\ FieldsNamed(M[fqn], name) # {} => step \in S
    <2> SUFFICES ASSUME fqn # NotFound, FieldsNamed(M[fqn], name) # {} PROVE step \in S
      BY Zenon
    <2>1. M[fqn].fields \in Seq(ToSet(M[fqn].fields))
      BY <1>6, Zenon DEF IsTable, IsDeclaration
    <2>2. field \in ToSet(M[fqn].fields)
      BY <2>1, FirstIsNamed, Zenon
    <2>3. field \in UNION {ToSet(M[n].fields) : n \in DOMAIN M} /\ fqn \in DOMAIN M
      BY <1>6, <2>2, Zenon
    <2> HIDE DEF field, fqn
    <2> QED BY <2>2, <2>3 DEF Steps
  <1> HIDE DEF res, step, S, fqn
  <1>9. \A e \in PathErrors : /\ [acc EXCEPT !.err = e] \in [err : PathErrors, path : Seq(S)]
                              /\ [acc EXCEPT !.err = e].err = e
    BY <1>2, PathFields, Zenon
  <1>10. \A e \in PathErrors : (e = "missing" => MissingIn(M)) => [acc EXCEPT !.err = e] \in Paths(M, N)
    BY <1>9, Zenon DEF Paths, S
  <1>11. "not aggregate" # "missing" /\ "no field" # "missing" /\ "optional" # "missing"
         /\ "" # "missing"
    OBVIOUS
  <1>12. step \in S /\ acc.err = "" => [acc EXCEPT !.path = Append(@, step)] \in Paths(M, N)
    <2> SUFFICES ASSUME step \in S, acc.err = "" PROVE [acc EXCEPT !.path = Append(@, step)] \in Paths(M, N)
      BY Zenon
    <2>1. /\ [acc EXCEPT !.path = Append(@, step)] \in [err : PathErrors, path : Seq(S)]
          /\ [acc EXCEPT !.path = Append(@, step)].err = acc.err
      BY <1>2, PathFields, Zenon
    <2> QED BY <1>11, <2>1, Zenon DEF Paths, S
  <1> QED BY <1>1, <1>3, <1>7, <1>8, <1>10, <1>11, <1>12, Zenon DEF res

LEMMA ResolveBlames ==
  ASSUME NEW M, IsTable(M), NEW root \in DOMAIN M, NEW N, NEW names \in Seq(N), NEW use
  PROVE  ResolveFieldPath(M, root, names, use) \in Paths(M, N)
  <1> DEFINE L       == Len(names)
             V       == Paths(M, N)
             none    == [err |-> "", path |-> <<>>]
             Add(a, i) == NextField(M, root, a, names[i], use)
             Body(f) == [i \in 0 .. L |-> IF i = 0 THEN none ELSE Add(f[i - 1], i)]
             resolved == CHOOSE f : f = Body(f)
             step    == [p \in (1 .. L) \X V |-> Add(p[2], p[1])]
  <1>1. ResolveFieldPath(M, root, names, use) = resolved[L]
    BY Zenon DEF ResolveFieldPath
  <1>2. L \in Nat /\ \A i \in 1 .. L : names[i] \in N
    OBVIOUS
  <1>3. none \in V
    <2> DEFINE S == Steps(M, N)
    <2>1. "" \in PathErrors /\ <<>> \in Seq(S)
      BY EmptySeq DEF PathErrors
    <2> DEFINE T == Seq(S)
    <2> HIDE DEF S, T
    <2>2. none \in [err : PathErrors, path : T] /\ none.err # "missing"
      BY <2>1 DEF T
    <2> QED BY <2>2, Zenon DEF Paths, S, T
  <1>4. \A a \in V, i \in 1 .. L : Add(a, i) \in V
    BY <1>2, NextFieldBlames, Zenon
  <1> HIDE DEF Add, V, L, none
  <1>5. step \in [(1 .. L) \X V -> V] /\ \A a \in V, i \in 1 .. L : step[<<i, a>>] = Add(a, i)
    <2>1. \A p \in (1 .. L) \X V : Add(p[2], p[1]) \in V
      BY <1>4
    <2> QED BY <2>1
  <1> HIDE DEF step
  <1>6. PICK f \in [0 .. L -> V] : IsFold(f, L, none, step)
    BY <1>2, <1>3, <1>5, FoldExists, Zenon
  <1>7. f = Body(f)
    <2>1. ASSUME NEW i \in 0 .. L, i # 0 PROVE step[<<i, f[i - 1]>>] = Add(f[i - 1], i)
      <3>1. i \in 1 .. L /\ f[i - 1] \in V
        BY <1>2, <1>6, <2>1
      <3> QED BY <1>5, <3>1, Zenon
    <2>2. [i \in 0 .. L |-> IF i = 0 THEN none ELSE step[<<i, f[i - 1]>>]] = Body(f)
      BY <2>1
    <2> HIDE DEF Body
    <2> QED BY <1>6, <2>2 DEF IsFold
  <1>8. resolved = Body(resolved)
    <2> HIDE DEF Body
    <2> QED BY <1>7, Zenon
  <1> HIDE DEF resolved
  <1>9. resolved[0] = none /\ \A i \in 1 .. L : resolved[i] = Add(resolved[i - 1], i)
    <2>1. \A i \in 0 .. L : resolved[i] = Body(resolved)[i]
      <3> HIDE DEF Body
      <3> QED BY <1>8
    <2> QED BY <1>2, <2>1
  <1>10. \A i \in 0 .. L : resolved[i] \in V
    <2>1. \A i \in 0 .. L : i # 0 /\ resolved[i - 1] \in V => resolved[i] \in V
      <3> SUFFICES ASSUME NEW i \in 0 .. L, i # 0, resolved[i - 1] \in V PROVE resolved[i] \in V
        OBVIOUS
      <3>1. i \in 1 .. L
        BY <1>2
      <3> QED BY <1>4, <1>9, <3>1
    <2>2. 0 \in Nat
      OBVIOUS
    <2> QED BY <1>2, <1>3, <1>9, <2>1, <2>2, RecursionTyped
  <1>11. resolved[L] \in V
    BY <1>2, <1>10
  <1> QED BY <1>1, <1>11, Zenon DEF V

\* What an error says is missing is.
Blames(r) == r.err = "missing" => MissingIn(msgs)

LEMMA ComponentsAre ==
  ASSUME NEW name \in Word
  PROVE  Components(name) \in Seq(STRING)
  <1> DEFINE n == (Len(name) + 1) \div 2
             c == Components(name)
  <1>1. Len(name) \in Nat /\ \A k \in 1 .. Len(name) : name[k] \in STRING
    BY DEF Word
  <1>2. n \in Nat /\ \A i \in 1 .. n : 2 * i - 1 \in 1 .. Len(name)
    BY <1>1
  <1>3. c = [i \in 1 .. n |-> name[2 * i - 1]]
    BY Zenon DEF Components
  <1> HIDE DEF n, c
  <1>4. c \in [1 .. n -> STRING]
    BY <1>1, <1>2, <1>3
  <1>5. c \in Seq(STRING)
    BY <1>2, <1>4, Mapped
  <1> QED BY <1>5, Zenon DEF c

LEMMA PathBlames ==
  ASSUME IsTable(msgs), NEW root \in DOMAIN msgs, NEW names \in Seq(STRING), NEW use
  PROVE  /\ Blames(ResolveFieldPath(msgs, root, names, use))
         /\ LET r == ResolveFieldPath(msgs, root, names, use)
            IN  [r EXCEPT !.err = "message as parameter"].err = "message as parameter"
  <1> DEFINE r == ResolveFieldPath(msgs, root, names, use)
             S == Seq(Steps(msgs, STRING))
  <1>1. r \in Paths(msgs, STRING)
    BY ResolveBlames, Zenon
  <1>2. r \in [err : PathErrors, path : S] /\ Blames(r)
    BY <1>1, Zenon DEF Paths, Blames
  <1> HIDE DEF r, S
  <1>3. [r EXCEPT !.err = "message as parameter"].err = "message as parameter"
    BY <1>2
  <1> QED BY <1>2, <1>3, Zenon DEF r

LEMMA ParamBlames ==
  ASSUME IsTable(msgs), NEW request \in DOMAIN msgs, NEW name \in Word
  PROVE  Blames(NewParam(request, name))
  <1> DEFINE r == ResolveFieldPath(msgs, request, Components(name), "param")
  <1>1. Components(name) \in Seq(STRING)
    BY ComponentsAre
  <1>2. Blames(r) /\ [r EXCEPT !.err = "message as parameter"].err = "message as parameter"
    BY <1>1, PathBlames, Zenon
  <1>3. NewParam(request, name) = r \/ NewParam(request, name) = [r EXCEPT !.err = "message as parameter"]
    BY Zenon DEF NewParam
  <1>4. "message as parameter" # "missing"
    OBVIOUS
  <1> HIDE DEF r
  <1> QED BY <1>2, <1>3, <1>4, Zenon DEF Blames

LEMMA BodyBlames ==
  ASSUME IsTable(msgs), NEW msg \in DOMAIN msgs, NEW names \in Word
  PROVE  Blames(NewBody(msg, names))
  <1> DEFINE none == [err |-> "", path |-> <<>>]
             r    == ResolveFieldPath(msgs, msg, names, "body")
  <1>1. none.err # "missing"
    OBVIOUS
  <1>2. Blames(r)
    BY PathBlames, Zenon DEF Word
  <1>3. NewBody(msg, names) = none \/ NewBody(msg, names) = r
    BY Zenon DEF NewBody
  <1> HIDE DEF none, r
  <1> QED BY <1>1, <1>2, <1>3, Zenon DEF Blames

LEMMA FirstErrorIs ==
  ASSUME NEW S, NEW rs \in Seq(S)
  PROVE  FirstError(rs) # "" => \E s \in S : FirstError(rs) = s.err
  <1> DEFINE bad == {i \in DOMAIN rs : rs[i].err # ""}
             i   == CHOOSE k \in bad : \A j \in bad : k <= j
  <1>1. DOMAIN rs \subseteq Nat /\ \A k \in DOMAIN rs : rs[k] \in S
    OBVIOUS
  <1>2. FirstError(rs) = IF bad = {} THEN "" ELSE rs[i].err
    BY Zenon DEF FirstError
  <1>3. CASE bad # {}
    <2>1. bad \in SUBSET DOMAIN rs
      BY Zenon
    <2> HIDE DEF bad
    <2>2. bad \in SUBSET Nat
      BY <1>1, <2>1
    <2>3. i \in bad
      BY <1>3, <2>2, LeastElement, Zenon
    <2> HIDE DEF i
    <2>4. rs[i] \in S /\ FirstError(rs) = rs[i].err
      BY <1>1, <1>2, <1>3, <2>1, <2>3, Zenon
    <2> QED BY <2>4, Zenon
  <1>4. CASE bad = {}
    BY <1>2, <1>4, Zenon
  <1> QED BY <1>3, <1>4, Zenon

\* The texts of a rule.
IsTyped(rule) == rule.path \in Word /\ rule.body \in Word /\ rule.response \in Word

LEMMA BoundBlames ==
  ASSUME IsTable(msgs), NEW request \in DOMAIN msgs, NEW response \in DOMAIN msgs,
         NEW rule, IsTyped(rule), NEW k, NEW m, NEW fields \in Seq(Word)
  PROVE  Blames(BoundTo(m, request, response, rule, k, fields))
  <1> DEFINE params == [i \in DOMAIN fields |-> NewParam(request, fields[i])]
             body   == NewBody(request, rule.body)
             answer == NewBody(response, rule.response)
             res    == BoundTo(m, request, response, rule, k, fields)
             S      == {x \in {params[i] : i \in DOMAIN fields} \cup {body, answer} : Blames(x)}
             n      == Len(fields)
             rs     == params \o <<body, answer>>
  <1>1. n \in Nat /\ DOMAIN fields = 1 .. n /\ \A i \in 1 .. n : fields[i] \in Word
    OBVIOUS
  <1>2. body \in S /\ answer \in S
    <2>1. Blames(body) /\ Blames(answer)
      BY BodyBlames, Zenon DEF IsTyped
    <2> HIDE DEF body, answer, params
    <2> QED BY <2>1, Zenon
  <1>3. params \in [1 .. n -> S]
    <2>1. \A i \in DOMAIN fields : Blames(NewParam(request, fields[i]))
      BY <1>1, ParamBlames, Zenon
    <2>2. \A i \in DOMAIN fields : params[i] = NewParam(request, fields[i])
      BY Zenon
    <2>3. params = [i \in DOMAIN fields |-> params[i]]
      BY Zenon
    <2> HIDE DEF body, answer, params, n
    <2>4. \A i \in DOMAIN fields : params[i] \in S
      BY <2>1, <2>2, Zenon
    <2> HIDE DEF S
    <2> QED BY <1>1, <2>3, <2>4, Zenon
  <1>4. S \subseteq {x \in S : Blames(x)}
    <2> HIDE DEF body, answer, params
    <2> QED BY Zenon
  <1>5. \/ res = Unbound("streaming")
        \/ res = Bound(rule, k, params, body, answer)
    BY Zenon DEF BoundTo
  <1> HIDE DEF params, body, answer, S, n, res
  <1>6. params \in Seq(S)
    BY <1>1, <1>3, Mapped
  <1>7. rs \in Seq(S)
    <2> DEFINE two == <<body, answer>>
    <2>1. two \in Seq(S)
      BY <1>2
    <2> HIDE DEF two
    <2> QED BY <1>6, <2>1, ConcatProperties DEF two
  <1> DEFINE e == FirstError(rs)
  <1> HIDE DEF rs
  <1>8. e = "missing" => MissingIn(msgs)
    <2>1. "missing" # ""
      OBVIOUS
    <2> QED BY <1>4, <1>7, <2>1, FirstErrorIs, Zenon DEF Blames
  <1>9. e # "" => Bound(rule, k, params, body, answer) = Unbound(e)
    BY Zenon DEF Bound, rs
  <1>10. e = "" => Bound(rule, k, params, body, answer).err = ""
    <2> DEFINE p == [i \in DOMAIN params |-> params[i].path]
               h == rule.body # <<>>
               b == [nil |-> FALSE, index |-> k, rule |-> rule, params |-> p, hasBody |-> h,
                     body |-> body.path, response |-> answer.path]
    <2> SUFFICES ASSUME e = "" PROVE Bound(rule, k, params, body, answer).err = ""
      BY Zenon
    <2>1. ~ (FirstError(params \o <<body, answer>>) # "")
      BY Zenon DEF rs
    <2>2. Bound(rule, k, params, body, answer) = [err |-> "", binding |-> b]
      BY <2>1, Zenon DEF Bound
    <2> DEFINE bound == Bound(rule, k, params, body, answer)
    <2>3. bound = [err |-> "", binding |-> b]
      BY <2>2, Zenon
    <2> HIDE DEF b, bound
    <2>4. bound.err = ""
      BY <2>3
    <2> QED BY <2>4, Zenon DEF bound
  <1>11. \A x : Unbound(x).err = x
    BY DEF Unbound
  <1>12. "streaming" # "missing" /\ "" # "missing"
    OBVIOUS
  <1> HIDE DEF e
  <1>13. Blames(res)
    BY <1>5, <1>8, <1>9, <1>10, <1>11, <1>12, Zenon DEF Blames
  <1> QED BY <1>13, Zenon DEF res

LEMMA BindingBlames ==
  ASSUME IsTable(msgs), NEW request \in DOMAIN msgs, NEW response \in DOMAIN msgs,
         NEW rule, IsTyped(rule), NEW k, NEW m
  PROVE  Blames(NewBinding(m, request, response, rule, k))
  <1> DEFINE tmpl   == Parse(rule.path)
             fields == Compile(tmpl).fields
             res    == NewBinding(m, request, response, rule, k)
  <1>1. \/ res = Unbound("") \/ res = Unbound("body") \/ res = Unbound("template")
        \/ tmpl.ok /\ res = BoundTo(m, request, response, rule, k, fields)
    BY Zenon DEF NewBinding, BoundAt
  <1>2. tmpl.ok => fields \in Seq(Word)
    BY FieldsAreWords, Zenon DEF IsTyped
  <1>3. tmpl.ok => Blames(BoundTo(m, request, response, rule, k, fields))
    <2> HIDE DEF tmpl, fields
    <2> QED BY <1>2, BoundBlames, Zenon
  <1>4. \A x : Unbound(x).err = x
    BY DEF Unbound
  <1>5. "" # "missing" /\ "body" # "missing" /\ "template" # "missing"
    OBVIOUS
  <1> HIDE DEF res, tmpl, fields
  <1>6. Blames(res)
    BY <1>1, <1>3, <1>4, <1>5, Zenon DEF Blames
  <1> QED BY <1>6, Zenon DEF res

\* The rules of methods, and the additional ones of each.
EveryRule == KnownRules \cup UNION {ToSet(x.additional) : x \in KnownRules}

LEMMA RulesAreKnown ==
  ASSUME RulesKept
  PROVE  /\ \A x \in KnownRules : x.additional \in Seq(EveryRule)
         /\ \A x \in EveryRule : IsTyped(x)
         /\ \A m \in MethodsOfFiles :
              RulesFor(m[1]) \in Seq(KnownRules) /\ (m[2].rule # NoRule => m[2].rule \in KnownRules)
  <1> DEFINE X == KnownRules
             R == EveryRule
             M == MethodsOfFiles
             D == ToSet(Files)
  <1>1. \A x \in X : IsRule(x)
    <2> SUFFICES ASSUME NEW x \in X PROVE IsRule(x)
      BY Zenon
    <2>1. CASE x \in YamlRules
      <3>1. PICK c \in input.calls : c.op = "yaml" /\ x \in {r.rule : r \in ToSet(c.rules)}
        BY <2>1, Zenon DEF YamlRules
      <3> QED BY <3>1, MethodsAssumption, Zenon DEF RulesKept
    <2>2. CASE x \in Annotations
      <3>1. PICK m \in M : m[2].rule # NoRule /\ x = m[2].rule
        BY <2>2, Zenon DEF Annotations
      <3>2. PICK g \in D : m \in ToSet(MethodsOf(g))
        BY Zenon DEF MethodsOfFiles
      <3> QED BY <3>1, <3>2, MethodsAssumption, Zenon DEF RulesKept, Files
    <2> QED BY <2>1, <2>2, Zenon DEF KnownRules
  <1>2. ASSUME NEW x \in X PROVE x.additional \in Seq(R)
    <2> DEFINE A == ToSet(x.additional)
    <2>1. x.additional \in Seq(A)
      BY <1>1, Zenon DEF IsRule
    <2>2. A \subseteq R
      BY Zenon DEF EveryRule
    <2> HIDE DEF A, R
    <2> QED BY <2>1, <2>2
  <1>3. ASSUME NEW x \in R PROVE IsTyped(x)
    <2>1. PICK y \in X : x \in {y} \cup ToSet(y.additional)
      BY <1>3, Zenon DEF EveryRule
    <2>2. x.path \in Seq(STRING) /\ x.body \in Seq(STRING) /\ x.response \in Seq(STRING)
      BY <1>1, <2>1, Zenon DEF IsRule
    <2> QED BY <2>2, Zenon DEF IsTyped, Word
  <1>4. ASSUME NEW m \in M PROVE RulesFor(m[1]) \in Seq(X)
    <2>1. TableOf(external, DOMAIN external, Seq(YamlRules))
      BY Zenon DEF TableOf, RulesKept
    <2>2. RulesFor(m[1]) \in Seq(YamlRules)
      BY <2>1, RulesInTyped, Zenon DEF RulesFor
    <2>3. YamlRules \subseteq X
      BY Zenon DEF KnownRules
    <2> HIDE DEF X
    <2> QED BY <2>2, <2>3
  <1>5. \A m \in M : m[2].rule # NoRule => m[2].rule \in X
    <2>1. \A m \in M : m[2].rule # NoRule => m[2].rule \in Annotations
      BY Zenon DEF Annotations
    <2> QED BY <2>1, Zenon DEF KnownRules
  <1> QED BY <1>2, <1>3, <1>4, <1>5, Zenon

\* The request or the response of a method is not there.
MethodMissing(f, m) ==
  ~ResolvableIn(DOMAIN msgs, f.pkg, m[2].input) \/ ~ResolvableIn(DOMAIN msgs, f.pkg, m[2].output)

LEMMA AppliedBlames ==
  ASSUME IsTable(msgs), NEW request \in DOMAIN msgs, NEW response \in DOMAIN msgs, NEW m,
         NEW R, \A x \in R : IsTyped(x), NEW rules \in Seq(R),
         \A i \in 1 .. Len(rules) : rules[i].additional \in Seq(R)
  PROVE  Blames(ApplyRules(m, request, response, rules))
  <1> DEFINE L == Len(rules)
             res == ApplyRules(m, request, response, rules)
             E == ErrorsOf(m, request, response, R)
             B == BindingsOf(m, request, response, R)
             S == Seq(B)
  <1>1. PICK f \in [0 .. L -> ResultsOf(m, request, response, R)] : RulesSteps(f, m, request, response, rules)
    BY RulesUnfold, Zenon
  <1>2. L \in Nat
    OBVIOUS
  <1>3. res = f[L]
    BY <1>1, Zenon DEF RulesSteps
  <1>4. L \in 0 .. L
    <2> HIDE DEF L
    <2> QED BY <1>2
  <1>5. res \in [err : E, bindings : S]
    BY <1>1, <1>3, <1>4, Zenon DEF ResultsOf
  <1> HIDE DEF res, E, S
  <1>6. res.err \in E
    BY <1>5
  <1>7. \A x \in R, k \in Nat : Blames(NewBinding(m, request, response, x, k))
    BY BindingBlames, Zenon
  <1>8. \A e \in E : e = "missing" => MissingIn(msgs)
    <2> SUFFICES ASSUME NEW e \in E, e = "missing" PROVE MissingIn(msgs)
      BY Zenon
    <2>1. e \notin {"", "nested additional"}
      OBVIOUS
    <2>2. PICK p \in R \X Nat : e = NewBinding(m, request, response, p[1], p[2]).err
      BY <2>1, Zenon DEF E, ErrorsOf
    <2>3. p[1] \in R /\ p[2] \in Nat
      OBVIOUS
    <2> QED BY <1>7, <2>2, <2>3, Zenon DEF Blames
  <1> QED BY <1>6, <1>8, Zenon DEF Blames, res

LEMMA DefaultIsTyped ==
  ASSUME NEW fqmn, DefaultPath(fqmn) \in Seq(STRING)
  PROVE  /\ IsTyped(DefaultRule(fqmn)) /\ \A S : DefaultRule(fqmn).additional \in Seq(S)
         /\ \A R : DefaultRule(fqmn) \in R => <<DefaultRule(fqmn)>> \in Seq(R)
  <1> DEFINE p == DefaultPath(fqmn)
             d == [verb |-> "POST", path |-> p, body |-> <<"*">>, response |-> <<>>, additional |-> <<>>]
  <1>1. DefaultRule(fqmn) = d
    BY Zenon DEF DefaultRule
  <1>2. p \in Seq(STRING)
    BY Zenon
  <1> HIDE DEF p
  <1>3. d.path = p /\ d.body = <<"*">> /\ d.response = <<>> /\ d.additional = <<>>
    OBVIOUS
  <1>4. "*" \in STRING
    BY HttpRuleAssumption DEF Punctuation
  <1>5. <<"*">> \in Word /\ <<>> \in Word
    <2>1. <<>> \in Word
      BY DEF Word
    <2> QED BY <1>4, <2>1, OneWord, Zenon
  <1> HIDE DEF d
  <1>6. IsTyped(d)
    BY <1>2, <1>3, <1>5, Zenon DEF IsTyped, Word
  <1>7. \A S : <<>> \in Seq(S)
    OBVIOUS
  <1>8. \A R : d \in R => <<d>> \in Seq(R)
    OBVIOUS
  <1> QED BY <1>1, <1>3, <1>6, <1>7, <1>8, Zenon

\* A method that is refused for a message refers to one that is not there, or
\* some field does.
LEMMA MethodBlames ==
  ASSUME RulesKept, IsTable(msgs), NEW f \in ToSet(Files), NEW m \in ToSet(MethodsOf(f))
  PROVE  NewMethod(f, m[1], m[2]).err = "missing" => MissingIn(msgs) \/ MethodMissing(f, m)
  <1> DEFINE request  == LookupName(DOMAIN msgs, f.pkg, m[2].input)
             response == LookupName(DOMAIN msgs, f.pkg, m[2].output)
             rules    == RulesOf(m[1], m[2])
             own      == OwnRules(m)
             new      == NewMethod(f, m[1], m[2])
             d        == DefaultRule(m[1])
             R        == EveryRule \cup {d}
  <1>1. input \in Input /\ f \in ToSet(input.files) /\ m \in MethodsOfFiles
    BY Zenon DEF RulesKept, Files, MethodsOfFiles
  <1>2. f.pkg \in Word /\ IsTypeName(m[2].input) /\ IsTypeName(m[2].output) /\ DefaultPath(m[1]) \in Seq(STRING)
    BY <1>1, NamesAssumption, Zenon DEF Word
  <1>3. <<>> \notin DOMAIN msgs
    BY Zenon DEF IsTable
  <1>4. /\ request # NotFound <=> ResolvableIn(DOMAIN msgs, f.pkg, m[2].input)
        /\ request # NotFound => request \in DOMAIN msgs
    BY <1>2, <1>3, LookupFinds, Zenon
  <1>5. /\ response # NotFound <=> ResolvableIn(DOMAIN msgs, f.pkg, m[2].output)
        /\ response # NotFound => response \in DOMAIN msgs
    BY <1>2, <1>3, LookupFinds, Zenon
  <1>6. CASE request = NotFound \/ response = NotFound
    BY <1>4, <1>5, <1>6, Zenon DEF MethodMissing
  <1>7. CASE ~ (request = NotFound \/ response = NotFound)
    <2>1. new = ApplyRules(m[2], request, response, rules)
      BY <1>7, Zenon DEF NewMethod
    <2>2. /\ IsTyped(d) /\ (\A S : d.additional \in Seq(S)) /\ \A S : d \in S => <<d>> \in Seq(S)
      BY <1>2, DefaultIsTyped, Zenon
    <2>3. /\ \A x \in KnownRules : x.additional \in Seq(EveryRule)
          /\ \A x \in EveryRule : IsTyped(x)
          /\ RulesFor(m[1]) \in Seq(KnownRules) /\ (m[2].rule # NoRule => m[2].rule \in KnownRules)
      BY <1>1, RulesAreKnown, Zenon
    <2>4. \A x \in R : IsTyped(x)
      <3> HIDE DEF d
      <3> QED BY <2>2, <2>3, Zenon
    <2>5. EveryRule \subseteq R /\ d \in R
      BY Zenon
    <2>6. KnownRules \in SUBSET EveryRule
      BY Zenon DEF EveryRule
    <2>7. own \in Seq(EveryRule) /\ \A i \in 1 .. Len(own) : own[i].additional \in Seq(EveryRule)
      BY <2>3, <2>6, OwnTyped, Zenon
    <2>8. \A s \in Seq(EveryRule) : s \in Seq(R)
      <3> HIDE DEF R
      <3> QED BY <2>5
    <2>9. rules = own \/ rules = <<d>>
      BY Zenon DEF RulesOf, OwnRules
    <2> HIDE DEF R, own, d, rules, request, response
    <2>10. rules \in Seq(R) /\ \A i \in 1 .. Len(rules) : rules[i].additional \in Seq(R)
      <3>1. CASE rules = own
        BY <2>7, <2>8, <3>1, Zenon
      <3>2. CASE rules = <<d>>
        <4>1. Len(<<d>>) = 1 /\ \A i \in 1 .. Len(<<d>>) : <<d>>[i] = d
          BY OneElement
        <4> QED BY <2>2, <2>5, <3>2, <4>1, Zenon
      <3> QED BY <2>9, <3>1, <3>2, Zenon
    <2>11. request \in DOMAIN msgs /\ response \in DOMAIN msgs
      BY <1>4, <1>5, <1>7, Zenon
    <2>12. Blames(ApplyRules(m[2], request, response, rules))
      BY <2>4, <2>10, <2>11, AppliedBlames, Zenon
    <2> QED BY <2>1, <2>12, Zenon DEF Blames
  <1> QED BY <1>6, <1>7, Zenon

\* So does a file whose methods are refused.
LEMMA LoadBlames ==
  ASSUME RulesKept, IsTable(msgs), NEW f \in ToSet(Files)
  PROVE  LoadMethods(f).err = "missing" =>
           MissingIn(msgs) \/ \E m \in ToSet(MethodsOf(f)) : MethodMissing(f, m)
  <1> DEFINE all == MethodsOf(f)
             L   == Len(all)
             Cause == MissingIn(msgs) \/ \E m \in ToSet(MethodsOf(f)) : MethodMissing(f, m)
  <1>1. L \in Nat /\ \A i \in 1 .. L : all[i] \in ToSet(MethodsOf(f))
    <2>1. Len(MethodsOf(f)) \in Nat
          /\ ToSet(MethodsOf(f)) = {MethodsOf(f)[k] : k \in 1 .. Len(MethodsOf(f))}
      BY MethodsAreSeq, Zenon DEF RulesKept, Files
    <2> QED BY <2>1, Zenon
  <1>2. PICK g : LoadsStepwise(g, f, all)
    BY <1>1, LoadUnfolds, Zenon
  <1>3. /\ g[0] = [err |-> "", meths |-> meths] /\ LoadMethods(f) = g[L]
        /\ \A i \in 1 .. L : g[i].err = g[i - 1].err \/ g[i].err = NewMethod(f, all[i][1], all[i][2]).err
    BY <1>2, Zenon DEF LoadsStepwise, LoadSteps, LoadedInto
  <1>4. \A i \in 1 .. L : NewMethod(f, all[i][1], all[i][2]).err = "missing" => Cause
    BY <1>1, MethodBlames, Zenon
  <1>a. L \in Nat
    BY <1>1, Zenon
  <1>5. g[0].err # "missing"
    <2> DEFINE none == [err |-> "", meths |-> meths]
    <2>1. none.err # "missing"
      OBVIOUS
    <2> HIDE DEF none
    <2>2. g[0] = none
      BY <1>3, Zenon DEF none
    <2> QED BY <2>1, <2>2, Zenon
  <1> HIDE DEF all, L, Cause
  <1> DEFINE good == {i \in Nat : i <= L /\ g[i].err = "missing" => Cause}
  <1>6. 0 \in good
    BY <1>5
  <1>7. ASSUME NEW i \in Nat, i > 0, i - 1 \in good PROVE i \in good
    <2> SUFFICES ASSUME i <= L, g[i].err = "missing" PROVE Cause
      OBVIOUS
    <2>1. i \in 1 .. L /\ i - 1 <= L
      BY <1>a, <1>7
    <2>2. g[i - 1].err = "missing" => Cause
      BY <1>7, <2>1
    <2> QED BY <1>3, <1>4, <2>1, <2>2, Zenon
  <1>8. L \in good
    <2> HIDE DEF good
    <2>1. 0 \in Nat /\ L >= 0
      BY <1>a
    <2> QED BY <1>a, <1>6, <1>7, <2>1, Climbing
  <1>9. L <= L
    BY <1>a
  <1>10. g[L].err = "missing" => Cause
    BY <1>8, <1>9
  <1> QED BY <1>3, <1>10, Zenon DEF Cause

-----------------------------------------------------------------------------
(* The names messages have and the names they are registered under.         *)

Tops(file) == {<<<<>>, m>> : m \in ToSet(file.msgs)}
Inside(p)  == {<<Within(p[1], p[2]), m>> : m \in ToSet(p[2].nested)}

LEMMA LevelsUnfold ==
  ASSUME NEW file, MaxNesting \in Nat
  PROVE  /\ Level(file)[0] = Tops(file)
         /\ \A d \in 1 .. MaxNesting : \A p :
              p \in Level(file)[d] <=> \E q \in Level(file)[d - 1] : p \in Inside(q)
  <1> DEFINE top == Tops(file)
             More(s) == UNION {Inside(p) : p \in s}
             Body(f, n) == [d \in 0 .. n |-> IF d = 0 THEN top ELSE More(f[d - 1])]
             level == CHOOSE f : f = Body(f, MaxNesting)
             IsLevel(f, n) == f = Body(f, n)
             defined == {n \in Nat : \E f : IsLevel(f, n)}
  <1>1. Level(file) = level
    BY Zenon DEF Level, Tops, Inside
  <1> HIDE DEF top, More
  <1>2. 0 \in defined
    <2> DEFINE f == [d \in 0 .. 0 |-> top]
    <2>1. \A d \in 0 .. 0 : d = 0
      OBVIOUS
    <2>2. f = Body(f, 0)
      BY <2>1
    <2> QED BY <2>2
  <1>3. ASSUME NEW n \in Nat, n > 0, n - 1 \in defined PROVE n \in defined
    <2>1. PICK f : IsLevel(f, n - 1)
      BY <1>3
    <2> DEFINE last == More(f[n - 1])
               g == [d \in 0 .. n |-> IF d = n THEN last ELSE f[d]]
    <2>2. \A d \in 0 .. n - 1 : f[d] = IF d = 0 THEN top ELSE More(f[d - 1])
      BY <2>1
    <2>3. ASSUME NEW d \in 0 .. n
          PROVE  g[d] = IF d = 0 THEN top ELSE More(g[d - 1])
      <3>1. CASE d = n
        <4>1. n - 1 \in 0 .. n /\ n - 1 # n
          BY <1>3
        <4>2. g[n - 1] = f[n - 1] /\ g[d] = last
          BY <3>1, <4>1
        <4> HIDE DEF g
        <4> QED BY <1>3, <3>1, <4>2
      <3>2. CASE d # n
        <4>1. d \in 0 .. n - 1 /\ g[d] = f[d]
          BY <1>3, <3>2
        <4>2. d # 0 => g[d - 1] = f[d - 1]
          <5>1. d # 0 => d - 1 \in 0 .. n /\ d - 1 # n
            BY <4>1
          <5> QED BY <5>1
        <4> HIDE DEF g
        <4> QED BY <2>2, <4>1, <4>2
      <3> QED BY <3>1, <3>2
    <2>4. g = [d \in 0 .. n |-> g[d]]
      OBVIOUS
    <2> HIDE DEF g
    <2>5. IsLevel(g, n)
      BY <2>3, <2>4
    <2> HIDE DEF IsLevel
    <2> QED BY <2>5
  <1>4. MaxNesting \in defined
    <2> HIDE DEF defined
    <2>1. 0 \in Nat /\ MaxNesting >= 0
      OBVIOUS
    <2> QED BY <1>2, <1>3, <2>1, Climbing
  <1>5. PICK f : IsLevel(f, MaxNesting)
    <2> HIDE DEF IsLevel
    <2> QED BY <1>4
  <1>6. level = Body(level, MaxNesting)
    <2> HIDE DEF Body
    <2> QED BY <1>5, Zenon DEF IsLevel
  <1> HIDE DEF level
  <1>7. /\ level[0] = top
        /\ \A d \in 1 .. MaxNesting : level[d] = More(level[d - 1])
    <2>1. \A d \in 0 .. MaxNesting : level[d] = Body(level, MaxNesting)[d]
      <3> HIDE DEF Body
      <3> QED BY <1>6
    <2> QED BY <2>1
  <1>8. \A s, p : p \in More(s) <=> \E q \in s : p \in Inside(q)
    BY Zenon DEF More
  <1>9. ASSUME NEW d \in 1 .. MaxNesting, NEW p
        PROVE  p \in level[d] <=> \E q \in level[d - 1] : p \in Inside(q)
    <2> DEFINE s == level[d - 1]
    <2>1. level[d] = More(s)
      BY <1>7
    <2> HIDE DEF s
    <2>2. p \in More(s) <=> \E q \in s : p \in Inside(q)
      BY <1>8, Zenon
    <2> QED BY <2>1, <2>2, Zenon DEF s
  <1>10. level[0] = Tops(file)
    BY <1>7, Zenon DEF top
  <1> QED BY <1>1, <1>9, <1>10, Zenon

\* All messages of a file, with the names of those around them.
Everywhere(file) == UNION {Level(file)[d] : d \in 0 .. MaxNesting}

\* Messages are nested no deeper than that, and their names are texts.
Nestable(file) ==
  /\ MaxNesting \in Nat
  /\ \A p \in Level(file)[MaxNesting] : p[2].nested = <<>>
  /\ \A d \in 0 .. MaxNesting : \A p \in Level(file)[d] : IsDeclaration(p[2])

LEMMA Everything ==
  ASSUME NEW file, Nestable(file)
  PROVE  /\ \A m \in ToSet(file.msgs) : <<<<>>, m>> \in Everywhere(file)
         /\ \A p \in Everywhere(file) :
              /\ \A m \in ToSet(p[2].nested) : <<Within(p[1], p[2]), m>> \in Everywhere(file)
              /\ p[1] \in Word /\ p = <<p[1], p[2]>> /\ IsDeclaration(p[2]) /\ p[2] \in MessagesIn(file)
  <1> DEFINE N == MaxNesting
             V(d) == Level(file)[d]
  <1>1. N \in Nat /\ V(0) = Tops(file) 
        /\ \A d \in 1 .. N : \A p : p \in V(d) <=> \E q \in V(d - 1) : p \in Inside(q)
    BY LevelsUnfold, Zenon DEF Nestable
  <1>a. /\ Everywhere(file) = UNION {V(d) : d \in 0 .. N}
        /\ (\A p \in V(N) : p[2].nested = <<>>) /\ \A d \in 0 .. N : \A p \in V(d) : IsDeclaration(p[2])
    BY Zenon DEF Everywhere, Nestable
  <1>b. MessagesIn(file) = {p[2] : p \in Everywhere(file)}
    BY Zenon DEF MessagesIn, Everywhere
  <1>c. ToSet(<<>>) = {}
    BY DEF ToSet
  <1> HIDE DEF V, N
  <1>d. N \in Nat /\ 0 \in 0 .. N
    BY <1>1
  <1>2. \A m \in ToSet(file.msgs) : <<<<>>, m>> \in Everywhere(file)
    <2>1. \A m \in ToSet(file.msgs) : <<<<>>, m>> \in V(0)
      BY <1>1, Zenon DEF Tops
    <2> QED BY <1>a, <1>d, <2>1, Zenon
  <1>3. ASSUME NEW p \in Everywhere(file), NEW m \in ToSet(p[2].nested)
        PROVE  <<Within(p[1], p[2]), m>> \in Everywhere(file)
    <2>1. PICK d \in 0 .. N : p \in V(d)
      BY <1>a, Zenon
    <2>2. d # N
      BY <1>a, <1>c, <2>1, <1>3, Zenon
    <2>3. d + 1 \in 1 .. N /\ d + 1 \in 0 .. N /\ (d + 1) - 1 = d
      BY <1>d, <2>2
    <2>4. <<Within(p[1], p[2]), m>> \in Inside(p)
      BY Zenon DEF Inside
    <2> DEFINE x == <<Within(p[1], p[2]), m>>
               e == d + 1
    <2>5. x \in V(e)
      <3>1. p \in V(e - 1) /\ e \in 1 .. N
        BY <2>1, <2>3
      <3> HIDE DEF x, e
      <3> QED BY <1>1, <2>4, <3>1, Zenon DEF x
    <2> QED BY <1>a, <2>3, <2>5, Zenon
  <1>4. \A p \in Everywhere(file) : IsDeclaration(p[2]) /\ p[2] \in MessagesIn(file)
    BY <1>a, <1>b, Zenon
  <1> DEFINE Fine(p) == p[1] \in Word /\ p = <<p[1], p[2]>>
             fine == {d \in Nat : d <= N => \A p \in V(d) : Fine(p)}
  <1>5. 0 \in fine
    <2>1. \A m : <<<<>>, m>>[1] = <<>> /\ <<<<>>, m>> = <<<<<<>>, m>>[1], <<<<>>, m>>[2]>>
      OBVIOUS
    <2>2. <<>> \in Word
      BY DEF Word
    <2>3. \A p \in V(0) : Fine(p)
      BY <1>1, <2>1, <2>2, Zenon DEF Tops
    <2> HIDE DEF Fine
    <2> QED BY <2>3
  <1>6. ASSUME NEW d \in Nat, d > 0, d - 1 \in fine PROVE d \in fine
    <2> SUFFICES ASSUME d <= N PROVE \A p \in V(d) : Fine(p)
      BY Zenon
    <2>1. d \in 1 .. N /\ d - 1 \in 0 .. N /\ d - 1 <= N
      BY <1>d, <1>6
    <2>2. \A q \in V(d - 1) : Fine(q)
      <3> HIDE DEF Fine
      <3> QED BY <1>6, <2>1
    <2> SUFFICES ASSUME NEW p \in V(d) PROVE Fine(p)
      BY Zenon
    <2>3. PICK q \in V(d - 1) : p \in Inside(q)
      BY <1>1, <2>1, Zenon
    <2>4. PICK m \in ToSet(q[2].nested) : p = <<Within(q[1], q[2]), m>>
      BY <2>3, Zenon DEF Inside
    <2>5. q[1] \in Seq(STRING) /\ q[2].name \in STRING
      BY <1>a, <2>1, <2>2, <2>3, Zenon DEF Word, IsDeclaration
    <2> DEFINE o == Within(q[1], q[2])
    <2>6. o \in Word
      <3> DEFINE s == q[1]
                 x == q[2].name
      <3>1. s \in Seq(STRING) /\ x \in STRING
        BY <2>5, Zenon
      <3> HIDE DEF s, x
      <3>2. Append(s, x) \in Seq(STRING)
        BY <3>1
      <3> QED BY <3>2, Zenon DEF Within, Word, s, x
    <2> HIDE DEF o
    <2>7. \A y, z : <<y, z>>[1] = y /\ <<y, z>> = <<<<y, z>>[1], <<y, z>>[2]>>
      OBVIOUS
    <2>8. p[1] = o /\ p = <<p[1], p[2]>>
      BY <2>4, <2>7, Zenon DEF o
    <2> QED BY <2>6, <2>8, Zenon
  <1>7. \A d \in 0 .. N : d \in fine
    <2> HIDE DEF fine
    <2>1. 0 \in Nat
      OBVIOUS
    <2>2. \A d \in Nat : d >= 0 => d \in fine
      BY <1>5, <1>6, <2>1, Climbing
    <2> QED BY <1>d, <2>2
  <1>8. \A p \in Everywhere(file) : Fine(p)
    <2>1. \A d \in 0 .. N : d <= N
      BY <1>d
    <2>2. \A d \in 0 .. N : \A p \in V(d) : Fine(p)
      <3> HIDE DEF Fine
      <3> QED BY <1>7, <2>1
    <2> QED BY <1>a, <2>2, Zenon
  <1> QED BY <1>2, <1>3, <1>4, <1>8, Zenon

\* What DeclaredIn knows of a message up to a depth.
Names0(m) == <<<<m.name>>, m>>
Put(m, l)  == <<<<m.name>> \o l[1], l[2]>>
Deeper(v, m, n) == \E k \in ToSet(m.nested) : \E l \in v[k] : n = Put(m, l)
NamesAre(names, file) ==
  /\ \A n : n \in DeclaredIn(file) <=> \E m \in ToSet(file.msgs) : n \in names[MaxNesting][m]
  /\ \A d \in 0 .. MaxNesting, m \in MessagesIn(file) : \A n :
       n \in names[d][m] <=>
         n = Names0(m) \/ (d # 0 /\ Deeper(names[d - 1], m, n))

LEMMA NamesUnfold ==
  ASSUME NEW file, MaxNesting \in Nat
  PROVE  \E names : NamesAre(names, file)
  <1> DEFINE M == MessagesIn(file)
             Over(v, m, k) == {Put(m, n) : n \in v[k]}
             More(v, m) == UNION {Over(v, m, k) : k \in ToSet(m.nested)}
             Row(d, v)  == [m \in M |-> {Names0(m)} \cup IF d = 0 THEN {} ELSE More(v, m)]
             Body(f, n) == [d \in 0 .. n |-> Row(d, f[d - 1])]
             names == CHOOSE f : f = Body(f, MaxNesting)
             IsNames(f, n) == f = Body(f, n)
             defined == {n \in Nat : \E f : IsNames(f, n)}
  <1>1. DeclaredIn(file) = UNION {names[MaxNesting][m] : m \in ToSet(file.msgs)}
    BY Zenon DEF DeclaredIn, Names0, Put
  <1>a. \A v, w : Row(0, v) = Row(0, w)
    <2> HIDE DEF More
    <2> QED OBVIOUS
  <1>b. \A d, v, m, n : m \in M => (n \in Row(d, v)[m] <=> n = Names0(m) \/ (d # 0 /\ n \in More(v, m)))
    <2> HIDE DEF More, M
    <2> QED OBVIOUS
  <1>c. ASSUME NEW v, NEW m, NEW n PROVE n \in More(v, m) <=> Deeper(v, m, n)
    <2>1. n \in More(v, m) <=> \E k \in ToSet(m.nested) : n \in Over(v, m, k)
      <3> HIDE DEF Over
      <3> QED BY Zenon
    <2>2. \A k : n \in Over(v, m, k) <=> \E l \in v[k] : n = Put(m, l)
      BY Zenon
    <2> HIDE DEF Over, More
    <2> QED BY <2>1, <2>2, Zenon DEF Deeper
  <1> HIDE DEF Row, M, More
  <1>2. 0 \in defined
    <2> DEFINE f == [d \in 0 .. 0 |-> Row(0, 0)]
    <2>1. \A d \in 0 .. 0 : d = 0
      OBVIOUS
    <2>2. \A d \in 0 .. 0 : Row(d, f[d - 1]) = Row(0, 0)
      <3> HIDE DEF f
      <3> QED BY <1>a, <2>1
    <2>3. f = Body(f, 0)
      BY <2>2
    <2> QED BY <2>3
  <1>3. ASSUME NEW n \in Nat, n > 0, n - 1 \in defined PROVE n \in defined
    <2>1. PICK f : IsNames(f, n - 1)
      BY <1>3
    <2> DEFINE last == Row(n, f[n - 1])
               g == [d \in 0 .. n |-> IF d = n THEN last ELSE f[d]]
    <2>2. \A d \in 0 .. n - 1 : f[d] = Row(d, f[d - 1])
      BY <2>1
    <2>3. ASSUME NEW d \in 0 .. n
          PROVE  g[d] = Row(d, g[d - 1])
      <3>1. CASE d = n
        <4>1. n - 1 \in 0 .. n /\ n - 1 # n
          BY <1>3
        <4>2. g[n - 1] = f[n - 1] /\ g[d] = last
          BY <3>1, <4>1
        <4> HIDE DEF g
        <4> QED BY <1>3, <3>1, <4>2
      <3>2. CASE d # n
        <4>1. d \in 0 .. n - 1 /\ g[d] = f[d]
          BY <1>3, <3>2
        <4>2. d # 0 => g[d - 1] = f[d - 1]
          <5>1. d # 0 => d - 1 \in 0 .. n /\ d - 1 # n
            BY <4>1
          <5> QED BY <5>1
        <4> HIDE DEF g
        <4>3. CASE d = 0
          BY <1>a, <2>2, <4>1, <4>3
        <4>4. CASE d # 0
          BY <2>2, <4>1, <4>2, <4>4
        <4> QED BY <4>3, <4>4
      <3> QED BY <3>1, <3>2
    <2>4. g = [d \in 0 .. n |-> g[d]]
      OBVIOUS
    <2> HIDE DEF g
    <2>5. IsNames(g, n)
      BY <2>3, <2>4
    <2> HIDE DEF IsNames
    <2> QED BY <2>5
  <1>4. MaxNesting \in defined
    <2> HIDE DEF defined
    <2>1. 0 \in Nat /\ MaxNesting >= 0
      OBVIOUS
    <2> QED BY <1>2, <1>3, <2>1, Climbing
  <1>5. PICK f : IsNames(f, MaxNesting)
    <2> HIDE DEF IsNames
    <2> QED BY <1>4
  <1>6. names = Body(names, MaxNesting)
    <2> HIDE DEF Body
    <2> QED BY <1>5, Zenon DEF IsNames
  <1> HIDE DEF names
  <1>7. \A d \in 0 .. MaxNesting : names[d] = Row(d, names[d - 1])
    <2>1. \A d \in 0 .. MaxNesting : names[d] = Body(names, MaxNesting)[d]
      <3> HIDE DEF Body
      <3> QED BY <1>6
    <2> QED BY <2>1
  <1>8. ASSUME NEW d \in 0 .. MaxNesting, NEW m \in MessagesIn(file), NEW n
        PROVE  n \in names[d][m] <=>
                 n = Names0(m) \/ (d # 0 /\ Deeper(names[d - 1], m, n))
    <2> DEFINE v == names[d - 1]
    <2>1. names[d] = Row(d, v) /\ m \in M
      BY <1>7 DEF M
    <2> HIDE DEF v
    <2>2. n \in names[d][m] <=> n = Names0(m) \/ (d # 0 /\ n \in More(v, m))
      BY <1>b, <2>1, Zenon
    <2>3. n \in More(v, m) <=> Deeper(v, m, n)
      BY <1>c, Zenon
    <2> QED BY <2>2, <2>3, Zenon DEF v
  <1>9. \A n : n \in DeclaredIn(file) <=> \E m \in ToSet(file.msgs) : n \in names[MaxNesting][m]
    BY <1>1, Zenon
  <1> QED BY <1>8, <1>9, Zenon DEF NamesAre

\* A message has, from where it is, the name it is registered under.
At(p) == <<Append(p[1], p[2].name), p[2]>>

LEMMA JoinFacts ==
  ASSUME NEW S, NEW s \in Seq(S), NEW x \in S, NEW t \in Seq(S)
  PROVE  /\ Append(s, x) \in Seq(S) /\ s \o <<>> = s /\ <<>> \o t = t /\ <<>> \in Seq(S)
         /\ s \o <<x>> = Append(s, x) /\ <<x>> = Append(<<>>, x) /\ <<x>> \in Seq(S)
  <1>2. s \o <<>> = s /\ <<>> \o t = t
    BY ConcatEmptySeq
  <1>3. Append(s, x) \in Seq(S) /\ <<>> \in Seq(S) /\ <<x>> \in Seq(S)
    OBVIOUS
  <1>4. s \o <<x>> = Append(s, x)
    OBVIOUS
  <1>5. <<x>> = Append(<<>>, x)
    OBVIOUS
  <1> QED BY <1>2, <1>3, <1>4, <1>5, Zenon

LEMMA JoinLeft ==
  ASSUME NEW s \in Word, NEW x \in STRING, NEW t \in Word
  PROVE  /\ Append(s, x) \in Word /\ s \o <<>> = s /\ <<>> \o t = t /\ <<>> \in Word
         /\ s \o <<x>> = Append(s, x) /\ <<x>> = Append(<<>>, x) /\ <<x>> \in Word
  <1> DEFINE S == STRING
  <1>1. s \in Seq(S) /\ t \in Seq(S) /\ x \in S
    BY Zenon DEF Word
  <1> HIDE DEF S
  <1>2. /\ Append(s, x) \in Seq(S) /\ s \o <<>> = s /\ <<>> \o t = t /\ <<>> \in Seq(S)
        /\ s \o <<x>> = Append(s, x) /\ <<x>> = Append(<<>>, x) /\ <<x>> \in Seq(S)
    BY <1>1, JoinFacts
  <1> QED BY <1>2, Zenon DEF Word, S

LEMMA JoinedOnceOfAny ==
  ASSUME NEW S
  PROVE  \A s, t \in Seq(S), x \in S : Append(s, x) \o t = s \o (<<x>> \o t)
  BY JoinedOnce

LEMMA JoinWithin ==
  \A s, t \in Word, x \in STRING : Append(s, x) \o t = s \o (<<x>> \o t)
  BY JoinedOnceOfAny, Zenon DEF Word

LEMMA PairFacts ==
  /\ \A x, y : <<x, y>>[1] = x /\ <<x, y>>[2] = y
  OBVIOUS

\* What is declared below a message is registered ...
LEMMA DeclaredIsThere ==
  ASSUME NEW file, Nestable(file), NEW names, NamesAre(names, file)
  PROVE  \A d \in 0 .. MaxNesting : \A p \in Everywhere(file) : \A n \in names[d][p[2]] :
           \E o \in Word : n = <<Append(o, n[2].name), n[2]>> /\ <<p[1] \o o, n[2]>> \in Everywhere(file)
  <1> DEFINE There(d, p, n) == \E o \in Word : n = <<Append(o, n[2].name), n[2]>> /\ <<p[1] \o o, n[2]>> \in Everywhere(file)
             Q(d) == \A p \in Everywhere(file) : \A n \in names[d][p[2]] : There(d, p, n)
             good == {d \in Nat : d <= MaxNesting => Q(d)}
  <1>1. MaxNesting \in Nat
    BY Zenon DEF Nestable
  <1>2. ASSUME NEW d \in 0 .. MaxNesting, d = 0 \/ Q(d - 1) PROVE Q(d)
    <2> SUFFICES ASSUME NEW p \in Everywhere(file), NEW n \in names[d][p[2]]
                 PROVE  There(d, p, n)
      BY Zenon
    <2> DEFINE m == p[2]
    <2>1. /\ p[1] \in Word /\ p = <<p[1], m>> /\ m.name \in STRING /\ m \in MessagesIn(file)
          /\ \A k \in ToSet(m.nested) : <<Within(p[1], m), k>> \in Everywhere(file)
      BY Everything, Zenon DEF IsDeclaration
    <2>2. n = Names0(m) \/ (d # 0 /\ Deeper(names[d - 1], m, n))
      BY <2>1, Zenon DEF NamesAre
    <2>3. CASE n = Names0(m)
      <3>1. n[2] = m /\ n = <<Append(<<>>, m.name), m>>
        BY <2>1, <2>3, JoinLeft, PairFacts, Zenon DEF Names0
      <3>2. p[1] \o <<>> = p[1] /\ <<>> \in Word
        BY <2>1, JoinLeft, Zenon
      <3> HIDE DEF m
      <3>3. <<p[1] \o <<>>, n[2]>> = p
        BY <2>1, <3>1, <3>2, Zenon
      <3> QED BY <3>1, <3>2, <3>3, Zenon
    <2>4. CASE d # 0 /\ Deeper(names[d - 1], m, n)
      <3>1. PICK k \in ToSet(m.nested) : \E l \in names[d - 1][k] : n = Put(m, l)
        BY <2>4, Zenon DEF Deeper
      <3>2. PICK l \in names[d - 1][k] : n = Put(m, l)
        BY <3>1, Zenon
      <3> DEFINE q == <<Within(p[1], m), k>>
      <3>3. q \in Everywhere(file) /\ q[1] = Append(p[1], m.name) /\ q[2] = k
        BY <2>1, PairFacts, Zenon DEF Within
      <3> HIDE DEF q
      <3>4. There(d - 1, q, l)
        BY <1>2, <2>4, <3>2, <3>3, Zenon
      <3>5. PICK o \in Word : l = <<Append(o, l[2].name), l[2]>> /\ <<q[1] \o o, l[2]>> \in Everywhere(file)
        BY <3>4, Zenon
      <3> DEFINE x == m.name
                 y == l[2]
                 r == <<x>> \o o
      <3>6. /\ n[2] = y /\ n[1] = <<x>> \o l[1]
        BY <3>2, PairFacts, Zenon DEF Put
      <3>7. x \in STRING /\ y.name \in STRING
        <4>1. IsDeclaration(<<q[1] \o o, l[2]>>[2])
          BY <3>5, Everything, Zenon
        <4> QED BY <2>1, <4>1, PairFacts, Zenon DEF IsDeclaration
      <3>8. l[1] = Append(o, y.name)
        BY <3>5, PairFacts, Zenon
      <3>9. r \in Word /\ <<x>> \o Append(o, y.name) = Append(r, y.name)
        <4> DEFINE z == y.name
        <4> HIDE DEF x, z
        <4>1. x \in STRING /\ z \in STRING
          BY <3>7, Zenon DEF x, z
        <4>2. o \in Seq(STRING) /\ <<x>> \in Seq(STRING)
          BY <4>1 DEF Word
        <4>3. r \in Seq(STRING)
          BY <4>2, ConcatProperties
        <4>4. <<x>> \o (o \o <<z>>) = (<<x>> \o o) \o <<z>>
          <5>1. <<z>> \in Seq(STRING)
            BY <4>1
          <5> QED BY <4>2, <5>1, ConcatAssociative
        <4>5. o \o <<z>> = Append(o, z) /\ r \o <<z>> = Append(r, z)
          BY <3>7, <4>2, <4>3, JoinLeft, <4>1, Zenon DEF Word
        <4> QED BY <4>3, <4>4, <4>5, Zenon DEF z, Word
      <3>10. q[1] \o o = p[1] \o r
        <4> DEFINE s == p[1]
        <4>1. q[1] = Append(s, x) /\ s \in Word /\ x \in STRING
          BY <2>1, <3>3, <3>7, Zenon
        <4> HIDE DEF s, x
        <4>3. Append(s, x) \o o = s \o r
          BY <4>1, JoinWithin, Zenon
        <4> QED BY <4>1, <4>3, Zenon DEF s
      <3> HIDE DEF r, y, x
      <3>11. n = <<n[1], n[2]>>
        BY <3>2, PairFacts, Zenon DEF Put
      <3>12. n = <<Append(r, n[2].name), n[2]>>
        BY <3>6, <3>8, <3>9, <3>11, Zenon
      <3>13. <<p[1] \o r, n[2]>> \in Everywhere(file)
        BY <3>5, <3>6, <3>10, Zenon DEF y
      <3> QED BY <3>9, <3>12, <3>13, Zenon
    <2> QED BY <2>2, <2>3, <2>4, Zenon
  <1> HIDE DEF Q
  <1>3. 0 \in good
    <2>1. 0 \in 0 .. MaxNesting
      BY <1>1
    <2> QED BY <1>2, <2>1
  <1>4. ASSUME NEW d \in Nat, d > 0, d - 1 \in good PROVE d \in good
    <2>1. d <= MaxNesting => d \in 0 .. MaxNesting /\ Q(d - 1)
      BY <1>1, <1>4
    <2> QED BY <1>2, <2>1
  <1>5. \A d \in 0 .. MaxNesting : Q(d)
    <2> HIDE DEF good
    <2>1. 0 \in Nat
      OBVIOUS
    <2>2. \A d \in Nat : d >= 0 => d \in good
      BY <1>3, <1>4, <2>1, Climbing
    <2>3. \A d \in 0 .. MaxNesting : d \in good
      BY <2>2
    <2> QED BY <2>3 DEF good
  <1> QED BY <1>5, Zenon DEF Q

\* ... and what is registered is declared.
LEMMA ThereIsDeclared ==
  ASSUME NEW file, Nestable(file), NEW names, NamesAre(names, file)
  PROVE  \A j \in 0 .. MaxNesting : \A p \in Level(file)[j] :
           \E m \in ToSet(file.msgs) : At(p) \in names[MaxNesting][m]
  <1> DEFINE V(j) == Level(file)[j]
             Declares(p, n, e) == \E m \in ToSet(file.msgs) : <<p[1] \o n[1], n[2]>> \in names[e][m]
             IsNamed(n) == n[1] \in Word /\ n = <<n[1], n[2]>>
             R(j) == \A p \in V(j), d \in 0 .. MaxNesting : d + j <= MaxNesting =>
                       \A n \in names[d][p[2]] : IsNamed(n) => Declares(p, n, d + j)
             good == {j \in Nat : j <= MaxNesting => R(j)}
  <1>1. MaxNesting \in Nat
    BY Zenon DEF Nestable
  <1>2. /\ V(0) = Tops(file)
        /\ \A d \in 1 .. MaxNesting : \A p : p \in V(d) <=> \E q \in V(d - 1) : p \in Inside(q)
    BY <1>1, LevelsUnfold, Zenon
  <1>3. \A j \in 0 .. MaxNesting : \A p \in V(j) : p \in Everywhere(file)
    BY Zenon DEF Everywhere
  <1> HIDE DEF V
  <1>4. R(0)
    <2> SUFFICES ASSUME NEW p \in V(0), NEW d \in 0 .. MaxNesting, NEW n \in names[d][p[2]], IsNamed(n)
                 PROVE  Declares(p, n, d + 0)
      BY Zenon
    <2>1. PICK m \in ToSet(file.msgs) : p = <<<<>>, m>>
      BY <1>2, Zenon DEF Tops
    <2>2. p[1] = <<>> /\ p[2] = m
      BY <2>1, PairFacts, Zenon
    <2>3. d + 0 = d
      OBVIOUS
    <2> DEFINE s == n[1]
    <2>4. s \in Seq(STRING)
      BY Zenon DEF Word
    <2>5. <<>> \o s = s
      <3> HIDE DEF s
      <3> QED BY <2>4, ConcatEmptySeq, Zenon
    <2>6. <<p[1] \o n[1], n[2]>> = n
      BY <2>2, <2>5, Zenon
    <2> QED BY <2>2, <2>3, <2>6, Zenon
  <1>5. ASSUME NEW j \in 1 .. MaxNesting, R(j - 1) PROVE R(j)
    <2> SUFFICES ASSUME NEW p \in V(j), NEW d \in 0 .. MaxNesting, d + j <= MaxNesting,
                        NEW n \in names[d][p[2]], IsNamed(n)
                 PROVE  Declares(p, n, d + j)
      BY Zenon
    <2> DEFINE e == d + 1
    <2>1. /\ e \in 0 .. MaxNesting /\ e # 0 /\ e - 1 = d /\ e + (j - 1) = d + j /\ e + (j - 1) <= MaxNesting
          /\ j - 1 \in 0 .. MaxNesting
      BY <1>1
    <2> HIDE DEF e
    <2>2. PICK q \in V(j - 1) : p \in Inside(q)
      BY <1>2, Zenon
    <2> DEFINE x == q[2].name
               a == Put(q[2], n)
    <2>3. PICK k \in ToSet(q[2].nested) : p = <<Within(q[1], q[2]), k>>
      BY <2>2, Zenon DEF Inside
    <2>4. p[1] = Append(q[1], x) /\ p[2] = k
      BY <2>3, PairFacts, Zenon DEF Within
    <2>5. q[1] \in Word /\ x \in STRING /\ q[2] \in MessagesIn(file)
      <3>1. q \in Everywhere(file)
        BY <1>3, <2>1, Zenon
      <3> QED BY <3>1, Everything, Zenon DEF IsDeclaration
    <2>6. Deeper(names[e - 1], q[2], a)
      BY <2>1, <2>4, Zenon DEF Deeper
    <2>7. a \in names[e][q[2]]
      BY <2>1, <2>5, <2>6, Zenon DEF NamesAre
    <2>8. a[1] = <<x>> \o n[1] /\ a[2] = n[2] /\ a = <<a[1], a[2]>>
      BY PairFacts, Zenon DEF Put
    <2>9. a[1] \in Word
      <3> DEFINE s == <<x>>
                 t == n[1]
      <3>1. t \in Seq(STRING)
        BY Zenon DEF Word
      <3>2. s \in Seq(STRING)
        BY <2>5, OneWord, Zenon DEF Word
      <3> HIDE DEF s, t
      <3>3. s \o t \in Seq(STRING)
        BY <3>1, <3>2, ConcatProperties, Zenon
      <3> QED BY <2>8, <3>3, Zenon DEF s, t, Word
    <2>10. Declares(q, a, e + (j - 1))
      <3> HIDE DEF a, Declares
      <3> QED BY <1>5, <2>1, <2>7, <2>8, <2>9, Zenon
    <2>11. q[1] \o a[1] = p[1] \o n[1]
      <3> DEFINE s == q[1]
                 t == n[1]
      <3>1. s \in Word /\ t \in Word
        BY <2>5, Zenon
      <3> HIDE DEF s, t, x
      <3>2. Append(s, x) \o t = s \o (<<x>> \o t)
        BY <2>5, <3>1, JoinWithin, Zenon
      <3> QED BY <2>4, <2>8, <3>2, Zenon DEF s, t
    <2> HIDE DEF a, x
    <2>12. Declares(p, n, e + (j - 1))
      BY <2>8, <2>10, <2>11, Zenon
    <2>13. e + (j - 1) = d + j
      BY <2>1, Zenon
    <2> HIDE DEF Declares
    <2> QED BY <2>12, <2>13, Zenon
  <1> HIDE DEF R
  <1>6. 0 \in good
    BY <1>4
  <1>7. ASSUME NEW j \in Nat, j > 0, j - 1 \in good PROVE j \in good
    <2>1. j <= MaxNesting => j \in 1 .. MaxNesting /\ R(j - 1)
      BY <1>1, <1>7
    <2> QED BY <1>5, <2>1
  <1>8. \A j \in 0 .. MaxNesting : R(j)
    <2> HIDE DEF good
    <2>1. 0 \in Nat
      OBVIOUS
    <2>2. \A j \in Nat : j >= 0 => j \in good
      BY <1>6, <1>7, <2>1, Climbing
    <2>3. \A j \in 0 .. MaxNesting : j \in good
      BY <2>2
    <2> QED BY <2>3 DEF good
  <1>9. ASSUME NEW j \in 0 .. MaxNesting, NEW p \in V(j)
        PROVE  \E m \in ToSet(file.msgs) : At(p) \in names[MaxNesting][m]
    <2> DEFINE d == MaxNesting - j
               n == Names0(p[2])
    <2>1. d \in 0 .. MaxNesting /\ d + j = MaxNesting /\ d + j <= MaxNesting
      BY <1>1
    <2> HIDE DEF d
    <2>2. p[1] \in Word /\ p[2].name \in STRING /\ p[2] \in MessagesIn(file)
      <3>1. p \in Everywhere(file)
        BY <1>3, Zenon
      <3> QED BY <3>1, Everything, Zenon DEF IsDeclaration
    <2>3. n \in names[d][p[2]]
      BY <2>1, <2>2, Zenon DEF NamesAre
    <2>4. n[1] = <<p[2].name>> /\ n[2] = p[2] /\ n = <<n[1], n[2]>>
      BY PairFacts, Zenon DEF Names0
    <2>5. n[1] \in Word
      BY <2>2, <2>4, OneWord, Zenon
    <2> HIDE DEF n
    <2>6. Declares(p, n, d + j)
      <3> HIDE DEF Declares
      <3> QED BY <1>8, <2>1, <2>3, <2>4, <2>5, Zenon DEF R
    <2>a. \A s \in Word, x \in STRING : s \o <<x>> = Append(s, x)
      BY JoinLeft, Zenon
    <2>7. p[1] \o n[1] = Append(p[1], p[2].name)
      BY <2>2, <2>4, <2>a, Zenon
    <2>8. <<p[1] \o n[1], n[2]>> = At(p)
      BY <2>4, <2>7, Zenon DEF At
    <2> QED BY <2>1, <2>6, <2>8, Zenon
  <1> QED BY <1>9, Zenon DEF V

\* So a file declares what it registers.
LEMMA DeclaresWhatItRegisters ==
  ASSUME NEW file, Nestable(file)
  PROVE  /\ \A n \in DeclaredIn(file) : \E p \in Everywhere(file) : n = At(p)
         /\ \A p \in Everywhere(file) : At(p) \in DeclaredIn(file)
  <1>1. MaxNesting \in Nat
    BY Zenon DEF Nestable
  <1>2. PICK names : NamesAre(names, file)
    BY <1>1, NamesUnfold, Zenon
  <1>3. \A n : n \in DeclaredIn(file) <=> \E m \in ToSet(file.msgs) : n \in names[MaxNesting][m]
    BY <1>2, Zenon DEF NamesAre
  <1>4. ASSUME NEW n \in DeclaredIn(file) PROVE \E p \in Everywhere(file) : n = At(p)
    <2>1. PICK m \in ToSet(file.msgs) : n \in names[MaxNesting][m]
      BY <1>3, Zenon
    <2> DEFINE top == <<<<>>, m>>
    <2>2. top \in Everywhere(file) /\ top[1] = <<>> /\ top[2] = m
      BY Everything, PairFacts, Zenon
    <2> HIDE DEF top
    <2>3. MaxNesting \in 0 .. MaxNesting
      BY <1>1
    <2>4. PICK o \in Word : n = <<Append(o, n[2].name), n[2]>> /\ <<top[1] \o o, n[2]>> \in Everywhere(file)
      BY <1>2, <2>1, <2>2, <2>3, DeclaredIsThere, Zenon
    <2>5. top[1] \o o = o
      BY <2>2, ConcatEmptySeq, Zenon DEF Word
    <2> DEFINE p == <<o, n[2]>>
    <2>6. p \in Everywhere(file) /\ p[1] = o /\ p[2] = n[2]
      BY <2>4, <2>5, PairFacts, Zenon
    <2>7. n = At(p)
      BY <2>4, <2>6, Zenon DEF At
    <2> QED BY <2>6, <2>7, Zenon
  <1>5. ASSUME NEW p \in Everywhere(file) PROVE At(p) \in DeclaredIn(file)
    <2>1. PICK j \in 0 .. MaxNesting : p \in Level(file)[j]
      BY Zenon DEF Everywhere
    <2>2. PICK m \in ToSet(file.msgs) : At(p) \in names[MaxNesting][m]
      BY <1>2, <2>1, ThereIsDeclared, Zenon
    <2> QED BY <1>3, <2>2, Zenon
  <1> QED BY <1>4, <1>5, Zenon

\* The names of a file's messages, and of its enums.
NamesOf(f) == {m.fqn : m \in Registered(f)}
NamesDeclaredIn(f) == {f.pkg \o n[1] : n \in DeclaredIn(f)}
EnumsDeclaredIn(f) ==
  {f.pkg \o <<e>> : e \in ToSet(f.enums)}
  \cup UNION {{(f.pkg \o n[1]) \o <<e>> : e \in ToSet(n[2].enums)} : n \in DeclaredIn(f)}
Entry(f, p) ==
  [fqn |-> FQMN(f.pkg, p[1], p[2].name), outers |-> p[1], name |-> p[2].name,
   fields |-> p[2].fields, syntax |-> f.syntax, enums |-> p[2].enums]

LEMMA EntryFields ==
  ASSUME NEW f, NEW p
  PROVE  /\ Entry(f, p).fqn = f.pkg \o Append(p[1], p[2].name) /\ Entry(f, p).name = p[2].name
         /\ Entry(f, p).fields = p[2].fields /\ Entry(f, p).enums = p[2].enums
  <1> DEFINE q == FQMN(f.pkg, p[1], p[2].name)
             a == p[1]
             b == p[2].name
             c == p[2].fields
             d == f.syntax
             e == p[2].enums
             r == [fqn |-> q, outers |-> a, name |-> b, fields |-> c, syntax |-> d, enums |-> e]
  <1>1. Entry(f, p) = r
    BY Zenon DEF Entry
  <1>2. q = f.pkg \o Append(p[1], p[2].name)
    BY Zenon DEF FQMN
  <1> HIDE DEF q, a, b, c, d, e
  <1>3. r.fqn = q /\ r.name = b /\ r.fields = c /\ r.enums = e
    OBVIOUS
  <1> QED BY <1>1, <1>2, <1>3, Zenon DEF b, c, e

LEMMA NotEmptyJoined ==
  ASSUME NEW S, NEW s \in Seq(S), NEW t \in Seq(S), NEW x \in S
  PROVE  s \o Append(t, x) \in Seq(S) /\ s \o Append(t, x) # <<>>
  <1>1. Append(t, x) \in Seq(S) /\ Len(Append(t, x)) = Len(t) + 1
    OBVIOUS
  <1> DEFINE u == Append(t, x)
  <1> HIDE DEF u
  <1>2. u \in Seq(S) /\ Len(u) # 0 /\ Len(u) \in Nat /\ Len(s) \in Nat
    BY <1>1 DEF u
  <1>3. s \o u \in Seq(S) /\ Len(s \o u) = Len(s) + Len(u)
    BY <1>2, ConcatProperties
  <1>4. Len(s \o u) # 0
    BY <1>2, <1>3
  <1>5. Len(<<>>) = 0
    OBVIOUS
  <1>6. s \o u # <<>>
    BY <1>4, <1>5, Zenon
  <1> QED BY <1>3, <1>6, Zenon DEF u

LEMMA JoinedWords ==
  \A s, t \in Word, x \in STRING : s \o Append(t, x) \in Word /\ s \o Append(t, x) # <<>>
  <1>1. \A S : \A s, t \in Seq(S), x \in S : s \o Append(t, x) \in Seq(S) /\ s \o Append(t, x) # <<>>
    BY NotEmptyJoined
  <1> QED BY <1>1, Zenon DEF Word

\* What a file registers is what it declares, each under its name.
LEMMA RegistersWhatItDeclares ==
  ASSUME NEW f, Nestable(f), f.pkg \in Word, ToSet(f.enums) \subseteq STRING
  PROVE  /\ \A m \in Registered(f) : m.fqn \in Word /\ m.fqn # <<>> /\ IsDeclaration(m)
         /\ NamesOf(f) = NamesDeclaredIn(f)
         /\ RegisteredEnums(f) = EnumsDeclaredIn(f)
         /\ <<>> \notin RegisteredEnums(f)
  <1> DEFINE E == Everywhere(f)
             name(p) == f.pkg \o Append(p[1], p[2].name)
  <1>1. Registered(f) = {Entry(f, p) : p \in E}
    BY Zenon DEF Registered, Entry, Everywhere
  <1>2. \A p \in E : p[1] \in Word /\ IsDeclaration(p[2])
    BY Everything, Zenon
  <1>3. ASSUME NEW p \in E
        PROVE  /\ Entry(f, p).fqn = name(p) /\ name(p) \in Word /\ name(p) # <<>>
               /\ Entry(f, p).enums = p[2].enums /\ IsDeclaration(Entry(f, p))
    <2> DEFINE r == Entry(f, p)
    <2>1. r.fqn = name(p) /\ r.name = p[2].name /\ r.fields = p[2].fields /\ r.enums = p[2].enums
      BY EntryFields, Zenon
    <2>2. p[2].name \in STRING
      BY <1>2, Zenon DEF IsDeclaration
    <2>3. name(p) \in Word /\ name(p) # <<>>
      BY <1>2, <2>2, JoinedWords, Zenon
    <2>4. IsDeclaration(p[2])
      BY <1>2, Zenon
    <2> HIDE DEF r
    <2>5. IsDeclaration(r)
      BY <2>1, <2>4, Zenon DEF IsDeclaration
    <2> QED BY <2>1, <2>3, <2>5, Zenon DEF r
  <1>4. /\ \A n \in DeclaredIn(f) : \E p \in E : n = At(p)
        /\ \A p \in E : At(p) \in DeclaredIn(f)
    BY DeclaresWhatItRegisters, Zenon
  <1>5. \A p : At(p)[1] = Append(p[1], p[2].name) /\ At(p)[2] = p[2]
    BY PairFacts, Zenon DEF At
  <1>6. \A m \in Registered(f) : m.fqn \in Word /\ m.fqn # <<>> /\ IsDeclaration(m)
    BY <1>1, <1>3, Zenon
  <1>7. \A x : x \in NamesOf(f) <=> \E p \in E : x = name(p)
    BY <1>1, <1>3, Zenon DEF NamesOf
  <1>8. \A x : x \in NamesDeclaredIn(f) <=> \E p \in E : x = name(p)
    BY <1>4, <1>5, Zenon DEF NamesDeclaredIn
  <1>9. NamesOf(f) = NamesDeclaredIn(f)
    BY <1>7, <1>8, Zenon
  <1> DEFINE Of(m) == {Append(m.fqn, e) : e \in ToSet(m.enums)}
             In(n) == {(f.pkg \o n[1]) \o <<e>> : e \in ToSet(n[2].enums)}
             top   == {FQMN(f.pkg, <<>>, e) : e \in ToSet(f.enums)}
             top2  == {f.pkg \o <<e>> : e \in ToSet(f.enums)}
  <1>10. top = top2
    <2>1. \A e : Append(<<>>, e) = <<e>>
      OBVIOUS
    <2>2. \A e : FQMN(f.pkg, <<>>, e) = f.pkg \o <<e>>
      BY <2>1, Zenon DEF FQMN
    <2> QED BY <2>2, Zenon
  <1>11. \A p \in E : Of(Entry(f, p)) = In(At(p))
    <2> SUFFICES ASSUME NEW p \in E PROVE Of(Entry(f, p)) = In(At(p))
      BY Zenon
    <2> DEFINE s == name(p)
               S == ToSet(p[2].enums)
    <2>1. Entry(f, p).fqn = s /\ Entry(f, p).enums = p[2].enums /\ s \in Word /\ S \subseteq STRING
      BY <1>2, <1>3, Zenon DEF IsDeclaration
    <2>2. f.pkg \o At(p)[1] = s /\ At(p)[2] = p[2]
      BY <1>5, Zenon
    <2>3. \A t \in Word, x \in STRING : t \o <<x>> = Append(t, x)
      BY JoinLeft, Zenon
    <2> HIDE DEF s
    <2>4. \A e \in S : Append(s, e) = s \o <<e>>
      BY <2>1, <2>3, Zenon
    <2>5. Of(Entry(f, p)) = {Append(s, e) : e \in S}
      BY <2>1, Zenon
    <2>6. In(At(p)) = {s \o <<e>> : e \in S}
      BY <2>2, Zenon
    <2>7. {Append(s, e) : e \in S} = {s \o <<e>> : e \in S}
      <3> HIDE DEF S
      <3> QED BY <2>4
    <2> QED BY <2>5, <2>6, <2>7, Zenon
  <1>12. RegisteredEnums(f) = top \cup UNION {Of(m) : m \in Registered(f)}
    BY Zenon DEF RegisteredEnums
  <1>13. EnumsDeclaredIn(f) = top2 \cup UNION {In(n) : n \in DeclaredIn(f)}
    BY Zenon DEF EnumsDeclaredIn
  <1>14. \A p \in E, e \in STRING : Append(name(p), e) # <<>>
    <2>1. \A t, e : Append(t, e) # <<>> \/ t \notin Seq(STRING) \/ e \notin STRING
      <3> DEFINE S == STRING
      <3>1. \A R : \A t \in Seq(R), e \in R : Append(t, e) # <<>>
        OBVIOUS
      <3> QED BY <3>1, Zenon
    <2> QED BY <1>3, <2>1, Zenon DEF Word
  <1>15. <<>> \notin top
    <2>1. <<>> \in Word
      BY DEF Word
    <2> QED BY <2>1, JoinedWords, Zenon DEF FQMN
  <1>16. \A p \in E : \A e \in ToSet(p[2].enums) : e \in STRING
    BY <1>2, Zenon DEF IsDeclaration
  <1>17. \A p \in E : <<>> \notin Of(Entry(f, p))
    BY <1>3, <1>14, <1>16, Zenon
  <1> HIDE DEF Of, In, top, top2, name
  <1>18. RegisteredEnums(f) = EnumsDeclaredIn(f)
    <2>1. \A x : x \in UNION {Of(m) : m \in Registered(f)} <=> \E p \in E : x \in Of(Entry(f, p))
      BY <1>1, Zenon
    <2>2. \A x : x \in UNION {In(n) : n \in DeclaredIn(f)} <=> \E p \in E : x \in In(At(p))
      BY <1>4, Zenon
    <2>3. \A x : x \in RegisteredEnums(f) <=> x \in EnumsDeclaredIn(f)
      BY <1>10, <1>11, <1>12, <1>13, <2>1, <2>2, Zenon
    <2> QED BY <2>3, Zenon
  <1>19. <<>> \notin RegisteredEnums(f)
    BY <1>1, <1>12, <1>15, <1>17, Zenon
  <1> QED BY <1>6, <1>9, <1>18, <1>19, Zenon

-----------------------------------------------------------------------------
(* The tables of messages and enums.                                        *)

Loaded == IF phase \in {"configure", "files"} THEN {Files[i] : i \in 1 .. next - 1} ELSE ToSet(Files)

\* Some name has no message.
Blamed == MissingIn(msgs) \/ \E f \in ToSet(Files) : \E m \in ToSet(MethodsOf(f)) : MethodMissing(f, m)

\* The tables have what the files loaded so far register, and nothing else, and
\* an error for a missing message has its cause.
TablesKept ==
  /\ phase \in {"configure", "files"} => next <= Len(Files) + 1
  /\ DOMAIN msgs = UNION {NamesOf(f) : f \in Loaded}
  /\ \A n \in DOMAIN msgs : \E f \in Loaded : msgs[n] \in Registered(f) /\ msgs[n].fqn = n
  /\ enums = UNION {RegisteredEnums(f) : f \in Loaded}
  /\ failure = "missing" => phase = "failed" /\ Blamed

LEMMA TablesAtFirst == RegistryInit => TablesKept
  <1> SUFFICES ASSUME RegistryInit PROVE TablesKept
    OBVIOUS
  <1>1. phase = "configure" /\ next = 1 /\ msgs = <<>> /\ enums = {} /\ failure = "" /\ input \in Input
    BY Zenon DEF RegistryInit
  <1>2. DOMAIN msgs = {} /\ failure # "missing" /\ next - 1 = 0
    <2>1. DOMAIN <<>> = {} /\ "" # "missing" /\ 1 - 1 = 0
      OBVIOUS
    <2> QED BY <1>1, <2>1, Zenon
  <1>3. Loaded = {}
    <2>1. Loaded = {Files[i] : i \in 1 .. next - 1}
      BY <1>1, Zenon DEF Loaded
    <2>2. \A i \in 1 .. next - 1 : FALSE
      BY <1>2
    <2> QED BY <2>1, <2>2, Zenon
  <1>4. next <= Len(Files) + 1
    <2>1. Files \in Seq(ToSet(Files))
      BY <1>1, FilesAssumption, Zenon DEF Files
    <2> DEFINE s == Files
               S == ToSet(Files)
    <2>2. s \in Seq(S)
      BY <2>1, Zenon
    <2> HIDE DEF s, S
    <2>3. 1 <= Len(s) + 1
      BY <2>2
    <2> QED BY <1>1, <2>3, Zenon DEF s
  <1>5. /\ DOMAIN msgs = UNION {NamesOf(f) : f \in Loaded}
        /\ enums = UNION {RegisteredEnums(f) : f \in Loaded}
    BY <1>1, <1>2, <1>3, Zenon
  <1> QED BY <1>2, <1>4, <1>5, Zenon DEF TablesKept

\* A step that loads no file.
LEMMA SameTables ==
  ASSUME TablesKept, UNCHANGED <<input, msgs, enums>>, Loaded' = Loaded,
         phase' \in {"configure", "files"} => next' <= Len(Files) + 1,
         failure' = "missing" => phase' = "failed" /\ Blamed
  PROVE  TablesKept'
  <1>1. Files' = Files
    BY Zenon DEF Files
  <1>2. Blamed' <=> Blamed
    <2>1. MissingIn(msgs)' <=> MissingIn(msgs)
      BY Zenon DEF MissingIn
    <2>2. \A f, m : MethodMissing(f, m)' <=> MethodMissing(f, m)
      BY Zenon DEF MethodMissing
    <2> QED BY <1>1, <2>1, <2>2, Zenon DEF Blamed
  <1>3. /\ DOMAIN msgs' = UNION {NamesOf(f) : f \in Loaded'}
        /\ \A n \in DOMAIN msgs' : \E f \in Loaded' : msgs'[n] \in Registered(f) /\ msgs'[n].fqn = n
        /\ enums' = UNION {RegisteredEnums(f) : f \in Loaded'}
    BY Zenon DEF TablesKept
  <1> QED BY <1>1, <1>2, <1>3, Zenon DEF TablesKept

LEMMA OthersKeepTables ==
  ASSUME TablesKept,
         \/ Configure \/ Load \/ ServicesLoaded \/ CheckDuplicateAnnotation
         \/ RegisterOpenAPIOptions \/ UNCHANGED registryVars
  PROVE  TablesKept'
  <1>1. /\ UNCHANGED <<input, msgs, enums, failure>>
        /\ \/ phase = "configure" /\ phase' = "files" /\ next' = next
           \/ phase \in {"services", "loaded"} /\ phase' = "loaded"
           \/ phase' = phase /\ next' = next
    <2>1. ServicesLoaded \/ CheckDuplicateAnnotation =>
            /\ UNCHANGED <<input, msgs, enums, failure>>
            /\ phase \in {"services", "loaded"} /\ phase' = "loaded"
      BY Zenon DEF ServicesLoaded, CheckDuplicateAnnotation
    <2> QED BY <2>1, Zenon DEF Configure, Load, RegisterOpenAPIOptions, registryVars, configVars, loadVars
  <1>2. Files' = Files
    BY <1>1, Zenon DEF Files
  <1>3. /\ phase' \in {"configure", "files"} <=> phase \in {"configure", "files"}
        /\ phase' \in {"configure", "files"} => next' = next
        /\ phase = "failed" => phase' = "failed"
    BY <1>1
  <1>4. Loaded' = Loaded
    BY <1>2, <1>3, Zenon DEF Loaded
  <1>5. phase' \in {"configure", "files"} => next' <= Len(Files) + 1
    BY <1>3, Zenon DEF TablesKept
  <1>6. failure' = "missing" => phase' = "failed" /\ Blamed
    BY <1>1, <1>3, Zenon DEF TablesKept
  <1> QED BY <1>1, <1>4, <1>5, <1>6, SameTables, Zenon

LEMMA FilesLoadedKeepsTables ==
  ASSUME RulesKept, TablesKept, FilesLoaded
  PROVE  TablesKept'
  <1> DEFINE s == Files
             S == ToSet(Files)
  <1>1. /\ UNCHANGED <<input, msgs, enums, failure>>
        /\ phase = "files" /\ phase' = "services" /\ next > Len(s)
    BY Zenon DEF FilesLoaded
  <1>2. s \in Seq(S) /\ next \in Nat \ {0} /\ next <= Len(s) + 1
    BY <1>1, FilesAssumption, Zenon DEF TablesKept, RulesKept, Files
  <1>3. S = {s[i] : i \in DOMAIN s}
    BY Zenon DEF ToSet
  <1> HIDE DEF s, S
  <1>4. 1 .. next - 1 = DOMAIN s
    BY <1>1, <1>2
  <1>5. Loaded = S
    BY <1>1, <1>3, <1>4, Zenon DEF Loaded, s
  <1>6. phase' \notin {"configure", "files"} /\ phase # "failed"
    BY <1>1
  <1>7. Loaded' = S
    <2>1. Files' = Files
      BY <1>1, Zenon DEF Files
    <2> QED BY <1>6, <2>1, Zenon DEF Loaded, S
  <1>8. failure' # "missing"
    BY <1>1, <1>6, Zenon DEF TablesKept
  <1> QED BY <1>1, <1>5, <1>6, <1>7, <1>8, SameTables, Zenon

LEMMA FileIsNestable ==
  ASSUME RulesKept, NEW f \in ToSet(Files)
  PROVE  Nestable(f) /\ f.pkg \in Word /\ ToSet(f.enums) \subseteq STRING
  <1>1. input \in Input /\ f \in ToSet(input.files)
    BY Zenon DEF RulesKept, Files
  <1> QED BY <1>1, FilesAssumption, NamesAssumption, Zenon DEF Nestable, Word

LEMMA LoadedAreFiles ==
  ASSUME RulesKept, TablesKept, NEW f \in Loaded
  PROVE  f \in ToSet(Files)
  <1>1. CASE phase \in {"configure", "files"}
    <2> DEFINE s == Files
               S == ToSet(Files)
    <2>1. s \in Seq(S) /\ next \in Nat \ {0} /\ next <= Len(s) + 1
      BY <1>1, FilesAssumption, Zenon DEF TablesKept, RulesKept, Files
    <2>2. PICK i \in 1 .. next - 1 : f = s[i]
      BY <1>1, Zenon DEF Loaded
    <2> HIDE DEF s, S
    <2>3. i \in 1 .. Len(s)
      BY <2>1
    <2>4. s[i] \in S
      BY <2>1, <2>3
    <2> QED BY <2>2, <2>4, Zenon DEF S
  <1>2. CASE phase \notin {"configure", "files"}
    BY <1>2, Zenon DEF Loaded
  <1> QED BY <1>1, <1>2

LEMMA KeptIsTable ==
  ASSUME RulesKept, TablesKept
  PROVE  IsTable(msgs)
  <1> SUFFICES ASSUME NEW n \in DOMAIN msgs
               PROVE  n \in Word /\ n # <<>> /\ IsDeclaration(msgs[n])
    BY Zenon DEF IsTable
  <1>1. PICK f \in Loaded : msgs[n] \in Registered(f) /\ msgs[n].fqn = n
    BY Zenon DEF TablesKept
  <1>2. Nestable(f) /\ f.pkg \in Word /\ ToSet(f.enums) \subseteq STRING
    BY LoadedAreFiles, FileIsNestable, Zenon
  <1>3. \A m \in Registered(f) : m.fqn \in Word /\ m.fqn # <<>> /\ IsDeclaration(m)
    BY <1>2, RegistersWhatItDeclares, Zenon
  <1> QED BY <1>1, <1>3, Zenon

LEMMA FirstOfMore ==
  ASSUME NEW s, NEW n \in Nat \ {0}
  PROVE  {s[i] : i \in 1 .. (n + 1) - 1} = {s[i] : i \in 1 .. n - 1} \cup {s[n]}
  <1>1. \A i : i \in 1 .. (n + 1) - 1 <=> i \in 1 .. n - 1 \/ i = n
    OBVIOUS
  <1> QED BY <1>1, Zenon

LEMMA LoadFileKeepsTables ==
  ASSUME RulesKept, TablesKept, LoadFile
  PROVE  TablesKept'
  <1> DEFINE f == Files[next]
             found == Registered(f)
             names == NamesOf(f)
             new(n) == IF n \in names THEN CHOOSE m \in found : m.fqn = n ELSE msgs[n]
             more == DOMAIN msgs \cup names
  <1>1. /\ phase = "files" /\ next <= Len(Files) /\ next' = next + 1
        /\ UNCHANGED <<phase, input, failure>>
        /\ msgs' = [n \in more |-> new(n)]
        /\ enums' = enums \cup RegisteredEnums(f)
    BY Zenon DEF LoadFile, NamesOf
  <1>2. Files' = Files
    BY <1>1, Zenon DEF Files
  <1>3. next \in Nat \ {0}
    BY Zenon DEF RulesKept
  <1>4. Loaded = {Files[i] : i \in 1 .. next - 1} /\ Loaded' = {Files[i] : i \in 1 .. (next + 1) - 1}
    BY <1>1, <1>2, Zenon DEF Loaded
  <1>5. Loaded' = Loaded \cup {f}
    BY <1>3, <1>4, FirstOfMore, Zenon
  <1>6. next' <= Len(Files') + 1
    <2> DEFINE s == Files
               S == ToSet(Files)
    <2>1. s \in Seq(S)
      BY FilesAssumption, Zenon DEF RulesKept, Files
    <2>2. next <= Len(s) /\ next' = next + 1
      BY <1>1, Zenon
    <2> HIDE DEF s, S
    <2>3. next' <= Len(s) + 1
      BY <1>3, <2>1, <2>2
    <2> QED BY <1>2, <2>3, Zenon DEF s
  <1> HIDE DEF new, more
  <1>7. DOMAIN msgs' = more /\ \A n \in more : msgs'[n] = new(n)
    BY <1>1
  <1>8. DOMAIN msgs = UNION {NamesOf(g) : g \in Loaded} /\ enums = UNION {RegisteredEnums(g) : g \in Loaded}
    BY Zenon DEF TablesKept
  <1>9. DOMAIN msgs' = UNION {NamesOf(g) : g \in Loaded'}
    <2>1. \A n : n \in UNION {NamesOf(g) : g \in Loaded'} <=> n \in more
      BY <1>5, <1>8, Zenon DEF more
    <2> QED BY <1>7, <2>1, Zenon
  <1>10. enums' = UNION {RegisteredEnums(g) : g \in Loaded'}
    <2>1. \A n : n \in UNION {RegisteredEnums(g) : g \in Loaded'} <=> n \in enums \cup RegisteredEnums(f)
      BY <1>5, <1>8, Zenon
    <2> QED BY <1>1, <2>1, Zenon
  <1>11. ASSUME NEW n \in DOMAIN msgs'
         PROVE  \E g \in Loaded' : msgs'[n] \in Registered(g) /\ msgs'[n].fqn = n
    <2>1. CASE n \in names
      <3>1. \E m \in found : m.fqn = n
        BY <2>1, Zenon DEF NamesOf
      <3>2. (CHOOSE m \in found : m.fqn = n) \in found /\ (CHOOSE m \in found : m.fqn = n).fqn = n
        BY <3>1, Zenon
      <3>3. msgs'[n] \in found /\ msgs'[n].fqn = n
        BY <1>7, <2>1, <3>2, Zenon DEF new
      <3> QED BY <1>5, <3>3, Zenon
    <2>2. CASE n \notin names
      <3>1. n \in DOMAIN msgs /\ msgs'[n] = msgs[n]
        BY <1>7, <2>2, Zenon DEF new, more
      <3>2. PICK g \in Loaded : msgs[n] \in Registered(g) /\ msgs[n].fqn = n
        BY <3>1, Zenon DEF TablesKept
      <3> QED BY <1>5, <3>1, <3>2, Zenon
    <2> QED BY <2>1, <2>2
  <1>12. failure' # "missing"
    <2>1. phase # "failed"
      BY <1>1
    <2> QED BY <1>1, <2>1, Zenon DEF TablesKept
  <1> QED BY <1>6, <1>9, <1>10, <1>11, <1>12, Zenon DEF TablesKept

LEMMA LoadServicesKeepsTables ==
  ASSUME RulesKept, TablesKept, LoadServices
  PROVE  TablesKept'
  <1> DEFINE f   == Files[next]
             res == LoadMethods(f)
             D   == ToSet(Files)
  <1>1. /\ phase = "services" /\ next <= Len(Files) /\ UNCHANGED <<input, msgs, enums>>
        /\ \/ UNCHANGED <<phase, failure>>
           \/ phase' = "failed" /\ failure' = res.err
    BY Zenon DEF LoadServices
  <1>2. f \in D
    <2>1. Files \in Seq(D)
      BY FilesAssumption, Zenon DEF RulesKept, Files
    <2>2. next \in Nat \ {0} /\ next <= Len(Files)
      BY <1>1, Zenon DEF RulesKept
    <2>3. \A n \in Nat \ {0} : n <= Len(Files) => n \in 1 .. Len(Files) /\ Files[n] \in D
      BY <2>1, InSequence, Zenon
    <2> QED BY <2>2, <2>3, Zenon
  <1>3. res.err = "missing" => Blamed
    BY <1>2, KeptIsTable, LoadBlames, Zenon DEF Blamed
  <1>4. phase \notin {"configure", "files"} /\ phase' \notin {"configure", "files"} /\ phase # "failed"
    <2>1. \A p : p = "services" \/ p = "failed" => p \notin {"configure", "files"}
      OBVIOUS
    <2>2. "services" # "failed"
      OBVIOUS
    <2> QED BY <1>1, <2>1, <2>2, Zenon
  <1>5. Files' = Files
    BY <1>1, Zenon DEF Files
  <1>6. Loaded' = Loaded
    BY <1>4, <1>5, Zenon DEF Loaded
  <1>7. failure' = "missing" => phase' = "failed" /\ Blamed
    BY <1>1, <1>3, <1>4, Zenon DEF TablesKept
  <1> QED BY <1>1, <1>4, <1>6, <1>7, SameTables, Zenon

LEMMA TablesAlwaysKept == RegistrySpec => [](RulesKept /\ TablesKept)
  <1>1. RulesKept /\ TablesKept /\ [RegistryNext]_registryVars => TablesKept'
    BY LoadFileKeepsTables, LoadServicesKeepsTables, FilesLoadedKeepsTables, OthersKeepTables, Zenon
       DEF RegistryNext
  <1> QED BY <1>1, TablesAtFirst, RulesAlwaysKept, PTL DEF RegistrySpec

LEMMA KeptIsResolved ==
  ASSUME RulesKept, TablesKept
  PROVE  ReferencesResolve
  <1>1. IsTable(msgs)
    BY KeptIsTable, Zenon
  <1>2. ASSUME NEW f \in ToSet(Files)
        PROVE  /\ NamesOf(f) = NamesDeclaredIn(f)
               /\ RegisteredEnums(f) = EnumsDeclaredIn(f) /\ <<>> \notin RegisteredEnums(f)
    BY FileIsNestable, RegistersWhatItDeclares, Zenon
  <1>3. ASSUME phase \in {"services", "loaded", "failed"}
        PROVE  /\ DOMAIN msgs = Declared /\ enums = DeclaredEnums /\ <<>> \notin enums
    <2>1. Loaded = ToSet(Files)
      <3>1. phase \notin {"configure", "files"}
        BY <1>3
      <3> QED BY <3>1, Zenon DEF Loaded
    <2>2. /\ DOMAIN msgs = UNION {NamesOf(f) : f \in ToSet(Files)}
          /\ enums = UNION {RegisteredEnums(f) : f \in ToSet(Files)}
      BY <2>1, Zenon DEF TablesKept
    <2>3. DOMAIN msgs = Declared
      <3>1. \A x : x \in UNION {NamesOf(f) : f \in ToSet(Files)}
                     <=> x \in UNION {NamesDeclaredIn(f) : f \in ToSet(Files)}
        BY <1>2, Zenon
      <3> QED BY <2>2, <3>1, Zenon DEF Declared, NamesDeclaredIn
    <2>4. enums = DeclaredEnums
      <3>1. \A x : x \in UNION {RegisteredEnums(f) : f \in ToSet(Files)}
                     <=> x \in UNION {EnumsDeclaredIn(f) : f \in ToSet(Files)}
        BY <1>2, Zenon
      <3> QED BY <2>2, <3>1, Zenon DEF DeclaredEnums, EnumsDeclaredIn
    <2>5. <<>> \notin enums
      BY <1>2, <2>2, Zenon
    <2> QED BY <2>3, <2>4, <2>5
  <1>4. ASSUME phase \in {"services", "loaded", "failed"},
               NEW m \in DOMAIN msgs, NEW f \in ToSet(msgs[m].fields)
        PROVE  LookupEnum(m, f.type) # NotFound <=> ResolvableIn(DeclaredEnums, m, f.type)
    <2>1. m \in Word /\ IsTypeName(f.type)
      BY <1>1, Zenon DEF IsTable, IsDeclaration
    <2>2. enums = DeclaredEnums /\ <<>> \notin enums
      BY <1>3, <1>4, Zenon
    <2>3. LookupName(enums, m, f.type) # NotFound <=> ResolvableIn(enums, m, f.type)
      BY <2>1, <2>2, LookupFinds, Zenon
    <2> QED BY <2>2, <2>3, Zenon DEF LookupEnum
  <1>5. failure = "missing" =>
          \/ \E f \in ToSet(Files) : \E m \in ToSet(MethodsOf(f)) :
               ~Resolvable(f.pkg, m[2].input) \/ ~Resolvable(f.pkg, m[2].output)
          \/ \E m \in DOMAIN msgs : \E f \in ToSet(msgs[m].fields) :
               IsAggregate(f) /\ ~Resolvable(m, f.type)
    <2> SUFFICES ASSUME failure = "missing"
                 PROVE  \/ \E f \in ToSet(Files) : \E m \in ToSet(MethodsOf(f)) :
                             ~Resolvable(f.pkg, m[2].input) \/ ~Resolvable(f.pkg, m[2].output)
                        \/ \E m \in DOMAIN msgs : \E f \in ToSet(msgs[m].fields) :
                             IsAggregate(f) /\ ~Resolvable(m, f.type)
      BY Zenon
    <2>1. phase = "failed" /\ Blamed
      BY Zenon DEF TablesKept
    <2>2. DOMAIN msgs = Declared
      <3>1. phase \in {"services", "loaded", "failed"}
        BY <2>1
      <3> QED BY <1>3, <3>1, Zenon
    <2>3. \A location, name : ResolvableIn(DOMAIN msgs, location, name) <=> Resolvable(location, name)
      BY <2>2, Zenon DEF Resolvable
    <2>4. CASE MissingIn(msgs)
      BY <2>3, <2>4, Zenon DEF MissingIn
    <2>5. CASE \E f \in ToSet(Files) : \E m \in ToSet(MethodsOf(f)) : MethodMissing(f, m)
      BY <2>3, <2>5, Zenon DEF MethodMissing
    <2> QED BY <2>1, <2>4, <2>5, Zenon DEF Blamed
  <1> QED BY <1>3, <1>4, <1>5, Zenon DEF ReferencesResolve

\* However the files come and whatever they declare, the load fails for a
\* missing message only if some name has none, every message is registered
\* under the names of all around it, and a field finds its enum if there is
\* one.  About loadFile, registerMsg, registerEnum, LookupMsg, LookupEnum and
\* resolveFieldPath.
THEOREM ReferencesAlwaysResolve == RegistrySpec => []ReferencesResolve
  BY TablesAlwaysKept, KeptIsResolved, PTL
==============================================================================
