--------------------------- MODULE FieldPopulation ---------------------------
(***************************************************************************)
(* Values of a query written into a message (binding.go).                   *)
(*                                                                         *)
(* A message is what it holds: a function from field paths to sequences of  *)
(* values.  A scalar has one, a list all of its own, a message that is there *)
(* none; an entry of a map has its key as a further name.                   *)
(***************************************************************************)
EXTENDS DescriptorTypes, Scalar, TLC

NoField == [name |-> ""]
Present == <<>>

IsSingularMessage(f) == IsAggregate(f) /\ f.label # "repeated"
IsList(f)            == f.label = "repeated" /\ ~f.map

Named(msg, x) == SelectSeq(msg.fields, LAMBDA f : f.name = x)
              \o SelectSeq(msg.fields, LAMBDA f : f.json = x)

\* By its name, then by its JSON name.
FieldOf(msg, x) == IF Named(msg, x) = <<>> THEN NoField ELSE Named(msg, x)[1]

MessageOf(msgs, fqn, f) == LookupName(DOMAIN msgs, fqn, f.type)

AsSpelled(msgs, root, path) == path

\* normalizeFieldPath: the names, or the path as it was.
Normalize(msgs, root, path) ==
  LET Step(acc, x) ==
        LET f == IF acc.fqn = NotFound THEN NoField ELSE FieldOf(msgs[acc.fqn], x)
        IN  IF f = NoField THEN [acc EXCEPT !.ok = FALSE, !.fqn = NotFound]
            ELSE [acc EXCEPT !.names = Append(@, f.name),
                             !.fqn   = IF IsSingularMessage(f) THEN MessageOf(msgs, acc.fqn, f)
                                                               ELSE NotFound]
      result == FoldLeft(Step, [ok |-> TRUE, fqn |-> root, names |-> <<>>], path)
  IN  IF result.ok THEN result.names ELSE path

-----------------------------------------------------------------------------
(* parseField.                                                             *)

ParsedTypes ==
  [Timestamp |-> "seconds", Duration |-> "seconds", FieldMask |-> "paths", Value |-> "kind",
   Struct |-> "fields"] @@ [x \in WellKnownTypes |-> "value"]

\* What is set; of a message one field stands for all.
Content(f, read) ==
  IF IsAggregate(f) THEN (<<>> :> Present) @@ (<<ParsedTypes[Last(f.type.parts)]>> :> read)
                    ELSE <<>> :> read

IsParsed(f) == \E x \in DOMAIN ParsedTypes : f.type.parts = WellKnown(x)

ParseField(f, x) ==
  IF ~IsAggregate(f) THEN ParseScalar(f.kind, x)
  ELSE IF IsParsed(f) THEN ParseMessage(Last(f.type.parts), x) ELSE <<>>

-----------------------------------------------------------------------------
(* Messages.                                                               *)

Below(p, held) == {q \in DOMAIN held : IsPrefix(p, q)}

\* Set replaces what was there.
SetAt(held, p, content) ==
  [q \in {p \o s : s \in DOMAIN content} |-> content[SubSeq(q, Len(p) + 1, Len(q))]]
  @@ [q \in DOMAIN held \ Below(p, held) |-> held[q]]

Mutable(held, p)   == IF p \in DOMAIN held THEN held ELSE (p :> Present) @@ held
Appended(held, p, read) == (p :> (IF p \in DOMAIN held THEN held[p] \o read ELSE read)) @@ held

\* The field a oneof holds may be entered, not set; another one not at all.
OneofTaken(held, at, msg, f) ==
  /\ InOneof(f)
  /\ \E g \in ToSet(msg.fields) :
       /\ InOneof(g) /\ g.oneof = f.oneof /\ Append(at, g.name) \in DOMAIN held
       /\ ~IsAggregate(f) \/ g.name # f.name

\* A message on the way is entered and not made anew.
Renewed(held, p) == SetAt(held, p, <<>> :> Present)
Entered(held, p) == Mutable(held, p)

\* The walk of populateFieldValueFromPath to the last field.
WalkTo(msgs, root, held, path) ==
  LET Step(acc, i) ==
        LET msg == msgs[acc.fqn]
            f   == FieldOf(msg, path[i])
            p   == Append(acc.at, f.name)
        IN  IF acc.err # "" THEN acc
            ELSE IF f = NoField THEN [acc EXCEPT !.err = "unknown"]
            ELSE IF OneofTaken(acc.held, acc.at, msg, f) THEN [acc EXCEPT !.err = "oneof"]
            ELSE IF i = Len(path) THEN [acc EXCEPT !.at = p, !.field = f]
            ELSE IF ~IsSingularMessage(f) THEN [acc EXCEPT !.err = "not a message"]
            ELSE [acc EXCEPT !.held = Entered(@, p), !.at = p, !.fqn = MessageOf(msgs, acc.fqn, f)]
  IN  FoldLeft(Step, [err |-> "", held |-> held, at |-> <<>>, fqn |-> root, field |-> NoField],
               [i \in DOMAIN path |-> i])

\* populateRepeatedField: the values before the one that does not parse stay.
PopulateList(held, p, f, values) ==
  FoldLeft(LAMBDA acc, x : IF acc.err # "" THEN acc
                           ELSE IF ParseField(f, x) = <<>> THEN [acc EXCEPT !.err = "parse"]
                           ELSE [acc EXCEPT !.held = Appended(@, p, ParseField(f, x))],
           [err |-> "", held |-> held], values)

PutEntry(held, p, f, key, value) ==
  IF key = <<>> \/ value = <<>> THEN [err |-> "parse", held |-> held]
  ELSE [err |-> "", held |-> SetAt(held, p \o key, Content(f, value))]

PopulateMap(held, p, entry, values) ==
  IF Len(values) # 2 THEN [err |-> "map", held |-> held]
  ELSE PutEntry(held, p, FieldOf(entry, "value"),
                ParseField(FieldOf(entry, "key"), values[1]), ParseField(FieldOf(entry, "value"), values[2]))

Put(held, p, f, read) ==
  IF read = <<>> THEN [err |-> "parse", held |-> held]
  ELSE [err |-> "", held |-> SetAt(held, p, Content(f, read))]

PopulateField(held, p, f, values) ==
  IF Len(values) > 1 THEN [err |-> "too many", held |-> held] ELSE Put(held, p, f, ParseField(f, values[1]))

\* populateFieldValueFromPath: [err, held].  An unknown field is no error;
\* the messages entered on the way to it stay.
Populate(msgs, root, held, path, values) ==
  LET w == WalkTo(msgs, root, held, path)
  IN  IF w.err # "" THEN [err |-> IF w.err = "unknown" THEN "" ELSE w.err, held |-> w.held]
      ELSE IF IsList(w.field) THEN PopulateList(w.held, w.at, w.field, values)
      ELSE IF w.field.map THEN PopulateMap(w.held, w.at, msgs[MessageOf(msgs, w.fqn, w.field)], values)
      ELSE PopulateField(w.held, w.at, w.field, values)
=============================================================================
