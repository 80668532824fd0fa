------------------------------ MODULE FieldMask ------------------------------
(***************************************************************************)
(* The field mask of a JSON body (FieldMaskFromRequestBody, binding.go) and  *)
(* what decoding the body leaves in the message.                           *)
(*                                                                         *)
(* A JSON value is [object, null, members]: an object's members are a        *)
(* function of their keys, of any other value <<>>.                         *)
(***************************************************************************)
EXTENDS FieldPopulation

AnyType      == "Any"
DynamicTypes == {"Struct", "Value"}

IsTypeIn(f, types) == IsAggregate(f) /\ \E x \in types : f.type.parts = WellKnown(x)
IsDynamic(f)       == IsTypeIn(f, DynamicTypes)
IsAny(f)           == IsTypeIn(f, {AnyType})
IsSingleAny(f)     == IsAny(f) /\ f.label # "repeated"

\* The message the members of a field's value are looked up in.
MessageBelow(msgs, root, f) == IF IsAggregate(f) THEN MessageOf(msgs, root, f) ELSE NotFound

Keys(json)        == DOMAIN json.members
HasMembers(json)  == json.object /\ Keys(json) # {}

\* buildPathsBlindly: the members that are no objects; an empty object has none.
RECURSIVE BlindPaths(_, _)
BlindPaths(at, json) ==
  LET keys == SetToSeq(Keys(json))
      Of(k) == IF json.members[k].object THEN BlindPaths(Append(at, k), json.members[k])
                                         ELSE <<Append(at, k)>>
  IN  FlattenSeq([i \in DOMAIN keys |-> Of(keys[i])])

UnprefixedPaths(at, json) == IF json.object THEN BlindPaths(<<Last(at)>>, json) ELSE <<at>>

DynamicPaths(at, json) == IF json.object THEN BlindPaths(at, json) ELSE <<at>>

\* The queue as a recursion: where nothing is wrong its order does not matter,
\* the paths are sorted.
RECURSIVE MaskPaths(_, _, _, _)
MaskPaths(msgs, root, at, json) ==
  LET keys == SetToSeq(Keys(json))
      Member(k) ==
        LET f     == FieldOf(msgs[root], k)
            v     == json.members[k]
            child == Append(at, f.name)
        IN  IF IsDynamic(f) THEN DynamicPaths(child, v)
            ELSE IF IsSingleAny(f) THEN <<<<k>>>>
            ELSE IF f.label = "repeated" THEN <<child>>
            ELSE MaskPaths(msgs, MessageBelow(msgs, root, f), child, v)
  IN  IF HasMembers(json) THEN FlattenSeq([i \in DOMAIN keys |-> Member(keys[i])])
      ELSE IF json.object \/ at # <<>> THEN <<at>>
      ELSE <<>>

\* What is wrong with the members of the JSON, each with its depth: one is no
\* field, or stands where no message is; an Any has no @type, or is no object,
\* which it is asserted to be: that panics.
RECURSIVE Faults(_, _, _, _)
Faults(msgs, root, depth, json) ==
  LET Fault(panics) == {[depth |-> depth, panics |-> panics]}
      Member(k) ==
        LET f == IF root = NotFound THEN NoField ELSE FieldOf(msgs[root], k)
            v == json.members[k]
        IN  IF f = NoField THEN Fault(FALSE)
            ELSE IF IsDynamic(f) THEN {}
            ELSE IF IsSingleAny(f) THEN IF "@type" \in Keys(v) THEN {} ELSE Fault(~v.object)
            ELSE IF f.label = "repeated" THEN {}
            ELSE Faults(msgs, MessageBelow(msgs, root, f), depth + 1, v)
  IN  UNION {Member(k) : k \in Keys(json)}

\* How the walk may end at a fault: the queue has the shallower ones first, and
\* those of one depth in the order of the maps, which is any.
Endings(msgs, root, json) ==
  LET faults == Faults(msgs, root, 0, json)
  IN  {x.panics : x \in {y \in faults : \A z \in faults : y.depth <= z.depth}}

-----------------------------------------------------------------------------
(* Decoding, which protojson does: unknown members are discarded, a null    *)
(* leaves its field alone.                                                 *)

\* Types that are written as JSON scalars or arrays.
IsText(f) == IsTypeIn(f, DOMAIN ParsedTypes \ DynamicTypes)

RECURSIVE Decodable(_, _, _)
Decodable(msgs, root, json) ==
  \A k \in Keys(json) :
    LET f == FieldOf(msgs[root], k)
        v == json.members[k]
    IN  \/ f = NoField \/ v.null \/ IsTypeIn(f, {"Value"})
        \/ /\ v.object <=> f.map \/ (IsSingularMessage(f) /\ ~IsText(f))
           /\ IsSingularMessage(f) /\ v.object /\ ~IsDynamic(f) /\ ~IsAny(f)
                => Decodable(msgs, MessageOf(msgs, root, f), v)

RECURSIVE Decoded(_, _, _, _)
Decoded(msgs, root, at, json) ==
  LET Member(k) ==
        LET f == FieldOf(msgs[root], k)
            v == json.members[k]
            p == Append(at, f.name)
        IN  IF f = NoField \/ v.null THEN <<>>
            ELSE IF IsSingularMessage(f) /\ ~IsDynamic(f) /\ ~IsAny(f) /\ v.object
                 THEN (p :> Present) @@ Decoded(msgs, MessageOf(msgs, root, f), p, v)
                 ELSE p :> <<"json">>
  IN  FoldLeft(LAMBDA acc, k : Member(k) @@ acc, <<>>, SetToSeq(Keys(json)))
=============================================================================
