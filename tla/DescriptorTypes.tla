-------------------------- MODULE DescriptorTypes --------------------------
(***************************************************************************)
(* The descriptors of protocgen/descriptor: qualified names, the scopes a   *)
(* name is looked up in, field paths, and the Go expressions made of them.  *)
(*                                                                         *)
(* A qualified name is the sequence of its components.  As in a descriptor  *)
(* a type is named [abs, parts]; descriptors of protoc name all absolutely. *)
(***************************************************************************)
EXTENDS Integers, Sequences, SequencesExt

CONSTANT MaxNesting  \* how many messages are around another at most

NoOneof  == "none"
NotFound == <<>>

(* A file:    [pkg, syntax, goPath, goName, generate, msgs, enums, services]  *)
(* a message: [name, fields, nested, enums]                                 *)
(* a field:   [name, json, kind, type, label, map, optional, oneof]          *)
(* a service: [name, methods], a method: [name, input, output, streaming,    *)
(* rule], a rule: [verb, path, body, response, additional].                  *)
(* The registry keeps of a message where it is and its fields.              *)
FQMN(pkg, outers, name) == pkg \o Append(outers, name)

Nested(outers, m) == <<m.name>>
Within(outers, m) == Append(outers, m.name)

\* The messages with d others around them, as <<names of these, message>>.
Level(file) ==
  LET level[d \in 0 .. MaxNesting] ==
        IF d = 0 THEN {<<<<>>, m>> : m \in ToSet(file.msgs)}
        ELSE UNION {{<<Within(p[1], p[2]), m>> : m \in ToSet(p[2].nested)} : p \in level[d - 1]}
  IN  level

\* registerMsg: a message, what is nested in it, and so on.
Registered(file) ==
  {[fqn |-> FQMN(file.pkg, p[1], p[2].name), outers |-> p[1], name |-> p[2].name,
    fields |-> p[2].fields, syntax |-> file.syntax, enums |-> p[2].enums] :
     p \in UNION {Level(file)[d] : d \in 0 .. MaxNesting}}

\* registerEnum, for a file and for each of its messages.
RegisteredEnums(file) ==
  {FQMN(file.pkg, <<>>, e) : e \in ToSet(file.enums)}
  \cup UNION {{Append(m.fqn, e) : e \in ToSet(m.enums)} : m \in Registered(file)}

\* LookupMsg and LookupEnum: from the innermost scope of a location outwards.
LookupName(known, location, name) ==
  LET scopes == {i \in 0 .. Len(location) : SubSeq(location, 1, i) \o name.parts \in known}
  IN  IF name.abs THEN IF name.parts \in known THEN name.parts ELSE NotFound
      ELSE IF scopes = {} THEN NotFound
      ELSE SubSeq(location, 1, CHOOSE i \in scopes : \A j \in scopes : j <= i) \o name.parts

-----------------------------------------------------------------------------
(* Field paths.                                                            *)

IsAggregate(f) == f.kind = "message"

\* lookupField finds the first of a name.
FieldsNamed(msg, name) == {i \in DOMAIN msg.fields : msg.fields[i].name = name}
FirstNamed(msg, name)  ==
  msg.fields[CHOOSE i \in FieldsNamed(msg, name) : \A j \in FieldsNamed(msg, name) : i <= j]

\* The message the next component of a path is a field of.
NextMessage(msgs, root, path) ==
  IF path = <<>> THEN root ELSE LookupName(DOMAIN msgs, Last(path).msg, Last(path).field.type)

\* A component keeps the message it is in.
NextField(msgs, root, acc, name, use) ==
  LET fqn   == NextMessage(msgs, root, acc.path)
      field == FirstNamed(msgs[fqn], name)
  IN  IF acc.err # "" THEN acc
      ELSE IF acc.path # <<>> /\ ~IsAggregate(Last(acc.path).field) THEN [acc EXCEPT !.err = "not aggregate"]
      ELSE IF fqn = NotFound THEN [acc EXCEPT !.err = "missing"]
      ELSE IF FieldsNamed(msgs[fqn], name) = {} THEN [acc EXCEPT !.err = "no field"]
      ELSE IF use = "param" /\ field.optional THEN [acc EXCEPT !.err = "optional"]
      ELSE [acc EXCEPT !.path = Append(@, [name |-> name, field |-> field, msg |-> fqn])]

\* resolveFieldPath: [err, path], for a parameter or for a body.
ResolveFieldPath(msgs, root, names, use) ==
  LET resolved[i \in 0 .. Len(names)] ==
        IF i = 0 THEN [err |-> "", path |-> <<>>]
        ELSE NextField(msgs, root, resolved[i - 1], names[i], use)
  IN  resolved[Len(names)]

PathNames(path) == [i \in DOMAIN path |-> path[i].name]
Target(path)    == Last(path).field

-----------------------------------------------------------------------------
(* The conversion of a path parameter.                                      *)

ConvertFuncs ==
  [double |-> "Float64", float |-> "Float32", int64 |-> "Int64", uint64 |-> "Uint64",
   int32 |-> "Int32", fixed64 |-> "Uint64", fixed32 |-> "Uint32", bool |-> "Bool",
   string |-> "String", bytes |-> "Bytes", uint32 |-> "Uint32", enum |-> "Enum",
   sfixed32 |-> "Int32", sfixed64 |-> "Int64", sint32 |-> "Int32", sint64 |-> "Int64"]

WellKnownTypes ==
  {"Timestamp", "Duration", "StringValue", "FloatValue", "DoubleValue", "BoolValue",
   "BytesValue", "Int32Value", "UInt32Value", "Int64Value", "UInt64Value"}
WellKnown(x) == <<"google", "protobuf", x>>
IsWellKnownType(name) == name.abs /\ \E x \in WellKnownTypes : name.parts = WellKnown(x)

\* Each table: which kinds it has and whether it gives a value, a pointer or
\* a slice.  IsOptionalProto3 looks at the first field of the path.
SingularForm(syntax, path) ==
  IF syntax = "proto2" \/ path[1].field.optional THEN "pointer" ELSE "value"

ConvertForm(syntax, path) ==
  IF Target(path).label = "repeated" THEN "slice"
  ELSE IF syntax = "proto2" \/ path[1].field.optional THEN "pointer" ELSE "value"

ConvertKinds(syntax) ==
  IF syntax = "proto2" THEN DOMAIN ConvertFuncs \ {"bytes"} ELSE DOMAIN ConvertFuncs

\* [ok, form, func]
ConvertFuncExpr(syntax, path) ==
  LET f == Target(path)
  IN  IF f.kind \in ConvertKinds(syntax)
      THEN [ok |-> TRUE, form |-> ConvertForm(syntax, path), func |-> ConvertFuncs[f.kind]]
      ELSE IF IsWellKnownType(f.type) THEN [ok |-> TRUE, form |-> "value", func |-> Last(f.type.parts)]
      ELSE [ok |-> FALSE, form |-> "", func |-> ""]

-----------------------------------------------------------------------------
(* The Go expressions of a field path: field accesses and, where a field is  *)
(* a oneof's, the assertion that the oneof holds it.                        *)

InOneof(f) == ~f.optional /\ f.oneof # NoOneof

\* GoType, or what ForcePrefixedName makes of it, which forgets the outers.
WrapperType(msg, name, standalone) ==
  [outers |-> IF standalone THEN <<>> ELSE msg.outers, message |-> msg.name, field |-> name]

ComponentExpr(msgs, c, standalone) ==
  IF InOneof(c.field)
  THEN <<<<"assert", c.field.oneof, WrapperType(msgs[c.msg], c.name, standalone)>>, <<"field", c.name>>>>
  ELSE <<<<"field", c.name>>>>

AssignableExpr(msgs, path, standalone) ==
  FlattenSeq([i \in DOMAIN path |-> ComponentExpr(msgs, path[i], standalone)])

\* The oneofs set before: what leads to each, its name and what it is to hold.
AssignableExprPrep(msgs, path, standalone) ==
  {[at     |-> AssignableExpr(msgs, SubSeq(path, 1, i - 1), standalone),
    oneof  |-> path[i].field.oneof,
    holds  |-> WrapperType(msgs[path[i].msg], path[i].name, standalone)] :
   i \in {j \in DOMAIN path : InOneof(path[j].field)}}
=============================================================================
