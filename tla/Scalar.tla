------------------------------- MODULE Scalar -------------------------------
(***************************************************************************)
(* Texts of paths and queries read as values, twice: by the conversions of   *)
(* package scalar, which generated code calls by name, and by parseField     *)
(* (binding.go).  Both use the readers of the standard library: integers of   *)
(* a base, 0 for the one a prefix tells, and a width; floats of a width.      *)
(*                                                                         *)
(* What is read is a sequence: of the value, of the values of a list, or     *)
(* empty when the text is refused.                                         *)
(***************************************************************************)
EXTENDS Sequences, SequencesExt

CONSTANTS
  Parsed,   \* [reader -> [text -> value]], for the texts each reads
  Pieces    \* [text -> [separator -> texts]], for those that have one

Read(reader, x)       == IF x \in DOMAIN Parsed[reader] THEN <<Parsed[reader][x]>> ELSE <<>>
Either(first, second) == IF first # <<>> THEN first ELSE second
Split(x, separator)   == IF x \in DOMAIN Pieces /\ separator \in DOMAIN Pieces[x]
                         THEN Pieces[x][separator] ELSE <<x>>

\* Padded base64 of the standard alphabet, then of that of URLs.
Bytes(x) == Either(Read(<<"base64">>, x), Read(<<"base64url">>, x))

\* An enum by its names, then by the numbers they have.
EnumNumbers == {Parsed[<<"enum">>][x] : x \in DOMAIN Parsed[<<"enum">>]}
EnumOr(x, number) ==
  Either(Read(<<"enum">>, x), IF number # <<>> /\ number[1] \in EnumNumbers THEN number ELSE <<>>)

-----------------------------------------------------------------------------
(* Package scalar.                                                         *)

Enum(x) == EnumOr(x, Read(<<"int", 0, 32>>, x))

\* The conversion of that name.
Basic(func, x) ==
  CASE func = "String"  -> <<x>>
    [] func = "Bool"    -> Read(<<"bool">>, x)
    [] func = "Float64" -> Read(<<"float", 64>>, x)
    [] func = "Float32" -> Read(<<"float", 32>>, x)
    [] func = "Int64"   -> Read(<<"int", 0, 64>>, x)
    [] func = "Int32"   -> Read(<<"int", 0, 32>>, x)
    [] func = "Uint64"  -> Read(<<"uint", 0, 64>>, x)
    [] func = "Uint32"  -> Read(<<"uint", 0, 32>>, x)
    [] func = "Bytes"   -> Bytes(x)

\* Each wraps what a basic one reads.
Wraps ==
  [StringValue |-> "String", FloatValue |-> "Float32", DoubleValue |-> "Float64", BoolValue |-> "Bool",
   Int32Value |-> "Int32", UInt32Value |-> "Uint32", Int64Value |-> "Int64", UInt64Value |-> "Uint64",
   BytesValue |-> "Bytes"]

Convert(func, x) ==
  CASE func = "Enum"                      -> Enum(x)
    [] func \in {"Timestamp", "Duration"} -> Read(<<"protojson", func>>, x)
    [] func \in DOMAIN Wraps              -> Basic(Wraps[func], x)
    [] OTHER                              -> Basic(func, x)

\* A pointer to what is read, nil for what is refused.
Pointed(func, x) == Basic(func, x)

\* ParseSlice: one piece that is refused refuses all.
ParseSlice(func, x, separator) ==
  LET values == [i \in DOMAIN Split(x, separator) |-> Convert(func, Split(x, separator)[i])]
  IN  IF \E i \in DOMAIN values : values[i] = <<>> THEN <<>> ELSE FlattenSeq(values)

\* The functions the runtime has, by what they give; a pointer's end in P, a
\* list's in Slice.
Singular == {"String", "Bool", "Float64", "Float32", "Int64", "Int32", "Uint64", "Uint32"}
Provided(form, func) ==
  \/ form = "value"
  \/ form = "pointer" /\ func \in Singular
  \/ form = "slice" /\ func \in Singular \cup {"Bytes", "Enum"}

-----------------------------------------------------------------------------
(* parseField, of an enum that is registered, and parseMessage.             *)

ParseScalar(kind, x) ==
  CASE kind = "bool"                              -> Read(<<"bool">>, x)
    [] kind = "enum"                              -> EnumOr(x, Read(<<"int64 cut to 32">>, x))
    [] kind \in {"int32", "sint32", "sfixed32"}   -> Read(<<"int", 10, 32>>, x)
    [] kind \in {"int64", "sint64", "sfixed64"}   -> Read(<<"int", 10, 64>>, x)
    [] kind \in {"uint32", "fixed32"}             -> Read(<<"uint", 10, 32>>, x)
    [] kind \in {"uint64", "fixed64"}             -> Read(<<"uint", 10, 64>>, x)
    [] kind = "float"                             -> Read(<<"float", 32>>, x)
    [] kind = "double"                            -> Read(<<"float", 64>>, x)
    [] kind = "string"                            -> <<x>>
    [] kind = "bytes"                             -> Bytes(x)

MessageKind ==
  [DoubleValue |-> "double", FloatValue |-> "float", Int64Value |-> "int64", Int32Value |-> "int32",
   UInt64Value |-> "uint64", UInt32Value |-> "uint32", BoolValue |-> "bool",
   StringValue |-> "string", BytesValue |-> "bytes"]

\* name is that of a well-known type.
ParseMessage(name, x) ==
  CASE name \in DOMAIN MessageKind         -> ParseScalar(MessageKind[name], x)
    [] name \in {"Timestamp", "Duration"}  -> Read(<<"time", name>>, x)
    [] name = "FieldMask"                  -> Split(x, "csv")
    [] name \in {"Value", "Struct"}        -> Read(<<"protojson", name>>, x)
=============================================================================
