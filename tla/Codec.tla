------------------------------- MODULE Codec -------------------------------
(***************************************************************************)
(* Package codec: the marshalers, the registry of them and the choice of the *)
(* one that reads a request and the one that writes its response.           *)
(*                                                                         *)
(* A Go type is <<kind, ...>>: "scalar", "bytes", "enum", "message" (of      *)
(* pointers to one), or a "ptr", "slice" or "map" of an element type.  A     *)
(* value is Nil, <<"scalar", x>>, <<"bytes", x>>, <<"enum", number>>,        *)
(* <<"message", x>> where "" is the empty one, <<"slice", sequence>> or      *)
(* <<"map", function>>; a pointer is what it points to.                     *)
(*                                                                         *)
(* JSON is NullJSON, a number or text <<"plain", x>>, bytes <<"base64", x>>, an   *)
(* enum's <<"number", n>> or <<"name", n>>, an <<"array", sequence>>, an      *)
(* <<"object", function>>, and a message's as protojson writes it,           *)
(* <<"message", x>>, or as encoding/json does, <<"struct", x>>.              *)
(***************************************************************************)
EXTENDS Integers, Sequences, SequencesExt, TLC

CONSTANTS
  Unwritable,   \* numbers that JSON lacks: NaN and the infinities
  MediaType     \* [Content-Type -> media type], for those that parse

Nil     == <<"nil">>
NullJSON    == <<"null">>
CodecError == <<"error">>

Elem(t)      == t[2]
IsMessage(t) == t[1] = "message"
IsHTTPBody(t) == t = <<"message", "HttpBody">>

\* A new variable of a type.
Zero(t) == CASE t[1] = "enum"    -> <<"enum", 0>>
             [] t[1] = "scalar"  -> <<"scalar", "zero">>
             [] t[1] = "message" -> <<"message", "">>
             [] OTHER            -> Nil

\* Parts put together, unless one of them is refused.
Whole(kind, parts) ==
  IF \E i \in DOMAIN parts : parts[i] = CodecError THEN CodecError ELSE <<kind, parts>>

-----------------------------------------------------------------------------
(* Writing.                                                                *)

\* encoding/json.
RECURSIVE StandardJSON(_, _)
StandardJSON(t, v) ==
  IF v = Nil THEN NullJSON
  ELSE CASE t[1] = "ptr"     -> StandardJSON(Elem(t), v)
         [] t[1] = "slice"   -> Whole("array", [i \in DOMAIN v[2] |-> StandardJSON(Elem(t), v[2][i])])
         [] t[1] = "map"     -> Whole("object", [k \in DOMAIN v[2] |-> StandardJSON(Elem(t), v[2][k])])
         [] t[1] = "bytes"   -> <<"base64", v[2]>>
         [] t[1] = "message" -> <<"struct", v[2]>>
         [] t[1] = "enum"    -> <<"number", v[2]>>
         [] t[1] = "scalar"  -> IF v[2] \in Unwritable THEN CodecError ELSE <<"plain", v[2]>>

\* A nil slice, one of bytes too.
NilSlice(m) == IF m.emitUnpopulated THEN <<"array", <<>>>> ELSE NullJSON

NamedEnums(m, n) == <<"name", n>>
EnumJSON(m, n) == IF m.useEnumNumbers THEN <<"number", n>> ELSE <<"name", n>>

\* marshalTo and marshalNonProtoField.  protojson writes a nil message as an
\* empty one; what is in a slice encoding/json writes, but messages and enums.
RECURSIVE MarshalTo(_, _, _)
MarshalTo(m, t, v) ==
  CASE t[1] = "message" -> <<"message", IF v = Nil THEN "" ELSE v[2]>>
    [] t[1] = "ptr"     -> IF v = Nil THEN NullJSON ELSE MarshalTo(m, Elem(t), v)
    [] t[1] = "bytes"   -> IF v = Nil THEN NilSlice(m) ELSE StandardJSON(t, v)
    [] t[1] = "slice"   -> IF v = Nil THEN NilSlice(m)
                           ELSE IF Elem(t)[1] \in {"message", "enum"}
                           THEN Whole("array", [i \in DOMAIN v[2] |-> MarshalTo(m, Elem(t), v[2][i])])
                           ELSE StandardJSON(t, v)
    [] t[1] = "map"     -> IF v = Nil THEN <<"object", <<>>>>
                           ELSE Whole("object", [k \in DOMAIN v[2] |-> MarshalTo(m, Elem(t), v[2][k])])
    [] t[1] = "enum"    -> EnumJSON(m, v[2])
    [] t[1] = "scalar"  -> StandardJSON(t, v)

\* Marshal of the marshalers: of messages alone, of the standard library, and
\* of JSONPb, by itself or in a HTTPBodyMarshaler.
MarshalProto(t, v) ==
  IF IsMessage(t) THEN <<"wire", IF v = Nil THEN "" ELSE v[2]>> ELSE CodecError

MarshalHTTPBody(m, t, v) == IF IsHTTPBody(t) THEN <<"data", v[2]>> ELSE MarshalTo(m, t, v)

Marshal(m, t, v) ==
  CASE m.kind = "proto"    -> MarshalProto(t, v)
    [] m.kind = "builtin"  -> StandardJSON(t, v)
    [] m.kind = "jsonpb"   -> MarshalTo(m, t, v)
    [] m.kind = "httpbody" -> MarshalHTTPBody(m, t, v)

\* ContentType of each; v is the message, also where a field of it is written.
ContentType(m, t, v) ==
  CASE m.kind = "proto"                          -> "application/octet-stream"
    [] m.kind = "httpbody" /\ IsHTTPBody(t)      -> v[2]
    [] m.kind # "proto" /\ ~(m.kind = "httpbody" /\ IsHTTPBody(t)) -> "application/json"

-----------------------------------------------------------------------------
(* Reading into a variable that holds old.                                  *)

\* encoding/json: null makes what can be nil nil, and leaves the rest alone.
RECURSIVE StandardRead(_, _, _)
StandardRead(t, j, old) ==
  LET New(i) == StandardRead(Elem(t), j[2][i], Zero(Elem(t)))
  IN  IF j = NullJSON THEN IF t[1] \in {"enum", "scalar"} THEN old ELSE Nil
      ELSE CASE t[1] = "ptr"     -> StandardRead(Elem(t), j, IF old = Nil THEN Zero(Elem(t)) ELSE old)
             [] t[1] = "slice"   -> IF j[1] = "array" THEN Whole("slice", [i \in DOMAIN j[2] |-> New(i)]) ELSE CodecError
             [] t[1] = "map"     -> IF j[1] = "object" THEN Whole("map", [k \in DOMAIN j[2] |-> New(k)]) ELSE CodecError
             [] t[1] = "bytes"   -> IF j = <<"array", <<>>>> THEN <<"bytes", "">>
                                    ELSE IF j[1] = "base64" THEN <<"bytes", j[2]>> ELSE CodecError
             [] t[1] = "message" -> IF j[1] = "struct" THEN <<"message", j[2]>> ELSE CodecError
             [] t[1] = "enum"    -> IF j[1] = "number" THEN <<"enum", j[2]>> ELSE CodecError
             [] t[1] = "scalar"  -> IF j[1] = "plain" THEN <<"scalar", j[2]>> ELSE CodecError

\* What a map reads is added to what it has.
Merge(old, read) == IF read = CodecError \/ old = Nil THEN read ELSE <<"map", read[2] @@ old[2]>>

\* decodeJSONPb and decodeNonProtoField: an enum is read as a number only, a
\* null leaves a slice as it is and makes a map.
RECURSIVE DecodeJSONPb(_, _, _)
DecodeJSONPb(t, j, old) ==
  LET New(i) == DecodeJSONPb(Elem(t), j[2][i], Zero(Elem(t)))
  IN  CASE t[1] = "message" -> IF j[1] = "message" THEN j ELSE CodecError
        [] t[1] = "ptr"     -> IF j = NullJSON /\ Elem(t)[1] # "enum" THEN Nil
                               ELSE DecodeJSONPb(Elem(t), j, IF old = Nil THEN Zero(Elem(t)) ELSE old)
        [] t[1] = "map"     -> IF j = NullJSON THEN Merge(old, <<"map", <<>>>>)
                               ELSE IF j[1] # "object" THEN CodecError
                               ELSE Merge(old, Whole("map", [k \in DOMAIN j[2] |-> New(k)]))
        [] t[1] = "bytes"   -> IF j = NullJSON THEN old ELSE StandardRead(t, j, old)
        [] t[1] = "slice"   -> IF j = NullJSON THEN old
                               ELSE IF j[1] # "array" THEN CodecError
                               ELSE Whole("slice", [i \in DOMAIN j[2] |-> New(i)])
        [] t[1] = "enum"    -> IF j[1] = "number" THEN <<"enum", j[2]>> ELSE CodecError
        [] t[1] = "scalar"  -> StandardRead(t, j, old)

\* Unmarshal, and what the decoders do; a HTTPBodyMarshaler's are JSONPb's.
UnmarshalProto(t, written) ==
  IF IsMessage(t) /\ written[1] = "wire" THEN <<"message", written[2]>> ELSE CodecError

Unmarshal(m, t, written, old) ==
  CASE m.kind = "proto"   -> UnmarshalProto(t, written)
    [] m.kind = "builtin" -> StandardRead(t, written, old)
    [] m.kind \in {"jsonpb", "httpbody"} -> DecodeJSONPb(t, written, old)

-----------------------------------------------------------------------------
(* The registry.                                                           *)

DefaultMarshaler == [kind |-> "httpbody", emitUnpopulated |-> TRUE, useEnumNumbers |-> FALSE]
NewRegistry      == "*" :> DefaultMarshaler

\* Add, of a MIME type that is not empty.
AddMarshaler(registry, mime, m) == (mime :> m) @@ registry

FirstKnown(registry, names, otherwise) ==
  LET known == SelectSeq(names, LAMBDA x : x \in DOMAIN registry)
  IN  IF known = <<>> THEN otherwise ELSE registry[known[1]]

\* MarshalerForRequest: a type of content is parsed, and passed over when that
\* fails; what is accepted is looked up as it stands.
InboundMarshaler(registry, contentTypes) ==
  LET parsed == SelectSeq(contentTypes, LAMBDA x : x \in DOMAIN MediaType)
  IN  FirstKnown(registry, [i \in DOMAIN parsed |-> MediaType[parsed[i]]], registry["*"])

OutboundMarshaler(registry, accepted, contentTypes) ==
  FirstKnown(registry, accepted, InboundMarshaler(registry, contentTypes))
=============================================================================
