--------------------------- MODULE RequestBinding ---------------------------
(***************************************************************************)
(* A request bound to the message of a method the registry has loaded:       *)
(* newRouteHandler annotates the context with the headers, BuildRequest      *)
(* decodes the body, applies path and query parameters and infers the field  *)
(* mask; what the server answers is written by the marshaler the request     *)
(* accepts.  Headers, parameters and query are maps of Go, walked in any      *)
(* order.                                                                  *)
(*                                                                         *)
(* A request: [method, index, headers, timeout, host, peer, body, wire,       *)
(* params, query, response]; index is the binding's, wire tells a body in     *)
(* protobuf from one in JSON, params has a value for each parameter of the    *)
(* binding, a key of the query is [path, index, values], where index is what  *)
(* stands in brackets, response is what the server will answer.             *)
(***************************************************************************)
EXTENDS DescriptorRegistry, DoubleArray, FieldMask, MuxOptions, ContextAnnotation

ASSUME InputAssumption ==
  \A i \in Input : i.requests \subseteq Requests /\ MuxOf(i.muxOptions) \in Muxes

VARIABLES
  held,      \* the message
  before,    \* the message before its query
  mask,      \* paths of the inferred field mask
  answer     \* [type, body] of the response
bindVars == <<contextVars, answer, held, before, mask>>
vars     == <<registryVars, bindVars>>

NoAnswer  == [type |-> "", body |-> <<>>]
NoBody    == [object |-> FALSE, null |-> TRUE, members |-> <<>>]   \* no bytes

BindingInit ==
  /\ stage = "idle" /\ mux = EmptyMux /\ NothingAsked
  /\ held = <<>> /\ before = <<>> /\ mask = {} /\ answer = NoAnswer

Init == RegistryInit /\ BindingInit

-----------------------------------------------------------------------------
(* The binding a request is for, as the generated route describes it.        *)

MethodNamed(name) ==
  CHOOSE m \in UNION {ToSet(MethodsOf(f)) : f \in ToSet(Files)} : m[1] = name

Route   == meths[request.method][request.index]
Root    == LookupName(DOMAIN msgs, SubSeq(request.method, 1, Len(request.method) - 2),
                      MethodNamed(request.method)[2].input)
Body    == PathNames(Route.body)
HasMask == Route.rule.verb = "PATCH" /\ Route.hasBody /\ Body # <<>> /\ request.body # NoBody

ExplicitParams ==
  (IF Route.hasBody THEN <<Body>> ELSE <<>>)
  \o [i \in DOMAIN Route.params |-> PathNames(Route.params[i])]

Fits(r) ==
  /\ r.method \in DOMAIN meths /\ r.index \in DOMAIN meths[r.method]
  /\ ~meths[r.method][r.index].nil
  /\ Len(r.params) = Len(meths[r.method][r.index].params)

-----------------------------------------------------------------------------
(* The mux, and what ContextAnnotation does to a request for it.            *)

\* NewServeMux: an option without a MIME type panics.
NewServeMux ==
  /\ phase = "loaded" /\ next > Len(AllBindings) /\ stage = "idle"
  /\ mux' = MuxOf(input.muxOptions)
  /\ stage' = IF mux'.ok THEN "serving" ELSE "panicked"
  /\ UNCHANGED <<registryVars, request, pending, pairs, deadline, held, before, mask, answer, problem>>

OnContext(A) == A /\ UNCHANGED <<registryVars, answer, held, before, mask>>

Serve == \E r \in input.requests : Fits(r) /\ Receive(r)

-----------------------------------------------------------------------------
(* BuildRequest.                                                           *)

\* mutableFieldMessage: the messages on the way are made.
MutableFieldMessage(names) ==
  FoldLeft(LAMBDA acc, x :
             LET f == FieldOf(msgs[acc.fqn], x)
                 p == Append(acc.at, f.name)
             IN  IF ~acc.ok \/ f = NoField \/ ~IsSingularMessage(f) THEN [acc EXCEPT !.ok = FALSE]
                 ELSE [ok |-> TRUE, at |-> p, fqn |-> MessageOf(msgs, acc.fqn, f),
                       held |-> Mutable(acc.held, p)],
           [ok |-> TRUE, at |-> <<>>, fqn |-> Root, held |-> <<>>], names)

ContentTypes == Values(request.headers, "Content-Type")

\* A decoder of JSON reads no protobuf, that of protobuf nothing else.
Readable(fqn) ==
  /\ request.wire <=> InboundMarshaler(mux.registry, ContentTypes).kind = "proto"
  /\ request.body.object /\ Decodable(msgs, fqn, request.body)

\* No bytes leave the message as it is.
DecodeBody ==
  /\ stage = "body"
  /\ LET target == MutableFieldMessage(Body)
     IN  IF ~Route.hasBody THEN stage' = "params" /\ UNCHANGED <<held, problem>>
         ELSE IF ~target.ok THEN FailFor("body") /\ UNCHANGED held
         ELSE IF request.body # NoBody /\ ~Readable(target.fqn)
              THEN FailFor("body") /\ UNCHANGED held
         ELSE /\ held' = Decoded(msgs, target.fqn, target.at, request.body) @@ target.held
              /\ stage' = "params" /\ UNCHANGED problem
  /\ pending' = DOMAIN Route.params
  /\ UNCHANGED <<registryVars, mux, answer, request, pairs, deadline, before, mask>>

\* One key of a map of values, read with a filter; none is filtered of the
\* path parameters.
ApplyValues(key, filter, path, values) ==
  \E names \in {Normalize(msgs, Root, path)} :
    \/ /\ HasCommonPrefix(filter, names)
       /\ pending' = pending \ {key} /\ UNCHANGED <<stage, held, problem>>
    \/ /\ ~HasCommonPrefix(filter, names)
       /\ \E r \in {Populate(msgs, Root, held, names, values)} :
            /\ held' = r.held
            /\ IF r.err = "" THEN pending' = pending \ {key} /\ UNCHANGED <<stage, problem>>
                             ELSE FailFor(stage) /\ UNCHANGED pending

ApplyPathParam ==
  /\ stage = "params"
  /\ \E i \in pending :
       ApplyValues(i, NewDoubleArray(<<>>), PathNames(Route.params[i]), <<request.params[i]>>)
  /\ UNCHANGED <<registryVars, mux, answer, request, pairs, deadline, before, mask>>

PathParamsApplied ==
  /\ stage = "params" /\ pending = {}
  /\ stage' = "query" /\ pending' = request.query /\ before' = held
  /\ UNCHANGED <<registryVars, mux, answer, request, pairs, deadline, held, mask, problem>>

ApplyQuery ==
  /\ stage = "query"
  /\ \E key \in pending :
       ApplyValues(key, NewQueryFilter(ExplicitParams), key.path, key.index \o key.values)
  /\ UNCHANGED <<registryVars, mux, answer, request, pairs, deadline, before, mask>>

QueryApplied ==
  /\ stage = "query" /\ pending = {}
  /\ stage' = IF HasMask THEN "mask" ELSE "bound"
  /\ UNCHANGED <<registryVars, mux, answer, request, pending, pairs, deadline, held, before, mask, problem>>

\* singleFieldMaskField
MaskFields == SelectSeq(msgs[Root].fields, LAMBDA f : IsTypeIn(f, {"FieldMask"}))

GivenMask(f) == <<f.name, "paths">> \in DOMAIN held /\ held[<<f.name, "paths">>] # <<>>

\* applyFieldMaskFromBody reads JSON whatever the body was decoded from; of
\* several faults the order of the walk decides which one ends it.
ApplyFieldMask ==
  /\ stage = "mask"
  /\ LET fqn   == MutableFieldMessage(Body).fqn
         wrong == IF request.wire THEN {FALSE} ELSE Endings(msgs, fqn, request.body)
     IN  IF Len(MaskFields) # 1 \/ GivenMask(MaskFields[1])
         THEN stage' = "bound" /\ UNCHANGED <<held, mask, problem>>
         ELSE \/ TRUE \in wrong /\ stage' = "panicked" /\ UNCHANGED <<held, mask, problem>>
              \/ FALSE \in wrong /\ FailFor("mask") /\ UNCHANGED <<held, mask>>
              \/ /\ wrong = {}
                 /\ held' = SetAt(held, <<MaskFields[1].name>>, <<>> :> Present)
                 /\ mask' = ToSet(MaskPaths(msgs, fqn, <<>>, request.body))
                 /\ stage' = "bound" /\ UNCHANGED problem
  /\ UNCHANGED <<registryVars, mux, answer, request, pending, pairs, deadline, before>>

-----------------------------------------------------------------------------
(* ForwardResponseMessage.                                                 *)

\* The Go type of a field, as protoc-gen-go makes it.
ElemType(f) == CASE f.kind = "message" -> <<"message", Last(f.type.parts)>>
                 [] f.kind \in {"enum", "bytes"} -> <<f.kind>>
                 [] f.kind \notin {"message", "enum", "bytes"} -> <<"scalar", f.kind>>
FieldType(m, f) ==
  IF f.map THEN <<"map", ElemType(msgs[MessageOf(msgs, m, f)].fields[2])>>
  ELSE CASE GoForm(f, msgs[m].syntax) = "slice"   -> <<"slice", ElemType(f)>>
         [] GoForm(f, msgs[m].syntax) = "pointer" -> <<"ptr", ElemType(f)>>
         [] GoForm(f, msgs[m].syntax) = "value"   -> ElemType(f)

Output == MethodNamed(request.method)[2].output

\* XXX_ResponseBody gives the field that the binding names.
ResponseType ==
  IF Route.response = <<>> THEN <<"message", Last(Output.parts)>>
  ELSE FieldType(Last(Route.response).msg, Target(Route.response))

Outbound == OutboundMarshaler(mux.registry, Values(request.headers, "Accept"), ContentTypes)

Respond ==
  /\ stage = "bound"
  /\ LET written == Marshal(Outbound, ResponseType, request.response)
     IN  IF written = CodecError THEN FailFor("response") /\ UNCHANGED answer
         ELSE /\ answer' = [type |-> ContentType(Outbound, <<"message", Last(Output.parts)>>, request.response),
                            body |-> written]
              /\ stage' = "answered" /\ UNCHANGED problem
  /\ UNCHANGED <<registryVars, mux, request, pending, pairs, deadline, held, before, mask>>

Next ==
  \/ RegistryNext /\ stage = "idle" /\ UNCHANGED bindVars
  \/ NewServeMux \/ OnContext(Serve) \/ OnContext(AnnotateHeader) \/ OnContext(AnnotateContext) \/ DecodeBody \/ ApplyPathParam \/ PathParamsApplied
  \/ ApplyQuery \/ QueryApplied \/ ApplyFieldMask \/ Respond

Spec == Init /\ [][Next]_vars

-----------------------------------------------------------------------------
\* The message, its metadata and the reason of a failure have their types in
\* every state of the load and of a request; what the registry's setters
\* refuse is not set.
BindingTypeOK ==
  /\ RegistryTypeOK
  /\ stage \in {"idle", "serving", "headers", "body", "params", "query", "mask", "bound", "answered",
               "failed", "panicked"}
  /\ request \in input.requests \cup {NoRequest}
  /\ \A p \in DOMAIN held : p # <<>> /\ held[p] \in Seq(STRING)
  /\ problem # "" <=> stage = "failed"

-----------------------------------------------------------------------------
(* The binding.                                                            *)

Canonical == {[key EXCEPT !.path = Normalize(msgs, Root, @)] : key \in request.query}

\* Filters whose paths differ in the first name: with others the trie loses
\* prefixes, as FilterHasPrefixes shows.
DistinctFirst(paths) ==
  \A i, j \in DOMAIN paths : i # j => paths[i] = <<>> \/ paths[j] = <<>> \/ paths[i][1] # paths[j][1]

ContentBelow(h, p) == {<<q, h[q]>> : q \in {x \in Below(p, h) : h[x] # Present}}

\* What the body and the path have set the query leaves alone, under whatever
\* spelling: whole fields, although keys are applied one at a time and make
\* the messages they enter.  A key that names a message around such a field,
\* which only a well-known type can be, replaces it.  About Parse and
\* NewQueryFilter.
FilterShields ==
  stage \in {"query", "mask", "bound", "failed"} /\ problem \in {"", "query", "mask"}
    /\ DistinctFirst(ExplicitParams) =>
    \A i \in DOMAIN ExplicitParams :
      LET p == ExplicitParams[i]
      IN  \/ p = <<>>
          \/ \E key \in Canonical : IsStrictPrefix(key.path, p)
          \/ ContentBelow(held, p) = ContentBelow(before, p)

\* HasCommonPrefix is documented to tell whether a path of the filter is a
\* prefix of the one asked for.  About utilities/trie.go.
FilterHasPrefixes ==
  stage = "query" =>
    \A key \in Canonical :
      HasCommonPrefix(NewQueryFilter(ExplicitParams), key.path) <=> SomePrefix(ExplicitParams, key.path)

\* Keys that do not meet: none names the field of another or what is in it.
Independent ==
  \A k, l \in request.query :
    k # l => LET p == Normalize(msgs, Root, k.path)
                 q == Normalize(msgs, Root, l.path)
             IN  ~IsPrefix(p, q) /\ ~IsPrefix(q, p)

\* The keys in one order, to the first that fails.
InOneOrder ==
  FoldLeft(LAMBDA acc, key :
             LET p == Normalize(msgs, Root, key.path)
             IN  IF acc.err # "" \/ HasCommonPrefix(NewQueryFilter(ExplicitParams), p) THEN acc
                 ELSE Populate(msgs, Root, acc.held, p, key.index \o key.values),
           [err |-> "", held |-> before], SetToSeq(request.query))

\* A query whose keys do not meet means the same in every order of the map:
\* the same message, or a refusal, although keys share the messages they
\* enter, oneofs and a key that fails ends the walk.  About Parse.
QueryIsOrderless ==
  stage \in {"query", "failed"} /\ problem \in {"", "query"} /\ Independent =>
    /\ problem = "query" => InOneOrder.err # ""
    /\ stage = "query" /\ pending = {} => InOneOrder.err = "" /\ held = InOneOrder.held

-----------------------------------------------------------------------------
\* Members the mask names in full: no Any below the first level, nor by its
\* JSON name, and no empty object that stands for a Struct.
RECURSIVE HasLeaf(_)
HasLeaf(json) == ~json.object \/ \E k \in Keys(json) : HasLeaf(json.members[k])

RECURSIVE Regular(_, _, _)
Regular(root, depth, json) ==
  \A k \in Keys(json) :
    LET f == FieldOf(msgs[root], k)
        v == json.members[k]
    IN  /\ f # NoField
        /\ IsDynamic(f) => HasLeaf(v)
        /\ IsAny(f) => depth = 0 /\ k = f.name
        /\ IsSingularMessage(f) /\ ~IsDynamic(f) /\ ~IsAny(f)
             => Regular(MessageOf(msgs, root, f), depth + 1, v)

\* A path that the body goes along, by the names of fields.
RECURSIVE Mentions(_, _, _)
Mentions(root, json, path) ==
  \/ path = <<>>
  \/ \E k \in Keys(json) :
       LET f == IF root = NotFound THEN NoField ELSE FieldOf(msgs[root], k)
       IN  /\ path[1] = IF f = NoField THEN k ELSE f.name
           /\ Mentions(IF f # NoField /\ IsSingularMessage(f) /\ ~IsDynamic(f) THEN MessageOf(msgs, root, f)
                                                                             ELSE NotFound,
                       json.members[k], Tail(path))

\* The mask inferred for a PATCH covers what the body has set in the message
\* and names nothing that the body does not mention: an update changes what
\* the client sent, no less and no more, although mask and message come of
\* two decoders.  About FieldMaskFromRequestBody and decodeBody.
MaskCoversBody ==
  stage = "bound" /\ mask # {} =>
    LET target == MutableFieldMessage(Body)
        sent   == Decoded(msgs, target.fqn, <<>>, request.body)
    IN  HasMembers(request.body) /\ Regular(target.fqn, 0, request.body) =>
          /\ \A q \in {x \in DOMAIN sent : sent[x] # Present} :
               \E p \in mask : IsPrefix(p, q) \/ IsPrefix(q, p)
          /\ \A p \in mask : p # <<>> /\ Mentions(target.fqn, request.body, p)

-----------------------------------------------------------------------------
\* A text that all readers take for the same: without the prefix of a base,
\* a time that is no duration of Go, a single piece.
Unambiguous(x) ==
  /\ \A width \in {32, 64}, sign \in {"int", "uint"} : Read(<<sign, 0, width>>, x) = Read(<<sign, 10, width>>, x)
  /\ Read(<<"int64 cut to 32">>, x) = Read(<<"int", 10, 32>>, x)
  /\ \A name \in {"Timestamp", "Duration"} : Read(<<"time", name>>, x) = Read(<<"protojson", name>>, x)
  /\ Split(x, settings.separator) = <<x>>

\* What the code generated for the parameter reads.
Converted(p, x) ==
  LET c == ConvertFuncExpr(msgs[Last(p).msg].syntax, p)
  IN  CASE c.form = "slice"   -> ParseSlice(c.func, x, settings.separator)
        [] c.form = "pointer" -> Pointed(c.func, x)
        [] c.form = "value"   -> Convert(c.func, x)

ParamPath(p) ==
  IF IsAggregate(Target(p)) THEN Append(PathNames(p), ParsedTypes[Last(Target(p).type.parts)]) ELSE PathNames(p)
HeldAt(q) == IF q \in DOMAIN held THEN held[q] ELSE <<>>

\* Texts of single parameters that have a conversion.
ReadPlainly(i) ==
  LET f == Target(Route.params[i])
  IN  /\ ~Misfit(f, msgs[Last(Route.params[i]).msg].syntax) /\ ~InOneof(f) /\ Unambiguous(request.params[i])
      /\ \A j \in DOMAIN Route.params \ {i} : PathNames(Route.params[j]) # PathNames(Route.params[i])

ParamsReadAlike ==
  /\ stage = "params" => \A i \in DOMAIN Route.params \ pending : ReadPlainly(i) =>
       LET read == Converted(Route.params[i], request.params[i])
       IN  read # <<>> /\ HeldAt(ParamPath(Route.params[i])) = read
  /\ problem = "params" =>
       \E i \in DOMAIN Route.params : ReadPlainly(i) => Converted(Route.params[i], request.params[i]) = <<>>

\* The code generated for a path parameter fits the message: its conversion is
\* one the runtime has and gives what the field's Go type holds, the value
\* it reads is the one the runtime finds by the descriptor, or both refuse the
\* text, and no expression asserts a oneof that has not been set just there.
\* About ConvertFuncExpr, AssignableExpr and parseField.
GeneratedCodeFits == ConversionsFit /\ OneofsPrepared /\ ParamsReadAlike

-----------------------------------------------------------------------------
RECURSIVE Leaves(_)
Leaves(v) == IF v[1] \in {"slice", "map"} THEN UNION {Leaves(v[2][i]) : i \in DOMAIN v[2]} ELSE {v}

\* Values of a type, but for nil and empty ones.
RECURSIVE SameValue(_, _)
SameValue(v, w) ==
  \/ v = w
  \/ v = Nil /\ w \in {<<"slice", <<>>>>, <<"map", <<>>>>, <<"bytes", "">>, <<"message", "">>}
  \/ /\ v[1] = w[1] /\ v[1] \in {"slice", "map"} /\ DOMAIN v[2] = DOMAIN w[2]
     /\ \A i \in DOMAIN v[2] : SameValue(v[2][i], w[2][i])

\* JSONPb writes the names of enums that it does not read, and of an enum that
\* is not there a null.
OneWay ==
  /\ Outbound.kind \in {"jsonpb", "httpbody"}
  /\ \/ ~Outbound.useEnumNumbers /\ \E v \in Leaves(request.response) : v[1] = "enum"
     \/ ResponseType = <<"ptr", <<"enum">>>> /\ request.response = Nil

Unwritten ==
  \/ Outbound.kind = "proto" /\ ~IsMessage(ResponseType)
  \/ \E v \in Leaves(request.response) : v[1] = "scalar" /\ v[2] \in Unwritable

\* A client that reads a response with the marshaler that has written it, into
\* a new variable, gets what the server answered, whatever part of the message
\* response_body selects; a response is refused only for a number JSON lacks
\* or a part that is no message.  About marshalNonProtoField, which walks Go
\* values by reflection, and decodeNonProtoField, which does so again.
ResponseReadsBack ==
  /\ problem = "response" => Unwritten
  /\ stage = "answered" =>
       LET back == Unmarshal(Outbound, ResponseType, answer.body, Zero(ResponseType))
       IN  IF answer.body[1] = "data"
           THEN answer = [type |-> request.response[2], body |-> <<"data", request.response[2]>>]
           ELSE /\ (back = CodecError) <=> OneWay
                /\ back # CodecError => SameValue(request.response, back)
                /\ answer.type = "application/octet-stream" <=> answer.body[1] = "wire"
=============================================================================
