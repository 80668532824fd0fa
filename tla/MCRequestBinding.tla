-------------------------- MODULE MCRequestBinding --------------------------
(***************************************************************************)
(* Small plugins: files, a configuration and the requests that are sent to   *)
(* the methods they generate.                                              *)
(***************************************************************************)
EXTENDS RequestBinding

MCUnclean == {"%zz"}
MCTrimmed == ("internal" :> "internal") @@ (" preview " :> "preview")
MCTitle   == [x |-> "extX", known |-> "extKnown", a |-> "extA"]

\* What the standard library reads; five, k and raw are text only.
Digits == {"6", "5", "1"}
Same(texts) == [x \in texts |-> x]
Int32s   == Same(Digits \cup {"-1"}) @@ ("010" :> "10")
Prefixed == Same(Digits \cup {"-1"}) @@ ("010" :> "8") @@ ("0x10" :> "16")
Big(f)   == Same({"2^40"}) @@ f
NotNegative(f) == [x \in DOMAIN f \ {"-1"} |-> f[x]]
Floats   == Same(Digits \cup {"-1", "1.5", "2^40"}) @@ ("010" :> "10")
MCParsed ==
  LET Reads(reader, f) == reader :> f
  IN  Reads(<<"int", 10, 32>>, Int32s) @@ Reads(<<"int", 0, 32>>, Prefixed)
      @@ Reads(<<"int", 10, 64>>, Big(Int32s)) @@ Reads(<<"int", 0, 64>>, Big(Prefixed))
      @@ Reads(<<"int64 cut to 32">>, ("2^40" :> "0") @@ Int32s)
      @@ Reads(<<"uint", 10, 32>>, NotNegative(Int32s)) @@ Reads(<<"uint", 0, 32>>, NotNegative(Prefixed))
      @@ Reads(<<"uint", 10, 64>>, NotNegative(Big(Int32s))) @@ Reads(<<"uint", 0, 64>>, NotNegative(Big(Prefixed)))
      @@ Reads(<<"float", 64>>, Same({"1e99"}) @@ Floats) @@ Reads(<<"float", 32>>, Floats)
      @@ Reads(<<"bool">>, Same({"1", "true"})) @@ Reads(<<"enum">>, ("ON" :> "1") @@ ("OFF" :> "0"))
      @@ Reads(<<"base64">>, "YQ==" :> "a") @@ Reads(<<"base64url">>, ("YQ==" :> "a") @@ ("_w==" :> "ff"))
      @@ Reads(<<"time", "Timestamp">>, Same({"now"}))
      @@ Reads(<<"protojson", "Timestamp">>, Same({"now"}) @@ ("'now'" :> "now"))
      @@ Reads(<<"time", "Duration">>, ("60s" :> "60") @@ ("1m" :> "60"))
      @@ Reads(<<"protojson", "Duration">>, "60s" :> "60")
      @@ Reads(<<"protojson", "Value">>, Same(Digits)) @@ Reads(<<"protojson", "Struct">>, <<>>)
MCPieces == "a,b" :> [csv |-> <<"a", "b">>]

MCStripped ==
  ("Grpc-Metadata-Id" :> "Id") @@ ("Grpc-Metadata-Key-Bin" :> "Key-Bin")
  @@ ("Grpc-Metadata-B@d" :> "B@d") @@ ("Grpc-Metadata-Authorization" :> "Authorization")
MCLower ==
  ("Id" :> "id") @@ ("Key-Bin" :> "key-bin") @@ ("B@d" :> "b@d") @@ ("Authorization" :> "authorization")
  @@ ("grpcgateway-Authorization" :> "grpcgateway-authorization")
  @@ ("grpcgateway-Accept" :> "grpcgateway-accept") @@ ("grpcgateway-Content-Type" :> "grpcgateway-content-type")
MCBinary == {"Grpc-Metadata-Key-Bin"}
MCBase64 == ("YQ==" :> "a") @@ ("YQ" :> "a") @@ ("Yg" :> "b")
MCUnits  == [n |-> 1, S |-> 10, H |-> 60]

-----------------------------------------------------------------------------
(* Descriptors.                                                            *)

Abs(parts) == [abs |-> TRUE, parts |-> parts]
Rel(parts) == [abs |-> FALSE, parts |-> parts]
WKT(x)     == Abs(WellKnown(x))

Field(name, kind, type) ==
  [name |-> name, json |-> name, kind |-> kind, type |-> type, label |-> "optional", map |-> FALSE,
   optional |-> FALSE, oneof |-> NoOneof]
Str(name)        == Field(name, "string", Abs(<<>>))
Int32(name)      == Field(name, "int32", Abs(<<>>))
Sub(name, type)  == Field(name, "message", type)
Json(f, j)       == [f EXCEPT !.json = j]
Many(f)          == [f EXCEPT !.label = "repeated"]
MapOf(f)         == [f EXCEPT !.label = "repeated", !.map = TRUE]
OneofIn(f, o)    == [f EXCEPT !.oneof = o]

Message(name, fields) == [name |-> name, fields |-> fields, nested |-> <<>>, enums |-> <<>>]
With(m, nested)       == [m EXCEPT !.nested = nested]

File(pkg, goPath, goName) ==
  [pkg |-> pkg, syntax |-> "proto3", goPath |-> goPath, goName |-> goName, generate |-> TRUE,
   msgs |-> <<>>, enums |-> <<>>, services |-> <<>>]

Known3 == [File(<<"google", "protobuf">>, "g/known", "known") EXCEPT !.generate = FALSE,
             !.msgs = <<Message("Timestamp", <<Field("seconds", "int64", Abs(<<>>))>>),
                        Message("StringValue", <<Str("value")>>), Message("FieldMask", <<Many(Str("paths"))>>),
                        Message("Struct", <<>>), Message("Any", <<>>)>>]

Home == Message("Home", <<Str("city"), Sub("meta", WKT("Struct"))>>)
User == With(Message("User",
  <<Str("name"), Json(Str("full_name"), "fullName"), Sub("home", Rel(<<"Home">>)),
    Sub("extra", WKT("Struct")), Sub("any", WKT("Any"))>>), <<Home>>)
Entry == Message("AttrsEntry", <<Str("key"), Int32("value")>>)
Req == With(Message("Req",
  <<Str("id"), Str("name"), Json(Int32("user_id"), "userId"), Sub("user", Rel(<<"User">>)), Many(Str("tags")),
    MapOf(Sub("attrs", Abs(<<"p", "Req", "AttrsEntry">>))), Sub("update_mask", WKT("FieldMask")),
    Sub("ts", WKT("Timestamp")), [Str("opt") EXCEPT !.optional = TRUE],
    OneofIn(Str("alt_s"), "choice"), OneofIn(Sub("alt_m", Abs(<<"p", "User">>)), "choice")>>), <<Entry>>)

Rule(verb, path, body) ==
  [verb |-> verb, path |-> path, body |-> body, response |-> <<>>, additional |-> <<>>]
V1            == <<"/", "v1">>
At(f)         == V1 \o <<"/", "{", f, "}">>
Inner(f, g)   == V1 \o <<"/", "{", f, ".", g, "}">>
Method(name, rule) ==
  [name |-> name, input |-> Rel(<<"Req">>), output |-> Abs(<<"p", "User">>), streaming |-> FALSE, rule |-> rule]
Service(name, methods) == [name |-> name, methods |-> methods]
Main(methods) == [File(<<"p">>, "ex/a", "a") EXCEPT !.msgs = <<Req, User>>, !.services = <<Service("S", methods)>>]

\* Options of a mux: some are replaced by later ones, one is set to nil.
Option(op, name, value) == [op |-> op, name |-> name, value |-> value]
Annotating ==
  <<Option("add", "metadataAnnotators", <<<<<<"x-mux", "m">>>>>>), Option("replace", "errorHandler", "custom"),
    Option("replace", "incomingHeaderMatcher", "X-Other" :> "Id"), Option("replace", "incomingHeaderMatcher", Unset),
    Option("add", "middlewares", <<"log", "auth">>), Option("add", "metadataAnnotators", <<<<<<"x-mux", "m">>>>>>),
    Option("replace", "writeContentLength", TRUE), Option("add", "middlewares", <<"trace">>)>>

Plugin(asked, files) == [calls |-> asked, files |-> files, options |-> <<>>, muxOptions |-> Annotating, requests |-> {}]
Only(methods)        == Plugin({}, <<Known3, Main(methods)>>)
Turn(name, value)    == [op |-> "set", name |-> name, value |-> value]
TurnOn(flag)         == Turn(flag, TRUE)
Reserved(alias, path) == [op |-> "reserve", alias |-> alias, path |-> path]
Yaml(rules)          == [op |-> "yaml", rules |-> rules]
For(m, rule)         == [selector |-> <<"p", "S", m>>, rule |-> rule]

-----------------------------------------------------------------------------
(* Plugins of which the load is the point.                                  *)

\* Three files of one package name, two of one path, and names reserved
\* before, one of them twice, in every order.
SameName(asked) ==
  Plugin(asked, <<File(<<"a">>, "p1", "x"), File(<<"b">>, "p2", "x"), File(<<"c">>, "p1", "x"), File(<<"d">>, "p3", "x")>>)
Aliases ==
  {SameName({}), SameName({TurnOn("standalone")}),
   SameName({Reserved("x", "p2"), Reserved("x", "p4"), Reserved("x_0", "p3")}),
   Plugin({[op |-> "separator", name |-> "pipes"], [op |-> "separator", name |-> ";"], [op |-> "fqn"]},
          <<File(<<"a">>, "p1", "x")>>),
   Plugin({[op |-> "package", file |-> "a.proto", name |-> "a"], [op |-> "package", file |-> "a.proto", name |-> "b"],
           [op |-> "template", args |-> <<<<"k", "v">>, <<"novalue">>, <<"k", "w">>>>], [op |-> "template", args |-> <<<<"l", "">>>>],
           [op |-> "visibility", selectors |-> {"internal", " preview "}], Turn("useGoTemplate", TRUE),
           Turn("useGoTemplate", FALSE), Turn("recursiveDepth", 3), Turn("mergeFileName", "all")},
          <<File(<<"a">>, "p1", "x")>>)}

Get  == Rule("GET", At("id"), <<>>)
Post == Rule("POST", V1, <<"*">>)
More == [Get EXCEPT !.additional = <<Rule("none", <<>>, <<>>), Post>>]
Twice == [Post EXCEPT !.additional = <<Post>>]

\* External rules of two files, one with a wildcard in the middle, for
\* methods with and without a rule of their own, and for none.
External ==
  {Plugin(c, <<Known3, Main(<<Method("A", NoRule), Method("B", Get), Method("C", More), Method("D", NoRule)>>)>>) :
     c \in {{Yaml(<<For("A", Post), For("B", Twice)>>),
                 Yaml(<<For("A", Get), [selector |-> <<"p", "*">>, rule |-> Get], For("D", Get)>>)},
                {Yaml(<<For("B", Rule("none", <<>>, <<>>)), For("X", Get)>>), TurnOn("generateUnboundMethods")}}}
  \cup {[Only(<<Method("B", Twice)>>) EXCEPT
           !.options = <<<<"file", 2>>, <<"message", <<"p", "User", "Home">>>>, <<"field", <<"p", "Req", "id">>>>,
                         <<"method", <<"p", "S", "B">>>>, <<"service", <<"p", "S">>>>,
                         <<"field", <<"p", "Req", "none">>>>>>],
         [Only(<<Method("B", Get)>>) EXCEPT !.options = <<<<"file", 1>>, <<"file", 9>>, <<"method", <<"p", "S", "B">>>>>>],
         [Only(<<Method("B", Get)>>) EXCEPT !.options = <<<<"message", <<"p", "User">>>>, <<"message", <<"p", "Home">>>>>>]}

\* Rules that the load refuses.
Refused(rule) == Only(<<Method("B", Get), Method("C", rule)>>)
Refusals ==
  {Refused(Rule("GET", V1, <<"*">>)), Refused(Rule("GET", At("none"), <<>>)), Refused(Rule("GET", At("opt"), <<>>)),
   Refused(Rule("GET", At("user"), <<>>)), Refused(Rule("GET", Inner("id", "name"), <<>>)),
   Refused(Rule("GET", V1 \o <<"/", "%zz">>, <<>>)), Refused(Rule("POST", V1, <<"none">>)),
   Refused([Post EXCEPT !.additional = <<More>>]), Refused([Post EXCEPT !.response = <<"none">>]),
   Only(<<[Method("B", Get) EXCEPT !.streaming = TRUE]>>),
   Only(<<Method("B", Get), [Method("C", Get) EXCEPT !.input = Rel(<<"Home">>)]>>),
   [Plugin({TurnOn("allowDeleteBody")}, <<Known3, Main(<<Method("B", Rule("DELETE", V1, <<"*">>))>>)>>) EXCEPT
      !.options = <<<<"field", <<"p", "Req", "none">>>>>>]}

\* A file that names messages of a later one, whose package is nested in its
\* own; and the syntax of proto2.
Later == [File(<<"p", "q">>, "ex/q", "q") EXCEPT !.generate = FALSE,
            !.msgs = <<With(Message("Out", <<Sub("w", Rel(<<"In", "Deep">>)), Field("state", "enum", Rel(<<"Deep", "State">>))>>),
                            <<With(Message("In", <<Field("state", "enum", Rel(<<"Deep", "State">>))>>),
                                   <<[Message("Deep", <<Int32("count"), Field("state", "enum", Rel(<<"State">>))>>)
                                       EXCEPT !.enums = <<"State">>]>>)>>)>>]
Early == [File(<<"p">>, "ex/a", "a") EXCEPT
            !.msgs = <<Message("Req", <<Sub("w", Rel(<<"q", "Out">>)), Str("id")>>)>>,
            !.services = <<Service("S", <<[Method("B", Rule("GET", V1 \o <<"/", "{", "w", ".", "w", ".", "count", "}">>, <<>>))
                                           EXCEPT !.output = Rel(<<"q", "Out", "In">>)]>>)>>]
Old  == [Main(<<Method("B", Rule("GET", At("user_id"), <<>>)), Method("C", Rule("GET", At("ts"), <<>>)),
                Method("D", Rule("GET", Inner("alt_m", "name"), <<>>)),
                Method("E", Rule("GET", At("tags"), <<>>)), Method("F", Rule("POST", At("alt_s"), <<"user", "home">>))>>)
         EXCEPT !.syntax = "proto2"]
New  == [Old EXCEPT !.syntax = "proto3"]
Names == {Plugin({}, <<Early, Later>>), Plugin({}, <<Known3, Old>>), Plugin({TurnOn("standalone")}, <<Known3, New>>)}

-----------------------------------------------------------------------------
(* Plugins whose methods are called.                                        *)

Value(members) == [object |-> TRUE, null |-> FALSE, members |-> members]
Leaf           == [object |-> FALSE, null |-> FALSE, members |-> <<>>]
Null           == [object |-> FALSE, null |-> TRUE, members |-> <<>>]
One(k, v)      == Value(k :> v)

Key(path, values)      == [path |-> path, index |-> <<>>, values |-> values]
Indexed(path, i, v)    == [path |-> path, index |-> <<i>>, values |-> <<v>>]

Call(m, params) ==
  [method |-> <<"p", "S", m>>, index |-> 1, headers |-> <<>>, timeout |-> <<>>, host |-> "h", peer |-> "",
   body |-> NoBody, wire |-> FALSE, params |-> params, query |-> {}, response |-> <<"message", "User">>]

\* Keys that share a message, a oneof, a list, a map, a spelling; that fail.
\* A query has any two of them.
QueryKeys ==
  {Key(<<"user", "name">>, <<"five">>), Key(<<"user", "fullName">>, <<"five">>),
   Key(<<"user", "home", "city">>, <<"k">>), Key(<<"user", "none", "x">>, <<"k">>), Key(<<"user">>, <<"five">>),
   Key(<<"userId">>, <<"6">>), Key(<<"user_id">>, <<"5">>), Key(<<"user_id">>, <<"5", "5">>),
   Key(<<"tags">>, <<"five", "k">>), Key(<<"tags", "x">>, <<"k">>), Key(<<"id">>, <<"k">>),
   Indexed(<<"attrs">>, "k", "5"), Indexed(<<"attrs">>, "five", "5"), Indexed(<<"attrs">>, "k", "five"),
   Key(<<"alt_s">>, <<"five">>), Key(<<"alt_m", "name">>, <<"five">>), Key(<<"alt_m", "home", "city">>, <<"five">>),
   Key(<<"alt_m", "none">>, <<"k">>), Key(<<"ts">>, <<"now">>), Key(<<"ts">>, <<"k">>), Key(<<"ts", "seconds">>, <<"k">>),
   Key(<<"opt">>, <<"k">>), Key(<<"update_mask">>, <<"k">>), Key(<<"none">>, <<"k">>)}
Queries == {{k, l} : k \in QueryKeys, l \in QueryKeys}

Headers ==
  {("Authorization" :> <<"t", "u">>) @@ ("Accept" :> <<"a">>) @@ ("X-Forwarded-For" :> <<"f">>)
     @@ ("Grpc-Metadata-Authorization" :> <<"t">>),
   ("Grpc-Metadata-Key-Bin" :> <<"YQ==", "Yg", "YQ">>) @@ ("Grpc-Metadata-B@d" :> <<"v">>)
     @@ ("Grpc-Metadata-Id" :> <<"v", "tab", "v">>) @@ ("X-Forwarded-Host" :> <<"g">>),
   ("Grpc-Metadata-Key-Bin" :> <<"YQ", "!">>) @@ ("Grpc-Metadata-Id" :> <<"v">>) @@ ("X-Other" :> <<"v">>)}
Timeouts == {<<2, "H">>, <<3, "H">>, <<0, "S">>, <<-1, "S">>, <<1, "x">>}

\* Bodies of a user: any members, each with the values that matter for it.
Members ==
  [name |-> {Leaf, Null}, fullName |-> {Leaf},
   home |-> {Null, Value(<<>>), One("city", Leaf), Value(("meta" :> One("a", Leaf)) @@ ("city" :> Leaf))},
   extra |-> {Value(<<>>), One("a", Value(("b" :> Leaf) @@ ("c" :> Null)))},
   any |-> {Null, Value(<<>>), One("@type", Leaf)}]
Bodies ==
  {NoBody, Leaf, One("none", Leaf), One("name", One("x", Leaf)),
   Value(("any" :> Null) @@ ("none" :> Leaf)), Value(("any" :> Null) @@ ("home" :> One("none", Leaf)))}
  \cup UNION {{Value(f) : f \in {g \in [ks -> UNION Range(Members)] : \A k \in ks : g[k] \in Members[k]}} :
              ks \in {x \in SUBSET DOMAIN Members : Cardinality(x) <= 2}}

Called ==
  [Only(<<Method("Get", Get), Method("Patch", Rule("PATCH", At("id"), <<"user">>)),
          Method("Put", Rule("PUT", At("user_id"), <<"*">>)), Method("Bad", Rule("POST", V1, <<"tags">>)),
          Method("Home", Rule("PATCH", V1, <<"alt_m", "home">>)),
          Method("Extra", Rule("PATCH", V1, <<"alt_m">>))>>) EXCEPT
     !.requests =
       {[Call("Get", <<"five">>) EXCEPT !.query = q] : q \in Queries}
       \cup {[Call("Get", <<"five">>) EXCEPT !.headers = h, !.peer = "i"] : h \in Headers}
       \cup {[Call("Get", <<"five">>) EXCEPT !.timeout = t, !.host = ""] : t \in Timeouts}
       \cup {[Call("Patch", <<"five">>) EXCEPT !.body = b] : b \in Bodies}
       \cup {[Call("Patch", <<"five">>) EXCEPT !.body = One("name", Leaf), !.query = q] : q \in Queries}
       \cup {[Call("Put", <<x>>) EXCEPT !.body = Value(("id" :> Leaf) @@ ("userId" :> Leaf)), !.query = q] :
               x \in {"5", "five"}, q \in Queries}
       \cup {[Call("Home", <<>>) EXCEPT !.body = One("city", Leaf), !.query = q] : q \in Queries}
       \cup {[Call("Extra", <<>>) EXCEPT !.body = One("extra", One("a", One("b", Leaf)))],
             [Call("Bad", <<>>) EXCEPT !.body = Value(<<>>)]}]

-----------------------------------------------------------------------------
(* A plugin whose methods answer with a field of each type.                  *)

MCUnwritable == {"NaN"}
MCMediaType  == ("application/numbers; charset=utf-8" :> "application/numbers") @@ ("application/proto" :> "application/proto")

JSONPb(emit, numbers) == [kind |-> "jsonpb", emitUnpopulated |-> emit, useEnumNumbers |-> numbers]
Marshals(mime, m) == Option("marshaler", mime, m)
Adds ==
  <<Marshals("application/numbers", JSONPb(FALSE, FALSE)), Marshals("application/numbers", JSONPb(TRUE, TRUE)),
    Marshals("application/sparse", JSONPb(FALSE, FALSE)), Marshals("application/proto", [kind |-> "proto"]),
    Marshals("application/std", [kind |-> "builtin"])>>

EnumEntry  == Message("KindsEntry", <<Str("key"), Field("value", "enum", Abs(<<"p", "Kind">>))>>)
BytesEntry == Message("RawsEntry", <<Str("key"), Field("value", "bytes", Abs(<<>>))>>)
Resp == With(Message("Resp",
  <<Field("num", "double", Abs(<<>>)), [Str("opt") EXCEPT !.optional = TRUE], Many(Str("list")),
    Field("raw", "bytes", Abs(<<>>)), Many(Field("chunks", "bytes", Abs(<<>>))), Many(Sub("users", Abs(<<"p", "User">>))),
    Field("status", "enum", Abs(<<"p", "Kind">>)), [Field("maybe", "enum", Abs(<<"p", "Kind">>)) EXCEPT !.optional = TRUE],
    Many(Field("kinds", "enum", Abs(<<"p", "Kind">>))), MapOf(Sub("kindOf", Abs(<<"p", "Resp", "KindsEntry">>))),
    MapOf(Sub("raws", Abs(<<"p", "Resp", "RawsEntry">>)))>>), <<EnumEntry, BytesEntry>>)

AScalar(x) == <<"scalar", x>>
SomeBytes(x) == <<"bytes", x>>
AnEnum(n)  == <<"enum", n>>
User1     == <<"message", "User">>
ListsOf(vs) == {Nil, <<"slice", <<>>>>} \cup {<<"slice", <<v, w>>>> : v \in vs, w \in vs}
MapsOf(vs)  == {Nil} \cup {<<"map", ("a" :> v) @@ ("b" :> w)>> : v \in vs, w \in vs}
Answers ==
  [num |-> {AScalar("1.5"), AScalar("NaN")}, opt |-> {Nil, AScalar("k")}, list |-> ListsOf({AScalar("k")}),
   raw |-> {Nil, SomeBytes("a")}, chunks |-> ListsOf({Nil, SomeBytes("a")}), users |-> ListsOf({Nil, User1}),
   status |-> {AnEnum(1)}, maybe |-> {Nil, AnEnum(1)}, kinds |-> ListsOf({AnEnum(0), AnEnum(7)}),
   kindOf |-> MapsOf({AnEnum(1)}), raws |-> MapsOf({Nil, SomeBytes("a")})]

Accepted == {<<>>, <<"application/other", "application/sparse">>, <<"application/numbers; charset=utf-8">>,
             <<"application/proto">>, <<"application/std">>}
Accepting(a, c) == (IF a = <<>> THEN <<>> ELSE "Accept" :> a) @@ (IF c = <<>> THEN <<>> ELSE "Content-Type" :> c)

Part(f)  == Method(f, [Rule("GET", V1, <<>>) EXCEPT !.response = <<f>>])
Parts    == <<"num", "opt", "list", "raw", "chunks", "users", "status", "maybe", "kinds", "kindOf", "raws">>
Download == [Method("Raw", Rule("GET", V1, <<>>)) EXCEPT !.output = Abs(<<"google", "api", "HttpBody">>)]
API      == [File(<<"google", "api">>, "g/api", "api") EXCEPT !.generate = FALSE, !.msgs = <<Message("HttpBody", <<>>)>>]
Answering ==
  [Plugin({}, <<API, Known3, [Main([i \in DOMAIN Parts |-> [Part(Parts[i]) EXCEPT !.output = Abs(<<"p", "Resp">>)]]
                                    \o <<Download, Method("Patch", Rule("PATCH", At("id"), <<"user">>)),
                                         Method("Post", Rule("POST", V1, <<"*">>))>>)
                              EXCEPT !.msgs = <<Req, User, Resp>>, !.enums = <<"Kind">>]>>) EXCEPT
     !.muxOptions = Adds,
     !.requests =
       UNION {{[Call(f, <<>>) EXCEPT !.response = v, !.headers = Accepting(a, <<>>)] : v \in Answers[f], a \in Accepted} :
              f \in DOMAIN Answers}
       \cup {[Call("kinds", <<>>) EXCEPT !.response = <<"slice", <<AnEnum(1)>>>>, !.headers = Accepting(<<>>, c)] :
               c \in {<<"application/numbers; charset=utf-8">>, <<"application/numbers; charset", "application/proto">>}}
       \cup {[Call("Raw", <<>>) EXCEPT !.response = <<"message", "HttpBody">>, !.headers = Accepting(a, <<>>)] : a \in Accepted}
       \cup {[Call(m, IF m = "Patch" THEN <<"five">> ELSE <<>>) EXCEPT
                 !.body = One("name", Leaf), !.wire = w, !.headers = Accepting(<<>>, c)] :
               m \in {"Patch", "Post"}, w \in BOOLEAN, c \in {<<>>, <<"application/proto">>}}]
\* A mux with a matcher of its own, which gives two headers one key, a binary
\* one a key for text and a forwarding header one that is never used.
Matching ==
  [Only(<<Method("Get", Get)>>) EXCEPT
     !.muxOptions = <<Option("replace", "incomingHeaderMatcher",
                             ("X-Other" :> "Id") @@ ("Grpc-Metadata-Id" :> "Id") @@ ("Grpc-Metadata-Key-Bin" :> "B@d")
                             @@ ("Authorization" :> "Authorization") @@ ("X-Forwarded-For" :> "Id"))>>,
     !.requests = {[Call("Get", <<"five">>) EXCEPT !.headers = h] : h \in Headers}]
Unmade == [Only(<<Method("B", Get)>>) EXCEPT !.muxOptions = <<Marshals("", JSONPb(TRUE, TRUE)), Marshals("*", JSONPb(TRUE, TRUE))>>]

-----------------------------------------------------------------------------
(* A plugin with a path parameter of each type.                             *)

Kinds == <<"double", "float", "int64", "uint64", "int32", "fixed64", "fixed32", "bool", "string", "bytes", "uint32",
           "enum", "sfixed32", "sfixed64", "sint32", "sint64">>
Wrappers == <<"Timestamp", "Duration", "StringValue", "FloatValue", "DoubleValue", "BoolValue", "BytesValue",
              "Int32Value", "UInt32Value", "Int64Value", "UInt64Value">>
OfKinds  == [i \in DOMAIN Kinds |-> Field(Kinds[i], Kinds[i], IF Kinds[i] = "enum" THEN Abs(<<"p", "Kind">>) ELSE Abs(<<>>))]
OfTypes  == [i \in DOMAIN Wrappers |-> Sub(Wrappers[i], WKT(Wrappers[i]))]
Each     == OfKinds \o OfTypes \o <<Many(Str("strings")), Many(Int32("ints"))>>
Texts    == {"k", "5", "1", "-1", "010", "0x10", "2^40", "1.5", "1e99", "true", "ON", "YQ==", "_w==", "now", "'now'", "60s", "1m", "a,b"}
Converting ==
  [Plugin({}, <<[Known3 EXCEPT !.msgs = [i \in DOMAIN Wrappers |-> Message(Wrappers[i], <<Str("value")>>)]],
                [Main([i \in DOMAIN Each |-> Method(Each[i].name, Rule("GET", At(Each[i].name), <<>>))]) EXCEPT
                   !.msgs = <<Message("Req", Each), Message("User", <<>>)>>, !.enums = <<"Kind">>]>>) EXCEPT
     !.requests = {Call(Each[i].name, <<x>>) : i \in DOMAIN Each, x \in Texts}]

\* Words of the templates that are identifiers, and the others.
MCIdent   == {"id", "user", "name", "full_name", "home", "city", "ts", "tags", "user_id",
              "opt", "alt_s", "alt_m", "count", "raw", "seconds", "none", "v1", "w", "wrap"}
             \cup {Each[i].name : i \in DOMAIN Each}

MCInput == Aliases \cup External \cup Refusals \cup Names \cup {Called, Answering, Converting, Matching, Unmade}

MCRequests == UNION {i.requests : i \in MCInput}
MCMuxes    == {MuxOf(i.muxOptions) : i \in MCInput}

\* A route with a parameter of the request and two of a message in it:
\* /v1/{name}/{user.name}/{user.full_name}.
Siblings ==
  {[Only(<<Method("Get", Rule("GET", At("name") \o SubSeq(Inner("user", "name"), 3, 8)
                                       \o SubSeq(Inner("user", "full_name"), 3, 8), <<>>))>>)
      EXCEPT !.requests = {[Call("Get", <<"k", "k", "k">>) EXCEPT !.query = {Key(<<"user", "name">>, <<"five">>)}]}]}
SiblingRequests == UNION {i.requests : i \in Siblings}
=============================================================================
