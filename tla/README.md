# A verification development for grpc-runtime

TLA+ specifications of the gRPC gateway runtime in this repository, the TLC
configurations that check them on small instances, and TLAPS proofs of their
main safety theorems for every value of their constants. File names and line
numbers below refer to the repository's source.

## 1. The system and its parts

The runtime turns HTTP requests into gRPC calls. A request goes through

    ServeHTTP -> Table.Match / MatchOther -> handler -> AnnotateContext
      -> BuildRequest -> gRPC call -> ForwardResponseMessage / Stream

| Part | State | Operations | Hard behaviour |
|---|---|---|---|
| Routing table (`routing/route_table.go`, `trie.go`, `static_index.go`, `template.go`) | per method a static index, a radix trie, a linear list; the set of methods; one `RWMutex` | `Add`, `Match`, `MatchOther` | three indexes that must agree; shared trie leaves and parameter names; backtracking over one capture buffer; lookups beside registrations |
| Params pool (`routing/pool.go`, `params.go`) | recycled `Params`, each with a cached map | `AcquireParams`, `ReleaseParams`, `Reset`, `Add`, `Map` | ownership; content that survives recycling; maps that outlive their `Params` |
| ServeMux (`mux.go`) | the table, options | `Handle`, `HandleRoute`, `HandlePath`, `ServeHTTP` | two lookups under two lock acquisitions; method override and form fallback; release on every path; panics |
| Pattern matcher (`pattern.go`) | opcodes, pool | `NewPattern`, `MatchAndEscape`, `String`, `staticPath` | a stack machine whose input is only checked once; agreement with the trie |
| Call pipeline (`route_desc.go`, `build_request.go`, `context.go`, `validation.go`) | a request's context and message | `RegisterRoutes`, `newRouteHandler`, `BuildRequest`, `AnnotateContext` | the order of steps, error paths, a body read twice |
| Response forwarding (`response.go`, `response/`) | what has been written of an HTTP response | `ForwardResponseMessage`, `ForwardResponseStream`, error handlers | an error after the headers are gone; trailers; delimiters |
| Metadata and timeouts (`metadata/`, `context.go`) | a context's metadata and transport stream | `AnnotateContext`, `DecodeTimeout` | the order of a Go map, duplicate and binary headers, integer width |
| Binding (`binding.go`, `build_request.go`) | a protobuf message under construction | `Parse`, `populate*`, `decodeBody`, `FieldMaskFromRequestBody` | map order, partial results, two decoders of one body, two spellings of a field |
| HTTP rules (`httprule/`) | tokens, segments, opcodes | `Parse`, `Compile` | grammar edge cases; five representations of one template |
| Double array (`utilities/trie.go`) | base and check arrays | `NewDoubleArray`, `HasCommonPrefix` | cells shared among nodes |
| Marshaler registry (`codec/registry.go`) | marshalers by MIME type | `Add`, `MarshalerForRequest` | defaults and fallbacks |
| Marshalers (`codec/jsonpb.go`, `json_builtin.go`, `proto.go`, `httpbody.go`) | none | `Marshal`, `Unmarshal`, `ContentType` | two walks over Go values by reflection that must agree |
| Scalar conversions (`scalar/`) | none | the `Convert` functions, singular, pointed, repeated | the same text read by two packages |
| Mux options (`mux.go`) | the mux under construction | the `With*` options, `NewServeMux` | later options replace or extend earlier ones; nil functions |
| Descriptor registry (`protocgen/descriptor/`) | settings; messages, enums, files, services by name; external rules | the setters, `Load`, `LookupMsg`, `LookupEnum`, `loadServices`, `RegisterOpenAPIOptions` | name resolution, load order, three sources of rules, generated expressions |

In another process, the code generator's: files and rules go through

    Configure -> Load -> LoadFile* -> loadServices* -> CheckDuplicateAnnotation
      -> RegisterOpenAPIOptions

and what it generates from a binding (conversions, filter, body path) is what the
runtime later executes.

How they interact: the mux owns the table and gives every route a matcher
(`matchHandlerPath`) that takes its own `Params` out of the pool; the table calls
these matchers under its read lock; the handler borrows the `Params` of the match
until `ServeHTTP` releases it. The handler binds the message with the filter and the
paths that the registry has put in its route, and answers with the marshaler that
the mux's registry selects. What each part has to guarantee, and the hazards
that threaten it, are in PROJECT.json ("hazards", at their lines); the sections
below say which property stands against which.

## 2. Modules

**PathTemplate** has the two readings of a path template that the runtime
contains. The trie compiles a template into edges (`compileTemplate`) and splits
a path into non-empty parts; the Pattern matcher executes opcodes on the path's
components (`matchPatternPath`, `MatchAndEscape`). A component is a model value;
the constant `Text` gives what the code computes from its characters: its part
before the last colon and the verb after it, its unescaped forms, and its pieces
between encoded slashes, so that a configuration contains one component for each
case the code tells apart. Verdicts are accepted with captures, not matched,
malformed, and a panic.

**RouteTable** is `routing.Table` run sequentially: `Add` is one action and
`MatchInternal`, `MatchOtherResults` are operators on its state. A trie is the
set of its leaves, each named by the edges that lead to it, and the names its
parameter and wildcard nodes keep; `TrieLookup` is the recursive search with the
capture buffer the branches share, including what backtracking removes.

**ParamsPool** has the objects of the pool: how often each is in it, its
content, its cached map. Maps live apart because they may outlive the object.

**ServeMux** composes both with the goroutines of `ServeHTTP`. A lookup takes one
step per branch and pool operation of `matchInternal`, so that steps of other
goroutines come between; the writer-preferring `RWMutex` is explicit (a writer
announces itself, readers that come later wait for it). `call[q]` is the
goroutine's position and locals, `scratch[q]` the `Params` that the trie search
fills, `held[q]` those of the match, `view[q]` the map given to the handler.

| ServeMux action | Code |
|---|---|
| `Announce`, `AddLocked` | `registerHandler`, `Table.Add` |
| `Arrive` | `ServeHTTP` up to `Match` |
| `RLock`, `NextMethod`, `RUnlock` | `Match`, `MatchOther` |
| `StaticHit`, `NoTrie`, `SearchTrie`, `GoToScan`, `LeafConfirmed`, `LeafFails`, `LeafPanics`, `DropTrieParams`, `ScanList` | `matchInternal`, `matchFallback`, `lookup` |
| `DispatchOwn`, `LookElsewhere`, `DispatchOther`, `DispatchUnknown`, `DispatchFailure` | `ServeHTTP` after each lookup |
| `AskForMap`, `HandlerReturns`, `HandlerPanics` | the handler |
| `ReleaseMatch` | `Match.Release` |

**HttpDispatch** is the abstract specification of the mux: a growing set of
routes, and requests that are each answered once, with an answer allowed by the
routes known on arrival and those known when it is given. `AllowedAnswers` in
ServeMux defines these without trie, list, lock or pool. `AnswersAsPromised` is
the refinement.

**HttpResponse** is the `http.ResponseWriter` of net/http as `response.go` uses it
(external): the header map, its copy that goes on the wire with the first
`WriteHeader` or `Write`, the trailers that reach the client because that copy
announced them, the body and how much of it is flushed.

**ResponseForwarding** is `response.go`: a unary answer, a stream, an error. A
header is what the properties tell apart: the source its Content-Type was computed
from, whether it has a length or chunks, the announced trailers, a count per
metadata key. Elements of the body are named by their kind and the message they
stand for. Each step that can fail by itself (options, rewriter, marshaler, each
write, flush) is a choice; the client may leave at any time.

| ResponseForwarding action | Code |
|---|---|
| `ForwardMessage`, `ForwardStream`, `ReportError` | the calls of a generated handler |
| `ForwardHead`, `ForwardBody` | `ForwardResponseMessage` up to and after the options |
| `HTTPError` | `DefaultHTTPErrorHandler` |
| `StreamHead`, `Recv`, `PrepareChunk`, `WriteChunk`, `WriteDelimiter`, `FlushChunk` | `ForwardResponseStream` |
| `HandleStreamError` | `handleForwardResponseStreamError` |
| `Disconnect` | the client |

**StreamContract** is the abstract specification of a stream: a message is shown
before the next is taken, the end is the true one, and only a client that left is
left without an ending. `KeepsStreamContract` is the refinement; what is shown
are the numbers of the messages in the body.

**CallPipeline** puts the handler of a route in front of ResponseForwarding.
A message maps each field to the source of its value (body, path, query,
inferred mask), which is all that precedence is about.

| CallPipeline action | Code |
|---|---|
| `Enter`, `Annotate` | `newRouteHandler`, `AnnotateContext` (its error path) |
| `EnterStream` | a handler given to `HandlePath` that forwards a stream |
| `ReadBody`, `DecodeBody`, `ApplyPathParams`, `ApplyQueryParams`, `ApplyFieldMask` | the steps of `BuildRequest` |
| `ValidateRequest`, `Invoke` | the rest of `newRouteHandler` |

**HttpRule** is package `httprule`: tokenizer, recursive-descent parser, compiler to
opcodes, printer. A template is a sequence of lexemes, that is of the characters
that the code tells apart and of words. **Unescape** has both percent-decoders of
the runtime, of `pattern.go` and of `routing/unescape.go`, on sequences of
characters.

**PatternVM** is `Pattern` as the machine it is: `NewPattern` walks over the program
with a simulated stack, one `CheckOp` for each operation; `MatchAndEscape` then
executes what was accepted and asks nothing. `MatchAndEscape` of PathTemplate says what
the program of a template computes, so that the routing models and proofs rest on
that definition and not on the machine.

**HandlePath** composes the three: a template is parsed, compiled, checked, printed
by `Pattern.String` for the routing table and read again by the table's own parser
(`routing/template.go`); a path is matched by the machine.

| HandlePath action | Code |
|---|---|
| `HandleTemplate` | `ServeMux.HandlePath`: `httprule.Parse`, `Compile` |
| `NewPattern`, `CheckOp` (`CheckNop`, `CheckReal`), `Accept` | `NewPattern` |
| `MatchPath` (`Crash`), `Match` | `matchPatternPath`; any caller of `MatchAndEscape` |
| `Execute`, `EndMatch` | `MatchAndEscape`: an operation, the end |

`Crash` is the panic of a path without components (`mux.go:536`), which only the mode
that splits at encoded slashes produces: `root_path` shows it, the `templates` run is
in the other mode, and the proofs cover both.

**DescriptorTypes** has qualified names, the walk of a name from the innermost scope
outwards, field paths, and the Go expressions the generator makes of them.
**DescriptorRegistry** is the registry: a plugin calls its setters in any order, then
the files are loaded and the services bound. A file, a message, a rule are records
of what the code reads.

| DescriptorRegistry action | Code |
|---|---|
| `Configure`: `Set`, `SetSeparator`, `SetUseFQN`, `AddPkgMap`, `SetGoTemplateArgs`, `SetVisibilityRestrictionSelectors`, `ReserveGoPackageAlias`, `LoadRules` | the setters, `ReserveGoPackageAlias`, `registerHTTPRulesFromGrpcAPIService` |
| `Load`, `LoadFile`, `FilesLoaded` | `load`, `loadFile`, `registerMsg`, `registerEnum` |
| `LoadServices`, `ServicesLoaded` | `loadServices`, `newMethod`, `newParam`, `newBody`, `newResponse` |
| `CheckDuplicateAnnotation` | `CheckDuplicateAnnotation`, for each binding in turn |
| `RegisterOpenAPIOptions` | `RegisterOpenAPIOptions` |

**DoubleArray** builds the two arrays of `utilities/trie.go` cell by cell and walks
them. **Scalar** reads texts as the generated conversions and as `parseField` do.
**FieldPopulation** writes values into a message, **FieldMask** decodes a body and infers
its mask, **HeaderAnnotation** says what one header becomes, **Codec** has
the marshalers, their registry and the choice among them, **MuxOptions** the options of
`NewServeMux` in their order. They are operators; a message is a function from field
paths to what is there.

**ContextAnnotation** is `AnnotateContext` at work on a request: the map of headers is
walked in any order, one step each (`Receive`, `AnnotateHeader`, `AnnotateContext`). It has
a specification of its own, for any requests and muxes.

**RequestBinding** composes all of these with the registry: the methods it has loaded
are called. It takes the steps of ContextAnnotation for the requests of its instance and goes on
from the stage at which they end; nothing later touches the metadata or the deadline.

| RequestBinding action | Code |
|---|---|
| `NewServeMux` | `NewServeMux` with the options of the user |
| `Serve` (`Receive`), `AnnotateHeader`, `AnnotateContext`, all `OnContext` | `AnnotateContext`: one step per header, in any order |
| `DecodeBody` | `decodeBody`, `mutableFieldMessage` |
| `ApplyPathParam`, `PathParamsApplied` | path parameters, one at a time |
| `ApplyQuery`, `QueryApplied` | `Parse`: one step per key, in any order |
| `ApplyFieldMask` | `applyFieldMaskFromBody`, `FieldMaskFromRequestBody` |
| `Respond` | the marshaling part of `ForwardResponseMessage` |

CallPipeline says the same of a request from a distance: there each source is one
step and a value is the name of its source, here each key is a step and has a value.

**RouteTable_proofs**, **ServeMux_proofs**, **HttpRule_proofs**, **HandlePath_proofs**
(which also has the proofs about PatternVM), **CallPipeline_proofs** (and those about
ResponseForwarding), **ContextAnnotation_proofs**, **DescriptorRegistry_proofs**: theorems
(section 5). **RecursionLemmas** is what they need of recursive functions.
**MCRouteTable**, **MCServeMux**, **MCHandlePath**, **MCRequestBinding**, **MCGateway**:
instances for TLC.

## 3. Runs

| Run | Shows | Bounds |
|---|---|---|
| route_table | `DispatchSound`, `DispatchComplete`, `LatestRegistrationWins`, `TrieSearchIsReference` on every table reachable | one method, eleven routes or fewer, three registrations: two routes that share a leaf and a third that competes are the shortest tables where an overwritten leaf, a captured name or a wrong rollback shows |
| serve_mux_pool | one owner per object, nothing kept, handlers see their own captures, kept maps stay | two requests, four objects (each goroutine holds two at most), two registrations; symmetric in objects and requests |
| serve_mux_answers | lookups are atomic, every answer is one HttpDispatch allows | one request of each of the twenty or so kinds, two registrations out of eight, for three methods, that may come at any step; requests influence one another only through lock and pool, which the other runs check |
| serve_mux_live | requests and registrations end | two requests, two registrations, three objects |
| templates | a template means the same in all five representations; what `NewPattern` accepts never panics; joined components decode as single ones | 31 templates that reach each rule of the grammar, 19 paths, every program of at most three operations out of twelve (three are needed to push, concatenate and capture), a mode that keeps some escapes |
| request_binding | names resolve, rules are accounted for, generated code fits; query and headers do not depend on their order; the filter shields, the mask covers the body; a response reads back | 30 plugins of at most four files, their setters in any order; any two of 24 query keys on four routes (two keys are enough to meet in a message, a oneof, a list or a spelling); bodies of up to two members; path parameters of all sixteen kinds and eleven well-known types, on eighteen texts; a response of each Go type under five values of `Accept`; durations of 8 bits, so that hours overflow, and a default of two seconds and a half |
| gateway | the server gets what was bound and validated; status, type, framing and trailers tell the truth whichever step fails; frames are whole and never held back; the stream keeps its contract | 162 requests that combine three sources, filter and mask, and one call of each kind; two values of server metadata (none; a header and a trailer that pass, a trailer that does not), five errors (OK, two in the table, one beyond it, one with a status of its own), options that write nothing or 201, streams of two messages: one that is first and one that follows a frame |

Five more runs are expected to fail, each on a single property that states a
comment of the code or a test (section 6).

The violation runs share the instances above: `sibling_params` that of
`request_binding` with one route, the others those of `route_table`, `serve_mux_answers`
and `gateway`.

`MaxNesting` is how deep messages of the files are nested: `Level` is computed up to it, and
`FilesAssumption` says that nothing is nested deeper. `MaxRoutes` bounds the registrations in `Add` and `Announce`; it bounds nothing in
the code; `MaxMessages` bounds `Recv`, that is the length of a stream.
`CHECK_DEADLOCK FALSE` is set where every request and registration of the bounded
instance may have ended, and in the `templates`, `request_binding` and gateway runs,
where the one template, plugin or call ends.

**The environment of a response.** A write or a flush fails only once the client
is gone, and may even then succeed. Marshalers, rewriters, options, `recv`, the
server and the validator fail whenever they like. An option may write the status
line, with a status that allows a body: net/http refuses a body after 204 or 304,
and the model does not describe that.

**Fairness.** Only `serve_mux_live` needs any: it assumes weak fairness of every goroutine's own
steps (the Go scheduler runs what can run; a handler returns or panics) and of
the announced writer. A writer announces itself on its own account and requests
arrive on their own account: no fairness there. Weak fairness of `AddLocked` is
enough because `RWMutex` holds back new readers while a writer waits, so the
writer's condition, once true, stays true.

Panics: net/http recovers from a handler's panic and the goroutine ends
(`Aborted`); what it held is left to the collector, as `defer` is used for the
lock but not for the `Params`. `NothingKept` excludes these requests.

## 4. Assumptions on constants

`PathTemplateAssumption`, `PoolAssumption`, `RouteTableAssumption`,
`ServeMuxAssumption`, `PatternVMAssumption`, `MetadataAssumption`, `ErrorAssumption` and
`CallAssumption` type the constants; `TypeAssumption` says that "no type" is not the
type of an answer; `HttpRuleAssumption` says that words and punctuation are strings
and that an identifier is neither punctuation nor unclean, `HandlePathAssumption`
that templates are sequences of lexemes and paths sequences of components;
`FilesAssumption` that files, services and methods are sequences, nested no deeper than
`MaxNesting`, and that files with one Go import path have one package name, as protogen
refuses others; `MethodsAssumption` that rules come in sequences, and that no two methods
have one name, as protoc refuses them; `NamesAssumption` that names, field paths and default paths
are strings or sequences of strings, and the fields of a message a sequence;
`RequestsAssumption` that a request maps headers to sequences of strings, `InputAssumption` that
the requests of an instance are among those; `HeaderAssumption` that a duration has a positive range
(tlapm knows no more of powers), that a second is positive and the default timeout a duration, and that the forwarding headers do not end in `-Bin`. `ServeMuxAssumption` also says that every route
registered by a mux has a matcher, which is `registerHandler`'s doing, and
`CallAssumption` that a body bound to a field has that field's fields. TLC
evaluates the assumptions in the runs of their modules.

## 5. Proofs

For any set of routes, methods, paths, requests and objects, any metadata, errors
and options, and streams of any length:

* `TableTypeCorrect`: `TableTypeOK` is inductive by itself.
* `ListedAlways`, `DispatchIsComplete`: a lookup that reports a miss looked
  through the linear list. The invariant needed is `Listed`: every registered
  route with a matcher is in its method's list or purely static. The theorem
  assumes that all routes have matchers (`AllHaveMatchers`) and that the matcher
  of a purely static route accepts its own path only (`StaticMatchersExact`).
  Both hold for a mux outside `UnescapingModeAllCharacters`; in that mode the
  matcher of a static route also accepts paths with empty components that the
  static index does not.
* `TrieSearchIsAlwaysReference`: the recursive search of the trie against its
  definition, for tries of any size and paths of any length. `TriesKeepShape`
  is the invariant: a parameter or wildcard edge has a name at its parent, and a
  name has its node. The lemmas before it have the argument about one such
  trie. If the search meets its definition (`Outcome`) below all longer nodes,
  one more call of its body meets it at this one (`SearchStep`): each of the three
  branches finds the first match below its child or leaves the buffer as it was, and
  matches below an earlier branch precede those below a later one. A set of nodes has
  a member with nothing longer in it, or one that has used up the path, so there is no
  node where a solution of the recursion fails (`SearchFinds`); and a solution exists,
  as the function that chooses the outcome at each node is one. At the
  root this is `SearchIsReference`.
* `DispatchIsSound`: assumes `AllHaveMatchers`. What the search returns is a leaf, and
  its captures are dropped for the verdict of the route's own matcher.
* `LatestRegistrationAlwaysWins`: under the assumptions of `DispatchIsComplete`. The
  invariant `LatestInv` relates each index to the history of registrations: a static
  entry is the latest of its path, a leaf the latest of its edges, and what was
  registered after an entry of the list lies in front of it.
* ServeMux: the inductive invariant `MuxInv` is `MuxTypeOK`, `OwnerInv` and
  `DataInv`. `OwnerInv` adds `Custody` to `ParamsOwned`: what a goroutine owns is
  a function of where it is, so that an action that acquires finds the goroutine
  empty-handed and one that releases finds it holding. `DataInv` says where
  captures are between the match and the end of the handler, and that the map of
  an object in use is its own request's. From it follow `MuxTypeCorrect`,
  `ParamsAlwaysOwned`, `NothingEverKept`, `HandlersSeeOwnParams` and
  `KeptMapsStable`, whatever the table is and whatever the trie search returns.
* `TableInsideMux`: every step of the mux is a registration or leaves the table alone, so
  that the theorems on RouteTable hold inside. `LookupsAreAtomic` follows from `SearchInv`,
  which says how far a lookup has come in the table it reads: the methods left behind
  have nothing for the path, and what it has concluded or still has to look at is what
  `MatchInternal` gives. A registration cannot disturb it, as the writer finds no reader
  inside, and the readers it lets in have everything to search.
* `MuxAnswersAsPromised`: the mux implements HttpDispatch, which chooses among the
  routes where the mux steps through a table. It assumes `StaticMatchersExact`, like
  the completeness of a lookup. A promise relates two moments: a success or a failure
  of a handler is told of the routes registered when it is given, a miss of those
  known when the request arrived. `PromiseInv` carries both through the steps between:
  `KnownMethods` (what a request knew on arrival is registered still, as routes only
  grow) and `ResultOK`, which says at the dispatch what the result of the lookup means
  for the routes. It is established where the lock is released, from `SearchInv` and
  the soundness and completeness of a lookup, and no later registration breaks it.
* PatternVM: `IInv` says that before each operation the simulated depth is the
  depth of the real stack, that a pushed tail never exceeds what is left of the
  components, and that operands lie in the pool. Hence `VMTypeCorrect` (the stack stays
  under the capacity `NewPattern` computed) and `AcceptedProgramsNeverPanic`, for any
  program, well-formed or not, that `NewPattern` accepts.
* `ParseIsShaped`: what the parser returns for a template of any length. Recursive
  definitions are recursive functions here, and RecursionLemmas proves once
  that they have the value they recur to: a recursion on smaller numbers, or on later
  positions in which each position asks only for later ones, has exactly one
  solution (`RecursionExists`, `BackwardExists`, `RecursionUnique`). The parser's functions are of the
  second kind because the tokens end in the end of tokens, which every rule refuses, so
  that no rule looks behind it. That what a variable
  stands for contains no variable is the tokenizer's doing: in the state it is in
  after `=`, a `{` is never a token of its own (`SeparatorIn`, carried through `Scan`).
* `MachineComputesTemplate`, `TemplatesAreAccepted`, `TemplatesNeverPanic`: the composition in HandlePath.
  Three readings of a template meet: its segments, its leaves with variables over
  ranges of them (`Flat`, what PathTemplate takes), its operations. `Programs` is the
  layout of the program: before operation j it has gone through `K[j]` leaves and
  `V[j]` variables, and the `R[j]` last values of the stack are what the last `R[j]` leaves
  pushed; the compiler emits such a program for whatever parses (`CompileEncodes` adds
  that the pool has every string where its operand points). The invariant `PathInv`
  says, on top of `IInv` of PatternVM, that whatever was parsed is followed (`Follows`):
  while it is checked, that what NewPattern has counted (depth, tail length, whether a `**` was
  seen, the numbers of variables) is what the layout says (`Checked`), and that it stops only at
  a second `**` (`Refused`); while it runs, that all leaves up to `K[pc]` fit, that the position in the
  path is the one PathTemplate computes (`Position`), that the stack's top are the
  pieces of the last leaves, and that each variable passed holds its piece
  (`Running`). At the end this is the definition of `MatchAndEscape` in PathTemplate. The tail is
  where it is subtle: `tailLen` is counted while checking, over the leaves that follow the `**`, and used
  to cut the components before those leaves are reached.

  What these proofs take from characters is only that `Str` gives a text; that
  `Str` tells two different texts apart is nowhere used.
* ResponseForwarding: the inductive invariant `IInv` is `TypeOK`, `WriterInv`,
  `FramingInv`, `BodyInv` and `ErrorInv`. `FramingAgrees` speaks of the wire, and
  the wire is a copy of the header map taken at a moment that options may choose,
  so `FramingInv` says the same of the map, and that a length is set only with the
  last write, of an answer without the chunks of a trailer. `WholeFrames` and
  `NothingHeldBack` need `BodyInv`, which gives the length of the body and the
  number of flushed elements as a function of `pc` and of `received`. They yield
  `ForwardingTypeCorrect`, `FramingAlwaysAgrees`, `FramesAlwaysWhole` and
  `NothingEverHeldBack`.
* Answers: what an answer says of itself. A status line freezes the header
  map wherever an option writes it, so `AnswerInv` says, at each step, who may
  already have written it (`HeadInv`: before the last write only an option, in a
  stream the first chunk or an option) and what the map then held (`TrailerInv`:
  the type and the announcement of the failed answer, or neither). With the
  properties at the return, `DoneInv`, it is inductive on top of `IInv`, and yields
  `StatusAlwaysTells`, `TypeAlwaysTells` and `TrailersAlwaysAsAnnounced`. The first
  rests on `StatusIsFailure`: no code is reported under a success status.
* `ForwardingKeepsStreamContract`: every step of ResponseForwarding is a step of
  StreamContract or a stutter. `BodyInv` tells the numbers of the messages in the
  body (`Shown`), one step of the code at a time; `EndInv` adds that a call that
  has not ended is still open for the contract and that a cut one has lost its
  client.
* CallPipeline: `PipelineForwards` shows that the pipeline implements
  ResponseForwarding's specification, so that all of the above holds of every
  route. `PipelineInv` says what the message, the body reader and the mask are
  after each step (body; body under path; and so on); `PipelineTypeCorrect` and
  `InvokedAlwaysAsBound` follow.
* `HeadersAlwaysBecomeMetadata`: about ContextSpec, for any headers with any number of values, any
  matcher and any width of a duration. The invariant `HeadersInv` is about the headers
  seen so far, whichever these are: of each key and value, the metadata has as many
  pairs as there are values of these headers it comes from, and credentials among them
  (`Accounted`). One more header adds its own (`OneMoreHeader`), because its values are none of
  those counted before (`SourcesGrow`) and the pairs of a header are those of its values,
  joined (`CountFlattened`, `HeaderCounted`). At the end all headers are seen. Two headers that are
  matched to one key, a key twice in a header, and an Authorization header that the matcher
  lets pass as well are the cases that make it a matter of counting. Of the deadline, `WrapFits`
  says that a duration that fits is kept, `DefaultApproximates` that the default loses less than
  a second, for a negative one too.
* `PackagesAlwaysToldApart`: the aliases of Go packages, for any files and any names that a
  plugin reserves before. It assumes `SuffixesDiffer`: `fmt.Sprintf("%s_%d")` gives different
  texts for different numbers, and never the empty one (tlapm knows nothing of
  texts put together). The invariant `FilesTold` says of each file loaded how its alias came about
  (`Told`): it has none and the name of its package is reserved for its path, or the name
  is another path's, its alias is reserved for its path, and all suffixes with smaller numbers
  are other paths'. That is what makes two files of one path find the same alias, however many
  names were taken between them, since reservations are only added (`ToldStays`). A free
  suffix exists among one more than there are aliases (`SuffixFree`, by the pigeonhole
  principle), so that the loop of `loadFile`, which has no bound, ends.
* `RulesAlwaysAccounted`: no rule of a method is lost, doubled, shifted or misnumbered, whichever
  external rules are configured in whichever order, whatever is skipped and whichever rules have
  additional ones. Three loops lie within each other: `applyOpts` goes over the additional
  rules of a rule (`RuleApplied`), `newMethod` over the rules (`RulesApplied`), `loadServices` over the
  methods (`LoadKeeps`). Each is a recursive function, whose value at each place
  `FoldExists` of RecursionLemmas gives, and each has an invariant over its places: the
  bindings so far are `Answer` to what the rules so far ask for, unless there was an
  error, and `PrefixGrows`, `JoinedOnce` and `Appended` say how that sequence, which the property
  gets by joining all rules, grows by one. A binding's number is the length of the bindings before it
  (`BoundOf`), which is why a skipped main rule must add nothing, and an additional one
  a place. Over these the invariant `RulesKept` says of each file loaded that its
  methods have what their rules ask for (`FileKept`), of the external rules where they
  come from, and that only methods of files have bindings; methods of another file do not
  touch these because names are unique (`UpdatedKeeps`).
* `ReferencesAlwaysResolve`: whichever files there are, however deep their messages are
  nested and in whatever order the files are loaded, a load fails for a missing message only
  if some method or field names one that no file declares, and a field finds its
  enum if some scope around it has one. The property says which names are declared from the
  innermost message outwards, `registerMsg` builds them from the outermost inwards; both are
  recursions over the nesting, and the two are related level by level
  (`LevelsUnfold`, `NamesUnfold`, `DeclaredIsThere`, `ThereIsDeclared`, together
  `DeclaresWhatItRegisters`). A lookup finds a name if and only if some scope has it
  (`LookupFinds`). The invariant `TablesKept` says that the tables hold what the files loaded so
  far register and nothing else, and that an error for a missing message has its cause. That
  cause is traced through the loops of `resolveFieldPath` (`ResolveBlames`), `newBinding`
  (`BindingBlames`, which needs that the names of a compiled template are words:
  `FieldsAreWords`), `newMethod` (`MethodBlames`) and `loadServices` (`LoadBlames`).

Model-checked only:

* liveness (`EveryRequestEnds`, `RegistrationEnds`), which is out of the prover's reach;
* `PrintedAsWritten`, `TrieReadsPattern`, `WholeIsPiecewise` of `templates`: they compare
  texts put together by concatenation of strings, of which the provers know nothing
  (not even that two literals joined are a string);
* the other properties of `request_binding`: Codec, FieldMask, DoubleArray and RequestBinding
  follow Go types and messages of unbounded depth with RECURSIVE operators,
  which the prover cannot have in a module it works on.

A proof found a fault of an earlier model: `IsMalformed` of PatternVM asked for the
unescaped form of a literal too, although `pattern.go:191-194` compares a literal as it is. No
instance of TLC had a component whose text was the marker of a malformed one. Another found a
property that was too strong: `HeadersBecomeMetadata` asked for the values of a
forwarding header under the key a matcher of the user gives it, although
`metadata/context.go:70-73` skips such a header before the matcher is asked. The instance now has such a matcher.

## 6. Where the code and its comments disagree

* `root_path`: `splitPathEncoded` (`mux.go:51-77`) drops empty components where the
  `regexp.Split` it replaces keeps them. In `UnescapingModeAllCharacters` the path
  `/` leaves none, and `mux.go:536` reads the last one.
* `get_fallback`: `mux.go:451-452` promises the POST to GET fallback. `MatchOther`
  returns the first of the other methods in map order; if that is DELETE the
  answer is 405.
* `sibling_params`: `utilities/trie.go:162` says that `HasCommonPrefix` tells whether
  a sequence of the array is a prefix. `children` (`trie.go:80-93`) compares with
  `lastVal` and never sets it, so rows with a common value become children of their
  own and their cell is laid out twice. With the path parameters `name`, `user.name` and
  `user.full_name` the filter forgets `user.name`, and a query overwrites the path.
* `malformed_headers`: `metadata/context.go:63` makes an `InvalidArgument` of a
  `Grpc-Timeout` that does not decode. `AnnotateContext` returns it with a nil
  context, `route_desc.go:146` hands both to the error handler, and the default one
  reads a value of that context: a panic in place of the 400.
* `query_without_filter`: `build_request.go:48` applies a query also where there is
  no filter; the parser then calls a method that reads through the nil filter.

Seen while reading, without a run of their own:

*Responses.*
* `mux.go:247` says that a stream error before any response data goes to the
  `ErrorHandler`; `ForwardResponseStream` gives every such error but that of its first
  options to the stream's own handler, which writes a status and an error chunk;
* an error answer that follows a failed `ForwardResponseMessage` adds the server's
  metadata headers a second time, so the client sees each value twice;
* `newRouteHandler` drops the server's metadata when the invoker fails, so error
  answers of such routes carry no server headers or trailers;
* streams forward headers but never trailers;
* an option that writes the status line freezes the header: in `PrepareChunk` it
  loses the Content-Type of the first message;
* JSONPb writes the names of enums that it does not read back, and `null` for an
  absent optional enum; decoding `null` into a slice keeps what it held;
* `ProtoMarshaller` can write neither stream chunks nor the part of a response that
  `response_body` selects; `Accept` is compared as it is written, without parsing.

*Templates.*
* `/a//` parses to `/a/*` and `///x` to `/*/x`; `/**/**` compiles but `NewPattern`
  refuses it;
* a colon in a literal that is not the last, or in a verb, makes a leaf of the trie
  that no path reaches; the linear list still serves the route.

*Binding.*
* a query key that names a well-known type around a path parameter replaces it; one
  with an unknown last name makes the messages on its way;
* `userId` and `user_id` in one query count in map order; the body `*` is not shielded
  from the query;
* a null `Any` in a PATCH body panics (`binding.go:415`) unless the walk meets an unknown
  member first, which map order decides; a nested `Any` loses its
  prefix, an empty `Struct` gives no path, and a PATCH with a protobuf body always fails
  at the mask, which reads JSON;
* the runtime reads integers in base 10, generated conversions in the base of the
  prefix (`010` is 10 or 8); durations as protojson does or as Go does (`1m`); the
  separator of repeated path parameters is known to the generated code only; enum
  numbers are cut from 64 to 32 bits;
* a timeout of 0 means none, one that overflows wraps; a `DefaultContextTimeout` loses
  what is less than a second, so that one below a second is none; annotators are skipped when no header yields a pair; values of
  one key that come from two headers are in map order.

*Mux.*
* a nil matcher is replaced by the default, a nil error handler is not;
* the health endpoint labels its answer `application/json` whatever the marshaler, calls
  the error handler with a nil error for a status it does not know, and is not wrapped
  by middlewares given after it; `HandleRoute` ignores middlewares;
* `SetQueryParameterParser` sets a variable of the package, for every mux of the process.

*Descriptor registry.*
* in standalone mode the alias `ext` + title is not reserved (`registry.go:223`), and two
  names that differ in case collide;
* an additional binding without a pattern becomes a nil `Binding`; an external rule for a
  method in a file that is not generated is neither bound nor reported;
* fields of a proto2 oneof get conversions to pointers, proto2 `bytes` none, proto2
  enums name `runtime.EnumP`, which does not exist (`types.go:572`), repeated well-known
  types a scalar conversion;
* `ForcePrefixedName` drops the outer messages of a name (`types.go:426-428`,
  `459-461`); `SetUseFQNForOpenAPIName` does not look at its argument.

## 7. Plan

In order of importance; all of it is modelled, what is left is said where it belongs.

1. PathTemplate, RouteTable, RouteTable_proofs.
2. ParamsPool, ServeMux, HttpDispatch, ServeMux_proofs.
3. HttpResponse, ResponseForwarding, StreamContract; proofs in CallPipeline_proofs.
4. CallPipeline and its proofs; HeaderAnnotation, ContextAnnotation and its proofs, Codec and
   MuxOptions beside it.
5. HttpRule, Unescape, PatternVM, HandlePath and their proofs.
6. DoubleArray against the set of prefixes it stands for, in RequestBinding.
7. DescriptorTypes and DescriptorRegistry, with the expressions of generated code, and the
   proofs about aliases and rules.
8. FieldPopulation, FieldMask, Scalar, RequestBinding. Left: streams of requests, whose
   messages are decoded one by one.

## 8. Not modelled

* Plugin I/O, naming (`camel.go`), reading YAML, generated protobuf code, logging:
  data without control.
* `MustPattern` (ends the process), the registry's getters and `FieldName`, conversion of
  map keys (`convFromType`), indentation and the chunk encoders of marshalers.
* The health endpoint, the wrapping of handlers in middlewares and
  `SetQueryParameterParser`: set once before use.
* What nothing in the runtime calls: the helpers of `binding/query.go`,
  `binding/fieldmask.go`, `metadata/header.go` and `response/`, `EncodeTimeout`,
  `HTTPStreamError`, `PathBuffer`, `compiledTemplate.match` (`routing/template.go:101-183`),
  the maps `handlers` and `staticHandlers` of the mux (written, never read). They are
  written without a lock, so that two goroutines that register at once may make Go abort
  the program; the models have one registration at a time, beside any requests.
* 1xx, 204 and 304 answers, and what net/http does to a response after the handler.
