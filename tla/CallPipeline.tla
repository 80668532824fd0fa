---------------------------- MODULE CallPipeline ----------------------------
(***************************************************************************)
(* The handler that newRouteHandler (src/route_desc.go) makes of a route:   *)
(* annotate the context, build the request message out of body, path,       *)
(* query and field mask, validate it, call the server, and hand the answer  *)
(* to ResponseForwarding.  A message is a function from its fields to where  *)
(* their value comes from: what matters is which source wins, not the value. *)
(***************************************************************************)
EXTENDS ResponseForwarding

CONSTANTS
  Field,       \* fields of the request message
  SubField,    \* those inside the field the body is bound to
  MaskField,   \* its only FieldMask field, or NoField
  NoField,
  Call,        \* the routes and requests that are served, see CallType
  NilFilter,   \* RouteDesc.QueryFilter is nil
  NoBytes,     \* nothing was read, or nothing is left to read
  NoMessage    \* no message was validated, or sent to the server

CallType ==
  [operation  : BOOLEAN,                     \* RouteDesc.Operation is set
   headers    : BOOLEAN,                     \* Grpc-Timeout and -Bin headers decode
   patch      : BOOLEAN,
   binding    : {"none", "all", "sub"},      \* NoBody(), Body(""), Body("<field>")
   body       : (SUBSET Field) \cup {NoBytes},
   path       : SUBSET Field,
   query      : SUBSET Field,
   filter     : (SUBSET Field) \cup {NilFilter},
   stream     : BOOLEAN]                     \* a handler of its own, for a stream

ASSUME CallAssumption ==
  /\ SubField \subseteq Field
  /\ MaskField \in (Field \ SubField) \cup {NoField}
  /\ NoField \notin Field
  /\ Call \subseteq CallType
  /\ \A c \in Call : c.binding = "sub" /\ c.body # NoBytes => c.body \subseteq SubField

VARIABLES
  stage,      \* the step of the handler
  call,       \* the call being served
  reader,     \* what r.Body still yields
  bodyBytes,  \* the variable of BuildRequest
  msg,        \* the request message
  mask,       \* the paths of an inferred field mask
  validated,  \* the message the validator saw
  invoked     \* the message the server got

pipelineVars == <<stage, call, reader, bodyBytes, msg, mask, validated, invoked>>
allVars == <<vars, pipelineVars>>

Source == {"zero", "body", "path", "query", "inferred"}
Zero == [f \in Field |-> "zero"]
InvalidArgument == 3

PipelineTypeOK ==
  /\ TypeOK
  /\ stage \in {"idle", "annotate", "read", "decode", "path", "query", "mask",
                "validate", "invoke", "handed", "panicked"}
  /\ call \in Call
  /\ {reader, bodyBytes} \subseteq (SUBSET Field) \cup {NoBytes}
  /\ msg \in [Field -> Source]
  /\ {validated, invoked} \subseteq [Field -> Source] \cup {NoMessage}
  /\ mask \subseteq Field

PipelineInit ==
  /\ Init
  /\ stage = "idle"
  /\ call \in Call
  /\ reader = call.body
  /\ bodyBytes = NoBytes
  /\ msg = Zero /\ validated = NoMessage /\ invoked = NoMessage
  /\ mask = {}

-----------------------------------------------------------------------------
Step(from, to) == stage = from /\ stage' = to /\ UNCHANGED <<vars, call>>

\* An error of a step goes to the error handler, and the handler returns.
Refuse(from, c, e) ==
  /\ stage = from /\ stage' = "handed"
  /\ ReportError(c, e)
  /\ UNCHANGED <<call, reader, bodyBytes, msg, mask, validated, invoked>>

\* The code returned by a step that may fail with an error of any kind.
MayRefuse(from) == \E e \in Error : Refuse(from, PlainContext, e)

\* A call enters newRouteHandler; without an Operation nothing is annotated.
Enter ==
  /\ ~call.stream
  /\ Step("idle", IF call.operation THEN "annotate" ELSE "read")
  /\ UNCHANGED <<reader, bodyBytes, msg, mask, validated, invoked>>

\* The handler of a streaming route forwards the stream by itself.
EnterStream ==
  /\ call.stream
  /\ stage = "idle" /\ stage' = "handed"
  /\ \E c \in Context \ {NilContext} : ForwardStream(c)
  /\ UNCHANGED <<call, reader, bodyBytes, msg, mask, validated, invoked>>

\* AnnotateContext returns a nil context with its error.
Annotate ==
  \/ /\ call.headers
     /\ Step("annotate", "read")
     /\ UNCHANGED <<reader, bodyBytes, msg, mask, validated, invoked>>
  \/ /\ ~call.headers
     /\ \E e \in Error : e.code = InvalidArgument /\ Refuse("annotate", NilContext, e)

ShouldInferFieldMask == call.patch /\ call.binding = "sub"

\* For a field mask the body is read ahead, and given back to be decoded.
Drained   == IF ShouldInferFieldMask THEN NoBytes ELSE reader
GivenBack == reader

ReadBody ==
  \/ /\ Step("read", "decode")
     /\ bodyBytes' = IF ShouldInferFieldMask THEN reader ELSE NoBytes
     /\ reader' = GivenBack
     /\ UNCHANGED <<msg, mask, validated, invoked>>
  \/ ShouldInferFieldMask /\ MayRefuse("read")

\* An empty body is no error.
DecodeBody ==
  \/ /\ Step("decode", "path")
     /\ IF call.binding = "none" \/ reader = NoBytes
        THEN UNCHANGED <<msg, reader>>
        ELSE /\ msg' = [f \in Field |-> IF f \in reader THEN "body" ELSE msg[f]]
             /\ reader' = NoBytes
     /\ UNCHANGED <<bodyBytes, mask, validated, invoked>>
  \/ call.binding # "none" /\ MayRefuse("decode")

\* PopulateQueryParameters: one value after the other, whatever was there.
Populate(from, to, fields, source) ==
  \/ /\ Step(from, to)
     /\ msg' = [f \in Field |-> IF f \in fields THEN source ELSE msg[f]]
     /\ UNCHANGED <<reader, bodyBytes, mask, validated, invoked>>
  \/ fields # {} /\ MayRefuse(from)

ApplyPathParams == Populate("path", "query", call.path, "path")

\* A query is populated without a filter too; the first key then asks a nil
\* DoubleArray for a common prefix.
ApplyQueryParams ==
  \/ /\ call.query = {} \/ call.filter # NilFilter
     /\ Populate("query", "mask", IF call.query = {} THEN {} ELSE call.query \ call.filter, "query")
  \/ /\ call.query # {} /\ call.filter = NilFilter
     /\ Step("query", "panicked")
     /\ UNCHANGED <<reader, bodyBytes, msg, mask, validated, invoked>>

\* A mask that is there already, or a message without one, is left alone.
ApplyFieldMask ==
  LET infers == bodyBytes # NoBytes /\ MaskField # NoField /\ msg[MaskField] = "zero"
  IN \/ /\ Step("mask", "validate")
        /\ IF infers
           THEN msg' = [msg EXCEPT ![MaskField] = "inferred"] /\ mask' = bodyBytes
           ELSE UNCHANGED <<msg, mask>>
        /\ UNCHANGED <<reader, bodyBytes, validated, invoked>>
     \/ infers /\ MayRefuse("mask")

ValidateRequest ==
  \/ /\ Step("validate", "invoke")
     /\ validated' = msg
     /\ UNCHANGED <<reader, bodyBytes, msg, mask, invoked>>
  \/ \E e \in Error : e.code = InvalidArgument /\ Refuse("validate", PlainContext, e)

\* The server answers with metadata (joined with what an Incoming route
\* collected), or with an error, whose metadata is not put in the context.
Invoke ==
  /\ stage = "invoke" /\ stage' = "handed"
  /\ invoked' = msg
  /\ \/ \E md \in ServerMetadata : ForwardMessage(md)
     \/ \E e \in Error : ReportError(PlainContext, e)
  /\ UNCHANGED <<call, reader, bodyBytes, msg, mask, validated>>

Pipeline ==
  \/ Enter \/ EnterStream \/ Annotate \/ ReadBody \/ DecodeBody \/ ApplyPathParams
  \/ ApplyQueryParams \/ ApplyFieldMask \/ ValidateRequest \/ Invoke

PipelineNext == Pipeline \/ (Forward /\ UNCHANGED pipelineVars)

PipelineSpec == PipelineInit /\ [][PipelineNext]_allVars

-----------------------------------------------------------------------------
(* What each field of the message should come from: an unfiltered query     *)
(* over the path, the path over the body, and a mask inferred from the body  *)
(* of a PATCH only when nobody gave one.                                   *)
BodyFields == IF call.binding = "none" \/ call.body = NoBytes THEN {} ELSE call.body
QueryFields == IF call.filter = NilFilter THEN call.query ELSE call.query \ call.filter
Infers ==
  /\ ShouldInferFieldMask /\ call.body # NoBytes
  /\ MaskField # NoField /\ MaskField \notin call.path \cup QueryFields

Bound ==
  [query    |-> QueryFields,
   path     |-> call.path \ QueryFields,
   body     |-> BodyFields \ (call.path \cup QueryFields),
   inferred |-> IF Infers THEN {MaskField} ELSE {}]

\* The server gets the message that was validated, with every field from the
\* source that wins, although the body is read once for the message and once
\* for the mask, and three sources overwrite each other (BuildRequest).
InvokedAsBound ==
  invoked # NoMessage =>
    /\ validated = invoked
    /\ \A s \in DOMAIN Bound : {f \in Field : invoked[f] = s} = Bound[s]
    /\ mask = IF Infers THEN call.body ELSE {}

\* A route without a QueryFilter binds the query all the same: BuildRequest
\* applies it when there is a filter or a query (src/build_request.go:48).
FilterlessQueryIsBound == stage # "panicked"
=============================================================================
