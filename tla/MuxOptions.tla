------------------------------ MODULE MuxOptions ------------------------------
(***************************************************************************)
(* NewServeMux (mux.go): the options of a mux in the order in which they are *)
(* given.  An option is [op, name, value]: it replaces the value of a field,  *)
(* appends a sequence to one, or registers a marshaler for the MIME type     *)
(* that is its name.  Functions a user passes are names, but for header      *)
(* matchers, which are functions of headers, and annotators, which are the   *)
(* pairs they return.                                                      *)
(***************************************************************************)
EXTENDS Codec, HeaderAnnotation

Unset == <<>>   \* a nil function: it matches no header and does nothing

Matchers == {"incomingHeaderMatcher", "outgoingHeaderMatcher", "outgoingTrailerMatcher"}

EmptyMux ==
  [ok |-> TRUE, registry |-> NewRegistry, middlewares |-> <<>>, forwardResponseOptions |-> <<>>,
   metadataAnnotators |-> <<>>, forwardResponseRewriter |-> "identity", unescapingMode |-> "legacy",
   errorHandler |-> "DefaultHTTPErrorHandler", streamErrorHandler |-> "DefaultStreamErrorHandler",
   routingErrorHandler |-> "DefaultRoutingErrorHandler", disablePathLengthFallback |-> FALSE,
   writeContentLength |-> FALSE, requestValidator |-> Unset, validationErrorFormatter |-> Unset,
   validationSkipper |-> Unset]
  @@ [m \in Matchers |-> Unset]

\* Options of one value: the last one counts.
Replace(mux, o) == [mux EXCEPT ![o.name] = o.value]

\* WithForwardResponseOption, WithMiddlewares and WithMetadata.
Add(mux, o) == [mux EXCEPT ![o.name] = @ \o o.value]

\* WithMarshalerOption panics by the error of Add.
WithMarshalerOption(mux, o) ==
  IF o.name = "" THEN [mux EXCEPT !.ok = FALSE] ELSE [mux EXCEPT !.registry = AddMarshaler(@, o.name, o.value)]

Applied(mux, o) ==
  CASE ~mux.ok           -> mux
    [] mux.ok /\ o.op = "replace"   -> Replace(mux, o)
    [] mux.ok /\ o.op = "add"       -> Add(mux, o)
    [] mux.ok /\ o.op = "marshaler" -> WithMarshalerOption(mux, o)

\* A matcher that is nil after all options, also one set to nil, is the
\* default.  The outgoing ones give every key a prefix, by their name here.
WithDefaults(mux) ==
  [mux EXCEPT !.incomingHeaderMatcher  = IF @ = Unset THEN DefaultHeaderMatcher ELSE @,
              !.outgoingHeaderMatcher  = IF @ = Unset THEN "Grpc-Metadata-" ELSE @,
              !.outgoingTrailerMatcher = IF @ = Unset THEN "Grpc-Trailer-" ELSE @]

MuxOf(options) == WithDefaults(FoldLeft(Applied, EmptyMux, options))
=============================================================================
