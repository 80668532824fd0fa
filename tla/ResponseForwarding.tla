------------------------ MODULE ResponseForwarding ------------------------
(***************************************************************************)
(* src/response.go: how one answer of a gRPC server becomes an HTTP         *)
(* response.  ForwardResponseMessage forwards a unary answer,               *)
(* ForwardResponseStream a stream message by message, and                   *)
(* DefaultHTTPErrorHandler and the stream error handler report failures.    *)
(* The server, the client's connection, the response options, the rewriter  *)
(* and the marshaler are the environment: each of their calls may fail.     *)
(***************************************************************************)
EXTENDS HttpResponse

CONSTANTS
  OutHeader,           \* header keys that outgoingHeaderMatcher lets through
  OutTrailer,          \* trailer keys that outgoingTrailerMatcher lets through
  ServerMetadata,      \* values of ServerMetadata: [header, trailer: sets of keys]
  Error,               \* errors: [code: a gRPC code, custom: an HTTP status or 0]
  OptionStatus,        \* the status an option may write (one that allows a
                       \* body, so neither 204 nor 304), 0: it writes none
  WriteContentLength,  \* WithWriteContentLength
  NilContext,          \* the context is nil
  PlainContext,        \* a context without ServerMetadata
  NoError,
  MaxMessages          \* bound: messages of one stream

ASSUME MetadataAssumption ==
  /\ OutHeader \subseteq HeaderKey
  /\ OutTrailer \subseteq TrailerKey
  /\ ServerMetadata \subseteq [header : SUBSET HeaderKey, trailer : SUBSET TrailerKey]
  /\ NilContext # PlainContext
  /\ NilContext \notin ServerMetadata
  /\ PlainContext \notin ServerMetadata

ASSUME TypeAssumption == NoType \notin {"response", "error"}

ASSUME ErrorAssumption ==
  /\ Error \subseteq [code : Nat, custom : Nat]
  /\ NoError \notin Error
  /\ OptionStatus \subseteq Nat
  /\ MaxMessages \in Nat

VARIABLES
  req,          \* what the code reads of the request: trailers (TE), flusher
  pc,           \* where the handler is
  ctx,          \* NilContext, PlainContext, or the ServerMetadata in the context
  err,          \* the error being reported
  w,            \* the http.ResponseWriter
  gone,         \* the client has closed the connection
  received,     \* stream: messages taken from recv
  chunk,        \* stream: the element about to be written
  wroteHeader,  \* stream: the variable of the same name
  ended         \* how the handler returned

vars == <<req, pc, ctx, err, w, gone, received, chunk, wroteHeader, ended>>

Context == {NilContext, PlainContext} \cup ServerMetadata
HasMetadata(c) == c \in ServerMetadata

\* Elements of a body.  n numbers the message of the stream it stands for.
Element(kind, n) == [kind |-> kind, n |-> n]
ElementKind ==
  {"response", "error", "fallback", "text",    \* of a whole answer
   "message", "empty", "streamError", "delim"} \* of a stream
Body(kind) == Element(kind, 0)
Delim == Body("delim")

(* The table httpStatusFromCode; codes beyond it are internal errors.      *)
StatusTable == <<500, 400, 500, 400, 504, 404, 409, 403, 507, 400, 409, 400, 501, 500, 503, 500, 401>>
OKIsSuccess(code) ==
  IF code = 0 THEN OK ELSE IF code < Len(StatusTable) THEN StatusTable[code + 1] ELSE InternalServerError
HTTPStatusFromCode(code) ==
  IF code < Len(StatusTable) THEN StatusTable[code + 1] ELSE InternalServerError

-----------------------------------------------------------------------------
(* The helpers on headers and trailers.                                    *)

ForwardServerMetadata(v, md) ==
  [v EXCEPT !.header.meta =
     [k \in HeaderKey |-> @[k] + (IF k \in md.header \cap OutHeader THEN 1 ELSE 0)]]

AnnounceTrailers(v, md) ==
  [v EXCEPT !.header.announced = @ \cup (md.trailer \cap OutTrailer),
            !.header.chunked = TRUE]

ForwardTrailers(v, md) ==
  [v EXCEPT !.header.trailers =
     [k \in TrailerKey |-> @[k] + (IF k \in md.trailer \cap OutTrailer THEN 1 ELSE 0)]]

\* An option may write the status line itself, as options that change the
\* status do.
RunOptions(v, status) == IF status = 0 THEN v ELSE WriteHeader(v, status)

\* http.Error: a text with status 500, after whatever was written before.
TextError(v, ok) ==
  Write(WriteHeader(SetType([v EXCEPT !.header.length = FALSE], "text"), InternalServerError), Body("text"), ok)

\* A write fails only when the client is gone; it may also still succeed, in
\* a buffer.
WriteOutcome == IF gone THEN BOOLEAN ELSE {TRUE}

-----------------------------------------------------------------------------
TypeOK ==
  /\ req \in [trailers : BOOLEAN, flusher : BOOLEAN]
  /\ pc \in {"idle", "message", "rewrite", "error", "stream", "recv", "chunk",
             "write", "delimit", "flush", "streamError", "done", "panicked"}
  /\ ctx \in Context
  /\ err \in Error \cup {NoError}
  /\ w.status \in Nat
  /\ gone \in BOOLEAN
  /\ received \in 0..MaxMessages
  /\ chunk.n \in 0..MaxMessages
  /\ wroteHeader \in BOOLEAN
  /\ ended \in {"no", "answered", "complete", "reported", "aborted", "cut"}

Init ==
  /\ req \in [trailers : BOOLEAN, flusher : BOOLEAN]
  /\ pc = "idle"
  /\ ctx = PlainContext
  /\ err = NoError
  /\ w = FreshWriter
  /\ gone = FALSE
  /\ received = 0
  /\ chunk = Delim
  /\ wroteHeader = FALSE
  /\ ended = "no"

streamVars == <<received, chunk, wroteHeader>>

Return(how) == pc' = "done" /\ ended' = how
Goto(step)  == pc' = step /\ UNCHANGED ended
Fail(step)  == Goto(step) /\ err' \in Error

(* The caller, a generated handler: it hands over the answer of the server, *)
(* its stream, or an error.                                                *)
Begin(step, c, e) ==
  /\ pc = "idle"
  /\ Goto(step) /\ ctx' = c /\ err' = e
  /\ UNCHANGED <<req, w, gone, streamVars>>

ForwardMessage(c) == Begin("message", c, NoError)
ForwardStream(c)  == Begin("stream", c, NoError)
ReportError(c, e) == Begin("error", c, e)

Disconnect ==
  /\ ~gone /\ gone' = TRUE
  /\ UNCHANGED <<req, pc, ctx, err, w, received, chunk, wroteHeader, ended>>

-----------------------------------------------------------------------------
\* The metadata of the server, and for a client that accepts trailers their
\* announcement: for an answer and again for an error.
MetadataOnly(v) == IF HasMetadata(ctx) THEN ForwardServerMetadata(v, ctx) ELSE v
WithMetadata(v) ==
  LET u == IF HasMetadata(ctx) THEN ForwardServerMetadata(v, ctx) ELSE v
  IN IF HasMetadata(ctx) /\ req.trailers THEN AnnounceTrailers(u, ctx) ELSE u

(* ForwardResponseMessage: everything up to the response options ...        *)
ForwardHead ==
  /\ pc = "message"
  /\ \E status \in OptionStatus :
       w' = RunOptions(SetType(WithMetadata(w), "response"), status)
  /\ \/ Goto("rewrite") /\ UNCHANGED err
     \/ Fail("error")
  /\ UNCHANGED <<req, ctx, gone, streamVars>>

AlwaysLength == WriteContentLength
HasLength    == ~req.trailers /\ WriteContentLength

(* ... and the rest: rewrite, marshal, write, trailers.                     *)
ForwardBody ==
  /\ pc = "rewrite"
  /\ \/ /\ Fail("error")                  \* the rewriter or the marshaler fails
        /\ UNCHANGED w
     \/ \E ok \in WriteOutcome :
          LET v == [w EXCEPT !.header.length = HasLength]
              t == Write(v, Body("response"), ok)
          IN /\ w' = IF HasMetadata(ctx) /\ req.trailers THEN ForwardTrailers(t, ctx) ELSE t
             /\ Return(IF ok THEN "answered" ELSE "cut")
             /\ UNCHANGED err
  /\ UNCHANGED <<req, ctx, gone, streamVars>>

-----------------------------------------------------------------------------
(* DefaultHTTPErrorHandler.                                                *)

ErrorStatus(e) == IF e.custom # 0 THEN e.custom ELSE HTTPStatusFromCode(e.code)

\* The headers that framed the response that failed are taken back.
Unframe(v) == [v EXCEPT !.header.announced = {}, !.header.chunked = FALSE]

Fallback(v) ==
  \E ok \in WriteOutcome :
    /\ w' = Write(WriteHeader(v, InternalServerError), Body("fallback"), ok)
    /\ Return(IF ok THEN "answered" ELSE "cut")

RewriterFails  == Fallback(Unframe(w))
MarshalerFails == Fallback(SetType(Unframe(w), "error"))

\* ServerMetadataFromContext reads a value of a context that is nil.
NilContextPanics ==
  /\ ctx = NilContext
  /\ w' = SetType(Unframe(w), "error")
  /\ pc' = "panicked" /\ UNCHANGED ended

AnswerWithError ==
  /\ ctx # NilContext
  /\ \E ok \in WriteOutcome :
       LET t == WithMetadata(SetType(Unframe(w), "error"))
           b == Write(WriteHeader(t, ErrorStatus(err)), Body("error"), ok)
       IN /\ w' = IF HasMetadata(ctx) /\ req.trailers THEN ForwardTrailers(b, ctx) ELSE b
          /\ Return(IF ok THEN "answered" ELSE "cut")

HTTPError ==
  /\ pc = "error"
  /\ RewriterFails \/ MarshalerFails \/ NilContextPanics \/ AnswerWithError
  /\ UNCHANGED <<req, ctx, err, gone, streamVars>>

-----------------------------------------------------------------------------
(* ForwardResponseStream.                                                  *)

StreamWithoutMetadata ==
  /\ ~HasMetadata(ctx)
  /\ \E ok \in WriteOutcome : w' = TextError(w, ok)
  /\ Return("aborted") /\ UNCHANGED err

StreamHeaders ==
  /\ HasMetadata(ctx)
  /\ \E status \in OptionStatus :
       LET v == ForwardServerMetadata(w, ctx)
       IN w' = RunOptions([v EXCEPT !.header.chunked = TRUE], status)
  /\ \/ Goto("recv") /\ UNCHANGED err
     \/ Fail("error")

StreamHead ==
  /\ pc = "stream"
  /\ StreamWithoutMetadata \/ StreamHeaders
  /\ UNCHANGED <<req, ctx, gone, streamVars>>

\* The next message, the end of the stream, or its failure.
Recv ==
  /\ pc = "recv"
  /\ \/ received < MaxMessages /\ received' = received + 1 /\ Goto("chunk") /\ UNCHANGED err
     \/ Return("complete") /\ UNCHANGED <<received, err>>
     \/ Fail("streamError") /\ UNCHANGED received
  /\ UNCHANGED <<req, ctx, w, gone, chunk, wroteHeader>>

\* Options, rewriter, Content-Type of the first message, marshaler.  A
\* rewriter (or a server) that yields nil makes an "empty response" chunk.
SkipChunk   == Goto("recv") /\ UNCHANGED err
FailedChunk == Fail("streamError")

Ahead(kind) == Element(kind, received + 1)
Chunk(kind) == Element(kind, received)

PrepareChunk ==
  /\ pc = "chunk"
  /\ \E status \in OptionStatus :
       LET v == RunOptions(w, status)
           t == IF wroteHeader THEN v ELSE SetType(v, "message")
       IN \/ w' = v /\ FailedChunk /\ UNCHANGED chunk
          \/ w' = t /\ FailedChunk /\ UNCHANGED chunk
          \/ /\ w' = t
             /\ \E kind \in {"message", "empty"} : chunk' = Chunk(kind)
             /\ Goto("write") /\ UNCHANGED err
  /\ UNCHANGED <<req, ctx, gone, received, wroteHeader>>

Unfenced   == "flush"
AfterChunk == "delimit"

WriteChunk ==
  /\ pc = "write"
  /\ \E ok \in WriteOutcome :
       /\ w' = Write(w, chunk, ok)
       /\ wroteHeader' = (wroteHeader \/ ok)
       /\ IF ok THEN Goto(AfterChunk) ELSE Return("cut")
  /\ UNCHANGED <<req, ctx, err, gone, received, chunk>>

Unflushed      == "recv"
AfterDelimiter == "flush"

WriteDelimiter ==
  /\ pc = "delimit"
  /\ \E ok \in WriteOutcome :
       /\ w' = Write(w, Delim, ok)
       /\ IF ok THEN Goto(AfterDelimiter) ELSE Return("cut")
  /\ UNCHANGED <<req, ctx, err, gone, streamVars>>

FlushChunk ==
  /\ pc = "flush"
  /\ \/ /\ req.flusher
        /\ \E ok \in WriteOutcome :
             IF ok THEN w' = Flush(w) /\ Goto("recv") ELSE UNCHANGED w /\ Return("cut")
     \/ /\ ~req.flusher                    \* http.ErrNotSupported
        /\ \E ok \in WriteOutcome : w' = TextError(w, ok)
        /\ Return("aborted")
  /\ UNCHANGED <<req, ctx, err, gone, streamVars>>

\* status.Convert knows nothing of an HTTPStatusError: its code is Unknown.
StreamCode(e) == IF e.custom # 0 THEN 2 ELSE e.code

EarlyStatus == HTTPStatusFromCode(StreamCode(err))
UntypedHead(v) == WriteHeader(v, EarlyStatus)
StreamErrorHead(v) == WriteHeader(SetType(v, "streamError"), EarlyStatus)

HandleStreamError ==
  /\ pc = "streamError"
  /\ LET v == IF wroteHeader THEN w ELSE StreamErrorHead(w)
     IN \/ w' = v /\ Return("aborted")     \* the marshaler fails
        \/ \E ok, delimited \in WriteOutcome :
             LET b == Write(v, Body("streamError"), ok)
             IN /\ w' = IF ok THEN Write(b, Delim, delimited) ELSE b
                /\ Return(IF ok /\ delimited THEN "reported" ELSE "cut")
  /\ UNCHANGED <<req, ctx, err, gone, streamVars>>

-----------------------------------------------------------------------------
Unary  == ForwardHead \/ ForwardBody \/ HTTPError
Stream == \/ StreamHead \/ Recv \/ PrepareChunk \/ WriteChunk \/ WriteDelimiter
          \/ FlushChunk \/ HandleStreamError

Handed ==
  \/ \E c \in Context \ {NilContext} : ForwardMessage(c) \/ ForwardStream(c)
  \/ \E c \in Context, e \in Error : ReportError(c, e)

Forward == Unary \/ Stream \/ Disconnect

Next == Handed \/ Forward

Spec == Init /\ [][Next]_vars

-----------------------------------------------------------------------------
(* Properties.                                                             *)

Answered == pc = "done" /\ Len(w.body) > 0
Kind(i) == w.body[i].kind

\* The status line is an option's own.
OptionWrote == w.status \in OptionStatus \ {0}

\* One answer: an answer, an error and a fallback text exclude each other, and
\* the status line says which it was.  An error is never sent under a success
\* status, nor an answer under an error's, unless an option wrote the status
\* (ForwardResponseMessage, DefaultHTTPErrorHandler, HTTPStatusFromCode).
IsFailure(status) == status \in 400..599

StatusTellsOutcome ==
  Answered =>
    /\ Kind(1) \in {"response", "error", "fallback"} => Len(w.body) = 1
    /\ \/ OptionWrote
       \/ Kind(1) \in {"response", "message", "empty"} /\ w.status = OK
       \/ Kind(1) \in {"fallback", "text"} /\ w.status = InternalServerError
       \/ Kind(1) = "error" /\ err.custom = 0 /\ IsFailure(w.status)
       \/ Kind(1) = "error" /\ w.status = err.custom
       \/ Kind(1) = "streamError" /\ IsFailure(w.status)

\* The Content-Type on the wire was computed from what was written first: the
\* error handler corrects what ForwardResponseMessage had set, a stream that
\* fails early what the first chunk had set.  An option that writes the status
\* line freezes what is there; the text for a failing rewriter has no type.
TypeTellsBody ==
  Answered /\ ~OptionWrote /\ Kind(1) # "fallback" =>
    w.wire.type = IF Kind(1) = "empty" THEN "message" ELSE Kind(1)

\* A response is framed one way: a Content-Length excludes chunks, and
\* announced trailers need them (handleForwardResponseTrailerHeader).
FramingAgrees ==
  /\ ~(w.wire.length /\ w.wire.chunked)
  /\ w.wire.announced # {} => w.wire.chunked

\* A client that accepts trailers gets each trailer of the server exactly
\* once, and no other is announced, although a failing answer takes back what
\* it announced and the error handler announces again.
Promised == IF HasMetadata(ctx) /\ req.trailers THEN ctx.trailer \cap OutTrailer ELSE {}

TrailersAsAnnounced ==
  Answered /\ Kind(1) \in {"response", "error"} =>
    /\ w.wire.announced = IF w.wire.type = NoType THEN {} ELSE Promised
    /\ Delivered(w) = [k \in TrailerKey |-> IF k \in w.wire.announced THEN 1 ELSE 0]

\* The body of a stream is whole frames: a message or an error, then a
\* delimiter.  The messages are in the order of the stream, none is missing and
\* none repeated; an error reported by the stream comes last.
WholeFrames ==
  \A i \in 1..Len(w.body) :
    /\ Kind(i) \in {"message", "empty"} => i = 2 * w.body[i].n - 1
    /\ Kind(i) = "delim" => i % 2 = 0
    /\ Kind(i) = "streamError" => i % 2 = 1 /\ i + 1 >= Len(w.body)
    /\ Kind(i) \in {"response", "error", "fallback", "text"} => i = Len(w.body)

\* No message waits in a buffer while the stream waits for the next one.
NothingHeldBack == pc = "recv" => w.flushed = Len(w.body) /\ Len(w.body) = 2 * received

\* Every error ends as a response: AnnotateContext makes a status of what it
\* refuses, for the error handler to answer with (src/metadata/context.go:63).
ErrorsAreAnswered == pc # "panicked"

(* What a stream owes its client, see StreamContract.                      *)
CompleteFrames ==
  (Len(w.body) \div 2) - (IF ended = "reported" THEN 1 ELSE 0)
Shown == [i \in 1..CompleteFrames |-> w.body[2 * i - 1].n]
StreamState == IF ended = "answered" THEN "no" ELSE ended

Contract == INSTANCE StreamContract
  WITH taken <- received, shown <- Shown, client <- ~gone, state <- StreamState,
       Bound <- MaxMessages

KeepsStreamContract == Contract!Spec
=============================================================================
