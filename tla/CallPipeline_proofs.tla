------------------------ MODULE CallPipeline_proofs ------------------------
(***************************************************************************)
(* Proofs about ResponseForwarding, for any keys, metadata, errors, options  *)
(* and length of the streams; and then about the pipeline of CallPipeline,   *)
(* for any messages, routes and requests: it rests on the first.            *)
(***************************************************************************)
EXTENDS CallPipeline, TLAPS

Types == {NoType, "response", "error", "message", "streamError", "text"}

HeaderType ==
  [type : Types, chunked : BOOLEAN, length : BOOLEAN, announced : SUBSET TrailerKey,
   meta : [HeaderKey -> Nat], trailers : [TrailerKey -> Nat]]

ElementType == [kind : ElementKind, n : 0..MaxMessages]

WriterType ==
  [header : HeaderType, status : Nat, wire : HeaderType,
   body : Seq(ElementType), flushed : Nat]

(***************************************************************************)
(* The operators on a response writer map writers to writers.              *)
(***************************************************************************)
LEMMA FreshWriterType == FreshWriter \in WriterType
  BY DEF FreshWriter, EmptyHeader, WriterType, HeaderType, Types

LEMMA SetTypeType ==
  ASSUME NEW v \in WriterType, NEW t \in Types
  PROVE  SetType(v, t) \in WriterType
  BY DEF SetType, WriterType, HeaderType

LEMMA WriteHeaderType ==
  ASSUME NEW v \in WriterType, NEW status \in Nat
  PROVE  /\ WriteHeader(v, status) \in WriterType
         /\ WriteHeader(v, status).body = v.body
         /\ WriteHeader(v, status).flushed = v.flushed
         /\ WriteHeader(v, status).header = v.header
         /\ WriteHeader(v, status).wire \in {v.wire, v.header}
  BY DEF WriteHeader, WriterType

LEMMA WriteType ==
  ASSUME NEW v \in WriterType, NEW e \in ElementType, NEW ok \in BOOLEAN
  PROVE  /\ Write(v, e, ok) \in WriterType
         /\ Write(v, e, ok).body = IF ok THEN Append(v.body, e) ELSE v.body
         /\ Write(v, e, ok).flushed = v.flushed
         /\ Write(v, e, ok).header = v.header
         /\ Write(v, e, ok).wire \in {v.wire, v.header}
  <1>1. OK \in Nat
    BY DEF OK
  <1>2. /\ WriteHeader(v, OK) \in WriterType
        /\ WriteHeader(v, OK).body = v.body
        /\ WriteHeader(v, OK).flushed = v.flushed
        /\ WriteHeader(v, OK).header = v.header
        /\ WriteHeader(v, OK).wire \in {v.wire, v.header}
    BY <1>1, WriteHeaderType
  <1>3. Append(v.body, e) \in Seq(ElementType)
    BY DEF WriterType
  <1> QED
    BY <1>2, <1>3 DEF Write, WriterType

\* What of a writer no change of its header touches.
SameBut(u, v) == u.body = v.body /\ u.flushed = v.flushed /\ u.wire = v.wire /\ u.status = v.status
SameFraming(u, v) ==
  u.header.chunked = v.header.chunked /\ u.header.length = v.header.length
  /\ u.header.announced = v.header.announced

LEMMA SetTypeKeeps ==
  ASSUME NEW v \in WriterType, NEW t \in Types
  PROVE  SameBut(SetType(v, t), v) /\ SameFraming(SetType(v, t), v)
  BY DEF SetType, WriterType, HeaderType, SameBut, SameFraming

LEMMA ForwardServerMetadataType ==
  ASSUME NEW v \in WriterType, NEW md \in ServerMetadata
  PROVE  /\ ForwardServerMetadata(v, md) \in WriterType
         /\ SameBut(ForwardServerMetadata(v, md), v)
         /\ SameFraming(ForwardServerMetadata(v, md), v)
  <1> DEFINE m == [k \in HeaderKey |-> v.header.meta[k] + (IF k \in md.header \cap OutHeader THEN 1 ELSE 0)]
  <1>1. v.header \in HeaderType
    BY DEF WriterType
  <1>2. m \in [HeaderKey -> Nat]
    <2>1. ASSUME NEW k \in HeaderKey PROVE v.header.meta[k] \in Nat
      BY <1>1 DEF HeaderType
    <2> QED BY <2>1
  <1>3. ForwardServerMetadata(v, md) = [v EXCEPT !.header = [v.header EXCEPT !.meta = m]]
    BY DEF ForwardServerMetadata
  <1> HIDE DEF m
  <1>4. [v.header EXCEPT !.meta = m] \in HeaderType
    BY <1>1, <1>2 DEF HeaderType
  <1> QED
    BY <1>1, <1>3, <1>4 DEF WriterType, HeaderType, SameBut, SameFraming

LEMMA ForwardTrailersType ==
  ASSUME NEW v \in WriterType, NEW md \in ServerMetadata
  PROVE  /\ ForwardTrailers(v, md) \in WriterType
         /\ SameBut(ForwardTrailers(v, md), v)
         /\ SameFraming(ForwardTrailers(v, md), v)
  <1> DEFINE m == [k \in TrailerKey |-> v.header.trailers[k] + (IF k \in md.trailer \cap OutTrailer THEN 1 ELSE 0)]
  <1>1. v.header \in HeaderType
    BY DEF WriterType
  <1>2. m \in [TrailerKey -> Nat]
    <2>1. ASSUME NEW k \in TrailerKey PROVE v.header.trailers[k] \in Nat
      BY <1>1 DEF HeaderType
    <2> QED BY <2>1
  <1>3. ForwardTrailers(v, md) = [v EXCEPT !.header = [v.header EXCEPT !.trailers = m]]
    BY DEF ForwardTrailers
  <1> HIDE DEF m
  <1>4. [v.header EXCEPT !.trailers = m] \in HeaderType
    BY <1>1, <1>2 DEF HeaderType
  <1> QED
    BY <1>1, <1>3, <1>4 DEF WriterType, HeaderType, SameBut, SameFraming

LEMMA AnnounceTrailersType ==
  ASSUME NEW v \in WriterType, NEW md \in ServerMetadata
  PROVE  /\ AnnounceTrailers(v, md) \in WriterType
         /\ SameBut(AnnounceTrailers(v, md), v)
         /\ AnnounceTrailers(v, md).header.chunked
         /\ AnnounceTrailers(v, md).header.length = v.header.length
  BY MetadataAssumption DEF AnnounceTrailers, WriterType, HeaderType, SameBut

LEMMA UnframeType ==
  ASSUME NEW v \in WriterType
  PROVE  /\ Unframe(v) \in WriterType
         /\ SameBut(Unframe(v), v)
         /\ ~Unframe(v).header.chunked /\ Unframe(v).header.announced = {}
         /\ Unframe(v).header.length = v.header.length
  BY DEF Unframe, WriterType, HeaderType, SameBut

LEMMA StatusType ==
  ASSUME NEW code \in Nat
  PROVE  HTTPStatusFromCode(code) \in Nat
  <1>1. StatusTable \in Seq(Nat)
    BY DEF StatusTable
  <1>2. CASE code < Len(StatusTable)
    <2>1. code + 1 \in 1..Len(StatusTable)
      BY <1>1, <1>2
    <2> QED BY <1>1, <1>2, <2>1 DEF HTTPStatusFromCode
  <1>3. CASE ~(code < Len(StatusTable))
    BY <1>3 DEF HTTPStatusFromCode, InternalServerError
  <1> QED BY <1>2, <1>3

\* A status line keeps the header and the body as they are, and freezes one of
\* the headers there was.
SameHeader(u, v) ==
  u.header = v.header /\ u.body = v.body /\ u.flushed = v.flushed /\ u.wire \in {v.wire, v.header}

LEMMA RunOptionsType ==
  ASSUME NEW v \in WriterType, NEW status \in Nat
  PROVE  RunOptions(v, status) \in WriterType /\ SameHeader(RunOptions(v, status), v)
  BY WriteHeaderType DEF RunOptions, SameHeader

LEMMA WithMetadataType ==
  ASSUME NEW v \in WriterType, ctx \in Context
  PROVE  /\ WithMetadata(v) \in WriterType
         /\ SameBut(WithMetadata(v), v)
         /\ WithMetadata(v).header.length = v.header.length
         /\ \/ SameFraming(WithMetadata(v), v)
            \/ WithMetadata(v).header.chunked /\ req.trailers
  <1> DEFINE u == IF HasMetadata(ctx) THEN ForwardServerMetadata(v, ctx) ELSE v
  <1>1. u \in WriterType /\ SameBut(u, v) /\ SameFraming(u, v)
    BY ForwardServerMetadataType DEF HasMetadata, SameBut, SameFraming
  <1>2. WithMetadata(v) = IF HasMetadata(ctx) /\ req.trailers THEN AnnounceTrailers(u, ctx) ELSE u
    BY DEF WithMetadata
  <1> HIDE DEF u
  <1>3. CASE HasMetadata(ctx) /\ req.trailers
    BY <1>1, <1>2, <1>3, AnnounceTrailersType DEF HasMetadata, SameBut, SameFraming
  <1>4. CASE ~(HasMetadata(ctx) /\ req.trailers)
    BY <1>1, <1>2, <1>4 DEF SameFraming
  <1> QED BY <1>3, <1>4

LEMMA TextErrorType ==
  ASSUME NEW v \in WriterType, NEW ok \in BOOLEAN
  PROVE  /\ TextError(v, ok) \in WriterType
         /\ TextError(v, ok).body = IF ok THEN Append(v.body, Body("text")) ELSE v.body
         /\ TextError(v, ok).header.chunked = v.header.chunked
         /\ TextError(v, ok).header.announced = v.header.announced
         /\ TextError(v, ok).header.length = FALSE
         /\ TextError(v, ok).wire \in {v.wire, TextError(v, ok).header}
  <1> DEFINE u == [v EXCEPT !.header.length = FALSE]
             t == SetType(u, "text")
             h == WriteHeader(t, InternalServerError)
  <1>1. /\ u \in WriterType /\ SameBut(u, v) /\ u.header.length = FALSE
        /\ u.header.chunked = v.header.chunked /\ u.header.announced = v.header.announced
    BY DEF WriterType, HeaderType, SameBut
  <1>2. t \in WriterType /\ SameBut(t, u) /\ SameFraming(t, u)
    BY <1>1, SetTypeType, SetTypeKeeps DEF Types
  <1>3. h \in WriterType /\ SameHeader(h, t)
    BY <1>2, WriteHeaderType DEF SameHeader, InternalServerError
  <1>4. Body("text") \in ElementType
    BY ErrorAssumption DEF Body, Element, ElementType, ElementKind
  <1>5. TextError(v, ok) = Write(h, Body("text"), ok)
    BY DEF TextError
  <1> HIDE DEF u, t, h
  <1>6. /\ Write(h, Body("text"), ok) \in WriterType
        /\ Write(h, Body("text"), ok).body = IF ok THEN Append(h.body, Body("text")) ELSE h.body
        /\ Write(h, Body("text"), ok).header = h.header
        /\ Write(h, Body("text"), ok).wire \in {h.wire, h.header}
    BY <1>3, <1>4, WriteType
  <1> QED
    BY <1>1, <1>2, <1>3, <1>5, <1>6 DEF SameBut, SameHeader, SameFraming

-----------------------------------------------------------------------------
(***************************************************************************)
(* The invariant.  WriterInv types the writer; FramingInv says which of the  *)
(* framing headers can be there at each step; BodyInv how long the body is;  *)
(* ErrorInv that there is an error to report.                              *)
(***************************************************************************)
Framed(h) == ~(h.length /\ h.chunked) /\ (h.announced # {} => h.chunked)

FramingInv ==
  /\ Framed(w.header) /\ Framed(w.wire)
  /\ pc \notin {"done", "panicked"} => ~w.header.length
  /\ pc \in {"idle", "message"} => ~w.header.chunked
  /\ pc = "rewrite" /\ w.header.chunked => req.trailers

WriterInv == w \in WriterType /\ chunk \in ElementType

Early == {"idle", "message", "rewrite", "error", "stream"}

BodyInv ==
  /\ pc \in Early => w.body = <<>> /\ w.flushed = 0 /\ received = 0
  /\ pc = "recv" => Len(w.body) = 2 * received /\ w.flushed = 2 * received
  /\ pc \in {"chunk", "write"} => Len(w.body) = 2 * received - 2
  /\ pc = "write" => chunk.n = received /\ chunk.kind \in {"message", "empty"}
  /\ pc = "delimit" => Len(w.body) = 2 * received - 1
  /\ pc = "flush" => Len(w.body) = 2 * received
  /\ pc = "streamError" => Len(w.body) \in {2 * received, 2 * received - 2}
  /\ pc \notin {"done", "panicked"} =>
       \A i \in 1..Len(w.body) : Kind(i) \in {"message", "empty", "delim"}
  /\ WholeFrames

ErrorInv == pc \in {"error", "streamError"} => err \in Error

IInv == TypeOK /\ WriterInv /\ FramingInv /\ BodyInv /\ ErrorInv

LEMMA BodyElement ==
  ASSUME NEW kind \in ElementKind
  PROVE  Body(kind) \in ElementType /\ Body(kind).kind = kind
  BY ErrorAssumption DEF Body, Element, ElementType

LEMMA InitIInv == Init => IInv
  <1> SUFFICES ASSUME Init PROVE IInv
    OBVIOUS
  <1>1. TypeOK
    <2>1. w.status = 0
      BY DEF Init, FreshWriter
    <2>2. chunk.n = 0 /\ 0 \in 0..MaxMessages
      BY ErrorAssumption DEF Init, Delim, Body, Element
    <2>3. ctx \in Context
      BY DEF Init, Context
    <2>4. gone \in BOOLEAN /\ wroteHeader \in BOOLEAN
      BY DEF Init
    <2> QED BY <2>1, <2>2, <2>3, <2>4 DEF Init, TypeOK
  <1>2. WriterInv
    BY FreshWriterType, BodyElement DEF Init, WriterInv, Delim, ElementKind
  <1>3. FramingInv
    BY DEF Init, FramingInv, Framed, FreshWriter, EmptyHeader
  <1>4. BodyInv
    <2>1. w.body = <<>> /\ Len(w.body) = 0 /\ w.flushed = 0 /\ received = 0 /\ pc = "idle"
      BY DEF Init, FreshWriter
    <2> QED BY <2>1 DEF BodyInv, WholeFrames
  <1>5. ErrorInv
    BY DEF Init, ErrorInv
  <1> QED BY <1>1, <1>2, <1>3, <1>4, <1>5 DEF IInv

-----------------------------------------------------------------------------
(* How a body grows.                                                       *)

Frames(b) ==
  \A i \in 1..Len(b) :
    /\ b[i].kind \in {"message", "empty"} => i = 2 * b[i].n - 1
    /\ b[i].kind = "delim" => i % 2 = 0
    /\ b[i].kind = "streamError" => i % 2 = 1 /\ i + 1 >= Len(b)
    /\ b[i].kind \in {"response", "error", "fallback", "text"} => i = Len(b)

PlainFrames(b) == \A i \in 1..Len(b) : b[i].kind \in {"message", "empty", "delim"}

LEMMA FramesDef == WholeFrames <=> Frames(w.body)
  BY DEF WholeFrames, Frames, Kind

LEMMA Extend ==
  ASSUME NEW b \in Seq(ElementType), NEW e \in ElementType, Frames(b), PlainFrames(b),
         e.kind \in {"message", "empty"} => Len(b) + 1 = 2 * e.n - 1,
         e.kind = "delim" => (Len(b) + 1) % 2 = 0,
         e.kind = "streamError" => (Len(b) + 1) % 2 = 1
  PROVE  /\ Frames(Append(b, e))
         /\ e.kind \in {"message", "empty", "delim"} => PlainFrames(Append(b, e))
  <1> DEFINE a == Append(b, e)
  <1>1. Len(a) = Len(b) + 1 /\ Len(b) \in Nat /\ a[Len(b) + 1] = e
    OBVIOUS
  <1>2. ASSUME NEW i \in 1..Len(b) PROVE a[i] = b[i] /\ i \in 1..Len(a)
    OBVIOUS
  <1> HIDE DEF a
  <1>3. ASSUME NEW i \in 1..Len(a) PROVE i \in 1..Len(b) \/ i = Len(b) + 1
    BY <1>1
  <1>4. Frames(a)
    <2> SUFFICES ASSUME NEW i \in 1..Len(a)
                 PROVE  /\ a[i].kind \in {"message", "empty"} => i = 2 * a[i].n - 1
                        /\ a[i].kind = "delim" => i % 2 = 0
                        /\ a[i].kind = "streamError" => i % 2 = 1 /\ i + 1 >= Len(a)
                        /\ a[i].kind \in {"response", "error", "fallback", "text"} => i = Len(a)
      BY DEF Frames
    <2>1. CASE i \in 1..Len(b)
      <3>1. a[i] = b[i] /\ b[i].kind \in {"message", "empty", "delim"}
        BY <2>1, <1>2 DEF PlainFrames
      <3>2. /\ b[i].kind \in {"message", "empty"} => i = 2 * b[i].n - 1
            /\ b[i].kind = "delim" => i % 2 = 0
        BY <2>1 DEF Frames
      <3> QED BY <3>1, <3>2
    <2>2. CASE i = Len(b) + 1
      BY <2>2, <1>1
    <2> QED BY <1>3, <2>1, <2>2
  <1>5. ASSUME e.kind \in {"message", "empty", "delim"} PROVE PlainFrames(a)
    BY <1>1, <1>2, <1>3, <1>5 DEF PlainFrames
  <1> QED BY <1>4, <1>5 DEF a

\* An error chunk with its delimiter.
LEMMA ExtendTwice ==
  ASSUME NEW b \in Seq(ElementType), NEW e \in ElementType, NEW d \in ElementType,
         Frames(b), PlainFrames(b), Len(b) % 2 = 0, e.kind = "streamError", d.kind = "delim"
  PROVE  Frames(Append(Append(b, e), d))
  <1> DEFINE a == Append(Append(b, e), d)
  <1>1. Len(a) = Len(b) + 2 /\ Len(b) \in Nat /\ a[Len(b) + 1] = e /\ a[Len(b) + 2] = d
    OBVIOUS
  <1>2. ASSUME NEW i \in 1..Len(b) PROVE a[i] = b[i] /\ i \in 1..Len(a)
    OBVIOUS
  <1> HIDE DEF a
  <1>3. ASSUME NEW i \in 1..Len(a) PROVE i \in 1..Len(b) \/ i = Len(b) + 1 \/ i = Len(b) + 2
    BY <1>1
  <1>4. (Len(b) + 1) % 2 = 1 /\ (Len(b) + 2) % 2 = 0
    BY <1>1
  <1>5. Frames(a)
    <2> SUFFICES ASSUME NEW i \in 1..Len(a)
                 PROVE  /\ a[i].kind \in {"message", "empty"} => i = 2 * a[i].n - 1
                        /\ a[i].kind = "delim" => i % 2 = 0
                        /\ a[i].kind = "streamError" => i % 2 = 1 /\ i + 1 >= Len(a)
                        /\ a[i].kind \in {"response", "error", "fallback", "text"} => i = Len(a)
      BY DEF Frames
    <2>1. CASE i \in 1..Len(b)
      <3>1. a[i] = b[i] /\ b[i].kind \in {"message", "empty", "delim"}
        BY <2>1, <1>2 DEF PlainFrames
      <3>2. /\ b[i].kind \in {"message", "empty"} => i = 2 * b[i].n - 1
            /\ b[i].kind = "delim" => i % 2 = 0
        BY <2>1 DEF Frames
      <3> QED BY <3>1, <3>2
    <2>2. CASE i = Len(b) + 1
      BY <2>2, <1>1, <1>4
    <2>3. CASE i = Len(b) + 2
      BY <2>3, <1>1, <1>4
    <2> QED BY <1>3, <2>1, <2>2, <2>3
  <1> QED BY <1>5 DEF a

-----------------------------------------------------------------------------
(* Every step preserves the invariant.                                     *)

LEMMA SameFrames ==
  ASSUME WholeFrames, w'.body = w.body
  PROVE  WholeFrames'
  BY DEF WholeFrames, Kind

\* A step that returns, or panics, has only to keep the frames whole.
LEMMA ReturnBody ==
  ASSUME pc' \in {"done", "panicked"}, Frames(w'.body)
  PROVE  BodyInv'
  BY DEF BodyInv, Early, WholeFrames, Frames, Kind

LEMMA IdleBody ==
  ASSUME BodyInv, UNCHANGED <<w, received>>, pc = "idle", pc' \in {"message", "stream", "error"}
  PROVE  BodyInv'
  <1>1. w.body = <<>> /\ w.flushed = 0 /\ received = 0 /\ Len(w.body) = 0
    BY DEF BodyInv, Early
  <1> QED BY <1>1 DEF BodyInv, Early, WholeFrames, Kind

LEMMA BeginStep ==
  ASSUME IInv, NEW step \in {"message", "stream", "error"}, NEW c \in Context,
         NEW e \in Error \cup {NoError}, step = "error" => e \in Error, Begin(step, c, e)
  PROVE  IInv'
  <1>1. TypeOK'
    BY DEF IInv, TypeOK, Begin, Goto, streamVars
  <1>2. WriterInv' /\ FramingInv'
    BY DEF IInv, WriterInv, FramingInv, Framed, Begin, Goto, streamVars
  <1>3. BodyInv'
    BY IdleBody DEF IInv, Begin, Goto, streamVars
  <1>4. ErrorInv'
    BY DEF ErrorInv, Begin, Goto
  <1> QED BY <1>1, <1>2, <1>3, <1>4 DEF IInv

LEMMA DisconnectStep ==
  ASSUME IInv, Disconnect
  PROVE  IInv'
  <1>1. TypeOK'
    BY DEF IInv, TypeOK, Disconnect
  <1>2. WriterInv' /\ FramingInv'
    BY DEF IInv, WriterInv, FramingInv, Framed, Disconnect
  <1>3. BodyInv'
    BY DEF IInv, BodyInv, Early, WholeFrames, Kind, Disconnect
  <1>4. ErrorInv'
    BY DEF IInv, ErrorInv, Disconnect
  <1> QED BY <1>1, <1>2, <1>3, <1>4 DEF IInv

LEMMA EarlyBody ==
  ASSUME IInv, pc \in Early, pc' \in Early \cup {"recv"},
         w'.body = w.body, w'.flushed = w.flushed, received' = received
  PROVE  BodyInv'
  <1>1. w.body = <<>> /\ w.flushed = 0 /\ received = 0 /\ Len(w.body) = 0
    BY DEF IInv, BodyInv
  <1> QED BY <1>1 DEF BodyInv, Early, WholeFrames, Kind

LEMMA ForwardHeadStep ==
  ASSUME IInv, ForwardHead
  PROVE  IInv' /\ w'.body = <<>>
  <1> USE DEF IInv
  <1>1. PICK status \in OptionStatus : w' = RunOptions(SetType(WithMetadata(w), "response"), status)
    BY DEF ForwardHead
  <1> DEFINE m == WithMetadata(w)
             t == SetType(m, "response")
  <1>2. /\ m \in WriterType /\ SameBut(m, w) /\ m.header.length = w.header.length
        /\ SameFraming(m, w) \/ (m.header.chunked /\ req.trailers)
    BY WithMetadataType DEF WriterInv, TypeOK
  <1>3. t \in WriterType /\ SameBut(t, m) /\ SameFraming(t, m)
    <2>1. "response" \in Types
      BY DEF Types
    <2> QED BY <1>2, <2>1, SetTypeType, SetTypeKeeps
  <1>4. w' \in WriterType /\ SameHeader(w', t)
    BY <1>1, <1>3, RunOptionsType, ErrorAssumption
  <1>5. pc = "message" /\ pc' \in {"rewrite", "error"} /\ UNCHANGED <<req, ctx, gone, received, chunk, wroteHeader, ended>>
        /\ err' \in Error \cup {err}
    BY DEF ForwardHead, Goto, Fail, streamVars
  <1> HIDE DEF m, t
  <1>6. TypeOK'
    BY <1>4, <1>5 DEF TypeOK, WriterType
  <1>7. WriterInv'
    BY <1>4, <1>5 DEF WriterInv
  <1>8. FramingInv'
    <2>1. w.header.length = FALSE /\ ~w.header.chunked /\ Framed(w.header) /\ Framed(w.wire)
      BY <1>5 DEF FramingInv, WriterInv, WriterType, HeaderType
    <2>2. Framed(m.header) /\ ~m.header.length /\ (m.header.chunked => req.trailers)
      BY <2>1, <1>2 DEF Framed, SameFraming
    <2>3. Framed(t.header) /\ ~t.header.length /\ (t.header.chunked => req.trailers)
      BY <2>2, <1>3 DEF Framed, SameFraming
    <2>4. w'.header = t.header /\ w'.wire \in {w.wire, t.header}
      BY <1>2, <1>3, <1>4 DEF SameHeader, SameBut
    <2> QED BY <2>1, <2>3, <2>4, <1>5 DEF FramingInv
  <1>9. BodyInv' /\ w'.body = <<>>
    <2>1. w'.body = w.body /\ w'.flushed = w.flushed
      BY <1>2, <1>3, <1>4 DEF SameBut, SameHeader
    <2>2. w.body = <<>>
      BY <1>5 DEF BodyInv, Early
    <2> QED BY <2>1, <2>2, <1>5, EarlyBody DEF Early
  <1>10. ErrorInv'
    BY DEF ForwardHead, Goto, Fail, ErrorInv
  <1> QED BY <1>6, <1>7, <1>8, <1>9, <1>10

\* The last write of an answer that has no body yet.
LEMMA OneElement ==
  ASSUME NEW e \in ElementType, e.kind \in {"response", "error", "fallback", "text"},
         NEW b, b \in {<<>>, Append(<<>>, e)}
  PROVE  Frames(b) /\ Len(b) <= 1
  <1>1. CASE b = <<>>
    BY <1>1 DEF Frames
  <1>2. CASE b = <<e>>
    BY <1>2 DEF Frames
  <1> QED BY <1>1, <1>2

\* A write of the whole answer, then possibly its trailers, then the return.
LEMMA AnswerStep ==
  ASSUME IInv, NEW v \in WriterType, NEW e \in ElementType, NEW ok \in BOOLEAN,
         pc \in Early, v.body = w.body, Framed(v.header), Framed(v.wire),
         e.kind \in {"response", "error", "fallback", "text"},
         w' = Write(v, e, ok) \/ (ctx \in ServerMetadata /\ w' = ForwardTrailers(Write(v, e, ok), ctx)),
         pc' = "done", ended' \in {"answered", "cut"}, err' = err,
         UNCHANGED <<req, ctx, gone, received, chunk, wroteHeader>>
  PROVE  IInv' /\ Len(w'.body) <= 1
  <1> USE DEF IInv
  <1> DEFINE b == Write(v, e, ok)
  <1>1. /\ b \in WriterType /\ b.body \in {v.body, Append(v.body, e)} /\ b.header = v.header
        /\ b.wire \in {v.wire, v.header}
    BY WriteType
  <1>2. /\ w' \in WriterType /\ w'.body = b.body /\ w'.wire = b.wire
        /\ SameFraming(w', b)
    <2>1. CASE w' = b
      BY <1>1, <2>1 DEF SameFraming
    <2>2. CASE ctx \in ServerMetadata /\ w' = ForwardTrailers(b, ctx)
      BY <1>1, <2>2, ForwardTrailersType DEF SameBut
    <2> QED BY <2>1, <2>2
  <1> HIDE DEF b
  <1>3. TypeOK'
    BY <1>2 DEF TypeOK, WriterType
  <1>4. WriterInv'
    BY <1>2 DEF WriterInv
  <1>5. FramingInv'
    <2>1. Framed(w'.header) /\ Framed(w'.wire)
      BY <1>1, <1>2 DEF Framed, SameFraming
    <2> QED BY <2>1 DEF FramingInv
  <1>6. BodyInv' /\ Len(w'.body) <= 1
    <2>1. w.body = <<>>
      BY DEF BodyInv
    <2>2. w'.body \in {<<>>, Append(<<>>, e)}
      BY <2>1, <1>1, <1>2
    <2>3. Frames(w'.body) /\ Len(w'.body) <= 1
      BY <2>2, OneElement
    <2> QED BY <2>3, ReturnBody
  <1>7. ErrorInv'
    BY DEF ErrorInv
  <1> QED BY <1>3, <1>4, <1>5, <1>6, <1>7

LEMMA ForwardBodyStep ==
  ASSUME IInv, ForwardBody
  PROVE  IInv' /\ Len(w'.body) <= 1
  <1> USE DEF IInv
  <1>1. pc = "rewrite" /\ UNCHANGED <<req, ctx, gone, received, chunk, wroteHeader>>
    BY DEF ForwardBody, streamVars
  <1>2. CASE Fail("error") /\ UNCHANGED w
    <2>1. TypeOK' /\ WriterInv' /\ ErrorInv'
      BY <1>1, <1>2 DEF TypeOK, WriterInv, ErrorInv, Fail, Goto
    <2>2. FramingInv'
      BY <1>1, <1>2 DEF FramingInv, Fail, Goto
    <2>3. BodyInv'
      BY <1>1, <1>2, EarlyBody DEF Fail, Goto, Early
    <2>4. w'.body = <<>>
      BY <1>1, <1>2 DEF BodyInv, Early
    <2> QED BY <2>1, <2>2, <2>3, <2>4
  <1>3. ASSUME NEW ok \in BOOLEAN, NEW v, v = [w EXCEPT !.header.length = HasLength],
               w' = IF HasMetadata(ctx) /\ req.trailers
                    THEN ForwardTrailers(Write(v, Body("response"), ok), ctx)
                    ELSE Write(v, Body("response"), ok),
               Return(IF ok THEN "answered" ELSE "cut"), UNCHANGED err
        PROVE  IInv' /\ Len(w'.body) <= 1
    <2>1. w \in WriterType /\ HasLength \in BOOLEAN
      BY DEF WriterInv, HasLength, TypeOK
    <2>2. v \in WriterType /\ SameBut(v, w)
      BY <1>3, <2>1 DEF WriterType, HeaderType, SameBut
    <2>3. v.header.length = HasLength /\ v.header.chunked = w.header.chunked
          /\ v.header.announced = w.header.announced
      BY <1>3, <2>1 DEF WriterType, HeaderType
    <2>4. ~(HasLength /\ w.header.chunked)
      BY <1>1 DEF HasLength, FramingInv
    <2>5. Framed(v.header) /\ Framed(v.wire) /\ v.body = w.body
      BY <2>2, <2>3, <2>4 DEF Framed, FramingInv, SameBut
    <2>6. Body("response") \in ElementType /\ Body("response").kind = "response"
      BY BodyElement DEF ElementKind
    <2>7. pc' = "done" /\ ended' \in {"answered", "cut"}
      BY <1>3 DEF Return
    <2>8. \/ w' = Write(v, Body("response"), ok)
          \/ ctx \in ServerMetadata /\ w' = ForwardTrailers(Write(v, Body("response"), ok), ctx)
      BY <1>3 DEF HasMetadata
    <2> QED BY <1>1, <1>3, <2>2, <2>5, <2>6, <2>7, <2>8, AnswerStep DEF Early
  <1>4. WriteOutcome \subseteq BOOLEAN
    BY DEF WriteOutcome
  <1> QED BY <1>2, <1>3, <1>4 DEF ForwardBody

\* What the error handler puts on the wire: a fallback text, or the error.
LEMMA FallbackStep ==
  ASSUME IInv, pc = "error", NEW v \in WriterType, SameBut(v, w), Framed(v.header), Fallback(v),
         UNCHANGED <<req, ctx, err, gone, received, chunk, wroteHeader>>
  PROVE  IInv' /\ Len(w'.body) <= 1
  <1> PICK ok \in BOOLEAN : /\ w' = Write(WriteHeader(v, InternalServerError), Body("fallback"), ok)
                            /\ Return(IF ok THEN "answered" ELSE "cut")
    BY DEF Fallback, WriteOutcome
  <1> DEFINE h == WriteHeader(v, InternalServerError)
  <1>1. h \in WriterType /\ h.body = v.body /\ h.header = v.header /\ h.wire \in {v.wire, v.header}
    BY WriteHeaderType DEF InternalServerError
  <1>2. Body("fallback") \in ElementType /\ Body("fallback").kind = "fallback"
    BY BodyElement DEF ElementKind
  <1>3. w' = Write(h, Body("fallback"), ok)
    OBVIOUS
  <1> HIDE DEF h
  <1>4. h.body = w.body /\ Framed(h.header) /\ Framed(h.wire)
    BY <1>1 DEF IInv, FramingInv, Framed, SameBut
  <1>5. pc' = "done" /\ ended' \in {"answered", "cut"}
    BY DEF Return
  <1> QED BY <1>1, <1>2, <1>3, <1>4, <1>5, AnswerStep DEF Early

LEMMA HTTPErrorStep ==
  ASSUME IInv, HTTPError
  PROVE  IInv' /\ Len(w'.body) <= 1
  <1> USE DEF IInv
  <1>1. pc = "error" /\ UNCHANGED <<req, ctx, err, gone, received, chunk, wroteHeader>>
    BY DEF HTTPError, streamVars
  <1> DEFINE u == Unframe(w)
             t == SetType(u, "error")
  <1>2. /\ u \in WriterType /\ SameBut(u, w) /\ Framed(u.header) /\ ~u.header.length
        /\ ~u.header.chunked
    <2>1. ~w.header.length
      BY <1>1 DEF FramingInv
    <2> QED BY <2>1, UnframeType DEF WriterInv, Framed
  <1>3. t \in WriterType /\ SameBut(t, u) /\ SameFraming(t, u)
    BY <1>2, SetTypeType, SetTypeKeeps DEF Types
  <1>4. SameBut(t, w) /\ Framed(t.header) /\ ~t.header.length /\ ~t.header.chunked
    BY <1>2, <1>3 DEF SameBut, SameFraming, Framed
  <1>5. CASE RewriterFails
    <2>1. Fallback(u)
      BY <1>5 DEF RewriterFails
    <2> HIDE DEF u
    <2> QED BY <2>1, <1>1, <1>2, FallbackStep
  <1>6. CASE MarshalerFails
    <2>1. Fallback(t)
      BY <1>6 DEF MarshalerFails
    <2> HIDE DEF t
    <2> QED BY <2>1, <1>1, <1>3, <1>4, FallbackStep
  <1>7. CASE NilContextPanics
    <2>1. w' = t /\ pc' = "panicked" /\ UNCHANGED ended
      BY <1>7 DEF NilContextPanics
    <2> HIDE DEF t
    <2>2. TypeOK' /\ WriterInv' /\ ErrorInv'
      BY <2>1, <1>1, <1>3 DEF TypeOK, WriterInv, WriterType, ErrorInv
    <2>3. FramingInv'
      BY <2>1, <1>4 DEF FramingInv, SameBut, Framed
    <2>4. BodyInv'
      <3>1. w'.body = <<>>
        BY <1>1, <1>4, <2>1 DEF BodyInv, Early, SameBut
      <3>2. Frames(w'.body)
        BY <3>1 DEF Frames
      <3> QED BY <2>1, <3>2, ReturnBody
    <2>5. w'.body = <<>>
      BY <1>1, <1>4, <2>1 DEF BodyInv, Early, SameBut
    <2> QED BY <2>2, <2>3, <2>4, <2>5
  <1>8. CASE AnswerWithError
    <2> DEFINE m == WithMetadata(t)
               h == WriteHeader(m, ErrorStatus(err))
    <2>1. PICK ok \in BOOLEAN :
            /\ w' = IF HasMetadata(ctx) /\ req.trailers
                    THEN ForwardTrailers(Write(h, Body("error"), ok), ctx)
                    ELSE Write(h, Body("error"), ok)
            /\ Return(IF ok THEN "answered" ELSE "cut")
      BY <1>8 DEF AnswerWithError, WriteOutcome
    <2>2. /\ m \in WriterType /\ SameBut(m, t) /\ m.header.length = t.header.length
          /\ SameFraming(m, t) \/ (m.header.chunked /\ req.trailers)
      <3> HIDE DEF t
      <3> QED BY <1>3, WithMetadataType DEF TypeOK
    <2>3. ErrorStatus(err) \in Nat
      <3>1. err \in Error
        BY <1>1 DEF ErrorInv
      <3>2. err.code \in Nat /\ err.custom \in Nat
        BY <3>1, ErrorAssumption
      <3> QED BY <3>2, StatusType DEF ErrorStatus
    <2>4. h \in WriterType /\ h.body = m.body /\ h.header = m.header /\ h.wire \in {m.wire, m.header}
      <3> HIDE DEF m
      <3> QED BY <2>2, <2>3, WriteHeaderType
    <2> HIDE DEF h, m, t
    <2>5. Framed(m.header) /\ SameBut(m, w)
      BY <1>4, <2>2 DEF Framed, SameFraming, SameBut
    <2>6. h.body = w.body /\ Framed(h.header) /\ Framed(h.wire)
      BY <2>4, <2>5 DEF FramingInv, SameBut
    <2>7. Body("error") \in ElementType /\ Body("error").kind = "error"
      BY BodyElement DEF ElementKind
    <2>8. pc' = "done" /\ ended' \in {"answered", "cut"}
      BY <2>1 DEF Return
    <2>9. \/ w' = Write(h, Body("error"), ok)
          \/ ctx \in ServerMetadata /\ w' = ForwardTrailers(Write(h, Body("error"), ok), ctx)
      BY <2>1 DEF HasMetadata
    <2> QED BY <1>1, <2>4, <2>6, <2>7, <2>8, <2>9, AnswerStep DEF Early
  <1> QED BY <1>5, <1>6, <1>7, <1>8 DEF HTTPError

(***************************************************************************)
(* The steps of a stream.                                                  *)
(***************************************************************************)
LEMMA StreamHeadStep ==
  ASSUME IInv, StreamHead
  PROVE  IInv' /\ Len(w'.body) <= 1
  <1> USE DEF IInv
  <1>1. pc = "stream" /\ UNCHANGED <<req, ctx, gone, received, chunk, wroteHeader>>
    BY DEF StreamHead, streamVars
  <1>2. w \in WriterType /\ w.body = <<>> /\ ~w.header.length
    BY <1>1 DEF WriterInv, BodyInv, Early, FramingInv
  <1>3. CASE StreamWithoutMetadata
    <2>1. PICK ok \in BOOLEAN : w' = TextError(w, ok)
      BY <1>3 DEF StreamWithoutMetadata, WriteOutcome
    <2>2. pc' = "done" /\ ended' = "aborted" /\ err' = err
      BY <1>3 DEF StreamWithoutMetadata, Return
    <2>3. /\ w' \in WriterType /\ w'.body \in {<<>>, Append(<<>>, Body("text"))}
          /\ w'.header.announced = w.header.announced /\ w'.header.chunked = w.header.chunked
          /\ w'.header.length = FALSE /\ w'.wire \in {w.wire, w'.header}
      BY <2>1, <1>2, TextErrorType
    <2>4. TypeOK' /\ WriterInv' /\ ErrorInv'
      BY <1>1, <2>2, <2>3 DEF TypeOK, WriterInv, WriterType, ErrorInv
    <2>5. FramingInv'
      BY <2>2, <2>3 DEF FramingInv, Framed
    <2>6. BodyInv'
      <3>1. Body("text") \in ElementType /\ Body("text").kind = "text"
        BY BodyElement DEF ElementKind
      <3>2. Frames(w'.body)
        BY <2>3, <3>1, OneElement
      <3> QED BY <2>2, <3>2, ReturnBody
    <2>7. Len(w'.body) <= 1
      <3>1. Body("text") \in ElementType /\ Body("text").kind = "text"
        BY BodyElement DEF ElementKind
      <3> QED BY <2>3, <3>1, OneElement
    <2> QED BY <2>4, <2>5, <2>6, <2>7
  <1>4. CASE StreamHeaders
    <2> DEFINE m == ForwardServerMetadata(w, ctx)
               c == [m EXCEPT !.header.chunked = TRUE]
    <2>1. PICK status \in OptionStatus : w' = RunOptions(c, status)
      BY <1>4 DEF StreamHeaders
    <2>2. m \in WriterType /\ SameBut(m, w) /\ SameFraming(m, w)
      BY <1>2, <1>4, ForwardServerMetadataType DEF StreamHeaders, HasMetadata
    <2>3. /\ c \in WriterType /\ SameBut(c, m) /\ c.header.chunked
          /\ c.header.length = m.header.length
      <3> HIDE DEF m
      <3> QED BY <2>2 DEF WriterType, HeaderType, SameBut
    <2>4. w' \in WriterType /\ SameHeader(w', c)
      <3> HIDE DEF c
      <3> QED BY <2>1, <2>3, RunOptionsType, ErrorAssumption
    <2> HIDE DEF m, c
    <2>5. pc' \in {"recv", "error"} /\ UNCHANGED ended /\ err' \in Error \cup {err}
          /\ (pc' = "error" => err' \in Error)
      BY <1>4 DEF StreamHeaders, Goto, Fail
    <2>6. TypeOK' /\ WriterInv' /\ ErrorInv'
      BY <1>1, <2>4, <2>5 DEF TypeOK, WriterInv, WriterType, ErrorInv
    <2>7. FramingInv'
      <3>1. Framed(c.header) /\ ~c.header.length
        BY <1>2, <2>2, <2>3 DEF SameFraming, Framed
      <3>2. w'.header = c.header /\ w'.wire \in {w.wire, c.header}
        BY <2>2, <2>3, <2>4 DEF SameHeader, SameBut
      <3> QED BY <3>1, <3>2, <2>5 DEF FramingInv
    <2>8. BodyInv'
      <3>1. w'.body = w.body /\ w'.flushed = w.flushed
        BY <2>2, <2>3, <2>4 DEF SameHeader, SameBut
      <3> QED BY <3>1, <1>1, <2>5, EarlyBody DEF Early
    <2>9. w'.body = <<>>
      BY <1>2, <2>2, <2>3, <2>4 DEF SameHeader, SameBut
    <2> QED BY <2>6, <2>7, <2>8, <2>9
  <1> QED BY <1>3, <1>4 DEF StreamHead

LEMMA RecvStep ==
  ASSUME IInv, Recv
  PROVE  IInv'
  <1> USE DEF IInv
  <1>1. pc = "recv" /\ UNCHANGED <<req, ctx, w, gone, chunk, wroteHeader>>
    BY DEF Recv
  <1>2. \/ /\ received < MaxMessages /\ received' = received + 1 /\ pc' = "chunk"
           /\ UNCHANGED <<ended, err>>
        \/ pc' = "done" /\ ended' = "complete" /\ UNCHANGED <<received, err>>
        \/ pc' = "streamError" /\ err' \in Error /\ UNCHANGED <<received, ended>>
    BY DEF Recv, Return, Goto, Fail
  <1>3. TypeOK'
    BY <1>1, <1>2, ErrorAssumption DEF TypeOK
  <1>4. WriterInv' /\ ErrorInv'
    BY <1>1, <1>2 DEF WriterInv, ErrorInv
  <1>5. FramingInv'
    BY <1>1, <1>2 DEF FramingInv
  <1>6. BodyInv'
    <2>1. Len(w.body) = 2 * received /\ w.flushed = 2 * received /\ received \in Nat
      BY <1>1 DEF BodyInv, TypeOK
    <2>2. WholeFrames'
      BY <1>1, SameFrames DEF BodyInv
    <2>3. pc' # "done" => \A i \in 1..Len(w'.body) : Kind(i)' \in {"message", "empty", "delim"}
      BY <1>1 DEF BodyInv, Kind
    <2> QED BY <1>1, <1>2, <2>1, <2>2, <2>3 DEF BodyInv, Early
  <1> QED BY <1>3, <1>4, <1>5, <1>6

LEMMA PrepareChunkStep ==
  ASSUME IInv, PrepareChunk
  PROVE  IInv' /\ w'.body = w.body
  <1> USE DEF IInv
  <1>1. pc = "chunk" /\ UNCHANGED <<req, ctx, gone, received, wroteHeader>>
    BY DEF PrepareChunk
  <1>2. PICK status \in OptionStatus :
          LET v == RunOptions(w, status)
              t == IF wroteHeader THEN v ELSE SetType(v, "message")
          IN \/ w' = v /\ FailedChunk /\ UNCHANGED chunk
             \/ w' = t /\ FailedChunk /\ UNCHANGED chunk
             \/ /\ w' = t
                /\ \E kind \in {"message", "empty"} : chunk' = Chunk(kind)
                /\ Goto("write") /\ UNCHANGED err
    BY DEF PrepareChunk
  <1> DEFINE v == RunOptions(w, status)
             t == IF wroteHeader THEN v ELSE SetType(v, "message")
  <1>3. v \in WriterType /\ SameHeader(v, w)
    BY RunOptionsType, ErrorAssumption DEF WriterInv
  <1>4. t \in WriterType /\ SameBut(t, v) /\ SameFraming(t, v)
    <2> HIDE DEF v
    <2> QED BY <1>3, SetTypeType, SetTypeKeeps DEF Types, SameBut, SameFraming
  <1>5. w' \in {v, t}
    BY <1>2
  <1> HIDE DEF v, t
  <1>6. /\ w' \in WriterType /\ w'.body = w.body /\ w'.flushed = w.flushed
        /\ SameFraming(w', w) /\ w'.wire \in {w.wire, w.header}
    BY <1>3, <1>4, <1>5 DEF SameHeader, SameBut, SameFraming
  <1>7. \/ pc' = "streamError" /\ err' \in Error /\ UNCHANGED <<ended, chunk>>
        \/ /\ pc' = "write" /\ UNCHANGED <<ended, err>>
           /\ \E kind \in {"message", "empty"} : chunk' = [kind |-> kind, n |-> received]
    BY <1>2 DEF FailedChunk, Fail, Goto, Chunk, Element
  <1>8. received \in 0..MaxMessages
    BY DEF TypeOK
  <1>9. TypeOK'
    BY <1>1, <1>6, <1>7, <1>8 DEF TypeOK, WriterType
  <1>10. WriterInv' /\ ErrorInv'
    BY <1>6, <1>7, <1>8 DEF WriterInv, ElementType, ElementKind, ErrorInv
  <1>11. FramingInv'
    BY <1>1, <1>6, <1>7 DEF FramingInv, Framed, SameFraming
  <1>12. BodyInv'
    <2>1. Len(w.body) = 2 * received - 2
      BY <1>1 DEF BodyInv
    <2>2. WholeFrames'
      BY <1>6, SameFrames DEF BodyInv
    <2>3. \A i \in 1..Len(w'.body) : Kind(i)' \in {"message", "empty", "delim"}
      BY <1>1, <1>6 DEF BodyInv, Kind
    <2> QED BY <1>1, <1>6, <1>7, <2>1, <2>2, <2>3 DEF BodyInv, Early
  <1> QED BY <1>6, <1>9, <1>10, <1>11, <1>12

\* What a write inside a stream leaves of the types and the framing.
LEMMA StreamWrite ==
  ASSUME IInv, pc \notin {"done", "panicked"}, w' \in WriterType,
         SameFraming(w', w), w'.wire \in {w.wire, w.header, w'.header},
         pc' \in {"delimit", "flush", "recv", "done"},
         ended' \in {"no", "answered", "complete", "reported", "aborted", "cut"},
         wroteHeader' \in BOOLEAN,
         UNCHANGED <<req, ctx, err, gone, received, chunk>>
  PROVE  TypeOK' /\ WriterInv' /\ FramingInv' /\ ErrorInv'
  <1>1. TypeOK' /\ WriterInv' /\ ErrorInv'
    BY DEF IInv, TypeOK, WriterInv, WriterType, ErrorInv
  <1>2. FramingInv'
    BY DEF IInv, FramingInv, Framed, SameFraming
  <1> QED BY <1>1, <1>2

LEMMA WriteChunkStep ==
  ASSUME IInv, WriteChunk
  PROVE  IInv'
  <1> USE DEF IInv
  <1>1. pc = "write" /\ UNCHANGED <<req, ctx, err, gone, received, chunk>>
    BY DEF WriteChunk
  <1>2. PICK ok \in BOOLEAN :
          /\ w' = Write(w, chunk, ok)
          /\ wroteHeader' = (wroteHeader \/ ok)
          /\ IF ok THEN Goto("delimit") ELSE Return("cut")
    BY DEF WriteChunk, WriteOutcome, AfterChunk
  <1>3. /\ w' \in WriterType /\ w'.body = IF ok THEN Append(w.body, chunk) ELSE w.body
        /\ w'.header = w.header /\ w'.wire \in {w.wire, w.header}
    BY <1>2, WriteType DEF WriterInv
  <1>4. TypeOK' /\ WriterInv' /\ FramingInv' /\ ErrorInv'
    <2>1. wroteHeader' \in BOOLEAN /\ pc' \in {"delimit", "done"} /\ ended' \in {ended, "cut"}
      BY <1>2 DEF Goto, Return, TypeOK
    <2>2. SameFraming(w', w)
      BY <1>3 DEF SameFraming
    <2> QED BY <1>1, <1>3, <2>1, <2>2, StreamWrite DEF TypeOK
  <1>5. BodyInv'
    <2>1. /\ Len(w.body) = 2 * received - 2 /\ received \in Nat
          /\ chunk.n = received /\ chunk.kind \in {"message", "empty"}
          /\ w.body \in Seq(ElementType) /\ chunk \in ElementType
      BY <1>1 DEF BodyInv, TypeOK, WriterInv, WriterType
    <2>2. Frames(w.body) /\ PlainFrames(w.body)
      BY <1>1, FramesDef DEF BodyInv, PlainFrames, Kind
    <2>3. CASE ~ok
      BY <2>2, <2>3, <1>2, <1>3, ReturnBody DEF Return
    <2>4. CASE ok
      <3>1. pc' = "delimit" /\ w'.body = Append(w.body, chunk)
        BY <2>4, <1>2, <1>3 DEF Goto
      <3>2. Frames(w'.body) /\ PlainFrames(w'.body)
        BY <2>1, <2>2, <3>1, Extend
      <3>3. Len(w'.body) = 2 * received' - 1
        BY <2>1, <3>1, <1>1
      <3> QED BY <3>1, <3>2, <3>3 DEF BodyInv, Early, WholeFrames, Frames, PlainFrames, Kind
    <2> QED BY <2>3, <2>4
  <1> QED BY <1>4, <1>5

LEMMA DelimType == Delim \in ElementType /\ Delim.kind = "delim"
  BY BodyElement DEF Delim, ElementKind

LEMMA WriteDelimiterStep ==
  ASSUME IInv, WriteDelimiter
  PROVE  IInv'
  <1> USE DEF IInv
  <1>1. pc = "delimit" /\ UNCHANGED <<req, ctx, err, gone, received, chunk, wroteHeader>>
    BY DEF WriteDelimiter, streamVars
  <1>2. PICK ok \in BOOLEAN :
          /\ w' = Write(w, Delim, ok)
          /\ IF ok THEN Goto("flush") ELSE Return("cut")
    BY DEF WriteDelimiter, WriteOutcome, AfterDelimiter
  <1>3. /\ w' \in WriterType /\ w'.body = IF ok THEN Append(w.body, Delim) ELSE w.body
        /\ w'.header = w.header /\ w'.wire \in {w.wire, w.header}
    BY <1>2, WriteType, DelimType DEF WriterInv
  <1>4. TypeOK' /\ WriterInv' /\ FramingInv' /\ ErrorInv'
    <2>1. wroteHeader' \in BOOLEAN /\ pc' \in {"flush", "done"} /\ ended' \in {ended, "cut"}
      BY <1>1, <1>2 DEF Goto, Return, TypeOK
    <2>2. SameFraming(w', w)
      BY <1>3 DEF SameFraming
    <2> QED BY <1>1, <1>3, <2>1, <2>2, StreamWrite DEF TypeOK
  <1>5. BodyInv'
    <2>1. /\ Len(w.body) = 2 * received - 1 /\ received \in Nat
          /\ w.body \in Seq(ElementType)
      BY <1>1 DEF BodyInv, TypeOK, WriterInv, WriterType
    <2>2. Frames(w.body) /\ PlainFrames(w.body)
      BY <1>1, FramesDef DEF BodyInv, PlainFrames, Kind
    <2>3. CASE ~ok
      BY <2>2, <2>3, <1>2, <1>3, ReturnBody DEF Return
    <2>4. CASE ok
      <3>1. pc' = "flush" /\ w'.body = Append(w.body, Delim)
        BY <2>4, <1>2, <1>3 DEF Goto
      <3>2. (Len(w.body) + 1) % 2 = 0
        BY <2>1
      <3>3. Frames(w'.body) /\ PlainFrames(w'.body)
        BY <2>1, <2>2, <3>1, <3>2, DelimType, Extend
      <3>4. Len(w'.body) = 2 * received'
        BY <2>1, <3>1, <1>1
      <3> QED BY <3>1, <3>3, <3>4 DEF BodyInv, Early, WholeFrames, Frames, PlainFrames, Kind
    <2> QED BY <2>3, <2>4
  <1> QED BY <1>4, <1>5

LEMMA FlushChunkStep ==
  ASSUME IInv, FlushChunk
  PROVE  IInv'
  <1> USE DEF IInv
  <1>1. pc = "flush" /\ UNCHANGED <<req, ctx, err, gone, received, chunk, wroteHeader>>
    BY DEF FlushChunk, streamVars
  <1>2. /\ w \in WriterType /\ Len(w.body) = 2 * received /\ ~w.header.length
        /\ wroteHeader \in BOOLEAN /\ ended \in {"no", "answered", "complete", "reported", "aborted", "cut"}
        /\ received \in Nat /\ w.body \in Seq(ElementType)
    BY <1>1 DEF WriterInv, WriterType, BodyInv, FramingInv, TypeOK
  <1>3. Frames(w.body) /\ PlainFrames(w.body)
    BY <1>1, FramesDef DEF BodyInv, PlainFrames, Kind
  <1>4. CASE w' = Flush(w) /\ Goto("recv")
    <2>1. w' = [w EXCEPT !.flushed = 2 * received] /\ pc' = "recv" /\ UNCHANGED ended
      BY <1>2, <1>4 DEF Flush, Goto
    <2>2. /\ w' \in WriterType /\ SameFraming(w', w) /\ w'.wire = w.wire
          /\ w'.body = w.body /\ w'.flushed = 2 * received
      BY <1>2, <2>1 DEF WriterType, SameFraming
    <2>3. TypeOK' /\ WriterInv' /\ FramingInv' /\ ErrorInv'
      BY <1>1, <1>2, <2>1, <2>2, StreamWrite
    <2>4. BodyInv'
      BY <1>1, <1>2, <1>3, <2>1, <2>2 DEF BodyInv, Early, WholeFrames, Frames, PlainFrames, Kind
    <2> QED BY <2>3, <2>4
  <1>5. CASE UNCHANGED w /\ Return("cut")
    <2>1. TypeOK' /\ WriterInv' /\ FramingInv' /\ ErrorInv'
      BY <1>1, <1>2, <1>5, StreamWrite DEF Return, SameFraming
    <2>2. BodyInv'
      BY <1>3, <1>5, ReturnBody DEF Return
    <2> QED BY <2>1, <2>2
  <1>6. ASSUME NEW ok \in BOOLEAN, w' = TextError(w, ok), Return("aborted")
        PROVE  IInv'
    <2>1. /\ w' \in WriterType /\ w'.body = IF ok THEN Append(w.body, Body("text")) ELSE w.body
          /\ SameFraming(w', w) /\ w'.wire \in {w.wire, w'.header}
      <3>1. w.header.length = FALSE
        BY <1>2 DEF WriterType, HeaderType
      <3> QED BY <1>2, <1>6, <3>1, TextErrorType DEF SameFraming
    <2>2. TypeOK' /\ WriterInv' /\ FramingInv' /\ ErrorInv'
      BY <1>1, <1>2, <1>6, <2>1, StreamWrite DEF Return
    <2>3. BodyInv'
      <3>1. Body("text") \in ElementType /\ Body("text").kind = "text"
        BY BodyElement DEF ElementKind
      <3>2. Frames(Append(w.body, Body("text")))
        BY <1>2, <1>3, <3>1, Extend
      <3> QED BY <1>3, <1>6, <2>1, <3>2, ReturnBody DEF Return
    <2> QED BY <2>2, <2>3
  <1> QED BY <1>4, <1>5, <1>6 DEF FlushChunk, WriteOutcome

\* The writer that an error of a stream is written to: with a status line of
\* its own, or the stream's.
LEMMA StreamErrorHeadType ==
  ASSUME IInv, pc = "streamError", NEW v, v = IF wroteHeader THEN w ELSE StreamErrorHead(w)
  PROVE  /\ v \in WriterType /\ v.body = w.body /\ SameFraming(v, w)
         /\ v.wire \in {w.wire, v.header}
  <1>0. w \in WriterType /\ err \in Error
    BY DEF IInv, WriterInv, ErrorInv
  <1>1. CASE wroteHeader
    BY <1>0, <1>1 DEF SameFraming
  <1>2. CASE ~wroteHeader
    <2> DEFINE t == SetType(w, "streamError")
    <2>1. t \in WriterType /\ SameBut(t, w) /\ SameFraming(t, w)
      BY <1>0, SetTypeType, SetTypeKeeps DEF Types
    <2>2. EarlyStatus \in Nat
      <3>1. err.code \in Nat
        BY <1>0, ErrorAssumption
      <3>2. StreamCode(err) \in Nat
        BY <3>1 DEF StreamCode
      <3> QED BY <3>2, StatusType DEF EarlyStatus
    <2>3. v = WriteHeader(t, EarlyStatus)
      BY <1>2 DEF StreamErrorHead
    <2> HIDE DEF t
    <2> QED BY <2>1, <2>2, <2>3, WriteHeaderType DEF SameBut, SameFraming
  <1> QED BY <1>1, <1>2

LEMMA HandleStreamErrorStep ==
  ASSUME IInv, HandleStreamError
  PROVE  IInv'
  <1> USE DEF IInv
  <1>1. pc = "streamError" /\ UNCHANGED <<req, ctx, err, gone, received, chunk, wroteHeader>>
    BY DEF HandleStreamError, streamVars
  <1>2. /\ w \in WriterType /\ w.body \in Seq(ElementType)
        /\ Len(w.body) % 2 = 0 /\ (Len(w.body) + 1) % 2 = 1
        /\ wroteHeader \in BOOLEAN
    <2>1. Len(w.body) \in {2 * received, 2 * received - 2} /\ received \in Nat
      BY <1>1 DEF BodyInv, TypeOK
    <2> QED BY <2>1 DEF WriterInv, WriterType, TypeOK
  <1>3. Frames(w.body) /\ PlainFrames(w.body)
    BY <1>1, FramesDef DEF BodyInv, PlainFrames, Kind
  <1> DEFINE v == IF wroteHeader THEN w ELSE StreamErrorHead(w)
  <1>4. /\ v \in WriterType /\ v.body = w.body /\ SameFraming(v, w)
        /\ v.wire \in {w.wire, v.header}
    BY <1>1, StreamErrorHeadType
  <1>5. \/ w' = v /\ Return("aborted")
        \/ \E ok, delimited \in BOOLEAN :
             /\ w' = IF ok THEN Write(Write(v, Body("streamError"), ok), Delim, delimited)
                     ELSE Write(v, Body("streamError"), ok)
             /\ Return(IF ok /\ delimited THEN "reported" ELSE "cut")
    BY DEF HandleStreamError, WriteOutcome
  <1> HIDE DEF v
  <1>6. pc' = "done" /\ ended' \in {"aborted", "reported", "cut"}
    BY <1>5 DEF Return
  <1>7. /\ w' \in WriterType /\ w'.header = v.header /\ w'.wire \in {v.wire, v.header}
        /\ Frames(w'.body)
    <2>1. CASE w' = v
      BY <2>1, <1>3, <1>4
    <2>2. ASSUME NEW ok \in BOOLEAN, NEW delimited \in BOOLEAN,
                 w' = IF ok THEN Write(Write(v, Body("streamError"), ok), Delim, delimited)
                      ELSE Write(v, Body("streamError"), ok)
          PROVE  /\ w' \in WriterType /\ w'.header = v.header /\ w'.wire \in {v.wire, v.header}
                 /\ Frames(w'.body)
      <3> DEFINE e == Body("streamError")
                 b == Write(v, e, ok)
                 d == Write(b, Delim, delimited)
      <3>1. e \in ElementType /\ e.kind = "streamError"
        BY BodyElement DEF ElementKind
      <3>2. w' = IF ok THEN d ELSE b
        BY <2>2
      <3> HIDE DEF e
      <3>3. /\ b \in WriterType /\ b.header = v.header /\ b.wire \in {v.wire, v.header}
            /\ b.body = IF ok THEN Append(w.body, e) ELSE w.body
        BY <1>4, <3>1, WriteType
      <3> HIDE DEF b
      <3>4. /\ d \in WriterType /\ d.header = b.header /\ d.wire \in {b.wire, b.header}
            /\ d.body = IF delimited THEN Append(b.body, Delim) ELSE b.body
        BY <3>3, DelimType, WriteType
      <3> HIDE DEF d
      <3>5. w'.body \in {w.body, Append(w.body, e), Append(Append(w.body, e), Delim)}
        BY <3>2, <3>3, <3>4
      <3>6. (Len(w.body) + 1) % 2 = 1
        BY <1>2
      <3>7. Frames(Append(w.body, e))
        BY <1>2, <1>3, <3>1, <3>6, Extend
      <3>8. Frames(Append(Append(w.body, e), Delim))
        BY <1>2, <1>3, <3>1, DelimType, ExtendTwice
      <3> QED BY <1>3, <3>2, <3>3, <3>4, <3>5, <3>7, <3>8
    <2> QED BY <1>5, <2>1, <2>2
  <1>8. TypeOK' /\ WriterInv' /\ FramingInv' /\ ErrorInv'
    <2>1. SameFraming(w', w)
      BY <1>4, <1>7 DEF SameFraming
    <2>2. w'.wire \in {w.wire, w.header, w'.header}
      BY <1>4, <1>7
    <2> QED BY <1>1, <1>2, <1>6, <1>7, <2>1, <2>2, StreamWrite
  <1>9. BodyInv'
    BY <1>6, <1>7, ReturnBody
  <1> QED BY <1>8, <1>9

-----------------------------------------------------------------------------
\* The invariant is inductive.
LEMMA StepIInv == IInv /\ [Next]_vars => IInv'
  <1> SUFFICES ASSUME IInv, [Next]_vars PROVE IInv'
    OBVIOUS
  <1>1. ASSUME NEW c \in Context \ {NilContext}, ForwardMessage(c) PROVE IInv'
    BY <1>1, BeginStep DEF ForwardMessage
  <1>2. ASSUME NEW c \in Context \ {NilContext}, ForwardStream(c) PROVE IInv'
    BY <1>2, BeginStep DEF ForwardStream
  <1>3. ASSUME NEW c \in Context, NEW e \in Error, ReportError(c, e) PROVE IInv'
    BY <1>3, BeginStep DEF ReportError
  <1>4. CASE Unary
    BY <1>4, ForwardHeadStep, ForwardBodyStep, HTTPErrorStep DEF Unary
  <1>5. CASE Stream
    BY <1>5, StreamHeadStep, RecvStep, PrepareChunkStep, WriteChunkStep, WriteDelimiterStep,
       FlushChunkStep, HandleStreamErrorStep DEF Stream
  <1>6. CASE Disconnect
    BY <1>6, DisconnectStep
  <1>7. CASE UNCHANGED vars
    <2>1. TypeOK' /\ WriterInv' /\ ErrorInv'
      BY <1>7 DEF vars, IInv, TypeOK, WriterInv, ErrorInv
    <2>2. FramingInv'
      BY <1>7 DEF vars, IInv, FramingInv
    <2>3. BodyInv'
      BY <1>7 DEF vars, IInv, BodyInv, WholeFrames, Kind
    <2> QED BY <2>1, <2>2, <2>3 DEF IInv
  <1> QED BY <1>1, <1>2, <1>3, <1>4, <1>5, <1>6, <1>7 DEF Next, Handed, Forward

LEMMA SpecIInv == Spec => []IInv
  BY InitIInv, StepIInv, PTL DEF Spec

\* Every variable of a handler keeps its type, whatever fails on the way.
THEOREM ForwardingTypeCorrect == Spec => []TypeOK
  <1>1. IInv => TypeOK
    BY DEF IInv
  <1> QED BY <1>1, SpecIInv, PTL

\* No response carries both a Content-Length and chunks, nor announces a
\* trailer without chunks: the error handler takes back what the failed answer
\* framed, and a request that gets trailers never gets a length.
THEOREM FramingAlwaysAgrees == Spec => []FramingAgrees
  <1>1. IInv => FramingAgrees
    BY DEF IInv, FramingInv, Framed, FramingAgrees
  <1> QED BY <1>1, SpecIInv, PTL

\* However long a stream is, whichever write fails and whenever the client
\* leaves, its body is whole frames with the messages in order, and an answer,
\* an error or a plain text ends a body.
THEOREM FramesAlwaysWhole == Spec => []WholeFrames
  <1>1. IInv => WholeFrames
    BY DEF IInv, BodyInv
  <1> QED BY <1>1, SpecIInv, PTL

\* While the gateway waits for a message, every message it took before has
\* been written with its delimiter, and flushed.
THEOREM NothingEverHeldBack == Spec => []NothingHeldBack
  <1>1. IInv => NothingHeldBack
    BY DEF IInv, BodyInv, NothingHeldBack
  <1> QED BY <1>1, SpecIInv, PTL

-----------------------------------------------------------------------------
(***************************************************************************)
(* ForwardResponseStream keeps StreamContract: a client sees every message   *)
(* once and in order before the next is taken, and an end that is the       *)
(* truth, for streams of any length.                                       *)
(***************************************************************************)

EndInv == pc # "done" => ended = "no"

LEMMA InitEnd == Init => EndInv
  BY DEF Init, EndInv

LEMMA StepEnd == EndInv /\ [Next]_vars => EndInv'
  <1> SUFFICES ASSUME EndInv, [Next]_vars PROVE EndInv'
    OBVIOUS
  <1> USE DEF EndInv, Return, Goto, Fail
  <1>1. CASE Handed
    BY <1>1 DEF Handed, ForwardMessage, ForwardStream, ReportError, Begin
  <1>2. CASE ForwardHead \/ ForwardBody
    BY <1>2 DEF ForwardHead, ForwardBody
  <1>3. CASE HTTPError
    BY <1>3 DEF HTTPError, RewriterFails, MarshalerFails, NilContextPanics, AnswerWithError, Fallback
  <1>4. CASE StreamHead \/ Recv
    BY <1>4 DEF StreamHead, StreamWithoutMetadata, StreamHeaders, Recv
  <1>5. CASE PrepareChunk \/ WriteChunk
    BY <1>5 DEF PrepareChunk, WriteChunk, FailedChunk
  <1>6. CASE WriteDelimiter \/ FlushChunk
    BY <1>6 DEF WriteDelimiter, FlushChunk
  <1>7. CASE HandleStreamError
    BY <1>7 DEF HandleStreamError
  <1>8. CASE Disconnect
    BY <1>8 DEF Disconnect
  <1>9. CASE UNCHANGED vars
    BY <1>9 DEF vars
  <1> QED
    BY <1>1, <1>2, <1>3, <1>4, <1>5, <1>6, <1>7, <1>8, <1>9 DEF Next, Forward, Unary, Stream

-----------------------------------------------------------------------------
(* The messages that a body shows: those of its complete frames.            *)

Numbers(b, k) == [i \in 1..k |-> b[2 * i - 1].n]

LEMMA NumbersOfPrefix ==
  ASSUME NEW b \in Seq(ElementType), NEW e \in ElementType, NEW k \in Nat, 2 * k - 1 <= Len(b)
  PROVE  Numbers(Append(b, e), k) = Numbers(b, k)
  <1>1. ASSUME NEW i \in 1..k PROVE Append(b, e)[2 * i - 1] = b[2 * i - 1]
    <2>1. 2 * i - 1 \in 1..Len(b)
      BY Len(b) \in Nat
    <2> QED BY <2>1
  <1> QED BY <1>1 DEF Numbers

LEMMA NumbersGrow ==
  ASSUME NEW b \in Seq(ElementType), NEW k \in Nat \ {0}, b[2 * k - 1].n = k
  PROVE  Numbers(b, k) = Append(Numbers(b, k - 1), k) /\ Len(Numbers(b, k - 1)) = k - 1
  <1>1. \A j \in Nat : Len(Numbers(b, j)) = j /\ DOMAIN Numbers(b, j) = 1..j
    BY DEF Numbers
  <1>2. \A i \in 1..k : Numbers(b, k)[i] = Append(Numbers(b, k - 1), k)[i]
    BY <1>1 DEF Numbers
  <1> QED BY <1>1, <1>2 DEF Numbers

LEMMA ShownDef ==
  Shown = Numbers(w.body, (Len(w.body) \div 2) - (IF ended = "reported" THEN 1 ELSE 0))
  BY DEF Shown, CompleteFrames, Numbers

-----------------------------------------------------------------------------
(* How the steps of the contract are recognised.                           *)

LEMMA IsStutter ==
  ASSUME UNCHANGED <<received, gone>>, Shown' = Shown, StreamState' = StreamState
  PROVE  UNCHANGED Contract!contractVars
  BY DEF Contract!contractVars

LEMMA IsEnd ==
  ASSUME UNCHANGED <<received, gone>>, Shown' = Shown, StreamState = "no",
         \/ StreamState' \in {"reported", "aborted"}
         \/ StreamState' = "cut" /\ gone
         \/ StreamState' = "complete" /\ Len(Shown) = received
  PROVE  Contract!Next
  BY DEF Contract!Next, Contract!Complete, Contract!Report, Contract!Abort, Contract!Cut, Contract!End

LEMMA Half ==
  ASSUME NEW n \in Nat
  PROVE  /\ (2 * n) \div 2 = n /\ (2 * n + 1) \div 2 = n
         /\ n % 2 = 0 => n \div 2 \in Nat /\ n = 2 * (n \div 2) /\ (n + 1) \div 2 = n \div 2
         /\ n <= 1 => n \div 2 = 0
  OBVIOUS

LEMMA Even ==
  ASSUME NEW n \in Nat, NEW r \in Nat, n \in {2 * r, 2 * r - 2}
  PROVE  n % 2 = 0
  OBVIOUS

\* A body that is the same, or grows from an even to an odd length, shows
\* what it showed.
LEMMA ShownKept ==
  ASSUME w.body \in Seq(ElementType), ended # "reported", ended' # "reported",
         \/ w'.body = w.body
         \/ \E e \in ElementType : w'.body = Append(w.body, e) /\ Len(w.body) % 2 = 0
  PROVE  Shown' = Shown
  <1>1. Shown = Numbers(w.body, Len(w.body) \div 2)
    BY ShownDef DEF Shown, CompleteFrames, Numbers
  <1>2. Shown' = Numbers(w'.body, Len(w'.body) \div 2)
    BY DEF Shown, CompleteFrames, Numbers
  <1>3. ASSUME NEW e \in ElementType, w'.body = Append(w.body, e), Len(w.body) % 2 = 0
        PROVE  Shown' = Shown
    <2> DEFINE k == Len(w.body) \div 2
    <2>1. Len(w.body) \in Nat /\ Len(w'.body) = Len(w.body) + 1
      BY <1>3
    <2>2. k \in Nat /\ Len(w.body) = 2 * k /\ Len(w'.body) \div 2 = k
      BY <1>3, <2>1, Half
    <2> HIDE DEF k
    <2>3. Numbers(w'.body, k) = Numbers(w.body, k)
      BY <1>3, <2>2, NumbersOfPrefix
    <2>4. Shown = Numbers(w.body, k)
      BY <1>1 DEF k
    <2> QED BY <1>2, <2>2, <2>3, <2>4
  <1>4. CASE w'.body = w.body
    BY <1>1, <1>2, <1>4
  <1> QED BY <1>3, <1>4

\* So does a body of one element at most.
LEMMA ShowsNothing ==
  ASSUME w.body = <<>>, w'.body \in Seq(ElementType), Len(w'.body) <= 1, ended # "reported", ended' # "reported"
  PROVE  Shown' = Shown
  <1>1. Shown = Numbers(w.body, 0)
    <2>1. Len(w.body) \div 2 = 0
      BY Len(w.body) = 0
    <2> QED BY <2>1 DEF Shown, CompleteFrames, Numbers
  <1>2. Shown' = Numbers(w'.body, 0)
    <2>1. Len(w'.body) \in Nat
      OBVIOUS
    <2>2. Len(w'.body) \div 2 = 0
      BY <2>1, Half
    <2>3. 0 - 0 = 0
      OBVIOUS
    <2> QED BY <2>2, <2>3 DEF Shown, CompleteFrames, Numbers
  <1> QED BY <1>1, <1>2 DEF Numbers

-----------------------------------------------------------------------------
(* The steps.                                                              *)

\* What answers a unary call is no step of the contract, except that a client
\* that left may be cut off.
LEMMA UnaryContract ==
  ASSUME IInv, EndInv, Unary
  PROVE  [Contract!Next]_(Contract!contractVars)
  <1>1. pc \in {"message", "rewrite", "error"} /\ UNCHANGED <<received, gone>>
    BY DEF Unary, ForwardHead, ForwardBody, HTTPError, streamVars
  <1>2. w.body = <<>> /\ ended = "no"
    BY <1>1 DEF IInv, BodyInv, Early, EndInv
  <1>3. IInv' /\ Len(w'.body) <= 1
    BY ForwardHeadStep, ForwardBodyStep, HTTPErrorStep DEF Unary
  <1>4. w'.body \in Seq(ElementType)
    BY <1>3 DEF IInv, WriterInv, WriterType
  <1>5. ended' \in {"no", "answered"} \/ (ended' = "cut" /\ gone)
    <2>1. CASE ForwardHead
      BY <1>2, <2>1 DEF ForwardHead, Goto, Fail
    <2>2. CASE ForwardBody
      BY <1>2, <2>2 DEF ForwardBody, Goto, Fail, Return, WriteOutcome
    <2>3. CASE HTTPError
      BY <1>2, <2>3
      DEF HTTPError, RewriterFails, MarshalerFails, NilContextPanics, AnswerWithError, Fallback,
          Return, WriteOutcome
    <2> QED BY <2>1, <2>2, <2>3 DEF Unary
  <1>6. Shown' = Shown
    BY <1>2, <1>3, <1>4, <1>5, ShowsNothing
  <1>7. CASE ended' = "cut" /\ gone
    BY <1>1, <1>2, <1>6, <1>7, IsEnd DEF StreamState
  <1>8. CASE ended' \in {"no", "answered"}
    BY <1>1, <1>2, <1>6, <1>8, IsStutter DEF StreamState
  <1> QED BY <1>5, <1>7, <1>8

LEMMA StreamHeadContract ==
  ASSUME IInv, EndInv, StreamHead
  PROVE  [Contract!Next]_(Contract!contractVars)
  <1>1. pc = "stream" /\ UNCHANGED <<received, gone>>
    BY DEF StreamHead, streamVars
  <1>2. w.body = <<>> /\ ended = "no"
    BY <1>1 DEF IInv, BodyInv, Early, EndInv
  <1>3. w'.body \in Seq(ElementType) /\ Len(w'.body) <= 1
    BY StreamHeadStep DEF IInv, WriterInv, WriterType
  <1>4. ended' \in {"no", "aborted"}
    BY <1>2 DEF StreamHead, StreamWithoutMetadata, StreamHeaders, Return, Goto, Fail
  <1>5. Shown' = Shown
    BY <1>2, <1>3, <1>4, ShowsNothing
  <1>6. CASE ended' = "aborted"
    BY <1>1, <1>2, <1>5, <1>6, IsEnd DEF StreamState
  <1>7. CASE ended' = "no"
    BY <1>1, <1>2, <1>5, <1>7, IsStutter DEF StreamState
  <1> QED BY <1>4, <1>6, <1>7

\* Everything taken is shown when the stream waits for the next message.
LEMMA RecvContract ==
  ASSUME IInv, EndInv, Recv
  PROVE  [Contract!Next]_(Contract!contractVars)
  <1>1. pc = "recv" /\ UNCHANGED <<w, gone>>
    BY DEF Recv
  <1>2. /\ ended = "no" /\ Len(w.body) = 2 * received /\ received \in Nat
        /\ w.body \in Seq(ElementType)
    BY <1>1 DEF IInv, BodyInv, EndInv, TypeOK, WriterInv, WriterType
  <1>3. Len(Shown) = received
    BY <1>2 DEF Shown, CompleteFrames
  <1>4. CASE received < MaxMessages /\ received' = received + 1 /\ Goto("chunk")
    <2>1. Shown' = Shown
      BY <1>1, <1>2, <1>4, ShownKept DEF Goto
    <2>2. Contract!Take
      BY <1>1, <1>2, <1>3, <1>4, <2>1 DEF Contract!Take, StreamState, Goto
    <2> QED BY <2>2 DEF Contract!Next
  <1>5. CASE Return("complete") /\ UNCHANGED received
    <2>1. Shown' = Shown
      BY <1>1, <1>2, <1>5, ShownKept DEF Return
    <2> QED BY <1>1, <1>2, <1>3, <1>5, <2>1, IsEnd DEF Return, StreamState
  <1>6. CASE Fail("streamError") /\ UNCHANGED received
    <2>1. Shown' = Shown
      BY <1>1, <1>2, <1>6, ShownKept DEF Fail, Goto
    <2> QED BY <1>1, <1>2, <1>6, <2>1, IsStutter DEF Fail, Goto, StreamState
  <1> QED BY <1>4, <1>5, <1>6 DEF Recv

\* Preparing and writing a chunk shows nothing: its delimiter is missing.
LEMMA ChunkContract ==
  ASSUME IInv, EndInv, PrepareChunk \/ WriteChunk
  PROVE  [Contract!Next]_(Contract!contractVars)
  <1>1. pc \in {"chunk", "write"} /\ UNCHANGED <<received, gone>>
    BY DEF PrepareChunk, WriteChunk
  <1>2. /\ ended = "no" /\ Len(w.body) = 2 * received - 2 /\ received \in Nat
        /\ w \in WriterType /\ w.body \in Seq(ElementType) /\ chunk \in ElementType
    BY <1>1 DEF IInv, BodyInv, EndInv, TypeOK, WriterInv, WriterType
  <1>3. CASE PrepareChunk
    <2>1. w'.body = w.body /\ ended' = "no"
      BY <1>2, <1>3, PrepareChunkStep DEF PrepareChunk, FailedChunk, Fail, Goto
    <2>2. Shown' = Shown
      BY <1>2, <2>1, ShownKept
    <2> QED BY <1>1, <1>2, <2>1, <2>2, IsStutter DEF StreamState
  <1>4. CASE WriteChunk
    <2>1. PICK ok \in WriteOutcome :
            /\ w' = Write(w, chunk, ok)
            /\ IF ok THEN Goto(AfterChunk) ELSE Return("cut")
      BY <1>4 DEF WriteChunk
    <2>2. ok \in BOOLEAN /\ (~ok => gone)
      BY DEF WriteOutcome
    <2>3. w'.body = IF ok THEN Append(w.body, chunk) ELSE w.body
      BY <1>2, <2>1, <2>2, WriteType
    <2>4. ended' = IF ok THEN "no" ELSE "cut"
      BY <1>2, <2>1, <2>2 DEF Goto, Return
    <2>5. Len(w.body) % 2 = 0
      BY <1>2
    <2>6. Shown' = Shown
      BY <1>2, <2>2, <2>3, <2>4, <2>5, ShownKept
    <2>7. CASE ok
      BY <1>1, <1>2, <2>4, <2>6, <2>7, IsStutter DEF StreamState
    <2>8. CASE ~ok
      BY <1>1, <1>2, <2>2, <2>4, <2>6, <2>8, IsEnd DEF StreamState
    <2> QED BY <2>7, <2>8
  <1> QED BY <1>3, <1>4

\* The delimiter is what shows the message that was taken last.
LEMMA DelimiterContract ==
  ASSUME IInv, EndInv, WriteDelimiter
  PROVE  [Contract!Next]_(Contract!contractVars)
  <1>1. pc = "delimit" /\ UNCHANGED <<received, gone>>
    BY DEF WriteDelimiter, streamVars
  <1>2. /\ ended = "no" /\ Len(w.body) = 2 * received - 1 /\ received \in Nat \ {0}
        /\ w \in WriterType /\ w.body \in Seq(ElementType)
    <2>1. Len(w.body) = 2 * received - 1 /\ w.body \in Seq(ElementType) /\ received \in Nat
      BY <1>1 DEF IInv, BodyInv, TypeOK, WriterInv, WriterType
    <2>2. Len(w.body) \in Nat
      BY <2>1
    <2> QED BY <1>1, <2>1, <2>2 DEF IInv, EndInv, WriterInv
  <1>3. PICK ok \in WriteOutcome :
          /\ w' = Write(w, Delim, ok)
          /\ IF ok THEN Goto(AfterDelimiter) ELSE Return("cut")
    BY DEF WriteDelimiter
  <1>4. ok \in BOOLEAN /\ (~ok => gone)
    BY DEF WriteOutcome
  <1>5. w'.body = IF ok THEN Append(w.body, Delim) ELSE w.body
    BY <1>2, <1>3, <1>4, DelimType, WriteType
  <1>6. ended' = IF ok THEN "no" ELSE "cut"
    BY <1>2, <1>3, <1>4 DEF Goto, Return
  <1>7. CASE ~ok
    <2>1. Shown' = Shown
      BY <1>2, <1>5, <1>6, <1>7, ShownKept
    <2> QED BY <1>1, <1>2, <1>4, <1>6, <1>7, <2>1, IsEnd DEF StreamState
  <1>8. CASE ok
    <2> DEFINE r == received
    <2>1. /\ r - 1 \in Nat /\ Len(w.body) = 2 * (r - 1) + 1
          /\ w'.body = Append(w.body, Delim) /\ Len(w'.body) = 2 * r
      BY <1>2, <1>5, <1>8
    <2>2. Len(w.body) \div 2 = r - 1 /\ Len(w'.body) \div 2 = r
      BY <1>2, <2>1, Half
    <2>3. Shown = Numbers(w.body, r - 1)
      BY <1>2, <2>1, <2>2 DEF Shown, CompleteFrames, Numbers
    <2>4. Shown' = Numbers(w'.body, r)
      <3>1. CompleteFrames' = (Len(w'.body) \div 2) - 0
        BY <1>6, <1>8 DEF CompleteFrames
      <3>2. r - 0 = r
        BY <1>2
      <3>3. CompleteFrames' = r
        BY <2>2, <3>1, <3>2, Zenon
      <3> QED BY <3>3 DEF Shown, Numbers
    <2>5. w.body[2 * r - 1].n = r
      <3>1. 2 * r - 1 \in 1..Len(w.body) /\ (2 * r - 1) % 2 # 0
        BY <1>2
      <3>2. w.body[2 * r - 1] \in ElementType
        BY <1>2, <3>1
      <3>3. w.body[2 * r - 1].kind \in {"message", "empty"}
        BY <1>1, <3>1 DEF IInv, BodyInv, WholeFrames, Kind
      <3>4. 2 * r - 1 = 2 * w.body[2 * r - 1].n - 1
        BY <3>1, <3>3 DEF IInv, BodyInv, WholeFrames, Kind
      <3> QED BY SMTT(40), <1>2, <3>2, <3>4, ErrorAssumption DEF ElementType
    <2>6. Numbers(w.body, r) = Append(Numbers(w.body, r - 1), r) /\ Len(Numbers(w.body, r - 1)) = r - 1
      BY <1>2, <2>5, NumbersGrow
    <2>7. Numbers(w'.body, r) = Numbers(w.body, r)
      BY <1>2, <2>1, DelimType, NumbersOfPrefix
    <2>8. Contract!Show
      BY <1>1, <1>2, <1>6, <1>8, <2>1, <2>3, <2>4, <2>6, <2>7 DEF Contract!Show, StreamState
    <2> QED BY <2>8 DEF Contract!Next
  <1> QED BY <1>4, <1>7, <1>8

LEMMA FlushContract ==
  ASSUME IInv, EndInv, FlushChunk
  PROVE  [Contract!Next]_(Contract!contractVars)
  <1>1. pc = "flush" /\ UNCHANGED <<received, gone>>
    BY DEF FlushChunk, streamVars
  <1>2. /\ ended = "no" /\ Len(w.body) = 2 * received /\ received \in Nat
        /\ w \in WriterType /\ w.body \in Seq(ElementType)
    BY <1>1 DEF IInv, BodyInv, EndInv, TypeOK, WriterInv, WriterType
  <1>3. CASE w' = Flush(w) /\ Goto("recv")
    <2>1. w'.body = w.body /\ ended' = "no"
      BY <1>2, <1>3 DEF Flush, Goto, WriterType
    <2>2. Shown' = Shown
      BY <1>2, <2>1, ShownKept
    <2> QED BY <1>1, <1>2, <2>1, <2>2, IsStutter DEF StreamState
  <1>4. CASE gone /\ UNCHANGED w /\ Return("cut")
    <2>1. Shown' = Shown
      BY <1>2, <1>4, ShownKept DEF Return
    <2> QED BY <1>1, <1>2, <1>4, <2>1, IsEnd DEF StreamState, Return
  <1>5. ASSUME NEW ok \in BOOLEAN, w' = TextError(w, ok), Return("aborted")
        PROVE  [Contract!Next]_(Contract!contractVars)
    <2>1. w'.body = IF ok THEN Append(w.body, Body("text")) ELSE w.body
      BY <1>2, <1>5, TextErrorType
    <2>2. Body("text") \in ElementType
      BY BodyElement DEF ElementKind
    <2>3. Len(w.body) % 2 = 0
      BY <1>2
    <2>4. Shown' = Shown
      BY <1>2, <1>5, <2>1, <2>2, <2>3, ShownKept DEF Return
    <2> QED BY <1>1, <1>2, <1>5, <2>4, IsEnd DEF StreamState, Return
  <1> QED BY <1>3, <1>4, <1>5 DEF FlushChunk, WriteOutcome

\* An error chunk is reported only with its delimiter, and is no message.
LEMMA StreamErrorContract ==
  ASSUME IInv, EndInv, HandleStreamError
  PROVE  [Contract!Next]_(Contract!contractVars)
  <1>1. pc = "streamError" /\ UNCHANGED <<received, gone>>
    BY DEF HandleStreamError, streamVars
  <1>2. ended = "no" /\ w.body \in Seq(ElementType)
    BY <1>1 DEF IInv, EndInv, WriterInv, WriterType
  <1>3. Len(w.body) \in Nat /\ Len(w.body) % 2 = 0
    <2>1. Len(w.body) \in {2 * received, 2 * received - 2} /\ received \in Nat
      BY <1>1 DEF IInv, BodyInv, TypeOK
    <2>2. Len(w.body) \in Nat
      BY <1>2
    <2>3. Len(w.body) % 2 = 0
      BY <2>1, <2>2, Even
    <2> QED BY <2>2, <2>3
  <1> DEFINE v == IF wroteHeader THEN w ELSE StreamErrorHead(w)
             e == Body("streamError")
  <1>4. v \in WriterType /\ v.body = w.body
    BY <1>1, StreamErrorHeadType
  <1>5. e \in ElementType
    BY BodyElement DEF ElementKind
  <1>6. CASE w' = v /\ Return("aborted")
    <2>1. Shown' = Shown
      BY <1>2, <1>4, <1>6, ShownKept DEF Return
    <2> QED BY <1>1, <1>2, <1>6, <2>1, IsEnd DEF StreamState, Return
  <1>7. ASSUME NEW ok \in WriteOutcome, NEW delimited \in WriteOutcome,
               w' = IF ok THEN Write(Write(v, e, ok), Delim, delimited) ELSE Write(v, e, ok),
               Return(IF ok /\ delimited THEN "reported" ELSE "cut")
        PROVE  Contract!Next
    <2>1. ok \in BOOLEAN /\ delimited \in BOOLEAN /\ ((ok /\ delimited) \/ gone)
      BY DEF WriteOutcome
    <2> HIDE DEF v, e
    <2>2. /\ Write(v, e, ok) \in WriterType
          /\ Write(v, e, ok).body = IF ok THEN Append(w.body, e) ELSE w.body
      BY <1>4, <1>5, <2>1, WriteType
    <2>3. ok => w'.body = IF delimited THEN Append(Append(w.body, e), Delim) ELSE Append(w.body, e)
      <3> DEFINE b == Write(v, e, ok)
      <3>1. Write(b, Delim, delimited).body = IF delimited THEN Append(b.body, Delim) ELSE b.body
        BY <2>1, <2>2, DelimType, WriteType
      <3> QED BY <1>7, <2>2, <3>1
    <2>4. ~ok => w'.body = w.body
      BY <1>7, <2>2
    <2>5. CASE ~(ok /\ delimited)
      <3>1. ended' = "cut" /\ gone
        BY <1>7, <2>1, <2>5 DEF Return
      <3>2. Shown' = Shown
        BY <1>2, <1>3, <1>5, <2>1, <2>3, <2>4, <2>5, <3>1, ShownKept
      <3> QED BY <1>1, <1>2, <3>1, <3>2, IsEnd DEF StreamState
    <2>6. CASE ok /\ delimited
      <3> DEFINE k == Len(w.body) \div 2
                 a == Append(w.body, e)
      <3>1. ended' = "reported" /\ w'.body = Append(a, Delim)
        BY <1>7, <2>3, <2>6 DEF Return
      <3>2. k \in Nat /\ Len(w.body) = 2 * k
        BY <1>3, Half
      <3>3. a \in Seq(ElementType) /\ Len(a) = Len(w.body) + 1
        BY <1>2, <1>5
      <3>4. Shown = Numbers(w.body, k)
        BY <1>2, <3>2 DEF Shown, CompleteFrames, Numbers
      <3> HIDE DEF k, a
      <3>5. Numbers(a, k) = Numbers(w.body, k)
        BY <1>2, <1>5, <3>2, NumbersOfPrefix DEF a
      <3>6. Numbers(Append(a, Delim), k) = Numbers(a, k)
        BY <3>2, <3>3, DelimType, NumbersOfPrefix
      <3>7. Len(w'.body) = 2 * (k + 1) /\ k + 1 \in Nat
        BY SMTT(40), <3>1, <3>2, <3>3
      <3>8. Len(w'.body) \div 2 = k + 1
        BY <3>7, Half
      <3>9. CompleteFrames' = k
        BY <3>1, <3>2, <3>8 DEF CompleteFrames
      <3>10. Shown' = Numbers(w'.body, k)
        BY <3>9 DEF Shown, Numbers
      <3>11. Shown' = Shown
        BY <3>1, <3>4, <3>5, <3>6, <3>10
      <3> QED BY <1>1, <1>2, <3>1, <3>11, IsEnd DEF StreamState
    <2> QED BY <2>5, <2>6
  <1> QED BY <1>6, <1>7 DEF HandleStreamError

LEMMA StepContract == IInv /\ EndInv /\ [Next]_vars => [Contract!Next]_(Contract!contractVars)
  <1> SUFFICES ASSUME IInv, EndInv, [Next]_vars PROVE [Contract!Next]_(Contract!contractVars)
    OBVIOUS
  <1>1. CASE Handed
    <2>1. UNCHANGED <<w, received, gone, ended>>
      BY <1>1 DEF Handed, ForwardMessage, ForwardStream, ReportError, Begin, Goto, streamVars
    <2> QED BY <2>1 DEF Contract!contractVars, Shown, CompleteFrames, StreamState
  <1>2. CASE Disconnect
    <2>1. gone = FALSE /\ gone' = TRUE /\ UNCHANGED <<w, received, ended>>
      BY <1>2 DEF Disconnect, IInv, TypeOK
    <2>2. Shown' = Shown /\ StreamState' = StreamState
      BY <2>1 DEF Shown, CompleteFrames, StreamState
    <2> QED BY <2>1, <2>2 DEF Contract!Next, Contract!Leave
  <1>3. CASE Unary
    BY <1>3, UnaryContract
  <1>4. CASE Stream
    BY <1>4, StreamHeadContract, RecvContract, ChunkContract, DelimiterContract, FlushContract,
       StreamErrorContract DEF Stream
  <1>5. CASE UNCHANGED vars
    <2>1. UNCHANGED <<w, received, gone, ended>>
      BY <1>5 DEF vars
    <2> QED BY <2>1 DEF Contract!contractVars, Shown, CompleteFrames, StreamState
  <1> QED BY <1>1, <1>2, <1>3, <1>4, <1>5 DEF Next, Forward

LEMMA InitContract == Init => Contract!Init
  <1> SUFFICES ASSUME Init PROVE Contract!Init
    OBVIOUS
  <1>1. Len(w.body) = 0 /\ ended = "no" /\ received = 0 /\ gone = FALSE
    BY DEF Init, FreshWriter
  <1>2. CompleteFrames = 0
    BY <1>1 DEF CompleteFrames
  <1>3. Shown = <<>>
    BY <1>2 DEF Shown
  <1> QED BY <1>1, <1>3 DEF Contract!Init, StreamState

\* Response forwarding implements the contract of a stream: whichever message,
\* write or flush fails, and whenever the client leaves, the client has been
\* shown the messages in order, each before the next is taken, and "complete"
\* is said only when all of them are shown.
THEOREM ForwardingKeepsStreamContract == Spec => KeepsStreamContract
  BY SpecIInv, InitEnd, StepEnd, InitContract, StepContract, PTL
  DEF Spec, KeepsStreamContract, Contract!Spec

-----------------------------------------------------------------------------
(***************************************************************************)
(* What an answer says of itself: its status line, its type and its          *)
(* trailers, whichever step has failed and whatever options wrote.          *)
(***************************************************************************)

NoTrailers == [k \in TrailerKey |-> 0]
InStream   == {"recv", "chunk", "write", "delimit", "flush", "streamError"}

(***************************************************************************)
(* The invariant, on top of IInv.  HeadInv says who can have written the     *)
(* status line at each step, and what the Content-Type is when the code is   *)
(* about to write it; TrailerInv what is announced and what was promised.    *)
(***************************************************************************)
HeadInv ==
  /\ pc \in {"idle", "message", "stream"} => ~Sent(w) /\ w.header.type = NoType
  /\ pc \in {"rewrite", "error"} /\ Sent(w) => OptionWrote
  /\ pc = "rewrite" => w.header.type = "response"
  /\ pc \in Early => ~wroteHeader
  /\ pc \in InStream /\ ~wroteHeader => w.body = <<>> /\ (Sent(w) => OptionWrote)
  /\ pc \in InStream /\ wroteHeader =>
       /\ Len(w.body) > 0 /\ Sent(w)
       /\ OptionWrote \/ (w.status = OK /\ w.wire.type = "message")
  /\ pc \in {"delimit", "flush"} => wroteHeader
  /\ pc = "write" /\ ~wroteHeader => w.header.type = "message"

TrailerInv ==
  /\ pc \in Early => w.header.trailers = NoTrailers
  /\ pc \in {"idle", "message", "stream"} => w.header.announced = {}
  /\ pc = "rewrite" => w.header.announced = Promised
  /\ pc \in {"rewrite", "error"} /\ Sent(w) =>
       \/ w.wire.type = "response" /\ w.wire.announced = Promised
       \/ pc = "error" /\ w.wire.type = NoType /\ w.wire.announced = {}

DoneInv == StatusTellsOutcome /\ TypeTellsBody /\ TrailersAsAnnounced

AnswerInv == HeadInv /\ TrailerInv /\ DoneInv

-----------------------------------------------------------------------------
(***************************************************************************)
(* What the operators on a writer do to the fields the invariant is about.   *)
(***************************************************************************)

\* The first status line counts and freezes the header.
Frozen(u, v, status) ==
  IF Sent(v) THEN u.status = v.status /\ u.wire = v.wire ELSE u.status = status /\ u.wire = v.header

LEMMA WriteHeaderEffect ==
  ASSUME NEW v \in WriterType, NEW status \in Nat
  PROVE  Frozen(WriteHeader(v, status), v, status)
  BY DEF Frozen, WriteHeader, WriterType

LEMMA WriteEffect ==
  ASSUME NEW v \in WriterType, NEW e \in ElementType, NEW ok \in BOOLEAN
  PROVE  Frozen(Write(v, e, ok), v, OK)
  <1>1. OK \in Nat
    BY DEF OK
  <1>2. WriteHeader(v, OK) \in WriterType /\ Frozen(WriteHeader(v, OK), v, OK)
    BY <1>1, WriteHeaderType, WriteHeaderEffect
  <1> QED BY <1>2 DEF Frozen, Write, WriterType

SameTrailers(u, v) == u.header.trailers = v.header.trailers

LEMMA SetTypeEffect ==
  ASSUME NEW v \in WriterType, NEW t \in Types
  PROVE  SetType(v, t).header.type = t /\ SameTrailers(SetType(v, t), v)
  BY DEF SetType, WriterType, HeaderType, SameTrailers

LEMMA UnframeEffect ==
  ASSUME NEW v \in WriterType
  PROVE  Unframe(v).header.type = v.header.type /\ SameTrailers(Unframe(v), v)
  BY DEF Unframe, WriterType, HeaderType, SameTrailers

LEMMA ForwardServerMetadataEffect ==
  ASSUME NEW v \in WriterType, NEW md \in ServerMetadata
  PROVE  LET u == ForwardServerMetadata(v, md)
         IN  u.header.type = v.header.type /\ SameTrailers(u, v)
  <1> DEFINE m == [k \in HeaderKey |-> v.header.meta[k] + (IF k \in md.header \cap OutHeader THEN 1 ELSE 0)]
  <1>1. ForwardServerMetadata(v, md) = [v EXCEPT !.header = [v.header EXCEPT !.meta = m]]
    BY DEF ForwardServerMetadata
  <1> HIDE DEF m
  <1> QED BY <1>1 DEF WriterType, HeaderType, SameTrailers

LEMMA AnnounceTrailersEffect ==
  ASSUME NEW v \in WriterType, NEW md \in ServerMetadata
  PROVE  LET u == AnnounceTrailers(v, md)
         IN  /\ u.header.type = v.header.type /\ SameTrailers(u, v)
             /\ u.header.announced = v.header.announced \cup (md.trailer \cap OutTrailer)
  BY DEF AnnounceTrailers, WriterType, HeaderType, SameTrailers

\* WithMetadata announces what is promised and changes neither type nor trailers.
LEMMA WithMetadataEffect ==
  ASSUME NEW v \in WriterType, ctx \in Context, v.header.announced = {}
  PROVE  LET u == WithMetadata(v)
         IN  /\ u.header.type = v.header.type /\ SameTrailers(u, v)
             /\ u.header.announced = Promised
  <1> DEFINE t == IF HasMetadata(ctx) THEN ForwardServerMetadata(v, ctx) ELSE v
  <1>1. /\ t \in WriterType /\ t.header.type = v.header.type /\ SameTrailers(t, v)
        /\ t.header.announced = {}
    BY ForwardServerMetadataType, ForwardServerMetadataEffect DEF HasMetadata, SameTrailers, SameFraming
  <1>2. WithMetadata(v) = IF HasMetadata(ctx) /\ req.trailers THEN AnnounceTrailers(t, ctx) ELSE t
    BY DEF WithMetadata
  <1> HIDE DEF t
  <1>3. CASE HasMetadata(ctx) /\ req.trailers
    BY <1>1, <1>2, <1>3, AnnounceTrailersEffect DEF HasMetadata, SameTrailers, Promised
  <1>4. CASE ~(HasMetadata(ctx) /\ req.trailers)
    BY <1>1, <1>2, <1>4 DEF Promised
  <1> QED BY <1>3, <1>4

\* The trailers of a response that announced them all, once each.
DeliveredOnce(v) == Delivered(v) = [k \in TrailerKey |-> IF k \in v.wire.announced THEN 1 ELSE 0]

LEMMA ForwardTrailersDeliver ==
  ASSUME NEW v \in WriterType, ctx \in Context, v.header.trailers = NoTrailers,
         v.wire.announced \in {{}, Promised},
         NEW u, u = IF HasMetadata(ctx) /\ req.trailers THEN ForwardTrailers(v, ctx) ELSE v
  PROVE  DeliveredOnce(u)
  <1>1. CASE HasMetadata(ctx) /\ req.trailers
    <2> DEFINE m == [k \in TrailerKey |-> v.header.trailers[k] + (IF k \in ctx.trailer \cap OutTrailer THEN 1 ELSE 0)]
    <2>1. u = [v EXCEPT !.header = [v.header EXCEPT !.trailers = m]]
      BY <1>1 DEF ForwardTrailers
    <2>2. ASSUME NEW k \in Promised PROVE k \in TrailerKey => m[k] = 1
      BY <1>1 DEF Promised, NoTrailers
    <2> HIDE DEF m
    <2>3. u.wire = v.wire /\ u.header.trailers = m
      BY <2>1 DEF WriterType, HeaderType
    <2>4. ASSUME NEW k \in TrailerKey
          PROVE (IF k \in u.wire.announced THEN u.header.trailers[k] ELSE 0)
                  = (IF k \in u.wire.announced THEN 1 ELSE 0)
      BY <2>2, <2>3
    <2> QED BY <2>4 DEF DeliveredOnce, Delivered
  <1>2. CASE ~(HasMetadata(ctx) /\ req.trailers)
    BY <1>2 DEF DeliveredOnce, Delivered, Promised
  <1> QED BY <1>1, <1>2

\* Options write the status line or leave the writer alone.
LEMMA RunOptionsEffect ==
  ASSUME NEW v \in WriterType, NEW status \in OptionStatus
  PROVE  LET u == RunOptions(v, status)
         IN  /\ Sent(v) => u = v
             /\ ~Sent(v) /\ Sent(u) => u.status \in OptionStatus \ {0} /\ u.wire = v.header
  <1>1. status \in Nat
    BY ErrorAssumption
  <1> QED BY <1>1, WriteHeaderEffect DEF RunOptions, WriteHeader, Frozen, Sent

LEMMA TextErrorEffect ==
  ASSUME NEW v \in WriterType, NEW ok \in BOOLEAN
  PROVE  LET u == TextError(v, ok)
         IN  IF Sent(v) THEN u.status = v.status /\ u.wire = v.wire
             ELSE u.status = InternalServerError /\ u.wire.type = "text"
  <1> DEFINE t == SetType([v EXCEPT !.header.length = FALSE], "text")
             h == WriteHeader(t, InternalServerError)
  <1>1. [v EXCEPT !.header.length = FALSE] \in WriterType
    BY DEF WriterType, HeaderType
  <1>2. t \in WriterType /\ t.status = v.status /\ t.wire = v.wire /\ t.header.type = "text"
    BY <1>1, SetTypeType, SetTypeKeeps, SetTypeEffect DEF Types, SameBut, WriterType
  <1>3. TextError(v, ok) = Write(h, Body("text"), ok)
    BY DEF TextError
  <1> HIDE DEF t
  <1>4. h \in WriterType /\ Frozen(h, t, InternalServerError) /\ InternalServerError \in Nat
    BY <1>2, WriteHeaderType, WriteHeaderEffect DEF InternalServerError
  <1>5. Sent(h)
    BY <1>4 DEF Frozen, Sent, InternalServerError
  <1>6. Body("text") \in ElementType
    BY BodyElement DEF ElementKind
  <1> HIDE DEF h
  <1>7. TextError(v, ok).status = h.status /\ TextError(v, ok).wire = h.wire
    BY <1>3, <1>4, <1>5, <1>6, WriteEffect DEF Frozen
  <1> QED BY <1>2, <1>4, <1>7 DEF Frozen, Sent

\* The code of an error is never that of a success.
LEMMA StatusIsFailure ==
  ASSUME NEW code \in Nat
  PROVE  IsFailure(HTTPStatusFromCode(code)) /\ HTTPStatusFromCode(code) # 0
  <1>1. Len(StatusTable) = 17 /\ \A i \in 1..17 : StatusTable[i] \in 400..599
    BY DEF StatusTable
  <1>2. CASE code < 17
    BY <1>1, <1>2 DEF HTTPStatusFromCode, IsFailure
  <1>3. CASE ~(code < 17)
    BY <1>1, <1>3 DEF HTTPStatusFromCode, IsFailure, InternalServerError
  <1> QED BY <1>2, <1>3

-----------------------------------------------------------------------------
(***************************************************************************)
(* What is left to show of a step, by where it leads.                      *)
(***************************************************************************)

LEMMA Undone ==
  ASSUME pc' # "done"
  PROVE  DoneInv'
  BY DEF DoneInv, StatusTellsOutcome, TypeTellsBody, TrailersAsAnnounced, Answered

LEMMA AtEnd ==
  ASSUME pc' \in {"done", "panicked"}, DoneInv'
  PROVE  AnswerInv'
  BY DEF AnswerInv, HeadInv, TrailerInv, Early, InStream

LEMMA NothingWritten ==
  ASSUME pc' \in {"done", "panicked"}, w'.body = <<>>
  PROVE  AnswerInv'
  <1>1. ~Answered'
    BY DEF Answered
  <1>2. DoneInv'
    BY <1>1 DEF DoneInv, StatusTellsOutcome, TypeTellsBody, TrailersAsAnnounced
  <1> QED BY <1>2, AtEnd

\* A handler that returns after one element, or none, of a whole answer.
LEMMA WholeAnswer ==
  ASSUME pc' = "done", NEW e, w'.body \in {<<>>, Append(<<>>, e)},
         e.kind \in {"response", "error", "fallback", "text"},
         \/ OptionWrote'
         \/ /\ \/ e.kind = "response" /\ w'.status = OK
               \/ e.kind \in {"fallback", "text"} /\ w'.status = InternalServerError
               \/ e.kind = "error" /\ err'.custom = 0 /\ IsFailure(w'.status)
               \/ e.kind = "error" /\ w'.status = err'.custom
            /\ e.kind # "fallback" => w'.wire.type = e.kind,
         e.kind \in {"response", "error"} =>
           /\ w'.wire.announced = IF w'.wire.type = NoType THEN {} ELSE Promised'
           /\ DeliveredOnce(w')
  PROVE  AnswerInv'
  <1>1. CASE w'.body = <<>>
    BY <1>1, NothingWritten
  <1>2. CASE w'.body = <<e>>
    <2>1. Len(w'.body) = 1 /\ Kind(1)' = e.kind
      BY <1>2 DEF Kind
    <2>2. StatusTellsOutcome'
      BY <2>1 DEF StatusTellsOutcome
    <2>3. TypeTellsBody'
      BY <2>1 DEF TypeTellsBody
    <2>4. TrailersAsAnnounced'
      BY <2>1 DEF TrailersAsAnnounced, DeliveredOnce, Delivered
    <2> QED BY <2>2, <2>3, <2>4, AtEnd DEF DoneInv
  <1> QED BY <1>1, <1>2

\* The first element of the body of a stream that runs is a message.
LEMMA FirstIsMessage ==
  ASSUME IInv, pc \in InStream, Len(w.body) > 0
  PROVE  Kind(1) \in {"message", "empty"}
  <1>1. 1 \in 1..Len(w.body)
    BY DEF IInv, WriterInv, WriterType
  <1>2. Kind(1) \in {"message", "empty", "delim"}
    BY <1>1 DEF IInv, BodyInv, InStream
  <1>3. Kind(1) # "delim"
    BY <1>1 DEF IInv, BodyInv, WholeFrames
  <1> QED BY <1>2, <1>3

\* A stream whose first element is out returns: the head stays what it was.
LEMMA StreamReturns ==
  ASSUME IInv, AnswerInv, pc \in InStream, wroteHeader, pc' = "done",
         w'.body[1] = w.body[1], w'.status = w.status, w'.wire = w.wire
  PROVE  AnswerInv'
  <1>1. Len(w.body) > 0 /\ (OptionWrote \/ (w.status = OK /\ w.wire.type = "message"))
    BY DEF AnswerInv, HeadInv
  <1>2. Kind(1)' \in {"message", "empty"}
    BY <1>1, FirstIsMessage DEF Kind
  <1>3. OptionWrote' \/ (w'.status = OK /\ w'.wire.type = "message")
    BY <1>1 DEF OptionWrote
  <1>4. DoneInv'
    BY <1>2, <1>3 DEF DoneInv, StatusTellsOutcome, TypeTellsBody, TrailersAsAnnounced
  <1> QED BY <1>4, AtEnd

\* A stream that runs on.
LEMMA StreamRuns ==
  ASSUME AnswerInv, pc \in InStream, pc' \in InStream, wroteHeader' = wroteHeader,
         ~wroteHeader => w'.body = <<>> /\ (Sent(w') => OptionWrote'),
         wroteHeader => Len(w'.body) > 0 /\ w'.status = w.status /\ w'.wire = w.wire,
         pc' \in {"delimit", "flush"} => wroteHeader,
         pc' = "write" /\ ~wroteHeader => w'.header.type = "message"
  PROVE  AnswerInv'
  <1>1. HeadInv'
    BY DEF AnswerInv, HeadInv, InStream, Early, OptionWrote, Sent
  <1>2. TrailerInv'
    BY DEF TrailerInv, InStream, Early
  <1>3. DoneInv'
    BY Undone DEF InStream
  <1> QED BY <1>1, <1>2, <1>3 DEF AnswerInv

-----------------------------------------------------------------------------
(***************************************************************************)
(* Every step preserves the invariant: whole answers.                      *)
(***************************************************************************)

LEMMA InitAnswers == Init => AnswerInv
  <1> SUFFICES ASSUME Init PROVE AnswerInv
    OBVIOUS
  <1>1. pc = "idle" /\ ~wroteHeader /\ w = FreshWriter
    BY DEF Init
  <1>2. /\ ~Sent(w) /\ w.header.type = NoType /\ w.header.announced = {}
        /\ w.header.trailers = NoTrailers
    BY <1>1 DEF FreshWriter, EmptyHeader, Sent, NoTrailers
  <1>3. HeadInv
    BY <1>1, <1>2 DEF HeadInv, InStream
  <1>4. TrailerInv
    BY <1>1, <1>2 DEF TrailerInv
  <1>5. DoneInv
    BY <1>1 DEF DoneInv, StatusTellsOutcome, TypeTellsBody, TrailersAsAnnounced, Answered
  <1> QED BY <1>3, <1>4, <1>5 DEF AnswerInv

LEMMA BeginAnswers ==
  ASSUME AnswerInv, NEW step \in {"message", "stream", "error"}, NEW c, NEW e, Begin(step, c, e)
  PROVE  AnswerInv'
  <1>1. pc = "idle" /\ pc' = step /\ UNCHANGED <<w, wroteHeader>>
    BY DEF Begin, Goto, streamVars
  <1>2. /\ ~Sent(w) /\ w.header.type = NoType /\ w.header.announced = {}
        /\ w.header.trailers = NoTrailers /\ ~wroteHeader
    BY <1>1 DEF AnswerInv, HeadInv, TrailerInv, Early
  <1>3. HeadInv'
    BY <1>1, <1>2 DEF HeadInv, InStream
  <1>4. TrailerInv'
    BY <1>1, <1>2 DEF TrailerInv
  <1>5. DoneInv'
    BY <1>1, Undone
  <1> QED BY <1>3, <1>4, <1>5 DEF AnswerInv

LEMMA ForwardHeadAnswers ==
  ASSUME IInv, AnswerInv, ForwardHead
  PROVE  AnswerInv'
  <1>1. PICK status \in OptionStatus : w' = RunOptions(SetType(WithMetadata(w), "response"), status)
    BY DEF ForwardHead
  <1>2. pc = "message" /\ pc' \in {"rewrite", "error"} /\ UNCHANGED <<req, ctx, wroteHeader>>
    BY DEF ForwardHead, Goto, Fail, streamVars
  <1>3. /\ w \in WriterType /\ ctx \in Context /\ ~Sent(w) /\ w.header.announced = {}
        /\ w.header.trailers = NoTrailers /\ ~wroteHeader
    BY <1>2 DEF IInv, WriterInv, TypeOK, AnswerInv, HeadInv, TrailerInv, Early
  <1> DEFINE m == WithMetadata(w)
             t == SetType(m, "response")
  <1>4. m \in WriterType /\ m.status = w.status /\ m.header.announced = Promised
        /\ m.header.trailers = NoTrailers
    BY <1>3, WithMetadataType, WithMetadataEffect DEF SameBut, SameTrailers
  <1>5. /\ t \in WriterType /\ ~Sent(t) /\ t.header.type = "response"
        /\ t.header.announced = Promised /\ t.header.trailers = NoTrailers
    <2> HIDE DEF m
    <2>1. "response" \in Types
      BY DEF Types
    <2> QED BY <1>3, <1>4, <2>1, SetTypeType, SetTypeKeeps, SetTypeEffect
            DEF SameBut, SameFraming, SameTrailers, Sent
  <1>6. w' = RunOptions(t, status)
    BY <1>1
  <1> HIDE DEF m, t
  <1>7. w'.header = t.header /\ (Sent(w') => OptionWrote' /\ w'.wire = t.header)
    BY <1>5, <1>6, RunOptionsType, RunOptionsEffect, ErrorAssumption DEF SameHeader, OptionWrote
  <1>8. Promised' = Promised
    BY <1>2 DEF Promised, HasMetadata
  <1>9. HeadInv'
    BY <1>2, <1>3, <1>5, <1>7 DEF HeadInv, InStream
  <1>10. TrailerInv'
    BY <1>2, <1>5, <1>7, <1>8 DEF TrailerInv
  <1>11. DoneInv'
    BY <1>2, Undone
  <1> QED BY <1>9, <1>10, <1>11 DEF AnswerInv

\* The last write of an answer, from a writer that promises what it should.
LEMMA LastWrite ==
  ASSUME NEW v \in WriterType, NEW e \in ElementType, NEW ok \in BOOLEAN, ctx \in Context,
         v.header.trailers = NoTrailers,
         IF Sent(v) THEN v.wire.announced \in {{}, Promised} ELSE v.header.announced = Promised,
         w' = IF HasMetadata(ctx) /\ req.trailers THEN ForwardTrailers(Write(v, e, ok), ctx) ELSE Write(v, e, ok)
  PROVE  /\ Frozen(w', v, OK)
         /\ DeliveredOnce(w')
         /\ w'.body \in {v.body, Append(v.body, e)}
  <1> DEFINE b == Write(v, e, ok)
  <1>1. /\ b \in WriterType /\ b.body \in {v.body, Append(v.body, e)} /\ b.header = v.header
        /\ Frozen(b, v, OK)
    BY WriteType, WriteEffect
  <1> HIDE DEF b
  <1>2. b.wire.announced \in {{}, Promised} /\ b.header.trailers = NoTrailers
    BY <1>1 DEF Frozen
  <1>3. w' = IF HasMetadata(ctx) /\ req.trailers THEN ForwardTrailers(b, ctx) ELSE b
    BY DEF b
  <1>4. DeliveredOnce(w')
    BY <1>1, <1>2, <1>3, ForwardTrailersDeliver
  <1>5. w'.status = b.status /\ w'.wire = b.wire /\ w'.body = b.body
    BY <1>1, <1>3, ForwardTrailersType DEF HasMetadata, SameBut
  <1> QED BY <1>1, <1>4, <1>5 DEF Frozen

LEMMA ForwardBodyAnswers ==
  ASSUME IInv, AnswerInv, ForwardBody
  PROVE  AnswerInv'
  <1>1. pc = "rewrite" /\ UNCHANGED <<req, ctx, wroteHeader>>
    BY DEF ForwardBody, streamVars
  <1>2. Promised' = Promised
    BY <1>1 DEF Promised, HasMetadata
  <1>3. /\ w \in WriterType /\ ctx \in Context /\ w.body = <<>> /\ ~wroteHeader
        /\ w.header.type = "response" /\ w.header.announced = Promised
        /\ w.header.trailers = NoTrailers
        /\ Sent(w) => OptionWrote /\ w.wire.type = "response" /\ w.wire.announced = Promised
    BY <1>1 DEF IInv, WriterInv, TypeOK, BodyInv, AnswerInv, HeadInv, TrailerInv, Early
  <1>4. CASE Fail("error") /\ UNCHANGED w
    <2>1. pc' = "error"
      BY <1>4 DEF Fail, Goto
    <2>2. HeadInv'
      BY <1>1, <1>3, <1>4, <2>1 DEF HeadInv, InStream, OptionWrote
    <2>3. TrailerInv'
      BY <1>2, <1>3, <1>4, <2>1 DEF TrailerInv
    <2> QED BY <2>1, <2>2, <2>3, Undone DEF AnswerInv
  <1>5. ASSUME NEW ok \in BOOLEAN, NEW v, v = [w EXCEPT !.header.length = HasLength],
               w' = IF HasMetadata(ctx) /\ req.trailers
                    THEN ForwardTrailers(Write(v, Body("response"), ok), ctx)
                    ELSE Write(v, Body("response"), ok),
               Return(IF ok THEN "answered" ELSE "cut")
        PROVE  AnswerInv'
    <2>1. HasLength \in BOOLEAN
      BY DEF IInv, HasLength, TypeOK
    <2>2. /\ v \in WriterType /\ v.body = <<>> /\ v.status = w.status /\ v.wire = w.wire
          /\ v.header.type = "response" /\ v.header.announced = Promised
          /\ v.header.trailers = NoTrailers
      BY <1>3, <1>5, <2>1 DEF WriterType, HeaderType
    <2>3. Body("response") \in ElementType /\ Body("response").kind = "response"
      BY BodyElement DEF ElementKind
    <2>4. Frozen(w', v, OK) /\ DeliveredOnce(w') /\ w'.body \in {<<>>, Append(<<>>, Body("response"))}
      BY <1>3, <1>5, <2>2, <2>3, LastWrite DEF Sent
    <2>5. /\ OptionWrote' \/ w'.status = OK
          /\ w'.wire.type = "response" /\ w'.wire.announced = Promised
      BY <1>3, <2>2, <2>4 DEF Frozen, Sent, OptionWrote
    <2>6. pc' = "done"
      BY <1>5 DEF Return
    <2> QED BY <1>2, <2>3, <2>4, <2>5, <2>6, WholeAnswer, TypeAssumption
  <1>6. WriteOutcome \subseteq BOOLEAN
    BY DEF WriteOutcome
  <1> QED BY <1>4, <1>5, <1>6 DEF ForwardBody

\* The text that stands for an error no rewriter or marshaler can express.
LEMMA FallbackAnswers ==
  ASSUME IInv, AnswerInv, pc = "error", NEW v \in WriterType, SameBut(v, w), Fallback(v)
  PROVE  AnswerInv'
  <1> PICK ok \in BOOLEAN : /\ w' = Write(WriteHeader(v, InternalServerError), Body("fallback"), ok)
                            /\ Return(IF ok THEN "answered" ELSE "cut")
    BY DEF Fallback, WriteOutcome
  <1> DEFINE h == WriteHeader(v, InternalServerError)
  <1>1. /\ h \in WriterType /\ h.body = v.body /\ Frozen(h, v, InternalServerError)
    BY WriteHeaderType, WriteHeaderEffect DEF InternalServerError
  <1>2. Body("fallback") \in ElementType /\ Body("fallback").kind = "fallback"
    BY BodyElement DEF ElementKind
  <1>3. w' = Write(h, Body("fallback"), ok)
    OBVIOUS
  <1> HIDE DEF h
  <1>4. w'.body \in {h.body, Append(h.body, Body("fallback"))} /\ Frozen(w', h, OK)
    <2>1. w'.body = IF ok THEN Append(h.body, Body("fallback")) ELSE h.body
      BY <1>1, <1>2, <1>3, WriteType
    <2>2. Frozen(w', h, OK)
      BY <1>1, <1>2, <1>3, WriteEffect
    <2> QED BY <2>1, <2>2
  <1>5. w.body = <<>> /\ (Sent(w) => OptionWrote)
    BY DEF IInv, BodyInv, Early, AnswerInv, HeadInv
  <1>6. w'.body \in {<<>>, Append(<<>>, Body("fallback"))}
    BY <1>1, <1>4, <1>5 DEF SameBut
  <1>7. OptionWrote' \/ w'.status = InternalServerError
    BY <1>1, <1>4, <1>5 DEF Frozen, Sent, SameBut, OptionWrote, InternalServerError
  <1>8. pc' = "done"
    BY DEF Return
  <1> QED BY <1>2, <1>6, <1>7, <1>8, WholeAnswer

LEMMA HTTPErrorAnswers ==
  ASSUME IInv, AnswerInv, HTTPError
  PROVE  AnswerInv'
  <1>1. pc = "error" /\ UNCHANGED <<req, ctx, err>>
    BY DEF HTTPError
  <1>2. Promised' = Promised
    BY <1>1 DEF Promised, HasMetadata
  <1> DEFINE u == Unframe(w)
             t == SetType(u, "error")
  <1>3. u \in WriterType /\ SameBut(u, w) /\ u.header.announced = {} /\ SameTrailers(u, w)
    BY UnframeType, UnframeEffect DEF IInv, WriterInv
  <1>4. /\ t \in WriterType /\ SameBut(t, w) /\ t.header.announced = {} /\ SameTrailers(t, w)
        /\ t.header.type = "error"
    <2> HIDE DEF u
    <2>1. "error" \in Types
      BY DEF Types
    <2> QED BY <1>3, <2>1, SetTypeType, SetTypeKeeps, SetTypeEffect
            DEF SameBut, SameFraming, SameTrailers
  <1>5. CASE RewriterFails
    <2>1. Fallback(u)
      BY <1>5 DEF RewriterFails
    <2> HIDE DEF u
    <2> QED BY <2>1, <1>1, <1>3, FallbackAnswers
  <1>6. CASE MarshalerFails
    <2>1. Fallback(t)
      BY <1>6 DEF MarshalerFails
    <2> HIDE DEF t
    <2> QED BY <2>1, <1>1, <1>4, FallbackAnswers
  <1>7. CASE NilContextPanics
    <2>1. pc' = "panicked"
      BY <1>7 DEF NilContextPanics
    <2> QED BY <2>1, Undone, AtEnd
  <1>8. CASE AnswerWithError
    <2> DEFINE m == WithMetadata(t)
               h == WriteHeader(m, ErrorStatus(err))
    <2>1. PICK ok \in BOOLEAN :
            /\ w' = IF HasMetadata(ctx) /\ req.trailers
                    THEN ForwardTrailers(Write(h, Body("error"), ok), ctx)
                    ELSE Write(h, Body("error"), ok)
            /\ Return(IF ok THEN "answered" ELSE "cut")
      BY <1>8 DEF AnswerWithError, WriteOutcome
    <2>2. /\ ctx \in Context /\ w.body = <<>> /\ w.header.trailers = NoTrailers
          /\ Sent(w) => OptionWrote
          /\ Sent(w) => \/ w.wire.type = "response" /\ w.wire.announced = Promised
                        \/ w.wire.type = NoType /\ w.wire.announced = {}
      BY <1>1 DEF IInv, TypeOK, BodyInv, Early, AnswerInv, HeadInv, TrailerInv
    <2>3. /\ ErrorStatus(err) \in Nat /\ ErrorStatus(err) # 0
          /\ \/ err.custom = 0 /\ IsFailure(ErrorStatus(err))
             \/ ErrorStatus(err) = err.custom
      <3>1. err \in Error
        BY <1>1 DEF IInv, ErrorInv
      <3>2. err.code \in Nat /\ err.custom \in Nat
        BY <3>1, ErrorAssumption
      <3> QED BY <3>2, StatusType, StatusIsFailure DEF ErrorStatus
    <2>4. /\ m \in WriterType /\ SameBut(m, w) /\ m.header.announced = Promised
          /\ m.header.trailers = NoTrailers /\ m.header.type = "error"
      <3> HIDE DEF t
      <3> QED BY <1>4, <2>2, WithMetadataType, WithMetadataEffect DEF SameBut, SameTrailers
    <2>5. h \in WriterType /\ h.body = m.body /\ h.header = m.header /\ Frozen(h, m, ErrorStatus(err))
      <3> HIDE DEF m
      <3> QED BY <2>3, <2>4, WriteHeaderType, WriteHeaderEffect
    <2> HIDE DEF h, m, t, u
    <2>6. /\ Sent(h) /\ h.body = <<>> /\ h.header.trailers = NoTrailers
          /\ h.wire.announced = IF h.wire.type = NoType THEN {} ELSE Promised
          /\ \/ h.status \in OptionStatus \ {0}
             \/ h.status = ErrorStatus(err) /\ h.wire.type = "error"
      BY <2>2, <2>3, <2>4, <2>5, TypeAssumption DEF Frozen, Sent, SameBut, OptionWrote
    <2>7. Body("error") \in ElementType /\ Body("error").kind = "error"
      BY BodyElement DEF ElementKind
    <2>8. Frozen(w', h, OK) /\ DeliveredOnce(w') /\ w'.body \in {<<>>, Append(<<>>, Body("error"))}
      BY <2>1, <2>2, <2>5, <2>6, <2>7, LastWrite
    <2>9. /\ w'.wire.announced = IF w'.wire.type = NoType THEN {} ELSE Promised'
          /\ OptionWrote' \/ (w'.status = ErrorStatus(err) /\ w'.wire.type = "error")
      BY <1>2, <2>6, <2>8 DEF Frozen, OptionWrote
    <2>10. pc' = "done"
      BY <2>1 DEF Return
    <2> QED BY <1>1, <2>3, <2>7, <2>8, <2>9, <2>10, WholeAnswer
  <1> QED BY <1>5, <1>6, <1>7, <1>8 DEF HTTPError

-----------------------------------------------------------------------------
(***************************************************************************)
(* Every step preserves the invariant: streams.                            *)
(***************************************************************************)

LEMMA StreamHeadAnswers ==
  ASSUME IInv, AnswerInv, StreamHead
  PROVE  AnswerInv'
  <1>1. pc = "stream" /\ UNCHANGED wroteHeader
    BY DEF StreamHead, streamVars
  <1>2. /\ w \in WriterType /\ w.body = <<>> /\ ~wroteHeader /\ ~Sent(w)
        /\ w.header.type = NoType /\ w.header.announced = {} /\ w.header.trailers = NoTrailers
    BY <1>1 DEF IInv, WriterInv, BodyInv, Early, AnswerInv, HeadInv, TrailerInv
  <1>3. CASE StreamWithoutMetadata
    <2>1. PICK ok \in BOOLEAN : w' = TextError(w, ok)
      BY <1>3 DEF StreamWithoutMetadata, WriteOutcome
    <2>2. /\ w'.body \in {<<>>, Append(<<>>, Body("text"))}
          /\ w'.status = InternalServerError /\ w'.wire.type = "text"
      <3>1. w'.body \in {<<>>, Append(<<>>, Body("text"))}
        BY <1>2, <2>1, TextErrorType
      <3>2. w'.status = InternalServerError /\ w'.wire.type = "text"
        BY <1>2, <2>1, TextErrorEffect
      <3> QED BY <3>1, <3>2
    <2>3. Body("text").kind = "text"
      BY BodyElement DEF ElementKind
    <2>4. pc' = "done"
      BY <1>3 DEF StreamWithoutMetadata, Return
    <2> QED BY <2>2, <2>3, <2>4, WholeAnswer
  <1>4. CASE StreamHeaders
    <2> DEFINE m == ForwardServerMetadata(w, ctx)
               c == [m EXCEPT !.header.chunked = TRUE]
    <2>1. PICK status \in OptionStatus : w' = RunOptions(c, status)
      BY <1>4 DEF StreamHeaders
    <2>2. /\ m \in WriterType /\ SameBut(m, w) /\ SameFraming(m, w)
          /\ m.header.type = w.header.type /\ SameTrailers(m, w)
      BY <1>2, <1>4, ForwardServerMetadataType, ForwardServerMetadataEffect DEF StreamHeaders, HasMetadata
    <2>3. /\ c \in WriterType /\ SameBut(c, m) /\ c.header.type = m.header.type
          /\ SameTrailers(c, m) /\ c.header.announced = m.header.announced
      <3> HIDE DEF m
      <3> QED BY <2>2 DEF WriterType, HeaderType, SameBut, SameTrailers
    <2> HIDE DEF m, c
    <2>4. /\ ~Sent(c) /\ c.body = <<>> /\ c.header.type = NoType
          /\ c.header.announced = {} /\ c.header.trailers = NoTrailers
      BY <1>2, <2>2, <2>3 DEF SameBut, SameFraming, SameTrailers, Sent
    <2>5. /\ w'.header = c.header /\ w'.body = <<>>
          /\ Sent(w') => OptionWrote' /\ w'.wire = c.header
      BY <2>1, <2>3, <2>4, RunOptionsType, RunOptionsEffect, ErrorAssumption DEF SameHeader, OptionWrote
    <2>6. pc' \in {"recv", "error"}
      BY <1>4 DEF StreamHeaders, Goto, Fail
    <2>7. HeadInv'
      BY <1>1, <1>2, <2>5, <2>6 DEF HeadInv
    <2>8. TrailerInv'
      BY <2>4, <2>5, <2>6 DEF TrailerInv, Early
    <2> QED BY <2>6, <2>7, <2>8, Undone DEF AnswerInv
  <1> QED BY <1>3, <1>4 DEF StreamHead

\* What is known of a stream that runs.
LEMMA Running ==
  ASSUME IInv, AnswerInv, pc \in InStream
  PROVE  /\ w \in WriterType
         /\ ~wroteHeader => w.body = <<>> /\ (Sent(w) => OptionWrote)
         /\ wroteHeader => Len(w.body) > 0 /\ Sent(w)
         /\ pc \in {"delimit", "flush"} => wroteHeader
  BY DEF IInv, WriterInv, AnswerInv, HeadInv

LEMMA RecvAnswers ==
  ASSUME IInv, AnswerInv, Recv
  PROVE  AnswerInv'
  <1>1. pc = "recv" /\ pc \in InStream /\ UNCHANGED <<w, wroteHeader>>
    BY DEF Recv, InStream
  <1>2. pc' \in {"chunk", "streamError", "done"}
    BY DEF Recv, Return, Goto, Fail
  <1>3. /\ ~wroteHeader => w.body = <<>> /\ (Sent(w) => OptionWrote)
        /\ wroteHeader => Len(w.body) > 0
    BY <1>1, Running
  <1>4. CASE pc' = "done"
    <2>1. CASE wroteHeader
      BY <1>1, <1>4, <2>1, StreamReturns
    <2>2. CASE ~wroteHeader
      BY <1>1, <1>3, <1>4, <2>2, NothingWritten
    <2> QED BY <2>1, <2>2
  <1>5. CASE pc' # "done"
    <2>1. pc' \in InStream /\ pc' \notin {"delimit", "flush", "write"}
      BY <1>2, <1>5 DEF InStream
    <2> QED BY <1>1, <1>3, <2>1, StreamRuns DEF OptionWrote
  <1> QED BY <1>4, <1>5

LEMMA PrepareChunkAnswers ==
  ASSUME IInv, AnswerInv, PrepareChunk
  PROVE  AnswerInv'
  <1>1. pc = "chunk" /\ pc \in InStream /\ UNCHANGED wroteHeader
    BY DEF PrepareChunk, InStream
  <1>2. /\ w \in WriterType
        /\ ~wroteHeader => w.body = <<>> /\ (Sent(w) => OptionWrote)
        /\ wroteHeader => Len(w.body) > 0 /\ Sent(w)
    BY <1>1, Running
  <1>3. PICK status \in OptionStatus :
          LET v == RunOptions(w, status)
              t == IF wroteHeader THEN v ELSE SetType(v, "message")
          IN \/ w' = v /\ FailedChunk
             \/ w' = t /\ FailedChunk
             \/ w' = t /\ Goto("write")
    BY DEF PrepareChunk
  <1> DEFINE v == RunOptions(w, status)
             t == IF wroteHeader THEN v ELSE SetType(v, "message")
  <1>4. /\ v \in WriterType /\ v.body = w.body
        /\ Sent(w) => v = w
        /\ ~Sent(w) /\ Sent(v) => v.status \in OptionStatus \ {0}
    BY <1>2, RunOptionsType, RunOptionsEffect, ErrorAssumption DEF SameHeader
  <1> HIDE DEF v
  <1>5. /\ SameBut(t, v) /\ (wroteHeader => t = v) /\ (~wroteHeader => t.header.type = "message")
    BY <1>4, SetTypeKeeps, SetTypeEffect DEF Types, SameBut
  <1>6. pc' \in {"streamError", "write"} /\ w' \in {v, t} /\ (pc' = "write" => w' = t)
    BY <1>3 DEF FailedChunk, Goto, Fail, v
  <1> HIDE DEF t
  <1>7. ~wroteHeader => w'.body = <<>> /\ (Sent(w') => OptionWrote')
    BY <1>2, <1>4, <1>5, <1>6 DEF SameBut, Sent, OptionWrote
  <1>8. wroteHeader => w' = w
    BY <1>2, <1>4, <1>5, <1>6
  <1>9. pc' = "write" /\ ~wroteHeader => w'.header.type = "message"
    BY <1>5, <1>6
  <1>10. pc' \in InStream /\ pc' \notin {"delimit", "flush"}
    BY <1>6 DEF InStream
  <1> QED BY <1>1, <1>2, <1>7, <1>8, <1>9, <1>10, StreamRuns

\* A write behind the first one, with status line and header long sent.
LEMMA LaterWrite ==
  ASSUME NEW v \in WriterType, Sent(v), NEW e \in ElementType, NEW ok \in BOOLEAN
  PROVE  LET u == Write(v, e, ok)
         IN  /\ u \in WriterType /\ u.status = v.status /\ u.wire = v.wire
             /\ u.body = IF ok THEN Append(v.body, e) ELSE v.body
             /\ Len(v.body) > 0 => Len(u.body) > 0 /\ u.body[1] = v.body[1]
  <1>1. /\ Write(v, e, ok) \in WriterType
        /\ Write(v, e, ok).body = IF ok THEN Append(v.body, e) ELSE v.body
        /\ Write(v, e, ok).status = v.status /\ Write(v, e, ok).wire = v.wire
    BY WriteType, WriteEffect DEF Frozen
  <1>2. v.body \in Seq(ElementType)
    BY DEF WriterType
  <1>3. Len(v.body) > 0 => Len(Append(v.body, e)) > 0 /\ Append(v.body, e)[1] = v.body[1]
    BY <1>2
  <1> QED BY <1>1, <1>3

LEMMA WriteChunkAnswers ==
  ASSUME IInv, AnswerInv, WriteChunk
  PROVE  AnswerInv'
  <1>1. pc = "write" /\ pc \in InStream
    BY DEF WriteChunk, InStream
  <1>2. PICK ok \in BOOLEAN :
          /\ w' = Write(w, chunk, ok)
          /\ wroteHeader' = (wroteHeader \/ ok)
          /\ IF ok THEN Goto("delimit") ELSE Return("cut")
    BY DEF WriteChunk, WriteOutcome, AfterChunk
  <1>3. /\ w \in WriterType /\ chunk \in ElementType
        /\ ~wroteHeader => w.body = <<>> /\ (Sent(w) => OptionWrote) /\ w.header.type = "message"
        /\ wroteHeader => Len(w.body) > 0 /\ Sent(w)
    BY <1>1, Running DEF IInv, WriterInv, AnswerInv, HeadInv
  <1>4. CASE wroteHeader
    <2>1. w'.status = w.status /\ w'.wire = w.wire /\ Len(w'.body) > 0 /\ w'.body[1] = w.body[1]
      BY <1>2, <1>3, <1>4, LaterWrite
    <2>2. CASE ok
      <3>1. pc' = "delimit" /\ pc' \in InStream /\ wroteHeader'
        BY <1>2, <1>4, <2>2 DEF Goto, InStream
      <3>2. wroteHeader \in BOOLEAN /\ wroteHeader' \in BOOLEAN
        BY <1>2 DEF IInv, TypeOK
      <3>3. wroteHeader' = wroteHeader
        BY <1>4, <3>1, <3>2
      <3> QED BY <1>1, <1>4, <2>1, <3>1, <3>3, StreamRuns
    <2>3. CASE ~ok
      <3>1. pc' = "done"
        BY <1>2, <2>3 DEF Return
      <3> QED BY <1>1, <1>4, <2>1, <3>1, StreamReturns
    <2> QED BY <2>2, <2>3
  <1>5. CASE ~wroteHeader
    <2>1. /\ Frozen(w', w, OK)
          /\ w'.body = IF ok THEN Append(w.body, chunk) ELSE w.body
      BY <1>2, <1>3, WriteType, WriteEffect
    <2>2. CASE ok
      <3>1. pc' = "delimit" /\ wroteHeader'
        BY <1>2, <2>2 DEF Goto
      <3>2. Len(w'.body) > 0
        BY <1>3, <1>5, <2>1, <2>2
      <3>3. Sent(w') /\ (OptionWrote' \/ (w'.status = OK /\ w'.wire.type = "message"))
        BY <1>3, <1>5, <2>1 DEF Frozen, Sent, OptionWrote, OK
      <3>4. HeadInv'
        BY <3>1, <3>2, <3>3 DEF HeadInv, Early, InStream
      <3>5. TrailerInv'
        BY <3>1 DEF TrailerInv, Early
      <3> QED BY <3>1, <3>4, <3>5, Undone DEF AnswerInv
    <2>3. CASE ~ok
      <3>1. pc' = "done"
        BY <1>2, <2>3 DEF Return
      <3> QED BY <1>3, <1>5, <2>1, <2>3, <3>1, NothingWritten
    <2> QED BY <2>2, <2>3
  <1> QED BY <1>4, <1>5

LEMMA WriteDelimiterAnswers ==
  ASSUME IInv, AnswerInv, WriteDelimiter
  PROVE  AnswerInv'
  <1>1. pc = "delimit" /\ pc \in InStream /\ UNCHANGED wroteHeader
    BY DEF WriteDelimiter, streamVars, InStream
  <1>2. PICK ok \in BOOLEAN :
          /\ w' = Write(w, Delim, ok)
          /\ IF ok THEN Goto("flush") ELSE Return("cut")
    BY DEF WriteDelimiter, WriteOutcome, AfterDelimiter
  <1>3. w \in WriterType /\ wroteHeader /\ Len(w.body) > 0 /\ Sent(w)
    BY <1>1, Running
  <1>4. w'.status = w.status /\ w'.wire = w.wire /\ Len(w'.body) > 0 /\ w'.body[1] = w.body[1]
    BY <1>2, <1>3, DelimType, LaterWrite
  <1>5. pc' \in {"flush", "done"}
    BY <1>2 DEF Goto, Return
  <1> QED BY <1>1, <1>3, <1>4, <1>5, StreamRuns, StreamReturns DEF InStream

LEMMA FlushChunkAnswers ==
  ASSUME IInv, AnswerInv, FlushChunk
  PROVE  AnswerInv'
  <1>1. pc = "flush" /\ pc \in InStream /\ UNCHANGED wroteHeader
    BY DEF FlushChunk, streamVars, InStream
  <1>2. w \in WriterType /\ wroteHeader /\ Len(w.body) > 0 /\ Sent(w)
    BY <1>1, Running
  <1>3. \/ w' = Flush(w) /\ Goto("recv")
        \/ UNCHANGED w /\ Return("cut")
        \/ \E ok \in BOOLEAN : w' = TextError(w, ok) /\ Return("aborted")
    BY DEF FlushChunk, WriteOutcome
  <1>4. pc' \in {"recv", "done"}
    BY <1>3 DEF Goto, Return
  <1>5. w'.status = w.status /\ w'.wire = w.wire /\ Len(w'.body) > 0 /\ w'.body[1] = w.body[1]
    <2>1. CASE w' = Flush(w)
      BY <1>2, <2>1 DEF Flush, WriterType
    <2>2. ASSUME NEW ok \in BOOLEAN, w' = TextError(w, ok)
          PROVE  w'.status = w.status /\ w'.wire = w.wire /\ Len(w'.body) > 0 /\ w'.body[1] = w.body[1]
      <3>1. /\ w'.status = w.status /\ w'.wire = w.wire
            /\ w'.body = IF ok THEN Append(w.body, Body("text")) ELSE w.body
        BY <1>2, <2>2, TextErrorType, TextErrorEffect
      <3>2. w.body \in Seq(ElementType)
        BY <1>2 DEF WriterType
      <3> QED BY <1>2, <3>1, <3>2
    <2> QED BY <1>2, <1>3, <2>1, <2>2
  <1> QED BY <1>1, <1>2, <1>4, <1>5, StreamRuns, StreamReturns DEF InStream

\* The head of an error that nothing precedes.
LEMMA StreamErrorHeadEffect ==
  ASSUME IInv, pc = "streamError", Sent(w) => OptionWrote
  PROVE  LET v == StreamErrorHead(w)
         IN  /\ v \in WriterType /\ v.body = w.body /\ Sent(v)
             /\ \/ v.status \in OptionStatus \ {0}
                \/ IsFailure(v.status) /\ v.wire.type = "streamError"
  <1> DEFINE t == SetType(w, "streamError")
  <1>1. w \in WriterType /\ err \in Error
    BY DEF IInv, WriterInv, ErrorInv
  <1>2. t \in WriterType /\ SameBut(t, w) /\ t.header.type = "streamError"
    BY <1>1, SetTypeType, SetTypeKeeps, SetTypeEffect DEF Types
  <1>3. EarlyStatus \in Nat /\ EarlyStatus # 0 /\ IsFailure(EarlyStatus)
    <2>1. err.code \in Nat
      BY <1>1, ErrorAssumption
    <2>2. StreamCode(err) \in Nat
      BY <2>1 DEF StreamCode
    <2> QED BY <2>2, StatusType, StatusIsFailure DEF EarlyStatus
  <1>4. StreamErrorHead(w) = WriteHeader(t, EarlyStatus)
    BY DEF StreamErrorHead
  <1> HIDE DEF t
  <1>5. /\ WriteHeader(t, EarlyStatus) \in WriterType /\ WriteHeader(t, EarlyStatus).body = w.body
        /\ Frozen(WriteHeader(t, EarlyStatus), t, EarlyStatus)
    BY <1>2, <1>3, WriteHeaderType, WriteHeaderEffect DEF SameBut
  <1> QED BY <1>2, <1>3, <1>4, <1>5 DEF Frozen, Sent, SameBut, OptionWrote

LEMMA HandleStreamErrorAnswers ==
  ASSUME IInv, AnswerInv, HandleStreamError
  PROVE  AnswerInv'
  <1>1. pc = "streamError" /\ pc \in InStream /\ UNCHANGED err
    BY DEF HandleStreamError, InStream
  <1>2. /\ w \in WriterType
        /\ ~wroteHeader => w.body = <<>> /\ (Sent(w) => OptionWrote)
        /\ wroteHeader => Len(w.body) > 0 /\ Sent(w)
    BY <1>1, Running
  <1> DEFINE v == IF wroteHeader THEN w ELSE StreamErrorHead(w)
             e == Body("streamError")
  <1>3. /\ v \in WriterType /\ v.body = w.body /\ Sent(v)
        /\ ~wroteHeader => \/ v.status \in OptionStatus \ {0}
                           \/ IsFailure(v.status) /\ v.wire.type = "streamError"
    BY <1>1, <1>2, StreamErrorHeadEffect
  <1>4. \/ w' = v /\ Return("aborted")
        \/ \E ok, delimited \in BOOLEAN :
             /\ w' = IF ok THEN Write(Write(v, e, ok), Delim, delimited) ELSE Write(v, e, ok)
             /\ Return(IF ok /\ delimited THEN "reported" ELSE "cut")
    BY DEF HandleStreamError, WriteOutcome
  <1>5. e \in ElementType /\ e.kind = "streamError"
    BY BodyElement DEF ElementKind
  <1> HIDE DEF v, e
  <1>6. pc' = "done"
    BY <1>4 DEF Return
  <1>7. /\ w'.status = v.status /\ w'.wire = v.wire
        /\ w'.body \in {w.body, Append(w.body, e), Append(Append(w.body, e), Delim)}
    <2>1. ASSUME NEW ok \in BOOLEAN, NEW delimited \in BOOLEAN,
                 w' = IF ok THEN Write(Write(v, e, ok), Delim, delimited) ELSE Write(v, e, ok)
          PROVE  /\ w'.status = v.status /\ w'.wire = v.wire
                 /\ w'.body \in {w.body, Append(w.body, e), Append(Append(w.body, e), Delim)}
      <3> DEFINE b == Write(v, e, ok)
      <3>1. /\ b \in WriterType /\ b.status = v.status /\ b.wire = v.wire /\ Sent(b)
            /\ b.body = IF ok THEN Append(w.body, e) ELSE w.body
        BY <1>3, <1>5, LaterWrite DEF Sent
      <3>2. w' = IF ok THEN Write(b, Delim, delimited) ELSE b
        BY <2>1
      <3> HIDE DEF b
      <3>3. LET d == Write(b, Delim, delimited)
            IN  d.status = b.status /\ d.wire = b.wire
                /\ d.body = IF delimited THEN Append(b.body, Delim) ELSE b.body
        BY <3>1, DelimType, LaterWrite
      <3> QED BY <3>1, <3>2, <3>3
    <2> QED BY <1>3, <1>4, <2>1
  <1>8. CASE wroteHeader
    <2>1. v = w
      BY <1>8 DEF v
    <2>2. w'.body[1] = w.body[1]
      <3>1. w.body \in Seq(ElementType) /\ Len(w.body) > 0
        BY <1>2, <1>8 DEF WriterType
      <3>2. /\ Append(w.body, e)[1] = w.body[1]
            /\ Append(Append(w.body, e), Delim)[1] = w.body[1]
        BY <3>1, <1>5, DelimType
      <3> QED BY <1>7, <3>2
    <2> QED BY <1>1, <1>6, <1>7, <1>8, <2>1, <2>2, StreamReturns
  <1>9. CASE ~wroteHeader
    <2>1. CASE w'.body = <<>>
      BY <1>6, <2>1, NothingWritten
    <2>2. CASE w'.body # <<>>
      <3>1. Kind(1)' = "streamError"
        <4>1. Append(<<>>, e)[1] = e /\ Append(Append(<<>>, e), Delim)[1] = e
          BY <1>5, DelimType
        <4>2. w'.body \in {Append(<<>>, e), Append(Append(<<>>, e), Delim)}
          BY <1>2, <1>7, <1>9, <2>2
        <4> QED BY <1>5, <4>1, <4>2 DEF Kind
      <3>2. OptionWrote' \/ (IsFailure(w'.status) /\ w'.wire.type = "streamError")
        BY <1>3, <1>7, <1>9 DEF OptionWrote
      <3>3. DoneInv'
        BY <3>1, <3>2 DEF DoneInv, StatusTellsOutcome, TypeTellsBody, TrailersAsAnnounced
      <3> QED BY <1>6, <3>3, AtEnd
    <2> QED BY <2>1, <2>2
  <1> QED BY <1>8, <1>9

-----------------------------------------------------------------------------
\* A step that leaves the handler where it is.
LEMMA SameAnswers ==
  ASSUME AnswerInv, UNCHANGED <<req, pc, ctx, err, w, wroteHeader>>
  PROVE  AnswerInv'
  <1>1. HeadInv'
    BY DEF AnswerInv, HeadInv, OptionWrote
  <1>2. Promised' = Promised
    BY DEF Promised, HasMetadata
  <1>3. TrailerInv'
    BY <1>2 DEF AnswerInv, TrailerInv
  <1>4. DoneInv'
    BY <1>2 DEF AnswerInv, DoneInv, StatusTellsOutcome, TypeTellsBody, TrailersAsAnnounced,
                Answered, OptionWrote, Kind, Delivered
  <1> QED BY <1>1, <1>3, <1>4 DEF AnswerInv

LEMMA StepAnswers == IInv /\ AnswerInv /\ [Next]_vars => AnswerInv'
  <1> SUFFICES ASSUME IInv, AnswerInv, [Next]_vars PROVE AnswerInv'
    OBVIOUS
  <1>1. CASE Handed
    BY <1>1, BeginAnswers DEF Handed, ForwardMessage, ForwardStream, ReportError
  <1>2. CASE Unary
    BY <1>2, ForwardHeadAnswers, ForwardBodyAnswers, HTTPErrorAnswers DEF Unary
  <1>3. CASE Stream
    BY <1>3, StreamHeadAnswers, RecvAnswers, PrepareChunkAnswers, WriteChunkAnswers,
       WriteDelimiterAnswers, FlushChunkAnswers, HandleStreamErrorAnswers DEF Stream
  <1>4. CASE Disconnect
    BY <1>4, SameAnswers DEF Disconnect
  <1>5. CASE UNCHANGED vars
    BY <1>5, SameAnswers DEF vars
  <1> QED BY <1>1, <1>2, <1>3, <1>4, <1>5 DEF Next, Forward

LEMMA SpecAnswers == Spec => []AnswerInv
  <1>1. Init => IInv /\ AnswerInv
    BY InitIInv, InitAnswers
  <1>2. (IInv /\ AnswerInv) /\ [Next]_vars => (IInv /\ AnswerInv)'
    BY StepIInv, StepAnswers
  <1> QED BY <1>1, <1>2, PTL DEF Spec

\* Whatever fails and whatever an option writes, no response mixes an answer
\* with an error, and unless an option chose the status line it says which of
\* the two was sent: an answer is a success, an error never is.
THEOREM StatusAlwaysTells == Spec => []StatusTellsOutcome
  <1>1. AnswerInv => StatusTellsOutcome
    BY DEF AnswerInv, DoneInv
  <1> QED BY <1>1, SpecAnswers, PTL

\* The Content-Type a client sees is that of the element the body begins with,
\* also when a response was prepared as something else and then failed.
THEOREM TypeAlwaysTells == Spec => []TypeTellsBody
  <1>1. AnswerInv => TypeTellsBody
    BY DEF AnswerInv, DoneInv
  <1> QED BY <1>1, SpecAnswers, PTL

\* A client that accepts trailers gets every trailer that is announced exactly
\* once, and what is announced is what the server sent, although the failed
\* answer announces first and the error handler announces again.
THEOREM TrailersAlwaysAsAnnounced == Spec => []TrailersAsAnnounced
  <1>1. AnswerInv => TrailersAsAnnounced
    BY DEF AnswerInv, DoneInv
  <1> QED BY <1>1, SpecAnswers, PTL

-----------------------------------------------------------------------------
(***************************************************************************)
(* A handler forwards its answer as ResponseForwarding has it: a step of the *)
(* pipeline is a call of its entry points, or leaves the response alone.    *)
(***************************************************************************)
LEMMA PipelineStep == ASSUME [PipelineNext]_allVars PROVE [Next]_vars
  <1>1. ASSUME NEW from, NEW to, Step(from, to) PROVE UNCHANGED vars
    BY <1>1 DEF Step
  <1>2. ASSUME NEW from, NEW c \in Context, NEW e \in Error, Refuse(from, c, e) PROVE Next
    BY <1>2 DEF Refuse, Next, Handed
  <1>3. PlainContext \in Context /\ NilContext \in Context
    BY DEF Context
  <1>4. ASSUME NEW from, MayRefuse(from) PROVE Next
    BY <1>2, <1>3, <1>4 DEF MayRefuse
  <1>5. CASE Enter
    BY <1>1, <1>5 DEF Enter
  <1>6. CASE EnterStream
    BY <1>6 DEF EnterStream, Next, Handed
  <1>7. CASE Annotate
    BY <1>1, <1>2, <1>3, <1>7 DEF Annotate
  <1>8. CASE ReadBody
    BY <1>1, <1>4, <1>8 DEF ReadBody
  <1>9. CASE DecodeBody
    BY <1>1, <1>4, <1>9 DEF DecodeBody
  <1>10. ASSUME NEW from, NEW to, NEW fields, NEW source, Populate(from, to, fields, source)
         PROVE  [Next]_vars
    BY <1>1, <1>4, <1>10 DEF Populate
  <1>11. CASE ApplyPathParams \/ ApplyQueryParams
    BY <1>1, <1>10, <1>11 DEF ApplyPathParams, ApplyQueryParams
  <1>12. CASE ApplyFieldMask
    BY <1>1, <1>4, <1>12 DEF ApplyFieldMask
  <1>13. CASE ValidateRequest
    BY <1>1, <1>2, <1>3, <1>13 DEF ValidateRequest
  <1>14. CASE Invoke
    <2>1. ASSUME NEW md \in ServerMetadata, ForwardMessage(md) PROVE Next
      <3>1. md \in Context \ {NilContext}
        BY MetadataAssumption DEF Context
      <3> QED BY <2>1, <3>1 DEF Next, Handed
    <2>2. ASSUME NEW e \in Error, ReportError(PlainContext, e) PROVE Next
      BY <1>3, <2>2 DEF Next, Handed
    <2> QED BY <1>14, <2>1, <2>2 DEF Invoke
  <1>15. CASE Forward /\ UNCHANGED pipelineVars
    BY <1>15 DEF Next
  <1>16. CASE UNCHANGED allVars
    BY <1>16 DEF allVars
  <1> QED
    BY <1>5, <1>6, <1>7, <1>8, <1>9, <1>11, <1>12, <1>13, <1>14, <1>15, <1>16
    DEF PipelineNext, Pipeline

\* The pipeline implements response forwarding on its own: what is proved of
\* Spec holds of every handler that newRouteHandler makes.
THEOREM PipelineForwards == PipelineSpec => Spec
  <1>1. PipelineInit => Init
    BY DEF PipelineInit
  <1> QED BY <1>1, PipelineStep, PTL DEF PipelineSpec, Spec

(***************************************************************************)
(* The message after each step.  Bound says which source every field has in *)
(* the end; the invariant says how far the message is.                      *)
(***************************************************************************)
AfterBody  == [f \in Field |-> IF f \in BodyFields THEN "body" ELSE "zero"]
AfterPath  == [f \in Field |-> IF f \in call.path THEN "path" ELSE AfterBody[f]]
AfterQuery == [f \in Field |-> IF f \in QueryFields THEN "query" ELSE AfterPath[f]]
AfterMask  == [f \in Field |-> IF Infers /\ f = MaskField THEN "inferred" ELSE AfterQuery[f]]
FinalMask  == IF Infers THEN call.body ELSE {}

Reading  == {"idle", "annotate", "read"}
Decoding == Reading \cup {"decode"}
Binding  == Decoding \cup {"path", "query", "mask"}

PipelineTypes ==
  /\ stage \in {"idle", "annotate", "read", "decode", "path", "query", "mask",
                "validate", "invoke", "handed", "panicked"}
  /\ call \in Call
  /\ {reader, bodyBytes} \subseteq (SUBSET Field) \cup {NoBytes}
  /\ msg \in [Field -> Source]
  /\ {validated, invoked} \subseteq [Field -> Source] \cup {NoMessage}
  /\ mask \subseteq Field

MessageInv ==
  /\ stage \in Decoding => msg = Zero /\ reader = call.body
  /\ stage \in Reading => bodyBytes = NoBytes
  /\ stage \in Binding \ Reading =>
       bodyBytes = IF ShouldInferFieldMask THEN call.body ELSE NoBytes
  /\ stage \in Binding => mask = {}
  /\ stage = "path" => msg = AfterBody
  /\ stage = "query" => msg = AfterPath
  /\ stage = "mask" => msg = AfterQuery
  /\ stage \in {"validate", "invoke"} => msg = AfterMask /\ mask = FinalMask
  /\ stage = "invoke" => validated = msg
  /\ stage # "handed" => invoked = NoMessage
  /\ invoked # NoMessage => invoked = AfterMask /\ validated = AfterMask /\ mask = FinalMask

PipelineInv == PipelineTypes /\ MessageInv

LEMMA CallFacts ==
  ASSUME call \in Call
  PROVE  /\ call.body \in (SUBSET Field) \cup {NoBytes}
         /\ call.path \subseteq Field /\ call.query \subseteq Field
         /\ BodyFields \subseteq Field
         /\ Infers => MaskField \in Field /\ MaskField \notin BodyFields
  <1>1. call \in CallType
    BY CallAssumption
  <1>2. call.binding = "sub" /\ call.body # NoBytes => call.body \subseteq SubField
    BY CallAssumption
  <1> QED BY <1>1, <1>2, CallAssumption DEF CallType, BodyFields, Infers, ShouldInferFieldMask

\* What a step of one call leaves as it was found.
LEMMA SameCall ==
  ASSUME UNCHANGED call
  PROVE  /\ AfterBody' = AfterBody /\ AfterPath' = AfterPath /\ AfterQuery' = AfterQuery
         /\ AfterMask' = AfterMask /\ FinalMask' = FinalMask
         /\ ShouldInferFieldMask' = ShouldInferFieldMask
  BY DEF AfterBody, AfterPath, AfterQuery, AfterMask, FinalMask, Infers, BodyFields, QueryFields,
     ShouldInferFieldMask

LEMMA InitPipelineInv == PipelineInit => PipelineInv
  <1> SUFFICES ASSUME PipelineInit PROVE PipelineInv
    OBVIOUS
  <1>1. Zero \in [Field -> Source]
    BY DEF Zero, Source
  <1>2. PipelineTypes
    BY <1>1, CallFacts DEF PipelineInit, PipelineTypes
  <1>3. MessageInv
    BY DEF PipelineInit, MessageInv, Decoding, Reading, Binding
  <1> QED BY <1>2, <1>3 DEF PipelineInv

\* A refusal, or a panic, leaves the message behind.
LEMMA RefuseStep ==
  ASSUME PipelineInv, stage # "handed", stage' \in {"handed", "panicked"},
         UNCHANGED <<call, reader, bodyBytes, msg, mask, validated, invoked>>
  PROVE  PipelineInv'
  <1>1. PipelineTypes'
    BY DEF PipelineInv, PipelineTypes
  <1>2. MessageInv'
    BY DEF PipelineInv, MessageInv, Decoding, Reading, Binding
  <1> QED BY <1>1, <1>2 DEF PipelineInv

LEMMA ReadBodyStep ==
  ASSUME PipelineInv, Step("read", "decode"), reader' = GivenBack,
         bodyBytes' = IF ShouldInferFieldMask THEN reader ELSE NoBytes,
         UNCHANGED <<msg, mask, validated, invoked>>
  PROVE  PipelineInv'
  <1>1. stage = "read" /\ stage' = "decode" /\ UNCHANGED call
    BY DEF Step
  <1>2. reader' = reader /\ reader = call.body
    BY <1>1 DEF GivenBack, PipelineInv, MessageInv, Decoding, Reading
  <1>3. PipelineTypes'
    BY <1>1, <1>2 DEF PipelineInv, PipelineTypes
  <1>4. MessageInv'
    BY <1>1, <1>2, SameCall DEF PipelineInv, MessageInv, Decoding, Reading, Binding
  <1> QED BY <1>3, <1>4 DEF PipelineInv

LEMMA DecodeBodyStep ==
  ASSUME PipelineInv, Step("decode", "path"),
         IF call.binding = "none" \/ reader = NoBytes
         THEN UNCHANGED <<msg, reader>>
         ELSE /\ msg' = [f \in Field |-> IF f \in reader THEN "body" ELSE msg[f]]
              /\ reader' = NoBytes,
         UNCHANGED <<bodyBytes, mask, validated, invoked>>
  PROVE  PipelineInv'
  <1>1. stage = "decode" /\ stage' = "path" /\ UNCHANGED call
    BY DEF Step
  <1>2. msg = Zero /\ reader = call.body
    BY <1>1 DEF PipelineInv, MessageInv, Decoding
  <1>3. msg' = AfterBody
    BY <1>2 DEF AfterBody, BodyFields, Zero
  <1>4. PipelineTypes'
    <2>1. AfterBody \in [Field -> Source]
      BY DEF AfterBody, Source
    <2> QED BY <1>1, <1>3, <2>1 DEF PipelineInv, PipelineTypes
  <1>5. MessageInv'
    BY <1>1, <1>3, SameCall DEF PipelineInv, MessageInv, Decoding, Reading, Binding
  <1> QED BY <1>4, <1>5 DEF PipelineInv

LEMMA PopulateStep ==
  ASSUME PipelineInv, NEW from, NEW to, NEW fields, NEW source, source \in Source,
         \/ from = "path" /\ to = "query" /\ fields = call.path /\ source = "path"
         \/ from = "query" /\ to = "mask" /\ fields = QueryFields /\ source = "query",
         Step(from, to),
         msg' = [f \in Field |-> IF f \in fields THEN source ELSE msg[f]],
         UNCHANGED <<reader, bodyBytes, mask, validated, invoked>>
  PROVE  PipelineInv'
  <1>1. stage = from /\ stage' = to /\ UNCHANGED call
    BY DEF Step
  <1>2. PipelineTypes'
    BY <1>1 DEF PipelineInv, PipelineTypes
  <1>3. \/ stage = "path" /\ stage' = "query" /\ msg' = AfterPath
        \/ stage = "query" /\ stage' = "mask" /\ msg' = AfterQuery
    <2>1. stage = "path" => msg = AfterBody
      BY DEF PipelineInv, MessageInv
    <2>2. stage = "query" => msg = AfterPath
      BY DEF PipelineInv, MessageInv
    <2> QED BY <1>1, <2>1, <2>2 DEF AfterPath, AfterQuery
  <1>4. MessageInv'
    BY <1>1, <1>3, SameCall DEF PipelineInv, MessageInv, Decoding, Reading, Binding
  <1> QED BY <1>2, <1>4 DEF PipelineInv

\* The mask is inferred where nothing had set it: a body that is bound to a
\* field has no part in the mask.
LEMMA FieldMaskStep ==
  ASSUME PipelineInv, Step("mask", "validate"),
         IF bodyBytes # NoBytes /\ MaskField # NoField /\ msg[MaskField] = "zero"
         THEN msg' = [msg EXCEPT ![MaskField] = "inferred"] /\ mask' = bodyBytes
         ELSE UNCHANGED <<msg, mask>>,
         UNCHANGED <<reader, bodyBytes, validated, invoked>>
  PROVE  PipelineInv'
  <1>1. stage = "mask" /\ stage' = "validate" /\ UNCHANGED call /\ call \in Call
    BY DEF Step, PipelineInv, PipelineTypes
  <1>2. /\ msg = AfterQuery /\ mask = {} /\ msg \in [Field -> Source]
        /\ bodyBytes = IF ShouldInferFieldMask THEN call.body ELSE NoBytes
    BY <1>1 DEF PipelineInv, MessageInv, Decoding, Reading, Binding, PipelineTypes
  <1>3. ASSUME MaskField # NoField
        PROVE  /\ MaskField \in Field
               /\ ShouldInferFieldMask /\ call.body # NoBytes =>
                    (msg[MaskField] = "zero" <=> MaskField \notin call.path \cup QueryFields)
    <2>1. MaskField \in Field \ SubField
      BY <1>3, CallAssumption
    <2>2. ShouldInferFieldMask /\ call.body # NoBytes => MaskField \notin BodyFields
      <3>1. call.binding = "sub" /\ call.body # NoBytes => call.body \subseteq SubField
        BY <1>1, CallAssumption
      <3> QED BY <2>1, <3>1 DEF ShouldInferFieldMask, BodyFields
    <2>3. msg[MaskField] = IF MaskField \in QueryFields THEN "query"
                           ELSE IF MaskField \in call.path THEN "path"
                           ELSE IF MaskField \in BodyFields THEN "body" ELSE "zero"
      BY <1>2, <2>1 DEF AfterQuery, AfterPath, AfterBody
    <2> QED BY <2>1, <2>2, <2>3
  <1>4. (bodyBytes # NoBytes /\ MaskField # NoField /\ msg[MaskField] = "zero") <=> Infers
    BY <1>2, <1>3 DEF Infers
  <1>5. msg' = AfterMask /\ mask' = FinalMask
    <2>1. CASE Infers
      <3>1. MaskField \in Field /\ msg' = [msg EXCEPT ![MaskField] = "inferred"] /\ mask' = call.body
        BY <1>2, <1>3, <1>4, <2>1 DEF Infers
      <3>2. msg' = AfterMask
        BY <1>2, <2>1, <3>1 DEF AfterMask, AfterQuery
      <3> QED BY <2>1, <3>1, <3>2 DEF FinalMask
    <2>2. CASE ~Infers
      <3>1. msg' = AfterQuery /\ mask' = {}
        BY <1>2, <1>4, <2>2
      <3> QED BY <2>2, <3>1 DEF AfterMask, AfterQuery, FinalMask
    <2> QED BY <2>1, <2>2
  <1>6. PipelineTypes'
    <2>1. AfterMask \in [Field -> Source]
      BY DEF AfterMask, AfterQuery, AfterPath, AfterBody, Source
    <2>2. FinalMask \subseteq Field
      BY <1>1, CallFacts DEF FinalMask, Infers
    <2> QED BY <1>1, <1>5, <2>1, <2>2 DEF PipelineInv, PipelineTypes
  <1>7. MessageInv'
    BY <1>1, <1>5, SameCall DEF PipelineInv, MessageInv, Decoding, Reading, Binding
  <1> QED BY <1>6, <1>7 DEF PipelineInv

LEMMA InvokeStep ==
  ASSUME PipelineInv, Invoke
  PROVE  PipelineInv'
  <1>1. /\ stage = "invoke" /\ stage' = "handed" /\ invoked' = msg
        /\ UNCHANGED <<call, reader, bodyBytes, msg, mask, validated>>
    BY DEF Invoke
  <1>2. msg = AfterMask /\ validated = msg /\ mask = FinalMask
    BY <1>1 DEF PipelineInv, MessageInv
  <1>3. PipelineTypes'
    BY <1>1 DEF PipelineInv, PipelineTypes
  <1>4. MessageInv'
    BY <1>1, <1>2, SameCall DEF MessageInv, Decoding, Reading, Binding
  <1> QED BY <1>3, <1>4 DEF PipelineInv

LEMMA StepPipelineInv == PipelineInv /\ [PipelineNext]_allVars => PipelineInv'
  <1> SUFFICES ASSUME PipelineInv, [PipelineNext]_allVars PROVE PipelineInv'
    OBVIOUS
  <1>1. ASSUME NEW from, NEW c, NEW e, from # "handed", Refuse(from, c, e) PROVE PipelineInv'
    BY <1>1, RefuseStep DEF Refuse
  <1>2. ASSUME NEW from, from # "handed", MayRefuse(from) PROVE PipelineInv'
    BY <1>1, <1>2 DEF MayRefuse
  <1>3. CASE Enter
    <2>1. /\ stage = "idle" /\ stage' \in {"annotate", "read"}
          /\ UNCHANGED <<call, reader, bodyBytes, msg, mask, validated, invoked>>
      BY <1>3 DEF Enter, Step
    <2>2. PipelineTypes'
      BY <2>1 DEF PipelineInv, PipelineTypes
    <2>3. MessageInv'
      BY <2>1, SameCall DEF PipelineInv, MessageInv, Decoding, Reading, Binding
    <2> QED BY <2>2, <2>3 DEF PipelineInv
  <1>4. CASE EnterStream
    BY <1>4, RefuseStep DEF EnterStream
  <1>5. CASE Annotate
    <2>1. ASSUME Step("annotate", "read"),
                 UNCHANGED <<reader, bodyBytes, msg, mask, validated, invoked>>
          PROVE  PipelineInv'
      <3>1. stage = "annotate" /\ stage' = "read" /\ UNCHANGED call
        BY <2>1 DEF Step
      <3>2. PipelineTypes'
        BY <2>1, <3>1 DEF PipelineInv, PipelineTypes
      <3>3. MessageInv'
        BY <2>1, <3>1, SameCall DEF PipelineInv, MessageInv, Decoding, Reading, Binding
      <3> QED BY <3>2, <3>3 DEF PipelineInv
    <2> QED BY <1>1, <1>5, <2>1 DEF Annotate
  <1>6. CASE ReadBody
    BY <1>2, <1>6, ReadBodyStep DEF ReadBody
  <1>7. CASE DecodeBody
    BY <1>2, <1>7, DecodeBodyStep DEF DecodeBody
  <1>8. CASE ApplyPathParams
    <2>1. "path" \in Source
      BY DEF Source
    <2> QED BY <1>2, <1>8, <2>1, PopulateStep DEF ApplyPathParams, Populate
  <1>9. CASE ApplyQueryParams
    <2>1. ASSUME Step("query", "panicked"),
                 UNCHANGED <<reader, bodyBytes, msg, mask, validated, invoked>>
          PROVE  PipelineInv'
      BY <2>1, RefuseStep DEF Step
    <2>2. ASSUME call.query = {} \/ call.filter # NilFilter,
                 Populate("query", "mask", IF call.query = {} THEN {} ELSE call.query \ call.filter, "query")
          PROVE  PipelineInv'
      <3>1. QueryFields = IF call.query = {} THEN {} ELSE call.query \ call.filter
        BY <2>2 DEF QueryFields
      <3>2. "query" \in Source
        BY DEF Source
      <3>3. Populate("query", "mask", QueryFields, "query")
        BY <2>2, <3>1
      <3> QED BY <1>2, <3>2, <3>3, PopulateStep DEF Populate
    <2> QED BY <1>9, <2>1, <2>2 DEF ApplyQueryParams
  <1>10. CASE ApplyFieldMask
    BY <1>2, <1>10, FieldMaskStep DEF ApplyFieldMask
  <1>11. CASE ValidateRequest
    <2>1. ASSUME Step("validate", "invoke"), validated' = msg,
                 UNCHANGED <<reader, bodyBytes, msg, mask, invoked>>
          PROVE  PipelineInv'
      <3>1. stage = "validate" /\ stage' = "invoke" /\ UNCHANGED call
        BY <2>1 DEF Step
      <3>2. PipelineTypes'
        BY <2>1, <3>1 DEF PipelineInv, PipelineTypes
      <3>3. MessageInv'
        BY <2>1, <3>1, SameCall DEF PipelineInv, MessageInv, Decoding, Reading, Binding
      <3> QED BY <3>2, <3>3 DEF PipelineInv
    <2> QED BY <1>1, <1>11, <2>1 DEF ValidateRequest
  <1>12. CASE Invoke
    BY <1>12, InvokeStep
  <1>13. CASE UNCHANGED pipelineVars
    <2>1. PipelineTypes'
      BY <1>13 DEF pipelineVars, PipelineInv, PipelineTypes
    <2>2. MessageInv'
      BY <1>13, SameCall DEF pipelineVars, PipelineInv, MessageInv
    <2> QED BY <2>1, <2>2 DEF PipelineInv
  <1> QED
    BY <1>3, <1>4, <1>5, <1>6, <1>7, <1>8, <1>9, <1>10, <1>11, <1>12, <1>13
    DEF PipelineNext, Pipeline, allVars

LEMMA SpecPipelineInv == PipelineSpec => []PipelineInv
  BY InitPipelineInv, StepPipelineInv, PTL DEF PipelineSpec

\* Types of the pipeline with its response, for any messages and requests.
THEOREM PipelineTypeCorrect == PipelineSpec => []PipelineTypeOK
  <1>1. PipelineInv /\ TypeOK => PipelineTypeOK
    BY DEF PipelineInv, PipelineTypes, PipelineTypeOK
  <1> QED BY <1>1, SpecPipelineInv, PipelineForwards, ForwardingTypeCorrect, PTL

\* Whatever message, route and request: the server gets the validated message,
\* each field from the source that wins, and a mask only where one is inferred.
THEOREM InvokedAlwaysAsBound == PipelineSpec => []InvokedAsBound
  <1>1. PipelineInv => InvokedAsBound
    <2> SUFFICES ASSUME PipelineInv, invoked # NoMessage PROVE InvokedAsBound
      BY DEF InvokedAsBound
    <2>1. invoked = AfterMask /\ validated = AfterMask /\ mask = FinalMask /\ call \in Call
      BY DEF PipelineInv, MessageInv, PipelineTypes
    <2>2. /\ call.path \subseteq Field /\ QueryFields \subseteq Field /\ BodyFields \subseteq Field
          /\ Infers => MaskField \in Field /\ MaskField \notin BodyFields
      BY <2>1, CallFacts DEF QueryFields
    <2>3. Infers => MaskField \notin call.path \cup QueryFields
      BY DEF Infers
    <2>4. ASSUME NEW f \in Field
          PROVE  invoked[f] = IF Infers /\ f = MaskField THEN "inferred"
                              ELSE IF f \in QueryFields THEN "query"
                              ELSE IF f \in call.path THEN "path"
                              ELSE IF f \in BodyFields THEN "body" ELSE "zero"
      BY <2>1 DEF AfterMask, AfterQuery, AfterPath, AfterBody
    <2>5. {f \in Field : invoked[f] = "query"} = Bound["query"]
      BY <2>2, <2>3, <2>4 DEF Bound
    <2>6. {f \in Field : invoked[f] = "path"} = Bound["path"]
      BY <2>2, <2>3, <2>4 DEF Bound
    <2>7. {f \in Field : invoked[f] = "body"} = Bound["body"]
      BY <2>2, <2>3, <2>4 DEF Bound
    <2>8. {f \in Field : invoked[f] = "inferred"} = Bound["inferred"]
      BY <2>2, <2>3, <2>4 DEF Bound
    <2>9. DOMAIN Bound = {"query", "path", "body", "inferred"}
      BY DEF Bound
    <2> QED BY <2>1, <2>5, <2>6, <2>7, <2>8, <2>9 DEF InvokedAsBound, FinalMask
  <1> QED BY <1>1, SpecPipelineInv, PTL
=============================================================================
