---------------------------- MODULE HttpResponse ----------------------------
(***************************************************************************)
(* The http.ResponseWriter of net/http, as src/response.go uses it.  The    *)
(* first WriteHeader or Write puts a copy of the header on the wire; what   *)
(* is done to the header map later reaches the client only as the trailers  *)
(* that the copy announced.  net/http is external: the module models the    *)
(* part of it that response.go relies on.                                  *)
(***************************************************************************)
EXTENDS Naturals, Sequences

CONSTANTS
  HeaderKey,     \* keys of ServerMetadata.HeaderMD
  TrailerKey,    \* keys of ServerMetadata.TrailerMD
  NoType         \* no Content-Type is set

OK == 200
InternalServerError == 500

\* type is what the Content-Type was computed from, meta and trailers count
\* the values under each key.
EmptyHeader ==
  [type |-> NoType, chunked |-> FALSE, length |-> FALSE, announced |-> {},
   meta     |-> [k \in HeaderKey |-> 0],
   trailers |-> [k \in TrailerKey |-> 0]]

\* status 0: nothing is on the wire yet.  flushed counts the elements of the
\* body that were pushed to the client.
FreshWriter ==
  [header |-> EmptyHeader, status |-> 0, wire |-> EmptyHeader, body |-> <<>>, flushed |-> 0]

Sent(w) == w.status # 0

SetType(w, t) == [w EXCEPT !.header.type = t]

\* Only the first call counts; net/http logs the others as superfluous.
WriteHeader(w, status) ==
  IF Sent(w) THEN w ELSE [w EXCEPT !.status = status, !.wire = w.header]

\* A write that fails has sent the header, and none of its bytes count.
Write(w, chunk, ok) ==
  LET s == WriteHeader(w, OK)
  IN IF ok THEN [s EXCEPT !.body = Append(@, chunk)] ELSE s

Flush(w) == [w EXCEPT !.flushed = Len(w.body)]

\* The trailers that reach the client when the handler returns.
Delivered(w) ==
  [k \in TrailerKey |-> IF k \in w.wire.announced THEN w.header.trailers[k] ELSE 0]
=============================================================================
