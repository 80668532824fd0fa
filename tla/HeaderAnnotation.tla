-------------------------- MODULE HeaderAnnotation --------------------------
(***************************************************************************)
(* What AnnotateContext (metadata/context.go, context.go) makes of the       *)
(* headers of a request: metadata, in the order in which the map of headers *)
(* gives them, and a deadline.                                             *)
(*                                                                         *)
(* Keys are canonical.  A duration is an integer of Width bits.             *)
(***************************************************************************)
EXTENDS Integers, Sequences, SequencesExt

CONSTANTS
  Stripped,     \* [header -> what follows "Grpc-Metadata-"]
  Lower,        \* [metadata key -> its lower case]
  Binary,       \* headers that end in "-Bin"
  InvalidKey,   \* metadata keys gRPC does not take
  Unprintable,  \* values with a byte outside of printable ASCII
  Base64,       \* [value -> bytes], for the values that decode
  Units,        \* [unit of a timeout -> duration]
  Width,        \* bits of a duration
  DefaultContextTimeout

ASSUME HeaderAssumption ==
  /\ Width \in Nat \ {0} /\ 2 ^ (Width - 1) > 0
  /\ \A u \in DOMAIN Units : Units[u] \in Int
  /\ "S" \in DOMAIN Units /\ Units["S"] > 0
  /\ DefaultContextTimeout \in -(2 ^ (Width - 1)) .. 2 ^ (Width - 1) - 1
  /\ Binary \cap {"X-Forwarded-For", "X-Forwarded-Host"} = {}

Permanent ==
  {"Accept", "Accept-Charset", "Accept-Language", "Accept-Ranges", "Authorization",
   "Cache-Control", "Content-Type", "Cookie", "Date", "Expect", "From", "Host", "If-Match",
   "If-Modified-Since", "If-None-Match", "If-Schedule-Tag-Match", "If-Unmodified-Since",
   "Max-Forwards", "Origin", "Pragma", "Referer", "User-Agent", "Via", "Warning"}

XForwardedFor  == "X-Forwarded-For"
XForwardedHost == "X-Forwarded-Host"
Forwarding     == {XForwardedFor, XForwardedHost}

\* A matcher is a function: the metadata key of each header it matches.
DefaultHeaderMatcher ==
  [key \in Permanent \cup DOMAIN Stripped |-> IF key \in Permanent THEN "grpcgateway-" \o key ELSE Stripped[key]]

IsForwarded(matcher, key, value) ==
  /\ key \in DOMAIN matcher /\ matcher[key] \notin InvalidKey
  /\ key \in Binary \/ value \notin Unprintable

BadBinary(matcher, key, value) ==
  IsForwarded(matcher, key, value) /\ key \in Binary /\ value \notin DOMAIN Base64

\* The pairs of one value of a header; metadata.Pairs lowers the keys.
PairsOf(matcher, key, value) ==
  (IF key = "Authorization" THEN <<<<"authorization", value>>>> ELSE <<>>)
  \o (IF IsForwarded(matcher, key, value)
      THEN <<<<Lower[matcher[key]], IF key \in Binary THEN Base64[value] ELSE value>>>>
      ELSE <<>>)

FirstValue(matcher, key, values) ==
  [ok |-> ~BadBinary(matcher, key, values[1]),
   pairs |-> IF BadBinary(matcher, key, values[1]) THEN <<>> ELSE PairsOf(matcher, key, values[1])]

\* One header: [ok, pairs].
HeaderPairs(matcher, key, values) ==
  IF key \in Forwarding THEN [ok |-> TRUE, pairs |-> <<>>]
  ELSE IF \E i \in DOMAIN values : BadBinary(matcher, key, values[i]) THEN [ok |-> FALSE, pairs |-> <<>>]
  ELSE [ok |-> TRUE, pairs |-> FlattenSeq([i \in DOMAIN values |-> PairsOf(matcher, key, values[i])])]

Values(headers, key) == IF key \in DOMAIN headers THEN headers[key] ELSE <<>>

\* The first forwarded host, or the request's own; all hops and the peer.
ForwardedPairs(headers, host, peer) ==
  LET given == Values(headers, XForwardedHost)
      known == IF given # <<>> /\ given[1] # "" THEN given[1] ELSE host
      hops  == Values(headers, XForwardedFor) \o (IF peer = "" THEN <<>> ELSE <<peer>>)
      joined == FoldLeft(LAMBDA acc, x : acc \o ", " \o x, hops[1], Tail(hops))
  IN  (IF known = "" THEN <<>> ELSE <<<<"x-forwarded-host", known>>>>)
      \o (IF hops = <<>> THEN <<>> ELSE <<<<"x-forwarded-for", joined>>>>)

\* What the annotators add in order, if there is metadata at all.
Annotated(pairs, annotators) == IF pairs = <<>> THEN <<>> ELSE pairs \o FlattenSeq(annotators)

-----------------------------------------------------------------------------
(* Deadlines.                                                              *)

\* Multiplication of durations.
HalfRange == 2 ^ (Width - 1)
Wrap(n)   == ((n + HalfRange) % (2 * HalfRange)) - HalfRange

\* DecodeTimeout of <<number, unit>>.  A text that is too short or has no number
\* is refused as one with an unknown unit is, and that stands for all of them.
TimeoutOK(timeout) == timeout[2] \in DOMAIN Units
DecodeTimeout(timeout) == Wrap(timeout[1] * Units[timeout[2]])

\* The default is handed over in seconds; Go's division truncates.
InSeconds(d)   == d - (d % Units["S"])
RoundedUp(d)   == InSeconds(d + Units["S"])
Truncated(d)   == IF d < 0 THEN -InSeconds(-d) ELSE InSeconds(d)
DefaultTimeout == Truncated(DefaultContextTimeout)

\* A duration of 0 is no deadline.
DurationOf(timeout) == IF timeout = <<>> THEN DefaultTimeout ELSE DecodeTimeout(timeout)
=============================================================================
