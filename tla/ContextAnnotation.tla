-------------------------- MODULE ContextAnnotation --------------------------
(***************************************************************************)
(* AnnotateContext (metadata/context.go, context.go) at work on a request    *)
(* that has come to a mux: the headers are a map of Go, walked in any order,  *)
(* one step each; then the forwarding headers, the annotators of the mux and  *)
(* the deadline.  RequestBinding goes on with the message.                  *)
(***************************************************************************)
EXTENDS HeaderAnnotation

CONSTANTS
  Requests,   \* what clients ask: [headers, timeout, host, peer, ...]
  Muxes       \* [incomingHeaderMatcher, metadataAnnotators, ...]

ASSUME RequestsAssumption ==
  \A r \in Requests :
    /\ \A key \in DOMAIN r.headers : r.headers[key] \in Seq(STRING)
    /\ r.timeout # <<>> => r.timeout[1] \in Int

VARIABLES
  stage,     \* what is done next, or how it ended
  mux,       \* what its options made of it
  request,
  pending,   \* headers not yet seen; later parameters and query keys
  pairs,     \* metadata
  deadline,  \* 0 for none
  problem    \* why it failed
contextVars == <<stage, mux, request, pending, pairs, deadline, problem>>

NoRequest == [method |-> <<>>]

NothingAsked ==
  request = NoRequest /\ pending = {} /\ pairs = <<>> /\ deadline = 0 /\ problem = ""

ContextInit == stage = "serving" /\ mux \in Muxes /\ NothingAsked

FailFor(why) == stage' = "failed" /\ problem' = why

-----------------------------------------------------------------------------
\* A request whose timeout does not decode goes no further.
Receive(r) ==
  /\ stage = "serving" /\ request' = r
  /\ IF r.timeout # <<>> /\ ~TimeoutOK(r.timeout)
     THEN FailFor("timeout") /\ UNCHANGED pending
     ELSE stage' = "headers" /\ pending' = DOMAIN r.headers /\ UNCHANGED problem
  /\ UNCHANGED <<mux, pairs, deadline>>

AnnotateHeader ==
  /\ stage = "headers"
  /\ \E key \in pending :
       LET h == HeaderPairs(mux.incomingHeaderMatcher, key, request.headers[key])
       IN  IF h.ok THEN pairs' = pairs \o h.pairs /\ pending' = pending \ {key} /\ UNCHANGED <<stage, problem>>
           ELSE FailFor("header") /\ UNCHANGED <<pairs, pending>>
  /\ UNCHANGED <<mux, request, deadline>>

AnnotateContext ==
  /\ stage = "headers" /\ pending = {}
  /\ pairs' = Annotated(pairs \o ForwardedPairs(request.headers, request.host, request.peer),
                        mux.metadataAnnotators)
  /\ deadline' = DurationOf(request.timeout) /\ stage' = "body"
  /\ UNCHANGED <<mux, request, pending, problem>>

ContextNext == (\E r \in Requests : Receive(r)) \/ AnnotateHeader \/ AnnotateContext

ContextSpec == ContextInit /\ [][ContextNext]_contextVars

-----------------------------------------------------------------------------
Matched == mux.incomingHeaderMatcher

\* Where a metadata value <<k, v>> comes from.
Sources(k, v) ==
  {at \in UNION {{key} \X DOMAIN request.headers[key] : key \in DOMAIN request.headers} :
     LET key   == at[1]
         value == request.headers[key][at[2]]
     IN  /\ key \notin Forwarding /\ key \in DOMAIN Matched
         /\ Matched[key] \notin InvalidKey /\ Lower[Matched[key]] = k
         /\ IF key \in Binary THEN value \in DOMAIN Base64 /\ Base64[value] = v
                              ELSE value \notin Unprintable /\ value = v}
Credentials(v) == {i \in DOMAIN Values(request.headers, "Authorization") :
                     request.headers["Authorization"][i] = v}

KeysMeant   == {"authorization"} \cup {Lower[Matched[key]] : key \in (DOMAIN request.headers) \cap DOMAIN Matched}
ValuesMeant ==
  (UNION {ToSet(request.headers[key]) : key \in DOMAIN request.headers}) \cup {Base64[v] : v \in DOMAIN Base64}

Undecodable ==
  \E key \in (DOMAIN request.headers) \cap Binary :
    /\ key \in DOMAIN Matched /\ Matched[key] \notin InvalidKey
    /\ ToSet(request.headers[key]) \ DOMAIN Base64 # {}

\* d is t or between 0 and t, less than a second away.
Approximates(d, t) ==
  IF t < 0 THEN d \in t .. 0 /\ d - t < Units["S"] ELSE d \in 0 .. t /\ t - d < Units["S"]

Magnitude == request.timeout[1] * Units[request.timeout[2]]

\* In whatever order the headers come: the request is refused for them if and
\* only if a binary one does not decode, and otherwise each value that may pass
\* is in the metadata as often as it came, and no other; the deadline is the
\* one asked for when a duration can hold it, and for a request that asks for
\* none the default, never beyond it and short of it by less than a second.
\* About AnnotateContext.
HeadersBecomeMetadata ==
  /\ problem = "header" => Undecodable
  /\ stage = "headers" /\ pending = {} =>
       /\ ~Undecodable
       /\ \A pair \in ToSet(pairs) \cup (KeysMeant \X ValuesMeant) :
            Cardinality({j \in DOMAIN pairs : pairs[j] = pair})
              = Cardinality(Sources(pair[1], pair[2]))
                + (IF pair[1] = "authorization" THEN Cardinality(Credentials(pair[2])) ELSE 0)
  /\ stage = "body" /\ request.timeout # <<>> =>
       (Magnitude \in -(2 ^ (Width - 1)) .. 2 ^ (Width - 1) - 1 => deadline = Magnitude)
  /\ stage = "body" /\ request.timeout = <<>> => Approximates(deadline, DefaultContextTimeout)
=============================================================================
