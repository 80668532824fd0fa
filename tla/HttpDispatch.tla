---------------------------- MODULE HttpDispatch ----------------------------
(***************************************************************************)
(* What a ServeMux promises its clients, without trie, lock or pool:       *)
(* routes are registered, never removed, and every request is answered     *)
(* once, in a way that the routes known when it arrived and when it is     *)
(* answered allow (ServeMux.ServeHTTP).                                    *)
(***************************************************************************)
CONSTANTS
  Request,         \* the requests
  Kind,            \* what a request may ask
  Answers(_, _, _) \* kind, routes on arrival, routes now: the answers allowed

VARIABLES
  registered,   \* the routes registered so far
  asked,        \* [Request -> SUBSET Kind]: empty, then what it asks
  before,       \* [Request -> routes registered when it arrived]
  answer        \* [Request -> set of answers]: empty, then the one given

vars == <<registered, asked, before, answer>>

Init ==
  /\ registered = {}
  /\ asked  = [q \in Request |-> {}]
  /\ before = [q \in Request |-> {}]
  /\ answer = [q \in Request |-> {}]

Register ==
  /\ registered \subseteq registered'
  /\ UNCHANGED <<asked, before, answer>>

\* A request that the mux rejects at sight is answered as it arrives.
Ask(q) ==
  /\ asked[q] = {}
  /\ \E k \in Kind :
       /\ asked' = [asked EXCEPT ![q] = {k}]
       /\ \/ answer' = answer
          \/ \E a \in Answers(k, registered, registered) : answer' = [answer EXCEPT ![q] = {a}]
  /\ before' = [before EXCEPT ![q] = registered]
  /\ UNCHANGED registered

Reply(q) ==
  /\ answer[q] = {}
  /\ \E k \in asked[q] : \E a \in Answers(k, before[q], registered) :
       answer' = [answer EXCEPT ![q] = {a}]
  /\ UNCHANGED <<registered, asked, before>>

Next == Register \/ \E q \in Request : Ask(q) \/ Reply(q)

Spec == Init /\ [][Next]_vars
=============================================================================
