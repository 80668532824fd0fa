--------------------------- MODULE StreamContract ---------------------------
(***************************************************************************)
(* What forwarding a stream of messages to an HTTP client promises: every    *)
(* message is shown before the next one is taken, in order; the stream is    *)
(* complete only when all of it is shown, a failure is reported after what   *)
(* was shown, and only a client that left is left without an ending.         *)
(***************************************************************************)
EXTENDS Naturals, Sequences

CONSTANT Bound     \* bound: messages of the stream

VARIABLES
  taken,    \* messages taken from the server
  shown,    \* their numbers, as the client sees them
  client,   \* the client is there
  state     \* how the stream ended

contractVars == <<taken, shown, client, state>>

Init == taken = 0 /\ shown = <<>> /\ client = TRUE /\ state = "no"

Take ==
  /\ state = "no" /\ Len(shown) = taken /\ taken < Bound
  /\ taken' = taken + 1
  /\ UNCHANGED <<shown, client, state>>

Show ==
  /\ state = "no" /\ Len(shown) < taken
  /\ shown' = Append(shown, taken)
  /\ UNCHANGED <<taken, client, state>>

End(how) == state = "no" /\ state' = how /\ UNCHANGED <<taken, shown, client>>

Complete == Len(shown) = taken /\ End("complete")
Report   == End("reported")
\* An ending the gateway cannot give: no metadata, a writer that cannot flush,
\* an error that cannot be encoded.
Abort    == End("aborted")
Cut      == ~client /\ End("cut")

Leave == client /\ client' = FALSE /\ UNCHANGED <<taken, shown, state>>

Next == Take \/ Show \/ Complete \/ Report \/ Abort \/ Cut \/ Leave

Spec == Init /\ [][Next]_contractVars
=============================================================================
