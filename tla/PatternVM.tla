----------------------------- MODULE PatternVM -----------------------------
(***************************************************************************)
(* Pattern (src/pattern.go) as the machine it is.  NewPattern checks a       *)
(* program of opcodes against a simulated stack, one operation at a time;    *)
(* MatchAndEscape executes what was accepted on the components of a path,     *)
(* without asking again whether the stack holds what an operation takes.    *)
(* PathTemplate!MatchAndEscape says what a program of a template computes.  *)
(***************************************************************************)
EXTENDS PathTemplate

CONSTANTS
  Definition,   \* arguments of NewPattern: [version, whole, ops, pool, verb]
  Lookup        \* arguments of MatchAndEscape: [comps, verb]

\* whole: the slice of opcodes and operands has an even length.
OpCodes == {"nop", "push", "litPush", "pushM", "concatN", "capture"}
DefinitionOK(d) ==
  /\ d.version \in Nat /\ d.whole \in BOOLEAN
  /\ d.ops \in Seq([code : STRING, operand : Int])
  /\ d.pool \in Seq(STRING) /\ d.verb \in STRING \cup {NoVerb}

ASSUME PatternVMAssumption ==
  /\ \A d \in Definition : DefinitionOK(d)
  /\ \A k \in Lookup : k.comps \in Seq(STRING) /\ k.verb \in STRING

VARIABLES
  stage,      \* "new", "check", "refused", "ready", "match", "done", "crashed"
  source,     \* the definition being checked
  checked,    \* how many of its operations are
  pattern,    \* [ops, vars, stacksize, tailLen]: what was accepted so far
  deep,       \* pushMSeen
  depth,      \* history: the simulated stack's depth before each operation
  comps, pc, pos, stack, captured,   \* MatchAndEscape
  outcome

patternVars == <<source, checked, pattern, deep, depth>>
matchVars   == <<comps, pc, pos, stack, captured, outcome>>
vmVars      == <<stage, patternVars, matchVars>>

NoOutcome    == [tag |-> "none", params |-> NoParams]
EmptyPattern == [ops |-> <<>>, vars |-> <<>>, stacksize |-> 0, tailLen |-> 0]
AtRest       == /\ comps = <<>> /\ pc = 1 /\ pos = 0 /\ stack = <<>> /\ captured = <<>>
                /\ outcome = NoOutcome

NoDefinition == [version |-> 0, whole |-> TRUE, ops |-> <<>>, pool |-> <<>>, verb |-> NoVerb]

VMInit ==
  /\ stage = "new" /\ source = NoDefinition
  /\ checked = 0 /\ pattern = EmptyPattern /\ deep = FALSE /\ depth = <<0>>
  /\ AtRest

-----------------------------------------------------------------------------
(* NewPattern.                                                             *)

Begin(d) ==
  /\ stage = "new"
  /\ source' = d
  /\ stage' = IF d.version = 1 /\ d.whole THEN "check" ELSE "refused"
  /\ UNCHANGED <<checked, pattern, deep, depth, matchVars>>

NewPattern == stage = "new" /\ \E d \in Definition : Begin(d)

Depth == Last(depth)
InPool(op) == op.operand \in 0 .. Len(source.pool) - 1

Trusting(op) ==
  CASE op.code \in {"nop", "push"} -> TRUE
    [] op.code = "pushM"           -> ~deep
    [] op.code = "litPush"         -> InPool(op)
    [] op.code = "concatN"         -> op.operand > 0 /\ op.operand <= Depth + 1
    [] op.code = "capture"         -> InPool(op)
    [] OTHER                       -> FALSE

Admissible(op) ==
  CASE op.code \in {"nop", "push"} -> TRUE
    [] op.code = "pushM"           -> ~deep
    [] op.code = "litPush"         -> InPool(op)
    [] op.code = "concatN"         -> op.operand > 0 /\ op.operand <= Depth
    [] op.code = "capture"         -> InPool(op) /\ Depth > 0
    [] OTHER                       -> FALSE

DepthAfter(op) ==
  CASE op.code = "concatN" -> Depth - op.operand + 1
    [] op.code = "capture" -> Depth - 1
    [] OTHER               -> Depth + 1

LastDepth(m, n) == n
AtLeast(m, n) == IF m < n THEN n ELSE m

\* A capture's operand becomes the number of its variable.
Typed(op) ==
  IF op.code = "capture" THEN [op EXCEPT !.operand = Len(pattern.vars) + 1] ELSE op

CheckNop(op) == op.code = "nop" /\ UNCHANGED <<pattern, deep, depth>>

CheckReal(op) ==
  /\ op.code # "nop"
  /\ depth' = Append(depth, DepthAfter(op))
  /\ deep' = (deep \/ op.code = "pushM")
  /\ pattern' =
       [ops       |-> Append(pattern.ops, Typed(op)),
        vars      |-> IF op.code = "capture" THEN Append(pattern.vars, source.pool[op.operand + 1])
                                             ELSE pattern.vars,
        stacksize |-> AtLeast(pattern.stacksize, DepthAfter(op)),
        tailLen   |-> IF deep /\ op.code \in {"push", "litPush"} THEN pattern.tailLen + 1
                                                                 ELSE pattern.tailLen]

CheckOp ==
  /\ stage = "check" /\ checked < Len(source.ops)
  /\ LET op == source.ops[checked + 1]
     IN  IF Admissible(op)
         THEN /\ checked' = checked + 1
              /\ CheckNop(op) \/ CheckReal(op)
              /\ UNCHANGED stage
         ELSE stage' = "refused" /\ UNCHANGED <<checked, pattern, deep, depth>>
  /\ UNCHANGED <<source, matchVars>>

Accept ==
  /\ stage = "check" /\ checked = Len(source.ops)
  /\ stage' = "ready"
  /\ UNCHANGED <<patternVars, matchVars>>

-----------------------------------------------------------------------------
(* MatchAndEscape.                                                         *)

\* A verb the pattern does not have stays in the last component.
WithVerb(cs, verb) ==
  IF cs = <<>> THEN <<":" \o verb>> ELSE [cs EXCEPT ![Len(cs)] = @ \o ":" \o verb]

Finish(result) ==
  /\ stage' = "done" /\ outcome' = result
  /\ UNCHANGED <<patternVars, comps, pc, pos, stack, captured>>

\* A caller panicked before there was anything to match.
Crash == stage' = "crashed" /\ UNCHANGED <<patternVars, matchVars>>

StartMatch(cs, verb) ==
  /\ stage = "ready"
  /\ IF verb # source.verb /\ source.verb # NoVerb
     THEN Finish(NotMatched)
     ELSE /\ stage' = "match"
          /\ comps' = IF verb = source.verb THEN cs ELSE WithVerb(cs, verb)
          /\ captured' = [v \in DOMAIN pattern.vars |-> <<"">>]
          /\ UNCHANGED <<patternVars, pc, pos, stack, outcome>>

\* Indexing that the Go runtime would refuse.
OutOfBounds(op) ==
  \/ op.code = "concatN" /\ op.operand > Len(stack)
  \/ op.code = "capture" /\ (stack = <<>> \/ op.operand \notin DOMAIN captured)
  \/ op.code = "litPush" /\ ~InPool(op)

TailFits == pos + pattern.tailLen <= Len(comps)

TakenToEnd(op) ==
  CASE op.code = "pushM"               -> SubSeq(comps, pos + 1, Len(comps))
    [] op.code \in {"push", "litPush"} -> SubSeq(comps, pos + 1, pos + 1)
    [] OTHER                           -> <<>>

\* The components an operation reads.
Taken(op) ==
  CASE op.code = "pushM"               -> SubSeq(comps, pos + 1, Len(comps) - pattern.tailLen)
    [] op.code \in {"push", "litPush"} -> SubSeq(comps, pos + 1, pos + 1)
    [] OTHER                           -> <<>>

Unescaped(op, c) == IF op.code = "push" THEN Text[c].one
                    ELSE IF op.code = "pushM" THEN Text[c].many ELSE c

Fits(op) ==
  CASE op.code = "pushM"   -> TailFits
    [] op.code = "push"    -> pos < Len(comps)
    [] op.code = "litPush" -> pos < Len(comps) /\ comps[pos + 1] = source.pool[op.operand + 1]
    [] OTHER               -> TRUE

\* A literal is compared as it is.
IsMalformed(op) ==
  op.code # "litPush" /\ \E i \in DOMAIN Taken(op) : Unescaped(op, Taken(op)[i]) = Malformed

\* A value is the sequence of the pieces that slashes join.
Value(op) ==
  IF Taken(op) = <<>> THEN <<"">>
  ELSE [i \in DOMAIN Taken(op) |-> Unescaped(op, Taken(op)[i])]

Under(n)   == SubSeq(stack, 1, Len(stack) - n)
Top(n)     == SubSeq(stack, Len(stack) - n + 1, Len(stack))

Run(op) ==
  /\ pc' = pc + 1
  /\ pos' = pos + Len(Taken(op))
  /\ stack' = CASE op.code = "concatN" -> Append(Under(op.operand), FlattenSeq(Top(op.operand)))
                [] op.code = "capture" -> Under(1)
                [] OTHER               -> Append(stack, Value(op))
  /\ captured' = IF op.code = "capture" THEN [captured EXCEPT ![op.operand] = Last(stack)]
                                        ELSE captured
  /\ UNCHANGED <<stage, patternVars, comps, outcome>>

Execute ==
  /\ stage = "match" /\ pc <= Len(pattern.ops)
  /\ LET op == pattern.ops[pc]
     IN  IF OutOfBounds(op) THEN Finish(MatcherPanics)
         ELSE IF ~Fits(op) THEN Finish(NotMatched)
         ELSE IF IsMalformed(op) THEN Finish(MalformedPath)
         ELSE Run(op)

\* Of two variables of one name the later one stays.
Bound ==
  [x \in ToSet(pattern.vars) |->
     captured[CHOOSE i \in DOMAIN captured :
                /\ pattern.vars[i] = x
                /\ \A j \in DOMAIN captured : pattern.vars[j] = x => j <= i]]

EndMatch ==
  /\ stage = "match" /\ pc > Len(pattern.ops)
  /\ Finish(IF pos < Len(comps) THEN NotMatched ELSE Accepted(Bound))

Match == stage = "ready" /\ \E k \in Lookup : StartMatch(k.comps, k.verb)

VMNext == NewPattern \/ CheckOp \/ Accept \/ Match \/ Execute \/ EndMatch

VMSpec == VMInit /\ [][VMNext]_vmVars

-----------------------------------------------------------------------------
(* Pattern.String.  A capture stays on the stack, in braces.               *)
BracedName(name, text) == "{" \o name \o "}"
Braced(name, text) == "{" \o name \o "=" \o text \o "}"
JoinText(pieces) ==
  IF pieces = <<>> THEN ""
  ELSE FoldLeft(LAMBDA acc, p : acc \o "/" \o p, Head(pieces), Tail(pieces))

Printed(s, op) ==
  LET keep(n) == SubSeq(s, 1, Len(s) - n)
      top(n)  == SubSeq(s, Len(s) - n + 1, Len(s))
  IN  CASE op.code = "push"    -> Append(s, "*")
        [] op.code = "pushM"   -> Append(s, "**")
        [] op.code = "litPush" -> Append(s, source.pool[op.operand + 1])
        [] op.code = "concatN" -> Append(keep(op.operand), JoinText(top(op.operand)))
        [] op.code = "capture" -> Append(keep(1), Braced(pattern.vars[op.operand], Last(s)))

PatternText ==
  "/" \o JoinText(FoldLeft(Printed, <<>>, pattern.ops))
      \o (IF source.verb = NoVerb THEN "" ELSE ":" \o source.verb)

-----------------------------------------------------------------------------
VMTypeOK ==
  /\ stage \in {"new", "check", "refused", "ready", "match", "done", "crashed"}
  /\ DefinitionOK(source)
  /\ checked \in 0 .. Len(source.ops)
  /\ pattern \in [ops : Seq([code : STRING, operand : Int]), vars : Seq(STRING),
                  stacksize : Nat, tailLen : Nat]
  /\ deep \in BOOLEAN /\ depth \in Seq(Nat)
  /\ pc \in 1 .. Len(pattern.ops) + 1 /\ Len(comps) \in Nat /\ pos \in 0 .. Len(comps)
  /\ Len(stack) <= pattern.stacksize
  /\ outcome.tag \in {"none", "ok", "no", "err", "panic"}

\* What NewPattern accepts, MatchAndEscape executes without taking from an
\* empty stack or past the pool or the variables, on any components: the
\* machine asks none of this again (pattern.go:202-213).
AcceptedNeverPanics == outcome.tag # "panic"
=============================================================================
