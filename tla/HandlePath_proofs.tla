-------------------------- MODULE HandlePath_proofs --------------------------
(***************************************************************************)
(* For every program, every pool and every path: what NewPattern accepts     *)
(* never takes from an empty stack.                                        *)
(*                                                                         *)
(* A template that parses compiles to a program that NewPattern takes, and   *)
(* the machine computes from it, on every path, what PathTemplate says the    *)
(* template matches and captures.  Three readings of a template meet here:   *)
(* its segments as parsed, its leaves and variables (Flat), its operations.  *)
(***************************************************************************)
EXTENDS HandlePath, HttpRule_proofs, FiniteSetTheorems

-----------------------------------------------------------------------------
(* Any program.                                                            *)

\* The strings of programs and of their pools are whatever they are.
Operation(S) == [code : S, operand : Int]

DefinitionIn(d, S) ==
  /\ d.version \in Nat /\ d.whole \in BOOLEAN
  /\ d.ops \in Seq(Operation(S)) /\ d.pool \in Seq(S) /\ d.verb \in S \cup {NoVerb}

PatternIn(S) == [ops : Seq(Operation(S)), vars : Seq(S), stacksize : Nat, tailLen : Nat]

\* VMTypeOK, for strings of S.
TypeIn(S) ==
  /\ stage \in {"new", "check", "refused", "ready", "match", "done", "crashed"}
  /\ DefinitionIn(source, S)
  /\ checked \in 0 .. Len(source.ops)
  /\ pattern \in PatternIn(S)
  /\ deep \in BOOLEAN /\ depth \in Seq(Nat)
  /\ pc \in 1 .. Len(pattern.ops) + 1 /\ Len(comps) \in Nat /\ pos \in 0 .. Len(comps)
  /\ Len(stack) <= pattern.stacksize
  /\ outcome.tag \in {"none", "ok", "no", "err", "panic"}

\* Operation j of the accepted program finds what it takes, on a stack as
\* deep as the check counted, and leaves it as deep as counted.
Sound(j) ==
  LET op == pattern.ops[j]
  IN  \/ op.code \in {"push", "pushM"} /\ depth[j + 1] = depth[j] + 1
      \/ op.code = "litPush" /\ InPool(op) /\ depth[j + 1] = depth[j] + 1
      \/ /\ op.code = "concatN" /\ op.operand \in 1 .. depth[j]
         /\ depth[j + 1] = depth[j] - op.operand + 1
      \/ /\ op.code = "capture" /\ depth[j] > 0 /\ op.operand \in 1 .. Len(pattern.vars)
         /\ depth[j + 1] = depth[j] - 1

CheckInv ==
  /\ Len(depth) = Len(pattern.ops) + 1
  /\ \A j \in 1 .. Len(pattern.ops) : Sound(j)
  /\ \A j \in 1 .. Len(depth) : depth[j] <= pattern.stacksize
  /\ depth[1] = 0

MatchInv ==
  /\ stage \in {"new", "check", "refused", "ready"} => AtRest
  /\ stage = "new" => checked = 0 /\ pattern = EmptyPattern
  /\ stage = "match" => Len(stack) = depth[pc] /\ DOMAIN captured = 1 .. Len(pattern.vars)
  /\ AcceptedNeverPanics

\* Values and components are whatever they are, but they come in sequences.
Shapes == (\E S : stack \in Seq(S)) /\ (\E S : comps \in Seq(S))

IInv(S) == TypeIn(S) /\ CheckInv /\ MatchInv /\ Shapes

-----------------------------------------------------------------------------
(* Lemmas.                                                                 *)

\* A stack that grows is a stack.
LEMMA Pushed ==
  ASSUME NEW s, NEW e, \E S : s \in Seq(S)
  PROVE  (\E S : Append(s, e) \in Seq(S)) /\ Len(Append(s, e)) = Len(s) + 1
  <1>1. PICK S : s \in Seq(S)
    OBVIOUS
  <1>2. s \in Seq(S \cup {e})
    BY <1>1, SeqMonotonic
  <1>3. Append(s, e) \in Seq(S \cup {e}) /\ Len(Append(s, e)) = Len(s) + 1
    BY <1>2, AppendProperties
  <1> QED BY <1>3

\* What is under the n topmost values.
LEMMA Popped ==
  ASSUME NEW s, \E S : s \in Seq(S), NEW n \in 0 .. Len(s)
  PROVE  /\ \E S : SubSeq(s, 1, Len(s) - n) \in Seq(S)
         /\ Len(SubSeq(s, 1, Len(s) - n)) = Len(s) - n
  <1>1. PICK S : s \in Seq(S)
    OBVIOUS
  <1>2. Len(s) \in Nat
    BY <1>1
  <1>3. SubSeq(s, 1, Len(s) - n) \in Seq(S) /\ Len(SubSeq(s, 1, Len(s) - n)) = Len(s) - n
    BY <1>1, <1>2, SubSeqProperties
  <1> QED BY <1>3

\* The verb that stays in the last component makes no component too many.
LEMMA WithVerbShape ==
  ASSUME NEW cs, NEW verb, \E S : cs \in Seq(S)
  PROVE  (\E S : WithVerb(cs, verb) \in Seq(S)) /\ Len(WithVerb(cs, verb)) \in Nat
  <1>1. CASE cs = <<>>
    <2>1. <<":" \o verb>> \in Seq({":" \o verb}) /\ Len(<<":" \o verb>>) = 1
      OBVIOUS
    <2> QED BY <1>1, <2>1 DEF WithVerb
  <1>2. CASE cs # <<>>
    <2>0. PICK R : cs \in Seq(R)
      OBVIOUS
    <2> DEFINE e == cs[Len(cs)] \o ":" \o verb
               S == R \cup {e}
    <2>1. cs \in Seq(S)
      BY <2>0, SeqMonotonic
    <2>2. Len(cs) \in 1 .. Len(cs)
      BY <1>2, <2>0, EmptySeq
    <2>3. [cs EXCEPT ![Len(cs)] = e] \in Seq(S) /\ Len([cs EXCEPT ![Len(cs)] = e]) = Len(cs)
      <3> HIDE DEF e
      <3> e \in S OBVIOUS
      <3> QED BY <2>1, <2>2, ExceptSeq
    <2>4. WithVerb(cs, verb) = [cs EXCEPT ![Len(cs)] = e]
      BY <1>2 DEF WithVerb
    <2>5. Len(WithVerb(cs, verb)) \in Nat
      BY <2>3, <2>4, LenProperties
    <2> QED BY <2>3, <2>4, <2>5
  <1> QED BY <1>1, <1>2

-----------------------------------------------------------------------------
(* NewPattern.                                                             *)

\* One more operation, admitted at the depth reached, is sound there.
LEMMA CheckRealSound ==
  ASSUME NEW S, IInv(S), stage = "check", NEW op \in Operation(S), Admissible(op), CheckReal(op),
         UNCHANGED source
  PROVE  /\ CheckInv'
         /\ depth' \in Seq(Nat) /\ deep' \in BOOLEAN
         /\ pattern' \in PatternIn(S)
  <1> USE DEF Operation
  <1>a. /\ TypeIn(S) /\ CheckInv
        /\ \A j \in 1 .. Len(pattern.ops) : Sound(j)
        /\ \A j \in 1 .. Len(depth) : depth[j] <= pattern.stacksize
        /\ depth[1] = 0
    BY DEF IInv, CheckInv
  <1>1. /\ depth \in Seq(Nat) /\ Len(depth) \in Nat \ {0} /\ Depth = depth[Len(depth)] /\ Depth \in Nat
        /\ pattern.ops \in Seq(Operation(S)) /\ pattern.vars \in Seq(S)
        /\ pattern.stacksize \in Nat /\ pattern.tailLen \in Nat
        /\ DefinitionIn(source, S) /\ op.code \in S /\ op.operand \in Int
        /\ Len(depth) = Len(pattern.ops) + 1 /\ Len(pattern.ops) \in Nat /\ Len(pattern.vars) \in Nat
    BY SMTT(40), <1>a DEF Depth, Last, TypeIn, PatternIn, CheckInv
  <1>2. /\ op.code \in {"push", "pushM", "litPush", "concatN", "capture"}
        /\ op.code = "litPush" => InPool(op)
        /\ op.code = "concatN" => op.operand \in 1 .. Depth
        /\ op.code = "capture" => InPool(op) /\ Depth > 0
    BY <1>1 DEF Admissible, CheckReal
  <1>3. /\ DepthAfter(op) \in Nat
        /\ op.code = "concatN" => DepthAfter(op) = Depth - op.operand + 1
        /\ op.code = "capture" => DepthAfter(op) = Depth - 1
        /\ op.code \in {"push", "pushM", "litPush"} => DepthAfter(op) = Depth + 1
    <2>1. CASE op.code = "concatN"
      BY <1>1, <1>2, <2>1 DEF DepthAfter
    <2>2. CASE op.code = "capture"
      BY <1>1, <1>2, <2>2 DEF DepthAfter
    <2>3. CASE op.code \in {"push", "pushM", "litPush"}
      BY SMTT(40), <1>1, <2>3 DEF DepthAfter
    <2>4. \/ op.code = "concatN" \/ op.code = "capture"
          \/ op.code \in {"push", "pushM", "litPush"}
      BY <1>2
    <2> HIDE DEF DepthAfter
    <2> QED BY <2>1, <2>2, <2>3, <2>4
  <1>4. /\ depth' \in Seq(Nat) /\ Len(depth') = Len(depth) + 1
        /\ \A j \in 1 .. Len(depth) : depth'[j] = depth[j]
        /\ depth'[Len(depth) + 1] = DepthAfter(op)
    <2>1. depth' = Append(depth, DepthAfter(op))
      BY DEF CheckReal
    <2> QED BY SMTT(40), <1>1, <1>3, <2>1, AppendProperties
  <1>5. /\ Typed(op) \in Operation(S) /\ Typed(op).code = op.code
        /\ op.code # "capture" => Typed(op) = op
        /\ op.code = "capture" => Typed(op).operand = Len(pattern.vars) + 1
    <2>1. op = [code |-> op.code, operand |-> op.operand]
      OBVIOUS
    <2>2. [op EXCEPT !.operand = Len(pattern.vars) + 1] = [code |-> op.code, operand |-> Len(pattern.vars) + 1]
      BY <2>1
    <2> QED BY <1>1, <2>1, <2>2 DEF Typed
  <1>6. pattern' = [ops |-> pattern'.ops, vars |-> pattern'.vars,
                    stacksize |-> pattern'.stacksize, tailLen |-> pattern'.tailLen]
    BY DEF CheckReal
  <1>7. pattern'.ops = Append(pattern.ops, Typed(op))
    BY DEF CheckReal
  <1>8. /\ pattern'.ops \in Seq(Operation(S)) /\ Len(pattern'.ops) = Len(pattern.ops) + 1
        /\ \A j \in 1 .. Len(pattern.ops) : pattern'.ops[j] = pattern.ops[j]
        /\ pattern'.ops[Len(pattern.ops) + 1] = Typed(op)
    <2> HIDE DEF Operation
    <2> QED BY <1>1, <1>5, <1>7, AppendProperties
  <1>9. /\ pattern'.vars \in Seq(S)
        /\ Len(pattern'.vars) = IF op.code = "capture" THEN Len(pattern.vars) + 1 ELSE Len(pattern.vars)
    <2>1. CASE op.code = "capture"
      <3>1. source.pool \in Seq(S) /\ op.operand + 1 \in 1 .. Len(source.pool)
        <4>1. source.pool \in Seq(S)
          BY <1>1 DEF DefinitionIn
        <4>2. op.operand \in 0 .. Len(source.pool) - 1
          BY <1>2, <2>1 DEF InPool
        <4> QED BY SMTT(40), <1>1, <4>1, <4>2
      <3>2. source.pool[op.operand + 1] \in S
        BY <3>1, ElementOfSeq
      <3>3. pattern'.vars = Append(pattern.vars, source.pool[op.operand + 1])
        BY <2>1 DEF CheckReal
      <3> QED BY <1>1, <2>1, <3>2, <3>3, AppendProperties
    <2>2. CASE op.code # "capture"
      BY <1>1, <2>2 DEF CheckReal
    <2> QED BY <2>1, <2>2
  <1>n. /\ Len(depth) \in Nat /\ Len(pattern.ops) \in Nat /\ Len(depth) = Len(pattern.ops) + 1
        /\ Len(depth') = Len(depth) + 1 /\ Len(pattern'.ops) = Len(pattern.ops) + 1
        /\ \A j \in 1 .. Len(depth) : depth[j] \in Nat /\ depth'[j] = depth[j]
    <2>1. \A j \in 1 .. Len(depth) : depth[j] \in Nat
      BY <1>1, ElementOfSeq
    <2> QED BY <1>1, <1>4, <1>8, <2>1
  <1>10. /\ pattern'.stacksize \in Nat /\ pattern'.stacksize >= pattern.stacksize
         /\ pattern'.stacksize >= DepthAfter(op)
    BY <1>1, <1>3 DEF CheckReal, AtLeast
  <1>11. pattern'.tailLen \in Nat /\ deep' \in BOOLEAN
    BY SMTT(40), <1>1 DEF CheckReal
  <1>12. pattern' \in PatternIn(S)
    <2> HIDE DEF Operation
    <2> QED BY <1>6, <1>8, <1>9, <1>10, <1>11 DEF PatternIn
  <1>13. ASSUME NEW j \in 1 .. Len(pattern'.ops) PROVE Sound(j)'
    <2>1. CASE j <= Len(pattern.ops)
      <3>1. j \in 1 .. Len(pattern.ops) /\ j \in 1 .. Len(depth) /\ j + 1 \in 1 .. Len(depth)
        BY <1>n, <2>1
      <3>0. Sound(j)
        BY <1>a, <3>1
      <3>2. pattern'.ops[j] = pattern.ops[j] /\ depth'[j] = depth[j] /\ depth'[j + 1] = depth[j + 1]
        BY <1>4, <1>8, <3>1
      <3>3. \A k \in 1 .. Len(pattern.vars) : k \in 1 .. Len(pattern'.vars)
        BY <1>1, <1>9
      <3> QED BY <3>0, <3>2, <3>3 DEF Sound, InPool
    <2>2. CASE j = Len(pattern.ops) + 1
      <3>1. pattern'.ops[j] = Typed(op) /\ depth'[j] = Depth /\ depth'[j + 1] = DepthAfter(op)
        BY <1>1, <1>4, <1>8, <2>2
      <3>2. CASE op.code \in {"push", "pushM"}
        BY <1>3, <1>5, <3>1, <3>2 DEF Sound
      <3>3. CASE op.code = "litPush"
        BY <1>2, <1>3, <1>5, <3>1, <3>3 DEF Sound, InPool
      <3>4. CASE op.code = "concatN"
        BY <1>2, <1>3, <1>5, <3>1, <3>4 DEF Sound
      <3>5. CASE op.code = "capture"
        <4>1. Typed(op).operand \in 1 .. Len(pattern'.vars)
          BY <1>1, <1>5, <1>9, <3>5
        <4> QED BY <1>2, <1>3, <1>5, <3>1, <3>5, <4>1 DEF Sound
      <3> QED BY <1>2, <3>2, <3>3, <3>4, <3>5
    <2> QED BY SMTT(40), <1>1, <1>8, <2>1, <2>2
  <1>14. ASSUME NEW j \in 1 .. Len(depth') PROVE depth'[j] <= pattern'.stacksize
    <2>1. CASE j <= Len(depth)
      <3>1. j \in 1 .. Len(depth) /\ depth'[j] = depth[j] /\ depth[j] \in Nat
        BY <1>n, <2>1
      <3>2. depth[j] <= pattern.stacksize /\ pattern.stacksize \in Nat
        BY <1>a, <1>1, <3>1
      <3> QED BY <1>10, <3>1, <3>2
    <2>2. CASE j = Len(depth) + 1
      BY <1>4, <1>10, <2>2
    <2>3. j <= Len(depth) \/ j = Len(depth) + 1
      BY SMTT(40), <1>1, <1>4
    <2> QED BY <2>1, <2>2, <2>3
  <1>15. depth'[1] = 0 /\ Len(depth') = Len(pattern'.ops) + 1
    BY <1>a, <1>n
  <1> QED BY <1>4, <1>11, <1>12, <1>13, <1>14, <1>15 DEF CheckInv

-----------------------------------------------------------------------------
(* MatchAndEscape.                                                         *)

\* What the inductive invariant says of the operation about to run.
LEMMA NextIsSound ==
  ASSUME NEW S, IInv(S), stage = "match", pc <= Len(pattern.ops)
  PROVE  /\ pc \in 1 .. Len(pattern.ops) /\ Sound(pc) /\ ~OutOfBounds(pattern.ops[pc])
         /\ Len(stack) = depth[pc] /\ depth[pc] \in Nat
         /\ depth[pc + 1] \in Nat /\ depth[pc + 1] <= pattern.stacksize
  <1>1. /\ pc \in 1 .. Len(pattern.ops) + 1 /\ Len(pattern.ops) \in Nat /\ depth \in Seq(Nat)
        /\ Len(depth) = Len(pattern.ops) + 1 /\ Len(stack) = depth[pc]
        /\ DOMAIN captured = 1 .. Len(pattern.vars) /\ pattern.stacksize \in Nat
        /\ Len(pattern.vars) \in Nat
        /\ \A j \in 1 .. Len(pattern.ops) : Sound(j)
        /\ \A j \in 1 .. Len(depth) : depth[j] <= pattern.stacksize
    <2>1. TypeIn(S) /\ CheckInv /\ MatchInv
      BY DEF IInv
    <2>2. /\ pc \in 1 .. Len(pattern.ops) + 1 /\ depth \in Seq(Nat)
          /\ pattern.ops \in Seq(Operation(S)) /\ pattern.vars \in Seq(S)
          /\ pattern.stacksize \in Nat
      BY <2>1 DEF TypeIn, PatternIn, Operation
    <2>3. Len(pattern.ops) \in Nat /\ Len(pattern.vars) \in Nat
      BY <2>2
    <2> QED BY <2>1, <2>2, <2>3 DEF CheckInv, MatchInv
  <1>2. /\ pc \in 1 .. Len(pattern.ops) /\ pc \in 1 .. Len(depth) /\ pc + 1 \in 1 .. Len(depth)
    BY <1>1
  <1>3. depth[pc] \in Nat /\ depth[pc + 1] \in Nat /\ depth[pc + 1] <= pattern.stacksize
    BY <1>1, <1>2, ElementOfSeq
  <1>4. Sound(pc)
    BY <1>1, <1>2
  <1>5. pattern.ops[pc].code = "concatN" => ~(pattern.ops[pc].operand > Len(stack))
    <2>1. pattern.ops[pc].code = "concatN" => pattern.ops[pc].operand \in 1 .. depth[pc]
      BY <1>4 DEF Sound
    <2>2. Len(stack) = depth[pc] /\ depth[pc] \in Nat
      BY <1>1, <1>3
    <2> QED BY <2>1, <2>2
  <1>6. pattern.ops[pc].code = "capture" =>
          stack # <<>> /\ pattern.ops[pc].operand \in DOMAIN captured
    <2>1. pattern.ops[pc].code = "capture" => Len(stack) > 0
      BY <1>1, <1>4 DEF Sound
    <2>2. Len(<<>>) = 0
      OBVIOUS
    <2> QED BY SMTT(40), <1>1, <1>3, <1>4, <2>1, <2>2 DEF Sound
  <1>7. pattern.ops[pc].code = "litPush" => InPool(pattern.ops[pc])
    BY <1>4 DEF Sound
  <1> QED BY <1>1, <1>2, <1>3, <1>4, <1>5, <1>6, <1>7 DEF OutOfBounds

\* An operation leaves as many values as the check counted.
LEMMA RunKeepsDepth ==
  ASSUME NEW S, IInv(S), stage = "match", pc <= Len(pattern.ops), Run(pattern.ops[pc])
  PROVE  (\E T : stack' \in Seq(T)) /\ Len(stack') = depth[pc + 1]
  <1> DEFINE op == pattern.ops[pc]
  <1>1. /\ Sound(pc) /\ Len(stack) = depth[pc] /\ depth[pc] \in Nat
        /\ \E T : stack \in Seq(T)
    BY NextIsSound DEF IInv, Shapes
  <1>2. CASE op.code = "concatN"
    <2>1. /\ op.operand \in 1 .. Len(stack) /\ op.operand \in 0 .. Len(stack)
          /\ depth[pc + 1] = Len(stack) - op.operand + 1
      BY <1>1, <1>2 DEF Sound
    <2>2. /\ \E T : Under(op.operand) \in Seq(T)
          /\ Len(Under(op.operand)) = Len(stack) - op.operand
      BY <1>1, <2>1, Popped DEF Under
    <2>3. stack' = Append(Under(op.operand), FlattenSeq(Top(op.operand)))
      BY <1>2 DEF Run
    <2> QED BY <2>1, <2>2, <2>3, Pushed
  <1>3. CASE op.code = "capture"
    <2>1. 1 \in 0 .. Len(stack) /\ depth[pc + 1] = Len(stack) - 1
      BY <1>1, <1>3 DEF Sound
    <2>2. (\E T : Under(1) \in Seq(T)) /\ Len(Under(1)) = Len(stack) - 1
      BY <1>1, <2>1, Popped DEF Under
    <2>3. stack' = Under(1)
      BY <1>3 DEF Run
    <2> QED BY <2>1, <2>2, <2>3
  <1>4. CASE op.code \notin {"concatN", "capture"}
    <2>1. depth[pc + 1] = Len(stack) + 1
      BY <1>1, <1>4 DEF Sound
    <2>2. stack' = Append(stack, Value(op))
      BY <1>4 DEF Run
    <2> QED BY <1>1, <2>1, <2>2, Pushed
  <1> QED BY <1>2, <1>3, <1>4

\* An operation never reads past the last component.
LEMMA RunKeepsPos ==
  ASSUME NEW S, IInv(S), stage = "match", NEW op, Run(op), Fits(op)
  PROVE  pos' \in 0 .. Len(comps)
  <1>1. /\ pos \in 0 .. Len(comps) /\ Len(comps) \in Nat /\ pattern.tailLen \in Nat
        /\ pos' = pos + Len(Taken(op))
    BY DEF IInv, TypeIn, PatternIn, Run
  <1>2. PICK T : comps \in Seq(T)
    BY DEF IInv, Shapes
  <1>3. CASE op.code = "pushM"
    <2>1. pos + pattern.tailLen <= Len(comps)
      BY <1>3 DEF Fits, TailFits
    <2>2. Taken(op) = SubSeq(comps, pos + 1, Len(comps) - pattern.tailLen)
      BY <1>3 DEF Taken
    <2>3. CASE pos = Len(comps) - pattern.tailLen
      <3>1. SubSeq(comps, pos + 1, Len(comps) - pattern.tailLen) = <<>>
        BY SMTT(40), <1>1, <1>2, <2>3, SubSeqEmpty
      <3>2. Len(Taken(op)) = 0
        BY <2>2, <3>1, EmptySeq
      <3> QED BY <1>1, <3>2
    <2>4. CASE pos < Len(comps) - pattern.tailLen
      <3>1. /\ pos + 1 \in 1 .. Len(comps) + 1
            /\ Len(comps) - pattern.tailLen \in pos .. Len(comps)
        BY <1>1, <2>4
      <3>2. Len(SubSeq(comps, pos + 1, Len(comps) - pattern.tailLen)) = Len(comps) - pattern.tailLen - pos
        BY SMTT(40), <1>1, <1>2, <2>4, <3>1, SubSeqProperties
      <3>3. Len(Taken(op)) = Len(comps) - pattern.tailLen - pos
        BY <2>2, <3>2
      <3> QED BY <1>1, <2>4, <3>3
    <2> QED BY <1>1, <2>1, <2>3, <2>4
  <1>4. CASE op.code \in {"push", "litPush"}
    <2>1. pos < Len(comps)
      BY <1>4 DEF Fits
    <2>2. Len(SubSeq(comps, pos + 1, pos + 1)) = 1
      BY <1>1, <1>2, <2>1, SubSeqProperties
    <2>3. Taken(op) = SubSeq(comps, pos + 1, pos + 1)
      BY <1>4 DEF Taken
    <2> QED BY <1>1, <2>1, <2>2, <2>3
  <1>5. CASE op.code \notin {"pushM", "push", "litPush"}
    <2>1. Taken(op) = <<>>
      BY <1>5 DEF Taken
    <2> QED BY <1>1, <2>1
  <1> QED BY <1>3, <1>4, <1>5

-----------------------------------------------------------------------------
(* The invariant.                                                          *)

LEMMA InitInv ==
  ASSUME NEW S
  PROVE  VMInit => IInv(S)
  <1> SUFFICES ASSUME VMInit PROVE IInv(S)
    OBVIOUS
  <1> USE DEF VMInit, AtRest, NoDefinition, EmptyPattern, NoOutcome
  <1>1. TypeIn(S)
    <2>1. /\ <<>> \in Seq(Operation(S)) /\ <<>> \in Seq(S)
          /\ Len(<<>>) = 0
      BY EmptySeq
    <2>2. DefinitionIn(source, S)
      <3>1. source.version \in Nat /\ source.ops = <<>> /\ source.pool = <<>>
        OBVIOUS
      <3>2. source.whole \in BOOLEAN /\ source.verb \in S \cup {NoVerb}
        BY Zenon
      <3>3. source.ops \in Seq(Operation(S)) /\ source.pool \in Seq(S)
        BY <2>1, <3>1
      <3> QED BY <3>1, <3>2, <3>3 DEF DefinitionIn
    <2>3. pattern \in PatternIn(S)
      BY <2>1 DEF PatternIn
    <2>4. depth \in Seq(Nat)
      OBVIOUS
    <2>5. pattern.ops = <<>> /\ pattern.stacksize = 0 /\ source.ops = <<>>
      OBVIOUS
    <2>6. /\ checked \in 0 .. Len(source.ops) /\ pc \in 1 .. Len(pattern.ops) + 1
          /\ Len(comps) \in Nat /\ pos \in 0 .. Len(comps) /\ Len(stack) <= pattern.stacksize
          /\ outcome.tag = "none" /\ stage = "new" /\ deep \in BOOLEAN
      <3>1. deep \in BOOLEAN /\ outcome.tag = "none" /\ stage = "new"
        OBVIOUS
      <3>2. checked = 0 /\ pc = 1 /\ pos = 0 /\ Len(source.ops) = 0 /\ Len(pattern.ops) = 0
            /\ Len(comps) = 0 /\ Len(stack) = 0 /\ pattern.stacksize = 0
        BY <2>1, <2>5
      <3> HIDE DEF VMInit
      <3> QED BY <3>1, <3>2
    <2> QED BY <2>2, <2>3, <2>4, <2>6 DEF TypeIn
  <1>2. CheckInv
    BY DEF CheckInv
  <1>3. MatchInv
    BY DEF MatchInv, AcceptedNeverPanics
  <1>4. Shapes
    <2>1. <<>> \in Seq({})
      OBVIOUS
    <2> QED BY <2>1 DEF Shapes
  <1> QED BY <1>1, <1>2, <1>3, <1>4 DEF IInv

\* A verdict ends the match and touches nothing else.
LEMMA FinishKeeps ==
  ASSUME NEW S, IInv(S), NEW result, Finish(result), result.tag \in {"ok", "no", "err"}
  PROVE  IInv(S)'
  <1>1. TypeIn(S)'
    BY DEF IInv, TypeIn, Finish, patternVars
  <1>2. CheckInv'
    BY DEF IInv, CheckInv, Sound, InPool, Finish, patternVars
  <1>3. MatchInv' /\ Shapes'
    BY DEF IInv, MatchInv, Shapes, Finish, AcceptedNeverPanics
  <1> QED BY <1>1, <1>2, <1>3 DEF IInv

LEMMA CheckOpKeeps ==
  ASSUME NEW S, IInv(S), CheckOp
  PROVE  IInv(S)'
  <1> DEFINE op == source.ops[checked + 1]
  <1>1. /\ TypeIn(S) /\ CheckInv /\ MatchInv /\ Shapes
        /\ stage = "check" /\ checked < Len(source.ops)
        /\ UNCHANGED <<source, comps, pc, pos, stack, captured, outcome>>
        /\ AtRest /\ AtRest'
    BY DEF IInv, CheckOp, MatchInv, matchVars, AtRest
  <1>2. source.ops \in Seq(Operation(S)) /\ checked \in 0 .. Len(source.ops) /\ Len(source.ops) \in Nat
    BY <1>1 DEF TypeIn, DefinitionIn, Operation
  <1>3. op \in Operation(S)
    BY <1>1, <1>2, ElementOfSeq
  <1>4. Shapes' /\ AcceptedNeverPanics'
    BY <1>1 DEF Shapes, MatchInv, AcceptedNeverPanics
  <1>5. /\ stage' \in {"check", "refused"} /\ checked' \in 0 .. Len(source.ops)
        /\ \/ CheckInv' /\ UNCHANGED <<pattern, deep, depth>>
           \/ /\ CheckInv' /\ depth' \in Seq(Nat) /\ deep' \in BOOLEAN
              /\ pattern' \in PatternIn(S)
    <2>1. CASE ~Admissible(op)
      <3>1. stage' = "refused" /\ UNCHANGED <<checked, pattern, deep, depth>>
        BY <2>1 DEF CheckOp
      <3> QED BY <1>1, <1>2, <3>1 DEF CheckInv, Sound, InPool
    <2>2. CASE Admissible(op)
      <3>1. /\ stage' = stage /\ checked' = checked + 1
            /\ CheckNop(op) \/ CheckReal(op)
        BY <2>2 DEF CheckOp
      <3>2. CASE CheckNop(op)
        BY <1>1, <1>2, <3>1, <3>2 DEF CheckInv, Sound, InPool, CheckNop
      <3>3. CASE CheckReal(op)
        <4>1. /\ CheckInv' /\ depth' \in Seq(Nat) /\ deep' \in BOOLEAN
              /\ pattern' \in PatternIn(S)
          BY <1>1, <1>3, <2>2, <3>3, CheckRealSound
        <4> QED BY <1>1, <1>2, <3>1, <4>1
      <3> QED BY <3>1, <3>2, <3>3
    <2> QED BY <2>1, <2>2
  <1>6. /\ depth' \in Seq(Nat) /\ deep' \in BOOLEAN /\ CheckInv'
        /\ pattern' \in PatternIn(S)
    BY <1>1, <1>5 DEF TypeIn, Operation
  <1>7. pc' = 1 /\ pos' = 0 /\ stack' = <<>> /\ comps' = <<>> /\ outcome' = NoOutcome
    BY <1>1 DEF AtRest
  <1>8. TypeIn(S)'
    <2>1. Len(pattern'.ops) \in Nat /\ pattern'.stacksize \in Nat /\ Len(<<>>) = 0
      BY <1>6 DEF PatternIn
    <2>2. pc' \in 1 .. Len(pattern'.ops) + 1
      BY <1>7, <2>1
    <2>3. outcome'.tag = "none"
      BY <1>7 DEF NoOutcome
    <2>4. DefinitionIn(source, S)' /\ checked' \in 0 .. Len(source'.ops)
      BY <1>1, <1>5 DEF TypeIn, DefinitionIn
    <2>5. Len(comps') \in Nat /\ pos' \in 0 .. Len(comps') /\ Len(stack') <= pattern'.stacksize
      BY <1>7, <2>1
    <2> QED BY <1>5, <1>6, <2>2, <2>3, <2>4, <2>5 DEF TypeIn, Operation
  <1>9. MatchInv'
    BY <1>1, <1>4, <1>5 DEF MatchInv
  <1> QED BY <1>4, <1>6, <1>8, <1>9 DEF IInv

LEMMA StartMatchKeeps ==
  ASSUME NEW S, IInv(S), NEW cs, NEW verb, \E T : cs \in Seq(T), StartMatch(cs, verb)
  PROVE  IInv(S)'
  <1>1. CASE verb # source.verb /\ source.verb # NoVerb
    <2>1. Finish(NotMatched)
      BY <1>1 DEF StartMatch
    <2> QED BY <2>1, FinishKeeps DEF NotMatched
  <1>2. CASE ~(verb # source.verb /\ source.verb # NoVerb)
    <2>1. /\ stage = "ready" /\ stage' = "match"
          /\ comps' = IF verb = source.verb THEN cs ELSE WithVerb(cs, verb)
          /\ captured' = [v \in DOMAIN pattern.vars |-> <<"">>]
          /\ UNCHANGED <<source, checked, pattern, deep, depth, pc, pos, stack, outcome>>
      BY <1>2 DEF StartMatch, patternVars
    <2>2. TypeIn(S) /\ CheckInv /\ MatchInv /\ Shapes /\ AtRest
      BY <2>1 DEF IInv, MatchInv
    <2>3. (\E T : comps' \in Seq(T)) /\ Len(comps') \in Nat
      <3>1. Len(cs) \in Nat
        OBVIOUS
      <3> QED BY <2>1, <3>1, WithVerbShape
    <2>4. pc = 1 /\ pos = 0 /\ stack = <<>> /\ Len(stack) = 0
      BY <2>2 DEF AtRest
    <2>5. TypeIn(S)'
      <3>1. pos' \in 0 .. Len(comps')
        <4>1. pos' = 0 /\ Len(comps') \in Nat
          BY <2>1, <2>3, <2>4
        <4> HIDE <2>1
        <4> QED BY <4>1
      <3> QED BY <2>1, <2>2, <2>3, <3>1 DEF TypeIn, DefinitionIn
    <2>6. CheckInv' /\ depth[1] = 0
      BY ZenonT(40), <2>1, <2>2 DEF CheckInv, Sound, InPool
    <2>7. Len(stack') = depth'[pc'] /\ DOMAIN captured' = 1 .. Len(pattern'.vars)
      <3>1. pattern.vars \in Seq(S)
        BY <2>2 DEF TypeIn, PatternIn
      <3>2. DOMAIN captured' = DOMAIN pattern.vars /\ pattern' = pattern
        BY <2>1
      <3>3. DOMAIN pattern.vars = 1 .. Len(pattern.vars)
        BY <3>1
      <3>4. stack' = stack /\ depth' = depth /\ pc' = pc
        BY <2>1
      <3> QED BY <2>4, <2>6, <3>2, <3>3, <3>4
    <2>8. MatchInv' /\ Shapes'
      BY <2>1, <2>2, <2>3, <2>7 DEF MatchInv, Shapes, AcceptedNeverPanics
    <2> QED BY <2>5, <2>6, <2>8 DEF IInv
  <1> QED BY <1>1, <1>2

LEMMA RunKeeps ==
  ASSUME NEW S, IInv(S), stage = "match", pc <= Len(pattern.ops), Run(pattern.ops[pc]), Fits(pattern.ops[pc])
  PROVE  IInv(S)'
  <1> DEFINE op == pattern.ops[pc]
  <1>1. /\ TypeIn(S) /\ CheckInv /\ MatchInv /\ Shapes
        /\ pc' = pc + 1 /\ UNCHANGED <<stage, source, checked, pattern, deep, depth, comps, outcome>>
    BY DEF IInv, Run, patternVars
  <1>2. /\ pc \in 1 .. Len(pattern.ops) /\ depth[pc + 1] <= pattern.stacksize
        /\ (\E T : stack' \in Seq(T)) /\ Len(stack') = depth[pc + 1]
        /\ pos' \in 0 .. Len(comps)
    BY NextIsSound, RunKeepsDepth, RunKeepsPos
  <1>3. pc' \in 1 .. Len(pattern'.ops) + 1
    <2>1. Len(pattern.ops) \in Nat
      BY <1>1 DEF TypeIn
    <2> QED BY <1>1, <1>2, <2>1
  <1>4. TypeIn(S)'
    BY <1>1, <1>2, <1>3 DEF TypeIn, DefinitionIn
  <1>5. CheckInv'
    BY <1>1 DEF CheckInv, Sound, InPool
  <1>6. DOMAIN captured' = DOMAIN captured
    BY DEF Run
  <1>7. MatchInv' /\ Shapes'
    BY <1>1, <1>2, <1>6 DEF MatchInv, Shapes, AcceptedNeverPanics
  <1> QED BY <1>4, <1>5, <1>7 DEF IInv

LEMMA BeginKeeps ==
  ASSUME NEW S, IInv(S), NEW d, DefinitionIn(d, S), Begin(d)
  PROVE  IInv(S)'
  <1>1. /\ source' = d /\ stage' \in {"check", "refused"} /\ stage = "new"
        /\ UNCHANGED <<checked, pattern, deep, depth, comps, pc, pos, stack, captured, outcome>>
    BY DEF Begin, matchVars
  <1>2. /\ TypeIn(S) /\ CheckInv /\ MatchInv /\ Shapes
        /\ checked = 0 /\ pattern.ops = <<>>
    BY <1>1 DEF IInv, MatchInv, EmptyPattern
  <1>3. TypeIn(S)'
    <2>1. Len(d.ops) \in Nat
      BY DEF DefinitionIn
    <2>2. checked' \in 0 .. Len(source'.ops)
      BY <1>1, <1>2, <2>1
    <2>3. DefinitionIn(source, S)'
      BY <1>1 DEF DefinitionIn
    <2> QED BY <1>1, <1>2, <2>2, <2>3 DEF TypeIn
  <1>4. CheckInv'
    <2>1. \A j \in 1 .. Len(pattern'.ops) : FALSE
      BY <1>1, <1>2, EmptySeq
    <2> QED BY <1>1, <1>2, <2>1 DEF CheckInv
  <1>5. MatchInv' /\ Shapes'
    BY <1>1, <1>2 DEF MatchInv, Shapes, AtRest, AcceptedNeverPanics
  <1> QED BY <1>3, <1>4, <1>5 DEF IInv

LEMMA AcceptKeeps ==
  ASSUME NEW S, IInv(S), Accept
  PROVE  IInv(S)'
  <1>1. /\ stage = "check" /\ stage' = "ready"
        /\ UNCHANGED <<source, checked, pattern, deep, depth, comps, pc, pos, stack, captured, outcome>>
    BY DEF Accept, patternVars, matchVars
  <1>2. TypeIn(S)' /\ CheckInv'
    BY ZenonT(40), <1>1 DEF IInv, TypeIn, DefinitionIn, CheckInv, Sound, InPool
  <1>3. MatchInv' /\ Shapes'
    BY <1>1 DEF IInv, MatchInv, Shapes, AtRest, AcceptedNeverPanics
  <1> QED BY <1>2, <1>3 DEF IInv

\* What an operation may do: never panic.
LEMMA ExecuteCases ==
  ASSUME NEW S, IInv(S), Execute
  PROVE  /\ stage = "match" /\ pc <= Len(pattern.ops)
         /\ LET op == pattern.ops[pc]
            IN  \/ ~Fits(op) /\ Finish(NotMatched)
                \/ Fits(op) /\ IsMalformed(op) /\ Finish(MalformedPath)
                \/ Fits(op) /\ ~IsMalformed(op) /\ Run(op)
  <1> DEFINE op == pattern.ops[pc]
  <1>1. stage = "match" /\ pc <= Len(pattern.ops) /\ ~OutOfBounds(op)
    BY NextIsSound DEF Execute
  <1>2. \/ ~Fits(op) /\ Finish(NotMatched)
        \/ Fits(op) /\ IsMalformed(op) /\ Finish(MalformedPath)
        \/ Fits(op) /\ ~IsMalformed(op) /\ Run(op)
    BY <1>1 DEF Execute
  <1> QED BY <1>1, <1>2

LEMMA ExecuteKeeps ==
  ASSUME NEW S, IInv(S), Execute
  PROVE  IInv(S)'
  BY ExecuteCases, FinishKeeps, RunKeeps DEF NotMatched, MalformedPath

LEMMA EndMatchKeeps ==
  ASSUME NEW S, IInv(S), EndMatch
  PROVE  IInv(S)'
  <1>1. Finish(NotMatched) \/ Finish(Accepted(Bound))
    BY DEF EndMatch
  <1> QED BY <1>1, FinishKeeps DEF NotMatched, Accepted

LEMMA StutterKeeps ==
  ASSUME NEW S, IInv(S), UNCHANGED vmVars
  PROVE  IInv(S)'
  <1>1. UNCHANGED <<stage, source, checked, pattern, deep, depth, comps, pc, pos, stack, captured, outcome>>
    BY DEF vmVars, patternVars, matchVars
  <1>2. TypeIn(S)' /\ CheckInv'
    BY ZenonT(40), <1>1 DEF IInv, TypeIn, DefinitionIn, CheckInv, Sound, InPool
  <1>3. MatchInv' /\ Shapes'
    BY <1>1 DEF IInv, MatchInv, Shapes, AtRest, AcceptedNeverPanics
  <1> QED BY <1>2, <1>3 DEF IInv

LEMMA NextInv == IInv(STRING) /\ [VMNext]_vmVars => IInv(STRING)'
  <1> SUFFICES ASSUME IInv(STRING), [VMNext]_vmVars PROVE IInv(STRING)'
    OBVIOUS
  <1>1. CASE NewPattern
    <2>1. PICK d \in Definition : Begin(d)
      BY <1>1 DEF NewPattern
    <2>2. DefinitionIn(d, STRING)
      BY PatternVMAssumption DEF DefinitionOK, DefinitionIn, Operation
    <2> QED BY <2>1, <2>2, BeginKeeps
  <1>2. CASE CheckOp
    BY <1>2, CheckOpKeeps
  <1>3. CASE Accept
    BY <1>3, AcceptKeeps
  <1>4. CASE Match
    <2>1. PICK k \in Lookup : StartMatch(k.comps, k.verb)
      BY <1>4 DEF Match
    <2>2. k.comps \in Seq(STRING)
      BY PatternVMAssumption
    <2> QED BY <2>1, <2>2, StartMatchKeeps
  <1>5. CASE Execute
    BY <1>5, ExecuteKeeps
  <1>6. CASE EndMatch
    BY <1>6, EndMatchKeeps
  <1>7. CASE UNCHANGED vmVars
    BY <1>7, StutterKeeps
  <1> QED BY <1>1, <1>2, <1>3, <1>4, <1>5, <1>6, <1>7 DEF VMNext

-----------------------------------------------------------------------------
\* Type correctness of the machine for any program and any path, with the
\* stack never deeper than the size NewPattern reserves for it
\* (pattern.go:107, 179).
THEOREM VMTypeCorrect == VMSpec => []VMTypeOK
  <1>1. VMInit => IInv(STRING)
    BY InitInv
  <1>2. IInv(STRING) /\ [VMNext]_vmVars => IInv(STRING)'
    BY NextInv
  <1>3. IInv(STRING) => VMTypeOK
    BY DEF IInv, TypeIn, DefinitionIn, PatternIn, Operation, VMTypeOK, DefinitionOK
  <1> QED BY <1>1, <1>2, <1>3, PTL DEF VMSpec

\* Whatever opcodes, operands and pool NewPattern is given, if it returns a
\* pattern then MatchAndEscape never takes from an empty stack, reads past
\* the pool or writes past the variables (pattern.go:78-147, 202-222).
THEOREM AcceptedProgramsNeverPanic == VMSpec => []AcceptedNeverPanics
  <1>1. VMInit => IInv(STRING)
    BY InitInv
  <1>2. IInv(STRING) /\ [VMNext]_vmVars => IInv(STRING)'
    BY NextInv
  <1>3. IInv(STRING) => AcceptedNeverPanics
    BY DEF IInv, MatchInv
  <1> QED BY <1>1, <1>2, <1>3, PTL DEF VMSpec

-----------------------------------------------------------------------------
(* Templates.                                                              *)

\* The strings that a compiled template has.
Texts == STRING \cup Codes \cup {Str(w) : w \in Names}

FlatLeaf == {Star, DStar} \cup {Lit(x) : x \in Texts}
FlatVar  == [name : Texts, lo : Nat, hi : Nat]
FlatSoFar == [leaves : Seq(FlatLeaf), vars : Seq(FlatVar)]

-----------------------------------------------------------------------------
(* The layout of a program: before operation j it has gone through K[j]      *)
(* leaves and V[j] variables, and the R[j] last values of the stack are what  *)
(* the last R[j] leaves have pushed.                                        *)

Pushes(leaf, op) ==
  \/ op.code = "push" /\ leaf.kind = "star"
  \/ op.code = "pushM" /\ leaf.kind = "dstar"
  \/ op.code = "litPush" /\ leaf.kind = "lit" /\ leaf.lit = Str(op.operand)

LaysLeaf(leaves, o, K, V, R, j) ==
  /\ K[j] < Len(leaves) /\ Pushes(leaves[K[j] + 1], o[j])
  /\ K[j + 1] = K[j] + 1 /\ V[j + 1] = V[j] /\ R[j + 1] = R[j] + 1

\* What is joined is captured at once.
LaysJoin(vars, o, K, V, R, j) ==
  /\ o[j].code = "concatN" /\ o[j].operand \in 1 .. R[j]
  /\ j < Len(o) /\ o[j + 1].code = "capture"
  /\ V[j] < Len(vars)
  /\ vars[V[j] + 1].hi = K[j] /\ vars[V[j] + 1].lo = K[j] - o[j].operand + 1
  /\ K[j + 1] = K[j] /\ V[j + 1] = V[j] /\ R[j + 1] = 0

LaysCapture(vars, o, K, V, R, j) ==
  /\ o[j].code = "capture" /\ j > 1 /\ o[j - 1].code = "concatN"
  /\ V[j] < Len(vars) /\ vars[V[j] + 1].name = Str(o[j].operand)
  /\ K[j + 1] = K[j] /\ V[j + 1] = V[j] + 1 /\ R[j + 1] = 0

Lays(leaves, vars, o, K, V, R, j) ==
  \/ LaysLeaf(leaves, o, K, V, R, j)
  \/ LaysJoin(vars, o, K, V, R, j)
  \/ LaysCapture(vars, o, K, V, R, j)

Layout(leaves, vars, o, K, V, R) ==
  /\ K \in [1 .. Len(o) + 1 -> 0 .. Len(leaves)]
  /\ V \in [1 .. Len(o) + 1 -> 0 .. Len(vars)]
  /\ R \in [1 .. Len(o) + 1 -> Nat]
  /\ K[1] = 0 /\ V[1] = 0 /\ R[1] = 0
  /\ K[Len(o) + 1] = Len(leaves) /\ V[Len(o) + 1] = Len(vars)
  /\ \A j \in 1 .. Len(o) : Lays(leaves, vars, o, K, V, R, j)

\* What stands where in two sequences joined.
LEMMA Joining ==
  ASSUME NEW S, NEW s \in Seq(S), NEW t \in Seq(S)
  PROVE  /\ s \o t \in Seq(S) /\ Len(s \o t) = Len(s) + Len(t) /\ Len(s) \in Nat /\ Len(t) \in Nat
         /\ \A i \in 1 .. Len(s) : (s \o t)[i] = s[i]
         /\ \A i \in 1 .. Len(t) : (s \o t)[Len(s) + i] = t[i]
  <1>1. s \o t \in Seq(S) /\ Len(s \o t) = Len(s) + Len(t) /\ Len(s) \in Nat /\ Len(t) \in Nat
    BY ConcatProperties
  <1>2. \A j \in 1 .. Len(s) + Len(t) : (s \o t)[j] = IF j <= Len(s) THEN s[j] ELSE t[j - Len(s)]
    BY ConcatProperties, <1>1
  <1> DEFINE u == s \o t
  <1> HIDE DEF u
  <1>3. \A i \in 1 .. Len(s) : u[i] = s[i]
    BY <1>1, <1>2 DEF u
  <1>4. ASSUME NEW i \in 1 .. Len(t) PROVE u[Len(s) + i] = t[i]
    <2> DEFINE j == Len(s) + i
    <2>1. j \in 1 .. Len(s) + Len(t) /\ ~(j <= Len(s)) /\ j - Len(s) = i
      BY <1>1
    <2> HIDE DEF j
    <2>2. u[j] = t[j - Len(s)]
      BY <1>2, <2>1 DEF u
    <2> QED BY <2>1, <2>2 DEF j
  <1> QED BY <1>1, <1>3, <1>4 DEF u

\* Laid out, with the last r leaves' values on the stack.
LaidTo(leaves, vars, o, r) ==
  \E K, V, R : Layout(leaves, vars, o, K, V, R) /\ R[Len(o) + 1] = r

\* More leaves, each with the operation that pushes it.
LEMMA LayLeaves ==
  ASSUME NEW leaves \in Seq(FlatLeaf), NEW vars \in Seq(FlatVar), NEW o \in Seq(RawOp),
         NEW r \in Nat, LaidTo(leaves, vars, o, r),
         NEW ls \in Seq(FlatLeaf), NEW ms \in Seq(RawOp), Len(ls) = Len(ms),
         \A k \in 1 .. Len(ls) : Pushes(ls[k], ms[k])
  PROVE  LaidTo(leaves \o ls, vars, o \o ms, r + Len(ls))
  <1>0. PICK K, V, R : Layout(leaves, vars, o, K, V, R) /\ R[Len(o) + 1] = r
    BY DEF LaidTo
  <1> DEFINE n == Len(o)
             m == Len(ls)
             end == n + m + 1
             lv == leaves \o ls
             op == o \o ms
             K2 == [j \in 1 .. end |-> IF j <= n + 1 THEN K[j] ELSE K[n + 1] + (j - (n + 1))]
             V2 == [j \in 1 .. end |-> IF j <= n + 1 THEN V[j] ELSE V[n + 1]]
             R2 == [j \in 1 .. end |-> IF j <= n + 1 THEN R[j] ELSE R[n + 1] + (j - (n + 1))]
  <1>1. /\ n \in Nat /\ m \in Nat /\ Len(leaves) \in Nat /\ Len(vars) \in Nat
        /\ Len(lv) = Len(leaves) + m /\ Len(op) = n + m
        /\ \A i \in 1 .. Len(leaves) : lv[i] = leaves[i]
        /\ \A i \in 1 .. m : lv[Len(leaves) + i] = ls[i]
        /\ \A i \in 1 .. n : op[i] = o[i]
        /\ \A i \in 1 .. m : op[n + i] = ms[i]
    <2>1. /\ Len(lv) = Len(leaves) + Len(ls) /\ Len(leaves) \in Nat /\ Len(ls) \in Nat
          /\ \A i \in 1 .. Len(leaves) : lv[i] = leaves[i]
          /\ \A i \in 1 .. Len(ls) : lv[Len(leaves) + i] = ls[i]
      <3> HIDE DEF n, m, end, K2, V2, R2, op
      <3> QED BY ONLY leaves \in Seq(FlatLeaf), ls \in Seq(FlatLeaf), Joining
    <2>2. /\ Len(op) = Len(o) + Len(ms) /\ Len(o) \in Nat
          /\ \A i \in 1 .. Len(o) : op[i] = o[i]
          /\ \A i \in 1 .. Len(ms) : op[Len(o) + i] = ms[i]
      BY Joining
    <2>3. Len(vars) \in Nat
      OBVIOUS
    <2> HIDE DEF lv, op
    <2> QED BY <2>1, <2>2, <2>3
  <1>2. /\ K \in [1 .. n + 1 -> 0 .. Len(leaves)] /\ V \in [1 .. n + 1 -> 0 .. Len(vars)]
        /\ R \in [1 .. n + 1 -> Nat] /\ K[1] = 0 /\ V[1] = 0 /\ R[1] = 0
        /\ K[n + 1] = Len(leaves) /\ V[n + 1] = Len(vars)
        /\ \A j \in 1 .. n : Lays(leaves, vars, o, K, V, R, j)
    BY <1>0 DEF Layout
  <1> HIDE DEF n, m, lv, op
  <1>3. /\ K2 \in [1 .. end -> 0 .. Len(lv)] /\ V2 \in [1 .. end -> 0 .. Len(vars)]
        /\ R2 \in [1 .. end -> Nat]
    <2>1. ASSUME NEW j \in 1 .. end
          PROVE  /\ (IF j <= n + 1 THEN K[j] ELSE K[n + 1] + (j - (n + 1))) \in 0 .. Len(lv)
                 /\ (IF j <= n + 1 THEN V[j] ELSE V[n + 1]) \in 0 .. Len(vars)
                 /\ (IF j <= n + 1 THEN R[j] ELSE R[n + 1] + (j - (n + 1))) \in Nat
      <3>1. CASE j <= n + 1
        <4>1. j \in 1 .. n + 1
          BY <1>1, <3>1
        <4>2. K[j] \in 0 .. Len(leaves) /\ V[j] \in 0 .. Len(vars) /\ R[j] \in Nat
          BY <1>2, <4>1
        <4> QED BY <1>1, <3>1, <4>2
      <3>2. CASE ~(j <= n + 1)
        <4>1. n + 1 \in 1 .. n + 1
          BY <1>1
        <4>2. V[n + 1] \in 0 .. Len(vars) /\ R[n + 1] \in Nat /\ K[n + 1] = Len(leaves)
          BY <1>2, <4>1
        <4>3. j - (n + 1) \in 0 .. m
          BY <1>1, <3>2
        <4> DEFINE d == j - (n + 1)
                   l == Len(leaves)
                   k == Len(lv)
        <4>4. l \in Nat /\ k = l + m /\ m \in Nat
          BY <1>1
        <4>5. K[n + 1] = l /\ d \in 0 .. m
          BY <4>2, <4>3
        <4> HIDE DEF d, l, k
        <4>6. K[n + 1] + d \in 0 .. k
          BY <4>4, <4>5
        <4>7. R[n + 1] + d \in Nat
          BY <4>2, <4>4, <4>5
        <4> QED BY <3>2, <4>2, <4>6, <4>7, Zenon DEF d, k
      <3> QED BY <3>1, <3>2
    <2> QED BY <2>1
  <1>4. /\ \A j \in 1 .. n + 1 : K2[j] = K[j] /\ V2[j] = V[j] /\ R2[j] = R[j]
        /\ \A i \in 0 .. m : /\ K2[n + 1 + i] = Len(leaves) + i /\ V2[n + 1 + i] = Len(vars)
                             /\ R2[n + 1 + i] = R[n + 1] + i
    <2>1. \A j \in 1 .. n + 1 : K2[j] = K[j] /\ V2[j] = V[j] /\ R2[j] = R[j]
      BY <1>1
    <2>2. ASSUME NEW i \in 0 .. m
          PROVE  /\ K2[n + 1 + i] = Len(leaves) + i /\ V2[n + 1 + i] = Len(vars)
                 /\ R2[n + 1 + i] = R[n + 1] + i
      <3>1. CASE i = 0
        <4>1. n + 1 \in 1 .. n + 1 /\ n + 1 + i = n + 1
          BY <1>1, <3>1
        <4>2. K2[n + 1] = K[n + 1] /\ V2[n + 1] = V[n + 1] /\ R2[n + 1] = R[n + 1] /\ R[n + 1] \in Nat
          BY <1>2, <2>1, <4>1
        <4>3. R[n + 1] + i = R[n + 1] /\ Len(leaves) + i = Len(leaves)
          BY <1>1, <3>1, <4>2
        <4> HIDE DEF K2, V2, R2
        <4> QED BY <1>2, <4>1, <4>2, <4>3
      <3>2. CASE i # 0
        <4> DEFINE j == n + 1 + i
        <4>1. j \in 1 .. end /\ ~(j <= n + 1)
          BY <1>1, <3>2
        <4>2. j - (n + 1) = i
          BY <1>1
        <4> HIDE DEF j, end
        <4>3. K2[j] = K[n + 1] + (j - (n + 1)) /\ V2[j] = V[n + 1] /\ R2[j] = R[n + 1] + (j - (n + 1))
          BY <4>1
        <4>4. K2[j] = Len(leaves) + i /\ V2[j] = Len(vars) /\ R2[j] = R[n + 1] + i
          BY <1>2, <4>2, <4>3
        <4> QED BY <4>4 DEF j
      <3> QED BY <3>1, <3>2
    <2> QED BY <2>1, <2>2
  <1> HIDE DEF K2, V2, R2
  <1>5. ASSUME NEW j \in 1 .. n PROVE Lays(lv, vars, op, K2, V2, R2, j)
    <2>1. j \in 1 .. n + 1 /\ j + 1 \in 1 .. n + 1 /\ (j < n => j + 1 \in 1 .. n) /\ (j > 1 => j - 1 \in 1 .. n)
      BY <1>1
    <2>2. /\ op[j] = o[j] /\ (j < n => op[j + 1] = o[j + 1]) /\ (j > 1 => op[j - 1] = o[j - 1])
          /\ K2[j] = K[j] /\ V2[j] = V[j] /\ R2[j] = R[j]
          /\ K2[j + 1] = K[j + 1] /\ V2[j + 1] = V[j + 1] /\ R2[j + 1] = R[j + 1]
      BY <1>1, <1>4, <2>1
    <2>3. K[j] \in Nat /\ (K[j] < Len(leaves) => K[j] < Len(lv) /\ lv[K[j] + 1] = leaves[K[j] + 1])
      <3>1. K[j] \in 0 .. Len(leaves)
        BY <1>2, <2>1
      <3>2. K[j] < Len(leaves) => K[j] + 1 \in 1 .. Len(leaves)
        BY <1>1, <3>1
      <3> QED BY <1>1, <3>1, <3>2
    <2>4. j < Len(o) => j < Len(op)
      BY <1>1 DEF n
    <2>5. Lays(leaves, vars, o, K, V, R, j)
      BY <1>2
    <2>6. CASE LaysLeaf(leaves, o, K, V, R, j)
      BY <2>2, <2>3, <2>6 DEF LaysLeaf, Lays
    <2>7. CASE LaysJoin(vars, o, K, V, R, j)
      BY <2>2, <2>4, <2>7 DEF LaysJoin, Lays, n
    <2>8. CASE LaysCapture(vars, o, K, V, R, j)
      BY <2>2, <2>8 DEF LaysCapture, Lays
    <2> QED BY <2>5, <2>6, <2>7, <2>8 DEF Lays
  <1>6. ASSUME NEW k \in 1 .. m PROVE Lays(lv, vars, op, K2, V2, R2, n + k)
    <2>1. k \in 0 .. m /\ k - 1 \in 0 .. m /\ n + 1 + (k - 1) = n + k /\ n + 1 + k = n + k + 1
      BY <1>1
    <2>2. op[n + k] = ms[k] /\ lv[Len(leaves) + k] = ls[k] /\ Pushes(ls[k], ms[k])
      BY <1>1 DEF m
    <2>3. /\ K2[n + 1 + (k - 1)] = Len(leaves) + (k - 1) /\ V2[n + 1 + (k - 1)] = Len(vars)
          /\ R2[n + 1 + (k - 1)] = R[n + 1] + (k - 1)
      BY <1>4, <2>1
    <2>4. K2[n + 1 + k] = Len(leaves) + k /\ V2[n + 1 + k] = Len(vars) /\ R2[n + 1 + k] = R[n + 1] + k
      BY <1>4, <2>1
    <2>5. /\ K2[n + k] = Len(leaves) + (k - 1) /\ V2[n + k] = Len(vars)
          /\ R2[n + k] = R[n + 1] + (k - 1)
          /\ K2[n + k + 1] = Len(leaves) + k /\ V2[n + k + 1] = Len(vars) /\ R2[n + k + 1] = R[n + 1] + k
      BY <2>1, <2>3, <2>4
    <2>6. R[n + 1] \in Nat
      BY <1>1, <1>2
    <2>7. K2[n + k] < Len(lv) /\ K2[n + k] + 1 = Len(leaves) + k
          /\ K2[n + k + 1] = K2[n + k] + 1 /\ R2[n + k + 1] = R2[n + k] + 1
      <3> DEFINE j == n + k
      <3>1. /\ K2[j] = Len(leaves) + (k - 1) /\ K2[j + 1] = Len(leaves) + k
            /\ R2[j] = R[n + 1] + (k - 1) /\ R2[j + 1] = R[n + 1] + k
        BY <2>5
      <3>2. /\ Len(leaves) \in Nat /\ m \in Nat /\ Len(lv) = Len(leaves) + m
        BY <1>1
      <3> HIDE DEF j
      <3>3. K2[j] < Len(lv) /\ K2[j] + 1 = Len(leaves) + k /\ K2[j + 1] = K2[j] + 1 /\ R2[j + 1] = R2[j] + 1
        BY <2>6, <3>1, <3>2
      <3> QED BY <3>3 DEF j
    <2> QED BY <2>2, <2>5, <2>7 DEF Lays, LaysLeaf
  <1>7. Layout(lv, vars, op, K2, V2, R2)
    <2>1. Len(op) + 1 = end /\ 1 \in 1 .. n + 1 /\ end = n + 1 + m /\ m \in 0 .. m
      BY <1>1
    <2>2. K2[1] = 0 /\ V2[1] = 0 /\ R2[1] = 0 /\ K2[end] = Len(lv) /\ V2[end] = Len(vars)
      BY <1>1, <1>2, <1>4, <2>1
    <2>3. ASSUME NEW j \in 1 .. Len(op) PROVE Lays(lv, vars, op, K2, V2, R2, j)
      <3>1. CASE j \in 1 .. n
        BY <1>5, <3>1
      <3>2. CASE j \notin 1 .. n
        <4>1. j - n \in 1 .. m /\ j = n + (j - n)
          BY <1>1, <3>2
        <4> QED BY <1>6, <4>1
      <3> QED BY <3>1, <3>2
    <2> HIDE DEF end
    <2> QED BY <1>3, <2>1, <2>2, <2>3 DEF Layout
  <1>8. R2[n + m + 1] = R[n + 1] + m
    <2>1. m \in 0 .. m /\ n + m + 1 = n + 1 + m
      BY <1>1
    <2> QED BY <1>4, <2>1
  <1>9. Len(op) + 1 = n + m + 1 /\ R[n + 1] = r
    BY <1>0, <1>1 DEF n
  <1>10. LaidTo(lv, vars, op, r + m)
    BY <1>7, <1>8, <1>9 DEF LaidTo
  <1> QED BY <1>10 DEF lv, op, m

\* A variable over the last n leaves.
LEMMA LayVariable ==
  ASSUME NEW leaves \in Seq(FlatLeaf), NEW vars \in Seq(FlatVar), NEW o \in Seq(RawOp),
         NEW r \in Nat, LaidTo(leaves, vars, o, r), NEW n \in 1 .. r, n <= Len(leaves), NEW w \in Names
  PROVE  LaidTo(leaves, Append(vars, Var(Str(w), Len(leaves) - n + 1, Len(leaves))),
                o \o <<Op("concatN", n), Op("capture", w)>>, 0)
  <1>0. PICK K, V, R : Layout(leaves, vars, o, K, V, R) /\ R[Len(o) + 1] = r
    BY DEF LaidTo
  <1> DEFINE N == Len(o) + 1
             var == Var(Str(w), Len(leaves) - n + 1, Len(leaves))
             vs == Append(vars, var)
             ms == <<Op("concatN", n), Op("capture", w)>>
             op == o \o ms
             K2 == [j \in 1 .. N + 2 |-> IF j <= N THEN K[j] ELSE Len(leaves)]
             V2 == [j \in 1 .. N + 2 |-> IF j <= N THEN V[j] ELSE IF j = N + 1 THEN Len(vars) ELSE Len(vars) + 1]
             R2 == [j \in 1 .. N + 2 |-> IF j <= N THEN R[j] ELSE 0]
  <1>1. /\ K \in [1 .. N -> 0 .. Len(leaves)] /\ V \in [1 .. N -> 0 .. Len(vars)]
        /\ R \in [1 .. N -> Nat] /\ K[1] = 0 /\ V[1] = 0 /\ R[1] = 0
        /\ K[N] = Len(leaves) /\ V[N] = Len(vars)
        /\ \A j \in 1 .. N - 1 : Lays(leaves, vars, o, K, V, R, j)
        /\ R[N] = r
    BY <1>0 DEF Layout
  <1>2. Len(o) \in Nat /\ N \in Nat /\ N >= 1 /\ Len(o) = N - 1 /\ Len(leaves) \in Nat /\ Len(vars) \in Nat
        /\ n \in Nat /\ n > 0
    OBVIOUS
  <1>3. /\ Len(op) = N + 1 /\ op[N] = Op("concatN", n) /\ op[N + 1] = Op("capture", w)
        /\ \A i \in 1 .. N - 1 : op[i] = o[i]
    <2>1. op = Append(Append(o, Op("concatN", n)), Op("capture", w))
      OBVIOUS
    <2> HIDE DEF op
    <2> DEFINE T == RawOp \cup {Op("concatN", n), Op("capture", w)}
               o1 == Append(o, Op("concatN", n))
    <2>2. o \in Seq(T)
      BY SeqMonotonic
    <2>3. /\ o1 \in Seq(T) /\ Len(o1) = N /\ o1[N] = Op("concatN", n)
          /\ \A i \in 1 .. N - 1 : o1[i] = o[i]
      <3> HIDE DEF T, N
      <3>1. Op("concatN", n) \in T
        BY DEF T
      <3>2. Len(o) + 1 = N /\ Len(o) = N - 1
        BY DEF N
      <3> QED BY <1>2, <2>2, <3>1, <3>2, AppendProperties
    <2>4. op = Append(o1, Op("capture", w)) /\ Op("capture", w) \in T
      BY <2>1
    <2> HIDE DEF o1, T, N
    <2> QED BY <1>2, <2>3, <2>4, AppendProperties
  <1>4. /\ Len(vs) = Len(vars) + 1 /\ vs[Len(vars) + 1] = var
        /\ \A v \in 1 .. Len(vars) : vs[v] = vars[v]
    <2>1. vars \in Seq(FlatVar \cup {var})
      BY SeqMonotonic
    <2> HIDE DEF var
    <2> QED BY <2>1, AppendProperties
  <1>5. var.name = Str(w) /\ var.lo = Len(leaves) - n + 1 /\ var.hi = Len(leaves)
    BY DEF Var
  <1> HIDE DEF N, op, vs, var
  <1>6. /\ K2 \in [1 .. N + 2 -> 0 .. Len(leaves)] /\ V2 \in [1 .. N + 2 -> 0 .. Len(vars) + 1]
        /\ R2 \in [1 .. N + 2 -> Nat]
        /\ \A j \in 1 .. N : K2[j] = K[j] /\ V2[j] = V[j] /\ R2[j] = R[j]
        /\ K2[N + 1] = Len(leaves) /\ V2[N + 1] = Len(vars) /\ R2[N + 1] = 0
        /\ K2[N + 2] = Len(leaves) /\ V2[N + 2] = Len(vars) + 1 /\ R2[N + 2] = 0
    <2>1. ASSUME NEW j \in 1 .. N + 2
          PROVE  /\ (IF j <= N THEN K[j] ELSE Len(leaves)) \in 0 .. Len(leaves)
                 /\ (IF j <= N THEN V[j] ELSE IF j = N + 1 THEN Len(vars) ELSE Len(vars) + 1) \in 0 .. Len(vars) + 1
                 /\ (IF j <= N THEN R[j] ELSE 0) \in Nat
      <3>1. CASE j <= N
        <4>1. j \in 1 .. N
          BY <1>2, <3>1
        <4>2. K[j] \in 0 .. Len(leaves) /\ V[j] \in 0 .. Len(vars) /\ R[j] \in Nat
          BY <1>1, <4>1
        <4> QED BY <1>2, <3>1, <4>2
      <3>2. CASE ~(j <= N)
        BY <1>2, <3>2
      <3> QED BY <3>1, <3>2
    <2>2. /\ K2 \in [1 .. N + 2 -> 0 .. Len(leaves)] /\ V2 \in [1 .. N + 2 -> 0 .. Len(vars) + 1]
          /\ R2 \in [1 .. N + 2 -> Nat]
      BY <2>1
    <2>3. \A j \in 1 .. N : K2[j] = K[j] /\ V2[j] = V[j] /\ R2[j] = R[j]
      BY <1>2
    <2>4. /\ N + 1 \in 1 .. N + 2 /\ ~(N + 1 <= N) /\ N + 2 \in 1 .. N + 2 /\ ~(N + 2 <= N) /\ N + 2 # N + 1
      BY <1>2
    <2>5. /\ K2[N + 1] = Len(leaves) /\ V2[N + 1] = Len(vars) /\ R2[N + 1] = 0
          /\ K2[N + 2] = Len(leaves) /\ V2[N + 2] = Len(vars) + 1 /\ R2[N + 2] = 0
      BY <2>4
    <2> QED BY <2>2, <2>3, <2>5
  <1> HIDE DEF K2, V2, R2
  <1>7. ASSUME NEW j \in 1 .. N - 1 PROVE Lays(leaves, vs, op, K2, V2, R2, j)
    <2>1. j \in 1 .. N /\ j + 1 \in 1 .. N /\ (j < N - 1 => j + 1 \in 1 .. N - 1) /\ (j > 1 => j - 1 \in 1 .. N - 1)
      BY <1>2
    <2>2. /\ op[j] = o[j] /\ (j < N - 1 => op[j + 1] = o[j + 1]) /\ (j > 1 => op[j - 1] = o[j - 1])
          /\ K2[j] = K[j] /\ V2[j] = V[j] /\ R2[j] = R[j]
          /\ K2[j + 1] = K[j + 1] /\ V2[j + 1] = V[j + 1] /\ R2[j + 1] = R[j + 1]
      BY <1>3, <1>6, <2>1
    <2>3. V[j] < Len(vars) => V[j] < Len(vs) /\ vs[V[j] + 1] = vars[V[j] + 1]
      <3>1. V[j] \in 0 .. Len(vars)
        BY <1>1, <2>1
      <3>2. V[j] < Len(vars) => V[j] + 1 \in 1 .. Len(vars)
        BY <1>2, <3>1
      <3> QED BY <1>2, <1>4, <3>1, <3>2
    <2>4. j < Len(o) => j < Len(op) /\ j < N - 1
      BY <1>2, <1>3
    <2>5. Lays(leaves, vars, o, K, V, R, j)
      BY <1>1
    <2>6. CASE LaysLeaf(leaves, o, K, V, R, j)
      BY <2>2, <2>6 DEF LaysLeaf, Lays
    <2>7. CASE LaysJoin(vars, o, K, V, R, j)
      BY <2>2, <2>3, <2>4, <2>7 DEF LaysJoin, Lays
    <2>8. CASE LaysCapture(vars, o, K, V, R, j)
      BY <2>2, <2>3, <2>8 DEF LaysCapture, Lays
    <2> QED BY <2>5, <2>6, <2>7, <2>8 DEF Lays
  <1>8. LaysJoin(vs, op, K2, V2, R2, N)
    <2>1. N \in 1 .. N /\ N < Len(op) /\ Len(vars) < Len(vs) /\ n \in 1 .. R[N]
      BY <1>1, <1>2, <1>3, <1>4
    <2>2. K2[N] = Len(leaves) /\ V2[N] = Len(vars) /\ R2[N] = R[N]
      BY <1>1, <1>6, <2>1
    <2>3. op[N].code = "concatN" /\ op[N].operand = n /\ op[N + 1].code = "capture"
      BY <1>3 DEF Op
    <2> QED BY <1>4, <1>5, <1>6, <2>1, <2>2, <2>3 DEF LaysJoin
  <1>9. LaysCapture(vs, op, K2, V2, R2, N + 1)
    <2> DEFINE j == N + 1
    <2>1. j > 1 /\ j - 1 = N /\ j + 1 = N + 2 /\ Len(vars) < Len(vs)
      BY <1>2, <1>4
    <2>2. op[j - 1].code = "concatN" /\ op[j].code = "capture" /\ op[j].operand = w
      BY <1>3, <2>1 DEF Op
    <2>3. /\ V2[j] = Len(vars) /\ vs[V2[j] + 1].name = Str(w)
          /\ K2[j + 1] = K2[j] /\ V2[j + 1] = V2[j] + 1 /\ R2[j + 1] = 0
      BY <1>4, <1>5, <1>6, <2>1
    <2> HIDE DEF j
    <2>4. LaysCapture(vs, op, K2, V2, R2, j)
      BY <2>1, <2>2, <2>3 DEF LaysCapture
    <2> QED BY <2>4 DEF j
  <1>10. Layout(leaves, vs, op, K2, V2, R2)
    <2>1. Len(op) + 1 = N + 2 /\ 1 \in 1 .. N
      BY <1>2, <1>3
    <2>2. K2[1] = 0 /\ V2[1] = 0 /\ R2[1] = 0
      BY <1>1, <1>6, <2>1
    <2>3. ASSUME NEW j \in 1 .. Len(op) PROVE Lays(leaves, vs, op, K2, V2, R2, j)
      <3>1. j \in 1 .. N - 1 \/ j = N \/ j = N + 1
        BY <1>2, <1>3
      <3> QED BY <1>7, <1>8, <1>9, <3>1 DEF Lays
    <2> QED BY <1>4, <1>6, <2>1, <2>2, <2>3 DEF Layout
  <1>11. Len(op) + 1 = N + 2
    BY <1>2, <1>3
  <1>12. LaidTo(leaves, vs, op, 0)
    BY <1>6, <1>10, <1>11 DEF LaidTo
  <1> QED BY <1>12 DEF vs, op, var

\* What has been read of a template, as leaves and as operations.
LaidOut(flat, o) ==
  /\ flat \in FlatSoFar /\ o \in Seq(RawOp)
  /\ \E r \in Nat : LaidTo(flat.leaves, flat.vars, o, r)

LEMMA LeafFacts ==
  ASSUME NEW s \in LeafSegment
  PROVE  Leaf(s) \in FlatLeaf /\ CompileLeaf(s) \in RawOp /\ Pushes(Leaf(s), CompileLeaf(s))
  <1>1. s.kind \in {"star", "dstar", "lit"} /\ s.lit \in Names
    BY DEF LeafSegment, Names
  <1>2. CASE s.kind = "star"
    <2>1. Leaf(s) = Star /\ CompileLeaf(s) = Op("push", 0)
      BY <1>2 DEF Leaf, CompileLeaf
    <2>2. "push" \in Codes \ Literals
      BY DEF Codes, Literals
    <2>3. Op("push", 0) \in RawOp
      BY <2>2 DEF RawOp, Op
    <2>4. Star \in FlatLeaf /\ Pushes(Star, Op("push", 0))
      BY DEF FlatLeaf, Pushes, Star, Op
    <2> QED BY <2>1, <2>3, <2>4
  <1>3. CASE s.kind = "dstar"
    <2>1. Leaf(s) = DStar /\ CompileLeaf(s) = Op("pushM", 0)
      BY <1>3 DEF Leaf, CompileLeaf
    <2>2. "pushM" \in Codes \ Literals
      BY DEF Codes, Literals
    <2>3. Op("pushM", 0) \in RawOp
      BY <2>2 DEF RawOp, Op
    <2>4. DStar \in FlatLeaf /\ Pushes(DStar, Op("pushM", 0))
      BY DEF FlatLeaf, Pushes, DStar, Op
    <2> QED BY <2>1, <2>3, <2>4
  <1>4. CASE s.kind = "lit"
    <2>1. Leaf(s) = Lit(Str(s.lit)) /\ CompileLeaf(s) = Op("litPush", s.lit)
      BY <1>4 DEF Leaf, CompileLeaf
    <2>2. Str(s.lit) \in Texts
      BY <1>1 DEF Texts
    <2>3. Lit(Str(s.lit)) \in FlatLeaf
      BY <2>2 DEF FlatLeaf
    <2>4. Op("litPush", s.lit) \in RawOp
      BY <1>1 DEF RawOp, Literals, Op
    <2>5. Pushes(Lit(Str(s.lit)), Op("litPush", s.lit))
      BY DEF Pushes, Lit, Op
    <2> QED BY <2>1, <2>3, <2>4, <2>5
  <1> QED BY <1>1, <1>2, <1>3, <1>4

\* One more segment.
LEMMA SegmentLays ==
  ASSUME NEW flat, NEW o, LaidOut(flat, o), NEW s \in ParsedSegment
  PROVE  CompileSegment(s) \in Seq(RawOp) /\ LaidOut(WithSegment(flat, s), o \o CompileSegment(s))
  <1>1. /\ flat.leaves \in Seq(FlatLeaf) /\ flat.vars \in Seq(FlatVar) /\ o \in Seq(RawOp)
    BY DEF LaidOut, FlatSoFar
  <1>2. PICK r \in Nat : LaidTo(flat.leaves, flat.vars, o, r)
    BY DEF LaidOut
  <1>3. CASE s \in LeafSegment
    <2>1. s.kind # "var"
      BY <1>3 DEF LeafSegment
    <2> DEFINE ls == <<Leaf(s)>>
               ms == <<CompileLeaf(s)>>
    <2>2. ls \in Seq(FlatLeaf) /\ ms \in Seq(RawOp) /\ Len(ls) = Len(ms)
          /\ \A k \in 1 .. Len(ls) : Pushes(ls[k], ms[k])
      BY <1>3, LeafFacts
    <2>3. CompileSegment(s) = ms /\ Leaves(s) = ls
      BY <2>1 DEF CompileSegment, Leaves
    <2> HIDE DEF ls, ms
    <2>4. WithSegment(flat, s) = [leaves |-> flat.leaves \o ls, vars |-> flat.vars]
      BY <2>1, <2>3 DEF WithSegment
    <2>5. LaidTo(flat.leaves \o ls, flat.vars, o \o ms, r + Len(ls)) /\ r + Len(ls) \in Nat
      BY <1>1, <1>2, <2>2, LayLeaves
    <2>6. flat.leaves \o ls \in Seq(FlatLeaf) /\ o \o ms \in Seq(RawOp)
      BY <1>1, <2>2
    <2> QED BY <1>1, <2>2, <2>3, <2>4, <2>5, <2>6 DEF LaidOut, FlatSoFar
  <1>4. CASE s \in VarSegment
    <2>1. s.kind = "var" /\ s.path \in NonEmptySeq(STRING) /\ s.segs \in NonEmptySeq(LeafSegment)
      BY <1>4 DEF VarSegment
    <2>2. s.segs \in Seq(LeafSegment) /\ s.segs # <<>>
      BY <2>1 DEF NonEmptySeq
    <2> DEFINE m  == Len(s.segs)
               ls == [i \in DOMAIN s.segs |-> Leaf(s.segs[i])]
               ms == [i \in DOMAIN s.segs |-> CompileLeaf(s.segs[i])]
               w  == FieldName(s.path)
               two == <<Op("concatN", m), Op("capture", w)>>
               leaves == flat.leaves \o ls
               op == o \o ms
    <2>3. m \in Nat /\ m >= 1 /\ DOMAIN s.segs = 1 .. m /\ \A i \in 1 .. m : s.segs[i] \in LeafSegment
      BY <2>2, EmptySeq
    <2>4. /\ ls \in Seq(FlatLeaf) /\ ms \in Seq(RawOp) /\ Len(ls) = m /\ Len(ms) = m
          /\ \A k \in 1 .. m : Pushes(ls[k], ms[k])
      BY <2>3, LeafFacts
    <2>5. w \in Names
      BY <2>1 DEF Names
    <2>6. two \in Seq(RawOp)
      <3>1. Op("concatN", m) \in RawOp /\ Op("capture", w) \in RawOp
        BY <2>3, <2>5 DEF RawOp, Op, Codes, Literals
      <3> HIDE DEF m, w
      <3> QED BY <3>1
    <2>7. CompileSegment(s) = ms \o two /\ Leaves(s) = ls
      BY <2>1 DEF CompileSegment, Leaves
    <2>8. WithSegment(flat, s) = [leaves |-> leaves,
             vars |-> Append(flat.vars, Var(Str(w), Len(flat.leaves) + 1, Len(flat.leaves) + m))]
      BY <2>1, <2>7 DEF WithSegment
    <2> HIDE DEF ls, ms, w, m
    <2>9. /\ leaves \in Seq(FlatLeaf) /\ op \in Seq(RawOp)
          /\ Len(leaves) = Len(flat.leaves) + m /\ Len(op) = Len(o) + m
          /\ Len(o) \in Nat /\ Len(flat.leaves) \in Nat
      <3>1. leaves \in Seq(FlatLeaf) /\ Len(leaves) = Len(flat.leaves) + Len(ls)
        BY <1>1, <2>4, ConcatProperties
      <3>2. op \in Seq(RawOp) /\ Len(op) = Len(o) + Len(ms)
        BY <1>1, <2>4, ConcatProperties
      <3>3. Len(o) \in Nat /\ Len(flat.leaves) \in Nat
        BY <1>1
      <3> QED BY <2>4, <3>1, <3>2, <3>3
    <2>10. LaidTo(leaves, flat.vars, op, r + m)
      <3>1. Len(ls) = Len(ms) /\ \A k \in 1 .. Len(ls) : Pushes(ls[k], ms[k])
        BY <2>4
      <3> QED BY <1>1, <1>2, <2>4, <3>1, LayLeaves
    <2>12. m \in 1 .. r + m /\ m <= Len(leaves) /\ r + m \in Nat
      BY <2>3, <2>9
    <2> DEFINE var == Var(Str(w), Len(leaves) - m + 1, Len(leaves))
    <2>13. var = Var(Str(w), Len(flat.leaves) + 1, Len(flat.leaves) + m)
      BY <2>3, <2>9
    <2> HIDE DEF leaves, op
    <2>14. LaidTo(leaves, Append(flat.vars, var), op \o two, 0)
      BY <1>1, <2>5, <2>9, <2>10, <2>12, LayVariable
    <2>15. var \in FlatVar
      <3>1. Str(w) \in Texts /\ Len(leaves) - m + 1 \in Nat /\ Len(leaves) \in Nat
        BY <2>3, <2>5, <2>9, <2>12 DEF Texts
      <3> QED BY <3>1 DEF FlatVar, Var
    <2> HIDE DEF var
    <2>16. op \o two = o \o (ms \o two) /\ ms \o two \in Seq(RawOp)
      <3> HIDE DEF two
      <3>1. op \o two = o \o (ms \o two)
        BY <1>1, <2>4, <2>6, ConcatAssociative DEF op
      <3> QED BY <2>4, <2>6, <3>1
    <2>17. WithSegment(flat, s) = [leaves |-> leaves, vars |-> Append(flat.vars, var)]
      BY <2>8, <2>13
    <2>18. Append(flat.vars, var) \in Seq(FlatVar) /\ o \o (ms \o two) \in Seq(RawOp)
      BY <1>1, <2>15, <2>16
    <2> HIDE DEF two
    <2> QED BY <2>7, <2>9, <2>14, <2>16, <2>17, <2>18 DEF LaidOut, FlatSoFar
  <1> QED BY <1>3, <1>4 DEF ParsedSegment

\* Flat reads the segments one by one.
FlatUpto(t, F) ==
  /\ F[0] = [leaves |-> <<>>, vars |-> <<>>]
  /\ \A i \in 1 .. Len(t.segs) : F[i] = WithSegment(F[i - 1], t.segs[i])
  /\ Flat(t) = Template(F[Len(t.segs)].leaves, F[Len(t.segs)].vars, Str(t.verb))

LEMMA WithSegmentTyped ==
  ASSUME NEW flat \in FlatSoFar, NEW s \in ParsedSegment
  PROVE  WithSegment(flat, s) \in FlatSoFar
  <1>1. flat.leaves \in Seq(FlatLeaf) /\ flat.vars \in Seq(FlatVar) /\ Len(flat.leaves) \in Nat
    BY DEF FlatSoFar
  <1>2. CASE s \in LeafSegment
    <2>1. s.kind # "var"
      BY <1>2 DEF LeafSegment
    <2>2. Leaves(s) \in Seq(FlatLeaf)
      BY <1>2, <2>1, LeafFacts DEF Leaves
    <2>3. flat.leaves \o Leaves(s) \in Seq(FlatLeaf)
      BY <1>1, <2>2
    <2> QED BY <1>1, <2>1, <2>3 DEF WithSegment, FlatSoFar
  <1>3. CASE s \in VarSegment
    <2>1. s.kind = "var" /\ s.path \in NonEmptySeq(STRING) /\ s.segs \in Seq(LeafSegment)
      BY <1>3 DEF VarSegment, NonEmptySeq
    <2>2. Leaves(s) = [i \in DOMAIN s.segs |-> Leaf(s.segs[i])]
      BY <2>1 DEF Leaves
    <2>3. Leaves(s) \in Seq(FlatLeaf) /\ Len(s.segs) \in Nat
      BY <2>1, <2>2, LeafFacts
    <2>4. flat.leaves \o Leaves(s) \in Seq(FlatLeaf)
      BY <1>1, <2>3
    <2> DEFINE var == Var(Str(FieldName(s.path)), Len(flat.leaves) + 1, Len(flat.leaves) + Len(s.segs))
    <2>5. var \in FlatVar
      <3>1. Str(FieldName(s.path)) \in Texts
        BY <2>1 DEF Texts, Names
      <3>2. \A a, b \in Nat : a + 1 \in Nat /\ a + b \in Nat
        OBVIOUS
      <3>3. Len(flat.leaves) + 1 \in Nat /\ Len(flat.leaves) + Len(s.segs) \in Nat
        BY <1>1, <2>3, <3>2, Zenon
      <3> QED BY <3>1, <3>3 DEF FlatVar, Var
    <2>6. WithSegment(flat, s) = [leaves |-> flat.leaves \o Leaves(s), vars |-> Append(flat.vars, var)]
      BY <2>1 DEF WithSegment
    <2> HIDE DEF var
    <2>7. Append(flat.vars, var) \in Seq(FlatVar)
      BY <1>1, <2>5
    <2> QED BY <2>4, <2>6, <2>7 DEF FlatSoFar
  <1> QED BY <1>2, <1>3 DEF ParsedSegment

LEMMA FlatUnfolds ==
  ASSUME NEW t, t.segs \in Seq(ParsedSegment)
  PROVE  \E F \in [0 .. Len(t.segs) -> FlatSoFar] : FlatUpto(t, F)
  <1> DEFINE L     == Len(t.segs)
             start == [leaves |-> <<>>, vars |-> <<>>]
             Next(j, c) == IF j \in 1 .. L THEN WithSegment(c, t.segs[j]) ELSE c
             step  == [at \in Nat \X FlatSoFar |-> Next(at[1], at[2])]
             Body(f) == [i \in 0 .. L |-> IF i = 0 THEN start ELSE WithSegment(f[i - 1], t.segs[i])]
             Upto == CHOOSE f : f = Body(f)
  <1>1. L \in Nat /\ \A j \in 1 .. L : t.segs[j] \in ParsedSegment
    OBVIOUS
  <1>2. Flat(t) = Template(Upto[L].leaves, Upto[L].vars, Str(t.verb))
    BY Zenon DEF Flat
  <1>3. start \in FlatSoFar
    <2>1. <<>> \in Seq(FlatLeaf) /\ <<>> \in Seq(FlatVar)
      OBVIOUS
    <2> QED BY <2>1 DEF FlatSoFar
  <1> HIDE DEF start
  <1>6. step \in [Nat \X FlatSoFar -> FlatSoFar]
    <2>1. \A j \in Nat, c \in FlatSoFar : Next(j, c) \in FlatSoFar
      BY <1>1, WithSegmentTyped
    <2> HIDE DEF Next
    <2> QED BY <2>1
  <1>7. PICK f \in [0 .. L -> FlatSoFar] : Recursion(f, 0, L, start, step)
    <2> HIDE DEF step, L
    <2>1. 0 \in Nat
      OBVIOUS
    <2> QED BY <1>1, <1>3, <1>6, <2>1, RecursionExists
  <1>8. ASSUME NEW i \in 0 .. L
        PROVE  f[i] = IF i = 0 THEN start ELSE WithSegment(f[i - 1], t.segs[i])
    <2>1. CASE i = 0
      <3> HIDE DEF step, L
      <3> QED BY <1>7, <2>1 DEF Recursion
    <2>2. CASE i # 0
      <3>1. i \in 1 .. L /\ f[i] = step[<<i, f[i - 1]>>] /\ <<i, f[i - 1]>> \in Nat \X FlatSoFar
        <4> HIDE DEF step, L
        <4> QED BY <1>1, <1>7, <2>2 DEF Recursion
      <3>2. step[<<i, f[i - 1]>>] = Next(i, f[i - 1])
        <4> HIDE DEF Next
        <4> QED BY <3>1
      <3> QED BY <2>2, <3>1, <3>2
    <2> QED BY <2>1, <2>2
  <1>9. f = Body(f)
    <2>1. f = [i \in 0 .. L |-> f[i]]
      OBVIOUS
    <2> HIDE DEF L
    <2> QED BY <1>8, <2>1
  <1>10. Upto = Body(Upto)
    <2> HIDE DEF Body
    <2> QED BY <1>9, Zenon
  <1> HIDE DEF Upto, L
  <1>11. \A i \in 0 .. L : Upto[i] = IF i = 0 THEN start ELSE WithSegment(Upto[i - 1], t.segs[i])
    <2>1. \A i \in 0 .. L : Upto[i] = Body(Upto)[i]
      <3> HIDE DEF Body
      <3> QED BY <1>10
    <2> QED BY <2>1
  <1>12. Agree(f, Upto, 0, L)
    <2>1. f[0] = Upto[0]
      <3>1. 0 \in 0 .. L
        BY <1>1
      <3> QED BY <1>8, <1>11, <3>1
    <2>2. \A i \in 0 .. L : i # 0 /\ f[i - 1] = Upto[i - 1] => f[i] = Upto[i]
      BY <1>8, <1>11
    <2> QED BY <1>1, <2>1, <2>2, RecursionUnique
  <1>13. f[L] = Upto[L] /\ 0 \in 0 .. L
    BY <1>1, <1>12 DEF Agree
  <1>14. f[0] = start /\ \A i \in 1 .. L : f[i] = WithSegment(f[i - 1], t.segs[i])
    <2>1. f[0] = start
      BY <1>8, <1>13
    <2>2. ASSUME NEW i \in 1 .. L PROVE f[i] = WithSegment(f[i - 1], t.segs[i])
      BY <1>1, <1>8
    <2> QED BY <2>1, <2>2
  <1>15. Flat(t) = Template(f[L].leaves, f[L].vars, Str(t.verb))
    BY <1>2, <1>13
  <1>16. FlatUpto(t, f)
    BY <1>14, <1>15, Zenon DEF FlatUpto, start, L
  <1> QED BY <1>16 DEF L

\* The operations of a template that parses, and what they stand for.
LEMMA LayTemplate ==
  ASSUME NEW t \in WellParsed
  PROVE  /\ RawOps(t) \in Seq(RawOp)
         /\ Flat(t).segs \in Seq(FlatLeaf) /\ Flat(t).vars \in Seq(FlatVar) /\ Flat(t).verb = Str(t.verb)
         /\ \E r \in Nat : LaidTo(Flat(t).segs, Flat(t).vars, RawOps(t), r)
  <1> DEFINE L == Len(t.segs)
             parts == [i \in DOMAIN t.segs |-> CompileSegment(t.segs[i])]
  <1>1. t.segs \in Seq(ParsedSegment) /\ L \in Nat /\ DOMAIN t.segs = 1 .. L
        /\ \A i \in 1 .. L : t.segs[i] \in ParsedSegment
    BY DEF WellParsed, NonEmptySeq
  <1> DEFINE empty == [leaves |-> <<>>, vars |-> <<>>]
  <1>2. LaidOut(empty, <<>>)
    <2>1. empty \in FlatSoFar /\ <<>> \in Seq(RawOp)
      <3>1. <<>> \in Seq(FlatLeaf) /\ <<>> \in Seq(FlatVar) /\ <<>> \in Seq(RawOp)
        OBVIOUS
      <3> QED BY <3>1 DEF FlatSoFar
    <2> DEFINE one == [j \in 1 .. 1 |-> 0]
    <2>2. /\ one[1] = 0 /\ one \in [1 .. 1 -> Nat] /\ one \in [1 .. 1 -> 0 .. 0]
          /\ Len(<<>>) = 0 /\ 0 + 1 = 1 /\ \A j \in 1 .. 0 : FALSE
      OBVIOUS
    <2> HIDE DEF one
    <2>3. Layout(<<>>, <<>>, <<>>, one, one, one)
      BY <2>2 DEF Layout
    <2>4. LaidTo(<<>>, <<>>, <<>>, 0) /\ 0 \in Nat
      BY <2>2, <2>3 DEF LaidTo
    <2> QED BY <2>1, <2>4 DEF LaidOut
  <1>3. parts \in Seq(Seq(RawOp)) /\ Len(parts) = L
    <2>1. \A i \in 1 .. L : CompileSegment(t.segs[i]) \in Seq(RawOp)
      BY <1>1, <1>2, SegmentLays
    <2> HIDE DEF empty
    <2> QED BY <1>1, <2>1
  <1>4. \A i \in 1 .. L : parts[i] = CompileSegment(t.segs[i])
    BY <1>1
  <1>5. RawOps(t) = FlattenSeq(parts)
    BY DEF RawOps
  <1> HIDE DEF parts, empty
  <1>6. PICK f \in [0 .. Len(parts) -> Seq(RawOp)] : PrefixJoins(parts, f)
    BY <1>3, FlattenUnfolds
  <1>7. PICK F \in [0 .. L -> FlatSoFar] : FlatUpto(t, F)
    BY <1>1, FlatUnfolds
  <1> DEFINE laid == {i \in Nat : i <= L => LaidOut(F[i], f[i])}
  <1>8. 0 \in laid
    BY <1>2, <1>6, <1>7 DEF PrefixJoins, FlatUpto, empty
  <1>9. ASSUME NEW i \in Nat, i > 0, i - 1 \in laid PROVE i \in laid
    <2> SUFFICES ASSUME i <= L PROVE LaidOut(F[i], f[i])
      OBVIOUS
    <2>1. i \in 1 .. L /\ i - 1 <= L
      BY <1>1, <1>9
    <2>2. LaidOut(F[i - 1], f[i - 1]) /\ t.segs[i] \in ParsedSegment
      BY <1>1, <1>9, <2>1
    <2>3. LaidOut(WithSegment(F[i - 1], t.segs[i]), f[i - 1] \o CompileSegment(t.segs[i]))
      BY <2>2, SegmentLays
    <2>4. F[i] = WithSegment(F[i - 1], t.segs[i]) /\ f[i] = f[i - 1] \o CompileSegment(t.segs[i])
      BY <1>3, <1>4, <1>6, <1>7, <2>1 DEF PrefixJoins, FlatUpto
    <2> QED BY <2>3, <2>4
  <1>10. LaidOut(F[L], f[L])
    <2> HIDE DEF laid
    <2>1. 0 \in Nat
      OBVIOUS
    <2>2. L \in laid
      BY <1>1, <1>8, <1>9, <2>1, Climbing
    <2> QED BY <1>1, <2>2 DEF laid
  <1>11. RawOps(t) = f[L]
    BY <1>3, <1>5, <1>6 DEF PrefixJoins
  <1>12. Flat(t).segs = F[L].leaves /\ Flat(t).vars = F[L].vars /\ Flat(t).verb = Str(t.verb)
    BY <1>7 DEF FlatUpto, Template
  <1> QED BY <1>10, <1>11, <1>12 DEF LaidOut, FlatSoFar

-----------------------------------------------------------------------------
(* The program that NewPattern is given, and what the template says of it.  *)

Executes(d, leaf, op) ==
  \/ op.code = "push" /\ leaf.kind = "star"
  \/ op.code = "pushM" /\ leaf.kind = "dstar"
  \/ /\ op.code = "litPush" /\ op.operand \in 0 .. Len(d.pool) - 1
     /\ leaf.kind = "lit" /\ leaf.lit = d.pool[op.operand + 1]

ExecutesLeaf(F, d, K, V, R, j) ==
  /\ K[j] < Len(F.segs) /\ Executes(d, F.segs[K[j] + 1], d.ops[j])
  /\ K[j + 1] = K[j] + 1 /\ V[j + 1] = V[j] /\ R[j + 1] = R[j] + 1

Joins(F, d, K, V, R, j) ==
  /\ d.ops[j].code = "concatN" /\ d.ops[j].operand \in 1 .. R[j]
  /\ j < Len(d.ops) /\ d.ops[j + 1].code = "capture"
  /\ V[j] < Len(F.vars)
  /\ F.vars[V[j] + 1].hi = K[j] /\ F.vars[V[j] + 1].lo = K[j] - d.ops[j].operand + 1
  /\ K[j + 1] = K[j] /\ V[j + 1] = V[j] /\ R[j + 1] = 0

Captures(F, d, K, V, R, j) ==
  /\ d.ops[j].code = "capture" /\ j > 1 /\ d.ops[j - 1].code = "concatN"
  /\ d.ops[j].operand \in 0 .. Len(d.pool) - 1
  /\ V[j] < Len(F.vars) /\ F.vars[V[j] + 1].name = d.pool[d.ops[j].operand + 1]
  /\ K[j + 1] = K[j] /\ V[j + 1] = V[j] + 1 /\ R[j + 1] = 0

Programs(F, d, K, V, R) ==
  /\ F.segs \in Seq(FlatLeaf) /\ F.vars \in Seq(FlatVar)
  /\ K \in [1 .. Len(d.ops) + 1 -> 0 .. Len(F.segs)]
  /\ V \in [1 .. Len(d.ops) + 1 -> 0 .. Len(F.vars)]
  /\ R \in [1 .. Len(d.ops) + 1 -> Nat]
  /\ K[1] = 0 /\ V[1] = 0 /\ R[1] = 0
  /\ K[Len(d.ops) + 1] = Len(F.segs) /\ V[Len(d.ops) + 1] = Len(F.vars)
  /\ \A j \in 1 .. Len(d.ops) :
       \/ ExecutesLeaf(F, d, K, V, R, j) \/ Joins(F, d, K, V, R, j) \/ Captures(F, d, K, V, R, j)

\* The end of tokens is no part of a literal.
LEMMA EndPrintsAsNothing == Str(RootLiteral) = Str(<<>>)
  <1> DEFINE Body0(f) == [i \in 0 .. Len(<<>>) |-> IF i = 0 THEN ""
                            ELSE IF <<>>[i] = EndOfTokens THEN f[i - 1] ELSE f[i - 1] \o <<>>[i]]
             Body1(f) == [i \in 0 .. Len(RootLiteral) |-> IF i = 0 THEN ""
                            ELSE IF RootLiteral[i] = EndOfTokens THEN f[i - 1] ELSE f[i - 1] \o RootLiteral[i]]
             f0 == CHOOSE f : f = Body0(f)
             f1 == CHOOSE f : f = Body1(f)
  <1>1. Str(<<>>) = f0[Len(<<>>)] /\ Str(RootLiteral) = f1[Len(RootLiteral)]
    BY Zenon DEF Str
  <1>2. Len(<<>>) = 0 /\ Len(RootLiteral) = 1 /\ RootLiteral[1] = EndOfTokens
    BY DEF RootLiteral
  <1> DEFINE g0 == [i \in 0 .. 0 |-> ""]
             g1 == [i \in 0 .. 1 |-> ""]
  <1>3. g0 = Body0(g0)
    BY <1>2
  <1>4. g1 = Body1(g1)
    <2>1. ASSUME NEW i \in 0 .. 1
          PROVE  "" = IF i = 0 THEN "" ELSE IF RootLiteral[i] = EndOfTokens THEN g1[i - 1] ELSE g1[i - 1] \o RootLiteral[i]
      <3>1. CASE i = 0
        BY <3>1
      <3>2. CASE i = 1
        <4>1. i # 0 /\ RootLiteral[i] = EndOfTokens /\ g1[i - 1] = ""
          BY <1>2, <3>2
        <4> HIDE DEF g1
        <4> QED BY <4>1, Zenon
      <3>3. i = 0 \/ i = 1
        OBVIOUS
      <3> QED BY <3>1, <3>2, <3>3, Zenon
    <2> QED BY <1>2, <2>1
  <1>5. f0 = Body0(f0) /\ f1 = Body1(f1)
    <2> HIDE DEF Body0, Body1, g0, g1
    <2> QED BY <1>3, <1>4, Zenon
  <1> HIDE DEF f0, f1
  <1>6. f0[0] = ""
    <2>1. f0[0] = Body0(f0)[0]
      <3> HIDE DEF Body0
      <3> QED BY <1>5
    <2>2. 0 \in 0 .. Len(<<>>)
      BY <1>2
    <2>3. Body0(f0)[0] = IF 0 = 0 THEN "" ELSE IF <<>>[0] = EndOfTokens THEN f0[0 - 1] ELSE f0[0 - 1] \o <<>>[0]
      BY <2>2, Zenon
    <2> QED BY <2>1, <2>3, Zenon
  <1>7. f1[0] = "" /\ f1[1] = ""
    <2>1. f1[0] = Body1(f1)[0] /\ f1[1] = Body1(f1)[1]
      <3> HIDE DEF Body1
      <3> QED BY <1>5
    <2>2. Body1(f1)[0] = "" /\ Body1(f1)[1] = f1[0]
      BY <1>2
    <2> QED BY <2>1, <2>2
  <1> QED BY <1>1, <1>2, <1>6, <1>7

\* Literals and names are in the program's pool.
LEMMA Pooled ==
  ASSUME NEW t, NEW c, c = Compile(t), c \in Compiled, NEW raw, NEW op, StandsFor(c.pool, op, raw)
  PROVE  /\ op.code = raw.code
         /\ raw.code \in Literals =>
              /\ op.operand \in 0 .. Len(DefinitionOf(t).pool) - 1
              /\ DefinitionOf(t).pool[op.operand + 1] = Str(raw.operand)
         /\ raw.code \notin Literals => op.operand = raw.operand
  <1> DEFINE pool == [i \in DOMAIN c.pool |-> Str(c.pool[i])]
  <1>1. DefinitionOf(t).pool = pool /\ c.pool \in Seq(Names) /\ Len(c.pool) \in Nat /\ DOMAIN c.pool = 1 .. Len(c.pool)
    BY DEF DefinitionOf, Compiled
  <1>2. Len(pool) = Len(c.pool)
    BY <1>1
  <1>3. \A w : Str(Interns(w)) = Str(w)
    BY EndPrintsAsNothing DEF Interns
  <1>4. CASE raw.code \in Literals
    <2>1. op.code = raw.code /\ op.operand \in 0 .. Len(c.pool) - 1 /\ c.pool[op.operand + 1] = Interns(raw.operand)
      BY <1>4 DEF StandsFor
    <2>2. op.operand + 1 \in DOMAIN c.pool
      BY <1>1, <2>1
    <2>3. pool[op.operand + 1] = Str(c.pool[op.operand + 1])
      BY <2>2
    <2> HIDE DEF pool
    <2> QED BY <1>1, <1>2, <1>3, <1>4, <2>1, <2>3
  <1>5. CASE raw.code \notin Literals
    BY <1>5 DEF StandsFor
  <1> QED BY <1>4, <1>5

LEMMA ProgramOfTemplate ==
  ASSUME NEW t \in WellParsed
  PROVE  /\ DefinitionIn(DefinitionOf(t), Texts)
         /\ DefinitionOf(t).version = 1 /\ DefinitionOf(t).whole
         /\ \E K, V, R : Programs(Flat(t), DefinitionOf(t), K, V, R)
  <1> DEFINE raw == RawOps(t)
             F   == Flat(t)
             d   == DefinitionOf(t)
             c   == Compile(t)
  <1>1. /\ raw \in Seq(RawOp) /\ F.segs \in Seq(FlatLeaf) /\ F.vars \in Seq(FlatVar)
        /\ \E r \in Nat : LaidTo(F.segs, F.vars, raw, r)
    BY LayTemplate
  <1>2. c \in Compiled /\ Encodes(c, raw)
    BY <1>1, CompileEncodes
  <1>3. /\ d.version = 1 /\ d.whole /\ d.ops = c.ops /\ d.verb = Str(t.verb)
        /\ d.pool = [i \in DOMAIN c.pool |-> Str(c.pool[i])]
    BY DEF DefinitionOf
  <1>4. DefinitionIn(d, Texts)
    <2>1. c.pool \in Seq(Names) /\ c.ops \in Seq([code : Codes, operand : Int]) /\ t.verb \in Word
      BY <1>2 DEF Compiled, WellParsed
    <2>2. d.ops \in Seq(Operation(Texts))
      <3>1. [code : Codes, operand : Int] \subseteq Operation(Texts)
        BY DEF Operation, Texts
      <3> QED BY <1>3, <2>1, <3>1, SeqMonotonic
    <2>3. d.pool \in Seq(Texts)
      <3>1. \A i \in DOMAIN c.pool : Str(c.pool[i]) \in Texts
        BY <2>1 DEF Texts
      <3>2. Len(c.pool) \in Nat /\ DOMAIN c.pool = 1 .. Len(c.pool)
        BY <2>1
      <3> QED BY <1>3, <3>1, <3>2
    <2>4. d.verb \in Texts
      BY <1>3, <2>1 DEF Texts, Names
    <2> HIDE DEF d
    <2> QED BY <1>3, <2>2, <2>3, <2>4 DEF DefinitionIn
  <1>5. PICK r \in Nat : LaidTo(F.segs, F.vars, raw, r)
    BY <1>1
  <1>6. PICK K, V, R : Layout(F.segs, F.vars, raw, K, V, R)
    BY <1>5 DEF LaidTo
  <1>7. Len(d.ops) = Len(raw) /\ Len(raw) \in Nat /\ \A j \in 1 .. Len(raw) : StandsFor(c.pool, d.ops[j], raw[j])
    BY <1>1, <1>2, <1>3 DEF Encodes
  <1>8. ASSUME NEW j \in 1 .. Len(raw)
        PROVE  /\ d.ops[j].code = raw[j].code
               /\ raw[j].code \in Literals =>
                    /\ d.ops[j].operand \in 0 .. Len(d.pool) - 1
                    /\ d.pool[d.ops[j].operand + 1] = Str(raw[j].operand)
               /\ raw[j].code \notin Literals => d.ops[j].operand = raw[j].operand
    BY <1>2, <1>7, Pooled
  <1> HIDE DEF d, c, F, raw
  <1>9. ASSUME NEW j \in 1 .. Len(raw)
        PROVE  ExecutesLeaf(F, d, K, V, R, j) \/ Joins(F, d, K, V, R, j) \/ Captures(F, d, K, V, R, j)
    <2>1. Lays(F.segs, F.vars, raw, K, V, R, j)
      BY <1>6 DEF Layout
    <2>2. "push" \notin Literals /\ "pushM" \notin Literals /\ "concatN" \notin Literals
          /\ "litPush" \in Literals /\ "capture" \in Literals
      BY DEF Literals
    <2>3. CASE LaysLeaf(F.segs, raw, K, V, R, j)
      <3>1. Pushes(F.segs[K[j] + 1], raw[j])
        BY <2>3 DEF LaysLeaf
      <3>2. Executes(d, F.segs[K[j] + 1], d.ops[j])
        BY <1>8, <2>2, <3>1 DEF Pushes, Executes
      <3> QED BY <2>3, <3>2 DEF LaysLeaf, ExecutesLeaf
    <2>4. CASE LaysJoin(F.vars, raw, K, V, R, j)
      <3>1. j < Len(raw) /\ raw[j].code = "concatN" /\ raw[j + 1].code = "capture"
        BY <2>4 DEF LaysJoin
      <3>2. j + 1 \in 1 .. Len(raw)
        BY <1>7, <3>1
      <3>3. d.ops[j].code = "concatN" /\ d.ops[j].operand = raw[j].operand /\ d.ops[j + 1].code = "capture"
        BY <1>8, <2>2, <3>1, <3>2
      <3> QED BY <1>7, <2>4, <3>3 DEF LaysJoin, Joins
    <2>5. CASE LaysCapture(F.vars, raw, K, V, R, j)
      <3>1. j > 1 /\ raw[j].code = "capture" /\ raw[j - 1].code = "concatN"
        BY <2>5 DEF LaysCapture
      <3>2. j - 1 \in 1 .. Len(raw)
        BY <1>7, <3>1
      <3>3. /\ d.ops[j].code = "capture" /\ d.ops[j - 1].code = "concatN"
            /\ d.ops[j].operand \in 0 .. Len(d.pool) - 1
            /\ d.pool[d.ops[j].operand + 1] = Str(raw[j].operand)
        BY <1>8, <2>2, <3>1, <3>2
      <3> QED BY <2>5, <3>3 DEF LaysCapture, Captures
    <2> QED BY <2>1, <2>3, <2>4, <2>5 DEF Lays
  <1>10. Programs(F, d, K, V, R)
    BY <1>1, <1>6, <1>7, <1>9 DEF Layout, Programs
  <1> QED BY <1>3, <1>4, <1>10 DEF d, F

-----------------------------------------------------------------------------
(* NewPattern on such a program.                                           *)

IsDeep(F, w) == F.segs[w].kind = "dstar"

\* What the check has made of the operations so far.
Translated(d, V) ==
  /\ Len(pattern.ops) = checked
  /\ \A j \in 1 .. checked :
       /\ pattern.ops[j].code = d.ops[j].code
       /\ pattern.ops[j].operand = IF d.ops[j].code = "capture" THEN V[j] + 1 ELSE d.ops[j].operand

Named(F, V) ==
  /\ Len(pattern.vars) = V[checked + 1]
  /\ \A v \in 1 .. V[checked + 1] : pattern.vars[v] = F.vars[v].name

\* At most one "**", and what follows it is counted.
DeepOps(d) ==
  /\ deep <=> \E j \in 1 .. checked : d.ops[j].code = "pushM"
  /\ \A i, j \in 1 .. checked : d.ops[i].code = "pushM" /\ d.ops[j].code = "pushM" => i = j

Counted(F, K) ==
  /\ deep <=> \E w \in 1 .. K[checked + 1] : IsDeep(F, w)
  /\ \A w \in 1 .. K[checked + 1] : IsDeep(F, w) => pattern.tailLen = K[checked + 1] - w
  /\ ~deep => pattern.tailLen = 0

Checked(F, d, K, V, R) ==
  Translated(d, V) /\ Named(F, V) /\ DeepOps(d) /\ Counted(F, K) /\ R[checked + 1] <= Depth

Refused(d) == checked < Len(d.ops) /\ d.ops[checked + 1].code = "pushM" /\ deep

LEMMA OpIsAdmissible ==
  ASSUME NEW F, NEW d, NEW K, NEW V, NEW R, IInv(Texts), Programs(F, d, K, V, R), source = d,
         Checked(F, d, K, V, R), checked < Len(d.ops)
  PROVE  LET op == d.ops[checked + 1]
         IN  /\ op.code \in {"push", "pushM", "litPush", "concatN", "capture"}
             /\ Admissible(op) \/ (op.code = "pushM" /\ deep)
  <1> DEFINE j == checked + 1
             op == d.ops[j]
  <1>1. /\ checked \in Nat /\ Len(d.ops) \in Nat /\ j \in 1 .. Len(d.ops)
        /\ depth \in Seq(Nat) /\ Len(depth) = Len(pattern.ops) + 1 /\ Len(pattern.ops) = checked
        /\ \A i \in 1 .. Len(pattern.ops) : Sound(i)
    BY DEF IInv, TypeIn, DefinitionIn, CheckInv, Checked, Translated
  <1>2. Depth = depth[j] /\ depth[j] \in Nat /\ R[j] <= Depth /\ R[j] \in Nat
    <2>1. Depth = depth[Len(depth)] /\ Len(depth) = j
      BY <1>1 DEF Depth, Last
    <2>2. j \in DOMAIN depth /\ j \in 1 .. Len(d.ops) + 1
      BY <1>1, <2>1
    <2>3. R \in [1 .. Len(d.ops) + 1 -> Nat]
      BY DEF Programs
    <2> QED BY <1>1, <2>1, <2>2, <2>3 DEF Checked
  <1>3. ExecutesLeaf(F, d, K, V, R, j) \/ Joins(F, d, K, V, R, j) \/ Captures(F, d, K, V, R, j)
    BY <1>1 DEF Programs
  <1>4. CASE ExecutesLeaf(F, d, K, V, R, j)
    <2>1. Executes(d, F.segs[K[j] + 1], op)
      BY <1>4 DEF ExecutesLeaf
    <2> HIDE DEF op
    <2>2. CASE op.code = "litPush"
      <3>1. InPool(op)
        BY <2>1, <2>2 DEF Executes, InPool
      <3> QED BY <2>2, <3>1 DEF Admissible, op, j
    <2>3. CASE op.code # "litPush"
      <3>1. op.code = "push" \/ op.code = "pushM"
        BY <2>1, <2>3 DEF Executes
      <3>2. Admissible(op) \/ (op.code = "pushM" /\ deep)
        <4>1. op.code = "push" => Admissible(op)
          BY DEF Admissible
        <4>2. op.code = "pushM" => (Admissible(op) <=> ~deep)
          BY DEF Admissible
        <4> QED BY <3>1, <4>1, <4>2, Zenon
      <3> QED BY <3>1, <3>2 DEF op, j
    <2> QED BY <2>2, <2>3
  <1>5. CASE Joins(F, d, K, V, R, j)
    <2>1. op.code = "concatN" /\ op.operand \in 1 .. R[j]
      BY <1>5 DEF Joins
    <2>2. op.operand > 0 /\ op.operand <= Depth
      BY <1>2, <2>1
    <2> HIDE DEF op
    <2>3. Admissible(op)
      BY <2>1, <2>2 DEF Admissible
    <2> QED BY <2>1, <2>3 DEF op, j
  <1>6. CASE Captures(F, d, K, V, R, j)
    <2>1. op.code = "capture" /\ InPool(op) /\ j > 1 /\ d.ops[j - 1].code = "concatN"
      BY <1>6 DEF Captures, InPool
    <2>2. checked \in 1 .. checked /\ d.ops[checked].code = "concatN"
      BY <1>1, <2>1
    <2>3. pattern.ops[checked].code = "concatN" /\ Sound(checked)
      BY <1>1, <2>2 DEF Checked, Translated
    <2>4. /\ pattern.ops[checked].operand \in 1 .. depth[checked]
          /\ depth[checked + 1] = depth[checked] - pattern.ops[checked].operand + 1
      BY <2>3 DEF Sound
    <2>5. depth[checked] \in Nat
      BY <1>1, <2>2
    <2>6. Depth > 0
      BY <1>2, <2>4, <2>5
    <2> HIDE DEF op
    <2>7. Admissible(op)
      BY <2>1, <2>6 DEF Admissible
    <2> QED BY <2>1, <2>7 DEF op, j
  <1> QED BY <1>3, <1>4, <1>5, <1>6

LEMMA CheckOpFollows ==
  ASSUME NEW F, NEW d, NEW K, NEW V, NEW R, IInv(Texts), Programs(F, d, K, V, R), source = d,
         Checked(F, d, K, V, R), CheckOp
  PROVE  /\ Checked(F, d, K, V, R)' /\ source' = d
         /\ stage' = "check" \/ (stage' = "refused" /\ Refused(d)')
  <1> DEFINE j == checked + 1
             op == d.ops[j]
  <1>1. /\ stage = "check" /\ checked < Len(d.ops) /\ source' = d
        /\ \/ /\ Admissible(op) /\ checked' = j /\ (CheckNop(op) \/ CheckReal(op)) /\ stage' = stage
           \/ ~Admissible(op) /\ stage' = "refused" /\ UNCHANGED <<checked, pattern, deep, depth>>
    BY DEF CheckOp
  <1>2. /\ op.code \in {"push", "pushM", "litPush", "concatN", "capture"}
        /\ Admissible(op) \/ (op.code = "pushM" /\ deep)
    BY <1>1, OpIsAdmissible
  <1>3. IInv(Texts)'
    BY CheckOpKeeps
  <1>4. CASE ~Admissible(op)
    <2>1. stage' = "refused" /\ UNCHANGED <<checked, pattern, deep, depth>> /\ op.code = "pushM" /\ deep
      BY <1>1, <1>2, <1>4
    <2>2. Checked(F, d, K, V, R)'
      BY <2>1 DEF Checked, Translated, Named, DeepOps, Counted, Depth
    <2>3. Refused(d)'
      BY <1>1, <2>1 DEF Refused
    <2> QED BY <1>1, <2>1, <2>2, <2>3
  <1>5. CASE Admissible(op)
    <2>1. checked' = j /\ CheckReal(op) /\ stage' = "check"
      BY <1>1, <1>2, <1>5 DEF CheckNop
    <2>2. /\ checked \in Nat /\ Len(d.ops) \in Nat /\ j \in 1 .. Len(d.ops) /\ j \in Nat
          /\ Len(pattern.ops) = checked /\ Len(pattern.vars) = V[j]
          /\ pattern \in PatternIn(Texts) /\ op \in Operation(Texts) /\ deep \in BOOLEAN
      <3>1. /\ TypeIn(Texts) /\ Translated(d, V) /\ Named(F, V)
        BY DEF IInv, Checked
      <3>2. /\ checked \in 0 .. Len(d.ops) /\ d.ops \in Seq(Operation(Texts))
            /\ pattern \in PatternIn(Texts) /\ deep \in BOOLEAN
        BY <3>1 DEF TypeIn, DefinitionIn
      <3>3. j \in 1 .. Len(d.ops) /\ checked \in Nat
        BY <1>1, <3>2
      <3>4. op \in Operation(Texts)
        BY <3>2, <3>3, ElementOfSeq
      <3> QED BY <3>1, <3>2, <3>3, <3>4 DEF Translated, Named
    <2>3. /\ pattern.ops \in Seq(Operation(Texts)) /\ pattern.vars \in Seq(Texts) /\ pattern.tailLen \in Nat
      BY <2>2 DEF PatternIn
    <2>4. /\ K[j] \in Nat /\ V[j] \in Nat /\ R[j + 1] \in Nat
      <3> DEFINE n == Len(d.ops)
                 k == Len(F.segs)
                 v == Len(F.vars)
      <3>1. /\ K \in [1 .. n + 1 -> 0 .. k] /\ V \in [1 .. n + 1 -> 0 .. v] /\ R \in [1 .. n + 1 -> Nat]
        BY Zenon DEF Programs
      <3>2. n \in Nat /\ j \in 1 .. n
        BY <2>2, Zenon
      <3> HIDE DEF n, k, v
      <3>3. j \in 1 .. n + 1 /\ j + 1 \in 1 .. n + 1
        BY <3>2
      <3>4. K[j] \in 0 .. k /\ V[j] \in 0 .. v /\ R[j + 1] \in Nat
        BY <3>1, <3>3
      <3> QED BY <3>4
    <2>5. /\ pattern'.ops = Append(pattern.ops, Typed(op)) /\ deep' = (deep \/ op.code = "pushM")
          /\ pattern'.vars = IF op.code = "capture" THEN Append(pattern.vars, d.pool[op.operand + 1])
                                                    ELSE pattern.vars
          /\ pattern'.tailLen = IF deep /\ op.code \in {"push", "litPush"} THEN pattern.tailLen + 1
                                                                         ELSE pattern.tailLen
          /\ depth' = Append(depth, DepthAfter(op))
      BY <2>1, Zenon DEF CheckReal
    <2>6. ExecutesLeaf(F, d, K, V, R, j) \/ Joins(F, d, K, V, R, j) \/ Captures(F, d, K, V, R, j)
      BY <2>2 DEF Programs
    <2>7. op.code = "pushM" => ~deep
      BY <1>5 DEF Admissible
    <2>8. /\ Typed(op).code = op.code
          /\ Typed(op).operand = IF op.code = "capture" THEN V[j] + 1 ELSE op.operand
      BY <2>2 DEF Typed, Operation
    <2>9. Typed(op) \in Operation(Texts)
      BY <2>2, <2>4 DEF Typed, Operation
    <2> HIDE DEF op
    <2>10. Translated(d, V)'
      <3>1. /\ Len(pattern'.ops) = j /\ pattern'.ops[j] = Typed(op)
            /\ \A i \in 1 .. checked : pattern'.ops[i] = pattern.ops[i]
        BY <2>2, <2>3, <2>5, <2>9, AppendProperties
      <3>2. ASSUME NEW i \in 1 .. j
            PROVE  /\ pattern'.ops[i].code = d.ops[i].code
                   /\ pattern'.ops[i].operand = IF d.ops[i].code = "capture" THEN V[i] + 1 ELSE d.ops[i].operand
        <4>1. CASE i = j
          BY <2>8, <3>1, <4>1 DEF op
        <4>2. CASE i # j
          <5>1. i \in 1 .. checked
            BY <2>2, <4>2
          <5> QED BY <3>1, <5>1 DEF Checked, Translated
        <4> QED BY <4>1, <4>2
      <3> QED BY <2>1, <3>1, <3>2 DEF Translated
    <2>11. Named(F, V)'
      <3>1. CASE Captures(F, d, K, V, R, j)
        <4>1. /\ op.code = "capture" /\ V[j + 1] = V[j] + 1 /\ F.vars[V[j] + 1].name = d.pool[op.operand + 1]
              /\ op.operand \in 0 .. Len(d.pool) - 1
          BY <3>1 DEF Captures, op
        <4>2. d.pool[op.operand + 1] \in Texts
          <5>1. d.pool \in Seq(Texts) /\ op.operand + 1 \in 1 .. Len(d.pool)
            BY <4>1 DEF IInv, TypeIn, DefinitionIn
          <5> QED BY <5>1, ElementOfSeq
        <4>3. /\ Len(pattern'.vars) = V[j] + 1 /\ pattern'.vars[V[j] + 1] = d.pool[op.operand + 1]
              /\ \A v \in 1 .. V[j] : pattern'.vars[v] = pattern.vars[v]
          BY <2>2, <2>3, <2>5, <4>1, <4>2, AppendProperties
        <4>4. ASSUME NEW v \in 1 .. V[j] + 1 PROVE pattern'.vars[v] = F.vars[v].name
          <5>1. CASE v = V[j] + 1
            BY <4>1, <4>3, <5>1
          <5>2. CASE v # V[j] + 1
            <6>1. v \in 1 .. V[j]
              BY <2>4, <5>2
            <6> QED BY <4>3, <6>1 DEF Checked, Named
          <5> QED BY <5>1, <5>2
        <4> QED BY <2>1, <4>1, <4>3, <4>4 DEF Named
      <3>2. CASE ~Captures(F, d, K, V, R, j)
        <4>1. op.code # "capture" /\ V[j + 1] = V[j]
          BY <2>6, <3>2 DEF ExecutesLeaf, Joins, Executes, op
        <4>2. pattern'.vars = pattern.vars
          BY <2>5, <4>1
        <4> QED BY <2>1, <2>2, <4>1, <4>2 DEF Checked, Named
      <3> QED BY <3>1, <3>2
    <2>12. DeepOps(d)'
      <3>0. DeepOps(d)
        BY DEF Checked
      <3>1. deep' <=> \E i \in 1 .. j : d.ops[i].code = "pushM"
        <4>1. \A i \in 1 .. j : i = j \/ i \in 1 .. checked
          BY <2>2
        <4>2. \A i \in 1 .. checked : i \in 1 .. j
          BY <2>2
        <4>3. j \in 1 .. j
          BY <2>2
        <4> QED BY <2>5, <3>0, <4>1, <4>2, <4>3, Zenon DEF DeepOps, op
      <3>2. ASSUME NEW i \in 1 .. j, NEW k \in 1 .. j, d.ops[i].code = "pushM", d.ops[k].code = "pushM"
            PROVE  i = k
        <4>1. CASE i = j
          <5>1. ~(k \in 1 .. checked)
            BY <2>7, <3>0, <3>2, <4>1 DEF DeepOps, op
          <5> QED BY <2>2, <4>1, <5>1
        <4>2. CASE k = j
          <5>1. ~(i \in 1 .. checked)
            BY <2>7, <3>0, <3>2, <4>2 DEF DeepOps, op
          <5> QED BY <2>2, <4>2, <5>1
        <4>3. CASE i # j /\ k # j
          <5>1. i \in 1 .. checked /\ k \in 1 .. checked
            BY <2>2, <4>3
          <5> QED BY <3>0, <3>2, <5>1 DEF DeepOps
        <4> QED BY <4>1, <4>2, <4>3
      <3> QED BY <2>1, <3>1, <3>2 DEF DeepOps
    <2>13. Counted(F, K)'
      <3>0. Counted(F, K)
        BY DEF Checked
      <3>1. CASE ExecutesLeaf(F, d, K, V, R, j)
        <4> DEFINE new == K[j] + 1
        <4>1. /\ K[j + 1] = new /\ op.code \in {"push", "pushM", "litPush"}
              /\ IsDeep(F, new) <=> op.code = "pushM"
          <5>1. Executes(d, F.segs[K[j] + 1], op) /\ K[j + 1] = K[j] + 1
            BY <3>1 DEF ExecutesLeaf, op
          <5> QED BY <5>1 DEF Executes, IsDeep
        <4>2. /\ \A w \in 1 .. new : w = new \/ w \in 1 .. K[j]
              /\ \A w \in 1 .. K[j] : w \in 1 .. new
              /\ new \in 1 .. new /\ new - new = 0 /\ \A w \in 1 .. K[j] : new - w = K[j] - w + 1
          BY <2>4
        <4> HIDE DEF new
        <4>3. deep' <=> \E w \in 1 .. new : IsDeep(F, w)
          BY <2>5, <3>0, <4>1, <4>2, Zenon DEF Counted
        <4>4. ASSUME NEW w \in 1 .. new, IsDeep(F, w) PROVE pattern'.tailLen = new - w
          <5>1. CASE w = new
            <6>1. op.code = "pushM" /\ ~deep
              BY <2>7, <4>1, <4>4, <5>1
            <6>2. pattern.tailLen = 0
              BY <3>0, <6>1 DEF Counted
            <6>3. pattern'.tailLen = pattern.tailLen
              BY <2>5, <6>1
            <6> QED BY <4>2, <5>1, <6>2, <6>3
          <5>2. CASE w # new
            <6>1. w \in 1 .. K[j]
              BY <4>2, <5>2
            <6>2. deep /\ pattern.tailLen = K[j] - w
              BY <3>0, <4>4, <6>1 DEF Counted
            <6>3. op.code \in {"push", "litPush"}
              BY <2>7, <4>1, <6>2
            <6>4. pattern'.tailLen = pattern.tailLen + 1
              BY <2>5, <6>2, <6>3, Zenon
            <6> QED BY <4>2, <6>1, <6>2, <6>4
          <5> QED BY <5>1, <5>2
        <4>5. ~deep' => pattern'.tailLen = 0
          <5>1. ~deep' => ~deep
            BY <2>5
          <5>2. ~deep => pattern'.tailLen = pattern.tailLen
            BY <2>5, Zenon
          <5> QED BY <3>0, <5>1, <5>2, Zenon DEF Counted
        <4> QED BY <2>1, <4>1, <4>3, <4>4, <4>5 DEF Counted
      <3>2. CASE ~ExecutesLeaf(F, d, K, V, R, j)
        <4>1. op.code \notin {"push", "pushM", "litPush"} /\ K[j + 1] = K[j]
          BY <2>6, <3>2 DEF Captures, Joins, op
        <4>2. (deep' <=> deep) /\ pattern'.tailLen = pattern.tailLen
          BY <2>5, <4>1, Zenon
        <4> QED BY <2>1, <3>0, <4>1, <4>2 DEF Counted
      <3> QED BY <3>1, <3>2
    <2>14. (R[checked + 1] <= Depth)'
      <3>1. depth \in Seq(Nat) /\ DepthAfter(op) \in Nat /\ Depth' = DepthAfter(op)
        <4>1. depth \in Seq(Nat) /\ depth' \in Seq(Nat)
          BY <1>3 DEF IInv, TypeIn
        <4>2. depth \in Seq(Nat \cup {DepthAfter(op)})
          BY <4>1, SeqMonotonic
        <4>3. /\ Len(depth') = Len(depth) + 1 /\ depth'[Len(depth) + 1] = DepthAfter(op)
          BY <2>5, <4>2, AppendProperties
        <4>4. Depth' = depth'[Len(depth')]
          BY DEF Depth, Last
        <4>5. Len(depth) + 1 \in 1 .. Len(depth')
          BY <4>1, <4>3
        <4> QED BY <4>1, <4>3, <4>4, <4>5, ElementOfSeq
      <3>2. CASE ExecutesLeaf(F, d, K, V, R, j)
        <4>1. op.code \in {"push", "pushM", "litPush"} /\ R[j + 1] = R[j] + 1
          BY <3>2 DEF ExecutesLeaf, Executes, op
        <4>2. DepthAfter(op) = Depth + 1
          BY <4>1 DEF DepthAfter
        <4>3. R[j] <= Depth /\ R[j] \in Nat
          <5>1. R \in [1 .. Len(d.ops) + 1 -> Nat] /\ j \in 1 .. Len(d.ops) + 1
            BY <2>2 DEF Programs
          <5> QED BY <5>1 DEF Checked
        <4>4. Depth \in Nat
          <5>1. Depth = depth[Len(depth)] /\ Len(depth) = j
            BY <2>2 DEF Depth, Last, IInv, CheckInv
          <5> QED BY <2>2, <3>1, <5>1, ElementOfSeq
        <4> QED BY <2>1, <3>1, <4>1, <4>2, <4>3, <4>4
      <3>3. CASE ~ExecutesLeaf(F, d, K, V, R, j)
        <4>1. R[j + 1] = 0
          BY <2>6, <3>3 DEF Captures, Joins
        <4> QED BY <2>1, <3>1, <4>1
      <3> QED BY <3>2, <3>3
    <2> QED BY <1>1, <2>1, <2>10, <2>11, <2>12, <2>13, <2>14 DEF Checked
  <1> QED BY <1>4, <1>5

-----------------------------------------------------------------------------
(* A match of such a program.                                              *)

\* How many of n components the first k segments take.
Position(F, n, k) ==
  IF \E w \in Wild(F) : w <= k THEN n - (Len(F.segs) - k) ELSE k

AllChecked(F, d, K, V, R) == Checked(F, d, K, V, R) /\ checked = Len(d.ops)

LEMMA TailIsCounted ==
  ASSUME NEW F, NEW d, NEW K, NEW V, NEW R, Programs(F, d, K, V, R), AllChecked(F, d, K, V, R)
  PROVE  /\ Len(F.segs) \in Nat /\ DOMAIN F.segs = 1 .. Len(F.segs)
         /\ pattern.tailLen = TailLen(F)
         /\ Wild(F) = {} => pattern.tailLen = 0
         /\ \A w \in Wild(F) : w \in 1 .. Len(F.segs) /\ pattern.tailLen = Len(F.segs) - w
         /\ \A v, w \in Wild(F) : v = w
  <1> DEFINE L == Len(F.segs)
  <1>1. /\ L \in Nat /\ DOMAIN F.segs = 1 .. L /\ K[checked + 1] = L
        /\ Counted(F, K)
    BY DEF Programs, AllChecked, Checked
  <1>2. Wild(F) = {w \in 1 .. L : IsDeep(F, w)}
    BY <1>1 DEF Wild, IsDeep
  <1>3. \A w \in Wild(F) : w \in 1 .. L /\ pattern.tailLen = L - w
    BY <1>1, <1>2 DEF Counted
  <1>4. Wild(F) = {} => pattern.tailLen = 0
    <2>1. Wild(F) = {} => ~deep
      BY <1>1, <1>2, Zenon DEF Counted
    <2> QED BY <1>1, <2>1 DEF Counted
  <1>5. \A v, w \in Wild(F) : v = w
    <2> SUFFICES ASSUME NEW v \in Wild(F), NEW w \in Wild(F) PROVE v = w
      OBVIOUS
    <2>1. v \in 1 .. L /\ w \in 1 .. L /\ L - v = L - w
      BY <1>3
    <2> QED BY <1>1, <2>1
  <1>6. pattern.tailLen = TailLen(F)
    <2>1. CASE Wild(F) = {}
      BY <1>4, <2>1 DEF TailLen
    <2>2. CASE Wild(F) # {}
      <3>1. (CHOOSE w \in Wild(F) : TRUE) \in Wild(F)
        BY <2>2
      <3> QED BY <1>3, <2>2, <3>1 DEF TailLen
    <2> QED BY <2>1, <2>2
  <1> QED BY <1>1, <1>3, <1>4, <1>5, <1>6

LEMMA SpanIsPosition ==
  ASSUME NEW F, NEW n \in Nat, NEW k \in Nat, Len(F.segs) \in Nat, DOMAIN F.segs = 1 .. Len(F.segs)
  PROVE  SpanFrom(F, n, k + 1) = Position(F, n, k) + 1
  <1>1. \A w \in Wild(F) : w \in Nat /\ (w < k + 1 <=> w <= k)
    BY DEF Wild
  <1>2. CASE \E w \in Wild(F) : w <= k
    <2>1. SpanFrom(F, n, k + 1) = n - (Len(F.segs) - (k + 1))
      BY <1>1, <1>2 DEF SpanFrom
    <2>2. Position(F, n, k) = n - (Len(F.segs) - k)
      BY <1>2 DEF Position
    <2>3. \A L \in Nat : n - (L - (k + 1)) = n - (L - k) + 1
      OBVIOUS
    <2> QED BY <2>1, <2>2, <2>3
  <1>3. CASE ~(\E w \in Wild(F) : w <= k)
    <2>1. SpanFrom(F, n, k + 1) = k + 1
      BY <1>1, <1>3 DEF SpanFrom
    <2>2. Position(F, n, k) = k
      BY <1>3 DEF Position
    <2> QED BY <2>1, <2>2
  <1> QED BY <1>2, <1>3

\* A segment that is not deep takes one component ...
LEMMA OneMore ==
  ASSUME NEW F, NEW n \in Nat, NEW k \in Nat, Len(F.segs) \in Nat, DOMAIN F.segs = 1 .. Len(F.segs),
         k + 1 \notin Wild(F)
  PROVE  Position(F, n, k + 1) = Position(F, n, k) + 1
  <1>1. \A w \in Wild(F) : w \in Nat /\ (w <= k + 1 <=> w <= k)
    BY DEF Wild
  <1>2. CASE \E w \in Wild(F) : w <= k
    <2>1. Position(F, n, k + 1) = n - (Len(F.segs) - (k + 1))
      BY <1>1, <1>2 DEF Position
    <2>2. Position(F, n, k) = n - (Len(F.segs) - k)
      BY <1>2 DEF Position
    <2> QED BY <2>1, <2>2
  <1>3. CASE ~(\E w \in Wild(F) : w <= k)
    BY <1>1, <1>3 DEF Position
  <1> QED BY <1>2, <1>3

\* ... which is what an operation that pushes reads.
LEMMA OneTaken ==
  ASSUME NEW s, \E T : s \in Seq(T), NEW p \in Nat, p < Len(s)
  PROVE  /\ SubSeq(s, p + 1, p + 1) = <<s[p + 1]>>
         /\ Len(SubSeq(s, p + 1, p + 1)) = 1 /\ DOMAIN SubSeq(s, p + 1, p + 1) = {1}
         /\ SubSeq(s, p + 1, p + 1)[1] = s[p + 1] /\ SubSeq(s, p + 1, p + 1) # <<>>
  <1>1. PICK T : s \in Seq(T)
    OBVIOUS
  <1>2. Len(s) \in Nat /\ p + 1 \in 1 .. Len(s) /\ s[p + 1] \in T
    BY <1>1
  <1> DEFINE u == SubSeq(s, p + 1, p + 1)
  <1>3. u \in Seq(T) /\ Len(u) = 1 /\ u[1] = s[p + 1]
    <2>1. /\ SubSeq(s, p + 1, p + 1) \in Seq(T)
          /\ Len(SubSeq(s, p + 1, p + 1)) = (p + 1) - (p + 1) + 1
          /\ \A i \in 1 .. (p + 1) - (p + 1) + 1 : SubSeq(s, p + 1, p + 1)[i] = s[p + 1 + i - 1]
      BY <1>1, <1>2, SubSeqProperties
    <2>2. (p + 1) - (p + 1) + 1 = 1 /\ p + 1 + 1 - 1 = p + 1 /\ 1 \in 1 .. 1
      OBVIOUS
    <2> HIDE DEF u
    <2>3. 1 \in 1 .. (p + 1) - (p + 1) + 1
      BY <2>2
    <2>4. u[1] = s[p + 1 + 1 - 1]
      BY <2>1, <2>3, Zenon DEF u
    <2> QED BY <2>1, <2>2, <2>4 DEF u
  <1> HIDE DEF u
  <1>4. DOMAIN u = {1} /\ u # <<>>
    <2>1. DOMAIN u = 1 .. 1 /\ Len(<<>>) = 0
      BY <1>3
    <2>2. 1 .. 1 = {1}
      OBVIOUS
    <2>3. u # <<>>
      <3>1. Len(u) # 0
        BY <1>3
      <3> QED BY <1>3, <3>1, EmptySeq
    <2> QED BY <2>1, <2>2, <2>3, Zenon
  <1>5. u = <<s[p + 1]>>
    BY <1>2, <1>3
  <1> QED BY <1>3, <1>4, <1>5 DEF u

LEMMA OneValue ==
  ASSUME NEW x
  PROVE  [i \in {1} |-> x] = <<x>>
  <1>1. 1 .. 1 = {1}
    OBVIOUS
  <1>2. <<x>> \in Seq({x}) /\ Len(<<x>>) = 1 /\ <<x>>[1] = x
    OBVIOUS
  <1>3. [i \in 1 .. 1 |-> x] = <<x>>
    OBVIOUS
  <1> QED BY <1>1, <1>3, Zenon

\* What Go's switch does for a push is what the template says of the segment.
LeafMeaning(F, k, op) ==
  /\ ~Fits(op) => SegVerdict(F, comps, k + 1) = "no"
  /\ Fits(op) /\ IsMalformed(op) => SegVerdict(F, comps, k + 1) = "err"
  /\ Fits(op) /\ ~IsMalformed(op) =>
       /\ SegVerdict(F, comps, k + 1) = "ok"
       /\ Value(op) = Piece(F, comps, k + 1)
       /\ pos + Len(Taken(op)) = Position(F, Len(comps), k + 1)

LEMMA PushMeans ==
  ASSUME NEW F, NEW k \in Nat, Len(F.segs) \in Nat, DOMAIN F.segs = 1 .. Len(F.segs), k < Len(F.segs),
         \E T : comps \in Seq(T), pos \in 0 .. Len(comps), pos = Position(F, Len(comps), k),
         NEW op, Executes(source, F.segs[k + 1], op), op.code # "pushM"
  PROVE  LeafMeaning(F, k, op)
  <1> DEFINE seg == F.segs[k + 1]
             n   == Len(comps)
             from == SpanFrom(F, n, k + 1)
  <1>1. n \in Nat /\ pos \in Nat /\ from = pos + 1
    <2>1. n \in Nat /\ pos \in Nat
      OBVIOUS
    <2>2. from = Position(F, n, k) + 1
      BY <2>1, SpanIsPosition
    <2> QED BY <2>1, <2>2
  <1>2. /\ seg.kind # "dstar" /\ op.code \in {"push", "litPush"}
        /\ op.code = "push" <=> seg.kind = "star"
        /\ op.code = "litPush" <=> seg.kind = "lit"
        /\ op.code = "litPush" => seg.lit = source.pool[op.operand + 1]
    BY DEF Executes
  <1>3. k + 1 \notin Wild(F)
    BY <1>2 DEF Wild
  <1>4. Position(F, n, k + 1) = pos + 1
    BY <1>1, <1>3, OneMore
  <1> DEFINE verdict == IF from \notin 1 .. n THEN "no"
                        ELSE IF seg.kind = "lit" THEN IF comps[from] = seg.lit THEN "ok" ELSE "no"
                             ELSE IF Text[comps[from]].one = Malformed THEN "err" ELSE "ok"
  <1>5. SegVerdict(F, comps, k + 1) = verdict
    BY <1>2, Zenon DEF SegVerdict
  <1> HIDE DEF n, from, seg
  <1>6. from \in 1 .. n <=> pos < Len(comps)
    BY <1>1 DEF n
  <1>7. CASE ~(pos < Len(comps))
    <2>1. ~Fits(op)
      BY <1>2, <1>7 DEF Fits
    <2>2. verdict = "no"
      BY <1>6, <1>7
    <2> QED BY <1>5, <2>1, <2>2 DEF LeafMeaning
  <1>8. CASE pos < Len(comps)
    <2> DEFINE c == comps[pos + 1]
    <2>1. /\ Taken(op) = SubSeq(comps, pos + 1, pos + 1)
          /\ Len(Taken(op)) = 1 /\ DOMAIN Taken(op) = {1} /\ Taken(op)[1] = c /\ Taken(op) # <<>>
      <3>1. Taken(op) = SubSeq(comps, pos + 1, pos + 1)
        BY <1>2 DEF Taken
      <3> QED BY <1>1, <1>8, <3>1, OneTaken
    <2> HIDE DEF c
    <2>2. IsMalformed(op) <=> op.code # "litPush" /\ Unescaped(op, c) = Malformed
      BY <2>1 DEF IsMalformed
    <2>3. Value(op) = <<Unescaped(op, c)>>
      <3>1. Value(op) = [i \in DOMAIN Taken(op) |-> Unescaped(op, Taken(op)[i])]
        BY <2>1 DEF Value
      <3>2. Value(op) = [i \in {1} |-> Unescaped(op, c)]
        BY <2>1, <3>1
      <3> QED BY <3>2, OneValue
    <2>4. comps[from] = c
      BY <1>1 DEF c
    <2>5. CASE op.code = "push"
      <3>1. Fits(op) /\ Unescaped(op, c) = Text[c].one /\ seg.kind = "star"
        BY <1>2, <1>8, <2>5 DEF Fits, Unescaped
      <3>2. verdict = IF Text[c].one = Malformed THEN "err" ELSE "ok"
        BY <1>6, <1>8, <2>4, <3>1
      <3>3. Piece(F, comps, k + 1) = <<Text[c].one>>
        <4>1. Piece(F, comps, k + 1) = <<Text[comps[from]].one>>
          BY <3>1, Zenon DEF Piece, seg, from, n
        <4> QED BY <2>4, <4>1
      <3>4. IsMalformed(op) <=> Text[c].one = Malformed
        BY <2>2, <2>5, <3>1
      <3> HIDE DEF verdict
      <3> QED BY <1>4, <1>5, <2>1, <2>3, <3>1, <3>2, <3>3, <3>4 DEF LeafMeaning, n
    <2>6. CASE op.code = "litPush"
      <3>1. /\ Unescaped(op, c) = c /\ seg.kind = "lit" /\ ~IsMalformed(op)
            /\ Fits(op) <=> c = seg.lit
        BY <1>2, <1>8, <2>6 DEF Fits, Unescaped, IsMalformed, c
      <3>2. verdict = IF c = seg.lit THEN "ok" ELSE "no"
        BY <1>6, <1>8, <2>4, <3>1
      <3>3. Piece(F, comps, k + 1) = <<c>>
        <4>1. Piece(F, comps, k + 1) = <<comps[from]>>
          BY <3>1, Zenon DEF Piece, seg, from, n
        <4> QED BY <2>4, <4>1
      <3> HIDE DEF verdict
      <3> QED BY <1>4, <1>5, <2>1, <2>3, <3>1, <3>2, <3>3 DEF LeafMeaning, n
    <2> QED BY <1>2, <2>5, <2>6
  <1> QED BY <1>7, <1>8

LEMMA DeepMeans ==
  ASSUME NEW F, NEW d, NEW K, NEW V, NEW R, Programs(F, d, K, V, R), AllChecked(F, d, K, V, R),
         pattern.tailLen \in Nat, NEW k \in Nat, k < Len(F.segs),
         \E T : comps \in Seq(T), pos \in 0 .. Len(comps), pos = Position(F, Len(comps), k),
         NEW op, Executes(source, F.segs[k + 1], op), op.code = "pushM"
  PROVE  LeafMeaning(F, k, op)
  <1> DEFINE L    == Len(F.segs)
             n    == Len(comps)
             tail == pattern.tailLen
             end  == n - tail
             to   == SpanTo(F, n, k + 1)
             from == SpanFrom(F, n, k + 1)
             At(i) == Text[comps[pos + i]].many
  <1>1. /\ L \in Nat /\ DOMAIN F.segs = 1 .. L /\ tail = TailLen(F)
        /\ \A w \in Wild(F) : w \in 1 .. L /\ tail = L - w
        /\ \A v, w \in Wild(F) : v = w
    BY TailIsCounted
  <1>2. n \in Nat /\ pos \in Nat /\ pos <= n
    <2>1. n \in Nat
      OBVIOUS
    <2> QED BY <2>1
  <1>3. F.segs[k + 1].kind = "dstar" /\ k + 1 \in Wild(F)
    <2>1. F.segs[k + 1].kind = "dstar" /\ k + 1 \in 1 .. L
      BY <1>1 DEF Executes
    <2> QED BY <1>1, <2>1 DEF Wild
  <1>4. tail = L - (k + 1) /\ ~(\E w \in Wild(F) : w <= k)
    <2>1. \A w \in Wild(F) : w = k + 1
      BY <1>1, <1>3
    <2> QED BY <1>1, <1>3, <2>1
  <1>5. pos = k /\ from = pos + 1 /\ to = end
    <2>1. pos = k
      BY <1>4 DEF Position
    <2>2. from = Position(F, n, k) + 1
      BY <1>1, <1>2, SpanIsPosition
    <2>3. to = n - TailLen(F)
      BY <1>3 DEF SpanTo
    <2> QED BY <1>1, <2>1, <2>2, <2>3
  <1>6. Position(F, n, k + 1) = end
    <2>0. k + 1 <= k + 1
      OBVIOUS
    <2>1. Position(F, n, k + 1) = n - (L - (k + 1))
      BY <1>3, <2>0, Zenon DEF Position
    <2> QED BY <1>4, <2>1
  <1> DEFINE verdict == IF n < k + tail THEN "no"
                        ELSE IF \E q \in from .. to : Text[comps[q]].many = Malformed THEN "err" ELSE "ok"
  <1>7. SegVerdict(F, comps, k + 1) = verdict
    <2>1. (k + 1) - 1 = k
      OBVIOUS
    <2>2. SegVerdict(F, comps, k + 1) =
            IF n < ((k + 1) - 1) + TailLen(F) THEN "no"
            ELSE IF \E q \in from .. to : Text[comps[q]].many = Malformed THEN "err" ELSE "ok"
      BY <1>3, Zenon DEF SegVerdict
    <2> HIDE DEF n, from, to, tail
    <2> QED BY <1>1, <2>1, <2>2
  <1>8. Fits(op) <=> pos + tail <= n
    BY DEF Fits, TailFits
  <1> HIDE DEF n, from, to, tail, L, verdict
  <1>t. tail \in Nat
    BY DEF tail
  <1>9. CASE ~Fits(op)
    <2>1. n < k + tail
      BY <1>t, <1>2, <1>5, <1>8, <1>9
    <2>2. verdict = "no"
      BY <2>1, Zenon DEF verdict
    <2> QED BY <1>7, <1>9, <2>2 DEF LeafMeaning
  <1>10. CASE Fits(op)
    <2>1. end \in Nat /\ pos <= end /\ end <= n /\ end - pos \in Nat /\ ~(n < k + tail)
      BY <1>t, <1>2, <1>5, <1>8, <1>10
    <2> HIDE DEF end
    <2> DEFINE took == Taken(op)
               len  == end - pos
    <2>2. /\ took = SubSeq(comps, pos + 1, end)
      BY DEF Taken, end, n, tail
    <2>3. /\ \E T : took \in Seq(T)
          /\ Len(took) = len /\ \A i \in 1 .. len : took[i] = comps[pos + i]
      <3>1. PICK T : comps \in Seq(T)
        OBVIOUS
      <3>2. \A i \in pos + 1 .. end : comps[i] \in T
        BY <1>2, <2>1, <3>1 DEF n
      <3>3. pos + 1 \in Int /\ end \in Int
        BY <1>2, <2>1
      <3>4. /\ took \in Seq(T) /\ Len(took) = IF pos + 1 <= end THEN end - (pos + 1) + 1 ELSE 0
            /\ \A i \in 1 .. end - (pos + 1) + 1 : took[i] = comps[pos + 1 + i - 1]
        BY <2>2, <3>2, <3>3, SubSeqProperties
      <3> HIDE DEF took
      <3>5. Len(took) = len
        BY <1>2, <2>1, <3>4
      <3>6. ASSUME NEW i \in 1 .. len PROVE took[i] = comps[pos + i]
        <4>1. i \in 1 .. end - (pos + 1) + 1 /\ pos + 1 + i - 1 = pos + i
          BY <1>2, <2>1
        <4> QED BY <3>4, <4>1
      <3> QED BY <3>4, <3>5, <3>6
    <2> HIDE DEF took
    <2>4. len \in Nat /\ DOMAIN took = 1 .. len
      BY <2>1, <2>3
    <2>5. \A x : Unescaped(op, x) = Text[x].many
      BY DEF Unescaped
    <2>6. IsMalformed(op) <=> \E i \in 1 .. len : At(i) = Malformed
      <3>0. op.code # "litPush"
        OBVIOUS
      <3>1. IsMalformed(op) <=> \E i \in DOMAIN took : Unescaped(op, took[i]) = Malformed
        BY <3>0, Zenon DEF IsMalformed, took
      <3>2. \A i \in 1 .. len : Unescaped(op, took[i]) = At(i)
        BY <2>3, <2>5
      <3> HIDE DEF At, len
      <3> QED BY <2>4, <3>1, <3>2, Zenon
    <2>7. (\E q \in from .. to : Text[comps[q]].many = Malformed) <=> \E i \in 1 .. len : At(i) = Malformed
      <3>1. ASSUME NEW q \in from .. to, Text[comps[q]].many = Malformed
            PROVE  \E i \in 1 .. len : At(i) = Malformed
        <4>1. q - pos \in 1 .. len /\ pos + (q - pos) = q
          BY <1>2, <1>5, <2>1
        <4> QED BY <3>1, <4>1
      <3>2. ASSUME NEW i \in 1 .. len, At(i) = Malformed
            PROVE  \E q \in from .. to : Text[comps[q]].many = Malformed
        <4>1. pos + i \in from .. to
          BY <1>2, <1>5, <2>1
        <4> QED BY <3>2, <4>1
      <3> QED BY <3>1, <3>2
    <2>8. verdict = IF IsMalformed(op) THEN "err" ELSE "ok"
      BY <2>1, <2>6, <2>7, Zenon DEF verdict
    <2>9. Value(op) = Piece(F, comps, k + 1)
      <3>1. Piece(F, comps, k + 1) =
              IF to < from THEN <<"">>
              ELSE [q \in 1 .. to - from + 1 |-> Text[comps[from + q - 1]].many]
        BY <1>3, Zenon DEF Piece, to, from, n
      <3>2. Value(op) = IF took = <<>> THEN <<"">> ELSE [i \in DOMAIN took |-> Unescaped(op, took[i])]
        BY Zenon DEF Value, took
      <3>3. (took = <<>>) <=> (to < from)
        <4>1. (took = <<>>) <=> (len = 0)
          BY <2>3, EmptySeq
        <4> QED BY <1>2, <1>5, <2>1, <4>1
      <3>4. ~(to < from) => [i \in DOMAIN took |-> Unescaped(op, took[i])]
                              = [q \in 1 .. to - from + 1 |-> Text[comps[from + q - 1]].many]
        <4>1. to - from + 1 = len
          BY <1>2, <1>5, <2>1
        <4>2. \A q \in 1 .. len : from + q - 1 = pos + q
          BY <1>2, <1>5, <2>1
        <4>3. \A q \in 1 .. len : Unescaped(op, took[q]) = Text[comps[from + q - 1]].many
          BY <2>3, <2>5, <4>2
        <4> HIDE DEF len
        <4> QED BY <2>4, <4>1, <4>3
      <3> QED BY <3>1, <3>2, <3>3, <3>4, Zenon
    <2>10. pos + Len(Taken(op)) = Position(F, n, k + 1)
      BY <1>2, <1>6, <2>1, <2>3 DEF took
    <2> QED BY <1>7, <1>10, <2>8, <2>9, <2>10 DEF LeafMeaning, n
  <1> QED BY <1>9, <1>10

\* The first segment that does not fit decides.
LEMMA FirstFailing ==
  ASSUME NEW F, Len(F.segs) \in Nat, DOMAIN F.segs = 1 .. Len(F.segs), NEW k \in Nat, k < Len(F.segs),
         \A i \in 1 .. k : SegVerdict(F, comps, i) = "ok", SegVerdict(F, comps, k + 1) # "ok"
  PROVE  MatchAndEscape(F, comps) =
           IF SegVerdict(F, comps, k + 1) = "no" THEN NotMatched ELSE MalformedPath
  <1> DEFINE failing == {i \in DOMAIN F.segs : SegVerdict(F, comps, i) # "ok"}
             first == CHOOSE i \in failing : \A j \in failing : i <= j
  <1>1. k + 1 \in failing /\ \A j \in failing : j \in Nat /\ k + 1 <= j
    <2>1. k + 1 \in failing
      OBVIOUS
    <2>2. ASSUME NEW j \in failing PROVE j \in Nat /\ k + 1 <= j
      <3>1. j \in 1 .. Len(F.segs) /\ j \notin 1 .. k
        OBVIOUS
      <3> QED BY <3>1
    <2> QED BY <2>1, <2>2
  <1> HIDE DEF failing
  <1>2. first \in failing /\ \A j \in failing : first <= j
    <2>1. \E i \in failing : \A j \in failing : i <= j
      BY <1>1
    <2> QED BY <2>1
  <1>3. first = k + 1
    BY <1>1, <1>2
  <1> HIDE DEF first
  <1>4. failing # {}
    BY <1>1
  <1>5. MatchAndEscape(F, comps) = IF SegVerdict(F, comps, first) = "no" THEN NotMatched ELSE MalformedPath
    BY <1>4, Zenon DEF MatchAndEscape, failing, first
  <1> QED BY <1>3, <1>5

\* What the machine has done when it is about to execute operation pc.
Capture(F, v) == Joined(F, comps, F.vars[v].lo, F.vars[v].hi)

Stacked(F, K, R) ==
  /\ R[pc] <= Len(stack)
  /\ \A i \in 1 .. R[pc] : stack[Len(stack) - R[pc] + i] = Piece(F, comps, K[pc] - R[pc] + i)

JoinedNext(F, V) == stack # <<>> /\ Last(stack) = Capture(F, V[pc] + 1)

Running(F, d, K, V, R) ==
  /\ comps # <<>>
  /\ \A i \in 1 .. K[pc] : SegVerdict(F, comps, i) = "ok"
  /\ pos = Position(F, Len(comps), K[pc])
  /\ Stacked(F, K, R)
  /\ \A v \in 1 .. V[pc] : captured[v] = Capture(F, v)
  /\ pc > 1 /\ d.ops[pc - 1].code = "concatN" => JoinedNext(F, V)

LEMMA OperationNow ==
  ASSUME NEW F, NEW d, NEW K, NEW V, NEW R, IInv(Texts), Programs(F, d, K, V, R), source = d,
         AllChecked(F, d, K, V, R), stage = "match", pc <= Len(pattern.ops)
  PROVE  /\ pc \in 1 .. Len(d.ops) /\ Len(d.ops) \in Nat
         /\ pattern.ops[pc].code = d.ops[pc].code
         /\ pattern.ops[pc].operand = IF d.ops[pc].code = "capture" THEN V[pc] + 1 ELSE d.ops[pc].operand
         /\ K[pc] \in Nat /\ V[pc] \in Nat /\ R[pc] \in Nat /\ pattern.tailLen \in Nat
         /\ Len(comps) \in Nat /\ pos \in 0 .. Len(comps) /\ Len(stack) \in Nat
         /\ \/ ExecutesLeaf(F, d, K, V, R, pc) \/ Joins(F, d, K, V, R, pc) \/ Captures(F, d, K, V, R, pc)
  <1>1. /\ pc \in 1 .. Len(pattern.ops) + 1 /\ Len(d.ops) \in Nat /\ pattern.tailLen \in Nat
        /\ Len(comps) \in Nat /\ pos \in 0 .. Len(comps)
    BY DEF IInv, TypeIn, DefinitionIn, PatternIn
  <1>2. Len(pattern.ops) = Len(d.ops) /\ Translated(d, V) /\ checked = Len(d.ops)
    BY DEF AllChecked, Checked, Translated
  <1>3. pc \in 1 .. Len(d.ops) /\ pc \in 1 .. Len(d.ops) + 1 /\ pc \in 1 .. checked
    BY <1>1, <1>2
  <1>4. Len(stack) \in Nat
    BY DEF IInv, Shapes
  <1>5. K[pc] \in Nat /\ V[pc] \in Nat /\ R[pc] \in Nat
    BY <1>3 DEF Programs
  <1>6. ExecutesLeaf(F, d, K, V, R, pc) \/ Joins(F, d, K, V, R, pc) \/ Captures(F, d, K, V, R, pc)
    BY <1>3 DEF Programs
  <1> QED BY <1>1, <1>2, <1>3, <1>4, <1>5, <1>6 DEF Translated

\* A leaf's operation decides what the template says of the segment.
LEMMA LeafDecides ==
  ASSUME NEW F, NEW d, NEW K, NEW V, NEW R, IInv(Texts), Programs(F, d, K, V, R), source = d,
         AllChecked(F, d, K, V, R), stage = "match", pc <= Len(pattern.ops),
         Running(F, d, K, V, R), ExecutesLeaf(F, d, K, V, R, pc)
  PROVE  LeafMeaning(F, K[pc], pattern.ops[pc]) /\ K[pc] < Len(F.segs)
  <1> DEFINE op == pattern.ops[pc]
  <1>1. /\ op.code = d.ops[pc].code /\ K[pc] \in Nat /\ pattern.tailLen \in Nat
        /\ Len(comps) \in Nat /\ pos \in 0 .. Len(comps)
        /\ op.operand = IF d.ops[pc].code = "capture" THEN V[pc] + 1 ELSE d.ops[pc].operand
    BY OperationNow
  <1>2. K[pc] < Len(F.segs) /\ Executes(d, F.segs[K[pc] + 1], d.ops[pc])
    BY DEF ExecutesLeaf
  <1>3. Executes(source, F.segs[K[pc] + 1], op)
    <2>1. op.operand = d.ops[pc].operand
      BY <1>1, <1>2 DEF Executes
    <2> QED BY <1>1, <1>2, <2>1 DEF Executes
  <1>4. pos = Position(F, Len(comps), K[pc])
    BY DEF Running
  <1>5. Len(F.segs) \in Nat /\ DOMAIN F.segs = 1 .. Len(F.segs)
    BY TailIsCounted
  <1>6. \E T : comps \in Seq(T)
    BY DEF IInv, Shapes
  <1> HIDE DEF op
  <1>7. CASE op.code = "pushM"
    BY <1>1, <1>2, <1>3, <1>4, <1>5, <1>6, <1>7, DeepMeans DEF op
  <1>8. CASE op.code # "pushM"
    BY <1>1, <1>2, <1>3, <1>4, <1>5, <1>6, <1>8, PushMeans DEF op
  <1> QED BY <1>2, <1>7, <1>8

\* A leaf's operation that is done has pushed what the template says.
LEMMA RunLeaf ==
  ASSUME NEW F, NEW d, NEW K, NEW V, NEW R, IInv(Texts), Programs(F, d, K, V, R), source = d,
         AllChecked(F, d, K, V, R), stage = "match", pc <= Len(pattern.ops),
         Running(F, d, K, V, R), ExecutesLeaf(F, d, K, V, R, pc),
         Fits(pattern.ops[pc]), ~IsMalformed(pattern.ops[pc]), Run(pattern.ops[pc])
  PROVE  Running(F, d, K, V, R)'
  <1> DEFINE op == pattern.ops[pc]
             k == K[pc]
             r == R[pc]
             n == Len(stack)
  <1>1. /\ LeafMeaning(F, k, op) /\ k < Len(F.segs)
    BY LeafDecides
  <1>2. /\ SegVerdict(F, comps, k + 1) = "ok" /\ Value(op) = Piece(F, comps, k + 1)
        /\ pos + Len(Taken(op)) = Position(F, Len(comps), k + 1)
    BY <1>1 DEF LeafMeaning
  <1>3. /\ op.code = d.ops[pc].code /\ k \in Nat /\ r \in Nat /\ n \in Nat /\ V[pc] \in Nat
        /\ pc \in 1 .. Len(d.ops) /\ Len(d.ops) \in Nat
    BY OperationNow
  <1>4. /\ K[pc + 1] = k + 1 /\ V[pc + 1] = V[pc] /\ R[pc + 1] = r + 1
        /\ op.code \in {"push", "pushM", "litPush"}
    BY <1>3 DEF ExecutesLeaf, Executes
  <1> HIDE DEF op
  <1>5. /\ pc' = pc + 1 /\ pos' = pos + Len(Taken(op)) /\ stack' = Append(stack, Value(op))
        /\ captured' = captured /\ comps' = comps
    BY <1>4 DEF Run, op
  <1> HIDE DEF k, r, n
  <1>6. /\ comps # <<>>
        /\ \A i \in 1 .. k : SegVerdict(F, comps, i) = "ok"
        /\ r <= n
        /\ \A i \in 1 .. r : stack[n - r + i] = Piece(F, comps, k - r + i)
        /\ \A v \in 1 .. V[pc] : captured[v] = Capture(F, v)
    BY DEF Running, Stacked, k, r, n
  <1>7. PICK T : stack \in Seq(T) /\ Value(op) \in T
    <2>1. PICK S : stack \in Seq(S)
      BY DEF IInv, Shapes
    <2>2. stack \in Seq(S \cup {Value(op)})
      BY <2>1, SeqMonotonic
    <2> QED BY <2>2
  <1>8. /\ Len(stack') = n + 1 /\ stack'[n + 1] = Value(op)
        /\ \A i \in 1 .. n : stack'[i] = stack[i]
    BY <1>5, <1>7, AppendProperties DEF n
  <1>9. \A i \in 1 .. k + 1 : SegVerdict(F, comps, i) = "ok"
    <2>1. \A i \in 1 .. k + 1 : i \in 1 .. k \/ i = k + 1
      BY <1>3
    <2> QED BY <1>2, <1>6, <2>1
  <1>10. ASSUME NEW i \in 1 .. r + 1
         PROVE  stack'[n + 1 - (r + 1) + i] = Piece(F, comps, k + 1 - (r + 1) + i)
    <2> DEFINE a == n - r + i
               b == k - r + i
    <2>1. n + 1 - (r + 1) + i = a /\ k + 1 - (r + 1) + i = b
      BY <1>3
    <2>2. CASE i = r + 1
      <3>1. a = n + 1 /\ b = k + 1
        BY <1>3, <2>2
      <3> HIDE DEF a, b
      <3> QED BY <1>2, <1>8, <2>1, <3>1
    <2>3. CASE i # r + 1
      <3>1. i \in 1 .. r /\ a \in 1 .. n
        BY <1>3, <1>6, <2>3
      <3>2. stack[a] = Piece(F, comps, b)
        BY <1>6, <3>1
      <3> HIDE DEF a, b
      <3> QED BY <1>8, <2>1, <3>1, <3>2
    <2> QED BY <2>2, <2>3
  <1>11. r + 1 <= n + 1
    BY <1>3, <1>6
  <1>12. Stacked(F, K, R)'
    <2>1. Len(stack') = n + 1 /\ R[pc'] = r + 1 /\ K[pc'] = k + 1 /\ comps' = comps
      BY <1>4, <1>5, <1>8
    <2>2. ASSUME NEW i \in 1 .. R[pc']
          PROVE  stack'[Len(stack') - R[pc'] + i] = Piece(F, comps', K[pc'] - R[pc'] + i)
      <3>0. i \in 1 .. r + 1
        BY <2>1, Zenon
      <3> DEFINE len == Len(stack')
                 taken == R[pc']
                 upto == K[pc']
      <3>a. len = n + 1 /\ taken = r + 1 /\ upto = k + 1
        BY <2>1
      <3> HIDE DEF len, taken, upto
      <3>b. len - taken + i = n + 1 - (r + 1) + i /\ upto - taken + i = k + 1 - (r + 1) + i
        BY <1>3, <3>0, <3>a
      <3>1. Len(stack') - R[pc'] + i = n + 1 - (r + 1) + i /\ K[pc'] - R[pc'] + i = k + 1 - (r + 1) + i
        BY <3>b DEF len, taken, upto
      <3>2. Piece(F, comps', k + 1 - (r + 1) + i) = Piece(F, comps, k + 1 - (r + 1) + i)
        BY <2>1, Zenon
      <3> QED BY <1>10, <3>0, <3>1, <3>2, Zenon
    <2>3. R[pc'] <= Len(stack')
      BY <1>11, <2>1
    <2> QED BY <2>2, <2>3, Zenon DEF Stacked
  <1>13. (\A v \in 1 .. V[pc] : captured[v] = Capture(F, v))'
    BY <1>4, <1>5, <1>6 DEF Capture
  <1>14. (pc > 1 /\ d.ops[pc - 1].code = "concatN" => JoinedNext(F, V))'
    <2>1. pc' - 1 = pc
      BY <1>3, <1>5
    <2>2. d.ops[pc' - 1].code # "concatN"
      BY <1>3, <1>4, <2>1
    <2> QED BY <2>2
  <1>15. pos' = Position(F, Len(comps), k + 1)
    BY <1>2, <1>5
  <1> QED BY <1>4, <1>5, <1>6, <1>9, <1>12, <1>13, <1>14, <1>15 DEF Running

\* The values joined are the pieces of the variable that is captured next.
LEMMA RunJoin ==
  ASSUME NEW F, NEW d, NEW K, NEW V, NEW R, IInv(Texts), Programs(F, d, K, V, R), source = d,
         AllChecked(F, d, K, V, R), stage = "match", pc <= Len(pattern.ops),
         Running(F, d, K, V, R), Joins(F, d, K, V, R, pc), Run(pattern.ops[pc])
  PROVE  Running(F, d, K, V, R)'
  <1> DEFINE op == pattern.ops[pc]
             k == K[pc]
             r == R[pc]
             n == Len(stack)
             m == op.operand
             lo == k - m + 1
  <1>1. /\ op.code = "concatN" /\ m \in 1 .. r /\ F.vars[V[pc] + 1].hi = k /\ F.vars[V[pc] + 1].lo = lo
        /\ K[pc + 1] = k /\ V[pc + 1] = V[pc] /\ R[pc + 1] = 0
    BY OperationNow DEF Joins
  <1>2. /\ k \in Nat /\ r \in Nat /\ n \in Nat /\ V[pc] \in Nat
        /\ pc \in 1 .. Len(d.ops) /\ Len(d.ops) \in Nat
    BY OperationNow
  <1> HIDE DEF op
  <1>3. /\ pc' = pc + 1 /\ pos' = pos /\ stack' = Append(Under(m), FlattenSeq(Top(m)))
        /\ captured' = captured /\ comps' = comps
    <2>1. Taken(op) = <<>>
      BY <1>1 DEF Taken
    <2>2. Len(<<>>) = 0 /\ pos \in Nat
      BY OperationNow
    <2> QED BY <1>1, <2>1, <2>2 DEF Run, op
  <1> HIDE DEF k, r, n, m
  <1>4. /\ comps # <<>>
        /\ \A i \in 1 .. k : SegVerdict(F, comps, i) = "ok"
        /\ pos = Position(F, Len(comps), k)
        /\ r <= n
        /\ \A i \in 1 .. r : stack[n - r + i] = Piece(F, comps, k - r + i)
        /\ \A v \in 1 .. V[pc] : captured[v] = Capture(F, v)
    BY DEF Running, Stacked, k, r, n
  <1>5. PICK T : stack \in Seq(T)
    BY DEF IInv, Shapes
  <1>6. /\ m \in Nat /\ m >= 1 /\ m <= n /\ n - m + 1 \in 1 .. n
    BY <1>1, <1>2, <1>4
  <1>7. /\ Top(m) \in Seq(T) /\ Len(Top(m)) = m
        /\ \A i \in 1 .. m : Top(m)[i] = stack[n - m + i]
    <2> DEFINE a == n - m + 1
    <2>1. Top(m) = SubSeq(stack, a, n)
      BY DEF Top, n
    <2>2. a \in Int /\ n \in Int /\ \A i \in a .. n : stack[i] \in T
      BY <1>2, <1>5, <1>6 DEF n
    <2>3. /\ Top(m) \in Seq(T) /\ Len(Top(m)) = IF a <= n THEN n - a + 1 ELSE 0
          /\ \A i \in 1 .. n - a + 1 : Top(m)[i] = stack[a + i - 1]
      BY <1>5, <2>1, <2>2, SubSeqProperties
    <2>4. a <= n /\ n - a + 1 = m
      BY <1>2, <1>6
    <2>5. \A i \in 1 .. m : a + i - 1 = n - m + i
      BY <1>2, <1>6
    <2> HIDE DEF a
    <2> QED BY <2>3, <2>4, <2>5
  <1>8. Top(m) = [q \in 1 .. k - lo + 1 |-> Piece(F, comps, lo + q - 1)]
    <2>1. k - lo + 1 = m
      BY <1>2, <1>6
    <2>2. ASSUME NEW i \in 1 .. m PROVE Top(m)[i] = Piece(F, comps, lo + i - 1)
      <3> DEFINE j == r - m + i
      <3>1. j \in 1 .. r /\ n - r + j = n - m + i /\ k - r + j = lo + i - 1
        BY <1>1, <1>2, <1>6
      <3> HIDE DEF j, lo
      <3>2. stack[n - r + j] = Piece(F, comps, k - r + j)
        BY <1>4, <3>1
      <3> QED BY <1>7, <3>1, <3>2
    <2>3. DOMAIN Top(m) = 1 .. m
      BY <1>7
    <2>4. Top(m) = [i \in 1 .. m |-> Top(m)[i]]
      BY <1>7
    <2> HIDE DEF lo
    <2> QED BY <2>1, <2>2, <2>4
  <1>9. FlattenSeq(Top(m)) = Capture(F, V[pc] + 1)
    <2>1. Capture(F, V[pc] + 1) = Joined(F, comps, lo, k)
      BY <1>1 DEF Capture
    <2>2. Joined(F, comps, lo, k) = FlattenSeq([q \in 1 .. k - lo + 1 |-> Piece(F, comps, lo + q - 1)])
      BY Zenon DEF Joined
    <2> QED BY <1>8, <2>1, <2>2, Zenon
  <1>10. JoinedNext(F, V)'
    <2> DEFINE x == Capture(F, V[pc] + 1)
    <2>1. stack' = Append(Under(m), x)
      BY <1>3, <1>9
    <2>2. m \in 0 .. Len(stack)
      BY <1>6 DEF n
    <2>3. \E S : Under(m) \in Seq(S)
      BY <1>5, <2>2, Popped DEF Under
    <2>4. PICK S : Under(m) \in Seq(S)
      BY <2>3
    <2>5. Under(m) \in Seq(S \cup {x})
      BY <2>4, SeqMonotonic
    <2> DEFINE u == Under(m)
               s == Append(u, x)
    <2>6. s \in Seq(S \cup {x}) /\ Len(s) = Len(u) + 1 /\ s[Len(u) + 1] = x /\ Len(u) \in Nat
      BY <2>5, AppendProperties
    <2>7. s # <<>> /\ Last(s) = x
      <3>1. Len(s) # 0
        BY <2>6
      <3> HIDE DEF s
      <3>2. s # <<>>
        BY <2>6, <3>1, EmptySeq
      <3>3. Last(s) = s[Len(s)]
        BY DEF Last
      <3> QED BY <2>6, <3>2, <3>3
    <2> HIDE DEF s, u
    <2>10. stack' = s
      BY <2>1 DEF s, u
    <2>11. JoinedNext(F, V)' <=> (stack' # <<>> /\ Last(stack') = Capture(F, V[pc] + 1)')
      BY DEF JoinedNext
    <2>12. Capture(F, V[pc] + 1)' = x
      BY <1>1, <1>3 DEF Capture
    <2> QED BY <2>7, <2>10, <2>11, <2>12
  <1>11. Stacked(F, K, R)'
    <2>1. Len(stack') \in Nat
      <3>1. IInv(Texts)'
        <4>1. Fits(op)
          BY <1>1 DEF Fits
        <4> QED BY <4>1, RunKeeps DEF op
      <3> QED BY <3>1 DEF IInv, Shapes
    <2>2. R[pc'] = 0 /\ K[pc'] = k
      BY <1>1, <1>3 DEF k
    <2> QED BY <2>1, <2>2 DEF Stacked
  <1>12. (\A v \in 1 .. V[pc] : captured[v] = Capture(F, v))'
    BY <1>1, <1>3, <1>4 DEF Capture
  <1> QED BY <1>1, <1>3, <1>4, <1>10, <1>11, <1>12 DEF Running, k

\* What was joined is captured.
LEMMA RunCapture ==
  ASSUME NEW F, NEW d, NEW K, NEW V, NEW R, IInv(Texts), Programs(F, d, K, V, R), source = d,
         AllChecked(F, d, K, V, R), stage = "match", pc <= Len(pattern.ops),
         Running(F, d, K, V, R), Captures(F, d, K, V, R, pc), Run(pattern.ops[pc])
  PROVE  Running(F, d, K, V, R)'
  <1> DEFINE op == pattern.ops[pc]
  <1>1. /\ op.code = "capture" /\ op.operand = V[pc] + 1 /\ V[pc] < Len(F.vars)
        /\ K[pc + 1] = K[pc] /\ V[pc + 1] = V[pc] + 1 /\ R[pc + 1] = 0
        /\ pc > 1 /\ d.ops[pc - 1].code = "concatN"
    <2>1. /\ op.code = d.ops[pc].code
          /\ op.operand = IF d.ops[pc].code = "capture" THEN V[pc] + 1 ELSE d.ops[pc].operand
      BY OperationNow
    <2> HIDE DEF op
    <2>2. op.code = "capture" /\ op.operand = V[pc] + 1
      BY <2>1 DEF Captures
    <2> QED BY <2>2 DEF Captures
  <1>2. /\ K[pc] \in Nat /\ V[pc] \in Nat
        /\ pc \in 1 .. Len(d.ops) /\ Len(d.ops) \in Nat /\ d.ops[pc].code = op.code
    BY OperationNow
  <1> HIDE DEF op
  <1>3. /\ pc' = pc + 1 /\ pos' = pos /\ comps' = comps
        /\ captured' = [captured EXCEPT ![V[pc] + 1] = Last(stack)]
    <2>1. Taken(op) = <<>>
      BY <1>1 DEF Taken
    <2>2. Len(<<>>) = 0 /\ pos \in Nat
      BY OperationNow
    <2> QED BY <1>1, <2>1, <2>2 DEF Run, op
  <1>4. /\ comps # <<>>
        /\ \A i \in 1 .. K[pc] : SegVerdict(F, comps, i) = "ok"
        /\ pos = Position(F, Len(comps), K[pc])
        /\ \A v \in 1 .. V[pc] : captured[v] = Capture(F, v)
        /\ Last(stack) = Capture(F, V[pc] + 1)
    BY <1>1 DEF Running, JoinedNext
  <1>5. V[pc] + 1 \in DOMAIN captured
    <2>1. ~OutOfBounds(op)
      BY NextIsSound DEF op
    <2> QED BY <1>1, <2>1 DEF OutOfBounds
  <1>6. ASSUME NEW v \in 1 .. V[pc] + 1 PROVE captured'[v] = Capture(F, v)
    <2>1. CASE v = V[pc] + 1
      BY <1>3, <1>4, <1>5, <2>1
    <2>2. CASE v # V[pc] + 1
      <3>1. v \in 1 .. V[pc]
        BY <1>2, <2>2
      <3>2. captured'[v] = captured[v]
        BY <1>3, <2>2
      <3> QED BY <1>4, <3>1, <3>2
    <2> QED BY <2>1, <2>2
  <1>7. (\A v \in 1 .. V[pc] : captured[v] = Capture(F, v))'
    BY <1>1, <1>3, <1>6 DEF Capture
  <1>8. Stacked(F, K, R)'
    <2>1. Len(stack') \in Nat
      <3>1. IInv(Texts)'
        <4>1. Fits(op)
          BY <1>1 DEF Fits
        <4> QED BY <4>1, RunKeeps DEF op
      <3> QED BY <3>1 DEF IInv, Shapes
    <2>2. R[pc'] = 0
      BY <1>1, <1>3
    <2> QED BY <2>1, <2>2 DEF Stacked
  <1>9. (pc > 1 /\ d.ops[pc - 1].code = "concatN" => JoinedNext(F, V))'
    <2>1. pc' - 1 = pc
      BY <1>2, <1>3
    <2>2. d.ops[pc' - 1].code # "concatN"
      BY <1>1, <1>2, <2>1
    <2> QED BY <2>2
  <1> QED BY <1>1, <1>3, <1>4, <1>7, <1>8, <1>9 DEF Running

\* One operation: the run goes on, or ends as the template says.
LEMMA ExecuteFollows ==
  ASSUME NEW F, NEW d, NEW K, NEW V, NEW R, IInv(Texts), Programs(F, d, K, V, R), source = d,
         AllChecked(F, d, K, V, R), Running(F, d, K, V, R), Execute
  PROVE  /\ UNCHANGED <<patternVars, comps>>
         /\ \/ stage' = "match" /\ Running(F, d, K, V, R)'
            \/ stage' = "done" /\ outcome' = MatchAndEscape(F, comps)
  <1> DEFINE op == pattern.ops[pc]
  <1>1. /\ stage = "match" /\ pc <= Len(pattern.ops)
        /\ \/ ~Fits(op) /\ Finish(NotMatched)
           \/ Fits(op) /\ IsMalformed(op) /\ Finish(MalformedPath)
           \/ Fits(op) /\ ~IsMalformed(op) /\ Run(op)
    BY ExecuteCases
  <1>2. ExecutesLeaf(F, d, K, V, R, pc) \/ Joins(F, d, K, V, R, pc) \/ Captures(F, d, K, V, R, pc)
    BY <1>1, OperationNow
  <1>3. ~ExecutesLeaf(F, d, K, V, R, pc) => Fits(op) /\ ~IsMalformed(op)
    <2>1. op.code = d.ops[pc].code
      BY <1>1, OperationNow
    <2> HIDE DEF op
    <2>2. ~ExecutesLeaf(F, d, K, V, R, pc) => op.code \in {"concatN", "capture"}
      BY <1>2, <2>1 DEF Joins, Captures
    <2>3. op.code \in {"concatN", "capture"} => Fits(op) /\ Taken(op) = <<>>
      BY DEF Fits, Taken
    <2>4. Taken(op) = <<>> => ~IsMalformed(op)
      <3>1. DOMAIN <<>> = {}
        OBVIOUS
      <3> QED BY <3>1 DEF IsMalformed
    <2> QED BY <2>2, <2>3, <2>4
  <1>4. ASSUME NEW result, Finish(result), ExecutesLeaf(F, d, K, V, R, pc),
               result = IF SegVerdict(F, comps, K[pc] + 1) = "no" THEN NotMatched ELSE MalformedPath,
               SegVerdict(F, comps, K[pc] + 1) # "ok"
        PROVE  stage' = "done" /\ outcome' = MatchAndEscape(F, comps) /\ UNCHANGED <<patternVars, comps>>
    <2>1. K[pc] < Len(F.segs) /\ K[pc] \in Nat
      BY <1>1, <1>4, LeafDecides, OperationNow
    <2>2. \A i \in 1 .. K[pc] : SegVerdict(F, comps, i) = "ok"
      BY DEF Running
    <2>3. Len(F.segs) \in Nat /\ DOMAIN F.segs = 1 .. Len(F.segs)
      BY TailIsCounted
    <2>4. MatchAndEscape(F, comps) = result
      BY <1>4, <2>1, <2>2, <2>3, FirstFailing
    <2> QED BY <1>4, <2>4 DEF Finish
  <1>5. CASE ~Fits(op) /\ Finish(NotMatched)
    <2>1. ExecutesLeaf(F, d, K, V, R, pc)
      BY <1>3, <1>5
    <2>2. SegVerdict(F, comps, K[pc] + 1) = "no"
      BY <1>1, <1>5, <2>1, LeafDecides DEF LeafMeaning
    <2> QED BY <1>4, <1>5, <2>1, <2>2
  <1>6. CASE Fits(op) /\ IsMalformed(op) /\ Finish(MalformedPath)
    <2>1. ExecutesLeaf(F, d, K, V, R, pc)
      BY <1>3, <1>6
    <2>2. SegVerdict(F, comps, K[pc] + 1) = "err"
      BY <1>1, <1>6, <2>1, LeafDecides DEF LeafMeaning
    <2> QED BY <1>4, <1>6, <2>1, <2>2
  <1>7. CASE Fits(op) /\ ~IsMalformed(op) /\ Run(op)
    <2>1. Running(F, d, K, V, R)'
      BY <1>1, <1>2, <1>7, RunLeaf, RunJoin, RunCapture
    <2> QED BY <1>1, <1>7, <2>1 DEF Run
  <1> QED BY <1>1, <1>5, <1>6, <1>7

\* Every variable has what its segments hold, the last of one name wins.
LEMMA BoundIsBindings ==
  ASSUME NEW F, NEW n \in Nat, F.vars \in Seq(FlatVar), Len(F.vars) = n, Len(pattern.vars) = n,
         \A v \in 1 .. n : pattern.vars[v] = F.vars[v].name, DOMAIN pattern.vars = 1 .. n,
         DOMAIN captured = 1 .. n, \A v \in 1 .. n : captured[v] = Capture(F, v)
  PROVE  Bound = Bindings(F, comps)
  <1> DEFINE LastIn(x, i) == /\ pattern.vars[i] = x
                             /\ \A j \in DOMAIN captured : pattern.vars[j] = x => j <= i
             LastOf(x, v) == /\ F.vars[v].name = x
                             /\ \A w \in DOMAIN F.vars : F.vars[w].name = x => w <= v
             a(x) == CHOOSE i \in DOMAIN captured : LastIn(x, i)
             b(x) == CHOOSE v \in DOMAIN F.vars : LastOf(x, v)
  <1>1. DOMAIN F.vars = 1 .. n
    OBVIOUS
  <1>2. ToSet(pattern.vars) = VarNames(F)
    <2>1. ToSet(pattern.vars) = {pattern.vars[i] : i \in 1 .. n}
      BY DEF ToSet
    <2>2. VarNames(F) = {F.vars[v].name : v \in 1 .. n}
      BY <1>1 DEF VarNames
    <2> QED BY <2>1, <2>2
  <1>3. \A x : \A i \in 1 .. n : LastIn(x, i) <=> LastOf(x, i)
    BY <1>1
  <1>4. ASSUME NEW x \in VarNames(F)
        PROVE  captured[a(x)] = Joined(F, comps, F.vars[b(x)].lo, F.vars[b(x)].hi)
    <2> DEFINE S == {i \in 1 .. n : pattern.vars[i] = x}
    <2>1. S \in SUBSET (1 .. n) /\ S # {}
      BY <1>1 DEF VarNames
    <2>2. PICK i \in S : \A j \in S : j <= i
      BY <2>1, FirstAndLast
    <2>3. i \in 1 .. n /\ LastIn(x, i)
      BY <2>2
    <2>4. \A j, k \in 1 .. n : LastIn(x, j) /\ LastIn(x, k) => j = k
      OBVIOUS
    <2>5. a(x) \in 1 .. n /\ LastIn(x, a(x))
      <3> HIDE DEF LastIn
      <3> QED BY <2>3
    <2>6. b(x) \in 1 .. n /\ LastOf(x, b(x))
      <3>1. LastOf(x, i)
        BY <1>3, <2>3
      <3> HIDE DEF LastIn, LastOf
      <3> QED BY <1>1, <2>3, <3>1
    <2> HIDE DEF LastIn, LastOf, a, b
    <2>7. a(x) = b(x)
      BY <1>3, <2>4, <2>5, <2>6
    <2>8. captured[a(x)] = Capture(F, a(x))
      BY <2>5
    <2> QED BY <2>7, <2>8 DEF Capture
  <1>5. Bound = [x \in ToSet(pattern.vars) |-> captured[a(x)]]
    BY Zenon DEF Bound
  <1>6. Bindings(F, comps) = [x \in VarNames(F) |-> Joined(F, comps, F.vars[b(x)].lo, F.vars[b(x)].hi)]
    BY Zenon DEF Bindings
  <1> HIDE DEF a, b
  <1> QED BY <1>2, <1>4, <1>5, <1>6

\* At the end of the program every segment has matched.
LEMMA EndFollows ==
  ASSUME NEW F, NEW d, NEW K, NEW V, NEW R, IInv(Texts), Programs(F, d, K, V, R), source = d,
         AllChecked(F, d, K, V, R), Running(F, d, K, V, R), EndMatch
  PROVE  /\ UNCHANGED <<patternVars, comps>>
         /\ stage' = "done" /\ outcome' = MatchAndEscape(F, comps)
  <1> DEFINE n == Len(comps)
             L == Len(F.segs)
  <1>1. /\ stage = "match" /\ pc > Len(pattern.ops)
        /\ Finish(IF pos < n THEN NotMatched ELSE Accepted(Bound))
    BY DEF EndMatch
  <1>2. /\ TypeIn(Texts) /\ MatchInv /\ Translated(d, V) /\ Named(F, V) /\ checked = Len(d.ops)
    BY DEF IInv, AllChecked, Checked
  <1>3. /\ pc \in 1 .. Len(pattern.ops) + 1 /\ Len(d.ops) \in Nat /\ Len(pattern.ops) = Len(d.ops)
        /\ n \in Nat /\ pos \in 0 .. n /\ pattern.vars \in Seq(Texts)
    BY <1>2 DEF TypeIn, DefinitionIn, PatternIn, Translated
  <1>4. pc = Len(d.ops) + 1
    BY <1>1, <1>3
  <1>5. K[pc] = L /\ V[pc] = Len(F.vars) /\ F.vars \in Seq(FlatVar)
    BY <1>4 DEF Programs
  <1>6. /\ L \in Nat /\ DOMAIN F.segs = 1 .. L /\ \A w \in Wild(F) : w \in 1 .. L
    BY TailIsCounted
  <1>7. {i \in DOMAIN F.segs : SegVerdict(F, comps, i) # "ok"} = {}
    BY <1>5, <1>6 DEF Running
  <1>8. pos < n <=> Wild(F) = {} /\ L < n
    <2>1. pos = IF \E w \in Wild(F) : w <= L THEN n - (L - L) ELSE L
      BY <1>5 DEF Running, Position
    <2>2. n - (L - L) = n
      BY <1>3, <1>6
    <2>3. Wild(F) # {} <=> \E w \in Wild(F) : w <= L
      BY <1>6
    <2> QED BY <1>3, <1>6, <2>1, <2>2, <2>3
  <1>9. Bound = Bindings(F, comps)
    <2>1. DOMAIN captured = 1 .. Len(pattern.vars)
      BY <1>1, <1>2 DEF MatchInv
    <2>2. /\ Len(pattern.vars) = V[pc] /\ \A v \in 1 .. V[pc] : pattern.vars[v] = F.vars[v].name
      BY <1>2, <1>4 DEF Named
    <2>3. \A v \in 1 .. V[pc] : captured[v] = Capture(F, v)
      BY DEF Running
    <2>4. DOMAIN pattern.vars = 1 .. Len(pattern.vars) /\ Len(pattern.vars) \in Nat
      BY <1>3
    <2> DEFINE m == Len(F.vars)
    <2>5. /\ m \in Nat /\ F.vars \in Seq(FlatVar) /\ Len(pattern.vars) = m
          /\ \A v \in 1 .. m : pattern.vars[v] = F.vars[v].name
          /\ DOMAIN pattern.vars = 1 .. m /\ DOMAIN captured = 1 .. m
          /\ \A v \in 1 .. m : captured[v] = Capture(F, v)
      BY <1>5, <2>1, <2>2, <2>3, <2>4
    <2> QED BY <2>5, BoundIsBindings
  <1>10. MatchAndEscape(F, comps) =
           IF Wild(F) = {} /\ L < n THEN NotMatched ELSE Accepted(Bindings(F, comps))
    BY <1>7, Zenon DEF MatchAndEscape
  <1> HIDE DEF n, L
  <1>11. MatchAndEscape(F, comps) = IF pos < n THEN NotMatched ELSE Accepted(Bound)
    BY <1>8, <1>9, <1>10, Zenon
  <1> QED BY <1>1, <1>11 DEF Finish

-----------------------------------------------------------------------------
(* The components of a request's path.                                     *)

LEMMA NonEmptyTyped ==
  ASSUME NEW S, NEW s \in Seq(S)
  PROVE  NonEmpty(s) \in Seq(S)
  <1> DEFINE L == Len(s)
             V == Seq(S)
             Next(j, c) == IF j \notin 1 .. L THEN c ELSE IF s[j] = "" THEN c ELSE Append(c, s[j])
             step == [at \in Nat \X V |-> Next(at[1], at[2])]
             Body(f) == [i \in 0 .. L |-> IF i = 0 THEN <<>>
                                          ELSE IF s[i] = "" THEN f[i - 1] ELSE Append(f[i - 1], s[i])]
             Kept == CHOOSE f : f = Body(f)
  <1>1. L \in Nat /\ <<>> \in V /\ \A j \in 1 .. L : s[j] \in S
    OBVIOUS
  <1>2. NonEmpty(s) = Kept[L]
    BY Zenon DEF NonEmpty
  <1>3. step \in [Nat \X V -> V]
    <2>1. \A j \in Nat, c \in V : Next(j, c) \in V
      BY <1>1, AppendProperties
    <2> HIDE DEF Next, V
    <2> QED BY <2>1
  <1>4. PICK f \in [0 .. L -> V] : Recursion(f, 0, L, <<>>, step)
    <2> HIDE DEF step, L, V
    <2>1. 0 \in Nat
      OBVIOUS
    <2> QED BY <1>1, <1>3, <2>1, RecursionExists
  <1>5. ASSUME NEW i \in 0 .. L
        PROVE  f[i] = IF i = 0 THEN <<>> ELSE IF s[i] = "" THEN f[i - 1] ELSE Append(f[i - 1], s[i])
    <2>1. CASE i = 0
      <3> HIDE DEF step, L, V
      <3> QED BY <1>4, <2>1 DEF Recursion
    <2>2. CASE i # 0
      <3>1. i \in 1 .. L /\ f[i] = step[<<i, f[i - 1]>>] /\ <<i, f[i - 1]>> \in Nat \X V
        <4> HIDE DEF step, L, V
        <4> QED BY <1>1, <1>4, <2>2 DEF Recursion
      <3>2. step[<<i, f[i - 1]>>] = Next(i, f[i - 1])
        <4> HIDE DEF Next, V
        <4> QED BY <3>1
      <3> HIDE DEF step
      <3> QED BY <2>2, <3>1, <3>2, Zenon
    <2> QED BY <2>1, <2>2
  <1>6. f = Body(f)
    <2>1. f = [i \in 0 .. L |-> f[i]]
      BY <1>4
    <2> HIDE DEF L, V
    <2> QED BY <1>5, <2>1, Zenon
  <1>7. Kept = Body(Kept)
    <2> HIDE DEF Body
    <2> QED BY <1>6, Zenon
  <1> HIDE DEF Kept, V
  <1>8. Kept[0] = <<>>
    <2>1. Kept[0] = Body(Kept)[0] /\ 0 \in 0 .. L
      <3> HIDE DEF Body
      <3> QED BY <1>1, <1>7
    <2> QED BY <2>1
  <1>9. ASSUME NEW i \in 0 .. L, i # 0, Kept[i - 1] \in V PROVE Kept[i] \in V
    <2>1. Kept[i] = Body(Kept)[i]
      <3> HIDE DEF Body
      <3> QED BY <1>7
    <2>2. Kept[i] = IF s[i] = "" THEN Kept[i - 1] ELSE Append(Kept[i - 1], s[i])
      BY <1>9, <2>1, Zenon
    <2>3. s[i] \in S
      BY <1>1, <1>9
    <2>4. Append(Kept[i - 1], s[i]) \in V
      BY <1>9, <2>3, AppendProperties DEF V
    <2> QED BY <1>9, <2>2, <2>4, Zenon
  <1>10. \A i \in 0 .. L : Kept[i] \in V
    <2> HIDE DEF L
    <2>1. 0 \in Nat /\ Kept[0] \in V
      BY <1>1, <1>8
    <2> QED BY <1>1, <1>9, <2>1, RecursionTyped
  <1> QED BY <1>1, <1>2, <1>10 DEF V

LEMMA ComponentsTyped ==
  ASSUME NEW path \in Seq(Comp)
  PROVE  PatternComponents(path) \in Seq(Comp)
  <1> DEFINE L == Len(path)
             V == Seq(Comp)
             Next(j, c) == IF j \in 1 .. L THEN c \o Text[path[j]].split ELSE c
             step == [at \in Nat \X V |-> Next(at[1], at[2])]
             Body(f) == [i \in 0 .. L |-> IF i = 0 THEN <<>> ELSE f[i - 1] \o Text[path[i]].split]
             Split == CHOOSE f : f = Body(f)
  <1>1. L \in Nat /\ <<>> \in V /\ \A j \in 1 .. L : Text[path[j]].split \in V
    <2>1. \A j \in 1 .. L : path[j] \in Comp
      OBVIOUS
    <2>2. \A c \in Comp : Text[c].split \in V
      BY PathTemplateAssumption, Zenon DEF TextOK
    <2> QED BY <2>1, <2>2
  <1>2. PatternComponents(path) = IF ~AllCharacters THEN path ELSE NonEmpty(Split[L])
    BY Zenon DEF PatternComponents
  <1>3. step \in [Nat \X V -> V]
    <2>1. \A j \in Nat, c \in V : Next(j, c) \in V
      BY <1>1, ConcatProperties
    <2> HIDE DEF Next, V
    <2> QED BY <2>1
  <1>4. PICK f \in [0 .. L -> V] : Recursion(f, 0, L, <<>>, step)
    <2> HIDE DEF step, L, V
    <2>1. 0 \in Nat
      OBVIOUS
    <2> QED BY <1>1, <1>3, <2>1, RecursionExists
  <1>5. ASSUME NEW i \in 0 .. L
        PROVE  f[i] = IF i = 0 THEN <<>> ELSE f[i - 1] \o Text[path[i]].split
    <2>1. CASE i = 0
      <3> HIDE DEF step, L, V
      <3> QED BY <1>4, <2>1 DEF Recursion
    <2>2. CASE i # 0
      <3>1. i \in 1 .. L /\ f[i] = step[<<i, f[i - 1]>>] /\ <<i, f[i - 1]>> \in Nat \X V
        <4> HIDE DEF step, L, V
        <4> QED BY <1>1, <1>4, <2>2 DEF Recursion
      <3>2. step[<<i, f[i - 1]>>] = Next(i, f[i - 1])
        <4> HIDE DEF Next, V
        <4> QED BY <3>1
      <3> HIDE DEF step
      <3> QED BY <2>2, <3>1, <3>2, Zenon
    <2> QED BY <2>1, <2>2
  <1>6. f = Body(f)
    <2>1. f = [i \in 0 .. L |-> f[i]]
      BY <1>4
    <2> HIDE DEF L, V
    <2> QED BY <1>5, <2>1, Zenon
  <1>7. Split = Body(Split)
    <2> HIDE DEF Body
    <2> QED BY <1>6, Zenon
  <1> HIDE DEF Split, V
  <1>8. Split[0] = <<>>
    <2>1. Split[0] = Body(Split)[0] /\ 0 \in 0 .. L
      <3> HIDE DEF Body
      <3> QED BY <1>1, <1>7
    <2> QED BY <2>1
  <1>9. ASSUME NEW i \in 0 .. L, i # 0, Split[i - 1] \in V PROVE Split[i] \in V
    <2>1. Split[i] = Body(Split)[i]
      <3> HIDE DEF Body
      <3> QED BY <1>7
    <2>2. Split[i] = Split[i - 1] \o Text[path[i]].split
      BY <1>9, <2>1, Zenon
    <2>3. Text[path[i]].split \in V
      BY <1>1, <1>9
    <2> QED BY <1>9, <2>2, <2>3, ConcatProperties DEF V
  <1>10. \A i \in 0 .. L : Split[i] \in V
    <2> HIDE DEF L
    <2>1. 0 \in Nat /\ Split[0] \in V
      BY <1>1, <1>8
    <2> QED BY <1>1, <1>9, <2>1, RecursionTyped
  <1>11. Split[L] \in Seq(Comp)
    BY <1>1, <1>10 DEF V
  <1>12. NonEmpty(Split[L]) \in Seq(Comp)
    BY <1>11, NonEmptyTyped
  <1> HIDE DEF L
  <1> QED BY <1>2, <1>12

LEMMA StartFollows ==
  ASSUME NEW F, NEW d, NEW K, NEW V, NEW R, IInv(Texts), Programs(F, d, K, V, R), source = d,
         NEW cs, NEW verb, \E T : cs \in Seq(T), cs # <<>>, verb \in {NoVerb, source.verb},
         StartMatch(cs, verb)
  PROVE  /\ UNCHANGED patternVars
         /\ \/ stage' = "done" /\ comps' = <<>>
            \/ stage' = "match" /\ Running(F, d, K, V, R)'
  <1>1. stage = "ready" /\ AtRest
    BY DEF StartMatch, IInv, MatchInv
  <1>2. CASE verb # source.verb /\ source.verb # NoVerb
    BY <1>1, <1>2 DEF StartMatch, Finish, AtRest
  <1>3. CASE ~(verb # source.verb /\ source.verb # NoVerb)
    <2>1. verb = source.verb
      BY <1>3
    <2>2. /\ stage' = "match" /\ comps' = cs /\ UNCHANGED <<patternVars, pc, pos, stack>>
      BY <2>1 DEF StartMatch
    <2>3. pc' = 1 /\ pos' = 0 /\ stack' = <<>>
      BY <1>1, <2>2 DEF AtRest
    <2>4. K[1] = 0 /\ V[1] = 0 /\ R[1] = 0 /\ Len(F.segs) \in Nat /\ DOMAIN F.segs = 1 .. Len(F.segs)
      BY DEF Programs
    <2>5. Position(F, Len(cs), 0) = 0
      <3>1. ~(\E w \in Wild(F) : w <= 0)
        BY <2>4 DEF Wild
      <3> QED BY <3>1 DEF Position
    <2>6. Stacked(F, K, R)'
      <3>1. Len(<<>>) = 0
        OBVIOUS
      <3> QED BY <2>3, <2>4, <3>1 DEF Stacked
    <2>7. (pc > 1 /\ d.ops[pc - 1].code = "concatN" => JoinedNext(F, V))'
      BY <2>3
    <2>8. Running(F, d, K, V, R)'
      BY <2>2, <2>3, <2>4, <2>5, <2>6, <2>7 DEF Running
    <2> QED BY <2>2, <2>8
  <1> QED BY <1>2, <1>3

\* A request's path starts a match on at least one component, if on any.
LEMMA MatchPathStarts ==
  ASSUME MatchPath
  PROVE  \/ stage = "ready" /\ Crash
         \/ Finish(NotMatched) /\ stage = "ready"
         \/ \E cs, verb : /\ \E T : cs \in Seq(T)
                          /\ cs # <<>> /\ verb \in {NoVerb, source.verb} /\ StartMatch(cs, verb)
  <1>1. PICK path \in Url :
          LET cs   == PatternComponents(path)
              last == cs[Len(cs)]
          IN  IF cs = <<>> THEN Crash
              ELSE IF VerbCuts(last) = {} THEN StartMatch(cs, NoVerb)
              ELSE LET cut == CHOOSE i \in VerbCuts(last) : TRUE
                   IN  IF cut = 1 THEN Finish(NotMatched)
                       ELSE StartMatch([cs EXCEPT ![Len(cs)] = Str(SubSeq(Chars[last], 1, cut - 1))],
                                       source.verb)
    BY DEF MatchPath
  <1>0. stage = "ready"
    BY DEF MatchPath
  <1> DEFINE cs   == PatternComponents(path)
             last == cs[Len(cs)]
             cut  == CHOOSE i \in VerbCuts(last) : TRUE
             e    == Str(SubSeq(Chars[last], 1, cut - 1))
             shorter == [cs EXCEPT ![Len(cs)] = e]
  <1>2. cs \in Seq(Comp)
    BY HandlePathAssumption, ComponentsTyped
  <1>3. IF cs = <<>> THEN Crash
        ELSE IF VerbCuts(last) = {} THEN StartMatch(cs, NoVerb)
        ELSE IF cut = 1 THEN Finish(NotMatched) ELSE StartMatch(shorter, source.verb)
    BY <1>1, Zenon
  <1> HIDE DEF cs, last, cut, e
  <1>4. ASSUME cs # <<>> PROVE shorter \in Seq(Comp \cup {e}) /\ shorter # <<>>
    <2>1. cs \in Seq(Comp \cup {e}) /\ Len(cs) \in 1 .. Len(cs)
      <3>1. cs \in Seq(Comp \cup {e})
        BY <1>2, SeqMonotonic
      <3> QED BY <1>2, <1>4, <3>1, EmptySeq
    <2>2. shorter \in Seq(Comp \cup {e}) /\ Len(shorter) = Len(cs)
      <3> e \in Comp \cup {e} OBVIOUS
      <3> QED BY <2>1, ExceptSeq
    <2>3. Len(shorter) # 0
      BY <2>1, <2>2
    <2> HIDE DEF shorter
    <2> QED BY <2>2, <2>3, EmptySeq
  <1>5. CASE cs # <<>> /\ StartMatch(cs, NoVerb)
    BY <1>2, <1>5, Zenon
  <1>6. CASE cs # <<>> /\ StartMatch(shorter, source.verb)
    <2> HIDE DEF shorter
    <2> QED BY <1>4, <1>6, Zenon
  <1> HIDE DEF shorter
  <1> QED BY <1>0, <1>3, <1>5, <1>6, Zenon

-----------------------------------------------------------------------------
(* The invariant.                                                          *)

\* While the program of a template is checked and executed.
Follows(F, d, K, V, R) ==
  /\ Programs(F, d, K, V, R) /\ source = d /\ Checked(F, d, K, V, R)
  /\ stage \in {"check", "refused", "ready", "match", "done", "crashed"}
  /\ stage = "refused" => Refused(d)
  /\ stage \in {"ready", "match", "done"} => checked = Len(d.ops)
  /\ stage = "match" => Running(F, d, K, V, R)
  /\ stage = "done" /\ comps # <<>> => outcome = MatchAndEscape(F, comps)

FollowsTemplate(t) == \E K, V, R : Follows(Flat(t), DefinitionOf(t), K, V, R)

PathInv ==
  /\ IInv(Texts)
  /\ stage = "new" => ~deep /\ parsed = Fail
  /\ parsed.ok => FollowsTemplate(parsed)

\* A step of the machine goes on with the template's program.
LEMMA StepFollows ==
  ASSUME NEW F, NEW d, NEW K, NEW V, NEW R, IInv(Texts), Follows(F, d, K, V, R),
         NewPattern \/ CheckOp \/ Accept \/ MatchPath \/ Execute \/ EndMatch \/ UNCHANGED vmVars
  PROVE  Follows(F, d, K, V, R)'
  <1>1. /\ Programs(F, d, K, V, R) /\ source = d /\ Checked(F, d, K, V, R)
        /\ stage \in {"check", "refused", "ready", "match", "done", "crashed"}
        /\ stage \in {"ready", "match", "done"} => checked = Len(d.ops)
        /\ stage = "match" => Running(F, d, K, V, R)
    BY DEF Follows
  <1>2. Programs(F, d, K, V, R)'
    BY <1>1 DEF Programs
  <1>3. UNCHANGED patternVars => Checked(F, d, K, V, R)' /\ source' = d /\ checked' = checked
    BY <1>1 DEF Checked, Translated, Named, DeepOps, Counted, Depth, patternVars
  <1>4. CASE NewPattern
    BY <1>1, <1>4 DEF NewPattern
  <1>5. CASE CheckOp
    <2>1. /\ Checked(F, d, K, V, R)' /\ source' = d
          /\ stage' = "check" \/ (stage' = "refused" /\ Refused(d)')
      BY <1>1, <1>5, CheckOpFollows
    <2> QED BY <1>2, <2>1 DEF Follows
  <1>6. CASE Accept
    <2>1. stage' = "ready" /\ UNCHANGED patternVars /\ checked = Len(d.ops)
      BY <1>1, <1>6 DEF Accept
    <2> QED BY <1>2, <1>3, <2>1 DEF Follows
  <1>7. CASE MatchPath
    <2>1. /\ UNCHANGED patternVars /\ stage = "ready"
          /\ \/ stage' = "crashed"
             \/ stage' = "done" /\ comps' = <<>>
             \/ stage' = "match" /\ Running(F, d, K, V, R)'
      <3>0. CASE stage = "ready" /\ Crash
        BY <3>0 DEF Crash
      <3>1. CASE Finish(NotMatched) /\ stage = "ready"
        BY <3>1 DEF Finish, IInv, MatchInv, AtRest
      <3>2. CASE \E cs, verb : /\ \E T : cs \in Seq(T)
                               /\ cs # <<>> /\ verb \in {NoVerb, source.verb} /\ StartMatch(cs, verb)
        <4>1. PICK cs, verb : /\ \E T : cs \in Seq(T)
                              /\ cs # <<>> /\ verb \in {NoVerb, source.verb} /\ StartMatch(cs, verb)
          BY <3>2
        <4>2. stage = "ready"
          BY <1>7 DEF MatchPath
        <4> QED BY <1>1, <4>1, <4>2, StartFollows
      <3> QED BY <1>7, <3>0, <3>1, <3>2, MatchPathStarts
    <2> QED BY <1>1, <1>2, <1>3, <2>1 DEF Follows
  <1>8. CASE Execute
    <2>1. stage = "match" /\ AllChecked(F, d, K, V, R) /\ Running(F, d, K, V, R)
      BY <1>1, <1>8 DEF Execute, AllChecked
    <2>2. /\ UNCHANGED <<patternVars, comps>>
          /\ \/ stage' = "match" /\ Running(F, d, K, V, R)'
             \/ stage' = "done" /\ outcome' = MatchAndEscape(F, comps)
      BY <1>1, <1>8, <2>1, ExecuteFollows
    <2>3. Checked(F, d, K, V, R)' /\ source' = d /\ checked' = Len(d.ops)
      BY <1>1, <1>3, <2>1, <2>2
    <2>4. stage' = "done" => outcome' = MatchAndEscape(F, comps')
      BY <2>2
    <2> QED BY <1>2, <2>2, <2>3, <2>4 DEF Follows
  <1>9. CASE EndMatch
    <2>1. stage = "match" /\ AllChecked(F, d, K, V, R) /\ Running(F, d, K, V, R)
      BY <1>1, <1>9 DEF EndMatch, AllChecked
    <2>2. /\ UNCHANGED <<patternVars, comps>>
          /\ stage' = "done" /\ outcome' = MatchAndEscape(F, comps)
      BY <1>1, <1>9, <2>1, EndFollows
    <2>3. Checked(F, d, K, V, R)' /\ source' = d /\ checked' = Len(d.ops)
      BY <1>1, <1>3, <2>1, <2>2
    <2>4. outcome' = MatchAndEscape(F, comps')
      BY <2>2
    <2> QED BY <1>2, <2>2, <2>3, <2>4 DEF Follows
  <1>10. CASE UNCHANGED vmVars
    <2>1. UNCHANGED <<stage, patternVars, comps, pc, pos, stack, captured, outcome>>
      BY <1>10 DEF vmVars, matchVars
    <2>2. Checked(F, d, K, V, R)' /\ source' = d /\ checked' = checked /\ deep' = deep
      BY <1>3, <2>1 DEF patternVars
    <2>3. Running(F, d, K, V, R) => Running(F, d, K, V, R)'
      BY <2>1 DEF Running, Stacked, JoinedNext, Capture
    <2>4. Refused(d) => Refused(d)'
      BY <2>2 DEF Refused
    <2> QED BY <1>2, <2>1, <2>2, <2>3, <2>4 DEF Follows
  <1> QED BY <1>4, <1>5, <1>6, <1>7, <1>8, <1>9, <1>10

\* A refusal before anything was checked changes nothing else.
LEMMA RefuseKeeps ==
  ASSUME NEW S, IInv(S), stage = "new", stage' = "refused", UNCHANGED <<patternVars, matchVars>>
  PROVE  IInv(S)'
  <1>1. UNCHANGED <<source, checked, pattern, deep, depth, comps, pc, pos, stack, captured, outcome>>
    BY DEF patternVars, matchVars
  <1>2. TypeIn(S)' /\ CheckInv'
    BY ZenonT(40), <1>1 DEF IInv, TypeIn, DefinitionIn, CheckInv, Sound, InPool
  <1>3. MatchInv' /\ Shapes'
    BY <1>1 DEF IInv, MatchInv, Shapes, AtRest, AcceptedNeverPanics
  <1> QED BY <1>2, <1>3 DEF IInv

\* So does a panic before the match.
LEMMA CrashKeeps ==
  ASSUME NEW S, IInv(S), stage = "ready", Crash
  PROVE  IInv(S)'
  <1>1. /\ stage' = "crashed"
        /\ UNCHANGED <<source, checked, pattern, deep, depth, comps, pc, pos, stack, captured, outcome>>
    BY DEF Crash, patternVars, matchVars
  <1>2. TypeIn(S)' /\ CheckInv'
    BY ZenonT(40), <1>1 DEF IInv, TypeIn, DefinitionIn, CheckInv, Sound, InPool
  <1>3. MatchInv' /\ Shapes'
    BY <1>1 DEF IInv, MatchInv, Shapes, AtRest, AcceptedNeverPanics
  <1> QED BY <1>2, <1>3 DEF IInv

LEMMA MachineKeeps ==
  ASSUME IInv(Texts),
         NewPattern \/ CheckOp \/ Accept \/ MatchPath \/ Match \/ Execute \/ EndMatch \/ UNCHANGED vmVars
  PROVE  IInv(Texts)'
  <1>1. CASE NewPattern
    <2>1. PICK d \in Definition : Begin(d)
      BY <1>1 DEF NewPattern
    <2>2. DefinitionOK(d)
      BY PatternVMAssumption
    <2>3. STRING \subseteq Texts
      BY DEF Texts
    <2>4. [code : STRING, operand : Int] \subseteq Operation(Texts)
      BY <2>3 DEF Operation
    <2>5. d.ops \in Seq(Operation(Texts)) /\ d.pool \in Seq(Texts)
      BY <2>2, <2>3, <2>4, SeqMonotonic DEF DefinitionOK
    <2>6. DefinitionIn(d, Texts)
      BY <2>2, <2>3, <2>5 DEF DefinitionOK, DefinitionIn
    <2> QED BY <2>1, <2>6, BeginKeeps
  <1>2. CASE MatchPath
    <2>0. CASE stage = "ready" /\ Crash
      BY <2>0, CrashKeeps
    <2>1. CASE Finish(NotMatched)
      BY <2>1, FinishKeeps DEF NotMatched
    <2>2. CASE \E cs, verb : /\ \E T : cs \in Seq(T)
                             /\ cs # <<>> /\ verb \in {NoVerb, source.verb} /\ StartMatch(cs, verb)
      BY <2>2, StartMatchKeeps
    <2> QED BY <1>2, <2>0, <2>1, <2>2, MatchPathStarts
  <1>3. CASE Match
    <2>1. PICK k \in Lookup : StartMatch(k.comps, k.verb)
      BY <1>3 DEF Match
    <2>2. k.comps \in Seq(STRING)
      BY PatternVMAssumption
    <2> QED BY <2>1, <2>2, StartMatchKeeps
  <1> QED BY <1>1, <1>2, <1>3, CheckOpKeeps, AcceptKeeps, ExecuteKeeps, EndMatchKeeps, StutterKeeps

LEMMA HandleTemplateKeeps ==
  ASSUME PathInv, HandleTemplate
  PROVE  PathInv'
  <1>1. IInv(Texts) /\ stage = "new" /\ ~deep
    BY DEF PathInv, HandleTemplate
  <1>2. PICK tmpl \in Tmpl :
          LET t == Parse(tmpl)
          IN  /\ written' = tmpl /\ parsed' = t
              /\ IF t.ok THEN Begin(DefinitionOf(t))
                 ELSE stage' = "refused" /\ UNCHANGED <<patternVars, matchVars>>
    BY DEF HandleTemplate
  <1> DEFINE t == Parse(tmpl)
  <1>3. parsed' = t /\ IF t.ok THEN Begin(DefinitionOf(t))
                       ELSE stage' = "refused" /\ UNCHANGED <<patternVars, matchVars>>
    BY <1>2
  <1>4. tmpl \in Word
    BY HandlePathAssumption DEF Word
  <1>5. t.ok => t \in WellParsed
    BY <1>4, ParseIsShaped, Zenon
  <1> HIDE DEF t
  <1>6. CASE t.ok
    <2> DEFINE F == Flat(t)
               d == DefinitionOf(t)
    <2>1. /\ DefinitionIn(d, Texts) /\ d.version = 1 /\ d.whole
          /\ \E K, V, R : Programs(F, d, K, V, R)
      BY <1>5, <1>6, ProgramOfTemplate
    <2>2. PICK K, V, R : Programs(F, d, K, V, R)
      BY <2>1
    <2>3. Begin(d)
      BY <1>3, <1>6, Zenon
    <2> HIDE DEF F, d
    <2>4. IInv(Texts)'
      BY <1>1, <2>1, <2>3, BeginKeeps
    <2>5. stage' = "check" /\ source' = d /\ UNCHANGED <<checked, pattern, deep, depth>>
      BY <2>1, <2>3, Zenon DEF Begin
    <2>6. /\ checked = 0 /\ pattern = EmptyPattern /\ Len(<<>>) = 0 /\ depth \in Seq(Nat)
          /\ Len(depth) = Len(pattern.ops) + 1
      BY <1>1 DEF IInv, MatchInv, TypeIn, CheckInv
    <2>7. /\ pattern.ops = <<>> /\ pattern.vars = <<>> /\ pattern.tailLen = 0 /\ Len(depth) = 1
      BY <2>6 DEF EmptyPattern
    <2>8. K[1] = 0 /\ V[1] = 0 /\ R[1] = 0 /\ checked + 1 = 1
      BY <2>2, <2>6 DEF Programs
    <2>9. 0 <= Depth
      <3>1. depth[1] = 0
        BY <1>1 DEF IInv, CheckInv
      <3>2. Depth = depth[Len(depth)]
        BY DEF Depth, Last
      <3> QED BY <2>7, <3>1, <3>2
    <2>10. Checked(F, d, K, V, R)
      <3>1. \A w \in 1 .. 0 : FALSE
        OBVIOUS
      <3>2. Translated(d, V) /\ Named(F, V)
        BY <2>6, <2>7, <2>8, <3>1 DEF Translated, Named
      <3>3. DeepOps(d) /\ Counted(F, K)
        BY <1>1, <2>6, <2>7, <2>8, <3>1 DEF DeepOps, Counted
      <3> QED BY <2>8, <2>9, <3>2, <3>3 DEF Checked
    <2>11. Checked(F, d, K, V, R)'
      BY <2>5, <2>10 DEF Checked, Translated, Named, DeepOps, Counted, Depth
    <2>12. Programs(F, d, K, V, R)'
      BY <2>2 DEF Programs
    <2>13. Follows(F, d, K, V, R)'
      BY <2>5, <2>11, <2>12 DEF Follows
    <2>14. Follows(Flat(t), DefinitionOf(t), K, V, R)'
      BY <2>13 DEF F, d
    <2>15. FollowsTemplate(t)'
      BY <2>14, Zenon DEF FollowsTemplate
    <2>16. FollowsTemplate(parsed)'
      BY <1>3, <2>15 DEF FollowsTemplate
    <2> QED BY <2>4, <2>5, <2>16, Zenon DEF PathInv
  <1>7. CASE ~t.ok
    <2>1. stage' = "refused" /\ UNCHANGED <<patternVars, matchVars>>
      BY <1>3, <1>7, Zenon
    <2>2. IInv(Texts)'
      BY <1>1, <2>1, RefuseKeeps
    <2>3. ~parsed'.ok
      BY <1>3, <1>7, Zenon
    <2>4. stage' # "new"
      BY <2>1
    <2> QED BY <2>2, <2>3, <2>4, Zenon DEF PathInv
  <1> QED BY <1>6, <1>7, Zenon

LEMMA PathKeeps == PathInv /\ [PathNext]_pathVars => PathInv'
  <1> SUFFICES ASSUME PathInv, [PathNext]_pathVars PROVE PathInv'
    OBVIOUS
  <1> DEFINE Step == NewPattern \/ CheckOp \/ Accept \/ MatchPath \/ Execute \/ EndMatch \/ UNCHANGED vmVars
  <1>1. \/ HandleTemplate
        \/ parsed' = parsed /\ (Step \/ (parsed = Fail /\ Match))
    BY DEF PathNext, pathVars, Keeping
  <1>2. CASE parsed' = parsed /\ (Step \/ (parsed = Fail /\ Match))
    <2>1. IInv(Texts) /\ IInv(Texts)'
      BY <1>2, MachineKeeps DEF PathInv
    <2>2. stage' = "new" => stage = "new" /\ deep' = deep
      BY <1>2 DEF NewPattern, Begin, CheckOp, Accept, MatchPath, Match, StartMatch, Finish, Crash, Execute, Run,
                  EndMatch, vmVars, patternVars, matchVars
    <2>3. parsed.ok => FollowsTemplate(parsed)
      BY Zenon DEF PathInv
    <2>4. ASSUME parsed.ok PROVE FollowsTemplate(parsed)'
      <3>1. ~Fail.ok
        BY DEF Fail
      <3>2. Step
        BY <1>2, <2>4, <3>1, Zenon
      <3>3. PICK F : F = Flat(parsed)
        OBVIOUS
      <3>4. PICK d : d = DefinitionOf(parsed)
        OBVIOUS
      <3>5. PICK K, V, R : Follows(F, d, K, V, R)
        BY <2>3, <2>4, <3>3, <3>4, Zenon DEF FollowsTemplate
      <3>6. Follows(F, d, K, V, R)'
        BY <2>1, <3>2, <3>5, StepFollows
      <3>7. F = Flat(parsed') /\ d = DefinitionOf(parsed')
        BY <1>2, <3>3, <3>4, Zenon
      <3> QED BY <3>6, <3>7, Zenon DEF FollowsTemplate
    <2>5. stage' = "new" => ~deep' /\ parsed' = Fail
      BY <1>2, <2>2, Zenon DEF PathInv
    <2>6. parsed'.ok => FollowsTemplate(parsed)'
      BY <1>2, <2>4, Zenon
    <2> QED BY <2>1, <2>5, <2>6, Zenon DEF PathInv
  <1> QED BY <1>1, <1>2, HandleTemplateKeeps

LEMMA PathInitInv == PathInit => PathInv
  <1> SUFFICES ASSUME PathInit PROVE PathInv
    OBVIOUS
  <1>1. VMInit /\ parsed = Fail /\ ~deep
    BY DEF PathInit, VMInit
  <1>2. IInv(Texts)
    BY <1>1, InitInv
  <1>3. ~Fail.ok
    BY DEF Fail
  <1> QED BY <1>1, <1>2, <1>3, Zenon DEF PathInv

LEMMA PathInvMeansReference == PathInv => MachineIsReference
  <1> SUFFICES ASSUME PathInv, parsed.ok, stage = "done", comps # <<>>
               PROVE  outcome = MatchAndEscape(Flat(parsed), comps)
    BY Zenon DEF MachineIsReference
  <1>1. PICK K, V, R : Follows(Flat(parsed), DefinitionOf(parsed), K, V, R)
    BY Zenon DEF PathInv, FollowsTemplate
  <1> QED BY <1>1 DEF Follows

LEMMA PathInvMeansCompiled == PathInv => TemplatesCompile
  <1> DEFINE Deeps(n) == {i \in 1 .. n : source.ops[i].code = "pushM"}
             Compiles == IF stage = "refused" THEN checked < Len(source.ops) /\ Cardinality(Deeps(checked + 1)) = 2
                                              ELSE Cardinality(Deeps(checked)) < 2
  <1>1. ASSUME PathInv, parsed.ok PROVE Compiles
    <2>1. PICK K, V, R : Follows(Flat(parsed), DefinitionOf(parsed), K, V, R)
      BY <1>1, Zenon DEF PathInv, FollowsTemplate
    <2>2. /\ DeepOps(source) /\ checked \in Nat
          /\ stage = "refused" => Refused(source)
      BY <1>1, <2>1 DEF Follows, Checked, PathInv, IInv, TypeIn
    <2>3. CASE stage = "refused"
      <3>1. checked < Len(source.ops) /\ source.ops[checked + 1].code = "pushM" /\ deep
        BY <2>2, <2>3 DEF Refused
      <3>2. PICK i \in 1 .. checked : source.ops[i].code = "pushM"
        BY <2>2, <3>1 DEF DeepOps
      <3>3. Deeps(checked + 1) = {i} \cup {checked + 1} /\ checked + 1 \notin {i}
        <4>1. \A k \in 1 .. checked + 1 : k = checked + 1 \/ k \in 1 .. checked
          BY <2>2
        <4>2. i \in 1 .. checked + 1 /\ checked + 1 \in 1 .. checked + 1 /\ i # checked + 1
          BY <2>2
        <4> QED BY <2>2, <3>1, <3>2, <4>1, <4>2 DEF DeepOps
      <3>4. Cardinality({i} \cup {checked + 1}) = 2
        <4>1. IsFiniteSet({i}) /\ Cardinality({i}) = 1
          BY FS_Singleton
        <4>2. Cardinality({i} \cup {checked + 1}) = Cardinality({i}) + 1
          BY <3>3, <4>1, FS_AddElement
        <4> QED BY <4>1, <4>2
      <3> HIDE DEF Deeps
      <3> QED BY <2>3, <3>1, <3>3, <3>4
    <2>4. CASE stage # "refused"
      <3>1. \A i, j \in Deeps(checked) : i = j
        BY <2>2 DEF DeepOps
      <3> HIDE DEF Deeps
      <3>2. CASE Deeps(checked) = {}
        <4>1. Cardinality({}) = 0
          BY FS_EmptySet
        <4> QED BY <2>4, <3>2, <4>1
      <3>3. CASE Deeps(checked) # {}
        <4>1. PICK i : Deeps(checked) = {i}
          BY <3>1, <3>3
        <4>2. Cardinality({i}) = 1
          BY FS_Singleton
        <4> QED BY <2>4, <4>1, <4>2
      <3> QED BY <3>2, <3>3
    <2> QED BY <2>3, <2>4
  <1>2. TemplatesCompile <=> (parsed.ok => Compiles)
    BY Zenon DEF TemplatesCompile
  <1> HIDE DEF Compiles
  <1> QED BY <1>1, <1>2, Zenon

-----------------------------------------------------------------------------
\* Whatever template is written and whatever path a request has: if the
\* parser takes the template, the operations that the compiler makes of it
\* compute on the path exactly what the template says, a match or not, a
\* malformed component, or the text of every variable (httprule/parse.go,
\* compile.go and pattern.go:202-282 are three programs; this is that they
\* agree).
THEOREM MachineComputesTemplate == PathSpec => []MachineIsReference
  <1>1. PathInit => PathInv
    BY PathInitInv
  <1>2. PathInv /\ [PathNext]_pathVars => PathInv'
    BY PathKeeps
  <1>3. PathInv => MachineIsReference
    BY PathInvMeansReference
  <1> QED BY <1>1, <1>2, <1>3, PTL DEF PathSpec

\* NewPattern refuses no template that parses but for its second "**".
THEOREM TemplatesAreAccepted == PathSpec => []TemplatesCompile
  <1>1. PathInit => PathInv
    BY PathInitInv
  <1>2. PathInv /\ [PathNext]_pathVars => PathInv'
    BY PathKeeps
  <1>3. PathInv => TemplatesCompile
    BY PathInvMeansCompiled
  <1> QED BY <1>1, <1>2, <1>3, PTL DEF PathSpec

\* From the text of a template to the end of a match, the machine takes
\* nothing from an empty stack.
THEOREM TemplatesNeverPanic == PathSpec => []AcceptedNeverPanics
  <1>1. PathInit => PathInv
    BY PathInitInv
  <1>2. PathInv /\ [PathNext]_pathVars => PathInv'
    BY PathKeeps
  <1>3. PathInv => AcceptedNeverPanics
    BY DEF PathInv, IInv, MatchInv
  <1> QED BY <1>1, <1>2, <1>3, PTL DEF PathSpec
=============================================================================
