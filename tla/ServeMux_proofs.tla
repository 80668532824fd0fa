--------------------------- MODULE ServeMux_proofs ---------------------------
(***************************************************************************)
(* Theorems about ServeMux for any number of requests, routes and objects. *)
(***************************************************************************)
EXTENDS ServeMux, RouteTable_proofs

\* A goroutine's record has all its fields.
Fields == {"pc", "kind", "method", "phase", "left", "cur", "hit", "result", "answer"}
Shaped(c) == c = [f \in Fields |-> c[f]]

CallInv == DOMAIN call = Request /\ \A q \in Request : CallTypeOK(call[q]) /\ Shaped(call[q])

LEMMA MoveCall ==
  ASSUME CallInv, NEW q \in Request, NEW c, Move(q, c), CallTypeOK(c) /\ Shaped(c)
  PROVE  CallInv' /\ call'[q] = c /\ \A p \in Request \ {q} : call'[p] = call[p]
  BY DEF CallInv, Move

LEMMA StepCallInv ==
  ASSUME CallInv, methods \subseteq Method, NEW q \in Request,
         Arrive(q) \/ Lookup(q) \/ Dispatch(q) \/ Handler(q)
  PROVE  CallInv'
  <1> DEFINE c == call[q]
  <1>0. CallTypeOK(c) /\ Shaped(c)
    BY DEF CallInv
  <1> USE DEF CallTypeOK, Shaped, Fields, PC, Inside
  <1>1. CASE RLock(q)
    BY <1>0, <1>1, MoveCall DEF RLock, Conclude, GiveAnswer, Granted
  <1>2. CASE NextMethod(q)
    BY <1>0, <1>2, MoveCall DEF NextMethod, Conclude, GiveAnswer
  <1>3. CASE StaticHit(q)
    BY <1>0, <1>3, MoveCall DEF StaticHit, Conclude, GiveAnswer
  <1>4. CASE NoTrie(q)
    BY <1>0, <1>4, MoveCall DEF NoTrie, Conclude, GiveAnswer
  <1>5. CASE SearchTrie(q)
    BY <1>0, <1>5, MoveCall DEF SearchTrie, Conclude, GiveAnswer
  <1>6. CASE GoToScan(q)
    BY <1>0, <1>6, MoveCall DEF GoToScan, Conclude, GiveAnswer
  <1>7. CASE LeafConfirmed(q)
    BY <1>0, <1>7, MoveCall DEF LeafConfirmed, Conclude, GiveAnswer
  <1>8. CASE LeafFails(q)
    BY <1>0, <1>8, MoveCall DEF LeafFails, Conclude, GiveAnswer
  <1>9. CASE LeafPanics(q)
    BY <1>0, <1>9, MoveCall DEF LeafPanics, Conclude, GiveAnswer
  <1>10. CASE DropTrieParams(q)
    BY <1>0, <1>10, MoveCall DEF DropTrieParams, Conclude, GiveAnswer
  <1>11. CASE ScanList(q)
    BY <1>0, <1>11, MoveCall DEF ScanList, Conclude, GiveAnswer
  <1>12. CASE RUnlock(q)
    BY <1>0, <1>12, MoveCall DEF RUnlock, Conclude, GiveAnswer
  <1>13. CASE DispatchFailure(q)
    BY <1>0, <1>13, MoveCall DEF DispatchFailure, Conclude, GiveAnswer
  <1>14. CASE DispatchOwn(q)
    BY <1>0, <1>14, MoveCall DEF DispatchOwn, Conclude, GiveAnswer, Invoke
  <1>15. CASE LookElsewhere(q)
    BY <1>0, <1>15, MoveCall DEF LookElsewhere, Conclude, GiveAnswer
  <1>16. CASE DispatchOther(q)
    BY <1>0, <1>16, MoveCall DEF DispatchOther, Conclude, GiveAnswer, Invoke, AfterRefusal
  <1>17. CASE DispatchUnknown(q)
    BY <1>0, <1>17, MoveCall DEF DispatchUnknown, Conclude, GiveAnswer
  <1>18. CASE ReleaseMatch(q)
    BY <1>0, <1>18, MoveCall DEF ReleaseMatch, Conclude, GiveAnswer
  <1>19. CASE HandlerReturns(q)
    BY <1>0, <1>19, MoveCall DEF HandlerReturns, Conclude, GiveAnswer
  <1>20. CASE HandlerPanics(q)
    BY <1>0, <1>20, MoveCall DEF HandlerPanics, Conclude, GiveAnswer
  <1>21. CASE Arrive(q)
    <2>1. PICK k \in Kind, rejected \in {BadPath, InvalidForm, Pending} :
            Move(q, [Idle EXCEPT !.kind = k, !.answer = rejected, !.method = EffectiveMethod(k),
                                 !.pc = IF rejected = Pending THEN "lock" ELSE "done"])
      BY <1>21 DEF Arrive
    <2>2. EffectiveMethod(k) \in Method
      BY ServeMuxAssumption DEF EffectiveMethod, Overrides
    <2> QED BY ZenonT(40), <2>1, <2>2, MoveCall DEF Idle
  <1> QED BY <1>1, <1>2, <1>3, <1>4, <1>5, <1>6, <1>7, <1>8, <1>9, <1>10, <1>11, <1>12, <1>13, <1>14, <1>15, <1>16, <1>17, <1>18, <1>19, <1>20, <1>21 DEF Lookup, Dispatch, Handler

-----------------------------------------------------------------------------
(* Who owns a Params object.                                               *)

\* What a goroutine owns, by where it is: s and h are its scratch and held
\* objects.  This is what makes ParamsOwned inductive: a step may take an
\* object only where the goroutine has none yet.
CustodyOf(c, s, h) ==
  /\ c.pc \in {"verify", "drop"} => s # NoObj
  /\ c.pc \in {"idle", "lock", "blocked", "range", "search", "scan", "running", "release", "done"}
       => s = NoObj
  /\ c.pc \in {"unlock", "dispatch"} /\ c.result.tag # "panic" => s = NoObj
  /\ c.pc \in {"drop", "running", "release"} => h # NoObj /\ c.result.tag = "ok"
  /\ c.pc \in {"unlock", "dispatch"} => (h # NoObj <=> c.result.tag = "ok")
  /\ c.pc \in {"idle", "lock", "blocked", "range", "search", "verify", "scan", "done"} => h = NoObj

Custody == \A q \in Request : CustodyOf(call[q], scratch[q], held[q])

ObjTypes ==
  /\ scratch \in [Request -> Obj \cup {NoObj}]
  /\ held \in [Request -> Obj \cup {NoObj}]
  /\ pool \in [Obj -> Nat]

OwnerInv == CallInv /\ ObjTypes /\ Custody /\ ParamsOwned

\* Steps that leave the objects alone.
LEMMA ObjectsStay ==
  ASSUME ObjTypes, ParamsOwned, UNCHANGED <<scratch, held, pool>>
  PROVE  ObjTypes' /\ ParamsOwned'
  BY DEF ObjTypes, ParamsOwned, InUse

\* An object that is in the pool or unused becomes one goroutine's own.
LEMMA ScratchTaken ==
  ASSUME ObjTypes, ParamsOwned, NEW q \in Request, scratch[q] = NoObj,
         NEW o \in Obj, NEW params, Acquire(o, params, InUse), TakeScratch(q, o)
  PROVE  ObjTypes' /\ ParamsOwned' /\ scratch'[q] = o
  <1> USE ServeMuxAssumption DEF ObjTypes, ParamsOwned, InUse, Acquire, TakeScratch
  <1>1. ObjTypes' /\ scratch'[q] = o
    OBVIOUS
  <1>2. \A p \in Request : scratch[p] # o /\ held[p] # o
    OBVIOUS
  <1>3. pool'[o] = 0 /\ \A x \in Obj \ {o} : pool'[x] = pool[x]
    OBVIOUS
  <1> QED BY <1>1, <1>2, <1>3

LEMMA HeldTaken ==
  ASSUME ObjTypes, ParamsOwned, NEW q \in Request, held[q] = NoObj,
         NEW o \in Obj, NEW params, Acquire(o, params, InUse), TakeHeld(q, o)
  PROVE  ObjTypes' /\ ParamsOwned' /\ held'[q] = o
  <1> USE ServeMuxAssumption DEF ObjTypes, ParamsOwned, InUse, Acquire, TakeHeld
  <1>1. ObjTypes' /\ held'[q] = o
    OBVIOUS
  <1>2. \A p \in Request : scratch[p] # o /\ held[p] # o
    OBVIOUS
  <1>3. pool'[o] = 0 /\ \A x \in Obj \ {o} : pool'[x] = pool[x]
    OBVIOUS
  <1> QED BY <1>1, <1>2, <1>3

\* A goroutine's object goes back to the pool, where it was not.
LEMMA ScratchDropped ==
  ASSUME ObjTypes, ParamsOwned, NEW q \in Request, scratch[q] # NoObj,
         DropScratch(q), UNCHANGED held
  PROVE  ObjTypes' /\ ParamsOwned' /\ scratch'[q] = NoObj
  <1> USE ServeMuxAssumption DEF ObjTypes, ParamsOwned, InUse, DropScratch, Release
  <1>1. ObjTypes' /\ scratch'[q] = NoObj
    OBVIOUS
  <1>2. pool[scratch[q]] = 0
    OBVIOUS
  <1>3. pool'[scratch[q]] = 1 /\ \A x \in Obj \ {scratch[q]} : pool'[x] = pool[x]
    BY <1>2
  <1> QED BY <1>1, <1>3

LEMMA HeldReleased ==
  ASSUME ObjTypes, ParamsOwned, NEW q \in Request, held[q] # NoObj,
         Release(held[q]), held' = [held EXCEPT ![q] = NoObj], UNCHANGED scratch
  PROVE  ObjTypes' /\ ParamsOwned' /\ held'[q] = NoObj
  <1> USE ServeMuxAssumption DEF ObjTypes, ParamsOwned, InUse, Release
  <1>1. ObjTypes' /\ held'[q] = NoObj
    OBVIOUS
  <1>2. pool[held[q]] = 0
    OBVIOUS
  <1>3. pool'[held[q]] = 1 /\ \A x \in Obj \ {held[q]} : pool'[x] = pool[x]
    BY <1>2
  <1> QED BY <1>1, <1>3

\* A step of one goroutine changes the custody of no other.
LEMMA CustodyMoves ==
  ASSUME CallInv, Custody, NEW q \in Request, NEW c, Move(q, c),
         CustodyOf(c, scratch'[q], held'[q]),
         \A p \in Request \ {q} : scratch'[p] = scratch[p] /\ held'[p] = held[p]
  PROVE  Custody'
  <1>1. \A p \in Request : call'[p] = IF p = q THEN c ELSE call[p]
    BY DEF CallInv, Move
  <1> QED BY <1>1 DEF Custody

LEMMA StepOwnerInv ==
  ASSUME OwnerInv, methods \subseteq Method, NEW q \in Request,
         Arrive(q) \/ Lookup(q) \/ Dispatch(q) \/ Handler(q)
  PROVE  OwnerInv'
  <1> DEFINE c == call[q]
  <1>0. /\ CallInv /\ ObjTypes /\ Custody /\ ParamsOwned
        /\ CallTypeOK(c) /\ Shaped(c) /\ CustodyOf(c, scratch[q], held[q])
    BY DEF OwnerInv, CallInv, Custody
  <1>a. CallInv'
    BY <1>0, StepCallInv
  <1>b. SUFFICES ObjTypes' /\ Custody' /\ ParamsOwned'
    BY <1>a DEF OwnerInv
  <1> USE DEF CustodyOf, Shaped, Fields, ObjTypes
  <1>1. CASE RLock(q)
    BY <1>0, <1>1, ObjectsStay, CustodyMoves DEF RLock, Granted, poolVars
  <1>2. CASE NextMethod(q)
    BY <1>0, <1>2, ObjectsStay, CustodyMoves DEF NextMethod, Conclude, NotFound, poolVars
  <1>3. CASE StaticHit(q)
    <2>1. PICK o \in Obj : Acquire(o, NoParams, InUse) /\ TakeHeld(q, o)
      BY <1>3 DEF StaticHit
    <2>2. o # NoObj
      BY ServeMuxAssumption
    <2>3. ObjTypes' /\ ParamsOwned' /\ held'[q] = o
      BY <1>0, <1>3, <2>1, HeldTaken DEF StaticHit
    <2> QED BY <1>0, <1>3, <2>1, <2>2, <2>3, CustodyMoves DEF StaticHit, TakeHeld, Conclude, Found
  <1>4. CASE NoTrie(q)
    BY SMTT(40), <1>0, <1>4, ObjectsStay, CustodyMoves DEF NoTrie, poolVars
  <1>5. CASE SearchTrie(q)
    <2> DEFINE hit == TrieLookup(tries[c.cur], TrieParts(PathOf(q)), TrieVerb(PathOf(q)))
    <2>1. PICK o \in Obj : Acquire(o, ParamsOf(hit.buf), InUse) /\ TakeScratch(q, o)
      BY <1>5 DEF SearchTrie
    <2>2. o # NoObj
      BY ServeMuxAssumption
    <2>3. ObjTypes' /\ ParamsOwned' /\ scratch'[q] = o
      BY <1>0, <1>5, <2>1, ScratchTaken DEF SearchTrie
    <2> QED BY <1>0, <1>5, <2>1, <2>2, <2>3, CustodyMoves DEF SearchTrie, TakeScratch
  <1>6. CASE GoToScan(q)
    <2>1. ObjTypes' /\ ParamsOwned' /\ scratch'[q] = NoObj
      BY SMTT(40), <1>0, <1>6, ScratchDropped DEF GoToScan
    <2> QED BY <1>0, <1>6, <2>1, CustodyMoves DEF GoToScan, DropScratch
  <1>7. CASE LeafConfirmed(q)
    <2>1. PICK o \in Obj : Acquire(o, Matcher[c.hit.route][PathOf(q)].params, InUse) /\ TakeHeld(q, o)
      BY SMTT(40), <1>7 DEF LeafConfirmed
    <2>2. o # NoObj
      BY ServeMuxAssumption
    <2>3. ObjTypes' /\ ParamsOwned' /\ held'[q] = o
      BY <1>0, <1>7, <2>1, HeldTaken DEF LeafConfirmed
    <2> QED BY ZenonT(40), <1>0, <1>7, <2>1, <2>2, <2>3, CustodyMoves DEF LeafConfirmed, TakeHeld, Conclude, Found
  <1>8. CASE LeafFails(q)
    <2>1. ObjTypes' /\ ParamsOwned' /\ scratch'[q] = NoObj
      BY <1>0, <1>8, ScratchDropped DEF LeafFails
    <2> QED BY <1>0, <1>8, <2>1, CustodyMoves DEF LeafFails, DropScratch, Conclude, Failed
  <1>9. CASE LeafPanics(q)
    BY <1>0, <1>9, ObjectsStay, CustodyMoves DEF LeafPanics, Conclude, Failed, poolVars
  <1>10. CASE DropTrieParams(q)
    <2>1. ObjTypes' /\ ParamsOwned' /\ scratch'[q] = NoObj
      BY <1>0, <1>10, ScratchDropped DEF DropTrieParams
    <2> QED BY <1>0, <1>10, <2>1, CustodyMoves DEF DropTrieParams, DropScratch
  <1>11. CASE ScanList(q)
    <2> DEFINE found == MatchFallback(fallback[c.cur], PathOf(q))
    <2>1. CASE found.tag = "ok"
      <3>1. PICK o \in Obj : Acquire(o, found.params, InUse) /\ TakeHeld(q, o)
        BY <1>11, <2>1 DEF ScanList
      <3>2. o # NoObj
        BY ServeMuxAssumption
      <3>3. ObjTypes' /\ ParamsOwned' /\ held'[q] = o
        BY <1>0, <1>11, <3>1, HeldTaken DEF ScanList
      <3> QED BY <1>0, <1>11, <2>1, <3>1, <3>2, <3>3, CustodyMoves DEF ScanList, TakeHeld, Conclude
    <2>2. CASE found.tag # "ok"
      BY <1>0, <1>11, <2>2, ObjectsStay, CustodyMoves DEF ScanList, Conclude, poolVars
    <2> QED BY <2>1, <2>2
  <1>12. CASE RUnlock(q)
    BY <1>0, <1>12, ObjectsStay, CustodyMoves DEF RUnlock, poolVars
  <1>13. CASE DispatchFailure(q)
    BY <1>0, <1>13, ObjectsStay, CustodyMoves DEF DispatchFailure, GiveAnswer, poolVars
  <1>14. CASE DispatchOwn(q)
    BY <1>0, <1>14, ObjectsStay, CustodyMoves DEF DispatchOwn, Invoke, GiveAnswer, BuildMap, poolVars
  <1>15. CASE LookElsewhere(q)
    BY <1>0, <1>15, ObjectsStay, CustodyMoves DEF LookElsewhere, poolVars
  <1>16. CASE DispatchOther(q)
    BY <1>0, <1>16, ObjectsStay, CustodyMoves DEF DispatchOther, Invoke, GiveAnswer, BuildMap, AfterRefusal, poolVars
  <1>17. CASE DispatchUnknown(q)
    BY <1>0, <1>17, ObjectsStay, CustodyMoves DEF DispatchUnknown, GiveAnswer, poolVars
  <1>18. CASE ReleaseMatch(q)
    <2>1. ObjTypes' /\ ParamsOwned' /\ held'[q] = NoObj
      BY <1>0, <1>18, HeldReleased DEF ReleaseMatch, ForgetParams
    <2> QED BY <1>0, <1>18, <2>1, CustodyMoves DEF ReleaseMatch, ForgetParams
  <1>19. CASE HandlerReturns(q)
    BY <1>0, <1>19, ObjectsStay, CustodyMoves DEF HandlerReturns, poolVars
  <1>20. CASE HandlerPanics(q)
    BY <1>0, <1>20, ObjectsStay, CustodyMoves DEF HandlerPanics, poolVars
  <1>21. CASE Arrive(q)
    <2>1. PICK k \in Kind, rejected \in {BadPath, InvalidForm, Pending} :
            Move(q, [Idle EXCEPT !.kind = k, !.answer = rejected, !.method = EffectiveMethod(k),
                                 !.pc = IF rejected = Pending THEN "lock" ELSE "done"])
      BY <1>21 DEF Arrive
    <2> QED BY <1>0, <1>21, <2>1, ObjectsStay, CustodyMoves DEF Arrive, Idle, poolVars
  <1> QED BY <1>1, <1>2, <1>3, <1>4, <1>5, <1>6, <1>7, <1>8, <1>9, <1>10, <1>11, <1>12, <1>13, <1>14, <1>15, <1>16, <1>17, <1>18, <1>19, <1>20, <1>21 DEF Lookup, Dispatch, Handler

LEMMA GrantedOK ==
  ASSUME NEW c, CallTypeOK(c), Shaped(c), c.pc = "blocked",
         NEW ms \in SUBSET Method, NEW s, NEW h, CustodyOf(c, s, h)
  PROVE  LET d == Granted(c, ms) IN CallTypeOK(d) /\ Shaped(d) /\ CustodyOf(d, s, h)
  <1> DEFINE d == Granted(c, ms)
  <1>1. /\ d.pc = "range" /\ d.kind = c.kind /\ d.method = c.method /\ d.phase = c.phase
        /\ d.cur = c.cur /\ d.left = IF c.phase = "own" THEN {c.method} ELSE ms \ {c.method}
        /\ Shaped(d)
    BY DEF Granted, Shaped, Fields
  <1>2. CallTypeOK(d)
    BY <1>1 DEF CallTypeOK, PC, Inside
  <1>3. CustodyOf(d, s, h)
    BY <1>1 DEF CustodyOf
  <1> QED BY <1>1, <1>2, <1>3

\* The writer's step changes where the waiting readers are, nothing else.
LEMMA AddLockedOwnerInv ==
  ASSUME OwnerInv, methods \subseteq Method, writer \in Registration, AddLocked
  PROVE  OwnerInv' /\ methods' \subseteq Method
  <1>1. methods' \subseteq Method
    BY ServeMuxAssumption DEF AddLocked, Add
  <1>2. DOMAIN call' = Request /\ \A q \in Request : call'[q] = Woken(call[q], methods')
    BY DEF AddLocked
  <1>3. ASSUME NEW q \in Request
        PROVE  /\ CallTypeOK(call'[q]) /\ Shaped(call'[q])
               /\ CustodyOf(call'[q], scratch[q], held[q])
    <2>1. CallTypeOK(call[q]) /\ Shaped(call[q]) /\ CustodyOf(call[q], scratch[q], held[q])
      BY DEF OwnerInv, CallInv, Custody
    <2>2. CASE call[q].pc = "blocked"
      <3>1. call'[q] = Granted(call[q], methods')
        BY <1>2, <2>2 DEF Woken
      <3> QED BY <1>1, <2>1, <2>2, <3>1, GrantedOK
    <2>3. CASE call[q].pc # "blocked"
      BY <1>2, <2>1, <2>3 DEF Woken
    <2> QED BY <2>2, <2>3
  <1>4. UNCHANGED <<scratch, held, pool>>
    BY DEF AddLocked, poolVars
  <1>5. ObjTypes' /\ ParamsOwned'
    BY <1>4, ObjectsStay DEF OwnerInv
  <1> QED BY <1>1, <1>2, <1>3, <1>4, <1>5 DEF OwnerInv, CallInv, Custody

-----------------------------------------------------------------------------
(* What a goroutine's object and map hold.                                 *)

\* From its match to the end of its handler, a request's object holds the
\* captures of its own match and has no map yet but the request's own; the
\* map, once made, is the request's for good.
DataOf(q) ==
  /\ view[q] \in {NoMap, q}
  /\ view[q] # NoMap => /\ call[q].pc \in {"running", "release", "done", "panicked"}
                        /\ mapval[q] = call[q].result.params
  /\ call[q].pc \in {"drop", "unlock", "dispatch", "running"} /\ held[q] # NoObj =>
       /\ content[held[q]] = call[q].result.params
       /\ view[q] = NoMap => mmap[held[q]] = NoMap

DataInv ==
  /\ DOMAIN content = Obj /\ DOMAIN mmap = Obj /\ DOMAIN mapval = Request /\ view = [p \in Request |-> view[p]]
  /\ \A q \in Request : DataOf(q)

\* The captures of a reset object are those added to it.
LEMMA FreshCaptures ==
  ASSUME NEW o, NEW params
  PROVE  Added(ResetContent(o), params) = params
  BY DEF Added, ResetContent

\* What the actions keep for every goroutine but q.
KeepsOthers(q) ==
  /\ DOMAIN content' = Obj /\ DOMAIN mmap' = Obj /\ DOMAIN mapval' = Request /\ view' = [p \in Request |-> view'[p]]
  /\ \A p \in Request \ {q} :
       /\ call'[p] = call[p] /\ held'[p] = held[p] /\ view'[p] = view[p] /\ mapval'[p] = mapval[p]
       /\ held[p] # NoObj => content'[held[p]] = content[held[p]] /\ mmap'[held[p]] = mmap[held[p]]

LEMMA DataMoves ==
  ASSUME DataInv, NEW q \in Request, KeepsOthers(q), DataOf(q)'
  PROVE  DataInv'
  BY DEF DataInv, DataOf, KeepsOthers

\* An object just acquired was nobody's, so nobody sees it change.
LEMMA AcquireKeepsOthers ==
  ASSUME DataInv, CallInv, ObjTypes, ParamsOwned, NEW q \in Request, NEW c, Move(q, c), NEW o \in Obj, NEW params,
         Acquire(o, params, InUse), view' = view,
         \A p \in Request \ {q} : held'[p] = held[p]
  PROVE  /\ KeepsOthers(q) /\ call'[q] = c /\ mapval'[q] = mapval[q]
         /\ \A p \in Request : held[p] # o
         /\ content'[o] = Added(ResetContent(o), params) /\ mmap'[o] = NoMap
  <1>1. \A p \in Request : held[p] # o /\ scratch[p] # o
    BY DEF ObjTypes, ParamsOwned, InUse, Acquire
  <1> QED BY <1>1, ServeMuxAssumption DEF DataInv, CallInv, Move, KeepsOthers, Acquire, ResetMaps, ObjTypes

\* A match puts its captures in an object of its own.
LEMMA MatchData ==
  ASSUME OwnerInv, DataInv, NEW q \in Request, view[q] = NoMap, view' = view,
         NEW pc, NEW route, NEW params, NEW o \in Obj,
         Conclude(q, pc, Found(route, params)), Acquire(o, params, InUse), TakeHeld(q, o)
  PROVE  DataInv'
  <1> DEFINE d == [call[q] EXCEPT !.pc = pc, !.result = Found(route, params)]
  <1>0. /\ CallInv /\ ObjTypes /\ ParamsOwned /\ DataOf(q) /\ Shaped(call[q])
    BY DEF OwnerInv, CallInv, DataInv
  <1>1. held'[q] = o /\ \A p \in Request \ {q} : held'[p] = held[p]
    BY <1>0 DEF TakeHeld, ObjTypes
  <1>2. Move(q, d)
    BY DEF Conclude
  <1>3. /\ KeepsOthers(q) /\ call'[q] = d
        /\ content'[o] = Added(ResetContent(o), params) /\ mmap'[o] = NoMap
    BY <1>0, <1>1, <1>2, AcquireKeepsOthers
  <1>4. content'[o] = params
    BY <1>3, FreshCaptures
  <1>5. d.result.params = params
    BY <1>0 DEF Shaped, Fields, Found
  <1>6. DataOf(q)'
    BY <1>1, <1>3, <1>4, <1>5 DEF DataOf
  <1> QED BY <1>3, <1>6, DataMoves DEF OwnerInv

\* A handler gets a map of its own request's captures.
LEMMA MapData ==
  ASSUME OwnerInv, DataInv, NEW q \in Request, held[q] # NoObj, held' = held,
         call[q].pc \in {"dispatch", "running"}, view[q] = NoMap,
         call'[q].pc = "running" /\ call'[q].result = call[q].result,
         \A p \in Request \ {q} : call'[p] = call[p],
         BuildMap(held[q], q), view' = [view EXCEPT ![q] = MapOf(held[q], q)]
  PROVE  DataInv'
  <1>0. ObjTypes /\ DataOf(q) /\ ParamsOwned /\ NoObj \notin Obj
    BY ServeMuxAssumption DEF OwnerInv, DataInv
  <1>1. mmap[held[q]] = NoMap /\ content[held[q]] = call[q].result.params
    BY <1>0 DEF DataOf
  <1>2. MapOf(held[q], q) = q
    BY <1>1 DEF MapOf
  <1>3. KeepsOthers(q)
    <2>1. view' = [p \in Request |-> view'[p]] /\ \A p \in Request \ {q} : view'[p] = view[p]
      BY DEF DataInv
    <2>2. /\ DOMAIN content' = Obj /\ DOMAIN mmap' = Obj /\ DOMAIN mapval' = Request
          /\ content' = content /\ \A p \in Request \ {q} : mapval'[p] = mapval[p]
      BY <1>2 DEF BuildMap, DataInv
    <2>3. \A p \in Request \ {q} : held[p] # NoObj => mmap'[held[p]] = mmap[held[p]]
      BY <1>0, <1>2 DEF BuildMap, ParamsOwned, ObjTypes, DataInv
    <2> QED BY <2>1, <2>2, <2>3 DEF KeepsOthers
  <1>4. mapval'[q] = call[q].result.params /\ view'[q] = q /\ content' = content
    BY <1>1, <1>2 DEF BuildMap, DataInv
  <1>5. q # NoMap
    BY PoolAssumption, ServeMuxAssumption
  <1>6. DataOf(q)'
    BY <1>1, <1>4, <1>5 DEF DataOf
  <1> QED BY <1>3, <1>6, DataMoves

LEMMA StepDataInv ==
  ASSUME OwnerInv, DataInv, NEW q \in Request,
         Arrive(q) \/ Lookup(q) \/ Dispatch(q) \/ Handler(q)
  PROVE  DataInv'
  <1> DEFINE c == call[q]
  <1>0. /\ CallInv /\ ObjTypes /\ ParamsOwned /\ DataOf(q)
        /\ Shaped(c) /\ CustodyOf(c, scratch[q], held[q])
    BY DEF OwnerInv, CallInv, Custody, DataInv
  <1>v. c.pc \notin {"running", "release", "done", "panicked"} => view[q] = NoMap
    BY <1>0 DEF DataOf
  <1>q. ASSUME KeepsOthers(q), DataOf(q)' PROVE DataInv'
    BY <1>q, DataMoves
  <1> USE DEF CustodyOf, Shaped, Fields, DataOf, Move, KeepsOthers, CallInv, DataInv, poolVars, ObjTypes
  <1>1. CASE RLock(q)
    BY <1>0, <1>1, <1>q DEF RLock, Granted
  <1>2. CASE NextMethod(q)
    BY ZenonT(40), <1>0, <1>2, <1>q DEF NextMethod, Conclude, NotFound
  <1>3. CASE StaticHit(q)
    BY <1>0, <1>3, <1>v, MatchData DEF StaticHit
  <1>4. CASE NoTrie(q)
    BY <1>0, <1>4, <1>q DEF NoTrie
  <1>5. CASE SearchTrie(q)
    <2> DEFINE hit == TrieLookup(tries[c.cur], TrieParts(PathOf(q)), TrieVerb(PathOf(q)))
               d   == [c EXCEPT !.pc = "verify", !.hit = hit]
    <2>1. PICK o \in Obj : Acquire(o, ParamsOf(hit.buf), InUse)
      BY <1>5 DEF SearchTrie
    <2>2. Move(q, d) /\ held' = held /\ view' = view
      BY <1>5 DEF SearchTrie, TakeScratch
    <2>3. KeepsOthers(q) /\ call'[q] = d /\ mapval'[q] = mapval[q]
      BY <1>0, <2>1, <2>2, AcquireKeepsOthers
    <2> QED BY <1>0, <1>5, <1>q, <2>2, <2>3 DEF SearchTrie
  <1>6. CASE GoToScan(q)
    BY SMTT(40), <1>0, <1>6, <1>q DEF GoToScan, DropScratch, Release
  <1>7. CASE LeafConfirmed(q)
    BY <1>0, <1>7, <1>v, MatchData DEF LeafConfirmed
  <1>8. CASE LeafFails(q)
    BY <1>0, <1>8, <1>q DEF LeafFails, Conclude, Failed, DropScratch, Release
  <1>9. CASE LeafPanics(q)
    BY <1>0, <1>9, <1>q DEF LeafPanics, Conclude, Failed
  <1>10. CASE DropTrieParams(q)
    BY <1>0, <1>10, <1>q DEF DropTrieParams, DropScratch, Release
  <1>11. CASE ScanList(q)
    <2> DEFINE found == MatchFallback(fallback[c.cur], PathOf(q))
    <2>1. CASE found.tag = "ok"
      <3>1. found = Found(found.route, found.params)
        BY ZenonT(40), <2>1 DEF MatchFallback, Decided, Found, NotFound, Failed
      <3> QED BY SMTT(40), <1>0, <1>11, <1>v, <2>1, <3>1, MatchData DEF ScanList
    <2>2. CASE found.tag # "ok"
      BY <1>0, <1>11, <1>q, <2>2 DEF ScanList, Conclude
    <2> QED BY <2>1, <2>2
  <1>12. CASE RUnlock(q)
    BY <1>0, <1>12, <1>q DEF RUnlock
  <1>13. CASE DispatchFailure(q)
    BY SMTT(40), <1>0, <1>13, <1>q DEF DispatchFailure, GiveAnswer
  <1>14. CASE DispatchOwn(q)
    BY ZenonT(40), <1>0, <1>14, <1>q, <1>v, MapData DEF DispatchOwn, Invoke, GiveAnswer
  <1>15. CASE LookElsewhere(q)
    BY <1>0, <1>15, <1>q DEF LookElsewhere
  <1>16. CASE DispatchOther(q)
    <2>1. CASE Invoke(q)
      <3>1. UNCHANGED <<scratch, held>> /\ c.pc = "dispatch" /\ c.result.tag = "ok"
        BY <1>16 DEF DispatchOther
      <3> QED BY <1>0, <1>q, <1>v, <2>1, <3>1, MapData DEF Invoke, GiveAnswer
    <2>2. ASSUME NEW a, GiveAnswer(q, AfterRefusal, a), UNCHANGED <<poolVars, view>> PROVE DataInv'
      BY <1>0, <1>16, <1>q, <2>2 DEF DispatchOther, GiveAnswer, AfterRefusal
    <2> QED BY <1>16, <2>1, <2>2 DEF DispatchOther
  <1>17. CASE DispatchUnknown(q)
    BY <1>0, <1>17, <1>q DEF DispatchUnknown, GiveAnswer
  <1>18. CASE ReleaseMatch(q)
    BY <1>0, <1>18, <1>q DEF ReleaseMatch, ForgetParams, Release
  <1>19. CASE HandlerReturns(q)
    BY <1>0, <1>19, <1>q DEF HandlerReturns
  <1>20. CASE HandlerPanics(q)
    BY <1>0, <1>20, <1>q DEF HandlerPanics
  <1>21. CASE Arrive(q)
    BY <1>0, <1>21, <1>q DEF Arrive, Idle
  <1> QED BY <1>1, <1>2, <1>3, <1>4, <1>5, <1>6, <1>7, <1>8, <1>9, <1>10, <1>11, <1>12, <1>13, <1>14, <1>15, <1>16, <1>17, <1>18, <1>19, <1>20, <1>21 DEF Lookup, Dispatch, Handler

-----------------------------------------------------------------------------
(* The inductive invariant and what follows from it.                       *)

MuxInv == MuxTypeOK /\ OwnerInv /\ DataInv

LEMMA InitMuxInv == Init => MuxInv
  <1> SUFFICES ASSUME Init PROVE MuxInv
    OBVIOUS
  <1> USE ServeMuxAssumption, PoolAssumption DEF Init
  <1>1. /\ CallTypeOK(Idle) /\ Shaped(Idle) /\ CustodyOf(Idle, NoObj, NoObj)
    BY DEF CallTypeOK, Shaped, Fields, CustodyOf, Idle, PC, Inside
  <1>2. CallInv /\ Custody
    BY <1>1 DEF CallInv, Custody
  <1>3. ObjTypes /\ ParamsOwned
    BY DEF ObjTypes, ParamsOwned, InUse, PoolInit
  <1>4. MuxTypeOK
    BY <1>2, <1>3 DEF MuxTypeOK, CallInv, ObjTypes, TableInit
  <1>5. DataInv
    BY DEF DataInv, DataOf, PoolInit, Idle
  <1> QED BY <1>2, <1>3, <1>4, <1>5 DEF MuxInv, OwnerInv

LEMMA NextMuxInv == MuxInv /\ [Next]_vars => MuxInv'
  <1> SUFFICES ASSUME MuxInv, [Next]_vars PROVE MuxInv'
    OBVIOUS
  <1>0. /\ OwnerInv /\ DataInv /\ MuxTypeOK /\ methods \subseteq Method
        /\ view \in [Request -> MapId \cup {NoMap}]
    BY DEF MuxInv, MuxTypeOK
  <1>v. ASSUME DataInv' PROVE view' \in [Request -> MapId \cup {NoMap}]
    BY <1>v, ServeMuxAssumption DEF DataInv, DataOf
  <1>1. CASE Register
    <2>1. UNCHANGED <<callVars, poolVars, methods>> /\ writer' \in Registration
      BY <1>1 DEF Register, Announce, tableVars
    <2> QED BY <1>0, <2>1 DEF MuxInv, OwnerInv, MuxTypeOK, CallInv, Custody, ObjTypes, ParamsOwned,
              InUse, DataInv, DataOf, callVars, poolVars
  <1>2. CASE AddLocked
    <2>1. writer \in Registration
      BY <1>0, <1>2 DEF MuxTypeOK, AddLocked
    <2>2. OwnerInv' /\ methods' \subseteq Method
      BY <1>0, <1>2, <2>1, AddLockedOwnerInv
    <2>3. writer' = NoWriter /\ UNCHANGED <<held, view, poolVars>>
      BY <1>2 DEF AddLocked
    <2>4. ASSUME NEW q \in Request PROVE DataOf(q)'
      <3>1. DataOf(q) /\ Shaped(call[q])
        BY <1>0 DEF DataInv, OwnerInv, CallInv
      <3>2. call'[q] = call[q] \/ (call[q].pc = "blocked" /\ call'[q].pc = "range")
        BY <1>2, <3>1 DEF AddLocked, Woken, Granted, Shaped, Fields
      <3> QED BY <2>3, <3>1, <3>2 DEF DataOf, poolVars
    <2>5. DataInv'
      BY <1>0, <2>3, <2>4 DEF DataInv, poolVars
    <2> QED BY <1>0, <2>2, <2>3, <2>5 DEF MuxInv, MuxTypeOK, OwnerInv, CallInv, ObjTypes
  <1>3. ASSUME NEW q \in Request, Arrive(q) \/ Lookup(q) \/ Dispatch(q) \/ Handler(q)
        PROVE  MuxInv'
    <2>1. OwnerInv' /\ DataInv'
      BY SMTT(40), <1>0, <1>3, StepOwnerInv, StepDataInv
    <2>2. writer' = writer /\ methods' = methods
      BY <1>3 DEF Arrive, Lookup, Dispatch, Handler, tableVars, RLock, NextMethod, StaticHit, NoTrie,
           SearchTrie, GoToScan, LeafConfirmed, LeafFails, LeafPanics, DropTrieParams, ScanList,
           RUnlock, DispatchFailure, DispatchOwn, LookElsewhere, DispatchOther, DispatchUnknown,
           ReleaseMatch, ForgetParams, HandlerReturns, HandlerPanics
    <2> QED BY <1>0, <1>v, <2>1, <2>2 DEF MuxInv, MuxTypeOK, OwnerInv, CallInv, ObjTypes
  <1>4. ASSUME NEW q \in Request, AskForMap(q) PROVE MuxInv'
    <2>1. /\ UNCHANGED <<call, scratch, held, pool, writer, methods>>
          /\ call[q].pc = "running" /\ view[q] = NoMap
          /\ BuildMap(held[q], q) /\ view' = [view EXCEPT ![q] = MapOf(held[q], q)]
      BY <1>4 DEF AskForMap, tableVars, BuildMap
    <2>2. OwnerInv'
      BY <1>0, <2>1, ObjectsStay DEF OwnerInv, CallInv, Custody
    <2>3. held[q] # NoObj
      BY <1>0, <2>1 DEF OwnerInv, Custody, CustodyOf
    <2>4. DataInv'
      BY <1>0, <2>1, <2>3, MapData
    <2> QED BY <1>0, <1>v, <2>1, <2>2, <2>4 DEF MuxInv, MuxTypeOK, OwnerInv, CallInv, ObjTypes
  <1>5. CASE UNCHANGED vars
    BY <1>0, <1>5 DEF vars, tableVars, poolVars, callVars, MuxInv, OwnerInv, MuxTypeOK, CallInv, Custody,
           ObjTypes, ParamsOwned, InUse, DataInv, DataOf
  <1> QED BY <1>1, <1>2, <1>3, <1>4, <1>5 DEF Next

LEMMA AlwaysMuxInv == Spec => []MuxInv
  BY InitMuxInv, NextMuxInv, PTL DEF Spec

\* Goroutines, objects and maps keep their types, for any number of each.
THEOREM MuxTypeCorrect == Spec => []MuxTypeOK
  BY AlwaysMuxInv, PTL DEF MuxInv

\* No Params object has two owners, or is in the pool while it has one, or is
\* there twice: ServeHTTP and Table release what they took once.
THEOREM ParamsAlwaysOwned == Spec => []ParamsOwned
  BY AlwaysMuxInv, PTL DEF MuxInv, OwnerInv

\* No path through a lookup, a refusal or an error keeps an object.
THEOREM NothingEverKept == Spec => []NothingKept
  <1>1. MuxInv => NothingKept
    BY DEF MuxInv, OwnerInv, Custody, CustodyOf, NothingKept
  <1> QED BY <1>1, AlwaysMuxInv, PTL

\* A running handler sees its own request's captures, however many requests
\* share the pool.
THEOREM HandlersSeeOwnParams == Spec => []HandlerSeesOwnParams
  <1>1. MuxInv => HandlerSeesOwnParams
    BY DEF MuxInv, OwnerInv, Custody, CustodyOf, DataInv, DataOf, HandlerSeesOwnParams
  <1> QED BY <1>1, AlwaysMuxInv, PTL

\* A map once handed out is never touched again.
THEOREM KeptMapsStable == Spec => []KeptMapStable
  <1>1. MuxInv => KeptMapStable
    BY DEF MuxInv, DataInv, DataOf, KeptMapStable
  <1> QED BY <1>1, AlwaysMuxInv, PTL
-----------------------------------------------------------------------------
(* The table inside the mux.                                               *)

LEMMA NextKeepsTable ==
  ASSUME MuxTypeOK, [Next]_vars
  PROVE  [TableNext]_tableVars
  <1>1. CASE Register
    BY <1>1 DEF Register, Announce
  <1>2. CASE AddLocked
    <2>1. writer \in Method \X Route
      BY <1>2, ServeMuxAssumption DEF AddLocked, MuxTypeOK
    <2>2. Add(writer[1], writer[2]) /\ writer[1] \in Method /\ writer[2] \in Route
      BY <1>2, <2>1 DEF AddLocked
    <2> QED BY <2>2, Zenon DEF TableNext
  <1>3. ASSUME NEW q \in Request, Arrive(q) \/ Lookup(q) \/ Dispatch(q) \/ Handler(q) \/ AskForMap(q)
        PROVE  UNCHANGED tableVars
    BY <1>3 DEF Arrive, Lookup, Dispatch, Handler, AskForMap, RLock, NextMethod, StaticHit, NoTrie,
         SearchTrie, GoToScan, LeafConfirmed, LeafFails, LeafPanics, DropTrieParams, ScanList,
         RUnlock, DispatchFailure, DispatchOwn, LookElsewhere, DispatchOther, DispatchUnknown,
         ReleaseMatch, HandlerReturns, HandlerPanics
  <1>4. CASE UNCHANGED vars
    BY <1>4 DEF vars
  <1> QED BY <1>1, <1>2, <1>3, <1>4 DEF Next

\* Whatever the mux does, its table behaves as RouteTable says: what is proved
\* of every table holds of the table behind the lock.
THEOREM TableInsideMux == Spec => TableSpec
  <1>1. Init => TableInit
    BY DEF Init
  <1>2. MuxInv /\ [Next]_vars => [TableNext]_tableVars
    BY NextKeepsTable DEF MuxInv
  <1> QED BY <1>1, <1>2, AlwaysMuxInv, PTL DEF Spec, TableSpec

-----------------------------------------------------------------------------
(* A lookup sees the table of one instant.                                 *)

Targets(c) == IF c.phase = "own" THEN {c.method} ELSE methods \ {c.method}

Missing(c, ms) == \A m \in ms : MatchInternal(m, c.kind.path) = NotFound

\* How far a lookup has come in the table it reads: the methods it has left
\* behind have nothing for the path, and what it has concluded or still has
\* to look at is what the table gives.
SearchOK(c) ==
  /\ c.pc \in {"lock", "blocked", "dispatch"} \cup Inside => c.kind.path \in Path
  /\ c.pc \in {"range", "search", "verify", "scan"} => c.left \subseteq Targets(c)
  /\ c.pc = "range" => Missing(c, Targets(c) \ c.left)
  /\ c.pc \in {"search", "verify", "scan"} =>
       c.cur \in Targets(c) /\ Missing(c, Targets(c) \ (c.left \cup {c.cur}))
  /\ c.pc = "verify" =>
       /\ c.kind.path \notin DOMAIN static[c.cur]
       /\ c.hit = TrieLookup(tries[c.cur], TrieParts(c.kind.path), TrieVerb(c.kind.path))
  /\ c.pc = "scan" =>
       MatchInternal(c.cur, c.kind.path) = MatchFallback(fallback[c.cur], c.kind.path)
  /\ c.pc \in {"drop", "unlock"} =>
       IF c.result.tag = "no" THEN c.result = NotFound /\ Missing(c, Targets(c))
       ELSE c.cur \in Targets(c) /\ c.result = MatchInternal(c.cur, c.kind.path)

SearchInv == \A q \in Request : SearchOK(call[q])

\* The trie gives the route of a leaf, and in a trie without leaves nothing.
LEMMA TrieGivesRoute ==
  ASSUME TriesShaped, NEW m \in Method, NEW p \in Path
  PROVE  LET hit == TrieLookup(tries[m], TrieParts(p), TrieVerb(p))
         IN  /\ hit.route = NoRoute \/ hit.route \in Route
             /\ tries[m] = EmptyTrie => hit.route = NoRoute
  <1> DEFINE trie    == tries[m]
             hit     == TrieLookup(trie, TrieParts(p), TrieVerb(p))
             matches == {n \in DOMAIN trie.leaf : NodeMatches(trie, n, TrieParts(p), TrieVerb(p))}
  <1>1. TrieShaped(trie) /\ TrieParts(p) \in Seq(Comp)
    BY TrieInputs DEF TriesShaped
  <1>2. IF matches = {} THEN hit = Miss(<<>>)
        ELSE \E best \in matches : hit = Hit(trie.leaf[best], NodeCaptures(trie, best, TrieParts(p)))
    <2> HIDE DEF trie
    <2> QED BY <1>1, SearchIsReference, Zenon
  <1>3. hit.route = NoRoute \/ \E n \in DOMAIN trie.leaf : hit.route = trie.leaf[n]
    <2> HIDE DEF hit, trie
    <2> QED BY <1>2 DEF Miss, Hit
  <1>4. trie = EmptyTrie => DOMAIN trie.leaf = {}
    BY DEF EmptyTrie
  <1> QED BY <1>1, <1>3, <1>4 DEF TrieShaped

\* What the table gives for a method is what the trie's route decides.
LEMMA TableGives ==
  ASSUME TriesShaped, NEW m \in Method, NEW p \in Path, p \notin DOMAIN static[m]
  PROVE  LET hit == TrieLookup(tries[m], TrieParts(p), TrieVerb(p))
         IN  MatchInternal(m, p) = IF hit.route = NoRoute THEN MatchFallback(fallback[m], p)
                                   ELSE Decided(hit.route, Matcher[hit.route][p],
                                                MatchFallback(fallback[m], p))
  <1> DEFINE hit == TrieLookup(tries[m], TrieParts(p), TrieVerb(p))
  <1>1. MatchInternal(m, p) = FromTrie(hit, fallback[m], p)
    BY Zenon DEF MatchInternal
  <1>2. hit.route # NoRoute => HasMatch(hit.route)
    BY TrieGivesRoute, ServeMuxAssumption
  <1> HIDE DEF hit
  <1>3. hit.route # NoRoute => LeafVerdict(hit.route, p, hit.buf) = Matcher[hit.route][p]
    BY <1>2 DEF LeafVerdict
  <1>4. CASE hit.route = NoRoute
    BY <1>1, <1>4 DEF FromTrie, hit
  <1>5. CASE hit.route # NoRoute
    BY <1>1, <1>3, <1>5 DEF FromTrie, hit
  <1> QED BY <1>4, <1>5

\* The list has nothing, or an answer that is not a miss.
LEMMA ListGives ==
  ASSUME TableTypeOK, NEW m \in Method, NEW p, MatchFallback(fallback[m], p).tag = "no"
  PROVE  MatchFallback(fallback[m], p) = NotFound
  <1>1. fallback[m] \in Seq(Registered(m))
    BY DEF TableTypeOK
  <1> DEFINE list == fallback[m]
             res  == MatchFallback(list, p)
  <1>2. \/ res = NotFound
        \/ \E i \in DOMAIN list :
             LET verdict == Matcher[list[i]][p]
             IN  /\ HasMatch(list[i]) /\ verdict.tag # "no"
                 /\ res = IF verdict.tag = "ok" THEN Found(list[i], verdict.params)
                          ELSE Failed(verdict.tag)
    BY <1>1, FallbackAnswers
  <1> HIDE DEF list, res
  <1>3. res.tag = "no"
    BY DEF list, res
  <1>4. res = NotFound
    BY <1>2, <1>3 DEF Found, Failed
  <1> QED BY <1>4 DEF res, list
\* A step of one goroutine leaves the others' progress alone, as the table is
\* the same.
LEMMA SearchMoves ==
  ASSUME CallInv, SearchInv, UNCHANGED tableVars, NEW q \in Request, NEW c, Move(q, c), SearchOK(c)
  PROVE  SearchInv'
  <1>1. \A p \in Request : SearchOK(call'[p])
    BY DEF CallInv, Move, SearchInv
  <1>2. static' = static /\ tries' = tries /\ fallback' = fallback /\ methods' = methods
    BY DEF tableVars
  <1>3. \A m, p : MatchInternal(m, p)' = MatchInternal(m, p)
    BY <1>2, Zenon DEF MatchInternal
  <1>4. ASSUME NEW p \in Request PROVE SearchOK(call[p])'
    <2>1. SearchOK(call'[p])
      BY <1>1
    <2>2. /\ Targets(call[p])' = Targets(call'[p])
          /\ \A ms : Missing(call[p], ms)' <=> Missing(call'[p], ms)
      BY <1>2, <1>3 DEF Targets, Missing
    <2> QED BY <1>2, <1>3, <2>1, <2>2 DEF SearchOK
  <1> QED BY <1>4 DEF SearchInv

\* The writer finds no reader inside; those it lets in have all to search.
LEMMA AddLockedSearch ==
  ASSUME OwnerInv, SearchInv, AddLocked
  PROVE  SearchInv'
  <1> SUFFICES ASSUME NEW q \in Request PROVE SearchOK(call[q])'
    BY DEF SearchInv
  <1>1. /\ SearchOK(call[q]) /\ Shaped(call[q]) /\ CallTypeOK(call[q])
        /\ call'[q] = Woken(call[q], methods') /\ call[q].pc \notin Inside
    BY DEF SearchInv, OwnerInv, CallInv, AddLocked, NoReaders, Readers
  <1>2. CASE call[q].pc = "blocked"
    <2>1. call'[q] = Granted(call[q], methods')
      BY <1>1, <1>2 DEF Woken
    <2>2. /\ call'[q].pc = "range" /\ call'[q].kind = call[q].kind
          /\ call'[q].left = Targets(call[q])'
      <3>1. call'[q].phase = call[q].phase /\ call'[q].method = call[q].method
        BY <1>1, <2>1 DEF Granted, Shaped, Fields
      <3> QED BY <1>1, <2>1, <3>1 DEF Granted, Shaped, Fields, Targets
    <2>3. call[q].kind.path \in Path
      BY <1>1, <1>2 DEF SearchOK
    <2> QED BY <2>2, <2>3 DEF SearchOK, Missing
  <1>3. CASE call[q].pc # "blocked"
    <2>1. call'[q] = call[q]
      BY <1>1, <1>3 DEF Woken
    <2> QED BY <1>1, <2>1 DEF SearchOK, Inside
  <1> QED BY <1>2, <1>3

LEMMA StepSearch ==
  ASSUME OwnerInv, SearchInv, TableTypeOK, TriesShaped, NEW q \in Request,
         Arrive(q) \/ Lookup(q) \/ Dispatch(q) \/ Handler(q)
  PROVE  SearchInv'
  <1> DEFINE c == call[q]
             p == c.kind.path
             hit == TrieLookup(tries[c.cur], TrieParts(p), TrieVerb(p))
             list == MatchFallback(fallback[c.cur], p)
  <1>0. /\ CallInv /\ CallTypeOK(c) /\ Shaped(c) /\ SearchOK(c) /\ PathOf(q) = p
    BY DEF OwnerInv, CallInv, SearchInv, PathOf
  <1>t. ASSUME c.pc \in {"search", "verify", "drop", "scan"} PROVE c.cur \in Method /\ p \in Path
    BY <1>0, <1>t DEF CallTypeOK, SearchOK, Inside
  <1>g. ASSUME c.pc \in {"search", "verify"}, p \notin DOMAIN static[c.cur]
        PROVE  /\ MatchInternal(c.cur, p) = IF hit.route = NoRoute THEN list
                                            ELSE Decided(hit.route, Matcher[hit.route][p], list)
               /\ tries[c.cur] = EmptyTrie => hit.route = NoRoute
    BY <1>g, <1>t, TableGives, TrieGivesRoute
  <1> HIDE DEF hit, list
  <1> USE DEF Shaped, Fields
  <1>1. CASE RLock(q)
    <2>1. /\ UNCHANGED tableVars /\ c.pc = "lock"
          /\ Move(q, IF writer = NoWriter THEN Granted(c, methods) ELSE [c EXCEPT !.pc = "blocked"])
      BY <1>1 DEF RLock
    <2>2. SearchOK(Granted(c, methods))
      <3> DEFINE d == Granted(c, methods)
      <3>1. /\ d.pc = "range" /\ d.kind = c.kind /\ d.phase = c.phase /\ d.method = c.method
            /\ d.left = Targets(c)
        BY <1>0 DEF Granted, Targets
      <3>2. Targets(d) = Targets(c)
        BY <3>1 DEF Targets
      <3> HIDE DEF d
      <3> QED BY <1>0, <2>1, <3>1, <3>2 DEF SearchOK, Missing, d
    <2>3. SearchOK([c EXCEPT !.pc = "blocked"])
      BY <1>0, <2>1 DEF SearchOK, Inside
    <2> QED BY <1>0, <2>1, <2>2, <2>3, SearchMoves
  <1>2. CASE NextMethod(q)
    <2>1. UNCHANGED tableVars /\ c.pc = "range"
      BY <1>2 DEF NextMethod
    <2>2. CASE c.left = {}
      <3> DEFINE d == [c EXCEPT !.pc = "unlock", !.result = NotFound]
      <3>1. Move(q, d)
        BY <1>2, <2>2 DEF NextMethod, Conclude
      <3>2. /\ d.pc = "unlock" /\ d.result = NotFound /\ d.kind = c.kind /\ d.phase = c.phase
            /\ d.method = c.method
        BY <1>0
      <3>3. SearchOK(d)
        <4>1. NotFound.tag = "no"
          BY DEF NotFound
        <4> HIDE DEF d
        <4> QED BY <1>0, <2>1, <2>2, <3>2, <4>1 DEF SearchOK, Missing, Targets, Inside
      <3> QED BY <1>0, <2>1, <3>1, <3>3, SearchMoves
    <2>3. CASE c.left # {}
      <3>1. PICK m \in c.left : Move(q, [c EXCEPT !.pc = "search", !.cur = m, !.left = @ \ {m}])
        BY <1>2, <2>3 DEF NextMethod
      <3> DEFINE d == [c EXCEPT !.pc = "search", !.cur = m, !.left = @ \ {m}]
      <3>2. /\ d.pc = "search" /\ d.cur = m /\ d.left = c.left \ {m} /\ d.kind = c.kind
            /\ d.phase = c.phase /\ d.method = c.method
        BY <1>0
      <3>3. SearchOK(d)
        <4> HIDE DEF d
        <4> QED BY <1>0, <2>1, <3>2 DEF SearchOK, Missing, Targets, Inside
      <3> QED BY <1>0, <2>1, <3>1, <3>3, SearchMoves
    <2> QED BY <2>2, <2>3
  <1>3. CASE StaticHit(q)
    <2> DEFINE d == [c EXCEPT !.pc = "unlock", !.result = Found(static[c.cur][p], NoParams)]
    <2>1. /\ UNCHANGED tableVars /\ c.pc = "search" /\ p \in DOMAIN static[c.cur]
          /\ Move(q, d)
      BY <1>0, <1>3 DEF StaticHit, Conclude
    <2>2. /\ d.pc = "unlock" /\ d.result = Found(static[c.cur][p], NoParams) /\ d.kind = c.kind
          /\ d.phase = c.phase /\ d.method = c.method /\ d.cur = c.cur
      BY <1>0
    <2>3. MatchInternal(c.cur, p) = Found(static[c.cur][p], NoParams)
      BY <2>1, Zenon DEF MatchInternal
    <2>4. SearchOK(d)
      <3>1. d.result.tag = "ok"
        BY <2>2 DEF Found
      <3> HIDE DEF d
      <3> QED BY <1>0, <2>1, <2>2, <2>3, <3>1 DEF SearchOK, Targets, Inside
    <2> QED BY <1>0, <2>1, <2>4, SearchMoves
  <1>4. CASE NoTrie(q)
    <2> DEFINE d == [c EXCEPT !.pc = "scan"]
    <2>1. /\ UNCHANGED tableVars /\ c.pc = "search" /\ p \notin DOMAIN static[c.cur]
          /\ tries[c.cur] = EmptyTrie /\ Move(q, d)
      BY <1>0, <1>4 DEF NoTrie
    <2>2. /\ d.pc = "scan" /\ d.kind = c.kind /\ d.left = c.left
          /\ d.phase = c.phase /\ d.method = c.method /\ d.cur = c.cur
      BY <1>0
    <2>3. MatchInternal(c.cur, p) = MatchFallback(fallback[c.cur], p)
      BY <1>g, <2>1 DEF list
    <2>4. SearchOK(d)
      <3> HIDE DEF d
      <3> QED BY <1>0, <2>1, <2>2, <2>3 DEF SearchOK, Targets, Missing, Inside
    <2> QED BY <1>0, <2>1, <2>4, SearchMoves
  <1>5. CASE SearchTrie(q)
    <2> DEFINE d == [c EXCEPT !.pc = "verify", !.hit = hit]
    <2>1. /\ UNCHANGED tableVars /\ c.pc = "search" /\ p \notin DOMAIN static[c.cur]
          /\ Move(q, d)
      BY <1>0, <1>5 DEF SearchTrie, hit
    <2>2. /\ d.pc = "verify" /\ d.kind = c.kind /\ d.left = c.left /\ d.hit = hit
          /\ d.phase = c.phase /\ d.method = c.method /\ d.cur = c.cur
      BY <1>0
    <2>3. SearchOK(d)
      <3> HIDE DEF d
      <3> QED BY <1>0, <2>1, <2>2 DEF SearchOK, Targets, Missing, Inside, hit
    <2> QED BY <1>0, <2>1, <2>3, SearchMoves
  <1>6. CASE GoToScan(q)
    <2> DEFINE d == [c EXCEPT !.pc = "scan"]
    <2>1. /\ UNCHANGED tableVars /\ c.pc = "verify" /\ Move(q, d)
          /\ c.hit.route = NoRoute \/ (c.hit.route # NoRoute /\ Matcher[c.hit.route][p].tag = "no")
      BY <1>0, <1>6 DEF GoToScan
    <2>2. /\ d.pc = "scan" /\ d.kind = c.kind /\ d.left = c.left
          /\ d.phase = c.phase /\ d.method = c.method /\ d.cur = c.cur
      BY <1>0
    <2>3. c.hit = hit /\ p \notin DOMAIN static[c.cur]
      BY <1>0, <2>1 DEF SearchOK, hit
    <2>4. MatchInternal(c.cur, p) = MatchFallback(fallback[c.cur], p)
      BY <1>g, <2>1, <2>3 DEF list, Decided
    <2>5. SearchOK(d)
      <3> HIDE DEF d
      <3> QED BY <1>0, <2>1, <2>2, <2>4 DEF SearchOK, Targets, Missing, Inside
    <2> QED BY <1>0, <2>1, <2>5, SearchMoves
  <1>7. ASSUME NEW pc \in {"drop", "unlock"}, NEW res, c.pc = "verify", UNCHANGED tableVars,
               Conclude(q, pc, res), res.tag # "no", c.hit.route # NoRoute,
               res = Decided(c.hit.route, Matcher[c.hit.route][p], list)
        PROVE  SearchInv'
    <2> DEFINE d == [c EXCEPT !.pc = pc, !.result = res]
    <2>1. Move(q, d)
      BY <1>7 DEF Conclude
    <2>2. /\ d.pc = pc /\ d.kind = c.kind /\ d.result = res
          /\ d.phase = c.phase /\ d.method = c.method /\ d.cur = c.cur
      BY <1>0
    <2>3. c.hit = hit /\ p \notin DOMAIN static[c.cur]
      BY <1>0, <1>7 DEF SearchOK, hit
    <2>4. MatchInternal(c.cur, p) = res
      BY <1>g, <1>7, <2>3
    <2>5. SearchOK(d)
      <3> HIDE DEF d
      <3> QED BY <1>0, <1>7, <2>2, <2>4 DEF SearchOK, Targets, Inside
    <2> QED BY <1>0, <1>7, <2>1, <2>5, SearchMoves
  <1>8. CASE LeafConfirmed(q)
    <2> DEFINE verdict == Matcher[c.hit.route][p]
    <2>1. /\ UNCHANGED tableVars /\ c.pc = "verify" /\ c.hit.route # NoRoute /\ verdict.tag = "ok"
          /\ Conclude(q, "drop", Found(c.hit.route, verdict.params))
      BY <1>0, <1>8 DEF LeafConfirmed
    <2>2. /\ Found(c.hit.route, verdict.params) = Decided(c.hit.route, verdict, list)
          /\ Found(c.hit.route, verdict.params).tag # "no"
      BY <2>1 DEF Decided, Found
    <2> QED BY <1>7, <2>1, <2>2
  <1>9. CASE LeafFails(q) \/ LeafPanics(q)
    <2> DEFINE verdict == Matcher[c.hit.route][p]
    <2>1. /\ UNCHANGED tableVars /\ c.pc = "verify" /\ c.hit.route # NoRoute
          /\ verdict.tag \in {"err", "panic"} /\ Conclude(q, "unlock", Failed(verdict.tag))
      BY <1>0, <1>9 DEF LeafFails, LeafPanics
    <2>2. /\ Failed(verdict.tag) = Decided(c.hit.route, verdict, list)
          /\ Failed(verdict.tag).tag # "no"
      BY <2>1 DEF Decided, Failed
    <2> QED BY <1>7, <2>1, <2>2
  <1>10. CASE DropTrieParams(q)
    <2> DEFINE d == [c EXCEPT !.pc = "unlock"]
    <2>1. UNCHANGED tableVars /\ c.pc = "drop" /\ Move(q, d)
      BY <1>10 DEF DropTrieParams
    <2>2. /\ d.pc = "unlock" /\ d.kind = c.kind /\ d.result = c.result
          /\ d.phase = c.phase /\ d.method = c.method /\ d.cur = c.cur
      BY <1>0
    <2>3. SearchOK(d)
      <3> HIDE DEF d
      <3> QED BY <1>0, <2>1, <2>2 DEF SearchOK, Targets, Missing, Inside
    <2> QED BY <1>0, <2>1, <2>3, SearchMoves
  <1>11. CASE ScanList(q)
    <2>1. UNCHANGED tableVars /\ c.pc = "scan" /\ MatchInternal(c.cur, p) = list
      BY <1>0, <1>11 DEF ScanList, SearchOK, list
    <2>2. CASE list.tag = "no"
      <3> DEFINE d == [c EXCEPT !.pc = "range"]
      <3>1. Move(q, d)
        BY <1>0, <1>11, <2>2 DEF ScanList, list
      <3>2. /\ d.pc = "range" /\ d.kind = c.kind /\ d.left = c.left
            /\ d.phase = c.phase /\ d.method = c.method
        BY <1>0
      <3>3. MatchInternal(c.cur, p) = NotFound
        BY <1>t, <2>1, <2>2, ListGives DEF list
      <3>4. SearchOK(d)
        <4> HIDE DEF d
        <4> QED BY <1>0, <2>1, <3>2, <3>3 DEF SearchOK, Targets, Missing, Inside
      <3> QED BY <1>0, <2>1, <3>1, <3>4, SearchMoves
    <2>3. CASE list.tag # "no"
      <3> DEFINE d == [c EXCEPT !.pc = "unlock", !.result = list]
      <3>1. Move(q, d)
        BY <1>0, <1>11, <2>3 DEF ScanList, Conclude, list
      <3>2. /\ d.pc = "unlock" /\ d.kind = c.kind /\ d.result = list
            /\ d.phase = c.phase /\ d.method = c.method /\ d.cur = c.cur
        BY <1>0
      <3>3. SearchOK(d)
        <4> HIDE DEF d
        <4> QED BY <1>0, <2>1, <2>3, <3>2 DEF SearchOK, Targets, Inside
      <3> QED BY <1>0, <2>1, <3>1, <3>3, SearchMoves
    <2> QED BY <2>2, <2>3
  <1>12. CASE Arrive(q)
    <2>1. PICK k \in Kind :
            LET rejected == IF k.path = NoPath THEN BadPath
                            ELSE IF Overrides(k) /\ ~k.wellFormed THEN InvalidForm
                            ELSE Pending
            IN  Move(q, [Idle EXCEPT !.kind = k, !.answer = rejected, !.method = EffectiveMethod(k),
                                     !.pc = IF rejected = Pending THEN "lock" ELSE "done"])
      BY <1>12 DEF Arrive
    <2>2. k.path \in Path \cup {NoPath} /\ UNCHANGED tableVars
      BY <1>12, ServeMuxAssumption DEF Arrive
    <2> DEFINE rejected == IF k.path = NoPath THEN BadPath
                           ELSE IF Overrides(k) /\ ~k.wellFormed THEN InvalidForm
                           ELSE Pending
               d == [Idle EXCEPT !.kind = k, !.answer = rejected, !.method = EffectiveMethod(k),
                                 !.pc = IF rejected = Pending THEN "lock" ELSE "done"]
    <2>3. Move(q, d)
      BY <2>1
    <2>4. d.kind = k /\ d.pc = IF rejected = Pending THEN "lock" ELSE "done"
      <3> HIDE DEF rejected
      <3> QED BY DEF Idle
    <2>5. rejected = Pending => k.path # NoPath
      BY DEF BadPath, Pending, Plainly, Answer
    <2>6. SearchOK(d)
      <3> HIDE DEF d, rejected
      <3> QED BY <2>2, <2>4, <2>5 DEF SearchOK, Inside
    <2> QED BY <1>0, <2>2, <2>3, <2>6, SearchMoves
  <1>13. ASSUME NEW d, Move(q, d), UNCHANGED tableVars, d.kind = c.kind,
                d.pc \in {"lock", "dispatch", "running", "panicked", "release", "done"},
                c.pc \in {"unlock", "dispatch", "running", "release"}, d.pc = "lock" => c.pc = "dispatch",
                d.pc = "dispatch" => c.pc = "unlock"
         PROVE  SearchInv'
    <2>1. SearchOK(d)
      BY <1>0, <1>13 DEF SearchOK, Inside
    <2> QED BY <1>0, <1>13, <2>1, SearchMoves
  <1>14. CASE RUnlock(q)
    BY <1>0, <1>13, <1>14 DEF RUnlock
  <1>15. CASE Dispatch(q)
    <2>1. CASE DispatchFailure(q)
      BY <1>0, <1>13, <2>1 DEF DispatchFailure, GiveAnswer
    <2>2. CASE DispatchOwn(q)
      BY <1>0, <1>13, <2>2 DEF DispatchOwn, Invoke, GiveAnswer
    <2>3. CASE LookElsewhere(q)
      BY <1>0, <1>13, <2>3 DEF LookElsewhere
    <2>4. CASE DispatchOther(q)
      BY <1>0, <1>13, <2>4 DEF DispatchOther, Invoke, GiveAnswer, AfterRefusal
    <2>5. CASE DispatchUnknown(q)
      BY <1>0, <1>13, <2>5 DEF DispatchUnknown, GiveAnswer
    <2>6. CASE ReleaseMatch(q)
      BY <1>0, <1>13, <2>6 DEF ReleaseMatch
    <2> QED BY <1>15, <2>1, <2>2, <2>3, <2>4, <2>5, <2>6 DEF Dispatch
  <1>16. CASE Handler(q)
    BY <1>0, <1>13, <1>16 DEF Handler, HandlerReturns, HandlerPanics
  <1> QED BY <1>1, <1>2, <1>3, <1>4, <1>5, <1>6, <1>8, <1>9, <1>10, <1>11, <1>12, <1>14, <1>15,
             <1>16 DEF Lookup

LEMMA NextSearch ==
  ASSUME MuxInv, SearchInv, TableTypeOK, TriesShaped, [Next]_vars
  PROVE  SearchInv'
  <1>0. OwnerInv /\ CallInv
    BY DEF MuxInv, OwnerInv
  <1>same. ASSUME UNCHANGED call, UNCHANGED tableVars PROVE SearchInv'
    <2>1. static' = static /\ tries' = tries /\ fallback' = fallback /\ methods' = methods
      BY <1>same DEF tableVars
    <2>2. \A m, p : MatchInternal(m, p)' = MatchInternal(m, p)
      BY <2>1, Zenon DEF MatchInternal
    <2>3. ASSUME NEW q \in Request PROVE SearchOK(call[q])'
      <3>1. SearchOK(call[q]) /\ call'[q] = call[q]
        BY <1>same DEF SearchInv
      <3>2. /\ Targets(call[q])' = Targets(call[q])
            /\ \A ms : Missing(call[q], ms)' <=> Missing(call[q], ms)
        BY <2>1, <2>2, <3>1 DEF Targets, Missing
      <3> QED BY <2>1, <2>2, <3>1, <3>2 DEF SearchOK
    <2> QED BY <2>3 DEF SearchInv
  <1>1. CASE Register
    BY <1>1, <1>same DEF Register, Announce, callVars
  <1>2. CASE AddLocked
    BY <1>0, <1>2, AddLockedSearch
  <1>3. ASSUME NEW q \in Request, Arrive(q) \/ Lookup(q) \/ Dispatch(q) \/ Handler(q)
        PROVE  SearchInv'
    BY <1>0, <1>3, StepSearch
  <1>4. ASSUME NEW q \in Request, AskForMap(q) PROVE SearchInv'
    BY <1>4, <1>same DEF AskForMap
  <1>5. CASE UNCHANGED vars
    BY <1>5, <1>same DEF vars, callVars
  <1> QED BY <1>1, <1>2, <1>3, <1>4, <1>5 DEF Next

\* However the steps of a lookup interleave with registrations and with other
\* lookups, it returns what the table gives in the instant it ends.
THEOREM LookupsAreAtomic == Spec => []LookupIsAtomic
  <1>1. Init => SearchInv
    BY DEF Init, SearchInv, SearchOK, Idle, Inside
  <1>2. MuxInv /\ SearchInv => LookupIsAtomic
    <2> SUFFICES ASSUME MuxInv, SearchInv, NEW q \in Request, call[q].pc = "unlock"
        PROVE  LET c == call[q]
               IN  IF c.phase = "own" THEN c.result = MatchInternal(c.method, PathOf(q))
                   ELSE [method |-> IF c.result.tag = "no" THEN c.method ELSE c.cur,
                         result |-> c.result] \in MatchOtherResults(c.method, PathOf(q))
      BY Zenon DEF LookupIsAtomic
    <2> DEFINE c == call[q]
               p == c.kind.path
               answers == {m \in methods \ {c.method} : MatchInternal(m, p).tag # "no"}
    <2>1. /\ PathOf(q) = p
          /\ IF c.result.tag = "no" THEN c.result = NotFound /\ Missing(c, Targets(c))
             ELSE c.cur \in Targets(c) /\ c.result = MatchInternal(c.cur, p)
      BY DEF SearchInv, SearchOK, PathOf
    <2>2. CASE c.phase = "own"
      BY <2>1, <2>2 DEF Targets, Missing
    <2>3. CASE c.phase # "own" /\ c.result.tag = "no"
      <3>1. answers = {}
        BY <2>1, <2>3 DEF Targets, Missing, NotFound
      <3> HIDE DEF c, p
      <3>2. MatchOtherResults(c.method, p) = {[method |-> c.method, result |-> NotFound]}
        BY <3>1, Zenon DEF MatchOtherResults
      <3> QED BY <2>1, <2>3, <3>2 DEF c
    <2>4. CASE c.phase # "own" /\ c.result.tag # "no"
      <3>1. c.cur \in answers /\ c.result = MatchInternal(c.cur, p)
        BY <2>1, <2>4 DEF Targets
      <3> HIDE DEF c, p
      <3>2. MatchOtherResults(c.method, p)
              = {[method |-> m, result |-> MatchInternal(m, p)] : m \in answers}
        BY <3>1, Zenon DEF MatchOtherResults
      <3>3. [method |-> c.cur, result |-> c.result] \in MatchOtherResults(c.method, p)
        BY <3>1, <3>2
      <3> QED BY <2>1, <2>4, <3>3 DEF c
    <2> QED BY <2>2, <2>3, <2>4
  <1> QED BY <1>1, <1>2, NextSearch, AlwaysMuxInv, TableInsideMux, TableTypeCorrect, TriesKeepShape,
             PTL DEF Spec
-----------------------------------------------------------------------------
(* The mux keeps what HttpDispatch promises.                               *)

\* The registrations of a method, as a lookup and as a promise see them.
LEMMA RegistrationsOf ==
  ASSUME NEW m
  PROVE  /\ {reg[2] : reg \in {g \in Registrations : g[1] = m}} = Registered(m)
         /\ \A r \in Registered(m) : \E reg \in Registrations : reg[1] = m /\ reg[2] = r
  BY DEF Registrations, Registered

\* More registrations allow more answers and more failures.
LEMMA MoreToServe ==
  ASSUME NEW before, NEW now, before \subseteq now, NEW m, NEW p
  PROVE  /\ Serving(before, m, p) \subseteq Serving(now, m, p)
         /\ \A tag : Failing(before, m, p, tag) => Failing(now, m, p, tag)
  BY DEF Serving, Failing

\* What a lookup in one method returns, in terms of the routes registered.
LEMMA LookupTells ==
  ASSUME TableTypeOK, TriesShaped, Listed, DispatchSound, DispatchComplete,
         TrieSearchIsReference, NEW m \in Method, NEW p \in Path
  PROVE  LET res == MatchInternal(m, p)
         IN  /\ res.tag = "ok" => Served(res.route, res.params) \in Serving(Registrations, m, p)
             /\ res.tag = "no" => Serving(Registrations, m, p) = {}
             /\ res.tag \in {"err", "panic"} => Failing(Registrations, m, p, res.tag)
             /\ res.tag \in Verdict
  <1> DEFINE res  == MatchInternal(m, p)
             list == fallback[m]
             hit  == TrieLookup(tries[m], TrieParts(p), TrieVerb(p))
  <1>0. /\ Serving(Registrations, m, p)
             = {Served(r, NoParams) : r \in {s \in Registered(m) : Static(s) = p}}
               \cup {Served(r, Matcher[r][p].params) :
                       r \in {s \in Registered(m) : Matcher[s][p].tag = "ok"}}
        /\ Registered(m) \subseteq Route
    <2>1. Serving(Registrations, m, p)
            = {Served(r, NoParams) : r \in {s \in Registered(m) : Static(s) = p}}
              \cup {Served(r, Matcher[r][p].params) :
                      r \in {s \in Registered(m) : Matcher[s][p].tag = "ok"}}
      BY RegistrationsOf DEF Serving
    <2> QED BY <2>1 DEF TableTypeOK, Registered
  <1>1. res.tag = "ok" => Served(res.route, res.params) \in Serving(Registrations, m, p)
    <2> SUFFICES ASSUME res.tag = "ok"
        PROVE  Served(res.route, res.params) \in Serving(Registrations, m, p)
      OBVIOUS
    <2>1. /\ res.route \in Registered(m)
          /\ \/ Static(res.route) = p /\ res.params = NoParams
             \/ Matcher[res.route][p] = Accepted(res.params)
      BY DEF DispatchSound
    <2> HIDE DEF res
    <2>2. CASE Static(res.route) = p /\ res.params = NoParams
      BY <1>0, <2>1, <2>2
    <2>3. CASE Matcher[res.route][p] = Accepted(res.params)
      <3>1. Matcher[res.route][p].tag = "ok" /\ Matcher[res.route][p].params = res.params
        BY <2>3 DEF Accepted
      <3> QED BY <1>0, <2>1, <3>1
    <2> QED BY <2>1, <2>2, <2>3
  <1>2. res.tag = "no" => Serving(Registrations, m, p) = {}
    <2> SUFFICES ASSUME res.tag = "no" PROVE Serving(Registrations, m, p) = {}
      OBVIOUS
    <2>1. \A r \in Registered(m) : Matcher[r][p].tag # "ok"
      BY DEF DispatchComplete
    <2>2. p \notin DOMAIN static[m]
      BY DEF MatchInternal, Found
    <2>3. \A r \in Registered(m) : Static(r) # p
      BY <2>2, RouteTableAssumption DEF Listed
    <2> HIDE DEF res
    <2> QED BY <1>0, <2>1, <2>3
  <1>3. \/ res.tag \in {"ok", "no"}
        \/ \E r \in Registered(m) : res.tag = Matcher[r][p].tag
    <2>1. CASE p \in DOMAIN static[m]
      BY <2>1 DEF MatchInternal, Found
    <2>2. ASSUME res = MatchFallback(list, p)
          PROVE  \/ res.tag \in {"ok", "no"}
                 \/ \E r \in Registered(m) : res.tag = Matcher[r][p].tag
      <3>1. list \in Seq(Registered(m))
        BY DEF TableTypeOK
      <3>2. \A i \in DOMAIN list : list[i] \in Registered(m)
        BY <3>1
      <3> HIDE DEF res, list
      <3>3. \/ res = NotFound
            \/ \E i \in DOMAIN list :
                 res = IF Matcher[list[i]][p].tag = "ok" THEN Found(list[i], Matcher[list[i]][p].params)
                       ELSE Failed(Matcher[list[i]][p].tag)
        BY <2>2, <3>1, FallbackAnswers
      <3> QED BY <3>2, <3>3 DEF NotFound, Found, Failed
    <2>3. CASE p \notin DOMAIN static[m] /\ hit.route # NoRoute
      <3>1. res = Decided(hit.route, Matcher[hit.route][p], MatchFallback(list, p))
        BY <2>3, TableGives
      <3>2. hit.route \in Registered(m)
        BY <2>3, ReferenceFindsLeaf DEF TableTypeOK
      <3>3. \/ res.tag \in {"ok", "no"}
            \/ res.tag = Matcher[hit.route][p].tag
            \/ res = MatchFallback(list, p)
        <4> HIDE DEF res, hit, list
        <4> QED BY <3>1 DEF Decided, Found, Failed
      <3> QED BY <2>2, <3>2, <3>3
    <2>4. CASE p \notin DOMAIN static[m] /\ hit.route = NoRoute
      BY <2>2, <2>4, TableGives
    <2> QED BY <2>1, <2>3, <2>4
  <1>4. \A r \in Registered(m) : Matcher[r][p].tag \in Verdict
    BY <1>0, RouteTableAssumption
  <1>5. res.tag \in {"err", "panic"} => Failing(Registrations, m, p, res.tag)
    <2> HIDE DEF res
    <2> QED BY <1>3, RegistrationsOf DEF Failing
  <1> HIDE DEF res
  <1>6. res.tag \in Verdict
    BY <1>3, <1>4 DEF Verdict
  <1> QED BY <1>1, <1>2, <1>5, <1>6 DEF res
\* A method that has a route is one that MatchOther visits.
KnownMethods == \A m \in Method : Registered(m) # {} => m \in methods

LEMMA KnownMethodsAlways == TableSpec => []KnownMethods
  <1>1. TableInit => KnownMethods
    BY DEF TableInit, KnownMethods, Registered
  <1>2. TableTypeOK /\ KnownMethods /\ [TableNext]_tableVars => KnownMethods'
    <2> SUFFICES ASSUME TableTypeOK, KnownMethods, [TableNext]_tableVars PROVE KnownMethods'
      OBVIOUS
    <2>1. ASSUME NEW m \in Method, NEW r \in Route, Add(m, r) PROVE KnownMethods'
      <3>1. \A k \in Method :
              Registered(k)' = IF k = m THEN Registered(k) \cup {r} ELSE Registered(k)
        BY <2>1, RegisteredGrows DEF Add, TableTypeOK
      <3> QED BY <2>1, <3>1 DEF Add, KnownMethods
    <2>2. CASE UNCHANGED tableVars
      BY <2>2 DEF tableVars, KnownMethods, Registered
    <2> QED BY <2>1, <2>2 DEF TableNext
  <1> QED BY <1>1, <1>2, TableTypeCorrect, PTL DEF TableSpec

\* Where a request has no answer yet.
Asking == {"lock", "blocked", "dispatch"} \cup Inside

\* The methods a lookup had to ask.
Asked(c) == IF c.phase = "own" THEN {c.method} ELSE Method \ {c.method}

\* What a result says when the lock is given back: a success or a failure is
\* one that the routes registered now allow, a miss is one that those known
\* on arrival do not forbid.
ResultOK(c, before, now) ==
  LET p == c.kind.path
      res == c.result
  IN  /\ res.tag \in Verdict
      /\ res.tag = "no" => \A m \in Asked(c) : Serving(before, m, p) = {}
      /\ res.tag # "no" => c.cur \in Asked(c)
      /\ res.tag = "ok" => Served(res.route, res.params) \in Serving(now, c.cur, p)
      /\ res.tag \in {"err", "panic"} => Failing(now, c.cur, p, res.tag)

\* Why the answer of a request will be one that was promised: it asked for
\* something that is not refused at sight, nothing known on arrival serves it
\* once the other methods are asked, and it has a result that holds.
PromiseOK(c, before, now) ==
  /\ before \subseteq now
  /\ c.answer = Pending <=> c.pc \in {"idle"} \cup Asking
  /\ c.pc # "idle" => c.kind \in Kind /\ c.method = EffectiveMethod(c.kind)
  /\ c.pc \in Asking =>
       /\ c.kind.path # NoPath /\ ~(Overrides(c.kind) /\ ~c.kind.wellFormed)
       /\ c.phase = "other" => Serving(before, c.method, c.kind.path) = {}
  /\ c.pc = "dispatch" => ResultOK(c, before, now)

PromiseInv ==
  DOMAIN seen = Request /\ \A q \in Request : PromiseOK(call[q], seen[q], Registrations)

Known == TableTypeOK /\ TriesShaped /\ Listed /\ DispatchSound /\ DispatchComplete
           /\ TrieSearchIsReference /\ KnownMethods

\* What the lookup has found when it gives the lock back.
LEMMA UnlockTells ==
  ASSUME Known, SearchInv, CallInv, NEW q \in Request, call[q].pc = "unlock",
         NEW before, before \subseteq Registrations
  PROVE  ResultOK(call[q], before, Registrations)
  <1> DEFINE c == call[q]
             p == c.kind.path
             now == Registrations
  <1>1. /\ p \in Path
        /\ IF c.result.tag = "no" THEN c.result = NotFound /\ Missing(c, Targets(c))
           ELSE c.cur \in Targets(c) /\ c.result = MatchInternal(c.cur, p)
        /\ c.method \in Method /\ c.phase \in {"own", "other"}
    BY DEF SearchInv, SearchOK, Inside, CallInv, CallTypeOK
  <1>2. Targets(c) \subseteq Asked(c) /\ Targets(c) \subseteq Method
    BY <1>1 DEF Targets, Asked, Known, TableTypeOK
  <1>3. ASSUME NEW m \in Asked(c), c.result.tag = "no" PROVE Serving(before, m, p) = {}
    <2>1. m \in Method
      BY <1>1 DEF Asked
    <2>2. CASE m \in Targets(c)
      <3>1. MatchInternal(m, p).tag = "no"
        BY <1>1, <1>3, <2>2 DEF Missing, NotFound
      <3>2. Serving(now, m, p) = {}
        BY <1>1, <2>1, <3>1, LookupTells DEF Known
      <3> QED BY <3>2, MoreToServe
    <2>3. CASE m \notin Targets(c)
      <3>1. Registered(m) = {}
        BY <1>1, <1>3, <2>1, <2>3 DEF Targets, Asked, Known, KnownMethods
      <3>2. {reg[2] : reg \in {g \in now : g[1] = m}} = {}
        BY <3>1, RegistrationsOf
      <3>3. Serving(now, m, p) = {}
        BY <3>2 DEF Serving
      <3> QED BY <3>3, MoreToServe
    <2> QED BY <2>2, <2>3
  <1>4. CASE c.result.tag = "no"
    BY <1>3, <1>4 DEF ResultOK, Verdict
  <1>5. CASE c.result.tag # "no"
    <2>1. c.cur \in Targets(c) /\ c.cur \in Method /\ c.result = MatchInternal(c.cur, p)
      BY <1>1, <1>2, <1>5
    <2>2. /\ c.result.tag = "ok" =>
               Served(c.result.route, c.result.params) \in Serving(now, c.cur, p)
          /\ c.result.tag \in {"err", "panic"} => Failing(now, c.cur, p, c.result.tag)
          /\ c.result.tag \in Verdict
      BY <1>1, <2>1, LookupTells DEF Known
    <2> QED BY <1>2, <1>5, <2>1, <2>2 DEF ResultOK
  <1> QED BY <1>4, <1>5

\* The abstract state.
AskedBy  == [q \in Request |-> IF call[q].pc = "idle" THEN {} ELSE {call[q].kind}]
AnswerTo == [q \in Request |-> IF call[q].answer = Pending THEN {} ELSE {call[q].answer}]

\* A step of a goroutine that its client does not see.
LEMMA Unseen ==
  ASSUME CallInv, PromiseInv, NEW q \in Request, NEW d, Move(q, d), UNCHANGED <<added, seen>>,
         d.kind = call[q].kind, d.answer = call[q].answer, d.pc = "idle" <=> call[q].pc = "idle",
         PromiseOK(d, seen[q], Registrations)
  PROVE  PromiseInv' /\ UNCHANGED HttpDispatch!vars
  <1>1. Registrations' = Registrations /\ seen' = seen
    BY DEF Registrations
  <1>2. /\ call'[q] = d
        /\ \A x \in Request : x # q => call'[x] = call[x]
    BY DEF CallInv, Move
  <1>3. PromiseInv'
    <2>1. \A x \in Request : PromiseOK(call'[x], seen'[x], Registrations')
      BY <1>1, <1>2 DEF PromiseInv
    <2> QED BY <1>1, <2>1 DEF PromiseInv
  <1>4. AskedBy' = AskedBy /\ AnswerTo' = AnswerTo
    BY <1>2 DEF AskedBy, AnswerTo
  <1> QED BY <1>1, <1>3, <1>4, Zenon DEF HttpDispatch!vars, AskedBy, AnswerTo

\* A step that answers.
LEMMA Answered ==
  ASSUME CallInv, PromiseInv, NEW q \in Request, NEW pc \in {"running", "release", "done", "panicked"},
         NEW a, GiveAnswer(q, pc, a), UNCHANGED <<added, seen>>, call[q].pc \in Asking,
         a # Pending, a \in AllowedAnswers(call[q].kind, seen[q], Registrations)
  PROVE  PromiseInv' /\ HttpDispatch!Reply(q)
  <1> DEFINE c == call[q]
             d == [c EXCEPT !.pc = pc, !.answer = a]
  <1>1. Registrations' = Registrations /\ seen' = seen
    BY DEF Registrations
  <1>2. /\ call'[q] = d
        /\ \A x \in Request : x # q => call'[x] = call[x]
    BY DEF CallInv, Move, GiveAnswer
  <1>3. Shaped(c) /\ PromiseOK(c, seen[q], Registrations)
    BY DEF CallInv, PromiseInv
  <1>4. d.kind = c.kind /\ d.answer = a /\ d.pc = pc /\ d.method = c.method
    BY <1>3 DEF Shaped, Fields
  <1>5. PromiseOK(d, seen[q], Registrations)
    <2> HIDE DEF d
    <2> QED BY <1>3, <1>4 DEF PromiseOK, Asking, Inside
  <1>6. c.answer = Pending /\ c.pc # "idle"
    BY <1>3 DEF PromiseOK, Asking, Inside
  <1> HIDE DEF d
  <1>7. PromiseInv'
    <2>1. \A x \in Request : PromiseOK(call'[x], seen'[x], Registrations')
      BY <1>1, <1>2, <1>5 DEF PromiseInv
    <2> QED BY <1>1, <2>1 DEF PromiseInv
  <1>8. AskedBy' = AskedBy
    BY <1>2, <1>4, <1>6 DEF AskedBy
  <1>9. AnswerTo' = [AnswerTo EXCEPT ![q] = {a}]
    BY <1>2, <1>4 DEF AnswerTo
  <1>10. AnswerTo[q] = {} /\ c.kind \in AskedBy[q]
    BY <1>6 DEF AnswerTo, AskedBy
  <1> QED BY <1>1, <1>7, <1>8, <1>9, <1>10, Zenon DEF HttpDispatch!Reply, AskedBy, AnswerTo
\* A registration only adds routes, and lets in those who wait for it.
LEMMA AddLockedPromise ==
  ASSUME TableTypeOK, CallInv, PromiseInv, AddLocked
  PROVE  PromiseInv' /\ HttpDispatch!Register
  <1>1. Registrations \subseteq Registrations'
    <2>1. added' = Append(added, <<writer[1], writer[2]>>)
      BY DEF AddLocked, Add
    <2>2. \A i \in DOMAIN added : i \in DOMAIN added' /\ added'[i] = added[i]
      BY <2>1 DEF TableTypeOK
    <2> QED BY <2>2 DEF Registrations
  <1>2. ASSUME NEW q \in Request
        PROVE  /\ call'[q].kind = call[q].kind /\ call'[q].answer = call[q].answer
               /\ call'[q].pc = "idle" <=> call[q].pc = "idle"
               /\ PromiseOK(call'[q], seen'[q], Registrations')
    <2>1. /\ Shaped(call[q]) /\ PromiseOK(call[q], seen[q], Registrations)
          /\ call'[q] = Woken(call[q], methods') /\ seen' = seen
      BY DEF CallInv, PromiseInv, AddLocked
    <2>2. CASE call[q].pc = "blocked"
      <3>1. /\ call'[q].pc = "range" /\ call'[q].kind = call[q].kind
            /\ call'[q].answer = call[q].answer /\ call'[q].method = call[q].method
            /\ call'[q].phase = call[q].phase
        <4>1. call'[q] = Granted(call[q], methods')
          BY <2>1, <2>2 DEF Woken
        <4> QED BY <2>1, <4>1 DEF Granted, Shaped, Fields
      <3> QED BY <1>1, <2>1, <2>2, <3>1 DEF PromiseOK, Asking, Inside
    <2>3. CASE call[q].pc # "blocked"
      <3>1. call'[q] = call[q]
        BY <2>1, <2>3 DEF Woken
      <3>2. ResultOK(call[q], seen[q], Registrations) => ResultOK(call[q], seen[q], Registrations')
        BY <1>1, MoreToServe DEF ResultOK
      <3> QED BY <1>1, <2>1, <3>1, <3>2 DEF PromiseOK
    <2> QED BY <2>2, <2>3
  <1>3. PromiseInv'
    BY <1>2 DEF PromiseInv, AddLocked
  <1>4. AskedBy' = AskedBy /\ AnswerTo' = AnswerTo /\ seen' = seen
    BY <1>2 DEF AskedBy, AnswerTo, AddLocked
  <1> QED BY <1>1, <1>3, <1>4, Zenon DEF HttpDispatch!Register, AskedBy, AnswerTo

LEMMA ArrivePromise ==
  ASSUME CallInv, PromiseInv, NEW q \in Request, Arrive(q)
  PROVE  PromiseInv' /\ HttpDispatch!Ask(q)
  <1>1. PICK k \in Kind :
          LET rejected == IF k.path = NoPath THEN BadPath
                          ELSE IF Overrides(k) /\ ~k.wellFormed THEN InvalidForm
                          ELSE Pending
          IN  Move(q, [Idle EXCEPT !.kind = k, !.answer = rejected, !.method = EffectiveMethod(k),
                                   !.pc = IF rejected = Pending THEN "lock" ELSE "done"])
    BY DEF Arrive
  <1> DEFINE rejected == IF k.path = NoPath THEN BadPath
                         ELSE IF Overrides(k) /\ ~k.wellFormed THEN InvalidForm
                         ELSE Pending
             d == [Idle EXCEPT !.kind = k, !.answer = rejected, !.method = EffectiveMethod(k),
                               !.pc = IF rejected = Pending THEN "lock" ELSE "done"]
  <1>2. /\ Move(q, d) /\ call[q].pc = "idle" /\ added' = added
        /\ seen' = [seen EXCEPT ![q] = Registrations]
    BY <1>1 DEF Arrive, tableVars
  <1>3. /\ d.kind = k /\ d.answer = rejected /\ d.method = EffectiveMethod(k) /\ d.phase = "own"
        /\ d.pc = IF rejected = Pending THEN "lock" ELSE "done"
    <2> HIDE DEF rejected
    <2> QED BY DEF Idle
  <1>4. /\ rejected = Pending => k.path # NoPath /\ ~(Overrides(k) /\ ~k.wellFormed)
        /\ rejected # Pending => rejected \in AllowedAnswers(k, Registrations, Registrations)
    <2>1. BadPath # Pending /\ InvalidForm # Pending
      BY DEF BadPath, InvalidForm, Pending, Plainly, Answer
    <2> QED BY <2>1 DEF AllowedAnswers
  <1>5. /\ Registrations' = Registrations
        /\ DOMAIN call = Request
    BY <1>2 DEF Registrations, CallInv
  <1> HIDE DEF d, rejected
  <1>6. /\ call'[q] = d
        /\ \A x \in Request : x # q => call'[x] = call[x]
    BY <1>2, <1>5 DEF Move
  <1>7. call[q].answer = Pending
    BY <1>2 DEF PromiseInv, PromiseOK
  <1>8. PromiseInv'
    <2>1. PromiseOK(d, Registrations, Registrations)
      BY <1>3, <1>4 DEF PromiseOK, Asking, Inside
    <2>2. \A x \in Request : PromiseOK(call'[x], IF x = q THEN Registrations ELSE seen[x], Registrations')
      BY <1>5, <1>6, <2>1 DEF PromiseInv
    <2>3. DOMAIN seen' = Request /\ \A x \in Request :
            seen'[x] = IF x = q THEN Registrations ELSE seen[x]
      BY <1>2 DEF PromiseInv
    <2>4. ASSUME NEW x \in Request PROVE PromiseOK(call'[x], seen'[x], Registrations')
      BY <2>2, <2>3
    <2> QED BY <2>3, <2>4 DEF PromiseInv
  <1>9. /\ AskedBy[q] = {}
        /\ AskedBy' = [AskedBy EXCEPT ![q] = {k}]
        /\ AnswerTo' = [AnswerTo EXCEPT ![q] = IF rejected = Pending THEN {} ELSE {rejected}]
    <2>1. d.pc # "idle"
      BY <1>3
    <2> QED BY <1>2, <1>3, <1>6, <2>1 DEF AskedBy, AnswerTo
  <1>10. AnswerTo' = AnswerTo \/ \E a \in AllowedAnswers(k, Registrations, Registrations) :
                                   AnswerTo' = [AnswerTo EXCEPT ![q] = {a}]
    <2>1. AnswerTo[q] = {} /\ AnswerTo = [AnswerTo EXCEPT ![q] = AnswerTo[q]]
      BY <1>7 DEF AnswerTo
    <2> QED BY <1>4, <1>9, <2>1
  <1> QED BY <1>2, <1>5, <1>8, <1>9, <1>10, Zenon DEF HttpDispatch!Ask, AskedBy, AnswerTo

LEMMA LookupPromise ==
  ASSUME Known, SearchInv, CallInv, PromiseInv, NEW q \in Request, Lookup(q)
  PROVE  PromiseInv' /\ UNCHANGED HttpDispatch!vars
  <1> DEFINE c == call[q]
  <1>0. Shaped(c) /\ PromiseOK(c, seen[q], Registrations)
    BY DEF CallInv, PromiseInv
  <1>1. ASSUME NEW d, Move(q, d), UNCHANGED <<added, seen>>, c.pc \in Asking,
               d.pc \in Asking, d.pc = "dispatch" => ResultOK(d, seen[q], Registrations),
               \A f \in {"kind", "method", "phase", "answer"} : d[f] = c[f]
        PROVE  PromiseInv' /\ UNCHANGED HttpDispatch!vars
    <2>1. d.kind = c.kind /\ d.method = c.method /\ d.phase = c.phase /\ d.answer = c.answer
      BY <1>1
    <2>2. PromiseOK(d, seen[q], Registrations)
      BY <1>0, <1>1, <2>1 DEF PromiseOK, Asking, Inside
    <2>3. d.pc # "idle" /\ c.pc # "idle"
      BY <1>1 DEF Asking, Inside
    <2> QED BY <1>1, <2>1, <2>2, <2>3, Unseen
  <1> USE DEF Asking, Inside, Shaped, Fields, tableVars
  <1>2. CASE RLock(q)
    BY <1>0, <1>1, <1>2 DEF RLock, Granted
  <1>3. CASE NextMethod(q)
    BY <1>0, <1>1, <1>3 DEF NextMethod, Conclude
  <1>4. CASE StaticHit(q)
    BY <1>0, <1>1, <1>4 DEF StaticHit, Conclude
  <1>5. CASE NoTrie(q)
    BY <1>0, <1>1, <1>5 DEF NoTrie
  <1>6. CASE SearchTrie(q)
    BY <1>0, <1>1, <1>6 DEF SearchTrie
  <1>7. CASE GoToScan(q)
    BY <1>0, <1>1, <1>7 DEF GoToScan
  <1>8. CASE LeafConfirmed(q)
    BY <1>0, <1>1, <1>8 DEF LeafConfirmed, Conclude
  <1>9. CASE LeafFails(q)
    BY <1>0, <1>1, <1>9 DEF LeafFails, Conclude
  <1>10. CASE LeafPanics(q)
    BY <1>0, <1>1, <1>10 DEF LeafPanics, Conclude
  <1>11. CASE DropTrieParams(q)
    BY <1>0, <1>1, <1>11 DEF DropTrieParams
  <1>12. CASE ScanList(q)
    BY <1>0, <1>1, <1>12 DEF ScanList, Conclude
  <1>13. CASE RUnlock(q)
    <2> DEFINE d == [c EXCEPT !.pc = "dispatch"]
    <2>1. c.pc = "unlock" /\ Move(q, d) /\ UNCHANGED <<added, seen>>
      BY <1>13 DEF RUnlock
    <2>2. ResultOK(c, seen[q], Registrations)
      BY <1>0, <2>1, UnlockTells DEF PromiseOK
    <2>3. /\ d.pc = "dispatch" /\ d.cur = c.cur /\ d.result = c.result
          /\ d.kind = c.kind /\ d.method = c.method /\ d.phase = c.phase /\ d.answer = c.answer
      BY <1>0
    <2>4. ResultOK(d, seen[q], Registrations)
      <3> HIDE DEF d
      <3> QED BY <2>2, <2>3 DEF ResultOK, Asked
    <2> HIDE DEF d
    <2> QED BY <1>1, <2>1, <2>3, <2>4
  <1> QED BY <1>2, <1>3, <1>4, <1>5, <1>6, <1>7, <1>8, <1>9, <1>10, <1>11, <1>12, <1>13 DEF Lookup
\* A step after a lookup: an answer that was promised, or one more lookup.
LEMMA DispatchPromise ==
  ASSUME CallInv, PromiseInv, NEW q \in Request, Dispatch(q)
  PROVE  PromiseInv' /\ (HttpDispatch!Reply(q) \/ UNCHANGED HttpDispatch!vars)
  <1> DEFINE c   == call[q]
             k   == c.kind
             m   == c.method
             p   == k.path
             now == Registrations
             before == seen[q]
  <1>0. /\ Shaped(c) /\ CallTypeOK(c) /\ PromiseOK(c, before, now)
    BY DEF CallInv, PromiseInv
  <1>k. ASSUME c.pc = "dispatch"
        PROVE  /\ ResultOK(c, before, now) /\ k \in Kind /\ m = EffectiveMethod(k) /\ m \in Method
               /\ c.phase \in {"own", "other"} /\ before \subseteq now
               /\ c.phase = "other" => Serving(before, m, p) = {}
               /\ c.pc \in Asking
               /\ AllowedAnswers(k, before, now) =
                    Serving(now, m, p) \cup Failures(now, {m}, p)
                    \cup (IF Serving(before, m, p) = {} THEN Elsewhere(k, m, now) ELSE {})
                    \cup (IF \A x \in Method : Serving(before, x, p) = {} THEN {Unknown} ELSE {})
    <2>1. /\ ResultOK(c, before, now) /\ k \in Kind /\ m = EffectiveMethod(k) /\ m \in Method
          /\ c.phase \in {"own", "other"} /\ before \subseteq now
          /\ c.phase = "other" => Serving(before, m, p) = {}
          /\ p # NoPath /\ ~(Overrides(k) /\ ~k.wellFormed)
          /\ c.pc \in Asking
      BY <1>0, <1>k DEF PromiseOK, CallTypeOK, Asking
    <2>2. AllowedAnswers(k, before, now) =
            Serving(now, m, p) \cup Failures(now, {m}, p)
            \cup (IF Serving(before, m, p) = {} THEN Elsewhere(k, m, now) ELSE {})
            \cup (IF \A x \in Method : Serving(before, x, p) = {} THEN {Unknown} ELSE {})
      <3> HIDE DEF c, now, before
      <3> QED BY <2>1, Zenon DEF AllowedAnswers
    <2> QED BY <2>1, <2>2
  <1>p. /\ Malformed400 # Pending /\ Aborted # Pending /\ Unknown # Pending /\ NotAllowed # Pending
        /\ InvalidForm # Pending /\ Malformed400 # Aborted
        /\ \A r, params : Served(r, params) # Pending
    BY DEF Malformed400, Aborted, Unknown, NotAllowed, InvalidForm, Pending, Served, Plainly, Answer
  <1>a. ASSUME NEW pc \in {"running", "release", "done", "panicked"}, NEW a, GiveAnswer(q, pc, a),
               UNCHANGED <<added, seen>>, c.pc = "dispatch", a # Pending,
               a \in AllowedAnswers(k, before, now)
        PROVE  PromiseInv' /\ HttpDispatch!Reply(q)
    BY <1>a, <1>k, Answered
  <1>1. CASE DispatchFailure(q)
    <2> DEFINE tag == c.result.tag
               a   == IF tag = "err" THEN Malformed400 ELSE Aborted
               pc  == IF tag = "err" THEN "done" ELSE "panicked"
    <2>1. /\ c.pc = "dispatch" /\ tag \in {"err", "panic"} /\ GiveAnswer(q, pc, a)
          /\ UNCHANGED <<added, seen>>
      BY <1>1 DEF DispatchFailure, tableVars
    <2>2. c.cur \in Asked(c) /\ Failing(now, c.cur, p, tag)
      BY <1>k, <2>1 DEF ResultOK
    <2>3. a \in {Malformed400, Aborted} /\ tag = IF a = Aborted THEN "panic" ELSE "err"
      BY <1>p, <2>1
    <2>4. \A ms : c.cur \in ms => a \in Failures(now, ms, p)
      <3> HIDE DEF a, tag, now
      <3> QED BY <2>2, <2>3, Zenon DEF Failures
    <2>5. a \in AllowedAnswers(k, before, now)
      <3> HIDE DEF a, now, before
      <3>1. CASE c.phase = "own"
        BY <1>k, <2>1, <2>2, <2>4, <3>1 DEF Asked
      <3>2. CASE c.phase = "other"
        <4>1. a \in Failures(now, Method \ {m}, p)
          BY <2>2, <2>4, <3>2 DEF Asked
        <4>2. a \in Elsewhere(k, m, now)
          BY <4>1 DEF Elsewhere
        <4> QED BY <1>k, <2>1, <3>2, <4>2
      <3> QED BY <1>k, <2>1, <3>1, <3>2
    <2>6. a # Pending /\ pc \in {"running", "release", "done", "panicked"}
      BY <1>p
    <2> HIDE DEF a, pc
    <2> QED BY <1>a, <2>1, <2>5, <2>6
  <1>2. CASE DispatchOwn(q)
    <2> DEFINE a == Served(c.result.route, c.result.params)
    <2>1. /\ c.pc = "dispatch" /\ c.phase = "own" /\ c.result.tag = "ok"
          /\ GiveAnswer(q, "running", a) /\ UNCHANGED <<added, seen>>
      BY <1>2 DEF DispatchOwn, Invoke, tableVars
    <2>2. a \in Serving(now, m, p)
      BY <1>k, <2>1 DEF ResultOK, Asked
    <2>3. a \in AllowedAnswers(k, before, now)
      BY <1>k, <2>1, <2>2
    <2>4. a # Pending
      BY <1>p
    <2> HIDE DEF a
    <2> QED BY <1>a, <2>1, <2>3, <2>4
  <1>3. CASE LookElsewhere(q)
    <2> DEFINE d == [c EXCEPT !.pc = "lock", !.phase = "other"]
    <2>1. /\ c.pc = "dispatch" /\ c.phase = "own" /\ c.result.tag = "no" /\ Move(q, d)
          /\ UNCHANGED <<added, seen>>
      BY <1>3 DEF LookElsewhere, tableVars
    <2>2. Serving(before, m, p) = {}
      BY <1>k, <2>1 DEF ResultOK, Asked
    <2>3. /\ d.pc = "lock" /\ d.phase = "other" /\ d.kind = k /\ d.method = m /\ d.answer = c.answer
      BY <1>0 DEF Shaped, Fields
    <2>4. PromiseOK(d, before, now)
      <3> HIDE DEF d
      <3> QED BY <1>0, <2>1, <2>2, <2>3 DEF PromiseOK, Asking, Inside
    <2> HIDE DEF d
    <2> QED BY <2>1, <2>3, <2>4, Unseen
  <1>4. CASE DispatchOther(q)
    <2> DEFINE falls == IsFormPost(k, m) /\ IsReadOnly(c.cur)
               served == Served(c.result.route, c.result.params)
               refusal == IF falls THEN InvalidForm ELSE NotAllowed
    <2>1. /\ c.pc = "dispatch" /\ c.phase = "other" /\ c.result.tag = "ok" /\ UNCHANGED <<added, seen>>
          /\ \/ falls /\ k.wellFormed /\ GiveAnswer(q, "running", served)
             \/ ~(falls /\ k.wellFormed) /\ GiveAnswer(q, "release", refusal)
      BY <1>4 DEF DispatchOther, Invoke, AfterRefusal, tableVars
    <2>2. c.cur \in Method \ {m} /\ served \in Serving(now, c.cur, p)
      BY <1>k, <2>1 DEF ResultOK, Asked
    <2>3. falls => c.cur = GET /\ m # GET /\ IsFormPost(k, m)
      BY <2>2 DEF IsReadOnly
    <2>4. ~falls => ~IsFormPost(k, m) \/ c.cur # GET
      BY DEF IsReadOnly
    <2>5. Elsewhere(k, m, now) \subseteq AllowedAnswers(k, before, now)
      BY <1>k, <2>1
    <2>6. CASE falls /\ k.wellFormed
      <3>1. served \in Elsewhere(k, m, now)
        BY <2>2, <2>3, <2>6 DEF Elsewhere
      <3>2. GiveAnswer(q, "running", served) /\ served # Pending
        BY <1>p, <2>1, <2>6
      <3> QED BY <1>a, <2>1, <2>5, <3>1, <3>2
    <2>7. CASE ~(falls /\ k.wellFormed)
      <3>1. refusal \in Elsewhere(k, m, now)
        <4>1. CASE falls
          BY <2>2, <2>3, <2>7, <4>1 DEF Elsewhere
        <4>2. CASE ~falls
          BY <2>2, <2>4, <4>2 DEF Elsewhere
        <4> QED BY <4>1, <4>2
      <3>2. GiveAnswer(q, "release", refusal) /\ refusal # Pending
        BY <1>p, <2>1, <2>7
      <3> QED BY <1>a, <2>1, <2>5, <3>1, <3>2
    <2> QED BY <2>6, <2>7
  <1>5. CASE DispatchUnknown(q)
    <2>1. /\ c.pc = "dispatch" /\ c.phase = "other" /\ c.result.tag = "no"
          /\ GiveAnswer(q, "done", Unknown) /\ UNCHANGED <<added, seen>>
      BY <1>5 DEF DispatchUnknown, tableVars
    <2>2. \A x \in Method : Serving(before, x, p) = {}
      BY <1>k, <2>1 DEF ResultOK, Asked
    <2>3. Unknown \in AllowedAnswers(k, before, now)
      BY <1>k, <2>1, <2>2
    <2> QED BY <1>a, <1>p, <2>1, <2>3
  <1>6. CASE ReleaseMatch(q)
    <2> DEFINE d == [c EXCEPT !.pc = "done"]
    <2>1. c.pc = "release" /\ Move(q, d) /\ UNCHANGED <<added, seen>>
      BY <1>6 DEF ReleaseMatch, tableVars
    <2>2. d.pc = "done" /\ d.kind = k /\ d.method = m /\ d.answer = c.answer
      BY <1>0 DEF Shaped, Fields
    <2>3. PromiseOK(d, before, now)
      <3> HIDE DEF d
      <3> QED BY <1>0, <2>1, <2>2 DEF PromiseOK, Asking, Inside
    <2> HIDE DEF d
    <2> QED BY <2>1, <2>2, <2>3, Unseen
  <1> QED BY <1>1, <1>2, <1>3, <1>4, <1>5, <1>6 DEF Dispatch

LEMMA HandlerPromise ==
  ASSUME CallInv, PromiseInv, NEW q \in Request, Handler(q)
  PROVE  PromiseInv' /\ UNCHANGED HttpDispatch!vars
  <1> DEFINE c == call[q]
  <1>1. PICK pc \in {"release", "panicked"} : Move(q, [c EXCEPT !.pc = pc])
    BY DEF Handler, HandlerReturns, HandlerPanics
  <1> DEFINE d == [c EXCEPT !.pc = pc]
  <1>2. c.pc = "running" /\ Move(q, d) /\ UNCHANGED <<added, seen>>
    BY <1>1 DEF Handler, HandlerReturns, HandlerPanics, tableVars
  <1>3. Shaped(c) /\ PromiseOK(c, seen[q], Registrations)
    BY DEF CallInv, PromiseInv
  <1>4. d.pc = pc /\ d.kind = c.kind /\ d.method = c.method /\ d.answer = c.answer
    BY <1>3 DEF Shaped, Fields
  <1>5. PromiseOK(d, seen[q], Registrations)
    <2> HIDE DEF d
    <2> QED BY <1>2, <1>3, <1>4 DEF PromiseOK, Asking, Inside
  <1> HIDE DEF d
  <1> QED BY <1>2, <1>4, <1>5, Unseen

\* Every step of the mux is one of HttpDispatch's, or none.
LEMMA NextPromise ==
  ASSUME Known, CallInv, SearchInv, PromiseInv, [Next]_vars
  PROVE  PromiseInv' /\ [HttpDispatch!Next]_HttpDispatch!vars
  <1>same. ASSUME UNCHANGED <<call, added, seen>>
           PROVE  PromiseInv' /\ UNCHANGED HttpDispatch!vars
    <2>1. Registrations' = Registrations /\ call' = call /\ seen' = seen
      BY <1>same DEF Registrations
    <2>2. AskedBy' = AskedBy /\ AnswerTo' = AnswerTo
      BY <2>1 DEF AskedBy, AnswerTo
    <2>3. PromiseInv'
      <3>1. \A x \in Request : PromiseOK(call'[x], seen'[x], Registrations')
        BY <2>1 DEF PromiseInv
      <3> QED BY <2>1, <3>1 DEF PromiseInv
    <2> QED BY <2>1, <2>2, <2>3, Zenon DEF HttpDispatch!vars, AskedBy, AnswerTo
  <1>1. CASE Register
    BY <1>1, <1>same DEF Register, Announce, callVars, tableVars
  <1>2. CASE AddLocked
    BY <1>2, AddLockedPromise DEF Known, HttpDispatch!Next
  <1>3. ASSUME NEW q \in Request, Arrive(q) PROVE PromiseInv' /\ [HttpDispatch!Next]_HttpDispatch!vars
    BY <1>3, ArrivePromise DEF HttpDispatch!Next
  <1>4. ASSUME NEW q \in Request, Lookup(q) PROVE PromiseInv' /\ [HttpDispatch!Next]_HttpDispatch!vars
    BY <1>4, LookupPromise
  <1>5. ASSUME NEW q \in Request, Dispatch(q) PROVE PromiseInv' /\ [HttpDispatch!Next]_HttpDispatch!vars
    BY <1>5, DispatchPromise DEF HttpDispatch!Next
  <1>6. ASSUME NEW q \in Request, Handler(q) PROVE PromiseInv' /\ [HttpDispatch!Next]_HttpDispatch!vars
    BY <1>6, HandlerPromise
  <1>7. ASSUME NEW q \in Request, AskForMap(q) PROVE PromiseInv' /\ [HttpDispatch!Next]_HttpDispatch!vars
    BY <1>7, <1>same DEF AskForMap, tableVars
  <1>8. CASE UNCHANGED vars
    BY <1>8, <1>same DEF vars, callVars, tableVars
  <1> QED BY <1>1, <1>2, <1>3, <1>4, <1>5, <1>6, <1>7, <1>8 DEF Next

\* The mux implements HttpDispatch, for any routes, requests and order of
\* their steps: every request is answered once, as the routes allow.
THEOREM MuxAnswersAsPromised ==
  ASSUME StaticMatchersExact
  PROVE  Spec => AnswersAsPromised
  <1>0. AllHaveMatchers
    BY ServeMuxAssumption DEF AllHaveMatchers
  <1>1. Init => PromiseInv /\ HttpDispatch!Init
    <2> SUFFICES ASSUME Init PROVE PromiseInv /\ HttpDispatch!Init
      OBVIOUS
    <2>1. Registrations = {} /\ seen = [q \in Request |-> {}] /\ call = [q \in Request |-> Idle]
      BY DEF Init, TableInit, Registrations
    <2>2. Idle.pc = "idle" /\ Idle.answer = Pending
      BY DEF Idle
    <2>3. PromiseInv
      BY <2>1, <2>2 DEF PromiseInv, PromiseOK, Asking, Inside
    <2>4. AskedBy = [q \in Request |-> {}] /\ AnswerTo = [q \in Request |-> {}]
      BY <2>1, <2>2 DEF AskedBy, AnswerTo
    <2> QED BY <2>1, <2>3, <2>4, Zenon DEF HttpDispatch!Init, AskedBy, AnswerTo
  <1>2. Known /\ MuxInv /\ SearchInv /\ PromiseInv /\ [Next]_vars
          => PromiseInv' /\ [HttpDispatch!Next]_HttpDispatch!vars
    BY NextPromise DEF MuxInv, OwnerInv
  <1>3. Spec => []Known
    <2>1. TableSpec => []DispatchSound
      BY <1>0, DispatchIsSound
    <2>2. TableSpec => []DispatchComplete
      BY <1>0, DispatchIsComplete
    <2>3. TableTypeOK /\ TriesShaped /\ Listed /\ DispatchSound /\ DispatchComplete
            /\ TrieSearchIsReference /\ KnownMethods => Known
      BY DEF Known
    <2> QED BY <2>1, <2>2, <2>3, TableInsideMux, TableTypeCorrect, TriesKeepShape, ListedAlways,
               TrieSearchIsAlwaysReference, KnownMethodsAlways, PTL
  <1>4. Spec => []SearchInv
    <2>1. Init => SearchInv
      BY DEF Init, SearchInv, SearchOK, Idle, Inside
    <2>2. MuxInv /\ SearchInv /\ TableTypeOK /\ TriesShaped /\ [Next]_vars => SearchInv'
      BY NextSearch
    <2> QED BY <2>1, <2>2, AlwaysMuxInv, TableInsideMux, TableTypeCorrect, TriesKeepShape, PTL DEF Spec
  <1> QED BY <1>1, <1>2, <1>3, <1>4, AlwaysMuxInv, PTL
          DEF Spec, AnswersAsPromised, HttpDispatch!Spec
=============================================================================
