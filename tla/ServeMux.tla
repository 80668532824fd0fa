------------------------------ MODULE ServeMux ------------------------------
(***************************************************************************)
(* Requests through a ServeMux (mux.go), over the route table and the      *)
(* Params pool, while routes are still being registered.                   *)
(*                                                                         *)
(* The table is guarded by one sync.RWMutex: Table.Add writes, Match and   *)
(* MatchOther read.  A writer announces itself, waits for the readers      *)
(* inside, and holds back the ones that come later until it has finished.  *)
(* ServeHTTP takes the read lock once for the request's own method, and    *)
(* once more, if nothing matched, for the other methods; between the two   *)
(* the table may change.  registerHandler gives every route a matcher.     *)
(***************************************************************************)
EXTENDS RouteTable, ParamsPool

CONSTANTS
  Request,        \* requests, one goroutine each
  Kind,           \* what they ask: [path, method, form, wellFormed, override]
  Registration,   \* what may be registered: pairs <<method, route>>
  Direct,         \* routes registered with HandleRoute: handlers of *Params
  LengthFallback, \* ~disablePathLengthFallback
  NoObj           \* no Params object

POST == "POST"
GET  == "GET"
NoMethod == "no method"

NoWriter == <<>>

ASSUME ServeMuxAssumption ==
  /\ {POST, GET} \subseteq Method
  /\ NoMethod \notin Method
  /\ \A k \in Kind :
       /\ k.path \in Path \cup {NoPath}       \* NoPath: no leading slash
       /\ k.method \in Method
       /\ k.form \in BOOLEAN                  \* a form content type
       /\ k.wellFormed \in BOOLEAN            \* ParseForm accepts it
       /\ k.override \in Method \cup {NoMethod}
  /\ Registration \subseteq Method \X Route
  /\ \A r \in Route : HasMatch(r)
  /\ Direct \subseteq Route
  /\ LengthFallback \in BOOLEAN
  /\ NoObj \notin Obj
  /\ MapId = Request                          \* a request builds one map at most

VARIABLES
  writer,   \* the registration that announced itself, or NoWriter
  call,     \* [Request -> where its goroutine is and what it has found]
  scratch,  \* [Request -> the Params the trie search fills, or NoObj]
  held,     \* [Request -> Match.Params, or NoObj]
  view,     \* [Request -> the map its handler got, or NoMap]
  seen      \* history: [Request -> the registrations before it arrived]

callVars == <<call, scratch, held, view, seen>>
vars == <<tableVars, poolVars, writer, callVars>>

Registrations == {added[i] : i \in DOMAIN added}

Answer(status, route, params) == [status |-> status, route |-> route, params |-> params]
Plainly(status)       == Answer(status, NoRoute, NoParams)
Served(route, params) == Answer("served", route, params)

Pending     == Plainly("pending")
BadPath     == Plainly("400")
InvalidForm == Plainly("invalid form")
Malformed400 == Plainly("malformed")
NotAllowed  == Plainly("405")
Unknown     == Plainly("404")
Aborted     == Plainly("aborted")     \* the goroutine panicked

AnyKind == [path |-> NoPath, method |-> POST, form |-> FALSE, wellFormed |-> TRUE,
            override |-> NoMethod]

\* phase: looking up the request's own method or the others; left: methods
\* still to be searched; cur: the one being searched; hit: the trie's answer.
Idle == [pc |-> "idle", kind |-> AnyKind, method |-> NoMethod, phase |-> "own", left |-> {},
         cur |-> NoMethod, hit |-> Miss(<<>>), result |-> NotFound, answer |-> Pending]

Init ==
  /\ TableInit /\ PoolInit
  /\ writer  = NoWriter
  /\ call    = [q \in Request |-> Idle]
  /\ scratch = [q \in Request |-> NoObj]
  /\ held    = [q \in Request |-> NoObj]
  /\ view    = [q \in Request |-> NoMap]
  /\ seen    = [q \in Request |-> {}]

\* The goroutine of q goes on as c says.
Move(q, c) == call' = [call EXCEPT ![q] = c]

-----------------------------------------------------------------------------
(* The lock.                                                               *)

\* Where a goroutine has the read lock: Match and MatchOther defer its release.
InsideIndexes == {"range", "search", "verify", "drop", "unlock"}  \* not for the list
Inside        == {"range", "search", "verify", "drop", "scan", "unlock"}

Readers   == {q \in Request : call[q].pc \in Inside}
NoReaders == Readers = {}

\* A granted reader starts over the methods it has to search.
Granted(c, registered) ==
  [c EXCEPT !.pc = "range",
            !.left = IF c.phase = "own" THEN {c.method} ELSE registered \ {c.method}]

Woken(c, registered) == IF c.pc = "blocked" THEN Granted(c, registered) ELSE c

Announce(reg) ==
  /\ writer = NoWriter
  /\ Len(added) < MaxRoutes
  /\ writer' = reg
  /\ UNCHANGED <<tableVars, poolVars, callVars>>

\* The writer's critical section; Unlock lets in every reader held back.
AddLocked ==
  /\ writer # NoWriter
  /\ NoReaders
  /\ Add(writer[1], writer[2])
  /\ writer' = NoWriter
  /\ call' = [q \in Request |-> Woken(call[q], methods')]
  /\ UNCHANGED <<poolVars, scratch, held, view, seen>>

RLock(q) ==
  /\ call[q].pc = "lock"
  /\ Move(q, IF writer = NoWriter THEN Granted(call[q], methods)
                                  ELSE [call[q] EXCEPT !.pc = "blocked"])
  /\ UNCHANGED <<tableVars, poolVars, writer, scratch, held, view, seen>>

RUnlockOnSuccess(q) ==           \* not deferred: a miss keeps the lock
  /\ call[q].pc = "unlock" /\ call[q].result.tag # "no"
  /\ Move(q, [call[q] EXCEPT !.pc = "dispatch"])
  /\ UNCHANGED <<tableVars, poolVars, writer, scratch, held, view, seen>>

RUnlock(q) ==
  /\ call[q].pc = "unlock"
  /\ Move(q, [call[q] EXCEPT !.pc = "dispatch"])
  /\ UNCHANGED <<tableVars, poolVars, writer, scratch, held, view, seen>>

-----------------------------------------------------------------------------
(* A request arrives: ServeHTTP up to the first lookup.                    *)

\* isPathLengthFallback, on the method the request has by then.
IsFormPost(k, method) == LengthFallback /\ method = POST /\ k.form

Overrides(k) == k.override # NoMethod /\ IsFormPost(k, k.method)

AnyForm(k)         == IF IsFormPost(k, k.method) THEN k.override ELSE k.method
EffectiveMethod(k) == IF Overrides(k) THEN k.override ELSE k.method

Arrive(q) ==
  /\ call[q].pc = "idle"
  /\ \E k \in Kind :
       LET rejected == IF k.path = NoPath THEN BadPath
                       ELSE IF Overrides(k) /\ ~k.wellFormed THEN InvalidForm
                       ELSE Pending
       IN  Move(q, [Idle EXCEPT !.kind = k, !.answer = rejected, !.method = EffectiveMethod(k),
                                !.pc = IF rejected = Pending THEN "lock" ELSE "done"])
  /\ seen' = [seen EXCEPT ![q] = Registrations]
  /\ UNCHANGED <<tableVars, poolVars, writer, scratch, held, view>>

-----------------------------------------------------------------------------
(* A lookup: Table.matchInternal for every method left, step by step, with *)
(* the Params objects it takes from the pool and gives back.               *)

InUse == {scratch[q] : q \in Request} \cup {held[q] : q \in Request}

PathOf(q) == call[q].kind.path

Conclude(q, pc, result) == Move(q, [call[q] EXCEPT !.pc = pc, !.result = result])

TakeScratch(q, o) == scratch' = [scratch EXCEPT ![q] = o] /\ UNCHANGED held
TakeHeld(q, o)    == held' = [held EXCEPT ![q] = o] /\ UNCHANGED scratch

DropScratch(q)   == Release(scratch[q]) /\ scratch' = [scratch EXCEPT ![q] = NoObj]

\* No method left: a miss.  Otherwise any of those left comes next.
NextMethod(q) ==
  /\ call[q].pc = "range"
  /\ IF call[q].left = {} THEN Conclude(q, "unlock", NotFound)
     ELSE \E m \in call[q].left :
            Move(q, [call[q] EXCEPT !.pc = "search", !.cur = m, !.left = @ \ {m}])
  /\ UNCHANGED <<tableVars, poolVars, writer, scratch, held, view, seen>>

StaticHit(q) ==
  LET r == static[call[q].cur][PathOf(q)]
  IN  /\ call[q].pc = "search"
      /\ PathOf(q) \in DOMAIN static[call[q].cur]
      /\ \E o \in Obj : Acquire(o, NoParams, InUse) /\ TakeHeld(q, o)
      /\ Conclude(q, "unlock", Found(r, NoParams))
      /\ UNCHANGED <<tableVars, writer, view, seen>>

NoTrie(q) ==
  /\ call[q].pc = "search"
  /\ PathOf(q) \notin DOMAIN static[call[q].cur]
  /\ tries[call[q].cur] = EmptyTrie
  /\ Move(q, [call[q] EXCEPT !.pc = "scan"])
  /\ UNCHANGED <<tableVars, poolVars, writer, scratch, held, view, seen>>

SearchTrie(q) ==
  LET hit == TrieLookup(tries[call[q].cur], TrieParts(PathOf(q)), TrieVerb(PathOf(q)))
  IN  /\ call[q].pc = "search"
      /\ PathOf(q) \notin DOMAIN static[call[q].cur]
      /\ tries[call[q].cur] # EmptyTrie
      /\ \E o \in Obj : Acquire(o, ParamsOf(hit.buf), InUse) /\ TakeScratch(q, o)
      /\ Move(q, [call[q] EXCEPT !.pc = "verify", !.hit = hit])
      /\ UNCHANGED <<tableVars, writer, view, seen>>

\* Nothing found, or found and declined by its own matcher: the scratch
\* object goes back and the linear list is next.
GoToScan(q) ==
  LET hit == call[q].hit
  IN  /\ call[q].pc = "verify"
      /\ \/ hit.route = NoRoute
         \/ hit.route # NoRoute /\ Matcher[hit.route][PathOf(q)].tag = "no"
      /\ DropScratch(q)
      /\ Move(q, [call[q] EXCEPT !.pc = "scan"])
      /\ UNCHANGED <<tableVars, writer, held, view, seen>>

\* The matcher accepts, and fills an object of its own.
LeafConfirmed(q) ==
  LET r == call[q].hit.route
  IN  /\ call[q].pc = "verify"
      /\ r # NoRoute /\ Matcher[r][PathOf(q)].tag = "ok"
      /\ \E o \in Obj : Acquire(o, Matcher[r][PathOf(q)].params, InUse) /\ TakeHeld(q, o)
      /\ Conclude(q, "drop", Found(r, Matcher[r][PathOf(q)].params))
      /\ UNCHANGED <<tableVars, writer, view, seen>>

LeafFails(q) ==
  LET r == call[q].hit.route
      verdict == Matcher[r][PathOf(q)]
  IN  /\ call[q].pc = "verify"
      /\ r # NoRoute /\ verdict.tag = "err"
      /\ DropScratch(q)
      /\ Conclude(q, "unlock", Failed(verdict.tag))
      /\ UNCHANGED <<tableVars, writer, held, view, seen>>

\* A panicking matcher leaves the lookup, and its object, behind.
LeafPanics(q) ==
  LET r == call[q].hit.route
      verdict == Matcher[r][PathOf(q)]
  IN  /\ call[q].pc = "verify"
      /\ r # NoRoute /\ verdict.tag = "panic"
      /\ Conclude(q, "unlock", Failed(verdict.tag))
      /\ UNCHANGED <<tableVars, poolVars, writer, scratch, held, view, seen>>

DropTrieParams(q) ==
  /\ call[q].pc = "drop"
  /\ DropScratch(q)
  /\ Move(q, [call[q] EXCEPT !.pc = "unlock"])
  /\ UNCHANGED <<tableVars, writer, held, view, seen>>

ScanList(q) ==
  LET found == MatchFallback(fallback[call[q].cur], PathOf(q))
  IN  /\ call[q].pc = "scan"
      /\ \/ /\ found.tag = "ok"
            /\ \E o \in Obj : Acquire(o, found.params, InUse) /\ TakeHeld(q, o)
            /\ Conclude(q, "unlock", found)
         \/ /\ found.tag = "no"
            /\ Move(q, [call[q] EXCEPT !.pc = "range"])
            /\ UNCHANGED <<poolVars, scratch, held>>
         \/ /\ found.tag \in {"err", "panic"}
            /\ Conclude(q, "unlock", found)
            /\ UNCHANGED <<poolVars, scratch, held>>
      /\ UNCHANGED <<tableVars, writer, view, seen>>

-----------------------------------------------------------------------------
(* What ServeHTTP does with the result.                                    *)

GiveAnswer(q, pc, answer) == Move(q, [call[q] EXCEPT !.pc = pc, !.answer = answer])

\* handleHandler: a handler of a map gets one built from its Params.
Invoke(q) ==
  LET res == call[q].result
  IN  /\ GiveAnswer(q, "running", Served(res.route, res.params))
      /\ IF res.route \in Direct THEN UNCHANGED <<poolVars, view>>
         ELSE BuildMap(held[q], q) /\ view' = [view EXCEPT ![q] = MapOf(held[q], q)]

\* A lookup that failed is the answer; a panic unwinds to the server.
DispatchFailure(q) ==
  LET tag == call[q].result.tag
  IN  /\ call[q].pc = "dispatch"
      /\ tag \in {"err", "panic"}
      /\ IF tag = "err" THEN GiveAnswer(q, "done", Malformed400)
                        ELSE GiveAnswer(q, "panicked", Aborted)
      /\ UNCHANGED <<tableVars, poolVars, writer, scratch, held, view, seen>>

DispatchOwn(q) ==
  /\ call[q].pc = "dispatch"
  /\ call[q].phase = "own" /\ call[q].result.tag = "ok"
  /\ Invoke(q)
  /\ UNCHANGED <<tableVars, writer, scratch, held, seen>>

\* Nothing under the request's own method: ask the others.
LookElsewhere(q) ==
  /\ call[q].pc = "dispatch"
  /\ call[q].phase = "own" /\ call[q].result.tag = "no"
  /\ Move(q, [call[q] EXCEPT !.pc = "lock", !.phase = "other"])
  /\ UNCHANGED <<tableVars, poolVars, writer, scratch, held, view, seen>>

AnyMethod(m)  == TRUE
IsReadOnly(m) == m = GET

\* The match of a refused request is released too.
StraightToTheEnd == "done"
AfterRefusal     == "release"

\* A match under another method: a form POST may run a GET handler, anything
\* else is not allowed.
DispatchOther(q) ==
  LET c == call[q]
      falls == IsFormPost(c.kind, c.method) /\ IsReadOnly(c.cur)
  IN  /\ c.pc = "dispatch" /\ c.phase = "other" /\ c.result.tag = "ok"
      /\ \/ /\ falls /\ c.kind.wellFormed
            /\ Invoke(q)
         \/ /\ ~(falls /\ c.kind.wellFormed)
            /\ GiveAnswer(q, AfterRefusal, IF falls THEN InvalidForm ELSE NotAllowed)
            /\ UNCHANGED <<poolVars, view>>
      /\ UNCHANGED <<tableVars, writer, scratch, held, seen>>

DispatchUnknown(q) ==
  /\ call[q].pc = "dispatch" /\ call[q].phase = "other" /\ call[q].result.tag = "no"
  /\ GiveAnswer(q, "done", Unknown)
  /\ UNCHANGED <<tableVars, poolVars, writer, scratch, held, view, seen>>

\* A handler of *Params may still ask it for its map.
AskForMap(q) ==
  /\ call[q].pc = "running"
  /\ view[q] = NoMap
  /\ BuildMap(held[q], q)
  /\ view' = [view EXCEPT ![q] = MapOf(held[q], q)]
  /\ UNCHANGED <<tableVars, writer, call, scratch, held, seen>>

\* The handler returns, or panics past Match.Release.
HandlerReturns(q) ==
  /\ call[q].pc = "running"
  /\ Move(q, [call[q] EXCEPT !.pc = "release"])
  /\ UNCHANGED <<tableVars, poolVars, writer, scratch, held, view, seen>>

HandlerPanics(q) ==
  /\ call[q].pc = "running"
  /\ Move(q, [call[q] EXCEPT !.pc = "panicked"])
  /\ UNCHANGED <<tableVars, poolVars, writer, scratch, held, view, seen>>

KeepReference(q) == UNCHANGED held
ForgetParams(q)  == held' = [held EXCEPT ![q] = NoObj]

ReleaseMatch(q) ==
  /\ call[q].pc = "release"
  /\ Release(held[q])
  /\ ForgetParams(q)
  /\ Move(q, [call[q] EXCEPT !.pc = "done"])
  /\ UNCHANGED <<tableVars, writer, scratch, view, seen>>

-----------------------------------------------------------------------------
Lookup(q) ==
  \/ RLock(q) \/ NextMethod(q) \/ StaticHit(q) \/ NoTrie(q) \/ SearchTrie(q)
  \/ GoToScan(q) \/ LeafConfirmed(q) \/ LeafFails(q) \/ LeafPanics(q)
  \/ DropTrieParams(q) \/ ScanList(q) \/ RUnlock(q)

Dispatch(q) ==
  \/ DispatchFailure(q) \/ DispatchOwn(q) \/ LookElsewhere(q) \/ DispatchOther(q)
  \/ DispatchUnknown(q) \/ ReleaseMatch(q)

Handler(q) == HandlerReturns(q) \/ HandlerPanics(q)

Register == \E reg \in Registration : Announce(reg)

Next ==
  \/ Register \/ AddLocked
  \/ \E q \in Request : Arrive(q) \/ Lookup(q) \/ Dispatch(q) \/ Handler(q) \/ AskForMap(q)

Spec == Init /\ [][Next]_vars

\* Goroutines are scheduled, handlers return or panic, a writer that can have
\* the lock gets it.  Nobody has to register a route or to send a request.
Fairness ==
  /\ WF_vars(AddLocked)
  /\ \A q \in Request : WF_vars(Lookup(q) \/ Dispatch(q) \/ Handler(q))

FairSpec == Spec /\ Fairness

-----------------------------------------------------------------------------
(* Properties.                                                             *)

PC == {"idle", "lock", "blocked", "dispatch", "running", "release", "done", "panicked"} \cup Inside

CallTypeOK(c) ==
  /\ c.pc \in PC /\ c.phase \in {"own", "other"}
  /\ c.kind \in Kind \cup {AnyKind}
  /\ c.method \in Method \cup {NoMethod} /\ c.cur \in Method \cup {NoMethod}
  /\ c.left \subseteq Method
  /\ c.pc # "idle" => c.method \in Method
  /\ c.pc \in {"search", "verify", "drop", "scan"} => c.cur \in Method

\* A goroutine is somewhere in ServeHTTP, with methods, objects and a map
\* that exist; whoever writes has announced a registration.
MuxTypeOK ==
  /\ writer = NoWriter \/ writer \in Registration
  /\ methods \subseteq Method
  /\ DOMAIN call = Request /\ \A q \in Request : CallTypeOK(call[q])
  /\ scratch \in [Request -> Obj \cup {NoObj}]
  /\ held \in [Request -> Obj \cup {NoObj}]
  /\ view \in [Request -> MapId \cup {NoMap}]
  /\ pool \in [Obj -> Nat]

\* A Params object has one owner: it is in the pool, once, or filled by one
\* trie search, or the Params of one match.  A second Release of the same
\* object anywhere between Match and ServeHTTP would break it
\* (routing/pool.go, Match.Release).
ParamsOwned ==
  /\ \A o \in Obj : pool[o] <= 1 /\ (pool[o] = 1 => o \notin InUse)
  /\ \A p, q \in Request :
       /\ scratch[p] # NoObj => scratch[p] # held[q]
       /\ p # q /\ scratch[p] # NoObj => scratch[p] # scratch[q]
       /\ p # q /\ held[p] # NoObj => held[p] # held[q]

\* Every object taken for a request is given back by the time the request is
\* over or waits for the lock, unless something panicked, on each of the
\* refusal, error and fallback paths (mux.go:428-467).
NothingKept ==
  \A q \in Request :
    /\ call[q].pc \in {"idle", "lock", "blocked", "range", "search", "scan", "done"} =>
         scratch[q] = NoObj /\ held[q] = NoObj
    /\ call[q].pc \in {"unlock", "dispatch", "running", "release"}
         /\ call[q].result.tag # "panic" => scratch[q] = NoObj

\* While a handler runs, its *Params hold the captures of its own request,
\* although the objects are recycled among requests all the time.
HandlerSeesOwnParams ==
  \A q \in Request :
    call[q].pc = "running" => content[held[q]] = call[q].result.params

\* The map a handler was given keeps its captures for good: a handler may
\* hand it to a goroutine that outlives the request and the recycling of the
\* Params it came from (Params.Map, Params.Reset).
KeptMapStable ==
  \A q \in Request : view[q] # NoMap => mapval[view[q]] = call[q].result.params

\* A lookup, however its steps interleave with registrations and with other
\* lookups, returns what the table gives in one instant (Table.Match,
\* Table.MatchOther under the read lock).
LookupIsAtomic ==
  \A q \in Request :
    LET c == call[q]
    IN  c.pc = "unlock" =>
          IF c.phase = "own" THEN c.result = MatchInternal(c.method, PathOf(q))
          ELSE [method |-> IF c.result.tag = "no" THEN c.method ELSE c.cur, result |-> c.result]
                 \in MatchOtherResults(c.method, PathOf(q))

(***************************************************************************)
(* The abstract specification: what the routes, as a set, allow to answer. *)
(***************************************************************************)
Serving(regs, m, p) ==
  LET of == {reg[2] : reg \in {g \in regs : g[1] = m}}
  IN  {Served(r, NoParams) : r \in {s \in of : Static(s) = p}}
        \cup {Served(r, Matcher[r][p].params) : r \in {s \in of : Matcher[s][p].tag = "ok"}}

Failing(regs, m, p, tag) == \E reg \in regs : reg[1] = m /\ Matcher[reg[2]][p].tag = tag

\* What a lookup of the path in several methods may be answered with when it
\* succeeds is said by each caller; when it fails:
Failures(regs, ms, p) ==
  {a \in {Malformed400, Aborted} :
     \E m \in ms : Failing(regs, m, p, IF a = Aborted THEN "panic" ELSE "err")}

Elsewhere(k, m, now) ==
  LET falls   == IsFormPost(k, m)
      refusing == {x \in Method \ {m} : ~falls \/ x # GET}
  IN  (IF \E x \in refusing : Serving(now, x, k.path) # {} THEN {NotAllowed} ELSE {})
      \cup (IF falls /\ m # GET
            THEN IF k.wellFormed THEN Serving(now, GET, k.path)
                 ELSE IF Serving(now, GET, k.path) # {} THEN {InvalidForm} ELSE {}
            ELSE {})
      \cup Failures(now, Method \ {m}, k.path)

AllowedAnswers(k, before, now) ==
  LET m == EffectiveMethod(k)
  IN  IF k.path = NoPath THEN {BadPath}
      ELSE IF Overrides(k) /\ ~k.wellFormed THEN {InvalidForm}
      ELSE Serving(now, m, k.path) \cup Failures(now, {m}, k.path)
           \cup (IF Serving(before, m, k.path) = {} THEN Elsewhere(k, m, now) ELSE {})
           \cup (IF \A x \in Method : Serving(before, x, k.path) = {} THEN {Unknown} ELSE {})

HttpDispatch == INSTANCE HttpDispatch WITH
  Answers    <- AllowedAnswers,
  registered <- Registrations,
  asked      <- [q \in Request |-> IF call[q].pc = "idle" THEN {} ELSE {call[q].kind}],
  before     <- seen,
  answer     <- [q \in Request |-> IF call[q].answer = Pending THEN {} ELSE {call[q].answer}]

\* The mux implements HttpDispatch: every request gets one answer, and one
\* that the routes registered by then allow: a registered route that accepts
\* the path, run with its own captures; 405, a GET in place of a form POST,
\* or 404 only if no route known on arrival should have been preferred.
AnswersAsPromised == HttpDispatch!Spec

\* Every request comes to an end, however registrations and lookups compete
\* for the lock: readers held back by a writer are let in after it.
EveryRequestEnds ==
  \A q \in Request : call[q].pc = "lock" ~> call[q].pc \in {"done", "panicked"}

\* A registration goes through although lookups keep coming, and although
\* some of them fail: every reader gives the lock back.
RegistrationEnds == writer # NoWriter ~> writer = NoWriter

\* "Always allow falling back to POST; only POST -> GET is considered"
\* (mux.go:451-452): a form POST whose path a GET route accepts, and no POST
\* route, runs that route.
FormPostReachesGet ==
  \A q \in Request :
    call[q].answer = NotAllowed /\ IsFormPost(call[q].kind, call[q].method) =>
      Serving(seen[q], GET, call[q].kind.path) = {}
=============================================================================
