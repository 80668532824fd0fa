----------------------------- MODULE ParamsPool -----------------------------
(***************************************************************************)
(* routing.Params objects and the pool that recycles them                  *)
(* (routing/params.go, routing/pool.go).  An object holds captures and,    *)
(* once Map has been asked for, the map it handed out; maps live apart,    *)
(* because a handler may keep one after its object has been recycled.      *)
(* The pool is a sync.Pool: a bag of objects, out of which Get takes any   *)
(* or makes a new one.  What the collector takes out of it is never seen   *)
(* again, which Get allows anyway.                                         *)
(***************************************************************************)
EXTENDS Naturals

CONSTANTS
  Obj,        \* identities of Params objects
  MapId       \* identities of maps

NoMap   == "no map"
Nothing == [n \in {} |-> <<>>]    \* no captures

ASSUME PoolAssumption == NoMap \notin MapId

VARIABLES
  pool,       \* [Obj -> Nat]: how many times the pool holds the object
  content,    \* [Obj -> captures]: names and values
  mmap,       \* [Obj -> map or NoMap]: the cached map view
  mapval      \* [MapId -> captures]: what a map holds

poolVars == <<pool, content, mmap, mapval>>

PoolInit ==
  /\ pool    = [o \in Obj |-> 0]
  /\ content = [o \in Obj |-> Nothing]
  /\ mmap    = [o \in Obj |-> NoMap]
  /\ mapval  = [i \in MapId |-> Nothing]

\* Reset empties the object and drops its map, which stays as it was.
KeepContent(o)  == content[o]
ResetContent(o) == Nothing

ClearInPlace(o) == IF mmap[o] = NoMap THEN mapval ELSE [mapval EXCEPT ![mmap[o]] = Nothing]
ResetMaps(o)    == mapval

\* Captures added to what an object holds.
Added(old, params) ==
  IF old = Nothing THEN params
  ELSE [x \in DOMAIN old \cup DOMAIN params |-> IF x \in DOMAIN params THEN params[x] ELSE old[x]]

\* AcquireParams and the Adds that fill the object.  inUse: the objects that
\* exist outside the pool, none of which Get can make anew.
Acquire(o, params, inUse) ==
  /\ pool[o] > 0 \/ o \notin inUse
  /\ pool'    = [pool EXCEPT ![o] = IF @ > 0 THEN @ - 1 ELSE @]
  /\ content' = [content EXCEPT ![o] = Added(ResetContent(o), params)]
  /\ mmap'    = [mmap EXCEPT ![o] = NoMap]
  /\ mapval'  = ResetMaps(o)

\* ReleaseParams.
Release(o) ==
  /\ pool' = [pool EXCEPT ![o] = @ + 1]
  /\ UNCHANGED <<content, mmap, mapval>>

\* Params.Map: an empty map that is not kept, the cached map, or a new one.
MapOf(o, fresh) == IF mmap[o] # NoMap /\ content[o] # Nothing THEN mmap[o] ELSE fresh

BuildMap(o, fresh) ==
  /\ mapval' = IF MapOf(o, fresh) = fresh THEN [mapval EXCEPT ![fresh] = content[o]] ELSE mapval
  /\ mmap'   = IF content[o] = Nothing THEN mmap ELSE [mmap EXCEPT ![o] = MapOf(o, fresh)]
  /\ UNCHANGED <<pool, content>>
=============================================================================
