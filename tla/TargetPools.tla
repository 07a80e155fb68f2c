----------------------------- MODULE TargetPools -----------------------------
(***************************************************************************)
(* The connection pools to a target that the API keeps for its requests:   *)
(* one cache of adapters for GET /instances/{id}/kpi (api/v1/kpi.py), one  *)
(* of asyncpg pools for POST /tuning/analyze (api/v1/tuning.py).  An entry *)
(* remembers the DSN it was opened with.  Opening and closing are awaited, *)
(* so requests of one instance interleave between looking the cache up and *)
(* writing it.  Entries of different instances never meet: this is one.    *)
(***************************************************************************)
EXTENDS Integers, FiniteSets

CONSTANTS
  PoolRequests,  \* requests; a pool is named for the request that opens it
  MaxRotations   \* bound on the changes of the DSN

ASSUME PoolAssumption == MaxRotations \in Nat

VARIABLES
  dsn,         \* what build_target_dsn makes of the instance's row
  cache,       \* kind -> the pool in the cache, if there is one
  pool,        \* PoolRequests -> the pool it has opened
  request,     \* PoolRequests -> the request
  overlapped   \* history: kinds of which two requests were in the lookup at once

poolVars == <<dsn, cache, pool, request, overlapped>>

CacheKinds == {"kpi", "tuning"}
PoolStates == {"none", "open", "closing", "closed"}
RequestSteps == {"waiting", "loaded", "closing", "opening", "using", "done", "failed"}

PoolInit ==
  /\ dsn = 0
  /\ cache = [k \in CacheKinds |-> {}]
  /\ pool = [r \in PoolRequests |-> [state |-> "none", dsn |-> 0]]
  /\ request = [r \in PoolRequests |-> [pc |-> "waiting", kind |-> "kpi", dsn |-> 0, pool |-> {}]]
  /\ overlapped = {}

Move(r, next) == request' = [request EXCEPT ![r].pc = next]

\* PUT /instances/{id}: another host, user or password.
RotateDsn ==
  /\ dsn < MaxRotations
  /\ dsn' = dsn + 1
  /\ UNCHANGED <<cache, pool, request, overlapped>>

LoadInstance(r, k) ==
  /\ request[r].pc = "waiting"
  /\ request' = [request EXCEPT ![r] = [pc |-> "loaded", kind |-> k, dsn |-> dsn, pool |-> {}]]
  /\ UNCHANGED <<dsn, cache, pool, overlapped>>

\* A cache keyed by the instance alone.
MutFits(r, p) == pool[p].state # "closed"

\* The cached entry may serve: same DSN, and for tuning a pool that is not closed.
Fits(r, p) ==
  /\ pool[p].dsn = request[r].dsn
  /\ request[r].kind = "tuning" => pool[p].state # "closed"

InLookUp(k) == {r \in PoolRequests : request[r].kind = k /\ request[r].pc \in {"closing", "opening"}}

\* The kinds for which one more request in the lookup is one beside another.
Overlap(k) == overlapped \cup (IF InLookUp(k) # {} THEN {k} ELSE {})

UseCached(r) ==
  /\ request[r].pc = "loaded"
  /\ \E p \in cache[request[r].kind] :
       /\ Fits(r, p)
       /\ request' = [request EXCEPT ![r].pc = "using", ![r].pool = {p}]
  /\ UNCHANGED <<dsn, cache, pool, overlapped>>

FindNothing(r) ==
  /\ request[r].pc = "loaded"
  /\ cache[request[r].kind] = {}
  /\ Move(r, "opening")
  /\ overlapped' = Overlap(request[r].kind)
  /\ UNCHANGED <<dsn, cache, pool>>

\* The tuning pool of another DSN is cut off where it is, and its entry deleted.
TerminateOld(r) ==
  /\ request[r].pc = "loaded" /\ request[r].kind = "tuning"
  /\ \E p \in cache["tuning"] :
       /\ ~Fits(r, p)
       /\ pool' = [pool EXCEPT ![p].state = "closed"]
  /\ cache' = [cache EXCEPT !["tuning"] = {}]
  /\ Move(r, "opening")
  /\ overlapped' = Overlap("tuning")
  /\ UNCHANGED dsn

\* An entry that is dropped without a disconnect().
MutBeginClose(r) ==
  /\ request[r].pc = "loaded" /\ request[r].kind = "kpi"
  /\ \E p \in cache["kpi"] : ~Fits(r, p)
  /\ cache' = [cache EXCEPT !["kpi"] = {}]
  /\ Move(r, "opening")
  /\ overlapped' = Overlap("kpi")
  /\ UNCHANGED <<dsn, pool>>

\* The KPI adapter of another DSN: disconnect() waits for its connections.
BeginClose(r) ==
  /\ request[r].pc = "loaded" /\ request[r].kind = "kpi"
  /\ \E p \in cache["kpi"] :
       /\ ~Fits(r, p)
       /\ pool' = [pool EXCEPT ![p].state = IF @ = "open" THEN "closing" ELSE @]
       /\ request' = [request EXCEPT ![r].pc = "closing", ![r].pool = {p}]
  /\ overlapped' = Overlap("kpi")
  /\ UNCHANGED <<dsn, cache>>

Closed(p) == [pool EXCEPT ![p].state = "closed"]

\* disconnect() is done; "del" takes away whatever the entry holds by now.
EndClose(r) ==
  /\ request[r].pc = "closing"
  /\ cache["kpi"] # {}
  /\ \E p \in request[r].pool : pool' = Closed(p)
  /\ cache' = [cache EXCEPT !["kpi"] = {}]
  /\ request' = [request EXCEPT ![r].pc = "opening", ![r].pool = {}]
  /\ UNCHANGED <<dsn, overlapped>>

\* The entry is gone: KeyError, and the answer is an error.
EntryGone(r) ==
  /\ request[r].pc = "closing"
  /\ cache["kpi"] = {}
  /\ \E p \in request[r].pool : pool' = Closed(p)
  /\ request' = [request EXCEPT ![r].pc = "failed", ![r].pool = {}]
  /\ UNCHANGED <<dsn, cache, overlapped>>

\* A pool is opened and cached, over whatever another request has cached.
OpenPool(r) ==
  /\ request[r].pc = "opening"
  /\ pool' = [pool EXCEPT ![r] = [state |-> "open", dsn |-> request[r].dsn]]
  /\ cache' = [cache EXCEPT ![request[r].kind] = {r}]
  /\ request' = [request EXCEPT ![r].pc = "using", ![r].pool = {r}]
  /\ UNCHANGED <<dsn, overlapped>>

\* The target refuses: KPIs go without live values, tuning answers 503.
OpenFails(r) ==
  /\ request[r].pc = "opening"
  /\ Move(r, IF request[r].kind = "kpi" THEN "done" ELSE "failed")
  /\ UNCHANGED <<dsn, cache, pool, overlapped>>

FinishRequest(r) ==
  /\ request[r].pc = "using"
  /\ request' = [request EXCEPT ![r].pc = "done", ![r].pool = {}]
  /\ UNCHANGED <<dsn, cache, pool, overlapped>>

PoolNext ==
  \/ RotateDsn
  \/ \E r \in PoolRequests :
       \/ \E k \in CacheKinds : LoadInstance(r, k)
       \/ UseCached(r)
       \/ FindNothing(r)
       \/ TerminateOld(r)
       \/ BeginClose(r)
       \/ EndClose(r)
       \/ EntryGone(r)
       \/ OpenPool(r)
       \/ OpenFails(r)
       \/ FinishRequest(r)

PoolSpec == PoolInit /\ [][PoolNext]_poolVars

-----------------------------------------------------------------------------
PoolTypeOK ==
  /\ dsn \in 0..MaxRotations
  /\ cache \in [CacheKinds -> {{}} \cup {{r} : r \in PoolRequests}]
  /\ \A r \in PoolRequests :
       /\ pool[r].state \in PoolStates /\ pool[r].dsn \in 0..MaxRotations
       /\ request[r].pc \in RequestSteps /\ request[r].kind \in CacheKinds
       /\ request[r].dsn \in 0..MaxRotations /\ request[r].pool \subseteq PoolRequests
  /\ overlapped \subseteq CacheKinds

\* A request works on the target its own row named, whatever requests with other
\* rows did to the cache since, and two kinds of requests never share a pool.
PoolFitsRequest ==
  \A r \in PoolRequests : request[r].pc = "using" =>
    \A p \in request[r].pool :
      pool[p].dsn = request[r].dsn /\ request[p].kind = request[r].kind

\* A pool nobody will ever close is left behind only where two requests were in
\* the lookup at once: one after the other, they leave one open pool per cache,
\* the one in it.
LeaksNeedOverlap ==
  \A r \in PoolRequests :
    pool[r].state = "open" /\ request[r].kind \notin overlapped =>
      cache[request[r].kind] = {r}

=============================================================================
