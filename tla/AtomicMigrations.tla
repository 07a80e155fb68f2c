-------------------------- MODULE AtomicMigrations --------------------------
(***************************************************************************)
(* What runs of alembic promise each other, without statements, locks or   *)
(* transactions: a run is a request to take the database from the version  *)
(* it has found to another one.  It takes effect at one moment and in      *)
(* full, at most once, and only if the version is still the one it found   *)
(* (a compare-and-set); or it never does.                                  *)
(***************************************************************************)
CONSTANTS Runners, Targets,
          TablesOf   \* version -> the tables that belong to it

VARIABLES
  version,   \* the committed version
  tables,    \* the committed tables
  asked      \* Runners -> the request under way, as a set of at most one

atomicVars == <<version, tables, asked>>

Init ==
  /\ version = 0
  /\ tables = TablesOf[0]
  /\ asked = [r \in Runners |-> {}]

Ask(r, to) ==
  /\ asked[r] = {} /\ to # version
  /\ asked' = [asked EXCEPT ![r] = {[from |-> version, to |-> to]}]
  /\ UNCHANGED <<version, tables>>

Apply(r) ==
  \E request \in asked[r] :
    /\ version = request.from
    /\ version' = request.to
    /\ tables' = TablesOf[request.to]
    /\ asked' = [asked EXCEPT ![r] = {}]

Drop(r) ==
  /\ asked[r] # {}
  /\ asked' = [asked EXCEPT ![r] = {}]
  /\ UNCHANGED <<version, tables>>

Next ==
  \E r \in Runners :
    \/ \E to \in Targets : Ask(r, to)
    \/ Apply(r)
    \/ Drop(r)

Spec == Init /\ [][Next]_atomicVars
=============================================================================
