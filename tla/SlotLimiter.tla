---------------------------- MODULE SlotLimiter ----------------------------
(***************************************************************************)
(* What the task queue promises about concurrency, without saying how a    *)
(* task is gated, decided or expired: an active task holds a slot of its   *)
(* instance, a slot is taken only while the instance and the system are    *)
(* below their limits, and a task that has given its slot back, or was     *)
(* refused one, never holds a slot again.                                  *)
(***************************************************************************)
EXTENDS FiniteSets, Integers

CONSTANTS Tasks, Instances, PerInstance, Global

VARIABLES
  holding,      \* the slots that are held: [task, inst]
  retired       \* the tasks that will never hold a slot (again)

slotVars == <<holding, retired>>

Holders == { s.task : s \in holding }

SlotsOf(i) == { s \in holding : s.inst = i }

Init == holding = {} /\ retired = {}

Acquire(t, i) ==
  /\ t \notin Holders \cup retired
  /\ Cardinality(SlotsOf(i)) < PerInstance
  /\ Cardinality(holding) < Global
  /\ holding' = holding \cup {[task |-> t, inst |-> i]}
  /\ UNCHANGED retired

\* One task ends or is refused, or several are expired or lost together.
Retire(ts) ==
  /\ ts \cap retired = {}
  /\ holding' = { s \in holding : s.task \notin ts }
  /\ retired' = retired \cup ts

Next ==
  \/ \E t \in Tasks, i \in Instances : Acquire(t, i)
  \/ \E ts \in SUBSET Tasks : Retire(ts)

Spec == Init /\ [][Next]_slotVars
=============================================================================
