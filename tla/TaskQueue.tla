----------------------------- MODULE TaskQueue -----------------------------
(***************************************************************************)
(* The queue of playbook tasks (services/task_queue.py behind              *)
(* api/v1/tasks.py): tasks are created through the autonomy gate, decided  *)
(* by a human and counted against two limits.                              *)
(*                                                                         *)
(* The store is a dictionary of one process and every function of the      *)
(* service runs without awaiting, so each is one action.  Creating a task  *)
(* takes two: the handler first awaits the level of the instance, and only *)
(* then calls create_task with the level it read.  A task carries the name *)
(* of the request that creates it (the identifier is a fresh UUID).        *)
(* Time is counted in units of which ApprovalTimeout make thirty minutes.  *)
(***************************************************************************)
EXTENDS FiniteSets, Integers

CONSTANTS
  Tasks, Instances,
  MaxConcurrentPerInstance, MaxConcurrentGlobal,
  ApprovalTimeout,
  ChosenLevels,     \* the autonomy levels an administrator may set
  Horizon           \* bound on the clock

ASSUME TasksAssumption == IsFiniteSet(Tasks)
ASSUME LimitsAssumption ==
  MaxConcurrentPerInstance \in Nat /\ MaxConcurrentGlobal \in Nat
ASSUME TimesAssumption == ApprovalTimeout \in Nat /\ Horizon \in Nat
ASSUME ChosenLevelsAssumption == ChosenLevels \subseteq 0..4

VARIABLES
  autonomy,     \* Instances -> db_instances.autonomy_level
  handler,      \* Tasks -> the step of POST /tasks that creates it
  target,       \* Tasks -> the instance it is asked for
  gate,         \* Tasks -> the autonomy level its handler has read
  status,       \* Tasks -> status in the store, "absent" if it is not there
  created,      \* Tasks -> created_at
  now

vars == <<autonomy, handler, target, gate, status, created, now>>

ActiveStatuses == {"queued", "pending_approval", "approved", "running"}
TaskStatus == ActiveStatuses \cup
  {"rejected", "cancelled", "completed", "failed", "rolled_back", "escalated"}

Stored == { t \in Tasks : status[t] # "absent" }
Active == { t \in Tasks : status[t] \in ActiveStatuses }
ActiveOn(i) == { t \in Active : target[t] = i }

HandlerSteps == {"idle", "looked_up", "answered", "lost"}

Init ==
  /\ autonomy \in [Instances -> ChosenLevels]
  /\ handler = [t \in Tasks |-> "idle"]
  /\ target \in [Tasks -> Instances]
  /\ gate = [t \in Tasks |-> 0]
  /\ status = [t \in Tasks |-> "absent"]
  /\ created = [t \in Tasks |-> 0]
  /\ now = 0

-----------------------------------------------------------------------------
\* An administrator changes the autonomy level of an instance.
SetAutonomy(i) ==
  /\ \E l \in ChosenLevels \ {autonomy[i]} : autonomy' = [autonomy EXCEPT ![i] = l]
  /\ UNCHANGED <<handler, target, gate, status, created, now>>

Tick ==
  /\ now < Horizon
  /\ now' = now + 1
  /\ UNCHANGED <<autonomy, handler, target, gate, status, created>>

-----------------------------------------------------------------------------
\* The level is read in a session of its own; a failure of that read is only
\* logged and leaves the default, 0.
Lookup(t) ==
  /\ handler[t] = "idle"
  /\ handler' = [handler EXCEPT ![t] = "looked_up"]
  /\ \E l \in {autonomy[target[t]], 0} : gate' = [gate EXCEPT ![t] = l]
  /\ UNCHANGED <<autonomy, target, status, created, now>>

\* A check that tests the limits with > .
MutCheckConcurrency(i) ==
  /\ Cardinality(ActiveOn(i)) <= MaxConcurrentPerInstance
  /\ Cardinality(Active) <= MaxConcurrentGlobal

\* A check that takes only running tasks for active ones.
MutCheckRunning(i) ==
  LET running == { t \in Tasks : status[t] = "running" } IN
  /\ Cardinality({ t \in running : target[t] = i }) < MaxConcurrentPerInstance
  /\ Cardinality(running) < MaxConcurrentGlobal

CheckConcurrency(i) ==
  /\ Cardinality(ActiveOn(i)) < MaxConcurrentPerInstance
  /\ Cardinality(Active) < MaxConcurrentGlobal

\* A gate that runs at L2 what only L3 may run.
MutInitialStatus(level) ==
  IF level = 0 THEN "rejected" ELSE IF level >= 2 THEN "running" ELSE "pending_approval"

\* The status of the gate: L0 refuses, L1 and L2 wait for a human, L3 and L4
\* go straight to running.
InitialStatus(level) ==
  IF level = 0 THEN "rejected" ELSE IF level >= 3 THEN "running" ELSE "pending_approval"

\* create_task, and the answer of the handler: 409 and no task if a limit is
\* reached.  The limits are tested first, for a task the gate will refuse too.
Create(t) ==
  /\ handler[t] = "looked_up"
  /\ handler' = [handler EXCEPT ![t] = "answered"]
  /\ IF CheckConcurrency(target[t])
     THEN /\ status' = [status EXCEPT ![t] = InitialStatus(gate[t])]
          /\ created' = [created EXCEPT ![t] = now]
     ELSE UNCHANGED <<status, created>>
  /\ UNCHANGED <<autonomy, target, gate, now>>

\* An approval of whatever has not been refused.
MutApprove(t) ==
  /\ status[t] \in TaskStatus \ {"rejected"}
  /\ status' = [status EXCEPT ![t] = "completed"]
  /\ UNCHANGED <<autonomy, handler, target, gate, created, now>>

\* approve_task runs the playbook within the call: the task is approved,
\* running and completed before anyone else can look.
Approve(t) ==
  /\ status[t] = "pending_approval"
  /\ status' = [status EXCEPT ![t] = "completed"]
  /\ UNCHANGED <<autonomy, handler, target, gate, created, now>>

Reject(t) ==
  /\ status[t] = "pending_approval"
  /\ status' = [status EXCEPT ![t] = "rejected"]
  /\ UNCHANGED <<autonomy, handler, target, gate, created, now>>

Cancel(t) ==
  /\ status[t] \in {"queued", "pending_approval"}
  /\ status' = [status EXCEPT ![t] = "cancelled"]
  /\ UNCHANGED <<autonomy, handler, target, gate, created, now>>

Stale == { t \in Tasks :
             status[t] = "pending_approval" /\ created[t] < now - ApprovalTimeout }

\* An expiry that marks the tasks with a status of its own.
MutExpireStaleTasks ==
  /\ Stale # {}
  /\ status' = [t \in Tasks |-> IF t \in Stale THEN "expired" ELSE status[t]]
  /\ UNCHANGED <<autonomy, handler, target, gate, created, now>>

\* expire_stale_tasks, one pass over the store (a pass that finds nothing
\* changes nothing).
ExpireStaleTasks ==
  /\ Stale # {}
  /\ status' = [t \in Tasks |-> IF t \in Stale THEN "cancelled" ELSE status[t]]
  /\ UNCHANGED <<autonomy, handler, target, gate, created, now>>

\* The API process restarts: the store and the handlers in it are gone.
Restart ==
  /\ \E t \in Tasks : handler[t] \in {"looked_up", "answered"}
  /\ handler' = [t \in Tasks |-> IF handler[t] = "idle" THEN "idle" ELSE "lost"]
  /\ status' = [t \in Tasks |-> "absent"]
  /\ UNCHANGED <<autonomy, target, gate, created, now>>

-----------------------------------------------------------------------------
Decide(t) == Approve(t) \/ Reject(t) \/ Cancel(t)

Next ==
  \/ \E i \in Instances : SetAutonomy(i)
  \/ Tick
  \/ \E t \in Tasks : Lookup(t) \/ Create(t) \/ Decide(t)
  \/ ExpireStaleTasks
  \/ Restart

Spec == Init /\ [][Next]_vars

\* The clock runs and a handler that has started answers.  Nothing else is
\* bound to happen: a human may stay away, the process may keep running, and
\* no scheduler of the repository calls expire_stale_tasks.
Fairness ==
  /\ WF_vars(Tick)
  /\ \A t \in Tasks : WF_vars(Create(t))

FairSpec == Spec /\ Fairness

-----------------------------------------------------------------------------
TypeOK ==
  /\ autonomy \in [Instances -> 0..4]
  /\ handler \in [Tasks -> HandlerSteps]
  /\ target \in [Tasks -> Instances]
  /\ gate \in [Tasks -> 0..4]
  /\ status \in [Tasks -> TaskStatus \cup {"absent"}]
  /\ created \in [Tasks -> 0..Horizon]
  /\ now \in 0..Horizon

\* A task is in the store only if the handler that created it has answered,
\* so the level a stored task was gated at no longer changes.
StoredIsAnswered == \A t \in Stored : handler[t] = "answered"

\* At any moment an instance has at most MaxConcurrentPerInstance active
\* tasks and the system at most MaxConcurrentGlobal, whatever requests,
\* decisions and expiries interleave.
SlotLimits ==
  /\ Cardinality(Active) <= MaxConcurrentGlobal
  /\ \A i \in Instances : Cardinality(ActiveOn(i)) <= MaxConcurrentPerInstance

\* A task that runs without a human was gated at L3 or L4, one that waits or
\* has completed was gated at L1 or L2, and a task gated at L0 (which is also
\* what a failed lookup leaves) is never anything but rejected.
StatusFitsGate ==
  \A t \in Stored :
     /\ status[t] = "running" => gate[t] \in {3, 4}
     /\ status[t] \in {"queued", "pending_approval", "completed", "cancelled"} => gate[t] \in {1, 2}
     /\ gate[t] = 0 => status[t] = "rejected"

\* The first decision on a task stands: a task that was rejected, cancelled
\* or completed keeps that status, whichever of two approvals, a cancellation
\* and an expiry comes second; only a restart forgets it.
DecisionStands ==
  [][ \A t \in Stored \ Active : status'[t] = status[t] \/ handler'[t] = "lost" ]_vars

\* The queue implements the slot limiter: active tasks hold slots; tasks that
\* ended, were refused or were lost hold none again.
Slots == INSTANCE SlotLimiter WITH
  PerInstance <- MaxConcurrentPerInstance,
  Global      <- MaxConcurrentGlobal,
  holding     <- { [task |-> t, inst |-> target[t]] : t \in Active },
  retired     <- { t \in Tasks : handler[t] \in {"answered", "lost"} } \ Active

ImplementsSlots == Slots!Spec

-----------------------------------------------------------------------------
\* A slot that is taken is given back: the documented state machine leads a
\* running task to completed, failed or rolled_back, and a task that waits
\* too long is cancelled.
SlotEventuallyFreed == \A t \in Tasks : status[t] \in ActiveStatuses ~> status[t] \notin ActiveStatuses
=============================================================================
