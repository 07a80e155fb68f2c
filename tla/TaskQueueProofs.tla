-------------------------- MODULE TaskQueueProofs --------------------------
(***************************************************************************)
(* Machine-checked proofs about TaskQueue, for every finite set of tasks,  *)
(* every set of instances and every value of the limits.                   *)
(***************************************************************************)
EXTENDS TaskQueue, FiniteSetTheorems, TLAPS

-----------------------------------------------------------------------------
\* The gate answers with a status of the store; only L1 and L2 wait, and only
\* L3 and L4 run.
LEMMA InitialStatusFits ==
  ASSUME NEW level \in 0..4
  PROVE  /\ InitialStatus(level) \in {"rejected", "running", "pending_approval"}
         /\ InitialStatus(level) = "running" <=> level \in {3, 4}
         /\ InitialStatus(level) = "pending_approval" <=> level \in {1, 2}
BY DEF InitialStatus

\* Every variable keeps its type.
THEOREM TypeInvariant == Spec => []TypeOK
<1>1. Init => TypeOK
  <2> SUFFICES ASSUME Init PROVE TypeOK
    OBVIOUS
  <2>1. autonomy \in [Instances -> 0..4]
    BY ChosenLevelsAssumption DEF Init
  <2>2. created \in [Tasks -> 0..Horizon] /\ now \in 0..Horizon
    BY TimesAssumption DEF Init
  <2> QED
    BY <2>1, <2>2 DEF Init, TypeOK, HandlerSteps
<1>2. TypeOK /\ [Next]_vars => TypeOK'
  <2> SUFFICES ASSUME TypeOK, [Next]_vars PROVE TypeOK'
    OBVIOUS
  <2> USE DEF TypeOK
  <2>1. ASSUME NEW i \in Instances, SetAutonomy(i) PROVE TypeOK'
    BY <2>1, ChosenLevelsAssumption DEF SetAutonomy
  <2>2. CASE Tick
    BY <2>2, TimesAssumption DEF Tick
  <2>3. ASSUME NEW t \in Tasks, Lookup(t) PROVE TypeOK'
    BY <2>3 DEF Lookup, HandlerSteps
  <2>4. ASSUME NEW t \in Tasks, Create(t) PROVE TypeOK'
    <3>1. InitialStatus(gate[t]) \in TaskStatus
      BY InitialStatusFits DEF TaskStatus, ActiveStatuses
    <3> QED
      BY <2>4, <3>1 DEF Create, HandlerSteps
  <2>5. ASSUME NEW t \in Tasks, Decide(t) PROVE TypeOK'
    BY <2>5 DEF Decide, Approve, Reject, Cancel, TaskStatus
  <2>6. CASE ExpireStaleTasks
    BY <2>6 DEF ExpireStaleTasks, TaskStatus
  <2>7. CASE Restart
    BY <2>7 DEF Restart, HandlerSteps
  <2>8. CASE UNCHANGED vars
    BY <2>8 DEF vars
  <2> QED
    BY <2>1, <2>2, <2>3, <2>4, <2>5, <2>6, <2>7, <2>8 DEF Next
<1> QED
  BY <1>1, <1>2, PTL DEF Spec

-----------------------------------------------------------------------------
(* What the gate decided shows in the status for ever.                     *)

GateInv == StoredIsAnswered /\ StatusFitsGate

\* A stored task's status is one the level it was gated at allows.
THEOREM GateInvariant == Spec => []GateInv
<1>1. Init => GateInv
  BY DEF Init, GateInv, StoredIsAnswered, StatusFitsGate, Stored
<1>2. TypeOK /\ GateInv /\ [Next]_vars => GateInv'
  <2> SUFFICES ASSUME TypeOK, GateInv, [Next]_vars PROVE GateInv'
    OBVIOUS
  <2> USE DEF TypeOK, GateInv, StoredIsAnswered, StatusFitsGate, Stored
  <2>1. ASSUME NEW t \in Tasks, Lookup(t) PROVE GateInv'
    <3>1. status[t] = "absent"
      BY <2>1 DEF Lookup
    <3> QED
      BY <2>1, <3>1 DEF Lookup
  <2>2. ASSUME NEW t \in Tasks, Create(t) PROVE GateInv'
    <3>1. /\ InitialStatus(gate[t]) \in {"rejected", "running", "pending_approval"}
          /\ InitialStatus(gate[t]) = "running" <=> gate[t] \in {3, 4}
          /\ InitialStatus(gate[t]) = "pending_approval" <=> gate[t] \in {1, 2}
      BY InitialStatusFits
    <3> QED
      BY <2>2, <3>1 DEF Create
  <2>3. ASSUME NEW t \in Tasks, Decide(t) PROVE GateInv'
    <3>1. status[t] \in {"queued", "pending_approval"}
      BY <2>3 DEF Decide, Approve, Reject, Cancel
    <3> QED
      BY <2>3, <3>1 DEF Decide, Approve, Reject, Cancel
  <2>4. CASE ExpireStaleTasks
    BY <2>4 DEF ExpireStaleTasks, Stale
  <2>5. CASE Restart
    BY <2>5 DEF Restart
  <2>6. ASSUME UNCHANGED <<handler, gate, status>> PROVE GateInv'
    BY <2>6
  <2> QED
    BY <2>1, <2>2, <2>3, <2>4, <2>5, <2>6 DEF Next, SetAutonomy, Tick, vars
<1> QED
  BY <1>1, <1>2, TypeInvariant, PTL DEF Spec

\* What the gate decided shows in the status of a stored task.
THEOREM StatusesFitGate == Spec => []StatusFitsGate
BY GateInvariant, PTL DEF GateInv

-----------------------------------------------------------------------------
(* The limits.                                                             *)

\* No more tasks are counted after a step that makes none active.
LEMMA FewerActive ==
  ASSUME SlotLimits, Active' \subseteq Active, target' = target
  PROVE  SlotLimits'
<1>1. IsFiniteSet(Active) /\ \A i \in Instances : IsFiniteSet(ActiveOn(i))
  BY TasksAssumption, FS_Subset DEF Active, ActiveOn
<1>2. Cardinality(Active') <= Cardinality(Active)
  BY <1>1, FS_Subset
<1>3. ASSUME NEW i \in Instances PROVE Cardinality(ActiveOn(i)') <= Cardinality(ActiveOn(i))
  <2>1. ActiveOn(i)' \subseteq ActiveOn(i)
    BY DEF ActiveOn
  <2> QED
    BY <1>1, <2>1, FS_Subset
<1>4. /\ Cardinality(Active) \in Nat /\ Cardinality(Active') \in Nat
      /\ \A i \in Instances : Cardinality(ActiveOn(i)) \in Nat /\ Cardinality(ActiveOn(i)') \in Nat
  <2>1. IsFiniteSet(Active') /\ \A i \in Instances : IsFiniteSet(ActiveOn(i)')
    BY <1>1, FS_Subset DEF ActiveOn
  <2> QED
    BY <1>1, <2>1, FS_CardinalityType
<1> QED
  BY <1>2, <1>3, <1>4, LimitsAssumption DEF SlotLimits

\* A task that passed the test of the limits keeps them.
LEMMA CreateKeepsLimits ==
  ASSUME TypeOK, SlotLimits, NEW t \in Tasks, Create(t)
  PROVE  SlotLimits'
<1> DEFINE i == target[t]
<1>1. IsFiniteSet(Active) /\ \A j \in Instances : IsFiniteSet(ActiveOn(j))
  BY TasksAssumption, FS_Subset DEF Active, ActiveOn
<1>2. CASE ~CheckConcurrency(i)
  <2>1. status' = status /\ target' = target
    BY <1>2 DEF Create
  <2> QED
    BY <2>1, FewerActive DEF Active
<1>3. CASE CheckConcurrency(i)
  <2>1. Active' \subseteq Active \cup {t} /\ target' = target
    BY DEF Create, Active, TypeOK
  <2>2. ASSUME NEW S, NEW T, IsFiniteSet(S), T \subseteq S \cup {t}, NEW n \in Nat,
               Cardinality(S) < n
        PROVE  Cardinality(T) <= n
    <3>1. IsFiniteSet(S \cup {t}) /\ Cardinality(S \cup {t}) <= Cardinality(S) + 1
      BY <2>2, FS_AddElement, FS_CardinalityType
    <3>2. IsFiniteSet(T) /\ Cardinality(T) <= Cardinality(S \cup {t})
      BY <2>2, <3>1, FS_Subset
    <3>3. Cardinality(S) \in Nat /\ Cardinality(T) \in Nat /\ Cardinality(S \cup {t}) \in Nat
      BY <2>2, <3>1, <3>2, FS_CardinalityType
    <3> QED
      BY <2>2, <3>1, <3>2, <3>3
  <2>3. Cardinality(Active') <= MaxConcurrentGlobal
    BY <1>1, <1>3, <2>1, <2>2, LimitsAssumption DEF CheckConcurrency
  <2>4. ASSUME NEW j \in Instances PROVE Cardinality(ActiveOn(j)') <= MaxConcurrentPerInstance
    <3>1. CASE j = i
      <4>1. ActiveOn(j)' \subseteq ActiveOn(i) \cup {t}
        BY <2>1, <3>1 DEF ActiveOn
      <4> QED
        BY <1>1, <1>3, <2>2, <4>1, LimitsAssumption DEF CheckConcurrency, TypeOK
    <3>2. CASE j # i
      <4>1. ActiveOn(j)' \subseteq ActiveOn(j)
        BY <2>1, <3>2 DEF ActiveOn
      <4>2. IsFiniteSet(ActiveOn(j)') /\ Cardinality(ActiveOn(j)') <= Cardinality(ActiveOn(j))
        BY <1>1, <4>1, FS_Subset
      <4>3. Cardinality(ActiveOn(j)') \in Nat /\ Cardinality(ActiveOn(j)) \in Nat
        BY <1>1, <4>2, FS_CardinalityType
      <4> QED
        BY <4>2, <4>3, LimitsAssumption DEF SlotLimits
    <3> QED
      BY <3>1, <3>2
  <2> QED
    BY <2>3, <2>4 DEF SlotLimits
<1> QED
  BY <1>2, <1>3

\* No interleaving of requests, decisions, expiries and restarts has more
\* active tasks than the limits allow.
THEOREM LimitsHold == Spec => []SlotLimits
<1>1. Init => SlotLimits
  <2> SUFFICES ASSUME Init PROVE SlotLimits
    OBVIOUS
  <2>1. Active = {} /\ \A i \in Instances : ActiveOn(i) = {}
    BY DEF Init, Active, ActiveOn, ActiveStatuses
  <2>2. Cardinality(Active) = 0 /\ \A i \in Instances : Cardinality(ActiveOn(i)) = 0
    BY <2>1, FS_EmptySet
  <2> QED
    BY <2>2, LimitsAssumption DEF SlotLimits
<1>2. TypeOK /\ SlotLimits /\ [Next]_vars => SlotLimits'
  <2> SUFFICES ASSUME TypeOK, SlotLimits, [Next]_vars PROVE SlotLimits'
    OBVIOUS
  <2>1. ASSUME NEW t \in Tasks, Create(t) PROVE SlotLimits'
    BY <2>1, CreateKeepsLimits
  <2>2. ASSUME NEW t \in Tasks, Decide(t) PROVE SlotLimits'
    <3>1. Active' \subseteq Active /\ target' = target
      BY <2>2 DEF Decide, Approve, Reject, Cancel, Active, ActiveStatuses, TypeOK
    <3> QED
      BY <3>1, FewerActive
  <2>3. CASE ExpireStaleTasks
    <3>1. Active' \subseteq Active /\ target' = target
      BY <2>3 DEF ExpireStaleTasks, Active, ActiveStatuses, TypeOK
    <3> QED
      BY <3>1, FewerActive
  <2>4. CASE Restart
    <3>1. Active' \subseteq Active /\ target' = target
      BY <2>4 DEF Restart, Active, ActiveStatuses
    <3> QED
      BY <3>1, FewerActive
  <2>5. ASSUME UNCHANGED <<status, target>> PROVE SlotLimits'
    <3>1. Active' \subseteq Active /\ target' = target
      BY <2>5 DEF Active
    <3> QED
      BY <3>1, FewerActive
  <2> QED
    BY <2>1, <2>2, <2>3, <2>4, <2>5 DEF Next, SetAutonomy, Tick, Lookup, vars
<1> QED
  BY <1>1, <1>2, TypeInvariant, PTL DEF Spec

-----------------------------------------------------------------------------
\* The first decision on a task stands until the process restarts.
THEOREM DecisionsStand == Spec => DecisionStands
<1> DEFINE Stands == \A t \in Stored \ Active : status'[t] = status[t] \/ handler'[t] = "lost"
<1>1. ASSUME TypeOK, GateInv, [Next]_vars PROVE [Stands]_vars
  <2> USE DEF TypeOK, Stored, Active, ActiveStatuses
  <2>1. ASSUME NEW t \in Tasks, Create(t) PROVE Stands
    <3>1. status[t] = "absent"
      BY <1>1, <2>1 DEF GateInv, StoredIsAnswered, Create
    <3> QED
      BY <1>1, <2>1, <3>1 DEF Create
  <2>2. ASSUME NEW t \in Tasks, Decide(t) PROVE Stands
    BY <1>1, <2>2 DEF Decide, Approve, Reject, Cancel
  <2>3. CASE ExpireStaleTasks
    BY <1>1, <2>3 DEF ExpireStaleTasks, Stale
  <2>4. CASE Restart
    BY <1>1, <2>4 DEF Restart, GateInv, StoredIsAnswered
  <2>5. ASSUME UNCHANGED status PROVE Stands
    BY <2>5
  <2> HIDE DEF Stands
  <2> QED
    BY <1>1, <2>1, <2>2, <2>3, <2>4, <2>5 DEF Next, SetAutonomy, Tick, Lookup, vars
<1> QED
  BY <1>1, TypeInvariant, GateInvariant, PTL DEF Spec, DecisionStands

-----------------------------------------------------------------------------
(* The queue implements the slot limiter.                                  *)

\* What the refinement mapping of Slots puts for holding and retired.
Held == { [task |-> t, inst |-> target[t]] : t \in Active }
Retired == { t \in Tasks : handler[t] \in {"answered", "lost"} } \ Active

\* Tasks that stop being active, or never were, and were not retired before
\* are a step Retire of the limiter.
LEMMA MapsToRetire ==
  ASSUME NEW ts \in SUBSET Tasks, target' = target, ts \cap Retired = {},
         Active' = Active \ ts, Retired' = Retired \cup ts
  PROVE  Slots!Retire(ts)
<1>1. Held' = { s \in Held : s.task \notin ts }
  BY DEF Held
<1> QED
  BY <1>1 DEF Slots!Retire, Held, Retired

\* There are no more slots held on an instance than tasks active on it.
LEMMA SlotsAreActiveTasks ==
  /\ Cardinality(Held) <= Cardinality(Active)
  /\ Cardinality(Held) \in Nat
  /\ \A i \in Instances :
        /\ Cardinality({ s \in Held : s.inst = i }) <= Cardinality(ActiveOn(i))
        /\ Cardinality({ s \in Held : s.inst = i }) \in Nat
<1>1. ASSUME NEW S \in SUBSET Tasks
      PROVE  LET T == { [task |-> t, inst |-> target[t]] : t \in S }
             IN  Cardinality(T) <= Cardinality(S) /\ Cardinality(T) \in Nat
  <2> DEFINE T == { [task |-> t, inst |-> target[t]] : t \in S }
             f == [t \in S |-> [task |-> t, inst |-> target[t]]]
  <2>1. f \in Surjection(S, T)
    BY DEF Surjection
  <2>2. IsFiniteSet(S)
    BY TasksAssumption, FS_Subset
  <2>3. IsFiniteSet(T) /\ Cardinality(T) <= Cardinality(S)
    BY <2>1, <2>2, FS_Surjection
  <2> QED
    BY <2>3, FS_CardinalityType
<1>2. Active \in SUBSET Tasks /\ \A i \in Instances : ActiveOn(i) \in SUBSET Tasks
  BY DEF Active, ActiveOn
<1>3. \A i \in Instances :
        { s \in Held : s.inst = i } = { [task |-> t, inst |-> target[t]] : t \in ActiveOn(i) }
  BY DEF Held, ActiveOn
<1> QED
  BY <1>1, <1>2, <1>3 DEF Held

\* The limiter counts with the same cardinality.
LEMMA SlotsCardinality == \A S : Slots!Cardinality(S) = Cardinality(S)
BY DEF Slots!Cardinality, Cardinality

\* A task that is created active takes a slot the limiter grants.
LEMMA CreateMapsToSlots ==
  ASSUME TypeOK, GateInv, NEW t \in Tasks, Create(t)
  PROVE  Slots!Next
<1> PICK i \in Instances : i = target[t]
  BY DEF TypeOK
<1>1. t \notin Active /\ t \notin Retired /\ target' = target
  BY DEF Create, GateInv, StoredIsAnswered, Stored, Active, ActiveStatuses, Retired, TypeOK
<1>2. CASE CheckConcurrency(i) /\ InitialStatus(gate[t]) \in ActiveStatuses
  <2>1. Active' = Active \cup {t}
    BY <1>2 DEF Create, Active, TypeOK
  <2>2. Held' = Held \cup {[task |-> t, inst |-> i]}
    BY <1>1, <2>1 DEF Held
  <2>3. Retired' = Retired
    BY <1>1, <2>1 DEF Create, Retired, TypeOK
  <2>4. Cardinality(Held) < MaxConcurrentGlobal
    <3>1. Cardinality(Active) \in Nat
      BY TasksAssumption, FS_Subset, FS_CardinalityType DEF Active
    <3> QED
      BY <1>2, <3>1, SlotsAreActiveTasks, LimitsAssumption DEF CheckConcurrency
  <2>5. Cardinality({ s \in Held : s.inst = i }) < MaxConcurrentPerInstance
    <3>1. Cardinality(ActiveOn(i)) \in Nat
      BY TasksAssumption, FS_Subset, FS_CardinalityType DEF ActiveOn, Active
    <3> QED
      BY <1>2, <3>1, SlotsAreActiveTasks, LimitsAssumption DEF CheckConcurrency
  <2>6. t \notin { s.task : s \in Held }
    BY <1>1 DEF Held
  <2>7. Slots!Acquire(t, i)
    BY <1>1, <2>2, <2>3, <2>4, <2>5, <2>6, SlotsCardinality
    DEF Slots!Acquire, Slots!Holders, Slots!SlotsOf, Held, Retired
  <2> QED
    BY <2>7 DEF Slots!Next
<1>3. CASE ~(CheckConcurrency(i) /\ InitialStatus(gate[t]) \in ActiveStatuses)
  <2>1. Active' = Active \ {t}
    BY <1>1, <1>3 DEF Create, Active, TypeOK
  <2>2. Retired' = Retired \cup {t}
    BY <1>1, <2>1 DEF Create, Retired, TypeOK
  <2>3. Slots!Retire({t})
    BY <1>1, <2>1, <2>2, MapsToRetire
  <2> QED
    BY <2>3 DEF Slots!Next
<1> QED
  BY <1>2, <1>3

\* Every behaviour of the queue is one of the limiter.
THEOREM ImplementsSlotLimiter == Spec => ImplementsSlots
<1>1. Init => Slots!Init
  BY DEF Init, Slots!Init, Active, ActiveStatuses
<1>2. ASSUME TypeOK, GateInv, [Next]_vars PROVE [Slots!Next]_(Slots!slotVars)
  <2>1. ASSUME NEW t \in Tasks, Create(t) PROVE Slots!Next
    BY <1>2, <2>1, CreateMapsToSlots
  <2>2. ASSUME NEW t \in Tasks, Decide(t) PROVE Slots!Next
    <3>1. handler[t] = "answered" /\ t \in Active
      BY <1>2, <2>2
      DEF Decide, Approve, Reject, Cancel, GateInv, StoredIsAnswered, Stored, Active, ActiveStatuses
    <3>2. Active' = Active \ {t} /\ target' = target /\ handler' = handler
      BY <1>2, <2>2 DEF Decide, Approve, Reject, Cancel, Active, ActiveStatuses, TypeOK
    <3>3. Retired' = Retired \cup {t} /\ {t} \cap Retired = {}
      BY <3>1, <3>2 DEF Retired
    <3> QED
      BY <3>2, <3>3, MapsToRetire DEF Slots!Next
  <2>3. CASE ExpireStaleTasks
    <3>1. Stale \subseteq Active /\ \A t \in Stale : handler[t] = "answered"
      BY <1>2 DEF Stale, GateInv, StoredIsAnswered, Stored, Active, ActiveStatuses
    <3>2. Active' = Active \ Stale /\ target' = target /\ handler' = handler
      BY <1>2, <2>3 DEF ExpireStaleTasks, Active, ActiveStatuses, TypeOK
    <3>3. Retired' = Retired \cup Stale /\ Stale \cap Retired = {} /\ Stale \in SUBSET Tasks
      BY <3>1, <3>2 DEF Retired, Stale
    <3> QED
      BY <3>2, <3>3, MapsToRetire DEF Slots!Next
  <2>4. CASE Restart
    <3> PICK ts \in SUBSET Tasks : ts = { t \in Tasks : handler[t] # "idle" } \ Retired
      OBVIOUS
    <3>1. Active' = {} /\ target' = target
      BY <2>4 DEF Restart, Active, ActiveStatuses
    <3>2. Active \subseteq ts
      BY <1>2 DEF GateInv, StoredIsAnswered, Stored, Active, ActiveStatuses, Retired
    <3>3. Retired' = { t \in Tasks : handler[t] # "idle" }
      BY <1>2, <2>4, <3>1 DEF Restart, Retired, TypeOK, HandlerSteps
    <3>4. Retired \subseteq { t \in Tasks : handler[t] # "idle" }
      BY DEF Retired
    <3>5. Slots!Retire(ts)
      BY <3>1, <3>2, <3>3, <3>4, MapsToRetire
    <3> QED
      BY <3>5 DEF Slots!Next
  <2>5. ASSUME NEW t \in Tasks, Lookup(t) PROVE UNCHANGED Slots!slotVars
    <3>1. Active' = Active /\ target' = target
      BY <2>5 DEF Lookup, Active
    <3>2. Retired' = Retired
      BY <1>2, <2>5, <3>1 DEF Lookup, Retired, TypeOK
    <3> QED
      BY <3>1, <3>2 DEF Slots!slotVars, Retired
  <2>6. ASSUME UNCHANGED <<handler, target, status>> PROVE UNCHANGED Slots!slotVars
    BY <2>6 DEF Slots!slotVars, Active
  <2> QED
    BY <1>2, <2>1, <2>2, <2>3, <2>4, <2>5, <2>6 DEF Next, SetAutonomy, Tick, vars
<1> QED
  BY <1>1, <1>2, TypeInvariant, GateInvariant, PTL DEF Spec, ImplementsSlots, Slots!Spec

=============================================================================
