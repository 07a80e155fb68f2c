----------------------- MODULE ExecutionEngineProofs -----------------------
(***************************************************************************)
(* Machine-checked proofs about ExecutionEngine, for every set of calls    *)
(* and proposals, every finite set of approvals and every set of levels.   *)
(***************************************************************************)
EXTENDS ExecutionEngine, FiniteSetTheorems, TLAPS

-----------------------------------------------------------------------------
(* The classifier and the policy engine.                                   *)

\* classify_risk answers with one of the four risks, whatever text and type.
LEMMA ClassifyRiskType ==
  ASSUME NEW shape \in SqlShapes, NEW type
  PROVE  ClassifyRisk(shape, type) \in RiskLevels
BY DEF ClassifyRisk, SqlShapes, ActionTypes, ActionRiskMap, MaxRisk, RiskOrder, SqlRisk, RiskLevels

\* check_policy answers with one of its three actions, for any level at all.
LEMMA CheckPolicyType ==
  ASSUME NEW risk \in RiskLevels, NEW level \in Int, NEW low \in BOOLEAN, NEW role
  PROVE  CheckPolicy(risk, level, low, role) \in PolicyActions
BY DEF CheckPolicy, RiskLevels, PolicyActions, PolicyMatrix, ClampLevel, RiskOrder, RoleMaxRisk,
       KnownRoles, RoleRiskMap

\* A critical statement is never granted: at most an approval is asked for,
\* and that only at L4, for a super_admin.
LEMMA CriticalIsNeverGranted ==
  ASSUME NEW level \in Int, NEW low \in BOOLEAN, NEW role
  PROVE  /\ CheckPolicy("critical", level, low, role) # "execute"
         /\ CheckPolicy("critical", level, low, role) = "approve_required" =>
               level >= 4 /\ ~low /\ role = "super_admin"
BY DEF CheckPolicy, PolicyMatrix, ClampLevel, RiskOrder, RoleMaxRisk, KnownRoles, RoleRiskMap

-----------------------------------------------------------------------------
(* Type correctness.                                                       *)

\* Running a statement answers executed or failed, and an executed one took
\* effect exactly once.
LEMMA SqlOutcomesType ==
  ASSUME NEW p \in Proposal, NEW pool \in BOOLEAN, NEW o \in SqlOutcomes(p, pool)
  PROVE  /\ o[1] \in {"executed", "failed"}
         /\ o[2] \in {0, 1}
         /\ o[1] = "executed" => o[2] = 1
BY FaultsAssumption DEF SqlOutcomes, RefusedInTransaction

\* Every step of a call and of an approval keeps the types.
THEOREM TypeInvariant == Spec => []TypeOK
<1> USE DEF instanceVars, callVars, approvalVars, tableVars
<1>1. Init => TypeOK
  BY ProposalsAssumption, ChosenLevelsAssumption
  DEF Init, TypeOK, Seen, CallSteps, ApprovalSteps, Channels, Levels, RowStatuses, Results
<1>2. TypeOK /\ [Next]_vars => TypeOK'
  <2> SUFFICES ASSUME TypeOK, [Next]_vars PROVE TypeOK'
    OBVIOUS
  <2> USE DEF TypeOK, CallSteps, ApprovalSteps
  <2>1. CASE SetAutonomy
    BY <2>1, ChosenLevelsAssumption DEF SetAutonomy
  <2>2. CASE DeleteInstance
    BY <2>2 DEF DeleteInstance
  <2>3. ASSUME NEW c \in Calls, CallStep(c) PROVE TypeOK'
    <3>1. ASSUME NEW channel \in Channels, NEW pool \in BOOLEAN, Load(c, channel, pool)
          PROVE TypeOK'
      BY <3>1 DEF Load, Seen
    <3>2. CASE Gate(c)
      BY <3>2 DEF Gate, Grant, Answer, RowStatuses, Results
    <3>3. CASE RunSql(c)
      <4>1. PICK o \in SqlOutcomes(prop[c], seen[c].pool) :
               /\ Answer(c, o[1])
               /\ applied' = [applied EXCEPT ![c] = @ + o[2]]
        BY <3>3 DEF RunSql
      <4>2. o[1] \in {"executed", "failed"} /\ o[2] \in {0, 1}
        BY SqlOutcomesType, ProposalsAssumption DEF Seen
      <4> QED
        BY <3>3, <4>1, <4>2 DEF RunSql, Answer, RowStatuses, Results
    <3>4. CASE SaveAction(c)
      BY <3>4 DEF SaveAction
    <3>5. CASE CloseSession(c)
      BY <3>5 DEF CloseSession
    <3>6. CASE Crash(c)
      BY <3>6 DEF Crash
    <3> QED
      BY <2>3, <3>1, <3>2, <3>3, <3>4, <3>5, <3>6 DEF CallStep, AskDba, McpExecute, Channels
  <2>4. ASSUME NEW a \in Approvals, ApprovalStep(a) PROVE TypeOK'
    <3>1. ASSUME NEW c \in Calls, SelectPending(a, c) PROVE TypeOK'
      BY <3>1 DEF SelectPending
    <3>2. CASE RunApproved(a)
      <4>1. PICK o \in SqlOutcomes(prop[act[a]], TRUE) :
               /\ outcome' = [outcome EXCEPT ![a] = o[1]]
               /\ applied' = [applied EXCEPT ![act[a]] = @ + o[2]]
        BY <3>2 DEF RunApproved
      <4>2. o[1] \in {"executed", "failed"} /\ o[2] \in {0, 1}
        BY SqlOutcomesType, ProposalsAssumption
      <4> QED
        BY <3>2, <4>1, <4>2 DEF RunApproved
    <3>3. CASE RecordApproved(a)
      BY <3>3 DEF RecordApproved, RowStatuses, Results
    <3>4. CASE CrashApproval(a)
      BY <3>4 DEF CrashApproval
    <3> QED
      BY <2>4, <3>1, <3>2, <3>3, <3>4 DEF ApprovalStep
  <2>5. CASE UNCHANGED vars
    BY <2>5 DEF vars
  <2> QED
    BY <2>1, <2>2, <2>3, <2>4, <2>5 DEF Next
<1> QED
  BY <1>1, <1>2, PTL DEF Spec

-----------------------------------------------------------------------------
(* The inductive invariant.                                                *)

\* The gate's decision for a call that is past the gate does not change: the
\* request and what the handler has read are fixed by then.
LEMMA DecisionFixed ==
  ASSUME NEW d \in Calls, prop' = prop, seen'[d] = seen[d]
  PROVE  Decision(d)' = Decision(d)
BY DEF Decision

\* Every step of execute keeps the invariant.
LEMMA CallStepKeepsInv ==
  ASSUME TypeOK, TypeOK', ActionInv, NEW c \in Calls, CallStep(c)
  PROVE  ActionInv'
<1> USE DEF instanceVars, callVars, approvalVars, tableVars, TypeOK
<1> USE DEF ActionInv, NothingTooEarly, CallFitsGate, RowFitsGate, ApprovalFitsRow,
            EffectsAuthorised, RunBy, RowAndAuditTogether, PendingRowBehindTarget
<1>1. ASSUME NEW channel, NEW pool, Load(c, channel, pool) PROVE ActionInv'
  <2>1. \A d \in Calls \ {c} : Decision(d)' = Decision(d)
    BY <1>1, DecisionFixed DEF Load
  <2>2. rows[c] = "none" /\ applied[c] = 0 /\ c \notin audits
    BY <1>1 DEF Load
  <2>3. \A a \in Approvals : apc[a] # "idle" => act[a] # c
    BY <2>2
  <2> QED
    BY <1>1, <2>1, <2>2, <2>3 DEF Load
<1>2. CASE Gate(c)
  <2>1. \A d \in Calls : Decision(d)' = Decision(d)
    BY <1>2, DecisionFixed DEF Gate
  <2> QED
    BY <1>2, <2>1 DEF Gate, Grant, Answer
<1>3. CASE RunSql(c)
  <2>1. \A d \in Calls : Decision(d)' = Decision(d)
    BY <1>3, DecisionFixed DEF RunSql
  <2>2. PICK o \in SqlOutcomes(prop[c], seen[c].pool) :
           /\ Answer(c, o[1])
           /\ applied' = [applied EXCEPT ![c] = @ + o[2]]
    BY <1>3 DEF RunSql
  <2>3. o[1] \in {"executed", "failed"} /\ o[2] \in {0, 1} /\ (o[1] = "executed" => o[2] = 1)
    BY SqlOutcomesType, ProposalsAssumption DEF Seen
  <2>4. Decision(c) = "execute" /\ rows[c] = "none"
    BY <1>3 DEF RunSql
  <2> QED
    BY <1>3, <2>1, <2>2, <2>3, <2>4 DEF RunSql, Answer
<1>4. CASE SaveAction(c)
  <2>1. \A d \in Calls : Decision(d)' = Decision(d)
    BY <1>4, DecisionFixed DEF SaveAction
  <2> QED
    BY <1>4, <2>1 DEF SaveAction
<1>5. CASE CloseSession(c)
  <2>1. \A d \in Calls : Decision(d)' = Decision(d)
    BY <1>5, DecisionFixed DEF CloseSession
  <2>2. rows[c] = "none" /\ c \notin audits
    BY <1>5 DEF CloseSession
  <2>3. result[c] = "pending" => applied[c] = 0
    BY <1>5, <2>2 DEF CloseSession
  <2> QED
    BY <1>5, <2>1, <2>2, <2>3 DEF CloseSession, RowStatuses, Results
<1>6. CASE Crash(c)
  <2>1. \A d \in Calls : Decision(d)' = Decision(d)
    BY <1>6, DecisionFixed DEF Crash
  <2> QED
    BY <1>6, <2>1 DEF Crash
<1> QED
  BY <1>1, <1>2, <1>3, <1>4, <1>5, <1>6 DEF CallStep, AskDba, McpExecute

\* Every step of execute_approved keeps the invariant.
LEMMA ApprovalStepKeepsInv ==
  ASSUME TypeOK, TypeOK', ActionInv, NEW a \in Approvals, ApprovalStep(a)
  PROVE  ActionInv'
<1> USE DEF instanceVars, callVars, approvalVars, tableVars, TypeOK
<1> USE DEF ActionInv, NothingTooEarly, CallFitsGate, RowFitsGate, ApprovalFitsRow,
            EffectsAuthorised, RunBy, RowAndAuditTogether, PendingRowBehindTarget
<1>0. \A d \in Calls : Decision(d)' = Decision(d)
  BY DecisionFixed
  DEF ApprovalStep, SelectPending, RunApproved, RecordApproved, CrashApproval
<1>1. ASSUME NEW c \in Calls, SelectPending(a, c) PROVE ActionInv'
  BY <1>0, <1>1 DEF SelectPending
<1>2. CASE RunApproved(a)
  <2>1. PICK o \in SqlOutcomes(prop[act[a]], TRUE) :
           /\ outcome' = [outcome EXCEPT ![a] = o[1]]
           /\ applied' = [applied EXCEPT ![act[a]] = @ + o[2]]
    BY <1>2 DEF RunApproved
  <2>2. o[1] \in {"executed", "failed"} /\ o[2] \in {0, 1} /\ (o[1] = "executed" => o[2] = 1)
    BY SqlOutcomesType, ProposalsAssumption
  <2>3. /\ Decision(act[a]) = "approve_required" /\ rows[act[a]] # "none"
        /\ pc[act[a]] = "closed"
    BY <1>2 DEF RunApproved
  <2> QED
    BY <1>0, <1>2, <2>1, <2>2, <2>3 DEF RunApproved
<1>3. CASE RecordApproved(a)
  <2>1. /\ Decision(act[a]) = "approve_required" /\ pc[act[a]] = "closed"
        /\ act[a] \notin audits
        /\ outcome[a] \in {"executed", "failed"}
    BY <1>3 DEF RecordApproved
  <2> QED
    BY <1>0, <1>3, <2>1 DEF RecordApproved
<1>4. CASE CrashApproval(a)
  BY <1>0, <1>4 DEF CrashApproval
<1> QED
  BY <1>1, <1>2, <1>3, <1>4 DEF ApprovalStep

\* No step disturbs the invariant, the administrator's and stuttering ones
\* included.
LEMMA StepKeepsInv ==
  ASSUME TypeOK, TypeOK', ActionInv, [Next]_vars
  PROVE  ActionInv'
<1>1. ASSUME SetAutonomy \/ DeleteInstance \/ UNCHANGED vars PROVE ActionInv'
  <2> USE DEF instanceVars, callVars, approvalVars, tableVars
  <2>1. UNCHANGED <<callVars, approvalVars, tableVars, applied>>
    BY <1>1 DEF SetAutonomy, DeleteInstance, vars
  <2>2. \A d \in Calls : Decision(d)' = Decision(d)
    BY <2>1, DecisionFixed
  <2> QED
    BY <2>1, <2>2
    DEF TypeOK, ActionInv, NothingTooEarly, CallFitsGate, RowFitsGate, ApprovalFitsRow,
        EffectsAuthorised, RunBy, RowAndAuditTogether, PendingRowBehindTarget
<1> QED
  BY <1>1, CallStepKeepsInv, ApprovalStepKeepsInv DEF Next

\* ActionInv holds in every reachable state.
THEOREM ActionInvariant == Spec => []ActionInv
<1>1. Init => ActionInv
  BY DEF Init, ActionInv, NothingTooEarly, CallFitsGate, RowFitsGate, ApprovalFitsRow,
         EffectsAuthorised, RunBy, RowAndAuditTogether, PendingRowBehindTarget
<1>2. TypeOK /\ TypeOK' /\ ActionInv /\ [Next]_vars => ActionInv'
  BY StepKeepsInv
<1> QED
  BY <1>1, <1>2, TypeInvariant, PTL DEF Spec

-----------------------------------------------------------------------------
(* What follows from it.                                                   *)

\* No statement gets past the gate: whatever took effect on the target was
\* granted, or approved after the gate had asked for it.
THEOREM OnlyAuthorisedEffects == Spec => []EffectsAuthorised
<1>1. ActionInv => EffectsAuthorised
  BY DEF ActionInv
<1> QED
  BY <1>1, ActionInvariant, PTL

\* With the role ceiling and the matrix of the code, an L4 instance and any
\* interleaving do not let a critical statement through on its own.
THEOREM NoUnattendedCritical == Spec => []CriticalNeverUnattended
<1>1. TypeOK /\ ActionInv => CriticalNeverUnattended
  <2> SUFFICES ASSUME TypeOK, ActionInv, NEW c \in Calls,
                      applied[c] > 0, RiskOf(prop[c]) = "critical"
               PROVE  prop[c].role = "super_admin" /\ \E a \in Approvals : RunBy(a, c)
    BY DEF CriticalNeverUnattended
  <2>1. seen[c].level \in Int
    BY DEF TypeOK, Seen, Levels
  <2>2. Decision(c) = CheckPolicy("critical", seen[c].level, FALSE, prop[c].role)
    BY DEF Decision
  <2>3. Decision(c) # "execute" /\ (Decision(c) = "approve_required" => prop[c].role = "super_admin")
    BY <2>1, <2>2, CriticalIsNeverGranted
  <2> QED
    BY <2>3 DEF ActionInv, EffectsAuthorised
<1> QED
  BY <1>1, TypeInvariant, ActionInvariant, PTL

\* The table never claims an effect that did not happen.
THEOREM ExecutedRowsHaveEffects == Spec => []ExecutedRowHasEffect
<1>1. ActionInv => ExecutedRowHasEffect
  BY DEF ActionInv, RowFitsGate, ExecutedRowHasEffect
<1> QED
  BY <1>1, ActionInvariant, PTL

\* A granted statement's row and its decision-log entry are committed
\* together or not at all.
THEOREM RowsAndAuditsTogether == Spec => []RowAndAuditTogether
<1>1. ActionInv => RowAndAuditTogether
  BY DEF ActionInv
<1> QED
  BY <1>1, ActionInvariant, PTL

\* Only an approval under way, or one that died, leaves a row pending behind
\* the statement it stands for.
THEOREM PendingRowsBehindTarget == Spec => []PendingRowBehindTarget
<1>1. ActionInv => PendingRowBehindTarget
  BY DEF ActionInv
<1> QED
  BY <1>1, ActionInvariant, PTL

\* A committed row changes only when it needed approval, and never back.
THEOREM RowsMoveForward == Spec => RowsOnlyMoveForward
<1> DEFINE Forward == \A c \in Calls : rows[c] # "none" /\ rows'[c] # rows[c] =>
                        /\ Decision(c) = "approve_required"
                        /\ rows'[c] \in {"executed", "failed"}
<1>1. ASSUME TypeOK, ActionInv, [Next]_vars PROVE [Forward]_vars
  <2> USE DEF instanceVars, callVars, approvalVars, tableVars, TypeOK
  <2>1. ASSUME rows' = rows PROVE Forward
    BY <2>1
  <2>2. ASSUME NEW c \in Calls, CloseSession(c) PROVE Forward
    BY <1>1, <2>2 DEF CloseSession, ActionInv, NothingTooEarly
  <2>3. ASSUME NEW a \in Approvals, RecordApproved(a) PROVE Forward
    BY <1>1, <2>3 DEF RecordApproved, ActionInv, ApprovalFitsRow
  <2> HIDE DEF Forward
  <2> QED
    BY <1>1, <2>1, <2>2, <2>3
    DEF Next, CallStep, ApprovalStep, SetAutonomy, DeleteInstance, AskDba, McpExecute, Load,
        Gate, RunSql, SaveAction, Crash, SelectPending, RunApproved, CrashApproval, vars
<1> QED
  BY <1>1, TypeInvariant, ActionInvariant, PTL DEF Spec, RowsOnlyMoveForward

-----------------------------------------------------------------------------
(* One effect per grant.                                                   *)

\* The approvals whose statement has been sent for a call are finitely many,
\* and the more of them, the more grants.
LEMMA GrantsCount ==
  ASSUME NEW c \in Calls
  PROVE  /\ GrantsUsed(c) \in Nat
         /\ IsFiniteSet({a \in Approvals : RunBy(a, c)})
         /\ Cardinality({a \in Approvals : RunBy(a, c)}) \in Nat
<1>1. IsFiniteSet({a \in Approvals : RunBy(a, c)})
  BY ApprovalsAssumption, FS_Subset
<1>2. Cardinality({a \in Approvals : RunBy(a, c)}) \in Nat
  BY <1>1, FS_CardinalityType
<1> QED
  BY <1>1, <1>2 DEF GrantsUsed, GateUsed

\* While no grant is taken back, a call that has no new effect keeps to its
\* grants.
LEMMA GrantsOnlyAdd ==
  ASSUME TypeOK, NEW c \in Calls, applied[c] <= GrantsUsed(c), applied'[c] = applied[c],
         GateUsed(c) <= GateUsed(c)',
         {a \in Approvals : RunBy(a, c)} \subseteq {a \in Approvals : RunBy(a, c)'}
  PROVE  applied'[c] <= GrantsUsed(c)'
<1>1. IsFiniteSet({a \in Approvals : RunBy(a, c)'})
  BY ApprovalsAssumption, FS_Subset
<1>2. /\ Cardinality({a \in Approvals : RunBy(a, c)}) <= Cardinality({a \in Approvals : RunBy(a, c)'})
      /\ Cardinality({a \in Approvals : RunBy(a, c)'}) \in Nat
  BY <1>1, FS_Subset, FS_CardinalityType
<1>3. GateUsed(c) \in Nat /\ GateUsed(c)' \in Nat
  BY DEF GateUsed
<1> QED
  BY <1>2, <1>3, GrantsCount DEF GrantsUsed, TypeOK

\* Every step of execute uses the gate's grant at most once.
LEMMA CallStepKeepsGrants ==
  ASSUME TypeOK, TypeOK', ActionInv, OneEffectPerGrant, NEW c \in Calls, CallStep(c)
  PROVE  OneEffectPerGrant'
<1> USE DEF instanceVars, callVars, approvalVars, tableVars
<1>1. UNCHANGED <<apc, act>>
  BY DEF CallStep, AskDba, McpExecute, Load, Gate, RunSql, SaveAction, CloseSession, Crash
<1>2. \A d \in Calls : {a \in Approvals : RunBy(a, d)} = {a \in Approvals : RunBy(a, d)'}
  BY <1>1 DEF RunBy
<1>3. ASSUME NEW d \in Calls, d # c PROVE applied'[d] <= GrantsUsed(d)'
  <2>1. applied'[d] = applied[d] /\ pc'[d] = pc[d] /\ seen'[d] = seen[d] /\ prop' = prop
    BY <1>3
    DEF TypeOK, CallStep, AskDba, McpExecute, Load, Gate, Grant, Answer, RunSql, SaveAction,
        CloseSession, Crash
  <2>2. GateUsed(d)' = GateUsed(d)
    BY <2>1, DecisionFixed DEF GateUsed
  <2>3. GateUsed(d) \in Nat
    BY DEF GateUsed
  <2> QED
    BY <1>2, <2>1, <2>2, <2>3, GrantsOnlyAdd DEF OneEffectPerGrant
<1>4. applied'[c] <= GrantsUsed(c)'
  <2>1. CASE pc[c] \in {"idle", "loaded", "granted"} /\ ~RunSql(c)
    <3>1. applied'[c] = 0
      BY <2>1
      DEF TypeOK, ActionInv, NothingTooEarly, CallStep, AskDba, McpExecute, Load, Gate,
          SaveAction, CloseSession, Crash, RunSql
    <3>2. GrantsUsed(c)' \in Nat
      <4>1. IsFiniteSet({a \in Approvals : RunBy(a, c)'})
        BY ApprovalsAssumption, FS_Subset
      <4>2. Cardinality({a \in Approvals : RunBy(a, c)'}) \in Nat
        BY <4>1, FS_CardinalityType
      <4> QED
        BY <4>2 DEF GrantsUsed, GateUsed
    <3> QED
      BY <3>1, <3>2
  <2>2. CASE RunSql(c)
    <3>1. PICK o \in SqlOutcomes(prop[c], seen[c].pool) :
             /\ Answer(c, o[1])
             /\ applied' = [applied EXCEPT ![c] = @ + o[2]]
      BY <2>2 DEF RunSql
    <3>2. o[2] \in {0, 1}
      BY SqlOutcomesType, ProposalsAssumption DEF TypeOK, Seen
    <3>3. applied[c] = 0 /\ Decision(c) = "execute"
      BY <2>2 DEF RunSql, ActionInv, NothingTooEarly, CallFitsGate
    <3>4. Decision(c)' = "execute" /\ pc'[c] = "answered"
      BY <2>2, <3>1, <3>3, DecisionFixed DEF RunSql, Answer, TypeOK
    <3>5. GateUsed(c)' = 1 /\ applied'[c] <= 1
      BY <3>1, <3>2, <3>3, <3>4 DEF GateUsed, TypeOK
    <3>6. Cardinality({a \in Approvals : RunBy(a, c)}) \in Nat
      BY GrantsCount
    <3>7. GrantsUsed(c)' = 1 + Cardinality({a \in Approvals : RunBy(a, c)})
      BY <1>2, <3>5 DEF GrantsUsed
    <3> QED
      BY <3>5, <3>6, <3>7 DEF TypeOK
  <2>3. CASE pc[c] \in {"answered", "saved"}
    <3>1. /\ applied'[c] = applied[c] /\ seen'[c] = seen[c] /\ prop' = prop
          /\ pc'[c] \in {"saved", "closed", "crashed"}
      BY <2>3
      DEF TypeOK, CallStep, AskDba, McpExecute, Load, Gate, RunSql, SaveAction, CloseSession, Crash
    <3>2. GateUsed(c)' = GateUsed(c) /\ GateUsed(c) \in Nat
      BY <2>3, <3>1, DecisionFixed DEF GateUsed
    <3> QED
      BY <1>2, <3>1, <3>2, GrantsOnlyAdd DEF OneEffectPerGrant
  <2>4. pc[c] \in {"idle", "loaded", "granted", "answered", "saved"}
    BY DEF CallStep, AskDba, McpExecute, Load, Gate, RunSql, SaveAction, CloseSession, Crash
  <2> QED
    BY <2>1, <2>2, <2>3, <2>4
<1> QED
  BY <1>3, <1>4 DEF OneEffectPerGrant

\* Every step of execute_approved uses its approval at most once.
LEMMA ApprovalStepKeepsGrants ==
  ASSUME TypeOK, TypeOK', OneEffectPerGrant, NEW a \in Approvals, ApprovalStep(a)
  PROVE  OneEffectPerGrant'
<1> USE DEF instanceVars, callVars, approvalVars, tableVars
<1>1. UNCHANGED <<pc, prop, seen>>
  BY DEF ApprovalStep, SelectPending, RunApproved, RecordApproved, CrashApproval
<1>2. \A d \in Calls : GateUsed(d)' = GateUsed(d) /\ GateUsed(d) \in Nat
  BY <1>1, DecisionFixed DEF GateUsed
<1>3. \A d \in Calls : {b \in Approvals : RunBy(b, d)} \subseteq {b \in Approvals : RunBy(b, d)'}
  BY DEF TypeOK, RunBy, ApprovalStep, SelectPending, RunApproved, RecordApproved, CrashApproval
<1>4. CASE ~RunApproved(a)
  <2>1. applied' = applied
    BY <1>4 DEF ApprovalStep, SelectPending, RecordApproved, CrashApproval
  <2> QED
    BY <1>2, <1>3, <2>1, GrantsOnlyAdd DEF OneEffectPerGrant
<1>5. CASE RunApproved(a)
  <2>1. PICK o \in SqlOutcomes(prop[act[a]], TRUE) :
           applied' = [applied EXCEPT ![act[a]] = @ + o[2]]
    BY <1>5 DEF RunApproved
  <2>2. o[2] \in {0, 1} /\ act[a] \in Calls
    BY SqlOutcomesType, ProposalsAssumption DEF TypeOK
  <2>3. ASSUME NEW d \in Calls, d # act[a] PROVE applied'[d] <= GrantsUsed(d)'
    BY <1>2, <1>3, <2>1, <2>3, GrantsOnlyAdd DEF OneEffectPerGrant, TypeOK
  <2>4. ASSUME NEW c \in Calls, c = act[a] PROVE applied'[c] <= GrantsUsed(c)'
    <3> DEFINE before == {b \in Approvals : RunBy(b, c)}
    <3>1. a \notin before /\ {b \in Approvals : RunBy(b, c)'} = before \cup {a}
      BY <1>5, <2>4 DEF RunApproved, RunBy, TypeOK
    <3>2. IsFiniteSet(before) /\ Cardinality(before) \in Nat
      BY GrantsCount
    <3>3. Cardinality(before \cup {a}) = Cardinality(before) + 1
      BY <3>1, <3>2, FS_AddElement
    <3>4. GrantsUsed(c)' = GateUsed(c) + Cardinality(before) + 1
      BY <1>2, <3>1, <3>2, <3>3 DEF GrantsUsed
    <3>5. applied[c] <= GateUsed(c) + Cardinality(before)
      BY DEF OneEffectPerGrant, GrantsUsed
    <3>6. applied'[c] <= applied[c] + 1 /\ applied[c] \in Nat /\ applied'[c] \in Nat
      BY <2>1, <2>2, <2>4 DEF TypeOK
    <3> HIDE DEF before
    <3> QED
      BY <1>2, <3>2, <3>4, <3>5, <3>6
  <2> QED
    BY <2>3, <2>4 DEF OneEffectPerGrant
<1> QED
  BY <1>4, <1>5

\* A statement takes effect at most once for the gate's grant and once for
\* each approval (ExecutionEngine.execute, execute_approved).
THEOREM EffectsAreGranted == Spec => []OneEffectPerGrant
<1>1. Init => OneEffectPerGrant
  <2> SUFFICES ASSUME Init, NEW c \in Calls PROVE applied[c] <= GrantsUsed(c)
    BY DEF OneEffectPerGrant
  <2>1. GrantsUsed(c) \in Nat
    BY GrantsCount
  <2>2. applied[c] = 0
    BY DEF Init
  <2> QED
    BY <2>1, <2>2
<1>2. ASSUME TypeOK, TypeOK', ActionInv, OneEffectPerGrant, [Next]_vars PROVE OneEffectPerGrant'
  <2>1. ASSUME UNCHANGED <<callVars, approvalVars, applied>> PROVE OneEffectPerGrant'
    BY <1>2, <2>1, DecisionFixed
    DEF OneEffectPerGrant, GrantsUsed, GateUsed, RunBy, callVars, approvalVars
  <2> QED
    BY <1>2, <2>1, CallStepKeepsGrants, ApprovalStepKeepsGrants
    DEF Next, SetAutonomy, DeleteInstance, vars
<1> QED
  BY <1>1, <1>2, TypeInvariant, ActionInvariant, PTL DEF Spec

-----------------------------------------------------------------------------
(* The engine implements the ledger.                                       *)

\* What the refinement mapping puts for issued, used and verdict.
Issued == GatePermits(CallSteps \ {"idle"}) \cup HumanPermits(ApprovalSteps \ {"idle"})
Used == GatePermits({"answered", "saved", "closed", "crashed"}) \cup HumanPermits({"ran", "closed", "crashed"})
Verdicts == [c \in Calls |-> IF pc[c] = "idle" THEN "none" ELSE Decision(c)]

GatePermit(c) == [by |-> "gate", holder |-> c, action |-> c]
HumanPermit(a) == [by |-> "human", holder |-> a, action |-> act[a]]

\* A permit of the gate, or of a human, is issued and used as its holder
\* stands.
LEMMA PermitsOfGate ==
  ASSUME NEW c \in Calls
  PROVE  /\ GatePermit(c) \in Issued <=> pc[c] \in CallSteps \ {"idle"} /\ Decision(c) = "execute"
         /\ GatePermit(c) \in Used <=>
              pc[c] \in {"answered", "saved", "closed", "crashed"} /\ Decision(c) = "execute"
<1>1. \A steps : GatePermit(c) \in GatePermits(steps) <=> pc[c] \in steps /\ Decision(c) = "execute"
  BY DEF GatePermits, GatePermit
<1>2. \A steps : GatePermit(c) \notin HumanPermits(steps)
  BY DEF HumanPermits, GatePermit
<1> QED
  BY <1>1, <1>2 DEF Issued, Used

LEMMA PermitsOfHumans ==
  ASSUME NEW a \in Approvals
  PROVE  /\ \A steps : HumanPermit(a) \in HumanPermits(steps) <=> apc[a] \in steps
         /\ \A steps : HumanPermit(a) \notin GatePermits(steps)
         /\ HumanPermit(a) \in Issued <=> apc[a] \in ApprovalSteps \ {"idle"}
         /\ HumanPermit(a) \in Used <=> apc[a] \in {"ran", "closed", "crashed"}
<1>1. \A steps : HumanPermit(a) \in HumanPermits(steps) <=> apc[a] \in steps
  BY DEF HumanPermits, HumanPermit
<1>2. \A steps : HumanPermit(a) \notin GatePermits(steps)
  BY DEF GatePermits, HumanPermit
<1> QED
  BY <1>1, <1>2 DEF Issued, Used

\* Nothing changes in the ledger while the calls, the approvals and the tables
\* do not.
LEMMA QuietForLedger ==
  ASSUME UNCHANGED <<rows, audits, applied>>, Issued' = Issued, Used' = Used, Verdicts' = Verdicts
  PROVE  UNCHANGED Ledger!ledgerVars
BY DEF Ledger!ledgerVars, Issued, Used, Verdicts

\* The steps after which the grant of the gate is used up.
Past == {"answered", "saved", "closed", "crashed"}

\* A step of a call is a step of its verdict and its permit alone.
LEMMA CallStepPermits ==
  ASSUME TypeOK, NEW c \in Calls, UNCHANGED <<prop, apc, act>>,
         NEW f \in CallSteps \ {"idle"}, pc' = [pc EXCEPT ![c] = f], pc[c] \in Past => f \in Past,
         \A d \in Calls : pc[d] # "idle" \/ d # c => seen'[d] = seen[d]
  PROVE  /\ Verdicts' = [Verdicts EXCEPT ![c] = Decision(c)']
         /\ Issued' = Issued \cup (IF Decision(c)' = "execute" THEN {GatePermit(c)} ELSE {})
         /\ Used' = Used \cup (IF Decision(c)' = "execute" /\ f \in Past THEN {GatePermit(c)} ELSE {})
         /\ pc[c] # "idle" => Decision(c)' = Decision(c)
<1>1. \A d \in Calls : pc[d] # "idle" \/ d # c => Decision(d)' = Decision(d)
  BY DecisionFixed
<1>2. pc \in [Calls -> CallSteps]
  BY DEF TypeOK
<1>3. ASSUME NEW steps, "idle" \notin steps, pc[c] \in steps => f \in steps
      PROVE  GatePermits(steps)' = GatePermits(steps) \cup
               (IF Decision(c)' = "execute" /\ f \in steps THEN {GatePermit(c)} ELSE {})
  <2> DEFINE held == {d \in Calls : pc[d] \in steps /\ Decision(d) = "execute"}
             held2 == {d \in Calls : pc'[d] \in steps /\ Decision(d)' = "execute"}
  <2>1. held2 = held \cup (IF Decision(c)' = "execute" /\ f \in steps THEN {c} ELSE {})
    BY <1>1, <1>2, <1>3
  <2>2. GatePermits(steps) = {GatePermit(d) : d \in held}
    BY DEF GatePermits, GatePermit
  <2>3. GatePermits(steps)' = {GatePermit(d) : d \in held2}
    BY DEF GatePermits, GatePermit
  <2> HIDE DEF held, held2
  <2> QED
    BY <2>1, <2>2, <2>3
<1>4. \A steps : HumanPermits(steps)' = HumanPermits(steps)
  BY DEF HumanPermits
<1>5. GatePermits(CallSteps \ {"idle"})' = GatePermits(CallSteps \ {"idle"}) \cup
        (IF Decision(c)' = "execute" THEN {GatePermit(c)} ELSE {})
  BY <1>3
<1>6. GatePermits(Past)' = GatePermits(Past) \cup
        (IF Decision(c)' = "execute" /\ f \in Past THEN {GatePermit(c)} ELSE {})
  BY <1>3 DEF Past
<1>7. Verdicts' = [Verdicts EXCEPT ![c] = Decision(c)']
  BY <1>1, <1>2 DEF Verdicts
<1> QED
  BY <1>1, <1>4, <1>5, <1>6, <1>7 DEF Issued, Used, Past

\* A step of an approval is a step of its permit alone.
LEMMA ApprovalStepPermits ==
  ASSUME TypeOK, NEW a \in Approvals, UNCHANGED <<pc, prop, seen>>,
         NEW f \in ApprovalSteps \ {"idle"}, apc' = [apc EXCEPT ![a] = f],
         apc[a] \in {"ran", "closed", "crashed"} => f \in {"ran", "closed", "crashed"},
         \A b \in Approvals : apc[b] # "idle" \/ b # a => act'[b] = act[b]
  PROVE  /\ Verdicts' = Verdicts
         /\ Issued' = Issued \cup {HumanPermit(a)'}
         /\ Used' = Used \cup (IF f \in {"ran", "closed", "crashed"} THEN {HumanPermit(a)'} ELSE {})
<1>1. \A d \in Calls : Decision(d)' = Decision(d)
  BY DecisionFixed
<1>2. apc \in [Approvals -> ApprovalSteps]
  BY DEF TypeOK
<1>3. ASSUME NEW steps, "idle" \notin steps, apc[a] \in steps => f \in steps
      PROVE  HumanPermits(steps)' =
               HumanPermits(steps) \cup (IF f \in steps THEN {HumanPermit(a)'} ELSE {})
  <2> DEFINE held == {b \in Approvals : apc[b] \in steps}
             held2 == {b \in Approvals : apc'[b] \in steps}
  <2>1. held2 = held \cup (IF f \in steps THEN {a} ELSE {})
    BY <1>2, <1>3
  <2>2. \A b \in held : HumanPermit(b)' = HumanPermit(b)
    BY <1>3 DEF HumanPermit
  <2>3. HumanPermits(steps) = {HumanPermit(b) : b \in held}
    BY DEF HumanPermits, HumanPermit
  <2>4. HumanPermits(steps)' = {HumanPermit(b)' : b \in held2}
    BY DEF HumanPermits, HumanPermit
  <2> HIDE DEF held, held2
  <2> QED
    BY <2>1, <2>2, <2>3, <2>4
<1>4. \A steps : GatePermits(steps)' = GatePermits(steps)
  BY <1>1 DEF GatePermits
<1>5. HumanPermits(ApprovalSteps \ {"idle"})' = HumanPermits(ApprovalSteps \ {"idle"}) \cup {HumanPermit(a)'}
  BY <1>3
<1>6. HumanPermits({"ran", "closed", "crashed"})' = HumanPermits({"ran", "closed", "crashed"}) \cup
        (IF f \in {"ran", "closed", "crashed"} THEN {HumanPermit(a)'} ELSE {})
  BY <1>3
<1>7. Verdicts' = Verdicts
  BY <1>1 DEF Verdicts
<1> QED
  BY <1>4, <1>5, <1>6, <1>7 DEF Issued, Used

\* Every step of execute is one of the ledger, or none.
LEMMA CallStepMapsToLedger ==
  ASSUME TypeOK, TypeOK', ActionInv, NEW c \in Calls, CallStep(c)
  PROVE  Ledger!Next \/ UNCHANGED Ledger!ledgerVars
<1> USE DEF instanceVars, callVars, approvalVars, tableVars
<1>0. pc \in [Calls -> CallSteps] /\ applied \in [Calls -> Nat]
  BY DEF TypeOK
<1>p. /\ GatePermit(c) \in Issued <=> pc[c] \in CallSteps \ {"idle"} /\ Decision(c) = "execute"
      /\ GatePermit(c) \in Used <=> pc[c] \in Past /\ Decision(c) = "execute"
  BY PermitsOfGate DEF Past
<1>1. ASSUME NEW channel, NEW pool, Load(c, channel, pool) PROVE Ledger!Next
  <2>1. /\ Verdicts' = [Verdicts EXCEPT ![c] = Decision(c)']
        /\ Issued' = Issued \cup (IF Decision(c)' = "execute" THEN {GatePermit(c)} ELSE {})
        /\ Used' = Used
    BY <1>0, <1>1, CallStepPermits DEF Load, Past, CallSteps, TypeOK
  <2>2. Decision(c)' \in {"blocked", "approve_required", "execute"}
    <3>1. seen'[c].level \in Int /\ prop[c] \in Proposal /\ prop' = prop
      BY <1>1, ProposalsAssumption DEF TypeOK, Seen, Levels, Load
    <3>2. RiskOf(prop[c]) \in RiskLevels
      BY <3>1, ClassifyRiskType DEF RiskOf, Proposal
    <3>3. CheckPolicy(RiskOf(prop[c]), seen'[c].level, FALSE, prop[c].role) \in PolicyActions
      BY <3>1, <3>2, CheckPolicyType
    <3> QED
      BY <3>1, <3>3 DEF Decision, PolicyActions
  <2>3. Verdicts[c] = "none"
    BY <1>1 DEF Load, Verdicts
  <2>4. PICK v \in {"blocked", "approve_required", "execute"} : v = Decision(c)'
    BY <2>2
  <2>5. Ledger!Judge(c, v)
    BY <1>1, <2>1, <2>3, <2>4
    DEF Ledger!Judge, Ledger!GatePermit, GatePermit, Issued, Used, Verdicts, Load
  <2> QED
    BY <2>5 DEF Ledger!Next
<1>2. ASSUME NEW f \in CallSteps \ {"idle"}, pc' = [pc EXCEPT ![c] = f],
             UNCHANGED <<prop, seen, apc, act>>, pc[c] # "idle",
             pc[c] \in Past => f \in Past
      PROVE  /\ Verdicts' = Verdicts /\ Issued' = Issued
             /\ Used' = Used \cup (IF Decision(c) = "execute" /\ f \in Past THEN {GatePermit(c)} ELSE {})
             /\ Decision(c)' = Decision(c)
  <2>1. /\ Verdicts' = [Verdicts EXCEPT ![c] = Decision(c)']
        /\ Issued' = Issued \cup (IF Decision(c)' = "execute" THEN {GatePermit(c)} ELSE {})
        /\ Used' = Used \cup (IF Decision(c)' = "execute" /\ f \in Past THEN {GatePermit(c)} ELSE {})
        /\ pc[c] # "idle" => Decision(c)' = Decision(c)
    BY <1>2, CallStepPermits
  <2>2. Verdicts = [Verdicts EXCEPT ![c] = Decision(c)]
    BY <1>2 DEF Verdicts
  <2> QED
    BY <1>0, <1>2, <1>p, <2>1, <2>2
<1>3. CASE Gate(c)
  <2>1. PICK f \in {"granted", "answered"} :
          /\ pc' = [pc EXCEPT ![c] = f]
          /\ Decision(c) = "execute" => f = "granted"
    BY <1>3 DEF Gate, Grant, Answer
  <2>2. /\ f \in CallSteps \ {"idle"} /\ pc[c] # "idle" /\ pc[c] \notin Past
        /\ UNCHANGED <<prop, seen, apc, act>>
    BY <1>3 DEF Gate, CallSteps, Past
  <2>3. /\ Verdicts' = Verdicts /\ Issued' = Issued
        /\ Used' = Used \cup (IF Decision(c) = "execute" /\ f \in Past THEN {GatePermit(c)} ELSE {})
    BY <1>2, <2>1, <2>2
  <2>4. Used' = Used
    BY <2>1, <2>3 DEF Past
  <2> QED
    BY <1>3, <2>3, <2>4, QuietForLedger DEF Gate
<1>4. ASSUME NEW effect \in {0, 1}, NEW f \in Past, pc' = [pc EXCEPT ![c] = f],
             pc[c] \in {"loaded", "granted"}, Decision(c) = "execute",
             UNCHANGED <<prop, seen, apc, act, rows, audits>>,
             applied' = [applied EXCEPT ![c] = @ + effect]
      PROVE  Ledger!Next
  <2>1. Verdicts' = Verdicts /\ Issued' = Issued /\ Used' = Used \cup {GatePermit(c)}
    BY <1>2, <1>4 DEF CallSteps, Past
  <2>2. GatePermit(c) \in Issued \ Used
    BY <1>4, <1>p DEF CallSteps, Past
  <2>3. Ledger!UsePermit(GatePermit(c), effect)
    BY <1>4, <2>1, <2>2 DEF Ledger!UsePermit, GatePermit, Issued, Used, Verdicts
  <2> QED
    BY <2>2, <2>3 DEF Ledger!Next, Issued, Used
<1>5. CASE RunSql(c)
  <2>1. PICK o \in SqlOutcomes(prop[c], seen[c].pool) :
           /\ Answer(c, o[1])
           /\ applied' = [applied EXCEPT ![c] = @ + o[2]]
    BY <1>5 DEF RunSql
  <2>2. o[2] \in {0, 1}
    BY SqlOutcomesType, ProposalsAssumption DEF TypeOK, Seen
  <2>3. Decision(c) = "execute"
    BY <1>5 DEF RunSql, ActionInv, CallFitsGate
  <2> QED
    BY <1>4, <1>5, <2>1, <2>2, <2>3 DEF RunSql, Answer, Past
<1>6. CASE SaveAction(c)
  <2>1. /\ "saved" \in CallSteps \ {"idle"} /\ "saved" \in Past /\ pc[c] # "idle" /\ pc[c] \in Past
        /\ pc' = [pc EXCEPT ![c] = "saved"] /\ UNCHANGED <<prop, seen, apc, act>>
        /\ pc[c] \in CallSteps \ {"idle"}
    BY <1>6 DEF SaveAction, CallSteps, Past
  <2>2. /\ Verdicts' = Verdicts /\ Issued' = Issued
        /\ Used' = Used \cup (IF Decision(c) = "execute" /\ "saved" \in Past THEN {GatePermit(c)} ELSE {})
    BY <1>2, <2>1
  <2>3. Used' = Used
    BY <1>p, <2>1, <2>2
  <2> QED
    BY <1>6, <2>2, <2>3, QuietForLedger DEF SaveAction
<1>7. CASE CloseSession(c)
  <2>1. Verdicts' = Verdicts /\ Issued' = Issued /\ Used' = Used
    BY <1>2, <1>7, <1>p DEF CloseSession, CallSteps, Past
  <2>2. rows[c] = "none" /\ rows \in [Calls -> RowStatuses] /\ result[c] \in RowStatuses
    BY <1>7 DEF CloseSession, ActionInv, NothingTooEarly, TypeOK
  <2>3. CASE UNCHANGED tableVars
    BY <1>7, <2>1, <2>3, QuietForLedger DEF CloseSession
  <2>4. CASE result[c] = "none" /\ ~UNCHANGED tableVars
    BY <1>7, <2>2, <2>4 DEF CloseSession
  <2>5. CASE result[c] # "none" /\ ~UNCHANGED tableVars
    <3>1. /\ rows' = [rows EXCEPT ![c] = result[c]]
          /\ audits' = IF result[c] \in {"executed", "failed"} THEN audits \cup {c} ELSE audits
          /\ applied' = applied
      BY <1>7, <2>5 DEF CloseSession
    <3>2. /\ result[c] = "blocked" => Decision(c) = "blocked"
          /\ result[c] = "pending" => Decision(c) = "approve_required"
          /\ result[c] \in {"executed", "failed"} => Decision(c) = "execute"
          /\ result[c] = "executed" => applied[c] > 0
      BY <1>7 DEF CloseSession, ActionInv, CallFitsGate
    <3>3. Verdicts[c] = Decision(c) /\ (Decision(c) = "execute" => GatePermit(c) \in Used)
      BY <1>7, <1>p DEF CloseSession, Verdicts, Past
    <3>4. result[c] \in {"blocked", "pending", "executed", "failed"}
      BY <2>2, <2>5 DEF RowStatuses, Results
    <3>5. result[c] \in Ledger!FirstStatuses(c)
      BY <3>2, <3>3, <3>4
      DEF Ledger!FirstStatuses, Ledger!GatePermit, GatePermit, Used, Verdicts
    <3>6. Ledger!File(c)
      BY <2>1, <2>2, <3>1, <3>2, <3>3, <3>4, <3>5 DEF Ledger!File, Issued, Used, Verdicts
    <3> QED
      BY <3>6 DEF Ledger!Next
  <2> QED
    BY <2>3, <2>4, <2>5
<1>8. CASE Crash(c)
  <2>1. CASE pc[c] \in {"loaded", "granted"} /\ Decision(c) = "execute"
    <3>1. applied' = [applied EXCEPT ![c] = @ + 0]
      BY <1>0, <1>8 DEF Crash
    <3> QED
      BY <1>4, <1>8, <2>1, <3>1 DEF Crash, Past
  <2>2. CASE ~(pc[c] \in {"loaded", "granted"} /\ Decision(c) = "execute")
    <3>1. Verdicts' = Verdicts /\ Issued' = Issued /\ Used' = Used
      BY <1>2, <1>8, <1>p, <2>2 DEF Crash, CallSteps, Past
    <3> QED
      BY <1>8, <3>1, QuietForLedger DEF Crash
  <2> QED
    BY <2>1, <2>2
<1> QED
  BY <1>1, <1>3, <1>5, <1>6, <1>7, <1>8 DEF CallStep, AskDba, McpExecute

\* Every step of execute_approved is one of the ledger, or none.
LEMMA ApprovalStepMapsToLedger ==
  ASSUME TypeOK, TypeOK', ActionInv, NEW a \in Approvals, ApprovalStep(a)
  PROVE  Ledger!Next \/ UNCHANGED Ledger!ledgerVars
<1> USE DEF instanceVars, callVars, approvalVars, tableVars
<1>0. /\ apc \in [Approvals -> ApprovalSteps] /\ act \in [Approvals -> Calls]
      /\ applied \in [Calls -> Nat] /\ rows \in [Calls -> RowStatuses]
  BY DEF TypeOK
<1>1. /\ HumanPermit(a) \in Issued <=> apc[a] \in ApprovalSteps \ {"idle"}
      /\ HumanPermit(a) \in Used <=> apc[a] \in {"ran", "closed", "crashed"}
  BY PermitsOfHumans
<1>2. ASSUME NEW c \in Calls, SelectPending(a, c) PROVE Ledger!Next
  <2>0. /\ "selected" \in ApprovalSteps \ {"idle"} /\ apc' = [apc EXCEPT ![a] = "selected"]
        /\ apc[a] \notin {"ran", "closed", "crashed"} /\ UNCHANGED <<pc, prop, seen>>
        /\ \A b \in Approvals : b # a => act'[b] = act[b]
        /\ apc[a] = "idle"
    BY <1>0, <1>2 DEF SelectPending, ApprovalSteps
  <2>1. /\ Verdicts' = Verdicts /\ Issued' = Issued \cup {HumanPermit(a)'} /\ Used' = Used
    <3>1. /\ Verdicts' = Verdicts /\ Issued' = Issued \cup {HumanPermit(a)'}
          /\ Used' = Used \cup (IF "selected" \in {"ran", "closed", "crashed"} THEN {HumanPermit(a)'} ELSE {})
      BY <2>0, ApprovalStepPermits
    <3> QED
      BY <3>1
  <2>2. HumanPermit(a)' = Ledger!HumanPermit(a, c)
    BY <1>0, <1>2 DEF SelectPending, HumanPermit, Ledger!HumanPermit
  <2>3. \A p \in Issued : p.by = "human" => p.holder # a
    BY <1>2 DEF Issued, GatePermits, HumanPermits, SelectPending
  <2>4. Ledger!Approve(a, c)
    BY <1>2, <2>1, <2>2, <2>3 DEF Ledger!Approve, Issued, Used, Verdicts, SelectPending
  <2> QED
    BY <2>4 DEF Ledger!Next
<1>3. ASSUME NEW effect \in {0, 1}, NEW f \in {"ran", "crashed"}, apc' = [apc EXCEPT ![a] = f],
             apc[a] = "selected", UNCHANGED <<pc, prop, seen, act, rows, audits>>,
             applied' = [applied EXCEPT ![act[a]] = @ + effect]
      PROVE  Ledger!Next
  <2>1. HumanPermit(a)' = HumanPermit(a)
    BY <1>3 DEF HumanPermit
  <2>2. HumanPermit(a) \in Issued \ Used
    BY <1>1, <1>3 DEF ApprovalSteps
  <2>3. Verdicts' = Verdicts /\ Issued' = Issued /\ Used' = Used \cup {HumanPermit(a)}
    <3>1. f \in ApprovalSteps \ {"idle"} /\ apc[a] \notin {"ran", "closed", "crashed"}
      BY <1>3 DEF ApprovalSteps
    <3>2. /\ Verdicts' = Verdicts /\ Issued' = Issued \cup {HumanPermit(a)'}
          /\ Used' = Used \cup (IF f \in {"ran", "closed", "crashed"} THEN {HumanPermit(a)'} ELSE {})
      BY <1>3, <3>1, ApprovalStepPermits
    <3> QED
      BY <1>3, <2>1, <2>2, <3>2
  <2>4. Ledger!UsePermit(HumanPermit(a), effect)
    BY <1>3, <2>2, <2>3 DEF Ledger!UsePermit, HumanPermit, Issued, Used, Verdicts
  <2> QED
    BY <2>2, <2>4 DEF Ledger!Next, Issued, Used
<1>4. CASE RunApproved(a)
  <2>1. PICK o \in SqlOutcomes(prop[act[a]], TRUE) :
           applied' = [applied EXCEPT ![act[a]] = @ + o[2]]
    BY <1>4 DEF RunApproved
  <2>2. o[2] \in {0, 1}
    BY <1>0, SqlOutcomesType, ProposalsAssumption DEF TypeOK
  <2> QED
    BY <1>3, <1>4, <2>1, <2>2 DEF RunApproved
<1>5. ASSUME NEW f \in {"closed", "crashed"}, apc' = [apc EXCEPT ![a] = f], apc[a] = "ran",
             UNCHANGED <<pc, prop, seen, act>>
      PROVE  Verdicts' = Verdicts /\ Issued' = Issued /\ Used' = Used
  <2>1. HumanPermit(a)' = HumanPermit(a)
    BY <1>5 DEF HumanPermit
  <2>2. HumanPermit(a) \in Issued /\ HumanPermit(a) \in Used
    BY <1>1, <1>5 DEF ApprovalSteps
  <2> QED
    BY <1>5, <2>1, <2>2, ApprovalStepPermits DEF ApprovalSteps
<1>6. CASE RecordApproved(a)
  <2> DEFINE c == act[a]
  <2>1. Verdicts' = Verdicts /\ Issued' = Issued /\ Used' = Used
    BY <1>5, <1>6 DEF RecordApproved
  <2>2. /\ c \in Calls /\ rows[c] # "none" /\ Decision(c) = "approve_required"
        /\ outcome[a] \in {"executed", "failed"}
        /\ outcome[a] = "executed" => applied[c] > 0
    BY <1>0, <1>6 DEF RecordApproved, ActionInv, ApprovalFitsRow
  <2>3. Verdicts[c] = "approve_required"
    BY <2>2 DEF Verdicts, ActionInv, NothingTooEarly
  <2>4. Ledger!HumanPermit(a, c) \in Used
    BY <1>1, <1>6 DEF RecordApproved, HumanPermit, Ledger!HumanPermit
  <2>5. /\ rows' = [rows EXCEPT ![c] = outcome[a]] /\ UNCHANGED <<applied, audits>>
    BY <1>6 DEF RecordApproved
  <2> HIDE DEF c
  <2>6. Ledger!Amend(a, c)
    <3>1. \E s \in {"executed", "failed"} :
             (s = "executed" => applied[c] > 0) /\ rows' = [rows EXCEPT ![c] = s]
      BY <2>2, <2>5
    <3> QED
      BY <2>1, <2>2, <2>3, <2>4, <2>5, <3>1 DEF Ledger!Amend, Issued, Used, Verdicts
  <2> QED
    BY <2>2, <2>6 DEF Ledger!Next
<1>7. CASE CrashApproval(a)
  <2>1. CASE apc[a] = "selected"
    <3>1. applied' = [applied EXCEPT ![act[a]] = @ + 0]
      BY <1>0, <1>7 DEF CrashApproval
    <3> QED
      BY <1>3, <1>7, <2>1, <3>1 DEF CrashApproval
  <2>2. CASE apc[a] = "ran"
    <3>1. Verdicts' = Verdicts /\ Issued' = Issued /\ Used' = Used
      BY <1>5, <1>7, <2>2 DEF CrashApproval
    <3> QED
      BY <1>7, <3>1, QuietForLedger DEF CrashApproval
  <2> QED
    BY <1>7, <2>1, <2>2 DEF CrashApproval
<1> QED
  BY <1>2, <1>4, <1>6, <1>7 DEF ApprovalStep

\* Every behaviour of the engine and its callers is one of the ledger.
THEOREM ImplementsActionLedger == Spec => ImplementsLedger
<1>1. Init => Ledger!Init
  BY DEF Init, Ledger!Init, GatePermits, HumanPermits, CallSteps, ApprovalSteps
<1>2. ASSUME TypeOK, TypeOK', ActionInv, [Next]_vars PROVE [Ledger!Next]_(Ledger!ledgerVars)
  <2>1. ASSUME UNCHANGED <<callVars, approvalVars, tableVars, applied>>
        PROVE  UNCHANGED Ledger!ledgerVars
    <3>1. Verdicts' = Verdicts /\ Issued' = Issued /\ Used' = Used
      BY <2>1, DecisionFixed
      DEF callVars, approvalVars, Verdicts, Issued, Used, GatePermits, HumanPermits
    <3> QED
      BY <2>1, <3>1, QuietForLedger DEF tableVars
  <2> QED
    BY <1>2, <2>1, CallStepMapsToLedger, ApprovalStepMapsToLedger
    DEF Next, SetAutonomy, DeleteInstance, vars
<1> QED
  BY <1>1, <1>2, TypeInvariant, ActionInvariant, PTL DEF Spec, ImplementsLedger, Ledger!Spec

=============================================================================
