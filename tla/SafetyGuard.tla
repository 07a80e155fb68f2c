---------------------------- MODULE SafetyGuard ----------------------------
(***************************************************************************)
(* The risk classifier and the policy engine of the DBA agent              *)
(* (agents/safety_guard.py).  Everything here is a pure operator; the      *)
(* module ExecutionEngine calls ClassifyRisk and CheckPolicy the way       *)
(* ExecutionEngine.execute calls the two methods.                          *)
(*                                                                         *)
(* A SQL text is abstracted to its shape, the first group of patterns of   *)
(* classify_risk that it hits:                                             *)
(*   "semicolon"  a semicolon inside the statement                         *)
(*   "comment"    a comment marker                                         *)
(*   "critical", "dangerous", "warning"   the regular expressions          *)
(*   "plain"      none of them                                             *)
(* A confidence is abstracted to "is it below 0.5", the only test made.    *)
(***************************************************************************)
EXTENDS Integers

RiskLevels == {"safe", "warning", "dangerous", "critical"}

SqlShapes == {"semicolon", "comment", "critical", "dangerous", "warning", "plain"}

PolicyActions == {"execute", "approve_required", "blocked"}

Levels == 0..4

RiskOrder == [safe |-> 0, warning |-> 1, dangerous |-> 2, critical |-> 3]

\* max(mapped, sql_risk, key=_risk_order): the first argument wins a tie.
MaxRisk(a, b) == IF RiskOrder[b] > RiskOrder[a] THEN b ELSE a

\* The risk floor of the action types the ops tools build.
ActionRiskMap ==
  [ analyze_table   |-> "safe",
    create_index    |-> "warning",
    reindex         |-> "warning",
    vacuum          |-> "warning",
    vacuum_full     |-> "dangerous",
    kill_session    |-> "dangerous",
    alter_parameter |-> "dangerous",
    custom_sql      |-> "dangerous" ]

ActionTypes == DOMAIN ActionRiskMap

\* The shape of the SQL each ops tool builds (agents/tools/ops_tools.py).
BuiltShape ==
  [ analyze_table   |-> "warning",
    create_index    |-> "warning",
    reindex         |-> "warning",
    vacuum          |-> "warning",
    vacuum_full     |-> "dangerous",
    kill_session    |-> "dangerous",
    alter_parameter |-> "dangerous" ]

\* What the SQL text alone says, once the critical patterns are excluded.
SqlRisk(shape) ==
  IF shape \in {"dangerous", "warning"} THEN shape ELSE "safe"

ClassifyRisk(shape, type) ==
  IF shape \in {"semicolon", "comment", "critical"} THEN "critical"
  ELSE IF type \in ActionTypes \ {"custom_sql"}
       THEN MaxRisk(ActionRiskMap[type], SqlRisk(shape))
       ELSE SqlRisk(shape)

\* Mutants: the row of CRITICAL copied from the row of DANGEROUS, and a cell
\* that spells its action the way the documentation does.
MutMatrixCriticalRow ==
  [ safe      |-> <<"execute", "execute", "execute", "execute", "execute">>,
    warning   |-> <<"blocked", "approve_required", "execute", "execute", "execute">>,
    dangerous |-> <<"blocked", "approve_required", "approve_required", "execute", "execute">>,
    critical  |-> <<"blocked", "approve_required", "approve_required", "execute", "execute">> ]

MutMatrixTypo == [MutMatrixCriticalRow EXCEPT !.critical[5] = "approval_required"]

\* The matrix, one row of five autonomy levels (L0 to L4) per risk.
PolicyMatrix ==
  [ safe      |-> <<"execute", "execute", "execute", "execute", "execute">>,
    warning   |-> <<"blocked", "approve_required", "execute", "execute", "execute">>,
    dangerous |-> <<"blocked", "approve_required", "approve_required", "execute", "execute">>,
    critical  |-> <<"blocked", "blocked", "blocked", "blocked", "approve_required">> ]

ClampLevel(level) == IF level < 0 THEN 0 ELSE IF level > 4 THEN 4 ELSE level

RoleRiskMap ==
  [ operator    |-> "warning",
    db_admin    |-> "dangerous",
    super_admin |-> "critical",
    viewer      |-> "safe",
    api_user    |-> "warning" ]

KnownRoles == DOMAIN RoleRiskMap

\* An unknown role has the ceiling of an operator.
RoleMaxRisk(role) == IF role \in KnownRoles THEN RoleRiskMap[role] ELSE "warning"

\* Mutant: the confidence gate with its comparison reversed.
MutCheckPolicy(risk, level, lowConfidence, role) ==
  IF ~lowConfidence /\ risk \in {"dangerous", "critical"} THEN "blocked"
  ELSE IF RiskOrder[risk] > RiskOrder[RoleMaxRisk(role)] THEN "blocked"
  ELSE PolicyMatrix[risk][ClampLevel(level) + 1]

\* The confidence gate, then the role ceiling, then the matrix.
CheckPolicy(risk, level, lowConfidence, role) ==
  IF lowConfidence /\ risk \in {"dangerous", "critical"} THEN "blocked"
  ELSE IF RiskOrder[risk] > RiskOrder[RoleMaxRisk(role)] THEN "blocked"
  ELSE PolicyMatrix[risk][ClampLevel(level) + 1]

=============================================================================
