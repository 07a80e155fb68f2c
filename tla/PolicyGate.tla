----------------------------- MODULE PolicyGate -----------------------------
(***************************************************************************)
(* One proposed action, put to the gate again and again while the          *)
(* circumstances it is judged by change: the autonomy level of the         *)
(* instance is raised (api/v1/instances.py, update), the caller holds a    *)
(* higher role, or the tool's confidence drops.  The module exists to ask  *)
(* of the operators of SafetyGuard what a table of unit tests does not:    *)
(* which decisions may change, and in which direction.                     *)
(***************************************************************************)
EXTENDS SafetyGuard

VARIABLE gateAsk

GateAsks == [ shape : SqlShapes,
              type  : ActionTypes \cup {"unknown_type"},
              level : -1..5,            \* the column is an integer, the gate clamps
              low   : BOOLEAN,
              role  : KnownRoles \cup {"unknown_role"} ]

\* How much a decision permits, to compare decisions.
Permits == [blocked |-> 0, approve_required |-> 1, execute |-> 2]

RiskOf(a) == ClassifyRisk(a.shape, a.type)

Decision(a) == CheckPolicy(RiskOf(a), a.level, a.low, a.role)

GateInit == gateAsk \in GateAsks

\* An administrator raises the instance's autonomy level.
RaiseLevel ==
  /\ gateAsk.level < 5
  /\ gateAsk' = [gateAsk EXCEPT !.level = @ + 1]

\* The same action is asked for by a caller whose role has a higher ceiling.
RaiseRole ==
  \E role \in KnownRoles :
     /\ RiskOrder[RoleMaxRisk(role)] > RiskOrder[RoleMaxRisk(gateAsk.role)]
     /\ gateAsk' = [gateAsk EXCEPT !.role = role]

\* The tool that proposes the action becomes less sure of it.
LoseConfidence ==
  /\ ~gateAsk.low
  /\ gateAsk' = [gateAsk EXCEPT !.low = TRUE]

GateNext == RaiseLevel \/ RaiseRole \/ LoseConfidence

GateSpec == GateInit /\ [][GateNext]_gateAsk

-----------------------------------------------------------------------------
\* The gate answers every proposal, at every level and role, with one of its
\* three actions and one of the four risks.
GateTypeOK ==
  /\ gateAsk \in GateAsks
  /\ RiskOf(gateAsk) \in RiskLevels
  /\ Decision(gateAsk) \in PolicyActions

\* Whatever the level and the role, a critical statement is never executed
\* without a human (acceptance criterion 10 of the specification).
CriticalNeedsHuman == RiskOf(gateAsk) = "critical" => Decision(gateAsk) # "execute"

\* More autonomy or a higher role never takes a permission away, and less
\* confidence never gives one: the decision is monotone in all three.
DecisionMonotone ==
  [][ /\ RaiseLevel \/ RaiseRole => Permits[Decision(gateAsk')] >= Permits[Decision(gateAsk)]
      /\ LoseConfidence => Permits[Decision(gateAsk')] <= Permits[Decision(gateAsk)] ]_gateAsk
=============================================================================
