--------------------------- MODULE IncidentProofs ---------------------------
(***************************************************************************)
(* Machine-checked proofs about what an incident and the actions proposed  *)
(* for it go through: the updates of its status (IncidentLifecycle), for   *)
(* every set of incidents and requests, and the gate (PolicyGate).         *)
(***************************************************************************)
EXTENDS IncidentLifecycle, PolicyGate, FiniteSetTheorems, TLAPS

-----------------------------------------------------------------------------
(* Updates of the status.                                                  *)

Row == [status : Statuses, acknowledged : BOOLEAN, version : Nat]

RowsTyped ==
  /\ status \in [Incidents -> Statuses]
  /\ acknowledged \in [Incidents -> BOOLEAN]
  /\ resolved \in [Incidents -> BOOLEAN]
  /\ version \in [Incidents -> Nat]
  /\ updateStep \in [Requests -> {"idle", "refused", "validated", "committed", "aborted"}]
  /\ asked \in [Requests -> [incident : Incidents, status : StatusUpdate]]
  /\ loaded \in [Requests -> Row]

\* What a validated request has loaded was once the row: nothing has been
\* taken back since, and where the version is the same, so is the status.
LoadedWasRow ==
  \A r \in Requests : updateStep[r] = "validated" =>
    /\ asked[r].status \in ValidTransitions(loaded[r].status)
    /\ loaded[r].acknowledged => acknowledged[asked[r].incident]
    /\ loaded[r].version <= version[asked[r].incident]
    /\ loaded[r].version = version[asked[r].incident]
         => loaded[r].status = status[asked[r].incident]

IncidentInv == RowsTyped /\ LoadedWasRow /\ TimesFitStatus

\* A transition of the table leads forward, and a request never asks for open.
LEMMA TransitionsForward ==
  ASSUME NEW s \in Statuses, NEW t \in ValidTransitions(s)
  PROVE  Rank(t) > Rank(s)
BY DEF Statuses, ValidTransitions, Rank

LEMMA LoadKeepsInv ==
  ASSUME IncidentInv, NEW r \in Requests, Load(r)
  PROVE  IncidentInv'
<1> USE DEF IncidentInv, RowsTyped, Row
<1>1. UNCHANGED <<status, acknowledged, resolved, version, asked>>
  BY DEF Load, rowVars
<1>2. CASE asked[r].status \in ValidTransitions(status[asked[r].incident])
  <2>1. /\ updateStep' = [updateStep EXCEPT ![r] = "validated"]
        /\ loaded' = [loaded EXCEPT ![r] =
             [status |-> status[asked[r].incident],
              acknowledged |-> acknowledged[asked[r].incident],
              version |-> version[asked[r].incident]]]
    BY <1>2 DEF Load
  <2>2. asked[r].incident \in Incidents
    OBVIOUS
  <2>3. RowsTyped'
    BY <1>1, <2>1, <2>2
  <2>4. ASSUME NEW q \in Requests, updateStep'[q] = "validated"
        PROVE  /\ asked[q].status \in ValidTransitions(loaded'[q].status)
               /\ loaded'[q].acknowledged => acknowledged[asked[q].incident]
               /\ loaded'[q].version <= version[asked[q].incident]
               /\ loaded'[q].version = version[asked[q].incident]
                    => loaded'[q].status = status[asked[q].incident]
    <3>1. CASE q = r
      <4>1. loaded'[q].status = status[asked[r].incident]
        BY <2>1, <3>1
      <4>2. loaded'[q].acknowledged = acknowledged[asked[r].incident]
        BY <2>1, <3>1
      <4>3. loaded'[q].version = version[asked[r].incident] /\ version[asked[r].incident] \in Nat
        BY <2>1, <2>2, <3>1
      <4> QED
        BY <1>2, <3>1, <4>1, <4>2, <4>3
    <3>2. CASE q # r
      BY <2>1, <2>4, <3>2 DEF LoadedWasRow
    <3> QED
      BY <3>1, <3>2
  <2>5. TimesFitStatus'
    BY <1>1 DEF TimesFitStatus
  <2> QED
    BY <1>1, <2>3, <2>4, <2>5 DEF LoadedWasRow
<1>3. CASE asked[r].status \notin ValidTransitions(status[asked[r].incident])
  <2>1. updateStep' = [updateStep EXCEPT ![r] = "refused"] /\ loaded' = loaded
    BY <1>3 DEF Load
  <2> QED
    BY <1>1, <2>1 DEF LoadedWasRow, TimesFitStatus
<1> QED
  BY <1>2, <1>3

LEMMA UpdateKeepsInv ==
  ASSUME IncidentInv, NEW r \in Requests, Update(r)
  PROVE  IncidentInv'
<1> USE DEF IncidentInv, RowsTyped, Row
<1> DEFINE i == asked[r].incident
           s == asked[r].status
<1>1. i \in Incidents /\ s \in StatusUpdate
  OBVIOUS
<1>2. /\ updateStep[r] = "validated"
      /\ status' = [status EXCEPT ![i] = s]
      /\ acknowledged' = [acknowledged EXCEPT ![i] =
                            @ \/ (s = "acknowledged" /\ ~loaded[r].acknowledged)]
      /\ resolved' = [resolved EXCEPT ![i] = @ \/ s = "resolved"]
      /\ version' = [version EXCEPT ![i] = @ + 1]
      /\ updateStep' = [updateStep EXCEPT ![r] = "committed"]
      /\ asked' = asked /\ loaded' = loaded
  BY DEF Update
<1>3. s \in Statuses /\ s # "open"
  BY <1>1 DEF StatusUpdate, Statuses
<1> HIDE DEF i, s
<1>4. RowsTyped'
  BY <1>1, <1>2, <1>3
<1>5. \A j \in Incidents : acknowledged[j] => acknowledged'[j]
  BY <1>1, <1>2
<1>6. LoadedWasRow'
  <2> SUFFICES ASSUME NEW q \in Requests, updateStep[q] = "validated"
               PROVE  /\ asked[q].status \in ValidTransitions(loaded[q].status)
                      /\ loaded[q].acknowledged => acknowledged'[asked[q].incident]
                      /\ loaded[q].version <= version'[asked[q].incident]
                      /\ loaded[q].version = version'[asked[q].incident]
                           => loaded[q].status = status'[asked[q].incident]
    BY <1>2 DEF LoadedWasRow
  <2>1. asked[q].incident \in Incidents /\ loaded[q].version \in Nat
    OBVIOUS
  <2>2. /\ asked[q].status \in ValidTransitions(loaded[q].status)
        /\ loaded[q].acknowledged => acknowledged[asked[q].incident]
        /\ loaded[q].version <= version[asked[q].incident]
        /\ loaded[q].version = version[asked[q].incident]
             => loaded[q].status = status[asked[q].incident]
    BY DEF LoadedWasRow
  <2>3. CASE asked[q].incident = i
    <3>1. version'[asked[q].incident] = version[asked[q].incident] + 1
      BY <1>1, <1>2, <2>3
    <3>2. version[asked[q].incident] \in Nat
      BY <2>1
    <3> QED
      BY <1>5, <2>1, <2>2, <3>1, <3>2
  <2>4. CASE asked[q].incident # i
    BY <1>2, <1>5, <2>1, <2>2, <2>4
  <2> QED
    BY <2>3, <2>4
<1>7. TimesFitStatus'
  <2> SUFFICES ASSUME NEW j \in Incidents
               PROVE  /\ status'[j] = "acknowledged" => acknowledged'[j]
                      /\ status'[j] = "resolved" => resolved'[j]
                      /\ status'[j] = "open" <=> version'[j] = 0
    BY DEF TimesFitStatus
  <2>1. CASE j = i
    <3>1. loaded[r].acknowledged => acknowledged[i]
      BY <1>2 DEF LoadedWasRow, i
    <3>2. status'[j] = s /\ version'[j] = version[i] + 1 /\ version[i] \in Nat
      BY <1>1, <1>2, <2>1
    <3>3. s = "acknowledged" => acknowledged'[i]
      BY <1>1, <1>2, <3>1
    <3>4. s = "resolved" => resolved'[i]
      BY <1>1, <1>2
    <3> QED
      BY <1>3, <2>1, <3>2, <3>3, <3>4
  <2>2. CASE j # i
    BY <1>2, <2>2 DEF TimesFitStatus
  <2> QED
    BY <2>1, <2>2
<1> QED
  BY <1>4, <1>6, <1>7

LEMMA IncidentStepKeepsInv == IncidentInv /\ [IncidentNext]_incidentVars => IncidentInv'
<1> SUFFICES ASSUME IncidentInv, [IncidentNext]_incidentVars PROVE IncidentInv'
  OBVIOUS
<1>1. ASSUME NEW r \in Requests, Abort(r) PROVE IncidentInv'
  BY <1>1 DEF Abort, rowVars, IncidentInv, RowsTyped, LoadedWasRow, TimesFitStatus
<1>2. CASE UNCHANGED incidentVars
  BY <1>2 DEF incidentVars, rowVars, IncidentInv, RowsTyped, LoadedWasRow, TimesFitStatus
<1> QED
  BY <1>1, <1>2, LoadKeepsInv, UpdateKeepsInv DEF IncidentNext

LEMMA IncidentInvHolds == IncidentSpec => []IncidentInv
<1>1. IncidentInit => IncidentInv
  BY DEF IncidentInit, IncidentInv, RowsTyped, Row, LoadedWasRow, TimesFitStatus, Statuses
<1> QED
  BY <1>1, IncidentStepKeepsInv, PTL DEF IncidentSpec

\* A status comes with its time, whichever updates of the same incident
\* overlapped (api/v1/incidents.py, update_incident_status).
THEOREM StatusHasItsTime == IncidentSpec => []TimesFitStatus
BY IncidentInvHolds, PTL DEF IncidentInv

\* An update of a row nobody has changed since it was loaded moves the incident
\* forward, and no update, stale or not, takes back a recorded time or opens
\* the incident again.
THEOREM NoUpdateTakesBack == IncidentSpec => UpdatesKeepHistory
<1>1. ASSUME IncidentInv, [IncidentNext]_incidentVars, NEW r \in Requests,
             updateStep[r] = "validated", updateStep'[r] = "committed"
      PROVE  /\ version[asked[r].incident] = loaded[r].version
                  => Rank(status'[asked[r].incident]) > Rank(status[asked[r].incident])
             /\ acknowledged[asked[r].incident] => acknowledged'[asked[r].incident]
             /\ resolved[asked[r].incident] => resolved'[asked[r].incident]
             /\ status'[asked[r].incident] # "open"
  <2>1. Update(r)
    <3>1. ASSUME NEW q \in Requests, Load(q) PROVE FALSE
      BY <1>1, <3>1 DEF Load, IncidentInv, RowsTyped
    <3>2. ASSUME NEW q \in Requests, Abort(q) PROVE FALSE
      BY <1>1, <3>2 DEF Abort, IncidentInv, RowsTyped
    <3>3. ASSUME NEW q \in Requests, Update(q), q # r PROVE FALSE
      BY <1>1, <3>3 DEF Update, IncidentInv, RowsTyped
    <3>4. ~UNCHANGED incidentVars
      BY <1>1 DEF incidentVars
    <3> QED
      BY <1>1, <3>1, <3>2, <3>3, <3>4 DEF IncidentNext
  <2>2. asked[r].incident \in Incidents /\ asked[r].status \in StatusUpdate
    BY <1>1 DEF IncidentInv, RowsTyped
  <2>3. status'[asked[r].incident] = asked[r].status
    BY <1>1, <2>1, <2>2 DEF Update, IncidentInv, RowsTyped
  <2>4. version[asked[r].incident] = loaded[r].version
          => Rank(asked[r].status) > Rank(status[asked[r].incident])
    BY <1>1, <2>2, TransitionsForward DEF IncidentInv, RowsTyped, LoadedWasRow
  <2>5. acknowledged[asked[r].incident] => acknowledged'[asked[r].incident]
    BY <1>1, <2>1, <2>2 DEF Update, IncidentInv, RowsTyped
  <2>6. resolved[asked[r].incident] => resolved'[asked[r].incident]
    BY <1>1, <2>1, <2>2 DEF Update, IncidentInv, RowsTyped
  <2> QED
    BY <2>2, <2>3, <2>4, <2>5, <2>6 DEF StatusUpdate
<1>2. IncidentInv /\ [IncidentNext]_incidentVars =>
        [ \A r \in Requests :
            LET i == asked[r].incident IN
            updateStep[r] = "validated" /\ updateStep'[r] = "committed" =>
              /\ version[i] = loaded[r].version => Rank(status'[i]) > Rank(status[i])
              /\ acknowledged[i] => acknowledged'[i]
              /\ resolved[i] => resolved'[i]
              /\ status'[i] # "open" ]_incidentVars
  BY <1>1
<1> QED
  BY <1>2, IncidentInvHolds, PTL DEF IncidentSpec, UpdatesKeepHistory

\* The version of an incident counts the requests that have updated it, so no
\* request can have read a later one than there are requests.
Committed(i) == {r \in Requests : updateStep[r] = "committed" /\ asked[r].incident = i}

VersionsCount ==
  /\ \A i \in Incidents : version[i] = Cardinality(Committed(i))
  /\ \A r \in Requests : loaded[r].version \in 0..Cardinality(Requests)

LEMMA CommittedBounded ==
  ASSUME NEW i
  PROVE  IsFiniteSet(Committed(i)) /\ Cardinality(Committed(i)) \in 0..Cardinality(Requests)
<1>1. Committed(i) \subseteq Requests
  BY DEF Committed
<1> QED
  BY <1>1, RequestsAssumption, FS_Subset, FS_CardinalityType

LEMMA VersionsKeepCount ==
  IncidentInv /\ VersionsCount /\ [IncidentNext]_incidentVars => VersionsCount'
<1> SUFFICES ASSUME IncidentInv, VersionsCount, [IncidentNext]_incidentVars PROVE VersionsCount'
  OBVIOUS
<1>0. /\ updateStep \in [Requests -> {"idle", "refused", "validated", "committed", "aborted"}]
      /\ asked \in [Requests -> [incident : Incidents, status : StatusUpdate]]
      /\ loaded \in [Requests -> Row] /\ version \in [Incidents -> Nat]
  BY DEF IncidentInv, RowsTyped
<1>1. CASE UNCHANGED incidentVars
  BY <1>1 DEF VersionsCount, Committed, incidentVars, rowVars
<1>2. ASSUME NEW r \in Requests, Load(r) PROVE VersionsCount'
  <2>1. UNCHANGED <<version, asked>> /\ updateStep[r] = "idle"
    BY <1>2 DEF Load, rowVars
  <2>2. updateStep'[r] # "committed" /\ \A q \in Requests \ {r} : updateStep'[q] = updateStep[q]
    BY <1>0, <1>2 DEF Load
  <2>3. \A i : Committed(i)' = Committed(i)
    BY <2>1, <2>2 DEF Committed
  <2>4. asked[r].incident \in Incidents
    BY <1>0
  <2>5. version[asked[r].incident] \in 0..Cardinality(Requests)
    BY <2>4, CommittedBounded DEF VersionsCount
  <2>6. \A q \in Requests : loaded'[q].version \in {loaded[q].version, version[asked[r].incident]}
    BY <1>0, <1>2 DEF Load, Row
  <2> QED
    BY <2>1, <2>3, <2>5, <2>6 DEF VersionsCount
<1>3. ASSUME NEW r \in Requests, Update(r) PROVE VersionsCount'
  <2>1. PICK i \in Incidents : i = asked[r].incident
    BY <1>0
  <2>2. /\ updateStep[r] = "validated" /\ updateStep' = [updateStep EXCEPT ![r] = "committed"]
        /\ version' = [version EXCEPT ![i] = @ + 1] /\ UNCHANGED <<asked, loaded>>
    BY <1>3, <2>1 DEF Update
  <2>3. Committed(i)' = Committed(i) \cup {r} /\ r \notin Committed(i)
    BY <1>0, <2>1, <2>2 DEF Committed
  <2>4. Cardinality(Committed(i)') = Cardinality(Committed(i)) + 1
    BY <2>3, CommittedBounded, FS_AddElement
  <2>5. \A j \in Incidents \ {i} : Committed(j)' = Committed(j) /\ version'[j] = version[j]
    BY <1>0, <2>1, <2>2 DEF Committed
  <2>6. version'[i] = version[i] + 1
    BY <1>0, <2>2
  <2>7. \A j \in Incidents : version'[j] = Cardinality(Committed(j)')
    BY <2>4, <2>5, <2>6 DEF VersionsCount
  <2> QED
    BY <2>2, <2>7 DEF VersionsCount
<1>4. ASSUME NEW r \in Requests, Abort(r) PROVE VersionsCount'
  <2>1. /\ UNCHANGED <<version, asked, loaded>> /\ updateStep[r] = "validated"
        /\ updateStep' = [updateStep EXCEPT ![r] = "aborted"]
    BY <1>4 DEF Abort, rowVars
  <2>2. \A i : Committed(i)' = Committed(i)
    BY <1>0, <2>1 DEF Committed
  <2> QED
    BY <2>1, <2>2 DEF VersionsCount
<1> QED
  BY <1>1, <1>2, <1>3, <1>4 DEF IncidentNext

\* The rows and the requests keep their types; no incident is updated more often
\* than there are requests.
THEOREM IncidentTypeInvariant == IncidentSpec => []IncidentTypeOK
<1>1. IncidentInit => VersionsCount
  <2> SUFFICES ASSUME IncidentInit PROVE VersionsCount
    OBVIOUS
  <2>1. \A i : Committed(i) = {}
    BY DEF IncidentInit, Committed
  <2>2. Cardinality(Requests) \in Nat
    BY RequestsAssumption, FS_CardinalityType
  <2>3. \A i : Cardinality(Committed(i)) = 0
    BY <2>1, FS_EmptySet
  <2>4. /\ \A i \in Incidents : version[i] = 0
        /\ \A r \in Requests : loaded[r].version = 0
    BY DEF IncidentInit
  <2> QED
    BY <2>2, <2>3, <2>4 DEF VersionsCount
<1>2. IncidentInv /\ VersionsCount => IncidentTypeOK
  <2> SUFFICES ASSUME IncidentInv, VersionsCount PROVE IncidentTypeOK
    OBVIOUS
  <2>1. \A i \in Incidents : version[i] \in 0..Cardinality(Requests)
    BY CommittedBounded DEF VersionsCount
  <2> QED
    BY <2>1 DEF IncidentInv, RowsTyped, Row, VersionsCount, IncidentTypeOK
<1> QED
  BY <1>1, <1>2, VersionsKeepCount, IncidentInvHolds, PTL DEF IncidentSpec

-----------------------------------------------------------------------------
(* The gate.                                                               *)

\* The risk of a proposal is one of the four.
LEMMA RiskIsKnown ==
  ASSUME NEW shape \in SqlShapes, NEW type
  PROVE  ClassifyRisk(shape, type) \in RiskLevels
BY DEF ClassifyRisk, SqlShapes, ActionTypes, ActionRiskMap, MaxRisk, RiskOrder, SqlRisk, RiskLevels

\* One more level of autonomy never takes a permission away.
LEMMA LevelRaises ==
  ASSUME NEW risk \in RiskLevels, NEW level \in Int, NEW low \in BOOLEAN, NEW role
  PROVE  Permits[CheckPolicy(risk, level + 1, low, role)] >= Permits[CheckPolicy(risk, level, low, role)]
BY DEF CheckPolicy, RiskLevels, PolicyMatrix, ClampLevel, RiskOrder, RoleMaxRisk, KnownRoles,
       RoleRiskMap, Permits

\* Nor does a role with a higher ceiling.
LEMMA RoleRaises ==
  ASSUME NEW risk \in RiskLevels, NEW level \in Int, NEW low \in BOOLEAN, NEW role, NEW higher,
         RiskOrder[RoleMaxRisk(higher)] > RiskOrder[RoleMaxRisk(role)]
  PROVE  Permits[CheckPolicy(risk, level, low, higher)] >= Permits[CheckPolicy(risk, level, low, role)]
BY DEF CheckPolicy, RiskLevels, PolicyMatrix, ClampLevel, RiskOrder, RoleMaxRisk, KnownRoles,
       RoleRiskMap, Permits

\* Less confidence never gives one.
LEMMA DoubtLowers ==
  ASSUME NEW risk \in RiskLevels, NEW level \in Int, NEW role
  PROVE  Permits[CheckPolicy(risk, level, TRUE, role)] <= Permits[CheckPolicy(risk, level, FALSE, role)]
BY DEF CheckPolicy, RiskLevels, PolicyMatrix, ClampLevel, RiskOrder, RoleMaxRisk, KnownRoles,
       RoleRiskMap, Permits

AskIsTyped == gateAsk \in GateAsks

LEMMA AsksHold == GateSpec => []AskIsTyped
<1>1. AskIsTyped /\ [GateNext]_gateAsk => AskIsTyped'
  <2> SUFFICES ASSUME AskIsTyped, [GateNext]_gateAsk PROVE AskIsTyped'
    OBVIOUS
  <2> USE DEF AskIsTyped, GateAsks
  <2>1. CASE RaiseLevel
    <3>1. gateAsk.level + 1 \in -1..5
      BY <2>1 DEF RaiseLevel
    <3> QED
      BY <2>1, <3>1 DEF RaiseLevel
  <2>2. CASE RaiseRole
    BY <2>2 DEF RaiseRole
  <2>3. CASE LoseConfidence
    BY <2>3 DEF LoseConfidence
  <2> QED
    BY <2>1, <2>2, <2>3 DEF GateNext
<1> QED
  BY <1>1, PTL DEF GateSpec, GateInit, AskIsTyped

\* The gate answers every proposal with one of its
\* three actions and one of the four risks (SafetyGuard.check_policy).
THEOREM GateTypeInvariant == GateSpec => []GateTypeOK
<1>1. ASSUME AskIsTyped PROVE GateTypeOK
  <2>1. RiskOf(gateAsk) \in RiskLevels
    BY <1>1, RiskIsKnown DEF AskIsTyped, GateAsks, RiskOf
  <2>2. Decision(gateAsk) \in PolicyActions
    BY <1>1, <2>1 DEF AskIsTyped, GateAsks, Decision, CheckPolicy, RiskLevels, PolicyMatrix,
                      ClampLevel, PolicyActions
  <2> QED
    BY <1>1, <2>1, <2>2 DEF AskIsTyped, GateTypeOK
<1> QED
  BY <1>1, AsksHold, PTL

\* Whatever the level and the role, a critical statement is never executed
\* without a human (SafetyGuard.check_policy).
THEOREM CriticalAlwaysNeedsHuman == GateSpec => []CriticalNeedsHuman
<1>1. AskIsTyped => CriticalNeedsHuman
  BY DEF AskIsTyped, CriticalNeedsHuman, Decision, GateAsks, CheckPolicy, PolicyMatrix, ClampLevel,
         RiskOrder, RoleMaxRisk, KnownRoles, RoleRiskMap
<1> QED
  BY <1>1, AsksHold, PTL

\* More autonomy or a higher role never takes a permission away, and less
\* confidence never gives one.
THEOREM DecisionsAreMonotone == GateSpec => DecisionMonotone
<1>1. ASSUME AskIsTyped
      PROVE  /\ RaiseLevel \/ RaiseRole => Permits[Decision(gateAsk')] >= Permits[Decision(gateAsk)]
             /\ LoseConfidence => Permits[Decision(gateAsk')] <= Permits[Decision(gateAsk)]
  <2>1. gateAsk.level \in Int /\ gateAsk.low \in BOOLEAN /\ RiskOf(gateAsk) \in RiskLevels
    BY <1>1, RiskIsKnown DEF AskIsTyped, GateAsks, RiskOf
  <2>2. ASSUME RaiseLevel PROVE Permits[Decision(gateAsk')] >= Permits[Decision(gateAsk)]
    <3>1. /\ gateAsk'.shape = gateAsk.shape /\ gateAsk'.type = gateAsk.type
          /\ gateAsk'.level = gateAsk.level + 1
          /\ gateAsk'.low = gateAsk.low /\ gateAsk'.role = gateAsk.role
      BY <1>1, <2>2 DEF RaiseLevel, AskIsTyped, GateAsks
    <3> QED
      BY <2>1, <3>1, LevelRaises DEF Decision, RiskOf
  <2>3. ASSUME RaiseRole PROVE Permits[Decision(gateAsk')] >= Permits[Decision(gateAsk)]
    <3>1. /\ gateAsk'.shape = gateAsk.shape /\ gateAsk'.type = gateAsk.type
          /\ gateAsk'.level = gateAsk.level
          /\ gateAsk'.low = gateAsk.low
          /\ RiskOrder[RoleMaxRisk(gateAsk'.role)] > RiskOrder[RoleMaxRisk(gateAsk.role)]
      BY <1>1, <2>3 DEF RaiseRole, AskIsTyped, GateAsks
    <3> QED
      BY <2>1, <3>1, RoleRaises DEF Decision, RiskOf
  <2>4. ASSUME LoseConfidence PROVE Permits[Decision(gateAsk')] <= Permits[Decision(gateAsk)]
    <3>1. /\ gateAsk'.shape = gateAsk.shape /\ gateAsk'.type = gateAsk.type
          /\ gateAsk'.level = gateAsk.level
          /\ gateAsk'.low = TRUE /\ gateAsk.low = FALSE
          /\ gateAsk'.role = gateAsk.role
      BY <1>1, <2>1, <2>4 DEF LoseConfidence, AskIsTyped, GateAsks
    <3> QED
      BY <2>1, <3>1, DoubtLowers DEF Decision, RiskOf
  <2> QED
    BY <2>2, <2>3, <2>4
<1> QED
  BY <1>1, AsksHold, PTL DEF GateSpec, DecisionMonotone
=============================================================================
