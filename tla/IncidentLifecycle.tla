------------------------- MODULE IncidentLifecycle -------------------------
(***************************************************************************)
(* Status updates of incidents (api/v1/incidents.py): PUT                  *)
(* /incidents/{id}/status loads the row, validates the transition against  *)
(* what it has loaded, and commits.  The row is not locked, and the        *)
(* UPDATE names only the row's id: requests that overlap write over each   *)
(* other.                                                                  *)
(***************************************************************************)
EXTENDS FiniteSets, Integers

CONSTANTS Incidents, Requests

ASSUME RequestsAssumption == IsFiniteSet(Requests)

VARIABLES
  status,       \* Incidents -> incidents.status
  acknowledged, \* Incidents -> acknowledged_at is set
  resolved,     \* Incidents -> resolved_at is set
  version,      \* Incidents -> number of updates committed so far
  updateStep,           \* Requests -> the step it has reached
  asked,        \* Requests -> the incident and the status it asks for
  loaded        \* Requests -> the row as its session has loaded it

rowVars == <<status, acknowledged, resolved, version>>
incidentVars == <<rowVars, updateStep, asked, loaded>>

Statuses == {"open", "acknowledged", "in_progress", "resolved", "closed"}

\* The states a request may name: closed is not one of them.
StatusUpdate == {"acknowledged", "in_progress", "resolved"}

\* The transition table with the entry of a state that has been acted on
\* given back to one that has not.
MutValidTransitions(s) ==
  IF s = "open" THEN {"acknowledged", "in_progress", "resolved"}
  ELSE IF s = "acknowledged" THEN {"in_progress", "resolved"}
  ELSE IF s = "in_progress" THEN {"acknowledged", "resolved"}
  ELSE IF s = "resolved" THEN {"closed"} ELSE {}

ValidTransitions(s) ==
  IF s = "open" THEN {"acknowledged", "in_progress", "resolved"}
  ELSE IF s = "acknowledged" THEN {"in_progress", "resolved"}
  ELSE IF s = "in_progress" THEN {"resolved"}
  ELSE IF s = "resolved" THEN {"closed"} ELSE {}

IncidentInit ==
  /\ status = [i \in Incidents |-> "open"]
  /\ acknowledged = [i \in Incidents |-> FALSE]
  /\ resolved = [i \in Incidents |-> FALSE]
  /\ version = [i \in Incidents |-> 0]
  /\ updateStep = [r \in Requests |-> "idle"]
  /\ asked \in [Requests -> [incident : Incidents, status : StatusUpdate]]
  /\ loaded = [r \in Requests |-> [status |-> "open", acknowledged |-> FALSE, version |-> 0]]

\* The row is loaded and the transition validated, with no await between.
Load(r) ==
  LET i == asked[r].incident IN
  /\ updateStep[r] = "idle"
  /\ IF asked[r].status \in ValidTransitions(status[i])
     THEN /\ updateStep' = [updateStep EXCEPT ![r] = "validated"]
          /\ loaded' = [loaded EXCEPT ![r] =
               [status |-> status[i], acknowledged |-> acknowledged[i], version |-> version[i]]]
     ELSE /\ updateStep' = [updateStep EXCEPT ![r] = "refused"]
          /\ UNCHANGED loaded
  /\ UNCHANGED <<rowVars, asked>>

\* An update that sets acknowledged_at only on the way to a resolution.
MutUpdate(r) ==
  LET i == asked[r].incident  s == asked[r].status IN
  /\ updateStep[r] = "validated"
  /\ status' = [status EXCEPT ![i] = s]
  /\ acknowledged' = [acknowledged EXCEPT ![i] = @ \/ s = "resolved"]
  /\ resolved' = [resolved EXCEPT ![i] = @ \/ s = "resolved"]
  /\ version' = [version EXCEPT ![i] = @ + 1]
  /\ updateStep' = [updateStep EXCEPT ![r] = "committed"]
  /\ UNCHANGED <<asked, loaded>>

\* The columns the handler has set are committed: the status, and the time
\* that belongs to it.
Update(r) ==
  LET i == asked[r].incident  s == asked[r].status IN
  /\ updateStep[r] = "validated"
  /\ status' = [status EXCEPT ![i] = s]
  /\ acknowledged' = [acknowledged EXCEPT ![i] =
                        @ \/ (s = "acknowledged" /\ ~loaded[r].acknowledged)]
  /\ resolved' = [resolved EXCEPT ![i] = @ \/ s = "resolved"]
  /\ version' = [version EXCEPT ![i] = @ + 1]
  /\ updateStep' = [updateStep EXCEPT ![r] = "committed"]
  /\ UNCHANGED <<asked, loaded>>

\* The commit fails, or the request is dropped, and the session is rolled
\* back.
Abort(r) ==
  /\ updateStep[r] = "validated"
  /\ updateStep' = [updateStep EXCEPT ![r] = "aborted"]
  /\ UNCHANGED <<rowVars, asked, loaded>>

IncidentNext == \E r \in Requests : Load(r) \/ Update(r) \/ Abort(r)

IncidentSpec == IncidentInit /\ [][IncidentNext]_incidentVars

-----------------------------------------------------------------------------
IncidentTypeOK ==
  /\ status \in [Incidents -> Statuses]
  /\ acknowledged \in [Incidents -> BOOLEAN]
  /\ resolved \in [Incidents -> BOOLEAN]
  /\ version \in [Incidents -> 0..Cardinality(Requests)]
  /\ updateStep \in [Requests -> {"idle", "refused", "validated", "committed", "aborted"}]
  /\ asked \in [Requests -> [incident : Incidents, status : StatusUpdate]]
  /\ loaded \in [Requests -> [status : Statuses, acknowledged : BOOLEAN, version : 0..Cardinality(Requests)]]

Rank(s) ==
  IF s = "open" THEN 0 ELSE IF s = "acknowledged" THEN 1
  ELSE IF s = "in_progress" THEN 2 ELSE IF s = "resolved" THEN 3 ELSE 4

\* A status comes with its time, whichever updates overlapped: what is
\* acknowledged has acknowledged_at, what is resolved has resolved_at, and an
\* incident that has been touched is not open.
TimesFitStatus ==
  \A i \in Incidents :
     /\ status[i] = "acknowledged" => acknowledged[i]
     /\ status[i] = "resolved" => resolved[i]
     /\ status[i] = "open" <=> version[i] = 0

\* An update of a row that has not changed since it was loaded moves the
\* incident forward in its lifecycle, and no update, stale or not, takes
\* back a time that was recorded or opens the incident again.
UpdatesKeepHistory ==
  [][ \A r \in Requests :
        LET i == asked[r].incident IN
        updateStep[r] = "validated" /\ updateStep'[r] = "committed" =>
          /\ version[i] = loaded[r].version => Rank(status'[i]) > Rank(status[i])
          /\ acknowledged[i] => acknowledged'[i]
          /\ resolved[i] => resolved'[i]
          /\ status'[i] # "open" ]_incidentVars

-----------------------------------------------------------------------------
\* The lifecycle of an incident: open, acknowledged, in_progress, resolved,
\* closed, in this order.
LifecycleForward ==
  [][\A i \in Incidents : Rank(status'[i]) >= Rank(status[i])]_incidentVars
=============================================================================
