-------------------------- MODULE ExecutionEngine --------------------------
(***************************************************************************)
(* The path of a write operation of the DBA agent, from the request that   *)
(* proposes it to the rows it leaves behind (agents/execution_engine.py,   *)
(* called from api/v1/dba.py and mcp/server.py).                           *)
(*                                                                         *)
(* A call is one run of ExecutionEngine.execute, with the system-database  *)
(* session of the handler around it; its action_id is the call itself.     *)
(* An approval is one run of execute_approved.  Steps are cut where the    *)
(* coroutine awaits another system: the system database, the target        *)
(* database.  What a session has written and not committed is the call's   *)
(* own (staged), and is lost when the session closes without a commit or   *)
(* the process dies.                                                       *)
(*                                                                         *)
(* One monitored instance is modelled: nothing in the engine relates two.  *)
(***************************************************************************)
EXTENDS SafetyGuard, FiniteSets

CONSTANTS
  Calls,        \* runs of execute; a call also names its agent_actions row
  Approvals,    \* runs of execute_approved
  Proposals,    \* the ActionRequests that may be asked for, see Proposal
  ChosenLevels, \* the autonomy levels an administrator may set
  Faults        \* may a statement, an insert or a process fail by itself?

\* The requests the handlers can build: one of the ops tools, whose text hits
\* the patterns of its statement unless a name or a value in it spells a
\* critical one (a table called truncate), asked for in some role.
Proposal ==
  { p \in [type : DOMAIN BuiltShape, shape : SqlShapes, role : KnownRoles] :
      p.shape \in {BuiltShape[p.type], "critical"} }

ASSUME ProposalsAssumption == Proposals \subseteq Proposal
ASSUME ChosenLevelsAssumption == ChosenLevels \subseteq Levels
ASSUME FaultsAssumption == Faults \in BOOLEAN
ASSUME ApprovalsAssumption == IsFiniteSet(Approvals)

VARIABLES
  autonomy,     \* db_instances.autonomy_level
  live,         \* db_instances.deleted_at IS NULL
  \* a run of execute
  pc,           \* Calls -> the step it has reached
  prop,         \* Calls -> its ActionRequest
  seen,         \* Calls -> what its handler has read: channel, level, pool
  result,       \* Calls -> ActionResult.status, "none" before there is one
  staged,       \* Calls -> its session holds uncommitted rows
  \* a run of execute_approved
  apc,          \* Approvals -> the step it has reached
  act,          \* Approvals -> the action it approves
  outcome,      \* Approvals -> what its statement came to
  \* the two databases
  rows,         \* Calls -> status of its committed agent_actions row, or "none"
  audits,       \* the calls with a committed ai_decision entry in audit_logs
  applied       \* Calls -> how often its SQL took effect on the target

instanceVars == <<autonomy, live>>
callVars     == <<pc, prop, seen, result, staged>>
approvalVars == <<apc, act, outcome>>
tableVars    == <<rows, audits>>
vars         == <<instanceVars, callVars, approvalVars, tableVars, applied>>

CallSteps == {"idle", "loaded", "granted", "answered", "saved", "closed", "crashed"}
ApprovalSteps == {"idle", "selected", "ran", "closed", "crashed"}
Results == {"blocked", "pending", "executed", "failed"}
RowStatuses == Results \cup {"none"}
Channels == {"ask", "mcp_execute"}

Seen == [channel : Channels, level : Levels, pool : BOOLEAN]

RiskOf(p) == ClassifyRisk(p.shape, p.type)

\* The decision of the gate for the values the call has read.  No ops tool is
\* built with a confidence below 0.5.
Decision(c) == CheckPolicy(RiskOf(prop[c]), seen[c].level, FALSE, prop[c].role)

-----------------------------------------------------------------------------
(* The target database.                                                    *)

\* _execute_with_timeout opens a transaction, and PostgreSQL refuses these
\* statements in one (CREATE INDEX CONCURRENTLY, VACUUM, REINDEX
\* CONCURRENTLY, ALTER SYSTEM).
RefusedInTransaction ==
  {"create_index", "vacuum", "vacuum_full", "reindex", "alter_parameter"}

\* What running the statement may come to: the result the engine sees, and
\* whether it took effect.  A lost connection or a timeout while the commit
\* is acknowledged makes the engine see a failure of what was done.
SqlOutcomes(p, pool) ==
  IF ~pool \/ p.type \in RefusedInTransaction
  THEN {<<"failed", 0>>}
  ELSE {<<"executed", 1>>} \cup (IF Faults THEN {<<"failed", 0>>, <<"failed", 1>>} ELSE {})

-----------------------------------------------------------------------------
Init ==
  /\ autonomy \in ChosenLevels
  /\ live = TRUE
  /\ pc = [c \in Calls |-> "idle"]
  /\ prop \in [Calls -> Proposals]
  /\ seen = [c \in Calls |-> [channel |-> "ask", level |-> 0, pool |-> FALSE]]
  /\ result = [c \in Calls |-> "none"]
  /\ staged = [c \in Calls |-> FALSE]
  /\ apc = [a \in Approvals |-> "idle"]
  /\ act \in [Approvals -> Calls]
  /\ outcome = [a \in Approvals |-> "none"]
  /\ rows = [c \in Calls |-> "none"]
  /\ audits = {}
  /\ applied = [c \in Calls |-> 0]

-----------------------------------------------------------------------------
(* An administrator edits or deletes the instance between any two steps.   *)

SetAutonomy ==
  /\ live
  /\ \E l \in ChosenLevels \ {autonomy} : autonomy' = l
  /\ UNCHANGED <<live, callVars, approvalVars, tableVars, applied>>

DeleteInstance ==
  /\ live
  /\ live' = FALSE
  /\ UNCHANGED <<autonomy, callVars, approvalVars, tableVars, applied>>

-----------------------------------------------------------------------------
(* execute, and the handlers around it.                                    *)

\* The instance row is read once; the level used by the gate is this copy.
Load(c, channel, pool) ==
  /\ pc[c] = "idle"
  /\ live
  /\ pc' = [pc EXCEPT ![c] = "loaded"]
  /\ seen' = [seen EXCEPT ![c] = [channel |-> channel, level |-> autonomy, pool |-> pool]]
  /\ UNCHANGED <<instanceVars, prop, result, staged, approvalVars, tableVars, applied>>

\* POST /dba/ask: the question is parsed into one of five operations; a pool
\* that cannot be opened is only logged.
AskDba(c) ==
  /\ prop[c].type \in {"create_index", "vacuum", "vacuum_full", "kill_session", "analyze_table"}
  /\ \E pool \in (IF Faults THEN BOOLEAN ELSE {TRUE}) : Load(c, "ask", pool)

\* The MCP tool acts as a db_admin, and gives up when the target cannot be
\* reached.
McpExecute(c) ==
  /\ prop[c].role = "db_admin"
  /\ Load(c, "mcp_execute", TRUE)

\* The call goes on to its statement, or has its answer.
Grant(c) == /\ pc' = [pc EXCEPT ![c] = "granted"]
            /\ UNCHANGED result

Answer(c, r) == /\ pc' = [pc EXCEPT ![c] = "answered"]
                /\ result' = [result EXCEPT ![c] = r]

\* A gate that grants whatever it does not block.
MutGate(c) ==
  /\ pc[c] = "loaded"
  /\ IF Decision(c) = "blocked" THEN Answer(c, "blocked") ELSE Grant(c)
  /\ UNCHANGED <<instanceVars, prop, seen, staged, approvalVars, tableVars, applied>>

\* A gate that answers with the policy's word for the status.
MutGateStatus(c) ==
  /\ pc[c] = "loaded"
  /\ IF Decision(c) = "execute" THEN Grant(c) ELSE Answer(c, Decision(c))
  /\ UNCHANGED <<instanceVars, prop, seen, staged, approvalVars, tableVars, applied>>

\* Classify, then the policy gate: blocked and approve_required answer at
\* once, execute goes on to the pre-check.
Gate(c) ==
  /\ pc[c] = "loaded"
  /\ \/ Decision(c) = "execute" /\ Grant(c)
     \/ Decision(c) = "blocked" /\ Answer(c, "blocked")
     \/ Decision(c) = "approve_required" /\ Answer(c, "pending")
  /\ UNCHANGED <<instanceVars, prop, seen, staged, approvalVars, tableVars, applied>>

\* A statement that is tried again when it has failed.
MutRunSql(c) ==
  /\ pc[c] = "granted"
  /\ \E o \in SqlOutcomes(prop[c], seen[c].pool) :
        /\ IF o[1] = "failed" THEN UNCHANGED <<pc, result>> ELSE Answer(c, o[1])
        /\ applied' = [applied EXCEPT ![c] = @ + o[2]]
  /\ UNCHANGED <<instanceVars, prop, seen, staged, approvalVars, tableVars>>

\* Pre-check, statement, post-check.  What the simulation of the pre-check
\* says is kept with the row and decides nothing.
RunSql(c) ==
  /\ pc[c] = "granted"
  /\ \E o \in SqlOutcomes(prop[c], seen[c].pool) :
        /\ Answer(c, o[1])
        /\ applied' = [applied EXCEPT ![c] = @ + o[2]]
  /\ UNCHANGED <<instanceVars, prop, seen, staged, approvalVars, tableVars>>

\* The row is inserted and flushed, and for a statement that was run the
\* decision log after it.  Both swallow their errors, and an error in either
\* aborts the transaction they share, so that nothing is left to commit.
SaveAction(c) ==
  /\ pc[c] = "answered"
  /\ pc' = [pc EXCEPT ![c] = "saved"]
  /\ \E ok \in (IF Faults THEN BOOLEAN ELSE {TRUE}) : staged' = [staged EXCEPT ![c] = ok]
  /\ UNCHANGED <<instanceVars, prop, seen, result, approvalVars, tableVars, applied>>

\* A commit after the insert of the row and before that of the decision log.
MutCloseSession(c) ==
  /\ pc[c] = "saved"
  /\ pc' = [pc EXCEPT ![c] = "closed"]
  /\ IF seen[c].channel = "mcp_execute"
     THEN /\ rows' = [rows EXCEPT ![c] = result[c]]
          /\ audits' = IF result[c] \in {"executed", "failed"} /\ staged[c]
                       THEN audits \cup {c} ELSE audits
     ELSE UNCHANGED tableVars
  /\ UNCHANGED <<instanceVars, prop, seen, result, staged, approvalVars, applied>>

\* The MCP tool commits; /dba/ask returns and its session is closed, which
\* rolls back.
CloseSession(c) ==
  /\ pc[c] = "saved"
  /\ pc' = [pc EXCEPT ![c] = "closed"]
  /\ IF seen[c].channel = "mcp_execute" /\ staged[c]
     THEN /\ rows' = [rows EXCEPT ![c] = result[c]]
          /\ audits' = IF result[c] \in {"executed", "failed"}
                       THEN audits \cup {c} ELSE audits
     ELSE UNCHANGED tableVars
  /\ UNCHANGED <<instanceVars, prop, seen, result, staged, approvalVars, applied>>

\* The process dies, or the commit raises: the statement, if it ran, has run;
\* the session is lost.
Crash(c) ==
  /\ Faults
  /\ pc[c] \in {"loaded", "granted", "answered", "saved"}
  /\ pc' = [pc EXCEPT ![c] = "crashed"]
  /\ UNCHANGED <<instanceVars, prop, seen, result, staged, approvalVars, tableVars, applied>>

-----------------------------------------------------------------------------
(* execute_approved.                                                       *)

\* A selection by id alone.
MutSelectPending(a, c) ==
  /\ apc[a] = "idle"
  /\ rows[c] # "none"
  /\ apc' = [apc EXCEPT ![a] = "selected"]
  /\ act' = [act EXCEPT ![a] = c]
  /\ UNCHANGED <<instanceVars, callVars, outcome, tableVars, applied>>

\* SELECT ... WHERE id = :id AND status = 'pending', without a lock.  An
\* action that is not pending is answered with an error and nothing changes.
SelectPending(a, c) ==
  /\ apc[a] = "idle"
  /\ rows[c] = "pending"
  /\ apc' = [apc EXCEPT ![a] = "selected"]
  /\ act' = [act EXCEPT ![a] = c]
  /\ UNCHANGED <<instanceVars, callVars, outcome, tableVars, applied>>

\* The stored statement runs as it stands: no classification, no gate.
RunApproved(a) ==
  /\ apc[a] = "selected"
  /\ apc' = [apc EXCEPT ![a] = "ran"]
  /\ \E o \in SqlOutcomes(prop[act[a]], TRUE) :
        /\ outcome' = [outcome EXCEPT ![a] = o[1]]
        /\ applied' = [applied EXCEPT ![act[a]] = @ + o[2]]
  /\ UNCHANGED <<instanceVars, callVars, act, tableVars>>

\* An update that records success whatever the statement came to.
MutRecordApproved(a) ==
  /\ apc[a] = "ran"
  /\ apc' = [apc EXCEPT ![a] = "closed"]
  /\ rows' = [rows EXCEPT ![act[a]] = "executed"]
  /\ UNCHANGED <<instanceVars, callVars, act, outcome, audits, applied>>

\* An update that is not committed.
MutRecordUncommitted(a) ==
  /\ apc[a] = "ran"
  /\ apc' = [apc EXCEPT ![a] = "closed"]
  /\ UNCHANGED <<instanceVars, callVars, act, outcome, tableVars, applied>>

\* UPDATE ... WHERE id = :id and commit, whatever the row's status is by now.
RecordApproved(a) ==
  /\ apc[a] = "ran"
  /\ apc' = [apc EXCEPT ![a] = "closed"]
  /\ rows' = [rows EXCEPT ![act[a]] = outcome[a]]
  /\ UNCHANGED <<instanceVars, callVars, act, outcome, audits, applied>>

\* The process dies, or the update raises and nothing is committed.
CrashApproval(a) ==
  /\ Faults
  /\ apc[a] \in {"selected", "ran"}
  /\ apc' = [apc EXCEPT ![a] = "crashed"]
  /\ UNCHANGED <<instanceVars, callVars, act, outcome, tableVars, applied>>

-----------------------------------------------------------------------------
CallStep(c) ==
  \/ AskDba(c) \/ McpExecute(c) \/ Gate(c) \/ RunSql(c)
  \/ SaveAction(c) \/ CloseSession(c) \/ Crash(c)

ApprovalStep(a) ==
  \/ \E c \in Calls : SelectPending(a, c)
  \/ RunApproved(a) \/ RecordApproved(a) \/ CrashApproval(a)

Next ==
  \/ SetAutonomy \/ DeleteInstance
  \/ \E c \in Calls : CallStep(c)
  \/ \E a \in Approvals : ApprovalStep(a)

Spec == Init /\ [][Next]_vars

-----------------------------------------------------------------------------
(* Properties.                                                             *)

\* Every variable keeps its type; in particular the statuses that reach the
\* table are those of ActionResult, never the policy's own words.
TypeOK ==
  /\ autonomy \in Levels
  /\ live \in BOOLEAN
  /\ pc \in [Calls -> CallSteps]
  /\ prop \in [Calls -> Proposals]
  /\ seen \in [Calls -> Seen]
  /\ result \in [Calls -> RowStatuses]
  /\ staged \in [Calls -> BOOLEAN]
  /\ apc \in [Approvals -> ApprovalSteps]
  /\ act \in [Approvals -> Calls]
  /\ outcome \in [Approvals -> {"none", "executed", "failed"}]
  /\ rows \in [Calls -> RowStatuses]
  /\ audits \subseteq Calls
  /\ applied \in [Calls -> Nat]

\* An approval whose statement has been sent for call c.
RunBy(a, c) == act[a] = c /\ apc[a] \in {"ran", "closed", "crashed"}

\* A statement reaches the target database only if the gate granted it for
\* the level the call read, or if the gate asked for a human and an approval
\* of exactly this action ran it: no interleaving of calls, approvals,
\* crashes and edits of the instance gets a statement past the gate.
EffectsAuthorised ==
  \A c \in Calls : applied[c] > 0 =>
     \/ Decision(c) = "execute"
     \/ Decision(c) = "approve_required" /\ \E a \in Approvals : RunBy(a, c)

\* The grants that have been used for call c: the gate's own, and one for
\* each approval whose statement has been sent.
GateUsed(c) ==
  IF Decision(c) = "execute" /\ pc[c] \in {"answered", "saved", "closed", "crashed"} THEN 1 ELSE 0
GrantsUsed(c) == GateUsed(c) + Cardinality({a \in Approvals : RunBy(a, c)})

\* A grant is good for one effect: a statement never takes effect more often
\* than the gate has granted it and humans have approved it, though answers
\* are lost after the effect, rows stay pending behind it and processes die.
OneEffectPerGrant == \A c \in Calls : applied[c] <= GrantsUsed(c)

\* The engine implements the ledger of actions.  A call has its verdict as
\* soon as its handler has read the level, since nothing the gate looks at
\* changes after that.
GatePermits(steps) ==
  { [by |-> "gate", holder |-> c, action |-> c] :
      c \in {d \in Calls : pc[d] \in steps /\ Decision(d) = "execute"} }
HumanPermits(steps) ==
  { [by |-> "human", holder |-> a, action |-> act[a]] : a \in {b \in Approvals : apc[b] \in steps} }

Ledger == INSTANCE ActionLedger WITH
  Actions <- Calls,
  Humans  <- Approvals,
  verdict <- [c \in Calls |-> IF pc[c] = "idle" THEN "none" ELSE Decision(c)],
  issued  <- GatePermits(CallSteps \ {"idle"}) \cup HumanPermits(ApprovalSteps \ {"idle"}),
  used    <- GatePermits({"answered", "saved", "closed", "crashed"})
               \cup HumanPermits({"ran", "closed", "crashed"}),
  effects <- applied,
  record  <- rows,
  log     <- audits

\* Whatever interleaves, fails or dies, the engine does what the ledger
\* allows (ExecutionEngine.execute, execute_approved and their callers).
ImplementsLedger == Ledger!Spec

\* The table never claims more than was done: a row that says executed stands
\* for a statement that took effect, however approvals and crashes interleave.
ExecutedRowHasEffect == \A c \in Calls : rows[c] = "executed" => applied[c] > 0

\* A granted statement's row and its decision-log entry are committed
\* together or not at all, whichever of the two inserts fails.
RowAndAuditTogether ==
  \A c \in Calls :
     c \in audits <=> rows[c] \in {"executed", "failed"} /\ Decision(c) = "execute"

\* If a row still says pending although its statement took effect, an
\* approval is between the statement and its update, or died there: nothing
\* else leaves the table behind the target.
PendingRowBehindTarget ==
  \A c \in Calls : rows[c] = "pending" /\ applied[c] > 0 =>
     \E a \in Approvals : act[a] = c /\ apc[a] \in {"ran", "crashed"}

\* A critical statement never takes effect unless a super_admin asked for it
\* and a human approved it: with the matrix and the role ceilings of the code
\* not even an L4 instance lets one through on its own.
CriticalNeverUnattended ==
  \A c \in Calls : applied[c] > 0 /\ RiskOf(prop[c]) = "critical" =>
     prop[c].role = "super_admin" /\ \E a \in Approvals : RunBy(a, c)

\* A row is never taken back: once committed it does not return to pending,
\* and only the row of an action that needed approval changes at all.
RowsOnlyMoveForward ==
  [][ \A c \in Calls : rows[c] # "none" /\ rows'[c] # rows[c] =>
         /\ Decision(c) = "approve_required"
         /\ rows'[c] \in {"executed", "failed"} ]_vars

-----------------------------------------------------------------------------
(* The inductive strengthening of the properties above.                    *)

\* Before its statement may run, a call has no effect; before its session is
\* closed, it has no row.
NothingTooEarly ==
  \A c \in Calls :
     /\ pc[c] \in {"idle", "loaded", "granted"} => applied[c] = 0
     /\ pc[c] # "closed" => rows[c] = "none"

\* Where a call is, and the answer it carries, are what the gate decided.
CallFitsGate ==
  \A c \in Calls :
     /\ pc[c] = "granted" => Decision(c) = "execute"
     /\ pc[c] \in {"answered", "saved", "closed"} =>
          /\ result[c] = "blocked" => Decision(c) = "blocked"
          /\ result[c] = "pending" => Decision(c) = "approve_required"
          /\ result[c] \in {"executed", "failed"} => Decision(c) = "execute"
          /\ result[c] = "executed" => applied[c] > 0

\* So is the row, except that an approval may have overwritten it.
RowFitsGate ==
  \A c \in Calls :
     /\ rows[c] = "blocked" => Decision(c) = "blocked"
     /\ rows[c] = "pending" => Decision(c) = "approve_required"
     /\ rows[c] = "executed" => applied[c] > 0

\* An approval works on a committed row that asked for it, and reports what
\* its statement did.
ApprovalFitsRow ==
  \A a \in Approvals :
     /\ apc[a] # "idle" => rows[act[a]] # "none" /\ Decision(act[a]) = "approve_required"
     /\ apc[a] = "ran" =>
          /\ outcome[a] \in {"executed", "failed"}
          /\ outcome[a] = "executed" => applied[act[a]] > 0

ActionInv ==
  /\ NothingTooEarly
  /\ CallFitsGate
  /\ RowFitsGate
  /\ ApprovalFitsRow
  /\ EffectsAuthorised
  /\ RowAndAuditTogether
  /\ PendingRowBehindTarget

-----------------------------------------------------------------------------
(* What the documentation says and the code does not do.                   *)

\* Acceptance criteria 4 and 16: the history of every action is kept in
\* agent_actions, and every execution is in the decision log.
HistoryKept ==
  \A c \in Calls : pc[c] = "closed" =>
     /\ rows[c] # "none"
     /\ applied[c] > 0 => c \in audits

\* execute_approved executes a pending action, and answers "not in pending
\* status" otherwise: a statement is not run for a row that is not pending.
ApprovedOnlyWhilePending ==
  [][ \A a \in Approvals :
         apc[a] = "selected" /\ apc'[a] = "ran" => rows[act[a]] = "pending" ]_vars
=============================================================================
