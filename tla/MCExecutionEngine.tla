------------------------- MODULE MCExecutionEngine -------------------------
(* Small instances of ExecutionEngine.                                     *)
EXTENDS ExecutionEngine, TLC

P(type, shape, role) == [type |-> type, shape |-> shape, role |-> role]

\* One proposal per way through the gate: the session kill of the MCP tool
\* (dangerous: blocked, approved or executed by level), an index build that
\* the transaction refuses, and ANALYZE of a table whose name spells a
\* critical pattern, asked for by a super_admin.
SmallProposals ==
  { P("kill_session", "dangerous", "db_admin"),
    P("create_index", "warning", "db_admin"),
    P("analyze_table", "critical", "super_admin") }

\* The session kill alone, for the questions about approvals.
KillOnly == { P("kill_session", "dangerous", "db_admin") }

\* Calls and approvals are interchangeable: no formula orders them.
Symmetry == Permutations(Calls) \cup Permutations(Approvals)
=============================================================================
