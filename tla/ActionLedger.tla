---------------------------- MODULE ActionLedger ----------------------------
(***************************************************************************)
(* What the execution engine promises about write operations, without      *)
(* saying how a request is classified, which session holds its row or      *)
(* where a process dies.  An action has one verdict.  A statement runs     *)
(* under a permit: the gate issues one for an action it grants, a human    *)
(* one at a time for an action recorded as pending.  A permit is used      *)
(* once, for at most one effect.  The record of an action follows its      *)
(* verdict and never claims an effect that did not happen; the log has the *)
(* granted actions that are recorded.                                      *)
(***************************************************************************)
EXTENDS Naturals

CONSTANTS Actions, Humans

VARIABLES
  verdict,   \* Actions -> what the gate says, "none" before it is asked
  issued,    \* the permits that have been issued
  used,      \* those that are used up, with or without an effect
  effects,   \* Actions -> how often it took effect on the target
  record,    \* Actions -> its recorded status, or "none"
  log        \* the actions with an entry in the decision log

ledgerVars == <<verdict, issued, used, effects, record, log>>

GatePermit(c) == [by |-> "gate", holder |-> c, action |-> c]
HumanPermit(a, c) == [by |-> "human", holder |-> a, action |-> c]

Init ==
  /\ verdict = [c \in Actions |-> "none"]
  /\ issued = {} /\ used = {}
  /\ effects = [c \in Actions |-> 0]
  /\ record = [c \in Actions |-> "none"]
  /\ log = {}

Judge(c, v) ==
  /\ verdict[c] = "none"
  /\ verdict' = [verdict EXCEPT ![c] = v]
  /\ issued' = IF v = "execute" THEN issued \cup {GatePermit(c)} ELSE issued
  /\ UNCHANGED <<used, effects, record, log>>

\* A human approves once, an action that is pending at that moment.
Approve(a, c) ==
  /\ record[c] = "pending"
  /\ \A p \in issued : p.by = "human" => p.holder # a
  /\ issued' = issued \cup {HumanPermit(a, c)}
  /\ UNCHANGED <<verdict, used, effects, record, log>>

UsePermit(p, effect) ==
  /\ p \in issued \ used
  /\ used' = used \cup {p}
  /\ effects' = [effects EXCEPT ![p.action] = @ + effect]
  /\ UNCHANGED <<verdict, issued, record, log>>

\* The statuses an action may be recorded with for the first time.
FirstStatuses(c) ==
  CASE verdict[c] = "blocked" -> {"blocked"}
    [] verdict[c] = "approve_required" -> {"pending"}
    [] verdict[c] = "execute" /\ GatePermit(c) \in used ->
         IF effects[c] > 0 THEN {"executed", "failed"} ELSE {"failed"}
    [] OTHER -> {}

File(c) ==
  /\ record[c] = "none"
  /\ \E s \in FirstStatuses(c) : record' = [record EXCEPT ![c] = s]
  /\ log' = IF verdict[c] = "execute" THEN log \cup {c} ELSE log
  /\ UNCHANGED <<verdict, issued, used, effects>>

\* What a human has approved, and has been tried, is recorded again.
Amend(a, c) ==
  /\ record[c] # "none"
  /\ verdict[c] = "approve_required" /\ HumanPermit(a, c) \in used
  /\ \E s \in {"executed", "failed"} :
       /\ s = "executed" => effects[c] > 0
       /\ record' = [record EXCEPT ![c] = s]
  /\ UNCHANGED <<verdict, issued, used, effects, log>>

Next ==
  \/ \E c \in Actions :
       \/ \E v \in {"blocked", "approve_required", "execute"} : Judge(c, v)
       \/ File(c)
       \/ \E a \in Humans : Approve(a, c) \/ Amend(a, c)
  \/ \E p \in issued, effect \in {0, 1} : UsePermit(p, effect)

Spec == Init /\ [][Next]_ledgerVars
=============================================================================
