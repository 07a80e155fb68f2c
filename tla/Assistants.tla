----------------------------- MODULE Assistants -----------------------------
(***************************************************************************)
(* The agents that ask a language model and go on with what it says:       *)
(*   tuning    POST /tuning/analyze: NativeToolAgent when Claude has a     *)
(*             key, else the ReAct loop of DBTuningAgent                   *)
(*   analyze   the same native agent behind the DBA conversation           *)
(*   diagnose  DBCopilotAgent behind the DBA conversation, with retries    *)
(*   unclear   a question to the DBA conversation whose intent the model   *)
(*             classifies first                                            *)
(*   copilot   POST /copilot/diagnose, without                             *)
(*   rca       POST /mtl/predict, two attempts at a JSON answer            *)
(*   nl2sql    POST /nl2sql/query, and the intent query of the DBA         *)
(*             conversation: a statement, validated and executed           *)
(* Every answer of the model, its failures included, is a choice of the    *)
(* environment; which providers can be reached changes at any time, and so *)
(* does the autonomy level of the instance.                                *)
(*                                                                         *)
(* Prompts, texts and the results of the diagnostic tools are left out: a  *)
(* reply is what the code tells apart.                                     *)
(***************************************************************************)
EXTENDS Integers, Sequences, FiniteSets

CONSTANTS Questions,
          Providers,      \* usable ones are drawn from these
          MaxIterations,  \* rounds of a tool loop, 8 and 5 in the code
          RcaAttempts,    \* 2
          MaxRetries,     \* 3, retry_llm_call for diagnose
          BranchAnswers,  \* what the model may return: sets of branches
          AutonomyLevels  \* of the instance

\* A branch as it stands in the JSON answer: each score, in tenths, is there or
\* not.  What the schema refuses (a score above its limit) raises.
ScoreKeys == {"relevance", "evidence", "action", "risk"}
RawBranches == UNION { [given -> 0..10] : given \in SUBSET ScoreKeys }

ASSUME AssistantAssumption ==
  /\ MaxIterations \in Nat \ {0} /\ RcaAttempts \in Nat \ {0} /\ MaxRetries \in Nat
  /\ AutonomyLevels \subseteq Nat
  /\ \A branches \in BranchAnswers : \A b \in branches : b \in RawBranches

VARIABLES usable,     \* providers that have a key (ollama: that answers); a call may still fail
          configured, \* settings.AI_PROVIDER
          diagnosisLevel, \* autonomy_level of the instance
          question    \* the questions under way

assistantVars == <<usable, configured, diagnosisLevel, question>>

Kinds == {"tuning", "analyze", "diagnose", "copilot", "rca", "nl2sql"}

\* The handlers of the DBA conversation that ask a model, by intent; "execute"
\* and "status" have handlers that do not.
HandlerOf == [analyze |-> "analyze", diagnose |-> "diagnose", query |-> "nl2sql"]
NoProvider == "none"

\* get_llm: the configured provider, else the first of the others.
FallbackOrder == <<"anthropic", "openai", "google", "ollama">>
GetLlm ==
  IF configured \in usable THEN configured
  ELSE LET others == { i \in DOMAIN FallbackOrder : FallbackOrder[i] \in usable }
       IN  IF others = {} THEN NoProvider
           ELSE FallbackOrder[CHOOSE i \in others : \A j \in others : i <= j]

Waiting == {"classify", "native", "react", "synthesis", "rca", "branches", "generate", "execute"}

\* No branch of an answer: what the diagnosis of a failed call rests on.
NoBranch == [key \in {} |-> 0]

NotPut == [ kind |-> "none", unclear |-> FALSE, pc |-> "idle", calls |-> 0, round |-> 0,
            seen |-> {}, level |-> 0, auto |-> FALSE, best |-> NoBranch, outcome |-> "none" ]

AssistantInit ==
  /\ usable = Providers
  /\ configured \in Providers
  /\ diagnosisLevel \in AutonomyLevels
  /\ question = [q \in Questions |-> NotPut]

Finish(q, outcome) == question' = [question EXCEPT ![q].pc = "done", ![q].outcome = outcome]

\* The next call of the model is sent.
Call(q, next, round) ==
  question' = [question EXCEPT ![q].pc = next, ![q].round = round, ![q].calls = @ + 1]

Env == <<usable, configured, diagnosisLevel>>

\* Keys are set or cleared, providers come and go, the level is changed.
ProvidersChange(now, provider) ==
  /\ usable' = now /\ configured' = provider
  /\ UNCHANGED <<diagnosisLevel, question>>

LevelChanges(level) ==
  /\ diagnosisLevel' = level
  /\ question' = [q \in Questions |-> [question[q] EXCEPT
       !.seen = IF question[q].pc \in Waiting THEN @ \cup {level} ELSE @]]
  /\ UNCHANGED <<usable, configured>>

-----------------------------------------------------------------------------
\* A question arrives; its first call is sent, or no provider can be had.
FirstCall(kind) ==
  IF kind \in {"tuning", "analyze"}
  THEN IF "anthropic" \in usable THEN "native" ELSE "react"
  ELSE IF kind \in {"diagnose", "copilot"} THEN "branches"
  ELSE IF kind = "rca" THEN "rca" ELSE "generate"

\* Question s once the handler of its kind has sent its first call.
Begun(s, kind) ==
  LET first == FirstCall(kind) IN
  IF first # "native" /\ GetLlm = NoProvider
  THEN [s EXCEPT !.kind = kind, !.pc = "done", !.outcome = "unavailable"]
  ELSE [s EXCEPT !.kind = kind, !.pc = first, !.round = IF first = "native" THEN 0 ELSE 1,
                 !.calls = @ + 1]

Ask(q, kind, auto) ==
  /\ question[q].pc = "idle"
  /\ question' = [question EXCEPT ![q] =
       Begun([NotPut EXCEPT !.seen = {diagnosisLevel},
                !.level = IF kind = "copilot" THEN diagnosisLevel ELSE 0,
                !.auto = (kind = "copilot" /\ auto)], kind)]
  /\ UNCHANGED Env

\* classify_intent_with_llm: a question to the DBA conversation whose keywords
\* (and flow) leave its intent open costs a call of its own.  Without a model
\* it is taken for "analyze".
AskUnclear(q) ==
  LET asked == [NotPut EXCEPT !.seen = {diagnosisLevel}, !.unclear = TRUE] IN
  /\ question[q].pc = "idle"
  /\ question' = [question EXCEPT ![q] =
       IF GetLlm = NoProvider THEN Begun(asked, "analyze")
       ELSE [asked EXCEPT !.pc = "classify", !.calls = 1]]
  /\ UNCHANGED Env

\* The model has named an intent; a call that fails, and an answer that names
\* none, count as "analyze".
Classified(q, intent) ==
  /\ question[q].pc = "classify"
  /\ IF intent \in DOMAIN HandlerOf
     THEN question' = [question EXCEPT ![q] = Begun(question[q], HandlerOf[intent])]
     ELSE Finish(q, "routed")
  /\ UNCHANGED Env

\* NativeToolAgent.analyze: run the tools asked for and call again, while
\* iterations are left; without a text block the answer is empty.
MutMoreTools(q) == question[q].round <= MaxIterations + 1
MoreTools(q) == question[q].round < MaxIterations

NativeReply(q, stop) ==
  /\ question[q].pc = "native"
  /\ IF stop = "tool_use" /\ MoreTools(q)
     THEN Call(q, "native", question[q].round + 1)
     ELSE Finish(q, IF stop = "end_turn" THEN "text" ELSE "empty")
  /\ UNCHANGED Env

\* Any exception: the ReAct loop takes over, if a provider can be had.
NativeFails(q) ==
  /\ question[q].pc = "native"
  /\ IF GetLlm = NoProvider THEN Finish(q, "error") ELSE Call(q, "react", 1)
  /\ UNCHANGED Env

\* DBTuningAgent.analyze: an action, an unknown tool or a reply without the
\* format each cost a round; after the last, one call writes a summary.
ReactLimit == IF MaxIterations < 1 THEN 1 ELSE IF MaxIterations > 10 THEN 10 ELSE MaxIterations

ReactReply(q, final) ==
  /\ question[q].pc = "react"
  /\ IF final THEN Finish(q, "text")
     ELSE IF question[q].round < ReactLimit
          THEN Call(q, "react", question[q].round + 1)
          ELSE Call(q, "synthesis", question[q].round)
  /\ UNCHANGED Env

ReactFails(q) ==
  /\ question[q].pc = "react"
  /\ Finish(q, "failure_text")
  /\ UNCHANGED Env

Synthesised(q, ok) ==
  /\ question[q].pc = "synthesis"
  /\ Finish(q, IF ok THEN "text" ELSE "summary")
  /\ UNCHANGED Env

-----------------------------------------------------------------------------
\* mtl_lite.predict: only an answer that is no JSON is asked for again; what
\* is JSON and has the wrong shape raises.
NextAttempt(q) == question[q].round + 1

RcaReply(q) ==
  /\ question[q].pc = "rca"
  /\ \/ Finish(q, "prediction")
     \/ Finish(q, "error")             \* misshapen
     \/ Finish(q, "fallback")          \* the call failed
     \/ IF question[q].round < RcaAttempts                  \* no JSON
        THEN Call(q, "rca", NextAttempt(q)) ELSE Finish(q, "fallback")
  /\ UNCHANGED Env

\* BranchScore.final_score, in thousandths.
FinalScore(b) ==
  LET base == 40 * b.relevance + 30 * b.evidence + 30 * b.action
  IN  IF base > 100 * b.risk THEN base - 100 * b.risk ELSE 0

\* A score the model has left out is 0; for risk that is the most favourable.
MutFilled(b) ==
  [key \in ScoreKeys |-> IF key \in DOMAIN b THEN b[key] ELSE IF key = "risk" THEN 0 ELSE 5]
Filled(b) == [key \in ScoreKeys |-> IF key \in DOMAIN b THEN b[key] ELSE 0]

IsBest(b, branches) == \A other \in branches : FinalScore(Filled(b)) >= FinalScore(Filled(other))

\* What _evaluate_branches and _parse_branch_response put in the place of an
\* answer that did not come or could not be read, for every branch.
ErrorScores == [relevance |-> 1, evidence |-> 1, action |-> 1, risk |-> 0]
ParseScores == [relevance |-> 2, evidence |-> 2, action |-> 2, risk |-> 0]

\* _determine_execution_status; the level is the one read before the call.
\* ("recommended" without a playbook is called copilot_recommended.)
ExecutionStatus(confidence, level, auto) ==
  IF confidence < 500 THEN "blocked"
  ELSE IF ~auto THEN "recommended"
  ELSE IF level >= 3 THEN "executed"
  ELSE IF level >= 2 THEN "awaiting_approval" ELSE "recommended"

Diagnosed(q, best, scores) ==
  question' = [question EXCEPT ![q].pc = "done", ![q].best = best,
    ![q].outcome = ExecutionStatus(FinalScore(scores), question[q].level, question[q].auto)]

\* diagnose(); a branch without a name, or with a score the schema refuses,
\* raises, which only the retry of the DBA conversation catches.
BranchReply(q) ==
  /\ question[q].pc = "branches"
  /\ \/ \E branches \in BranchAnswers : \E best \in branches :
          IsBest(best, branches) /\ Diagnosed(q, best, Filled(best))
     \/ Diagnosed(q, NoBranch, ParseScores)
     \/ Diagnosed(q, NoBranch, ErrorScores)
     \/ IF question[q].kind = "diagnose" /\ question[q].round <= MaxRetries
        THEN Call(q, "branches", question[q].round + 1)
        ELSE Finish(q, "error")
  /\ UNCHANGED Env

\* nl2sql: the statement is validated when it is generated and again before
\* it is executed.
GenerateReply(q) ==
  /\ question[q].pc = "generate"
  /\ \/ question' = [question EXCEPT ![q].pc = "execute"]
     \/ Finish(q, "rejected")
     \/ Finish(q, "unavailable")
  /\ UNCHANGED Env

ExecuteSql(q, ok) ==
  /\ question[q].pc = "execute"
  /\ Finish(q, IF ok THEN "rows" ELSE "not_executable")
  /\ UNCHANGED Env

\* A reply, or the timeout of one.
Replied(q) ==
  \/ \E intent \in DOMAIN HandlerOf \cup {"execute", "status"} : Classified(q, intent)
  \/ \E stop \in {"tool_use", "end_turn", "no_text"} : NativeReply(q, stop)
  \/ NativeFails(q)
  \/ \E final \in BOOLEAN : ReactReply(q, final)
  \/ ReactFails(q)
  \/ \E ok \in BOOLEAN : Synthesised(q, ok)
  \/ RcaReply(q)
  \/ BranchReply(q)
  \/ GenerateReply(q)
  \/ \E ok \in BOOLEAN : ExecuteSql(q, ok)

AssistantNext ==
  \/ \E now \in SUBSET Providers, provider \in Providers : ProvidersChange(now, provider)
  \/ \E level \in AutonomyLevels : LevelChanges(level)
  \/ \E q \in Questions :
       \/ \E kind \in Kinds, auto \in BOOLEAN : Ask(q, kind, auto)
       \/ AskUnclear(q)
       \/ Replied(q)

AssistantSpec == AssistantInit /\ [][AssistantNext]_assistantVars

-----------------------------------------------------------------------------
Outcomes == { "text", "empty", "failure_text", "summary", "prediction", "fallback", "error",
              "unavailable", "blocked", "recommended", "awaiting_approval", "executed",
              "rejected", "rows", "not_executable", "routed" }

AssistantTypeOK ==
  /\ usable \subseteq Providers /\ configured \in Providers
  /\ diagnosisLevel \in AutonomyLevels
  /\ \A q \in Questions :
       LET s == question[q] IN
       /\ s.pc \in Waiting \cup {"idle", "done"}
       /\ s.kind \in Kinds \cup {"none"}
       /\ s.calls \in Nat /\ s.round \in Nat /\ s.best \in RawBranches
       /\ s.outcome \in Outcomes \cup {"none"}

\* The calls of its handler a question may cost, over all rounds, retries and
\* changes of agent: a tool loop that falls back late pays for both loops.
HandlerLimit(kind) ==
  IF kind \in {"tuning", "analyze"} THEN (MaxIterations + 1) + (ReactLimit + 1)
  ELSE IF kind = "diagnose" THEN MaxRetries + 1
  ELSE IF kind = "rca" THEN RcaAttempts
  ELSE IF kind = "none" THEN 0 ELSE 1

CallLimit(s) == HandlerLimit(s.kind) + IF s.unclear THEN 1 ELSE 0

\* No sequence of replies makes a question cost more calls of the model than
\* the bounds of its loops add up to (max_iterations, max_retries), and one
\* for the classification of its intent.
CallsBounded == \A q \in Questions : question[q].calls <= CallLimit(question[q])

\* What the scores the model itself has given to a branch come to.
Merit(b) ==
  LET given(key) == IF key \in DOMAIN b THEN b[key] ELSE 0
  IN  40 * given("relevance") + 30 * given("evidence") + 30 * given("action")
        - 100 * given("risk")

\* A diagnosis is recommended, put up for approval or executed only if the
\* model gave one branch scores that suffice: those the code makes up, because
\* the call failed, the answer could not be read or a score was left out, lift
\* none.  (A risk_penalty that was left out counts as no risk.)  It is executed
\* or put up for approval only at a level the instance had during the call.
DiagnosisEarnsStatus ==
  \A q \in Questions :
    question[q].outcome \in {"recommended", "awaiting_approval", "executed"} =>
      /\ Merit(question[q].best) >= 500
      /\ question[q].outcome = "executed" => \E level \in question[q].seen : level >= 3
      /\ question[q].outcome = "awaiting_approval" => \E level \in question[q].seen : level >= 2
=============================================================================
