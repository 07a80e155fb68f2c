--------------------------- MODULE ScheduledReports ---------------------------
(* The reports on the databases (tasks/proactive.py, tasks/reports.py,      *)
(* services/dba_report.py, services/report_generator.py,                    *)
(* api/v1/reports.py): batches of Beat that go through all instances in one *)
(* session of the system database, and requests with a session each.  After *)
(* a statement has failed, PostgreSQL refuses every other one of the        *)
(* transaction, and a batch never rolls back.                               *)
EXTENDS Naturals, FiniteSets

CONSTANTS
  Monitored,       \* the active instances
  ReportRequests,  \* POST /reports/dba and POST /reports/generate
  MaxBatches       \* bound: batches of each kind

ASSUME ReportAssumption ==
  /\ IsFiniteSet(Monitored) /\ MaxBatches \in Nat
  /\ ReportRequests \cap {"morning", "dba"} = {}

VARIABLES
  batch,     \* of each kind: how many have started, what is left, the transaction
  request,   \* of each request of the API: where it is
  posted,    \* the messages that reached Slack
  saved      \* the rows of dba_reports

reportVars == <<batch, request, posted, saved>>

BatchKinds == {"morning", "dba"}

\* The figures of a report: the incidents, and what else it was to count.  In a
\* DBA report that is the system database, and the slow queries of the target.
AllFigures == 2

ReportInit ==
  /\ batch = [k \in BatchKinds |-> [number |-> 0, todo |-> {}, aborted |-> FALSE]]
  /\ request = [q \in ReportRequests |->
                  [step |-> "idle", slack |-> FALSE, figures |-> 0, told |-> FALSE,
                   logged |-> FALSE]]
  /\ posted = {} /\ saved = {}

\* What send_slack_message comes to: the answer of Slack may be lost after
\* the message was taken, and the function then says that it was not sent.
Deliveries == { [taken |-> TRUE, told |-> TRUE],
                [taken |-> TRUE, told |-> FALSE],
                [taken |-> FALSE, told |-> FALSE] }

Message(k, figures) ==
  [from |-> k, number |-> batch[k].number,
   nth |-> Cardinality(Monitored) - Cardinality(batch[k].todo) + 1, figures |-> figures]

Post(messages, delivery) ==
  posted' = posted \cup (IF delivery.taken THEN messages ELSE {})

\* Instance i of the batch is done.
Advance(k, i, aborted) ==
  batch' = [batch EXCEPT ![k].todo = @ \ {i}, ![k].aborted = aborted]

\* Beat fires; the batch opens its session and selects the active instances.
StartBatch(k) ==
  /\ batch[k].todo = {} /\ batch[k].number < MaxBatches
  /\ batch' = [batch EXCEPT ![k] = [number |-> @.number + 1, todo |-> Monitored,
                                    aborted |-> FALSE]]
  /\ UNCHANGED <<request, posted, saved>>

\* morning_report: `answered` of its two statements are answered.  An error is
\* caught and the message goes out with 0 for what could not be counted.
MorningFigures(aborted, answered) == IF aborted THEN 0 ELSE answered

MorningReport(i, answered, delivery) ==
  LET figures == MorningFigures(batch["morning"].aborted, answered) IN
  /\ i \in batch["morning"].todo
  /\ Post({Message("morning", figures)}, delivery)
  /\ Advance("morning", i, figures < AllFigures)
  /\ UNCHANGED <<request, saved>>

\* _fetch_slow_queries answers with an empty list when there is no pool and
\* when pg_stat_statements cannot be read; the report then goes on, and shows
\* the same "none" as for a target without slow queries.
FiguresWith(slow) == IF slow THEN AllFigures ELSE AllFigures - 1

\* _run_report of one instance: without a pool to the target there is no
\* report and no statement; a statement of the system database that fails ends
\* the report of this instance; slow queries and the summary of the model are
\* replaced when they fail.  The report is sent and kept nowhere.
MutReportFigures(aborted, ok, slow) == { IF ok /\ ~aborted THEN FiguresWith(slow) ELSE 0 }
ReportFigures(aborted, ok, slow) == IF ok /\ ~aborted THEN {FiguresWith(slow)} ELSE {}

DbaReport(i, reached, ok, slow, delivery) ==
  LET b == batch["dba"] IN
  /\ i \in b.todo
  /\ IF reached
     THEN Post({Message("dba", f) : f \in ReportFigures(b.aborted, ok, slow)}, delivery)
     ELSE UNCHANGED posted
  /\ Advance("dba", i, b.aborted \/ (reached /\ ~ok))
  /\ UNCHANGED <<request, saved>>

Goto(q, to) == request' = [request EXCEPT ![q].step = to]

AskReport(q, kind, slack) ==
  /\ request[q].step = "idle"
  /\ request' = [request EXCEPT ![q].step = kind, ![q].slack = slack]
  /\ UNCHANGED <<batch, posted, saved>>

\* POST /reports/dba: a target that cannot be reached only leaves the slow
\* queries empty; a statement of the system database that fails is an error 500.
GatherReport(q, ok, slow) ==
  /\ request[q].step = "dba"
  /\ request' = [request EXCEPT ![q].step = IF ok THEN "gathered" ELSE "failed",
                                ![q].figures = IF ok THEN FiguresWith(slow) ELSE 0]
  /\ UNCHANGED <<batch, posted, saved>>

\* Slack first, the row afterwards: the row keeps what Slack answered.
Told(delivery) == delivery.told

TellSlack(q, delivery) ==
  /\ request[q].step = "gathered"
  /\ IF request[q].slack
     THEN /\ Post({[from |-> q, number |-> 0, nth |-> 0, figures |-> request[q].figures]},
             delivery)
          /\ request' = [request EXCEPT ![q].step = "told", ![q].told = Told(delivery)]
     ELSE Goto(q, "told") /\ UNCHANGED posted
  /\ UNCHANGED <<batch, saved>>

SaveReport(q, ok) ==
  /\ request[q].step = "told"
  /\ saved' = IF ok THEN saved \cup {[request |-> q, slackSent |-> request[q].told,
                                     figures |-> request[q].figures]} ELSE saved
  /\ Goto(q, IF ok THEN "done" ELSE "failed")
  /\ UNCHANGED <<batch, posted>>

\* POST /reports/generate: the data, then the model; without an answer that
\* can be read the report is "failed", and otherwise the decision is logged
\* in the open transaction, unless the insert fails.
GenerateReport(q, gathered, answered, inserted) ==
  /\ request[q].step = "generate"
  /\ request' = [request EXCEPT ![q].step = IF gathered /\ answered THEN "completed" ELSE "failed",
                                ![q].logged = gathered /\ answered /\ inserted]
  /\ UNCHANGED <<batch, posted, saved>>

\* The request ends and closes its session, which nothing has committed: the
\* logged decision is rolled back.
CloseSession(q) ==
  /\ request[q].step = "completed"
  /\ request' = [request EXCEPT ![q].step = "done", ![q].logged = FALSE]
  /\ UNCHANGED <<batch, posted, saved>>

\* The API process is stopped in the middle of a request.
LoseRequest(q) ==
  /\ request[q].step \in {"dba", "generate", "gathered", "told", "completed"}
  /\ request' = [request EXCEPT ![q].step = "lost", ![q].logged = FALSE]
  /\ UNCHANGED <<batch, posted, saved>>

ReportNext ==
  \/ \E k \in BatchKinds : StartBatch(k)
  \/ \E i \in Monitored, delivery \in Deliveries :
       \/ \E answered \in 0..AllFigures : MorningReport(i, answered, delivery)
       \/ \E reached, ok, slow \in BOOLEAN : DbaReport(i, reached, ok, slow, delivery)
  \/ \E q \in ReportRequests :
       \/ \E kind \in {"dba", "generate"}, slack \in BOOLEAN : AskReport(q, kind, slack)
       \/ \E ok, slow \in BOOLEAN : GatherReport(q, ok, slow)
       \/ \E ok \in BOOLEAN : SaveReport(q, ok)
       \/ \E delivery \in Deliveries : TellSlack(q, delivery)
       \/ \E gathered, answered, inserted \in BOOLEAN :
            GenerateReport(q, gathered, answered, inserted)
       \/ CloseSession(q)
       \/ LoseRequest(q)

ReportSpec == ReportInit /\ [][ReportNext]_reportVars

-----------------------------------------------------------------------------
RequestStages == { "idle", "dba", "generate", "gathered", "told", "completed",
                   "done", "failed", "lost" }

ReportTypeOK ==
  /\ batch \in [BatchKinds -> [number : 0..MaxBatches, todo : SUBSET Monitored,
                               aborted : BOOLEAN]]
  /\ request \in [ReportRequests -> [step : RequestStages, slack : BOOLEAN,
                                     figures : 0..AllFigures, told : BOOLEAN,
                                     logged : BOOLEAN]]
  /\ posted \subseteq [from : BatchKinds \cup ReportRequests, number : 0..MaxBatches,
                       nth : 0..Cardinality(Monitored), figures : 0..AllFigures]
  /\ saved \subseteq [request : ReportRequests, slackSent : BOOLEAN, figures : 0..AllFigures]

\* A DBA report, of a batch or of a request, is posted with the figures of the
\* system database or not at all, so that only the slow queries of the target
\* may be missing from it.  Once a morning report has not counted everything,
\* no later message of that batch counts anything.  A saved report that says it
\* was sent to Slack was, with the figures the row keeps, whatever was lost in
\* between.
ReportGapsBounded ==
  /\ \A m \in posted : m.from # "morning" => m.figures >= FiguresWith(FALSE)
  /\ \A m, n \in posted :
       /\ m.from = "morning" /\ n.from = "morning" /\ m.number = n.number
       /\ m.nth < n.nth /\ m.figures < AllFigures
       => n.figures = 0
  /\ \A r \in saved : r.slackSent =>
       \E m \in posted : m.from = r.request /\ m.figures = r.figures
=============================================================================
