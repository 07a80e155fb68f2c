---------------------------- MODULE MCApiRequests ----------------------------
(* What the requests of the API, the backend container at its start and    *)
(* an operator do, on small instances, side by side: the policy gate,      *)
(* incident updates, conversations with the DBA agent, playbooks,          *)
(* settings, the assistants, the pools to the targets, and the             *)
(* migrations.  They share no state in these models, so that a behaviour   *)
(* is one of them, with the others at rest.                                *)
EXTENDS PolicyGate, IncidentLifecycle, DbaConversation, Playbooks, RuntimeSettings,
        Assistants, TargetPools, Migrations, TLC

VARIABLE active

Components == {"gate", "incidents", "conversation", "playbooks", "settings",
               "assistants", "pools", "migrations"}

\* Texts: small talk; a command; one with a keyword of each intent;
\* one with more of "query" than of "execute".
Score(a, e, q) ==
  [i \in Intents |-> CASE i = "analyze" -> a [] i = "execute" -> e [] i = "query" -> q [] OTHER -> 0]
Shape(tier1, score, large) == [tier1 |-> tier1, score |-> score, large |-> large]
MCShapes == { Shape(TRUE, Score(0, 0, 0), FALSE),
              Shape(FALSE, Score(0, 2, 0), FALSE),
              Shape(FALSE, Score(1, 1, 1), TRUE),
              Shape(FALSE, Score(0, 1, 2), TRUE) }

\* Uploads: a sound one, one the summary accepts and the detail does not, one
\* that no schema accepts, one without steps, one that claims a built-in
\* name, and ones that are no mapping or no YAML.
Doc(form, name, required, quality, level) ==
  [form |-> form, name |-> name, required |-> required, quality |-> quality,
   level |-> level, threshold |-> 1]
MCBuiltin == Doc("mapping", "vacuum-maintenance", TRUE, "sound", 1)
MCUploads ==
  { Doc("mapping", "nightly", TRUE, "sound", 3),
    Doc("mapping", "nightly", TRUE, "listed", 9),
    Doc("mapping", "nightly", TRUE, "broken", 1),
    Doc("mapping", "nightly", FALSE, "sound", 0),
    Doc("mapping", "vacuum-maintenance", TRUE, "sound", 0),
    Doc("scalar", NoName, FALSE, "broken", 0),
    Doc("unparsable", NoName, FALSE, "broken", 0) }

TwoKeys == <<"ai_provider", "openai_api_key">>

\* Answers of the model: a sure branch among weak ones, a risky one, one at
\* the boundary, a weak one; and answers that leave out the risk, all but one
\* score, or every score of a branch.
Branch(r, e, a, k) == [relevance |-> r, evidence |-> e, action |-> a, risk |-> k]
MCAnswers == { { Branch(9, 9, 8, 0), Branch(2, 1, 1, 0) },
               { Branch(9, 9, 9, 5), Branch(3, 3, 3, 0) },
               { Branch(5, 5, 5, 0), Branch(0, 0, 0, 5) },
               { Branch(4, 5, 5, 0), Branch(1, 1, 1, 1) },
               { [relevance |-> 9, evidence |-> 6, action |-> 6], Branch(3, 3, 3, 0) },
               { [relevance |-> 9], [action |-> 9, risk |-> 0] },
               { NoBranch, [evidence |-> 9, risk |-> 5] } }

OneOf(S, name) == IF active = name THEN S ELSE {CHOOSE x \in S : TRUE}

ApiInit ==
  /\ active \in Components
  /\ gateAsk \in OneOf(GateAsks, "gate")
  /\ asked \in OneOf([Requests -> [incident : Incidents, status : StatusUpdate]], "incidents")
  /\ configured \in OneOf(Providers, "assistants")
  /\ diagnosisLevel \in OneOf(AutonomyLevels, "assistants")
  /\ GateInit /\ IncidentInit /\ ConversationInit /\ PlaybookInit /\ SettingInit
  /\ AssistantInit /\ PoolInit /\ MigrationInit

Rest(name) ==
  /\ IF name = "gate" THEN TRUE ELSE UNCHANGED gateAsk
  /\ IF name = "incidents" THEN TRUE ELSE UNCHANGED incidentVars
  /\ IF name = "conversation" THEN TRUE ELSE UNCHANGED conversationVars
  /\ IF name = "playbooks" THEN TRUE ELSE UNCHANGED playbookVars
  /\ IF name = "settings" THEN TRUE ELSE UNCHANGED settingVars
  /\ IF name = "assistants" THEN TRUE ELSE UNCHANGED assistantVars
  /\ IF name = "pools" THEN TRUE ELSE UNCHANGED poolVars
  /\ IF name = "migrations" THEN TRUE ELSE UNCHANGED migrationVars

ApiNext ==
  /\ UNCHANGED active
  /\ \/ active = "gate" /\ GateNext
     \/ active = "incidents" /\ IncidentNext
     \/ active = "conversation" /\ ConversationNext
     \/ active = "playbooks" /\ PlaybookNext
     \/ active = "settings" /\ SettingNext
     \/ active = "assistants" /\ AssistantNext
     \/ active = "pools" /\ PoolNext
     \/ active = "migrations" /\ MigrationNext
  /\ Rest(active)

ApiVars == <<active, gateAsk, incidentVars, conversationVars, playbookVars, settingVars,
             assistantVars, poolVars, migrationVars>>

ApiSpec == ApiInit /\ [][ApiNext]_ApiVars

TypeOK ==
  /\ GateTypeOK /\ IncidentTypeOK /\ ConversationTypeOK /\ PlaybookTypeOK
  /\ SettingTypeOK /\ AssistantTypeOK /\ PoolTypeOK /\ MigrationTypeOK

\* Incidents are interchangeable, and so are the runs of alembic.
Symmetry == Permutations(Incidents) \cup Permutations(Runners)
=============================================================================
