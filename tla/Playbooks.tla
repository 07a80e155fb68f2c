------------------------------ MODULE Playbooks ------------------------------
(***************************************************************************)
(* The playbooks of services/playbook_executor.py behind api/v1/playbooks: *)
(* the built-in ones, read from files once, and the custom ones, kept in a *)
(* dictionary of the process that a restart empties.  A request to execute *)
(* one looks the autonomy level of the instance up in the database, and    *)
(* the answer is computed without a pause after that: the level may have   *)
(* changed meanwhile, the lookup may have failed, the playbook may have    *)
(* been updated or deleted.                                                *)
(*                                                                         *)
(* A document is what the YAML of an upload parses to; what the schemas    *)
(* make of it is its quality: "sound" passes PlaybookDetail, "listed"      *)
(* passes only PlaybookSummary, "broken" passes neither.                   *)
(***************************************************************************)
EXTENDS Integers, FiniteSets

CONSTANTS Builtin,         \* names of the built-in playbooks
          CustomNames,     \* names an upload may carry besides
          Uploads,         \* the documents users upload
          BuiltinDocument, \* the document of the built-in files
          Executions,      \* requests to execute a playbook
          Confidences,     \* confidence scores, on the scale of the thresholds
          MaxUploads       \* bound: creations and updates that succeed

VARIABLES customPlaybooks, \* _custom_playbooks: name -> document
          autonomyLevel,   \* db_instances.autonomy_level of the instance
          execution,       \* the requests to execute
          uploads          \* bound: uploads stored so far

playbookVars == <<customPlaybooks, autonomyLevel, execution, uploads>>

PlaybookNames == Builtin \cup CustomNames
NoName == "none"
NoDocument == [form |-> "none"]

Qualities == {"sound", "listed", "broken"}
Documents == [ form      : {"unparsable", "scalar", "mapping"},
               name      : PlaybookNames \cup {NoName},
               required  : BOOLEAN,     \* risk_level, min_autonomy_level and steps are there
               quality   : Qualities,
               level     : Int,         \* metadata.min_autonomy_level
               threshold : Int ]        \* trigger.min_confidence

ASSUME PlaybookAssumption ==
  MaxUploads \in Nat /\ Uploads \cup {BuiltinDocument} \subseteq Documents

Answers == {"success", "dry_success", "pending_approval", "blocked", "failed", "error"}

Idle == [ pc |-> "idle", name |-> NoName, confidence |-> 0, dry |-> FALSE,
          seen |-> {}, level |-> 0, needs |-> 0, answer |-> "none" ]

PlaybookInit ==
  /\ customPlaybooks = [n \in PlaybookNames |-> NoDocument]
  /\ autonomyLevel = 0
  /\ execution = [x \in Executions |-> Idle]
  /\ uploads = 0

\* get_playbook: the custom dictionary is merged over the built-in one.
Document(name) ==
  IF customPlaybooks[name] # NoDocument THEN customPlaybooks[name]
  ELSE IF name \in Builtin THEN BuiltinDocument ELSE NoDocument

-----------------------------------------------------------------------------
\* create_custom_playbook.
MutAccepted(doc) ==
  /\ doc.form = "mapping"
  /\ doc.name # NoName
  /\ doc.required

Accepted(doc) ==
  /\ doc.form = "mapping"
  /\ doc.name # NoName
  /\ doc.name \notin Builtin
  /\ doc.required

CreatePlaybook(doc) ==
  /\ uploads < MaxUploads
  /\ Accepted(doc)
  /\ customPlaybooks' = [customPlaybooks EXCEPT ![doc.name] = doc]
  /\ uploads' = uploads + 1
  /\ UNCHANGED <<autonomyLevel, execution>>

\* update_custom_playbook stores whatever mapping it is given under the name of
\* the URL; a scalar raises AttributeError, text that is not YAML is refused.
UpdatePlaybook(name, doc) ==
  /\ uploads < MaxUploads
  /\ customPlaybooks[name] # NoDocument
  /\ name \notin Builtin
  /\ doc.form = "mapping"
  /\ customPlaybooks' = [customPlaybooks EXCEPT ![name] = doc]
  /\ uploads' = uploads + 1
  /\ UNCHANGED <<autonomyLevel, execution>>

DeletePlaybook(name) ==
  /\ customPlaybooks[name] # NoDocument
  /\ customPlaybooks' = [customPlaybooks EXCEPT ![name] = NoDocument]
  /\ UNCHANGED <<autonomyLevel, execution, uploads>>

\* The process restarts: custom playbooks and requests in flight are gone.
RestartApi ==
  /\ customPlaybooks' = [n \in PlaybookNames |-> NoDocument]
  /\ execution' = [x \in Executions |->
                     IF execution[x].pc \in {"looking", "looked"} THEN Idle ELSE execution[x]]
  /\ UNCHANGED <<autonomyLevel, uploads>>

\* PATCH of the instance.
SetLevel(level) ==
  /\ autonomyLevel' = level
  /\ execution' = [x \in Executions |-> [execution[x] EXCEPT
                     !.seen = IF execution[x].pc = "looking" THEN @ \cup {level} ELSE @]]
  /\ UNCHANGED <<customPlaybooks, uploads>>

-----------------------------------------------------------------------------
\* POST /playbooks/{name}/execute: the level is looked up first ...
RequestExecution(x, name, confidence, dry) ==
  /\ execution[x].pc = "idle"
  /\ execution' = [execution EXCEPT ![x] =
       [ Idle EXCEPT !.pc = "looking", !.name = name, !.confidence = confidence,
                     !.dry = dry, !.seen = {autonomyLevel} ]]
  /\ UNCHANGED <<customPlaybooks, autonomyLevel, uploads>>

\* ... and when that fails, or there is no such instance, it is taken as 0.
DefaultLevel == 0

LookUpLevel(x) ==
  /\ execution[x].pc = "looking"
  /\ \E level \in {autonomyLevel, DefaultLevel} :
       execution' = [execution EXCEPT ![x].pc = "looked", ![x].level = level]
  /\ UNCHANGED <<customPlaybooks, autonomyLevel, uploads>>

\* The gates of execute_playbook, in their order.  The steps run no SQL yet:
\* each is recorded as done, and none can fail.
MutOutcome(doc, level, confidence, dry) ==
  IF doc = NoDocument THEN "failed"
  ELSE IF doc.quality # "sound" THEN "error"
  ELSE IF dry THEN "dry_success"
  ELSE IF confidence < doc.threshold \/ level = 0 THEN "blocked"
  ELSE IF level < 3 /\ level < doc.level THEN "pending_approval"
  ELSE "success"

Outcome(doc, level, confidence, dry) ==
  IF doc = NoDocument THEN "failed"
  ELSE IF doc.quality # "sound" THEN "error"
  ELSE IF confidence < doc.threshold \/ level = 0 THEN "blocked"
  ELSE IF level < 3 /\ level < doc.level THEN "pending_approval"
  ELSE IF dry THEN "dry_success" ELSE "success"

AnswerExecution(x) ==
  LET e == execution[x]  doc == Document(e.name) IN
  /\ e.pc = "looked"
  /\ execution' = [execution EXCEPT
       ![x].pc = "answered",
       ![x].answer = Outcome(doc, e.level, e.confidence, e.dry),
       ![x].needs = IF doc = NoDocument THEN 0 ELSE doc.level ]
  /\ UNCHANGED <<customPlaybooks, autonomyLevel, uploads>>

PlaybookNext ==
  \/ \E doc \in Uploads : CreatePlaybook(doc) \/ \E n \in PlaybookNames : UpdatePlaybook(n, doc)
  \/ \E n \in PlaybookNames : DeletePlaybook(n)
  \/ RestartApi
  \/ \E level \in 0..4 : SetLevel(level)
  \/ \E x \in Executions :
       \/ \E n \in PlaybookNames, c \in Confidences, dry \in BOOLEAN : RequestExecution(x, n, c, dry)
       \/ LookUpLevel(x)
       \/ AnswerExecution(x)

PlaybookSpec == PlaybookInit /\ [][PlaybookNext]_playbookVars

-----------------------------------------------------------------------------
PlaybookTypeOK ==
  /\ customPlaybooks \in [PlaybookNames -> {NoDocument} \cup Uploads]
  /\ autonomyLevel \in 0..4
  /\ uploads \in 0..MaxUploads
  /\ \A x \in Executions :
       /\ execution[x].pc \in {"idle", "looking", "looked", "answered"}
       /\ execution[x].answer \in Answers \cup {"none"}
       /\ execution[x].level \in 0..4

\* No sequence of uploads, updates and deletions puts a custom document in the
\* place of a built-in playbook, although the merge would prefer it.
BuiltinsNotShadowed == \A n \in Builtin : Document(n) = BuiltinDocument

\* What the code and the documents agree on: nothing runs, or is said to run in
\* a dry run, at level 0 or, short of level 3, below the level the playbook
\* names, judged by the levels the instance had during the call.  A level that
\* is lowered while the request waits may still be used, a failed lookup never
\* helps, and a dry run promises no more than the gates would let through.
\* (PLAYBOOK_SPEC 5.2 asks for more: nothing at level 1 and an approval at level
\* 2, which the docstring of the endpoint repeats.  The code runs both at once.)
RunsNeedTheirLevel ==
  \A x \in Executions :
    execution[x].answer \in {"success", "dry_success"} =>
      \E level \in execution[x].seen : level > 0 /\ (level >= 3 \/ level >= execution[x].needs)
=============================================================================
