---------------------------- MODULE RequestProofs ----------------------------
(***************************************************************************)
(* Machine-checked proofs about requests of the API that interleave: the   *)
(* playbooks (Playbooks), for every set of names, documents and requests,  *)
(* the connection pools to a target (TargetPools), for any number of       *)
(* requests and changes of the DSN, the settings (RuntimeSettings), for    *)
(* every list of keys and any number of updates, and the migrations        *)
(* (Migrations), for any set of runners and any number of runs, with the   *)
(* refinement of AtomicMigrations.  Last, all requests side by side, with  *)
(* the gate, the incidents, the conversations and the assistants whose     *)
(* theorems are in IncidentProofs and AssistantProofs (MCApiRequests).     *)
(***************************************************************************)
EXTENDS MCApiRequests, IncidentProofs, AssistantProofs, TLAPS

-----------------------------------------------------------------------------
(* Playbooks.                                                              *)

\* No custom document is stored under a built-in name.
CustomInv ==
  /\ customPlaybooks \in [PlaybookNames -> {NoDocument} \cup Uploads]
  /\ \A n \in Builtin : customPlaybooks[n] = NoDocument

LEMMA CustomInvHolds == PlaybookSpec => []CustomInv
<1>1. PlaybookInit => CustomInv
  BY DEF PlaybookInit, CustomInv, PlaybookNames
<1>2. CustomInv /\ [PlaybookNext]_playbookVars => CustomInv'
  <2> SUFFICES ASSUME CustomInv, [PlaybookNext]_playbookVars PROVE CustomInv'
    OBVIOUS
  <2> USE DEF CustomInv
  <2>1. ASSUME NEW doc \in Uploads, CreatePlaybook(doc) PROVE CustomInv'
    BY <2>1 DEF CreatePlaybook, Accepted, PlaybookNames
  <2>2. ASSUME NEW doc \in Uploads, NEW n \in PlaybookNames, UpdatePlaybook(n, doc)
        PROVE CustomInv'
    BY <2>2 DEF UpdatePlaybook, PlaybookNames
  <2>3. ASSUME NEW n \in PlaybookNames, DeletePlaybook(n) PROVE CustomInv'
    BY <2>3 DEF DeletePlaybook, PlaybookNames
  <2>4. CASE RestartApi
    BY <2>4 DEF RestartApi, PlaybookNames
  <2>5. CASE UNCHANGED customPlaybooks
    BY <2>5
  <2>6. ASSUME NEW level \in 0..4, SetLevel(level) PROVE UNCHANGED customPlaybooks
    BY <2>6 DEF SetLevel
  <2>7. ASSUME NEW x \in Executions,
               \/ \E n \in PlaybookNames, c \in Confidences, dry \in BOOLEAN :
                    RequestExecution(x, n, c, dry)
               \/ LookUpLevel(x) \/ AnswerExecution(x)
        PROVE UNCHANGED customPlaybooks
    BY <2>7 DEF RequestExecution, LookUpLevel, AnswerExecution
  <2> QED
    BY <2>1, <2>2, <2>3, <2>4, <2>5, <2>6, <2>7 DEF PlaybookNext, playbookVars
<1> QED
  BY <1>1, <1>2, PTL DEF PlaybookSpec

\* No sequence of uploads, updates and deletions puts a custom document in the
\* place of a built-in playbook (services/playbook_executor.py, get_playbook
\* prefers the custom one).
THEOREM BuiltinsStand == PlaybookSpec => []BuiltinsNotShadowed
<1>1. CustomInv => BuiltinsNotShadowed
  BY DEF CustomInv, BuiltinsNotShadowed, Document
<1> QED
  BY <1>1, CustomInvHolds, PTL

\* A level allows a playbook that needs level n.
Allows(level, n) == level > 0 /\ (level >= 3 \/ level >= n)

Execution == [ pc : {"idle", "looking", "looked", "answered"}, name : PlaybookNames \cup {NoName},
               confidence : Confidences \cup {0}, dry : BOOLEAN, seen : SUBSET (0..4),
               level : 0..4, needs : Int, answer : Answers \cup {"none"} ]

\* The level a request has looked up is one the instance had during the call,
\* or 0; an answer is what that level allows.
ExecutionInv ==
  /\ autonomyLevel \in 0..4
  /\ execution \in [Executions -> Execution]
  /\ \A x \in Executions :
       /\ execution[x].pc \in {"looking", "looked"} => execution[x].name \in PlaybookNames
       /\ execution[x].pc = "looking" => autonomyLevel \in execution[x].seen
       /\ execution[x].pc = "looked" => execution[x].level \in execution[x].seen \cup {0}
       /\ execution[x].answer \in {"success", "dry_success"} =>
            /\ execution[x].pc = "answered"
            /\ \E level \in execution[x].seen : Allows(level, execution[x].needs)

\* A success is an answer only at a level that allows it.
LEMMA SuccessAllowed ==
  ASSUME NEW doc \in Documents, NEW level \in 0..4, NEW confidence, NEW dry \in BOOLEAN,
         Outcome(doc, level, confidence, dry) \in {"success", "dry_success"}
  PROVE  Allows(level, doc.level)
BY DEF Outcome, Documents, Allows

LEMMA OutcomeTyped ==
  ASSUME NEW doc, NEW level, NEW confidence, NEW dry
  PROVE  Outcome(doc, level, confidence, dry) \in Answers
BY DEF Outcome, Answers

LEMMA AnswerKeepsInv ==
  ASSUME CustomInv, ExecutionInv, NEW x \in Executions, AnswerExecution(x)
  PROVE  ExecutionInv'
<1> DEFINE e == execution[x]
           doc == Document(e.name)
           answer == Outcome(doc, e.level, e.confidence, e.dry)
           needs == IF doc = NoDocument THEN 0 ELSE doc.level
<1>1. /\ e.pc = "looked"
      /\ execution' = [execution EXCEPT ![x].pc = "answered", ![x].answer = answer,
                                        ![x].needs = needs]
      /\ autonomyLevel' = autonomyLevel
  BY DEF AnswerExecution
<1>2. /\ e \in Execution /\ e.name \in PlaybookNames /\ e.level \in e.seen \cup {0}
      /\ e.level \in 0..4 /\ e.dry \in BOOLEAN /\ e.seen \subseteq 0..4
  BY <1>1 DEF ExecutionInv, Execution
<1>3. doc = NoDocument \/ doc \in Documents
  BY <1>2, PlaybookAssumption DEF Document, CustomInv
<1>4. answer \in Answers /\ needs \in Int
  BY <1>3, OutcomeTyped DEF Documents
<1>5. ASSUME answer \in {"success", "dry_success"}
      PROVE  \E level \in e.seen : Allows(level, needs)
  <2>1. doc # NoDocument /\ doc \in Documents
    BY <1>3, <1>5 DEF Outcome
  <2>2. Allows(e.level, doc.level)
    BY <1>2, <1>5, <2>1, SuccessAllowed
  <2>3. e.level \in e.seen
    BY <1>2, <2>2 DEF Allows
  <2> QED
    BY <2>1, <2>2, <2>3
<1> HIDE DEF answer, needs, doc
<1>6. /\ execution'[x].pc = "answered" /\ execution'[x].answer = answer
      /\ execution'[x].needs = needs /\ execution'[x].seen = e.seen
      /\ execution'[x] \in Execution
      /\ \A y \in Executions \ {x} : execution'[y] = execution[y]
      /\ execution' \in [Executions -> Execution]
  BY <1>1, <1>2, <1>4 DEF ExecutionInv, Execution
<1>7. ASSUME NEW y \in Executions
      PROVE  /\ execution'[y].pc \in {"looking", "looked"} => execution'[y].name \in PlaybookNames
             /\ execution'[y].pc = "looking" => autonomyLevel' \in execution'[y].seen
             /\ execution'[y].pc = "looked" => execution'[y].level \in execution'[y].seen \cup {0}
             /\ execution'[y].answer \in {"success", "dry_success"} =>
                  /\ execution'[y].pc = "answered"
                  /\ \E level \in execution'[y].seen : Allows(level, execution'[y].needs)
  <2>1. CASE y = x
    BY <1>5, <1>6, <2>1
  <2>2. CASE y # x
    BY <1>1, <1>6, <2>2 DEF ExecutionInv
  <2> QED
    BY <2>1, <2>2
<1> QED
  BY <1>1, <1>6, <1>7 DEF ExecutionInv, Allows

LEMMA ExecutionStep ==
  CustomInv /\ ExecutionInv /\ [PlaybookNext]_playbookVars => ExecutionInv'
<1> SUFFICES ASSUME CustomInv, ExecutionInv, [PlaybookNext]_playbookVars PROVE ExecutionInv'
  OBVIOUS
<1> USE DEF ExecutionInv, Allows
<1>1. CASE UNCHANGED <<autonomyLevel, execution>>
  BY <1>1
<1>2. ASSUME \/ \E doc \in Uploads :
                  CreatePlaybook(doc) \/ \E n \in PlaybookNames : UpdatePlaybook(n, doc)
             \/ \E n \in PlaybookNames : DeletePlaybook(n)
             \/ UNCHANGED playbookVars
      PROVE  UNCHANGED <<autonomyLevel, execution>>
  BY <1>2 DEF CreatePlaybook, UpdatePlaybook, DeletePlaybook, playbookVars
<1>3. CASE RestartApi
  <2>1. \A x \in Executions : execution'[x] \in {Idle, execution[x]}
    BY <1>3 DEF RestartApi
  <2>2. Idle \in Execution /\ Idle.pc = "idle" /\ Idle.answer = "none"
    BY DEF Idle, Execution
  <2>3. execution' \in [Executions -> Execution]
    BY <1>3, <2>2 DEF RestartApi
  <2> QED
    BY <1>3, <2>1, <2>2, <2>3 DEF RestartApi
<1>4. ASSUME NEW level \in 0..4, SetLevel(level) PROVE ExecutionInv'
  <2>1. ASSUME NEW x \in Executions
        PROVE  /\ execution'[x] \in Execution
               /\ execution'[x].pc = execution[x].pc /\ execution'[x].name = execution[x].name
               /\ execution'[x].level = execution[x].level
               /\ execution'[x].needs = execution[x].needs
               /\ execution'[x].answer = execution[x].answer
               /\ execution[x].seen \subseteq execution'[x].seen
               /\ execution[x].pc = "looking" => level \in execution'[x].seen
    <3>1. execution'[x] = [execution[x] EXCEPT
                             !.seen = IF execution[x].pc = "looking" THEN @ \cup {level} ELSE @]
      BY <1>4 DEF SetLevel
    <3>2. PICK s : s = IF execution[x].pc = "looking" THEN execution[x].seen \cup {level}
                                                      ELSE execution[x].seen
      OBVIOUS
    <3>3. execution'[x] = [execution[x] EXCEPT !.seen = s]
      BY <3>1, <3>2
    <3>4. s \subseteq 0..4 /\ execution[x].seen \subseteq s
      BY <3>2 DEF Execution
    <3> QED
      BY <3>2, <3>3, <3>4 DEF Execution
  <2>2. execution' \in [Executions -> Execution]
    BY <1>4, <2>1 DEF SetLevel
  <2>3. autonomyLevel' = level
    BY <1>4 DEF SetLevel
  <2> QED
    BY <2>1, <2>2, <2>3
<1>5. ASSUME NEW x \in Executions, NEW n \in PlaybookNames, NEW c \in Confidences,
             NEW dry \in BOOLEAN, RequestExecution(x, n, c, dry)
      PROVE  ExecutionInv'
  <2>1. PICK e : e = [ Idle EXCEPT !.pc = "looking", !.name = n, !.confidence = c,
                                   !.dry = dry, !.seen = {autonomyLevel} ]
    OBVIOUS
  <2>2. /\ e \in Execution /\ e.pc = "looking" /\ e.name = n /\ e.answer = "none"
        /\ e.seen = {autonomyLevel}
    <3>1. e = [ pc |-> "looking", name |-> n, confidence |-> c, dry |-> dry,
                seen |-> {autonomyLevel}, level |-> 0, needs |-> 0, answer |-> "none" ]
      BY <2>1 DEF Idle
    <3> QED
      BY <3>1 DEF Execution
  <2>3. execution' = [execution EXCEPT ![x] = e] /\ autonomyLevel' = autonomyLevel
    BY <1>5, <2>1 DEF RequestExecution
  <2> QED
    BY <2>2, <2>3
<1>6. ASSUME NEW x \in Executions, LookUpLevel(x) PROVE ExecutionInv'
  <2>1. PICK level \in {autonomyLevel, 0} :
           execution' = [execution EXCEPT ![x].pc = "looked", ![x].level = level]
    BY <1>6 DEF LookUpLevel, DefaultLevel
  <2>2. execution[x].pc = "looking" /\ autonomyLevel' = autonomyLevel /\ level \in 0..4
    BY <1>6 DEF LookUpLevel
  <2>3. /\ execution'[x].pc = "looked" /\ execution'[x].level = level
        /\ execution'[x].seen = execution[x].seen /\ execution'[x].answer = execution[x].answer
        /\ execution'[x].name = execution[x].name
        /\ execution' \in [Executions -> Execution]
        /\ \A y \in Executions \ {x} : execution'[y] = execution[y]
    <3>1. PICK e : e = [execution[x] EXCEPT !.pc = "looked", !.level = level]
      OBVIOUS
    <3>2. /\ e \in Execution /\ e.pc = "looked" /\ e.level = level
          /\ e.seen = execution[x].seen /\ e.answer = execution[x].answer
          /\ e.name = execution[x].name
      BY <2>2, <3>1 DEF Execution
    <3>3. execution' = [execution EXCEPT ![x] = e]
      BY <2>1, <3>1
    <3> QED
      BY <3>2, <3>3
  <2> QED
    BY <2>2, <2>3
<1>7. ASSUME NEW x \in Executions, AnswerExecution(x) PROVE ExecutionInv'
  BY <1>7, AnswerKeepsInv
<1> QED
  BY <1>1, <1>2, <1>3, <1>4, <1>5, <1>6, <1>7 DEF PlaybookNext

\* Nothing runs, or is said to run, at level 0 or, short of level 3, below the
\* level its playbook names, by the levels the instance had during the call
\* (api/v1/playbooks.py, execute_playbook).
THEOREM RunsAreAllowed == PlaybookSpec => []RunsNeedTheirLevel
<1>1. PlaybookInit => ExecutionInv
  BY DEF PlaybookInit, ExecutionInv, Execution, Idle
<1>2. ExecutionInv => RunsNeedTheirLevel
  BY DEF ExecutionInv, RunsNeedTheirLevel, Allows
<1> QED
  BY <1>1, <1>2, ExecutionStep, CustomInvHolds, PTL DEF PlaybookSpec

UploadsBounded == uploads \in 0..MaxUploads

\* Documents, levels and executions of the playbooks keep their types.
THEOREM PlaybookTypeInvariant == PlaybookSpec => []PlaybookTypeOK
<1>1. PlaybookInit => ExecutionInv /\ UploadsBounded
  BY PlaybookAssumption DEF PlaybookInit, ExecutionInv, Execution, Idle, UploadsBounded
<1>2. UploadsBounded /\ [PlaybookNext]_playbookVars => UploadsBounded'
  <2> SUFFICES ASSUME UploadsBounded, [PlaybookNext]_playbookVars
               PROVE  UploadsBounded'
    OBVIOUS
  <2>1. uploads' = uploads \/ (uploads < MaxUploads /\ uploads' = uploads + 1)
    BY DEF PlaybookNext, playbookVars, CreatePlaybook, UpdatePlaybook, DeletePlaybook, RestartApi,
           SetLevel, RequestExecution, LookUpLevel, AnswerExecution
  <2> QED
    BY <2>1, PlaybookAssumption DEF UploadsBounded
<1>3. CustomInv /\ ExecutionInv /\ UploadsBounded => PlaybookTypeOK
  BY DEF CustomInv, ExecutionInv, Execution, UploadsBounded, PlaybookTypeOK
<1> QED
  BY <1>1, <1>2, <1>3, ExecutionStep, CustomInvHolds, PTL DEF PlaybookSpec

-----------------------------------------------------------------------------
(* Pools.                                                                  *)

Pool == [state : PoolStates, dsn : Nat]
PoolRequest == [pc : RequestSteps, kind : CacheKinds, dsn : Nat, pool : SUBSET PoolRequests]

\* The requests that may have opened a pool.
Opener(p) == request[p].pc \in {"using", "done"}

PoolTypes ==
  /\ dsn \in Nat
  /\ cache \in [CacheKinds -> SUBSET PoolRequests]
  /\ pool \in [PoolRequests -> Pool]
  /\ request \in [PoolRequests -> PoolRequest]

\* A pool is opened once, by the request it is named for, with the DSN of that
\* request; what is cached or used was opened.
PoolsNamed ==
  /\ \A p \in PoolRequests :
       pool[p].state # "none" => Opener(p) /\ pool[p].dsn = request[p].dsn
  /\ \A k \in CacheKinds : \A p \in cache[k] :
       pool[p].state # "none" /\ request[p].kind = k
  /\ \A r \in PoolRequests : request[r].pc = "closing" => request[r].kind = "kpi"
  /\ \A r \in PoolRequests : \A p \in request[r].pool :
       /\ request[r].pc \in {"closing", "using"}
       /\ pool[p].state # "none"
       /\ request[p].kind = request[r].kind
       /\ request[r].pc = "using" => pool[p].dsn = request[r].dsn

LEMMA PoolsNamedHold == PoolSpec => [](PoolTypes /\ PoolsNamed)
<1>1. PoolInit => PoolTypes /\ PoolsNamed
  BY DEF PoolInit, PoolTypes, PoolsNamed, Pool, PoolRequest, PoolStates, RequestSteps, CacheKinds
<1>2. PoolTypes /\ PoolsNamed /\ [PoolNext]_poolVars => (PoolTypes /\ PoolsNamed)'
  <2> SUFFICES ASSUME PoolTypes, PoolsNamed, [PoolNext]_poolVars
               PROVE  PoolTypes' /\ PoolsNamed'
    OBVIOUS
  <2> USE DEF PoolTypes, PoolsNamed, Pool, PoolRequest, Opener
  <2>1. CASE RotateDsn
    BY <2>1 DEF RotateDsn
  <2>2. ASSUME NEW r \in PoolRequests, NEW k \in CacheKinds, LoadInstance(r, k)
        PROVE  PoolTypes' /\ PoolsNamed'
    BY <2>2 DEF LoadInstance, RequestSteps
  <2>3. ASSUME NEW r \in PoolRequests, UseCached(r) PROVE PoolTypes' /\ PoolsNamed'
    BY <2>3 DEF UseCached, Fits, RequestSteps
  <2>4. ASSUME NEW r \in PoolRequests, FindNothing(r) PROVE PoolTypes' /\ PoolsNamed'
    BY <2>4 DEF FindNothing, Move, RequestSteps
  <2>5. ASSUME NEW r \in PoolRequests, TerminateOld(r) PROVE PoolTypes' /\ PoolsNamed'
    BY <2>5 DEF TerminateOld, Move, RequestSteps, PoolStates, CacheKinds
  <2>6. ASSUME NEW r \in PoolRequests, BeginClose(r) PROVE PoolTypes' /\ PoolsNamed'
    BY <2>6 DEF BeginClose, RequestSteps, PoolStates, CacheKinds
  <2>7. ASSUME NEW r \in PoolRequests, EndClose(r) PROVE PoolTypes' /\ PoolsNamed'
    BY <2>7 DEF EndClose, Closed, RequestSteps, PoolStates, CacheKinds
  <2>8. ASSUME NEW r \in PoolRequests, EntryGone(r) PROVE PoolTypes' /\ PoolsNamed'
    BY <2>8 DEF EntryGone, Closed, RequestSteps, PoolStates, CacheKinds
  <2>9. ASSUME NEW r \in PoolRequests, OpenPool(r) PROVE PoolTypes' /\ PoolsNamed'
    <3>1. request[r].pc = "opening" /\ pool[r].state = "none" /\ request[r].kind \in CacheKinds
          /\ request[r].dsn \in Nat
      BY <2>9 DEF OpenPool
    <3>2. /\ pool' = [pool EXCEPT ![r] = [state |-> "open", dsn |-> request[r].dsn]]
          /\ cache' = [cache EXCEPT ![request[r].kind] = {r}]
          /\ dsn' = dsn
      BY <2>9 DEF OpenPool
    <3>3. PICK q : q = [request[r] EXCEPT !.pc = "using", !.pool = {r}]
      OBVIOUS
    <3>4. /\ q.pc = "using" /\ q.pool = {r} /\ q.kind = request[r].kind /\ q.dsn = request[r].dsn
          /\ q \in [pc : RequestSteps, kind : CacheKinds, dsn : Nat, pool : SUBSET PoolRequests]
      <4>1. r \in PoolRequests /\ request[r] \in PoolRequest
        OBVIOUS
      <4> QED
        BY <3>3, <4>1 DEF RequestSteps
    <3>5. request' = [request EXCEPT ![r] = q]
      BY <2>9, <3>3 DEF OpenPool
    <3>6. PoolTypes'
      BY <3>1, <3>2, <3>4, <3>5 DEF PoolStates
    <3>7. \A p \in PoolRequests : pool[p].state # "none" => p # r
      BY <3>1
    <3>8. \A p \in PoolRequests :
            pool'[p].state # "none" => request'[p].pc \in {"using", "done"}
                                       /\ pool'[p].dsn = request'[p].dsn
      BY <3>2, <3>4, <3>5
    <3>9. \A k \in CacheKinds : \A p \in cache'[k] :
            pool'[p].state # "none" /\ request'[p].kind = k
      <4> SUFFICES ASSUME NEW k \in CacheKinds, NEW p \in cache'[k]
                   PROVE  pool'[p].state # "none" /\ request'[p].kind = k
        OBVIOUS
      <4>1. CASE k = request[r].kind
        BY <3>1, <3>2, <3>4, <3>5, <4>1
      <4>2. CASE k # request[r].kind
        BY <3>1, <3>2, <3>5, <3>7, <4>2
      <4> QED
        BY <4>1, <4>2
    <3>10. \A s \in PoolRequests : request'[s].pc = "closing" => request'[s].kind = "kpi"
      BY <3>4, <3>5
    <3>11. ASSUME NEW s \in PoolRequests, NEW p \in request'[s].pool
           PROVE  /\ request'[s].pc \in {"closing", "using"}
                  /\ pool'[p].state # "none"
                  /\ request'[p].kind = request'[s].kind
                  /\ request'[s].pc = "using" => pool'[p].dsn = request'[s].dsn
      <4>1. CASE s = r
        BY <3>2, <3>4, <3>5, <3>11, <4>1
      <4>2. CASE s # r
        BY <3>2, <3>4, <3>5, <3>7, <3>11, <4>2
      <4> QED
        BY <4>1, <4>2
    <3> QED
      BY <3>6, <3>8, <3>9, <3>10, <3>11
  <2>10. ASSUME NEW r \in PoolRequests, OpenFails(r) PROVE PoolTypes' /\ PoolsNamed'
    BY <2>10 DEF OpenFails, Move, RequestSteps
  <2>11. ASSUME NEW r \in PoolRequests, FinishRequest(r) PROVE PoolTypes' /\ PoolsNamed'
    <3>1. PICK q : q = [request[r] EXCEPT !.pc = "done", !.pool = {}]
      OBVIOUS
    <3>2. /\ q.pc = "done" /\ q.pool = {} /\ q.kind = request[r].kind /\ q.dsn = request[r].dsn
          /\ q \in [pc : RequestSteps, kind : CacheKinds, dsn : Nat, pool : SUBSET PoolRequests]
      <4>1. r \in PoolRequests /\ request[r] \in PoolRequest
        OBVIOUS
      <4> QED
        BY <3>1, <4>1 DEF RequestSteps
    <3>3. /\ request' = [request EXCEPT ![r] = q]
          /\ UNCHANGED <<dsn, cache, pool>>
      BY <2>11, <3>1 DEF FinishRequest
    <3> QED
      BY <3>2, <3>3
  <2>12. CASE UNCHANGED poolVars
    BY <2>12 DEF poolVars
  <2> QED
    BY <2>1, <2>2, <2>3, <2>4, <2>5, <2>6, <2>7, <2>8, <2>9, <2>10, <2>11, <2>12 DEF PoolNext
<1> QED
  BY <1>1, <1>2, PTL DEF PoolSpec

\* A request works on the target its own row named, whatever requests with other
\* rows did to the cache since (api/v1/kpi.py, api/v1/tuning.py).
THEOREM PoolsFit == PoolSpec => []PoolFitsRequest
<1>1. PoolTypes /\ PoolsNamed => PoolFitsRequest
  BY DEF PoolTypes, PoolsNamed, PoolFitsRequest, PoolRequest
<1> QED
  BY <1>1, PoolsNamedHold, PTL

\* What holds of the requests of kind k as long as no two of them were in the
\* lookup at once: at most one is there now, it finds the entry as it left it
\* (the pool it closes, or nothing), and an open pool is in the cache.
KindInv(k) ==
  k \notin overlapped =>
    /\ \A r, q \in InLookUp(k) : r = q
    /\ \A r \in InLookUp(k) :
         /\ request[r].pc = "closing" =>
              cache[k] = request[r].pool /\ \A p \in cache[k] : pool[p].state # "open"
         /\ request[r].pc = "opening" => cache[k] = {}
    /\ \A p \in PoolRequests :
         pool[p].state = "open" /\ request[p].kind = k => cache[k] = {p}

\* A cache holds at most one pool.
OneEntry == \A k \in CacheKinds : \A p, q \in cache[k] : p = q

CacheInv == PoolTypes /\ PoolsNamed /\ OneEntry /\ \A k \in CacheKinds : KindInv(k)

\* A step of request r leaves the other kinds as they are.
LEMMA OtherKind ==
  ASSUME NEW r \in PoolRequests, NEW k \in CacheKinds, request[r].kind # k, KindInv(k),
         \A q \in PoolRequests \ {r} : request'[q] = request[q],
         request'[r].kind = request[r].kind,
         cache'[k] = cache[k], overlapped \subseteq overlapped',
         \A p \in PoolRequests : request[p].kind = k => pool'[p] = pool[p],
         \A p \in cache[k] : p \in PoolRequests /\ request[p].kind = k
  PROVE  KindInv(k)'
<1>1. InLookUp(k)' = InLookUp(k)
  BY DEF InLookUp
<1>2. \A q \in InLookUp(k) : q \in PoolRequests \ {r}
  BY DEF InLookUp
<1> QED
  BY <1>1, <1>2 DEF KindInv

\* A request that is not in the lookup after its step, opens no pool and leaves
\* the cache.
LEMMA OutOfLookUp ==
  ASSUME NEW r \in PoolRequests, NEW k \in CacheKinds, KindInv(k),
         \A q \in PoolRequests \ {r} : request'[q] = request[q],
         request'[r].kind = request[r].kind, request'[r].pc \notin {"closing", "opening"},
         cache' = cache, overlapped' = overlapped, cache[k] \subseteq PoolRequests,
         \A p \in PoolRequests : pool'[p].state = "open" => pool[p].state = "open"
  PROVE  KindInv(k)'
<1>1. \A q \in InLookUp(k)' : q \in InLookUp(k) /\ request'[q] = request[q]
  BY DEF InLookUp
<1> QED
  BY <1>1 DEF KindInv

\* A request that enters the lookup alone.
LEMMA IntoLookUp ==
  ASSUME NEW r \in PoolRequests, NEW k \in CacheKinds, request[r].kind = k, KindInv(k),
         \A q \in PoolRequests \ {r} : request'[q] = request[q],
         request'[r].kind = request[r].kind, overlapped' = Overlap(k),
         \/ /\ request'[r].pc = "closing"
            /\ cache'[k] = request'[r].pool /\ \A p \in cache'[k] : pool'[p].state # "open"
         \/ request'[r].pc = "opening" /\ cache'[k] = {},
         k \notin overlapped' => \A p \in PoolRequests :
           request[p].kind = k => pool'[p].state # "open"
  PROVE  KindInv(k)'
<1>1. k \notin overlapped' => InLookUp(k) = {} /\ k \notin overlapped
  BY DEF Overlap
<1>2. k \notin overlapped' => \A q \in InLookUp(k)' : q = r
  BY <1>1 DEF InLookUp
<1>3. \A p \in PoolRequests : request'[p].kind = request[p].kind
  OBVIOUS
<1> QED
  BY <1>1, <1>2, <1>3 DEF KindInv

LEMMA LookUpKeepsKind ==
  ASSUME CacheInv, NEW r \in PoolRequests, NEW k \in CacheKinds,
         FindNothing(r) \/ TerminateOld(r) \/ BeginClose(r)
  PROVE  KindInv(k)'
<1> USE DEF CacheInv, PoolTypes, PoolsNamed, OneEntry
<1>1. /\ \A q \in PoolRequests \ {r} : request'[q] = request[q]
      /\ request'[r].kind = request[r].kind
      /\ request[r].kind \in CacheKinds
      /\ \A p \in cache[k] : p \in PoolRequests /\ request[p].kind = k
      /\ overlapped' = Overlap(request[r].kind)
  BY DEF FindNothing, TerminateOld, BeginClose, Move, PoolRequest
<1>2. overlapped \subseteq overlapped'
  BY <1>1 DEF Overlap
<1>3. CASE FindNothing(r)
  <2>1. /\ pool' = pool /\ cache' = cache /\ cache[request[r].kind] = {}
        /\ request'[r].pc = "opening"
    BY <1>3 DEF FindNothing, Move, PoolRequest
  <2>2. CASE request[r].kind # k
    BY <1>1, <1>2, <2>1, <2>2, OtherKind
  <2>3. CASE request[r].kind = k
    <3>1. k \notin overlapped => \A p \in PoolRequests :
            request[p].kind = k => pool[p].state # "open"
      BY <2>1, <2>3 DEF KindInv
    <3> QED
      BY <1>1, <1>2, <2>1, <2>3, <3>1, IntoLookUp
  <2> QED
    BY <2>2, <2>3
<1>4. CASE TerminateOld(r)
  <2>1. PICK p \in cache["tuning"] : pool' = [pool EXCEPT ![p].state = "closed"]
    BY <1>4 DEF TerminateOld
  <2>2. /\ request[r].kind = "tuning" /\ request'[r].pc = "opening"
        /\ cache' = [cache EXCEPT !["tuning"] = {}]
        /\ "tuning" \in CacheKinds
    BY <1>4 DEF TerminateOld, Move, PoolRequest, CacheKinds
  <2>3. p \in PoolRequests /\ request[p].kind = "tuning"
    BY <2>1, <2>2
  <2>4. pool'[p].state = "closed" /\ \A q \in PoolRequests \ {p} : pool'[q] = pool[q]
    BY <2>1, <2>3 DEF Pool
  <2>5. CASE request[r].kind # k
    BY <1>1, <1>2, <2>2, <2>3, <2>4, <2>5, OtherKind
  <2>6. CASE request[r].kind = k
    <3>1. k \notin overlapped => \A q \in PoolRequests :
            request[q].kind = k => pool'[q].state # "open"
      BY <2>1, <2>2, <2>4, <2>6 DEF KindInv
    <3>2. cache'[k] = {}
      BY <2>2, <2>6
    <3> QED
      BY <1>1, <1>2, <2>2, <2>6, <3>1, <3>2, IntoLookUp
  <2> QED
    BY <2>5, <2>6
<1>5. CASE BeginClose(r)
  <2>1. PICK p \in cache["kpi"] :
          /\ pool' = [pool EXCEPT ![p].state = IF @ = "open" THEN "closing" ELSE @]
          /\ request' = [request EXCEPT ![r].pc = "closing", ![r].pool = {p}]
    BY <1>5 DEF BeginClose
  <2>2. request[r].kind = "kpi" /\ cache' = cache /\ "kpi" \in CacheKinds
    BY <1>5 DEF BeginClose, CacheKinds
  <2>3. p \in PoolRequests /\ request[p].kind = "kpi" /\ cache["kpi"] = {p}
    BY <2>1, <2>2
  <2>4. pool'[p].state # "open" /\ \A q \in PoolRequests \ {p} : pool'[q] = pool[q]
    BY <2>1, <2>3 DEF Pool
  <2>5. request'[r].pc = "closing" /\ request'[r].pool = {p}
    BY <2>1 DEF PoolRequest
  <2>6. CASE request[r].kind # k
    BY <1>1, <1>2, <2>2, <2>3, <2>4, <2>6, OtherKind
  <2>7. CASE request[r].kind = k
    <3>1. k \notin overlapped => \A q \in PoolRequests :
            request[q].kind = k => pool'[q].state # "open"
      BY <2>2, <2>3, <2>4, <2>7 DEF KindInv
    <3>2. cache'[k] = request'[r].pool /\ \A q \in cache'[k] : pool'[q].state # "open"
      BY <2>2, <2>3, <2>4, <2>5, <2>7
    <3> QED
      BY <1>1, <1>2, <2>5, <2>7, <3>1, <3>2, IntoLookUp
  <2> QED
    BY <2>6, <2>7
<1> QED
  BY <1>3, <1>4, <1>5

LEMMA OpenKeepsKind ==
  ASSUME CacheInv, NEW r \in PoolRequests, NEW k \in CacheKinds, EndClose(r) \/ OpenPool(r)
  PROVE  KindInv(k)'
<1> USE DEF CacheInv, PoolTypes, PoolsNamed
<1>1. /\ \A q \in PoolRequests \ {r} : request'[q] = request[q]
      /\ request'[r].kind = request[r].kind
      /\ request[r].kind \in CacheKinds
      /\ \A p \in cache[k] : p \in PoolRequests /\ request[p].kind = k
      /\ overlapped' = overlapped
  BY DEF EndClose, OpenPool, PoolRequest
<1>2. CASE EndClose(r)
  <2>1. PICK p \in request[r].pool : pool' = [pool EXCEPT ![p].state = "closed"]
    BY <1>2 DEF EndClose, Closed
  <2>2. /\ request[r].pc = "closing" /\ request'[r].pc = "opening"
        /\ cache' = [cache EXCEPT !["kpi"] = {}] /\ "kpi" \in CacheKinds
    BY <1>2 DEF EndClose, PoolRequest, CacheKinds
  <2>3. request[r].kind = "kpi" /\ p \in PoolRequests /\ request[p].kind = "kpi"
    BY <2>1, <2>2 DEF PoolRequest
  <2>4. pool'[p].state = "closed" /\ \A q \in PoolRequests \ {p} : pool'[q] = pool[q]
    BY <2>1, <2>3 DEF Pool
  <2>5. CASE k # "kpi"
    BY <1>1, <2>2, <2>3, <2>4, <2>5, OtherKind
  <2>6. CASE k = "kpi"
    <3>1. SUFFICES ASSUME k \notin overlapped PROVE KindInv(k)'
      BY <1>1 DEF KindInv
    <3>2. r \in InLookUp(k) /\ \A q \in InLookUp(k) : q = r
      BY <2>2, <2>3, <2>6, <3>1 DEF InLookUp, KindInv
    <3>3. InLookUp(k)' = {r}
      BY <1>1, <2>2, <2>3, <2>6, <3>2 DEF InLookUp
    <3>4. cache'[k] = {}
      BY <2>2, <2>6
    <3>5. p \in cache[k] /\ \A q \in cache[k] : pool[q].state # "open"
      BY <2>1, <2>2, <3>1, <3>2 DEF KindInv
    <3>6. \A q \in PoolRequests : request[q].kind = k => pool[q].state # "open"
      BY <3>1, <3>5 DEF KindInv
    <3>7. \A q \in PoolRequests : request'[q].kind = k => pool'[q].state # "open"
      BY <1>1, <2>4, <3>6
    <3> QED
      BY <2>2, <3>3, <3>4, <3>7 DEF KindInv
  <2> QED
    BY <2>5, <2>6
<1>3. CASE OpenPool(r)
  <2>1. /\ request[r].pc = "opening" /\ request'[r].pc = "using"
        /\ cache' = [cache EXCEPT ![request[r].kind] = {r}]
        /\ pool'[r].state = "open" /\ \A q \in PoolRequests \ {r} : pool'[q] = pool[q]
    BY <1>3 DEF OpenPool, PoolRequest
  <2>2. CASE k # request[r].kind
    BY <1>1, <2>1, <2>2, OtherKind
  <2>3. CASE k = request[r].kind
    <3>1. SUFFICES ASSUME k \notin overlapped PROVE KindInv(k)'
      BY <1>1 DEF KindInv
    <3>2. r \in InLookUp(k) /\ \A q \in InLookUp(k) : q = r
      BY <2>1, <2>3, <3>1 DEF InLookUp, KindInv
    <3>3. InLookUp(k)' = {}
      BY <1>1, <2>1, <3>2 DEF InLookUp
    <3>4. cache[k] = {} /\ cache'[k] = {r}
      BY <1>1, <2>1, <2>3, <3>1, <3>2 DEF KindInv
    <3>5. \A q \in PoolRequests : request[q].kind = k => pool[q].state # "open"
      BY <3>1, <3>4 DEF KindInv
    <3>6. \A q \in PoolRequests : request'[q].kind = k /\ pool'[q].state = "open" => q = r
      BY <1>1, <2>1, <3>5
    <3> QED
      BY <3>3, <3>4, <3>6 DEF KindInv
  <2> QED
    BY <2>2, <2>3
<1> QED
  BY <1>2, <1>3

LEMMA OutKeepsKind ==
  ASSUME CacheInv, NEW r \in PoolRequests, NEW k \in CacheKinds,
         UseCached(r) \/ EntryGone(r) \/ OpenFails(r) \/ FinishRequest(r)
  PROVE  KindInv(k)'
<1> USE DEF CacheInv, PoolTypes, PoolsNamed
<1>1. /\ \A q \in PoolRequests \ {r} : request'[q] = request[q]
      /\ request'[r].kind = request[r].kind
      /\ request'[r].pc \notin {"closing", "opening"}
      /\ cache' = cache /\ overlapped' = overlapped
  BY DEF UseCached, EntryGone, OpenFails, FinishRequest, Move, PoolRequest
<1>2. \A p \in PoolRequests : pool'[p].state = "open" => pool[p].state = "open"
  BY DEF UseCached, EntryGone, OpenFails, FinishRequest, Closed, Pool
<1> QED
  BY <1>1, <1>2, OutOfLookUp

\* A request that loads its instance has opened nothing, whatever its kind.
LEMMA LoadKeepsKind ==
  ASSUME CacheInv, NEW r \in PoolRequests, NEW k \in CacheKinds, NEW l \in CacheKinds,
         LoadInstance(r, l)
  PROVE  KindInv(k)'
<1> USE DEF CacheInv, PoolTypes, PoolsNamed, Opener
<1>1. /\ request[r].pc = "waiting" /\ request'[r].pc = "loaded"
      /\ \A q \in PoolRequests \ {r} : request'[q] = request[q]
      /\ cache' = cache /\ pool' = pool /\ overlapped' = overlapped
  BY DEF LoadInstance
<1>2. pool[r].state = "none"
  BY <1>1
<1>3. InLookUp(k)' = InLookUp(k) /\ r \notin InLookUp(k)
  BY <1>1 DEF InLookUp
<1>4. \A q \in InLookUp(k) : request'[q] = request[q]
  BY <1>1, <1>3 DEF InLookUp
<1> QED
  BY <1>1, <1>2, <1>3, <1>4 DEF KindInv

LEMMA CacheInvHolds == PoolSpec => []CacheInv
<1> DEFINE AllKinds == \A k \in CacheKinds : KindInv(k)
<1>1. PoolInit => OneEntry /\ AllKinds
  <2> SUFFICES ASSUME PoolInit PROVE OneEntry /\ AllKinds
    OBVIOUS
  <2>1. /\ \A r \in PoolRequests : request[r].pc = "waiting" /\ pool[r].state = "none"
        /\ \A k \in CacheKinds : cache[k] = {}
    BY DEF PoolInit
  <2>2. \A k \in CacheKinds : InLookUp(k) = {}
    BY <2>1 DEF InLookUp
  <2> QED
    BY <2>1, <2>2 DEF OneEntry, KindInv
<1>2. CacheInv /\ [PoolNext]_poolVars => OneEntry'
  <2> SUFFICES ASSUME CacheInv, [PoolNext]_poolVars PROVE OneEntry'
    OBVIOUS
  <2> USE DEF CacheInv, PoolTypes, OneEntry
  <2>1. CASE UNCHANGED cache
    BY <2>1
  <2>2. ASSUME NEW r \in PoolRequests, TerminateOld(r) PROVE OneEntry'
    BY <2>2 DEF TerminateOld
  <2>3. ASSUME NEW r \in PoolRequests, EndClose(r) PROVE OneEntry'
    BY <2>3 DEF EndClose
  <2>4. ASSUME NEW r \in PoolRequests, OpenPool(r) PROVE OneEntry'
    BY <2>4 DEF OpenPool
  <2>5. ASSUME \/ RotateDsn \/ UNCHANGED poolVars
               \/ \E r \in PoolRequests :
                    \/ \E k \in CacheKinds : LoadInstance(r, k)
                    \/ UseCached(r) \/ FindNothing(r) \/ BeginClose(r) \/ EntryGone(r)
                    \/ OpenFails(r) \/ FinishRequest(r)
        PROVE  UNCHANGED cache
    BY <2>5 DEF RotateDsn, LoadInstance, UseCached, FindNothing, BeginClose, EntryGone, OpenFails,
                FinishRequest, poolVars
  <2> QED
    BY <2>1, <2>2, <2>3, <2>4, <2>5 DEF PoolNext
<1>3. CacheInv /\ [PoolNext]_poolVars => AllKinds'
  <2> SUFFICES ASSUME CacheInv, [PoolNext]_poolVars, NEW k \in CacheKinds PROVE KindInv(k)'
    OBVIOUS
  <2>1. CASE RotateDsn \/ UNCHANGED poolVars
    BY <2>1 DEF CacheInv, KindInv, InLookUp, RotateDsn, poolVars
  <2> QED
    BY <2>1, LoadKeepsKind, OutKeepsKind, OpenKeepsKind, LookUpKeepsKind DEF PoolNext
<1>4. CacheInv <=> PoolTypes /\ PoolsNamed /\ OneEntry /\ AllKinds
  BY DEF CacheInv
<1> QED
  BY <1>1, <1>2, <1>3, <1>4, PoolsNamedHold, PTL DEF PoolSpec

\* A pool nobody will ever close is left behind only where two requests were in
\* the lookup of its kind at once (api/v1/kpi.py:33-62, api/v1/tuning.py).
THEOREM LeaksAreOverlaps == PoolSpec => []LeaksNeedOverlap
<1>1. CacheInv => LeaksNeedOverlap
  BY DEF CacheInv, PoolTypes, PoolRequest, KindInv, LeaksNeedOverlap
<1> QED
  BY <1>1, CacheInvHolds, PTL

\* DSNs come from the rows the instance has had.
DsnsBounded ==
  /\ dsn \in 0..MaxRotations /\ overlapped \subseteq CacheKinds
  /\ \A r \in PoolRequests : pool[r].dsn \in 0..MaxRotations /\ request[r].dsn \in 0..MaxRotations

LEMMA DsnsStayBounded ==
  CacheInv /\ DsnsBounded /\ [PoolNext]_poolVars => DsnsBounded'
<1> SUFFICES ASSUME CacheInv, DsnsBounded, [PoolNext]_poolVars PROVE DsnsBounded'
  OBVIOUS
<1>0. /\ pool \in [PoolRequests -> Pool] /\ request \in [PoolRequests -> PoolRequest]
  BY DEF CacheInv, PoolTypes
<1> USE DEF DsnsBounded
<1>1. CASE UNCHANGED poolVars
  BY <1>1 DEF poolVars
<1>2. CASE RotateDsn
  BY <1>2, PoolAssumption DEF RotateDsn
<1>3. ASSUME NEW r \in PoolRequests, NEW k \in CacheKinds, LoadInstance(r, k) PROVE DsnsBounded'
  BY <1>0, <1>3 DEF LoadInstance
<1>4. ASSUME NEW r \in PoolRequests,
             UseCached(r) \/ FindNothing(r) \/ OpenFails(r) \/ FinishRequest(r)
      PROVE  DsnsBounded'
  <2>1. /\ \A q \in PoolRequests : request'[q].dsn = request[q].dsn
        /\ UNCHANGED <<dsn, pool>> /\ overlapped' \subseteq overlapped \cup {request[r].kind}
    BY <1>0, <1>4 DEF UseCached, FindNothing, OpenFails, FinishRequest, Move, Overlap, PoolRequest
  <2> QED
    BY <1>0, <2>1 DEF PoolRequest
<1>5. ASSUME NEW r \in PoolRequests,
             TerminateOld(r) \/ BeginClose(r) \/ EndClose(r) \/ EntryGone(r)
      PROVE  DsnsBounded'
  <2>1. \A q \in PoolRequests : request'[q].dsn = request[q].dsn
    BY <1>0, <1>5 DEF TerminateOld, BeginClose, EndClose, EntryGone, Move, PoolRequest
  <2>2. \A q \in PoolRequests : pool'[q].dsn = pool[q].dsn
    BY <1>0, <1>5 DEF TerminateOld, BeginClose, EndClose, EntryGone, Closed, Pool
  <2>3. dsn' = dsn /\ overlapped' \subseteq overlapped \cup CacheKinds
    BY <1>5 DEF TerminateOld, BeginClose, EndClose, EntryGone, Overlap, CacheKinds
  <2> QED
    BY <2>1, <2>2, <2>3
<1>6. ASSUME NEW r \in PoolRequests, OpenPool(r) PROVE DsnsBounded'
  <2>1. \A q \in PoolRequests : request'[q].dsn = request[q].dsn
    BY <1>0, <1>6 DEF OpenPool, PoolRequest
  <2> QED
    BY <1>0, <1>6, <2>1 DEF OpenPool
<1> QED
  BY <1>1, <1>2, <1>3, <1>4, <1>5, <1>6 DEF PoolNext

\* Caches, pools and requests keep their types: a cache holds one pool at most.
THEOREM PoolTypeInvariant == PoolSpec => []PoolTypeOK
<1>1. PoolInit => DsnsBounded
  BY PoolAssumption DEF PoolInit, DsnsBounded
<1>2. CacheInv /\ DsnsBounded => PoolTypeOK
  <2> SUFFICES ASSUME CacheInv, DsnsBounded PROVE PoolTypeOK
    OBVIOUS
  <2>1. \A k \in CacheKinds : cache[k] \in {{}} \cup {{r} : r \in PoolRequests}
    <3> SUFFICES ASSUME NEW k \in CacheKinds, cache[k] # {}
                 PROVE  \E r \in PoolRequests : cache[k] = {r}
      OBVIOUS
    <3>1. PICK r \in PoolRequests : r \in cache[k]
      BY DEF CacheInv, PoolTypes
    <3> QED
      BY <3>1 DEF CacheInv, OneEntry
  <2> QED
    BY <2>1 DEF CacheInv, PoolTypes, Pool, PoolRequest, DsnsBounded, PoolTypeOK
<1> QED
  BY <1>1, <1>2, DsnsStayBounded, CacheInvHolds, PTL DEF PoolSpec

-----------------------------------------------------------------------------
(* Settings.                                                               *)

Given == Stored \cup {Unset}

UpdateStates ==
  [pc : {"idle", "assign", "select", "done", "failed"}, body : [Keys -> Given],
   at : 1..(Len(SettingKeys) + 1), pending : [Keys -> Given], insert : SUBSET Keys,
   flushed : [Keys -> Given]]

SettingTypes ==
  /\ attribute \in [Keys -> Stored \cup {Default}]
  /\ row \in [Keys -> Stored \cup {NoRow}]
  /\ update \in [Updates -> UpdateStates]
  /\ clean \in BOOLEAN /\ restarts \in 0..MaxRestarts
  /\ \A u \in Updates : update[u].pc = "select" => update[u].at <= Len(SettingKeys)

\* What the only update m in flight has done to its i-th key: the attribute is
\* assigned as soon as the key has been looked at, and the value is on its way
\* to the row, or there already, once the row has been looked up.
KeyDone(m, i) ==
  LET k == SettingKeys[i]
      given == m.body[k] # Unset
  IN  /\ m.body[k] # Empty
      /\ attribute[k] = IF given /\ (i < m.at \/ (i = m.at /\ m.pc = "select"))
                        THEN m.body[k] ELSE Applied(row, k)
      /\ IF given /\ i < m.at
         THEN Flushed(m)[k] = m.body[k] \/ (Flushed(m)[k] = Unset /\ row[k] = m.body[k])
         ELSE Flushed(m)[k] = Unset

\* As long as updates neither overlap nor fail, the attributes are what a start
\* would take from the rows, but for what the one in flight has done.
SettingInv ==
  /\ SettingTypes
  /\ clean =>
       /\ \A u, v \in InFlight : u = v
       /\ InFlight = {} => attribute = AfterStart(row)
       /\ \A u \in InFlight : \A i \in DOMAIN SettingKeys : KeyDone(update[u], i)

LEMMA NoUpdateTyped == NoUpdate \in UpdateStates
<1>1. Len(SettingKeys) \in Nat
  BY SettingAssumption
<1> QED
  BY <1>1 DEF NoUpdate, UpdateStates, Given

LEMMA KeysOfIndex ==
  /\ Len(SettingKeys) \in Nat /\ DOMAIN SettingKeys = 1..Len(SettingKeys)
  /\ \A i \in 1..Len(SettingKeys) : SettingKeys[i] \in Keys
  /\ \A k \in Keys : \E i \in 1..Len(SettingKeys) : k = SettingKeys[i]
BY SettingAssumption DEF Keys

\* What is written and what is still pending, key by key.
LEMMA FlushedTyped ==
  ASSUME NEW m \in UpdateStates
  PROVE  /\ Flushed(m) \in [Keys -> Given]
         /\ \A k \in Keys : Flushed(m)[k] = IF m.pending[k] # Unset THEN m.pending[k]
                                                                    ELSE m.flushed[k]
BY DEF Flushed, UpdateStates

\* An update that is rolled back.
LEMMA FailKeepsInv ==
  ASSUME SettingInv, NEW u \in Updates, FailUpdate(u)
  PROVE  SettingInv'
<1>1. PICK f : f = [NoUpdate EXCEPT !.pc = "failed"]
  OBVIOUS
<1>2. f \in UpdateStates
  BY <1>1, NoUpdateTyped DEF UpdateStates
<1>3. f.pc = "failed"
  BY <1>1, NoUpdateTyped DEF UpdateStates
<1>4. update' = [update EXCEPT ![u] = f] /\ UNCHANGED <<attribute, row, restarts>>
  BY <1>1 DEF FailUpdate
<1>5. ~clean' /\ clean' \in BOOLEAN
  BY Zenon DEF FailUpdate
<1>6. SettingTypes'
  BY <1>2, <1>3, <1>4, <1>5 DEF SettingInv, SettingTypes
<1> QED
  BY <1>5, <1>6 DEF SettingInv

\* A step of the update in flight, that is in flight still.
LEMMA OneUpdate ==
  ASSUME SettingInv, NEW u \in InFlight, NEW f \in UpdateStates,
         f.pc \in {"assign", "select"}, f.pc = "select" => f.at <= Len(SettingKeys),
         update' = [update EXCEPT ![u] = f], attribute' \in [Keys -> Stored \cup {Default}],
         UNCHANGED <<row, clean, restarts>>,
         ASSUME clean, NEW i \in DOMAIN SettingKeys, KeyDone(update[u], i) PROVE KeyDone(f, i)'
  PROVE  SettingInv'
<1>1. /\ u \in Updates /\ update' \in [Updates -> UpdateStates] /\ update'[u] = f
      /\ \A v \in Updates \ {u} : update'[v] = update[v]
  BY DEF SettingInv, SettingTypes, InFlight
<1>2. InFlight' = InFlight
  BY <1>1 DEF InFlight
<1>3. SettingTypes'
  BY <1>1 DEF SettingInv, SettingTypes
<1>4. ASSUME clean' PROVE \A v \in InFlight' : \A i \in DOMAIN SettingKeys : KeyDone(update[v], i)'
  <2>1. clean /\ \A v \in InFlight : v = u
    BY <1>4 DEF SettingInv
  <2>2. \A i \in DOMAIN SettingKeys : KeyDone(update[u], i)
    BY <2>1 DEF SettingInv
  <2>3. \A i \in DOMAIN SettingKeys : KeyDone(f, i)'
    BY <2>1, <2>2
  <2>4. \A i \in DOMAIN SettingKeys : KeyDone(update[u], i)'
    BY <1>1, <2>3 DEF KeyDone
  <2>5. \A v \in InFlight' : v = u
    BY <1>2, <2>1
  <2> QED
    BY <2>4, <2>5
<1>5. clean' => \A v, w \in InFlight' : v = w
  BY <1>2 DEF SettingInv
<1>6. InFlight' # {}
  BY <1>2
<1> QED
  BY <1>3, <1>4, <1>5, <1>6 DEF SettingInv

LEMMA RequestKeepsInv ==
  ASSUME SettingInv, NEW u \in Updates, NEW body \in [Keys -> Given], RequestUpdate(u, body)
  PROVE  SettingInv'
<1>1. PICK f : f = [NoUpdate EXCEPT !.pc = "assign", !.body = body]
  OBVIOUS
<1>2. f \in UpdateStates
  BY <1>1, NoUpdateTyped DEF UpdateStates
<1>3. f.pc = "assign" /\ f.at = 1 /\ f.body = body
  BY <1>1, NoUpdateTyped DEF UpdateStates, NoUpdate
<1>4. Flushed(f) = [k \in Keys |-> Unset]
  BY <1>1 DEF Flushed, NoUpdate
<1>5. /\ update' = [update EXCEPT ![u] = f]
      /\ UNCHANGED <<attribute, row, restarts>>
  BY <1>1 DEF RequestUpdate
<1>6. /\ clean' \in BOOLEAN
      /\ clean' => clean /\ InFlight = {} /\ \A k \in Keys : body[k] # Empty
  BY Zenon DEF RequestUpdate
<1>7. SettingTypes'
  BY <1>2, <1>3, <1>5, <1>6 DEF SettingInv, SettingTypes
<1>8. update'[u] = f /\ \A v \in Updates \ {u} : update'[v] = update[v]
  BY <1>5 DEF SettingInv, SettingTypes
<1>9. ASSUME clean'
      PROVE  /\ \A v \in InFlight' : v = u
             /\ InFlight' # {}
             /\ \A i \in DOMAIN SettingKeys : KeyDone(update[u], i)'
  <2>1. clean /\ InFlight = {} /\ \A k \in Keys : body[k] # Empty
    BY <1>6, <1>9
  <2>2. attribute = AfterStart(row)
    BY <2>1 DEF SettingInv
  <2>3. InFlight' = {u}
    BY <1>3, <1>8, <2>1 DEF InFlight
  <2>4. ASSUME NEW i \in DOMAIN SettingKeys PROVE KeyDone(update[u], i)'
    <3>1. SettingKeys[i] \in Keys /\ i \in 1..Len(SettingKeys) /\ Len(SettingKeys) \in Nat
      BY KeysOfIndex
    <3>2. attribute'[SettingKeys[i]] = Applied(row', SettingKeys[i])
      BY <1>5, <2>2, <3>1 DEF AfterStart
    <3> QED
      BY <1>3, <1>4, <1>8, <2>1, <3>1, <3>2 DEF KeyDone
  <2> QED
    BY <2>3, <2>4
<1>10. clean' => /\ \A v, w \in InFlight' : v = w
                 /\ InFlight' # {}
                 /\ \A v \in InFlight' : \A i \in DOMAIN SettingKeys : KeyDone(update[v], i)'
  BY <1>9
<1> QED
  BY <1>7, <1>10 DEF SettingInv

LEMMA AssignKeepsInv ==
  ASSUME SettingInv, NEW u \in Updates, AssignField(u)
  PROVE  SettingInv'
<1> DEFINE m == update[u]
           k == SettingKeys[m.at]
<1>1. /\ m \in UpdateStates /\ m.pc = "assign" /\ m.at \in 1..Len(SettingKeys)
      /\ k \in Keys /\ u \in InFlight /\ Len(SettingKeys) \in Nat
  BY KeysOfIndex DEF AssignField, SettingInv, SettingTypes, UpdateStates, InFlight
<1>2. UNCHANGED <<row, clean, restarts>>
  BY DEF AssignField
<1>3. CASE m.body[k] = Unset
  <2>1. PICK f : f = [m EXCEPT !.at = @ + 1]
    OBVIOUS
  <2>2. /\ f \in UpdateStates /\ f.pc = "assign" /\ f.at = m.at + 1 /\ f.body = m.body
        /\ f.pending = m.pending /\ f.flushed = m.flushed
    BY <1>1, <2>1 DEF UpdateStates
  <2>3. update' = [update EXCEPT ![u] = f] /\ attribute' = attribute
    BY <1>3, <2>1 DEF AssignField
  <2>4. Flushed(f) = Flushed(m)
    BY <2>2 DEF Flushed
  <2>5. ASSUME NEW i \in DOMAIN SettingKeys, KeyDone(m, i) PROVE KeyDone(f, i)'
    <3>1. i \in 1..Len(SettingKeys)
      BY KeysOfIndex
    <3>2. i < f.at <=> i < m.at \/ i = m.at
      BY <1>1, <2>2, <3>1
    <3> QED
      BY <1>1, <1>2, <1>3, <2>2, <2>3, <2>4, <2>5, <3>1, <3>2 DEF KeyDone
  <2>6. attribute' \in [Keys -> Stored \cup {Default}]
    BY <2>3 DEF SettingInv, SettingTypes
  <2> QED
    BY <1>1, <1>2, <2>2, <2>3, <2>5, <2>6, OneUpdate
<1>4. CASE m.body[k] # Unset
  <2>1. PICK f : f = [m EXCEPT !.pc = "select"]
    OBVIOUS
  <2>2. /\ f \in UpdateStates /\ f.pc = "select" /\ f.at = m.at /\ f.body = m.body
        /\ f.pending = m.pending /\ f.flushed = m.flushed
    BY <1>1, <2>1 DEF UpdateStates
  <2>3. /\ update' = [update EXCEPT ![u] = f]
        /\ attribute' = [attribute EXCEPT ![k] = m.body[k]]
    BY <1>4, <2>1 DEF AssignField, Assign
  <2>4. Flushed(f) = Flushed(m)
    BY <2>2 DEF Flushed
  <2>5. m.body[k] \in Stored
    BY <1>1, <1>4 DEF UpdateStates, Given
  <2>6. /\ attribute' \in [Keys -> Stored \cup {Default}] /\ attribute'[k] = m.body[k]
        /\ \A j \in Keys \ {k} : attribute'[j] = attribute[j]
    BY <1>1, <2>3, <2>5 DEF SettingInv, SettingTypes
  <2>7. ASSUME NEW i \in DOMAIN SettingKeys, KeyDone(m, i) PROVE KeyDone(f, i)'
    <3>1. i \in 1..Len(SettingKeys) /\ SettingKeys[i] \in Keys
      BY KeysOfIndex
    <3>2. SettingKeys[i] = k <=> i = m.at
      BY <1>1, <3>1, KeysOfIndex, SettingAssumption
    <3>3. m.at \in Int /\ i \in Int
      BY <1>1, <3>1
    <3>4. CASE i = m.at
      BY <1>1, <1>2, <1>4, <2>2, <2>4, <2>6, <2>7, <3>2, <3>3, <3>4 DEF KeyDone
    <3>5. CASE i # m.at
      BY <1>1, <1>2, <2>2, <2>4, <2>6, <2>7, <3>1, <3>2, <3>3, <3>5 DEF KeyDone, Applied
    <3> QED
      BY <3>4, <3>5
  <2>8. f.at <= Len(SettingKeys)
    BY <1>1, <2>2
  <2> QED
    BY <1>1, <1>2, <2>2, <2>3, <2>6, <2>7, <2>8, OneUpdate
<1> QED
  BY <1>3, <1>4

LEMMA SelectKeepsInv ==
  ASSUME SettingInv, NEW u \in Updates, SelectRow(u)
  PROVE  SettingInv'
<1> DEFINE m == update[u]
           k == SettingKeys[m.at]
<1>1. /\ m \in UpdateStates /\ m.pc = "select" /\ m.at \in 1..Len(SettingKeys)
      /\ k \in Keys /\ u \in InFlight /\ Len(SettingKeys) \in Nat
  BY KeysOfIndex DEF SelectRow, SettingInv, SettingTypes, UpdateStates, InFlight
<1>2. CASE Taken(u)
  BY <1>2, FailKeepsInv DEF SelectRow
<1>3. CASE ~Taken(u)
  <2>1. PICK p : p = [j \in Keys |-> IF j = k /\ row[k] # m.body[k] THEN m.body[k] ELSE Unset]
    OBVIOUS
  <2>2. PICK new : new = IF row[k] = NoRow THEN {k} ELSE {}
    OBVIOUS
  <2>3. PICK f : f = [m EXCEPT !.pc = "assign", !.at = @ + 1, !.flushed = Flushed(m),
                               !.insert = new, !.pending = p]
    OBVIOUS
  <2>4. p \in [Keys -> Given] /\ new \subseteq Keys /\ Flushed(m) \in [Keys -> Given]
    BY <1>1, <2>1, <2>2, FlushedTyped DEF UpdateStates, Given
  <2>5. /\ f \in UpdateStates /\ f.pc = "assign" /\ f.at = m.at + 1 /\ f.body = m.body
        /\ f.pending = p /\ f.flushed = Flushed(m)
    <3>1. PICK written : written = Flushed(m)
      OBVIOUS
    <3>2. PICK next : next = m.at + 1
      OBVIOUS
    <3>3. next \in 1..(Len(SettingKeys) + 1)
      BY <1>1, <3>2
    <3>4. f = [m EXCEPT !.pc = "assign", !.at = next, !.flushed = written, !.insert = new,
                        !.pending = p]
      BY <2>3, <3>1, <3>2
    <3> HIDE DEF m
    <3> QED
      BY <1>1, <2>4, <3>1, <3>2, <3>3, <3>4 DEF UpdateStates
  <2>6. update' = [update EXCEPT ![u] = f] /\ UNCHANGED <<attribute, row, clean, restarts>>
    BY <1>3, <2>1, <2>2, <2>3 DEF SelectRow
  <2>7. \A j \in Keys : Flushed(f)[j] = IF p[j] # Unset THEN p[j] ELSE Flushed(m)[j]
    BY <2>5, FlushedTyped
  <2>8. ASSUME NEW i \in DOMAIN SettingKeys, KeyDone(m, i) PROVE KeyDone(f, i)'
    <3>1. i \in 1..Len(SettingKeys) /\ SettingKeys[i] \in Keys
      BY KeysOfIndex
    <3>2. SettingKeys[i] = k <=> i = m.at
      BY <1>1, <3>1, KeysOfIndex, SettingAssumption
    <3>3. m.at \in Int /\ i \in Int /\ (i < f.at <=> i < m.at \/ i = m.at)
      BY <1>1, <2>5, <3>1
    <3>4. CASE i = m.at
      <4>1. Flushed(m)[k] = Unset /\ m.body[k] # Empty
        BY <2>8, <3>3, <3>4 DEF KeyDone
      <4>2. Flushed(f)[k] = IF row[k] # m.body[k] THEN m.body[k] ELSE Unset
        BY <1>1, <2>1, <2>7, <4>1
      <4>3. attribute[k] = IF m.body[k] # Unset THEN m.body[k] ELSE Applied(row, k)
        BY <1>1, <2>8, <3>4 DEF KeyDone
      <4> QED
        BY <2>5, <2>6, <3>2, <3>3, <3>4, <4>1, <4>2, <4>3 DEF KeyDone
    <3>5. CASE i # m.at
      <4>1. Flushed(f)[SettingKeys[i]] = Flushed(m)[SettingKeys[i]]
        BY <2>1, <2>7, <3>1, <3>2, <3>5
      <4> QED
        BY <2>5, <2>6, <2>8, <3>3, <3>5, <4>1 DEF KeyDone
    <3> QED
      BY <3>4, <3>5
  <2>9. attribute' \in [Keys -> Stored \cup {Default}]
    BY <2>6 DEF SettingInv, SettingTypes
  <2> QED
    BY <1>1, <2>5, <2>6, <2>8, <2>9, OneUpdate
<1> QED
  BY <1>2, <1>3

LEMMA CommitKeepsInv ==
  ASSUME SettingInv, NEW u \in Updates, CommitUpdate(u)
  PROVE  SettingInv'
<1> DEFINE m == update[u]
<1>1. /\ m \in UpdateStates /\ m.pc = "assign" /\ m.at > Len(SettingKeys) /\ m.at \in Int
      /\ u \in InFlight /\ Len(SettingKeys) \in Nat
  BY KeysOfIndex DEF CommitUpdate, SettingInv, SettingTypes, UpdateStates, InFlight
<1>2. CASE Taken(u)
  BY <1>2, FailKeepsInv DEF CommitUpdate
<1>3. CASE ~Taken(u)
  <2>1. PICK f : f = [NoUpdate EXCEPT !.pc = "done"]
    OBVIOUS
  <2>2. f \in UpdateStates /\ f.pc = "done"
    BY <2>1, NoUpdateTyped DEF UpdateStates
  <2>3. /\ update' = [update EXCEPT ![u] = f]
        /\ row' = [k \in Keys |-> IF Flushed(m)[k] # Unset THEN Flushed(m)[k] ELSE row[k]]
        /\ UNCHANGED <<attribute, clean, restarts>>
    BY <1>3, <2>1 DEF CommitUpdate
  <2>4. row' \in [Keys -> Stored \cup {NoRow}]
    BY <1>1, <2>3, FlushedTyped DEF SettingInv, SettingTypes, Given
  <2>5. SettingTypes'
    BY <2>2, <2>3, <2>4 DEF SettingInv, SettingTypes
  <2>6. update'[u] = f /\ \A v \in Updates \ {u} : update'[v] = update[v]
    BY <2>3 DEF SettingInv, SettingTypes
  <2>7. ASSUME clean PROVE InFlight' = {} /\ attribute = AfterStart(row')
    <3>1. \A v \in InFlight : v = u
      BY <1>1, <2>7 DEF SettingInv
    <3>2. InFlight' = {}
      BY <2>2, <2>6, <3>1 DEF InFlight
    <3>3. ASSUME NEW k \in Keys PROVE attribute[k] = Applied(row', k)
      <4>1. PICK i \in 1..Len(SettingKeys) : k = SettingKeys[i]
        BY KeysOfIndex
      <4>2. KeyDone(m, i) /\ i < m.at
        BY <1>1, <2>7, <4>1, KeysOfIndex DEF SettingInv
      <4>3. row'[k] = IF Flushed(m)[k] # Unset THEN Flushed(m)[k] ELSE row[k]
        BY <2>3
      <4>4. m.body[k] \in Given
        BY <1>1 DEF UpdateStates
      <4>5. CASE m.body[k] = Unset
        BY <4>1, <4>2, <4>3, <4>5 DEF KeyDone, Applied
      <4>6. CASE m.body[k] # Unset
        <5>1. row'[k] = m.body[k] /\ attribute[k] = m.body[k]
          BY <4>1, <4>2, <4>3, <4>6 DEF KeyDone
        <5>2. m.body[k] \notin {NoRow, Empty}
          BY <4>1, <4>2, <4>4, <4>6, SettingAssumption
             DEF KeyDone, Given, Stored, NoRow, Unset, Empty
        <5> QED
          BY <5>1, <5>2 DEF Applied
      <4> QED
        BY <4>5, <4>6
    <3> QED
      BY <3>2, <3>3 DEF SettingInv, SettingTypes, AfterStart
  <2>8. clean' => InFlight' = {} /\ attribute' = AfterStart(row')
    BY <2>3, <2>7
  <2> QED
    BY <2>5, <2>8 DEF SettingInv, AfterStart
<1> QED
  BY <1>2, <1>3

LEMMA RestartKeepsInv ==
  ASSUME SettingInv, NEW reachable \in BOOLEAN, RestartProcess(reachable)
  PROVE  SettingInv'
<1>1. clean' \in BOOLEAN /\ (clean' => reachable)
  BY Zenon DEF RestartProcess
<1>2. /\ restarts' \in 0..MaxRestarts /\ row' = row
      /\ attribute' = StartValues(row, reachable)
      /\ update' = [u \in Updates |-> IF u \in InFlight THEN NoUpdate ELSE update[u]]
  BY SettingAssumption DEF RestartProcess, SettingInv, SettingTypes
<1>3. update' \in [Updates -> UpdateStates] /\ InFlight' = {}
  BY <1>2, NoUpdateTyped DEF SettingInv, SettingTypes, InFlight, NoUpdate
<1>4. \A rows \in [Keys -> Stored \cup {NoRow}] : AfterStart(rows) \in [Keys -> Stored \cup {Default}]
  BY DEF AfterStart, Applied
<1>5. attribute' \in [Keys -> Stored \cup {Default}]
  BY <1>2, <1>4 DEF StartValues, SettingInv, SettingTypes
<1>6. reachable => attribute' = AfterStart(row')
  BY <1>2 DEF StartValues
<1>7. \A u \in Updates : update'[u].pc # "select"
  BY <1>3 DEF InFlight
<1>8. SettingTypes'
  BY <1>1, <1>2, <1>3, <1>5, <1>7 DEF SettingInv, SettingTypes
<1> QED
  BY <1>1, <1>3, <1>6, <1>8 DEF SettingInv

LEMMA SettingInvHolds == SettingSpec => []SettingInv
<1>1. SettingInit => SettingInv
  <2> SUFFICES ASSUME SettingInit PROVE SettingInv
    OBVIOUS
  <2>1. clean \in BOOLEAN
    BY Zenon DEF SettingInit
  <2>2. InFlight = {} /\ \A u \in Updates : update[u].pc = "idle"
    BY DEF SettingInit, InFlight, NoUpdate
  <2>3. attribute = AfterStart(row)
    BY DEF SettingInit, AfterStart, Applied
  <2>4. SettingTypes
    BY <2>1, <2>2, NoUpdateTyped, SettingAssumption DEF SettingInit, SettingTypes
  <2> QED
    BY <2>2, <2>3, <2>4 DEF SettingInv
<1>2. SettingInv /\ [SettingNext]_settingVars => SettingInv'
  <2> SUFFICES ASSUME SettingInv, [SettingNext]_settingVars PROVE SettingInv'
    OBVIOUS
  <2>1. CASE UNCHANGED settingVars
    BY <2>1 DEF settingVars, SettingInv, SettingTypes, InFlight, AfterStart, Applied, KeyDone
  <2>2. ASSUME NEW u \in Updates, NEW body \in [Keys -> Stored \cup {Unset}],
               RequestUpdate(u, body)
        PROVE  SettingInv'
    BY <2>2, RequestKeepsInv DEF Given
  <2>3. ASSUME NEW u \in Updates, AssignField(u) \/ SelectRow(u) \/ CommitUpdate(u)
        PROVE  SettingInv'
    BY <2>3, AssignKeepsInv, SelectKeepsInv, CommitKeepsInv
  <2>4. ASSUME NEW u \in Updates, LoseUpdate(u) PROVE SettingInv'
    BY <2>4, FailKeepsInv DEF LoseUpdate
  <2> QED
    BY <2>1, <2>2, <2>3, <2>4, RestartKeepsInv DEF SettingNext
<1> QED
  BY <1>1, <1>2, PTL DEF SettingSpec

\* The types of the settings (api/v1/llm_settings.py, services/settings_store.py).
THEOREM SettingTypeInvariant == SettingSpec => []SettingTypeOK
<1>1. SettingInv => SettingTypeOK
  BY DEF SettingInv, SettingTypes, SettingTypeOK, UpdateStates
<1> QED
  BY <1>1, SettingInvHolds, PTL

\* Settings survive a restart as long as the updates before it neither
\* overlapped nor failed nor cleared a key, for any number of keys and requests
\* (the docstring of update_llm_settings, api/v1/llm_settings.py).
THEOREM SettingsSurvive == SettingSpec => []SettingsSurviveRestart
<1>1. SettingInv => SettingsSurviveRestart
  BY DEF SettingInv, SettingsSurviveRestart
<1> QED
  BY <1>1, SettingInvHolds, PTL

-----------------------------------------------------------------------------
(* Migrations.                                                            *)

\* What the first revision creates, as one list.
InitialCreates ==
  << T("users", {}),
     T("db_instances", {}),
     T("metric_samples", {"db_instances"}),
     T("active_sessions", {"db_instances"}),
     T("incidents", {"db_instances", "users"}),
     T("baselines", {"db_instances"}),
     T("schema_changes", {"db_instances"}),
     T("audit_logs", {"users"}),
     T("nl2sql_histories", {"users", "db_instances"}),
     T("rag_documents", {"incidents"}),
     T("alert_channels", {"users"}),
     T("alert_policies", {}),
     T("alert_history", {"incidents", "alert_channels", "alert_policies"}) >>

LEMMA InitialIsList == InitialTables = InitialCreates
<1>1. /\ InitialTables \in Seq({InitialTables[i] : i \in 1..13}) /\ Len(InitialTables) = 13
      /\ InitialCreates \in Seq({InitialCreates[i] : i \in 1..13}) /\ Len(InitialCreates) = 13
  BY DEF InitialTables, AccountsAndInstances, CollectedData, IncidentsAndBaselines, ChangesAndAudit,
         QuestionsAndDocuments, AlertTables, InitialCreates
<1>2. \A i \in 1..13 : InitialTables[i] = InitialCreates[i]
  BY DEF InitialTables, AccountsAndInstances, CollectedData, IncidentsAndBaselines, ChangesAndAudit,
         QuestionsAndDocuments, AlertTables, InitialCreates
<1> QED
  BY <1>1, <1>2

LEMMA ListNames ==
  /\ \A i, j \in 1..13 : InitialCreates[i].table = InitialCreates[j].table => i = j
  /\ \A i \in 1..13 : \A t \in InitialCreates[i].references :
       \E j \in 1..(i-1) : InitialCreates[j].table = t
BY DEF InitialCreates, T

\* What each list of a migration must be for its statements to succeed one
\* after the other: names that differ, tables that are referenced created
\* before and dropped after those that reference them.
SoundUpgrade(ups) ==
  \A i, j \in DOMAIN ups : ups[i].table = ups[j].table => i = j
SoundDowngrade(ups, downs) ==
  /\ \A i, j \in DOMAIN downs : downs[i] = downs[j] => i = j
  /\ {downs[i] : i \in DOMAIN downs} = {ups[i].table : i \in DOMAIN ups}
  /\ \A k \in DOMAIN ups, i \in DOMAIN downs :
       downs[i] \in ups[k].references => \E j \in DOMAIN downs : j < i /\ downs[j] = ups[k].table

LEMMA InitialSound == SoundUpgrade(InitialCreates) /\ SoundDowngrade(InitialCreates, InitialDrops)
<1>1. DOMAIN InitialCreates = 1..13 /\ DOMAIN InitialDrops = 1..13
  BY DEF InitialCreates, InitialDrops
<1>2. SoundUpgrade(InitialCreates)
  BY <1>1, ListNames DEF SoundUpgrade
<1>3. \A i, j \in 1..13 : InitialDrops[i] = InitialDrops[j] => i = j
  BY DEF InitialDrops
<1>4. {InitialDrops[i] : i \in 1..13} = {InitialCreates[i].table : i \in 1..13}
  BY DEF InitialDrops, InitialCreates, T
<1>5. \A k, i \in 1..13 :
       InitialDrops[i] \in InitialCreates[k].references =>
         \E j \in 1..13 : j < i /\ InitialDrops[j] = InitialCreates[k].table
  BY DEF InitialDrops, InitialCreates, T
<1> QED
  BY <1>1, <1>2, <1>3, <1>4, <1>5 DEF SoundDowngrade

LEMMA GraphSound == SoundUpgrade(GraphTables) /\ SoundDowngrade(GraphTables, Downgrade[2])
BY DEF SoundUpgrade, SoundDowngrade, GraphTables, T, Downgrade, GraphDrops
LEMMA ActionSound == SoundUpgrade(ActionTables) /\ SoundDowngrade(ActionTables, Downgrade[3])
BY DEF SoundUpgrade, SoundDowngrade, ActionTables, T, Downgrade, ActionDrops
LEMMA Phase2Sound == SoundUpgrade(Phase2Tables) /\ SoundDowngrade(Phase2Tables, Downgrade[4])
BY DEF SoundUpgrade, SoundDowngrade, Phase2Tables, T, Downgrade, Phase2Drops
LEMMA SettingSound == SoundUpgrade(SettingTables) /\ SoundDowngrade(SettingTables, Downgrade[5])
BY DEF SoundUpgrade, SoundDowngrade, SettingTables, T, Downgrade, SettingDrops
LEMMA ReportSound == SoundUpgrade(ReportTables) /\ SoundDowngrade(ReportTables, Downgrade[6])
BY DEF SoundUpgrade, SoundDowngrade, ReportTables, T, Downgrade, ReportDrops

\* The names of the tables a revision creates.
NamesOf(v) == {c.table : c \in CreatesOf(v)}

\* The lists, one by one: the backends expand the whole sequence only here.
LEMMA RevisionLists ==
  /\ Upgrade[1] = InitialCreates /\ Upgrade[2] = GraphTables /\ Upgrade[3] = ActionTables
  /\ Upgrade[4] = Phase2Tables /\ Upgrade[5] = SettingTables /\ Upgrade[6] = ReportTables
  /\ Downgrade[1] = InitialDrops
  /\ HeadRevision = 6
BY InitialIsList DEF Upgrade, Downgrade, HeadRevision

LEMMA SixRevisions == \A r \in 1..HeadRevision : r \in {1, 2, 3, 4, 5, 6}
BY RevisionLists

LEMMA ListLengths ==
  ASSUME NEW r \in 1..HeadRevision
  PROVE  /\ Len(Upgrade[r]) \in Nat /\ DOMAIN Upgrade[r] = 1..Len(Upgrade[r])
         /\ Len(Downgrade[r]) \in Nat /\ DOMAIN Downgrade[r] = 1..Len(Downgrade[r])
<1>1. CASE r = 1
  BY <1>1, RevisionLists DEF InitialCreates, InitialDrops
<1>2. CASE r \in {2, 3, 4, 5, 6}
  BY <1>2, RevisionLists
     DEF GraphTables, ActionTables, Phase2Tables, SettingTables, ReportTables, Downgrade,
         GraphDrops, ActionDrops, Phase2Drops, SettingDrops, ReportDrops
<1> QED
  BY <1>1, <1>2, SixRevisions

\* A revision adds its own tables to those of the one before it.
LEMMA TablesGrow ==
  /\ TablesAt(0) = {}
  /\ \A r \in 1..HeadRevision : TablesAt(r) = TablesAt(r - 1) \cup NamesOf(r)
<1>1. TablesAt(0) = {}
  BY DEF TablesAt
<1>2. ASSUME NEW r \in 1..HeadRevision PROVE TablesAt(r) = TablesAt(r - 1) \cup NamesOf(r)
  <2>1. 1..r = 1..(r - 1) \cup {r} /\ r \in Int
    BY RevisionLists
  <2> QED
    BY <2>1 DEF TablesAt, NamesOf
<1> QED
  BY <1>1, <1>2

\* Every revision of the repository is sound in that sense.
LEMMA NamesSound ==
  ASSUME NEW r \in 1..HeadRevision
  PROVE  /\ SoundUpgrade(Upgrade[r]) /\ SoundDowngrade(Upgrade[r], Downgrade[r])
         /\ NamesOf(r) = {Upgrade[r][i].table : i \in DOMAIN Upgrade[r]}
<1>1. SoundUpgrade(Upgrade[r]) /\ SoundDowngrade(Upgrade[r], Downgrade[r])
  BY SixRevisions, RevisionLists, InitialSound, GraphSound, ActionSound, Phase2Sound,
     SettingSound, ReportSound
<1> QED
  BY <1>1 DEF NamesOf, CreatesOf

\* The names of the tables, read off the downgrades.
LEMMA InitialNames == NamesOf(1) =
   {"users", "db_instances", "metric_samples", "active_sessions", "incidents", "baselines",
       "schema_changes", "audit_logs", "nl2sql_histories", "rag_documents", "alert_channels",
       "alert_policies", "alert_history"}
<1>1. 1 \in 1..HeadRevision
  BY RevisionLists
<1>2. NamesOf(1) = {Downgrade[1][i] : i \in DOMAIN Downgrade[1]}
  BY <1>1, NamesSound DEF SoundDowngrade
<1>3. NamesOf(1) = {InitialDrops[i] : i \in 1..13}
  BY <1>2, RevisionLists DEF InitialDrops
<1> QED
  BY <1>3 DEF InitialDrops

LEMMA LaterNames ==
  /\ NamesOf(2) = {"graph_nodes", "graph_edges"}
  /\ NamesOf(3) = {"agent_actions"}
  /\ NamesOf(4) = {"playbooks", "remediation_logs", "mtl_predictions", "copilot_sessions"}
  /\ NamesOf(5) = {"system_settings"}
  /\ NamesOf(6) = {"dba_reports"}
<1>1. 1 \in 1..HeadRevision /\ \A r \in {2,3,4,5,6} : r \in 1..HeadRevision
  BY RevisionLists
<1>2. \A r \in {2,3,4,5,6} : NamesOf(r) = {Downgrade[r][i] : i \in DOMAIN Downgrade[r]}
  BY <1>1, NamesSound DEF SoundDowngrade
<1>3. /\ Downgrade[2] = << "graph_edges", "graph_nodes" >>
   /\ Downgrade[3] = << "agent_actions" >>
   /\ Downgrade[4] = << "copilot_sessions", "mtl_predictions", "remediation_logs", "playbooks" >>
   /\ Downgrade[5] =  << "system_settings" >> /\ Downgrade[6] = << "dba_reports" >>
  BY DEF Downgrade, GraphDrops, ActionDrops, Phase2Drops, SettingDrops, ReportDrops
<1> QED
  BY <1>2, <1>3

\* No revision creates a table an earlier one has created.
LEMMA NamesNew ==
  ASSUME NEW r \in 1..HeadRevision
  PROVE  NamesOf(r) \cap TablesAt(r - 1) = {}
<1>1. /\ TablesAt(1) = NamesOf(1) /\ TablesAt(2) = TablesAt(1) \cup NamesOf(2)
      /\ TablesAt(3) = TablesAt(2) \cup NamesOf(3) /\ TablesAt(4) = TablesAt(3) \cup NamesOf(4)
      /\ TablesAt(5) = TablesAt(4) \cup NamesOf(5) 
  BY TablesGrow, RevisionLists
<1> QED
  BY <1>1, TablesGrow, SixRevisions, InitialNames, LaterNames

\* What a table refers to is created before it.
LEMMA ReferencesThere ==
  ASSUME NEW r \in 1..HeadRevision, NEW i \in DOMAIN Upgrade[r], NEW t \in Upgrade[r][i].references
  PROVE  t \in TablesAt(r - 1) \/ \E j \in 1..(i - 1) : Upgrade[r][j].table = t
<1>1. CASE r = 1
  <2>1. i \in 1..13
    BY <1>1, RevisionLists DEF InitialCreates
  <2> QED
    BY <1>1, <2>1, RevisionLists, ListNames
<1>2. CASE r \in {2, 3, 4, 5, 6}
  <2>1. /\ {"users", "db_instances", "incidents"} \subseteq TablesAt(1)
        /\ TablesAt(1) \subseteq TablesAt(r - 1)
    BY <1>2, TablesGrow, RevisionLists, InitialNames
  <2>2. \/ t \in {"users", "db_instances", "incidents"}
        \/ \E j \in 1..(i - 1) : Upgrade[r][j].table = t
    BY <1>2, RevisionLists
       DEF GraphTables, ActionTables, Phase2Tables, SettingTables, ReportTables, T
  <2> QED
    BY <2>1, <2>2
<1> QED
  BY <1>1, <1>2, SixRevisions

\* The state a run has made of the database after n statements of a revision.
AfterCreates(r, n) == TablesAt(r - 1) \cup {Upgrade[r][j].table : j \in 1..n}
AfterDrops(r, n) == TablesAt(r) \ {Downgrade[r][j] : j \in 1..n}

LEMMA TablesGather == \A v \in Nat : \A q \in 1..v : NamesOf(q) \subseteq TablesAt(v)
BY DEF NamesOf, TablesAt

\* A name says which statement created the table, hence what it refers to.
LEMMA ReferencesOfTable ==
  ASSUME NEW r \in 1..HeadRevision, NEW c \in CreatesOf(r)
  PROVE  References(c.table) = c.references /\ c.references \subseteq TablesAt(r)
<1>1. c \in AllCreates
  BY DEF AllCreates
<1>2. ASSUME NEW q \in 1..HeadRevision, NEW d \in CreatesOf(q), d.table = c.table
      PROVE  d = c
  <2>1. \A u, v \in 1..HeadRevision : u < v => NamesOf(u) \cap NamesOf(v) = {}
    <3> SUFFICES ASSUME NEW u \in 1..HeadRevision, NEW v \in 1..HeadRevision, u < v
                 PROVE  NamesOf(u) \cap NamesOf(v) = {}
      OBVIOUS
    <3>1. v - 1 \in Nat /\ u \in 1..(v - 1)
      BY RevisionLists
    <3> QED
      BY <3>1, TablesGather, NamesNew
  <2>2. c.table \in NamesOf(r) /\ d.table \in NamesOf(q)
    BY DEF NamesOf
  <2>3. ~(q < r) /\ ~(r < q)
    BY <1>2, <2>1, <2>2
  <2>4. q = r
    BY <2>3, RevisionLists
  <2>5. PICK i \in DOMAIN Upgrade[r] : c = Upgrade[r][i]
    BY DEF CreatesOf
  <2>6. PICK j \in DOMAIN Upgrade[r] : d = Upgrade[r][j]
    BY <2>4 DEF CreatesOf
  <2> QED
    BY <1>2, <2>5, <2>6, NamesSound DEF SoundUpgrade
<1>3. \A d \in AllCreates : d.table = c.table => d = c
  BY <1>2 DEF AllCreates
<1>4. c.references \subseteq TablesAt(r)
  <2>1. PICK i \in DOMAIN Upgrade[r] : c = Upgrade[r][i]
    BY DEF CreatesOf
  <2> SUFFICES ASSUME NEW t \in c.references PROVE t \in TablesAt(r)
    OBVIOUS
  <2>2. t \in TablesAt(r - 1) \/ \E j \in 1..(i - 1) : Upgrade[r][j].table = t
    BY <2>1, ReferencesThere
  <2>3. \A j \in 1..(i - 1) : j \in DOMAIN Upgrade[r]
    BY ListLengths
  <2> QED
    BY <2>2, <2>3, NamesSound, TablesGrow
<1> QED
  BY <1>1, <1>3, <1>4 DEF References

\* A CREATE TABLE whose revision has come that far succeeds.
LEMMA CreateSucceeds ==
  ASSUME NEW r \in 1..HeadRevision, NEW i \in DOMAIN Upgrade[r]
  PROVE  /\ Upgrade[r][i].table \notin AfterCreates(r, i - 1)
         /\ Upgrade[r][i].references \subseteq AfterCreates(r, i - 1)
         /\ AfterCreates(r, i) = AfterCreates(r, i - 1) \cup {Upgrade[r][i].table}
<1>1. i \in Nat /\ 1..i = 1..(i - 1) \cup {i} /\ i \notin 1..(i - 1) /\ 1..i \subseteq DOMAIN Upgrade[r]
  BY ListLengths
<1>2. Upgrade[r][i].table \notin TablesAt(r - 1)
  BY NamesSound, NamesNew
<1>3. \A j \in 1..(i - 1) : Upgrade[r][j].table # Upgrade[r][i].table
  BY <1>1, NamesSound DEF SoundUpgrade
<1>4. Upgrade[r][i].references \subseteq AfterCreates(r, i - 1)
  BY ReferencesThere DEF AfterCreates
<1> QED
  BY <1>1, <1>2, <1>3, <1>4 DEF AfterCreates

\* And so does a DROP TABLE.
LEMMA DropSucceeds ==
  ASSUME NEW r \in 1..HeadRevision, NEW i \in DOMAIN Downgrade[r]
  PROVE  /\ Downgrade[r][i] \in AfterDrops(r, i - 1)
         /\ \A t \in AfterDrops(r, i - 1) \ {Downgrade[r][i]} : Downgrade[r][i] \notin References(t)
         /\ AfterDrops(r, i) = AfterDrops(r, i - 1) \ {Downgrade[r][i]}
<1>1. i \in Nat /\ 1..i = 1..(i - 1) \cup {i} /\ i \notin 1..(i - 1) /\ 1..i \subseteq DOMAIN Downgrade[r]
  BY ListLengths
<1>2. Downgrade[r][i] \in NamesOf(r) /\ NamesOf(r) \subseteq TablesAt(r)
  <2>1. NamesOf(r) = {Downgrade[r][j] : j \in DOMAIN Downgrade[r]}
    BY NamesSound DEF SoundDowngrade
  <2> QED
    BY <2>1, TablesGrow
<1>3. \A j \in 1..(i - 1) : Downgrade[r][j] # Downgrade[r][i]
  BY <1>1, NamesSound DEF SoundDowngrade
<1>4. ASSUME NEW t \in AfterDrops(r, i - 1), Downgrade[r][i] \in References(t)
      PROVE  FALSE
  <2>1. PICK q \in 1..r : \E c \in CreatesOf(q) : t = c.table
    BY <1>4 DEF AfterDrops, TablesAt
  <2> PICK c \in CreatesOf(q) : t = c.table
    BY <2>1
  <2>2. q \in 1..HeadRevision /\ r \in Int /\ q \in Int
    BY RevisionLists
  <2>3. Downgrade[r][i] \in c.references /\ c.references \subseteq TablesAt(q)
    BY <1>4, <2>1, <2>2, ReferencesOfTable
  <2>4. q = r
    <3>1. CASE q < r
      <4>1. 1..q \subseteq 1..(r - 1)
        BY <2>2, <3>1
      <4>2. TablesAt(q) \subseteq TablesAt(r - 1)
        BY <4>1 DEF TablesAt
      <4> QED
        BY <1>2, <2>3, <4>2, NamesNew
    <3> QED
      BY <2>2, <3>1
  <2>5. PICK k \in DOMAIN Upgrade[r] : c = Upgrade[r][k]
    BY <2>4 DEF CreatesOf
  <2>6. PICK j \in DOMAIN Downgrade[r] : j < i /\ Downgrade[r][j] = t
    <3>1. SoundDowngrade(Upgrade[r], Downgrade[r])
      BY NamesSound
    <3>2. Downgrade[r][i] \in Upgrade[r][k].references /\ Upgrade[r][k].table = t
      BY <2>3, <2>5
    <3>3. \E j \in DOMAIN Downgrade[r] : j < i /\ Downgrade[r][j] = Upgrade[r][k].table
      BY <3>1, <3>2 DEF SoundDowngrade
    <3> QED
      BY <3>2, <3>3
  <2>7. j \in 1..(i - 1)
    BY <1>1, <2>6, ListLengths
  <2> QED
    BY <1>4, <2>6, <2>7 DEF AfterDrops
<1> QED
  BY <1>1, <1>2, <1>3, <1>4 DEF AfterDrops

\* All statements of a revision lead from one set of tables to the other.
LEMMA RevisionsMeet ==
  ASSUME NEW r \in 1..HeadRevision
  PROVE  /\ AfterCreates(r, 0) = TablesAt(r - 1) /\ AfterCreates(r, Len(Upgrade[r])) = TablesAt(r)
         /\ AfterDrops(r, 0) = TablesAt(r) /\ AfterDrops(r, Len(Downgrade[r])) = TablesAt(r - 1)
<1>1. 1..0 = {}
  OBVIOUS
<1>2. NamesOf(r) = {Upgrade[r][j].table : j \in 1..Len(Upgrade[r])}
  BY NamesSound, ListLengths
<1>3. NamesOf(r) = {Downgrade[r][j] : j \in 1..Len(Downgrade[r])}
  BY NamesSound, ListLengths DEF SoundDowngrade
<1> QED
  BY <1>1, <1>2, <1>3, TablesGrow, NamesNew DEF AfterCreates, AfterDrops

\* The types.
MigrationRuns ==
  [state : {"idle", "running", "done", "refused", "lost"}, target : 0..HeadRevision,
   version : 0..HeadRevision, step : Nat, created : SUBSET Tables, dropped : SUBSET Tables,
   stamped : BOOLEAN, alone : BOOLEAN]

MigrationTypes ==
  /\ schema \in [version : 0..HeadRevision, tables : SUBSET Tables]
  /\ migrations \in 0..MaxMigrations
  /\ migration \in [Runners -> MigrationRuns]

\* The tables a run must have made of the database by now, if it commits
\* there and then.
Progress(m) ==
  IF m.version = m.target THEN TablesAt(m.version)
  ELSE IF Up(m) THEN AfterCreates(Revision(m), m.step - 1) ELSE AfterDrops(Revision(m), m.step - 1)

\* What a run sees of the database is exactly what its statements so far make
\* of the version it set out from; while it is alone, that is the version stored.
OnItsWay(m) ==
  /\ m.step \in Nat \ {0}
  /\ m.version # m.target => m.step <= Len(Statements(m)) + 1
  /\ (TablesAt(Base(m)) \cup m.created) \ m.dropped = Progress(m)
  /\ m.alone => Base(m) = schema.version

MigrationInv ==
  /\ MigrationTypes /\ SchemaFitsVersion /\ AloneNeverRefused
  /\ \A r \in Running : OnItsWay(migration[r])
  /\ \A q, r \in Running : migration[q].stamped /\ migration[r].stamped => q = r
  /\ \A r \in Running : migration[r].alone => Running = {r}

\* The revision a run is at work on, and the list of its statements.
LEMMA RevisionAtWork ==
  ASSUME NEW m \in MigrationRuns, m.version # m.target
  PROVE  /\ Revision(m) \in 1..HeadRevision
         /\ Up(m) => Revision(m) = m.version + 1 /\ Statements(m) = Upgrade[Revision(m)]
         /\ ~Up(m) => Revision(m) = m.version /\ Statements(m) = Downgrade[Revision(m)]
         /\ Len(Statements(m)) \in Nat /\ DOMAIN Statements(m) = 1..Len(Statements(m))
<1>1. m.version \in 0..6 /\ m.target \in 0..6
  BY RevisionLists DEF MigrationRuns
<1>2. /\ Revision(m) \in 1..HeadRevision
      /\ Up(m) => Revision(m) = m.version + 1 /\ Statements(m) = Upgrade[Revision(m)]
      /\ ~Up(m) => Revision(m) = m.version /\ Statements(m) = Downgrade[Revision(m)]
  BY <1>1, RevisionLists DEF Up, Revision, Statements
<1> QED
  BY <1>2, ListLengths

\* What a run sees of the database is what it has made of it, if nobody else
\* can have changed it.
LEMMA SeesProgress ==
  ASSUME MigrationInv, NEW r \in Running, migration[r].stamped \/ migration[r].alone
  PROVE  Visible(migration[r]) = Progress(migration[r])
<1>1. Base(migration[r]) = schema.version
  BY DEF MigrationInv, OnItsWay, Base
<1> QED
  BY <1>1 DEF MigrationInv, OnItsWay, SchemaFitsVersion, Visible

\* A step of a run that goes on.
LEMMA RunGoesOn ==
  ASSUME MigrationInv, NEW r \in Running, NEW f \in MigrationRuns, f.state = "running",
         f.alone => migration[r].alone,
         migration' = [migration EXCEPT ![r] = f], UNCHANGED <<schema, migrations>>,
         f.stamped => \A q \in Others(r) : ~migration[q].stamped,
         OnItsWay(f)
  PROVE  MigrationInv'
<1>1. /\ r \in Runners /\ migration' \in [Runners -> MigrationRuns] /\ migration'[r] = f
      /\ \A q \in Runners \ {r} : migration'[q] = migration[q]
  BY DEF MigrationInv, MigrationTypes, Running
<1>2. Running' = Running
  BY <1>1 DEF Running
<1>3. MigrationTypes' /\ SchemaFitsVersion'
  BY <1>1 DEF MigrationInv, MigrationTypes, SchemaFitsVersion
<1>4. AloneNeverRefused'
  BY <1>1 DEF MigrationInv, AloneNeverRefused
<1>5. (\A q \in Running : OnItsWay(migration[q]))'
  BY <1>1, <1>2 DEF MigrationInv, OnItsWay, Base, Running
<1>6. (\A p, q \in Running : migration[p].stamped /\ migration[q].stamped => p = q)'
  BY <1>1, <1>2 DEF MigrationInv, Others, Running
<1>7. (\A q \in Running : migration[q].alone => Running = {q})'
  BY <1>1, <1>2 DEF MigrationInv, Running
<1> QED
  BY <1>3, <1>4, <1>5, <1>6, <1>7 DEF MigrationInv

\* A run that ends.
LEMMA RunEnds ==
  ASSUME MigrationInv, NEW r \in Running, NEW end \in {"done", "refused", "lost"},
         end = "refused" => ~migration[r].alone,
         migration' = [migration EXCEPT ![r].state = end], UNCHANGED migrations,
         schema' = schema \/ \A q \in Others(r) : ~migration[q].stamped,
         schema' \in [version : 0..HeadRevision, tables : SUBSET Tables],
         SchemaFitsVersion'
  PROVE  MigrationInv'
<1>1. PICK f : f = [migration[r] EXCEPT !.state = end]
  OBVIOUS
<1>2. r \in Runners /\ migration \in [Runners -> MigrationRuns]
  BY DEF MigrationInv, MigrationTypes, Running
<1>3. f \in MigrationRuns /\ f.state = end
  BY <1>1, <1>2 DEF MigrationRuns
<1>4. f.alone = migration[r].alone
  BY <1>1, <1>2 DEF MigrationRuns
<1>5. /\ migration' \in [Runners -> MigrationRuns] /\ migration'[r] = f
      /\ \A q \in Runners \ {r} : migration'[q] = migration[q]
  BY <1>1, <1>2, <1>3
<1>6. Running' = Running \ {r}
  BY <1>3, <1>5 DEF Running
<1>7. MigrationTypes'
  BY <1>5 DEF MigrationInv, MigrationTypes
<1>8. AloneNeverRefused'
  BY <1>3, <1>4, <1>5 DEF MigrationInv, AloneNeverRefused
<1>9. \A q \in Running' : /\ q \in Running /\ q # r /\ q \in Runners /\ migration'[q] = migration[q]
                          /\ ~migration[q].alone /\ q \in Others(r)
  BY <1>5, <1>6 DEF MigrationInv, Running, Others
<1>10. ASSUME NEW q \in Running' PROVE OnItsWay(migration[q])'
  <2>1. OnItsWay(migration[q]) /\ ~migration[q].alone
    BY <1>9, <1>10 DEF MigrationInv
  <2>2. migration[q].stamped => schema' = schema
    BY <1>9
  <2> QED
    BY <1>9, <2>1, <2>2 DEF OnItsWay, Base
<1>11. (\A p, q \in Running : migration[p].stamped /\ migration[q].stamped => p = q)'
  BY <1>9 DEF MigrationInv
<1>12. (\A q \in Running : migration[q].alone => Running = {q})'
  BY <1>9
<1> QED
  BY <1>7, <1>8, <1>10, <1>11, <1>12 DEF MigrationInv

\* A run that starts reads the stored version; those under way are no longer alone.
LEMMA StartsOnItsWay ==
  ASSUME MigrationInv, NEW r \in Runners, NEW target \in Targets, StartMigration(r, target)
  PROVE  MigrationInv'
<1>1. PICK lonely : lonely = (Others(r) = {}) /\ lonely \in BOOLEAN
  BY Zenon
<1>2. PICK f : f = [NoRun EXCEPT !.state = "running", !.target = target,
                                 !.version = schema.version, !.step = 1, !.alone = lonely]
  OBVIOUS
<1>3. schema \in [version : 0..HeadRevision, tables : SUBSET Tables] /\ target \in 0..HeadRevision
  BY MigrationAssumption DEF MigrationInv, MigrationTypes
<1>4. f \in MigrationRuns
  <2>1. NoRun \in MigrationRuns
    BY RevisionLists DEF NoRun, NoRevision, MigrationRuns
  <2> QED
    BY <1>1, <1>2, <1>3, <2>1 DEF MigrationRuns
<1>5. /\ f.state = "running" /\ f.target = target /\ f.version = schema.version /\ f.step = 1
      /\ f.created = {} /\ f.dropped = {} /\ ~f.stamped
  BY <1>2 DEF NoRun
<1>6. f.alone => Others(r) = {}
  BY <1>1, <1>2 DEF NoRun
<1>7. OnItsWay(f)
  <2>1. Base(f) = f.version
    BY <1>5 DEF Base
  <2>2. (TablesAt(Base(f)) \cup f.created) \ f.dropped = TablesAt(f.version)
    BY <1>5, <2>1
  <2>3. Progress(f) = TablesAt(f.version)
    <3>1. CASE f.version = f.target
      BY <3>1 DEF Progress
    <3>2. CASE f.version # f.target
      <4>1. Revision(f) \in 1..HeadRevision
        BY <1>4, <3>2, RevisionAtWork
      <4>2. f.step - 1 = 0
        BY <1>5
      <4>3. CASE Up(f)
        <5>1. Revision(f) - 1 = f.version
          BY <1>4, <3>2, <4>3, RevisionLists, RevisionAtWork DEF MigrationRuns
        <5> QED
          BY <3>2, <4>1, <4>2, <4>3, <5>1, RevisionsMeet DEF Progress
      <4>4. CASE ~Up(f)
        BY <1>4, <3>2, <4>1, <4>2, <4>4, RevisionAtWork, RevisionsMeet DEF Progress
      <4> QED
        BY <4>3, <4>4
    <3> QED
      BY <3>1, <3>2
  <2>4. f.version # f.target => f.step <= Len(Statements(f)) + 1
    BY <1>4, <1>5, RevisionAtWork
  <2> QED
    BY <1>5, <2>1, <2>2, <2>3, <2>4 DEF OnItsWay
<1>8. /\ migration'[r] = f /\ migration[r].state # "running" /\ UNCHANGED schema
      /\ migrations' \in 0..MaxMigrations
  <2>1. migration'[r] = f
    BY <1>1, <1>2, Zenon DEF StartMigration
  <2>2. migrations \in 0..MaxMigrations
    BY DEF MigrationInv, MigrationTypes
  <2>3. /\ migration[r].state # "running" /\ UNCHANGED schema
        /\ migrations < MaxMigrations /\ migrations' = migrations + 1
    BY DEF StartMigration
  <2> QED
    BY <2>1, <2>2, <2>3, MigrationAssumption
<1>9. ASSUME NEW q \in Runners \ {r}
      PROVE  /\ migration'[q] \in MigrationRuns
             /\ migration'[q].state = migration[q].state
             /\ migration'[q].stamped = migration[q].stamped
             /\ migration'[q].alone => migration[q].alone /\ migration[q].state # "running"
             /\ OnItsWay(migration[q]) => OnItsWay(migration'[q])
  <2>1. PICK solo : solo = (migration[q].alone /\ migration[q].state # "running") /\ solo \in BOOLEAN
    BY Zenon
  <2>2. PICK g : g = [migration[q] EXCEPT !.alone = solo]
    OBVIOUS
  <2>3. migration[q] \in MigrationRuns
    BY DEF MigrationInv, MigrationTypes
  <2>4. migration'[q] = g
    BY <2>1, <2>2 DEF StartMigration
  <2>5. g \in MigrationRuns
    BY <2>1, <2>2, <2>3 DEF MigrationRuns
  <2>6. /\ g.state = migration[q].state /\ g.target = migration[q].target
        /\ g.version = migration[q].version /\ g.step = migration[q].step
        /\ g.created = migration[q].created /\ g.dropped = migration[q].dropped
        /\ g.stamped = migration[q].stamped
    BY <2>2, <2>3 DEF MigrationRuns
  <2>7. g.alone => migration[q].alone /\ migration[q].state # "running"
    BY <2>1, <2>2, <2>3 DEF MigrationRuns
  <2>8. /\ Progress(g) = Progress(migration[q]) /\ Base(g) = Base(migration[q])
        /\ Statements(g) = Statements(migration[q])
    BY <2>6 DEF Progress, Base, Statements, Up, Revision
  <2> QED
    BY <2>4, <2>5, <2>6, <2>7, <2>8 DEF OnItsWay
<1>10. Running' = Running \cup {r} /\ r \notin Running
  BY <1>5, <1>8, <1>9 DEF Running
<1>11. MigrationTypes' /\ SchemaFitsVersion'
  <2>1. DOMAIN migration' = Runners /\ migration' = [q \in Runners |-> migration'[q]]
    BY DEF StartMigration
  <2> QED
    BY <1>4, <1>8, <1>9, <2>1 DEF MigrationInv, MigrationTypes, SchemaFitsVersion
<1>12. AloneNeverRefused'
  BY <1>5, <1>8, <1>9 DEF MigrationInv, AloneNeverRefused
<1>13. ASSUME NEW q \in Running' PROVE OnItsWay(migration[q])'
  <2>1. OnItsWay(migration'[q])
    BY <1>7, <1>8, <1>9, <1>10, <1>13 DEF MigrationInv, Running
  <2> QED
    BY <1>8, <2>1 DEF OnItsWay, Base
<1>14. (\A p, q \in Running : migration[p].stamped /\ migration[q].stamped => p = q)'
  BY <1>5, <1>8, <1>9, <1>10 DEF MigrationInv, Running
<1>15. (\A q \in Running : migration[q].alone => Running = {q})'
  <2>1. \A q \in Running' : migration'[q].alone => q = r /\ Running = {}
    BY <1>6, <1>8, <1>9, <1>10 DEF Running, Others
  <2> QED
    BY <1>10, <2>1
<1> QED
  BY <1>11, <1>12, <1>13, <1>14, <1>15 DEF MigrationInv

\* What holds of a run at a statement or at the end of a revision.
LEMMA AtStatement ==
  ASSUME MigrationInv, NEW r \in Runners, migration[r].state = "running"
  PROVE  /\ r \in Running /\ migration[r] \in MigrationRuns /\ OnItsWay(migration[r])
         /\ migration \in [Runners -> MigrationRuns]
         /\ migration[r].stamped => \A q \in Others(r) : ~migration[q].stamped
BY DEF MigrationInv, MigrationTypes, Running, Others

\* A refusal is an end like any other, for a run that has company.
LEMMA RefusedNotAlone ==
  ASSUME MigrationInv, NEW r \in Running, Refuse(r), ~migration[r].alone
  PROVE  MigrationInv'
<1>1. schema' = schema /\ UNCHANGED migrations /\ migration' = [migration EXCEPT ![r].state = "refused"]
  BY DEF Refuse
<1>2. schema' \in [version : 0..HeadRevision, tables : SUBSET Tables] /\ SchemaFitsVersion'
  BY <1>1 DEF MigrationInv, MigrationTypes, SchemaFitsVersion
<1>3. PICK end \in {"done", "refused", "lost"} : end = "refused"
  OBVIOUS
<1> QED
  BY <1>1, <1>2, <1>3, RunEnds

\* The steps of a run, one lemma each.
LEMMA CreateKeepsInv ==
  ASSUME MigrationInv, NEW r \in Runners, CreateTable(r)
  PROVE  MigrationInv'
<1>1. PICK m : m = migration[r]
  OBVIOUS
<1>2. /\ m.state = "running" /\ m.version # m.target /\ Up(m) /\ m.step <= Len(Statements(m))
  BY <1>1 DEF CreateTable
<1>3. /\ r \in Running /\ m \in MigrationRuns /\ OnItsWay(m)
      /\ migration \in [Runners -> MigrationRuns]
      /\ m.stamped => \A q \in Others(r) : ~migration[q].stamped
  BY <1>1, <1>2, AtStatement
<1>4. PICK v : v = Revision(m)
  OBVIOUS
<1>5. v \in 1..HeadRevision /\ Statements(m) = Upgrade[v] /\ m.step \in DOMAIN Upgrade[v]
  BY <1>2, <1>3, <1>4, RevisionAtWork DEF OnItsWay
<1>6. PICK create : create = Upgrade[v][m.step]
  OBVIOUS
<1>7. PICK t : t = create.table
  OBVIOUS
<1>8. /\ t \notin AfterCreates(v, m.step - 1) /\ create.references \subseteq AfterCreates(v, m.step - 1)
      /\ AfterCreates(v, m.step) = AfterCreates(v, m.step - 1) \cup {t}
  BY <1>5, <1>6, <1>7, CreateSucceeds
<1>9. Progress(m) = AfterCreates(v, m.step - 1)
  BY <1>2, <1>4 DEF Progress
<1>10. CASE t \in Visible(m) \/ ~(create.references \subseteq Visible(m))
  <2>1. Refuse(r)
    BY <1>1, <1>5, <1>6, <1>7, <1>10 DEF CreateTable
  <2>2. ~m.alone
    BY <1>1, <1>3, <1>8, <1>9, <1>10, SeesProgress
  <2> QED
    BY <1>1, <1>3, <2>1, <2>2, RefusedNotAlone
<1>11. CASE ~(t \in Visible(m) \/ ~(create.references \subseteq Visible(m)))
  <2>1. PICK made : made = m.created \cup {t}
    OBVIOUS
  <2>2. PICK gone : gone = m.dropped \ {t}
    OBVIOUS
  <2>3. PICK next : next = m.step + 1
    OBVIOUS
  <2>4. PICK f : f = [m EXCEPT !.created = made, !.dropped = gone, !.step = next]
    OBVIOUS
  <2>5. t \in Tables
    BY <1>5, <1>6, <1>7 DEF Tables, AllCreates, CreatesOf
  <2>6. made \subseteq Tables /\ gone \subseteq Tables /\ next \in Nat
    BY <1>3, <2>1, <2>2, <2>3, <2>5 DEF MigrationRuns
  <2>7. /\ f \in MigrationRuns /\ f.state = m.state /\ f.target = m.target /\ f.version = m.version
        /\ f.step = next /\ f.created = made /\ f.dropped = gone
    BY <1>3, <2>4, <2>6 DEF MigrationRuns
  <2>8. f.stamped = m.stamped /\ f.alone = m.alone
    BY <1>3, <2>4 DEF MigrationRuns
  <2>9. migration' = [migration EXCEPT ![r] = f] /\ UNCHANGED <<schema, migrations>>
    <3>1. /\ migration' = [migration EXCEPT ![r].created = made, ![r].dropped = gone,
                                            ![r].step = next]
          /\ UNCHANGED <<schema, migrations>>
      BY <1>1, <1>3, <1>5, <1>6, <1>7, <1>11, <2>1, <2>2, <2>3 DEF CreateTable
    <3> QED
      BY <1>1, <1>3, <2>4, <3>1
  <2>10. Up(f) /\ Statements(f) = Statements(m) /\ Revision(f) = v /\ Base(f) = Base(m)
    BY <1>2, <1>4, <2>7, <2>8 DEF Up, Statements, Revision, Base
  <2>11. next - 1 = m.step
    BY <1>3, <2>3 DEF MigrationRuns
  <2>12. Progress(f) = Progress(m) \cup {t}
    BY <1>2, <1>8, <1>9, <2>7, <2>10, <2>11 DEF Progress
  <2>13. (TablesAt(Base(f)) \cup f.created) \ f.dropped = Progress(f)
    BY <1>3, <2>1, <2>2, <2>7, <2>10, <2>12 DEF OnItsWay
  <2>14. OnItsWay(f)
    <3>1. f.step \in Nat \ {0} /\ f.step <= Len(Statements(f)) + 1
      BY <1>2, <1>3, <1>5, <2>3, <2>7, <2>10, RevisionAtWork DEF MigrationRuns
    <3> QED
      BY <1>3, <2>8, <2>10, <2>13, <3>1 DEF OnItsWay
  <2> QED
    BY <1>1, <1>2, <1>3, <2>7, <2>8, <2>9, <2>14, RunGoesOn
<1> QED
  BY <1>10, <1>11

LEMMA DropKeepsInv ==
  ASSUME MigrationInv, NEW r \in Runners, DropTable(r)
  PROVE  MigrationInv'
<1>1. PICK m : m = migration[r]
  OBVIOUS
<1>2. /\ m.state = "running" /\ m.version # m.target /\ ~Up(m) /\ m.step <= Len(Statements(m))
  BY <1>1 DEF DropTable
<1>3. /\ r \in Running /\ m \in MigrationRuns /\ OnItsWay(m)
      /\ migration \in [Runners -> MigrationRuns]
      /\ m.stamped => \A q \in Others(r) : ~migration[q].stamped
  BY <1>1, <1>2, AtStatement
<1>4. PICK v : v = Revision(m)
  OBVIOUS
<1>5. v \in 1..HeadRevision /\ Statements(m) = Downgrade[v] /\ m.step \in DOMAIN Downgrade[v]
  BY <1>2, <1>3, <1>4, RevisionAtWork DEF OnItsWay
<1>6. PICK t : t = Downgrade[v][m.step]
  OBVIOUS
<1>7. /\ t \in AfterDrops(v, m.step - 1)
      /\ \A u \in AfterDrops(v, m.step - 1) \ {t} : t \notin References(u)
      /\ AfterDrops(v, m.step) = AfterDrops(v, m.step - 1) \ {t}
  BY <1>5, <1>6, DropSucceeds
<1>8. Progress(m) = AfterDrops(v, m.step - 1)
  BY <1>2, <1>4 DEF Progress
<1>9. CASE t \notin Visible(m) \/ \E u \in Visible(m) \ {t} : t \in References(u)
  <2>1. Refuse(r)
    BY <1>1, <1>5, <1>6, <1>9 DEF DropTable
  <2>2. ~m.alone
    BY <1>1, <1>3, <1>7, <1>8, <1>9, SeesProgress
  <2> QED
    BY <1>1, <1>3, <2>1, <2>2, RefusedNotAlone
<1>10. CASE ~(t \notin Visible(m) \/ \E u \in Visible(m) \ {t} : t \in References(u))
  <2>1. PICK made : made = m.created \ {t}
    OBVIOUS
  <2>2. PICK gone : gone = m.dropped \cup {t}
    OBVIOUS
  <2>3. PICK next : next = m.step + 1
    OBVIOUS
  <2>4. PICK f : f = [m EXCEPT !.created = made, !.dropped = gone, !.step = next]
    OBVIOUS
  <2>5. t \in Tables
    BY <1>5, <1>7, RevisionLists DEF Tables, AllCreates, AfterDrops, TablesAt
  <2>6. made \subseteq Tables /\ gone \subseteq Tables /\ next \in Nat
    BY <1>3, <2>1, <2>2, <2>3, <2>5 DEF MigrationRuns
  <2>7. /\ f \in MigrationRuns /\ f.state = m.state /\ f.target = m.target /\ f.version = m.version
        /\ f.step = next /\ f.created = made /\ f.dropped = gone
    BY <1>3, <2>4, <2>6 DEF MigrationRuns
  <2>8. f.stamped = m.stamped /\ f.alone = m.alone
    BY <1>3, <2>4 DEF MigrationRuns
  <2>9. migration' = [migration EXCEPT ![r] = f] /\ UNCHANGED <<schema, migrations>>
    <3>1. /\ migration' = [migration EXCEPT ![r].created = made, ![r].dropped = gone,
                                            ![r].step = next]
          /\ UNCHANGED <<schema, migrations>>
      BY <1>1, <1>3, <1>5, <1>6, <1>10, <2>1, <2>2, <2>3 DEF DropTable
    <3> QED
      BY <1>1, <1>3, <2>4, <3>1
  <2>10. ~Up(f) /\ Statements(f) = Statements(m) /\ Revision(f) = v /\ Base(f) = Base(m)
    BY <1>2, <1>4, <2>7, <2>8 DEF Up, Statements, Revision, Base
  <2>11. next - 1 = m.step
    BY <1>3, <2>3 DEF MigrationRuns
  <2>12. Progress(f) = Progress(m) \ {t}
    BY <1>2, <1>7, <1>8, <2>7, <2>10, <2>11 DEF Progress
  <2>13. (TablesAt(Base(f)) \cup f.created) \ f.dropped = Progress(f)
    BY <1>3, <2>1, <2>2, <2>7, <2>10, <2>12 DEF OnItsWay
  <2>14. OnItsWay(f)
    <3>1. f.step \in Nat \ {0} /\ f.step <= Len(Statements(f)) + 1
      BY <1>2, <1>3, <1>5, <2>3, <2>7, <2>10, RevisionAtWork DEF MigrationRuns
    <3> QED
      BY <1>3, <2>8, <2>10, <2>13, <3>1 DEF OnItsWay
  <2> QED
    BY <1>1, <1>2, <1>3, <2>7, <2>8, <2>9, <2>14, RunGoesOn
<1> QED
  BY <1>9, <1>10

LEMMA StampKeepsInv ==
  ASSUME MigrationInv, NEW r \in Runners, Stamp(r)
  PROVE  MigrationInv'
<1>1. PICK m : m = migration[r]
  OBVIOUS
<1>2. /\ m.state = "running" /\ m.version # m.target /\ m.step > Len(Statements(m))
      /\ \A q \in Others(r) : ~migration[q].stamped
  BY <1>1 DEF Stamp
<1>3. /\ r \in Running /\ m \in MigrationRuns /\ OnItsWay(m)
      /\ migration \in [Runners -> MigrationRuns]
  BY <1>1, <1>2, AtStatement
<1>4. CASE ~VersionMatches(m)
  <2>1. Refuse(r)
    BY <1>1, <1>4 DEF Stamp
  <2>2. ~m.alone
    BY <1>3, <1>4 DEF OnItsWay, Base, VersionMatches, SeenVersion
  <2> QED
    BY <1>1, <1>3, <2>1, <2>2, RefusedNotAlone
<1>5. CASE VersionMatches(m)
  <2>1. PICK v : v = Revision(m)
    OBVIOUS
  <2>2. PICK next : next = IF Up(m) THEN m.version + 1 ELSE m.version - 1
    OBVIOUS
  <2>3. PICK yes : yes = TRUE
    OBVIOUS
  <2>4. PICK f : f = [m EXCEPT !.version = next, !.step = 1, !.stamped = yes]
    OBVIOUS
  <2>5. /\ v \in 1..HeadRevision
        /\ Up(m) => v = m.version + 1 /\ Statements(m) = Upgrade[v]
        /\ ~Up(m) => v = m.version /\ Statements(m) = Downgrade[v]
        /\ Len(Statements(m)) \in Nat /\ m.step - 1 = Len(Statements(m))
    BY <1>2, <1>3, <2>1, RevisionAtWork DEF OnItsWay
  <2>6. next \in 0..HeadRevision /\ m.version \in Int /\ m.target \in Int
    BY <1>3, <2>2, <2>5, RevisionLists DEF MigrationRuns
  <2>7. yes /\ yes \in BOOLEAN
    BY <2>3, Zenon
  <2>8. f \in MigrationRuns
    BY <1>3, <2>4, <2>6, <2>7 DEF MigrationRuns
  <2>9. /\ f.state = m.state /\ f.target = m.target /\ f.version = next /\ f.step = 1
        /\ f.created = m.created /\ f.dropped = m.dropped
    BY <1>3, <2>4 DEF MigrationRuns
  <2>10. f.stamped /\ f.alone = m.alone
    BY <1>3, <2>4, <2>7 DEF MigrationRuns
  <2>11. migration' = [migration EXCEPT ![r] = f] /\ UNCHANGED <<schema, migrations>>
    BY <1>1, <1>3, <1>5, <2>2, <2>3, <2>4 DEF Stamp, MigrationRuns
  <2>12. Base(m) = schema.version /\ Base(f) = schema.version
    BY <1>5, <2>10 DEF Base, VersionMatches, SeenVersion
  <2>13. Progress(m) = TablesAt(next)
    <3>1. CASE Up(m)
      BY <1>2, <2>1, <2>2, <2>5, <3>1, RevisionsMeet DEF Progress
    <3>2. CASE ~Up(m)
      BY <1>2, <2>1, <2>2, <2>5, <3>2, RevisionsMeet DEF Progress
    <3> QED
      BY <3>1, <3>2
  <2>14. Progress(f) = TablesAt(next)
    <3>1. CASE next = m.target
      BY <2>9, <3>1 DEF Progress
    <3>2. CASE next # m.target
      <4>1. /\ Revision(f) \in 1..HeadRevision
            /\ Up(f) => Revision(f) = next + 1
            /\ ~Up(f) => Revision(f) = next
        BY <2>8, <2>9, <3>2, RevisionAtWork
      <4>2. f.step - 1 = 0 /\ f.version # f.target
        BY <2>9, <3>2
      <4>3. CASE Up(f)
        <5>1. Revision(f) - 1 = next
          BY <2>6, <4>1, <4>3, RevisionLists
        <5> QED
          BY <4>1, <4>2, <4>3, <5>1, RevisionsMeet DEF Progress
      <4>4. CASE ~Up(f)
        BY <4>1, <4>2, <4>4, RevisionsMeet DEF Progress
      <4> QED
        BY <4>3, <4>4
    <3> QED
      BY <3>1, <3>2
  <2>15. (TablesAt(Base(f)) \cup f.created) \ f.dropped = Progress(f)
    BY <1>3, <2>9, <2>12, <2>13, <2>14 DEF OnItsWay
  <2>16. f.version # f.target => f.step <= Len(Statements(f)) + 1
    BY <2>8, <2>9, RevisionAtWork
  <2>17. OnItsWay(f)
    BY <2>9, <2>12, <2>15, <2>16 DEF OnItsWay
  <2> QED
    BY <1>1, <1>2, <1>3, <2>8, <2>9, <2>10, <2>11, <2>17, RunGoesOn
<1> QED
  BY <1>4, <1>5

LEMMA CommitMigrationKeepsInv ==
  ASSUME MigrationInv, NEW r \in Runners, CommitMigration(r)
  PROVE  MigrationInv'
<1>1. PICK m : m = migration[r]
  OBVIOUS
<1>2. /\ m.state = "running" /\ m.version = m.target /\ UNCHANGED migrations
      /\ migration' = [migration EXCEPT ![r].state = "done"]
  BY <1>1 DEF CommitMigration
<1>3. /\ r \in Running /\ m \in MigrationRuns /\ OnItsWay(m)
      /\ m.stamped => \A q \in Others(r) : ~migration[q].stamped
  BY <1>1, <1>2, AtStatement
<1>4. /\ schema' = schema \/ \A q \in Others(r) : ~migration[q].stamped
      /\ schema' \in [version : 0..HeadRevision, tables : SUBSET Tables]
      /\ SchemaFitsVersion'
  <2>1. CASE ~m.stamped
    <3>1. schema' = schema
      BY <1>1, <2>1 DEF CommitMigration
    <3> QED
      BY <3>1 DEF MigrationInv, MigrationTypes, SchemaFitsVersion
  <2>2. CASE m.stamped
    <3>1. schema' = [version |-> m.version, tables |-> Visible(m)]
      BY <1>1, <2>2 DEF CommitMigration
    <3>2. Visible(m) = TablesAt(m.version)
      BY <1>1, <1>2, <1>3, <2>2, SeesProgress DEF Progress
    <3>3. Visible(m) \subseteq Tables
      BY <1>3 DEF Visible, MigrationRuns, MigrationInv, MigrationTypes
    <3>4. m.version \in 0..HeadRevision
      BY <1>3 DEF MigrationRuns
    <3> QED
      BY <1>3, <2>2, <3>1, <3>2, <3>3, <3>4 DEF SchemaFitsVersion
  <2> QED
    BY <2>1, <2>2
<1>5. PICK end \in {"done", "refused", "lost"} : end = "done"
  OBVIOUS
<1> QED
  BY <1>1, <1>2, <1>3, <1>4, <1>5, RunEnds

LEMMA MigrationInvHolds == MigrationSpec => []MigrationInv
<1>1. MigrationInit => MigrationInv
  <2> SUFFICES ASSUME MigrationInit PROVE MigrationInv
    OBVIOUS
  <2>1. NoRun \in MigrationRuns /\ NoRun.state = "idle"
    BY RevisionLists DEF NoRun, NoRevision, MigrationRuns
  <2>2. MigrationTypes
    BY <2>1, RevisionLists, MigrationAssumption DEF MigrationInit, MigrationTypes, NoRevision
  <2>3. Running = {} /\ AloneNeverRefused
    BY <2>1 DEF MigrationInit, Running, AloneNeverRefused
  <2>4. SchemaFitsVersion
    BY TablesGrow DEF MigrationInit, SchemaFitsVersion, NoRevision
  <2> QED
    BY <2>2, <2>3, <2>4 DEF MigrationInv
<1>2. MigrationInv /\ [MigrationNext]_migrationVars => MigrationInv'
  <2> SUFFICES ASSUME MigrationInv, [MigrationNext]_migrationVars PROVE MigrationInv'
    OBVIOUS
  <2>1. CASE UNCHANGED migrationVars
    BY <2>1 DEF migrationVars, MigrationInv, MigrationTypes, SchemaFitsVersion, AloneNeverRefused,
                Running, OnItsWay, Base
  <2>2. ASSUME NEW r \in Runners, LoseMigration(r) PROVE MigrationInv'
    <3>1. r \in Running
      BY <2>2 DEF LoseMigration, Running
    <3>2. /\ migration' = [migration EXCEPT ![r].state = "lost"] /\ UNCHANGED <<schema, migrations>>
      BY <2>2 DEF LoseMigration
    <3>3. schema' \in [version : 0..HeadRevision, tables : SUBSET Tables] /\ SchemaFitsVersion'
      BY <3>2 DEF MigrationInv, MigrationTypes, SchemaFitsVersion
    <3>4. PICK end \in {"done", "refused", "lost"} : end = "lost"
      OBVIOUS
    <3> QED
      BY <3>1, <3>2, <3>3, <3>4, RunEnds
  <2> QED
    BY <2>1, <2>2, StartsOnItsWay, CreateKeepsInv, DropKeepsInv, StampKeepsInv,
       CommitMigrationKeepsInv DEF MigrationNext
<1> QED
  BY <1>1, <1>2, PTL DEF MigrationSpec

\* The types of the migrations (backend/migrations/env.py).
THEOREM MigrationTypeInvariant == MigrationSpec => []MigrationTypeOK
<1>1. MigrationInv => MigrationTypeOK
  BY DEF MigrationInv, MigrationTypes, MigrationTypeOK, MigrationRuns
<1> QED
  BY <1>1, MigrationInvHolds, PTL

\* Whatever runs of alembic overlap, are refused or die, the committed tables
\* are those of the committed version (backend/migrations/env.py).
THEOREM SchemaFits == MigrationSpec => []SchemaFitsVersion
<1>1. MigrationInv => SchemaFitsVersion
  BY DEF MigrationInv
<1> QED
  BY <1>1, MigrationInvHolds, PTL

\* A run that is alone is never refused: upgrades create what they reference
\* first, downgrades drop it last (backend/migrations/versions).
THEOREM AloneSucceeds == MigrationSpec => []AloneNeverRefused
<1>1. MigrationInv => AloneNeverRefused
  BY DEF MigrationInv
<1> QED
  BY <1>1, MigrationInvHolds, PTL

\* The requests of the runs, as the abstract specification sees them.
Asked == [q \in Runners |-> Request(migration[q])]

\* A step changes the request of one run, or none.
LEMMA OneRequest ==
  ASSUME NEW r \in Runners, NEW wanted, Request(migration[r])' = wanted,
         \A q \in Runners \ {r} : Request(migration[q])' = Request(migration[q])
  PROVE  Asked' = [Asked EXCEPT ![r] = wanted]
BY DEF Asked

\* A run that is refused or lost drops its request, if it has one.
LEMMA EndDropsRequest ==
  ASSUME MigrationInv, NEW r \in Runners, NEW end \in {"refused", "lost"},
         migration' = [migration EXCEPT ![r].state = end], UNCHANGED schema
  PROVE  Atomic!Next \/ UNCHANGED Atomic!atomicVars
<1>1. migration \in [Runners -> MigrationRuns]
  BY DEF MigrationInv, MigrationTypes
<1>2. migration'[r].state # "running" /\ \A q \in Runners \ {r} : migration'[q] = migration[q]
  BY <1>1 DEF MigrationRuns
<1>3. Request(migration[r])' = {} /\ \A q \in Runners \ {r} : Request(migration[q])' = Request(migration[q])
  BY <1>2 DEF Request, Base
<1>4. Asked' = [Asked EXCEPT ![r] = {}]
  BY <1>3, OneRequest
<1>5. CASE Asked[r] = {}
  BY <1>4, <1>5 DEF Asked, Atomic!atomicVars
<1>6. CASE Asked[r] # {}
  BY <1>4, <1>6 DEF Asked, Atomic!Next, Atomic!Drop
<1> QED
  BY <1>5, <1>6

\* A run that goes on with its request.
LEMMA GoesOnWithRequest ==
  ASSUME NEW r \in Runners, Request(migration[r])' = Request(migration[r]),
         \A q \in Runners \ {r} : migration'[q] = migration[q], UNCHANGED schema
  PROVE  UNCHANGED Atomic!atomicVars
<1>1. Asked' = Asked
  BY DEF Asked, Request, Base
<1> QED
  BY <1>1 DEF Asked, Atomic!atomicVars

LEMMA StartAsks ==
  ASSUME MigrationInv, NEW r \in Runners, NEW target \in Targets, StartMigration(r, target)
  PROVE  Atomic!Next \/ UNCHANGED Atomic!atomicVars
<1>1. migration \in [Runners -> MigrationRuns]
  BY DEF MigrationInv, MigrationTypes
<1>2. migration[r].state # "running" /\ schema' = schema
  BY DEF StartMigration
<1>3. /\ migration'[r].state = "running" /\ migration'[r].target = target
      /\ migration'[r].version = schema.version /\ ~migration'[r].stamped
  BY DEF StartMigration, NoRun
<1>4. ASSUME NEW q \in Runners \ {r} PROVE Request(migration[q])' = Request(migration[q])
  <2>1. migration'[q] = [migration[q] EXCEPT !.alone = @ /\ migration[q].state # "running"]
    BY DEF StartMigration
  <2>2. /\ migration'[q].state = migration[q].state /\ migration'[q].target = migration[q].target
        /\ migration'[q].version = migration[q].version /\ migration'[q].stamped = migration[q].stamped
    BY <1>1, <2>1 DEF MigrationRuns
  <2> QED
    BY <1>2, <2>2 DEF Request, Base
<1>5. Asked[r] = {}
  BY <1>2 DEF Asked, Request
<1>6. CASE target = schema.version
  <2>1. Request(migration[r])' = {}
    BY <1>3, <1>6 DEF Request
  <2>2. Asked' = Asked
    BY <1>4, <1>5, <2>1 DEF Asked
  <2> QED
    BY <1>2, <2>2 DEF Asked, Atomic!atomicVars
<1>7. CASE target # schema.version
  <2>1. Request(migration[r])' = {[from |-> schema.version, to |-> target]}
    BY <1>2, <1>3, <1>7 DEF Request, Base
  <2>2. Asked' = [Asked EXCEPT ![r] = {[from |-> schema.version, to |-> target]}]
    BY <1>4, <2>1, OneRequest
  <2>3. Atomic!Ask(r, target)
    BY <1>2, <1>5, <1>7, <2>2 DEF Asked, Atomic!Ask
  <2> QED
    BY <2>3 DEF Atomic!Next
<1> QED
  BY <1>6, <1>7

LEMMA StatementKeepsRequest ==
  ASSUME MigrationInv, NEW r \in Runners, CreateTable(r) \/ DropTable(r)
  PROVE  Atomic!Next \/ UNCHANGED Atomic!atomicVars
<1>1. migration \in [Runners -> MigrationRuns]
  BY DEF MigrationInv, MigrationTypes
<1>2. CASE Refuse(r)
  BY <1>2, EndDropsRequest DEF Refuse
<1>3. CASE ~Refuse(r)
  <2>1. /\ migration'[r].state = migration[r].state /\ migration'[r].target = migration[r].target
        /\ migration'[r].version = migration[r].version /\ migration'[r].stamped = migration[r].stamped
        /\ \A q \in Runners \ {r} : migration'[q] = migration[q]
        /\ UNCHANGED schema
    <3>1. CASE CreateTable(r)
      <4>1. PICK t : /\ migration' = [migration EXCEPT ![r].created = @ \cup {t},
                                        ![r].dropped = @ \ {t}, ![r].step = @ + 1]
                     /\ UNCHANGED schema
        BY <1>3, <3>1 DEF CreateTable
      <4> QED
        BY <1>1, <4>1 DEF MigrationRuns
    <3>2. CASE DropTable(r)
      <4>1. PICK t : /\ migration' = [migration EXCEPT ![r].created = @ \ {t},
                                        ![r].dropped = @ \cup {t}, ![r].step = @ + 1]
                     /\ UNCHANGED schema
        BY <1>3, <3>2 DEF DropTable
      <4> QED
        BY <1>1, <4>1 DEF MigrationRuns
    <3> QED
      BY <3>1, <3>2
  <2>2. Request(migration[r])' = Request(migration[r])
    BY <2>1 DEF Request, Base
  <2> QED
    BY <2>1, <2>2, GoesOnWithRequest
<1> QED
  BY <1>2, <1>3

\* The first stamp takes the row at the version the run has set out from.
LEMMA StampKeepsRequest ==
  ASSUME MigrationInv, NEW r \in Runners, Stamp(r)
  PROVE  Atomic!Next \/ UNCHANGED Atomic!atomicVars
<1>1. migration \in [Runners -> MigrationRuns]
  BY DEF MigrationInv, MigrationTypes
<1>2. CASE ~VersionMatches(migration[r])
  BY <1>2, EndDropsRequest DEF Stamp, Refuse
<1>3. CASE VersionMatches(migration[r])
  <2>1. PICK next :
          /\ migration' = [migration EXCEPT ![r].version = next, ![r].step = 1, ![r].stamped = TRUE]
          /\ UNCHANGED schema
    BY <1>1, <1>3 DEF Stamp
  <2>2. /\ migration'[r].state = migration[r].state /\ migration'[r].target = migration[r].target
        /\ migration'[r].stamped
        /\ \A q \in Runners \ {r} : migration'[q] = migration[q]
    BY <1>1, <2>1 DEF MigrationRuns
  <2>3. Base(migration[r]) = schema.version
    BY <1>3 DEF VersionMatches, SeenVersion, Base
  <2>4. Request(migration[r]) = {[from |-> schema.version, to |-> migration[r].target]}
    BY <2>3 DEF Stamp, Request
  <2>5. Request(migration[r])' = {[from |-> schema.version, to |-> migration[r].target]}
    BY <2>1, <2>2 DEF Stamp, Request, Base
  <2> QED
    BY <2>1, <2>2, <2>4, <2>5, GoesOnWithRequest
<1> QED
  BY <1>2, <1>3

\* A commit is the moment at which a run takes effect.
LEMMA CommitApplies ==
  ASSUME MigrationInv, NEW r \in Runners, CommitMigration(r)
  PROVE  Atomic!Next \/ UNCHANGED Atomic!atomicVars
<1>1. migration \in [Runners -> MigrationRuns]
  BY DEF MigrationInv, MigrationTypes
<1>2. /\ migration[r].state = "running" /\ migration[r].version = migration[r].target
      /\ migration' = [migration EXCEPT ![r].state = "done"]
  BY DEF CommitMigration
<1>3. migration'[r].state = "done" /\ \A q \in Runners \ {r} : migration'[q] = migration[q]
  BY <1>1, <1>2 DEF MigrationRuns
<1>4. /\ r \in Running
      /\ migration[r].stamped => \A q \in Others(r) : ~migration[q].stamped
  BY <1>2, AtStatement
<1>5. CASE ~migration[r].stamped
  <2>1. schema' = schema
    BY <1>5 DEF CommitMigration
  <2>2. Request(migration[r])' = Request(migration[r])
    BY <1>2, <1>3, <1>5 DEF Request
  <2> QED
    BY <1>3, <2>1, <2>2, GoesOnWithRequest
<1>6. CASE migration[r].stamped
  <2>1. schema' = [version |-> migration[r].version, tables |-> Visible(migration[r])]
    BY <1>6 DEF CommitMigration
  <2>2. Visible(migration[r]) = TablesAt(migration[r].target)
    BY <1>2, <1>4, <1>6, SeesProgress DEF Progress
  <2>3. Asked[r] = {[from |-> schema.version, to |-> migration[r].target]}
    BY <1>2, <1>6 DEF Asked, Request, Base
  <2>4. Request(migration[r])' = {}
    BY <1>3 DEF Request
  <2>5. ASSUME NEW q \in Runners \ {r} PROVE Request(migration[q])' = Request(migration[q])
    <3>1. migration[q].state = "running" => ~migration[q].stamped
      BY <1>4, <1>6, <2>5 DEF Others, Running
    <3> QED
      BY <1>3, <2>5, <3>1 DEF Request, Base
  <2>6. Asked' = [Asked EXCEPT ![r] = {}]
    BY <2>4, <2>5, OneRequest
  <2>7. migration[r].target \in 0..HeadRevision
    BY <1>1 DEF MigrationRuns
  <2>8. PICK wanted \in Asked[r] : wanted.from = schema.version /\ wanted.to = migration[r].target
    BY <2>3
  <2>9. Atomic!Apply(r)
    BY <1>2, <2>1, <2>2, <2>6, <2>7, <2>8 DEF Asked, Atomic!Apply
  <2> QED
    BY <2>9 DEF Atomic!Next
<1> QED
  BY <1>5, <1>6

\* Every run of alembic takes effect at its commit, in full and from the
\* version it found, or never (backend/migrations/env.py).
THEOREM ImplementsAtomicMigrations == MigrationSpec => MigrationsAreAtomic
<1>1. MigrationInit => Atomic!Init
  <2> SUFFICES ASSUME MigrationInit PROVE Atomic!Init
    OBVIOUS
  <2>1. schema.version = 0 /\ schema.tables = {} /\ \A r \in Runners : migration[r].state = "idle"
    BY DEF MigrationInit, NoRun, NoRevision
  <2>2. TablesAt(0) = {} /\ 0 \in 0..HeadRevision
    BY TablesGrow, RevisionLists
  <2>3. Asked = [r \in Runners |-> {}]
    BY <2>1 DEF Asked, Request
  <2> QED
    BY <2>1, <2>2, <2>3 DEF Asked, Atomic!Init
<1>2. ASSUME MigrationInv, [MigrationNext]_migrationVars
      PROVE  Atomic!Next \/ UNCHANGED Atomic!atomicVars
  <2>1. CASE UNCHANGED migrationVars
    <3>1. Asked' = Asked /\ schema' = schema
      BY <2>1 DEF migrationVars, Asked, Request, Base
    <3> QED
      BY <3>1 DEF Asked, Atomic!atomicVars
  <2>2. ASSUME NEW r \in Runners, LoseMigration(r) PROVE Atomic!Next \/ UNCHANGED Atomic!atomicVars
    BY <1>2, <2>2, EndDropsRequest DEF LoseMigration
  <2> QED
    BY <1>2, <2>1, <2>2, StartAsks, StatementKeepsRequest, StampKeepsRequest, CommitApplies
    DEF MigrationNext
<1> QED
  BY <1>1, <1>2, MigrationInvHolds, PTL DEF MigrationSpec, MigrationsAreAtomic, Atomic!Spec

-----------------------------------------------------------------------------
(* All of them side by side.                                               *)

\* What runs side by side is, for each component, a behaviour of its own: the
\* steps of the others leave its state alone.
LEMMA StepsOfParts ==
  ASSUME [ApiNext]_ApiVars
  PROVE  /\ [GateNext]_gateAsk /\ [IncidentNext]_incidentVars
         /\ [ConversationNext]_conversationVars /\ [PlaybookNext]_playbookVars
         /\ [SettingNext]_settingVars /\ [AssistantNext]_assistantVars
         /\ [PoolNext]_poolVars /\ [MigrationNext]_migrationVars
BY DEF ApiNext, Rest, ApiVars

\* The requests of the API side by side are behaviours of the gate, the
\* incidents, the conversations, the playbooks, the settings, the assistants,
\* the pools and the migrations, so that all that is proved of one of them
\* holds when the others run.
THEOREM RequestsAreTheirParts ==
  ApiSpec => /\ GateSpec /\ IncidentSpec /\ ConversationSpec /\ PlaybookSpec
             /\ SettingSpec /\ AssistantSpec /\ PoolSpec /\ MigrationSpec
<1>1. ApiInit => /\ GateInit /\ IncidentInit /\ ConversationInit /\ PlaybookInit
                 /\ SettingInit /\ AssistantInit /\ PoolInit /\ MigrationInit
  BY DEF ApiInit
<1> QED
  BY <1>1, StepsOfParts, PTL
  DEF ApiSpec, GateSpec, IncidentSpec, ConversationSpec, PlaybookSpec, SettingSpec,
      AssistantSpec, PoolSpec, MigrationSpec

\* Every variable of every component keeps its type.
THEOREM ApiTypeInvariant == ApiSpec => []TypeOK
BY RequestsAreTheirParts, GateTypeInvariant, IncidentTypeInvariant, ConversationTypeInvariant,
   PlaybookTypeInvariant, SettingTypeInvariant, AssistantTypeInvariant, PoolTypeInvariant,
   MigrationTypeInvariant, PTL
DEF TypeOK

=============================================================================
