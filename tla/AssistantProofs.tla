--------------------------- MODULE AssistantProofs ---------------------------
(***************************************************************************)
(* Machine-checked proofs about conversations with the agents: the memory  *)
(* and the intents of the DBA agent (DbaConversation), for any number of   *)
(* questions that overlap, and the agents that call a language model again *)
(* and again (Assistants), for every bound on their loops.                 *)
(***************************************************************************)
EXTENDS DbaConversation, Assistants, TLAPS

-----------------------------------------------------------------------------
(* Intents.                                                                *)

Texts == [tier1 : BOOLEAN, score : [Intents -> Nat], large : BOOLEAN]

\* The keywords always name one of the intents.
LEMMA TopIntentTyped ==
  ASSUME NEW score \in [Intents -> Nat]
  PROVE  TopIntent(score) \in Intents
<1> DEFINE n(k) == score[IntentOrder[k]]
<1>1. \A k \in 1..5 : IntentOrder[k] \in Intents /\ n(k) \in Nat
  BY DEF IntentOrder, Intents
<1>2. n(1) \in Nat /\ n(2) \in Nat /\ n(3) \in Nat /\ n(4) \in Nat /\ n(5) \in Nat
  BY <1>1
<1> HIDE DEF n
<1>3. \E k \in 1..5 : /\ \A j \in 1..5 : n(j) <= n(k)
                      /\ \A j \in 1..(k - 1) : n(j) < n(k)
  <2>1. \A k \in 1..5 : k = 1 \/ k = 2 \/ k = 3 \/ k = 4 \/ k = 5
    OBVIOUS
  <2>2. CASE n(1) >= n(2) /\ n(1) >= n(3) /\ n(1) >= n(4) /\ n(1) >= n(5)
    <3> WITNESS 1 \in 1..5
    <3> QED
      BY <1>2, <2>1, <2>2
  <2>3. CASE n(2) > n(1) /\ n(2) >= n(3) /\ n(2) >= n(4) /\ n(2) >= n(5)
    <3> WITNESS 2 \in 1..5
    <3> QED
      BY <1>2, <2>1, <2>3
  <2>4. CASE n(3) > n(1) /\ n(3) > n(2) /\ n(3) >= n(4) /\ n(3) >= n(5)
    <3> WITNESS 3 \in 1..5
    <3> QED
      BY <1>2, <2>1, <2>4
  <2>5. CASE n(4) > n(1) /\ n(4) > n(2) /\ n(4) > n(3) /\ n(4) >= n(5)
    <3> WITNESS 4 \in 1..5
    <3> QED
      BY <1>2, <2>1, <2>5
  <2>6. CASE n(5) > n(1) /\ n(5) > n(2) /\ n(5) > n(3) /\ n(5) > n(4)
    <3> WITNESS 5 \in 1..5
    <3> QED
      BY <1>2, <2>1, <2>6
  <2> QED
    BY <1>2, <2>2, <2>3, <2>4, <2>5, <2>6
<1> DEFINE best == CHOOSE k \in 1..5 : /\ \A j \in 1..5 : n(j) <= n(k)
                                       /\ \A j \in 1..(k - 1) : n(j) < n(k)
<1>4. best \in 1..5
  BY <1>3
<1>5. TopIntent(score) \in {"analyze", IntentOrder[best]}
  BY DEF TopIntent, n
<1> QED
  BY <1>1, <1>4, <1>5 DEF Intents

LEMMA DecidedIntentsTyped ==
  ASSUME NEW shape, shape.score \in [Intents -> Nat], NEW turns
  PROVE  DecidedIntents(shape, turns) \subseteq Intents
<1>1. TopIntent(shape.score) \in Intents
  BY TopIntentTyped
<1>2. FlowIntent(turns, TopIntent(shape.score)) \in Intents
  BY <1>1 DEF FlowIntent, Intents
<1> QED
  BY <1>1, <1>2 DEF DecidedIntents

-----------------------------------------------------------------------------
(* Conversations.                                                          *)

Turns == [ask : Asks, intent : Intents \cup {"none"}, key : DataKeys \cup {NoKey}]

\* What MAX_TURNS leaves of a document.
Histories == {t \in Seq(Turns) : Len(t) <= MaxTurns}

AskStates ==
  [step : {"new", "loaded", "handled", "saving", "answered"}, shape : Texts,
   named : Asks \cup {"none"}, session : Asks \cup {"none"}, turns : Histories,
   intent : Intents \cup {"none"}, data : BOOLEAN, key : DataKeys \cup {NoKey}]

\* A question that has arrived belongs to a conversation.
ConversationInv ==
  /\ ask \in [Asks -> AskStates]
  /\ document \in [Asks -> Histories]
  /\ valkeyOk \in BOOLEAN
  /\ \A a \in Asks : ask[a].step # "new" => ask[a].session \in Asks

LEMMA NotAskedTyped == NotAsked \in AskStates /\ NoShape \in Texts
<1>1. NoShape \in Texts
  BY DEF NoShape, Texts
<1>2. <<>> \in Histories
  BY ConversationAssumption DEF Histories
<1> QED
  BY <1>1, <1>2 DEF NotAsked, AskStates

\* Only the question of the step changes.
LEMMA OneQuestion ==
  ASSUME ConversationInv, NEW a \in Asks, NEW f \in AskStates,
         ask' = [ask EXCEPT ![a] = f], document' = document, valkeyOk' = valkeyOk,
         f.step # "new" => f.session \in Asks
  PROVE  ConversationInv'
<1>1. /\ ask' \in [Asks -> AskStates] /\ ask'[a] = f
      /\ \A b \in Asks \ {a} : ask'[b] = ask[b]
  BY DEF ConversationInv
<1> QED
  BY <1>1 DEF ConversationInv

\* What is written back is a history again.
LEMMA LastTyped ==
  ASSUME NEW t \in Histories, NEW turn \in Turns
  PROVE  /\ Last(Append(t, turn)) \in Histories
         /\ Last(Append(t, turn)) = IF Len(t) = MaxTurns THEN Tail(Append(t, turn))
                                                         ELSE Append(t, turn)
<1>1. /\ t \in Seq(Turns) /\ Len(t) \in Nat /\ Len(t) <= MaxTurns
      /\ Append(t, turn) \in Seq(Turns) /\ Len(Append(t, turn)) = Len(t) + 1
  BY DEF Histories
<1>2. Append(t, turn) # <<>>
  BY <1>1
<1>3. Tail(Append(t, turn)) \in Seq(Turns) /\ Len(Tail(Append(t, turn))) = Len(t)
  BY <1>1, <1>2
<1> QED
  BY <1>1, <1>3, ConversationAssumption DEF Last, Histories

LEMMA ConversationInvHolds == ConversationSpec => []ConversationInv
<1>1. ConversationInit => ConversationInv
  <2> SUFFICES ASSUME ConversationInit PROVE ConversationInv
    OBVIOUS
  <2>1. \A a \in Asks : ask[a].step = "new"
    BY DEF ConversationInit, NotAsked
  <2>2. <<>> \in Histories
    BY ConversationAssumption DEF Histories
  <2> QED
    BY <2>1, <2>2, NotAskedTyped DEF ConversationInit, ConversationInv
<1>2. ConversationInv /\ [ConversationNext]_conversationVars => ConversationInv'
  <2> SUFFICES ASSUME ConversationInv, [ConversationNext]_conversationVars
               PROVE  ConversationInv'
    OBVIOUS
  <2>1. CASE UNCHANGED conversationVars
    BY <2>1 DEF conversationVars, ConversationInv
  <2>2. CASE ValkeyTurns
    <3>1. <<>> \in Histories
      BY ConversationAssumption DEF Histories
    <3>2. ask' = ask /\ document' \in [Asks -> Histories] /\ valkeyOk' \in BOOLEAN
      <4>1. CASE valkeyOk' = ~valkeyOk /\ UNCHANGED document
        <5>1. valkeyOk' \in BOOLEAN
          BY <4>1, Zenon
        <5>2. ask' = ask /\ document' \in [Asks -> Histories]
          BY <2>2, <4>1 DEF ValkeyTurns, ConversationInv
        <5> QED
          BY <5>1, <5>2
      <4>2. ASSUME NEW c \in Asks, document' = [document EXCEPT ![c] = <<>>], UNCHANGED valkeyOk
            PROVE  ask' = ask /\ document' \in [Asks -> Histories] /\ valkeyOk' \in BOOLEAN
        BY <2>2, <3>1, <4>2 DEF ValkeyTurns, ConversationInv
      <4> QED
        BY <2>2, <4>1, <4>2 DEF ValkeyTurns
    <3> QED
      BY <3>2 DEF ConversationInv
  <2>3. ASSUME NEW a \in Asks, LoadDocument(a) PROVE ConversationInv'
    <3>1. PICK shape \in Shapes, c \in Open \cup {a} :
            LET session == IF ForwardsSession THEN c ELSE a
            IN  ask' = [ask EXCEPT
             ![a].step = IF shape.tier1 THEN "answered" ELSE "loaded",
             ![a].shape = IF shape.tier1 THEN NoShape ELSE shape,
             ![a].named = c,
             ![a].session = session,
             ![a].turns = IF valkeyOk /\ ~shape.tier1 THEN document[session] ELSE <<>>]
      BY <2>3 DEF LoadDocument
    <3>2. c \in Asks
      BY DEF Open, ConversationInv
    <3>3. PICK session \in Asks : session = IF ForwardsSession THEN c ELSE a
      BY <3>2
    <3>4. PICK step, text, turns :
            /\ step = IF shape.tier1 THEN "answered" ELSE "loaded"
            /\ text = IF shape.tier1 THEN NoShape ELSE shape
            /\ turns = IF valkeyOk /\ ~shape.tier1 THEN document[session] ELSE <<>>
      OBVIOUS
    <3>5. /\ step \in {"answered", "loaded"} /\ text \in Texts /\ turns \in Histories
      <4>1. shape \in Texts
        BY ConversationAssumption DEF Texts
      <4>2. <<>> \in Histories
        BY ConversationAssumption DEF Histories
      <4>3. document[session] \in Histories
        BY DEF ConversationInv
      <4> QED
        BY <3>4, <4>1, <4>2, <4>3, NotAskedTyped
    <3>6. PICK f : f = [ask[a] EXCEPT !.step = step, !.shape = text, !.named = c,
                                      !.session = session, !.turns = turns]
      OBVIOUS
    <3>7. ask' = [ask EXCEPT ![a] = f]
      BY <3>1, <3>3, <3>4, <3>6
    <3>8. ask[a] \in AskStates
      BY DEF ConversationInv
    <3>9. f \in AskStates /\ f.step # "new" /\ f.session \in Asks
      BY <3>2, <3>3, <3>5, <3>6, <3>8 DEF AskStates
    <3>10. document' = document /\ valkeyOk' = valkeyOk
      BY <2>3 DEF LoadDocument
    <3> QED
      BY <3>7, <3>9, <3>10, OneQuestion
  <2>4. ASSUME NEW a \in Asks, Handle(a) PROVE ConversationInv'
    <3>1. PICK i \in DecidedIntents(ask[a].shape, ask[a].turns), fails \in BOOLEAN :
            ask' = [ask EXCEPT ![a].step = "handled", ![a].intent = i,
              ![a].data = ~fails /\ ask[a].shape.large /\ i \in {"query", "diagnose", "status"}]
      BY <2>4 DEF Handle
    <3>2. /\ ask[a] \in AskStates /\ ask[a].session \in Asks
          /\ ask[a].shape \in Texts /\ ask[a].step = "loaded"
      BY <2>4 DEF Handle, ConversationInv, AskStates
    <3>3. i \in Intents
      BY <3>2, DecidedIntentsTyped DEF Texts
    <3>4. PICK data \in BOOLEAN :
            data = (~fails /\ ask[a].shape.large /\ i \in {"query", "diagnose", "status"})
      OBVIOUS
    <3>5. PICK f : f = [ask[a] EXCEPT !.step = "handled", !.intent = i, !.data = data]
      OBVIOUS
    <3>6. ask' = [ask EXCEPT ![a] = f]
      BY <3>1, <3>4, <3>5
    <3>7. f \in AskStates /\ f.session = ask[a].session
      BY <3>2, <3>3, <3>5 DEF AskStates
    <3>8. document' = document /\ valkeyOk' = valkeyOk
      BY <2>4 DEF Handle
    <3> QED
      BY <3>2, <3>6, <3>7, <3>8, OneQuestion
  <2>5. ASSUME NEW a \in Asks, SaveData(a) PROVE ConversationInv'
    <3>1. ask[a] \in AskStates /\ ask[a].session \in Asks
      BY <2>5 DEF SaveData, ConversationInv
    <3>2. PICK f : f = [ask[a] EXCEPT !.step = "saving", !.key = 2 * Len(ask[a].turns) + 1]
      OBVIOUS
    <3>3. Len(ask[a].turns) \in 0..MaxTurns
      BY <3>1, ConversationAssumption DEF AskStates, Histories
    <3>4. 2 * Len(ask[a].turns) + 1 \in DataKeys
      BY <3>3 DEF DataKeys
    <3>5. f \in AskStates /\ f.session \in Asks
      BY <3>1, <3>2, <3>4 DEF AskStates
    <3>6. ask' = [ask EXCEPT ![a] = f] /\ document' = document /\ valkeyOk' = valkeyOk
      BY <2>5, <3>2 DEF SaveData
    <3> QED
      BY <3>5, <3>6, OneQuestion
  <2>6. ASSUME NEW a \in Asks, SaveDocument(a) \/ SaveFails(a) PROVE ConversationInv'
    <3>1. ask[a] \in AskStates /\ ask[a].session \in Asks
      BY <2>6 DEF SaveDocument, SaveFails, ConversationInv
    <3>2. PICK f : f = Answered(a)
      OBVIOUS
    <3>3. f \in AskStates /\ f.step = "answered" /\ f.session \in Asks
      BY <3>1, <3>2, NotAskedTyped DEF Answered, NotAsked, AskStates
    <3>4. ask' = [ask EXCEPT ![a] = f] /\ valkeyOk' = valkeyOk
      BY <2>6, <3>2 DEF SaveDocument, SaveFails
    <3>5. /\ ask' \in [Asks -> AskStates] /\ ask'[a] = f
          /\ \A b \in Asks \ {a} : ask'[b] = ask[b]
      BY <3>3, <3>4 DEF ConversationInv
    <3>6. document' \in [Asks -> Histories]
      <4>1. Turn(a) \in Turns /\ ask[a].turns \in Histories
        BY <3>1 DEF Turn, Turns, AskStates
      <4>2. Last(Append(ask[a].turns, Turn(a))) \in Histories
        BY <4>1, LastTyped
      <4> QED
        BY <2>6, <4>2 DEF SaveDocument, SaveFails, ConversationInv
    <3> QED
      BY <3>3, <3>4, <3>5, <3>6 DEF ConversationInv
  <2> QED
    BY <2>1, <2>2, <2>3, <2>4, <2>5, <2>6 DEF ConversationNext, AskStep
<1> QED
  BY <1>1, <1>2, PTL DEF ConversationSpec

\* Every variable keeps its type, and no document outgrows MAX_TURNS, whatever
\* questions overlap (services/session_memory.py, save_session).
THEOREM ConversationTypeInvariant == ConversationSpec => []ConversationTypeOK
<1>1. ConversationInv => ConversationTypeOK
  BY DEF ConversationInv, ConversationTypeOK, AskStates, Histories
<1> QED
  BY <1>1, ConversationInvHolds, PTL

\* A save loses only the oldest turn of a full copy, and what was not in the
\* copy (services/session_memory.py, save_session).
THEOREM SavesKeepTheirCopy == ConversationSpec => SavesLoseOnlyRaces
<1>1. ASSUME ConversationInv, NEW a \in Asks, SaveDocument(a)
      PROVE  LET there == document[ask[a].session]
                 copy  == ask[a].turns
                 kept  == document'[ask[a].session]
             IN  /\ kept[Len(kept)] = Turn(a)
                 /\ \A k \in 1..Len(there) :
                      \/ \E j \in 1..Len(kept) : kept[j] = there[k]
                      \/ Len(copy) = MaxTurns /\ there[k] = copy[1]
                      \/ \A j \in 1..Len(copy) : copy[j] # there[k]
  <2> DEFINE there == document[ask[a].session]
             copy  == ask[a].turns
             kept  == document'[ask[a].session]
  <2>1. /\ ask[a].session \in Asks /\ copy \in Histories /\ Turn(a) \in Turns
    BY <1>1 DEF SaveDocument, ConversationInv, AskStates, Turn, Turns
  <2>2. kept = Last(Append(copy, Turn(a)))
    BY <1>1, <2>1 DEF SaveDocument, ConversationInv
  <2>3. kept = IF Len(copy) = MaxTurns THEN Tail(Append(copy, Turn(a))) ELSE Append(copy, Turn(a))
    BY <2>1, <2>2, LastTyped
  <2>4. copy \in Seq(Turns) /\ Len(copy) \in Nat
    BY <2>1 DEF Histories
  <2> HIDE DEF kept, copy, there
  <2>5. CASE Len(copy) = MaxTurns
    <3>1. /\ Len(kept) = Len(copy)
          /\ \A j \in 1..Len(kept) : kept[j] = Append(copy, Turn(a))[j + 1]
      BY <2>1, <2>3, <2>4, <2>5
    <3>2. kept[Len(kept)] = Turn(a)
      BY <2>1, <2>4, <2>5, <3>1, ConversationAssumption
    <3>3. ASSUME NEW k, NEW j \in 1..Len(copy), copy[j] = there[k], j # 1
          PROVE  \E l \in 1..Len(kept) : kept[l] = there[k]
      <4>1. j - 1 \in 1..Len(kept) /\ kept[j - 1] = copy[j]
        BY <2>1, <2>4, <3>1, <3>3
      <4> QED
        BY <3>3, <4>1
    <3> QED
      BY <2>5, <3>2, <3>3 DEF kept, copy, there
  <2>6. CASE Len(copy) # MaxTurns
    <3>1. /\ Len(kept) = Len(copy) + 1
          /\ kept[Len(kept)] = Turn(a)
          /\ \A j \in 1..Len(copy) : kept[j] = copy[j] /\ j \in 1..Len(kept)
      BY <2>1, <2>3, <2>4, <2>6
    <3> QED
      BY <3>1 DEF kept, copy, there
  <2> QED
    BY <2>5, <2>6
<1>2. ConversationInv /\ [ConversationNext]_conversationVars =>
        [\A a \in Asks : SaveDocument(a) =>
           LET there == document[ask[a].session]
               copy  == ask[a].turns
               kept  == document'[ask[a].session]
           IN  /\ kept[Len(kept)] = Turn(a)
               /\ \A k \in 1..Len(there) :
                    \/ \E j \in 1..Len(kept) : kept[j] = there[k]
                    \/ Len(copy) = MaxTurns /\ there[k] = copy[1]
                    \/ \A j \in 1..Len(copy) : copy[j] # there[k]]_conversationVars
  BY <1>1
<1> QED
  BY <1>2, ConversationInvHolds, PTL DEF ConversationSpec, SavesLoseOnlyRaces

-----------------------------------------------------------------------------
(* Agents.                                                                 *)

Steps == Waiting \cup {"idle", "done"}

QuestionStates ==
  [kind : Kinds \cup {"none"}, unclear : BOOLEAN, pc : Steps, calls : Nat, round : Nat,
   seen : SUBSET AutonomyLevels, level : Nat, auto : BOOLEAN, best : RawBranches,
   outcome : Outcomes \cup {"none"}]

\* What is earned by an outcome.
Earned(s) ==
  s.outcome \in {"recommended", "awaiting_approval", "executed"} =>
    /\ Merit(s.best) >= 500
    /\ s.outcome = "executed" => \E level \in s.seen : level >= 3
    /\ s.outcome = "awaiting_approval" => \E level \in s.seen : level >= 2

\* The call that classified the intent.
Before(s) == IF s.unclear THEN 1 ELSE 0

\* Every question knows from its round how many calls it has made at most; the
\* level it works with is one the instance had since it was asked, or 0.
Counted(s) ==
  /\ s.pc = "idle" => s.calls = 0
  /\ s.pc = "classify" => s.unclear /\ s.calls = 1
  /\ s.pc = "native" =>
       /\ s.kind \in {"tuning", "analyze"}
       /\ s.calls <= Before(s) + s.round + 1 /\ s.round <= MaxIterations
  /\ s.pc = "react" =>
       /\ s.kind \in {"tuning", "analyze"}
       /\ s.calls <= Before(s) + MaxIterations + 1 + s.round /\ s.round <= ReactLimit
  /\ s.pc = "synthesis" => s.kind \in {"tuning", "analyze"}
  /\ s.pc = "rca" =>
       s.kind = "rca" /\ s.calls <= Before(s) + s.round /\ s.round <= RcaAttempts
  /\ s.pc = "branches" =>
       /\ s.kind \in {"diagnose", "copilot"} /\ s.calls <= Before(s) + s.round
       /\ s.round <= IF s.kind = "diagnose" THEN MaxRetries + 1 ELSE 1
  /\ s.pc \in {"generate", "execute"} => s.kind = "nl2sql"
  /\ s.pc \in Waiting => s.level \in s.seen \cup {0}
  /\ s.calls <= CallLimit(s)
  /\ s.outcome # "none" => s.pc = "done"
  /\ Earned(s)

AssistantInv ==
  /\ usable \subseteq Providers /\ configured \in Providers
  /\ diagnosisLevel \in AutonomyLevels
  /\ question \in [Questions -> QuestionStates]
  /\ \A q \in Questions : Counted(question[q])

LEMMA LimitsAreNat ==
  /\ ReactLimit \in Nat \ {0}
  /\ \A kind \in Kinds : HandlerLimit(kind) \in Nat \ {0}
  /\ \A s \in QuestionStates : Before(s) \in {0, 1} /\ CallLimit(s) = HandlerLimit(s.kind) + Before(s)
<1>1. ReactLimit \in Nat \ {0}
  BY AssistantAssumption DEF ReactLimit
<1>2. \A kind \in Kinds : HandlerLimit(kind) \in Nat \ {0}
  BY <1>1, AssistantAssumption DEF HandlerLimit, Kinds
<1> QED
  BY <1>1, <1>2 DEF CallLimit, Before

\* The step of one question.
LEMMA OneReply ==
  ASSUME AssistantInv, NEW q \in Questions, NEW f \in QuestionStates, Counted(f),
         question' = [question EXCEPT ![q] = f], UNCHANGED Env
  PROVE  AssistantInv'
<1>1. /\ question' \in [Questions -> QuestionStates] /\ question'[q] = f
      /\ \A r \in Questions \ {q} : question'[r] = question[r]
  BY DEF AssistantInv
<1>2. \A r \in Questions : Counted(question'[r])
  BY <1>1 DEF AssistantInv
<1>3. Counted(question[q])'  <=> Counted(question'[q])
  BY DEF Counted, Earned, Before, CallLimit, HandlerLimit, ReactLimit
<1> QED
  BY <1>1, <1>2 DEF AssistantInv, Env, Counted, Earned

\* A question that is answered, and has not been diagnosed.
LEMMA FinishKeepsInv ==
  ASSUME AssistantInv, NEW q \in Questions, question[q].pc \in Waiting,
         NEW outcome \in Outcomes \ {"recommended", "awaiting_approval", "executed"},
         Finish(q, outcome), UNCHANGED Env
  PROVE  AssistantInv'
<1>1. question[q] \in QuestionStates /\ Counted(question[q]) /\ question[q].pc # "idle"
  BY DEF AssistantInv, Waiting
<1>2. PICK f : f = [question[q] EXCEPT !.pc = "done", !.outcome = outcome]
  OBVIOUS
<1>3. /\ f \in QuestionStates /\ f.pc = "done" /\ f.outcome = outcome
      /\ f.kind = question[q].kind /\ f.calls = question[q].calls
      /\ f.unclear = question[q].unclear
  BY <1>1, <1>2 DEF QuestionStates, Steps
<1>4. Counted(f)
  BY <1>1, <1>3 DEF Counted, Earned, Waiting, CallLimit
<1>5. question' = [question EXCEPT ![q] = f]
  BY <1>2 DEF Finish
<1> QED
  BY <1>3, <1>4, <1>5, OneReply

\* What question q is once its next call is sent.
Recalled(f, q, next, round) ==
  /\ f.pc = next /\ f.round = round /\ f.calls = question[q].calls + 1
  /\ f.kind = question[q].kind /\ f.unclear = question[q].unclear
  /\ f.level = question[q].level /\ f.seen = question[q].seen
  /\ f.outcome = question[q].outcome

\* A question whose next call is sent: one more, in a round that still counts
\* it.
LEMMA CallKeepsInv ==
  ASSUME AssistantInv, NEW q \in Questions, question[q].pc \in Waiting,
         NEW next \in Waiting, NEW round \in Nat, Call(q, next, round), UNCHANGED Env,
         \A f \in QuestionStates : Recalled(f, q, next, round) => Counted(f)
  PROVE  AssistantInv'
<1>1. question[q] \in QuestionStates
  BY DEF AssistantInv
<1>2. PICK f : f = [question[q] EXCEPT !.pc = next, !.round = round, !.calls = @ + 1]
  OBVIOUS
<1>3. f \in QuestionStates /\ Recalled(f, q, next, round)
  <2>1. question[q].calls + 1 \in Nat /\ next \in Steps
    BY <1>1 DEF QuestionStates, Steps
  <2>2. f \in QuestionStates
    BY <1>1, <1>2, <2>1 DEF QuestionStates
  <2>3. Recalled(f, q, next, round)
    BY <1>1, <1>2 DEF QuestionStates, Recalled
  <2> QED
    BY <2>2, <2>3
<1>4. question' = [question EXCEPT ![q] = f]
  BY <1>2 DEF Call
<1> QED
  BY <1>3, <1>4, OneReply

\* A diagnosis whose scores suffice rests on scores the model has given, since
\* those that were left out are 0; what the code makes up when the call fails
\* never suffices.
LEMMA MeritSuffices ==
  ASSUME NEW b \in RawBranches
  PROVE  FinalScore(Filled(b)) >= 500 => Merit(b) >= 500
<1>1. PICK given \in SUBSET ScoreKeys : b \in [given -> 0..10]
  BY DEF RawBranches
<1>2. \A key \in DOMAIN b : b[key] \in Nat
  BY <1>1
<1> DEFINE v(key) == IF key \in DOMAIN b THEN b[key] ELSE 0
<1>3. \A key : v(key) \in Nat
  BY <1>2
<1>4. /\ Filled(b).relevance = v("relevance") /\ Filled(b).evidence = v("evidence")
      /\ Filled(b).action = v("action") /\ Filled(b).risk = v("risk")
  BY DEF Filled, ScoreKeys
<1>5. Merit(b) = 40 * v("relevance") + 30 * v("evidence") + 30 * v("action") - 100 * v("risk")
  BY DEF Merit
<1>6. v("relevance") \in Nat /\ v("evidence") \in Nat /\ v("action") \in Nat /\ v("risk") \in Nat
  BY <1>3
<1> HIDE DEF v
<1> QED
  BY <1>4, <1>5, <1>6 DEF FinalScore

LEMMA FilledTyped == \A b \in RawBranches : FinalScore(Filled(b)) \in Int
<1> SUFFICES ASSUME NEW b \in RawBranches PROVE FinalScore(Filled(b)) \in Int
  OBVIOUS
<1>1. PICK given \in SUBSET ScoreKeys : b \in [given -> 0..10]
  BY DEF RawBranches
<1>2. \A key \in ScoreKeys : Filled(b)[key] \in Nat
  BY <1>1 DEF Filled
<1>3. /\ Filled(b).relevance \in Nat /\ Filled(b).evidence \in Nat
      /\ Filled(b).action \in Nat /\ Filled(b).risk \in Nat
  BY <1>2 DEF ScoreKeys
<1> QED
  BY <1>3 DEF FinalScore

LEMMA MadeUpFails == FinalScore(ErrorScores) = 100 /\ FinalScore(ParseScores) = 200
BY DEF FinalScore, ErrorScores, ParseScores

\* A status is earned by the level that was read.
LEMMA StatusNeedsLevel ==
  ASSUME NEW confidence \in Int, NEW level \in Nat, NEW auto
  PROVE  /\ ExecutionStatus(confidence, level, auto) \in
              {"blocked", "recommended", "awaiting_approval", "executed"}
         /\ ExecutionStatus(confidence, level, auto) # "blocked" => confidence >= 500
         /\ ExecutionStatus(confidence, level, auto) = "executed" => level >= 3
         /\ ExecutionStatus(confidence, level, auto) = "awaiting_approval" => level >= 2
BY DEF ExecutionStatus

LEMMA DiagnosedKeepsInv ==
  ASSUME AssistantInv, NEW q \in Questions, question[q].pc = "branches",
         NEW best \in RawBranches, NEW scores, FinalScore(scores) \in Int,
         FinalScore(scores) >= 500 => Merit(best) >= 500,
         Diagnosed(q, best, scores), UNCHANGED Env
  PROVE  AssistantInv'
<1>1. /\ question[q] \in QuestionStates /\ Counted(question[q])
      /\ question[q].level \in Nat
  BY DEF AssistantInv, QuestionStates
<1>2. PICK outcome :
        outcome = ExecutionStatus(FinalScore(scores), question[q].level, question[q].auto)
  OBVIOUS
<1>3. /\ outcome \in Outcomes
      /\ outcome = "executed" => question[q].level >= 3
      /\ outcome = "awaiting_approval" => question[q].level >= 2
      /\ outcome # "blocked" => Merit(best) >= 500
  BY <1>1, <1>2, StatusNeedsLevel DEF Outcomes
<1>4. PICK f : f = [question[q] EXCEPT !.pc = "done", !.best = best, !.outcome = outcome]
  OBVIOUS
<1>5. /\ f \in QuestionStates /\ f.pc = "done" /\ f.outcome = outcome /\ f.best = best
      /\ f.kind = question[q].kind /\ f.calls = question[q].calls
      /\ f.seen = question[q].seen /\ f.unclear = question[q].unclear
  BY <1>1, <1>3, <1>4 DEF QuestionStates, Steps
<1>6. question[q].level \in question[q].seen \cup {0}
  BY <1>1 DEF Counted, Waiting
<1>7. Earned(f)
  BY <1>1, <1>3, <1>5, <1>6 DEF Earned
<1>8. Counted(f)
  BY <1>1, <1>5, <1>7 DEF Counted, Waiting, CallLimit
<1>9. question' = [question EXCEPT ![q] = f]
  BY <1>2, <1>4 DEF Diagnosed
<1> QED
  BY <1>5, <1>8, <1>9, OneReply

LEMMA NotPutTyped == NotPut \in QuestionStates /\ Counted(NotPut)
<1>1. NoBranch \in RawBranches
  <2>1. NoBranch \in [{} -> 0..10]
    BY DEF NoBranch
  <2> QED
    BY <2>1 DEF RawBranches
<1>2. NotPut \in QuestionStates
  BY <1>1 DEF NotPut, QuestionStates, Steps
<1>3. Counted(NotPut)
  BY DEF NotPut, Counted, Earned, Waiting, CallLimit, HandlerLimit
<1> QED
  BY <1>2, <1>3

\* A handler begins: its first call is sent, or there is no model for it.
LEMMA BegunCounted ==
  ASSUME NEW kind \in Kinds, NEW s \in QuestionStates,
         s.calls <= Before(s), s.outcome = "none", s.level \in s.seen \cup {0}
  PROVE  /\ Begun(s, kind) \in QuestionStates /\ Counted(Begun(s, kind))
         /\ Begun(s, kind).pc # "idle"
<1> DEFINE first == FirstCall(kind)
<1>1. PICK round : round = IF first = "native" THEN 0 ELSE 1
  OBVIOUS
<1>2. /\ first = "native" \/ first = "react" => kind \in {"tuning", "analyze"}
      /\ first \in {"native", "react", "branches", "rca", "generate"}
      /\ first = "branches" => kind \in {"diagnose", "copilot"}
      /\ first = "rca" => kind = "rca"
      /\ first = "generate" => kind = "nl2sql"
  BY DEF FirstCall, Kinds
<1>3. Begun(s, kind) =
        IF first # "native" /\ GetLlm = NoProvider
        THEN [s EXCEPT !.kind = kind, !.pc = "done", !.outcome = "unavailable"]
        ELSE [s EXCEPT !.kind = kind, !.pc = first, !.round = round, !.calls = @ + 1]
  BY <1>1 DEF Begun
<1> HIDE DEF first
<1>4. /\ HandlerLimit(kind) \in Nat \ {0} /\ Before(s) \in {0, 1}
      /\ MaxIterations \in Nat \ {0} /\ RcaAttempts \in Nat \ {0} /\ MaxRetries \in Nat
      /\ ReactLimit \in Nat \ {0}
  BY AssistantAssumption, LimitsAreNat
<1>5. CASE first # "native" /\ GetLlm = NoProvider
  <2>1. PICK f : f = [s EXCEPT !.kind = kind, !.pc = "done", !.outcome = "unavailable"]
    OBVIOUS
  <2>2. /\ f \in QuestionStates /\ f.pc = "done" /\ f.outcome = "unavailable"
        /\ f.kind = kind /\ f.calls = s.calls /\ f.unclear = s.unclear
    BY <2>1 DEF QuestionStates, Steps, Outcomes
  <2>3. f.calls <= CallLimit(f)
    BY <1>4, <2>2 DEF CallLimit, Before, QuestionStates
  <2>4. Counted(f)
    BY <2>2, <2>3 DEF Counted, Earned, Waiting
  <2> QED
    BY <1>3, <1>5, <2>1, <2>2, <2>4
<1>6. CASE ~(first # "native" /\ GetLlm = NoProvider)
  <2>1. PICK calls \in Nat : calls = s.calls + 1 /\ calls <= Before(s) + 1
    BY <1>4 DEF QuestionStates
  <2>2. first \in Steps /\ first \in Waiting /\ first \notin {"classify", "execute", "synthesis"}
    BY <1>2 DEF Waiting, Steps
  <2>3. PICK f : f = [s EXCEPT !.kind = kind, !.pc = first, !.round = round, !.calls = calls]
    OBVIOUS
  <2>4. f \in QuestionStates
    BY <1>1, <2>2, <2>3 DEF QuestionStates
  <2>5. /\ f.pc = first /\ f.outcome = "none" /\ f.kind = kind
        /\ f.calls = calls /\ f.round = round /\ f.level = s.level
        /\ f.seen = s.seen /\ f.unclear = s.unclear
    BY <2>3 DEF QuestionStates
  <2>6. Before(f) = Before(s)
    BY <2>5 DEF Before
  <2>7. f.calls <= CallLimit(f)
    BY <1>4, <2>1, <2>5, <2>6 DEF CallLimit, Before
  <2>8. f.level \in f.seen \cup {0} /\ Earned(f)
    BY <2>5 DEF Earned
  <2>9. /\ first = "native" => f.calls <= Before(f) + f.round + 1 /\ f.round <= MaxIterations
        /\ first = "react" => /\ f.calls <= Before(f) + MaxIterations + 1 + f.round
                              /\ f.round <= ReactLimit
        /\ first = "rca" => f.calls <= Before(f) + f.round /\ f.round <= RcaAttempts
        /\ first = "branches" => /\ f.calls <= Before(f) + f.round
                                 /\ f.round <= 1 /\ f.round <= MaxRetries + 1
    BY <1>1, <1>4, <2>1, <2>5, <2>6
  <2>10. Counted(f)
    BY <1>2, <2>2, <2>5, <2>7, <2>8, <2>9 DEF Counted
  <2>11. Begun(s, kind) = f
    BY <1>3, <1>6, <2>1, <2>3
  <2> QED
    BY <2>2, <2>4, <2>5, <2>10, <2>11 DEF Waiting
<1> QED
  BY <1>5, <1>6

\* A question arrives, with a clear intent or an unclear one.
LEMMA AskKeepsInv ==
  ASSUME AssistantInv, NEW q \in Questions,
         (\E kind \in Kinds, auto \in BOOLEAN : Ask(q, kind, auto)) \/ AskUnclear(q)
  PROVE  AssistantInv'
<1>1. /\ NotPut \in QuestionStates /\ NotPut.calls = 0 /\ NotPut.outcome = "none"
      /\ NotPut.unclear = FALSE
  BY NotPutTyped DEF NotPut
<1>2. {diagnosisLevel} \in SUBSET AutonomyLevels /\ diagnosisLevel \in Nat
  BY AssistantAssumption DEF AssistantInv
<1>3. ASSUME NEW kind \in Kinds, NEW auto \in BOOLEAN, Ask(q, kind, auto)
      PROVE  AssistantInv'
  <2>1. PICK level, yes : /\ level = IF kind = "copilot" THEN diagnosisLevel ELSE 0
                          /\ yes = (kind = "copilot" /\ auto)
    OBVIOUS
  <2>2. level \in Nat /\ yes \in BOOLEAN /\ level \in {diagnosisLevel} \cup {0}
    BY <1>2, <2>1
  <2>3. PICK asked : asked = [NotPut EXCEPT !.seen = {diagnosisLevel}, !.level = level, !.auto = yes]
    OBVIOUS
  <2>4. /\ asked \in QuestionStates /\ asked.calls = 0 /\ asked.outcome = "none"
        /\ asked.unclear = FALSE /\ asked.level \in asked.seen \cup {0}
    BY <1>1, <1>2, <2>2, <2>3 DEF QuestionStates
  <2>5. asked.calls <= Before(asked)
    BY <2>4 DEF Before
  <2>6. question' = [question EXCEPT ![q] = Begun(asked, kind)] /\ UNCHANGED Env
    BY <1>3, <2>1, <2>3 DEF Ask
  <2> QED
    BY <2>4, <2>5, <2>6, BegunCounted, OneReply
<1>4. CASE AskUnclear(q)
  <2>1. PICK asked : asked = [NotPut EXCEPT !.seen = {diagnosisLevel}, !.unclear = TRUE]
    OBVIOUS
  <2>2. /\ asked \in QuestionStates /\ asked.calls = 0 /\ asked.outcome = "none"
        /\ asked.kind = "none" /\ asked.unclear = TRUE /\ asked.level = 0
    BY <1>1, <1>2, <2>1 DEF QuestionStates, NotPut
  <2>3. UNCHANGED Env
    BY <1>4 DEF AskUnclear
  <2>4. CASE GetLlm = NoProvider
    <3>1. "analyze" \in Kinds /\ asked.calls <= Before(asked) /\ asked.level \in asked.seen \cup {0}
      BY <2>2 DEF Before, Kinds
    <3>2. question' = [question EXCEPT ![q] = Begun(asked, "analyze")]
      BY <1>4, <2>1, <2>4 DEF AskUnclear
    <3> QED
      BY <2>2, <2>3, <3>1, <3>2, BegunCounted, OneReply
  <2>5. CASE GetLlm # NoProvider
    <3>1. PICK f : f = [asked EXCEPT !.pc = "classify", !.calls = 1]
      OBVIOUS
    <3>2. /\ f \in QuestionStates /\ f.pc = "classify" /\ f.calls = 1 /\ f.unclear = TRUE
          /\ f.kind = "none" /\ f.outcome = "none" /\ f.level = 0
      BY <2>2, <3>1 DEF QuestionStates, Steps, Waiting
    <3>3. CallLimit(f) = 1
      BY <3>2 DEF CallLimit, HandlerLimit
    <3>4. Counted(f)
      BY <3>2, <3>3 DEF Counted, Earned
    <3>5. question' = [question EXCEPT ![q] = f]
      BY <1>4, <2>1, <2>5, <3>1 DEF AskUnclear
    <3> QED
      BY <2>3, <3>2, <3>4, <3>5, OneReply
  <2> QED
    BY <2>4, <2>5
<1> QED
  BY <1>3, <1>4

LEMMA ReplyKeepsInv ==
  ASSUME AssistantInv, NEW q \in Questions, Replied(q)
  PROVE  AssistantInv'
<1> DEFINE s == question[q]
<1>1. /\ s \in QuestionStates /\ Counted(s) /\ s.calls \in Nat /\ s.round \in Nat
      /\ s.pc # "done" => s.outcome = "none"
  BY DEF AssistantInv, QuestionStates, Counted
<1>2. /\ MaxIterations \in Nat \ {0} /\ RcaAttempts \in Nat \ {0} /\ MaxRetries \in Nat
      /\ ReactLimit \in Nat \ {0}
  BY AssistantAssumption, LimitsAreNat
<1>3. ASSUME NEW stop \in {"tool_use", "end_turn", "no_text"}, NativeReply(q, stop)
      PROVE  AssistantInv'
  <2>1. s.pc = "native" /\ UNCHANGED Env
    BY <1>3 DEF NativeReply
  <2>2. CASE Call(q, "native", s.round + 1) /\ s.round < MaxIterations
    <3>1. ASSUME NEW f \in QuestionStates, Recalled(f, q, "native", s.round + 1)
          PROVE  Counted(f)
      BY <1>1, <1>2, <2>1, <2>2, <3>1 DEF Counted, Earned, Waiting, CallLimit, HandlerLimit, Before, Recalled
    <3> QED
      BY <1>1, <2>1, <2>2, <3>1, CallKeepsInv DEF Waiting
  <2>3. CASE \E outcome \in {"text", "empty"} : Finish(q, outcome)
    BY <2>1, <2>3, FinishKeepsInv DEF Waiting, Outcomes
  <2> QED
    BY <1>3, <2>2, <2>3 DEF NativeReply, MoreTools
<1>4. ASSUME NativeFails(q) PROVE AssistantInv'
  <2>1. s.pc = "native" /\ UNCHANGED Env
    BY <1>4 DEF NativeFails
  <2>2. CASE Call(q, "react", 1)
    <3>1. ASSUME NEW f \in QuestionStates, Recalled(f, q, "react", 1)
          PROVE  Counted(f)
      BY <1>1, <1>2, <2>1, <3>1 DEF Counted, Earned, Waiting, CallLimit, HandlerLimit, Before, Recalled
    <3> QED
      BY <2>1, <2>2, <3>1, CallKeepsInv DEF Waiting
  <2>3. CASE Finish(q, "error")
    BY <2>1, <2>3, FinishKeepsInv DEF Waiting, Outcomes
  <2> QED
    BY <1>4, <2>2, <2>3 DEF NativeFails
<1>5. ASSUME NEW final \in BOOLEAN, ReactReply(q, final) PROVE AssistantInv'
  <2>1. s.pc = "react" /\ UNCHANGED Env
    BY <1>5 DEF ReactReply
  <2>2. CASE Finish(q, "text")
    BY <2>1, <2>2, FinishKeepsInv DEF Waiting, Outcomes
  <2>3. CASE Call(q, "react", s.round + 1) /\ s.round < ReactLimit
    <3>1. ASSUME NEW f \in QuestionStates, Recalled(f, q, "react", s.round + 1)
          PROVE  Counted(f)
      BY <1>1, <1>2, <2>1, <2>3, <3>1 DEF Counted, Earned, Waiting, CallLimit, HandlerLimit, Before, Recalled
    <3> QED
      BY <1>1, <2>1, <2>3, <3>1, CallKeepsInv DEF Waiting
  <2>4. CASE Call(q, "synthesis", s.round)
    <3>1. ASSUME NEW f \in QuestionStates, Recalled(f, q, "synthesis", s.round)
          PROVE  Counted(f)
      BY <1>1, <1>2, <2>1, <3>1 DEF Counted, Earned, Waiting, CallLimit, HandlerLimit, Before, Recalled
    <3> QED
      BY <1>1, <2>1, <2>4, <3>1, CallKeepsInv DEF Waiting
  <2> QED
    BY <1>5, <2>2, <2>3, <2>4 DEF ReactReply
<1>6. ASSUME \/ ReactFails(q) \/ \E ok \in BOOLEAN : Synthesised(q, ok) \/ ExecuteSql(q, ok)
      PROVE  AssistantInv'
  <2>1. s.pc \in {"react", "synthesis", "execute"} /\ UNCHANGED Env
    BY <1>6 DEF ReactFails, Synthesised, ExecuteSql
  <2>2. PICK outcome \in {"failure_text", "text", "summary", "rows", "not_executable"} :
          Finish(q, outcome)
    BY <1>6 DEF ReactFails, Synthesised, ExecuteSql
  <2> QED
    BY <2>1, <2>2, FinishKeepsInv DEF Waiting, Outcomes
<1>7. ASSUME RcaReply(q) PROVE AssistantInv'
  <2>1. s.pc = "rca" /\ UNCHANGED Env
    BY <1>7 DEF RcaReply
  <2>2. CASE \E outcome \in {"prediction", "error", "fallback"} : Finish(q, outcome)
    BY <2>1, <2>2, FinishKeepsInv DEF Waiting, Outcomes
  <2>3. CASE Call(q, "rca", s.round + 1) /\ s.round < RcaAttempts
    <3>1. ASSUME NEW f \in QuestionStates, Recalled(f, q, "rca", s.round + 1)
          PROVE  Counted(f)
      BY <1>1, <1>2, <2>1, <2>3, <3>1 DEF Counted, Earned, Waiting, CallLimit, HandlerLimit, Before, Recalled
    <3> QED
      BY <1>1, <2>1, <2>3, <3>1, CallKeepsInv DEF Waiting
  <2> QED
    BY <1>7, <2>2, <2>3 DEF RcaReply, NextAttempt
<1>8. ASSUME BranchReply(q) PROVE AssistantInv'
  <2>1. s.pc = "branches" /\ UNCHANGED Env
    BY <1>8 DEF BranchReply
  <2>2. ASSUME NEW branches \in BranchAnswers, NEW best \in branches,
               Diagnosed(q, best, Filled(best))
        PROVE  AssistantInv'
    <3>1. best \in RawBranches
      BY AssistantAssumption
    <3>2. FinalScore(Filled(best)) >= 500 => Merit(best) >= 500
      BY <3>1, MeritSuffices
    <3> QED
      BY <2>1, <2>2, <3>1, <3>2, FilledTyped, DiagnosedKeepsInv
  <2>3. CASE Diagnosed(q, NoBranch, ParseScores) \/ Diagnosed(q, NoBranch, ErrorScores)
    <3>1. NoBranch \in RawBranches
      BY NotPutTyped DEF NotPut, QuestionStates
    <3> QED
      BY <2>1, <2>3, <3>1, MadeUpFails, DiagnosedKeepsInv
  <2>4. CASE Call(q, "branches", s.round + 1) /\ s.kind = "diagnose" /\ s.round <= MaxRetries
    <3>1. ASSUME NEW f \in QuestionStates, Recalled(f, q, "branches", s.round + 1)
          PROVE  Counted(f)
      BY <1>1, <1>2, <2>1, <2>4, <3>1 DEF Counted, Earned, Waiting, CallLimit, HandlerLimit, Before, Recalled
    <3> QED
      BY <1>1, <2>1, <2>4, <3>1, CallKeepsInv DEF Waiting
  <2>5. CASE Finish(q, "error")
    BY <2>1, <2>5, FinishKeepsInv DEF Waiting, Outcomes
  <2> QED
    BY <1>8, <2>2, <2>3, <2>4, <2>5 DEF BranchReply
<1>9. ASSUME GenerateReply(q) PROVE AssistantInv'
  <2>1. s.pc = "generate" /\ UNCHANGED Env
    BY <1>9 DEF GenerateReply
  <2>2. CASE question' = [question EXCEPT ![q].pc = "execute"]
    <3>1. PICK f : f = [s EXCEPT !.pc = "execute"]
      OBVIOUS
    <3>2. /\ f \in QuestionStates /\ f.pc = "execute" /\ f.kind = s.kind /\ f.calls = s.calls
          /\ f.level = s.level /\ f.seen = s.seen /\ f.outcome = s.outcome
          /\ f.unclear = s.unclear /\ f.best = s.best
      BY <1>1, <3>1 DEF QuestionStates, Steps, Waiting
    <3>3. Counted(f)
      BY <1>1, <2>1, <3>2 DEF Counted, Earned, Waiting, CallLimit
    <3> QED
      BY <2>1, <2>2, <3>1, <3>2, <3>3, OneReply
  <2>3. CASE \E outcome \in {"rejected", "unavailable"} : Finish(q, outcome)
    BY <2>1, <2>3, FinishKeepsInv DEF Waiting, Outcomes
  <2> QED
    BY <1>9, <2>2, <2>3 DEF GenerateReply
<1>10. ASSUME NEW intent \in DOMAIN HandlerOf \cup {"execute", "status"}, Classified(q, intent)
       PROVE  AssistantInv'
  <2>1. s.pc = "classify" /\ UNCHANGED Env
    BY <1>10 DEF Classified
  <2>2. CASE intent \in DOMAIN HandlerOf
    <3>1. HandlerOf[intent] \in Kinds
      BY <2>2 DEF HandlerOf, Kinds
    <3>2. s.calls <= Before(s) /\ s.level \in s.seen \cup {0} /\ s.outcome = "none"
      BY <1>1, <2>1 DEF Counted, Before, Waiting
    <3>3. question' = [question EXCEPT ![q] = Begun(s, HandlerOf[intent])]
      BY <1>10, <2>2 DEF Classified
    <3> QED
      BY <1>1, <2>1, <3>1, <3>2, <3>3, BegunCounted, OneReply
  <2>3. CASE Finish(q, "routed")
    BY <2>1, <2>3, FinishKeepsInv DEF Waiting, Outcomes
  <2> QED
    BY <1>10, <2>2, <2>3 DEF Classified
<1> QED
  BY <1>3, <1>4, <1>5, <1>6, <1>7, <1>8, <1>9, <1>10 DEF Replied

LEMMA AssistantInvHolds == AssistantSpec => []AssistantInv
<1>1. AssistantInit => AssistantInv
  <2> SUFFICES ASSUME AssistantInit PROVE AssistantInv
    OBVIOUS
  <2> QED
    BY NotPutTyped DEF AssistantInit, AssistantInv
<1>2. AssistantInv /\ [AssistantNext]_assistantVars => AssistantInv'
  <2> SUFFICES ASSUME AssistantInv, [AssistantNext]_assistantVars PROVE AssistantInv'
    OBVIOUS
  <2>1. ASSUME NEW now \in SUBSET Providers, NEW provider \in Providers,
               ProvidersChange(now, provider)
        PROVE  AssistantInv'
    BY <2>1 DEF ProvidersChange, AssistantInv, Counted, Earned
  <2>2. ASSUME NEW level \in AutonomyLevels, LevelChanges(level) PROVE AssistantInv'
    <3>1. ASSUME NEW q \in Questions
          PROVE  question'[q] \in QuestionStates /\ Counted(question'[q])
      <4>1. question[q] \in QuestionStates /\ Counted(question[q])
        BY DEF AssistantInv
      <4>2. PICK seen : seen = IF question[q].pc \in Waiting THEN question[q].seen \cup {level}
                                                             ELSE question[q].seen
        OBVIOUS
      <4>3. seen \in SUBSET AutonomyLevels /\ question[q].seen \subseteq seen
        BY <4>1, <4>2 DEF QuestionStates
      <4>4. question'[q] = [question[q] EXCEPT !.seen = seen]
        BY <2>2, <4>2 DEF LevelChanges
      <4>5. /\ question'[q] \in QuestionStates
            /\ question'[q].pc = question[q].pc /\ question'[q].kind = question[q].kind
            /\ question'[q].calls = question[q].calls /\ question'[q].round = question[q].round
            /\ question'[q].level = question[q].level /\ question'[q].best = question[q].best
            /\ question'[q].outcome = question[q].outcome /\ question'[q].seen = seen
            /\ question'[q].unclear = question[q].unclear
        BY <4>1, <4>3, <4>4 DEF QuestionStates
      <4> QED
        BY <4>1, <4>3, <4>5 DEF Counted, Earned, Before, CallLimit
    <3>2. question' \in [Questions -> QuestionStates]
      BY <2>2, <3>1 DEF LevelChanges
    <3>3. (\A q \in Questions : Counted(question[q]))'
      BY <3>1 DEF Counted, Earned, Before, CallLimit, HandlerLimit, ReactLimit
    <3> QED
      BY <2>2, <3>2, <3>3 DEF LevelChanges, AssistantInv
  <2>3. CASE UNCHANGED assistantVars
    BY <2>3 DEF assistantVars, AssistantInv, Counted, Earned
  <2> QED
    BY <2>1, <2>2, <2>3, AskKeepsInv, ReplyKeepsInv DEF AssistantNext
<1> QED
  BY <1>1, <1>2, PTL DEF AssistantSpec

\* Every variable keeps its type, whatever the models answer and whichever of
\* them can be reached.
THEOREM AssistantTypeInvariant == AssistantSpec => []AssistantTypeOK
<1>1. AssistantInv => AssistantTypeOK
  BY DEF AssistantInv, AssistantTypeOK, QuestionStates, Steps
<1> QED
  BY <1>1, AssistantInvHolds, PTL

\* No sequence of replies makes a question cost more calls of the model than
\* the bounds of its loops add up to, the one that classifies its intent
\* counted (agents/dba_agent.py, agents/native_tool_agent.py,
\* agents/tuning_agent.py, services/mtl_lite.py, agents/llm_retry.py).
THEOREM CallsStayBounded == AssistantSpec => []CallsBounded
<1>1. AssistantInv => CallsBounded
  BY DEF AssistantInv, Counted, CallsBounded
<1> QED
  BY <1>1, AssistantInvHolds, PTL

\* A diagnosis is recommended, put up for approval or executed only if the
\* scores the model gave to one branch suffice without those the code fills in,
\* and at a level the instance had during the call (agents/copilot_agent.py).
THEOREM StatusIsEarned == AssistantSpec => []DiagnosisEarnsStatus
<1>1. AssistantInv => DiagnosisEarnsStatus
  BY DEF AssistantInv, Counted, Earned, DiagnosisEarnsStatus
<1> QED
  BY <1>1, AssistantInvHolds, PTL
=============================================================================
