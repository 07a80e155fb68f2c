--------------------------- MODULE DbaConversation ---------------------------
(***************************************************************************)
(* Questions to the DBA agent (agents/dba_agent.py) and the memory of a    *)
(* conversation (services/session_memory.py): the session document and the *)
(* large results of single turns are keys of Valkey.  A question loads the *)
(* document, decides an intent by keywords, by the flow of the             *)
(* conversation or by asking the model, runs a handler, and writes the     *)
(* document back as it loaded it, with its own turn appended.              *)
(*                                                                         *)
(* A conversation is named by the question that opened it.  A text is its  *)
(* shape: whether it is small talk, how many keywords of each intent it    *)
(* has, and whether its answer comes with large data.                      *)
(***************************************************************************)
EXTENDS FiniteSets, Naturals, Sequences

CONSTANTS
  Asks,              \* questions
  Shapes,            \* their texts: [tier1, score, large]
  ForwardsSession,   \* the caller hands on the session a user names: ask() takes
                     \* one, and none of its three callers passes it
  MaxTurns           \* turns the document keeps (MAX_TURNS counts entries)

VARIABLES
  ask,         \* Asks -> the state of the question
  document,    \* Asks -> the document of the conversation it opened
  valkeyOk     \* Valkey answers

conversationVars == <<ask, document, valkeyOk>>

Intents == {"analyze", "diagnose", "execute", "query", "status"}
IntentOrder == <<"analyze", "diagnose", "execute", "query", "status">>

\* The key of a turn's data: "turn_" and a number of entries, or none.
NoKey == 0
DataKeys == {2 * n + 1 : n \in 0..MaxTurns}

ASSUME ConversationAssumption ==
  /\ MaxTurns \in Nat \ {0}
  /\ Shapes \subseteq [tier1 : BOOLEAN, score : [Intents -> Nat], large : BOOLEAN]

-----------------------------------------------------------------------------
(* Intents                                                                 *)

\* The intent with most keywords, the first of them in the order of the
\* table; without any keyword it is "analyze".
TopIntent(score) ==
  IF \A i \in Intents : score[i] = 0 THEN "analyze"
  ELSE IntentOrder[CHOOSE k \in 1..5 :
         /\ \A j \in 1..5 : score[IntentOrder[j]] <= score[IntentOrder[k]]
         /\ \A j \in 1..(k - 1) : score[IntentOrder[j]] < score[IntentOrder[k]]]

\* The only intent with keywords, or two keywords ahead of every other.
Confident(score) ==
  /\ \E i \in Intents : score[i] > 0
  /\ \A i \in Intents \ {TopIntent(score)} : score[i] = 0 \/ score[i] + 2 <= score[TopIntent(score)]

\* The flow of the conversation decides what the keywords leave open: after
\* "execute" it is "analyze" and after "query" again "query"; after "analyze",
\* as after the others, the keyword stands.
FlowIntent(turns, keyword) ==
  IF turns = <<>> THEN keyword
  ELSE CASE turns[Len(turns)].intent = "execute" -> "analyze"
         [] turns[Len(turns)].intent = "query" -> "query"
         [] OTHER -> keyword

\* The model is asked when neither keywords nor flow have decided.
AsksModel(shape, turns) ==
  /\ ~Confident(shape.score)
  /\ FlowIntent(turns, TopIntent(shape.score)) = TopIntent(shape.score)

\* The intents a question may get: what the model answers is one of them, and
\* if it fails "analyze".
DecidedIntents(shape, turns) ==
  IF AsksModel(shape, turns) THEN Intents
  ELSE IF Confident(shape.score) THEN {TopIntent(shape.score)}
  ELSE {FlowIntent(turns, TopIntent(shape.score))}

-----------------------------------------------------------------------------
NoShape == [tier1 |-> FALSE, score |-> [i \in Intents |-> 0], large |-> FALSE]

NotAsked ==
  [step |-> "new", shape |-> NoShape, named |-> "none", session |-> "none", turns |-> <<>>,
   intent |-> "none", data |-> FALSE, key |-> NoKey]

ConversationInit ==
  /\ ask = [a \in Asks |-> NotAsked]
  /\ document = [c \in Asks |-> <<>>]
  /\ valkeyOk = TRUE

Answered(a) ==
  [NotAsked EXCEPT !.step = "answered", !.named = ask[a].named, !.session = ask[a].session]

\* The conversations whose name a user has got with an answer.
Open == {ask[a].session : a \in {b \in Asks : ask[b].step = "answered"}}

\* A question arrives, for a conversation the user names or for a new one,
\* and the document is loaded; if Valkey does not answer it is taken for
\* empty.  Small talk, and what is not about databases, is answered at once and
\* not remembered.
LoadDocument(a) ==
  /\ ask[a].step = "new"
  /\ \E shape \in Shapes, c \in Open \cup {a} :
       LET session == IF ForwardsSession THEN c ELSE a
       IN  ask' = [ask EXCEPT
             ![a].step = IF shape.tier1 THEN "answered" ELSE "loaded",
             ![a].shape = IF shape.tier1 THEN NoShape ELSE shape,
             ![a].named = c,
             ![a].session = session,
             ![a].turns = IF valkeyOk /\ ~shape.tier1 THEN document[session] ELSE <<>>]
  /\ UNCHANGED <<document, valkeyOk>>

\* The intent is decided and its handler runs; one that raises gives an answer
\* without data.
Handle(a) ==
  /\ ask[a].step = "loaded"
  /\ \E i \in DecidedIntents(ask[a].shape, ask[a].turns), fails \in BOOLEAN :
       ask' = [ask EXCEPT ![a].step = "handled",
         ![a].intent = i,
         ![a].data = ~fails /\ ask[a].shape.large /\ i \in {"query", "diagnose", "status"}]
  /\ UNCHANGED <<document, valkeyOk>>

\* Large data gets a key of its own, numbered by the entries the document
\* has with the user's turn appended.
SaveData(a) ==
  /\ ask[a].step = "handled" /\ ask[a].data
  /\ valkeyOk
  /\ ask' = [ask EXCEPT ![a].step = "saving", ![a].key = 2 * Len(ask[a].turns) + 1]
  /\ UNCHANGED <<document, valkeyOk>>

\* A trim that drops the newest turns.
MutLast(turns) == IF Len(turns) > MaxTurns THEN SubSeq(turns, 1, MaxTurns) ELSE turns

Last(turns) == IF Len(turns) > MaxTurns THEN Tail(turns) ELSE turns

Turn(a) == [ask |-> a, intent |-> ask[a].intent, key |-> ask[a].key]

SaveDocument(a) ==
  /\ \/ ask[a].step = "saving"
     \/ ask[a].step = "handled" /\ ~ask[a].data
  /\ valkeyOk
  /\ document' = [document EXCEPT ![ask[a].session] = Last(Append(ask[a].turns, Turn(a)))]
  /\ ask' = [ask EXCEPT ![a] = Answered(a)]
  /\ UNCHANGED valkeyOk

\* Valkey fails a write: the answer is given without being remembered.
SaveFails(a) ==
  /\ ask[a].step \in {"handled", "saving"}
  /\ ~valkeyOk
  /\ ask' = [ask EXCEPT ![a] = Answered(a)]
  /\ UNCHANGED <<document, valkeyOk>>

\* Valkey goes and comes back; a document expires an hour after its last turn.
ValkeyTurns ==
  /\ \/ valkeyOk' = ~valkeyOk /\ UNCHANGED document
     \/ \E c \in Asks :
          /\ document[c] # <<>>
          /\ document' = [document EXCEPT ![c] = <<>>]
          /\ UNCHANGED valkeyOk
  /\ UNCHANGED ask

AskStep(a) ==
  LoadDocument(a) \/ Handle(a) \/ SaveData(a) \/ SaveDocument(a) \/ SaveFails(a)

ConversationNext == ValkeyTurns \/ \E a \in Asks : AskStep(a)

ConversationSpec == ConversationInit /\ [][ConversationNext]_conversationVars

-----------------------------------------------------------------------------
ConversationTypeOK ==
  /\ \A a \in Asks :
       /\ ask[a].step \in {"new", "loaded", "handled", "saving", "answered"}
       /\ ask[a].session \in Asks \cup {"none"}
       /\ ask[a].intent \in Intents \cup {"none"}
       /\ ask[a].key \in DataKeys \cup {NoKey}
  /\ \A c \in Asks : Len(document[c]) <= MaxTurns
  /\ valkeyOk \in BOOLEAN

\* A save appends the question's own turn to the document, and of the turns
\* that are there it loses only the oldest of the copy it had loaded, if that
\* was full, or one that was not in its copy: saved since by another question,
\* or not readable when it loaded.
SavesLoseOnlyRaces ==
  [][\A a \in Asks : SaveDocument(a) =>
       LET there == document[ask[a].session]
           copy  == ask[a].turns
           kept  == document'[ask[a].session]
       IN  /\ kept[Len(kept)] = Turn(a)
           /\ \A k \in 1..Len(there) :
                \/ \E j \in 1..Len(kept) : kept[j] = there[k]
                \/ Len(copy) = MaxTurns /\ there[k] = copy[1]
                \/ \A j \in 1..Len(copy) : copy[j] # there[k]]_conversationVars

=============================================================================
