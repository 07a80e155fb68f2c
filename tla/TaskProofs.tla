----------------------------- MODULE TaskProofs -----------------------------
(***************************************************************************)
(* Machine-checked proofs about what Celery workers run: the trainings of  *)
(* a metric's baselines (BaselineTraining), for any number of them at once,*)
(* the reports of a batch (ScheduledReports), for any finite set of        *)
(* instances and any requests, the samples of the targets                  *)
(* (MetricCollection), for any workers, instances and resets, and the      *)
(* detection of schema changes (SchemaDetector), for any workers and       *)
(* snapshots.  Last, all of them side by side, with the anomaly detection  *)
(* whose theorems are in AnomalyDetectorProofs (MCBackgroundTasks).        *)
(***************************************************************************)
EXTENDS MCBackgroundTasks, AnomalyDetectorProofs, FiniteSetTheorems, TLAPS

-----------------------------------------------------------------------------
(* Trainings.                                                              *)

\* The place of a bucket in the order every training goes through.
Place == [weekday_business |-> 1, weekday_night |-> 2, weekend |-> 3]

\* What a training has flushed comes before what it has pending, which comes
\* before the bucket it is at; until an error it has trained just that.
Ordered(t) ==
  /\ training[t].pending \subseteq Upsert /\ training[t].flushed \subseteq TimeBuckets
  /\ training[t].at \in 1..4
  /\ \A p \in training[t].pending :
       /\ Place[p.bucket] < training[t].at
       /\ \A b \in training[t].flushed : Place[b] < Place[p.bucket]
  /\ \A b \in training[t].flushed : Place[b] < training[t].at
  /\ \A p, q \in training[t].pending : p = q
  /\ training[t].flushed # {} => training[t].pending # {}
  /\ ~training[t].broken => training[t].trained = Flushed(t)

TrainingFields ==
  [pc : {"waiting", "training", "done"}, at : Int, pending : SUBSET Upsert,
   flushed : SUBSET TimeBuckets, trained : SUBSET TimeBuckets, broken : BOOLEAN]

TrainingInv ==
  /\ training \in [Trainings -> TrainingFields]
  /\ \A t \in Trainings : Ordered(t)

LEMMA PlaceOfBucket ==
  ASSUME NEW t \in Trainings, training[t].at \in 1..4, AtBucket(t)
  PROVE  Bucket(t) \in TimeBuckets /\ Place[Bucket(t)] = training[t].at
BY DEF AtBucket, Bucket, BucketOrder, TimeBuckets, Place

\* A training whose step leaves these fields as they are ordered.
LEMMA TrainingStep ==
  ASSUME TrainingInv, NEW t \in Trainings, NEW f \in TrainingFields,
         training' = [training EXCEPT ![t] = f],
         Ordered(t)'
  PROVE  TrainingInv'
<1>1. \A u \in Trainings \ {t} : training'[u] = training[u]
  BY DEF TrainingInv
<1>2. \A u \in Trainings \ {t} : Ordered(u)'
  BY <1>1 DEF TrainingInv, Ordered, Flushed
<1> QED
  BY <1>1, <1>2 DEF TrainingInv

LEMMA TrainingInvHolds == TrainingSpec => []TrainingInv
<1>1. TrainingInit => TrainingInv
  <2> SUFFICES ASSUME TrainingInit PROVE TrainingInv
    OBVIOUS
  <2>1. NotTrained \in TrainingFields
    BY DEF NotTrained, TrainingFields
  <2>2. \A t \in Trainings :
          /\ training[t].pending = {} /\ training[t].flushed = {} /\ training[t].at = 1
          /\ training[t].trained = {}
    BY DEF TrainingInit, NotTrained
  <2>3. \A t \in Trainings : Ordered(t)
    BY <2>2 DEF Ordered, Flushed
  <2> QED
    BY <2>1, <2>3 DEF TrainingInit, TrainingInv
<1>2. TrainingInv /\ [TrainingNext]_trainingVars => TrainingInv'
  <2> SUFFICES ASSUME TrainingInv, [TrainingNext]_trainingVars PROVE TrainingInv'
    OBVIOUS
  <2>1. ASSUME NEW t \in Trainings, StartTraining(t) PROVE TrainingInv'
    <3>1. PICK f : f = [training[t] EXCEPT !.pc = "training"]
      OBVIOUS
    <3>2. /\ f \in TrainingFields /\ f.at = training[t].at /\ f.pending = training[t].pending
          /\ f.flushed = training[t].flushed /\ f.trained = training[t].trained
          /\ f.broken = training[t].broken
      BY <3>1 DEF TrainingInv, TrainingFields
    <3>3. training' = [training EXCEPT ![t] = f]
      BY <2>1, <3>1 DEF StartTraining
    <3>4. training'[t] = f
      BY <3>3 DEF TrainingInv
    <3>5. Ordered(t)'
      BY <3>2, <3>4 DEF TrainingInv, Ordered, Flushed
    <3> QED
      BY <3>2, <3>3, <3>5, TrainingStep
  <2>2. ASSUME NEW t \in Trainings, SkipBucket(t) PROVE TrainingInv'
    <3>1. PICK f : f = [training[t] EXCEPT !.at = @ + 1]
      OBVIOUS
    <3>2. /\ f \in TrainingFields /\ f.at = training[t].at + 1 /\ f.pending = training[t].pending
          /\ f.flushed = training[t].flushed /\ f.trained = training[t].trained
          /\ f.broken = training[t].broken
      BY <3>1 DEF TrainingInv, TrainingFields
    <3>3. training' = [training EXCEPT ![t] = f] /\ training[t].at <= 3
      BY <2>2, <3>1 DEF SkipBucket, AtBucket, BucketOrder
    <3>4. training'[t] = f
      BY <3>3 DEF TrainingInv
    <3>5. Ordered(t)'
      <4>1. \A b \in TimeBuckets : Place[b] \in 1..3
        BY DEF TimeBuckets, Place
      <4>2. \A p \in training[t].pending : p.bucket \in TimeBuckets
        BY DEF TrainingInv, Ordered, Upsert
      <4> QED
        BY <3>2, <3>3, <3>4, <4>1, <4>2 DEF TrainingInv, Ordered, Flushed
    <3> QED
      BY <3>2, <3>3, <3>5, TrainingStep
  <2>3. ASSUME NEW t \in Trainings, UpsertBaseline(t) PROVE TrainingInv'
    <3>1. PICK u : u = [bucket |-> Bucket(t), insert |-> row[Bucket(t)] = {}]
      OBVIOUS
    <3>2. PICK f : f = [training[t] EXCEPT !.at = @ + 1, !.flushed = Flushed(t),
                          !.trained = @ \cup {Bucket(t)}, !.pending = {u}]
      OBVIOUS
    <3>3. training[t].at \in 1..3 /\ Bucket(t) \in TimeBuckets /\ Place[Bucket(t)] = training[t].at
      <4>1. AtBucket(t) /\ training[t].at \in 1..4
        BY <2>3 DEF UpsertBaseline, TrainingInv, Ordered
      <4> QED
        BY <4>1, PlaceOfBucket DEF AtBucket, BucketOrder
    <3>4. u \in Upsert /\ u.bucket = Bucket(t)
      BY <3>1, <3>3 DEF Upsert
    <3>5. Flushed(t) \subseteq TimeBuckets
      BY DEF TrainingInv, Ordered, Flushed, Upsert
    <3>6. /\ f \in TrainingFields /\ f.at = training[t].at + 1 /\ f.pending = {u}
          /\ f.flushed = Flushed(t) /\ f.trained = training[t].trained \cup {Bucket(t)}
          /\ f.broken = training[t].broken
      <4>1. training[t] \in TrainingFields
        BY DEF TrainingInv
      <4> QED
        <5>1. /\ f.pc = training[t].pc /\ f.at = training[t].at + 1 /\ f.pending = {u}
              /\ f.flushed = Flushed(t) /\ f.trained = training[t].trained \cup {Bucket(t)}
              /\ f.broken = training[t].broken
          BY <3>2, <4>1 DEF TrainingFields
        <5>2. f \in TrainingFields
          <6>1. {u} \in SUBSET Upsert /\ Flushed(t) \in SUBSET TimeBuckets
            BY <3>4, <3>5
          <6>2. training[t].trained \cup {Bucket(t)} \in SUBSET TimeBuckets
            BY <3>3, <4>1 DEF TrainingFields
          <6>3. training[t].at + 1 \in Int
            BY <3>3
          <6> QED
            BY <3>2, <4>1, <6>1, <6>2, <6>3 DEF TrainingFields
        <5> QED
          BY <5>1, <5>2
    <3>7. training' = [training EXCEPT ![t] = f] /\ ~training[t].broken
      BY <2>3, <3>1, <3>2 DEF UpsertBaseline
    <3>8. training'[t] = f
      BY <3>7 DEF TrainingInv
    <3>9. training[t].trained = Flushed(t)
      BY <3>7 DEF TrainingInv, Ordered
    <3>10. \A b \in Flushed(t) : Place[b] < training[t].at
      BY DEF TrainingInv, Ordered, Flushed
    <3>11. \A b \in TimeBuckets : Place[b] \in 1..3
      BY DEF TimeBuckets, Place
    <3>12. Flushed(t)' = Flushed(t) \cup {Bucket(t)}
      BY <3>4, <3>6, <3>8 DEF Flushed
    <3>13. Ordered(t)'
      BY <3>3, <3>4, <3>5, <3>6, <3>8, <3>9, <3>10, <3>11, <3>12 DEF Ordered
    <3> QED
      BY <3>6, <3>7, <3>13, TrainingStep
  <2>4. ASSUME NEW t \in Trainings, FlushFails(t) PROVE TrainingInv'
    <3>1. PICK f : f = [training[t] EXCEPT !.at = @ + 1, !.flushed = {}, !.pending = {},
                                           !.broken = TRUE]
      OBVIOUS
    <3>2. /\ f \in TrainingFields /\ f.at = training[t].at + 1 /\ f.pending = {}
          /\ f.flushed = {} /\ f.broken
      <4>1. training[t] \in TrainingFields
        BY DEF TrainingInv
      <4>2. f \in TrainingFields
        <5>1. f = [pc |-> training[t].pc, at |-> training[t].at + 1, pending |-> {},
                   flushed |-> {}, trained |-> training[t].trained, broken |-> TRUE]
          BY <3>1, <4>1 DEF TrainingFields
        <5>2. training[t].at + 1 \in Int
          BY <4>1 DEF TrainingFields
        <5> QED
          BY <4>1, <5>1, <5>2 DEF TrainingFields
      <4> QED
        BY <3>1, <4>1, <4>2 DEF TrainingFields
    <3>3. training' = [training EXCEPT ![t] = f] /\ training[t].at <= 3
      BY <2>4, <3>1 DEF FlushFails, AtBucket, BucketOrder
    <3>4. training'[t] = f
      BY <3>3 DEF TrainingInv
    <3>5. Ordered(t)'
      BY <3>2, <3>3, <3>4 DEF TrainingInv, Ordered
    <3> QED
      BY <3>2, <3>3, <3>5, TrainingStep
  <2>5. ASSUME NEW t \in Trainings, CommitTraining(t) \/ EndTraining(t) PROVE TrainingInv'
    <3>1. PICK f : f = [NotTrained EXCEPT !.pc = "done"]
      OBVIOUS
    <3>2. /\ f \in TrainingFields /\ f.at = 1 /\ f.pending = {} /\ f.flushed = {} /\ f.trained = {}
      <4>1. f = [pc |-> "done", at |-> 1, pending |-> {}, flushed |-> {},
                 trained |-> {}, broken |-> FALSE]
        BY <3>1 DEF NotTrained
      <4> QED
        BY <4>1 DEF TrainingFields
    <3>3. training' = [training EXCEPT ![t] = f]
      BY <2>5, <3>1 DEF CommitTraining, EndTraining
    <3>4. training'[t] = f
      BY <3>3 DEF TrainingInv
    <3>5. Ordered(t)'
      BY <3>2, <3>4 DEF Ordered, Flushed
    <3> QED
      BY <3>2, <3>3, <3>5, TrainingStep
  <2>6. CASE UNCHANGED trainingVars
    BY <2>6 DEF trainingVars, TrainingInv, Ordered, Flushed
  <2> QED
    BY <2>1, <2>2, <2>3, <2>4, <2>5, <2>6 DEF TrainingNext
<1> QED
  BY <1>1, <1>2, PTL DEF TrainingSpec

\* Any number of trainings never wait for each other in a circle: the one whose
\* pending bucket is last in the order waits for none of the others
\* (analyzers/baseline.py, train).
THEOREM NoTrainingDeadlock == TrainingSpec => []TrainingsNeverDeadlock
<1>1. ASSUME TrainingInv, NEW S \in SUBSET Trainings, S # {}
      PROVE  \E t \in S : Blockers(t) \cap S = {}
  <2>1. \A t \in Trainings : \A p \in training[t].pending : Place[p.bucket] \in 1..3
    BY <1>1 DEF TrainingInv, Ordered, Upsert, TimeBuckets, Place
  <2>2. PICK t \in S : \A u \in S : \A p \in training[t].pending, q \in training[u].pending :
                         Place[q.bucket] <= Place[p.bucket]
    <3> DEFINE At(n) == {t \in S : \E p \in training[t].pending : Place[p.bucket] = n}
    <3>1. ASSUME NEW t \in S, NEW n \in 1..3, t \in At(n)
          PROVE  \A p \in training[t].pending : Place[p.bucket] = n
      BY <1>1, <3>1 DEF TrainingInv, Ordered
    <3>2. ASSUME NEW u \in S, NEW q \in training[u].pending
          PROVE  \E n \in 1..3 : u \in At(n) /\ Place[q.bucket] = n
      BY <1>1, <2>1, <3>2
    <3> HIDE DEF At
    <3>3. CASE At(3) # {}
      <4>1. PICK t \in At(3) : t \in S
        BY <3>3 DEF At
      <4> QED
        BY <3>1, <3>2, <4>1
    <3>4. CASE At(3) = {} /\ At(2) # {}
      <4>1. PICK t \in At(2) : t \in S
        BY <3>4 DEF At
      <4> QED
        BY <3>1, <3>2, <3>4, <4>1
    <3>5. CASE At(3) = {} /\ At(2) = {}
      <4>1. PICK t : t \in S
        BY <1>1
      <4> QED
        BY <3>2, <3>5, <4>1
    <3> QED
      BY <3>3, <3>4, <3>5
  <2>3. ASSUME NEW u \in Blockers(t) \cap S PROVE FALSE
    <3>1. PICK p \in training[t].pending : p.bucket \in training[u].flushed
      BY DEF Blockers
    <3>2. PICK q \in training[u].pending : TRUE
      BY <1>1, <3>1 DEF TrainingInv, Ordered
    <3>3. Place[p.bucket] < Place[q.bucket]
      BY <1>1, <3>1, <3>2 DEF TrainingInv, Ordered
    <3> QED
      BY <1>1, <2>1, <2>2, <3>1, <3>2, <3>3
  <2> QED
    BY <2>2, <2>3
<1>2. TrainingInv => TrainingsNeverDeadlock
  BY <1>1 DEF TrainingsNeverDeadlock
<1> QED
  BY <1>2, TrainingInvHolds, PTL

\* All that the last training to commit has trained is there, whatever other
\* trainings it overlapped.
THEOREM LastTrainingStands == TrainingSpec => []LastTrainingWhole
<1>1. TrainingInit => LastTrainingWhole
  BY DEF TrainingInit, LastTrainingWhole
<1>2. TrainingInv /\ LastTrainingWhole /\ [TrainingNext]_trainingVars => LastTrainingWhole'
  <2> SUFFICES ASSUME TrainingInv, LastTrainingWhole, [TrainingNext]_trainingVars
               PROVE  LastTrainingWhole'
    OBVIOUS
  <2>1. CASE UNCHANGED <<row, lastDone>>
    BY <2>1 DEF LastTrainingWhole
  <2>2. ASSUME NEW t \in Trainings, CommitTraining(t) PROVE LastTrainingWhole'
    <3>1. /\ row' = [b \in TimeBuckets |-> IF b \in Flushed(t) THEN {t} ELSE row[b]]
          /\ lastDone' = {[by |-> t, buckets |-> training[t].trained]}
          /\ training[t].trained = Flushed(t)
      BY <2>2 DEF CommitTraining, TrainingInv, Ordered
    <3>2. Flushed(t) \subseteq TimeBuckets
      BY DEF TrainingInv, Ordered, Flushed, Upsert
    <3> QED
      BY <3>1, <3>2 DEF LastTrainingWhole
  <2>3. ASSUME \/ UNCHANGED trainingVars
               \/ \E t \in Trainings :
                    StartTraining(t) \/ SkipBucket(t) \/ UpsertBaseline(t) \/ FlushFails(t)
                      \/ EndTraining(t)
        PROVE  UNCHANGED <<row, lastDone>>
    BY <2>3 DEF trainingVars, StartTraining, SkipBucket, UpsertBaseline, FlushFails, EndTraining
  <2> QED
    BY <2>1, <2>2, <2>3 DEF TrainingNext
<1> QED
  BY <1>1, <1>2, TrainingInvHolds, PTL DEF TrainingSpec

\* Each bucket keeps the row of one training, and a training has at most one
\* upsert pending.
THEOREM TrainingTypeInvariant == TrainingSpec => []TrainingTypeOK
<1> DEFINE Rows == row \in [TimeBuckets -> {{}} \cup {{t} : t \in Trainings}]
<1>1. TrainingInit => Rows
  BY DEF TrainingInit
<1>2. Rows /\ [TrainingNext]_trainingVars => Rows'
  <2> SUFFICES ASSUME Rows, [TrainingNext]_trainingVars PROVE Rows'
    OBVIOUS
  <2>1. CASE row' = row
    BY <2>1
  <2>2. ASSUME NEW t \in Trainings, CommitTraining(t) PROVE Rows'
    BY <2>2 DEF CommitTraining
  <2> QED
    BY <2>1, <2>2 DEF TrainingNext, trainingVars, StartTraining, SkipBucket, UpsertBaseline,
                      FlushFails, EndTraining
<1>3. TrainingInv /\ Rows => TrainingTypeOK
  <2> SUFFICES ASSUME TrainingInv, Rows PROVE TrainingTypeOK
    OBVIOUS
  <2>1. ASSUME NEW t \in Trainings PROVE Cardinality(training[t].pending) <= 1
    <3>1. CASE training[t].pending = {}
      <4>1. Cardinality(training[t].pending) = 0
        BY <3>1, FS_EmptySet
      <4> QED
        BY <4>1
    <3>2. CASE training[t].pending # {}
      <4>1. PICK p \in training[t].pending : training[t].pending = {p}
        <5>1. PICK p : p \in training[t].pending
          BY <3>2
        <5> QED
          BY <5>1 DEF TrainingInv, Ordered
      <4>2. Cardinality({p}) = 1
        BY FS_Singleton
      <4> QED
        BY <4>1, <4>2
    <3> QED
      BY <3>1, <3>2
  <2> QED
    BY <2>1 DEF TrainingInv, TrainingFields, Ordered, TrainingTypeOK
<1> HIDE DEF Rows
<1> QED
  BY <1>1, <1>2, <1>3, TrainingInvHolds, PTL DEF TrainingSpec

-----------------------------------------------------------------------------
(* Reports.                                                                *)

Figures == 0..AllFigures

Sent == [from : BatchKinds \cup ReportRequests, number : Nat, nth : Nat, figures : Figures]

\* How many instances the batch has done.
Done(k) == Cardinality(Monitored) - Cardinality(batch[k].todo)

RequestFields == [step : RequestStages, slack : BOOLEAN, figures : Figures,
                  told : BOOLEAN, logged : BOOLEAN]

ReportTypes ==
  /\ batch \in [BatchKinds -> [number : Nat, todo : SUBSET Monitored, aborted : BOOLEAN]]
  /\ request \in [ReportRequests -> RequestFields]
  /\ posted \subseteq Sent

\* The messages of a batch are numbered by the instances it has done; once one
\* of them has not counted everything, the transaction of the batch is aborted.
MorningInv ==
  \A m \in posted : m.from = "morning" =>
    /\ m.number <= batch["morning"].number
    /\ m.number = batch["morning"].number =>
         /\ m.nth <= Done("morning")
         /\ m.figures < AllFigures => batch["morning"].aborted

ZerosFollow ==
  \A m, n \in posted :
    /\ m.from = "morning" /\ n.from = "morning" /\ m.number = n.number
    /\ m.nth < n.nth /\ m.figures < AllFigures
    => n.figures = 0

\* Only the slow queries may be missing from a report on its way to Slack.
GapsAreSlow ==
  /\ \A m \in posted : m.from # "morning" => m.figures >= FiguresWith(FALSE)
  /\ \A q \in ReportRequests :
       request[q].step = "gathered" => request[q].figures >= FiguresWith(FALSE)

\* What a request has been told, and what it has saved, was posted.
AfterSlack == {"told", "done", "failed", "lost"}

ToldIsPosted ==
  /\ \A q \in ReportRequests : request[q].told =>
       /\ request[q].step \in AfterSlack
       /\ \E m \in posted : m.from = q /\ m.figures = request[q].figures
  /\ \A r \in saved : r.slackSent =>
       \E m \in posted : m.from = r.request /\ m.figures = r.figures

ReportInv == ReportTypes /\ MorningInv /\ ZerosFollow /\ GapsAreSlow /\ ToldIsPosted

\* The row of dba_reports that a request writes.
RowOf(q) == [request |-> q, slackSent |-> request[q].told, figures |-> request[q].figures]

\* Messages of another sender than the morning report.
LEMMA OtherMessages ==
  ASSUME ReportInv, NEW M, posted' = posted \cup M,
         \A m \in M : m \in Sent /\ m.from # "morning",
         batch'["morning"] = batch["morning"]
  PROVE  MorningInv' /\ ZerosFollow' /\ posted' \subseteq Sent
<1> USE DEF ReportInv, ReportTypes, AllFigures, Sent, Figures
<1>1. posted' \subseteq Sent
  OBVIOUS
<1>2. MorningInv'
  BY DEF MorningInv, Done
<1>3. ZerosFollow'
  BY DEF ZerosFollow
<1> QED
  BY <1>1, <1>2, <1>3

\* The figures of a message count everything, or none at all once the
\* transaction is aborted.
LEMMA FiguresOfMorning ==
  ASSUME NEW aborted \in BOOLEAN, NEW answered \in Figures
  PROVE  /\ MorningFigures(aborted, answered) \in Figures
         /\ aborted => MorningFigures(aborted, answered) = 0
BY DEF MorningFigures, Figures, AllFigures

LEMMA MorningKeepsInv ==
  ASSUME ReportInv, NEW i \in Monitored, NEW answered \in Figures, NEW delivery \in Deliveries,
         MorningReport(i, answered, delivery)
  PROVE  ReportInv'
<1> USE DEF ReportInv, ReportTypes
<1>1. PICK f : f = MorningFigures(batch["morning"].aborted, answered)
  OBVIOUS
<1>2. PICK b : b = batch["morning"]
  OBVIOUS
<1>3. "morning" \in BatchKinds /\ b \in [number : Nat, todo : SUBSET Monitored, aborted : BOOLEAN]
  BY <1>2 DEF BatchKinds
<1>4. PICK x : x = Message("morning", f)
  OBVIOUS
<1>5. /\ i \in b.todo
      /\ posted' = posted \cup (IF delivery.taken THEN {x} ELSE {})
      /\ batch' = [batch EXCEPT !["morning"].todo = @ \ {i},
                                !["morning"].aborted = f < AllFigures]
      /\ UNCHANGED <<request, saved>>
  BY <1>1, <1>2, <1>4 DEF MorningReport, Post, Advance
<1>6. f \in Figures /\ (b.aborted => f = 0)
  BY <1>1, <1>2, <1>3, FiguresOfMorning
<1>7. /\ batch'["morning"].number = b.number
      /\ batch'["morning"].todo = b.todo \ {i}
      /\ batch'["morning"].aborted <=> f < AllFigures
  BY <1>2, <1>3, <1>5
<1>8. batch' \in [BatchKinds -> [number : Nat, todo : SUBSET Monitored, aborted : BOOLEAN]]
  <2>1. PICK a \in BOOLEAN : a = (f < AllFigures)
    <3>1. (f < AllFigures) \in BOOLEAN
      OBVIOUS
    <3> QED
      BY <3>1, Zenon
  <2>2. PICK c : c = [b EXCEPT !.todo = b.todo \ {i}, !.aborted = a]
    OBVIOUS
  <2>3. batch' = [batch EXCEPT !["morning"] = c]
    BY <1>2, <1>5, <2>1, <2>2
  <2>4. c \in [number : Nat, todo : SUBSET Monitored, aborted : BOOLEAN]
    BY <1>3, <2>1, <2>2
  <2> QED
    BY <1>3, <2>3, <2>4
<1>9. /\ Cardinality(Monitored) \in Nat /\ Cardinality(b.todo) \in Nat
      /\ Cardinality(b.todo \ {i}) = Cardinality(b.todo) - 1
      /\ Cardinality(b.todo) <= Cardinality(Monitored)
  <2>1. b.todo \subseteq Monitored /\ IsFiniteSet(Monitored)
    BY <1>3, ReportAssumption
  <2>2. IsFiniteSet(b.todo) /\ Cardinality(b.todo) <= Cardinality(Monitored)
    BY <2>1, FS_Subset
  <2>3. Cardinality(b.todo \ {i}) = Cardinality(b.todo) - 1
    BY <1>5, <2>2, FS_RemoveElement
  <2>4. Cardinality(Monitored) \in Nat /\ Cardinality(b.todo) \in Nat
    BY <2>1, <2>2, FS_CardinalityType
  <2> QED
    BY <2>2, <2>3, <2>4
<1>10. Done("morning")' = Done("morning") + 1 /\ Done("morning") \in Nat
  <2>1. Cardinality(batch'["morning"].todo) = Cardinality(b.todo) - 1
    BY <1>7, <1>9
  <2>2. Done("morning")' = Cardinality(Monitored) - Cardinality(batch'["morning"].todo)
    BY DEF Done
  <2>3. Done("morning") = Cardinality(Monitored) - Cardinality(b.todo)
    BY <1>2 DEF Done
  <2> QED
    BY <1>9, <2>1, <2>2, <2>3
<1>11. /\ x.from = "morning" /\ x.number = b.number /\ x.nth = Done("morning") + 1
       /\ x.figures = f
  BY <1>2, <1>4, <1>9 DEF Message, Done
<1>12. x \in Sent
  <2>1. x = [from |-> "morning", number |-> b.number, nth |-> x.nth, figures |-> f]
    BY <1>2, <1>4, <1>11 DEF Message
  <2> QED
    BY <1>3, <1>6, <1>10, <1>11, <2>1 DEF Sent
<1>13. posted' \subseteq posted \cup {x} /\ posted \subseteq posted'
  BY <1>5
<1>14. \A m \in posted : m.from = "morning" /\ m.number = b.number =>
         m.nth \in Nat /\ m.nth <= Done("morning") /\ (m.figures < AllFigures => b.aborted)
  BY <1>2 DEF MorningInv, Sent
<1>15. MorningInv'
  <2> SUFFICES ASSUME NEW m \in posted'
               PROVE  m.from = "morning" =>
                        /\ m.number <= batch'["morning"].number
                        /\ m.number = batch'["morning"].number =>
                             /\ m.nth <= Done("morning")'
                             /\ m.figures < AllFigures => batch'["morning"].aborted
    BY DEF MorningInv
  <2>1. CASE m = x
    BY <1>3, <1>7, <1>10, <1>11, <2>1
  <2>2. CASE m \in posted
    <3>1. b.aborted => batch'["morning"].aborted
      BY <1>6, <1>7 DEF AllFigures
    <3> QED
      BY <1>2, <1>7, <1>10, <1>14, <2>2, <3>1 DEF MorningInv
  <2> QED
    BY <1>13, <2>1, <2>2
<1>16. ZerosFollow'
  <2> SUFFICES ASSUME NEW m \in posted', NEW n \in posted',
                      m.from = "morning", n.from = "morning", m.number = n.number,
                      m.nth < n.nth, m.figures < AllFigures
               PROVE  n.figures = 0
    BY DEF ZerosFollow
  <2>1. CASE m \in posted /\ n \in posted
    BY <2>1 DEF ZerosFollow
  <2>2. CASE m \in posted /\ n = x
    BY <1>6, <1>11, <1>14, <2>2
  <2>3. CASE m = x /\ n \in posted
    BY <1>10, <1>11, <1>14, <2>3
  <2>4. CASE m = x /\ n = x
    BY <1>10, <1>11, <2>4
  <2> QED
    BY <1>13, <2>1, <2>2, <2>3, <2>4
<1>17. ToldIsPosted'
  BY <1>5, <1>13 DEF ToldIsPosted
<1>18. GapsAreSlow'
  BY <1>5, <1>11, <1>13 DEF GapsAreSlow
<1> QED
  BY <1>5, <1>8, <1>12, <1>13, <1>15, <1>16, <1>17, <1>18

\* A report without its slow queries still has the other figures.
LEMMA SlowFigures ==
  ASSUME NEW slow \in BOOLEAN
  PROVE  FiguresWith(slow) \in Figures /\ FiguresWith(slow) >= FiguresWith(FALSE)
BY DEF FiguresWith, Figures, AllFigures

LEMMA DbaKeepsInv ==
  ASSUME ReportInv, NEW i \in Monitored, NEW reached \in BOOLEAN, NEW ok \in BOOLEAN,
         NEW slow \in BOOLEAN, NEW delivery \in Deliveries,
         DbaReport(i, reached, ok, slow, delivery)
  PROVE  ReportInv'
<1> USE DEF ReportInv, ReportTypes
<1>1. "dba" \in BatchKinds /\ "morning" \in BatchKinds
  BY DEF BatchKinds
<1>2. batch' = [batch EXCEPT !["dba"].todo = @ \ {i},
                             !["dba"].aborted = batch["dba"].aborted \/ (reached /\ ~ok)]
  BY DEF DbaReport, Advance
<1>3. batch'["morning"] = batch["morning"]
  BY <1>1, <1>2
<1>4. batch' \in [BatchKinds -> [number : Nat, todo : SUBSET Monitored, aborted : BOOLEAN]]
  <2>1. PICK c : c = [batch["dba"] EXCEPT !.todo = @ \ {i},
                        !.aborted = batch["dba"].aborted \/ (reached /\ ~ok)]
    OBVIOUS
  <2>2. batch' = [batch EXCEPT !["dba"] = c]
    BY <1>2, <2>1
  <2>3. c \in [number : Nat, todo : SUBSET Monitored, aborted : BOOLEAN]
    BY <1>1, <2>1
  <2> QED
    BY <1>1, <2>2, <2>3
<1>5. \A f \in ReportFigures(batch["dba"].aborted, ok, slow) :
        /\ Message("dba", f) \in Sent /\ Message("dba", f).from # "morning"
        /\ Message("dba", f).figures >= FiguresWith(FALSE)
  <2> SUFFICES ASSUME NEW f \in ReportFigures(batch["dba"].aborted, ok, slow)
               PROVE  /\ Message("dba", f) \in Sent /\ Message("dba", f).from # "morning"
                      /\ Message("dba", f).figures >= FiguresWith(FALSE)
    OBVIOUS
  <2>1. f \in Figures /\ f >= FiguresWith(FALSE)
    BY SlowFigures DEF ReportFigures
  <2>2. /\ Cardinality(Monitored) \in Nat /\ Cardinality(batch["dba"].todo) \in Nat
        /\ Cardinality(batch["dba"].todo) <= Cardinality(Monitored)
    <3>1. batch["dba"].todo \subseteq Monitored
      BY <1>1
    <3> QED
      BY <3>1, ReportAssumption, FS_Subset, FS_CardinalityType
  <2>3. batch["dba"].number \in Nat
    BY <1>1
  <2>4. PICK n : n = Cardinality(Monitored) - Cardinality(batch["dba"].todo) + 1
    OBVIOUS
  <2>5. Message("dba", f) = [from |-> "dba", number |-> batch["dba"].number, nth |-> n,
                             figures |-> f]
    BY <2>4 DEF Message
  <2>6. n \in Nat
    BY <2>2, <2>4
  <2>7. Message("dba", f) \in Sent
    BY <1>1, <2>1, <2>3, <2>5, <2>6 DEF Sent
  <2>8. Message("dba", f).from # "morning" /\ Message("dba", f).figures = f
    BY <2>5
  <2> QED
    BY <2>1, <2>7, <2>8
<1>6. PICK M : /\ posted' = posted \cup M
               /\ \A m \in M : /\ m \in Sent /\ m.from # "morning"
                               /\ m.figures >= FiguresWith(FALSE)
  <2>1. PICK M : M = {Message("dba", f) : f \in ReportFigures(batch["dba"].aborted, ok, slow)}
    OBVIOUS
  <2>2. \A m \in M : /\ m \in Sent /\ m.from # "morning"
                     /\ m.figures >= FiguresWith(FALSE)
    BY <1>5, <2>1
  <2>3. posted' = posted \/ posted' = posted \cup M
    BY <2>1 DEF DbaReport, Post
  <2>4. CASE posted' = posted
    <3>1. PICK N : N = {}
      OBVIOUS
    <3>2. posted' = posted \cup N /\ \A m \in N : FALSE
      BY <2>4, <3>1
    <3> QED
      BY <3>2
  <2>5. CASE posted' = posted \cup M
    BY <2>2, <2>5
  <2> QED
    BY <2>3, <2>4, <2>5
<1>7. MorningInv' /\ ZerosFollow' /\ posted' \subseteq Sent
  BY <1>3, <1>6, OtherMessages
<1>8. ToldIsPosted' /\ request' = request
  BY <1>6 DEF DbaReport, ToldIsPosted
<1>9. GapsAreSlow'
  BY <1>6, <1>8 DEF GapsAreSlow
<1> QED
  BY <1>4, <1>7, <1>8, <1>9

\* What a request does leaves the batches alone.
LEMMA RequestKeepsInv ==
  ASSUME ReportInv, NEW q \in ReportRequests, NEW s \in RequestFields, NEW M,
         batch' = batch, request' = [request EXCEPT ![q] = s],
         posted' = posted \cup M,
         \A m \in M : /\ m \in Sent /\ m.from = q /\ m.figures = s.figures
                      /\ m.figures >= FiguresWith(FALSE),
         s.step = "gathered" => s.figures >= FiguresWith(FALSE),
         s.told => /\ s.step \in AfterSlack
                   /\ M # {} \/ (request[q].told /\ s.figures = request[q].figures),
         saved' \subseteq saved \cup {RowOf(q)}
  PROVE  ReportInv'
<1> USE DEF ReportInv, ReportTypes
<1>1. \A m \in M : m.from # "morning"
  BY ReportAssumption
<1>2. MorningInv' /\ ZerosFollow' /\ posted' \subseteq Sent
  BY <1>1, OtherMessages
<1>3. /\ request'[q] = s
      /\ \A p \in ReportRequests \ {q} : request'[p] = request[p]
  OBVIOUS
<1>4. ToldIsPosted'
  <2>1. ASSUME NEW p \in ReportRequests, request'[p].told
        PROVE  /\ request'[p].step \in AfterSlack
               /\ \E m \in posted' : m.from = p /\ m.figures = request'[p].figures
    <3>1. CASE p = q
      <4>1. /\ s.told /\ s.step \in AfterSlack
            /\ M # {} \/ (request[q].told /\ s.figures = request[q].figures)
        BY <1>3, <2>1, <3>1
      <4>2. CASE M # {}
        BY <1>3, <3>1, <4>1, <4>2
      <4>3. CASE request[q].told /\ s.figures = request[q].figures
        BY <1>3, <3>1, <4>1, <4>3 DEF ToldIsPosted
      <4> QED
        BY <4>1, <4>2, <4>3
    <3>2. CASE p # q
      BY <1>3, <2>1, <3>2 DEF ToldIsPosted
    <3> QED
      BY <3>1, <3>2
  <2>2. ASSUME NEW r \in saved', r.slackSent
        PROVE  \E m \in posted' : m.from = r.request /\ m.figures = r.figures
    BY <2>2 DEF ToldIsPosted, RowOf
  <2> QED
    BY <2>1, <2>2 DEF ToldIsPosted
<1>5. GapsAreSlow'
  <2>1. \A p \in ReportRequests :
          request'[p].step = "gathered" => request'[p].figures >= FiguresWith(FALSE)
    BY <1>3 DEF GapsAreSlow
  <2> QED
    BY <2>1 DEF GapsAreSlow
<1>6. request' \in [ReportRequests -> RequestFields]
  OBVIOUS
<1> QED
  BY <1>2, <1>4, <1>5, <1>6

\* A request that posts nothing, and that has been told what it was.
LEMMA QuietRequest ==
  ASSUME ReportInv, NEW q \in ReportRequests, NEW s \in RequestFields,
         batch' = batch, request' = [request EXCEPT ![q] = s], posted' = posted,
         s.told = request[q].told,
         s.step = "gathered" => s.figures >= FiguresWith(FALSE),
         s.told => s.step \in AfterSlack /\ s.figures = request[q].figures,
         saved' \subseteq saved \cup {RowOf(q)}
  PROVE  ReportInv'
<1>1. PICK M : M = {}
  OBVIOUS
<1>2. posted' = posted \cup M /\ \A m \in M : FALSE
  BY <1>1
<1> QED
  BY <1>2, RequestKeepsInv

LEMMA SlackKeepsInv ==
  ASSUME ReportInv, NEW q \in ReportRequests, NEW delivery \in Deliveries, TellSlack(q, delivery)
  PROVE  ReportInv'
<1>1. request[q] \in RequestFields
  BY DEF ReportInv, ReportTypes
<1>2. CASE ~request[q].slack
  <2>1. PICK s : s = [request[q] EXCEPT !.step = "told"]
    OBVIOUS
  <2>2. /\ s \in RequestFields /\ s.told = request[q].told /\ s.step = "told"
        /\ s.figures = request[q].figures
    BY <1>1, <2>1 DEF RequestFields, RequestStages
  <2>3. batch' = batch /\ request' = [request EXCEPT ![q] = s] /\ posted' = posted /\ saved' = saved
    BY <1>2, <2>1 DEF TellSlack, Goto
  <2> QED
    BY <2>2, <2>3, QuietRequest DEF AfterSlack
<1>3. CASE request[q].slack
  <2>1. PICK s : s = [request[q] EXCEPT !.step = "told", !.told = delivery.told]
    OBVIOUS
  <2>2. /\ delivery.taken \in BOOLEAN /\ delivery.told \in BOOLEAN
        /\ delivery.told => delivery.taken
    <3>1. \/ delivery = [taken |-> TRUE, told |-> TRUE]
          \/ delivery = [taken |-> TRUE, told |-> FALSE]
          \/ delivery = [taken |-> FALSE, told |-> FALSE]
      BY DEF Deliveries
    <3>2. CASE delivery = [taken |-> TRUE, told |-> TRUE]
      BY <3>2
    <3>3. CASE delivery = [taken |-> TRUE, told |-> FALSE]
      BY <3>3
    <3>4. CASE delivery = [taken |-> FALSE, told |-> FALSE]
      BY <3>4
    <3> QED
      BY <3>1, <3>2, <3>3, <3>4
  <2>3. /\ s \in RequestFields /\ s.told = delivery.told /\ s.step = "told"
        /\ s.figures = request[q].figures
    BY <1>1, <2>1, <2>2 DEF RequestFields, RequestStages
  <2>4. PICK m : m = [from |-> q, number |-> 0, nth |-> 0, figures |-> request[q].figures]
    OBVIOUS
  <2>5. /\ m \in Sent /\ m.from = q /\ m.figures = s.figures
        /\ m.figures >= FiguresWith(FALSE)
    <3>1. request[q].figures >= FiguresWith(FALSE)
      BY DEF TellSlack, ReportInv, GapsAreSlow
    <3> QED
      BY <1>1, <2>3, <2>4, <3>1 DEF Sent, RequestFields
  <2>6. PICK M : M = IF delivery.taken THEN {m} ELSE {}
    OBVIOUS
  <2>7. batch' = batch /\ saved' = saved
    BY <1>3 DEF TellSlack
  <2>8. request' = [request EXCEPT ![q] = s] /\ posted' = posted \cup M
    BY <1>3, <2>1, <2>4, <2>6 DEF TellSlack, Post, Told
  <2>9. \A x \in M : /\ x \in Sent /\ x.from = q /\ x.figures = s.figures
                     /\ x.figures >= FiguresWith(FALSE)
    BY <2>5, <2>6
  <2>10. s.told => s.step \in AfterSlack /\ M # {}
    <3>1. SUFFICES ASSUME s.told PROVE M # {}
      BY <2>3 DEF AfterSlack
    <3>2. delivery.taken
      BY <2>2, <2>3, <3>1
    <3> QED
      BY <2>6, <3>2
  <2>11. saved' \subseteq saved \cup {RowOf(q)}
    BY <2>7
  <2> QED
    BY <2>3, <2>7, <2>8, <2>9, <2>10, <2>11, RequestKeepsInv
<1> QED
  BY <1>2, <1>3

\* GatherReport keeps how much was counted; nothing was told before.
LEMMA GatherKeepsInv ==
  ASSUME ReportInv, NEW q \in ReportRequests, NEW ok \in BOOLEAN, NEW slow \in BOOLEAN,
         GatherReport(q, ok, slow)
  PROVE  ReportInv'
<1>1. PICK to, f : /\ to = IF ok THEN "gathered" ELSE "failed"
                   /\ f = IF ok THEN FiguresWith(slow) ELSE 0
  OBVIOUS
<1>2. /\ to \in RequestStages /\ f \in Figures
      /\ to = "gathered" => f >= FiguresWith(FALSE)
  <2>1. CASE ok
    BY <1>1, <2>1, SlowFigures DEF RequestStages
  <2>2. CASE ~ok
    BY <1>1, <2>2 DEF RequestStages, Figures, AllFigures
  <2> QED
    BY <2>1, <2>2
<1>3. PICK s : s = [request[q] EXCEPT !.step = to, !.figures = f]
  OBVIOUS
<1>4. request[q] \in RequestFields /\ ~request[q].told
  BY DEF ReportInv, ReportTypes, ToldIsPosted, AfterSlack, GatherReport
<1>5. /\ s \in RequestFields /\ s.told = request[q].told
      /\ s.step = to /\ s.figures = f
  BY <1>2, <1>3, <1>4 DEF RequestFields
<1>6. request' = [request EXCEPT ![q] = s] /\ UNCHANGED <<batch, posted, saved>>
  BY <1>1, <1>3 DEF GatherReport
<1> QED
  BY <1>2, <1>4, <1>5, <1>6, QuietRequest

LEMMA ReportStep == ReportInv /\ [ReportNext]_reportVars => ReportInv'
<1> SUFFICES ASSUME ReportInv, [ReportNext]_reportVars PROVE ReportInv'
  OBVIOUS
<1>0. request \in [ReportRequests -> RequestFields]
  BY DEF ReportInv, ReportTypes
<1>1. ASSUME NEW k \in BatchKinds, StartBatch(k) PROVE ReportInv'
  <2> USE DEF ReportInv, ReportTypes
  <2>1. PICK b : b = [number |-> batch[k].number + 1, todo |-> Monitored, aborted |-> FALSE]
    OBVIOUS
  <2>2. batch' = [batch EXCEPT ![k] = b] /\ UNCHANGED <<request, posted, saved>>
    BY <1>1, <2>1 DEF StartBatch
  <2>3. b \in [number : Nat, todo : SUBSET Monitored, aborted : BOOLEAN] /\ b.number = batch[k].number + 1
    BY <2>1
  <2>4. ReportTypes' /\ ZerosFollow' /\ GapsAreSlow' /\ ToldIsPosted'
    BY <2>2, <2>3 DEF ZerosFollow, GapsAreSlow, ToldIsPosted
  <2>5. CASE k = "morning"
    <3>1. batch["morning"].number \in Nat /\ batch'["morning"].number = batch["morning"].number + 1
      BY <2>2, <2>3, <2>5
    <3>2. \A m \in posted : m.number \in Nat
      BY DEF Sent
    <3> QED
      BY <2>2, <2>4, <3>1, <3>2 DEF MorningInv
  <2>6. CASE k # "morning"
    <3>1. batch'["morning"] = batch["morning"]
      BY <2>2, <2>6 DEF BatchKinds
    <3> QED
      BY <2>2, <2>4, <3>1 DEF MorningInv, Done
  <2> QED
    BY <2>5, <2>6
<1>2. ASSUME NEW i \in Monitored, NEW delivery \in Deliveries,
             \/ \E answered \in 0..AllFigures : MorningReport(i, answered, delivery)
             \/ \E reached, ok, slow \in BOOLEAN : DbaReport(i, reached, ok, slow, delivery)
      PROVE  ReportInv'
  BY <1>2, MorningKeepsInv, DbaKeepsInv DEF Figures
<1>3. ASSUME NEW q \in ReportRequests, NEW kind \in {"dba", "generate"}, NEW slack \in BOOLEAN,
             AskReport(q, kind, slack)
      PROVE  ReportInv'
  <2>1. PICK s : s = [request[q] EXCEPT !.step = kind, !.slack = slack]
    OBVIOUS
  <2>2. s \in RequestFields /\ s.told = request[q].told /\ s.step = kind
    BY <1>0, <2>1 DEF RequestFields, RequestStages
  <2>3. batch' = batch /\ request' = [request EXCEPT ![q] = s] /\ posted' = posted /\ saved' = saved
    BY <1>3, <2>1 DEF AskReport
  <2>4. ~request[q].told
    BY <1>3 DEF AskReport, ReportInv, ToldIsPosted, AfterSlack
  <2> QED
    BY <2>2, <2>3, <2>4, QuietRequest
<1>4. ASSUME NEW q \in ReportRequests, NEW ok \in BOOLEAN, SaveReport(q, ok)
      PROVE  ReportInv'
  <2>1. PICK to \in {"done", "failed"} :
          /\ request' = [request EXCEPT ![q].step = to]
          /\ batch' = batch /\ posted' = posted
          /\ saved' \subseteq saved \cup {RowOf(q)}
    BY <1>4 DEF SaveReport, Goto, RowOf
  <2>2. PICK s : s = [request[q] EXCEPT !.step = to]
    OBVIOUS
  <2>3. /\ s \in RequestFields /\ s.told = request[q].told /\ s.step = to
        /\ s.figures = request[q].figures
    BY <1>0, <2>2 DEF RequestFields, RequestStages
  <2>4. request' = [request EXCEPT ![q] = s]
    BY <2>1, <2>2
  <2> QED
    BY <2>1, <2>3, <2>4, QuietRequest DEF AfterSlack
<1>5. ASSUME NEW q \in ReportRequests,
             \/ \E gathered, answered, inserted \in BOOLEAN :
                  GenerateReport(q, gathered, answered, inserted)
             \/ CloseSession(q) \/ LoseRequest(q)
      PROVE  ReportInv'
  <2>1. PICK to \in {"completed", "failed", "done", "lost"}, logged \in BOOLEAN :
          /\ request' = [request EXCEPT ![q].step = to, ![q].logged = logged]
          /\ batch' = batch /\ posted' = posted /\ saved' = saved
          /\ to = "completed" => request[q].step = "generate"
    BY <1>5 DEF GenerateReport, CloseSession, LoseRequest
  <2>2. PICK s : s = [request[q] EXCEPT !.step = to, !.logged = logged]
    OBVIOUS
  <2>3. /\ s \in RequestFields /\ s.told = request[q].told /\ s.step = to
        /\ s.figures = request[q].figures
    BY <1>0, <2>2 DEF RequestFields, RequestStages
  <2>4. request' = [request EXCEPT ![q] = s]
    BY <2>1, <2>2
  <2>5. s.told => s.step \in AfterSlack
    BY <2>1, <2>3 DEF ReportInv, ToldIsPosted, AfterSlack
  <2> QED
    BY <2>1, <2>3, <2>4, <2>5, QuietRequest
<1>6. CASE UNCHANGED reportVars
  BY <1>6 DEF reportVars, ReportInv, ReportTypes, MorningInv, Done, ZerosFollow, GapsAreSlow,
              ToldIsPosted
<1> QED
  BY <1>1, <1>2, <1>3, <1>4, <1>5, <1>6, SlackKeepsInv, GatherKeepsInv DEF ReportNext

LEMMA ReportInvHolds == ReportSpec => []ReportInv
<1>1. ReportInit => ReportInv
  <2> SUFFICES ASSUME ReportInit PROVE ReportInv
    OBVIOUS
  <2>1. /\ posted = {} /\ saved = {}
        /\ \A q \in ReportRequests : ~request[q].told /\ request[q].step = "idle"
    BY DEF ReportInit
  <2>2. ReportTypes
    BY <2>1 DEF ReportInit, ReportTypes, RequestFields, RequestStages, Figures, AllFigures
  <2> QED
    BY <2>1, <2>2 DEF ReportInv, MorningInv, ZerosFollow, GapsAreSlow, ToldIsPosted
<1> QED
  BY <1>1, ReportStep, PTL DEF ReportSpec

\* A DBA report lacks at most its slow queries; after a morning report that does
\* not count everything its batch counts nothing more; a saved report that says
\* it was sent to Slack was, with the figures of the row (tasks/proactive.py,
\* tasks/reports.py, services/dba_report.py, api/v1/reports.py).
THEOREM ReportsTell == ReportSpec => []ReportGapsBounded
<1>1. ReportInv => ReportGapsBounded
  BY DEF ReportInv, ZerosFollow, GapsAreSlow, ToldIsPosted, ReportGapsBounded
<1> QED
  BY <1>1, ReportInvHolds, PTL

\* Batches and the messages they post stay within their bounds, and a row of
\* dba_reports says what its request was told.
BoundsInv ==
  /\ \A k \in BatchKinds : batch[k].number \in 0..MaxBatches
  /\ \A m \in posted : m.number \in 0..MaxBatches /\ m.nth \in 0..Cardinality(Monitored)
  /\ saved \subseteq [request : ReportRequests, slackSent : BOOLEAN, figures : Figures]

\* A message about an instance that is left to do is at most the last.
LEMMA MessageBounded ==
  ASSUME ReportInv, BoundsInv, NEW k \in BatchKinds, batch[k].todo # {}, NEW f
  PROVE  /\ Message(k, f).number \in 0..MaxBatches
         /\ Message(k, f).nth \in 0..Cardinality(Monitored)
<1>1. batch[k].todo \subseteq Monitored
  BY DEF ReportInv, ReportTypes
<1>2. /\ Cardinality(Monitored) \in Nat /\ Cardinality(batch[k].todo) \in Nat
      /\ Cardinality(batch[k].todo) <= Cardinality(Monitored)
      /\ Cardinality(batch[k].todo) # 0
  BY <1>1, ReportAssumption, FS_Subset, FS_CardinalityType, FS_EmptySet
<1> QED
  BY <1>2 DEF Message, BoundsInv

LEMMA BoundsKept == ReportInv /\ BoundsInv /\ [ReportNext]_reportVars => BoundsInv'
<1> SUFFICES ASSUME ReportInv, BoundsInv, [ReportNext]_reportVars PROVE BoundsInv'
  OBVIOUS
<1>0. /\ batch \in [BatchKinds -> [number : Nat, todo : SUBSET Monitored, aborted : BOOLEAN]]
      /\ request \in [ReportRequests -> RequestFields]
  BY DEF ReportInv, ReportTypes
<1>1. CASE UNCHANGED <<batch, posted, saved>>
  BY <1>1 DEF BoundsInv
<1>2. ASSUME NEW k \in BatchKinds, StartBatch(k) PROVE BoundsInv'
  <2>1. /\ UNCHANGED <<posted, saved>> /\ batch[k].number < MaxBatches
        /\ batch' = [batch EXCEPT ![k] = [number |-> batch[k].number + 1, todo |-> Monitored,
                                         aborted |-> FALSE]]
    BY <1>2 DEF StartBatch
  <2>2. batch'[k].number = batch[k].number + 1
    BY <1>0, <2>1
  <2>3. \A j \in BatchKinds \ {k} : batch'[j] = batch[j]
    BY <1>0, <2>1
  <2> QED
    BY <2>1, <2>2, <2>3, ReportAssumption DEF BoundsInv
<1>3. ASSUME NEW k \in BatchKinds, NEW i \in batch[k].todo, NEW aborted, Advance(k, i, aborted),
             UNCHANGED saved,
             \A m \in posted' : m \in posted \/ \E f \in 0..AllFigures : m = Message(k, f)
      PROVE  BoundsInv'
  <2>1. \A j \in BatchKinds : batch'[j].number = batch[j].number
    BY <1>0, <1>3 DEF Advance
  <2>2. \A f : /\ Message(k, f).number \in 0..MaxBatches
              /\ Message(k, f).nth \in 0..Cardinality(Monitored)
    BY <1>3, MessageBounded
  <2> QED
    BY <1>3, <2>1, <2>2 DEF BoundsInv
<1>4. ASSUME NEW i \in Monitored, NEW delivery \in Deliveries, NEW answered \in 0..AllFigures,
             MorningReport(i, answered, delivery)
      PROVE  BoundsInv'
  <2>1. PICK f : f = MorningFigures(batch["morning"].aborted, answered)
    OBVIOUS
  <2>2. f \in 0..AllFigures
    BY <2>1 DEF MorningFigures, AllFigures
  <2>3. /\ i \in batch["morning"].todo /\ UNCHANGED saved
        /\ posted' \subseteq posted \cup {Message("morning", f)}
        /\ Advance("morning", i, f < AllFigures)
    BY <1>4, <2>1 DEF MorningReport, Post
  <2>4. "morning" \in BatchKinds
    BY DEF BatchKinds
  <2> QED
    BY <1>3, <2>2, <2>3, <2>4
<1>5. ASSUME NEW i \in Monitored, NEW delivery \in Deliveries, NEW reached \in BOOLEAN,
             NEW ok \in BOOLEAN, NEW slow \in BOOLEAN, DbaReport(i, reached, ok, slow, delivery)
      PROVE  BoundsInv'
  <2>1. /\ i \in batch["dba"].todo /\ UNCHANGED saved
        /\ posted' \subseteq posted \cup {Message("dba", FiguresWith(slow))}
        /\ Advance("dba", i, batch["dba"].aborted \/ (reached /\ ~ok))
    BY <1>5 DEF DbaReport, Post, ReportFigures
  <2>2. "dba" \in BatchKinds /\ FiguresWith(slow) \in 0..AllFigures
    BY SlowFigures DEF BatchKinds, Figures
  <2> QED
    BY <1>3, <2>1, <2>2
<1>6. ASSUME NEW q \in ReportRequests, NEW delivery \in Deliveries, TellSlack(q, delivery)
      PROVE  BoundsInv'
  <2>1. /\ UNCHANGED <<batch, saved>>
        /\ posted' \subseteq posted \cup {[from |-> q, number |-> 0, nth |-> 0,
                                          figures |-> request[q].figures]}
    BY <1>6 DEF TellSlack, Post
  <2>2. Cardinality(Monitored) \in Nat
    BY ReportAssumption, FS_CardinalityType
  <2> QED
    BY <2>1, <2>2, ReportAssumption DEF BoundsInv
<1>7. ASSUME NEW q \in ReportRequests, NEW ok \in BOOLEAN, SaveReport(q, ok) PROVE BoundsInv'
  <2>1. /\ UNCHANGED <<batch, posted>>
        /\ saved' \subseteq saved \cup {RowOf(q)}
    BY <1>7 DEF SaveReport, RowOf
  <2>2. request[q].told \in BOOLEAN /\ request[q].figures \in Figures
    BY <1>0 DEF RequestFields
  <2> QED
    BY <2>1, <2>2 DEF BoundsInv, RowOf
<1>8. ASSUME NEW q \in ReportRequests,
             \/ \E kind \in {"dba", "generate"}, slack \in BOOLEAN : AskReport(q, kind, slack)
             \/ \E ok, slow \in BOOLEAN : GatherReport(q, ok, slow)
             \/ \E gathered, answered, inserted \in BOOLEAN :
                  GenerateReport(q, gathered, answered, inserted)
             \/ CloseSession(q) \/ LoseRequest(q)
      PROVE  UNCHANGED <<batch, posted, saved>>
  BY <1>8 DEF AskReport, GatherReport, GenerateReport, CloseSession, LoseRequest
<1>9. CASE UNCHANGED reportVars
  BY <1>1, <1>9 DEF reportVars
<1> QED
  BY <1>1, <1>2, <1>4, <1>5, <1>6, <1>7, <1>8, <1>9 DEF ReportNext

\* Batches, requests, messages and rows of reports keep their types.
THEOREM ReportTypeInvariant == ReportSpec => []ReportTypeOK
<1>1. ReportInit => BoundsInv
  BY ReportAssumption DEF ReportInit, BoundsInv
<1>2. ReportInv /\ BoundsInv => ReportTypeOK
  BY DEF ReportInv, ReportTypes, Sent, RequestFields, Figures, BoundsInv, ReportTypeOK
<1> QED
  BY <1>1, <1>2, ReportInvHolds, BoundsKept, PTL DEF ReportSpec

-----------------------------------------------------------------------------
(* Samples and rates.                                                      *)

RunStates ==
  [pc : {"idle", "collecting"}, step : [Instances -> Steps],
   at : [Instances -> 0..LastTick], rows : SUBSET Sample]

CollectionTypes ==
  /\ clock \in 0..LastTick /\ resets \in 0..MaxResets
  /\ target \in [Instances -> [counters : Counters, state : TargetStates]]
  /\ work \in [Instances -> Counters]
  /\ \A i \in Instances : work[i].hit + work[i].read <= MaxWork
  /\ \A i \in Instances, w \in {"hit", "read"} : target[i].counters[w] <= work[i][w]
  /\ run \in [Runs -> RunStates]
  /\ samples \subseteq Sample
  /\ kpi.pc \in {"idle", "answered"}

Bounds == LastTick \in Nat /\ MaxWork \in Nat /\ MaxResets \in Nat

LEMMA BoundsAreNat == Bounds
BY CollectionAssumption DEF Bounds

\* A step of one run that keeps the types.
LEMMA RunStep ==
  ASSUME CollectionTypes, NEW k \in Runs, NEW r \in RunStates, run' = [run EXCEPT ![k] = r],
         samples' \subseteq Sample, UNCHANGED <<clock, target, work, resets, kpi>>
  PROVE  CollectionTypes'
BY DEF CollectionTypes

LEMMA RestingTyped == Resting \in RunStates
BY BoundsAreNat DEF Resting, RunStates, Bounds, Steps

LEMMA CollectionTypesHold == CollectionSpec => []CollectionTypes
<1>1. CollectionInit => CollectionTypes
  BY BoundsAreNat, RestingTyped
     DEF CollectionInit, CollectionTypes, Zero, Counters, TargetStates, NoRequest, Bounds
<1>2. CollectionTypes /\ [CollectionNext]_collectionVars => CollectionTypes'
  <2> SUFFICES ASSUME CollectionTypes, [CollectionNext]_collectionVars PROVE CollectionTypes'
    OBVIOUS
  <2>1. CASE UNCHANGED collectionVars
    BY <2>1 DEF CollectionTypes, collectionVars
  <2>2. CASE Pass
    BY <2>2, BoundsAreNat DEF Pass, CollectionTypes, Bounds
  <2>3. ASSUME NEW i \in Instances, NEW what \in {"hit", "read"}, Read(i, what)
        PROVE  CollectionTypes'
    <3>1. PICK c : c = [target[i].counters EXCEPT ![what] = @ + 1]
      OBVIOUS
    <3>2. PICK t : t = [target[i] EXCEPT !.counters = c]
      OBVIOUS
    <3>3. PICK d : d = [work[i] EXCEPT ![what] = @ + 1]
      OBVIOUS
    <3>4. target[i].counters \in Counters /\ work[i] \in Counters /\ MaxWork \in Nat
      BY BoundsAreNat DEF CollectionTypes, Bounds
    <3>5. work[i].hit + work[i].read < MaxWork
      BY <2>3 DEF Read
    <3>6. d \in Counters /\ d.hit + d.read <= MaxWork
      BY <3>3, <3>4, <3>5 DEF Counters
    <3>7. \A w \in {"hit", "read"} : target[i].counters[w] <= work[i][w]
      BY DEF CollectionTypes
    <3>8. c \in Counters /\ \A w \in {"hit", "read"} : c[w] <= d[w]
      BY <3>1, <3>3, <3>4, <3>5, <3>7 DEF Counters
    <3>9. t \in [counters : Counters, state : TargetStates] /\ t.counters = c
      BY <3>2, <3>8 DEF CollectionTypes
    <3>10. /\ target' = [target EXCEPT ![i] = t] /\ work' = [work EXCEPT ![i] = d]
           /\ UNCHANGED <<clock, resets, run, samples, kpi>>
      BY <2>3, <3>1, <3>2, <3>3 DEF Read
    <3> QED
      BY <3>6, <3>8, <3>9, <3>10 DEF CollectionTypes
  <2>4. ASSUME NEW i \in Instances, ResetStatistics(i) PROVE CollectionTypes'
    <3>1. PICK t : t = [target[i] EXCEPT !.counters = Zero]
      OBVIOUS
    <3>2. t \in [counters : Counters, state : TargetStates] /\ t.counters = Zero /\ Zero \in Counters
      BY <3>1, BoundsAreNat DEF CollectionTypes, Zero, Counters, Bounds
    <3>3. /\ target' = [target EXCEPT ![i] = t] /\ resets' \in 0..MaxResets
          /\ UNCHANGED <<clock, work, run, samples, kpi>>
      BY <2>4, <3>1, BoundsAreNat DEF ResetStatistics, CollectionTypes, Bounds
    <3>4. \A w \in {"hit", "read"} : Zero[w] <= work[i][w]
      BY BoundsAreNat DEF CollectionTypes, Zero, Counters, Bounds
    <3> QED
      BY <3>2, <3>3, <3>4 DEF CollectionTypes
  <2>5. ASSUME NEW i \in Instances, NEW state \in TargetStates, TargetChanges(i, state)
        PROVE  CollectionTypes'
    <3>1. PICK t : t = [target[i] EXCEPT !.state = state]
      OBVIOUS
    <3>2. t \in [counters : Counters, state : TargetStates] /\ t.counters = target[i].counters
      BY <3>1 DEF CollectionTypes
    <3>3. /\ target' = [target EXCEPT ![i] = t]
          /\ UNCHANGED <<clock, work, resets, run, samples, kpi>>
      BY <2>5, <3>1 DEF TargetChanges
    <3> QED
      BY <3>2, <3>3 DEF CollectionTypes
  <2>6. ASSUME NEW i \in Instances, FetchHot(i) PROVE CollectionTypes'
    BY <2>6 DEF FetchHot, CollectionTypes
  <2>7. ASSUME NEW k \in Runs, StartRun(k) PROVE CollectionTypes'
    <3>1. PICK r : r = [Resting EXCEPT !.pc = "collecting", !.step = [i \in Instances |-> "connecting"]]
      OBVIOUS
    <3>2. [i \in Instances |-> "connecting"] \in [Instances -> Steps]
      BY DEF Steps
    <3>3. r \in RunStates
      BY <3>1, <3>2, RestingTyped DEF RunStates
    <3> QED
      BY <2>7, <3>1, <3>3, RunStep DEF StartRun, CollectionTypes
  <2>8. ASSUME NEW k \in Runs, NEW i \in Instances, Connect(k, i) PROVE CollectionTypes'
    <3>1. PICK next : next = IF target[i].state = "answers" THEN "stamped" ELSE "ended"
      OBVIOUS
    <3>2. PICK time : time = IF target[i].state = "answers" THEN clock ELSE 0
      OBVIOUS
    <3>3. PICK r : r = [run[k] EXCEPT !.step = [@ EXCEPT ![i] = next], !.at = [@ EXCEPT ![i] = time]]
      OBVIOUS
    <3>4. next \in Steps /\ time \in 0..LastTick
      BY <3>1, <3>2, BoundsAreNat DEF Steps, Bounds, CollectionTypes
    <3>5. r \in RunStates
      BY <3>3, <3>4 DEF RunStates, CollectionTypes
    <3>6. run' = [run EXCEPT ![k] = r]
      <4>1. run \in [Runs -> RunStates]
        BY DEF CollectionTypes
      <4>2. run' = [run EXCEPT ![k].step = [@ EXCEPT ![i] = next],
                               ![k].at = [@ EXCEPT ![i] = time]]
        BY <2>8, <3>1, <3>2, <4>1 DEF Connect, RunStates
      <4> QED
        BY <3>3, <4>1, <4>2 DEF RunStates
    <3> QED
      BY <2>8, <3>5, <3>6, RunStep DEF Connect, CollectionTypes
  <2>9. ASSUME NEW k \in Runs, NEW i \in Instances, ReadTarget(k, i) PROVE CollectionTypes'
    <3>1. PICK rows : rows = IF target[i].state = "answers" THEN run[k].rows \cup {SampleOf(k, i)}
                                                            ELSE run[k].rows
      OBVIOUS
    <3>2. PICK r : r = [run[k] EXCEPT !.step = [@ EXCEPT ![i] = "ended"], !.rows = rows]
      OBVIOUS
    <3>3. SampleOf(k, i) \in Sample
      BY DEF SampleOf, Sample, CollectionTypes, RunStates
    <3>4. rows \subseteq Sample /\ "ended" \in Steps
      BY <3>1, <3>3 DEF CollectionTypes, RunStates, Steps
    <3>5. r \in RunStates
      BY <3>2, <3>4 DEF RunStates, CollectionTypes
    <3>6. run' = [run EXCEPT ![k] = r]
      BY <2>9, <3>1, <3>2 DEF ReadTarget, CollectionTypes, RunStates
    <3> QED
      BY <2>9, <3>5, <3>6, RunStep DEF ReadTarget, CollectionTypes
  <2>10. ASSUME NEW k \in Runs, CommitRun(k) \/ CutRun(k) \/ LoseRun(k) PROVE CollectionTypes'
    <3>1. run[k].rows \subseteq Sample /\ samples \subseteq Sample
      BY DEF CollectionTypes, RunStates
    <3>2. /\ run' = [run EXCEPT ![k] = Resting] /\ samples' \subseteq samples \cup run[k].rows
          /\ UNCHANGED <<clock, target, work, resets, kpi>>
      BY <2>10 DEF CommitRun, CutRun, LoseRun
    <3> QED
      BY <3>1, <3>2, RestingTyped, RunStep
  <2> QED
    BY <2>1, <2>2, <2>3, <2>4, <2>5, <2>6, <2>7, <2>8, <2>9, <2>10
       DEF CollectionNext, CollectionGoesOn, CollectionStep
<1> QED
  BY <1>1, <1>2, PTL DEF CollectionSpec

\* The types of the collection (tasks/collect.py, services/kpi_calculator.py).
THEOREM CollectionTypeInvariant == CollectionSpec => []CollectionTypeOK
<1>1. CollectionTypes => CollectionTypeOK
  BY DEF CollectionTypes, CollectionTypeOK, RunStates
<1> QED
  BY <1>1, CollectionTypesHold, PTL

\* Every sample, stored or not.
AllSamples == samples \cup UNION {run[k].rows : k \in Runs}

\* The work a counter does not know of, because it was reset after it.
Forgotten(s, w) == s.work[w] - s.counters[w]
ForgottenNow(i, w) == work[i][w] - target[i].counters[w]

SampleIsPast(s) ==
  /\ s.resets <= resets
  /\ \A w \in {"hit", "read"} :
       /\ Forgotten(s, w) <= ForgottenNow(s.instance, w)
       /\ s.resets = resets => Forgotten(s, w) = ForgottenNow(s.instance, w)

\* A reset makes a counter forget; nothing makes it remember.
ForgetsMore(s, t) ==
  s.instance = t.instance /\ s.resets <= t.resets =>
    \A w \in {"hit", "read"} : Forgotten(s, w) <= Forgotten(t, w)

HotIsStored ==
  kpi.pc = "answered" /\ Len(kpi.hot) = 2 =>
    {kpi.hot[1], kpi.hot[2]} \subseteq samples /\ kpi.hot[1].instance = kpi.hot[2].instance

RateInv ==
  /\ CollectionTypes
  /\ \A s \in AllSamples : SampleIsPast(s)
  /\ \A s, t \in AllSamples : ForgetsMore(s, t)
  /\ HotIsStored

LEMMA SamplesTyped == CollectionTypes => AllSamples \subseteq Sample
BY DEF CollectionTypes, RunStates, AllSamples

\* A step that reads nothing from a target.
LEMMA NothingRead ==
  ASSUME RateInv, AllSamples' \subseteq AllSamples, samples \subseteq samples',
         UNCHANGED <<kpi, resets>>,
         \A i \in Instances, w \in {"hit", "read"} : ForgottenNow(i, w)' = ForgottenNow(i, w)
  PROVE  /\ \A s \in AllSamples' : SampleIsPast(s)'
         /\ \A s, t \in AllSamples' : ForgetsMore(s, t)
         /\ HotIsStored'
<1>1. \A s \in AllSamples' : s.instance \in Instances
  BY SamplesTyped DEF RateInv, Sample
<1>2. \A s \in AllSamples' : SampleIsPast(s)'
  BY <1>1 DEF RateInv, SampleIsPast
<1>3. HotIsStored'
  BY DEF RateInv, HotIsStored
<1> QED
  BY <1>2, <1>3 DEF RateInv

LEMMA RateInvHolds == CollectionSpec => []RateInv
<1> DEFINE Rest == /\ \A s \in AllSamples : SampleIsPast(s)
                   /\ \A s, t \in AllSamples : ForgetsMore(s, t)
                   /\ HotIsStored
<1>1. CollectionInit => Rest
  BY DEF CollectionInit, AllSamples, Resting, HotIsStored, NoRequest
<1>2. RateInv /\ CollectionTypes' /\ [CollectionNext]_collectionVars => Rest'
  <2> SUFFICES ASSUME RateInv, CollectionTypes', [CollectionNext]_collectionVars PROVE Rest'
    OBVIOUS
  <2>1. CASE UNCHANGED collectionVars
    <3>1. AllSamples' = AllSamples
      BY <2>1 DEF collectionVars, AllSamples
    <3>2. \A i \in Instances, w \in {"hit", "read"} : ForgottenNow(i, w)' = ForgottenNow(i, w)
      BY <2>1 DEF collectionVars, ForgottenNow
    <3> QED
      BY <2>1, <3>1, <3>2, NothingRead DEF collectionVars
  <2>2. CASE Pass
    BY <2>2, NothingRead DEF Pass, AllSamples, ForgottenNow
  <2>3. ASSUME NEW i \in Instances, NEW what \in {"hit", "read"}, Read(i, what) PROVE Rest'
    <3>1. AllSamples' = AllSamples
      BY <2>3 DEF Read, AllSamples
    <3>2. ASSUME NEW j \in Instances, NEW w \in {"hit", "read"}
          PROVE  ForgottenNow(j, w)' = ForgottenNow(j, w)
      BY <2>3 DEF Read, ForgottenNow, RateInv, CollectionTypes, Counters
    <3> QED
      BY <2>3, <3>1, <3>2, NothingRead DEF Read
  <2>4. ASSUME NEW i \in Instances, ResetStatistics(i) PROVE Rest'
    <3>1. AllSamples' = AllSamples /\ UNCHANGED <<kpi, samples>> /\ resets' = resets + 1
      BY <2>4 DEF ResetStatistics, AllSamples
    <3>2. ASSUME NEW j \in Instances, NEW w \in {"hit", "read"}
          PROVE  ForgottenNow(j, w) <= ForgottenNow(j, w)'
      <4>1. /\ work[j][w] \in Nat /\ target[j].counters[w] \in Nat /\ work' = work
            /\ target'[j].counters = IF j = i THEN Zero ELSE target[j].counters
        BY <2>4, BoundsAreNat DEF ResetStatistics, RateInv, CollectionTypes, Counters, Bounds
      <4> QED
        BY <4>1 DEF ForgottenNow, Zero
    <3>3. ASSUME NEW s \in AllSamples PROVE SampleIsPast(s)'
      <4>1. s \in Sample /\ SampleIsPast(s)
        BY SamplesTyped DEF RateInv
      <4>2. /\ s.resets \in Int /\ resets \in Int /\ s.instance \in Instances
            /\ \A w \in {"hit", "read"} : Forgotten(s, w) \in Int
        BY <4>1, BoundsAreNat DEF Sample, Counters, RateInv, CollectionTypes, Bounds, Forgotten
      <4>3. \A w \in {"hit", "read"} : /\ ForgottenNow(s.instance, w) \in Int
                                       /\ ForgottenNow(s.instance, w)' \in Int
        BY <4>2, BoundsAreNat DEF RateInv, CollectionTypes, Counters, Bounds, ForgottenNow
      <4> QED
        BY <3>1, <3>2, <4>1, <4>2, <4>3 DEF SampleIsPast
    <3> QED
      BY <3>1, <3>3 DEF RateInv, HotIsStored
  <2>5. ASSUME NEW i \in Instances, NEW state \in TargetStates, TargetChanges(i, state)
        PROVE  Rest'
    <3>1. AllSamples' = AllSamples
      BY <2>5 DEF TargetChanges, AllSamples
    <3>2. \A j \in Instances, w \in {"hit", "read"} : ForgottenNow(j, w)' = ForgottenNow(j, w)
      BY <2>5 DEF TargetChanges, ForgottenNow, RateInv, CollectionTypes
    <3> QED
      BY <2>5, <3>1, <3>2, NothingRead DEF TargetChanges
  <2>6. ASSUME NEW i \in Instances, FetchHot(i) PROVE Rest'
    <3>1. PICK pair \in LastTwoHot(i) : kpi' = [pc |-> "answered", instance |-> i, hot |-> pair]
      BY <2>6 DEF FetchHot
    <3>2. UNCHANGED <<target, work, resets, run, samples>>
      BY <2>6 DEF FetchHot
    <3>3. Len(pair) = 2 => {pair[1], pair[2]} \subseteq Of(i)
      BY <3>1 DEF LastTwoHot, Latest
    <3>4. HotIsStored'
      BY <3>1, <3>2, <3>3 DEF HotIsStored, Of
    <3> QED
      BY <3>2, <3>4 DEF RateInv, AllSamples, SampleIsPast, ForgottenNow
  <2>7. ASSUME NEW k \in Runs, NEW i \in Instances, ReadTarget(k, i) PROVE Rest'
    <3>1. PICK s : s = SampleOf(k, i)
      OBVIOUS
    <3>2. /\ s.instance = i /\ s.resets = resets /\ s \in Sample
          /\ \A w \in {"hit", "read"} : Forgotten(s, w) = ForgottenNow(i, w)
      BY <3>1 DEF SampleOf, Forgotten, ForgottenNow, Sample, RateInv, CollectionTypes, RunStates
    <3>3. run'[k].rows \subseteq run[k].rows \cup {s} /\ \A l \in Runs \ {k} : run'[l] = run[l]
      BY <2>7, <3>1 DEF ReadTarget, RateInv, CollectionTypes, RunStates
    <3>4. AllSamples' \subseteq AllSamples \cup {s} /\ UNCHANGED <<kpi, samples, resets, work, target>>
      BY <2>7, <3>3 DEF AllSamples, ReadTarget
    <3>5. \A t \in AllSamples \cup {s} :
            /\ t \in Sample /\ t.resets \in Int
            /\ \A w \in {"hit", "read"} : Forgotten(t, w) \in Int
      BY <3>2, SamplesTyped, BoundsAreNat DEF RateInv, Sample, Counters, Bounds, Forgotten
    <3>6. SampleIsPast(s)
      BY <3>2, <3>5 DEF SampleIsPast
    <3>7. \A t \in AllSamples : ForgetsMore(t, s)
      BY <3>2, <3>5 DEF RateInv, SampleIsPast, ForgetsMore
    <3>8. \A t \in AllSamples : ForgetsMore(s, t)
      BY <3>2, <3>5 DEF RateInv, SampleIsPast, ForgetsMore
    <3>9. ForgetsMore(s, s)
      BY <3>5 DEF ForgetsMore
    <3>10. \A t \in AllSamples' : SampleIsPast(t)'
      BY <3>4, <3>6 DEF RateInv, SampleIsPast, ForgottenNow
    <3> QED
      BY <3>4, <3>7, <3>8, <3>9, <3>10 DEF RateInv, HotIsStored
  <2>8. ASSUME NEW k \in Runs,
               \/ StartRun(k) \/ (\E i \in Instances : Connect(k, i))
               \/ CommitRun(k) \/ CutRun(k) \/ LoseRun(k)
        PROVE  Rest'
    <3>1. /\ UNCHANGED <<kpi, resets, work, target>> /\ samples \subseteq samples'
          /\ samples' \subseteq samples \cup run[k].rows
          /\ run'[k].rows \subseteq run[k].rows /\ \A l \in Runs \ {k} : run'[l] = run[l]
      <4>1. run \in [Runs -> RunStates]
        BY DEF RateInv, CollectionTypes
      <4>2. PICK r : run' = [run EXCEPT ![k] = r] /\ r.rows \subseteq run[k].rows
        <5>1. CASE StartRun(k) \/ CommitRun(k) \/ CutRun(k) \/ LoseRun(k)
          <6>1. PICK started : started = [Resting EXCEPT !.pc = "collecting",
                                            !.step = [i \in Instances |-> "connecting"]]
            OBVIOUS
          <6>2. started.rows = {} /\ Resting.rows = {}
            BY <6>1 DEF Resting
          <6>3. CASE StartRun(k)
            <7>1. run' = [run EXCEPT ![k] = started]
              BY <6>1, <6>3 DEF StartRun
            <7> QED
              BY <6>2, <7>1
          <6>4. CASE CommitRun(k) \/ CutRun(k) \/ LoseRun(k)
            <7>1. run' = [run EXCEPT ![k] = Resting]
              BY <6>4 DEF CommitRun, CutRun, LoseRun
            <7> QED
              BY <6>2, <7>1
          <6> QED
            BY <5>1, <6>3, <6>4
        <5>2. ASSUME NEW i \in Instances, Connect(k, i)
              PROVE  \E r : run' = [run EXCEPT ![k] = r] /\ r.rows \subseteq run[k].rows
          <6>1. PICK next : next = IF target[i].state = "answers" THEN "stamped" ELSE "ended"
            OBVIOUS
          <6>2. PICK time : time = IF target[i].state = "answers" THEN clock ELSE 0
            OBVIOUS
          <6>3. PICK r : r = [run[k] EXCEPT !.step = [@ EXCEPT ![i] = next],
                                            !.at = [@ EXCEPT ![i] = time]]
            OBVIOUS
          <6>4. r.rows = run[k].rows
            BY <4>1, <6>3 DEF RunStates
          <6>5. run' = [run EXCEPT ![k] = r]
            BY <4>1, <5>2, <6>1, <6>2, <6>3 DEF Connect, RunStates
          <6> QED
            BY <6>4, <6>5
        <5> QED
          BY <2>8, <5>1, <5>2
      <4>3. /\ UNCHANGED <<kpi, resets, work, target>> /\ samples \subseteq samples'
            /\ samples' \subseteq samples \cup run[k].rows
        BY <2>8 DEF StartRun, Connect, CommitRun, CutRun, LoseRun
      <4> QED
        BY <4>1, <4>2, <4>3
    <3>2. AllSamples' \subseteq AllSamples
      BY <3>1 DEF AllSamples
    <3> QED
      BY <3>1, <3>2, NothingRead DEF ForgottenNow
  <2> QED
    BY <2>1, <2>2, <2>3, <2>4, <2>5, <2>6, <2>7, <2>8
       DEF CollectionNext, CollectionGoesOn, CollectionStep
<1>3. RateInv <=> CollectionTypes /\ Rest
  BY DEF RateInv
<1> QED
  BY <1>1, <1>2, <1>3, CollectionTypesHold, PTL DEF CollectionSpec

\* A share of a whole is a percentage.
LEMMA RatioIsPercent ==
  ASSUME NEW h \in Nat, NEW r \in Nat
  PROVE  HitRatioOf(h, r) \in 0..100
<1>1. CASE h + r = 0
  BY <1>1 DEF HitRatioOf
<1>2. CASE h + r > 0
  <2>1. PICK all : all = h + r
    OBVIOUS
  <2>2. PICK q : q = (100 * h) \div all
    OBVIOUS
  <2>3. all \in Nat /\ all > 0 /\ 100 * h \in Nat /\ 100 * h <= 100 * all
    BY <1>2, <2>1
  <2>4. q \in Int /\ q * all <= 100 * h /\ 100 * h < (q + 1) * all
    BY <2>2, <2>3
  <2>5. q \in 0..100
    BY <2>3, <2>4
  <2> QED
    BY <1>2, <2>1, <2>2, <2>5 DEF HitRatioOf
<1> QED
  BY <1>1, <1>2

\* The rates of the dashboard are the work of the target between two samples,
\* never a spike after its counters were reset, however collections overlap
\* (services/kpi_calculator.py:_delta_rate).
THEOREM KpisMeasure == CollectionSpec => []KpisAreMeasured
<1>1. RateInv => KpisAreMeasured
  <2> SUFFICES ASSUME RateInv, kpi.pc = "answered", HasDelta, ReadInOrder,
                      NEW done, done = [w \in {"hit", "read"} |-> kpi.hot[1].work[w] - kpi.hot[2].work[w]]
               PROVE  /\ \A v \in DiskIops : v <= done["read"]
                      /\ kpi.hot[1].resets = kpi.hot[2].resets =>
                           DiskIops = {done["read"]} /\ BufferHitRatio \subseteq 0..100
    BY DEF KpisAreMeasured
  <2> DEFINE s == kpi.hot[1]
             t == kpi.hot[2]
  <2>1. /\ s \in AllSamples /\ t \in AllSamples /\ s.instance = t.instance
        /\ s \in Sample /\ t \in Sample
    BY DEF RateInv, CollectionTypes, HotIsStored, HasDelta, AllSamples
  <2>2. \A w \in {"hit", "read"} : /\ s.work[w] \in Nat /\ t.work[w] \in Nat
                                   /\ s.counters[w] \in Nat /\ t.counters[w] \in Nat
    BY <2>1, BoundsAreNat DEF Sample, Counters, Bounds
  <2>3. s.resets \in Int /\ t.resets \in Int
    BY <2>1 DEF Sample
  <2>4. ForgetsMore(t, s) /\ ForgetsMore(s, t)
    BY <2>1 DEF RateInv
  <2>5. \A w \in {"hit", "read"} : /\ done[w] = s.work[w] - t.work[w]
                                   /\ done[w] \in Nat
                                   /\ Delta(w) = s.counters[w] - t.counters[w]
    BY <2>2 DEF ReadInOrder, Delta
  <2>6. \A w \in {"hit", "read"} : Delta(w) <= done[w]
    BY <2>1, <2>2, <2>4, <2>5 DEF ReadInOrder, ForgetsMore, Forgotten
  <2>7. DiskIops = {DeltaRate(Delta("read"))} /\ BufferHitRatio = {HitRatioOf(Delta("hit"), Delta("read"))}
    BY DEF DiskIops, BufferHitRatio
  <2>8. \A v \in DiskIops : v <= done["read"]
    BY <2>5, <2>6, <2>7 DEF DeltaRate
  <2>9. ASSUME s.resets = t.resets
        PROVE  DiskIops = {done["read"]} /\ BufferHitRatio \subseteq 0..100
    <3>1. \A w \in {"hit", "read"} : Delta(w) = done[w]
      BY <2>1, <2>2, <2>3, <2>4, <2>5, <2>9 DEF ForgetsMore, Forgotten
    <3> QED
      BY <2>5, <2>7, <3>1, RatioIsPercent DEF DeltaRate
  <2> QED
    BY <2>8, <2>9
<1> QED
  BY <1>1, RateInvHolds, PTL

-----------------------------------------------------------------------------
(* The schema detector.                                                    *)

\* A task that has begun holds a snapshot of the target.
TaskHoldsSnapshot == \A w \in Detectors : step[w] # "idle" => new[w] \in Snapshots

\* A comparison says of every change whether it is of a table, a column or an
\* index.
LEMMA ChangesHaveObjects ==
  ASSUME NEW a, NEW b, NEW c \in CompareSnapshots(a, b)
  PROVE  c.object \in {"TABLE", "COLUMN", "INDEX"}
<1>1. CASE c \in TableChanges(a, b)
  BY <1>1 DEF TableChanges, Change
<1>2. CASE c \in ColumnChanges(a, b)
  BY <1>2 DEF ColumnChanges, Change
<1>3. CASE c \in IndexChanges(a, b)
  BY <1>3 DEF IndexChanges, Change
<1> QED
  BY <1>1, <1>2, <1>3 DEF CompareSnapshots

LEMMA DetectorTypesHold == DetectorSpec => [](DetectorTypeOK /\ TaskHoldsSnapshot)
<1> DEFINE Inv == DetectorTypeOK /\ TaskHoldsSnapshot
<1>1. DetectorInit => Inv
  BY DEF DetectorInit, DetectorTypeOK, CacheCopy, TaskHoldsSnapshot
<1>2. Inv /\ [DetectorNext]_detectorVars => Inv'
  <2> SUFFICES ASSUME Inv, [DetectorNext]_detectorVars PROVE Inv'
    OBVIOUS
  <2> USE DEF DetectorTypeOK, TaskHoldsSnapshot
  <2>1. CASE AlterSchema
    BY <2>1 DEF AlterSchema
  <2>2. CASE ValkeyChange
    BY <2>2 DEF ValkeyChange, CacheCopy
  <2>3. ASSUME NEW w \in Detectors, TakeSnapshot(w) PROVE Inv'
    BY <2>3 DEF TakeSnapshot, CacheCopy
  <2>4. ASSUME NEW w \in Detectors, ReadCache(w) PROVE Inv'
    BY <2>4 DEF ReadCache, CachedSnapshot, CacheCopy
  <2>5. ASSUME NEW w \in Detectors, PersistChanges(w) PROVE Inv'
    BY <2>5, ChangesHaveObjects DEF PersistChanges
  <2>6. ASSUME NEW w \in Detectors, SetCache(w) PROVE Inv'
    <3>1. step[w] # "idle"
      BY <2>6 DEF SetCache, MayCache
    <3> QED
      BY <2>6, <3>1 DEF SetCache, CacheCopy
  <2>7. ASSUME NEW w \in Detectors, SkipOnError(w) PROVE Inv'
    BY <2>7 DEF SkipOnError, CacheCopy
  <2>8. ASSUME NEW w \in Detectors, CollectInWorker(w) PROVE Inv'
    BY <2>8 DEF CollectInWorker
  <2>9. ASSUME NEW w \in Detectors, ReplaceWorker(w) PROVE Inv'
    BY <2>9 DEF ReplaceWorker, CacheCopy
  <2>10. CASE UNCHANGED detectorVars
    BY <2>10 DEF detectorVars
  <2> QED
    BY <2>1, <2>2, <2>3, <2>4, <2>5, <2>6, <2>7, <2>8, <2>9, <2>10
    DEF DetectorNext, DetectionStep
<1> QED
  BY <1>1, <1>2, PTL DEF DetectorSpec

\* Every variable keeps its type (services/schema_detector.py, whatever
\* workers run, die or lose Valkey).
THEOREM DetectorTypeInvariant == DetectorSpec => []DetectorTypeOK
BY DetectorTypesHold, PTL

-----------------------------------------------------------------------------
(* The log explains what is cached.                                        *)

\* A snapshot explains itself.
LEMMA SameIsExplained == ASSUME NEW s PROVE Explained(s, s)
BY DEF Explained, ColumnExplained, IndexExplained

\* What the log explains it still explains when rows are added to it.
LEMMA LogOnlyAdds ==
  ASSUME log \subseteq log', NEW a, NEW b, Explained(a, b)
  PROVE  Explained(a, b)'
<1>1. \A object, name : Reported(object, name) => Reported(object, name)'
  BY DEF Reported
<1> QED
  BY <1>1 DEF Explained, ColumnExplained, IndexExplained

\* A comparison finds every difference: when its changes are in the log, and
\* snapshot a is explained from b, then so is the snapshot n that a was
\* compared with.
LEMMA ComparisonExplains ==
  ASSUME NEW b, NEW a, NEW n, Explained(b, a),
         log' = log \cup CompareSnapshots(a, n)
  PROVE  Explained(b, n)'
<1>1. \A object, name : Reported(object, name) => Reported(object, name)'
  BY DEF Reported
<1>2. ASSUME NEW c \in DOMAIN a.columns \cup DOMAIN n.columns
      PROVE  \/ c \in DOMAIN a.columns /\ c \in DOMAIN n.columns /\ a.columns[c] = n.columns[c]
             \/ Reported("COLUMN", c)'
             \/ Reported("TABLE", TableOf(c))'
  <2>1. CASE ColumnChanged(a, n, c)
    <3>1. Change("ALTER", "COLUMN", c) \in log'
      BY <2>1 DEF CompareSnapshots, ColumnChanges
    <3> QED
      BY <3>1 DEF Reported, Change
  <2>2. CASE TableOf(c) \in TablesOf(a) \ TablesOf(n)
    <3>1. Change("DROP", "TABLE", TableOf(c)) \in log'
      BY <2>2 DEF CompareSnapshots, TableChanges
    <3> QED
      BY <3>1 DEF Reported, Change
  <2>3. CASE TableOf(c) \in TablesOf(n) \ TablesOf(a)
    <3>1. Change("CREATE", "TABLE", TableOf(c)) \in log'
      BY <2>3 DEF CompareSnapshots, TableChanges
    <3> QED
      BY <3>1 DEF Reported, Change
  <2> QED
    BY <2>1, <2>2, <2>3 DEF ColumnChanged, TablesOf
<1>3. ASSUME NEW c \in DOMAIN b.columns \cup DOMAIN n.columns
      PROVE  ColumnExplained(b, n, c)'
  <2>1. CASE c \in DOMAIN b.columns \cup DOMAIN a.columns
    <3>1. ColumnExplained(b, a, c)
      BY <2>1 DEF Explained
    <3> QED
      BY <1>1, <1>2, <1>3, <3>1 DEF ColumnExplained
  <2>2. CASE c \notin DOMAIN b.columns \cup DOMAIN a.columns
    BY <1>2, <1>3, <2>2 DEF ColumnExplained
  <2> QED
    BY <2>1, <2>2
<1>4. ASSUME NEW i \in DOMAIN b.indexes \cup DOMAIN n.indexes
      PROVE  IndexExplained(b, n, i)'
  <2>1. (i \in DOMAIN a.indexes <=> i \in DOMAIN n.indexes) \/ Reported("INDEX", i)'
    <3>1. CASE i \in DOMAIN n.indexes \ DOMAIN a.indexes
      <4>1. Change("CREATE", "INDEX", i) \in log'
        BY <3>1 DEF CompareSnapshots, IndexChanges
      <4> QED
        BY <4>1 DEF Reported, Change
    <3>2. CASE i \in DOMAIN a.indexes \ DOMAIN n.indexes
      <4>1. Change("DROP", "INDEX", i) \in log'
        BY <3>2 DEF CompareSnapshots, IndexChanges
      <4> QED
        BY <4>1 DEF Reported, Change
    <3> QED
      BY <3>1, <3>2
  <2>2. (i \in DOMAIN b.indexes <=> i \in DOMAIN a.indexes) \/ Reported("INDEX", i)'
    <3>1. CASE i \in DOMAIN b.indexes \cup DOMAIN a.indexes
      BY <1>1, <3>1 DEF Explained, IndexExplained
    <3>2. CASE i \notin DOMAIN b.indexes \cup DOMAIN a.indexes
      BY <3>2
    <3> QED
      BY <3>1, <3>2
  <2> QED
    BY <2>1, <2>2 DEF IndexExplained
<1> QED
  BY <1>3, <1>4 DEF Explained

\* What is explained stays so while the log and the baselines only grow.
LEMMA ExplainedByLogStays ==
  ASSUME log \subseteq log', baselines \subseteq baselines', NEW s, ExplainedByLog(s)
  PROVE  ExplainedByLog(s)'
BY LogOnlyAdds DEF ExplainedByLog

LEMMA LogInvHolds == DetectorSpec => [](LogExplainsCaches /\ LogExplainsRuns)
<1> DEFINE Inv == LogExplainsCaches /\ LogExplainsRuns
<1>1. DetectorInit => Inv
  BY DEF DetectorInit, LogExplainsCaches, LogExplainsRuns, ExplainedByLog
<1>2. DetectorTypeOK /\ Inv /\ [DetectorNext]_detectorVars => Inv'
  <2> SUFFICES ASSUME DetectorTypeOK, Inv, [DetectorNext]_detectorVars PROVE Inv'
    OBVIOUS
  <2> USE DEF DetectorTypeOK, LogExplainsCaches, LogExplainsRuns
  <2>1. ASSUME log' = log, baselines' = baselines, NEW s, ExplainedByLog(s)
        PROVE  ExplainedByLog(s)'
    BY <2>1, ExplainedByLogStays
  <2>2. ExplainedByLog(NoSnapshot)'
    BY DEF ExplainedByLog
  <2>3. CASE AlterSchema
    BY <2>1, <2>3 DEF AlterSchema
  <2>4. CASE ValkeyChange
    BY <2>1, <2>2, <2>4 DEF ValkeyChange
  <2>5. ASSUME NEW w \in Detectors, TakeSnapshot(w) PROVE Inv'
    BY <2>1, <2>5 DEF TakeSnapshot
  <2>6. ASSUME NEW w \in Detectors, ReadCache(w) PROVE Inv'
    BY <2>1, <2>6 DEF ReadCache, CachedSnapshot
  <2>7. ASSUME NEW w \in Detectors, PersistChanges(w) PROVE Inv'
    <3>1. ASSUME NEW s, ExplainedByLog(s) PROVE ExplainedByLog(s)'
      BY <2>7, <3>1, ExplainedByLogStays DEF PersistChanges
    <3>2. ExplainedByLog(new[w])'
      <4>1. PICK b \in baselines : Explained(b, old[w])
        BY <2>7 DEF PersistChanges, HasChanges, ExplainedByLog
      <4>2. Explained(b, new[w])'
        <5>1. PICK a, n : a = old[w] /\ n = new[w]
          OBVIOUS
        <5>2. Explained(b, n)'
          BY <2>7, <4>1, <5>1, ComparisonExplains DEF PersistChanges
        <5> QED
          BY <2>7, <5>1, <5>2 DEF PersistChanges
      <4> QED
        BY <2>7, <4>1, <4>2 DEF ExplainedByLog, PersistChanges
    <3> QED
      BY <2>7, <3>1, <3>2 DEF PersistChanges
  <2>8. ASSUME NEW w \in Detectors, SetCache(w) PROVE Inv'
    <3>1. log' = log /\ baselines \subseteq baselines'
      BY <2>8 DEF SetCache
    <3>2. ASSUME NEW s, ExplainedByLog(s) PROVE ExplainedByLog(s)'
      BY <3>1, <3>2, ExplainedByLogStays
    <3>3. ASSUME NEW n, n = new[w] PROVE ExplainedByLog(n)'
      <4>1. CASE step[w] = "persisted"
        BY <3>2, <3>3, <4>1
      <4>2. CASE step[w] = "compared" /\ ~HasChanges(w) /\ old[w] = NoSnapshot
        <5>1. n \in baselines'
          BY <2>8, <3>3, <4>2 DEF SetCache
        <5>2. Explained(n, n)'
          BY SameIsExplained DEF Explained, ColumnExplained, IndexExplained
        <5> QED
          BY <5>1, <5>2 DEF ExplainedByLog
      <4>3. CASE step[w] = "compared" /\ ~HasChanges(w) /\ old[w] # NoSnapshot
        <5>1. PICK a : a = old[w]
          OBVIOUS
        <5>2. CompareSnapshots(a, n) = {}
          BY <3>3, <4>3, <5>1 DEF HasChanges
        <5>3. PICK b \in baselines : Explained(b, a)
          BY <4>3, <5>1 DEF ExplainedByLog
        <5>4. Explained(b, n)'
          BY <3>1, <5>2, <5>3, ComparisonExplains
        <5> QED
          BY <3>1, <5>3, <5>4 DEF ExplainedByLog
      <4> QED
        BY <2>8, <4>1, <4>2, <4>3 DEF SetCache, MayCache
    <3>4. PICK n : n = new[w]
      OBVIOUS
    <3>5. ExplainedByLog(n)'
      BY <3>3, <3>4
    <3>6. ExplainedByLog(cached)'
      BY <2>8, <3>2, <3>4, <3>5 DEF SetCache
    <3>7. ASSUME NEW v \in Detectors PROVE ExplainedByLog(memory[v])'
      <4>1. CASE v = w
        BY <2>8, <3>4, <3>5, <4>1 DEF SetCache
      <4>2. CASE v # w
        BY <2>8, <3>2, <4>2 DEF SetCache
      <4> QED
        BY <4>1, <4>2
    <3>8. LogExplainsRuns'
      <4>1. ASSUME NEW v \in Detectors
            PROVE  /\ ExplainedByLog(old[v])'
                   /\ step'[v] = "persisted" => ExplainedByLog(new[v])'
        <5>1. CASE v = w
          BY <2>2, <2>8, <5>1 DEF SetCache
        <5>2. CASE v # w
          BY <2>8, <3>2, <5>2 DEF SetCache
        <5> QED
          BY <5>1, <5>2
      <4> QED
        BY <4>1
    <3> QED
      BY <3>6, <3>7, <3>8
  <2>9. ASSUME NEW w \in Detectors, SkipOnError(w) PROVE Inv'
    BY <2>1, <2>2, <2>9 DEF SkipOnError
  <2>10. ASSUME NEW w \in Detectors, CollectInWorker(w) PROVE Inv'
    BY <2>1, <2>10 DEF CollectInWorker
  <2>11. ASSUME NEW w \in Detectors, ReplaceWorker(w) PROVE Inv'
    BY <2>1, <2>2, <2>11 DEF ReplaceWorker
  <2>12. CASE UNCHANGED detectorVars
    BY <2>1, <2>12 DEF detectorVars
  <2> QED
    BY <2>3, <2>4, <2>5, <2>6, <2>7, <2>8, <2>9, <2>10, <2>11, <2>12
    DEF DetectorNext, DetectionStep
<1> QED
  BY <1>1, <1>2, DetectorTypeInvariant, PTL DEF DetectorSpec

\* No change of a schema is skipped (SchemaDetector.detect_changes): whatever
\* workers overlap, die between the commit and the cache, or lose Valkey,
\* every copy of the cached snapshot differs from a first snapshot only in
\* what schema_changes reports.
THEOREM LogExplainsCopies == DetectorSpec => []LogExplainsCaches
BY LogInvHolds, PTL

-----------------------------------------------------------------------------
(* All of them side by side.                                               *)

\* What runs side by side is, for each task, a behaviour of its own: the steps
\* of the others leave its state alone.
LEMMA StepsOfParts ==
  ASSUME [TasksNext]_TasksVars
  PROVE  /\ [AnomalyNext]_anomalyVars /\ [DetectorNext]_detectorVars
         /\ [TrainingNext]_trainingVars /\ [CollectionNext]_collectionVars
         /\ [ReportNext]_reportVars
BY DEF TasksNext, TasksVars

\* The tasks of the workers side by side are behaviours of the detection, the
\* schema detector, the trainings, the collection and the reports, so that all
\* that is proved of one of them holds when the others run.
THEOREM TasksAreTheirParts ==
  TasksSpec => /\ AnomalySpec /\ DetectorSpec /\ TrainingSpec
               /\ CollectionSpec /\ ReportSpec
<1>1. TasksInit => /\ AnomalyInit /\ DetectorInit /\ TrainingInit
                   /\ CollectionInit /\ ReportInit
  BY DEF TasksInit
<1> QED
  BY <1>1, StepsOfParts, PTL
  DEF TasksSpec, AnomalySpec, DetectorSpec, TrainingSpec, CollectionSpec, ReportSpec

\* Every variable of every task keeps its type.
THEOREM TasksTypeInvariant == TasksSpec => []TypeOK
BY TasksAreTheirParts, AnomalyTypeInvariant, DetectorTypeInvariant, TrainingTypeInvariant,
   CollectionTypeInvariant, ReportTypeInvariant, PTL
DEF TypeOK

=============================================================================
