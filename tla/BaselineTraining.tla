--------------------------- MODULE BaselineTraining ---------------------------
(***************************************************************************)
(* Training of the baselines of one metric of one instance                 *)
(* (analyzers/baseline.py), by Celery tasks that overlap: beat starts one  *)
(* every six hours, POST /instances/{id}/baselines/retrain another at any  *)
(* time.  train() goes through the time buckets in a fixed order.  What it *)
(* writes for a bucket is flushed by the SELECT of the next one, where it  *)
(* may wait for the row or the key another training has written; all of it *)
(* is committed at the end.                                                *)
(***************************************************************************)
EXTENDS Integers, Sequences, FiniteSets

CONSTANT Trainings   \* each is one call of train()

VARIABLES
  row,       \* committed rows: bucket -> the training it is from, if there is one
  training,  \* Trainings -> where train() is
  lastDone   \* history: the last training that committed, with its buckets

trainingVars == <<row, training, lastDone>>

TimeBuckets == {"weekday_business", "weekday_night", "weekend"}

\* An upsert: the bucket, and whether its SELECT found no row.
Upsert == [bucket : TimeBuckets, insert : BOOLEAN]

NotTrained == [pc |-> "waiting", at |-> 1, pending |-> {}, flushed |-> {},
               trained |-> {}, broken |-> FALSE]

TrainingInit ==
  /\ row = [b \in TimeBuckets |-> {}]
  /\ training = [t \in Trainings |-> NotTrained]
  /\ lastDone = {}

\* The buckets in the order of the samples instead of a fixed one.
MutBucketOrder(t) ==
  IF t = CHOOSE u \in Trainings : TRUE
  THEN <<"weekend", "weekday_night", "weekday_business">>
  ELSE <<"weekday_business", "weekday_night", "weekend">>

\* The keys of the dict that train() fills and goes through.
BucketOrder(t) == <<"weekday_business", "weekday_night", "weekend">>

InTraining(t) == training[t].pc = "training"
AtBucket(t) == training[t].at <= Len(BucketOrder(t))
Bucket(t) == BucketOrder(t)[training[t].at]

\* The trainings whose uncommitted writes a flush of t has to wait for.
Blockers(t) ==
  {u \in Trainings \ {t} : training[u].flushed \cap {p.bucket : p \in training[t].pending} # {}}

\* An INSERT that finds the row another training has committed meanwhile.
Conflicts(t) == \E p \in training[t].pending : p.insert /\ row[p.bucket] # {}

Flushed(t) == training[t].flushed \cup {p.bucket : p \in training[t].pending}

StartTraining(t) ==
  /\ training[t].pc = "waiting"
  /\ training' = [training EXCEPT ![t].pc = "training"]
  /\ UNCHANGED <<row, lastDone>>

\* A failure of one bucket that rolls the session back before the next one.
MutSkipBucket(t) ==
  /\ InTraining(t) /\ AtBucket(t)
  /\ training' = [training EXCEPT ![t].at = @ + 1, ![t].flushed = {}, ![t].pending = {}]
  /\ UNCHANGED <<row, lastDone>>

\* Too few samples in the bucket, or _compute_baseline raises.
SkipBucket(t) ==
  /\ InTraining(t) /\ AtBucket(t)
  /\ training' = [training EXCEPT ![t].at = @ + 1]
  /\ UNCHANGED <<row, lastDone>>

\* _upsert_baseline: the SELECT flushes what is pending, then finds a row or not.
UpsertBaseline(t) ==
  /\ InTraining(t) /\ AtBucket(t)
  /\ ~training[t].broken /\ Blockers(t) = {} /\ ~Conflicts(t)
  /\ training' = [training EXCEPT
       ![t].at = @ + 1,
       ![t].flushed = Flushed(t),
       ![t].trained = @ \cup {Bucket(t)},
       ![t].pending = {[bucket |-> Bucket(t), insert |-> row[Bucket(t)] = {}]}]
  /\ UNCHANGED <<row, lastDone>>

\* The flush fails and rolls the transaction back; the error is taken for one of
\* this bucket, and the session refuses whatever follows.
FlushFails(t) ==
  /\ InTraining(t) /\ AtBucket(t)
  /\ ~training[t].broken /\ Blockers(t) = {} /\ Conflicts(t)
  /\ training' = [training EXCEPT ![t].at = @ + 1, ![t].flushed = {}, ![t].pending = {},
                                  ![t].broken = TRUE]
  /\ UNCHANGED <<row, lastDone>>

\* session.commit(), with the flush of the last bucket.
CommitTraining(t) ==
  /\ InTraining(t) /\ ~AtBucket(t)
  /\ ~training[t].broken /\ training[t].trained # {} /\ Blockers(t) = {} /\ ~Conflicts(t)
  /\ row' = [b \in TimeBuckets |-> IF b \in Flushed(t) THEN {t} ELSE row[b]]
  /\ lastDone' = {[by |-> t, buckets |-> training[t].trained]}
  /\ training' = [training EXCEPT ![t] = [NotTrained EXCEPT !.pc = "done"]]

\* Nothing was trained, the session is broken, the last flush fails, or the worker
\* dies: the session is closed without a commit.
EndTraining(t) ==
  /\ InTraining(t)
  /\ training' = [training EXCEPT ![t] = [NotTrained EXCEPT !.pc = "done"]]
  /\ UNCHANGED <<row, lastDone>>

TrainingNext ==
  \E t \in Trainings :
    \/ StartTraining(t)
    \/ SkipBucket(t)
    \/ UpsertBaseline(t)
    \/ FlushFails(t)
    \/ CommitTraining(t)
    \/ EndTraining(t)

TrainingSpec == TrainingInit /\ [][TrainingNext]_trainingVars

-----------------------------------------------------------------------------
TrainingTypeOK ==
  /\ row \in [TimeBuckets -> {{}} \cup {{t} : t \in Trainings}]
  /\ \A t \in Trainings :
       /\ training[t].pc \in {"waiting", "training", "done"}
       /\ training[t].at \in 1..4
       /\ training[t].pending \subseteq Upsert /\ Cardinality(training[t].pending) <= 1
       /\ training[t].flushed \subseteq TimeBuckets /\ training[t].trained \subseteq TimeBuckets
       /\ training[t].broken \in BOOLEAN

\* Trainings that overlap never wait for each other in a circle: among any of
\* them, one does not wait for another.  train() relies on the order of a dict.
TrainingsNeverDeadlock ==
  \A waiting \in SUBSET {t \in Trainings : InTraining(t)} :
    waiting # {} => \E t \in waiting : Blockers(t) \cap waiting = {}

\* All that the last training to commit says it has trained is there: the buckets
\* of a metric never mix it with the leftovers of a training it overlapped.
LastTrainingWhole ==
  \A done \in lastDone : \A b \in done.buckets : row[b] = {done.by}
=============================================================================
