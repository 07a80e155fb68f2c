-------------------------- MODULE MCBackgroundTasks --------------------------
(* The tasks of the Celery workers on small instances, side by side: the   *)
(* detection of anomalies, the schema detector, the training of baselines, *)
(* the collection of metrics and the reports.  They share no state in      *)
(* these models, so that a behaviour is one of them, with the others at    *)
(* rest.                                                                   *)
EXTENDS AnomalyDetector, SchemaDetector, BaselineTraining, MetricCollection,
        ScheduledReports, TLC

CONSTANTS a1, b1, x1   \* the columns and the index of the target

VARIABLE active

Components == {"anomalies", "schema", "baselines", "metrics", "reports"}

\* Two metrics, both in the sample: what the detector is written for.
TwoMetrics == <<"cpu_usage", "tps">>

\* A target with two columns in two tables and one index.
MCTableOf(c) == IF c = a1 THEN "A" ELSE "B"
Schema(columns, indexes) == [columns |-> columns, indexes |-> indexes]
NoIndexes == [o \in {} |-> "int"]
MCSnapshots ==
  { Schema(a1 :> "int", NoIndexes),
    Schema(a1 :> "text" @@ b1 :> "int", x1 :> "btree") }

AtRest ==
  /\ active = "anomalies" \/ (abnormal = [c \in Samples |-> {}]
                              /\ worker = [c \in Samples |-> CHOOSE w \in Workers : TRUE])
  /\ active = "schema" \/ schema = CHOOSE s \in Snapshots : TRUE

TasksInit ==
  /\ active \in Components
  /\ AnomalyInit /\ DetectorInit /\ TrainingInit /\ CollectionInit
  /\ ReportInit
  /\ AtRest

TasksNext ==
  /\ UNCHANGED active
  /\ \/ /\ active = "anomalies" /\ AnomalyNext
        /\ UNCHANGED <<detectorVars, trainingVars, collectionVars, reportVars>>
     \/ /\ active = "schema" /\ DetectorNext
        /\ UNCHANGED <<anomalyVars, trainingVars, collectionVars, reportVars>>
     \/ /\ active = "baselines" /\ TrainingNext
        /\ UNCHANGED <<anomalyVars, detectorVars, collectionVars, reportVars>>
     \/ /\ active = "metrics" /\ CollectionNext
        /\ UNCHANGED <<anomalyVars, detectorVars, trainingVars, reportVars>>
     \/ /\ active = "reports" /\ ReportNext
        /\ UNCHANGED <<anomalyVars, detectorVars, trainingVars, collectionVars>>

TasksVars ==
  <<active, anomalyVars, detectorVars, trainingVars, collectionVars, reportVars>>

TasksSpec == TasksInit /\ [][TasksNext]_TasksVars

TypeOK == AnomalyTypeOK /\ DetectorTypeOK /\ TrainingTypeOK /\ CollectionTypeOK
          /\ ReportTypeOK

\* Samples are interchangeable, and so are the worker processes of a kind.
Symmetry == Permutations(Samples) \cup Permutations(Workers) \cup Permutations(Detectors)
=============================================================================
