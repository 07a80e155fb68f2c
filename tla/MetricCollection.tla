--------------------------- MODULE MetricCollection ---------------------------
(***************************************************************************)
(* From the counters of a target to the KPIs of the dashboard.  Celery     *)
(* tasks (tasks/collect.py) sample all active instances side by side       *)
(* through the adapter (adapters/postgresql/remote.py) and store what they *)
(* got with one commit; GET /instances/{id}/kpi                            *)
(* (services/kpi_calculator.py) reads the last two hot samples and derives *)
(* rates and ratios from counters that PostgreSQL may reset at any time.   *)
(*                                                                         *)
(* Two counters stand for all: blks_hit and blks_read.  Every rate is      *)
(* derived as disk_iops is, and the buffer hit ratio needs both.  Warm and *)
(* cold samples take the same way into the table; their values, and those  *)
(* a request asks the target for, are passed on as they are.               *)
(***************************************************************************)
EXTENDS Integers, Sequences, FiniteSets

CONSTANTS
  Instances,   \* the active instances
  Runs,        \* the worker processes that collect
  LastTick,    \* bound on the clock
  MaxWork,     \* bound on the work of a target
  MaxResets,   \* bound on the resets of its counters
  MaxSamples,  \* a worker collects as long as there are fewer samples than these
  SlowTargets  \* the targets that may stop answering without refusing

ASSUME CollectionAssumption == {LastTick, MaxWork, MaxResets, MaxSamples} \subseteq Nat

VARIABLES
  clock,
  target,   \* Instances -> counters and state
  work,     \* history: Instances -> blocks hit and read, ever
  resets,   \* bound
  run,      \* Runs -> the task of a worker
  samples,  \* rows of metric_samples
  kpi       \* one request for the KPIs of an instance

collectionVars == <<clock, target, work, resets, run, samples, kpi>>

TargetStates == {"answers", "refuses", "hangs"}

Counters == [hit : 0..MaxWork, read : 0..MaxWork]
Sample == [instance : Instances, at : 0..LastTick, counters : Counters,
           work : Counters,      \* history: what the target had done when it was read
           resets : 0..MaxResets]

Steps == {"connecting", "stamped", "ended"}

Zero == [hit |-> 0, read |-> 0]
Resting == [pc |-> "idle", step |-> [i \in Instances |-> "ended"],
            at |-> [i \in Instances |-> 0], rows |-> {}]
NoRequest == [pc |-> "idle", instance |-> "none", hot |-> <<>>]

CollectionInit ==
  /\ clock = 0
  /\ target = [i \in Instances |-> [counters |-> Zero, state |-> "answers"]]
  /\ work = [i \in Instances |-> Zero]
  /\ resets = 0
  /\ run = [k \in Runs |-> Resting]
  /\ samples = {}
  /\ kpi = NoRequest

-----------------------------------------------------------------------------
(* The clock and the targets.                                              *)

Pass ==
  /\ clock < LastTick
  /\ clock' = clock + 1
  /\ UNCHANGED <<target, work, resets, run, samples, kpi>>

Read(i, what) ==
  /\ work[i].hit + work[i].read < MaxWork
  /\ work' = [work EXCEPT ![i][what] = @ + 1]
  /\ target' = [target EXCEPT ![i].counters[what] = @ + 1]
  /\ UNCHANGED <<clock, resets, run, samples, kpi>>

\* PostgreSQL restarts, or somebody calls pg_stat_reset().
ResetStatistics(i) ==
  /\ resets < MaxResets
  /\ resets' = resets + 1
  /\ target' = [target EXCEPT ![i].counters = Zero]
  /\ UNCHANGED <<clock, work, run, samples, kpi>>

\* A target starts to refuse or to hang, or answers again.
TargetChanges(i, state) ==
  /\ state # target[i].state
  /\ state = "hangs" => i \in SlowTargets
  /\ target' = [target EXCEPT ![i].state = state]
  /\ UNCHANGED <<clock, work, resets, run, samples, kpi>>

-----------------------------------------------------------------------------
(* collect_hot_metrics, _collect_metrics_async.                              *)

\* Beat's task begins with no adapters: connecting is part of every sample.
StartRun(k) ==
  /\ run[k].pc = "idle"
  /\ Cardinality(samples) < MaxSamples
  /\ run' = [run EXCEPT ![k] = [Resting EXCEPT !.pc = "collecting",
                                               !.step = [i \in Instances |-> "connecting"]]]
  /\ UNCHANGED <<clock, target, work, resets, samples, kpi>>

\* connect(): the pool is created and the sample gets its time, or the target
\* refuses and is skipped.  A target that hangs keeps the coroutine waiting.
Connect(k, i) ==
  /\ run[k].step[i] = "connecting"
  /\ target[i].state # "hangs"
  /\ run' = [run EXCEPT
       ![k].step[i] = IF target[i].state = "answers" THEN "stamped" ELSE "ended",
       ![k].at[i] = IF target[i].state = "answers" THEN clock ELSE 0]
  /\ UNCHANGED <<clock, target, work, resets, samples, kpi>>

SampleOf(k, i) == [instance |-> i, at |-> run[k].at[i], counters |-> target[i].counters,
                   work |-> work[i], resets |-> resets]

\* _collect_hot: the values, read after the sample got its time;
\* an error or a timeout of the statement skips the instance.
ReadTarget(k, i) ==
  /\ run[k].step[i] = "stamped"
  /\ run' = [run EXCEPT
       ![k].step[i] = "ended",
       ![k].rows = IF target[i].state = "answers" THEN @ \cup {SampleOf(k, i)} ELSE @]
  /\ UNCHANGED <<clock, target, work, resets, samples, kpi>>

\* gather() has all results; the rows of all instances are one commit.
CommitRun(k) ==
  /\ run[k].pc = "collecting"
  /\ \A i \in Instances : run[k].step[i] = "ended"
  /\ samples' = samples \cup run[k].rows
  /\ run' = [run EXCEPT ![k] = Resting]
  /\ UNCHANGED <<clock, target, work, resets, kpi>>

\* The soft time limit strikes while a coroutine waits: the exception leaves
\* asyncio.run, and with it go the results of the others.
CutRun(k) ==
  /\ run[k].pc = "collecting"
  /\ \E i \in Instances : run[k].step[i] # "ended" /\ target[i].state = "hangs"
  /\ run' = [run EXCEPT ![k] = Resting]
  /\ UNCHANGED <<clock, target, work, resets, samples, kpi>>

\* The commit fails, or the worker dies: acks_late delivers the task again,
\* and it collects anew.
LoseRun(k) ==
  /\ run[k].pc = "collecting"
  /\ run' = [run EXCEPT ![k] = Resting]
  /\ UNCHANGED <<clock, target, work, resets, samples, kpi>>

-----------------------------------------------------------------------------
(* GET /instances/{id}/kpi.                                                *)

Of(i) == {s \in samples : s.instance = i}
Latest(rows) == {s \in rows : \A r \in rows : r.at <= s.at}

\* _fetch_last_two_hot: ORDER BY sampled_at DESC LIMIT 2, ties in any order.
LastTwoHot(i) ==
  LET rows == Of(i) IN
  IF Cardinality(rows) < 2 THEN {<<s>> : s \in rows} \cup (IF rows = {} THEN {<<>>} ELSE {})
  ELSE UNION { { <<s, r>> : r \in Latest(rows \ {s}) } : s \in Latest(rows) }

FetchHot(i) ==
  /\ \E pair \in LastTwoHot(i) : kpi' = [pc |-> "answered", instance |-> i, hot |-> pair]
  /\ UNCHANGED <<clock, target, work, resets, run, samples>>

\* The numbers of the answer; one that is not known is the empty set.  A rate is
\* what was done in the interval.
Missing == {}
Interval == kpi.hot[1].at - kpi.hot[2].at
HasDelta == Len(kpi.hot) = 2 /\ Interval > 0
Delta(what) == kpi.hot[1].counters[what] - kpi.hot[2].counters[what]

\* A rate that takes a counter that was reset for one that ran backwards.
MutDeltaRate(delta) == IF delta < 0 THEN -delta ELSE delta

DeltaRate(delta) == IF delta < 0 THEN 0 ELSE delta

\* The share of the hits in all that was asked for.
HitRatioOf(hit, read) == IF hit + read <= 0 THEN 100 ELSE (100 * hit) \div (hit + read)

DiskIops == IF HasDelta THEN {DeltaRate(Delta("read"))} ELSE Missing
BufferHitRatio == IF HasDelta THEN {HitRatioOf(Delta("hit"), Delta("read"))} ELSE Missing

-----------------------------------------------------------------------------
CollectionStep(k) ==
  \/ \E i \in Instances : Connect(k, i) \/ ReadTarget(k, i)
  \/ CommitRun(k)
  \/ CutRun(k)

\* Everything but the loss of a worker or of a commit.
CollectionGoesOn ==
  \/ Pass
  \/ \E i \in Instances :
       \/ Read(i, "hit") \/ Read(i, "read")
       \/ ResetStatistics(i)
       \/ \E state \in TargetStates : TargetChanges(i, state)
       \/ FetchHot(i)
  \/ \E k \in Runs : StartRun(k) \/ CollectionStep(k)

CollectionNext == CollectionGoesOn \/ \E k \in Runs : LoseRun(k)

CollectionSpec == CollectionInit /\ [][CollectionNext]_collectionVars

\* Beat sends the task of every category again and again, a task that runs goes
\* on until it is done or cut, and here no worker dies.
FairCollectionSpec ==
  /\ CollectionInit
  /\ [][CollectionGoesOn]_collectionVars
  /\ \A k \in Runs :
       /\ WF_collectionVars(StartRun(k))
       /\ WF_collectionVars(CollectionStep(k))

-----------------------------------------------------------------------------
CollectionTypeOK ==
  /\ clock \in 0..LastTick /\ resets \in 0..MaxResets
  /\ \A i \in Instances :
       /\ target[i].counters \in Counters /\ work[i] \in Counters
       /\ target[i].state \in TargetStates
  /\ samples \subseteq Sample
  /\ \A k \in Runs :
       /\ run[k].pc \in {"idle", "collecting"} 
       /\ run[k].step \in [Instances -> Steps] /\ run[k].at \in [Instances -> 0..LastTick]
       /\ run[k].rows \subseteq Sample
  /\ kpi.pc \in {"idle", "answered"}

\* The later of the two samples was also read later: collections that overlap
\* may read in the other order than they got their times.
ReadInOrder ==
  /\ \A w \in {"hit", "read"} : kpi.hot[2].work[w] <= kpi.hot[1].work[w]
  /\ kpi.hot[2].resets <= kpi.hot[1].resets

\* The KPIs report what the target did between the two samples and no more:
\* never a spike after counters were reset, and exactly the work, with a
\* ratio that is one, when they were not.
KpisAreMeasured ==
  kpi.pc = "answered" /\ HasDelta /\ ReadInOrder =>
    LET done == [w \in {"hit", "read"} |-> kpi.hot[1].work[w] - kpi.hot[2].work[w]] IN
    /\ \A v \in DiskIops : v <= done["read"]
    /\ kpi.hot[1].resets = kpi.hot[2].resets =>
         DiskIops = {done["read"]} /\ BufferHitRatio \subseteq 0..100

-----------------------------------------------------------------------------

\* tasks/collect.py: failures are skipped "to prevent one instance's issues from
\* blocking others", so an instance that answers is sampled.
OthersAreSampled ==
  \A i \in Instances \ SlowTargets :
    target[i].state = "answers" ~> (Of(i) # {} \/ target[i].state # "answers")
=============================================================================
