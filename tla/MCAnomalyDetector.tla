------------------------- MODULE MCAnomalyDetector -------------------------
(* Small instances of AnomalyDetector.                                     *)
EXTENDS AnomalyDetector, TLC

\* Two metrics, both in the sample: what the detector is written for.
TwoMetrics == <<"cpu_usage", "tps">>

\* Samples are interchangeable, and so are workers.
Symmetry == Permutations(Samples) \cup Permutations(Workers)
=============================================================================
