------------------------ MODULE MCIncidentLifecycle ------------------------
(* Small instances of IncidentLifecycle.                                   *)
EXTENDS IncidentLifecycle, TLC

\* Requests are interchangeable, and so are incidents.
Symmetry == Permutations(Incidents) \cup Permutations(Requests)
=============================================================================
