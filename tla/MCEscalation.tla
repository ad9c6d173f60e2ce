---------------------------- MODULE MCEscalation ----------------------------
(* The escalation queue on a small instance. *)
EXTENDS EscalationQueue, TLC

(* Rows, runs and query classes are interchangeable, and the run checks no *)
(* liveness property.                                                      *)
Symmetry == Permutations(Items) \cup Permutations(Runs) \cup Permutations(Queries)

(* The database files this source creates. *)
SourceConfigs == {c \in Deployments : ~c.errorColumn}
=============================================================================
