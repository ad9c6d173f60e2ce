---------------------------- MODULE MCAcquisition ----------------------------
(* The acquisition queue with its library and escalations on small         *)
(* instances.                                                              *)
EXTENDS AcquisitionQueue, TLC

(* With AUTO_ESCALATE: without it, no escalation runs that no user         *)
(* approved.  The database files are those this source creates.            *)
QueueConfigs == {c \in Deployments : c.auto /\ c.apiKey /\ ~c.errorColumn}

(* Deployments whose database file can record a failed escalation. *)
RecordingConfigs == {c \in Deployments : c.errorColumn}

(* Ids and slots are interchangeable where no liveness is checked. *)
AcqSymmetry == Permutations(Items) \cup Permutations(Requests) \cup Permutations(Scrapes)
=============================================================================
