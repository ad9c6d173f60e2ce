----------------------------- MODULE MCDocuments -----------------------------
(* Instances of DocumentStore for TLC. *)
EXTENDS DocumentStore, TLC

CONSTANTS c1, p1
MCClientOf == p1 :> c1
DocSymmetry == Permutations(Docs)

=============================================================================
