------------------------------ MODULE MCConcepts ------------------------------
(* Instances of ConceptIndex for TLC, without projects. *)
EXTENDS ConceptIndex, TLC

MCClientOf == <<>>
DocSymmetry == Permutations(Docs)

=============================================================================
