-------------------------- MODULE MCBatchExtractor --------------------------
(* The batch extractor on a small instance. *)
EXTENDS BatchExtractor
=============================================================================
