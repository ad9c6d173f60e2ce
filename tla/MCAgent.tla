------------------------------- MODULE MCAgent -------------------------------
(* The conversations with plain and agent turns on a small instance. *)
EXTENDS AgentSession, TLC

(* Conversations and turns are interchangeable, and the run checks no      *)
(* liveness property.                                                      *)
AgentSymmetry == Permutations(Convs) \cup Permutations(Chats) \cup Permutations(Runs)
AgentTurns == Chats \cup Runs
=============================================================================
