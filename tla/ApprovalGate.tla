---------------------------- MODULE ApprovalGate ----------------------------
(***************************************************************************)
(* What the escalation queue promises about data leaving the machine,      *)
(* with the queue, the background runs and the cache left out.             *)
(*                                                                         *)
(* Each item has a gate.  A public item may be submitted with its gate     *)
(* open; a private one never is.  Only a user's permit opens a closed      *)
(* gate, and every transmission through it closes it again.                *)
(***************************************************************************)
EXTENDS Naturals

CONSTANT Items

VARIABLES
  private,   \* does the item's context hold client documents?
  gate,      \* "absent", "closed" or "open", per item
  permits,   \* how often a user has permitted the item
  sent       \* how often the item was transmitted

vars == <<private, gate, permits, sent>>

TypeOK ==
  /\ private \in [Items -> BOOLEAN]
  /\ gate \in [Items -> {"absent", "closed", "open"}]
  /\ permits \in [Items -> Nat]
  /\ sent \in [Items -> Nat]

Init ==
  /\ private = [i \in Items |-> FALSE]
  /\ gate = [i \in Items |-> "absent"]
  /\ permits = [i \in Items |-> 0]
  /\ sent = [i \in Items |-> 0]

(* The gates when those in S have been closed.                             *)
Closed(S) == [i \in Items |-> IF i \in S THEN "closed" ELSE gate[i]]

OpenGates == {i \in Items : gate[i] = "open"}

(* The process may die on a submission, which closes other gates with it.  *)
Submit(i, isPrivate) ==
  /\ gate[i] = "absent"
  /\ private' = [private EXCEPT ![i] = isPrivate]
  /\ \E g \in {"closed", "open"}, S \in SUBSET OpenGates :
       /\ isPrivate => g = "closed"
       /\ gate' = [Closed(S) EXCEPT ![i] = g]
  /\ UNCHANGED <<permits, sent>>

Permit(i) ==
  /\ gate[i] = "closed"
  /\ gate' = [gate EXCEPT ![i] = "open"]
  /\ permits' = [permits EXCEPT ![i] = @ + 1]
  /\ UNCHANGED <<private, sent>>

Send(i) ==
  /\ gate[i] = "open"
  /\ gate' = [gate EXCEPT ![i] = "closed"]
  /\ sent' = [sent EXCEPT ![i] = @ + 1]
  /\ UNCHANGED <<private, permits>>

(* A permission may be lost unused: answered locally, failed, or the       *)
(* process died, which closes several gates at once.                       *)
Lapse ==
  /\ \E S \in SUBSET OpenGates : gate' = Closed(S)
  /\ UNCHANGED <<private, permits, sent>>

Next ==
  \/ \E i \in Items, isPrivate \in BOOLEAN : Submit(i, isPrivate)
  \/ \E i \in Items : Permit(i) \/ Send(i)
  \/ Lapse

Spec == Init /\ [][Next]_vars

-----------------------------------------------------------------------------

(* The permissions an item has been given so far, the one a public item is *)
(* born with included, cover what was sent and what the gate still allows. *)
Allowance(i) == permits[i] + (IF private[i] THEN 0 ELSE 1)
Exposure(i)  == sent[i] + (IF gate[i] = "open" THEN 1 ELSE 0)

Covered ==
  \A i \in Items :
    /\ Exposure(i) <= Allowance(i)
    /\ gate[i] = "absent" => permits[i] = 0 /\ sent[i] = 0

(* A private item is transmitted at most once per permit a user gave it:   *)
(* the rule of routers/escalation.py, lines 8-12.                          *)
PrivateDataGated == \A i \in Items : private[i] => sent[i] <= permits[i]
=============================================================================
