------------------------- MODULE ApprovalGateProofs -------------------------
(* Proofs about the approval gate, for every set of items. *)
EXTENDS ApprovalGate, TLAPS

(* The permissions of an item cover what was sent and what may yet be.     *)
GateInv == TypeOK /\ Covered

LEMMA GateInvInit == Init => GateInv
BY DEF Init, GateInv, TypeOK, Covered, Exposure, Allowance

LEMMA GateInvNext == GateInv /\ [Next]_vars => GateInv'
<1> SUFFICES ASSUME GateInv, [Next]_vars PROVE GateInv'
  OBVIOUS
<1> USE DEF GateInv, TypeOK, Covered, Exposure, Allowance
<1>1. ASSUME NEW i \in Items, NEW isPrivate \in BOOLEAN, Submit(i, isPrivate)
      PROVE  GateInv'
  <2>1. PICK g \in {"closed", "open"}, S \in SUBSET OpenGates :
          /\ isPrivate => g = "closed"
          /\ gate' = [Closed(S) EXCEPT ![i] = g]
    BY <1>1 DEF Submit
  <2>2. private' = [private EXCEPT ![i] = isPrivate] /\ gate[i] = "absent" /\ UNCHANGED <<permits, sent>>
    BY <1>1 DEF Submit
  <2>3. /\ gate' \in [Items -> {"absent", "closed", "open"}]
        /\ gate'[i] = g
        /\ \A j \in Items : j # i =>
             gate'[j] = gate[j] \/ (gate[j] = "open" /\ gate'[j] = "closed")
    BY <2>1 DEF Closed, OpenGates
  <2>4. TypeOK'
    BY <2>2, <2>3
  <2>5. Covered'
    BY <2>1, <2>2, <2>3
  <2>6. QED
    BY <2>4, <2>5
<1>2. ASSUME NEW i \in Items, Permit(i)
      PROVE  GateInv'
  BY <1>2 DEF Permit
<1>3. ASSUME NEW i \in Items, Send(i)
      PROVE  GateInv'
  BY <1>3 DEF Send
<1>4. CASE Lapse
  BY <1>4 DEF Lapse, Closed, OpenGates
<1>5. CASE UNCHANGED vars
  BY <1>5 DEF vars
<1>6. QED
  BY <1>1, <1>2, <1>3, <1>4, <1>5 DEF Next

(* What an item was permitted covers what was sent and what may yet be.    *)
THEOREM ItemsAreCovered == Spec => []Covered
<1>1. GateInv => Covered
  BY DEF GateInv
<1>2. QED
  BY <1>1, GateInvInit, GateInvNext, PTL DEF Spec

(* Private data leaves at most once per permit: the promise the escalation *)
(* queue inherits by implementing this gate.                               *)
THEOREM PrivateDataIsGated == Spec => []PrivateDataGated
<1>1. GateInv => PrivateDataGated
  BY DEF GateInv, TypeOK, Covered, Exposure, Allowance, PrivateDataGated
<1>2. QED
  BY <1>1, GateInvInit, GateInvNext, PTL DEF Spec
=============================================================================
