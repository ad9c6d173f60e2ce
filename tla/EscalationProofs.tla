-------------------------- MODULE EscalationProofs --------------------------
(***************************************************************************)
(* Proofs about the escalation queue, for every set of rows, runs, queries *)
(* and deployments and every bound.                                        *)
(***************************************************************************)
EXTENDS EscalationQueue, TLAPS, SequenceTheorems

-----------------------------------------------------------------------------
(* What storing an answer does to the cache: the result is a sequence of   *)
(* entries within the limit, holds nothing but old entries and the new     *)
(* one, and ends with the new one unless the limit is zero.                *)
LEMMA StoredProperties ==
  ASSUME NEW entries \in Seq(Entry), NEW e \in Entry
  PROVE  /\ Stored(entries, e) \in Seq(Entry)
         /\ Len(Stored(entries, e)) <= MaxCache
         /\ \A k \in 1 .. Len(Stored(entries, e)) :
              Stored(entries, e)[k] = e \/ \E j \in 1 .. Len(entries) : Stored(entries, e)[k] = entries[j]
         /\ MaxCache > 0 => /\ Len(Stored(entries, e)) > 0
                            /\ Stored(entries, e)[Len(Stored(entries, e))] = e
<1> DEFINE all == Append(entries, e)
<1> DEFINE first == Len(all) - MaxCache + 1
<1>1. /\ all \in Seq(Entry)
      /\ Len(all) = Len(entries) + 1
      /\ \A j \in 1 .. Len(entries) : all[j] = entries[j]
      /\ all[Len(all)] = e
      /\ Len(entries) \in Nat
      /\ MaxCache \in Nat
  BY AppendProperties, LenProperties, ConstantsAssumption
<1> HIDE DEF all
<1>2. CASE Len(all) > MaxCache
  <2>1. Stored(entries, e) = SubSeq(all, first, Len(all))
    BY <1>2 DEF Stored, all
  <2>2. /\ first \in Int /\ Len(all) \in Int
        /\ first \in 1 .. Len(all) + 1
        /\ \A k \in first .. Len(all) : all[k] \in Entry
    BY <1>1, <1>2, ElementOfSeq
  <2>3. /\ SubSeq(all, first, Len(all)) \in Seq(Entry)
        /\ Len(SubSeq(all, first, Len(all))) = MaxCache
        /\ \A k \in 1 .. MaxCache : SubSeq(all, first, Len(all))[k] = all[first + k - 1]
    BY <1>1, <1>2, <2>2, SubSeqProperties
  <2>4. ASSUME NEW k \in 1 .. MaxCache
        PROVE  all[first + k - 1] = e \/ \E j \in 1 .. Len(entries) : all[first + k - 1] = entries[j]
    BY <1>1, <1>2
  <2>5. /\ Len(Stored(entries, e)) = MaxCache
        /\ \A k \in 1 .. MaxCache : Stored(entries, e)[k] = all[first + k - 1]
    BY <2>1, <2>3
  <2>6. MaxCache > 0 => Stored(entries, e)[MaxCache] = e
    BY <1>1, <2>5
  <2>7. QED
    <3> HIDE DEF first
    <3>1. \A k \in 1 .. MaxCache :
            \/ Stored(entries, e)[k] = e
            \/ \E j \in 1 .. Len(entries) : Stored(entries, e)[k] = entries[j]
      BY <2>4, <2>5
    <3>2. QED
      BY <1>1, <2>1, <2>3, <2>5, <2>6, <3>1
<1>3. CASE ~(Len(all) > MaxCache)
  <2>1. Stored(entries, e) = all
    BY <1>3 DEF Stored, all
  <2>2. QED
    BY <1>1, <1>3, <2>1
<1>4. QED
  BY <1>2, <1>3

-----------------------------------------------------------------------------
(* The writes to the table keep its rows well typed.                       *)
LEMMA WithStatusType ==
  ASSUME NEW rows \in [Items -> Row], NEW i \in Items, NEW status \in Statuses
  PROVE  WithStatus(rows, i, status) \in [Items -> Row]
BY DEF WithStatus, Row

LEMMA FailedType ==
  ASSUME NEW rows \in [Items -> Row], NEW i \in Items
  PROVE  Failed(rows, i) \in [Items -> Row]
BY WithStatusType DEF Failed, Statuses

LEMMA CompletedType ==
  ASSUME NEW rows \in [Items -> Row], NEW i \in Items, NEW answer \in Answers
  PROVE  Completed(rows, i, answer) \in [Items -> Row]
BY DEF Completed, Row, Statuses

-----------------------------------------------------------------------------
LEMMA InitIndInv == Init => IndInv
<1> SUFFICES ASSUME Init PROVE IndInv
  OBVIOUS
<1>1. TypeOK
  BY EmptySeq DEF Init, TypeOK, NoRow, Row, Statuses, Idle, Run, Stages, Live
<1>2. WellFormed /\ OneRunPerItem /\ ClientDataGated /\ Accounted /\ Untouched
  BY DEF Init, WellFormed, OneRunPerItem, ClientDataGated, Accounted, Untouched,
         NoRow, Idle, Live, At, MayPost
<1>3. AnswersAreGenuine /\ Genuine
  BY DEF Init, AnswersAreGenuine, Genuine, NoRow, Idle, At
<1>4. QED
  BY <1>1, <1>2, <1>3 DEF IndInv

LEMMA InsertStep ==
  ASSUME IndInv, NEW i \in Items, NEW query \in Queries, NEW client \in BOOLEAN,
         Insert(i, query, client)
  PROVE  IndInv'
<1> USE ConstantsAssumption DEF IndInv
<1>1. CASE AutoApproved(client)
  <2>1. PICK r \in Runs :
          /\ ~Live(r)
          /\ run' = [run EXCEPT ![r] = [stage |-> "scheduled", item |-> i, answer |-> None]]
    BY <1>1 DEF Insert, Schedule
  <2>2. /\ row' = [row EXCEPT ![i] = [status |-> "approved", client |-> FALSE,
                                     query |-> query, response |-> None]]
        /\ row[i].status = "absent"
        /\ UNCHANGED <<config, cache, approvals, sent, provided, crashes>>
    BY <1>1 DEF Insert, InsertRow, AutoApproved
  <2>3. TypeOK'
    BY <2>1, <2>2 DEF TypeOK, Row, Statuses, Run, Stages, Live
  <2>4. WellFormed' /\ Untouched' /\ ClientDataGated' /\ AnswersAreGenuine'
    BY <2>1, <2>2 DEF TypeOK, WellFormed, Untouched, ClientDataGated, AnswersAreGenuine, At, Run, Row
  <2>5. OneRunPerItem'
    BY <2>1, <2>2 DEF TypeOK, OneRunPerItem, Live, Run, Row
  <2>6. Accounted' /\ Genuine'
    BY <2>1, <2>2 DEF TypeOK, OneRunPerItem, Accounted, Genuine, MayPost, Live, At, Run, Row
  <2>7. QED
    BY <2>3, <2>4, <2>5, <2>6
<1>2. CASE ~AutoApproved(client)
  <2>1. /\ row' = [row EXCEPT ![i] = [status |-> "pending_approval", client |-> client,
                                     query |-> query, response |-> None]]
        /\ row[i].status = "absent"
        /\ UNCHANGED <<config, run, cache, approvals, sent, provided, crashes>>
    BY <1>2 DEF Insert, InsertRow
  <2>2. TypeOK'
    BY <2>1 DEF TypeOK, Row, Statuses, Live
  <2>3. WellFormed' /\ Untouched' /\ ClientDataGated' /\ AnswersAreGenuine'
    BY <2>1 DEF TypeOK, WellFormed, Untouched, ClientDataGated, AnswersAreGenuine, At, Row
  <2>4. OneRunPerItem' /\ Accounted' /\ Genuine'
    BY <2>1 DEF TypeOK, OneRunPerItem, Accounted, Genuine, MayPost, Live, At, Run, Row
  <2>5. QED
    BY <2>2, <2>3, <2>4
<1>3. QED
  BY <1>1, <1>2

LEMMA AdmitStep ==
  ASSUME IndInv, NEW i \in Items, Approvable(i), Admit(i)
  PROVE  IndInv'
<1> USE ConstantsAssumption DEF IndInv
<1>1. PICK r \in Runs :
        /\ ~Live(r)
        /\ run' = [run EXCEPT ![r] = [stage |-> "scheduled", item |-> i, answer |-> None]]
  BY DEF Admit, Schedule
<1>2. /\ row' = [row EXCEPT ![i].status = "approved"]
      /\ row[i].status \in {"pending_approval", "failed"}
      /\ approvals' = [approvals EXCEPT ![i] = @ + 1]
      /\ UNCHANGED <<config, cache, sent, provided, crashes>>
  BY DEF Admit, WithStatus, Approvable
<1>3. TypeOK'
  <2>1. row' \in [Items -> Row]
    BY <1>2 DEF TypeOK, Row, Statuses
  <2>2. run' \in [Runs -> Run] /\ \A x \in Runs : Live(x)' <=> run'[x].item # None
    BY <1>1 DEF TypeOK, Run, Stages, Live
  <2>3. approvals' \in [Items -> Nat]
    BY <1>2 DEF TypeOK
  <2>4. QED
    BY <1>2, <2>1, <2>2, <2>3 DEF TypeOK
<1>4. WellFormed' /\ Untouched' /\ ClientDataGated' /\ AnswersAreGenuine'
  BY <1>1, <1>2 DEF TypeOK, WellFormed, Untouched, ClientDataGated, AnswersAreGenuine, At, Run, Row
<1>5. OneRunPerItem'
  <2>1. \A x \in Runs : run[x].item # i
    BY <1>2 DEF TypeOK, OneRunPerItem, Live
  <2>2. /\ row'[i].status = "approved"
        /\ \A j \in Items : j # i => row'[j] = row[j]
    BY <1>2 DEF TypeOK, Row
  <2>3. /\ run'[r].item = i
        /\ \A x \in Runs : x # r => run'[x] = run[x]
    BY <1>1 DEF TypeOK
  <2>4. ASSUME NEW x \in Runs, Live(x)'
        PROVE  /\ row'[run'[x].item].status \in {"approved", "in_progress", "deleted"}
               /\ \A other \in Runs : run'[other].item = run'[x].item => other = x
    <3>1. CASE x = r
      BY <2>1, <2>2, <2>3, <3>1
    <3>2. CASE x # r
      <4>1. run'[x] = run[x] /\ Live(x) /\ run[x].item \in Items \ {i}
        BY <2>1, <2>3, <2>4, <3>2 DEF TypeOK, Run, Live
      <4>2. QED
        BY <2>2, <2>3, <3>2, <4>1 DEF OneRunPerItem
    <3>3. QED
      BY <3>1, <3>2
  <2>5. QED
    BY <2>4 DEF OneRunPerItem
<1>6. Accounted' /\ Genuine'
  BY <1>1, <1>2 DEF TypeOK, OneRunPerItem, ClientDataGated, Accounted, Genuine, MayPost, Live, At, Run, Row
<1>7. QED
  BY <1>3, <1>4, <1>5, <1>6

LEMMA RejectStep ==
  ASSUME IndInv, NEW i \in Items, RejectItem(i)
  PROVE  IndInv'
<1> USE DEF IndInv
<1>1. /\ row' = [row EXCEPT ![i].status = "rejected"]
      /\ row[i].status = "pending_approval"
      /\ UNCHANGED <<config, run, cache, approvals, sent, provided, crashes>>
  BY DEF RejectItem, WithStatus
<1>2. TypeOK'
  BY <1>1 DEF TypeOK, Row, Statuses, Live
<1>3. WellFormed' /\ Untouched' /\ ClientDataGated' /\ AnswersAreGenuine'
  BY <1>1 DEF TypeOK, WellFormed, Untouched, ClientDataGated, AnswersAreGenuine, At, Row
<1>4. OneRunPerItem' /\ Accounted' /\ Genuine'
  BY <1>1 DEF TypeOK, OneRunPerItem, Accounted, Genuine, MayPost, Live, At, Run, Row
<1>5. QED
  BY <1>2, <1>3, <1>4

LEMMA DeleteStep ==
  ASSUME IndInv, NEW i \in Items, DeleteItem(i)
  PROVE  IndInv'
<1> USE DEF IndInv
<1>1. /\ row' = [row EXCEPT ![i].status = "deleted"]
      /\ row[i].status # "absent"
      /\ UNCHANGED <<config, run, cache, approvals, sent, provided, crashes>>
  BY DEF DeleteItem, WithStatus
<1>2. TypeOK'
  BY <1>1 DEF TypeOK, Row, Statuses, Live
<1>3. WellFormed' /\ Untouched' /\ ClientDataGated' /\ AnswersAreGenuine'
  BY <1>1 DEF TypeOK, WellFormed, Untouched, ClientDataGated, AnswersAreGenuine, At, Row
<1>4. OneRunPerItem' /\ Accounted' /\ Genuine'
  BY <1>1 DEF TypeOK, OneRunPerItem, Accounted, Genuine, MayPost, Live, At, Run, Row
<1>5. QED
  BY <1>2, <1>3, <1>4

-----------------------------------------------------------------------------
(* A run's steps have four kinds of effect: the run ends in failure, it    *)
(* ends with an answer, it posts the query, or it waits for something.     *)

-----------------------------------------------------------------------------
(* A step of a run does one of two things: it ends the run, or it takes it *)
(* to another await.                                                       *)

(* The row a run works on.                                                 *)
LEMMA RunsRow ==
  ASSUME IndInv, NEW r \in Runs, Live(r)
  PROVE  /\ run[r].item \in Items
         /\ row[run[r].item].status \in {"approved", "in_progress", "deleted"}
         /\ row[run[r].item].query \in Queries
         /\ \A x \in Runs : x # r => run[x].item # run[r].item
BY ConstantsAssumption DEF IndInv, TypeOK, OneRunPerItem, WellFormed, Run, Live

(* A run that ends leaves a row that keeps its query and its client flag,  *)
(* in a status no waiting or rejected row has.                             *)
LEMMA EndEffect ==
  ASSUME IndInv, NEW r \in Runs, Live(r), End(r),
         NEW final \in Row,
         final.status \in {"approved", "in_progress", "deleted", "failed", "complete"},
         final.client = row[run[r].item].client,
         final.query = row[run[r].item].query,
         final.status = "complete" => <<final.query, final.response>> \in provided,
         row' = [row EXCEPT ![run[r].item] = final],
         cache' \in Seq(Entry),
         \A k \in DOMAIN cache' : <<cache'[k].query, cache'[k].answer>> \in provided,
         UNCHANGED <<config, approvals, sent, provided, crashes>>
  PROVE  IndInv'
<1> USE ConstantsAssumption DEF IndInv
<1> DEFINE i == run[r].item
<1>1. /\ i \in Items
      /\ row[i].status \in {"approved", "in_progress", "deleted"}
      /\ row[i].query \in Queries
      /\ \A x \in Runs : x # r => run[x].item # i
  BY RunsRow
<1>2. /\ run' \in [Runs -> Run]
      /\ run'[r] = Idle
      /\ \A x \in Runs : x # r => run'[x] = run[x]
  BY DEF End, Idle, TypeOK, Run, Stages
<1>3. /\ row' \in [Items -> Row]
      /\ row'[i] = final
      /\ \A j \in Items : j # i => row'[j] = row[j]
  BY <1>1 DEF TypeOK
<1>4. /\ final.status \in {"approved", "in_progress", "deleted", "failed", "complete"}
      /\ final.client = row[i].client
      /\ final.query = row[i].query
      /\ final.status = "complete" => <<final.query, final.response>> \in provided
  OBVIOUS
<1>5. \A x \in Runs : Live(x)' => x # r /\ Live(x) /\ run'[x] = run[x] /\ run[x].item \in Items \ {i}
                                /\ row'[run'[x].item] = row[run[x].item]
  BY <1>1, <1>2, <1>3 DEF Live, Idle, TypeOK, Run
<1> HIDE DEF i
<1>6. TypeOK'
  <2>1. \A x \in Runs : Live(x)' <=> run'[x].item # None
    BY <1>2, <1>5 DEF Live, Idle, TypeOK
  <2>2. QED
    BY <1>2, <1>3, <2>1 DEF TypeOK
<1>7. WellFormed'
  BY <1>1, <1>2, <1>3, <1>4 DEF WellFormed, At, Idle
<1>8. Untouched' /\ ClientDataGated' /\ AnswersAreGenuine'
  BY <1>1, <1>3, <1>4 DEF Untouched, ClientDataGated, AnswersAreGenuine
<1>9. OneRunPerItem'
  <2>1. ASSUME NEW x \in Runs, Live(x)'
        PROVE  /\ row'[run'[x].item].status \in {"approved", "in_progress", "deleted"}
               /\ \A other \in Runs : run'[other].item = run'[x].item => other = x
    <3>1. Live(x) /\ run'[x].item = run[x].item /\ run[x].item # None
      BY <1>5, <2>1 DEF TypeOK
    <3>2. row'[run'[x].item].status \in {"approved", "in_progress", "deleted"}
      BY <1>5, <2>1, <3>1 DEF OneRunPerItem
    <3>3. \A other \in Runs : run'[other].item = run'[x].item => other # r
      BY <1>2, <3>1 DEF Idle
    <3>4. QED
      BY <1>2, <3>1, <3>2, <3>3 DEF OneRunPerItem
  <2>2. QED
    BY <2>1 DEF OneRunPerItem
<1>10. Accounted' /\ Genuine'
  <2>1. \A x \in Runs : MayPost(x)' \/ At(x, "storing")' => Live(x)'
    BY DEF MayPost, At, Live
  <2>2. \A x \in Runs : Live(x)' => (MayPost(x)' <=> MayPost(x)) /\ (At(x, "storing")' <=> At(x, "storing"))
    BY <1>5 DEF MayPost, At
  <2>3. QED
    BY <1>5, <2>1, <2>2 DEF Accounted, Genuine
<1>11. QED
  BY <1>6, <1>7, <1>8, <1>9, <1>10

(* A run that goes on waits for the cache or the provider, or holds an     *)
(* answer the provider gave; it posts only on the way to the provider.     *)
LEMMA WaitEffect ==
  ASSUME IndInv, NEW r \in Runs, Live(r),
         NEW stage \in {"searching", "calling", "storing"},
         NEW answer \in Answers \cup {None}, Goto(r, stage, answer),
         NEW status \in {"approved", "in_progress", "deleted"},
         row' = WithStatus(row, run[r].item, status),
         \/ stage # "searching" /\ UNCHANGED sent
         \/ MayPost(r) /\ UNCHANGED sent
         \/ MayPost(r) /\ stage = "calling" /\ sent' = [sent EXCEPT ![run[r].item] = @ + 1],
         stage = "storing" => answer \in Answers /\ <<row[run[r].item].query, answer>> \in provided',
         provided \subseteq provided', provided' \subseteq Queries \X Answers,
         UNCHANGED <<config, cache, approvals, crashes>>
  PROVE  IndInv'
<1> USE ConstantsAssumption DEF IndInv
<1> DEFINE i == run[r].item
<1>1. /\ i \in Items
      /\ row[i].status \in {"approved", "in_progress", "deleted"}
      /\ row[i].query \in Queries
      /\ \A x \in Runs : x # r => run[x].item # i
      /\ i # None
  BY RunsRow DEF TypeOK
<1>2. /\ run' \in [Runs -> Run]
      /\ run'[r] = [stage |-> stage, item |-> i, answer |-> answer]
      /\ \A x \in Runs : x # r => run'[x] = run[x]
  BY DEF Goto, TypeOK, Run, Stages
<1>3. /\ row' \in [Items -> Row]
      /\ row'[i].status = status
      /\ row'[i].client = row[i].client
      /\ row'[i].query = row[i].query
      /\ row'[i].response = row[i].response
      /\ \A j \in Items : j # i => row'[j] = row[j]
  <2>1. row \in [Items -> Row] /\ status \in Statuses
    BY DEF TypeOK, Statuses
  <2>2. row' \in [Items -> Row]
    BY <1>1, <2>1, WithStatusType
  <2>3. QED
    BY <1>1, <2>1, <2>2 DEF WithStatus, Row
<1>4. \A x \in Runs : Live(x)' <=> Live(x)
  BY <1>2 DEF Live
<1>5. \A x \in Runs : Live(x) => run[x].item \in Items /\ run'[x].item = run[x].item
  BY <1>1, <1>2 DEF Live, TypeOK, Run
<1>6. /\ sent' \in [Items -> Nat]
      /\ \A j \in Items : j # i => sent'[j] = sent[j]
      /\ sent'[i] = sent[i] \/ (MayPost(r) /\ stage = "calling" /\ sent'[i] = sent[i] + 1)
      /\ stage = "searching" => sent'[i] = sent[i] /\ MayPost(r)
  <2>1. CASE UNCHANGED sent
    BY <1>1, <2>1 DEF TypeOK
  <2>2. CASE MayPost(r) /\ stage = "calling" /\ sent' = [sent EXCEPT ![i] = @ + 1]
    BY <1>1, <2>2 DEF TypeOK
  <2>3. QED
    BY <2>1, <2>2
<1>7. /\ stage = "storing" => answer \in Answers /\ <<row[i].query, answer>> \in provided'
      /\ provided \subseteq provided'
  OBVIOUS
<1> HIDE DEF i
<1>8. TypeOK'
  <2>1. \A x \in Runs : Live(x)' <=> run'[x].item # None
    <3>1. \A x \in Runs : run'[x].item = run[x].item
      BY <1>2 DEF i
    <3>2. \A x \in Runs : Live(x) <=> run[x].item # None
      BY DEF TypeOK
    <3>3. QED
      BY <1>4, <3>1, <3>2
  <2>2. QED
    BY <1>2, <1>3, <1>6, <2>1 DEF TypeOK
<1>9. WellFormed' /\ Untouched'
  BY <1>1, <1>2, <1>3, <1>7 DEF WellFormed, Untouched, At
<1>10. ClientDataGated'
  BY <1>1, <1>3, <1>6 DEF ClientDataGated, Accounted, TypeOK, i
<1>11. OneRunPerItem'
  <2>1. ASSUME NEW x \in Runs, Live(x)
        PROVE  row'[run[x].item].status \in {"approved", "in_progress", "deleted"}
    BY <1>1, <1>3, <1>5, <2>1 DEF OneRunPerItem
  <2>2. \A x \in Runs : run'[x].item = run[x].item
    BY <1>2 DEF i
  <2>3. QED
    BY <1>4, <2>1, <2>2 DEF OneRunPerItem
<1>12. Accounted'
  <2>1. ASSUME NEW x \in Runs, MayPost(x)', row'[run'[x].item].client
        PROVE  sent'[run'[x].item] < approvals[run'[x].item]
    <3>1. CASE x = r
      <4>1. stage = "searching" /\ MayPost(r) /\ sent'[i] = sent[i] /\ run'[r].item = i
        BY <1>2, <1>6, <2>1, <3>1 DEF MayPost
      <4>2. QED
        BY <1>3, <2>1, <3>1, <4>1 DEF Accounted, i
    <3>2. CASE x # r
      <4>1. run'[x] = run[x] /\ MayPost(x) /\ run[x].item \in Items \ {i}
        BY <1>1, <1>2, <1>5, <2>1, <3>2 DEF MayPost, Live
      <4>2. QED
        BY <1>3, <1>6, <2>1, <4>1 DEF Accounted
    <3>3. QED
      BY <3>1, <3>2
  <2>2. QED
    BY <2>1 DEF Accounted
<1>13. AnswersAreGenuine'
  BY <1>3, <1>7, <1>1 DEF AnswersAreGenuine
<1>14. Genuine'
  <2>1. ASSUME NEW x \in Runs, At(x, "storing")'
        PROVE  <<row'[run'[x].item].query, run'[x].answer>> \in provided'
    <3>1. CASE x = r
      BY <1>2, <1>3, <1>7, <2>1, <3>1 DEF At
    <3>2. CASE x # r
      <4>1. run'[x] = run[x] /\ At(x, "storing") /\ run[x].item \in Items \ {i}
        BY <1>1, <1>2, <1>5, <2>1, <3>2 DEF At, Live
      <4>2. QED
        BY <1>3, <1>7, <4>1 DEF Genuine
    <3>3. QED
      BY <3>1, <3>2
  <2>2. QED
    BY <1>7, <2>1 DEF Genuine
<1>15. QED
  BY <1>8, <1>9, <1>10, <1>11, <1>12, <1>13, <1>14

(* The except clause, on the table as it was or with the row just put in   *)
(* progress.                                                               *)
LEMMA AbortEffect ==
  ASSUME IndInv, NEW r \in Runs, Live(r),
         Abort(r, row) \/ Abort(r, WithStatus(row, run[r].item, "in_progress")),
         cache' \in Seq(Entry),
         \A k \in DOMAIN cache' : <<cache'[k].query, cache'[k].answer>> \in provided,
         UNCHANGED <<config, approvals, sent, provided, crashes>>
  PROVE  IndInv'
<1> DEFINE i == run[r].item
<1>1. /\ i \in Items
      /\ row[i].status \in {"approved", "in_progress", "deleted"}
      /\ row \in [Items -> Row]
  BY RunsRow DEF IndInv, TypeOK
<1>2. PICK status \in {"approved", "in_progress", "deleted", "failed"} :
        row' = [row EXCEPT ![i].status = status]
  BY <1>1 DEF Abort, Failed, WithStatus, Row
<1> DEFINE final == [row[i] EXCEPT !.status = status]
<1>3. /\ final \in Row
      /\ final.status = status
      /\ final.client = row[i].client
      /\ final.query = row[i].query
  BY <1>1 DEF Row, Statuses
<1>4. row' = [row EXCEPT ![i] = final]
  BY <1>2
<1>5. End(r)
  BY DEF Abort
<1> HIDE DEF final
<1>6. QED
  BY <1>3, <1>4, <1>5, EndEffect

(* The query goes out, or there is no key to send it with.                 *)
LEMMA CallCloudEffect ==
  ASSUME IndInv, NEW r \in Runs, MayPost(r),
         CallCloud(r, row) \/ CallCloud(r, WithStatus(row, run[r].item, "in_progress")),
         UNCHANGED <<config, cache, approvals, provided, crashes>>
  PROVE  IndInv'
<1>1. Live(r)
  BY DEF MayPost, Live
<1>2. CASE config.apiKey
  <2>1. /\ Goto(r, "calling", None)
        /\ sent' = [sent EXCEPT ![run[r].item] = @ + 1]
    BY <1>2 DEF CallCloud
  <2>2. PICK status \in {"approved", "in_progress", "deleted"} : row' = WithStatus(row, run[r].item, status)
    <3>1. row = WithStatus(row, run[r].item, row[run[r].item].status)
      BY <1>1, RunsRow DEF WithStatus, IndInv, TypeOK, Row
    <3>2. row' = row \/ row' = WithStatus(row, run[r].item, "in_progress")
      BY <1>2 DEF CallCloud
    <3>3. QED
      BY <1>1, <3>1, <3>2, RunsRow
  <2>3. provided \subseteq provided' /\ provided' \subseteq Queries \X Answers
    BY DEF IndInv, TypeOK
  <2>4. QED
    BY <1>1, <2>1, <2>2, <2>3, WaitEffect
<1>3. CASE ~config.apiKey
  BY <1>1, <1>3, AbortEffect DEF CallCloud, IndInv, TypeOK, Genuine
<1>4. QED
  BY <1>2, <1>3

LEMMA StartStep ==
  ASSUME IndInv, NEW r \in Runs, StartRun(r)
  PROVE  IndInv'
<1> DEFINE started == WithStatus(row, run[r].item, "in_progress")
<1>1. MayPost(r) /\ Live(r)
  BY DEF StartRun, At, MayPost, Live
<1>2. UNCHANGED <<config, cache, approvals, provided, crashes>>
  BY DEF StartRun
<1>3. CASE CallCloud(r, started)
  BY <1>1, <1>2, <1>3, CallCloudEffect
<1>4. CASE row' = started /\ Goto(r, "searching", None) /\ UNCHANGED sent
  <2>1. provided \subseteq provided' /\ provided' \subseteq Queries \X Answers
    BY <1>2 DEF IndInv, TypeOK
  <2>2. QED
    BY <1>1, <1>2, <1>4, <2>1, WaitEffect
<1>5. CASE Abort(r, started) /\ UNCHANGED sent
  BY <1>1, <1>2, <1>5, AbortEffect DEF IndInv, TypeOK, Genuine
<1>6. QED
  BY <1>3, <1>4, <1>5 DEF StartRun

(* An answer completes the row once the provider has given it.             *)
LEMMA FinishEffect ==
  ASSUME IndInv, NEW r \in Runs, Live(r), NEW answer \in Answers, Finish(r, answer),
         <<row[run[r].item].query, answer>> \in provided,
         cache' \in Seq(Entry),
         \A k \in DOMAIN cache' : <<cache'[k].query, cache'[k].answer>> \in provided,
         UNCHANGED <<config, approvals, sent, provided, crashes>>
  PROVE  IndInv'
<1> DEFINE i == run[r].item
<1>1. i \in Items /\ row \in [Items -> Row]
  BY RunsRow DEF IndInv, TypeOK
<1> DEFINE final == [row[i] EXCEPT !.status = "complete", !.response = answer]
<1>2. /\ final \in Row
      /\ final.status = "complete"
      /\ final.response = answer
      /\ final.client = row[i].client
      /\ final.query = row[i].query
  BY <1>1 DEF Row, Statuses
<1>3. row' = [row EXCEPT ![i] = final]
  BY <1>1 DEF Finish, Completed
<1>4. End(r)
  BY DEF Finish
<1> HIDE DEF final
<1>5. QED
  BY <1>2, <1>3, <1>4, EndEffect

LEMMA SearchStep ==
  ASSUME IndInv, NEW r \in Runs, SearchReturns(r)
  PROVE  IndInv'
<1> DEFINE query == row[run[r].item].query
<1>1. MayPost(r) /\ Live(r)
  BY DEF SearchReturns, At, MayPost, Live
<1>2. UNCHANGED <<config, cache, approvals, provided, crashes>>
  BY DEF SearchReturns
<1>3. /\ cache' \in Seq(Entry)
      /\ \A k \in DOMAIN cache' : <<cache'[k].query, cache'[k].answer>> \in provided
  BY <1>2 DEF IndInv, TypeOK, Genuine
<1>4. CASE \E answer \in Answers : CacheHit(query, answer) /\ Finish(r, answer) /\ UNCHANGED sent
  <2>1. PICK answer \in Answers : CacheHit(query, answer) /\ Finish(r, answer) /\ UNCHANGED sent
    BY <1>4
  <2>2. PICK k \in DOMAIN cache : cache[k].query = query /\ cache[k].answer = answer
    BY <2>1 DEF CacheHit, EntryAnswers
  <2>3. <<query, answer>> \in provided
    BY <2>2 DEF IndInv, Genuine
  <2>4. QED
    BY <1>1, <1>2, <1>3, <2>1, <2>3, FinishEffect
<1>5. CASE CacheMiss(query) /\ CallCloud(r, row)
  BY <1>1, <1>2, <1>5, CallCloudEffect
<1>6. CASE Abort(r, row) /\ UNCHANGED sent
  BY <1>1, <1>2, <1>3, <1>6, AbortEffect
<1>7. QED
  BY <1>4, <1>5, <1>6 DEF SearchReturns

LEMMA CloudStep ==
  ASSUME IndInv, NEW r \in Runs, CloudReturns(r)
  PROVE  IndInv'
<1> DEFINE i == run[r].item
<1>1. Live(r)
  BY DEF CloudReturns, At, Live
<1>2. UNCHANGED <<config, cache, approvals, sent, crashes>>
  BY DEF CloudReturns
<1>3. CASE \E answer \in Answers :
             /\ Goto(r, "storing", answer)
             /\ provided' = provided \cup {<<row[i].query, answer>>}
             /\ UNCHANGED row
  <2>1. PICK answer \in Answers :
          /\ Goto(r, "storing", answer)
          /\ provided' = provided \cup {<<row[i].query, answer>>}
          /\ UNCHANGED row
    BY <1>3
  <2>2. /\ i \in Items
        /\ row[i].status \in {"approved", "in_progress", "deleted"}
        /\ row[i].query \in Queries
    BY <1>1, RunsRow
  <2>3. row' = WithStatus(row, i, row[i].status)
    BY <2>1, <2>2 DEF WithStatus, IndInv, TypeOK, Row
  <2>4. /\ provided \subseteq provided'
        /\ provided' \subseteq Queries \X Answers
        /\ <<row[i].query, answer>> \in provided'
    BY <2>1, <2>2 DEF IndInv, TypeOK
  <2>5. QED
    BY <1>1, <1>2, <2>1, <2>2, <2>3, <2>4, WaitEffect
<1>4. CASE Abort(r, row) /\ UNCHANGED provided
  BY <1>1, <1>2, <1>4, AbortEffect DEF IndInv, TypeOK, Genuine
<1>5. QED
  BY <1>3, <1>4 DEF CloudReturns

(* The cache of a run that stores, whichever way it comes out, holds only  *)
(* what the provider gave.                                                 *)
LEMMA CacheStaysGenuine ==
  ASSUME IndInv, NEW r \in Runs, At(r, "storing"),
         NEW entries \in {Append(cache, Given(r)), Stored(cache, Given(r))}
  PROVE  /\ Given(r) \in Entry
         /\ entries \in Seq(Entry)
         /\ \A k \in DOMAIN entries : <<entries[k].query, entries[k].answer>> \in provided
<1> DEFINE e == Given(r)
<1>1. e \in Entry /\ <<e.query, e.answer>> \in provided
  <2>1. run[r].answer \in Answers /\ <<row[run[r].item].query, run[r].answer>> \in provided
    BY DEF IndInv, WellFormed, Genuine
  <2>2. row[run[r].item].query \in Queries
    BY RunsRow DEF At, Live
  <2>3. QED
    BY <2>1, <2>2 DEF Given, Entry
<1> HIDE DEF e
<1>2. cache \in Seq(Entry)
  BY DEF IndInv, TypeOK
<1>3. /\ entries \in Seq(Entry)
      /\ \A k \in 1 .. Len(entries) :
           entries[k] = e \/ \E j \in 1 .. Len(cache) : entries[k] = cache[j]
  <2>1. CASE entries = Append(cache, e)
    BY <1>1, <1>2, <2>1, AppendProperties, LenProperties
  <2>2. CASE entries = Stored(cache, e)
    BY <1>1, <1>2, <2>2, StoredProperties
  <2>3. QED
    BY <2>1, <2>2 DEF e
<1>4. DOMAIN entries = 1 .. Len(entries) /\ DOMAIN cache = 1 .. Len(cache)
  BY <1>2, <1>3, LenProperties
<1>5. \A k \in DOMAIN cache : <<cache[k].query, cache[k].answer>> \in provided
  BY DEF IndInv, Genuine
<1>6. \A k \in DOMAIN entries : <<entries[k].query, entries[k].answer>> \in provided
  BY <1>1, <1>3, <1>4, <1>5
<1>7. QED
  BY <1>1, <1>3, <1>6 DEF e

LEMMA StoreStep ==
  ASSUME IndInv, NEW r \in Runs, StoreReturns(r)
  PROVE  IndInv'
<1>1. Live(r) /\ At(r, "storing")
  BY DEF StoreReturns, At, Live
<1>2. UNCHANGED <<config, approvals, sent, provided, crashes>>
  BY DEF StoreReturns
<1>3. CASE cache' = Stored(cache, Given(r)) /\ Finish(r, run[r].answer)
  <2>1. run[r].answer \in Answers /\ <<row[run[r].item].query, run[r].answer>> \in provided
    BY <1>1 DEF IndInv, WellFormed, Genuine
  <2>2. QED
    BY <1>1, <1>2, <1>3, <2>1, CacheStaysGenuine, FinishEffect
<1>4. CASE cache' \in {cache, Append(cache, Given(r))} /\ Abort(r, row)
  <2>1. /\ cache' \in Seq(Entry)
        /\ \A k \in DOMAIN cache' : <<cache'[k].query, cache'[k].answer>> \in provided
    <3>1. CASE cache' = cache
      BY <3>1 DEF IndInv, TypeOK, Genuine
    <3>2. CASE cache' = Append(cache, Given(r))
      BY <1>1, <3>2, CacheStaysGenuine
    <3>3. QED
      BY <1>4, <3>1, <3>2
  <2>2. QED
    BY <1>1, <1>2, <1>4, <2>1, AbortEffect
<1>5. QED
  BY <1>3, <1>4 DEF StoreReturns

(* What a crash leaves of the table: every row as it was, but for one that *)
(* was just inserted or that a run had put in progress.                    *)
LEMMA RowsAfterCrash ==
  ASSUME IndInv, Crash
  PROVE  /\ row' \in [Items -> Row]
         /\ \A i \in Items :
              \/ row'[i] = row[i]
              \/ /\ row[i].status = "absent"
                 /\ row'[i].status \in {"approved", "pending_approval"}
                 /\ row'[i].query \in Queries
              \/ /\ row[i].status \in {"approved", "in_progress", "deleted"}
                 /\ row'[i].status = "in_progress"
                 /\ row'[i].query = row[i].query
                 /\ row'[i].client = row[i].client
<1>1. row \in [Items -> Row]
  BY DEF IndInv, TypeOK
<1>2. ASSUME NEW i \in Items, NEW query \in Queries, NEW client \in BOOLEAN,
             InsertRow(i, query, client)
      PROVE  /\ row' \in [Items -> Row]
             /\ \A j \in Items : j # i => row'[j] = row[j]
             /\ row[i].status = "absent"
             /\ row'[i].status \in {"approved", "pending_approval"}
             /\ row'[i].query \in Queries
  BY <1>1, <1>2 DEF InsertRow, Row, Statuses
<1>3. ASSUME NEW r \in Runs, At(r, "scheduled"), row' = WithStatus(row, run[r].item, "in_progress")
      PROVE  /\ row' \in [Items -> Row]
             /\ \A j \in Items : j # run[r].item => row'[j] = row[j]
             /\ row[run[r].item].status \in {"approved", "in_progress", "deleted"}
             /\ row'[run[r].item].status = "in_progress"
             /\ row'[run[r].item].query = row[run[r].item].query
             /\ row'[run[r].item].client = row[run[r].item].client
  <2>1. /\ run[r].item \in Items
        /\ row[run[r].item].status \in {"approved", "in_progress", "deleted"}
    BY <1>3, RunsRow DEF At, Live
  <2>2. row' \in [Items -> Row]
    BY <1>1, <1>3, <2>1, WithStatusType DEF Statuses
  <2>3. QED
    BY <1>1, <1>3, <2>1, <2>2 DEF WithStatus, Row
<1>4. CASE row' = row
  BY <1>1, <1>4
<1>5. CASE \E i \in Items, query \in Queries, client \in BOOLEAN : InsertRow(i, query, client)
  BY <1>2, <1>5
<1>6. CASE \E r \in Runs : At(r, "scheduled") /\ row' = WithStatus(row, run[r].item, "in_progress")
  BY <1>3, <1>6
<1>7. QED
  BY <1>4, <1>5, <1>6 DEF Crash, CutOff

LEMMA CrashStep ==
  ASSUME IndInv, Crash
  PROVE  IndInv'
<1> USE ConstantsAssumption DEF IndInv
<1>1. /\ \A r \in Runs : run'[r] = [stage |-> "idle", item |-> None, answer |-> None]
      /\ run' \in [Runs -> Run]
      /\ config' \in Configs
      /\ crashes' = crashes + 1
      /\ UNCHANGED <<approvals, sent, provided>>
  BY DEF Crash, Idle, Run, Stages
<1>2. /\ cache' \in Seq(Entry)
      /\ \A k \in DOMAIN cache' : <<cache'[k].query, cache'[k].answer>> \in provided
  <2>1. CASE cache' = cache
    BY <2>1 DEF TypeOK, Genuine
  <2>2. ASSUME NEW r \in Runs, At(r, "storing"),
               cache' \in {Append(cache, Given(r)), Stored(cache, Given(r))}
        PROVE  /\ cache' \in Seq(Entry)
               /\ \A k \in DOMAIN cache' : <<cache'[k].query, cache'[k].answer>> \in provided
    BY <2>2, CacheStaysGenuine
  <2>3. QED
    BY <2>1, <2>2 DEF Crash, CutOff
<1>3. TypeOK'
  BY <1>1, <1>2, RowsAfterCrash DEF TypeOK, Live
<1>4. WellFormed' /\ OneRunPerItem' /\ Accounted' /\ Genuine'
  BY <1>1, <1>2, RowsAfterCrash DEF WellFormed, OneRunPerItem, Accounted, Genuine, Live, At, MayPost
<1>5. ClientDataGated' /\ Untouched' /\ AnswersAreGenuine'
  BY <1>1, RowsAfterCrash DEF ClientDataGated, Untouched, AnswersAreGenuine
<1>6. QED
  BY <1>3, <1>4, <1>5

LEMMA NextIndInv ==
  ASSUME IndInv, [Next]_vars
  PROVE  IndInv'
<1>1. CASE \E i \in Items : UserStep(i)
  <2>1. PICK i \in Items : UserStep(i)
    BY <1>1
  <2>2. CASE AddToQueue(i)
    BY <2>2, InsertStep DEF AddToQueue
  <2>3. CASE ApproveItem(i) \/ RetryItem(i)
    BY <2>3, AdmitStep DEF ApproveItem, RetryItem, Approvable
  <2>4. CASE RejectItem(i)
    BY <2>4, RejectStep
  <2>5. CASE DeleteItem(i)
    BY <2>5, DeleteStep
  <2>6. QED
    BY <2>1, <2>2, <2>3, <2>4, <2>5 DEF UserStep
<1>2. CASE \E r \in Runs : RunStep(r)
  BY <1>2, StartStep, SearchStep, CloudStep, StoreStep DEF RunStep
<1>3. CASE Crash
  BY <1>3, CrashStep
<1>4. CASE UNCHANGED vars
  BY <1>4 DEF vars, IndInv, TypeOK, WellFormed, OneRunPerItem, ClientDataGated, Accounted,
              Untouched, AnswersAreGenuine, Genuine, Live, At, MayPost
<1>5. QED
  BY <1>1, <1>2, <1>3, <1>4 DEF Next

-----------------------------------------------------------------------------
(* The invariant that carries the safety properties holds in every state   *)
(* of every instance: any number of rows, runs, queries, crashes and       *)
(* deployments.                                                            *)
THEOREM Invariance == Spec => []IndInv
BY InitIndInv, NextIndInv, PTL DEF Spec

(* The rows, runs and cache stay well typed.                               *)
THEOREM TypeCorrect == Spec => []TypeOK
<1>1. IndInv => TypeOK
  BY DEF IndInv
<1>2. QED
  BY <1>1, Invariance, PTL

(* The security rules of routers/escalation.py: whatever the settings and  *)
(* whatever crashes, a client item is posted to the provider at most once  *)
(* per approval or retry, and an undecided or rejected item never.         *)
THEOREM ClientDataIsGated == Spec => []ClientDataGated
<1>1. IndInv => ClientDataGated
  BY DEF IndInv
<1>2. QED
  BY <1>1, Invariance, PTL

(* The status of a row alone keeps a second background run off it.         *)
THEOREM RunsAreExclusive == Spec => []OneRunPerItem
<1>1. IndInv => OneRunPerItem
  BY DEF IndInv
<1>2. QED
  BY <1>1, Invariance, PTL

(* What a complete row shows is an answer the provider gave to a query of  *)
(* the same class, whether it came from the provider or from the cache.    *)
THEOREM CompletedRowsAreGenuine == Spec => []AnswersAreGenuine
<1>1. IndInv => AnswersAreGenuine
  BY DEF IndInv
<1>2. QED
  BY <1>1, Invariance, PTL

-----------------------------------------------------------------------------
(* What a step of a run leaves alone.                                      *)

LEMMA AbortFrame ==
  ASSUME IndInv, NEW r \in Runs, Live(r), NEW rows \in {row, WithStatus(row, run[r].item, "in_progress")},
         Abort(r, rows)
  PROVE  /\ \A j \in Items \ {run[r].item} : row'[j] = row[j]
         /\ row'[run[r].item].status # "absent"
         /\ row'[run[r].item].client = row[run[r].item].client
         /\ run' = [run EXCEPT ![r] = Idle]
<1>1. /\ run[r].item \in Items
      /\ row[run[r].item].status \in {"approved", "in_progress", "deleted"}
      /\ row \in [Items -> Row]
  BY RunsRow DEF IndInv, TypeOK
<1>2. QED
  BY <1>1 DEF Abort, End, Failed, WithStatus, Row

LEMMA CallFrame ==
  ASSUME IndInv, NEW r \in Runs, Live(r), NEW rows \in {row, WithStatus(row, run[r].item, "in_progress")},
         CallCloud(r, rows)
  PROVE  /\ \A j \in Items \ {run[r].item} : row'[j] = row[j]
         /\ row'[run[r].item].status # "absent"
         /\ row'[run[r].item].client = row[run[r].item].client
         /\ \/ run' = [run EXCEPT ![r] = Idle] /\ sent' = sent
            \/ Goto(r, "calling", None) /\ sent' = [sent EXCEPT ![run[r].item] = @ + 1]
<1>1. /\ run[r].item \in Items
      /\ row[run[r].item].status \in {"approved", "in_progress", "deleted"}
      /\ row \in [Items -> Row]
  BY RunsRow DEF IndInv, TypeOK
<1>2. CASE config.apiKey
  BY <1>1, <1>2 DEF CallCloud, WithStatus, Row
<1>3. CASE ~config.apiKey
  BY <1>3, AbortFrame DEF CallCloud
<1>4. QED
  BY <1>2, <1>3

(* A step of a run changes only its own row, which stays present and keeps *)
(* its client flag; it ends the run, or posts for it, or lets it wait.     *)
LEMMA RunFrame ==
  ASSUME IndInv, NEW r \in Runs, RunStep(r)
  PROVE  /\ Live(r)
         /\ \A j \in Items \ {run[r].item} : row'[j] = row[j]
         /\ row'[run[r].item].status # "absent"
         /\ row'[run[r].item].client = row[run[r].item].client
         /\ approvals' = approvals
         /\ \/ run' = [run EXCEPT ![r] = Idle] /\ sent' = sent
            \/ Goto(r, "searching", None) /\ MayPost(r) /\ sent' = sent
            \/ /\ Goto(r, "calling", None) /\ MayPost(r)
               /\ sent' = [sent EXCEPT ![run[r].item] = @ + 1]
            \/ /\ ~MayPost(r) /\ sent' = sent
               /\ \E answer \in Answers : Goto(r, "storing", answer)
<1>1. Live(r)
  BY DEF RunStep, StartRun, SearchReturns, CloudReturns, StoreReturns, At, Live
<1>2. /\ run[r].item \in Items
      /\ row[run[r].item].status \in {"approved", "in_progress", "deleted"}
      /\ row \in [Items -> Row]
  BY <1>1, RunsRow DEF IndInv, TypeOK
<1>3. CASE StartRun(r)
  <2> DEFINE started == WithStatus(row, run[r].item, "in_progress")
  <2>1. MayPost(r) /\ approvals' = approvals
    BY <1>3 DEF StartRun, At, MayPost
  <2>2. CASE CallCloud(r, started)
    BY <1>1, <2>1, <2>2, CallFrame
  <2>3. CASE row' = started /\ Goto(r, "searching", None) /\ UNCHANGED sent
    <3>1. /\ \A j \in Items \ {run[r].item} : row'[j] = row[j]
          /\ row'[run[r].item].status # "absent"
          /\ row'[run[r].item].client = row[run[r].item].client
      BY <1>2, <2>3 DEF WithStatus, Row
    <3>2. QED
      BY <1>1, <2>1, <2>3, <3>1
  <2>4. CASE Abort(r, started) /\ UNCHANGED sent
    BY <1>1, <2>1, <2>4, AbortFrame
  <2>5. QED
    BY <1>3, <2>2, <2>3, <2>4 DEF StartRun
<1>4. CASE SearchReturns(r)
  <2>1. MayPost(r) /\ approvals' = approvals
    BY <1>4 DEF SearchReturns, At, MayPost
  <2>2. CASE \E answer \in Answers : Finish(r, answer) /\ UNCHANGED sent
    BY <1>1, <1>2, <2>1, <2>2 DEF Finish, Completed, End, Row
  <2>3. CASE CallCloud(r, row)
    BY <1>1, <2>1, <2>3, CallFrame
  <2>4. CASE Abort(r, row) /\ UNCHANGED sent
    BY <1>1, <2>1, <2>4, AbortFrame
  <2>5. QED
    BY <1>4, <2>2, <2>3, <2>4 DEF SearchReturns
<1>5. CASE CloudReturns(r)
  <2>1. ~MayPost(r) /\ approvals' = approvals /\ sent' = sent
    BY <1>5 DEF CloudReturns, At, MayPost
  <2>2. CASE UNCHANGED row /\ \E answer \in Answers : Goto(r, "storing", answer)
    BY <1>1, <1>2, <2>1, <2>2
  <2>3. CASE Abort(r, row)
    BY <1>1, <2>1, <2>3, AbortFrame
  <2>4. QED
    BY <1>5, <2>2, <2>3 DEF CloudReturns
<1>6. CASE StoreReturns(r)
  <2>1. approvals' = approvals /\ sent' = sent
    BY <1>6 DEF StoreReturns
  <2>2. CASE Finish(r, run[r].answer)
    BY <1>1, <1>2, <2>1, <2>2 DEF Finish, Completed, End, Row
  <2>3. CASE Abort(r, row)
    BY <1>1, <2>1, <2>3, AbortFrame
  <2>4. QED
    BY <1>6, <2>2, <2>3 DEF StoreReturns
<1>7. QED
  BY <1>3, <1>4, <1>5, <1>6 DEF RunStep

-----------------------------------------------------------------------------
(* A complete or rejected row changes only by being deleted: no background *)
(* run can be at work on it.                                               *)
THEOREM DecisionsAreFinal == Spec => DecisionsStand
<1> DEFINE Stands == \A i \in Items : row[i].status \in {"complete", "rejected"} =>
                       row'[i] = row[i] \/ row'[i].status = "deleted"
<1>1. ASSUME IndInv, [Next]_vars
      PROVE  [Stands]_vars
  <2>1. row \in [Items -> Row]
    BY <1>1 DEF IndInv, TypeOK
  <2>2. CASE \E j \in Items : UserStep(j)
    <3>1. PICK j \in Items : UserStep(j)
      BY <2>2
    <3>2. CASE DeleteItem(j)
      BY <2>1, <3>2 DEF DeleteItem, WithStatus, Row
    <3>3. CASE ~DeleteItem(j)
      <4>1. row[j].status \in {"absent", "pending_approval", "failed"}
        BY <3>1, <3>3 DEF UserStep, AddToQueue, Insert, InsertRow, ApproveItem, RetryItem, Approvable, RejectItem
      <4>2. \A i \in Items : i # j => row'[i] = row[i]
        BY <2>1, <3>1, <3>3 DEF UserStep, AddToQueue, Insert, InsertRow, ApproveItem, RetryItem,
                                Admit, RejectItem, WithStatus
      <4>3. QED
        BY <4>1, <4>2
    <3>4. QED
      BY <3>2, <3>3
  <2>3. CASE \E r \in Runs : RunStep(r)
    <3>1. PICK r \in Runs : RunStep(r)
      BY <2>3
    <3>2. /\ row[run[r].item].status \notin {"complete", "rejected"}
          /\ \A j \in Items \ {run[r].item} : row'[j] = row[j]
      BY <1>1, <3>1, RunFrame, RunsRow
    <3>3. QED
      BY <3>2
  <2>4. CASE Crash
    <3>1. \A i \in Items : row'[i] = row[i] \/ row[i].status \notin {"complete", "rejected"}
      BY <1>1, <2>4, RowsAfterCrash
    <3>2. QED
      BY <3>1
  <2>5. CASE UNCHANGED vars
    BY <2>5 DEF vars
  <2>6. QED
    BY <1>1, <2>2, <2>3, <2>4, <2>5 DEF Next
<1>2. QED
  BY <1>1, Invariance, PTL DEF Spec, DecisionsStand

(* A row a storing run works on is completed by nothing but its storing.   *)
LEMMA StoringCompletes ==
  ASSUME IndInv, [Next]_vars, NEW r \in Runs, At(r, "storing"),
         row'[run[r].item].status = "complete"
  PROVE  cache' = Stored(cache, Given(r))
<1>1. /\ run[r].item \in Items
      /\ row \in [Items -> Row]
      /\ row[run[r].item].status \in {"approved", "in_progress", "deleted"}
      /\ \A x \in Runs : x # r => run[x].item # run[r].item
  BY RunsRow DEF At, Live, IndInv, TypeOK
<1>2. PICK i \in Items : i = run[r].item
  BY <1>1
<1>3. ASSUME NEW j \in Items, UserStep(j) PROVE row'[i].status # "complete"
  <2>1. \/ \E query \in Queries, client \in BOOLEAN : Insert(j, query, client)
        \/ \E status \in {"approved", "rejected", "deleted"} :
             row' = [row EXCEPT ![j].status = status]
    BY <1>3 DEF UserStep, AddToQueue, ApproveItem, RetryItem, Admit, RejectItem, DeleteItem,
                WithStatus
  <2>2. ASSUME NEW query \in Queries, NEW client \in BOOLEAN, Insert(j, query, client)
        PROVE  row'[i] = row[i]
    BY <1>1, <1>2, <2>2 DEF Insert, InsertRow
  <2>3. QED
    BY <1>1, <1>2, <2>1, <2>2 DEF Row
<1>4. ASSUME NEW x \in Runs, RunStep(x), x # r PROVE row'[i] = row[i]
  BY <1>1, <1>2, <1>4, RunFrame
<1>5. Crash => row'[i].status # "complete"
  BY <1>1, <1>2, RowsAfterCrash
<1>6. UNCHANGED vars => row' = row
  BY DEF vars
<1>7. RunStep(r)
  BY <1>1, <1>2, <1>3, <1>4, <1>5, <1>6 DEF Next
<1>8. StoreReturns(r)
  BY <1>7 DEF RunStep, StartRun, SearchReturns, CloudReturns, At
<1>9. ~Abort(r, row)
  BY <1>1, <1>2 DEF Abort, Failed, WithStatus, Row
<1>10. QED
  BY <1>8, <1>9 DEF StoreReturns

(* A step that changes the cache is one of a run that stores: it completes *)
(* the row with the eviction done, or ends the run without completing it   *)
(* and leaves at most one entry more, or the cache as the eviction does.   *)
LEMMA CacheChanges ==
  ASSUME IndInv, [Next]_vars, cache' # cache
  PROVE  \E r \in Runs :
           /\ At(r, "storing")
           /\ \/ cache' = Stored(cache, Given(r))
              \/ /\ cache' = Append(cache, Given(r))
                 /\ ~Live(r)'
                 /\ row'[run[r].item].status # "complete"
<1>1. ASSUME NEW r \in Runs, At(r, "storing")
      PROVE  /\ run[r].item \in Items
             /\ row \in [Items -> Row]
             /\ run \in [Runs -> Run]
             /\ row[run[r].item].status \in {"approved", "in_progress", "deleted"}
  BY <1>1, RunsRow DEF At, Live, IndInv, TypeOK
<1>2. ASSUME NEW r \in Runs, StoreReturns(r)
      PROVE  /\ At(r, "storing")
             /\ \/ cache' = Stored(cache, Given(r))
                \/ /\ cache' = Append(cache, Given(r))
                   /\ ~Live(r)'
                   /\ row'[run[r].item].status # "complete"
  <2>1. At(r, "storing")
    BY <1>2 DEF StoreReturns
  <2>2. ASSUME Abort(r, row)
        PROVE  ~Live(r)' /\ row'[run[r].item].status # "complete"
    BY <1>1, <2>1, <2>2 DEF Abort, End, Idle, Live, Failed, WithStatus, Row
  <2>3. QED
    BY <1>2, <2>1, <2>2 DEF StoreReturns
<1>3. ASSUME NEW i \in Items, UserStep(i) PROVE cache' = cache
  BY <1>3 DEF UserStep, AddToQueue, Insert, ApproveItem, RetryItem, Admit, RejectItem, DeleteItem
<1>4. ASSUME NEW r \in Runs, RunStep(r) PROVE StoreReturns(r) \/ cache' = cache
  BY <1>4 DEF RunStep, StartRun, SearchReturns, CloudReturns
<1>5. ASSUME Crash
      PROVE  \E r \in Runs :
               /\ At(r, "storing")
               /\ cache' \in {Append(cache, Given(r)), Stored(cache, Given(r))}
               /\ ~Live(r)' /\ row'[run[r].item].status # "complete"
  <2>1. PICK r \in Runs :
          /\ At(r, "storing")
          /\ cache' \in {Append(cache, Given(r)), Stored(cache, Given(r))}
          /\ row' = row
    BY <1>5 DEF Crash, CutOff
  <2>2. run'[r] = Idle
    BY <1>5 DEF Crash
  <2>3. QED
    BY <1>1, <2>1, <2>2 DEF Live, Idle
<1>6. UNCHANGED vars => cache' = cache
  BY DEF vars
<1>7. QED
  BY <1>2, <1>3, <1>4, <1>5, <1>6 DEF Next

(* The answer that completes a row is the newest entry of a cache within   *)
(* MAX_ESCALATION_CACHE_SIZE, and only a store that is cut off before the  *)
(* eviction takes the cache beyond it, by one entry.                       *)
THEOREM CacheIsTrimmed == Spec => CacheKeepsNewest
<1> DEFINE Newest(r) ==
             At(r, "storing") /\ row'[run[r].item].status = "complete" =>
               /\ Len(cache') <= MaxCache
               /\ MaxCache > 0 => cache' # <<>> /\ cache'[Len(cache')] = Given(r)
           Grows ==
             cache' # cache /\ Len(cache') > MaxCache =>
               /\ Len(cache') = Len(cache) + 1
               /\ \E r \in Runs :
                    At(r, "storing") /\ ~Live(r)' /\ row'[run[r].item].status # "complete"
           Keeps == (\A r \in Runs : Newest(r)) /\ Grows
<1>1. ASSUME IndInv, NEW r \in Runs, At(r, "storing")
      PROVE  /\ Stored(cache, Given(r)) \in Seq(Entry)
             /\ Len(Stored(cache, Given(r))) <= MaxCache
             /\ MaxCache > 0 =>
                  /\ Len(Stored(cache, Given(r))) > 0
                  /\ Stored(cache, Given(r))[Len(Stored(cache, Given(r)))] = Given(r)
             /\ Len(Append(cache, Given(r))) = Len(cache) + 1
  <2>1. Given(r) \in Entry
    BY <1>1, CacheStaysGenuine
  <2>2. cache \in Seq(Entry)
    BY <1>1 DEF IndInv, TypeOK
  <2>3. QED
    BY <2>1, <2>2, StoredProperties, AppendProperties
<1>2. ASSUME IndInv, [Next]_vars
      PROVE  Grows
  <2>1. SUFFICES ASSUME cache' # cache, Len(cache') > MaxCache
                 PROVE  /\ Len(cache') = Len(cache) + 1
                        /\ \E r \in Runs :
                             At(r, "storing") /\ ~Live(r)' /\ row'[run[r].item].status # "complete"
    OBVIOUS
  <2>2. PICK r \in Runs :
          /\ At(r, "storing")
          /\ \/ cache' = Stored(cache, Given(r))
             \/ /\ cache' = Append(cache, Given(r))
                /\ ~Live(r)'
                /\ row'[run[r].item].status # "complete"
    BY <1>2, <2>1, CacheChanges
  <2>3. cache' # Stored(cache, Given(r))
    <3>1. SUFFICES ASSUME cache' = Stored(cache, Given(r)) PROVE FALSE
      OBVIOUS
    <3>2. Len(cache') <= MaxCache /\ cache' \in Seq(Entry)
      BY <1>1, <1>2, <2>2, <3>1
    <3>3. Len(cache') \in Nat /\ MaxCache \in Nat
      BY <3>2, LenProperties, ConstantsAssumption
    <3>4. QED
      BY <2>1, <3>2, <3>3
  <2>4. QED
    BY <1>1, <1>2, <2>2, <2>3
<1>3. ASSUME IndInv, [Next]_vars
      PROVE  \A r \in Runs : Newest(r)
  <2>1. SUFFICES ASSUME NEW r \in Runs, At(r, "storing"), row'[run[r].item].status = "complete"
                 PROVE  /\ Len(cache') <= MaxCache
                        /\ MaxCache > 0 => cache' # <<>> /\ cache'[Len(cache')] = Given(r)
    OBVIOUS
  <2>2. cache' = Stored(cache, Given(r))
    BY <1>3, <2>1, StoringCompletes
  <2>3. /\ Len(cache') <= MaxCache
        /\ MaxCache > 0 => Len(cache') > 0 /\ cache'[Len(cache')] = Given(r)
    BY <1>1, <1>3, <2>1, <2>2
  <2>4. QED
    BY <2>3
<1>4. QED
  <2>1. ASSUME IndInv, [Next]_vars PROVE [Keeps]_vars
    BY <1>2, <1>3, <2>1
  <2>2. QED
    BY <2>1, Invariance, PTL DEF Spec, CacheKeepsNewest

-----------------------------------------------------------------------------
(* The queue implements the approval gate.                                 *)

LEMMA GateInit == Init => Gate!Init
BY DEF Init, Gate!Init, GateOf, NoRow

(* The gate of an item depends on its row and the runs on it only.         *)
LEMMA GateUnchanged ==
  ASSUME IndInv, NEW i \in Items, (row'[i].status = "absent") <=> (row[i].status = "absent"),
         \A x \in Runs : (run'[x].item = i /\ MayPost(x)') <=> (run[x].item = i /\ MayPost(x))
  PROVE  GateOf(i)' = GateOf(i)
BY DEF GateOf, MayPost

LEMMA GateInsert ==
  ASSUME IndInv, NEW i \in Items, NEW query \in Queries, NEW client \in BOOLEAN,
         Insert(i, query, client)
  PROVE  Gate!Submit(i, client)
<1>1. /\ row \in [Items -> Row]
      /\ run \in [Runs -> Run]
      /\ row[i].status = "absent"
      /\ row'[i].status # "absent"
      /\ row'[i].client = client
      /\ \A j \in Items : j # i => row'[j] = row[j]
      /\ UNCHANGED <<approvals, sent>>
  BY DEF IndInv, TypeOK, Insert, InsertRow
<1>2. \A x \in Runs : run[x].item # i
  BY <1>1, ConstantsAssumption DEF IndInv, TypeOK, OneRunPerItem, Live
<1>3. \A j \in Items : j # i => GateOf(j)' = GateOf(j)
  <2>1. CASE AutoApproved(client)
    <3>1. PICK r \in Runs :
            /\ ~Live(r)
            /\ run' = [run EXCEPT ![r] = [stage |-> "scheduled", item |-> i, answer |-> None]]
      BY <2>1 DEF Insert, Schedule
    <3>2. /\ ~MayPost(r) /\ run'[r].item = i
          /\ \A x \in Runs : x # r => run'[x] = run[x]
      BY <1>1, <3>1 DEF MayPost, Live
    <3>3. QED
      BY <1>1, <3>2, GateUnchanged DEF MayPost
  <2>2. CASE ~AutoApproved(client)
    BY <1>1, <2>2, GateUnchanged DEF Insert, MayPost
  <2>3. QED
    BY <2>1, <2>2
<1>4. GateOf(i) = "absent"
  BY <1>1 DEF GateOf
<1>5. GateOf(i)' = IF AutoApproved(client) THEN "open" ELSE "closed"
  <2>1. CASE AutoApproved(client)
    <3>1. PICK r \in Runs :
            run' = [run EXCEPT ![r] = [stage |-> "scheduled", item |-> i, answer |-> None]]
      BY <2>1 DEF Insert, Schedule
    <3>2. run'[r].item = i /\ run'[r].stage = "scheduled"
      BY <1>1, <3>1
    <3>3. QED
      BY <1>1, <2>1, <3>2 DEF GateOf
  <2>2. CASE ~AutoApproved(client)
    BY <1>1, <1>2, <2>2 DEF Insert, GateOf
  <2>3. QED
    BY <2>1, <2>2
<1>6. [j \in Items |-> row[j].client]' = [[j \in Items |-> row[j].client] EXCEPT ![i] = client]
  BY <1>1
<1>7. [j \in Items |-> GateOf(j)]' =
        [[j \in Items |-> GateOf(j)] EXCEPT ![i] = IF AutoApproved(client) THEN "open" ELSE "closed"]
  BY <1>3, <1>5
<1>8. client => ~AutoApproved(client)
  BY DEF AutoApproved
<1> DEFINE gates == [j \in Items |-> GateOf(j)]
           S == {j \in Items : gates[j] = "open" /\ GateOf(j)' = "closed" /\ j # i}
           g == IF AutoApproved(client) THEN "open" ELSE "closed"
<1>9. S = {}
  BY <1>3
<1>10. gates' = [[j \in Items |-> IF j \in S THEN "closed" ELSE gates[j]] EXCEPT ![i] = g]
  BY <1>7, <1>9
<1>11. S \in SUBSET {j \in Items : gates[j] = "open"}
  OBVIOUS
<1> HIDE DEF S
<1>12. QED
  BY <1>1, <1>4, <1>6, <1>8, <1>10, <1>11 DEF Gate!Submit, Gate!Closed, Gate!OpenGates

LEMMA GateAdmit ==
  ASSUME IndInv, NEW i \in Items, Approvable(i), Admit(i)
  PROVE  Gate!Permit(i)
<1>1. /\ row \in [Items -> Row]
      /\ run \in [Runs -> Run]
      /\ approvals \in [Items -> Nat]
  BY DEF IndInv, TypeOK
<1>2. /\ row[i].status \in {"pending_approval", "failed"}
      /\ row'[i].status # "absent"
      /\ row'[i].client = row[i].client
      /\ \A j \in Items : j # i => row'[j] = row[j]
      /\ approvals' = [approvals EXCEPT ![i] = @ + 1]
      /\ UNCHANGED sent
  BY <1>1 DEF Admit, Approvable, WithStatus, Row
<1>3. PICK r \in Runs :
        /\ ~Live(r)
        /\ run' = [run EXCEPT ![r] = [stage |-> "scheduled", item |-> i, answer |-> None]]
  BY DEF Admit, Schedule
<1>4. /\ ~MayPost(r) /\ run'[r].item = i /\ run'[r].stage = "scheduled"
      /\ \A x \in Runs : x # r => run'[x] = run[x]
  BY <1>1, <1>3 DEF MayPost, Live
<1>5. \A x \in Runs : run[x].item # i
  BY <1>2, ConstantsAssumption DEF IndInv, TypeOK, OneRunPerItem, Live
<1>6. \A j \in Items : j # i => GateOf(j)' = GateOf(j)
  BY <1>2, <1>4, GateUnchanged DEF MayPost
<1>7. GateOf(i) = "closed" /\ GateOf(i)' = "open"
  BY <1>2, <1>4, <1>5 DEF GateOf
<1>8. [j \in Items |-> row[j].client]' = [j \in Items |-> row[j].client]
  BY <1>2
<1>9. [j \in Items |-> GateOf(j)]' = [[j \in Items |-> GateOf(j)] EXCEPT ![i] = "open"]
  BY <1>6, <1>7
<1>10. QED
  BY <1>2, <1>7, <1>8, <1>9 DEF Gate!Permit

(* A step that changes no counter, and closes gates at most, is a lapse.   *)
LEMMA GateLapse ==
  ASSUME \A i \in Items : row'[i].client = row[i].client,
         \A i \in Items : GateOf(i)' = GateOf(i) \/ (GateOf(i) = "open" /\ GateOf(i)' = "closed"),
         UNCHANGED <<approvals, sent>>
  PROVE  Gate!Lapse
<1> DEFINE S == {i \in Items : GateOf(i) = "open" /\ GateOf(i)' = "closed"}
<1> DEFINE gates == [i \in Items |-> GateOf(i)]
<1>1. gates' = [i \in Items |-> IF i \in S THEN "closed" ELSE gates[i]]
  OBVIOUS
<1>2. S \in SUBSET {i \in Items : gates[i] = "open"}
  OBVIOUS
<1>3. [i \in Items |-> row[i].client]' = [i \in Items |-> row[i].client]
  OBVIOUS
<1> HIDE DEF S
<1>4. QED
  BY <1>1, <1>2, <1>3 DEF Gate!Lapse, Gate!Closed, Gate!OpenGates

(* A crash closes every gate; the one of a row that it cuts off before it  *)
(* is scheduled is born closed.                                            *)
LEMMA GateCrash ==
  ASSUME IndInv, Crash
  PROVE  Gate!Next
<1> DEFINE gates == [i \in Items |-> GateOf(i)]
           S == {i \in Items : gates[i] = "open"}
<1>1. /\ row \in [Items -> Row]
      /\ UNCHANGED <<approvals, sent>>
      /\ \A r \in Runs : run'[r].stage = "idle"
  BY DEF IndInv, TypeOK, Crash, Idle
<1>2. \A i \in Items : GateOf(i)' = IF row'[i].status = "absent" THEN "absent" ELSE "closed"
  BY <1>1 DEF GateOf
<1>3. \A i \in Items : GateOf(i) = "absent" <=> row[i].status = "absent"
  BY DEF GateOf
<1>4. \A i \in Items : GateOf(i) \in {"absent", "open", "closed"}
  BY DEF GateOf
<1>5. CASE \E i \in Items, query \in Queries, client \in BOOLEAN : InsertRow(i, query, client)
  <2>1. PICK i \in Items, query \in Queries, client \in BOOLEAN : InsertRow(i, query, client)
    BY <1>5
  <2>2. /\ row[i].status = "absent" /\ row'[i].status # "absent" /\ row'[i].client = client
        /\ \A j \in Items : j # i => row'[j] = row[j]
    BY <1>1, <2>1 DEF InsertRow
  <2>3. [j \in Items |-> row[j].client]' = [[j \in Items |-> row[j].client] EXCEPT ![i] = client]
    BY <2>2
  <2>4. \A j \in Items : j # i => GateOf(j)' = IF GateOf(j) = "open" THEN "closed" ELSE GateOf(j)
    BY <1>2, <1>3, <1>4, <2>2
  <2>5. gates' = [[j \in Items |-> IF j \in S THEN "closed" ELSE gates[j]] EXCEPT ![i] = "closed"]
    BY <1>2, <2>2, <2>4
  <2>6. S \in SUBSET {j \in Items : gates[j] = "open"} /\ gates[i] = "absent"
    BY <1>3, <2>2
  <2> HIDE DEF S
  <2>7. Gate!Submit(i, client)
    BY <1>1, <2>3, <2>5, <2>6 DEF Gate!Submit, Gate!Closed, Gate!OpenGates
  <2>8. QED
    BY <2>7 DEF Gate!Next
<1>6. CASE ~\E i \in Items, query \in Queries, client \in BOOLEAN : InsertRow(i, query, client)
  <2>1. \A i \in Items :
          /\ row'[i].client = row[i].client
          /\ (row'[i].status = "absent") <=> (row[i].status = "absent")
    <3>1. CASE row' = row
      BY <3>1
    <3>2. ASSUME NEW r \in Runs, At(r, "scheduled"), row' = WithStatus(row, run[r].item, "in_progress")
          PROVE  \A i \in Items :
                   /\ row'[i].client = row[i].client
                   /\ (row'[i].status = "absent") <=> (row[i].status = "absent")
      BY <1>1, <3>2, RunsRow DEF WithStatus, Row, At, Live
    <3>3. QED
      BY <1>6, <3>1, <3>2 DEF Crash, CutOff
  <2>2. \A i \in Items : GateOf(i)' = GateOf(i) \/ (GateOf(i) = "open" /\ GateOf(i)' = "closed")
    BY <1>2, <1>3, <1>4, <2>1
  <2>3. QED
    BY <1>1, <2>1, <2>2, GateLapse DEF Gate!Next
<1>7. QED
  BY <1>5, <1>6

LEMMA GateRun ==
  ASSUME IndInv, NEW r \in Runs, RunStep(r)
  PROVE  Gate!Lapse \/ Gate!Send(run[r].item)
<1>0. PICK i \in Items : i = run[r].item
  BY RunFrame, RunsRow
<1>1. /\ row[i].status # "absent"
      /\ row'[i].status # "absent"
      /\ \A j \in Items : row'[j].client = row[j].client
      /\ \A j \in Items \ {i} : row'[j] = row[j]
      /\ \A x \in Runs : x # r => run[x].item # i
      /\ approvals' = approvals
      /\ run \in [Runs -> Run] /\ sent \in [Items -> Nat]
      /\ Live(r)
  BY <1>0, RunFrame, RunsRow DEF IndInv, TypeOK
<1>2. /\ \A x \in Runs : x # r => run'[x] = run[x]
      /\ \/ MayPost(r)' /\ run'[r].item = i /\ MayPost(r) /\ sent' = sent
         \/ ~MayPost(r)' /\ sent' = sent
         \/ ~MayPost(r)' /\ MayPost(r) /\ sent' = [sent EXCEPT ![i] = @ + 1]
  <2>1. CASE run' = [run EXCEPT ![r] = Idle] /\ sent' = sent
    BY <1>1, <2>1 DEF MayPost, Idle
  <2>2. CASE Goto(r, "searching", None) /\ MayPost(r) /\ sent' = sent
    BY <1>0, <1>1, <2>2 DEF MayPost, Goto, Run
  <2>3. CASE Goto(r, "calling", None) /\ MayPost(r) /\ sent' = [sent EXCEPT ![i] = @ + 1]
    BY <1>1, <2>3 DEF MayPost, Goto, Run
  <2>4. CASE sent' = sent /\ \E answer \in Answers : Goto(r, "storing", answer)
    BY <1>1, <2>4 DEF MayPost, Goto, Run
  <2>5. QED
    BY <1>0, <2>1, <2>2, <2>3, <2>4, RunFrame
<1>3. \A j \in Items : j # i => GateOf(j)' = GateOf(j)
  <2>1. ASSUME NEW j \in Items, j # i, NEW x \in Runs
        PROVE  (run'[x].item = j /\ MayPost(x)') <=> (run[x].item = j /\ MayPost(x))
    <3>1. CASE x = r
      BY <1>0, <1>2, <2>1, <3>1
    <3>2. CASE x # r
      BY <1>2, <3>2 DEF MayPost
    <3>3. QED
      BY <3>1, <3>2
  <2>2. QED
    BY <1>1, <2>1, GateUnchanged
<1>4. GateOf(i) = IF MayPost(r) THEN "open" ELSE "closed"
  BY <1>0, <1>1 DEF GateOf, MayPost
<1>5. GateOf(i)' = IF MayPost(r)' /\ run'[r].item = i THEN "open" ELSE "closed"
  <2>1. \A x \in Runs : x # r => run'[x].item # i
    BY <1>1, <1>2
  <2>2. QED
    BY <1>1, <2>1 DEF GateOf, MayPost
<1>6. CASE sent' = sent
  BY <1>1, <1>2, <1>3, <1>4, <1>5, <1>6, GateLapse
<1>7. CASE ~MayPost(r)' /\ MayPost(r) /\ sent' = [sent EXCEPT ![i] = @ + 1]
  <2>1. [j \in Items |-> row[j].client]' = [j \in Items |-> row[j].client]
    BY <1>1
  <2>2. [j \in Items |-> GateOf(j)]' = [[j \in Items |-> GateOf(j)] EXCEPT ![i] = "closed"]
    BY <1>3, <1>5, <1>7
  <2>3. GateOf(i) = "open"
    BY <1>4, <1>7
  <2>4. Gate!Send(i)
    BY <1>1, <1>7, <2>1, <2>2, <2>3 DEF Gate!Send
  <2>5. QED
    BY <1>0, <2>4
<1>8. QED
  BY <1>2, <1>6, <1>7

(* Every step of the queue is a step of the gate, or leaves it unchanged.  *)
LEMMA GateNext ==
  ASSUME IndInv, [Next]_vars
  PROVE  [Gate!Next]_(Gate!vars)
<1>1. CASE \E i \in Items : UserStep(i)
  <2>1. PICK i \in Items : UserStep(i)
    BY <1>1
  <2>2. CASE AddToQueue(i)
    BY <2>2, GateInsert DEF AddToQueue, Gate!Next
  <2>3. CASE ApproveItem(i) \/ RetryItem(i)
    BY <2>3, GateAdmit DEF ApproveItem, RetryItem, Approvable, Gate!Next
  <2>4. CASE RejectItem(i) \/ DeleteItem(i)
    <3>1. row \in [Items -> Row]
      BY DEF IndInv, TypeOK
    <3>2. /\ \A j \in Items : row'[j].client = row[j].client
          /\ \A j \in Items : (row'[j].status = "absent") <=> (row[j].status = "absent")
          /\ UNCHANGED <<run, approvals, sent>>
      BY <2>4, <3>1 DEF RejectItem, DeleteItem, WithStatus, Row
    <3>3. \A j \in Items : GateOf(j)' = GateOf(j)
      BY <3>2, GateUnchanged DEF MayPost
    <3>4. QED
      BY <3>2, <3>3, GateLapse DEF Gate!Next
  <2>5. QED
    BY <2>1, <2>2, <2>3, <2>4 DEF UserStep
<1>2. CASE \E r \in Runs : RunStep(r)
  <2>1. PICK r \in Runs : RunStep(r)
    BY <1>2
  <2>2. run[r].item \in Items
    BY <2>1, RunFrame, RunsRow
  <2>3. QED
    BY <2>1, <2>2, GateRun DEF Gate!Next
<1>3. CASE Crash
  BY <1>3, GateCrash
<1>4. CASE UNCHANGED vars
  BY <1>4 DEF vars, Gate!vars, GateOf
<1>5. QED
  BY <1>1, <1>2, <1>3, <1>4 DEF Next

(* The queue with its runs, its cache and its crashes implements the       *)
(* approval gate: nothing is transmitted but through a gate that a user,   *)
(* or AUTO_ESCALATE for a public item, has opened, and once per opening.   *)
THEOREM Refinement == Spec => ImplementsGate
BY GateInit, GateNext, Invariance, PTL DEF Spec, ImplementsGate, Gate!Spec
=============================================================================
