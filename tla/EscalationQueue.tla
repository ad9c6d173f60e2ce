--------------------------- MODULE EscalationQueue ---------------------------
(***************************************************************************)
(* The cloud escalation queue: routers/escalation.py with the rows of      *)
(* db.py's escalation_queue table and the semantic answer cache of rag.py. *)
(*                                                                         *)
(* The service is one asyncio process.  Handlers and background runs       *)
(* interleave only where a coroutine awaits, so an action is the code from *)
(* one await to the next.  Rows and cache are on disk and survive a crash; *)
(* the background runs do not, and nothing restarts them.                  *)
(***************************************************************************)
EXTENDS Naturals, Sequences

CONSTANTS
  Items,         \* ids of queue rows
  Queries,       \* classes of queries the cache holds to be similar
  Answers,       \* answers of the cloud provider
  Blank,         \* the empty answer
  None,          \* no item, no query, no answer
  Runs,          \* slots for background runs: a bound of the model
  Configs,       \* deployments: environment variables and database file
  MaxCache,      \* MAX_ESCALATION_CACHE_SIZE
  MaxApprovals,  \* bound: approvals and retries per item
  MaxCrashes     \* bound: crashes of the process

Deployments == [auto: BOOLEAN, apiKey: BOOLEAN, errorColumn: BOOLEAN]

ASSUME ConstantsAssumption ==
  /\ None \notin Items \cup Queries \cup Answers
  /\ Configs \subseteq Deployments
  /\ MaxCache \in Nat
  /\ MaxApprovals \in Nat
  /\ MaxCrashes \in Nat

VARIABLES
  config,      \* the deployment the process runs in
  row,         \* the table escalation_queue
  run,         \* background runs of _run_escalation
  cache,       \* the collection escalation_cache, oldest entry first
  (* what an observer has seen *)
  approvals,   \* how often a user approved or retried the item
  sent,        \* how often the item's query was posted to the provider
  provided,    \* query and answer pairs the provider has returned
  crashes

vars == <<config, row, run, cache, approvals, sent, provided, crashes>>

-----------------------------------------------------------------------------
(* The table.                                                              *)

Statuses == {"absent", "pending_approval", "approved", "in_progress",
             "complete", "failed", "rejected", "deleted"}

Row == [status: Statuses, client: BOOLEAN,
        query: Queries \cup {None}, response: Answers \cup {None}]

NoRow == [status |-> "absent", client |-> FALSE, query |-> None, response |-> None]

WithStatus(rows, i, status) == [rows EXCEPT ![i].status = status]

Completed(rows, i, answer) ==
  [rows EXCEPT ![i].status = "complete", ![i].response = answer]

(* Mutant: a failed run leaves its row as it is in every database. *)
NeverFailed(rows, i) == rows

(* The failure handler writes status and error in one UPDATE.  The table   *)
(* this source creates has no column "error", so the statement raises and  *)
(* the row stays as it was; CREATE TABLE IF NOT EXISTS keeps the columns   *)
(* of an older or repaired database file.                                  *)
Failed(rows, i) ==
  IF config.errorColumn THEN WithStatus(rows, i, "failed") ELSE rows

-----------------------------------------------------------------------------
(* The semantic cache.  Entries are kept in the order of created_at.       *)

Entry == [query: Queries, answer: Answers]

(* Mutant: the eviction keeps the oldest entries. *)
DropsNewest(entries, e) ==
  LET all == Append(entries, e)
  IN  SubSeq(all, 1, IF Len(all) > MaxCache THEN MaxCache ELSE Len(all))

(* The entry is added, then the oldest entries beyond MaxCache are evicted. *)
Stored(entries, e) ==
  LET all == Append(entries, e)
  IN  IF Len(all) > MaxCache
      THEN SubSeq(all, Len(all) - MaxCache + 1, Len(all))
      ELSE all

(* Mutant: without the distance threshold any entry answers. *)
AnyEntryAnswers(q) == {cache[k].answer : k \in DOMAIN cache}

EntryAnswers(q) == {cache[k].answer : k \in {j \in DOMAIN cache : cache[j].query = q}}

(* Of several entries within the distance threshold the nearest is taken,  *)
(* whichever it is.  An empty answer counts as no answer (if cached: ...). *)
CacheHit(q, answer) == answer \in EntryAnswers(q) \ {Blank}
CacheMiss(q) == EntryAnswers(q) = {} \/ Blank \in EntryAnswers(q)

-----------------------------------------------------------------------------
(* Background runs: a run is at one of the awaits of _run_escalation.      *)

Stages == {"idle", "scheduled", "searching", "calling", "storing"}

Run == [stage: Stages, item: Items \cup {None}, answer: Answers \cup {None}]

Idle == [stage |-> "idle", item |-> None, answer |-> None]

Live(r) == run[r].stage # "idle"

HasRun(i) == \E r \in Runs : run[r].item = i

Schedule(i) ==
  \E r \in Runs :
    /\ ~Live(r)
    /\ run' = [run EXCEPT ![r] = [stage |-> "scheduled", item |-> i, answer |-> None]]

-----------------------------------------------------------------------------
TypeOK ==
  /\ config \in Configs
  /\ row \in [Items -> Row]
  /\ run \in [Runs -> Run]
  /\ \A r \in Runs : Live(r) <=> run[r].item # None
  /\ cache \in Seq(Entry)
  /\ approvals \in [Items -> Nat]
  /\ sent \in [Items -> Nat]
  /\ provided \subseteq Queries \X Answers
  /\ crashes \in Nat

Init ==
  /\ config \in Configs
  /\ row = [i \in Items |-> NoRow]
  /\ run = [r \in Runs |-> Idle]
  /\ cache = <<>>
  /\ approvals = [i \in Items |-> 0]
  /\ sent = [i \in Items |-> 0]
  /\ provided = {}
  /\ crashes = 0

-----------------------------------------------------------------------------
(* Endpoints.  A request the code answers with 404 or 409 changes nothing. *)

(* Mutant: the setting alone approves. *)
AutoIgnoringClient(client) == config.auto

(* The privacy rule: only an item without client documents is approved by  *)
(* the AUTO_ESCALATE setting.                                              *)
AutoApproved(client) == config.auto /\ ~client

(* A row is inserted under a fresh uuid.                                   *)
InsertRow(i, query, client) ==
  /\ row[i].status = "absent"
  /\ row' = [row EXCEPT ![i] =
               [status   |-> IF AutoApproved(client) THEN "approved" ELSE "pending_approval",
                client   |-> client,
                query    |-> query,
                response |-> None]]

(* An auto-approved row is scheduled as well.                              *)
Insert(i, query, client) ==
  /\ InsertRow(i, query, client)
  /\ IF AutoApproved(client) THEN Schedule(i) ELSE UNCHANGED run
  /\ UNCHANGED <<config, cache, approvals, sent, provided, crashes>>

AddToQueue(i) ==
  \E query \in Queries, client \in BOOLEAN : Insert(i, query, client)

(* approve and retry do the same to a row they accept. *)
Admit(i) ==
  /\ approvals[i] < MaxApprovals
  /\ row' = WithStatus(row, i, "approved")
  /\ approvals' = [approvals EXCEPT ![i] = @ + 1]
  /\ Schedule(i)
  /\ UNCHANGED <<config, cache, sent, provided, crashes>>

(* Mutants: a complete row, a row in progress is approved again. *)
ApprovableOrDone(i) == row[i].status \in {"pending_approval", "failed", "complete"}
ApprovableOrRunning(i) == row[i].status \in {"pending_approval", "failed", "in_progress"}

Approvable(i) == row[i].status \in {"pending_approval", "failed"}

ApproveItem(i) == Approvable(i) /\ Admit(i)

RetryItem(i) == row[i].status = "failed" /\ Admit(i)

RejectItem(i) ==
  /\ row[i].status = "pending_approval"
  /\ row' = WithStatus(row, i, "rejected")
  /\ UNCHANGED <<config, run, cache, approvals, sent, provided, crashes>>

(* The row is kept, with the status "deleted"; a run on it is not stopped. *)
DeleteItem(i) ==
  /\ row[i].status # "absent"
  /\ row' = WithStatus(row, i, "deleted")
  /\ UNCHANGED <<config, run, cache, approvals, sent, provided, crashes>>

-----------------------------------------------------------------------------
(* _run_escalation, one action per stretch between two awaits.             *)

At(r, stage) == run[r].stage = stage
Goto(r, stage, answer) ==
  run' = [run EXCEPT ![r].stage = stage, ![r].answer = answer]

(* Mutant: a run that has ended still holds its row. *)
EndKeepingItem(r) == run' = [run EXCEPT ![r].stage = "idle"]

End(r) == run' = [run EXCEPT ![r] = Idle]

(* The except clause: record the failure, if the table can hold it. *)
Abort(r, rows) ==
  /\ row' = Failed(rows, run[r].item)
  /\ End(r)

(* Mutant: the run may come back to post the query again. *)
CallCloudAgain(r, rows) ==
  IF config.apiKey
  THEN /\ row' = rows
       /\ Goto(r, "searching", None)
       /\ sent' = [sent EXCEPT ![run[r].item] = @ + 1]
  ELSE Abort(r, rows) /\ UNCHANGED sent

(* Post the query to the provider.  Without an API key the call raises     *)
(* before anything is sent.                                                *)
CallCloud(r, rows) ==
  IF config.apiKey
  THEN /\ row' = rows
       /\ Goto(r, "calling", None)
       /\ sent' = [sent EXCEPT ![run[r].item] = @ + 1]
  ELSE Abort(r, rows) /\ UNCHANGED sent

Finish(r, answer) ==
  /\ row' = Completed(row, run[r].item, answer)
  /\ End(r)

(* The row's status is not looked at again: a run on a row deleted in the  *)
(* meantime starts all the same.  An empty cache is answered without an    *)
(* await; a collection that cannot be counted fails the run.               *)
StartRun(r) ==
  LET started == WithStatus(row, run[r].item, "in_progress") IN
  /\ At(r, "scheduled")
  /\ \/ cache = <<>> /\ CallCloud(r, started)
     \/ cache # <<>> /\ row' = started /\ Goto(r, "searching", None) /\ UNCHANGED sent
     \/ Abort(r, started) /\ UNCHANGED sent
  /\ UNCHANGED <<config, cache, approvals, provided, crashes>>

SearchReturns(r) ==
  LET query == row[run[r].item].query IN
  /\ At(r, "searching")
  /\ \/ \E answer \in Answers : CacheHit(query, answer) /\ Finish(r, answer) /\ UNCHANGED sent
     \/ CacheMiss(query) /\ CallCloud(r, row)
     \/ Abort(r, row) /\ UNCHANGED sent
  /\ UNCHANGED <<config, cache, approvals, provided, crashes>>

CloudReturns(r) ==
  /\ At(r, "calling")
  /\ \/ \E answer \in Answers :
          /\ Goto(r, "storing", answer)
          /\ provided' = provided \cup {<<row[run[r].item].query, answer>>}
          /\ UNCHANGED row
     \/ Abort(r, row) /\ UNCHANGED provided
  /\ UNCHANGED <<config, cache, approvals, sent, crashes>>

(* The entry a run that stores has for the cache.                          *)
Given(r) == [query |-> row[run[r].item].query, answer |-> run[r].answer]

(* Only a stored answer completes the row: when the embedding the cache    *)
(* needs or a call of the collection fails, the row does not get it.  A    *)
(* failure after the entry was added leaves it in, and evicts nothing.     *)
StoreReturns(r) ==
  /\ At(r, "storing")
  /\ \/ cache' = Stored(cache, Given(r)) /\ Finish(r, run[r].answer)
     \/ cache' \in {cache, Append(cache, Given(r))} /\ Abort(r, row)
  /\ UNCHANGED <<config, approvals, sent, provided, crashes>>

RunStep(r) == StartRun(r) \/ SearchReturns(r) \/ CloudReturns(r) \/ StoreReturns(r)

(* What a step that a crash cuts off has written by then: nothing, a row   *)
(* that is not scheduled, the status of a run that has not posted, or an   *)
(* entry whose row is not completed, the eviction done or not.             *)
CutOff ==
  \/ UNCHANGED <<row, cache>>
  \/ /\ \E i \in Items, query \in Queries, client \in BOOLEAN : InsertRow(i, query, client)
     /\ UNCHANGED cache
  \/ /\ \E r \in Runs : At(r, "scheduled") /\ row' = WithStatus(row, run[r].item, "in_progress")
     /\ UNCHANGED cache
  \/ /\ \E r \in Runs :
          At(r, "storing") /\ cache' \in {Append(cache, Given(r)), Stored(cache, Given(r))}
     /\ UNCHANGED row

(* The process dies and is started again, perhaps with other environment   *)
(* variables; the database file keeps its columns.                         *)
Crash ==
  /\ crashes < MaxCrashes
  /\ crashes' = crashes + 1
  /\ CutOff
  /\ run' = [r \in Runs |-> Idle]
  /\ config' \in {c \in Configs : c.errorColumn = config.errorColumn}
  /\ UNCHANGED <<approvals, sent, provided>>

-----------------------------------------------------------------------------
UserStep(i) ==
  \/ AddToQueue(i)
  \/ ApproveItem(i)
  \/ RetryItem(i)
  \/ RejectItem(i)
  \/ DeleteItem(i)

Next ==
  \/ \E i \in Items : UserStep(i)
  \/ \E r \in Runs : RunStep(r)
  \/ Crash

(* The event loop resumes every coroutine whose await has ended, and every *)
(* await of a run is an HTTP call with a timeout of 120 s.                 *)
Fairness == \A r \in Runs : WF_vars(RunStep(r))

Spec == Init /\ [][Next]_vars /\ Fairness

-----------------------------------------------------------------------------
(* Safety.                                                                 *)

(* A client item is posted to the provider at most once per approval or    *)
(* retry a user gave it, whatever the settings, and one that waits for a   *)
(* decision or was rejected never: the security rules in the header of     *)
(* routers/escalation.py.                                                  *)
ClientDataGated ==
  \A i \in Items :
    /\ row[i].client => sent[i] <= approvals[i]
    /\ row[i].status \in {"absent", "pending_approval", "rejected"} => sent[i] = 0

(* No two background runs work on one row, although no endpoint looks for  *)
(* a run: a row with a run is in a status that approve and retry refuse.   *)
OneRunPerItem ==
  \A r \in Runs : Live(r) =>
    /\ row[run[r].item].status \in {"approved", "in_progress", "deleted"}
    /\ \A other \in Runs : run[other].item = run[r].item => other = r

(* A complete row shows an answer that the provider gave to a query the    *)
(* cache holds to be similar, over runs, evictions and restarts.           *)
AnswersAreGenuine ==
  \A i \in Items :
    row[i].status = "complete" => <<row[i].query, row[i].response>> \in provided

(* A decision stands: a complete or rejected row changes only by being     *)
(* deleted, whatever runs are under way.                                   *)
DecisionsStand ==
  [][\A i \in Items : row[i].status \in {"complete", "rejected"} =>
       row'[i] = row[i] \/ row'[i].status = "deleted"]_vars

(* A row that the provider's answer completes leaves that answer as the    *)
(* newest entry of a cache within its limit, whatever had to go for it     *)
(* (README.md, "Escalation Cache": oldest entries go).  The cache grows    *)
(* beyond the limit by nothing but a store that is cut off, by a failure   *)
(* or a crash, between adding and evicting: one entry each time, and the   *)
(* row is not completed.                                                   *)
CacheKeepsNewest ==
  [][/\ \A r \in Runs : At(r, "storing") /\ row'[run[r].item].status = "complete" =>
          /\ Len(cache') <= MaxCache
          /\ MaxCache > 0 => cache' # <<>> /\ cache'[Len(cache')] = Given(r)
     /\ cache' # cache /\ Len(cache') > MaxCache =>
          /\ Len(cache') = Len(cache) + 1
          /\ \E r \in Runs :
               At(r, "storing") /\ ~Live(r)' /\ row'[run[r].item].status # "complete"]_vars

(* A row in progress has a run that will settle it.  This is what the      *)
(* lifecycle in the header of routers/escalation.py says of a run that     *)
(* does not succeed: in_progress -> failed -> (retry).                     *)
FailureIsRecorded ==
  \A i \in Items : row[i].status = "in_progress" => HasRun(i)

-----------------------------------------------------------------------------
(* Liveness.                                                               *)

(* On a database that can record the failure, and while the process stays  *)
(* up, an approved row is settled.                                         *)
ApprovedSettles ==
  [](crashes = 0 /\ config.errorColumn) =>
    \A i \in Items :
      row[i].status \in {"approved", "in_progress"}
        ~> row[i].status \in {"complete", "failed", "deleted"}

-----------------------------------------------------------------------------
(* The inductive invariant behind the safety properties.                   *)

(* A present row has a query, a run works on a present row, and a run that *)
(* stores has an answer to store.                                          *)
WellFormed ==
  /\ \A i \in Items : row[i].status # "absent" => row[i].query \in Queries
  /\ \A r \in Runs : At(r, "storing") => run[r].answer \in Answers

(* A run that has not posted yet stands for an approval not used yet.      *)
MayPost(r) == run[r].stage \in {"scheduled", "searching"}

Accounted ==
  \A r \in Runs : MayPost(r) /\ row[run[r].item].client =>
    sent[run[r].item] < approvals[run[r].item]

(* Whatever an answer is copied from holds only what the provider gave.    *)
Genuine ==
  /\ \A k \in DOMAIN cache : <<cache[k].query, cache[k].answer>> \in provided
  /\ \A r \in Runs : At(r, "storing") =>
       <<row[run[r].item].query, run[r].answer>> \in provided

Untouched == \A i \in Items : row[i].status = "absent" => approvals[i] = 0

IndInv ==
  /\ TypeOK /\ WellFormed /\ OneRunPerItem
  /\ ClientDataGated /\ Accounted /\ Untouched
  /\ AnswersAreGenuine /\ Genuine

-----------------------------------------------------------------------------
(* Refinement.                                                             *)

GateOf(i) ==
  IF row[i].status = "absent" THEN "absent"
  ELSE IF \E r \in Runs : run[r].item = i /\ run[r].stage \in {"scheduled", "searching"}
       THEN "open" ELSE "closed"

Gate == INSTANCE ApprovalGate WITH
  private <- [i \in Items |-> row[i].client],
  gate    <- [i \in Items |-> GateOf(i)],
  permits <- approvals

(* The queue with its runs, cache and crashes implements the gate: a run   *)
(* may transmit until it has posted the query once, and only an approval,  *)
(* a retry or the insertion of a public item under AUTO_ESCALATE lets it.  *)
ImplementsGate == Gate!Spec
=============================================================================
