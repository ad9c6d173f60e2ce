--------------------------- MODULE BatchExtractor ---------------------------
(***************************************************************************)
(* One call of extract_chunks_batch (extractor.py): every chunk of a       *)
(* document is submitted to merLLM's batch queue by a worker of its own,   *)
(* and one shared poller asks merLLM for the jobs that are pending and     *)
(* resolves the workers' futures.                                          *)
(*                                                                         *)
(* merLLM is another service.  It is modelled by what the code expects of  *)
(* it: it runs a job to an end, it may forget jobs (a drain, a wiped       *)
(* database) and it may leave one out of a reply.                          *)
(***************************************************************************)
EXTENDS Naturals, FiniteSets

CONSTANTS
  NumChunks,         \* the number of chunks of the document
  Jobs,              \* ids merLLM gives to jobs
  None,              \* no job, no result yet
  Empty,             \* the empty ExtractionResult
  SubmitConcurrency, \* EXTRACT_SUBMIT_CONCURRENCY
  MissTolerance      \* BATCH_MISS_TOLERANCE

Chunks == 1 .. NumChunks

ASSUME BatchAssumption ==
  /\ NumChunks \in Nat
  /\ SubmitConcurrency \in Nat \ {0}
  /\ MissTolerance \in Nat \ {0}
  /\ None \notin Chunks \cup Jobs \cup {Empty}
  /\ Empty \notin Chunks

VARIABLES
  worker,    \* the coroutine _extract_one_via_batch of each chunk
  job,       \* the job id a worker waits for
  result,    \* the slot of each chunk in the list of results
  future,    \* what the poller has told the future of a job
  pending,   \* _BatchPoller._pending: jobs with an unresolved future
  misses,    \* _BatchPoller._misses
  poller,    \* the task _BatchPoller.run
  stopped,   \* _BatchPoller._stopped
  (* merLLM *)
  merllm,    \* the state of every job
  owner,     \* the chunk whose prompt a job runs
  (* what an observer has seen *)
  absences   \* replies in a row that lacked the job, counted up to MissTolerance

localVars == <<worker, job, result, future, pending, misses, poller, stopped>>
vars == <<localVars, merllm, owner, absences>>

-----------------------------------------------------------------------------
JobStates == {"unused", "held", "completed", "failed", "forgotten"}

Poller == [stage: {"sleeping", "polling", "exited"}, asked: SUBSET Jobs]

BatchTypeOK ==
  /\ worker \in [Chunks -> {"ready", "submitting", "waiting", "done"}]
  /\ job \in [Chunks -> Jobs \cup {None}]
  /\ result \in [Chunks -> Chunks \cup {Empty, None}]
  /\ \A c \in Chunks : worker[c] = "done" <=> result[c] # None
  /\ future \in [Jobs -> {"unset", "nothing", "text"}]
  /\ pending \subseteq Jobs
  /\ misses \in [Jobs -> 0 .. MissTolerance]
  /\ poller \in Poller
  /\ stopped \in BOOLEAN
  /\ merllm \in [Jobs -> JobStates]
  /\ owner \in [Jobs -> Chunks \cup {None}]
  /\ absences \in [Jobs -> 0 .. MissTolerance]

Init ==
  /\ worker = [c \in Chunks |-> "ready"]
  /\ job = [c \in Chunks |-> None]
  /\ result = [c \in Chunks |-> None]
  /\ future = [j \in Jobs |-> "unset"]
  /\ pending = {}
  /\ misses = [j \in Jobs |-> 0]
  /\ poller = [stage |-> "sleeping", asked |-> {}]
  /\ stopped = FALSE
  /\ merllm = [j \in Jobs |-> "unused"]
  /\ owner = [j \in Jobs |-> None]
  /\ absences = [j \in Jobs |-> 0]

-----------------------------------------------------------------------------
(* merLLM.                                                                 *)

(* A submitted prompt becomes a job before the caller learns of it.  Which *)
(* fresh id it gets makes no difference.                                   *)
AcceptJob(c) ==
  LET j == CHOOSE k \in Jobs : merllm[k] = "unused" IN
  /\ worker[c] = "submitting"
  /\ \A k \in Jobs : owner[k] # c
  /\ \E k \in Jobs : merllm[k] = "unused"
  /\ merllm' = [merllm EXCEPT ![j] = "held"]
  /\ owner' = [owner EXCEPT ![j] = c]
  /\ UNCHANGED <<localVars, absences>>

(* Queued, running and requeued after a restart of merLLM are all "held";  *)
(* a cancelled job counts as failed.                                       *)
EndJob(j) ==
  /\ merllm[j] = "held"
  /\ merllm' \in {[merllm EXCEPT ![j] = end] : end \in {"completed", "failed"}}
  /\ UNCHANGED <<localVars, owner, absences>>

ForgetJob(j) ==
  /\ merllm[j] \in {"held", "completed", "failed"}
  /\ merllm' = [merllm EXCEPT ![j] = "forgotten"]
  /\ UNCHANGED <<localVars, owner, absences>>

-----------------------------------------------------------------------------
(* _extract_one_via_batch.                                                 *)

(* Mutant: the slot of a settled worker is left as it was. *)
SettleWithoutSlot(c, value) ==
  /\ worker' = [worker EXCEPT ![c] = "done"]
  /\ UNCHANGED result

Settle(c, value) ==
  /\ worker' = [worker EXCEPT ![c] = "done"]
  /\ result' = [result EXCEPT ![c] = value]

(* The semaphore is held for the submission alone, and given in the order  *)
(* of the chunks: the tasks start in that order and its queue is FIFO.     *)
BeginSubmit(c) ==
  /\ worker[c] = "ready"
  /\ \A d \in 1 .. c - 1 : worker[d] # "ready"
  /\ Cardinality({d \in Chunks : worker[d] = "submitting"}) < SubmitConcurrency
  /\ worker' = [worker EXCEPT ![c] = "submitting"]
  /\ UNCHANGED <<job, result, future, pending, misses, poller, stopped, merllm, owner, absences>>

Register(j) ==
  /\ pending' = pending \cup {j}
  /\ misses' = [misses EXCEPT ![j] = 0]

SubmitReturns(c) ==
  /\ worker[c] = "submitting"
  /\ \E j \in Jobs :
       /\ owner[j] = c
       /\ job' = [job EXCEPT ![c] = j]
       /\ Register(j)
  /\ worker' = [worker EXCEPT ![c] = "waiting"]
  /\ UNCHANGED <<result, future, poller, stopped, merllm, owner, absences>>

(* An error, perhaps after merLLM took the job: the slot stays empty and   *)
(* the job runs for nobody.                                                *)
SubmitFails(c) ==
  /\ worker[c] = "submitting"
  /\ Settle(c, Empty)
  /\ UNCHANGED <<job, future, pending, misses, poller, stopped, merllm, owner, absences>>

(* Mutant: a worker takes the next text that is there. *)
WorkerResumesWithAnyText(c) ==
  /\ worker[c] = "waiting"
  /\ \/ future[job[c]] = "nothing" /\ Settle(c, Empty)
     \/ \E j \in Jobs : future[j] = "text" /\ Settle(c, owner[j])
  /\ UNCHANGED <<job, future, pending, misses, poller, stopped, merllm, owner, absences>>

(* The worker's future is resolved.  The text is that of the job; it may   *)
(* be empty or no JSON, and what parsing raises is made empty by gather.   *)
WorkerResumes(c) ==
  /\ worker[c] = "waiting"
  /\ \/ future[job[c]] = "nothing" /\ Settle(c, Empty)
     \/ future[job[c]] = "text" /\ \E value \in {owner[job[c]], Empty} : Settle(c, value)
  /\ UNCHANGED <<job, future, pending, misses, poller, stopped, merllm, owner, absences>>

WorkerStep(c) == BeginSubmit(c) \/ SubmitReturns(c) \/ SubmitFails(c) \/ WorkerResumes(c)

-----------------------------------------------------------------------------
(* _BatchPoller.run.                                                       *)

PollerWakes ==
  /\ poller.stage = "sleeping"
  /\ \/ stopped /\ poller' = [poller EXCEPT !.stage = "exited"]
     \/ ~stopped /\ pending # {} /\ poller' = [stage |-> "polling", asked |-> pending]
  /\ UNCHANGED <<worker, job, result, future, pending, misses, stopped, merllm, owner, absences>>

Sleep == poller' = [stage |-> "sleeping", asked |-> {}]

PollFails ==
  /\ poller.stage = "polling"
  /\ Sleep
  /\ UNCHANGED <<worker, job, result, future, pending, misses, stopped, merllm, owner, absences>>

(* Mutant: every pending job is looked up in the reply. *)
LookedAtAll == pending

(* Only the jobs that were asked for are looked up in the reply: one that  *)
(* was registered since then is not in it either.                          *)
Looked == poller.asked

(* Mutant: a missing job is waited for. *)
MissesNeverCounted(missing) == misses

MissesAfter(missing) ==
  [j \in Jobs |-> IF j \notin Looked THEN misses[j]
                  ELSE IF j \in missing THEN misses[j] + 1 ELSE 0]

PollReturns ==
  LET known == {j \in Jobs : merllm[j] \in {"held", "completed", "failed"}} IN
  \E leftOut \in SUBSET poller.asked :
    LET missing == {j \in Looked : j \in leftOut \/ j \notin known \/ j \notin poller.asked}
        counted == MissesAfter(missing)
        lost    == {j \in missing : counted[j] >= MissTolerance}
        failed  == {j \in Looked \ missing : merllm[j] = "failed"}
        done    == {j \in Looked \ missing : merllm[j] = "completed"}
        ended   == lost \cup failed \cup done
    IN
    /\ poller.stage = "polling"
    /\ future' = [j \in Jobs |-> IF j \in lost \cup failed THEN "nothing"
                                 ELSE IF j \in done THEN "text" ELSE future[j]]
    /\ pending' = pending \ ended
    /\ misses' = [j \in Jobs |-> IF j \in ended THEN 0 ELSE counted[j]]
    /\ absences' = [j \in Jobs |->
                      IF j \notin poller.asked THEN absences[j]
                      ELSE IF j \notin leftOut /\ j \in known THEN 0
                      ELSE IF absences[j] < MissTolerance THEN absences[j] + 1
                      ELSE absences[j]]
    /\ Sleep
    /\ UNCHANGED <<worker, job, result, stopped, merllm, owner>>

-----------------------------------------------------------------------------
(* Mutant: without return_exceptions the first failure ends the gathering. *)
GatherFailsFast ==
  /\ ~stopped
  /\ (\E c \in Chunks : result[c] = Empty) \/ \A c \in Chunks : worker[c] = "done"
  /\ stopped' = TRUE
  /\ UNCHANGED <<worker, job, result, future, pending, misses, poller, merllm, owner, absences>>

(* The workers are gathered, the poller is told to stop and awaited. *)
GatherReturns ==
  /\ ~stopped
  /\ \A c \in Chunks : worker[c] = "done"
  /\ stopped' = TRUE
  /\ UNCHANGED <<worker, job, result, future, pending, misses, poller, merllm, owner, absences>>

Returned == poller.stage = "exited"

Next ==
  \/ \E c \in Chunks : AcceptJob(c) \/ WorkerStep(c)
  \/ \E j \in Jobs : EndJob(j) \/ ForgetJob(j)
  \/ PollerWakes
  \/ PollReturns
  \/ PollFails
  \/ GatherReturns

(* The event loop resumes what is ready, the poller's sleep ends, a        *)
(* submission ends by its timeout, merLLM ends every job it holds, and     *)
(* polls do not fail for ever.                                             *)
Fairness ==
  /\ \A c \in Chunks : WF_vars(WorkerStep(c))
  /\ \A j \in Jobs : WF_vars(EndJob(j))
  /\ WF_vars(PollerWakes)
  /\ WF_vars(PollReturns \/ PollFails)
  /\ SF_vars(PollReturns)
  /\ WF_vars(GatherReturns)

Spec == Init /\ [][Next]_vars /\ Fairness

-----------------------------------------------------------------------------
(* Every slot holds the result of its own chunk or is empty, however jobs  *)
(* are interleaved: "one per input chunk, in the same order".              *)
SlotsKeepOrder == \A c \in Chunks : result[c] \in {c, Empty, None}

(* A job is given up only when merLLM failed it, or left it out of         *)
(* BATCH_MISS_TOLERANCE replies in a row to polls that asked for it.       *)
GivenUpForCause ==
  \A j \in Jobs : future[j] = "nothing" =>
    merllm[j] \in {"failed", "forgotten"} \/ absences[j] >= MissTolerance

(* A worker that waits for its future has a poller that will ask for the   *)
(* job, and a poller told to stop has no poll under way on the session     *)
(* that is about to be closed.                                             *)
WaitersAreServed ==
  /\ \A c \in Chunks : worker[c] = "waiting" /\ future[job[c]] = "unset" =>
       job[c] \in pending /\ ~stopped /\ poller.stage # "exited"
  /\ stopped => poller.stage # "polling"

(* The call returns, whatever merLLM loses or fails.                       *)
CallReturns == <>Returned

-----------------------------------------------------------------------------
(* The inductive invariant behind the safety properties.                   *)

(* Every pending job is waited for by the worker it runs for, and an       *)
(* unresolved future is pending.                                           *)
PendingIsAwaited ==
  \A j \in pending :
    /\ owner[j] \in Chunks /\ worker[owner[j]] = "waiting" /\ job[owner[j]] = j
    /\ future[j] = "unset"

(* Only a registered job is resolved; a worker waits for its own job.      *)
FuturesAreOwned ==
  /\ \A j \in Jobs : future[j] # "unset" =>
       owner[j] \in Chunks /\ worker[owner[j]] \in {"waiting", "done"}
  /\ \A c \in Chunks : worker[c] = "waiting" => job[c] \in Jobs /\ owner[job[c]] = c
  /\ \A j \in Jobs : owner[j] # None => merllm[j] # "unused"

(* What the poller counts, merLLM has left out.                            *)
MissesAreAbsences ==
  \A j \in Jobs : misses[j] < MissTolerance /\ misses[j] <= absences[j]

(* A poll under way asks for jobs that are pending still; the poller ends  *)
(* when every worker has.                                                  *)
PollerIsUseful ==
  /\ poller.asked \subseteq pending
  /\ poller.stage = "polling" <=> poller.asked # {}
  /\ poller.stage = "exited" => stopped
  /\ stopped => \A c \in Chunks : worker[c] = "done"

BatchIndInv ==
  /\ BatchTypeOK /\ SlotsKeepOrder /\ GivenUpForCause /\ WaitersAreServed
  /\ PendingIsAwaited /\ FuturesAreOwned /\ MissesAreAbsences /\ PollerIsUseful
=============================================================================
