----------------------------- MODULE BatchProofs -----------------------------
(***************************************************************************)
(* Proofs about the batch extraction, for any number of chunks, jobs and   *)
(* workers that submit at a time, and any tolerance of missing jobs.       *)
(***************************************************************************)
EXTENDS BatchExtractor, TLAPS

-----------------------------------------------------------------------------
(* The parts of the inductive invariant a step of one side leaves alone.   *)

WorkersTyped ==
  /\ worker \in [Chunks -> {"ready", "submitting", "waiting", "done"}]
  /\ job \in [Chunks -> Jobs \cup {None}]
  /\ result \in [Chunks -> Chunks \cup {Empty, None}]
  /\ \A c \in Chunks : worker[c] = "done" <=> result[c] # None

PollerTyped ==
  /\ future \in [Jobs -> {"unset", "nothing", "text"}]
  /\ pending \subseteq Jobs
  /\ misses \in [Jobs -> 0 .. MissTolerance]
  /\ poller \in Poller
  /\ stopped \in BOOLEAN
  /\ absences \in [Jobs -> 0 .. MissTolerance]

JobsTyped ==
  /\ merllm \in [Jobs -> JobStates]
  /\ owner \in [Jobs -> Chunks \cup {None}]

LEMMA TypeParts == BatchTypeOK <=> WorkersTyped /\ PollerTyped /\ JobsTyped
  BY DEF BatchTypeOK, WorkersTyped, PollerTyped, JobsTyped

LEMMA BatchInit == Init => BatchIndInv
<1> SUFFICES ASSUME Init PROVE BatchIndInv
  OBVIOUS
<1>1. BatchTypeOK
  <2>1. 0 \in 0 .. MissTolerance
    BY BatchAssumption
  <2>2. WorkersTyped /\ JobsTyped
    BY BatchAssumption DEF Init, WorkersTyped, JobsTyped, JobStates
  <2>3. PollerTyped
    BY <2>1 DEF Init, PollerTyped, Poller
  <2>4. QED
    BY <2>2, <2>3, TypeParts
<1>2. SlotsKeepOrder /\ GivenUpForCause /\ WaitersAreServed
  BY DEF Init, SlotsKeepOrder, GivenUpForCause, WaitersAreServed
<1>3. PendingIsAwaited /\ FuturesAreOwned /\ PollerIsUseful
  BY DEF Init, PendingIsAwaited, FuturesAreOwned, PollerIsUseful
<1>4. MissesAreAbsences
  BY BatchAssumption DEF Init, MissesAreAbsences
<1>5. QED
  BY <1>1, <1>2, <1>3, <1>4 DEF BatchIndInv

-----------------------------------------------------------------------------
(* merLLM.                                                                 *)

LEMMA AcceptJobKeeps ==
  ASSUME BatchIndInv, NEW c \in Chunks, AcceptJob(c)
  PROVE  BatchIndInv'
<1> PICK j \in Jobs : /\ merllm[j] = "unused"
                      /\ merllm' = [merllm EXCEPT ![j] = "held"]
                      /\ owner' = [owner EXCEPT ![j] = c]
  BY DEF AcceptJob
<1>1. UNCHANGED <<worker, job, result, future, pending, misses, poller, stopped, absences>>
  BY DEF AcceptJob, localVars
<1>2. JobsTyped /\ WorkersTyped /\ PollerTyped
  BY TypeParts DEF BatchIndInv
<1>3. /\ merllm'[j] = "held" /\ owner'[j] = c
      /\ \A k \in Jobs : k # j => merllm'[k] = merllm[k] /\ owner'[k] = owner[k]
  BY <1>2 DEF JobsTyped
<1>4. owner[j] = None /\ None \notin Chunks
  BY <1>2, BatchAssumption DEF BatchIndInv, FuturesAreOwned, JobsTyped
<1>5. BatchTypeOK'
  <2>1. JobsTyped'
    BY <1>2 DEF JobsTyped, JobStates
  <2>2. WorkersTyped' /\ PollerTyped'
    BY <1>1, <1>2 DEF WorkersTyped, PollerTyped
  <2>3. QED
    BY <2>1, <2>2, TypeParts, PTL
<1>6. FuturesAreOwned'
  <2>1. \A k \in Jobs : future[k] # "unset" => k # j
    BY <1>4 DEF BatchIndInv, FuturesAreOwned
  <2>2. \A d \in Chunks : worker[d] = "waiting" => job[d] # j
    BY <1>4 DEF BatchIndInv, FuturesAreOwned
  <2>3. QED
    BY <1>1, <1>3, <2>1, <2>2 DEF BatchIndInv, FuturesAreOwned
<1>7. PendingIsAwaited'
  <2>1. \A k \in pending : k # j /\ k \in Jobs
    BY <1>2, <1>4 DEF BatchIndInv, PendingIsAwaited, PollerTyped
  <2>2. QED
    BY <1>1, <1>3, <2>1 DEF BatchIndInv, PendingIsAwaited
<1>8. GivenUpForCause'
  BY <1>1, <1>3 DEF BatchIndInv, GivenUpForCause
<1>9. SlotsKeepOrder' /\ WaitersAreServed' /\ MissesAreAbsences' /\ PollerIsUseful'
  BY <1>1 DEF BatchIndInv, SlotsKeepOrder, WaitersAreServed, MissesAreAbsences, PollerIsUseful
<1>10. QED
  BY <1>5, <1>6, <1>7, <1>8, <1>9 DEF BatchIndInv

LEMMA MerllmKeeps ==
  ASSUME BatchIndInv, NEW j \in Jobs, EndJob(j) \/ ForgetJob(j)
  PROVE  BatchIndInv'
<1> PICK end \in {"completed", "failed", "forgotten"} :
      /\ merllm' = [merllm EXCEPT ![j] = end]
      /\ merllm[j] = "held" \/ end = "forgotten"
      /\ merllm[j] # "unused"
  BY DEF EndJob, ForgetJob
<1>1. UNCHANGED <<worker, job, result, future, pending, misses, poller, stopped, owner, absences>>
  BY DEF EndJob, ForgetJob, localVars
<1>2. JobsTyped /\ WorkersTyped /\ PollerTyped
  BY TypeParts DEF BatchIndInv
<1>3. merllm'[j] = end /\ \A k \in Jobs : k # j => merllm'[k] = merllm[k]
  BY <1>2 DEF JobsTyped
<1>4. BatchTypeOK'
  <2>1. JobsTyped'
    BY <1>1, <1>2 DEF JobsTyped, JobStates
  <2>2. WorkersTyped' /\ PollerTyped'
    BY <1>1, <1>2 DEF WorkersTyped, PollerTyped
  <2>3. QED
    BY <2>1, <2>2, TypeParts, PTL
<1>5. GivenUpForCause'
  BY <1>1, <1>3 DEF BatchIndInv, GivenUpForCause
<1>6. FuturesAreOwned'
  BY <1>1, <1>3 DEF BatchIndInv, FuturesAreOwned
<1>7. SlotsKeepOrder' /\ WaitersAreServed' /\ PendingIsAwaited' /\ MissesAreAbsences' /\ PollerIsUseful'
  BY <1>1 DEF BatchIndInv, SlotsKeepOrder, WaitersAreServed, PendingIsAwaited, MissesAreAbsences,
              PollerIsUseful
<1>8. QED
  BY <1>4, <1>5, <1>6, <1>7 DEF BatchIndInv

-----------------------------------------------------------------------------
(* The workers.                                                            *)

LEMMA BeginSubmitKeeps ==
  ASSUME BatchIndInv, NEW c \in Chunks, BeginSubmit(c)
  PROVE  BatchIndInv'
<1>1. /\ worker[c] = "ready" /\ worker' = [worker EXCEPT ![c] = "submitting"]
      /\ UNCHANGED <<job, result, future, pending, misses, poller, stopped, merllm, owner, absences>>
  BY DEF BeginSubmit
<1>2. JobsTyped /\ WorkersTyped /\ PollerTyped
  BY TypeParts DEF BatchIndInv
<1>3. worker'[c] = "submitting" /\ \A d \in Chunks : d # c => worker'[d] = worker[d]
  BY <1>1, <1>2 DEF WorkersTyped
<1>4. BatchTypeOK'
  <2>1. WorkersTyped'
    BY <1>1, <1>2, <1>3 DEF WorkersTyped
  <2>2. JobsTyped' /\ PollerTyped'
    BY <1>1, <1>2 DEF JobsTyped, PollerTyped
  <2>3. QED
    BY <2>1, <2>2, TypeParts, PTL
<1>5. SlotsKeepOrder' /\ GivenUpForCause' /\ MissesAreAbsences'
  BY <1>1 DEF BatchIndInv, SlotsKeepOrder, GivenUpForCause, MissesAreAbsences
<1>6. WaitersAreServed' /\ PendingIsAwaited' /\ FuturesAreOwned' /\ PollerIsUseful'
  BY <1>1, <1>3 DEF BatchIndInv, WaitersAreServed, PendingIsAwaited, FuturesAreOwned, PollerIsUseful
<1>7. QED
  BY <1>4, <1>5, <1>6 DEF BatchIndInv

(* The job of a worker that has submitted is new to the poller.            *)
LEMMA SubmitReturnsKeeps ==
  ASSUME BatchIndInv, NEW c \in Chunks, SubmitReturns(c)
  PROVE  BatchIndInv'
<1> PICK j \in Jobs : /\ owner[j] = c /\ job' = [job EXCEPT ![c] = j]
                      /\ pending' = pending \cup {j} /\ misses' = [misses EXCEPT ![j] = 0]
  BY DEF SubmitReturns, Register
<1>1. /\ worker[c] = "submitting" /\ worker' = [worker EXCEPT ![c] = "waiting"]
      /\ UNCHANGED <<result, future, poller, stopped, merllm, owner, absences>>
  BY DEF SubmitReturns
<1>2. JobsTyped /\ WorkersTyped /\ PollerTyped
  BY TypeParts DEF BatchIndInv
<1>3. /\ worker'[c] = "waiting" /\ job'[c] = j
      /\ \A d \in Chunks : d # c => worker'[d] = worker[d] /\ job'[d] = job[d]
  BY <1>1, <1>2 DEF WorkersTyped
<1>4. misses'[j] = 0 /\ \A k \in Jobs : k # j => misses'[k] = misses[k]
  BY <1>2 DEF PollerTyped
<1>5. future[j] = "unset" /\ ~stopped /\ poller.stage # "exited"
  BY <1>1, <1>2 DEF BatchIndInv, FuturesAreOwned, PollerIsUseful, PollerTyped
<1>6. BatchTypeOK'
  <2>1. WorkersTyped'
    BY <1>1, <1>2, <1>3 DEF WorkersTyped
  <2>2. misses' \in [Jobs -> 0 .. MissTolerance]
    BY <1>2, BatchAssumption DEF PollerTyped
  <2>3. JobsTyped' /\ PollerTyped'
    BY <1>1, <1>2, <2>2 DEF JobsTyped, PollerTyped
  <2>4. QED
    BY <2>1, <2>3, TypeParts, PTL
<1>7. SlotsKeepOrder' /\ GivenUpForCause'
  BY <1>1 DEF BatchIndInv, SlotsKeepOrder, GivenUpForCause
<1>8. MissesAreAbsences'
  <2>1. \A k \in Jobs : absences[k] >= 0 /\ MissTolerance > 0
    BY <1>2, BatchAssumption DEF PollerTyped
  <2>2. QED
    BY <1>1, <1>4, <2>1, BatchAssumption DEF BatchIndInv, MissesAreAbsences
<1>9. PendingIsAwaited'
  <2>1. \A k \in pending : owner[k] # c
    BY <1>1 DEF BatchIndInv, PendingIsAwaited
  <2>2. QED
    BY <1>1, <1>3, <1>5, <2>1 DEF BatchIndInv, PendingIsAwaited
<1>10. WaitersAreServed' /\ FuturesAreOwned' /\ PollerIsUseful'
  BY <1>1, <1>3, <1>5 DEF BatchIndInv, WaitersAreServed, FuturesAreOwned, PollerIsUseful
<1>11. QED
  BY <1>6, <1>7, <1>8, <1>9, <1>10 DEF BatchIndInv

(* A worker ends that the poller has nothing pending for.                  *)
LEMMA SettleKeeps ==
  ASSUME BatchIndInv, NEW c \in Chunks, NEW value \in {c, Empty}, Settle(c, value),
         \/ worker[c] = "submitting"
         \/ worker[c] = "waiting" /\ future[job[c]] # "unset",
         UNCHANGED <<job, future, pending, misses, poller, stopped, merllm, owner, absences>>
  PROVE  BatchIndInv'
<1>1. worker' = [worker EXCEPT ![c] = "done"] /\ result' = [result EXCEPT ![c] = value]
  BY DEF Settle
<1>2. JobsTyped /\ WorkersTyped /\ PollerTyped
  BY TypeParts DEF BatchIndInv
<1>3. /\ worker'[c] = "done" /\ result'[c] = value
      /\ \A d \in Chunks : d # c => worker'[d] = worker[d] /\ result'[d] = result[d]
  BY <1>1, <1>2 DEF WorkersTyped
<1>4. value # None
  BY BatchAssumption
<1>5. BatchTypeOK'
  <2>1. WorkersTyped'
    BY <1>1, <1>2, <1>3, <1>4 DEF WorkersTyped
  <2>2. JobsTyped' /\ PollerTyped'
    BY <1>2 DEF JobsTyped, PollerTyped
  <2>3. QED
    BY <2>1, <2>2, TypeParts, PTL
<1>6. SlotsKeepOrder'
  BY <1>3 DEF BatchIndInv, SlotsKeepOrder
<1>7. GivenUpForCause' /\ MissesAreAbsences'
  BY DEF BatchIndInv, GivenUpForCause, MissesAreAbsences
<1>8. PendingIsAwaited'
  <2>1. \A k \in pending : owner[k] # c
    BY DEF BatchIndInv, PendingIsAwaited
  <2>2. QED
    BY <1>3, <2>1 DEF BatchIndInv, PendingIsAwaited
<1>9. WaitersAreServed' /\ FuturesAreOwned' /\ PollerIsUseful'
  BY <1>3 DEF BatchIndInv, WaitersAreServed, FuturesAreOwned, PollerIsUseful
<1>10. QED
  BY <1>5, <1>6, <1>7, <1>8, <1>9 DEF BatchIndInv

LEMMA WorkerKeeps ==
  ASSUME BatchIndInv, NEW c \in Chunks, SubmitFails(c) \/ WorkerResumes(c)
  PROVE  BatchIndInv'
<1>1. CASE SubmitFails(c)
  BY <1>1, SettleKeeps DEF SubmitFails
<1>2. CASE WorkerResumes(c)
  <2>1. worker[c] = "waiting" /\ owner[job[c]] = c
    BY <1>2 DEF WorkerResumes, BatchIndInv, FuturesAreOwned
  <2>2. PICK value \in {c, Empty} : Settle(c, value) /\ future[job[c]] # "unset"
    BY <1>2, <2>1 DEF WorkerResumes
  <2>3. UNCHANGED <<job, future, pending, misses, poller, stopped, merllm, owner, absences>>
    BY <1>2 DEF WorkerResumes
  <2>4. QED
    BY <2>1, <2>2, <2>3, SettleKeeps
<1>3. QED
  BY <1>1, <1>2

-----------------------------------------------------------------------------
(* The poller.                                                             *)

LEMMA PollerWakesKeeps ==
  ASSUME BatchIndInv, PollerWakes
  PROVE  BatchIndInv'
<1>1. /\ poller.stage = "sleeping"
      /\ UNCHANGED <<worker, job, result, future, pending, misses, stopped, merllm, owner, absences>>
  BY DEF PollerWakes
<1>2. JobsTyped /\ WorkersTyped /\ PollerTyped
  BY TypeParts DEF BatchIndInv
<1>3. poller \in Poller /\ poller.asked = {}
  BY <1>1, <1>2 DEF PollerTyped, BatchIndInv, PollerIsUseful
<1>4. \/ stopped /\ poller'.stage = "exited" /\ poller'.asked = {}
      \/ ~stopped /\ pending # {} /\ poller'.stage = "polling" /\ poller'.asked = pending
  BY <1>3 DEF PollerWakes, Poller
<1>5. poller' \in Poller
  BY <1>2, <1>3 DEF PollerWakes, Poller, PollerTyped
<1>6. BatchTypeOK'
  BY <1>1, <1>5 DEF BatchIndInv, BatchTypeOK
<1>7. /\ SlotsKeepOrder' /\ GivenUpForCause' /\ MissesAreAbsences'
      /\ PendingIsAwaited' /\ FuturesAreOwned'
  BY <1>1 DEF BatchIndInv, SlotsKeepOrder, GivenUpForCause, MissesAreAbsences, PendingIsAwaited,
              FuturesAreOwned
<1>8. WaitersAreServed' /\ PollerIsUseful'
  BY <1>1, <1>4 DEF BatchIndInv, WaitersAreServed, PollerIsUseful
<1>9. QED
  BY <1>6, <1>7, <1>8 DEF BatchIndInv

LEMMA PollFailsKeeps ==
  ASSUME BatchIndInv, PollFails
  PROVE  BatchIndInv'
<1>1. /\ poller.stage = "polling" /\ poller' = [stage |-> "sleeping", asked |-> {}]
      /\ UNCHANGED <<worker, job, result, future, pending, misses, stopped, merllm, owner, absences>>
  BY DEF PollFails, Sleep
<1>2. BatchTypeOK'
  BY <1>1 DEF BatchIndInv, BatchTypeOK, Poller
<1>3. /\ SlotsKeepOrder' /\ GivenUpForCause' /\ MissesAreAbsences'
      /\ PendingIsAwaited' /\ FuturesAreOwned'
  BY <1>1 DEF BatchIndInv, SlotsKeepOrder, GivenUpForCause, MissesAreAbsences, PendingIsAwaited,
              FuturesAreOwned
<1>4. WaitersAreServed' /\ PollerIsUseful'
  BY <1>1 DEF BatchIndInv, WaitersAreServed, PollerIsUseful
<1>5. QED
  BY <1>2, <1>3, <1>4 DEF BatchIndInv

(* What a reply does to a job: one that was not asked for is left alone;   *)
(* one that was asked for is resolved or stays pending, and is given up    *)
(* for cause only.                                                         *)
Answered(j) ==
  /\ misses'[j] \in 0 .. MissTolerance /\ absences'[j] \in 0 .. MissTolerance
  /\ misses'[j] < MissTolerance /\ misses'[j] <= absences'[j]
  /\ \/ future'[j] = future[j] /\ (j \in pending' <=> j \in pending)
     \/ future'[j] \in {"nothing", "text"} /\ j \in pending /\ j \notin pending'
  /\ future'[j] = "nothing" =>
       \/ future[j] = "nothing" /\ absences'[j] = absences[j]
       \/ merllm[j] = "failed"
       \/ absences'[j] >= MissTolerance

LEMMA ReplyAnswers ==
  ASSUME BatchIndInv, PollReturns
  PROVE  /\ \A j \in Jobs : Answered(j)
         /\ pending' \subseteq pending
         /\ future' \in [Jobs -> {"unset", "nothing", "text"}]
         /\ misses' \in [Jobs -> 0 .. MissTolerance] /\ absences' \in [Jobs -> 0 .. MissTolerance]
         /\ poller.stage = "polling" /\ poller' = [stage |-> "sleeping", asked |-> {}]
         /\ UNCHANGED <<worker, job, result, stopped, merllm, owner>>
<1> DEFINE known == {j \in Jobs : merllm[j] \in {"held", "completed", "failed"}}
           missing(leftOut) == {j \in Looked : j \in leftOut \/ j \notin known \/ j \notin poller.asked}
           counted(leftOut) == MissesAfter(missing(leftOut))
           lost(leftOut) == {j \in missing(leftOut) : counted(leftOut)[j] >= MissTolerance}
           failed(leftOut) == {j \in Looked \ missing(leftOut) : merllm[j] = "failed"}
           done(leftOut) == {j \in Looked \ missing(leftOut) : merllm[j] = "completed"}
           ended(leftOut) == lost(leftOut) \cup failed(leftOut) \cup done(leftOut)
<1>1. PICK leftOut \in SUBSET poller.asked :
        /\ future' = [j \in Jobs |-> IF j \in lost(leftOut) \cup failed(leftOut) THEN "nothing"
                                     ELSE IF j \in done(leftOut) THEN "text" ELSE future[j]]
        /\ pending' = pending \ ended(leftOut)
        /\ misses' = [j \in Jobs |-> IF j \in ended(leftOut) THEN 0 ELSE counted(leftOut)[j]]
        /\ absences' = [j \in Jobs |->
                          IF j \notin poller.asked THEN absences[j]
                          ELSE IF j \notin leftOut /\ j \in known THEN 0
                          ELSE IF absences[j] < MissTolerance THEN absences[j] + 1
                          ELSE absences[j]]
  BY DEF PollReturns
<1>2. /\ poller.stage = "polling" /\ poller' = [stage |-> "sleeping", asked |-> {}]
      /\ UNCHANGED <<worker, job, result, stopped, merllm, owner>>
  BY DEF PollReturns, Sleep
<1>3. /\ PollerTyped /\ MissesAreAbsences /\ PendingIsAwaited
      /\ poller.asked \subseteq pending /\ pending \subseteq Jobs
      /\ MissTolerance \in Nat \ {0}
  BY TypeParts, BatchAssumption DEF BatchIndInv, PollerIsUseful, PollerTyped
<1>4. ASSUME NEW j \in Jobs PROVE Answered(j)
  <2>1. /\ misses[j] \in Nat /\ absences[j] \in 0 .. MissTolerance
        /\ misses[j] < MissTolerance /\ misses[j] <= absences[j]
    BY <1>3 DEF PollerTyped, MissesAreAbsences
  <2>2. counted(leftOut)[j] = IF j \notin Looked THEN misses[j]
                              ELSE IF j \in missing(leftOut) THEN misses[j] + 1 ELSE 0
    BY DEF MissesAfter
  <2>3. CASE j \notin poller.asked
    <3>1. j \notin ended(leftOut) /\ j \notin Looked
      BY <2>3 DEF Looked
    <3>2. /\ future'[j] = future[j] /\ misses'[j] = misses[j] /\ absences'[j] = absences[j]
          /\ j \in pending' <=> j \in pending
      BY <1>1, <2>2, <2>3, <3>1
    <3>3. QED
      BY <2>1, <3>2, <1>3 DEF Answered
  <2>4. CASE j \in poller.asked /\ j \in missing(leftOut)
    <3>1. /\ counted(leftOut)[j] = misses[j] + 1
          /\ j \in leftOut \/ j \notin known
          /\ j \notin failed(leftOut) /\ j \notin done(leftOut)
      BY <2>2, <2>4 DEF Looked
    <3>2. absences'[j] = IF absences[j] < MissTolerance THEN absences[j] + 1 ELSE absences[j]
      BY <1>1, <2>4, <3>1
    <3>3. CASE misses[j] + 1 >= MissTolerance
      <4>1. j \in lost(leftOut)
        BY <2>4, <3>1, <3>3
      <4>2. future'[j] = "nothing" /\ misses'[j] = 0 /\ j \in pending /\ j \notin pending'
        BY <1>1, <1>3, <2>4, <4>1
      <4>3. QED
        BY <1>3, <2>1, <3>2, <3>3, <4>2 DEF Answered
    <3>4. CASE ~(misses[j] + 1 >= MissTolerance)
      <4>1. j \notin ended(leftOut)
        BY <3>1, <3>4
      <4>2. future'[j] = future[j] /\ misses'[j] = misses[j] + 1 /\ (j \in pending' <=> j \in pending)
        BY <1>1, <3>1, <4>1
      <4>3. future[j] = "unset"
        BY <1>3, <2>4 DEF PendingIsAwaited
      <4>4. QED
        BY <1>3, <2>1, <3>2, <3>4, <4>2, <4>3 DEF Answered
    <3>5. QED
      BY <3>3, <3>4
  <2>5. CASE j \in poller.asked /\ j \notin missing(leftOut)
    <3>1. counted(leftOut)[j] = 0 /\ j \notin lost(leftOut) /\ j \in Looked
      BY <2>2, <2>5 DEF Looked
    <3>2. misses'[j] = 0 /\ absences'[j] = 0
      BY <1>1, <2>5, <3>1 DEF Looked
    <3>3. future[j] = "unset" /\ j \in pending
      BY <1>3, <2>5 DEF PendingIsAwaited
    <3>4. CASE merllm[j] = "failed"
      <4>1. j \in failed(leftOut)
        BY <2>5, <3>1, <3>4
      <4>2. future'[j] = "nothing" /\ j \notin pending'
        BY <1>1, <4>1
      <4>3. QED
        BY <1>3, <3>2, <3>3, <3>4, <4>2 DEF Answered
    <3>5. CASE merllm[j] = "completed"
      <4>1. j \in done(leftOut) /\ j \notin failed(leftOut)
        BY <2>5, <3>1, <3>5
      <4>2. future'[j] = "text" /\ j \notin pending'
        BY <1>1, <3>1, <4>1
      <4>3. QED
        BY <1>3, <3>2, <3>3, <4>2 DEF Answered
    <3>6. CASE merllm[j] \notin {"failed", "completed"}
      <4>1. j \notin ended(leftOut)
        BY <3>1, <3>6
      <4>2. future'[j] = future[j] /\ (j \in pending' <=> j \in pending)
        BY <1>1, <4>1
      <4>3. QED
        BY <1>3, <3>2, <3>3, <4>2 DEF Answered
    <3>7. QED
      BY <3>4, <3>5, <3>6
  <2>6. QED
    BY <2>3, <2>4, <2>5
<1>5. pending' \subseteq pending
  BY <1>1
<1>6. future' \in [Jobs -> {"unset", "nothing", "text"}]
  BY <1>1, <1>3 DEF PollerTyped
<1>7. misses' \in [Jobs -> 0 .. MissTolerance] /\ absences' \in [Jobs -> 0 .. MissTolerance]
  <2>1. DOMAIN misses' = Jobs /\ misses' = [j \in Jobs |-> misses'[j]]
    BY <1>1
  <2>2. DOMAIN absences' = Jobs /\ absences' = [j \in Jobs |-> absences'[j]]
    BY <1>1
  <2>3. \A j \in Jobs : misses'[j] \in 0 .. MissTolerance /\ absences'[j] \in 0 .. MissTolerance
    BY <1>4 DEF Answered
  <2>4. QED
    BY <2>1, <2>2, <2>3
<1>8. QED
  BY <1>2, <1>4, <1>5, <1>6, <1>7

LEMMA PollReturnsKeeps ==
  ASSUME BatchIndInv, PollReturns
  PROVE  BatchIndInv'
<1>1. /\ \A j \in Jobs : Answered(j)
      /\ pending' \subseteq pending
      /\ future' \in [Jobs -> {"unset", "nothing", "text"}]
      /\ misses' \in [Jobs -> 0 .. MissTolerance] /\ absences' \in [Jobs -> 0 .. MissTolerance]
      /\ poller.stage = "polling" /\ poller' = [stage |-> "sleeping", asked |-> {}]
      /\ UNCHANGED <<worker, job, result, stopped, merllm, owner>>
  BY ReplyAnswers
<1>2. JobsTyped /\ WorkersTyped /\ PollerTyped
  BY TypeParts DEF BatchIndInv
<1>3. BatchTypeOK'
  BY <1>1 DEF BatchIndInv, BatchTypeOK, Poller
<1>4. SlotsKeepOrder'
  BY <1>1 DEF BatchIndInv, SlotsKeepOrder
<1>5. GivenUpForCause'
  <2>1. ASSUME NEW j \in Jobs, future'[j] = "nothing"
        PROVE  merllm'[j] \in {"failed", "forgotten"} \/ absences'[j] >= MissTolerance
    BY <1>1, <2>1 DEF Answered, BatchIndInv, GivenUpForCause
  <2>2. QED
    BY <2>1 DEF GivenUpForCause
<1>6. WaitersAreServed'
  <2>1. ASSUME NEW c \in Chunks, worker'[c] = "waiting", future'[job'[c]] = "unset"
        PROVE  job'[c] \in pending'
    <3>1. worker[c] = "waiting" /\ job'[c] = job[c] /\ job[c] \in Jobs
      BY <1>1, <2>1 DEF BatchIndInv, FuturesAreOwned
    <3>2. Answered(job[c])
      BY <1>1, <3>1
    <3>3. future[job[c]] = "unset" /\ (job[c] \in pending' <=> job[c] \in pending)
      BY <2>1, <3>1, <3>2 DEF Answered
    <3>4. QED
      BY <3>1, <3>3 DEF BatchIndInv, WaitersAreServed
  <2>2. ~stopped \/ \A c \in Chunks : worker[c] = "done"
    BY DEF BatchIndInv, PollerIsUseful
  <2>3. QED
    BY <1>1, <2>1, <2>2 DEF WaitersAreServed
<1>7. PendingIsAwaited'
  <2>1. \A j \in pending' : j \in pending /\ future'[j] = future[j]
    BY <1>1, <1>2 DEF Answered, PollerTyped
  <2>2. QED
    BY <1>1, <2>1 DEF BatchIndInv, PendingIsAwaited
<1>8. FuturesAreOwned'
  <2>1. ASSUME NEW j \in Jobs, future'[j] # "unset"
        PROVE  owner[j] \in Chunks /\ worker[owner[j]] \in {"waiting", "done"}
    <3>1. future[j] # "unset" \/ j \in pending
      BY <1>1, <2>1 DEF Answered
    <3>2. QED
      BY <3>1 DEF BatchIndInv, FuturesAreOwned, PendingIsAwaited
  <2>2. QED
    BY <1>1, <2>1 DEF BatchIndInv, FuturesAreOwned
<1>9. MissesAreAbsences'
  BY <1>1 DEF Answered, MissesAreAbsences
<1>10. PollerIsUseful'
  BY <1>1 DEF BatchIndInv, PollerIsUseful
<1>11. QED
  BY <1>3, <1>4, <1>5, <1>6, <1>7, <1>8, <1>9, <1>10 DEF BatchIndInv

(* When every worker has ended nothing is pending, so that no poll is      *)
(* under way.                                                              *)
LEMMA GatherReturnsKeeps ==
  ASSUME BatchIndInv, GatherReturns
  PROVE  BatchIndInv'
<1>1. /\ \A c \in Chunks : worker[c] = "done"
      /\ stopped' = TRUE
      /\ UNCHANGED <<worker, job, result, future, pending, misses, poller, merllm, owner, absences>>
  BY DEF GatherReturns
<1>2. pending = {}
  BY <1>1 DEF BatchIndInv, PendingIsAwaited
<1>3. poller.stage # "polling"
  BY <1>2 DEF BatchIndInv, PollerIsUseful
<1>4. BatchTypeOK'
  BY <1>1 DEF BatchIndInv, BatchTypeOK
<1>5. /\ SlotsKeepOrder' /\ GivenUpForCause' /\ MissesAreAbsences'
      /\ PendingIsAwaited' /\ FuturesAreOwned'
  BY <1>1 DEF BatchIndInv, SlotsKeepOrder, GivenUpForCause, MissesAreAbsences, PendingIsAwaited,
              FuturesAreOwned
<1>6. WaitersAreServed' /\ PollerIsUseful'
  BY <1>1, <1>3 DEF BatchIndInv, WaitersAreServed, PollerIsUseful
<1>7. QED
  BY <1>4, <1>5, <1>6 DEF BatchIndInv

-----------------------------------------------------------------------------
LEMMA BatchNext == BatchIndInv /\ [Next]_vars => BatchIndInv'
<1> SUFFICES ASSUME BatchIndInv, [Next]_vars PROVE BatchIndInv'
  OBVIOUS
<1>1. ASSUME NEW c \in Chunks, AcceptJob(c) \/ WorkerStep(c) PROVE BatchIndInv'
  BY <1>1, AcceptJobKeeps, BeginSubmitKeeps, SubmitReturnsKeeps, WorkerKeeps DEF WorkerStep
<1>2. ASSUME NEW j \in Jobs, EndJob(j) \/ ForgetJob(j) PROVE BatchIndInv'
  BY <1>2, MerllmKeeps
<1>3. CASE UNCHANGED vars
  BY <1>3 DEF vars, localVars, BatchIndInv, BatchTypeOK, SlotsKeepOrder, GivenUpForCause,
              WaitersAreServed, PendingIsAwaited, FuturesAreOwned, MissesAreAbsences, PollerIsUseful
<1>4. QED
  BY <1>1, <1>2, <1>3, PollerWakesKeeps, PollReturnsKeeps, PollFailsKeeps, GatherReturnsKeeps DEF Next

(* The inductive invariant of the batch extraction holds throughout.       *)
THEOREM BatchInvariance == Spec => []BatchIndInv
<1>1. QED
  BY BatchInit, BatchNext, PTL DEF Spec

(* The workers, the poller and the futures keep their types, and a slot is *)
(* written when its worker ends and not before.                            *)
THEOREM BatchTypeCorrect == Spec => []BatchTypeOK
<1>1. BatchIndInv => BatchTypeOK
  BY DEF BatchIndInv
<1>2. QED
  BY <1>1, BatchInvariance, PTL

(* extract_chunks_batch returns one result per chunk in the order of the   *)
(* chunks: a slot never holds what was extracted from another chunk.       *)
THEOREM SlotsAreInOrder == Spec => []SlotsKeepOrder
<1>1. BatchIndInv => SlotsKeepOrder
  BY DEF BatchIndInv
<1>2. QED
  BY <1>1, BatchInvariance, PTL

(* The poller gives a job up only when merLLM failed it, forgot it or left *)
(* it out of BATCH_MISS_TOLERANCE replies in a row.                        *)
THEOREM JobsAreGivenUpForCause == Spec => []GivenUpForCause
<1>1. BatchIndInv => GivenUpForCause
  BY DEF BatchIndInv
<1>2. QED
  BY <1>1, BatchInvariance, PTL

(* A worker that waits is served by a poller that runs, and the poller is  *)
(* not told to stop while a poll is under way.                             *)
THEOREM WaitersAreAlwaysServed == Spec => []WaitersAreServed
<1>1. BatchIndInv => WaitersAreServed
  BY DEF BatchIndInv
<1>2. QED
  BY <1>1, BatchInvariance, PTL
=============================================================================
