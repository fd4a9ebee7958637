--------------------------- MODULE JobQueue_proofs ---------------------------
(***************************************************************************)
(* Proofs about JobQueue, for any sets of jobs and workers, any bound on   *)
(* the broker and any combination of failures.                             *)
(***************************************************************************)
EXTENDS JobQueue, TLAPS

\* Every reachable state of the job tables, the broker and the workers is
\* well typed.
THEOREM JobTypeCorrect == JobSpec => []JobTypeOK
<1>1. JobInit => JobTypeOK
  BY JobQueueAssumption DEF JobInit, JobTypeOK, JobStatus, Terminal, Idle, NoCancel
<1>2. JobTypeOK /\ [JobNext]_jobVars => JobTypeOK'
  <2> SUFFICES ASSUME JobTypeOK, [JobNext]_jobVars PROVE JobTypeOK'
    OBVIOUS
  <2> USE DEF JobTypeOK, JobStatus, Terminal, Idle, NoCancel, StatusOf, SetStatus, SetWorker
  <2>1. ASSUME NEW j \in Jobs, CreateJob(j) PROVE JobTypeOK'
    BY <2>1 DEF CreateJob
  <2>2. ASSUME NEW j \in Jobs, Enqueue(j) PROVE JobTypeOK'
    <3>1. broker' \in [Jobs -> 0 .. MaxCopies]
      BY <2>2, JobQueueAssumption DEF Enqueue
    <3> QED
      BY <2>2, <3>1 DEF Enqueue
  <2>3. ASSUME NEW j \in Jobs, EnqueueFails(j) PROVE JobTypeOK'
    <3>1. broker' \in [Jobs -> 0 .. MaxCopies]
      BY <2>3, JobQueueAssumption DEF EnqueueFails
    <3>2. /\ job' \in [Jobs -> [status : JobStatus, attempts : Nat]]
          /\ outbox' \subseteq Jobs
      BY <2>3 DEF EnqueueFails
    <3> QED
      BY <2>3, <3>1, <3>2 DEF EnqueueFails
  <2>4. ASSUME NEW j \in Jobs, EnqueueNever(j) PROVE JobTypeOK'
    BY <2>4 DEF EnqueueNever
  <2>5. ASSUME NEW j \in Jobs, Duplicate(j) PROVE JobTypeOK'
    <3>1. broker' \in [Jobs -> 0 .. MaxCopies]
      BY <2>5, JobQueueAssumption DEF Duplicate
    <3> QED
      BY <2>5, <3>1 DEF Duplicate
  <2>6. ASSUME NEW w \in Workers, NEW j \in Jobs, Deliver(w, j) PROVE JobTypeOK'
    <3>1. broker' \in [Jobs -> 0 .. MaxCopies]
      BY <2>6, JobQueueAssumption DEF Deliver
    <3>2. overlap' \subseteq Jobs
      BY <2>6 DEF Deliver
    <3>3. UNCHANGED <<job, outbox, canceller, reaper, begun, orphaned>>
      BY <2>6 DEF Deliver
    <3>4. CASE Claimable(j)
      <4>1. worker' = [worker EXCEPT ![w] =
                [pc |-> "loaded", job |-> j, attempts |-> job[j].attempts]]
        BY <2>6, <3>4 DEF Deliver
      <4> QED
        BY <3>1, <3>2, <3>3, <4>1
    <3>5. CASE ~Claimable(j)
      <4>1. worker' = worker
        BY <2>6, <3>5 DEF Deliver
      <4> QED
        BY <3>1, <3>2, <3>3, <4>1
    <3> QED
      BY <3>4, <3>5
  <2>7. ASSUME NEW w \in Workers, NEW j \in Jobs, DeliverTooEarly(w, j) PROVE JobTypeOK'
    <3>1. broker' \in [Jobs -> 0 .. MaxCopies]
      BY <2>7, JobQueueAssumption DEF DeliverTooEarly
    <3> QED
      BY <2>7, <3>1 DEF DeliverTooEarly
  <2>8. ASSUME NEW w \in Workers, Claim(w) PROVE JobTypeOK'
    BY <2>8 DEF Claim, Claimed
  <2>9. ASSUME NEW w \in Workers, Succeed(w) PROVE JobTypeOK'
    BY <2>9 DEF Succeed
  <2>10. ASSUME NEW w \in Workers, Raise(w) PROVE JobTypeOK'
    BY <2>10 DEF Raise
  <2>11. ASSUME NEW w \in Workers, MarkFailed(w) PROVE JobTypeOK'
    BY <2>11 DEF MarkFailed
  <2>12. ASSUME NEW w \in Workers, Crash(w) PROVE JobTypeOK'
    BY <2>12 DEF Crash
  <2>13. CASE CancelSelect
    BY <2>13 DEF CancelSelect
  <2>14. CASE CancelFlush
    BY <2>14 DEF CancelFlush
  <2>15. CASE CancelCommit
    BY <2>15 DEF CancelCommit
  <2>16. ASSUME NEW S \in SUBSET Jobs, ReconcileSelect(S) PROVE JobTypeOK'
    BY <2>16 DEF ReconcileSelect
  <2>17. CASE ReconcileCommit
    BY <2>17 DEF ReconcileCommit
  <2>18. CASE UNCHANGED jobVars
    BY <2>18 DEF jobVars
  <2> QED
    BY <2>1, <2>2, <2>3, <2>4, <2>5, <2>6, <2>7, <2>8, <2>9, <2>10, <2>11,
       <2>12, <2>13, <2>14, <2>15, <2>16, <2>17, <2>18
    DEF JobNext, WorkerStep, CancelStep
<1> QED
  BY <1>1, <1>2, PTL DEF JobSpec
-----------------------------------------------------------------------------
\* What has to be known of a job whose claims never overlapped: until it was
\* begun its row counts no attempt, at most one worker holds a claim on it, and
\* that worker loaded the count of a job never begun.
ClaimInv ==
    \A j \in Jobs \ overlap :
        /\ begun[j] <= 1
        /\ job[j].attempts = begun[j]
        /\ StatusOf(j) \in {"none", "queued"} => begun[j] = 0
        /\ \A w \in LoadedBy(j) : begun[j] = 0 /\ worker[w].attempts = 0
        /\ \A w1, w2 \in LoadedBy(j) : w1 = w2

\* ClaimInv is preserved by every step of the queue, given well-typed states.
LEMMA ClaimInvStep == JobTypeOK /\ ClaimInv /\ [JobNext]_jobVars => ClaimInv'
<1> SUFFICES ASSUME JobTypeOK, ClaimInv, [JobNext]_jobVars PROVE ClaimInv'
  OBVIOUS
<1> USE DEF JobTypeOK, ClaimInv, StatusOf, LoadedBy
<1>1. ASSUME NEW j \in Jobs, CreateJob(j) PROVE ClaimInv'
  BY <1>1 DEF CreateJob
<1>2. ASSUME NEW j \in Jobs, Enqueue(j) \/ EnqueueNever(j) \/ Duplicate(j)
      PROVE  ClaimInv'
  BY <1>2 DEF Enqueue, EnqueueNever, Duplicate
<1>3. ASSUME NEW j \in Jobs, EnqueueFails(j) PROVE ClaimInv'
  BY <1>3 DEF EnqueueFails, SetStatus
<1>4. ASSUME NEW w \in Workers, NEW j \in Jobs, Deliver(w, j) PROVE ClaimInv'
  <2>1. CASE StatusOf(j) # "queued"
    BY <1>4, <2>1 DEF Deliver, Claimable
  <2>2. CASE StatusOf(j) = "queued"
    <3>1. /\ worker' = [worker EXCEPT ![w] =
                [pc |-> "loaded", job |-> j, attempts |-> job[j].attempts]]
          /\ overlap' = IF LoadedBy(j) # {} THEN overlap \cup {j} ELSE overlap
          /\ UNCHANGED <<job, begun>>
      BY <1>4, <2>2 DEF Deliver, Claimable
    <3>2. ASSUME NEW i \in Jobs \ overlap', i # j
          PROVE  LoadedBy(i)' \subseteq LoadedBy(i)
      BY <3>1, <3>2
    <3>3. ASSUME j \notin overlap'
          PROVE  LoadedBy(j)' \subseteq {w} /\ LoadedBy(j) = {} /\ begun[j] = 0
      BY <3>1, <3>3, <2>2
    <3>4. ASSUME NEW i \in Jobs \ overlap', i # j
          PROVE  \A v \in LoadedBy(i)' : worker'[v] = worker[v]
      BY <3>1, <3>4
    <3> QED
      BY <3>1, <3>2, <3>3, <3>4
  <2> QED
    BY <2>1, <2>2
<1>5. ASSUME NEW w \in Workers, NEW j \in Jobs, DeliverTooEarly(w, j) PROVE ClaimInv'
  BY <1>5 DEF DeliverTooEarly
<1>6. ASSUME NEW w \in Workers, Claim(w) PROVE ClaimInv'
  BY <1>6 DEF Claim, Claimed, SetWorker
<1>7. ASSUME NEW w \in Workers, Succeed(w) PROVE ClaimInv'
  BY <1>7 DEF Succeed, SetStatus, Idle
<1>8. ASSUME NEW w \in Workers, Raise(w) PROVE ClaimInv'
  BY <1>8 DEF Raise, SetWorker
<1>9. ASSUME NEW w \in Workers, MarkFailed(w) PROVE ClaimInv'
  BY <1>9 DEF MarkFailed, SetStatus, Idle
<1>10. ASSUME NEW w \in Workers, Crash(w) PROVE ClaimInv'
  BY <1>10 DEF Crash, Idle
<1>11. CASE CancelSelect \/ CancelFlush
  BY <1>11 DEF CancelSelect, CancelFlush
<1>12. CASE CancelCommit
  BY <1>12 DEF CancelCommit
<1>13. ASSUME NEW S \in SUBSET Jobs, ReconcileSelect(S) PROVE ClaimInv'
  BY <1>13 DEF ReconcileSelect
<1>14. CASE ReconcileCommit
  BY <1>14 DEF ReconcileCommit
<1>15. CASE UNCHANGED jobVars
  BY <1>15 DEF jobVars
<1> QED
  BY <1>1, <1>2, <1>3, <1>4, <1>5, <1>6, <1>7, <1>8, <1>9, <1>10, <1>11,
     <1>12, <1>13, <1>14, <1>15 DEF JobNext, WorkerStep, CancelStep

\* A job whose claims never overlapped is run at most once, however often its
\* message is delivered, and `attempts' counts its runs.
THEOREM ClaimsExclude ==
    JobSpec => [](RunsOnceUnlessClaimsOverlap /\ AttemptsCountRuns)
<1>1. JobInit => ClaimInv
  BY DEF JobInit, ClaimInv, LoadedBy, StatusOf, Idle
<1>2. ClaimInv => RunsOnceUnlessClaimsOverlap /\ AttemptsCountRuns
  BY DEF ClaimInv, RunsOnceUnlessClaimsOverlap, AttemptsCountRuns
<1> QED
  BY <1>1, <1>2, ClaimInvStep, JobTypeCorrect, PTL DEF JobSpec

\* The attempts of a job are the runs that were begun, for jobs whose claims
\* never overlapped: an overlap loses one of two increments.
THEOREM AttemptsAreExact == JobSpec => []AttemptsCountRuns
  BY ClaimsExclude, PTL

-----------------------------------------------------------------------------
\* A "running" row without a worker is always the trace of a crash: no
\* interleaving of runners, stop and reconcile strands a job by itself.
THEOREM RunningIsOwned == JobSpec => []RunningHasWorker
<1>1. JobInit => RunningHasWorker
  BY DEF JobInit, RunningHasWorker, StatusOf
<1>2. JobTypeOK /\ RunningHasWorker /\ [JobNext]_jobVars => RunningHasWorker'
  <2> SUFFICES ASSUME JobTypeOK, RunningHasWorker, [JobNext]_jobVars
               PROVE  RunningHasWorker'
    OBVIOUS
  <2> USE DEF JobTypeOK, RunningHasWorker, StatusOf, SetStatus, SetWorker
  <2>1. ASSUME NEW j \in Jobs,
               \/ CreateJob(j) \/ Enqueue(j) \/ EnqueueNever(j) \/ Duplicate(j)
               \/ EnqueueFails(j)
        PROVE  RunningHasWorker'
    BY <2>1 DEF CreateJob, Enqueue, EnqueueNever, Duplicate, EnqueueFails
  <2>2. ASSUME NEW w \in Workers, NEW j \in Jobs, Deliver(w, j) \/ DeliverTooEarly(w, j)
        PROVE  RunningHasWorker'
    BY <2>2 DEF Deliver, DeliverTooEarly, Claimable
  <2>3. ASSUME NEW w \in Workers, Claim(w) PROVE RunningHasWorker'
    BY <2>3 DEF Claim, Claimed
  <2>4. ASSUME NEW w \in Workers, Succeed(w) PROVE RunningHasWorker'
    BY <2>4 DEF Succeed
  <2>5. ASSUME NEW w \in Workers, Raise(w) PROVE RunningHasWorker'
    BY <2>5 DEF Raise
  <2>6. ASSUME NEW w \in Workers, MarkFailed(w) PROVE RunningHasWorker'
    BY <2>6 DEF MarkFailed
  <2>7. ASSUME NEW w \in Workers, Crash(w) PROVE RunningHasWorker'
    BY <2>7 DEF Crash
  <2>8. CASE CancelSelect \/ CancelFlush \/ CancelCommit
    BY <2>8 DEF CancelSelect, CancelFlush, CancelCommit
  <2>9. ASSUME NEW S \in SUBSET Jobs, ReconcileSelect(S) PROVE RunningHasWorker'
    BY <2>9 DEF ReconcileSelect
  <2>10. CASE ReconcileCommit
    BY <2>10 DEF ReconcileCommit
  <2>11. CASE UNCHANGED jobVars
    BY <2>11 DEF jobVars
  <2> QED
    BY <2>1, <2>2, <2>3, <2>4, <2>5, <2>6, <2>7, <2>8, <2>9, <2>10, <2>11
    DEF JobNext, WorkerStep, CancelStep
<1> QED
  BY <1>1, <1>2, JobTypeCorrect, PTL DEF JobSpec

-----------------------------------------------------------------------------
\* Whatever a process holds the id of is a row that exists.
JobsInPlay ==
    /\ \A j \in outbox \cup canceller.jobs \cup reaper.jobs : StatusOf(j) # "none"
    /\ \A w \in Workers : worker[w].pc # "idle" => StatusOf(worker[w].job) # "none"

\* No step of the queue makes a row vanish or takes up one that is not there.
LEMMA JobsInPlayStep == JobTypeOK /\ JobsInPlay /\ [JobNext]_jobVars => JobsInPlay'
<1> SUFFICES ASSUME JobTypeOK, JobsInPlay, [JobNext]_jobVars PROVE JobsInPlay'
  OBVIOUS
<1> DEFINE Exist == {j \in Jobs : StatusOf(j) # "none"}
           InUse(v) == worker[v].pc # "idle" => worker[v].job \in Exist
<1>0. /\ outbox \cup canceller.jobs \cup reaper.jobs \subseteq Exist
      /\ \A w \in Workers : InUse(w)
  BY DEF JobTypeOK, JobsInPlay
<1> USE DEF JobTypeOK, StatusOf, SetStatus, SetWorker
<1>1. Exist \subseteq Exist'
  <2>1. ASSUME NEW j \in Jobs, CreateJob(j) \/ EnqueueFails(j) PROVE Exist \subseteq Exist'
    BY <2>1 DEF CreateJob, EnqueueFails
  <2>2. ASSUME NEW w \in Workers, Claim(w) \/ Succeed(w) \/ MarkFailed(w)
        PROVE  Exist \subseteq Exist'
    <3>1. ASSUME NEW j \in Jobs
          PROVE  job'[j].status \in {job[j].status, "running", "succeeded", "failed"}
      <4>1. CASE Claim(w)
        BY <4>1 DEF Claim, Claimed
      <4>2. CASE Succeed(w)
        BY <4>2 DEF Succeed
      <4>3. CASE MarkFailed(w)
        BY <4>3 DEF MarkFailed
      <4> QED
        BY <2>2, <4>1, <4>2, <4>3
    <3> QED
      BY <3>1
  <2>3. CASE CancelCommit \/ ReconcileCommit
    BY <2>3 DEF CancelCommit, ReconcileCommit
  <2>4. CASE UNCHANGED job
    BY <2>4
  <2> QED
    BY <2>1, <2>2, <2>3, <2>4
    DEF JobNext, WorkerStep, CancelStep, Enqueue, EnqueueNever, Duplicate, Deliver,
        DeliverTooEarly, Raise, Crash, CancelSelect, CancelFlush, ReconcileSelect, jobVars
<1>2. outbox' \subseteq Exist'
  <2>1. ASSUME NEW j \in Jobs, CreateJob(j) PROVE outbox' \subseteq Exist'
    BY <1>0, <1>1, <2>1 DEF CreateJob
  <2>2. CASE outbox' \subseteq outbox
    BY <1>0, <1>1, <2>2
  <2> QED
    BY <2>1, <2>2
    DEF JobNext, WorkerStep, CancelStep, Enqueue, EnqueueFails, EnqueueNever, Duplicate,
        Deliver, DeliverTooEarly, Claim, Succeed, Raise, MarkFailed, Crash, CancelSelect,
        CancelFlush, CancelCommit, ReconcileSelect, ReconcileCommit, jobVars
<1>3. canceller'.jobs \subseteq Exist' /\ reaper'.jobs \subseteq Exist'
  <2>1. CASE CancelSelect
    BY <1>0, <1>1, <2>1 DEF CancelSelect
  <2>2. CASE CancelFlush \/ CancelCommit
    BY <1>0, <1>1, <2>2 DEF CancelFlush, CancelCommit, NoCancel
  <2>3. ASSUME NEW S \in SUBSET Jobs, ReconcileSelect(S)
        PROVE  canceller'.jobs \subseteq Exist' /\ reaper'.jobs \subseteq Exist'
    BY <1>0, <1>1, <2>3 DEF ReconcileSelect
  <2>4. CASE ReconcileCommit
    BY <1>0, <1>1, <2>4 DEF ReconcileCommit, NoCancel
  <2>5. CASE UNCHANGED <<canceller, reaper>>
    BY <1>0, <1>1, <2>5
  <2> QED
    BY <2>1, <2>2, <2>3, <2>4, <2>5
    DEF JobNext, WorkerStep, CancelStep, CreateJob, Enqueue, EnqueueFails, EnqueueNever,
        Duplicate, Deliver, DeliverTooEarly, Claim, Succeed, Raise, MarkFailed, Crash, jobVars
<1>4. ASSUME NEW v \in Workers PROVE InUse(v)'
  <2>1. ASSUME NEW w \in Workers, NEW j \in Jobs, Deliver(w, j) PROVE InUse(v)'
    <3>1. CASE Claimable(j)
      <4>1. worker' = [worker EXCEPT ![w] =
                [pc |-> "loaded", job |-> j, attempts |-> job[j].attempts]]
        BY <2>1, <3>1 DEF Deliver
      <4>2. j \in Exist
        BY <3>1 DEF Claimable
      <4> QED
        BY <1>0, <1>1, <4>1, <4>2
    <3>2. CASE ~Claimable(j)
      BY <1>0, <1>1, <2>1, <3>2 DEF Deliver
    <3> QED
      BY <3>1, <3>2
  <2>2. ASSUME NEW w \in Workers, Claim(w) \/ Raise(w) PROVE InUse(v)'
    <3>1. /\ worker[w].pc # "idle"
          /\ \E pc \in {"working", "failing"} : worker' = [worker EXCEPT ![w].pc = pc]
      BY <2>2 DEF Claim, Raise
    <3> HIDE DEF Exist
    <3> QED
      BY <1>0, <1>1, <3>1
  <2>3. ASSUME NEW w \in Workers, Succeed(w) \/ MarkFailed(w) \/ Crash(w) PROVE InUse(v)'
    <3>1. worker' = [worker EXCEPT ![w] = Idle]
      BY <2>3 DEF Succeed, MarkFailed, Crash
    <3> HIDE DEF Exist
    <3> QED
      BY <1>0, <1>1, <3>1 DEF Idle
  <2>4. CASE UNCHANGED worker
    BY <1>0, <1>1, <2>4
  <2> QED
    BY <2>1, <2>2, <2>3, <2>4
    DEF JobNext, WorkerStep, CancelStep, CreateJob, Enqueue, EnqueueFails, EnqueueNever,
        Duplicate, DeliverTooEarly, CancelSelect, CancelFlush, CancelCommit,
        ReconcileSelect, ReconcileCommit, jobVars
<1> QED
  BY <1>2, <1>3, <1>4 DEF JobsInPlay

\* What a process works on, sends, cancels or reconciles is always a row of
\* the table.
THEOREM JobsInPlayExist == JobSpec => []JobsInPlay
<1>1. JobInit => JobsInPlay
  BY DEF JobInit, JobsInPlay, Idle, NoCancel
<1> QED
  BY <1>1, JobsInPlayStep, JobTypeCorrect, PTL DEF JobSpec

-----------------------------------------------------------------------------
(* A row is "queued" once, when it is created: no handler puts it back.    *)

Held(j) == {w \in Workers : worker[w].pc \in {"working", "failing"} /\ worker[w].job = j}

\* How the status of a row can change. Only the creation of a row makes it
\* "queued", and every other row that is "queued" has been.
LEMMA QueuedOnce ==
    ASSUME JobTypeOK, JobsInPlay, [JobNext]_jobVars, NEW j \in Jobs,
           StatusOf(j) # "none" \/ ~CreateJob(j)
    PROVE  (StatusOf(j) = "queued")' => StatusOf(j) = "queued"
<1> USE DEF JobTypeOK, JobsInPlay, StatusOf, SetStatus
<1>1. ASSUME NEW i \in Jobs, CreateJob(i)
      PROVE  (StatusOf(j) = "queued")' => StatusOf(j) = "queued"
  BY <1>1 DEF CreateJob
<1>2. ASSUME NEW i \in Jobs, EnqueueFails(i)
      PROVE  (StatusOf(j) = "queued")' => StatusOf(j) = "queued"
  BY <1>2 DEF EnqueueFails
<1>3. ASSUME NEW w \in Workers, Claim(w)
      PROVE  (StatusOf(j) = "queued")' => StatusOf(j) = "queued"
  BY <1>3 DEF Claim, Claimed
<1>4. ASSUME NEW w \in Workers, Succeed(w)
      PROVE  (StatusOf(j) = "queued")' => StatusOf(j) = "queued"
  BY <1>4 DEF Succeed
<1>5. ASSUME NEW w \in Workers, MarkFailed(w)
      PROVE  (StatusOf(j) = "queued")' => StatusOf(j) = "queued"
  BY <1>5 DEF MarkFailed
<1>6. CASE CancelCommit
  BY <1>6 DEF CancelCommit
<1>7. CASE ReconcileCommit
  BY <1>7 DEF ReconcileCommit
<1>8. CASE UNCHANGED job
  BY <1>8
<1> QED
  BY <1>1, <1>2, <1>3, <1>4, <1>5, <1>6, <1>7, <1>8
  DEF JobNext, WorkerStep, CancelStep, Enqueue, EnqueueNever, Duplicate, Deliver,
      DeliverTooEarly, Raise, Crash, CancelSelect, CancelFlush, ReconcileSelect, jobVars

\* What a worker has claimed or the reconciliation has selected is not "queued",
\* and a job whose claims never overlapped is in one worker's hands at most.
HeldInv ==
    /\ \A w \in Workers : worker[w].pc \in {"working", "failing"} =>
            StatusOf(worker[w].job) # "queued"
    /\ \A j \in reaper.jobs : StatusOf(j) # "queued"
    /\ \A j \in Jobs \ overlap : \A v, w \in Held(j) : v = w /\ begun[j] >= 1

\* HeldInv is preserved: what a worker takes into its hands was loaded, by it
\* alone, before the job was ever begun.
LEMMA HeldInvStep ==
    JobTypeOK /\ JobsInPlay /\ ClaimInv /\ HeldInv /\ [JobNext]_jobVars => HeldInv'
<1> SUFFICES ASSUME JobTypeOK, JobsInPlay, ClaimInv, HeldInv, [JobNext]_jobVars
             PROVE  HeldInv'
  OBVIOUS
<1> USE DEF JobTypeOK
<1>1. \A j \in Jobs : StatusOf(j) \notin {"none", "queued"} => StatusOf(j)' # "queued"
  <2> SUFFICES ASSUME NEW j \in Jobs, StatusOf(j) \notin {"none", "queued"}
               PROVE  (StatusOf(j) # "queued")'
    OBVIOUS
  <2> QED
    BY QueuedOnce
<1>2. ASSUME NEW w \in Workers, (worker[w].pc \in {"working", "failing"})'
      PROVE  (StatusOf(worker[w].job) # "queued")'
  <2>1. CASE Claim(w)
    BY <2>1 DEF Claim, Claimed, SetWorker, StatusOf
  <2>2. CASE worker[w].pc \in {"working", "failing"} /\ worker'[w].job = worker[w].job
    BY <1>1, <2>2 DEF HeldInv, JobsInPlay
  <2>3. ASSUME NEW v \in Workers, Claim(v), v # w
        PROVE  worker'[w] = worker[w]
    BY <2>3 DEF Claim, SetWorker
  <2>4. ASSUME NEW v \in Workers,
               \/ \E j \in Jobs : Deliver(v, j)
               \/ Succeed(v) \/ Raise(v) \/ MarkFailed(v) \/ Crash(v)
        PROVE  worker[w].pc \in {"working", "failing"} /\ worker'[w].job = worker[w].job
    BY <1>2, <2>4 DEF Deliver, Succeed, Raise, MarkFailed, Crash, SetWorker, Idle
  <2>5. CASE UNCHANGED worker
    BY <1>2, <2>2, <2>5
  <2> QED
    BY <1>2, <2>1, <2>2, <2>3, <2>4, <2>5
    DEF JobNext, WorkerStep, CancelStep, CreateJob, Enqueue, EnqueueFails, EnqueueNever,
        Duplicate, DeliverTooEarly, CancelSelect, CancelFlush, CancelCommit,
        ReconcileSelect, ReconcileCommit, jobVars
<1>3. ASSUME NEW j \in Jobs, j \in reaper'.jobs PROVE (StatusOf(j) # "queued")'
  <2>1. CASE j \in reaper.jobs
    BY <1>1, <2>1 DEF HeldInv, JobsInPlay
  <2>2. ASSUME NEW S \in SUBSET Jobs, ReconcileSelect(S) PROVE (StatusOf(j) # "queued")'
    BY <1>3, <2>2 DEF ReconcileSelect, StatusOf
  <2>3. CASE reaper'.jobs \subseteq reaper.jobs
    BY <1>3, <2>1, <2>3
  <2> QED
    BY <1>3, <2>1, <2>2, <2>3
    DEF JobNext, WorkerStep, CancelStep, CreateJob, Enqueue, EnqueueFails, EnqueueNever,
        Duplicate, Deliver, DeliverTooEarly, Claim, Succeed, Raise, MarkFailed, Crash,
        CancelSelect, CancelFlush, CancelCommit, ReconcileCommit, NoCancel, jobVars
<1>4. ASSUME NEW j \in Jobs \ overlap', NEW v \in Held(j)', NEW w \in Held(j)'
      PROVE  v = w /\ begun'[j] >= 1
  <2>0. \A i \in Jobs \ overlap : \A x, y \in Held(i) : x = y /\ begun[i] >= 1
    BY DEF HeldInv
  <2>1. ASSUME NEW u \in Workers, Claim(u) PROVE v = w /\ begun'[j] >= 1
    <3>1. /\ overlap' = overlap
          /\ begun' = [begun EXCEPT ![worker[u].job] = @ + 1]
          /\ worker' = [worker EXCEPT ![u].pc = "working"]
          /\ u \in LoadedBy(worker[u].job)
      BY <2>1 DEF Claim, SetWorker, LoadedBy
    <3>2. CASE worker[u].job = j
      <4>1. begun[j] = 0
        BY <1>4, <3>1, <3>2 DEF ClaimInv
      <4>2. Held(j) = {}
        BY <1>4, <2>0, <3>1, <4>1
      <4>3. Held(j)' = {u}
        BY <3>1, <3>2, <4>2 DEF Held
      <4> QED
        BY <1>4, <3>1, <3>2, <4>1, <4>3
    <3>3. CASE worker[u].job # j
      <4>1. Held(j)' = Held(j) /\ begun'[j] = begun[j]
        BY <3>1, <3>3 DEF Held
      <4> QED
        BY <1>4, <2>0, <3>1, <4>1
    <3> QED
      BY <3>2, <3>3
  <2> DEFINE Kept == Held(j)' \subseteq Held(j) /\ begun'[j] = begun[j] /\ overlap \subseteq overlap'
  <2>2. CASE Kept
    BY <1>4, <2>0, <2>2
  <2>3. ASSUME NEW u \in Workers, NEW i \in Jobs, Deliver(u, i)
        PROVE  Kept
    BY <2>3 DEF Deliver, Held
  <2>4. ASSUME NEW u \in Workers, Succeed(u) \/ Raise(u) \/ MarkFailed(u) \/ Crash(u)
        PROVE  Kept
    <3>1. begun' = begun /\ overlap' = overlap
      BY <2>4 DEF Succeed, Raise, MarkFailed, Crash
    <3>2. CASE Raise(u)
      BY <3>1, <3>2 DEF Raise, SetWorker, Held
    <3>3. CASE worker' = [worker EXCEPT ![u] = Idle]
      BY <3>1, <3>3 DEF Idle, Held
    <3> QED
      BY <2>4, <3>2, <3>3 DEF Succeed, MarkFailed, Crash
  <2>5. CASE UNCHANGED <<worker, begun, overlap>>
    BY <2>2, <2>5 DEF Held
  <2> HIDE DEF Kept
  <2> QED
    BY <2>1, <2>2, <2>3, <2>4, <2>5
    DEF JobNext, WorkerStep, CancelStep, CreateJob, Enqueue, EnqueueFails, EnqueueNever,
        Duplicate, DeliverTooEarly, CancelSelect, CancelFlush, CancelCommit,
        ReconcileSelect, ReconcileCommit, jobVars
<1>5. reaper'.jobs \subseteq Jobs
  BY DEF JobNext, WorkerStep, CancelStep, CreateJob, Enqueue, EnqueueFails, EnqueueNever,
         Duplicate, Deliver, DeliverTooEarly, Claim, Succeed, Raise, MarkFailed, Crash,
         CancelSelect, CancelFlush, CancelCommit, ReconcileSelect, ReconcileCommit,
         NoCancel, jobVars
<1> QED
  BY <1>2, <1>3, <1>4, <1>5 DEF HeldInv

\* A job whose claims never overlapped is in the hands of one worker at most,
\* and a job that has been claimed never goes back into the queue.
THEOREM ClaimedAreHeldOnce == JobSpec => [](ClaimInv /\ HeldInv)
<1>1. JobInit => ClaimInv /\ HeldInv
  BY DEF JobInit, ClaimInv, HeldInv, Held, LoadedBy, StatusOf, Idle, NoCancel
<1> QED
  BY <1>1, ClaimInvStep, HeldInvStep, JobTypeCorrect, JobsInPlayExist, PTL DEF JobSpec
=============================================================================
