------------------------------ MODULE JobQueue ------------------------------
(***************************************************************************)
(* The asynchronous half of ScopeForge: rows of the table `jobs', the      *)
(* Celery messages that carry their ids, and the run() skeleton that the   *)
(* planner, agent, tool, review and memory runners share.                  *)
(*                                                                         *)
(* The database is Postgres under READ COMMITTED, with no row locks on     *)
(* reads and no version column: a handler reads a row, decides, and later  *)
(* overwrites it by primary key.  An action is therefore a read or a       *)
(* committed write, never both, unless nothing can come between them.      *)
(* Rows flushed but not yet committed block every other writer (RowFree).  *)
(***************************************************************************)
EXTENDS Naturals, FiniteSets

CONSTANTS
    Jobs,       \* ids of the job rows that may come to exist
    NoJob,      \* what a worker that runs nothing holds
    Workers,    \* Celery worker processes (one task at a time each)
    MaxCopies,  \* bound: messages for one job waiting in the broker
    Faults      \* which failures may happen, a subset of FaultKinds

FaultKinds == {"crash",      \* a worker dies; its acknowledged message is lost
               "duplicate",  \* the broker delivers a message a second time
               "enqueue",    \* send_task (or the commit after it) raises
               "stale",      \* a job runs longer than job_stale_seconds
               "api_crash",  \* the API dies between commit and send_task
               "skew",       \* the worker's clock is behind the API's
               "runtime",    \* a call to the runtime service or its reply fails
               "upload"}     \* storing the output of a command fails

ASSUME JobQueueAssumption ==
    /\ NoJob \notin Jobs
    /\ MaxCopies \in Nat \ {0}
    /\ Faults \subseteq FaultKinds

Terminal == {"succeeded", "failed", "cancelled"}
JobStatus == {"none", "queued", "running"} \cup Terminal

VARIABLES
    job,        \* [Jobs -> row]: status and attempts of each row of `jobs'
    outbox,     \* jobs committed by a handler that has not called send_task yet
    broker,     \* [Jobs -> Nat]: messages waiting in Redis
    worker,     \* [Workers -> what the process holds in memory]
    canceller,  \* the transaction of stop_session, as far as `jobs' goes
    reaper,     \* the transaction of reconcile_stale
    begun,      \* history: how often the work of a job was begun
    overlap,    \* history: jobs two workers had loaded as queued at once
    orphaned    \* history: jobs whose worker died after the claim

jobVars == <<job, outbox, broker, worker, canceller, reaper,
             begun, overlap, orphaned>>

Idle == [pc |-> "idle", job |-> NoJob, attempts |-> 0]
NoCancel == [pc |-> "idle", jobs |-> {}]

JobInit ==
    /\ job = [j \in Jobs |-> [status |-> "none", attempts |-> 0]]
    /\ outbox = {}
    /\ broker = [j \in Jobs |-> 0]
    /\ worker = [w \in Workers |-> Idle]
    /\ canceller = NoCancel
    /\ reaper = NoCancel
    /\ begun = [j \in Jobs |-> 0]
    /\ overlap = {}
    /\ orphaned = {}

StatusOf(j) == job[j].status

\* No uncommitted UPDATE of stop_session holds the row of j.
RowFree(j) == ~(canceller.pc = "flushed" /\ j \in canceller.jobs)

SetStatusLost(j, s) == UNCHANGED job                              \* mutant
SetStatus(j, s) == job' = [job EXCEPT ![j].status = s]

SetWorker(w, pc) == worker' = [worker EXCEPT ![w].pc = pc]

-----------------------------------------------------------------------------
(* The producing side: create_job commits, send_task follows.              *)

CreateJob(j) ==
    /\ StatusOf(j) = "none"
    /\ job' = [job EXCEPT ![j] = [status |-> "queued", attempts |-> 0]]
    /\ outbox' = outbox \cup {j}
    /\ UNCHANGED <<broker, worker, canceller, reaper, begun, overlap, orphaned>>

Enqueue(j) ==
    /\ j \in outbox
    /\ broker[j] < MaxCopies
    /\ outbox' = outbox \ {j}
    /\ broker' = [broker EXCEPT ![j] = @ + 1]
    /\ UNCHANGED <<job, worker, canceller, reaper, begun, overlap, orphaned>>

\* The except branch after enqueue_*: the row is failed whatever it has become;
\* the message may already be out when it was the commit that raised.
EnqueueFails(j) ==
    /\ "enqueue" \in Faults
    /\ j \in outbox
    /\ RowFree(j)
    /\ outbox' = outbox \ {j}
    /\ SetStatus(j, "failed")
    /\ \/ UNCHANGED broker
       \/ broker[j] < MaxCopies /\ broker' = [broker EXCEPT ![j] = @ + 1]
    /\ UNCHANGED <<worker, canceller, reaper, begun, overlap, orphaned>>

\* The API process ends between the two commits: nothing sends the message.
EnqueueNever(j) ==
    /\ "api_crash" \in Faults
    /\ j \in outbox
    /\ outbox' = outbox \ {j}
    /\ UNCHANGED <<job, broker, worker, canceller, reaper, begun, overlap, orphaned>>

Duplicate(j) ==
    /\ "duplicate" \in Faults
    /\ broker[j] \in 1 .. MaxCopies - 1
    /\ broker' = [broker EXCEPT ![j] = @ + 1]
    /\ UNCHANGED <<job, outbox, worker, canceller, reaper, begun, overlap, orphaned>>

-----------------------------------------------------------------------------
(* The consuming side: run(job_id).                                        *)

LoadedBy(j) == {w \in Workers : worker[w].pc = "loaded" /\ worker[w].job = j}

\* The tests of run() and claim_job: any status but "queued" makes run() return.
ClaimableOnRetry(j) == StatusOf(j) \in {"queued", "running"}     \* mutant
Claimable(j) == StatusOf(j) = "queued"

Deliver(w, j) ==
    /\ worker[w].pc = "idle"
    /\ broker[j] > 0
    /\ broker' = [broker EXCEPT ![j] = @ - 1]
    /\ IF Claimable(j)
         THEN /\ worker' = [worker EXCEPT ![w] =
                    [pc |-> "loaded", job |-> j, attempts |-> job[j].attempts]]
              /\ overlap' = IF LoadedBy(j) # {} THEN overlap \cup {j} ELSE overlap
         ELSE UNCHANGED <<worker, overlap>>
    /\ UNCHANGED <<job, outbox, canceller, reaper, begun, orphaned>>

\* claim_job compares run_after, written by the API's clock, with its own.
DeliverTooEarly(w, j) ==
    /\ "skew" \in Faults
    /\ worker[w].pc = "idle"
    /\ broker[j] > 0
    /\ Claimable(j)
    /\ broker' = [broker EXCEPT ![j] = @ - 1]
    /\ UNCHANGED <<job, outbox, worker, canceller, reaper, begun, overlap, orphaned>>

\* What claim_job writes, from the row it has loaded.
ClaimedUncounted(w) == [status |-> "running", attempts |-> worker[w].attempts]  \* mutant
ClaimedAsStarted(w) == [status |-> "started", attempts |-> worker[w].attempts + 1]  \* mutant
Claimed(w) == [status |-> "running", attempts |-> worker[w].attempts + 1]

\* claim_job's UPDATE: blind, by primary key.
Claim(w) ==
    LET j == worker[w].job IN
    /\ worker[w].pc = "loaded"
    /\ RowFree(j)
    /\ job' = [job EXCEPT ![j] = Claimed(w)]
    /\ SetWorker(w, "working")
    /\ begun' = [begun EXCEPT ![j] = @ + 1]
    /\ UNCHANGED <<outbox, broker, canceller, reaper, overlap, orphaned>>

\* succeed_job and the commit that ends the work.
Succeed(w) ==
    LET j == worker[w].job IN
    /\ worker[w].pc = "working"
    /\ RowFree(j)
    /\ SetStatus(j, "succeeded")
    /\ worker' = [worker EXCEPT ![w] = Idle]
    /\ UNCHANGED <<outbox, broker, canceller, reaper, begun, overlap, orphaned>>

\* The work raises: run() rolls back and goes on to _mark_failed.
Raise(w) ==
    /\ worker[w].pc = "working"
    /\ SetWorker(w, "failing")
    /\ UNCHANGED <<job, outbox, broker, canceller, reaper, begun, overlap, orphaned>>

MarkFailed(w) ==
    LET j == worker[w].job IN
    /\ worker[w].pc = "failing"
    /\ RowFree(j)
    /\ SetStatus(j, "failed")
    /\ worker' = [worker EXCEPT ![w] = Idle]
    /\ UNCHANGED <<outbox, broker, canceller, reaper, begun, overlap, orphaned>>

\* Celery acknowledges before it runs the task, so the message does not return.
Crash(w) ==
    /\ "crash" \in Faults
    /\ worker[w].pc # "idle"
    /\ worker' = [worker EXCEPT ![w] = Idle]
    /\ orphaned' = IF worker[w].pc = "loaded" THEN orphaned
                                               ELSE orphaned \cup {worker[w].job}
    /\ UNCHANGED <<job, outbox, broker, canceller, reaper, begun, overlap>>

-----------------------------------------------------------------------------
(* The two handlers that write rows they do not own.                       *)

CancelSelect ==
    /\ canceller.pc = "idle"
    /\ canceller' = [pc |-> "selected", jobs |-> {j \in Jobs : StatusOf(j) = "queued"}]
    /\ UNCHANGED <<job, outbox, broker, worker, reaper, begun, overlap, orphaned>>

CancelFlush ==
    /\ canceller.pc = "selected"
    /\ canceller' = [canceller EXCEPT !.pc = "flushed"]
    /\ UNCHANGED <<job, outbox, broker, worker, reaper, begun, overlap, orphaned>>

CancelCommit ==
    /\ canceller.pc = "flushed"
    /\ job' = [j \in Jobs |-> IF j \in canceller.jobs
                                THEN [job[j] EXCEPT !.status = "cancelled"]
                                ELSE job[j]]
    /\ canceller' = NoCancel
    /\ UNCHANGED <<outbox, broker, worker, reaper, begun, overlap, orphaned>>

\* list_stale_running_jobs: any running row may be older than the threshold.
ReconcileSelect(S) ==
    /\ "stale" \in Faults
    /\ reaper.pc = "idle"
    /\ S # {}
    /\ \A j \in S : StatusOf(j) = "running"
    /\ reaper' = [pc |-> "selected", jobs |-> S]
    /\ UNCHANGED <<job, outbox, broker, worker, canceller, begun, overlap, orphaned>>

ReconcileCommit ==
    /\ reaper.pc = "selected"
    /\ \A j \in reaper.jobs : RowFree(j)
    /\ job' = [j \in Jobs |-> IF j \in reaper.jobs
                                THEN [job[j] EXCEPT !.status = "failed"]
                                ELSE job[j]]
    /\ reaper' = NoCancel
    /\ UNCHANGED <<outbox, broker, worker, canceller, begun, overlap, orphaned>>

-----------------------------------------------------------------------------
WorkerStep(w) ==
    \/ \E j \in Jobs : Deliver(w, j)
    \/ Claim(w)
    \/ Succeed(w)
    \/ Raise(w)
    \/ MarkFailed(w)

CancelStep == CancelFlush \/ CancelCommit

JobNext ==
    \/ \E j \in Jobs : CreateJob(j) \/ Enqueue(j) \/ EnqueueFails(j)
                         \/ EnqueueNever(j) \/ Duplicate(j)
    \/ \E w \in Workers : \/ WorkerStep(w)
                          \/ Crash(w)
                          \/ \E j \in Jobs : DeliverTooEarly(w, j)
    \/ CancelSelect
    \/ CancelStep
    \/ \E S \in SUBSET Jobs : ReconcileSelect(S)
    \/ ReconcileCommit

JobSpec == JobInit /\ [][JobNext]_jobVars

-----------------------------------------------------------------------------
(* What the jobs promise.                                                  *)

JobTypeOK ==
    /\ job \in [Jobs -> [status : JobStatus, attempts : Nat]]
    /\ outbox \subseteq Jobs
    /\ broker \in [Jobs -> 0 .. MaxCopies]
    /\ worker \in [Workers -> [pc : {"idle", "loaded", "working", "failing"},
                               job : Jobs \cup {NoJob}, attempts : Nat]]
    /\ \A w \in Workers : worker[w].pc # "idle" => worker[w].job \in Jobs
    /\ canceller \in [pc : {"idle", "selected", "flushed"}, jobs : SUBSET Jobs]
    /\ reaper \in [pc : {"idle", "selected"}, jobs : SUBSET Jobs]
    /\ begun \in [Jobs -> Nat]
    /\ overlap \subseteq Jobs
    /\ orphaned \subseteq Jobs

\* A second delivery is harmless unless its claim overlaps the first one:
\* claim_job turns away every message that is read after a claim committed,
\* whatever stop, reconcile and crashes did in between.
RunsOnceUnlessClaimsOverlap ==
    \A j \in Jobs \ overlap : begun[j] <= 1

\* The column `attempts' tells how often the work was begun, except that two
\* overlapping claims are counted once (each adds one to the value it loaded).
AttemptsCountRuns ==
    \A j \in Jobs \ overlap : job[j].attempts = begun[j]

\* A row left "running" that no worker is working on is the trace of a crash;
\* those are the rows reconcile_stale is for.
RunningHasWorker ==
    \A j \in Jobs : StatusOf(j) = "running" =>
        \/ j \in orphaned
        \/ \E w \in Workers : worker[w].job = j /\ worker[w].pc \in {"working", "failing"}

\* Without failures of the processes, a queued job is settled: it succeeds,
\* fails or is cancelled, and stays settled.
JobSettles ==
    \A j \in Jobs : StatusOf(j) = "queued" ~> [](StatusOf(j) \in Terminal)

=============================================================================
