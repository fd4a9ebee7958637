------------------------ MODULE SessionEngine_proofs ------------------------
(***************************************************************************)
(* Proofs about SessionEngine, for any numbers of clients, workers, jobs,  *)
(* tool calls, steps and runtimes, any operations and any failures.        *)
(***************************************************************************)
EXTENDS SessionEngine, JobQueue_proofs, WellFoundedInduction

\* Every step of the engine is a step of the job queue or leaves it alone: the
\* handlers and runners touch job rows, messages and workers in no other way.
LEMMA EngineStepIsJobStep == [Next]_engineVars => [JobNext]_jobVars
<1> SUFFICES ASSUME [Next]_engineVars PROVE [JobNext]_jobVars
  OBVIOUS
<1>1. ASSUME NEW c \in Clients, UserStep(c) PROVE [JobNext]_jobVars
  BY <1>1 DEF UserStep, AskResolve, AskStep, AskSimple, AskStop, AskStartRuntime,
              AskStopRuntime, JobNext
<1>2. ASSUME NEW c \in Clients, ApprovalStep(c) PROVE [JobNext]_jobVars
  BY <1>2 DEF ApprovalStep, Approve, Deny, JobNext
<1>3. ASSUME NEW c \in Clients, HandlerStep(c) PROVE [JobNext]_jobVars
  BY <1>3 DEF HandlerStep, Transition, Start, RunAgent, RunCommand, StopFlush, StopCall,
              StopCallFails, StopCommit, StartRuntime, StopRuntimeCall,
              StopRuntimeCommit, JobNext, CancelStep
<1>4. ASSUME NEW j \in Jobs, ApiEnqueue(j) \/ ApiEnqueueFails(j) \/ Broker(j)
      PROVE  [JobNext]_jobVars
  BY <1>4 DEF ApiEnqueue, ApiEnqueueFails, Broker, JobNext
<1>5. ASSUME NEW w \in Workers, Receive(w) \/ Begin(w) \/ WorkerCrash(w)
      PROVE  [JobNext]_jobVars
  BY <1>5 DEF Receive, Begin, WorkerCrash, JobNext, WorkerStep
<1>6. ASSUME NEW w \in Workers, PlanStep(w) PROVE [JobNext]_jobVars
  BY <1>6 DEF PlanStep, PlanRead, PlanCommit, PlanRaises, PlanMarkFailed,
              JobNext, WorkerStep
<1>7. ASSUME NEW w \in Workers, AgentStep(w) PROVE [JobNext]_jobVars
  BY <1>7 DEF AgentStep, AgentRead, AgentPick, AgentStartStep, AgentNoStep,
              AgentFileCall, AgentEnd, AgentCompleteStep, AgentRequestApproval,
              AgentQueueTerminal, AgentSend, AgentClose, AgentRaises, AgentMarkFailed,
              JobNext, WorkerStep
<1>8. ASSUME NEW w \in Workers, ExecStep(w) PROVE [JobNext]_jobVars
  BY <1>8 DEF ExecStep, ExecSkip, ExecRead, ExecCreateRuntime, ExecLaunched,
              ExecMarkRunning, ExecBegin, ExecReply, ExecFlush, ExecCommit, ExecRaises,
              ExecFailWaits, ExecMarkFailed, JobNext, WorkerStep
<1>9. ASSUME NEW r \in Runtimes, LaunchStep(r) PROVE [JobNext]_jobVars
  BY <1>9 DEF LaunchStep, LaunchCall, LaunchRecord, OnlyRuntime
<1>10. ASSUME NEW S \in SUBSET Jobs, Stale(S) PROVE [JobNext]_jobVars
  BY <1>10 DEF Stale, JobNext
<1>11. CASE ReconcileStale
  BY <1>11 DEF ReconcileStale, JobNext
<1>12. CASE UNCHANGED engineVars
  BY <1>12 DEF engineVars
<1> QED
  BY <1>1, <1>2, <1>3, <1>4, <1>5, <1>6, <1>7, <1>8, <1>9, <1>10, <1>11, <1>12
  DEF Next, Resolve, RunnerStep

\* The engine implements the job queue, whether the session starts as a draft
\* or already planned, so what JobQueue promises holds of every job in it.
THEOREM EngineImplementsJobQueue ==
    /\ Spec => JobSpec
    /\ PlannedSpec => JobSpec
<1>1. Spec => JobSpec
  BY EngineStepIsJobStep, PTL DEF Spec, Init, JobSpec
<1>2. PlannedSpec => JobSpec
  BY EngineStepIsJobStep, PTL DEF PlannedSpec, JobSpec
<1> QED
  BY <1>1, <1>2

\* In the engine as in the queue alone, a planning, agent or execution job is
\* run once and counted once unless two of its claims overlapped, and a job
\* left "running" is the trace of a crash.
THEOREM EngineJobsAreSafe ==
    /\ Spec => [](RunsOnceUnlessClaimsOverlap /\ AttemptsCountRuns /\ RunningHasWorker)
    /\ PlannedSpec => [](RunsOnceUnlessClaimsOverlap /\ AttemptsCountRuns /\ RunningHasWorker)
  BY EngineImplementsJobQueue, ClaimsExclude, RunningIsOwned, PTL

-----------------------------------------------------------------------------
(* Type correctness.  Besides its types the invariant says which runner a  *)
(* worker is in: without it nothing is known of the call an executor has   *)
(* taken up.                                                               *)

ExecPcs == {"execute", "launch", "launching", "ready", "marked", "executing",
            "answered", "finishing", "waiting"}
WorkPcs == {"none", "plan", "planning", "agent", "turn", "picked", "asking", "sending",
            "closing"} \cup ExecPcs
Outcomes == {"succeeded", "failed", "timed_out"}

SessionOK ==
    /\ session \in SessionStatus
    /\ planned \in 0 .. MaxPlans
    /\ step \in [Steps -> StepStatus]
    /\ done \subseteq TasksOf(MaxPlans)

CallsOK ==
    /\ tool \in [Tools -> [status : CallStatus, step : {0} \cup Steps, command : BOOLEAN]]
    /\ approval \in [Tools -> ApprovalStatus]
    /\ evidence \in [Tools -> Nat]
    /\ runs \in [Tools -> Nat]

RuntimeOK ==
    runtime \in [Runtimes ->
        [row : RowStatus, box : {"none", "running", "exited"},
         launch : {"none", "calling", "up", "error", "done", "failed", "dead"}]]

TaskOK ==
    /\ task \in [Jobs -> [type : {"none", "plan", "agent", "execute"},
                          tool : Tools \cup {NoTool},
                          by : {"none", "api", "approval", "agent"}]]
    /\ \A j \in Jobs : /\ (StatusOf(j) = "none") <=> (task[j].type = "none")
                       /\ (task[j].type = "execute") <=> (task[j].tool \in Tools)

Request == [op : Ops \cup {"none"},
            pc : {"none", "selected", "flushed", "calling", "called"},
            seen : SessionStatus \cup RowStatus, tool : Tools \cup {NoTool},
            tools : SUBSET Tools, runtime : {0} \cup Runtimes]

ReqOK ==
    /\ req \in [Clients -> Request]
    /\ asked \in 0 .. MaxRequests
    /\ \A c \in Clients : req[c].op \in {"approve", "deny"} => req[c].tool \in Tools

Work == [pc : WorkPcs, step : {0} \cup Steps, held : SUBSET Steps, turns : Nat,
         sawTasks : BOOLEAN, tool : Tools \cup {NoTool}, runtime : {0} \cup Runtimes,
         saw : CallStatus, outcome : {"none"} \cup Outcomes, sawEvidence : BOOLEAN]

WorkOK == work \in [Workers -> Work]

\* The runner a worker is in is that of the job it holds.
WorkMatches ==
    \A w \in Workers :
        /\ worker[w].pc \in {"idle", "loaded"} => work[w].pc = "none"
        /\ worker[w].pc = "failing" => work[w].pc \in {"none", "waiting"}
        /\ work[w].pc \in ExecPcs => task[worker[w].job].type = "execute"
        /\ work[w].pc \in {"answered", "finishing"} => work[w].outcome \in Outcomes
        /\ work[w].pc = "picked" => work[w].step \in Steps

DomainOK == /\ SessionOK /\ CallsOK /\ RuntimeOK /\ TaskOK
            /\ ReqOK /\ WorkOK /\ WorkMatches

TypeInv == JobTypeOK /\ JobsInPlay /\ DomainOK

\* The steps of the queue other than the creation of a row.
OldRowStep ==
    \/ \E j \in Jobs : Enqueue(j) \/ EnqueueFails(j) \/ EnqueueNever(j) \/ Duplicate(j)
    \/ \E w \in Workers : \/ WorkerStep(w) \/ Crash(w)
                          \/ \E j \in Jobs : DeliverTooEarly(w, j)
    \/ CancelSelect \/ CancelFlush \/ CancelCommit
    \/ \E S \in SUBSET Jobs : ReconcileSelect(S)
    \/ ReconcileCommit

\* Only CreateJob makes rows, and nothing removes one.
LEMMA RowsStay ==
    ASSUME JobTypeOK, JobsInPlay, [OldRowStep]_jobVars
    PROVE  \A j \in Jobs : (StatusOf(j) = "none")' <=> StatusOf(j) = "none"
<1> DEFINE Stay == \A j \in Jobs : (StatusOf(j) = "none")' <=> StatusOf(j) = "none"
<1> USE DEF JobTypeOK, JobsInPlay, StatusOf, SetStatus
<1>1. ASSUME NEW i \in Jobs, EnqueueFails(i) PROVE Stay
  BY <1>1 DEF EnqueueFails
<1>2. ASSUME NEW w \in Workers, Claim(w) PROVE Stay
  BY <1>2 DEF Claim, Claimed
<1>3. ASSUME NEW w \in Workers, Succeed(w) PROVE Stay
  BY <1>3 DEF Succeed
<1>4. ASSUME NEW w \in Workers, MarkFailed(w) PROVE Stay
  BY <1>4 DEF MarkFailed
<1>5. CASE CancelCommit
  BY <1>5 DEF CancelCommit
<1>6. CASE ReconcileCommit
  BY <1>6 DEF ReconcileCommit
<1>7. CASE UNCHANGED job
  BY <1>7
<1> QED
  BY <1>1, <1>2, <1>3, <1>4, <1>5, <1>6, <1>7
  DEF OldRowStep, WorkerStep, Enqueue, EnqueueNever, Duplicate, Deliver, DeliverTooEarly,
      Raise, Crash, CancelSelect, CancelFlush, ReconcileSelect, jobVars

\* A handler that creates no job leaves every job of the type it has.
LEMMA TaskStays ==
    ASSUME TypeInv, [OldRowStep]_jobVars, UNCHANGED task
    PROVE  TaskOK'
  BY RowsStay DEF TypeInv, DomainOK, TaskOK

\* Creating a job gives a type to a row that had none, and to no row in use.
LEMMA TaskAdded ==
    ASSUME TypeInv, NEW j \in Jobs, CreateJob(j),
           NEW type \in {"plan", "agent", "execute"}, NEW t \in Tools \cup {NoTool},
           NEW by \in {"api", "approval", "agent"},
           (type = "execute") <=> (t \in Tools),
           Payload(j, type, t, by)
    PROVE  /\ TaskOK'
           /\ UNCHANGED worker
           /\ \A w \in Workers : worker[w].pc # "idle" =>
                 task'[worker[w].job] = task[worker[w].job]
<1>1. /\ TaskOK /\ JobTypeOK /\ JobsInPlay
      /\ job' = [job EXCEPT ![j] = [status |-> "queued", attempts |-> 0]]
      /\ task' = [task EXCEPT ![j] = [type |-> type, tool |-> t, by |-> by]]
      /\ StatusOf(j) = "none"
      /\ UNCHANGED worker
  BY DEF TypeInv, DomainOK, CreateJob, Payload
<1>2. task' \in [Jobs -> [type : {"none", "plan", "agent", "execute"},
                          tool : Tools \cup {NoTool},
                          by : {"none", "api", "approval", "agent"}]]
  BY <1>1 DEF TaskOK
<1>3. ASSUME NEW i \in Jobs
      PROVE  /\ (StatusOf(i) = "none")' <=> (task'[i].type = "none")
             /\ (task'[i].type = "execute") <=> (task'[i].tool \in Tools)
  <2>1. CASE i = j
    BY <1>1, <2>1 DEF TaskOK, JobTypeOK, StatusOf
  <2>2. CASE i # j
    BY <1>1, <2>2 DEF TaskOK, JobTypeOK, StatusOf
  <2> QED
    BY <2>1, <2>2
<1>4. ASSUME NEW w \in Workers, worker[w].pc # "idle" PROVE worker[w].job # j
  BY <1>1, <1>4 DEF JobsInPlay
<1>5. \A w \in Workers : worker[w].pc # "idle" =>
          task'[worker[w].job] = task[worker[w].job]
  BY <1>1, <1>4 DEF JobTypeOK, TaskOK
<1> QED
  BY <1>1, <1>2, <1>3, <1>5 DEF TaskOK

\* A nonempty set of natural numbers has a least element.
LEMMA HasLeast ==
    ASSUME NEW S \in SUBSET Nat, S # {}
    PROVE  \E s \in S : \A q \in S : s <= q
<1>1. PICK s \in S : \A q \in S : ~(<<q, s>> \in OpToRel(<, Nat))
  BY NatLessThanWellFounded, WFMin
<1>2. \A q \in S : <<q, s>> \in Nat \X Nat
  OBVIOUS
<1>3. \A q \in S : ~(q < s)
  BY <1>1, <1>2 DEF OpToRel
<1> QED
  BY <1>3

\* A nonempty set of natural numbers with a bound has a largest element: the
\* least of its bounds.
LEMMA HasLargest ==
    ASSUME NEW n \in Nat, NEW S \in SUBSET (0 .. n), S # {}
    PROVE  \E s \in S : \A q \in S : q <= s
<1> DEFINE T == {m \in Nat : \A s \in S : s <= m}
<1>1. PICK t \in T : \A q \in T : t <= q
  <2>1. T \in SUBSET Nat /\ n \in T
    OBVIOUS
  <2> HIDE DEF T
  <2> QED
    BY <2>1, HasLeast
<1>2. t \in S
  <2>1. CASE t = 0
    <3>1. PICK s \in S : TRUE
      OBVIOUS
    <3>2. s <= 0 /\ s \in 0 .. n
      BY <1>1, <2>1, <3>1
    <3> QED
      BY <2>1, <3>1, <3>2
  <2>2. CASE t # 0 /\ t \notin S
    <3>1. t - 1 \in Nat /\ t \in Nat /\ S \subseteq Int
      BY <1>1, <2>2
    <3>2. \A s \in S : s # t /\ s <= t
      BY <1>1, <2>2
    <3>3. t - 1 \in T
      BY <3>1, <3>2
    <3> QED
      BY <1>1, <3>1, <3>3
  <2> QED
    BY <2>1, <2>2
<1> QED
  BY <1>1, <1>2

\* The latest of a set of runtimes is one of them, or 0 when there is none.
LEMMA LatestIsRuntime ==
    ASSUME NEW S \in SUBSET Runtimes
    PROVE  Latest(S) \in {0} \cup Runtimes
<1>1. CASE S = {}
  BY <1>1 DEF Latest
<1>2. CASE S # {}
  <2>1. S \in SUBSET (0 .. MaxRuntimes) /\ MaxRuntimes \in Nat
    BY EngineAssumption DEF Runtimes
  <2>2. \E r \in S : \A q \in S : q <= r
    BY <1>2, <2>1, HasLargest
  <2>3. Latest(S) \in S
    BY <1>2, <2>2 DEF Latest
  <2> QED
    BY <2>3
<1> QED
  BY <1>1, <1>2

\* The step an agent takes up is one of the plan's.
LEMMA NextStepIsStep ==
    ASSUME NEW w \in Workers, OpenSteps(w) # {}, WorkOK
    PROVE  NextStep(w) \in Steps
<1>1. OpenSteps(w) \in SUBSET Steps
  BY DEF OpenSteps, WorkOK, Work
<1>2. Steps \subseteq Nat
  BY DEF Steps
<1>3. \E s \in OpenSteps(w) : \A q \in OpenSteps(w) : s <= q
  BY <1>1, <1>2, HasLeast
<1> QED
  BY <1>1, <1>3 DEF NextStep

\* What a step leaves alone keeps its type.
LEMMA Frame ==
    ASSUME TypeInv
    PROVE  /\ UNCHANGED <<session, planVars>> => SessionOK'
           /\ UNCHANGED callVars => CallsOK'
           /\ UNCHANGED runtime => RuntimeOK'
           /\ UNCHANGED apiVars => ReqOK'
           /\ UNCHANGED work => WorkOK'
           /\ UNCHANGED <<work, worker, task>> => WorkMatches'
           /\ UNCHANGED task /\ [OldRowStep]_jobVars => TaskOK'
<1>1. SessionOK /\ CallsOK /\ RuntimeOK /\ ReqOK /\ WorkOK /\ WorkMatches
  BY DEF TypeInv, DomainOK
<1>2. UNCHANGED <<session, planVars>> => SessionOK'
  BY <1>1 DEF SessionOK, planVars
<1>3. UNCHANGED callVars => CallsOK'
  BY <1>1 DEF CallsOK, callVars
<1>4. UNCHANGED runtime => RuntimeOK'
  BY <1>1 DEF RuntimeOK
<1>5. UNCHANGED apiVars => ReqOK'
  BY <1>1 DEF ReqOK, apiVars
<1>6. UNCHANGED work => WorkOK'
  BY <1>1 DEF WorkOK
<1>7. UNCHANGED <<work, worker, task>> => WorkMatches'
  BY <1>1 DEF WorkMatches
<1>8. UNCHANGED task /\ [OldRowStep]_jobVars => TaskOK'
  BY TaskStays
<1> QED
  BY <1>2, <1>3, <1>4, <1>5, <1>6, <1>7, <1>8

\* A runner that ends, one way or the other, leaves its worker without work.
LEMMA WorkEnds ==
    ASSUME TypeInv, NEW w \in Workers, EndWork(w), UNCHANGED task,
           Succeed(w) \/ Raise(w) \/ MarkFailed(w) \/ Crash(w)
    PROVE  TaskOK' /\ WorkOK' /\ WorkMatches'
<1>1. JobTypeOK /\ WorkOK /\ WorkMatches
  BY DEF TypeInv, DomainOK
<1>2. [OldRowStep]_jobVars
  BY DEF OldRowStep, WorkerStep
<1>3. TaskOK'
  BY <1>2, TaskStays
<1>4. NoWork \in Work
  BY DEF NoWork, Work, WorkPcs, CallStatus
<1>5. work' = [work EXCEPT ![w] = NoWork]
  BY DEF EndWork
<1>6. WorkOK'
  BY <1>1, <1>4, <1>5 DEF WorkOK
<1>7. \A v \in Workers \ {w} : worker'[v] = worker[v]
  BY <1>1 DEF JobTypeOK, Succeed, Raise, SetWorker, MarkFailed, Crash
<1>8. \A v \in Workers \ {w} : work'[v] = work[v]
  BY <1>1, <1>5 DEF WorkOK
<1>9. work'[w].pc = "none"
  BY <1>1, <1>5 DEF WorkOK, NoWork
<1>10. WorkMatches'
  BY <1>1, <1>7, <1>8, <1>9 DEF WorkMatches, ExecPcs
<1> QED
  BY <1>3, <1>6, <1>10

\* A runner goes on: its locals change, and neither its worker nor its job does.
LEMMA WorkGoesOn ==
    ASSUME TypeInv, NEW w \in Workers, NEW r \in Work, work' = [work EXCEPT ![w] = r],
           UNCHANGED <<worker, task>>,
           work[w].pc \notin {"none", "waiting"}, r.pc # "waiting",
           r.pc \in ExecPcs => work[w].pc \in ExecPcs,
           r.pc \in {"answered", "finishing"} => r.outcome \in Outcomes,
           r.pc = "picked" => r.step \in Steps
    PROVE  WorkOK' /\ WorkMatches'
<1>1. JobTypeOK /\ WorkOK /\ WorkMatches
  BY DEF TypeInv, DomainOK
<1>2. \A v \in Workers \ {w} : work'[v] = work[v]
  BY <1>1 DEF WorkOK
<1>3. work'[w] = r
  BY <1>1 DEF WorkOK
<1>4. worker[w].pc = "working"
  BY <1>1 DEF WorkMatches, JobTypeOK
<1>5. WorkOK'
  BY <1>1 DEF WorkOK
<1>6. WorkMatches'
  BY <1>1, <1>2, <1>3, <1>4 DEF WorkMatches
<1> QED
  BY <1>5, <1>6

\* The _mark_failed of a runner that is no executor finds no work to end.
LEMMA FailEnds ==
    ASSUME TypeInv, NEW w \in Workers, MarkFailed(w), UNCHANGED <<work, task>>,
           task[worker[w].job].type # "execute"
    PROVE  WorkMatches'
<1>1. JobTypeOK /\ WorkMatches
  BY DEF TypeInv, DomainOK
<1>2. \A v \in Workers \ {w} : worker'[v] = worker[v]
  BY <1>1 DEF JobTypeOK, MarkFailed
<1>3. work[w].pc = "none"
  BY <1>1 DEF WorkMatches, MarkFailed, ExecPcs
<1> QED
  BY <1>1, <1>2, <1>3 DEF WorkMatches, ExecPcs

-----------------------------------------------------------------------------
\* The planner keeps the types.
LEMMA PlanTypes ==
    ASSUME TypeInv, NEW w \in Workers, PlanStep(w)
    PROVE  DomainOK'
<1>0. JobTypeOK /\ SessionOK /\ WorkOK
  BY DEF TypeInv, DomainOK
<1>1. CASE PlanRead(w)
  <2>1. /\ UNCHANGED <<jobVars, session, planVars, callVars, runtime, task, apiVars>>
        /\ work[w].pc = "plan"
    BY <1>1 DEF PlanRead, PlanUnchanged, planVars
  <2>2. PICK b \in BOOLEAN : work' = [work EXCEPT ![w].pc = "planning", ![w].sawTasks = b]
    <3>1. (planned > 0) \in BOOLEAN
      OBVIOUS
    <3> QED
      BY <1>1, <3>1 DEF PlanRead
  <2> DEFINE r == [work[w] EXCEPT !.pc = "planning", !.sawTasks = b]
  <2>3. work' = [work EXCEPT ![w] = r] /\ r.pc = "planning" /\ r \in Work
    BY <1>0, <2>2 DEF WorkOK, Work, WorkPcs
  <2>4. WorkOK' /\ WorkMatches'
    <3> HIDE DEF r
    <3> QED
      BY <2>1, <2>3, WorkGoesOn DEF ExecPcs, jobVars
  <2> QED
    BY <2>1, <2>4, Frame DEF DomainOK
<1>2. CASE PlanCommit(w)
  <2>1. UNCHANGED <<done, callVars, runtime, task, apiVars>>
    BY <1>2 DEF PlanCommit, PlanUnchanged
  <2>2. SessionOK'
    <3>1. session' = "running" /\ done' = done
      BY <1>2, <2>1 DEF PlanCommit
    <3>2. planned' \in 0 .. MaxPlans /\ step' \in [Steps -> StepStatus]
      BY <1>0, <1>2, EngineAssumption DEF PlanCommit, SessionOK, StepStatus
    <3> QED
      BY <1>0, <3>1, <3>2 DEF SessionOK, SessionStatus
  <2>3. TaskOK' /\ WorkOK' /\ WorkMatches'
    BY <1>2, <2>1, WorkEnds DEF PlanCommit
  <2> QED
    BY <2>1, <2>2, <2>3, Frame DEF DomainOK
<1>3. CASE PlanRaises(w)
  <2>1. UNCHANGED <<session, planVars, callVars, runtime, task, apiVars>>
    BY <1>3 DEF PlanRaises, PlanUnchanged, planVars
  <2>2. TaskOK' /\ WorkOK' /\ WorkMatches'
    BY <1>3, <2>1, WorkEnds DEF PlanRaises
  <2> QED
    BY <2>1, <2>2, Frame DEF DomainOK
<1>4. CASE PlanMarkFailed(w)
  <2>1. UNCHANGED <<planVars, callVars, runtime, task, apiVars>> /\ UNCHANGED work
    BY <1>4 DEF PlanMarkFailed, PlanUnchanged, planVars
  <2>2. SessionOK'
    BY <1>0, <1>4, <2>1 DEF PlanMarkFailed, FailPlanning, SessionOK, SessionStatus, planVars
  <2>3. TaskOK' /\ WorkOK'
    BY <1>4, <2>1, Frame DEF PlanMarkFailed, OldRowStep, WorkerStep
  <2>4. WorkMatches'
    BY <1>4, <2>1, FailEnds DEF PlanMarkFailed
  <2> QED
    BY <2>1, <2>2, <2>3, <2>4, Frame DEF DomainOK
<1> QED
  BY <1>1, <1>2, <1>3, <1>4 DEF PlanStep

\* The reconciliation of stale jobs keeps the types.
LEMMA ReconcileTypes ==
    ASSUME TypeInv, ReconcileStale
    PROVE  DomainOK'
<1>1. /\ UNCHANGED <<planVars, callVars, runtime, task, apiVars>>
      /\ UNCHANGED <<work, worker>>
  BY DEF ReconcileStale, ReconcileCommit, PlanUnchanged, planVars
<1>2. SessionOK'
  BY <1>1 DEF TypeInv, DomainOK, ReconcileStale, FailPlanning, SessionOK, SessionStatus,
              planVars
<1>3. TaskOK'
  BY <1>1, Frame DEF ReconcileStale, OldRowStep
<1> QED
  BY <1>1, <1>2, <1>3, Frame DEF DomainOK

-----------------------------------------------------------------------------
\* The steps as an agent's commit leaves them are steps.
LEMMA FlushedIsSteps ==
    ASSUME TypeInv, NEW w \in Workers
    PROVE  Flushed(w) \in [Steps -> StepStatus]
  BY DEF TypeInv, DomainOK, SessionOK, StepStatus, Flushed

\* Completing what is complete keeps the session well typed.
LEMMA CompletionTypes ==
    ASSUME TypeInv, NEW steps \in [Steps -> StepStatus], CompleteIfReady(steps),
           UNCHANGED planned
    PROVE  /\ session' \in SessionStatus
           /\ planned' \in 0 .. MaxPlans
           /\ done' \subseteq TasksOf(MaxPlans)
<1>1. SessionOK
  BY DEF TypeInv, DomainOK
<1>2. TasksOf(planned) \subseteq TasksOf(MaxPlans)
  BY <1>1, EngineAssumption DEF SessionOK, TasksOf
<1>3. done' \subseteq done \cup TasksOf(planned)
  BY DEF CompleteIfReady
<1>4. session' \in {session, "completed"}
  BY DEF CompleteIfReady
<1> QED
  BY <1>1, <1>2, <1>3, <1>4 DEF SessionOK, SessionStatus

\* A step of an agent between its commits keeps the types.
LEMMA AgentGoesOn ==
    ASSUME TypeInv, NEW w \in Workers,
           \/ AgentRead(w) \/ AgentPick(w) \/ AgentStartStep(w) \/ AgentFileCall(w)
    PROVE  DomainOK'
<1>0. JobTypeOK /\ SessionOK /\ WorkOK /\ WorkMatches
  BY DEF TypeInv, DomainOK
<1>1. UNCHANGED <<jobVars, session, planVars, callVars, runtime, task, apiVars>>
  BY DEF AgentRead, AgentPick, AgentStartStep, AgentFileCall, AgentUnchanged,
         CallsUnchanged, planVars, callVars
<1>2. PICK r \in Work : /\ work' = [work EXCEPT ![w] = r]
                           /\ r.pc \in {"turn", "asking", "picked"}
                           /\ (r.pc = "picked" => r.step \in Steps)
  <2>1. CASE AgentRead(w) \/ AgentFileCall(w)
    <3> DEFINE r == [work[w] EXCEPT !.pc = "turn"]
    <3>1. work' = [work EXCEPT ![w] = r]
      BY <2>1 DEF AgentRead, AgentFileCall, SetWork
    <3>2. r \in Work /\ r.pc = "turn"
      BY <1>0 DEF WorkOK, Work, WorkPcs
    <3> QED
      BY <3>1, <3>2
  <2>2. CASE AgentPick(w)
    <3>1. PICK s \in Steps : s = NextStep(w)
      BY <1>0, <2>2, NextStepIsStep DEF AgentPick
    <3>2. PICK pc \in {"asking", "picked"} :
             work' = [work EXCEPT ![w].pc = pc, ![w].step = s, ![w].turns = @ + 1]
      BY <2>2, <3>1 DEF AgentPick
    <3> DEFINE r == [work[w] EXCEPT !.pc = pc, !.step = s, !.turns = @ + 1]
    <3>3. work' = [work EXCEPT ![w] = r]
      BY <1>0, <3>2 DEF WorkOK
    <3>4. r \in Work /\ r.pc = pc /\ r.step = s
      <4>1. work[w] \in Work /\ work[w].turns + 1 \in Nat
        BY <1>0 DEF WorkOK, Work
      <4>2. pc \in WorkPcs
        BY DEF WorkPcs
      <4> QED
        BY <3>1, <4>1, <4>2 DEF Work
    <3> QED
      BY <3>1, <3>3, <3>4
  <2>3. CASE AgentStartStep(w)
    <3> DEFINE r == [work[w] EXCEPT !.pc = "asking", !.held = @ \cup {work[w].step}]
    <3>1. work' = [work EXCEPT ![w] = r]
      BY <1>0, <2>3 DEF AgentStartStep, WorkOK
    <3>2. work[w] \in Work /\ work[w].step \in Steps
      BY <1>0, <2>3 DEF WorkOK, WorkMatches, AgentStartStep
    <3>3. r \in Work /\ r.pc = "asking"
      BY <3>2 DEF Work, WorkPcs
    <3> QED
      BY <3>1, <3>3
  <2> QED
    BY <2>1, <2>2, <2>3
<1>3. work[w].pc \in {"agent", "turn", "picked", "asking"}
  BY DEF AgentRead, AgentPick, AgentStartStep, AgentFileCall
<1>4. WorkOK' /\ WorkMatches'
  BY <1>1, <1>2, <1>3, WorkGoesOn DEF ExecPcs, jobVars
<1> QED
  BY <1>1, <1>4, Frame DEF DomainOK

\* The steps with which an agent ends its job without taking up a tool call.
LEMMA AgentEndTypes ==
    ASSUME TypeInv, NEW w \in Workers,
           \/ AgentNoStep(w) \/ AgentEnd(w) \/ AgentCompleteStep(w)
           \/ AgentClose(w) \/ AgentRaises(w)
    PROVE  DomainOK'
<1>0. SessionOK
  BY DEF TypeInv, DomainOK
<1>1. UNCHANGED <<planned, callVars, runtime, task, apiVars>>
  BY DEF AgentNoStep, AgentEnd, AgentCompleteStep, AgentClose, AgentRaises,
         AgentUnchanged, CallsUnchanged, callVars
<1>2. TaskOK' /\ WorkOK' /\ WorkMatches'
  <2>1. (Succeed(w) \/ Raise(w)) /\ EndWork(w)
    BY DEF AgentNoStep, AgentEnd, AgentCompleteStep, AgentClose, AgentRaises
  <2> QED
    BY <1>1, <2>1, WorkEnds
<1>3. SessionOK'
  <2>1. CASE AgentNoStep(w)
    <3>1. step \in [Steps -> StepStatus] /\ CompleteIfReady(step) /\ UNCHANGED step
      BY <1>0, <2>1 DEF SessionOK, AgentNoStep
    <3> QED
      BY <1>0, <1>1, <3>1, CompletionTypes DEF SessionOK
  <2>2. CASE AgentEnd(w)
    BY <1>0, <1>1, <2>2, FlushedIsSteps DEF SessionOK, AgentEnd
  <2>3. CASE AgentCompleteStep(w)
    <3>1. step' \in [Steps -> StepStatus]
      BY <2>3, FlushedIsSteps DEF AgentCompleteStep, StepStatus
    <3>2. CompleteIfReady(step')
      BY <2>3 DEF AgentCompleteStep
    <3> QED
      BY <1>1, <3>1, <3>2, CompletionTypes DEF SessionOK
  <2>4. CASE AgentClose(w) \/ AgentRaises(w)
    BY <1>0, <1>1, <2>4 DEF AgentClose, AgentRaises, SessionOK
  <2> QED
    BY <2>1, <2>2, <2>3, <2>4
<1> QED
  BY <1>1, <1>2, <1>3, Frame DEF DomainOK

\* Asking for approval keeps the types.
LEMMA AgentApprovalTypes ==
    ASSUME TypeInv, NEW w \in Workers, NEW t \in Tools, AgentRequestApproval(w, t)
    PROVE  DomainOK'
<1>0. SessionOK /\ CallsOK /\ WorkOK
  BY DEF TypeInv, DomainOK
<1>1. UNCHANGED <<planned, done, runtime, task, apiVars>> /\ UNCHANGED <<evidence, runs>>
  BY DEF AgentRequestApproval, AgentUnchanged
<1>2. TaskOK' /\ WorkOK' /\ WorkMatches'
  BY <1>1, WorkEnds DEF AgentRequestApproval
<1>3. SessionOK'
  BY <1>0, <1>1, FlushedIsSteps DEF AgentRequestApproval, SessionOK, SessionStatus
<1>4. CallsOK'
  <2>1. work[w].step \in {0} \cup Steps
    BY <1>0 DEF WorkOK, Work
  <2>2. PICK command \in BOOLEAN :
           tool' = [tool EXCEPT ![t] = [status |-> "awaiting_approval",
                                        step |-> work[w].step, command |-> command]]
    BY DEF AgentRequestApproval
  <2>3. tool' \in [Tools -> [status : CallStatus, step : {0} \cup Steps, command : BOOLEAN]]
    BY <1>0, <2>1, <2>2 DEF CallsOK, CallStatus, ActiveCall
  <2>4. approval' \in [Tools -> ApprovalStatus]
    BY <1>0 DEF AgentRequestApproval, CallsOK, ApprovalStatus
  <2> QED
    BY <1>0, <1>1, <2>3, <2>4 DEF CallsOK
<1> QED
  BY <1>1, <1>2, <1>3, <1>4, Frame DEF DomainOK

\* Queueing a command keeps the types: its job is a new one.
LEMMA AgentQueueTypes ==
    ASSUME TypeInv, NEW w \in Workers, NEW t \in Tools, NEW j \in Jobs,
           AgentQueueTerminal(w, t, j)
    PROVE  DomainOK'
<1>0. SessionOK /\ CallsOK /\ WorkOK /\ WorkMatches /\ JobTypeOK /\ TaskOK
  BY DEF TypeInv, DomainOK
<1>1. /\ UNCHANGED <<planned, done, session, runtime, apiVars>>
      /\ UNCHANGED <<approval, evidence, runs>>
  BY DEF AgentQueueTerminal, AgentUnchanged
<1>2. /\ TaskOK'
      /\ UNCHANGED worker
      /\ \A v \in Workers : worker[v].pc # "idle" =>
            task'[worker[v].job] = task[worker[v].job]
  BY TaskAdded, EngineAssumption DEF AgentQueueTerminal
<1>3. SessionOK'
  BY <1>0, <1>1, FlushedIsSteps DEF AgentQueueTerminal, SessionOK
<1>4. CallsOK'
  <2>1. work[w].step \in {0} \cup Steps
    BY <1>0 DEF WorkOK, Work
  <2>2. tool' \in [Tools -> [status : CallStatus, step : {0} \cup Steps, command : BOOLEAN]]
    BY <1>0, <2>1 DEF AgentQueueTerminal, CallsOK, CallStatus, ActiveCall
  <2> QED
    BY <1>0, <1>1, <2>2 DEF CallsOK
<1> DEFINE r == [NoWork EXCEPT !.pc = "sending", !.tool = t]
<1>5. work' = [work EXCEPT ![w] = r]
  BY DEF AgentQueueTerminal
<1>6. r \in Work /\ r.pc = "sending"
  BY DEF NoWork, Work, WorkPcs, CallStatus
<1>7. WorkOK'
  BY <1>0, <1>5, <1>6 DEF WorkOK
<1>8. WorkMatches'
  <2>1. work'[w] = r /\ \A v \in Workers \ {w} : work'[v] = work[v]
    BY <1>0, <1>5 DEF WorkOK
  <2>2. worker[w].pc = "working"
    BY <1>0 DEF WorkMatches, JobTypeOK, AgentQueueTerminal
  <2>3. \A v \in Workers : work[v].pc \in ExecPcs => worker[v].pc # "idle"
    BY <1>0 DEF WorkMatches, ExecPcs
  <2> HIDE DEF r
  <2> QED
    BY <1>0, <1>2, <1>6, <2>1, <2>2, <2>3 DEF WorkMatches, ExecPcs
<1> QED
  BY <1>1, <1>2, <1>3, <1>4, <1>7, <1>8, Frame DEF DomainOK

\* Every step of an agent keeps the types.
LEMMA AgentTypes ==
    ASSUME TypeInv, NEW w \in Workers, AgentStep(w)
    PROVE  DomainOK'
<1>1. ASSUME NEW j \in Jobs, AgentSend(w, j) PROVE DomainOK'
  <2>1. UNCHANGED <<session, planVars, callVars, runtime, task, apiVars>> /\ UNCHANGED worker
    BY <1>1 DEF AgentSend, AgentUnchanged, CallsUnchanged, planVars, callVars, Enqueue
  <2> DEFINE r == [work[w] EXCEPT !.pc = "closing"]
  <2>2. /\ work' = [work EXCEPT ![w] = r]
        /\ work[w].pc = "sending"
    BY <1>1 DEF AgentSend, SetWork
  <2>3. r \in Work /\ r.pc = "closing"
    BY DEF TypeInv, DomainOK, WorkOK, Work, WorkPcs
  <2>4. WorkOK' /\ WorkMatches'
    <3> HIDE DEF r
    <3> QED
      BY <2>1, <2>2, <2>3, WorkGoesOn DEF ExecPcs
  <2>5. TaskOK'
    BY <1>1, <2>1, Frame DEF AgentSend, OldRowStep
  <2> QED
    BY <2>1, <2>4, <2>5, Frame DEF DomainOK
<1>2. CASE AgentMarkFailed(w)
  <2>1. UNCHANGED <<session, planVars, callVars, runtime, task, apiVars>> /\ UNCHANGED work
    BY <1>2 DEF AgentMarkFailed, AgentUnchanged, CallsUnchanged, planVars, callVars
  <2>2. TaskOK'
    BY <1>2, <2>1, Frame DEF AgentMarkFailed, OldRowStep, WorkerStep
  <2>3. WorkMatches'
    BY <1>2, <2>1, FailEnds DEF AgentMarkFailed
  <2> QED
    BY <2>1, <2>2, <2>3, Frame DEF DomainOK
<1> QED
  BY <1>1, <1>2, AgentGoesOn, AgentEndTypes, AgentApprovalTypes, AgentQueueTypes
  DEF AgentStep

-----------------------------------------------------------------------------
\* A request that ends leaves its client without one.
LEMMA RequestEnds ==
    ASSUME TypeInv, NEW c \in Clients, EndReq(c), UNCHANGED asked
    PROVE  ReqOK'
<1>1. ReqOK /\ req' = [req EXCEPT ![c] = NoReq]
  BY DEF TypeInv, DomainOK, EndReq
<1>2. NoReq \in Request /\ NoReq.op = "none"
  BY DEF NoReq, Request, RowStatus
<1> QED
  BY <1>1, <1>2 DEF ReqOK

\* A handler that creates a job does not touch what the workers do.
LEMMA HandlerCreates ==
    ASSUME TypeInv, NEW j \in Jobs, CreateJob(j), UNCHANGED work,
           NEW type \in {"plan", "agent", "execute"}, NEW t \in Tools \cup {NoTool},
           NEW by \in {"api", "approval", "agent"},
           (type = "execute") <=> (t \in Tools),
           Payload(j, type, t, by)
    PROVE  TaskOK' /\ WorkOK' /\ WorkMatches'
<1>1. WorkOK /\ WorkMatches /\ JobTypeOK
  BY DEF TypeInv, DomainOK
<1>2. /\ TaskOK'
      /\ UNCHANGED worker
      /\ \A v \in Workers : worker[v].pc # "idle" =>
            task'[worker[v].job] = task[worker[v].job]
  BY TaskAdded
<1>3. \A v \in Workers : work[v].pc \in ExecPcs => worker[v].pc # "idle"
  BY <1>1 DEF WorkMatches, ExecPcs
<1> QED
  BY <1>1, <1>2, <1>3 DEF WorkMatches, WorkOK

\* Writing a status of tool calls into a row keeps the calls well typed.
LEMMA CallWritten ==
    ASSUME TypeInv, NEW t, NEW s \in CallStatus, SetCall(t, s),
           approval' \in [Tools -> ApprovalStatus], UNCHANGED <<evidence, runs>>
    PROVE  CallsOK'
<1>1. CallsOK
  BY DEF TypeInv, DomainOK
<1>2. tool' \in [Tools -> [status : CallStatus, step : {0} \cup Steps, command : BOOLEAN]]
  BY <1>1 DEF SetCall, CallsOK
<1> QED
  BY <1>1, <1>2 DEF CallsOK

\* The operator's decisions keep the types.
LEMMA ApprovalTypes ==
    ASSUME TypeInv, NEW c \in Clients, ApprovalStep(c)
    PROVE  DomainOK'
<1>0. SessionOK /\ CallsOK /\ ReqOK /\ JobTypeOK
  BY DEF TypeInv, DomainOK
<1>1. /\ UNCHANGED <<planned, done, runtime, work, asked>> /\ UNCHANGED <<evidence, runs>>
      /\ EndReq(c) /\ WakeSession(c)
  BY DEF ApprovalStep, Approve, Deny, ApprovalUnchanged
<1>2. ReqOK'
  BY <1>1, RequestEnds
<1>3. session' \in SessionStatus
  BY <1>0, <1>1 DEF WakeSession, SessionOK, SessionStatus
<1>4. ASSUME NEW j \in Jobs, Approve(c, j) PROVE DomainOK'
  <2>1. req[c].tool \in Tools
    BY <1>0, <1>4 DEF ReqOK, Approve
  <2>2. TaskOK' /\ WorkOK' /\ WorkMatches'
    BY <1>1, <1>4, <2>1, HandlerCreates DEF Approve
  <2>3. SessionOK'
    BY <1>0, <1>1, <1>3, <1>4 DEF Approve, SessionOK
  <2>4. CallsOK'
    <3>1. approval' \in [Tools -> ApprovalStatus]
      BY <1>0, <1>4 DEF Approve, Resolved, CallsOK, ApprovalStatus
    <3>2. "queued" \in CallStatus
      BY DEF CallStatus, ActiveCall
    <3> QED
      BY <1>1, <1>4, <3>1, <3>2, CallWritten DEF Approve
  <2> QED
    BY <1>1, <1>2, <2>2, <2>3, <2>4, Frame DEF DomainOK
<1>5. CASE Deny(c)
  <2>1. UNCHANGED <<jobVars, task>>
    BY <1>5 DEF Deny
  <2>2. SessionOK'
    <3>1. step' \in [Steps -> StepStatus]
      BY <1>0, <1>5 DEF Deny, SessionOK, StepStatus
    <3> QED
      BY <1>0, <1>1, <1>3, <3>1 DEF SessionOK
  <2>3. CallsOK'
    <3>1. approval' \in [Tools -> ApprovalStatus]
      BY <1>0, <1>5 DEF Deny, Resolved, CallsOK, ApprovalStatus
    <3>2. "denied" \in CallStatus
      BY DEF CallStatus, FinalCall
    <3> QED
      BY <1>1, <1>5, <3>1, <3>2, CallWritten DEF Deny
  <2>4. UNCHANGED worker
    BY <2>1 DEF jobVars
  <2> QED
    BY <1>1, <1>2, <2>1, <2>2, <2>3, <2>4, Frame DEF DomainOK
<1> QED
  BY <1>4, <1>5 DEF ApprovalStep

-----------------------------------------------------------------------------
\* Writes of one field of a runtime's row keep the runtimes well typed.
LEMMA LaunchTypes ==
    ASSUME TypeInv, NEW r \in Runtimes, LaunchStep(r)
    PROVE  DomainOK'
<1>1. UNCHANGED <<jobVars, session, planVars, callVars, task, work, apiVars>>
  BY DEF LaunchStep, LaunchCall, LaunchRecord, OnlyRuntime
<1>2. RuntimeOK'
  BY DEF TypeInv, DomainOK, LaunchStep, LaunchCall, LaunchRecord, RuntimeOK, RowStatus
<1>3. UNCHANGED worker
  BY <1>1 DEF jobVars
<1> QED
  BY <1>1, <1>2, <1>3, Frame DEF DomainOK

\* A new runtime is well typed.
LEMMA RuntimeCreated ==
    ASSUME TypeInv, NEW r \in Runtimes, CreateRuntime(r)
    PROVE  RuntimeOK'
  BY DEF TypeInv, DomainOK, CreateRuntime, RuntimeOK, RowStatus

\* An executor works on a tool call.
LEMMA ExecutorHasCall ==
    ASSUME TypeInv, NEW w \in Workers, work[w].pc \in ExecPcs
    PROVE  Call(w) \in Tools /\ worker[w].job \in Jobs
<1>1. JobTypeOK /\ WorkMatches /\ TaskOK
  BY DEF TypeInv, DomainOK
<1>2. worker[w].job \in Jobs
  BY <1>1 DEF JobTypeOK, WorkMatches, ExecPcs
<1>3. task[worker[w].job].type = "execute"
  BY <1>1 DEF WorkMatches
<1> QED
  BY <1>1, <1>2, <1>3 DEF TaskOK, Call

\* An executor that goes on without writing the tool call keeps the types.
LEMMA ExecGoesOn ==
    ASSUME TypeInv, NEW w \in Workers, NEW r \in Work, work' = [work EXCEPT ![w] = r],
           work[w].pc \in ExecPcs \ {"waiting"}, r.pc # "waiting", r.pc # "picked",
           r.pc \in {"answered", "finishing"} => r.outcome \in Outcomes,
           UNCHANGED jobVars, ExecUnchanged, CallsOK', RuntimeOK'
    PROVE  DomainOK'
<1>1. UNCHANGED <<session, planVars, task, apiVars>>
  BY DEF ExecUnchanged
<1>2. UNCHANGED worker
  BY DEF jobVars
<1>3. WorkOK' /\ WorkMatches'
  BY <1>1, <1>2, WorkGoesOn DEF ExecPcs
<1> QED
  BY <1>1, <1>3, Frame DEF DomainOK

\* Each step by which an executor goes on keeps the types.
LEMMA ExecStepTypes ==
    ASSUME TypeInv, NEW w \in Workers,
           \/ ExecRead(w) \/ ExecLaunched(w) \/ ExecMarkRunning(w) \/ ExecBegin(w)
           \/ ExecFlush(w)
           \/ \E r \in Runtimes : ExecCreateRuntime(w, r)
           \/ \E o \in Outcomes : ExecReply(w, o)
    PROVE  DomainOK'
<1>0. JobTypeOK /\ CallsOK /\ RuntimeOK /\ WorkOK /\ WorkMatches
  BY DEF TypeInv, DomainOK
<1>a. work[w] \in Work
  BY <1>0 DEF WorkOK
<1>b. work[w].pc \in ExecPcs \ {"waiting"}
  BY DEF ExecRead, ExecLaunched, ExecMarkRunning, ExecBegin, ExecFlush,
         ExecCreateRuntime, ExecReply, ExecPcs
<1>c. Call(w) \in Tools /\ tool[Call(w)].status \in CallStatus
  BY <1>0, <1>b, ExecutorHasCall DEF CallsOK
<1>d. UNCHANGED jobVars /\ ExecUnchanged
  BY DEF ExecRead, ExecLaunched, ExecMarkRunning, ExecBegin, ExecFlush,
         ExecCreateRuntime, ExecReply
<1>1. CASE ExecRead(w)
  <2>1. PICK pc \in {"launch", "ready"}, saw \in CallStatus, q \in {0} \cup Runtimes :
           work' = [work EXCEPT ![w].pc = pc, ![w].runtime = q, ![w].saw = saw]
    <3>1. RunningRuntime \in {0} \cup Runtimes
      BY LatestIsRuntime DEF RunningRuntime
    <3>2. "none" \in CallStatus
      BY DEF CallStatus
    <3> QED
      BY <1>1, <1>c, <3>1, <3>2 DEF ExecRead
  <2> DEFINE r == [work[w] EXCEPT !.pc = pc, !.runtime = q, !.saw = saw]
  <2>2. work' = [work EXCEPT ![w] = r]
    BY <1>0, <2>1 DEF WorkOK
  <2>3. r \in Work /\ r.pc = pc
    BY <1>a DEF Work, WorkPcs, ExecPcs
  <2>4. UNCHANGED <<runtime, callVars>>
    BY <1>1 DEF ExecRead, CallUnchanged, ExecUnchanged, callVars
  <2> HIDE DEF r
  <2> QED
    BY <1>b, <1>d, <2>2, <2>3, <2>4, ExecGoesOn, Frame
<1>2. ASSUME NEW q \in Runtimes, ExecCreateRuntime(w, q) PROVE DomainOK'
  <2> DEFINE r == [work[w] EXCEPT !.pc = "launching", !.runtime = q]
  <2>1. work' = [work EXCEPT ![w] = r]
    BY <1>0, <1>2 DEF ExecCreateRuntime, WorkOK
  <2>2. r \in Work /\ r.pc = "launching"
    BY <1>a DEF Work, WorkPcs, ExecPcs
  <2>3. UNCHANGED callVars
    BY <1>2 DEF ExecCreateRuntime, CallUnchanged, ExecUnchanged, callVars
  <2>4. RuntimeOK'
    BY <1>2, RuntimeCreated DEF ExecCreateRuntime
  <2> HIDE DEF r
  <2> QED
    BY <1>b, <1>d, <2>1, <2>2, <2>3, <2>4, ExecGoesOn, Frame
<1>3. CASE ExecLaunched(w)
  <2> DEFINE r == [work[w] EXCEPT !.pc = "ready"]
  <2>1. work' = [work EXCEPT ![w] = r]
    BY <1>3 DEF ExecLaunched, SetWork
  <2>2. r \in Work /\ r.pc = "ready"
    BY <1>a DEF Work, WorkPcs, ExecPcs
  <2>3. UNCHANGED <<runtime, callVars>>
    BY <1>3 DEF ExecLaunched, CallUnchanged, ExecUnchanged, callVars
  <2> HIDE DEF r
  <2> QED
    BY <1>b, <1>d, <2>1, <2>2, <2>3, ExecGoesOn, Frame
<1>4. CASE ExecMarkRunning(w)
  <2>1. CallsOK'
    <3>1. UNCHANGED <<approval, evidence, runs>>
      BY <1>4 DEF ExecMarkRunning, ExecUnchanged
    <3>2. "running" \in CallStatus
      BY DEF CallStatus, ActiveCall
    <3>3. CASE UNCHANGED tool
      BY <1>0, <3>1, <3>3 DEF CallsOK
    <3>4. CASE SetCall(Call(w), "running")
      BY <1>0, <3>1, <3>2, <3>4, CallWritten DEF CallsOK
    <3> QED
      BY <1>4, <3>3, <3>4 DEF ExecMarkRunning, WriteCall
  <2>2. PICK saw \in CallStatus : work' = [work EXCEPT ![w].pc = "marked", ![w].saw = saw]
    BY <1>4, <1>c, <2>1 DEF ExecMarkRunning, CallsOK, Call, ExecUnchanged, jobVars
  <2> DEFINE r == [work[w] EXCEPT !.pc = "marked", !.saw = saw]
  <2>3. work' = [work EXCEPT ![w] = r]
    BY <1>0, <2>2 DEF WorkOK
  <2>4. r \in Work /\ r.pc = "marked"
    BY <1>a DEF Work, WorkPcs, ExecPcs
  <2>5. UNCHANGED runtime
    BY <1>4 DEF ExecMarkRunning
  <2> HIDE DEF r
  <2> QED
    BY <1>b, <1>d, <2>1, <2>3, <2>4, <2>5, ExecGoesOn, Frame
<1>5. CASE ExecBegin(w)
  <2> DEFINE r == [work[w] EXCEPT !.pc = "executing"]
  <2>1. work' = [work EXCEPT ![w] = r]
    BY <1>5 DEF ExecBegin, SetWork
  <2>2. r \in Work /\ r.pc = "executing"
    BY <1>a DEF Work, WorkPcs, ExecPcs
  <2>3. CallsOK'
    <3>1. UNCHANGED <<tool, approval, evidence>>
      BY <1>5 DEF ExecBegin, ExecUnchanged
    <3>2. runs' = [runs EXCEPT ![Call(w)] = @ + 1]
      BY <1>5 DEF ExecBegin
    <3>3. runs \in [Tools -> Nat] /\ runs[Call(w)] + 1 \in Nat
      BY <1>0, <1>c DEF CallsOK
    <3>4. runs' \in [Tools -> Nat]
      BY <3>2, <3>3
    <3> QED
      BY <1>0, <3>1, <3>4 DEF CallsOK
  <2>4. UNCHANGED runtime
    BY <1>5 DEF ExecBegin
  <2> HIDE DEF r
  <2> QED
    BY <1>b, <1>d, <2>1, <2>2, <2>3, <2>4, ExecGoesOn, Frame
<1>6. ASSUME NEW o \in Outcomes, ExecReply(w, o) PROVE DomainOK'
  <2> DEFINE r == [work[w] EXCEPT !.pc = "answered", !.outcome = o]
  <2>1. work' = [work EXCEPT ![w] = r]
    BY <1>0, <1>6 DEF ExecReply, WorkOK
  <2>2. r \in Work /\ r.pc = "answered" /\ r.outcome = o
    BY <1>a DEF Work, WorkPcs, ExecPcs
  <2>3. UNCHANGED callVars
    BY <1>6 DEF ExecReply, CallUnchanged, ExecUnchanged, callVars
  <2>4. RuntimeOK'
    BY <1>0, <1>6 DEF ExecReply, RuntimeOK
  <2> HIDE DEF r
  <2> QED
    BY <1>b, <1>d, <2>1, <2>2, <2>3, <2>4, ExecGoesOn, Frame
<1>7. CASE ExecFlush(w)
  <2>1. PICK b \in BOOLEAN :
           work' = [work EXCEPT ![w].pc = "finishing", ![w].tool = Call(w), ![w].sawEvidence = b]
    <3>1. (evidence[Call(w)] > 0) \in BOOLEAN
      OBVIOUS
    <3> QED
      BY <1>7, <3>1 DEF ExecFlush
  <2> DEFINE r == [work[w] EXCEPT !.pc = "finishing", !.tool = Call(w), !.sawEvidence = b]
  <2>2. work' = [work EXCEPT ![w] = r]
    BY <1>0, <2>1 DEF WorkOK
  <2>3. r \in Work /\ r.pc = "finishing" /\ r.outcome = work[w].outcome
    BY <1>a, <1>c DEF Work, WorkPcs, ExecPcs
  <2>4. work[w].outcome \in Outcomes
    BY <1>0, <1>7 DEF ExecFlush, WorkMatches
  <2>5. UNCHANGED <<runtime, callVars>>
    BY <1>7 DEF ExecFlush, CallUnchanged, ExecUnchanged, callVars
  <2> HIDE DEF r
  <2> QED
    BY <1>b, <1>d, <2>2, <2>3, <2>4, <2>5, ExecGoesOn, Frame
<1> QED
  BY <1>1, <1>2, <1>3, <1>4, <1>5, <1>6, <1>7

\* An executor that ends, with an outcome or without, keeps the types.
LEMMA ExecEndTypes ==
    ASSUME TypeInv, NEW w \in Workers,
           ExecSkip(w) \/ ExecCommit(w) \/ ExecRaises(w) \/ ExecMarkFailed(w)
    PROVE  DomainOK'
<1>0. CallsOK /\ WorkOK /\ WorkMatches
  BY DEF TypeInv, DomainOK
<1>1. /\ UNCHANGED <<session, planVars, task, apiVars>> /\ UNCHANGED <<approval, runs>>
      /\ UNCHANGED runtime
  BY DEF ExecSkip, ExecCommit, ExecRaises, ExecMarkFailed, ExecUnchanged, CallUnchanged
<1>2. TaskOK' /\ WorkOK' /\ WorkMatches'
  BY <1>1, WorkEnds DEF ExecSkip, ExecCommit, ExecRaises, ExecMarkFailed
<1>3. CallsOK'
  <2>1. CASE ExecSkip(w) \/ ExecRaises(w)
    BY <1>1, <2>1, Frame DEF ExecSkip, ExecRaises, CallUnchanged, callVars
  <2>2. CASE ExecCommit(w)
    <3>1. work[w].outcome \in CallStatus
      BY <1>0, <2>2 DEF ExecCommit, WorkMatches, Outcomes, CallStatus, FinalCall
    <3>2. tool' \in [Tools -> [status : CallStatus, step : {0} \cup Steps,
                               command : BOOLEAN]]
      BY <1>0, <2>2, <3>1 DEF ExecCommit, WriteCall, SetCall, CallsOK
    <3>3. evidence' \in [Tools -> Nat]
      <4>1. \/ UNCHANGED evidence
            \/ evidence' = [evidence EXCEPT ![Call(w)] = @ + 1]
        BY <2>2 DEF ExecCommit
      <4> QED
        BY <1>0, <4>1 DEF CallsOK
    <3> QED
      BY <1>0, <1>1, <3>2, <3>3 DEF CallsOK
  <2>3. CASE ExecMarkFailed(w)
    <3>1. UNCHANGED evidence /\ "failed" \in CallStatus
      BY <2>3 DEF ExecMarkFailed, CallStatus, FinalCall
    <3>2. CASE UNCHANGED tool
      BY <1>1, <3>1, <3>2, Frame DEF callVars
    <3>3. CASE SetCall(Call(w), "failed")
      BY <1>0, <1>1, <3>1, <3>3, CallWritten DEF CallsOK
    <3> QED
      BY <2>3, <3>2, <3>3 DEF ExecMarkFailed, FailCall
  <2> QED
    BY <2>1, <2>2, <2>3
<1> QED
  BY <1>1, <1>2, <1>3, Frame DEF DomainOK

\* Every step of an executor keeps the types.
LEMMA ExecTypes ==
    ASSUME TypeInv, NEW w \in Workers, ExecStep(w)
    PROVE  DomainOK'
<1>1. CASE ExecFailWaits(w)
  <2>0. JobTypeOK /\ WorkOK /\ WorkMatches
    BY DEF TypeInv, DomainOK
  <2>1. /\ UNCHANGED <<session, planVars, callVars, runtime, task, apiVars>>
        /\ UNCHANGED jobVars /\ UNCHANGED worker
    BY <1>1 DEF ExecFailWaits, CallUnchanged, ExecUnchanged, callVars, jobVars
  <2> DEFINE r == [work[w] EXCEPT !.pc = "waiting"]
  <2>2. work' = [work EXCEPT ![w] = r]
    BY <1>1 DEF ExecFailWaits, SetWork
  <2>3. r \in Work /\ r.pc = "waiting"
    BY <2>0 DEF WorkOK, Work, WorkPcs, ExecPcs
  <2>4. worker[w].pc = "failing" /\ task[worker[w].job].type = "execute"
    BY <1>1 DEF ExecFailWaits
  <2>5. WorkOK'
    BY <2>0, <2>2, <2>3 DEF WorkOK
  <2>6. work'[w] = r /\ \A v \in Workers \ {w} : work'[v] = work[v]
    BY <2>0, <2>2 DEF WorkOK
  <2>7. WorkMatches'
    <3> HIDE DEF r
    <3> QED
      BY <2>0, <2>1, <2>3, <2>4, <2>6 DEF WorkMatches
  <2> QED
    BY <2>1, <2>5, <2>7, Frame DEF DomainOK
<1> QED
  BY <1>1, ExecStepTypes, ExecEndTypes DEF ExecStep, Outcomes

-----------------------------------------------------------------------------
\* A user's request, well typed, leaves everything else well typed.
LEMMA RequestTypes ==
    ASSUME TypeInv, NEW c \in Clients, NEW r \in Request,
           req' = [req EXCEPT ![c] = r], asked' = asked + 1, asked < MaxRequests,
           r.op \in {"approve", "deny"} => r.tool \in Tools,
           UNCHANGED <<session, planVars, callVars, runtime, task, work>>,
           CancelSelect \/ UNCHANGED jobVars
    PROVE  DomainOK'
<1>1. ReqOK /\ MaxRequests \in Nat
  BY EngineAssumption DEF TypeInv, DomainOK
<1>2. ReqOK'
  BY <1>1 DEF ReqOK
<1>3. [OldRowStep]_jobVars /\ UNCHANGED worker
  BY DEF OldRowStep, CancelSelect, jobVars
<1> QED
  BY <1>2, <1>3, Frame DEF DomainOK

\* Every request a user makes is well typed.
LEMMA UserTypes ==
    ASSUME TypeInv, NEW c \in Clients, UserStep(c)
    PROVE  DomainOK'
<1>0. SessionOK /\ RuntimeOK /\ session \in SessionStatus
  BY DEF TypeInv, DomainOK, SessionOK
<1>n. NoReq \in Request
  BY DEF NoReq, Request, RowStatus
<1>1. ASSUME NEW op \in Ops \cap {"approve", "deny"}, NEW t \in Tools, AskResolve(c, op, t)
      PROVE  DomainOK'
  <2> DEFINE r == [NoReq EXCEPT !.op = op, !.seen = session, !.tool = t]
  <2>1. r \in Request /\ r.tool = t
    BY <1>0 DEF NoReq, Request
  <2> HIDE DEF r
  <2> QED
    BY <1>1, <2>1, RequestTypes DEF AskResolve, r
<1>2. ASSUME NEW op \in Ops \ {"approve", "deny"}, AskSimple(c, op)
      PROVE  DomainOK'
  <2> DEFINE r == [NoReq EXCEPT !.op = op, !.seen = session]
  <2>1. r \in Request /\ r.op = op
    BY <1>0 DEF NoReq, Request
  <2> HIDE DEF r
  <2> QED
    BY <1>2, <2>1, RequestTypes DEF AskSimple, Ask, r
<1>3. ASSUME "stop" \in Ops, AskStop(c) PROVE DomainOK'
  <2> DEFINE r == [NoReq EXCEPT !.op = "stop", !.pc = "selected", !.runtime = RunningRuntime,
                     !.tools = {t \in Tools : tool[t].status \in ActiveCall}]
  <2>1. RunningRuntime \in {0} \cup Runtimes
    BY LatestIsRuntime DEF RunningRuntime
  <2>2. r \in Request /\ r.op = "stop"
    BY <1>3, <2>1 DEF NoReq, Request, RowStatus
  <2> HIDE DEF r
  <2> QED
    BY <1>3, <2>2, RequestTypes DEF AskStop, Ask, r
<1>4. ASSUME "start_runtime" \in Ops, AskStartRuntime(c) PROVE DomainOK'
  <2> DEFINE r == [NoReq EXCEPT !.op = "start_runtime"]
  <2>1. r \in Request /\ r.op = "start_runtime"
    BY <1>4 DEF NoReq, Request, RowStatus
  <2> HIDE DEF r
  <2> QED
    BY <1>4, <2>1, RequestTypes DEF AskStartRuntime, Ask, r
<1>5. ASSUME "stop_runtime" \in Ops, AskStopRuntime(c) PROVE DomainOK'
  <2>1. PICK q \in Runtimes :
           req' = [req EXCEPT ![c] = [NoReq EXCEPT !.op = "stop_runtime", !.pc = "calling",
                                              !.seen = runtime[q].row, !.runtime = q]]
    <3>1. RunningRuntime \in {0} \cup Runtimes /\ LatestRuntime \in {0} \cup Runtimes
      BY LatestIsRuntime DEF RunningRuntime, LatestRuntime
    <3> QED
      BY <1>5, <3>1 DEF AskStopRuntime
  <2> DEFINE r == [NoReq EXCEPT !.op = "stop_runtime", !.pc = "calling",
                                !.seen = runtime[q].row, !.runtime = q]
  <2>2. runtime[q].row \in RowStatus
    BY <1>0 DEF RuntimeOK
  <2>3. r \in Request /\ r.op = "stop_runtime"
    BY <1>5, <2>2 DEF NoReq, Request
  <2>4. req' = [req EXCEPT ![c] = r]
    BY <2>1
  <2> HIDE DEF r
  <2> QED
    BY <1>5, <2>3, <2>4, RequestTypes DEF AskStopRuntime, Ask
<1> QED
  BY <1>1, <1>2, <1>3, <1>4, <1>5 DEF UserStep, AskStep

\* A handler that creates a job ends with its request.
LEMMA CreatorTypes ==
    ASSUME TypeInv, NEW c \in Clients, NEW j \in Jobs,
           \/ Start(c, j) \/ RunAgent(c, j) \/ \E t \in Tools : RunCommand(c, t, j)
    PROVE  DomainOK'
<1>0. SessionOK /\ CallsOK
  BY DEF TypeInv, DomainOK
<1>1. UNCHANGED <<planVars, approval, evidence, work, runs, asked>> /\ UNCHANGED runtime
  BY DEF Start, RunAgent, RunCommand, ServiceUnchanged
<1>2. ReqOK'
  BY <1>1, RequestEnds DEF Start, RunAgent, RunCommand
<1>3. SessionOK'
  BY <1>0, <1>1 DEF Start, RunAgent, RunCommand, SessionOK, SessionStatus, planVars
<1>4. CallsOK'
  <2>1. UNCHANGED tool \/ \E t \in Tools :
           tool' = [tool EXCEPT ![t] = [status |-> "queued", step |-> 0, command |-> TRUE]]
    BY DEF Start, RunAgent, RunCommand
  <2>a. [status |-> "queued", step |-> 0, command |-> TRUE] \in
            [status : CallStatus, step : {0} \cup Steps, command : BOOLEAN]
    BY DEF CallStatus, ActiveCall
  <2>2. tool' \in [Tools -> [status : CallStatus, step : {0} \cup Steps, command : BOOLEAN]]
    BY <1>0, <2>1, <2>a DEF CallsOK
  <2> QED
    BY <1>0, <1>1, <2>2 DEF CallsOK
<1>5. TaskOK' /\ WorkOK' /\ WorkMatches'
  <2>1. CASE Start(c, j)
    BY <1>1, <2>1, HandlerCreates, EngineAssumption DEF Start
  <2>2. CASE RunAgent(c, j)
    BY <1>1, <2>2, HandlerCreates, EngineAssumption DEF RunAgent
  <2>3. ASSUME NEW t \in Tools, RunCommand(c, t, j) PROVE TaskOK' /\ WorkOK' /\ WorkMatches'
    BY <1>1, <2>3, HandlerCreates DEF RunCommand
  <2> QED
    BY <2>1, <2>2, <2>3
<1> QED
  BY <1>1, <1>2, <1>3, <1>4, <1>5, Frame DEF DomainOK

\* A handler's step on its request, which stays where it is or ends.
LEMMA ReqMoves ==
    ASSUME TypeInv, NEW c \in Clients, UNCHANGED asked,
           NEW pc \in {"flushed", "called"}, NEW r \in {0, req[c].runtime},
           req' = [req EXCEPT ![c].pc = pc, ![c].runtime = r]
    PROVE  ReqOK'
<1>1. ReqOK /\ req[c] \in Request
  BY DEF TypeInv, DomainOK, ReqOK
<1> DEFINE q == [req[c] EXCEPT !.pc = pc, !.runtime = r]
<1>2. req' = [req EXCEPT ![c] = q]
  BY <1>1 DEF ReqOK
<1>3. q \in Request /\ q.op = req[c].op /\ q.tool = req[c].tool
  BY <1>1 DEF Request
<1> HIDE DEF q
<1> QED
  BY <1>1, <1>2, <1>3 DEF ReqOK

\* Every step of a handler keeps the types.
LEMMA HandlerTypes ==
    ASSUME TypeInv, NEW c \in Clients, HandlerStep(c)
    PROVE  DomainOK'
<1>0. SessionOK /\ CallsOK /\ RuntimeOK /\ ReqOK /\ req[c] \in Request
  BY DEF TypeInv, DomainOK, ReqOK
<1>1. UNCHANGED <<planVars, approval, evidence, work, runs, asked>>
  BY DEF HandlerStep, Transition, Start, RunAgent, RunCommand, StopFlush, StopCall,
         StopCallFails, StopCommit, StartRuntime, StopRuntimeCall, StopRuntimeCommit,
         ServiceUnchanged
<1>2. CASE Transition(c)
  <2>1. session' \in {"paused", "running", "archived"}
    BY <1>2 DEF Transition, Becomes
  <2>2. SessionOK'
    BY <1>0, <1>1, <2>1 DEF SessionOK, SessionStatus, planVars
  <2>3. UNCHANGED <<jobVars, tool, runtime, task>> /\ ReqOK' /\ UNCHANGED worker
    BY <1>1, <1>2, RequestEnds DEF Transition, jobVars
  <2> QED
    BY <1>1, <2>2, <2>3, Frame DEF DomainOK, callVars
<1>3. CASE StopFlush(c)
  <2>1. UNCHANGED <<session, tool, runtime, task>> /\ CancelFlush
    BY <1>3 DEF StopFlush
  <2>2. ReqOK'
    <3>1. req' = [req EXCEPT ![c].pc = "flushed", ![c].runtime = req[c].runtime]
      BY <1>0, <1>3 DEF StopFlush, SetReq, ReqOK, Request
    <3> QED
      BY <1>1, <3>1, ReqMoves
  <2>3. [OldRowStep]_jobVars /\ UNCHANGED worker
    BY <2>1 DEF OldRowStep, CancelFlush
  <2> QED
    BY <1>1, <2>1, <2>2, <2>3, Frame DEF DomainOK, callVars
<1>4. CASE StopCall(c) \/ StopCallFails(c)
  <2>1. UNCHANGED <<jobVars, session, tool, task>> /\ UNCHANGED worker
    BY <1>4 DEF StopCall, StopCallFails, jobVars
  <2>2. ReqOK'
    <3>1. CASE StopCall(c)
      <4>1. req' = [req EXCEPT ![c].pc = "called", ![c].runtime = req[c].runtime]
        BY <1>0, <3>1 DEF StopCall, SetReq, ReqOK, Request
      <4> QED
        BY <1>1, <4>1, ReqMoves
    <3>2. CASE StopCallFails(c)
      BY <1>1, <3>2, ReqMoves DEF StopCallFails
    <3> QED
      BY <1>4, <3>1, <3>2
  <2>3. RuntimeOK'
    BY <1>0, <1>4 DEF StopCall, StopCallFails, StopCallFailing, RuntimeOK, Request
  <2> QED
    BY <1>1, <2>1, <2>2, <2>3, Frame DEF DomainOK, callVars
<1>5. CASE StopCommit(c)
  <2>1. UNCHANGED task /\ CancelCommit /\ EndReq(c) /\ session' = "stopped"
    BY <1>5 DEF StopCommit
  <2>2. SessionOK'
    BY <1>0, <1>1, <2>1 DEF SessionOK, SessionStatus, planVars
  <2>3. CallsOK'
    <3>1. tool' \in [Tools -> [status : CallStatus, step : {0} \cup Steps,
                               command : BOOLEAN]]
      BY <1>0, <1>5 DEF StopCommit, CallsOK, CallStatus, FinalCall
    <3> QED
      BY <1>0, <1>1, <3>1 DEF CallsOK
  <2>4. RuntimeOK'
    BY <1>0, <1>5 DEF StopCommit, RuntimeOK, RowStatus
  <2>5. [OldRowStep]_jobVars /\ UNCHANGED worker
    BY <2>1 DEF OldRowStep, CancelCommit
  <2>6. ReqOK'
    BY <1>1, <2>1, RequestEnds
  <2> QED
    BY <1>1, <2>1, <2>2, <2>3, <2>4, <2>5, <2>6, Frame DEF DomainOK
<1>6. ASSUME NEW r \in Runtimes, StartRuntime(c, r) PROVE DomainOK'
  <2>1. UNCHANGED <<jobVars, session, tool, task>> /\ UNCHANGED worker /\ EndReq(c)
    BY <1>6 DEF StartRuntime, jobVars
  <2>2. RuntimeOK'
    BY <1>6, RuntimeCreated DEF StartRuntime
  <2> QED
    BY <1>1, <2>1, <2>2, RequestEnds, Frame DEF DomainOK, callVars
<1>7. CASE StopRuntimeCall(c) \/ StopRuntimeCommit(c)
  <2>1. UNCHANGED <<jobVars, session, tool, task>> /\ UNCHANGED worker
    BY <1>7 DEF StopRuntimeCall, StopRuntimeCommit, jobVars
  <2>2. ReqOK'
    <3>1. CASE SetReq(c, "called")
      <4>1. req' = [req EXCEPT ![c].pc = "called", ![c].runtime = req[c].runtime]
        BY <1>0, <3>1 DEF SetReq, ReqOK, Request
      <4> QED
        BY <1>1, <4>1, ReqMoves
    <3>2. CASE EndReq(c)
      BY <1>1, <3>2, RequestEnds
    <3> QED
      BY <1>7, <3>1, <3>2 DEF StopRuntimeCall, StopRuntimeCommit
  <2>3. RuntimeOK'
    <3>1. CASE StopRuntimeCall(c)
      BY <1>0, <3>1 DEF StopRuntimeCall, RuntimeOK, Request
    <3>2. CASE StopRuntimeCommit(c)
      BY <1>0, <3>2 DEF StopRuntimeCommit, RuntimeOK, RowStatus
    <3> QED
      BY <1>7, <3>1, <3>2
  <2> QED
    BY <1>1, <2>1, <2>2, <2>3, Frame DEF DomainOK, callVars
<1> QED
  BY <1>2, <1>3, <1>4, <1>5, <1>6, <1>7, CreatorTypes DEF HandlerStep

-----------------------------------------------------------------------------
\* The broker, the sending of messages and the selection of stale jobs keep
\* the types, and so does a message received.
LEMMA QueueTypes ==
    ASSUME TypeInv,
           \/ \E j \in Jobs : ApiEnqueue(j) \/ Broker(j)
           \/ \E w \in Workers : Receive(w)
           \/ \E S \in SUBSET Jobs : Stale(S)
    PROVE  DomainOK'
<1>0. JobTypeOK /\ WorkMatches
  BY DEF TypeInv, DomainOK
<1>1. /\ UNCHANGED <<session, planVars, callVars, runtime, task, work, apiVars>>
      /\ [OldRowStep]_jobVars
  BY DEF ApiEnqueue, Broker, Receive, Stale, OldRowStep, WorkerStep, domainVars,
         planVars, callVars, apiVars
<1>2. WorkMatches'
  <2>1. CASE UNCHANGED worker
    BY <1>1, <2>1, Frame
  <2>2. ASSUME NEW w \in Workers, NEW j \in Jobs, Deliver(w, j), worker' # worker
        PROVE  WorkMatches'
    <3>1. /\ worker[w].pc = "idle"
          /\ worker' = [worker EXCEPT ![w] =
                [pc |-> "loaded", job |-> j, attempts |-> job[j].attempts]]
      BY <2>2 DEF Deliver
    <3>2. work[w].pc = "none"
      BY <1>0, <3>1 DEF WorkMatches
    <3>3. worker'[w].pc = "loaded" /\ \A v \in Workers \ {w} : worker'[v] = worker[v]
      BY <1>0, <3>1 DEF JobTypeOK
    <3> QED
      BY <1>0, <1>1, <3>2, <3>3 DEF WorkMatches, ExecPcs
  <2> QED
    BY <2>1, <2>2 DEF ApiEnqueue, Enqueue, Broker, EnqueueNever, Duplicate, DeliverTooEarly,
                      Receive, Stale, ReconcileSelect
<1> QED
  BY <1>1, <1>2, Frame DEF DomainOK

\* A message that could not be sent fails its job, and no more than one other row.
LEMMA EnqueueFailsTypes ==
    ASSUME TypeInv, NEW j \in Jobs, ApiEnqueueFails(j)
    PROVE  DomainOK'
<1>0. SessionOK /\ CallsOK
  BY DEF TypeInv, DomainOK
<1>1. /\ UNCHANGED <<planVars, approval, evidence, work, runs, asked>>
      /\ UNCHANGED <<runtime, task, req>>
      /\ UNCHANGED worker
      /\ [OldRowStep]_jobVars
  BY DEF ApiEnqueueFails, ServiceUnchanged, EnqueueFails, OldRowStep
<1>2. SessionOK'
  BY <1>0, <1>1 DEF ApiEnqueueFails, SessionOK, SessionStatus, planVars
<1>3. CallsOK'
  <2>1. CASE UNCHANGED tool
    BY <1>1, <2>1, Frame DEF callVars
  <2>2. CASE SetCall(task[j].tool, "failed")
    <3>1. "failed" \in CallStatus
      BY DEF CallStatus, FinalCall
    <3> QED
      BY <1>0, <1>1, <2>2, <3>1, CallWritten DEF CallsOK
  <2> QED
    BY <2>1, <2>2 DEF ApiEnqueueFails
<1> QED
  BY <1>1, <1>2, <1>3, Frame DEF DomainOK, apiVars

\* Claiming a job starts the runner of its type.
LEMMA BeginTypes ==
    ASSUME TypeInv, NEW w \in Workers, Begin(w)
    PROVE  DomainOK'
<1>0. JobTypeOK /\ TaskOK /\ WorkOK /\ WorkMatches
  BY DEF TypeInv, DomainOK
<1>1. UNCHANGED <<session, planVars, callVars, runtime, task, apiVars>> /\ [OldRowStep]_jobVars
  BY DEF Begin, OldRowStep, WorkerStep
<1> DEFINE j == worker[w].job
           r == [NoWork EXCEPT !.pc = task[j].type]
<1>2. j \in Jobs
  BY <1>0 DEF JobTypeOK, Begin, Claim
<1>3. task[j].type \in {"none", "plan", "agent", "execute"}
  BY <1>0, <1>2 DEF TaskOK
<1>4. r \in Work /\ r.pc = task[j].type
  BY <1>3 DEF NoWork, Work, WorkPcs, ExecPcs, CallStatus
<1>5. work' = [work EXCEPT ![w] = r]
  BY DEF Begin
<1>6. /\ worker'[w].pc = "working" /\ worker'[w].job = j
      /\ \A v \in Workers \ {w} : worker'[v] = worker[v]
  BY <1>0 DEF Begin, Claim, SetWorker, JobTypeOK
<1> HIDE DEF r, j
<1>7. WorkOK'
  BY <1>0, <1>4, <1>5 DEF WorkOK
<1>8. work'[w] = r /\ \A v \in Workers \ {w} : work'[v] = work[v]
  BY <1>0, <1>5 DEF WorkOK
<1>9. WorkMatches'
  BY <1>0, <1>1, <1>3, <1>4, <1>6, <1>8 DEF WorkMatches, ExecPcs
<1> QED
  BY <1>1, <1>7, <1>9, Frame DEF DomainOK

\* A worker that dies leaves well-typed rows.
LEMMA CrashTypes ==
    ASSUME TypeInv, NEW w \in Workers, WorkerCrash(w)
    PROVE  DomainOK'
<1>1. UNCHANGED <<session, planVars, callVars, task, apiVars>>
  BY DEF WorkerCrash
<1>2. TaskOK' /\ WorkOK' /\ WorkMatches'
  BY <1>1, WorkEnds DEF WorkerCrash
<1>3. RuntimeOK'
  <2> DEFINE r == work[w].runtime
  <2>1. RuntimeOK
    BY DEF TypeInv, DomainOK
  <2>2. CASE UNCHANGED runtime
    BY <2>2, Frame
  <2>3. ASSUME NEW box \in {"none", "running", runtime[r].box},
               runtime' = [runtime EXCEPT ![r].box = box, ![r].launch = "dead"]
        PROVE  RuntimeOK'
    <3>1. CASE r \in Runtimes
      <4>1. box \in {"none", "running", "exited"}
        BY <2>1, <3>1 DEF RuntimeOK
      <4> QED
        BY <2>1, <2>3, <3>1, <4>1 DEF RuntimeOK
    <3>2. CASE r \notin Runtimes
      BY <2>1, <2>3, <3>2 DEF RuntimeOK
    <3> QED
      BY <3>1, <3>2
  <2> QED
    BY <2>2, <2>3 DEF WorkerCrash
<1> QED
  BY <1>1, <1>2, <1>3, Frame DEF DomainOK

\* Every step of the engine keeps the types.
LEMMA DomainStep == TypeInv /\ [Next]_engineVars => DomainOK'
<1> SUFFICES ASSUME TypeInv, [Next]_engineVars PROVE DomainOK'
  OBVIOUS
<1>1. CASE UNCHANGED engineVars
  <2>1. UNCHANGED <<session, planVars, callVars, runtime, task, work, apiVars>>
        /\ UNCHANGED jobVars /\ UNCHANGED worker
    BY <1>1 DEF engineVars, domainVars, jobVars, planVars, callVars, apiVars
  <2> QED
    BY <2>1, Frame DEF DomainOK
<1> QED
  BY <1>1, UserTypes, ApprovalTypes, HandlerTypes, QueueTypes, EnqueueFailsTypes,
     BeginTypes, CrashTypes, PlanTypes, AgentTypes, ExecTypes, LaunchTypes, ReconcileTypes
  DEF Next, Resolve, RunnerStep

\* A session starts, as a draft or already planned, with well-typed rows.
LEMMA DomainStarts ==
    ASSUME NEW s \in {"draft", "running"}, NEW p \in 0 .. 1, JobInit, DomainInit(s, p)
    PROVE  DomainOK
<1>1. SessionOK
  BY EngineAssumption DEF DomainInit, SessionOK, SessionStatus, StepStatus
<1>2. CallsOK
  BY DEF DomainInit, CallsOK, NoCall, CallStatus, ApprovalStatus
<1>3. RuntimeOK
  BY DEF DomainInit, RuntimeOK, NoRuntime, RowStatus
<1>4. TaskOK
  BY EngineAssumption DEF DomainInit, JobInit, TaskOK, NoTask, StatusOf
<1>5. ReqOK
  <2>1. NoReq \in Request /\ NoReq.op = "none"
    BY DEF NoReq, Request, RowStatus
  <2> QED
    BY <2>1, EngineAssumption DEF DomainInit, ReqOK
<1>6. WorkOK /\ WorkMatches
  <2>1. NoWork \in Work /\ NoWork.pc = "none"
    BY DEF NoWork, Work, WorkPcs, CallStatus
  <2> QED
    BY <2>1 DEF DomainInit, WorkOK, WorkMatches, ExecPcs
<1> QED
  BY <1>1, <1>2, <1>3, <1>4, <1>5, <1>6 DEF DomainOK

\* The strengthened type invariant holds in every reachable state.
LEMMA TypeInvHolds ==
    /\ Spec => []TypeInv
    /\ PlannedSpec => []TypeInv
<1>1. JobInit /\ DomainInit("draft", 0) => DomainOK
  BY DomainStarts
<1>2. JobInit /\ DomainInit("running", 1) => DomainOK
  BY DomainStarts
<1>3. (JobTypeOK /\ JobsInPlay) /\ DomainOK /\ [Next]_engineVars => DomainOK'
  BY DomainStep DEF TypeInv
<1>4. TypeInv <=> (JobTypeOK /\ JobsInPlay) /\ DomainOK
  BY DEF TypeInv
<1>5. Spec => []TypeInv
  BY <1>1, <1>3, <1>4, EngineImplementsJobQueue, JobTypeCorrect, JobsInPlayExist, PTL
  DEF Spec, Init
<1>6. PlannedSpec => []TypeInv
  BY <1>2, <1>3, <1>4, EngineImplementsJobQueue, JobTypeCorrect, JobsInPlayExist, PTL
  DEF PlannedSpec
<1> QED
  BY <1>5, <1>6

\* Every reachable state of the engine is well typed: in particular every job
\* row that exists has a type, and it is an execution job exactly if it names a
\* tool call.
THEOREM EngineTypeCorrect ==
    /\ Spec => []EngineTypeOK
    /\ PlannedSpec => []EngineTypeOK
<1>1. TypeInv => EngineTypeOK
  BY DEF TypeInv, DomainOK, SessionOK, CallsOK, RuntimeOK, TaskOK, ReqOK, Request,
         EngineTypeOK
<1> QED
  BY <1>1, TypeInvHolds, PTL

-----------------------------------------------------------------------------
(* The approval gate.  PendingNeverRuns is not inductive: a tool call must *)
(* also be known to be untouched before anybody asks for its approval.     *)

Untouched(t) == ExecJobs(t) = {} /\ runs[t] = 0

GateInv ==
    \A t \in Tools :
        /\ tool[t].status = "none" => approval[t] = "none" /\ Untouched(t)
        /\ approval[t] = "pending" => /\ tool[t].status \in {"awaiting_approval", "cancelled"}
                                      /\ Untouched(t)

\* The gate holds after a step that touches one tool call at most, if it holds
\* for that call.
LEMMA GateElsewhere ==
    ASSUME TypeInv, GateInv, NEW u \in Tools,
           \A t \in Tools \ {u} : /\ tool'[t] = tool[t] /\ approval'[t] = approval[t]
                                  /\ runs'[t] = runs[t] /\ ExecJobs(t)' \subseteq ExecJobs(t),
           tool'[u].status # "none", approval'[u] # "pending"
    PROVE  GateInv'
  BY DEF GateInv, Untouched

\* A step of an executor touches only the call it has a job for, which is
\* therefore neither fresh nor pending.
LEMMA GateExec ==
    ASSUME TypeInv, GateInv, NEW w \in Workers, NEW t \in Tools, t = Call(w),
           worker[w].job \in Jobs, UNCHANGED <<approval, task>>,
           \/ UNCHANGED runs
           \/ runs' = [runs EXCEPT ![t] = @ + 1],
           \/ UNCHANGED tool
           \/ \E s \in CallStatus \ {"none"} : SetCall(t, s)
    PROVE  GateInv'
<1>1. CallsOK /\ TaskOK
  BY DEF TypeInv, DomainOK
<1>2. worker[w].job \in ExecJobs(t)
  BY DEF ExecJobs, Call
<1>3. tool[t].status # "none" /\ approval[t] # "pending"
  BY <1>2 DEF GateInv, Untouched
<1>4. \A u \in Tools : ExecJobs(u)' = ExecJobs(u)
  BY DEF ExecJobs
<1>5. \A u \in Tools \ {t} : tool'[u] = tool[u] /\ runs'[u] = runs[u]
  BY <1>1 DEF SetCall, CallsOK
<1>6. tool'[t].status # "none"
  BY <1>1, <1>3 DEF SetCall, CallsOK
<1> QED
  BY <1>3, <1>4, <1>5, <1>6, GateElsewhere

\* A new job takes up at most the one call it names.
LEMMA JobsElsewhere ==
    ASSUME TypeInv, NEW j \in Jobs, NEW type, NEW u, NEW by, Payload(j, type, u, by)
    PROVE  \A t \in Tools \ {u} : ExecJobs(t)' \subseteq ExecJobs(t)
<1>1. TaskOK
  BY DEF TypeInv, DomainOK
<1>2. \A i \in Jobs : task'[i].tool = IF i = j THEN u ELSE task[i].tool
  BY <1>1 DEF Payload, TaskOK
<1> QED
  BY <1>2 DEF ExecJobs

\* No executor touches a call that is pending.
LEMMA GateExecStep ==
    ASSUME TypeInv, GateInv, NEW w \in Workers, ExecStep(w)
    PROVE  GateInv'
<1>0. UNCHANGED <<approval, task>>
  BY DEF ExecStep, ExecSkip, ExecRead, ExecCreateRuntime, ExecLaunched, ExecMarkRunning,
         ExecBegin, ExecReply, ExecFlush, ExecCommit, ExecRaises, ExecFailWaits,
         ExecMarkFailed, ExecUnchanged
<1>1. CASE UNCHANGED <<tool, runs>>
  BY <1>0, <1>1 DEF GateInv, Untouched, ExecJobs
<1>2. CASE ExecMarkRunning(w)
  <2>1. Call(w) \in Tools /\ worker[w].job \in Jobs
    BY <1>2, ExecutorHasCall DEF ExecMarkRunning, ExecPcs
  <2>2. "running" \in CallStatus \ {"none"}
    BY DEF CallStatus, ActiveCall
  <2> QED
    BY <1>0, <1>2, <2>1, <2>2, GateExec DEF ExecMarkRunning, WriteCall
<1>3. CASE ExecBegin(w)
  <2>1. Call(w) \in Tools /\ worker[w].job \in Jobs
    BY <1>3, ExecutorHasCall DEF ExecBegin, ExecPcs
  <2> QED
    BY <1>0, <1>3, <2>1, GateExec DEF ExecBegin
<1>4. CASE ExecCommit(w)
  <2>1. Call(w) \in Tools /\ worker[w].job \in Jobs
    BY <1>4, ExecutorHasCall DEF ExecCommit, ExecPcs
  <2>2. work[w].outcome \in CallStatus \ {"none"}
    BY <1>4 DEF TypeInv, DomainOK, WorkMatches, ExecCommit, Outcomes, CallStatus, FinalCall
  <2> QED
    BY <1>0, <1>4, <2>1, <2>2, GateExec DEF ExecCommit, WriteCall
<1>5. CASE ExecMarkFailed(w)
  <2>1. worker[w].job \in Jobs /\ Call(w) \in Tools
    BY <1>5 DEF TypeInv, DomainOK, JobTypeOK, TaskOK, ExecMarkFailed, MarkFailed, Call
  <2>2. "failed" \in CallStatus \ {"none"}
    BY DEF CallStatus, FinalCall
  <2> QED
    BY <1>0, <1>5, <2>1, <2>2, GateExec DEF ExecMarkFailed, FailCall
<1> QED
  BY <1>1, <1>2, <1>3, <1>4, <1>5
  DEF ExecStep, ExecSkip, ExecRead, ExecCreateRuntime, ExecLaunched, ExecReply, ExecFlush,
      ExecRaises, ExecFailWaits, CallUnchanged

\* An agent asks for the approval of a call that is untouched, or has a call
\* that needs none executed.
LEMMA GateAgentStep ==
    ASSUME TypeInv, GateInv, NEW w \in Workers, AgentStep(w)
    PROVE  GateInv'
<1>0. CallsOK
  BY DEF TypeInv, DomainOK
<1>1. ASSUME NEW t \in Tools, AgentRequestApproval(w, t) PROVE GateInv'
  <2>1. UNCHANGED <<runs, task>> /\ tool[t].status = "none"
    BY <1>1 DEF AgentRequestApproval, AgentUnchanged
  <2>2. \A u \in Tools : ExecJobs(u)' = ExecJobs(u)
    BY <2>1 DEF ExecJobs
  <2>3. /\ tool'[t].status = "awaiting_approval" /\ approval'[t] = "pending"
        /\ \A u \in Tools \ {t} : tool'[u] = tool[u] /\ approval'[u] = approval[u]
    BY <1>0, <1>1 DEF AgentRequestApproval, CallsOK
  <2> QED
    BY <2>1, <2>2, <2>3 DEF GateInv, Untouched
<1>2. ASSUME NEW t \in Tools, NEW j \in Jobs, AgentQueueTerminal(w, t, j) PROVE GateInv'
  <2>1. UNCHANGED <<runs, approval>> /\ tool[t].status = "none"
    BY <1>2 DEF AgentQueueTerminal, AgentUnchanged
  <2>2. tool'[t].status = "queued" /\ \A u \in Tools \ {t} : tool'[u] = tool[u]
    BY <1>0, <1>2 DEF AgentQueueTerminal, CallsOK
  <2>3. \A u \in Tools \ {t} : ExecJobs(u)' \subseteq ExecJobs(u)
    BY <1>2, JobsElsewhere DEF AgentQueueTerminal
  <2>4. approval[t] # "pending"
    BY <2>1 DEF GateInv
  <2> QED
    BY <2>1, <2>2, <2>3, <2>4, GateElsewhere
<1>3. CASE UNCHANGED <<tool, approval, runs, task>>
  BY <1>3 DEF GateInv, Untouched, ExecJobs
<1> QED
  BY <1>1, <1>2, <1>3
  DEF AgentStep, AgentRead, AgentPick, AgentStartStep, AgentNoStep, AgentFileCall, AgentEnd,
      AgentCompleteStep, AgentSend, AgentClose, AgentRaises, AgentMarkFailed,
      AgentUnchanged, CallsUnchanged

\* A decision of an operator ends the wait of one call; only an approval has it
\* executed.
LEMMA GateApprovalStep ==
    ASSUME TypeInv, GateInv, NEW c \in Clients, ApprovalStep(c)
    PROVE  GateInv'
<1> DEFINE t == req[c].tool
<1>0. CallsOK /\ t \in Tools
  BY DEF TypeInv, DomainOK, ReqOK, ApprovalStep, Approve, Deny
<1>1. UNCHANGED runs
  BY DEF ApprovalStep, Approve, Deny, ApprovalUnchanged
<1>2. PICK s \in {"approved", "denied"} : Resolved(c, s)
  BY DEF ApprovalStep, Approve, Deny
<1>3. approval'[t] = s /\ \A u \in Tools \ {t} : approval'[u] = approval[u]
  BY <1>0, <1>2 DEF Resolved, CallsOK
<1>4. PICK q \in {"queued", "denied"} : SetCall(t, q)
  BY DEF ApprovalStep, Approve, Deny
<1>5. tool'[t].status = q /\ \A u \in Tools \ {t} : tool'[u] = tool[u]
  BY <1>0, <1>4 DEF SetCall, CallsOK
<1>6. \A u \in Tools \ {t} : ExecJobs(u)' \subseteq ExecJobs(u)
  <2>1. ASSUME NEW j \in Jobs, Approve(c, j)
        PROVE  \A u \in Tools \ {t} : ExecJobs(u)' \subseteq ExecJobs(u)
    BY <2>1, JobsElsewhere DEF Approve
  <2>2. CASE Deny(c)
    BY <2>2 DEF Deny, ExecJobs
  <2> QED
    BY <2>1, <2>2 DEF ApprovalStep
<1> HIDE DEF t
<1> QED
  BY <1>0, <1>1, <1>3, <1>5, <1>6, GateElsewhere

\* The handlers of the session touch no call that is pending but to cancel it.
LEMMA GateHandlerStep ==
    ASSUME TypeInv, GateInv, NEW c \in Clients, HandlerStep(c)
    PROVE  GateInv'
<1>0. CallsOK
  BY DEF TypeInv, DomainOK
<1>1. UNCHANGED <<approval, runs>>
  BY DEF HandlerStep, Transition, Start, RunAgent, RunCommand, StopFlush, StopCall,
         StopCallFails, StopCommit, StartRuntime, StopRuntimeCall, StopRuntimeCommit,
         ServiceUnchanged
<1>2. ASSUME NEW j \in Jobs, Start(c, j) \/ RunAgent(c, j) PROVE GateInv'
  <2>1. UNCHANGED tool
    BY <1>2 DEF Start, RunAgent
  <2>2. \A u \in Tools \ {NoTool} : ExecJobs(u)' \subseteq ExecJobs(u)
    BY <1>2, JobsElsewhere DEF Start, RunAgent
  <2> QED
    BY <1>1, <2>1, <2>2, EngineAssumption DEF GateInv, Untouched
<1>3. ASSUME NEW j \in Jobs, NEW t \in Tools, RunCommand(c, t, j) PROVE GateInv'
  <2>1. tool'[t].status = "queued" /\ \A u \in Tools \ {t} : tool'[u] = tool[u]
    BY <1>0, <1>3 DEF RunCommand, CallsOK
  <2>2. \A u \in Tools \ {t} : ExecJobs(u)' \subseteq ExecJobs(u)
    BY <1>3, JobsElsewhere DEF RunCommand
  <2>3. approval[t] # "pending"
    BY <1>3 DEF RunCommand, GateInv
  <2> QED
    BY <1>1, <2>1, <2>2, <2>3, GateElsewhere
<1>4. CASE StopCommit(c)
  <2>1. \A u \in Tools : tool'[u].status \in {tool[u].status, "cancelled"}
    BY <1>0, <1>4 DEF StopCommit, CallsOK
  <2>2. \A u \in Tools : ExecJobs(u)' = ExecJobs(u)
    BY <1>4 DEF StopCommit, ExecJobs
  <2> QED
    BY <1>1, <2>1, <2>2 DEF GateInv, Untouched
<1>5. CASE UNCHANGED <<tool, task>>
  BY <1>1, <1>5 DEF GateInv, Untouched, ExecJobs
<1> QED
  BY <1>2, <1>3, <1>4, <1>5
  DEF HandlerStep, Transition, StopFlush, StopCall, StopCallFails, StartRuntime,
      StopRuntimeCall, StopRuntimeCommit

\* The gate holds after every step of the engine.
LEMMA GateStep == TypeInv /\ GateInv /\ [Next]_engineVars => GateInv'
<1> SUFFICES ASSUME TypeInv, GateInv, [Next]_engineVars PROVE GateInv'
  OBVIOUS
<1>1. ASSUME NEW j \in Jobs, ApiEnqueueFails(j) PROVE GateInv'
  <2>0. CallsOK /\ TaskOK
    BY DEF TypeInv, DomainOK
  <2>1. UNCHANGED <<approval, runs, task>>
    BY <1>1 DEF ApiEnqueueFails, ServiceUnchanged
  <2>2. CASE UNCHANGED tool
    BY <2>1, <2>2 DEF GateInv, Untouched, ExecJobs
  <2>3. CASE task[j].type = "execute" /\ SetCall(task[j].tool, "failed")
    <3>1. task[j].tool \in Tools
      BY <2>0, <2>3 DEF TaskOK
    <3>2. approval[task[j].tool] # "pending"
      BY <3>1 DEF GateInv, Untouched, ExecJobs
    <3>3. /\ tool'[task[j].tool].status = "failed"
          /\ \A u \in Tools \ {task[j].tool} : tool'[u] = tool[u]
      BY <2>0, <2>3, <3>1 DEF SetCall, CallsOK
    <3>4. \A u \in Tools : ExecJobs(u)' = ExecJobs(u)
      BY <2>1 DEF ExecJobs
    <3> QED
      BY <2>1, <3>1, <3>2, <3>3, <3>4, GateElsewhere
  <2> QED
    BY <1>1, <2>2, <2>3 DEF ApiEnqueueFails
<1>2. CASE UNCHANGED <<tool, approval, runs, task>>
  BY <1>2 DEF GateInv, Untouched, ExecJobs
<1>3. ASSUME NEW c \in Clients, UserStep(c) PROVE UNCHANGED <<tool, approval, runs, task>>
  BY <1>3 DEF UserStep, AskStep, AskResolve, AskSimple, AskStop, AskStartRuntime,
              AskStopRuntime, callVars
<1>4. ASSUME NEW j \in Jobs, ApiEnqueue(j) \/ Broker(j)
      PROVE  UNCHANGED <<tool, approval, runs, task>>
  BY <1>4 DEF ApiEnqueue, Broker, domainVars
<1>5. ASSUME NEW w \in Workers, Receive(w) \/ Begin(w) \/ WorkerCrash(w)
      PROVE  UNCHANGED <<tool, approval, runs, task>>
  BY <1>5 DEF Receive, Begin, WorkerCrash, domainVars, callVars
<1>6. ASSUME NEW w \in Workers, PlanStep(w) PROVE UNCHANGED <<tool, approval, runs, task>>
  BY <1>6 DEF PlanStep, PlanRead, PlanCommit, PlanRaises, PlanMarkFailed, PlanUnchanged,
              callVars
<1>7. ASSUME NEW r \in Runtimes, LaunchStep(r)
      PROVE  UNCHANGED <<tool, approval, runs, task>>
  BY <1>7 DEF LaunchStep, LaunchCall, LaunchRecord, OnlyRuntime, callVars
<1>8. ASSUME NEW S \in SUBSET Jobs, Stale(S) PROVE UNCHANGED <<tool, approval, runs, task>>
  BY <1>8 DEF Stale, domainVars
<1>9. CASE ReconcileStale
  BY <1>2, <1>9 DEF ReconcileStale, PlanUnchanged, callVars
<1>10. CASE UNCHANGED engineVars
  BY <1>2, <1>10 DEF engineVars, domainVars
<1> QED
  BY <1>1, <1>2, <1>3, <1>4, <1>5, <1>6, <1>7, <1>8, <1>9, <1>10, GateApprovalStep,
     GateHandlerStep, GateAgentStep, GateExecStep
  DEF Next, Resolve, RunnerStep

\* No call exists when the session starts.
LEMMA GateStarts ==
    ASSUME NEW s, NEW p, DomainInit(s, p)
    PROVE  GateInv
  BY EngineAssumption DEF DomainInit, GateInv, Untouched, ExecJobs, NoCall, NoTask

\* A tool call whose approval is pending has not run and has no job that could
\* run it, whatever agents, operators, executors and failures interleave.
THEOREM ApprovalGates ==
    /\ Spec => []PendingNeverRuns
    /\ PlannedSpec => []PendingNeverRuns
<1>2. JobInit /\ DomainInit("draft", 0) => GateInv
  BY GateStarts
<1>3. JobInit /\ DomainInit("running", 1) => GateInv
  BY GateStarts
<1>4. GateInv => PendingNeverRuns
  BY DEF GateInv, Untouched, PendingNeverRuns
<1>5. Spec => []PendingNeverRuns
  BY <1>2, <1>4, GateStep, TypeInvHolds, PTL DEF Spec, Init
<1>6. PlannedSpec => []PendingNeverRuns
  BY <1>3, <1>4, GateStep, TypeInvHolds, PTL DEF PlannedSpec
<1> QED
  BY <1>5, <1>6

-----------------------------------------------------------------------------
(* Nobody waits for nobody.  AwaitingHasPending rests on what the handlers *)
(* in progress have read: while a session awaits approval, some pending    *)
(* call is such that whoever is about to resolve it has seen the session   *)
(* waiting, and so will wake it.                                           *)

Resolving(c, t) == req[c].op \in {"approve", "deny"} /\ req[c].tool = t

WakeInv ==
    /\ \A c \in Clients, t \in Tools : Resolving(c, t) => approval[t] # "none"
    /\ session = "awaiting_approval" =>
         \E t \in Tools : /\ approval[t] = "pending"
                          /\ \A c \in Clients : Resolving(c, t) =>
                                req[c].seen = "awaiting_approval"

\* What neither makes a session wait nor resolves an approval changes nothing.
LEMMA WakeFrame ==
    ASSUME WakeInv, UNCHANGED approval, session' \in {session} \/ session' # "awaiting_approval",
           \A c \in Clients : req'[c] = req[c] \/ req'[c].op \notin {"approve", "deny"}
    PROVE  WakeInv'
  BY DEF WakeInv, Resolving

\* No runner but an agent makes a session wait.
LEMMA WakeRunner ==
    ASSUME TypeInv, GateInv, WakeInv, NEW w \in Workers, RunnerStep(w)
    PROVE  WakeInv'
<1>0. CallsOK /\ ReqOK
  BY DEF TypeInv, DomainOK
<1>1. CASE PlanStep(w)
  <2>1. UNCHANGED <<approval, req>> /\ (session' = session \/ session' \in {"running", "failed"})
    BY <1>1 DEF PlanStep, PlanRead, PlanCommit, PlanRaises, PlanMarkFailed, FailPlanning,
                PlanUnchanged, callVars, apiVars
  <2> QED
    BY <2>1, WakeFrame
<1>2. CASE ExecStep(w)
  <2>1. UNCHANGED <<approval, req, session>>
    BY <1>2 DEF ExecStep, ExecSkip, ExecRead, ExecCreateRuntime, ExecLaunched,
         ExecMarkRunning, ExecBegin, ExecReply, ExecFlush, ExecCommit, ExecRaises,
         ExecFailWaits, ExecMarkFailed, ExecUnchanged, apiVars
  <2> QED
    BY <2>1, WakeFrame
<1>3. ASSUME NEW t \in Tools, AgentRequestApproval(w, t) PROVE WakeInv'
  <2>1. approval[t] = "none" /\ UNCHANGED req
    BY <1>3 DEF AgentRequestApproval, AgentUnchanged, apiVars, GateInv
  <2>2. approval'[t] = "pending" /\ \A u \in Tools \ {t} : approval'[u] = approval[u]
    BY <1>0, <1>3 DEF AgentRequestApproval, CallsOK
  <2>3. \A c \in Clients : ~Resolving(c, t)
    BY <2>1 DEF WakeInv
  <2> QED
    BY <2>1, <2>2, <2>3 DEF WakeInv, Resolving
<1>4. CASE AgentStep(w) /\ UNCHANGED approval
  <2>1. UNCHANGED req /\ (session' = session \/ session' = "completed"
                          \/ \E t \in Tools : AgentRequestApproval(w, t))
    BY <1>4 DEF AgentStep, AgentRead, AgentPick, AgentStartStep, AgentNoStep, AgentFileCall,
                AgentEnd, AgentCompleteStep, AgentRequestApproval, AgentQueueTerminal,
                AgentSend, AgentClose, AgentRaises, AgentMarkFailed, CompleteIfReady,
                AgentUnchanged, apiVars
  <2> QED
    BY <1>3, <1>4, <2>1, WakeFrame
<1> QED
  BY <1>1, <1>2, <1>3, <1>4
  DEF RunnerStep, AgentStep, AgentRead, AgentPick, AgentStartStep, AgentNoStep,
      AgentFileCall, AgentEnd, AgentCompleteStep, AgentQueueTerminal, AgentSend,
      AgentClose, AgentRaises, AgentMarkFailed, CallsUnchanged

\* An operator who asks while the session waits has seen it waiting; one who
\* resolves what the session waits for wakes it.
LEMMA WakeUser ==
    ASSUME TypeInv, WakeInv, NEW c \in Clients, UserStep(c) \/ Resolve(c)
    PROVE  WakeInv'
<1>0. CallsOK /\ ReqOK
  BY DEF TypeInv, DomainOK
<1>1. ASSUME NEW op \in {"approve", "deny"}, NEW t \in Tools, AskResolve(c, op, t)
      PROVE  WakeInv'
  <2>1. /\ req'[c].op = op /\ req'[c].tool = t /\ req'[c].seen = session
        /\ \A d \in Clients \ {c} : req'[d] = req[d]
        /\ approval[t] = "pending"
        /\ UNCHANGED <<session, approval>>
    BY <1>0, <1>1 DEF AskResolve, NoReq, ReqOK, callVars
  <2> QED
    BY <2>1 DEF WakeInv, Resolving
<1>2. ASSUME NEW op \in Ops \ {"approve", "deny"}, AskStep(c, op) PROVE WakeInv'
  <2>1. /\ UNCHANGED <<session, approval>>
        /\ req'[c].op \in {op, "stop", "start_runtime", "stop_runtime"}
        /\ \A d \in Clients \ {c} : req'[d] = req[d]
    BY <1>0, <1>2 DEF AskStep, AskSimple, AskStop, AskStartRuntime, AskStopRuntime, NoReq,
                      ReqOK, callVars
  <2> QED
    BY <2>1, WakeFrame
<1>3. CASE ApprovalStep(c)
  <2> DEFINE t == req[c].tool
  <2>1. t \in Tools /\ Resolving(c, t)
    BY <1>0, <1>3 DEF ReqOK, ApprovalStep, Approve, Deny, Resolving
  <2>2. PICK s \in {"approved", "denied"} : approval' = [approval EXCEPT ![t] = s]
    BY <1>3 DEF ApprovalStep, Approve, Deny, Resolved
  <2>3. approval'[t] = s /\ \A u \in Tools \ {t} : approval'[u] = approval[u]
    BY <1>0, <2>1, <2>2 DEF CallsOK
  <2>4. req'[c].op = "none" /\ \A d \in Clients \ {c} : req'[d] = req[d]
    BY <1>0, <1>3 DEF ApprovalStep, Approve, Deny, EndReq, NoReq, ReqOK
  <2>5. session' = IF req[c].seen = "awaiting_approval" THEN "running" ELSE session
    BY <1>3 DEF ApprovalStep, Approve, Deny, WakeSession
  <2> HIDE DEF t
  <2> QED
    BY <2>1, <2>3, <2>4, <2>5 DEF WakeInv, Resolving
<1>4. CASE HandlerStep(c)
  <2>1. UNCHANGED approval
    BY <1>4 DEF HandlerStep, Transition, Start, RunAgent, RunCommand, StopFlush, StopCall,
                StopCallFails, StopCommit, StartRuntime, StopRuntimeCall,
                StopRuntimeCommit, ServiceUnchanged
  <2>2. session' = session \/ session' # "awaiting_approval"
    BY <1>4 DEF HandlerStep, Transition, Becomes, Start, RunAgent, RunCommand, StopFlush,
                StopCall, StopCallFails, StopCommit, StartRuntime, StopRuntimeCall,
                StopRuntimeCommit
  <2>3. req[c].op \notin {"approve", "deny"}
    BY <1>4 DEF HandlerStep, Transition, Becomes, Start, RunAgent, RunCommand, StopFlush,
                StopCall, StopCallFails, StopCallFailing, StopCommit, StartRuntime,
                StopRuntimeCall, StopRuntimeCommit
  <2>4. req'[c].op \in {req[c].op, "none"} /\ \A d \in Clients \ {c} : req'[d] = req[d]
    BY <1>0, <1>4 DEF HandlerStep, Transition, Start, RunAgent, RunCommand, StopFlush,
                StopCall, StopCallFails, StopCommit, StartRuntime,
                StopRuntimeCall, StopRuntimeCommit, EndReq, SetReq, NoReq, ReqOK, Request
  <2> QED
    BY <2>1, <2>2, <2>3, <2>4, WakeFrame
<1> QED
  BY <1>1, <1>2, <1>3, <1>4 DEF UserStep, Resolve

\* A session never awaits an approval that nobody can give any more, whatever
\* operators, agents and failures interleave.
THEOREM AwaitedIsPending ==
    /\ Spec => []AwaitingHasPending
    /\ PlannedSpec => []AwaitingHasPending
<1>1. ASSUME NEW s \in {"draft", "running"}, NEW p, DomainInit(s, p) PROVE WakeInv
  BY <1>1 DEF DomainInit, WakeInv, Resolving, NoReq
<1>2. JobInit /\ DomainInit("draft", 0) => WakeInv /\ GateInv
  BY <1>1, GateStarts
<1>3. JobInit /\ DomainInit("running", 1) => WakeInv /\ GateInv
  BY <1>1, GateStarts
<1>4. TypeInv /\ GateInv /\ WakeInv /\ [Next]_engineVars => WakeInv'
  <2> SUFFICES ASSUME TypeInv, GateInv, WakeInv, [Next]_engineVars PROVE WakeInv'
    OBVIOUS
  <2>1. ASSUME NEW j \in Jobs, ApiEnqueueFails(j) PROVE WakeInv'
    BY <2>1, WakeFrame DEF ApiEnqueueFails, ServiceUnchanged
  <2>2. CASE UNCHANGED <<session, approval, req>>
    BY <2>2, WakeFrame
  <2>3. ASSUME NEW j \in Jobs, ApiEnqueue(j) \/ Broker(j)
        PROVE  UNCHANGED <<session, approval, req>>
    BY <2>3 DEF ApiEnqueue, Broker, domainVars
  <2>4. ASSUME NEW w \in Workers, Receive(w) \/ Begin(w) \/ WorkerCrash(w)
        PROVE  UNCHANGED <<session, approval, req>>
    BY <2>4 DEF Receive, Begin, WorkerCrash, domainVars, callVars, apiVars
  <2>5. ASSUME NEW r \in Runtimes, LaunchStep(r) PROVE UNCHANGED <<session, approval, req>>
    BY <2>5 DEF LaunchStep, LaunchCall, LaunchRecord, OnlyRuntime, callVars, apiVars
  <2>6. ASSUME NEW S \in SUBSET Jobs, Stale(S) PROVE UNCHANGED <<session, approval, req>>
    BY <2>6 DEF Stale, domainVars
  <2>7. CASE ReconcileStale
    BY <2>7, WakeFrame DEF ReconcileStale, FailPlanning, PlanUnchanged, callVars, apiVars
  <2>8. CASE UNCHANGED engineVars
    BY <2>2, <2>8 DEF engineVars, domainVars
  <2> QED
    BY <2>1, <2>2, <2>3, <2>4, <2>5, <2>6, <2>7, <2>8, WakeUser, WakeRunner DEF Next
<1>5. WakeInv => AwaitingHasPending
  BY DEF WakeInv, AwaitingHasPending
<1>6. Spec => []AwaitingHasPending
  BY <1>2, <1>4, <1>5, GateStep, TypeInvHolds, PTL DEF Spec, Init
<1>7. PlannedSpec => []AwaitingHasPending
  BY <1>3, <1>4, <1>5, GateStep, TypeInvHolds, PTL DEF PlannedSpec
<1> QED
  BY <1>6, <1>7

=============================================================================
