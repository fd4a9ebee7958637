------------------------ MODULE SessionRunners_proofs ------------------------
(***************************************************************************)
(* Proofs about what the runners of the session engine do with jobs, plans *)
(* and tool calls, for any numbers of clients, workers, jobs, tool calls,  *)
(* steps and runtimes. They rest on the typed states of                    *)
(* SessionEngine_proofs and on the claims of JobQueue_proofs.              *)
(***************************************************************************)
EXTENDS SessionEngine_proofs, FiniteSetTheorems

(* What the steps of the engine leave alone.                               *)

\* A payload is given to a row when it is created, and to no other.
LEMMA TaskStep ==
    ASSUME TypeInv, [Next]_engineVars
    PROVE  \/ UNCHANGED task
           \/ \E j \in Jobs, type \in {"plan", "agent", "execute"}, t \in Tools \cup {NoTool},
                 by \in {"api", "approval", "agent"} :
                /\ CreateJob(j) /\ Payload(j, type, t, by)
                /\ (type = "execute") <=> (t \in Tools)
<1> DEFINE Created == \E j \in Jobs, type \in {"plan", "agent", "execute"},
                         t \in Tools \cup {NoTool}, by \in {"api", "approval", "agent"} :
                         /\ CreateJob(j) /\ Payload(j, type, t, by)
                         /\ (type = "execute") <=> (t \in Tools)
<1> SUFFICES UNCHANGED task \/ Created
  OBVIOUS
<1>1. ASSUME NEW c \in Clients, UserStep(c) PROVE UNCHANGED task
  BY <1>1 DEF UserStep, AskResolve, AskStep, AskSimple, AskStop, AskStartRuntime,
              AskStopRuntime
<1>2. ASSUME NEW c \in Clients, Resolve(c) PROVE UNCHANGED task \/ Created
  <2>1. ASSUME NEW j \in Jobs, Approve(c, j) PROVE Created
    <3>1. req[c].tool \in Tools
      BY <2>1 DEF Approve, TypeInv, DomainOK, ReqOK
    <3> QED
      BY <2>1, <3>1 DEF Approve
  <2>2. ASSUME NEW j \in Jobs, Start(c, j) \/ RunAgent(c, j) PROVE Created
    BY <2>2, EngineAssumption DEF Start, RunAgent
  <2>3. ASSUME NEW j \in Jobs, NEW t \in Tools, RunCommand(c, t, j) PROVE Created
    BY <2>3 DEF RunCommand
  <2> HIDE DEF Created
  <2> QED
    BY <1>2, <2>1, <2>2, <2>3
    DEF Resolve, ApprovalStep, Deny, HandlerStep, Transition, StopFlush, StopCall,
        StopCallFails, StopCommit, StopRuntimeCall, StopRuntimeCommit, StartRuntime
<1>3. ASSUME NEW j \in Jobs, ApiEnqueue(j) \/ ApiEnqueueFails(j) \/ Broker(j)
      PROVE  UNCHANGED task
  BY <1>3 DEF ApiEnqueue, ApiEnqueueFails, Broker, domainVars
<1>4. ASSUME NEW w \in Workers, Receive(w) \/ Begin(w) \/ WorkerCrash(w)
      PROVE  UNCHANGED task
  BY <1>4 DEF Receive, Begin, WorkerCrash, domainVars
<1>5. ASSUME NEW w \in Workers, RunnerStep(w) PROVE UNCHANGED task \/ Created
  <2>1. ASSUME NEW t \in Tools, NEW j \in Jobs, AgentQueueTerminal(w, t, j) PROVE Created
    BY <2>1 DEF AgentQueueTerminal
  <2>2. ASSUME NEW t \in Tools, AgentRequestApproval(w, t) PROVE UNCHANGED task
    BY <2>2 DEF AgentRequestApproval
  <2>3. CASE PlanStep(w)
    BY <2>3 DEF PlanStep, PlanRead, PlanCommit, PlanRaises, PlanMarkFailed, PlanUnchanged
  <2>4. CASE ExecStep(w)
    BY <2>4 DEF ExecStep, ExecSkip, ExecRead, ExecCreateRuntime, ExecLaunched,
       ExecMarkRunning, ExecBegin, ExecReply, ExecFlush, ExecCommit, ExecRaises,
       ExecFailWaits, ExecMarkFailed, ExecUnchanged
  <2> HIDE DEF Created
  <2> QED
    BY <1>5, <2>1, <2>2, <2>3, <2>4
    DEF RunnerStep, AgentStep, AgentRead, AgentPick, AgentStartStep, AgentNoStep,
        AgentFileCall, AgentEnd, AgentCompleteStep, AgentSend, AgentClose, AgentRaises,
        AgentMarkFailed, CallsUnchanged
<1>6. ASSUME NEW r \in Runtimes, LaunchStep(r) PROVE UNCHANGED task
  BY <1>6 DEF LaunchStep, LaunchCall, LaunchRecord, OnlyRuntime
<1>7. ASSUME NEW S \in SUBSET Jobs, Stale(S) PROVE UNCHANGED task
  BY <1>7 DEF Stale, domainVars
<1>8. CASE ReconcileStale
  BY <1>8 DEF ReconcileStale, PlanUnchanged
<1>9. CASE UNCHANGED engineVars
  BY <1>9 DEF engineVars, domainVars
<1> HIDE DEF Created
<1> QED
  BY <1>1, <1>2, <1>3, <1>4, <1>5, <1>6, <1>7, <1>8, <1>9 DEF Next

\* So the type, tool call and creator of a job that exists never change.
LEMMA TaskKept ==
    ASSUME TypeInv, [Next]_engineVars, NEW j \in Jobs, StatusOf(j) # "none"
    PROVE  task'[j] = task[j]
<1>1. CASE UNCHANGED task
  BY <1>1
<1>2. ASSUME NEW i \in Jobs, NEW type, NEW t, NEW by, CreateJob(i), Payload(i, type, t, by)
      PROVE  task'[j] = task[j]
  BY <1>2 DEF CreateJob, Payload, TypeInv, DomainOK, TaskOK
<1> QED
  BY <1>1, <1>2, TaskStep

Acts(w) == Receive(w) \/ Begin(w) \/ RunnerStep(w) \/ WorkerCrash(w)

\* One worker at a time moves, and handlers, broker, runtime service and
\* reconciliation move none.
LEMMA OthersRest ==
    ASSUME TypeInv, [Next]_engineVars
    PROVE  \/ UNCHANGED <<work, worker>>
           \/ \E w \in Workers :
                 /\ Acts(w)
                 /\ \A v \in Workers \ {w} : work'[v] = work[v] /\ worker'[v] = worker[v]
<1>0. JobTypeOK /\ WorkOK
  BY DEF TypeInv, DomainOK
<1>1. ASSUME NEW c \in Clients, UserStep(c) \/ Resolve(c) PROVE UNCHANGED <<work, worker>>
  BY <1>1
  DEF UserStep, AskResolve, AskStep, AskSimple, AskStop, AskStartRuntime, AskStopRuntime,
      Resolve, ApprovalStep, Approve, Deny, ApprovalUnchanged, HandlerStep, Transition,
      Start, RunAgent, RunCommand, StopFlush, StopCall, StopCallFails, StopCommit,
      StopRuntimeCall, StopRuntimeCommit, StartRuntime, ServiceUnchanged, jobVars,
      CreateJob, CancelSelect, CancelFlush, CancelCommit
<1>2. ASSUME NEW j \in Jobs, ApiEnqueue(j) \/ ApiEnqueueFails(j) \/ Broker(j)
      PROVE  UNCHANGED <<work, worker>>
  BY <1>2 DEF ApiEnqueue, ApiEnqueueFails, Broker, domainVars, ServiceUnchanged, Enqueue,
              EnqueueFails, EnqueueNever, Duplicate, DeliverTooEarly
<1>3. ASSUME NEW r \in Runtimes, LaunchStep(r) PROVE UNCHANGED <<work, worker>>
  BY <1>3 DEF LaunchStep, LaunchCall, LaunchRecord, OnlyRuntime, jobVars
<1>4. ASSUME NEW S \in SUBSET Jobs, Stale(S) PROVE UNCHANGED <<work, worker>>
  BY <1>4 DEF Stale, ReconcileSelect, domainVars
<1>5. CASE ReconcileStale
  BY <1>5 DEF ReconcileStale, ReconcileCommit
<1>6. CASE UNCHANGED engineVars
  BY <1>6 DEF engineVars, domainVars, jobVars
<1>7. ASSUME NEW w \in Workers, Acts(w), NEW v \in Workers \ {w}
      PROVE  work'[v] = work[v] /\ worker'[v] = worker[v]
  <2>1. work'[v] = work[v]
    <3>1. UNCHANGED work \/ \E q : work' = [work EXCEPT ![w] = q]
      <4>1. CASE Receive(w) \/ Begin(w) \/ WorkerCrash(w)
        BY <4>1 DEF Receive, Begin, WorkerCrash, EndWork, domainVars
      <4>2. CASE PlanStep(w)
        BY <4>2 DEF PlanStep, PlanRead, PlanCommit, PlanRaises, PlanMarkFailed, EndWork
      <4>3. CASE AgentStep(w)
        BY <4>3 DEF AgentStep, AgentRead, AgentPick, AgentStartStep, AgentNoStep,
           AgentFileCall, AgentEnd, AgentCompleteStep, AgentRequestApproval,
           AgentQueueTerminal, AgentSend, AgentClose, AgentRaises, AgentMarkFailed,
           EndWork, SetWork
      <4>4. CASE ExecStep(w)
        BY <4>4 DEF ExecStep, ExecSkip, ExecRead, ExecCreateRuntime, ExecLaunched,
           ExecMarkRunning, ExecBegin, ExecReply, ExecFlush, ExecCommit, ExecRaises,
           ExecFailWaits, ExecMarkFailed, EndWork, SetWork
      <4> QED
        BY <1>7, <4>1, <4>2, <4>3, <4>4 DEF Acts, RunnerStep
    <3> QED
      BY <1>0, <3>1 DEF WorkOK
  <2>2. worker'[v] = worker[v]
    <3>1. UNCHANGED worker \/ \E q : worker' = [worker EXCEPT ![w] = q]
      <4>1. CASE Receive(w) \/ Begin(w) \/ WorkerCrash(w)
        BY <4>1 DEF Receive, Deliver, Begin, Claim, WorkerCrash, Crash, SetWorker
      <4>2. CASE PlanStep(w)
        BY <4>2 DEF PlanStep, PlanRead, PlanCommit, PlanRaises, PlanMarkFailed,
           jobVars, Succeed, Raise, MarkFailed, SetWorker
      <4>3. CASE AgentStep(w)
        BY <4>3 DEF AgentStep, AgentRead, AgentPick, AgentStartStep, AgentNoStep,
           AgentFileCall, AgentEnd, AgentCompleteStep, AgentRequestApproval,
           AgentQueueTerminal, AgentSend, AgentClose, AgentRaises, AgentMarkFailed,
           jobVars, CreateJob, Enqueue, Succeed, Raise, MarkFailed, SetWorker
      <4>4. CASE ExecStep(w)
        BY <4>4 DEF ExecStep, ExecSkip, ExecRead, ExecCreateRuntime, ExecLaunched,
           ExecMarkRunning, ExecBegin, ExecReply, ExecFlush, ExecCommit, ExecRaises,
           ExecFailWaits, ExecMarkFailed, jobVars, Succeed, Raise, MarkFailed, SetWorker
      <4> QED
        BY <1>7, <4>1, <4>2, <4>3, <4>4 DEF Acts, RunnerStep
    <3> QED
      BY <1>0, <3>1 DEF JobTypeOK
  <2> QED
    BY <2>1, <2>2
<1> QED
  BY <1>1, <1>2, <1>3, <1>4, <1>5, <1>6, <1>7 DEF Next, Acts

-----------------------------------------------------------------------------
(* Which runner works on which job.                                        *)

PlanPcs == {"plan", "planning"}
AgentPcs == {"agent", "turn", "picked", "asking", "sending", "closing"}

\* The planner works on planning jobs and the agent on agent jobs; WorkMatches
\* says the same of executors.
RunnerMatches ==
    \A w \in Workers :
        /\ work[w].pc \in PlanPcs => task[worker[w].job].type = "plan"
        /\ work[w].pc \in AgentPcs => task[worker[w].job].type = "agent"

\* A runner that goes on is the runner it was, of the job it had; and only
\* Begin starts one.
LEMMA RunnerStays ==
    ASSUME TypeInv, NEW w \in Workers, RunnerStep(w) \/ Receive(w) \/ WorkerCrash(w),
           work'[w].pc # "none"
    PROVE  /\ worker'[w].job = worker[w].job
           /\ worker[w].pc # "idle"
           /\ work'[w].pc \in PlanPcs => work[w].pc \in PlanPcs
           /\ work'[w].pc \in AgentPcs => work[w].pc \in AgentPcs
<1>0. JobTypeOK /\ WorkOK /\ WorkMatches
  BY DEF TypeInv, DomainOK
<1> USE DEF PlanPcs, AgentPcs
<1>1. CASE WorkerCrash(w)
  <2>1. work'[w].pc = "none"
    BY <1>0, <1>1 DEF WorkerCrash, EndWork, NoWork, WorkOK
  <2> QED
    BY <2>1
<1>2. CASE Receive(w)
  BY <1>0, <1>2 DEF Receive, Deliver, domainVars, WorkMatches
<1>3. CASE EndWork(w)
  <2>1. work'[w].pc = "none"
    BY <1>0, <1>3 DEF EndWork, NoWork, WorkOK
  <2> QED
    BY <2>1
<1>4. CASE PlanRead(w)
  BY <1>0, <1>4 DEF PlanRead, jobVars, WorkOK, Work, WorkMatches
<1>5. CASE PlanMarkFailed(w) \/ AgentMarkFailed(w)
  <2>1. work' = work /\ worker[w].pc = "failing" /\ task[worker[w].job].type # "execute"
    BY <1>5 DEF PlanMarkFailed, AgentMarkFailed, MarkFailed
  <2>2. work[w].pc = "none"
    BY <1>0, <2>1 DEF WorkMatches, ExecPcs
  <2> QED
    BY <2>1, <2>2
<1>6. ASSUME work[w].pc # "none", UNCHANGED worker
      PROVE  worker'[w].job = worker[w].job /\ worker[w].pc # "idle"
  BY <1>0, <1>6 DEF WorkMatches
<1>7. CASE AgentRead(w) \/ AgentPick(w) \/ AgentStartStep(w) \/ AgentFileCall(w)
           \/ (\E j \in Jobs : AgentSend(w, j))
           \/ (\E t \in Tools, j \in Jobs : AgentQueueTerminal(w, t, j))
  <2>1. UNCHANGED worker /\ work[w].pc \in AgentPcs
    BY <1>7 DEF AgentRead, AgentPick, AgentStartStep, AgentFileCall, AgentSend,
                AgentQueueTerminal, CreateJob, Enqueue, jobVars
  <2>2. work'[w].pc \in AgentPcs
    <3>1. CASE AgentRead(w)
      BY <1>0, <3>1 DEF AgentRead, SetWork, WorkOK, Work
    <3>2. CASE AgentPick(w)
      BY <1>0, <3>2 DEF AgentPick, WorkOK, Work
    <3>3. CASE AgentStartStep(w)
      BY <1>0, <3>3 DEF AgentStartStep, WorkOK, Work
    <3>4. CASE AgentFileCall(w)
      BY <1>0, <3>4 DEF AgentFileCall, SetWork, WorkOK, Work
    <3>5. ASSUME NEW j \in Jobs, AgentSend(w, j) PROVE work'[w].pc \in AgentPcs
      BY <1>0, <3>5 DEF AgentSend, SetWork, WorkOK, Work
    <3>6. ASSUME NEW t \in Tools, NEW j \in Jobs, AgentQueueTerminal(w, t, j)
          PROVE  work'[w].pc \in AgentPcs
      BY <1>0, <3>6 DEF AgentQueueTerminal, NoWork, WorkOK
    <3> QED
      BY <1>7, <3>1, <3>2, <3>3, <3>4, <3>5, <3>6
  <2> QED
    BY <1>6, <2>1, <2>2
<1>8. CASE ExecStep(w) /\ ~EndWork(w)
  <2>1. UNCHANGED worker /\ work'[w].pc \in ExecPcs
    <3>1. CASE ExecRead(w)
      BY <1>0, <3>1 DEF ExecRead, jobVars, WorkOK, Work, ExecPcs
    <3>2. ASSUME NEW r \in Runtimes, ExecCreateRuntime(w, r)
          PROVE  UNCHANGED worker /\ work'[w].pc \in ExecPcs
      BY <1>0, <3>2 DEF ExecCreateRuntime, jobVars, WorkOK, Work, ExecPcs
    <3>3. CASE ExecLaunched(w) \/ ExecBegin(w) \/ ExecFailWaits(w)
      BY <1>0, <3>3 DEF ExecLaunched, ExecBegin, ExecFailWaits, SetWork, jobVars, WorkOK,
                        Work, ExecPcs
    <3>4. CASE ExecMarkRunning(w) \/ ExecFlush(w)
      BY <1>0, <3>4 DEF ExecMarkRunning, ExecFlush, jobVars, WorkOK, Work, ExecPcs
    <3>5. ASSUME NEW o, ExecReply(w, o)
          PROVE  UNCHANGED worker /\ work'[w].pc \in ExecPcs
      BY <1>0, <3>5 DEF ExecReply, jobVars, WorkOK, Work, ExecPcs
    <3> QED
      BY <1>8, <3>1, <3>2, <3>3, <3>4, <3>5
      DEF ExecStep, ExecSkip, ExecCommit, ExecRaises, ExecMarkFailed
  <2>2. worker[w].pc # "idle"
    <3>1. work[w].pc # "none" \/ worker[w].pc = "failing"
      BY <1>8
      DEF ExecStep, ExecSkip, ExecRead, ExecCreateRuntime, ExecLaunched, ExecMarkRunning,
          ExecBegin, ExecReply, ExecFlush, ExecCommit, ExecRaises, ExecFailWaits,
          ExecMarkFailed, MarkFailed
    <3> QED
      BY <1>0, <3>1 DEF WorkMatches
  <2> QED
    BY <2>1, <2>2 DEF ExecPcs
<1> QED
  BY <1>1, <1>2, <1>3, <1>4, <1>5, <1>7, <1>8
  DEF RunnerStep, PlanStep, PlanCommit, PlanRaises, AgentStep, AgentNoStep, AgentEnd,
      AgentCompleteStep, AgentRequestApproval, AgentClose, AgentRaises

\* RunnerMatches holds after every step.
LEMMA RunnerMatchesStep == TypeInv /\ RunnerMatches /\ [Next]_engineVars => RunnerMatches'
<1> SUFFICES ASSUME TypeInv, RunnerMatches, [Next]_engineVars PROVE RunnerMatches'
  OBVIOUS
<1>0. JobTypeOK /\ JobsInPlay /\ TaskOK /\ WorkOK /\ WorkMatches
  BY DEF TypeInv, DomainOK
<1> DEFINE Matches(v) ==
      /\ work[v].pc \in PlanPcs => task[worker[v].job].type = "plan"
      /\ work[v].pc \in AgentPcs => task[worker[v].job].type = "agent"
<1>1. \A v \in Workers : worker[v].pc # "idle" => task'[worker[v].job] = task[worker[v].job]
  BY <1>0, TaskKept DEF JobsInPlay, JobTypeOK
<1>2. ASSUME NEW v \in Workers, work'[v] = work[v], worker'[v] = worker[v]
      PROVE  Matches(v)'
  <2>1. work[v].pc # "none" => worker[v].pc # "idle"
    BY <1>0 DEF WorkMatches
  <2> QED
    BY <1>1, <1>2, <2>1 DEF RunnerMatches, PlanPcs, AgentPcs
<1>3. ASSUME NEW w \in Workers, Begin(w) PROVE Matches(w)'
  <2>1. /\ work'[w].pc = task[worker[w].job].type
        /\ task' = task /\ worker'[w].job = worker[w].job /\ worker[w].job \in Jobs
    BY <1>0, <1>3 DEF Begin, Claim, SetWorker, NoWork, WorkOK, JobTypeOK
  <2>2. task[worker[w].job].type \in {"none", "plan", "agent", "execute"}
    BY <1>0, <2>1 DEF TaskOK
  <2> QED
    BY <2>1, <2>2 DEF PlanPcs, AgentPcs
<1>4. ASSUME NEW w \in Workers, RunnerStep(w) \/ Receive(w) \/ WorkerCrash(w)
      PROVE  Matches(w)'
  <2>1. CASE work'[w].pc = "none"
    BY <2>1 DEF PlanPcs, AgentPcs
  <2>2. CASE work'[w].pc # "none"
    BY <1>1, <1>4, <2>2, RunnerStays DEF RunnerMatches
  <2> QED
    BY <2>1, <2>2
<1>5. \A v \in Workers : Matches(v)'
  BY <1>2, <1>3, <1>4, OthersRest DEF Acts
<1> QED
  BY <1>5 DEF RunnerMatches

\* The planner and the agent of every reachable state work on jobs of theirs,
\* and what a worker has claimed is a job of its own unless two claims
\* overlapped.
RunnerInv == TypeInv /\ RunnerMatches /\ ClaimInv /\ HeldInv

LEMMA RunnerInvHolds ==
    /\ Spec => []RunnerInv
    /\ PlannedSpec => []RunnerInv
<1>1. ASSUME NEW s, NEW p, DomainInit(s, p) PROVE RunnerMatches
  BY <1>1 DEF DomainInit, RunnerMatches, NoWork, PlanPcs, AgentPcs
<1>2. Init => RunnerMatches
  BY <1>1 DEF Init
<1>3. JobInit /\ DomainInit("running", 1) => RunnerMatches
  BY <1>1
<1>4. Spec => []RunnerInv
  <2>1. Spec => [](ClaimInv /\ HeldInv)
    BY EngineImplementsJobQueue, ClaimedAreHeldOnce
  <2>2. Spec => []TypeInv
    BY TypeInvHolds
  <2>3. Spec => []RunnerMatches
    BY <1>2, <2>2, RunnerMatchesStep, PTL DEF Spec
  <2> QED
    BY <2>1, <2>2, <2>3, PTL DEF RunnerInv
<1>5. PlannedSpec => []RunnerInv
  <2>1. PlannedSpec => [](ClaimInv /\ HeldInv)
    BY EngineImplementsJobQueue, ClaimedAreHeldOnce
  <2>2. PlannedSpec => []TypeInv
    BY TypeInvHolds
  <2>3. PlannedSpec => []RunnerMatches
    BY <1>3, <2>2, RunnerMatchesStep, PTL DEF PlannedSpec
  <2> QED
    BY <2>1, <2>2, <2>3, PTL DEF RunnerInv
<1> QED
  BY <1>4, <1>5

-----------------------------------------------------------------------------
(* Evidence. EvidenceOnce rests on the row lock of the tool call: of the   *)
(* executors of one call only one is between looking for evidence and      *)
(* committing it.                                                          *)

\* The steps by which an executor goes on to the next stage of its work.
Moves(w) ==
    \/ ExecRead(w) \/ ExecLaunched(w) \/ ExecMarkRunning(w) \/ ExecBegin(w)
    \/ ExecFlush(w) \/ ExecFailWaits(w)
    \/ \E r \in Runtimes : ExecCreateRuntime(w, r)
    \/ \E o \in {"succeeded", "failed", "timed_out"} : ExecReply(w, o)

\* A worker that executes after a step of its own has begun or moved on.
LEMMA ExecutorMoves ==
    ASSUME TypeInv, NEW w \in Workers, Acts(w), work'[w].pc \in ExecPcs
    PROVE  Begin(w) \/ Moves(w)
<1>0. JobTypeOK /\ WorkOK /\ WorkMatches
  BY DEF TypeInv, DomainOK
<1> USE DEF ExecPcs
<1>1. ~EndWork(w)
  BY <1>0 DEF EndWork, NoWork, WorkOK
<1>2. ~Receive(w)
  BY <1>0 DEF Receive, Deliver, domainVars, WorkMatches
<1>3. ~(PlanMarkFailed(w) \/ AgentMarkFailed(w))
  BY <1>0 DEF PlanMarkFailed, AgentMarkFailed, MarkFailed, WorkMatches
<1>4. ~PlanRead(w)
  BY <1>0 DEF PlanRead, WorkOK, Work
<1>5. ~(AgentRead(w) \/ AgentFileCall(w) \/ \E j \in Jobs : AgentSend(w, j))
  BY <1>0 DEF AgentRead, AgentFileCall, AgentSend, SetWork, WorkOK, Work
<1>6. ~(AgentPick(w) \/ AgentStartStep(w))
  BY <1>0 DEF AgentPick, AgentStartStep, WorkOK, Work
<1>7. ~(\E t \in Tools, j \in Jobs : AgentQueueTerminal(w, t, j))
  BY <1>0 DEF AgentQueueTerminal, NoWork, WorkOK
<1> QED
  BY <1>1, <1>2, <1>3, <1>4, <1>5, <1>6, <1>7
  DEF Acts, WorkerCrash, RunnerStep, PlanStep, PlanCommit, PlanRaises, AgentStep,
      AgentNoStep, AgentEnd, AgentCompleteStep, AgentRequestApproval, AgentClose,
      AgentRaises, ExecStep, ExecSkip, ExecCommit, ExecRaises, ExecMarkFailed, Moves

\* An executor that moves on keeps its job, and no other row or message is
\* touched.
LEMMA MovesKeepJobs ==
    ASSUME TypeInv, NEW w \in Workers, Moves(w)
    PROVE  UNCHANGED <<jobVars, task>> /\ Call(w)' = Call(w) /\ worker[w].pc # "idle"
<1>1. UNCHANGED <<jobVars, task>>
  BY DEF Moves, ExecRead, ExecLaunched, ExecMarkRunning, ExecBegin, ExecFlush,
         ExecFailWaits, ExecCreateRuntime, ExecReply, ExecUnchanged
<1>2. worker[w].pc # "idle"
  BY DEF Moves, ExecRead, ExecLaunched, ExecMarkRunning, ExecBegin, ExecFlush,
         ExecFailWaits, ExecCreateRuntime, ExecReply, TypeInv, DomainOK, WorkMatches
<1> QED
  BY <1>1, <1>2 DEF Call, jobVars

\* Who writes evidence, runs commands and creates plans.
LEMMA WhoWrites ==
    ASSUME [Next]_engineVars
    PROVE  /\ UNCHANGED evidence \/ \E w \in Workers : ExecCommit(w)
           /\ UNCHANGED runs \/ \E w \in Workers : ExecBegin(w)
           /\ UNCHANGED planned \/ \E w \in Workers : PlanCommit(w)
<1> DEFINE Written ==
      /\ UNCHANGED evidence \/ \E w \in Workers : ExecCommit(w)
      /\ UNCHANGED runs \/ \E w \in Workers : ExecBegin(w)
      /\ UNCHANGED planned \/ \E w \in Workers : PlanCommit(w)
<1>1. ASSUME NEW c \in Clients, UserStep(c) \/ Resolve(c)
      PROVE  UNCHANGED <<evidence, runs, planned>>
  BY <1>1
  DEF UserStep, AskResolve, AskStep, AskSimple, AskStop, AskStartRuntime, AskStopRuntime,
      Resolve, ApprovalStep, Approve, Deny, ApprovalUnchanged, HandlerStep, Transition,
      Start, RunAgent, RunCommand, StopFlush, StopCall, StopCallFails, StopCommit,
      StopRuntimeCall, StopRuntimeCommit, StartRuntime, ServiceUnchanged, planVars, callVars
<1>2. ASSUME NEW j \in Jobs, ApiEnqueue(j) \/ ApiEnqueueFails(j) \/ Broker(j)
      PROVE  UNCHANGED <<evidence, runs, planned>>
  BY <1>2 DEF ApiEnqueue, ApiEnqueueFails, Broker, domainVars, ServiceUnchanged, planVars
<1>3. ASSUME NEW w \in Workers, Receive(w) \/ Begin(w) \/ WorkerCrash(w) \/ AgentStep(w)
      PROVE  UNCHANGED <<evidence, runs, planned>>
  BY <1>3 DEF Receive, Begin, WorkerCrash, domainVars, planVars, callVars, AgentStep,
     AgentRead, AgentPick, AgentStartStep, AgentNoStep, AgentFileCall, AgentEnd,
     AgentCompleteStep, AgentRequestApproval, AgentQueueTerminal, AgentSend, AgentClose,
     AgentRaises, AgentMarkFailed, AgentUnchanged
<1>4. ASSUME NEW w \in Workers, PlanStep(w) PROVE Written
  <2>1. UNCHANGED <<evidence, runs>>
    BY <1>4 DEF PlanStep, PlanRead, PlanCommit, PlanRaises, PlanMarkFailed, PlanUnchanged,
                callVars
  <2>2. UNCHANGED planned \/ PlanCommit(w)
    BY <1>4 DEF PlanStep, PlanRead, PlanRaises, PlanMarkFailed
  <2> QED
    BY <2>1, <2>2
<1>5. ASSUME NEW w \in Workers, ExecStep(w) PROVE Written
  <2>1. UNCHANGED planned
    BY <1>5 DEF ExecStep, ExecSkip, ExecRead, ExecCreateRuntime, ExecLaunched,
       ExecMarkRunning, ExecBegin, ExecReply, ExecFlush, ExecCommit, ExecRaises,
       ExecFailWaits, ExecMarkFailed, ExecUnchanged, planVars
  <2> QED
    BY <1>5, <2>1 DEF ExecStep, ExecSkip, ExecRead, ExecCreateRuntime, ExecLaunched,
       ExecMarkRunning, ExecBegin, ExecReply, ExecFlush, ExecCommit, ExecRaises,
       ExecFailWaits, ExecMarkFailed, CallUnchanged
<1>6. ASSUME NEW r \in Runtimes, LaunchStep(r) PROVE UNCHANGED <<evidence, runs, planned>>
  BY <1>6 DEF LaunchStep, LaunchCall, LaunchRecord, OnlyRuntime, callVars, planVars
<1>7. ASSUME NEW S \in SUBSET Jobs, Stale(S) PROVE UNCHANGED <<evidence, runs, planned>>
  BY <1>7 DEF Stale, domainVars
<1>8. CASE ReconcileStale
  BY <1>8 DEF ReconcileStale, PlanUnchanged, callVars
<1>9. CASE UNCHANGED engineVars
  BY <1>9 DEF engineVars, domainVars
<1> QED
  BY <1>1, <1>2, <1>3, <1>4, <1>5, <1>6, <1>7, <1>8, <1>9 DEF Next, RunnerStep

Finishing(w) == work[w].pc = "finishing"

EvidenceInv ==
    /\ EvidenceOnce
    /\ \A w \in Workers : Finishing(w) =>
         /\ work[w].tool = Call(w)
         /\ work[w].sawEvidence \/ evidence[Call(w)] = 0
    /\ \A v, w \in Workers : Finishing(v) /\ Finishing(w) /\ work[v].tool = work[w].tool
                                => v = w

\* A worker that is finishing after a step was so before, or has just taken
\* the lock of its call.
LEMMA FinishingStep ==
    ASSUME TypeInv, NEW w \in Workers, Acts(w), Finishing(w)'
    PROVE  ExecFlush(w)
<1>1. WorkOK
  BY DEF TypeInv, DomainOK
<1>2. ~Begin(w)
  <2>1. ASSUME Begin(w) PROVE task[worker[w].job].type = "finishing"
    BY <1>1, <2>1 DEF Begin, NoWork, WorkOK, Finishing
  <2>2. ASSUME Begin(w) PROVE task[worker[w].job].type # "finishing"
    BY <2>2 DEF Begin, Claim, TypeInv, DomainOK, JobTypeOK, TaskOK
  <2> QED
    BY <2>1, <2>2
<1>3. Moves(w)
  BY <1>2, ExecutorMoves DEF Finishing, ExecPcs
<1> USE <1>1 DEF Finishing, WorkOK, Work
<1>4. ~(ExecLaunched(w) \/ ExecBegin(w) \/ ExecFailWaits(w))
  BY DEF ExecLaunched, ExecBegin, ExecFailWaits, SetWork
<1>5. ~(ExecRead(w) \/ ExecMarkRunning(w))
  BY DEF ExecRead, ExecMarkRunning
<1>6. ~(\E r \in Runtimes : ExecCreateRuntime(w, r))
  BY DEF ExecCreateRuntime
<1>7. ASSUME NEW o, ExecReply(w, o) PROVE FALSE
  BY <1>7 DEF ExecReply
<1> QED
  BY <1>3, <1>4, <1>5, <1>6, <1>7 DEF Moves

\* EvidenceInv holds after every step.
LEMMA EvidenceInvStep == TypeInv /\ EvidenceInv /\ [Next]_engineVars => EvidenceInv'
<1> SUFFICES ASSUME TypeInv, EvidenceInv, [Next]_engineVars PROVE EvidenceInv'
  OBVIOUS
<1>0. JobTypeOK /\ JobsInPlay /\ CallsOK /\ WorkOK /\ WorkMatches
  BY DEF TypeInv, DomainOK
<1>1. ASSUME NEW v \in Workers, Finishing(v), worker'[v] = worker[v]
      PROVE  Call(v)' = Call(v) /\ Call(v) \in Tools
  <2>1. worker[v].pc # "idle"
    BY <1>0, <1>1 DEF WorkMatches, Finishing
  <2>2. task'[worker[v].job] = task[worker[v].job]
    BY <1>0, <2>1, TaskKept DEF JobsInPlay, JobTypeOK
  <2> QED
    BY <1>1, <2>2, ExecutorHasCall DEF Call, Finishing, ExecPcs
<1>2. CASE UNCHANGED <<work, worker>>
  <2>1. UNCHANGED evidence
    <3>1. \A w \in Workers : ~ExecCommit(w)
      BY <1>0, <1>2 DEF ExecCommit, EndWork, NoWork, WorkOK
    <3> QED
      BY <3>1, WhoWrites
  <2> QED
    BY <1>1, <1>2, <2>1 DEF EvidenceInv, EvidenceOnce, Finishing
<1>3. ASSUME NEW w \in Workers, Acts(w),
             \A v \in Workers \ {w} : work'[v] = work[v] /\ worker'[v] = worker[v]
      PROVE  EvidenceInv'
  <2>0. \A v \in Workers \ {w} : Finishing(v)' =>
           Finishing(v) /\ Call(v)' = Call(v) /\ Call(v) \in Tools
    BY <1>1, <1>3 DEF Finishing
  <2>1. CASE ExecFlush(w)
    <3>1. /\ work'[w].tool = Call(w) /\ Call(w)' = Call(w) /\ UNCHANGED evidence
          /\ work'[w].sawEvidence = (evidence[Call(w)] > 0)
          /\ evidence[Call(w)] \in Nat
      <4>1. Moves(w) /\ Call(w) \in Tools
        BY <2>1, ExecutorHasCall DEF Moves, ExecFlush, ExecPcs
      <4> QED
        BY <1>0, <2>1, <4>1, MovesKeepJobs DEF ExecFlush, WorkOK, Work, CallUnchanged, CallsOK
    <3>2. \A v \in Workers : Finishing(v) => work[v].tool # Call(w)
      BY <2>1 DEF ExecFlush, CallFree, Finishing
    <3>3. EvidenceOnce'
      BY <3>1 DEF EvidenceInv, EvidenceOnce
    <3>4. \A v \in Workers : Finishing(v)' =>
             /\ (work[v].tool = Call(v))'
             /\ (work[v].sawEvidence \/ evidence[Call(v)] = 0)'
      <4>1. work'[w].sawEvidence \/ evidence'[Call(w)'] = 0
        <5>1. evidence[Call(w)] = 0 \/ (evidence[Call(w)] > 0) = TRUE
          BY <3>1
        <5> QED
          BY <3>1, <5>1
      <4>2. ASSUME NEW v \in Workers \ {w}, Finishing(v)'
            PROVE  /\ (work[v].tool = Call(v))'
                   /\ (work[v].sawEvidence \/ evidence[Call(v)] = 0)'
        <5>1. /\ work'[v] = work[v] /\ Call(v)' = Call(v) /\ evidence' = evidence
              /\ Finishing(v)
          BY <1>3, <2>0, <3>1, <4>2
        <5>2. /\ work[v].tool = Call(v)
              /\ work[v].sawEvidence \/ evidence[Call(v)] = 0
          BY <5>1 DEF EvidenceInv
        <5> QED
          BY <5>1, <5>2
      <4> QED
        BY <3>1, <4>1, <4>2
    <3>5. \A u, v \in Workers : Finishing(u)' /\ Finishing(v)'
                                  /\ (work[u].tool = work[v].tool)' => u = v
      BY <1>3, <2>0, <3>1, <3>2 DEF EvidenceInv
    <3> QED
      BY <3>3, <3>4, <3>5 DEF EvidenceInv
  <2>2. CASE ~ExecFlush(w)
    <3>1. \A v \in Workers : Finishing(v)' =>
             v # w /\ Finishing(v) /\ Call(v)' = Call(v) /\ work'[v] = work[v] /\ Call(v) \in Tools
      BY <1>3, <2>0, <2>2, FinishingStep
    <3>2. /\ EvidenceOnce'
          /\ \A v \in Workers : Finishing(v)' => evidence'[Call(v)] = evidence[Call(v)]
      <4>1. CASE UNCHANGED evidence
        BY <4>1 DEF EvidenceInv, EvidenceOnce
      <4>2. ASSUME NEW u \in Workers, ExecCommit(u), ~(UNCHANGED evidence)
            PROVE  /\ EvidenceOnce'
                   /\ \A v \in Workers : Finishing(v)' => evidence'[Call(v)] = evidence[Call(v)]
        <5>1. /\ Finishing(u) /\ Call(u) \in Tools /\ ~Finishing(u)'
              /\ evidence' = [evidence EXCEPT ![Call(u)] = evidence[Call(u)] + 1]
              /\ ~work[u].sawEvidence
          <6>1. Call(u) \in Tools
            BY <4>2, ExecutorHasCall DEF ExecCommit, ExecPcs
          <6> QED
            BY <1>0, <4>2, <6>1 DEF ExecCommit, EndWork, NoWork, WorkOK, Finishing
        <5>2. evidence[Call(u)] = 0
          BY <5>1 DEF EvidenceInv
        <5>3. EvidenceOnce'
          BY <1>0, <5>1, <5>2 DEF EvidenceInv, EvidenceOnce, CallsOK
        <5>4. \A v \in Workers : Finishing(v)' => v # u /\ Call(v) # Call(u)
          BY <3>1, <5>1 DEF EvidenceInv
        <5> QED
          BY <1>0, <3>1, <5>1, <5>3, <5>4 DEF CallsOK
      <4> QED
        BY <4>1, <4>2, WhoWrites
    <3>3. \A v \in Workers : Finishing(v)' =>
             /\ (work[v].tool = Call(v))'
             /\ (work[v].sawEvidence \/ evidence[Call(v)] = 0)'
      BY <3>1, <3>2 DEF EvidenceInv
    <3>4. \A u, v \in Workers : Finishing(u)' /\ Finishing(v)'
                                  /\ (work[u].tool = work[v].tool)' => u = v
      BY <3>1 DEF EvidenceInv
    <3> QED
      BY <3>2, <3>3, <3>4 DEF EvidenceInv
  <2> QED
    BY <2>1, <2>2
<1> QED
  BY <1>2, <1>3, OthersRest

\* However often messages are delivered, claims overlap, workers crash and
\* uploads fail, one tool call leaves at most one piece of evidence.
THEOREM EvidenceIsSingle ==
    /\ Spec => []EvidenceOnce
    /\ PlannedSpec => []EvidenceOnce
<1>1. ASSUME NEW s, NEW p, DomainInit(s, p) PROVE EvidenceInv
  BY <1>1 DEF DomainInit, EvidenceInv, EvidenceOnce, Finishing, NoWork
<1>2. Init => EvidenceInv
  BY <1>1 DEF Init
<1>3. JobInit /\ DomainInit("running", 1) => EvidenceInv
  BY <1>1
<1>4. EvidenceInv => EvidenceOnce
  BY DEF EvidenceInv
<1>5. Spec => []EvidenceOnce
  BY <1>2, <1>4, EvidenceInvStep, TypeInvHolds, PTL DEF Spec
<1>6. PlannedSpec => []EvidenceOnce
  BY <1>3, <1>4, EvidenceInvStep, TypeInvHolds, PTL DEF PlannedSpec
<1> QED
  BY <1>5, <1>6

-----------------------------------------------------------------------------
(* Planning. A session that is being planned is never left to itself.      *)

\* The steps with which a runner ends its job.
RunnerEnds(w) ==
    \/ PlanCommit(w) \/ PlanMarkFailed(w)
    \/ AgentNoStep(w) \/ AgentEnd(w) \/ AgentCompleteStep(w) \/ AgentClose(w)
    \/ AgentMarkFailed(w) \/ \E t \in Tools : AgentRequestApproval(w, t)
    \/ ExecSkip(w) \/ ExecCommit(w) \/ ExecMarkFailed(w)

\* Who writes the row of a job that exists.
LEMMA RowWritten ==
    ASSUME TypeInv, [Next]_engineVars, NEW j \in Jobs, StatusOf(j) # "none",
           StatusOf(j)' # StatusOf(j)
    PROVE  \/ ApiEnqueueFails(j)
           \/ \E w \in Workers : worker[w].job = j /\ (Begin(w) \/ RunnerEnds(w))
           \/ \E c \in Clients : StopCommit(c) /\ j \in canceller.jobs
           \/ ReconcileStale /\ j \in reaper.jobs
<1>0. JobTypeOK
  BY DEF TypeInv
<1> USE DEF StatusOf
<1>a. ASSUME NEW i \in Jobs, CreateJob(i) PROVE FALSE
  BY <1>0, <1>a DEF CreateJob, JobTypeOK
<1>1. ASSUME NEW c \in Clients, UserStep(c) PROVE FALSE
  BY <1>1
  DEF UserStep, AskResolve, AskStep, AskSimple, AskStop, AskStartRuntime, AskStopRuntime,
      jobVars, CancelSelect
<1>2. ASSUME NEW c \in Clients, Resolve(c), ~StopCommit(c) PROVE FALSE
  BY <1>a, <1>2
  DEF Resolve, ApprovalStep, Approve, Deny, HandlerStep, Transition, Start, RunAgent,
      RunCommand, StopFlush, StopCall, StopCallFails, StopRuntimeCall, StopRuntimeCommit,
      StartRuntime, jobVars, CancelFlush
<1>3. ASSUME NEW c \in Clients, StopCommit(c) PROVE j \in canceller.jobs
  BY <1>3 DEF StopCommit, CancelCommit
<1>4. ASSUME NEW i \in Jobs, ApiEnqueue(i) \/ Broker(i) PROVE FALSE
  BY <1>4 DEF ApiEnqueue, Enqueue, Broker, EnqueueNever, Duplicate, DeliverTooEarly
<1>5. ASSUME NEW i \in Jobs, ApiEnqueueFails(i) PROVE i = j
  BY <1>0, <1>5 DEF ApiEnqueueFails, EnqueueFails, SetStatus, JobTypeOK
<1>6. ASSUME NEW w \in Workers, Receive(w) \/ WorkerCrash(w) PROVE FALSE
  BY <1>6 DEF Receive, Deliver, WorkerCrash, Crash
<1>7. ASSUME NEW w \in Workers, Begin(w) PROVE worker[w].job = j
  BY <1>0, <1>7 DEF Begin, Claim, JobTypeOK
<1>8. ASSUME NEW w \in Workers, RunnerEnds(w) PROVE worker[w].job = j
  <2>1. Succeed(w) \/ MarkFailed(w)
    BY <1>8 DEF RunnerEnds, PlanCommit, PlanMarkFailed, AgentNoStep, AgentEnd,
       AgentCompleteStep, AgentClose, AgentMarkFailed, AgentRequestApproval, ExecSkip,
       ExecCommit, ExecMarkFailed
  <2> QED
    BY <1>0, <2>1 DEF Succeed, MarkFailed, SetStatus, JobTypeOK
<1>9. ASSUME NEW w \in Workers, RunnerStep(w), ~RunnerEnds(w) PROVE FALSE
  <2>1. CASE PlanStep(w)
    BY <1>9, <2>1 DEF PlanStep, RunnerEnds, PlanRead, PlanRaises, Raise, jobVars
  <2>2. CASE AgentStep(w)
    <3>1. UNCHANGED job \/ \E i \in Jobs : CreateJob(i)
      BY <1>9, <2>2 DEF AgentStep, RunnerEnds, AgentRead, AgentPick, AgentStartStep,
         AgentFileCall, AgentQueueTerminal, AgentSend, AgentRaises, Raise, Enqueue, jobVars
    <3> QED
      BY <1>a, <3>1
  <2>3. CASE ExecStep(w)
    <3>1. Moves(w) \/ ExecRaises(w)
      BY <1>9, <2>3 DEF ExecStep, RunnerEnds, Moves
    <3>2. UNCHANGED job
      BY <3>1, MovesKeepJobs DEF ExecRaises, Raise, jobVars
    <3> QED
      BY <3>2
  <2> QED
    BY <1>9, <2>1, <2>2, <2>3 DEF RunnerStep
<1>10. ASSUME NEW r \in Runtimes, LaunchStep(r) PROVE FALSE
  BY <1>10 DEF LaunchStep, LaunchCall, LaunchRecord, OnlyRuntime, jobVars
<1>11. ASSUME NEW S \in SUBSET Jobs, Stale(S) PROVE FALSE
  BY <1>11 DEF Stale, ReconcileSelect
<1>12. CASE ReconcileStale
  <2>1. j \in reaper.jobs
    BY <1>12 DEF ReconcileStale, ReconcileCommit
  <2> QED
    BY <1>12, <2>1
<1>13. CASE UNCHANGED engineVars
  BY <1>13 DEF engineVars, jobVars
<1> QED
  BY <1>1, <1>2, <1>3, <1>4, <1>5, <1>6, <1>7, <1>8, <1>9, <1>10, <1>11, <1>12, <1>13
  DEF Next

\* Only start_session makes a session "planning".
LEMMA PlanningStarts ==
    ASSUME TypeInv, [Next]_engineVars, session' = "planning", session # "planning"
    PROVE  \E c \in Clients, j \in Jobs : Start(c, j)
<1>1. ASSUME NEW c \in Clients, UserStep(c) PROVE FALSE
  BY <1>1
  DEF UserStep, AskResolve, AskStep, AskSimple, AskStop, AskStartRuntime, AskStopRuntime
<1>2. ASSUME NEW c \in Clients, ApprovalStep(c) PROVE FALSE
  BY <1>2 DEF ApprovalStep, Approve, Deny, WakeSession
<1>3. ASSUME NEW c \in Clients, Transition(c) PROVE FALSE
  BY <1>3 DEF Transition, Becomes
<1>4. ASSUME NEW c \in Clients, HandlerStep(c) PROVE \E j \in Jobs : Start(c, j)
  BY <1>3, <1>4
  DEF HandlerStep, RunAgent, RunCommand, StopFlush, StopCall, StopCallFails, StopCommit,
      StopRuntimeCall, StopRuntimeCommit, StartRuntime
<1>5. ASSUME NEW j \in Jobs, ApiEnqueue(j) \/ ApiEnqueueFails(j) \/ Broker(j) PROVE FALSE
  BY <1>5 DEF ApiEnqueue, ApiEnqueueFails, Broker, domainVars
<1>6. ASSUME NEW w \in Workers, Receive(w) \/ Begin(w) \/ WorkerCrash(w) PROVE FALSE
  BY <1>6 DEF Receive, Begin, WorkerCrash, domainVars
<1>7. ASSUME NEW w \in Workers, PlanStep(w) PROVE FALSE
  BY <1>7 DEF PlanStep, PlanRead, PlanCommit, PlanRaises, PlanMarkFailed, FailPlanning
<1>8. ASSUME NEW w \in Workers, AgentStep(w) PROVE FALSE
  BY <1>8 DEF AgentStep, AgentRead, AgentPick, AgentStartStep, AgentNoStep,
     AgentFileCall, AgentEnd, AgentCompleteStep, AgentRequestApproval, AgentQueueTerminal,
     AgentSend, AgentClose, AgentRaises, AgentMarkFailed, CompleteIfReady
<1>9. ASSUME NEW w \in Workers, ExecStep(w) PROVE FALSE
  BY <1>9 DEF ExecStep, ExecSkip, ExecRead, ExecCreateRuntime, ExecLaunched,
     ExecMarkRunning, ExecBegin, ExecReply, ExecFlush, ExecCommit, ExecRaises,
     ExecFailWaits, ExecMarkFailed, ExecUnchanged
<1>10. ASSUME NEW r \in Runtimes, LaunchStep(r) PROVE FALSE
  BY <1>10 DEF LaunchStep, LaunchCall, LaunchRecord, OnlyRuntime
<1>11. ASSUME NEW S \in SUBSET Jobs, Stale(S) PROVE FALSE
  BY <1>11 DEF Stale, domainVars
<1>12. ~ReconcileStale
  BY DEF ReconcileStale, FailPlanning
<1>13. ~UNCHANGED engineVars
  BY DEF engineVars, domainVars
<1> QED
  BY <1>1, <1>2, <1>4, <1>5, <1>6, <1>7, <1>8, <1>9, <1>10, <1>11, <1>12, <1>13
  DEF Next, Resolve, RunnerStep

\* Whatever settles the last planning job also moves the session on.
LEMMA PlanningStep ==
    TypeInv /\ RunnerMatches /\ PlanningHasJob /\ [Next]_engineVars => PlanningHasJob'
<1> SUFFICES ASSUME TypeInv, RunnerMatches, PlanningHasJob, [Next]_engineVars,
                    session' = "planning"
             PROVE  \E j \in Jobs : (task[j].type = "plan" /\ Pending(j))'
  BY DEF PlanningHasJob
<1>0. JobTypeOK /\ TaskOK /\ WorkMatches
  BY DEF TypeInv, DomainOK
<1>1. CASE session # "planning"
  <2>1. PICK c \in Clients, j \in Jobs : Start(c, j)
    BY <1>1, PlanningStarts
  <2>2. (task[j].type = "plan" /\ Pending(j))'
    BY <1>0, <2>1 DEF Start, CreateJob, Payload, JobTypeOK, TaskOK, Pending, StatusOf
  <2> QED
    BY <2>2
<1>2. CASE session = "planning"
  <2>1. PICK j \in Jobs : task[j].type = "plan" /\ Pending(j)
    BY <1>2 DEF PlanningHasJob
  <2>2. StatusOf(j) # "none" /\ task'[j] = task[j]
    BY <2>1, TaskKept DEF Pending
  <2>3. ASSUME StatusOf(j)' # StatusOf(j) PROVE Pending(j)'
    <3>1. ~ApiEnqueueFails(j)
      BY <2>1 DEF ApiEnqueueFails
    <3>2. \A c \in Clients : ~StopCommit(c)
      BY DEF StopCommit
    <3>3. ~ReconcileStale
      BY DEF ReconcileStale, FailPlanning
    <3>4. ASSUME NEW w \in Workers, worker[w].job = j, RunnerEnds(w) PROVE FALSE
      <4>1. ~PlanCommit(w) /\ ~PlanMarkFailed(w)
        BY DEF PlanCommit, PlanMarkFailed, FailPlanning
      <4>2. work[w].pc \notin AgentPcs \cup ExecPcs
        BY <1>0, <2>1, <3>4 DEF RunnerMatches, WorkMatches
      <4> QED
        BY <2>1, <3>4, <4>1, <4>2
        DEF RunnerEnds, AgentNoStep, AgentEnd, AgentCompleteStep, AgentClose,
            AgentMarkFailed, AgentRequestApproval, ExecSkip, ExecCommit, ExecMarkFailed,
            AgentPcs, ExecPcs
    <3>5. PICK w \in Workers : worker[w].job = j /\ Begin(w)
      BY <2>2, <2>3, <3>1, <3>2, <3>3, <3>4, RowWritten
    <3> QED
      BY <1>0, <3>5 DEF Begin, Claim, Claimed, Pending, StatusOf, JobTypeOK
  <2>4. Pending(j)'
    BY <2>1, <2>3 DEF Pending
  <2> QED
    BY <2>1, <2>2, <2>4
<1> QED
  BY <1>1, <1>2

\* A session that is being planned has a planning job still to be done or at
\* work, whichever of enqueueing, stop, reconciliation or a crash comes between.
THEOREM PlanningIsServed ==
    /\ Spec => []PlanningHasJob
    /\ PlannedSpec => []PlanningHasJob
<1>1. ASSUME NEW s, NEW p, DomainInit(s, p), s # "planning" PROVE PlanningHasJob
  BY <1>1 DEF DomainInit, PlanningHasJob
<1>2. Init => PlanningHasJob
  BY <1>1 DEF Init
<1>3. JobInit /\ DomainInit("running", 1) => PlanningHasJob
  BY <1>1
<1>4. RunnerInv => TypeInv /\ RunnerMatches
  BY DEF RunnerInv
<1>5. Spec => []PlanningHasJob
  BY <1>2, <1>4, PlanningStep, RunnerInvHolds, PTL DEF Spec
<1>6. PlannedSpec => []PlanningHasJob
  BY <1>3, <1>4, PlanningStep, RunnerInvHolds, PTL DEF PlannedSpec
<1> QED
  BY <1>5, <1>6

-----------------------------------------------------------------------------
(* Rows and histories only grow.                                           *)

Rows == {j \in Jobs : StatusOf(j) # "none"}

\* A step of the queue adds at most one row.
LEMMA RowsGrow ==
    ASSUME JobTypeOK, JobsInPlay, [JobNext]_jobVars
    PROVE  Rows' = Rows \/ \E j \in Jobs : Rows' = Rows \cup {j}
<1>1. ASSUME NEW j \in Jobs, CreateJob(j) PROVE Rows' = Rows \cup {j}
  BY <1>1 DEF CreateJob, Rows, StatusOf, JobTypeOK
<1>2. CASE [OldRowStep]_jobVars
  BY <1>2, RowsStay DEF Rows
<1> QED
  BY <1>1, <1>2 DEF JobNext, OldRowStep, CancelStep

\* The table `jobs' is finite, whatever Jobs is.
LEMMA RowsAreFinite == JobSpec => []IsFiniteSet(Rows)
<1>1. JobInit => IsFiniteSet(Rows)
  <2>1. JobInit => Rows = {}
    BY DEF JobInit, Rows, StatusOf
  <2> QED
    BY <2>1, FS_EmptySet
<1>2. JobTypeOK /\ JobsInPlay /\ IsFiniteSet(Rows) /\ [JobNext]_jobVars
        => IsFiniteSet(Rows)'
  BY RowsGrow, FS_AddElement
<1> QED
  BY <1>1, <1>2, JobTypeCorrect, JobsInPlayExist, PTL DEF JobSpec

\* Overlaps are not forgotten and runs are not uncounted.
LEMMA HistoryGrows ==
    ASSUME JobTypeOK, [JobNext]_jobVars
    PROVE  /\ overlap \subseteq overlap'
           /\ \A j \in Jobs : begun'[j] \in Nat /\ begun'[j] >= begun[j]
<1>1. overlap \subseteq overlap'
  BY DEF JobNext, jobVars, CreateJob, Enqueue, EnqueueFails, EnqueueNever, Duplicate,
         WorkerStep, Deliver, Claim, Succeed, Raise, MarkFailed, Crash, DeliverTooEarly,
         CancelSelect, CancelStep, CancelFlush, CancelCommit, ReconcileSelect,
         ReconcileCommit
<1>2. UNCHANGED begun \/ \E w \in Workers : Claim(w)
  BY DEF JobNext, jobVars, CreateJob, Enqueue, EnqueueFails, EnqueueNever, Duplicate,
         WorkerStep, Deliver, Succeed, Raise, MarkFailed, Crash, DeliverTooEarly,
         CancelSelect, CancelStep, CancelFlush, CancelCommit, ReconcileSelect,
         ReconcileCommit
<1>3. ASSUME NEW w \in Workers, Claim(w), NEW j \in Jobs PROVE begun'[j] \in Nat /\ begun'[j] >= begun[j]
  BY <1>3 DEF Claim, JobTypeOK
<1> QED
  BY <1>1, <1>2, <1>3 DEF JobTypeOK

-----------------------------------------------------------------------------
(* Plans. PlannedOnce rests on the claim: a planner at work is the first   *)
(* one of its job, so that nothing has been planned yet if there is no     *)
(* other job.                                                              *)

PlanJobs == {j \in Jobs : task[j].type = "plan"}
Planners == {w \in Workers : work[w].pc \in PlanPcs}

PlanInv ==
    overlap = {} /\ (\A i, j \in PlanJobs : i = j) =>
        /\ planned <= 1
        /\ planned = 1 => Planners = {} /\ \E j \in PlanJobs : begun[j] >= 1

\* A planner holds a planning job that was begun.
LEMMA PlannerHolds ==
    ASSUME RunnerInv, NEW w \in Planners
    PROVE  /\ worker[w].job \in PlanJobs
           /\ w \in Held(worker[w].job)
           /\ overlap = {} => begun[worker[w].job] >= 1
<1>0. JobTypeOK /\ WorkMatches /\ WorkOK /\ RunnerMatches /\ HeldInv
  BY DEF RunnerInv, TypeInv, DomainOK
<1>1. worker[w].pc = "working" /\ worker[w].job \in Jobs
  BY <1>0 DEF Planners, PlanPcs, WorkMatches, JobTypeOK
<1>2. w \in Held(worker[w].job)
  BY <1>1 DEF Planners, Held
<1>3. worker[w].job \in PlanJobs
  BY <1>0, <1>1 DEF Planners, PlanJobs, RunnerMatches
<1> QED
  BY <1>0, <1>1, <1>2, <1>3 DEF HeldInv

\* PlanInv holds after every step.
LEMMA PlanInvStep == RunnerInv /\ PlanInv /\ [Next]_engineVars => PlanInv'
<1> SUFFICES ASSUME RunnerInv, PlanInv, [Next]_engineVars,
                    overlap' = {}, \A i, j \in PlanJobs' : i = j
             PROVE  /\ planned' <= 1
                    /\ planned' = 1 => Planners' = {} /\ \E j \in PlanJobs' : begun'[j] >= 1
  BY DEF PlanInv
<1>0. /\ TypeInv /\ JobTypeOK /\ JobsInPlay /\ TaskOK /\ WorkOK /\ SessionOK /\ ClaimInv
      /\ HeldInv
  BY DEF RunnerInv, TypeInv, DomainOK
<1>1. overlap = {} /\ \A j \in Jobs : begun'[j] \in Nat /\ begun'[j] >= begun[j]
  BY <1>0, HistoryGrows, EngineStepIsJobStep
<1>2. PlanJobs \subseteq PlanJobs'
  BY <1>0, TaskKept DEF PlanJobs, TaskOK
<1>3. /\ planned \in Nat /\ planned <= 1
      /\ planned = 1 => Planners = {} /\ \E j \in PlanJobs : begun[j] >= 1
  BY <1>0, <1>1, <1>2 DEF PlanInv, SessionOK
<1>4. ASSUME NEW w \in Workers, Begin(w), work'[w].pc \in PlanPcs
      PROVE  planned' # 1
  <2>1. /\ worker[w].pc = "loaded" /\ worker[w].job \in Jobs
        /\ work'[w].pc = task[worker[w].job].type
        /\ planned' = planned
    BY <1>0, <1>4 DEF Begin, Claim, NoWork, WorkOK, JobTypeOK, planVars
  <2>2. worker[w].job \in PlanJobs
    BY <1>0, <1>4, <2>1 DEF PlanJobs, PlanPcs, TaskOK
  <2>3. begun[worker[w].job] = 0
    BY <1>0, <1>1, <2>1 DEF ClaimInv, LoadedBy
  <2>4. \A j \in PlanJobs : begun[j] = 0
    BY <1>2, <2>2, <2>3
  <2> QED
    BY <1>3, <2>1, <2>4
<1>5. CASE UNCHANGED planned
  <2>1. ASSUME planned' = 1 PROVE Planners' = {}
    <3>1. Planners = {}
      BY <1>3, <1>5, <2>1
    <3>2. ASSUME NEW v \in Workers, work'[v].pc \in PlanPcs PROVE FALSE
      <4>1. CASE work'[v] = work[v]
        BY <3>1, <3>2, <4>1 DEF Planners
      <4>2. CASE Begin(v)
        BY <1>4, <2>1, <3>2, <4>2
      <4>3. CASE RunnerStep(v) \/ Receive(v) \/ WorkerCrash(v)
        <5>1. work'[v].pc # "none"
          BY <3>2 DEF PlanPcs
        <5> QED
          BY <1>0, <3>1, <3>2, <4>3, <5>1, RunnerStays DEF Planners
      <4> QED
        BY <1>0, <4>1, <4>2, <4>3, OthersRest DEF Acts
    <3> QED
      BY <3>2 DEF Planners
  <2>2. ASSUME planned' = 1 PROVE \E j \in PlanJobs' : begun'[j] >= 1
    <3>1. PICK j \in PlanJobs : begun[j] >= 1
      BY <1>3, <1>5, <2>2
    <3>2. begun'[j] >= begun[j] /\ begun[j] \in Nat /\ begun'[j] \in Nat
      BY <1>0, <1>1 DEF PlanJobs, JobTypeOK
    <3> QED
      BY <1>2, <3>1, <3>2
  <2> QED
    BY <1>3, <1>5, <2>1, <2>2
<1>6. ASSUME NEW w \in Workers, PlanCommit(w), ~UNCHANGED planned
      PROVE  /\ planned' <= 1
             /\ Planners' = {} /\ \E j \in PlanJobs' : begun'[j] >= 1
  <2>1. w \in Planners
    BY <1>6 DEF PlanCommit, Planners, PlanPcs
  <2>2. planned' = 1
    BY <1>3, <1>6, <2>1 DEF PlanCommit
  <2>3. /\ worker[w].job \in PlanJobs' /\ worker[w].job \in Jobs
        /\ begun[worker[w].job] >= 1 /\ begun' = begun
    BY <1>1, <1>2, <1>6, <2>1, PlannerHolds DEF PlanCommit, Succeed, PlanJobs
  <2>4. \A v \in Planners : v = w
    <3>1. ASSUME NEW v \in Planners PROVE v = w
      <4>1. worker[v].job = worker[w].job
        BY <1>2, <2>1, PlannerHolds
      <4>2. v \in Held(worker[w].job) /\ w \in Held(worker[w].job)
        BY <2>1, <4>1, PlannerHolds
      <4> QED
        BY <1>0, <1>1, <2>3, <4>2 DEF HeldInv
    <3> QED
      BY <3>1
  <2>5. \A v \in Workers : v # w => work'[v] = work[v]
    BY <1>0, <1>6 DEF PlanCommit, EndWork, WorkOK
  <2>6. work'[w].pc = "none"
    BY <1>0, <1>6 DEF PlanCommit, EndWork, NoWork, WorkOK
  <2>7. Planners' = {}
    BY <2>4, <2>5, <2>6 DEF Planners, PlanPcs
  <2> QED
    BY <2>2, <2>3, <2>7
<1> QED
  BY <1>5, <1>6, WhoWrites

\* One start of a session makes one set of tasks and steps, however its job is
\* delivered.
THEOREM PlansAreSingle == Spec => []PlannedOnce
<1>1. Init => PlanInv
  BY DEF Init, DomainInit, PlanInv
<1>2. ASSUME TypeInv, PlanInv, IsFiniteSet(Rows) PROVE PlannedOnce
  <2> SUFFICES ASSUME planned > 1, overlap = {} PROVE Cardinality(PlanJobs) > 1
    BY DEF PlannedOnce, PlanJobs
  <2>1. PICK i \in PlanJobs, j \in PlanJobs : i # j
    BY <1>2 DEF PlanInv, TypeInv, DomainOK, SessionOK
  <2>2. PlanJobs \subseteq Rows
    BY <1>2 DEF TypeInv, DomainOK, TaskOK, PlanJobs, Rows
  <2>3. IsFiniteSet(PlanJobs)
    BY <1>2, <2>2, FS_Subset
  <2>4. Cardinality({i} \cup {j}) = 2 /\ IsFiniteSet({i} \cup {j})
    <3>1. IsFiniteSet({i}) /\ Cardinality({i}) = 1 /\ j \notin {i}
      BY <2>1, FS_Singleton
    <3>2. /\ IsFiniteSet({i} \cup {j})
          /\ Cardinality({i} \cup {j}) = Cardinality({i}) + 1
      BY <3>1, FS_AddElement
    <3> QED
      BY <3>1, <3>2
  <2>5. {i} \cup {j} \in SUBSET PlanJobs
    BY <2>1
  <2>6. Cardinality({i} \cup {j}) <= Cardinality(PlanJobs)
    BY <2>3, <2>5, FS_Subset
  <2>7. Cardinality(PlanJobs) \in Nat
    BY <2>3, FS_CardinalityType
  <2> QED
    BY <2>4, <2>6, <2>7
<1>3. Spec => [](RunnerInv /\ IsFiniteSet(Rows))
  <2>1. Spec => []IsFiniteSet(Rows)
    BY EngineImplementsJobQueue, RowsAreFinite
  <2> QED
    BY <2>1, RunnerInvHolds, PTL
<1>4. RunnerInv => TypeInv
  BY DEF RunnerInv
<1> QED
  BY <1>1, <1>2, <1>3, <1>4, PlanInvStep, PTL DEF Spec

-----------------------------------------------------------------------------
(* Runs. RunsHaveJobs rests on counting the jobs that are spent: those     *)
(* whose executor has gone past the start of the command, or will never    *)
(* get there.                                                              *)

Before == {"execute", "launch", "launching", "ready", "marked"}

\* A job that was begun and that nobody holds who may still run its command.
Spent(j) == begun[j] >= 1 /\ \A w \in Held(j) : work[w].pc \notin Before
SpentJobs(t) == {j \in ExecJobs(t) : Spent(j)}

RunInv ==
    \A t \in Tools : ExecJobs(t) \cap overlap = {} => runs[t] <= Cardinality(SpentJobs(t))

\* No executor goes back behind the start of its command.
LEMMA MovesForward ==
    ASSUME TypeInv, NEW w \in Workers, Moves(w), work'[w].pc \in Before
    PROVE  work[w].pc \in Before \ {"marked"}
<1>0. work[w] \in Work /\ work \in [Workers -> Work]
  BY DEF TypeInv, DomainOK, WorkOK
<1> USE <1>0 DEF Before, Work
<1>1. ~(ExecBegin(w) \/ ExecFailWaits(w) \/ ExecFlush(w))
  BY DEF ExecBegin, ExecFailWaits, ExecFlush, SetWork
<1>2. ASSUME NEW o, ExecReply(w, o) PROVE FALSE
  BY <1>2 DEF ExecReply
<1> QED
  BY <1>1, <1>2 DEF Moves, ExecRead, ExecLaunched, ExecMarkRunning, ExecCreateRuntime

\* What is spent stays spent: a second run of a job would need a second claim.
LEMMA SpentStays ==
    ASSUME RunnerInv, [Next]_engineVars, NEW j \in Jobs \ overlap, Spent(j)
    PROVE  Spent(j)'
<1>0. TypeInv /\ JobTypeOK /\ ClaimInv
  BY DEF RunnerInv, TypeInv, DomainOK
<1>1. begun[j] \in Nat /\ begun'[j] \in Nat /\ begun'[j] >= begun[j]
  BY <1>0, HistoryGrows, EngineStepIsJobStep DEF JobTypeOK
<1>2. ASSUME NEW w \in Held(j)', work'[w].pc \in Before PROVE FALSE
  <2>1. CASE work'[w] = work[w] /\ worker'[w] = worker[w]
    BY <1>2, <2>1 DEF Spent, Held
  <2>2. CASE Begin(w)
    <3>1. worker[w].job = j /\ worker[w].pc = "loaded"
      BY <1>0, <1>2, <2>2 DEF Begin, Claim, SetWorker, JobTypeOK, Held
    <3>2. begun[j] = 0
      BY <1>0, <1>2, <3>1 DEF ClaimInv, LoadedBy, Held
    <3> QED
      BY <3>2 DEF Spent
  <2>3. CASE Moves(w)
    <3>1. w \in Workers
      BY <1>2 DEF Held
    <3>2. worker' = worker
      BY <1>0, <2>3, <3>1, MovesKeepJobs DEF jobVars
    <3>3. work[w].pc \in Before
      BY <1>0, <1>2, <2>3, <3>1, MovesForward
    <3> QED
      BY <1>2, <3>2, <3>3 DEF Spent, Held
  <2>4. work'[w].pc \in ExecPcs /\ w \in Workers
    BY <1>2 DEF Before, ExecPcs, Held
  <2> QED
    BY <1>0, <2>1, <2>2, <2>3, <2>4, OthersRest, ExecutorMoves
<1> QED
  BY <1>1, <1>2 DEF Spent

\* The row of an executor is one of its call and nobody else holds it.
LEMMA ExecutorHolds ==
    ASSUME RunnerInv, NEW w \in Workers, work[w].pc \in ExecPcs
    PROVE  /\ worker[w].job \in ExecJobs(Call(w)) /\ Call(w) \in Tools
           /\ w \in Held(worker[w].job)
           /\ worker[w].job \notin overlap =>
                begun[worker[w].job] >= 1 /\ Held(worker[w].job) = {w}
<1>0. TypeInv /\ JobTypeOK /\ WorkMatches /\ HeldInv
  BY DEF RunnerInv, TypeInv, DomainOK
<1>1. worker[w].job \in ExecJobs(Call(w)) /\ Call(w) \in Tools
  BY <1>0, ExecutorHasCall DEF ExecJobs, Call
<1>2. w \in Held(worker[w].job)
  BY <1>0 DEF Held, ExecPcs, WorkMatches, JobTypeOK
<1> QED
  BY <1>0, <1>1, <1>2 DEF HeldInv, ExecJobs

\* RunInv holds after every step.
LEMMA RunInvStep ==
    /\ RunnerInv /\ IsFiniteSet(Rows) /\ (RunnerInv /\ IsFiniteSet(Rows))'
    /\ RunInv /\ [Next]_engineVars
    => RunInv'
<1> SUFFICES ASSUME RunnerInv, RunnerInv', IsFiniteSet(Rows), IsFiniteSet(Rows)',
                    RunInv, [Next]_engineVars,
                    NEW t \in Tools, (ExecJobs(t) \cap overlap = {})'
             PROVE  runs'[t] <= Cardinality(SpentJobs(t)')
  BY DEF RunInv
<1>0. /\ TypeInv /\ JobTypeOK /\ JobsInPlay /\ TaskOK /\ WorkOK /\ CallsOK
  BY DEF RunnerInv, TypeInv, DomainOK
<1>1. overlap \subseteq overlap'
  BY <1>0, HistoryGrows, EngineStepIsJobStep
<1>2. ExecJobs(t) \subseteq Rows
  BY <1>0 DEF ExecJobs, Rows, TaskOK
<1>3. ExecJobs(t) \subseteq ExecJobs(t)'
  BY <1>0, <1>2, TaskKept DEF ExecJobs, Rows
<1>4. ExecJobs(t) \cap overlap = {}
  BY <1>1, <1>3
<1>5. SpentJobs(t) \subseteq SpentJobs(t)'
  BY <1>3, <1>4, SpentStays DEF SpentJobs, ExecJobs
<1>6. IsFiniteSet(SpentJobs(t)) /\ IsFiniteSet(SpentJobs(t)')
  <2>1. SpentJobs(t)' \subseteq Rows'
    BY DEF RunnerInv, TypeInv, DomainOK, TaskOK, SpentJobs, ExecJobs, Rows
  <2>2. SpentJobs(t) \subseteq Rows
    BY <1>2 DEF SpentJobs
  <2> QED
    BY <2>1, <2>2, FS_Subset
<1>7. runs[t] \in Nat /\ runs[t] <= Cardinality(SpentJobs(t))
  BY <1>0, <1>4 DEF RunInv, CallsOK
<1>8. /\ Cardinality(SpentJobs(t)) \in Nat /\ Cardinality(SpentJobs(t)') \in Nat
      /\ Cardinality(SpentJobs(t)) <= Cardinality(SpentJobs(t)')
  BY <1>5, <1>6, FS_Subset, FS_CardinalityType
<1>9. CASE UNCHANGED runs
  BY <1>7, <1>8, <1>9
<1>10. ASSUME NEW w \in Workers, ExecBegin(w)
       PROVE  runs'[t] <= Cardinality(SpentJobs(t)')
  <2>1. CASE Call(w) # t
    <3>1. runs'[t] = runs[t]
      BY <1>0, <1>10, <2>1 DEF ExecBegin, CallsOK
    <3> QED
      BY <1>7, <1>8, <3>1
  <2>2. CASE Call(w) = t
    <3> DEFINE j == worker[w].job
    <3>1. /\ work[w].pc = "marked" /\ work'[w].pc = "executing"
          /\ UNCHANGED <<worker, begun, task>>
          /\ runs'[t] = runs[t] + 1
      BY <1>0, <1>10, <2>2 DEF ExecBegin, SetWork, WorkOK, Work, CallsOK, ExecUnchanged, jobVars
    <3>2. /\ j \in ExecJobs(t) /\ w \in Held(j)
          /\ begun[j] >= 1 /\ Held(j) = {w}
      BY <1>4, <2>2, <3>1, ExecutorHolds DEF ExecPcs
    <3>3. j \notin SpentJobs(t)
      BY <3>1, <3>2 DEF SpentJobs, Spent, Before
    <3>4. j \in SpentJobs(t)'
      <4>1. Held(j)' = {w} /\ j' = j /\ begun'[j] = begun[j]
        BY <3>1, <3>2 DEF Held
      <4>2. Spent(j)'
        BY <3>1, <3>2, <4>1 DEF Spent, Before
      <4> QED
        BY <1>3, <3>2, <4>1, <4>2 DEF SpentJobs
    <3>5. Cardinality(SpentJobs(t) \cup {j}) = Cardinality(SpentJobs(t)) + 1
      BY <1>6, <3>3, FS_AddElement
    <3>6. Cardinality(SpentJobs(t) \cup {j}) <= Cardinality(SpentJobs(t)')
      BY <1>5, <1>6, <3>4, FS_Subset
    <3> QED
      BY <1>7, <1>8, <3>1, <3>5, <3>6
  <2> QED
    BY <2>1, <2>2
<1> QED
  BY <1>9, <1>10, WhoWrites

\* The command of a tool call is run at most once for each job that was made
\* for it, however messages, workers and runtimes fail, unless claims overlap.
THEOREM RunsAreAccounted ==
    /\ Spec => []RunsHaveJobs
    /\ PlannedSpec => []RunsHaveJobs
<1>1. ASSUME NEW s, NEW p, JobInit, DomainInit(s, p) PROVE RunInv
  <2>1. ASSUME NEW t \in Tools PROVE runs[t] = 0 /\ SpentJobs(t) = {}
    BY <1>1, <2>1 DEF DomainInit, JobInit, ExecJobs, SpentJobs, Spent
  <2> QED
    BY <2>1, FS_EmptySet DEF RunInv
<1>2. Init => RunInv
  BY <1>1 DEF Init
<1>3. JobInit /\ DomainInit("running", 1) => RunInv
  BY <1>1
<1>4. RunnerInv /\ IsFiniteSet(Rows) /\ RunInv => RunsHaveJobs
  <2> SUFFICES ASSUME RunnerInv, IsFiniteSet(Rows), RunInv,
                      NEW t \in Tools, ExecJobs(t) \cap overlap = {}
               PROVE  runs[t] <= Cardinality(ExecJobs(t))
    BY DEF RunsHaveJobs
  <2>1. ExecJobs(t) \subseteq Rows /\ runs[t] \in Nat
    BY DEF RunnerInv, TypeInv, DomainOK, TaskOK, CallsOK, ExecJobs, Rows
  <2>2. IsFiniteSet(ExecJobs(t)) /\ SpentJobs(t) \in SUBSET ExecJobs(t)
    BY <2>1, FS_Subset DEF SpentJobs
  <2>3. /\ Cardinality(SpentJobs(t)) <= Cardinality(ExecJobs(t))
        /\ IsFiniteSet(SpentJobs(t))
    BY <2>2, FS_Subset
  <2>4. Cardinality(SpentJobs(t)) \in Nat /\ Cardinality(ExecJobs(t)) \in Nat
    BY <2>2, <2>3, FS_CardinalityType
  <2> QED
    BY <2>1, <2>3, <2>4 DEF RunInv
<1>5. Spec => []RunsHaveJobs
  <2>1. Spec => []IsFiniteSet(Rows)
    BY EngineImplementsJobQueue, RowsAreFinite
  <2> QED
    BY <1>2, <1>4, <2>1, RunInvStep, RunnerInvHolds, PTL DEF Spec
<1>6. PlannedSpec => []RunsHaveJobs
  <2>1. PlannedSpec => []IsFiniteSet(Rows)
    BY EngineImplementsJobQueue, RowsAreFinite
  <2> QED
    BY <1>3, <1>4, <2>1, RunInvStep, RunnerInvHolds, PTL DEF PlannedSpec
<1> QED
  BY <1>5, <1>6

-----------------------------------------------------------------------------
(* Runtimes. BoxTracked follows the launch of a runtime from the row the   *)
(* database has first to the outcome that is written over it.              *)

\* The latest of some runtimes is one of them.
LEMMA LatestIsIn ==
    ASSUME NEW S \in SUBSET Runtimes, S # {}
    PROVE  Latest(S) \in S
<1>1. S \in SUBSET (0 .. MaxRuntimes) /\ MaxRuntimes \in Nat
  BY EngineAssumption DEF Runtimes
<1>2. \E r \in S : \A q \in S : q <= r
  BY <1>1, HasLargest
<1> QED
  BY <1>2 DEF Latest

\* Who touches rows of runtimes and containers.
LEMMA WhoWritesRuntimes ==
    ASSUME [Next]_engineVars
    PROVE  \/ UNCHANGED runtime
           \/ \E c \in Clients : \/ StopCall(c) \/ StopCallFails(c) \/ StopCommit(c)
                                 \/ StopRuntimeCall(c) \/ StopRuntimeCommit(c)
           \/ \E r \in Runtimes : CreateRuntime(r) \/ LaunchStep(r)
           \/ \E w \in Workers : \/ WorkerCrash(w)
                                 \/ \E o \in {"succeeded", "failed", "timed_out"} :
                                       ExecReply(w, o)
<1>1. ASSUME NEW c \in Clients, UserStep(c) \/ ApprovalStep(c) PROVE UNCHANGED runtime
  BY <1>1
  DEF UserStep, AskResolve, AskStep, AskSimple, AskStop, AskStartRuntime, AskStopRuntime,
      ApprovalStep, Approve, Deny, ApprovalUnchanged
<1>2. ASSUME NEW c \in Clients, HandlerStep(c)
      PROVE  \/ UNCHANGED runtime
             \/ StopCall(c) \/ StopCallFails(c) \/ StopCommit(c)
             \/ StopRuntimeCall(c) \/ StopRuntimeCommit(c)
             \/ \E r \in Runtimes : CreateRuntime(r)
  BY <1>2 DEF HandlerStep, Transition, Start, RunAgent, RunCommand, StopFlush, StartRuntime
<1>3. ASSUME NEW j \in Jobs, ApiEnqueue(j) \/ ApiEnqueueFails(j) \/ Broker(j)
      PROVE  UNCHANGED runtime
  BY <1>3 DEF ApiEnqueue, ApiEnqueueFails, Broker, domainVars
<1>4. ASSUME NEW w \in Workers, Receive(w) \/ Begin(w) \/ PlanStep(w) \/ AgentStep(w)
      PROVE  UNCHANGED runtime
  BY <1>4 DEF Receive, Begin, domainVars, PlanStep, PlanRead, PlanCommit, PlanRaises,
     PlanMarkFailed, PlanUnchanged, AgentStep, AgentRead, AgentPick, AgentStartStep,
     AgentNoStep, AgentFileCall, AgentEnd, AgentCompleteStep, AgentRequestApproval,
     AgentQueueTerminal, AgentSend, AgentClose, AgentRaises, AgentMarkFailed, AgentUnchanged
<1>5. ASSUME NEW w \in Workers, ExecStep(w)
      PROVE  \/ UNCHANGED runtime
             \/ \E r \in Runtimes : CreateRuntime(r)
             \/ \E o \in {"succeeded", "failed", "timed_out"} : ExecReply(w, o)
  BY <1>5 DEF ExecStep, ExecSkip, ExecRead, ExecCreateRuntime, ExecLaunched,
     ExecMarkRunning, ExecBegin, ExecFlush, ExecCommit, ExecRaises, ExecFailWaits,
     ExecMarkFailed
<1>6. ASSUME NEW S \in SUBSET Jobs, Stale(S) PROVE UNCHANGED runtime
  BY <1>6 DEF Stale, domainVars
<1>7. CASE ReconcileStale
  BY <1>7 DEF ReconcileStale, PlanUnchanged
<1>8. CASE UNCHANGED engineVars
  BY <1>8 DEF engineVars, domainVars
<1> QED
  BY <1>1, <1>2, <1>3, <1>4, <1>5, <1>6, <1>7, <1>8 DEF Next, Resolve, RunnerStep

\* A request to stop the session that is in progress after a step was so
\* before, or has just been made.
LEMMA StopGoesOn ==
    ASSUME TypeInv, [Next]_engineVars, NEW c \in Clients, req'[c].op = "stop"
    PROVE  \/ req'[c] = req[c]
           \/ AskStop(c) \/ StopFlush(c) \/ StopCall(c) \/ StopCallFails(c)
<1>0. req \in [Clients -> Request]
  BY DEF TypeInv, DomainOK, ReqOK
<1>1. ASSUME NEW d \in Clients, d # c, UserStep(d) \/ Resolve(d) PROVE req'[c] = req[c]
  <2>1. \E q : req' = [req EXCEPT ![d] = q]
    BY <1>1
    DEF UserStep, AskResolve, AskStep, AskSimple, AskStop, AskStartRuntime,
        AskStopRuntime, Resolve, ApprovalStep, Approve, Deny, HandlerStep, Transition,
        Start, RunAgent, RunCommand, StopFlush, StopCall, StopCallFails, StopCommit,
        StopRuntimeCall, StopRuntimeCommit, StartRuntime, SetReq, EndReq
  <2> QED
    BY <1>0, <1>1, <2>1
<1>2. CASE UserStep(c)
  <2>1. ASSUME NEW op, NEW t, op # "stop", AskResolve(c, op, t) PROVE FALSE
    BY <1>0, <2>1 DEF AskResolve
  <2>2. ASSUME NEW op, AskSimple(c, op) PROVE FALSE
    BY <1>0, <2>2 DEF AskSimple
  <2>3. ~AskStartRuntime(c) /\ ~AskStopRuntime(c)
    BY <1>0 DEF AskStartRuntime, AskStopRuntime, NoReq
  <2> QED
    BY <1>2, <2>1, <2>2, <2>3 DEF UserStep, AskStep
<1>3. CASE Resolve(c)
  <2>1. ~EndReq(c)
    BY <1>0 DEF EndReq, NoReq
  <2>2. ~StopRuntimeCall(c)
    BY <1>0, <2>1 DEF StopRuntimeCall, SetReq, Request
  <2> QED
    BY <1>3, <2>1, <2>2
    DEF Resolve, ApprovalStep, Approve, Deny, HandlerStep, Transition, Start, RunAgent,
        RunCommand, StopCommit, StopRuntimeCommit, StartRuntime
<1>4. ASSUME NEW j \in Jobs, ApiEnqueue(j) \/ ApiEnqueueFails(j) \/ Broker(j)
      PROVE  UNCHANGED req
  BY <1>4 DEF ApiEnqueue, ApiEnqueueFails, Broker, domainVars
<1>5. ASSUME NEW w \in Workers,
             \/ Receive(w) \/ Begin(w) \/ WorkerCrash(w) \/ PlanStep(w) \/ AgentStep(w)
      PROVE  UNCHANGED req
  BY <1>5 DEF Receive, Begin, WorkerCrash, domainVars, apiVars, PlanStep, PlanRead,
     PlanCommit, PlanRaises, PlanMarkFailed, PlanUnchanged, AgentStep, AgentRead,
     AgentPick, AgentStartStep, AgentNoStep, AgentFileCall, AgentEnd, AgentCompleteStep,
     AgentRequestApproval, AgentQueueTerminal, AgentSend, AgentClose, AgentRaises,
     AgentMarkFailed, AgentUnchanged
<1>6. ASSUME NEW w \in Workers, ExecStep(w) PROVE UNCHANGED req
  BY <1>6 DEF ExecStep, ExecSkip, ExecRead, ExecCreateRuntime, ExecLaunched,
     ExecMarkRunning, ExecBegin, ExecReply, ExecFlush, ExecCommit, ExecRaises,
     ExecFailWaits, ExecMarkFailed, ExecUnchanged, apiVars
<1>7. ASSUME NEW r \in Runtimes, LaunchStep(r) PROVE UNCHANGED req
  BY <1>7 DEF LaunchStep, LaunchCall, LaunchRecord, OnlyRuntime, apiVars
<1>8. ASSUME NEW S \in SUBSET Jobs, Stale(S) PROVE UNCHANGED req
  BY <1>8 DEF Stale, domainVars
<1>9. CASE ReconcileStale
  BY <1>9 DEF ReconcileStale, PlanUnchanged, apiVars
<1>10. CASE UNCHANGED engineVars
  BY <1>10 DEF engineVars, domainVars
<1> QED
  BY <1>1, <1>2, <1>3, <1>4, <1>5, <1>6, <1>7, <1>8, <1>9, <1>10 DEF Next, RunnerStep

\* How far the launch of a runtime is tells what its row and container are.
BoxInv ==
    /\ \A r \in Runtimes :
         LET x == runtime[r] IN
         /\ x.launch \notin {"error", "failed"}
         /\ x.launch = "none" => x.box = "none"
         /\ x.launch \in {"calling", "up", "dead"} => x.row = "starting"
         /\ x.launch = "done" => x.row \in {"running", "stopped"}
         /\ x.row = "running" => x.launch = "done"
         /\ x.row = "stopped" => x.box # "running" /\ x.launch = "done"
    /\ \A c \in Clients : req[c].op = "stop" /\ req[c].runtime # 0 =>
         LET x == runtime[req[c].runtime] IN
         /\ x.launch = "done"
         /\ req[c].pc = "called" => x.box # "running"

\* Calls to the runtime service do not fail, and nobody stops a runtime by hand.
CallsReturn == "runtime" \notin Faults /\ "stop_runtime" \notin Ops

\* BoxInv holds after every step.
LEMMA BoxInvStep == CallsReturn /\ TypeInv /\ BoxInv /\ [Next]_engineVars => BoxInv'
<1> SUFFICES ASSUME CallsReturn, TypeInv, BoxInv, [Next]_engineVars PROVE BoxInv'
  OBVIOUS
<1>0. RuntimeOK /\ req \in [Clients -> Request] /\ 0 \notin Runtimes
  BY DEF TypeInv, DomainOK, ReqOK, Runtimes
<1> DEFINE Tracked(x) ==
      /\ x.launch \notin {"error", "failed"}
      /\ x.launch = "none" => x.box = "none"
      /\ x.launch \in {"calling", "up", "dead"} => x.row = "starting"
      /\ x.launch = "done" => x.row \in {"running", "stopped"}
      /\ x.row = "running" => x.launch = "done"
      /\ x.row = "stopped" => x.box # "running" /\ x.launch = "done"
    Stays(x, y) == x.launch = "done" =>
      y.launch = "done" /\ (x.box # "running" => y.box # "running")
    Good(r) == Tracked(runtime'[r]) /\ Stays(runtime[r], runtime'[r])
<1>1. \A r \in Runtimes : Tracked(runtime[r])
  BY DEF BoxInv
<1>2. \A c \in Clients : req[c].op = "stop" /\ req[c].runtime # 0 =>
         /\ runtime[req[c].runtime].launch = "done"
         /\ req[c].pc = "called" => runtime[req[c].runtime].box # "running"
  BY DEF BoxInv
<1>3. ASSUME NEW r \in Runtimes PROVE Good(r)
  <2>1. CASE runtime'[r] = runtime[r]
    BY <1>1, <2>1
  <2>2. ASSUME NEW c \in Clients, StopCall(c) PROVE Good(r)
    <3>1. CASE req[c].runtime = 0
      BY <1>1, <2>2, <3>1 DEF StopCall
    <3>2. CASE req[c].runtime # 0
      <4>1. /\ runtime[req[c].runtime].launch = "done"
            /\ runtime' = [runtime EXCEPT ![req[c].runtime].box = "none"]
        BY <1>2, <2>2, <3>2 DEF StopCall
      <4> QED
        BY <1>0, <1>1, <4>1 DEF RuntimeOK
    <3> QED
      BY <3>1, <3>2
  <2>3. ASSUME NEW c \in Clients, StopCommit(c) PROVE Good(r)
    <3>1. CASE req[c].runtime = 0
      BY <1>1, <2>3, <3>1 DEF StopCommit
    <3>2. CASE req[c].runtime # 0
      <4>1. /\ runtime[req[c].runtime].launch = "done"
            /\ runtime[req[c].runtime].box # "running"
            /\ runtime' = [runtime EXCEPT ![req[c].runtime].row = "stopped"]
        BY <1>2, <2>3, <3>2 DEF StopCommit
      <4> QED
        BY <1>0, <1>1, <4>1 DEF RuntimeOK
    <3> QED
      BY <3>1, <3>2
  <2>4. ASSUME NEW c \in Clients,
               StopCallFails(c) \/ StopRuntimeCall(c) \/ StopRuntimeCommit(c)
        PROVE  FALSE
    BY <1>0, <2>4 DEF StopCallFails, StopCallFailing, StopRuntimeCall, StopRuntimeCommit,
                      CallsReturn, Request
  <2>5. ASSUME NEW q \in Runtimes, CreateRuntime(q) PROVE Good(r)
    <3>1. runtime[q].launch # "done"
      BY <1>1, <2>5 DEF CreateRuntime
    <3> QED
      BY <1>0, <1>1, <2>5, <3>1 DEF CreateRuntime, RuntimeOK
  <2>6. ASSUME NEW q \in Runtimes, LaunchStep(q) PROVE Good(r)
    BY <1>0, <1>1, <2>6 DEF LaunchStep, LaunchCall, LaunchRecord, RuntimeOK, CallsReturn
  <2>7. ASSUME NEW w \in Workers, WorkerCrash(w) PROVE Good(r)
    <3> DEFINE q == work[w].runtime
    <3>1. CASE runtime' = runtime
      BY <1>1, <3>1
    <3>2. CASE runtime' # runtime
      <4>1. PICK box \in {"none", "running", runtime[q].box} :
               /\ runtime[q].launch \in {"calling", "up", "error"}
               /\ runtime' = [runtime EXCEPT ![q].box = box, ![q].launch = "dead"]
        BY <2>7, <3>2 DEF WorkerCrash
      <4>2. CASE r # q
        BY <1>0, <1>1, <4>1, <4>2 DEF RuntimeOK
      <4>3. CASE r = q
        <5>1. /\ runtime'[r].launch = "dead" /\ runtime'[r].row = runtime[r].row
              /\ runtime[r].launch \in {"calling", "up"}
          BY <1>0, <1>1, <4>1, <4>3 DEF RuntimeOK
        <5> QED
          BY <1>1, <5>1
      <4> QED
        BY <4>2, <4>3
    <3> QED
      BY <3>1, <3>2
  <2>8. ASSUME NEW w \in Workers, NEW o, ExecReply(w, o) PROVE Good(r)
    BY <1>0, <1>1, <2>8 DEF ExecReply, RuntimeOK
  <2> QED
    BY <2>1, <2>2, <2>3, <2>4, <2>5, <2>6, <2>7, <2>8, WhoWritesRuntimes
<1>4. ASSUME NEW c \in Clients, req'[c].op = "stop", req'[c].runtime # 0
      PROVE  /\ runtime'[req'[c].runtime].launch = "done"
             /\ req'[c].pc = "called" => runtime'[req'[c].runtime].box # "running"
  <2>1. CASE req'[c] = req[c]
    <3>1. req[c].runtime \in Runtimes
      BY <1>0, <1>4, <2>1 DEF Request
    <3> QED
      BY <1>2, <1>3, <1>4, <2>1, <3>1
  <2>2. CASE AskStop(c)
    <3>1. req'[c].runtime = RunningRuntime /\ req'[c].pc = "selected" /\ runtime' = runtime
      BY <1>0, <2>2 DEF AskStop, NoReq
    <3>2. RunningRuntime \in {r \in Runtimes : runtime[r].row = "running"}
      BY <1>4, <3>1, LatestIsIn DEF RunningRuntime, Latest
    <3> QED
      BY <1>1, <3>1, <3>2
  <2>3. CASE StopFlush(c)
    <3>1. /\ req'[c].runtime = req[c].runtime /\ req'[c].pc = "flushed"
          /\ req[c].op = "stop" /\ runtime' = runtime
      BY <1>0, <2>3 DEF StopFlush, SetReq, Request
    <3> QED
      BY <1>2, <1>4, <3>1
  <2>4. CASE StopCall(c)
    <3>1. /\ req'[c].runtime = req[c].runtime /\ req[c].op = "stop"
          /\ req[c].runtime \in Runtimes
      BY <1>0, <1>4, <2>4 DEF StopCall, SetReq, Request
    <3>2. runtime' = [runtime EXCEPT ![req[c].runtime].box = "none"]
      BY <1>0, <2>4, <3>1 DEF StopCall
    <3> QED
      BY <1>0, <1>2, <3>1, <3>2 DEF RuntimeOK
  <2>5. ~StopCallFails(c)
    BY DEF StopCallFails, StopCallFailing, CallsReturn
  <2> QED
    BY <1>4, <2>1, <2>2, <2>3, <2>4, <2>5, StopGoesOn
<1> QED
  BY <1>3, <1>4 DEF BoxInv

\* Where calls to the runtime service succeed and nobody stops a runtime that is
\* still starting, no container runs without a row the API finds it by, even
\* when an executor dies while its runtime starts.
THEOREM BoxesAreTracked ==
    ASSUME CallsReturn
    PROVE  /\ Spec => []BoxTracked
           /\ PlannedSpec => []BoxTracked
<1>1. ASSUME NEW s, NEW p, DomainInit(s, p) PROVE BoxInv
  BY <1>1 DEF DomainInit, BoxInv, NoReq, NoRuntime
<1>2. Init => BoxInv
  BY <1>1 DEF Init
<1>3. JobInit /\ DomainInit("running", 1) => BoxInv
  BY <1>1
<1>4. TypeInv /\ BoxInv => BoxTracked
  BY DEF TypeInv, DomainOK, RuntimeOK, BoxInv, BoxTracked
<1>5. TypeInv /\ BoxInv /\ [Next]_engineVars => BoxInv'
  BY BoxInvStep
<1>6. Spec => []BoxTracked
  BY <1>2, <1>4, <1>5, TypeInvHolds, PTL DEF Spec
<1>7. PlannedSpec => []BoxTracked
  BY <1>3, <1>4, <1>5, TypeInvHolds, PTL DEF PlannedSpec
<1> QED
  BY <1>6, <1>7

-----------------------------------------------------------------------------
(* Executors. CallHasExecutor rests on which of the workers that hold a    *)
(* job of the call can still settle it: one that has seen a final status   *)
(* may end without writing anything.                                       *)

Live(t) == tool[t].status \in {"queued", "running"}

Settles(w) ==
    ~(/\ work[w].pc \in {"marked", "executing", "answered", "finishing"}
      /\ work[w].saw \in FinalCall)

Settler(w, j) == worker[w].pc # "idle" /\ worker[w].job = j /\ Settles(w)

\* Leaving the jobs of K aside, t has a job still to be done or being settled.
Served(t, K) ==
    \E j \in ExecJobs(t) : \/ StatusOf(j) = "queued" /\ j \notin K
                           \/ \E w \in Workers : Settler(w, j)

InStop(c) == req[c].op = "stop"

CallInv ==
    /\ \A t \in Tools : Live(t) => Served(t, {})
    /\ \A c \in Clients : InStop(c) =>
         /\ \A t \in Tools \ req[c].tools : Live(t) => Served(t, canceller.jobs)
         /\ \A d \in Clients : InStop(d) => c = d
         /\ canceller.pc # "idle"

\* Messages are sent in the end, and no worker dies.
WorkersLast == "enqueue" \notin Faults /\ "crash" \notin Faults

\* Who makes a tool call queued or running.
LEMMA BecomesLive ==
    ASSUME TypeInv, [Next]_engineVars, NEW t \in Tools, Live(t)', ~Live(t)
    PROVE  \/ \E j \in Jobs : CreateJob(j) /\ task'[j].tool = t
           \/ \E w \in Workers : ExecMarkRunning(w) /\ Call(w) = t
<1>0. CallsOK /\ TaskOK /\ WorkOK /\ WorkMatches
  BY DEF TypeInv, DomainOK
<1> DEFINE Made == \E j \in Jobs : CreateJob(j) /\ task'[j].tool = t
<1> USE DEF Live
<1>1. ASSUME UNCHANGED tool PROVE FALSE
  BY <1>1
<1>2. ASSUME NEW s, NEW u, SetCall(u, s), s \notin {"queued", "running"} PROVE FALSE
  BY <1>0, <1>2 DEF SetCall, CallsOK
<1>3. ASSUME NEW c \in Clients, UserStep(c) PROVE UNCHANGED tool
  BY <1>3
  DEF UserStep, AskResolve, AskStep, AskSimple, AskStop, AskStartRuntime, AskStopRuntime,
      callVars
<1>4. ASSUME NEW c \in Clients, ApprovalStep(c) PROVE Made
  <2>1. ~Deny(c)
    BY <1>2 DEF Deny
  <2>2. ASSUME NEW j \in Jobs, Approve(c, j) PROVE CreateJob(j) /\ task'[j].tool = t
    BY <1>0, <2>2 DEF Approve, SetCall, CallsOK, Payload, TaskOK
  <2> QED
    BY <1>4, <2>1, <2>2 DEF ApprovalStep
<1>5. ASSUME NEW c \in Clients, HandlerStep(c) PROVE Made
  <2>1. ASSUME NEW u \in Tools, NEW j \in Jobs, RunCommand(c, u, j)
        PROVE  CreateJob(j) /\ task'[j].tool = t
    BY <1>0, <2>1 DEF RunCommand, CallsOK, Payload, TaskOK
  <2>2. ~StopCommit(c)
    BY <1>0 DEF StopCommit, CallsOK
  <2> QED
    BY <1>1, <1>5, <2>1, <2>2
    DEF HandlerStep, Transition, Start, RunAgent, StopFlush, StopCall, StopCallFails,
        StopRuntimeCall, StopRuntimeCommit, StartRuntime
<1>6. ASSUME NEW j \in Jobs, ApiEnqueue(j) \/ ApiEnqueueFails(j) \/ Broker(j) PROVE FALSE
  BY <1>1, <1>2, <1>6 DEF ApiEnqueue, ApiEnqueueFails, Broker, domainVars
<1>7. ASSUME NEW w \in Workers, Receive(w) \/ Begin(w) \/ WorkerCrash(w) \/ PlanStep(w)
      PROVE  FALSE
  BY <1>1, <1>7 DEF Receive, Begin, WorkerCrash, domainVars, callVars, PlanStep, PlanRead,
     PlanCommit, PlanRaises, PlanMarkFailed, PlanUnchanged
<1>8. ASSUME NEW w \in Workers, AgentStep(w) PROVE Made
  <2>1. ASSUME NEW u \in Tools, NEW j \in Jobs, AgentQueueTerminal(w, u, j)
        PROVE  CreateJob(j) /\ task'[j].tool = t
    BY <1>0, <2>1 DEF AgentQueueTerminal, CallsOK, Payload, TaskOK
  <2>2. ASSUME NEW u \in Tools, AgentRequestApproval(w, u) PROVE FALSE
    BY <1>0, <2>2 DEF AgentRequestApproval, CallsOK
  <2> QED
    BY <1>1, <1>8, <2>1, <2>2
    DEF AgentStep, AgentRead, AgentPick, AgentStartStep, AgentNoStep, AgentFileCall,
        AgentEnd, AgentCompleteStep, AgentSend, AgentClose, AgentRaises, AgentMarkFailed,
        CallsUnchanged
<1>9. ASSUME NEW w \in Workers, ExecStep(w) PROVE ExecMarkRunning(w) /\ Call(w) = t
  <2>1. ~ExecMarkFailed(w)
    BY <1>1, <1>2 DEF ExecMarkFailed, FailCall
  <2>2. ~ExecCommit(w)
    <3>1. ASSUME ExecCommit(w) PROVE work[w].outcome \in Outcomes
      BY <1>0, <3>1 DEF ExecCommit, WorkMatches
    <3> QED
      BY <1>1, <1>2, <3>1 DEF ExecCommit, WriteCall, Outcomes
  <2>3. ExecMarkRunning(w)
    BY <1>1, <1>9, <2>1, <2>2
    DEF ExecStep, ExecSkip, ExecRead, ExecCreateRuntime, ExecLaunched, ExecBegin,
        ExecReply, ExecFlush, ExecRaises, ExecFailWaits, CallUnchanged
  <2> QED
    BY <1>0, <2>3 DEF ExecMarkRunning, WriteCall, SetCall, CallsOK
<1>10. ASSUME NEW r \in Runtimes, LaunchStep(r) PROVE FALSE
  BY <1>1, <1>10 DEF LaunchStep, LaunchCall, LaunchRecord, OnlyRuntime, callVars
<1>11. ASSUME NEW S \in SUBSET Jobs, Stale(S) PROVE FALSE
  BY <1>1, <1>11 DEF Stale, domainVars
<1>12. CASE ReconcileStale
  BY <1>1, <1>12 DEF ReconcileStale, PlanUnchanged, callVars
<1>13. CASE UNCHANGED engineVars
  BY <1>1, <1>13 DEF engineVars, domainVars
<1> QED
  BY <1>1, <1>3, <1>4, <1>5, <1>6, <1>7, <1>8, <1>9, <1>10, <1>11, <1>12, <1>13
  DEF Next, Resolve, RunnerStep

\* An executor that goes on stays able to settle its call, unless what it has
\* read settles it.
LEMMA MovesSettle ==
    ASSUME TypeInv, NEW w \in Workers, Moves(w), Settles(w), Live(Call(w))'
    PROVE  Settles(w)'
<1>0. work[w] \in Work /\ work \in [Workers -> Work]
  BY DEF TypeInv, DomainOK, WorkOK
<1> USE <1>0 DEF Work, Settles
<1>1. CASE ExecBegin(w) \/ ExecLaunched(w) \/ ExecFailWaits(w)
  BY <1>1 DEF ExecBegin, ExecLaunched, ExecFailWaits, SetWork
<1>2. CASE ExecRead(w) \/ ExecFlush(w)
  BY <1>2 DEF ExecRead, ExecFlush
<1>3. ASSUME NEW r \in Runtimes, ExecCreateRuntime(w, r) PROVE Settles(w)'
  BY <1>3 DEF ExecCreateRuntime
<1>4. ASSUME NEW o, ExecReply(w, o) PROVE Settles(w)'
  BY <1>4 DEF ExecReply
<1>5. CASE ExecMarkRunning(w)
  <2>1. Call(w)' = Call(w)
    BY <1>5, MovesKeepJobs DEF Moves
  <2> QED
    BY <1>5, <2>1 DEF ExecMarkRunning, Live, FinalCall
<1> QED
  BY <1>1, <1>2, <1>3, <1>4, <1>5 DEF Moves

\* A worker that can settle a call that is not settled goes on to be one.
LEMMA SettlerStays ==
    ASSUME WorkersLast, RunnerInv, [Next]_engineVars, NEW t \in Tools, Live(t)',
           NEW j \in ExecJobs(t), NEW w \in Workers, Settler(w, j)
    PROVE  Settler(w, j)'
<1>0. /\ TypeInv /\ JobTypeOK /\ TaskOK /\ WorkOK /\ CallsOK /\ WorkMatches
      /\ RunnerMatches
  BY DEF RunnerInv, TypeInv, DomainOK
<1>1. task[worker[w].job].type = "execute" /\ Call(w) = t /\ worker[w].pc # "idle"
  BY <1>0 DEF Settler, ExecJobs, TaskOK, Call
<1>2. CASE work'[w] = work[w] /\ worker'[w] = worker[w]
  BY <1>2 DEF Settler, Settles
<1>3. ~Receive(w) /\ ~WorkerCrash(w)
  BY <1>1 DEF Receive, Deliver, WorkerCrash, Crash, WorkersLast
<1>4. CASE Begin(w)
  <2>1. /\ work'[w].pc = "execute" /\ worker'[w].pc = "working"
        /\ worker'[w].job = worker[w].job
    BY <1>0, <1>1, <1>4 DEF Begin, Claim, SetWorker, NoWork, WorkOK, JobTypeOK
  <2> QED
    BY <2>1 DEF Settler, Settles
<1>5. CASE RunnerStep(w)
  <2>1. work[w].pc \notin PlanPcs \cup AgentPcs
    BY <1>0, <1>1 DEF RunnerMatches
  <2>2. ~PlanStep(w)
    BY <1>1, <2>1 DEF PlanStep, PlanRead, PlanCommit, PlanRaises, PlanMarkFailed, PlanPcs
  <2>3. ~AgentStep(w)
    BY <1>1, <2>1
    DEF AgentStep, AgentRead, AgentPick, AgentStartStep, AgentNoStep, AgentFileCall,
        AgentEnd, AgentCompleteStep, AgentRequestApproval, AgentQueueTerminal, AgentSend,
        AgentClose, AgentRaises, AgentMarkFailed, AgentPcs
  <2>4. CASE Moves(w)
    <3>1. UNCHANGED worker /\ Call(w)' = t
      BY <1>0, <1>1, <2>4, MovesKeepJobs DEF jobVars
    <3>2. Live(Call(w))'
      BY <3>1 DEF Live
    <3>3. Settles(w)'
      BY <1>0, <2>4, <3>2, MovesSettle DEF Settler
    <3> QED
      BY <3>1, <3>3 DEF Settler
  <2>5. CASE ExecRaises(w)
    <3>1. /\ work'[w].pc = "none" /\ worker'[w].pc = "failing"
          /\ worker'[w].job = worker[w].job
      BY <1>0, <2>5 DEF ExecRaises, Raise, SetWorker, EndWork, NoWork, WorkOK, JobTypeOK
    <3> QED
      BY <3>1 DEF Settler, Settles
  <2>6. \A s : SetCall(t, s) => tool'[t].status = s
    BY <1>0 DEF SetCall, CallsOK
  <2>7. ~ExecSkip(w)
    BY <1>1 DEF ExecSkip, CallUnchanged, Live, FinalCall
  <2>8. ~ExecCommit(w)
    <3>1. ASSUME ExecCommit(w) PROVE FALSE
      <4>1. work[w].outcome \in FinalCall /\ work[w].pc = "finishing"
        BY <1>0, <3>1 DEF ExecCommit, WorkMatches, Outcomes, FinalCall
      <4>2. work[w].saw # work[w].outcome
        BY <4>1 DEF Settler, Settles
      <4> QED
        BY <1>1, <2>6, <3>1, <4>1, <4>2 DEF ExecCommit, WriteCall, Live, FinalCall
    <3> QED
      BY <3>1
  <2>9. ~ExecMarkFailed(w)
    BY <1>1, <2>6 DEF ExecMarkFailed, FailCall, Live, FinalCall
  <2> QED
    BY <1>5, <2>2, <2>3, <2>4, <2>5, <2>7, <2>8, <2>9 DEF RunnerStep, ExecStep, Moves
<1> QED
  BY <1>0, <1>2, <1>3, <1>4, <1>5, OthersRest DEF Acts

\* What serves a call goes on serving it, outside the commit of a stop, and what
\* is made live is served.
LEMMA ServedStays ==
    ASSUME WorkersLast, RunnerInv, [Next]_engineVars,
           NEW t \in Tools, NEW K \in SUBSET Rows, Live(t)', Live(t) => Served(t, K),
           \A c \in Clients : StopCommit(c) => canceller.jobs \subseteq K
    PROVE  \E j \in ExecJobs(t)' :
              \/ StatusOf(j)' = "queued" /\ j \notin K
              \/ \E w \in Workers : Settler(w, j)'
<1>0. /\ TypeInv /\ JobTypeOK /\ TaskOK /\ WorkOK /\ CallsOK /\ WorkMatches /\ HeldInv
  BY DEF RunnerInv, TypeInv, DomainOK
<1>1. CASE ~Live(t)
  <2>1. ASSUME NEW j \in Jobs, CreateJob(j), task'[j].tool = t
        PROVE  j \in ExecJobs(t)' /\ StatusOf(j)' = "queued" /\ j \notin K
    BY <1>0, <2>1 DEF CreateJob, ExecJobs, StatusOf, JobTypeOK, Rows
  <2>2. ASSUME NEW w \in Workers, ExecMarkRunning(w), Call(w) = t
        PROVE  \E j \in ExecJobs(t)' : Settler(w, j)'
    <3>1. Moves(w) /\ work[w].pc = "ready"
      BY <2>2 DEF Moves, ExecMarkRunning
    <3>2. UNCHANGED <<worker, task>> /\ worker[w].pc # "idle" /\ worker[w].job \in Jobs
      BY <1>0, <3>1, MovesKeepJobs DEF jobVars, JobTypeOK
    <3>3. Call(w)' = t
      BY <2>2, <3>2 DEF Call
    <3>4. Settles(w)'
      <4>1. Settles(w)
        BY <3>1 DEF Settles
      <4>2. Live(Call(w))'
        BY <3>3 DEF Live
      <4> QED
        BY <1>0, <3>1, <4>1, <4>2, MovesSettle
    <3>5. worker[w].job \in ExecJobs(t)'
      BY <2>2, <3>2 DEF ExecJobs, Call
    <3> QED
      BY <3>2, <3>4, <3>5 DEF Settler
  <2>3. CASE \E j \in Jobs : CreateJob(j) /\ task'[j].tool = t
    BY <2>1, <2>3
  <2>4. CASE \E w \in Workers : ExecMarkRunning(w) /\ Call(w) = t
    BY <2>2, <2>4
  <2> QED
    BY <1>0, <1>1, <2>3, <2>4, BecomesLive
<1>2. CASE Live(t)
  <2>1. PICK j \in ExecJobs(t) : \/ StatusOf(j) = "queued" /\ j \notin K
                                 \/ \E w \in Workers : Settler(w, j)
    BY <1>2 DEF Served
  <2>2. j \in ExecJobs(t)' /\ j \in Jobs /\ StatusOf(j) # "none"
    BY <1>0, <2>1, TaskKept DEF ExecJobs, TaskOK
  <2>3. CASE \E w \in Workers : Settler(w, j)
    BY <2>2, <2>3, SettlerStays
  <2>4. CASE StatusOf(j) = "queued" /\ j \notin K /\ StatusOf(j)' # "queued"
    <3>1. ~ApiEnqueueFails(j)
      BY DEF ApiEnqueueFails, EnqueueFails, WorkersLast
    <3>2. \A c \in Clients : ~(StopCommit(c) /\ j \in canceller.jobs)
      BY <2>4
    <3>3. j \notin reaper.jobs
      BY <1>0, <2>4 DEF HeldInv
    <3>4. ASSUME NEW w \in Workers, worker[w].job = j, RunnerEnds(w) PROVE FALSE
      <4>1. worker[w].pc \in {"working", "failing"}
        BY <3>4 DEF RunnerEnds, PlanCommit, PlanMarkFailed, AgentNoStep, AgentEnd,
           AgentCompleteStep, AgentClose, AgentMarkFailed, AgentRequestApproval, ExecSkip,
           ExecCommit, ExecMarkFailed, Succeed, MarkFailed
      <4> QED
        BY <1>0, <2>4, <3>4, <4>1 DEF HeldInv
    <3>5. PICK w \in Workers : worker[w].job = j /\ Begin(w)
      BY <1>0, <2>2, <2>4, <3>1, <3>2, <3>3, <3>4, RowWritten
    <3>6. /\ work'[w].pc = task[j].type /\ worker'[w].pc = "working"
          /\ worker'[w].job = j
      BY <1>0, <3>5 DEF Begin, Claim, SetWorker, NoWork, WorkOK, JobTypeOK
    <3>7. Settler(w, j)'
      BY <1>0, <2>2, <3>6 DEF Settler, Settles, TaskOK
    <3> QED
      BY <2>2, <3>7
  <2> QED
    BY <2>1, <2>2, <2>3, <2>4
<1> QED
  BY <1>1, <1>2

\* Only stop_session selects rows to cancel, and lets them go.
LEMMA WhoCancels ==
    ASSUME [Next]_engineVars
    PROVE  \/ UNCHANGED canceller
           \/ \E c \in Clients : AskStop(c) \/ StopFlush(c) \/ StopCommit(c)
<1>1. ASSUME NEW c \in Clients, UserStep(c), ~AskStop(c) PROVE UNCHANGED canceller
  BY <1>1
  DEF UserStep, AskResolve, AskStep, AskSimple, AskStartRuntime, AskStopRuntime, jobVars
<1>2. ASSUME NEW c \in Clients, Resolve(c), ~StopFlush(c), ~StopCommit(c)
      PROVE  UNCHANGED canceller
  BY <1>2
  DEF Resolve, ApprovalStep, Approve, Deny, HandlerStep, Transition, Start, RunAgent,
      RunCommand, StopCall, StopCallFails, StopRuntimeCall, StopRuntimeCommit,
      StartRuntime, CreateJob, jobVars
<1>3. ASSUME NEW j \in Jobs, ApiEnqueue(j) \/ ApiEnqueueFails(j) \/ Broker(j)
      PROVE  UNCHANGED canceller
  BY <1>3 DEF ApiEnqueue, ApiEnqueueFails, Broker, Enqueue, EnqueueFails, EnqueueNever,
              Duplicate, DeliverTooEarly
<1>4. ASSUME NEW w \in Workers, Receive(w) \/ Begin(w) \/ WorkerCrash(w)
      PROVE  UNCHANGED canceller
  BY <1>4 DEF Receive, Deliver, Begin, Claim, WorkerCrash, Crash
<1>5. ASSUME NEW w \in Workers, PlanStep(w) PROVE UNCHANGED canceller
  BY <1>5 DEF PlanStep, PlanRead, PlanCommit, PlanRaises, PlanMarkFailed, jobVars,
              Succeed, Raise, MarkFailed
<1>6. ASSUME NEW w \in Workers, AgentStep(w) PROVE UNCHANGED canceller
  BY <1>6 DEF AgentStep, AgentRead, AgentPick, AgentStartStep, AgentNoStep,
     AgentFileCall, AgentEnd, AgentCompleteStep, AgentRequestApproval, AgentQueueTerminal,
     AgentSend, AgentClose, AgentRaises, AgentMarkFailed, jobVars, CreateJob, Enqueue,
     Succeed, Raise, MarkFailed
<1>7. ASSUME NEW w \in Workers, ExecStep(w) PROVE UNCHANGED canceller
  BY <1>7 DEF ExecStep, ExecSkip, ExecRead, ExecCreateRuntime, ExecLaunched,
     ExecMarkRunning, ExecBegin, ExecReply, ExecFlush, ExecCommit, ExecRaises,
     ExecFailWaits, ExecMarkFailed, jobVars, Succeed, Raise, MarkFailed
<1>8. ASSUME NEW r \in Runtimes, LaunchStep(r) PROVE UNCHANGED canceller
  BY <1>8 DEF LaunchStep, LaunchCall, LaunchRecord, OnlyRuntime, jobVars
<1>9. ASSUME NEW S \in SUBSET Jobs, Stale(S) PROVE UNCHANGED canceller
  BY <1>9 DEF Stale, ReconcileSelect
<1>10. CASE ReconcileStale
  BY <1>10 DEF ReconcileStale, ReconcileCommit
<1>11. CASE UNCHANGED engineVars
  BY <1>11 DEF engineVars, jobVars
<1> QED
  BY <1>1, <1>2, <1>3, <1>4, <1>5, <1>6, <1>7, <1>8, <1>9, <1>10, <1>11
  DEF Next, RunnerStep

\* CallInv holds after every step.
LEMMA CallInvStep == WorkersLast /\ RunnerInv /\ CallInv /\ [Next]_engineVars => CallInv'
<1> SUFFICES ASSUME WorkersLast, RunnerInv, CallInv, [Next]_engineVars PROVE CallInv'
  OBVIOUS
<1>0. /\ TypeInv /\ JobTypeOK /\ CallsOK /\ req \in [Clients -> Request]
      /\ canceller.jobs \subseteq Rows
  BY DEF RunnerInv, TypeInv, DomainOK, ReqOK, JobsInPlay, JobTypeOK, Rows
<1>1. ASSUME NEW t \in Tools, Live(t)' PROVE Served(t, {})'
  <2>1. CASE \A c \in Clients : ~StopCommit(c)
    <3>1. Live(t) => Served(t, {})
      BY DEF CallInv
    <3>2. \E j \in ExecJobs(t)' : \/ StatusOf(j)' = "queued" /\ j \notin {}
                                  \/ \E w \in Workers : Settler(w, j)'
      BY <1>1, <2>1, <3>1, ServedStays
    <3> QED
      BY <3>2 DEF Served
  <2>2. ASSUME NEW c \in Clients, StopCommit(c) PROVE Served(t, {})'
    <3>1. t \notin req[c].tools /\ tool'[t] = tool[t]
      BY <1>0, <1>1, <2>2 DEF StopCommit, Live, CallsOK
    <3>2. Live(t) => Served(t, canceller.jobs)
      BY <2>2, <3>1 DEF CallInv, StopCommit, InStop
    <3>3. \E j \in ExecJobs(t)' : \/ StatusOf(j)' = "queued" /\ j \notin canceller.jobs
                                  \/ \E w \in Workers : Settler(w, j)'
      BY <1>0, <1>1, <3>2, ServedStays
    <3> QED
      BY <3>3 DEF Served
  <2> QED
    BY <2>1, <2>2
<1>2. ASSUME NEW c \in Clients, InStop(c)'
      PROVE  \/ AskStop(c)
             \/ InStop(c) /\ req'[c].tools = req[c].tools
  <2>1. CASE req'[c] = req[c]
    BY <1>2, <2>1 DEF InStop
  <2>2. CASE StopFlush(c) \/ StopCall(c)
    BY <1>0, <2>2 DEF StopFlush, StopCall, SetReq, InStop, Request
  <2>3. CASE StopCallFails(c)
    BY <1>0, <2>3 DEF StopCallFails, StopCallFailing, InStop, Request
  <2> QED
    BY <1>0, <1>2, <2>1, <2>2, <2>3, StopGoesOn DEF InStop
<1>3. ASSUME NEW c \in Clients, InStop(c), InStop(c)'
      PROVE  /\ \A d \in Clients : ~StopCommit(d) /\ ~AskStop(d)
             /\ canceller'.jobs = canceller.jobs /\ canceller'.pc # "idle"
  <2>1. \A d \in Clients : ~StopCommit(d)
    <3>1. ASSUME NEW d \in Clients, StopCommit(d) PROVE FALSE
      <4>1. d = c
        BY <1>3, <3>1 DEF CallInv, StopCommit, InStop
      <4> QED
        BY <1>0, <1>3, <3>1, <4>1 DEF StopCommit, EndReq, NoReq, InStop
    <3> QED
      BY <3>1
  <2>2. canceller.pc # "idle"
    BY <1>3 DEF CallInv
  <2>3. \A d \in Clients : ~AskStop(d)
    BY <2>2 DEF AskStop, CancelSelect
  <2>4. \A d \in Clients : StopFlush(d) =>
           canceller'.jobs = canceller.jobs /\ canceller'.pc = "flushed"
    BY <1>0 DEF StopFlush, CancelFlush, JobTypeOK
  <2> QED
    BY <2>1, <2>2, <2>3, <2>4, WhoCancels
<1>4. ASSUME NEW c \in Clients, InStop(c)', NEW t \in Tools \ req'[c].tools, Live(t)'
      PROVE  Served(t, canceller.jobs)'
  <2>1. ~AskStop(c)
    <3>1. ASSUME AskStop(c)
          PROVE  tool' = tool /\ req'[c].tools = {u \in Tools : tool[u].status \in ActiveCall}
      BY <1>0, <3>1 DEF AskStop, NoReq, callVars
    <3> QED
      BY <1>4, <3>1 DEF Live, ActiveCall
  <2>2. InStop(c) /\ t \notin req[c].tools
    BY <1>2, <1>4, <2>1
  <2>3. Live(t) => Served(t, canceller.jobs)
    BY <2>2 DEF CallInv
  <2>4. \E j \in ExecJobs(t)' : \/ StatusOf(j)' = "queued" /\ j \notin canceller.jobs
                                \/ \E w \in Workers : Settler(w, j)'
    BY <1>0, <1>3, <1>4, <2>2, <2>3, ServedStays
  <2> QED
    <3>1. canceller'.jobs = canceller.jobs
      BY <1>3, <1>4, <2>2
    <3> QED
      BY <2>4, <3>1 DEF Served
<1>5. ASSUME NEW c \in Clients, InStop(c)' PROVE canceller'.pc # "idle"
  <2>1. CASE AskStop(c)
    BY <2>1 DEF AskStop, CancelSelect
  <2>2. CASE InStop(c)
    BY <1>3, <1>5, <2>2
  <2> QED
    BY <1>2, <1>5, <2>1, <2>2
<1>6. ASSUME NEW c \in Clients, NEW d \in Clients, InStop(c)', InStop(d)' PROVE c = d
  <2>1. CASE InStop(c) /\ InStop(d)
    BY <2>1 DEF CallInv
  <2>2. CASE AskStop(c) \/ AskStop(d)
    <3>1. canceller.pc = "idle"
      BY <2>2 DEF AskStop, CancelSelect
    <3>2. ~InStop(c) /\ ~InStop(d)
      BY <3>1 DEF CallInv
    <3>3. AskStop(c) /\ AskStop(d)
      BY <1>2, <1>6, <3>2
    <3> QED
      BY <1>0, <1>6, <3>2, <3>3 DEF AskStop, InStop
  <2> QED
    BY <1>2, <1>6, <2>1, <2>2
<1> QED
  BY <1>1, <1>4, <1>5, <1>6 DEF CallInv

\* Where messages get out and workers live, a tool call that is queued or
\* running has a job to be done or a worker at it, through every interleaving
\* of stops, approvals, reconciliations and second deliveries.
THEOREM CallsAreServed ==
    ASSUME WorkersLast
    PROVE  /\ Spec => []CallHasExecutor
           /\ PlannedSpec => []CallHasExecutor
<1>1. ASSUME NEW s, NEW p, DomainInit(s, p) PROVE CallInv
  BY <1>1 DEF DomainInit, CallInv, NoReq, NoCall, Live, InStop
<1>2. Init => CallInv
  BY <1>1 DEF Init
<1>3. JobInit /\ DomainInit("running", 1) => CallInv
  BY <1>1
<1>4. CallInv => CallHasExecutor
  BY DEF CallInv, CallHasExecutor, Live, Served, Settler, Pending
<1>5. RunnerInv /\ CallInv /\ [Next]_engineVars => CallInv'
  BY CallInvStep
<1>6. Spec => []CallHasExecutor
  BY <1>2, <1>4, <1>5, RunnerInvHolds, PTL DEF Spec
<1>7. PlannedSpec => []CallHasExecutor
  BY <1>3, <1>4, <1>5, RunnerInvHolds, PTL DEF PlannedSpec
<1> QED
  BY <1>6, <1>7

-----------------------------------------------------------------------------
(* Operators. The finding about RunsOnce needs two of them: an approval is *)
(* read as pending and each operator has one request in progress, so that  *)
(* a tool call has no more jobs than there are operators.                  *)

Deciders(t) == {c \in Clients : req[c].op \in {"approve", "deny"} /\ req[c].tool = t}

\* The jobs of a call, and those that decisions in progress may still add.
JobsAreApproved(t) ==
    /\ approval[t] = "none" => Deciders(t) = {} /\ \A i, j \in ExecJobs(t) : i = j
    /\ approval[t] \in {"approved", "denied"} =>
           Cardinality(ExecJobs(t)) + Cardinality(Deciders(t)) <= Cardinality(Clients)

ApprovalInv == \A t \in Tools : JobsAreApproved(t)

\* A request is decided by each operator once at most, as it is decided while
\* they see it pending and whoever decides it ends that: a command is run no
\* more often than there are operators, and with one of them once.
RunsHaveOperators ==
    \A t \in Tools : ExecJobs(t) \cap overlap = {} =>
        runs[t] <= 1 \/ runs[t] <= Cardinality(Clients)

\* The jobs of a call are rows, and finitely many.
LEMMA JobsAreFinite ==
    ASSUME TypeInv, IsFiniteSet(Rows), NEW t \in Tools
    PROVE  IsFiniteSet(ExecJobs(t)) /\ Cardinality(ExecJobs(t)) \in Nat
<1>1. ExecJobs(t) \in SUBSET Rows
  BY DEF TypeInv, DomainOK, TaskOK, ExecJobs, Rows
<1> QED
  BY <1>1, FS_Subset, FS_CardinalityType

\* A call is as it was if nobody decided it and neither its jobs nor those who
\* are to decide it grew in number.
LEMMA ApprovalRests ==
    ASSUME IsFiniteSet(Clients), NEW t \in Tools, JobsAreApproved(t), IsFiniteSet(ExecJobs(t)),
           approval'[t] = approval[t], ExecJobs(t)' \subseteq ExecJobs(t),
           Deciders(t)' \subseteq Deciders(t)
    PROVE  JobsAreApproved(t)'
<1>1. ExecJobs(t)' \in SUBSET ExecJobs(t) /\ Deciders(t)' \in SUBSET Deciders(t)
      /\ Deciders(t) \in SUBSET Clients
  BY DEF Deciders
<1>2. IsFiniteSet(Deciders(t)) /\ IsFiniteSet(Deciders(t)') /\ IsFiniteSet(ExecJobs(t)')
  BY <1>1, FS_Subset
<1>3. /\ Cardinality(ExecJobs(t)') <= Cardinality(ExecJobs(t))
      /\ Cardinality(Deciders(t)') <= Cardinality(Deciders(t))
  BY <1>1, <1>2, FS_Subset
<1>4. /\ Cardinality(ExecJobs(t)') \in Nat /\ Cardinality(ExecJobs(t)) \in Nat
      /\ Cardinality(Deciders(t)') \in Nat /\ Cardinality(Deciders(t)) \in Nat
      /\ Cardinality(Clients) \in Nat
  BY <1>2, FS_CardinalityType
<1>5. approval[t] = "none" => Deciders(t)' = {} /\ \A i, j \in ExecJobs(t)' : i = j
  BY <1>1 DEF JobsAreApproved
<1>6. approval[t] \in {"approved", "denied"} =>
          Cardinality(ExecJobs(t)') + Cardinality(Deciders(t)') <= Cardinality(Clients)
  BY <1>3, <1>4 DEF JobsAreApproved
<1> QED
  BY <1>5, <1>6 DEF JobsAreApproved

\* A decision adds at most one job and uses up the operator who made it.
LEMMA DecisionCounts ==
    ASSUME TypeInv, TypeInv', GateInv, IsFiniteSet(Clients), IsFiniteSet(Rows), IsFiniteSet(Rows)',
           NEW c \in Clients, ApprovalStep(c), NEW t \in Tools, JobsAreApproved(t)
    PROVE  JobsAreApproved(t)'
<1>0. /\ CallsOK /\ TaskOK /\ ReqOK /\ req[c].tool \in Tools
      /\ IsFiniteSet(ExecJobs(t)) /\ IsFiniteSet(ExecJobs(t)')
  <2>1. CallsOK /\ TaskOK /\ ReqOK /\ req[c].op \in {"approve", "deny"}
    BY DEF TypeInv, DomainOK, ApprovalStep, Approve, Deny
  <2>2. req[c].tool \in Tools
    BY <2>1 DEF ReqOK
  <2>3. ExecJobs(t)' \in SUBSET Rows'
    BY DEF TypeInv, DomainOK, TaskOK, ExecJobs, Rows
  <2>4. IsFiniteSet(Rows') /\ IsFiniteSet(ExecJobs(t))
    BY JobsAreFinite
  <2>5. IsFiniteSet(ExecJobs(t)')
    BY <2>3, <2>4, FS_Subset
  <2> QED
    BY <2>1, <2>2, <2>4, <2>5
<1>1. req'[c].op = "none" /\ \A d \in Clients \ {c} : req'[d] = req[d]
  BY <1>0 DEF ApprovalStep, Approve, Deny, EndReq, NoReq, ReqOK
<1>2. Deciders(t)' = Deciders(t) \ {c}
  BY <1>1 DEF Deciders
<1>3. PICK s \in {"approved", "denied"} : Resolved(c, s)
  BY DEF ApprovalStep, Approve, Deny
<1>4. CASE t # req[c].tool
  <2>1. approval'[t] = approval[t]
    BY <1>0, <1>3, <1>4 DEF Resolved, CallsOK
  <2>2. ExecJobs(t)' \subseteq ExecJobs(t)
    <3>1. ASSUME NEW j \in Jobs, Approve(c, j) PROVE ExecJobs(t)' \subseteq ExecJobs(t)
      BY <1>4, <3>1, JobsElsewhere DEF Approve
    <3>2. CASE Deny(c)
      BY <3>2 DEF Deny, ExecJobs
    <3> QED
      BY <3>1, <3>2 DEF ApprovalStep
  <2> QED
    BY <1>0, <1>2, <2>1, <2>2, ApprovalRests
<1>5. CASE t = req[c].tool
  <2>1. approval'[t] = s /\ c \in Clients
    BY <1>0, <1>3, <1>5 DEF Resolved, CallsOK
  <2>2. /\ Deciders(t) \in SUBSET Clients /\ Deciders(t)' \in SUBSET Deciders(t)
        /\ Deciders(t)' \in SUBSET (Clients \ {c})
    BY <1>2 DEF Deciders
  <2>3. /\ IsFiniteSet(Deciders(t)) /\ IsFiniteSet(Deciders(t)') /\ IsFiniteSet(Clients \ {c})
        /\ Cardinality(Deciders(t)') <= Cardinality(Clients \ {c})
        /\ Cardinality(Deciders(t)') <= Cardinality(Deciders(t))
        /\ Cardinality(Clients \ {c}) = Cardinality(Clients) - 1
    <3>1. IsFiniteSet(Clients \ {c}) /\ Cardinality(Clients \ {c}) = Cardinality(Clients) - 1
      BY FS_RemoveElement
    <3>2. IsFiniteSet(Deciders(t)) /\ IsFiniteSet(Deciders(t)')
      BY <2>2, <3>1, FS_Subset
    <3> QED
      BY <2>2, <3>1, <3>2, FS_Subset
  <2>4. /\ Cardinality(ExecJobs(t)) \in Nat /\ Cardinality(ExecJobs(t)') \in Nat
        /\ Cardinality(Deciders(t)) \in Nat /\ Cardinality(Deciders(t)') \in Nat
        /\ Cardinality(Clients) \in Nat
    BY <1>0, <2>3, FS_CardinalityType
  <2>5. /\ approval[t] = "none" => Deciders(t) = {} /\ \A i, j \in ExecJobs(t) : i = j
        /\ approval[t] = "pending" => ExecJobs(t) = {} /\ Cardinality(ExecJobs(t)) = 0
        /\ approval[t] \in {"none", "pending", "approved", "denied"}
    BY <1>0, FS_EmptySet DEF GateInv, Untouched, CallsOK, ApprovalStatus, JobsAreApproved
  <2>6. Cardinality(ExecJobs(t)') <= Cardinality(ExecJobs(t)) + 1
    <3>1. ASSUME NEW j \in Jobs, Approve(c, j)
          PROVE  Cardinality(ExecJobs(t)') <= Cardinality(ExecJobs(t)) + 1
      <4>1. \A i \in Jobs : task'[i].tool = IF i = j THEN t ELSE task[i].tool
        BY <1>0, <1>5, <3>1 DEF Approve, Payload, TaskOK
      <4>2. ExecJobs(t)' \in SUBSET (ExecJobs(t) \cup {j})
        BY <4>1 DEF ExecJobs
      <4>3. /\ IsFiniteSet(ExecJobs(t) \cup {j}) /\ Cardinality(ExecJobs(t) \cup {j}) \in Nat
            /\ Cardinality(ExecJobs(t) \cup {j}) <= Cardinality(ExecJobs(t)) + 1
        <5>1. /\ IsFiniteSet(ExecJobs(t) \cup {j})
              /\ Cardinality(ExecJobs(t) \cup {j}) =
                     IF j \in ExecJobs(t) THEN Cardinality(ExecJobs(t))
                                          ELSE Cardinality(ExecJobs(t)) + 1
          BY <1>0, FS_AddElement
        <5> QED
          BY <2>4, <5>1
      <4>4. Cardinality(ExecJobs(t)') <= Cardinality(ExecJobs(t) \cup {j})
        BY <4>2, <4>3, FS_Subset
      <4> QED
        BY <2>4, <4>3, <4>4
    <3>2. CASE Deny(c)
      <4>1. ExecJobs(t)' = ExecJobs(t)
        BY <3>2 DEF Deny, ExecJobs
      <4> QED
        BY <2>4, <4>1
    <3> QED
      BY <3>1, <3>2 DEF ApprovalStep
  <2>7. /\ c \in Deciders(t)
        /\ Cardinality(Deciders(t)') = Cardinality(Deciders(t)) - 1
    <3>1. c \in Deciders(t)
      BY <1>5 DEF ApprovalStep, Approve, Deny, Deciders
    <3> QED
      BY <1>2, <2>3, <3>1, FS_RemoveElement
  <2>8. Cardinality(ExecJobs(t)') + Cardinality(Deciders(t)') <= Cardinality(Clients)
    <3>1. CASE approval[t] = "pending"
      BY <2>3, <2>4, <2>5, <2>6, <3>1
    <3>2. CASE approval[t] \in {"approved", "denied"}
      BY <2>4, <2>6, <2>7, <3>2 DEF JobsAreApproved
    <3>3. approval[t] # "none"
      BY <2>5, <2>7
    <3> QED
      BY <2>5, <3>1, <3>2, <3>3
  <2> QED
    BY <2>1, <2>8 DEF JobsAreApproved
<1> QED
  BY <1>4, <1>5

\* Nobody else adds a job to a call that was decided.
LEMMA ApprovalInvStep ==
    ASSUME IsFiniteSet(Clients), TypeInv, TypeInv', GateInv, IsFiniteSet(Rows), IsFiniteSet(Rows)',
           ApprovalInv, [Next]_engineVars
    PROVE  ApprovalInv'
<1> SUFFICES ASSUME NEW t \in Tools PROVE JobsAreApproved(t)'
  BY DEF ApprovalInv
<1>0. /\ CallsOK /\ TaskOK /\ ReqOK /\ IsFiniteSet(ExecJobs(t)) /\ JobsAreApproved(t)
  BY JobsAreFinite DEF TypeInv, DomainOK, ApprovalInv
<1>1. CASE UNCHANGED <<approval, req, task>>
  BY <1>0, <1>1, ApprovalRests DEF ExecJobs, Deciders
<1>2. ASSUME NEW j \in Jobs, NEW u \in Tools, NEW by, Payload(j, "execute", u, by),
             tool[u].status = "none", UNCHANGED approval, Deciders(t)' \subseteq Deciders(t)
      PROVE  JobsAreApproved(t)'
  <2>1. CASE t # u
    <3>1. ExecJobs(t)' \subseteq ExecJobs(t)
      BY <1>2, <2>1, JobsElsewhere
    <3> QED
      BY <1>0, <1>2, <3>1, ApprovalRests
  <2>2. CASE t = u
    <3>1. approval[t] = "none" /\ approval'[t] = "none" /\ ExecJobs(t) = {}
      BY <1>2, <2>2 DEF GateInv, Untouched
    <3>2. \A i \in Jobs : task'[i].tool = IF i = j THEN u ELSE task[i].tool
      BY <1>0, <1>2 DEF Payload, TaskOK
    <3>3. \A i, k \in ExecJobs(t)' : i = k
      BY <2>2, <3>1, <3>2 DEF ExecJobs
    <3> QED
      BY <1>0, <1>2, <3>1, <3>3 DEF JobsAreApproved
  <2> QED
    BY <2>1, <2>2
<1>3. ASSUME NEW c \in Clients, UserStep(c) PROVE JobsAreApproved(t)'
  <2>1. ASSUME NEW op \in Ops \cap {"approve", "deny"}, NEW u \in Tools, AskResolve(c, op, u)
        PROVE  JobsAreApproved(t)'
    <3>1. UNCHANGED <<approval, task>> /\ approval[u] = "pending"
      BY <2>1 DEF AskResolve, callVars
    <3>2. CASE t # u
      <4>1. Deciders(t)' \subseteq Deciders(t)
        BY <1>0, <2>1, <3>2 DEF AskResolve, Deciders, ReqOK, NoReq
      <4> QED
        BY <1>0, <3>1, <4>1, ApprovalRests DEF ExecJobs
    <3>3. CASE t = u
      BY <3>1, <3>3 DEF JobsAreApproved
    <3> QED
      BY <3>2, <3>3
  <2>2. ASSUME NEW op \in Ops \ {"approve", "deny"}, AskStep(c, op) PROVE JobsAreApproved(t)'
    <3>1. UNCHANGED <<approval, task>>
      BY <2>2 DEF AskStep, AskSimple, AskStop, AskStartRuntime, AskStopRuntime, callVars
    <3>2. Deciders(t)' \subseteq Deciders(t)
      BY <1>0, <2>2 DEF AskStep, AskSimple, AskStop, AskStartRuntime, AskStopRuntime, Deciders,
                        ReqOK, NoReq
    <3> QED
      BY <1>0, <3>1, <3>2, ApprovalRests DEF ExecJobs
  <2> QED
    BY <1>3, <2>1, <2>2 DEF UserStep
<1>4. ASSUME NEW c \in Clients, HandlerStep(c) PROVE JobsAreApproved(t)'
  <2>1. UNCHANGED approval
    BY <1>4 DEF HandlerStep, Transition, Start, RunAgent, RunCommand, StopFlush, StopCall,
         StopCallFails, StopCommit, StartRuntime, StopRuntimeCall, StopRuntimeCommit,
         ServiceUnchanged
  <2>2. Deciders(t)' \subseteq Deciders(t)
    <3>1. ASSUME EndReq(c) PROVE Deciders(t)' \subseteq Deciders(t)
      BY <1>0, <3>1 DEF EndReq, NoReq, Deciders, ReqOK
    <3>2. ASSUME NEW pc, SetReq(c, pc) PROVE Deciders(t)' \subseteq Deciders(t)
      <4>1. \A d \in Clients : req'[d].op = req[d].op /\ req'[d].tool = req[d].tool
        BY <1>0, <3>2 DEF SetReq, ReqOK, Request
      <4> QED
        BY <4>1 DEF Deciders
    <3>3. ASSUME StopCallFails(c) PROVE Deciders(t)' \subseteq Deciders(t)
      <4>1. \A d \in Clients : req'[d].op = req[d].op /\ req'[d].tool = req[d].tool
        BY <1>0, <3>3 DEF StopCallFails, ReqOK, Request
      <4> QED
        BY <4>1 DEF Deciders
    <3> QED
      BY <1>4, <3>1, <3>2, <3>3
      DEF HandlerStep, Transition, Start, RunAgent, RunCommand, StopFlush, StopCall, StopCommit,
          StartRuntime, StopRuntimeCall, StopRuntimeCommit
  <2>3. ASSUME NEW j \in Jobs, Start(c, j) \/ RunAgent(c, j) PROVE JobsAreApproved(t)'
    <3>1. ExecJobs(t)' \subseteq ExecJobs(t)
      BY <2>3, JobsElsewhere, EngineAssumption DEF Start, RunAgent
    <3> QED
      BY <1>0, <2>1, <2>2, <3>1, ApprovalRests
  <2>4. ASSUME NEW j \in Jobs, NEW u \in Tools, RunCommand(c, u, j) PROVE JobsAreApproved(t)'
    BY <1>2, <2>1, <2>2, <2>4 DEF RunCommand
  <2>5. CASE UNCHANGED task
    BY <1>0, <2>1, <2>2, <2>5, ApprovalRests DEF ExecJobs
  <2> QED
    BY <1>4, <2>3, <2>4, <2>5
    DEF HandlerStep, Transition, StopFlush, StopCall, StopCallFails, StopCommit, StartRuntime,
        StopRuntimeCall, StopRuntimeCommit
<1>5. ASSUME NEW w \in Workers, AgentStep(w) PROVE JobsAreApproved(t)'
  <2>1. UNCHANGED req
    BY <1>5 DEF AgentStep, AgentRead, AgentPick, AgentStartStep, AgentNoStep, AgentFileCall,
         AgentEnd, AgentCompleteStep, AgentRequestApproval, AgentQueueTerminal, AgentSend,
         AgentClose, AgentRaises, AgentMarkFailed, AgentUnchanged, apiVars
  <2>2. Deciders(t)' = Deciders(t)
    BY <2>1 DEF Deciders
  <2>3. ASSUME NEW u \in Tools, NEW j \in Jobs, AgentQueueTerminal(w, u, j)
        PROVE  JobsAreApproved(t)'
    BY <1>2, <2>2, <2>3 DEF AgentQueueTerminal
  <2>4. ASSUME NEW u \in Tools, AgentRequestApproval(w, u) PROVE JobsAreApproved(t)'
    <3>1. UNCHANGED task /\ approval' = [approval EXCEPT ![u] = "pending"]
      BY <2>4 DEF AgentRequestApproval
    <3>2. CASE t = u
      BY <1>0, <3>1, <3>2 DEF JobsAreApproved, CallsOK
    <3>3. CASE t # u
      <4>1. approval'[t] = approval[t]
        BY <1>0, <3>1, <3>3 DEF CallsOK
      <4> QED
        BY <1>0, <2>2, <3>1, <4>1, ApprovalRests DEF ExecJobs
    <3> QED
      BY <3>2, <3>3
  <2>5. CASE UNCHANGED <<approval, task>>
    BY <1>1, <2>1, <2>5
  <2> QED
    BY <1>5, <2>3, <2>4, <2>5
    DEF AgentStep, AgentRead, AgentPick, AgentStartStep, AgentNoStep, AgentFileCall, AgentEnd,
        AgentCompleteStep, AgentSend, AgentClose, AgentRaises, AgentMarkFailed,
        AgentUnchanged, CallsUnchanged
<1>6. ASSUME NEW w \in Workers, PlanStep(w) \/ ExecStep(w)
      PROVE  UNCHANGED <<approval, req, task>>
  BY <1>6 DEF PlanStep, PlanRead, PlanCommit, PlanRaises, PlanMarkFailed, PlanUnchanged,
       callVars, apiVars, ExecStep, ExecSkip, ExecRead, ExecCreateRuntime, ExecLaunched,
       ExecMarkRunning, ExecBegin, ExecReply, ExecFlush, ExecCommit, ExecRaises, ExecFailWaits,
       ExecMarkFailed, ExecUnchanged
<1>7. ASSUME NEW j \in Jobs, ApiEnqueue(j) \/ ApiEnqueueFails(j) \/ Broker(j)
      PROVE  UNCHANGED <<approval, req, task>>
  BY <1>7 DEF ApiEnqueue, ApiEnqueueFails, Broker, domainVars, ServiceUnchanged
<1>8. ASSUME NEW w \in Workers, Receive(w) \/ Begin(w) \/ WorkerCrash(w)
      PROVE  UNCHANGED <<approval, req, task>>
  BY <1>8 DEF Receive, Begin, WorkerCrash, domainVars, callVars, apiVars
<1>9. ASSUME NEW r \in Runtimes, LaunchStep(r) PROVE UNCHANGED <<approval, task>>
                                                     /\ Deciders(t)' \subseteq Deciders(t)
  BY <1>0, <1>9 DEF LaunchStep, LaunchCall, LaunchRecord, OnlyRuntime, callVars, apiVars, Deciders
<1>10. ASSUME NEW S \in SUBSET Jobs, Stale(S) PROVE UNCHANGED <<approval, req, task>>
  BY <1>10 DEF Stale, domainVars
<1>11. CASE ReconcileStale
  BY <1>1, <1>11 DEF ReconcileStale, PlanUnchanged, callVars, apiVars
<1>12. CASE UNCHANGED engineVars
  BY <1>1, <1>12 DEF engineVars, domainVars
<1>13. ASSUME NEW r \in Runtimes, LaunchStep(r) PROVE JobsAreApproved(t)'
  BY <1>0, <1>9, <1>13, ApprovalRests DEF ExecJobs
<1> QED
  BY <1>0, <1>1, <1>3, <1>4, <1>5, <1>6, <1>7, <1>8, <1>10, <1>11, <1>12, <1>13, DecisionCounts
  DEF Next, Resolve, RunnerStep

\* With n operators a command is run n times at most, and with one of them once,
\* however messages, workers and runtimes fail, unless claims overlap: the
\* second run of RunsOnce takes two decisions of one request.
THEOREM OperatorsBoundRuns ==
    ASSUME IsFiniteSet(Clients)
    PROVE  /\ Spec => []RunsHaveOperators
           /\ PlannedSpec => []RunsHaveOperators
<1>1. ASSUME NEW s, NEW p, DomainInit(s, p) PROVE ApprovalInv
  BY <1>1, EngineAssumption
  DEF DomainInit, ApprovalInv, JobsAreApproved, ExecJobs, Deciders, NoTask, NoReq
<1>2. JobInit /\ DomainInit("draft", 0) => ApprovalInv
  BY <1>1
<1>3. JobInit /\ DomainInit("running", 1) => ApprovalInv
  BY <1>1
<1> DEFINE Known == RunnerInv /\ GateInv /\ IsFiniteSet(Rows)
<1>4. ApprovalInv /\ Known /\ Known' /\ [Next]_engineVars => ApprovalInv'
  BY ApprovalInvStep DEF RunnerInv
<1>5. ApprovalInv /\ Known /\ RunsHaveJobs => RunsHaveOperators
  <2> SUFFICES ASSUME ApprovalInv, Known, RunsHaveJobs, NEW t \in Tools,
                      ExecJobs(t) \cap overlap = {}
               PROVE  runs[t] <= 1 \/ runs[t] <= Cardinality(Clients)
    BY DEF RunsHaveOperators
  <2>1. /\ TypeInv /\ CallsOK /\ JobsAreApproved(t)
        /\ IsFiniteSet(ExecJobs(t)) /\ Cardinality(ExecJobs(t)) \in Nat
    BY JobsAreFinite DEF RunnerInv, TypeInv, DomainOK, ApprovalInv
  <2>2. runs[t] \in Nat /\ runs[t] <= Cardinality(ExecJobs(t))
    BY <2>1 DEF RunsHaveJobs, CallsOK
  <2>3. CASE approval[t] = "none"
    <3>1. ExecJobs(t) = {} \/ \E j \in ExecJobs(t) : ExecJobs(t) = {j}
      BY <2>1, <2>3 DEF JobsAreApproved
    <3>2. Cardinality(ExecJobs(t)) \in {0, 1}
      <4>1. CASE ExecJobs(t) = {}
        BY <4>1, FS_EmptySet
      <4>2. ASSUME NEW j \in ExecJobs(t), ExecJobs(t) = {j} PROVE Cardinality(ExecJobs(t)) = 1
        <5>1. Cardinality({j}) = 1
          BY FS_Singleton
        <5> QED
          BY <4>2, <5>1
      <4> QED
        BY <3>1, <4>1, <4>2
    <3> QED
      BY <2>1, <2>2, <3>2
  <2>4. CASE approval[t] = "pending"
    BY <2>1, <2>4 DEF GateInv, Untouched
  <2>5. CASE approval[t] \in {"approved", "denied"}
    <3>1. Deciders(t) \in SUBSET Clients
      BY DEF Deciders
    <3>2. Cardinality(Deciders(t)) \in Nat /\ Cardinality(Clients) \in Nat
      BY <3>1, FS_Subset, FS_CardinalityType
    <3>3. Cardinality(ExecJobs(t)) + Cardinality(Deciders(t)) <= Cardinality(Clients)
      BY <2>1, <2>5 DEF JobsAreApproved
    <3> QED
      BY <2>1, <2>2, <3>2, <3>3
  <2> QED
    BY <2>1, <2>3, <2>4, <2>5 DEF CallsOK, ApprovalStatus
<1>6. TypeInv /\ GateInv /\ [Next]_engineVars => GateInv'
  BY GateStep
<1>7. RunnerInv => TypeInv
  BY DEF RunnerInv
<1>8. Init => GateInv
  BY GateStarts DEF Init
<1>9. JobInit /\ DomainInit("running", 1) => GateInv
  BY GateStarts
<1>10. Init => ApprovalInv
  BY <1>2 DEF Init
<1>11. Spec => []RunsHaveOperators
  <2>1. Spec => []IsFiniteSet(Rows)
    BY EngineImplementsJobQueue, RowsAreFinite
  <2>2. Spec => []GateInv
    BY <1>6, <1>8, TypeInvHolds, PTL DEF Spec
  <2>3. Spec => [](RunnerInv /\ GateInv /\ IsFiniteSet(Rows))
    BY <2>1, <2>2, RunnerInvHolds, PTL
  <2>4. Spec => []ApprovalInv
    BY <1>4, <1>10, <2>3, PTL DEF Spec
  <2> QED
    BY <1>5, <2>3, <2>4, RunsAreAccounted, PTL
<1>12. PlannedSpec => []RunsHaveOperators
  <2>1. PlannedSpec => []IsFiniteSet(Rows)
    BY EngineImplementsJobQueue, RowsAreFinite
  <2>2. PlannedSpec => []GateInv
    BY <1>6, <1>9, TypeInvHolds, PTL DEF PlannedSpec
  <2>3. PlannedSpec => [](RunnerInv /\ GateInv /\ IsFiniteSet(Rows))
    BY <2>1, <2>2, RunnerInvHolds, PTL
  <2>4. PlannedSpec => []ApprovalInv
    BY <1>3, <1>4, <2>3, PTL DEF PlannedSpec
  <2> QED
    BY <1>5, <2>3, <2>4, RunsAreAccounted, PTL
<1> QED
  BY <1>11, <1>12

=============================================================================
