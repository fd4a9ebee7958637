--------------------------- MODULE SessionEngine ---------------------------
(***************************************************************************)
(* The session engine as a whole: one session, the API handlers that act   *)
(* on it, the workers that run its jobs, the broker between them and the   *)
(* runtime service.  The parts share EngineState.                          *)
(***************************************************************************)
EXTENDS PlanSession, AgentRun, Approvals, ToolExecution, SessionService

\* Claiming a job and committing "running" starts the runner of its type.
Begin(w) ==
    /\ Claim(w)
    /\ work' = [work EXCEPT ![w] = [NoWork EXCEPT !.pc = task[worker[w].job].type]]
    /\ UNCHANGED <<session, planVars, callVars, runtime, task, apiVars>>

\* A dead executor leaves its launch unrecorded; the runtime service may still
\* carry the call out.
WorkerCrash(w) ==
    LET r == work[w].runtime IN
    /\ Crash(w)
    /\ EndWork(w)
    /\ IF work[w].pc = "launching" /\ runtime[r].launch \in {"calling", "up", "error"}
         THEN \E box \in IF runtime[r].launch = "calling" THEN {"none", "running"}
                                                          ELSE {runtime[r].box} :
                runtime' = [runtime EXCEPT ![r].box = box, ![r].launch = "dead"]
         ELSE UNCHANGED runtime
    /\ UNCHANGED <<session, planVars, callVars, task, apiVars>>

Broker(j) ==
    /\ \/ EnqueueNever(j)
       \/ Duplicate(j)
       \/ \E w \in Workers : DeliverTooEarly(w, j)
    /\ UNCHANGED domainVars

Receive(w) == \E j \in Jobs : Deliver(w, j) /\ UNCHANGED domainVars

Stale(S) == ReconcileSelect(S) /\ UNCHANGED domainVars

RunnerStep(w) == PlanStep(w) \/ AgentStep(w) \/ ExecStep(w)

Resolve(c) == ApprovalStep(c) \/ HandlerStep(c)

UserStep(c) ==
    \/ \E op \in Ops \cap {"approve", "deny"}, t \in Tools : AskResolve(c, op, t)
    \/ \E op \in Ops \ {"approve", "deny"} : AskStep(c, op)

Init == JobInit /\ DomainInit("draft", 0)

Next ==
    \/ \E c \in Clients : UserStep(c) \/ Resolve(c)
    \/ \E j \in Jobs : ApiEnqueue(j) \/ ApiEnqueueFails(j) \/ Broker(j)
    \/ \E w \in Workers : Receive(w) \/ Begin(w) \/ RunnerStep(w) \/ WorkerCrash(w)
    \/ \E r \in Runtimes : LaunchStep(r)
    \/ \E S \in SUBSET Jobs : Stale(S)
    \/ ReconcileStale

Spec == Init /\ [][Next]_engineVars

\* From a session that has just been planned; its planning job is not in Jobs.
PlannedSpec == JobInit /\ DomainInit("running", 1) /\ [][Next]_engineVars


(***************************************************************************)
(* Handlers in progress go on, committed jobs are sent and free workers    *)
(* take messages.  Users need not act, and nothing schedules the           *)
(* reconciliation of stale jobs.                                           *)
(***************************************************************************)
Fairness ==
    /\ \A c \in Clients : WF_engineVars(Resolve(c))
    /\ \A j \in Jobs : WF_engineVars(ApiEnqueue(j))
    /\ \A w \in Workers : WF_engineVars(Receive(w) \/ Begin(w) \/ RunnerStep(w))
    /\ \A r \in Runtimes : WF_engineVars(LaunchStep(r))

FairSpec == Spec /\ Fairness
FairPlannedSpec == PlannedSpec /\ Fairness

-----------------------------------------------------------------------------
EngineTypeOK ==
    /\ JobTypeOK
    /\ session \in SessionStatus
    /\ planned \in 0 .. MaxPlans
    /\ step \in [Steps -> StepStatus]
    /\ done \subseteq TasksOf(MaxPlans)
    /\ tool \in [Tools -> [status : CallStatus, step : {0} \cup Steps, command : BOOLEAN]]
    /\ approval \in [Tools -> ApprovalStatus]
    /\ evidence \in [Tools -> Nat]
    /\ runtime \in [Runtimes ->
            [row : RowStatus, box : {"none", "running", "exited"},
             launch : {"none", "calling", "up", "error", "done", "failed", "dead"}]]
    /\ task \in [Jobs -> [type : {"none", "plan", "agent", "execute"},
                          tool : Tools \cup {NoTool},
                          by : {"none", "api", "approval", "agent"}]]
    /\ \A j \in Jobs : /\ (StatusOf(j) = "none") <=> (task[j].type = "none")
                       /\ (task[j].type = "execute") <=> (task[j].tool \in Tools)
    /\ req \in [Clients -> [op : Ops \cup {"none"},
                            pc : {"none", "selected", "flushed", "calling", "called"},
                            seen : SessionStatus \cup RowStatus, tool : Tools \cup {NoTool},
                            tools : SUBSET Tools, runtime : {0} \cup Runtimes]]
    /\ asked \in 0 .. MaxRequests
    /\ runs \in [Tools -> Nat]

\* The jobs that would run tool call t.
ExecJobs(t) == {j \in Jobs : task[j].tool = t}
Pending(j) == StatusOf(j) \in {"queued", "running"}

\* While an operator has not decided, nothing is done about the tool call: it has
\* no job, its command has not run, and it can only have been cancelled.
PendingNeverRuns ==
    \A t \in Tools : approval[t] = "pending" =>
        /\ tool[t].status \in {"awaiting_approval", "cancelled"}
        /\ ExecJobs(t) = {}
        /\ runs[t] = 0

\* An agent never leaves a session waiting for nobody: while it awaits
\* approval some request is pending, or the operator who resolved the last one
\* has woken it.
AwaitingHasPending ==
    session = "awaiting_approval" => \E t \in Tools : approval[t] = "pending"

\* A session that is being planned has a planning job that will move it on.
PlanningHasJob ==
    session = "planning" => \E j \in Jobs : task[j].type = "plan" /\ Pending(j)

\* However often the command of one tool call is run, its output becomes one
\* piece of evidence.
EvidenceOnce == \A t \in Tools : evidence[t] <= 1

\* A container that runs belongs to a runtime row that the API can still find
\* to stop it.
BoxTracked ==
    \A r \in Runtimes : runtime[r].box = "running" =>
        runtime[r].row \in {"starting", "running"}

\* A session gets its tasks and steps once, however often its planning job is
\* delivered, unless two operators started it at once or two claims overlapped.
PlannedOnce ==
    planned > 1 => \/ overlap # {}
                   \/ Cardinality({j \in Jobs : task[j].type = "plan"}) > 1

\* A command is run no more often than there are jobs to run it (two operators
\* who approve one request at once make two), unless two claims overlapped.
RunsHaveJobs ==
    \A t \in Tools : ExecJobs(t) \cap overlap = {} => runs[t] <= Cardinality(ExecJobs(t))

\* A tool call that waits for an executor or claims to have one has one: a job
\* that is still to be done, or a worker that is at it.
CallHasExecutor ==
    \A t \in Tools : tool[t].status \in {"queued", "running"} =>
        \E j \in ExecJobs(t) :
            Pending(j) \/ \E w \in Workers : worker[w].pc # "idle" /\ worker[w].job = j

\* An operator who asks for a session to be stopped sees it stopped, whatever
\* the runtime service answers and whatever locks the executors hold.
StopSucceeds == \A c \in Clients : req[c].op = "stop" ~> session = "stopped"

\* A tool call that is queued or running gets a final status.
CallsSettle ==
    \A t \in Tools : tool[t].status \in {"queued", "running"} ~> tool[t].status \in FinalCall

\* Planning ends.
PlanningEnds == session = "planning" ~> session # "planning"

-----------------------------------------------------------------------------
(* What the documents say of the program and the code does not do.         *)

\* docs/DATABASE_DESIGN.md: of a stopped session nothing comes but "archived".
StoppedIsFinal ==
    [][session = "stopped" => session' \in {"stopped", "archived"}]_session

\* docs/design/AGENT_AND_TOOL_DESIGN.md: "cancelled" and "denied", like the
\* other outcomes, end the lifecycle of a tool call.
FinalCallIsFinal ==
    [][\A t \in Tools : tool[t].status \in FinalCall => tool'[t].status = tool[t].status]_tool

\* docs/ARCHITECTURE.md: a command is never silently run again.
RunsOnce == \A t \in Tools : runs[t] <= 1

\* docs/ARCHITECTURE.md: a tool call whose executor was interrupted is marked;
\* none is left "running" once all its jobs are over and no worker is at it.
InterruptedCallIsMarked ==
    \A t \in Tools : tool[t].status = "running" =>
        \E j \in ExecJobs(t) :
            Pending(j) \/ \E w \in Workers : worker[w].pc # "idle" /\ worker[w].job = j

=============================================================================
