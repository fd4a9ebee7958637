---------------------------- MODULE EngineState ----------------------------
(***************************************************************************)
(* The state the session engine shares: the rows of one session (its       *)
(* status, steps, tool calls, approvals, evidence, runtimes) beside the    *)
(* job rows of JobQueue, the containers of the runtime service, and what   *)
(* every handler in progress has read but not yet written back.            *)
(*                                                                         *)
(* SELECTs that a handler issues back to back, with nothing slow between   *)
(* them, are one read.  Tool calls born in a final status (denied, file.*  *)
(* and memory.* calls) are not represented: only listings read them.       *)
(***************************************************************************)
EXTENDS JobQueue, Integers

CONSTANTS
    Clients,     \* API requests in progress at once
    Ops,         \* API operations the users of an instance may call
    MaxRequests, \* bound: API requests over a whole behaviour
    Tools,       \* ids of tool calls (and of their approval requests)
    NoTool,
    Tasks,       \* tasks of a plan
    NSteps,      \* steps of a plan, in the order get_next_ready_step takes them
    TaskOf,      \* [1 .. NSteps -> Tasks]; a task may have no step
    MaxPlans,    \* bound: sets of tasks and steps created for the session
    MaxTurns,    \* agent_max_turns_per_job
    MaxRuntimes  \* bound: runtime instances, numbered by created_at

Steps == 1 .. NSteps * MaxPlans
PlanOf(s) == ((s - 1) \div NSteps) + 1
TaskAt(s) == <<PlanOf(s), TaskOf[((s - 1) % NSteps) + 1]>>
TasksOf(p) == (1 .. p) \X Tasks    \* the task rows once p plans were committed
Runtimes == 1 .. MaxRuntimes

ASSUME EngineAssumption ==
    /\ NSteps \in Nat
    /\ MaxPlans \in Nat \ {0}
    /\ MaxRuntimes \in Nat
    /\ MaxTurns \in Nat \ {0}
    /\ MaxRequests \in Nat
    /\ NoTool \notin Tools
    /\ TaskOf \in [1 .. NSteps -> Tasks]

VARIABLES
    session,   \* status of the session row
    planned,   \* how many plans have created their tasks and steps
    step,      \* [Steps -> status]
    done,      \* tasks whose row says "completed"
    tool,      \* [Tools -> [status, step, command]]
    approval,  \* [Tools -> status of the approval request of that tool call]
    evidence,  \* [Tools -> number of terminal evidence rows]
    runtime,   \* [Runtimes -> [row, box, launch]]: row, container, launching call
    task,      \* [Jobs -> [type, tool, by]]: type, payload and creator of a job
    work,      \* [Workers -> locals of the runner the worker is in]
    req,       \* [Clients -> locals of the API handler in progress]
    asked,     \* API requests so far
    runs       \* history: [Tools -> how often the runtime ran the command]

domainVars == <<session, planned, step, done, tool, approval, evidence, runtime,
                task, work, req, asked, runs>>
engineVars == <<jobVars, domainVars>>

planVars == <<planned, step, done>>
callVars == <<tool, approval, evidence, runs>>
apiVars  == <<req, asked>>

SessionStatus == {"draft", "planning", "running", "paused", "awaiting_approval",
                  "completed", "failed", "stopped", "archived"}
StepStatus == {"none", "ready", "running", "completed"}
FinalCall == {"succeeded", "failed", "timed_out", "cancelled", "denied"}
ActiveCall == {"queued", "running", "awaiting_approval"}
CallStatus == {"none"} \cup ActiveCall \cup FinalCall
ApprovalStatus == {"none", "pending", "approved", "denied"}
RowStatus == {"none", "starting", "running", "stopped", "failed"}

NoWork == [pc |-> "none", step |-> 0, held |-> {}, turns |-> 0, sawTasks |-> FALSE,
           tool |-> NoTool, runtime |-> 0, saw |-> "none", outcome |-> "none",
           sawEvidence |-> FALSE]
NoReq == [op |-> "none", pc |-> "none", seen |-> "none", tool |-> NoTool,
          tools |-> {}, runtime |-> 0]
NoCall == [status |-> "none", step |-> 0, command |-> FALSE]
NoTask == [type |-> "none", tool |-> NoTool, by |-> "none"]
NoRuntime == [row |-> "none", box |-> "none", launch |-> "none"]

DomainInit(status, plans) ==
    /\ session = status
    /\ planned = plans
    /\ step = [s \in Steps |-> IF PlanOf(s) <= plans THEN "ready" ELSE "none"]
    /\ done = {}
    /\ tool = [t \in Tools |-> NoCall]
    /\ approval = [t \in Tools |-> "none"]
    /\ evidence = [t \in Tools |-> 0]
    /\ runtime = [r \in Runtimes |-> NoRuntime]
    /\ task = [j \in Jobs |-> NoTask]
    /\ work = [w \in Workers |-> NoWork]
    /\ req = [c \in Clients |-> NoReq]
    /\ asked = 0
    /\ runs = [t \in Tools |-> 0]

-----------------------------------------------------------------------------
(* Reads and writes the handlers share.                                    *)

SetCall(t, s) == tool' = [tool EXCEPT ![t].status = s]
SetWork(w, pc) == work' = [work EXCEPT ![w].pc = pc]
EndWork(w) == work' = [work EXCEPT ![w] = NoWork]
SetReq(c, pc) == req' = [req EXCEPT ![c].pc = pc]
EndReq(c) == req' = [req EXCEPT ![c] = NoReq]

\* A row that another transaction has flushed but not committed cannot be
\* written: stop_session holds tool calls over its call to the runtime service,
\* an executor its tool call over the upload of the evidence, an agent run the
\* step it started over its call to the provider.
CallFreeOfStop(t) == \A c \in Clients :                          \* mutant
    ~(req[c].op = "stop" /\ req[c].pc \in {"flushed", "called"} /\ t \in req[c].tools)
CallFree(t) ==
    /\ \A c \in Clients :
         ~(req[c].op = "stop" /\ req[c].pc \in {"flushed", "called"} /\ t \in req[c].tools)
    /\ \A w \in Workers : ~(work[w].pc = "finishing" /\ work[w].tool = t)
StepFree(s, w) == \A v \in Workers \ {w} : s \notin work[v].held

Payload(j, type, t, by) ==
    task' = [task EXCEPT ![j] = [type |-> type, tool |-> t, by |-> by]]

Latest(S) == IF S = {} THEN 0 ELSE CHOOSE r \in S : \A q \in S : q <= r
AnyRuntime == Latest({r \in Runtimes : runtime[r].row # "none"})   \* mutant
RunningRuntime == Latest({r \in Runtimes : runtime[r].row = "running"})
LatestRuntime == Latest({r \in Runtimes : runtime[r].row # "none"})

\* create_runtime_instance: the row is committed before the service is called.
CreateRuntime(r) ==
    /\ runtime[r].row = "none"
    /\ r = LatestRuntime + 1
    /\ runtime' = [runtime EXCEPT ![r] =
                       [row |-> "starting", box |-> "none", launch |-> "calling"]]

=============================================================================
