--------------------------- MODULE SessionService ---------------------------
(***************************************************************************)
(* SessionService and AgentOrchestrationService: the API handlers that     *)
(* read a session, test its status and later commit what follows from it.  *)
(* A request that fails its first test changes nothing and is left out.    *)
(***************************************************************************)
EXTENDS EngineState

ServiceUnchanged == UNCHANGED <<planVars, approval, evidence, work, runs, asked>>

\* The statuses each operation accepts.
Accepts(op) ==
    CASE op = "start"         -> {"draft"}
      [] op = "pause"         -> {"running"}
      [] op = "resume"        -> {"paused"}
      [] op = "archive"       -> {"draft", "completed", "failed", "stopped"}
      [] op = "stop"          -> {"planning", "running", "paused", "awaiting_approval"}
      [] op = "run_agent"     -> {"running"}
      [] op = "terminal"      -> {"running"}
      [] op = "start_runtime" -> {"running"}
      [] op = "stop_runtime"  -> {"running", "paused", "stopped", "failed"}

Becomes == [pause |-> "paused", resume |-> "running", archive |-> "archived"]

Ask(c, op) ==
    /\ req[c].op = "none"
    /\ asked < MaxRequests
    /\ session \in Accepts(op)
    /\ asked' = asked + 1

\* Operations that need the session's status alone.
AskSimple(c, op) ==
    /\ op \in {"start", "pause", "resume", "archive", "run_agent", "terminal"}
    /\ Ask(c, op)
    /\ req' = [req EXCEPT ![c] = [NoReq EXCEPT !.op = op, !.seen = session]]
    /\ UNCHANGED <<jobVars, session, planVars, callVars, runtime, task, work>>

Transition(c) ==
    /\ req[c].op \in DOMAIN Becomes
    /\ session' = Becomes[req[c].op]
    /\ EndReq(c)
    /\ UNCHANGED <<jobVars, tool, runtime, task>>
    /\ ServiceUnchanged

Start(c, j) ==
    /\ req[c].op = "start"
    /\ session' = "planning"
    /\ CreateJob(j)
    /\ Payload(j, "plan", NoTool, "api")
    /\ EndReq(c)
    /\ UNCHANGED <<tool, runtime>>
    /\ ServiceUnchanged

RunAgent(c, j) ==
    /\ req[c].op = "run_agent"
    /\ CreateJob(j)
    /\ Payload(j, "agent", NoTool, "api")
    /\ EndReq(c)
    /\ UNCHANGED <<session, tool, runtime>>
    /\ ServiceUnchanged

\* create_terminal_tool_call, for a command that _command_allowed lets through.
RunCommand(c, t, j) ==
    /\ req[c].op = "terminal"
    /\ tool[t].status = "none"
    /\ tool' = [tool EXCEPT ![t] = [status |-> "queued", step |-> 0, command |-> TRUE]]
    /\ CreateJob(j)
    /\ Payload(j, "execute", t, "api")
    /\ EndReq(c)
    /\ UNCHANGED <<session, runtime>>
    /\ ServiceUnchanged

\* The API's send_task, and its failure: start_session fails the session as
\* well, a terminal command its tool call, approve() and run_session only the job.
ApiEnqueue(j) ==
    /\ task[j].by # "agent"
    /\ Enqueue(j)
    /\ UNCHANGED domainVars

ApiEnqueueFails(j) ==
    /\ task[j].by # "agent"
    /\ EnqueueFails(j)
    /\ session' = IF task[j].type = "plan" THEN "failed" ELSE session
    /\ IF task[j].type = "execute" /\ task[j].by = "api"
         THEN CallFree(task[j].tool) /\ SetCall(task[j].tool, "failed")
         ELSE UNCHANGED tool
    /\ UNCHANGED <<runtime, task, req>>
    /\ ServiceUnchanged

-----------------------------------------------------------------------------
(* stop_session: select, flush (which locks the rows), call, commit.       *)

AskStop(c) ==
    /\ Ask(c, "stop")
    /\ CancelSelect
    /\ req' = [req EXCEPT ![c] =
                 [NoReq EXCEPT !.op = "stop", !.pc = "selected", !.runtime = RunningRuntime,
                   !.tools = {t \in Tools : tool[t].status \in ActiveCall}]]
    /\ UNCHANGED <<session, planVars, callVars, runtime, task, work>>

StopFlush(c) ==
    /\ req[c].op = "stop" /\ req[c].pc = "selected"
    /\ \A t \in req[c].tools : CallFree(t)
    /\ CancelFlush
    /\ SetReq(c, "flushed")
    /\ UNCHANGED <<session, tool, runtime, task>>
    /\ ServiceUnchanged

\* The service removes the container of the runtime, if there is one.
StopCall(c) ==
    LET r == req[c].runtime IN
    /\ req[c].op = "stop" /\ req[c].pc = "flushed"
    /\ runtime' = IF r = 0 THEN runtime ELSE [runtime EXCEPT ![r].box = "none"]
    /\ SetReq(c, "called")
    /\ UNCHANGED <<jobVars, session, tool, task>>
    /\ ServiceUnchanged

StopCallFailing(c) ==
    LET r == req[c].runtime IN
    /\ req[c].op = "stop" /\ req[c].pc = "flushed"
    /\ r # 0 /\ "runtime" \in Faults
    /\ \E box \in {"none", runtime[r].box} : runtime' = [runtime EXCEPT ![r].box = box]

\* Its exception is swallowed; the row of the runtime then stays as it is.
StopCallAborts(c) ==                                            \* mutant
    /\ StopCallFailing(c)
    /\ canceller' = NoCancel
    /\ EndReq(c)
    /\ UNCHANGED <<job, outbox, broker, worker, reaper, begun, overlap, orphaned>>
    /\ UNCHANGED <<session, tool, task>>
    /\ ServiceUnchanged
StopCallFails(c) ==
    /\ StopCallFailing(c)
    /\ req' = [req EXCEPT ![c].pc = "called", ![c].runtime = 0]
    /\ UNCHANGED <<jobVars, session, tool, task>>
    /\ ServiceUnchanged

StopCommit(c) ==
    LET r == req[c].runtime IN
    /\ req[c].op = "stop" /\ req[c].pc = "called"
    /\ CancelCommit
    /\ tool' = [t \in Tools |-> IF t \in req[c].tools
                                  THEN [tool[t] EXCEPT !.status = "cancelled"] ELSE tool[t]]
    /\ runtime' = IF r = 0 THEN runtime ELSE [runtime EXCEPT ![r].row = "stopped"]
    /\ session' = "stopped"
    /\ EndReq(c)
    /\ UNCHANGED <<task>>
    /\ ServiceUnchanged

-----------------------------------------------------------------------------
(* Starting and stopping a runtime by hand.                                *)

AskStartRuntime(c) ==
    /\ Ask(c, "start_runtime")
    /\ RunningRuntime = 0
    /\ req' = [req EXCEPT ![c] = [NoReq EXCEPT !.op = "start_runtime"]]
    /\ UNCHANGED <<jobVars, session, planVars, callVars, runtime, task, work>>

\* From here on the launch goes its own way, see ToolExecution.
StartRuntime(c, r) ==
    /\ req[c].op = "start_runtime"
    /\ CreateRuntime(r)
    /\ EndReq(c)
    /\ UNCHANGED <<jobVars, session, tool, task>>
    /\ ServiceUnchanged

AskStopRuntime(c) ==
    LET r == IF RunningRuntime # 0 THEN RunningRuntime ELSE LatestRuntime IN
    /\ Ask(c, "stop_runtime")
    /\ r # 0
    /\ req' = [req EXCEPT ![c] = [NoReq EXCEPT !.op = "stop_runtime", !.pc = "calling",
                                              !.seen = runtime[r].row, !.runtime = r]]
    /\ UNCHANGED <<jobVars, session, planVars, callVars, runtime, task, work>>

StopRuntimeCall(c) ==
    LET r == req[c].runtime IN
    /\ req[c].op = "stop_runtime" /\ req[c].pc = "calling"
    /\ \/ /\ runtime' = [runtime EXCEPT ![r].box = "none"]
          /\ SetReq(c, "called")
       \/ /\ "runtime" \in Faults
          /\ \E box \in {"none", runtime[r].box} : runtime' = [runtime EXCEPT ![r].box = box]
          /\ EndReq(c)
    /\ UNCHANGED <<jobVars, session, tool, task>>
    /\ ServiceUnchanged

StopRuntimeCommit(c) ==
    /\ req[c].op = "stop_runtime" /\ req[c].pc = "called"
    /\ runtime' = IF req[c].seen = "stopped" THEN runtime
                  ELSE [runtime EXCEPT ![req[c].runtime].row = "stopped"]
    /\ EndReq(c)
    /\ UNCHANGED <<jobVars, session, tool, task>>
    /\ ServiceUnchanged

HandlerStep(c) ==
    \/ Transition(c) \/ StopFlush(c) \/ StopCall(c) \/ StopCallFails(c) \/ StopCommit(c)
    \/ StopRuntimeCall(c) \/ StopRuntimeCommit(c)
    \/ \E j \in Jobs : \/ Start(c, j) \/ RunAgent(c, j)
                       \/ \E t \in Tools : RunCommand(c, t, j)
    \/ \E r \in Runtimes : StartRuntime(c, r)

AskStep(c, op) ==
    \/ AskSimple(c, op)
    \/ op = "stop" /\ AskStop(c)
    \/ op = "start_runtime" /\ AskStartRuntime(c)
    \/ op = "stop_runtime" /\ AskStopRuntime(c)

=============================================================================
