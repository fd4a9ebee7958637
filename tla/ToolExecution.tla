--------------------------- MODULE ToolExecution ---------------------------
(***************************************************************************)
(* ToolExecutionRunner: an execute_tool_call job finds or starts a runtime *)
(* for the session, runs the command in its container and records the      *)
(* outcome.  Calls to the runtime service take time and commits surround   *)
(* them.  Launching a runtime is the same code in the API and the executor *)
(* (LaunchCall, LaunchRecord); the executor waits for its result.          *)
(***************************************************************************)
EXTENDS EngineState

ExecUnchanged == UNCHANGED <<session, planVars, approval, task, apiVars>>
CallUnchanged == UNCHANGED <<tool, evidence, runs>>

Call(w) == task[worker[w].job].tool

ExecSkip(w) ==
    /\ work[w].pc = "execute"
    /\ tool[Call(w)].status \in FinalCall
    /\ Succeed(w)
    /\ EndWork(w)
    /\ UNCHANGED runtime /\ CallUnchanged /\ ExecUnchanged

ExecRead(w) ==
    /\ work[w].pc = "execute"
    /\ tool[Call(w)].status \notin FinalCall
    /\ session = "running"
    /\ work' = [work EXCEPT ![w].pc = IF RunningRuntime = 0 THEN "launch" ELSE "ready",
                            ![w].runtime = RunningRuntime,
                            ![w].saw = IF RunningRuntime = 0 THEN "none"
                                       ELSE tool[Call(w)].status]
    /\ UNCHANGED <<jobVars, runtime>> /\ CallUnchanged /\ ExecUnchanged

ExecCreateRuntime(w, r) ==
    /\ work[w].pc = "launch"
    /\ CreateRuntime(r)
    /\ work' = [work EXCEPT ![w].pc = "launching", ![w].runtime = r]
    /\ UNCHANGED jobVars /\ CallUnchanged /\ ExecUnchanged

ExecLaunched(w) ==
    /\ work[w].pc = "launching"
    /\ runtime[work[w].runtime].launch = "done"
    /\ SetWork(w, "ready")
    /\ UNCHANGED <<jobVars, runtime>> /\ CallUnchanged /\ ExecUnchanged

\* An UPDATE leaves out a column that would get the value it was loaded with; a
\* commit expires what was loaded ("none") until it is loaded again.
WriteCall(w, s) == IF work[w].saw = s THEN UNCHANGED tool ELSE SetCall(Call(w), s)

ExecMarkRunning(w) ==
    /\ work[w].pc = "ready"
    /\ CallFree(Call(w))
    /\ WriteCall(w, "running")
    /\ work' = [work EXCEPT ![w].pc = "marked", ![w].saw = tool'[Call(w)].status]
    /\ UNCHANGED <<jobVars, runtime, evidence, runs>> /\ ExecUnchanged

\* execute_command: _require_container, then exec_run in a thread.
ExecBegin(w) ==
    /\ work[w].pc = "marked"
    /\ tool[Call(w)].command
    /\ runtime[work[w].runtime].box = "running"
    /\ runs' = [runs EXCEPT ![Call(w)] = @ + 1]
    /\ SetWork(w, "executing")
    /\ UNCHANGED <<jobVars, runtime, tool, evidence>> /\ ExecUnchanged

\* A command that outlasts its timeout is ended by killing the container.
ExecReply(w, outcome) ==
    LET r == work[w].runtime IN
    /\ work[w].pc = "executing"
    /\ outcome = "succeeded" => runtime[r].box = "running"
    /\ work' = [work EXCEPT ![w].pc = "answered", ![w].outcome = outcome]
    /\ runtime' = IF outcome = "timed_out" /\ runtime[r].box = "running"
                    THEN [runtime EXCEPT ![r].box = "exited"] ELSE runtime
    /\ UNCHANGED jobVars /\ CallUnchanged /\ ExecUnchanged

\* finish_tool_call is flushed, which locks the row of the tool call; then
\* _record_terminal_evidence looks for evidence and may upload the output.
ExecFlush(w) ==
    LET t == Call(w) IN
    /\ work[w].pc = "answered"
    /\ CallFree(t)
    /\ work' = [work EXCEPT ![w].pc = "finishing", ![w].tool = t,
                            ![w].sawEvidence = evidence[t] > 0]
    /\ UNCHANGED <<jobVars, runtime>> /\ CallUnchanged /\ ExecUnchanged

\* The command is taken to print something: without output there is no evidence.
ExecCommit(w) ==
    LET t == Call(w) IN
    /\ work[w].pc = "finishing"
    /\ WriteCall(w, work[w].outcome)
    /\ evidence' = IF work[w].outcome = "succeeded" /\ ~work[w].sawEvidence
                     THEN [evidence EXCEPT ![t] = @ + 1] ELSE evidence
    /\ Succeed(w)
    /\ EndWork(w)
    /\ UNCHANGED <<runtime, runs>> /\ ExecUnchanged

\* The session no longer runs, the launch failed, the arguments are no command,
\* the container is not running, or a call to the runtime service failed.
ExecRaises(w) ==
    LET r == work[w].runtime IN
    /\ \/ /\ work[w].pc = "execute" /\ session # "running"
          /\ tool[Call(w)].status \notin FinalCall
       \/ work[w].pc = "launching" /\ runtime[r].launch = "failed"
       \/ work[w].pc = "marked" /\ ~(tool[Call(w)].command /\ runtime[r].box = "running")
       \/ work[w].pc = "finishing" /\ "upload" \in Faults
       \/ work[w].pc = "executing" /\ "runtime" \in Faults
    /\ Raise(w)
    /\ EndWork(w)
    /\ UNCHANGED runtime /\ CallUnchanged /\ ExecUnchanged

\* _mark_failed reads the tool call and, unless it is final, overwrites it; when
\* stop_session holds the row it waits and then overwrites what stop has written.
FailCallNever(w) == UNCHANGED tool                              \* mutant
FailCall(w) ==
    IF work[w].pc # "waiting" /\ tool[Call(w)].status \in FinalCall
      THEN UNCHANGED tool
      ELSE CallFree(Call(w)) /\ SetCall(Call(w), "failed")

ExecFailWaits(w) ==
    /\ worker[w].pc = "failing" /\ work[w].pc = "none"
    /\ task[worker[w].job].type = "execute"
    /\ RowFree(worker[w].job)
    /\ tool[Call(w)].status \notin FinalCall
    /\ ~CallFree(Call(w))
    /\ SetWork(w, "waiting")
    /\ UNCHANGED <<jobVars, runtime>> /\ CallUnchanged /\ ExecUnchanged

ExecMarkFailed(w) ==
    /\ MarkFailed(w)
    /\ task[worker[w].job].type = "execute"
    /\ FailCall(w)
    /\ EndWork(w)
    /\ UNCHANGED <<runtime, evidence, runs>> /\ ExecUnchanged

ExecStep(w) ==
    \/ ExecSkip(w) \/ ExecRead(w) \/ ExecLaunched(w) \/ ExecMarkRunning(w)
    \/ ExecBegin(w) \/ ExecFlush(w) \/ ExecCommit(w) \/ ExecRaises(w)
    \/ ExecFailWaits(w) \/ ExecMarkFailed(w)
    \/ \E r \in Runtimes : ExecCreateRuntime(w, r)
    \/ \E o \in {"succeeded", "failed", "timed_out"} : ExecReply(w, o)

-----------------------------------------------------------------------------
OnlyRuntime == UNCHANGED <<jobVars, session, planVars, callVars, task, work, apiVars>>

\* start_runtime at the runtime service; the reply, or the call, may be lost.
LaunchCall(r) ==
    /\ runtime[r].launch = "calling"
    /\ \/ runtime' = [runtime EXCEPT ![r].box = "running", ![r].launch = "up"]
       \/ /\ "runtime" \in Faults
          /\ \E box \in {"none", "running"} :
               runtime' = [runtime EXCEPT ![r].box = box, ![r].launch = "error"]
    /\ OnlyRuntime

\* The row is overwritten with the outcome of the call.
LaunchRecord(r) ==
    /\ \/ /\ runtime[r].launch = "up"
          /\ runtime' = [runtime EXCEPT ![r].row = "running", ![r].launch = "done"]
       \/ /\ runtime[r].launch = "error"
          /\ runtime' = [runtime EXCEPT ![r].row = "failed", ![r].launch = "failed"]
    /\ OnlyRuntime

LaunchStep(r) == LaunchCall(r) \/ LaunchRecord(r)

=============================================================================
