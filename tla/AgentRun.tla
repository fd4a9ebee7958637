------------------------------ MODULE AgentRun ------------------------------
(***************************************************************************)
(* AgentRunSessionRunner: an agent_run_session job takes the next step,    *)
(* asks the provider for one action at a time and carries it out.  All     *)
(* turns are one transaction, except that queueing a command commits.      *)
(***************************************************************************)
EXTENDS EngineState

AgentUnchanged == UNCHANGED <<planned, runtime, evidence, runs, apiVars>>
CallsUnchanged == UNCHANGED <<tool, approval, task>>

OpenSteps(w) == {s \in Steps : step[s] \in {"ready", "running"}} \cup work[w].held
NextStep(w) == CHOOSE s \in OpenSteps(w) : \A q \in OpenSteps(w) : s <= q

\* The steps as the commit of w leaves them; those it started are "running".
Flushed(w) == [s \in Steps |-> IF s \in work[w].held THEN "running" ELSE step[s]]

\* The session is read once: the re-read in the loop returns the object the
\* database session already holds, so a later stop or pause goes unseen.
AgentRead(w) ==
    /\ work[w].pc = "agent"
    /\ session = "running"
    /\ SetWork(w, "turn")
    /\ UNCHANGED <<jobVars, session, step, done>>
    /\ CallsUnchanged /\ AgentUnchanged

AgentPick(w) ==
    /\ work[w].pc = "turn"
    /\ OpenSteps(w) # {}
    /\ LET s == NextStep(w)
           started == s \in work[w].held \cup {work[w].step} \/ step[s] = "running"
       IN work' = [work EXCEPT ![w].pc = IF started THEN "asking" ELSE "picked",
                               ![w].step = s, ![w].turns = @ + 1]
    /\ UNCHANGED <<jobVars, session, step, done>>
    /\ CallsUnchanged /\ AgentUnchanged

AgentStartStep(w) ==
    /\ work[w].pc = "picked"
    /\ StepFree(work[w].step, w)
    /\ work' = [work EXCEPT ![w].pc = "asking", ![w].held = @ \cup {work[w].step}]
    /\ UNCHANGED <<jobVars, session, step, done>>
    /\ CallsUnchanged /\ AgentUnchanged

\* _complete_session_if_ready, over the steps as this transaction sees them.
CompleteIfReady(steps) ==
    LET StepsOf(k) == {s \in Steps : TaskAt(s) = k}
        tasks == TasksOf(planned)
    IN /\ done' = done \cup {k \in tasks : /\ StepsOf(k) # {}
                                           /\ \A s \in StepsOf(k) : steps[s] = "completed"}
       /\ session' = IF tasks # {} /\ done' = tasks THEN "completed" ELSE session

AgentNoStep(w) ==
    /\ work[w].pc = "turn"
    /\ OpenSteps(w) = {}
    /\ Succeed(w)
    /\ CompleteIfReady(step)
    /\ EndWork(w)
    /\ UNCHANGED step
    /\ CallsUnchanged /\ AgentUnchanged

\* A file.* call that the policy allows is recorded and the loop goes on.
AgentFileCall(w) ==
    /\ work[w].pc = "asking"
    /\ work[w].turns < MaxTurns
    /\ SetWork(w, "turn")
    /\ UNCHANGED <<jobVars, session, step, done>>
    /\ CallsUnchanged /\ AgentUnchanged

\* A denied or a memory.* call, or the last turn: nothing else is written.
AgentEnd(w) ==
    /\ work[w].pc = "asking"
    /\ Succeed(w)
    /\ step' = Flushed(w)
    /\ EndWork(w)
    /\ UNCHANGED <<session, done>>
    /\ CallsUnchanged /\ AgentUnchanged

AgentCompleteStep(w) ==
    LET s == work[w].step IN
    /\ work[w].pc = "asking"
    /\ StepFree(s, w)
    /\ Succeed(w)
    /\ step' = [Flushed(w) EXCEPT ![s] = "completed"]
    /\ CompleteIfReady(step')
    /\ EndWork(w)
    /\ CallsUnchanged /\ AgentUnchanged

\* _request_approval: any tool call may need one; only terminal.execute
\* carries arguments that the executor accepts as a command.
AgentRequestApproval(w, t) ==
    /\ work[w].pc = "asking"
    /\ tool[t].status = "none"
    /\ Succeed(w)
    /\ step' = Flushed(w)
    /\ \E command \in BOOLEAN :
         tool' = [tool EXCEPT ![t] = [status |-> "awaiting_approval",
                                      step |-> work[w].step, command |-> command]]
    /\ approval' = [approval EXCEPT ![t] = "pending"]
    /\ session' = "awaiting_approval"
    /\ EndWork(w)
    /\ UNCHANGED <<done, task>>
    /\ AgentUnchanged

AgentQueueTerminal(w, t, j) ==
    /\ work[w].pc = "asking"
    /\ tool[t].status = "none"
    /\ CreateJob(j)
    /\ Payload(j, "execute", t, "agent")
    /\ tool' = [tool EXCEPT ![t] = [status |-> "queued", step |-> work[w].step,
                                    command |-> TRUE]]
    /\ step' = Flushed(w)
    /\ work' = [work EXCEPT ![w] = [NoWork EXCEPT !.pc = "sending", !.tool = t]]
    /\ UNCHANGED <<session, done, approval>>
    /\ AgentUnchanged

AgentSend(w, j) ==
    /\ work[w].pc = "sending"
    /\ task[j].tool = work[w].tool /\ task[j].by = "agent"
    /\ Enqueue(j)
    /\ SetWork(w, "closing")
    /\ UNCHANGED <<session, step, done>>
    /\ CallsUnchanged /\ AgentUnchanged

AgentClose(w) ==
    /\ work[w].pc = "closing"
    /\ Succeed(w)
    /\ EndWork(w)
    /\ UNCHANGED <<session, step, done>>
    /\ CallsUnchanged /\ AgentUnchanged

\* A refused start, a provider error, or send_task failing after the commit.
AgentRaises(w) ==
    /\ \/ work[w].pc = "agent"
       \/ work[w].pc = "asking"
       \/ work[w].pc = "sending" /\ "enqueue" \in Faults
    /\ Raise(w)
    /\ EndWork(w)
    /\ UNCHANGED <<session, step, done>>
    /\ CallsUnchanged /\ AgentUnchanged

AgentMarkFailed(w) ==
    /\ MarkFailed(w)
    /\ task[worker[w].job].type = "agent"
    /\ UNCHANGED <<session, step, done, work>>
    /\ CallsUnchanged /\ AgentUnchanged

AgentStep(w) ==
    \/ AgentRead(w) \/ AgentPick(w) \/ AgentStartStep(w) \/ AgentNoStep(w)
    \/ AgentFileCall(w) \/ AgentEnd(w) \/ AgentCompleteStep(w) \/ AgentClose(w)
    \/ AgentRaises(w) \/ AgentMarkFailed(w)
    \/ \E t \in Tools : AgentRequestApproval(w, t)
    \/ \E t \in Tools, j \in Jobs : AgentQueueTerminal(w, t, j)
    \/ \E j \in Jobs : AgentSend(w, j)

=============================================================================
