----------------------------- MODULE Approvals -----------------------------
(***************************************************************************)
(* ApprovalService: an operator approves or denies the tool call an agent  *)
(* asked for.  The handler tests the approval it has read and nothing      *)
(* else: neither the session nor the tool call has to be waiting still.    *)
(***************************************************************************)
EXTENDS EngineState

ApprovalUnchanged == UNCHANGED <<planned, done, evidence, runtime, work, asked, runs>>

AskResolve(c, op, t) ==
    /\ req[c].op = "none"
    /\ asked < MaxRequests
    /\ approval[t] = "pending"
    /\ req' = [req EXCEPT ![c] = [NoReq EXCEPT !.op = op, !.seen = session, !.tool = t]]
    /\ asked' = asked + 1
    /\ UNCHANGED <<jobVars, session, planVars, callVars, runtime, task, work>>

\* resolve_approval_request
ResolvedLater(c, s) == UNCHANGED approval                       \* mutant
Resolved(c, s) == approval' = [approval EXCEPT ![req[c].tool] = s]

\* Both handlers wake the session they saw waiting.
WakeNever(c) == UNCHANGED session                               \* mutant
WakeAsActive(c) ==                                              \* mutant
    session' = IF req[c].seen = "awaiting_approval" THEN "active" ELSE session
WakeSession(c) ==
    session' = IF req[c].seen = "awaiting_approval" THEN "running" ELSE session

Approve(c, j) ==
    LET t == req[c].tool IN
    /\ req[c].op = "approve"
    /\ CallFree(t)
    /\ Resolved(c, "approved")
    /\ SetCall(t, "queued")
    /\ WakeSession(c)
    /\ CreateJob(j)
    /\ Payload(j, "execute", t, "approval")
    /\ EndReq(c)
    /\ UNCHANGED step
    /\ ApprovalUnchanged

Deny(c) ==
    LET t == req[c].tool
        s == tool[t].step
    IN
    /\ req[c].op = "deny"
    /\ CallFree(t) /\ \A w \in Workers : s \notin work[w].held
    /\ Resolved(c, "denied")
    /\ SetCall(t, "denied")
    /\ step' = [step EXCEPT ![s] = "ready"]
    /\ WakeSession(c)
    /\ EndReq(c)
    /\ UNCHANGED <<jobVars, task>>
    /\ ApprovalUnchanged

ApprovalStep(c) == Deny(c) \/ \E j \in Jobs : Approve(c, j)

=============================================================================
