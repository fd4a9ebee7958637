---------------------------- MODULE PlanSession ----------------------------
(***************************************************************************)
(* PlanSessionRunner: a plan_session job turns a session from "planning"   *)
(* into "running" and creates its tasks and steps; reconcile_stale fails   *)
(* jobs that have been running for too long.                               *)
(***************************************************************************)
EXTENDS EngineState

PlanUnchanged == UNCHANGED <<done, callVars, runtime, task, apiVars>>

\* The first half of _plan: what it decides by, read before the provider call.
PlanRead(w) ==
    /\ work[w].pc = "plan"
    /\ session = "planning"
    /\ work' = [work EXCEPT ![w].pc = "planning", ![w].sawTasks = planned > 0]
    /\ UNCHANGED <<jobVars, session, planned, step>>
    /\ PlanUnchanged

\* The second half: the status is overwritten, whatever it has become.
PlanCommit(w) ==
    /\ work[w].pc = "planning"
    /\ Succeed(w)
    /\ session' = "running"
    /\ IF work[w].sawTasks
         THEN UNCHANGED <<planned, step>>
         ELSE /\ planned < MaxPlans
              /\ planned' = planned + 1
              /\ step' = [s \in Steps |-> IF PlanOf(s) = planned' THEN "ready" ELSE step[s]]
    /\ EndWork(w)
    /\ PlanUnchanged

PlanRaises(w) ==
    /\ \/ work[w].pc = "plan" /\ session # "planning"
       \/ work[w].pc = "planning"
    /\ Raise(w)
    /\ EndWork(w)
    /\ UNCHANGED <<session, planned, step>>
    /\ PlanUnchanged

FailNothing == UNCHANGED session                                \* mutant
FailPlanning == session' = IF session = "planning" THEN "failed" ELSE session

PlanMarkFailed(w) ==
    /\ MarkFailed(w)
    /\ task[worker[w].job].type = "plan"
    /\ FailPlanning
    /\ UNCHANGED <<planned, step, work>>
    /\ PlanUnchanged

ReconcileForgetsJobs ==                                         \* mutant
    /\ reaper.pc = "selected"
    /\ reaper' = NoCancel
    /\ FailPlanning
    /\ UNCHANGED <<job, outbox, broker, worker, canceller, begun, overlap, orphaned>>
    /\ UNCHANGED <<planned, step, work>>
    /\ PlanUnchanged
ReconcileStale ==
    /\ ReconcileCommit
    /\ FailPlanning
    /\ UNCHANGED <<planned, step, work>>
    /\ PlanUnchanged

PlanStep(w) == PlanRead(w) \/ PlanCommit(w) \/ PlanRaises(w) \/ PlanMarkFailed(w)

=============================================================================
