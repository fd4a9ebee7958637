---------------------------- MODULE SessionViews ----------------------------
(* How four pages word the state of a session: the home page                 *)
(* (useWorkspaceHome), the list of sessions (useSessionsList), the command   *)
(* center (sessionMapping, SessionMainPanel, SessionRightRail) and the       *)
(* runtime page (runtimeMapping). A task is a record of the statuses of its  *)
(* steps, in their order.                                                    *)
EXTENDS WebLists, Integers, Sequences, SequencesExt

CONSTANTS
    MaxListed,     \* the most rows of a list that runs fetch,
    MaxPlanned,    \* tasks of a session, and steps of a task,
    MaxWork        \* tool calls and jobs

ASSUME ListAssumption == MaxListed \in Nat /\ MaxPlanned \in Nat /\ MaxWork \in Nat

SessionStatuses == {"draft", "planning", "running", "awaiting_approval", "paused",
                    "completed", "failed", "stopped", "archived"}
StepStatuses == {"created", "ready", "running", "awaiting_input", "completed"}
RuntimeRows == {"none", "starting", "running", "stopping", "stopped", "failed", "unhealthy"}
ActiveOnHome == {"running", "paused", "planning"}

(* The tabs of the list: one for all sessions and one for each status.       *)
NormalizeStatus(s) == IF s \in SessionStatuses THEN s ELSE "draft"
InTab(tab, s) == tab = "all" \/ NormalizeStatus(s) = tab

(* The tab of the home page in which a session is counted.                   *)
HomeTab(s) ==
    IF s \notin ActiveOnHome THEN "hidden"
    ELSE IF s \in {"running", "paused"} THEN s ELSE "planning"

-----------------------------------------------------------------------------

(* The words for the runtime of a session on the first three pages.          *)
HomeRuntime(row) ==
    CASE row \in {"none", "stopped", "stopping"} -> "offline"
      [] row \in {"failed", "unhealthy"}         -> "unhealthy"
      [] OTHER                                   -> "healthy"

ListRuntime(row) ==
    CASE row = "none"                     -> "idle"
      [] row \in {"running", "starting"}  -> "healthy"
      [] row \in {"failed", "unhealthy"}  -> "failed"
      [] OTHER                            -> "stopped"

(* The command center shows a session without a runtime as running.          *)
RailRuntimeHealthy(row) == (IF row = "none" THEN "running" ELSE row) \in {"running", "starting"}

(* The runtime page: the status, the health in the header, and the first of  *)
(* the health checks. A session without a runtime has a stopped one.         *)
NormalizeRuntimeStatus(s) ==
    IF s \in {"starting", "running", "stopping", "stopped", "failed", "unhealthy"}
    THEN s ELSE "stopped"

RuntimeHealth(s) ==
    CASE s = "running"                 -> "healthy"
      [] s \in {"failed", "unhealthy"} -> "unhealthy"
      [] OTHER                         -> "degraded"

RuntimeStateCheck(row) ==
    CASE NormalizeRuntimeStatus(row) = "running"                 -> "ok"
      [] NormalizeRuntimeStatus(row) \in {"failed", "unhealthy"} -> "failed"
      [] OTHER                                                   -> "warning"

HeaderHealth(row) ==
    RuntimeHealth(IF row = "none" THEN "stopped" ELSE NormalizeRuntimeStatus(row))

-----------------------------------------------------------------------------

(* The steps of a plan by their places, in the order of the page: task by    *)
(* task.                                                                     *)
NoStep == <<0, 0>>
StepPlaces(tasks) == DisjointUnion([t \in DOMAIN tasks |-> DOMAIN tasks[t].steps])
StepAt(tasks, p) == tasks[p[1]].steps[p[2]]
StepsWith(tasks, Test(_)) == {p \in StepPlaces(tasks) : Test(StepAt(tasks, p))}
Before(p, q) == p[1] < q[1] \/ (p[1] = q[1] /\ p[2] <= q[2])
FirstStep(places) ==
    IF places = {} THEN NoStep ELSE CHOOSE p \in places : \A q \in places : Before(p, q)

(* The step that the home page and the list name as current: a running one,  *)
(* else one that is still to run, else none.                                 *)
ActiveStep(tasks) ==
    LET running == StepsWith(tasks, LAMBDA s : s \in {"running", "awaiting_input"})
    IN IF running # {} THEN FirstStep(running)
       ELSE FirstStep(StepsWith(tasks, LAMBDA s : s \in {"ready", "created"}))

HomeCurrentStep(status, tasks) ==
    CASE ActiveStep(tasks) # NoStep -> ActiveStep(tasks)
      [] status = "planning"        -> "Planning"
      [] OTHER                      -> "No current step"

ListCurrentStep(status, tasks) ==
    CASE ActiveStep(tasks) # NoStep -> ActiveStep(tasks)
      [] status = "planning"        -> "Planning"
      [] status = "draft"           -> "Not started"
      [] OTHER                      -> "No current step"

(* Mutant: a step that awaits input is shown as pending.                     *)
MapStepStatusRunning(s) == IF s \in {"completed", "running"} THEN s ELSE "pending"

(* The command center: a step is completed, running or pending; its heading  *)
(* is the first running one, else the first pending one, else the first.     *)
MapStepStatus(s) ==
    CASE s = "completed"                     -> "completed"
      [] s \in {"running", "awaiting_input"} -> "running"
      [] OTHER                               -> "pending"

MappedSteps(tasks, word) == StepsWith(tasks, LAMBDA s : MapStepStatus(s) = word)

CommandCurrentStep(tasks) ==
    CASE MappedSteps(tasks, "running") # {} -> FirstStep(MappedSteps(tasks, "running"))
      [] MappedSteps(tasks, "running") = {} /\ MappedSteps(tasks, "pending") # {} ->
             FirstStep(MappedSteps(tasks, "pending"))
      [] OTHER -> IF tasks # <<>> /\ tasks[1].steps # <<>> THEN <<1, 1>> ELSE NoStep

(* Completed steps: of a task in the command center, summed up over tasks,   *)
(* and of a session on the home page and in the list.                        *)
CompleteCount(task) == CountOf(task.steps, LAMBDA s : MapStepStatus(s) = "completed")
CompletedSteps(tasks) == SumOf([t \in DOMAIN tasks |-> CompleteCount(tasks[t])])
StepsDone(tasks) == Cardinality(StepsWith(tasks, LAMBDA s : s = "completed"))
=============================================================================
