SPECIFICATION Spec
CONSTANTS
    j1 = j1
    j2 = j2
    w1 = w1
    w2 = w2
    c1 = c1
    c2 = c2
    Jobs = {j1, j2}
    NoJob = NoJob
    Workers = {w1, w2}
    MaxCopies = 2
    Faults = {"crash", "duplicate", "enqueue", "stale", "skew", "api_crash"}
    Clients = {c1, c2}
    Ops = {"start", "stop", "archive"}
    MaxRequests = 2
    Tools = {}
    NoTool = NoTool
    Tasks = {"recon"}
    NSteps = 1
    TaskOf <- OneStep
    MaxPlans = 2
    MaxTurns = 1
    MaxRuntimes = 0
SYMMETRY Symmetry
INVARIANTS
    PlanningHasJob
    PlannedOnce
PROPERTIES
    JobSpec
CHECK_DEADLOCK FALSE
