SPECIFICATION PlannedSpec
CONSTANTS
    j1 = j1
    j2 = j2
    j3 = j3
    w1 = w1
    w2 = w2
    c1 = c1
    c2 = c2
    t1 = t1
    Jobs = {j1, j2, j3}
    NoJob = NoJob
    Workers = {w1, w2}
    MaxCopies = 1
    Faults = {"stale"}
    Clients = {c1, c2}
    Ops = {"run_agent", "approve", "deny", "pause", "resume", "stop"}
    MaxRequests = 3
    Tools = {t1}
    NoTool = NoTool
    Tasks = {"recon"}
    NSteps = 1
    TaskOf <- OneStep
    MaxPlans = 1
    MaxTurns = 2
    MaxRuntimes = 1
SYMMETRY Symmetry
INVARIANTS
    EngineTypeOK
    CallHasExecutor
    PendingNeverRuns
    AwaitingHasPending
CHECK_DEADLOCK FALSE
