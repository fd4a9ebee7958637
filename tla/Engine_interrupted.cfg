SPECIFICATION PlannedSpec
CONSTANTS
    j1 = j1
    w1 = w1
    c1 = c1
    t1 = t1
    Jobs = {j1}
    NoJob = NoJob
    Workers = {w1}
    MaxCopies = 1
    Faults = {"crash", "stale"}
    Clients = {c1}
    Ops = {"terminal"}
    MaxRequests = 1
    Tools = {t1}
    NoTool = NoTool
    Tasks = {}
    NSteps = 0
    TaskOf <- NoSteps
    MaxPlans = 1
    MaxTurns = 1
    MaxRuntimes = 1
SYMMETRY Symmetry
INVARIANTS
    InterruptedCallIsMarked
CHECK_DEADLOCK FALSE
