SPECIFICATION PlannedSpec
CONSTANTS
    j1 = j1
    w1 = w1
    w2 = w2
    c1 = c1
    c2 = c2
    t1 = t1
    Jobs = {j1}
    NoJob = NoJob
    Workers = {w1, w2}
    MaxCopies = 2
    Faults = {"crash", "duplicate", "upload"}
    Clients = {c1, c2}
    Ops = {"terminal", "stop", "start_runtime"}
    MaxRequests = 3
    Tools = {t1}
    NoTool = NoTool
    Tasks = {}
    NSteps = 0
    TaskOf <- NoSteps
    MaxPlans = 1
    MaxTurns = 1
    MaxRuntimes = 2
SYMMETRY Symmetry
INVARIANTS
    EvidenceOnce
    BoxTracked
    RunsHaveJobs
CHECK_DEADLOCK FALSE
