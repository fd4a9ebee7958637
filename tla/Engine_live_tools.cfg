SPECIFICATION FairPlannedSpec
CONSTANTS
    j1 = j1
    j2 = j2
    w1 = w1
    c1 = c1
    t1 = t1
    t2 = t2
    Jobs = {j1, j2}
    NoJob = NoJob
    Workers = {w1}
    MaxCopies = 1
    Faults = {"runtime", "upload"}
    Clients = {c1}
    Ops = {"terminal", "stop", "stop_runtime"}
    MaxRequests = 3
    Tools = {t1, t2}
    NoTool = NoTool
    Tasks = {}
    NSteps = 0
    TaskOf <- NoSteps
    MaxPlans = 1
    MaxTurns = 1
    MaxRuntimes = 2
PROPERTIES
    CallsSettle
    StopSucceeds
CHECK_DEADLOCK FALSE
