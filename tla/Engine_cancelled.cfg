SPECIFICATION FairPlannedSpec
CONSTANTS
    j1 = j1
    w1 = w1
    c1 = c1
    t1 = t1
    Jobs = {j1}
    NoJob = NoJob
    Workers = {w1}
    MaxCopies = 1
    Faults = {}
    Clients = {c1}
    Ops = {"terminal", "stop"}
    MaxRequests = 2
    Tools = {t1}
    NoTool = NoTool
    Tasks = {}
    NSteps = 0
    TaskOf <- NoSteps
    MaxPlans = 1
    MaxTurns = 1
    MaxRuntimes = 1
PROPERTIES
    FinalCallIsFinal
CHECK_DEADLOCK FALSE
