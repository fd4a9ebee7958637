SPECIFICATION FairSpec
CONSTANTS
    j1 = j1
    j2 = j2
    w1 = w1
    w2 = w2
    c1 = c1
    c2 = c2
    Jobs = {j1, j2}
    NoJob = NoJob
    Workers = {w1, w2}
    MaxCopies = 1
    Faults = {"enqueue", "stale"}
    Clients = {c1, c2}
    Ops = {"start", "stop", "archive"}
    MaxRequests = 3
    Tools = {}
    NoTool = NoTool
    Tasks = {"recon"}
    NSteps = 1
    TaskOf <- OneStep
    MaxPlans = 2
    MaxTurns = 1
    MaxRuntimes = 0
PROPERTIES
    PlanningEnds
    JobSettles
CHECK_DEADLOCK FALSE
