SPECIFICATION FairSpec
CONSTANTS
    j1 = j1
    w1 = w1
    c1 = c1
    Jobs = {j1}
    NoJob = NoJob
    Workers = {w1}
    MaxCopies = 1
    Faults = {}
    Clients = {c1}
    Ops = {"start", "stop"}
    MaxRequests = 2
    Tools = {}
    NoTool = NoTool
    Tasks = {"recon"}
    NSteps = 1
    TaskOf <- OneStep
    MaxPlans = 1
    MaxTurns = 1
    MaxRuntimes = 0
PROPERTIES
    StoppedIsFinal
CHECK_DEADLOCK FALSE
