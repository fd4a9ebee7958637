SPECIFICATION JobSpec
CONSTANTS
    j1 = j1
    j2 = j2
    w1 = w1
    w2 = w2
    Jobs = {j1, j2}
    NoJob = NoJob
    Workers = {w1, w2}
    MaxCopies = 2
    Faults <- AllFaults
SYMMETRY Symmetry
INVARIANTS
    JobTypeOK
    RunsOnceUnlessClaimsOverlap
    AttemptsCountRuns
    RunningHasWorker
CHECK_DEADLOCK FALSE
