SPECIFICATION FairSpec
CONSTANTS
    Instances = {i1}
    Workers = {w1, w2, w3, w4}
    Callers = {c1}
    Jobs = {j1}
    VMs = {v1, v2}
    MaxRuns = 1
    MaxRestarts = 1
    MaxLapses = 1
    MaxFaults = 1
    Outcomes = {"succeeded"}
    PoolSize = 2
    Concurrency = 2
    Cluster = FALSE
    Heartbeats = TRUE
    Garbled = TRUE
    Priority <- EqualPriority
    None = None
CHECK_DEADLOCK FALSE
INVARIANT DrainedWhenFinalized
INVARIANT SingleExecution
PROPERTY ClosedTaskStaysClosed
PROPERTY QueuedRunEnds
