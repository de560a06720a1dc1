SPECIFICATION Spec
CONSTANTS
    Instances = {i1}
    Workers = {w1, w2, w3}
    Callers = {c1}
    Jobs = {j1}
    VMs = {v1, v2, v3}
    MaxRuns = 1
    MaxRestarts = 0
    MaxLapses = 1
    MaxFaults = 0
    Outcomes = {"succeeded", "failed"}
    PoolSize = 3
    Concurrency = 2
    Cluster = FALSE
    Heartbeats = TRUE
    Garbled = TRUE
    Priority <- EqualPriority
    None = None
SYMMETRY QueueSymmetry
CHECK_DEADLOCK FALSE
INVARIANT SingleExecution
