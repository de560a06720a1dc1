SPECIFICATION Spec
CONSTANTS
    Instances = {i1, i2}
    Workers = {w1, w2, w3}
    Callers = {c1}
    Jobs = {j1}
    VMs = {v1}
    MaxRuns = 2
    MaxRestarts = 1
    MaxLapses = 1
    MaxFaults = 1
    Outcomes = {"succeeded", "failed"}
    PoolSize = 1
    Concurrency = 2
    Cluster = TRUE
    Heartbeats = TRUE
    Garbled = TRUE
    Priority <- EqualPriority
    None = None
SYMMETRY QueueSymmetry
CHECK_DEADLOCK FALSE
INVARIANT OneFinalizer
