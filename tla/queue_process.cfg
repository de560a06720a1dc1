SPECIFICATION Spec
CONSTANTS
    Instances = {i1}
    Workers = {w1, w2, w3, w4}
    Callers = {c1, c2}
    Jobs = {j1}
    VMs = {v1, v2}
    MaxRuns = 2
    MaxRestarts = 1
    MaxLapses = 1
    MaxFaults = 0
    Outcomes = {"succeeded", "partial"}
    PoolSize = 2
    Concurrency = 1
    Cluster = FALSE
    Heartbeats = TRUE
    Garbled = FALSE
    Priority <- EqualPriority
    None = None
SYMMETRY QueueSymmetry
CHECK_DEADLOCK FALSE
INVARIANT TypeOK
INVARIANT OneRunPerJob
 
INVARIANT SuccessCoversEveryVM
