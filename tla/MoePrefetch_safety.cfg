SPECIFICATION Spec
CONSTANTS
    c1 = c1
    c2 = c2
    k1 = k1
    k2 = k2
    Callers = {c1}
    Workers = {k1, k2}
    NTensors = 2
    NChunks = 2
    Ahead = 2
    MaxQueue = 1
    PassKinds = {"offload", "host", "multi", "decode"}
    Replaces = FALSE
    MaxPasses = 2
INVARIANTS PendingExact NoLostWakeup NoDuplicateJobs
SYMMETRY Interchangeable
CHECK_DEADLOCK FALSE
