SPECIFICATION FairSpec
CONSTANTS
    c1 = c1
    c2 = c2
    k1 = k1
    k2 = k2
    Callers = {c1, c2}
    Workers = {k1}
    NTensors = 1
    NChunks = 2
    Ahead = 2
    MaxQueue = 1
    PassKinds = {"offload"}
    Replaces = TRUE
    MaxPasses = 1
INVARIANTS WaitCovers StoppedUnused PendingExact
PROPERTIES WaitReturns ReplaceCompletes
CHECK_DEADLOCK FALSE
