SPECIFICATION Spec
CONSTANTS
    ta = ta
    tb = tb
    Toks = {ta, tb}
    Sampled = {ta}
    Size = 8
    NCtx = 4
    NKeep = 0
    NBatch = 2
    MaxMoves = 2
    MaxStates = 1
    Confs <- SafeConfs
INVARIANTS UsedExact RowsFollowCells   
