SPECIFICATION Spec
CONSTANTS
    Graphs <- Some
    After <- Alike
    Tallocr <- Types
    Align = 2
    MaxSize = 20
    MayFail = FALSE
INVARIANTS FreeListExact ValuesIntact InsideBuffer
