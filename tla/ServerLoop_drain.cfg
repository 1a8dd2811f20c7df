SPECIFICATION FairSpec
CONSTANTS
    r1 = r1
    r2 = r2
    NSlots = 1
    Readers = {r1, r2}
    TasksOf <- OneEach
    Streams = {}
    Admins = {}
    AdminType <- NoAdmins
    IdSlot <- AnySlot
    SystemPrompt = {}
    MayClose = {r1, r2}
    MayTerminate = TRUE
    Faults = {"launch", "ctx_exceeded"}
    MaxChunks = 2
    MaxTokens = 1
    MaxResults = 4
    cont_batching = TRUE
PROPERTIES  LoopEnds
CHECK_DEADLOCK FALSE
