SPECIFICATION Spec
CONSTANTS
    r1 = r1
    r2 = r2
    NSlots = 1
    Readers = {r1, r2}
    TasksOf <- OneEach
    Streams = {}
    Admins = {}
    AdminType <- NoAdmins
    IdSlot <- AnySlot
    SystemPrompt = {}
    MayClose = {r1}
    MayTerminate = FALSE
    Faults = {}
    MaxChunks = 1
    MaxTokens = 1
    MaxResults = 4
    cont_batching = TRUE
INVARIANT StopsOnlyOurs
CHECK_DEADLOCK FALSE
