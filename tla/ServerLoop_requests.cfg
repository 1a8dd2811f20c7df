SPECIFICATION FairSpec
CONSTANTS
    r1 = r1
    r2 = r2
    NSlots = 2
    Readers = {r1, r2}
    TasksOf <- TwoAndOne
    Streams = {r2}
    Admins = {}
    AdminType <- NoAdmins
    IdSlot <- AnySlot
    SystemPrompt = {}
    MayClose = {}
    MayTerminate = FALSE
    Faults = {"launch", "embd_large", "kv_full", "sampling"}
    MaxChunks = 1
    MaxTokens = 2
    MaxResults = 4
    cont_batching = FALSE
INVARIANTS NoDuplicateResult NoLostRequest
PROPERTY ReadersAnswered
CHECK_DEADLOCK FALSE
