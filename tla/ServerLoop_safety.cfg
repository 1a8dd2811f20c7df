SPECIFICATION Spec
CONSTANTS
    r1 = r1
    r2 = r2
    NSlots = 1
    Readers = {r1, r2}
    TasksOf <- OneEach
    Streams = {r2}
    Admins = {}
    AdminType <- NoAdmins
    IdSlot <- AnySlot
    SystemPrompt = {}
    MayClose = {r1, r2}
    MayTerminate = FALSE
    Faults = {"launch", "empty", "ctx_exceeded", "kv_full", "held", "ctx_full"}
    MaxChunks = 2
    MaxTokens = 2
    MaxResults = 4
    cont_batching = TRUE
INVARIANTS OnePlace NothingAfterFinal SleepsOnlyWhenIdle
PROPERTY SlotNotStolen
CHECK_DEADLOCK FALSE
