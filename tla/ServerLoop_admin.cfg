SPECIFICATION FairSpec
CONSTANTS
    r1 = r1
    r2 = r2
    NSlots = 1
    Readers = {r1, r2}
    TasksOf <- OneEach
    Streams = {}
    Admins = {5, 6}
    AdminType <- MetricsAndSlotOp
    IdSlot <- SlotOne
    SystemPrompt = {1}
    MayClose = {}
    MayTerminate = FALSE
    Faults = {"image", "sysprompt", "restore"}
    MaxChunks = 1
    MaxTokens = 1
    MaxResults = 1
    cont_batching = TRUE
PROPERTY MetricsAnswered
CHECK_DEADLOCK FALSE
