SPECIFICATION Spec
CONSTANTS
    Piece <- Pieces
    Lead = "h"
    Cont = "t"
    Eog = "eog"
    Prompt <- PromptToks
    NCtxTrain = 6
    AutoRewinds = 2
    Confs <- SafeConfs
INVARIANTS ContextMatchesReply BufferClean StopNeverStreamed StreamFollowsText LimitHolds ReasoningBounded
PROPERTIES GenerationEnds
