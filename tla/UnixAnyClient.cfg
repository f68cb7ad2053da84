SPECIFICATION Spec
CONSTANTS
    MaxOpens = 3
    MaxChunks = 1
    ClientMay <- Anything
INVARIANTS
    WorkerNeverOutlivesImpl
    ZeroStatusIsExplained DoomedSendFetchesNothing
