SPECIFICATION Spec
CONSTANTS
    MaxOpens = 2
    MaxChunks = 1
    ClientMay <- Disciplined
INVARIANTS
    OnlyFilesDefaultToOk
