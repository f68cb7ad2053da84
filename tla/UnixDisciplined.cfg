SPECIFICATION FairSpec
CONSTANTS
    MaxOpens = 3
    MaxChunks = 2
    ClientMay <- Disciplined
INVARIANTS
    TypeOK NoLeakAcrossOpen NoTerminate
    ErrorMeansZeroStatus BodyIsComplete
PROPERTIES
    SettledResponseIsStable ImplementsContract
    AbortSettles AbortUnblocksJoin
