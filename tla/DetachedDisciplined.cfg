SPECIFICATION FairSpec
CONSTANTS
    Platforms <- AllPlatforms
    MaxOpens = 2
    ClientMay <- Disciplined
INVARIANTS
    TypeOK NoLeakAcrossOpen ErrorMeansZeroStatus OkHasItsBody
    HeadersAreNotResent
PROPERTIES
    SettledResponseIsStable ImplementsContract AbortSettles
