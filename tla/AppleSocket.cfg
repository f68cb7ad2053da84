SPECIFICATION FairSpec
CONSTANTS
    Clients = {t1, t2}
    MaxOpens = 1
    MaxMessages = 2
    MayOverlap = FALSE
PROPERTIES
    EveryEndIsReported
