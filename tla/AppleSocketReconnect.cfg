SPECIFICATION Spec
CONSTANTS
    Clients = {t1}
    MaxOpens = 2
    MaxMessages = 1
    MayOverlap = FALSE
INVARIANTS
    OneEndIsReportedOnce
