SPECIFICATION Spec
CONSTANTS
    Clients = {t1}
    MaxOpens = 2
    MaxMessages = 1
    MayOverlap = TRUE
INVARIANTS
    NoEndGoesUnnoticed
PROPERTIES
    NothingArrivesAfterClose ImplementsContract
