SPECIFICATION FairSpec
CONSTANTS
    Clients = {"t1", "t2"}
    MaxMessages = 2
INVARIANTS
    TypeOK NoEndGoesUnnoticed
PROPERTIES
    NoContinuationEntersTheDead ImplementsContract EveryEndIsReported
CHECK_DEADLOCK FALSE
