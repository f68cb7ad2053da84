SPECIFICATION FairSpec
CONSTANTS
    t1 = t1
    t2 = t2
    NoThread = NoThread
    Threads = {t1, t2}
    Requests <- MCRequests
    Owner <- MCOwner
    Names = {"blob"}
    Results <- MCResults
    MaxOpens = 3
    MaxRegistrations = 2
INVARIANTS
    TypeOK FoundIsStillThere MutexIsHeldInside ResolvingRequestIsUntouched
    AnswersStayWithTheirOpen
PROPERTIES
    UnregisterTakesEffect MutexIsReleased ImplementsContract
