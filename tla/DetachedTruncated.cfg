SPECIFICATION Spec
CONSTANTS
    Platforms <- OnlyAndroid
    MaxOpens = 1
    ClientMay <- Disciplined
INVARIANTS
    FailureMeansZeroStatus
