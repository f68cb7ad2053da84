SPECIFICATION Spec
CONSTANTS
    Platforms <- AllPlatforms
    MaxOpens = 2
    ClientMay <- Anything
INVARIANTS
    AppleSendsNoStaleUrl AbortStopsTheLast
PROPERTIES
    AbortKeepsOut
