SPECIFICATION Spec
CONSTANTS
    Sessions = {s1, s2}
    Arguments <- MCArguments
    MaxDepth = 2
    MaxUploads = 2
    MaxBlocks = 2
INVARIANTS
    TypeOK
    StoredAsSent
    ReadAsStored
    PositionsKept
PROPERTIES
    TreeRefinement
    StrandedIsRefused
SYMMETRY Permuted
\* Every session may be gone.
CHECK_DEADLOCK FALSE
