SPECIFICATION FairSpec
CONSTANTS
    BufSize = 2
    Text <- MCText
    MaxLength = 5
INVARIANTS
    TypeOK
    WithinMemory
    BinaryExact
    AsciiSentWhole
    AsciiStoredWhole
PROPERTIES
    EveryTurnAdvances
    TransferEnds
\* A transfer ends.
CHECK_DEADLOCK FALSE
