SPECIFICATION Spec
CONSTANTS
    BufSize = 2
    Text <- MCText
    MaxLength = 5
INVARIANT StoredIsWhatWasSent
\* A transfer ends.
CHECK_DEADLOCK FALSE
