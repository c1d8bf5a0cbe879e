SPECIFICATION Spec
CONSTANTS
    BufSize = 4
    Slack = 2
    MaxRequest = 5
    LineLengths <- MCLineLengths
    MaxSent = 3
    Windows <- MCWindows
    MaxAnswers = 4
INVARIANTS
    TypeOK
    BufferSafe
    AnswersFollowLines
    LockStepAnswers
    NothingLost
\* The server may exit.
CHECK_DEADLOCK FALSE
