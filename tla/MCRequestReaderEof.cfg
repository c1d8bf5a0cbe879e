SPECIFICATION FairSpec
CONSTANTS
    BufSize = 4
    Slack = 2
    MaxRequest = 5
    LineLengths <- MCLineLengths
    MaxSent = 3
    Windows <- Waiting
    MaxAnswers = 4
PROPERTY ReturnsAtEnd
\* The server may exit.
CHECK_DEADLOCK FALSE
