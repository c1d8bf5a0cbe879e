SPECIFICATION FairSpec
CONSTANTS
    c1 = c1
    c2 = c2
    c3 = c3
    Clients <- MCClients
    Server = Server
    Backlog = 2
    MaxRestarts = 2
INVARIANTS
    TypeOK
    OwnConnectionOnly
    EndedIsClosed
    OneGeneration
PROPERTY
    QueuedIsServed
\* Every client may have come and gone.
CHECK_DEADLOCK FALSE
