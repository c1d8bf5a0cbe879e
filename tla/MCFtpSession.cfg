SPECIFICATION FairSpec
CONSTANTS
    alice = alice
    bob = bob
    carol = carol
    nobody = nobody
    pwA = pwA
    pwB = pwB
    NoName = NoName
    Garbage = Garbage
    ClientPort = 5000
    Names <- MCNames
    Accounts <- MCAccounts
    Incomplete <- MCIncomplete
    Passwords <- MCPasswords
    PasswordOf <- MCPasswordOf
    PortArguments <- MCPortArguments
INVARIANTS
    TypeOK
    LoginConsistent
    PasswordDirectlyFollowsUser
    GatedCommands
    OneFinalReply
    ReplyTellsConnection
    TransferReachedPeer
    ListingReaped
PROPERTIES
    LoginRefinement
    ListAnswered
\* A session ends.
CHECK_DEADLOCK FALSE
