SPECIFICATION Spec
CONSTANTS
    alice = alice
    bob = bob
    carol = carol
    nobody = nobody
    pwA = pwA
    pwB = pwB
    NoName = NoName
    Garbage = Garbage
    ClientPort = 5000
    Names <- MCNames
    Accounts <- MCAccounts
    Incomplete <- MCIncomplete
    Passwords <- MCPasswords
    PasswordOf <- MCPasswordOf
    PortArguments <- MCPortArguments
INVARIANT UserRestartsLogin
\* A session ends.
CHECK_DEADLOCK FALSE
