SPECIFICATION Spec
CONSTANTS
    Logins <- MCLogins
    Passwords <- MCPasswords
    MaxRows = 2
    MaxEdits = 1
INVARIANTS
    TypeOK
    LookupIsCorrect
    NeverAnothersPassword
PROPERTY AnswersNeverChange
