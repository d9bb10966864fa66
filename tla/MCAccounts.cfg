SPECIFICATION Spec
CONSTANTS
    r1 = r1
    r2 = r2
    r3 = r3
    ann = ann
    bob = bob
    secretWord = secretWord
    Requests <- MCRequests
    Names <- MCNames
    Passwords <- MCPasswords
    NoPassword = NoPassword
    MaxTrials = 1
    MaxDBErrors = 1
SYMMETRY Symmetry
INVARIANTS
    LoginsAreTrue
    AnswersMatchTable
    PostsAccounted
