\* Two calls, in turn or overlapping, that fail wherever they can.
SPECIFICATION FairCommandSpec
CONSTANTS
    Attempts = {a1, a2}
    Commands = {a1}
    Absent = absent
    Torn = torn
    MaxRedirects = 1
    Login = login
    Passphrases = {p1, p2}
    Nothing = nothing
    Prompt = prompt
INVARIANTS
    ToldOnceInv
    StoredInv
    OrderInv
    FitsInv
    CredentialsInv
    ConfirmedInv
PROPERTIES
    NoWriteAfterToldProp
    AnsweredProp
CHECK_DEADLOCK FALSE
