\* provision-config.js:231 on the first parameter of the doneCallback.
SPECIFICATION CommandSpec
CONSTANTS
    Attempts = {a1, a2}
    Commands = {a1}
    Absent = absent
    Torn = torn
    MaxRedirects = 1
    Login = login
    Passphrases = {p1, p2}
    Nothing = nothing
    Prompt = prompt
INVARIANTS
    SuccessIsStoredInv
CHECK_DEADLOCK FALSE
