\* callback-manager.js:91: registered callbacks get the message.
SPECIFICATION Spec
CONSTANTS
    Topics <- MCTopics
    Names <- MCNames
    Matching <- MCMatching
    Callbacks = {cb1, cb2}
    MaxActions = 2
SYMMETRY Symmetry
INVARIANTS
    KeptIsInvokedInv
CHECK_DEADLOCK FALSE
