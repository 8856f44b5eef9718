\* Callbacks that add and remove callbacks while a message is delivered.
SPECIFICATION Spec
CONSTANTS
    Topics <- MCTopics
    Names <- MCNames
    Matching <- MCMatching
    Callbacks = {cb1, cb2, cb3}
    MaxActions = 3
SYMMETRY Symmetry
INVARIANTS
    TypeOK
    CompleteInv
CHECK_DEADLOCK FALSE
