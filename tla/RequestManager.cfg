\* Requests sent, sent again, answered twice, lost and reordered.
SPECIFICATION FairSpec
CONSTANTS
    Calls = {c1, c2}
    Ids = {m1, m2}
    NoCallback = noCallback
    MaxAnswers = 2
INVARIANTS
    ThrewUnansweredInv
    OwnAnswerInv
PROPERTIES
    EventuallyAnsweredProp
    ImplementsSettlement
CHECK_DEADLOCK FALSE
