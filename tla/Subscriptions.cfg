\* Two application callbacks and subscribe() on two topics: which removal empties what.
SPECIFICATION Spec
CONSTANTS
    Topics = {t1, t2}
    Callbacks = {cb1, cb2}
    ReplyTo = replyTo
    NoTopic = noTopic
    OnResponse = onResponse
    Unavailable = unavailable
    Explicit = explicit
SYMMETRY Symmetry
INVARIANTS
    MirrorInv
    SubscribedIsRegisteredInv
    ErrorPairInv
PROPERTIES
    ImplementsTopicInterest
CONSTRAINT FewRegistered
CHECK_DEADLOCK FALSE
