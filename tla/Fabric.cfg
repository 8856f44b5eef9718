\* Two services on two topics, a callback of the application, one request.
SPECIFICATION FairSpec
CONSTANTS
    Infos = {i1, i2}
    Topics = {t1, t2}
    Callbacks = {i1, i2, monitor}
    ReplyTo = replyTo
    NoTopic = noTopic
    OnResponse = onResponse
    Unavailable = unavailable
    Explicit = explicit
    Monitor = monitor
    NoId = noId
    Calls = {c1}
    MaxWire = 3
INVARIANTS
    HeardInv
    AnsweredOnceInv
PROPERTIES
    HeardInTheEndProp
CHECK_DEADLOCK FALSE
