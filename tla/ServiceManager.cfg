\* A service that is registered twice: renewals, reconnects, expiry.
SPECIFICATION FairSpec
CONSTANTS
    Infos = {i1}
    Regs = {r1, r2}
    Topics = {t1}
    MaxWire = 3
    MayThrow = FALSE
INVARIANTS
    TimerInv
    RoutedInv
    LastWordInv
    FirstOnceInv
PROPERTIES
    NoNewsAfterToldProp
    RenewedProp
    ForgottenProp
CHECK_DEADLOCK FALSE
