\* Files of every layout, updated again and again.
SPECIFICATION Spec
CONSTANTS
    ReadableFiles <- MCReadable
    Heads <- MCHeads
    EditLines <- MCEditLines
    BrokerLists <- MCBrokerLists
    MaxEdits = 3
INVARIANTS
    ReplacesInv
    IdempotentInv
    RoundTripInv
    ServersInv
CHECK_DEADLOCK FALSE
