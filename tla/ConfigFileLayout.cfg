\* update-config.js:248 on the section the brokers are saved to.
SPECIFICATION Spec
CONSTANTS
    ReadableFiles <- MCReadable
    Heads <- MCHeads
    EditLines <- MCEditLines
    BrokerLists <- MCBrokerLists
    MaxEdits = 2
CHECK_DEADLOCK FALSE
INVARIANTS
    AnyLayoutInv
