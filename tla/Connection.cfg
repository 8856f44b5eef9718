\* Connected, disconnected, connected again, disconnected twice, destroyed.
SPECIFICATION FairSpec
CONSTANTS
    MqttClients = {m1, m2}
    Calls = {k1, k2}
    Brokers = {b1, b2}
    None = none
    SecondConnect = FALSE
    MaxDrops = 2
INVARIANTS
    ToldOnceInv
    NoLostCallbackInv
    CurrentBrokerInv
PROPERTIES
    EndToldProp
CHECK_DEADLOCK FALSE
