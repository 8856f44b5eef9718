----------------------------- MODULE Connection -----------------------------
(***************************************************************************)
(* Connecting, disconnecting and destroying a client (lib/client.js).      *)
(* connect() makes a new MQTT client every time and puts it in             *)
(* _mqttClient; the one that was there before is not ended, and its event  *)
(* handlers stay.  disconnect() and destroy() end the current one and hand *)
(* their callback to it, or invoke the callback themselves.                *)
(***************************************************************************)
EXTENDS Naturals

CONSTANTS
    MqttClients,  \* the MQTT clients connect() may make
    Calls,        \* calls of disconnect() and destroy()
    Brokers,      \* config.brokers
    None,         \* null: no MQTT client, no broker
    SecondConnect, \* whether connect() is called while a client is open
    MaxDrops      \* bound: connections that break

ASSUME ClientsAssumption == None \notin MqttClients /\ None \notin Brokers
ASSUME BoundsAssumption == MaxDrops \in Nat /\ SecondConnect \in BOOLEAN

VARIABLES
    current,    \* _mqttClient
    state,      \* MQTT client |-> "new", "connecting", "connected", "ended"
    ending,     \* MQTT clients whose end() was called ("disconnecting")
    forced,     \* of those, the ones that do not wait for acks
    unacked,    \* MQTT clients with unacknowledged (un)subscribe requests
    server,     \* MQTT client |-> the broker it is connected to
    lastBroker, \* _lastConnectedBroker
    firstConn,  \* MQTT clients whose connect callback is still to be invoked
    endWaits,   \* MQTT client |-> calls whose callback was given to end()
    held,       \* _subscriptionsByMessageType and callbacks are not cleared
    drops,      \* history: number of connections that broke
    broken,     \* history: MQTT clients whose connection broke while ending
    connects,   \* history: MQTT client |-> invocations of its callback
    calls,      \* history: call |-> its operation and its callback argument
    told,       \* history: call |-> invocations of its callback
    toldHeld,   \* history: destroy calls told while resources were held
    toldOpen,   \* history: calls told while the client had not ended
    threw       \* history: calls that threw a TypeError

vars == <<current, state, ending, forced, unacked, server, lastBroker,
          firstConn, endWaits, held, drops, broken, connects, calls, told,
          toldHeld, toldOpen, threw>>
outcome == <<calls, told, toldHeld, toldOpen, threw>>
stopping == <<ending, forced, endWaits>>
breaks == <<drops, broken>>

Init ==
    /\ current = None
    /\ state = [m \in MqttClients |-> "new"]
    /\ ending = {} /\ forced = {} /\ unacked = {}
    /\ server = [m \in MqttClients |-> None]
    /\ lastBroker = None
    /\ firstConn = {}
    /\ endWaits = [m \in MqttClients |-> {}]
    /\ held = TRUE
    /\ drops = 0 /\ broken = {}
    /\ connects = [m \in MqttClients |-> 0]
    /\ calls = [k \in Calls |-> [op |-> "none", callback |-> "none"]]
    /\ told = [k \in Calls |-> 0]
    /\ toldHeld = {} /\ toldOpen = {} /\ threw = {}

Destroyed == \E k \in Calls : calls[k].op = "destroy" /\ k \notin threw
Open(m) == state[m] \in {"connecting", "connected"}
Connected == current # None /\ state[current] = "connected"

(* The topics of the client are subscribed as the MQTT client is made: the *)
(* reply-to topic is always among them.                                     *)
Connect(m, callback) ==
    /\ ~Destroyed
    /\ state[m] = "new"
    /\ SecondConnect \/ \A n \in MqttClients : Open(n) => n \in ending
    /\ state' = [state EXCEPT ![m] = "connecting"]
    /\ unacked' = unacked \cup {m}
    /\ firstConn' = IF callback THEN firstConn \cup {m} ELSE firstConn
    /\ current' = m
    /\ UNCHANGED <<stopping, server, lastBroker, held, breaks, connects,
                   outcome>>

(* A slip to tell apart: the broker of the first connection is kept. *)
OnConnect_KeepsBroker(m, b) ==
    /\ state[m] = "connecting" /\ m \notin ending
    /\ state' = [state EXCEPT ![m] = "connected"]
    /\ server' = [server EXCEPT ![m] = b]
    /\ lastBroker' = IF lastBroker = None THEN b ELSE lastBroker
    /\ connects' = IF m \in firstConn
                     THEN [connects EXCEPT ![m] = @ + 1] ELSE connects
    /\ firstConn' = firstConn \ {m}
    /\ UNCHANGED <<current, stopping, unacked, held, breaks, outcome>>

(* The 'connect' event, of the current MQTT client or an older one. *)
OnConnect(m, b) ==
    /\ state[m] = "connecting" /\ m \notin ending
    /\ state' = [state EXCEPT ![m] = "connected"]
    /\ server' = [server EXCEPT ![m] = b]
    /\ lastBroker' = b
    /\ connects' = IF m \in firstConn
                     THEN [connects EXCEPT ![m] = @ + 1] ELSE connects
    /\ firstConn' = firstConn \ {m}
    /\ UNCHANGED <<current, stopping, unacked, held, breaks, outcome>>

(* A slip to tell apart: the callback is invoked as well as handed over. *)
End_Both(k, callback) ==
    IF current # None /\ current \notin ending
      THEN /\ ending' = ending \cup {current}
           /\ forced' = IF Connected THEN forced ELSE forced \cup {current}
           /\ endWaits' = IF callback = "function"
                            THEN [endWaits EXCEPT ![current] = @ \cup {k}]
                            ELSE endWaits
           /\ told' = [told EXCEPT ![k] = @ + 1]
           /\ UNCHANGED <<toldOpen, threw>>
      ELSE /\ told' = IF callback = "function"
                        THEN [told EXCEPT ![k] = @ + 1] ELSE told
           /\ UNCHANGED <<stopping, toldOpen, threw>>

(* A slip to tell apart: an MQTT client that is ending gets the callback too. *)
End_HandsOver(k, callback) ==
    IF current # None /\ current \notin ending
      THEN /\ ending' = ending \cup {current}
           /\ forced' = IF Connected THEN forced ELSE forced \cup {current}
           /\ endWaits' = IF callback = "function"
                            THEN [endWaits EXCEPT ![current] = @ \cup {k}]
                            ELSE endWaits
           /\ UNCHANGED <<told, toldOpen, threw>>
      ELSE /\ told' = told
           /\ UNCHANGED <<stopping, toldOpen, threw>>

(* A slip to tell apart: a client that is not connected waits for acks as well. *)
End_Waits(k, callback) ==
    IF current # None /\ current \notin ending
      THEN /\ ending' = ending \cup {current}
           /\ forced' = forced
           /\ endWaits' = IF callback = "function"
                            THEN [endWaits EXCEPT ![current] = @ \cup {k}]
                            ELSE endWaits
           /\ UNCHANGED <<told, toldOpen, threw>>
      ELSE /\ told' = IF callback = "function"
                        THEN [told EXCEPT ![k] = @ + 1] ELSE told
           /\ UNCHANGED <<stopping, toldOpen, threw>>

(* disconnect(callback) on what the client holds.  end() keeps the callback *)
(* unless the MQTT client is ending already; then, and without an MQTT      *)
(* client, the callback is invoked here, before disconnect() returns, if it *)
(* is not undefined: null is invoked too, which throws.                     *)
End(k, callback) ==
    IF current # None /\ current \notin ending
      THEN /\ ending' = ending \cup {current}
           /\ forced' = IF Connected THEN forced ELSE forced \cup {current}
           /\ endWaits' = IF callback = "function"
                            THEN [endWaits EXCEPT ![current] = @ \cup {k}]
                            ELSE endWaits
           /\ UNCHANGED <<told, toldOpen, threw>>
      ELSE /\ told' = IF callback = "function"
                        THEN [told EXCEPT ![k] = @ + 1] ELSE told
           /\ toldOpen' = IF callback = "function" /\ current # None
                              /\ Open(current)
                            THEN toldOpen \cup {k} ELSE toldOpen
           /\ threw' = IF callback = "null" THEN threw \cup {k} ELSE threw
           /\ UNCHANGED stopping

(* end() again changes only whether the MQTT client waits for acks: not at *)
(* all, it returns at once.                                                 *)
Disconnect(k, callback) ==
    /\ ~Destroyed
    /\ calls[k].op = "none"
    /\ calls' = [calls EXCEPT ![k] = [op |-> "disconnect",
                                      callback |-> callback]]
    /\ End(k, callback)
    /\ UNCHANGED <<current, state, unacked, server, lastBroker, firstConn,
                   held, breaks, connects, toldHeld>>

(* The topics are unsubscribed, the client is disconnected, and then the    *)
(* tables are cleared, if disconnect() has not thrown.                      *)
Destroy(k, callback) ==
    /\ ~Destroyed
    /\ calls[k].op = "none"
    /\ calls' = [calls EXCEPT ![k] = [op |-> "destroy", callback |-> callback]]
    /\ unacked' = IF current # None /\ current \notin ending
                    THEN unacked \cup {current} ELSE unacked
    /\ End(k, callback)
    /\ toldHeld' = IF told'[k] > told[k] THEN toldHeld \cup {k} ELSE toldHeld
    /\ held' = (k \in threw')
    /\ UNCHANGED <<current, state, server, lastBroker, firstConn, breaks,
                   connects>>

-----------------------------------------------------------------------------
(* The MQTT library (mqtt.js) *)

(* The requests under way are acknowledged. *)
Acknowledged(m) ==
    /\ state[m] = "connected"
    /\ m \in unacked
    /\ unacked' = unacked \ {m}
    /\ UNCHANGED <<current, state, stopping, server, lastBroker, firstConn,
                   held, breaks, connects, outcome>>

(* An MQTT client reconnects by itself unless end() was called. *)
Drop(m) ==
    /\ state[m] = "connected"
    /\ drops < MaxDrops
    /\ drops' = drops + 1
    /\ broken' = IF m \in ending THEN broken \cup {m} ELSE broken
    /\ state' = [state EXCEPT ![m] = "connecting"]
    /\ UNCHANGED <<current, stopping, unacked, server, lastBroker, firstConn,
                   held, connects, outcome>>

(* end() is done: at once when forced, else when nothing is unacknowledged. *)
Ended(m) ==
    /\ m \in ending /\ Open(m)
    /\ m \in forced \/ m \notin unacked
    /\ state' = [state EXCEPT ![m] = "ended"]
    /\ told' = [k \in Calls |-> IF k \in endWaits[m] THEN told[k] + 1
                                                    ELSE told[k]]
    /\ toldHeld' = IF held THEN toldHeld \cup
                        {k \in endWaits[m] : calls[k].op = "destroy"}
                           ELSE toldHeld
    /\ endWaits' = [endWaits EXCEPT ![m] = {}]
    /\ UNCHANGED <<current, ending, forced, unacked, server, lastBroker,
                   firstConn, held, breaks, connects, calls, toldOpen, threw>>

Callback == {"function", "null", "undefined"}

Next ==
    \/ \E m \in MqttClients :
         \/ \E callback \in BOOLEAN : Connect(m, callback)
         \/ \E b \in Brokers : OnConnect(m, b)
         \/ Acknowledged(m) \/ Drop(m) \/ Ended(m)
    \/ \E k \in Calls, callback \in Callback :
         Disconnect(k, callback) \/ Destroy(k, callback)

Spec == Init /\ [][Next]_vars

(* The MQTT library goes on by itself: it connects while it is not ending,  *)
(* acknowledgements arrive while the connection lasts, end() completes.     *)
Fairness ==
    \A m \in MqttClients :
        /\ WF_vars(\E b \in Brokers : OnConnect(m, b))
        /\ WF_vars(Acknowledged(m))
        /\ WF_vars(Ended(m))

FairSpec == Spec /\ Fairness

-----------------------------------------------------------------------------
(* Properties *)

(* The values the client, the MQTT clients and the histories range over. *)
TypeOK ==
    /\ current \in MqttClients \cup {None}
    /\ state \in [MqttClients -> {"new", "connecting", "connected", "ended"}]
    /\ ending \subseteq MqttClients /\ forced \subseteq ending
    /\ unacked \subseteq MqttClients
    /\ server \in [MqttClients -> Brokers \cup {None}]
    /\ lastBroker \in Brokers \cup {None}
    /\ firstConn \subseteq MqttClients
    /\ endWaits \in [MqttClients -> SUBSET Calls]
    /\ held \in BOOLEAN
    /\ drops \in 0..MaxDrops /\ broken \subseteq ending
    /\ connects \in [MqttClients -> Nat]
    /\ calls \in [Calls -> [op : {"none", "disconnect", "destroy"},
                            callback : Callback \cup {"none"}]]
    /\ told \in [Calls -> Nat]
    /\ toldHeld \subseteq Calls /\ toldOpen \subseteq Calls
    /\ threw \subseteq Calls

(* The callback of a connect() runs for the first connection only, however  *)
(* often the MQTT client reconnects and whoever else connects.              *)
ConnectOnceInv == \A m \in MqttClients : connects[m] <= 1

(* The callback of disconnect() or destroy() is invoked once, by the client *)
(* or by the MQTT client it ended, never by both.                           *)
ToldOnceInv == \A k \in Calls : told[k] <= 1

(* No callback is lost between the two: it was invoked, or an MQTT client   *)
(* that is about to end holds it.                                           *)
NoLostCallbackInv ==
    \A k \in Calls :
        calls[k].callback = "function" =>
            \/ told[k] > 0
            \/ \E m \in ending : k \in endWaits[m] /\ Open(m)

(* currentBroker is the broker the current MQTT client is connected to,     *)
(* across reconnects to other brokers and across MQTT clients.              *)
CurrentBrokerInv == Connected => lastBroker = server[current]

(* A callback given to disconnect() or destroy() is invoked, unless the     *)
(* connection breaks while end() waits for acknowledgements: a client that  *)
(* is still connecting does not wait for them.                              *)
EndToldProp ==
    \A k \in Calls :
        calls[k].callback = "function"
          ~> told[k] = 1 \/ \E m \in broken : k \in endWaits[m]

(* client.js documents the callbacks as optional with the default null.     *)
NullCallbackInv == threw = {}

(* The callback of destroy() is invoked after the resources of the client   *)
(* have been destroyed.                                                     *)
DestroyedWhenToldInv == toldHeld = {}

(* The callback of disconnect() is invoked when the disconnection attempt   *)
(* is complete.                                                             *)
DisconnectedWhenToldInv == toldOpen = {}

(* The callback of disconnect() is invoked in the end.                      *)
AlwaysToldProp ==
    \A k \in Calls : calls[k].callback = "function" ~> told[k] = 1

(* destroy() releases all associated resources: once it is done, no MQTT    *)
(* client of this client is connected or connecting.                        *)
ReleasedInv ==
    (\E k \in Calls : calls[k].op = "destroy" /\ told[k] > 0)
      => \A m \in MqttClients : ~Open(m)
=============================================================================
