---------------------------- MODULE Subscriptions ----------------------------
(***************************************************************************)
(* The subscription tables of a DXL client (lib/client.js) under every     *)
(* order of adding and removing callbacks, explicit subscriptions,         *)
(* connecting, disconnecting and destroying.                               *)
(***************************************************************************)
EXTENDS SubscriptionTables

VARIABLES
    client,   \* the tables, see SubscriptionTables
    destroyed \* destroy() was called: no other calls should be made

vars == <<client, destroyed>>

Init ==
    /\ client = FirstClient
    /\ destroyed = FALSE

Usable == ~destroyed /\ destroyed' = FALSE

AddEventCallback(topic, cb, subscribeToTopic) ==
    /\ Usable
    /\ client' = AddSubscription(client, topic, "event", cb, subscribeToTopic)

RemoveEventCallback(topic, cb) ==
    /\ Usable
    /\ client' = RemoveSubscription(client, topic, "event", cb)

AddRequestCallback(topic, cb, subscribeToTopic) ==
    /\ Usable
    /\ client' = AddSubscription(client, topic, "request", cb, subscribeToTopic)

RemoveRequestCallback(topic, cb) ==
    /\ Usable
    /\ client' = RemoveSubscription(client, topic, "request", cb)

AddResponseCallback(topic, cb, subscribeToTopic) ==
    /\ Usable
    /\ client' = AddResponseSubscription(client, topic, cb, subscribeToTopic)

RemoveResponseCallback(topic, cb) ==
    /\ Usable
    /\ client' = RemoveResponseSubscription(client, topic, cb)

Subscribe(topic) ==
    /\ Usable
    /\ client' = AddSubscription(client, topic, Explicit, Explicit, TRUE)

Unsubscribe(topic) ==
    /\ Usable
    /\ client' = RemoveSubscription(client, topic, Explicit, Explicit)

Connect ==
    /\ Usable
    /\ client' = OpenMqtt(client)

Disconnect ==
    /\ Usable
    /\ client' = EndMqtt(client)

Destroy ==
    /\ ~destroyed
    /\ destroyed' = TRUE
    /\ client' = Cleared(client)

Next ==
    \/ \E topic \in Topics \cup {NoTopic}, cb \in Callbacks :
         \/ \E subscribeToTopic \in BOOLEAN :
              \/ AddEventCallback(topic, cb, subscribeToTopic)
              \/ AddRequestCallback(topic, cb, subscribeToTopic)
              \/ AddResponseCallback(topic, cb, subscribeToTopic)
         \/ RemoveEventCallback(topic, cb)
         \/ RemoveRequestCallback(topic, cb)
         \/ RemoveResponseCallback(topic, cb)
    \/ \E topic \in Topics : Subscribe(topic) \/ Unsubscribe(topic)
    \/ Connect
    \/ Disconnect
    \/ Destroy

Spec == Init /\ [][Next]_vars

-----------------------------------------------------------------------------
(* Properties *)

(* The tables have the shape client.js documents for them. *)
TypeOK ==
    /\ client.callbacks \in CallbackLists
    /\ DOMAIN client.subscriptions \subseteq AllTopics
    /\ \A t \in DOMAIN client.subscriptions :
         \E types \in SUBSET EntryTypes :
           client.subscriptions[t] \in [types -> SUBSET Subscribers]
    /\ client.mqtt \in {"none", "open", "ended"}
    /\ client.mqttTopics \subseteq AllTopics
    /\ destroyed \in BOOLEAN

(* connect() and the calls made on the MQTT client afterwards keep it      *)
(* subscribed to exactly the topics of _subscriptionsByMessageType, which  *)
(* is what the client reports as its subscriptions; without an open MQTT   *)
(* client nothing is subscribed.                                           *)
MirrorInv == Mirrored(client)

(* No list, message type or topic of the table is ever left empty:         *)
(* removeSubscription decides by counting entries what it may delete, so   *)
(* an empty leftover would keep a topic subscribed for ever.               *)
NoEmptyEntryInv == NoEmptyEntry(client)

(* A callback that keeps a topic subscribed can be reached by a message on *)
(* it, and so can be removed again: the two tables, changed one after the  *)
(* other by every operation, never disagree.                               *)
SubscribedIsRegisteredInv == SubscribedIsRegistered(client)

(* A response callback is called for error responses if and only if it is  *)
(* called for successful ones, and subscribes its topic for both.          *)
ErrorPairInv == ErrorPair(client)

(* destroy() leaves nothing subscribed and no callback that could fire. *)
DestroyedInv ==
    destroyed => /\ client.mqttTopics = {} /\ client.mqtt # "open"
                 /\ \A m \in MessageTypes, t \in Filters :
                      client.callbacks[m][t] = {}

(* A step that takes a topic off the MQTT client while the client lives on *)
(* leaves no callback or subscribe() call that still needs it: only        *)
(* unsubscribe() may override a callback.                                  *)
LastOneOutProp ==
    [][\A t \in client.mqttTopics \ client'.mqttTopics :
         \/ client'.mqtt = "ended"
         \/ Unsubscribe(t)
         \/ \E m \in MessageTypes, cb \in Callbacks :
              \A n \in DOMAIN client.subscriptions[t] :
                 /\ client.subscriptions[t][n] = {cb}
                 /\ n = m \/ {m, n} = {"response", "error"}]_vars

-----------------------------------------------------------------------------
(* The abstract view: errors go with responses, the tables become sets.    *)

CallbackKinds == {"request", "response", "event"}

Registered ==
    {i \in Filters \X CallbackKinds \X AllCallbacks :
       i[3] \in client.callbacks[i[2]][i[1]]}

Wanted ==
    UNION {UNION {{<<t, k, cb>> : cb \in client.subscriptions[t][k]} :
                    k \in DOMAIN client.subscriptions[t] \ {"error"}} :
             t \in DOMAIN client.subscriptions}

Interest == INSTANCE TopicInterest WITH
    Kinds <- CallbackKinds,
    OwnInterest <- {<<ReplyTo, "response", OnResponse>>,
                    <<NoTopic, "request", Unavailable>>},
    registered <- Registered,
    wanted <- Wanted,
    listening <- client.mqttTopics,
    open <- client.mqtt

(* Every operation of the client does to the two sets what an application  *)
(* expects of it, and the MQTT client follows.                             *)
ImplementsTopicInterest == Interest!Spec
=============================================================================
