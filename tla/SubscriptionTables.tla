------------------------- MODULE SubscriptionTables -------------------------
(***************************************************************************)
(* What client.js does to the subscription tables of one DXL client: the   *)
(* callbacks of its CallbackManager, the table _subscriptionsByMessageType *)
(* and the topics its MQTT client is subscribed to.  The operators take    *)
(* the tables and return them, so that an operation which makes several    *)
(* calls applies them one after the other; module Subscriptions lets an    *)
(* application make them in any order, module Fabric the services of a     *)
(* client.                                                                 *)
(*                                                                         *)
(* A callback list is a set here: the code keeps it free of duplicates,    *)
(* and its order only matters to dispatch (module CallbackManager).        *)
(***************************************************************************)
EXTENDS PartialMap

CONSTANTS
    Topics,      \* the topics an application uses
    Callbacks,   \* the callbacks of the application
    ReplyTo,     \* the topic responses to this client are sent to
    NoTopic,     \* '': matches every message, is never subscribed to
    OnResponse,  \* the callback of the RequestManager
    Unavailable, \* the request callback of the ServiceManager
    Explicit     \* EXPLICIT_SUBSCRIPTION_MESSAGE_TYPE and its callback

ASSUME Distinct ==
    /\ NoTopic \notin Topics \cup {ReplyTo}
    /\ ReplyTo \notin Topics
    /\ Explicit \notin {"request", "response", "event", "error"}
    /\ Explicit \notin Callbacks \cup {OnResponse, Unavailable}
    /\ {OnResponse, Unavailable} \cap Callbacks = {}
    /\ OnResponse # Unavailable

MessageTypes == {"request", "response", "event", "error"}
AllTopics == Topics \cup {ReplyTo}
AllCallbacks == Callbacks \cup {OnResponse, Unavailable}

(* What a callback may be added for: one topic or all of them. *)
Filters == AllTopics \cup {NoTopic}

(* What the table is keyed by and holds: subscribe() has its own type. *)
EntryTypes == MessageTypes \cup {Explicit}
Subscribers == AllCallbacks \cup {Explicit}

-----------------------------------------------------------------------------
(* The tables *)

AddCallback(callbacks, type, topic, cb) ==
    [callbacks EXCEPT ![type][topic] = @ \cup {cb}]

RemoveCallback(callbacks, type, topic, cb) ==
    [callbacks EXCEPT ![type][topic] = @ \ {cb}]

(* MQTT client calls: none without one; an ended one accepts none. *)
MqttSubscribe(c, topic) ==
    IF c.mqtt = "open" THEN [c EXCEPT !.mqttTopics = @ \cup {topic}] ELSE c

MqttUnsubscribe(c, topics) ==
    IF c.mqtt = "open" THEN [c EXCEPT !.mqttTopics = @ \ topics] ELSE c

(* The entry for a topic after the callback joined its message type. *)
ListFor(byType, type) == IF type \in DOMAIN byType THEN byType[type] ELSE {}
WithEntry(byType, type, cb) ==
    Put(byType, type, ListFor(byType, type) \cup {cb})

AddToTable(c, topic, type, cb) ==
    IF topic \in DOMAIN c.subscriptions
      THEN [c EXCEPT !.subscriptions =
              Put(@, topic, WithEntry(@[topic], type, cb))]
      ELSE [MqttSubscribe(c, topic) EXCEPT !.subscriptions =
              Put(@, topic, WithEntry(EmptyMap, type, cb))]

(* A slip to tell apart: a single callback of a type is never taken out. *)
WithoutEntry_KeepLast(table, topic, type, cb) ==
    IF type \in DOMAIN table[topic] /\ cb \in table[topic][type]
         /\ table[topic][type] # {cb}
      THEN Put(table, topic, Put(table[topic], type, table[topic][type] \ {cb}))
      ELSE table

(* The table after a callback left an entry: its list, its message type    *)
(* or its whole topic goes, whichever would be left empty.                 *)
WithoutEntry(table, topic, type, cb) ==
    IF type \notin DOMAIN table[topic] \/ cb \notin table[topic][type]
      THEN table
    ELSE IF table[topic][type] # {cb}
      THEN Put(table, topic, Put(table[topic], type, table[topic][type] \ {cb}))
    ELSE IF DOMAIN table[topic] # {type}
      THEN Put(table, topic, Delete(table[topic], type))
    ELSE Delete(table, topic)

(* A slip to tell apart: the MQTT client is not told. *)
RemoveFromTable_Silent(c, topic, type, cb) ==
    [c EXCEPT !.subscriptions = IF cb = Explicit THEN Delete(@, topic)
                                  ELSE WithoutEntry(@, topic, type, cb)]

(* Explicit unsubscription overrides the callbacks that share the topic. *)
RemoveFromTable(c, topic, type, cb) ==
    LET table == IF cb = Explicit
                   THEN Delete(c.subscriptions, topic)
                   ELSE WithoutEntry(c.subscriptions, topic, type, cb)
        removed == [c EXCEPT !.subscriptions = table]
    IN  IF topic \in DOMAIN table THEN removed
                                  ELSE MqttUnsubscribe(removed, {topic})

AddSubscription(c, topic, type, cb, subscribeToTopic) ==
    LET added == IF cb = Explicit THEN c ELSE
                   [c EXCEPT !.callbacks = AddCallback(@, type, topic, cb)]
    IN  IF subscribeToTopic /\ topic # NoTopic
          THEN AddToTable(added, topic, type, cb) ELSE added

RemoveSubscription(c, topic, type, cb) ==
    LET removed == IF cb = Explicit THEN c ELSE
                     [c EXCEPT !.callbacks = RemoveCallback(@, type, topic, cb)]
    IN  IF topic # NoTopic /\ topic \in DOMAIN c.subscriptions
          THEN RemoveFromTable(removed, topic, type, cb) ELSE removed

-----------------------------------------------------------------------------
(* Operations that make several of these calls *)

(* The tables of one client:                                               *)
(*   callbacks:     message type |-> filter |-> callbacks                  *)
(*   subscriptions: topic |-> message type |-> callbacks, partial          *)
(*   mqtt:          "none" before connect(), "open", or "ended"            *)
(*   mqttTopics:    what the MQTT client is subscribed to                  *)
NewClient ==
    [callbacks |-> [m \in MessageTypes |-> [t \in Filters |-> {}]],
     subscriptions |-> EmptyMap,
     mqtt |-> "none",
     mqttTopics |-> {}]

AddResponseSubscription(c, topic, cb, subscribeToTopic) ==
    AddSubscription(
        AddSubscription(c, topic, "response", cb, subscribeToTopic),
        topic, "error", cb, subscribeToTopic)

(* A slip to tell apart: the callback stays registered for error responses. *)
RemoveResponseSubscription_KeepError(c, topic, cb) ==
    RemoveSubscription(c, topic, "response", cb)

RemoveResponseSubscription(c, topic, cb) ==
    RemoveSubscription(RemoveSubscription(c, topic, "response", cb),
                       topic, "error", cb)

(* The constructors of RequestManager and ServiceManager add callbacks. *)
FirstClient ==
    AddSubscription(
        AddResponseSubscription(NewClient, ReplyTo, OnResponse, TRUE),
        NoTopic, "request", Unavailable, TRUE)

(* A slip to tell apart: the subscriptions made before are not repeated. *)
OpenMqtt_Forget(c) == [c EXCEPT !.mqtt = "open"]

(* connect(): a new MQTT client, subscribed to every topic of the table. *)
OpenMqtt(c) == [c EXCEPT !.mqtt = "open", !.mqttTopics = DOMAIN c.subscriptions]

(* end(): the MQTT client and its subscriptions are gone. *)
EndMqtt(c) ==
    IF c.mqtt = "open" THEN [c EXCEPT !.mqtt = "ended", !.mqttTopics = {}] ELSE c

(* destroy(): everything is unsubscribed, the MQTT client ends. *)
Cleared(c) ==
    [EndMqtt(MqttUnsubscribe(c, DOMAIN c.subscriptions))
       EXCEPT !.subscriptions = NewClient.subscriptions,
              !.callbacks = NewClient.callbacks]

-----------------------------------------------------------------------------
(* What the tables are expected to satisfy at every moment *)

CallbackLists == [MessageTypes -> [Filters -> SUBSET AllCallbacks]]

Mirrored(c) ==
    c.mqttTopics = IF c.mqtt = "open" THEN DOMAIN c.subscriptions ELSE {}

NoEmptyEntry(c) ==
    \A t \in DOMAIN c.subscriptions :
        /\ DOMAIN c.subscriptions[t] # {}
        /\ \A m \in DOMAIN c.subscriptions[t] : c.subscriptions[t][m] # {}

SubscribedIsRegistered(c) ==
    \A t \in DOMAIN c.subscriptions : \A m \in DOMAIN c.subscriptions[t] :
        IF m = Explicit THEN c.subscriptions[t][m] = {Explicit}
                        ELSE c.subscriptions[t][m] \subseteq c.callbacks[m][t]

ErrorPair(c) ==
    /\ c.callbacks["response"] = c.callbacks["error"]
    /\ \A t \in DOMAIN c.subscriptions :
         LET byType == c.subscriptions[t]
         IN  /\ "response" \in DOMAIN byType <=> "error" \in DOMAIN byType
             /\ "response" \in DOMAIN byType => byType["response"] = byType["error"]
=============================================================================
