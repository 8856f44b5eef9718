---------------------------- MODULE TopicInterest ----------------------------
(***************************************************************************)
(* What an application may rely on when it adds and removes callbacks and  *)
(* subscriptions on a DXL client: the client behaves as two plain sets.    *)
(* `registered' holds the callbacks a message may be delivered to,         *)
(* `wanted' the reasons for being subscribed to a topic, and a client with *)
(* an open MQTT client is subscribed to exactly the topics that are wanted *)
(* for some reason.  Module Subscriptions, which follows client.js branch  *)
(* by branch, implements this.                                             *)
(***************************************************************************)
CONSTANTS
    Topics,     \* the topics an application uses
    NoTopic,    \* '': a callback for the messages of every topic
    Kinds,      \* what callbacks are added for: requests, responses, events
    Callbacks,  \* the callbacks of the application
    Explicit,   \* stands for a call of subscribe(), as kind and as callback
    OwnInterest \* <<topic, kind, callback>> held by the client for itself

VARIABLES
    registered, \* <<topic, kind, callback>> that messages are delivered to
    wanted,     \* <<topic, kind, callback>> that keep a topic subscribed
    listening,  \* the topics the MQTT client is subscribed to
    open        \* "none", "open" or "ended": the current MQTT client

vars == <<registered, wanted, listening, open>>

TopicsOf(interests) == {interest[1] : interest \in interests}

(* Whatever is asked of the client, an open MQTT client follows. *)
Follow == listening' = IF open' = "open" THEN TopicsOf(wanted') ELSE {}

Init ==
    /\ registered = OwnInterest
    /\ wanted = {i \in OwnInterest : i[1] # NoTopic}
    /\ listening = {}
    /\ open = "none"

Add(topic, kind, cb, subscribe) ==
    /\ registered' = registered \cup {<<topic, kind, cb>>}
    /\ wanted' = IF subscribe /\ topic # NoTopic
                   THEN wanted \cup {<<topic, kind, cb>>} ELSE wanted
    /\ UNCHANGED open
    /\ Follow

Remove(topic, kind, cb) ==
    /\ registered' = registered \ {<<topic, kind, cb>>}
    /\ wanted' = wanted \ {<<topic, kind, cb>>}
    /\ UNCHANGED open
    /\ Follow

Subscribe(topic) ==
    /\ wanted' = wanted \cup {<<topic, Explicit, Explicit>>}
    /\ UNCHANGED <<registered, open>>
    /\ Follow

(* unsubscribe() overrides every callback that wanted the topic. *)
Unsubscribe(topic) ==
    /\ wanted' = {i \in wanted : i[1] # topic}
    /\ UNCHANGED <<registered, open>>
    /\ Follow

Connect ==
    /\ open' = "open"
    /\ UNCHANGED <<registered, wanted>>
    /\ Follow

Disconnect ==
    /\ open = "open"
    /\ open' = "ended"
    /\ UNCHANGED <<registered, wanted>>
    /\ Follow

Destroy ==
    /\ registered' = {}
    /\ wanted' = {}
    /\ open' = IF open = "none" THEN "none" ELSE "ended"
    /\ Follow

Next ==
    \/ \E topic \in Topics \cup {NoTopic}, kind \in Kinds, cb \in Callbacks :
         \/ \E subscribe \in BOOLEAN : Add(topic, kind, cb, subscribe)
         \/ Remove(topic, kind, cb)
    \/ \E topic \in Topics : Subscribe(topic) \/ Unsubscribe(topic)
    \/ Connect
    \/ Disconnect
    \/ Destroy

Spec == Init /\ [][Next]_vars
=============================================================================
