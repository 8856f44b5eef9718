------------------------------- MODULE Fabric -------------------------------
(***************************************************************************)
(* Services on the fabric: the service manager (lib/service-manager.js)    *)
(* and the tables of its client (module Subscriptions), together with the  *)
(* broker that routes requests to services.  Registry requests and     *)
(* (un)subscriptions reach the broker in the order they were sent, or are  *)
(* lost with the connection.  The timers and the callbacks of              *)
(* registrations are in module ServiceManager: a renewal may happen here   *)
(* whenever a service is active.                                           *)
(***************************************************************************)
EXTENDS Subscriptions, Integers, SequencesExt

CONSTANTS
    Infos,       \* services; each also names the callback registered for it
    Monitor,     \* a request callback the application adds for a topic itself
    NoId,        \* no serviceId in a request
    Calls,       \* bound: names for the requests under way to the client
    MaxWire      \* bound: packets under way to the broker

ASSUME CallbacksAssumption ==
    Infos \cup {Monitor} \subseteq Callbacks /\ Monitor \notin Infos
ASSUME NoIdAssumption == NoId \notin Infos
ASSUME FiniteAssumption == IsFiniteSet(Infos) /\ IsFiniteSet(Topics)

VARIABLES
    topics,    \* service |-> its topics, added before it is registered
    services,  \* the services in _services
    link,      \* "down" or "up": the connection of the MQTT client
    wire,      \* packets on their way to the broker
    registry,  \* broker: the services it routes requests to
    listening, \* broker: the topics this client is subscribed to
    routed     \* requests on their way to the client

fabricVars == <<vars, topics, services, link, wire, registry, listening,
                routed>>
broker == <<registry, listening>>

Register(i) == [op |-> "register", info |-> i]
Unregister(i) == [op |-> "unregister", info |-> i]
SubscribeTo(ts) == [op |-> "subscribe", topics |-> ts]
UnsubscribeFrom(ts) == [op |-> "unsubscribe", topics |-> ts]

(* An MQTT client that is ending accepts a packet and does not send it. *)
Send(packets) ==
    /\ Len(wire) + Len(packets) <= MaxWire
    /\ wire' = IF link = "up" /\ client.mqtt = "open" THEN wire \o packets
                                                      ELSE wire

FabricInit ==
    /\ Init
    /\ topics \in [Infos -> (SUBSET Topics) \ {{}}]
    /\ services = {}
    /\ link = "down"
    /\ wire = <<>>
    /\ registry = {} /\ listening = {}
    /\ routed = {}

-----------------------------------------------------------------------------
(* The client *)

(* A call of addRequestCallback() or removeRequestCallback(): the tables    *)
(* after it, and what the MQTT client has sent by then.  It sends nothing   *)
(* if the call makes no difference to it.                                   *)
Call(op, done, topic, cb) ==
    LET before == done.client
        after == IF op = "subscribe"
                   THEN AddSubscription(before, topic, "request", cb, TRUE)
                   ELSE RemoveSubscription(before, topic, "request", cb)
    IN  [client |-> after,
         sent |-> IF after.mqttTopics = before.mqttTopics THEN done.sent
                  ELSE Append(done.sent, [op |-> op, topics |-> {topic}])]

(* One call after the other for the same callback, in the order given.      *)
AfterCalls(op, cb, order) ==
    LET calls[k \in 0 .. Len(order)] ==
          IF k = 0 THEN [client |-> client, sent |-> <<>>]
                   ELSE Call(op, calls[k - 1], order[k], cb)
    IN  calls[Len(order)]

(* REGISTER goes first: the topics are subscribed after it. *)
RegisterServiceAsync(i) ==
    /\ ~destroyed
    /\ i \notin services
    /\ services' = services \cup {i}
    /\ \E order \in SetToSeqs(topics[i]) :
         LET done == AfterCalls("subscribe", i, order)
         IN  /\ client' = done.client
             /\ Send(<<Register(i)>> \o done.sent)
    /\ UNCHANGED <<topics, destroyed, link, broker, routed>>

(* A slip to tell apart: the topics are unsubscribed before UNREGISTER. *)
UnregisterServiceAsync_TopicsFirst(i) ==
    /\ ~destroyed
    /\ i \in services
    /\ services' = services \ {i}
    /\ \E order \in SetToSeqs(topics[i]) :
         LET done == AfterCalls("unsubscribe", i, order)
         IN  /\ client' = done.client
             /\ Send(done.sent \o <<Unregister(i)>>)
    /\ UNCHANGED <<topics, destroyed, link, broker, routed>>

(* A slip to tell apart: topics are unsubscribed that others need. *)
UnregisterServiceAsync_AllTopics(i) ==
    /\ ~destroyed
    /\ i \in services
    /\ services' = services \ {i}
    /\ \E order \in SetToSeqs(topics[i]) :
         LET done == AfterCalls("unsubscribe", i, order)
         IN  /\ client' = done.client
             /\ Send(<<Unregister(i), UnsubscribeFrom(topics[i])>>)
    /\ UNCHANGED <<topics, destroyed, link, broker, routed>>

(* UNREGISTER goes first: the topics are unsubscribed after it. *)
UnregisterServiceAsync(i) ==
    /\ ~destroyed
    /\ i \in services
    /\ services' = services \ {i}
    /\ \E order \in SetToSeqs(topics[i]) :
         LET done == AfterCalls("unsubscribe", i, order)
         IN  /\ client' = done.client
             /\ Send(<<Unregister(i)>> \o done.sent)
    /\ UNCHANGED <<topics, destroyed, link, broker, routed>>

(* The TTL timeout of a service on a connected client. *)
Renew(i) ==
    /\ i \in services
    /\ link = "up"
    /\ Send(<<Register(i)>>)
    /\ UNCHANGED <<topics, services, client, destroyed, link, broker, routed>>

AddMonitor(t) ==
    /\ ~destroyed
    /\ LET done == AfterCalls("subscribe", Monitor, <<t>>)
       IN  client' = done.client /\ Send(done.sent)
    /\ UNCHANGED <<topics, services, destroyed, link, broker, routed>>

RemoveMonitor(t) ==
    /\ ~destroyed
    /\ LET done == AfterCalls("unsubscribe", Monitor, <<t>>)
       IN  client' = done.client /\ Send(done.sent)
    /\ UNCHANGED <<topics, services, destroyed, link, broker, routed>>

(* connect() makes an MQTT client; the topics it is given wait in it. *)
ConnectClient ==
    /\ link = "down"
    /\ client.mqtt # "open"
    /\ Connect
    /\ UNCHANGED <<topics, services, link, wire, broker, routed>>

(* The 'connect' event.  The MQTT library subscribes its topics again, then *)
(* the service manager registers every service.                             *)
OnConnected ==
    /\ link = "down"
    /\ client.mqtt = "open"
    /\ link' = "up"
    /\ \E order \in SetToSeqs(services) :
         wire' = <<SubscribeTo(client.mqttTopics)>> \o
                 [k \in DOMAIN order |-> Register(order[k])]
    /\ UNCHANGED <<topics, services, client, destroyed, broker, routed>>

DisconnectClient ==
    /\ client.mqtt = "open"
    /\ Disconnect
    /\ UNCHANGED <<topics, services, link, wire, broker, routed>>

(* destroy() unregisters the services, unsubscribes every topic, ends the   *)
(* MQTT client and clears the tables.  What it unsubscribes one by one is   *)
(* one packet here: nothing is asked of a client that is destroyed.         *)
DestroyClient ==
    /\ Destroy
    /\ services' = {}
    /\ \E order \in SetToSeqs(services) :
         Send([k \in DOMAIN order |-> Unregister(order[k])] \o
              <<UnsubscribeFrom(client.mqttTopics)>>)
    /\ UNCHANGED <<topics, link, broker, routed>>

(* A slip to tell apart: the wrapped callback does not look at the service. *)
Answer_AnyService(r) ==
    LET matching == client.callbacks["request"][r.topic]
                      \cup client.callbacks["request"][NoTopic]
    IN  (matching \cap Infos) \cup
        {u \in matching \cap {Unavailable} : r.id \notin services \cup {NoId}}

(* Who answers a request that reached the client: the callbacks wrapped for *)
(* its service, or for every service when it names none; the constructor's  *)
(* callback when it names a service that is not registered.                 *)
Answer(r) ==
    LET matching == client.callbacks["request"][r.topic]
                      \cup client.callbacks["request"][NoTopic]
    IN  {i \in matching \cap Infos : r.id \in {NoId, i}} \cup
        {u \in matching \cap {Unavailable} : r.id \notin services \cup {NoId}}

HandleRequest(r) ==
    /\ r \in routed
    /\ routed' = routed \ {r}
    /\ UNCHANGED <<topics, services, client, destroyed, link, wire, broker>>

-----------------------------------------------------------------------------
(* The connection and the broker *)

Closed ==
    /\ link = "up"
    /\ link' = "down"
    /\ wire' = <<>>
    /\ listening' = {}
    /\ routed' = {}
    /\ UNCHANGED <<topics, services, client, destroyed, registry>>

BrokerHandles ==
    /\ wire # <<>>
    /\ wire' = Tail(wire)
    /\ LET p == Head(wire)
       IN  /\ registry' = CASE p.op = "register" -> registry \cup {p.info}
                            [] p.op = "unregister" -> registry \ {p.info}
                            [] OTHER -> registry
           /\ listening' = CASE p.op = "subscribe" -> listening \cup p.topics
                             [] p.op = "unsubscribe" -> listening \ p.topics
                             [] OTHER -> listening
    /\ UNCHANGED <<topics, services, client, destroyed, link, routed>>

BrokerExpires(i) ==
    /\ i \in registry
    /\ registry' = registry \ {i}
    /\ UNCHANGED <<topics, services, client, destroyed, link, wire, listening,
                   routed>>

(* A request reaches this client only if it listens to the topic.  It names *)
(* the service it is routed to, or none if it is sent to whoever listens.   *)
Route(call, t, id) ==
    /\ \A r \in routed : r.call # call
    /\ id = NoId \/ (id \in registry /\ t \in topics[id])
    /\ t \in listening
    /\ routed' = routed \cup {[call |-> call, topic |-> t, id |-> id]}
    /\ UNCHANGED <<topics, services, client, destroyed, link, wire, broker>>

FabricNext ==
    \/ \E i \in Infos : RegisterServiceAsync(i) \/ UnregisterServiceAsync(i)
                          \/ Renew(i) \/ BrokerExpires(i)
    \/ \E t \in Topics : AddMonitor(t) \/ RemoveMonitor(t)
    \/ ConnectClient \/ OnConnected \/ DisconnectClient \/ DestroyClient
    \/ Closed \/ BrokerHandles
    \/ \E call \in Calls, t \in Topics, id \in Infos \cup {NoId} :
         Route(call, t, id)
    \/ \E r \in routed : HandleRequest(r)

FabricSpec == FabricInit /\ [][FabricNext]_fabricVars

(* The broker handles what arrives; nobody has to connect or to stay so.    *)
FairSpec == FabricSpec /\ WF_fabricVars(BrokerHandles)

-----------------------------------------------------------------------------
(* Properties *)

OnWire(p) == \E k \in DOMAIN wire : wire[k] = p
SubscribeComes(t) ==
    \E k \in DOMAIN wire : wire[k].op = "subscribe" /\ t \in wire[k].topics

(* REGISTER is sent before the topics are subscribed, UNREGISTER before     *)
(* they are unsubscribed.  So a request is routed to a service whose topic  *)
(* the broker does not know of only while the subscription is on its way,   *)
(* just behind; a service that is withdrawn listens until the broker knows. *)
HeardInv ==
    link = "up" /\ client.mqtt = "open" =>
        \A i \in registry :
            (i \in services \/ OnWire(Unregister(i))) =>
                \A t \in topics[i] : t \in listening \/ SubscribeComes(t)

(* A request for a service that reaches the client is answered once: by the *)
(* service, or with "unable to locate service" if it has been unregistered  *)
(* while the request was under way, though another service, or the          *)
(* application itself, listens to the same topic.                           *)
AnsweredOnceInv ==
    \A r \in routed :
        r.id # NoId /\ ~destroyed
          => Answer(r) = IF r.id \in services THEN {r.id} ELSE {Unavailable}

(* On a connection that lasts, the broker sends this client the requests of *)
(* a service that stays: from some time on it knows of all of its topics,   *)
(* whatever else comes and goes that shares them.                           *)
HeardInTheEndProp ==
    \A i \in Infos :
        <>[](link = "up" /\ client.mqtt = "open" /\ i \in services)
          => <>[](topics[i] \subseteq listening)
=============================================================================
