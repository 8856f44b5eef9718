--------------------------- MODULE ServiceManager ---------------------------
(***************************************************************************)
(* Services registered with the fabric (lib/service-manager.js).  Each     *)
(* call of registerServiceAsync makes a service object, which the TTL      *)
(* timer and the callbacks of its REGISTER requests go on holding after    *)
(* the manager has forgotten it.  The requests reach the broker's service  *)
(* registry in the order they were sent, or are lost with the connection.  *)
(***************************************************************************)
EXTENDS Integers, FiniteSets, SequencesExt, PartialMap

CONSTANTS
    Infos,   \* ServiceRegistrationInfo objects; each stands for its service id
    Regs,    \* the calls of registerServiceAsync, and the objects they make
    Topics,  \* request topics of the services
    MaxWire, \* bound: registry requests and responses under way
    MayThrow \* whether the application's registration callbacks may throw

ASSUME WireAssumption == MaxWire \in Nat /\ MayThrow \in BOOLEAN
ASSUME FiniteAssumption == IsFiniteSet(Infos) /\ IsFiniteSet(Regs)

VARIABLES
    topics,     \* info |-> the topics addTopic gave it so far
    services,   \* _services: info |-> service object, partial
    objects,    \* service object |-> its fields, partial
    table,      \* CallbackManager: <<topic, object>>, the wrapped callbacks
    timers,     \* <<object, slot>>: TTL timeouts that are pending
    mqtt,       \* "offline", "online" or "ending", once end() was called
    destroyed,  \* destroy() was called
    wire,       \* registry requests on their way to the broker
    replies,    \* their responses on the way back
    pending,    \* objects whose unregister callback is stored in _requests
    broker,     \* the broker's registry: info |-> [reg, topics], partial
    firstCalls, \* history: object |-> how often its first callback ran
    asked,      \* history: objects whose unregistration was given a callback
    told        \* history: objects whose unregister callback was invoked

vars == <<topics, services, objects, table, timers, mqtt, destroyed, wire,
          replies, pending, broker, firstCalls, asked, told>>
client == <<topics, services, objects, table, timers, destroyed>>
fabric == <<mqtt, wire, replies, broker>>
history == <<pending, firstCalls, asked, told>>

(* A handle names one timeout; 0 is null.  A handle that has fired may be *)
(* used again: the object that holds it overwrites it then.                *)
Slots == {1, 2}

Message ==
    [op : {"register", "unregister"}, reg : Regs, info : Infos,
     topics : SUBSET Topics]

Init ==
    /\ topics = [i \in Infos |-> {}]
    /\ services = EmptyMap
    /\ objects = EmptyMap
    /\ table = {}
    /\ timers = {}
    /\ mqtt = "offline"
    /\ destroyed = FALSE
    /\ wire = <<>>
    /\ replies = <<>>
    /\ pending = {}
    /\ broker = EmptyMap
    /\ firstCalls = [r \in Regs |-> 0]
    /\ asked = {}
    /\ told = {}

Connected == mqtt # "offline"
Usable == ~destroyed
Room(n) == Len(wire) + n <= MaxWire
Active == {services[i] : i \in DOMAIN services}

(* A client that is ending accepts a message and does not send it. *)
Sent(messages) == IF mqtt = "online" THEN wire \o messages ELSE wire

RegisterRequest(r, info) ==
    [op |-> "register", reg |-> r, info |-> info, topics |-> topics[info]]

UnregisterRequest(r, info) ==
    [op |-> "unregister", reg |-> r, info |-> info, topics |-> {}]

(* clearTtlTimeout: a null handle, or one that has fired, clears nothing. *)
WithoutTimers(from, regs, objs) ==
    from \ {<<r, objs[r].ttlTimeout>> : r \in regs}

FreeSlot(r, from) == CHOOSE s \in Slots : <<r, s>> \notin from

(* A slip to tell apart: the timer of an earlier registration runs on. *)
RegisterServices_NoClear(regs, objs, from, connected) ==
    IF connected
      THEN /\ timers' = from \cup {<<r, FreeSlot(r, from)>> : r \in regs}
           /\ objects' =
                [r \in DOMAIN objs |->
                   IF r \in regs
                     THEN [objs[r] EXCEPT !.ttlTimeout = FreeSlot(r, from)]
                     ELSE objs[r]]
      ELSE timers' = from /\ objects' = objs

(* registerService for the objects regs: each clears its timer and, when   *)
(* the client is connected, sends a REGISTER and starts a new one.          *)
RegisterServices(regs, objs, from, connected) ==
    LET kept == WithoutTimers(from, regs, objs)
    IN  IF connected
          THEN /\ timers' = kept \cup {<<r, FreeSlot(r, kept)>> : r \in regs}
               /\ objects' =
                    [r \in DOMAIN objs |->
                       IF r \in regs
                         THEN [objs[r] EXCEPT !.ttlTimeout = FreeSlot(r, kept)]
                         ELSE objs[r]]
          ELSE timers' = kept /\ objects' = objs

(* A second registration of the same id throws before anything is stored. *)
RegisterServiceAsync(info, r, callback) ==
    LET object == [info |-> info, first |-> callback,
                   callbacksByTopic |-> topics[info], ttlTimeout |-> 0]
    IN  /\ Usable
        /\ Room(1)
        /\ r \notin DOMAIN objects
        /\ info \notin DOMAIN services
        /\ services' = Put(services, info, r)
        /\ RegisterServices({r}, Put(objects, r, object), timers, Connected)
        /\ wire' = Sent(<<RegisterRequest(r, info)>>)
        /\ table' = table \cup (topics[info] \X {r})
        /\ UNCHANGED <<topics, mqtt, destroyed, replies, broker, history>>

(* A slip to tell apart: the wrapped callbacks are not removed. *)
UnregisterServices_KeepCallbacks(regs) ==
    /\ table' = table
    /\ timers' = WithoutTimers(timers, regs, objects)
    /\ \E order \in SetToSeqs(regs) :
         wire' = Sent([k \in 1..Len(order) |->
                   UnregisterRequest(order[k], objects[order[k]].info)])

(* A slip to tell apart: the TTL timer of a service is left running. *)
UnregisterServices_KeepTimers(regs) ==
    /\ table' = {x \in table : x[2] \notin regs \/
                             x[1] \notin objects[x[2]].callbacksByTopic}
    /\ timers' = timers
    /\ \E order \in SetToSeqs(regs) :
         wire' = Sent([k \in 1..Len(order) |->
                   UnregisterRequest(order[k], objects[order[k]].info)])

(* unregisterService for the objects regs, whose ids are deleted from      *)
(* _services by the caller.                                                *)
UnregisterServices(regs) ==
    /\ table' = {x \in table : x[2] \notin regs \/
                             x[1] \notin objects[x[2]].callbacksByTopic}
    /\ timers' = WithoutTimers(timers, regs, objects)
    /\ \E order \in SetToSeqs(regs) :
         wire' = Sent([k \in 1..Len(order) |->
                   UnregisterRequest(order[k], objects[order[k]].info)])

(* A slip to tell apart: the callback runs when the request is sent. *)
UnregisterServiceAsync_TellsAtOnce(info, callback) ==
    /\ Usable
    /\ Room(1)
    /\ info \in DOMAIN services
    /\ LET r == services[info]
       IN  /\ services' = Delete(services, info)
           /\ UnregisterServices({r})
           /\ asked' = IF callback THEN asked \cup {r} ELSE asked
           /\ told' = IF callback THEN told \cup {r} ELSE told
    /\ UNCHANGED <<topics, objects, mqtt, destroyed, replies, broker,
                   firstCalls, pending>>

UnregisterServiceAsync(info, callback) ==
    /\ Usable
    /\ Room(1)
    /\ info \in DOMAIN services
    /\ LET r == services[info]
       IN  /\ services' = Delete(services, info)
           /\ UnregisterServices({r})
           /\ asked' = IF callback THEN asked \cup {r} ELSE asked
           /\ pending' = IF callback /\ Connected
                           THEN pending \cup {r} ELSE pending
    /\ UNCHANGED <<topics, objects, mqtt, destroyed, replies, broker,
                   firstCalls, told>>

(* A slip to tell apart: a renewal does not arrange the next one. *)
TtlFires_Once(r, s) ==
    /\ Room(1)
    /\ <<r, s>> \in timers
    /\ timers' = timers \ {<<r, s>>}
    /\ wire' = Sent(<<RegisterRequest(r, objects[r].info)>>)
    /\ UNCHANGED <<topics, services, objects, table, mqtt, destroyed, replies,
                   broker, history>>

(* The timeout of an object is armed for the object itself: it does not    *)
(* look the service up again.                                              *)
TtlFires(r, s) ==
    /\ Room(1)
    /\ <<r, s>> \in timers
    /\ RegisterServices({r}, objects, timers \ {<<r, s>>}, Connected)
    /\ wire' = Sent(<<RegisterRequest(r, objects[r].info)>>)
    /\ UNCHANGED <<topics, services, table, mqtt, destroyed, replies, broker,
                   history>>

(* The 'connect' event: every active service is registered again. *)
OnConnected ==
    /\ Usable
    /\ mqtt = "offline"
    /\ mqtt' = "online"
    /\ RegisterServices(Active, objects, timers, TRUE)
    /\ \E order \in SetToSeqs(DOMAIN services) :
         wire' = [k \in 1..Len(order) |->
                    RegisterRequest(services[order[k]], order[k])]
    /\ UNCHANGED <<topics, services, table, destroyed, replies, broker,
                   history>>

(* Client.destroy unregisters every service and then disconnects. *)
Destroy ==
    /\ Usable
    /\ Room(Cardinality(Active))
    /\ destroyed' = TRUE
    /\ services' = EmptyMap
    /\ UnregisterServices(Active)
    /\ mqtt' = IF mqtt = "online" THEN "ending" ELSE mqtt
    /\ UNCHANGED <<topics, objects, replies, broker, history>>

Disconnect ==
    /\ mqtt = "online"
    /\ mqtt' = "ending"
    /\ UNCHANGED <<client, wire, replies, broker, history>>

(* The application may extend the registration info at any time. *)
AddTopic(info, topic) ==
    /\ Usable
    /\ topic \notin topics[info]
    /\ topics' = [topics EXCEPT ![info] = @ \cup {topic}]
    /\ UNCHANGED <<services, objects, table, timers, destroyed, fabric,
                   history>>

(* A slip to tell apart: the first callback is not set to null. *)
HandleReply_KeepsFirst ==
    /\ replies # <<>>
    /\ replies' = Tail(replies)
    /\ LET m == Head(replies) r == m.reg
       IN  \/ /\ m.op = "register" /\ objects[r].first /\ ~destroyed
              /\ firstCalls' = [firstCalls EXCEPT ![r] = @ + 1]
              /\ UNCHANGED <<objects, pending, told>>
           \/ /\ m.op = "unregister" /\ r \in pending /\ ~destroyed
              /\ pending' = pending \ {r}
              /\ told' = told \cup {r}
              /\ UNCHANGED <<objects, firstCalls>>
    /\ UNCHANGED <<topics, services, table, timers, mqtt, destroyed, wire,
                   broker, asked>>

(* The response to a REGISTER or an UNREGISTER, an error or not.  A first  *)
(* callback that throws leaves before the field is set to null.            *)
HandleReply ==
    /\ replies # <<>>
    /\ replies' = Tail(replies)
    /\ LET m == Head(replies) r == m.reg
       IN  \/ /\ m.op = "register" /\ objects[r].first /\ ~destroyed
              /\ firstCalls' = [firstCalls EXCEPT ![r] = @ + 1]
              /\ \E throws \in {FALSE, MayThrow} :
                   objects' = [objects EXCEPT ![r].first = throws]
              /\ UNCHANGED <<pending, told>>
           \/ /\ m.op = "unregister" /\ r \in pending /\ ~destroyed
              /\ pending' = pending \ {r}
              /\ told' = told \cup {r}
              /\ UNCHANGED <<objects, firstCalls>>
           \/ /\ destroyed \/ (m.op = "register" /\ ~objects[r].first)
                           \/ (m.op = "unregister" /\ r \notin pending)
              /\ UNCHANGED <<objects, pending, firstCalls, told>>
    /\ UNCHANGED <<topics, services, table, timers, mqtt, destroyed, wire,
                   broker, asked>>

-----------------------------------------------------------------------------
(* The connection and the broker *)

Closed ==
    /\ mqtt # "offline"
    /\ mqtt' = "offline"
    /\ wire' = <<>>
    /\ replies' = <<>>
    /\ UNCHANGED <<client, broker, history>>

BrokerHandles ==
    /\ wire # <<>>
    /\ Len(replies) < MaxWire
    /\ wire' = Tail(wire)
    /\ replies' = Append(replies, Head(wire))
    /\ LET m == Head(wire)
       IN  broker' = IF m.op = "register"
                       THEN Put(broker, m.info,
                                [reg |-> m.reg, topics |-> m.topics])
                       ELSE Delete(broker, m.info)
    /\ UNCHANGED <<client, mqtt, history>>

(* A registration that was not renewed in time is dropped. *)
BrokerExpires(info) ==
    /\ info \in DOMAIN broker
    /\ broker' = Delete(broker, info)
    /\ UNCHANGED <<client, mqtt, wire, replies, history>>

Next ==
    \/ \E info \in Infos, r \in Regs, callback \in BOOLEAN :
         RegisterServiceAsync(info, r, callback)
    \/ \E info \in Infos, callback \in BOOLEAN :
         UnregisterServiceAsync(info, callback)
    \/ \E info \in Infos, topic \in Topics : AddTopic(info, topic)
    \/ \E r \in Regs, s \in Slots : TtlFires(r, s)
    \/ OnConnected \/ Disconnect \/ Destroy \/ HandleReply
    \/ Closed \/ BrokerHandles
    \/ \E info \in Infos : BrokerExpires(info)

Spec == Init /\ [][Next]_vars

(* Timeouts fire and what arrives is handled; the broker answers and       *)
(* forgets.  Nobody has to connect, and nobody has to stay connected.      *)
Fairness ==
    /\ \A r \in Regs, s \in Slots : WF_vars(TtlFires(r, s))
    /\ WF_vars(HandleReply)
    /\ WF_vars(BrokerHandles)
    /\ \A info \in Infos : WF_vars(BrokerExpires(info))

FairSpec == Spec /\ Fairness

-----------------------------------------------------------------------------
(* Properties *)

Object ==
    [info : Infos, first : BOOLEAN, callbacksByTopic : SUBSET Topics,
     ttlTimeout : {0} \cup Slots]

(* The values the manager, the network and the histories range over. *)
TypeOK ==
    /\ topics \in [Infos -> SUBSET Topics]
    /\ DOMAIN objects \subseteq Regs
    /\ \A r \in DOMAIN objects : objects[r] \in Object
    /\ DOMAIN services \subseteq Infos
    /\ \A i \in DOMAIN services :
         services[i] \in DOMAIN objects /\ objects[services[i]].info = i
    /\ table \subseteq Topics \X (DOMAIN objects)
    /\ timers \subseteq (DOMAIN objects) \X Slots
    /\ mqtt \in {"offline", "online", "ending"}
    /\ destroyed \in BOOLEAN
    /\ wire \in Seq(Message) /\ replies \in Seq(Message)
    /\ DOMAIN broker \subseteq Infos
    /\ firstCalls \in [Regs -> Nat]
    /\ pending \subseteq asked /\ told \subseteq asked
    /\ asked \subseteq DOMAIN objects

(* A service is renewed by exactly one timeout while the client is          *)
(* connected, never by two, and none outlives the service: not after a      *)
(* reconnect, a renewal while offline, or a registration that comes between.*)
TimerInv ==
    /\ \A r \in Regs, s, u \in Slots :
         (<<r, s>> \in timers /\ <<r, u>> \in timers) => s = u
    /\ \A x \in timers : x[1] \in Active
    /\ Connected => \A r \in Active : \E s \in Slots : <<r, s>> \in timers

(* The callback wrapped by registerServiceAsync: who gets a request that    *)
(* names the service id.                                                    *)
ServedBy(topic, id) == {r \in DOMAIN objects :
                          <<topic, r>> \in table /\ objects[r].info = id}

(* The callback of the constructor: who answers "unable to locate service". *)
Refuses(id) == id \notin DOMAIN services

(* A request for a service is refused, or given to the callbacks of the     *)
(* one registration that is active, never both and never to an old one.     *)
RoutedInv ==
    \A topic \in Topics, id \in Infos :
        ServedBy(topic, id) =
          IF Refuses(id) THEN {}
          ELSE {r \in {services[id]} : topic \in objects[r].callbacksByTopic}

(* The last thing the client says on a connection about a service is what   *)
(* the service is: no REGISTER overtakes or follows the UNREGISTER of a     *)
(* service, whatever timeouts and reconnects come between.                  *)
LastWordInv ==
    mqtt = "online" =>
        \A k \in 1..Len(wire) :
            LET m == wire[k]
            IN  (\A j \in k+1..Len(wire) : wire[j].info # m.info)
                  => \/ m.op = "register" /\ m.info \in DOMAIN services
                                         /\ services[m.info] = m.reg
                     \/ m.op = "unregister" /\ m.info \notin DOMAIN services

(* The first-registration callback runs at most once, though every renewal  *)
(* and every reconnect sends a REGISTER with the same response callback.    *)
FirstOnceInv == \A r \in Regs : firstCalls[r] <= 1

(* An application that was told that its service is unregistered does not   *)
(* hear afterwards that it has been registered.                             *)
NoNewsAfterToldProp ==
    [][\A r \in told : firstCalls'[r] = firstCalls[r]]_vars

(* A service that stays active on a connection that lasts is in the         *)
(* registry again and again, however often the broker lets it expire.       *)
RenewedProp ==
    \A i \in Infos, r \in Regs :
        <>[](mqtt = "online" /\ i \in DOMAIN services /\ services[i] = r)
          => []<>(i \in DOMAIN broker /\ broker[i].reg = r)

(* A service that is gone for good is gone from the registry in the end,    *)
(* also when it was unregistered while the client was offline.              *)
ForgottenProp ==
    \A i \in Infos :
        <>[](i \notin DOMAIN services) => <>[](i \notin DOMAIN broker)

(* service-manager.js promises the unregister callback an answer when the   *)
(* attempt is complete: it was told, or it waits for a response.            *)
UnregisterAnsweredInv == asked \subseteq pending \cup told

(* service-registration-info.js says a topic is registered along with its   *)
(* callback: what the fabric routes to a service has one.                   *)
AdvertisedServedInv ==
    \A i \in (DOMAIN broker) \cap (DOMAIN services) :
        broker[i].reg = services[i]
          => broker[i].topics \subseteq objects[services[i]].callbacksByTopic
=============================================================================
