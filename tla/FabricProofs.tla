---------------------------- MODULE FabricProofs ----------------------------
(***************************************************************************)
(* Proofs about modules SubscriptionTables, Subscriptions and Fabric, for  *)
(* any number of topics, callbacks, services and requests under way.       *)
(*                                                                         *)
(* What the operators on the tables preserve is inductive as the           *)
(* conjunction Consistent: removal may delete an entry only because no     *)
(* entry is empty (NoEmptyEntry), and the MQTT client follows only because *)
(* it mirrored the table before.  The list that is found for a topic and a *)
(* message type, empty when either is missing, gains or loses one callback *)
(* with every call of addSubscription() and removeSubscription(), whatever *)
(* these do to the entries around it.                                      *)
(***************************************************************************)
EXTENDS Fabric, TLAPS, FiniteSetTheorems, SequenceTheorems,
        WellFoundedInduction

(* The tables                                                              *)

(* The types as sets: what a table holds for a topic, tables, clients.      *)
Entry ==
    UNION {[types -> SUBSET Subscribers] : types \in SUBSET EntryTypes}
Table == UNION {[ts -> Entry] : ts \in SUBSET AllTopics}
ClientType ==
    [callbacks : CallbackLists,
     subscriptions : Table,
     mqtt : {"none", "open", "ended"},
     mqttTopics : SUBSET AllTopics]

Consistent(c) ==
    /\ c \in ClientType
    /\ Mirrored(c)
    /\ NoEmptyEntry(c)
    /\ SubscribedIsRegistered(c)

(* What the calls of add/removeSubscription may be given. *)
IsRequest(topic, type, cb) ==
    /\ topic \in Filters
    /\ \/ type \in MessageTypes /\ cb \in AllCallbacks
       \/ type = Explicit /\ cb = Explicit /\ topic # NoTopic

(* A table maps some topics to entries, an entry some types to callbacks. *)
LEMMA TableElim ==
  ASSUME NEW table \in Table
  PROVE  /\ table = [t \in DOMAIN table |-> table[t]]
         /\ DOMAIN table \subseteq AllTopics
         /\ \A t \in DOMAIN table : table[t] \in Entry
  BY DEF Table

LEMMA TableIntro ==
  ASSUME NEW S \in SUBSET AllTopics, NEW f \in [S -> Entry]
  PROVE  f \in Table
  BY DEF Table

LEMMA EntryElim ==
  ASSUME NEW e \in Entry
  PROVE  /\ e = [m \in DOMAIN e |-> e[m]]
         /\ DOMAIN e \subseteq EntryTypes
         /\ \A m \in DOMAIN e : e[m] \in SUBSET Subscribers
  BY DEF Entry

LEMMA EntryIntro ==
  ASSUME NEW S \in SUBSET EntryTypes,
         NEW f \in [S -> SUBSET Subscribers]
  PROVE  f \in Entry
  BY DEF Entry

(* Put and Delete change one key. *)
LEMMA PutTable ==
  ASSUME NEW table \in Table, NEW topic \in AllTopics, NEW e \in Entry
  PROVE  /\ Put(table, topic, e) \in Table
         /\ DOMAIN Put(table, topic, e) = DOMAIN table \cup {topic}
         /\ \A t \in DOMAIN table \cup {topic} :
              Put(table, topic, e)[t] = IF t = topic THEN e ELSE table[t]
  BY TableElim, TableIntro DEF Put

LEMMA DeleteTable ==
  ASSUME NEW table \in Table, NEW topic \in AllTopics
  PROVE  /\ Delete(table, topic) \in Table
         /\ DOMAIN Delete(table, topic) = DOMAIN table \ {topic}
         /\ \A t \in DOMAIN table \ {topic} : Delete(table, topic)[t] = table[t]
  BY TableElim, TableIntro DEF Delete

LEMMA PutEntry ==
  ASSUME NEW e \in Entry, NEW m \in EntryTypes,
         NEW cbs \in SUBSET Subscribers
  PROVE  /\ Put(e, m, cbs) \in Entry
         /\ DOMAIN Put(e, m, cbs) = DOMAIN e \cup {m}
         /\ \A n \in DOMAIN e \cup {m} :
              Put(e, m, cbs)[n] = IF n = m THEN cbs ELSE e[n]
  BY EntryElim, EntryIntro DEF Put

LEMMA DeleteEntry ==
  ASSUME NEW e \in Entry, NEW m \in EntryTypes
  PROVE  /\ Delete(e, m) \in Entry
         /\ DOMAIN Delete(e, m) = DOMAIN e \ {m}
         /\ \A n \in DOMAIN e \ {m} : Delete(e, m)[n] = e[n]
  BY EntryElim, EntryIntro DEF Delete

-----------------------------------------------------------------------------
(* addSubscription *)

LEMMA WithEntryLemma ==
  ASSUME NEW e \in Entry, NEW type \in EntryTypes, NEW cb \in Subscribers
  PROVE  WithEntry(e, type, cb) \in Entry
  <1>1. ListFor(e, type) \cup {cb} \in SUBSET Subscribers
    BY EntryElim DEF ListFor
  <1> DEFINE cbs == ListFor(e, type) \cup {cb}
  <1>2. WithEntry(e, type, cb) = Put(e, type, cbs)
    BY DEF WithEntry
  <1>3. cbs \in SUBSET Subscribers
    BY <1>1
  <1> HIDE DEF cbs
  <1>4. Put(e, type, cbs) \in Entry
    BY <1>3, EntryElim, EntryIntro DEF Put
  <1>5. QED
    BY <1>2, <1>4

LEMMA EmptyEntry == EmptyMap \in Entry /\ DOMAIN EmptyMap = {}
  BY EntryIntro, EmptyMap \in [{} -> SUBSET Subscribers] DEF EmptyMap

LEMMA AddCallbackLemma ==
  ASSUME NEW c \in ClientType, NEW type \in MessageTypes,
         NEW topic \in Filters, NEW cb \in AllCallbacks,
         NEW cbs, cbs = AddCallback(c.callbacks, type, topic, cb)
  PROVE  /\ cbs \in CallbackLists
         /\ \A m \in MessageTypes, t \in Filters :
              cbs[m][t] = IF m = type /\ t = topic
                            THEN c.callbacks[m][t] \cup {cb}
                            ELSE c.callbacks[m][t]
  <1> DEFINE Lists == [Filters -> SUBSET AllCallbacks]
             new == [c.callbacks[type] EXCEPT ![topic] = @ \cup {cb}]
  <1>1. c.callbacks \in [MessageTypes -> Lists]
    BY DEF ClientType, CallbackLists
  <1>2. /\ new \in Lists
        /\ \A t \in Filters :
             new[t] = IF t = topic THEN c.callbacks[type][t] \cup {cb}
                                   ELSE c.callbacks[type][t]
    BY <1>1
  <1>3. AddCallback(c.callbacks, type, topic, cb) = [c.callbacks EXCEPT ![type] = new]
    BY DEF AddCallback
  <1> HIDE DEF new
  <1>4. QED
    BY <1>1, <1>2, <1>3 DEF CallbackLists

LEMMA RemoveCallbackLemma ==
  ASSUME NEW c \in ClientType, NEW type \in MessageTypes,
         NEW topic \in Filters, NEW cb \in AllCallbacks,
         NEW cbs, cbs = RemoveCallback(c.callbacks, type, topic, cb)
  PROVE  /\ cbs \in CallbackLists
         /\ \A m \in MessageTypes, t \in Filters :
              cbs[m][t] = IF m = type /\ t = topic
                            THEN c.callbacks[m][t] \ {cb}
                            ELSE c.callbacks[m][t]
  <1> DEFINE Lists == [Filters -> SUBSET AllCallbacks]
             new == [c.callbacks[type] EXCEPT ![topic] = @ \ {cb}]
  <1>1. c.callbacks \in [MessageTypes -> Lists]
    BY DEF ClientType, CallbackLists
  <1>2. /\ new \in Lists
        /\ \A t \in Filters :
             new[t] = IF t = topic THEN c.callbacks[type][t] \ {cb}
                                   ELSE c.callbacks[type][t]
    BY <1>1
  <1>3. RemoveCallback(c.callbacks, type, topic, cb) = [c.callbacks EXCEPT ![type] = new]
    BY DEF RemoveCallback
  <1> HIDE DEF new
  <1>4. QED
    BY <1>1, <1>2, <1>3 DEF CallbackLists

LEMMA AddToTableConsistent ==
  ASSUME NEW c, Consistent(c), NEW topic \in AllTopics, NEW type, NEW cb,
         \/ /\ type \in MessageTypes /\ cb \in AllCallbacks
            /\ cb \in c.callbacks[type][topic]
         \/ type = Explicit /\ cb = Explicit
  PROVE  Consistent(AddToTable(c, topic, type, cb))
  <1> DEFINE table == c.subscriptions
             old == IF topic \in DOMAIN table THEN table[topic] ELSE EmptyMap
             new == WithEntry(old, type, cb)
             d == AddToTable(c, topic, type, cb)
  <1>1. /\ c \in ClientType /\ table \in Table
        /\ type \in EntryTypes
        /\ cb \in Subscribers
    BY DEF Consistent, ClientType, EntryTypes, Subscribers
  <1>2. old \in Entry
    BY <1>1, TableElim, EmptyEntry
  <1> HIDE DEF d, new, old, table
  <1>3. /\ new \in Entry
        /\ DOMAIN new = DOMAIN old \cup {type}
        /\ \A n \in DOMAIN old \cup {type} :
             new[n] = IF n = type THEN ListFor(old, type) \cup {cb} ELSE old[n]
    <2>1. type \in EntryTypes /\ cb \in Subscribers
      BY <1>1
    <2>2. new \in Entry
      BY <1>2, <2>1, WithEntryLemma, Zenon DEF new
    <2>3. QED
      BY <2>2 DEF new, WithEntry, Put
  <1>4. /\ Put(table, topic, new) \in Table
        /\ DOMAIN Put(table, topic, new) = DOMAIN table \cup {topic}
        /\ \A t \in DOMAIN table \cup {topic} :
             Put(table, topic, new)[t] = IF t = topic THEN new ELSE table[t]
    BY <1>1, <1>3, PutTable, Zenon
  <1>5. /\ d \in ClientType
        /\ d.subscriptions = Put(table, topic, new)
        /\ d.callbacks = c.callbacks
        /\ d.mqtt = c.mqtt
        /\ d.mqttTopics = IF topic \notin DOMAIN table /\ c.mqtt = "open"
                            THEN c.mqttTopics \cup {topic} ELSE c.mqttTopics
    <2>1. CASE topic \in DOMAIN table
      <3>1. d = [c EXCEPT !.subscriptions = Put(table, topic, new)]
        BY <2>1, Zenon DEF AddToTable, d, new, old, table
      <3>2. QED
        BY <1>1, <1>4, <2>1, <3>1 DEF ClientType
    <2>2. CASE topic \notin DOMAIN table
      <3>1. d = [MqttSubscribe(c, topic) EXCEPT
                   !.subscriptions = Put(@, topic, new)]
        BY <2>2, Zenon DEF AddToTable, d, new, old, table
      <3>2. /\ MqttSubscribe(c, topic) \in ClientType
            /\ MqttSubscribe(c, topic).subscriptions = table
            /\ MqttSubscribe(c, topic).callbacks = c.callbacks
            /\ MqttSubscribe(c, topic).mqtt = c.mqtt
            /\ MqttSubscribe(c, topic).mqttTopics =
                 IF c.mqtt = "open" THEN c.mqttTopics \cup {topic} ELSE c.mqttTopics
        BY <1>1 DEF ClientType, MqttSubscribe, table
      <3>3. QED
        BY <1>1, <1>4, <2>2, <3>1, <3>2 DEF ClientType
    <2>3. QED
      BY <2>1, <2>2
  <1>6. Mirrored(d)
    BY <1>4, <1>5 DEF Mirrored, Consistent, table
  <1>7. NoEmptyEntry(d)
    <2> SUFFICES ASSUME NEW t \in DOMAIN d.subscriptions
                 PROVE  /\ DOMAIN d.subscriptions[t] # {}
                        /\ \A m \in DOMAIN d.subscriptions[t] :
                             d.subscriptions[t][m] # {}
      BY DEF NoEmptyEntry
    <2>1. CASE t # topic
      BY <2>1, <1>4, <1>5 DEF Consistent, NoEmptyEntry, table
    <2>2. CASE t = topic
      <3>1. \A m \in DOMAIN old : old[m] # {}
        BY EmptyEntry DEF Consistent, NoEmptyEntry, old, table
      <3>2. d.subscriptions[t] = new
        BY <2>2, <1>4, <1>5
      <3>3. ASSUME NEW m \in DOMAIN new PROVE new[m] # {}
        BY <1>3, <3>1
      <3>4. QED
        BY <1>3, <3>2, <3>3
    <2>3. QED
      BY <2>1, <2>2
  <1>8. SubscribedIsRegistered(d)
    <2> SUFFICES ASSUME NEW t \in DOMAIN d.subscriptions,
                        NEW m \in DOMAIN d.subscriptions[t]
                 PROVE  IF m = Explicit
                          THEN d.subscriptions[t][m] = {Explicit}
                          ELSE d.subscriptions[t][m] \subseteq d.callbacks[m][t]
      BY DEF SubscribedIsRegistered
    <2>1. CASE t # topic
      BY <2>1, <1>4, <1>5 DEF Consistent, SubscribedIsRegistered, table
    <2>2. CASE t = topic /\ m # type
      BY <2>2, <1>3, <1>4, <1>5, EmptyEntry
         DEF Consistent, SubscribedIsRegistered, old, table
    <2>3. CASE t = topic /\ m = type
      <3>1. d.subscriptions[t][m] = ListFor(old, type) \cup {cb}
        BY <2>3, <1>3, <1>4, <1>5
      <3>2. IF m = Explicit THEN ListFor(old, type) \subseteq {Explicit}
                            ELSE ListFor(old, type) \subseteq c.callbacks[m][t]
        BY <2>3, EmptyEntry DEF Consistent, SubscribedIsRegistered, old, table, ListFor
      <3>3. IF m = Explicit THEN cb = Explicit ELSE cb \in c.callbacks[m][t]
        BY <2>3, Distinct DEF MessageTypes
      <3>4. QED
        BY <3>1, <3>2, <3>3, <1>5
    <2>4. QED
      BY <2>1, <2>2, <2>3
  <1>9. QED
    BY <1>5, <1>6, <1>7, <1>8 DEF Consistent, d

LEMMA AddSubscriptionConsistent ==
  ASSUME NEW c, Consistent(c), NEW topic, NEW type, NEW cb,
         IsRequest(topic, type, cb), NEW subscribeToTopic \in BOOLEAN
  PROVE  Consistent(AddSubscription(c, topic, type, cb, subscribeToTopic))
  <1> DEFINE added == IF cb = Explicit THEN c ELSE
                        [c EXCEPT !.callbacks = AddCallback(@, type, topic, cb)]
  <1>1. /\ c \in ClientType
        /\ topic \in Filters
        /\ IF cb = Explicit THEN type = Explicit
                            ELSE type \in MessageTypes /\ cb \in AllCallbacks
    BY Distinct DEF Consistent, IsRequest, AllCallbacks
  <1>2. /\ Consistent(added)
        /\ cb # Explicit => cb \in added.callbacks[type][topic]
    <2>1. CASE cb = Explicit
      BY <2>1
    <2>2. CASE cb # Explicit
      <3> DEFINE cbs == AddCallback(c.callbacks, type, topic, cb)
      <3>0. cbs = AddCallback(c.callbacks, type, topic, cb)
        OBVIOUS
      <3> HIDE DEF cbs
      <3>1. /\ cbs \in CallbackLists
            /\ \A m \in MessageTypes, t \in Filters :
                 cbs[m][t] = IF m = type /\ t = topic
                               THEN c.callbacks[m][t] \cup {cb}
                               ELSE c.callbacks[m][t]
        <4>1. type \in MessageTypes /\ cb \in AllCallbacks
          BY <1>1, <2>2
        <4>2. QED
          BY <1>1, <3>0, <4>1, AddCallbackLemma, Z3
      <3> HIDE DEF cbs
      <3>2. added = [c EXCEPT !.callbacks = cbs]
        BY <2>2 DEF cbs
      <3> HIDE DEF added
      <3>3. /\ added \in ClientType
            /\ added.callbacks = cbs
            /\ added.subscriptions = c.subscriptions
            /\ added.mqtt = c.mqtt
            /\ added.mqttTopics = c.mqttTopics
        BY <1>1, <3>1, <3>2 DEF ClientType
      <3>4. SubscribedIsRegistered(added)
        <4> SUFFICES ASSUME NEW t \in DOMAIN added.subscriptions,
                            NEW m \in DOMAIN added.subscriptions[t]
                     PROVE  IF m = Explicit
                              THEN added.subscriptions[t][m] = {Explicit}
                              ELSE added.subscriptions[t][m]
                                     \subseteq added.callbacks[m][t]
          BY DEF SubscribedIsRegistered
        <4>1. /\ c.subscriptions \in Table
              /\ t \in AllTopics /\ m \in EntryTypes
          BY <1>1, <3>3, TableElim, EntryElim DEF ClientType
        <4>2. CASE m = Explicit
          BY <3>3, <4>2 DEF Consistent, SubscribedIsRegistered
        <4>3. CASE m # Explicit
          <5>1. m \in MessageTypes
            BY <4>1, <4>3 DEF EntryTypes
          <5>2. c.callbacks[m][t] \subseteq cbs[m][t]
            BY <3>1, <4>1, <5>1 DEF Filters
          <5>3. c.subscriptions[t][m] \subseteq c.callbacks[m][t]
            BY <3>3, <4>3 DEF Consistent, SubscribedIsRegistered
          <5>4. QED
            BY <3>3, <4>3, <5>2, <5>3
        <4>4. QED
          BY <4>2, <4>3
      <3>5. cb \in added.callbacks[type][topic]
        BY <1>1, <2>2, <3>1, <3>3
      <3>6. QED
        BY <3>3, <3>4, <3>5 DEF Consistent, Mirrored, NoEmptyEntry
    <2>3. QED
      BY <2>1, <2>2
  <1>3. AddSubscription(c, topic, type, cb, subscribeToTopic) =
          IF subscribeToTopic /\ topic # NoTopic
            THEN AddToTable(added, topic, type, cb) ELSE added
    BY DEF AddSubscription
  <1> HIDE DEF added
  <1>4. CASE subscribeToTopic /\ topic # NoTopic
    <2>1. topic \in AllTopics
      BY <1>1, <1>4 DEF Filters
    <2>2. Consistent(AddToTable(added, topic, type, cb))
      BY <1>1, <1>2, <2>1, AddToTableConsistent
    <2>3. QED
      BY <1>3, <1>4, <2>2
  <1>5. CASE ~(subscribeToTopic /\ topic # NoTopic)
    BY <1>2, <1>3, <1>5
  <1>6. QED
    BY <1>4, <1>5

-----------------------------------------------------------------------------
(* removeSubscription *)

(* Only the entry of the topic changes, it loses the callback, and what    *)
(* is left of it is not empty.                                             *)
Shrunk(T, table, topic, type, cb) ==
    /\ T \in Table
    /\ DOMAIN T \cup {topic} = DOMAIN table
    /\ \A t \in DOMAIN T \ {topic} : T[t] = table[t]
    /\ topic \in DOMAIN T =>
         /\ cb # Explicit
         /\ DOMAIN T[topic] # {}
         /\ DOMAIN T[topic] \subseteq DOMAIN table[topic]
         /\ \A m \in DOMAIN T[topic] :
              /\ T[topic][m] # {}
              /\ T[topic][m] \subseteq table[topic][m]
              /\ m = type => cb \notin T[topic][m]

LEMMA WithoutEntryLemma ==
  ASSUME NEW table \in Table, NEW topic \in DOMAIN table,
         DOMAIN table[topic] # {},
         \A m \in DOMAIN table[topic] : table[topic][m] # {},
         NEW type, NEW cb, cb # Explicit,
         NEW T, T = WithoutEntry(table, topic, type, cb)
  PROVE  Shrunk(T, table, topic, type, cb)
  <1> USE DEF Shrunk
  <1> DEFINE e == table[topic]
  <1>1. topic \in AllTopics /\ e \in Entry
    BY TableElim
  <1>2. CASE type \notin DOMAIN e \/ cb \notin e[type]
    <2>1. T = table
      BY <1>2 DEF WithoutEntry
    <2>2. QED
      BY <1>2, <2>1
  <1>3. CASE ~(type \notin DOMAIN e \/ cb \notin e[type]) /\ e[type] # {cb}
    <2> DEFINE f == Put(e, type, e[type] \ {cb})
    <2>1. T = Put(table, topic, f)
      BY <1>3 DEF WithoutEntry
    <2>2. /\ DOMAIN f = DOMAIN e
          /\ f[type] = e[type] \ {cb}
          /\ \A m \in DOMAIN e \ {type} : f[m] = e[m]
          /\ f \in [DOMAIN e -> SUBSET Subscribers]
      <3>1. /\ \A m \in DOMAIN e : e[m] \in SUBSET Subscribers
            /\ type \in DOMAIN e
        BY <1>1, <1>3, EntryElim
      <3>2. DOMAIN e \cup {type} = DOMAIN e /\ e[type] \ {cb} \in SUBSET Subscribers
        BY <3>1
      <3>3. f = [m \in DOMAIN e |-> IF m = type THEN e[type] \ {cb} ELSE e[m]]
        BY <3>2 DEF Put
      <3>4. QED
        BY <3>1, <3>2, <3>3
    <2> HIDE DEF f
    <2>3. f \in Entry
      BY <1>1, <2>2, EntryElim, EntryIntro
    <2>4. /\ T \in Table
          /\ DOMAIN T = DOMAIN table
          /\ T[topic] = f
          /\ \A t \in DOMAIN table \ {topic} : T[t] = table[t]
      BY <1>1, <2>1, <2>3, TableElim, TableIntro DEF Put
    <2>5. f[type] # {}
      BY <1>3, <2>2
    <2>6. QED
      BY <2>2, <2>4, <2>5
  <1>4. CASE /\ ~(type \notin DOMAIN e \/ cb \notin e[type])
             /\ e[type] = {cb} /\ DOMAIN e # {type}
    <2> DEFINE f == Delete(e, type)
    <2>1. T = Put(table, topic, f)
      BY <1>4 DEF WithoutEntry
    <2>2. /\ DOMAIN f = DOMAIN e \ {type}
          /\ \A m \in DOMAIN e \ {type} : f[m] = e[m]
          /\ f \in [DOMAIN e \ {type} -> SUBSET Subscribers]
      BY <1>1, <1>4, EntryElim DEF Delete
    <2> HIDE DEF f
    <2>3. f \in Entry
      BY <1>1, <2>2, EntryElim, EntryIntro
    <2>4. /\ T \in Table
          /\ DOMAIN T = DOMAIN table
          /\ T[topic] = f
          /\ \A t \in DOMAIN table \ {topic} : T[t] = table[t]
      BY <1>1, <2>1, <2>3, TableElim, TableIntro DEF Put
    <2>5. DOMAIN f # {}
      BY <1>4, <2>2
    <2>6. QED
      BY <2>2, <2>4, <2>5
  <1>5. CASE /\ ~(type \notin DOMAIN e \/ cb \notin e[type])
             /\ e[type] = {cb} /\ DOMAIN e = {type}
    <2>1. T = Delete(table, topic)
      BY <1>5 DEF WithoutEntry
    <2>2. /\ T \in Table
          /\ DOMAIN T = DOMAIN table \ {topic}
          /\ \A t \in DOMAIN table \ {topic} : T[t] = table[t]
      BY <2>1, TableElim, TableIntro DEF Delete
    <2>3. QED
      BY <2>2
  <1>6. QED
    BY <1>2, <1>3, <1>4, <1>5

LEMMA RemoveSubscriptionConsistent ==
  ASSUME NEW c, Consistent(c), NEW topic, NEW type, NEW cb,
         IsRequest(topic, type, cb)
  PROVE  Consistent(RemoveSubscription(c, topic, type, cb))
  <1> DEFINE removed == IF cb = Explicit THEN c ELSE
                          [c EXCEPT !.callbacks = RemoveCallback(@, type, topic, cb)]
             table == c.subscriptions
             d == RemoveSubscription(c, topic, type, cb)
  <1>1. /\ c \in ClientType
        /\ table \in Table
        /\ topic \in Filters
        /\ type \in EntryTypes
        /\ cb = Explicit <=> type = Explicit
        /\ cb # Explicit => type \in MessageTypes /\ cb \in AllCallbacks
    BY Distinct DEF Consistent, ClientType, IsRequest, MessageTypes, AllCallbacks,
                    EntryTypes
  <1> HIDE DEF table
  <1>2. /\ removed \in ClientType
        /\ removed.subscriptions = table
        /\ removed.mqtt = c.mqtt
        /\ removed.mqttTopics = c.mqttTopics
        /\ cb = Explicit => removed.callbacks = c.callbacks
        /\ cb # Explicit =>
             \A m \in MessageTypes, t \in Filters :
               removed.callbacks[m][t] = IF m = type /\ t = topic
                                           THEN c.callbacks[m][t] \ {cb}
                                           ELSE c.callbacks[m][t]
    <2>1. CASE cb = Explicit
      BY <1>1, <2>1 DEF table
    <2>2. CASE cb # Explicit
      <3> DEFINE cbs == RemoveCallback(c.callbacks, type, topic, cb)
      <3>0. cbs = RemoveCallback(c.callbacks, type, topic, cb)
        OBVIOUS
      <3> HIDE DEF cbs
      <3>1. /\ cbs \in CallbackLists
            /\ \A m \in MessageTypes, t \in Filters :
                 cbs[m][t] = IF m = type /\ t = topic
                               THEN c.callbacks[m][t] \ {cb}
                               ELSE c.callbacks[m][t]
        BY <1>1, <2>2, <3>0, RemoveCallbackLemma, Z3
      <3>2. removed = [c EXCEPT !.callbacks = cbs]
        BY <2>2 DEF cbs
      <3> HIDE DEF removed
      <3>3. QED
        BY <1>1, <2>2, <3>1, <3>2 DEF ClientType, table
    <2>3. QED
      BY <2>1, <2>2
  <1>3. CASE topic = NoTopic \/ topic \notin DOMAIN table
    <2>1. d = removed
      BY <1>3 DEF RemoveSubscription, table
    <2> HIDE DEF d, removed
    <2>2. SubscribedIsRegistered(d)
      <3> SUFFICES ASSUME NEW t \in DOMAIN table, NEW m \in DOMAIN table[t]
                   PROVE  IF m = Explicit
                            THEN table[t][m] = {Explicit}
                            ELSE table[t][m] \subseteq removed.callbacks[m][t]
        BY <1>2, <2>1 DEF SubscribedIsRegistered
      <3>1. /\ t \in AllTopics /\ t \in Filters /\ t # topic /\ m \in EntryTypes
            /\ m # Explicit => m \in MessageTypes
        BY <1>1, <1>3, TableElim, EntryElim, Distinct
           DEF Filters, AllTopics, EntryTypes
      <3>2. IF m = Explicit THEN table[t][m] = {Explicit}
                            ELSE table[t][m] \subseteq c.callbacks[m][t]
        BY DEF Consistent, SubscribedIsRegistered, table
      <3>3. QED
        BY <1>2, <3>1, <3>2
    <2>3. QED
      BY <1>2, <2>1, <2>2 DEF Consistent, Mirrored, NoEmptyEntry, table, d
  <1>4. CASE topic # NoTopic /\ topic \in DOMAIN table
    <2> DEFINE T == IF cb = Explicit THEN Delete(table, topic)
                                     ELSE WithoutEntry(table, topic, type, cb)
    <2>1. d = RemoveFromTable(removed, topic, type, cb)
      BY <1>4 DEF RemoveSubscription, table
    <2> HIDE DEF d, removed
    <2>2. d = IF topic \in DOMAIN T
                THEN [removed EXCEPT !.subscriptions = T]
                ELSE MqttUnsubscribe([removed EXCEPT !.subscriptions = T], {topic})
      BY <1>2, <2>1 DEF RemoveFromTable
    <2> HIDE DEF T
    <2>3. Shrunk(T, table, topic, type, cb)
      <3>1. CASE cb = Explicit
        <4>1. topic \in AllTopics
          BY <1>1, <1>4 DEF Filters
        <4>2. /\ Delete(table, topic) \in Table
              /\ DOMAIN Delete(table, topic) = DOMAIN table \ {topic}
              /\ \A t \in DOMAIN table \ {topic} :
                   Delete(table, topic)[t] = table[t]
          BY <1>1, <4>1, DeleteTable
        <4>3. QED
          BY <1>4, <3>1, <4>2 DEF T, Shrunk
      <3>2. CASE cb # Explicit
        <4>1. /\ DOMAIN table[topic] # {}
              /\ \A m \in DOMAIN table[topic] : table[topic][m] # {}
          BY <1>4 DEF Consistent, NoEmptyEntry, table
        <4>2. T = WithoutEntry(table, topic, type, cb)
          BY <3>2 DEF T
        <4>3. QED
          BY <1>1, <1>4, <3>2, <4>1, <4>2, WithoutEntryLemma, Z3
      <3>3. QED
        BY <3>1, <3>2
    <2>4. /\ d \in ClientType
          /\ d.subscriptions = T
          /\ d.callbacks = removed.callbacks
          /\ d.mqtt = c.mqtt
          /\ d.mqttTopics = IF topic \notin DOMAIN T /\ c.mqtt = "open"
                              THEN c.mqttTopics \ {topic} ELSE c.mqttTopics
      BY <1>2, <2>2, <2>3 DEF ClientType, MqttUnsubscribe, Shrunk
    <2>5. Mirrored(d)
      <3>1. topic \in DOMAIN T => DOMAIN T = DOMAIN table
        BY <1>4, <2>3 DEF Shrunk
      <3>2. topic \notin DOMAIN T => DOMAIN T = DOMAIN table \ {topic}
        BY <1>4, <2>3 DEF Shrunk
      <3>3. c.mqttTopics = IF c.mqtt = "open" THEN DOMAIN table ELSE {}
        BY DEF Consistent, Mirrored, table
      <3>4. QED
        BY <2>4, <3>1, <3>2, <3>3 DEF Mirrored
    <2>6. NoEmptyEntry(d)
      BY <2>3, <2>4 DEF Consistent, NoEmptyEntry, table, Shrunk
    <2>7. SubscribedIsRegistered(d)
      <3> SUFFICES ASSUME NEW t \in DOMAIN T, NEW m \in DOMAIN T[t]
                   PROVE  IF m = Explicit
                            THEN T[t][m] = {Explicit}
                            ELSE T[t][m] \subseteq removed.callbacks[m][t]
        BY <2>4 DEF SubscribedIsRegistered
      <3>1. /\ t \in DOMAIN table /\ m \in DOMAIN table[t]
            /\ T[t][m] \subseteq table[t][m]
            /\ T[t][m] # {} \/ t # topic
            /\ t = topic /\ m = type => cb \notin T[t][m]
        BY <1>4, <2>3 DEF Shrunk
      <3>2. /\ t \in Filters /\ m \in EntryTypes
            /\ m # Explicit => m \in MessageTypes
        BY <1>1, <3>1, TableElim, EntryElim DEF Filters, EntryTypes
      <3>3. IF m = Explicit THEN table[t][m] = {Explicit}
                            ELSE table[t][m] \subseteq c.callbacks[m][t]
        BY <3>1 DEF Consistent, SubscribedIsRegistered, table
      <3>4. CASE m = Explicit
        BY <2>3, <3>1, <3>3, <3>4 DEF Shrunk
      <3>5. CASE m # Explicit /\ cb = Explicit
        BY <1>2, <3>1, <3>3, <3>5
      <3>6. CASE m # Explicit /\ cb # Explicit
        BY <1>2, <3>1, <3>2, <3>3, <3>6
      <3>7. QED
        BY <3>4, <3>5, <3>6
    <2>8. QED
      BY <2>4, <2>5, <2>6, <2>7 DEF Consistent, d
  <1>5. QED
    BY <1>3, <1>4

-----------------------------------------------------------------------------
(* The other operations, and the invariant *)

LEMMA NewClientConsistent == Consistent(NewClient)
  <1>1. NewClient.subscriptions = [t \in {} |-> t]
    BY DEF NewClient, EmptyMap
  <1>2. NewClient.subscriptions \in Table
    BY <1>1, TableIntro
  <1>3. NewClient \in ClientType
    BY <1>2 DEF NewClient, ClientType, CallbackLists
  <1>4. QED
    BY <1>1, <1>3 DEF Consistent, Mirrored, NoEmptyEntry, SubscribedIsRegistered,
                      NewClient

LEMMA EndMqttConsistent ==
  ASSUME NEW c, Consistent(c)
  PROVE  Consistent(EndMqtt(c)) /\ EndMqtt(c).mqtt # "open"
  BY DEF Consistent, ClientType, Mirrored, NoEmptyEntry, SubscribedIsRegistered,
         EndMqtt

LEMMA OpenMqttConsistent ==
  ASSUME NEW c, Consistent(c)
  PROVE  /\ Consistent(OpenMqtt(c))
         /\ OpenMqtt(c).mqtt = "open"
         /\ OpenMqtt(c).subscriptions = c.subscriptions
         /\ OpenMqtt(c).callbacks = c.callbacks
  <1> DEFINE d == OpenMqtt(c)
  <1>1. c.subscriptions \in Table /\ c \in ClientType
    BY DEF Consistent, ClientType
  <1>2. DOMAIN c.subscriptions \in SUBSET AllTopics
    BY <1>1, TableElim
  <1>3. /\ d \in ClientType
        /\ d.subscriptions = c.subscriptions
        /\ d.callbacks = c.callbacks
        /\ d.mqtt = "open"
        /\ d.mqttTopics = DOMAIN c.subscriptions
    BY <1>1, <1>2 DEF OpenMqtt, ClientType
  <1> HIDE DEF d
  <1>4. Consistent(d)
    BY <1>3 DEF Consistent, Mirrored, NoEmptyEntry, SubscribedIsRegistered
  <1>5. QED
    BY <1>3, <1>4 DEF d

LEMMA ClearedConsistent ==
  ASSUME NEW c, Consistent(c), NEW d, d = Cleared(c)
  PROVE  /\ Consistent(d)
         /\ d.subscriptions = NewClient.subscriptions
         /\ d.callbacks = NewClient.callbacks
         /\ d.mqtt = IF c.mqtt = "none" THEN "none" ELSE "ended"
         /\ d.mqttTopics = {}
         /\ \A m \in MessageTypes, t \in Filters : d.callbacks[m][t] = {}
  <1> DEFINE silent == MqttUnsubscribe(c, DOMAIN c.subscriptions)
             ended == EndMqtt(silent)
  <1>1. silent \in ClientType /\ c \in ClientType
    BY DEF Consistent, ClientType, MqttUnsubscribe
  <1>2. /\ ended \in ClientType
        /\ ended.mqtt = IF c.mqtt = "none" THEN "none" ELSE "ended"
        /\ ended.mqttTopics = {}
    BY <1>1 DEF Consistent, Mirrored, ClientType, EndMqtt, MqttUnsubscribe
  <1>3. d = [ended EXCEPT !.subscriptions = NewClient.subscriptions,
                          !.callbacks = NewClient.callbacks]
    BY DEF Cleared
  <1>4. /\ NewClient.subscriptions \in Table
        /\ DOMAIN NewClient.subscriptions = {}
        /\ NewClient.callbacks \in CallbackLists
        /\ \A m \in MessageTypes, t \in Filters : NewClient.callbacks[m][t] = {}
    BY NewClientConsistent DEF Consistent, ClientType, NewClient, EmptyMap
  <1> HIDE DEF ended
  <1>5. /\ d \in ClientType
        /\ d.subscriptions = NewClient.subscriptions
        /\ d.callbacks = NewClient.callbacks
        /\ d.mqtt = ended.mqtt
        /\ d.mqttTopics = {}
    BY <1>2, <1>3, <1>4 DEF ClientType
  <1>6. ended.mqtt # "open"
    BY <1>2
  <1>7. Consistent(d)
    BY <1>4, <1>5, <1>6 DEF Consistent, Mirrored, NoEmptyEntry, SubscribedIsRegistered
  <1>8. QED
    BY <1>2, <1>4, <1>5, <1>7

(* The tables a client starts with. *)
LEMMA FirstClientConsistent == Consistent(FirstClient)
  <1> DEFINE c1 == AddSubscription(NewClient, ReplyTo, "response", OnResponse, TRUE)
             c2 == AddSubscription(c1, ReplyTo, "error", OnResponse, TRUE)
             c3 == AddSubscription(c2, NoTopic, "request", Unavailable, TRUE)
  <1>1. FirstClient = c3
    BY DEF FirstClient, AddResponseSubscription
  <1>2. /\ IsRequest(ReplyTo, "response", OnResponse)
        /\ IsRequest(ReplyTo, "error", OnResponse)
        /\ IsRequest(NoTopic, "request", Unavailable)
    BY DEF IsRequest, Filters, AllTopics, AllCallbacks, MessageTypes
  <1> HIDE DEF c1, c2, c3
  <1>3. Consistent(c1)
    BY <1>2, NewClientConsistent, AddSubscriptionConsistent, Zenon DEF c1
  <1>4. Consistent(c2)
    BY <1>2, <1>3, AddSubscriptionConsistent, Zenon DEF c2
  <1>5. Consistent(c3)
    BY <1>2, <1>4, AddSubscriptionConsistent, Zenon DEF c3
  <1>6. QED
    BY <1>1, <1>5

-----------------------------------------------------------------------------
(* The lists of the table *)

LookUp(table, t, m) == IF t \in DOMAIN table THEN ListFor(table[t], m) ELSE {}
ListAt(c, t, m) == LookUp(c.subscriptions, t, m)

-----------------------------------------------------------------------------
(* addSubscription *)

LEMMA AddToTableLists ==
  ASSUME NEW c \in ClientType, NEW topic \in AllTopics, NEW type \in EntryTypes,
         NEW cb \in Subscribers, NEW d, d = AddToTable(c, topic, type, cb)
  PROVE  /\ d.callbacks = c.callbacks
         /\ d.mqtt = c.mqtt
         /\ \A t \in AllTopics, m \in EntryTypes :
              ListAt(d, t, m) = IF t = topic /\ m = type
                                  THEN ListAt(c, t, m) \cup {cb}
                                  ELSE ListAt(c, t, m)
  <1> DEFINE table == c.subscriptions
             old == IF topic \in DOMAIN table THEN table[topic] ELSE EmptyMap
             new == WithEntry(old, type, cb)
  <1>1. table \in Table
    BY DEF ClientType
  <1>2. /\ DOMAIN new = DOMAIN old \cup {type}
        /\ \A n \in DOMAIN old \cup {type} :
             new[n] = IF n = type THEN ListFor(old, type) \cup {cb} ELSE old[n]
    BY DEF new, WithEntry, Put
  <1>3. \A m : ListFor(new, m) = IF m = type THEN ListFor(old, m) \cup {cb}
                                              ELSE ListFor(old, m)
    <2> HIDE DEF new, old
    <2>1. QED
      BY <1>2 DEF ListFor
  <1>4. \A m : ListFor(old, m) = ListAt(c, topic, m)
    BY DEF ListAt, LookUp, ListFor, EmptyMap
  <1>5. /\ d.subscriptions = Put(table, topic, new)
        /\ d.callbacks = c.callbacks
        /\ d.mqtt = c.mqtt
    <2>1. CASE topic \in DOMAIN table
      <3>1. d = [c EXCEPT !.subscriptions = Put(table, topic, new)]
        BY <2>1, Zenon DEF AddToTable, new, old, table
      <3> HIDE DEF new, table
      <3>2. QED
        BY <3>1 DEF ClientType
    <2>2. CASE topic \notin DOMAIN table
      <3>1. d = [MqttSubscribe(c, topic) EXCEPT
                   !.subscriptions = Put(@, topic, new)]
        BY <2>2, Zenon DEF AddToTable, new, old, table
      <3> HIDE DEF new
      <3>2. QED
        BY <3>1 DEF ClientType, MqttSubscribe, table
    <2>3. QED
      BY <2>1, <2>2
  <1> HIDE DEF new, old, table
  <1>6. /\ DOMAIN d.subscriptions = DOMAIN table \cup {topic}
        /\ d.subscriptions[topic] = new
        /\ \A t \in DOMAIN table \ {topic} : d.subscriptions[t] = table[t]
    BY <1>5 DEF Put
  <1>7. QED
    BY <1>3, <1>4, <1>5, <1>6 DEF ListAt, LookUp, table

(* The callback is added to the list of its message type and topic, and to *)
(* the list of the table if it subscribes the topic.                       *)
LEMMA AddSubscriptionLists ==
  ASSUME NEW c \in ClientType, NEW topic, NEW type, NEW cb,
         IsRequest(topic, type, cb), NEW subscribeToTopic \in BOOLEAN,
         NEW d, d = AddSubscription(c, topic, type, cb, subscribeToTopic)
  PROVE  /\ d.mqtt = c.mqtt
         /\ \A m \in MessageTypes, t \in Filters :
              d.callbacks[m][t] = IF m = type /\ t = topic
                                    THEN c.callbacks[m][t] \cup {cb}
                                    ELSE c.callbacks[m][t]
         /\ \A t \in AllTopics, m \in EntryTypes :
              ListAt(d, t, m) = IF subscribeToTopic /\ t = topic /\ m = type
                                  THEN ListAt(c, t, m) \cup {cb}
                                  ELSE ListAt(c, t, m)
  <1> DEFINE added == IF cb = Explicit THEN c ELSE
                        [c EXCEPT !.callbacks = AddCallback(@, type, topic, cb)]
  <1>1. /\ topic \in Filters
        /\ type \in EntryTypes /\ cb \in Subscribers
        /\ cb = Explicit => type = Explicit
        /\ cb # Explicit => type \in MessageTypes /\ cb \in AllCallbacks
        /\ Explicit \notin MessageTypes
        /\ NoTopic \notin AllTopics
    BY Distinct DEF IsRequest, AllCallbacks, Subscribers, EntryTypes, MessageTypes,
                    AllTopics
  <1>2. /\ added \in ClientType
        /\ added.subscriptions = c.subscriptions
        /\ added.mqtt = c.mqtt
        /\ \A m \in MessageTypes, t \in Filters :
             added.callbacks[m][t] = IF m = type /\ t = topic
                                       THEN c.callbacks[m][t] \cup {cb}
                                       ELSE c.callbacks[m][t]
    <2>1. CASE cb = Explicit
      BY <1>1, <2>1
    <2>2. CASE cb # Explicit
      <3> DEFINE cbs == AddCallback(c.callbacks, type, topic, cb)
      <3>0. cbs = AddCallback(c.callbacks, type, topic, cb)
        OBVIOUS
      <3>1. added = [c EXCEPT !.callbacks = cbs]
        BY <2>2
      <3>2. type \in MessageTypes /\ cb \in AllCallbacks
        BY <1>1, <2>2
      <3> HIDE DEF cbs, added
      <3>3. /\ cbs \in CallbackLists
            /\ \A m \in MessageTypes, t \in Filters :
                 cbs[m][t] = IF m = type /\ t = topic
                               THEN c.callbacks[m][t] \cup {cb}
                               ELSE c.callbacks[m][t]
        <4>1. /\ c \in ClientType
              /\ type \in MessageTypes
              /\ topic \in Filters
              /\ cb \in AllCallbacks
          BY <1>1, <3>2
        <4>2. QED
          BY <3>0, <4>1, AddCallbackLemma, Z3
      <3>4. QED
        BY <3>1, <3>3 DEF ClientType
    <2>3. QED
      BY <2>1, <2>2
  <1>3. d = IF subscribeToTopic /\ topic # NoTopic
              THEN AddToTable(added, topic, type, cb) ELSE added
    BY DEF AddSubscription
  <1>4. \A t, m : ListAt(added, t, m) = ListAt(c, t, m)
    BY <1>2 DEF ListAt, LookUp
  <1> HIDE DEF added
  <1>5. CASE subscribeToTopic /\ topic # NoTopic
    <2>1. topic \in AllTopics
      BY <1>1, <1>5 DEF Filters
    <2>2. d = AddToTable(added, topic, type, cb)
      BY <1>3, <1>5
    <2>3. /\ d.callbacks = added.callbacks
          /\ d.mqtt = added.mqtt
          /\ \A t \in AllTopics, m \in EntryTypes :
               ListAt(d, t, m) = IF t = topic /\ m = type
                                   THEN ListAt(added, t, m) \cup {cb}
                                   ELSE ListAt(added, t, m)
      <3>1. /\ added \in ClientType
            /\ type \in EntryTypes
            /\ cb \in Subscribers
        BY <1>1, <1>2
      <3>2. QED
        BY <2>1, <2>2, <3>1, AddToTableLists, Z3
    <2>4. QED
      BY <1>2, <1>4, <1>5, <2>3
  <1>6. CASE ~(subscribeToTopic /\ topic # NoTopic)
    BY <1>1, <1>2, <1>3, <1>4, <1>6
  <1>7. QED
    BY <1>5, <1>6

-----------------------------------------------------------------------------
(* removeSubscription *)

(* Which of the four branches is taken makes no difference to the lists.   *)
LEMMA WithoutEntryLists ==
  ASSUME NEW table \in Table, NEW topic \in DOMAIN table, NEW type, NEW cb,
         NEW T, T = WithoutEntry(table, topic, type, cb)
  PROVE  \A t, m : LookUp(T, t, m) = IF t = topic /\ m = type
                                       THEN LookUp(table, t, m) \ {cb}
                                       ELSE LookUp(table, t, m)
  <1> DEFINE e == table[topic]
  <1>1. CASE type \notin DOMAIN e \/ cb \notin e[type]
    <2>1. T = table
      BY <1>1 DEF WithoutEntry
    <2>2. cb \notin ListFor(e, type)
      BY <1>1 DEF ListFor
    <2>3. QED
      BY <2>1, <2>2 DEF LookUp
  <1>2. CASE ~(type \notin DOMAIN e \/ cb \notin e[type]) /\ e[type] # {cb}
    <2> DEFINE f == Put(e, type, e[type] \ {cb})
    <2>1. T = Put(table, topic, f)
      BY <1>2 DEF WithoutEntry
    <2>2. \A m : ListFor(f, m) = IF m = type THEN ListFor(e, m) \ {cb}
                                              ELSE ListFor(e, m)
      BY <1>2 DEF ListFor, Put
    <2> HIDE DEF f
    <2>3. QED
      BY <2>1, <2>2 DEF LookUp, Put
  <1>3. CASE /\ ~(type \notin DOMAIN e \/ cb \notin e[type])
             /\ e[type] = {cb} /\ DOMAIN e # {type}
    <2> DEFINE f == Delete(e, type)
    <2>1. T = Put(table, topic, f)
      BY <1>3 DEF WithoutEntry
    <2>2. \A m : ListFor(f, m) = IF m = type THEN ListFor(e, m) \ {cb}
                                              ELSE ListFor(e, m)
      BY <1>3 DEF ListFor, Delete
    <2> HIDE DEF f
    <2>3. QED
      BY <2>1, <2>2 DEF LookUp, Put
  <1>4. CASE /\ ~(type \notin DOMAIN e \/ cb \notin e[type])
             /\ e[type] = {cb} /\ DOMAIN e = {type}
    <2>1. T = Delete(table, topic)
      BY <1>4 DEF WithoutEntry
    <2>2. \A m : ListFor(e, m) = IF m = type THEN {cb} ELSE {}
      BY <1>4 DEF ListFor
    <2>3. QED
      BY <2>1, <2>2 DEF LookUp, Delete
  <1>5. QED
    BY <1>1, <1>2, <1>3, <1>4

(* unsubscribe() empties every list of its topic, any other removal takes  *)
(* one callback from one list.                                             *)
LEMMA RemoveSubscriptionLists ==
  ASSUME NEW c \in ClientType, NEW topic, NEW type, NEW cb,
         IsRequest(topic, type, cb),
         NEW d, d = RemoveSubscription(c, topic, type, cb)
  PROVE  /\ d.mqtt = c.mqtt
         /\ \A m \in MessageTypes, t \in Filters :
              d.callbacks[m][t] = IF m = type /\ t = topic
                                    THEN c.callbacks[m][t] \ {cb}
                                    ELSE c.callbacks[m][t]
         /\ \A t \in AllTopics, m \in EntryTypes :
              ListAt(d, t, m) =
                IF t = topic /\ cb = Explicit THEN {}
                ELSE IF t = topic /\ m = type THEN ListAt(c, t, m) \ {cb}
                ELSE ListAt(c, t, m)
  <1> DEFINE removed == IF cb = Explicit THEN c ELSE
                          [c EXCEPT !.callbacks = RemoveCallback(@, type, topic, cb)]
             table == c.subscriptions
             T == IF cb = Explicit THEN Delete(table, topic)
                                   ELSE WithoutEntry(table, topic, type, cb)
  <1>1. /\ topic \in Filters
        /\ type \in EntryTypes
        /\ cb = Explicit => type = Explicit
        /\ cb # Explicit => type \in MessageTypes /\ cb \in AllCallbacks
        /\ Explicit \notin MessageTypes
        /\ NoTopic \notin AllTopics
        /\ table \in Table
    BY Distinct DEF IsRequest, AllCallbacks, EntryTypes, MessageTypes, AllTopics,
                    ClientType
  <1>2. /\ removed \in ClientType
        /\ removed.subscriptions = table
        /\ removed.mqtt = c.mqtt
        /\ \A m \in MessageTypes, t \in Filters :
             removed.callbacks[m][t] = IF m = type /\ t = topic
                                         THEN c.callbacks[m][t] \ {cb}
                                         ELSE c.callbacks[m][t]
    <2>1. CASE cb = Explicit
      BY <1>1, <2>1
    <2>2. CASE cb # Explicit
      <3> DEFINE cbs == RemoveCallback(c.callbacks, type, topic, cb)
      <3>0. cbs = RemoveCallback(c.callbacks, type, topic, cb)
        OBVIOUS
      <3>2. removed = [c EXCEPT !.callbacks = cbs]
        BY <2>2
      <3>4. type \in MessageTypes /\ topic \in Filters /\ cb \in AllCallbacks
        BY <1>1, <2>2
      <3> HIDE DEF cbs, removed, T, table
      <3>1. /\ cbs \in CallbackLists
            /\ \A m \in MessageTypes, t \in Filters :
                 cbs[m][t] = IF m = type /\ t = topic
                               THEN c.callbacks[m][t] \ {cb}
                               ELSE c.callbacks[m][t]
        <4>1. cbs \in CallbackLists
          BY <3>0, <3>4, RemoveCallbackLemma, ZenonT(30)
        <4>2. ASSUME NEW m \in MessageTypes, NEW t \in Filters
              PROVE  cbs[m][t] = IF m = type /\ t = topic
                                   THEN c.callbacks[m][t] \ {cb}
                                   ELSE c.callbacks[m][t]
          <5> DEFINE old == c.callbacks
                     row == [old[type] EXCEPT ![topic] = @ \ {cb}]
          <5>1. /\ old \in [MessageTypes -> [Filters -> SUBSET AllCallbacks]]
                /\ old[type] \in [Filters -> SUBSET AllCallbacks]
            BY <3>4 DEF ClientType, CallbackLists
          <5>2. cbs = [old EXCEPT ![type] = row]
            BY <3>0, Zenon DEF RemoveCallback
          <5>3. row[t] = IF t = topic THEN old[type][t] \ {cb} ELSE old[type][t]
            BY <5>1
          <5> HIDE DEF row, old
          <5>4. cbs[m] = IF m = type THEN row ELSE old[m]
            BY <5>1, <5>2
          <5>5. QED
            BY <5>3, <5>4 DEF old
        <4>3. QED
          BY <4>1, <4>2
      <3>3. QED
        BY <3>1, <3>2 DEF ClientType, table
    <2>3. QED
      BY <2>1, <2>2
  <1>3. CASE topic = NoTopic \/ topic \notin DOMAIN table
    <2>1. d = removed
      BY <1>3 DEF RemoveSubscription
    <2>2. \A t \in AllTopics : t = topic => \A m : ListAt(c, t, m) = {}
      BY <1>1, <1>3 DEF ListAt, LookUp
    <2> HIDE DEF removed
    <2>3. \A t, m : ListAt(d, t, m) = ListAt(c, t, m)
      BY <1>2, <2>1 DEF ListAt
    <2>4. QED
      BY <1>2, <2>1, <2>2, <2>3
  <1>4. CASE topic # NoTopic /\ topic \in DOMAIN table
    <2>1. d = RemoveFromTable(removed, topic, type, cb)
      BY <1>4 DEF RemoveSubscription
    <2> HIDE DEF removed
    <2>2. d = IF topic \in DOMAIN T
                THEN [removed EXCEPT !.subscriptions = T]
                ELSE MqttUnsubscribe([removed EXCEPT !.subscriptions = T], {topic})
      BY <1>2, <2>1 DEF RemoveFromTable
    <2> HIDE DEF T
    <2>3. /\ d.subscriptions = T
          /\ d.callbacks = removed.callbacks
          /\ d.mqtt = c.mqtt
      BY <1>2, <2>2 DEF ClientType, MqttUnsubscribe
    <2>4. \A t, m : LookUp(T, t, m) =
                      IF t = topic /\ cb = Explicit THEN {}
                      ELSE IF t = topic /\ m = type THEN LookUp(table, t, m) \ {cb}
                      ELSE LookUp(table, t, m)
      <3>1. CASE cb = Explicit
        BY <3>1 DEF T, LookUp, Delete
      <3>2. CASE cb # Explicit
        <4>1. T = WithoutEntry(table, topic, type, cb)
          BY <3>2 DEF T
        <4>2. table \in Table /\ topic \in DOMAIN table
          BY <1>1, <1>4
        <4> HIDE DEF table
        <4>3. \A t, m : LookUp(T, t, m) = IF t = topic /\ m = type
                                            THEN LookUp(table, t, m) \ {cb}
                                            ELSE LookUp(table, t, m)
          BY <4>1, <4>2, WithoutEntryLists
        <4>4. QED
          BY <3>2, <4>3
      <3>3. QED
        BY <3>1, <3>2
    <2>5. QED
      BY <1>2, <2>3, <2>4 DEF ListAt
  <1>5. QED
    BY <1>3, <1>4

(* An open MQTT client is subscribed to the topics with a list that is not *)
(* empty.                                                                  *)
LEMMA ListenedTopics ==
  ASSUME NEW c, Consistent(c)
  PROVE  /\ c.mqttTopics \subseteq AllTopics
         /\ \A t \in AllTopics :
              t \in c.mqttTopics
                <=> c.mqtt = "open" /\ \E m \in EntryTypes : ListAt(c, t, m) # {}
  <1>1. c.subscriptions \in Table /\ c.mqttTopics \subseteq AllTopics
    BY DEF Consistent, ClientType
  <1>2. ASSUME NEW t \in DOMAIN c.subscriptions
        PROVE  \E m \in EntryTypes : ListAt(c, t, m) # {}
    <2>1. c.subscriptions[t] \in Entry
      BY <1>1, TableElim
    <2>2. PICK m \in DOMAIN c.subscriptions[t] : TRUE
      BY DEF Consistent, NoEmptyEntry
    <2>3. m \in EntryTypes /\ ListAt(c, t, m) # {}
      BY <2>1, <2>2, EntryElim DEF ListAt, LookUp, ListFor, Consistent, NoEmptyEntry
    <2>4. QED
      BY <2>3
  <1>3. ASSUME NEW t, t \notin DOMAIN c.subscriptions, NEW m
        PROVE  ListAt(c, t, m) = {}
    BY <1>3 DEF ListAt, LookUp
  <1>4. QED
    BY <1>1, <1>2, <1>3 DEF Consistent, Mirrored

-----------------------------------------------------------------------------
(* Module Subscriptions: its invariants, and that it implements            *)
(* TopicInterest, where the tables are seen as the sets they stand for.    *)

IInv ==
    /\ Consistent(client)
    /\ destroyed \in BOOLEAN
    /\ DestroyedInv

(* Whatever the order of the calls, the invariant of the tables holds.     *)
LEMMA InitIInv == Init => IInv
  BY FirstClientConsistent DEF Init, IInv, DestroyedInv

LEMMA NextIInv == IInv /\ [Next]_vars => IInv'
  <1> SUFFICES ASSUME IInv, [Next]_vars PROVE IInv'
    OBVIOUS
  <1>0. Consistent(client)
    BY DEF IInv
  <1>1. ASSUME Usable, Consistent(client') PROVE IInv'
    BY <1>1 DEF IInv, Usable, DestroyedInv
  <1>2. ASSUME NEW topic \in Topics \cup {NoTopic}, NEW type \in MessageTypes,
               NEW cb \in Callbacks
        PROVE  IsRequest(topic, type, cb)
    BY DEF IsRequest, Filters, AllTopics, AllCallbacks
  <1>3. ASSUME NEW topic \in Topics PROVE IsRequest(topic, Explicit, Explicit)
    BY Distinct DEF IsRequest, Filters, AllTopics
  <1>4. {"event", "request", "response", "error"} \subseteq MessageTypes
    BY DEF MessageTypes
  <1>5. ASSUME NEW topic \in Topics \cup {NoTopic}, NEW cb \in Callbacks,
               NEW subscribeToTopic \in BOOLEAN,
               \/ AddEventCallback(topic, cb, subscribeToTopic)
               \/ AddRequestCallback(topic, cb, subscribeToTopic)
               \/ AddResponseCallback(topic, cb, subscribeToTopic)
        PROVE  IInv'
    <2>1. CASE AddEventCallback(topic, cb, subscribeToTopic)
      <3>1. IsRequest(topic, "event", cb)
        BY <1>2, <1>4
      <3>2. Consistent(AddSubscription(client, topic, "event", cb, subscribeToTopic))
        BY <1>0, <3>1, AddSubscriptionConsistent, Zenon
      <3>3. QED
        BY <1>1, <2>1, <3>2 DEF AddEventCallback
    <2>2. CASE AddRequestCallback(topic, cb, subscribeToTopic)
      <3>1. IsRequest(topic, "request", cb)
        BY <1>2, <1>4
      <3>2. Consistent(AddSubscription(client, topic, "request", cb, subscribeToTopic))
        BY <1>0, <3>1, AddSubscriptionConsistent, Zenon
      <3>3. QED
        BY <1>1, <2>2, <3>2 DEF AddRequestCallback
    <2>3. CASE AddResponseCallback(topic, cb, subscribeToTopic)
      <3>1. IsRequest(topic, "response", cb) /\ IsRequest(topic, "error", cb)
        BY <1>2, <1>4
      <3>2. Consistent(AddResponseSubscription(client, topic, cb, subscribeToTopic))
        BY <1>0, <3>1, AddSubscriptionConsistent, Zenon DEF AddResponseSubscription
      <3>3. QED
        BY <1>1, <2>3, <3>2 DEF AddResponseCallback
    <2>4. QED
      BY <1>5, <2>1, <2>2, <2>3
  <1>6. ASSUME NEW topic \in Topics \cup {NoTopic}, NEW cb \in Callbacks,
               \/ RemoveEventCallback(topic, cb)
               \/ RemoveRequestCallback(topic, cb)
               \/ RemoveResponseCallback(topic, cb)
        PROVE  IInv'
    <2>1. CASE RemoveEventCallback(topic, cb)
      <3>1. IsRequest(topic, "event", cb)
        BY <1>2, <1>4
      <3>2. Consistent(RemoveSubscription(client, topic, "event", cb))
        BY <1>0, <3>1, RemoveSubscriptionConsistent, Zenon
      <3>3. QED
        BY <1>1, <2>1, <3>2 DEF RemoveEventCallback
    <2>2. CASE RemoveRequestCallback(topic, cb)
      <3>1. IsRequest(topic, "request", cb)
        BY <1>2, <1>4
      <3>2. Consistent(RemoveSubscription(client, topic, "request", cb))
        BY <1>0, <3>1, RemoveSubscriptionConsistent, Zenon
      <3>3. QED
        BY <1>1, <2>2, <3>2 DEF RemoveRequestCallback
    <2>3. CASE RemoveResponseCallback(topic, cb)
      <3>1. IsRequest(topic, "response", cb) /\ IsRequest(topic, "error", cb)
        BY <1>2, <1>4
      <3>2. Consistent(RemoveResponseSubscription(client, topic, cb))
        BY <1>0, <3>1, RemoveSubscriptionConsistent, Zenon
           DEF RemoveResponseSubscription
      <3>3. QED
        BY <1>1, <2>3, <3>2 DEF RemoveResponseCallback
    <2>4. QED
      BY <1>6, <2>1, <2>2, <2>3
  <1>7. ASSUME NEW topic \in Topics, Subscribe(topic) \/ Unsubscribe(topic)
        PROVE  IInv'
    <2>1. CASE Subscribe(topic)
      <3>1. IsRequest(topic, Explicit, Explicit)
        BY <1>3
      <3>2. Consistent(AddSubscription(client, topic, Explicit, Explicit, TRUE))
        BY <1>0, <3>1, AddSubscriptionConsistent, Zenon
      <3>3. QED
        BY <1>1, <2>1, <3>2 DEF Subscribe
    <2>2. CASE Unsubscribe(topic)
      <3>1. IsRequest(topic, Explicit, Explicit)
        BY <1>3
      <3>2. Consistent(RemoveSubscription(client, topic, Explicit, Explicit))
        BY <1>0, <3>1, RemoveSubscriptionConsistent, Zenon
      <3>3. QED
        BY <1>1, <2>2, <3>2 DEF Unsubscribe
    <2>3. QED
      BY <1>7, <2>1, <2>2
  <1>8. CASE Connect
    BY <1>0, <1>1, <1>8, OpenMqttConsistent DEF Connect
  <1>9. CASE Disconnect
    BY <1>0, <1>1, <1>9, EndMqttConsistent DEF Disconnect
  <1>10. CASE Destroy
    <2>1. client' = Cleared(client)
      BY <1>10 DEF Destroy
    <2>2. /\ Consistent(client')
          /\ client'.mqtt # "open"
          /\ client'.mqttTopics = {}
          /\ \A m \in MessageTypes, t \in Filters : client'.callbacks[m][t] = {}
      BY <1>0, <2>1, ClearedConsistent
    <2>3. QED
      BY <1>10, <2>2 DEF Destroy, IInv, DestroyedInv
  <1>11. CASE UNCHANGED vars
    BY <1>11 DEF vars, IInv, DestroyedInv
  <1>12. QED
    BY <1>5, <1>6, <1>7, <1>8, <1>9, <1>10, <1>11 DEF Next

(* However callbacks and subscriptions are added and removed, and whenever *)
(* the client connects, disconnects or is destroyed, the tables of the     *)
(* client keep the types client.js documents.                              *)
THEOREM TypeCorrect == Spec => []TypeOK
  <1>1. IInv => TypeOK
    <2> SUFFICES ASSUME IInv PROVE TypeOK
      OBVIOUS
    <2>1. client \in ClientType /\ client.subscriptions \in Table
      BY DEF IInv, Consistent, ClientType
    <2>2. ASSUME NEW t \in DOMAIN client.subscriptions
          PROVE  \E types \in SUBSET EntryTypes :
                   client.subscriptions[t] \in [types -> SUBSET Subscribers]
      <3>1. client.subscriptions[t] \in Entry
        BY <2>1, TableElim
      <3>2. PICK f \in {[types -> SUBSET Subscribers] : types \in SUBSET EntryTypes} :
              client.subscriptions[t] \in f
        BY <3>1, Zenon DEF Entry
      <3>3. QED
        BY <3>2, Zenon
    <2>3. QED
      BY <2>1, <2>2, TableElim DEF IInv, ClientType, TypeOK
  <1>2. QED
    BY InitIInv, NextIInv, <1>1, PTL DEF Spec

(* The MQTT client is subscribed to exactly the topics of the table.       *)
THEOREM SubscriptionsMirrored == Spec => []MirrorInv
  <1>1. IInv => MirrorInv
    BY DEF IInv, Consistent, MirrorInv
  <1>2. QED
    BY InitIInv, NextIInv, <1>1, PTL DEF Spec

(* Removal never leaves an empty list, message type or topic behind, and   *)
(* so a topic goes from the table with its last callback.                  *)
THEOREM NothingLeftEmpty == Spec => []NoEmptyEntryInv
  <1>1. IInv => NoEmptyEntryInv
    BY DEF IInv, Consistent, NoEmptyEntryInv
  <1>2. QED
    BY InitIInv, NextIInv, <1>1, PTL DEF Spec

(* Every callback that keeps a topic subscribed is one messages reach.     *)
THEOREM SubscribedCallbacksReachable == Spec => []SubscribedIsRegisteredInv
  <1>1. IInv => SubscribedIsRegisteredInv
    BY DEF IInv, Consistent, SubscribedIsRegisteredInv
  <1>2. QED
    BY InitIInv, NextIInv, <1>1, PTL DEF Spec

(* destroy() leaves no subscription and no callback behind.                *)
THEOREM DestroyReleases == Spec => []DestroyedInv
  <1>1. IInv => DestroyedInv
    BY DEF IInv
  <1>2. QED
    BY InitIInv, NextIInv, <1>1, PTL DEF Spec

-----------------------------------------------------------------------------
(* Responses and errors stay together *)

(* ErrorPairInv over lists: no entry is empty, so that equal lists mean    *)
(* equal keys as well.                                                     *)
Paired(c) ==
    /\ \A t \in Filters : c.callbacks["response"][t] = c.callbacks["error"][t]
    /\ \A t \in AllTopics : ListAt(c, t, "response") = ListAt(c, t, "error")

LEMMA PairedErrorPair ==
  ASSUME NEW c, Consistent(c), Paired(c)
  PROVE  ErrorPair(c)
  <1>1. c.callbacks \in CallbackLists
    BY DEF Consistent, ClientType
  <1>2. c.callbacks["response"] = c.callbacks["error"]
    <2>1. /\ c.callbacks["response"] \in [Filters -> SUBSET AllCallbacks]
          /\ c.callbacks["error"] \in [Filters -> SUBSET AllCallbacks]
      BY <1>1 DEF CallbackLists, MessageTypes
    <2>2. QED
      BY <2>1 DEF Paired
  <1>3. ASSUME NEW t \in DOMAIN c.subscriptions
        PROVE  LET byType == c.subscriptions[t]
               IN  /\ "response" \in DOMAIN byType <=> "error" \in DOMAIN byType
                   /\ "response" \in DOMAIN byType =>
                        byType["response"] = byType["error"]
    <2>1. t \in AllTopics
      BY TableElim DEF Consistent, ClientType
    <2>2. ListFor(c.subscriptions[t], "response") = ListFor(c.subscriptions[t], "error")
      BY <2>1 DEF Paired, ListAt, LookUp
    <2>3. \A m \in DOMAIN c.subscriptions[t] : c.subscriptions[t][m] # {}
      BY DEF Consistent, NoEmptyEntry
    <2>4. QED
      BY <2>2, <2>3 DEF ListFor
  <1>4. QED
    BY <1>2, <1>3 DEF ErrorPair

LEMMA AddOtherPaired ==
  ASSUME NEW c, Consistent(c), Paired(c), NEW topic, NEW type, NEW cb,
         IsRequest(topic, type, cb), NEW subscribeToTopic \in BOOLEAN,
         type \notin {"response", "error"}
  PROVE  Paired(AddSubscription(c, topic, type, cb, subscribeToTopic))
  <1> DEFINE d == AddSubscription(c, topic, type, cb, subscribeToTopic)
  <1>1. d = AddSubscription(c, topic, type, cb, subscribeToTopic)
    OBVIOUS
  <1>2. c \in ClientType
    BY DEF Consistent
  <1>3. {"response", "error"} \subseteq MessageTypes \cap EntryTypes
    BY DEF MessageTypes, EntryTypes
  <1> HIDE DEF d
  <1>4. /\ \A m \in MessageTypes, t \in Filters :
             d.callbacks[m][t] = IF m = type /\ t = topic
                                   THEN c.callbacks[m][t] \cup {cb}
                                   ELSE c.callbacks[m][t]
        /\ \A t \in AllTopics, m \in EntryTypes :
             ListAt(d, t, m) = IF subscribeToTopic /\ t = topic /\ m = type
                                 THEN ListAt(c, t, m) \cup {cb}
                                 ELSE ListAt(c, t, m)
    BY <1>1, <1>2, AddSubscriptionLists, Z3
  <1>5. Paired(d)
    BY <1>3, <1>4 DEF Paired
  <1>6. QED
    BY <1>1, <1>5

LEMMA AddResponsePaired ==
  ASSUME NEW c, Consistent(c), Paired(c), NEW topic, NEW cb,
         IsRequest(topic, "response", cb), IsRequest(topic, "error", cb),
         NEW subscribeToTopic \in BOOLEAN
  PROVE  Paired(AddResponseSubscription(c, topic, cb, subscribeToTopic))
  <1> DEFINE c1 == AddSubscription(c, topic, "response", cb, subscribeToTopic)
             c2 == AddSubscription(c1, topic, "error", cb, subscribeToTopic)
  <1>1. /\ c1 = AddSubscription(c, topic, "response", cb, subscribeToTopic)
        /\ c2 = AddSubscription(c1, topic, "error", cb, subscribeToTopic)
        /\ c2 = AddResponseSubscription(c, topic, cb, subscribeToTopic)
    BY DEF AddResponseSubscription
  <1>2. c \in ClientType /\ c1 \in ClientType
    BY AddSubscriptionConsistent, Zenon DEF Consistent
  <1>3. {"response", "error"} \subseteq MessageTypes \cap EntryTypes
    BY DEF MessageTypes, EntryTypes
  <1> HIDE DEF c1, c2
  <1>4. /\ \A m \in MessageTypes, t \in Filters :
             c1.callbacks[m][t] = IF m = "response" /\ t = topic
                                    THEN c.callbacks[m][t] \cup {cb}
                                    ELSE c.callbacks[m][t]
        /\ \A t \in AllTopics, m \in EntryTypes :
             ListAt(c1, t, m) = IF subscribeToTopic /\ t = topic /\ m = "response"
                                  THEN ListAt(c, t, m) \cup {cb}
                                  ELSE ListAt(c, t, m)
    BY <1>1, <1>2, AddSubscriptionLists, Z3
  <1>5. /\ \A m \in MessageTypes, t \in Filters :
             c2.callbacks[m][t] = IF m = "error" /\ t = topic
                                    THEN c1.callbacks[m][t] \cup {cb}
                                    ELSE c1.callbacks[m][t]
        /\ \A t \in AllTopics, m \in EntryTypes :
             ListAt(c2, t, m) = IF subscribeToTopic /\ t = topic /\ m = "error"
                                  THEN ListAt(c1, t, m) \cup {cb}
                                  ELSE ListAt(c1, t, m)
    BY <1>1, <1>2, AddSubscriptionLists, Z3
  <1>6. ASSUME NEW t \in Filters
        PROVE  c2.callbacks["response"][t] = c2.callbacks["error"][t]
    <2>1. c.callbacks["response"][t] = c.callbacks["error"][t]
      BY DEF Paired
    <2>2. \A m \in {"response", "error"} :
            c2.callbacks[m][t] = IF t = topic THEN c.callbacks[m][t] \cup {cb}
                                              ELSE c.callbacks[m][t]
      BY <1>3, <1>4, <1>5
    <2>3. QED
      BY <2>1, <2>2
  <1>7. ASSUME NEW t \in AllTopics
        PROVE  ListAt(c2, t, "response") = ListAt(c2, t, "error")
    <2>1. ListAt(c, t, "response") = ListAt(c, t, "error")
      BY DEF Paired
    <2>2. \A m \in {"response", "error"} :
            ListAt(c2, t, m) = IF subscribeToTopic /\ t = topic
                                 THEN ListAt(c, t, m) \cup {cb}
                                 ELSE ListAt(c, t, m)
      BY <1>3, <1>4, <1>5
    <2>3. QED
      BY <2>1, <2>2
  <1>8. QED
    BY <1>1, <1>6, <1>7 DEF Paired

LEMMA RemoveOtherPaired ==
  ASSUME NEW c, Consistent(c), Paired(c), NEW topic, NEW type, NEW cb,
         IsRequest(topic, type, cb), type \notin {"response", "error"}
  PROVE  Paired(RemoveSubscription(c, topic, type, cb))
  <1> DEFINE d == RemoveSubscription(c, topic, type, cb)
  <1>1. d = RemoveSubscription(c, topic, type, cb)
    OBVIOUS
  <1>2. c \in ClientType
    BY DEF Consistent
  <1>3. {"response", "error"} \subseteq MessageTypes \cap EntryTypes
    BY DEF MessageTypes, EntryTypes
  <1> HIDE DEF d
  <1>4. /\ \A m \in MessageTypes, t \in Filters :
             d.callbacks[m][t] = IF m = type /\ t = topic
                                   THEN c.callbacks[m][t] \ {cb}
                                   ELSE c.callbacks[m][t]
        /\ \A t \in AllTopics, m \in EntryTypes :
             ListAt(d, t, m) = IF t = topic /\ cb = Explicit THEN {}
                               ELSE IF t = topic /\ m = type
                                 THEN ListAt(c, t, m) \ {cb}
                               ELSE ListAt(c, t, m)
    BY <1>1, <1>2, RemoveSubscriptionLists, Z3
  <1>5. Paired(d)
    BY <1>3, <1>4 DEF Paired
  <1>6. QED
    BY <1>1, <1>5

LEMMA RemoveResponsePaired ==
  ASSUME NEW c, Consistent(c), Paired(c), NEW topic, NEW cb,
         IsRequest(topic, "response", cb), IsRequest(topic, "error", cb)
  PROVE  Paired(RemoveResponseSubscription(c, topic, cb))
  <1> DEFINE c1 == RemoveSubscription(c, topic, "response", cb)
             c2 == RemoveSubscription(c1, topic, "error", cb)
  <1>1. /\ c1 = RemoveSubscription(c, topic, "response", cb)
        /\ c2 = RemoveSubscription(c1, topic, "error", cb)
        /\ c2 = RemoveResponseSubscription(c, topic, cb)
    BY DEF RemoveResponseSubscription
  <1>2. c \in ClientType /\ c1 \in ClientType
    BY RemoveSubscriptionConsistent, Zenon DEF Consistent
  <1>3. {"response", "error"} \subseteq MessageTypes \cap EntryTypes
    BY DEF MessageTypes, EntryTypes
  <1> HIDE DEF c1, c2
  <1>4. /\ \A m \in MessageTypes, t \in Filters :
             c1.callbacks[m][t] = IF m = "response" /\ t = topic
                                    THEN c.callbacks[m][t] \ {cb}
                                    ELSE c.callbacks[m][t]
        /\ \A t \in AllTopics, m \in EntryTypes :
             ListAt(c1, t, m) = IF t = topic /\ cb = Explicit THEN {}
                                ELSE IF t = topic /\ m = "response"
                                  THEN ListAt(c, t, m) \ {cb}
                                ELSE ListAt(c, t, m)
    BY <1>1, <1>2, RemoveSubscriptionLists, Z3
  <1>5. /\ \A m \in MessageTypes, t \in Filters :
             c2.callbacks[m][t] = IF m = "error" /\ t = topic
                                    THEN c1.callbacks[m][t] \ {cb}
                                    ELSE c1.callbacks[m][t]
        /\ \A t \in AllTopics, m \in EntryTypes :
             ListAt(c2, t, m) = IF t = topic /\ cb = Explicit THEN {}
                                ELSE IF t = topic /\ m = "error"
                                  THEN ListAt(c1, t, m) \ {cb}
                                ELSE ListAt(c1, t, m)
    BY <1>1, <1>2, RemoveSubscriptionLists, Z3
  <1>6. ASSUME NEW t \in Filters
        PROVE  c2.callbacks["response"][t] = c2.callbacks["error"][t]
    <2>1. c.callbacks["response"][t] = c.callbacks["error"][t]
      BY DEF Paired
    <2>2. \A m \in {"response", "error"} :
            c2.callbacks[m][t] = IF t = topic THEN c.callbacks[m][t] \ {cb}
                                              ELSE c.callbacks[m][t]
      BY <1>3, <1>4, <1>5
    <2>3. QED
      BY <2>1, <2>2
  <1>7. ASSUME NEW t \in AllTopics
        PROVE  ListAt(c2, t, "response") = ListAt(c2, t, "error")
    <2>1. ListAt(c, t, "response") = ListAt(c, t, "error")
      BY DEF Paired
    <2>2. \A m \in {"response", "error"} :
            ListAt(c2, t, m) = IF t = topic /\ cb = Explicit THEN {}
                               ELSE IF t = topic THEN ListAt(c, t, m) \ {cb}
                               ELSE ListAt(c, t, m)
      BY <1>3, <1>4, <1>5
    <2>3. QED
      BY <2>1, <2>2
  <1>8. QED
    BY <1>1, <1>6, <1>7 DEF Paired

(* A client without callbacks and subscriptions. *)
LEMMA NothingPaired ==
  ASSUME NEW c, c.callbacks = NewClient.callbacks,
         c.subscriptions = NewClient.subscriptions
  PROVE  Paired(c)
  BY DEF Paired, NewClient, MessageTypes, ListAt, LookUp, EmptyMap

PairedInv == IInv /\ Paired(client)

LEMMA InitPaired == Init => PairedInv
  <1> SUFFICES ASSUME Init PROVE Paired(client)
    BY InitIInv DEF PairedInv
  <1> DEFINE c1 == AddResponseSubscription(NewClient, ReplyTo, OnResponse, TRUE)
             c2 == AddSubscription(c1, NoTopic, "request", Unavailable, TRUE)
  <1>1. client = c2
    BY DEF Init, FirstClient
  <1>2. /\ IsRequest(ReplyTo, "response", OnResponse)
        /\ IsRequest(ReplyTo, "error", OnResponse)
        /\ IsRequest(NoTopic, "request", Unavailable)
    BY DEF IsRequest, Filters, AllTopics, AllCallbacks, MessageTypes
  <1>3. Consistent(NewClient) /\ Paired(NewClient)
    BY NewClientConsistent, NothingPaired
  <1> HIDE DEF c1, c2
  <1>4. Paired(c1)
    BY <1>2, <1>3, AddResponsePaired, Zenon DEF c1
  <1>5. Consistent(c1)
    BY <1>2, <1>3, AddSubscriptionConsistent, Zenon DEF c1, AddResponseSubscription
  <1>6. Paired(c2)
    <2>1. "request" \notin {"response", "error"}
      OBVIOUS
    <2>2. QED
      BY <1>2, <1>4, <1>5, <2>1, AddOtherPaired, Zenon DEF c2
  <1>7. QED
    BY <1>1, <1>6

LEMMA NextPaired == PairedInv /\ [Next]_vars => PairedInv'
  <1> SUFFICES ASSUME PairedInv, [Next]_vars PROVE Paired(client')
    BY NextIInv DEF PairedInv
  <1>0. Consistent(client) /\ Paired(client)
    BY DEF PairedInv, IInv
  <1>1. ASSUME NEW topic \in Topics \cup {NoTopic}, NEW type \in MessageTypes,
               NEW cb \in Callbacks
        PROVE  IsRequest(topic, type, cb)
    BY DEF IsRequest, Filters, AllTopics, AllCallbacks
  <1>2. ASSUME NEW topic \in Topics PROVE IsRequest(topic, Explicit, Explicit)
    BY Distinct DEF IsRequest, Filters, AllTopics
  <1>3. /\ {"event", "request", "response", "error"} \subseteq MessageTypes
        /\ \A type \in {"event", "request", Explicit} : type \notin {"response", "error"}
    BY Distinct DEF MessageTypes
  <1>4. ASSUME NEW topic \in Topics \cup {NoTopic}, NEW cb \in Callbacks,
               NEW subscribeToTopic \in BOOLEAN,
               \/ AddEventCallback(topic, cb, subscribeToTopic)
               \/ AddRequestCallback(topic, cb, subscribeToTopic)
               \/ AddResponseCallback(topic, cb, subscribeToTopic)
        PROVE  Paired(client')
    <2>1. ASSUME NEW type \in {"event", "request"}
          PROVE  Paired(AddSubscription(client, topic, type, cb, subscribeToTopic))
      <3>1. IsRequest(topic, type, cb) /\ type \notin {"response", "error"}
        BY <1>1, <1>3
      <3>2. QED
        BY <1>0, <3>1, AddOtherPaired, Zenon
    <2>2. Paired(AddResponseSubscription(client, topic, cb, subscribeToTopic))
      <3>1. IsRequest(topic, "response", cb) /\ IsRequest(topic, "error", cb)
        BY <1>1, <1>3
      <3>2. QED
        BY <1>0, <3>1, AddResponsePaired, Zenon
    <2>3. QED
      BY <1>4, <2>1, <2>2
         DEF AddEventCallback, AddRequestCallback, AddResponseCallback
  <1>5. ASSUME NEW topic \in Topics \cup {NoTopic}, NEW cb \in Callbacks,
               \/ RemoveEventCallback(topic, cb)
               \/ RemoveRequestCallback(topic, cb)
               \/ RemoveResponseCallback(topic, cb)
        PROVE  Paired(client')
    <2>1. ASSUME NEW type \in {"event", "request"}
          PROVE  Paired(RemoveSubscription(client, topic, type, cb))
      <3>1. IsRequest(topic, type, cb) /\ type \notin {"response", "error"}
        BY <1>1, <1>3
      <3>2. QED
        BY <1>0, <3>1, RemoveOtherPaired, Zenon
    <2>2. Paired(RemoveResponseSubscription(client, topic, cb))
      <3>1. IsRequest(topic, "response", cb) /\ IsRequest(topic, "error", cb)
        BY <1>1, <1>3
      <3>2. QED
        BY <1>0, <3>1, RemoveResponsePaired, Zenon
    <2>3. QED
      BY <1>5, <2>1, <2>2
         DEF RemoveEventCallback, RemoveRequestCallback, RemoveResponseCallback
  <1>6. ASSUME NEW topic \in Topics, Subscribe(topic) \/ Unsubscribe(topic)
        PROVE  Paired(client')
    <2>1. IsRequest(topic, Explicit, Explicit) /\ Explicit \notin {"response", "error"}
      BY <1>2, <1>3
    <2>2. Paired(AddSubscription(client, topic, Explicit, Explicit, TRUE))
      <3>1. TRUE \in BOOLEAN
        OBVIOUS
      <3>2. QED
        BY <1>0, <2>1, <3>1, AddOtherPaired, Zenon
    <2>3. Paired(RemoveSubscription(client, topic, Explicit, Explicit))
      BY <1>0, <2>1, RemoveOtherPaired, Zenon
    <2>4. QED
      BY <1>6, <2>2, <2>3 DEF Subscribe, Unsubscribe
  <1>7. CASE Connect \/ Disconnect
    <2>1. /\ client'.callbacks = client.callbacks
          /\ client'.subscriptions = client.subscriptions
      BY <1>0, <1>7, OpenMqttConsistent
         DEF Connect, Disconnect, EndMqtt, Consistent, ClientType
    <2>2. QED
      BY <1>0, <2>1 DEF Paired, ListAt
  <1>8. CASE Destroy
    <2>1. client' = Cleared(client)
      BY <1>8 DEF Destroy
    <2>2. /\ client'.callbacks = NewClient.callbacks
          /\ client'.subscriptions = NewClient.subscriptions
      BY <1>0, <2>1, ClearedConsistent
    <2>3. QED
      BY <2>2, NothingPaired, Zenon
  <1>9. CASE UNCHANGED vars
    BY <1>0, <1>9 DEF vars
  <1>10. QED
    BY <1>4, <1>5, <1>6, <1>7, <1>8, <1>9 DEF Next

(* However callbacks are added and removed, a response callback is called  *)
(* for the error responses of a topic exactly when it is called for the    *)
(* successful ones, and keeps the topic subscribed for both.               *)
THEOREM ErrorsGoWithResponses == Spec => []ErrorPairInv
  <1>1. PairedInv => ErrorPairInv
    BY PairedErrorPair DEF PairedInv, IInv, ErrorPairInv
  <1>2. QED
    BY InitPaired, NextPaired, <1>1, PTL DEF Spec

-----------------------------------------------------------------------------
(* The abstract view of a client *)

FilterTriples == Filters \X CallbackKinds \X AllCallbacks
TopicTriples == AllTopics \X (CallbackKinds \cup {Explicit}) \X Subscribers

RegisteredOf(c) == {i \in FilterTriples : i[3] \in c.callbacks[i[2]][i[1]]}
WantedOf(c) == {i \in TopicTriples : i[3] \in ListAt(c, i[1], i[2])}

LEMMA KindsAreTypes ==
  /\ CallbackKinds \subseteq MessageTypes
  /\ CallbackKinds \cup {Explicit} = EntryTypes \ {"error"}
  BY Distinct DEF CallbackKinds, MessageTypes, EntryTypes

LEMMA WantedView ==
  ASSUME NEW c, Consistent(c)
  PROVE  UNION {UNION {{<<t, k, cb>> : cb \in c.subscriptions[t][k]} :
                         k \in DOMAIN c.subscriptions[t] \ {"error"}} :
                  t \in DOMAIN c.subscriptions} = WantedOf(c)
  <1> DEFINE W == UNION {UNION {{<<t, k, cb>> : cb \in c.subscriptions[t][k]} :
                                  k \in DOMAIN c.subscriptions[t] \ {"error"}} :
                           t \in DOMAIN c.subscriptions}
  <1>2. c.subscriptions \in Table
    BY DEF Consistent, ClientType
  <1>3. ASSUME NEW i \in W PROVE i \in WantedOf(c)
    <2>1. PICK t \in DOMAIN c.subscriptions :
            i \in UNION {{<<t, k, cb>> : cb \in c.subscriptions[t][k]} :
                           k \in DOMAIN c.subscriptions[t] \ {"error"}}
      BY <1>3
    <2>2. PICK k \in DOMAIN c.subscriptions[t] \ {"error"} :
            i \in {<<t, k, cb>> : cb \in c.subscriptions[t][k]}
      BY <2>1
    <2>3. PICK cb \in c.subscriptions[t][k] : i = <<t, k, cb>>
      BY <2>2
    <2>4. t \in AllTopics /\ c.subscriptions[t] \in Entry
      BY <1>2, TableElim
    <2>5. k \in EntryTypes \ {"error"} /\ cb \in Subscribers
      BY <2>4, EntryElim
    <2>6. cb \in ListAt(c, t, k)
      BY <2>2, <2>3 DEF ListAt, LookUp, ListFor
    <2>7. QED
      BY <2>3, <2>4, <2>5, <2>6, KindsAreTypes DEF WantedOf, TopicTriples
  <1>4. ASSUME NEW i \in WantedOf(c) PROVE i \in W
    <2>1. PICK t \in AllTopics, k \in CallbackKinds \cup {Explicit}, cb \in Subscribers :
            i = <<t, k, cb>> /\ cb \in ListAt(c, t, k)
      BY <1>4 DEF WantedOf, TopicTriples
    <2>2. /\ t \in DOMAIN c.subscriptions
          /\ k \in DOMAIN c.subscriptions[t] \ {"error"}
          /\ cb \in c.subscriptions[t][k]
      BY <2>1, KindsAreTypes DEF ListAt, LookUp, ListFor
    <2>3. QED
      BY <2>1, <2>2
  <1>5. QED
    BY <1>3, <1>4

(* A topic of the table is one that is wanted for some reason: no entry is *)
(* empty, and none holds callbacks for errors alone.                       *)
LEMMA WantedTopics ==
  ASSUME NEW c, Consistent(c), Paired(c)
  PROVE  c.mqttTopics = IF c.mqtt = "open" THEN {i[1] : i \in WantedOf(c)} ELSE {}
  <1>1. c.subscriptions \in Table
    BY DEF Consistent, ClientType
  <1>2. ASSUME NEW t \in DOMAIN c.subscriptions PROVE t \in {i[1] : i \in WantedOf(c)}
    <2>1. t \in AllTopics /\ c.subscriptions[t] \in Entry
      BY <1>1, TableElim
    <2>2. PICK m \in DOMAIN c.subscriptions[t] : TRUE
      BY DEF Consistent, NoEmptyEntry
    <2>3. /\ m \in EntryTypes /\ ListAt(c, t, m) # {}
          /\ ListAt(c, t, m) \subseteq Subscribers
      BY <2>1, <2>2, EntryElim DEF ListAt, LookUp, ListFor, Consistent, NoEmptyEntry
    <2>4. PICK k \in EntryTypes \ {"error"} :
            ListAt(c, t, k) # {} /\ ListAt(c, t, k) \subseteq Subscribers
      <3>1. CASE m # "error"
        BY <2>3, <3>1
      <3>2. CASE m = "error"
        BY <2>1, <2>3, <3>2 DEF Paired, EntryTypes, MessageTypes
      <3>3. QED
        BY <3>1, <3>2
    <2>5. PICK cb \in Subscribers : cb \in ListAt(c, t, k)
      BY <2>4
    <2>6. <<t, k, cb>> \in WantedOf(c)
      BY <2>1, <2>5, KindsAreTypes DEF WantedOf, TopicTriples
    <2>7. QED
      BY <2>6
  <1>3. ASSUME NEW i \in WantedOf(c) PROVE i[1] \in DOMAIN c.subscriptions
    BY <1>3 DEF WantedOf, ListAt, LookUp
  <1>4. QED
    BY <1>2, <1>3 DEF Consistent, Mirrored

(* What a call of addSubscription or removeSubscription does to the view.   *)
AddedView(c, d, topic, type, cb, subscribeToTopic) ==
    /\ d.mqtt = c.mqtt
    /\ RegisteredOf(d) = IF type \in {"error", Explicit} THEN RegisteredOf(c)
                           ELSE RegisteredOf(c) \cup {<<topic, type, cb>>}
    /\ WantedOf(d) = IF subscribeToTopic /\ topic # NoTopic /\ type # "error"
                       THEN WantedOf(c) \cup {<<topic, type, cb>>}
                       ELSE WantedOf(c)

RemovedView(c, d, topic, type, cb) ==
    /\ d.mqtt = c.mqtt
    /\ RegisteredOf(d) = IF type \in {"error", Explicit} THEN RegisteredOf(c)
                           ELSE RegisteredOf(c) \ {<<topic, type, cb>>}
    /\ WantedOf(d) = IF type = Explicit THEN {i \in WantedOf(c) : i[1] # topic}
                     ELSE IF type = "error" THEN WantedOf(c)
                     ELSE WantedOf(c) \ {<<topic, type, cb>>}

LEMMA AddView ==
  ASSUME NEW c \in ClientType, NEW topic, NEW type, NEW cb,
         IsRequest(topic, type, cb), NEW subscribeToTopic \in BOOLEAN,
         NEW d, d = AddSubscription(c, topic, type, cb, subscribeToTopic)
  PROVE  AddedView(c, d, topic, type, cb, subscribeToTopic)
  <1>1. /\ d.mqtt = c.mqtt
        /\ \A m \in MessageTypes, t \in Filters :
             d.callbacks[m][t] = IF m = type /\ t = topic
                                   THEN c.callbacks[m][t] \cup {cb}
                                   ELSE c.callbacks[m][t]
        /\ \A t \in AllTopics, m \in EntryTypes :
             ListAt(d, t, m) = IF subscribeToTopic /\ t = topic /\ m = type
                                 THEN ListAt(c, t, m) \cup {cb}
                                 ELSE ListAt(c, t, m)
    BY AddSubscriptionLists, Z3
  <1>2. /\ topic \in Filters /\ NoTopic \notin AllTopics
        /\ topic # NoTopic => topic \in AllTopics
        /\ type \notin {"error", Explicit} =>
             type \in CallbackKinds /\ cb \in AllCallbacks
        /\ type # "error" => type \in CallbackKinds \cup {Explicit}
        /\ cb \in Subscribers
        /\ Explicit \notin CallbackKinds
        /\ "error" \notin CallbackKinds \cup {Explicit}
    BY Distinct DEF IsRequest, Filters, AllTopics, CallbackKinds, MessageTypes,
                    Subscribers
  <1>3. ASSUME NEW t \in Filters, NEW k \in CallbackKinds, NEW b \in AllCallbacks
        PROVE  b \in d.callbacks[k][t] <=>
                 b \in c.callbacks[k][t] \/ (t = topic /\ k = type /\ b = cb)
    <2>1. k \in MessageTypes
      BY KindsAreTypes
    <2>2. d.callbacks[k][t] = IF k = type /\ t = topic THEN c.callbacks[k][t] \cup {cb}
                                                        ELSE c.callbacks[k][t]
      BY <1>1, <2>1
    <2>3. QED
      BY <2>2
  <1>4. ASSUME NEW t \in AllTopics, NEW k \in CallbackKinds \cup {Explicit},
               NEW b \in Subscribers
        PROVE  b \in ListAt(d, t, k) <=>
                 \/ b \in ListAt(c, t, k)
                 \/ subscribeToTopic /\ t = topic /\ k = type /\ b = cb
    BY <1>1, KindsAreTypes
  <1>5. RegisteredOf(d) = IF type \in {"error", Explicit} THEN RegisteredOf(c)
                            ELSE RegisteredOf(c) \cup {<<topic, type, cb>>}
    <2>1. \A i \in FilterTriples :
            i \in RegisteredOf(d) <=> i \in RegisteredOf(c) \/ i = <<topic, type, cb>>
      <3>1. ASSUME NEW t \in Filters, NEW k \in CallbackKinds, NEW b \in AllCallbacks
            PROVE  <<t, k, b>> \in RegisteredOf(d) <=>
                     \/ <<t, k, b>> \in RegisteredOf(c)
                     \/ <<t, k, b>> = <<topic, type, cb>>
        BY <1>3 DEF RegisteredOf, FilterTriples
      <3>2. QED
        BY <3>1 DEF FilterTriples
    <2>2. <<topic, type, cb>> \in FilterTriples <=> type \notin {"error", Explicit}
      BY <1>2 DEF FilterTriples
    <2>3. /\ RegisteredOf(d) \subseteq FilterTriples
          /\ RegisteredOf(c) \subseteq FilterTriples
      BY DEF RegisteredOf
    <2>4. QED
      BY <2>1, <2>2, <2>3
  <1>6. WantedOf(d) = IF subscribeToTopic /\ topic # NoTopic /\ type # "error"
                        THEN WantedOf(c) \cup {<<topic, type, cb>>}
                        ELSE WantedOf(c)
    <2>1. \A i \in TopicTriples :
            i \in WantedOf(d) <=>
              i \in WantedOf(c) \/ (subscribeToTopic /\ i = <<topic, type, cb>>)
      <3>1. ASSUME NEW t \in AllTopics, NEW k \in CallbackKinds \cup {Explicit},
                   NEW b \in Subscribers
            PROVE  <<t, k, b>> \in WantedOf(d) <=>
                     \/ <<t, k, b>> \in WantedOf(c)
                     \/ subscribeToTopic /\ <<t, k, b>> = <<topic, type, cb>>
        BY <1>4 DEF WantedOf, TopicTriples
      <3>2. QED
        BY <3>1 DEF TopicTriples
    <2>2. <<topic, type, cb>> \in TopicTriples <=> topic # NoTopic /\ type # "error"
      BY <1>2 DEF TopicTriples
    <2>3. WantedOf(d) \subseteq TopicTriples /\ WantedOf(c) \subseteq TopicTriples
      BY DEF WantedOf
    <2>4. CASE subscribeToTopic /\ topic # NoTopic /\ type # "error"
      BY <2>1, <2>2, <2>3, <2>4
    <2>5. CASE ~(subscribeToTopic /\ topic # NoTopic /\ type # "error")
      BY <2>1, <2>2, <2>3, <2>5
    <2>6. QED
      BY <2>4, <2>5
  <1>7. QED
    BY <1>1, <1>5, <1>6 DEF AddedView

LEMMA RemoveView ==
  ASSUME NEW c \in ClientType, NEW topic, NEW type, NEW cb,
         IsRequest(topic, type, cb),
         NEW d, d = RemoveSubscription(c, topic, type, cb)
  PROVE  RemovedView(c, d, topic, type, cb)
  <1>1. /\ d.mqtt = c.mqtt
        /\ \A m \in MessageTypes, t \in Filters :
             d.callbacks[m][t] = IF m = type /\ t = topic
                                   THEN c.callbacks[m][t] \ {cb}
                                   ELSE c.callbacks[m][t]
        /\ \A t \in AllTopics, m \in EntryTypes :
             ListAt(d, t, m) = IF t = topic /\ cb = Explicit THEN {}
                               ELSE IF t = topic /\ m = type
                                 THEN ListAt(c, t, m) \ {cb}
                               ELSE ListAt(c, t, m)
    BY RemoveSubscriptionLists, Z3
  <1>2. /\ cb = Explicit <=> type = Explicit
        /\ Explicit \notin CallbackKinds
        /\ "error" \notin CallbackKinds \cup {Explicit}
    BY Distinct DEF IsRequest, CallbackKinds, MessageTypes, AllCallbacks
  <1>3. ASSUME NEW t \in Filters, NEW k \in CallbackKinds, NEW b \in AllCallbacks
        PROVE  b \in d.callbacks[k][t] <=>
                 b \in c.callbacks[k][t] /\ ~(t = topic /\ k = type /\ b = cb)
    <2>1. k \in MessageTypes
      BY KindsAreTypes
    <2>2. d.callbacks[k][t] = IF k = type /\ t = topic THEN c.callbacks[k][t] \ {cb}
                                                        ELSE c.callbacks[k][t]
      BY <1>1, <2>1
    <2>3. QED
      BY <2>2
  <1>4. ASSUME NEW t \in AllTopics, NEW k \in CallbackKinds \cup {Explicit},
               NEW b \in Subscribers
        PROVE  b \in ListAt(d, t, k) <=>
                 /\ b \in ListAt(c, t, k)
                 /\ ~(t = topic /\ type = Explicit)
                 /\ ~(t = topic /\ k = type /\ b = cb)
    <2>1. k \in EntryTypes
      BY KindsAreTypes
    <2>2. ListAt(d, t, k) = IF t = topic /\ cb = Explicit THEN {}
                            ELSE IF t = topic /\ k = type THEN ListAt(c, t, k) \ {cb}
                            ELSE ListAt(c, t, k)
      BY <1>1, <2>1
    <2>3. QED
      BY <1>2, <2>2
  <1>5. RegisteredOf(d) = IF type \in {"error", Explicit} THEN RegisteredOf(c)
                            ELSE RegisteredOf(c) \ {<<topic, type, cb>>}
    <2>1. \A i \in FilterTriples :
            i \in RegisteredOf(d) <=> i \in RegisteredOf(c) /\ i # <<topic, type, cb>>
      <3>1. ASSUME NEW t \in Filters, NEW k \in CallbackKinds, NEW b \in AllCallbacks
            PROVE  <<t, k, b>> \in RegisteredOf(d) <=>
                     /\ <<t, k, b>> \in RegisteredOf(c)
                     /\ <<t, k, b>> # <<topic, type, cb>>
        BY <1>3 DEF RegisteredOf, FilterTriples
      <3>2. QED
        BY <3>1 DEF FilterTriples
    <2>2. type \in {"error", Explicit} => <<topic, type, cb>> \notin FilterTriples
      BY <1>2 DEF FilterTriples
    <2>3. /\ RegisteredOf(d) \subseteq FilterTriples
          /\ RegisteredOf(c) \subseteq FilterTriples
      BY DEF RegisteredOf
    <2>4. QED
      BY <2>1, <2>2, <2>3
  <1>6. WantedOf(d) = IF type = Explicit THEN {i \in WantedOf(c) : i[1] # topic}
                      ELSE IF type = "error" THEN WantedOf(c)
                      ELSE WantedOf(c) \ {<<topic, type, cb>>}
    <2>1. \A i \in TopicTriples :
            i \in WantedOf(d) <=> /\ i \in WantedOf(c)
                                  /\ ~(i[1] = topic /\ type = Explicit)
                                  /\ i # <<topic, type, cb>>
      <3>1. ASSUME NEW t \in AllTopics, NEW k \in CallbackKinds \cup {Explicit},
                   NEW b \in Subscribers
            PROVE  <<t, k, b>> \in WantedOf(d) <=>
                     /\ <<t, k, b>> \in WantedOf(c)
                     /\ ~(t = topic /\ type = Explicit)
                     /\ <<t, k, b>> # <<topic, type, cb>>
        BY <1>4 DEF WantedOf, TopicTriples
      <3>2. QED
        BY <3>1 DEF TopicTriples
    <2>2. type = "error" => <<topic, type, cb>> \notin TopicTriples
      BY <1>2 DEF TopicTriples
    <2>3. WantedOf(d) \subseteq TopicTriples /\ WantedOf(c) \subseteq TopicTriples
      BY DEF WantedOf
    <2>4. \A i \in TopicTriples : i = <<topic, type, cb>> => i[1] = topic
      OBVIOUS
    <2>5. CASE type = Explicit
      BY <2>1, <2>3, <2>4, <2>5
    <2>6. CASE type = "error"
      BY <2>1, <2>2, <2>3, <2>6, <1>2, KindsAreTypes DEF EntryTypes
    <2>7. CASE type # Explicit /\ type # "error"
      BY <2>1, <2>3, <2>7
    <2>8. QED
      BY <2>5, <2>6, <2>7
  <1>7. QED
    BY <1>1, <1>5, <1>6 DEF RemovedView

-----------------------------------------------------------------------------
(* Every step of a client as a step of TopicInterest *)

LEMMA InitView == Init => Interest!Init
  <1> SUFFICES ASSUME Init PROVE Interest!Init
    OBVIOUS
  <1>0. PairedInv
    BY InitPaired
  <1> DEFINE c1 == AddSubscription(NewClient, ReplyTo, "response", OnResponse, TRUE)
             c2 == AddSubscription(c1, ReplyTo, "error", OnResponse, TRUE)
             c3 == AddSubscription(c2, NoTopic, "request", Unavailable, TRUE)
             own == <<ReplyTo, "response", OnResponse>>
             any == <<NoTopic, "request", Unavailable>>
  <1>1. client = c3
    BY DEF Init, FirstClient, AddResponseSubscription
  <1>2. /\ c1 = AddSubscription(NewClient, ReplyTo, "response", OnResponse, TRUE)
        /\ c2 = AddSubscription(c1, ReplyTo, "error", OnResponse, TRUE)
        /\ c3 = AddSubscription(c2, NoTopic, "request", Unavailable, TRUE)
        /\ IsRequest(ReplyTo, "response", OnResponse)
        /\ IsRequest(ReplyTo, "error", OnResponse)
        /\ IsRequest(NoTopic, "request", Unavailable)
        /\ TRUE \in BOOLEAN
    BY DEF IsRequest, Filters, AllTopics, AllCallbacks, MessageTypes
  <1>3. /\ RegisteredOf(NewClient) = {}
        /\ WantedOf(NewClient) = {}
        /\ NewClient.mqtt = "none"
    BY KindsAreTypes DEF RegisteredOf, WantedOf, NewClient, ListAt, LookUp, EmptyMap,
                         FilterTriples
  <1>4. ReplyTo # NoTopic /\ Explicit \notin {"request", "response", "error"}
    BY Distinct
  <1> HIDE DEF c1, c2, c3
  <1>5. Consistent(c1) /\ Consistent(c2)
    BY <1>2, NewClientConsistent, AddSubscriptionConsistent, Zenon
  <1>6. NewClient \in ClientType /\ c1 \in ClientType /\ c2 \in ClientType
    BY <1>5, NewClientConsistent DEF Consistent
  <1>7. /\ RegisteredOf(c1) = {own} /\ WantedOf(c1) = {own}
        /\ c1.mqtt = "none"
    <2>1. AddedView(NewClient, c1, ReplyTo, "response", OnResponse, TRUE)
      BY <1>2, <1>6, AddView, Zenon
    <2>2. QED
      BY <1>4, <1>3, <2>1 DEF AddedView
  <1>8. /\ RegisteredOf(c2) = {own} /\ WantedOf(c2) = {own}
        /\ c2.mqtt = "none"
    <2>1. AddedView(c1, c2, ReplyTo, "error", OnResponse, TRUE)
      BY <1>2, <1>6, AddView, Zenon
    <2>2. QED
      BY <1>4, <1>7, <2>1 DEF AddedView
  <1>9. /\ RegisteredOf(c3) = {own, any} /\ WantedOf(c3) = {own}
        /\ c3.mqtt = "none"
    <2>1. AddedView(c2, c3, NoTopic, "request", Unavailable, TRUE)
      BY <1>2, <1>6, AddView, Zenon
    <2>2. QED
      BY <1>4, <1>8, <2>1 DEF AddedView
  <1>10. /\ Registered = {own, any}
         /\ Wanted = {own}
    <2>1. Wanted = WantedOf(client)
      BY <1>0, WantedView DEF Wanted, PairedInv, IInv
    <2>2. QED
      BY <1>1, <1>9, <2>1 DEF Registered, RegisteredOf, FilterTriples
  <1>11. client.mqtt = "none" /\ client.mqttTopics = {}
    BY <1>0, <1>1, <1>9 DEF PairedInv, IInv, Consistent, Mirrored
  <1>12. {own} = {i \in {own, any} : i[1] # NoTopic}
    BY <1>4
  <1>13. QED
    BY <1>10, <1>11, <1>12 DEF Interest!Init

LEMMA StepView ==
  ASSUME PairedInv, PairedInv', [Next]_vars
  PROVE  [Interest!Next]_(Interest!vars)
  <1> DEFINE Reg == RegisteredOf(client)
             Reg1 == RegisteredOf(client')
             Want == WantedOf(client)
             Want1 == WantedOf(client')
  <1>1. /\ Consistent(client) /\ Paired(client)
        /\ Consistent(client') /\ Paired(client')
    BY DEF PairedInv, IInv
  <1>2. /\ Wanted = Want /\ Wanted' = Want1
        /\ Registered = Reg /\ Registered' = Reg1
    BY <1>1, WantedView DEF Wanted, Registered, RegisteredOf, FilterTriples
  <1>3. Interest!Follow
    BY <1>1, <1>2, WantedTopics DEF Interest!Follow, Interest!TopicsOf
  <1> HIDE DEF Reg, Reg1, Want, Want1
  <1>4. /\ client \in ClientType
        /\ \A t \in Topics \cup {NoTopic}, m \in MessageTypes, cb \in Callbacks :
             IsRequest(t, m, cb)
        /\ \A t \in Topics : IsRequest(t, Explicit, Explicit) /\ t # NoTopic
        /\ Explicit \notin MessageTypes
        /\ {"event", "request", "response", "error"} \subseteq MessageTypes
        /\ TRUE \in BOOLEAN
    BY <1>1, Distinct DEF Consistent, IsRequest, Filters, AllTopics, AllCallbacks,
                          MessageTypes
  <1>5. ASSUME NEW t \in Topics \cup {NoTopic}, NEW k \in CallbackKinds,
               NEW cb \in Callbacks, NEW s \in BOOLEAN,
               client'.mqtt = client.mqtt,
               Reg1 = Reg \cup {<<t, k, cb>>},
               Want1 = IF s /\ t # NoTopic THEN Want \cup {<<t, k, cb>>} ELSE Want
        PROVE  Interest!Next
    <2>1. Interest!Add(t, k, cb, s)
      BY <1>2, <1>3, <1>5 DEF Interest!Add
    <2>2. QED
      BY <2>1 DEF Interest!Next
  <1>6. ASSUME NEW t \in Topics \cup {NoTopic}, NEW k \in CallbackKinds,
               NEW cb \in Callbacks,
               client'.mqtt = client.mqtt,
               Reg1 = Reg \ {<<t, k, cb>>},
               Want1 = Want \ {<<t, k, cb>>}
        PROVE  Interest!Next
    <2>1. Interest!Remove(t, k, cb)
      BY <1>2, <1>3, <1>6 DEF Interest!Remove
    <2>2. QED
      BY <2>1 DEF Interest!Next
  <1>7. ASSUME NEW t \in Topics \cup {NoTopic}, NEW cb \in Callbacks,
               NEW s \in BOOLEAN,
               \/ AddEventCallback(t, cb, s)
               \/ AddRequestCallback(t, cb, s)
               \/ AddResponseCallback(t, cb, s)
        PROVE  Interest!Next
    <2>1. ASSUME NEW k \in {"event", "request"},
                 client' = AddSubscription(client, t, k, cb, s)
          PROVE  Interest!Next
      <3>1. IsRequest(t, k, cb) /\ k \in CallbackKinds /\ k \notin {"error", Explicit}
        BY <1>4 DEF CallbackKinds
      <3>2. AddedView(client, client', t, k, cb, s)
        BY <1>4, <2>1, <3>1, AddView, Zenon
      <3>3. QED
        BY <1>5, <3>1, <3>2 DEF AddedView, Reg, Reg1, Want, Want1
    <2>2. ASSUME AddResponseCallback(t, cb, s) PROVE Interest!Next
      <3> DEFINE c1 == AddSubscription(client, t, "response", cb, s)
      <3>1. IsRequest(t, "response", cb) /\ IsRequest(t, "error", cb)
        BY <1>4
      <3>2. /\ c1 = AddSubscription(client, t, "response", cb, s)
            /\ client' = AddSubscription(c1, t, "error", cb, s)
        BY <2>2 DEF AddResponseCallback, AddResponseSubscription
      <3> HIDE DEF c1
      <3>3. c1 \in ClientType
        BY <1>1, <3>1, <3>2, AddSubscriptionConsistent, Zenon DEF Consistent
      <3>4. AddedView(client, c1, t, "response", cb, s)
        BY <1>4, <3>1, <3>2, AddView, Zenon
      <3>5. AddedView(c1, client', t, "error", cb, s)
        BY <3>1, <3>2, <3>3, AddView, Zenon
      <3>6. "response" \in CallbackKinds /\ "response" \notin {"error", Explicit}
        BY <1>4 DEF CallbackKinds
      <3>7. QED
        BY <1>5, <3>4, <3>5, <3>6 DEF AddedView, Reg, Reg1, Want, Want1
    <2>3. QED
      BY <1>7, <2>1, <2>2 DEF AddEventCallback, AddRequestCallback
  <1>8. ASSUME NEW t \in Topics \cup {NoTopic}, NEW cb \in Callbacks,
               \/ RemoveEventCallback(t, cb)
               \/ RemoveRequestCallback(t, cb)
               \/ RemoveResponseCallback(t, cb)
        PROVE  Interest!Next
    <2>1. ASSUME NEW k \in {"event", "request"},
                 client' = RemoveSubscription(client, t, k, cb)
          PROVE  Interest!Next
      <3>1. IsRequest(t, k, cb) /\ k \in CallbackKinds /\ k \notin {"error", Explicit}
        BY <1>4 DEF CallbackKinds
      <3>2. RemovedView(client, client', t, k, cb)
        BY <1>4, <2>1, <3>1, RemoveView, Zenon
      <3>3. QED
        BY <1>6, <3>1, <3>2 DEF RemovedView, Reg, Reg1, Want, Want1
    <2>2. ASSUME RemoveResponseCallback(t, cb) PROVE Interest!Next
      <3> DEFINE c1 == RemoveSubscription(client, t, "response", cb)
      <3>1. IsRequest(t, "response", cb) /\ IsRequest(t, "error", cb)
        BY <1>4
      <3>2. /\ c1 = RemoveSubscription(client, t, "response", cb)
            /\ client' = RemoveSubscription(c1, t, "error", cb)
        BY <2>2 DEF RemoveResponseCallback, RemoveResponseSubscription
      <3> HIDE DEF c1
      <3>3. c1 \in ClientType
        BY <1>1, <3>1, <3>2, RemoveSubscriptionConsistent, Zenon DEF Consistent
      <3>4. RemovedView(client, c1, t, "response", cb)
        BY <1>4, <3>1, <3>2, RemoveView, Zenon
      <3>5. RemovedView(c1, client', t, "error", cb)
        BY <3>1, <3>2, <3>3, RemoveView, Zenon
      <3>6. /\ "response" \in CallbackKinds /\ "response" \notin {"error", Explicit}
            /\ "error" # Explicit
        BY <1>4 DEF CallbackKinds
      <3>7. QED
        BY <1>6, <3>4, <3>5, <3>6 DEF RemovedView, Reg, Reg1, Want, Want1
    <2>3. QED
      BY <1>8, <2>1, <2>2 DEF RemoveEventCallback, RemoveRequestCallback
  <1>9. ASSUME NEW t \in Topics, Subscribe(t) \/ Unsubscribe(t) PROVE Interest!Next
    <2>1. CASE Subscribe(t)
      <3>1. client' = AddSubscription(client, t, Explicit, Explicit, TRUE)
        BY <2>1 DEF Subscribe
      <3>2. AddedView(client, client', t, Explicit, Explicit, TRUE)
        BY <1>4, <3>1, AddView, Zenon
      <3>3. Interest!Subscribe(t)
        BY <1>2, <1>3, <1>4, <3>2
           DEF Interest!Subscribe, AddedView, Reg, Reg1, Want, Want1, MessageTypes
      <3>4. QED
        BY <3>3 DEF Interest!Next
    <2>2. CASE Unsubscribe(t)
      <3>1. client' = RemoveSubscription(client, t, Explicit, Explicit)
        BY <2>2 DEF Unsubscribe
      <3>2. RemovedView(client, client', t, Explicit, Explicit)
        BY <1>4, <3>1, RemoveView, Zenon
      <3>3. Interest!Unsubscribe(t)
        BY <1>2, <1>3, <3>2
           DEF Interest!Unsubscribe, RemovedView, Reg, Reg1, Want, Want1
      <3>4. QED
        BY <3>3 DEF Interest!Next
    <2>3. QED
      BY <1>9, <2>1, <2>2
  <1>10. CASE Connect
    <2>1. /\ client'.mqtt = "open"
          /\ client'.callbacks = client.callbacks
          /\ client'.subscriptions = client.subscriptions
      BY <1>1, <1>10, OpenMqttConsistent DEF Connect
    <2>2. Reg1 = Reg /\ Want1 = Want
      BY <2>1 DEF Reg, Reg1, Want, Want1, RegisteredOf, WantedOf, ListAt
    <2>3. Interest!Connect
      BY <1>2, <1>3, <2>1, <2>2 DEF Interest!Connect
    <2>4. QED
      BY <2>3 DEF Interest!Next
  <1>11. CASE Disconnect
    <2>1. CASE client.mqtt = "open"
      <3>1. /\ client'.mqtt = "ended"
            /\ client'.callbacks = client.callbacks
            /\ client'.subscriptions = client.subscriptions
        BY <1>4, <1>11, <2>1 DEF Disconnect, EndMqtt, ClientType
      <3>2. Reg1 = Reg /\ Want1 = Want
        BY <3>1 DEF Reg, Reg1, Want, Want1, RegisteredOf, WantedOf, ListAt
      <3>3. Interest!Disconnect
        BY <1>2, <1>3, <2>1, <3>1, <3>2 DEF Interest!Disconnect
      <3>4. QED
        BY <3>3 DEF Interest!Next
    <2>2. CASE client.mqtt # "open"
      <3>1. client' = client
        BY <1>11, <2>2 DEF Disconnect, EndMqtt
      <3>2. QED
        BY <1>2, <3>1 DEF Interest!vars, Reg, Reg1, Want, Want1
    <2>3. QED
      BY <2>1, <2>2
  <1>12. CASE Destroy
    <2>1. client' = Cleared(client)
      BY <1>12 DEF Destroy
    <2>2. /\ client'.callbacks = NewClient.callbacks
          /\ client'.subscriptions = NewClient.subscriptions
          /\ client'.mqtt = IF client.mqtt = "none" THEN "none" ELSE "ended"
      BY <1>1, <2>1, ClearedConsistent
    <2>3. Reg1 = {} /\ Want1 = {}
      BY <2>2, KindsAreTypes DEF Reg1, Want1, RegisteredOf, WantedOf, NewClient, ListAt,
                                 LookUp, EmptyMap, FilterTriples
    <2>4. Interest!Destroy
      BY <1>2, <1>3, <2>2, <2>3 DEF Interest!Destroy
    <2>5. QED
      BY <2>4 DEF Interest!Next
  <1>13. CASE UNCHANGED vars
    BY <1>2, <1>13 DEF vars, Interest!vars, Reg, Reg1, Want, Want1
  <1>14. QED
    BY <1>7, <1>8, <1>9, <1>10, <1>11, <1>12, <1>13 DEF Next

(* The client, with its tables and the branches that maintain them, does   *)
(* what two plain sets would: every operation adds or removes just what it *)
(* names, and an open MQTT client is subscribed to what is wanted.         *)
THEOREM RefinesTopicInterest == Spec => ImplementsTopicInterest
  <1>1. PairedInv /\ PairedInv' /\ [Next]_vars => [Interest!Next]_(Interest!vars)
    BY StepView
  <1>2. QED
    BY InitView, InitPaired, NextPaired, <1>1, PTL
       DEF Spec, Interest!Spec, ImplementsTopicInterest

(* A topic that a step takes off the MQTT client while this one stays open  *)
(* had its lists emptied by the step.                                       *)
LEMMA LastOneOutStep ==
  ASSUME PairedInv, PairedInv', [Next]_vars,
         NEW t \in client.mqttTopics \ client'.mqttTopics
  PROVE  \/ client'.mqtt = "ended"
         \/ Unsubscribe(t)
         \/ \E m \in MessageTypes, cb \in Callbacks :
              \A n \in DOMAIN client.subscriptions[t] :
                 /\ client.subscriptions[t][n] = {cb}
                 /\ n = m \/ {m, n} = {"response", "error"}
  <1> DEFINE Goal == \/ client'.mqtt = "ended"
                     \/ Unsubscribe(t)
                     \/ \E m \in MessageTypes, cb \in Callbacks :
                          \A n \in DOMAIN client.subscriptions[t] :
                             /\ client.subscriptions[t][n] = {cb}
                             /\ n = m \/ {m, n} = {"response", "error"}
             Before(n) == ListAt(client, t, n)
             After(n) == ListAt(client', t, n)
  <1>1. /\ Consistent(client) /\ Consistent(client')
        /\ client \in ClientType /\ client' \in ClientType
    BY DEF PairedInv, IInv, Consistent
  <1>2. /\ client.mqtt = "open" /\ t \in DOMAIN client.subscriptions
        /\ t \in AllTopics /\ client.subscriptions[t] \in Entry
    <2>1. client.mqtt = "open" /\ t \in DOMAIN client.subscriptions
      BY <1>1 DEF Consistent, Mirrored
    <2>2. client.subscriptions \in Table
      BY <1>1 DEF ClientType
    <2>3. QED
      BY <2>1, <2>2, TableElim
  <1>3. client'.mqtt = "open" => \A n \in EntryTypes : After(n) = {}
    BY <1>1 DEF Consistent, Mirrored, ListAt, LookUp
  <1>4. \A n \in DOMAIN client.subscriptions[t] :
          n \in EntryTypes /\ client.subscriptions[t][n] = Before(n) /\ Before(n) # {}
    BY <1>1, <1>2, EntryElim DEF Consistent, NoEmptyEntry, ListAt, LookUp, ListFor
  <1>5. \E n \in EntryTypes : Before(n) # {}
    BY <1>1, <1>2, <1>4 DEF Consistent, NoEmptyEntry
  <1>6. /\ \A topic \in Topics \cup {NoTopic}, m \in MessageTypes, cb \in Callbacks :
             IsRequest(topic, m, cb)
        /\ \A topic \in Topics : IsRequest(topic, Explicit, Explicit)
        /\ {"event", "request", "response", "error"} \subseteq MessageTypes
        /\ TRUE \in BOOLEAN
        /\ Explicit \notin Callbacks
    BY <1>1, Distinct DEF IsRequest, Filters, AllTopics, AllCallbacks, MessageTypes
  <1> HIDE DEF Before, After
  <1>7. ASSUME client'.mqtt = client.mqtt,
               \A n \in EntryTypes : Before(n) \subseteq After(n)
        PROVE  FALSE
    BY <1>2, <1>3, <1>5, <1>7
  <1>8. ASSUME NEW m \in MessageTypes, NEW cb \in Callbacks,
               client'.mqtt = client.mqtt,
               \A n \in EntryTypes :
                 Before(n) \subseteq After(n) \cup
                   IF n = m \/ {m, n} = {"response", "error"} THEN {cb} ELSE {}
        PROVE  Goal
    <2>1. \A n \in EntryTypes :
            Before(n) \subseteq IF n = m \/ {m, n} = {"response", "error"}
                                  THEN {cb} ELSE {}
      BY <1>2, <1>3, <1>8
    <2>2. \A n \in DOMAIN client.subscriptions[t] :
            /\ client.subscriptions[t][n] = {cb}
            /\ n = m \/ {m, n} = {"response", "error"}
      BY <1>4, <2>1
    <2>3. QED
      BY <2>2
  <1>9. ASSUME NEW topic, NEW m, NEW cb, IsRequest(topic, m, cb),
               NEW s \in BOOLEAN, NEW c \in ClientType, NEW d,
               d = AddSubscription(c, topic, m, cb, s)
        PROVE  /\ d.mqtt = c.mqtt
               /\ \A n \in EntryTypes : ListAt(c, t, n) \subseteq ListAt(d, t, n)
    <2>1. /\ d.mqtt = c.mqtt
          /\ \A u \in AllTopics, n \in EntryTypes :
               ListAt(d, u, n) = IF s /\ u = topic /\ n = m
                                   THEN ListAt(c, u, n) \cup {cb}
                                   ELSE ListAt(c, u, n)
      BY <1>9, AddSubscriptionLists, Z3
    <2>2. QED
      BY <1>2, <2>1
  <1>10. ASSUME NEW topic, NEW m, NEW cb, IsRequest(topic, m, cb),
                NEW c \in ClientType, NEW d,
                d = RemoveSubscription(c, topic, m, cb)
         PROVE  /\ d.mqtt = c.mqtt
                /\ cb # Explicit \/ topic # t =>
                     \A n \in EntryTypes :
                       ListAt(c, t, n) \subseteq
                         ListAt(d, t, n) \cup IF n = m THEN {cb} ELSE {}
                /\ topic # t =>
                     \A n \in EntryTypes : ListAt(c, t, n) \subseteq ListAt(d, t, n)
    <2>1. /\ d.mqtt = c.mqtt
          /\ \A u \in AllTopics, n \in EntryTypes :
               ListAt(d, u, n) = IF u = topic /\ cb = Explicit THEN {}
                                 ELSE IF u = topic /\ n = m
                                   THEN ListAt(c, u, n) \ {cb}
                                 ELSE ListAt(c, u, n)
      BY <1>10, RemoveSubscriptionLists, Z3
    <2>2. \A n \in EntryTypes :
            ListAt(d, t, n) = IF t = topic /\ cb = Explicit THEN {}
                              ELSE IF t = topic /\ n = m
                                THEN ListAt(c, t, n) \ {cb}
                              ELSE ListAt(c, t, n)
      BY <1>2, <2>1
    <2>3. QED
      BY <2>1, <2>2
  <1>11. ASSUME NEW topic \in Topics \cup {NoTopic}, NEW cb \in Callbacks,
                NEW s \in BOOLEAN,
                \/ AddEventCallback(topic, cb, s)
                \/ AddRequestCallback(topic, cb, s)
                \/ AddResponseCallback(topic, cb, s)
         PROVE  FALSE
    <2>1. ASSUME NEW m \in {"event", "request"},
                 client' = AddSubscription(client, topic, m, cb, s)
          PROVE  FALSE
      BY <1>1, <1>6, <1>7, <1>9, <2>1 DEF Before, After
    <2>2. ASSUME AddResponseCallback(topic, cb, s) PROVE FALSE
      <3> DEFINE c1 == AddSubscription(client, topic, "response", cb, s)
      <3>1. /\ IsRequest(topic, "response", cb) /\ IsRequest(topic, "error", cb)
            /\ c1 = AddSubscription(client, topic, "response", cb, s)
            /\ client' = AddSubscription(c1, topic, "error", cb, s)
        BY <1>6, <2>2 DEF AddResponseCallback, AddResponseSubscription
      <3> HIDE DEF c1
      <3>2. c1 \in ClientType
        BY <1>1, <3>1, AddSubscriptionConsistent, Zenon DEF Consistent
      <3>3. /\ c1.mqtt = client.mqtt
            /\ \A n \in EntryTypes : ListAt(client, t, n) \subseteq ListAt(c1, t, n)
        BY <1>1, <1>9, <3>1
      <3>4. /\ client'.mqtt = c1.mqtt
            /\ \A n \in EntryTypes : ListAt(c1, t, n) \subseteq ListAt(client', t, n)
        BY <1>9, <3>1, <3>2
      <3>5. QED
        BY <1>7, <3>3, <3>4 DEF Before, After
    <2>3. QED
      BY <1>11, <2>1, <2>2 DEF AddEventCallback, AddRequestCallback
  <1>12. ASSUME NEW topic \in Topics \cup {NoTopic}, NEW cb \in Callbacks,
                \/ RemoveEventCallback(topic, cb)
                \/ RemoveRequestCallback(topic, cb)
                \/ RemoveResponseCallback(topic, cb)
         PROVE  Goal
    <2>0. cb # Explicit
      BY <1>6
    <2>1. ASSUME NEW m \in {"event", "request"},
                 client' = RemoveSubscription(client, topic, m, cb)
          PROVE  Goal
      <3>1. m \in MessageTypes /\ IsRequest(topic, m, cb)
        BY <1>6
      <3>2. /\ client'.mqtt = client.mqtt
            /\ \A n \in EntryTypes :
                 Before(n) \subseteq After(n) \cup IF n = m THEN {cb} ELSE {}
        BY <1>1, <1>10, <2>0, <2>1, <3>1 DEF Before, After
      <3>3. QED
        BY <1>8, <3>1, <3>2
    <2>2. ASSUME RemoveResponseCallback(topic, cb) PROVE Goal
      <3> DEFINE c1 == RemoveSubscription(client, topic, "response", cb)
      <3>1. /\ IsRequest(topic, "response", cb) /\ IsRequest(topic, "error", cb)
            /\ c1 = RemoveSubscription(client, topic, "response", cb)
            /\ client' = RemoveSubscription(c1, topic, "error", cb)
        BY <1>6, <2>2 DEF RemoveResponseCallback, RemoveResponseSubscription
      <3> HIDE DEF c1
      <3>2. c1 \in ClientType
        BY <1>1, <3>1, RemoveSubscriptionConsistent, Zenon DEF Consistent
      <3>3. /\ c1.mqtt = client.mqtt
            /\ \A n \in EntryTypes :
                 ListAt(client, t, n) \subseteq
                   ListAt(c1, t, n) \cup IF n = "response" THEN {cb} ELSE {}
        BY <1>1, <1>10, <2>0, <3>1
      <3>4. /\ client'.mqtt = c1.mqtt
            /\ \A n \in EntryTypes :
                 ListAt(c1, t, n) \subseteq
                   ListAt(client', t, n) \cup IF n = "error" THEN {cb} ELSE {}
        BY <1>10, <2>0, <3>1, <3>2
      <3>5. \A n \in EntryTypes :
              Before(n) \subseteq After(n) \cup
                IF n = "response" \/ {"response", n} = {"response", "error"}
                  THEN {cb} ELSE {}
        BY <3>3, <3>4 DEF Before, After
      <3>6. "response" \in MessageTypes
        BY <1>6
      <3>7. QED
        BY <1>8, <3>3, <3>4, <3>5, <3>6
    <2>3. QED
      BY <1>12, <2>1, <2>2 DEF RemoveEventCallback, RemoveRequestCallback
  <1>13. ASSUME NEW topic \in Topics, Subscribe(topic) PROVE FALSE
    <2>1. /\ IsRequest(topic, Explicit, Explicit)
          /\ client \in ClientType
      BY <1>1, <1>6
    <2>2. PICK s \in BOOLEAN :
            client' = AddSubscription(client, topic, Explicit, Explicit, s)
      BY <1>13 DEF Subscribe
    <2>3. /\ client'.mqtt = client.mqtt
          /\ \A n \in EntryTypes : ListAt(client, t, n) \subseteq ListAt(client', t, n)
      BY <1>9, <2>1, <2>2
    <2>4. QED
      BY <1>7, <2>3 DEF Before, After
  <1>14. ASSUME NEW topic \in Topics, Unsubscribe(topic) PROVE Goal
    <2>1. CASE topic = t
      BY <1>14, <2>1
    <2>2. CASE topic # t
      BY <1>1, <1>6, <1>7, <1>10, <1>14, <2>2 DEF Unsubscribe, Before, After
    <2>3. QED
      BY <2>1, <2>2
  <1>15. CASE Connect \/ UNCHANGED vars
    <2>1. client'.mqtt = "open" /\ client'.subscriptions = client.subscriptions
      BY <1>1, <1>2, <1>15, OpenMqttConsistent DEF Connect, vars
    <2>2. QED
      BY <1>2, <1>7, <2>1 DEF Before, After, ListAt
  <1>16. CASE Disconnect
    <2>1. client'.mqtt = "ended"
      BY <1>1, <1>2, <1>16 DEF Disconnect, EndMqtt, ClientType
    <2>2. QED
      BY <2>1
  <1>17. CASE Destroy
    <2>1. client'.mqtt = "ended"
      BY <1>1, <1>2, <1>17, ClearedConsistent DEF Destroy
    <2>2. QED
      BY <2>1
  <1>18. QED
    BY <1>11, <1>12, <1>13, <1>14, <1>15, <1>16, <1>17 DEF Next

(* Only the last callback of a topic takes it off the MQTT client, or an    *)
(* unsubscribe(), which overrides the callbacks that share the topic.       *)
THEOREM LastOneOut == Spec => LastOneOutProp
  <1>1. PairedInv /\ PairedInv' /\ [Next]_vars =>
          [\A t \in client.mqttTopics \ client'.mqttTopics :
             \/ client'.mqtt = "ended"
             \/ Unsubscribe(t)
             \/ \E m \in MessageTypes, cb \in Callbacks :
                  \A n \in DOMAIN client.subscriptions[t] :
                     /\ client.subscriptions[t][n] = {cb}
                     /\ n = m \/ {m, n} = {"response", "error"}]_vars
    BY LastOneOutStep
  <1>2. QED
    BY InitPaired, NextPaired, <1>1, PTL DEF Spec, LastOneOutProp

-----------------------------------------------------------------------------
(* Module Fabric                                                           *)

-----------------------------------------------------------------------------
(* Induction on the number of calls made *)

LEMMA NatMinimum ==
  ASSUME NEW T \in SUBSET Nat, T # {}
  PROVE  \E m \in T : \A n \in T : m <= n
  <1>1. PICK m \in T : \A n \in T : ~ (<<n, m>> \in OpToRel(<, Nat))
    <2>1. IsWellFoundedOn(OpToRel(<, Nat), Nat)
      BY NatLessThanWellFounded
    <2>2. QED
      BY <2>1, WFMin
  <1>2. ASSUME NEW n \in T PROVE ~(n < m)
    BY <1>1 DEF OpToRel
  <1>3. QED
    BY <1>2

(* A set that holds 0 and is closed under successor holds every number.    *)
LEMMA SetInduction ==
  ASSUME NEW T, 0 \in T, \A n \in Nat : n \in T => n + 1 \in T
  PROVE  Nat \subseteq T
  <1> SUFFICES ASSUME NEW k \in Nat, k \notin T PROVE FALSE
    OBVIOUS
  <1>1. PICK m \in Nat \ T : \A n \in Nat \ T : m <= n
    <2>1. Nat \ T \in SUBSET Nat /\ Nat \ T # {}
      OBVIOUS
    <2>2. QED
      BY <2>1, NatMinimum
  <1>2. m - 1 \in Nat /\ m - 1 \in T
    BY <1>1
  <1>3. QED
    BY <1>1, <1>2

(* The function that AfterCalls defines by recursion exists: the first n   *)
(* calls can be made for every n.                                          *)
Start == [client |-> client, sent |-> <<>>]
IsRun(f, op, cb, order, n) ==
    f = [k \in 0 .. n |-> IF k = 0 THEN Start
                                   ELSE Call(op, f[k - 1], order[k], cb)]

LEMMA RunsExist ==
  ASSUME NEW op, NEW cb, NEW order
  PROVE  \A n \in Nat : \E f : IsRun(f, op, cb, order, n)
  <1> DEFINE T == {n \in Nat : \E f : IsRun(f, op, cb, order, n)}
  <1>1. 0 \in T
    <2> DEFINE f == [k \in 0 .. 0 |-> Start]
    <2>1. f = [k \in 0 .. 0 |-> IF k = 0 THEN Start
                                         ELSE Call(op, f[k - 1], order[k], cb)]
      OBVIOUS
    <2> HIDE DEF f
    <2>2. QED
      BY <2>1 DEF IsRun
  <1>2. ASSUME NEW n \in Nat, n \in T PROVE n + 1 \in T
    <2>1. PICK f : IsRun(f, op, cb, order, n)
      BY <1>2
    <2> DEFINE last == Call(op, f[n], order[n + 1], cb)
               g == [k \in 0 .. n + 1 |-> IF k = n + 1 THEN last ELSE f[k]]
               h == [k \in 0 .. n + 1 |-> IF k = 0 THEN Start
                                          ELSE Call(op, g[k - 1], order[k], cb)]
    <2>2. f = [k \in 0 .. n |-> IF k = 0 THEN Start
                                ELSE Call(op, f[k - 1], order[k], cb)]
      BY <2>1 DEF IsRun
    <2>3. ASSUME NEW k \in 0 .. n + 1 PROVE g[k] = h[k]
      <3>1. CASE k = n + 1
        <4>1. g[k] = last /\ g[k - 1] = f[n] /\ k # 0
          BY <3>1
        <4>2. h[k] = Call(op, g[k - 1], order[k], cb)
          BY <4>1
        <4>3. QED
          BY <3>1, <4>1, <4>2
      <3>2. CASE k = 0
        <4>1. g[k] = f[0] /\ f[0] = Start
          BY <2>2, <3>2
        <4>2. QED
          BY <3>2, <4>1
      <3>3. CASE k \in 1 .. n
        <4>1. g[k] = f[k] /\ g[k - 1] = f[k - 1]
          BY <3>3
        <4>2. f[k] = Call(op, f[k - 1], order[k], cb)
          BY <2>2, <3>3
        <4>3. h[k] = Call(op, g[k - 1], order[k], cb)
          BY <3>3
        <4>4. QED
          BY <4>1, <4>2, <4>3
      <3>4. QED
        BY <3>1, <3>2, <3>3
    <2>4. g = h
      BY <2>3
    <2>5. IsRun(g, op, cb, order, n + 1)
      <3> HIDE DEF g
      <3>1. QED
        BY <2>4 DEF IsRun
    <2>6. QED
      BY <2>5
  <1>3. Nat \subseteq T
    <2> HIDE DEF T
    <2>1. QED
      BY <1>1, <1>2, SetInduction
  <1>4. QED
    BY <1>3

LEMMA AfterCallsRun ==
  ASSUME NEW op, NEW cb, NEW order, Len(order) \in Nat
  PROVE  \E f : IsRun(f, op, cb, order, Len(order))
                /\ AfterCalls(op, cb, order) = f[Len(order)]
  <1> DEFINE f == CHOOSE g : IsRun(g, op, cb, order, Len(order))
  <1>1. IsRun(f, op, cb, order, Len(order))
    BY RunsExist
  <1>2. AfterCalls(op, cb, order) = f[Len(order)]
    BY DEF AfterCalls, IsRun, Start
  <1>3. QED
    BY <1>1, <1>2

-----------------------------------------------------------------------------
(* What the calls do to the tables *)

Packet ==
    [op : {"register", "unregister"}, info : Infos]
      \cup [op : {"subscribe", "unsubscribe"}, topics : SUBSET AllTopics]

(* A list of callbacks after a call for one of them. *)
Changed(op, list, cb) == IF op = "subscribe" THEN list \cup {cb} ELSE list \ {cb}

(* The tables d are c after calls for the topics in ts. *)
CallsEffect(op, cb, ts, c, d) ==
    /\ Consistent(d)
    /\ d.mqtt = c.mqtt
    /\ \A m \in MessageTypes, t \in Filters :
         d.callbacks[m][t] = IF m = "request" /\ t \in ts
                               THEN Changed(op, c.callbacks[m][t], cb)
                               ELSE c.callbacks[m][t]
    /\ \A t \in AllTopics, m \in EntryTypes :
         ListAt(d, t, m) = IF m = "request" /\ t \in ts
                             THEN Changed(op, ListAt(c, t, m), cb)
                             ELSE ListAt(c, t, m)

LEMMA CallTables ==
  ASSUME NEW op \in {"subscribe", "unsubscribe"}, NEW cb \in Callbacks,
         NEW topic \in Topics, NEW done, Consistent(done.client)
  PROVE  CallsEffect(op, cb, {topic}, done.client, Call(op, done, topic, cb).client)
  <1> DEFINE c == done.client
             d == Call(op, done, topic, cb).client
  <1>1. /\ IsRequest(topic, "request", cb)
        /\ "request" \in MessageTypes
        /\ cb # Explicit
        /\ c \in ClientType
    BY Distinct DEF IsRequest, Filters, AllTopics, AllCallbacks, MessageTypes, Consistent
  <1>2. CASE op = "subscribe"
    <2>1. d = AddSubscription(c, topic, "request", cb, TRUE)
      BY <1>2 DEF Call
    <2>2. Consistent(AddSubscription(c, topic, "request", cb, TRUE))
      <3>1. TRUE \in BOOLEAN
        OBVIOUS
      <3>2. QED
        BY <1>1, <3>1, AddSubscriptionConsistent, Zenon
    <2> HIDE DEF c, d
    <2>3. PICK always \in BOOLEAN : always = TRUE
      OBVIOUS
    <2>4. d = AddSubscription(c, topic, "request", cb, always)
      BY <2>1, <2>3
    <2>5. /\ d.mqtt = c.mqtt
          /\ \A m \in MessageTypes, t \in Filters :
               d.callbacks[m][t] = IF m = "request" /\ t = topic
                                     THEN c.callbacks[m][t] \cup {cb}
                                     ELSE c.callbacks[m][t]
          /\ \A t \in AllTopics, m \in EntryTypes :
               ListAt(d, t, m) = IF always /\ t = topic /\ m = "request"
                                   THEN ListAt(c, t, m) \cup {cb}
                                   ELSE ListAt(c, t, m)
      BY <1>1, <2>4, AddSubscriptionLists, Z3
    <2>6. CallsEffect(op, cb, {topic}, c, d)
      BY <1>2, <2>1, <2>2, <2>3, <2>5 DEF CallsEffect, Changed
    <2>7. QED
      BY <2>6 DEF c, d
  <1>3. CASE op = "unsubscribe"
    <2>1. d = RemoveSubscription(c, topic, "request", cb)
      BY <1>3 DEF Call
    <2>2. Consistent(RemoveSubscription(c, topic, "request", cb))
      BY <1>1, RemoveSubscriptionConsistent, Zenon
    <2> HIDE DEF c, d
    <2>3. /\ d.mqtt = c.mqtt
          /\ \A m \in MessageTypes, t \in Filters :
               d.callbacks[m][t] = IF m = "request" /\ t = topic
                                     THEN c.callbacks[m][t] \ {cb}
                                     ELSE c.callbacks[m][t]
          /\ \A t \in AllTopics, m \in EntryTypes :
               ListAt(d, t, m) =
                 IF t = topic /\ cb = Explicit THEN {}
                 ELSE IF t = topic /\ m = "request" THEN ListAt(c, t, m) \ {cb}
                 ELSE ListAt(c, t, m)
      BY <1>1, <2>1, RemoveSubscriptionLists, Z3
    <2>4. CallsEffect(op, cb, {topic}, c, d)
      BY <1>1, <1>3, <2>1, <2>2, <2>3 DEF CallsEffect, Changed
    <2>5. QED
      BY <2>4 DEF c, d
  <1>4. QED
    BY <1>2, <1>3

(* What the MQTT client is subscribed to follows from the lists. *)
LEMMA EffectTopics ==
  ASSUME NEW op \in {"subscribe", "unsubscribe"}, NEW cb, NEW ts, NEW c, NEW d,
         Consistent(c), CallsEffect(op, cb, ts, c, d)
  PROVE  /\ op = "subscribe" => /\ c.mqttTopics \subseteq d.mqttTopics
                                 /\ d.mqttTopics \subseteq c.mqttTopics \cup ts
         /\ op = "unsubscribe" => /\ d.mqttTopics \subseteq c.mqttTopics
                                   /\ c.mqttTopics \subseteq d.mqttTopics \cup ts
  <1>1. /\ Consistent(d)
        /\ d.mqtt = c.mqtt
        /\ \A t \in AllTopics, m \in EntryTypes :
             ListAt(d, t, m) = IF m = "request" /\ t \in ts
                                 THEN Changed(op, ListAt(c, t, m), cb)
                                 ELSE ListAt(c, t, m)
    BY DEF CallsEffect
  <1>2. /\ c.mqttTopics \subseteq AllTopics
        /\ \A t \in AllTopics :
              t \in c.mqttTopics
                <=> c.mqtt = "open" /\ \E m \in EntryTypes : ListAt(c, t, m) # {}
    BY ListenedTopics
  <1>3. /\ d.mqttTopics \subseteq AllTopics
        /\ \A t \in AllTopics :
              t \in d.mqttTopics
                <=> d.mqtt = "open" /\ \E m \in EntryTypes : ListAt(d, t, m) # {}
    BY <1>1, ListenedTopics
  <1>4. ASSUME NEW t \in AllTopics, t \notin ts
        PROVE  t \in c.mqttTopics <=> t \in d.mqttTopics
    BY <1>1, <1>2, <1>3, <1>4
  <1>5. ASSUME op = "subscribe" PROVE c.mqttTopics \subseteq d.mqttTopics
    <2>1. \A t \in AllTopics, m \in EntryTypes :
            ListAt(c, t, m) # {} => ListAt(d, t, m) # {}
      BY <1>1, <1>5 DEF Changed
    <2>2. QED
      BY <1>1, <1>2, <1>3, <2>1
  <1>6. ASSUME op = "unsubscribe" PROVE d.mqttTopics \subseteq c.mqttTopics
    <2>1. \A t \in AllTopics, m \in EntryTypes :
            ListAt(d, t, m) # {} => ListAt(c, t, m) # {}
      BY <1>1, <1>6 DEF Changed
    <2>2. QED
      BY <1>1, <1>2, <1>3, <2>1
  <1>7. QED
    BY <1>2, <1>3, <1>4, <1>5, <1>6

LEMMA NoCalls ==
  ASSUME NEW op, NEW cb, NEW c, Consistent(c)
  PROVE  CallsEffect(op, cb, {}, c, c)
  BY DEF CallsEffect

LEMMA OneCallMore ==
  ASSUME NEW op, NEW cb, NEW ts, NEW topic, NEW c, NEW d, NEW e,
         CallsEffect(op, cb, ts, c, d), CallsEffect(op, cb, {topic}, d, e)
  PROVE  CallsEffect(op, cb, ts \cup {topic}, c, e)
  <1>1. \A list : Changed(op, Changed(op, list, cb), cb) = Changed(op, list, cb)
    BY DEF Changed
  <1>2. ASSUME NEW m \in MessageTypes, NEW t \in Filters
        PROVE  e.callbacks[m][t] = IF m = "request" /\ t \in ts \cup {topic}
                                     THEN Changed(op, c.callbacks[m][t], cb)
                                     ELSE c.callbacks[m][t]
    <2>1. d.callbacks[m][t] = IF m = "request" /\ t \in ts
                                THEN Changed(op, c.callbacks[m][t], cb)
                                ELSE c.callbacks[m][t]
      BY DEF CallsEffect
    <2>2. e.callbacks[m][t] = IF m = "request" /\ t = topic
                                THEN Changed(op, d.callbacks[m][t], cb)
                                ELSE d.callbacks[m][t]
      BY DEF CallsEffect
    <2>3. QED
      BY <1>1, <2>1, <2>2
  <1>3. ASSUME NEW t \in AllTopics, NEW m \in EntryTypes
        PROVE  ListAt(e, t, m) = IF m = "request" /\ t \in ts \cup {topic}
                                   THEN Changed(op, ListAt(c, t, m), cb)
                                   ELSE ListAt(c, t, m)
    <2>1. ListAt(d, t, m) = IF m = "request" /\ t \in ts
                              THEN Changed(op, ListAt(c, t, m), cb)
                              ELSE ListAt(c, t, m)
      BY DEF CallsEffect
    <2>2. ListAt(e, t, m) = IF m = "request" /\ t = topic
                              THEN Changed(op, ListAt(d, t, m), cb)
                              ELSE ListAt(d, t, m)
      BY DEF CallsEffect
    <2>3. QED
      BY <1>1, <2>1, <2>2
  <1>4. QED
    BY <1>2, <1>3 DEF CallsEffect

(* The packets of the calls are (un)subscriptions; they name every topic   *)
(* that was gained, or none that is kept.                                  *)
Tells(op, sent, before, after) ==
    /\ sent \in Seq(Packet)
    /\ \A k \in 1 .. Len(sent) : sent[k].op = op
    /\ op = "subscribe" =>
         \A t \in after : t \in before \/ \E k \in 1 .. Len(sent) : t \in sent[k].topics
    /\ op = "unsubscribe" =>
         /\ after \subseteq before
         /\ \A k \in 1 .. Len(sent) : sent[k].topics \cap after = {}

LEMMA OneCallTells ==
  ASSUME NEW op \in {"subscribe", "unsubscribe"}, NEW cb, NEW topic \in Topics,
         NEW before, NEW done, NEW next, next = Call(op, done, topic, cb),
         Consistent(done.client),
         Tells(op, done.sent, before, done.client.mqttTopics),
         CallsEffect(op, cb, {topic}, done.client, next.client)
  PROVE  Tells(op, next.sent, before, next.client.mqttTopics)
  <1> DEFINE told == [op |-> op, topics |-> {topic}]
             old == done.client.mqttTopics
             new == next.client.mqttTopics
             sent == done.sent
  <1>1. next.sent = IF new = old THEN sent ELSE Append(sent, told)
    BY DEF Call
  <1>2. /\ op = "subscribe" => old \subseteq new /\ new \subseteq old \cup {topic}
        /\ op = "unsubscribe" => new \subseteq old /\ old \subseteq new \cup {topic}
    BY EffectTopics
  <1>3. told \in Packet
    BY DEF Packet, AllTopics
  <1>4. /\ sent \in Seq(Packet) /\ Len(sent) \in Nat
        /\ \A k \in 1 .. Len(sent) : sent[k].op = op
        /\ op = "subscribe" =>
             \A t \in old : t \in before \/ \E k \in 1 .. Len(sent) : t \in sent[k].topics
        /\ op = "unsubscribe" =>
             /\ old \subseteq before
             /\ \A k \in 1 .. Len(sent) : sent[k].topics \cap old = {}
    BY DEF Tells
  <1>5. told.op = op /\ told.topics = {topic}
    OBVIOUS
  <1> HIDE DEF told, old, new, sent
  <1>6. CASE new = old
    BY <1>1, <1>4, <1>6 DEF Tells, new
  <1>7. CASE new # old
    <2> DEFINE longer == Append(sent, told)
    <2>1. /\ longer \in Seq(Packet)
          /\ Len(longer) = Len(sent) + 1
          /\ longer[Len(sent) + 1] = told
          /\ \A k \in 1 .. Len(sent) : longer[k] = sent[k]
      BY <1>3, <1>4
    <2> HIDE DEF longer
    <2>2. \A k \in 1 .. Len(longer) : longer[k].op = op
      BY <1>4, <1>5, <2>1
    <2>3. ASSUME op = "subscribe", NEW t \in new, t \notin before
          PROVE  \E k \in 1 .. Len(longer) : t \in longer[k].topics
      <3>1. CASE t \in old
        BY <1>4, <2>1, <2>3, <3>1
      <3>2. CASE t = topic
        BY <1>4, <1>5, <2>1, <3>2
      <3>3. QED
        BY <1>2, <2>3, <3>1, <3>2
    <2>4. ASSUME op = "unsubscribe"
          PROVE  /\ new \subseteq before
                 /\ \A k \in 1 .. Len(longer) : longer[k].topics \cap new = {}
      <3>1. topic \notin new
        BY <1>2, <1>7, <2>4
      <3>2. QED
        BY <1>2, <1>4, <1>5, <2>1, <2>4, <3>1
    <2>5. Tells(op, longer, before, new)
      BY <2>1, <2>2, <2>3, <2>4 DEF Tells
    <2>6. QED
      BY <1>1, <1>7, <2>5 DEF longer, new
  <1>8. QED
    BY <1>6, <1>7

Named(order, n) == {order[k] : k \in 1 .. n}

CallsView(op, cb, order, n, done) ==
    /\ CallsEffect(op, cb, Named(order, n), client, done.client)
    /\ Tells(op, done.sent, client.mqttTopics, done.client.mqttTopics)

(* What is left of a series of calls, by induction on their number.        *)
LEMMA AfterCallsView ==
  ASSUME NEW op \in {"subscribe", "unsubscribe"}, NEW cb \in Callbacks,
         NEW order \in Seq(Topics), Consistent(client)
  PROVE  CallsView(op, cb, order, Len(order), AfterCalls(op, cb, order))
  <1>0. Len(order) \in Nat
    OBVIOUS
  <1>1. PICK f : /\ IsRun(f, op, cb, order, Len(order))
                 /\ AfterCalls(op, cb, order) = f[Len(order)]
    BY <1>0, AfterCallsRun
  <1>2. /\ f[0] = Start
        /\ \A n \in 0 .. Len(order) :
             n # Len(order) => f[n + 1] = Call(op, f[n], order[n + 1], cb)
    <2>1. f = [k \in 0 .. Len(order) |->
                 IF k = 0 THEN Start ELSE Call(op, f[k - 1], order[k], cb)]
      BY <1>1 DEF IsRun
    <2>2. f[0] = Start
      BY <1>0, <2>1
    <2>3. ASSUME NEW n \in 0 .. Len(order), n # Len(order)
          PROVE  f[n + 1] = Call(op, f[n], order[n + 1], cb)
      <3>1. /\ n + 1 \in 0 .. Len(order) /\ n + 1 # 0
            /\ (n + 1) - 1 = n
        BY <1>0, <2>3
      <3>2. f[n + 1] = Call(op, f[(n + 1) - 1], order[n + 1], cb)
        BY <2>1, <3>1
      <3>3. QED
        BY <3>1, <3>2
    <2>4. QED
      BY <2>2, <2>3
  <1> DEFINE T == {n \in Nat : n <= Len(order) => CallsView(op, cb, order, n, f[n])}
  <1>3. 0 \in T
    <2>1. Start.client = client /\ Start.sent = <<>>
      BY DEF Start
    <2>2. Named(order, 0) = {}
      BY DEF Named
    <2>3. CallsEffect(op, cb, {}, client, client)
      BY NoCalls, Zenon
    <2>4. Tells(op, <<>>, client.mqttTopics, client.mqttTopics)
      BY DEF Tells
    <2>5. CallsView(op, cb, order, 0, Start)
      BY <2>1, <2>2, <2>3, <2>4 DEF CallsView
    <2>6. QED
      BY <1>2, <2>5
  <1>4. ASSUME NEW n \in Nat, n \in T PROVE n + 1 \in T
    <2> SUFFICES ASSUME n + 1 <= Len(order)
                 PROVE  CallsView(op, cb, order, n + 1, f[n + 1])
      OBVIOUS
    <2> DEFINE topic == order[n + 1]
               c == f[n].client
               d == f[n + 1].client
    <2>1. /\ CallsEffect(op, cb, Named(order, n), client, c)
          /\ Tells(op, f[n].sent, client.mqttTopics, c.mqttTopics)
          /\ Consistent(c)
      BY <1>0, <1>4 DEF CallsView, CallsEffect
    <2>2. f[n + 1] = Call(op, f[n], topic, cb)
      BY <1>0, <1>2
    <2>3. topic \in Topics
      BY <1>0
    <2> HIDE DEF topic
    <2>4. CallsEffect(op, cb, {topic}, c, d)
      BY <2>1, <2>2, <2>3, CallTables
    <2>5. CallsEffect(op, cb, Named(order, n) \cup {topic}, client, d)
      BY <2>1, <2>4, OneCallMore
    <2>6. Named(order, n + 1) = Named(order, n) \cup {topic}
      BY DEF Named, topic
    <2>7. Tells(op, f[n + 1].sent, client.mqttTopics, d.mqttTopics)
      BY <2>1, <2>2, <2>3, <2>4, OneCallTells
    <2>8. QED
      BY <2>5, <2>6, <2>7 DEF CallsView
  <1>5. Nat \subseteq T
    <2> HIDE DEF T
    <2>1. QED
      BY <1>3, <1>4, SetInduction
  <1>6. QED
    BY <1>0, <1>1, <1>5

-----------------------------------------------------------------------------
(* The packets on the wire *)

Subscribes(p, t) == p.op = "subscribe" /\ t \in p.topics
Unsubscribes(p, t) == p.op = "unsubscribe" /\ t \in p.topics

(* The broker will listen to t when it has handled the first n packets of  *)
(* w, if it listens to the topics in l before.                             *)
Listens(w, l, t, n) ==
    \/ \E j \in 1 .. n : /\ Subscribes(w[j], t)
                         /\ \A k \in j + 1 .. n : ~Unsubscribes(w[k], t)
    \/ t \in l /\ \A k \in 1 .. n : ~Unsubscribes(w[k], t)

(* More packets make no difference to those before them. *)
LEMMA ListensBefore ==
  ASSUME NEW w \in Seq(Packet), NEW v \in Seq(Packet), NEW l, NEW t,
         NEW n \in 0 .. Len(w), Listens(w, l, t, n)
  PROVE  Listens(w \o v, l, t, n)
  <1>1. \A k \in 1 .. n : (w \o v)[k] = w[k]
    OBVIOUS
  <1>2. Len(w) \in Nat
    OBVIOUS
  <1>3. QED
    BY <1>1, <1>2 DEF Listens

(* Nor do packets that do not unsubscribe the topic. *)
LEMMA ListensAfter ==
  ASSUME NEW w \in Seq(Packet), NEW v \in Seq(Packet), NEW l, NEW t,
         NEW n \in 0 .. Len(v), Listens(w, l, t, Len(w)),
         \A k \in 1 .. n : ~Unsubscribes(v[k], t)
  PROVE  Listens(w \o v, l, t, Len(w) + n)
  <1> DEFINE u == w \o v
  <1>1. /\ Len(w) \in Nat /\ Len(v) \in Nat
        /\ \A k \in 1 .. Len(w) : u[k] = w[k]
        /\ \A k \in Len(w) + 1 .. Len(w) + n :
             k - Len(w) \in 1 .. n /\ u[k] = v[k - Len(w)]
    OBVIOUS
  <1> HIDE DEF u
  <1>2. \A k \in Len(w) + 1 .. Len(w) + n : ~Unsubscribes(u[k], t)
    BY <1>1
  <1>3. CASE t \in l /\ \A k \in 1 .. Len(w) : ~Unsubscribes(w[k], t)
    <2>1. \A k \in 1 .. Len(w) + n : ~Unsubscribes(u[k], t)
      BY <1>1, <1>2, <1>3
    <2>2. QED
      BY <1>3, <2>1 DEF Listens, u
  <1>4. ASSUME NEW j \in 1 .. Len(w), Subscribes(w[j], t),
               \A k \in j + 1 .. Len(w) : ~Unsubscribes(w[k], t)
        PROVE  Listens(u, l, t, Len(w) + n)
    <2>1. Subscribes(u[j], t) /\ j \in 1 .. Len(w) + n
      BY <1>1, <1>4
    <2>2. \A k \in j + 1 .. Len(w) + n : ~Unsubscribes(u[k], t)
      BY <1>1, <1>2, <1>4
    <2>3. QED
      BY <2>1, <2>2 DEF Listens
  <1>5. QED
    BY <1>3, <1>4 DEF Listens, u

(* And a packet that subscribes it makes up for those before it. *)
LEMMA ListensSince ==
  ASSUME NEW w \in Seq(Packet), NEW v \in Seq(Packet), NEW l, NEW t,
         NEW j \in 1 .. Len(v), Subscribes(v[j], t),
         \A k \in 1 .. Len(v) : ~Unsubscribes(v[k], t)
  PROVE  Listens(w \o v, l, t, Len(w \o v))
  <1> DEFINE u == w \o v
  <1>1. /\ Len(w) \in Nat /\ Len(v) \in Nat
        /\ Len(u) = Len(w) + Len(v)
        /\ \A k \in 1 .. Len(v) : u[Len(w) + k] = v[k]
    OBVIOUS
  <1> HIDE DEF u
  <1>2. ASSUME NEW k \in Len(w) + j + 1 .. Len(u) PROVE ~Unsubscribes(u[k], t)
    <2>1. k - Len(w) \in 1 .. Len(v) /\ Len(w) + (k - Len(w)) = k
      BY <1>1
    <2>2. u[k] = v[k - Len(w)]
      BY <1>1, <2>1
    <2>3. QED
      BY <2>1, <2>2
  <1>3. Subscribes(u[Len(w) + j], t) /\ Len(w) + j \in 1 .. Len(u)
    BY <1>1
  <1>4. QED
    BY <1>2, <1>3 DEF Listens, u

(* The broker handles the first packet. *)
LEMMA ListensOn ==
  ASSUME NEW w \in Seq(Packet), w # <<>>, NEW l, NEW l1, NEW t,
         l1 = CASE Head(w).op = "subscribe" -> l \cup Head(w).topics
                [] Head(w).op = "unsubscribe" -> l \ Head(w).topics
                [] OTHER -> l,
         NEW n \in 1 .. Len(w), Listens(w, l, t, n)
  PROVE  Listens(Tail(w), l1, t, n - 1)
  <1> DEFINE v == Tail(w)
  <1>1. /\ Len(w) \in Nat \ {0} /\ Len(v) = Len(w) - 1
        /\ Head(w) = w[1]
        /\ \A k \in 1 .. Len(v) : v[k] = w[k + 1]
    OBVIOUS
  <1> HIDE DEF v
  <1>2. ASSUME NEW j \in 0 .. n - 1, \A k \in j + 2 .. n : ~Unsubscribes(w[k], t)
        PROVE  \A k \in j + 1 .. n - 1 : ~Unsubscribes(v[k], t)
    <2> SUFFICES ASSUME NEW k \in j + 1 .. n - 1 PROVE ~Unsubscribes(v[k], t)
      OBVIOUS
    <2>1. k \in 1 .. Len(v) /\ k + 1 \in j + 2 .. n
      BY <1>1
    <2>2. v[k] = w[k + 1]
      BY <1>1, <2>1
    <2>3. QED
      BY <1>2, <2>1, <2>2
  <1>3. CASE t \in l /\ \A k \in 1 .. n : ~Unsubscribes(w[k], t)
    <2>1. t \in l1
      <3>1. ~Unsubscribes(w[1], t)
        BY <1>3
      <3>2. QED
        BY <1>1, <1>3, <3>1 DEF Unsubscribes
    <2>2. \A k \in 1 .. n - 1 : ~Unsubscribes(v[k], t)
      <3>1. 0 \in 0 .. n - 1 /\ \A k \in 0 + 2 .. n : ~Unsubscribes(w[k], t)
        BY <1>1, <1>3
      <3>2. QED
        BY <1>2, <3>1
    <2>3. QED
      BY <2>1, <2>2 DEF Listens, v
  <1>4. ASSUME NEW j \in 1 .. n, Subscribes(w[j], t),
               \A k \in j + 1 .. n : ~Unsubscribes(w[k], t)
        PROVE  Listens(v, l1, t, n - 1)
    <2>1. /\ j - 1 \in 0 .. n - 1
          /\ \A k \in (j - 1) + 2 .. n : ~Unsubscribes(w[k], t)
      BY <1>4
    <2>2. \A k \in (j - 1) + 1 .. n - 1 : ~Unsubscribes(v[k], t)
      BY <1>2, <2>1
    <2>3. CASE j = 1
      <3>1. t \in l1
        BY <1>1, <1>4, <2>3 DEF Subscribes
      <3>2. QED
        BY <2>2, <2>3, <3>1 DEF Listens
    <2>4. CASE j # 1
      <3>1. j - 1 \in 1 .. n - 1 /\ j - 1 \in 1 .. Len(v) /\ (j - 1) + 1 = j
        BY <1>1, <2>4
      <3>2. Subscribes(v[j - 1], t)
        BY <1>1, <1>4, <3>1
      <3>3. QED
        BY <2>2, <3>1, <3>2 DEF Listens
    <2>5. QED
      BY <2>3, <2>4
  <1>5. QED
    BY <1>3, <1>4 DEF Listens, v

-----------------------------------------------------------------------------
(* The inductive invariant *)

TypeInv ==
    /\ topics \in [Infos -> SUBSET Topics]
    /\ services \subseteq Infos
    /\ Consistent(client)
    /\ destroyed \in BOOLEAN
    /\ link \in {"down", "up"}
    /\ wire \in Seq(Packet)
    /\ registry \subseteq Infos

(* A service has its callback in the tables for its topics and no others,  *)
(* where it keeps them subscribed; the service manager has its own.        *)
TablesInv ==
    IF destroyed
      THEN services = {} /\ client.mqtt # "open"
      ELSE /\ \A i \in Infos, t \in Filters :
                i \in client.callbacks["request"][t]
                  <=> i \in services /\ t \in topics[i]
           /\ \A i \in services : \A t \in topics[i] :
                i \in ListAt(client, t, "request")
           /\ Unavailable \in client.callbacks["request"][NoTopic]

(* A request that names a service is about one of its topics. *)
RoutedInv ==
    \A r \in routed : r.id # NoId => r.id \in Infos /\ r.topic \in topics[r.id]

(* The broker comes to listen to what the MQTT client is subscribed to.    *)
FollowInv ==
    link = "up" /\ client.mqtt = "open" =>
        \A t \in client.mqttTopics : Listens(wire, listening, t, Len(wire))

(* It listens to the topics of a service until it is told of its end.      *)
WithdrawnInv ==
    \A j \in 1 .. Len(wire) :
        wire[j].op = "unregister" =>
            \A t \in topics[wire[j].info] : Listens(wire, listening, t, j)

FabricInv == TypeInv /\ TablesInv /\ RoutedInv /\ FollowInv /\ WithdrawnInv

(* What has to be known of packets that are sent, for the broker to follow *)
(* the client.                                                             *)
Followed(packets, before, after) ==
    /\ \A k \in 1 .. Len(packets) :
         packets[k].op = "unregister" =>
           \A t \in topics[packets[k].info] :
             t \in before /\ \A j \in 1 .. k : ~Unsubscribes(packets[j], t)
    /\ \A t \in after :
         /\ \A k \in 1 .. Len(packets) : ~Unsubscribes(packets[k], t)
         /\ t \in before \/ \E k \in 1 .. Len(packets) : Subscribes(packets[k], t)

LEMMA SendKeeps ==
  ASSUME TypeInv, FollowInv, WithdrawnInv, NEW packets \in Seq(Packet), Send(packets),
         link' = link, listening' = listening, topics' = topics,
         client'.mqtt = "open" => client.mqtt = "open",
         client.mqtt = "open" =>
           Followed(packets, client.mqttTopics,
                    IF client'.mqtt = "open" THEN client'.mqttTopics ELSE {})
  PROVE  wire' \in Seq(Packet) /\ FollowInv' /\ WithdrawnInv'
  <1>1. wire \in Seq(Packet) /\ Len(wire) \in Nat /\ Len(packets) \in Nat
    BY DEF TypeInv
  <1>2. CASE ~(link = "up" /\ client.mqtt = "open")
    <2>1. wire' = wire
      BY <1>2 DEF Send
    <2>2. QED
      BY <1>1, <1>2, <2>1 DEF FollowInv, WithdrawnInv
  <1>3. CASE link = "up" /\ client.mqtt = "open"
    <2> DEFINE w == wire \o packets
    <2>1. wire' = w
      BY <1>3 DEF Send
    <2>2. /\ w \in Seq(Packet)
          /\ Len(w) = Len(wire) + Len(packets)
          /\ \A k \in 1 .. Len(wire) : w[k] = wire[k]
          /\ \A k \in Len(wire) + 1 .. Len(w) :
               k - Len(wire) \in 1 .. Len(packets) /\ w[k] = packets[k - Len(wire)]
      BY <1>1
    <2>3. \A t \in client.mqttTopics : Listens(wire, listening, t, Len(wire))
      BY <1>3 DEF FollowInv
    <2>4. Followed(packets, client.mqttTopics,
                   IF client'.mqtt = "open" THEN client'.mqttTopics ELSE {})
      BY <1>3
    <2>5. ASSUME NEW j \in 1 .. Len(w), w[j].op = "unregister",
                 NEW t \in topics[w[j].info]
          PROVE  Listens(w, listening, t, j)
      <3>1. CASE j \in 1 .. Len(wire)
        <4>1. wire[j].op = "unregister" /\ t \in topics[wire[j].info]
          BY <2>2, <2>5, <3>1
        <4>2. Listens(wire, listening, t, j)
          BY <3>1, <4>1 DEF WithdrawnInv
        <4>3. j \in 0 .. Len(wire)
          BY <3>1
        <4>4. QED
          BY <1>1, <4>2, <4>3, ListensBefore
      <3>2. CASE j \in Len(wire) + 1 .. Len(w)
        <4> DEFINE k == j - Len(wire)
        <4>1. k \in 1 .. Len(packets) /\ w[j] = packets[k]
          BY <2>2, <3>2
        <4>2. /\ t \in client.mqttTopics
              /\ \A i \in 1 .. k : ~Unsubscribes(packets[i], t)
          BY <2>4, <2>5, <4>1 DEF Followed
        <4>3. Listens(wire, listening, t, Len(wire))
          BY <2>3, <4>2
        <4>4. k \in 0 .. Len(packets) /\ Len(wire) + k = j
          BY <1>1, <4>1
        <4> HIDE DEF k, w
        <4>5. Listens(wire \o packets, listening, t, Len(wire) + k)
          BY <1>1, <4>2, <4>3, <4>4, ListensAfter
        <4>6. QED
          BY <4>4, <4>5 DEF w
      <3>3. QED
        BY <1>1, <3>1, <3>2
    <2>6. ASSUME NEW t \in client'.mqttTopics, client'.mqtt = "open"
          PROVE  Listens(w, listening, t, Len(w))
      <3>1. /\ \A k \in 1 .. Len(packets) : ~Unsubscribes(packets[k], t)
            /\ \/ t \in client.mqttTopics
               \/ \E k \in 1 .. Len(packets) : Subscribes(packets[k], t)
        BY <2>4, <2>6 DEF Followed
      <3>2. CASE t \in client.mqttTopics
        <4>1. Listens(wire, listening, t, Len(wire)) /\ Len(packets) \in 0 .. Len(packets)
          BY <1>1, <2>3, <3>2
        <4> HIDE DEF w
        <4>2. Listens(wire \o packets, listening, t, Len(wire) + Len(packets))
          BY <1>1, <3>1, <4>1, ListensAfter
        <4>3. QED
          BY <2>2, <4>2 DEF w
      <3>3. ASSUME NEW k \in 1 .. Len(packets), Subscribes(packets[k], t)
            PROVE  Listens(w, listening, t, Len(w))
        BY <1>1, <3>1, <3>3, ListensSince
      <3>4. QED
        BY <3>1, <3>2, <3>3
    <2> HIDE DEF w
    <2>7. QED
      BY <2>1, <2>2, <2>5, <2>6 DEF FollowInv, WithdrawnInv
  <1>4. QED
    BY <1>2, <1>3

(* Every order of a finite set lists its elements and no others.           *)
LEMMA Orders ==
  ASSUME NEW S, IsFiniteSet(S), NEW order \in SetToSeqs(S)
  PROVE  /\ order \in Seq(S)
         /\ Named(order, Len(order)) = S
  <1> DEFINE D == 1 .. Cardinality(S)
  <1>1. Cardinality(S) \in Nat
    BY FS_CardinalityType
  <1>2. order \in [D -> S] /\ \A j, k \in D : j # k => order[j] # order[k]
    BY DEF SetToSeqs
  <1>3. order \in Seq(S) /\ Len(order) = Cardinality(S)
    BY <1>1, <1>2
  <1>4. order \in Injection(D, S)
    BY <1>2 DEF Injection, IsInjective
  <1>5. IsFiniteSet(D) /\ Cardinality(D) = Cardinality(S)
    BY <1>1, FS_Interval
  <1> HIDE DEF D
  <1>6. order \in Surjection(D, S)
    BY <1>4, <1>5, FS_Injection
  <1>7. \A s \in S : \E k \in D : order[k] = s
    BY <1>6 DEF Surjection
  <1>8. QED
    BY <1>2, <1>3, <1>7 DEF Named, D

(* The packets of a series of calls, after a registry request.             *)
LEMMA FirstPacket ==
  ASSUME NEW p \in Packet, NEW sent \in Seq(Packet), NEW all, all = <<p>> \o sent
  PROVE  /\ all \in Seq(Packet)
         /\ Len(sent) \in Nat /\ Len(all) = Len(sent) + 1
         /\ all[1] = p
         /\ \A k \in 2 .. Len(all) :
              k - 1 \in 1 .. Len(sent) /\ all[k] = sent[k - 1]
         /\ \A k \in 1 .. Len(sent) : k + 1 \in 1 .. Len(all) /\ all[k + 1] = sent[k]
  OBVIOUS

LEMMA ServiceTopics ==
  ASSUME TypeInv, TablesInv, client.mqtt = "open", NEW i \in services,
         NEW t \in topics[i]
  PROVE  t \in client.mqttTopics
  <1>1. i \in ListAt(client, t, "request")
    BY DEF TablesInv
  <1>2. t \in AllTopics /\ "request" \in EntryTypes
    BY DEF TypeInv, AllTopics, EntryTypes, MessageTypes
  <1>3. \A u \in AllTopics :
          u \in client.mqttTopics
            <=> client.mqtt = "open" /\ \E m \in EntryTypes : ListAt(client, u, m) # {}
    BY ListenedTopics DEF TypeInv
  <1>4. QED
    BY <1>1, <1>2, <1>3

-----------------------------------------------------------------------------
(* Every action preserves the invariant *)

LEMMA InitFabricInv == FabricInit => FabricInv
  <1> SUFFICES ASSUME FabricInit PROVE FabricInv
    OBVIOUS
  <1>1. TypeInv
    <2>1. topics \in [Infos -> SUBSET Topics]
      BY DEF Init, FabricInit
    <2>2. wire \in Seq(Packet)
      BY DEF Init, FabricInit
    <2>3. QED
      BY <2>1, <2>2, FirstClientConsistent DEF Init, FabricInit, TypeInv
  <1>2. TablesInv
    <2> DEFINE c1 == AddSubscription(NewClient, ReplyTo, "response", OnResponse, TRUE)
               c2 == AddSubscription(c1, ReplyTo, "error", OnResponse, TRUE)
               c3 == AddSubscription(c2, NoTopic, "request", Unavailable, TRUE)
    <2>1. client = c3 /\ destroyed = FALSE /\ services = {}
      BY DEF Init, FabricInit, FirstClient, AddResponseSubscription
    <2>2. /\ IsRequest(ReplyTo, "response", OnResponse)
          /\ IsRequest(ReplyTo, "error", OnResponse)
          /\ IsRequest(NoTopic, "request", Unavailable)
      BY DEF IsRequest, Filters, AllTopics, AllCallbacks, MessageTypes
    <2>3. PICK always \in BOOLEAN : always = TRUE
      OBVIOUS
    <2>4. /\ c1 = AddSubscription(NewClient, ReplyTo, "response", OnResponse, always)
          /\ c2 = AddSubscription(c1, ReplyTo, "error", OnResponse, always)
          /\ c3 = AddSubscription(c2, NoTopic, "request", Unavailable, always)
      BY <2>3
    <2> HIDE DEF c1, c2, c3
    <2>5. NewClient \in ClientType /\ Consistent(NewClient)
      BY NewClientConsistent DEF Consistent
    <2>6. c1 \in ClientType /\ Consistent(c1)
      BY <2>2, <2>4, <2>5, AddSubscriptionConsistent DEF Consistent
    <2>7. c2 \in ClientType /\ Consistent(c2)
      BY <2>2, <2>4, <2>6, AddSubscriptionConsistent DEF Consistent
    <2>8. \A m \in MessageTypes, t \in Filters :
            c1.callbacks[m][t] = IF m = "response" /\ t = ReplyTo
                                   THEN NewClient.callbacks[m][t] \cup {OnResponse}
                                   ELSE NewClient.callbacks[m][t]
      BY <2>2, <2>4, <2>5, AddSubscriptionLists, Z3
    <2>9. \A m \in MessageTypes, t \in Filters :
            c2.callbacks[m][t] = IF m = "error" /\ t = ReplyTo
                                   THEN c1.callbacks[m][t] \cup {OnResponse}
                                   ELSE c1.callbacks[m][t]
      BY <2>2, <2>4, <2>6, AddSubscriptionLists, Z3
    <2>10. \A m \in MessageTypes, t \in Filters :
             c3.callbacks[m][t] = IF m = "request" /\ t = NoTopic
                                    THEN c2.callbacks[m][t] \cup {Unavailable}
                                    ELSE c2.callbacks[m][t]
      BY <2>2, <2>4, <2>7, AddSubscriptionLists, Z3
    <2>11. "request" \in MessageTypes /\ NoTopic \in Filters
      BY DEF MessageTypes, Filters
    <2>12. \A t \in Filters : NewClient.callbacks["request"][t] = {}
      BY <2>11 DEF NewClient
    <2>13. \A t \in Filters :
             c3.callbacks["request"][t] = IF t = NoTopic THEN {Unavailable} ELSE {}
      <3> SUFFICES ASSUME NEW t \in Filters
                   PROVE  c3.callbacks["request"][t] =
                            IF t = NoTopic THEN {Unavailable} ELSE {}
        OBVIOUS
      <3>1. c1.callbacks["request"][t] = {}
        BY <2>8, <2>11, <2>12
      <3>2. c2.callbacks["request"][t] = {}
        BY <2>9, <2>11, <3>1
      <3>3. QED
        BY <2>10, <2>11, <3>2
    <2>14. Unavailable \notin Infos
      BY Distinct, CallbacksAssumption
    <2>15. QED
      BY <2>1, <2>11, <2>13, <2>14 DEF TablesInv
  <1>3. QED
    BY <1>1, <1>2 DEF Init, FabricInit, FabricInv, RoutedInv, FollowInv, WithdrawnInv

(* What a series of calls does to the tables of a live client.             *)
LEMMA CallsOfServices ==
  ASSUME FabricInv, ~destroyed, destroyed' = destroyed, topics' = topics,
         NEW op \in {"subscribe", "unsubscribe"}, NEW i \in Infos \cup {Monitor},
         NEW order \in Seq(Topics), NEW done, done = AfterCalls(op, i, order),
         client' = done.client,
         i \in Infos => Named(order, Len(order)) = topics[i],
         services' = IF i = Monitor THEN services
                     ELSE IF op = "subscribe" THEN services \cup {i} ELSE services \ {i}
  PROVE  /\ Consistent(client')
         /\ client'.mqtt = client.mqtt
         /\ TablesInv'
         /\ Tells(op, done.sent, client.mqttTopics, client'.mqttTopics)
  <1> DEFINE ts == Named(order, Len(order))
  <1>1. /\ Consistent(client) /\ TablesInv /\ i \in Callbacks
        /\ topics \in [Infos -> SUBSET Topics] /\ services \subseteq Infos
        /\ Monitor \notin Infos
        /\ Unavailable # i
    BY Distinct, CallbacksAssumption DEF FabricInv, TypeInv
  <1>2. CallsView(op, i, order, Len(order), done)
    BY <1>1, AfterCallsView
  <1>3. CallsEffect(op, i, ts, client, client')
        /\ Tells(op, done.sent, client.mqttTopics, client'.mqttTopics)
    BY <1>2 DEF CallsView
  <1>4. /\ "request" \in MessageTypes /\ "request" \in EntryTypes
        /\ NoTopic \in Filters /\ NoTopic \notin Topics /\ Topics \subseteq AllTopics
        /\ Topics \subseteq Filters
    BY Distinct DEF MessageTypes, EntryTypes, Filters, AllTopics
  <1> HIDE DEF ts
  <1>5. /\ \A t \in Filters :
             client'.callbacks["request"][t] =
               IF t \in ts THEN Changed(op, client.callbacks["request"][t], i)
                           ELSE client.callbacks["request"][t]
        /\ \A t \in AllTopics :
             ListAt(client', t, "request") =
               IF t \in ts THEN Changed(op, ListAt(client, t, "request"), i)
                           ELSE ListAt(client, t, "request")
    BY <1>3, <1>4 DEF CallsEffect
  <1>6. i \in Infos => ts = topics[i]
    BY DEF ts
  <1>7. /\ \A j \in Infos, t \in Filters :
             j \in client.callbacks["request"][t] <=> j \in services /\ t \in topics[j]
        /\ \A j \in services : \A t \in topics[j] : j \in ListAt(client, t, "request")
        /\ Unavailable \in client.callbacks["request"][NoTopic]
    BY <1>1 DEF TablesInv
  <1>8. ASSUME NEW j \in Infos, NEW t \in Filters
        PROVE  j \in client'.callbacks["request"][t] <=> j \in services' /\ t \in topics[j]
    <2>1. CASE j # i
      <3>1. j \in client'.callbacks["request"][t] <=> j \in client.callbacks["request"][t]
        BY <1>5, <2>1 DEF Changed
      <3>2. j \in services' <=> j \in services
        BY <2>1
      <3>3. QED
        BY <1>7, <3>1, <3>2
    <2>2. CASE j = i
      BY <1>1, <1>5, <1>6, <1>7, <2>2 DEF Changed
    <2>3. QED
      BY <2>1, <2>2
  <1>9. ASSUME NEW j \in services', NEW t \in topics[j]
        PROVE  j \in ListAt(client', t, "request")
    <2>0. t \in AllTopics /\ j \in Infos
      BY <1>1, <1>4
    <2>1. CASE j # i
      <3>1. j \in services
        BY <2>1
      <3>2. QED
        BY <1>5, <1>7, <2>0, <2>1, <3>1 DEF Changed
    <2>2. CASE j = i
      <3>1. op = "subscribe" /\ t \in ts
        BY <1>1, <1>6, <2>0, <2>2
      <3>2. QED
        BY <1>5, <2>0, <2>2, <3>1 DEF Changed
    <2>3. QED
      BY <2>1, <2>2
  <1>10. Unavailable \in client'.callbacks["request"][NoTopic]
    BY <1>1, <1>4, <1>5, <1>7 DEF Changed
  <1>11. TablesInv'
    BY <1>8, <1>9, <1>10 DEF TablesInv
  <1>12. QED
    BY <1>3, <1>11 DEF CallsEffect

LEMMA RegisterKeeps ==
  ASSUME FabricInv, NEW i \in Infos, RegisterServiceAsync(i)
  PROVE  FabricInv'
  <1>1. PICK order \in SetToSeqs(topics[i]) :
          /\ client' = AfterCalls("subscribe", i, order).client
          /\ Send(<<Register(i)>> \o AfterCalls("subscribe", i, order).sent)
    BY DEF RegisterServiceAsync
  <1> DEFINE done == AfterCalls("subscribe", i, order)
             packets == <<Register(i)>> \o done.sent
  <1>2. /\ ~destroyed /\ destroyed' = destroyed /\ topics' = topics /\ link' = link
        /\ registry' = registry /\ listening' = listening /\ routed' = routed
        /\ services' = services \cup {i}
    BY DEF RegisterServiceAsync, broker
  <1>3. topics[i] \subseteq Topics /\ IsFiniteSet(topics[i])
    BY FiniteAssumption, FS_Subset DEF FabricInv, TypeInv
  <1>4. order \in Seq(Topics) /\ Named(order, Len(order)) = topics[i]
    <2>1. order \in Seq(topics[i]) /\ Named(order, Len(order)) = topics[i]
      BY <1>1, <1>3, Orders
    <2>2. QED
      BY <1>3, <2>1
  <1>5. done = AfterCalls("subscribe", i, order) /\ i # Monitor
    BY CallbacksAssumption
  <1>6. client' = done.client /\ Send(packets)
    BY <1>1
  <1>7. packets = <<Register(i)>> \o done.sent
    OBVIOUS
  <1> HIDE DEF done, packets
  <1>8. /\ Consistent(client')
        /\ client'.mqtt = client.mqtt
        /\ TablesInv'
        /\ Tells("subscribe", done.sent, client.mqttTopics, client'.mqttTopics)
    BY <1>2, <1>4, <1>5, <1>6, CallsOfServices
  <1>9. Register(i) \in Packet /\ Register(i).op = "register"
    BY DEF Register, Packet
  <1>10. /\ done.sent \in Seq(Packet)
         /\ \A k \in 1 .. Len(done.sent) : done.sent[k].op = "subscribe"
         /\ \A t \in client'.mqttTopics :
              t \in client.mqttTopics
                \/ \E k \in 1 .. Len(done.sent) : t \in done.sent[k].topics
    BY <1>8 DEF Tells
  <1>11. /\ packets \in Seq(Packet)
         /\ Len(packets) \in Nat
         /\ packets[1] = Register(i)
         /\ \A k \in 2 .. Len(packets) :
              k - 1 \in 1 .. Len(done.sent) /\ packets[k] = done.sent[k - 1]
         /\ \A k \in 1 .. Len(done.sent) :
              k + 1 \in 1 .. Len(packets) /\ packets[k + 1] = done.sent[k]
    BY <1>7, <1>9, <1>10, FirstPacket
  <1>12. \A k \in 1 .. Len(packets) : packets[k].op \in {"register", "subscribe"}
    BY <1>9, <1>10, <1>11
  <1>13. Followed(packets, client.mqttTopics,
                  IF client'.mqtt = "open" THEN client'.mqttTopics ELSE {})
    BY <1>10, <1>11, <1>12 DEF Followed, Subscribes, Unsubscribes
  <1>14. wire' \in Seq(Packet) /\ FollowInv' /\ WithdrawnInv'
    BY <1>2, <1>6, <1>8, <1>11, <1>13, SendKeeps DEF FabricInv
  <1>15. QED
    BY <1>2, <1>8, <1>14 DEF FabricInv, TypeInv, RoutedInv

LEMMA UnregisterKeeps ==
  ASSUME FabricInv, NEW i \in Infos, UnregisterServiceAsync(i)
  PROVE  FabricInv'
  <1>1. PICK order \in SetToSeqs(topics[i]) :
          /\ client' = AfterCalls("unsubscribe", i, order).client
          /\ Send(<<Unregister(i)>> \o AfterCalls("unsubscribe", i, order).sent)
    BY DEF UnregisterServiceAsync
  <1> DEFINE done == AfterCalls("unsubscribe", i, order)
             packets == <<Unregister(i)>> \o done.sent
  <1>2. /\ ~destroyed /\ destroyed' = destroyed /\ topics' = topics /\ link' = link
        /\ registry' = registry /\ listening' = listening /\ routed' = routed
        /\ i \in services /\ services' = services \ {i}
    BY DEF UnregisterServiceAsync, broker
  <1>3. topics[i] \subseteq Topics /\ IsFiniteSet(topics[i])
    BY FiniteAssumption, FS_Subset DEF FabricInv, TypeInv
  <1>4. order \in Seq(Topics) /\ Named(order, Len(order)) = topics[i]
    <2>1. order \in Seq(topics[i]) /\ Named(order, Len(order)) = topics[i]
      BY <1>1, <1>3, Orders
    <2>2. QED
      BY <1>3, <2>1
  <1>5. done = AfterCalls("unsubscribe", i, order) /\ i # Monitor
    BY CallbacksAssumption
  <1>6. client' = done.client /\ Send(packets)
    BY <1>1
  <1>7. packets = <<Unregister(i)>> \o done.sent
    OBVIOUS
  <1> HIDE DEF done, packets
  <1>8. /\ Consistent(client')
        /\ client'.mqtt = client.mqtt
        /\ TablesInv'
        /\ Tells("unsubscribe", done.sent, client.mqttTopics, client'.mqttTopics)
    BY <1>2, <1>4, <1>5, <1>6, CallsOfServices
  <1>9. /\ Unregister(i) \in Packet
        /\ Unregister(i).op = "unregister" /\ Unregister(i).info = i
    BY DEF Unregister, Packet
  <1>10. /\ done.sent \in Seq(Packet)
         /\ \A k \in 1 .. Len(done.sent) : done.sent[k].op = "unsubscribe"
         /\ client'.mqttTopics \subseteq client.mqttTopics
         /\ \A k \in 1 .. Len(done.sent) :
              done.sent[k].topics \cap client'.mqttTopics = {}
    BY <1>8 DEF Tells
  <1>11. /\ packets \in Seq(Packet)
         /\ Len(packets) \in Nat
         /\ packets[1] = Unregister(i)
         /\ \A k \in 2 .. Len(packets) :
              k - 1 \in 1 .. Len(done.sent) /\ packets[k] = done.sent[k - 1]
    BY <1>7, <1>9, <1>10, FirstPacket
  <1>12. ASSUME client.mqtt = "open"
         PROVE  Followed(packets, client.mqttTopics,
                         IF client'.mqtt = "open" THEN client'.mqttTopics ELSE {})
    <2>0. \A k \in 2 .. Len(packets) :
            /\ packets[k].op = "unsubscribe"
            /\ packets[k].topics \cap client'.mqttTopics = {}
      BY <1>10, <1>11
    <2>1. ASSUME NEW k \in 1 .. Len(packets), packets[k].op = "unregister",
                 NEW t \in topics[packets[k].info]
          PROVE  t \in client.mqttTopics /\ \A j \in 1 .. k : ~Unsubscribes(packets[j], t)
      <3>1. k = 1
        <4>1. ~(k \in 2 .. Len(packets))
          BY <2>0, <2>1
        <4>2. QED
          BY <1>11, <4>1
      <3>2. t \in topics[i]
        BY <1>9, <1>11, <2>1, <3>1
      <3>3. t \in client.mqttTopics
        BY <1>2, <1>12, <3>2, ServiceTopics DEF FabricInv
      <3>4. QED
        BY <1>9, <1>11, <3>1, <3>3 DEF Unsubscribes
    <2>2. ASSUME NEW t \in client'.mqttTopics, NEW k \in 1 .. Len(packets)
          PROVE  ~Unsubscribes(packets[k], t)
      <3>1. CASE k = 1
        BY <1>9, <1>11, <3>1 DEF Unsubscribes
      <3>2. CASE k \in 2 .. Len(packets)
        BY <2>0, <2>2, <3>2 DEF Unsubscribes
      <3>3. QED
        BY <1>11, <3>1, <3>2
    <2>3. QED
      BY <1>10, <2>1, <2>2 DEF Followed
  <1>13. wire' \in Seq(Packet) /\ FollowInv' /\ WithdrawnInv'
    BY <1>2, <1>6, <1>8, <1>11, <1>12, SendKeeps DEF FabricInv
  <1>14. QED
    BY <1>2, <1>8, <1>13 DEF FabricInv, TypeInv, RoutedInv

LEMMA MonitorKeeps ==
  ASSUME FabricInv, NEW t \in Topics, AddMonitor(t) \/ RemoveMonitor(t)
  PROVE  FabricInv'
  <1> DEFINE order == <<t>>
  <1>1. PICK op \in {"subscribe", "unsubscribe"} :
          /\ client' = AfterCalls(op, Monitor, order).client
          /\ Send(AfterCalls(op, Monitor, order).sent)
    BY DEF AddMonitor, RemoveMonitor
  <1> DEFINE done == AfterCalls(op, Monitor, order)
             packets == done.sent
  <1>2. /\ ~destroyed /\ destroyed' = destroyed /\ topics' = topics /\ link' = link
        /\ registry' = registry /\ listening' = listening /\ routed' = routed
        /\ services' = services
    BY DEF AddMonitor, RemoveMonitor, broker
  <1>3. order \in Seq(Topics)
    OBVIOUS
  <1>4. /\ done = AfterCalls(op, Monitor, order)
        /\ client' = done.client /\ Send(packets)
        /\ Monitor \notin Infos
    BY <1>1, CallbacksAssumption
  <1> HIDE DEF done, order
  <1>5. /\ Consistent(client')
        /\ client'.mqtt = client.mqtt
        /\ TablesInv'
        /\ Tells(op, packets, client.mqttTopics, client'.mqttTopics)
    BY <1>2, <1>3, <1>4, CallsOfServices
  <1>6. packets \in Seq(Packet)
    BY <1>5 DEF Tells
  <1>7. Followed(packets, client.mqttTopics,
                 IF client'.mqtt = "open" THEN client'.mqttTopics ELSE {})
    <2>1. CASE op = "subscribe"
      BY <1>5, <2>1 DEF Tells, Followed, Subscribes, Unsubscribes
    <2>2. CASE op = "unsubscribe"
      BY <1>5, <2>2 DEF Tells, Followed, Subscribes, Unsubscribes
    <2>3. QED
      BY <2>1, <2>2
  <1> HIDE DEF packets
  <1>8. wire' \in Seq(Packet) /\ FollowInv' /\ WithdrawnInv'
    BY <1>2, <1>4, <1>5, <1>6, <1>7, SendKeeps DEF FabricInv
  <1>9. QED
    BY <1>2, <1>5, <1>8 DEF FabricInv, TypeInv, RoutedInv

LEMMA RenewKeeps ==
  ASSUME FabricInv, NEW i \in Infos, Renew(i)
  PROVE  FabricInv'
  <1> DEFINE packets == <<Register(i)>>
  <1>1. /\ packets \in Seq(Packet)
        /\ Len(packets) = 1 /\ packets[1].op = "register"
    BY DEF Register, Packet
  <1>2. Send(packets)
    BY DEF Renew
  <1> HIDE DEF packets
  <1>3. /\ client' = client /\ link' = link /\ topics' = topics /\ services' = services
        /\ destroyed' = destroyed /\ registry' = registry /\ listening' = listening
        /\ routed' = routed
    BY DEF Renew, broker
  <1>4. Followed(packets, client.mqttTopics,
                 IF client'.mqtt = "open" THEN client'.mqttTopics ELSE {})
    BY <1>1, <1>3 DEF Followed, Unsubscribes
  <1>5. wire' \in Seq(Packet) /\ FollowInv' /\ WithdrawnInv'
    BY <1>1, <1>2, <1>3, <1>4, SendKeeps DEF FabricInv
  <1>6. QED
    BY <1>3, <1>5 DEF FabricInv, TypeInv, TablesInv, RoutedInv

LEMMA DestroyKeeps ==
  ASSUME FabricInv, DestroyClient
  PROVE  FabricInv'
  <1>1. PICK order \in SetToSeqs(services) :
          Send([k \in DOMAIN order |-> Unregister(order[k])]
                 \o <<UnsubscribeFrom(client.mqttTopics)>>)
    BY DEF DestroyClient, Destroy
  <1> DEFINE w == [k \in DOMAIN order |-> Unregister(order[k])]
             last == UnsubscribeFrom(client.mqttTopics)
             packets == w \o <<last>>
  <1>2. /\ ~destroyed /\ destroyed' = TRUE /\ client' = Cleared(client)
        /\ services' = {}
        /\ link' = link /\ topics' = topics /\ registry' = registry
        /\ listening' = listening /\ routed' = routed
    BY DEF DestroyClient, Destroy, broker
  <1>3. /\ Consistent(client')
        /\ client'.mqtt # "open"
    BY <1>2, ClearedConsistent DEF FabricInv, TypeInv
  <1>4. /\ order \in Seq(services) /\ services \subseteq Infos
        /\ client.mqttTopics \subseteq AllTopics
    <2>1. IsFiniteSet(services)
      BY FiniteAssumption, FS_Subset DEF FabricInv, TypeInv
    <2>2. QED
      BY <1>1, <2>1, Orders, ListenedTopics DEF FabricInv, TypeInv
  <1>5. /\ w \in Seq(Packet) /\ Len(w) \in Nat
        /\ \A k \in 1 .. Len(w) :
             w[k].op = "unregister" /\ w[k].info \in services
    <2>1. DOMAIN order = 1 .. Len(order) /\ Len(order) \in Nat
      BY <1>4
    <2>2. \A k \in 1 .. Len(order) :
            /\ order[k] \in services
            /\ Unregister(order[k]) \in Packet
            /\ Unregister(order[k]).op = "unregister"
            /\ Unregister(order[k]).info = order[k]
      BY <1>4 DEF Unregister, Packet
    <2>3. w = [k \in 1 .. Len(order) |-> Unregister(order[k])]
      BY <2>1
    <2> HIDE DEF w
    <2>4. w \in Seq(Packet) /\ Len(w) = Len(order)
      BY <2>1, <2>2, <2>3
    <2>5. QED
      BY <2>1, <2>2, <2>3, <2>4
  <1>6. last \in Packet /\ last.op = "unsubscribe"
    BY <1>4 DEF UnsubscribeFrom, Packet
  <1> HIDE DEF w, last
  <1>7. /\ packets \in Seq(Packet)
        /\ Len(packets) = Len(w) + 1
        /\ packets[Len(w) + 1] = last
        /\ \A k \in 1 .. Len(w) : packets[k] = w[k]
    BY <1>5, <1>6
  <1>8. Send(packets)
    BY <1>1 DEF w, last
  <1> HIDE DEF packets
  <1>9. ASSUME client.mqtt = "open",
               NEW k \in 1 .. Len(packets), packets[k].op = "unregister",
               NEW t \in topics[packets[k].info]
        PROVE  t \in client.mqttTopics /\ \A j \in 1 .. k : ~Unsubscribes(packets[j], t)
    <2>1. k \in 1 .. Len(w)
      <3>1. k # Len(w) + 1
        BY <1>6, <1>7, <1>9
      <3>2. QED
        BY <1>5, <1>7, <3>1
    <2>2. packets[k].info \in services
      BY <1>5, <1>7, <2>1
    <2>3. t \in client.mqttTopics
      BY <1>9, <2>2, ServiceTopics DEF FabricInv
    <2>4. ASSUME NEW j \in 1 .. k PROVE ~Unsubscribes(packets[j], t)
      <3>1. j \in 1 .. Len(w)
        BY <1>5, <2>1
      <3>2. packets[j].op = "unregister"
        BY <1>5, <1>7, <3>1
      <3>3. QED
        BY <3>2 DEF Unsubscribes
    <2>5. QED
      BY <2>3, <2>4
  <1>10. client.mqtt = "open" =>
           Followed(packets, client.mqttTopics,
                    IF client'.mqtt = "open" THEN client'.mqttTopics ELSE {})
    BY <1>3, <1>9 DEF Followed
  <1>11. wire' \in Seq(Packet) /\ FollowInv' /\ WithdrawnInv'
    BY <1>2, <1>3, <1>7, <1>8, <1>10, SendKeeps DEF FabricInv
  <1>12. QED
    BY <1>2, <1>3, <1>11 DEF FabricInv, TypeInv, TablesInv, RoutedInv

LEMMA OnConnectedKeeps ==
  ASSUME FabricInv, OnConnected
  PROVE  FabricInv'
  <1>1. PICK order \in SetToSeqs(services) :
          wire' = <<SubscribeTo(client.mqttTopics)>>
                    \o [k \in DOMAIN order |-> Register(order[k])]
    BY DEF OnConnected
  <1> DEFINE v == [k \in DOMAIN order |-> Register(order[k])]
             first == SubscribeTo(client.mqttTopics)
  <1>2. /\ client' = client /\ link' = "up" /\ topics' = topics
        /\ services' = services /\ destroyed' = destroyed /\ registry' = registry
        /\ listening' = listening /\ routed' = routed
    BY DEF OnConnected, broker
  <1>3. /\ order \in Seq(services) /\ services \subseteq Infos
        /\ client.mqttTopics \subseteq AllTopics
    <2>1. IsFiniteSet(services)
      BY FiniteAssumption, FS_Subset DEF FabricInv, TypeInv
    <2>2. QED
      BY <1>1, <2>1, Orders, ListenedTopics DEF FabricInv, TypeInv
  <1>4. /\ v \in Seq(Packet) /\ Len(v) \in Nat
        /\ \A k \in 1 .. Len(v) : v[k].op = "register"
    <2>1. DOMAIN order = 1 .. Len(order) /\ Len(order) \in Nat
      BY <1>3
    <2>2. \A k \in 1 .. Len(order) :
            /\ Register(order[k]) \in Packet
            /\ Register(order[k]).op = "register"
      BY <1>3 DEF Register, Packet
    <2>3. v = [k \in 1 .. Len(order) |-> Register(order[k])]
      BY <2>1
    <2> HIDE DEF v
    <2>4. v \in Seq(Packet) /\ Len(v) = Len(order)
      BY <2>1, <2>2, <2>3
    <2>5. QED
      BY <2>1, <2>2, <2>3, <2>4
  <1>5. first \in Packet /\ first.op = "subscribe" /\ first.topics = client.mqttTopics
    BY <1>3 DEF SubscribeTo, Packet
  <1>6. wire' = <<first>> \o v
    BY <1>1
  <1> HIDE DEF v, first
  <1>7. /\ wire' \in Seq(Packet)
        /\ Len(wire') = Len(v) + 1
        /\ wire'[1] = first
        /\ \A k \in 2 .. Len(wire') : k - 1 \in 1 .. Len(v) /\ wire'[k] = v[k - 1]
    BY <1>4, <1>5, <1>6, FirstPacket
  <1>8. \A k \in 2 .. Len(wire') : wire'[k].op = "register"
    BY <1>4, <1>7
  <1>9. ASSUME NEW t \in client.mqttTopics
        PROVE  Listens(wire', listening', t, Len(wire'))
    <2>1. Subscribes(wire'[1], t) /\ 1 \in 1 .. Len(wire')
      BY <1>4, <1>5, <1>7 DEF Subscribes
    <2>2. \A k \in 1 + 1 .. Len(wire') : ~Unsubscribes(wire'[k], t)
      BY <1>8 DEF Unsubscribes
    <2>3. QED
      BY <2>1, <2>2 DEF Listens
  <1>10. \A j \in 1 .. Len(wire') : wire'[j].op # "unregister"
    <2>1. ASSUME NEW j \in 1 .. Len(wire') PROVE wire'[j].op # "unregister"
      <3>1. CASE j = 1
        BY <1>5, <1>7, <3>1
      <3>2. CASE j \in 2 .. Len(wire')
        BY <1>8, <3>2
      <3>3. QED
        BY <1>4, <1>7, <3>1, <3>2
    <2>2. QED
      BY <2>1
  <1>11. FollowInv' /\ WithdrawnInv'
    BY <1>2, <1>9, <1>10 DEF FollowInv, WithdrawnInv
  <1>12. QED
    BY <1>2, <1>7, <1>11 DEF FabricInv, TypeInv, TablesInv, RoutedInv

LEMMA ConnectKeeps ==
  ASSUME FabricInv, ConnectClient
  PROVE  FabricInv'
  <1>1. /\ Consistent(client')
        /\ client'.subscriptions = client.subscriptions
        /\ client'.callbacks = client.callbacks
    BY OpenMqttConsistent DEF ConnectClient, Connect, Usable, FabricInv, TypeInv
  <1>2. TablesInv'
    BY <1>1 DEF ConnectClient, Connect, Usable, FabricInv, TablesInv, ListAt
  <1>3. QED
    BY <1>1, <1>2
       DEF ConnectClient, Connect, Usable, broker, FabricInv, TypeInv, RoutedInv,
           FollowInv, WithdrawnInv

LEMMA DisconnectKeeps ==
  ASSUME FabricInv, DisconnectClient
  PROVE  FabricInv'
  <1>1. /\ Consistent(client') /\ client'.mqtt # "open"
        /\ client'.subscriptions = client.subscriptions
        /\ client'.callbacks = client.callbacks
    BY EndMqttConsistent
       DEF DisconnectClient, Disconnect, Usable, FabricInv, TypeInv, Consistent,
           ClientType, EndMqtt
  <1>2. TablesInv'
    BY <1>1 DEF DisconnectClient, Disconnect, Usable, FabricInv, TablesInv, ListAt
  <1>3. QED
    BY <1>1, <1>2
       DEF DisconnectClient, Disconnect, Usable, broker, FabricInv, TypeInv, RoutedInv,
           FollowInv, WithdrawnInv

LEMMA ClosedKeeps ==
  ASSUME FabricInv, Closed
  PROVE  FabricInv'
  <1>1. wire' = <<>> /\ routed' = {} /\ link' = "down"
    BY DEF Closed
  <1>2. wire' \in Seq(Packet) /\ Len(wire') = 0
    BY <1>1
  <1>3. FollowInv' /\ WithdrawnInv' /\ RoutedInv'
    BY <1>1, <1>2 DEF FollowInv, WithdrawnInv, RoutedInv
  <1>4. QED
    BY <1>1, <1>2, <1>3 DEF Closed, FabricInv, TypeInv, TablesInv

LEMMA BrokerHandlesKeeps ==
  ASSUME FabricInv, BrokerHandles
  PROVE  FabricInv'
  <1> DEFINE p == Head(wire)
  <1>1. /\ wire # <<>> /\ wire' = Tail(wire)
        /\ listening' = CASE p.op = "subscribe" -> listening \cup p.topics
                           [] p.op = "unsubscribe" -> listening \ p.topics
                           [] OTHER -> listening
        /\ UNCHANGED <<topics, services, client, destroyed, link, routed>>
    BY DEF BrokerHandles
  <1>2. /\ wire \in Seq(Packet) /\ p \in Packet
        /\ Len(wire) \in Nat \ {0}
        /\ wire' \in Seq(Packet) /\ Len(wire') = Len(wire) - 1
        /\ \A k \in 1 .. Len(wire') : wire'[k] = wire[k + 1]
    BY <1>1 DEF FabricInv, TypeInv
  <1>3. registry' \subseteq Infos
    <2>1. registry' = CASE p.op = "register" -> registry \cup {p.info}
                        [] p.op = "unregister" -> registry \ {p.info}
                        [] OTHER -> registry
      BY DEF BrokerHandles
    <2>2. p.op = "register" => p.info \in Infos
      BY <1>2 DEF Packet
    <2>3. QED
      BY <2>1, <2>2 DEF FabricInv, TypeInv
  <1>4. ASSUME NEW t, NEW n \in 1 .. Len(wire), Listens(wire, listening, t, n)
        PROVE  Listens(wire', listening', t, n - 1)
    BY <1>1, <1>2, <1>4, ListensOn
  <1>5. FollowInv'
    <2> SUFFICES ASSUME link = "up", client.mqtt = "open", NEW t \in client.mqttTopics
                 PROVE  Listens(wire', listening', t, Len(wire'))
      BY <1>1 DEF FollowInv
    <2>1. Listens(wire, listening, t, Len(wire)) /\ Len(wire) \in 1 .. Len(wire)
      BY <1>2 DEF FabricInv, FollowInv
    <2>2. QED
      BY <1>2, <1>4, <2>1
  <1>6. WithdrawnInv'
    <2> SUFFICES ASSUME NEW j \in 1 .. Len(wire'), wire'[j].op = "unregister",
                        NEW t \in topics[wire'[j].info]
                 PROVE  Listens(wire', listening', t, j)
      BY <1>1 DEF WithdrawnInv
    <2>1. j + 1 \in 1 .. Len(wire) /\ wire'[j] = wire[j + 1]
      BY <1>2
    <2>2. Listens(wire, listening, t, j + 1)
      BY <2>1 DEF FabricInv, WithdrawnInv
    <2>3. (j + 1) - 1 = j
      OBVIOUS
    <2>4. QED
      BY <1>4, <2>1, <2>2, <2>3
  <1>7. QED
    BY <1>1, <1>2, <1>3, <1>5, <1>6 DEF FabricInv, TypeInv, TablesInv, RoutedInv

LEMMA OtherKeeps ==
  ASSUME FabricInv,
         \/ \E i \in Infos : BrokerExpires(i)
         \/ \E call \in Calls, t \in Topics, id \in Infos \cup {NoId} : Route(call, t, id)
         \/ \E r \in routed : HandleRequest(r)
         \/ UNCHANGED fabricVars
  PROVE  FabricInv'
  <1>1. /\ UNCHANGED <<topics, services, client, destroyed, link, wire, listening>>
        /\ registry' \subseteq registry
    BY DEF BrokerExpires, Route, HandleRequest, fabricVars, vars, broker
  <1>2. RoutedInv'
    <2>1. CASE \E call \in Calls, t \in Topics, id \in Infos \cup {NoId} :
                 Route(call, t, id)
      <3>1. PICK call, t, id :
              /\ id = NoId \/ (id \in registry /\ t \in topics[id])
              /\ routed' = routed \cup {[call |-> call, topic |-> t, id |-> id]}
        BY <2>1 DEF Route
      <3>2. ASSUME NEW r \in routed', r.id # NoId
            PROVE  r.id \in Infos /\ r.topic \in topics[r.id]
        <4>1. CASE r \in routed
          BY <3>2, <4>1 DEF FabricInv, RoutedInv
        <4>2. CASE r = [call |-> call, topic |-> t, id |-> id]
          BY <3>1, <3>2, <4>2 DEF FabricInv, TypeInv
        <4>3. QED
          BY <3>1, <4>1, <4>2
      <3>3. QED
        BY <1>1, <3>2 DEF RoutedInv
    <2>2. CASE routed' \subseteq routed
      BY <1>1, <2>2 DEF FabricInv, RoutedInv
    <2>3. QED
      BY <2>1, <2>2 DEF BrokerExpires, HandleRequest, fabricVars, vars
  <1>3. QED
    BY <1>1, <1>2 DEF FabricInv, TypeInv, TablesInv, FollowInv, WithdrawnInv

LEMMA NextFabricInv == FabricInv /\ [FabricNext]_fabricVars => FabricInv'
  <1> SUFFICES ASSUME FabricInv, [FabricNext]_fabricVars PROVE FabricInv'
    OBVIOUS
  <1>1. ASSUME NEW i \in Infos,
               RegisterServiceAsync(i) \/ UnregisterServiceAsync(i) \/ Renew(i)
        PROVE  FabricInv'
    BY <1>1, RegisterKeeps, UnregisterKeeps, RenewKeeps
  <1>2. ASSUME NEW t \in Topics, AddMonitor(t) \/ RemoveMonitor(t)
        PROVE  FabricInv'
    BY <1>2, MonitorKeeps
  <1>3. CASE \/ ConnectClient \/ OnConnected \/ DisconnectClient
             \/ DestroyClient \/ Closed \/ BrokerHandles
    BY <1>3, ConnectKeeps, OnConnectedKeeps, DisconnectKeeps, DestroyKeeps, ClosedKeeps,
       BrokerHandlesKeeps
  <1>4. QED
    BY <1>1, <1>2, <1>3, OtherKeeps DEF FabricNext

LEMMA FabricInvariant == FabricSpec => []FabricInv
  BY InitFabricInv, NextFabricInv, PTL DEF FabricSpec

-----------------------------------------------------------------------------
(* Theorems *)

(* As long as the client is connected, whoever the broker routes requests  *)
(* to, a service that stays or one whose UNREGISTER is still under way, is *)
(* heard on all of its topics, or the subscription is just behind: however *)
(* many services and callbacks share the topics.                           *)
THEOREM ServicesHeard == FabricSpec => []HeardInv
  <1>1. FabricInv => HeardInv
    <2> SUFFICES ASSUME FabricInv, link = "up", client.mqtt = "open", NEW i \in registry,
                        i \in services \/ OnWire(Unregister(i)), NEW t \in topics[i]
                 PROVE  t \in listening \/ SubscribeComes(t)
      BY DEF HeardInv
    <2>1. wire \in Seq(Packet) /\ Len(wire) \in Nat /\ DOMAIN wire = 1 .. Len(wire)
      BY DEF FabricInv, TypeInv
    <2>2. ASSUME NEW n \in 0 .. Len(wire), Listens(wire, listening, t, n)
          PROVE  t \in listening \/ SubscribeComes(t)
      BY <2>1, <2>2 DEF Listens, Subscribes, SubscribeComes
    <2>3. CASE i \in services
      <3>1. t \in client.mqttTopics
        BY <2>3, ServiceTopics DEF FabricInv
      <3>2. Listens(wire, listening, t, Len(wire)) /\ Len(wire) \in 0 .. Len(wire)
        BY <2>1, <3>1 DEF FabricInv, FollowInv
      <3>3. QED
        BY <2>2, <3>2
    <2>4. CASE OnWire(Unregister(i))
      <3>1. PICK j \in 1 .. Len(wire) : wire[j] = Unregister(i)
        BY <2>1, <2>4 DEF OnWire
      <3>2. wire[j].op = "unregister" /\ wire[j].info = i
        BY <3>1 DEF Unregister
      <3>3. Listens(wire, listening, t, j) /\ j \in 0 .. Len(wire)
        BY <3>1, <3>2 DEF FabricInv, WithdrawnInv
      <3>4. QED
        BY <2>2, <3>3
    <2>5. QED
      BY <2>3, <2>4
  <1>2. QED
    BY FabricInvariant, <1>1, PTL

(* Whatever is registered and withdrawn while a request for a service is   *)
(* under way, exactly one callback answers it: that of the service, or the *)
(* constructor's "unable to locate service" if it is gone.                 *)
THEOREM RequestsAnsweredOnce == FabricSpec => []AnsweredOnceInv
  <1>1. FabricInv => AnsweredOnceInv
    <2> SUFFICES ASSUME FabricInv, NEW r \in routed, r.id # NoId, ~destroyed
                 PROVE  Answer(r) = IF r.id \in services THEN {r.id} ELSE {Unavailable}
      BY DEF AnsweredOnceInv
    <2> DEFINE listed == client.callbacks["request"]
               matching == listed[r.topic] \cup listed[NoTopic]
    <2>1. /\ r.id \in Infos /\ r.topic \in topics[r.id]
          /\ topics \in [Infos -> SUBSET Topics]
      BY DEF FabricInv, RoutedInv, TypeInv
    <2>2. /\ r.topic \in Filters /\ NoTopic \in Filters
          /\ NoTopic \notin Topics /\ Unavailable \notin Infos
      BY <2>1, Distinct, CallbacksAssumption DEF Filters, AllTopics
    <2>3. /\ \A i \in Infos, t \in Filters :
               i \in listed[t] <=> i \in services /\ t \in topics[i]
          /\ Unavailable \in listed[NoTopic]
      BY DEF FabricInv, TablesInv
    <2>4. r.id \in matching <=> r.id \in services
      BY <2>1, <2>2, <2>3
    <2>5. Unavailable \in matching
      BY <2>3
    <2>6. Answer(r) = {i \in matching \cap Infos : r.id \in {NoId, i}} \cup
                      {u \in matching \cap {Unavailable} : r.id \notin services \cup {NoId}}
      BY DEF Answer
    <2> HIDE DEF matching, listed
    <2>7. CASE r.id \in services
      BY <2>1, <2>4, <2>6, <2>7
    <2>8. CASE r.id \notin services
      BY <2>1, <2>4, <2>5, <2>6, <2>8
    <2>9. QED
      BY <2>7, <2>8
  <1>2. QED
    BY FabricInvariant, <1>1, PTL
=============================================================================
