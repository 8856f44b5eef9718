-------------------------- MODULE ConnectionProofs --------------------------
(***************************************************************************)
(* Proofs about Connection.  The invariants speak of histories, which an   *)
(* action extends from what it finds; IInv says where a callback may still *)
(* come from: the first connection of an MQTT client, or one that is       *)
(* ending and not over.                                                    *)
(***************************************************************************)
EXTENDS Connection, TLAPS

(* A connect callback that may still run has not run yet. *)
FirstInv ==
    /\ \A m \in MqttClients :
         (m \in firstConn \/ state[m] = "new") => connects[m] = 0
    /\ ConnectOnceInv

(* Callbacks wait on MQTT clients that are ending, and each on one only. *)
WaitInv ==
    /\ \A m \in MqttClients : \A k \in endWaits[m] :
         /\ m \in ending /\ Open(m)
         /\ told[k] = 0
         /\ calls[k].op # "none"
         /\ \A n \in MqttClients : k \in endWaits[n] => n = m
    /\ \A k \in Calls : calls[k].op = "none"
                          => told[k] = 0 /\ calls[k].callback # "function"

(* The MQTT client disconnect() finds can still be ended. *)
CurrentInv ==
    /\ \A m \in MqttClients : state[m] = "ended" => m \in ending
    /\ current # None => state[current] # "new"

(* Without a second connect() no other MQTT client can connect. *)
SoleInv ==
    ~SecondConnect =>
        /\ \A m \in MqttClients : (Open(m) /\ m \notin ending) => m = current
        /\ CurrentBrokerInv

IInv ==
    TypeOK /\ FirstInv /\ WaitInv /\ CurrentInv /\ ToldOnceInv
           /\ NoLostCallbackInv /\ SoleInv

LEMMA InitIInv == Init => IInv
  BY ClientsAssumption, BoundsAssumption
     DEF Init, IInv, TypeOK, FirstInv, ConnectOnceInv, WaitInv, CurrentInv,
         ToldOnceInv, NoLostCallbackInv, SoleInv, CurrentBrokerInv, Connected,
         Open, Callback

LEMMA ConnectKeeps ==
  ASSUME IInv, NEW m \in MqttClients, NEW callback \in BOOLEAN,
         Connect(m, callback)
  PROVE  IInv'
  <1> USE ClientsAssumption, BoundsAssumption
          DEF Connect, IInv, stopping, breaks, outcome
  <1>1. TypeOK'
    BY DEF TypeOK
  <1>2. FirstInv'
    BY DEF TypeOK, FirstInv, ConnectOnceInv
  <1>3. WaitInv'
    BY DEF TypeOK, WaitInv, Open
  <1>4. CurrentInv'
    BY DEF TypeOK, CurrentInv
  <1>5. ToldOnceInv' /\ NoLostCallbackInv'
    BY DEF TypeOK, ToldOnceInv, NoLostCallbackInv, Open
  <1>6. SoleInv'
    BY DEF TypeOK, SoleInv, CurrentBrokerInv, Connected, Open
  <1>7. QED
    BY <1>1, <1>2, <1>3, <1>4, <1>5, <1>6

LEMMA OnConnectKeeps ==
  ASSUME IInv, NEW m \in MqttClients, NEW b \in Brokers, OnConnect(m, b)
  PROVE  IInv'
  <1> USE ClientsAssumption, BoundsAssumption
          DEF OnConnect, IInv, stopping, breaks, outcome
  <1>1. TypeOK'
    BY DEF TypeOK
  <1>2. FirstInv'
    BY DEF TypeOK, FirstInv, ConnectOnceInv
  <1>3. WaitInv'
    BY DEF TypeOK, WaitInv, Open
  <1>4. CurrentInv'
    BY DEF TypeOK, CurrentInv
  <1>5. ToldOnceInv' /\ NoLostCallbackInv'
    BY DEF TypeOK, ToldOnceInv, NoLostCallbackInv, Open
  <1>6. SoleInv'
    BY DEF TypeOK, SoleInv, CurrentBrokerInv, Connected, Open
  <1>7. QED
    BY <1>1, <1>2, <1>3, <1>4, <1>5, <1>6

(* What disconnect() and destroy() have in common. *)
LEMMA EndKeeps ==
  ASSUME IInv, NEW k \in Calls, NEW callback \in Callback, End(k, callback),
         calls[k].op = "none",
         NEW op \in {"disconnect", "destroy"},
         calls' = [calls EXCEPT ![k] = [op |-> op, callback |-> callback]],
         UNCHANGED <<current, state, server, lastBroker, firstConn, breaks,
                     connects>>,
         unacked' \subseteq MqttClients, held' \in BOOLEAN,
         toldHeld' \subseteq Calls
  PROVE  IInv'
  <1> USE ClientsAssumption, BoundsAssumption
          DEF IInv, stopping, breaks
  <1>1. TypeOK'
    BY DEF TypeOK, End, Callback
  <1>2. FirstInv'
    BY DEF TypeOK, FirstInv, ConnectOnceInv
  <1>3. WaitInv'
    <2>1. CASE current # None /\ current \notin ending
      <3>1. endWaits' = IF callback = "function"
                          THEN [endWaits EXCEPT ![current] = @ \cup {k}]
                          ELSE endWaits
        BY <2>1 DEF End
      <3>2. current \in MqttClients /\ Open(current)
        BY <2>1 DEF TypeOK, CurrentInv, Open
      <3>3. \A m \in MqttClients : k \notin endWaits[m]
        BY DEF WaitInv
      <3>4. \A m \in MqttClients : endWaits'[m] \subseteq endWaits[m] \cup {k}
        BY <3>1, <3>2 DEF TypeOK
      <3>5. \A m \in MqttClients : k \in endWaits'[m] => m = current
        BY <3>1, <3>2, <3>3 DEF TypeOK
      <3>6. told' = told /\ ending' = ending \cup {current}
        BY <2>1 DEF End
      <3>7. QED
        BY <2>1, <3>1, <3>2, <3>3, <3>4, <3>5, <3>6
           DEF TypeOK, WaitInv, Open, Callback
    <2>2. CASE ~(current # None /\ current \notin ending)
      BY <2>2 DEF TypeOK, WaitInv, End, Open
    <2>3. QED
      BY <2>1, <2>2
  <1>4. CurrentInv'
    BY DEF TypeOK, CurrentInv, End
  <1>5. ToldOnceInv'
    BY DEF TypeOK, WaitInv, ToldOnceInv, End
  <1>6. NoLostCallbackInv'
    BY DEF TypeOK, NoLostCallbackInv, WaitInv, CurrentInv, End, Open
  <1>7. SoleInv'
    BY DEF TypeOK, SoleInv, CurrentBrokerInv, Connected, Open, End
  <1>8. QED
    BY <1>1, <1>2, <1>3, <1>4, <1>5, <1>6, <1>7

LEMMA DisconnectKeeps ==
  ASSUME IInv, NEW k \in Calls, NEW callback \in Callback,
         Disconnect(k, callback)
  PROVE  IInv'
  <1>1. unacked' \subseteq MqttClients /\ held' \in BOOLEAN
        /\ toldHeld' \subseteq Calls
    BY DEF IInv, TypeOK, Disconnect
  <1>2. QED
    BY <1>1, EndKeeps DEF Disconnect

LEMMA DestroyKeeps ==
  ASSUME IInv, NEW k \in Calls, NEW callback \in Callback,
         Destroy(k, callback)
  PROVE  IInv'
  <1>1. unacked' \subseteq MqttClients /\ held' \in BOOLEAN
        /\ toldHeld' \subseteq Calls
    BY DEF IInv, TypeOK, Destroy
  <1>2. QED
    BY <1>1, EndKeeps DEF Destroy

LEMMA LibraryKeeps ==
  ASSUME IInv, NEW m \in MqttClients, Acknowledged(m) \/ Drop(m)
  PROVE  IInv'
  <1> USE ClientsAssumption, BoundsAssumption
          DEF IInv, stopping, breaks, outcome, Acknowledged, Drop
  <1>1. TypeOK'
    BY DEF TypeOK
  <1>2. FirstInv'
    BY DEF TypeOK, FirstInv, ConnectOnceInv
  <1>3. WaitInv'
    BY DEF TypeOK, WaitInv, Open
  <1>4. CurrentInv'
    BY DEF TypeOK, CurrentInv
  <1>5. ToldOnceInv' /\ NoLostCallbackInv'
    BY DEF TypeOK, ToldOnceInv, NoLostCallbackInv, Open
  <1>6. SoleInv'
    BY DEF TypeOK, SoleInv, CurrentBrokerInv, Connected, Open
  <1>7. QED
    BY <1>1, <1>2, <1>3, <1>4, <1>5, <1>6

LEMMA EndedKeeps ==
  ASSUME IInv, NEW m \in MqttClients, Ended(m)
  PROVE  IInv'
  <1> USE ClientsAssumption, BoundsAssumption DEF Ended, IInv, breaks
  <1>1. TypeOK'
    BY DEF TypeOK
  <1>2. FirstInv'
    BY DEF TypeOK, FirstInv, ConnectOnceInv
  <1>3. WaitInv'
    BY DEF TypeOK, WaitInv, Open
  <1>4. CurrentInv'
    BY DEF TypeOK, CurrentInv
  <1>5. ToldOnceInv'
    BY DEF TypeOK, ToldOnceInv, WaitInv
  <1>6. NoLostCallbackInv'
    BY DEF TypeOK, NoLostCallbackInv, WaitInv, Open
  <1>7. SoleInv'
    BY DEF TypeOK, SoleInv, CurrentBrokerInv, Connected, Open
  <1>8. QED
    BY <1>1, <1>2, <1>3, <1>4, <1>5, <1>6, <1>7

LEMMA StutterKeeps == IInv /\ UNCHANGED vars => IInv'
  BY DEF vars, IInv, TypeOK, FirstInv, ConnectOnceInv, WaitInv, CurrentInv,
         ToldOnceInv, NoLostCallbackInv, SoleInv, CurrentBrokerInv, Connected,
         Open

LEMMA Invariant == Spec => []IInv
  <1>1. IInv /\ [Next]_vars => IInv'
    <2> SUFFICES ASSUME IInv, [Next]_vars PROVE IInv'
      OBVIOUS
    <2>1. CASE \E m \in MqttClients, callback \in BOOLEAN : Connect(m, callback)
      BY <2>1, ConnectKeeps
    <2>2. CASE \E m \in MqttClients, b \in Brokers : OnConnect(m, b)
      BY <2>2, OnConnectKeeps
    <2>3. CASE \E m \in MqttClients : Acknowledged(m) \/ Drop(m)
      BY <2>3, LibraryKeeps
    <2>4. CASE \E m \in MqttClients : Ended(m)
      BY <2>4, EndedKeeps
    <2>5. CASE \E k \in Calls, callback \in Callback : Disconnect(k, callback)
      BY <2>5, DisconnectKeeps
    <2>6. CASE \E k \in Calls, callback \in Callback : Destroy(k, callback)
      BY <2>6, DestroyKeeps
    <2>7. CASE UNCHANGED vars
      BY <2>7, StutterKeeps
    <2>8. QED
      BY <2>1, <2>2, <2>3, <2>4, <2>5, <2>6, <2>7 DEF Next
  <1>2. QED
    BY InitIInv, <1>1, PTL DEF Spec

(* The client, the MQTT clients and the histories keep to their values. *)
THEOREM TypeCorrect == Spec => []TypeOK
  BY Invariant, PTL DEF IInv

(* The callback given to connect() runs at most once, over any number of    *)
(* reconnects and of MQTT clients.                                          *)
THEOREM ConnectCallbackOnce == Spec => []ConnectOnceInv
  BY Invariant, PTL DEF IInv, FirstInv

(* No callback of disconnect() or destroy() is invoked twice. *)
THEOREM EndCallbackOnce == Spec => []ToldOnceInv
  BY Invariant, PTL DEF IInv

(* Nor is one lost: it has run, or an MQTT client holds it that will end. *)
THEOREM EndCallbackKept == Spec => []NoLostCallbackInv
  BY Invariant, PTL DEF IInv

(* An application that connects only after it has disconnected finds the    *)
(* broker it is connected to in currentBroker.                              *)
THEOREM CurrentBrokerRight ==
  ASSUME ~SecondConnect PROVE Spec => []CurrentBrokerInv
  <1>1. IInv => CurrentBrokerInv
    BY DEF IInv, SoleInv
  <1>2. QED
    BY Invariant, <1>1, PTL
=============================================================================
