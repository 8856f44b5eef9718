------------------------ MODULE ServiceManagerProofs ------------------------
(***************************************************************************)
(* Proofs about ServiceManager, for any number of services, registrations, *)
(* topics and messages under way.  A timer is only ever armed for the      *)
(* object of an active service and under the handle the object holds, the  *)
(* table holds the callbacks of exactly the active services, and whoever   *)
(* is named on the wire is an object that was made.                        *)
(***************************************************************************)
EXTENDS ServiceManager, FiniteSetTheorems, SequenceTheorems, TLAPS

(* An object never loses the handle of a timer that is armed. *)
HandleInv ==
    \A r \in Regs, s \in Slots :
        <<r, s>> \in timers => objects[r].ttlTimeout = s

(* The wrapped callbacks are those of the active services. *)
ChannelInv ==
    \A t \in Topics, r \in Regs :
        <<t, r>> \in table
          <=> r \in Active /\ t \in objects[r].callbacksByTopic

(* Messages are about objects that were made. *)
Known(messages) ==
    \A k \in 1..Len(messages) :
        /\ messages[k].reg \in DOMAIN objects
        /\ messages[k].info = objects[messages[k].reg].info
KnownInv == Known(wire) /\ Known(replies)

(* A first callback that is still armed has not run. *)
ArmedInv ==
    /\ \A r \in Regs \ DOMAIN objects : firstCalls[r] = 0
    /\ ~MayThrow =>
         /\ \A r \in DOMAIN objects : objects[r].first => firstCalls[r] = 0
         /\ FirstOnceInv

IInv ==
    TypeOK /\ TimerInv /\ HandleInv /\ ChannelInv /\ KnownInv /\ ArmedInv
           /\ LastWordInv

-----------------------------------------------------------------------------
(* Lemmas on the operators *)

(* Every order of a finite set lists its elements, each once. *)
LEMMA Orders ==
  ASSUME NEW S, IsFiniteSet(S), NEW order \in SetToSeqs(S)
  PROVE  /\ order \in Seq(S)
         /\ Len(order) = Cardinality(S) /\ Len(order) \in Nat
         /\ \A k \in 1..Len(order) : order[k] \in S
         /\ \A j, k \in 1..Len(order) : j # k => order[j] # order[k]
  <1>1. Cardinality(S) \in Nat
    BY FS_CardinalityType
  <1>2. /\ order \in [1..Cardinality(S) -> S]
        /\ \A j, k \in 1..Cardinality(S) : j # k => order[j] # order[k]
    BY DEF SetToSeqs
  <1>3. order \in Seq(S) /\ Len(order) = Cardinality(S)
    BY <1>1, <1>2
  <1>4. QED
    BY <1>1, <1>2, <1>3

(* What was on the wire stays, and a batch that is sent follows it. *)
LEMMA SentMessages ==
  ASSUME wire \in Seq(Message), NEW batch \in Seq(Message)
  PROVE  /\ Sent(batch) \in Seq(Message)
         /\ Len(Sent(batch)) >= Len(wire)
         /\ mqtt = "online" => Len(Sent(batch)) = Len(wire) + Len(batch)
         /\ \A k \in 1..Len(wire) : Sent(batch)[k] = wire[k]
         /\ \A k \in Len(wire)+1..Len(Sent(batch)) :
              /\ k - Len(wire) \in 1..Len(batch)
              /\ Sent(batch)[k] = batch[k - Len(wire)]
  <1>1. CASE mqtt = "online"
    <2>1. Sent(batch) = wire \o batch
      BY <1>1 DEF Sent
    <2>2. /\ wire \o batch \in Seq(Message)
          /\ Len(wire \o batch) = Len(wire) + Len(batch)
          /\ \A i \in 1..Len(wire) + Len(batch) :
               (wire \o batch)[i] = IF i <= Len(wire) THEN wire[i]
                                    ELSE batch[i - Len(wire)]
      BY ConcatProperties
    <2>3. Len(wire) \in Nat /\ Len(batch) \in Nat
      OBVIOUS
    <2>4. QED
      BY <2>1, <2>2, <2>3
  <1>2. CASE mqtt # "online"
    <2>1. Sent(batch) = wire
      BY <1>2 DEF Sent
    <2>2. Len(wire) \in Nat
      OBVIOUS
    <2>3. QED
      BY <1>2, <2>1, <2>2
  <1>3. QED
    BY <1>1, <1>2

(* A single message that is sent comes last. *)
LEMMA SentMessage ==
  ASSUME TypeOK, NEW m \in Message, wire' = Sent(<<m>>)
  PROVE  /\ wire' \in Seq(Message)
         /\ Len(wire) \in Nat /\ Len(wire') \in Nat
         /\ Len(wire') >= Len(wire)
         /\ mqtt = "online" => Len(wire') = Len(wire) + 1
         /\ \A k \in 1..Len(wire) : wire'[k] = wire[k]
         /\ \A k \in Len(wire)+1..Len(wire') : k = Len(wire) + 1 /\ wire'[k] = m
  <1> DEFINE batch == <<m>>
  <1>1. Len(batch) = 1 /\ batch[1] = m
    OBVIOUS
  <1>2. wire \in Seq(Message) /\ batch \in Seq(Message) /\ wire' = Sent(batch)
    BY DEF TypeOK
  <1> HIDE DEF batch
  <1>3. /\ Sent(batch) \in Seq(Message)
        /\ Len(Sent(batch)) >= Len(wire)
        /\ mqtt = "online" => Len(Sent(batch)) = Len(wire) + Len(batch)
        /\ \A k \in 1..Len(wire) : Sent(batch)[k] = wire[k]
        /\ \A k \in Len(wire)+1..Len(Sent(batch)) :
              /\ k - Len(wire) \in 1..Len(batch)
              /\ Sent(batch)[k] = batch[k - Len(wire)]
    BY <1>2, SentMessages
  <1>4. Len(wire) \in Nat /\ Len(wire') \in Nat
    BY <1>2, <1>3
  <1>5. \A k \in Len(wire)+1..Len(wire') : k = Len(wire) + 1 /\ wire'[k] = m
    BY <1>1, <1>2, <1>3, <1>4
  <1>6. QED
    BY <1>1, <1>2, <1>3, <1>4, <1>5

Right(m, of) ==
    \/ m.op = "register" /\ m.info \in DOMAIN of /\ of[m.info] = m.reg
    \/ m.op = "unregister" /\ m.info \notin DOMAIN of

(* A message that is right about its service keeps the last words right, if *)
(* nothing happens to the other services.                                   *)
LEMMA LastWordSent ==
  ASSUME TypeOK, LastWordInv, NEW m \in Message, wire' = Sent(<<m>>),
         mqtt' = mqtt, Right(m, services'),
         \A i \in Infos \ {m.info} :
           /\ i \in DOMAIN services' <=> i \in DOMAIN services
           /\ i \in DOMAIN services => services'[i] = services[i]
  PROVE  LastWordInv'
  <1>1. /\ wire' \in Seq(Message)
        /\ Len(wire) \in Nat /\ Len(wire') \in Nat
        /\ Len(wire') >= Len(wire)
        /\ mqtt = "online" => Len(wire') = Len(wire) + 1
        /\ \A k \in 1..Len(wire) : wire'[k] = wire[k]
        /\ \A k \in Len(wire)+1..Len(wire') : k = Len(wire) + 1 /\ wire'[k] = m
    BY SentMessage
  <1>2. SUFFICES ASSUME mqtt = "online", NEW k \in 1..Len(wire'),
                        \A j \in k+1..Len(wire') : wire'[j].info # wire'[k].info
                 PROVE  Right(wire'[k], services')
    BY DEF LastWordInv, Right
  <1>3. CASE k = Len(wire) + 1
    BY <1>1, <1>3
  <1>4. CASE k # Len(wire) + 1
    <2>1. k \in 1..Len(wire) /\ wire'[k] = wire[k] /\ wire[k] \in Message
      BY <1>1, <1>2, <1>4 DEF TypeOK
    <2>2. wire[k].info # m.info /\ wire[k].info \in Infos
      BY <1>1, <1>2, <2>1 DEF Message
    <2>3. \A j \in k+1..Len(wire) : wire[j].info # wire[k].info
      <3> TAKE j \in k+1..Len(wire)
      <3>1. j \in 1..Len(wire) /\ j \in k+1..Len(wire')
        BY <1>1, <2>1
      <3>2. wire'[j] = wire[j] /\ wire'[k] = wire[k]
        BY <1>1, <2>1, <3>1
      <3>3. wire'[j].info # wire'[k].info
        BY <1>2, <3>1
      <3>4. QED
        BY <3>2, <3>3
    <2>4. Right(wire[k], services)
      BY <1>2, <2>1, <2>3 DEF LastWordInv, Right
    <2>5. QED
      BY <2>1, <2>2, <2>4 DEF Right
  <1>5. QED
    BY <1>3, <1>4

(* A slot is free for an object none of whose timers is armed. *)
LEMMA FreeSlotIsFree ==
  ASSUME NEW r, NEW from, \A s \in Slots : <<r, s>> \notin from
  PROVE  FreeSlot(r, from) \in Slots
  BY DEF FreeSlot, Slots

(* Every armed timer is one of these objects, under the handle it holds. *)
Handled(objs, from) ==
    /\ DOMAIN objs \subseteq Regs
    /\ \A r \in DOMAIN objs : objs[r] \in Object
    /\ from \subseteq (DOMAIN objs) \X Slots
    /\ \A r \in Regs, s \in Slots :
         <<r, s>> \in from => objs[r].ttlTimeout = s

(* The objects keep all but their handles, and those of regs are armed, or  *)
(* not, as the client is connected.                                         *)
Rearmed(regs, objs, from, connected) ==
    /\ DOMAIN objects' = DOMAIN objs
    /\ \A r \in DOMAIN objs :
         /\ objects'[r] \in Object
         /\ objects'[r].info = objs[r].info
         /\ objects'[r].first = objs[r].first
         /\ objects'[r].callbacksByTopic = objs[r].callbacksByTopic
    /\ timers' \subseteq (DOMAIN objs) \X Slots
    /\ HandleInv'
    /\ \A r \in Regs \ regs, s \in Slots :
         <<r, s>> \in timers' <=> <<r, s>> \in from
    /\ \A r \in regs : (\E s \in Slots : <<r, s>> \in timers') <=> connected

(* What registerService does to the timers and the objects. *)
LEMMA RegisterServicesEffect ==
  ASSUME NEW objs, NEW regs, NEW from, NEW connected,
         regs \subseteq DOMAIN objs, connected \in BOOLEAN,
         Handled(objs, from), RegisterServices(regs, objs, from, connected)
  PROVE  Rearmed(regs, objs, from, connected)
  <1> USE DEF Handled
  <1> DEFINE kept == WithoutTimers(from, regs, objs)
  <1>1. \A r \in Regs, s \in Slots :
          <<r, s>> \in kept <=> <<r, s>> \in from /\ r \notin regs
    BY DEF WithoutTimers
  <1>2. kept \subseteq from
    BY DEF WithoutTimers
  <1>3. \A r \in regs : FreeSlot(r, kept) \in Slots
    <2>1. TAKE r \in regs
    <2>2. \A s \in Slots : <<r, s>> \notin kept
      BY <1>1
    <2> HIDE DEF kept
    <2>3. QED
      BY <2>2, FreeSlotIsFree
  <1>4. CASE connected
    <2>1. timers' = kept \cup {<<r, FreeSlot(r, kept)>> : r \in regs}
      BY <1>4 DEF RegisterServices
    <2>2. objects' = [r \in DOMAIN objs |->
                       IF r \in regs
                         THEN [objs[r] EXCEPT !.ttlTimeout = FreeSlot(r, kept)]
                         ELSE objs[r]]
      BY <1>4 DEF RegisterServices
    <2> HIDE DEF kept
    <2>3. \A r \in DOMAIN objs :
              /\ objects'[r] \in Object
              /\ objects'[r].info = objs[r].info
              /\ objects'[r].first = objs[r].first
              /\ objects'[r].callbacksByTopic = objs[r].callbacksByTopic
              /\ r \in regs => objects'[r].ttlTimeout = FreeSlot(r, kept)
              /\ r \notin regs => objects'[r] = objs[r]
      BY <2>2, <1>3 DEF Object
    <2>4. timers' \subseteq (DOMAIN objs) \X Slots
      BY <2>1, <1>2, <1>3
    <2>5. \A r \in regs, s \in Slots :
            <<r, s>> \in timers' <=> s = FreeSlot(r, kept)
      <3>1. TAKE r \in regs, s \in Slots
      <3>2. <<r, s>> \notin kept
        BY <1>1
      <3>3. <<r, s>> \in timers'
              <=> \E q \in regs : <<r, s>> = <<q, FreeSlot(q, kept)>>
        BY <2>1, <3>2
      <3>4. QED
        BY <3>3
    <2>6. \A r \in Regs \ regs, s \in Slots :
            <<r, s>> \in timers' <=> <<r, s>> \in from
      <3>1. TAKE r \in Regs \ regs, s \in Slots
      <3>2. ~\E q \in regs : <<r, s>> = <<q, FreeSlot(q, kept)>>
        OBVIOUS
      <3>3. <<r, s>> \in timers' <=> <<r, s>> \in kept
        BY <2>1, <3>2
      <3>4. QED
        BY <1>1, <3>3
    <2>7. HandleInv'
      BY <2>3, <2>4, <2>5, <2>6 DEF HandleInv
    <2>8. DOMAIN objects' = DOMAIN objs
      BY <2>2
    <2>9. QED
      BY <1>3, <1>4, <2>3, <2>4, <2>5, <2>6, <2>7, <2>8 DEF Rearmed
  <1>5. CASE ~connected
    <2>1. timers' = kept /\ objects' = objs
      BY <1>5 DEF RegisterServices
    <2> HIDE DEF kept
    <2>2. QED
      BY <1>1, <1>2, <1>5, <2>1 DEF HandleInv, Rearmed
  <1>6. QED
    BY <1>4, <1>5

(* What unregisterService does to the table and the timers. *)
LEMMA UnregisterServicesEffect ==
  ASSUME TypeOK, HandleInv, ChannelInv, NEW regs \in SUBSET Active,
         UnregisterServices(regs)
  PROVE  /\ table' \subseteq table
         /\ \A t \in Topics, r \in Regs :
              <<t, r>> \in table' <=> <<t, r>> \in table /\ r \notin regs
         /\ timers' \subseteq timers
         /\ \A r \in Regs, s \in Slots :
              <<r, s>> \in timers' <=> <<r, s>> \in timers /\ r \notin regs
  BY DEF TypeOK, HandleInv, ChannelInv, UnregisterServices, WithoutTimers

LEMMA ActiveObjects ==
  ASSUME TypeOK
  PROVE  /\ Active \subseteq DOMAIN objects
         /\ Active \subseteq Regs
         /\ \A r \in Active : /\ objects[r].info \in DOMAIN services
                              /\ services[objects[r].info] = r
  BY DEF TypeOK, Active
-----------------------------------------------------------------------------
(* The actions *)

LEMMA InitIInv == Init => IInv
  <1> SUFFICES ASSUME Init PROVE IInv
    OBVIOUS
  <1>1. /\ DOMAIN services = {} /\ DOMAIN objects = {} /\ DOMAIN broker = {}
        /\ Active = {}
    BY DEF Init, EmptyMap, Active
  <1>2. TypeOK
    <2>1. wire \in Seq(Message) /\ replies \in Seq(Message)
      BY EmptySeq DEF Init
    <2>2. topics \in [Infos -> SUBSET Topics] /\ firstCalls \in [Regs -> Nat]
      BY DEF Init
    <2>3. /\ table = {} /\ timers = {} /\ mqtt = "offline"
          /\ destroyed = FALSE /\ pending = {} /\ asked = {} /\ told = {}
      BY DEF Init
    <2>4. QED
      BY <1>1, <2>1, <2>2, <2>3 DEF TypeOK
  <1>3. TimerInv /\ HandleInv /\ ChannelInv /\ ArmedInv
    BY <1>1 DEF Init, TimerInv, HandleInv, ChannelInv, ArmedInv, Connected,
                FirstOnceInv
  <1>4. KnownInv /\ LastWordInv
    BY DEF Init, KnownInv, Known, LastWordInv
  <1>5. QED
    BY <1>2, <1>3, <1>4 DEF IInv

(* registerServiceAsync: a new object, its timer, its REGISTER. *)
LEMMA RegisterKeeps ==
  ASSUME IInv, NEW info \in Infos, NEW r \in Regs, NEW callback \in BOOLEAN,
         RegisterServiceAsync(info, r, callback)
  PROVE  IInv'
  <1> DEFINE object == [info |-> info, first |-> callback,
                        callbacksByTopic |-> topics[info], ttlTimeout |-> 0]
             objs == Put(objects, r, object)
  <1> USE DEF IInv
  <1>1. /\ object \in Object
        /\ object.ttlTimeout = 0
    BY DEF Object, TypeOK
  <1>2. /\ r \notin DOMAIN objects /\ info \notin DOMAIN services
        /\ services' = Put(services, info, r)
        /\ RegisterServices({r}, objs, timers, Connected)
        /\ wire' = Sent(<<RegisterRequest(r, info)>>)
        /\ table' = table \cup (topics[info] \X {r})
        /\ UNCHANGED <<topics, mqtt, destroyed, replies, broker, history>>
    BY DEF RegisterServiceAsync
  <1>3. /\ DOMAIN objs = DOMAIN objects \cup {r}
        /\ \A q \in DOMAIN objects : objs[q] = objects[q]
        /\ objs[r] = object
    BY <1>2 DEF Put
  <1> HIDE DEF object, objs
  <1>4. /\ timers \subseteq (DOMAIN objs) \X Slots
        /\ \A q \in DOMAIN objs : objs[q] \in Object
        /\ DOMAIN objs \subseteq Regs
    BY <1>1, <1>3 DEF TypeOK
  <1>5. \A q \in Regs, s \in Slots :
          <<q, s>> \in timers => objs[q].ttlTimeout = s
    BY <1>2, <1>3 DEF TypeOK, HandleInv
  <1>6. /\ DOMAIN objects' = DOMAIN objs
        /\ \A q \in DOMAIN objs :
              /\ objects'[q] \in Object
              /\ objects'[q].info = objs[q].info
              /\ objects'[q].first = objs[q].first
              /\ objects'[q].callbacksByTopic = objs[q].callbacksByTopic
        /\ timers' \subseteq (DOMAIN objs) \X Slots
        /\ HandleInv'
        /\ \A q \in Regs \ {r}, s \in Slots :
              <<q, s>> \in timers' <=> <<q, s>> \in timers
        /\ (\E s \in Slots : <<r, s>> \in timers') <=> Connected
    <2>1. Connected \in BOOLEAN /\ {r} \subseteq DOMAIN objs
      BY <1>3 DEF Connected
    <2>2. Handled(objs, timers)
      BY <1>4, <1>5 DEF Handled
    <2>3. Rearmed({r}, objs, timers, Connected)
      BY <1>2, <2>1, <2>2, RegisterServicesEffect
    <2>4. QED
      BY <2>3 DEF Rearmed
  <1>7. /\ DOMAIN services' = DOMAIN services \cup {info}
        /\ \A i \in DOMAIN services : services'[i] = services[i]
        /\ services'[info] = r
    BY <1>2 DEF Put
  <1>8. Active' = Active \cup {r}
    BY <1>2, <1>7 DEF Active
  <1>9. RegisterRequest(r, info) \in Message
    BY DEF RegisterRequest, Message, TypeOK
  <1>11. /\ wire' \in Seq(Message)
         /\ Len(wire) \in Nat /\ Len(wire') \in Nat
         /\ \A k \in 1..Len(wire) : wire'[k] = wire[k]
         /\ \A k \in Len(wire)+1..Len(wire') :
              /\ k = Len(wire) + 1
              /\ wire'[k] = RegisterRequest(r, info)
    BY <1>2, <1>9, SentMessage
  <1>12. TypeOK'
    <2>1. table' \subseteq Topics \X (DOMAIN objects')
      BY <1>2, <1>3, <1>6 DEF TypeOK
    <2>2. \A i \in DOMAIN services' : services'[i] \in DOMAIN objects'
                                  /\ objects'[services'[i]].info = i
      <3>1. TAKE i \in DOMAIN services'
      <3>2. CASE i = info
        BY <1>3, <1>6, <1>7, <3>2 DEF object
      <3>3. CASE i # info
        <4>1. /\ i \in DOMAIN services /\ services'[i] = services[i]
              /\ services[i] \in DOMAIN objects
              /\ objects[services[i]].info = i
          BY <1>7, <3>3 DEF TypeOK
        <4>2. QED
          BY <1>3, <1>6, <4>1
      <3>4. QED
        BY <3>2, <3>3
    <2>3. QED
      BY <1>2, <1>3, <1>4, <1>6, <1>7, <1>11, <2>1, <2>2 DEF TypeOK, history
  <1>13. TimerInv'
    <2>1. \A q \in Active : q \in Regs \ {r}
      BY <1>2, ActiveObjects
    <2>2. \A x \in timers' : x[1] \in Active'
      <3>1. TAKE x \in timers'
      <3>2. x[1] \in Regs /\ x[2] \in Slots /\ x = <<x[1], x[2]>>
        BY <1>4, <1>6
      <3>3. CASE x[1] = r
        BY <1>8, <3>3
      <3>4. CASE x[1] # r
        <4>1. x \in timers
          BY <1>6, <3>2, <3>4
        <4>2. QED
          BY <1>8, <4>1 DEF TimerInv
      <3>5. QED
        BY <3>3, <3>4
    <2>3. Connected' => \A q \in Active' : \E s \in Slots : <<q, s>> \in timers'
      BY <1>2, <1>6, <1>8, <2>1 DEF TimerInv, Connected
    <2>4. QED
      BY <1>6, <2>2, <2>3 DEF TimerInv, HandleInv
  <1>14. ChannelInv'
    <2>1. \A q \in Active : q \in DOMAIN objects /\ q # r
      BY <1>2, ActiveObjects
    <2>2. \A t \in Topics : <<t, r>> \notin table
      BY <1>2 DEF TypeOK
    <2>3. objects'[r].callbacksByTopic = topics[info]
      BY <1>1, <1>3, <1>6 DEF object
    <2>4. QED
      BY <1>2, <1>3, <1>6, <1>8, <2>1, <2>2, <2>3 DEF ChannelInv
  <1>15. KnownInv'
    <2>1. \A q \in DOMAIN objects : q \in DOMAIN objects'
                                 /\ objects'[q].info = objects[q].info
      BY <1>3, <1>6
    <2>2. r \in DOMAIN objects' /\ objects'[r].info = info
      BY <1>3, <1>6 DEF object
    <2>3. Known(replies)'
      BY <1>2, <2>1 DEF KnownInv, Known
    <2>4. Known(wire)'
      <3>1. SUFFICES ASSUME NEW k \in 1..Len(wire')
                     PROVE  /\ wire'[k].reg \in DOMAIN objects'
                            /\ wire'[k].info = objects'[wire'[k].reg].info
        BY DEF Known
      <3>2. Len(wire) \in Nat /\ Len(wire') \in Nat
        BY <1>11
      <3>3. CASE k \in 1..Len(wire)
        BY <1>11, <2>1, <3>3 DEF KnownInv, Known
      <3>4. CASE k \in Len(wire)+1..Len(wire')
        BY <1>11, <2>2, <3>4 DEF RegisterRequest
      <3>5. QED
        BY <3>2, <3>3, <3>4
    <2>5. QED
      BY <2>3, <2>4 DEF KnownInv
  <1>16. ArmedInv'
    BY <1>1, <1>2, <1>3, <1>6 DEF ArmedInv, FirstOnceInv, history, object
  <1>17. LastWordInv'
    <2>1. Right(RegisterRequest(r, info), services')
      BY <1>7 DEF Right, RegisterRequest
    <2>2. RegisterRequest(r, info).info = info
      BY DEF RegisterRequest
    <2>3. mqtt' = mqtt
      BY <1>2
    <2>4. QED
      BY <1>2, <1>7, <1>9, <2>1, <2>2, <2>3, LastWordSent
  <1>18. QED
    BY <1>6, <1>12, <1>13, <1>14, <1>15, <1>16, <1>17

(* A batch of UNREGISTERs for known objects keeps the wire well-formed. *)
LEMMA UnregisterSends ==
  ASSUME TypeOK, KnownInv, NEW regs, regs \subseteq Active,
         UnregisterServices(regs)
  PROVE  /\ wire' \in Seq(Message)
         /\ \A k \in 1..Len(wire') :
              /\ wire'[k].reg \in DOMAIN objects
              /\ wire'[k].info = objects[wire'[k].reg].info
  <1>1. /\ regs \subseteq DOMAIN objects /\ IsFiniteSet(regs)
        /\ \A r \in regs : r \in Regs /\ objects[r].info \in Infos
    BY ActiveObjects, FiniteAssumption, FS_Subset DEF TypeOK
  <1>2. PICK order \in SetToSeqs(regs) :
          wire' = Sent([k \in 1..Len(order) |->
                         UnregisterRequest(order[k], objects[order[k]].info)])
    BY DEF UnregisterServices
  <1> DEFINE batch == [k \in 1..Len(order) |->
                         UnregisterRequest(order[k], objects[order[k]].info)]
  <1>3. Len(order) \in Nat /\ \A k \in 1..Len(order) : order[k] \in regs
    BY <1>1, Orders
  <1>4. \A k \in 1..Len(order) :
          /\ batch[k] \in Message
          /\ batch[k].reg \in DOMAIN objects
          /\ batch[k].info = objects[batch[k].reg].info
    BY <1>1, <1>3 DEF UnregisterRequest, Message
  <1>5. batch \in Seq(Message) /\ Len(batch) = Len(order)
    <2>1. batch \in [1..Len(order) -> Message]
      BY <1>4
    <2> HIDE DEF batch
    <2>2. QED
      BY <1>3, <2>1
  <1>6. wire \in Seq(Message) /\ wire' = Sent(batch)
    BY <1>2 DEF TypeOK
  <1> HIDE DEF batch
  <1>7. /\ Sent(batch) \in Seq(Message)
        /\ Len(Sent(batch)) >= Len(wire)
        /\ \A k \in 1..Len(wire) : Sent(batch)[k] = wire[k]
        /\ \A k \in Len(wire)+1..Len(Sent(batch)) :
              /\ k - Len(wire) \in 1..Len(batch)
              /\ Sent(batch)[k] = batch[k - Len(wire)]
    BY <1>5, <1>6, SentMessages
  <1>8. ASSUME NEW k \in 1..Len(wire')
        PROVE  /\ wire'[k].reg \in DOMAIN objects
               /\ wire'[k].info = objects[wire'[k].reg].info
    <2>1. Len(wire) \in Nat /\ Len(wire') \in Nat
      BY <1>6, <1>7
    <2>2. CASE k \in 1..Len(wire)
      BY <1>6, <1>7, <2>2 DEF KnownInv, Known
    <2>3. CASE k \in Len(wire)+1..Len(wire')
      BY <1>4, <1>5, <1>6, <1>7, <2>3
    <2>4. QED
      BY <2>1, <2>2, <2>3
  <1>9. QED
    BY <1>6, <1>7, <1>8

(* The UNREGISTER of a single service is a single message. *)
LEMMA UnregisterSendsOne ==
  ASSUME NEW r, UnregisterServices({r})
  PROVE  wire' = Sent(<<UnregisterRequest(r, objects[r].info)>>)
  <1>1. IsFiniteSet({r}) /\ Cardinality({r}) = 1
    BY FS_Singleton
  <1>2. PICK order \in SetToSeqs({r}) :
          wire' = Sent([k \in 1..Len(order) |->
                         UnregisterRequest(order[k], objects[order[k]].info)])
    BY DEF UnregisterServices
  <1>3. Len(order) = 1 /\ order[1] = r
    <2> DEFINE S == {r}
    <2>1. IsFiniteSet(S) /\ Cardinality(S) = 1 /\ order \in SetToSeqs(S)
      BY <1>1
    <2> HIDE DEF S
    <2>2. /\ Len(order) = Cardinality(S)
          /\ \A k \in 1..Len(order) : order[k] \in S
      BY <2>1, Orders
    <2> USE DEF S
    <2>3. QED
      BY <2>1, <2>2
  <1>4. [k \in 1..Len(order) |->
           UnregisterRequest(order[k], objects[order[k]].info)]
          = <<UnregisterRequest(r, objects[r].info)>>
    BY <1>3
  <1>5. QED
    BY <1>2, <1>4

LEMMA UnregisterKeeps ==
  ASSUME IInv, NEW info \in Infos, NEW callback \in BOOLEAN,
         UnregisterServiceAsync(info, callback)
  PROVE  IInv'
  <1> USE DEF IInv
  <1> DEFINE r == services[info]
  <1>1. /\ info \in DOMAIN services
        /\ services' = Delete(services, info)
        /\ UnregisterServices({r})
        /\ UNCHANGED <<topics, objects, mqtt, destroyed, replies, broker,
                        firstCalls, told>>
        /\ asked \subseteq asked' /\ asked' \subseteq asked \cup {r}
        /\ pending' \subseteq asked'
    BY DEF UnregisterServiceAsync, TypeOK
  <1>2. r \in Active /\ r \in DOMAIN objects /\ objects[r].info = info
    BY <1>1 DEF Active, TypeOK
  <1> HIDE DEF r
  <1>3. /\ DOMAIN services' = DOMAIN services \ {info}
        /\ \A i \in DOMAIN services' : services'[i] = services[i]
    BY <1>1 DEF Delete
  <1>4. Active' = Active \ {r}
    <2>1. \A q \in Active' : q \in Active /\ q # r
      BY <1>2, <1>3 DEF Active, TypeOK
    <2>2. \A q \in Active : q # r => q \in Active'
      <3>1. TAKE q \in Active
      <3>2. PICK i \in DOMAIN services : q = services[i]
        BY DEF Active
      <3>3. ASSUME q # r PROVE q \in Active'
        <4>1. i # info
          BY <3>2, <3>3 DEF r
        <4>2. QED
          BY <1>3, <3>2, <4>1 DEF Active
      <3>4. QED
        BY <3>3
    <2>3. QED
      BY <2>1, <2>2
  <1>5. /\ table' \subseteq table
        /\ \A t \in Topics, q \in Regs :
             <<t, q>> \in table' <=> <<t, q>> \in table /\ q \notin {r}
        /\ timers' \subseteq timers
        /\ \A q \in Regs, s \in Slots :
             <<q, s>> \in timers' <=> <<q, s>> \in timers /\ q \notin {r}
    <2>1. {r} \in SUBSET Active
      BY <1>2
    <2>2. QED
      BY <1>1, <2>1, UnregisterServicesEffect
  <1>6. /\ wire' \in Seq(Message)
        /\ \A k \in 1..Len(wire') :
              /\ wire'[k].reg \in DOMAIN objects
              /\ wire'[k].info = objects[wire'[k].reg].info
    <2>1. {r} \subseteq Active
      BY <1>2
    <2>2. QED
      BY <1>1, <2>1, UnregisterSends
  <1>7. TypeOK'
    BY <1>1, <1>2, <1>3, <1>5, <1>6 DEF TypeOK
  <1>8. TimerInv'
    <2>1. \A x \in timers' : x[1] \in Active'
      <3>1. TAKE x \in timers'
      <3>2. x[1] \in Regs /\ x[2] \in Slots /\ x = <<x[1], x[2]>>
        BY <1>5 DEF TypeOK
      <3>3. x \in timers /\ x[1] # r
        BY <1>5, <3>2
      <3>4. QED
        BY <1>4, <3>3 DEF TimerInv
    <2>2. \A q \in Active' : q \in Active /\ q # r /\ q \in Regs
      BY <1>4, ActiveObjects
    <2>3. QED
      BY <1>1, <1>5, <2>1, <2>2 DEF TimerInv, Connected
  <1>9. HandleInv' /\ ArmedInv'
    BY <1>1, <1>5 DEF HandleInv, ArmedInv, FirstOnceInv
  <1>10. ChannelInv'
    BY <1>1, <1>4, <1>5 DEF ChannelInv
  <1>11. KnownInv'
    BY <1>1, <1>6 DEF KnownInv, Known
  <1>12. LastWordInv'
    <2> DEFINE m == UnregisterRequest(r, info)
    <2>1. m \in Message /\ m.info = info
      BY <1>2 DEF TypeOK, UnregisterRequest, Message
    <2>2. Right(m, services')
      BY <1>3 DEF Right, UnregisterRequest
    <2>3. wire' = Sent(<<m>>) /\ mqtt' = mqtt
      BY <1>1, <1>2, UnregisterSendsOne
    <2> HIDE DEF m
    <2>4. QED
      BY <1>3, <2>1, <2>2, <2>3, LastWordSent
  <1>13. QED
    BY <1>7, <1>8, <1>9, <1>10, <1>11, <1>12

(* A renewal: the timer that fired is replaced, if the client is connected. *)
LEMMA TtlKeeps ==
  ASSUME IInv, NEW r \in Regs, NEW s \in Slots, TtlFires(r, s)
  PROVE  IInv'
  <1> USE DEF IInv
  <1> DEFINE from == timers \ {<<r, s>>}
             m == RegisterRequest(r, objects[r].info)
  <1>1. /\ <<r, s>> \in timers
        /\ RegisterServices({r}, objects, from, Connected)
        /\ wire' = Sent(<<m>>)
        /\ UNCHANGED <<topics, services, table, mqtt, destroyed, replies,
                        broker, history>>
    BY DEF TtlFires
  <1>2. r \in Active
    BY <1>1 DEF TimerInv
  <1>3. /\ r \in DOMAIN objects /\ objects[r].info \in DOMAIN services
        /\ services[objects[r].info] = r
        /\ objects[r].info \in Infos
    BY <1>2, ActiveObjects DEF TypeOK
  <1>4. /\ from \subseteq timers
        /\ \A q \in Regs \ {r}, u \in Slots :
             <<q, u>> \in from <=> <<q, u>> \in timers
    OBVIOUS
  <1> HIDE DEF from
  <1>5. Rearmed({r}, objects, from, Connected)
    <2>1. Handled(objects, from)
      BY <1>4 DEF Handled, TypeOK, HandleInv
    <2>2. {r} \subseteq DOMAIN objects /\ Connected \in BOOLEAN
      BY <1>3 DEF Connected
    <2>3. QED
      BY <1>1, <2>1, <2>2, RegisterServicesEffect
  <1>6. Active' = Active
    BY <1>1 DEF Active
  <1>7. m \in Message /\ m.reg = r /\ m.info = objects[r].info
    BY <1>3 DEF RegisterRequest, Message, TypeOK
  <1>8. Right(m, services')
    BY <1>1, <1>3 DEF Right, RegisterRequest
  <1> HIDE DEF m
  <1>9. /\ wire' \in Seq(Message)
        /\ Len(wire) \in Nat /\ Len(wire') \in Nat
        /\ \A k \in 1..Len(wire) : wire'[k] = wire[k]
        /\ \A k \in Len(wire)+1..Len(wire') :
             k = Len(wire) + 1 /\ wire'[k] = m
    BY <1>1, <1>7, SentMessage
  <1>10. TypeOK'
    BY <1>1, <1>5, <1>9 DEF TypeOK, Rearmed, history
  <1>11. TimerInv'
    <2>1. \A x \in timers' : x[1] \in Active
      <3>1. TAKE x \in timers'
      <3>2. x[1] \in Regs /\ x[2] \in Slots /\ x = <<x[1], x[2]>>
        BY <1>5 DEF TypeOK, Rearmed
      <3>3. CASE x[1] = r
        BY <1>2, <3>3
      <3>4. CASE x[1] # r
        BY <1>4, <1>5, <3>2, <3>4 DEF Rearmed, TimerInv
      <3>5. QED
        BY <3>3, <3>4
    <2>2. \A q \in Active : q \in Regs
      BY ActiveObjects
    <2>3. Connected' => \A q \in Active : \E u \in Slots : <<q, u>> \in timers'
      BY <1>1, <1>4, <1>5, <2>2 DEF Rearmed, TimerInv, Connected
    <2>4. HandleInv'
      BY <1>5 DEF Rearmed
    <2>5. QED
      BY <1>6, <2>1, <2>3, <2>4 DEF TimerInv, HandleInv
  <1>12. HandleInv'
    BY <1>5 DEF Rearmed
  <1>13. ChannelInv'
    BY <1>1, <1>5, <1>6, ActiveObjects DEF ChannelInv, Rearmed
  <1>14. KnownInv'
    <2>1. Known(replies)'
      BY <1>1, <1>5 DEF KnownInv, Known, Rearmed
    <2>2. ASSUME NEW k \in 1..Len(wire')
          PROVE  /\ wire'[k].reg \in DOMAIN objects'
                 /\ wire'[k].info = objects'[wire'[k].reg].info
      <3>1. CASE k \in 1..Len(wire)
        BY <1>5, <1>9, <3>1 DEF KnownInv, Known, Rearmed
      <3>2. CASE k \in Len(wire)+1..Len(wire')
        BY <1>3, <1>5, <1>7, <1>9, <3>2 DEF Rearmed
      <3>3. QED
        BY <1>9, <3>1, <3>2
    <2>3. QED
      BY <2>1, <2>2 DEF KnownInv, Known
  <1>15. ArmedInv'
    BY <1>1, <1>5 DEF ArmedInv, FirstOnceInv, Rearmed, history
  <1>16. LastWordInv'
    <2>1. mqtt' = mqtt /\ services' = services
      BY <1>1
    <2>2. QED
      BY <1>1, <1>7, <1>8, <2>1, LastWordSent
  <1>17. QED
    BY <1>10, <1>11, <1>12, <1>13, <1>14, <1>15, <1>16

(* A connection: everything that is active is registered, in some order. *)
LEMMA OnConnectedKeeps ==
  ASSUME IInv, OnConnected
  PROVE  IInv'
  <1> USE DEF IInv
  <1>1. /\ mqtt' = "online"
        /\ RegisterServices(Active, objects, timers, TRUE)
        /\ UNCHANGED <<topics, services, table, destroyed, replies, broker,
                        history>>
    BY DEF OnConnected
  <1>2. PICK order \in SetToSeqs(DOMAIN services) :
          wire' = [k \in 1..Len(order) |->
                     RegisterRequest(services[order[k]], order[k])]
    BY DEF OnConnected
  <1>3. /\ Len(order) \in Nat
        /\ \A k \in 1..Len(order) : order[k] \in DOMAIN services
        /\ \A j, k \in 1..Len(order) : j # k => order[j] # order[k]
    <2>1. IsFiniteSet(DOMAIN services)
      BY FiniteAssumption, FS_Subset DEF TypeOK
    <2>2. QED
      BY <1>2, <2>1, Orders
  <1>4. \A k \in 1..Len(order) :
          /\ wire'[k] \in Message
          /\ wire'[k].op = "register"
          /\ wire'[k].info = order[k]
          /\ wire'[k].reg = services[order[k]]
    BY <1>2, <1>3 DEF RegisterRequest, Message, TypeOK
  <1>5. wire' \in Seq(Message) /\ Len(wire') = Len(order)
    <2>1. wire' \in [1..Len(order) -> Message]
      BY <1>2, <1>4
    <2>2. QED
      BY <1>3, <2>1
  <1>6. Rearmed(Active, objects, timers, TRUE)
    <2>1. Handled(objects, timers)
      BY DEF Handled, TypeOK, HandleInv
    <2>2. QED
      BY <1>1, <2>1, ActiveObjects, RegisterServicesEffect
  <1>7. Active' = Active
    BY <1>1 DEF Active
  <1>8. TypeOK'
    BY <1>1, <1>5, <1>6 DEF TypeOK, Rearmed, history
  <1>9. HandleInv'
    BY <1>6 DEF Rearmed
  <1>10. TimerInv'
    <2>1. \A x \in timers' : x[1] \in Active
      <3>1. TAKE x \in timers'
      <3>2. x[1] \in Regs /\ x[2] \in Slots /\ x = <<x[1], x[2]>>
        BY <1>6 DEF TypeOK, Rearmed
      <3>3. QED
        BY <1>6, <3>2 DEF Rearmed, TimerInv
    <2>2. \A q \in Active : \E u \in Slots : <<q, u>> \in timers'
      BY <1>6 DEF Rearmed
    <2>3. QED
      BY <1>7, <1>9, <2>1, <2>2 DEF TimerInv, HandleInv
  <1>11. ChannelInv'
    BY <1>1, <1>6, <1>7, ActiveObjects DEF ChannelInv, Rearmed
  <1>12. KnownInv'
    <2>1. Known(replies)'
      BY <1>1, <1>6 DEF KnownInv, Known, Rearmed
    <2>2. \A i \in DOMAIN services : /\ services[i] \in DOMAIN objects'
                                   /\ objects'[services[i]].info = i
      BY <1>6 DEF TypeOK, Rearmed
    <2>3. Known(wire)'
      BY <1>3, <1>4, <1>5, <2>2 DEF Known
    <2>4. QED
      BY <2>1, <2>3 DEF KnownInv
  <1>13. ArmedInv'
    BY <1>1, <1>6 DEF ArmedInv, FirstOnceInv, Rearmed, history
  <1>14. LastWordInv'
    BY <1>1, <1>3, <1>4, <1>5 DEF LastWordInv
  <1>15. QED
    BY <1>8, <1>9, <1>10, <1>11, <1>12, <1>13, <1>14

LEMMA DestroyKeeps ==
  ASSUME IInv, Destroy
  PROVE  IInv'
  <1> USE DEF IInv
  <1>1. /\ services' = EmptyMap /\ destroyed' = TRUE
        /\ UnregisterServices(Active)
        /\ mqtt' = IF mqtt = "online" THEN "ending" ELSE mqtt
        /\ UNCHANGED <<topics, objects, replies, broker, history>>
    BY DEF Destroy
  <1>2. DOMAIN services' = {} /\ Active' = {}
    BY <1>1 DEF EmptyMap, Active
  <1>3. /\ table' \subseteq table
        /\ \A t \in Topics, r \in Regs :
             <<t, r>> \in table' <=> <<t, r>> \in table /\ r \notin Active
        /\ timers' \subseteq timers
        /\ \A r \in Regs, s \in Slots :
             <<r, s>> \in timers' <=> <<r, s>> \in timers /\ r \notin Active
    <2>1. Active \in SUBSET Active
      OBVIOUS
    <2>2. QED
      BY <1>1, <2>1, UnregisterServicesEffect
  <1>4. /\ wire' \in Seq(Message)
        /\ \A k \in 1..Len(wire') :
              /\ wire'[k].reg \in DOMAIN objects
              /\ wire'[k].info = objects[wire'[k].reg].info
    BY <1>1, UnregisterSends
  <1>5. TypeOK'
    BY <1>1, <1>2, <1>3, <1>4 DEF TypeOK, history
  <1>6. timers' = {}
    <2>1. ASSUME NEW x \in timers' PROVE FALSE
      <3>1. x[1] \in Regs /\ x[2] \in Slots /\ x = <<x[1], x[2]>>
        BY <1>3 DEF TypeOK
      <3>2. QED
        BY <1>3, <3>1 DEF TimerInv
    <2>2. QED
      BY <2>1
  <1>7. TimerInv' /\ HandleInv' /\ ArmedInv'
    BY <1>1, <1>2, <1>6 DEF TimerInv, HandleInv, ArmedInv, FirstOnceInv, history
  <1>8. ChannelInv'
    BY <1>1, <1>2, <1>3 DEF ChannelInv
  <1>9. KnownInv'
    BY <1>1, <1>4 DEF KnownInv, Known
  <1>10. LastWordInv'
    BY <1>1 DEF LastWordInv
  <1>11. QED
    BY <1>5, <1>7, <1>8, <1>9, <1>10

(* Whatever leaves the manager, its objects and the wire alone. *)
Quiet ==
    /\ UNCHANGED <<services, objects, table, timers, destroyed, wire, replies,
                   pending, firstCalls, asked, told>>
    /\ topics' \in [Infos -> SUBSET Topics]
    /\ mqtt' \in {"offline", "online", "ending"}
    /\ mqtt' = mqtt \/ (mqtt = "online" /\ mqtt' = "ending")
    /\ DOMAIN broker' \subseteq Infos

LEMMA QuietKeeps ==
  ASSUME IInv, Quiet
  PROVE  IInv'
  <1> USE DEF IInv, Quiet
  <1>1. TypeOK'
    BY DEF TypeOK, history
  <1>2. TimerInv'
    BY DEF TimerInv, Active, Connected
  <1>3. HandleInv' /\ ChannelInv' /\ KnownInv'
    BY DEF HandleInv, ChannelInv, KnownInv, Known, Active
  <1>4. ArmedInv' /\ LastWordInv'
    BY DEF ArmedInv, FirstOnceInv, LastWordInv, history
  <1>5. QED
    BY <1>1, <1>2, <1>3, <1>4

LEMMA AddTopicKeeps ==
  ASSUME IInv, NEW info \in Infos, NEW topic \in Topics, AddTopic(info, topic)
  PROVE  IInv'
  <1>1. /\ topics' = [topics EXCEPT ![info] = @ \cup {topic}]
        /\ UNCHANGED <<services, objects, table, timers, destroyed, wire,
                       replies, mqtt, broker, history>>
    BY DEF AddTopic, fabric
  <1>2. TypeOK
    BY DEF IInv
  <1>3. /\ topics' \in [Infos -> SUBSET Topics]
        /\ mqtt' \in {"offline", "online", "ending"}
        /\ DOMAIN broker' \subseteq Infos
    BY <1>1, <1>2 DEF TypeOK
  <1>4. QED
    BY <1>1, <1>2, <1>3, QuietKeeps DEF Quiet, TypeOK, history

LEMMA DisconnectKeeps ==
  ASSUME IInv, Disconnect
  PROVE  IInv'
  <1>1. /\ mqtt = "online" /\ mqtt' = "ending"
        /\ UNCHANGED <<topics, services, objects, table, timers, destroyed,
                       wire, replies, broker, history>>
    BY DEF Disconnect, client
  <1>2. TypeOK
    BY DEF IInv
  <1>3. topics' \in [Infos -> SUBSET Topics] /\ DOMAIN broker' \subseteq Infos
    BY <1>1, <1>2 DEF TypeOK
  <1>4. QED
    BY <1>1, <1>2, <1>3, QuietKeeps DEF Quiet, TypeOK, history

LEMMA ExpiresKeeps ==
  ASSUME IInv, NEW info \in Infos, BrokerExpires(info)
  PROVE  IInv'
  <1>1. /\ broker' = Delete(broker, info)
        /\ UNCHANGED <<topics, services, objects, table, timers, destroyed,
                       wire, replies, mqtt, history>>
    BY DEF BrokerExpires, client
  <1>2. TypeOK
    BY DEF IInv
  <1>3. /\ topics' \in [Infos -> SUBSET Topics]
        /\ mqtt' \in {"offline", "online", "ending"}
        /\ DOMAIN broker' \subseteq Infos
    BY <1>1, <1>2 DEF TypeOK, Delete
  <1>4. QED
    BY <1>1, <1>2, <1>3, QuietKeeps DEF Quiet, TypeOK, history

(* The connection is gone, with all that was on its way. *)
LEMMA ClosedKeeps ==
  ASSUME IInv, Closed
  PROVE  IInv'
  <1> USE DEF IInv
  <1>1. /\ mqtt' = "offline" /\ wire' = <<>> /\ replies' = <<>>
        /\ UNCHANGED <<topics, services, objects, table, timers, destroyed,
                       broker, history>>
    BY DEF Closed, client
  <1>2. TypeOK'
    <2>1. wire' \in Seq(Message) /\ replies' \in Seq(Message)
      BY <1>1, EmptySeq
    <2>2. QED
      BY <1>1, <2>1 DEF TypeOK, history
  <1>3. TimerInv'
    BY <1>1 DEF TimerInv, Active, Connected
  <1>4. HandleInv' /\ ChannelInv'
    BY <1>1 DEF HandleInv, ChannelInv, Active
  <1>5. KnownInv' /\ LastWordInv'
    BY <1>1 DEF KnownInv, Known, LastWordInv
  <1>6. ArmedInv'
    BY <1>1 DEF ArmedInv, FirstOnceInv, history
  <1>7. QED
    BY <1>2, <1>3, <1>4, <1>5, <1>6

(* The broker takes the first message and answers it. *)
LEMMA BrokerHandlesKeeps ==
  ASSUME IInv, BrokerHandles
  PROVE  IInv'
  <1> USE DEF IInv
  <1>1. /\ wire # <<>> /\ wire' = Tail(wire)
        /\ replies' = Append(replies, Head(wire))
        /\ UNCHANGED <<topics, services, objects, table, timers, destroyed,
                       mqtt, history>>
    BY DEF BrokerHandles, client
  <1>2. wire \in Seq(Message) /\ replies \in Seq(Message)
    BY DEF TypeOK
  <1>3. /\ Len(wire) \in Nat /\ Len(wire) > 0
        /\ wire' \in Seq(Message) /\ Len(wire') = Len(wire) - 1
        /\ \A k \in 1..Len(wire') : wire'[k] = wire[k + 1]
        /\ Head(wire) = wire[1] /\ Head(wire) \in Message
    BY <1>1, <1>2
  <1>4. /\ Len(replies) \in Nat
        /\ replies' \in Seq(Message) /\ Len(replies') = Len(replies) + 1
        /\ \A k \in 1..Len(replies) : replies'[k] = replies[k]
        /\ replies'[Len(replies) + 1] = wire[1]
    <2> DEFINE m == Head(wire)
    <2>1. m \in Message /\ m = wire[1] /\ replies' = Append(replies, m)
      BY <1>1, <1>3
    <2> HIDE DEF m
    <2>2. QED
      BY <1>2, <2>1
  <1>5. DOMAIN broker' \subseteq Infos
    <2>1. PICK m \in Message :
            broker' = IF m.op = "register"
                        THEN Put(broker, m.info,
                                 [reg |-> m.reg, topics |-> m.topics])
                        ELSE Delete(broker, m.info)
      BY <1>3 DEF BrokerHandles
    <2>2. m.info \in Infos /\ DOMAIN broker \subseteq Infos
      BY DEF Message, TypeOK
    <2>3. QED
      BY <2>1, <2>2 DEF Put, Delete
  <1>6. TypeOK'
    BY <1>1, <1>3, <1>4, <1>5 DEF TypeOK, history
  <1>7. TimerInv' /\ HandleInv' /\ ChannelInv'
    <2>1. Active' = Active /\ Connected' = Connected
      BY <1>1 DEF Active, Connected
    <2>2. TimerInv' /\ HandleInv'
      BY <1>1, <2>1 DEF TimerInv, HandleInv
    <2>3. ChannelInv'
      BY <1>1, <2>1 DEF ChannelInv
    <2>4. QED
      BY <2>2, <2>3
  <1>8. KnownInv'
    <2>1. Known(wire)'
      BY <1>1, <1>3 DEF KnownInv, Known
    <2>2. Known(replies)'
      <3>1. ASSUME NEW k \in 1..Len(replies')
            PROVE  /\ replies'[k].reg \in DOMAIN objects
                   /\ replies'[k].info = objects[replies'[k].reg].info
        <4>1. CASE k = Len(replies) + 1
          BY <1>3, <1>4, <4>1 DEF KnownInv, Known
        <4>2. CASE k # Len(replies) + 1
          BY <1>4, <4>2 DEF KnownInv, Known
        <4>3. QED
          BY <4>1, <4>2
      <3>2. QED
        BY <1>1, <3>1 DEF Known
    <2>3. QED
      BY <2>1, <2>2 DEF KnownInv
  <1>9. ArmedInv'
    BY <1>1 DEF ArmedInv, FirstOnceInv, history
  <1>10. LastWordInv'
    <2>1. SUFFICES ASSUME mqtt = "online", NEW k \in 1..Len(wire'),
                          \A j \in k+1..Len(wire') :
                             wire'[j].info # wire'[k].info
                   PROVE  Right(wire'[k], services)
      BY <1>1 DEF LastWordInv, Right
    <2>2. k + 1 \in 1..Len(wire) /\ wire'[k] = wire[k + 1]
      BY <1>3, <2>1
    <2>3. ASSUME NEW j \in (k+1)+1..Len(wire)
          PROVE  wire[j].info # wire[k + 1].info
      <3>1. j - 1 \in k+1..Len(wire') /\ wire'[j - 1] = wire[j]
        BY <1>3, <2>1
      <3>2. QED
        BY <2>1, <2>2, <3>1
    <2>4. Right(wire[k + 1], services)
      BY <2>1, <2>2, <2>3 DEF LastWordInv, Right
    <2>5. QED
      BY <2>2, <2>4
  <1>11. QED
    BY <1>6, <1>7, <1>8, <1>9, <1>10

(* A response: its object was made, and its first callback runs if armed. *)
LEMMA HandleReplyKeeps ==
  ASSUME IInv, HandleReply
  PROVE  IInv'
  <1> USE DEF IInv
  <1> DEFINE r == Head(replies).reg
  <1>1. /\ replies # <<>> /\ replies' = Tail(replies)
        /\ UNCHANGED <<topics, services, table, timers, mqtt, destroyed, wire,
                       broker, asked>>
    BY DEF HandleReply
  <1>2. /\ Len(replies) \in Nat /\ Len(replies) > 0
        /\ replies' \in Seq(Message) /\ Len(replies') = Len(replies) - 1
        /\ \A k \in 1..Len(replies') : replies'[k] = replies[k + 1]
        /\ Head(replies) = replies[1]
    BY <1>1 DEF TypeOK
  <1>3. r \in DOMAIN objects /\ r \in Regs
    BY <1>2 DEF KnownInv, Known, TypeOK
  <1>4. \/ /\ objects[r].first
           /\ firstCalls' = [firstCalls EXCEPT ![r] = @ + 1]
           /\ \E throws \in {FALSE, MayThrow} :
                objects' = [objects EXCEPT ![r].first = throws]
           /\ UNCHANGED <<pending, told>>
        \/ /\ r \in pending
           /\ pending' = pending \ {r} /\ told' = told \cup {r}
           /\ UNCHANGED <<objects, firstCalls>>
        \/ UNCHANGED <<objects, pending, firstCalls, told>>
    BY DEF HandleReply
  <1> HIDE DEF r
  <1>5. /\ DOMAIN objects' = DOMAIN objects
        /\ \A q \in DOMAIN objects :
             /\ objects'[q] \in Object
             /\ objects'[q].info = objects[q].info
             /\ objects'[q].ttlTimeout = objects[q].ttlTimeout
             /\ objects'[q].callbacksByTopic = objects[q].callbacksByTopic
    <2>1. CASE \E throws \in {FALSE, MayThrow} :
                 objects' = [objects EXCEPT ![r].first = throws]
      <3>1. PICK throws \in {FALSE, MayThrow} :
              objects' = [objects EXCEPT ![r].first = throws]
        BY <2>1
      <3>2. throws \in BOOLEAN
        BY <3>1, WireAssumption
      <3>3. QED
        BY <1>3, <3>1, <3>2 DEF TypeOK, Object
    <2>2. CASE objects' = objects
      BY <2>2 DEF TypeOK
    <2>3. QED
      BY <1>4, <2>1, <2>2
  <1>6. /\ firstCalls' \in [Regs -> Nat]
        /\ \A q \in Regs \ {r} : firstCalls'[q] = firstCalls[q]
        /\ pending' \subseteq asked /\ told' \subseteq asked
    <2>1. CASE firstCalls' = [firstCalls EXCEPT ![r] = @ + 1]
      BY <1>3, <1>4, <2>1 DEF TypeOK
    <2>2. CASE firstCalls' = firstCalls
      BY <1>3, <1>4, <2>2 DEF TypeOK
    <2>3. QED
      BY <1>4, <2>1, <2>2
  <1>7. TypeOK'
    BY <1>1, <1>2, <1>5, <1>6 DEF TypeOK
  <1>8. Active' = Active /\ Connected' = Connected
    BY <1>1 DEF Active, Connected
  <1>9. TimerInv' /\ HandleInv'
    BY <1>1, <1>5, <1>8 DEF TimerInv, HandleInv, TypeOK
  <1>10. ChannelInv'
    BY <1>1, <1>5, <1>8, ActiveObjects DEF ChannelInv
  <1>11. KnownInv'
    BY <1>1, <1>2, <1>5 DEF KnownInv, Known
  <1>12. LastWordInv'
    BY <1>1 DEF LastWordInv
  <1>13. ArmedInv'
    <2>1. \A q \in Regs \ DOMAIN objects' : firstCalls'[q] = 0
      BY <1>3, <1>5, <1>6 DEF ArmedInv
    <2>2. ASSUME ~MayThrow
          PROVE  /\ \A q \in DOMAIN objects' :
                      objects'[q].first => firstCalls'[q] = 0
                 /\ FirstOnceInv'
      <3>1. CASE /\ objects[r].first
                 /\ firstCalls' = [firstCalls EXCEPT ![r] = @ + 1]
                 /\ \E throws \in {FALSE, MayThrow} :
                      objects' = [objects EXCEPT ![r].first = throws]
        <4>1. objects' = [objects EXCEPT ![r].first = FALSE]
          BY <2>2, <3>1, WireAssumption
        <4>2. firstCalls[r] = 0 /\ firstCalls'[r] = 1
          BY <1>3, <2>2, <3>1 DEF ArmedInv, TypeOK
        <4>3. objects'[r].first = FALSE
          BY <1>3, <4>1 DEF TypeOK, Object
        <4>4. \A q \in DOMAIN objects \ {r} :
                objects'[q] = objects[q] /\ firstCalls'[q] = firstCalls[q]
          BY <1>6, <4>1 DEF TypeOK
        <4>5. \A q \in DOMAIN objects' :
                objects'[q].first => firstCalls'[q] = 0
          BY <1>5, <2>2, <4>3, <4>4 DEF ArmedInv
        <4>6. FirstOnceInv'
          BY <1>6, <2>2, <4>2 DEF ArmedInv, FirstOnceInv
        <4>7. QED
          BY <4>5, <4>6
      <3>2. CASE UNCHANGED <<objects, firstCalls>>
        BY <2>2, <3>2 DEF ArmedInv, FirstOnceInv
      <3>3. QED
        BY <1>4, <3>1, <3>2
    <2>3. QED
      BY <2>1, <2>2 DEF ArmedInv
  <1>14. QED
    BY <1>7, <1>9, <1>10, <1>11, <1>12, <1>13

LEMMA NextKeeps == IInv /\ [Next]_vars => IInv'
  <1> SUFFICES ASSUME IInv, [Next]_vars PROVE IInv'
    OBVIOUS
  <1>1. ASSUME NEW info \in Infos, NEW r \in Regs, NEW callback \in BOOLEAN,
               RegisterServiceAsync(info, r, callback)
        PROVE  IInv'
    BY <1>1, RegisterKeeps
  <1>2. ASSUME NEW info \in Infos, NEW callback \in BOOLEAN,
               UnregisterServiceAsync(info, callback)
        PROVE  IInv'
    BY <1>2, UnregisterKeeps
  <1>3. ASSUME NEW info \in Infos, NEW topic \in Topics, AddTopic(info, topic)
        PROVE  IInv'
    BY <1>3, AddTopicKeeps
  <1>4. ASSUME NEW r \in Regs, NEW s \in Slots, TtlFires(r, s)
        PROVE  IInv'
    BY <1>4, TtlKeeps
  <1>5. CASE OnConnected
    BY <1>5, OnConnectedKeeps
  <1>6. CASE Disconnect
    BY <1>6, DisconnectKeeps
  <1>7. CASE Destroy
    BY <1>7, DestroyKeeps
  <1>8. CASE HandleReply
    BY <1>8, HandleReplyKeeps
  <1>9. CASE Closed
    BY <1>9, ClosedKeeps
  <1>10. CASE BrokerHandles
    BY <1>10, BrokerHandlesKeeps
  <1>11. ASSUME NEW info \in Infos, BrokerExpires(info)
         PROVE  IInv'
    BY <1>11, ExpiresKeeps
  <1>12. CASE UNCHANGED vars
    <2>1. Quiet
      BY <1>12 DEF vars, Quiet, IInv, TypeOK
    <2>2. QED
      BY <2>1, QuietKeeps
  <1>13. QED
    BY <1>1, <1>2, <1>3, <1>4, <1>5, <1>6, <1>7, <1>8, <1>9, <1>10, <1>11,
       <1>12 DEF Next

-----------------------------------------------------------------------------
(* No news after the last word *)

(* What the client says about a service after an UNREGISTER is about        *)
(* another registration of it.                                              *)
Follows(m, n) == m.op = "unregister" => n.reg # m.reg

(* What is under way, in the order it will be handled: replies, then wire.  *)
OrderInv ==
    /\ \A j \in 1..Len(wire) : \A k \in j+1..Len(wire) : Follows(wire[j], wire[k])
    /\ \A j \in 1..Len(replies) :
         /\ \A k \in j+1..Len(replies) : Follows(replies[j], replies[k])
         /\ \A k \in 1..Len(wire) : Follows(replies[j], wire[k])

(* An object whose UNREGISTER is under way, or whose unregistration was     *)
(* asked for, is not active any more; and it never becomes so again.        *)
Past(messages) ==
    \A k \in 1..Len(messages) :
        messages[k].op = "unregister" => messages[k].reg \notin Active
PastInv == Past(wire) /\ Past(replies) /\ \A r \in asked : r \notin Active

(* Nothing is under way about an object whose unregister callback ran. *)
Silent(messages) == \A k \in 1..Len(messages) : messages[k].reg \notin told
NewsInv == OrderInv /\ PastInv /\ Silent(wire) /\ Silent(replies)

(* A step of the client that says something: of what it may speak, and what *)
(* it may not say any more.                                                 *)
Utters ==
    /\ wire' \in Seq(Message) /\ UNCHANGED <<replies, told>>
    /\ \A r \in Active' : r \in Active \/ r \notin DOMAIN objects
    /\ \A r \in asked' : r \notin Active'
    /\ \A k \in 1..Len(wire') :
         \/ k \in 1..Len(wire) /\ wire'[k] = wire[k]
         \/ /\ wire'[k].reg \in Active \/ wire'[k].reg \notin DOMAIN objects
            /\ wire'[k].op = "unregister" => wire'[k].reg \notin Active'
            /\ \A j \in k+1..Len(wire') : Follows(wire'[k], wire'[j])

LEMMA UttersKeeps ==
  ASSUME IInv, NewsInv, Utters
  PROVE  NewsInv'
  <1> USE DEF NewsInv
  <1>1. /\ Len(wire) \in Nat /\ Len(wire') \in Nat /\ Len(replies) \in Nat
        /\ replies' = replies /\ told' = told
        /\ told \subseteq asked /\ asked \subseteq DOMAIN objects
    BY DEF IInv, TypeOK, Utters
  <1> DEFINE Old(k) == k \in 1..Len(wire) /\ wire'[k] = wire[k]
             May(m) == m.reg \in Active \/ m.reg \notin DOMAIN objects
             New(k) == /\ May(wire'[k])
                       /\ wire'[k].op = "unregister" => wire'[k].reg \notin Active'
                       /\ \A j \in k+1..Len(wire') : Follows(wire'[k], wire'[j])
  <1>2. \A k \in 1..Len(wire') : Old(k) \/ New(k)
    BY DEF Utters
  <1>3. ASSUME NEW messages, Known(messages), Past(messages),
               NEW k \in 1..Len(messages), NEW m, May(m)
        PROVE  Follows(messages[k], m)
    BY <1>3 DEF Known, Past, Follows
  <1>4. Known(wire) /\ Known(replies) /\ Past(wire) /\ Past(replies)
    BY DEF IInv, KnownInv, PastInv
  <1> HIDE DEF May
  <1>5. OrderInv'
    <2>1. ASSUME NEW j \in 1..Len(wire'), NEW k \in j+1..Len(wire')
          PROVE  Follows(wire'[j], wire'[k])
      <3>1. k \in 1..Len(wire') /\ k > j
        BY <1>1
      <3>2. CASE New(j)
        BY <3>2
      <3>3. CASE Old(j) /\ Old(k)
        <4>1. k \in j+1..Len(wire)
          BY <1>1, <3>1, <3>3
        <4>2. QED
          BY <3>3, <4>1 DEF OrderInv
      <3>4. CASE Old(j) /\ New(k)
        BY <1>3, <1>4, <3>4
      <3>5. QED
        BY <1>2, <3>1, <3>2, <3>3, <3>4
    <2>2. ASSUME NEW j \in 1..Len(replies), NEW k \in 1..Len(wire')
          PROVE  Follows(replies[j], wire'[k])
      <3>1. CASE Old(k)
        BY <3>1 DEF OrderInv
      <3>2. CASE New(k)
        BY <1>3, <1>4, <3>2
      <3>3. QED
        BY <1>2, <3>1, <3>2
    <2>3. \A j \in 1..Len(replies) : \A k \in j+1..Len(replies) :
            Follows(replies[j], replies[k])
      BY DEF OrderInv
    <2>4. QED
      BY <1>1, <2>1, <2>2, <2>3 DEF OrderInv
  <1>6. PastInv'
    <2>1. ASSUME NEW r \in DOMAIN objects, r \notin Active PROVE r \notin Active'
      BY <2>1 DEF Utters
    <2>2. ASSUME NEW k \in 1..Len(wire'), wire'[k].op = "unregister"
          PROVE  wire'[k].reg \notin Active'
      BY <1>2, <1>4, <2>1, <2>2 DEF Known, Past
    <2>3. ASSUME NEW k \in 1..Len(replies), replies[k].op = "unregister"
          PROVE  replies[k].reg \notin Active'
      BY <1>4, <2>1, <2>3 DEF Known, Past
    <2>4. \A r \in asked' : r \notin Active'
      BY DEF Utters
    <2>5. QED
      BY <1>1, <2>2, <2>3, <2>4 DEF PastInv, Past
  <1>7. Silent(wire)' /\ Silent(replies)'
    <2>1. ASSUME NEW k \in 1..Len(wire'), New(k) PROVE wire'[k].reg \notin told
      BY <1>1, <2>1 DEF May, PastInv
    <2>2. \A k \in 1..Len(wire') : wire'[k].reg \notin told
      BY <1>2, <2>1 DEF Silent
    <2>3. QED
      BY <1>1, <2>2 DEF Silent
  <1>8. QED
    BY <1>5, <1>6, <1>7

(* A single message, about an object that is active or new. *)
LEMMA UttersOne ==
  ASSUME IInv, NEW m \in Message, wire' = Sent(<<m>>),
         UNCHANGED <<replies, told>>,
         \A r \in Active' : r \in Active \/ r \notin DOMAIN objects,
         \A r \in asked' : r \notin Active',
         m.reg \in Active \/ m.reg \notin DOMAIN objects,
         m.op = "unregister" => m.reg \notin Active'
  PROVE  Utters
  <1>1. /\ wire' \in Seq(Message)
        /\ Len(wire) \in Nat /\ Len(wire') \in Nat
        /\ \A k \in 1..Len(wire) : wire'[k] = wire[k]
        /\ \A k \in Len(wire)+1..Len(wire') : k = Len(wire) + 1 /\ wire'[k] = m
    BY SentMessage DEF IInv
  <1>2. ASSUME NEW k \in 1..Len(wire'), ~(k \in 1..Len(wire) /\ wire'[k] = wire[k])
        PROVE  wire'[k] = m /\ \A j \in k+1..Len(wire') : FALSE
    <2>1. k \in Len(wire)+1..Len(wire')
      BY <1>1, <1>2
    <2>2. ASSUME NEW j \in k+1..Len(wire') PROVE FALSE
      <3>1. j \in Len(wire)+1..Len(wire') /\ j # k
        BY <1>1, <2>1
      <3>2. QED
        BY <1>1, <2>1, <3>1
    <2>3. QED
      BY <1>1, <2>1, <2>2
  <1>3. QED
    BY <1>1, <1>2 DEF Utters

LEMMA RegisterNews ==
  ASSUME IInv, NewsInv, NEW info \in Infos, NEW r \in Regs, NEW callback \in BOOLEAN,
         RegisterServiceAsync(info, r, callback)
  PROVE  NewsInv'
  <1>1. /\ r \notin DOMAIN objects /\ info \notin DOMAIN services
        /\ services' = Put(services, info, r)
        /\ wire' = Sent(<<RegisterRequest(r, info)>>)
        /\ replies' = replies /\ told' = told /\ asked' = asked
    BY DEF RegisterServiceAsync, history
  <1>2. \A q \in Active' : q \in Active \/ q = r
    BY <1>1 DEF Put, Active
  <1>3. asked \subseteq DOMAIN objects /\ \A q \in asked : q \notin Active
    BY DEF IInv, TypeOK, NewsInv, PastInv
  <1>4. /\ RegisterRequest(r, info) \in Message
        /\ RegisterRequest(r, info).reg = r
        /\ RegisterRequest(r, info).op = "register"
    BY DEF RegisterRequest, Message, IInv, TypeOK
  <1>5. Utters
    BY <1>1, <1>2, <1>3, <1>4, UttersOne
  <1>6. QED
    BY <1>5, UttersKeeps

LEMMA UnregisterNews ==
  ASSUME IInv, NewsInv, NEW info \in Infos, NEW callback \in BOOLEAN,
         UnregisterServiceAsync(info, callback)
  PROVE  NewsInv'
  <1> DEFINE r == services[info]
  <1>1. /\ info \in DOMAIN services
        /\ services' = Delete(services, info)
        /\ UnregisterServices({r})
        /\ replies' = replies /\ told' = told
        /\ asked' \subseteq asked \cup {r}
    BY DEF UnregisterServiceAsync
  <1>2. r \in Active /\ r \in Regs /\ objects[r].info = info
    BY <1>1 DEF Active, IInv, TypeOK
  <1>3. Active' \subseteq Active /\ r \notin Active'
    BY <1>1 DEF Delete, Active, IInv, TypeOK
  <1>4. wire' = Sent(<<UnregisterRequest(r, info)>>)
    BY <1>1, <1>2, UnregisterSendsOne
  <1>5. /\ UnregisterRequest(r, info) \in Message
        /\ UnregisterRequest(r, info).reg = r
    BY <1>2 DEF UnregisterRequest, Message
  <1> HIDE DEF r
  <1>6. \A q \in asked' : q \notin Active'
    BY <1>1, <1>3 DEF NewsInv, PastInv
  <1>7. Utters
    BY <1>1, <1>2, <1>3, <1>4, <1>5, <1>6, UttersOne
  <1>8. QED
    BY <1>7, UttersKeeps

LEMMA TtlNews ==
  ASSUME IInv, NewsInv, NEW r \in Regs, NEW s \in Slots, TtlFires(r, s)
  PROVE  NewsInv'
  <1>1. /\ <<r, s>> \in timers
        /\ wire' = Sent(<<RegisterRequest(r, objects[r].info)>>)
        /\ services' = services /\ replies' = replies
        /\ told' = told /\ asked' = asked
    BY DEF TtlFires, history
  <1>2. r \in Active /\ Active' = Active
    BY <1>1 DEF IInv, TimerInv, Active
  <1>3. /\ RegisterRequest(r, objects[r].info) \in Message
        /\ RegisterRequest(r, objects[r].info).reg = r
        /\ RegisterRequest(r, objects[r].info).op = "register"
    BY <1>2, ActiveObjects DEF RegisterRequest, Message, IInv, TypeOK
  <1>4. \A q \in asked' : q \notin Active'
    BY <1>1, <1>2 DEF NewsInv, PastInv
  <1>5. Utters
    BY <1>1, <1>2, <1>3, <1>4, UttersOne
  <1>6. QED
    BY <1>5, UttersKeeps

LEMMA OnConnectedNews ==
  ASSUME IInv, NewsInv, OnConnected
  PROVE  NewsInv'
  <1>1. /\ services' = services /\ replies' = replies
        /\ told' = told /\ asked' = asked
    BY DEF OnConnected, history
  <1>2. PICK order \in SetToSeqs(DOMAIN services) :
          wire' = [k \in 1..Len(order) |->
                     RegisterRequest(services[order[k]], order[k])]
    BY DEF OnConnected
  <1>3. /\ Len(order) \in Nat
        /\ \A k \in 1..Len(order) : order[k] \in DOMAIN services
    <2>1. IsFiniteSet(DOMAIN services)
      BY FiniteAssumption, FS_Subset DEF IInv, TypeOK
    <2>2. QED
      BY <1>2, <2>1, Orders
  <1>4. Active' = Active
    BY <1>1 DEF Active
  <1>5. wire' \in Seq(Message) /\ Len(wire') = Len(order)
    <2>1. TypeOK'
      BY OnConnectedKeeps DEF IInv
    <2>2. QED
      BY <1>2, <1>3, <2>1 DEF TypeOK
  <1>6. \A k \in 1..Len(wire') :
          wire'[k].op = "register" /\ wire'[k].reg \in Active
    BY <1>2, <1>3, <1>5 DEF RegisterRequest, Active
  <1>7. Utters
    BY <1>1, <1>4, <1>5, <1>6 DEF Utters, Follows, NewsInv, PastInv
  <1>8. QED
    BY <1>7, UttersKeeps

LEMMA DestroyNews ==
  ASSUME IInv, NewsInv, Destroy
  PROVE  NewsInv'
  <1>1. /\ services' = EmptyMap /\ UnregisterServices(Active)
        /\ replies' = replies /\ told' = told /\ asked' = asked
    BY DEF Destroy, history
  <1>2. Active' = {}
    BY <1>1 DEF EmptyMap, Active
  <1>3. /\ Active \subseteq DOMAIN objects /\ IsFiniteSet(Active)
        /\ \A r \in Active : r \in Regs /\ objects[r].info \in Infos
    BY ActiveObjects, FiniteAssumption, FS_Subset DEF IInv, TypeOK
  <1>4. PICK order \in SetToSeqs(Active) :
          wire' = Sent([k \in 1..Len(order) |->
                         UnregisterRequest(order[k], objects[order[k]].info)])
    BY <1>1 DEF UnregisterServices
  <1> DEFINE batch == [k \in 1..Len(order) |->
                         UnregisterRequest(order[k], objects[order[k]].info)]
  <1>5. /\ Len(order) \in Nat /\ \A k \in 1..Len(order) : order[k] \in Active
        /\ \A j, k \in 1..Len(order) : j # k => order[j] # order[k]
    BY <1>3, <1>4, Orders
  <1>6. \A k \in 1..Len(order) : batch[k] \in Message /\ batch[k].reg = order[k]
    BY <1>3, <1>5 DEF UnregisterRequest, Message
  <1>7. batch \in Seq(Message) /\ Len(batch) = Len(order)
    <2>1. batch \in [1..Len(order) -> Message]
      BY <1>6
    <2> HIDE DEF batch
    <2>2. QED
      BY <1>5, <2>1
  <1>8. wire \in Seq(Message) /\ wire' = Sent(batch)
    BY <1>4 DEF IInv, TypeOK
  <1> HIDE DEF batch
  <1>9. /\ Sent(batch) \in Seq(Message)
        /\ \A k \in 1..Len(wire) : Sent(batch)[k] = wire[k]
        /\ \A k \in Len(wire)+1..Len(Sent(batch)) :
              /\ k - Len(wire) \in 1..Len(batch)
              /\ Sent(batch)[k] = batch[k - Len(wire)]
    BY <1>7, <1>8, SentMessages
  <1>10. Len(wire) \in Nat /\ Len(wire') \in Nat /\ wire' \in Seq(Message)
    BY <1>8, <1>9
  <1>11. ASSUME NEW k \in Len(wire)+1..Len(wire')
         PROVE  /\ wire'[k].reg \in Active
                /\ \A j \in k+1..Len(wire') : Follows(wire'[k], wire'[j])
    <2>1. /\ k - Len(wire) \in 1..Len(order)
          /\ wire'[k].reg = order[k - Len(wire)]
      BY <1>6, <1>7, <1>8, <1>9, <1>11
    <2>2. ASSUME NEW j \in k+1..Len(wire') PROVE wire'[j].reg # wire'[k].reg
      <3>1. j \in Len(wire)+1..Len(wire') /\ j - Len(wire) # k - Len(wire)
        BY <1>10
      <3>2. /\ j - Len(wire) \in 1..Len(order)
            /\ wire'[j].reg = order[j - Len(wire)]
        BY <1>6, <1>7, <1>8, <1>9, <3>1
      <3>3. QED
        BY <1>5, <2>1, <3>1, <3>2
    <2>3. QED
      BY <1>5, <2>1, <2>2 DEF Follows
  <1>12. \A k \in 1..Len(wire') :
           (k \in 1..Len(wire) /\ wire'[k] = wire[k]) \/ k \in Len(wire)+1..Len(wire')
    BY <1>8, <1>9, <1>10
  <1>13. Utters
    BY <1>1, <1>2, <1>10, <1>11, <1>12 DEF Utters
  <1>14. QED
    BY <1>13, UttersKeeps

LEMMA BrokerHandlesNews ==
  ASSUME IInv, NewsInv, BrokerHandles
  PROVE  NewsInv'
  <1> USE DEF NewsInv
  <1>1. /\ wire # <<>> /\ wire' = Tail(wire)
        /\ replies' = Append(replies, Head(wire))
        /\ services' = services /\ asked' = asked /\ told' = told
    BY DEF BrokerHandles, client, history
  <1>2. wire \in Seq(Message) /\ replies \in Seq(Message)
    BY DEF IInv, TypeOK
  <1>3. /\ Len(wire) \in Nat /\ Len(wire) > 0
        /\ Len(wire') = Len(wire) - 1
        /\ \A k \in 1..Len(wire') : k + 1 \in 1..Len(wire) /\ wire'[k] = wire[k + 1]
        /\ Head(wire) = wire[1] /\ Head(wire) \in Message
    BY <1>1, <1>2
  <1>4. /\ Len(replies) \in Nat
        /\ Len(replies') = Len(replies) + 1
        /\ \A k \in 1..Len(replies) : replies'[k] = replies[k]
        /\ replies'[Len(replies) + 1] = wire[1]
    <2> DEFINE m == Head(wire)
    <2>1. m \in Message /\ m = wire[1] /\ replies' = Append(replies, m)
      BY <1>1, <1>3
    <2> HIDE DEF m
    <2>2. QED
      BY <1>2, <2>1
  <1>5. Active' = Active
    BY <1>1 DEF Active
  <1>6. OrderInv'
    <2>1. ASSUME NEW j \in 1..Len(wire'), NEW k \in j+1..Len(wire')
          PROVE  Follows(wire'[j], wire'[k])
      <3>1. /\ j + 1 \in 1..Len(wire) /\ k + 1 \in (j+1)+1..Len(wire)
            /\ wire'[j] = wire[j + 1] /\ wire'[k] = wire[k + 1]
        BY <1>3
      <3>2. QED
        BY <3>1 DEF OrderInv
    <2>2. ASSUME NEW j \in 1..Len(replies'), NEW k \in j+1..Len(replies')
          PROVE  Follows(replies'[j], replies'[k])
      <3>1. j \in 1..Len(replies) /\ replies'[j] = replies[j]
        BY <1>4
      <3>2. CASE k = Len(replies) + 1
        <4>1. 1 \in 1..Len(wire)
          BY <1>3
        <4>2. QED
          BY <1>4, <3>1, <3>2, <4>1 DEF OrderInv
      <3>3. CASE k # Len(replies) + 1
        <4>1. k \in j+1..Len(replies) /\ k \in 1..Len(replies)
          BY <1>4, <3>1, <3>3
        <4>2. QED
          BY <1>4, <3>1, <4>1 DEF OrderInv
      <3>4. QED
        BY <3>2, <3>3
    <2>3. ASSUME NEW j \in 1..Len(replies'), NEW k \in 1..Len(wire')
          PROVE  Follows(replies'[j], wire'[k])
      <3>1. wire'[k] = wire[k + 1] /\ k + 1 \in 1..Len(wire) /\ k + 1 \in 1+1..Len(wire)
        BY <1>3
      <3>2. CASE j = Len(replies) + 1
        <4>1. 1 \in 1..Len(wire)
          BY <1>3
        <4>2. QED
          BY <1>4, <3>1, <3>2, <4>1 DEF OrderInv
      <3>3. CASE j # Len(replies) + 1
        <4>1. j \in 1..Len(replies)
          BY <1>4, <3>3
        <4>2. QED
          BY <1>4, <3>1, <4>1 DEF OrderInv
      <3>4. QED
        BY <3>2, <3>3
    <2>4. QED
      BY <2>1, <2>2, <2>3 DEF OrderInv
  <1>7. ASSUME NEW k \in 1..Len(replies')
        PROVE  \/ k \in 1..Len(replies) /\ replies'[k] = replies[k]
               \/ 1 \in 1..Len(wire) /\ replies'[k] = wire[1]
    BY <1>3, <1>4
  <1>8. PastInv'
    BY <1>1, <1>3, <1>5, <1>7 DEF PastInv, Past
  <1>9. Silent(wire)' /\ Silent(replies)'
    BY <1>1, <1>3, <1>7 DEF Silent
  <1>10. QED
    BY <1>6, <1>8, <1>9

(* The reply to an UNREGISTER has nothing about its object behind it. *)
LEMMA HandleReplyNews ==
  ASSUME IInv, NewsInv, HandleReply
  PROVE  NewsInv'
  <1> USE DEF NewsInv
  <1> DEFINE m == Head(replies)
  <1>1. /\ replies # <<>> /\ replies' = Tail(replies)
        /\ wire' = wire /\ services' = services /\ asked' = asked
        /\ told' = told \/ (m.op = "unregister" /\ told' = told \cup {m.reg})
    BY DEF HandleReply
  <1>2. /\ Len(replies) \in Nat /\ Len(replies) > 0
        /\ Len(replies') = Len(replies) - 1
        /\ \A k \in 1..Len(replies') :
             k + 1 \in 1..Len(replies) /\ replies'[k] = replies[k + 1]
        /\ m = replies[1]
    BY <1>1 DEF IInv, TypeOK
  <1> HIDE DEF m
  <1>3. 1 \in 1..Len(replies) /\ Active' = Active
    BY <1>1, <1>2 DEF Active
  <1>4. OrderInv'
    <2>1. ASSUME NEW j \in 1..Len(replies'), NEW k \in j+1..Len(replies')
          PROVE  Follows(replies'[j], replies'[k])
      <3>1. /\ j + 1 \in 1..Len(replies) /\ k + 1 \in (j+1)+1..Len(replies)
            /\ replies'[j] = replies[j + 1] /\ replies'[k] = replies[k + 1]
        BY <1>2
      <3>2. QED
        BY <3>1 DEF OrderInv
    <2>2. \A j \in 1..Len(replies'), k \in 1..Len(wire) :
            Follows(replies'[j], wire[k])
      BY <1>2 DEF OrderInv
    <2>3. QED
      BY <1>1, <2>1, <2>2 DEF OrderInv
  <1>5. PastInv'
    BY <1>1, <1>2, <1>3 DEF PastInv, Past
  <1>6. \A k \in 1..Len(wire) : Follows(m, wire[k])
    BY <1>2, <1>3 DEF OrderInv
  <1>7. ASSUME NEW k \in 1..Len(replies') PROVE Follows(m, replies'[k])
    <2>1. k + 1 \in 1+1..Len(replies)
      BY <1>2
    <2>2. QED
      BY <1>2, <1>3, <2>1 DEF OrderInv
  <1>8. Silent(wire)' /\ Silent(replies)'
    BY <1>1, <1>2, <1>6, <1>7 DEF Silent, Follows
  <1>9. QED
    BY <1>4, <1>5, <1>8

LEMMA NextNews == IInv /\ NewsInv /\ [Next]_vars => NewsInv'
  <1> SUFFICES ASSUME IInv, NewsInv, [Next]_vars PROVE NewsInv'
    OBVIOUS
  <1>1. ASSUME NEW info \in Infos, NEW r \in Regs, NEW callback \in BOOLEAN,
               RegisterServiceAsync(info, r, callback)
        PROVE  NewsInv'
    BY <1>1, RegisterNews
  <1>2. ASSUME NEW info \in Infos, NEW callback \in BOOLEAN,
               UnregisterServiceAsync(info, callback)
        PROVE  NewsInv'
    BY <1>2, UnregisterNews
  <1>3. ASSUME NEW r \in Regs, NEW s \in Slots, TtlFires(r, s)
        PROVE  NewsInv'
    BY <1>3, TtlNews
  <1>4. CASE OnConnected
    BY <1>4, OnConnectedNews
  <1>5. CASE Destroy
    BY <1>5, DestroyNews
  <1>6. CASE HandleReply
    BY <1>6, HandleReplyNews
  <1>7. CASE BrokerHandles
    BY <1>7, BrokerHandlesNews
  <1>8. CASE Closed
    <2>1. Len(<<>>) = 0 /\ wire' = <<>> /\ replies' = <<>>
          /\ services' = services /\ asked' = asked
      BY <1>8 DEF Closed, client, history
    <2>2. \A k \in 1..0 : FALSE
      OBVIOUS
    <2>3. Active' = Active
      BY <2>1 DEF Active
    <2>4. QED
      BY <2>1, <2>2, <2>3 DEF NewsInv, OrderInv, PastInv, Past, Silent
  <1>9. ASSUME UNCHANGED <<services, wire, replies, asked, told>> PROVE NewsInv'
    BY <1>9 DEF NewsInv, OrderInv, PastInv, Past, Silent, Active
  <1>10. ASSUME NEW info \in Infos, NEW topic \in Topics, AddTopic(info, topic)
         PROVE  NewsInv'
    BY <1>9, <1>10 DEF AddTopic, fabric, history
  <1>11. CASE Disconnect
    BY <1>9, <1>11 DEF Disconnect, client, history
  <1>12. ASSUME NEW info \in Infos, BrokerExpires(info) PROVE NewsInv'
    BY <1>9, <1>12 DEF BrokerExpires, client, history
  <1>13. CASE UNCHANGED vars
    BY <1>9, <1>13 DEF vars
  <1>14. QED
    BY <1>1, <1>2, <1>3, <1>4, <1>5, <1>6, <1>7, <1>8, <1>10, <1>11, <1>12,
       <1>13 DEF Next

-----------------------------------------------------------------------------
(* The theorems *)

(* The strengthened invariant is an invariant of the specification. *)
LEMMA Invariant == Spec => []IInv
  BY InitIInv, NextKeeps, PTL DEF Spec

(* The services, the objects, the timers and the messages of the manager    *)
(* keep their types: an active service is an object that was made for it.   *)
THEOREM TypeCorrect == Spec => []TypeOK
  <1>1. IInv => TypeOK
    BY DEF IInv
  <1>2. QED
    BY <1>1, Invariant, PTL

(* A service has exactly one renewal timer while the client is connected,   *)
(* and no timer outlives the service it renews.                             *)
THEOREM TimersFollowServices == Spec => []TimerInv
  <1>1. IInv => TimerInv
    BY DEF IInv
  <1>2. QED
    BY <1>1, Invariant, PTL

(* A request for a service is refused, or given to the callbacks of the     *)
(* active registration, never both.                                         *)
THEOREM RequestsRouted == Spec => []RoutedInv
  <1>1. ASSUME IInv, NEW topic \in Topics, NEW id \in Infos
        PROVE  ServedBy(topic, id) =
                 IF Refuses(id) THEN {}
                 ELSE {r \in {services[id]} :
                         topic \in objects[r].callbacksByTopic}
    <2> USE <1>1 DEF IInv
    <2>1. /\ DOMAIN objects \subseteq Regs
          /\ \A q \in DOMAIN objects :
               q \in Active => /\ objects[q].info \in DOMAIN services
                               /\ services[objects[q].info] = q
      BY ActiveObjects DEF TypeOK
    <2>2. \A q \in DOMAIN objects :
            <<topic, q>> \in table
              <=> q \in Active /\ topic \in objects[q].callbacksByTopic
      BY <2>1 DEF ChannelInv
    <2>3. CASE Refuses(id)
      BY <2>1, <2>2, <2>3 DEF ServedBy, Refuses
    <2>4. CASE ~Refuses(id)
      <3>1. /\ services[id] \in DOMAIN objects /\ services[id] \in Active
            /\ objects[services[id]].info = id
        BY <2>4 DEF Refuses, TypeOK, Active
      <3>2. \A q \in DOMAIN objects :
              q \in Active /\ objects[q].info = id <=> q = services[id]
        BY <2>1, <3>1
      <3>3. ServedBy(topic, id) =
              {q \in DOMAIN objects :
                 q = services[id] /\ topic \in objects[q].callbacksByTopic}
        BY <2>2, <3>2 DEF ServedBy
      <3>4. QED
        BY <2>4, <3>1, <3>3
    <2>5. QED
      BY <2>3, <2>4
  <1>2. IInv => RoutedInv
    BY <1>1 DEF RoutedInv
  <1>3. QED
    BY <1>2, Invariant, PTL

(* The last registry request under way about a service says what the        *)
(* service is: a renewal never overtakes an UNREGISTER.                     *)
THEOREM LastWordRight == Spec => []LastWordInv
  <1>1. IInv => LastWordInv
    BY DEF IInv
  <1>2. QED
    BY <1>1, Invariant, PTL

(* The first-registration callback runs at most once, as long as it does    *)
(* not throw: the run ServiceManagerFirst shows that it may run again then. *)
THEOREM FirstCallbackOnce ==
  ASSUME ~MayThrow
  PROVE  Spec => []FirstOnceInv
  <1>1. IInv => FirstOnceInv
    BY DEF IInv, ArmedInv
  <1>2. QED
    BY <1>1, Invariant, PTL

(* A service object whose unregister callback ran has no first-registration *)
(* callback run later: the reply to its UNREGISTER is the last one about it,*)
(* whatever timeouts, reconnects and other registrations come between.      *)
THEOREM NoNewsAfterTold == Spec => NoNewsAfterToldProp
  <1>1. Init => NewsInv
    <2>1. SUFFICES ASSUME Init PROVE NewsInv
      OBVIOUS
    <2>2. wire = <<>> /\ replies = <<>> /\ asked = {} /\ Len(<<>>) = 0
      BY <2>1 DEF Init
    <2>3. \A k \in 1..0 : FALSE
      OBVIOUS
    <2>4. QED
      BY <2>2, <2>3 DEF NewsInv, OrderInv, PastInv, Past, Silent
  <1>2. ASSUME IInv, NewsInv, [Next]_vars, NEW r \in told
        PROVE  firstCalls'[r] = firstCalls[r]
    <2>1. CASE HandleReply
      <3>1. 1 \in 1..Len(replies) /\ Head(replies) = replies[1]
        <4>1. replies # <<>> /\ replies \in Seq(Message)
          BY <1>2, <2>1 DEF HandleReply, IInv, TypeOK
        <4>2. QED
          BY <4>1
      <3>2. Head(replies).reg # r
        BY <1>2, <3>1 DEF NewsInv, Silent
      <3>3. r \in Regs /\ firstCalls \in [Regs -> Nat]
        BY <1>2 DEF IInv, TypeOK
      <3>4. QED
        BY <2>1, <3>2, <3>3 DEF HandleReply
    <2>2. CASE ~HandleReply
      <3>1. firstCalls' = firstCalls
        BY <1>2, <2>2
        DEF Next, vars, history, RegisterServiceAsync, UnregisterServiceAsync,
            AddTopic, TtlFires, OnConnected, Disconnect, Destroy, Closed,
            BrokerHandles, BrokerExpires
      <3>2. QED
        BY <3>1
    <2>3. QED
      BY <2>1, <2>2
  <1>3. IInv /\ NewsInv /\ [Next]_vars
          => [\A r \in told : firstCalls'[r] = firstCalls[r]]_vars
    BY <1>2
  <1>4. QED
    BY <1>1, <1>3, Invariant, NextNews, PTL DEF Spec, NoNewsAfterToldProp
=============================================================================
