------------------------ MODULE RequestManagerProofs ------------------------
(***************************************************************************)
(* A callback given to asyncRequest runs at most once, only for a response *)
(* to the request it was given for, and for none that was sent after the   *)
(* call threw, for any number of calls, request objects and answers;       *)
(* RequestManager implements Settlement.  The inductive invariant says     *)
(* what a stored callback is: one that was never invoked, stored under the *)
(* id of its own call, which is the last that was made with that id.       *)
(***************************************************************************)
EXTENDS RequestManager, TLAPS

(* A stored callback belongs to a call made with that id, and was not      *)
(* invoked yet.                                                            *)
StoredInv ==
    \A id \in DOMAIN requests :
        requests[id] # NoCallback =>
            /\ requests[id] \in DOMAIN made
            /\ made[requests[id]].id = id
            /\ invoked[requests[id]] = 0

(* What was invoked, was made; and for the id it was made with. *)
InvokedInv ==
    \A c \in Calls :
        /\ invoked[c] <= 1
        /\ c \notin DOMAIN made => invoked[c] = 0
        /\ invoked[c] = 0 => answeredBy[c] = {}
        /\ \A d \in answeredBy[c] : /\ c \in DOMAIN made /\ d \in DOMAIN made
                                    /\ made[d].id = made[c].id

(* What was published did not throw, so a response is to a call that did    *)
(* not; a stored callback is that of the last call with its id; and what a  *)
(* callback was given is an answer to its own call or to an earlier one.    *)
LastInv ==
    /\ threw \cap published = {}
    /\ \A reply \in replies : reply.call \notin threw
    /\ \A id \in DOMAIN requests :
         requests[id] # NoCallback =>
           \A d \in DOMAIN made :
             made[d].id = id => d \in {requests[id]} \cup made[requests[id]].after
    /\ \A c \in DOMAIN made :
         \A d \in answeredBy[c] : d \in {c} \cup made[c].after /\ d \notin threw

IInv == TypeOK /\ StoredInv /\ InvokedInv /\ LastInv

LEMMA InitIInv == Init => IInv
  <1> SUFFICES ASSUME Init PROVE IInv
    OBVIOUS
  <1>1. DOMAIN requests = {} /\ DOMAIN made = {}
    BY DEF Init, EmptyMap
  <1>2. TypeOK
    <2>1. /\ answers \in [Calls -> 0..MaxAnswers]
          /\ invoked \in [Calls -> Nat]
          /\ answeredBy \in [Calls -> SUBSET Calls]
      BY FabricAssumption DEF Init
    <2>2. /\ mqtt = "none" /\ destroyed = FALSE
          /\ published = {} /\ replies = {} /\ lost = {} /\ threw = {}
      BY DEF Init
    <2>3. QED
      BY <1>1, <2>1, <2>2 DEF TypeOK
  <1>3. StoredInv /\ InvokedInv /\ LastInv
    BY <1>1 DEF Init, StoredInv, InvokedInv, LastInv
  <1>4. QED
    BY <1>2, <1>3 DEF IInv

LEMMA AsyncRequestIInv ==
  ASSUME IInv, NEW c \in Calls, NEW id \in Ids, NEW callback \in {c, NoCallback},
         NEW encodes \in BOOLEAN, AsyncRequest(c, id, callback, encodes)
  PROVE  IInv'
  <1>1. /\ DOMAIN requests' = DOMAIN requests \cup {id}
        /\ requests'[id] = callback
        /\ \A i \in DOMAIN requests \ {id} : requests'[i] = requests[i]
    BY DEF AsyncRequest, Put
  <1>2. /\ c \notin DOMAIN made
        /\ DOMAIN made' = DOMAIN made \cup {c}
        /\ made'[c] = [id |-> id, callback |-> callback, after |-> DOMAIN made]
        /\ \A d \in DOMAIN made : made'[d] = made[d]
    BY DEF AsyncRequest, Put
  <1>3. /\ \/ threw' = threw \cup {c} /\ published' = published
           \/ threw' = threw /\ published' \in {published, published \cup {c}}
        /\ UNCHANGED <<mqtt, destroyed, replies, lost, answers, invoked,
                       answeredBy>>
    BY DEF AsyncRequest
  <1>4. TypeOK'
    <2>1. \A i \in DOMAIN requests' : requests'[i] \in Calls \cup {NoCallback}
      BY <1>1 DEF IInv, TypeOK
    <2>2. \A d \in DOMAIN made' :
            made'[d] \in [id : Ids, callback : {d, NoCallback}, after : SUBSET Calls]
      BY <1>2 DEF IInv, TypeOK
    <2>3. QED
      BY <1>1, <1>2, <1>3, <2>1, <2>2 DEF IInv, TypeOK
  <1>5. StoredInv'
    BY <1>1, <1>2, <1>3, CallsAssumption DEF IInv, TypeOK, StoredInv, InvokedInv
  <1>6. InvokedInv'
    BY <1>2, <1>3 DEF IInv, TypeOK, InvokedInv
  <1>7. LastInv'
    <2>1. /\ threw' \cap published' = {}
          /\ \A reply \in replies' : reply.call \notin threw'
      BY <1>2, <1>3 DEF IInv, TypeOK, LastInv
    <2>2. ASSUME NEW i \in DOMAIN requests', requests'[i] # NoCallback,
                 NEW d \in DOMAIN made', made'[d].id = i
          PROVE  d \in {requests'[i]} \cup made'[requests'[i]].after
      <3>1. CASE i = id
        BY <1>1, <1>2, <2>2, <3>1
      <3>2. CASE i # id
        <4>1. /\ i \in DOMAIN requests /\ requests'[i] = requests[i]
              /\ d \in DOMAIN made /\ made'[d] = made[d]
          BY <1>1, <1>2, <2>2, <3>2
        <4>2. /\ requests[i] \in DOMAIN made
              /\ made'[requests[i]] = made[requests[i]]
          BY <1>2, <2>2, <4>1 DEF IInv, StoredInv
        <4>3. QED
          BY <2>2, <4>1, <4>2 DEF IInv, LastInv
      <3>3. QED
        BY <3>1, <3>2
    <2>3. ASSUME NEW e \in DOMAIN made', NEW d \in answeredBy'[e]
          PROVE  d \in {e} \cup made'[e].after /\ d \notin threw'
      <3>1. e \in Calls /\ d \in answeredBy[e]
        BY <1>2, <1>3, <2>3 DEF IInv, TypeOK
      <3>2. e \in DOMAIN made /\ d \in DOMAIN made /\ made'[e] = made[e]
        BY <1>2, <3>1 DEF IInv, InvokedInv
      <3>3. QED
        BY <1>2, <1>3, <3>1, <3>2 DEF IInv, LastInv
    <2>4. QED
      BY <2>1, <2>2, <2>3 DEF LastInv
  <1>8. QED
    BY <1>4, <1>5, <1>6, <1>7 DEF IInv

LEMMA OnResponseIInv ==
  ASSUME IInv, NEW reply \in replies, OnResponse(reply)
  PROVE  IInv'
  <1> DEFINE id == made[reply.call].id
             c == requests[id]
  <1>1. CASE ~destroyed /\ id \in DOMAIN requests /\ c # NoCallback
    <2>1. /\ DOMAIN requests' = DOMAIN requests \ {id}
          /\ \A i \in DOMAIN requests \ {id} : requests'[i] = requests[i]
          /\ invoked' = [invoked EXCEPT ![c] = @ + 1]
          /\ answeredBy' = [answeredBy EXCEPT ![c] = @ \cup {reply.call}]
          /\ replies' = replies \ {reply}
          /\ UNCHANGED <<mqtt, destroyed, made, threw, published, lost,
                         answers>>
      BY <1>1 DEF OnResponse, Delete
    <2>2. /\ reply \in Reply /\ reply.call \in DOMAIN made
          /\ c \in Calls /\ c \in DOMAIN made /\ made[c].id = id /\ invoked[c] = 0
      BY <1>1 DEF IInv, TypeOK, StoredInv
    <2>3. TypeOK'
      BY <2>1, <2>2 DEF IInv, TypeOK, Reply
    <2>4. StoredInv'
      BY <2>1, <2>2 DEF IInv, TypeOK, StoredInv
    <2>5. InvokedInv'
      BY <2>1, <2>2 DEF IInv, TypeOK, InvokedInv
    <2>6. LastInv'
      <3>1. /\ reply.call \in {c} \cup made[c].after
            /\ reply.call \notin threw
        BY <1>1, <2>2 DEF IInv, LastInv
      <3>2. ASSUME NEW e \in DOMAIN made, NEW d \in answeredBy'[e]
            PROVE  d \in {e} \cup made[e].after /\ d \notin threw
        <4>1. e \in Calls /\ (d \in answeredBy[e] \/ (e = c /\ d = reply.call))
          BY <2>1, <2>2, <3>2 DEF IInv, TypeOK
        <4>2. QED
          BY <3>1, <4>1 DEF IInv, LastInv
      <3>3. QED
        BY <2>1, <3>2 DEF IInv, LastInv
    <2>7. QED
      BY <2>3, <2>4, <2>5, <2>6 DEF IInv
  <1>2. CASE ~(~destroyed /\ id \in DOMAIN requests /\ c # NoCallback)
    BY <1>2 DEF OnResponse, IInv, TypeOK, StoredInv, InvokedInv, LastInv
  <1>3. QED
    BY <1>1, <1>2

LEMMA RespondIInv ==
  ASSUME IInv, NEW c \in Calls, Respond(c)
  PROVE  IInv'
  <1> DEFINE reply == [call |-> c, nth |-> answers[c] + 1]
  <1>1. /\ c \in published /\ c \in DOMAIN made
        /\ replies' = replies \cup {reply}
        /\ UNCHANGED <<requests, mqtt, destroyed, published, lost, history>>
    BY DEF Respond, IInv, TypeOK
  <1>2. answers' \in [Calls -> 0..MaxAnswers] /\ reply \in Reply
    BY FabricAssumption DEF Respond, IInv, TypeOK, Reply
  <1>3. reply.call = c
    OBVIOUS
  <1> HIDE DEF reply
  <1>4. TypeOK'
    BY <1>1, <1>2, <1>3 DEF IInv, TypeOK, history
  <1>5. StoredInv' /\ InvokedInv'
    BY <1>1 DEF IInv, StoredInv, InvokedInv, history
  <1>6. LastInv'
    BY <1>1, <1>3 DEF IInv, LastInv, history
  <1>7. QED
    BY <1>4, <1>5, <1>6 DEF IInv

LEMMA NextIInv == IInv /\ [Next]_vars => IInv'
  <1> SUFFICES ASSUME IInv, [Next]_vars PROVE IInv'
    OBVIOUS
  <1>1. ASSUME NEW c \in Calls, NEW id \in Ids, NEW callback \in {c, NoCallback},
               NEW encodes \in BOOLEAN, AsyncRequest(c, id, callback, encodes)
        PROVE  IInv'
    BY <1>1, AsyncRequestIInv
  <1>2. ASSUME NEW reply \in replies, OnResponse(reply) PROVE IInv'
    BY <1>2, OnResponseIInv
  <1>3. ASSUME NEW c \in Calls, Respond(c) PROVE IInv'
    BY <1>3, RespondIInv
  <1>4. ASSUME NEW reply \in replies, LoseReply(reply) PROVE IInv'
    BY <1>4 DEF LoseReply, IInv, TypeOK, StoredInv, InvokedInv, LastInv,
                history
  <1>5. ASSUME NEW c \in Calls, LoseRequest(c) PROVE IInv'
    BY <1>5 DEF LoseRequest, IInv, TypeOK, StoredInv, InvokedInv, LastInv,
                history
  <1>6. CASE Connect \/ Disconnect \/ Destroy
    <2>1. /\ UNCHANGED <<requests, network, history>>
          /\ mqtt' \in {"none", "open", "ended"}
          /\ mqtt' = "none" => mqtt = "none"
          /\ destroyed' \in BOOLEAN
      BY <1>6 DEF Connect, Disconnect, Destroy, IInv, TypeOK
    <2>2. QED
      BY <2>1 DEF IInv, TypeOK, StoredInv, InvokedInv, LastInv, network,
                  history
  <1>7. CASE UNCHANGED vars
    BY <1>7 DEF vars, IInv, TypeOK, StoredInv, InvokedInv, LastInv
  <1>8. QED
    BY <1>1, <1>2, <1>3, <1>4, <1>5, <1>6, <1>7 DEF Next

-----------------------------------------------------------------------------
(* The steps of RequestManager as steps of Settlement. *)

LEMMA WaitingLemma ==
  ASSUME IInv, NEW c \in Calls, Waiting(c)
  PROVE  /\ c \in DOMAIN made /\ invoked[c] = 0
         /\ made[c].id \in DOMAIN requests /\ requests[made[c].id] = c
  BY CallsAssumption DEF IInv, TypeOK, StoredInv, Waiting

LEMMA AsyncRequestStarts ==
  ASSUME IInv, NEW c \in Calls, NEW id \in Ids, NEW callback \in {c, NoCallback},
         NEW encodes \in BOOLEAN, AsyncRequest(c, id, callback, encodes)
  PROVE  Promise!Start(c)
  <1>1. /\ DOMAIN requests' = DOMAIN requests \cup {id}
        /\ requests'[id] = callback
        /\ \A i \in DOMAIN requests \ {id} : requests'[i] = requests[i]
    BY DEF AsyncRequest, Put
  <1>2. c \notin DOMAIN made /\ DOMAIN made' = DOMAIN made \cup {c}
        /\ invoked' = invoked
    BY DEF AsyncRequest, Put
  <1> DEFINE start == IF callback = c THEN "pending" ELSE "dropped"
             dropped == {d \in Calls : Waiting(d) /\ made[d].id = id}
  <1>3. Status(c) = "new" /\ Status(c)' = start
    <2>1. invoked[c] = 0
      BY <1>2 DEF IInv, InvokedInv
    <2>2. Waiting(c)' <=> callback = c
      BY <1>1, <1>2, WaitingLemma, CallsAssumption DEF Waiting
    <2>3. QED
      BY <1>2, <2>1, <2>2 DEF Status
  <1>4. ASSUME NEW d \in Calls, d # c
        PROVE  Status(d)' = IF d \in dropped THEN "dropped" ELSE Status(d)
    <2>1. Waiting(d)' <=> Waiting(d) /\ made[d].id # id
      <3>1. ASSUME Waiting(d)' PROVE Waiting(d) /\ made[d].id # id
        <4>1. PICK i \in DOMAIN requests' : requests'[i] = d
          BY <3>1 DEF Waiting
        <4>2. i # id /\ i \in DOMAIN requests /\ requests[i] = d
          BY <1>1, <1>4, <4>1, CallsAssumption
        <4>3. QED
          BY <4>2, CallsAssumption DEF Waiting, IInv, TypeOK, StoredInv
      <3>2. ASSUME Waiting(d), made[d].id # id PROVE Waiting(d)'
        BY <1>1, <3>2, WaitingLemma DEF Waiting
      <3>3. QED
        BY <3>1, <3>2
    <2>2. QED
      BY <1>2, <1>4, <2>1, WaitingLemma DEF Status
  <1>5. \A d \in dropped : Status(d) = "pending"
    BY WaitingLemma DEF Status
  <1> HIDE DEF start, dropped
  <1>6. /\ start \in {"pending", "dropped"}
        /\ dropped \in SUBSET {d \in Calls : Status(d) = "pending"}
        /\ \A d \in Calls : Status(d)' = IF d = c THEN start
                                         ELSE IF d \in dropped THEN "dropped"
                                         ELSE Status(d)
    BY <1>3, <1>4, <1>5 DEF start, dropped
  <1>7. QED
    BY <1>3, <1>6 DEF Promise!Start

LEMMA OnResponseSettles ==
  ASSUME IInv, NEW reply \in replies, OnResponse(reply)
  PROVE  \/ \E c \in Calls : Promise!Settle(c)
         \/ \A c \in Calls : Status(c)' = Status(c)
  <1>0. PICK id : id = made[reply.call].id
    OBVIOUS
  <1>1. CASE ~destroyed /\ id \in DOMAIN requests /\ requests[id] # NoCallback
    <2>1. PICK c \in Calls :
            /\ c = requests[id] /\ c \in DOMAIN made /\ made[c].id = id
            /\ invoked[c] = 0 /\ Waiting(c)
      BY <1>1 DEF IInv, TypeOK, StoredInv, Waiting
    <2>2. /\ DOMAIN requests' = DOMAIN requests \ {id}
          /\ \A i \in DOMAIN requests \ {id} : requests'[i] = requests[i]
          /\ invoked' = [invoked EXCEPT ![c] = @ + 1]
          /\ made' = made
      BY <1>0, <1>1, <2>1 DEF OnResponse, Delete
    <2>3. Status(c) = "pending" /\ Status(c)' = "settled"
      BY <2>1, <2>2 DEF Status, IInv, TypeOK
    <2>4. ASSUME NEW d \in Calls, d # c PROVE Status(d)' = Status(d)
      <3>1. Waiting(d)' <=> Waiting(d)
        BY <2>1, <2>2, <2>4 DEF Waiting
      <3>2. invoked'[d] = invoked[d]
        BY <2>2, <2>4 DEF IInv, TypeOK
      <3>3. QED
        BY <2>2, <3>1, <3>2 DEF Status
    <2>5. Promise!Settle(c)
      BY <2>1, <2>3, <2>4 DEF Promise!Settle
    <2>6. QED
      BY <2>1, <2>5
  <1>2. CASE ~(~destroyed /\ id \in DOMAIN requests /\ requests[id] # NoCallback)
    BY <1>0, <1>2 DEF OnResponse, Status, Waiting
  <1>3. QED
    BY <1>1, <1>2

LEMMA OthersStutter ==
  ASSUME UNCHANGED <<requests, made, invoked>>
  PROVE  \A c \in Calls : Status(c)' = Status(c)
  BY DEF Status, Waiting

LEMMA StepRefines ==
  IInv /\ [Next]_vars => [Promise!Next]_([c \in Calls |-> Status(c)])
  <1> SUFFICES ASSUME IInv, [Next]_vars
               PROVE  \/ Promise!Next
                      \/ \A c \in Calls : Status(c)' = Status(c)
    OBVIOUS
  <1>1. ASSUME NEW c \in Calls, NEW id \in Ids, NEW callback \in {c, NoCallback},
               NEW encodes \in BOOLEAN, AsyncRequest(c, id, callback, encodes)
        PROVE  Promise!Next
    BY <1>1, AsyncRequestStarts DEF Promise!Next
  <1>2. ASSUME NEW reply \in replies, OnResponse(reply)
        PROVE  \/ Promise!Next
               \/ \A c \in Calls : Status(c)' = Status(c)
    BY <1>2, OnResponseSettles DEF Promise!Next
  <1>3. ASSUME UNCHANGED <<requests, made, invoked>>
        PROVE  \A c \in Calls : Status(c)' = Status(c)
    BY <1>3, OthersStutter
  <1>4. CASE Connect \/ Disconnect \/ Destroy
    BY <1>3, <1>4 DEF Connect, Disconnect, Destroy, history
  <1>5. CASE \E reply \in replies : LoseReply(reply)
    BY <1>3, <1>5 DEF LoseReply, history
  <1>6. CASE \E c \in Calls : Respond(c) \/ LoseRequest(c)
    BY <1>3, <1>6 DEF Respond, LoseRequest, history
  <1>7. CASE UNCHANGED vars
    BY <1>3, <1>7 DEF vars
  <1>8. QED
    BY <1>1, <1>2, <1>4, <1>5, <1>6, <1>7 DEF Next

-----------------------------------------------------------------------------

(* The tables and histories have their types in every reachable state. *)
THEOREM TypeCorrect == Spec => []TypeOK
  <1>1. IInv => TypeOK
    BY DEF IInv
  <1>2. QED
    BY InitIInv, NextIInv, <1>1, PTL DEF Spec

(* The callback given to a call of asyncRequest runs at most once. *)
THEOREM CallbackAtMostOnce == Spec => []AtMostOnceInv
  <1>1. IInv => AtMostOnceInv
    BY DEF IInv, InvokedInv, AtMostOnceInv
  <1>2. QED
    BY InitIInv, NextIInv, <1>1, PTL DEF Spec

(* The callback of a call that threw is given no answer, except to what     *)
(* the same request object was published for before.                        *)
THEOREM ThrewUnanswered == Spec => []ThrewUnansweredInv
  <1>1. ASSUME IInv, NEW c \in threw, NEW d \in answeredBy[c]
        PROVE  d \in made[c].after \ threw /\ made[d].id = made[c].id
    BY <1>1 DEF IInv, TypeOK, InvokedInv, LastInv
  <1>2. IInv => ThrewUnansweredInv
    BY <1>1 DEF ThrewUnansweredInv
  <1>3. QED
    BY InitIInv, NextIInv, <1>2, PTL DEF Spec

(* A callback is given no response but the one to its own request, when    *)
(* the request object was not used for another call.                       *)
THEOREM AnswersAreOwn == Spec => []OwnAnswerInv
  <1>1. IInv => OwnAnswerInv
    BY DEF IInv, TypeOK, InvokedInv, OwnAnswerInv
  <1>2. QED
    BY InitIInv, NextIInv, <1>1, PTL DEF Spec

(* Every call of asyncRequest follows the life cycle of Settlement.        *)
THEOREM RefinesSettlement == Spec => ImplementsSettlement
  <1>1. Init => Promise!Init
    BY DEF Init, Promise!Init, Status, EmptyMap
  <1>2. QED
    BY <1>1, InitIInv, NextIInv, StepRefines, PTL
       DEF Spec, Promise!Spec, ImplementsSettlement
=============================================================================
