--------------------------- MODULE RequestManager ---------------------------
(***************************************************************************)
(* Outstanding requests (lib/request-manager.js): asyncRequest stores the  *)
(* callback under the message id of the request and publishes it, and      *)
(* onResponse invokes the callback stored under the id a response names.   *)
(* There is no timeout: a callback waits until its response arrives, is    *)
(* overwritten when a request object is sent again, or waits for ever.     *)
(* Requests and responses may be lost, delayed and reordered, and a        *)
(* service may answer a request more than once.                            *)
(***************************************************************************)
EXTENDS Naturals, PartialMap

CONSTANTS
    Calls,      \* the calls of asyncRequest; a call stands for its callback
    Ids,        \* message ids of requests: sending one again repeats its id
    NoCallback, \* undefined or null: the call was given no callback
    MaxAnswers  \* bound: responses sent for one published request

ASSUME CallsAssumption == NoCallback \notin Calls
ASSUME FabricAssumption == MaxAnswers \in Nat

VARIABLES
    requests,  \* _requests: message id |-> callback, partial
    mqtt,      \* "none" before connect(), "open", "ended" by disconnect()
    destroyed, \* destroy() was called: onResponse is no longer registered
    made,      \* history: call |-> [id, callback, calls made before], partial
    threw,     \* history: calls that threw instead of publishing
    published, \* calls whose request is on its way to a service
    replies,   \* responses on their way to the client
    lost,      \* history: calls a message of which was lost
    answers,   \* history: call |-> the responses sent for its request
    invoked,   \* history: call |-> how often its callback was invoked
    answeredBy \* history: call |-> calls whose responses its callback got

vars == <<requests, mqtt, destroyed, made, threw, published, replies, lost,
          answers, invoked, answeredBy>>
network == <<published, replies, lost, answers>>
history == <<made, threw, invoked, answeredBy>>

(* Responses and error responses take the same path to the callback. *)
Reply == [call : Calls, nth : 1..MaxAnswers]

Init ==
    /\ requests = EmptyMap
    /\ mqtt = "none"
    /\ destroyed = FALSE
    /\ made = EmptyMap
    /\ threw = {}
    /\ published = {}
    /\ replies = {}
    /\ lost = {}
    /\ answers = [c \in Calls |-> 0]
    /\ invoked = [c \in Calls |-> 0]
    /\ answeredBy = [c \in Calls |-> {}]

(* A slip to tell apart: an entry that exists is not overwritten. *)
AsyncRequest_FirstWins(c, id, callback, encodes) ==
    /\ ~destroyed
    /\ c \notin DOMAIN made
    /\ requests' =
         IF id \in DOMAIN requests THEN requests ELSE Put(requests, id, callback)
    /\ made' = Put(made, c, [id |-> id, callback |-> callback,
                            after |-> DOMAIN made])
    /\ IF encodes /\ mqtt # "none"
         THEN /\ published' = IF mqtt = "open" THEN published \cup {c}
                                               ELSE published
              /\ UNCHANGED threw
         ELSE threw' = threw \cup {c} /\ UNCHANGED published
    /\ UNCHANGED <<mqtt, destroyed, replies, lost, answers, invoked,
                   answeredBy>>

(* The callback is stored first.  Then the request is encoded, which throws *)
(* for a payload or a field that cannot be, and publish() throws without an *)
(* MQTT client; an ended one sends nothing.  Whatever throws, the entry     *)
(* stays.  Whether a request object can be encoded may change between two   *)
(* calls: its fields are the application's.                                 *)
AsyncRequest(c, id, callback, encodes) ==
    /\ ~destroyed
    /\ c \notin DOMAIN made
    /\ requests' = Put(requests, id, callback)
    /\ made' = Put(made, c, [id |-> id, callback |-> callback,
                            after |-> DOMAIN made])
    /\ IF encodes /\ mqtt # "none"
         THEN /\ published' = IF mqtt = "open" THEN published \cup {c}
                                               ELSE published
              /\ UNCHANGED threw
         ELSE threw' = threw \cup {c} /\ UNCHANGED published
    /\ UNCHANGED <<mqtt, destroyed, replies, lost, answers, invoked,
                   answeredBy>>

(* A slip to tell apart: a response clears the entries of the other requests. *)
OnResponse_ClearAll(reply) ==
    LET id == made[reply.call].id
    IN  /\ reply \in replies
        /\ replies' = replies \ {reply}
        /\ IF ~destroyed /\ id \in DOMAIN requests /\ requests[id] # NoCallback
             THEN LET c == requests[id]
                  IN  /\ requests' = EmptyMap
                      /\ invoked' = [invoked EXCEPT ![c] = @ + 1]
                      /\ answeredBy' =
                           [answeredBy EXCEPT ![c] = @ \cup {reply.call}]
             ELSE UNCHANGED <<requests, invoked, answeredBy>>
        /\ UNCHANGED <<mqtt, destroyed, made, threw, published, lost, answers>>

(* A slip to tell apart: an overwritten callback is still invoked. *)
OnResponse_ByCall(reply) ==
    LET id == made[reply.call].id
    IN  /\ reply \in replies
        /\ replies' = replies \ {reply}
        /\ IF ~destroyed /\ id \in DOMAIN requests /\ made[reply.call].callback # NoCallback
             THEN LET c == made[reply.call].callback
                  IN  /\ requests' = Delete(requests, id)
                      /\ invoked' = [invoked EXCEPT ![c] = @ + 1]
                      /\ answeredBy' =
                           [answeredBy EXCEPT ![c] = @ \cup {reply.call}]
             ELSE UNCHANGED <<requests, invoked, answeredBy>>
        /\ UNCHANGED <<mqtt, destroyed, made, threw, published, lost, answers>>

(* A slip to tell apart: the oldest entry is taken, whatever the id. *)
OnResponse_AnyEntry(reply) ==
    LET id == CHOOSE i \in Ids : DOMAIN requests = {} \/ i \in DOMAIN requests
    IN  /\ reply \in replies
        /\ replies' = replies \ {reply}
        /\ IF ~destroyed /\ id \in DOMAIN requests /\ requests[id] # NoCallback
             THEN LET c == requests[id]
                  IN  /\ requests' = Delete(requests, id)
                      /\ invoked' = [invoked EXCEPT ![c] = @ + 1]
                      /\ answeredBy' =
                           [answeredBy EXCEPT ![c] = @ \cup {reply.call}]
             ELSE UNCHANGED <<requests, invoked, answeredBy>>
        /\ UNCHANGED <<mqtt, destroyed, made, threw, published, lost, answers>>

(* The entry is deleted before the callback runs, so a callback that throws *)
(* or sends the request again finds the manager in its new state.           *)
OnResponse(reply) ==
    LET id == made[reply.call].id
    IN  /\ reply \in replies
        /\ replies' = replies \ {reply}
        /\ IF ~destroyed /\ id \in DOMAIN requests /\ requests[id] # NoCallback
             THEN LET c == requests[id]
                  IN  /\ requests' = Delete(requests, id)
                      /\ invoked' = [invoked EXCEPT ![c] = @ + 1]
                      /\ answeredBy' =
                           [answeredBy EXCEPT ![c] = @ \cup {reply.call}]
             ELSE UNCHANGED <<requests, invoked, answeredBy>>
        /\ UNCHANGED <<mqtt, destroyed, made, threw, published, lost, answers>>

Connect ==
    /\ ~destroyed
    /\ mqtt' = "open"
    /\ UNCHANGED <<requests, destroyed, network, history>>

Disconnect ==
    /\ mqtt = "open"
    /\ mqtt' = "ended"
    /\ UNCHANGED <<requests, destroyed, network, history>>

(* destroy() empties the CallbackManager; _requests is left as it is. *)
Destroy ==
    /\ ~destroyed
    /\ destroyed' = TRUE
    /\ mqtt' = IF mqtt = "open" THEN "ended" ELSE mqtt
    /\ UNCHANGED <<requests, network, history>>

-----------------------------------------------------------------------------
(* The fabric: services that answer, once or repeatedly, and loss. *)

Respond(c) ==
    /\ c \in published
    /\ answers[c] < MaxAnswers
    /\ answers' = [answers EXCEPT ![c] = @ + 1]
    /\ replies' = replies \cup {[call |-> c, nth |-> answers[c] + 1]}
    /\ UNCHANGED <<requests, mqtt, destroyed, published, lost, history>>

LoseRequest(c) ==
    /\ c \in published
    /\ published' = published \ {c}
    /\ lost' = lost \cup {c}
    /\ UNCHANGED <<requests, mqtt, destroyed, replies, answers, history>>

LoseReply(reply) ==
    /\ reply \in replies
    /\ replies' = replies \ {reply}
    /\ lost' = lost \cup {reply.call}
    /\ UNCHANGED <<requests, mqtt, destroyed, published, answers, history>>

Next ==
    \/ \E c \in Calls, id \in Ids :
         \E callback \in {c, NoCallback}, encodes \in BOOLEAN :
           AsyncRequest(c, id, callback, encodes)
    \/ \E reply \in replies : OnResponse(reply) \/ LoseReply(reply)
    \/ \E c \in Calls : Respond(c) \/ LoseRequest(c)
    \/ Connect
    \/ Disconnect
    \/ Destroy

Spec == Init /\ [][Next]_vars

(* The event loop of Node.js handles what has arrived, and the services   *)
(* answer what reaches them: nothing in the client waits for less.         *)
Fairness ==
    /\ \A reply \in Reply : WF_vars(mqtt = "open" /\ OnResponse(reply))
    /\ \A c \in Calls : WF_vars(Respond(c))

FairSpec == Spec /\ Fairness

-----------------------------------------------------------------------------
(* Properties *)

(* The values the tables and the histories range over. *)
TypeOK ==
    /\ DOMAIN requests \subseteq Ids
    /\ \A id \in DOMAIN requests : requests[id] \in Calls \cup {NoCallback}
    /\ mqtt \in {"none", "open", "ended"}
    /\ destroyed \in BOOLEAN
    /\ DOMAIN made \subseteq Calls
    /\ \A c \in DOMAIN made :
         made[c] \in [id : Ids, callback : {c, NoCallback},
                     after : SUBSET Calls]
    /\ threw \subseteq DOMAIN made
    /\ published \subseteq DOMAIN made
    /\ replies \subseteq Reply
    /\ lost \subseteq DOMAIN made
    /\ \A reply \in replies : reply.call \in DOMAIN made
    /\ answers \in [Calls -> 0..MaxAnswers]
    /\ invoked \in [Calls -> Nat]
    /\ answeredBy \in [Calls -> SUBSET Calls]

(* However often a request is answered, sent again or both, the callback   *)
(* of a call runs at most once.                                            *)
AtMostOnceInv == \A c \in Calls : invoked[c] <= 1

(* A call that threw has told its caller that nothing was sent, and yet its *)
(* callback was stored.  It is given no answer to what is sent after it,    *)
(* even if that is the same request object, only to what the same object    *)
(* was sent for before.                                                     *)
ThrewUnansweredInv ==
    \A c \in threw :
        answeredBy[c] \subseteq {d \in made[c].after \ threw :
                                 made[d].id = made[c].id}

(* One would expect more: that the callback of a call that threw stays      *)
(* silent.  It does not if the request object was sent before.              *)
ThrewIsSilentInv == \A c \in threw : invoked[c] = 0

(* With a request object of its own, a callback is only ever given the     *)
(* response to its own request, however many others are outstanding.       *)
OwnAnswerInv ==
    \A c \in DOMAIN made :
        (\A d \in DOMAIN made \ {c} : made[d].id # made[c].id)
          => answeredBy[c] \subseteq {c}

Waiting(c) == \E id \in DOMAIN requests : requests[id] = c

(* The callback of a published request is invoked unless a message of it   *)
(* is lost, the client disconnects or is destroyed, or the request object   *)
(* is used for another call: it waits for ever for no other reason.         *)
EventuallyAnsweredProp ==
    \A c \in Calls :
        (c \in published /\ Waiting(c))
          ~> \/ invoked[c] = 1
             \/ c \in lost \/ destroyed \/ mqtt = "ended"
             \/ \E d \in DOMAIN made \ {c} :
                  c \in DOMAIN made /\ made[d].id = made[c].id

(* request-manager.js describes _requests as the active requests.  Once    *)
(* the response to a request was handled, it is active no longer.          *)
OnlyActiveRequestsProp ==
    [][\A reply \in replies :
         (OnResponse(reply) /\ ~destroyed)
           => made[reply.call].id \notin DOMAIN requests']_vars

Status(c) ==
    IF c \notin DOMAIN made THEN "new"
    ELSE IF invoked[c] > 0 THEN "settled"
    ELSE IF Waiting(c) THEN "pending"
    ELSE "dropped"

Promise == INSTANCE Settlement WITH status <- [c \in Calls |-> Status(c)]

(* Every call goes from pending to settled or dropped and stays there. *)
ImplementsSettlement == Promise!Spec
=============================================================================
