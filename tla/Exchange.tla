------------------------------ MODULE Exchange ------------------------------
(***************************************************************************)
(* One message on its way through the fabric: an event, or a request, the  *)
(* answer the service makes of it, and what the requester's callback is    *)
(* given (lib/message.js, lib/response.js, lib/request-error.js).  The     *)
(* broker stamps a message with where it comes from and encodes its        *)
(* payload anew.  Clients and brokers may speak older versions of the      *)
(* format, or leave out the end of a message.                              *)
(***************************************************************************)
EXTENDS MessageCodec

CONSTANTS
    HighBit,   \* the highest bit of an error code, 0x80000000 in the code
    Versions,  \* versions of the message format that are spoken
    Payloads,  \* the payloads of messages
    Codes,     \* the error codes services answer with
    MaxCut     \* bound: a message ends that near to its first or last byte

ASSUME HighBitAssumption == HighBit \in Nat \ {0}
ASSUME MaxCutAssumption == MaxCut \in Nat
ASSUME CodesAssumption == Codes \subseteq -HighBit..(2 * HighBit - 1)
ASSUME VersionsAssumption == Versions \subseteq Nat
\* The length of a payload fits into the four bytes msgpack has for it.
ASSUME PayloadsAssumption ==
    \A p \in Payloads : /\ p = Payload(p.as, p.length)
                        /\ p.length \in Nat /\ p.length \div 65536 < 65536

VARIABLES
    leg,     \* where the message is
    topic,   \* the MQTT topic the message was published on
    wire,    \* its bytes under way
    got,     \* the message as the receiver decoded it
    error,   \* RequestError#code as the requester's callback was given it
    carried, \* history: the message as it was last encoded
    asked,   \* history: the id of the message as its sender made it
    cut      \* history: the end of the message was left out

vars == <<leg, topic, wire, got, error, carried, asked, cut>>

Legs == {"none", "sent", "relayed", "received", "answered", "returned",
         "done", "failed"}
None == <<>>

Topic == "topic1"        \* what the message is about, or its service's topic
ReplyTopic == "replies1" \* Client#_replyToTopic of the requester

Init ==
    /\ leg = "none"
    /\ topic = ""
    /\ wire = ToBytes(NewMessage(EVENT, "none"))
    /\ got = None /\ error = "none"
    /\ carried = NewMessage(EVENT, "none")
    /\ asked = "none"
    /\ cut = FALSE

(* publish(message.destinationTopic, message._toBytes()) *)
Publish(message) ==
    /\ carried' = message
    /\ topic' = message.destinationTopic
    /\ wire' = ToBytes(message)

(* sendEvent() and asyncRequest(): for any service of the topic, or one. *)
Send(type, version, payload, others) ==
    /\ leg = "none"
    /\ leg' = "sent"
    /\ LET message == [NewMessage(type, "m1") EXCEPT
                         !.destinationTopic = Topic,
                         !.version = version, !.payload = payload,
                         !.otherFields = others]
       IN  /\ asked' = message.messageId
           /\ Publish(IF type = REQUEST
                       THEN [message EXCEPT !.replyToTopic = ReplyTopic]
                       ELSE message)
    /\ UNCHANGED <<got, error, cut>>

(* The broker sets what only it knows, and passes the message on to those   *)
(* that have subscribed to its topic.  It may encode a payload as a string *)
(* that was a buffer, and the other way round.                              *)
Relay(as) ==
    /\ leg \in {"sent", "answered"}
    /\ leg' = IF leg = "sent" THEN "relayed" ELSE "returned"
    /\ LET stamped == [carried EXCEPT
                         !.sourceClientId =
                           IF leg = "sent" THEN "client1" ELSE "client2",
                         !.sourceBrokerId = "broker1",
                         !.payload.as = as]
           tenant == IF carried.version > 1
                       THEN [stamped EXCEPT !.sourceTenantGuid = "tenant1"]
                       ELSE stamped
       IN  Publish(IF carried.messageType = REQUEST
                    THEN [tenant EXCEPT !.serviceId = "service1"] ELSE tenant)
    /\ UNCHANGED <<got, error, asked, cut>>

(* The end of the message is left out. *)
Cut(missing) ==
    /\ leg \in {"relayed", "returned"} /\ ~cut
    /\ missing \in 1..Length(wire)
    /\ wire' = [wire EXCEPT !.missing = missing]
    /\ cut' = TRUE
    /\ UNCHANGED <<leg, topic, got, error, carried, asked>>

(* A slip to tell apart: -1 is taken for 2^32 - 2. *)
NormalizedCode_OffByOne(code) ==
    IF code < 0 THEN (2 * HighBit - 1) + code ELSE code

(* Brokers written in other languages send codes as signed integers. *)
NormalizedCode(code) ==
    IF code < 0 THEN (2 * HighBit - 1) + code + 1 ELSE code

(* errorCodesToNames *)
NameOf(code) ==
    CASE code = HighBit + 1 -> "SERVICE_UNAVAILABLE"
      [] code = HighBit + 2 -> "SERVICE_OVERLOADED"
      [] code = HighBit + 3 -> "RESPONSE_TIMEOUT"
      [] OTHER -> "undefined"

(* The 'message' event: what cannot be decoded is logged and dropped, and   *)
(* what can is handed to the callbacks of the topic it came on.             *)
Receive ==
    /\ leg \in {"relayed", "returned"}
    /\ LET message == DecodeMessage(wire)
       IN  IF message = Failed
             THEN leg' = "failed" /\ got' = None /\ UNCHANGED error
           ELSE /\ got' = [message EXCEPT !.destinationTopic = topic]
                /\ leg' = IF message.messageType = REQUEST THEN "received"
                                                           ELSE "done"
                /\ error' = IF message.messageType = ERROR
                              THEN NameOf(NormalizedCode(message.errorCode))
                              ELSE error
    /\ UNCHANGED <<topic, wire, carried, asked, cut>>

(* The service answers: new Response(request), or new ErrorResponse(). *)
Answer(type, payload, code) ==
    /\ leg = "received"
    /\ leg' = "answered"
    /\ LET answer == [ResponseTo(type, got, "m2") EXCEPT !.payload = payload]
       IN  Publish(IF type = ERROR THEN [answer EXCEPT !.errorCode = code]
                                  ELSE answer)
    /\ UNCHANGED <<got, error, asked, cut>>

Next ==
    \/ \E type \in {REQUEST, EVENT}, version \in Versions, payload \in Payloads :
         \E others \in {EmptyMap, [k1 |-> "v1"], [k1 |-> "v1", k2 |-> "k1"]} :
            Send(type, version, payload, others)
    \/ \E as \in {"string", "buffer"} : Relay(as)
    \/ \E n \in 0..MaxCut : Cut(n) \/ Cut(Length(wire) - n)
    \/ Receive
    \/ \E code \in Codes : Answer(ERROR, Payload("string", 0), code)
    \/ \E payload \in Payloads : Answer(RESPONSE, payload, 0)

Spec == Init /\ [][Next]_vars

-----------------------------------------------------------------------------
(* Properties *)

(* The legs, and messages whose payload is a buffer whatever it was sent as, *)
(* which is what applications are told to expect.                           *)
TypeOK ==
    /\ leg \in Legs
    /\ carried.messageType \in Types
    /\ wire.missing \in Nat /\ cut \in BOOLEAN
    /\ got # None =>
         got.messageType \in Types /\ got.payload.as = "buffer"
    /\ error \in {"none", "SERVICE_UNAVAILABLE", "SERVICE_OVERLOADED",
                  "RESPONSE_TIMEOUT", "undefined"}

(* The fields that a message of a version has in its bytes. *)
Carries(version, field) ==
    /\ field # "destinationTopic"
    /\ field = "otherFields" => version > 0
    /\ field \in {"sourceTenantGuid", "destinationTenantGuids"} => version > 1

(* A receiver reads from the bytes what the sender wrote into them: every   *)
(* field its version carries, and the length of a payload that the broker   *)
(* encoded otherwise.  The others keep their defaults, but for the topic,   *)
(* which is the one the message was sent to.                                *)
CarriedInv ==
    leg \in {"received", "done"} =>
        /\ DOMAIN got = DOMAIN carried
        /\ got.payload.length = carried.payload.length
        /\ got.destinationTopic = carried.destinationTopic
        /\ \A field \in DOMAIN got \ {"payload", "destinationTopic"} :
             IF Carries(carried.version, field)
               THEN got[field] = carried[field]
               ELSE got[field] = NewMessage(got.messageType, "")[field]

(* A message arrives whole or not at all: no part of one is taken for a     *)
(* shorter message, whatever its version and wherever it breaks off.        *)
WholeInv ==
    /\ leg = "failed" => cut
    /\ leg = "done" => ~cut

(* The answer finds its way: it is published on the topic the requester      *)
(* waits for answers on, and given to the callbacks of that topic there; it *)
(* names the request it answers, and the client and the broker the request  *)
(* came from, which the broker set in between.                              *)
AnswerInv ==
    /\ leg \in {"answered", "returned"} => topic = ReplyTopic
    /\ (leg = "done" /\ got.messageType \in {RESPONSE, ERROR}) =>
         /\ got.destinationTopic = ReplyTopic
         /\ got.requestMessageId = asked
         /\ got.serviceId = "service1"
         /\ got.clientIds = <<"client1">> /\ got.brokerIds = <<"broker1">>

(* A well-known error is told by its name, signed or unsigned, and no other *)
(* error is taken for one.                                                  *)
ErrorCodeInv ==
    (leg = "done" /\ got.messageType = ERROR) =>
        error = NameOf(carried.errorCode % (2 * HighBit))
=============================================================================
