---------------------------- MODULE MessageCodec ----------------------------
(***************************************************************************)
(* The DXL message formats (lib/message.js, lib/decode-message.js and the  *)
(* classes of messages).  A message maps the names of its fields to their  *)
(* values.  A buffer is a sequence of msgpack objects, of which the last   *)
(* bytes may be missing.  Of a payload its kind and its length count; any  *)
(* other object is one byte long.                                          *)
(***************************************************************************)
EXTENDS Integers, SequencesExt, PartialMap

REQUEST == 0
RESPONSE == 1
EVENT == 2
ERROR == 3
Types == {REQUEST, RESPONSE, EVENT, ERROR}

Payload(as, length) == [as |-> as, length |-> length]

(* What the constructors set; every message gets an id of its own.  The     *)
(* topic a message goes to is not in its bytes.                             *)
MessageDefaults(type, id) ==
    [version |-> 2, messageType |-> type, messageId |-> id,
     destinationTopic |-> "",
     sourceClientId |-> "", sourceBrokerId |-> "",
     brokerIds |-> <<>>, clientIds |-> <<>>, payload |-> Payload("string", 0),
     otherFields |-> EmptyMap,
     sourceTenantGuid |-> "", destinationTenantGuids |-> <<>>]

RequestDefaults(id) ==
    Extend(MessageDefaults(REQUEST, id), [replyToTopic |-> "", serviceId |-> ""])
ResponseDefaults(type, id) ==
    Extend(MessageDefaults(type, id),
           [requestMessageId |-> "null", serviceId |-> ""])
ErrorDefaults(id) ==
    Extend(ResponseDefaults(ERROR, id), [errorCode |-> 0, errorMessage |-> ""])

(* messageTypeToFunction *)
NewMessage(type, id) ==
    CASE type = REQUEST -> RequestDefaults(id)
      [] type = RESPONSE -> ResponseDefaults(RESPONSE, id)
      [] type = EVENT -> MessageDefaults(EVENT, id)
      [] type = ERROR -> ErrorDefaults(id)

(* A slip to tell apart: the answer goes to the topic the request came on. *)
ResponseTo_SameTopic(type, request, id) ==
    [NewMessage(type, id) EXCEPT
       !.destinationTopic = request.destinationTopic,
       !.requestMessageId = request.messageId,
       !.serviceId = request.serviceId,
       !.clientIds = IF request.sourceClientId = "" THEN @
                     ELSE <<request.sourceClientId>>,
       !.brokerIds = IF request.sourceBrokerId = "" THEN @
                     ELSE <<request.sourceBrokerId>>]

(* The constructor of Response, when it is given a request. *)
ResponseTo(type, request, id) ==
    [NewMessage(type, id) EXCEPT
       !.destinationTopic = request.replyToTopic,
       !.requestMessageId = request.messageId,
       !.serviceId = request.serviceId,
       !.clientIds = IF request.sourceClientId = "" THEN @
                     ELSE <<request.sourceClientId>>,
       !.brokerIds = IF request.sourceBrokerId = "" THEN @
                     ELSE <<request.sourceBrokerId>>]

-----------------------------------------------------------------------------
(* Packing *)

PackMessage(type) ==
    <<"messageId", "sourceClientId", "sourceBrokerId", "brokerIds",
      "clientIds", "payload">>
    \o CASE type = REQUEST -> <<"replyToTopic", "serviceId">>
         [] type = RESPONSE -> <<"requestMessageId", "serviceId">>
         [] type = EVENT -> <<>>
         [] type = ERROR ->
              <<"requestMessageId", "serviceId", "errorCode", "errorMessage">>
PackMessageV1 == <<"otherFields">>
PackMessageV2 == <<"sourceTenantGuid", "destinationTenantGuids">>

(* Names and values in turn. *)
OtherFieldsAsArray(fields) ==
    FlattenSeq([i \in 1..Cardinality(DOMAIN fields) |->
                  LET name == SetToSeq(DOMAIN fields)[i]
                  IN  <<name, fields[name]>>])

(* msgpack's headers of a string or a buffer of n bytes *)
BigEndian(n, width) == [i \in 1..width |-> (n \div 256^(width - i)) % 256]
BinHead(as, n) ==
    IF as = "string" /\ n < 32 THEN <<160 + n>>
    ELSE LET width == IF n < 256 THEN 1 ELSE IF n < 65536 THEN 2 ELSE 4
             first == (IF as = "string" THEN 217 ELSE 196)
                        + (CASE width = 1 -> 0 [] width = 2 -> 1 [] width = 4 -> 2)
         IN  <<first>> \o BigEndian(n, width)

Item(value) == [head |-> <<0>>, body |-> 0, value |-> value]

(* payloadAsBufferOrString(): anything but a buffer becomes a string. *)
BinItem(payload) ==
    [head |-> BinHead(IF payload.as = "buffer" THEN "buffer" ELSE "string",
                      payload.length),
     body |-> payload.length, value |-> payload]

PackField(message, field) ==
    CASE field = "payload" -> BinItem(message.payload)
      [] field = "otherFields" -> Item(OtherFieldsAsArray(message.otherFields))
      [] OTHER -> Item(message[field])

ToBytes(message) ==
    LET fields == <<"version", "messageType">>
                  \o PackMessage(message.messageType)
                  \o (IF message.version > 0 THEN PackMessageV1 ELSE <<>>)
                  \o (IF message.version > 1 THEN PackMessageV2 ELSE <<>>)
    IN  [items |-> [i \in DOMAIN fields |-> PackField(message, fields[i])],
         missing |-> 0]

-----------------------------------------------------------------------------
(* Unpacking *)

Size(item) == Len(item.head) + item.body
Length(buffer) ==
    FoldLeft(LAMBDA sum, item : sum + Size(item), 0, buffer.items)
      - buffer.missing
Consume(buffer) == [buffer EXCEPT !.items = Tail(@)]

(* A slip to tell apart: two fields in another order than they are packed. *)
UnpackMessage_Swapped(type) ==
    <<"messageId", "sourceClientId", "sourceBrokerId", "clientIds",
      "brokerIds", "payload">>
    \o CASE type = REQUEST -> <<"replyToTopic", "serviceId">>
         [] type = RESPONSE -> <<"requestMessageId", "serviceId">>
         [] type = EVENT -> <<>>
         [] type = ERROR ->
              <<"requestMessageId", "serviceId", "errorCode", "errorMessage">>

UnpackMessage(type) ==
    <<"messageId", "sourceClientId", "sourceBrokerId", "brokerIds",
      "clientIds", "payload">>
    \o CASE type = REQUEST -> <<"replyToTopic", "serviceId">>
         [] type = RESPONSE -> <<"requestMessageId", "serviceId">>
         [] type = EVENT -> <<>>
         [] type = ERROR ->
              <<"requestMessageId", "serviceId", "errorCode", "errorMessage">>
UnpackMessageV1 == <<"otherFields">>
UnpackMessageV2 == <<"sourceTenantGuid", "destinationTenantGuids">>

NumberOf(bytes) == FoldLeft(LAMBDA n, byte : 256 * n + byte, 0, bytes)

(* Header and length of a payload by its first byte: no offset when it is   *)
(* neither a string nor a buffer, no length when the header is cut off.     *)
DataOffset(first) ==
    CASE first \div 32 = 5 -> 1
      [] first \in {217, 196} -> 2
      [] first \in {218, 197} -> 3
      [] first \in {219, 198} -> 5
      [] OTHER -> 0
DataLength(head, offset, available) ==
    IF offset = 0 \/ available < offset THEN -1
    ELSE IF offset = 1 THEN head[1] % 32
    ELSE NumberOf(SubSeq(head, 2, offset))

Garbled == Payload("buffer", -1)
Throws(buffer) == [buffer |-> buffer, value |-> <<>>, ok |-> FALSE]
Returns(buffer, value) ==
    [buffer |-> Consume(buffer), value |-> value, ok |-> TRUE]

(* A slip to tell apart: the header is not counted. *)
UnpackBinObject_NoOffset(buffer) ==
    LET item == Head(buffer.items)
        offset == DataOffset(item.head[1])
        length == DataLength(item.head, offset, Length(buffer))
    IN  IF Length(buffer) > 0 /\ length >= 0 /\ Length(buffer) >= length
          THEN Returns(buffer, IF offset = Len(item.head) /\ length = item.body
                                 THEN Payload("buffer", length) ELSE Garbled)
        ELSE Throws(buffer)

(* _unpackBinObject(): a payload is a buffer, however it is encoded. *)
UnpackBinObject(buffer) ==
    LET item == Head(buffer.items)
        offset == DataOffset(item.head[1])
        length == DataLength(item.head, offset, Length(buffer))
    IN  IF Length(buffer) > 0 /\ length >= 0
             /\ Length(buffer) >= length + offset
          THEN Returns(buffer, IF offset = Len(item.head) /\ length = item.body
                                 THEN Payload("buffer", length) ELSE Garbled)
        ELSE Throws(buffer)

UnpackObject(buffer) ==
    IF buffer.items # <<>> /\ Length(buffer) >= Size(Head(buffer.items))
      THEN Returns(buffer, Head(buffer.items).value)
    ELSE Throws(buffer)

OtherFields(array) ==
    [name \in {array[i] : i \in {j \in DOMAIN array : j % 2 = 1}} |->
       array[1 + CHOOSE i \in DOMAIN array : i % 2 = 1 /\ array[i] = name]]

UnpackField(acc, field) ==
    LET next == IF field = "payload" THEN UnpackBinObject(acc.buffer)
                                     ELSE UnpackObject(acc.buffer)
    IN  IF ~acc.ok THEN acc
        ELSE IF ~next.ok THEN [acc EXCEPT !.ok = FALSE]
        ELSE [acc EXCEPT !.buffer = next.buffer,
                         !.message[field] =
                           IF field = "otherFields" THEN OtherFields(next.value)
                                                    ELSE next.value]

Failed == <<>>

(* DecodeMessage(): the message, or Failed when it throws.  What a later    *)
(* version appends is left in the buffer.                                   *)
DecodeMessage(raw) ==
    LET version == UnpackObject(raw)
        type == UnpackObject(version.buffer)
        fields == UnpackMessage(type.value)
                  \o (IF version.value > 0 THEN UnpackMessageV1 ELSE <<>>)
                  \o (IF version.value > 1 THEN UnpackMessageV2 ELSE <<>>)
        start == [buffer |-> type.buffer, ok |-> TRUE,
                  message |-> [NewMessage(type.value, "new") EXCEPT
                                 !.version = version.value]]
        end == FoldLeft(UnpackField, start, fields)
    IN  IF ~version.ok \/ ~type.ok THEN Failed
        ELSE IF type.value \notin Types THEN Failed
        ELSE IF end.ok THEN end.message ELSE Failed
=============================================================================
