# The OpenDXL JavaScript client in TLA+

`opendxl-client-javascript` connects a Node.js application to a DXL fabric: it
publishes and receives events, invokes services and provides them, and it
provisions the certificate and the configuration it connects with. This
directory models the parts of it that keep state, checks them with TLC on small
instances, and proves the most important properties with TLAPS for every
instance. All paths below are relative to the repository.

- [1. The system](#1-the-system)
- [2. Modules](#2-modules)
- [3. Runs](#3-runs)
- [4. Bounds](#4-bounds)
- [5. Fairness](#5-fairness)
- [6. Proofs](#6-proofs)
- [7. Where the code and its documentation differ](#7-where-the-code-and-its-documentation-differ)
- [8. What is not modelled](#8-what-is-not-modelled)
- [9. Plan](#9-plan)
- [10. Running the checks](#10-running-the-checks)

## 1. The system

Everything in `lib/` runs in one thread, the event loop of Node.js. A method
runs from its call to its return without interruption, so one call of a method
or one event handler is one action in the models. What interleaves is *which*
call or event comes next: application calls, messages from the broker,
acknowledgements, timers, HTTP responses, connections that come and go. Where a
handler calls back into the application half way (message dispatch) the model
is split at that point, because the application may call the library again
before the handler goes on.

| Component | State | Operations | Hard behaviour |
|---|---|---|---|
| Subscriptions and registry: `lib/client.js`, `lib/callback-manager.js` | `_subscriptionsByMessageType`: topic → message type → callbacks; the three callback managers; the topics the MQTT client is subscribed to | `add…Callback`, `remove…Callback`, `subscribe`, `unsubscribe`, `connect`, `disconnect`, `destroy` | three tables kept in step by hand; what empties what depends on the whole history; topics added before there is an MQTT client |
| Request manager: `lib/request-manager.js` | `_requests`: message id → callback | `asyncRequest`, `onResponse`, `destroy` | lost, repeated and reordered responses; the callback is stored before the request is encoded and published, which may throw; no timeout |
| Service manager: `lib/service-manager.js`, `lib/service-registration-info.js` | `_services`: service id → service object; a TTL timer and the wrapped callbacks of each object | `registerServiceAsync`, `unregisterServiceAsync`, `addTopic`, `onConnected`, the TTL timeout, the REGISTER and UNREGISTER responses, `destroy` | timers that hold an object the manager has forgotten; reconnects; responses that arrive after the service went; expiry in the broker |
| Connection: `lib/client.js` | `_mqttClient`, `_lastConnectedBroker`, the connect callback | `connect`, `disconnect`, `destroy`, the handlers of the MQTT client's events | who invokes the callback of `disconnect()`: the client or the MQTT client; connections that break while `end()` waits; a second `connect()` |
| Message dispatch: `lib/callback-manager.js` | one array of callbacks per topic | `addCallback`, `removeCallback`, `onMessage`, `destroy` | callbacks change the arrays while `forEach` walks them, or throw |
| Message codec: `lib/message.js`, `lib/request.js`, `lib/event.js`, `lib/response.js`, `lib/error-response.js`, `lib/request-error.js`, `lib/decode-message.js`, `lib/util.js` | none (bytes under way) | `_toBytes`, `fromBytes`, `new Response(request)`, `RequestError` | fields have an order instead of names; three versions; payload headers change their form at 32, 256 and 65536 bytes; messages without their end |
| Provisioning: `lib/_provisioning/*` | seven files, the configuration file in three parts; the options and redirect counter of each HTTP request | `generatePrivateKeyAndCsr`, `provisionConfig`, `updateConfig`, the handlers of the HTTP response | several steps of which each may fail, or be the last of its process; a callback that must be told once, and error handlers that outlive their request; two calls on one directory |
| Configuration file: `lib/config.js`, `lib/broker.js`, `lib/_provisioning/update-config.js`, the constructor of `lib/client.js` | the lines of `dxlclient.config`; `_servers` | `Config.createDxlConfigFromFile`, `updateBrokerListInConfigFile`, `Client` | a line based rewrite of a file people edit, read again by an ini parser with rules of its own; brokers that share addresses |
| PKI: `lib/_provisioning/pki.js` | key and CSR files | `generatePrivateKeyAndCsr` | fails half way; the key of one call and the request of another |
| Command line: `lib/_cli/*`, `bin/` | the options of a command while it asks for what is missing | the actions of the three commands, `getValueFromPrompt`, `processError` | prompts in a chain of callbacks, answers that are empty, confirmed, or differ; an error ends the process |
| Errors, exported types, samples, tests | none | | none |

How they interact:

- `Client` owns one `RequestManager` and one `ServiceManager`. The request
  manager registers its `onResponse` for the reply-to topic when it is made, the
  service manager a request callback that answers "unable to locate service"
  for ids it does not know. Both go through the tables of *Subscriptions*.
- `connect()` makes an MQTT client and subscribes it to every topic of the
  table at once (the MQTT library keeps what is asked of it while offline). Its
  `connect` event calls `ServiceManager.onConnected()`, its `message` event decodes the bytes (*codec*) and calls the callback manager of the
  message's type (*dispatch*).
- The service manager registers with the broker through the request manager:
  its REGISTER and UNREGISTER are ordinary requests with callbacks. It adds the
  callbacks of a service to the tables after REGISTER was sent, and takes them
  out after UNREGISTER was; services and the application may share topics.
- A command of `bin/dxlclient.js` makes one call of `generatePrivateKeyAndCsr()`,
  `provisionConfig()` or `updateConfig()` once it has the credentials and the
  passphrase. Processes share only the files, which outlive them.
- `provisionConfig()` writes the file that `updateConfig()` rewrites and
  `createDxlConfigFromFile()` reads; the result is the `config.brokers` that
  `connect()` uses.

What makes each part correct is stated in the modules, a comment in front of
each property, and repeated in section 3. `hazards` in `PROJECT.json` lists, line
by line, what can go wrong and which property would notice.

## 2. Modules

Small modules: `PartialMap` (JavaScript objects used as tables: partial
functions with `Put` and `Delete`), and one MC module per component that only
holds the constants, symmetries and constraints of its runs.

**`SubscriptionTables`** and **`Subscriptions`**, with the abstract
**`TopicInterest`**. One record `client` holds the two tables and the MQTT
client's topics, `mqttTopics`; the operators of `SubscriptionTables` are what
one call does to it, and `Subscriptions` lets an application make the calls in
any order. `AddEventCallback` … `RemoveResponseCallback`, `Subscribe`, `Unsubscribe`, `Connect`, `Disconnect`
and `Destroy` are the methods of `Client` of the same name; a response callback
is added to both the response and the error table, and a request manager and a
service manager have left their callbacks in `Init`, as the constructor does.
`TopicInterest` says what an application expects: there is a set of interests,
operations add and remove elements of it, and the MQTT client listens to the
topics of that set. `Interest!Spec` is checked as a property, and proved.

**`RequestManager`**, with the abstract **`Settlement`**. `AsyncRequest` stores
the callback and then publishes or throws, for want of an MQTT client or because
the request cannot be encoded; that a request object could be encoded before
says nothing, since its fields are the application's. `OnResponse` looks up,
deletes and invokes. `Respond`, `LoseRequest` and `LoseReply` are the fabric, which keeps no
order and lets services answer up to `MaxAnswers` times. In `Settlement` a call is new, pending, settled or
dropped, and the last two are final.

**`ServiceManager`**. `RegisterServiceAsync`, `UnregisterServiceAsync`,
`AddTopic`, `TtlFires`, `OnConnected`, `Disconnect`, `Destroy` and `HandleReply`
are the code; `Closed`, `BrokerHandles` and `BrokerExpires` are the network and
the broker. Each registration makes an object of its own, since timers and
response callbacks hold the object and not the id. The order of requests on one
connection is kept, because MQTT keeps it, and a connection that breaks loses
what is under way.

**`Fabric`** extends `Subscriptions` (its `client` is the client of that module)
by the service manager and the broker. An operation lists the calls it makes, and `AfterCalls` (a recursive
function) makes them one after the other on the tables: `wire` holds registry requests and
(un)subscriptions in the order they were sent, `registry` and `listening` are
what the broker knows, `Route` sends a request for a service to this client if
it listens to the topic. `RegisterServiceAsync`, `UnregisterServiceAsync`,
`OnConnected`, `Destroy` and `Renew` are the service manager; `AddMonitor` and
`RemoveMonitor` are a request callback of the application on the same topics.
`Answer` says who answers a request that arrives. Timers and the callbacks of
registrations are in `ServiceManager`; here a renewal may come at any time.

**`Connection`**. `Connect`, `Disconnect` and `Destroy` are the methods,
`OnConnect` the handler of the connect event; `Acknowledged`, `Drop` and `Ended`
are the MQTT library as `client.js` relies on it. An MQTT client has an
identity: `connect()` makes another one and does not end the first.

**`CallbackManager`**. Arrays have an identity, as in JavaScript.
`OnMessage` collects the arrays that match, `NextArray` begins `forEach`
on one, `Return` ends a callback and goes on to the next index; in between
`AddCallback`, `RemoveCallback` and `Destroy` may run. `forEach` is modelled as
the language defines it: the length is read once, elements when they are
reached. The arrays that match are walked in any order: `onMessage` does go in
the order they were made, and the properties do not depend on it. A callback that
throws is caught per callback and needs no action of its own.

**`ManagementService`** and **`Provisioning`**. The first holds the HTTP request
of one call: response headers with a redirect, an error or success, the end of
the body, the `error` event. `httpGet()` never takes its `error` handler off a
request, so one whose headers have come stays `open`: its connection may still
fail while the body is read, or while the body of a redirect is drained beside the
request that follows it, and the handler invokes the callback of the call then
as well (`LateError`, counted in `late`). The body itself may end all the same,
as one without a given length does with its connection, or never end (`Break`).
The second holds the files and the three operations, `GenerateCsr`,
`ProvisionGenerate` or `ProvisionCsrFile`, and `UpdateConfig`, with the response
callbacks `StoreProvisionConfig`, `UpdateBrokerCertChain` and
`UpdateBrokerLists`. A file *is* the attempt that wrote it, so that "these files
belong together" can be said. A write may fail and leave a torn file; a process
may be killed between two writes, while openssl runs, or while it waits for the
service (`Killed`, `Kill`). What it wrote stays, and the next attempt starts from
that: attempts are calls of one process or processes of their own.

**`CommandLine`** extends `Provisioning` by the commands. `Start` is a
subcommand with its options, `Asks` the chain of callbacks that looks for what
is `Missing` of what the subcommand needs (`Needed`), `Answer` a line at the prompt (`Again`, `ToConfirm`, `Mismatch`,
`Accept`), `Interrupt` the end of the input, and `Proceed` the one call of
`Provisioning` that is made within the callback of the last answer.

**`Config`** and **`ConfigFile`**. `Config` reads a file as
`createDxlConfigFromFile` does, on lines that are headers, entries or fillers
(blank lines and comments); `ConfigFile` updates it as
`updateBrokerListInConfigFile` does, with a fold over the lines, while people add
lines. `Expected` is the reference definition the fold is compared with.
`Servers` and `BrokerOf` are what the constructor of `Client` and its connect
event make of the brokers that were read.

**`MessageCodec`** and **`Exchange`**. The first is pure: pack and unpack for
the four classes and three versions, on bytes grouped into what belongs
together (one header, the content of one payload) with a count of the bytes that
are missing at the end. `Exchange` sends one message through a broker
(`Send`, `Relay`, `Receive`, `Answer`, `Cut`), so that both directions, answers
and mixtures of versions come up. `topic` is the MQTT topic a message is
published on (`Publish`) and delivered with: that of the service for a request,
for an answer the one its constructor takes from the request.

`map` in `PROJECT.json` names the lines each definition stands for.

## 3. Runs

| Run | Question | Shows |
|---|---|---|
| `Subscriptions` | Do the two tables and the MQTT client ever disagree? | `MirrorInv`: an open MQTT client is subscribed to exactly the topics of the table. `SubscribedIsRegisteredInv`, `ErrorPairInv`: the tables agree. `ImplementsTopicInterest`: each operation does to the set of interests exactly what its caller expects, so that a topic goes only with the last that needs it, or with `unsubscribe()`. |
| `RequestManager` | Is every callback run once, with its own answer? | `ThrewUnansweredInv`: the callback of a call that threw is given no answer but one to an earlier use of its request object. `OwnAnswerInv`: a request object used once brings its own answer. Both on a fabric that loses, repeats and reorders; `EventuallyAnsweredProp`: it waits for ever only for the reasons listed in the property; `ImplementsSettlement`: settled or dropped once and for all. |
| `ServiceManager` | Do timers, routing and the order of registry requests survive reconnects and re-registration? | `TimerInv`: while connected, exactly one timer for each active service, and never a timer of another. `RoutedInv`: a request is refused or given to the one active registration, never both. `LastWordInv`: no REGISTER follows the UNREGISTER of the same service. `FirstOnceInv`, `NoNewsAfterToldProp`. `RenewedProp`: an active service is registered again and again. `ForgottenProp`: one that is gone is forgotten, even when it was unregistered offline. |
| `Fabric` | Do registry requests and subscriptions, sent one after the other, fit together at the broker? | `HeardInv`: while a request may be routed to a service, its topics are subscribed or the subscription is on its way. `AnsweredOnceInv`: a request is answered once, by the service it names or with "unable to locate service", whoever else listens to the topic. `HeardInTheEndProp`: on a connection that lasts, the topics of a service that stays become and stay subscribed, whatever else comes and goes that shares them. |
| `Connection` | Who invokes which callback, and how often? | `ToldOnceInv`, `NoLostCallbackInv`: exactly one holder of every callback at all times. `CurrentBrokerInv`. `EndToldProp`: it is invoked in the end, except where the connection breaks while `end()` waits. |
| `CallbackManager` | Who gets a message while the tables change? | `CompleteInv`: everyone in an array nothing was removed from, once. `TypeOK`: no array is shared, empty or holds a callback twice. |
| `CallbackManagerKept` | (violation) | a callback that stays registered misses a message; section 7. |
| `Provisioning` | What is the caller told, how often, and what do the files then hold? | `ToldOnceInv`: once, but for two errors at the last redirect, and for late errors, at most one for each request that was answered. `NoWriteAfterToldProp`: a call that was told how it ended, late errors aside, writes nothing any more. `AnsweredProp`: nobody waits for ever, but where the call threw, its process ended or a body never ends. `StoredInv`: success means that everything was stored. `OrderInv`: what fails or is killed half way has stored nothing before what must go with it. `FitsInv`: the certificate fits the key, though the key may have been made by another call or by a process that was killed. `CredentialsInv`, `ConfirmedInv`: a command calls nothing without what it had to ask for, and a passphrase was typed twice in a row. |
| `ProvisioningStored` | (violation) | success with nothing stored; section 7. |
| `ConfigFile` | Does an update replace the brokers and nothing else, for every layout? | `ReplacesInv` against the reference definition, `IdempotentInv`, `RoundTripInv`: what was written is read back. `ServersInv`: the client tries every address of every broker, none twice, and finds the broker it belongs to; it has none to try only if the file has none. |
| `ConfigFileLayout` | (violation) | an update that fails because of the layout; section 7. |
| `Exchange` | Do the packers and unpackers agree? | `CarriedInv`: every field, in every version, at the payload lengths where the header changes. `WholeInv`: a cut message is never taken for a shorter one. `AnswerInv`: an answer is published on the topic its requester waits on, and names the request and where it came from. `ErrorCodeInv`. |

The `TypeOK` of `Subscriptions`, `RequestManager`, `ServiceManager`,
`Connection`, `Provisioning` and `Exchange`, `NoEmptyEntryInv`, `AtMostOnceInv`,
`ConnectOnceInv` and `LastOneOutProp` are proved (section 6) and need no run.
Every property of a passing run is accompanied by a mutant of the code
(`mutants` in `PROJECT.json`) that breaks it.

## 4. Bounds

| Module | Bound | Why it is enough |
|---|---|---|
| `Subscriptions` | two topics besides the reply-to topic and the one that matches all, two callbacks, `MaxRegistered` = 2 of their registrations at a time beside the two built in | the operations concern one topic each; a list, a type and a topic become empty when one of two goes. All properties of the run are also proved without bounds. |
| `RequestManager` | two calls, two message ids, `MaxAnswers` = 2 | two calls share a request object or not; two answers are one too many. Safety is proved without bounds on calls and ids, and for every `MaxAnswers`. |
| `ServiceManager` | one service, two registrations, one topic, `MaxWire` = 3 requests and as many responses under way | a registration, its renewal and its unregistration fit together; registration twice needs two objects. Services share nothing but the wire, which two of them would fill for ever within this bound; two are in `Fabric`. `MaxWire` also holds back the application and the timers: they wait for room. All but the two liveness properties of the run are also proved for any services and every `MaxWire`. |
| `Fabric` | two services on one or two of two topics each, a callback of the application, one request at a time, `MaxWire` = 3 packets | two services share a topic, or not, with each other and with the application; a registration and two subscriptions fit on the wire together. Requests do not influence each other. `HeardInv` and `AnsweredOnceInv` are also proved without any of these bounds. |
| `Connection` | two MQTT clients, two calls, two brokers, `MaxDrops` = 2 | the second client is the one the first might be mistaken for; two drops are a reconnect and a break while ending. Safety proved for all. |
| `CallbackManager` | three callbacks, a topic and the one that matches all, `MaxActions` = 3 per message | a removal before, at and behind the running callback; add after remove. Both properties are also proved for any number of topics, callbacks and actions. |
| `Provisioning` | two attempts, one of which may be a command, two passphrases, `MaxRedirects` = 1 where the code has 5 | two calls overlap in every way, or the second follows a first that was killed; one redirect is followed and the next is one too many; two answers that differ and any number of lines. This is the largest run, about two minutes. All but `AnsweredProp` is also proved for any attempts, commands, passphrases and redirects. |
| `ConfigFile` | six files to begin with, six kinds of lines that are added, `MaxEdits` = 3, two broker lists; one kind of line is a broker at an address of another | all four properties are also proved for any files, lines, lists and number of edits. Three lines are a header, an entry and what follows; longer files only repeat them. A person never opens a section a second time (the ini parser would merge the two; the updater would rewrite both). |
| `Exchange` | versions 0 to 2, payloads of 0, 31, 32, 255, 256, 65535, 65536 bytes as string or buffer and one that is neither, `MaxCut` = 12 bytes from either end | the lengths on both sides of each change of form; every header is within 12 bytes of an end for some payload. All four properties are also proved for any versions, for payloads of every length below 2^32 and for cuts anywhere. |
| `Exchange` | `HighBit` = 2^7 where `request-error.js` has 2^31 | TLC's own integers have 32 bits and cannot hold 2^32. The codes are the eight-bit ones whose signed and unsigned form differ in the same way; `ErrorCodeInv` is proved for every width. |

Histories (marked `history:` where they are declared) serve the properties. Actions
read them only to use a call once, to tell whose message it is, and to count up to a bound.

## 5. Fairness

Only things that happen by themselves are fair; nobody is obliged to call,
to connect, or to stay connected.

- `RequestManager`: weak fairness of handling a response that has arrived while
  the MQTT client is open (the event loop does not skip an event), and of
  services answering what reaches them. Loss is never fair and never excluded.
- `ServiceManager`: timeouts fire, responses that arrived are handled, the
  broker handles what arrived and expires what is not renewed. Weak fairness of
  expiry is the weakest there is: the broker may expire a service that is being renewed as well,
  and `RenewedProp` holds all the same.
- `Fabric`: the broker handles the packets that arrive, in their order. That is
  all `HeardInTheEndProp` needs; services are registered, renewed and expire as
  they like.
- `Connection`: an MQTT client that is not ending connects in the end (mqtt.js
  retries for ever unless told otherwise), acknowledgements arrive as long as
  the connection lasts, and `end()` completes when it waits for nothing.
- `Provisioning`: the management service sends headers and ends its body. The
  code has no timeout, so a service that is silent keeps its caller waiting for
  ever; `Break` (the connection breaks within the body) is possible and not
  fair, and `AnsweredProp` names it as an exception, as it does a process that
  ended. A command may wait for an answer at its prompt for ever.

`CallbackManager`, `ConfigFile`, `Exchange` and `Subscriptions` have no liveness:
every step of theirs is taken by the application or follows within one call.

## 6. Proofs

Proved by TLAPS for every value of the constants (any number of topics,
callbacks, calls, services, MQTT clients, brokers, attempts, lines and fields),
from the assumptions named in the modules: that special values (`NoCallback`,
`None`, `NoId`, `Nothing`, …) are not values of the sets they stand beside, that
bounds are natural numbers, that services, registrations and, for `Fabric` and
`CallbackManager`, topics are finite sets; for `Exchange`, that a payload is one
msgpack has a length for (`PayloadsAssumption`: below 2^32) and that error codes
have the width of `HighBit`, signed or not (`CodesAssumption`); and for
`ConfigFile`, that a line is a header, an entry or a filler (`EditsAssumption`),
that the file people begin with opens no section twice (`HeadsAssumption`; they
do not open one again later either, which is a guard of `Edit`), and that broker
lists are as `createMap()` in `update-config.js` makes them
(`BrokersAssumption`): of every broker, by its id, the id, the port, the name
and the address of the host.

**`FabricProofs`** begins with `Subscriptions`. First come the lemmas about the
operators on the tables. An operator is shown to preserve `Consistent` (types,
mirror, no empty entry, subscribed is registered), and what the tables mean is
settled: `ListAt` is the list found for a topic and a type, empty when either is
missing, and `AddSubscriptionLists` and `RemoveSubscriptionLists` show that a
call adds or takes just the one callback, whichever branch creates or deletes
the entries around it (`unsubscribe()` empties every list of its topic).

The theorems about `Subscriptions` are `TypeCorrect`, `SubscriptionsMirrored`,
`NothingLeftEmpty`, `SubscribedCallbacksReachable`, `DestroyReleases`. The
inductive invariant is `Consistent(client)` together with `DestroyedInv`. None
of the four parts of `Consistent` is inductive alone: that removing a callback
keeps the mirror needs that no list was empty before. An operation that makes
several calls is the composition of the lemmas, as it is in the code.
`ErrorsGoWithResponses` (`ErrorPairInv`) and `RefinesTopicInterest`
(`ImplementsTopicInterest`) add that the lists for responses and for errors are
equal (`Paired`): only with it, and because no entry is empty, are the topics of
the table exactly those that somebody wants (`WantedTopics`), and so an MQTT
client that mirrors the table follows the abstract set. `LastOneOut`
(`LastOneOutProp`) turns this round: a topic that goes while the MQTT client
stays open had lists, none of them empty, and the step emptied them all.

About `Fabric` itself there are `ServicesHeard` (`HeardInv`) and `RequestsAnsweredOnce`
(`AnsweredOnceInv`). `Listens(w, l, t, n)` says whether the broker will listen
to topic `t` once it has handled the first `n` packets of `w`. The invariant says
that at the end of the wire it listens to everything the MQTT client is
subscribed to (`FollowInv`), that where an UNREGISTER stands on the wire it
still listens to the topics of that service (`WithdrawnInv`), that a service has
its callback in the tables for its topics and no others (`TablesInv`), and that
a routed request names a topic of its service (`RoutedInv`). `WithdrawnInv` is
the order in which `unregisterServiceAsync` sends: its request first, the
unsubscriptions after it. How many calls an operation makes depends on the
topics of the service, so what `AfterCalls` computes is proved by induction on
their number; the induction is stated with a set of numbers
(`SetInduction`, from the well-foundedness of `<`), and `RunsExist` shows that
the recursive function exists.

**`RequestManagerProofs`**: `TypeCorrect`, `CallbackAtMostOnce`,
`ThrewUnanswered`, `AnswersAreOwn`, `RefinesSettlement`. The inductive invariant
adds to `TypeOK` that what is stored under an id is the callback of a call that
was made with that id and has not been invoked (`StoredInv`), that a callback
was invoked at most once and only with responses to its id (`InvokedInv`), and
that it belongs to the last call that used the id, so that whatever answers it is
an answer to that call or to an earlier one (`LastInv`). A call that threw
published nothing, so no answer is one to a call that threw; with `LastInv`
nothing is left for its callback but answers to earlier uses of the object.
`RefinesSettlement` shows that each step is one of
`Settlement` or a stutter.

**`ServiceManagerProofs`**: `TypeCorrect`, `TimersFollowServices`,
`RequestsRouted`, `LastWordRight`, `NoNewsAfterTold`, and `FirstCallbackOnce`
under `~MayThrow`.
The invariant has seven parts: types; timers (`TimerInv`); the object's handle
names the timer that is pending (`HandleInv`), without which `clearTimeout`
would not stop it; the callback table and the objects (`ChannelInv`); what is
under way names registrations that exist (`KnownInv`); the first callback that
is still armed has not run (`ArmedInv`); and `LastWordInv`.
`NoNewsAfterTold` (`NoNewsAfterToldProp`) adds `NewsInv`: in the order in which
they will be handled, responses first and then requests, nothing about an object
follows its UNREGISTER (`OrderInv`); such an object is not active and stays so
(`PastInv`); and nothing is under way about an object whose callback was told of
the end. The last is not inductive without the first, which rests on
MQTT keeping the order.

**`ConnectionProofs`**: `TypeCorrect`, `ConnectCallbackOnce`, `EndCallbackOnce`,
`EndCallbackKept`, and `CurrentBrokerRight` under `~SecondConnect`. Besides the
properties the invariant says that a connect callback that is still held has
not run (`FirstInv`), that a callback given to `end()` is held by one MQTT
client and was not invoked by the client as well (`WaitInv`), what `current` may be (`CurrentInv`), and
that without a second `connect()` only the current MQTT client is open
(`SoleInv`), without which `_lastConnectedBroker` may be written by another.

**`CallbackManagerProofs`**: `ArraysWellFormed` (`TypeOK`) and
`DeliveryComplete` (`CompleteInv`). The invariant says how far `onMessage` has
come: the walk stays within the arrays that matched when the message arrived
(`MatchedInv`); of the array it is in, the entries up to the position were
invoked and no others, unless something was removed from it (`WalkInv`); of
those ahead nothing was invoked and what matched is still there (`TodoInv`); those behind
are complete (`DoneInv`); and while nothing was removed, nothing was invoked
twice (`CountInv`). `removeCallback` may put an array out of use while it is
walked and `addCallback` begin another for the same topic; that a new one always
has an identity of its own is a count of the arrays in use (`FreshArray`).

**`ProvisioningProofs`**, about `Provisioning` and `CommandLine` together, under
`CommandSpec`: `AttemptsTyped` (`TypeOK`), `DoneCallbackOnce` (`ToldOnceInv`),
`SuccessStored` (`StoredInv`), `StoredInOrder` (`OrderInv`), `CertificateFitsKey`
(`FitsInv`), `NothingWrittenAfterDone` (`NoWriteAfterToldProp`),
`CredentialsComplete` (`CredentialsInv`) and `PassphraseConfirmed`
(`ConfirmedInv`). The invariant has six parts for each attempt: it did nothing
before it was called (`CallInv`); what it was told, by the state of its request
(`RequestInv`); how many late errors it was given and may still be given, by its
redirects and its stage (`LateInv`); what it has stored while it waits for the service (`StageInv`);
what goes together with a file it wrote, unless another attempt wrote in
between (`FilesInv`); and whose signing request it sent (`SignedInv`). A seventh relates attempts:
beside a signing request is its key, unless an attempt that makes keys has
written since (`KeyInv`). All attempts write the same files, so a step is seen
as what one attempt writes and is told (`Moves`), and each part is shown to
hold for the attempt that moves and for those that do not. For the commands
(`DialogsInv`): what is missing is among what is still going to be asked, and the
answer to be confirmed is the one typed last.

**`ExchangeProofs`**, about `MessageCodec` and `Exchange`: `Carried`
(`CarriedInv`), `WholeMessages` (`WholeInv`), `AnswersFindTheirWay`
(`AnswerInv`), `ErrorCodes` (`ErrorCodeInv`) and `TypeCorrect`. The invariant
says that the bytes under way are those of the message last encoded but for the
ones that are missing at the end, and are on the topic it is for (`WireInv`), what each leg knows of where the
message came from (`LegInv`), and that what was decoded is what was encoded
(`GotInv`). That rests on `Decoded`: unpacking the bytes of a message yields
its fields, and fails if and only if some byte is missing, wherever. Packing
and unpacking are folds, and a theorem about a fold would be an induction over a
sequence. Instead `FoldLeft` is shown to be the last value of a run, a
function of how many elements were taken (`RunExists`, `IterIsRun`), and what
holds along the run is shown for the *set* of the numbers it holds for, which
contains 0 and with every number the next (`SetInduction`). Under it lie the
arithmetic of big-endian numbers (`BigEndianBytes`, `NumberBack`), the three
header forms (`BinHeader`), one item of each kind (`PayloadItem`, `OtherItem`,
`UnpackPayload`), and the pairs in which the fields nobody knows by position
travel (`OtherFieldsBack`).

**`ConfigFileProofs`**, about `Config` and `ConfigFile`: `Invariant`,
`Replacement` (`ReplacesInv`), `Idempotence` (`IdempotentInv`), `RoundTrip`
(`RoundTripInv`) and `ServersTried` (`ServersInv`). With folds treated as above,
the argument is one about layouts: in a file that opens no section twice, a
section is absent (`Absent`), is the last one (`Ends`), or is followed by
another (`Followed`), and there are fillers, or none, between its last line and
what comes next (`Layouts`). `StageBefore`, `StageInside` and `StageAfter` say what the
loop of `updateBrokerListInConfigFile()` has collected by each line, so that for
each layout it is known what is returned (`UpdateAbsent`, `UpdateLast`,
`UpdateBetween`), and `Replaces` compares this with the reference definition.
The results are the old file with one stretch of lines replaced (`Spliced`). A
splice keeps every other section and leaves the layout as it was, from which
`Repeats` and `UpdateKeeps` follow. The invariant `FileInv` says that after an
update that succeeded every section holds what was written to it. It is what
makes `RoundTripInv` inductive: the second list is written into the file that
the first has just been written to, and must not disturb it. `ReadSection` follows
the parser through such a section: nothing before its header, and nothing after the
next one, is of the section. For `ServersTried`, each step of the two loops in the
constructor of `Client` keeps the addresses distinct and adds the one it is at.

Only model-checked: liveness (`EventuallyAnsweredProp`, `RenewedProp`,
`ForgottenProp`, `HeardInTheEndProp`, `EndToldProp`, `AnsweredProp`). It needs
fairness and `ENABLED`, which TLAPS does not support. Every invariant and every
action property that a passing run checks is proved; `FirstOnceInv` and
`CurrentBrokerInv` under the condition their runs set as well (no callback
throws, no second `connect()`).

## 7. Where the code and its documentation differ

Three differences have runs of their own, which must end in a counterexample.

- `CallbackManagerKept`: `removeCallback` splices the array that `forEach` is
  walking (`src/lib/callback-manager.js:79`), so when a callback removes itself
  or one before it, the next one is skipped for this message and a callback that
  stays registered misses it.
- `ProvisioningStored`: an error while the CSR is read is passed on as the wrong
  variable (`src/lib/_provisioning/provision-config.js:263`), and an answer that
  is null, false, 0 or empty is no error either (277-283): the caller is told of
  success and nothing was stored.
- `ConfigFileLayout`: when another section follows the brokers without a blank
  line or comment in between, `newConfigLines` is used inside the `reduce()`
  that initializes it (`src/lib/_provisioning/update-config.js:153`), which throws;
  the brokers are not updated.

The following are stated in the modules and belong to no run; adding the
property to the configuration named reproduces each.

| Property | Configuration | What happens |
|---|---|---|
| `OnlyActiveRequestsProp` | `RequestManager.cfg` | an entry without a callback is never removed from `_requests` (`request-manager.js:68`), which line 38 describes as the active requests |
| `ThrewIsSilentInv` | `RequestManager.cfg` | a request object that was sent is sent again and cannot be encoded now: the second callback was stored (`request-manager.js:57`) before `_toBytes()` threw (`client.js:733`), and the response to the first call invokes it |
| `UnregisterAnsweredInv` | `ServiceManager.cfg` | the callback of `unregisterServiceAsync` is dropped when offline (`service-manager.js:143`; line 217 promises it) |
| `AdvertisedServedInv` | `ServiceManager.cfg` | a topic added after registration is advertised at the next renewal (`service-manager.js:109`) and has no callback (`service-registration-info.js:129`) |
| `FirstOnceInv` | `ServiceManager.cfg` with `MayThrow = TRUE` | a first callback that throws is not cleared (`service-manager.js:118`) and runs again at every renewal |
| `NullCallbackInv` | `Connection.cfg` | `disconnect(null)`, the documented default, throws a TypeError where there is nothing to disconnect (`client.js:678`, 673) |
| `DestroyedWhenToldInv` | `Connection.cfg` | `destroy()` may invoke its callback before it has cleared its tables (`client.js:720`, 708) |
| `DisconnectedWhenToldInv` | `Connection.cfg` | a second `disconnect()` is told at once, before the first is complete (`client.js:690`, 673) |
| `AlwaysToldProp` | `Connection.cfg` | a connection that breaks while `end()` waits for acknowledgements leaves the callback waiting (`client.js:686`, 680) |
| `ReleasedInv`, `CurrentBrokerInv` | `Connection.cfg` with `SecondConnect = TRUE` | a second `connect()` drops the first MQTT client without ending it (`client.js:436`, 374) |
| `RegisteredOnlyInv` | `CallbackManager.cfg` | a callback of an array that was detached during the walk is invoked although it is registered for no topic any more (`callback-manager.js:83`) |

Two more are known and no property of a module states them.

- The callback of `provisionConfig()` and `updateConfig()` may be told an error and
  then success, with the files written in between: the `error` handler of a
  request that was redirected (`management-service.js:177`, 157-158) invokes it
  while the next request is under way. `ToldOnceInv` and `NoWriteAfterToldProp`
  set late errors apart for that reason.
- A null topic stands for all topics according to `client.js:443-445`. It is stored under
  the key `"null"` (`callback-manager.js:47-50`), which `onMessage` never looks up
  (109): such a callback is never invoked. The models know the topic for all
  messages as `NoTopic`, which is the empty string of the code, and no null.

## 8. What is not modelled

- The MQTT library, openssl, the ini and msgpack parsers, the broker and the
  management service: each appears as what `lib/` relies on, marked external.
- The parsing of command line options (commander); the
  classes of errors, which have no behaviour; samples, tests, build files.
- Within modelled files: log and error texts, keep-alive and TLS options of
  `connect()`, the events a client forwards (`connect`, `reconnect`, …), subjects
  and alternative names of certificates and the arguments of openssl, the grammar of a line of the
  configuration file, line separators, `Broker.parse()`, wildcard expansion
  (which topics match is the constant `Matching`), and what msgpack does to a
  field that is not a payload (it is one byte).
- A topic that is null where all topics are meant (section 7).
- Applications that call a client after `destroy()`: its documentation ends its
  use there.
- Durations. A timeout may fire at any time after it was set, so a TTL too large
  for `setTimeout` (which makes it fire at once) is a fast timer like any other.
- In `Fabric`, `unsubscribe()` of a topic a service needs: its documentation lets
  it override everything that keeps the topic. Two callbacks of one service for
  one topic are added and removed like those of two services.
- The temporary openssl configuration. It is removed in a `finally`, which is not
  reached when it cannot be written (`pki.js:318`), nor when the callback
  that is given the error of openssl ends the process, as that of a command does
  (`pki.js:353`, `bin/dxlclient.js:16`): a file is left behind, and nothing reads it.
- An application that passes one `options` object to two calls: `provisionConfig()`
  replaces its `doneCallback` (`provision-config.js:253`), so the second call
  would find that of the first. Every attempt has options of its own.

## 9. Plan

Done, in this order: `Subscriptions` (the state everything else shares),
`RequestManager`, `ServiceManager`, `Connection`, `CallbackManager`,
`Provisioning`, `ConfigFile`, `Exchange`; proofs of the first four; then
`Fabric`, `CommandLine`, crashes and restarts in `Provisioning`, and the
refinement of `TopicInterest`; then the proofs about `Fabric`, `Provisioning`
and `CommandLine`, `CallbackManager`, and `NoNewsAfterToldProp`; last those about
`Exchange`, `ConfigFile` and `LastOneOutProp`.

Next, modelling:

1. `Provisioning` composed with `ConfigFile`, to carry the contents through the
   files of overlapping attempts.
2. The order of the arrays in dispatch, and wildcard matching
   (`callback-manager.js:108`) against a reference definition.

Next, proofs: what is known of the file between the two writes of an update that
fails, and of files that open a section twice, once such files are modelled.

## 10. Running the checks

From this directory, for a run `R` of module `M`:

    tlc -workers 2 -config R.cfg MCM.tla
    tlapm MProofs.tla

`runs` in `PROJECT.json` lists which configuration belongs to which module. The
proofs about `Subscriptions` are part of `FabricProofs`, those about
`CommandLine` of `ProvisioningProofs`.
`CHECK_DEADLOCK FALSE` is set in every configuration: an application may stop
calling, histories end when all calls are made, and `destroy()` ends a client.
