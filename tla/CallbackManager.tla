-------------------------- MODULE CallbackManager --------------------------
(***************************************************************************)
(* Delivering a message (lib/callback-manager.js).  The callbacks of one   *)
(* message type are kept in one array per topic.  onMessage collects the   *)
(* arrays that match and walks each with forEach; a callback that runs may *)
(* add and remove callbacks, or destroy the client, and so change, replace *)
(* or detach the arrays under the walk.  Arrays have an identity here: a   *)
(* topic that is removed and added again has a new one.                    *)
(***************************************************************************)
EXTENDS Integers, FiniteSets, SequencesExt, PartialMap

CONSTANTS
    Topics,      \* topics callbacks are registered for, "" among them
    Names,       \* destination topics of messages
    Matching,    \* Matching[n]: the topics that match destination n
    Callbacks,   \* callback functions of the application
    MaxActions   \* bound: what the callbacks of one message do in all

ASSUME TopicsAssumption == IsFiniteSet(Topics)
ASSUME MatchingAssumption == Matching \in [Names -> SUBSET Topics]
ASSUME ActionsAssumption == MaxActions \in Nat

(* Array identities: those a message walks and those that replace them. *)
Arrays == 1..(2 * Cardinality(Topics))

VARIABLES
    lists,   \* topic |-> array, partial: _callbacksByMessageType[type]
    content, \* array |-> its callbacks in order, for the arrays in use
    todo,    \* arrays that match the current message and were not walked yet
    walking, \* the array of the running callback, its length when the walk
             \* of it began and the position of the callback; or Idle
    initial, \* history: <<array, callback>> that matched when it arrived
    removed, \* history: those removed since it arrived
    got,     \* history: <<array, callback>> that were invoked for it
    count,   \* history: number of invocations for it
    late,    \* history: invocations of callbacks that were not registered
    actions  \* history: what the callbacks did since it arrived

vars == <<lists, content, todo, walking, initial, removed, got, count,
          late, actions>>

Idle == [array |-> 0, length |-> 0, position |-> 0]
Running == walking # Idle
Busy == Running \/ todo # {}

Entries(arrays, con) ==
    {e \in arrays \X Callbacks : Contains(con[e[1]], e[2])}

Registered == {lists[t] : t \in DOMAIN lists}

Init ==
    /\ lists = EmptyMap /\ content = EmptyMap
    /\ todo = {} /\ walking = Idle
    /\ initial = {} /\ removed = {} /\ got = {}
    /\ count = 0 /\ late = {} /\ actions = 0

(* The application acts between messages or inside a running callback. *)
Act(removes) ==
    /\ UNCHANGED <<todo, walking>>
    /\ \/ /\ Running /\ actions < MaxActions
          /\ actions' = actions + 1
          /\ removed' = removed \cup removes
          /\ UNCHANGED <<initial, got, count, late>>
       \/ /\ ~Busy
          /\ initial' = {} /\ removed' = {} /\ got' = {}
          /\ count' = 0 /\ late' = {} /\ actions' = 0

(* An array is forgotten when neither a topic nor the walk refers to it. *)
InUse(ls) ==
    {ls[t] : t \in DOMAIN ls} \cup
    (IF Busy THEN {e[1] : e \in initial} ELSE {})

Kept(con, ls) == [a \in InUse(ls) |-> con[a]]

(* A slip to tell apart: a callback may be in an array twice. *)
AddCallback_Twice(topic, cb) ==
    LET fresh == CHOOSE a \in Arrays : a \notin InUse(lists)
        array == IF topic \in DOMAIN lists THEN lists[topic] ELSE fresh
        old == IF topic \in DOMAIN lists THEN content[array] ELSE <<>>
    IN  /\ Act({})
        /\ Len(old) < 3
        /\ lists' = Put(lists, topic, array)
        /\ content' = Put(content, array, Append(old, cb))

AddCallback(topic, cb) ==
    LET fresh == CHOOSE a \in Arrays : a \notin InUse(lists)
        array == IF topic \in DOMAIN lists THEN lists[topic] ELSE fresh
        old == IF topic \in DOMAIN lists THEN content[array] ELSE <<>>
    IN  /\ Act({})
        /\ ~Contains(old, cb)
        /\ lists' = Put(lists, topic, array)
        /\ content' = Put(content, array, Append(old, cb))

(* The last callback of a topic stays in the array, which is detached. *)
RemoveCallback(topic, cb) ==
    /\ topic \in DOMAIN lists
    /\ Act({<<lists[topic], cb>>})
    /\ \E i \in DOMAIN content[lists[topic]] :
         /\ content[lists[topic]][i] = cb
         /\ IF Len(content[lists[topic]]) > 1
              THEN /\ content' = [content EXCEPT ![lists[topic]] = RemoveAt(@, i)]
                   /\ UNCHANGED lists
              ELSE /\ lists' = Delete(lists, topic)
                   /\ content' = Kept(content, lists')

Destroy ==
    /\ lists # EmptyMap
    /\ Act(Entries(Registered, content))
    /\ lists' = EmptyMap
    /\ content' = Kept(content, lists')

(* forEach visits a position below the length it found when it began if the *)
(* array still has one there.                                               *)
Visits(a, length, position) ==
    position <= length /\ position <= Len(content[a])

(* Invokes the callback at a position of array a. *)
Invoke(a, length, position) ==
    LET entry == <<a, content[a][position]>>
    IN  /\ walking' = [array |-> a, length |-> length, position |-> position]
        /\ got' = got \cup {entry}
        /\ count' = count + 1
        /\ late' = IF \E b \in Registered : Contains(content[b], entry[2])
                     THEN late ELSE late \cup {entry}

(* A message for destination name, of the type that is modelled. *)
OnMessage(name) ==
    /\ ~Busy
    /\ todo' = {lists[t] : t \in (DOMAIN lists) \cap Matching[name]}
    /\ initial' = Entries(todo', content)
    /\ removed' = {} /\ got' = {} /\ late' = {}
    /\ count' = 0 /\ actions' = 0
    /\ UNCHANGED <<lists, content, walking>>

(* The next array is walked, in the order of the keys of an object. *)
NextArray(a) ==
    /\ ~Running
    /\ a \in todo
    /\ todo' = todo \ {a}
    /\ Invoke(a, Len(content[a]), 1)
    /\ UNCHANGED <<lists, content, initial, removed, actions>>

(* A slip to tell apart: a callback that throws ends the delivery. *)
Return_Aborts ==
    /\ Running
    /\ walking' = Idle
    /\ todo' = {}
    /\ content' = [b \in Registered |-> content[b]]
    /\ UNCHANGED <<lists, initial, removed, got, count, late, actions>>

(* The running callback returns or throws, which is caught and logged. *)
Return ==
    /\ Running
    /\ LET a == walking.array length == walking.length
           next == walking.position + 1
       IN  IF Visits(a, length, next)
             THEN Invoke(a, length, next) /\ UNCHANGED <<lists, content>>
             ELSE /\ walking' = Idle
                  /\ content' = IF todo = {} THEN [b \in Registered |-> content[b]]
                                            ELSE content
                  /\ UNCHANGED <<lists, got, count, late>>
    /\ UNCHANGED <<todo, initial, removed, actions>>

Next ==
    \/ \E topic \in Topics, cb \in Callbacks :
         AddCallback(topic, cb) \/ RemoveCallback(topic, cb)
    \/ Destroy
    \/ \E name \in Names : OnMessage(name)
    \/ \E a \in Arrays : NextArray(a)
    \/ Return

Spec == Init /\ [][Next]_vars

-----------------------------------------------------------------------------
(* Properties *)

Entry == Arrays \X Callbacks

(* The values the tables, the walk and the histories range over.  Whatever  *)
(* the callbacks of a message do, every topic keeps an array of its own,    *)
(* with at least one callback and none of them twice.                       *)
TypeOK ==
    /\ DOMAIN lists \subseteq Topics /\ Registered \subseteq Arrays
    /\ IsInjective(lists)
    /\ \A a \in DOMAIN content : content[a] # <<>> /\ IsInjective(content[a])
    /\ DOMAIN content = InUse(lists)
    /\ \A a \in DOMAIN content : content[a] \in Seq(Callbacks)
    /\ todo \subseteq Arrays
    /\ walking \in [array : 0..Cardinality(Arrays), length : Nat, position : Nat]
    /\ initial \subseteq Entry /\ removed \subseteq Entry
    /\ got \subseteq Entry /\ late \subseteq Entry
    /\ count \in Nat /\ actions \in 0..MaxActions

Untouched(a) == \A e \in removed : e[1] # a

(* When a message has been delivered, every callback of an array nothing    *)
(* was removed from has been invoked, also when others threw, and when      *)
(* nothing was removed at all, each of them exactly once.                   *)
CompleteInv ==
    ~Busy => /\ \A e \in initial : Untouched(e[1]) => e \in got
             /\ removed = {} => count = Cardinality(got)

(* callback-manager.js: onMessage propagates the message to the appropriate *)
(* set of registered callbacks, so one that was registered all along gets   *)
(* it.                                                                      *)
KeptIsInvokedInv == ~Busy => initial \ removed \subseteq got

(* ... and a callback that is registered for no topic any more does not.    *)
RegisteredOnlyInv == late = {}
=============================================================================
