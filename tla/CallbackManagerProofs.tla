----------------------- MODULE CallbackManagerProofs -----------------------
(***************************************************************************)
(* Whatever the callbacks of a message add, remove or destroy while it is  *)
(* delivered, those of an array nothing was removed from are all invoked,  *)
(* and without removals none of them twice, for any number of topics,      *)
(* callbacks and actions.  The inductive invariant says how far the walk   *)
(* of onMessage has come: which of the matching arrays are ahead of it,    *)
(* which are behind, and what was invoked of the one it is in.             *)
(***************************************************************************)
EXTENDS CallbackManager, FiniteSetTheorems, TLAPS

(* The arrays a message walks: they had an entry when it arrived. *)
Matched == {e[1] : e \in initial}

(* The walk stays within them, and there are no more of them than topics:   *)
(* an array that replaces one of them always finds a number of its own.     *)
MatchedInv ==
    /\ todo \subseteq Matched
    /\ Running => walking.array \in Matched \ todo
    /\ IsFiniteSet(Matched) /\ Cardinality(Matched) <= Cardinality(Topics)

(* Of an array that is being walked and lost nothing, the entries up to the *)
(* position were invoked, no others, and those that matched are not beyond  *)
(* the length the walk began with.                                          *)
WalkInv ==
    (Running /\ Untouched(walking.array)) =>
      LET a == walking.array
      IN  /\ walking.length <= Len(content[a])
          /\ walking.position \in 1..walking.length
          /\ \A i \in 1..walking.position : <<a, content[a][i]>> \in got
          /\ \A e \in got : e[1] = a =>
               \E i \in 1..walking.position : content[a][i] = e[2]
          /\ \A e \in initial : e[1] = a =>
               \E i \in 1..walking.length : content[a][i] = e[2]

(* An array ahead: nothing of it was invoked, and what matched is there     *)
(* unless something was removed.                                            *)
TodoInv ==
    \A a \in todo :
      /\ \A e \in got : e[1] # a
      /\ Untouched(a) =>
           \A e \in initial : e[1] = a => Contains(content[a], e[2])

(* An array behind: what matched was invoked. *)
DoneInv ==
    \A e \in initial :
      (e[1] \notin todo /\ e[1] # walking.array /\ Untouched(e[1])) => e \in got

(* Nothing was invoked twice if nothing was removed. *)
CountInv ==
    /\ IsFiniteSet(got)
    /\ removed = {} => count = Cardinality(got)

DeliveryInv == TypeOK /\ MatchedInv /\ WalkInv /\ TodoInv /\ DoneInv /\ CountInv

-----------------------------------------------------------------------------
(* Sequences and images *)

(* What push does to an array without duplicates. *)
LEMMA Appended ==
  ASSUME NEW S, NEW s \in Seq(S), NEW e \in S, IsInjective(s), ~Contains(s, e)
  PROVE  /\ Append(s, e) \in Seq(S) /\ Append(s, e) # <<>>
         /\ IsInjective(Append(s, e))
         /\ Len(s) <= Len(Append(s, e))
         /\ \A i \in 1..Len(s) : Append(s, e)[i] = s[i]
<1>1. Append(s, e) \in Seq(S) /\ Len(Append(s, e)) = Len(s) + 1  OBVIOUS
<1>2. \A i \in 1..Len(s) : Append(s, e)[i] = s[i]  OBVIOUS
<1>3. Append(s, e)[Len(s) + 1] = e  OBVIOUS
<1>4. ASSUME NEW i \in DOMAIN Append(s, e), NEW j \in DOMAIN Append(s, e),
             Append(s, e)[i] = Append(s, e)[j]
      PROVE  i = j
  <2>1. i \in 1..(Len(s) + 1) /\ j \in 1..(Len(s) + 1)  BY <1>1
  <2>2. CASE i \in 1..Len(s) /\ j \in 1..Len(s)
    BY <1>2, <1>4, <2>2 DEF IsInjective
  <2>3. CASE i = Len(s) + 1 /\ j = Len(s) + 1  BY <2>3
  <2>4. CASE i \in 1..Len(s) /\ j = Len(s) + 1
    BY <1>2, <1>3, <1>4, <2>4 DEF Contains
  <2>5. CASE i = Len(s) + 1 /\ j \in 1..Len(s)
    BY <1>2, <1>3, <1>4, <2>5 DEF Contains
  <2>q. QED  BY <2>1, <2>2, <2>3, <2>4, <2>5
<1>q. QED  BY <1>1, <1>2, <1>4 DEF IsInjective

(* What splice(i, 1) leaves of an array with more than one entry. *)
LEMMA Spliced ==
  ASSUME NEW S, NEW s \in Seq(S), NEW i \in DOMAIN s, IsInjective(s), Len(s) > 1
  PROVE  /\ RemoveAt(s, i) \in Seq(S) /\ RemoveAt(s, i) # <<>>
         /\ IsInjective(RemoveAt(s, i))
<1> DEFINE front == SubSeq(s, 1, i - 1)
           back == SubSeq(s, i + 1, Len(s))
           at(k) == IF k < i THEN k ELSE k + 1
<1>1. i \in 1..Len(s)  OBVIOUS
<1>2. front \in Seq(S) /\ Len(front) = i - 1
      /\ \A k \in 1..(i - 1) : front[k] = s[k]
  BY <1>1
<1>3. back \in Seq(S) /\ Len(back) = Len(s) - i
      /\ \A k \in 1..(Len(s) - i) : back[k] = s[i + k]
  BY <1>1
<1>4. RemoveAt(s, i) = front \o back  BY DEF RemoveAt
<1> HIDE DEF front, back
<1>5. front \o back \in Seq(S) /\ Len(front \o back) = Len(s) - 1
  BY <1>1, <1>2, <1>3
<1>6. ASSUME NEW k \in 1..(Len(s) - 1) PROVE (front \o back)[k] = s[at(k)]
  <2>1. CASE k < i  BY <1>1, <1>2, <1>3, <1>6, <2>1
  <2>2. CASE ~(k < i)
    <3>1. (front \o back)[k] = back[k - (i - 1)]
      <4>1. k \in 1..(Len(front) + Len(back)) /\ ~(k <= Len(front))
        BY <1>1, <1>2, <1>3, <1>6, <2>2
      <4>2. (front \o back)[k] = back[k - Len(front)]  BY <1>2, <1>3, <4>1
      <4>q. QED  BY <1>2, <4>2
    <3>2. k - (i - 1) \in 1..(Len(s) - i)  BY <1>1, <1>6, <2>2
    <3>3. back[k - (i - 1)] = s[i + (k - (i - 1))]  BY <1>3, <3>2
    <3>4. i + (k - (i - 1)) = k + 1  BY <1>1
    <3>q. QED  BY <2>2, <3>1, <3>3, <3>4
  <2>q. QED  BY <2>1, <2>2
<1>7. ASSUME NEW k \in DOMAIN (front \o back), NEW l \in DOMAIN (front \o back),
             (front \o back)[k] = (front \o back)[l]
      PROVE  k = l
  <2>1. k \in 1..(Len(s) - 1) /\ l \in 1..(Len(s) - 1)  BY <1>5
  <2>2. s[at(k)] = s[at(l)]  BY <1>6, <1>7, <2>1
  <2>3. at(k) \in DOMAIN s /\ at(l) \in DOMAIN s  BY <1>1, <2>1
  <2>4. at(k) = at(l)  BY <2>2, <2>3 DEF IsInjective
  <2>q. QED  BY <1>1, <2>1, <2>4
<1>q. QED  BY <1>4, <1>5, <1>7 DEF IsInjective

(* The arrays of some topics are no more than the topics. *)
LEMMA ImageBound ==
  ASSUME NEW T, IsFiniteSet(T), NEW f
  PROVE  /\ IsFiniteSet({f[t] : t \in T})
         /\ Cardinality({f[t] : t \in T}) <= Cardinality(T)
<1> DEFINE g == [t \in T |-> f[t]]
           U == {f[t] : t \in T}
<1>1. g \in Surjection(T, U)  BY DEF Surjection
<1> HIDE DEF g, U
<1>2. IsFiniteSet(U) /\ Cardinality(U) <= Cardinality(T)  BY <1>1, FS_Surjection
<1>q. QED  BY <1>2 DEF U

-----------------------------------------------------------------------------
(* The tables *)

(* There are twice as many arrays as topics. *)
LEMMA ArrayNumbers ==
  /\ IsFiniteSet(Arrays) /\ Cardinality(Arrays) = 2 * Cardinality(Topics)
  /\ \A a \in Arrays : a \in 1..Cardinality(Arrays)
<1> DEFINE n == Cardinality(Topics)
<1>1. n \in Nat  BY TopicsAssumption, FS_CardinalityType
<1>2. 2 * n \in Nat /\ Arrays = 1..(2 * n)  BY <1>1 DEF Arrays
<1> HIDE DEF n
<1>3. IsFiniteSet(1..(2 * n))
      /\ Cardinality(1..(2 * n)) = IF 1 > 2 * n THEN 0 ELSE 2 * n - 1 + 1
  BY <1>2, FS_Interval
<1>4. IsFiniteSet(Arrays) /\ Cardinality(Arrays) = 2 * n  BY <1>1, <1>2, <1>3
<1>q. QED  BY <1>2, <1>4 DEF n

(* A topic without an array finds an array number that is not in use. *)
LEMMA FreshArray ==
  ASSUME TypeOK, MatchedInv, NEW topic \in Topics \ DOMAIN lists
  PROVE  \E a \in Arrays : a \notin InUse(lists)
<1> DEFINE n == Cardinality(Topics)
           used == DOMAIN lists
<1>1. n \in Nat  BY TopicsAssumption, FS_CardinalityType
<1>2. IsFiniteSet(used) /\ Cardinality(used) < n
  <2>1. used \subseteq Topics /\ used # Topics  BY DEF TypeOK
  <2>2. IsFiniteSet(used) /\ Cardinality(used) <= n /\ Cardinality(used) # n
    BY <2>1, TopicsAssumption, FS_Subset
  <2>3. Cardinality(used) \in Nat  BY <2>2, FS_CardinalityType
  <2>q. QED  BY <1>1, <2>2, <2>3
<1>3. IsFiniteSet(Registered) /\ Cardinality(Registered) <= Cardinality(used)
  BY <1>2, ImageBound DEF Registered
<1>4. IsFiniteSet(Registered \cup Matched) /\ Cardinality(Registered \cup Matched) < 2 * n
  <2>1. IsFiniteSet(Matched) /\ Cardinality(Matched) <= n  BY DEF MatchedInv
  <2>2. Cardinality(Registered) \in Nat /\ Cardinality(Matched) \in Nat
        /\ Cardinality(used) \in Nat
        /\ Cardinality(Registered \cap Matched) \in Nat
    BY <1>2, <1>3, <2>1, FS_CardinalityType, FS_Intersection
  <2>3. IsFiniteSet(Registered \cup Matched)
        /\ Cardinality(Registered \cup Matched)
             = Cardinality(Registered) + Cardinality(Matched)
                 - Cardinality(Registered \cap Matched)
    BY <1>3, <2>1, FS_Union
  <2> HIDE DEF n, used
  <2>q. QED  BY <1>1, <1>2, <1>3, <2>1, <2>2, <2>3
<1>5. IsFiniteSet(Arrays) /\ Cardinality(Arrays) = 2 * n  BY ArrayNumbers
<1>6. InUse(lists) \subseteq Registered \cup Matched
  BY DEF InUse, Registered, Matched
<1>7. ~(Arrays \subseteq Registered \cup Matched)
  <2>1. SUFFICES ASSUME Arrays \subseteq Registered \cup Matched PROVE FALSE  OBVIOUS
  <2>2. Cardinality(Arrays) <= Cardinality(Registered \cup Matched)
    BY <1>4, <2>1, FS_Subset
  <2>3. Cardinality(Registered \cup Matched) \in Nat  BY <1>4, FS_CardinalityType
  <2> HIDE DEF n
  <2>q. QED  BY <1>1, <1>4, <1>5, <2>2, <2>3
<1>q. QED  BY <1>6, <1>7

(* The part of TypeOK about the tables. *)
TablesOK ==
    /\ DOMAIN lists \subseteq Topics /\ Registered \subseteq Arrays
    /\ IsInjective(lists)
    /\ DOMAIN content = InUse(lists)
    /\ \A a \in DOMAIN content :
         content[a] # <<>> /\ IsInjective(content[a]) /\ content[a] \in Seq(Callbacks)

HistoriesOK ==
    /\ todo \subseteq Arrays
    /\ walking \in [array : 0..Cardinality(Arrays), length : Nat, position : Nat]
    /\ initial \subseteq Entry /\ removed \subseteq Entry
    /\ got \subseteq Entry /\ late \subseteq Entry
    /\ count \in Nat /\ actions \in 0..MaxActions

LEMMA TypeParts == TablesOK' /\ HistoriesOK' => TypeOK'
BY DEF TypeOK, TablesOK, HistoriesOK

(* The arrays in use, in a delivery and outside. *)
LEMMA ArraysInUse ==
  /\ InUse(lists) = Registered \cup (IF Busy THEN Matched ELSE {})
  /\ InUse(lists)' = Registered' \cup (IF Busy' THEN Matched' ELSE {})
BY DEF InUse, Registered, Matched

-----------------------------------------------------------------------------
(* What the application does *)

(* An array keeps its entries where they are. *)
Extends(a) ==
    /\ content'[a] \in Seq(Callbacks)
    /\ Len(content[a]) <= Len(content'[a])
    /\ \A i \in 1..Len(content[a]) : content'[a][i] = content[a][i]

(* A call by a callback leaves the walk alone and only extends the arrays   *)
(* it does not remove from; a call between messages forgets the histories.  *)
Acts ==
    /\ UNCHANGED <<todo, walking>>
    /\ \/ /\ Running
          /\ UNCHANGED <<initial, got, count>>
          /\ removed \subseteq removed'
          /\ \A a \in Matched : (\A e \in removed' : e[1] # a) => Extends(a)
       \/ /\ ~Busy
          /\ initial' = {} /\ removed' = {} /\ got' = {} /\ count' = 0

LEMMA ActHistories ==
  ASSUME TypeOK, NEW removes, removes \subseteq Entry, Act(removes)
  PROVE  HistoriesOK'
<1>1. MaxActions \in Nat  BY ActionsAssumption
<1>2. todo' = todo /\ walking' = walking  BY DEF Act
<1>3. CASE Running /\ actions < MaxActions /\ actions' = actions + 1
           /\ removed' = removed \cup removes /\ UNCHANGED <<initial, got, count, late>>
  BY <1>1, <1>2, <1>3 DEF TypeOK, HistoriesOK
<1>4. CASE /\ initial' = {} /\ removed' = {} /\ got' = {}
           /\ count' = 0 /\ late' = {} /\ actions' = 0
  BY <1>1, <1>2, <1>4 DEF TypeOK, HistoriesOK
<1>q. QED  BY <1>3, <1>4 DEF Act

(* The delivery invariants survive such a call. *)
LEMMA ActsStep ==
  ASSUME DeliveryInv, Acts
  PROVE  MatchedInv' /\ WalkInv' /\ TodoInv' /\ DoneInv' /\ CountInv'
<1>1. todo' = todo /\ walking' = walking /\ (Running' <=> Running) /\ (Busy' <=> Busy)
  BY DEF Acts, Running, Busy
<1>2. CASE ~Busy /\ initial' = {} /\ removed' = {} /\ got' = {} /\ count' = 0
  <2>1. ~Running /\ todo = {}  BY <1>2 DEF Busy
  <2>2. Matched' = {}  BY <1>2 DEF Matched
  <2>3. IsFiniteSet({}) /\ Cardinality({}) = 0  BY FS_EmptySet
  <2>4. Cardinality(Topics) \in Nat  BY TopicsAssumption, FS_CardinalityType
  <2>5. MatchedInv'  BY <1>1, <2>1, <2>2, <2>3, <2>4 DEF MatchedInv
  <2>6. WalkInv'  BY <1>1, <2>1 DEF WalkInv
  <2>7. TodoInv'  BY <1>1, <2>1 DEF TodoInv
  <2>8. DoneInv'  BY <1>2 DEF DoneInv
  <2>t. CountInv'  BY <1>2, <2>3 DEF CountInv
  <2>q. QED  BY <2>5, <2>6, <2>7, <2>8, <2>t
<1>3. CASE /\ Running /\ UNCHANGED <<initial, got, count>>
           /\ removed \subseteq removed'
           /\ \A a \in Matched : (\A e \in removed' : e[1] # a) => Extends(a)
  <2>1. Matched' = Matched  BY <1>3 DEF Matched
  <2>2. \A a : Untouched(a)' => Untouched(a)  BY <1>3 DEF Untouched
  <2>3. \A a \in Matched : Untouched(a)' => Extends(a)  BY <1>3 DEF Untouched
  <2>4. MatchedInv'  BY <1>1, <2>1 DEF DeliveryInv, MatchedInv
  <2>t. walking.length \in Nat /\ walking.position \in Nat
        /\ \A a \in Matched : content[a] \in Seq(Callbacks)
    BY <1>3, ArraysInUse DEF DeliveryInv, TypeOK, Busy
  <2>5. WalkInv'
    <3>1. SUFFICES ASSUME Running, Untouched(walking.array)' PROVE WalkInv'
      BY <1>1 DEF WalkInv
    <3> DEFINE a == walking.array
    <3>2. a \in Matched /\ Untouched(a)
      BY <1>1, <2>2, <3>1 DEF DeliveryInv, MatchedInv
    <3>3. Extends(a)  BY <1>1, <2>3, <3>1, <3>2
    <3>4. /\ walking.length <= Len(content[a])
          /\ walking.position \in 1..walking.length
          /\ \A i \in 1..walking.position : <<a, content[a][i]>> \in got
          /\ \A e \in got : e[1] = a =>
               \E i \in 1..walking.position : content[a][i] = e[2]
          /\ \A e \in initial : e[1] = a =>
               \E i \in 1..walking.length : content[a][i] = e[2]
      BY <3>1, <3>2 DEF DeliveryInv, WalkInv
    <3>5. \A i \in 1..walking.length : content'[a][i] = content[a][i]
          /\ walking.length <= Len(content'[a])
      BY <3>3, <3>4, <2>t, <3>2 DEF Extends
    <3>6. \A i \in 1..walking.position : content'[a][i] = content[a][i]
      BY <3>4, <3>5, <2>t
    <3> HIDE DEF a
    <3>7. /\ \A i \in 1..walking.position : <<a, content'[a][i]>> \in got'
          /\ \A e \in got' : e[1] = a =>
               \E i \in 1..walking.position : content'[a][i] = e[2]
          /\ \A e \in initial' : e[1] = a =>
               \E i \in 1..walking.length : content'[a][i] = e[2]
      BY <1>3, <3>4, <3>5, <3>6
    <3>q. QED  BY <1>1, <3>4, <3>5, <3>7 DEF WalkInv, a
  <2>6. TodoInv'
    <3>1. SUFFICES ASSUME NEW a \in todo
                   PROVE  /\ \A e \in got' : e[1] # a
                          /\ Untouched(a)' =>
                               \A e \in initial' : e[1] = a => Contains(content'[a], e[2])
      BY <1>1 DEF TodoInv
    <3>2. \A e \in got' : e[1] # a  BY <1>3 DEF DeliveryInv, TodoInv
    <3>3. ASSUME Untouched(a)', NEW e \in initial, e[1] = a
          PROVE  Contains(content'[a], e[2])
      <4>1. a \in Matched  BY <3>1 DEF DeliveryInv, MatchedInv
      <4>2. Extends(a)  BY <2>3, <3>3, <4>1
      <4>3. PICK i \in 1..Len(content[a]) : content[a][i] = e[2]
        BY <2>2, <3>1, <3>3 DEF DeliveryInv, TodoInv, Contains
      <4>4. i \in 1..Len(content'[a]) /\ content'[a][i] = e[2]
        BY <2>t, <4>1, <4>2, <4>3 DEF Extends
      <4>q. QED  BY <4>4 DEF Contains
    <3>q. QED  BY <1>3, <3>2, <3>3
  <2>7. DoneInv'  BY <1>1, <1>3, <2>2 DEF DeliveryInv, DoneInv
  <2>8. CountInv'
    <3>1. removed' = {} => removed = {}  BY <1>3
    <3>q. QED  BY <1>3, <3>1 DEF DeliveryInv, CountInv
  <2>q. QED  BY <2>4, <2>5, <2>6, <2>7, <2>8
<1>q. QED  BY <1>2, <1>3 DEF Acts

LEMMA AddCallbackStep ==
  ASSUME DeliveryInv, NEW topic \in Topics, NEW cb \in Callbacks,
         AddCallback(topic, cb)
  PROVE  TablesOK' /\ Acts
<1> DEFINE fresh == CHOOSE a \in Arrays : a \notin InUse(lists)
           array == IF topic \in DOMAIN lists THEN lists[topic] ELSE fresh
           old == IF topic \in DOMAIN lists THEN content[array] ELSE <<>>
<1>1. /\ Act({}) /\ ~Contains(old, cb)
      /\ lists' = Put(lists, topic, array)
      /\ content' = Put(content, array, Append(old, cb))
  BY DEF AddCallback
<1>2. topic \notin DOMAIN lists => fresh \in Arrays /\ fresh \notin InUse(lists)
  BY FreshArray DEF DeliveryInv
<1>3. Registered \subseteq InUse(lists)  BY ArraysInUse
<1>4. /\ topic \in DOMAIN lists => array \in Registered /\ old = content[array]
      /\ topic \notin DOMAIN lists => old = <<>> /\ array \notin InUse(lists)
      /\ array \in Arrays
  BY <1>2 DEF Registered, DeliveryInv, TypeOK
<1>5. old \in Seq(Callbacks) /\ IsInjective(old)
  <2>1. CASE topic \in DOMAIN lists
    BY <1>3, <1>4, <2>1 DEF DeliveryInv, TypeOK
  <2>2. CASE topic \notin DOMAIN lists
    <3>1. old = <<>>  BY <1>4, <2>2
    <3>2. <<>> \in Seq(Callbacks) /\ DOMAIN <<>> = {}  OBVIOUS
    <3>3. IsInjective(<<>>)  BY <3>2 DEF IsInjective
    <3>q. QED  BY <3>1, <3>2, <3>3
  <2>q. QED  BY <2>1, <2>2
<1> HIDE DEF fresh, array, old
<1>6. /\ Append(old, cb) \in Seq(Callbacks) /\ Append(old, cb) # <<>>
      /\ IsInjective(Append(old, cb))
      /\ Len(old) <= Len(Append(old, cb))
      /\ \A i \in 1..Len(old) : Append(old, cb)[i] = old[i]
  BY <1>1, <1>5, Appended
<1>7. /\ DOMAIN lists' = DOMAIN lists \cup {topic}
      /\ \A t \in DOMAIN lists' :
           lists'[t] = IF t = topic THEN array ELSE lists[t]
      /\ DOMAIN content' = DOMAIN content \cup {array}
      /\ \A a \in DOMAIN content' :
           content'[a] = IF a = array THEN Append(old, cb) ELSE content[a]
  BY <1>1 DEF Put
<1>8. Registered' = Registered \cup {array}
  <2>1. \A t \in DOMAIN lists : lists'[t] = lists[t]
    <3>1. topic \in DOMAIN lists => array = lists[topic]  BY DEF array
    <3>q. QED  BY <1>7, <3>1
  <2>q. QED  BY <1>7, <2>1 DEF Registered
<1>9. Busy' = Busy /\ (Busy => Matched' = Matched)
  BY <1>1 DEF Act, Busy, Running, Matched
<1>10. TablesOK'
  <2>1. DOMAIN lists' \subseteq Topics /\ Registered' \subseteq Arrays
    BY <1>4, <1>7, <1>8 DEF DeliveryInv, TypeOK
  <2>2. IsInjective(lists)'
    <3>1. ASSUME NEW s \in DOMAIN lists', NEW t \in DOMAIN lists', lists'[s] = lists'[t]
          PROVE  s = t
      <4>1. \A u \in DOMAIN lists : lists[u] \in Registered  BY DEF Registered
      <4>2. IsInjective(lists)  BY DEF DeliveryInv, TypeOK
      <4>3. topic \in DOMAIN lists => array = lists[topic]  BY DEF array
      <4>q. QED  BY <1>3, <1>4, <1>7, <3>1, <4>1, <4>2, <4>3 DEF IsInjective
    <3>q. QED  BY <3>1 DEF IsInjective
  <2>3. DOMAIN content' = InUse(lists)'
    BY <1>7, <1>8, <1>9, ArraysInUse DEF DeliveryInv, TypeOK
  <2>4. \A a \in DOMAIN content' :
          content'[a] # <<>> /\ IsInjective(content'[a]) /\ content'[a] \in Seq(Callbacks)
    BY <1>6, <1>7 DEF DeliveryInv, TypeOK
  <2>q. QED  BY <2>1, <2>2, <2>3, <2>4 DEF TablesOK
<1>11. ASSUME Busy, NEW a \in Matched PROVE Extends(a)
  <2>1. a \in DOMAIN content /\ a \in InUse(lists)
    BY <1>11, ArraysInUse DEF DeliveryInv, TypeOK
  <2>2. CASE a = array
    <3>1. old = content[a]  BY <1>4, <2>1, <2>2
    <3>q. QED  BY <1>6, <1>7, <2>2, <3>1 DEF Extends
  <2>3. CASE a # array
    <3>1. content'[a] = content[a] /\ content[a] \in Seq(Callbacks)
      BY <1>7, <2>1, <2>3 DEF DeliveryInv, TypeOK
    <3>q. QED  BY <3>1 DEF Extends
  <2>q. QED  BY <2>2, <2>3
<1>12. Acts  BY <1>1, <1>11 DEF Act, Acts, Busy
<1>q. QED  BY <1>10, <1>12

(* Topics lose their arrays, which a walk may still be in. *)
LEMMA DetachStep ==
  ASSUME DeliveryInv, NEW kept, kept \subseteq DOMAIN lists,
         lists' = [t \in kept |-> lists[t]], content' = Kept(content, lists'),
         NEW removes, Act(removes)
  PROVE  TablesOK' /\ Acts
<1>1. Busy' = Busy /\ (Busy => Matched' = Matched)
  BY DEF Act, Busy, Running, Matched
<1>2. Registered' \subseteq Registered  BY DEF Registered
<1>3. DOMAIN content' = InUse(lists)' /\ InUse(lists)' \subseteq DOMAIN content
  <2>1. DOMAIN content' = InUse(lists')  BY DEF Kept
  <2>2. InUse(lists') = Registered' \cup (IF Busy THEN Matched ELSE {})
    BY DEF InUse, Registered, Matched
  <2>q. QED  BY <1>1, <1>2, <2>1, <2>2, ArraysInUse DEF DeliveryInv, TypeOK
<1>4. \A a \in DOMAIN content' : content'[a] = content[a]
  BY DEF Kept
<1>5. TablesOK'
  <2>1. DOMAIN lists' \subseteq Topics /\ Registered' \subseteq Arrays
    BY <1>2 DEF DeliveryInv, TypeOK
  <2>2. IsInjective(lists)'  BY DEF DeliveryInv, TypeOK, IsInjective
  <2>q. QED  BY <1>3, <1>4, <2>1, <2>2 DEF DeliveryInv, TypeOK, TablesOK
<1>6. ASSUME Busy, NEW a \in Matched PROVE Extends(a)
  <2>1. a \in DOMAIN content' /\ a \in DOMAIN content
    BY <1>1, <1>3, <1>6, ArraysInUse
  <2>q. QED  BY <1>4, <2>1 DEF Extends, DeliveryInv, TypeOK
<1>7. Acts  BY <1>6 DEF Act, Acts, Busy
<1>q. QED  BY <1>5, <1>7

LEMMA RemoveCallbackStep ==
  ASSUME DeliveryInv, NEW topic \in Topics, NEW cb \in Callbacks,
         RemoveCallback(topic, cb)
  PROVE  TablesOK' /\ HistoriesOK' /\ Acts
<1> DEFINE array == lists[topic]
<1>1. topic \in DOMAIN lists /\ Act({<<array, cb>>})  BY DEF RemoveCallback
<1>2. PICK i \in DOMAIN content[array] :
        /\ content[array][i] = cb
        /\ IF Len(content[array]) > 1
             THEN /\ content' = [content EXCEPT ![array] = RemoveAt(@, i)]
                  /\ UNCHANGED lists
             ELSE /\ lists' = Delete(lists, topic)
                  /\ content' = Kept(content, lists')
  BY DEF RemoveCallback
<1>3. array \in Registered /\ array \in Arrays
  BY <1>1 DEF Registered, DeliveryInv, TypeOK
<1>4. array \in DOMAIN content  BY <1>3, ArraysInUse DEF DeliveryInv, TypeOK
<1>5. Busy' = Busy /\ (Busy => Matched' = Matched)
  BY <1>1 DEF Act, Busy, Running, Matched
<1>6. HistoriesOK'
  <2>1. {<<array, cb>>} \subseteq Entry  BY <1>3 DEF Entry
  <2> HIDE DEF array
  <2>q. QED  BY <1>1, <2>1, ActHistories DEF DeliveryInv
<1> HIDE DEF array
<1>7. Acts /\ TablesOK'
  <2>1. CASE Len(content[array]) > 1
    <3>1. content' = [content EXCEPT ![array] = RemoveAt(@, i)] /\ lists' = lists
      BY <1>2, <2>1
    <3>2. /\ DOMAIN content' = DOMAIN content
          /\ content'[array] = RemoveAt(content[array], i)
          /\ \A a \in DOMAIN content \ {array} : content'[a] = content[a]
      BY <1>4, <3>1
    <3>3. /\ RemoveAt(content[array], i) \in Seq(Callbacks)
          /\ RemoveAt(content[array], i) # <<>>
          /\ IsInjective(RemoveAt(content[array], i))
      BY <1>2, <1>4, <2>1, Spliced DEF DeliveryInv, TypeOK
    <3>4. Registered' = Registered  BY <3>1 DEF Registered
    <3>5. TablesOK'
      BY <1>5, <3>1, <3>2, <3>3, <3>4, ArraysInUse DEF DeliveryInv, TypeOK, TablesOK
    <3>6. ASSUME Running, NEW a \in Matched, \A e \in removed' : e[1] # a
          PROVE  Extends(a)
      <4>1. a # array
        <5>1. <<array, cb>> \in removed'  BY <1>1, <3>6 DEF Act, Busy
        <5>q. QED  BY <3>6, <5>1
      <4>2. a \in DOMAIN content
        BY <3>6, ArraysInUse DEF DeliveryInv, TypeOK, Busy
      <4>3. content'[a] = content[a] /\ content[a] \in Seq(Callbacks)
        BY <3>2, <4>1, <4>2 DEF DeliveryInv, TypeOK
      <4>q. QED  BY <4>3 DEF Extends
    <3>q. QED  BY <1>1, <3>5, <3>6 DEF Act, Acts, Busy
  <2>2. CASE ~(Len(content[array]) > 1)
    <3>1. lists' = Delete(lists, topic) /\ content' = Kept(content, lists')
      BY <1>2, <2>2
    <3>2. DOMAIN lists \ {topic} \subseteq DOMAIN lists
          /\ Delete(lists, topic) = [t \in DOMAIN lists \ {topic} |-> lists[t]]
      BY DEF Delete
    <3>q. QED  BY <1>1, <3>1, <3>2, DetachStep
  <2>q. QED  BY <2>1, <2>2
<1>q. QED  BY <1>6, <1>7

LEMMA DestroyStep ==
  ASSUME DeliveryInv, Destroy
  PROVE  TablesOK' /\ HistoriesOK' /\ Acts
<1> DEFINE removes == Entries(Registered, content)
<1>1. Act(removes) /\ lists' = EmptyMap /\ content' = Kept(content, lists')
  BY DEF Destroy
<1>2. removes \subseteq Entry
  BY DEF Entries, Entry, DeliveryInv, TypeOK
<1> HIDE DEF removes
<1>3. HistoriesOK'  BY <1>1, <1>2, ActHistories DEF DeliveryInv
<1>4. {} \subseteq DOMAIN lists /\ EmptyMap = [t \in {} |-> lists[t]]
  BY DEF EmptyMap
<1>5. TablesOK' /\ Acts  BY <1>1, <1>4, DetachStep
<1>q. QED  BY <1>3, <1>5

-----------------------------------------------------------------------------
(* The walk *)

LEMMA OnMessageStep ==
  ASSUME DeliveryInv, NEW name \in Names, OnMessage(name)
  PROVE  DeliveryInv'
<1> DEFINE matches == DOMAIN lists \cap Matching[name]
<1>1. /\ ~Running /\ todo = {} /\ ~Busy
      /\ todo' = {lists[t] : t \in matches}
      /\ initial' = Entries(todo', content)
      /\ removed' = {} /\ got' = {} /\ late' = {} /\ count' = 0 /\ actions' = 0
      /\ lists' = lists /\ content' = content /\ walking' = walking
  BY DEF OnMessage, Busy
<1>2. ~Running' /\ Registered' = Registered  BY <1>1 DEF Running, Registered
<1>3. todo' \subseteq Registered  BY <1>1 DEF Registered
<1>4. DOMAIN content = Registered /\ Registered \subseteq Arrays
      /\ \A a \in Registered : content[a] \in Seq(Callbacks) /\ content[a] # <<>>
  BY <1>1, ArraysInUse DEF DeliveryInv, TypeOK
<1>5. Matched' = todo'
  <2>1. \A e \in initial' : e[1] \in todo'  BY <1>1 DEF Entries
  <2>2. ASSUME NEW a \in todo' PROVE \E e \in initial' : e[1] = a
    <3>1. Len(content[a]) \in Nat /\ Len(content[a]) # 0  BY <1>3, <1>4, <2>2
    <3>2. 1 \in 1..Len(content[a]) /\ content[a][1] \in Callbacks
      BY <1>3, <1>4, <2>2, <3>1
    <3>3. <<a, content[a][1]>> \in initial'
      BY <1>1, <2>2, <3>2 DEF Entries, Contains
    <3>q. QED  BY <3>3
  <2>q. QED  BY <2>1, <2>2 DEF Matched
<1>6. IsFiniteSet(todo') /\ Cardinality(todo') <= Cardinality(Topics)
  <2>1. matches \subseteq Topics  BY DEF DeliveryInv, TypeOK
  <2>2. IsFiniteSet(matches) /\ Cardinality(matches) <= Cardinality(Topics)
    BY <2>1, TopicsAssumption, FS_Subset
  <2> HIDE DEF matches
  <2>3. IsFiniteSet(todo') /\ Cardinality(todo') <= Cardinality(matches)
    BY <1>1, <2>2, ImageBound
  <2>4. Cardinality(todo') \in Nat /\ Cardinality(matches) \in Nat
        /\ Cardinality(Topics) \in Nat
    BY <2>2, <2>3, TopicsAssumption, FS_CardinalityType
  <2>q. QED  BY <2>2, <2>3, <2>4
<1>7. MatchedInv'  BY <1>2, <1>5, <1>6 DEF MatchedInv
<1>8. TablesOK'
  <2>1. InUse(lists)' = Registered  BY <1>2, <1>3, <1>5, ArraysInUse
  <2>q. QED  BY <1>1, <1>2, <1>4, <2>1 DEF DeliveryInv, TypeOK, TablesOK
<1>9. HistoriesOK'
  <2>1. initial' \subseteq Entry  BY <1>1, <1>3, <1>4 DEF Entries, Entry
  <2>2. MaxActions \in Nat  BY ActionsAssumption
  <2>q. QED  BY <1>1, <1>3, <1>4, <2>1, <2>2 DEF DeliveryInv, TypeOK, HistoriesOK
<1>10. WalkInv'  BY <1>2 DEF WalkInv
<1>11. TodoInv'
  <2>1. \A e \in initial' : Contains(content[e[1]], e[2])
    BY <1>1, Zenon DEF Entries
  <2>q. QED  BY <1>1, <2>1 DEF TodoInv
<1>12. DoneInv'  BY <1>5 DEF DoneInv, Matched
<1>13. CountInv'
  <2>1. IsFiniteSet({}) /\ Cardinality({}) = 0  BY FS_EmptySet
  <2>q. QED  BY <1>1, <2>1 DEF CountInv
<1>q. QED
  BY <1>7, <1>8, <1>9, <1>10, <1>11, <1>12, <1>13, TypeParts DEF DeliveryInv

(* What an invocation does to the histories. *)
LEMMA InvokeStep ==
  ASSUME DeliveryInv, Busy,
         NEW a \in Matched, NEW length \in Nat, NEW position \in 1..Len(content[a]),
         Invoke(a, length, position),
         UNCHANGED <<lists, content, initial, removed, actions>>, todo' \subseteq todo
  PROVE  /\ TypeOK' /\ Running' /\ Matched' = Matched
         /\ \A b : Untouched(b)' <=> Untouched(b)
         /\ <<a, content[a][position]>> \notin got => CountInv'
<1> DEFINE entry == <<a, content[a][position]>>
<1>1. /\ walking' = [array |-> a, length |-> length, position |-> position]
      /\ got' = got \cup {entry} /\ count' = count + 1
      /\ late' \subseteq late \cup {entry}
  BY DEF Invoke
<1>2. a \in DOMAIN content /\ a \in Arrays /\ content[a] \in Seq(Callbacks)
  BY ArraysInUse DEF DeliveryInv, TypeOK, Matched, Entry
<1>3. entry \in Entry /\ position \in Nat  BY <1>2 DEF Entry
<1>4. Running' /\ Busy'
  <2>1. a # 0  BY <1>2, ArrayNumbers
  <2>q. QED  BY <1>1, <2>1 DEF Running, Idle, Busy
<1>5. Matched' = Matched /\ Registered' = Registered
  BY DEF Matched, Registered
<1>6. TablesOK'
  <2>1. InUse(lists)' = InUse(lists)  BY <1>4, <1>5, ArraysInUse
  <2>q. QED  BY <1>5, <2>1 DEF DeliveryInv, TypeOK, TablesOK
<1>7. HistoriesOK'
  <2>1. a \in 0..Cardinality(Arrays)
    <3>1. Cardinality(Arrays) \in Nat  BY ArrayNumbers, FS_CardinalityType
    <3>2. a \in 1..Cardinality(Arrays)  BY <1>2, ArrayNumbers
    <3>q. QED  BY <3>1, <3>2
  <2> HIDE DEF entry
  <2>q. QED  BY <1>1, <1>3, <2>1 DEF DeliveryInv, TypeOK, HistoriesOK
<1>8. \A b : Untouched(b)' <=> Untouched(b)  BY DEF Untouched
<1>9. ASSUME entry \notin got PROVE CountInv'
  <2>1. IsFiniteSet(got)  BY DEF DeliveryInv, CountInv
  <2> HIDE DEF entry
  <2>2. IsFiniteSet(got') /\ Cardinality(got') = Cardinality(got) + 1
    BY <1>1, <1>9, <2>1, FS_AddElement
  <2>q. QED  BY <1>1, <2>2 DEF DeliveryInv, CountInv
<1>q. QED  BY <1>4, <1>5, <1>6, <1>7, <1>8, <1>9, TypeParts

LEMMA NextArrayStep ==
  ASSUME DeliveryInv, NEW a \in Arrays, NextArray(a)
  PROVE  DeliveryInv'
<1>1. /\ ~Running /\ a \in todo /\ todo' = todo \ {a} /\ Busy
      /\ Invoke(a, Len(content[a]), 1)
      /\ UNCHANGED <<lists, content, initial, removed, actions>>
  BY DEF NextArray, Busy
<1>2. a \in Matched /\ a \in DOMAIN content
      /\ content[a] \in Seq(Callbacks) /\ content[a] # <<>>
  BY <1>1, ArraysInUse DEF DeliveryInv, MatchedInv, TypeOK
<1>3. Len(content[a]) \in Nat /\ 1 \in 1..Len(content[a])
  BY <1>2
<1>4. <<a, content[a][1]>> \notin got
  BY <1>1 DEF DeliveryInv, TodoInv
<1>5. /\ TypeOK' /\ Running' /\ Matched' = Matched
      /\ \A b : Untouched(b)' <=> Untouched(b)
      /\ CountInv'
  BY <1>1, <1>2, <1>3, <1>4, InvokeStep
<1>6. /\ walking'.array = a /\ walking'.length = Len(content[a])
      /\ walking'.position = 1
      /\ got' = got \cup {<<a, content[a][1]>>}
      /\ initial' = initial /\ content' = content
  BY <1>1 DEF Invoke
<1>7. MatchedInv'  BY <1>1, <1>2, <1>5, <1>6 DEF DeliveryInv, MatchedInv
<1>8. WalkInv'
  <2>1. SUFFICES ASSUME Untouched(a)
                 PROVE  /\ \A i \in 1..1 : <<a, content[a][i]>> \in got'
                        /\ \A e \in got' : e[1] = a =>
                             \E i \in 1..1 : content[a][i] = e[2]
                        /\ \A e \in initial : e[1] = a =>
                             \E i \in 1..Len(content[a]) : content[a][i] = e[2]
    BY <1>3, <1>5, <1>6 DEF WalkInv
  <2>2. \A i \in 1..1 : <<a, content[a][i]>> \in got'  BY <1>6
  <2>3. ASSUME NEW e \in got', e[1] = a PROVE \E i \in 1..1 : content[a][i] = e[2]
    <3>1. e \notin got  BY <1>1, <2>3 DEF DeliveryInv, TodoInv
    <3>2. e = <<a, content[a][1]>>  BY <1>6, <2>3, <3>1
    <3>q. QED  BY <3>2
  <2>4. \A e \in initial : e[1] = a =>
          \E i \in 1..Len(content[a]) : content[a][i] = e[2]
    BY <1>1, <2>1 DEF DeliveryInv, TodoInv, Contains
  <2>q. QED  BY <2>2, <2>3, <2>4
<1>9. TodoInv'
  <2>1. SUFFICES ASSUME NEW b \in todo, b # a
                 PROVE  /\ \A e \in got' : e[1] # b
                        /\ Untouched(b) =>
                             \A e \in initial : e[1] = b => Contains(content[b], e[2])
    BY <1>1, <1>5, <1>6 DEF TodoInv
  <2>q. QED  BY <1>6, <2>1 DEF DeliveryInv, TodoInv
<1>10. DoneInv'
  <2>1. SUFFICES ASSUME NEW e \in initial, e[1] \notin todo, e[1] # a, Untouched(e[1])
                 PROVE  e \in got
    BY <1>1, <1>5, <1>6 DEF DoneInv
  <2>2. e[1] # walking.array
    <3>1. walking.array = 0  BY <1>1 DEF Running, Idle
    <3>2. e[1] \in Arrays  BY DEF DeliveryInv, TypeOK, Entry
    <3>q. QED  BY <3>1, <3>2, ArrayNumbers
  <2>q. QED  BY <2>1, <2>2 DEF DeliveryInv, DoneInv
<1>q. QED  BY <1>5, <1>7, <1>8, <1>9, <1>10 DEF DeliveryInv

LEMMA ReturnStep ==
  ASSUME DeliveryInv, Return
  PROVE  DeliveryInv'
<1> DEFINE a == walking.array
           length == walking.length
           next == walking.position + 1
<1>1. Running /\ Busy /\ UNCHANGED <<todo, initial, removed, actions>>
  BY DEF Return, Busy
<1>2. a \in Matched /\ a \notin todo /\ length \in Nat /\ walking.position \in Nat
  BY <1>1 DEF DeliveryInv, MatchedInv, TypeOK
<1>3. a \in DOMAIN content /\ content[a] \in Seq(Callbacks) /\ IsInjective(content[a])
  BY <1>1, <1>2, ArraysInUse DEF DeliveryInv, TypeOK
<1>4. Untouched(a) =>
        /\ length <= Len(content[a])
        /\ walking.position \in 1..length
        /\ \A i \in 1..walking.position : <<a, content[a][i]>> \in got
        /\ \A e \in got : e[1] = a =>
             \E i \in 1..walking.position : content[a][i] = e[2]
        /\ \A e \in initial : e[1] = a =>
             \E i \in 1..length : content[a][i] = e[2]
  BY <1>1 DEF DeliveryInv, WalkInv
<1>5. CASE Visits(a, length, next)
  <2>1. Invoke(a, length, next) /\ UNCHANGED <<lists, content>>
    BY <1>5 DEF Return
  <2>2. next \in 1..Len(content[a]) /\ next \in Nat /\ next <= length
    BY <1>2, <1>3, <1>5 DEF Visits
  <2> DEFINE entry == <<a, content[a][next]>>
  <2>3. Untouched(a) => entry \notin got
    <3>1. SUFFICES ASSUME Untouched(a), entry \in got PROVE FALSE  OBVIOUS
    <3>2. PICK i \in 1..walking.position : content[a][i] = content[a][next]
      BY <1>4, <3>1
    <3>3. i \in DOMAIN content[a] /\ next \in DOMAIN content[a] /\ i # next
      BY <1>2, <1>3, <1>4, <2>2, <3>1, <3>2
    <3>q. QED  BY <1>3, <3>2, <3>3 DEF IsInjective
  <2>4. /\ TypeOK' /\ Running' /\ Matched' = Matched
        /\ \A b : Untouched(b)' <=> Untouched(b)
        /\ entry \notin got => CountInv'
    <3> HIDE DEF a, length, next
    <3>q. QED  BY <1>1, <1>2, <2>1, <2>2, InvokeStep
  <2>5. CountInv'
    <3>1. CASE removed = {}
      <4>1. Untouched(a)  BY <3>1 DEF Untouched
      <4>q. QED  BY <2>3, <2>4, <4>1
    <3>2. CASE removed # {}
      <4>1. got' = got \cup {entry}  BY <2>1 DEF Invoke
      <4>2. IsFiniteSet(got')  BY <4>1, FS_AddElement DEF DeliveryInv, CountInv
      <4>q. QED  BY <1>1, <3>2, <4>2 DEF CountInv
    <3>q. QED  BY <3>1, <3>2
  <2>6. /\ walking'.array = a /\ walking'.length = length
        /\ walking'.position = next /\ got' = got \cup {entry}
        /\ content' = content /\ initial' = initial /\ todo' = todo
    BY <1>1, <2>1 DEF Invoke
  <2> HIDE DEF a, length
  <2>7. MatchedInv'  BY <1>2, <2>4, <2>6 DEF DeliveryInv, MatchedInv
  <2>8. WalkInv'
    <3>1. SUFFICES ASSUME Untouched(a)
                   PROVE  /\ length <= Len(content[a]) /\ next \in 1..length
                          /\ \A i \in 1..next : <<a, content[a][i]>> \in got'
                          /\ \A e \in got' : e[1] = a =>
                               \E i \in 1..next : content[a][i] = e[2]
                          /\ \A e \in initial : e[1] = a =>
                               \E i \in 1..length : content[a][i] = e[2]
      BY <2>4, <2>6 DEF WalkInv
    <3>2. length <= Len(content[a]) /\ next \in 1..length
      BY <1>2, <1>4, <2>2, <3>1
    <3>3. ASSUME NEW i \in 1..next PROVE <<a, content[a][i]>> \in got'
      <4>1. i \in 1..walking.position \/ i = next  BY <1>2
      <4>q. QED  BY <1>4, <2>6, <3>1, <4>1
    <3>4. ASSUME NEW e \in got', e[1] = a
          PROVE  \E i \in 1..next : content[a][i] = e[2]
      <4>1. CASE e \in got
        <5>1. PICK i \in 1..walking.position : content[a][i] = e[2]
          BY <1>4, <3>1, <3>4, <4>1
        <5>2. i \in 1..next  BY <1>2
        <5>q. QED  BY <5>1, <5>2
      <4>2. CASE e = entry
        <5>1. next \in 1..next  BY <1>2
        <5>q. QED  BY <4>2, <5>1
      <4>q. QED  BY <2>6, <4>1, <4>2
    <3>q. QED  BY <1>4, <3>1, <3>2, <3>3, <3>4
  <2>9. TodoInv'
    <3>1. \A b \in todo : b # a  BY <1>2
    <3>q. QED  BY <2>4, <2>6, <3>1 DEF DeliveryInv, TodoInv
  <2>10. DoneInv'
    <3>1. \A e \in initial : e \in got => e \in got'  BY <2>6
    <3>q. QED  BY <2>4, <2>6, <3>1 DEF DeliveryInv, DoneInv, a
  <2>q. QED  BY <2>4, <2>5, <2>7, <2>8, <2>9, <2>10 DEF DeliveryInv
<1>6. CASE ~Visits(a, length, next)
  <2>1. /\ walking' = Idle
        /\ content' = IF todo = {} THEN [b \in Registered |-> content[b]] ELSE content
        /\ UNCHANGED <<lists, got, count, late>>
    BY <1>6 DEF Return
  <2>2. /\ ~Running' /\ (Busy' <=> todo # {}) /\ Registered' = Registered
        /\ Matched' = Matched
    BY <1>1, <2>1 DEF Running, Busy, Registered, Matched
  <2>3. InUse(lists)' \subseteq DOMAIN content /\ DOMAIN content' = InUse(lists)'
        /\ \A b \in DOMAIN content' : content'[b] = content[b]
    <3>1. DOMAIN content = Registered \cup Matched
      BY <1>1, ArraysInUse DEF DeliveryInv, TypeOK
    <3>q. QED  BY <2>1, <2>2, <3>1, ArraysInUse
  <2>4. TablesOK'
    BY <2>1, <2>2, <2>3 DEF DeliveryInv, TypeOK, TablesOK
  <2>5. HistoriesOK'
    <3>1. Cardinality(Arrays) \in Nat  BY ArrayNumbers, FS_CardinalityType
    <3>2. Idle \in [array : 0..Cardinality(Arrays), length : Nat, position : Nat]
      BY <3>1 DEF Idle
    <3>q. QED  BY <1>1, <2>1, <3>2 DEF DeliveryInv, TypeOK, HistoriesOK
  <2>6. MatchedInv'  BY <1>1, <2>2 DEF DeliveryInv, MatchedInv
  <2>7. WalkInv'  BY <2>2 DEF WalkInv
  <2>8. \A b : Untouched(b)' <=> Untouched(b)  BY <1>1 DEF Untouched
  <2>9. TodoInv'
    <3>1. ASSUME NEW b \in todo PROVE content'[b] = content[b]  BY <2>1, <3>1
    <3>q. QED  BY <1>1, <2>1, <2>8, <3>1 DEF DeliveryInv, TodoInv
  <2>10. DoneInv'
    <3>1. SUFFICES ASSUME NEW e \in initial, e[1] \notin todo, Untouched(e[1])
                   PROVE  e \in got
      BY <1>1, <2>1, <2>8 DEF DoneInv
    <3>2. CASE e[1] # a  BY <3>1, <3>2 DEF DeliveryInv, DoneInv
    <3>3. CASE e[1] = a
      <4>1. PICK i \in 1..length : content[a][i] = e[2]  BY <1>4, <3>1, <3>3
      <4>2. length <= walking.position
        BY <1>2, <1>3, <1>4, <1>6, <3>1, <3>3 DEF Visits
      <4>3. i \in 1..walking.position  BY <1>2, <4>1, <4>2
      <4>4. <<a, content[a][i]>> \in got  BY <1>4, <3>1, <3>3, <4>3
      <4>5. e = <<e[1], e[2]>>  BY DEF DeliveryInv, TypeOK, Entry
      <4>q. QED  BY <3>3, <4>1, <4>4, <4>5
    <3>q. QED  BY <3>2, <3>3
  <2>11. CountInv'  BY <1>1, <2>1 DEF DeliveryInv, CountInv
  <2>q. QED
    BY <2>4, <2>5, <2>6, <2>7, <2>9, <2>10, <2>11, TypeParts DEF DeliveryInv
<1>q. QED  BY <1>5, <1>6

-----------------------------------------------------------------------------
(* The theorems *)

LEMMA InitInv == Init => DeliveryInv
<1>1. SUFFICES ASSUME Init PROVE DeliveryInv  OBVIOUS
<1>2. ~Running /\ todo = {} /\ ~Busy  BY <1>1 DEF Init, Running, Busy
<1>3. Registered = {} /\ Matched = {} /\ InUse(lists) = {}
  BY <1>1, <1>2 DEF Init, Registered, Matched, InUse, EmptyMap
<1>4. IsFiniteSet({}) /\ Cardinality({}) = 0  BY FS_EmptySet
<1>5. Cardinality(Topics) \in Nat /\ Cardinality(Arrays) \in Nat /\ MaxActions \in Nat
  BY TopicsAssumption, ActionsAssumption, ArrayNumbers, FS_CardinalityType
<1>6. TypeOK
  <2>1. Idle \in [array : 0..Cardinality(Arrays), length : Nat, position : Nat]
    BY <1>5 DEF Idle
  <2>q. QED  BY <1>1, <1>3, <1>5, <2>1 DEF Init, EmptyMap, TypeOK, IsInjective
<1>q. QED
  BY <1>1, <1>2, <1>3, <1>4, <1>5, <1>6
  DEF Init, DeliveryInv, MatchedInv, WalkInv, TodoInv, DoneInv, CountInv

LEMMA NextInv == DeliveryInv /\ [Next]_vars => DeliveryInv'
<1>1. SUFFICES ASSUME DeliveryInv, [Next]_vars PROVE DeliveryInv'  OBVIOUS
<1>2. ASSUME NEW topic \in Topics, NEW cb \in Callbacks, AddCallback(topic, cb)
      PROVE  DeliveryInv'
  <2>1. TablesOK' /\ Acts  BY <1>1, <1>2, AddCallbackStep
  <2>2. HistoriesOK'
    <3>1. Act({})  BY <1>2 DEF AddCallback
    <3>q. QED  BY <1>1, <3>1, ActHistories DEF DeliveryInv
  <2>q. QED  BY <1>1, <2>1, <2>2, ActsStep, TypeParts DEF DeliveryInv
<1>3. ASSUME NEW topic \in Topics, NEW cb \in Callbacks, RemoveCallback(topic, cb)
      PROVE  DeliveryInv'
  <2>1. TablesOK' /\ HistoriesOK' /\ Acts  BY <1>1, <1>3, RemoveCallbackStep
  <2>q. QED  BY <1>1, <2>1, ActsStep, TypeParts DEF DeliveryInv
<1>4. CASE Destroy
  <2>1. TablesOK' /\ HistoriesOK' /\ Acts  BY <1>1, <1>4, DestroyStep
  <2>q. QED  BY <1>1, <2>1, ActsStep, TypeParts DEF DeliveryInv
<1>5. ASSUME NEW name \in Names, OnMessage(name) PROVE DeliveryInv'
  BY <1>1, <1>5, OnMessageStep
<1>6. ASSUME NEW a \in Arrays, NextArray(a) PROVE DeliveryInv'
  BY <1>1, <1>6, NextArrayStep
<1>7. CASE Return  BY <1>1, <1>7, ReturnStep
<1>8. CASE UNCHANGED vars
  BY <1>1, <1>8
  DEF vars, DeliveryInv, TypeOK, MatchedInv, WalkInv, TodoInv, DoneInv, CountInv,
      Matched, Untouched, Running, Registered, InUse, Busy
<1>q. QED  BY <1>1, <1>2, <1>3, <1>4, <1>5, <1>6, <1>7, <1>8 DEF Next

LEMMA Inductive == Spec => []DeliveryInv
BY InitInv, NextInv, PTL DEF Spec

(* However the callbacks of a message change the arrays under the walk,     *)
(* each registered topic keeps an array of its own, with a callback in it   *)
(* and none twice.                                                          *)
THEOREM ArraysWellFormed == Spec => []TypeOK
<1>1. DeliveryInv => TypeOK  BY DEF DeliveryInv
<1>q. QED  BY <1>1, Inductive, PTL

(* A delivered message has reached every callback of the arrays nothing was *)
(* removed from, and each once if nothing was removed at all.               *)
THEOREM DeliveryComplete == Spec => []CompleteInv
<1>1. DeliveryInv => CompleteInv
  <2>1. SUFFICES ASSUME DeliveryInv, ~Busy PROVE CompleteInv  BY DEF CompleteInv
  <2>2. todo = {} /\ walking = Idle  BY <2>1 DEF Busy, Running
  <2>3. \A e \in initial : e[1] # walking.array
    <3>1. \A e \in initial : e[1] \in Arrays  BY <2>1 DEF DeliveryInv, TypeOK, Entry
    <3>2. \A a \in Arrays : a # 0  BY ArrayNumbers
    <3>q. QED  BY <2>2, <3>1, <3>2 DEF Idle
  <2>q. QED  BY <2>1, <2>2, <2>3 DEF DeliveryInv, DoneInv, CountInv, CompleteInv
<1>q. QED  BY <1>1, Inductive, PTL

=============================================================================
