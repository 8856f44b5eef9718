------------------------------ MODULE PartialMap ------------------------------
(* Plain JavaScript objects used as maps: functions over the present keys.  *)

EmptyMap == [x \in {} |-> x]

(* object[key] = value *)
Put(map, key, value) ==
    [k \in DOMAIN map \cup {key} |-> IF k = key THEN value ELSE map[k]]

(* delete object[key] *)
Delete(map, key) == [k \in DOMAIN map \ {key} |-> map[k]]

(* Every key of the other object, set on this one. *)
Extend(map, other) ==
    [k \in DOMAIN map \cup DOMAIN other |->
       IF k \in DOMAIN other THEN other[k] ELSE map[k]]
=============================================================================
