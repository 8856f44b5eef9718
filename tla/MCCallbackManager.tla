------------------------- MODULE MCCallbackManager -------------------------
(* A message on "a" matches the callbacks of "a" and those of "", which get *)
(* every message; one on "b" matches only the latter.                       *)
EXTENDS CallbackManager, TLC

MCTopics == {"", "a"}
MCNames == {"a", "b"}
MCMatching == [n \in MCNames |-> IF n = "a" THEN {"", "a"} ELSE {""}]

Symmetry == Permutations(Callbacks)
=============================================================================
