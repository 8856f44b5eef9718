--------------------------- MODULE MCSubscriptions ---------------------------
(* Two topics that two callbacks and explicit subscriptions share.           *)
EXTENDS Subscriptions, Naturals, FiniteSets, TLC

Symmetry == Permutations(Topics) \cup Permutations(Callbacks)

(* Bound: the application keeps at most MaxRegistered callbacks at a time,    *)
(* beside the two that a new client registers itself.                        *)
MaxRegistered == 2
FewRegistered == Cardinality(Registered) <= MaxRegistered + 2
=============================================================================
