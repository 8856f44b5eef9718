-------------------------- MODULE MCRequestManager --------------------------
(* Two calls with two request objects, or with the same one twice. *)
EXTENDS RequestManager, TLC

=============================================================================
