---------------------------- MODULE MCConnection ----------------------------
(* MQTT clients one after the other, and the calls that end them. *)
EXTENDS Connection, TLC

=============================================================================
