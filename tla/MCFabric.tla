------------------------------ MODULE MCFabric ------------------------------
(* Two services that may share topics with each other and the application. *)
EXTENDS Fabric, TLC
=============================================================================
