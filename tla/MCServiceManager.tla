-------------------------- MODULE MCServiceManager --------------------------
(* One service and the objects its registrations make. *)
EXTENDS ServiceManager
=============================================================================
