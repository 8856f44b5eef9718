--------------------------- MODULE MCProvisioning ---------------------------
(* Two calls on one directory, which may overlap. *)
EXTENDS CommandLine
=============================================================================
