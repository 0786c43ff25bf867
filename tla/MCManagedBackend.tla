--------------------------- MODULE MCManagedBackend ---------------------------
(* Small instances of ManagedBackend: all constants are numbers, see the .cfg. *)
EXTENDS ManagedBackend
==============================================================================
