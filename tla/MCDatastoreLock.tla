-------------------------- MODULE MCDatastoreLock --------------------------
(* DatastoreLock for TLC. *)
EXTENDS DatastoreLock

=============================================================================
