----------------------------- MODULE MCGcfTask -----------------------------
(* GcfTask for TLC. *)
EXTENDS GcfTask
=============================================================================
