---------------------------- MODULE MCMemoryRestore ----------------------------
(* Small instances of MemoryRestore. *)
EXTENDS MemoryRestore
=============================================================================
