---------------------------- MODULE MCMemoryLedger ----------------------------
(* Small instances of MemoryLedger. *)
EXTENDS MemoryLedger
=============================================================================
