---------------------------- MODULE MCBuildLease ----------------------------
(* A small instance of BuildLease, the plans of which are never adopted. *)
EXTENDS BuildLease
=============================================================================
