--------------------------- MODULE MCIssueRecovery ---------------------------
(* A small instance of IssueRecovery. *)
EXTENDS IssueRecovery
=============================================================================
