-------------------------- MODULE MCDriftRequests --------------------------
(* Instance of DriftRequests for TLC. *)
EXTENDS DriftRequests

=============================================================================
