---------------------------- MODULE MCAlertJobs -----------------------------
(* Instances of AlertJobs for TLC.  The temporal properties rule symmetry out. *)
EXTENDS AlertJobs

=============================================================================
