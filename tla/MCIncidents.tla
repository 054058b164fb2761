---------------------------- MODULE MCIncidents ----------------------------
(* Instance of Incidents for TLC.  Incidents do not interact: one is enough. *)
EXTENDS Incidents

=============================================================================
