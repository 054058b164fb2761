---------------------------- MODULE MCLiveClient ----------------------------
(* Instances of LiveClient for TLC. *)
EXTENDS LiveClient

=============================================================================
