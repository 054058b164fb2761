----------------------------- MODULE MCLiveEdge -----------------------------
(* Instances of LiveEdge for TLC. *)
EXTENDS LiveEdge

=============================================================================
