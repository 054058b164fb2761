-------------------------- MODULE MCMediaOcrQueue --------------------------
(* Instances of MediaOcrQueue for TLC. *)
EXTENDS MediaOcrQueue

=============================================================================
