----------------------------- MODULE MCLiveRoom -----------------------------
(* Instance of LiveRoom for TLC: one incident with two versions and a        *)
(* removal, and two that only compete with it for a place in the list.       *)
EXTENDS LiveRoom, TLC

CONSTANTS i1, i2, i3, v1, v2

MCIds ==
  {[incident |-> i1, version |-> v, removed |-> FALSE] : v \in {v1, v2}}
    \union {[incident |-> i1, version |-> v1, removed |-> TRUE]}
    \union {[incident |-> i, version |-> v1, removed |-> FALSE] : i \in {i2, i3}}

Symmetry == Permutations({i2, i3})

=============================================================================
