---------------------------- MODULE MCTrackSpool ----------------------------
EXTENDS TrackSpool, TLC

\* Batch ids are interchangeable, and so are processes and vessels.
Symmetry == Permutations(BatchIds) \cup Permutations(Workers)
            \cup Permutations(Vessels)
=============================================================================
