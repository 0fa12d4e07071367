-------------------------- MODULE MCTimelineStore --------------------------
(* Small instances of TimelineStore for TLC. *)
EXTENDS TimelineStore, TLC

CONSTANTS g1, g2, g3, l1, l2, l3, l4

\* Gets are interchangeable, and so are loads.
Symmetry == Permutations(Gets) \cup Permutations(Loads)
=============================================================================
