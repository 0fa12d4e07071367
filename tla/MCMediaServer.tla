--------------------------- MODULE MCMediaServer ---------------------------
(* Small instances of MediaServer for TLC. *)
EXTENDS MediaServer, TLC

CONSTANTS r1, r2, r3, photo, video, stream

\* Requests are interchangeable.  Used by the runs without liveness only.
RequestSymmetry == Permutations(Requests)
=============================================================================
