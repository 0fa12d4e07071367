---------------------------- MODULE MCDiskCache ----------------------------
(* Small instances of DiskCache for TLC. *)
EXTENDS DiskCache

CONSTANTS a, b, c, p1, p2, g1

\* p2 stores an entry larger than a budget of two.
Sizes == [x \in Contents |-> IF x = p2 THEN 3 ELSE 1]

\* All entries of one size, so that three exceed a budget of two.
UnitSizes == [x \in Contents |-> 1]
=============================================================================
