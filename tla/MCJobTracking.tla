--------------------------- MODULE MCJobTracking ---------------------------
(* A request of one or two ranges, two workers, two cursor positions: the   *)
(* one a job was enqueued with and another one a worker may let it join at. *)
EXTENDS JobTracking, TLC

CONSTANTS r1, r2, w1, w2

MCRange == {r1, r2}
MCOneRange == {r1}
MCWorker == {w1, w2}
MCCursor == {0, 1}
MCCrashes == {"crash", "tag", "read", "abort", "entry"}
MCAllHazards == HazardNames
Symmetry == Permutations(MCWorker)
=============================================================================
