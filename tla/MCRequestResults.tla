-------------------------- MODULE MCRequestResults --------------------------
(* Two requests with the same token whose songs are one range, of one song,   *)
(* or which ask for the friend's info only, or one request that is split into *)
(* two ranges, of two songs and of one; two workers.                          *)
EXTENDS RequestResults, TLC

CONSTANTS left, right, w1, w2

MCRange == {left, right, InfoOnly}
MCSplits == {{right}, {left, right}}
MCSongs == left :> 2 @@ right :> 1 @@ InfoOnly :> 0
MCWorker == {w1, w2}
Symmetry == Permutations(MCWorker)
=============================================================================
