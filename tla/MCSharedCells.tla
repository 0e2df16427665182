--------------------------- MODULE MCSharedCells ---------------------------
(* A process with one refreshed value, a pool, a loop and a transaction. *)
EXTENDS SharedCells

CONSTANT url

MCArgs == <<url>>
=============================================================================
