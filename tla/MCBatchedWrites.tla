--------------------------- MODULE MCBatchedWrites ---------------------------
(* Two updates of one child scope, one of its parent, and a refresh. *)
EXTENDS BatchedWrites

CONSTANTS a, b, p, s
MCOwners == [w \in Writes |-> IF w = p THEN {} ELSE {s}]
=============================================================================
