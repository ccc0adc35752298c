--------------------------- MODULE MCDirectWrites ---------------------------
(* Two updates of one child scope and one of its parent. *)
EXTENDS DirectWrites

CONSTANTS a, b, p, s
MCOwners == [w \in Writes |-> IF w = p THEN {} ELSE {s}]
=============================================================================
