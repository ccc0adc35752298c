---------------------------- MODULE MCDurableStep ----------------------------
(* A step whose body may return either of two values. *)
EXTENDS DurableStep
=============================================================================
