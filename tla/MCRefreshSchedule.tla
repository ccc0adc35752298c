-------------------------- MODULE MCRefreshSchedule --------------------------
(* Small lengths of time, and an "unknown" time that is not a number. *)
EXTENDS RefreshSchedule
=============================================================================
