---------------------------- MODULE MCInvocation ----------------------------
(* Instances of Invocation for TLC.  One instance holds every interleaving *)
(* of a few actors: of what three tasks, two writes, an operation, a body  *)
(* and a refresh can do, any MaxActors at a time, or any MaxAround around  *)
(* a handler that spawned no task.                                         *)
EXTENDS Invocation

CONSTANTS MaxActors, MaxAround

Spawned == Cardinality({t \in Tasks : sched[t] # "Unspawned"})
Others ==
  Cardinality({w \in Writes : wr[w].st # "free"})
    + Cardinality({t \in Tasks : fuel[t] < MaxLocal})
    + (IF c.waits # {} \/ log # {} THEN 1 ELSE 0)
    + (IF rf.left < MaxRefresh THEN 1 ELSE 0)

FewActors == Spawned + Others <= (IF Spawned <= 1 THEN 1 + MaxAround ELSE MaxActors)
=============================================================================
