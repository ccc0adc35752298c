--------------------------- MODULE SuspensionRule ---------------------------
(***************************************************************************)
(* What the coordinator promises, without saying how: an invocation that   *)
(* is open suspends only when no work can make progress and an operation   *)
(* waits, and once it is no longer open no work starts in it and no        *)
(* operation begins to wait.  (coordinator.rs, "the suspension rule".)     *)
(***************************************************************************)
CONSTANTS Work,   \* everything that can make progress: tasks, bodies, writes
          Waits   \* the waits operations can register

VARIABLES state,    \* "open", "suspended", "withdrawn" or "closed"
          able,     \* the work that can make progress now
          waiting   \* the live waits

ruleVars == <<state, able, waiting>>

RuleTypeOK ==
  /\ state \in {"open", "suspended", "withdrawn", "closed"}
  /\ able \subseteq Work
  /\ waiting \subseteq Waits

RuleInit == state = "open" /\ able = {} /\ waiting = {}

StartWork(x) ==
  /\ state = "open"
  /\ able' = able \cup {x}
  /\ UNCHANGED <<state, waiting>>

\* Only work that runs can begin to wait.
StartWaiting(k) ==
  /\ state = "open" /\ able # {}
  /\ waiting' = waiting \cup {k}
  /\ UNCHANGED <<state, able>>

\* Work ends, waits retire. The step that leaves no work may suspend.
Settle(xs, ks) ==
  /\ able' = able \ xs
  /\ waiting' = waiting \ ks
  /\ \/ state' = state
     \/ state = "open" /\ able' = {} /\ waiting' # {} /\ state' = "suspended"

\* The service withdrew the checkpoint token: nothing new can be recorded.
Withdraw ==
  /\ state' = IF state = "open" THEN "withdrawn" ELSE state
  /\ UNCHANGED <<able, waiting>>

Close == state' = "closed" /\ UNCHANGED <<able, waiting>>

RuleNext ==
  \/ \E x \in Work : StartWork(x)
  \/ \E k \in Waits : StartWaiting(k)
  \/ \E xs \in SUBSET Work, ks \in SUBSET Waits : Settle(xs, ks)
  \/ Withdraw
  \/ Close

RuleSpec == RuleInit /\ [][RuleNext]_ruleVars
=============================================================================
