---------------------------- MODULE RequestPath ----------------------------
(***************************************************************************)
(* One checkpoint request under the checkpoint-token lock (context.rs,     *)
(* `checkpoint_direct_with_events` and `write_locked`), with the service   *)
(* it goes to.  Modules DirectWrites and BatchedWrites say which process   *)
(* sends which updates and what becomes of the queued ones.                *)
(*                                                                         *)
(* The service issues a new token with each request it accepts and takes   *)
(* no request that carries another; `journal` is what it has recorded.     *)
(***************************************************************************)
EXTENDS Naturals, Sequences, SequencesExt

CONSTANTS
  Procs,    \* the tasks that send requests
  Writes,   \* the updates handlers submit
  Scopes,   \* the scopes that can close (child bodies, items, attempts)
  Owners,   \* the scopes each update was written in
  Final,    \* the EXECUTION update with an oversized result
  None      \* no process

ASSUME OwnersAssumption ==
  /\ Owners \in [Writes -> SUBSET Scopes]
  /\ Final \notin Writes /\ None \notin Procs

VARIABLES
  token,    \* the checkpoint token the SDK keeps
  lock,     \* the process that holds the token lock
  svc,      \* the service: [token, journal]
  latch,    \* "none", "failed" (fail_write) or "withdrawn" (withdraw)
  closed,   \* the scopes that closed (`Admission`)
  req       \* the request of each process: [pc, carry, token, admit]

requestVars == <<token, lock, svc, latch, closed, req>>

Updates == Writes \cup {Final}
NoRequest == [pc |-> "idle", carry |-> <<>>, token |-> 0, admit |-> FALSE]
RequestState == {"idle", "locking", "sending", "accepted", "paging", "abandon",
                 "ok", "stopped", "rejected", "panicked"}

RequestTypeOK ==
  /\ token \in Nat /\ lock \in Procs \cup {None}
  /\ svc.token \in Nat /\ svc.journal \in Seq(Updates)
  /\ latch \in {"none", "failed", "withdrawn"}
  /\ closed \subseteq Scopes
  /\ req \in [Procs -> [pc : RequestState, carry : Seq(Updates), token : Nat, admit : BOOLEAN]]

RequestInit ==
  /\ token = 0 /\ lock = None /\ latch = "none" /\ closed = {}
  /\ svc = [token |-> 0, journal |-> <<>>]
  /\ req = [p \in Procs |-> NoRequest]

Put(p, pc) == req' = [req EXCEPT ![p].pc = pc]

\* `DurableContext::owners`; the root context runs in no scope.
OwnersOf(w) == IF w = Final THEN {} ELSE Owners[w]

\* `Admission::admits`, for every update of the request.
AdmittedByScopes(ws) == \A i \in DOMAIN ws : OwnersOf(ws[i]) \cap closed = {}

\* `Admission::abandon`: a child body, an item or an attempt ended.
CloseScope(s) ==
  /\ s \notin closed
  /\ closed' = closed \cup {s}
  /\ UNCHANGED <<token, lock, svc, latch, req>>

\* Mutant: an update of a scope that closed meanwhile is sent.
TakeLockUnadmitted(p) ==
  /\ req[p].pc = "locking" /\ lock = None
  /\ IF latch # "none" THEN Put(p, "stopped") /\ UNCHANGED lock
     ELSE /\ lock' = p
          /\ req' = [req EXCEPT ![p].pc = "sending", ![p].token = token]
  /\ UNCHANGED <<token, svc, latch, closed>>

\* The lock is taken, then the admission and the latches are checked under
\* it. A request that passes is sent with the token, the lock held.
TakeLock(p) ==
  /\ req[p].pc = "locking" /\ lock = None
  /\ IF req[p].admit /\ ~ AdmittedByScopes(req[p].carry)
       THEN Put(p, "rejected") /\ UNCHANGED lock
     ELSE IF latch # "none" THEN Put(p, "stopped") /\ UNCHANGED lock
     ELSE /\ lock' = p
          /\ req' = [req EXCEPT ![p].pc = "sending", ![p].token = token]
  /\ UNCHANGED <<token, svc, latch, closed>>

ServiceAccepts(p) ==
  /\ req[p].pc = "sending" /\ req[p].token = svc.token
  /\ svc' = [token |-> svc.token + 1, journal |-> svc.journal \o req[p].carry]
  /\ Put(p, "accepted")
  /\ UNCHANGED <<token, lock, latch, closed>>

\* The call or its answer failed: the latch is set under the lock, before
\* the queued writes are dropped. The update may be recorded all the same.
CallFails(p) ==
  /\ req[p].pc \in {"sending", "accepted", "paging"}
  /\ latch' = IF latch = "none" THEN "failed" ELSE latch
  /\ Put(p, "abandon")
  /\ UNCHANGED <<token, lock, svc, closed>>

\* Mutant: the token of a paginated response is not stored.
AnsweredUnrotated(p) ==
  /\ req[p].pc = "accepted"
  /\ \/ Put(p, "ok") /\ lock' = None /\ token' = svc.token
     \/ req' = [req EXCEPT ![p].pc = "paging", ![p].token = token] /\ UNCHANGED <<lock, token>>
  /\ UNCHANGED <<svc, latch, closed>>

\* The response rotates the token and is merged. A paginated one keeps the
\* lock while the other pages are fetched with the new token.
Answered(p) ==
  /\ req[p].pc = "accepted"
  /\ token' = svc.token
  /\ \/ Put(p, "ok") /\ lock' = None
     \/ req' = [req EXCEPT ![p].pc = "paging", ![p].token = svc.token] /\ UNCHANGED lock
  /\ UNCHANGED <<svc, latch, closed>>

PagesMerged(p) ==
  /\ req[p].pc = "paging"
  /\ Put(p, "ok") /\ lock' = None
  /\ UNCHANGED <<token, svc, latch, closed>>

\* A response without a token withdraws it, unless it answers an EXECUTION
\* update, which leaves the spent token in place.
Tokenless(p) ==
  /\ req[p].pc = "accepted"
  /\ IF req[p].carry = <<Final>>
       THEN Put(p, "ok") /\ lock' = None /\ UNCHANGED latch
       ELSE Put(p, "abandon") /\ latch' = "withdrawn" /\ UNCHANGED lock
  /\ UNCHANGED <<token, svc, closed>>

\* The client panics: the task unwinds and the lock is released.
ClientPanics(p) ==
  /\ req[p].pc \in {"sending", "accepted", "paging"}
  /\ Put(p, "panicked") /\ lock' = None
  /\ UNCHANGED <<token, svc, latch, closed>>

RequestStep(p) ==
  \/ TakeLock(p) \/ ServiceAccepts(p) \/ CallFails(p) \/ Answered(p)
  \/ PagesMerged(p) \/ Tokenless(p)

\* A request of p that starts now.
Starts(p, carry, admit) ==
  req' = [req EXCEPT ![p] = [pc |-> "locking", carry |-> carry, token |-> 0, admit |-> admit]]

Panicked == \E p \in Procs : req[p].pc = "panicked"

\* Every request carries the token the service issued last, also the one
\* that fetches pages: no response leaves a stale token behind. (A client
\* that panicked may have spent the token, and then the drive is over.)
TokenIsCurrent ==
  Panicked \/ \A p \in Procs :
    /\ req[p].pc = "sending" => req[p].token = svc.token
    /\ req[p].pc = "paging" => req[p].token = svc.token
=============================================================================
