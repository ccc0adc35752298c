-------------------------- MODULE DirectWrites_proofs --------------------------
(***************************************************************************)
(* Proofs about module DirectWrites, for any writes, scopes and writers:   *)
(* one process at a time holds the token lock, every request carries the   *)
(* token the service issued last, nothing of a closed scope is recorded,   *)
(* and writes are recorded in the order in which they were submitted.      *)
(***************************************************************************)
EXTENDS DirectWrites, RequestPath_proofs

(***************************************************************************)
(* The inductive invariant.                                                *)
(***************************************************************************)
Typed ==
  /\ token \in Nat /\ svc.token \in Nat
  /\ req \in [Procs -> ReqType]
  /\ writer \in [Writers -> {"off", "next", "waiting", "writing", "ending", "gone"}]
  /\ st \in [Updates -> WriteState]
  /\ queue \in Seq(Writes)

\* Who holds the lock has a request that was sent and is not over.
LockIsExclusive == \A p \in Procs : Holding(p) <=> lock = p

\* Only a writer that writes and, after the drive, the caller have requests.
RequestsHaveOwners ==
  /\ \A i \in Writers :
       /\ writer[i] # "writing" => req[i].pc \in {"idle", "panicked"}
       /\ writer[i] # "gone" => req[i].pc # "panicked"
       /\ req[i].carry \in Seq(Writes)
  /\ req[Caller].pc # "panicked"
  /\ req[Caller].pc # "idle" => drive = "returned" /\ st[Final] = "taken"
  /\ st[Final] \in {"new", "taken", "resolved", "dropped"}
  /\ st[Final] # "new" => drive = "returned"
  /\ drive = "returned" =>
       /\ \A i \in Writers : writer[i] \in {"off", "gone"}
       /\ \A w \in Writes : st[w] # "admitted"

\* Between two requests the kept token is the service's, unless a latch is
\* set, the client panicked or the result of the execution was sent.
TokenIsKept ==
  ~ Panicked =>
    /\ \A p \in Procs : req[p].pc = "abandon" => latch # "none"
    /\ \A p \in Procs :
         req[p].pc \in {"sending", "paging"} => req[p].token = svc.token /\ token = svc.token
    /\ lock = None /\ latch = "none" /\ (st[Final] = "new" \/ req[Caller].pc = "locking")
         => token = svc.token

TokenInv == Typed /\ LockIsExclusive /\ RequestsHaveOwners /\ TokenIsKept

(***************************************************************************)
(* Every step keeps it.                                                    *)
(***************************************************************************)
LEMMA ConstantFacts ==
  /\ Final \in Updates /\ Final \notin Writes /\ None \notin Procs
  /\ Caller \in Procs /\ Caller \notin Writers /\ Procs = Writers \cup {Caller}
  /\ Writes \subseteq Updates
  BY OwnersAssumption, CallerAssumption DEF Updates, Writers

LEMMA TokenInvInit == ASSUME Init PROVE TokenInv
  <1> USE ConstantFacts DEF Init, RequestInit, NoRequest
  <1>1. Typed
    BY DEF Typed, ReqType, RequestState, WriteState
  <1>2. LockIsExclusive
    BY DEF LockIsExclusive, Holding
  <1>3. RequestsHaveOwners
    <2>1. \A i \in Writers : writer[i] = "off" /\ req[i].pc = "idle" /\ req[i].carry = <<>>
      BY DEF Writers
    <2>2. <<>> \in Seq(Writes)
      OBVIOUS
    <2>3. QED
      BY <2>1, <2>2 DEF RequestsHaveOwners
  <1>4. TokenIsKept
    BY DEF TokenIsKept
  <1>5. QED
    BY <1>1, <1>2, <1>3, <1>4 DEF TokenInv

\* A request keeps its process, and what it carries, from its start to its
\* end.
LEMMA RequestStepKeeps ==
  ASSUME TokenInv, NEW p \in Procs, RequestStep(p), UNCHANGED <<st, queueVars, drive>>
  PROVE  TokenInv'
  <1> USE ConstantFacts DEF TokenInv, queueVars
  <1>1. CASE TakeLock(p)
    <2>0. /\ req' \in [Procs -> ReqType]
          /\ \A q \in Procs \ {p} : req'[q] = req[q]
          /\ req'[p].carry = req[p].carry
          /\ \/ req'[p].pc \in {"rejected", "stopped"} /\ lock' = None
             \/ req'[p].pc = "sending" /\ req'[p].token = token /\ lock' = p /\ latch = "none"
      <3>1. CASE Put(p, "rejected") /\ UNCHANGED lock
        BY ZenonT(30), <1>1, <3>1 DEF TakeLock, Put, Typed, ReqType, RequestState
      <3>2. CASE Put(p, "stopped") /\ UNCHANGED lock
        BY <1>1, <3>2 DEF TakeLock, Put, Typed, ReqType, RequestState
      <3>3. CASE /\ latch = "none" /\ lock' = p
                    /\ req' = [req EXCEPT ![p].pc = "sending", ![p].token = token]
        BY <1>1, <3>3 DEF TakeLock, Put, Typed, ReqType, RequestState
      <3>4. QED
        BY <1>1, <3>1, <3>2, <3>3 DEF TakeLock
    <2>1. Typed'
      BY <1>1, <2>0 DEF TakeLock, Typed
    <2>2. LockIsExclusive'
      BY <1>1, <2>0 DEF TakeLock, LockIsExclusive, Holding
    <2>3. RequestsHaveOwners'
      BY <1>1, <2>0 DEF TakeLock, RequestsHaveOwners
    <2>4. TokenIsKept'
      <3>1. p \in Writers => st[Final] = "new"
        BY <1>1 DEF TakeLock, RequestsHaveOwners
      <3>2. Panicked' <=> Panicked
        BY <1>1, <2>0 DEF TakeLock, Panicked
      <3>3. lock' = p /\ ~ Panicked => token = svc.token
        BY <1>1, <2>0, <3>1 DEF TakeLock, TokenIsKept
      <3>4. QED
        BY <1>1, <2>0, <3>2, <3>3 DEF TakeLock, LockIsExclusive, Holding, TokenIsKept
    <2>5. QED
      BY <2>1, <2>2, <2>3, <2>4
  <1>2. CASE ServiceAccepts(p)
    <2>1. Typed'
      BY <1>2 DEF ServiceAccepts, Put, Typed, ReqType, RequestState
    <2>2. LockIsExclusive'
      BY <1>2 DEF ServiceAccepts, Put, Typed, ReqType, LockIsExclusive, Holding
    <2>3. RequestsHaveOwners'
      BY <1>2 DEF ServiceAccepts, Put, Typed, ReqType, RequestsHaveOwners
    <2>4. TokenIsKept'
      BY <1>2 DEF ServiceAccepts, Put, Typed, ReqType, LockIsExclusive, Holding, RequestsHaveOwners,
         TokenIsKept, Panicked
    <2>5. QED
      BY <2>1, <2>2, <2>3, <2>4
  <1>3. CASE CallFails(p)
    <2>1. Typed'
      BY ZenonT(30), <1>3 DEF CallFails, Put, Typed, ReqType, RequestState
    <2>2. LockIsExclusive'
      BY <1>3 DEF CallFails, Put, Typed, ReqType, LockIsExclusive, Holding
    <2>3. RequestsHaveOwners'
      BY <1>3 DEF CallFails, Put, Typed, ReqType, RequestsHaveOwners
    <2>4. TokenIsKept'
      BY <1>3 DEF CallFails, Put, Typed, ReqType, LockIsExclusive, Holding, RequestsHaveOwners,
         TokenIsKept, Panicked
    <2>5. QED
      BY <2>1, <2>2, <2>3, <2>4
  <1>4. CASE Answered(p)
    <2>0. /\ req' \in [Procs -> ReqType]
          /\ \A q \in Procs \ {p} : req'[q] = req[q]
          /\ req'[p].carry = req[p].carry
          /\ \/ req'[p].pc = "ok" /\ lock' = None
             \/ req'[p].pc = "paging" /\ req'[p].token = svc.token /\ lock' = lock
      <3>1. CASE Put(p, "ok") /\ lock' = None
        BY ZenonT(30), <3>1 DEF Put, Typed, ReqType, RequestState
      <3>2. CASE /\ UNCHANGED lock
                    /\ req' = [req EXCEPT ![p].pc = "paging", ![p].token = svc.token]
        BY ZenonT(30), <1>4, <3>2 DEF Answered, Put, Typed, ReqType, RequestState
      <3>3. QED
        BY <1>4, <3>1, <3>2 DEF Answered
    <2>1. Typed'
      BY <1>4, <2>0 DEF Answered, Typed
    <2>2. LockIsExclusive'
      BY <1>4, <2>0 DEF Answered, LockIsExclusive, Holding
    <2>3. RequestsHaveOwners'
      BY <1>4, <2>0 DEF Answered, RequestsHaveOwners
    <2>4. TokenIsKept'
      BY <1>4, <2>0 DEF Answered, Typed, LockIsExclusive, Holding, RequestsHaveOwners, TokenIsKept,
         Panicked
    <2>5. QED
      BY <2>1, <2>2, <2>3, <2>4
  <1>5. CASE PagesMerged(p)
    <2>1. Typed'
      BY ZenonT(30), <1>5 DEF PagesMerged, Put, Typed, ReqType, RequestState
    <2>2. LockIsExclusive'
      BY <1>5 DEF PagesMerged, Put, Typed, ReqType, LockIsExclusive, Holding
    <2>3. RequestsHaveOwners'
      BY <1>5 DEF PagesMerged, Put, Typed, ReqType, RequestsHaveOwners
    <2>4. TokenIsKept'
      BY <1>5 DEF PagesMerged, Put, Typed, ReqType, LockIsExclusive, Holding, RequestsHaveOwners,
         TokenIsKept, Panicked
    <2>5. QED
      BY <2>1, <2>2, <2>3, <2>4
  <1>6. CASE Tokenless(p)
    <2>0. /\ req' \in [Procs -> ReqType]
          /\ \A q \in Procs \ {p} : req'[q] = req[q]
          /\ req'[p].carry = req[p].carry
          /\ \/ req'[p].pc = "ok" /\ lock' = None /\ latch' = latch /\ req[p].carry = <<Final>>
             \/ req'[p].pc = "abandon" /\ lock' = lock /\ latch' = "withdrawn"
      <3>1. CASE Put(p, "ok") /\ lock' = None /\ latch' = latch /\ req[p].carry = <<Final>>
        BY ZenonT(30), <3>1 DEF Put, Typed, ReqType, RequestState
      <3>2. CASE Put(p, "abandon") /\ lock' = lock /\ latch' = "withdrawn"
        BY ZenonT(30), <3>2 DEF Put, Typed, ReqType, RequestState
      <3>3. QED
        BY <1>6, <3>1, <3>2 DEF Tokenless
    <2>1. Typed'
      BY <1>6, <2>0 DEF Tokenless, Typed
    <2>2. LockIsExclusive'
      BY <1>6, <2>0 DEF Tokenless, LockIsExclusive, Holding
    <2>3. RequestsHaveOwners'
      BY <1>6, <2>0 DEF Tokenless, RequestsHaveOwners
    <2>4. TokenIsKept'
      <3>1. Panicked' <=> Panicked
        BY <1>6, <2>0 DEF Tokenless, Panicked
      <3>2. req[p].carry = <<Final>> => p = Caller
        <4>1. <<Final>> \notin Seq(Writes)
          OBVIOUS
        <4>2. QED
          BY <4>1 DEF RequestsHaveOwners
      <3>3. req'[p].pc = "ok" => st'[Final] = "taken" /\ req'[Caller].pc = "ok"
        BY <1>6, <2>0, <3>2 DEF Tokenless, RequestsHaveOwners
      <3>4. QED
        BY <1>6, <2>0, <3>1, <3>3 DEF Tokenless, LockIsExclusive, Holding, TokenIsKept
    <2>5. QED
      BY <2>1, <2>2, <2>3, <2>4
  <1>7. QED
    BY <1>1, <1>2, <1>3, <1>4, <1>5, <1>6 DEF RequestStep

LEMMA WritesHaveNoResult == ASSUME NEW s \in Seq(Writes) PROVE Final \notin ToSet(s)
  BY ConstantFacts DEF ToSet

\* The queue's own steps, the drive and the panic of the client.
LEMMA TokenInvNext ==
  ASSUME TokenInv, [Next]_vars
  PROVE  TokenInv'
  <1> USE ConstantFacts DEF TokenInv
  <1>1. ASSUME NEW w \in Writes, Admit(w) PROVE TokenInv'
    <2>1. Typed'
      BY <1>1 DEF Admit, Becomes, requestVars, queueVars,
         Typed, ReqType, RequestState, WriteState
    <2>2. LockIsExclusive'
      BY <1>1 DEF Admit, Becomes, requestVars, queueVars,
         Typed, ReqType, LockIsExclusive, Holding
    <2>3. RequestsHaveOwners'
      BY <1>1 DEF Admit, Becomes, requestVars, queueVars,
         Typed, ReqType, RequestsHaveOwners
    <2>4. TokenIsKept'
      BY <1>1 DEF Admit, Becomes, requestVars, queueVars,
         Typed, ReqType, LockIsExclusive, Holding, RequestsHaveOwners, TokenIsKept, Panicked
    <2>5. QED
      BY <2>1, <2>2, <2>3, <2>4
  <1>2. ASSUME NEW w \in Writes, Release(w) PROVE TokenInv'
    <2>1. Typed'
      BY <1>2 DEF Release, requestVars, queueVars,
         Typed, ReqType, RequestState, WriteState
    <2>2. LockIsExclusive'
      BY <1>2 DEF Release, requestVars, queueVars,
         Typed, ReqType, LockIsExclusive, Holding
    <2>3. RequestsHaveOwners'
      BY <1>2 DEF Release, requestVars, queueVars,
         Typed, ReqType, RequestsHaveOwners
    <2>4. TokenIsKept'
      BY <1>2 DEF Release, requestVars, queueVars,
         Typed, ReqType, LockIsExclusive, Holding, RequestsHaveOwners, TokenIsKept, Panicked
    <2>5. QED
      BY <2>1, <2>2, <2>3, <2>4
  <1>3. ASSUME NEW w \in Writes, NEW reserved \in BOOLEAN, Enqueue(w, reserved) PROVE TokenInv'
    <2>1. Typed'
      <3>1. st' \in [Updates -> WriteState]
        BY <1>3 DEF Enqueue, Becomes, queueVars, Typed, WriteState
      <3>2. queue' \in Seq(Writes)
        BY <1>3 DEF Enqueue, queueVars, Typed
      <3>3. writer' \in [Writers -> {"off", "next", "waiting", "writing", "ending", "gone"}]
        BY <1>3 DEF Enqueue, WriterStarts, queueVars, Typed
      <3>4. QED
        BY <1>3, <3>1, <3>2, <3>3 DEF Enqueue, requestVars, Typed
    <2>2. LockIsExclusive'
      BY <1>3 DEF Enqueue, Becomes, Entering, WriterStarts, requestVars, queueVars,
         Typed, ReqType, LockIsExclusive, Holding
    <2>3. RequestsHaveOwners'
      BY <1>3 DEF Enqueue, Becomes, Entering, WriterStarts, requestVars, queueVars,
         Typed, ReqType, RequestsHaveOwners
    <2>4. TokenIsKept'
      BY <1>3 DEF Enqueue, Becomes, Entering, WriterStarts, requestVars, queueVars,
         Typed, ReqType, LockIsExclusive, Holding, RequestsHaveOwners, TokenIsKept, Panicked
    <2>5. QED
      BY <2>1, <2>2, <2>3, <2>4
  <1>4. ASSUME NEW i \in Writers, NextEntry(i) PROVE TokenInv'
    <2>1. Typed'
      BY <1>4 DEF NextEntry, Becomes, Starts, requestVars, queueVars,
         Typed, ReqType, RequestState, WriteState
    <2>2. LockIsExclusive'
      <3>1. req[i].pc = "idle"
        BY <1>4 DEF NextEntry, RequestsHaveOwners
      <3>2. QED
        BY <1>4, <3>1 DEF NextEntry, Starts, Typed, ReqType, LockIsExclusive, Holding
    <2>3. RequestsHaveOwners'
      BY <1>4 DEF NextEntry, Becomes, Starts, requestVars, queueVars,
         Typed, ReqType, RequestsHaveOwners
    <2>4. TokenIsKept'
      BY <1>4 DEF NextEntry, Becomes, Starts, requestVars, queueVars,
         Typed, ReqType, LockIsExclusive, Holding, RequestsHaveOwners, TokenIsKept, Panicked
    <2>5. QED
      BY <2>1, <2>2, <2>3, <2>4
  <1>5. ASSUME NEW i \in Writers, NextWaits(i) PROVE TokenInv'
    <2>1. Typed'
      BY <1>5 DEF NextWaits, requestVars, queueVars,
         Typed, ReqType, RequestState, WriteState
    <2>2. LockIsExclusive'
      BY <1>5 DEF NextWaits, requestVars, queueVars,
         Typed, ReqType, LockIsExclusive, Holding
    <2>3. RequestsHaveOwners'
      BY <1>5 DEF NextWaits, requestVars, queueVars,
         Typed, ReqType, RequestsHaveOwners
    <2>4. TokenIsKept'
      BY <1>5 DEF NextWaits, requestVars, queueVars,
         Typed, ReqType, LockIsExclusive, Holding, RequestsHaveOwners, TokenIsKept, Panicked
    <2>5. QED
      BY <2>1, <2>2, <2>3, <2>4
  <1>6. ASSUME NEW i \in Writers, NextFindsNone(i) PROVE TokenInv'
    <2>1. Typed'
      BY <1>6 DEF NextFindsNone, requestVars, queueVars,
         Typed, ReqType, RequestState, WriteState
    <2>2. LockIsExclusive'
      BY <1>6 DEF NextFindsNone, requestVars, queueVars,
         Typed, ReqType, LockIsExclusive, Holding
    <2>3. RequestsHaveOwners'
      BY <1>6 DEF NextFindsNone, requestVars, queueVars,
         Typed, ReqType, RequestsHaveOwners
    <2>4. TokenIsKept'
      BY <1>6 DEF NextFindsNone, requestVars, queueVars,
         Typed, ReqType, LockIsExclusive, Holding, RequestsHaveOwners, TokenIsKept, Panicked
    <2>5. QED
      BY <2>1, <2>2, <2>3, <2>4
  <1>7. ASSUME NEW i \in Writers, EndWrite(i) PROVE TokenInv'
    <2>1. Typed'
      BY <1>7 DEF EndWrite, Becomes, NoRequest, requestVars, queueVars,
         Typed, ReqType, RequestState, WriteState
    <2>2. LockIsExclusive'
      BY <1>7 DEF EndWrite, Becomes, NoRequest, requestVars, queueVars,
         Typed, ReqType, LockIsExclusive, Holding
    <2>3. RequestsHaveOwners'
      <3>1. st'[Final] = st[Final]
        BY <1>7, WritesHaveNoResult DEF EndWrite, Becomes, Typed, RequestsHaveOwners
      <3>2. \A w \in Writes : st'[w] = "admitted" => st[w] = "admitted"
        BY <1>7 DEF EndWrite, Becomes, Typed
      <3>3. req'[i].pc = "idle" /\ req'[i].carry \in Seq(Writes)
        BY <1>7 DEF EndWrite, NoRequest, Typed, ReqType
      <3>4. QED
        BY <1>7, <3>1, <3>2, <3>3 DEF EndWrite, Typed, ReqType, RequestsHaveOwners
    <2>4. TokenIsKept'
      BY <1>7 DEF EndWrite, Becomes, NoRequest, requestVars, queueVars,
         Typed, ReqType, LockIsExclusive, Holding, RequestsHaveOwners, TokenIsKept, Panicked
    <2>5. QED
      BY <2>1, <2>2, <2>3, <2>4
  <1>8. ASSUME NEW i \in Writers, Unwind(i) PROVE TokenInv'
    <2>1. Typed'
      BY ZenonT(30), <1>8 DEF Unwind, ClientPanics, Put, Becomes, requestVars, queueVars,
         Typed, ReqType, RequestState, WriteState
    <2>2. LockIsExclusive'
      BY <1>8 DEF Unwind, ClientPanics, Put, Becomes, requestVars, queueVars,
         Typed, ReqType, LockIsExclusive, Holding
    <2>3. RequestsHaveOwners'
      <3>1. st'[Final] = st[Final]
        BY <1>8, WritesHaveNoResult DEF Unwind, Becomes, Typed, RequestsHaveOwners
      <3>2. \A w \in Writes : st'[w] = "admitted" => st[w] = "admitted"
        BY <1>8 DEF Unwind, Becomes, Typed
      <3>3. QED
        BY <1>8, <3>1, <3>2 DEF Unwind, ClientPanics, Put, Typed, ReqType, RequestsHaveOwners
    <2>4. TokenIsKept'
      BY <1>8 DEF Unwind, ClientPanics, Put, Becomes, requestVars, queueVars,
         Typed, ReqType, LockIsExclusive, Holding, RequestsHaveOwners, TokenIsKept, Panicked
    <2>5. QED
      BY <2>1, <2>2, <2>3, <2>4
  <1>9. ASSUME NEW i \in Writers, WriterExits(i) PROVE TokenInv'
    <2>1. Typed'
      BY <1>9 DEF WriterExits, requestVars, queueVars,
         Typed, ReqType, RequestState, WriteState
    <2>2. LockIsExclusive'
      BY <1>9 DEF WriterExits, requestVars, queueVars,
         Typed, ReqType, LockIsExclusive, Holding
    <2>3. RequestsHaveOwners'
      BY <1>9 DEF WriterExits, requestVars, queueVars,
         Typed, ReqType, RequestsHaveOwners
    <2>4. TokenIsKept'
      BY <1>9 DEF WriterExits, requestVars, queueVars,
         Typed, ReqType, LockIsExclusive, Holding, RequestsHaveOwners, TokenIsKept, Panicked
    <2>5. QED
      BY <2>1, <2>2, <2>3, <2>4
  <1>10. ASSUME NEW q \in Procs, AbandonQueued(q) PROVE TokenInv'
    <2>1. Typed'
      <3>1. req' \in [Procs -> ReqType]
        BY ZenonT(30), <1>10 DEF AbandonQueued, Put, Typed, ReqType, RequestState
      <3>2. st' \in [Updates -> WriteState]
        BY <1>10 DEF AbandonQueued, Becomes, Typed, WriteState
      <3>3. queue' \in Seq(Writes)
        BY <1>10 DEF AbandonQueued
      <3>4. QED
        BY <1>10, <3>1, <3>2, <3>3 DEF AbandonQueued, Typed
    <2>2. LockIsExclusive'
      BY <1>10 DEF AbandonQueued, Put, Becomes, requestVars, queueVars,
         Typed, ReqType, LockIsExclusive, Holding
    <2>3. RequestsHaveOwners'
      <3>1. st'[Final] = st[Final]
        BY <1>10, WritesHaveNoResult DEF AbandonQueued, Becomes, Typed
      <3>2. \A w \in Writes : st'[w] = "admitted" => st[w] = "admitted"
        BY <1>10 DEF AbandonQueued, Becomes, Typed
      <3>3. /\ req'[q].pc = "stopped" /\ req'[q].carry = req[q].carry
            /\ \A r \in Procs \ {q} : req'[r] = req[r]
        BY <1>10 DEF AbandonQueued, Put, Typed, ReqType
      <3>4. QED
        BY <1>10, <3>1, <3>2, <3>3 DEF AbandonQueued, RequestsHaveOwners
    <2>4. TokenIsKept'
      BY <1>10 DEF AbandonQueued, Put, Becomes, requestVars, queueVars,
         Typed, ReqType, LockIsExclusive, Holding, RequestsHaveOwners, TokenIsKept, Panicked
    <2>5. QED
      BY <2>1, <2>2, <2>3, <2>4
  <1>11. ASSUME NEW c \in Scopes, CloseScope(c), UNCHANGED <<st, queueVars, drive>> PROVE TokenInv'
    <2>1. Typed'
      BY <1>11 DEF CloseScope, requestVars, queueVars,
         Typed, ReqType, RequestState, WriteState
    <2>2. LockIsExclusive'
      BY <1>11 DEF CloseScope, requestVars, queueVars,
         Typed, ReqType, LockIsExclusive, Holding
    <2>3. RequestsHaveOwners'
      BY <1>11 DEF CloseScope, requestVars, queueVars,
         Typed, ReqType, RequestsHaveOwners
    <2>4. TokenIsKept'
      BY <1>11 DEF CloseScope, requestVars, queueVars,
         Typed, ReqType, LockIsExclusive, Holding, RequestsHaveOwners, TokenIsKept, Panicked
    <2>5. QED
      BY <2>1, <2>2, <2>3, <2>4
  <1>12. ASSUME DriveEnds PROVE TokenInv'
    <2>1. Typed'
      BY <1>12 DEF DriveEnds, requestVars, queueVars,
         Typed, ReqType, RequestState, WriteState
    <2>2. LockIsExclusive'
      BY <1>12 DEF DriveEnds, requestVars, queueVars,
         Typed, ReqType, LockIsExclusive, Holding
    <2>3. RequestsHaveOwners'
      BY <1>12 DEF DriveEnds, requestVars, queueVars,
         Typed, ReqType, RequestsHaveOwners
    <2>4. TokenIsKept'
      BY <1>12 DEF DriveEnds, requestVars, queueVars,
         Typed, ReqType, LockIsExclusive, Holding, RequestsHaveOwners, TokenIsKept, Panicked
    <2>5. QED
      BY <2>1, <2>2, <2>3, <2>4
  <1>13. ASSUME DriveReturns PROVE TokenInv'
    <2>1. Typed'
      BY <1>13 DEF DriveReturns, requestVars, queueVars,
         Typed, ReqType, RequestState, WriteState
    <2>2. LockIsExclusive'
      BY <1>13 DEF DriveReturns, requestVars, queueVars,
         Typed, ReqType, LockIsExclusive, Holding
    <2>3. RequestsHaveOwners'
      BY <1>13 DEF DriveReturns, requestVars, queueVars,
         Typed, ReqType, RequestsHaveOwners
    <2>4. TokenIsKept'
      BY <1>13 DEF DriveReturns, requestVars, queueVars,
         Typed, ReqType, LockIsExclusive, Holding, RequestsHaveOwners, TokenIsKept, Panicked
    <2>5. QED
      BY <2>1, <2>2, <2>3, <2>4
  <1>14. ASSUME WriteResult PROVE TokenInv'
    <2>1. Typed'
      BY <1>14 DEF WriteResult, Becomes, Entering, Starts, requestVars, queueVars,
         Typed, ReqType, RequestState, WriteState
    <2>2. LockIsExclusive'
      <3>1. req[Caller].pc = "idle"
        BY <1>14 DEF WriteResult, RequestsHaveOwners
      <3>2. QED
        BY <1>14, <3>1 DEF WriteResult, Starts, Typed, ReqType, LockIsExclusive, Holding
    <2>3. RequestsHaveOwners'
      BY <1>14 DEF WriteResult, Becomes, Entering, Starts, requestVars, queueVars,
         Typed, ReqType, RequestsHaveOwners
    <2>4. TokenIsKept'
      BY <1>14 DEF WriteResult, Becomes, Entering, Starts, requestVars, queueVars,
         Typed, ReqType, LockIsExclusive, Holding, RequestsHaveOwners, TokenIsKept, Panicked
    <2>5. QED
      BY <2>1, <2>2, <2>3, <2>4
  <1>15. ASSUME EndResult PROVE TokenInv'
    <2>1. Typed'
      BY <1>15 DEF EndResult, Becomes, NoRequest, requestVars, queueVars,
         Typed, ReqType, RequestState, WriteState
    <2>2. LockIsExclusive'
      BY <1>15 DEF EndResult, Becomes, NoRequest, requestVars, queueVars,
         Typed, ReqType, LockIsExclusive, Holding
    <2>3. RequestsHaveOwners'
      BY <1>15 DEF EndResult, Becomes, NoRequest, requestVars, queueVars,
         Typed, ReqType, RequestsHaveOwners
    <2>4. TokenIsKept'
      BY <1>15 DEF EndResult, Becomes, NoRequest, requestVars, queueVars,
         Typed, ReqType, LockIsExclusive, Holding, RequestsHaveOwners, TokenIsKept, Panicked
    <2>5. QED
      BY <2>1, <2>2, <2>3, <2>4
  <1>16. CASE Requests
    BY <1>16, RequestStepKeeps DEF Requests
  <1>17. CASE UNCHANGED vars
    BY <1>17 DEF vars, requestVars, queueVars, Typed, LockIsExclusive, Holding,
       RequestsHaveOwners, TokenIsKept, Panicked
  <1>18. QED
    BY <1>1, <1>2, <1>3, <1>4, <1>5, <1>6, <1>7, <1>8, <1>9, <1>10, <1>11, <1>12, <1>13, <1>14, <1>15, <1>16, <1>17 DEF Next, ScopesClose

LEMMA TokenInvAlways == Spec => []TokenInv
  BY TokenInvInit, TokenInvNext, PTL DEF Spec

\* Whoever has a request under way carries the token the service expects:
\* the lock is held from admission to rotation, and the token rotates with the
\* answer (context.rs: write_locked, checkpoint_direct_with_events).
THEOREM TokenStaysCurrent == Spec => []TokenIsCurrent
  <1>1. TokenInv => TokenIsCurrent
    BY DEF TokenInv, TokenIsKept, TokenIsCurrent
  <1>2. QED
    BY <1>1, TokenInvAlways, PTL

(***************************************************************************)
(* The submission order, and how the journal follows it.                   *)
(***************************************************************************)
Entered == ToSet(order)
Recorded == ToSet(svc.journal)
IsBehind(w) == w \in Entered /\ \A v \in Recorded : At(order, v) < At(order, w)

Active(i) == writer[i] \in {"next", "waiting", "writing"}
Busy(p) == req[p].pc \notin {"idle", "panicked"}
Sent(p) == req[p].carry[1]

OneWriter ==
  \A i, j \in Writers : Active(i) => running /\ (Active(j) => i = j)

EachEntersOnce ==
  /\ Once(order) /\ Recorded \subseteq Entered
  /\ \A w \in Entered : st[w] \notin {"new", "admitted"}

\* The queue holds the updates that entered last, in their order; after the
\* drive nobody reads it.
QueueIsOrdered ==
  /\ \A k \in DOMAIN queue : queue[k] \in Entered /\ st[queue[k]] = "queued"
  /\ drive # "returned" =>
       /\ \A k \in DOMAIN queue : IsBehind(queue[k])
       /\ \A k, l \in DOMAIN queue : k < l => At(order, queue[k]) < At(order, queue[l])

\* A request carries one update, which stands between those that are
\* recorded and those that are queued.
RequestsAreOrdered ==
  \A p \in Procs : Busy(p) =>
    /\ req[p].carry = <<Sent(p)>> /\ req[p].admit
    /\ Sent(p) \in Entered /\ st[Sent(p)] = "taken"
    /\ p = Caller => Sent(p) = Final
    /\ p \in Writers => \A k \in DOMAIN queue : At(order, Sent(p)) < At(order, queue[k])
    /\ req[p].pc \in {"locking", "sending"} => IsBehind(Sent(p))
    /\ req[p].pc \in {"accepted", "paging", "ok"} => Sent(p) \in Recorded
    /\ req[p].pc \in {"sending", "accepted", "paging"} => latch = "none"

\* What is sent under the lock belongs to no scope that was closed when a
\* recorded update entered the queue.
ScopesAreSilent ==
  /\ \A w \in Updates : seen[w] \subseteq closed
  /\ \A p \in Procs : req[p].pc = "sending" =>
       \A m \in DOMAIN svc.journal : OwnersOf(Sent(p)) \cap seen[svc.journal[m]] = {}
  /\ ClosedScopeIsSilent

JournalInv ==
  /\ TypeOK /\ OneWriter /\ EachEntersOnce /\ QueueIsOrdered /\ RequestsAreOrdered /\ ScopesAreSilent

LEMMA JournalInvInit == ASSUME Init PROVE JournalInv
  <1> USE ConstantFacts DEF Init, RequestInit, NoRequest
  <1>1. TypeOK
    <2>1. NoRequest \in ReqType
      BY DEF ReqType, RequestState
    <2>2. req \in [Procs -> ReqType]
      BY <2>1
    <2>3. RequestTypeOK
      BY <2>2 DEF RequestTypeOK, ReqType
    <2>4. /\ st \in [Updates -> WriteState] /\ seen \in [Updates -> SUBSET Scopes]
          /\ writer \in [Writers -> {"off", "next", "waiting", "writing", "ending", "gone"}]
      BY DEF WriteState
    <2>5. queue \in Seq(Writes) /\ order \in Seq(Updates) /\ held \subseteq Writes
      OBVIOUS
    <2>6. running \in BOOLEAN /\ drive \in {"open", "cleaning", "returned"}
      OBVIOUS
    <2> QED
      BY <2>3, <2>4, <2>5, <2>6 DEF TypeOK
  <1>2. OneWriter /\ EachEntersOnce
    BY DEF OneWriter, Active, EachEntersOnce, Once, Recorded, Entered, ToSet
  <1>3. QueueIsOrdered /\ RequestsAreOrdered
    BY DEF QueueIsOrdered, RequestsAreOrdered, Busy
  <1>4. ScopesAreSilent
    BY DEF ScopesAreSilent, ClosedScopeIsSilent
  <1>5. QED
    BY <1>1, <1>2, <1>3, <1>4 DEF JournalInv

\* One process at a time has a request: the running writer, and the caller
\* once the drive returned.
LEMMA OneRequest ==
  ASSUME TokenInv, JournalInv, NEW p \in Procs, NEW q \in Procs, Busy(p), Busy(q)
  PROVE  p = q
  <1>1. \A i \in Writers : Busy(i) => writer[i] = "writing"
    BY DEF TokenInv, RequestsHaveOwners, Busy
  <1>2. Busy(Caller) => \A i \in Writers : writer[i] # "writing"
    BY DEF TokenInv, RequestsHaveOwners, Busy
  <1>3. QED
    BY <1>1, <1>2, ConstantFacts DEF JournalInv, OneWriter, Active

LEMMA RequestKeepsJournal ==
  ASSUME TokenInv, JournalInv, NEW p \in Procs, RequestStep(p), UNCHANGED <<st, queueVars, drive>>
  PROVE  JournalInv'
  <1> USE ConstantFacts DEF JournalInv
  <1>0. RequestShape(p)
    BY RequestStepShape DEF TokenInv, Typed
  <1>1. UNCHANGED <<order, seen, queue, held, running, writer>>
    BY DEF queueVars
  <1>2. req[p].pc \in {"locking", "sending", "accepted", "paging"} /\ Busy(p)
    BY <1>0 DEF RequestShape, Moves, Busy
  <1>3. req[p].carry = <<Sent(p)>> /\ Sent(p) \in Entered /\ Sent(p) \in Updates
    BY <1>2 DEF RequestsAreOrdered, TypeOK, Entered, ToSet
  <1>4. /\ \A q \in Procs \ {p} : req'[q] = req[q] /\ ~ Busy(q)
        /\ \A q \in Procs : Sent(q)' = Sent(q)
    BY <1>0, <1>2, OneRequest DEF RequestShape, Sent
  <1>5. \/ svc'.journal = svc.journal
        \/ req[p].pc = "sending" /\ req'[p].pc = "accepted" /\ svc'.journal = Append(svc.journal, Sent(p))
    BY <1>0, <1>3 DEF RequestShape, Moves, TypeOK, RequestTypeOK
  <1>6. TypeOK'
    <2>1. svc'.journal \in Seq(Updates)
      <3>1. svc.journal \in Seq(Updates)
        BY DEF TypeOK, RequestTypeOK
      <3>2. CASE svc'.journal = svc.journal
        BY <3>1, <3>2
      <3>3. CASE svc'.journal = Append(svc.journal, Sent(p))
        BY <1>3, <3>1, <3>3
      <3>4. QED
        BY <1>5, <3>2, <3>3
    <2>2. token' \in Nat /\ svc'.token \in Nat /\ lock' \in Procs \cup {None}
      BY RequestStepTypes DEF TypeOK, RequestTypeOK
    <2>3. latch' \in {"none", "failed", "withdrawn"} /\ closed' \subseteq Scopes
      BY <1>0 DEF RequestShape, TypeOK, RequestTypeOK
    <2>4. QED
      BY <1>0, <1>1, <2>1, <2>2, <2>3 DEF TypeOK, RequestTypeOK, RequestShape, ReqType
  <1>7. OneWriter'
    BY <1>1 DEF OneWriter, Active
  <1>8. Recorded' \subseteq Recorded \cup {Sent(p)} /\ Recorded \subseteq Recorded'
    <2>1. CASE svc'.journal = svc.journal
      BY <2>1 DEF Recorded
    <2>2. CASE svc'.journal = Append(svc.journal, Sent(p))
      <3>1. svc.journal \in Seq(Updates)
        BY DEF TypeOK, RequestTypeOK
      <3>2. svc'.journal = svc.journal \o req[p].carry /\ req[p].carry \in Seq(Updates)
        BY <1>3, <2>2, <3>1
      <3>3. ToSet(req[p].carry) = {Sent(p)}
        BY <1>3 DEF ToSet
      <3>4. QED
        BY <3>1, <3>2, <3>3, ToSetConcat DEF Recorded
    <2>3. QED
      BY <1>5, <2>1, <2>2
  <1>9. EachEntersOnce'
    BY <1>1, <1>3, <1>8 DEF EachEntersOnce, Entered
  <1>10. QueueIsOrdered'
    <2>1. ASSUME NEW k \in DOMAIN queue, drive # "returned" PROVE IsBehind(queue[k])'
      <3>1. p \in Writers
        BY <1>2, <2>1 DEF TokenInv, RequestsHaveOwners, Busy
      <3>2. IsBehind(queue[k]) /\ At(order, Sent(p)) < At(order, queue[k])
        BY <1>2, <2>1, <3>1 DEF QueueIsOrdered, RequestsAreOrdered
      <3>3. QED
        BY <1>1, <1>8, <3>2 DEF IsBehind, Entered
    <2>2. QED
      BY <1>1, <2>1 DEF QueueIsOrdered, Entered
  <1>11. RequestsAreOrdered'
    <2> SUFFICES ASSUME NEW q \in Procs, Busy(q)'
                 PROVE  RequestsAreOrdered!(q)!2'
      BY DEF RequestsAreOrdered
    <2>1. q = p
      BY <1>4 DEF Busy
    <2>2. /\ req'[p].carry = <<Sent(p)'>> /\ req'[p].admit
          /\ Sent(p)' \in Entered' /\ st'[Sent(p)'] = "taken"
          /\ p = Caller => Sent(p)' = Final
          /\ p \in Writers => \A k \in DOMAIN queue' : At(order', Sent(p)') < At(order', queue'[k])
      BY <1>0, <1>1, <1>2, <1>3, <1>4 DEF RequestShape, RequestsAreOrdered, Entered
    <2>3. req'[p].pc \in {"locking", "sending"} => IsBehind(Sent(p))'
      BY <1>0, <1>1, <1>2, <1>4 DEF RequestShape, Moves, RequestsAreOrdered, IsBehind, Entered, Recorded
    <2>4. req'[p].pc \in {"accepted", "paging", "ok"} => Sent(p)' \in Recorded'
      <3>1. CASE req[p].pc = "sending" /\ req'[p].pc = "accepted" /\ svc'.journal = svc.journal \o req[p].carry
        <4>1. svc.journal \in Seq(Updates) /\ req[p].carry \in Seq(Updates)
          BY <1>3 DEF TypeOK, RequestTypeOK
        <4>2. Sent(p) \in ToSet(req[p].carry)
          BY <1>3 DEF ToSet
        <4>3. QED
          BY <1>4, <3>1, <4>1, <4>2, ToSetConcat DEF Recorded
      <3>2. CASE req[p].pc \in {"accepted", "paging"}
        BY <1>2, <1>4, <1>8, <3>2 DEF RequestsAreOrdered
      <3>3. QED
        BY <1>0, <3>1, <3>2 DEF RequestShape, Moves
    <2>5. req'[p].pc \in {"sending", "accepted", "paging"} => latch' = "none"
      BY <1>0, <1>2 DEF RequestShape, Moves, RequestsAreOrdered
    <2>6. QED
      BY <2>1, <2>2, <2>3, <2>4, <2>5
  <1>12. ScopesAreSilent'
    <2>1. \A w \in Updates : seen'[w] \subseteq closed'
      BY <1>0, <1>1 DEF RequestShape, ScopesAreSilent
    <2>2. \A m \in DOMAIN svc.journal : svc.journal[m] \in Updates
      BY DEF TypeOK, RequestTypeOK
    <2>3. ASSUME NEW q \in Procs, req'[q].pc = "sending", NEW m \in DOMAIN svc'.journal
          PROVE  OwnersOf(Sent(q)') \cap seen'[svc'.journal[m]] = {}
      <3>1. q = p /\ req[p].pc = "locking" /\ svc' = svc /\ AdmittedByScopes(req[p].carry)
        BY <1>0, <1>2, <1>4, <2>3 DEF RequestShape, Moves, Busy, RequestsAreOrdered
      <3>2. OwnersOf(Sent(p)) \cap closed = {}
        BY <1>3, <3>1 DEF AdmittedByScopes
      <3>3. QED
        BY <1>1, <1>4, <2>2, <2>3, <3>1, <3>2 DEF ScopesAreSilent
    <2>4. ClosedScopeIsSilent'
      <3>1. CASE svc'.journal = svc.journal
        BY <1>1, <3>1 DEF ScopesAreSilent, ClosedScopeIsSilent
      <3>2. CASE req[p].pc = "sending" /\ svc'.journal = Append(svc.journal, Sent(p))
        <4>1. svc.journal \in Seq(Updates)
          BY DEF TypeOK, RequestTypeOK
        <4> DEFINE j == svc.journal
        <4>2. /\ DOMAIN svc'.journal = 1 .. Len(j) + 1 /\ DOMAIN j = 1 .. Len(j) /\ Len(j) \in Nat
              /\ \A n \in DOMAIN j : svc'.journal[n] = j[n]
              /\ svc'.journal[Len(j) + 1] = Sent(p)
          BY <1>3, <3>2, <4>1
        <4>3. ASSUME NEW m \in DOMAIN svc'.journal, NEW n \in DOMAIN svc'.journal, m < n
              PROVE  OwnersOf(svc'.journal[n]) \cap seen[svc'.journal[m]] = {}
          <5>1. m \in DOMAIN j /\ (n \in DOMAIN j \/ n = Len(j) + 1)
            BY <4>2, <4>3
          <5>2. CASE n \in DOMAIN j
            BY <4>2, <4>3, <5>1, <5>2 DEF ScopesAreSilent, ClosedScopeIsSilent
          <5>3. CASE n = Len(j) + 1
            BY <3>2, <4>2, <5>1, <5>3 DEF ScopesAreSilent
          <5>4. QED
            BY <5>1, <5>2, <5>3
        <4>4. QED
          BY <1>1, <4>3 DEF ClosedScopeIsSilent, OwnersOf
      <3>3. QED
        BY <1>5, <3>1, <3>2
    <2>5. QED
      BY <2>1, <2>3, <2>4 DEF ScopesAreSilent, OwnersOf
  <1>13. QED
    BY <1>6, <1>7, <1>9, <1>10, <1>11, <1>12

\* Steps that neither enter an update, nor send, answer or drop one.
LEMMA QuietKeepsJournal ==
  ASSUME JournalInv, TypeOK', OneWriter', UNCHANGED <<order, seen, queue, svc, req, latch>>,
         closed \subseteq closed', drive' # "returned" => drive # "returned",
         \A w \in Updates : st'[w] # st[w] => st[w] = "new" /\ st'[w] = "admitted"
  PROVE  JournalInv'
  <1> USE DEF JournalInv
  <1>1. Entered' = Entered /\ Recorded' = Recorded /\ Entered \subseteq Updates
    BY DEF Entered, Recorded, ToSet, TypeOK
  <1>2. \A w \in Entered : st'[w] = st[w]
    BY <1>1 DEF EachEntersOnce
  <1>3. EachEntersOnce'
    BY <1>1, <1>2 DEF EachEntersOnce
  <1>4. QueueIsOrdered'
    BY <1>1, <1>2 DEF QueueIsOrdered, IsBehind
  <1>5. RequestsAreOrdered'
    BY <1>1, <1>2 DEF RequestsAreOrdered, IsBehind, Busy, Sent
  <1>6. ScopesAreSilent'
    BY DEF ScopesAreSilent, ClosedScopeIsSilent, Sent, OwnersOf
  <1>7. QED
    BY <1>3, <1>4, <1>5, <1>6

\* An update enters the order.
LEMMA EntryKeepsOrder ==
  ASSUME JournalInv, NEW w \in Updates, w \notin Entered, Entering(w), svc' = svc,
         \A v \in Entered : st'[v] = st[v], st'[w] \notin {"new", "admitted"}
  PROVE  /\ EachEntersOnce' /\ Entered' = Entered \cup {w} /\ Recorded' = Recorded
         /\ \A v \in Entered : At(order', v) = At(order, v) /\ At(order, v) < At(order', w)
         /\ \A v \in Entered : IsBehind(v) => IsBehind(v)'
         /\ IsBehind(w)'
         /\ \A m \in DOMAIN svc.journal : seen'[svc.journal[m]] = seen[svc.journal[m]]
         /\ order' \in Seq(Updates) /\ seen' \in [Updates -> SUBSET Scopes]
  <1> USE DEF JournalInv, TypeOK, RequestTypeOK, Entered, Entering
  <1>1. Once(order) /\ Recorded \subseteq Entered
    BY DEF EachEntersOnce
  <1>2. /\ order' \in Seq(Updates) /\ Once(order') /\ Entered' = Entered \cup {w}
        /\ \A v \in Entered : At(order', v) = At(order, v) /\ At(order, v) < At(order', w)
    BY <1>1, AtAppend
  <1>3. Recorded' = Recorded
    BY DEF Recorded
  <1>4. EachEntersOnce'
    BY <1>1, <1>2, <1>3 DEF EachEntersOnce
  <1>5. \A v \in Entered : IsBehind(v) => IsBehind(v)'
    BY <1>1, <1>2, <1>3 DEF IsBehind
  <1>6. IsBehind(w)'
    BY <1>1, <1>2, <1>3 DEF IsBehind
  <1>7. \A m \in DOMAIN svc.journal : svc.journal[m] \in Recorded
    BY DEF Recorded, ToSet
  <1>8. \A m \in DOMAIN svc.journal : seen'[svc.journal[m]] = seen[svc.journal[m]]
    BY <1>1, <1>7
  <1>9. QED
    BY <1>2, <1>3, <1>4, <1>5, <1>6, <1>8

LEMMA EnqueueKeepsJournal ==
  ASSUME TokenInv, JournalInv, NEW w \in Writes, NEW reserved \in BOOLEAN, Enqueue(w, reserved)
  PROVE  JournalInv'
  <1> USE ConstantFacts DEF JournalInv
  <1>1. w \in Updates /\ w \notin Entered /\ st[w] = "admitted" /\ drive # "returned"
    BY DEF Enqueue, EachEntersOnce, TokenInv, RequestsHaveOwners
  <1>2. CASE latch = "failed"
    <2>1. /\ UNCHANGED <<requestVars, queueVars, drive>>
          /\ st' \in [Updates -> WriteState] /\ \A v \in Entered : st'[v] = st[v]
      BY <1>1, <1>2 DEF Enqueue, Becomes, TypeOK, WriteState, Entered, ToSet
    <2> USE <2>1 DEF requestVars, queueVars
    <2>2. TypeOK' /\ OneWriter'
      BY DEF TypeOK, RequestTypeOK, OneWriter, Active
    <2>3. EachEntersOnce'
      <3>1. \A v \in Updates : v # w => st'[v] = st[v]
        BY <1>2 DEF Enqueue, Becomes
      <3>2. QED
        BY <1>1, <3>1 DEF EachEntersOnce, Entered, Recorded
    <2>4. QueueIsOrdered' /\ RequestsAreOrdered' /\ ScopesAreSilent'
      BY DEF QueueIsOrdered, RequestsAreOrdered, ScopesAreSilent, ClosedScopeIsSilent, IsBehind,
         Entered, Recorded, Busy, Sent, OwnersOf
    <2>5. QED
      BY <2>2, <2>3, <2>4
  <1>3. CASE latch # "failed"
    <2>1. /\ Entering(w) /\ st' = Becomes({w}, "queued") /\ queue' = Append(queue, w)
          /\ held' = IF reserved THEN held \cup {w} ELSE held
          /\ running' = TRUE /\ (IF running THEN UNCHANGED writer ELSE WriterStarts)
          /\ UNCHANGED <<requestVars, drive>>
      BY <1>3 DEF Enqueue
    <2> USE DEF requestVars
    <2>2. /\ st' \in [Updates -> WriteState] /\ st'[w] = "queued"
          /\ \A v \in Entered : st'[v] = st[v]
      BY <1>1, <2>1 DEF Becomes, TypeOK, WriteState, Entered, ToSet
    <2>3. /\ EachEntersOnce' /\ Entered' = Entered \cup {w} /\ Recorded' = Recorded
          /\ \A v \in Entered : At(order', v) = At(order, v) /\ At(order, v) < At(order', w)
          /\ \A v \in Entered : IsBehind(v) => IsBehind(v)'
          /\ IsBehind(w)'
          /\ \A m \in DOMAIN svc.journal : seen'[svc.journal[m]] = seen[svc.journal[m]]
          /\ order' \in Seq(Updates) /\ seen' \in [Updates -> SUBSET Scopes]
      BY <1>1, <2>1, <2>2, EntryKeepsOrder
    <2>4. queue \in Seq(Writes)
      BY DEF TypeOK
    <2>5. /\ queue' \in Seq(Writes) /\ DOMAIN queue' = 1 .. Len(queue) + 1 /\ Len(queue) \in Nat
          /\ DOMAIN queue = 1 .. Len(queue)
          /\ \A k \in DOMAIN queue : queue'[k] = queue[k]
          /\ queue'[Len(queue) + 1] = w
      BY <2>1, <2>4
    <2>6. OneWriter' /\ writer' \in [Writers -> {"off", "next", "waiting", "writing", "ending", "gone"}]
      <3>1. CASE running
        BY <2>1, <3>1 DEF OneWriter, Active, TypeOK
      <3>2. CASE ~ running
        BY <2>1, <3>2 DEF OneWriter, Active, TypeOK, WriterStarts
      <3>3. QED
        BY <3>1, <3>2
    <2>7. TypeOK'
      BY <2>1, <2>2, <2>3, <2>5, <2>6 DEF TypeOK, RequestTypeOK
    <2>8. QueueIsOrdered'
      <3>1. \A k \in DOMAIN queue : /\ queue[k] \in Entered /\ st[queue[k]] = "queued"
                                    /\ IsBehind(queue[k])
        BY <1>1 DEF QueueIsOrdered
      <3>2. ASSUME NEW k \in DOMAIN queue'
            PROVE  queue'[k] \in Entered' /\ st'[queue'[k]] = "queued" /\ IsBehind(queue[k])'
        <4>1. CASE k \in DOMAIN queue
          BY <2>2, <2>3, <2>5, <3>1, <4>1 DEF IsBehind
        <4>2. CASE k = Len(queue) + 1
          BY <2>2, <2>3, <2>5, <4>2 DEF IsBehind
        <4>3. QED
          BY <2>5, <4>1, <4>2
      <3>3. ASSUME NEW k \in DOMAIN queue', NEW l \in DOMAIN queue', k < l
            PROVE  At(order', queue'[k]) < At(order', queue'[l])
        <4>1. k \in DOMAIN queue /\ (l \in DOMAIN queue \/ l = Len(queue) + 1)
          BY <2>5, <3>3
        <4>2. CASE l \in DOMAIN queue
          BY <1>1, <2>3, <2>5, <3>1, <3>3, <4>1, <4>2 DEF QueueIsOrdered
        <4>3. CASE l = Len(queue) + 1
          BY <2>3, <2>5, <3>1, <4>1, <4>3
        <4>4. QED
          BY <4>1, <4>2, <4>3
      <3>4. QED
        BY <3>2, <3>3 DEF QueueIsOrdered, IsBehind
    <2>9. RequestsAreOrdered'
      <3> SUFFICES ASSUME NEW q \in Procs, Busy(q)'
                   PROVE  RequestsAreOrdered!(q)!2'
        BY DEF RequestsAreOrdered
      <3>1. RequestsAreOrdered!(q)!2
        BY <2>1 DEF RequestsAreOrdered, Busy
      <3>2. ASSUME q \in Writers, NEW k \in DOMAIN queue'
            PROVE  At(order', Sent(q)) < At(order', queue'[k])
        <4>1. CASE k \in DOMAIN queue
          BY <2>3, <2>5, <3>1, <3>2, <4>1 DEF QueueIsOrdered
        <4>2. CASE k = Len(queue) + 1
          BY <2>3, <2>5, <3>1, <4>2
        <4>3. QED
          BY <2>5, <3>2, <4>1, <4>2
      <3>3. QED
        BY <2>1, <2>2, <2>3, <3>1, <3>2 DEF Sent
    <2>10. ScopesAreSilent'
      BY <2>1, <2>3 DEF ScopesAreSilent, ClosedScopeIsSilent, Entering, Sent, OwnersOf, TypeOK
    <2>11. QED
      BY <2>3, <2>6, <2>7, <2>8, <2>9, <2>10
  <1>4. QED
    BY <1>2, <1>3

\* The writer takes the first entry of the queue.
LEMMA NextEntryKeepsJournal ==
  ASSUME TokenInv, JournalInv, NEW i \in Writers, NextEntry(i)
  PROVE  JournalInv'
  <1> USE ConstantFacts DEF JournalInv
  <1> DEFINE w == Head(queue)
  <1>1. queue \in Seq(Writes) /\ queue # <<>> /\ w = queue[1] /\ w \in Updates
    BY DEF NextEntry, TypeOK
  <1>2. /\ queue' \in Seq(Writes) /\ DOMAIN queue' = 1 .. Len(queue) - 1 /\ DOMAIN queue = 1 .. Len(queue)
        /\ \A k \in DOMAIN queue' : queue'[k] = queue[k + 1] /\ k + 1 \in DOMAIN queue /\ 1 < k + 1
        /\ \A k, l \in DOMAIN queue' : k < l => k + 1 < l + 1
        /\ 1 \in DOMAIN queue
    BY <1>1 DEF NextEntry
  <1> HIDE DEF w
  <1>3. drive # "returned" /\ drive' = drive
    BY DEF NextEntry, TokenInv, RequestsHaveOwners
  <1>4. /\ w \in Entered /\ st[w] = "queued" /\ IsBehind(w)
        /\ \A k \in DOMAIN queue' : At(order, w) < At(order, queue'[k])
    BY <1>1, <1>2, <1>3 DEF QueueIsOrdered
  <1>5. /\ st' \in [Updates -> WriteState] /\ st'[w] = "taken"
        /\ \A v \in Updates : v # w => st'[v] = st[v]
    BY <1>1 DEF NextEntry, Becomes, TypeOK, WriteState, w
  <1>6. /\ req' = [req EXCEPT ![i] = [pc |-> "locking", carry |-> <<w>>, token |-> 0, admit |-> TRUE]]
        /\ writer' = [writer EXCEPT ![i] = "writing"] /\ writer[i] = "next"
        /\ UNCHANGED <<token, lock, svc, latch, closed, order, seen, held, running>>
    BY DEF NextEntry, Starts, w
  <1>7. Entered' = Entered /\ Recorded' = Recorded /\ Entered \subseteq Updates
    BY <1>6 DEF Entered, Recorded, ToSet, TypeOK
  <1>8. TypeOK'
    <2>1. <<w>> \in Seq(Updates)
      BY <1>1
    <2>2. req' \in [Procs -> ReqType] /\ req \in [Procs -> ReqType]
      BY <1>6, <2>1 DEF TypeOK, RequestTypeOK, ReqType, RequestState
    <2>3. QED
      BY <1>2, <1>3, <1>5, <1>6, <2>2 DEF TypeOK, RequestTypeOK, ReqType
  <1>9. OneWriter'
    BY <1>6 DEF OneWriter, Active, TypeOK
  <1>10. EachEntersOnce'
    BY <1>4, <1>5, <1>6, <1>7 DEF EachEntersOnce
  <1>11. QueueIsOrdered'
    <2>1. ASSUME NEW k \in DOMAIN queue' PROVE queue'[k] # w /\ queue'[k] \in Entered /\ IsBehind(queue'[k])
                                                /\ st[queue'[k]] = "queued"
      <3>1. queue'[k] \in Entered /\ IsBehind(queue'[k]) /\ st[queue'[k]] = "queued"
        BY <1>2, <1>3, <2>1 DEF QueueIsOrdered
      <3>2. At(order, w) \in DOMAIN order
        BY <1>4, AtInDomain DEF Entered
      <3>3. At(order, w) \in Nat
        BY <3>2 DEF TypeOK
      <3>4. QED
        BY <1>4, <2>1, <3>1, <3>3
    <2>2. \A k, l \in DOMAIN queue' : k < l => At(order, queue'[k]) < At(order, queue'[l])
      BY <1>2, <1>3 DEF QueueIsOrdered
    <2>3. QED
      BY <1>5, <1>6, <1>7, <2>1, <2>2 DEF QueueIsOrdered, IsBehind
  <1>12. ~ Busy(i) /\ \A q \in Procs \ {i} : ~ Busy(q)
    <2>1. ~ Busy(i) /\ ~ Busy(Caller)
      BY <1>3, <1>6 DEF TokenInv, RequestsHaveOwners, Busy
    <2>2. \A j \in Writers \ {i} : writer[j] # "writing"
      BY <1>6 DEF OneWriter, Active
    <2>3. QED
      BY <2>1, <2>2 DEF TokenInv, RequestsHaveOwners, Busy
  <1>13. RequestsAreOrdered'
    <2> SUFFICES ASSUME NEW q \in Procs, Busy(q)'
                 PROVE  RequestsAreOrdered!(q)!2'
      BY DEF RequestsAreOrdered
    <2>1. q = i
      BY <1>6, <1>12 DEF Busy, TypeOK, RequestTypeOK
    <2>2. req'[i] = [pc |-> "locking", carry |-> <<w>>, token |-> 0, admit |-> TRUE] /\ Sent(i)' = w
      BY <1>6 DEF TypeOK, RequestTypeOK, Sent
    <2>3. QED
      BY <1>4, <1>5, <1>6, <1>7, <2>1, <2>2 DEF IsBehind
  <1>14. ScopesAreSilent'
    <2>1. \A q \in Procs : req'[q].pc # "sending"
      BY <1>6, <1>12 DEF Busy, TypeOK, RequestTypeOK
    <2>2. QED
      BY <1>6, <2>1 DEF ScopesAreSilent, ClosedScopeIsSilent, OwnersOf
  <1>15. QED
    BY <1>8, <1>9, <1>10, <1>11, <1>13, <1>14

\* A failed or withdrawn request drops the queue.
LEMMA AbandonKeepsJournal ==
  ASSUME TokenInv, JournalInv, NEW p \in Procs, AbandonQueued(p)
  PROVE  JournalInv'
  <1> USE ConstantFacts DEF JournalInv
  <1>1. /\ queue' = <<>> /\ lock' = None
        /\ UNCHANGED <<token, svc, latch, closed, order, seen, held, running, writer, drive>>
    BY DEF AbandonQueued
  <1>2. /\ req' \in [Procs -> ReqType] /\ req'[p].pc = "stopped" /\ Busy(p)
        /\ \A q \in Procs : /\ req'[q].carry = req[q].carry /\ req'[q].admit = req[q].admit
                            /\ q # p => req'[q] = req[q]
    BY DEF AbandonQueued, Put, Busy, TypeOK, RequestTypeOK, ReqType, RequestState
  <1>3. /\ st' \in [Updates -> WriteState]
        /\ \A w \in Updates : st'[w] # st[w] => st'[w] = "dropped" /\ st[w] = "queued"
    <2>1. \A w \in ToSet(queue) : st[w] = "queued"
      BY DEF QueueIsOrdered, ToSet
    <2>2. QED
      BY <2>1 DEF AbandonQueued, Becomes, TypeOK, WriteState
  <1>4. Entered' = Entered /\ Recorded' = Recorded /\ Entered \subseteq Updates
    BY <1>1 DEF Entered, Recorded, ToSet, TypeOK
  <1>5. TypeOK'
    BY SMTT(30), <1>1, <1>2, <1>3 DEF TypeOK, RequestTypeOK, ReqType
  <1>6. OneWriter'
    BY <1>1 DEF OneWriter, Active
  <1>7. EachEntersOnce'
    BY <1>1, <1>3, <1>4 DEF EachEntersOnce
  <1>8. QueueIsOrdered'
    BY <1>1 DEF QueueIsOrdered
  <1>9. RequestsAreOrdered'
    BY <1>1, <1>2, <1>3, <1>4 DEF RequestsAreOrdered, IsBehind, Busy, Sent
  <1>10. ScopesAreSilent'
    BY <1>1, <1>2 DEF ScopesAreSilent, ClosedScopeIsSilent, Sent, OwnersOf
  <1>11. QED
    BY <1>5, <1>6, <1>7, <1>8, <1>9, <1>10

\* A request ends, and what became of its update is final. The writer goes
\* on, or is gone with the panic of the client.
LEMMA EndKeepsJournal ==
  ASSUME TokenInv, JournalInv, NEW p \in Procs, Busy(p), NEW r \in ReqType, r.pc \in {"idle", "panicked"},
         req' = [req EXCEPT ![p] = r], NEW state \in {"resolved", "dropped"},
         st' = Becomes(ToSet(req[p].carry), state),
         token' \in Nat, lock' \in Procs \cup {None}, running' \in BOOLEAN, OneWriter',
         writer' \in [Writers -> {"off", "next", "waiting", "writing", "ending", "gone"}],
         UNCHANGED <<svc, latch, closed, order, seen, queue, held, drive>>
  PROVE  JournalInv'
  <1> USE ConstantFacts DEF JournalInv
  <1>1. /\ req[p].carry = <<Sent(p)>> /\ Sent(p) \in Entered /\ st[Sent(p)] = "taken"
        /\ Sent(p) \in Updates
    BY DEF RequestsAreOrdered, Entered, ToSet, TypeOK
  <1>2. ToSet(req[p].carry) = {Sent(p)}
    BY <1>1 DEF ToSet
  <1>3. /\ st' \in [Updates -> WriteState]
        /\ \A w \in Updates : st'[w] # st[w] => w = Sent(p) /\ st'[w] \in {"resolved", "dropped"}
    BY <1>2 DEF Becomes, TypeOK, WriteState
  <1>4. Entered' = Entered /\ Recorded' = Recorded /\ Entered \subseteq Updates
    BY DEF Entered, Recorded, ToSet, TypeOK
  <1>5. req' \in [Procs -> ReqType]
    BY DEF TypeOK, RequestTypeOK, ReqType
  <1>6. TypeOK'
    BY <1>3, <1>5 DEF TypeOK, RequestTypeOK, ReqType
  <1>7. EachEntersOnce'
    BY <1>3, <1>4 DEF EachEntersOnce
  <1>8. QueueIsOrdered'
    BY <1>1, <1>3, <1>4 DEF QueueIsOrdered, IsBehind
  <1>9. RequestsAreOrdered'
    <2>1. \A q \in Procs : ~ Busy(q)'
      BY OneRequest DEF Busy, TypeOK, RequestTypeOK
    <2>2. QED
      BY <2>1 DEF RequestsAreOrdered
  <1>10. ScopesAreSilent'
    BY DEF ScopesAreSilent, ClosedScopeIsSilent, Sent, OwnersOf, TypeOK, RequestTypeOK
  <1>11. QED
    BY <1>6, <1>7, <1>8, <1>9, <1>10

\* The caller writes the result after the drive.
LEMMA ResultKeepsJournal ==
  ASSUME TokenInv, JournalInv, WriteResult
  PROVE  JournalInv'
  <1> USE ConstantFacts DEF JournalInv
  <1>1. /\ drive = "returned" /\ st[Final] = "new" /\ Final \notin Entered
        /\ Entering(Final) /\ UNCHANGED <<token, lock, svc, latch, closed, queue, held, running, writer, drive>>
        /\ req' = [req EXCEPT ![Caller] = [pc |-> "locking", carry |-> <<Final>>, token |-> 0, admit |-> TRUE]]
    BY DEF WriteResult, Starts, EachEntersOnce
  <1>2. /\ st' \in [Updates -> WriteState] /\ st'[Final] = "taken"
        /\ \A v \in Updates : v # Final => st'[v] = st[v]
        /\ \A v \in Entered : st'[v] = st[v] /\ v # Final
    BY <1>1 DEF WriteResult, Becomes, TypeOK, WriteState, Entered, ToSet
  <1>3. /\ EachEntersOnce' /\ Entered' = Entered \cup {Final} /\ Recorded' = Recorded
        /\ \A v \in Entered : At(order', v) = At(order, v) /\ At(order, v) < At(order', Final)
        /\ \A v \in Entered : IsBehind(v) => IsBehind(v)'
        /\ IsBehind(Final)'
        /\ \A m \in DOMAIN svc.journal : seen'[svc.journal[m]] = seen[svc.journal[m]]
        /\ order' \in Seq(Updates) /\ seen' \in [Updates -> SUBSET Scopes]
    BY <1>1, <1>2, EntryKeepsOrder
  <1>4. \A q \in Procs : ~ Busy(q)
    BY <1>1 DEF TokenInv, RequestsHaveOwners, Busy
  <1>5. TypeOK'
    <2>1. <<Final>> \in Seq(Updates)
      OBVIOUS
    <2>2. req' \in [Procs -> ReqType] /\ req \in [Procs -> ReqType]
      BY <1>1, <2>1 DEF TypeOK, RequestTypeOK, ReqType, RequestState
    <2>3. QED
      BY <1>1, <1>2, <1>3, <2>2 DEF TypeOK, RequestTypeOK, ReqType
  <1>6. OneWriter'
    BY <1>1 DEF OneWriter, Active
  <1>7. QueueIsOrdered'
    BY <1>1, <1>2, <1>3 DEF QueueIsOrdered
  <1>8. RequestsAreOrdered'
    <2> SUFFICES ASSUME NEW q \in Procs, Busy(q)'
                 PROVE  RequestsAreOrdered!(q)!2'
      BY DEF RequestsAreOrdered
    <2>1. q = Caller
      BY <1>1, <1>4 DEF Busy, TypeOK, RequestTypeOK
    <2>2. /\ req'[Caller] = [pc |-> "locking", carry |-> <<Final>>, token |-> 0, admit |-> TRUE]
          /\ Sent(Caller)' = Final
      BY <1>1 DEF TypeOK, RequestTypeOK, Sent
    <2>3. QED
      BY <1>1, <1>2, <1>3, <2>1, <2>2
  <1>9. ScopesAreSilent'
    <2>1. \A q \in Procs : req'[q].pc # "sending"
      BY <1>1, <1>4 DEF Busy, TypeOK, RequestTypeOK
    <2>2. QED
      BY <1>1, <1>3, <2>1 DEF ScopesAreSilent, ClosedScopeIsSilent, Entering, OwnersOf, TypeOK
  <1>10. QED
    BY <1>3, <1>5, <1>6, <1>7, <1>8, <1>9

LEMMA JournalInvNext ==
  ASSUME TokenInv, JournalInv, [Next]_vars
  PROVE  JournalInv'
  <1> USE ConstantFacts
  <1>1. ASSUME NEW w \in Writes, Admit(w) PROVE JournalInv'
    <2>1. /\ UNCHANGED <<requestVars, queueVars, drive>> /\ st' \in [Updates -> WriteState]
          /\ \A v \in Updates : st'[v] # st[v] => st[v] = "new" /\ st'[v] = "admitted"
      BY <1>1 DEF Admit, Becomes, JournalInv, TypeOK, WriteState
    <2>2. TypeOK' /\ OneWriter'
      BY <2>1 DEF JournalInv, TypeOK, RequestTypeOK, requestVars, queueVars, OneWriter, Active
    <2>3. QED
      BY <2>1, <2>2, QuietKeepsJournal DEF requestVars, queueVars
  <1>2. ASSUME NEW w \in Writes, Release(w) PROVE JournalInv'
    <2>1. TypeOK' /\ OneWriter'
      BY <1>2 DEF Release, JournalInv, TypeOK, RequestTypeOK, requestVars, OneWriter, Active
    <2>2. QED
      BY <1>2, <2>1, QuietKeepsJournal DEF Release, requestVars
  <1>3. ASSUME NEW w \in Writes, NEW reserved \in BOOLEAN, Enqueue(w, reserved) PROVE JournalInv'
    BY <1>3, EnqueueKeepsJournal
  <1>4. CASE Requests
    BY <1>4, RequestKeepsJournal DEF Requests
  <1>5. CASE ScopesClose
    <2>1. /\ closed \subseteq closed' /\ closed' \subseteq Scopes
          /\ UNCHANGED <<token, lock, svc, latch, req, st, queueVars, drive>>
      BY <1>5 DEF ScopesClose, CloseScope, JournalInv, TypeOK, RequestTypeOK
    <2>2. TypeOK' /\ OneWriter'
      BY <2>1 DEF JournalInv, TypeOK, RequestTypeOK, queueVars, OneWriter, Active
    <2>3. QED
      BY <2>1, <2>2, QuietKeepsJournal DEF queueVars
  <1>6. ASSUME NEW i \in Writers, NextEntry(i) PROVE JournalInv'
    BY <1>6, NextEntryKeepsJournal
  <1>7. ASSUME NEW i \in Writers, NextWaits(i) \/ NextFindsNone(i) \/ WriterExits(i) PROVE JournalInv'
    <2>1. OneWriter' /\ running' \in BOOLEAN
      BY <1>7 DEF NextWaits, NextFindsNone, WriterExits, JournalInv, TypeOK, OneWriter, Active
    <2>2. TypeOK'
      BY <1>7, <2>1 DEF NextWaits, NextFindsNone, WriterExits, requestVars, JournalInv, TypeOK, RequestTypeOK
    <2>3. QED
      BY <1>7, <2>1, <2>2, QuietKeepsJournal DEF NextWaits, NextFindsNone, WriterExits, requestVars
  <1>8. ASSUME NEW i \in Writers, EndWrite(i) PROVE JournalInv'
    <2>1. NoRequest \in ReqType /\ NoRequest.pc = "idle"
      BY DEF NoRequest, ReqType, RequestState
    <2>2. OneWriter' /\ Busy(i)
      BY <1>8 DEF EndWrite, JournalInv, TypeOK, OneWriter, Active, Busy
    <2>3. /\ token' \in Nat /\ lock' \in Procs \cup {None} /\ running' \in BOOLEAN
          /\ writer' \in [Writers -> {"off", "next", "waiting", "writing", "ending", "gone"}]
      BY <1>8 DEF EndWrite, JournalInv, TypeOK, RequestTypeOK
    <2>4. QED
      BY <1>8, <2>1, <2>2, <2>3, EndKeepsJournal DEF EndWrite
  <1>9. ASSUME NEW i \in Writers, Unwind(i) PROVE JournalInv'
    <2>1. /\ req' = [req EXCEPT ![i] = [req[i] EXCEPT !.pc = "panicked"]]
          /\ [req[i] EXCEPT !.pc = "panicked"] \in ReqType
          /\ [req[i] EXCEPT !.pc = "panicked"].pc = "panicked"
      BY <1>9 DEF Unwind, ClientPanics, Put, TokenInv, Typed, ReqType, RequestState
    <2>2. OneWriter' /\ Busy(i)
      BY <1>9 DEF Unwind, ClientPanics, JournalInv, TypeOK, OneWriter, Active, Busy
    <2>3. /\ token' \in Nat /\ lock' \in Procs \cup {None} /\ running' \in BOOLEAN
          /\ writer' \in [Writers -> {"off", "next", "waiting", "writing", "ending", "gone"}]
      BY <1>9 DEF Unwind, ClientPanics, JournalInv, TypeOK, RequestTypeOK
    <2>4. QED
      BY <1>9, <2>1, <2>2, <2>3, EndKeepsJournal DEF Unwind, ClientPanics
  <1>10. ASSUME NEW p \in Procs, AbandonQueued(p) PROVE JournalInv'
    BY <1>10, AbandonKeepsJournal
  <1>11. CASE DriveEnds \/ DriveReturns
    <2>1. TypeOK' /\ OneWriter'
      BY <1>11 DEF DriveEnds, DriveReturns, requestVars, queueVars, JournalInv, TypeOK, RequestTypeOK,
         OneWriter, Active
    <2>2. QED
      BY <1>11, <2>1, QuietKeepsJournal DEF DriveEnds, DriveReturns, requestVars, queueVars
  <1>12. CASE WriteResult
    BY <1>12, ResultKeepsJournal
  <1>13. CASE EndResult
    <2>1. NoRequest \in ReqType /\ NoRequest.pc = "idle"
      BY DEF NoRequest, ReqType, RequestState
    <2>2. Busy(Caller) /\ ToSet(req[Caller].carry) = {Final}
      <3>1. Busy(Caller)
        BY <1>13 DEF EndResult, Busy
      <3>2. req[Caller].carry = <<Final>>
        BY <3>1 DEF JournalInv, RequestsAreOrdered
      <3>3. QED
        BY <3>1, <3>2 DEF ToSet
    <2>3. /\ OneWriter' /\ token' \in Nat /\ lock' \in Procs \cup {None} /\ running' \in BOOLEAN
          /\ writer' \in [Writers -> {"off", "next", "waiting", "writing", "ending", "gone"}]
      BY <1>13 DEF EndResult, queueVars, JournalInv, TypeOK, RequestTypeOK, OneWriter, Active
    <2>4. QED
      BY <1>13, <2>1, <2>2, <2>3, EndKeepsJournal DEF EndResult, queueVars
  <1>14. CASE UNCHANGED vars
    <2>1. TypeOK' /\ OneWriter'
      BY <1>14 DEF vars, requestVars, queueVars, JournalInv, TypeOK, RequestTypeOK, OneWriter, Active
    <2>2. QED
      BY <1>14, <2>1, QuietKeepsJournal DEF vars, requestVars, queueVars
  <1>15. QED
    BY <1>1, <1>2, <1>3, <1>4, <1>5, <1>6, <1>7, <1>8, <1>9, <1>10, <1>11, <1>12, <1>13, <1>14
       DEF Next

LEMMA JournalInvAlways == Spec => [](TokenInv /\ JournalInv)
  <1>1. Init => JournalInv
    BY JournalInvInit
  <1>2. TokenInv /\ JournalInv /\ [Next]_vars => JournalInv'
    BY JournalInvNext
  <1>3. QED
    BY <1>1, <1>2, TokenInvAlways, PTL DEF Spec

\* The queue, its writers and the history of the submissions are typed.
THEOREM WritesAreTyped == Spec => []TypeOK
  BY JournalInvAlways, PTL DEF JournalInv

\* Once an update that was submitted after a scope closed is recorded, no
\* update of that scope follows it: the admission is checked again under the
\* token lock (context.rs: checkpoint_direct_with_events, Admission::admits).
THEOREM ClosedScopesStaySilent == Spec => []ClosedScopeIsSilent
  BY JournalInvAlways, PTL DEF JournalInv, ScopesAreSilent

(***************************************************************************)
(* The refinement: each step is one of the ordered journal, or changes     *)
(* nothing that the journal knows.                                         *)
(***************************************************************************)
Resolved == {w \in Updates : st[w] = "resolved"}

LEMMA SameSets == \A s : Journal!ToSet(s) = ToSet(s)
  BY DEF Journal!ToSet, ToSet

LEMMA Stutters ==
  ASSUME UNCHANGED <<order, svc>>, latch' # latch => latch # "none" /\ latch' # "none",
         \A w \in Updates : st[w] = "resolved" <=> st'[w] = "resolved"
  PROVE  UNCHANGED Journal!journalVars
  BY DEF Journal!journalVars

LEMMA SubmitRefines ==
  ASSUME NEW w \in Updates, w \notin Entered, Entering(w), UNCHANGED <<svc, latch>>,
         \A v \in Updates : st[v] = "resolved" <=> st'[v] = "resolved"
  PROVE  Journal!JournalNext
  <1>1. Resolved' = Resolved
    BY DEF Resolved
  <1>2. Journal!Submit(w)
    BY <1>1, SameSets DEF Journal!Submit, Entered, Entering, Resolved
  <1>3. QED
    BY <1>2 DEF Journal!JournalNext

\* A request that ends with "ok" was recorded, and resolves its update.
LEMMA EndRefines ==
  ASSUME JournalInv, NEW p \in Procs, Busy(p), NEW state \in {"resolved", "dropped"},
         state = "resolved" => req[p].pc = "ok",
         st' = Becomes(ToSet(req[p].carry), state), UNCHANGED <<order, svc, latch>>
  PROVE  Journal!JournalNext \/ UNCHANGED Journal!journalVars
  <1>1. /\ req[p].carry = <<Sent(p)>> /\ Sent(p) \in Entered /\ st[Sent(p)] = "taken"
        /\ Sent(p) \in Updates
        /\ req[p].pc = "ok" => Sent(p) \in Recorded
    BY DEF JournalInv, RequestsAreOrdered, Entered, ToSet, TypeOK
  <1>2. ToSet(req[p].carry) = {Sent(p)}
    BY <1>1 DEF ToSet
  <1>3. CASE state = "dropped"
    <2>1. \A w \in Updates : st[w] = "resolved" <=> st'[w] = "resolved"
      BY <1>1, <1>2, <1>3 DEF Becomes
    <2>2. QED
      BY <2>1, Stutters
  <1>4. CASE state = "resolved"
    <2>1. PICK w \in Updates : w = Sent(p)
      BY <1>1
    <2>2. Resolved' = Resolved \cup {w}
      BY <1>1, <1>2, <1>4, <2>1 DEF Becomes, Resolved
    <2>3. Journal!Resolve({w})
      BY <1>1, <1>4, <2>1, <2>2, SameSets DEF Journal!Resolve, Resolved, Recorded
    <2>4. QED
      BY <2>3 DEF Journal!JournalNext
  <1>5. QED
    BY <1>3, <1>4

\* The service records the carried update, which is behind every recorded
\* one; a failure or a withdrawal shuts the journal.
LEMMA RequestRefines ==
  ASSUME TokenInv, JournalInv, NEW p \in Procs, RequestStep(p), UNCHANGED <<st, queueVars, drive>>
  PROVE  Journal!JournalNext \/ UNCHANGED Journal!journalVars
  <1>1. RequestShape(p)
    BY RequestStepShape DEF TokenInv, Typed
  <1>2. UNCHANGED <<order, st>>
    BY DEF queueVars
  <1>3. CASE UNCHANGED <<svc, latch>>
    BY <1>2, <1>3 DEF Journal!journalVars
  <1>4. CASE req[p].pc = "sending" /\ svc'.journal = svc.journal \o req[p].carry /\ latch' = latch
    <2>1. /\ req[p].carry = <<Sent(p)>> /\ IsBehind(Sent(p)) /\ latch = "none"
          /\ Sent(p) \in Entered /\ Sent(p) \in Updates
      BY <1>4 DEF JournalInv, RequestsAreOrdered, Busy, Entered, ToSet, TypeOK
    <2>2. svc.journal \in Seq(Updates)
      BY DEF JournalInv, TypeOK, RequestTypeOK
    <2> DEFINE ws == SubSeq(svc'.journal, Len(svc.journal) + 1, Len(svc'.journal))
    <2>3. ws = req[p].carry
      <3>1. req[p].carry \in Seq(Updates)
        BY <2>1
      <3>2. QED
        BY <1>4, <2>2, <3>1, RecordedPart
    <2> HIDE DEF ws
    <2>4. ws = <<Sent(p)>> /\ svc'.journal = svc.journal \o ws
      BY <1>4, <2>1, <2>3
    <2>5. ToSet(ws) = {Sent(p)}
      BY <2>4 DEF ToSet
    <2>6. Journal!InOrder(ws)
      BY <2>4 DEF Journal!InOrder
    <2>7. Sent(p) \in Journal!Unrecorded
      <3>1. \A w : Journal!Position(w) = At(order, w)
        BY DEF Journal!Position, At
      <3>2. \A n \in DOMAIN svc.journal : svc.journal[n] \in Recorded
        BY DEF Recorded, ToSet
      <3>3. QED
        BY <2>1, <3>1, <3>2, SameSets DEF Journal!Unrecorded, IsBehind, Entered
    <2>8. Journal!RecordRequest
      BY <1>2, <1>4, <2>1, <2>4, <2>5, <2>6, <2>7, SameSets DEF Journal!RecordRequest, ws
    <2>9. QED
      BY <2>8 DEF Journal!JournalNext
  <1>5. CASE req[p].pc \in {"sending", "accepted", "paging"} /\ latch' # "none" /\ svc' = svc
    <2>1. Journal!Shut
      BY <1>2, <1>5 DEF Journal!Shut
    <2>2. QED
      BY <2>1 DEF Journal!JournalNext
  <1>6. QED
    BY <1>1, <1>3, <1>4, <1>5 DEF RequestShape, Moves

LEMMA StepRefines ==
  ASSUME TokenInv, JournalInv, [Next]_vars
  PROVE  Journal!JournalNext \/ UNCHANGED Journal!journalVars
  <1> USE ConstantFacts
  <1>1. ASSUME NEW w \in Writes, Admit(w) PROVE UNCHANGED Journal!journalVars
    BY <1>1, Stutters DEF Admit, Becomes, requestVars, queueVars
  <1>2. ASSUME NEW w \in Writes, Release(w) PROVE UNCHANGED Journal!journalVars
    BY <1>2, Stutters DEF Release, requestVars
  <1>3. ASSUME NEW w \in Writes, NEW reserved \in BOOLEAN, Enqueue(w, reserved)
        PROVE  Journal!JournalNext \/ UNCHANGED Journal!journalVars
    <2>1. w \notin Entered /\ \A v \in Updates : st[v] = "resolved" <=> st'[v] = "resolved"
      BY <1>3 DEF Enqueue, Becomes, JournalInv, EachEntersOnce
    <2>2. CASE latch = "failed"
      BY <1>3, <2>1, <2>2, Stutters DEF Enqueue, requestVars, queueVars
    <2>3. CASE latch # "failed"
      BY <1>3, <2>1, <2>3, SubmitRefines DEF Enqueue, requestVars
    <2>4. QED
      BY <2>2, <2>3
  <1>4. CASE Requests
    BY <1>4, RequestRefines DEF Requests
  <1>5. CASE ScopesClose
    BY <1>5, Stutters DEF ScopesClose, CloseScope, queueVars
  <1>6. ASSUME NEW i \in Writers, NextEntry(i) PROVE UNCHANGED Journal!journalVars
    <2>1. st[Head(queue)] = "queued"
      <3>1. queue \in Seq(Writes) /\ queue # <<>>
        BY <1>6 DEF NextEntry, JournalInv, TypeOK
      <3>2. Head(queue) = queue[1] /\ 1 \in DOMAIN queue
        BY <3>1
      <3>3. QED
        BY <3>2 DEF JournalInv, QueueIsOrdered
    <2>2. QED
      BY <1>6, <2>1, Stutters DEF NextEntry, Becomes
  <1>7. ASSUME NEW i \in Writers, NextWaits(i) \/ NextFindsNone(i) \/ WriterExits(i)
        PROVE  UNCHANGED Journal!journalVars
    BY <1>7, Stutters DEF NextWaits, NextFindsNone, WriterExits, requestVars
  <1>8. ASSUME NEW i \in Writers, EndWrite(i)
        PROVE  Journal!JournalNext \/ UNCHANGED Journal!journalVars
    BY <1>8, EndRefines DEF EndWrite, Busy
  <1>9. ASSUME NEW i \in Writers, Unwind(i)
        PROVE  Journal!JournalNext \/ UNCHANGED Journal!journalVars
    BY <1>9, EndRefines DEF Unwind, ClientPanics, Busy
  <1>10. ASSUME NEW p \in Procs, AbandonQueued(p) PROVE UNCHANGED Journal!journalVars
    <2>1. \A w \in ToSet(queue) : st[w] = "queued"
      BY DEF JournalInv, QueueIsOrdered, ToSet
    <2>2. QED
      BY <1>10, <2>1, Stutters DEF AbandonQueued, Becomes
  <1>11. CASE DriveEnds \/ DriveReturns
    BY <1>11, Stutters DEF DriveEnds, DriveReturns, requestVars, queueVars
  <1>12. CASE WriteResult
    <2>1. Final \notin Entered /\ \A v \in Updates : st[v] = "resolved" <=> st'[v] = "resolved"
      BY <1>12 DEF WriteResult, Becomes, JournalInv, EachEntersOnce
    <2>2. QED
      BY <1>12, <2>1, SubmitRefines DEF WriteResult
  <1>13. CASE EndResult
    <2>1. Busy(Caller) /\ ToSet(req[Caller].carry) = {Final}
      <3>1. Busy(Caller)
        BY <1>13 DEF EndResult, Busy
      <3>2. req[Caller].carry = <<Final>>
        BY <3>1 DEF JournalInv, RequestsAreOrdered
      <3>3. QED
        BY <3>1, <3>2 DEF ToSet
    <2>2. QED
      BY <1>13, <2>1, EndRefines DEF EndResult, queueVars
  <1>14. CASE UNCHANGED vars
    BY <1>14, Stutters DEF vars, requestVars, queueVars
  <1>15. QED
    BY <1>1, <1>2, <1>3, <1>4, <1>5, <1>6, <1>7, <1>8, <1>9, <1>10, <1>11, <1>12, <1>13, <1>14
       DEF Next

\* The queue and its writers implement the ordered journal: the service sees
\* the updates in submission order, a caller is answered only after its update
\* is recorded, and nothing is recorded after a failure or a withdrawal
\* (context.rs: DirectWriteQueue, abandon_queued_writes).
THEOREM DirectWritesAreOrdered == Spec => ImplementsJournal
  <1>1. Init => Journal!JournalInit
    BY DEF Init, RequestInit, Journal!JournalInit
  <1>2. TokenInv /\ JournalInv /\ [Next]_vars => [Journal!JournalNext]_(Journal!journalVars)
    BY StepRefines
  <1>3. QED
    BY <1>1, <1>2, JournalInvAlways, PTL DEF Spec, ImplementsJournal, Journal!JournalSpec

==============================================================================
