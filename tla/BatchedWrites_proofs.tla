-------------------------- MODULE BatchedWrites_proofs --------------------------
(***************************************************************************)
(* Proofs about module BatchedWrites, for any updates, scopes, flushers    *)
(* and request sizes: the buffer implements the ordered journal, a closed  *)
(* scope stays silent, and the answer follows the buffer.                  *)
(***************************************************************************)
EXTENDS BatchedWrites, RequestPath_proofs

(***************************************************************************)
(* The inductive invariant.                                                *)
(***************************************************************************)
Entered == ToSet(order)
Recorded == ToSet(svc.journal)
IsBehind(w) == w \in Entered /\ \A v \in Recorded : At(order, v) < At(order, w)

Sorted(s) == \A i, j \in DOMAIN s : i < j => At(order, s[i]) < At(order, s[j])
Precedes(s, t) == \A i \in DOMAIN s, j \in DOMAIN t : At(order, s[i]) < At(order, t[j])
Ready(s) == Sorted(s) /\ \A i \in DOMAIN s : IsBehind(s[i])

Busy(p) == req[p].pc \notin {"idle", "panicked"}
Unsent(p) == req[p].pc \in {"locking", "sending"}
Claims(f) == flush[f].pc \in {"claim", "unheld", "writing"}

FlushType == [pc : FlushState, target : Nat, rest : Seq(Writes)]
Typed == TypeOK /\ flush \in [Procs -> FlushType]

\* One flusher at a time has the writer lock; only it has a request, and,
\* after the last flush, the caller that writes the result.
RequestsHaveOwners ==
  /\ \A f \in Procs :
       /\ Claims(f) => writer = f
       /\ Sending(f) => Busy(f) /\ ~ req[f].admit /\ req[f].carry \in Seq(Writes)
       /\ Busy(f) => Sending(f) \/ (f = Caller /\ drive = "flushed" /\ st[Final] = "joined"
                                    /\ req[f].carry = <<Final>>)
       /\ req[f].pc = "panicked" => f # Caller /\ flush[f].pc = "gone"
  /\ flush[Caller].pc # "off" => drive = "flushing"
  /\ drive \in {"returned", "flushing", "flushed"} => \A f \in Flushers : flush[f].pc \in {"off", "gone"}
  /\ drive \in {"flushing", "flushed"} => ~ Panicked
  /\ st[Final] # "new" => drive = "flushed"

LatchStopsRequests ==
  \A p \in Procs : /\ req[p].pc \in {"sending", "accepted", "paging"} => latch = "none"
                   /\ req[p].pc \in {"abandon", "stopped"} => latch # "none"

IsLast(b) == b \in {batch[w] : w \in Contributors} /\ \A w \in Contributors : batch[w] <= b

\* The open batch is the last one; a claimed one is older.
BatchesAreCounted ==
  /\ LastBatch \in Nat /\ IsLast(LastBatch)
  /\ \A w \in Contributors : st[w] = "new" => batch[w] = 0
  /\ open # 0 => open = LastBatch
  /\ open = 0 => pending = <<>>
  /\ \A f \in Procs : Sending(f) => /\ flush[f].target # 0 /\ flush[f].target # open
                                    /\ flush[f].target <= LastBatch

\* Where the update of a contribution is that is not settled.
UpdatesAreHeld ==
  /\ \A w \in Writes : st[w] = "joined" =>
       \/ batch[w] = open /\ open # 0 /\ w \in ToSet(pending)
       \/ \E f \in Procs : /\ Sending(f) /\ batch[w] = flush[f].target
                           /\ w \in ToSet(req[f].carry) \cup ToSet(flush[f].rest) \cup Recorded
  /\ \A p \in Procs : req[p].pc \in {"accepted", "paging", "ok"} => ToSet(req[p].carry) \subseteq Recorded
  /\ \A w \in Updates : st[w] = "resolved" => w \in Recorded
  /\ \A w \in Entered : st[w] = "dropped" => latch # "none" \/ Panicked
  /\ drive = "flushed" /\ latch = "none" => pending = <<>>

\* The journal, the request under way, the rest of its batch and the open
\* batch follow each other in the order of the joins.
OrderIsKept ==
  /\ Once(order) /\ Recorded \subseteq Entered
  /\ \A w \in Entered : st[w] # "new"
  /\ Sorted(svc.journal)
  /\ drive # "flushed" => Ready(pending)
  /\ \A p \in Procs : Unsent(p) => Ready(req[p].carry)
  /\ \A f \in Procs : Sending(f) =>
       /\ Ready(flush[f].rest) /\ Precedes(flush[f].rest, pending)
       /\ Unsent(f) => Precedes(req[f].carry, flush[f].rest) /\ Precedes(req[f].carry, pending)

\* No update joins after an update that saw one of its scopes closed.
JoinsAreSilent ==
  /\ \A w \in Updates : seen[w] \subseteq closed
  /\ \A i, j \in DOMAIN order : i < j => OwnersOf(order[j]) \cap seen[order[i]] = {}

BatchInv ==
  /\ Typed /\ RequestsHaveOwners /\ LatchStopsRequests /\ BatchesAreCounted /\ UpdatesAreHeld
  /\ OrderIsKept /\ JoinsAreSilent

(***************************************************************************)
(* Every step keeps it.                                                    *)
(***************************************************************************)
LEMMA ConstantFacts ==
  /\ Final \in Updates /\ Final \notin Writes /\ None \notin Procs
  /\ Caller \in Procs /\ Caller \notin Flushers /\ Procs = Flushers \cup {Caller}
  /\ Writes \subseteq Updates /\ Updates = Writes \cup {Final}
  /\ Refresh \notin Updates /\ Contributors = Writes \cup {Refresh} /\ Final \notin Contributors
  /\ MaxOps \in Nat \ {0}
  BY OwnersAssumption, BatchAssumption DEF Updates, Flushers, Contributors

LEMMA LastIs == ASSUME NEW b \in Nat, IsLast(b), batch \in [Contributors -> Nat] PROVE LastBatch = b
  BY DEF IsLast, LastBatch

LEMMA BatchInvInit == ASSUME Init PROVE BatchInv
  <1> USE ConstantFacts DEF Init, RequestInit
  <1>1. Typed
    <2>1. NoRequest \in ReqType /\ NoFlush \in FlushType
      BY DEF NoRequest, NoFlush, ReqType, RequestState, FlushType, FlushState
    <2>2. req \in [Procs -> ReqType] /\ flush \in [Procs -> FlushType]
      BY <2>1
    <2>3. RequestTypeOK
      BY <2>2 DEF RequestTypeOK, ReqType
    <2>4. /\ st \in [Contributors \cup {Final} -> WriteState] /\ batch \in [Contributors -> Nat]
          /\ seen \in [Updates -> SUBSET Scopes]
      BY DEF WriteState
    <2>5. pending \in Seq(Writes) /\ order \in Seq(Updates) /\ held \subseteq Writes /\ open \in Nat
      OBVIOUS
    <2>6. writer \in Procs \cup {None} /\ drive \in {"open", "cleaning", "returned", "flushing", "flushed"}
      OBVIOUS
    <2>7. QED
      BY <2>2, <2>3, <2>4, <2>5, <2>6 DEF Typed, TypeOK, FlushType
  <1>2. RequestsHaveOwners /\ LatchStopsRequests
    BY DEF RequestsHaveOwners, LatchStopsRequests, NoRequest, NoFlush, Claims, Sending, Busy, Panicked
  <1>3. BatchesAreCounted
    <2>1. IsLast(0)
      BY DEF IsLast
    <2>2. LastBatch = 0
      BY <2>1, LastIs, <1>1 DEF Typed, TypeOK
    <2>3. QED
      BY <2>1, <2>2 DEF BatchesAreCounted, NoFlush, Sending
  <1>4. Entered = {} /\ Recorded = {}
    BY DEF Entered, Recorded, ToSet
  <1>5. UpdatesAreHeld
    BY <1>4 DEF UpdatesAreHeld, NoRequest
  <1>6. OrderIsKept /\ JoinsAreSilent
    BY <1>4 DEF OrderIsKept, JoinsAreSilent, Once, Sorted, Ready, Unsent, Sending, NoRequest, NoFlush
  <1>7. QED
    BY <1>1, <1>2, <1>3, <1>5, <1>6 DEF BatchInv

LEMMA OneRequest ==
  ASSUME BatchInv, NEW p \in Procs, NEW q \in Procs, Busy(p), Busy(q)
  PROVE  p = q
  <1>1. \A f \in Procs : Busy(f) /\ ~ Sending(f) => f = Caller /\ drive = "flushed"
    BY DEF BatchInv, RequestsHaveOwners
  <1>2. \A f \in Procs : Sending(f) => writer = f /\ drive # "flushed"
    BY ConstantFacts DEF BatchInv, RequestsHaveOwners, Claims, Sending
  <1>3. QED
    BY <1>1, <1>2

\* Steps that move no update and no request.
LEMMA QuietKeepsBatch ==
  ASSUME BatchInv, Typed', RequestsHaveOwners',
         UNCHANGED <<st, order, seen, pending, batch, open, svc, req, latch>>,
         closed \subseteq closed',
         \A f \in Procs : (Sending(f)' <=> Sending(f)) /\ (Sending(f) => flush'[f] = flush[f]),
         drive = "flushed" => drive' = "flushed",
         drive' = "flushed" => drive = "flushed" \/ pending = <<>>
  PROVE  BatchInv'
  <1> USE DEF BatchInv
  <1>1. Entered' = Entered /\ Recorded' = Recorded /\ (Panicked' <=> Panicked) /\ LastBatch' = LastBatch
    BY DEF Entered, Recorded, Panicked, LastBatch
  <1>2. LatchStopsRequests'
    BY DEF LatchStopsRequests
  <1>3. BatchesAreCounted'
    BY <1>1 DEF BatchesAreCounted, IsLast
  <1>4. UpdatesAreHeld'
    BY <1>1 DEF UpdatesAreHeld
  <1>5. OrderIsKept'
    BY <1>1 DEF OrderIsKept, Sorted, Ready, IsBehind, Precedes, Unsent
  <1>6. JoinsAreSilent'
    BY DEF JoinsAreSilent, OwnersOf
  <1>7. QED
    BY <1>2, <1>3, <1>4, <1>5, <1>6

LEMMA SortedConcat ==
  ASSUME NEW S, NEW s \in Seq(S), NEW t \in Seq(S), Sorted(s), Sorted(t), Precedes(s, t)
  PROVE  Sorted(s \o t)
  <1> DEFINE c == s \o t
  <1>1. /\ DOMAIN c = 1 .. Len(s) + Len(t) /\ DOMAIN s = 1 .. Len(s) /\ DOMAIN t = 1 .. Len(t)
        /\ Len(s) \in Nat /\ Len(t) \in Nat
        /\ \A n \in DOMAIN s : c[n] = s[n]
        /\ \A n \in DOMAIN c : n > Len(s) => n - Len(s) \in DOMAIN t /\ c[n] = t[n - Len(s)]
    OBVIOUS
  <1> HIDE DEF c
  <1>2. ASSUME NEW i \in DOMAIN c, NEW j \in DOMAIN c, i < j PROVE At(order, c[i]) < At(order, c[j])
    <2>1. CASE j \in DOMAIN s
      BY <1>1, <1>2, <2>1 DEF Sorted
    <2>2. CASE i \in DOMAIN s /\ j > Len(s)
      BY <1>1, <1>2, <2>2 DEF Precedes
    <2>3. CASE i > Len(s)
      <3>1. j > Len(s) /\ i - Len(s) < j - Len(s)
        BY <1>1, <1>2, <2>3
      <3>2. QED
        BY <1>1, <1>2, <2>3, <3>1 DEF Sorted
    <2>4. QED
      BY <1>1, <1>2, <2>1, <2>2, <2>3
  <1>3. QED
    BY <1>2 DEF Sorted, c

\* What a request does to the rest, when the service does not record it.
LEMMA RequestKeepsBatch ==
  ASSUME BatchInv, NEW p \in Procs, RequestStep(p),
         UNCHANGED <<st, bufferVars, writer, flush, drive>>
  PROVE  BatchInv'
  <1> USE ConstantFacts DEF BatchInv
  <1>0. RequestShape(p)
    <2>1. req \in [Procs -> ReqType] /\ token \in Nat /\ svc.token \in Nat
      BY DEF Typed, TypeOK, RequestTypeOK, ReqType
    <2>2. QED
      BY <2>1, RequestStepShape
  <1>1. UNCHANGED <<st, order, seen, pending, batch, open, held, writer, flush, drive>>
    BY DEF bufferVars
  <1>2. req[p].pc \in {"locking", "sending", "accepted", "paging"} /\ Busy(p) /\ Busy(p)'
    BY <1>0 DEF RequestShape, Moves, Busy
  <1>3. /\ req[p].carry \in Seq(Updates) /\ svc.journal \in Seq(Updates) /\ req'[p].carry = req[p].carry
        /\ \A q \in Procs \ {p} : req'[q] = req[q] /\ ~ Busy(q)
    BY <1>0, <1>2, OneRequest DEF RequestShape, Typed, TypeOK, RequestTypeOK
  <1>4. /\ \A f \in Procs : Sending(f)' <=> Sending(f)
        /\ \A f \in Procs : Sending(f) => f = p
        /\ drive # "flushed" => Sending(p)
    BY <1>1, <1>2, <1>3 DEF Sending, RequestsHaveOwners
  <1>5. /\ Entered' = Entered /\ LastBatch' = LastBatch /\ (Panicked' <=> Panicked)
        /\ latch # "none" => latch' # "none"
    <2>1. latch # "none" => latch' # "none"
      BY <1>0, <1>2 DEF RequestShape, Moves, LatchStopsRequests
    <2>2. \A q \in Procs : req'[q].pc = "panicked" <=> req[q].pc = "panicked"
      BY <1>2, <1>3 DEF Busy
    <2>3. QED
      BY <1>1, <2>1, <2>2 DEF Entered, LastBatch, Panicked
  <1>14. /\ svc.journal \o req[p].carry \in Seq(Updates)
        /\ ToSet(svc.journal \o req[p].carry) = Recorded \cup ToSet(req[p].carry)
    BY <1>3, ToSetConcat DEF Recorded
  <1>15. req[p].pc = "sending" /\ req'[p].pc = "accepted" => svc'.journal = svc.journal \o req[p].carry
    BY <1>0 DEF RequestShape, Moves
  <1>16. svc'.journal = svc.journal \/ (req[p].pc = "sending" /\ req'[p].pc = "accepted")
    BY <1>0 DEF RequestShape, Moves
  <1>6. \/ svc'.journal = svc.journal /\ Recorded' = Recorded
        \/ /\ req[p].pc = "sending" /\ req'[p].pc = "accepted"
           /\ svc'.journal = svc.journal \o req[p].carry
           /\ Recorded' = Recorded \cup ToSet(req[p].carry)
    BY <1>14, <1>15, <1>16 DEF Recorded
  <1>7. Typed'
    <2>1. svc'.journal \in Seq(Updates)
      BY <1>3, <1>6, <1>14
    <2>2. token' \in Nat /\ svc'.token \in Nat /\ lock' \in Procs \cup {None}
      BY RequestStepTypes DEF Typed, TypeOK, RequestTypeOK
    <2>3. latch' \in {"none", "failed", "withdrawn"} /\ closed' \subseteq Scopes
      BY <1>0 DEF RequestShape, Typed, TypeOK, RequestTypeOK
    <2>4. RequestTypeOK'
      BY <1>0, <2>1, <2>2, <2>3 DEF RequestTypeOK, RequestShape, ReqType
    <2>5. QED
      BY <1>1, <2>4 DEF Typed, TypeOK
  <1>8. RequestsHaveOwners'
    BY <1>0, <1>1, <1>2, <1>3, <1>4, <1>5 DEF RequestsHaveOwners, RequestShape, Claims, Sending, Busy
  <1>9. LatchStopsRequests'
    <2>1. \A q \in Procs : q # p => req'[q].pc \in {"idle", "panicked"}
      BY <1>3 DEF Busy
    <2>2. /\ req'[p].pc \in {"sending", "accepted", "paging"} => latch' = "none"
          /\ req'[p].pc \in {"abandon", "stopped"} => latch' # "none"
      BY <1>0 DEF RequestShape, Moves, LatchStopsRequests
    <2>3. QED
      BY <2>1, <2>2 DEF LatchStopsRequests
  <1>10. BatchesAreCounted'
    BY <1>1, <1>4, <1>5 DEF BatchesAreCounted, IsLast
  <1>11. UpdatesAreHeld'
    <2>1. Recorded \subseteq Recorded'
      BY <1>6
    <2>2. ASSUME NEW w \in Writes, st[w] = "joined"
          PROVE \/ batch[w] = open /\ open # 0 /\ w \in ToSet(pending)
                \/ \E f \in Procs : /\ Sending(f) /\ batch[w] = flush[f].target
                                     /\ w \in ToSet(req'[f].carry) \cup ToSet(flush[f].rest) \cup Recorded'
      BY <1>3, <1>4, <2>1, <2>2 DEF UpdatesAreHeld
    <2>3. ASSUME NEW q \in Procs, req'[q].pc \in {"accepted", "paging", "ok"}
          PROVE  ToSet(req'[q].carry) \subseteq Recorded'
      <3>1. q = p
        BY <1>3, <2>3 DEF Busy
      <3>2. req[p].pc = "sending" => Recorded' = Recorded \cup ToSet(req[p].carry)
        BY <1>0, <1>14, <1>15, <2>3, <3>1 DEF RequestShape, Moves, Recorded
      <3>3. req[p].pc \in {"sending", "accepted", "paging"}
        BY <1>0, <2>3, <3>1 DEF RequestShape, Moves
      <3>4. QED
        BY <1>3, <2>1, <3>1, <3>2, <3>3 DEF UpdatesAreHeld
    <2>4. drive' = "flushed" /\ latch' = "none" => pending' = <<>>
      BY <1>1, <1>5 DEF UpdatesAreHeld
    <2>5. QED
      BY <1>1, <1>4, <1>5, <2>1, <2>2, <2>3, <2>4 DEF UpdatesAreHeld
  <1>12. OrderIsKept'
    <2>1. CASE svc'.journal = svc.journal
      <3>1. Recorded' = Recorded
        BY <2>1 DEF Recorded
      <3>2. \A q \in Procs : Unsent(q)' => q = p /\ Unsent(p)
        BY <1>0, <1>2, <1>3 DEF RequestShape, Moves, Unsent, Busy
      <3>3. QED
        BY <1>1, <1>3, <1>4, <1>5, <2>1, <3>1, <3>2
           DEF OrderIsKept, Sorted, Ready, IsBehind, Precedes
    <2>2. CASE /\ req[p].pc = "sending" /\ req'[p].pc = "accepted"
               /\ svc'.journal = svc.journal \o req[p].carry
               /\ Recorded' = Recorded \cup ToSet(req[p].carry)
      <3>1. Unsent(p) /\ Ready(req[p].carry) /\ \A q \in Procs : ~ Unsent(q)'
        BY <1>3, <2>2 DEF Unsent, OrderIsKept, Busy
      <3>2. ToSet(req[p].carry) \subseteq Entered
        BY <3>1 DEF Ready, IsBehind, ToSet
      <3>3. Sorted(svc.journal \o req[p].carry)
        <4>1. Precedes(svc.journal, req[p].carry)
          BY <3>1 DEF Precedes, Ready, IsBehind, Recorded, ToSet
        <4>2. QED
          BY <1>3, <3>1, <4>1, SortedConcat DEF OrderIsKept, Ready
      <3>4. Sorted(svc.journal)'
        BY <1>1, <2>2, <3>3 DEF Sorted
      <3>5. drive # "flushed" => Ready(pending)'
        <4>1. ASSUME drive # "flushed", NEW i \in DOMAIN pending PROVE IsBehind(pending[i])'
          <5>1. IsBehind(pending[i]) /\ Precedes(req[p].carry, pending)
            BY <1>4, <3>1, <4>1 DEF OrderIsKept, Ready
          <5>2. \A v \in ToSet(req[p].carry) : At(order, v) < At(order, pending[i])
            BY <4>1, <5>1 DEF Precedes, ToSet
          <5>3. QED
            BY <1>1, <1>5, <2>2, <5>1, <5>2 DEF IsBehind
        <4>2. QED
          BY <1>1, <4>1 DEF Ready, Sorted, OrderIsKept
      <3>6. ASSUME NEW f \in Procs, Sending(f)
            PROVE  Ready(flush[f].rest)' /\ Precedes(flush[f].rest, pending)'
        <4>1. f = p /\ Ready(flush[p].rest) /\ Precedes(req[p].carry, flush[p].rest)
              /\ Precedes(flush[p].rest, pending)
          BY <1>4, <3>1, <3>6 DEF OrderIsKept
        <4>2. ASSUME NEW i \in DOMAIN flush[p].rest PROVE IsBehind(flush[p].rest[i])'
          <5>1. \A v \in ToSet(req[p].carry) : At(order, v) < At(order, flush[p].rest[i])
            BY <4>1, <4>2 DEF Precedes, ToSet
          <5>2. QED
            BY <1>1, <1>5, <2>2, <4>1, <4>2, <5>1 DEF IsBehind, Ready
        <4>3. QED
          BY <1>1, <4>1, <4>2 DEF Ready, Sorted, Precedes
      <3>7. QED
        BY <1>1, <1>4, <1>5, <2>2, <3>1, <3>2, <3>4, <3>5, <3>6 DEF OrderIsKept
    <2>3. QED
      BY <1>6, <2>1, <2>2
  <1>13. JoinsAreSilent'
    BY <1>0, <1>1 DEF JoinsAreSilent, OwnersOf, RequestShape
  <1>17. QED
    BY <1>7, <1>8, <1>9, <1>10, <1>11, <1>12, <1>13

\* A rejected contribution never entered the order.
LEMMA RejectedKeepsBatch ==
  ASSUME BatchInv, NEW w \in Contributors, st[w] = "new", Rejected(w),
         UNCHANGED <<requestVars, writer, drive>>
  PROVE  BatchInv'
  <1> USE ConstantFacts DEF BatchInv
  <1>1. /\ UNCHANGED <<requestVars, order, seen, pending, batch, open, held, writer, flush, drive>>
        /\ st' \in [Contributors \cup {Final} -> WriteState] /\ st'[w] = "dropped"
        /\ \A v \in Contributors \cup {Final} : v # w => st'[v] = st[v]
    BY DEF Rejected, Becomes, bufferVars, Typed, TypeOK, WriteState
  <1> USE DEF requestVars
  <1>2. /\ Entered' = Entered /\ Recorded' = Recorded /\ (Panicked' <=> Panicked)
        /\ LastBatch' = LastBatch /\ w \notin Entered /\ Entered \subseteq Updates
        /\ \A f \in Procs : Sending(f)' <=> Sending(f)
    BY <1>1 DEF Entered, Recorded, Panicked, LastBatch, Sending, OrderIsKept, ToSet, Typed, TypeOK
  <1>3. Typed'
    BY <1>1 DEF Typed, TypeOK, RequestTypeOK
  <1>4. RequestsHaveOwners' /\ LatchStopsRequests'
    BY <1>1, <1>2 DEF RequestsHaveOwners, LatchStopsRequests, Claims, Sending, Busy
  <1>5. BatchesAreCounted'
    BY <1>1, <1>2 DEF BatchesAreCounted, IsLast
  <1>6. UpdatesAreHeld'
    BY <1>1, <1>2 DEF UpdatesAreHeld
  <1>7. OrderIsKept'
    BY <1>1, <1>2 DEF OrderIsKept, Sorted, Ready, IsBehind, Precedes, Unsent
  <1>8. JoinsAreSilent'
    BY <1>1 DEF JoinsAreSilent, OwnersOf
  <1>9. QED
    BY <1>3, <1>4, <1>5, <1>6, <1>7, <1>8

\* An update enters the order, behind everything that was submitted.
LEMMA EntryKeepsOrder ==
  ASSUME BatchInv, NEW w \in Updates, w \notin Entered, order' = Append(order, w), svc' = svc
  PROVE  /\ order' \in Seq(Updates) /\ Once(order') /\ Entered' = Entered \cup {w} /\ Recorded' = Recorded
         /\ \A v \in Entered : At(order', v) = At(order, v) /\ At(order, v) < At(order', w)
         /\ \A v \in Entered : IsBehind(v) => IsBehind(v)'
         /\ IsBehind(w)' /\ Sorted(svc.journal)'
         /\ DOMAIN order' = 1 .. Len(order) + 1 /\ DOMAIN order = 1 .. Len(order) /\ Len(order) \in Nat
         /\ \A n \in DOMAIN order : order'[n] = order[n] /\ order[n] \in Entered
         /\ order'[Len(order) + 1] = w
  <1> USE DEF BatchInv, Typed, TypeOK, RequestTypeOK, Entered
  <1>1. Once(order) /\ Recorded \subseteq Entered
    BY DEF OrderIsKept
  <1>2. /\ order' \in Seq(Updates) /\ Once(order') /\ Entered' = Entered \cup {w}
        /\ \A v \in Entered : At(order', v) = At(order, v) /\ At(order, v) < At(order', w)
    BY <1>1, AtAppend
  <1>3. Recorded' = Recorded
    BY DEF Recorded
  <1>4. \A v \in Entered : IsBehind(v) => IsBehind(v)'
    BY <1>1, <1>2, <1>3 DEF IsBehind
  <1>5. IsBehind(w)'
    BY <1>1, <1>2, <1>3 DEF IsBehind
  <1>6. Sorted(svc.journal)'
    <2>1. \A n \in DOMAIN svc.journal : svc.journal[n] \in Entered
      BY <1>1 DEF Recorded, ToSet
    <2>2. QED
      BY <1>2, <2>1 DEF Sorted, OrderIsKept
  <1>7. /\ DOMAIN order' = 1 .. Len(order) + 1 /\ DOMAIN order = 1 .. Len(order) /\ Len(order) \in Nat
        /\ \A n \in DOMAIN order : order'[n] = order[n] /\ order[n] \in Entered
        /\ order'[Len(order) + 1] = w
    BY DEF ToSet
  <1>8. QED
    BY <1>2, <1>3, <1>4, <1>5, <1>6, <1>7

\* The batch a contribution joins becomes the last one.
LEMMA JoinCountsBatch ==
  ASSUME BatchInv, NEW w \in Contributors, st[w] = "new",
         NEW b, b = IF open = 0 THEN LastBatch + 1 ELSE open,
         batch' = [batch EXCEPT ![w] = b]
  PROVE  /\ b \in Nat \ {0} /\ LastBatch <= b /\ batch' \in [Contributors -> Nat]
         /\ IsLast(b)' /\ LastBatch' = b
  <1> USE DEF BatchInv, Typed, TypeOK, BatchesAreCounted
  <1>1. b \in Nat \ {0} /\ LastBatch <= b
    OBVIOUS
  <1>2. batch' \in [Contributors -> Nat] /\ batch'[w] = b
        /\ \A v \in Contributors : v # w => batch'[v] = batch[v]
    BY <1>1
  <1>3. IsLast(b)'
    BY <1>1, <1>2 DEF IsLast
  <1>4. \A c : c \in {batch'[v] : v \in Contributors} /\ (\A v \in Contributors : batch'[v] <= c) => c = b
    BY <1>1, <1>2, <1>3 DEF IsLast
  <1>5. LastBatch' = b
    BY <1>3, <1>4 DEF IsLast, LastBatch
  <1>6. QED
    BY <1>1, <1>2, <1>3, <1>5

LEMMA JoinKeepsBatch ==
  ASSUME BatchInv, NEW w \in Contributors, st[w] = "new", drive = "open", latch = "none",
         NEW urgent \in BOOLEAN, NEW reserve \in BOOLEAN, w = Refresh => ~ reserve,
         w # Refresh => AdmittedByScopes(<<w>>),
         NEW b, b = IF open = 0 THEN LastBatch + 1 ELSE open,
         JoinsBatch(w, b, urgent, reserve), UNCHANGED <<requestVars, writer, drive>>
  PROVE  BatchInv'
  <1> USE ConstantFacts DEF BatchInv
  <1>1. /\ st' = Becomes({w}, "joined") /\ batch' = [batch EXCEPT ![w] = b] /\ open' = b
        /\ held' = IF reserve THEN held \cup {w} ELSE held
        /\ UNCHANGED <<token, lock, svc, latch, closed, req, writer, drive>>
    BY DEF JoinsBatch, requestVars
  <1>2. /\ b \in Nat \ {0} /\ LastBatch <= b /\ batch' \in [Contributors -> Nat]
        /\ IsLast(b)' /\ LastBatch' = b
    BY <1>1, JoinCountsBatch
  <1>3. /\ st' \in [Contributors \cup {Final} -> WriteState] /\ st'[w] = "joined"
        /\ \A v \in Contributors \cup {Final} : v # w => st'[v] = st[v]
        /\ batch'[w] = b /\ \A v \in Contributors : v # w => batch'[v] = batch[v]
    BY <1>1 DEF Becomes, Typed, TypeOK, WriteState
  <1>4. /\ flush' \in [Procs -> FlushType]
        /\ \A f \in Procs : flush'[f] # flush[f] =>
             f \in Flushers /\ flush[f].pc = "off" /\ flush'[f].pc \in {"lock", "window"}
    <2>1. CASE UNCHANGED flush
      BY <2>1 DEF Typed
    <2>2. ASSUME NEW pc \in {"lock", "window"}, Spawns(pc, b)
          PROVE  <1>4
      <3>1. PICK f \in Flushers : /\ flush[f].pc = "off"
                                  /\ flush' = [flush EXCEPT ![f] = [pc |-> pc, target |-> b, rest |-> <<>>]]
        BY <2>2 DEF Spawns
      <3>2. [pc |-> pc, target |-> b, rest |-> <<>>] \in FlushType
        BY <1>2 DEF FlushType, FlushState
      <3>3. QED
        BY <3>1, <3>2 DEF Typed
    <2>3. QED
      BY <2>1, <2>2 DEF JoinsBatch
  <1>5. /\ Recorded' = Recorded /\ (Panicked' <=> Panicked) /\ Entered \subseteq Updates
        /\ w \notin Entered /\ Recorded \subseteq Entered
        /\ \A f \in Procs : Sending(f)' <=> Sending(f)
        /\ \A f \in Procs : Sending(f) => flush'[f] = flush[f]
    <2>1. Recorded' = Recorded /\ (Panicked' <=> Panicked)
      BY <1>1 DEF Recorded, Panicked
    <2>2. Entered \subseteq Updates /\ w \notin Entered /\ Recorded \subseteq Entered
      BY DEF Entered, OrderIsKept, ToSet, Typed, TypeOK
    <2>3. \A f \in Procs : (Sending(f)' <=> Sending(f)) /\ (Sending(f) => flush'[f] = flush[f])
      BY <1>4 DEF Sending
    <2>4. QED
      BY <2>1, <2>2, <2>3
  <1>6. RequestsHaveOwners' /\ LatchStopsRequests'
    <2>1. \A f \in Procs : Claims(f)' <=> Claims(f)
      BY <1>4 DEF Claims
    <2>2. st'[Final] = st[Final]
      BY <1>3
    <2>3. QED
      BY <1>1, <1>4, <1>5, <2>1, <2>2 DEF RequestsHaveOwners, LatchStopsRequests, Busy
  <1>7. /\ \A w1 \in Contributors : st'[w1] = "new" => batch'[w1] = 0
        /\ \A f \in Procs : Sending(f)' => /\ flush'[f].target # 0 /\ flush'[f].target # open'
                                          /\ flush'[f].target <= LastBatch'
    <2>1. \A w1 \in Contributors : st'[w1] = "new" => batch'[w1] = 0
      BY <1>3 DEF BatchesAreCounted
    <2>2. ASSUME NEW f \in Procs, Sending(f)
          PROVE  flush[f].target # 0 /\ flush[f].target # b /\ flush[f].target <= b
      <3>1. flush[f].target \in Nat /\ LastBatch \in Nat /\ open \in Nat
        BY DEF Typed, FlushType, BatchesAreCounted, TypeOK
      <3>2. QED
        BY <1>2, <2>2, <3>1 DEF BatchesAreCounted
    <2>3. QED
      BY <1>1, <1>2, <1>5, <2>1, <2>2
  <1>8. BatchesAreCounted'
    BY <1>1, <1>2, <1>7 DEF BatchesAreCounted
  <1>9. ASSUME NEW v \in Writes, v # w, st'[v] = "joined"
        PROVE  \/ batch'[v] = open' /\ open' # 0 /\ v \in ToSet(pending)
               \/ \E f \in Procs : /\ Sending(f)' /\ batch'[v] = flush'[f].target
                                    /\ v \in ToSet(req'[f].carry) \cup ToSet(flush'[f].rest) \cup Recorded'
    BY ZenonT(30), <1>1, <1>2, <1>3, <1>5, <1>9 DEF UpdatesAreHeld, BatchesAreCounted
  <1>10. CASE w = Refresh
    <2>1. UNCHANGED <<pending, order, seen>> /\ Entered' = Entered
      BY <1>10 DEF JoinsBatch, Entered
    <2>2. held' \subseteq Writes
      BY <1>1, <1>10 DEF Typed, TypeOK
    <2>3. Typed'
      BY ZenonT(30), <1>1, <1>2, <1>3, <1>4, <2>1, <2>2 DEF Typed, TypeOK, RequestTypeOK, FlushType
    <2>4. UpdatesAreHeld'
      <3>1. \A v \in Writes : v # w /\ v \in Contributors
        BY <1>10
      <3>2. \A v \in Updates : st'[v] = st[v]
        BY <1>3, <1>10
      <3>3. QED
        BY ZenonT(30), <1>1, <1>5, <1>9, <2>1, <3>1, <3>2 DEF UpdatesAreHeld
    <2>5. OrderIsKept'
      <3>1. \A v \in Entered' : st'[v] # "new"
        BY <1>3, <1>5, <2>1 DEF OrderIsKept
      <3>2. \A v : IsBehind(v)' <=> IsBehind(v)
        BY <1>5, <2>1 DEF IsBehind
      <3>3. drive' # "flushed" => Ready(pending)'
        BY <1>1, <2>1, <3>2 DEF OrderIsKept, Ready, Sorted
      <3>4. \A q \in Procs : Unsent(q)' => Ready(req[q].carry)'
        BY <1>1, <2>1, <3>2 DEF OrderIsKept, Ready, Sorted, Unsent
      <3>5. ASSUME NEW f \in Procs, Sending(f)
            PROVE  /\ Ready(flush[f].rest)' /\ Precedes(flush[f].rest, pending)'
                   /\ Unsent(f) => Precedes(req[f].carry, flush[f].rest)' /\ Precedes(req[f].carry, pending)'
        BY <1>1, <1>5, <2>1, <3>2, <3>5 DEF OrderIsKept, Ready, Sorted, Precedes
      <3>6. Once(order)' /\ Recorded' \subseteq Entered' /\ Sorted(svc.journal)'
        BY <1>1, <1>5, <2>1 DEF OrderIsKept, Once, Sorted
      <3>7. QED
        BY <1>1, <1>5, <3>1, <3>3, <3>4, <3>5, <3>6 DEF OrderIsKept, Unsent
    <2>6. JoinsAreSilent'
      BY <1>1, <2>1 DEF JoinsAreSilent, OwnersOf
    <2>7. QED
      BY <1>6, <1>8, <2>3, <2>4, <2>5, <2>6
  <1>11. CASE w \in Writes
    <2>1. /\ pending' = Append(pending, w) /\ order' = Append(order, w)
          /\ seen' = [seen EXCEPT ![w] = closed]
      BY <1>11 DEF JoinsBatch
    <2>2. /\ order' \in Seq(Updates) /\ Once(order') /\ Entered' = Entered \cup {w} /\ Recorded' = Recorded
          /\ \A v \in Entered : At(order', v) = At(order, v) /\ At(order, v) < At(order', w)
          /\ \A v \in Entered : IsBehind(v) => IsBehind(v)'
          /\ IsBehind(w)' /\ Sorted(svc.journal)'
          /\ DOMAIN order' = 1 .. Len(order) + 1 /\ DOMAIN order = 1 .. Len(order) /\ Len(order) \in Nat
          /\ \A n \in DOMAIN order : order'[n] = order[n] /\ order[n] \in Entered
          /\ order'[Len(order) + 1] = w
      BY <1>1, <1>5, <1>11, <2>1, EntryKeepsOrder
    <2>3. /\ pending' \in Seq(Writes) /\ DOMAIN pending' = 1 .. Len(pending) + 1
          /\ DOMAIN pending = 1 .. Len(pending) /\ Len(pending) \in Nat
          /\ \A n \in DOMAIN pending : pending'[n] = pending[n]
          /\ pending'[Len(pending) + 1] = w
      BY <1>11, <2>1 DEF Typed, TypeOK
    <2>4. ToSet(pending') = ToSet(pending) \cup {w}
      <3>1. DOMAIN pending' = DOMAIN pending \cup {Len(pending) + 1}
        BY <2>3
      <3>2. QED
        BY <2>3, <3>1 DEF ToSet
    <2>5. Typed'
      <3>1. seen' \in [Updates -> SUBSET Scopes] /\ held' \subseteq Writes
        BY <1>1, <1>11, <2>1 DEF Typed, TypeOK, RequestTypeOK
      <3>2. QED
        BY ZenonT(30), <1>1, <1>2, <1>3, <1>4, <2>2, <2>3, <3>1 DEF Typed, TypeOK, RequestTypeOK, FlushType
    <2>6. UpdatesAreHeld'
      <3>1. \A v \in Updates : v # w => st'[v] = st[v]
        BY <1>3
      <3>2. \A v \in Writes : st'[v] = "joined" =>
              \/ batch'[v] = open' /\ open' # 0 /\ v \in ToSet(pending')
              \/ \E f \in Procs : /\ Sending(f)' /\ batch'[v] = flush'[f].target
                                   /\ v \in ToSet(req'[f].carry) \cup ToSet(flush'[f].rest) \cup Recorded'
        BY <1>1, <1>2, <1>3, <1>9, <2>4
      <3>3. QED
        <4>1. \A v \in Updates : st'[v] = "resolved" => v \in Recorded'
          BY <1>3, <1>5, <3>1 DEF UpdatesAreHeld
        <4>2. \A v \in Entered' : st'[v] # "dropped" \/ latch' # "none" \/ Panicked'
          <5>1. \A v \in Entered : v # w /\ st'[v] = st[v]
            BY <1>5, <3>1
          <5>2. st'[w] # "dropped"
            BY <1>3
          <5>3. \A v \in Entered : st[v] # "dropped" \/ Panicked
            BY DEF UpdatesAreHeld
          <5>4. QED
            BY <1>5, <2>2, <5>1, <5>2, <5>3
        <4>3. \A p \in Procs : req'[p].pc \in {"accepted", "paging", "ok"} =>
                               ToSet(req'[p].carry) \subseteq Recorded'
          BY <1>1, <1>5 DEF UpdatesAreHeld
        <4>4. QED
          BY <1>1, <3>2, <4>1, <4>2, <4>3 DEF UpdatesAreHeld
    <2>7. OrderIsKept'
      <3>1. Ready(pending) /\ \A n \in DOMAIN pending : pending[n] \in Entered
        BY DEF OrderIsKept, Ready, IsBehind
      <3>2. Ready(pending)'
        <4>1. ASSUME NEW i \in DOMAIN pending' PROVE IsBehind(pending[i])'
          <5>1. CASE i \in DOMAIN pending
            BY <2>2, <2>3, <3>1, <5>1 DEF Ready, IsBehind
          <5>2. CASE i = Len(pending) + 1
            BY <2>2, <2>3, <5>2 DEF IsBehind
          <5>3. QED
            BY <2>3, <5>1, <5>2
        <4>2. ASSUME NEW i \in DOMAIN pending', NEW j \in DOMAIN pending', i < j
              PROVE  At(order', pending'[i]) < At(order', pending'[j])
          <5>1. i \in DOMAIN pending /\ (j \in DOMAIN pending \/ j = Len(pending) + 1)
            BY <2>3, <4>2
          <5>2. CASE j \in DOMAIN pending
            BY <2>2, <2>3, <3>1, <4>2, <5>1, <5>2 DEF Ready, Sorted
          <5>3. CASE j = Len(pending) + 1
            BY <2>2, <2>3, <3>1, <5>1, <5>3
          <5>4. QED
            BY <5>1, <5>2, <5>3
        <4>3. QED
          BY <4>1, <4>2 DEF Ready, Sorted
      <3>3. ASSUME NEW q \in Procs, Unsent(q) PROVE Ready(req[q].carry)'
        <4>1. Ready(req[q].carry) /\ \A n \in DOMAIN req[q].carry : req[q].carry[n] \in Entered
          BY <3>3 DEF OrderIsKept, Ready, IsBehind
        <4>2. QED
          BY <1>1, <2>2, <4>1 DEF Ready, Sorted, IsBehind
      <3>4. ASSUME NEW f \in Procs, Sending(f)
            PROVE  /\ Ready(flush[f].rest)' /\ Precedes(flush[f].rest, pending)'
                   /\ Unsent(f) => Precedes(req[f].carry, flush[f].rest)' /\ Precedes(req[f].carry, pending)'
        <4>1. /\ Ready(flush[f].rest) /\ Precedes(flush[f].rest, pending) /\ flush'[f] = flush[f]
              /\ \A n \in DOMAIN flush[f].rest : flush[f].rest[n] \in Entered
          BY <1>5, <3>4 DEF OrderIsKept, Ready, IsBehind
        <4>2. Ready(flush[f].rest)'
          BY <2>2, <4>1 DEF Ready, Sorted, IsBehind
        <4>3. Precedes(flush[f].rest, pending)'
          <5> SUFFICES ASSUME NEW i \in DOMAIN flush[f].rest, NEW j \in DOMAIN pending'
                       PROVE  At(order', flush[f].rest[i]) < At(order', pending'[j])
            BY <4>1 DEF Precedes
          <5>1. CASE j \in DOMAIN pending
            BY <2>2, <2>3, <3>1, <4>1, <5>1 DEF Precedes
          <5>2. CASE j = Len(pending) + 1
            BY <2>2, <2>3, <4>1, <5>2
          <5>3. QED
            BY <2>3, <5>1, <5>2
        <4>4. ASSUME Unsent(f)
              PROVE  Precedes(req[f].carry, flush[f].rest)' /\ Precedes(req[f].carry, pending)'
          <5>1. /\ Precedes(req[f].carry, flush[f].rest) /\ Precedes(req[f].carry, pending)
                /\ \A n \in DOMAIN req[f].carry : req[f].carry[n] \in Entered
            BY <3>4, <4>4 DEF OrderIsKept, Ready, IsBehind
          <5>2. Precedes(req[f].carry, flush[f].rest)'
            BY <1>1, <2>2, <4>1, <5>1 DEF Precedes
          <5>3. ASSUME NEW i \in DOMAIN req[f].carry, NEW j \in DOMAIN pending'
                PROVE  At(order', req[f].carry[i]) < At(order', pending'[j])
            <6>1. CASE j \in DOMAIN pending
              BY <2>2, <2>3, <3>1, <5>1, <6>1 DEF Precedes
            <6>2. CASE j = Len(pending) + 1
              BY <2>2, <2>3, <5>1, <6>2
            <6>3. QED
              BY <2>3, <6>1, <6>2
          <5>4. QED
            BY <1>1, <5>2, <5>3 DEF Precedes
        <4>5. QED
          BY <4>2, <4>3, <4>4
      <3>5. \A v \in Entered' : st'[v] # "new"
        BY <1>3, <1>5, <2>2 DEF OrderIsKept
      <3>6. \A q \in Procs : Unsent(q)' <=> Unsent(q)
        BY <1>1 DEF Unsent
      <3>7. QED
        BY <1>5, <2>2, <3>2, <3>3, <3>4, <3>5, <3>6 DEF OrderIsKept
    <2>8. JoinsAreSilent'
      <3>1. \A v \in Updates : seen'[v] \subseteq closed'
        BY <1>1, <2>1 DEF JoinsAreSilent, Typed, TypeOK
      <3>2. OwnersOf(w) \cap closed = {}
        BY <1>11 DEF AdmittedByScopes
      <3>3. ASSUME NEW i \in DOMAIN order', NEW j \in DOMAIN order', i < j
            PROVE  OwnersOf(order'[j]) \cap seen'[order'[i]] = {}
        <4>1. i \in DOMAIN order /\ (j \in DOMAIN order \/ j = Len(order) + 1)
          BY <2>2, <3>3
        <4>2. order'[i] = order[i] /\ seen'[order'[i]] = seen[order[i]] /\ order[i] \in Updates
          BY <1>5, <2>1, <2>2, <4>1 DEF Typed, TypeOK
        <4>3. CASE j \in DOMAIN order
          BY <2>2, <3>3, <4>1, <4>2, <4>3 DEF JoinsAreSilent
        <4>4. CASE j = Len(order) + 1
          BY <2>2, <3>2, <4>2, <4>4 DEF JoinsAreSilent
        <4>5. QED
          BY <4>1, <4>3, <4>4
      <3>4. QED
        BY <3>1, <3>3 DEF JoinsAreSilent, OwnersOf
    <2>9. QED
      BY <1>6, <1>8, <2>5, <2>6, <2>7, <2>8
  <1>12. QED
    BY <1>10, <1>11

\* A request takes the first updates of a batch, the rest keeps the others.
Splits(ws, a, b) ==
  /\ ToSet(ws) = ToSet(a) \cup ToSet(b)
  /\ Ready(ws) => Ready(a) /\ Ready(b) /\ Precedes(a, b)
  /\ \A t : Precedes(ws, t) => Precedes(a, t) /\ Precedes(b, t)

LEMMA ChunkSplits ==
  ASSUME NEW ws \in Seq(Writes), NEW n \in 0 .. Len(ws)
  PROVE  \E a, b \in Seq(Writes) :
           /\ a = SubSeq(ws, 1, n) /\ b = SubSeq(ws, n + 1, Len(ws))
           /\ Splits(ws, a, b)
  <1> DEFINE a == SubSeq(ws, 1, n)
             b == SubSeq(ws, n + 1, Len(ws))
  <1>1. /\ a \in Seq(Writes) /\ b \in Seq(Writes)
        /\ DOMAIN a = 1 .. n /\ DOMAIN b = 1 .. Len(ws) - n /\ DOMAIN ws = 1 .. Len(ws)
        /\ Len(ws) \in Nat /\ n \in Nat
        /\ \A i \in 1 .. n : a[i] = ws[i]
        /\ \A i \in 1 .. Len(ws) - n : b[i] = ws[n + i]
    OBVIOUS
  <1>8. a = SubSeq(ws, 1, n) /\ b = SubSeq(ws, n + 1, Len(ws))
    OBVIOUS
  <1> HIDE DEF a, b
  <1>2. /\ \A i \in DOMAIN a : i \in DOMAIN ws /\ a[i] = ws[i] /\ i <= n
        /\ \A i \in DOMAIN b : n + i \in DOMAIN ws /\ b[i] = ws[n + i] /\ n < n + i
        /\ \A i, j \in DOMAIN b : i < j => n + i < n + j
        /\ \A i \in DOMAIN a, j \in DOMAIN b : i < n + j
    BY <1>1
  <1>3. \A i \in DOMAIN ws : i \in DOMAIN a \/ (i - n \in DOMAIN b /\ n + (i - n) = i)
    BY <1>1
  <1>4. ToSet(ws) = ToSet(a) \cup ToSet(b)
    <2>1. ToSet(ws) \subseteq ToSet(a) \cup ToSet(b)
      BY <1>2, <1>3 DEF ToSet
    <2>2. ToSet(a) \subseteq ToSet(ws) /\ ToSet(b) \subseteq ToSet(ws)
      BY <1>2 DEF ToSet
    <2>3. QED
      BY <2>1, <2>2
  <1>5. Ready(ws) => Ready(a) /\ Ready(b) /\ Precedes(a, b)
    BY <1>2 DEF Ready, Sorted, Precedes
  <1>6. \A t : Precedes(ws, t) => Precedes(a, t) /\ Precedes(b, t)
    BY <1>2 DEF Precedes
  <1>7. QED
    BY <1>1, <1>8, <1>4, <1>5, <1>6 DEF Splits

\* A flusher starts the next request, for a batch it claims or has claimed.
LEMMA ChunkStarts ==
  ASSUME BatchInv, NEW f \in Procs, NEW target \in Nat, NEW ws \in Seq(Writes),
         SendsChunk(f, target, ws)
  PROVE  \E a, b \in Seq(Writes) :
           /\ req' = [req EXCEPT ![f] = [pc |-> "locking", carry |-> a, token |-> 0, admit |-> FALSE]]
           /\ flush' = [flush EXCEPT ![f] = [pc |-> "writing", target |-> target, rest |-> b]]
           /\ req' \in [Procs -> ReqType] /\ flush' \in [Procs -> FlushType]
           /\ Splits(ws, a, b)
  <1> DEFINE n == Smaller(MaxOps, Len(ws))
  <1>1. n \in 0 .. Len(ws)
    BY ConstantFacts DEF Smaller
  <1>2. /\ req' = [req EXCEPT ![f] = [pc |-> "locking", carry |-> SubSeq(ws, 1, n),
                                     token |-> 0, admit |-> FALSE]]
        /\ flush' = [flush EXCEPT ![f] = [pc |-> "writing", target |-> target,
                                         rest |-> SubSeq(ws, n + 1, Len(ws))]]
    BY DEF SendsChunk, Starts
  <1> HIDE DEF n
  <1>3. PICK a, b \in Seq(Writes) :
           /\ a = SubSeq(ws, 1, n) /\ b = SubSeq(ws, n + 1, Len(ws))
           /\ Splits(ws, a, b)
    BY <1>1, ChunkSplits
  <1>9. /\ req' = [req EXCEPT ![f] = [pc |-> "locking", carry |-> a, token |-> 0, admit |-> FALSE]]
        /\ flush' = [flush EXCEPT ![f] = [pc |-> "writing", target |-> target, rest |-> b]]
    BY <1>2, <1>3
  <1>4. req' \in [Procs -> ReqType]
    <2>1. a \in Seq(Updates)
      BY <1>3, ConstantFacts
    <2>2. [pc |-> "locking", carry |-> a, token |-> 0, admit |-> FALSE] \in ReqType
      BY <2>1 DEF ReqType, RequestState
    <2>3. QED
      BY <1>9, <2>2 DEF BatchInv, Typed, TypeOK, RequestTypeOK, ReqType
  <1>5. flush' \in [Procs -> FlushType]
    <2>1. [pc |-> "writing", target |-> target, rest |-> b] \in FlushType
      BY <1>3 DEF FlushType, FlushState
    <2>2. QED
      BY <1>9, <2>1 DEF BatchInv, Typed
  <1>7. QED
    BY <1>3, <1>4, <1>5, <1>9

\* The claim moves the open batch into a request and the rest of its batch.
LEMMA ClaimKeepsBatch ==
  ASSUME BatchInv, NEW f \in Procs, Claim(f)
  PROVE  BatchInv'
  <1> USE ConstantFacts DEF BatchInv
  <1>1. /\ flush[f].pc = "claim" /\ open # 0 /\ SendsChunk(f, open, pending)
        /\ pending' = <<>> /\ open' = 0
        /\ UNCHANGED <<token, lock, svc, latch, closed, st, order, seen, batch, held, writer, drive>>
    BY DEF Claim, Claimable
  <1>2. open \in Nat /\ pending \in Seq(Writes)
    BY DEF Typed, TypeOK
  <1>3. PICK a, b \in Seq(Writes) :
           /\ req' = [req EXCEPT ![f] = [pc |-> "locking", carry |-> a, token |-> 0, admit |-> FALSE]]
           /\ flush' = [flush EXCEPT ![f] = [pc |-> "writing", target |-> open, rest |-> b]]
           /\ req' \in [Procs -> ReqType] /\ flush' \in [Procs -> FlushType]
           /\ Splits(pending, a, b)
    <2>1. PICK n \in Nat, ws \in Seq(Writes) : n = open /\ ws = pending
      BY <1>2
    <2>2. SendsChunk(f, n, ws)
      BY <1>1, <2>1 DEF SendsChunk, Starts
    <2>3. PICK a, b \in Seq(Writes) :
             /\ req' = [req EXCEPT ![f] = [pc |-> "locking", carry |-> a, token |-> 0, admit |-> FALSE]]
             /\ flush' = [flush EXCEPT ![f] = [pc |-> "writing", target |-> n, rest |-> b]]
             /\ req' \in [Procs -> ReqType] /\ flush' \in [Procs -> FlushType]
             /\ Splits(ws, a, b)
      BY ZenonT(30), <2>2, ChunkStarts
    <2>4. QED
      BY <2>1, <2>3
  <1>4. /\ drive # "flushed" /\ (f = Caller => drive = "flushing") /\ writer = f
        /\ \A g \in Procs : ~ Sending(g) /\ ~ Busy(g)
        /\ req[f].pc = "idle"
    <2>1. drive # "flushed" /\ (f = Caller => drive = "flushing") /\ writer = f
      BY <1>1 DEF RequestsHaveOwners, Claims
    <2>2. \A g \in Procs : ~ Sending(g)
      BY <1>1, <2>1 DEF RequestsHaveOwners, Claims, Sending
    <2>3. \A g \in Procs : ~ Busy(g)
      BY <2>1, <2>2 DEF RequestsHaveOwners
    <2>4. QED
      BY <1>1, <2>1, <2>2, <2>3 DEF RequestsHaveOwners, Busy
  <1>5. /\ Entered' = Entered /\ Recorded' = Recorded /\ LastBatch' = LastBatch
        /\ \A v : IsBehind(v)' <=> IsBehind(v)
    BY <1>1 DEF Entered, Recorded, LastBatch, IsBehind
  <1>6. /\ req'[f] = [pc |-> "locking", carry |-> a, token |-> 0, admit |-> FALSE]
        /\ flush'[f] = [pc |-> "writing", target |-> open, rest |-> b]
        /\ \A g \in Procs \ {f} : req'[g] = req[g] /\ flush'[g] = flush[g]
    BY <1>3 DEF Typed, TypeOK, RequestTypeOK
  <1>7. /\ Sending(f)' /\ Busy(f)' /\ \A g \in Procs \ {f} : ~ Sending(g)' /\ ~ Busy(g)'
        /\ Panicked' <=> Panicked
    BY <1>4, <1>6 DEF Sending, Busy, Panicked
  <1>8. Typed'
    <2>1. RequestTypeOK'
      BY <1>1, <1>3 DEF Typed, TypeOK, RequestTypeOK, ReqType
    <2>2. pending' \in Seq(Writes) /\ open' \in Nat
      BY <1>1
    <2>3. QED
      BY <1>1, <1>3, <2>1, <2>2 DEF Typed, TypeOK, FlushType
  <1>9. RequestsHaveOwners'
    <2>1. /\ flush'[f].pc = "writing" /\ req'[f].pc = "locking" /\ ~ req'[f].admit
          /\ req'[f].carry \in Seq(Writes)
      BY <1>6
    <2>2. drive \in {"returned", "flushing", "flushed"} => f = Caller
      BY <1>1 DEF RequestsHaveOwners
    <2>3. \A g \in Procs : /\ Claims(g)' => writer' = g
                           /\ req'[g].pc = "panicked" => g # Caller /\ flush'[g].pc = "gone"
      BY <1>1, <1>4, <1>6, <2>1 DEF RequestsHaveOwners, Claims
    <2>4. flush'[Caller].pc # "off" => drive' = "flushing"
      BY <1>1, <1>4, <1>6 DEF RequestsHaveOwners
    <2>5. drive' \in {"returned", "flushing", "flushed"} => \A g \in Flushers : flush'[g].pc \in {"off", "gone"}
      BY <1>1, <1>6, <2>2 DEF RequestsHaveOwners
    <2>6. drive' \in {"flushing", "flushed"} => ~ Panicked'
      BY <1>1, <1>7 DEF RequestsHaveOwners
    <2>7. st'[Final] # "new" => drive' = "flushed"
      BY <1>1 DEF RequestsHaveOwners
    <2>8. QED
      BY <1>7, <2>1, <2>3, <2>4, <2>5, <2>6, <2>7 DEF RequestsHaveOwners
  <1>10. LatchStopsRequests'
    BY <1>1, <1>6 DEF LatchStopsRequests
  <1>11. BatchesAreCounted'
    <2>1. \A g \in Procs : Sending(g)' => /\ flush'[g].target # 0 /\ flush'[g].target # open'
                                        /\ flush'[g].target <= LastBatch'
      BY <1>1, <1>2, <1>5, <1>6, <1>7 DEF BatchesAreCounted
    <2>2. QED
      BY <1>1, <1>5, <2>1 DEF BatchesAreCounted, IsLast
  <1>12. UpdatesAreHeld'
    <2>1. ASSUME NEW w \in Writes, st[w] = "joined"
          PROVE  /\ Sending(f)' /\ batch'[w] = flush'[f].target
                 /\ w \in ToSet(req'[f].carry) \cup ToSet(flush'[f].rest) \cup Recorded'
      BY <1>1, <1>3, <1>4, <1>6, <1>7, <2>1 DEF UpdatesAreHeld, Splits
    <2>2. \A p \in Procs : req'[p].pc \in {"accepted", "paging", "ok"} => ToSet(req'[p].carry) \subseteq Recorded'
      BY <1>5, <1>6 DEF UpdatesAreHeld
    <2>3. QED
      BY <1>1, <1>4, <1>5, <1>7, <2>1, <2>2 DEF UpdatesAreHeld
  <1>13. OrderIsKept'
    <2>1. Ready(a) /\ Ready(b) /\ Precedes(a, b)
      BY <1>3, <1>4 DEF OrderIsKept, Splits
    <2>2. \A q \in Procs : Unsent(q)' => q = f
      BY <1>4, <1>6 DEF Unsent, Busy
    <2>3. Ready(pending)'
      BY <1>1 DEF Ready, Sorted
    <2>4. Ready(req[f].carry)' /\ Ready(flush[f].rest)' /\ Precedes(req[f].carry, flush[f].rest)'
      BY <1>1, <1>5, <1>6, <2>1 DEF Ready, Sorted, Precedes
    <2>5. Precedes(flush[f].rest, pending)' /\ Precedes(req[f].carry, pending)'
      BY <1>1 DEF Precedes
    <2>6. Once(order)' /\ Recorded' \subseteq Entered' /\ Sorted(svc.journal)' /\ \A w \in Entered' : st'[w] # "new"
      BY <1>1, <1>5 DEF OrderIsKept, Once, Sorted
    <2>7. QED
      BY <1>7, <2>2, <2>3, <2>4, <2>5, <2>6 DEF OrderIsKept
  <1>14. JoinsAreSilent'
    BY <1>1 DEF JoinsAreSilent, OwnersOf
  <1>15. QED
    BY <1>8, <1>9, <1>10, <1>11, <1>12, <1>13, <1>14

\* The next request of a batch takes the first updates of the rest.
LEMMA NextChunkKeepsBatch ==
  ASSUME BatchInv, NEW f \in Procs, NextChunk(f)
  PROVE  BatchInv'
  <1> USE ConstantFacts DEF BatchInv
  <1>1. /\ Sending(f) /\ req[f].pc = "ok" /\ SendsChunk(f, flush[f].target, flush[f].rest)
        /\ UNCHANGED <<token, lock, svc, latch, closed, st, order, seen, pending, batch, open, held, writer, drive>>
    BY DEF NextChunk, bufferVars
  <1>2. flush[f].target \in Nat /\ flush[f].rest \in Seq(Writes)
    BY DEF Typed, FlushType
  <1>3. PICK a, b \in Seq(Writes) :
           /\ req' = [req EXCEPT ![f] = [pc |-> "locking", carry |-> a, token |-> 0, admit |-> FALSE]]
           /\ flush' = [flush EXCEPT ![f] = [pc |-> "writing", target |-> flush[f].target, rest |-> b]]
           /\ req' \in [Procs -> ReqType] /\ flush' \in [Procs -> FlushType]
           /\ Splits(flush[f].rest, a, b)
    <2>1. PICK n \in Nat, ws \in Seq(Writes) : n = flush[f].target /\ ws = flush[f].rest
      BY <1>2
    <2>2. SendsChunk(f, n, ws)
      BY <1>1, <2>1 DEF SendsChunk, Starts
    <2>3. PICK a, b \in Seq(Writes) :
             /\ req' = [req EXCEPT ![f] = [pc |-> "locking", carry |-> a, token |-> 0, admit |-> FALSE]]
             /\ flush' = [flush EXCEPT ![f] = [pc |-> "writing", target |-> n, rest |-> b]]
             /\ req' \in [Procs -> ReqType] /\ flush' \in [Procs -> FlushType]
             /\ Splits(ws, a, b)
      BY ZenonT(30), <2>2, ChunkStarts
    <2>4. QED
      BY <2>1, <2>3
  <1>4. /\ Busy(f) /\ writer = f /\ drive # "flushed"
        /\ \A g \in Procs \ {f} : ~ Sending(g) /\ ~ Busy(g)
    <2>1. Busy(f) /\ writer = f /\ drive # "flushed"
      BY <1>1 DEF RequestsHaveOwners, Claims, Sending
    <2>2. \A g \in Procs \ {f} : ~ Busy(g)
      BY <2>1, OneRequest
    <2>3. QED
      BY <2>1, <2>2 DEF RequestsHaveOwners
  <1>5. /\ Entered' = Entered /\ Recorded' = Recorded /\ LastBatch' = LastBatch
        /\ \A v : IsBehind(v)' <=> IsBehind(v)
    BY <1>1 DEF Entered, Recorded, LastBatch, IsBehind
  <1>6. /\ req'[f] = [pc |-> "locking", carry |-> a, token |-> 0, admit |-> FALSE]
        /\ flush'[f] = [pc |-> "writing", target |-> flush[f].target, rest |-> b]
        /\ \A g \in Procs \ {f} : req'[g] = req[g] /\ flush'[g] = flush[g]
    BY <1>3 DEF Typed, TypeOK, RequestTypeOK
  <1>7. /\ Sending(f)' /\ Busy(f)' /\ \A g \in Procs \ {f} : ~ Sending(g)' /\ ~ Busy(g)'
        /\ Panicked' <=> Panicked
    <2>1. req[f].pc # "panicked" /\ req'[f].pc # "panicked"
      BY <1>1, <1>6
    <2>2. QED
      BY <1>4, <1>6, <2>1 DEF Sending, Busy, Panicked
  <1>8. Typed'
    BY <1>1, <1>3 DEF Typed, TypeOK, RequestTypeOK, ReqType, FlushType
  <1>9. RequestsHaveOwners'
    <2>1. /\ flush'[f].pc = "writing" /\ req'[f].pc = "locking" /\ ~ req'[f].admit
          /\ req'[f].carry \in Seq(Writes)
      BY <1>6
    <2>2. /\ drive \in {"returned", "flushing", "flushed"} => f = Caller
          /\ f = Caller => drive = "flushing"
      BY <1>1 DEF RequestsHaveOwners, Sending
    <2>3. \A g \in Procs : /\ Claims(g)' => writer' = g
                           /\ req'[g].pc = "panicked" => g # Caller /\ flush'[g].pc = "gone"
      BY <1>1, <1>4, <1>6, <2>1 DEF RequestsHaveOwners, Claims
    <2>4. flush'[Caller].pc # "off" => drive' = "flushing"
      BY <1>1, <1>4, <1>6, <2>2 DEF RequestsHaveOwners
    <2>5. drive' \in {"returned", "flushing", "flushed"} => \A g \in Flushers : flush'[g].pc \in {"off", "gone"}
      BY <1>1, <1>6, <2>2 DEF RequestsHaveOwners
    <2>6. drive' \in {"flushing", "flushed"} => ~ Panicked'
      BY <1>1, <1>7 DEF RequestsHaveOwners
    <2>7. st'[Final] # "new" => drive' = "flushed"
      BY <1>1 DEF RequestsHaveOwners
    <2>8. QED
      BY <1>7, <2>1, <2>3, <2>4, <2>5, <2>6, <2>7 DEF RequestsHaveOwners
  <1>10. LatchStopsRequests'
    BY <1>1, <1>6 DEF LatchStopsRequests
  <1>11. BatchesAreCounted'
    <2>1. \A g \in Procs : Sending(g)' => /\ flush'[g].target # 0 /\ flush'[g].target # open'
                                        /\ flush'[g].target <= LastBatch'
      BY <1>1, <1>5, <1>6, <1>7 DEF BatchesAreCounted
    <2>2. QED
      BY <1>1, <1>5, <2>1 DEF BatchesAreCounted, IsLast
  <1>12. UpdatesAreHeld'
    <2>1. ASSUME NEW w \in Writes, st[w] = "joined", ~ (batch[w] = open /\ open # 0 /\ w \in ToSet(pending))
          PROVE  /\ Sending(f)' /\ batch'[w] = flush'[f].target
                 /\ w \in ToSet(req'[f].carry) \cup ToSet(flush'[f].rest) \cup Recorded'
      <3>1. /\ batch[w] = flush[f].target
            /\ w \in ToSet(req[f].carry) \cup ToSet(flush[f].rest) \cup Recorded
        BY <1>4, <2>1 DEF UpdatesAreHeld
      <3>2. ToSet(req[f].carry) \subseteq Recorded
        BY <1>1 DEF UpdatesAreHeld
      <3>3. QED
        BY <1>1, <1>3, <1>5, <1>6, <1>7, <3>1, <3>2 DEF Splits
    <2>2. \A p \in Procs : req'[p].pc \in {"accepted", "paging", "ok"} => ToSet(req'[p].carry) \subseteq Recorded'
      BY <1>5, <1>6 DEF UpdatesAreHeld
    <2>3. QED
      BY <1>1, <1>4, <1>5, <1>7, <2>1, <2>2 DEF UpdatesAreHeld
  <1>13. OrderIsKept'
    <2>1. /\ Ready(a) /\ Ready(b) /\ Precedes(a, b) /\ Precedes(a, pending) /\ Precedes(b, pending)
      BY <1>1, <1>3 DEF OrderIsKept, Splits
    <2>2. \A q \in Procs : Unsent(q)' => q = f
      BY <1>4, <1>6 DEF Unsent, Busy
    <2>3. drive' # "flushed" => Ready(pending)'
      BY <1>1, <1>5 DEF Ready, Sorted, OrderIsKept
    <2>4. Ready(req[f].carry)' /\ Ready(flush[f].rest)' /\ Precedes(req[f].carry, flush[f].rest)'
      BY <1>1, <1>5, <1>6, <2>1 DEF Ready, Sorted, Precedes
    <2>5. Precedes(flush[f].rest, pending)' /\ Precedes(req[f].carry, pending)'
      BY <1>1, <1>6, <2>1 DEF Precedes
    <2>6. Once(order)' /\ Recorded' \subseteq Entered' /\ Sorted(svc.journal)' /\ \A w \in Entered' : st'[w] # "new"
      BY <1>1, <1>5 DEF OrderIsKept, Once, Sorted
    <2>7. QED
      BY <1>7, <2>2, <2>3, <2>4, <2>5, <2>6 DEF OrderIsKept
  <1>14. JoinsAreSilent'
    BY <1>1 DEF JoinsAreSilent, OwnersOf
  <1>15. QED
    BY <1>8, <1>9, <1>10, <1>11, <1>12, <1>13, <1>14

\* Steps of the flushers and of the drive that move no update and no request.
LEMMA QuietStep ==
  ASSUME BatchInv, flush' \in [Procs -> FlushType], held' \subseteq Writes, writer' \in Procs \cup {None},
         drive' \in {"open", "cleaning", "returned", "flushing", "flushed"},
         UNCHANGED <<requestVars, st, order, seen, pending, batch, open>>,
         \A f \in Procs : /\ Sending(f)' <=> Sending(f)
                          /\ Sending(f) => flush'[f] = flush[f]
                          /\ Claims(f)' => writer' = f
                          /\ flush[f].pc = "gone" => flush'[f].pc = "gone",
         flush'[Caller].pc # "off" => drive' = "flushing",
         drive' \in {"returned", "flushing", "flushed"} => \A f \in Flushers : flush'[f].pc \in {"off", "gone"},
         drive' \in {"flushing", "flushed"} => ~ Panicked,
         drive = "flushed" => drive' = "flushed",
         drive' = "flushed" => drive = "flushed" \/ pending = <<>>
  PROVE  BatchInv'
  <1> USE ConstantFacts DEF BatchInv, requestVars
  <1>1. Typed'
    BY DEF Typed, TypeOK, RequestTypeOK, FlushType
  <1>2. RequestsHaveOwners'
    BY DEF RequestsHaveOwners, Busy, Panicked
  <1>3. QED
    BY <1>1, <1>2, QuietKeepsBatch

LEMMA WindowKeepsBatch ==
  ASSUME BatchInv, NEW f \in Procs, WindowEnds(f) \/ TakeWriter(f) \/ WaitUnheld(f)
  PROVE  BatchInv'
  <1> USE ConstantFacts DEF BatchInv, bufferVars
  <1>1. PICK pc \in {"lock", "claim", "unheld"} :
           /\ flush' = [flush EXCEPT ![f].pc = pc]
           /\ pc # "lock" => writer' = f
           /\ pc = "lock" => writer' = writer
    BY DEF WindowEnds, TakeWriter, WaitUnheld, RequestsHaveOwners, Claims
  <1>2. /\ flush[f].pc \in {"window", "lock", "claim"} /\ UNCHANGED <<requestVars, st, bufferVars, drive>>
        /\ writer' = writer \/ (writer = None /\ writer' = f)
    BY <1>1 DEF WindowEnds, TakeWriter, WaitUnheld
  <1>3. /\ flush' \in [Procs -> FlushType] /\ flush'[f].pc = pc
        /\ \A g \in Procs \ {f} : flush'[g] = flush[g]
    BY <1>1 DEF Typed, FlushType, FlushState
  <1>4. ASSUME NEW g \in Procs
        PROVE  /\ Sending(g)' <=> Sending(g)
               /\ Sending(g) => flush'[g] = flush[g]
               /\ flush[g].pc = "gone" => flush'[g].pc = "gone"
    BY <1>1, <1>2, <1>3 DEF Sending
  <1>5. ASSUME NEW g \in Procs, Claims(g)' PROVE writer' = g
    BY <1>1, <1>2, <1>3, <1>5 DEF RequestsHaveOwners, Claims
  <1>6. flush'[Caller].pc # "off" => drive' = "flushing"
    BY <1>2, <1>3 DEF RequestsHaveOwners
  <1>7. drive' \in {"returned", "flushing", "flushed"} => \A g \in Flushers : flush'[g].pc \in {"off", "gone"}
    BY <1>2, <1>3 DEF RequestsHaveOwners
  <1>8. /\ held' \subseteq Writes /\ writer' \in Procs \cup {None}
        /\ drive' \in {"open", "cleaning", "returned", "flushing", "flushed"}
        /\ drive' \in {"flushing", "flushed"} => ~ Panicked
    BY <1>2 DEF Typed, TypeOK, RequestsHaveOwners
  <1>9. QED
    BY <1>2, <1>3, <1>4, <1>5, <1>6, <1>7, <1>8, QuietStep

\* The end of the drive without anything left to flush.
LEMMA ClaimsNothingKeepsBatch ==
  ASSUME BatchInv, NEW f \in Procs, ClaimsNothing(f)
  PROVE  BatchInv'
  <1> USE ConstantFacts DEF BatchInv, bufferVars
  <1>1. /\ flush[f].pc = "claim" /\ ~ Claimable(f) /\ flush' = [flush EXCEPT ![f] = NoFlush]
        /\ writer' = None /\ drive' = IF f = Caller THEN "flushed" ELSE drive
        /\ UNCHANGED <<requestVars, st, bufferVars>>
    BY DEF ClaimsNothing
  <1>2. /\ flush' \in [Procs -> FlushType] /\ flush'[f].pc = "off"
        /\ \A g \in Procs \ {f} : flush'[g] = flush[g]
    <2>1. NoFlush \in FlushType
      BY DEF NoFlush, FlushType, FlushState
    <2>2. QED
      BY <1>1, <2>1 DEF Typed, NoFlush
  <1>3. \A g \in Procs : ~ Claims(g)'
    BY <1>1, <1>2 DEF RequestsHaveOwners, Claims
  <1>4. \A g \in Procs : Claims(g) => g = f
    BY <1>1 DEF RequestsHaveOwners, Claims
  <1>5. \A g \in Procs : ~ Sending(g) /\ ~ Sending(g)'
    BY <1>1, <1>2, <1>4 DEF Claims, Sending
  <1>6. /\ f = Caller => drive = "flushing"
        /\ f # Caller => drive \notin {"returned", "flushing", "flushed"}
    BY <1>1 DEF RequestsHaveOwners
  <1>7. flush'[Caller].pc # "off" => drive' = "flushing"
    BY <1>1, <1>2 DEF RequestsHaveOwners
  <1>8. drive' \in {"returned", "flushing", "flushed"} => \A g \in Flushers : flush'[g].pc \in {"off", "gone"}
    BY <1>1, <1>2, <1>6 DEF RequestsHaveOwners
  <1>9. /\ drive' = "flushed" => drive = "flushed" \/ pending = <<>>
        /\ drive = "flushed" => drive' = "flushed"
        /\ drive' \in {"flushing", "flushed"} => ~ Panicked
    BY <1>1, <1>6 DEF Claimable, BatchesAreCounted, RequestsHaveOwners
  <1>10. held' \subseteq Writes /\ writer' \in Procs \cup {None}
         /\ drive' \in {"open", "cleaning", "returned", "flushing", "flushed"}
    BY <1>1 DEF Typed, TypeOK
  <1>11. \A g \in Procs : flush[g].pc = "gone" => flush'[g].pc = "gone"
    BY <1>1, <1>2
  <1>12. QED
    BY <1>1, <1>2, <1>3, <1>5, <1>7, <1>8, <1>9, <1>10, <1>11, QuietStep

LEMMA ReleaseKeepsBatch ==
  ASSUME BatchInv, NEW w \in Writes, ReleaseHold(w)
  PROVE  BatchInv'
  <1> USE ConstantFacts DEF BatchInv
  <1>1. /\ held' = held \ {w} /\ UNCHANGED <<requestVars, st, order, seen, pending, batch, open, writer, drive>>
        /\ flush' = [g \in Procs |-> IF flush[g].pc = "unheld" THEN [flush[g] EXCEPT !.pc = "claim"]
                                     ELSE flush[g]]
    BY DEF ReleaseHold
  <1>2. /\ flush' \in [Procs -> FlushType]
        /\ \A g \in Procs : flush'[g].pc = IF flush[g].pc = "unheld" THEN "claim" ELSE flush[g].pc
        /\ \A g \in Procs : flush[g].pc # "unheld" => flush'[g] = flush[g]
    <2>1. \A g \in Procs : flush[g] \in FlushType /\ [flush[g] EXCEPT !.pc = "claim"] \in FlushType
                           /\ [flush[g] EXCEPT !.pc = "claim"].pc = "claim"
      BY DEF Typed, FlushType, FlushState
    <2>2. flush' \in [Procs -> FlushType]
      BY <1>1, <2>1
    <2>3. QED
      BY <1>1, <2>1, <2>2
  <1>3. \A g \in Procs : /\ Sending(g)' <=> Sending(g)
                         /\ Sending(g) => flush'[g] = flush[g]
                         /\ Claims(g)' => writer' = g
                         /\ flush[g].pc = "gone" => flush'[g].pc = "gone"
    BY <1>1, <1>2 DEF Sending, Claims, RequestsHaveOwners
  <1>4. flush'[Caller].pc # "off" => drive' = "flushing"
    BY <1>1, <1>2 DEF RequestsHaveOwners
  <1>5. drive' \in {"returned", "flushing", "flushed"} => \A g \in Flushers : flush'[g].pc \in {"off", "gone"}
    BY <1>1, <1>2 DEF RequestsHaveOwners
  <1>6. /\ held' \subseteq Writes /\ writer' \in Procs \cup {None}
        /\ drive' \in {"open", "cleaning", "returned", "flushing", "flushed"}
        /\ drive' \in {"flushing", "flushed"} => ~ Panicked
    BY <1>1 DEF Typed, TypeOK, RequestsHaveOwners
  <1>7. QED
    BY <1>1, <1>2, <1>3, <1>4, <1>5, <1>6, QuietStep

LEMMA DriveKeepsBatch ==
  ASSUME BatchInv, DriveEnds \/ DriveReturns \/ LastFlush
  PROVE  BatchInv'
  <1> USE ConstantFacts DEF BatchInv, bufferVars
  <1>1. CASE DriveEnds \/ DriveReturns
    <2>1. /\ UNCHANGED <<requestVars, st, bufferVars, writer, flush>>
          /\ drive \in {"open", "cleaning"} /\ drive' \in {"cleaning", "returned"}
          /\ drive' = "returned" => \A g \in Flushers : flush[g].pc \in {"off", "gone"}
      BY <1>1 DEF DriveEnds, DriveReturns
    <2>2. flush[Caller].pc = "off"
      BY <2>1 DEF RequestsHaveOwners
    <2>3. \A g \in Procs : (Sending(g)' <=> Sending(g)) /\ (Claims(g)' => writer' = g)
      BY <2>1 DEF Sending, Claims, RequestsHaveOwners
    <2>4. flush' \in [Procs -> FlushType] /\ held' \subseteq Writes /\ writer' \in Procs \cup {None}
      BY <2>1 DEF Typed, TypeOK
    <2>5. QED
      BY <2>1, <2>2, <2>3, <2>4, QuietStep
  <1>2. CASE LastFlush
    <2>1. /\ UNCHANGED <<requestVars, st, bufferVars, writer>> /\ ~ Panicked
          /\ drive = "returned" /\ drive' = "flushing"
          /\ flush' = [flush EXCEPT ![Caller] = [NoFlush EXCEPT !.pc = "lock"]]
      BY <1>2 DEF LastFlush
    <2>2. /\ flush' \in [Procs -> FlushType] /\ flush'[Caller].pc = "lock"
          /\ \A g \in Procs \ {Caller} : flush'[g] = flush[g]
      <3>1. [NoFlush EXCEPT !.pc = "lock"] = [pc |-> "lock", target |-> 0, rest |-> <<>>]
        BY DEF NoFlush
      <3>2. [pc |-> "lock", target |-> 0, rest |-> <<>>] \in FlushType
        BY DEF FlushType, FlushState
      <3>3. QED
        BY <2>1, <3>1, <3>2 DEF Typed
    <2>3. flush[Caller].pc = "off" /\ \A g \in Flushers : flush[g].pc \in {"off", "gone"}
      BY <2>1 DEF RequestsHaveOwners
    <2>4. \A g \in Procs : /\ ~ Sending(g) /\ ~ Sending(g)' /\ ~ Claims(g)'
                           /\ flush[g].pc = "gone" => flush'[g].pc = "gone"
      BY <2>2, <2>3 DEF Sending, Claims
    <2>5. held' \subseteq Writes /\ writer' \in Procs \cup {None}
          /\ \A g \in Flushers : flush'[g].pc \in {"off", "gone"}
      BY <2>1, <2>2, <2>3 DEF Typed, TypeOK
    <2>6. QED
      BY <2>1, <2>2, <2>4, <2>5, QuietStep
  <1>3. QED
    BY <1>1, <1>2

LEMMA CloseScopeKeepsBatch ==
  ASSUME BatchInv, NEW s \in Scopes, CloseScope(s), UNCHANGED <<st, bufferVars, writer, flush, drive>>
  PROVE  BatchInv'
  <1> USE DEF BatchInv, bufferVars
  <1>1. closed' = closed \cup {s} /\ UNCHANGED <<token, lock, svc, latch, req>>
    BY DEF CloseScope
  <1>2. Typed'
    BY <1>1 DEF Typed, TypeOK, RequestTypeOK
  <1>3. RequestsHaveOwners'
    BY <1>1 DEF RequestsHaveOwners, Claims, Sending, Busy, Panicked
  <1>4. \A f \in Procs : Sending(f)' <=> Sending(f)
    BY DEF Sending
  <1>5. QED
    BY <1>1, <1>2, <1>3, <1>4, QuietKeepsBatch

\* The end of a batch, by publication, failure or panic.
LEMMA BatchEnds ==
  ASSUME BatchInv, NEW f \in Procs, Sending(f), NEW state \in {"resolved", "dropped"},
         st' = Becomes(Joined(flush[f].target), state),
         state = "resolved" => req[f].pc = "ok" /\ flush[f].rest = <<>>,
         state = "dropped" => latch # "none" \/ Panicked',
         req' \in [Procs -> ReqType], flush' \in [Procs -> FlushType],
         lock' \in Procs \cup {None}, writer' \in Procs \cup {None},
         \A g \in Procs \ {f} : req'[g] = req[g] /\ flush'[g] = flush[g],
         req'[f].pc \in {"idle", "panicked"}, flush'[f].pc \in {"off", "gone", "claim"},
         req'[f].pc = "panicked" => f # Caller /\ flush'[f].pc = "gone",
         flush'[f].pc = "claim" => f = Caller /\ writer' = f /\ drive' = drive,
         f = Caller => flush'[f].pc = "off" \/ drive' = "flushing",
         drive' = drive \/ (f = Caller /\ drive' = "flushed" /\ latch # "none"),
         UNCHANGED <<token, svc, latch, closed, order, seen, pending, batch, open, held>>
  PROVE  BatchInv'
  <1> USE ConstantFacts DEF BatchInv
  <1>1. /\ Busy(f) /\ writer = f /\ drive # "flushed"
        /\ \A g \in Procs \ {f} : ~ Sending(g) /\ ~ Busy(g) /\ ~ Claims(g)
    <2>1. Busy(f) /\ writer = f /\ drive # "flushed"
      BY DEF RequestsHaveOwners, Claims, Sending
    <2>2. \A g \in Procs \ {f} : ~ Busy(g) /\ ~ Claims(g)
      BY <2>1, OneRequest DEF RequestsHaveOwners
    <2>3. QED
      BY <2>1, <2>2 DEF RequestsHaveOwners
  <1>2. /\ f = Caller => drive = "flushing"
        /\ drive \in {"returned", "flushing", "flushed"} => f = Caller
    BY DEF RequestsHaveOwners, Sending
  <1>3. /\ Entered' = Entered /\ Recorded' = Recorded /\ LastBatch' = LastBatch
        /\ \A v : IsBehind(v)' <=> IsBehind(v)
        /\ \A g \in Procs : ~ Sending(g)' /\ ~ Busy(g)'
    <2>1. ~ Sending(f)' /\ ~ Busy(f)'
      BY DEF Sending, Busy
    <2>2. \A g \in Procs \ {f} : ~ Sending(g)' /\ ~ Busy(g)'
      BY <1>1 DEF Sending, Busy
    <2>3. QED
      BY <2>1, <2>2 DEF Entered, Recorded, LastBatch, IsBehind
  <1>4. Panicked => Panicked'
    BY <1>1 DEF Panicked, Busy
  <1>5. /\ st' \in [Contributors \cup {Final} -> WriteState] /\ st'[Final] = st[Final]
        /\ \A w \in Contributors : IF batch[w] = flush[f].target /\ st[w] = "joined"
                                    THEN st'[w] = state ELSE st'[w] = st[w]
    BY DEF Becomes, Joined, Typed, TypeOK, WriteState
  <1>6. Typed'
    <2>1. RequestTypeOK'
      BY DEF Typed, TypeOK, RequestTypeOK, ReqType
    <2>2. drive' \in {"open", "cleaning", "returned", "flushing", "flushed"}
      BY DEF Typed, TypeOK
    <2>3. QED
      BY <1>5, <2>1, <2>2 DEF Typed, TypeOK, FlushType
  <1>7. RequestsHaveOwners'
    <2>1. \A g \in Procs : Claims(g)' => writer' = g
      BY <1>1 DEF Claims
    <2>2. \A g \in Procs : req'[g].pc = "panicked" => g # Caller /\ flush'[g].pc = "gone"
      BY DEF RequestsHaveOwners
    <2>3. flush'[Caller].pc # "off" => drive' = "flushing"
      BY DEF RequestsHaveOwners
    <2>4. drive' \in {"returned", "flushing", "flushed"} => \A g \in Flushers : flush'[g].pc \in {"off", "gone"}
      BY <1>2 DEF RequestsHaveOwners
    <2>5. drive' \in {"flushing", "flushed"} => ~ Panicked'
      <3>1. SUFFICES ASSUME drive' \in {"flushing", "flushed"} PROVE ~ Panicked'
        OBVIOUS
      <3>2. f = Caller /\ ~ Panicked /\ req'[f].pc # "panicked"
        BY <1>2, <3>1 DEF RequestsHaveOwners
      <3>3. QED
        BY <3>2 DEF Panicked
    <2>6. st'[Final] # "new" => drive' = "flushed"
      BY <1>1, <1>5 DEF RequestsHaveOwners
    <2>7. QED
      BY <1>3, <2>1, <2>2, <2>3, <2>4, <2>5, <2>6 DEF RequestsHaveOwners
  <1>8. LatchStopsRequests'
    <2>1. \A g \in Procs : req'[g].pc \in {"idle", "panicked"}
      BY <1>3 DEF Busy
    <2>2. QED
      BY <2>1 DEF LatchStopsRequests
  <1>9. BatchesAreCounted'
    BY <1>3, <1>5 DEF BatchesAreCounted, IsLast
  <1>10. UpdatesAreHeld'
    <2>1. ASSUME NEW w \in Writes, st'[w] = "joined"
          PROVE  batch[w] = open /\ open # 0 /\ w \in ToSet(pending)
      BY <1>1, <1>5, <2>1 DEF UpdatesAreHeld
    <2>2. \A p \in Procs : req'[p].pc \notin {"accepted", "paging", "ok"}
      BY <1>3 DEF Busy
    <2>3. ASSUME NEW w \in Updates, st'[w] = "resolved" PROVE w \in Recorded
      <3>1. CASE st[w] = "resolved"
        BY <3>1 DEF UpdatesAreHeld
      <3>2. CASE st[w] # "resolved"
        <4>1. w \in Writes /\ st[w] = "joined" /\ batch[w] = flush[f].target /\ state = "resolved"
          BY <1>5, <2>3, <3>2
        <4>2. w \in ToSet(req[f].carry) \cup ToSet(flush[f].rest) \cup Recorded
          BY <1>1, <4>1 DEF UpdatesAreHeld, BatchesAreCounted
        <4>3. ToSet(req[f].carry) \subseteq Recorded /\ ToSet(flush[f].rest) = {}
          BY <4>1 DEF UpdatesAreHeld, ToSet
        <4>4. QED
          BY <4>2, <4>3
      <3>3. QED
        BY <3>1, <3>2
    <2>4. ASSUME NEW w \in Entered, st'[w] = "dropped" PROVE latch # "none" \/ Panicked'
      <3>1. w \in Contributors \cup {Final}
        BY DEF Entered, ToSet, Typed, TypeOK
      <3>2. QED
        BY <1>4, <1>5, <2>4, <3>1 DEF UpdatesAreHeld
    <2>5. drive' = "flushed" /\ latch' = "none" => pending' = <<>>
      BY <1>1
    <2>6. QED
      BY <1>3, <2>1, <2>2, <2>3, <2>4, <2>5 DEF UpdatesAreHeld
  <1>11. OrderIsKept'
    <2>1. \A q \in Procs : ~ Unsent(q)'
      BY <1>3 DEF Unsent, Busy
    <2>2. Ready(pending)'
      BY <1>1, <1>3 DEF Ready, Sorted, OrderIsKept
    <2>3. Once(order)' /\ Recorded' \subseteq Entered' /\ Sorted(svc.journal)'
      BY <1>3 DEF OrderIsKept, Once, Sorted
    <2>4. \A w \in Entered' : st'[w] # "new"
      <3>1. \A w \in Entered : w \in Contributors \cup {Final}
        BY DEF Entered, ToSet, Typed, TypeOK
      <3>2. QED
        BY <1>3, <1>5, <3>1 DEF OrderIsKept
    <2>5. QED
      BY <1>3, <2>1, <2>2, <2>3, <2>4 DEF OrderIsKept
  <1>12. JoinsAreSilent'
    BY DEF JoinsAreSilent, OwnersOf
  <1>13. QED
    BY <1>6, <1>7, <1>8, <1>9, <1>10, <1>11, <1>12

LEMMA PublicationKeepsBatch ==
  ASSUME BatchInv, NEW f \in Procs, Publish(f) \/ StopBatch(f) \/ Unwind(f)
  PROVE  BatchInv'
  <1> USE ConstantFacts DEF bufferVars
  <1>1. /\ req \in [Procs -> ReqType] /\ flush \in [Procs -> FlushType] /\ latch \in {"none", "failed", "withdrawn"}
        /\ lock \in Procs \cup {None} /\ NoRequest \in ReqType /\ NoFlush \in FlushType
    <2>1. NoRequest \in ReqType /\ NoFlush \in FlushType
      BY DEF NoRequest, NoFlush, ReqType, RequestState, FlushType, FlushState
    <2>2. QED
      BY <2>1 DEF BatchInv, Typed, TypeOK, RequestTypeOK, ReqType
  <1>2. /\ Sending(f) => (f = Caller => drive = "flushing")
        /\ req[f].pc = "stopped" => latch # "none"
    BY DEF BatchInv, RequestsHaveOwners, LatchStopsRequests, Sending
  <1>3. CASE Publish(f)
    <2>1. /\ Sending(f) /\ req[f].pc = "ok" /\ flush[f].rest = <<>>
          /\ st' = Becomes(Joined(flush[f].target), "resolved")
          /\ flush' = [flush EXCEPT ![f] = IF f = Caller THEN [NoFlush EXCEPT !.pc = "claim"] ELSE NoFlush]
          /\ writer' = (IF f = Caller THEN f ELSE None) /\ req' = [req EXCEPT ![f] = NoRequest]
          /\ UNCHANGED <<token, lock, svc, latch, closed, order, seen, pending, batch, open, held, drive>>
      BY <1>3 DEF Publish, EndsRequest
    <2>2. [NoFlush EXCEPT !.pc = "claim"] \in FlushType /\ [NoFlush EXCEPT !.pc = "claim"].pc = "claim"
      BY <1>1 DEF FlushType, FlushState
    <2>3. /\ req' \in [Procs -> ReqType] /\ flush' \in [Procs -> FlushType]
          /\ \A g \in Procs \ {f} : req'[g] = req[g] /\ flush'[g] = flush[g]
          /\ req'[f].pc = "idle" /\ flush'[f].pc = IF f = Caller THEN "claim" ELSE "off"
      BY <1>1, <2>1, <2>2 DEF NoRequest, NoFlush
    <2>4. QED
      BY <1>1, <1>2, <2>1, <2>3, BatchEnds
  <1>4. CASE StopBatch(f)
    <2>1. /\ Sending(f) /\ req[f].pc = "stopped"
          /\ st' = Becomes(Joined(flush[f].target), "dropped")
          /\ flush' = [flush EXCEPT ![f] = NoFlush] /\ req' = [req EXCEPT ![f] = NoRequest]
          /\ writer' = None /\ drive' = IF f = Caller THEN "flushed" ELSE drive
          /\ UNCHANGED <<token, lock, svc, latch, closed, order, seen, pending, batch, open, held>>
      BY <1>4 DEF StopBatch, EndsRequest
    <2>2. /\ req' \in [Procs -> ReqType] /\ flush' \in [Procs -> FlushType]
          /\ \A g \in Procs \ {f} : req'[g] = req[g] /\ flush'[g] = flush[g]
          /\ req'[f].pc = "idle" /\ flush'[f].pc = "off"
      BY <1>1, <2>1 DEF NoRequest, NoFlush
    <2>3. QED
      BY <1>1, <1>2, <2>1, <2>2, BatchEnds
  <1>5. CASE Unwind(f)
    <2>1. /\ Sending(f) /\ f # Caller
          /\ st' = Becomes(Joined(flush[f].target), "dropped")
          /\ flush' = [flush EXCEPT ![f].pc = "gone", ![f].rest = <<>>]
          /\ req' = [req EXCEPT ![f].pc = "panicked"] /\ lock' = None
          /\ writer' = None
          /\ UNCHANGED <<token, svc, latch, closed, order, seen, pending, batch, open, held, drive>>
      BY <1>5 DEF Unwind, ClientPanics, Put
    <2>2. /\ req' \in [Procs -> ReqType] /\ req'[f].pc = "panicked"
          /\ \A g \in Procs \ {f} : req'[g] = req[g] /\ flush'[g] = flush[g]
      BY <1>1, <2>1 DEF ReqType, RequestState
    <2>3. /\ flush' \in [Procs -> FlushType] /\ flush'[f].pc = "gone"
      BY <1>1, <2>1 DEF FlushType, FlushState
    <2>4. Panicked'
      BY <2>2 DEF Panicked
    <2>5. QED
      BY <1>1, <2>1, <2>2, <2>3, <2>4, BatchEnds
  <1>6. QED
    BY <1>3, <1>4, <1>5

\* A failed request drops the open batch; its own batch stays with it.
LEMMA AbandonKeepsBatch ==
  ASSUME BatchInv, NEW p \in Procs, AbandonPending(p)
  PROVE  BatchInv'
  <1> USE ConstantFacts DEF BatchInv
  <1>1. /\ req[p].pc = "abandon" /\ pending' = <<>> /\ open' = 0 /\ lock' = None
        /\ st' = IF open = 0 THEN st ELSE Becomes(Joined(open), "dropped")
        /\ req' = [req EXCEPT ![p].pc = "stopped"]
        /\ UNCHANGED <<token, svc, latch, closed, order, seen, batch, held, writer, flush, drive>>
    BY DEF AbandonPending, Put
  <1>2. /\ req' \in [Procs -> ReqType] /\ req'[p].pc = "stopped"
        /\ req'[p].carry = req[p].carry /\ req'[p].admit = req[p].admit
        /\ \A q \in Procs \ {p} : req'[q] = req[q]
    <2>1. req \in [Procs -> ReqType]
      BY DEF Typed, TypeOK, RequestTypeOK, ReqType
    <2>2. QED
      BY <1>1, <2>1 DEF ReqType, RequestState
  <1>3. Busy(p) /\ latch # "none" /\ \A q \in Procs : (Busy(q)' <=> Busy(q)) /\ (q # p => ~ Busy(q))
    <2>1. Busy(p) /\ latch # "none"
      BY <1>1 DEF Busy, LatchStopsRequests
    <2>2. \A q \in Procs : q # p => ~ Busy(q)
      BY <2>1, OneRequest
    <2>3. QED
      BY <1>2, <2>1, <2>2 DEF Busy
  <1>4. /\ st' \in [Contributors \cup {Final} -> WriteState] /\ st'[Final] = st[Final]
        /\ \A w \in Contributors : IF open # 0 /\ batch[w] = open /\ st[w] = "joined"
                                    THEN st'[w] = "dropped" ELSE st'[w] = st[w]
    BY <1>1 DEF Becomes, Joined, Typed, TypeOK, WriteState
  <1>5. /\ Entered' = Entered /\ Recorded' = Recorded /\ LastBatch' = LastBatch
        /\ \A v : IsBehind(v)' <=> IsBehind(v)
        /\ \A q \in Procs : (Sending(q)' <=> Sending(q)) /\ (Claims(q)' <=> Claims(q))
    BY <1>1 DEF Entered, Recorded, LastBatch, IsBehind, Sending, Claims
  <1>6. Panicked' <=> Panicked
    BY <1>1, <1>2 DEF Panicked
  <1>7. Typed'
    <2>1. RequestTypeOK'
      BY <1>1, <1>2 DEF Typed, TypeOK, RequestTypeOK, ReqType
    <2>2. pending' \in Seq(Writes) /\ open' \in Nat
      BY <1>1
    <2>3. QED
      BY <1>1, <1>4, <2>1, <2>2 DEF Typed, TypeOK
  <1>8. RequestsHaveOwners'
    <2>1. \A f \in Procs : /\ req'[f].carry = req[f].carry /\ req'[f].admit = req[f].admit
                           /\ req'[f].pc = "panicked" <=> req[f].pc = "panicked"
      BY <1>1, <1>2
    <2>2. QED
      BY <1>1, <1>3, <1>4, <1>5, <1>6, <2>1 DEF RequestsHaveOwners
  <1>9. LatchStopsRequests'
    BY <1>1, <1>2, <1>3 DEF LatchStopsRequests
  <1>10. BatchesAreCounted'
    BY <1>1, <1>4, <1>5 DEF BatchesAreCounted, IsLast
  <1>11. UpdatesAreHeld'
    <2>1. ASSUME NEW w \in Writes, st'[w] = "joined"
          PROVE  \E f \in Procs : /\ Sending(f)' /\ batch'[w] = flush'[f].target
                                  /\ w \in ToSet(req'[f].carry) \cup ToSet(flush'[f].rest) \cup Recorded'
      <3>1. st[w] = "joined" /\ ~ (open # 0 /\ batch[w] = open)
        BY <1>4, <2>1
      <3>2. PICK f \in Procs : /\ Sending(f) /\ batch[w] = flush[f].target
                               /\ w \in ToSet(req[f].carry) \cup ToSet(flush[f].rest) \cup Recorded
        BY <3>1 DEF UpdatesAreHeld
      <3>3. req'[f].carry = req[f].carry
        BY <1>2
      <3>4. QED
        BY <1>1, <1>5, <3>2, <3>3
    <2>2. \A q \in Procs : req'[q].pc \notin {"accepted", "paging", "ok"}
      BY <1>2, <1>3 DEF Busy
    <2>3. \A w \in Updates : st'[w] = "resolved" => w \in Recorded
      BY <1>4 DEF UpdatesAreHeld
    <2>4. QED
      BY <1>1, <1>3, <1>5, <2>1, <2>2, <2>3 DEF UpdatesAreHeld
  <1>12. OrderIsKept'
    <2>1. \A q \in Procs : ~ Unsent(q)'
      BY <1>2, <1>3 DEF Unsent, Busy
    <2>2. /\ Ready(pending)' /\ \A s : Precedes(s, pending')
      BY <1>1 DEF Ready, Sorted, Precedes
    <2>3. ASSUME NEW f \in Procs, Sending(f)
          PROVE  Ready(flush[f].rest)' /\ Precedes(flush[f].rest, pending)'
      BY <1>1, <1>5, <2>2, <2>3 DEF OrderIsKept, Ready, Sorted, Precedes
    <2>4. Once(order)' /\ Recorded' \subseteq Entered' /\ Sorted(svc.journal)'
      BY <1>1, <1>5 DEF OrderIsKept, Once, Sorted
    <2>5. \A w \in Entered' : st'[w] # "new"
      <3>1. \A w \in Entered : w \in Contributors \cup {Final}
        BY DEF Entered, ToSet, Typed, TypeOK
      <3>2. QED
        BY <1>4, <1>5, <3>1 DEF OrderIsKept
    <2>6. QED
      BY <1>5, <2>1, <2>2, <2>3, <2>4, <2>5 DEF OrderIsKept
  <1>13. JoinsAreSilent'
    BY <1>1 DEF JoinsAreSilent, OwnersOf
  <1>14. QED
    BY <1>7, <1>8, <1>9, <1>10, <1>11, <1>12, <1>13

\* After the last flush nothing is under way.
LEMMA FlushedIsQuiet ==
  ASSUME BatchInv, drive = "flushed"
  PROVE  /\ \A f \in Procs : ~ Sending(f) /\ ~ Claims(f) /\ flush[f].pc \in {"off", "gone"}
         /\ \A f \in Procs \ {Caller} : ~ Busy(f)
         /\ Busy(Caller) => st[Final] = "joined" /\ req[Caller].carry = <<Final>>
         /\ ~ Panicked
  <1>1. \A f \in Procs : flush[f].pc \in {"off", "gone"}
    BY ConstantFacts DEF BatchInv, RequestsHaveOwners
  <1>2. QED
    BY <1>1, ConstantFacts DEF BatchInv, RequestsHaveOwners, Sending, Claims

LEMMA ResultKeepsBatch ==
  ASSUME BatchInv, WriteResult
  PROVE  BatchInv'
  <1> USE ConstantFacts DEF BatchInv
  <1>1. /\ drive = "flushed" /\ st[Final] = "new"
        /\ st' = Becomes({Final}, "joined") /\ order' = Append(order, Final)
        /\ req' = [req EXCEPT ![Caller] = [pc |-> "locking", carry |-> <<Final>>, token |-> 0, admit |-> TRUE]]
        /\ UNCHANGED <<token, lock, svc, latch, closed, seen, pending, batch, open, held, writer, flush, drive>>
    BY DEF WriteResult, Starts
  <1>2. /\ \A f \in Procs : ~ Sending(f) /\ ~ Claims(f) /\ flush[f].pc \in {"off", "gone"}
        /\ \A f \in Procs : ~ Busy(f)
        /\ ~ Panicked
    BY <1>1, FlushedIsQuiet
  <1>3. /\ st' \in [Contributors \cup {Final} -> WriteState] /\ st'[Final] = "joined"
        /\ \A v \in Contributors : st'[v] = st[v]
    BY <1>1 DEF Becomes, Typed, TypeOK, WriteState
  <1>4. /\ req' \in [Procs -> ReqType] /\ req'[Caller].pc = "locking" /\ req'[Caller].carry = <<Final>>
        /\ \A q \in Procs \ {Caller} : req'[q] = req[q]
    <2>1. <<Final>> \in Seq(Updates)
      OBVIOUS
    <2>2. [pc |-> "locking", carry |-> <<Final>>, token |-> 0, admit |-> TRUE] \in ReqType
      BY <2>1 DEF ReqType, RequestState
    <2>3. QED
      BY <1>1, <2>2 DEF Typed, TypeOK, RequestTypeOK, ReqType
  <1>5. Final \notin Entered
    BY <1>1 DEF OrderIsKept
  <1>6. /\ order' \in Seq(Updates) /\ Once(order') /\ Entered' = Entered \cup {Final} /\ Recorded' = Recorded
        /\ IsBehind(Final)' /\ Sorted(svc.journal)'
        /\ DOMAIN order' = 1 .. Len(order) + 1 /\ DOMAIN order = 1 .. Len(order) /\ Len(order) \in Nat
        /\ \A n \in DOMAIN order : order'[n] = order[n] /\ order[n] \in Entered
        /\ order'[Len(order) + 1] = Final
    BY <1>1, <1>5, EntryKeepsOrder
  <1>7. LastBatch' = LastBatch /\ \A f \in Procs : ~ Sending(f)' /\ ~ Claims(f)'
    BY <1>1, <1>2 DEF LastBatch, Sending, Claims
  <1>8. \A q \in Procs \ {Caller} : ~ Busy(q)' /\ ~ Unsent(q)'
    BY <1>2, <1>4 DEF Busy, Unsent
  <1>9. Typed'
    <2>1. RequestTypeOK'
      BY <1>1, <1>4 DEF Typed, TypeOK, RequestTypeOK, ReqType
    <2>2. QED
      BY <1>1, <1>3, <1>6, <2>1 DEF Typed, TypeOK
  <1>10. ~ Panicked'
    BY <1>2, <1>4 DEF Panicked
  <1>11. RequestsHaveOwners'
    BY <1>1, <1>2, <1>3, <1>4, <1>7, <1>8, <1>10 DEF RequestsHaveOwners, Panicked
  <1>12. LatchStopsRequests'
    BY <1>1, <1>4 DEF LatchStopsRequests
  <1>13. BatchesAreCounted'
    BY <1>1, <1>3, <1>7 DEF BatchesAreCounted, IsLast
  <1>14. UpdatesAreHeld'
    <2>1. \A w \in Writes : st'[w] = "joined" => batch[w] = open /\ open # 0 /\ w \in ToSet(pending)
      BY <1>2, <1>3 DEF UpdatesAreHeld
    <2>2. \A p \in Procs : req'[p].pc \notin {"accepted", "paging", "ok"}
      BY <1>2, <1>4 DEF Busy
    <2>3. \A w \in Updates : st'[w] = "resolved" => w \in Recorded
      BY <1>3 DEF UpdatesAreHeld
    <2>4. ASSUME NEW w \in Entered', st'[w] = "dropped" PROVE latch # "none"
      <3>1. \A v \in Entered : v \in Contributors \cup {Final}
        BY DEF Entered, ToSet, Typed, TypeOK
      <3>2. w \in Entered /\ w \in Contributors
        BY <1>3, <1>6, <2>4, <3>1
      <3>3. QED
        BY <1>2, <1>3, <2>4, <3>2 DEF UpdatesAreHeld
    <2>5. QED
      BY <1>1, <1>6, <2>1, <2>2, <2>3, <2>4 DEF UpdatesAreHeld
  <1>15. OrderIsKept'
    <2>1. Ready(req[Caller].carry)'
      BY <1>4, <1>6 DEF Ready, Sorted
    <2>2. \A w \in Entered' : st'[w] # "new"
      <3>1. \A w \in Entered : w \in Contributors \cup {Final}
        BY DEF Entered, ToSet, Typed, TypeOK
      <3>2. QED
        BY <1>3, <1>6, <3>1 DEF OrderIsKept
    <2>3. QED
      BY <1>1, <1>6, <1>7, <1>8, <2>1, <2>2 DEF OrderIsKept
  <1>16. JoinsAreSilent'
    <2>1. OwnersOf(Final) = {} /\ \A w : OwnersOf(w)' = OwnersOf(w)
      BY DEF OwnersOf
    <2>2. ASSUME NEW i \in DOMAIN order', NEW j \in DOMAIN order', i < j
          PROVE  OwnersOf(order'[j]) \cap seen[order'[i]] = {}
      <3>1. i \in DOMAIN order /\ (j \in DOMAIN order \/ j = Len(order) + 1)
        BY <1>6, <2>2
      <3>2. QED
        BY <1>6, <2>1, <2>2, <3>1 DEF JoinsAreSilent
    <2>3. QED
      BY <1>1, <2>1, <2>2 DEF JoinsAreSilent
  <1>17. QED
    BY <1>9, <1>11, <1>12, <1>13, <1>14, <1>15, <1>16

LEMMA EndResultKeepsBatch ==
  ASSUME BatchInv, EndResult
  PROVE  BatchInv'
  <1> USE ConstantFacts DEF BatchInv
  <1>1. /\ st[Final] = "joined" /\ req[Caller].pc \in {"ok", "stopped"}
        /\ st' = Becomes({Final}, IF req[Caller].pc = "ok" THEN "resolved" ELSE "dropped")
        /\ req' = [req EXCEPT ![Caller] = NoRequest]
        /\ UNCHANGED <<token, lock, svc, latch, closed, order, seen, pending, batch, open, held, writer, flush, drive>>
    BY DEF EndResult, EndsRequest, bufferVars
  <1>2. drive = "flushed"
    BY <1>1 DEF RequestsHaveOwners
  <1>3. /\ \A f \in Procs : ~ Sending(f) /\ ~ Claims(f) /\ flush[f].pc \in {"off", "gone"}
        /\ \A f \in Procs \ {Caller} : ~ Busy(f)
        /\ req[Caller].carry = <<Final>>
        /\ ~ Panicked
    BY <1>1, <1>2, FlushedIsQuiet DEF Busy
  <1>4. /\ st' \in [Contributors \cup {Final} -> WriteState]
        /\ st'[Final] = (IF req[Caller].pc = "ok" THEN "resolved" ELSE "dropped")
        /\ \A v \in Contributors : st'[v] = st[v]
    BY <1>1 DEF Becomes, Typed, TypeOK, WriteState
  <1>5. /\ req' \in [Procs -> ReqType] /\ req'[Caller].pc = "idle"
        /\ \A q \in Procs \ {Caller} : req'[q] = req[q]
    <2>1. NoRequest \in ReqType /\ NoRequest.pc = "idle"
      BY DEF NoRequest, ReqType, RequestState
    <2>2. QED
      BY <1>1, <2>1 DEF Typed, TypeOK, RequestTypeOK, ReqType
  <1>6. /\ Entered' = Entered /\ Recorded' = Recorded /\ LastBatch' = LastBatch
        /\ \A v : IsBehind(v)' <=> IsBehind(v)
        /\ \A q \in Procs : ~ Sending(q)' /\ ~ Claims(q)'
    BY <1>1, <1>3 DEF Entered, Recorded, LastBatch, IsBehind, Sending, Claims
  <1>7. ~ Panicked' /\ \A q \in Procs : ~ Busy(q)'
    BY <1>3, <1>5 DEF Panicked, Busy
  <1>8. Typed'
    <2>1. RequestTypeOK'
      BY <1>1, <1>5 DEF Typed, TypeOK, RequestTypeOK, ReqType
    <2>2. QED
      BY <1>1, <1>4, <2>1 DEF Typed, TypeOK
  <1>9. RequestsHaveOwners'
    BY <1>1, <1>2, <1>3, <1>6, <1>7 DEF RequestsHaveOwners, Panicked
  <1>10. LatchStopsRequests'
    <2>1. \A q \in Procs : req'[q].pc \in {"idle", "panicked"}
      BY <1>7 DEF Busy
    <2>2. QED
      BY <2>1 DEF LatchStopsRequests
  <1>11. BatchesAreCounted'
    BY <1>1, <1>4, <1>6 DEF BatchesAreCounted, IsLast
  <1>12. UpdatesAreHeld'
    <2>1. \A w \in Writes : st'[w] = "joined" => batch[w] = open /\ open # 0 /\ w \in ToSet(pending)
      BY <1>3, <1>4 DEF UpdatesAreHeld
    <2>2. \A p \in Procs : req'[p].pc \notin {"accepted", "paging", "ok"}
      BY <1>7 DEF Busy
    <2>3. req[Caller].pc = "ok" => Final \in Recorded
      <3>1. Final \in ToSet(<<Final>>)
        BY DEF ToSet
      <3>2. QED
        BY <1>3, <3>1 DEF UpdatesAreHeld
    <2>4. \A w \in Updates : st'[w] = "resolved" => w \in Recorded
      BY <1>4, <2>3 DEF UpdatesAreHeld
    <2>5. ASSUME NEW w \in Entered, st'[w] = "dropped" PROVE latch # "none"
      <3>1. w \in Contributors \cup {Final}
        BY DEF Entered, ToSet, Typed, TypeOK
      <3>2. req[Caller].pc # "ok" => latch # "none"
        BY <1>1 DEF LatchStopsRequests
      <3>3. QED
        BY <1>3, <1>4, <2>5, <3>1, <3>2 DEF UpdatesAreHeld
    <2>6. QED
      BY <1>1, <1>6, <2>1, <2>2, <2>4, <2>5 DEF UpdatesAreHeld
  <1>13. OrderIsKept'
    <2>1. \A q \in Procs : ~ Unsent(q)'
      BY <1>7 DEF Unsent, Busy
    <2>2. Once(order)' /\ Recorded' \subseteq Entered' /\ Sorted(svc.journal)'
      BY <1>1, <1>6 DEF OrderIsKept, Once, Sorted
    <2>3. \A w \in Entered' : st'[w] # "new"
      <3>1. \A w \in Entered : w \in Contributors \cup {Final}
        BY DEF Entered, ToSet, Typed, TypeOK
      <3>2. QED
        BY <1>4, <1>6, <3>1 DEF OrderIsKept
    <2>4. QED
      BY <1>1, <1>2, <1>6, <2>1, <2>2, <2>3 DEF OrderIsKept
  <1>14. JoinsAreSilent'
    BY <1>1 DEF JoinsAreSilent, OwnersOf
  <1>15. QED
    BY <1>8, <1>9, <1>10, <1>11, <1>12, <1>13, <1>14

LEMMA BatchInvNext == ASSUME BatchInv, [Next]_vars PROVE BatchInv'
  <1>1. ASSUME NEW w \in Contributors, NEW urgent \in BOOLEAN, NEW reserve \in BOOLEAN,
               Join(w, urgent, reserve)
        PROVE  BatchInv'
    <2>1. CASE Rejected(w)
      BY <1>1, <2>1, RejectedKeepsBatch DEF Join
    <2>2. CASE ~ Rejected(w)
      <3>1. /\ w = Refresh \/ AdmittedByScopes(<<w>>)
            /\ drive = "open" /\ latch = "none" /\ st[w] = "new"
            /\ w = Refresh => ~ reserve
            /\ UNCHANGED <<requestVars, writer, drive>>
            /\ JoinsBatch(w, IF open = 0 THEN LastBatch + 1 ELSE open, urgent, reserve)
        BY <1>1, <2>2 DEF Join
      <3>2. PICK b : b = IF open = 0 THEN LastBatch + 1 ELSE open
        OBVIOUS
      <3>3. JoinsBatch(w, b, urgent, reserve)
        BY <3>1, <3>2 DEF JoinsBatch, Spawns
      <3>4. QED
        BY <3>1, <3>2, <3>3, <1>1, JoinKeepsBatch
    <2>3. QED
      BY <2>1, <2>2
  <1>2. ASSUME NEW f \in Procs, BufferStep(f) \/ Unwind(f) PROVE BatchInv'
    BY <1>2, WindowKeepsBatch, ClaimKeepsBatch, ClaimsNothingKeepsBatch, NextChunkKeepsBatch,
       PublicationKeepsBatch, AbandonKeepsBatch DEF BufferStep
  <1>3. CASE UNCHANGED vars
    <2>1. UNCHANGED <<requestVars, st, bufferVars, writer, flush, drive>>
      BY <1>3 DEF vars
    <2>2. Typed' /\ RequestsHaveOwners' /\ \A f \in Procs : Sending(f)' <=> Sending(f)
      BY <2>1 DEF BatchInv, Typed, TypeOK, RequestTypeOK, RequestsHaveOwners, Claims, Sending, Busy, Panicked,
                  requestVars, bufferVars
    <2>3. QED
      BY <2>1, <2>2, QuietKeepsBatch DEF requestVars, bufferVars
  <1>4. QED
    BY <1>1, <1>2, <1>3, ReleaseKeepsBatch, CloseScopeKeepsBatch, RequestKeepsBatch, DriveKeepsBatch,
       ResultKeepsBatch, EndResultKeepsBatch DEF Next

LEMMA BatchInvAlways == Spec => []BatchInv
  BY BatchInvInit, BatchInvNext, PTL DEF Spec

(***************************************************************************)
(* What follows from it.                                                   *)
(***************************************************************************)
\* The buffer, the flushers and the history of the joins are typed.
THEOREM BatchesAreTyped == Spec => []TypeOK
  BY BatchInvAlways, PTL DEF BatchInv, Typed

\* Once an update that joined after a scope closed is recorded, no update of
\* that scope follows it, although the flushers check no admission: the join
\* checks it under the buffer lock, and the order of the joins is kept
\* (context.rs: join_batch; checkpoint_coalescer.rs: split_into_requests).
THEOREM ClosedScopesStaySilent == Spec => []ClosedScopeIsSilent
  <1>1. BatchInv => ClosedScopeIsSilent
    <2> SUFFICES ASSUME BatchInv, NEW m \in DOMAIN svc.journal, NEW n \in DOMAIN svc.journal, m < n
                 PROVE  OwnersOf(svc.journal[n]) \cap seen[svc.journal[m]] = {}
      BY DEF ClosedScopeIsSilent
    <2>1. svc.journal[m] \in Entered /\ svc.journal[n] \in Entered
      BY DEF BatchInv, OrderIsKept, Recorded, ToSet
    <2>2. /\ At(order, svc.journal[m]) \in DOMAIN order /\ order[At(order, svc.journal[m])] = svc.journal[m]
          /\ At(order, svc.journal[n]) \in DOMAIN order /\ order[At(order, svc.journal[n])] = svc.journal[n]
      BY <2>1, AtInDomain DEF Entered
    <2>3. At(order, svc.journal[m]) < At(order, svc.journal[n])
      BY DEF BatchInv, OrderIsKept, Sorted
    <2>4. QED
      BY <2>2, <2>3 DEF BatchInv, JoinsAreSilent
  <1>2. QED
    BY <1>1, BatchInvAlways, PTL

\* When the last flush is over and no failure and no withdrawal stopped the
\* writes, every update that joined is recorded (lib.rs: the flush before the
\* invocation answers).
THEOREM AnswersFollowBuffer == Spec => []AnswerFollowsBuffer
  <1>1. BatchInv => AnswerFollowsBuffer
    <2> SUFFICES ASSUME BatchInv, drive = "flushed", latch = "none", NEW w \in Entered, w # Final
                 PROVE  w \in Recorded
      BY DEF AnswerFollowsBuffer, Entered, Recorded
    <2>1. w \in Writes /\ w \in Updates /\ st[w] \in WriteState
      <3>1. w \in Updates
        BY DEF Entered, ToSet, BatchInv, Typed, TypeOK
      <3>2. w \in Writes
        BY <3>1, ConstantFacts
      <3>3. QED
        BY <3>1, <3>2, ConstantFacts DEF BatchInv, Typed, TypeOK
    <2>2. st[w] # "new" /\ st[w] # "dropped"
      BY FlushedIsQuiet DEF BatchInv, OrderIsKept, UpdatesAreHeld
    <2>3. st[w] # "joined"
      <3>1. pending = <<>> /\ \A f \in Procs : ~ Sending(f)
        BY FlushedIsQuiet DEF BatchInv, UpdatesAreHeld
      <3>2. ToSet(pending) = {}
        BY <3>1 DEF ToSet
      <3>3. QED
        BY <2>1, <3>1, <3>2 DEF BatchInv, UpdatesAreHeld
    <2>4. st[w] = "resolved"
      BY <2>1, <2>2, <2>3 DEF WriteState
    <2>5. QED
      BY <2>1, <2>4 DEF BatchInv, UpdatesAreHeld
  <1>2. QED
    BY <1>1, BatchInvAlways, PTL

(***************************************************************************)
(* The token.                                                              *)
(***************************************************************************)
\* While nothing stopped the writes, the kept token is the service's unless
\* an answer is under way, or the result of the execution was sent; a request
\* that is sent, or fetches pages, carries it.
TokenIsKept ==
  ~ Panicked /\ latch = "none" =>
    /\ \A p \in Procs : req[p].pc \in {"sending", "paging"} => req[p].token = svc.token
    /\ /\ \A p \in Procs : req[p].pc # "accepted"
       /\ st[Final] = "new" \/ req[Caller].pc \in {"locking", "sending"}
       => token = svc.token

TokenInv == BatchInv /\ TokenIsKept

\* Steps that end a request, start one, or leave them alone.
LEMMA OthersKeepToken ==
  ASSUME TokenIsKept, UNCHANGED <<token, svc, latch>>, Panicked => Panicked',
         \A p \in Procs : /\ req'[p].pc \in {"sending", "paging"} => req'[p] = req[p]
                          /\ req[p].pc = "accepted" => req'[p].pc = "accepted",
         st'[Final] = "new" \/ req'[Caller].pc \in {"locking", "sending"}
           => st[Final] = "new" \/ req[Caller].pc \in {"locking", "sending"}
  PROVE  TokenIsKept'
  <1>1. \A p \in Procs : req'[p].pc # "accepted" => req[p].pc # "accepted"
    OBVIOUS
  <1>2. QED
    BY <1>1 DEF TokenIsKept

LEMMA RequestKeepsToken ==
  ASSUME TokenInv, NEW p \in Procs, RequestStep(p), UNCHANGED <<st, bufferVars, writer, flush, drive>>
  PROVE  TokenIsKept'
  <1>1. /\ req \in [Procs -> ReqType] /\ token \in Nat /\ svc.token \in Nat
        /\ BatchInv /\ TokenIsKept /\ RequestsHaveOwners /\ st' = st
    BY DEF TokenInv, BatchInv, Typed, TypeOK, RequestTypeOK, ReqType
  <1>2. RequestShape(p)
    BY <1>1, RequestStepShape
  <1>3. Busy(p) /\ \A q \in Procs \ {p} : ~ Busy(q) /\ req'[q] = req[q]
    <2>1. Busy(p)
      BY <1>2 DEF RequestShape, Moves, Busy
    <2>2. QED
      BY <1>1, <1>2, <2>1, OneRequest DEF RequestShape
  <1>4. \A q \in Procs \ {p} : req'[q].pc \in {"idle", "panicked"}
    BY <1>3 DEF Busy
  <1>5. req'[p].pc # "panicked"
    BY <1>2 DEF RequestShape, Moves
  <1>6. (Panicked' => Panicked)
    BY <1>3, <1>5 DEF Panicked
  <1>7. p = Caller \/ st[Final] = "new"
    BY <1>1, <1>3, FlushedIsQuiet DEF RequestsHaveOwners
  <1>8. p # Caller => req'[Caller].pc \notin {"locking", "sending"}
    BY <1>4, ConstantFacts
  <1>9. CASE latch' # "none"
    BY <1>9 DEF TokenIsKept
  <1>10. CASE Panicked
    <2>1. PICK q \in Procs : req[q].pc = "panicked"
      BY <1>10 DEF Panicked
    <2>2. q # p
      BY <1>3, <2>1 DEF Busy
    <2>3. Panicked'
      BY <1>3, <2>1, <2>2 DEF Panicked
    <2>4. QED
      BY <2>3 DEF TokenIsKept
  <1>11. CASE latch' = "none" /\ ~ Panicked
    <2>1. CASE TakeLock(p)
      <3>1. req[p].pc = "locking" /\ UNCHANGED <<token, svc, latch>>
        BY <2>1 DEF TakeLock
      <3>2. token = svc.token
        BY <1>1, <1>3, <1>7, <1>11, <3>1 DEF TokenIsKept, Busy
      <3>3. req'[p].pc = "sending" => req'[p].token = token
        BY <1>1, <2>1 DEF TakeLock, Put, ReqType, RequestState
      <3>4. req'[p].pc # "paging"
        BY <1>2, <3>1 DEF RequestShape, Moves
      <3>5. QED
        BY <1>4, <3>1, <3>2, <3>3, <3>4 DEF TokenIsKept
    <2>2. CASE ServiceAccepts(p)
      <3>1. req'[p].pc = "accepted"
        BY <1>1, <2>2, PutFacts DEF ServiceAccepts, RequestState
      <3>2. QED
        BY <1>4, <3>1 DEF TokenIsKept
    <2>3. CASE CallFails(p)
      BY <1>11, <2>3 DEF CallFails
    <2>4. CASE Answered(p)
      <3>1. token' = svc'.token /\ svc' = svc
        BY <2>4 DEF Answered
      <3>2. req'[p].pc = "ok" \/ (req'[p].pc = "paging" /\ req'[p].token = svc.token)
        <4>1. CASE Put(p, "ok")
          BY <1>1, <4>1, PutFacts DEF RequestState
        <4>2. CASE req' = [req EXCEPT ![p].pc = "paging", ![p].token = svc.token]
          BY <1>1, <4>2 DEF ReqType
        <4>3. QED
          BY <2>4, <4>1, <4>2 DEF Answered
      <3>3. QED
        BY <1>4, <3>1, <3>2 DEF TokenIsKept
    <2>5. CASE PagesMerged(p)
      <3>1. req[p].pc = "paging" /\ req'[p].pc = "ok" /\ UNCHANGED <<token, svc, latch>>
        BY <1>1, <2>5, PutFacts DEF PagesMerged, RequestState
      <3>2. \A q \in Procs : req[q].pc # "accepted"
        BY <1>3, <3>1 DEF Busy
      <3>3. st[Final] = "new" => token = svc.token
        BY <1>1, <1>11, <3>1, <3>2 DEF TokenIsKept
      <3>4. QED
        BY <1>1, <1>4, <1>7, <1>8, <3>1, <3>3 DEF TokenIsKept
    <2>6. CASE Tokenless(p)
      <3>1. req'[p].pc = "ok" /\ req[p].carry = <<Final>>
        <4>1. CASE req[p].carry = <<Final>> /\ Put(p, "ok")
          BY <1>1, <4>1, PutFacts DEF RequestState
        <4>2. CASE latch' = "withdrawn"
          BY <1>11, <4>2
        <4>3. QED
          BY <2>6, <4>1, <4>2 DEF Tokenless
      <3>2. ~ Sending(p)
        <4>1. <<Final>> \notin Seq(Writes)
          BY ConstantFacts
        <4>2. QED
          BY <1>1, <3>1, <4>1 DEF RequestsHaveOwners
      <3>3. p = Caller /\ st[Final] = "joined"
        BY <1>1, <1>3, <3>2 DEF RequestsHaveOwners
      <3>4. QED
        BY <1>1, <1>4, <3>1, <3>3 DEF TokenIsKept
    <2>7. QED
      BY <2>1, <2>2, <2>3, <2>4, <2>5, <2>6 DEF RequestStep
  <1>12. QED
    BY <1>9, <1>10, <1>11

\* A request starts after the one before it, and before the result was sent.
LEMMA StartKeepsToken ==
  ASSUME TokenInv, NEW f \in Procs, NEW carry, NEW admit, Starts(f, carry, admit), UNCHANGED <<token, svc, latch>>,
         ~ Busy(f) \/ req[f].pc = "ok", st[Final] = "new", req[f].pc # "panicked"
  PROVE  TokenIsKept'
  <1>1. req \in [Procs -> ReqType] /\ TokenIsKept
    BY DEF TokenInv, BatchInv, Typed, TypeOK, RequestTypeOK, ReqType
  <1>2. req'[f].pc = "locking" /\ \A q \in Procs \ {f} : req'[q] = req[q]
    BY <1>1 DEF Starts
  <1>3. req[f].pc # "accepted"
    BY DEF Busy
  <1>4. Panicked => Panicked'
    BY <1>2 DEF Panicked
  <1>5. QED
    BY <1>1, <1>2, <1>3, <1>4, OthersKeepToken

\* The writes of the buffer start and end their requests.
LEMMA BufferKeepsToken ==
  ASSUME TokenInv, NEW f \in Procs, BufferStep(f) \/ Unwind(f)
  PROVE  TokenIsKept'
  <1>1. /\ req \in [Procs -> ReqType] /\ BatchInv /\ TokenIsKept /\ RequestsHaveOwners
        /\ st \in [Contributors \cup {Final} -> WriteState] /\ Final \notin Contributors
    BY ConstantFacts DEF TokenInv, BatchInv, Typed, TypeOK, RequestTypeOK, ReqType
  <1>2. \A b, state : Becomes(Joined(b), state)[Final] = st[Final]
    BY <1>1 DEF Becomes, Joined
  <1>3. Claims(f) => st[Final] = "new"
    BY <1>1, FlushedIsQuiet DEF RequestsHaveOwners
  <1>4. CASE WindowEnds(f) \/ TakeWriter(f) \/ WaitUnheld(f) \/ ClaimsNothing(f)
    <2>1. UNCHANGED <<token, svc, latch, req, st>>
      BY <1>4 DEF WindowEnds, TakeWriter, WaitUnheld, ClaimsNothing, requestVars
    <2>2. QED
      BY <1>1, <2>1, OthersKeepToken DEF Panicked
  <1>5. CASE Claim(f)
    <2>1. /\ flush[f].pc = "claim" /\ UNCHANGED <<token, svc, latch>>
          /\ Starts(f, SubSeq(pending, 1, Smaller(MaxOps, Len(pending))), FALSE)
      BY <1>5 DEF Claim, SendsChunk
    <2>2. ~ Busy(f) /\ req[f].pc # "panicked"
      BY <1>1, <2>1, FlushedIsQuiet DEF RequestsHaveOwners, Sending, Claims
    <2>3. QED
      BY <1>3, <2>1, <2>2, StartKeepsToken DEF Claims
  <1>6. CASE NextChunk(f)
    <2>1. /\ Sending(f) /\ req[f].pc = "ok" /\ UNCHANGED <<token, svc, latch>>
          /\ Starts(f, SubSeq(flush[f].rest, 1, Smaller(MaxOps, Len(flush[f].rest))), FALSE)
      BY <1>6 DEF NextChunk, SendsChunk
    <2>2. QED
      BY <1>3, <2>1, StartKeepsToken DEF Claims, Sending
  <1>7. CASE Publish(f) \/ StopBatch(f)
    <2>1. /\ req[f].pc \in {"ok", "stopped"} /\ req' = [req EXCEPT ![f] = NoRequest]
          /\ UNCHANGED <<token, svc, latch>> /\ st'[Final] = st[Final]
      BY <1>2, <1>7 DEF Publish, StopBatch, EndsRequest
    <2>2. req'[f].pc = "idle" /\ \A q \in Procs \ {f} : req'[q] = req[q]
      BY <1>1, <2>1 DEF NoRequest
    <2>3. Panicked => Panicked'
      BY <2>1, <2>2 DEF Panicked
    <2>4. QED
      BY <1>1, <2>1, <2>2, <2>3, OthersKeepToken
  <1>8. CASE AbandonPending(f)
    BY <1>1, <1>8 DEF AbandonPending, BatchInv, LatchStopsRequests, TokenIsKept
  <1>9. CASE Unwind(f)
    <2>1. req'[f].pc = "panicked"
      BY <1>1, <1>9, PutFacts DEF Unwind, ClientPanics, RequestState
    <2>2. QED
      BY <2>1 DEF TokenIsKept, Panicked
  <1>10. QED
    BY <1>4, <1>5, <1>6, <1>7, <1>8, <1>9 DEF BufferStep

LEMMA ResultKeepsToken ==
  ASSUME TokenInv, WriteResult \/ EndResult
  PROVE  TokenIsKept'
  <1>1. req \in [Procs -> ReqType] /\ BatchInv /\ TokenIsKept /\ Caller \in Procs
        /\ st \in [Contributors \cup {Final} -> WriteState]
    BY ConstantFacts DEF TokenInv, BatchInv, Typed, TypeOK, RequestTypeOK, ReqType
  <1>2. CASE WriteResult
    <2>1. /\ drive = "flushed" /\ st[Final] = "new" /\ Starts(Caller, <<Final>>, TRUE)
          /\ UNCHANGED <<token, svc, latch>>
      BY <1>2 DEF WriteResult
    <2>2. ~ Busy(Caller) /\ req[Caller].pc # "panicked"
      BY <1>1, <2>1, FlushedIsQuiet DEF Panicked
    <2>3. QED
      BY <1>1, <2>1, <2>2, StartKeepsToken
  <1>3. CASE EndResult
    <2>1. /\ req[Caller].pc \in {"ok", "stopped"} /\ req' = [req EXCEPT ![Caller] = NoRequest]
          /\ UNCHANGED <<token, svc, latch>>
          /\ st' = Becomes({Final}, IF req[Caller].pc = "ok" THEN "resolved" ELSE "dropped")
      BY <1>3 DEF EndResult, EndsRequest
    <2>2. req'[Caller].pc = "idle" /\ \A q \in Procs \ {Caller} : req'[q] = req[q]
      BY <1>1, <2>1 DEF NoRequest
    <2>3. st'[Final] # "new"
      BY <1>1, <2>1 DEF Becomes
    <2>4. Panicked => Panicked'
      BY <2>1, <2>2 DEF Panicked
    <2>5. QED
      BY <1>1, <2>1, <2>2, <2>3, <2>4, OthersKeepToken
  <1>4. QED
    BY <1>2, <1>3

LEMMA TokenInvNext == ASSUME TokenInv, [Next]_vars PROVE TokenInv'
  <1>1. BatchInv' /\ TokenIsKept
    BY BatchInvNext DEF TokenInv
  <1>2. /\ st \in [Contributors \cup {Final} -> WriteState] /\ Final \notin Contributors
    BY ConstantFacts DEF TokenInv, BatchInv, Typed, TypeOK
  <1>3. ASSUME UNCHANGED <<token, svc, latch, req>>, st'[Final] = st[Final]
        PROVE  TokenIsKept'
    BY <1>1, <1>3, OthersKeepToken DEF Panicked
  <1>4. ASSUME NEW w \in Contributors, NEW urgent \in BOOLEAN, NEW reserve \in BOOLEAN,
               Join(w, urgent, reserve)
        PROVE  TokenIsKept'
    <2>1. st' = Becomes({w}, "joined") \/ st' = Becomes({w}, "dropped")
      BY <1>4 DEF Join, JoinsBatch, Rejected
    <2>2. UNCHANGED <<token, svc, latch, req>> /\ st'[Final] = st[Final]
      BY <1>2, <1>4, <2>1 DEF Join, Becomes, requestVars
    <2>3. QED
      BY <1>3, <2>2
  <1>5. ASSUME NEW w \in Writes, ReleaseHold(w)
        PROVE  TokenIsKept'
    BY <1>3, <1>5 DEF ReleaseHold, requestVars
  <1>6. ASSUME NEW s \in Scopes, CloseScope(s), UNCHANGED <<st, bufferVars, writer, flush, drive>>
        PROVE  TokenIsKept'
    BY <1>3, <1>6 DEF CloseScope
  <1>7. CASE DriveEnds \/ DriveReturns \/ LastFlush \/ UNCHANGED vars
    <2>1. UNCHANGED <<token, svc, latch, req>> /\ st' = st
      BY <1>7 DEF DriveEnds, DriveReturns, LastFlush, vars, requestVars
    <2>2. QED
      BY <1>1, <1>3, <2>1 DEF TokenInv
  <1>8. QED
    BY <1>1, <1>4, <1>5, <1>6, <1>7, RequestKeepsToken, BufferKeepsToken, ResultKeepsToken DEF Next, TokenInv

\* Whichever flusher sends it, a request of a batch, of the last flush or of
\* the result carries the token the service expects, and so does one that
\* fetches pages (context.rs: the token lock; checkpoint_coalescer.rs: the
\* writer lock).
THEOREM BatchTokenStaysCurrent == Spec => []TokenIsCurrent
  <1>1. Init => TokenInv
    <2>1. Init => TokenIsKept
      BY DEF Init, RequestInit, NoRequest, TokenIsKept
    <2>2. QED
      BY <2>1, BatchInvInit DEF TokenInv
  <1>2. TokenInv => TokenIsCurrent
    <2> SUFFICES ASSUME TokenInv, ~ Panicked, NEW p \in Procs, req[p].pc \in {"sending", "paging"}
                 PROVE  req[p].token = svc.token
      BY DEF TokenIsCurrent
    <2>1. latch = "none"
      BY DEF TokenInv, BatchInv, LatchStopsRequests
    <2>2. QED
      BY <2>1 DEF TokenInv, TokenIsKept
  <1>3. QED
    BY <1>1, <1>2, TokenInvNext, PTL DEF Spec

(***************************************************************************)
(* The refinement: each step is one of the ordered journal, or changes     *)
(* nothing that the journal knows.                                         *)
(***************************************************************************)
Resolved == {w \in Updates : st[w] = "resolved"}

LEMMA SameSets == \A s : Journal!ToSet(s) = ToSet(s)
  BY DEF Journal!ToSet, ToSet

\* Whatever a step resolves was recorded before.
LEMMA ResolveRefines ==
  ASSUME BatchInv', UNCHANGED <<order, svc, latch>>,
         \A w \in Updates : st[w] = "resolved" => st'[w] = "resolved"
  PROVE  Journal!JournalNext
  <1>1. Resolved \subseteq Resolved' /\ Resolved' \subseteq ToSet(svc.journal)
    BY DEF BatchInv, UpdatesAreHeld, Resolved, Recorded
  <1>2. PICK ws \in SUBSET Updates : ws = Resolved'
    BY DEF Resolved
  <1>3. Resolved' = Resolved \cup ws /\ ws \subseteq Journal!ToSet(svc.journal)
    BY <1>1, <1>2, SameSets
  <1>4. Journal!Resolve(ws)
    BY <1>3 DEF Journal!Resolve, Resolved
  <1>5. QED
    BY <1>4 DEF Journal!JournalNext

LEMMA SubmitRefines ==
  ASSUME NEW w \in Updates, w \notin Entered, order' = Append(order, w), UNCHANGED <<svc, latch>>,
         \A v \in Updates : st[v] = "resolved" <=> st'[v] = "resolved"
  PROVE  Journal!JournalNext
  <1>1. Resolved' = Resolved
    BY DEF Resolved
  <1>2. Journal!Submit(w)
    BY <1>1, SameSets DEF Journal!Submit, Entered, Resolved
  <1>3. QED
    BY <1>2 DEF Journal!JournalNext

\* The service records a request whose updates are all behind what it has
\* recorded; a failure or a withdrawal shuts the journal.
LEMMA RequestRefines ==
  ASSUME BatchInv, NEW p \in Procs, RequestStep(p), UNCHANGED <<st, bufferVars, writer, flush, drive>>
  PROVE  Journal!JournalNext \/ UNCHANGED Journal!journalVars
  <1>1. RequestShape(p)
    BY RequestStepShape DEF BatchInv, Typed, TypeOK, RequestTypeOK, ReqType
  <1>2. UNCHANGED <<order, st>>
    BY DEF bufferVars
  <1>3. CASE UNCHANGED <<svc, latch>>
    BY <1>2, <1>3 DEF Journal!journalVars
  <1>4. CASE req[p].pc = "sending" /\ svc'.journal = svc.journal \o req[p].carry /\ latch' = latch
    <2>1. Ready(req[p].carry) /\ latch = "none" /\ req[p].carry \in Seq(Updates) /\ svc.journal \in Seq(Updates)
      BY <1>4 DEF BatchInv, OrderIsKept, LatchStopsRequests, Unsent, Typed, TypeOK, RequestTypeOK
    <2> DEFINE ws == SubSeq(svc'.journal, Len(svc.journal) + 1, Len(svc'.journal))
    <2>2. ws = req[p].carry
      BY <1>4, <2>1, RecordedPart
    <2> HIDE DEF ws
    <2>3. \A w : Journal!Position(w) = At(order, w)
      BY DEF Journal!Position, At
    <2>4. Journal!InOrder(ws)
      BY <2>1, <2>2, <2>3 DEF Journal!InOrder, Ready, Sorted
    <2>5. ToSet(ws) \subseteq Journal!Unrecorded
      <3>1. \A n \in DOMAIN svc.journal : svc.journal[n] \in Recorded
        BY DEF Recorded, ToSet
      <3>2. \A w \in ToSet(ws) : IsBehind(w)
        BY <2>1, <2>2 DEF Ready, ToSet
      <3>3. QED
        BY <2>3, <3>1, <3>2, SameSets DEF Journal!Unrecorded, IsBehind, Entered
    <2>6. Journal!RecordRequest
      BY <1>2, <1>4, <2>1, <2>2, <2>4, <2>5, SameSets DEF Journal!RecordRequest, ws
    <2>7. QED
      BY <2>6 DEF Journal!JournalNext
  <1>5. CASE req[p].pc \in {"sending", "accepted", "paging"} /\ latch' # "none" /\ svc' = svc
    <2>1. Journal!Shut
      BY <1>2, <1>5 DEF Journal!Shut
    <2>2. QED
      BY <2>1 DEF Journal!JournalNext
  <1>6. QED
    BY <1>1, <1>3, <1>4, <1>5 DEF RequestShape, Moves

LEMMA StepRefines ==
  ASSUME BatchInv, BatchInv', [Next]_vars
  PROVE  Journal!JournalNext \/ UNCHANGED Journal!journalVars
  <1> USE ConstantFacts
  <1>1. ASSUME NEW w \in Contributors, NEW urgent \in BOOLEAN, NEW reserve \in BOOLEAN,
               Join(w, urgent, reserve)
        PROVE  Journal!JournalNext
    <2>1. /\ st[w] = "new" /\ UNCHANGED <<svc, latch>> /\ w \notin Entered
          /\ order' = order \/ (order' = Append(order, w) /\ w # Refresh)
          /\ st' = Becomes({w}, "dropped") \/ st' = Becomes({w}, "joined")
      BY <1>1 DEF Join, Rejected, JoinsBatch, requestVars, bufferVars, BatchInv, OrderIsKept
    <2>2. \A v \in Updates : st[v] = "resolved" <=> st'[v] = "resolved"
      BY <2>1 DEF Becomes, BatchInv, Typed, TypeOK
    <2>3. CASE order' = order
      BY <2>1, <2>2, <2>3, ResolveRefines
    <2>4. CASE order' = Append(order, w) /\ w # Refresh
      BY <2>1, <2>2, <2>4, SubmitRefines
    <2>5. QED
      BY <2>1, <2>3, <2>4
  <1>2. ASSUME NEW f \in Procs, BufferStep(f) \/ Unwind(f)
        PROVE  Journal!JournalNext
    <2>1. UNCHANGED <<order, svc, latch>>
      BY <1>2 DEF BufferStep, WindowEnds, TakeWriter, WaitUnheld, Claim, ClaimsNothing, NextChunk, Publish,
                  StopBatch, AbandonPending, Unwind, ClientPanics, requestVars, bufferVars
    <2>2. \/ st' = st
          \/ \E b \in Nat, state \in WriteState : st' = Becomes(Joined(b), state)
      <3>1. open \in Nat /\ flush[f].target \in Nat /\ "resolved" \in WriteState /\ "dropped" \in WriteState
        BY DEF BatchInv, Typed, TypeOK, WriteState
      <3>2. \/ st' = st \/ st' = Becomes(Joined(flush[f].target), "resolved")
            \/ st' = Becomes(Joined(flush[f].target), "dropped") \/ st' = Becomes(Joined(open), "dropped")
        BY <1>2 DEF BufferStep, WindowEnds, TakeWriter, WaitUnheld, Claim, ClaimsNothing, NextChunk, Publish,
                    StopBatch, AbandonPending, Unwind
      <3>3. QED
        BY <3>1, <3>2
    <2>3. \A v \in Updates : st[v] = "resolved" => st'[v] = "resolved"
      BY <2>2 DEF Becomes, Joined, BatchInv, Typed, TypeOK
    <2>4. QED
      BY <2>1, <2>3, ResolveRefines
  <1>3. ASSUME NEW p \in Procs, RequestStep(p), UNCHANGED <<st, bufferVars, writer, flush, drive>>
        PROVE  Journal!JournalNext \/ UNCHANGED Journal!journalVars
    BY <1>3, RequestRefines
  <1>4. ASSUME NEW s \in Scopes, CloseScope(s), UNCHANGED <<st, bufferVars, writer, flush, drive>>
        PROVE  Journal!JournalNext
    BY <1>4, ResolveRefines DEF CloseScope, bufferVars
  <1>5. ASSUME NEW w \in Writes, ReleaseHold(w) PROVE Journal!JournalNext
    BY <1>5, ResolveRefines DEF ReleaseHold, requestVars
  <1>6. CASE DriveEnds \/ DriveReturns \/ LastFlush
    BY <1>6, ResolveRefines DEF DriveEnds, DriveReturns, LastFlush, requestVars, bufferVars
  <1>7. CASE WriteResult
    <2>1. Final \notin Entered /\ \A v \in Updates : st[v] = "resolved" <=> st'[v] = "resolved"
      BY <1>7 DEF WriteResult, Becomes, BatchInv, Typed, TypeOK, OrderIsKept
    <2>2. QED
      BY <1>7, <2>1, SubmitRefines DEF WriteResult
  <1>8. CASE EndResult
    <2>1. \A v \in Updates : st[v] = "resolved" => st'[v] = "resolved"
      BY <1>8 DEF EndResult, Becomes, BatchInv, Typed, TypeOK
    <2>2. QED
      BY <1>8, <2>1, ResolveRefines DEF EndResult, bufferVars
  <1>9. CASE UNCHANGED vars
    BY <1>9 DEF vars, requestVars, bufferVars, Journal!journalVars
  <1>10. QED
    BY <1>1, <1>2, <1>3, <1>4, <1>5, <1>6, <1>7, <1>8, <1>9 DEF Next

\* The buffer, its flushers and the last flush implement the ordered
\* journal, whatever the window and the size of a request: updates are
\* recorded in the order they joined, a caller is answered only after its
\* update is recorded, and nothing is recorded after a failure or a
\* withdrawal (checkpoint_coalescer.rs; context.rs: spawn_batch_flush).
THEOREM BatchedWritesAreOrdered == Spec => ImplementsJournal
  <1>1. Init => Journal!JournalInit
    BY ConstantFacts DEF Init, RequestInit, Journal!JournalInit
  <1>2. BatchInv /\ BatchInv' /\ [Next]_vars => [Journal!JournalNext]_(Journal!journalVars)
    BY StepRefines
  <1>3. QED
    BY <1>1, <1>2, BatchInvAlways, PTL DEF Spec, ImplementsJournal, Journal!JournalSpec
==============================================================================
