-------------------------- MODULE RequestPath_proofs --------------------------
(***************************************************************************)
(* Lemmas about one checkpoint request, whoever sends it, and about the    *)
(* positions of updates in a submission order.  The proofs about the       *)
(* unbuffered and the buffered writes rest on them.                        *)
(***************************************************************************)
EXTENDS RequestPath, SequenceTheorems, TLAPS

(***************************************************************************)
(* Positions in a sequence without repetition.                             *)
(***************************************************************************)
Once(o) == \A i, j \in DOMAIN o : o[i] = o[j] => i = j
At(o, w) == CHOOSE n \in DOMAIN o : o[n] = w

LEMMA AtIs ==
  ASSUME NEW o, Once(o), NEW n \in DOMAIN o
  PROVE  At(o, o[n]) = n
  BY DEF Once, At

LEMMA AtInDomain ==
  ASSUME NEW o, NEW w \in ToSet(o)
  PROVE  At(o, w) \in DOMAIN o /\ o[At(o, w)] = w
  BY DEF At, ToSet

\* What is appended comes last, and moves nothing.
LEMMA AtAppend ==
  ASSUME NEW S, NEW o \in Seq(S), Once(o), NEW w \in S, w \notin ToSet(o)
  PROVE  /\ Append(o, w) \in Seq(S)
         /\ Once(Append(o, w))
         /\ ToSet(Append(o, w)) = ToSet(o) \cup {w}
         /\ \A v \in ToSet(o) : At(Append(o, w), v) = At(o, v) /\ At(o, v) < At(Append(o, w), w)
  <1> DEFINE a == Append(o, w)
  <1>1. /\ a \in Seq(S) /\ DOMAIN a = 1 .. Len(o) + 1 /\ DOMAIN o = 1 .. Len(o) /\ Len(o) \in Nat
        /\ \A n \in DOMAIN o : a[n] = o[n]
        /\ a[Len(o) + 1] = w
    OBVIOUS
  <1>2. Once(a)
    BY <1>1 DEF Once, ToSet
  <1>3. ToSet(a) = ToSet(o) \cup {w}
    <2>1. DOMAIN a = DOMAIN o \cup {Len(o) + 1}
      BY <1>1
    <2> HIDE DEF a
    <2>2. QED
      BY <1>1, <2>1 DEF ToSet
  <1> HIDE DEF a
  <1>4. At(a, w) = Len(o) + 1
    <2>1. Len(o) + 1 \in DOMAIN a
      BY <1>1
    <2>2. At(a, a[Len(o) + 1]) = Len(o) + 1
      BY <1>2, <2>1, AtIs
    <2>3. QED
      BY <1>1, <2>2
  <1>5. ASSUME NEW v \in ToSet(o) PROVE At(a, v) = At(o, v) /\ At(o, v) < At(a, w)
    <2>1. At(o, v) \in DOMAIN o /\ o[At(o, v)] = v
      BY <1>5, AtInDomain
    <2>2. At(o, v) \in DOMAIN a
      BY <1>1, <2>1
    <2>3. At(a, a[At(o, v)]) = At(o, v)
      BY <1>2, <2>2, AtIs
    <2>4. QED
      BY <1>1, <1>4, <2>1, <2>3
  <1>6. QED
    BY <1>1, <1>2, <1>3, <1>5 DEF a

LEMMA ToSetConcat ==
  ASSUME NEW S, NEW s \in Seq(S), NEW t \in Seq(S)
  PROVE  ToSet(s \o t) = ToSet(s) \cup ToSet(t)
  <1> DEFINE c == s \o t
  <1>1. /\ DOMAIN c = 1 .. Len(s) + Len(t) /\ DOMAIN s = 1 .. Len(s) /\ DOMAIN t = 1 .. Len(t)
        /\ Len(s) \in Nat /\ Len(t) \in Nat
        /\ \A n \in DOMAIN s : c[n] = s[n]
        /\ \A n \in DOMAIN t : c[Len(s) + n] = t[n]
    OBVIOUS
  <1>2. \A n \in DOMAIN s : n \in DOMAIN c
    BY <1>1
  <1>3. \A n \in DOMAIN t : Len(s) + n \in DOMAIN c
    BY <1>1
  <1>4. ASSUME NEW n \in DOMAIN c, n \notin DOMAIN s
        PROVE  n - Len(s) \in DOMAIN t /\ c[n] = t[n - Len(s)]
    <2>1. n - Len(s) \in DOMAIN t /\ Len(s) + (n - Len(s)) = n
      BY <1>1, <1>4
    <2>2. QED
      BY <1>1, <2>1
  <1> HIDE DEF c
  <1>5. ToSet(c) \subseteq ToSet(s) \cup ToSet(t)
    BY <1>1, <1>4 DEF ToSet
  <1>6. ToSet(s) \subseteq ToSet(c)
    BY <1>1, <1>2 DEF ToSet
  <1>7. ToSet(t) \subseteq ToSet(c)
    BY <1>1, <1>3 DEF ToSet
  <1>8. QED
    BY <1>5, <1>6, <1>7 DEF c

\* What a request appended can be read off the journal again.
LEMMA RecordedPart ==
  ASSUME NEW S, NEW s \in Seq(S), NEW t \in Seq(S)
  PROVE  SubSeq(s \o t, Len(s) + 1, Len(s \o t)) = t
  <1> DEFINE c == s \o t
             u == SubSeq(c, Len(s) + 1, Len(c))
  <1>1. /\ c \in Seq(S) /\ Len(c) = Len(s) + Len(t) /\ Len(s) \in Nat /\ Len(t) \in Nat
        /\ \A n \in 1 .. Len(t) : c[Len(s) + n] = t[n]
    OBVIOUS
  <1>2. u \in Seq(S) /\ Len(u) = Len(t)
    BY <1>1
  <1>3. \A n \in 1 .. Len(t) : u[n] = t[n]
    BY <1>1
  <1>4. QED
    BY <1>2, <1>3, SeqEqual

(***************************************************************************)
(* What a request step may do.                                             *)
(***************************************************************************)
ReqType == [pc : RequestState, carry : Seq(Updates), token : Nat, admit : BOOLEAN]

\* The lock is held exactly from the sending of a request to its end.
Holding(p) == req[p].pc \in {"sending", "accepted", "paging", "abandon"}

Moves(p, from, to) == req[p].pc \in from /\ req'[p].pc \in to

\* A step of p's request touches no other request and keeps what p's
\* carries. It records the carried updates only when the service accepts
\* them, and sets a latch only on the way to abandoning the queue.
RequestShape(p) ==
  /\ req' \in [Procs -> ReqType]
  /\ \A q \in Procs \ {p} : req'[q] = req[q]
  /\ req'[p].carry = req[p].carry /\ req'[p].admit = req[p].admit
  /\ closed' = closed
  /\ \/ /\ Moves(p, {"locking"}, {"rejected"}) /\ req[p].admit
        /\ UNCHANGED <<svc, latch>>
     \/ /\ Moves(p, {"locking"}, {"stopped"}) /\ latch # "none"
        /\ UNCHANGED <<svc, latch>>
     \/ /\ Moves(p, {"locking"}, {"sending"}) /\ lock = None /\ latch = "none"
        /\ req[p].admit => AdmittedByScopes(req[p].carry)
        /\ UNCHANGED <<svc, latch>>
     \/ /\ Moves(p, {"sending"}, {"accepted"}) /\ latch' = latch
        /\ svc'.journal = svc.journal \o req[p].carry
     \/ /\ Moves(p, {"sending", "accepted", "paging"}, {"abandon"})
        /\ latch' # "none" /\ latch' \in {latch, "failed", "withdrawn"} /\ svc' = svc
     \/ /\ Moves(p, {"accepted", "paging"}, {"ok", "paging"}) /\ UNCHANGED <<svc, latch>>

\* What one write to the state of a request leaves alone.
LEMMA PutFacts ==
  ASSUME req \in [Procs -> ReqType], NEW p \in Procs, NEW st \in RequestState, Put(p, st)
  PROVE  /\ req' \in [Procs -> ReqType]
         /\ \A q \in Procs \ {p} : req'[q] = req[q]
         /\ req'[p].carry = req[p].carry /\ req'[p].admit = req[p].admit
         /\ req'[p].pc = st
  <1>1. [req[p] EXCEPT !.pc = st] \in ReqType
    BY DEF ReqType
  <1>2. req' = [req EXCEPT ![p] = [req[p] EXCEPT !.pc = st]]
    BY DEF Put
  <1>3. [req[p] EXCEPT !.pc = st].pc = st
        /\ [req[p] EXCEPT !.pc = st].carry = req[p].carry
        /\ [req[p] EXCEPT !.pc = st].admit = req[p].admit
    BY DEF ReqType
  <1>4. QED
    BY <1>1, <1>2, <1>3

LEMMA RequestStepShape ==
  ASSUME req \in [Procs -> ReqType], token \in Nat, svc.token \in Nat,
         NEW p \in Procs, RequestStep(p)
  PROVE  RequestShape(p)
  <1> DEFINE Put1(st) == /\ req' \in [Procs -> ReqType]
                         /\ \A q \in Procs \ {p} : req'[q] = req[q]
                         /\ req'[p].carry = req[p].carry /\ req'[p].admit = req[p].admit
                         /\ req'[p].pc = st
  <1>0. \A st \in RequestState : Put(p, st) => Put1(st)
    BY PutFacts
  <1>1. CASE TakeLock(p)
    <2>1. CASE req[p].admit /\ Put(p, "rejected")
      BY <1>0, <1>1, <2>1 DEF TakeLock, RequestState, RequestShape, Moves
    <2>2. CASE latch # "none" /\ Put(p, "stopped")
      BY <1>0, <1>1, <2>2 DEF TakeLock, RequestState, RequestShape, Moves
    <2>3. CASE /\ req[p].admit => AdmittedByScopes(req[p].carry)
               /\ latch = "none" /\ lock' = p
               /\ req' = [req EXCEPT ![p].pc = "sending", ![p].token = token]
      <3>1. Put1("sending")
        BY <2>3 DEF ReqType, RequestState
      <3>2. QED
        BY <1>1, <2>3, <3>1 DEF TakeLock, RequestShape, Moves
    <2>4. QED
      BY <1>1, <2>1, <2>2, <2>3 DEF TakeLock
  <1>2. CASE ServiceAccepts(p)
    BY <1>0, <1>2 DEF ServiceAccepts, RequestState, RequestShape, Moves
  <1>3. CASE CallFails(p)
    BY <1>0, <1>3 DEF CallFails, RequestState, RequestShape, Moves
  <1>4. CASE Answered(p)
    <2>1. CASE Put(p, "ok")
      BY <1>0, <1>4, <2>1 DEF Answered, RequestState, RequestShape, Moves
    <2>2. CASE req' = [req EXCEPT ![p].pc = "paging", ![p].token = svc.token]
      <3>1. Put1("paging")
        BY <2>2 DEF ReqType, RequestState
      <3>2. QED
        BY <1>4, <3>1 DEF Answered, RequestShape, Moves
    <2>3. QED
      BY <1>4, <2>1, <2>2 DEF Answered
  <1>5. CASE PagesMerged(p)
    BY <1>0, <1>5 DEF PagesMerged, RequestState, RequestShape, Moves
  <1>6. CASE Tokenless(p)
    <2>1. CASE Put(p, "ok") /\ UNCHANGED latch
      BY <1>0, <1>6, <2>1 DEF Tokenless, RequestState, RequestShape, Moves
    <2>2. CASE Put(p, "abandon") /\ latch' = "withdrawn"
      BY <1>0, <1>6, <2>2 DEF Tokenless, RequestState, RequestShape, Moves
    <2>3. QED
      BY <1>6, <2>1, <2>2 DEF Tokenless
  <1>7. QED
    BY <1>1, <1>2, <1>3, <1>4, <1>5, <1>6 DEF RequestStep

LEMMA RequestStepTypes ==
  ASSUME token \in Nat, svc.token \in Nat, lock \in Procs \cup {None}, NEW p \in Procs, RequestStep(p)
  PROVE  token' \in Nat /\ svc'.token \in Nat /\ lock' \in Procs \cup {None}
  <1>1. CASE TakeLock(p)
    BY <1>1 DEF TakeLock
  <1>2. CASE ServiceAccepts(p)
    BY <1>2 DEF ServiceAccepts
  <1>3. CASE CallFails(p)
    BY <1>3 DEF CallFails
  <1>4. CASE Answered(p)
    BY <1>4 DEF Answered
  <1>5. CASE PagesMerged(p)
    BY <1>5 DEF PagesMerged
  <1>6. CASE Tokenless(p)
    BY <1>6 DEF Tokenless
  <1>7. QED
    BY <1>1, <1>2, <1>3, <1>4, <1>5, <1>6 DEF RequestStep
==============================================================================
