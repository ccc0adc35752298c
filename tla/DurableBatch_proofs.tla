------------------------- MODULE DurableBatch_proofs -------------------------
(***************************************************************************)
(* Proofs about module DurableBatch, for any number of items, any batch,   *)
(* any fates of the items and any number of invocations: whatever is       *)
(* abandoned, crashes or is replayed, the service refuses no write, the    *)
(* recorded result fits the items' records, its reason is borne out by     *)
(* them, and every invocation that answers the handler answers it.         *)
(***************************************************************************)
EXTENDS DurableBatch, FiniteSetTheorems, TLAPS

(***************************************************************************)
(* The inductive invariant.                                                *)
(***************************************************************************)
Total == 0 .. cfg.total - 1
Producing == ~ rebuild /\ pc \notin {"start", "returned"}
Replaying == pc = "replay" \/ (pc = "rerun" /\ Concurrent)
Dispatching == pc = "dispatch" \/ (pc = "rerun" /\ ~ Concurrent)
Closing == pc \in {"closing", "outcome", "recording"}

StartOf(i) == [of |-> i, action |-> "START"]
Awaiting(i) == \E n \in DOMAIN queue : queue[n] = StartOf(i)
Written(i) == log.item[i] # "none" \/ Awaiting(i)

Update == ItemWrite \cup BatchWrite \cup {BatchStart}
Typed == TypeOK /\ queue \in Seq(Update)

\* What the write at the head of the queue makes of the log.
After(r, w) ==
  IF w = BatchStart THEN [r EXCEPT !.batch = "started"]
  ELSE IF w.of = Batch
    THEN [r EXCEPT !.batch = "succeeded", !.report = w.report, !.reason = w.reason, !.big = w.big]
  ELSE [r EXCEPT !.item[w.of] = IF w.action = "START" THEN "started" ELSE w.action]

LogIsBehind == record = IF net = "recorded" THEN After(log, Head(queue)) ELSE log

\* One write of an item or of the batch is under way at a time, and the log
\* is what its operation had before it.
ItemWriteFits(w) ==
  /\ ~ cfg.flat /\ ~ rebuild
  /\ w.action = "START" => log.item[w.of] = "none" /\ task[w.of] \in {"body", "returned", "gone"}
  /\ w.action # "START" => /\ w.action = fate[w.of]
                           /\ log.item[w.of] = "started" /\ task[w.of] \in {"writing", "gone"}
BatchWriteFits(n) ==
  /\ log.batch = "started" /\ n = Len(queue) /\ pc = "recording"
  /\ queue[n].report = Assembled.report /\ queue[n].reason = Completion
EntryFits(n) ==
  /\ queue[n] = BatchStart => log.batch = "none"
  /\ queue[n] \in BatchWrite => BatchWriteFits(n)
  /\ queue[n] \in ItemWrite => ItemWriteFits(queue[n])
QueueFits ==
  /\ \A m, n \in DOMAIN queue : queue[m].of = queue[n].of => m = n
  /\ log.batch = "none" /\ pc # "start" => queue # <<>> /\ Head(queue) = BatchStart
  /\ log.batch = "succeeded" \/ pc = "start" => queue = <<>>
  /\ \A n \in DOMAIN queue : EntryFits(n)

\* A plan is obeyed when the batch is recorded, and only then.
PlanFits ==
  /\ rebuild => /\ stop = "none" /\ log.batch = "succeeded"
                /\ pc \notin {"start", "outcome", "recording"}
  /\ Producing /\ pc # "recording" => log.batch # "succeeded"
  /\ pc \in {"replay", "dispatch", "rerun"} /\ ~ rebuild => cfg.total > 0
  /\ closed => InFlight = {} /\ pc \in {"outcome", "recording", "returned"}
  /\ pc \in {"outcome", "recording"} => closed /\ ~ rebuild
  /\ pc = "returned" => InFlight = {} /\ log.batch = "succeeded"
  /\ pc = "replay" => Concurrent
  /\ pc = "start" => /\ view = [i \in Items |-> Omitted] /\ started = {} /\ stop = "none"
                     /\ ~ closed /\ task = [i \in Items |-> "none"] /\ cursor = 0
  /\ pc = "recording" /\ log.batch = "succeeded" =>
       log.report = Assembled.report /\ log.reason = Completion

TaskFits(i) ==
  /\ task[i] \in {"returned", "writing"} => ~ rebuild /\ ~ cfg.flat /\ log.batch # "succeeded"
  /\ task[i] = "returned" => log.item[i] \notin Settled
  /\ task[i] = "delivered" => cfg.flat \/ log.item[i] \in Settled
  /\ task[i] = "body" /\ rebuild => cfg.flat \/ log.item[i] \in Settled
  /\ task[i] = "gone" => closed
  /\ i \in InFlight => i \in Total /\ (IF rebuild THEN Admits(i) ELSE i \in started)
\* Which items have a task that the coordinator has not come to yet.
TaskIsTimely(i) ==
  /\ pc = "replay" => i \notin InFlight
  /\ (pc = "rerun" \/ (pc = "dispatch" /\ ~ Concurrent)) /\ i \in InFlight => i = cursor - 1
  /\ Replaying => task[i] = "none" \/ (i < cursor /\ Terminal(i))
  /\ Dispatching => i < cursor \/ task[i] = "none" \/ (Concurrent /\ task[i] = "joined" /\ Terminal(i))
TasksFit ==
  /\ \A i \in Items : TaskFits(i) /\ TaskIsTimely(i)
  /\ \A n \in DOMAIN joins : task[joins[n]] = "delivered"
  /\ \A m, n \in DOMAIN joins : joins[m] = joins[n] => m = n

ViewFits ==
  /\ \A i \in Items : view[i] \in Settled =>
       /\ view[i] = fate[i] /\ i \in Total
       /\ IF rebuild THEN Admits(i) ELSE i \in started
       /\ ~ cfg.flat => log.item[i] = fate[i]
  /\ \A i \in Items : view[i] = "-" => i \in started
  /\ started \subseteq Total

\* What the coordinator has passed is settled or at work.
Met(i) == view[i] \in Settled \/ i \in InFlight
PassedFits ==
  /\ Replaying => \A i \in Items : i < cursor /\ Terminal(i) => Met(i)
  /\ pc = "dispatch" /\ Concurrent => \A i \in Total : i >= cursor /\ Terminal(i) => view[i] \in Settled
  /\ (Dispatching \/ Closing) /\ stop = "none" =>
       \A i \in Items : i < cursor /\ (rebuild => Admits(i)) => Met(i)
  /\ Closing /\ stop = "none" => cursor = cfg.total /\ InFlight = {}

\* Items are started in order.
StartsAreOrdered ==
  \A n \in DOMAIN queue : \A i, j \in Items :
    queue[n] = StartOf(j) /\ i < j =>
      log.item[i] # "none" \/ \E m \in DOMAIN queue : m < n /\ queue[m] = StartOf(i)
StartedFits ==
  /\ ~ rebuild => \A i, j \in Items : i < j /\ j \in started => i \in started
  /\ Dispatching /\ ~ rebuild /\ stop = "none" =>
       \A i \in Items : i < cursor => i \in started /\ (cfg.flat \/ Written(i))
  /\ StartsAreOrdered
  /\ Producing => \A i \in Items : Written(i) =>
       i \in started \/ (~ Concurrent /\ stop = "none" /\ Dispatching /\ i >= cursor)

\* One item at a time, what was settled before the item at the cursor is
\* known: the decision to start it is the same in every invocation.
Prefix(k) == [i \in Items |-> IF i < k THEN fate[i] ELSE Omitted]
Goes(k) == ~ PredicateCompletes(Prefix(k)) /\ (k > 0 => Evaluate(Prefix(k)) = "none")
OneAtATime ==
  ~ Concurrent =>
    /\ \A i \in Items : Written(i) => \A k \in 0 .. i : Goes(k)
    /\ ~ rebuild /\ Dispatching /\ stop = "none" =>
         /\ \A i \in Items : view[i] = Omitted <=> i >= cursor
         /\ \A k \in 0 .. cursor - 1 : Goes(k)

\* The reason that stopped the batch still holds; without one, none did
\* when the last item settled.
Borne(reason) ==
  IF reason = "MinSuccessfulReached" THEN cfg.min # Unset /\ CountOf(view, {"S"}) >= cfg.min
  ELSE IF reason = "FailureToleranceExceeded" THEN ShouldStopFailure(view)
  ELSE PredicateCompletes(view) /\ reason = cfg.custom.gives
StopFits ==
  /\ stop # "none" => Borne(stop)
  /\ ~ rebuild /\ stop = "none" /\ InFlight = {} /\ (\E i \in Items : view[i] # Omitted) =>
       Evaluate(view) = "none"
  /\ ~ rebuild /\ Closing /\ stop = "none" => ~ ShouldStopFailure(view) /\ ~ PredicateCompletes(view)

ItemsFit ==
  /\ \A i \in Items : record.item[i] # "none" => i \in Total /\ ~ cfg.flat
  /\ \A i \in Items : record.item[i] \in Settled => record.item[i] = fate[i]
ReportIsFate ==
  record.batch = "succeeded" =>
    \A i \in Items : record.report[i] \in Settled => record.report[i] = fate[i] /\ i \in Total
RecordFits ==
  ItemsFit /\ ReportIsFate /\ ResultFitsItems /\ ReasonIsJustified /\ OneOutcome

BatchInv ==
  /\ Typed /\ LogIsBehind /\ QueueFits /\ PlanFits /\ TasksFit /\ ViewFits /\ PassedFits
  /\ StartedFits /\ OneAtATime /\ StopFits /\ RecordFits

(***************************************************************************)
(* Items, batches and writes.                                              *)
(***************************************************************************)
LEMMA ItemsAreFinite ==
  /\ Batch \notin Items /\ IsFiniteSet(Items)
  /\ \A S \in SUBSET Items : IsFiniteSet(S) /\ Cardinality(S) \in Nat
  <1>1. N - 1 \in Int /\ 0 \in Int
    BY ConfigAssumption
  <1>2. IsFiniteSet(Items)
    BY <1>1, FS_Interval DEF Items
  <1>3. Batch \notin Items
    BY ConfigAssumption DEF Batch, Items
  <1>4. \A S \in SUBSET Items : IsFiniteSet(S)
    BY <1>2, FS_Subset
  <1>5. QED
    BY <1>2, <1>3, <1>4, FS_CardinalityType

LEMMA ConfigFacts ==
  ASSUME cfg \in Configs
  PROVE  /\ cfg.total \in 0 .. N /\ Total \subseteq Items
         /\ cfg.concurrency \in (Nat \ {0}) \cup {Unset}
         /\ cfg.custom # Unset => cfg.custom \in Predicate /\ cfg.custom.gives \in CustomReason
         /\ cfg.custom # Unset => cfg.custom.at \in Nat
         /\ cfg.min # Unset => cfg.min \in Nat
         /\ cfg.tolerated # Unset => cfg.tolerated \in Nat
         /\ cfg.percent # Unset => cfg.percent \in 0 .. 100
         /\ cfg.flat \in BOOLEAN
         /\ Concurrent => Width \in Nat /\ Width > 1
  <1>1. cfg \in Config
    BY ConfigAssumption
  <1>2. /\ cfg.total \in 0 .. N /\ cfg.concurrency \in (Nat \ {0}) \cup {Unset}
        /\ cfg.custom \in Predicate \cup {Unset} /\ cfg.min \in Nat \cup {Unset}
        /\ cfg.tolerated \in Nat \cup {Unset} /\ cfg.percent \in (0 .. 100) \cup {Unset}
        /\ cfg.flat \in BOOLEAN
    BY <1>1 DEF Config
  <1>3. cfg.custom # Unset => cfg.custom.gives \in CustomReason /\ cfg.custom.at \in Nat
    BY <1>2 DEF Predicate
  <1>4. Concurrent => Width \in Nat /\ Width > 1
    BY <1>2, ConfigAssumption DEF Concurrent, Width
  <1>5. Total \subseteq Items
    BY <1>2, ConfigAssumption DEF Total, Items
  <1>6. QED
    BY <1>2, <1>3, <1>4, <1>5

LEMMA UpdateFacts ==
  /\ \A i \in Items, a \in {"START"} \cup Settled :
       /\ [of |-> i, action |-> a] \in ItemWrite
       /\ [of |-> i, action |-> a].of = i /\ [of |-> i, action |-> a].action = a
  /\ \A w \in ItemWrite : /\ w.of \in Items /\ w.of # Batch /\ w.action \in {"START"} \cup Settled
                          /\ w # BatchStart /\ w \notin BatchWrite
                          /\ w = [of |-> w.of, action |-> w.action]
  /\ \A w \in BatchWrite : /\ w.of = Batch /\ w # BatchStart
                           /\ w.report \in Report /\ w.reason \in Reason /\ w.big \in BOOLEAN
  /\ BatchStart.of = Batch
  <1>1. \A w \in BatchWrite : DOMAIN w = {"of", "report", "reason", "big"} /\ w.of = Batch
    BY DEF BatchWrite
  <1>2. DOMAIN BatchStart = {"of", "action"} /\ BatchStart.of = Batch
    BY DEF BatchStart
  <1>3. \A w \in BatchWrite : w # BatchStart
    BY <1>1, <1>2
  <1>4. \A w \in ItemWrite : w.of \in Items /\ w.action \in {"START"} \cup Settled
                             /\ w = [of |-> w.of, action |-> w.action]
    BY DEF ItemWrite
  <1>5. \A w \in ItemWrite : w.of # Batch
    BY <1>4, ItemsAreFinite
  <1>6. \A i \in Items, a \in {"START"} \cup Settled : [of |-> i, action |-> a] \in ItemWrite
    BY DEF ItemWrite
  <1>7. \A w \in BatchWrite : w.report \in Report /\ w.reason \in Reason /\ w.big \in BOOLEAN
    BY DEF BatchWrite
  <1>8. QED
    BY <1>1, <1>2, <1>3, <1>4, <1>5, <1>6, <1>7

\* What the service makes of a write.
LEMMA AfterFacts ==
  ASSUME NEW r \in Stored, NEW w \in Update
  PROVE  /\ After(r, w) \in Stored
         /\ w = BatchStart => /\ After(r, w).item = r.item /\ After(r, w).batch = "started"
                              /\ After(r, w).report = r.report /\ After(r, w).reason = r.reason
                              /\ After(r, w).big = r.big
         /\ w \in BatchWrite => /\ After(r, w).item = r.item /\ After(r, w).batch = "succeeded"
                                /\ After(r, w).report = w.report /\ After(r, w).reason = w.reason
                                /\ After(r, w).big = w.big
         /\ w \in ItemWrite => /\ After(r, w).batch = r.batch /\ After(r, w).report = r.report
                               /\ After(r, w).reason = r.reason /\ After(r, w).big = r.big
                               /\ After(r, w).item[w.of] = IF w.action = "START" THEN "started" ELSE w.action
                               /\ \A i \in Items : i # w.of => After(r, w).item[i] = r.item[i]
  <1>1. CASE w = BatchStart
    BY <1>1, UpdateFacts DEF After, Stored
  <1>2. CASE w \in BatchWrite
    BY <1>2, UpdateFacts DEF After, Stored
  <1>3. CASE w \in ItemWrite
    BY <1>3, UpdateFacts DEF After, Stored
  <1>4. QED
    BY <1>1, <1>2, <1>3 DEF Update

LEMMA EvaluateFacts ==
  ASSUME cfg \in Configs, NEW v
  PROVE  /\ Evaluate(v) \in (Reason \ {"AllCompleted"}) \cup {"none"}
         /\ PredicateCompletes(v) => cfg.custom.gives \in CustomReason
         /\ Evaluate(v) = "none" <=> /\ ~ ShouldStopFailure(v) /\ ~ PredicateCompletes(v)
                                     /\ ~ (CountOf(v, Settled) < cfg.total /\ ShouldStopMin(v))
         /\ Evaluate(v) = "FailureToleranceExceeded" => ShouldStopFailure(v)
         /\ Evaluate(v) = "MinSuccessfulReached" => ShouldStopMin(v)
         /\ Evaluate(v) \in CustomReason => PredicateCompletes(v) /\ Evaluate(v) = cfg.custom.gives
  <1>1. PredicateCompletes(v) => cfg.custom.gives \in CustomReason
    BY ConfigFacts DEF PredicateCompletes
  <1>2. QED
    BY <1>1 DEF Evaluate, EvaluateThresholds, Reason, CustomReason

\* What the log, behind the record by the write at the head, still knows.
LEMMA LogFacts ==
  ASSUME Typed, LogIsBehind, QueueFits
  PROVE  /\ net # "recorded" => record = log
         /\ queue = <<>> => record = log /\ net = "idle"
         /\ log.batch = "succeeded" => record = log /\ net = "idle"
         /\ queue # <<>> => Head(queue) = queue[1] /\ 1 \in DOMAIN queue /\ Head(queue) \in Update
         /\ \A i \in Items : log.item[i] # "none" => record.item[i] # "none"
         /\ \A i \in Items : log.item[i] \in Settled => record.item[i] = log.item[i]
         /\ \A i \in Items : record.item[i] # "none" => Written(i)
  <1>1. queue = <<>> => record = log /\ net = "idle"
    BY DEF Typed, TypeOK, LogIsBehind
  <1>2. log.batch = "succeeded" => record = log /\ net = "idle"
    BY <1>1 DEF QueueFits
  <1>3. queue # <<>> => Head(queue) = queue[1] /\ 1 \in DOMAIN queue /\ Head(queue) \in Update
    BY DEF Typed
  <1>4. /\ \A i \in Items : log.item[i] # "none" => record.item[i] # "none"
        /\ \A i \in Items : log.item[i] \in Settled => record.item[i] = log.item[i]
        /\ \A i \in Items : record.item[i] # "none" => Written(i)
    <2>1. CASE net # "recorded"
      BY <2>1 DEF LogIsBehind, Written
    <2>2. CASE net = "recorded"
      <3> DEFINE w == Head(queue)
      <3>1. queue # <<>> /\ record = After(log, w) /\ log \in Stored /\ w = queue[1] /\ w \in Update
        BY <1>3, <2>2 DEF Typed, TypeOK, LogIsBehind
      <3>2. w \in ItemWrite => ItemWriteFits(w)
        BY <1>3, <3>1 DEF QueueFits, EntryFits
      <3>3. w \notin ItemWrite => record.item = log.item
        BY <3>1, AfterFacts DEF Update
      <3>4. CASE w \in ItemWrite
        <4>1. /\ w.of \in Items /\ w.action \in {"START"} \cup Settled
              /\ record.item[w.of] = IF w.action = "START" THEN "started" ELSE w.action
              /\ \A i \in Items : i # w.of => record.item[i] = log.item[i]
              /\ w = [of |-> w.of, action |-> w.action]
          BY <3>1, <3>4, AfterFacts, UpdateFacts
        <4>2. /\ w.action = "START" => log.item[w.of] = "none" /\ w = StartOf(w.of)
              /\ w.action # "START" => log.item[w.of] = "started"
          BY <3>2, <3>4, <4>1 DEF ItemWriteFits, StartOf
        <4>3. w.action = "START" => Awaiting(w.of)
          BY <1>3, <3>1, <4>2 DEF Awaiting
        <4>4. QED
          BY <4>1, <4>2, <4>3 DEF Written, Settled
      <3>5. QED
        BY <3>3, <3>4 DEF Written
    <2>3. QED
      BY <2>1, <2>2
  <1>5. QED
    BY <1>1, <1>2, <1>3, <1>4 DEF LogIsBehind

\* A step that settles an item.
LEMMA SettleFacts ==
  ASSUME Typed, NEW i \in Items, NEW status \in Settled, Settle(i, status)
  PROVE  /\ view' \in Report /\ stop' \in (Reason \cup {"none"})
         /\ view'[i] = status /\ \A j \in Items : j # i => view'[j] = view[j]
         /\ stop' # "none" => stop' = stop \/ (~ rebuild /\ stop' = Evaluate(view'))
         /\ stop' = "none" => stop = "none" /\ (rebuild \/ Evaluate(view') = "none")
         /\ rebuild \/ stop # "none" => stop' = stop
  BY EvaluateFacts DEF Settle, Typed, TypeOK, Report, ItemStatus, Settled

LEMMA JoinFacts ==
  ASSUME Typed, joins # <<>>
  PROVE  /\ Head(joins) \in Items /\ Head(joins) = joins[1] /\ 1 \in DOMAIN joins
         /\ fate[Head(joins)] \in Settled /\ Tail(joins) \in Seq(Items)
  BY DEF Typed, TypeOK

\* The item at the cursor.
LEMMA CursorFacts ==
  ASSUME Typed, cursor < cfg.total
  PROVE  /\ cursor \in Items /\ cursor \in Total /\ cursor + 1 \in 0 .. cfg.total
         /\ log.item[cursor] \in {"none", "started"} \cup Settled
  <1>1. cfg.total \in 0 .. N /\ cursor \in 0 .. cfg.total /\ N \in Nat
    BY ConfigFacts, ConfigAssumption DEF Typed, TypeOK
  <1>2. cursor \in 0 .. N - 1 /\ cursor \in 0 .. cfg.total - 1 /\ cursor + 1 \in 0 .. cfg.total
    BY <1>1
  <1>3. log.item \in [Items -> {"none", "started"} \cup Settled]
    BY DEF Typed, TypeOK, Stored
  <1>4. QED
    BY <1>2, <1>3 DEF Items, Total

LEMMA AssembledFacts ==
  ASSUME Typed
  PROVE  /\ Assembled.report \in Report /\ Assembled.reason \in Reason /\ Completion \in Reason
         /\ Assembled = [report |-> Assembled.report, reason |-> Assembled.reason]
  <1>1. log.report \in Report /\ log.reason \in Reason /\ view \in Report
        /\ stop \in Reason \cup {"none"}
    BY DEF Typed, TypeOK, Stored
  <1>2. Completion \in Reason
    BY <1>1 DEF Completion, Reason
  <1>3. QED
    BY <1>1, <1>2 DEF Assembled, Report, ItemStatus, Omitted

LEMMA ResolveTypes ==
  ASSUME Typed, NEW i \in Items, log.item[i] \in Settled, NEW marked \in Report, NEW then,
         ResolveInline(i, marked, then)
  PROVE  /\ view' \in Report /\ stop' \in Reason \cup {"none"} /\ pc' \in {"rerun", then}
         /\ task' \in [Items -> {"none", "body", "returned", "writing", "delivered", "joined", "gone"}]
         /\ joins' = joins
  <1>1. CASE MustRerun(i)
    BY <1>1 DEF ResolveInline, Typed, TypeOK
  <1>2. CASE ~ MustRerun(i)
    <2>1. Settle(i, log.item[i]) /\ pc' = then /\ UNCHANGED taskVars
      BY <1>2 DEF ResolveInline
    <2>2. view' \in Report /\ stop' \in Reason \cup {"none"}
      BY <2>1, SettleFacts
    <2>3. QED
      BY <2>1, <2>2 DEF taskVars, Typed, TypeOK
  <1>3. QED
    BY <1>1, <1>2

LEMMA TypedNext ==
  ASSUME Typed, LogIsBehind, QueueFits, RecordFits, [Next]_vars
  PROVE  Typed'
  <1> USE DEF batchVars, taskVars, serviceVars, history
  <1>0. /\ cfg \in Configs /\ fate \in [Items -> Settled] /\ record \in Stored /\ log \in Stored
        /\ view \in Report /\ joins \in Seq(Items) /\ queue \in Seq(Update)
        /\ task \in [Items -> {"none", "body", "returned", "writing", "delivered", "joined", "gone"}]
        /\ (net # "idle" => queue # <<>>) /\ started \subseteq Items
        /\ decided \subseteq Reason /\ returned \subseteq [report : Report, reason : Reason]
    BY DEF Typed, TypeOK
  <1>q. \A w \in Update : Append(queue, w) \in Seq(Update) /\ Append(queue, w) # <<>>
    BY <1>0
  <1>w. BatchStart \in Update
    BY DEF Update
  <1>t. ASSUME queue' \in Seq(Update)
        PROVE  \A n \in DOMAIN queue' : queue'[n] \in (ItemWrite \cup BatchWrite \cup {BatchStart})
    BY <1>t DEF Update
  <1>o. [i \in Items |-> Omitted] \in Report /\ [i \in Items |-> "none"] \in
          [Items -> {"none", "body", "returned", "writing", "delivered", "joined", "gone"}]
    BY DEF Report, Omitted
  <1>1. CASE StartBatch
    <2>1. PredicateCompletes(view) => cfg.custom.gives \in Reason
      BY <1>0, EvaluateFacts DEF CustomReason, Reason
    <2>2. queue' \in Seq(Update) /\ (net' # "idle" => queue' # <<>>)
      BY <1>1, <1>0, <1>q, <1>w DEF StartBatch
    <2>3. started' \subseteq Items /\ stop' \in Reason \cup {"none"}
          /\ pc' \in {"closing", "replay", "dispatch"}
      BY <1>1, <1>0, <2>1 DEF StartBatch, Typed, TypeOK
    <2>4. QED
      BY <1>1, <1>t, <2>2, <2>3 DEF StartBatch, Typed, TypeOK
  <1>2. CASE ReplayBatchRecord
    <2>1. [report |-> log.report, reason |-> log.reason] \in [report : Report, reason : Reason]
      BY <1>0 DEF Stored
    <2>2. QED
      BY <1>2, <1>t, <2>1 DEF ReplayBatchRecord, Deliver, Typed, TypeOK
  <1>3. CASE ReplayFromSummary
    <2>1. log.report \in Report /\ log.reason \in Reason
      BY <1>0 DEF Stored
    <2>2. \A i \in Items : Admits(i) => log.item[i] = log.report[i]
      BY <1>3, LogFacts DEF ReplayFromSummary, Admits, RecordFits, ResultFitsItems, SummaryIsBacked
    <2>3. [i \in Items |-> IF Admits(i) THEN log.item[i] ELSE log.report[i]] = log.report
      BY <2>1, <2>2 DEF Report
    <2>4. returned' = returned \cup {[report |-> log.report, reason |-> log.reason]}
      BY <1>3, <2>3, Zenon DEF ReplayFromSummary, Deliver
    <2>5. returned' \subseteq [report : Report, reason : Reason]
      BY <1>0, <2>1, <2>4
    <2>6. QED
      BY <1>3, <1>t, <2>5 DEF ReplayFromSummary, Typed, TypeOK
  <1>4. CASE RebuildBatch
    BY <1>4, <1>0, <1>t DEF RebuildBatch, Typed, TypeOK
  <1>5. CASE ReplayItem
    <2>1. cursor \in Items /\ cursor + 1 \in 0 .. cfg.total
      BY <1>5, CursorFacts DEF ReplayItem
    <2>2. Terminal(cursor) => log.item[cursor] \in Settled
      BY DEF Terminal
    <2>3. /\ view' \in Report /\ stop' \in Reason \cup {"none"} /\ pc' \in {"rerun", "replay"}
          /\ task' \in [Items -> {"none", "body", "returned", "writing", "delivered", "joined", "gone"}]
          /\ joins' = joins
      BY <1>5, <1>0, <2>1, <2>2, ResolveTypes DEF ReplayItem, Typed, TypeOK
    <2>4. QED
      BY <1>5, <1>t, <2>1, <2>3 DEF ReplayItem, Typed, TypeOK
  <1>6. CASE ReplayDone
    <2>1. 0 \in 0 .. cfg.total
      BY <1>0, ConfigFacts
    <2>2. QED
      BY <1>6, <1>t, <2>1 DEF ReplayDone, Typed, TypeOK
  <1>7. CASE RerunJoined \/ JoinItem
    <2>1. joins # <<>> /\ Settle(Head(joins), fate[Head(joins)])
      BY <1>7 DEF RerunJoined, JoinItem
    <2>2. view' \in Report /\ stop' \in Reason \cup {"none"}
      BY <2>1, JoinFacts, SettleFacts
    <2>3. /\ task' \in [Items -> {"none", "body", "returned", "writing", "delivered", "joined", "gone"}]
          /\ joins' \in Seq(Items) /\ pc' \in {"replay", "dispatch", "closing"}
      BY <1>7, <1>0, <2>1, JoinFacts DEF RerunJoined, JoinItem
    <2>4. UNCHANGED <<cfg, fate, serviceVars, cursor, started, rebuild, closed, history>>
      BY <1>7 DEF RerunJoined, JoinItem
    <2>5. QED
      BY <1>t, <2>2, <2>3, <2>4 DEF Typed, TypeOK
  <1>8. CASE SkipItem \/ GateStops
    <2>1. cursor \in Items /\ cursor + 1 \in 0 .. cfg.total
      BY <1>8, CursorFacts DEF SkipItem, GateStops, Eligible, MayDispatch
    <2>2. stop' \in Reason \cup {"none"}
      BY <1>8, <1>0, EvaluateFacts DEF SkipItem, GateStops, Typed, TypeOK, CustomReason, Reason
    <2>3. cursor' = cursor + 1 /\ UNCHANGED <<cfg, fate, serviceVars, pc, view, started, rebuild, closed, taskVars, history>>
      BY <1>8 DEF SkipItem, GateStops
    <2>4. QED
      BY <1>t, <2>1, <2>2, <2>3 DEF Typed, TypeOK
  <1>9. CASE ResolveAtCursor
    <2>1. cursor \in Items /\ cursor + 1 \in 0 .. cfg.total
      BY <1>9, CursorFacts DEF ResolveAtCursor, MayDispatch
    <2>2. log.item[cursor] \in Settled /\ [view EXCEPT ![cursor] = "-"] \in Report
      BY <1>9, <1>0, <2>1 DEF ResolveAtCursor, Terminal, Report, ItemStatus
    <2>3. /\ view' \in Report /\ stop' \in Reason \cup {"none"} /\ pc' \in {"rerun", "dispatch"}
          /\ task' \in [Items -> {"none", "body", "returned", "writing", "delivered", "joined", "gone"}]
          /\ joins' = joins
      BY <1>9, <2>1, <2>2, ResolveTypes DEF ResolveAtCursor
    <2>4. QED
      BY <1>9, <1>0, <1>t, <2>1, <2>3 DEF ResolveAtCursor, Typed, TypeOK
  <1>10. CASE DispatchItem
    <2>1. cursor \in Items /\ cursor + 1 \in 0 .. cfg.total
      BY <1>10, CursorFacts DEF DispatchItem, Eligible, MayDispatch
    <2>2. [of |-> cursor, action |-> "START"] \in Update
      BY <2>1, UpdateFacts DEF Update
    <2>3. queue' \in Seq(Update) /\ (net' # "idle" => queue' # <<>>)
      BY <1>10, <1>0, <1>q, <2>2 DEF DispatchItem
    <2>4. view' \in Report
      BY <1>10, <1>0, <2>1 DEF DispatchItem, Report, ItemStatus
    <2>5. QED
      BY <1>10, <1>0, <1>t, <2>1, <2>3, <2>4 DEF DispatchItem, Typed, TypeOK
  <1>11. CASE NothingInFlight
    BY <1>11, <1>t, <1>0 DEF NothingInFlight, Typed, TypeOK
  <1>12. CASE CloseBatch
    <2>1. Completion \in Reason /\ Assembled \in [report : Report, reason : Reason]
      BY AssembledFacts
    <2>2. decided' \subseteq Reason /\ returned' \subseteq [report : Report, reason : Reason]
          /\ pc' \in {"returned", "outcome"}
      BY <1>12, <1>0, <2>1 DEF CloseBatch, Deliver
    <2>3. task' \in [Items -> {"none", "body", "returned", "writing", "delivered", "joined", "gone"}]
          /\ joins' \in Seq(Items)
      BY <1>12, <1>0 DEF CloseBatch
    <2>4. QED
      BY <1>12, <1>t, <2>2, <2>3 DEF CloseBatch, Typed, TypeOK
  <1>13. CASE SubmitOutcome
    <2>1. PICK big \in BOOLEAN :
            queue' = Append(queue, [of |-> Batch, report |-> Assembled.report,
                                    reason |-> Assembled.reason, big |-> big])
      BY <1>13 DEF SubmitOutcome
    <2>2. [of |-> Batch, report |-> Assembled.report, reason |-> Assembled.reason, big |-> big] \in Update
      BY AssembledFacts DEF Update, BatchWrite
    <2>3. queue' \in Seq(Update) /\ queue' # <<>>
      BY <1>q, <2>1, <2>2
    <2>4. QED
      BY <1>13, <1>t, <2>3 DEF SubmitOutcome, Typed, TypeOK
  <1>14. CASE OutcomeRecorded
    <2>1. Assembled \in [report : Report, reason : Reason]
      BY AssembledFacts
    <2>2. QED
      BY <1>14, <1>t, <1>0, <2>1 DEF OutcomeRecorded, Deliver, Typed, TypeOK
  <1>15. ASSUME NEW i \in Items, BodyReturns(i) \/ ItemRecorded(i)
         PROVE  Typed'
    <2>1. UNCHANGED <<cfg, fate, serviceVars, batchVars, history>>
      BY <1>15 DEF BodyReturns, ItemRecorded
    <2>2. \/ task' = [task EXCEPT ![i] = "delivered"] /\ joins' = Append(joins, i)
          \/ task' = [task EXCEPT ![i] = "returned"] /\ joins' = joins
      BY <1>15 DEF BodyReturns, ItemRecorded, Delivers
    <2>3. task' \in [Items -> {"none", "body", "returned", "writing", "delivered", "joined", "gone"}]
      BY <1>0, <2>2
    <2>4. joins' \in Seq(Items)
      BY <1>0, <2>2
    <2>5. QED
      BY <1>t, <2>1, <2>3, <2>4 DEF Typed, TypeOK
  <1>16. ASSUME NEW i \in Items, SubmitItem(i)
         PROVE  Typed'
    <2>1. [of |-> i, action |-> fate[i]] \in Update
      BY <1>0, UpdateFacts DEF Update
    <2>2. queue' \in Seq(Update) /\ (net' # "idle" => queue' # <<>>)
      BY <1>16, <1>q, <2>1 DEF SubmitItem
    <2>3. QED
      BY <1>16, <1>0, <1>t, <2>2 DEF SubmitItem, Typed, TypeOK
  <1>17. CASE SendWrite
    <2>1. queue # <<>> /\ Tail(queue) \in Seq(Update)
      BY <1>17, <1>0 DEF SendWrite
    <2>2. queue' \in Seq(Update) /\ (net' # "idle" => queue' # <<>>) /\ net' \in {"idle", "sent"}
      BY <1>17, <1>0, <2>1 DEF SendWrite
    <2>3. QED
      BY <1>17, <1>t, <2>2 DEF SendWrite, Typed, TypeOK
  <1>18. CASE RecordWrite
    <2>1. Head(queue) \in Update /\ record' = After(record, Head(queue))
      BY <1>18, <1>0 DEF RecordWrite, Applied, After, Typed, TypeOK
    <2>2. record' \in Stored
      BY <1>0, <2>1, AfterFacts
    <2>3. QED
      BY <1>18, <1>0, <1>t, <2>2 DEF RecordWrite, Typed, TypeOK
  <1>19. CASE AnswerWrite
    <2>1. queue' \in Seq(Update)
      BY <1>19, <1>0 DEF AnswerWrite
    <2>2. QED
      BY <1>19, <1>0, <1>t, <2>1 DEF AnswerWrite, Typed, TypeOK
  <1>20. CASE Restart
    <2>1. 0 \in 0 .. cfg.total /\ queue' \in Seq(Update) /\ joins' \in Seq(Items)
          /\ (restarts - 1 \in 0 .. MaxRestarts)
      BY <1>20, <1>0, ConfigFacts, ConfigAssumption DEF Restart, Typed, TypeOK
    <2>2. QED
      BY <1>20, <1>0, <1>t, <1>o, <2>1 DEF Restart, Typed, TypeOK
  <1>21. CASE UNCHANGED vars
    BY <1>21, <1>t DEF vars, Typed, TypeOK
  <1>22. QED
    BY <1>1, <1>2, <1>3, <1>4, <1>5, <1>6, <1>7, <1>8, <1>9, <1>10, <1>11, <1>12, <1>13, <1>14,
       <1>15, <1>16, <1>17, <1>18, <1>19, <1>20, <1>21
       DEF Next, Coordinator, ItemStep, Writes

(***************************************************************************)
(* The queue.                                                              *)
(***************************************************************************)
\* Tasks move on as their writes do.
TaskMoves(i) ==
  /\ ~ cfg.flat /\ log.item[i] = "none" /\ task[i] \in {"body", "returned", "gone"} =>
       task'[i] \in {"body", "returned", "gone"}
  /\ log.item[i] = "started" /\ task[i] \in {"writing", "gone"} => task'[i] \in {"writing", "gone"}

LEMMA AssembledKept ==
  ASSUME UNCHANGED <<view, started, stop, rebuild>>, rebuild => log' = log
  PROVE  Assembled' = Assembled /\ Completion' = Completion
  BY DEF Assembled, Completion, Admits

LEMMA EntryKept ==
  ASSUME Typed, NEW n \in DOMAIN queue, EntryFits(n), UNCHANGED <<cfg, fate, log>>,
         queue'[n] = queue[n], rebuild' = rebuild, \A i \in Items : TaskMoves(i),
         pc = "recording" => UNCHANGED <<batchVars, queue>>
  PROVE  EntryFits(n)'
  <1>1. PICK u \in Update : u = queue[n] /\ u = queue'[n]
    BY DEF Typed
  <1>2. u = BatchStart => log'.batch = "none"
    BY <1>1 DEF EntryFits
  <1>3. ASSUME u \in BatchWrite
        PROVE  BatchWriteFits(n)'
    <2>1. BatchWriteFits(n)
      BY <1>1, <1>3 DEF EntryFits
    <2>2. pc = "recording" /\ UNCHANGED <<batchVars, queue>>
      BY <2>1 DEF BatchWriteFits
    <2>3. Assembled' = Assembled /\ Completion' = Completion
      BY <2>2, AssembledKept DEF batchVars
    <2>4. QED
      BY <2>1, <2>2, <2>3 DEF BatchWriteFits, batchVars
  <1>4. ASSUME u \in ItemWrite
        PROVE  ItemWriteFits(u)'
    <2>1. ItemWriteFits(u) /\ u.of \in Items
      BY <1>1, <1>4, UpdateFacts DEF EntryFits
    <2>2. QED
      BY <2>1 DEF ItemWriteFits, TaskMoves
  <1>5. u \in ItemWrite => ItemWriteFits(queue[n])'
    <2>1. ASSUME u \in ItemWrite
          PROVE  ItemWriteFits(queue[n])'
      BY <1>1, <1>4, <2>1 DEF ItemWriteFits
    <2>2. QED
      BY <2>1
  <1>6. QED
    BY <1>1, <1>2, <1>3, <1>5 DEF EntryFits

LEMMA QueueKept ==
  ASSUME Typed, QueueFits, UNCHANGED <<cfg, fate, log, queue>>,
         pc' = "start" => pc = "start",
         pc = "start" /\ log.batch = "none" => pc' = "start",
         queue # <<>> => rebuild' = rebuild /\ (pc = "recording" => UNCHANGED batchVars),
         \A i \in Items : TaskMoves(i)
  PROVE  QueueFits'
  <1>1. /\ \A m, n \in DOMAIN queue' : queue'[m].of = queue'[n].of => m = n
        /\ log'.batch = "none" /\ pc' # "start" => queue' # <<>> /\ Head(queue') = BatchStart
        /\ log'.batch = "succeeded" \/ pc' = "start" => queue' = <<>>
    BY DEF QueueFits
  <1>2. ASSUME NEW n \in DOMAIN queue
        PROVE  EntryFits(n)'
    <2>1. queue # <<>> /\ EntryFits(n)
      BY DEF Typed, QueueFits
    <2>2. QED
      BY <2>1, EntryKept
  <1>3. QED
    BY <1>1, <1>2 DEF QueueFits

\* A write joins the end of the queue.
LEMMA QueueGrows ==
  ASSUME Typed, QueueFits, NEW w \in Update, queue' = Append(queue, w),
         UNCHANGED <<cfg, fate, log>>, log.batch # "succeeded", pc' # "start",
         \A n \in DOMAIN queue : queue[n].of # w.of,
         log.batch = "none" => w = BatchStart \/ pc # "start",
         pc # "recording",
         queue # <<>> => rebuild' = rebuild,
         \A i \in Items : TaskMoves(i),
         NEW k, k = Len(queue) + 1, EntryFits(k)'
  PROVE  QueueFits'
  <1>1. /\ queue \in Seq(Update) /\ queue' \in Seq(Update) /\ queue' # <<>>
        /\ DOMAIN queue' = DOMAIN queue \cup {Len(queue) + 1} /\ Len(queue) + 1 \notin DOMAIN queue
        /\ queue'[Len(queue) + 1] = w /\ \A n \in DOMAIN queue : queue'[n] = queue[n]
        /\ Len(queue') = Len(queue) + 1
    BY DEF Typed
  <1>2. queue # <<>> => Head(queue') = Head(queue)
    BY <1>1
  <1>3. queue = <<>> => Head(queue') = w
    BY <1>1
  <1>4. \A m, n \in DOMAIN queue' : queue'[m].of = queue'[n].of => m = n
    BY <1>1 DEF QueueFits
  <1>5. log'.batch = "none" /\ pc' # "start" => Head(queue') = BatchStart
    BY <1>2, <1>3 DEF QueueFits
  <1>6. ASSUME NEW n \in DOMAIN queue
        PROVE  EntryFits(n)'
    <2>1. queue # <<>> /\ queue'[n] = queue[n] /\ EntryFits(n)
      BY <1>1 DEF QueueFits
    <2>2. QED
      BY <2>1, EntryKept
  <1>7. \A n \in DOMAIN queue' : EntryFits(n)'
    BY <1>1, <1>6
  <1>8. QED
    BY <1>1, <1>4, <1>5, <1>7 DEF QueueFits

LEMMA TailFacts ==
  ASSUME Typed, queue # <<>>, queue' = Tail(queue)
  PROVE  /\ Len(queue') = Len(queue) - 1 /\ Head(queue) = queue[1] /\ 1 \in DOMAIN queue
         /\ \A n \in DOMAIN queue' : n + 1 \in DOMAIN queue /\ queue'[n] = queue[n + 1] /\ n + 1 # 1
         /\ \A n \in DOMAIN queue : n # 1 => n - 1 \in DOMAIN queue' /\ queue'[n - 1] = queue[n]
         /\ \A m, n \in DOMAIN queue' : m + 1 = n + 1 => m = n
  BY DEF Typed

\* The head leaves the queue, its effect in the log or not.
LEMMA QueueShrinks ==
  ASSUME Typed, LogIsBehind, QueueFits, PlanFits, queue # <<>>, queue' = Tail(queue),
         UNCHANGED <<cfg, fate, batchVars, task>>,
         \/ log' = log /\ Head(queue) \in ItemWrite
         \/ log' = After(log, Head(queue))
  PROVE  QueueFits'
  <1> USE DEF batchVars
  <1>1. PICK w \in Update : w = Head(queue) /\ w = queue[1] /\ 1 \in DOMAIN queue
    BY DEF Typed
  <1>2. /\ Len(queue') = Len(queue) - 1 /\ Len(queue) \in Nat
        /\ \A n \in DOMAIN queue' : n + 1 \in DOMAIN queue /\ queue'[n] = queue[n + 1] /\ n + 1 # 1
        /\ \A m, n \in DOMAIN queue' : m + 1 = n + 1 => m = n
    BY TailFacts DEF Typed
  <1>3. pc # "start" /\ log.batch # "succeeded" /\ EntryFits(1)
    BY <1>1 DEF QueueFits
  <1>4. w \in BatchWrite => queue' = <<>>
    <2>1. ASSUME w \in BatchWrite PROVE Len(queue) = 1
      BY <1>1, <1>3, <2>1 DEF EntryFits, BatchWriteFits
    <2>2. QED
      BY <2>1 DEF Typed
  <1>5. \A n \in DOMAIN queue' : queue[n + 1].of # w.of
    BY <1>1, <1>2 DEF QueueFits
  <1>6. /\ w \in ItemWrite => log.batch = "started" /\ log'.batch = "started"
        /\ w = BatchStart => log'.batch = "started"
        /\ w \in BatchWrite => log'.batch = "succeeded"
        /\ \A i \in Items : i # w.of => log'.item[i] = log.item[i]
    <2>1. log \in Stored
      BY DEF Typed, TypeOK
    <2>2. w \in ItemWrite => log.batch = "started"
      <3>1. w \in ItemWrite => w # BatchStart
        BY UpdateFacts
      <3>2. log.batch \in {"none", "started", "succeeded"}
        BY <2>1 DEF Stored
      <3>3. QED
        BY <1>1, <1>3, <3>1, <3>2 DEF QueueFits
    <2>3. CASE log' = log /\ w \in ItemWrite
      BY <2>2, <2>3, UpdateFacts
    <2>4. CASE log' = After(log, w)
      BY <2>1, <2>2, <2>4, AfterFacts DEF Update
    <2>5. QED
      BY <1>1, <2>3, <2>4
  <1>7. /\ log'.batch # "none" /\ pc' # "start"
        /\ log'.batch = "succeeded" => queue' = <<>>
    BY <1>3, <1>4, <1>6 DEF Update
  <1>8. \A m, n \in DOMAIN queue' : queue'[m].of = queue'[n].of => m = n
    BY <1>2 DEF QueueFits
  <1>9. ASSUME NEW n \in DOMAIN queue'
        PROVE  EntryFits(n)'
    <2>1. PICK u \in Update : u = queue[n + 1] /\ u = queue'[n] /\ n + 1 \in DOMAIN queue
      BY <1>2 DEF Typed
    <2>2. PICK k \in DOMAIN queue : k = n + 1
      BY <2>1
    <2>3. EntryFits(k) /\ u = queue[k] /\ u.of # w.of
      BY <1>5, <2>1, <2>2 DEF QueueFits
    <2>4. w \notin BatchWrite
      BY <1>4, <1>9
    <2>5. u # BatchStart
      BY <2>3, <2>4, <1>1, <1>6, UpdateFacts DEF EntryFits, Update
    <2>6. ASSUME u \in BatchWrite
          PROVE  BatchWriteFits(n)'
      <3>1. BatchWriteFits(k) /\ w \in ItemWrite /\ ~ rebuild
        BY <2>3, <2>4, <2>6, UpdateFacts DEF EntryFits, Update, BatchWriteFits, PlanFits
      <3>2. Assembled' = Assembled /\ Completion' = Completion
        BY <3>1, AssembledKept
      <3>3. log'.batch = "started" /\ n = Len(queue')
        BY <1>2, <1>6, <2>2, <3>1 DEF BatchWriteFits
      <3>4. QED
        BY <2>1, <2>3, <3>1, <3>2, <3>3 DEF BatchWriteFits
    <2>7. ASSUME u \in ItemWrite
          PROVE  ItemWriteFits(queue[n])'
      <3>1. ItemWriteFits(u) /\ u.of \in Items /\ log'.item[u.of] = log.item[u.of]
        BY <1>6, <2>3, <2>7, UpdateFacts DEF EntryFits
      <3>2. QED
        BY <2>1, <3>1 DEF ItemWriteFits
    <2>8. QED
      BY <2>1, <2>5, <2>6, <2>7 DEF EntryFits
  <1>10. QED
    BY <1>7, <1>8, <1>9 DEF QueueFits

LEMMA LogIsBehindNext ==
  ASSUME BatchInv, [Next]_vars
  PROVE  LogIsBehind'
  <1> USE DEF batchVars, taskVars, serviceVars, history
  <1>0. Typed /\ LogIsBehind /\ (net = "recorded" => queue # <<>>) /\ queue \in Seq(Update)
    BY DEF BatchInv, Typed, TypeOK
  <1>1. CASE UNCHANGED <<record, log, net>> /\ (queue' = queue \/ \E w \in Update : queue' = Append(queue, w))
    <2>1. queue # <<>> => Head(queue') = Head(queue)
      BY <1>0, <1>1
    <2>2. QED
      BY <1>0, <1>1, <2>1 DEF LogIsBehind
  <1>2. CASE SendWrite
    BY <1>0, <1>2 DEF SendWrite, LogIsBehind
  <1>3. CASE RecordWrite
    BY <1>0, <1>3 DEF RecordWrite, Applied, After, LogIsBehind
  <1>4. CASE AnswerWrite \/ Restart
    BY <1>4 DEF AnswerWrite, Restart, LogIsBehind
  <1>5. CASE Coordinator \/ UNCHANGED vars
    <2>1. CASE StartBatch
      BY <1>1, <2>1 DEF StartBatch, Update
    <2>2. CASE DispatchItem
      <3>1. cursor \in Items
        BY <1>0, <2>2, CursorFacts DEF DispatchItem, Eligible, MayDispatch
      <3>2. [of |-> cursor, action |-> "START"] \in Update
        BY <3>1, UpdateFacts DEF Update
      <3>3. QED
        BY <1>1, <2>2, <3>2 DEF DispatchItem
    <2>3. CASE SubmitOutcome
      <3>1. \A big \in BOOLEAN : [of |-> Batch, report |-> Assembled.report,
                                  reason |-> Assembled.reason, big |-> big] \in Update
        BY <1>0, AssembledFacts DEF Update, BatchWrite
      <3>2. QED
        BY <1>1, <2>3, <3>1 DEF SubmitOutcome
    <2>4. CASE ~ StartBatch /\ ~ DispatchItem /\ ~ SubmitOutcome
      <3>1. UNCHANGED <<record, log, net, queue>>
        BY <1>5, <2>4 DEF Coordinator, vars, ReplayBatchRecord, ReplayFromSummary, RebuildBatch,
           ReplayItem, ReplayDone, RerunJoined, SkipItem, ResolveAtCursor, GateStops, JoinItem,
           NothingInFlight, CloseBatch, OutcomeRecorded
      <3>2. QED
        BY <1>1, <3>1
    <2>5. QED
      BY <2>1, <2>2, <2>3, <2>4
  <1>6. ASSUME NEW i \in Items, ItemStep(i)
        PROVE  LogIsBehind'
    <2>1. [of |-> i, action |-> fate[i]] \in Update
      BY <1>0, UpdateFacts DEF Update, Typed, TypeOK
    <2>2. QED
      BY <1>1, <1>6, <2>1 DEF ItemStep, BodyReturns, SubmitItem, ItemRecorded
  <1>7. QED
    BY <1>2, <1>3, <1>4, <1>5, <1>6 DEF Next, Writes

\* A batch whose plan is obeyed is recorded, and writes nothing more.
LEMMA PlanIsRecorded ==
  ASSUME Typed, LogIsBehind, QueueFits, PlanFits, RecordFits, rebuild
  PROVE  /\ record = log /\ queue = <<>> /\ log.batch = "succeeded"
         /\ \A i \in Items : Admits(i) /\ ~ cfg.flat => Terminal(i)
         /\ \A i \in Items : Admits(i) => log.report[i] = fate[i] /\ i \in Total
  <1>1. record = log /\ queue = <<>> /\ log.batch = "succeeded"
    BY LogFacts DEF PlanFits, QueueFits
  <1>2. \A i \in Items : Admits(i) /\ ~ cfg.flat => Terminal(i)
    BY <1>1 DEF RecordFits, ResultFitsItems, SummaryIsBacked, Admits, Terminal
  <1>3. \A i \in Items : Admits(i) => log.report[i] = fate[i] /\ i \in Total
    BY <1>1 DEF RecordFits, ReportIsFate, Admits
  <1>4. QED
    BY <1>1, <1>2, <1>3

\* An item that the coordinator has not come to has no write under way.
LEMMA NextHasNoWrite ==
  ASSUME BatchInv, Eligible
  PROVE  /\ cursor \in Items /\ task[cursor] = "none"
         /\ \A n \in DOMAIN queue : queue[n].of # cursor
  <1>1. Typed /\ QueueFits /\ TasksFit
    BY DEF BatchInv
  <1>2. cursor \in Items /\ ~ Terminal(cursor) /\ pc = "dispatch"
    BY <1>1, CursorFacts DEF Eligible, MayDispatch
  <1>3. task[cursor] = "none"
    <2>1. TaskIsTimely(cursor) /\ ~ (cursor < cursor)
      BY <1>1, <1>2 DEF TasksFit, Items
    <2>2. QED
      BY <1>2, <2>1 DEF TaskIsTimely, Dispatching
  <1>4. ASSUME NEW n \in DOMAIN queue, queue[n].of = cursor
        PROVE  FALSE
    <2>1. PICK u \in Update : u = queue[n]
      BY <1>1 DEF Typed
    <2>2. u \in ItemWrite /\ u.of = cursor
      BY <1>2, <1>4, <2>1, UpdateFacts, ItemsAreFinite DEF Update
    <2>3. ItemWriteFits(u)
      BY <1>1, <2>1, <2>2 DEF QueueFits, EntryFits
    <2>4. QED
      BY <1>3, <2>2, <2>3 DEF ItemWriteFits
  <1>5. QED
    BY <1>2, <1>3, <1>4

LEMMA DispatchKeepsQueue ==
  ASSUME BatchInv, DispatchItem
  PROVE  QueueFits'
  <1>0. Typed /\ LogIsBehind /\ QueueFits /\ PlanFits /\ TasksFit /\ RecordFits
    BY DEF BatchInv
  <1>1. Eligible /\ pc = "dispatch" /\ pc' = pc /\ task' = [task EXCEPT ![cursor] = "body"]
        /\ UNCHANGED <<cfg, fate, log, rebuild>>
    BY DEF DispatchItem, Eligible, MayDispatch
  <1>2. /\ cursor \in Items /\ task[cursor] = "none"
        /\ \A n \in DOMAIN queue : queue[n].of # cursor
    BY <1>1, NextHasNoWrite
  <1>3. \A i \in Items : TaskMoves(i)
    BY <1>0, <1>1, <1>2 DEF TaskMoves, Typed, TypeOK
  <1>4. CASE cfg.flat \/ Recorded(cursor)
    BY <1>0, <1>1, <1>3, <1>4, QueueKept DEF DispatchItem
  <1>5. CASE ~ (cfg.flat \/ Recorded(cursor))
    <2>1. ~ rebuild
      <3>1. rebuild => Admits(cursor) /\ ~ Terminal(cursor)
        BY <1>1 DEF Eligible
      <3>2. QED
        BY <1>0, <1>2, <1>5, <3>1, PlanIsRecorded
    <2>2. log.batch # "succeeded" /\ log.item[cursor] = "none"
      BY <1>0, <1>1, <1>5, <2>1 DEF PlanFits, Producing, Recorded
    <2>3. PICK w \in ItemWrite : w = StartOf(cursor) /\ w.of = cursor /\ w.action = "START"
      <3>1. \A i \in Items : StartOf(i) \in ItemWrite /\ StartOf(i).of = i /\ StartOf(i).action = "START"
        BY DEF StartOf, ItemWrite
      <3>2. QED
        BY <1>2, <3>1
    <2>4. queue' = Append(queue, w) /\ w \in Update
      BY <1>5, <2>3 DEF DispatchItem, StartOf, Update
    <2>5. PICK k : k = Len(queue) + 1
      OBVIOUS
    <2>6. queue'[k] = w
      BY <1>0, <2>4, <2>5 DEF Typed
    <2>7. ItemWriteFits(w)'
      BY <1>0, <1>1, <1>2, <1>5, <2>1, <2>2, <2>3 DEF ItemWriteFits, Typed, TypeOK
    <2>8. EntryFits(k)'
      BY <2>3, <2>6, <2>7, UpdateFacts DEF EntryFits, ItemWriteFits
    <2>9. QED
      BY <1>0, <1>1, <1>2, <1>3, <2>2, <2>3, <2>4, <2>5, <2>8, QueueGrows
  <1>6. QED
    BY <1>4, <1>5

LEMMA OutcomesKeepQueue ==
  ASSUME BatchInv, SubmitOutcome \/ \E i \in Items : SubmitItem(i)
  PROVE  QueueFits'
  <1>0. /\ Typed /\ LogIsBehind /\ QueueFits /\ PlanFits /\ TasksFit
        /\ queue \in Seq(Update) /\ fate \in [Items -> Settled]
        /\ log.item \in [Items -> {"none", "started"} \cup Settled]
    BY DEF BatchInv, Typed, TypeOK, Stored
  <1>1. CASE SubmitOutcome
    <2>1. PICK big \in BOOLEAN :
            queue' = Append(queue, [of |-> Batch, report |-> Assembled.report,
                                    reason |-> Assembled.reason, big |-> big])
      BY <1>1 DEF SubmitOutcome
    <2>2. PICK w \in BatchWrite : w = [of |-> Batch, report |-> Assembled.report,
                                       reason |-> Assembled.reason, big |-> big]
      BY <1>0, AssembledFacts DEF BatchWrite
    <2>3. pc = "outcome" /\ pc' = "recording" /\ log.batch = "started" /\ ~ rebuild
          /\ UNCHANGED <<cfg, fate, log, view, started, stop, rebuild, task>>
      BY <1>0, <1>1 DEF SubmitOutcome, PlanFits, taskVars
    <2>4. w.of = Batch /\ w # BatchStart /\ w \notin ItemWrite /\ w \in Update
      BY UpdateFacts DEF Update
    <2>5. \A n \in DOMAIN queue : queue[n].of # w.of
      <3>1. ASSUME NEW n \in DOMAIN queue, queue[n].of = Batch
            PROVE  FALSE
        <4>1. queue[n] \in Update /\ EntryFits(n)
          BY <1>0 DEF QueueFits
        <4>2. queue[n] \in BatchWrite \/ queue[n] = BatchStart
          BY <3>1, <4>1, UpdateFacts DEF Update
        <4>3. QED
          BY <2>3, <4>1, <4>2 DEF EntryFits, BatchWriteFits
      <3>2. QED
        BY <2>4, <3>1
    <2>6. PICK k : k = Len(queue) + 1
      OBVIOUS
    <2>7. queue' = Append(queue, w) /\ queue'[k] = w /\ Len(queue') = k
      BY <1>0, <2>1, <2>2, <2>4, <2>6
    <2>8. BatchWriteFits(k)'
      <3>1. Assembled' = Assembled /\ Completion' = Completion
        BY <2>3, AssembledKept
      <3>2. w.report = Assembled.report /\ w.reason = Completion
        BY <2>2, <2>3 DEF Assembled
      <3>3. QED
        BY <2>3, <2>7, <3>1, <3>2 DEF BatchWriteFits
    <2>9. EntryFits(k)'
      BY <2>4, <2>7, <2>8 DEF EntryFits
    <2>10. \A i \in Items : TaskMoves(i)
      BY <2>3 DEF TaskMoves
    <2>11. QED
      BY <1>0, <2>3, <2>4, <2>5, <2>6, <2>7, <2>9, <2>10, QueueGrows
  <1>2. ASSUME NEW i \in Items, SubmitItem(i)
        PROVE  QueueFits'
    <2>1. /\ task[i] = "returned" /\ log.item[i] # "none" /\ ~ closed
          /\ queue' = Append(queue, [of |-> i, action |-> fate[i]])
          /\ task' = [task EXCEPT ![i] = "writing"]
          /\ UNCHANGED <<cfg, fate, log, rebuild, pc>>
      BY <1>2 DEF SubmitItem, batchVars
    <2>2. /\ ~ rebuild /\ ~ cfg.flat /\ log.batch # "succeeded" /\ log.item[i] = "started"
          /\ pc # "recording" /\ pc # "start"
      <3>1. TaskFits(i)
        BY <1>0 DEF TasksFit
      <3>2. log.item[i] = "started"
        BY <1>0, <2>1, <3>1 DEF TaskFits
      <3>3. QED
        BY <1>0, <2>1, <3>1, <3>2 DEF TaskFits, PlanFits
    <2>3. PICK w \in ItemWrite : w = [of |-> i, action |-> fate[i]] /\ w.of = i /\ w.action = fate[i]
      <3>1. fate[i] \in {"START"} \cup Settled
        BY <1>0
      <3>2. ASSUME NEW a \in {"START"} \cup Settled
            PROVE  \E w \in ItemWrite : w = [of |-> i, action |-> a] /\ w.of = i /\ w.action = a
        <4>1. [of |-> i, action |-> a] \in ItemWrite
          BY DEF ItemWrite
        <4>2. QED
          BY <4>1
      <3>3. QED
        BY <3>1, <3>2
    <2>4. w # BatchStart /\ w \notin BatchWrite /\ w \in Update /\ w.action # "START"
      BY <1>0, <2>3, UpdateFacts DEF Update, Settled
    <2>5. \A n \in DOMAIN queue : queue[n].of # w.of
      <3>1. ASSUME NEW n \in DOMAIN queue, queue[n].of = i
            PROVE  FALSE
        <4>1. PICK u \in Update : u = queue[n]
          BY <1>0
        <4>2. u \in ItemWrite
          BY <3>1, <4>1, UpdateFacts, ItemsAreFinite DEF Update
        <4>3. ItemWriteFits(u)
          BY <1>0, <4>1, <4>2 DEF QueueFits, EntryFits
        <4>4. QED
          BY <2>1, <3>1, <4>1, <4>3 DEF ItemWriteFits
      <3>2. QED
        BY <2>3, <3>1
    <2>6. PICK k : k = Len(queue) + 1
      OBVIOUS
    <2>7. queue' = Append(queue, w) /\ queue'[k] = w
      BY <1>0, <2>1, <2>3, <2>4, <2>6
    <2>8. task'[i] = "writing"
      BY <1>0, <2>1 DEF Typed, TypeOK
    <2>9. ItemWriteFits(w)'
      BY <2>1, <2>2, <2>3, <2>4, <2>8 DEF ItemWriteFits
    <2>10. EntryFits(k)'
      BY <2>4, <2>7, <2>9 DEF EntryFits, ItemWriteFits
    <2>11. \A j \in Items : TaskMoves(j)
      BY <1>0, <2>1, <2>2 DEF TaskMoves, Typed, TypeOK
    <2>12. QED
      BY <1>0, <2>1, <2>2, <2>4, <2>5, <2>6, <2>7, <2>10, <2>11, QueueGrows
  <1>3. QED
    BY <1>1, <1>2

LEMMA QueueFitsNext ==
  ASSUME BatchInv, [Next]_vars
  PROVE  QueueFits'
  <1> USE DEF taskVars, serviceVars, history
  <1>0. Typed /\ LogIsBehind /\ QueueFits /\ PlanFits /\ TasksFit
    BY DEF BatchInv
  <1>1. /\ task \in [Items -> {"none", "body", "returned", "writing", "delivered", "joined", "gone"}]
        /\ joins \in Seq(Items)
    BY <1>0 DEF Typed, TypeOK
  <1>2. CASE StartBatch
    <2>1. queue = <<>> /\ pc = "start" /\ pc' # "start" /\ UNCHANGED <<cfg, fate, log, rebuild, task>>
          /\ log.batch # "succeeded"
      BY <1>0, <1>2 DEF StartBatch, QueueFits
    <2>2. \A i \in Items : TaskMoves(i)
      BY <2>1 DEF TaskMoves
    <2>3. CASE log.batch = "none"
      <3>1. queue' = Append(queue, BatchStart) /\ BatchStart \in Update
        BY <1>2, <2>3 DEF StartBatch, Update
      <3>2. PICK k : k = Len(queue) + 1
        OBVIOUS
      <3>3. queue'[k] = BatchStart
        BY <2>1, <3>1, <3>2
      <3>4. EntryFits(k)'
        BY <2>1, <2>3, <3>3, UpdateFacts DEF EntryFits
      <3>5. QED
        BY <1>0, <2>1, <2>2, <2>3, <3>1, <3>2, <3>4, QueueGrows
    <2>4. CASE log.batch # "none"
      BY <1>0, <1>2, <2>1, <2>2, <2>4, QueueKept DEF StartBatch
    <2>5. QED
      BY <2>3, <2>4
  <1>3. CASE ReplayBatchRecord \/ ReplayFromSummary \/ RebuildBatch \/ OutcomeRecorded
    <2>1. log.batch = "succeeded" /\ queue = <<>> /\ pc' # "start"
          /\ UNCHANGED <<cfg, fate, log, queue, task>>
      BY <1>0, <1>3 DEF ReplayBatchRecord, ReplayFromSummary, RebuildBatch, OutcomeRecorded, QueueFits
    <2>2. \A i \in Items : TaskMoves(i)
      BY <2>1 DEF TaskMoves
    <2>3. QED
      BY <1>0, <2>1, <2>2, QueueKept
  <1>4. CASE ReplayItem \/ ResolveAtCursor
    <2>1. /\ UNCHANGED <<cfg, fate, log, queue, rebuild>> /\ pc # "recording"
          /\ pc # "start" /\ pc' # "start"
          /\ \/ task' = task
             \/ Terminal(cursor) /\ task' = [task EXCEPT ![cursor] = "body"]
      BY <1>4 DEF ReplayItem, ResolveAtCursor, ResolveInline, MayDispatch
    <2>2. \A i \in Items : TaskMoves(i)
      BY <1>1, <2>1 DEF TaskMoves, Terminal, Settled
    <2>3. QED
      BY <1>0, <2>1, <2>2, QueueKept
  <1>5. CASE ReplayDone \/ SkipItem \/ GateStops \/ NothingInFlight
    <2>1. UNCHANGED <<cfg, fate, log, queue, rebuild, task>> /\ pc # "recording"
          /\ pc # "start" /\ pc' # "start"
      BY <1>5 DEF ReplayDone, SkipItem, GateStops, NothingInFlight, MayDispatch, Eligible
    <2>2. \A i \in Items : TaskMoves(i)
      BY <2>1 DEF TaskMoves
    <2>3. QED
      BY <1>0, <2>1, <2>2, QueueKept
  <1>6. CASE RerunJoined \/ JoinItem
    <2>1. /\ UNCHANGED <<cfg, fate, log, queue, rebuild>> /\ pc # "recording" /\ joins # <<>>
          /\ pc # "start" /\ pc' # "start" /\ task' = [task EXCEPT ![Head(joins)] = "joined"]
      BY <1>6 DEF RerunJoined, JoinItem
    <2>2. Head(joins) \in Items /\ task[Head(joins)] = "delivered"
      BY <1>0, <2>1, JoinFacts DEF TasksFit
    <2>3. \A i \in Items : TaskMoves(i)
      BY <1>1, <2>1, <2>2 DEF TaskMoves
    <2>4. QED
      BY <1>0, <2>1, <2>3, QueueKept
  <1>7. CASE CloseBatch
    <2>1. /\ UNCHANGED <<cfg, fate, log, queue, rebuild>> /\ pc = "closing" /\ pc' # "start"
          /\ task' = [i \in Items |-> IF i \in InFlight THEN "gone" ELSE task[i]]
      BY <1>7 DEF CloseBatch
    <2>2. \A i \in Items : TaskMoves(i)
      BY <1>1, <2>1 DEF TaskMoves, InFlight
    <2>3. QED
      BY <1>0, <2>1, <2>2, QueueKept
  <1>8. ASSUME NEW i \in Items, BodyReturns(i) \/ ItemRecorded(i)
        PROVE  QueueFits'
    <2>1. UNCHANGED <<cfg, fate, log, queue, batchVars>>
      BY <1>8 DEF BodyReturns, ItemRecorded
    <2>2. \/ task[i] = "body" /\ task' = [task EXCEPT ![i] = "returned"]
          \/ (cfg.flat \/ log.item[i] \in Settled) /\ task' = [task EXCEPT ![i] = "delivered"]
      BY <1>8 DEF BodyReturns, ItemRecorded, Delivers
    <2>3. \A j \in Items : TaskMoves(j) \/ cfg.flat
      BY <1>1, <2>2 DEF TaskMoves, Settled
    <2>4. CASE ~ cfg.flat
      BY <1>0, <2>1, <2>3, <2>4, QueueKept DEF batchVars
    <2>5. CASE cfg.flat
      <3>1. \A n \in DOMAIN queue : queue[n] \notin ItemWrite
        BY <1>0, <2>5 DEF QueueFits, EntryFits, ItemWriteFits
      <3>2. Assembled' = Assembled /\ Completion' = Completion
        BY <2>1, AssembledKept DEF batchVars
      <3>3. \A n \in DOMAIN queue : EntryFits(n)'
        BY <1>0, <2>1, <3>1, <3>2 DEF QueueFits, EntryFits, BatchWriteFits, batchVars
      <3>4. QED
        BY <1>0, <2>1, <3>3 DEF QueueFits, batchVars
    <2>6. QED
      BY <2>4, <2>5
  <1>9. CASE SendWrite
    <2>1. UNCHANGED <<cfg, fate, log, batchVars, task>> /\ queue # <<>>
      BY <1>9 DEF SendWrite
    <2>2. CASE closed /\ InScope(Head(queue))
      <3>1. Head(queue) \in Update /\ Head(queue).of # Batch
        BY <1>0, <2>1, <2>2 DEF Typed, InScope
      <3>2. Head(queue) \in ItemWrite /\ queue' = Tail(queue)
        BY <1>9, <2>2, <3>1, UpdateFacts DEF SendWrite, Update
      <3>3. QED
        BY <1>0, <2>1, <3>2, QueueShrinks
    <2>3. CASE ~ (closed /\ InScope(Head(queue)))
      <3>1. queue' = queue /\ \A i \in Items : TaskMoves(i)
        BY <1>9, <2>1, <2>3 DEF SendWrite, TaskMoves
      <3>2. QED
        BY <1>0, <2>1, <3>1, QueueKept DEF batchVars
    <2>4. QED
      BY <2>2, <2>3
  <1>10. CASE RecordWrite \/ UNCHANGED vars
    <2>1. UNCHANGED <<cfg, fate, log, queue, batchVars, task>>
      BY <1>10 DEF RecordWrite, vars
    <2>2. \A i \in Items : TaskMoves(i)
      BY <2>1 DEF TaskMoves
    <2>3. QED
      BY <1>0, <2>1, <2>2, QueueKept DEF batchVars
  <1>11. CASE AnswerWrite
    <2>1. /\ queue # <<>> /\ queue' = Tail(queue) /\ log' = After(log, Head(queue))
          /\ UNCHANGED <<cfg, fate, batchVars, task>>
      BY <1>0, <1>11 DEF AnswerWrite, LogIsBehind, Typed, TypeOK
    <2>2. QED
      BY <1>0, <2>1, QueueShrinks
  <1>12. CASE Restart
    <2>1. queue' = <<>> /\ pc' = "start"
      BY <1>12 DEF Restart
    <2>2. QED
      BY <2>1 DEF QueueFits
  <1>13. QED
    BY <1>2, <1>3, <1>4, <1>5, <1>6, <1>7, <1>8, <1>9, <1>10, <1>11, <1>12,
       DispatchKeepsQueue, OutcomesKeepQueue
       DEF Next, Coordinator, ItemStep, Writes

(***************************************************************************)
(* The plan and the end of the batch.                                      *)
(***************************************************************************)
LEMMA PlanKept ==
  ASSUME PlanFits, UNCHANGED <<cfg, log, batchVars>>, InFlight' \subseteq InFlight,
         pc = "start" => task' = task
  PROVE  PlanFits'
  <1>1. Assembled' = Assembled /\ Completion' = Completion
    BY AssembledKept DEF batchVars
  <1>2. /\ rebuild' = rebuild /\ stop' = stop /\ pc' = pc /\ view' = view /\ started' = started
        /\ closed' = closed /\ cursor' = cursor /\ Producing' = Producing
    BY DEF batchVars, Producing
  <1>3. Concurrent' = Concurrent
    BY DEF Concurrent
  <1>4. QED
    BY <1>1, <1>2, <1>3 DEF PlanFits

LEMMA PlanFitsNext ==
  ASSUME BatchInv, [Next]_vars
  PROVE  PlanFits'
  <1> USE DEF taskVars, serviceVars, history
  <1>0. /\ Typed /\ LogIsBehind /\ QueueFits /\ PlanFits /\ TasksFit
        /\ (net # "idle" => queue # <<>>) /\ queue \in Seq(Update) /\ log \in Stored
        /\ task \in [Items -> {"none", "body", "returned", "writing", "delivered", "joined", "gone"}]
    BY DEF BatchInv, Typed, TypeOK
  <1>1. CASE StartBatch \/ RebuildBatch
    <2>1. /\ ~ rebuild /\ ~ closed /\ stop = "none" /\ pc = "start"
          /\ pc' \in {"replay", "dispatch", "closing"} /\ UNCHANGED <<cfg, log, closed, task>>
          /\ rebuild' => stop' = "none" /\ log.batch = "succeeded"
          /\ ~ rebuild' => log.batch # "succeeded" /\ (pc' # "closing" => cfg.total # 0)
      BY <1>0, <1>1 DEF StartBatch, RebuildBatch, PlanFits
    <2>2. cfg.total # 0 => cfg.total > 0
      BY <1>0, ConfigFacts DEF Typed, TypeOK
    <2>3. pc' = "replay" => Concurrent'
      BY <1>1 DEF StartBatch, RebuildBatch, Concurrent
    <2>4. QED
      BY <2>1, <2>2, <2>3 DEF PlanFits, Producing
  <1>2. CASE ReplayBatchRecord \/ ReplayFromSummary
    <2>1. ~ rebuild /\ ~ closed /\ pc' = "returned" /\ log.batch = "succeeded"
          /\ UNCHANGED <<cfg, log, closed, rebuild, stop, task>>
      BY <1>0, <1>2 DEF ReplayBatchRecord, ReplayFromSummary, PlanFits
    <2>2. InFlight' = {}
      BY <1>0, <1>2, <2>1 DEF ReplayBatchRecord, ReplayFromSummary, PlanFits, InFlight
    <2>3. QED
      BY <2>1, <2>2 DEF PlanFits, Producing
  <1>3. CASE ReplayItem \/ ResolveAtCursor \/ ReplayDone \/ RerunJoined
    <2>1. rebuild => stop' = stop
      BY <1>3 DEF ReplayItem, ResolveAtCursor, ReplayDone, RerunJoined, ResolveInline, Settle
    <2>2. /\ pc \in {"replay", "dispatch", "rerun"} /\ pc' \in {"replay", "dispatch", "rerun"}
          /\ UNCHANGED <<cfg, log, rebuild, closed>>
      BY <1>3 DEF ReplayItem, ResolveAtCursor, ReplayDone, RerunJoined, ResolveInline, MayDispatch
    <2>3. pc' = "replay" => Concurrent /\ Concurrent' = Concurrent
      BY <1>0, <1>3, <2>2 DEF ReplayItem, ResolveAtCursor, ReplayDone, RerunJoined, ResolveInline, Concurrent, PlanFits
    <2>4. QED
      BY <1>0, <2>1, <2>2, <2>3 DEF PlanFits, Producing
  <1>4. CASE SkipItem \/ GateStops \/ DispatchItem
    <2>1. /\ pc = "dispatch" /\ pc' = "dispatch" /\ (rebuild => stop' = stop)
          /\ UNCHANGED <<cfg, log, rebuild, closed>>
      BY <1>4 DEF SkipItem, GateStops, DispatchItem, Eligible, MayDispatch
    <2>2. QED
      BY <1>0, <2>1 DEF PlanFits, Producing
  <1>5. CASE JoinItem \/ NothingInFlight
    <2>1. /\ pc = "dispatch" /\ pc' \in {"dispatch", "closing"} /\ (rebuild => stop' = stop)
          /\ UNCHANGED <<cfg, log, rebuild, closed>>
      BY <1>5 DEF JoinItem, NothingInFlight, Settle
    <2>2. QED
      BY <1>0, <2>1 DEF PlanFits, Producing
  <1>6. CASE CloseBatch
    <2>1. /\ pc = "closing" /\ (IF rebuild THEN pc' = "returned" ELSE pc' = "outcome") /\ closed'
          /\ UNCHANGED <<cfg, log, rebuild, stop, view, started>>
          /\ task' = [i \in Items |-> IF i \in InFlight THEN "gone" ELSE task[i]]
      BY <1>6 DEF CloseBatch
    <2>2. InFlight' = {}
      BY <1>0, <2>1 DEF InFlight
    <2>3. QED
      BY <1>0, <2>1, <2>2 DEF PlanFits, Producing
  <1>7. CASE SubmitOutcome \/ OutcomeRecorded
    <2>1. /\ closed /\ ~ rebuild /\ UNCHANGED <<cfg, log, view, started, stop, rebuild, closed, task>>
          /\ \/ pc' = "recording" /\ log.batch = "started"
             \/ pc' = "returned" /\ log.batch = "succeeded"
      BY <1>0, <1>7 DEF SubmitOutcome, OutcomeRecorded, PlanFits
    <2>2. InFlight' = InFlight
      BY <2>1 DEF InFlight
    <2>3. QED
      BY <1>0, <2>1, <2>2 DEF PlanFits, Producing
  <1>8. ASSUME NEW i \in Items, ItemStep(i)
        PROVE  PlanFits'
    <2>1. /\ UNCHANGED <<cfg, log, batchVars>> /\ task[i] \in {"body", "returned", "writing"}
          /\ \E s : task' = [task EXCEPT ![i] = s]
      BY <1>8 DEF ItemStep, BodyReturns, SubmitItem, ItemRecorded, Delivers
    <2>2. InFlight' \subseteq InFlight
      BY <1>0, <2>1 DEF InFlight
    <2>3. pc # "start"
      BY <1>0, <2>1 DEF PlanFits
    <2>4. QED
      BY <1>0, <2>1, <2>2, <2>3, PlanKept
  <1>9. CASE SendWrite \/ RecordWrite \/ UNCHANGED vars
    <2>1. UNCHANGED <<cfg, log, batchVars, task>>
      BY <1>9 DEF SendWrite, RecordWrite, vars
    <2>2. InFlight' = InFlight
      BY <2>1 DEF InFlight
    <2>3. QED
      BY <1>0, <2>1, <2>2, PlanKept
  <1>10. CASE AnswerWrite
    <2>1. /\ queue # <<>> /\ log' = After(log, Head(queue)) /\ UNCHANGED <<cfg, batchVars, task>>
          /\ Head(queue) = queue[1] /\ 1 \in DOMAIN queue /\ Head(queue) \in Update
      BY <1>0, <1>10, LogFacts DEF AnswerWrite, LogIsBehind
    <2>2. PICK w \in Update : w = Head(queue) /\ w = queue[1]
      BY <2>1
    <2>3. log.batch # "succeeded" /\ pc # "start" /\ EntryFits(1) /\ ~ rebuild
      BY <1>0, <2>1 DEF QueueFits, PlanFits
    <2>4. /\ Assembled' = Assembled /\ Completion' = Completion
          /\ InFlight' = InFlight /\ Concurrent' = Concurrent
      BY <2>1, <2>3, AssembledKept DEF batchVars, InFlight, Concurrent
    <2>5. CASE w \in BatchWrite
      <3>1. /\ pc = "recording" /\ w.report = Assembled.report /\ w.reason = Completion
        BY <2>2, <2>3, <2>5 DEF EntryFits, BatchWriteFits
      <3>2. log'.batch = "succeeded" /\ log'.report = w.report /\ log'.reason = w.reason
        BY <1>0, <2>1, <2>2, <2>5, AfterFacts
      <3>3. QED
        BY <1>0, <2>1, <2>3, <2>4, <3>1, <3>2 DEF PlanFits, Producing, batchVars
    <2>6. CASE w \notin BatchWrite
      <3>1. log'.batch # "succeeded"
        BY <1>0, <2>1, <2>2, <2>3, <2>6, AfterFacts DEF Update
      <3>2. QED
        BY <1>0, <2>1, <2>3, <2>4, <3>1 DEF PlanFits, Producing, batchVars
    <2>7. QED
      BY <2>5, <2>6
  <1>11. CASE Restart
    BY <1>11 DEF Restart, PlanFits, Producing
  <1>12. QED
    BY <1>1, <1>2, <1>3, <1>4, <1>5, <1>6, <1>7, <1>8, <1>9, <1>10, <1>11
       DEF Next, Coordinator, Writes

(***************************************************************************)
(* The tasks.                                                              *)
(***************************************************************************)
\* What an answered write changes in the log.
LEMMA AnswerFacts ==
  ASSUME Typed, LogIsBehind, QueueFits, PlanFits, AnswerWrite
  PROVE  /\ ~ rebuild /\ pc # "start" /\ log.batch # "succeeded" /\ queue # <<>>
         /\ \A i \in Items :
              \/ log'.item[i] = log.item[i]
              \/ log.item[i] = "none" /\ log'.item[i] = "started" /\ Head(queue) = StartOf(i)
              \/ log.item[i] = "started" /\ log'.item[i] = fate[i] /\ task[i] \in {"writing", "gone"}
         /\ log'.batch = "succeeded" => pc = "recording" /\ InFlight = {}
         /\ \A i \in Items : Written(i)' <=> Written(i)
         /\ \A i \in Items : log.item[i] # "none" => log'.item[i] # "none"
         /\ \A i \in Items : log.item[i] \in Settled => log'.item[i] = log.item[i]
  <1>1. /\ queue # <<>> /\ log' = After(log, Head(queue)) /\ queue' = Tail(queue)
        /\ 1 \in DOMAIN queue /\ Head(queue) = queue[1] /\ log \in Stored /\ fate \in [Items -> Settled]
    BY LogFacts DEF AnswerWrite, LogIsBehind, Typed, TypeOK
  <1>2. PICK w \in Update : w = Head(queue) /\ w = queue[1]
    BY <1>1 DEF Typed
  <1>3. EntryFits(1) /\ pc # "start" /\ log.batch # "succeeded" /\ ~ rebuild
    BY <1>1 DEF QueueFits, PlanFits
  <1>4. \A i \in Items :
          \/ log'.item[i] = log.item[i]
          \/ log.item[i] = "none" /\ log'.item[i] = "started" /\ w = StartOf(i)
          \/ log.item[i] = "started" /\ log'.item[i] = fate[i] /\ task[i] \in {"writing", "gone"}
    <2>1. CASE w \in ItemWrite
      <3>1. /\ w.of \in Items /\ ItemWriteFits(w) /\ w = [of |-> w.of, action |-> w.action]
            /\ log'.item[w.of] = IF w.action = "START" THEN "started" ELSE w.action
            /\ \A i \in Items : i # w.of => log'.item[i] = log.item[i]
        BY <1>1, <1>2, <1>3, <2>1, AfterFacts, UpdateFacts DEF EntryFits
      <3>2. QED
        BY <3>1 DEF ItemWriteFits, StartOf
    <2>2. CASE w \notin ItemWrite
      BY <1>1, <1>2, <2>2, AfterFacts DEF Update
    <2>3. QED
      BY <2>1, <2>2
  <1>5. log'.batch = "succeeded" => pc = "recording" /\ InFlight = {}
    <2>1. log'.batch = "succeeded" => w \in BatchWrite
      BY <1>1, <1>2, <1>3, AfterFacts DEF Update
    <2>2. w \in BatchWrite => pc = "recording"
      BY <1>2, <1>3 DEF EntryFits, BatchWriteFits
    <2>3. QED
      BY <2>1, <2>2 DEF PlanFits
  <1>6. log \in Stored /\ log.item \in [Items -> {"none", "started"} \cup Settled]
    BY <1>1 DEF Stored
  <1>7. /\ \A i \in Items : log.item[i] # "none" => log'.item[i] # "none"
        /\ \A i \in Items : log.item[i] \in Settled => log'.item[i] = log.item[i]
    BY <1>1, <1>4 DEF Settled
  <1>8. ASSUME NEW i \in Items
        PROVE  Written(i)' <=> Written(i)
    <2>1. Awaiting(i)' => Awaiting(i)
      BY <1>1, TailFacts DEF Awaiting, StartOf
    <2>2. log'.item[i] # "none" => Written(i)
      BY <1>1, <1>2, <1>4 DEF Written, Awaiting
    <2>3. Awaiting(i) => w = StartOf(i) \/ Awaiting(i)'
      <3>1. ASSUME NEW n \in DOMAIN queue, queue[n] = StartOf(i), n # 1
            PROVE  Awaiting(i)'
        <4>1. n - 1 \in DOMAIN queue' /\ queue'[n - 1] = StartOf(i)
          BY <1>1, <3>1, TailFacts
        <4>2. QED
          BY <4>1 DEF Awaiting, StartOf
      <3>2. QED
        BY <1>2, <3>1 DEF Awaiting
    <2>4. w = StartOf(i) => log'.item[i] # "none"
      <3>1. ASSUME w = StartOf(i)
            PROVE  log'.item[i] # "none"
        <4>1. w \in ItemWrite /\ w.of = i /\ w.action = "START"
          BY <3>1 DEF StartOf, ItemWrite
        <4>2. QED
          BY <1>1, <1>2, <4>1, AfterFacts
      <3>2. QED
        BY <3>1
    <2>5. QED
      BY <1>7, <2>1, <2>2, <2>3, <2>4 DEF Written
  <1>9. QED
    BY <1>1, <1>2, <1>3, <1>4, <1>5, <1>7, <1>8

\* One at a time, nothing is in flight when the next item is dispatched.
LEMMA OneSlot ==
  ASSUME Typed, MayDispatch, ~ Concurrent
  PROVE  InFlight = {}
  <1>1. IsFiniteSet(InFlight) /\ Cardinality(InFlight) \in Nat
    BY ItemsAreFinite DEF InFlight
  <1>2. Cardinality(InFlight) < 1
    BY DEF MayDispatch
  <1>3. QED
    BY <1>1, <1>2, FS_EmptySet

\* A task is touched by a step that leaves the rest of the batch alone.
LEMMA TasksFitNext ==
  ASSUME BatchInv, [Next]_vars
  PROVE  TasksFit'
  <1> USE DEF taskVars, serviceVars, history
  <1>0. /\ Typed /\ LogIsBehind /\ QueueFits /\ PlanFits /\ TasksFit /\ StartedFits /\ RecordFits
        /\ joins \in Seq(Items) /\ log \in Stored
        /\ task \in [Items -> {"none", "body", "returned", "writing", "delivered", "joined", "gone"}]
        /\ \A i \in Items : TaskFits(i) /\ TaskIsTimely(i)
        /\ \A n \in DOMAIN joins : task[joins[n]] = "delivered"
        /\ \A m, n \in DOMAIN joins : joins[m] = joins[n] => m = n
    BY DEF BatchInv, Typed, TypeOK, TasksFit
  <1>c. UNCHANGED <<cfg, fate>>
    BY DEF Next, Coordinator, ItemStep, Writes, vars, StartBatch, ReplayBatchRecord, ReplayFromSummary,
       RebuildBatch, ReplayItem, ReplayDone, RerunJoined, SkipItem, ResolveAtCursor, GateStops,
       DispatchItem, JoinItem, NothingInFlight, CloseBatch, SubmitOutcome, OutcomeRecorded,
       BodyReturns, SubmitItem, ItemRecorded, SendWrite, RecordWrite, AnswerWrite, Restart
  <1>d. Concurrent' = Concurrent /\ Total' = Total
    BY <1>c DEF Concurrent, Total
  <1>1. CASE StartBatch \/ RebuildBatch \/ ReplayBatchRecord \/ ReplayFromSummary
    <2>1. /\ UNCHANGED <<log, task, joins>> /\ cursor' = cursor
          /\ pc' \in {"replay", "dispatch", "closing", "returned"}
          /\ \A i \in Items : task[i] = "none"
      BY <1>0, <1>1 DEF StartBatch, RebuildBatch, ReplayBatchRecord, ReplayFromSummary, PlanFits
    <2>2. \A i \in Items : i \notin InFlight'
      BY <2>1 DEF InFlight
    <2>3. \A i \in Items : TaskFits(i)' /\ TaskIsTimely(i)'
      BY <2>1, <2>2 DEF TaskFits, TaskIsTimely
    <2>4. QED
      BY <1>0, <2>1, <2>3 DEF TasksFit
  <1>2. CASE ReplayDone \/ SkipItem \/ GateStops \/ NothingInFlight
    <2>1. UNCHANGED <<log, task, joins, rebuild, started, closed>>
      BY <1>2 DEF ReplayDone, SkipItem, GateStops, NothingInFlight
    <2>2. InFlight' = InFlight /\ \A i \in Items : Admits(i)' = Admits(i)
      BY <2>1 DEF InFlight, Admits
    <2>3. \A i \in Items : TaskFits(i)'
      BY <1>0, <1>c, <1>d, <2>1, <2>2 DEF TaskFits
    <2>4. ASSUME NEW i \in Items
          PROVE  TaskIsTimely(i)'
      <3>1. Terminal(i)' = Terminal(i) /\ TaskFits(i) /\ TaskIsTimely(i)
        BY <1>0, <2>1, <2>2 DEF Terminal
      <3>2. CASE ReplayDone
        <4>1. pc = "replay" /\ pc' = "dispatch" /\ Concurrent /\ cursor' = 0 /\ ~ closed
          BY <1>0, <3>2 DEF ReplayDone, PlanFits
        <4>2. task[i] \in {"none", "joined"}
          BY <1>0, <3>1, <4>1 DEF TaskFits, TaskIsTimely, InFlight
        <4>3. QED
          BY <1>d, <2>1, <2>2, <3>1, <4>1, <4>2 DEF TaskIsTimely, Replaying, Dispatching
      <3>3. CASE SkipItem \/ GateStops
        <4>1. pc = "dispatch" /\ pc' = "dispatch" /\ MayDispatch /\ cursor' = cursor + 1
          BY <3>3 DEF SkipItem, GateStops, MayDispatch, Eligible
        <4>2. ~ Concurrent => InFlight = {}
          BY <1>0, <4>1, OneSlot
        <4>3. i < cursor => i < cursor'
          BY <1>0, <4>1 DEF Typed, TypeOK, Items
        <4>4. QED
          BY <1>d, <2>1, <2>2, <3>1, <4>1, <4>2, <4>3 DEF TaskIsTimely, Replaying, Dispatching
      <3>4. CASE NothingInFlight
        BY <3>4 DEF NothingInFlight, TaskIsTimely, Replaying, Dispatching
      <3>5. QED
        BY <1>2, <3>2, <3>3, <3>4
    <2>5. QED
      BY <1>0, <2>1, <2>3, <2>4 DEF TasksFit
  <1>3. CASE ReplayItem \/ ResolveAtCursor \/ DispatchItem
    <2>1. /\ UNCHANGED <<log, joins, rebuild, closed>> /\ cursor' = cursor + 1 /\ ~ closed
          /\ cursor \in Items /\ cursor \in Total /\ pc \in {"replay", "dispatch"}
          /\ started' = started \/ started' = started \cup {cursor}
      <3>1. cursor < cfg.total
        BY <1>3 DEF ReplayItem, ResolveAtCursor, DispatchItem, Eligible, MayDispatch
      <3>2. cursor \in Items /\ cursor \in Total
        BY <1>0, <3>1, CursorFacts
      <3>3. pc \in {"replay", "dispatch"}
        BY <1>3 DEF ReplayItem, ResolveAtCursor, DispatchItem, Eligible, MayDispatch
      <3>4. ~ closed
        BY <1>0, <3>3 DEF PlanFits
      <3>5. QED
        BY <1>3, <3>2, <3>3, <3>4 DEF ReplayItem, ResolveAtCursor, DispatchItem, ResolveInline
    <2>2. \/ task' = task /\ pc' = pc
          \/ /\ task' = [task EXCEPT ![cursor] = "body"]
             /\ \/ Terminal(cursor) /\ pc' = "rerun" /\ (pc = "dispatch" => ~ Concurrent)
                \/ pc' = "dispatch" /\ pc = "dispatch" /\ Eligible
      BY <1>3 DEF ReplayItem, ResolveAtCursor, DispatchItem, ResolveInline, Eligible, MayDispatch
    <2>3. /\ pc = "replay" => Concurrent
          /\ ~ Concurrent \/ pc = "replay" => InFlight = {}
          /\ pc = "dispatch" => MayDispatch
      <3>1. pc = "replay" => InFlight = {} /\ Concurrent
        BY <1>0 DEF TaskIsTimely, PlanFits, InFlight
      <3>2. pc = "dispatch" => MayDispatch
        BY <1>3 DEF ReplayItem, ResolveAtCursor, DispatchItem, Eligible
      <3>3. QED
        BY <1>0, <2>1, <3>1, <3>2, OneSlot
    <2>4. \A i \in Items : Admits(i)' = Admits(i) /\ Terminal(i)' = Terminal(i)
      BY <2>1 DEF Admits, Terminal
    <2>5. InFlight' = InFlight \/ (InFlight' = InFlight \cup {cursor} /\ task'[cursor] = "body")
      BY <1>0, <2>1, <2>2 DEF InFlight
    <2>6. task'[cursor] = "body" /\ task' # task =>
            IF rebuild THEN Admits(cursor) /\ (cfg.flat \/ log.item[cursor] \in Settled)
            ELSE cursor \in started'
      <3>1. CASE Terminal(cursor) /\ pc = "replay"
        <4>1. ~ rebuild => Producing /\ Written(cursor) /\ ~ Dispatching
          BY <3>1 DEF Terminal, Producing, Written, Dispatching, Settled
        <4>2. QED
          BY <1>0, <2>1, <3>1, <4>1 DEF Terminal, StartedFits
      <3>2. CASE Terminal(cursor) /\ pc = "dispatch"
        BY <1>3, <2>1, <3>2 DEF Terminal, ReplayItem, ResolveAtCursor, DispatchItem
      <3>3. CASE Eligible
        <4>1. rebuild => Admits(cursor) /\ cfg.flat
          BY <1>0, <2>1, <3>3, PlanIsRecorded DEF Eligible
        <4>2. ReplayItem \/ cursor \in started'
          BY <1>3 DEF ResolveAtCursor, DispatchItem
        <4>3. QED
          BY <3>3, <4>1, <4>2 DEF ReplayItem, Eligible, MayDispatch
      <3>4. QED
        BY <2>1, <2>2, <3>1, <3>2, <3>3
    <2>7. ASSUME NEW i \in Items
          PROVE  TaskFits(i)'
      <3>1. CASE task'[i] = task[i]
        <4>1. i \in InFlight' <=> i \in InFlight
          BY <3>1 DEF InFlight
        <4>2. QED
          BY <1>0, <1>c, <1>d, <2>1, <2>4, <3>1, <4>1 DEF TaskFits
      <3>2. CASE task'[i] # task[i]
        <4>1. i = cursor /\ task'[i] = "body" /\ task' # task
          BY <1>0, <2>1, <2>2, <3>2
        <4>2. QED
          BY <1>c, <1>d, <2>1, <2>4, <2>6, <4>1 DEF TaskFits
      <3>3. QED
        BY <3>1, <3>2
    <2>8. ASSUME NEW i \in Items
          PROVE  TaskIsTimely(i)'
      <3>1. TaskIsTimely(i) /\ cursor \in Int /\ i \in Int
        BY <1>0, <2>1 DEF Items
      <3>2. CASE task' = task /\ pc' = pc
        BY <1>d, <2>1, <2>3, <2>4, <2>5, <3>1, <3>2 DEF TaskIsTimely, Replaying, Dispatching, InFlight
      <3>3. CASE task' = [task EXCEPT ![cursor] = "body"] /\ Terminal(cursor) /\ pc' = "rerun"
        <4>1. i # cursor => task'[i] = task[i]
          BY <1>0, <3>3
        <4>2. InFlight = {}
          BY <2>1, <2>2, <2>3, <3>3
        <4>3. i \in InFlight' => i = cursor' - 1
          BY <2>1, <2>5, <3>1, <4>2
        <4>4. QED
          BY <1>d, <2>1, <2>2, <2>3, <2>4, <3>1, <3>3, <4>1, <4>3
             DEF TaskIsTimely, Replaying, Dispatching
      <3>4. CASE task' = [task EXCEPT ![cursor] = "body"] /\ pc' = "dispatch" /\ pc = "dispatch"
        <4>1. i # cursor => task'[i] = task[i]
          BY <1>0, <3>4
        <4>2. ~ Concurrent /\ i \in InFlight' => i = cursor' - 1
          BY <2>1, <2>3, <2>5, <3>1
        <4>3. QED
          BY <1>d, <2>1, <2>4, <3>1, <3>4, <4>1, <4>2 DEF TaskIsTimely, Replaying, Dispatching
      <3>5. QED
        BY <2>2, <3>2, <3>3, <3>4
    <2>9. \A n \in DOMAIN joins' : task'[joins'[n]] = "delivered"
      <3>1. task'[cursor] = "body" /\ task' # task => task[cursor] # "delivered"
        <4>1. pc = "replay" \/ ~ Concurrent => cursor \notin InFlight
          BY <2>3
        <4>2. pc = "dispatch" => task[cursor] = "none" \/ task[cursor] = "joined"
          BY <1>0, <2>1 DEF TaskIsTimely, Dispatching, Items
        <4>3. QED
          BY <2>1, <4>1, <4>2 DEF InFlight
      <3>2. QED
        BY <1>0, <2>1, <2>2, <3>1
    <2>10. QED
      BY <1>0, <2>1, <2>7, <2>8, <2>9 DEF TasksFit
  <1>4. CASE RerunJoined \/ JoinItem
    <2> DEFINE h == Head(joins)
    <2>1. /\ joins # <<>> /\ h \in Items /\ h = joins[1] /\ 1 \in DOMAIN joins
          /\ task' = [task EXCEPT ![h] = "joined"] /\ joins' = Tail(joins) /\ task[h] = "delivered"
          /\ UNCHANGED <<log, cursor, started, rebuild, closed>> /\ pc \in {"rerun", "dispatch"}
      BY <1>0, <1>4, JoinFacts DEF RerunJoined, JoinItem
    <2> HIDE DEF h
    <2>2. InFlight' = InFlight \ {h} /\ h \in InFlight
      BY <1>0, <2>1 DEF InFlight
    <2>3. \A i \in Items : Admits(i)' = Admits(i) /\ Terminal(i)' = Terminal(i)
      BY <2>1 DEF Admits, Terminal
    <2>4. \A i \in Items : i # h => task'[i] = task[i]
      BY <1>0, <2>1
    <2>5. task'[h] = "joined"
      BY <1>0, <2>1
    <2>6. \A i \in Items : TaskFits(i)'
      BY <1>0, <1>c, <1>d, <2>1, <2>2, <2>3, <2>4, <2>5 DEF TaskFits
    <2>7. ASSUME NEW i \in Items
          PROVE  TaskIsTimely(i)'
      <3>1. TaskIsTimely(i) /\ TaskIsTimely(h) /\ (i # h => task'[i] = task[i])
        BY <1>0, <2>1, <2>4
      <3>2. CASE RerunJoined
        <4>1. pc = "rerun" /\ pc' = IF Concurrent THEN "replay" ELSE "dispatch"
          BY <3>2 DEF RerunJoined
        <4>2. i \notin InFlight'
          BY <2>1, <2>2, <3>1, <4>1 DEF TaskIsTimely
        <4>3. QED
          BY <1>d, <2>1, <2>2, <2>3, <3>1, <4>1, <4>2 DEF TaskIsTimely, Replaying, Dispatching, InFlight
      <3>3. CASE JoinItem
        <4>1. pc = "dispatch" /\ pc' \in {"dispatch", "closing"}
          BY <3>3 DEF JoinItem
        <4>2. QED
          BY <1>d, <2>1, <2>2, <2>3, <3>1, <4>1 DEF TaskIsTimely, Replaying, Dispatching, InFlight
      <3>4. QED
        BY <1>4, <3>2, <3>3
    <2>8. \A n \in DOMAIN joins' : n + 1 \in DOMAIN joins /\ joins'[n] = joins[n + 1] /\ n + 1 # 1
      BY <1>0, <2>1
    <2>9. \A n \in DOMAIN joins' : task'[joins'[n]] = "delivered"
      <3>1. \A n \in DOMAIN joins : n # 1 => joins[n] # h /\ joins[n] \in Items
        BY <1>0, <2>1
      <3>2. QED
        BY <1>0, <2>1, <2>4, <2>8, <3>1
    <2>10. \A m, n \in DOMAIN joins' : joins'[m] = joins'[n] => m = n
      BY <1>0, <2>1
    <2>11. QED
      BY <2>6, <2>7, <2>9, <2>10 DEF TasksFit
  <1>5. CASE CloseBatch
    <2>1. /\ task' = [i \in Items |-> IF i \in InFlight THEN "gone" ELSE task[i]] /\ joins' = <<>>
          /\ closed' /\ pc' \in {"returned", "outcome"}
      BY <1>5 DEF CloseBatch
    <2>2. InFlight' = {} /\ \A i \in Items : task'[i] \notin {"body", "returned", "writing", "delivered"}
      BY <1>0, <2>1 DEF InFlight
    <2>3. QED
      BY <2>1, <2>2 DEF TasksFit, TaskFits, TaskIsTimely, Replaying, Dispatching
  <1>6. CASE SubmitOutcome \/ OutcomeRecorded \/ SendWrite \/ RecordWrite \/ UNCHANGED vars
    <2>1. /\ UNCHANGED <<log, task, joins, rebuild, started, closed, cursor>>
          /\ pc' = pc \/ pc' \in {"recording", "returned"}
      BY <1>6 DEF SubmitOutcome, OutcomeRecorded, SendWrite, RecordWrite, vars, batchVars
    <2>2. InFlight' = InFlight /\ \A i \in Items : Admits(i)' = Admits(i) /\ Terminal(i)' = Terminal(i)
      BY <2>1 DEF InFlight, Admits, Terminal
    <2>3. \A i \in Items : TaskFits(i)' /\ TaskIsTimely(i)'
      BY <1>0, <1>c, <1>d, <2>1, <2>2 DEF TaskFits, TaskIsTimely, Replaying, Dispatching
    <2>4. QED
      BY <1>0, <2>1, <2>3 DEF TasksFit
  <1>7. ASSUME NEW i \in Items, ItemStep(i)
        PROVE  TasksFit'
    <2>1. /\ UNCHANGED <<log, batchVars>> /\ task[i] \in {"body", "returned", "writing"}
          /\ \/ task' = [task EXCEPT ![i] = "delivered"] /\ joins' = Append(joins, i)
                /\ (cfg.flat \/ log.item[i] \in Settled)
             \/ task' = [task EXCEPT ![i] = "returned"] /\ joins' = joins /\ task[i] = "body"
                /\ ~ cfg.flat /\ log.item[i] \notin Settled
             \/ task' = [task EXCEPT ![i] = "writing"] /\ joins' = joins /\ task[i] = "returned"
      BY <1>7 DEF ItemStep, BodyReturns, SubmitItem, ItemRecorded, Delivers
    <2>2. /\ i \in InFlight /\ InFlight' = InFlight
      BY <1>0, <2>1 DEF InFlight
    <2>3. \A j \in Items : Admits(j)' = Admits(j) /\ Terminal(j)' = Terminal(j)
      BY <2>1 DEF Admits, Terminal, batchVars
    <2>4. /\ pc' = pc /\ cursor' = cursor /\ rebuild' = rebuild /\ closed' = closed /\ started' = started
      BY <2>1 DEF batchVars
    <2>5. \A j \in Items : j # i => task'[j] = task[j]
      BY <1>0, <2>1
    <2>6. pc \notin {"start", "returned", "outcome", "recording"}
      BY <1>0, <2>2 DEF PlanFits, InFlight
    <2>7. TaskFits(i)'
      <3>1. TaskFits(i) /\ (~ rebuild => log.batch # "succeeded")
        BY <1>0, <2>6 DEF PlanFits, Producing
      <3>2. CASE task' = [task EXCEPT ![i] = "delivered"]
        BY <1>0, <1>c, <1>d, <2>1, <2>2, <2>3, <2>4, <3>1, <3>2 DEF TaskFits
      <3>3. CASE task' = [task EXCEPT ![i] = "returned"]
        BY <1>0, <1>c, <1>d, <2>1, <2>2, <2>3, <2>4, <3>1, <3>3 DEF TaskFits
      <3>4. CASE task' = [task EXCEPT ![i] = "writing"]
        BY <1>0, <1>c, <1>d, <2>1, <2>2, <2>3, <2>4, <3>1, <3>4 DEF TaskFits
      <3>5. QED
        BY <2>1, <3>2, <3>3, <3>4
    <2>8. \A j \in Items : TaskFits(j)'
      BY <1>0, <1>c, <1>d, <2>1, <2>2, <2>3, <2>4, <2>5, <2>7 DEF TaskFits
    <2>9. task[i] \notin {"none", "joined"} /\ task'[i] \notin {"none", "joined"}
      BY <1>0, <2>1
    <2>10. \A j \in Items : TaskIsTimely(j)'
      BY <1>0, <1>d, <2>2, <2>3, <2>4, <2>5, <2>9 DEF TaskIsTimely, Replaying, Dispatching
    <2>11. /\ \A n \in DOMAIN joins' : task'[joins'[n]] = "delivered"
           /\ \A m, n \in DOMAIN joins' : joins'[m] = joins'[n] => m = n
      <3>1. \A n \in DOMAIN joins : joins[n] # i /\ joins[n] \in Items
        BY <1>0, <2>1
      <3>2. CASE task' = [task EXCEPT ![i] = "delivered"] /\ joins' = Append(joins, i)
        <4>1. /\ DOMAIN joins' = DOMAIN joins \cup {Len(joins) + 1} /\ joins'[Len(joins) + 1] = i
              /\ \A n \in DOMAIN joins : joins'[n] = joins[n]
          BY <1>0, <3>2
        <4>2. task'[i] = "delivered"
          BY <1>0, <3>2
        <4>3. QED
          BY <1>0, <2>5, <3>1, <4>1, <4>2
      <3>3. CASE joins' = joins
        BY <1>0, <2>5, <3>1, <3>3
      <3>4. QED
        BY <2>1, <3>2, <3>3
    <2>12. QED
      BY <2>8, <2>10, <2>11 DEF TasksFit
  <1>8. CASE AnswerWrite
    <2>1. UNCHANGED <<batchVars, task, joins>> /\ ~ rebuild
      BY <1>0, <1>8, AnswerFacts DEF AnswerWrite
    <2>2. InFlight' = InFlight
      BY <2>1 DEF InFlight
    <2>3. \A i \in Items : (Terminal(i) => Terminal(i)')
      BY <1>0, <1>8, <2>1, AnswerFacts DEF Terminal, batchVars
    <2>4. ASSUME NEW i \in Items
          PROVE  TaskFits(i)' /\ TaskIsTimely(i)'
      <3>1. task[i] = "returned" => log'.item[i] \notin Settled
        BY <1>0, <1>8, AnswerFacts DEF TaskFits, Settled
      <3>2. task[i] \in {"returned", "writing"} => log'.batch # "succeeded"
        BY <1>0, <1>8, AnswerFacts DEF InFlight
      <3>3. log.item[i] \in Settled => log'.item[i] \in Settled
        BY <1>0, <1>8, AnswerFacts
      <3>4. TaskFits(i)'
        BY <1>0, <1>c, <1>d, <2>1, <2>2, <3>1, <3>2, <3>3 DEF TaskFits, batchVars
      <3>5. TaskIsTimely(i)'
        BY <1>0, <1>d, <2>1, <2>2, <2>3 DEF TaskIsTimely, Replaying, Dispatching, batchVars
      <3>6. QED
        BY <3>4, <3>5
    <2>5. QED
      BY <1>0, <2>1, <2>4 DEF TasksFit
  <1>9. CASE Restart
    <2>1. /\ task' = [i \in Items |-> "none"] /\ joins' = <<>> /\ pc' = "start"
      BY <1>9 DEF Restart
    <2>2. InFlight' = {}
      BY <2>1 DEF InFlight
    <2>3. QED
      BY <2>1, <2>2 DEF TasksFit, TaskFits, TaskIsTimely, Replaying, Dispatching
  <1>10. QED
    BY <1>1, <1>2, <1>3, <1>4, <1>5, <1>6, <1>7, <1>8, <1>9 DEF Next, Coordinator, Writes

(***************************************************************************)
(* What the coordinator has seen.                                          *)
(***************************************************************************)
LEMMA BatchIsKept ==
  ASSUME [Next]_vars
  PROVE  UNCHANGED <<cfg, fate>> /\ Concurrent' = Concurrent /\ Total' = Total
  <1> USE DEF taskVars, serviceVars, history
  <1>1. UNCHANGED <<cfg, fate>>
    BY DEF Next, Coordinator, ItemStep, Writes, vars, StartBatch, ReplayBatchRecord, ReplayFromSummary,
       RebuildBatch, ReplayItem, ReplayDone, RerunJoined, SkipItem, ResolveAtCursor, GateStops,
       DispatchItem, JoinItem, NothingInFlight, CloseBatch, SubmitOutcome, OutcomeRecorded,
       BodyReturns, SubmitItem, ItemRecorded, SendWrite, RecordWrite, AnswerWrite, Restart
  <1>2. QED
    BY <1>1 DEF Concurrent, Total

\* What is recorded of an item in this invocation's log.
LEMMA LogItems ==
  ASSUME Typed, LogIsBehind, QueueFits, RecordFits, NEW i \in Items
  PROVE  /\ log.item[i] \in {"none", "started"} \cup Settled
         /\ log.item[i] \in Settled => log.item[i] = fate[i]
         /\ log.item[i] # "none" => i \in Total /\ ~ cfg.flat
         /\ fate[i] \in Settled
  <1>1. log.item[i] \in {"none", "started"} \cup Settled /\ fate[i] \in Settled
    BY DEF Typed, TypeOK, Stored
  <1>2. QED
    BY <1>1, LogFacts DEF RecordFits, ItemsFit

\* An item that is joined.
LEMMA JoinedItem ==
  ASSUME BatchInv, joins # <<>>
  PROVE  /\ Head(joins) \in Items /\ Head(joins) \in InFlight /\ task[Head(joins)] = "delivered"
         /\ Head(joins) \in Total
         /\ IF rebuild THEN Admits(Head(joins)) ELSE Head(joins) \in started
         /\ ~ cfg.flat => log.item[Head(joins)] = fate[Head(joins)]
         /\ fate[Head(joins)] \in Settled
         /\ pc = "rerun" \/ (pc = "dispatch" /\ ~ Concurrent) =>
              Head(joins) = cursor - 1 /\ InFlight = {Head(joins)}
  <1>1. PICK h \in Items : h = Head(joins) /\ task[h] = "delivered"
    BY JoinFacts DEF BatchInv, TasksFit
  <1>2. h \in InFlight /\ TaskFits(h) /\ \A i \in Items : TaskIsTimely(i)
    BY <1>1 DEF BatchInv, TasksFit, InFlight
  <1>3. InFlight \subseteq Items
    BY DEF InFlight
  <1>4. pc = "rerun" \/ (pc = "dispatch" /\ ~ Concurrent) => h = cursor - 1 /\ InFlight = {h}
    BY <1>2, <1>3 DEF TaskIsTimely
  <1>5. /\ ~ cfg.flat => log.item[h] = fate[h]
        /\ fate[h] \in Settled
    BY <1>1, <1>2, LogItems DEF BatchInv, TaskFits
  <1>6. QED
    BY <1>1, <1>2, <1>4, <1>5 DEF TaskFits

\* An item whose recorded outcome settles at the cursor.
LEMMA RecordedItem ==
  ASSUME BatchInv, Terminal(cursor), cursor \in Items
  PROVE  /\ log.item[cursor] = fate[cursor] /\ log.item[cursor] \in Settled
         /\ cursor \in Total /\ Written(cursor) /\ (rebuild => Admits(cursor))
         /\ Producing /\ (~ Dispatching \/ Concurrent) => cursor \in started
  <1>1. log.item[cursor] \in Settled /\ log.item[cursor] # "none"
    BY DEF Terminal, Settled
  <1>2. Written(cursor)
    BY <1>1 DEF Written
  <1>3. QED
    BY <1>1, <1>2, LogItems DEF BatchInv, Terminal, StartedFits

LEMMA SettleKeepsView ==
  ASSUME Typed, ViewFits, NEW i \in Items, Settle(i, fate[i]), fate[i] \in Settled, i \in Total,
         IF rebuild THEN Admits(i) ELSE i \in started',
         ~ cfg.flat => log.item[i] = fate[i],
         started \subseteq started', started' \subseteq Total, UNCHANGED <<cfg, fate, log, rebuild>>
  PROVE  ViewFits'
  <1>1. view'[i] = fate[i] /\ \A j \in Items : j # i => view'[j] = view[j]
    BY SettleFacts
  <1>2. Total' = Total /\ \A j \in Items : Admits(j)' = Admits(j)
    BY DEF Total, Admits
  <1>3. QED
    BY <1>1, <1>2 DEF ViewFits, Settled

LEMMA ViewKept ==
  ASSUME Typed, ViewFits, UNCHANGED <<cfg, fate, view, rebuild, started>>, Total' = Total,
         rebuild => log' = log,
         \A i \in Items : log.item[i] \in Settled => log'.item[i] = log.item[i]
  PROVE  ViewFits'
  <1>1. ASSUME NEW i \in Items, view[i] \in Settled
        PROVE  /\ IF rebuild THEN Admits(i)' ELSE i \in started
               /\ ~ cfg.flat => log'.item[i] = fate[i]
    BY <1>1 DEF ViewFits, Admits, Settled
  <1>2. QED
    BY <1>1 DEF ViewFits

LEMMA ViewFitsNext ==
  ASSUME BatchInv, [Next]_vars
  PROVE  ViewFits'
  <1> USE DEF taskVars, serviceVars, history
  <1>0. /\ Typed /\ LogIsBehind /\ QueueFits /\ PlanFits /\ ViewFits /\ TasksFit /\ RecordFits /\ StartedFits
        /\ UNCHANGED <<cfg, fate>> /\ Concurrent' = Concurrent /\ Total' = Total
        /\ started \subseteq Total /\ Total \subseteq Items
    BY BatchIsKept, ConfigFacts DEF BatchInv, ViewFits, Typed, TypeOK
  <1>1. CASE StartBatch \/ RebuildBatch
    <2>1. /\ view' = [i \in Items |-> Omitted]
          /\ started' \subseteq started \cup {i \in Items : log.item[i] # "none"}
      BY <1>0, <1>1 DEF StartBatch, RebuildBatch, PlanFits
    <2>2. started' \subseteq Total
      BY <1>0, <2>1, LogItems
    <2>3. QED
      BY <1>0, <2>1, <2>2 DEF ViewFits, Omitted, Settled
  <1>2. CASE \/ ReplayBatchRecord \/ ReplayFromSummary \/ ReplayDone \/ SkipItem \/ GateStops
             \/ NothingInFlight \/ CloseBatch \/ SubmitOutcome \/ OutcomeRecorded
             \/ SendWrite \/ RecordWrite \/ UNCHANGED vars
    <2>1. UNCHANGED <<log, view, rebuild, started>>
      BY <1>2 DEF ReplayBatchRecord, ReplayFromSummary, ReplayDone, SkipItem, GateStops, NothingInFlight,
         CloseBatch, SubmitOutcome, OutcomeRecorded, SendWrite, RecordWrite, vars, batchVars
    <2>2. QED
      BY <1>0, <2>1, ViewKept
  <1>3. ASSUME NEW i \in Items, ItemStep(i)
        PROVE  ViewFits'
    <2>1. UNCHANGED <<log, view, rebuild, started>>
      BY <1>3 DEF ItemStep, BodyReturns, SubmitItem, ItemRecorded, batchVars
    <2>2. QED
      BY <1>0, <2>1, ViewKept
  <1>4. CASE ReplayItem \/ ResolveAtCursor
    <2>1. /\ cursor \in Items /\ UNCHANGED <<log, rebuild>> /\ pc \in {"replay", "dispatch"}
          /\ started' = started \/ started' = started \cup {cursor}
      <3>1. cursor < cfg.total /\ pc \in {"replay", "dispatch"}
        BY <1>4 DEF ReplayItem, ResolveAtCursor, MayDispatch
      <3>2. QED
        BY <1>0, <1>4, <3>1, CursorFacts DEF ReplayItem, ResolveAtCursor, ResolveInline
    <2>2. CASE ~ Terminal(cursor)
      BY <1>0, <1>4, <2>2, ViewKept DEF ReplayItem, ResolveAtCursor
    <2>3. CASE Terminal(cursor)
      <3>1. /\ log.item[cursor] = fate[cursor] /\ fate[cursor] \in Settled /\ cursor \in Total
            /\ rebuild => Admits(cursor)
        BY <2>1, <2>3, RecordedItem
      <3>2. ~ rebuild => cursor \in started'
        <4>1. ReplayItem => pc = "replay" /\ ~ Dispatching
          BY DEF ReplayItem, Dispatching
        <4>2. ResolveAtCursor => cursor \in started'
          BY DEF ResolveAtCursor
        <4>3. ~ rebuild => Producing
          BY <2>1 DEF Producing
        <4>4. QED
          BY <1>4, <2>1, <2>3, <4>1, <4>2, <4>3, RecordedItem
      <3>3. CASE MustRerun(cursor)
        <4>1. \/ view' = view
              \/ view' = [view EXCEPT ![cursor] = "-"] /\ cursor \in started'
          BY <1>4, <2>3, <3>3 DEF ReplayItem, ResolveAtCursor, ResolveInline
        <4>2. \A i \in Items : view'[i] = view[i] \/ (view'[i] = "-" /\ i \in started')
          BY <1>0, <4>1 DEF Typed, TypeOK, Report
        <4>3. started' \subseteq Total /\ \A i \in Items : Admits(i)' = Admits(i)
          BY <1>0, <2>1, <3>1 DEF Admits
        <4>4. QED
          BY <1>0, <2>1, <4>2, <4>3 DEF ViewFits, Settled
      <3>4. CASE ~ MustRerun(cursor)
        <4>1. Settle(cursor, log.item[cursor])
          BY <1>4, <2>3, <3>4 DEF ReplayItem, ResolveAtCursor, ResolveInline
        <4>2. Settle(cursor, fate[cursor])
          BY <3>1, <4>1
        <4>3. QED
          BY <1>0, <2>1, <3>1, <3>2, <4>2, SettleKeepsView
      <3>5. QED
        BY <3>3, <3>4
    <2>4. QED
      BY <2>2, <2>3
  <1>5. CASE RerunJoined \/ JoinItem
    <2>1. joins # <<>> /\ UNCHANGED <<log, rebuild, started>> /\ Settle(Head(joins), fate[Head(joins)])
      BY <1>5 DEF RerunJoined, JoinItem
    <2>2. QED
      BY <1>0, <2>1, JoinedItem, SettleKeepsView
  <1>6. CASE DispatchItem
    <2>1. /\ cursor \in Items /\ cursor \in Total
      BY <1>0, <1>6, CursorFacts DEF DispatchItem, Eligible, MayDispatch
    <2>2. /\ UNCHANGED <<log, rebuild>> /\ started' = started \cup {cursor}
          /\ \A i \in Items : view'[i] = view[i] \/ (view'[i] = "-" /\ i \in started')
      BY <1>0, <1>6, <2>1 DEF DispatchItem, Typed, TypeOK, Report
    <2>3. \A i \in Items : Admits(i)' = Admits(i)
      BY <2>2 DEF Admits
    <2>4. QED
      BY <1>0, <2>1, <2>2, <2>3 DEF ViewFits, Settled
  <1>7. CASE AnswerWrite
    <2>1. UNCHANGED <<view, rebuild, started>>
      BY <1>7 DEF AnswerWrite, batchVars
    <2>2. QED
      BY <1>0, <1>7, <2>1, AnswerFacts, ViewKept
  <1>8. CASE Restart
    <2>1. view' = [i \in Items |-> Omitted] /\ started' = {}
      BY <1>8 DEF Restart
    <2>2. QED
      BY <2>1 DEF ViewFits, Omitted, Settled
  <1>9. QED
    BY <1>1, <1>2, <1>3, <1>4, <1>5, <1>6, <1>7, <1>8 DEF Next, Coordinator, Writes

(***************************************************************************)
(* What the coordinator has passed.                                        *)
(***************************************************************************)
\* The item that is joined settles and leaves its slot.
LEMMA JoinKeepsMet ==
  ASSUME BatchInv, joins # <<>>, Settle(Head(joins), fate[Head(joins)]),
         task' = [task EXCEPT ![Head(joins)] = "joined"]
  PROVE  /\ \A i \in Items : view[i] \in Settled => view'[i] \in Settled
         /\ \A i \in Items : Met(i) => Met(i)'
         /\ InFlight' = InFlight \ {Head(joins)}
         /\ stop' = "none" => stop = "none"
  <1>1. PICK h \in Items : h = Head(joins) /\ fate[h] \in Settled
    BY JoinedItem
  <1>2. /\ view'[h] \in Settled /\ \A i \in Items : i # h => view'[i] = view[i]
        /\ stop' = "none" => stop = "none"
    BY <1>1, SettleFacts DEF BatchInv
  <1>3. InFlight' = InFlight \ {h}
    BY <1>1 DEF InFlight, BatchInv, Typed, TypeOK
  <1>4. QED
    BY <1>1, <1>2, <1>3 DEF Met

LEMMA PassedKept ==
  ASSUME BatchInv, UNCHANGED <<cfg, cursor, stop, rebuild, pc>>, Concurrent' = Concurrent, Total' = Total,
         rebuild => log' = log,
         \A i \in Items : view[i] \in Settled => view'[i] \in Settled,
         \A i \in Items : Met(i) => Met(i)',
         Closing => InFlight' = InFlight,
         \A i \in Items : Terminal(i)' =>
           \/ Terminal(i)
           \/ ~ Replaying /\ ~ (pc = "dispatch" /\ Concurrent /\ i >= cursor)
  PROVE  PassedFits'
  <1>1. PassedFits
    BY DEF BatchInv
  <1>2. rebuild => \A i \in Items : Admits(i)' = Admits(i)
    BY DEF Admits
  <1>3. Total \subseteq Items
    BY ConfigFacts DEF BatchInv, Typed, TypeOK
  <1>4. QED
    BY <1>1, <1>2, <1>3 DEF PassedFits, Replaying, Dispatching, Closing

LEMMA PassedFitsNext ==
  ASSUME BatchInv, [Next]_vars
  PROVE  PassedFits'
  <1> USE DEF taskVars, serviceVars, history
  <1>0. /\ Typed /\ LogIsBehind /\ QueueFits /\ PlanFits /\ ViewFits /\ TasksFit /\ RecordFits /\ PassedFits
        /\ UNCHANGED <<cfg, fate>> /\ Concurrent' = Concurrent /\ Total' = Total /\ Total \subseteq Items
        /\ task \in [Items -> {"none", "body", "returned", "writing", "delivered", "joined", "gone"}]
        /\ view \in Report /\ \A i \in Items : i \in Int /\ i >= 0
    <2>1. UNCHANGED <<cfg, fate>> /\ Concurrent' = Concurrent /\ Total' = Total
      BY BatchIsKept
    <2>2. \A i \in Items : i \in Int /\ i >= 0
      BY ConfigAssumption DEF Items
    <2>3. QED
      BY <2>1, <2>2, ConfigFacts DEF BatchInv, Typed, TypeOK
  <1>1. CASE StartBatch \/ RebuildBatch
    <2>1. /\ cursor' = 0 /\ task' = task /\ \A i \in Items : task[i] = "none"
          /\ pc' \in {"closing", "replay", "dispatch"} /\ (pc' = "dispatch" => ~ Concurrent)
          /\ pc' = "closing" => cfg.total = 0
      BY <1>0, <1>1 DEF StartBatch, RebuildBatch, PlanFits
    <2>2. InFlight' = {}
      BY <2>1 DEF InFlight
    <2>3. \A i \in Items : ~ (i < cursor')
      BY <1>0, <2>1
    <2>4. QED
      BY <1>0, <2>1, <2>2, <2>3 DEF PassedFits, Closing
  <1>2. CASE ReplayBatchRecord \/ ReplayFromSummary \/ OutcomeRecorded \/ Restart
    <2>1. pc' \in {"returned", "start"}
      BY <1>2 DEF ReplayBatchRecord, ReplayFromSummary, OutcomeRecorded, Restart
    <2>2. QED
      BY <2>1 DEF PassedFits, Replaying, Dispatching, Closing
  <1>3. CASE ReplayDone
    <2>1. /\ pc = "replay" /\ Concurrent /\ cursor = cfg.total /\ pc' = "dispatch" /\ cursor' = 0
          /\ UNCHANGED <<log, view, stop, rebuild>>
      BY <1>0, <1>3 DEF ReplayDone, PlanFits
    <2>2. ASSUME NEW i \in Total, Terminal(i)
          PROVE  view[i] \in Settled
      <3>t. cfg.total \in Int /\ i \in 0 .. cfg.total - 1
        BY <1>0, ConfigFacts, ConfigAssumption DEF Total, Typed, TypeOK
      <3>1. i < cursor /\ i \in Items
        BY <1>0, <2>1, <3>t
      <3>2. Met(i) /\ i \notin InFlight
        BY <1>0, <2>1, <2>2, <3>1 DEF PassedFits, Replaying, TasksFit, TaskIsTimely
      <3>3. QED
        BY <3>2 DEF Met
    <2>3. \A i \in Items : ~ (i < cursor') /\ Terminal(i)' = Terminal(i)
      BY <1>0, <2>1 DEF Terminal, Admits
    <2>4. QED
      BY <1>0, <2>1, <2>2, <2>3 DEF PassedFits, Replaying, Dispatching, Closing
  <1>4. CASE SkipItem \/ GateStops
    <2>1. /\ pc = "dispatch" /\ pc' = "dispatch" /\ cursor \in Items /\ cursor \in Total /\ cursor' = cursor + 1
          /\ UNCHANGED <<log, view, task, rebuild>>
      BY <1>0, <1>4, CursorFacts DEF SkipItem, GateStops, Eligible, MayDispatch
    <2>2. \A i \in Items : /\ i < cursor' <=> i < cursor \/ i = cursor
                           /\ i >= cursor' => i >= cursor
      BY <1>0, <2>1
    <2>3. \A i \in Items : Terminal(i)' = Terminal(i) /\ Admits(i)' = Admits(i) /\ Met(i)' = Met(i)
      BY <2>1 DEF Terminal, Admits, Met, InFlight
    <2>4. CASE SkipItem
      <3>1. stop' = stop /\ ((rebuild /\ ~ Admits(cursor)) \/ (Concurrent /\ Terminal(cursor)))
        BY <2>4 DEF SkipItem
      <3>2. Concurrent /\ Terminal(cursor) => Met(cursor)
        BY <1>0, <2>1, <2>2 DEF PassedFits, Met
      <3>3. QED
        BY <1>0, <2>1, <2>2, <2>3, <3>1, <3>2 DEF PassedFits, Replaying, Dispatching, Closing
    <2>5. CASE GateStops
      <3>1. stop' # "none"
        BY <1>0, <2>5, EvaluateFacts DEF GateStops, CustomReason, Typed, TypeOK
      <3>2. QED
        BY <1>0, <2>1, <2>2, <2>3, <3>1 DEF PassedFits, Replaying, Dispatching, Closing
    <2>6. QED
      BY <1>4, <2>4, <2>5
  <1>5. CASE ReplayItem \/ ResolveAtCursor \/ DispatchItem
    <2>1. /\ cursor \in Items /\ cursor' = cursor + 1 /\ UNCHANGED <<log, rebuild>>
          /\ pc \in {"replay", "dispatch"}
      <3>1. cursor < cfg.total /\ cursor' = cursor + 1 /\ UNCHANGED <<log, rebuild>> /\ pc \in {"replay", "dispatch"}
        BY <1>5 DEF ReplayItem, ResolveAtCursor, DispatchItem, Eligible, MayDispatch
      <3>2. QED
        BY <1>0, <3>1, CursorFacts
    <2>2. \A i \in Items : /\ i < cursor' <=> i < cursor \/ i = cursor
                           /\ i >= cursor' => i >= cursor /\ i # cursor
      BY <1>0, <2>1
    <2>3. \A i \in Items : Terminal(i)' = Terminal(i) /\ Admits(i)' = Admits(i)
      BY <2>1 DEF Terminal, Admits
    <2>4. /\ \A i \in Items : i # cursor => view'[i] = view[i] /\ task'[i] = task[i]
          /\ \/ view'[cursor] \in Settled
             \/ task'[cursor] = "body"
             \/ pc = "replay" /\ ~ Terminal(cursor) /\ view' = view /\ task' = task
          /\ stop' = "none" => stop = "none"
      <3>1. CASE DispatchItem \/ (ReplayItem /\ ~ Terminal(cursor))
        BY <1>0, <2>1, <3>1 DEF DispatchItem, ReplayItem, Report
      <3>2. CASE Terminal(cursor) /\ (ReplayItem \/ ResolveAtCursor) /\ MustRerun(cursor)
        BY <1>0, <2>1, <3>2 DEF ReplayItem, ResolveAtCursor, ResolveInline, Report
      <3>3. CASE Terminal(cursor) /\ (ReplayItem \/ ResolveAtCursor) /\ ~ MustRerun(cursor)
        <4>1. Settle(cursor, log.item[cursor]) /\ task' = task /\ log.item[cursor] \in Settled
          BY <3>3 DEF ReplayItem, ResolveAtCursor, ResolveInline, Terminal
        <4>2. QED
          BY <1>0, <2>1, <4>1, SettleFacts
      <3>4. QED
        BY <1>5, <3>1, <3>2, <3>3 DEF ResolveAtCursor
    <2>a. \A i \in Items : i # cursor /\ Met(i) => Met(i)'
      BY <2>4 DEF Met, InFlight
    <2>b. \A i \in Items : i = cursor => Met(i)' \/ (pc = "replay" /\ ~ Terminal(i))
      BY <2>1, <2>4 DEF Met, InFlight
    <2>c. \A i \in Items : i < cursor' => i < cursor \/ i = cursor
      BY <2>2
    <2>d. \A i \in Items : i < cursor => i # cursor
      BY <1>0, <2>1
    <2>6. CASE pc = "replay"
      <3>1. Concurrent /\ pc' \in {"replay", "rerun"}
        BY <1>0, <1>5, <2>6 DEF PlanFits, ReplayItem, ResolveAtCursor, DispatchItem, Eligible, MayDispatch, ResolveInline
      <3>2. Replaying /\ ~ Dispatching' /\ ~ Closing' /\ pc' # "dispatch"
        BY <1>0, <2>6, <3>1 DEF Replaying, Dispatching, Closing
      <3>3. \A i \in Items : i < cursor' /\ Terminal(i)' => Met(i)'
        BY <1>0, <2>3, <2>a, <2>b, <2>c, <2>d, <3>2 DEF PassedFits
      <3>4. QED
        BY <3>2, <3>3 DEF PassedFits
    <2>7. CASE pc = "dispatch"
      <3>1. pc' = "dispatch" \/ (pc' = "rerun" /\ ~ Concurrent)
        BY <1>5, <2>7 DEF ReplayItem, ResolveAtCursor, DispatchItem, ResolveInline
      <3>2. Dispatching /\ Dispatching' /\ ~ Replaying' /\ ~ Closing'
        BY <1>0, <2>7, <3>1 DEF Replaying, Dispatching, Closing
      <3>3. stop' = "none" => \A i \in Items : i < cursor' /\ (rebuild' => Admits(i)') => Met(i)'
        BY <1>0, <2>1, <2>3, <2>4, <2>7, <2>a, <2>b, <2>c, <2>d, <3>2 DEF PassedFits
      <3>4. Concurrent => \A i \in Total : i >= cursor' /\ Terminal(i)' => view'[i] \in Settled
        BY <1>0, <2>2, <2>3, <2>4, <2>7 DEF PassedFits
      <3>5. QED
        BY <1>0, <3>1, <3>2, <3>3, <3>4 DEF PassedFits
    <2>8. QED
      BY <2>1, <2>6, <2>7
  <1>6. CASE RerunJoined \/ JoinItem
    <2>1. /\ joins # <<>> /\ Settle(Head(joins), fate[Head(joins)])
          /\ task' = [task EXCEPT ![Head(joins)] = "joined"]
          /\ UNCHANGED <<cursor, rebuild, log>>
      BY <1>6 DEF RerunJoined, JoinItem
    <2>2. /\ \A i \in Items : view[i] \in Settled => view'[i] \in Settled
          /\ \A i \in Items : Met(i) => Met(i)'
          /\ stop' = "none" => stop = "none"
      BY <2>1, JoinKeepsMet
    <2>3. \A i \in Items : Terminal(i)' = Terminal(i) /\ Admits(i)' = Admits(i)
      BY <2>1 DEF Terminal, Admits
    <2>4. CASE RerunJoined
      <3>1. pc = "rerun" /\ pc' = IF Concurrent THEN "replay" ELSE "dispatch"
        BY <2>4 DEF RerunJoined
      <3>2. QED
        BY <1>0, <2>1, <2>2, <2>3, <3>1 DEF PassedFits, Replaying, Dispatching, Closing
    <2>5. CASE JoinItem
      <3>1. pc = "dispatch" /\ (pc' = "dispatch" \/ (pc' = "closing" /\ stop' # "none"))
        BY <2>5 DEF JoinItem
      <3>2. QED
        BY <1>0, <2>1, <2>2, <2>3, <3>1 DEF PassedFits, Replaying, Dispatching, Closing
    <2>6. QED
      BY <1>6, <2>4, <2>5
  <1>7. CASE NothingInFlight
    <2>1. /\ pc = "dispatch" /\ ~ MayDispatch /\ InFlight = {} /\ pc' = "closing"
          /\ UNCHANGED <<log, cursor, view, stop, rebuild, task>>
      BY <1>7 DEF NothingInFlight
    <2>2. Cardinality(InFlight) = 0
      BY <2>1, FS_EmptySet
    <2>3. Concurrent => Width \in Nat /\ Width > 1
      BY <1>0, ConfigFacts DEF Typed, TypeOK
    <2>4. stop = "none" => ~ (cursor < cfg.total)
      BY <2>1, <2>2, <2>3 DEF MayDispatch
    <2>5. stop = "none" => cursor = cfg.total
      BY <1>0, <2>4, ConfigFacts, ConfigAssumption DEF Typed, TypeOK
    <2>6. InFlight' = InFlight /\ \A i \in Items : Met(i)' = Met(i) /\ Admits(i)' = Admits(i)
      BY <2>1 DEF Met, InFlight, Admits
    <2>7. QED
      BY <1>0, <2>1, <2>5, <2>6 DEF PassedFits, Replaying, Dispatching, Closing
  <1>8. CASE CloseBatch
    <2>1. /\ pc = "closing" /\ pc' \in {"returned", "outcome"}
          /\ task' = [i \in Items |-> IF i \in InFlight THEN "gone" ELSE task[i]]
          /\ UNCHANGED <<log, cursor, view, stop, rebuild>>
      BY <1>8 DEF CloseBatch
    <2>2. InFlight' = {}
      BY <1>0, <2>1 DEF InFlight
    <2>3. stop = "none" => InFlight = {} /\ cursor = cfg.total
      BY <1>0, <2>1 DEF PassedFits, Closing
    <2>4. stop = "none" => \A i \in Items : Met(i) => Met(i)'
      BY <2>1, <2>3 DEF Met
    <2>5. \A i \in Items : Admits(i)' = Admits(i)
      BY <2>1 DEF Admits
    <2>6. QED
      BY <1>0, <2>1, <2>2, <2>3, <2>4, <2>5 DEF PassedFits, Replaying, Dispatching, Closing
  <1>9. CASE SubmitOutcome
    <2>1. /\ pc = "outcome" /\ pc' = "recording" /\ UNCHANGED <<log, cursor, view, stop, rebuild, task>>
      BY <1>9 DEF SubmitOutcome
    <2>2. InFlight' = InFlight /\ \A i \in Items : Met(i)' = Met(i) /\ Admits(i)' = Admits(i)
      BY <2>1 DEF Met, InFlight, Admits
    <2>3. QED
      BY <1>0, <2>1, <2>2 DEF PassedFits, Replaying, Dispatching, Closing
  <1>10. CASE SendWrite \/ RecordWrite \/ UNCHANGED vars
    <2>1. UNCHANGED <<log, batchVars, task>>
      BY <1>10 DEF SendWrite, RecordWrite, vars
    <2>2. InFlight' = InFlight /\ \A i \in Items : Met(i)' = Met(i) /\ Terminal(i)' = Terminal(i)
      BY <2>1 DEF Met, InFlight, Terminal, Admits, batchVars
    <2>3. QED
      BY <1>0, <2>1, <2>2, PassedKept DEF batchVars
  <1>11. ASSUME NEW i \in Items, ItemStep(i)
         PROVE  PassedFits'
    <2>1. /\ UNCHANGED <<log, batchVars>> /\ task[i] \in {"body", "returned", "writing"}
          /\ \E s \in {"returned", "writing", "delivered"} : task' = [task EXCEPT ![i] = s]
      BY <1>11 DEF ItemStep, BodyReturns, SubmitItem, ItemRecorded, Delivers
    <2>2. InFlight' = InFlight
      BY <1>0, <2>1 DEF InFlight
    <2>3. \A j \in Items : Met(j)' = Met(j) /\ Terminal(j)' = Terminal(j)
      BY <2>1, <2>2 DEF Met, Terminal, Admits, batchVars
    <2>4. QED
      BY <1>0, <2>1, <2>2, <2>3, PassedKept DEF batchVars
  <1>12. CASE AnswerWrite
    <2>1. UNCHANGED <<batchVars, task>> /\ ~ rebuild
      BY <1>0, <1>12, AnswerFacts DEF AnswerWrite
    <2>2. InFlight' = InFlight /\ \A i \in Items : Met(i)' = Met(i)
      BY <2>1 DEF Met, InFlight, batchVars
    <2>3. ASSUME NEW i \in Items, Terminal(i)', ~ Terminal(i)
          PROVE  ~ Replaying /\ ~ (pc = "dispatch" /\ Concurrent /\ i >= cursor)
      <3>1. task[i] \in {"writing", "gone"}
        BY <1>0, <1>12, <2>1, <2>3, AnswerFacts DEF Terminal, Settled
      <3>2. TaskIsTimely(i)
        BY <1>0 DEF TasksFit
      <3>3. ~ (i >= cursor /\ i < cursor)
        BY <1>0 DEF Typed, TypeOK
      <3>4. QED
        BY <2>3, <3>1, <3>2, <3>3 DEF TaskIsTimely, Dispatching
    <2>4. QED
      BY <1>0, <2>1, <2>2, <2>3, PassedKept DEF batchVars
  <1>13. QED
    BY <1>1, <1>2, <1>3, <1>4, <1>5, <1>6, <1>7, <1>8, <1>9, <1>10, <1>11, <1>12
       DEF Next, Coordinator, Writes

(***************************************************************************)
(* The items that were started.                                            *)
(***************************************************************************)
\* An item whose START is on its way.
LEMMA AwaitingFacts ==
  ASSUME BatchInv, NEW i \in Items, Awaiting(i)
  PROVE  /\ ~ cfg.flat /\ ~ rebuild /\ log.item[i] = "none" /\ log.batch # "succeeded"
         /\ i \in started /\ i \in Total
  <1>0. Typed /\ QueueFits /\ PlanFits /\ TasksFit /\ ViewFits /\ StartedFits
    BY DEF BatchInv
  <1>1. PICK n \in DOMAIN queue : queue[n] = StartOf(i)
    BY DEF Awaiting
  <1>2. StartOf(i) \in ItemWrite /\ StartOf(i).of = i /\ StartOf(i).action = "START"
    BY UpdateFacts DEF StartOf
  <1>3. /\ ~ cfg.flat /\ ~ rebuild /\ log.item[i] = "none" /\ task[i] \in {"body", "returned", "gone"}
        /\ log.batch # "succeeded" /\ pc # "start" /\ queue # <<>>
    BY <1>0, <1>1, <1>2 DEF QueueFits, EntryFits, ItemWriteFits
  <1>4. Producing
    BY <1>0, <1>3 DEF Producing, PlanFits
  <1>5. CASE task[i] = "gone"
    <2>1. ~ Dispatching
      BY <1>0, <1>5 DEF TasksFit, TaskFits, PlanFits, Dispatching
    <2>2. i \in started
      BY <1>0, <1>1, <1>4, <2>1 DEF StartedFits, Written, Awaiting
    <2>3. QED
      BY <1>0, <1>3, <2>2 DEF ViewFits
  <1>6. CASE task[i] # "gone"
    BY <1>0, <1>3, <1>6 DEF TasksFit, TaskFits, InFlight
  <1>7. QED
    BY <1>3, <1>5, <1>6

LEMMA WrittenFacts ==
  ASSUME BatchInv, NEW i \in Items, Written(i)
  PROVE  i \in Total /\ ~ cfg.flat
  BY AwaitingFacts, LogItems DEF BatchInv, Written

LEMMA AppendFacts ==
  ASSUME Typed, NEW w \in Update, queue' = Append(queue, w)
  PROVE  /\ \A n \in DOMAIN queue : n \in DOMAIN queue' /\ queue'[n] = queue[n]
         /\ \A n \in DOMAIN queue' : n \in DOMAIN queue \/ (n = Len(queue) + 1 /\ queue'[n] = w)
         /\ \A n \in DOMAIN queue : n < Len(queue) + 1
         /\ Len(queue) + 1 \in DOMAIN queue' /\ queue'[Len(queue) + 1] = w
  BY DEF Typed

\* A write that is appended is one more START at most.
LEMMA AppendWrites ==
  ASSUME Typed, NEW w \in Update, queue' = Append(queue, w), log' = log, NEW i \in Items
  PROVE  /\ Written(i)' <=> Written(i) \/ w = StartOf(i)
         /\ Awaiting(i)' <=> Awaiting(i) \/ w = StartOf(i)
  <1>1. Awaiting(i) => Awaiting(i)'
    BY AppendFacts DEF Awaiting, StartOf
  <1>2. Awaiting(i)' => Awaiting(i) \/ w = StartOf(i)
    BY AppendFacts DEF Awaiting, StartOf
  <1>3. w = StartOf(i) => Awaiting(i)'
    BY AppendFacts DEF Awaiting, StartOf
  <1>4. QED
    BY <1>1, <1>2, <1>3 DEF Written

\* A dispatch starts the item at the cursor, unless it was started before.
LEMMA DispatchWrites ==
  ASSUME BatchInv, DispatchItem
  PROVE  /\ cursor \in Items /\ log' = log
         /\ \/ queue' = queue /\ (~ rebuild => cfg.flat \/ log.item[cursor] # "none")
            \/ queue' = Append(queue, StartOf(cursor)) /\ ~ cfg.flat /\ ~ rebuild
         /\ StartOf(cursor) \in Update
         /\ \A i \in Items : StartOf(cursor) = StartOf(i) => i = cursor
  <1>0. Typed /\ LogIsBehind /\ QueueFits /\ PlanFits /\ RecordFits
    BY DEF BatchInv
  <1>1. cursor \in Items /\ log' = log
    BY <1>0, CursorFacts DEF DispatchItem, Eligible, MayDispatch
  <1>2. StartOf(cursor) \in Update /\ \A i \in Items : StartOf(cursor) = StartOf(i) => i = cursor
    BY <1>1, UpdateFacts DEF Update, StartOf
  <1>3. CASE cfg.flat \/ Recorded(cursor)
    <2>1. queue' = queue
      BY <1>3 DEF DispatchItem
    <2>2. ~ rebuild => cfg.flat \/ log.item[cursor] # "none"
      BY <1>3 DEF Recorded
    <2>3. QED
      BY <1>1, <1>2, <2>1, <2>2
  <1>4. CASE ~ (cfg.flat \/ Recorded(cursor))
    <2>1. queue' = Append(queue, StartOf(cursor)) /\ ~ cfg.flat
      BY <1>4 DEF DispatchItem, StartOf
    <2>2. ASSUME rebuild
          PROVE  FALSE
      <3>1. Admits(cursor) /\ ~ Terminal(cursor)
        BY <2>2 DEF DispatchItem, Eligible
      <3>2. QED
        BY <1>0, <1>1, <2>1, <2>2, <3>1, PlanIsRecorded
    <2>3. QED
      BY <1>1, <1>2, <2>1, <2>2
  <1>5. QED
    BY <1>3, <1>4

\* A dispatch is the step that starts an item, and a write that is dropped
\* or answered starts or forgets none.
LEMMA WrittenNext ==
  ASSUME BatchInv, [Next]_vars, NEW i \in Items
  PROVE  /\ Written(i)' => Written(i) \/ (DispatchItem /\ i = cursor /\ ~ cfg.flat /\ ~ rebuild)
         /\ ~ Restart => (Written(i) => Written(i)')
  <1> USE DEF taskVars, serviceVars, history
  <1>0. Typed /\ LogIsBehind /\ QueueFits /\ PlanFits /\ RecordFits /\ BatchStart \in Update
    BY DEF BatchInv, Update
  <1>1. CASE UNCHANGED <<log, queue>>
    BY <1>1 DEF Written, Awaiting
  <1>2. CASE StartBatch
    <2>1. BatchStart # StartOf(i)
      BY ItemsAreFinite DEF BatchStart, StartOf
    <2>2. log' = log /\ (queue' = queue \/ queue' = Append(queue, BatchStart))
      BY <1>2 DEF StartBatch
    <2>3. QED
      BY <1>0, <1>1, <2>1, <2>2, AppendWrites
  <1>3. CASE DispatchItem
    <2>1. PICK w \in Update : w = StartOf(cursor) /\ (w = StartOf(i) => i = cursor)
      BY <1>3, DispatchWrites
    <2>2. queue' = queue \/ (queue' = Append(queue, w) /\ ~ cfg.flat /\ ~ rebuild)
      BY <1>3, <2>1, DispatchWrites
    <2>3. log' = log
      BY <1>3, DispatchWrites
    <2>4. QED
      BY <1>0, <1>1, <1>3, <2>1, <2>2, <2>3, AppendWrites
  <1>4. CASE SubmitOutcome
    <2>1. PICK big \in BOOLEAN :
            queue' = Append(queue, [of |-> Batch, report |-> Assembled.report,
                                    reason |-> Assembled.reason, big |-> big])
      BY <1>4 DEF SubmitOutcome
    <2>2. PICK w \in BatchWrite : queue' = Append(queue, w)
      BY <1>0, <2>1, AssembledFacts DEF BatchWrite
    <2>3. w \in Update /\ w # StartOf(i) /\ log' = log
      BY <1>4, <2>2, UpdateFacts, ItemsAreFinite DEF Update, StartOf, SubmitOutcome
    <2>4. QED
      BY <1>0, <2>2, <2>3, AppendWrites
  <1>5. ASSUME NEW j \in Items, ItemStep(j)
        PROVE  Written(i)' <=> Written(i)
    <2>1. log' = log /\ (queue' = queue \/ queue' = Append(queue, [of |-> j, action |-> fate[j]]))
      BY <1>5 DEF ItemStep, BodyReturns, SubmitItem, ItemRecorded
    <2>2. PICK w \in Update : w = [of |-> j, action |-> fate[j]] /\ w # StartOf(i)
      <3>1. fate[j] \in Settled
        BY <1>0 DEF Typed, TypeOK
      <3>2. [of |-> j, action |-> fate[j]] \in Update /\ [of |-> j, action |-> fate[j]].action # "START"
        BY <3>1, UpdateFacts DEF Update, Settled
      <3>3. QED
        BY <3>2 DEF StartOf
    <2>3. CASE queue' = Append(queue, w)
      BY <1>0, <2>1, <2>2, <2>3, AppendWrites
    <2>4. CASE queue' = queue
      BY <2>1, <2>4 DEF Written, Awaiting
    <2>5. QED
      BY <2>1, <2>2, <2>3, <2>4
  <1>6. CASE SendWrite
    <2>1. log' = log /\ (queue' = queue \/ (queue # <<>> /\ queue' = Tail(queue) /\ Head(queue).action \in Settled))
      BY <1>6 DEF SendWrite, InScope
    <2>2. CASE queue' = Tail(queue) /\ queue # <<>> /\ Head(queue).action \in Settled
      <3>1. Head(queue) = queue[1] /\ queue[1] # StartOf(i)
        BY <1>0, <2>2, TailFacts DEF StartOf, Settled
      <3>2. Awaiting(i)' => Awaiting(i)
        BY <1>0, <2>2, TailFacts DEF Awaiting, StartOf
      <3>3. Awaiting(i) => Awaiting(i)'
        <4>1. ASSUME NEW n \in DOMAIN queue, queue[n] = StartOf(i)
              PROVE  Awaiting(i)'
          <5>1. n - 1 \in DOMAIN queue' /\ queue'[n - 1] = StartOf(i)
            BY <1>0, <2>2, <3>1, <4>1, TailFacts
          <5>2. QED
            BY <5>1 DEF Awaiting, StartOf
        <4>2. QED
          BY <4>1 DEF Awaiting
      <3>4. QED
        BY <2>1, <3>2, <3>3 DEF Written
    <2>3. QED
      BY <1>1, <2>1, <2>2
  <1>7. CASE AnswerWrite
    BY <1>0, <1>7, AnswerFacts
  <1>8. CASE Restart
    <2>1. Written(i)' => record.item[i] # "none"
      BY <1>8 DEF Restart, Written, Awaiting
    <2>2. QED
      BY <1>0, <1>8, <2>1, LogFacts
  <1>9. CASE \/ ReplayBatchRecord \/ ReplayFromSummary \/ RebuildBatch \/ ReplayItem \/ ReplayDone
             \/ RerunJoined \/ SkipItem \/ ResolveAtCursor \/ GateStops \/ JoinItem \/ NothingInFlight
             \/ CloseBatch \/ OutcomeRecorded \/ RecordWrite \/ UNCHANGED vars
    <2>1. UNCHANGED <<log, queue>>
      BY <1>9 DEF ReplayBatchRecord, ReplayFromSummary, RebuildBatch, ReplayItem, ReplayDone, RerunJoined,
         SkipItem, ResolveAtCursor, GateStops, JoinItem, NothingInFlight, CloseBatch, OutcomeRecorded,
         RecordWrite, vars
    <2>2. QED
      BY <1>1, <2>1
  <1>10. QED
    BY <1>2, <1>3, <1>4, <1>5, <1>6, <1>7, <1>8, <1>9 DEF Next, Coordinator, Writes

\* An item is behind the START of every item before it.
LEMMA StartsStayOrdered ==
  ASSUME BatchInv, [Next]_vars
  PROVE  StartsAreOrdered'
  <1> USE DEF taskVars, serviceVars, history
  <1>0. /\ Typed /\ LogIsBehind /\ QueueFits /\ PlanFits /\ RecordFits /\ StartsAreOrdered /\ StartedFits
        /\ BatchStart \in Update /\ \A i \in Items : i \in Int /\ i >= 0
    BY ConfigAssumption DEF BatchInv, Update, StartedFits, Items
  <1>1. CASE UNCHANGED <<log, queue>>
    BY <1>0, <1>1 DEF StartsAreOrdered, StartOf
  <1>2. ASSUME NEW w \in Update, queue' = Append(queue, w), log' = log,
               \A i, j \in Items : w = StartOf(j) /\ i < j => Written(i)
        PROVE  StartsAreOrdered'
    <2>1. ASSUME NEW n \in DOMAIN queue', NEW i \in Items, NEW j \in Items,
                 queue'[n] = StartOf(j), i < j, log.item[i] = "none"
          PROVE  \E m \in DOMAIN queue' : m < n /\ queue'[m] = StartOf(i)
      <3>1. CASE n \in DOMAIN queue
        <4>1. PICK m \in DOMAIN queue : m < n /\ queue[m] = StartOf(i)
          BY <1>0, <1>2, <2>1, <3>1, AppendFacts DEF StartsAreOrdered
        <4>2. QED
          BY <1>0, <1>2, <4>1, AppendFacts
      <3>2. CASE n = Len(queue) + 1 /\ queue'[n] = w
        <4>1. PICK m \in DOMAIN queue : queue[m] = StartOf(i)
          BY <1>2, <2>1, <3>2 DEF Written, Awaiting
        <4>2. m \in DOMAIN queue' /\ queue'[m] = StartOf(i) /\ m < n
          BY <1>0, <1>2, <3>2, <4>1, AppendFacts
        <4>3. QED
          BY <4>2
      <3>3. QED
        BY <1>0, <1>2, <3>1, <3>2, AppendFacts
    <2>2. QED
      BY <1>2, <2>1 DEF StartsAreOrdered, StartOf
  <1>3. ASSUME queue # <<>>, queue' = Tail(queue),
               \A i \in Items : log.item[i] # "none" => log'.item[i] # "none",
               \A i \in Items : Head(queue) = StartOf(i) => log'.item[i] # "none"
        PROVE  StartsAreOrdered'
    <2>1. ASSUME NEW n \in DOMAIN queue', NEW i \in Items, NEW j \in Items,
                 queue'[n] = StartOf(j), i < j, log'.item[i] = "none"
          PROVE  \E m \in DOMAIN queue' : m < n /\ queue'[m] = StartOf(i)
      <3>1. n + 1 \in DOMAIN queue /\ queue[n + 1] = StartOf(j) /\ Head(queue) = queue[1]
        BY <1>0, <1>3, <2>1, TailFacts
      <3>2. PICK m \in DOMAIN queue : m < n + 1 /\ queue[m] = StartOf(i)
        BY <1>0, <1>3, <2>1, <3>1 DEF StartsAreOrdered
      <3>3. m # 1 /\ m - 1 \in DOMAIN queue' /\ queue'[m - 1] = StartOf(i)
        BY <1>0, <1>3, <2>1, <3>1, <3>2, TailFacts
      <3>4. m \in Int /\ n \in Int
        BY <1>0, <1>3, <3>1, <3>2 DEF Typed
      <3>5. m - 1 < n
        BY <3>2, <3>4
      <3>6. QED
        BY <3>3, <3>5
    <2>2. QED
      BY <1>3, <2>1 DEF StartsAreOrdered, StartOf
  <1>4. CASE StartBatch
    <2>1. \A j \in Items : BatchStart # StartOf(j)
      BY ItemsAreFinite DEF BatchStart, StartOf
    <2>2. log' = log /\ (queue' = queue \/ queue' = Append(queue, BatchStart))
      BY <1>4 DEF StartBatch
    <2>3. QED
      BY <1>0, <1>1, <1>2, <2>1, <2>2
  <1>5. CASE DispatchItem
    <2>1. PICK w \in Update : w = StartOf(cursor) /\ \A i \in Items : w = StartOf(i) => i = cursor
      BY <1>5, DispatchWrites
    <2>2. log' = log /\ (queue' = queue \/ (queue' = Append(queue, w) /\ ~ cfg.flat /\ ~ rebuild))
      BY <1>5, <2>1, DispatchWrites
    <2>3. ~ cfg.flat /\ ~ rebuild => \A i \in Items : i < cursor => Written(i)
      <3>1. Dispatching /\ (rebuild \/ stop = "none")
        BY <1>5 DEF DispatchItem, Eligible, MayDispatch, Dispatching
      <3>2. QED
        BY <1>0, <3>1 DEF StartedFits
    <2>4. ~ cfg.flat /\ ~ rebuild => \A i, j \in Items : w = StartOf(j) /\ i < j => Written(i)
      BY <2>1, <2>3
    <2>5. QED
      BY <1>1, <1>2, <2>2, <2>4
  <1>6. CASE SubmitOutcome
    <2>1. PICK big \in BOOLEAN :
            queue' = Append(queue, [of |-> Batch, report |-> Assembled.report,
                                    reason |-> Assembled.reason, big |-> big])
      BY <1>6 DEF SubmitOutcome
    <2>2. PICK w \in BatchWrite : queue' = Append(queue, w)
      BY <1>0, <2>1, AssembledFacts DEF BatchWrite
    <2>3. w \in Update /\ log' = log /\ \A j \in Items : w # StartOf(j)
      BY <1>6, <2>2, UpdateFacts, ItemsAreFinite DEF Update, StartOf, SubmitOutcome
    <2>4. QED
      BY <1>2, <2>2, <2>3
  <1>7. ASSUME NEW k \in Items, ItemStep(k)
        PROVE  StartsAreOrdered'
    <2>1. log' = log /\ (queue' = queue \/ queue' = Append(queue, [of |-> k, action |-> fate[k]]))
      BY <1>7 DEF ItemStep, BodyReturns, SubmitItem, ItemRecorded
    <2>2. PICK w \in Update : w = [of |-> k, action |-> fate[k]] /\ \A j \in Items : w # StartOf(j)
      <3>1. fate[k] \in Settled
        BY <1>0 DEF Typed, TypeOK
      <3>2. [of |-> k, action |-> fate[k]] \in Update /\ [of |-> k, action |-> fate[k]].action # "START"
        BY <3>1, UpdateFacts DEF Update, Settled
      <3>3. QED
        BY <3>2 DEF StartOf
    <2>3. QED
      BY <1>1, <1>2, <2>1, <2>2
  <1>8. CASE SendWrite
    <2>1. /\ log' = log
          /\ queue' = queue \/ (queue # <<>> /\ queue' = Tail(queue) /\ Head(queue).action \in Settled)
      BY <1>8 DEF SendWrite, InScope
    <2>2. Head(queue).action \in Settled => \A i \in Items : Head(queue) # StartOf(i)
      BY DEF StartOf, Settled
    <2>3. QED
      BY <1>1, <1>3, <2>1, <2>2
  <1>9. CASE AnswerWrite
    <2>1. queue # <<>> /\ queue' = Tail(queue) /\ \A i \in Items : log.item[i] # "none" => log'.item[i] # "none"
      BY <1>0, <1>9, AnswerFacts DEF AnswerWrite
    <2>2. ASSUME NEW i \in Items, Head(queue) = StartOf(i)
          PROVE  log'.item[i] # "none"
      <3>1. Awaiting(i) /\ Head(queue) = queue[1] /\ 1 \in DOMAIN queue
        BY <1>0, <2>1, <2>2, TailFacts DEF Awaiting
      <3>2. PICK w \in Update : w = Head(queue) /\ w \in ItemWrite /\ w.of = i /\ w.action = "START"
        BY <2>2, UpdateFacts DEF StartOf, Update
      <3>3. log' = After(log, w) /\ log \in Stored
        BY <1>0, <1>9, <3>2 DEF AnswerWrite, LogIsBehind, Typed, TypeOK
      <3>4. QED
        BY <3>2, <3>3, AfterFacts
    <2>3. QED
      BY <1>3, <2>1, <2>2
  <1>10. CASE Restart
    <2>1. queue' = <<>>
      BY <1>10 DEF Restart
    <2>2. QED
      BY <2>1 DEF StartsAreOrdered
  <1>11. CASE \/ ReplayBatchRecord \/ ReplayFromSummary \/ RebuildBatch \/ ReplayItem \/ ReplayDone
             \/ RerunJoined \/ SkipItem \/ ResolveAtCursor \/ GateStops \/ JoinItem \/ NothingInFlight
             \/ CloseBatch \/ OutcomeRecorded \/ RecordWrite \/ UNCHANGED vars
    <2>1. UNCHANGED <<log, queue>>
      BY <1>11 DEF ReplayBatchRecord, ReplayFromSummary, RebuildBatch, ReplayItem, ReplayDone, RerunJoined,
         SkipItem, ResolveAtCursor, GateStops, JoinItem, NothingInFlight, CloseBatch, OutcomeRecorded,
         RecordWrite, vars
    <2>2. QED
      BY <1>1, <2>1
  <1>12. QED
    BY <1>4, <1>5, <1>6, <1>7, <1>8, <1>9, <1>10, <1>11 DEF Next, Coordinator, Writes

(***************************************************************************)
(* One item at a time.                                                     *)
(***************************************************************************)
\* Between the items, the batch knows what came before the cursor.
LEMMA SequentialView ==
  ASSUME BatchInv, ~ Concurrent, ~ rebuild, stop = "none", Dispatching
  PROVE  /\ \A i \in Items \ InFlight : view[i] = Prefix(cursor)[i]
         /\ InFlight = {} => view = Prefix(cursor)
  <1>1. ASSUME NEW i \in Items \ InFlight
        PROVE  view[i] = Prefix(cursor)[i]
    <2>1. view[i] = Omitted <=> i >= cursor
      BY <1>1 DEF BatchInv, OneAtATime
    <2>2. i < cursor => view[i] = fate[i]
      BY <1>1 DEF BatchInv, PassedFits, Met, ViewFits
    <2>3. i \in Int /\ cursor \in Int
      BY <1>1, ConfigAssumption, ConfigFacts DEF BatchInv, Typed, TypeOK, Items
    <2>4. i < cursor \/ i >= cursor
      BY <2>3
    <2>5. QED
      BY <1>1, <2>1, <2>2, <2>3, <2>4 DEF Prefix
  <1>2. view = [i \in Items |-> view[i]] /\ Prefix(cursor) = [i \in Items |-> Prefix(cursor)[i]]
    BY DEF BatchInv, Typed, TypeOK, Report, Prefix
  <1>3. QED
    BY <1>1, <1>2

\* The item at work was the last one before the cursor.
LEMMA SequentialJoin ==
  ASSUME BatchInv, RerunJoined \/ JoinItem, ~ Concurrent, ~ rebuild, stop = "none"
  PROVE  /\ Dispatching /\ cursor \in Int /\ cursor > 0
         /\ view' = Prefix(cursor) /\ stop' = Evaluate(Prefix(cursor))
  <1>1. /\ joins # <<>> /\ Settle(Head(joins), fate[Head(joins)]) /\ pc \in {"rerun", "dispatch"}
    BY DEF RerunJoined, JoinItem
  <1>2. PICK h \in Items : /\ h = Head(joins) /\ fate[h] \in Settled
                           /\ h = cursor - 1 /\ InFlight = {h}
    BY <1>1, JoinedItem
  <1>3. Dispatching
    BY <1>1 DEF Dispatching
  <1>4. cursor \in Int /\ h \in Int /\ h >= 0
    BY <1>2, ConfigAssumption, ConfigFacts DEF BatchInv, Typed, TypeOK, Items
  <1>5. cursor > 0 /\ h < cursor
    BY <1>2, <1>4
  <1>6. view' = [view EXCEPT ![h] = fate[h]] /\ view \in Report
    BY <1>1, <1>2 DEF Settle, BatchInv, Typed, TypeOK
  <1>7. \A i \in Items : view'[i] = Prefix(cursor)[i]
    <2>1. \A i \in Items : i # h => view'[i] = Prefix(cursor)[i]
      BY <1>2, <1>3, <1>6, SequentialView DEF Report
    <2>2. view'[h] = Prefix(cursor)[h]
      BY <1>2, <1>5, <1>6 DEF Prefix, Report
    <2>3. QED
      BY <2>1, <2>2
  <1>8. view' = [i \in Items |-> view'[i]] /\ Prefix(cursor) = [i \in Items |-> Prefix(cursor)[i]]
    BY <1>6 DEF Report, Prefix
  <1>9. view' = Prefix(cursor)
    BY <1>7, <1>8
  <1>10. QED
    BY <1>1, <1>3, <1>4, <1>5, <1>9 DEF Settle

LEMMA SequentialResolve ==
  ASSUME BatchInv, ResolveAtCursor, ~ rebuild
  PROVE  /\ ~ Concurrent /\ stop = "none" /\ Dispatching /\ cursor \in Items /\ cursor \in Int /\ InFlight = {}
         /\ Terminal(cursor) /\ Written(cursor) /\ log' = log
         /\ \/ task' = [task EXCEPT ![cursor] = "body"] /\ stop' = stop
               /\ view' = [view EXCEPT ![cursor] = "-"]
            \/ task' = task /\ view' = Prefix(cursor + 1) /\ stop' = Evaluate(Prefix(cursor + 1))
  <1>1. /\ ~ Concurrent /\ stop = "none" /\ Dispatching /\ Terminal(cursor) /\ log' = log /\ MayDispatch
        /\ ResolveInline(cursor, [view EXCEPT ![cursor] = "-"], "dispatch") /\ cursor < cfg.total
    BY DEF ResolveAtCursor, MayDispatch, Dispatching, serviceVars
  <1>2. /\ cursor \in Items /\ cursor \in Int /\ InFlight = {} /\ view \in Report
    BY <1>1, CursorFacts, OneSlot, ConfigAssumption DEF BatchInv, Typed, TypeOK, Items
  <1>3. log.item[cursor] = fate[cursor] /\ Written(cursor)
    BY <1>1, <1>2, RecordedItem
  <1>4. CASE MustRerun(cursor)
    BY <1>1, <1>2, <1>3, <1>4 DEF ResolveInline
  <1>5. CASE ~ MustRerun(cursor)
    <2>1. Settle(cursor, fate[cursor]) /\ task' = task
      BY <1>1, <1>3, <1>5 DEF ResolveInline, taskVars
    <2>2. view' = [view EXCEPT ![cursor] = fate[cursor]]
      BY <2>1 DEF Settle
    <2>3. view = Prefix(cursor)
      BY <1>1, <1>2, SequentialView
    <2>4. \A i \in Items : i \in Int
      BY ConfigAssumption DEF Items
    <2>5. \A i \in Items : i < cursor + 1 <=> i < cursor \/ i = cursor
      BY <1>2, <2>4
    <2>6. view' = Prefix(cursor + 1)
      BY <1>2, <2>2, <2>3, <2>5 DEF Prefix
    <2>7. QED
      BY <1>1, <1>2, <1>3, <2>1, <2>6 DEF Settle
  <1>6. QED
    BY <1>4, <1>5

\* The item at the cursor is started because the batch goes on.
LEMMA SequentialDispatch ==
  ASSUME BatchInv, Eligible, ~ Concurrent, ~ rebuild
  PROVE  /\ stop = "none" /\ Dispatching /\ cursor \in Items /\ cursor \in Int /\ InFlight = {}
         /\ view = Prefix(cursor)
         /\ ~ PredicateCompletes(view) => Goes(cursor)
  <1>1. stop = "none" /\ Dispatching /\ cursor < cfg.total /\ MayDispatch
    BY DEF Eligible, MayDispatch, Dispatching
  <1>2. /\ cursor \in Items /\ cursor \in Int /\ cursor >= 0 /\ InFlight = {} /\ N \in Int
    BY <1>1, CursorFacts, OneSlot, ConfigAssumption DEF BatchInv, Typed, TypeOK, Items
  <1>3. view = Prefix(cursor)
    BY <1>1, <1>2, SequentialView
  <1>4. cursor > 0 => Evaluate(view) = "none"
    <2>1. ASSUME cursor > 0
          PROVE  0 \in Items /\ view[0] # Omitted
      <3>1. 0 \in Items
        BY <1>2, <2>1 DEF Items
      <3>2. view[0] = fate[0] /\ fate[0] \in Settled
        BY <1>3, <2>1, <3>1 DEF Prefix, BatchInv, Typed, TypeOK
      <3>3. QED
        BY <3>1, <3>2 DEF Settled, Omitted
    <2>2. QED
      BY <1>1, <1>2, <2>1 DEF BatchInv, StopFits
  <1>5. QED
    BY <1>1, <1>2, <1>3, <1>4 DEF Goes

LEMMA GoesIsKept ==
  ASSUME UNCHANGED <<cfg, fate>>, NEW k
  PROVE  Goes(k)' <=> Goes(k)
  BY DEF Goes, Prefix, PredicateCompletes, Evaluate, EvaluateThresholds, ShouldStopFailure,
     ShouldStopMin, HasCriteria, CountOf

LEMMA OneAtATimeNext ==
  ASSUME BatchInv, [Next]_vars
  PROVE  OneAtATime'
  <1> USE DEF taskVars, serviceVars, history
  <1>0. /\ Typed /\ PlanFits /\ OneAtATime /\ cursor \in Int
        /\ UNCHANGED <<cfg, fate>> /\ Concurrent' = Concurrent /\ view \in Report
        /\ \A i \in Items : i \in Int /\ i >= 0
    BY BatchIsKept, ConfigFacts, ConfigAssumption DEF BatchInv, Typed, TypeOK, Items
  <1>1. SUFFICES ASSUME ~ Concurrent
                 PROVE  /\ \A i \in Items : Written(i)' => \A k \in 0 .. i : Goes(k)
                        /\ ~ rebuild' /\ Dispatching' /\ stop' = "none" =>
                             /\ \A i \in Items : view'[i] = Omitted <=> i >= cursor'
                             /\ \A k \in 0 .. cursor' - 1 : Goes(k)
    BY <1>0, GoesIsKept DEF OneAtATime
  <1>g. /\ \A i \in Items : Written(i) => \A k \in 0 .. i : Goes(k)
        /\ ~ rebuild /\ Dispatching /\ stop = "none" =>
             /\ \A i \in Items : view[i] = Omitted <=> i >= cursor
             /\ \A k \in 0 .. cursor - 1 : Goes(k)
    BY <1>0, <1>1 DEF OneAtATime
  <1>d. DispatchItem /\ ~ rebuild =>
          /\ stop = "none" /\ Dispatching /\ cursor \in Items /\ \A k \in 0 .. cursor : Goes(k)
    <2>1. ASSUME DispatchItem, ~ rebuild
          PROVE  /\ stop = "none" /\ Dispatching /\ cursor \in Items /\ \A k \in 0 .. cursor : Goes(k)
      <3>1. Eligible /\ ~ PredicateCompletes(view)
        BY <2>1 DEF DispatchItem
      <3>2. stop = "none" /\ Dispatching /\ cursor \in Items /\ Goes(cursor)
        BY <1>1, <2>1, <3>1, SequentialDispatch
      <3>3. \A k \in 0 .. cursor - 1 : Goes(k)
        BY <1>g, <2>1, <3>2
      <3>4. \A k \in 0 .. cursor : k = cursor \/ k \in 0 .. cursor - 1
        BY <1>0
      <3>5. QED
        BY <3>2, <3>3, <3>4
    <2>2. QED
      BY <2>1
  <1>2. ASSUME NEW i \in Items, Written(i)', NEW k \in 0 .. i
        PROVE  Goes(k)
    BY <1>g, <1>d, <1>2, WrittenNext
  <1>3. ASSUME ~ rebuild', Dispatching', stop' = "none"
        PROVE  /\ \A i \in Items : view'[i] = Omitted <=> i >= cursor'
               /\ \A k \in 0 .. cursor' - 1 : Goes(k)
    <2>1. CASE StartBatch
      <3>1. cursor' = 0 /\ view' = [i \in Items |-> Omitted]
        BY <1>0, <2>1 DEF StartBatch, PlanFits
      <3>2. QED
        BY <1>0, <3>1
    <2>2. CASE RerunJoined \/ JoinItem
      <3>1. /\ joins # <<>> /\ Settle(Head(joins), fate[Head(joins)])
            /\ UNCHANGED <<rebuild, cursor>> /\ pc \in {"rerun", "dispatch"}
        BY <2>2 DEF RerunJoined, JoinItem
      <3>2. PICK h \in Items : h = Head(joins) /\ fate[h] \in Settled /\ h = cursor - 1
        BY <1>1, <3>1, JoinedItem
      <3>3. view'[h] \in Settled /\ (\A i \in Items : i # h => view'[i] = view[i]) /\ stop = "none"
        BY <1>0, <1>3, <3>1, <3>2, SettleFacts
      <3>4. ~ (h >= cursor) /\ view'[h] # Omitted
        BY <1>0, <3>2, <3>3 DEF Settled, Omitted
      <3>5. Dispatching
        BY <1>1, <3>1 DEF Dispatching
      <3>6. \A i \in Items : view'[i] = Omitted <=> i >= cursor
        <4>1. \A i \in Items : i # h => (view'[i] = Omitted <=> i >= cursor)
          BY <1>g, <1>3, <3>1, <3>3, <3>5
        <4>2. QED
          BY <3>2, <3>4, <4>1
      <3>7. QED
        BY <1>g, <1>3, <3>1, <3>3, <3>5, <3>6
    <2>3. CASE ResolveAtCursor
      <3>1. ~ rebuild /\ cursor' = cursor + 1
        BY <1>3, <2>3 DEF ResolveAtCursor
      <3>2. /\ stop = "none" /\ Dispatching /\ cursor \in Items /\ Written(cursor)
            /\ view' = [view EXCEPT ![cursor] = "-"] \/ view' = Prefix(cursor + 1)
        BY <2>3, <3>1, SequentialResolve
      <3>3. \A k \in 0 .. cursor' - 1 : Goes(k)
        <4>1. cursor' - 1 = cursor
          BY <1>0, <3>1
        <4>2. \A k \in 0 .. cursor : Goes(k)
          BY <1>g, <3>2
        <4>3. QED
          BY <4>1, <4>2
      <3>4. \A i \in Items : view'[i] = Omitted <=> i >= cursor + 1
        <4>1. CASE view' = [view EXCEPT ![cursor] = "-"]
          <5>1. view'[cursor] # Omitted /\ \A i \in Items : i # cursor => view'[i] = view[i]
            BY <1>0, <3>2, <4>1 DEF Report, Omitted
          <5>2. \A i \in Items : i >= cursor + 1 <=> i >= cursor /\ i # cursor
            BY <1>0
          <5>3. \A i \in Items : i # cursor => (view'[i] = Omitted <=> i >= cursor)
            BY <1>g, <3>1, <3>2, <5>1
          <5>4. QED
            BY <5>1, <5>2, <5>3
        <4>2. CASE view' = Prefix(cursor + 1)
          <5>1. \A i \in Items : fate[i] # Omitted
            BY <1>0 DEF Typed, TypeOK, Settled, Omitted
          <5>2. \A i \in Items : i < cursor + 1 <=> ~ (i >= cursor + 1)
            BY <1>0
          <5>3. QED
            BY <4>2, <5>1, <5>2 DEF Prefix
        <4>3. QED
          BY <3>2, <4>1, <4>2
      <3>5. QED
        BY <3>1, <3>3, <3>4
    <2>4. CASE DispatchItem
      <3>1. ~ rebuild /\ cursor' = cursor + 1 /\ view' = [view EXCEPT ![cursor] = "-"]
        BY <1>3, <2>4 DEF DispatchItem
      <3>2. stop = "none" /\ Dispatching /\ cursor \in Items /\ \A k \in 0 .. cursor : Goes(k)
        BY <1>d, <2>4, <3>1
      <3>3. view'[cursor] # Omitted /\ \A i \in Items : i # cursor => view'[i] = view[i]
        BY <1>0, <3>1, <3>2 DEF Report, Omitted
      <3>4. \A i \in Items : i >= cursor + 1 <=> i >= cursor /\ i # cursor
        BY <1>0
      <3>5. \A i \in Items : i # cursor => (view'[i] = Omitted <=> i >= cursor)
        BY <1>g, <3>1, <3>2, <3>3
      <3>6. \A k \in 0 .. cursor' - 1 : Goes(k)
        <4>1. cursor' - 1 = cursor
          BY <1>0, <3>1
        <4>2. QED
          BY <3>2, <4>1
      <3>7. \A i \in Items : view'[i] = Omitted <=> i >= cursor + 1
        BY <3>3, <3>4, <3>5
      <3>8. QED
        BY <3>1, <3>6, <3>7
    <2>5. CASE RebuildBatch \/ ReplayItem \/ ReplayDone \/ SkipItem \/ GateStops
      <3>1. CASE RebuildBatch
        BY <1>3, <3>1 DEF RebuildBatch
      <3>2. CASE ReplayItem \/ ReplayDone
        BY <1>0, <1>1, <3>2 DEF ReplayItem, ReplayDone, PlanFits
      <3>3. CASE SkipItem
        BY <1>1, <1>3, <3>3 DEF SkipItem
      <3>4. CASE GateStops
        BY <1>0, <1>3, <3>4, EvaluateFacts DEF GateStops, CustomReason, Typed, TypeOK
      <3>5. QED
        BY <2>5, <3>1, <3>2, <3>3, <3>4
    <2>6. CASE \/ ReplayBatchRecord \/ ReplayFromSummary \/ NothingInFlight \/ CloseBatch
               \/ SubmitOutcome \/ OutcomeRecorded \/ Restart
      <3>1. pc' \in {"returned", "closing", "outcome", "recording", "start"}
        BY <2>6 DEF ReplayBatchRecord, ReplayFromSummary, NothingInFlight, CloseBatch, SubmitOutcome,
           OutcomeRecorded, Restart
      <3>2. QED
        BY <1>3, <3>1 DEF Dispatching
    <2>7. CASE (\E i \in Items : ItemStep(i)) \/ Writes \/ UNCHANGED vars
      <3>1. UNCHANGED batchVars
        BY <2>7 DEF ItemStep, BodyReturns, SubmitItem, ItemRecorded, Writes, SendWrite, RecordWrite,
           AnswerWrite, vars
      <3>2. QED
        BY <1>0, <1>g, <1>3, <3>1 DEF batchVars, Dispatching
    <2>8. QED
      BY <2>1, <2>2, <2>3, <2>4, <2>5, <2>6, <2>7 DEF Next, Coordinator
  <1>4. QED
    BY <1>2, <1>3

\* The pass over the items ends behind the last of them.
LEMMA PassEnds ==
  ASSUME BatchInv, NothingInFlight, stop = "none"
  PROVE  cursor = cfg.total
  <1>1. pc = "dispatch" /\ ~ MayDispatch /\ Cardinality(InFlight) = 0
    BY FS_EmptySet DEF NothingInFlight
  <1>2. Concurrent => Width \in Nat /\ Width > 1
    BY ConfigFacts DEF BatchInv, Typed, TypeOK
  <1>3. ~ (cursor < cfg.total)
    BY <1>1, <1>2 DEF MayDispatch
  <1>4. QED
    BY <1>3, ConfigFacts, ConfigAssumption DEF BatchInv, Typed, TypeOK

LEMMA StartedFitsNext ==
  ASSUME BatchInv, [Next]_vars
  PROVE  StartedFits'
  <1> USE DEF taskVars, serviceVars, history
  <1>0. /\ Typed /\ LogIsBehind /\ QueueFits /\ PlanFits /\ RecordFits /\ StartedFits /\ OneAtATime
        /\ UNCHANGED <<cfg, fate>> /\ Concurrent' = Concurrent /\ cursor \in Int
        /\ StartsAreOrdered' /\ cfg \in Configs /\ cfg.total \in Int
        /\ \A i \in Items : i \in Int /\ i >= 0
    BY BatchIsKept, StartsStayOrdered, ConfigFacts, ConfigAssumption DEF BatchInv, Typed, TypeOK, Items
  <1>s. /\ ~ rebuild => \A i, j \in Items : i < j /\ j \in started => i \in started
        /\ Dispatching /\ ~ rebuild /\ stop = "none" =>
             \A i \in Items : i < cursor => i \in started /\ (cfg.flat \/ Written(i))
        /\ Producing => \A i \in Items : Written(i) =>
             i \in started \/ (~ Concurrent /\ stop = "none" /\ Dispatching /\ i >= cursor)
    BY <1>0 DEF StartedFits
  <1>1. CASE StartBatch
    <2>1. /\ pc = "start" /\ queue = <<>> /\ record = log /\ log' = log /\ cursor' = 0 /\ started = {}
          /\ stop = "none" /\ rebuild' = rebuild
      BY <1>0, <1>1, LogFacts DEF StartBatch, QueueFits, PlanFits
    <2>2. \A i \in Items : Written(i)' => log.item[i] # "none"
      <3>1. ~ DispatchItem
        BY <2>1 DEF DispatchItem, Eligible, MayDispatch
      <3>2. \A i \in Items : ~ Awaiting(i)
        BY <2>1 DEF Awaiting
      <3>3. QED
        BY <3>1, <3>2, WrittenNext DEF Written
    <2>3. \A i, j \in Items : i < j /\ log.item[j] # "none" => log.item[i] # "none"
      BY <1>0, <2>1, LogItems DEF RecordFits, ResultFitsItems, StartedArePrefix
    <2>4. CASE cfg.total = 0
      <3>1. \A i \in Items : log.item[i] = "none"
        BY <1>0, <2>4, LogItems DEF Total
      <3>2. started' = {} /\ pc' = "closing"
        BY <1>1, <2>1, <2>4 DEF StartBatch
      <3>3. QED
        BY <1>0, <2>2, <3>1, <3>2 DEF StartedFits, Dispatching
    <2>5. CASE cfg.total # 0
      <3>1. /\ started' = IF Concurrent THEN {i \in Items : log.item[i] # "none"} ELSE {}
            /\ pc' = (IF Concurrent THEN "replay" ELSE "dispatch") /\ stop' = stop
        BY <1>1, <2>5 DEF StartBatch
      <3>2. \A i \in Items : ~ (i < cursor') /\ i >= cursor'
        BY <1>0, <2>1
      <3>3. CASE Concurrent
        BY <1>0, <2>2, <2>3, <3>1, <3>2, <3>3 DEF StartedFits
      <3>4. CASE ~ Concurrent
        BY <1>0, <2>1, <3>1, <3>2, <3>4 DEF StartedFits, Dispatching
      <3>5. QED
        BY <3>3, <3>4
    <2>6. QED
      BY <2>4, <2>5
  <1>2. CASE RebuildBatch \/ Restart
    <2>1. rebuild' \/ (started' = {} /\ pc' = "start")
      BY <1>2 DEF RebuildBatch, Restart
    <2>2. QED
      BY <1>0, <2>1 DEF StartedFits, Producing, Dispatching
  <1>3. CASE ReplayBatchRecord \/ ReplayFromSummary \/ OutcomeRecorded
    <2>1. pc' = "returned" /\ UNCHANGED <<started, rebuild>>
      BY <1>3 DEF ReplayBatchRecord, ReplayFromSummary, OutcomeRecorded
    <2>2. QED
      BY <1>0, <1>s, <2>1 DEF StartedFits, Producing, Dispatching
  <1>4. CASE ReplayItem \/ ReplayDone \/ CloseBatch \/ SubmitOutcome
    <2>1. /\ UNCHANGED <<started, rebuild>> /\ pc \in {"replay", "closing", "outcome"}
          /\ (pc' = "dispatch" => cursor' = 0) /\ ~ Dispatching /\ (Dispatching' => pc' = "dispatch")
      BY <1>0, <1>4 DEF ReplayItem, ReplayDone, CloseBatch, SubmitOutcome, Dispatching, PlanFits, ResolveInline
    <2>2. \A i \in Items : Dispatching' => ~ (i < cursor')
      BY <1>0, <2>1
    <2>3. \A i \in Items : Written(i)' => Written(i)
      <3>1. ~ DispatchItem
        BY <2>1 DEF DispatchItem, Eligible, MayDispatch
      <3>2. QED
        BY <3>1, WrittenNext
    <2>4. Producing' => Producing
      BY <2>1 DEF Producing
    <2>5. QED
      BY <1>0, <1>s, <2>1, <2>2, <2>3, <2>4 DEF StartedFits
  <1>5. CASE RerunJoined \/ JoinItem
    <2>1. /\ joins # <<>> /\ Settle(Head(joins), fate[Head(joins)]) /\ UNCHANGED <<started, rebuild, cursor>>
          /\ pc \in {"rerun", "dispatch"} /\ UNCHANGED <<log, queue>>
      BY <1>5 DEF RerunJoined, JoinItem
    <2>2. /\ stop' = "none" => stop = "none"
          /\ \A i \in Items : Written(i)' <=> Written(i)
      BY <1>0, <2>1, SettleFacts, JoinedItem DEF Written, Awaiting
    <2>3. Dispatching' => Dispatching
      BY <1>0, <1>5 DEF Dispatching, RerunJoined, JoinItem
    <2>4. ASSUME Producing', NEW i \in Items, Written(i)
          PROVE  i \in started \/ (~ Concurrent /\ stop' = "none" /\ Dispatching' /\ i >= cursor)
      <3>1. Producing
        BY <2>1, <2>4 DEF Producing
      <3>2. CASE i \notin started
        <4>1. ~ Concurrent /\ stop = "none" /\ Dispatching /\ i >= cursor
          BY <1>s, <2>4, <3>1, <3>2
        <4>2. stop' = Evaluate(Prefix(cursor)) /\ cursor > 0 /\ ~ rebuild
          BY <1>5, <2>1, <3>1, <4>1, SequentialJoin DEF Producing
        <4>3. Goes(cursor)
          BY <1>0, <2>4, <4>1, <4>2 DEF OneAtATime
        <4>4. stop' = "none"
          BY <4>2, <4>3 DEF Goes
        <4>5. Dispatching'
          BY <1>0, <1>5, <4>1, <4>4 DEF Dispatching, RerunJoined, JoinItem
        <4>6. QED
          BY <4>1, <4>4, <4>5
      <3>3. QED
        BY <3>2
    <2>5. QED
      BY <1>0, <1>s, <2>1, <2>2, <2>3, <2>4 DEF StartedFits
  <1>6. CASE SkipItem \/ GateStops
    <2>1. /\ pc = "dispatch" /\ pc' = "dispatch" /\ MayDispatch /\ cursor' = cursor + 1 /\ cursor < cfg.total
          /\ UNCHANGED <<log, queue, started, rebuild>> /\ (~ rebuild => stop = "none")
      BY <1>6 DEF SkipItem, GateStops, Eligible, MayDispatch
    <2>2. cursor \in Items /\ \A i \in Items : (i < cursor' <=> i < cursor \/ i = cursor)
      BY <1>0, <2>1, CursorFacts
    <2>3. \A i \in Items : Written(i)' <=> Written(i)
      BY <2>1 DEF Written, Awaiting
    <2>4. Dispatching /\ Dispatching' /\ (Producing' <=> ~ rebuild) /\ (Producing <=> ~ rebuild)
      BY <2>1 DEF Dispatching, Producing
    <2>5. CASE SkipItem
      <3>1. stop' = stop /\ (~ rebuild => Concurrent /\ Terminal(cursor))
        BY <2>5 DEF SkipItem
      <3>2. ~ rebuild => cursor \in started /\ Written(cursor)
        BY <2>2, <2>4, <3>1, RecordedItem
      <3>3. QED
        BY <1>0, <1>s, <2>1, <2>2, <2>3, <2>4, <3>1, <3>2 DEF StartedFits
    <2>6. CASE GateStops
      <3>1. stop' # "none"
        BY <1>0, <2>6, EvaluateFacts DEF GateStops, CustomReason
      <3>2. ~ rebuild /\ Eligible /\ PredicateCompletes(view)
        BY <2>6 DEF GateStops
      <3>3. ASSUME NEW i \in Items, Written(i), i \notin started
            PROVE  FALSE
        <4>1. ~ Concurrent /\ i >= cursor
          BY <1>s, <2>4, <3>2, <3>3
        <4>2. view = Prefix(cursor) /\ cursor >= 0
          BY <1>0, <2>2, <3>2, <4>1, SequentialDispatch
        <4>3. Goes(cursor)
          BY <1>0, <3>3, <4>1, <4>2 DEF OneAtATime
        <4>4. QED
          BY <3>2, <4>2, <4>3 DEF Goes
      <3>4. QED
        BY <1>0, <1>s, <2>1, <2>3, <3>1, <3>3 DEF StartedFits
    <2>7. QED
      BY <1>6, <2>5, <2>6
  <1>7. CASE ResolveAtCursor \/ DispatchItem
    <2>1. /\ pc = "dispatch" /\ MayDispatch /\ cursor' = cursor + 1 /\ cursor < cfg.total
          /\ started' = started \cup {cursor} /\ rebuild' = rebuild /\ (~ rebuild => stop = "none")
      BY <1>7 DEF ResolveAtCursor, DispatchItem, Eligible, MayDispatch
    <2>2. cursor \in Items /\ \A i \in Items : (i < cursor' <=> i < cursor \/ i = cursor)
      BY <1>0, <2>1, CursorFacts
    <2>3. Dispatching /\ (Producing <=> ~ rebuild)
      BY <2>1 DEF Dispatching, Producing
    <2>4. ~ rebuild => \A i, j \in Items : i < j /\ j \in started' => i \in started'
      BY <1>s, <2>1, <2>3
    <2>5. ~ rebuild => \A i \in Items : i < cursor' => cfg.flat \/ Written(i)'
      <3>1. ~ rebuild => cfg.flat \/ \A k \in Items : k = cursor => Written(k)'
        <4>1. CASE DispatchItem
          <5>1. PICK w \in Update : w = StartOf(cursor)
            BY <4>1, DispatchWrites
          <5>2. \A k \in Items : k = cursor /\ queue' = Append(queue, w) => Written(k)'
            BY <1>0, <4>1, <5>1, AppendWrites, DispatchWrites
          <5>3. \A k \in Items : queue' = queue => (Written(k)' <=> Written(k))
            BY <4>1, DispatchWrites DEF Written, Awaiting
          <5>4. QED
            BY <2>2, <4>1, <5>1, <5>2, <5>3, DispatchWrites DEF Written
        <4>2. CASE ResolveAtCursor
          <5>1. ~ rebuild => Written(cursor)
            BY <4>2, SequentialResolve
          <5>2. \A k \in Items : Written(k)' <=> Written(k)
            BY <4>2 DEF ResolveAtCursor, Written, Awaiting
          <5>3. QED
            BY <2>2, <5>1, <5>2
        <4>3. QED
          BY <1>7, <4>1, <4>2
      <3>2. \A i \in Items : Written(i) => Written(i)'
        <4>1. ~ Restart
          BY <1>0, <1>7 DEF ResolveAtCursor, DispatchItem, Restart, Eligible, MayDispatch
        <4>2. QED
          BY <4>1, WrittenNext
      <3>3. QED
        BY <1>s, <2>1, <2>2, <2>3, <3>1, <3>2
    <2>6. ASSUME ~ rebuild, NEW i \in Items, Written(i)'
          PROVE  i \in started' \/ (~ Concurrent /\ stop' = "none" /\ Dispatching' /\ i >= cursor')
      <3>1. Written(i) \/ i = cursor
        BY <2>6, WrittenNext
      <3>2. CASE i # cursor /\ i \notin started
        <4>1. ~ Concurrent /\ i >= cursor /\ Written(i)
          BY <1>s, <2>3, <2>6, <3>1, <3>2
        <4>2. i >= cursor' /\ cursor + 1 \in 0 .. i
          BY <1>0, <2>1, <2>2, <3>2, <4>1
        <4>3. Goes(cursor + 1) /\ cursor + 1 > 0
          BY <1>0, <2>2, <4>1, <4>2 DEF OneAtATime
        <4>4. stop' = "none"
          <5>1. CASE DispatchItem
            BY <2>1, <2>6, <5>1 DEF DispatchItem
          <5>2. CASE ResolveAtCursor
            BY <2>1, <2>6, <4>3, <5>2, SequentialResolve DEF Goes
          <5>3. QED
            BY <1>7, <5>1, <5>2
        <4>5. Dispatching'
          BY <1>0, <1>7, <2>1, <4>1 DEF Dispatching, DispatchItem, ResolveAtCursor, ResolveInline
        <4>6. QED
          BY <4>1, <4>2, <4>4, <4>5
      <3>3. QED
        BY <2>1, <3>2
    <2>7. stop' = "none" /\ ~ rebuild => \A i \in Items : i < cursor' => i \in started'
      BY <1>s, <2>1, <2>2, <2>3
    <2>8. Producing' => ~ rebuild
      BY <2>1 DEF Producing
    <2>9. QED
      BY <1>0, <2>1, <2>4, <2>5, <2>6, <2>7, <2>8 DEF StartedFits
  <1>8. CASE NothingInFlight
    <2>1. /\ pc = "dispatch" /\ pc' = "closing" /\ UNCHANGED <<log, queue, started, rebuild, stop>>
      BY <1>8 DEF NothingInFlight
    <2>2. ~ Dispatching' /\ Dispatching
      BY <2>1 DEF Dispatching
    <2>3. ASSUME ~ rebuild, NEW i \in Items, Written(i)
          PROVE  i \in started
      <3>1. Producing
        BY <2>1, <2>3 DEF Producing
      <3>2. stop = "none" => cursor = cfg.total
        BY <1>8, PassEnds
      <3>3. i \in 0 .. cfg.total - 1
        BY <2>3, WrittenFacts DEF Total
      <3>4. stop = "none" => ~ (i >= cursor)
        BY <1>0, <3>2, <3>3
      <3>5. QED
        BY <1>s, <2>3, <3>1, <3>4
    <2>4. \A i \in Items : Written(i)' <=> Written(i)
      BY <2>1 DEF Written, Awaiting
    <2>5. Producing' => ~ rebuild
      BY <2>1 DEF Producing
    <2>6. QED
      BY <1>0, <1>s, <2>1, <2>2, <2>3, <2>4, <2>5 DEF StartedFits
  <1>9. CASE (\E i \in Items : ItemStep(i)) \/ Writes \/ UNCHANGED vars
    <2>1. UNCHANGED <<pc, cursor, started, stop, rebuild>>
      BY <1>9 DEF ItemStep, BodyReturns, SubmitItem, ItemRecorded, Writes, SendWrite, RecordWrite,
         AnswerWrite, vars, batchVars
    <2>2. cursor' # cursor + 1 /\ ~ DispatchItem
      BY <1>0, <2>1 DEF DispatchItem
    <2>3. \A i \in Items : Written(i)' <=> Written(i)
      <3>1. CASE UNCHANGED vars
        BY <3>1 DEF vars, Written, Awaiting
      <3>2. CASE (\E i \in Items : ItemStep(i)) \/ Writes
        <4>1. restarts' = restarts
          BY <3>2 DEF ItemStep, BodyReturns, SubmitItem, ItemRecorded, Writes, SendWrite, RecordWrite, AnswerWrite
        <4>r. restarts \in Int
          BY <1>0, ConfigAssumption DEF Typed, TypeOK
        <4>2. ~ Restart
          BY <4>1, <4>r DEF Restart
        <4>3. QED
          BY <2>2, <4>2, WrittenNext
      <3>3. QED
        BY <1>9, <3>1, <3>2
    <2>4. QED
      BY <1>0, <1>s, <2>1, <2>3 DEF StartedFits, Dispatching, Producing
  <1>10. QED
    BY <1>1, <1>2, <1>3, <1>4, <1>5, <1>6, <1>7, <1>8, <1>9 DEF Next, Coordinator

(***************************************************************************)
(* The reason that stops the batch.                                        *)
(***************************************************************************)
LEMMA CountGrows ==
  ASSUME NEW u, NEW v, NEW S, NEW T, \A i \in Items : u[i] \in S => v[i] \in T
  PROVE  CountOf(u, S) \in Nat /\ CountOf(v, T) \in Nat /\ CountOf(u, S) <= CountOf(v, T)
  <1> DEFINE A == {i \in Items : u[i] \in S}
             B == {i \in Items : v[i] \in T}
  <1>1. A \subseteq B /\ A \in SUBSET Items /\ B \in SUBSET Items
    OBVIOUS
  <1>2. IsFiniteSet(B) /\ Cardinality(A) \in Nat /\ Cardinality(B) \in Nat
    BY <1>1, ItemsAreFinite
  <1>3. Cardinality(A) <= Cardinality(B)
    BY <1>1, <1>2, FS_Subset
  <1>4. QED
    BY <1>2, <1>3 DEF CountOf

\* What makes a batch fail, or complete, stays when more items settle.
LEMMA FailureGrows ==
  ASSUME cfg \in Configs, NEW u, NEW v, \A i \in Items : u[i] = "F" => v[i] = "F"
  PROVE  ShouldStopFailure(u) => ShouldStopFailure(v)
  <1>1. CountOf(u, {"F"}) \in Nat /\ CountOf(v, {"F"}) \in Nat /\ CountOf(u, {"F"}) <= CountOf(v, {"F"})
    <2>1. \A i \in Items : u[i] \in {"F"} => v[i] \in {"F"}
      OBVIOUS
    <2>2. QED
      BY <2>1, CountGrows
  <1>2. /\ cfg.tolerated # Unset => cfg.tolerated \in Nat
        /\ cfg.percent # Unset => cfg.percent \in 0 .. 100
        /\ cfg.total \in Nat
    BY ConfigFacts, ConfigAssumption
  <1>3. \A a, b \in Nat : a <= b =>
          /\ a > 0 => b > 0
          /\ cfg.tolerated # Unset /\ a > cfg.tolerated => b > cfg.tolerated
    BY <1>2
  <1>4. \A a, b \in Nat : a <= b =>
          (cfg.percent # Unset /\ a * 100 > cfg.percent * cfg.total => b * 100 > cfg.percent * cfg.total)
    <2>1. \A p, t \in Nat : p * t \in Nat
      OBVIOUS
    <2>2. cfg.percent # Unset => cfg.percent * cfg.total \in Nat
      BY <1>2, <2>1
    <2>3. \A a, b, c \in Nat : a <= b /\ a * 100 > c => b * 100 > c
      OBVIOUS
    <2>4. QED
      BY <2>2, <2>3
  <1>5. QED
    BY <1>1, <1>3, <1>4 DEF ShouldStopFailure

LEMMA MinGrows ==
  ASSUME cfg \in Configs, NEW u, NEW v, \A i \in Items : u[i] = "S" => v[i] = "S"
  PROVE  cfg.min # Unset /\ CountOf(u, {"S"}) >= cfg.min => CountOf(v, {"S"}) >= cfg.min
  <1>1. CountOf(u, {"S"}) \in Nat /\ CountOf(v, {"S"}) \in Nat /\ CountOf(u, {"S"}) <= CountOf(v, {"S"})
    <2>1. \A i \in Items : u[i] \in {"S"} => v[i] \in {"S"}
      OBVIOUS
    <2>2. QED
      BY <2>1, CountGrows
  <1>2. QED
    BY <1>1, ConfigFacts

\* Each count of a predicate is one that grows.
LEMMA PredicateGrows ==
  ASSUME cfg \in Configs, NEW u, NEW v,
         \A i \in Items : u[i] \in Settled => v[i] = u[i],
         \A i \in Items : u[i] = "-" => v[i] \in ItemStatus
  PROVE  PredicateCompletes(u) => PredicateCompletes(v)
  <1>1. SUFFICES ASSUME cfg.custom # Unset
                 PROVE  PredicateCompletes(u) => PredicateCompletes(v)
    BY DEF PredicateCompletes
  <1>2. cfg.custom.counts \in {Settled, ItemStatus, {"S"}, {"F"}} /\ cfg.custom.at \in Nat
    BY <1>1, ConfigFacts DEF Predicate
  <1>3. \A i \in Items : u[i] \in cfg.custom.counts => v[i] \in cfg.custom.counts
    BY <1>2 DEF Settled, ItemStatus
  <1>4. /\ CountOf(u, cfg.custom.counts) \in Nat /\ CountOf(v, cfg.custom.counts) \in Nat
        /\ CountOf(u, cfg.custom.counts) <= CountOf(v, cfg.custom.counts)
    BY <1>3, CountGrows
  <1>5. QED
    BY <1>2, <1>4 DEF PredicateCompletes

\* An item that settles adds to what is known.
LEMMA SettleGrows ==
  ASSUME BatchInv, NEW i \in Items, Settle(i, fate[i])
  PROVE  /\ \A j \in Items : view[j] \in Settled => view'[j] = view[j]
         /\ \A j \in Items : view[j] = "-" => view'[j] \in ItemStatus
         /\ view'[i] = fate[i] /\ fate[i] \in Settled
  <1>1. fate[i] \in Settled
    BY DEF BatchInv, Typed, TypeOK
  <1>2. view'[i] = fate[i] /\ \A j \in Items : j # i => view'[j] = view[j]
    BY <1>1, SettleFacts DEF BatchInv
  <1>3. view[i] \in Settled => view[i] = fate[i]
    BY DEF BatchInv, ViewFits
  <1>4. QED
    BY <1>1, <1>2, <1>3 DEF ItemStatus

\* The step that settles an item keeps the reason or finds one.
LEMMA SettleKeepsReason ==
  ASSUME BatchInv, NEW i \in Items, Settle(i, fate[i]), UNCHANGED <<cfg, rebuild>>
  PROVE  /\ stop' # "none" => Borne(stop)'
         /\ ~ rebuild /\ stop' = "none" => Evaluate(view') = "none"
  <1>0. cfg \in Configs /\ stop \in Reason \cup {"none"} /\ (rebuild => stop = "none")
        /\ (stop # "none" => Borne(stop)) /\ Typed
    BY DEF BatchInv, Typed, TypeOK, PlanFits, StopFits
  <1>1. /\ \A j \in Items : view[j] \in Settled => view'[j] = view[j]
        /\ \A j \in Items : view[j] = "-" => view'[j] \in ItemStatus
        /\ fate[i] \in Settled
    BY SettleGrows
  <1>2. PICK v : v = view'
    OBVIOUS
  <1>3. PICK r : r = stop'
    OBVIOUS
  <1>4. ASSUME stop # "none"
        PROVE  Borne(stop)'
    <2>1. r = stop
      BY <1>0, <1>1, <1>3, <1>4, SettleFacts
    <2>2. /\ ShouldStopFailure(view) => ShouldStopFailure(v)
          /\ PredicateCompletes(view) => PredicateCompletes(v)
          /\ cfg.min # Unset /\ CountOf(view, {"S"}) >= cfg.min => CountOf(v, {"S"}) >= cfg.min
      <3>1. /\ \A j \in Items : view[j] = "F" => v[j] = "F"
            /\ \A j \in Items : view[j] = "S" => v[j] = "S"
            /\ \A j \in Items : view[j] \in Settled => v[j] = view[j]
            /\ \A j \in Items : view[j] = "-" => v[j] \in ItemStatus
        BY <1>1, <1>2 DEF Settled
      <3>2. QED
        BY <1>0, <3>1, FailureGrows, MinGrows, PredicateGrows
    <2>3. IF r = "MinSuccessfulReached" THEN cfg.min # Unset /\ CountOf(v, {"S"}) >= cfg.min
          ELSE IF r = "FailureToleranceExceeded" THEN ShouldStopFailure(v)
          ELSE PredicateCompletes(v) /\ r = cfg.custom.gives
      BY <1>0, <1>4, <2>1, <2>2 DEF Borne
    <2>4. QED
      BY <1>2, <1>3, <2>3 DEF Borne, ShouldStopFailure, PredicateCompletes, HasCriteria, CountOf
  <1>5. ASSUME stop = "none", stop' # "none"
        PROVE  Borne(stop)'
    <2>1. r = Evaluate(v) /\ r # "none"
      BY <1>1, <1>0, <1>2, <1>3, <1>5, SettleFacts
    <2>2. /\ r \in (Reason \ {"AllCompleted"})
          /\ r = "FailureToleranceExceeded" => ShouldStopFailure(v)
          /\ r = "MinSuccessfulReached" => ShouldStopMin(v)
          /\ r \in CustomReason => PredicateCompletes(v) /\ r = cfg.custom.gives
      BY <1>0, <2>1, EvaluateFacts
    <2>3. IF r = "MinSuccessfulReached" THEN cfg.min # Unset /\ CountOf(v, {"S"}) >= cfg.min
          ELSE IF r = "FailureToleranceExceeded" THEN ShouldStopFailure(v)
          ELSE PredicateCompletes(v) /\ r = cfg.custom.gives
      BY <2>2 DEF Reason, CustomReason, ShouldStopMin
    <2>4. QED
      BY <1>2, <1>3, <2>3 DEF Borne, ShouldStopFailure, PredicateCompletes, HasCriteria, CountOf
  <1>6. ~ rebuild /\ stop' = "none" => Evaluate(view') = "none"
    BY <1>0, <1>1, SettleFacts
  <1>7. QED
    BY <1>4, <1>5, <1>6

LEMMA ReasonKept ==
  ASSUME UNCHANGED <<cfg, view, stop>>
  PROVE  /\ Borne(stop)' <=> Borne(stop)
         /\ Evaluate(view)' = Evaluate(view)
         /\ ShouldStopFailure(view)' <=> ShouldStopFailure(view)
         /\ PredicateCompletes(view)' <=> PredicateCompletes(view)
  BY DEF Borne, Evaluate, EvaluateThresholds, ShouldStopFailure, ShouldStopMin, PredicateCompletes,
     HasCriteria, CountOf

\* Before anything settles, no threshold is passed.
LEMMA NothingFails ==
  ASSUME cfg \in Configs, cfg.total = 0, NEW v, \A i \in Items : v[i] # "F"
  PROVE  ~ ShouldStopFailure(v)
  <1>1. {i \in Items : v[i] \in {"F"}} = {}
    OBVIOUS
  <1>2. CountOf(v, {"F"}) = 0
    BY <1>1, FS_EmptySet, Zenon DEF CountOf
  <1>3. cfg.tolerated # Unset => cfg.tolerated \in Nat
    BY ConfigFacts
  <1>4. QED
    BY <1>2, <1>3 DEF ShouldStopFailure

LEMMA StopFitsNext ==
  ASSUME BatchInv, [Next]_vars
  PROVE  StopFits'
  <1> USE DEF taskVars, serviceVars, history
  <1>0. /\ Typed /\ PlanFits /\ StopFits /\ PassedFits /\ TasksFit /\ ViewFits /\ cfg \in Configs
        /\ UNCHANGED <<cfg, fate>> /\ Concurrent' = Concurrent /\ stop \in Reason \cup {"none"}
        /\ task \in [Items -> {"none", "body", "returned", "writing", "delivered", "joined", "gone"}]
        /\ (rebuild => stop = "none")
    BY BatchIsKept DEF BatchInv, Typed, TypeOK, PlanFits
  <1>s. /\ stop # "none" => Borne(stop)
        /\ ~ rebuild /\ stop = "none" /\ InFlight = {} /\ (\E i \in Items : view[i] # Omitted) =>
             Evaluate(view) = "none"
        /\ ~ rebuild /\ Closing /\ stop = "none" => ~ ShouldStopFailure(view) /\ ~ PredicateCompletes(view)
    BY <1>0 DEF StopFits
  <1>1. CASE StartBatch
    <2>1. /\ view' = view /\ view = [i \in Items |-> Omitted] /\ stop = "none"
          /\ \A i \in Items : view[i] = Omitted
      BY <1>0, <1>1 DEF StartBatch, PlanFits
    <2>2. PredicateCompletes(view)' <=> PredicateCompletes(view)
      BY <1>0, <2>1 DEF PredicateCompletes, CountOf
    <2>3. CASE cfg.total = 0
      <3>1. stop' = IF PredicateCompletes(view) THEN cfg.custom.gives ELSE "none"
        BY <1>1, <2>3 DEF StartBatch
      <3>2. PredicateCompletes(view) => cfg.custom.gives \in CustomReason
        BY <1>0, EvaluateFacts
      <3>3. stop' # "none" => Borne(stop)'
        BY <1>0, <2>2, <3>1, <3>2 DEF Borne, CustomReason
      <3>4. stop' = "none" => ~ PredicateCompletes(view)
        BY <3>1, <3>2 DEF CustomReason
      <3>5. ~ ShouldStopFailure(view)
        BY <1>0, <2>1, <2>3, NothingFails DEF Omitted
      <3>6. ~ ShouldStopFailure(view)'
        BY <1>0, <2>1, <3>5 DEF ShouldStopFailure, HasCriteria, CountOf
      <3>7. QED
        BY <2>1, <2>2, <3>3, <3>4, <3>6 DEF StopFits
    <2>4. CASE cfg.total # 0
      <3>1. stop' = "none" /\ pc' \in {"replay", "dispatch"}
        BY <1>1, <2>1, <2>4 DEF StartBatch
      <3>2. QED
        BY <2>1, <3>1 DEF StopFits, Closing
    <2>5. QED
      BY <2>3, <2>4
  <1>2. CASE RebuildBatch \/ Restart
    <2>1. /\ stop' = "none"
          /\ rebuild' \/ (view' = [i \in Items |-> Omitted] /\ pc' = "start")
      BY <1>0, <1>2 DEF RebuildBatch, Restart, PlanFits
    <2>2. QED
      BY <2>1 DEF StopFits, Closing
  <1>3. ASSUME NEW i \in Items, Settle(i, fate[i]), rebuild' = rebuild, ~ Closing' \/ stop' # "none" \/ rebuild
        PROVE  StopFits'
    <2>1. /\ stop' # "none" => Borne(stop)'
          /\ ~ rebuild /\ stop' = "none" => Evaluate(view') = "none"
      BY <1>0, <1>3, SettleKeepsReason
    <2>2. Evaluate(view') = Evaluate(view)'
      BY <1>0 DEF Evaluate, EvaluateThresholds, ShouldStopFailure, ShouldStopMin, PredicateCompletes,
         HasCriteria, CountOf
    <2>3. QED
      BY <1>3, <2>1, <2>2 DEF StopFits
  <1>4. CASE ReplayItem \/ ResolveAtCursor
    <2>1. /\ cursor \in Items /\ UNCHANGED <<rebuild, log>> /\ pc \in {"replay", "dispatch"}
          /\ pc' \in {"replay", "dispatch", "rerun"}
      <3>1. cursor < cfg.total /\ UNCHANGED <<rebuild, log>> /\ pc \in {"replay", "dispatch"}
        BY <1>4 DEF ReplayItem, ResolveAtCursor, MayDispatch
      <3>2. pc' \in {"replay", "dispatch", "rerun"}
        BY <1>4, <3>1 DEF ReplayItem, ResolveAtCursor, ResolveInline
      <3>3. QED
        BY <1>0, <3>1, <3>2, CursorFacts
    <2>2. ~ Closing'
      BY <2>1 DEF Closing
    <2>3. CASE ~ Terminal(cursor)
      <3>1. UNCHANGED <<view, stop, task>>
        BY <1>4, <2>3 DEF ReplayItem, ResolveAtCursor
      <3>2. InFlight' = InFlight
        BY <3>1 DEF InFlight
      <3>3. QED
        BY <1>0, <1>s, <2>1, <2>2, <3>1, <3>2, ReasonKept DEF StopFits
    <2>4. CASE Terminal(cursor) /\ MustRerun(cursor)
      <3>1. task' = [task EXCEPT ![cursor] = "body"] /\ stop' = stop
        BY <1>4, <2>4 DEF ReplayItem, ResolveAtCursor, ResolveInline
      <3>2. InFlight' # {}
        BY <1>0, <2>1, <3>1 DEF InFlight
      <3>3. CASE view' = view
        BY <1>0, <1>s, <2>1, <2>2, <3>1, <3>2, <3>3, ReasonKept DEF StopFits
      <3>4. CASE view' # view
        <4>1. ResolveAtCursor
          BY <1>4, <2>4, <3>4 DEF ReplayItem, ResolveInline
        <4>2. stop = "none"
          BY <1>0, <4>1 DEF ResolveAtCursor, MayDispatch
        <4>3. QED
          BY <2>2, <3>1, <3>2, <4>2 DEF StopFits
      <3>5. QED
        BY <3>3, <3>4
    <2>5. CASE Terminal(cursor) /\ ~ MustRerun(cursor)
      <3>1. Settle(cursor, log.item[cursor])
        BY <1>4, <2>5 DEF ReplayItem, ResolveAtCursor, ResolveInline
      <3>2. log.item[cursor] = fate[cursor]
        BY <2>1, <2>5, RecordedItem
      <3>3. QED
        BY <1>3, <2>1, <2>2, <3>1, <3>2
    <2>6. QED
      BY <2>3, <2>4, <2>5
  <1>5. CASE RerunJoined \/ JoinItem
    <2>1. /\ joins # <<>> /\ Settle(Head(joins), fate[Head(joins)]) /\ rebuild' = rebuild
      BY <1>5 DEF RerunJoined, JoinItem
    <2>2. ~ Closing' \/ stop' # "none" \/ rebuild
      BY <1>5 DEF RerunJoined, JoinItem, Closing
    <2>3. Head(joins) \in Items
      BY <2>1, JoinedItem
    <2>4. QED
      BY <1>3, <2>1, <2>2, <2>3
  <1>6. CASE GateStops
    <2>1. /\ PredicateCompletes(view) /\ stop' = cfg.custom.gives /\ view' = view
      BY <1>6 DEF GateStops
    <2>2. stop' \in CustomReason
      BY <1>0, <2>1, EvaluateFacts
    <2>3. PredicateCompletes(view)'
      BY <1>0, <2>1 DEF PredicateCompletes, CountOf
    <2>4. Borne(stop)' /\ stop' # "none"
      BY <1>0, <2>1, <2>2, <2>3 DEF Borne, CustomReason
    <2>5. QED
      BY <2>4 DEF StopFits
  <1>7. CASE DispatchItem
    <2>1. cursor \in Items
      BY <1>0, <1>7, CursorFacts DEF DispatchItem, Eligible, MayDispatch
    <2>2. stop' = "none" /\ task' = [task EXCEPT ![cursor] = "body"] /\ pc' = "dispatch"
      BY <1>0, <1>7 DEF DispatchItem, Eligible, MayDispatch
    <2>3. InFlight' # {} /\ ~ Closing'
      BY <1>0, <2>1, <2>2 DEF InFlight, Closing
    <2>4. QED
      BY <2>2, <2>3 DEF StopFits
  <1>8. CASE NothingInFlight
    <2>1. /\ UNCHANGED <<view, stop, rebuild, task>> /\ InFlight = {} /\ pc = "dispatch"
      BY <1>8 DEF NothingInFlight
    <2>2. InFlight' = InFlight
      BY <2>1 DEF InFlight
    <2>3. ASSUME ~ rebuild, stop = "none"
          PROVE  ~ ShouldStopFailure(view) /\ ~ PredicateCompletes(view)
      <3>1. cursor = cfg.total /\ cfg.total > 0 /\ cfg.total \in 0 .. N /\ N \in Nat
        BY <1>0, <1>8, <2>1, <2>3, PassEnds, ConfigFacts, ConfigAssumption DEF PlanFits
      <3>2. 0 \in Items /\ 0 < cursor
        BY <3>1 DEF Items
      <3>3. view[0] \in Settled
        BY <1>0, <2>1, <2>3, <3>2 DEF PassedFits, Dispatching, Met
      <3>4. Evaluate(view) = "none"
        BY <1>s, <2>1, <2>3, <3>2, <3>3 DEF Settled, Omitted
      <3>5. QED
        BY <1>0, <3>4, EvaluateFacts
    <2>4. QED
      BY <1>0, <1>s, <2>1, <2>2, <2>3, ReasonKept DEF StopFits
  <1>9. CASE CloseBatch
    <2>1. UNCHANGED <<view, stop, rebuild>> /\ Closing
      BY <1>9 DEF CloseBatch, Closing
    <2>2. stop = "none" => InFlight = {}
      BY <1>0, <2>1 DEF PassedFits
    <2>3. QED
      BY <1>0, <1>s, <2>1, <2>2, ReasonKept DEF StopFits
  <1>10. CASE \/ ReplayBatchRecord \/ ReplayFromSummary \/ ReplayDone \/ SkipItem \/ SubmitOutcome
              \/ OutcomeRecorded \/ Writes \/ UNCHANGED vars
    <2>1. /\ UNCHANGED <<view, stop, rebuild, task>>
      BY <1>10 DEF ReplayBatchRecord, ReplayFromSummary, ReplayDone, SkipItem, SubmitOutcome,
         OutcomeRecorded, Writes, SendWrite, RecordWrite, AnswerWrite, vars, batchVars
    <2>2. InFlight' = InFlight
      BY <2>1 DEF InFlight
    <2>3. Closing' => Closing
      BY <1>10 DEF ReplayBatchRecord, ReplayFromSummary, ReplayDone, SkipItem, SubmitOutcome,
         OutcomeRecorded, Writes, SendWrite, RecordWrite, AnswerWrite, vars, batchVars, Closing, MayDispatch
    <2>4. QED
      BY <1>0, <1>s, <2>1, <2>2, <2>3, ReasonKept DEF StopFits
  <1>11. ASSUME NEW i \in Items, ItemStep(i)
         PROVE  StopFits'
    <2>1. /\ UNCHANGED batchVars /\ task[i] \in {"body", "returned", "writing"}
          /\ \E s \in {"returned", "writing", "delivered"} : task' = [task EXCEPT ![i] = s]
      BY <1>11 DEF ItemStep, BodyReturns, SubmitItem, ItemRecorded, Delivers
    <2>2. InFlight' = InFlight /\ (Closing' => Closing)
      BY <1>0, <2>1 DEF InFlight, Closing, batchVars
    <2>3. QED
      BY <1>0, <1>s, <2>1, <2>2, ReasonKept DEF StopFits, batchVars
  <1>12. QED
    BY <1>1, <1>2, <1>4, <1>5, <1>6, <1>7, <1>8, <1>9, <1>10, <1>11 DEF Next, Coordinator

(***************************************************************************)
(* The recorded result.                                                    *)
(***************************************************************************)
CountIn(report, statuses) == Cardinality({i \in Items : report[i] \in statuses})
FailsIn(report) ==
  IF ~ HasCriteria THEN CountIn(report, {"F"}) >= 1
  ELSE \/ cfg.tolerated # Unset /\ CountIn(report, {"F"}) >= cfg.tolerated + 1
       \/ cfg.percent # Unset /\ CountIn(report, {"F"}) * 100 > cfg.percent * cfg.total
CompletesIn(report) == cfg.custom # Unset /\ CountIn(report, cfg.custom.counts) >= cfg.custom.at
Justified(report, reason) ==
  CASE reason = "AllCompleted" -> /\ CountIn(report, Settled) = cfg.total
                                  /\ ~ FailsIn(report) /\ ~ CompletesIn(report)
    [] reason = "MinSuccessfulReached" -> cfg.min # Unset /\ CountIn(report, {"S"}) >= cfg.min
    [] reason = "FailureToleranceExceeded" -> FailsIn(report)
    [] OTHER -> CompletesIn(report) /\ reason = cfg.custom.gives

LEMMA JustifiedFacts ==
  ReasonIsJustified <=> (record.batch = "succeeded" => Justified(record.report, record.reason))
  BY DEF ReasonIsJustified, Justified, FailsIn, CompletesIn, CountIn

\* The rule over the view and the same rule over a report.
LEMMA RulesAgree ==
  ASSUME cfg \in Configs, NEW r
  PROVE  /\ FailsIn(r) <=> ShouldStopFailure(r) \/ (HasCriteria /\ cfg.percent # Unset /\ cfg.total = 0 /\ FailsIn(r))
         /\ ShouldStopFailure(r) => FailsIn(r)
         /\ CompletesIn(r) <=> PredicateCompletes(r)
         /\ \A S : CountIn(r, S) = CountOf(r, S)
  <1>1. \A S : CountIn(r, S) = CountOf(r, S)
    BY DEF CountIn, CountOf
  <1>2. CountOf(r, {"F"}) \in Nat
    BY CountGrows
  <1>3. cfg.tolerated # Unset => cfg.tolerated \in Nat
    BY ConfigFacts
  <1>4. cfg.total \in Nat
    BY ConfigFacts, ConfigAssumption
  <1>5. \A a, t \in Nat : (a > t <=> a >= t + 1) /\ (a > 0 <=> a >= 1)
    OBVIOUS
  <1>6. ~ (cfg.total > 0) <=> cfg.total = 0
    BY <1>4
  <1>7. QED
    BY <1>1, <1>2, <1>3, <1>5, <1>6 DEF FailsIn, ShouldStopFailure, CompletesIn, PredicateCompletes

\* What the outcome of a batch reports of an item.
LEMMA ReportFacts ==
  ASSUME BatchInv, ~ rebuild, NEW i \in Items
  PROVE  /\ Assembled.report[i] = IF view[i] \in Settled THEN view[i] ELSE IF i \in started THEN "-" ELSE Omitted
         /\ Assembled.report[i] \in Settled <=> view[i] \in Settled
         /\ Assembled.report[i] # Omitted <=> i \in started
         /\ view[i] = "-" => Assembled.report[i] = "-"
  <1>1. Assembled.report[i] = IF view[i] \in Settled THEN view[i] ELSE IF i \in started THEN "-" ELSE Omitted
    BY DEF Assembled
  <1>2. view[i] \in Settled => i \in started
    BY DEF BatchInv, ViewFits
  <1>3. view[i] = "-" => i \in started
    BY DEF BatchInv, ViewFits
  <1>4. QED
    BY <1>1, <1>2, <1>3 DEF Settled, Omitted

\* A batch that completed all its items reports them all, as it saw them.
LEMMA AllSettled ==
  ASSUME BatchInv, ~ rebuild, Closing, stop = "none"
  PROVE  /\ CountOf(view, Settled) = cfg.total
         /\ \A i \in Items : Assembled.report[i] = view[i]
  <1>0. /\ cfg.total \in Int /\ cfg.total >= 0 /\ Total \subseteq Items /\ \A i \in Items : i \in Int
        /\ view \in Report
    BY ConfigFacts, ConfigAssumption DEF BatchInv, Typed, TypeOK, Items
  <1>1. cursor = cfg.total /\ InFlight = {}
    BY DEF BatchInv, PassedFits
  <1>2. \A i \in Total : view[i] \in Settled
    <2>1. \A i \in Total : i < cursor /\ i \in Items
      BY <1>0, <1>1 DEF Total
    <2>2. QED
      BY <1>1, <2>1 DEF BatchInv, PassedFits, Met
  <1>3. \A i \in Items : view[i] \in Settled => i \in Total
    BY DEF BatchInv, ViewFits
  <1>4. {i \in Items : view[i] \in Settled} = 0 .. cfg.total - 1
    BY <1>0, <1>2, <1>3 DEF Total
  <1>5. Cardinality(0 .. cfg.total - 1) = cfg.total
    <2>1. 0 \in Int /\ cfg.total - 1 \in Int
      BY <1>0
    <2>2. Cardinality(0 .. cfg.total - 1) = IF 0 > cfg.total - 1 THEN 0 ELSE cfg.total - 1 - 0 + 1
      BY <2>1, FS_Interval
    <2>3. QED
      BY <1>0, <2>2
  <1>6. \A i \in Items : Assembled.report[i] = view[i]
    <2>1. ASSUME NEW i \in Items, view[i] \notin Settled
          PROVE  Assembled.report[i] = view[i]
      <3>1. i \notin started
        BY <1>2, <2>1 DEF BatchInv, ViewFits
      <3>2. view[i] = Omitted
        BY <1>0, <2>1, <3>1 DEF BatchInv, ViewFits, Report, ItemStatus
      <3>3. QED
        BY <2>1, <3>1, <3>2, ReportFacts
    <2>2. QED
      BY <2>1, ReportFacts
  <1>7. QED
    BY <1>4, <1>5, <1>6 DEF CountOf

\* The reason goes with the report when the batch records them.
LEMMA OutcomeIsJustified ==
  ASSUME BatchInv, ~ rebuild, Closing
  PROVE  Justified(Assembled.report, Completion)
  <1>0. cfg \in Configs /\ stop \in Reason \cup {"none"} /\ StopFits
    BY DEF BatchInv, Typed, TypeOK
  <1>1. PICK r : r = Assembled.report
    OBVIOUS
  <1>2. CASE stop # "none"
    <2>1. Borne(stop)
      BY <1>0, <1>2 DEF StopFits
    <2>2. /\ \A i \in Items : view[i] = "F" => r[i] = "F"
          /\ \A i \in Items : view[i] = "S" => r[i] = "S"
          /\ \A i \in Items : view[i] \in Settled => r[i] = view[i]
          /\ \A i \in Items : view[i] = "-" => r[i] \in ItemStatus
      BY <1>1, ReportFacts DEF Settled, ItemStatus
    <2>3. /\ ShouldStopFailure(view) => FailsIn(r)
          /\ PredicateCompletes(view) => CompletesIn(r)
          /\ cfg.min # Unset /\ CountOf(view, {"S"}) >= cfg.min => CountIn(r, {"S"}) >= cfg.min
      BY <1>0, <2>2, FailureGrows, PredicateGrows, MinGrows, RulesAgree
    <2>4. PredicateCompletes(view) => cfg.custom.gives \in CustomReason
      BY <1>0, EvaluateFacts
    <2>5. Completion = stop /\ stop # "AllCompleted"
      BY <1>2, <2>1, <2>4 DEF Completion, Borne, CustomReason
    <2>6. Justified(r, stop)
      BY <1>0, <2>1, <2>3, <2>5 DEF Justified, Borne
    <2>7. QED
      BY <1>1, <2>5, <2>6
  <1>3. CASE stop = "none"
    <2>1. CountOf(view, Settled) = cfg.total /\ \A i \in Items : r[i] = view[i]
      BY <1>1, <1>3, AllSettled
    <2>2. ~ ShouldStopFailure(view) /\ ~ PredicateCompletes(view)
      BY <1>0, <1>3 DEF StopFits
    <2>3. /\ CountIn(r, Settled) = CountOf(view, Settled)
          /\ ~ ShouldStopFailure(r) /\ ~ PredicateCompletes(r)
      <3>1. \A S : CountIn(r, S) = CountOf(view, S)
        BY <2>1 DEF CountIn, CountOf
      <3>2. \A i \in Items : r[i] = "F" => view[i] = "F"
        BY <2>1
      <3>3. /\ \A i \in Items : r[i] \in Settled => view[i] = r[i]
            /\ \A i \in Items : r[i] = "-" => view[i] \in ItemStatus
        BY <2>1 DEF ItemStatus
      <3>4. QED
        BY <1>0, <2>2, <3>1, <3>2, <3>3, FailureGrows, PredicateGrows
    <2>4. cfg.total = 0 => CountIn(r, {"F"}) = 0
      <3>1. ASSUME cfg.total = 0
            PROVE  {i \in Items : r[i] \in {"F"}} = {}
        <4>1. \A i \in Items : view[i] \notin Settled
          BY <3>1, ConfigFacts DEF BatchInv, ViewFits, Total
        <4>2. QED
          BY <2>1, <4>1 DEF Settled
      <3>2. QED
        BY <3>1, FS_EmptySet, Zenon DEF CountIn
    <2>5. ~ FailsIn(r)
      <3>1. ASSUME cfg.total = 0, cfg.percent # Unset, CountIn(r, {"F"}) = 0
            PROVE  ~ FailsIn(r)
        <4>1. cfg.percent \in 0 .. 100 /\ (cfg.tolerated # Unset => cfg.tolerated \in Nat)
          BY <1>0, <3>1, ConfigFacts
        <4>2. cfg.percent * cfg.total = 0
          BY <3>1, <4>1
        <4>3. QED
          BY <3>1, <4>1, <4>2 DEF FailsIn
      <3>2. QED
        BY <1>0, <2>3, <2>4, <3>1, RulesAgree
    <2>6. ~ CompletesIn(r)
      BY <1>0, <2>3, RulesAgree
    <2>7. Completion = "AllCompleted"
      BY <1>3 DEF Completion
    <2>8. Justified(r, "AllCompleted")
      BY <2>1, <2>3, <2>5, <2>6 DEF Justified
    <2>9. QED
      BY <1>1, <2>7, <2>8
  <1>4. QED
    BY <1>2, <1>3

\* An answer that repeats the record is the recorded result.
LEMMA RecordIsAnswered ==
  ASSUME BatchInv, record.batch = "succeeded", UNCHANGED <<cfg, fate, record>>,
         \/ returned' = returned
         \/ Deliver([report |-> record.report, reason |-> record.reason])
  PROVE  RecordFits'
  <1>1. RecordFits /\ Total' = Total
    BY DEF BatchInv, Total
  <1>2. OneOutcome'
    BY <1>1 DEF RecordFits, OneOutcome, Deliver
  <1>3. ItemsFit' /\ ReportIsFate' /\ ResultFitsItems'
    BY <1>1 DEF RecordFits, ItemsFit, ReportIsFate, ResultFitsItems, SummaryIsBacked, StartedArePrefix
  <1>4. ReasonIsJustified'
    BY <1>1 DEF RecordFits, ReasonIsJustified, HasCriteria
  <1>5. QED
    BY <1>2, <1>3, <1>4 DEF RecordFits

LEMMA RecordKept ==
  ASSUME BatchInv, UNCHANGED <<cfg, fate, record, returned>>
  PROVE  RecordFits'
  <1>1. RecordFits /\ Total' = Total
    BY DEF BatchInv, Total
  <1>2. ItemsFit' /\ ReportIsFate' /\ ResultFitsItems' /\ OneOutcome'
    BY <1>1 DEF RecordFits, ItemsFit, ReportIsFate, ResultFitsItems, SummaryIsBacked, StartedArePrefix, OneOutcome
  <1>3. ReasonIsJustified'
    BY <1>1 DEF RecordFits, ReasonIsJustified, HasCriteria
  <1>4. QED
    BY <1>2, <1>3 DEF RecordFits

\* The service takes the write at the head of the queue.
LEMMA WriteKeepsRecord ==
  ASSUME BatchInv, RecordWrite
  PROVE  RecordFits'
  <1> USE DEF batchVars, taskVars, history
  <1>0. /\ Typed /\ LogIsBehind /\ QueueFits /\ PlanFits /\ ViewFits /\ StartedFits /\ RecordFits
        /\ UNCHANGED <<cfg, fate, batchVars, returned>> /\ Total' = Total
    BY DEF BatchInv, RecordWrite, Total
  <1>1. /\ net = "sent" /\ record = log /\ queue # <<>> /\ log.batch # "succeeded" /\ pc # "start"
        /\ log \in Stored /\ fate \in [Items -> Settled]
    BY <1>0, LogFacts DEF RecordWrite, Typed, TypeOK, QueueFits
  <1>2. PICK w \in Update : w = Head(queue) /\ w = queue[1] /\ 1 \in DOMAIN queue
    BY <1>0, <1>1, LogFacts
  <1>3. record' = After(log, w) /\ EntryFits(1)
    BY <1>0, <1>1, <1>2 DEF RecordWrite, Applied, After, QueueFits
  <1>4. returned = {}
    BY <1>0, <1>1 DEF RecordFits, OneOutcome
  <1>5. OneOutcome'
    BY <1>0, <1>4 DEF OneOutcome
  <1>6. /\ \A i \in Items : log.item[i] # "none" => i \in Total /\ ~ cfg.flat
        /\ \A i \in Items : log.item[i] \in Settled => log.item[i] = fate[i]
        /\ \A i, j \in Items : i < j /\ log.item[j] # "none" => log.item[i] # "none" \/ cfg.flat
    BY <1>0, <1>1 DEF RecordFits, ItemsFit, ResultFitsItems, StartedArePrefix
  <1>7. CASE w = BatchStart
    <2>1. record'.item = log.item /\ record'.batch = "started"
      BY <1>1, <1>3, <1>7, AfterFacts
    <2>2. ItemsFit' /\ ReportIsFate' /\ ReasonIsJustified'
      BY <1>0, <1>6, <2>1 DEF ItemsFit, ReportIsFate, ReasonIsJustified
    <2>3. ResultFitsItems'
      BY <1>0, <1>6, <2>1 DEF ResultFitsItems, SummaryIsBacked, StartedArePrefix
    <2>4. QED
      BY <1>5, <2>2, <2>3 DEF RecordFits
  <1>8. CASE w \in ItemWrite
    <2>1. /\ w.of \in Items /\ w = [of |-> w.of, action |-> w.action] /\ w.action \in {"START"} \cup Settled
          /\ record'.batch = log.batch
          /\ record'.item[w.of] = IF w.action = "START" THEN "started" ELSE w.action
          /\ \A i \in Items : i # w.of => record'.item[i] = log.item[i]
      BY <1>1, <1>3, <1>8, AfterFacts, UpdateFacts
    <2>2. ItemWriteFits(w)
      BY <1>2, <1>3, <1>8 DEF EntryFits
    <2>3. w.of \in Total /\ ~ cfg.flat
      <3>1. CASE w.action = "START"
        <4>1. Awaiting(w.of)
          BY <1>2, <2>1, <3>1 DEF Awaiting, StartOf
        <4>2. QED
          BY <2>1, <4>1, AwaitingFacts
      <3>2. CASE w.action # "START"
        BY <1>6, <2>1, <2>2, <3>2 DEF ItemWriteFits
      <3>3. QED
        BY <3>1, <3>2
    <2>4. w.action # "START" => w.action = fate[w.of]
      BY <2>2 DEF ItemWriteFits
    <2>5. ASSUME NEW i \in Items, NEW j \in Items, i < j, record'.item[j] # "none"
          PROVE  record'.item[i] # "none"
      <3>1. CASE j # w.of
        BY <1>6, <2>1, <2>3, <2>5, <3>1 DEF Settled
      <3>2. CASE j = w.of /\ w.action = "START"
        <4>1. queue[1] = StartOf(j)
          BY <1>2, <2>1, <3>2 DEF StartOf
        <4>2. ~ \E m \in DOMAIN queue : m < 1
          BY <1>0 DEF Typed
        <4>3. log.item[i] # "none"
          BY <1>0, <1>2, <2>5, <4>1, <4>2 DEF StartedFits, StartsAreOrdered
        <4>4. i # w.of
          BY <2>5, <3>2, ConfigAssumption DEF Items
        <4>5. QED
          BY <2>1, <4>3, <4>4
      <3>3. CASE j = w.of /\ w.action # "START"
        <4>1. log.item[j] # "none"
          BY <2>2, <3>3 DEF ItemWriteFits
        <4>2. QED
          BY <1>6, <2>1, <2>3, <2>5, <4>1 DEF Settled
      <3>4. QED
        BY <3>1, <3>2, <3>3
    <2>6. ItemsFit'
      <3>1. ASSUME NEW i \in Items, record'.item[i] # "none"
            PROVE  i \in Total /\ ~ cfg.flat
        BY <1>6, <2>1, <2>3, <3>1
      <3>2. ASSUME NEW i \in Items, record'.item[i] \in Settled
            PROVE  record'.item[i] = fate[i]
        BY <1>6, <2>1, <2>4, <3>2 DEF Settled
      <3>3. QED
        BY <1>0, <3>1, <3>2 DEF ItemsFit
    <2>7. ReportIsFate' /\ ReasonIsJustified' /\ SummaryIsBacked'
      BY <1>1, <2>1 DEF ReportIsFate, ReasonIsJustified, SummaryIsBacked
    <2>8. StartedArePrefix'
      BY <1>1, <2>1, <2>5 DEF StartedArePrefix
    <2>9. QED
      BY <1>5, <2>6, <2>7, <2>8 DEF RecordFits, ResultFitsItems
  <1>9. CASE w \in BatchWrite
    <2>1. /\ record'.item = log.item /\ record'.batch = "succeeded"
          /\ record'.report = w.report /\ record'.reason = w.reason
      BY <1>1, <1>3, <1>9, AfterFacts
    <2>2. pc = "recording" /\ w.report = Assembled.report /\ w.reason = Completion
      BY <1>2, <1>3, <1>9 DEF EntryFits, BatchWriteFits
    <2>3. ~ rebuild /\ Closing /\ Producing /\ ~ Dispatching
      BY <1>0, <2>2 DEF PlanFits, Closing, Producing, Dispatching
    <2>4. PICK r : r = Assembled.report /\ record'.report = r
      BY <2>1, <2>2
    <2>5. /\ \A i \in Items : r[i] \in Settled => r[i] = view[i]
          /\ \A i \in Items : r[i] # Omitted <=> i \in started
      BY <2>3, <2>4, ReportFacts
    <2>6. \A i \in Items : log.item[i] # "none" => i \in started
      BY <1>0, <2>3 DEF StartedFits, Written
    <2>7. \A i, j \in Items : i < j /\ j \in started => i \in started
      BY <1>0, <2>3 DEF StartedFits
    <2>8. /\ \A i \in Items : r[i] \in Settled => r[i] = fate[i] /\ i \in Total
          /\ \A i \in Items : r[i] \in Settled /\ ~ cfg.flat => log.item[i] = r[i]
      BY <1>0, <2>5 DEF ViewFits
    <2>9. ItemsFit' /\ ReportIsFate' /\ SummaryIsBacked'
      BY <1>0, <1>6, <2>1, <2>4, <2>8 DEF ItemsFit, ReportIsFate, SummaryIsBacked
    <2>10. StartedArePrefix'
      BY <1>0, <1>6, <2>1, <2>4, <2>5, <2>6, <2>7 DEF StartedArePrefix
    <2>11. ReasonIsJustified'
      <3>1. Justified(r, Completion)
        BY <2>3, <2>4, OutcomeIsJustified
      <3>2. PICK c : c = Completion
        OBVIOUS
      <3>3. record'.reason = c /\ Justified(r, c)
        BY <2>1, <2>2, <3>1, <3>2
      <3>4. QED
        BY <1>0, <2>1, <2>4, <3>3 DEF ReasonIsJustified, Justified, FailsIn, CompletesIn, CountIn, HasCriteria
    <2>12. QED
      BY <1>5, <2>9, <2>10, <2>11 DEF RecordFits, ResultFitsItems
  <1>10. QED
    BY <1>7, <1>8, <1>9 DEF Update

LEMMA RecordFitsNext ==
  ASSUME BatchInv, [Next]_vars
  PROVE  RecordFits'
  <1> USE DEF taskVars, serviceVars, history
  <1>0. /\ Typed /\ LogIsBehind /\ QueueFits /\ PlanFits /\ ViewFits /\ PassedFits /\ RecordFits
        /\ UNCHANGED <<cfg, fate>> /\ log \in Stored
    BY BatchIsKept DEF BatchInv, Typed, TypeOK
  <1>1. CASE ReplayBatchRecord
    <2>1. record = log /\ log.batch = "succeeded" /\ record' = record
          /\ Deliver([report |-> log.report, reason |-> log.reason])
      BY <1>0, <1>1, LogFacts DEF ReplayBatchRecord
    <2>2. QED
      BY <1>0, <2>1, RecordIsAnswered
  <1>2. CASE ReplayFromSummary
    <2>1. record = log /\ log.batch = "succeeded" /\ record' = record /\ ~ cfg.flat
      BY <1>0, <1>2, LogFacts DEF ReplayFromSummary
    <2>2. \A i \in Items : Admits(i) => log.item[i] = log.report[i]
      BY <1>0, <2>1 DEF Admits, RecordFits, ResultFitsItems, SummaryIsBacked
    <2>3. [i \in Items |-> IF Admits(i) THEN log.item[i] ELSE log.report[i]] = log.report
      BY <1>0, <2>2 DEF Stored, Report
    <2>4. Deliver([report |-> log.report, reason |-> log.reason])
      BY <1>2, <2>3, Zenon DEF ReplayFromSummary
    <2>5. QED
      BY <1>0, <2>1, <2>4, RecordIsAnswered
  <1>3. CASE CloseBatch
    <2>1. CASE ~ rebuild
      BY <1>0, <1>3, <2>1, RecordKept DEF CloseBatch
    <2>2. CASE rebuild
      <3>1. /\ record = log /\ log.batch = "succeeded" /\ record' = record
            /\ \A i \in Items : Admits(i) => log.report[i] = fate[i] /\ i \in Total
        BY <1>0, <1>3, <2>2, PlanIsRecorded DEF CloseBatch
      <3>2. stop = "none" /\ Closing
        BY <1>0, <1>3, <2>2 DEF PlanFits, CloseBatch, Closing
      <3>3. cursor = cfg.total /\ InFlight = {}
        BY <1>0, <3>2 DEF PassedFits
      <3>4. ASSUME NEW i \in Items, Admits(i)
            PROVE  view[i] \in Settled /\ view[i] = log.report[i]
        <4>1. i \in 0 .. cfg.total - 1 /\ log.report[i] = fate[i] /\ cfg.total \in Int
          BY <1>0, <3>1, <3>4, ConfigFacts, ConfigAssumption DEF Total, Typed, TypeOK
        <4>2. i < cursor
          BY <3>3, <4>1
        <4>3. view[i] \in Settled
          BY <1>0, <3>2, <3>3, <3>4, <4>2 DEF PassedFits, Met
        <4>4. QED
          BY <1>0, <4>1, <4>3 DEF ViewFits
      <3>5. ASSUME NEW i \in Items, view[i] \in Settled
            PROVE  Admits(i)
        BY <1>0, <2>2, <3>5 DEF ViewFits
      <3>6. \A i \in Items : (IF view[i] \in Settled THEN view[i]
                              ELSE IF Admits(i) THEN Omitted ELSE log.report[i]) = log.report[i]
        BY <3>4, <3>5
      <3>7. Assembled.report = log.report
        <4>1. Assembled.report = [i \in Items |-> IF view[i] \in Settled THEN view[i]
                                                  ELSE IF Admits(i) THEN Omitted ELSE log.report[i]]
          BY <2>2 DEF Assembled
        <4>2. log.report = [i \in Items |-> log.report[i]]
          BY <1>0 DEF Stored, Report
        <4>3. QED
          BY <3>6, <4>1, <4>2
      <3>8. Assembled.reason = log.reason
        BY <2>2 DEF Assembled
      <3>9. Assembled = [report |-> record.report, reason |-> record.reason]
        BY <1>0, <3>1, <3>7, <3>8, AssembledFacts
      <3>10. Deliver([report |-> record.report, reason |-> record.reason])
        BY <1>3, <2>2, <3>9 DEF CloseBatch
      <3>11. QED
        BY <1>0, <3>1, <3>10, RecordIsAnswered
    <2>3. QED
      BY <2>1, <2>2
  <1>4. CASE OutcomeRecorded
    <2>1. record = log /\ log.batch = "succeeded" /\ record' = record /\ Deliver(Assembled) /\ pc = "recording"
      BY <1>0, <1>4, LogFacts DEF OutcomeRecorded
    <2>2. log.report = Assembled.report /\ log.reason = Completion /\ ~ rebuild
      BY <1>0, <2>1 DEF PlanFits
    <2>3. Assembled.reason = Completion
      BY <2>2 DEF Assembled
    <2>4. Deliver([report |-> record.report, reason |-> record.reason])
      BY <1>0, <2>1, <2>2, <2>3, AssembledFacts
    <2>5. QED
      BY <1>0, <2>1, <2>4, RecordIsAnswered
  <1>5. CASE RecordWrite
    BY <1>5, WriteKeepsRecord
  <1>6. CASE \/ StartBatch \/ RebuildBatch \/ ReplayItem \/ ReplayDone \/ RerunJoined \/ SkipItem
             \/ ResolveAtCursor \/ GateStops \/ DispatchItem \/ JoinItem \/ NothingInFlight
             \/ SubmitOutcome \/ (\E i \in Items : ItemStep(i)) \/ SendWrite \/ AnswerWrite
             \/ Restart \/ UNCHANGED vars
    <2>1. UNCHANGED <<record, returned>>
      BY <1>6 DEF StartBatch, RebuildBatch, ReplayItem, ReplayDone, RerunJoined, SkipItem, ResolveAtCursor,
         GateStops, DispatchItem, JoinItem, NothingInFlight, SubmitOutcome, ItemStep, BodyReturns,
         SubmitItem, ItemRecorded, SendWrite, AnswerWrite, Restart, vars
    <2>2. QED
      BY <1>0, <2>1, RecordKept
  <1>7. QED
    BY <1>1, <1>2, <1>3, <1>4, <1>5, <1>6 DEF Next, Coordinator, Writes

(***************************************************************************)
(* The theorems.                                                           *)
(***************************************************************************)
LEMMA BatchInvInit ==
  Init => BatchInv
  <1> SUFFICES ASSUME Init
               PROVE  BatchInv
    OBVIOUS
  <1>0. /\ record = NothingStored /\ log = NothingStored /\ queue = <<>> /\ net = "idle" /\ pc = "start"
        /\ rebuild = FALSE /\ closed = FALSE /\ stop = "none" /\ cursor = 0 /\ started = {}
        /\ view = [i \in Items |-> Omitted] /\ task = [i \in Items |-> "none"] /\ joins = <<>>
        /\ decided = {} /\ returned = {} /\ cfg \in Configs /\ fate \in [Items -> Settled]
    BY DEF Init
  <1>1. /\ NothingStored \in Stored /\ NothingStored.batch = "none"
        /\ \A i \in Items : NothingStored.item[i] = "none"
    BY DEF NothingStored, Stored, Report, Reason, Omitted
  <1>2. Typed
    <2>1. cfg.total \in 0 .. N /\ 0 \in 0 .. cfg.total /\ MaxRestarts \in 0 .. MaxRestarts
      BY <1>0, ConfigFacts, ConfigAssumption
    <2>2. [i \in Items |-> Omitted] \in Report
      BY DEF Report, Omitted
    <2>3. queue \in Seq(Update) /\ joins \in Seq(Items)
      BY <1>0
    <2>4. /\ task \in [Items -> {"none", "body", "returned", "writing", "delivered", "joined", "gone"}]
          /\ \A n \in DOMAIN queue : queue[n] \in ItemWrite \cup BatchWrite \cup {BatchStart}
          /\ restarts \in 0 .. MaxRestarts
      BY <1>0, <2>1 DEF Init
    <2>5. QED
      BY <1>0, <1>1, <2>1, <2>2, <2>3, <2>4 DEF Typed, TypeOK
  <1>3. InFlight = {} /\ \A i \in Items : ~ Written(i)
    BY <1>0, <1>1 DEF InFlight, Written, Awaiting
  <1>4. LogIsBehind /\ QueueFits
    BY <1>0, <1>1 DEF LogIsBehind, QueueFits
  <1>5. PlanFits
    BY <1>0, <1>3 DEF PlanFits, Producing
  <1>6. TasksFit
    BY <1>0, <1>3 DEF TasksFit, TaskFits, TaskIsTimely, Replaying, Dispatching
  <1>7. ViewFits /\ PassedFits
    BY <1>0 DEF ViewFits, PassedFits, Replaying, Dispatching, Closing, Omitted, Settled
  <1>8. StartedFits /\ OneAtATime
    BY <1>0, <1>3 DEF StartedFits, StartsAreOrdered, OneAtATime, Dispatching, Producing
  <1>9. StopFits
    BY <1>0 DEF StopFits, Closing
  <1>10. RecordFits
    BY <1>0, <1>1 DEF RecordFits, ItemsFit, ReportIsFate, ResultFitsItems, SummaryIsBacked,
       StartedArePrefix, ReasonIsJustified, OneOutcome, Settled
  <1>11. QED
    BY <1>2, <1>4, <1>5, <1>6, <1>7, <1>8, <1>9, <1>10 DEF BatchInv

LEMMA BatchInvNext ==
  BatchInv /\ [Next]_vars => BatchInv'
  <1> SUFFICES ASSUME BatchInv, [Next]_vars
               PROVE  BatchInv'
    OBVIOUS
  <1>1. Typed'
    BY TypedNext DEF BatchInv
  <1>2. LogIsBehind' /\ QueueFits' /\ PlanFits' /\ TasksFit'
    BY LogIsBehindNext, QueueFitsNext, PlanFitsNext, TasksFitNext
  <1>3. ViewFits' /\ PassedFits' /\ StartedFits' /\ OneAtATime'
    BY ViewFitsNext, PassedFitsNext, StartedFitsNext, OneAtATimeNext
  <1>4. StopFits' /\ RecordFits'
    BY StopFitsNext, RecordFitsNext
  <1>5. QED
    BY <1>1, <1>2, <1>3, <1>4 DEF BatchInv

LEMMA BatchInvAlways ==
  Spec => []BatchInv
  BY BatchInvInit, BatchInvNext, PTL DEF Spec

\* The coordinator's bookkeeping (`cursor`, tracker, join set, scope) stays
\* well formed for any number of items and any configuration.
THEOREM BatchIsTyped ==
  Spec => []TypeOK
  <1>1. BatchInv => TypeOK
    BY DEF BatchInv, Typed
  <1>2. QED
    BY <1>1, BatchInvAlways, PTL

\* The service refuses no write of a batch: an item is started once and
\* finished once in however many invocations, after the batch started and
\* before it ended, whichever of its items were abandoned.
THEOREM BatchWritesAreValid ==
  Spec => []NeverRejected
  <1>1. BatchInv => NeverRejected
    <2>1. SUFFICES ASSUME BatchInv, net = "sent"
                   PROVE  LET w == Head(queue)
                          IN  IF w = BatchStart THEN record.batch = "none"
                              ELSE /\ record.batch = "started"
                                   /\ w.of # Batch =>
                                        record.item[w.of] = (IF w.action = "START" THEN "none" ELSE "started")
      BY DEF NeverRejected
    <2>2. /\ queue # <<>> /\ record = log /\ log.batch # "succeeded" /\ Typed /\ QueueFits
          /\ pc # "start" /\ log.batch \in {"none", "started", "succeeded"}
      BY <2>1, LogFacts DEF BatchInv, Typed, TypeOK, QueueFits, Stored
    <2>3. PICK w \in Update : w = Head(queue) /\ w = queue[1] /\ 1 \in DOMAIN queue
      BY <2>1, <2>2, LogFacts DEF BatchInv
    <2>4. EntryFits(1) /\ (w # BatchStart => log.batch = "started")
      BY <2>2, <2>3 DEF QueueFits
    <2>5. CASE w = BatchStart
      BY <2>2, <2>3, <2>4, <2>5 DEF EntryFits
    <2>6. CASE w \in BatchWrite
      BY <2>2, <2>3, <2>4, <2>6, UpdateFacts
    <2>7. CASE w \in ItemWrite
      <3>1. ItemWriteFits(w) /\ w # BatchStart
        BY <2>3, <2>4, <2>7, UpdateFacts DEF EntryFits
      <3>2. QED
        BY <2>2, <2>3, <2>4, <3>1 DEF ItemWriteFits
    <2>8. QED
      BY <2>5, <2>6, <2>7 DEF Update
  <1>2. QED
    BY <1>1, BatchInvAlways, PTL

\* The recorded result and the records of the items fit: a replay by summary
\* finds the record of every item the result counts, the items started in
\* all invocations are a prefix of the input, and the result leaves none of
\* them out (`replay_batch_from_record`, `BatchDecisionRecord`).
THEOREM ResultsFitItems ==
  Spec => []ResultFitsItems
  <1>1. BatchInv => ResultFitsItems
    BY DEF BatchInv, RecordFits
  <1>2. QED
    BY <1>1, BatchInvAlways, PTL

\* The recorded reason is one that the recorded report bears out, in
\* whichever order and invocations the items settled (`CompletionTracker`).
THEOREM ReasonsAreJustified ==
  Spec => []ReasonIsJustified
  <1>1. BatchInv => ReasonIsJustified
    BY DEF BatchInv, RecordFits
  <1>2. QED
    BY <1>1, BatchInvAlways, PTL

\* Every invocation that answers the handler answers the recorded result,
\* live or by any of the three replays (`run_batch`, `ReplayPlan`).
THEOREM BatchOutcomeIsOne ==
  Spec => []OneOutcome
  <1>1. BatchInv => OneOutcome
    BY DEF BatchInv, RecordFits
  <1>2. QED
    BY <1>1, BatchInvAlways, PTL
=============================================================================
