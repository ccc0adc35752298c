---------------------------- MODULE DurableBatch ----------------------------
(***************************************************************************)
(* A `map` or `parallel` (map_parallel.rs) across invocations that end at  *)
(* any point: ordered admission under a concurrency bound, the completion  *)
(* rule, early completion with its abandoned items, the recording of the   *)
(* outcome, and its replay: from the batch record, from the summary and    *)
(* the items' records, or by running the recorded items again.             *)
(*                                                                         *)
(* Bodies and results repeat in every invocation, as replay requires of    *)
(* the handler: `fate` is what an item's body returns, `cfg.heavy` the     *)
(* items whose value is too large for their record.                        *)
(***************************************************************************)
EXTENDS Integers, Sequences, FiniteSets

CONSTANTS
  N,           \* the items are 0 .. N-1
  Configs,     \* the batches: items, concurrency, completion rule, nesting
  Unset,       \* an option that is not configured
  MaxRestarts  \* bound: invocations that end while the batch is at work

Items == 0 .. N - 1
Batch == -1                            \* the batch among its items
Settled == {"S", "F"}                  \* Succeeded, Failed
ItemStatus == {"-"} \cup Settled       \* "-" is Started
Reason == {"AllCompleted", "MinSuccessfulReached", "FailureToleranceExceeded",
           "CustomCompletionSucceeded", "CustomCompletionFailed"}
CustomReason == {"CustomCompletionSucceeded", "CustomCompletionFailed"}
\* A completion predicate that is monotonic: it completes the batch once
\* `at` items have a status among `counts`.
Predicate == [counts : {Settled, ItemStatus, {"S"}, {"F"}}, at : Nat, gives : CustomReason]
Config ==
  [total : 0 .. N, concurrency : (Nat \ {0}) \cup {Unset}, min : Nat \cup {Unset},
   tolerated : Nat \cup {Unset}, percent : (0 .. 100) \cup {Unset},
   custom : Predicate \cup {Unset}, flat : BOOLEAN, heavy : SUBSET Items]

\* Thresholds and a predicate cannot both be configured.
ASSUME ConfigAssumption ==
  /\ N \in Nat /\ MaxRestarts \in Nat /\ Unset \notin Nat \cup Predicate
  /\ Configs \subseteq Config
  /\ \A c \in Configs :
       c.custom # Unset => c.min = Unset /\ c.tolerated = Unset /\ c.percent = Unset

VARIABLES
  cfg,       \* the batch
  fate,      \* what the body of each item returns
  record,    \* the service: [item, batch, report, reason, big]
  log,       \* this invocation's copy of it
  queue,     \* the writes on their way, in submission order
  net,       \* the head of the queue: "idle", "sent" or "recorded"
  pc,        \* where the coordinator of the batch is
  cursor,    \* next_index
  view,      \* CompletionTracker::items and BatchProgress::results
  started,   \* BatchProgress::started
  stop,      \* CompletionTracker::stop_reason
  rebuild,   \* whether a replay plan is obeyed
  task,      \* the task of each item
  joins,     \* outcomes delivered to the join set
  closed,    \* whether the batch scope closed
  restarts,  \* what is left of MaxRestarts
  decided,   \* history: the reasons invocations completed with
  returned   \* history: the results the handler got

batchVars == <<pc, cursor, view, started, stop, rebuild, closed>>
taskVars == <<task, joins>>
serviceVars == <<record, log, queue, net>>
history == <<restarts, decided, returned>>
vars == <<cfg, fate, serviceVars, batchVars, taskVars, history>>

Omitted == "none"                      \* an index the result leaves out
Report == [Items -> ItemStatus \cup {Omitted}]
Stored ==
  [item : [Items -> {"none", "started"} \cup Settled], batch : {"none", "started", "succeeded"},
   report : Report, reason : Reason, big : BOOLEAN]
NothingStored ==
  [item |-> [i \in Items |-> "none"], batch |-> "none",
   report |-> [i \in Items |-> Omitted], reason |-> "AllCompleted", big |-> FALSE]

\* Writes: the START and the outcome of an item, and those of the batch.
ItemWrite == [of : Items, action : {"START"} \cup Settled]
BatchStart == [of |-> Batch, action |-> "START"]
BatchWrite == [of : {Batch}, report : Report, reason : Reason, big : BOOLEAN]

TypeOK ==
  /\ cfg \in Configs /\ fate \in [Items -> Settled]
  /\ record \in Stored /\ log \in Stored
  /\ \A n \in DOMAIN queue : queue[n] \in ItemWrite \cup BatchWrite \cup {BatchStart}
  /\ net \in {"idle", "sent", "recorded"} /\ (net # "idle" => queue # <<>>)
  /\ pc \in {"start", "replay", "dispatch", "rerun", "closing", "outcome", "recording", "returned"}
  /\ cursor \in 0 .. cfg.total
  /\ view \in Report /\ started \subseteq Items
  /\ stop \in Reason \cup {"none"} /\ rebuild \in BOOLEAN /\ closed \in BOOLEAN
  /\ task \in [Items -> {"none", "body", "returned", "writing", "delivered", "joined", "gone"}]
  /\ joins \in Seq(Items) /\ restarts \in 0 .. MaxRestarts
  /\ decided \subseteq Reason
  /\ returned \subseteq [report : Report, reason : Reason]

Init ==
  /\ cfg \in Configs /\ fate \in [Items -> Settled]
  /\ record = NothingStored /\ log = NothingStored /\ queue = <<>> /\ net = "idle"
  /\ pc = "start" /\ cursor = 0 /\ view = [i \in Items |-> Omitted]
  /\ started = {} /\ stop = "none" /\ rebuild = FALSE /\ closed = FALSE
  /\ task = [i \in Items |-> "none"] /\ joins = <<>>
  /\ restarts = MaxRestarts /\ decided = {} /\ returned = {}

(***************************************************************************)
(* The completion rule.                                                    *)
(***************************************************************************)
CountOf(v, statuses) == Cardinality({i \in Items : v[i] \in statuses})

HasCriteria ==
  cfg.min # Unset \/ cfg.tolerated # Unset \/ cfg.percent # Unset \/ cfg.custom # Unset

ShouldStopFailure(v) ==
  LET failed == CountOf(v, {"F"})
  IN  IF ~ HasCriteria THEN failed > 0
      ELSE \/ cfg.tolerated # Unset /\ failed > cfg.tolerated
           \/ cfg.percent # Unset /\ cfg.total > 0 /\ failed * 100 > cfg.percent * cfg.total

ShouldStopMin(v) == cfg.min # Unset /\ CountOf(v, {"S"}) >= cfg.min

PredicateCompletes(v) == cfg.custom # Unset /\ CountOf(v, cfg.custom.counts) >= cfg.custom.at

\* Mutant: the minimum counts failures too.
EvaluateThresholdsEarly(v) ==
  IF ShouldStopFailure(v) THEN "FailureToleranceExceeded"
  ELSE IF cfg.min # Unset /\ CountOf(v, Settled) >= cfg.min THEN "MinSuccessfulReached"
  ELSE "none"

EvaluateThresholds(v) ==
  IF ShouldStopFailure(v) THEN "FailureToleranceExceeded"
  ELSE IF CountOf(v, Settled) < cfg.total /\ ShouldStopMin(v) THEN "MinSuccessfulReached"
  ELSE "none"

Evaluate(v) ==
  IF EvaluateThresholds(v) # "none" THEN EvaluateThresholds(v)
  ELSE IF PredicateCompletes(v) THEN cfg.custom.gives ELSE "none"

\* One item settles: the first trigger that fires stays.
Settle(i, status) ==
  /\ view' = [view EXCEPT ![i] = status]
  /\ stop' = IF rebuild \/ stop # "none" THEN stop ELSE Evaluate(view')

(***************************************************************************)
(* The coordinator of the batch, from its start step to the dispatch loop. *)
(***************************************************************************)
Concurrent == (IF cfg.concurrency = Unset THEN cfg.total ELSE cfg.concurrency) > 1
Width == IF cfg.concurrency = Unset THEN cfg.total ELSE cfg.concurrency

\* The replay plan: which indexes the recorded outcome started and completed.
Admits(i) == log.report[i] \in Settled
Terminal(i) == log.item[i] \in Settled /\ (rebuild => Admits(i))
Recorded(i) == log.item[i] # "none" /\ (rebuild => Admits(i))

\* A terminal item is rebuilt by running it again when its value is missing.
MustRerun(i) == i \in cfg.heavy /\ log.item[i] = "S"

Deliver(result) == returned' = returned \cup {result}

\* Mutant: items of earlier invocations do not count as started.
StartBatchForgetsStarted ==
  /\ pc = "start" /\ log.batch # "succeeded"
  /\ queue' = IF log.batch = "none" THEN Append(queue, BatchStart) ELSE queue
  /\ IF cfg.total = 0
       THEN /\ stop' = IF PredicateCompletes(view) THEN cfg.custom.gives ELSE "none"
            /\ pc' = "closing" /\ UNCHANGED started
       ELSE /\ started' = IF Concurrent THEN {} ELSE {}
            /\ pc' = IF Concurrent THEN "replay" ELSE "dispatch"
            /\ UNCHANGED stop
  /\ UNCHANGED <<cfg, fate, record, log, net, cursor, view, rebuild, closed, taskVars, history>>

\* Without a record, or with one that is not terminal, the batch is produced.
StartBatch ==
  /\ pc = "start" /\ log.batch # "succeeded"
  /\ queue' = IF log.batch = "none" THEN Append(queue, BatchStart) ELSE queue
  /\ IF cfg.total = 0
       THEN /\ stop' = IF PredicateCompletes(view) THEN cfg.custom.gives ELSE "none"
            /\ pc' = "closing" /\ UNCHANGED started
       ELSE /\ started' = IF Concurrent THEN {i \in Items : log.item[i] # "none"} ELSE {}
            /\ pc' = IF Concurrent THEN "replay" ELSE "dispatch"
            /\ UNCHANGED stop
  /\ UNCHANGED <<cfg, fate, record, log, net, cursor, view, rebuild, closed, taskVars, history>>

\* A result that fits its record, or one that its items' records complete.
ReplayBatchRecord ==
  /\ pc = "start" /\ log.batch = "succeeded" /\ ~ log.big
  /\ pc' = "returned" /\ Deliver([report |-> log.report, reason |-> log.reason])
  /\ UNCHANGED <<cfg, fate, serviceVars, cursor, view, started, stop, rebuild, closed, taskVars,
                 restarts, decided>>

\* Mutant: the records of items that were not joined are read as well.
ReplayFromSummaryReadsAll ==
  /\ pc = "start" /\ log.batch = "succeeded" /\ log.big /\ ~ cfg.flat
  /\ \A i \in Items : Admits(i) => ~ MustRerun(i)
  /\ pc' = "returned"
  /\ Deliver([report |-> [i \in Items |-> IF log.item[i] \in Settled THEN log.item[i] ELSE log.report[i]],
              reason |-> log.reason])
  /\ UNCHANGED <<cfg, fate, serviceVars, cursor, view, started, stop, rebuild, closed, taskVars,
                 restarts, decided>>

ReplayFromSummary ==
  /\ pc = "start" /\ log.batch = "succeeded" /\ log.big /\ ~ cfg.flat
  /\ \A i \in Items : Admits(i) => ~ MustRerun(i)
  /\ pc' = "returned"
  /\ Deliver([report |-> [i \in Items |-> IF Admits(i) THEN log.item[i] ELSE log.report[i]],
              reason |-> log.reason])
  /\ UNCHANGED <<cfg, fate, serviceVars, cursor, view, started, stop, rebuild, closed, taskVars,
                 restarts, decided>>

RebuildBatch ==
  /\ pc = "start" /\ log.batch = "succeeded" /\ log.big
  /\ cfg.flat \/ \E i \in Items : Admits(i) /\ MustRerun(i)
  /\ rebuild' = TRUE
  /\ started' = IF Concurrent THEN {i \in Items : Admits(i) /\ log.item[i] # "none"} ELSE {}
  /\ pc' = IF Concurrent THEN "replay" ELSE "dispatch"
  /\ UNCHANGED <<cfg, fate, serviceVars, cursor, view, stop, closed, taskVars, history>>

\* `resolve_terminal_inline`: a recorded outcome settles at once, or after
\* the item ran again with nothing else in flight.
ResolveInline(i, marked, then) ==
  IF MustRerun(i)
    THEN /\ task' = [task EXCEPT ![i] = "body"] /\ pc' = "rerun"
         /\ view' = marked /\ UNCHANGED <<stop, joins>>
    ELSE Settle(i, log.item[i]) /\ pc' = then /\ UNCHANGED taskVars

\* The replay pass: every recorded outcome, in input order.
ReplayItem ==
  /\ pc = "replay" /\ cursor < cfg.total /\ cursor' = cursor + 1
  /\ IF Terminal(cursor)
       THEN ResolveInline(cursor, view, "replay")
       ELSE UNCHANGED <<pc, view, stop, taskVars>>
  /\ UNCHANGED <<cfg, fate, serviceVars, started, rebuild, closed, history>>

ReplayDone ==
  /\ pc = "replay" /\ cursor = cfg.total
  /\ pc' = "dispatch" /\ cursor' = 0
  /\ UNCHANGED <<cfg, fate, serviceVars, view, started, stop, rebuild, closed, taskVars, history>>

\* The item that ran again is joined.
RerunJoined ==
  /\ pc = "rerun" /\ joins # <<>>
  /\ Settle(Head(joins), fate[Head(joins)])
  /\ task' = [task EXCEPT ![Head(joins)] = "joined"] /\ joins' = Tail(joins)
  /\ pc' = IF Concurrent THEN "replay" ELSE "dispatch"
  /\ UNCHANGED <<cfg, fate, serviceVars, cursor, started, rebuild, closed, history>>

(***************************************************************************)
(* The dispatch loop.                                                      *)
(***************************************************************************)
InFlight == {i \in Items : task[i] \in {"body", "returned", "writing", "delivered"}}

MayDispatch ==
  /\ pc = "dispatch" /\ cursor < cfg.total
  /\ rebuild \/ stop = "none"
  /\ Cardinality(InFlight) < (IF Concurrent THEN Width ELSE 1)

\* Resolved from the plan alone, or by the replay pass.
SkipItem ==
  /\ MayDispatch
  /\ (rebuild /\ ~ Admits(cursor)) \/ (Concurrent /\ Terminal(cursor))
  /\ cursor' = cursor + 1
  /\ UNCHANGED <<cfg, fate, serviceVars, pc, view, started, stop, rebuild, closed, taskVars, history>>

\* One at a time, a recorded outcome is met at the cursor.
ResolveAtCursor ==
  /\ MayDispatch /\ ~ Concurrent /\ Terminal(cursor)
  /\ cursor' = cursor + 1 /\ started' = started \cup {cursor}
  /\ ResolveInline(cursor, [view EXCEPT ![cursor] = "-"], "dispatch")
  /\ UNCHANGED <<cfg, fate, serviceVars, rebuild, closed, history>>

Eligible == MayDispatch /\ ~ Terminal(cursor) /\ (rebuild => Admits(cursor))

\* `dispatch_gate`: the predicate is asked before each start.
GateStops ==
  /\ Eligible /\ ~ rebuild /\ PredicateCompletes(view)
  /\ stop' = cfg.custom.gives /\ cursor' = cursor + 1
  /\ UNCHANGED <<cfg, fate, serviceVars, pc, view, started, rebuild, closed, taskVars, history>>

\* Mutant: a resumed item is started again.
DispatchItemAgain ==
  /\ Eligible /\ (rebuild \/ ~ PredicateCompletes(view))
  /\ cursor' = cursor + 1 /\ started' = started \cup {cursor}
  /\ view' = [view EXCEPT ![cursor] = "-"]
  /\ queue' = IF cfg.flat THEN queue
              ELSE Append(queue, [of |-> cursor, action |-> "START"])
  /\ task' = [task EXCEPT ![cursor] = "body"]
  /\ UNCHANGED <<cfg, fate, record, log, net, pc, stop, rebuild, closed, joins, history>>

DispatchItem ==
  /\ Eligible /\ (rebuild \/ ~ PredicateCompletes(view))
  /\ cursor' = cursor + 1 /\ started' = started \cup {cursor}
  /\ view' = [view EXCEPT ![cursor] = "-"]
  /\ queue' = IF cfg.flat \/ Recorded(cursor) THEN queue
              ELSE Append(queue, [of |-> cursor, action |-> "START"])
  /\ task' = [task EXCEPT ![cursor] = "body"]
  /\ UNCHANGED <<cfg, fate, record, log, net, pc, stop, rebuild, closed, joins, history>>

\* Mutant: a joined item keeps its slot.
JoinItemKeepsSlot ==
  /\ pc = "dispatch" /\ ~ MayDispatch /\ joins # <<>>
  /\ Settle(Head(joins), fate[Head(joins)])
  /\ UNCHANGED task /\ joins' = Tail(joins)
  /\ pc' = IF ~ rebuild /\ stop' # "none" THEN "closing" ELSE pc
  /\ UNCHANGED <<cfg, fate, serviceVars, cursor, started, rebuild, closed, history>>

\* The next item to finish; the completion rule may end the batch with it.
JoinItem ==
  /\ pc = "dispatch" /\ ~ MayDispatch /\ joins # <<>>
  /\ Settle(Head(joins), fate[Head(joins)])
  /\ task' = [task EXCEPT ![Head(joins)] = "joined"] /\ joins' = Tail(joins)
  /\ pc' = IF ~ rebuild /\ stop' # "none" THEN "closing" ELSE pc
  /\ UNCHANGED <<cfg, fate, serviceVars, cursor, started, rebuild, closed, history>>

NothingInFlight ==
  /\ pc = "dispatch" /\ ~ MayDispatch /\ InFlight = {}
  /\ pc' = "closing"
  /\ UNCHANGED <<cfg, fate, serviceVars, cursor, view, started, stop, rebuild, closed, taskVars, history>>

(***************************************************************************)
(* The end of the batch.                                                   *)
(***************************************************************************)
Completion == IF stop = "none" THEN "AllCompleted" ELSE stop

Assembled ==
  [report |-> [i \in Items |-> IF view[i] \in Settled THEN view[i]
                               ELSE IF rebuild THEN (IF Admits(i) THEN Omitted ELSE log.report[i])
                               ELSE IF i \in started THEN "-" ELSE Omitted],
   reason |-> IF rebuild THEN log.reason ELSE Completion]

\* Mutant: the scope stays open and the items run on.
CloseBatchKeepsItems ==
  /\ pc = "closing"
  /\ UNCHANGED closed /\ joins' = <<>>
  /\ UNCHANGED task
  /\ IF rebuild
       THEN pc' = "returned" /\ Deliver(Assembled) /\ UNCHANGED decided
       ELSE pc' = "outcome" /\ decided' = decided \cup {Completion} /\ UNCHANGED returned
  /\ UNCHANGED <<cfg, fate, serviceVars, cursor, view, started, stop, rebuild, restarts>>

\* The scope closes and the items still running are abandoned.
CloseBatch ==
  /\ pc = "closing"
  /\ closed' = TRUE /\ joins' = <<>>
  /\ task' = [i \in Items |-> IF i \in InFlight THEN "gone" ELSE task[i]]
  /\ IF rebuild
       THEN pc' = "returned" /\ Deliver(Assembled) /\ UNCHANGED decided
       ELSE pc' = "outcome" /\ decided' = decided \cup {Completion} /\ UNCHANGED returned
  /\ UNCHANGED <<cfg, fate, serviceVars, cursor, view, started, stop, rebuild, restarts>>

\* The outcome waits for the START of the batch.
SubmitOutcome ==
  /\ pc = "outcome" /\ log.batch = "started"
  /\ \E big \in BOOLEAN :
       queue' = Append(queue, [of |-> Batch, report |-> Assembled.report,
                               reason |-> Assembled.reason, big |-> big])
  /\ pc' = "recording"
  /\ UNCHANGED <<cfg, fate, record, log, net, cursor, view, started, stop, rebuild, closed, taskVars, history>>

OutcomeRecorded ==
  /\ pc = "recording" /\ log.batch = "succeeded"
  /\ pc' = "returned" /\ Deliver(Assembled)
  /\ UNCHANGED <<cfg, fate, serviceVars, cursor, view, started, stop, rebuild, closed, taskVars,
                 restarts, decided>>

(***************************************************************************)
(* The items.                                                              *)
(***************************************************************************)
Delivers(i) == task' = [task EXCEPT ![i] = "delivered"] /\ joins' = Append(joins, i)

\* Mutant: the item is joined before its outcome is recorded.
BodyReturnsUnrecorded(i) ==
  /\ task[i] = "body"
  /\ Delivers(i)
  /\ UNCHANGED <<cfg, fate, serviceVars, batchVars, history>>

\* A flat item and one that runs again have nothing to record.
BodyReturns(i) ==
  /\ task[i] = "body"
  /\ IF cfg.flat \/ log.item[i] \in Settled
       THEN Delivers(i)
       ELSE task' = [task EXCEPT ![i] = "returned"] /\ UNCHANGED joins
  /\ UNCHANGED <<cfg, fate, serviceVars, batchVars, history>>

\* The outcome waits for the item's START, and for its own answer.
SubmitItem(i) ==
  /\ task[i] = "returned" /\ log.item[i] # "none" /\ ~ closed
  /\ queue' = Append(queue, [of |-> i, action |-> fate[i]])
  /\ task' = [task EXCEPT ![i] = "writing"]
  /\ UNCHANGED <<cfg, fate, record, log, net, batchVars, joins, history>>

ItemRecorded(i) ==
  /\ task[i] = "writing" /\ log.item[i] \in Settled
  /\ Delivers(i)
  /\ UNCHANGED <<cfg, fate, serviceVars, batchVars, history>>

(***************************************************************************)
(* The writes, one request at a time.  An item's outcome belongs to the    *)
(* batch scope, every other write of the batch to its caller.              *)
(***************************************************************************)
InScope(w) == w.of # Batch /\ w.action \in Settled

SendWrite ==
  /\ net = "idle" /\ queue # <<>>
  /\ IF closed /\ InScope(Head(queue))
       THEN queue' = Tail(queue) /\ UNCHANGED net
       ELSE net' = "sent" /\ UNCHANGED queue
  /\ UNCHANGED <<cfg, fate, record, log, batchVars, taskVars, history>>

Applied(w) ==
  IF w = BatchStart THEN [record EXCEPT !.batch = "started"]
  ELSE IF w.of = Batch
    THEN [record EXCEPT !.batch = "succeeded", !.report = w.report, !.reason = w.reason, !.big = w.big]
  ELSE [record EXCEPT !.item[w.of] = IF w.action = "START" THEN "started" ELSE w.action]

RecordWrite ==
  /\ net = "sent"
  /\ record' = Applied(Head(queue)) /\ net' = "recorded"
  /\ UNCHANGED <<cfg, fate, log, queue, batchVars, taskVars, history>>

AnswerWrite ==
  /\ net = "recorded"
  /\ log' = record /\ queue' = Tail(queue) /\ net' = "idle"
  /\ UNCHANGED <<cfg, fate, record, batchVars, taskVars, history>>

(***************************************************************************)
(* The invocation ends, suspended or not, and the next one replays.        *)
(***************************************************************************)
Restart ==
  /\ restarts > 0 /\ restarts' = restarts - 1
  /\ log' = record /\ queue' = <<>> /\ net' = "idle"
  /\ pc' = "start" /\ cursor' = 0 /\ view' = [i \in Items |-> Omitted]
  /\ started' = {} /\ stop' = "none" /\ rebuild' = FALSE /\ closed' = FALSE
  /\ task' = [i \in Items |-> "none"] /\ joins' = <<>>
  /\ UNCHANGED <<cfg, fate, record, decided, returned>>

Coordinator ==
  \/ StartBatch \/ ReplayBatchRecord \/ ReplayFromSummary \/ RebuildBatch
  \/ ReplayItem \/ ReplayDone \/ RerunJoined
  \/ SkipItem \/ ResolveAtCursor \/ GateStops \/ DispatchItem \/ JoinItem \/ NothingInFlight
  \/ CloseBatch \/ SubmitOutcome \/ OutcomeRecorded
ItemStep(i) == BodyReturns(i) \/ SubmitItem(i) \/ ItemRecorded(i)
Writes == SendWrite \/ RecordWrite \/ AnswerWrite

Next == Coordinator \/ (\E i \in Items : ItemStep(i)) \/ Writes \/ Restart

Spec == Init /\ [][Next]_vars

\* Tokio polls the batch and its items, bodies return, the service answers.
Fairness ==
  /\ WF_vars(Coordinator) /\ WF_vars(Writes)
  /\ \A i \in Items : WF_vars(ItemStep(i))

FairSpec == Spec /\ Fairness

(***************************************************************************)
(* Properties.                                                             *)
(***************************************************************************)
\* Every invocation that answers the handler answers the recorded result,
\* live or replayed in any of the three ways, also when abandoned items
\* finished behind the batch (`replay_batch_from_record`, `ReplayPlan`).
OneOutcome ==
  \A result \in returned :
    record.batch = "succeeded" /\ result = [report |-> record.report, reason |-> record.reason]

\* What a replay by summary relies on: a completed item of a recorded batch
\* has the record of that outcome.
SummaryIsBacked ==
  record.batch = "succeeded" /\ ~ cfg.flat =>
    \A i \in Items : record.report[i] \in Settled => record.item[i] = record.report[i]

\* Admission is ordered over all invocations: the items ever started are a
\* prefix of the input, and the recorded result reports all of them.
StartedArePrefix ==
  /\ \A i, j \in Items : i < j /\ record.item[j] # "none" => record.item[i] # "none" \/ cfg.flat
  /\ record.batch = "succeeded" =>
       /\ \A i, j \in Items : i < j /\ record.report[j] # Omitted => record.report[i] # Omitted
       /\ \A i \in Items : record.item[i] # "none" => record.report[i] # Omitted

\* The recorded result and the records of the items fit: what a replay by
\* summary reads is there, and nothing that was started is left out
\* (`replay_batch_from_record`, `BatchDecisionRecord`).
ResultFitsItems == SummaryIsBacked /\ StartedArePrefix

\* The recorded reason is one that the recorded items bear out, whichever
\* invocations settled them and in whichever order.
ReasonIsJustified ==
  record.batch = "succeeded" =>
    LET Of(statuses) == Cardinality({i \in Items : record.report[i] \in statuses})
        Exceeded == IF ~ HasCriteria THEN Of({"F"}) >= 1
                    ELSE \/ cfg.tolerated # Unset /\ Of({"F"}) >= cfg.tolerated + 1
                         \/ cfg.percent # Unset /\ Of({"F"}) * 100 > cfg.percent * cfg.total
        Custom == cfg.custom # Unset /\ Of(cfg.custom.counts) >= cfg.custom.at
    IN  CASE record.reason = "AllCompleted" -> Of(Settled) = cfg.total /\ ~ Exceeded /\ ~ Custom
          [] record.reason = "MinSuccessfulReached" -> cfg.min # Unset /\ Of({"S"}) >= cfg.min
          [] record.reason = "FailureToleranceExceeded" -> Exceeded
          [] OTHER -> Custom /\ record.reason = cfg.custom.gives

\* The service gets no update that the status of its operation or of its
\* batch refuses: one START for each item in however many invocations, one
\* outcome, and nothing of an item before its batch started or after it
\* ended, however the items were abandoned.
NeverRejected ==
  net = "sent" =>
    LET w == Head(queue)
    IN  IF w = BatchStart THEN record.batch = "none"
        ELSE /\ record.batch = "started"
             /\ w.of # Batch =>
                  record.item[w.of] = (IF w.action = "START" THEN "none" ELSE "started")

\* The completion rule reaches the same decision in every invocation
\* (map_parallel.rs, `CompletionTracker`: "in any order").
DecisionIsStable == Cardinality(decided) <= 1

\* The handler gets its result in the end.
BatchSettles == <>(returned # {})
=============================================================================
