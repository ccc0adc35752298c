--------------------------- MODULE DurableRecords ---------------------------
(***************************************************************************)
(* What the operations of a handler share: their records at the service,   *)
(* the copy an invocation has of them (engine.rs, CheckpointLog), the one  *)
(* queue their updates go through, and the start step (start.rs) that      *)
(* makes of a record what an operation does in this invocation.            *)
(*                                                                         *)
(* The service is the one the SDK ships for its users' tests               *)
(* (test_util.rs).  The queue is OrderedJournal's: one update at a time,   *)
(* in submission order.                                                    *)
(***************************************************************************)
EXTENDS Naturals, Sequences, SequencesExt, FiniteSets

CONSTANTS
  Ops,         \* operations of the handler
  Top,         \* the one the handler awaits
  Shapes,      \* handlers: what each operation is, its inputs, what each handle
               \* is of, the ones never answered, the ones whose value may fail
               \* to be serialized, whether responses may omit the updated record,
               \* and what each operation is once the handler was deployed again
  Values,      \* what a body may return; a "large" value does not fit a record
  ErrorTypes,  \* the recorded types of the errors a body may return
  MaxChecks,   \* a condition is checked as often as that
  MaxCrashes   \* bound: invocations that end while the handler is at work

Awaited == {"wait", "invoke", "callback"}
Scope == {"child", "wait_for_callback", "with_retry"}
Combinator == {"try_join_all", "join_all", "select_ok", "race"}
Contexts == Scope \cup Combinator
\* A virtual child writes nothing; nor does the handle of an operation that
\* was spawned, which a combinator may have for an input in its place.
Unrecorded == {"virtual", "handle"}
Kind == {"none", "step", "condition"} \cup Unrecorded \cup Awaited \cup Contexts
Shape == [kind : [Ops -> Kind], inputs : [Ops -> Seq(Ops)], of : [Ops -> Ops],
          silent : SUBSET Ops, opaque : SUBSET Ops, omits : BOOLEAN, becomes : [Ops -> Kind]]

\* The type and sub type of an operation. All of these are plain contexts.
Identity(k) == IF k \in Combinator \cup {"child", "with_retry"} THEN "child" ELSE k

\* The sequence `ops` without what is not in `some`: SelectSeq, not recursive.
Only(ops, some) ==
  LET kept == {i \in DOMAIN ops : ops[i] \in some}
      Place(i) == Cardinality({j \in kept : j <= i})
  IN  [n \in 1 .. Cardinality(kept) |-> ops[CHOOSE i \in kept : Place(i) = n]]

\* Operations inside the scope of each operation, at any depth (four here).
Within(ins) == [op \in Ops |->
  LET Grow(ops) == ops \cup UNION {ToSet(ins[o]) : o \in ops}
  IN  Grow(Grow(Grow(ToSet(ins[op]))))]

\* An operation is made in one place, and moved into what awaits it: the
\* operations of a handler form a tree, here of five levels at most.
Tree(ins) ==
  /\ \A op, o \in Ops : \A i \in DOMAIN ins[op], j \in DOMAIN ins[o] :
       ins[op][i] = ins[o][j] => op = o /\ i = j
  /\ \A op \in Ops : Top \notin ToSet(ins[op]) /\ op \notin Within(ins)[op]
  /\ \A op \in Ops : \A o \in Within(ins)[op] : Within(ins)[o] \subseteq Within(ins)[op]

\* A handle is an input of a combinator that stands beside what it is of, in
\* the same body; what is spawned is started after the first, awaited one.
Spawning(kinds, ins, join, op) ==
  \E body \in Ops : kinds[body] \in {"child", "virtual"} /\ op # Head(ins[body])
                    /\ {join, op} \subseteq ToSet(ins[body])

\* A body that runs operations has one, what is awaited is an operation, and
\* a combinator is not polled inside another one: it is spawned.
WellMade(kinds, ins, of) ==
  /\ kinds[Top] \notin {"none", "handle"}
  /\ \A op \in Ops :
       /\ kinds[op] \in Scope \cup {"virtual"} => ins[op] # <<>>
       /\ \A o \in ToSet(ins[op]) :
            /\ kinds[o] # "none"
            /\ IF kinds[op] \in Combinator THEN kinds[o] \notin Combinator ELSE kinds[o] # "handle"
            /\ kinds[o] = "handle" => kinds[of[o]] # "none" /\ Spawning(kinds, ins, op, of[o])

\* What is not the same once it was deployed again is of another type or sub
\* type, and left a record: a plain context that replaced another one, or
\* anything that replaced what leaves none, would not be detected.
Detected(s) ==
  \A op \in Ops :
    \/ s.becomes[op] = s.kind[op]
    \/ /\ s.kind[op] \notin Unrecorded /\ s.becomes[op] # "handle"
       /\ Identity(s.becomes[op]) # Identity(s.kind[op])

ASSUME RecordsAssumption ==
  /\ Top \in Ops
  /\ MaxChecks \in Nat \ {0} /\ MaxCrashes \in Nat
  /\ \A s \in Shapes :
       /\ s \in Shape /\ Tree(s.inputs)
       /\ WellMade(s.kind, s.inputs, s.of) /\ WellMade(s.becomes, s.inputs, s.of)
       /\ Detected(s)

VARIABLES
  shape,     \* the handler
  record,    \* what the service stores of each operation
  log,       \* this invocation's copy (CheckpointLog)
  write,     \* the update of each operation: [st, action, payload, children, winner]
  queue,     \* operations whose update is not answered, in submission order
  pc,        \* where this invocation is in each operation
  result,    \* what its body returned; in a condition's body, the state it got
  returned,  \* history: the outcomes each operation returned, in any invocation,
             \* until it recorded a fatal error
  reported,  \* history: the kinds of the errors among them, of those that Usual lists
  crashes,   \* what is left of MaxCrashes
  fatal      \* a fatal error was recorded in this invocation

service == <<record, log, write, queue>>
vars == <<shape, service, pc, result, returned, reported, crashes, fatal>>

\* An outcome: a value, made of the values of the inputs, or an error, by
\* the type that is recorded of it.
\* `at` is the input that won or failed a combinator.
Ok(v) == [ok |-> TRUE, of |-> v, at |-> 0]
Err(error) == [ok |-> FALSE, of |-> <<error>>, at |-> 0]
Nothing == [ok |-> FALSE, of |-> <<>>, at |-> 0]
Oversized(out) == out.ok /\ Contains(out.of, "large")

Status == {"NONE", "STARTED", "PENDING", "READY", "SUCCEEDED", "FAILED", "TIMED_OUT"}
Terminal == {"SUCCEEDED", "FAILED", "TIMED_OUT"}
\* `kind` is what the operation was that recorded it (type, sub type and
\* name); `children` is ReplayChildren, `winner` the index of a RecordedWinner;
\* `retried` is history: what the last RETRY carried.
NoRecord == [status |-> "NONE", kind |-> "none", attempt |-> 0, payload |-> Nothing,
             children |-> FALSE, winner |-> 0, retried |-> Nothing]
NoWrite == [st |-> "none", action |-> "NONE", payload |-> Nothing,
            children |-> FALSE, winner |-> 0]
Update(action, out) == [NoWrite EXCEPT !.st = "queued", !.action = action, !.payload = out]

Step == {"off", "invoked", "starting", "wait", "replay", "body", "rebuild", "inputs", "join", "rejoin",
         "ran", "settling", "done", "stopped", "rejected", "failed"}

kind(op) == shape.kind[op]
inputs(op) == shape.inputs[op]

\* Operations inside the scope of a context, at any depth.
Inside == Within(shape.inputs)

Init ==
  /\ shape \in Shapes
  /\ record = [op \in Ops |-> NoRecord] /\ log = record
  /\ write = [op \in Ops |-> NoWrite] /\ queue = <<>>
  /\ pc = [op \in Ops |-> "off"]
  /\ result = [op \in Ops |-> Nothing]
  /\ returned = [op \in Ops |-> {}] /\ reported = [op \in Ops |-> {}] /\ crashes = MaxCrashes /\ fatal = FALSE

(***************************************************************************)
(* The identity of a record (replay_identity_mismatch).                    *)
(***************************************************************************)
\* Mutant: only a record that is replayed is compared.
MismatchedReplay(op) ==
  log[op].status \in Terminal /\ Identity(log[op].kind) # Identity(kind(op))

\* The record was written by another operation, before the handler was
\* deployed again. What is Unrecorded has no record at all.
Mismatched(op) == log[op].kind # "none" /\ Identity(log[op].kind) # Identity(kind(op))
Refusal == Err("NonDeterministic")

\* The operations that are claimed, and compared, when `ops` are entered:
\* the inputs of a combinator are built before it, and what is spawned.
Claimed(ops) ==
  LET Grow(some) == some \cup (UNION {ToSet(inputs(o)) : o \in {c \in some : kind(c) \in Combinator}})
                         \cup {shape.of[o] : o \in {h \in some : kind(h) = "handle"}}
  IN  Grow(Grow(Grow(ops)))

(***************************************************************************)
(* The start step.                                                         *)
(***************************************************************************)
\* Mutant: a recorded START is sent again.
NeedsStartAgain(op) ==
  /\ kind(op) \notin Unrecorded /\ ~ Mismatched(op)
  /\ \/ log[op].status \in {"NONE", "STARTED"}
     \/ kind(op) = "condition" /\ log[op].status = "READY"

\* No record, or the next check of a condition: a START is queued.
NeedsStart(op) ==
  /\ kind(op) \notin Unrecorded /\ ~ Mismatched(op)
  /\ \/ log[op].status = "NONE"
     \/ kind(op) = "condition" /\ log[op].status = "READY"

\* Mutant: a record without its value is replayed as it is.
EntryIgnoresChildren(op) ==
  IF Mismatched(op) THEN "done"
  ELSE IF log[op].status \in Terminal THEN "replay"
  ELSE CASE kind(op) \in Awaited -> IF log[op].status = "NONE" THEN "starting" ELSE "wait"
         [] kind(op) = "condition" /\ log[op].status = "PENDING" -> "wait"
         [] kind(op) \in Combinator -> "inputs"
         [] OTHER -> "body"

\* Where the start step leads: to an error at once, to the replay of a terminal record, to
\* running the body again when the record does not hold its value, to the
\* wait for the service, or into the body.
Entry(op) ==
  IF Mismatched(op) THEN "done"
  ELSE IF log[op].status \in Terminal THEN IF log[op].children THEN "rebuild" ELSE "replay"
  ELSE CASE kind(op) \in Awaited -> IF log[op].status = "NONE" THEN "starting" ELSE "wait"
         [] kind(op) = "condition" /\ log[op].status = "PENDING" -> "wait"
         [] kind(op) \in Combinator -> "inputs"
         [] OTHER -> "body"

\* Mutant: the state is read after the START was merged.
CarriedStateAfterStart(op) ==
  IF kind(op) = "condition" /\ log[op].payload.ok /\ ~ NeedsStart(op) THEN log[op].payload
  ELSE Ok(<<>>)

\* A check gets the state its record holds before the START clears it.
CarriedState(op) ==
  IF kind(op) = "condition" /\ log[op].payload.ok THEN log[op].payload ELSE Ok(<<>>)

\* A combinator queues its START after those of its inputs.
Starting(ops) == {op \in ToSet(ops) : kind(op) \notin Combinator /\ NeedsStart(op)}

\* Operations are entered in this order, and the ones that need it queue a
\* START, with the combinators `last` behind them. An operation whose record
\* is another's fails the invocation.
EnterWith(ops, last) ==
  LET starting == Starting(ops) \cup ToSet(last)
  IN  /\ queue' = queue \o Only(ops \o last, starting)
      /\ write' = [op \in Ops |->
           IF op \in starting THEN Update("START", Nothing)
           ELSE IF op \in ToSet(ops) THEN NoWrite ELSE write[op]]
      /\ result' = [op \in Ops |->
           IF op \notin ToSet(ops) THEN result[op]
           ELSE IF Mismatched(op) THEN Refusal ELSE CarriedState(op)]
      /\ fatal' = (fatal \/ \E op \in Claimed(ToSet(ops)) : Mismatched(op))

\* Where operations are once `ops` are entered.
Entered(ops) == [op \in Ops |-> IF op \in ToSet(ops) THEN Entry(op) ELSE pc[op]]

Enter(ops) == EnterWith(ops, <<>>) /\ pc' = Entered(ops)

(***************************************************************************)
(* The kinds of errors. Those of the other operations are one function of  *)
(* what is recorded, live and replayed.                                    *)
(***************************************************************************)
\* A body that failed live: whatever type its error is recorded with.
Usual(k) ==
  CASE k = "step" -> {"ExecutionFailed"}
    [] k \in {"child", "with_retry"} -> {"ChildFailed"}
    [] OTHER -> {}
BodyKind(op, out) == IF out.ok THEN {} ELSE Usual(kind(op))

\* Mutant: the failure of a child is replayed as that of a step.
ReplayedKindOfStep(op, out) ==
  IF out.ok \/ Usual(kind(op)) = {} THEN {}
  ELSE IF out.of = <<"SerializationError">> THEN {"SerializationFailed"}
  ELSE {"ExecutionFailed"}

\* A recorded failure (replay_failure of step.rs and of child.rs): by its type.
ReplayedKind(op, out) ==
  IF out.ok \/ Usual(kind(op)) = {} THEN {}
  ELSE CASE out.of = <<"SerializationError">> ->
              IF kind(op) = "step" THEN {"SerializationFailed"} ELSE {"Internal"}
         [] kind(op) = "step" /\ out.of = <<"StepInterruptedError">> -> {"Interrupted"}
         [] OTHER -> Usual(kind(op))

\* An operation returns `out`, and with it an error of `kinds`.
Return(op, out, kinds) ==
  /\ pc' = [pc EXCEPT ![op] = "done"]
  /\ result' = [result EXCEPT ![op] = out]
  /\ returned' = IF fatal THEN returned ELSE [returned EXCEPT ![op] = @ \cup {out}]
  /\ reported' = IF fatal THEN reported ELSE [reported EXCEPT ![op] = @ \cup kinds]

\* A terminal record that holds the outcome is replayed.
Replay(op) ==
  /\ pc[op] = "replay"
  /\ Return(op, log[op].payload, ReplayedKind(op, log[op].payload))
  /\ UNCHANGED <<shape, service, crashes, fatal>>

Submit(op, update) ==
  /\ write' = [write EXCEPT ![op] = update]
  /\ queue' = Append(queue, op)

\* `await_start`: an outcome is sent only after the START was recorded.
StartAnswered(op) == write[op].st \in {"none", "answered"}

SubmitOutcome(op, update, out) ==
  /\ Submit(op, update)
  /\ result' = [result EXCEPT ![op] = out]
  /\ pc' = [pc EXCEPT ![op] = "settling"]

\* A value that could not be serialized: the failure is recorded first.
SubmitUnserialized(op) ==
  /\ result[op].ok /\ op \in shape.opaque
  /\ SubmitOutcome(op, Update("FAIL", Err("SerializationError")), result[op])

\* The outcome is recorded, and returned; a retry waits for its timer. In
\* place of a value that was not serialized, its failure is returned, of
\* the kind a replay gives.
OutcomeRecorded(op) ==
  /\ pc[op] = "settling" /\ write[op].st = "answered"
  /\ CASE write[op].action = "RETRY" ->
            pc' = [pc EXCEPT ![op] = "wait"] /\ UNCHANGED <<result, returned, reported>>
       [] write[op].action = "FAIL" /\ result[op].ok ->
            Return(op, write[op].payload, ReplayedKind(op, write[op].payload))
       [] OTHER -> Return(op, result[op], BodyKind(op, result[op]))
  /\ UNCHANGED <<shape, service, crashes, fatal>>

(***************************************************************************)
(* Scopes that close (checkpoint_coalescer.rs, Admission).                 *)
(***************************************************************************)
Unfinished(op) == pc[op] \notin {"off", "done", "stopped"}

\* What `ops` started in their scopes writes nothing more: an update that
\* is not on its way leaves the queue.
CloseScopes(ops) ==
  \E sent \in BOOLEAN :
    LET closed == UNION {Inside[op] : op \in {o \in ops : kind(o) \in Scope}}
        dropped == {op \in closed : write[op].st = "queued" /\ ~ (sent /\ op = Head(queue))}
    IN  /\ queue' = Only(queue, Ops \ dropped)
        /\ write' = [op \in Ops |-> IF op \in dropped THEN NoWrite ELSE write[op]]

\* Where operations are once the unfinished ones of `ops` are stopped.
Stopped(ops) == [op \in Ops |-> IF op \in ops /\ Unfinished(op) THEN "stopped" ELSE pc[op]]

(***************************************************************************)
(* The service.                                                            *)
(***************************************************************************)
\* `validate_identity`, `validate_status_transition`.
Valid(op) ==
  LET status == record[op].status
  IN  /\ status # "NONE" => Identity(record[op].kind) = Identity(kind(op))
      /\ status \in IF write[op].action = "START"
                      THEN {"NONE"} \cup (IF kind(op) \in {"step", "condition"} THEN {"READY"} ELSE {})
                    ELSE {"NONE", "STARTED"} \cup (IF kind(op) \in Contexts THEN {} ELSE {"READY"})

\* `apply_update`. A START clears what a RETRY recorded.
Applied(r, w, k) ==
  CASE w.action = "START" -> [r EXCEPT !.status = "STARTED", !.kind = k, !.payload = Nothing]
    [] w.action = "RETRY" -> [r EXCEPT !.status = "PENDING", !.attempt = @ + 1,
                                       !.payload = w.payload, !.retried = w.payload]
    [] OTHER -> [r EXCEPT !.status = IF w.action = "SUCCEED" THEN "SUCCEEDED" ELSE "FAILED",
                          !.payload = w.payload, !.children = w.children, !.winner = w.winner]

\* The service applies the update at the head of the queue. An invalid one
\* fails the execution for good.
RecordUpdate ==
  /\ queue # <<>> /\ write[Head(queue)].st = "queued"
  /\ LET op == Head(queue)
     IN  IF Valid(op)
           THEN /\ record' = [record EXCEPT ![op] = Applied(@, write[op], kind(op))]
                /\ write' = [write EXCEPT ![op].st = "recorded"]
                /\ UNCHANGED pc
           ELSE /\ pc' = [o \in Ops |-> "rejected"]
                /\ UNCHANGED <<record, write>>
  /\ UNCHANGED <<shape, log, queue, result, returned, reported, crashes, fatal>>

\* Mutant: a RETRY that its response omits leaves the log as it is.
RetryUnmarked(op) == log[op]

\* `mark_retry_pending`: a condition's RETRY that its response omits is
\* still marked in the log. Another record, or a missing one, is kept.
OmittedUpdate(op) ==
  IF kind(op) = "condition" /\ write[op].action = "RETRY"
       /\ log[op].status \notin {"NONE", "PENDING"}
    THEN [log[op] EXCEPT !.status = "PENDING", !.payload = write[op].payload]
    ELSE log[op]

\* The response is merged and the write answered. A callback's START always
\* carries its record, which has the callback's ID.
AnswerWrite ==
  /\ queue # <<>> /\ write[Head(queue)].st = "recorded"
  /\ LET op == Head(queue)
     IN  /\ write' = [write EXCEPT ![op].st = "answered"]
         /\ \/ log' = [log EXCEPT ![op] = record[op]]
            \/ shape.omits /\ kind(op) # "callback" /\ log' = [log EXCEPT ![op] = OmittedUpdate(op)]
  /\ queue' = Tail(queue)
  /\ UNCHANGED <<shape, record, pc, result, returned, reported, crashes, fatal>>

\* A refresh merges whatever changed. It takes its turn with the writes.
Refresh ==
  /\ \E op \in Ops : pc[op] = "wait"
  /\ queue # <<>> => write[Head(queue)].st = "queued"
  /\ log # record /\ log' = record
  /\ UNCHANGED <<shape, record, write, queue, pc, result, returned, reported, crashes, fatal>>

\* `advance_records`: the timer of a wait or of a retry fires.
FireTimer(op) ==
  /\ \/ record[op].kind = "wait" /\ record[op].status = "STARTED"
          /\ record' = [record EXCEPT ![op].status = "SUCCEEDED", ![op].payload = Ok(<<>>)]
     \/ record[op].status = "PENDING" /\ record' = [record EXCEPT ![op].status = "READY"]
  /\ UNCHANGED <<shape, log, write, queue, pc, result, returned, reported, crashes, fatal>>

\* An external system answers a callback, or its time runs out; an invoked
\* function returns. One in `silent` is never answered.
Deliver(op) ==
  /\ record[op].kind \in {"callback", "invoke"} /\ op \notin shape.silent
  /\ record[op].status = "STARTED"
  /\ \E out \in {<<"SUCCEEDED", Ok(<<"small">>)>>, <<"FAILED", Err("Failed")>>,
                 <<"TIMED_OUT", Err("TimedOut")>>} :
       record' = [record EXCEPT ![op].status = out[1], ![op].payload = out[2]]
  /\ UNCHANGED <<shape, log, write, queue, pc, result, returned, reported, crashes, fatal>>

Service ==
  RecordUpdate \/ AnswerWrite \/ Refresh \/ \E op \in Ops : FireTimer(op) \/ Deliver(op)
=============================================================================
