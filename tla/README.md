# Verification of the durable execution SDK

These TLA+ modules model the part of `aws-durable-execution-sdk-rust` that decides
when an invocation suspends, what it answers, and what the service gets to
record. TLC checks them on small instances; TLAPS checks theorems for every
instance. Source lines are given in `PROJECT.json` (`map`).

## The system

A durable function is one Lambda invocation after another of the same
handler. The handler calls *operations* (step, wait, invoke, callback, child,
map, ...). Each operation checkpoints its progress with the service; the next
invocation replays the recorded operations and goes on from there. When
nothing can make progress the invocation answers `PENDING` and ends.

| Component | State | Operations | Hard behaviour |
|---|---|---|---|
| coordinator (`coordinator.rs`) | phase, permit counts, wait registrations, fatal error, panic, write failure, withdrawal | acquire and drop a permit, register and retire a wait, record, fail, withdraw, finish | the decision to suspend is taken by whoever drops the last permit, in any thread |
| task gateway (`task.rs`) | a schedule state machine, an outcome slot and a handle per task; the tracker | wake, poll, deliver, abort, close, wait until idle | wakes race polls; aborts race spawns and ends; a permit per runnable task |
| driver (`driver.rs`) | how the drive ended | poll handler and scheduler, cleanup, arbitration | everything recorded while tasks unwind still decides the answer |
| request path (`context.rs`) | checkpoint token, its lock, the log | one request at a time: admit, send, merge pages, rotate, wake | failure, withdrawal or a panic at each await |
| direct writes (`context.rs`) | queue, reservations, the writer task | enqueue, release, next, abandon | the writer's end races the next push |
| coalesced writes (`checkpoint_coalescer.rs`) | open batch, holds, results | join, hold, claim, publish, abandon, flush | several flushers for one buffer; detached updates before the answer |
| operations (`step.rs`, `wait.rs`, `invoke.rs`, `callback.rs`, `wait_for_condition.rs`, `child.rs`) | a record per operation | replay, start, cycle, settle | a crash between any two checkpoints |
| contexts (`child.rs`, `with_retry.rs`, `callback.rs`) | a scope, a record that may omit the value | run, close the scope, settle, rebuild | what the body started and did not await; values rebuilt from children |
| combinators (`combinator.rs`) | inputs, the winner | start the inputs, join, tell the losers to stop, rejoin | losers that go on, write, wait or are never answered; spawned inputs |
| batches (`map_parallel.rs`) | items, completion policy | start, dispatch, join, cancel | items racing the policy |
| plugins, serdes, options, tracing, client | configuration, events | hooks, conversion, I/O | - |

Interactions. A task takes an activity permit for each poll and for a step
body, a write takes a checkpoint permit until its caller has the result. The
merge of a response readies records and wakes the operations that registered
for them; each wake takes the woken task's permit before the write drops its
own. The refresh scheduler sends empty checkpoints while other work holds the
invocation open. The driver polls the handler and the scheduler and is woken
by the coordinator. What must hold:

* coordinator: suspend only when nothing can progress, and then at once;
* gateway: no lost wakeup, exact permit counts, nothing outlives the answer
  (but what a panic of the checkpoint client left in the queue);
* driver: the answer follows the recorded failures, every drive ends;
* operations, contexts, combinators, batches: one outcome over all
  invocations, an error of one kind, one that the records of what they are made of bear out, nothing
  recorded inside a context behind its outcome;
* write path: recorded in submission order with the current token, answered
  only when recorded, nothing of a closed scope after its outcome, every write
  settled, detached updates before the answer.

## Modules

* `CoordinatorState`: the lock-protected state as a record, one operator per
  method. An action that applies one operator is one critical section.
* `SuspensionRule`: the abstract coordinator (open, suspended, withdrawn,
  closed; the work that can progress; the waits).
* `Invocation` (extends `CoordinatorState`): tasks, tracker, detached writes,
  refresh scheduler, driver. One action is one critical section of one thread;
  user code is a choice among the SDK calls it can make. `sched` is `Schedule`,
  `tokio` the wakes on their way from a waker to a poll, `poll` where the
  worker that polls the task is, `slot` the outcome slot, `tracker` the abort
  handles and the abort flag, `wr` a write from admission to its answer, or to the
  recorded panic of its writer (`ClientPanics`, `AnswerCaller`, `UnwindWrite`,
  `WriterStops`, `RecordWriterPanic`: the unwinding of `run_direct_writer`, which
  may leave the writes behind it `stranded` in the queue), `rf` the refresh scheduler, `driver` the program counter of
  `drive_with_scheduler`. It implements `SuspensionRule` (`ImplementsRule`).
* `RequestPath`: the token lock and one checkpoint request with its pages,
  failure, withdrawal and client panic; the service (external: it accepts a
  request that carries the current token). Both write paths extend it.
* `OrderedJournal`: the abstract write path.
* `DirectWrites`: `DirectWriteQueue` and its writer, for invocations that do
  not coalesce. `BatchedWrites`: `CheckpointCoalescer`, its flushers and the
  flush of the invocation wrapper. Both implement `OrderedJournal`.
* `RefreshSchedule`: `next_refresh`, the loop of `drive_refresh_scheduler` and
  the schedule of each registration (`sched` is the scheduler's program
  counter, `reg` the registrations, `owing` the threads between the critical
  section and its notification). `Invocation` has the scheduler's place among
  the permits, this module has its times.
* `DurableStep`: one step across invocations that crash or suspend anywhere;
  `record` is the service's copy, `log` the invocation's, `pc` the position in
  `StepExecution::run`. An answer is the outcome with the kind of its error: a live
  failure has the kind its path gives it, a replayed one the kind that
  `ReplayedKind` (`replay_failure`) reads from the recorded type; `BodyErrors` are the
  recorded types of what a body returns. The service is the in-memory one of `test_util.rs`.
* `DurableBatch`: a `map` or `parallel` across invocations. `pc` is the position
  of `execute_batch` and `produce_batch`, `view`, `started` and `stop` are
  `BatchProgress` and its `CompletionTracker`, `rebuild` says that a
  `ReplayPlan` is obeyed, `task` and `joins` are the item tasks and their join
  set, `queue` and `net` the writes in submission order, one request at a time
  (what `OrderedJournal` promises). `record` keeps per item a status, for the
  batch a status, the reported statuses and the reason; `big` is a result too
  large for its record (or kept with its items), `cfg.heavy` the items whose
  value is. A predicate is a monotonic one: a count of items of some statuses.
  An invocation may end between any two steps, suspended or crashed.
* `DurableRecords`: what the operations of one handler share. A handler is a
  tree of operations, of five levels at most (`shape`: what each one is, its
  inputs, what a handle is of, which are never answered, whose value may not
  serialize, what each becomes when the handler is
  deployed again; `RecordsAssumption` says what a handler can be). `record`,
  `log` and `queue` are as above, `write` is the update of an operation on its
  way, `pc` where the invocation is in it, `result` what its body
  returned, `reported` the kinds of the errors it returned (`BodyKind` live,
  `ReplayedKind` from a record; kinds of other operations than steps and child
  contexts are one function of the record). `Entry`, `NeedsStart` and `EnterWith` are the start step,
  `Mismatched` and `fatal` the identity check of a replay and
  the error it records, `CloseScopes` and `Stopped` are `Admission::abandon`, `Applied`, `Valid`,
  `FireTimer` and `Deliver` the service of `test_util.rs`.
* `DurableOperations`, `ChildContexts`, `Combinators` (each extends
  `DurableRecords`): the actions of one operation of a kind. Waits, invokes,
  callbacks and conditions, with a step for a body; children, virtual children,
  `wait_for_callback` and retry blocks; the four combinators. An input of a
  combinator is an operation, or the handle of one spawned beside it
  (`HandleReturns`). When a join is over (`JoinReturns`), the inputs still at work
  are only told to stop: each goes on until `LoserStops`, and may queue updates
  before that, behind the combinator's outcome too; what a handle is of runs on.
* `DurableHandler` composes the three: a handler that awaits the operation
  `Top`, over invocations that crash, suspend or fail, of a handler that may have
  changed in between, and its properties.
* `Invocation_proofs`, `DirectWrites_proofs`, `BatchedWrites_proofs`,
  `DurableStep_proofs`, `DurableBatch_proofs`, `DurableHandler_proofs`,
  `RefreshSchedule_proofs`: theorems. `RequestPath_proofs`: lemmas about requests and submission orders
  that both write paths rest on.
* `MC...`: instances.

The data is abstracted: an update is a model value with the scopes that own
it, a record is ready or not, an error is one of the two severities, a time is
a countdown in small units. Polls, mutexes and notifications are not: every
lock region and every await is a step of its own.

## Runs

| Run | Question | Bounds |
|---|---|---|
| `suspension` | Does every step obey `SuspensionRule`, does every drive end, and does a kept panic decide its answer? | the handler and a child task, one operation each may wait for, one detached write, panics of all of them |
| `threads` | Are the permit counts exact, is the decision to suspend taken only when nothing can progress and as soon as nothing can, is no wakeup lost, do a write failure and a withdrawal exclude one another, do they and the fatal errors decide the answer, and does nothing outlive it but the permits of writes behind a client panic? | three generations of tasks, an operation, two writes, one local wake (`MaxLocal`), one refresh (`MaxRefresh`); behaviours that use at most three of these (tasks, writes, local wakes, the wait, the refresh; `MaxActors`), or the handler and three that are no task (`MaxAround`): constraint `FewActors` |
| `order` | Are direct writes recorded in order, with the current token, answered only when recorded, silent after a close, and all settled? | three writes, two of them in one closing scope, two writer tasks, the caller |
| `window` | The same order, token and silence for buffered writes, is the buffer sent before the answer, and is every contribution published or dropped in the end, unless the client panics? | a write of a closing scope, one of its parent and a refresh, three flushers, requests of one update |
| `continues` | Does the scheduler ever sleep past an armed refresh; is an awaited operation left unscheduled? Does an operation whose record became ready continue, and do refreshes keep clear of the deadline? | one spawned operation, a record that changes twice, deadline of five units |
| `crashes` | Do semantics, attempt numbers, the outcome and its kind hold over crashes? Does it settle? | three attempts, three crashes, two values, body errors of a plain and of a reserved type (`BodyErrors`) |
| `omits` | Is a retry timer always awaited? (violated) | as `crashes`, with responses that omit the record |
| `replays` | Does every invocation answer the recorded result of a batch, is its reason borne out, is no update refused and nothing recorded outside the batch? Does it settle? | three items, eleven batches (each threshold and its edge, predicates of both outcomes, flat, one at a time, empty, values too large), every result of every item, two restarts |
| `operations` | Is no update refused, has each operation one outcome of one kind, does what a combinator recorded fit its inputs, is a finished context final, does a check get the state of the check before, does a changed handler record nothing behind another's record, and does the handler's operation return, or the execution fail? | thirty-nine handlers of up to six operations (`Ops`, `Shapes`), nine of them deployed again with other operations, two crashes, a small and a large value, one type of body errors (`ErrorTypes`) besides those of failed serializations, three checks of a condition (`MaxChecks`) |
| `rekinds` | Is a child's failure of one kind, live and replayed? (violated) | a child and a step whose value may not serialize, one crash |
| `forgets` | Does a condition's state survive a resume? (violated) | one condition, one crash |
| `decides` | Does a resume reach the decision of the run before? (violated) | two items, a minimum of one, one restart |

Why the bounds suffice. Suspension depends on the last permit against one
waker: two tasks and an operation give every order of wake, poll end and
permit drop between two threads; the write adds a third. A third task matters
only for a task that is spawned while its parent unwinds, which `threads` has;
`FewActors` lets any three of its tasks, writes, bodies and refreshes meet in one
behaviour.
Latches need two writes, one that fails and one behind it. The order of writes
needs one that is sent, one queued behind it and one that arrives meanwhile;
the writer's restart needs a second writer, an overlap of flushers a third. A
batch of a write and a refresh with requests of one update is a split
request. Two slots and three items are the least with one item joined, one
abandoned and one never started, or resumed; a second restart ends an
invocation that resumed or rebuilt. Of the handlers of `operations`, each kind
is awaited alone, with inputs of each kind that waits, fails, writes or is never
answered, inside a child, a virtual child or a combinator, so that every pair of
closing scope and operation in it occurs; two crashes interrupt a resume or a
rebuild. Two of the handlers have a spawned input, which runs on when another
input won, and which a redeployment may have replaced; a step, a child around it and a
condition have values that cannot be serialized. `continues` has one
operation, whose back-off reaches the capped and the extended interval; with
liveness a second one is out of reach, so that a refresh that becomes due
before the one slept for belongs to the theorems about `RefreshSchedule`, which
hold for any set of operations. The
retry loop repeats from the second attempt on, and three crashes can hit
every one of three consecutive points. `MaxOps`, `MaxRestarts`, `MaxLocal`, `MaxRefresh`, `MaxActors`,
`MaxAround`, `MaxCrashes`, `BodyErrors`, `ErrorTypes`, `MaxAttempts` and `MaxChecks` (the strategies), `Changes`, `Shapes` and the finite sets of
tasks, writers and flushers are the only bounds.

`CHECK_DEADLOCK FALSE` appears where the modelled system stops: all writes
settled and the drive over, the step, the batch or the handler's operation
returned and no crash left, the execution failed, all operations done and the deadline passed, the invocation answered. In
`suspension` `DriveEnds` finds a drive that stops early; `threads` checks for
deadlock with an explicit step of the returned drive.

### Fairness

Weak fairness only. Reservations are released (their owners are polled).
Tokio polls what was woken and drops what was aborted; a
poll of user code returns, a step body ends, a request to the service is
answered, fails or panics; the driver is polled when woken, and ends an execution with a fatal error; time passes; the service
fires a retry timer; Lambda invokes again an execution that has not ended.
Nothing makes the service ready an operation, makes the handler poll a handle,
or makes a writer panic: `DriveEnds`, `WritesSettle`, `ContributionsSettle`
and `ReadyContinues` hold without those. `ReadyContinues` is about a record
that is ready while the invocation is held open; `StepSettles` holds because
crashes are bounded, as an execution that crashes for ever never ends, and
`BatchSettles` and `Settles` likewise. `Settles` also assumes that an external
system answers the callbacks and invokes that are not declared silent; a silent
one is never answered, and only a race it loses returns.

## Findings

* `rekinds`: `child.rs:935-939` promises that a replay reproduces the recorded
  failure's classification. A live body failure is `ChildFailed`
  (`child.rs:869-872`), recorded with the type of the body's error; a replay reads
  the kind from that type (`child.rs:940-945`), and an error that a body passes on
  keeps its type (`wire_error_for`, `error.rs:459-477`). A child whose step could
  not serialize its value fails with `ChildFailed`, and with `Internal` when it is
  replayed. A step has the same path (`step.rs:719` against `step.rs:1167-1172`,
  with the promise at 1164-1166), for `SerializationError` and
  `StepInterruptedError`. `OneOutcome` states, in `DurableStep` and
  `DurableHandler`, what does hold: the outcome is one, and its kind too unless it
  is recorded with a type the SDK reserves and a body may return such an error.
* `omits`: `step.rs:344-352` promises to wait for the timer after a `RETRY`.
  When the responses to the second attempt's `START` and `RETRY` both omit the
  record, the log still holds `READY` of the first retry, and the loop goes on
  at once. `wait_for_condition` repairs its log (`mark_retry_pending`), a step
  does not.
* `decides`: `map_parallel.rs:3808-3809` says that thresholds reach the same
  decision in any order. `evaluate_thresholds` reports `MinSuccessfulReached`
  only while an item is unsettled: a live run that joins the one success first
  completes with it; when that invocation ends before it records the batch, and
  the other item failed meanwhile, the resume settles the failure first and
  completes with `AllCompleted`. Only one of the two is ever recorded
  (`OneOutcome`), and either fits the recorded items (`ReasonIsJustified`).
* `forgets`: `README.md:625-626` says that `wait_for_condition` carries
  checkpointed state between attempts, the example
  (`examples/external/wait_for_condition/src/main.rs:9-10`) that it survives
  across resumes. The state is in the result of the record, which the `START` of
  the next check clears (`test_util.rs:5235-5238`, and the comment at
  `wait_for_condition.rs:379-385` expects it). When the invocation ends between
  that `START` and the outcome of the check, the next one skips the `START`
  and runs the check with the initial state, under the attempt number of the
  resumed check (`ChecksCarryState` holds: within the invocation that started
  the check the state is read in time).

Without a run of its own: `driver.rs:365-367` says that no permit of the
invocation remains when the drive returns. After a panic of the checkpoint client
(`context.rs:427`, `WriterUnwind`) the writes behind it stay in the queue with
their permits. `CleanReturn` states what does hold, with that panic in the model:
nothing but these permits is left, and then the panic or a fatal error is the
answer.

## Proofs

All by TLAPS, for every value of the constants that satisfies the named
assumptions.

* `Invocation_proofs`. `TypeCorrect`: `TypeOK` is inductive once the type of
  the coordinator record is stated operator by operator; there is one lemma
  per group of actions, since each applies methods of `CoordinatorState`.
  `LatchesNeverMeet`: `LatchesExclude` is not inductive, because a write that
  was sent before the latch was set could set the other one. `LatchInv` adds
  that one write at a time is past the token lock (`OneTokenHolder`) and that
  it was sent with no latch set (`SentUnlatched`); every other action leaves
  the latches and the set of token holders alone, or only shrinks it.
* `Invocation_proofs`, its second part, from `OneMoves` on, for any
  finite sets of tasks and writes and any set of operations. Every step makes one call on the coordinator (`CoordinatorStep`:
  it acquires, registers, finishes, withdraws, or *yields*: it lowers counts,
  retires waits, and leaves no decision untaken) and moves the permits of one
  holder (`PermitStep`); `NextCalls` shows it action by action. The rest are
  facts about these two.
  - `PermitsAreCounted`: `PermitAccounting` is not inductive, because a count
    that is lowered at zero would stay. It needs how a task's schedule, poll and
    future agree (`TaskShape`), that what a future refers to exists
    (`LinkShape`: an admitted write has one submitter, a registration one
    waiting future, a joined task this parent), and that only a withdrawn
    invocation abandons its queue as withdrawn.
  - `SuspensionIsExact`: adds what the driver's program counter says of the
    phase, the root, the tracker and the refresh (`DriverInv`), that a suspending
    invocation has no permit and no refresh (`Quiet`), and that a task
    that waits for a record which is there is about to be woken
    (`WaitsAreWoken`): so that nobody is left to wake when it suspends.
  - `WakeupsAreKept`: adds the same for outcomes of tasks (`JoinsAreWoken`), for
    futures that can go on (`ReadyIsQueued`) and for tasks that hold a permit
    (`QueuedIsComing`).
  - `ReturnsAreClean`: once the tracker is idle every task is gone and every
    write over or stranded, so the shapes leave no registration and the counts
    the permits of stranded writes. That such a write leaves a panic behind needs
    the next two results and two more invariants (`ReturnInv`): while the writer of
    the panic unwinds, the tracker is not idle, and when it ends the panic is kept,
    taken or decides (`OpenShape`, `LeftShape`).
  - `AnswersAreJustified`, `PanicsDecide`: from then on only the driver moves
    (`StillAtEnd`), so that the fatal slot it reads, the panic it takes and the
    answer agree (`VerdictShape`). The second is a property of
    suffixes; `PanicHeld` is what every step keeps of a panic.
  - `InvocationImplementsRule`: the refinement of `SuspensionRule`. The step
    that suspends leaves no work because the counts are exact, and a
    withdrawal finds no suspended invocation because a request is under way.
* `DirectWrites_proofs`. `TokenStaysCurrent`: every request carries the token
  the service expects. `TokenInv` adds that a request past admission owns the
  lock and the lock is owned by such a request (`LockIsExclusive`), that
  requests belong to a writer that writes or to the caller after the drive
  (`RequestsHaveOwners`), and that between requests the kept token is the
  service's unless a latch is set, the client panicked, or the result was sent
  (`TokenIsKept`). Assumes that updates of scopes are writes
  (`OwnersAssumption`, which also says that the final update and "no process" are
  names of their own) and that the caller is a process (`CallerAssumption`).
  `DirectWritesAreOrdered`, the refinement of `OrderedJournal`, and
  `ClosedScopesStaySilent`: `JournalInv` adds that one writer is active, that
  each write enters the order once, that the queue and what is being sent are
  sorted by that order and lie behind everything recorded, and that a closed
  scope has nothing admitted. `WritesAreTyped`: `TypeOK`.
* `BatchedWrites_proofs`. `BatchInv` says where each update is: in one batch, a
  flusher's chunks, or a request (`UpdatesAreHeld`), that batches are counted
  up and published once (`BatchesAreCounted`), that every buffer, chunk and
  request is sorted and behind the journal (`OrderIsKept`), and that a scope
  that closed has joined nothing (`JoinsAreSilent`). From it
  `BatchesAreTyped`, `ClosedScopesStaySilent`, `AnswersFollowBuffer`, and
  `BatchedWritesAreOrdered`: coalescing refines the same `OrderedJournal`.
  `BatchTokenStaysCurrent` adds `TokenIsKept`, as for the direct writes. Here the
  writer lock already leaves one request at a time (`OneRequest`), and a set
  latch leaves none past its admission (`LatchStopsRequests`).
* `DurableStep_proofs`, for a service whose responses carry the record
  (`~ Omits`, the assumption that the second finding is about).
  `StepIsTyped`, `AtMostOnceHolds`, `OutcomeIsOne`, `AttemptsCount`,
  `UpdatesAreValid`. The
  invariant `StepInv` says that the log is the record except while an update
  is in flight, that the attempt at work is the recorded one, that a body ran
  at most as often as the semantics allow for what is recorded (in particular
  not at all for an at-most-once attempt before its `START` is recorded), and
  that every outcome handed out is the recorded one, with the kind a replay would
  give it, or it is an error of a body and has a reserved type (`KindsAgree`). The number of attempts,
  crashes and values is arbitrary.
* `DurableBatch_proofs`, for any number of items, any batch of the configurations
  `ConfigAssumption` allows (a predicate is a monotonic one) and any number of
  invocations. Nothing here is inductive by itself: `BatchInv` has ten parts
  besides the types, each of which needs others.
  - The writes: the log is the record, or behind it by the write at the head
    of the queue (`LogIsBehind`); one write of each operation is on its way, for
    a log that admits it, and the outcome of the batch is the last
    (`QueueFits`). From these `BatchWritesAreValid`.
  - The plan: it is obeyed exactly when the batch is recorded, with an idle
    queue (`PlanFits`), so that what is replayed is the record.
  - The items: what each task is at and whether the coordinator has come to it
    (`TasksFit`), that what was seen is what the bodies return and is recorded
    (`ViewFits`), and that whatever the cursor passed is settled or at work
    (`PassedFits`): a batch that nothing stopped leaves no item behind, and a
    rebuild finds every item of its plan. From these `BatchOutcomeIsOne`.
  - The order: `StartedFits` says that every item that has or will have a
    record is among the started ones when the outcome is assembled. One at a
    time this is not local: an item that an earlier invocation started may lie
    beyond the cursor. `OneAtATime` says that the decision to start it was a
    function of what came before it (`Goes`), so that this invocation, which saw
    the same, does not stop short of it. With it `ResultsFitItems`.
  - The reason: `StopFits` says that the reason that stopped the batch still
    holds although more items settled since, by lemmas that counts and rules
    grow (`FailureGrows`, `MinGrows`, `PredicateGrows`), and `RulesAgree` carries
    it to the report. `ReasonsAreJustified` holds although the reason itself
    depends on the order (the finding about `DecisionIsStable`).
* `DurableHandler_proofs`, for any finite tree of operations of at most five
  levels, any kinds whose redeployment is detected, and any number of
  invocations, checks and values (`RecordsAssumption`). Every step is, for each
  operation, one of nine *local steps* (`Local`: it rests, enters, begins,
  moves on, sends its outcome, is recorded, answered, refreshed, or completed by
  the service); `WorkFits` and `ServiceFits` show it action by action, and
  `LocalKeeps` that a local step keeps what is known of one operation.
  - `Fits`: what the record, the update on its way, the log and the place in the
    operation say of one another. `WriteFits` says that a queued update will be
    valid when its turn comes, `LogFits` that the log is fresh (`Fresh`: the
    record, or what the service made of it since) until the operation recorded
    something itself. `KeptFits`: the winner a select records is one of its
    inputs, a record is the operation's own or is detected, and a check that was
    started here got the state.
  - Between operations: `InputsWait` (no input of a combinator runs before it),
    `ClaimsFit` (what was claimed below it is its own, or the invocation is
    failing). Outside invocations: `Idle`.
  - From these `HandlerIsTyped`, `UpdatesAreAccepted` (`NeverRejected`),
    `MismatchFailsCombinator`, `StateIsCarried`. `Suspend` is treated as a step
    that may always be taken: that nothing is left to do is not needed.
  - `OutcomesAreOne` (`OneOutcome`) needs to know whose value each outcome is,
    which is a second invariant over the first, `OutInv`. `OutcomeFits`: what is
    recorded is what was sent, and a returned outcome is the record's, or it is
    `MadeOf` what the inputs returned, when the record holds no payload
    (a virtual child, a combinator whose children are replayed). `AtWorkFits`: the
    same of an outcome on its way. `PathFits`: the attempts of a retry block run
    one by one, and an attempt runs only after those before it failed.
    `InputsSleep`: no input runs when its combinator does not. Each step is, for
    the operation that takes it, one of six (`OutStep`: it idles, opens, advances,
    finishes, submits or gives), and for the service one of `ServiceStep`.
    `MadeOnce` says that what is rebuilt is unique: inputs return once, so what
    is made of them does too. The kinds of errors are a third invariant
    (`KindInv`): a step returns no error, one that `BodyKind` gives to what it
    records, or the one `ReplayedKind` reads from the record, and these differ only
    for the reserved types.
  - `CombinatorsFitInputs` (`CombinedFitsInputs`) adds that what a combinator
    sends fits its inputs (`CombinedFits`, in `JoinInv`): it sends only when
    nothing failed (`DecidedCombines`), the inputs it settled with have returned
    by then, and what they returned they return always, by `OneOutcome`.
  - `FinishedContextsStayFinal` (`FinishedContextsAreFinal`) is the last, over
    `OutInv`: `FlowInv`. `QueueFits`: the queue has each update that is not
    answered, once. `OrderFits`: what is queued inside a context goes before its
    outcome, and when that is recorded nothing is queued inside it. A step would
    break it by starting something inside a context that has ended, so `QuietFits`
    says that nothing goes on inside a scope but while its body runs. `FlowStep`
    is what keeps these: updates keep their
    order and new ones come behind them, an operation is started only by the one
    it is an input of, while that one runs (`Hosts`), and when the body of a scope
    ends, or stops, all that is inside it has ended or stops with it (`Follows`).
    Combinators have no scope (`Bounded`): their losers may write behind them,
    until the scope around the combinator closes.
  - `OnlyKeeps` (what `SelectSeq` would give, by counting places),
    `FlattenedIsTyped` (a flattened sequence of sequences over a set is one, by
    the well-foundedness of finite sets) and `InsideIsATree` are the lemmas about
    operators.
* `RefreshSchedule_proofs`. `ScheduleHolds`: `ScheduleIsKept`, for any set of
  operations, records and delays. Neither part is inductive. `KeysAreArmed`
  says that what the scheduler found due stays armed until the answer is
  compared, and that its operation does not register twice; without it the
  back-off could schedule a registration that nobody armed. `RestartIsPending`
  says why a registration without a refresh is not forgotten: its record
  changed and its operation is polled before it waits, or a handle is about to
  arm it. That the scheduler sleeps until the earliest refresh needs that a
  non-empty set of numbers has a least element (`LeastOfSome`), which is taken
  from the well-foundedness of finite subsets. `ScheduleIsTyped`: `TypeOK`, a
  part of that invariant. `RefreshesAreInTime`:
  `RefreshesFit`, by what each step does to a refresh (`RefreshesMoveByDelays`).

Only model-checked: the liveness properties, which need fairness and `ENABLED`
and are out of the prover's reach. Every other property of a passing run is a
theorem. Nothing is proved by induction over data; no module with theorems has a
recursive operator.

## Not modelled

* Plugins, tracing, serdes, options, builders, AWS mapping: no control the
  properties depend on. A panic of a plugin reaches the driver as a recorded
  panic, which `Invocation` has.
* Blessing, size limits and the shape of payloads. The identity of an operation
  is its position, a model value, and its kind, which stands for type, sub type
  and name. A handler that changes keeps its tree; a child context, a retry block
  and a combinator have one identity (`RunInChildContext`), so that one
  redeployed as another would read a payload that is not its own; a virtual child
  leaves no record to compare with. `Detected` names the handlers the models and
  theorems are about: those where a replaced operation is told from the old one. Nor does a record have an unknown status.
* `run_blocking`, unscheduled tasks, the paths without a Tokio runtime, and
  dropping the drive future before it returns (`TeardownGuard` aborts without
  the waits the models are about).
* Values that fail to be decoded, and the serialization of a virtual child's and
  a combinator's own value: its failure records nothing and happens in every
  invocation again. The types recorded of the errors of other operations are
  single values (`Errors`): a type that an error keeps through a virtual child is
  left out.
* In a batch, the operations inside an item and panics of an item (they end the
  invocation: a restart). In a handler: two awaits in a row (the second is a
  handler of its own after the first returned), heartbeats, a callback handle
  that several tasks poll, the records plugins ask to keep, an unwrapped retry
  block, and inputs that were never claimed.

## Plan

In `DurableHandler`: a child redeployed as a combinator, whose payloads the
identity does not tell apart, and more than one redeployment.
