----------------------------- MODULE Invocation -----------------------------
(***************************************************************************)
(* One invocation of a durable function: the handler and its operation     *)
(* tasks under the permit-aware task gateway (task.rs), the coordinator    *)
(* that decides suspension (coordinator.rs), the detached checkpoint       *)
(* writes with what their responses do to the coordinator (context.rs),    *)
(* the refresh scheduler, and the driver with its cleanup and arbitration  *)
(* (driver.rs).                                                            *)
(*                                                                         *)
(* Each action is one critical section of one thread.  What user code does *)
(* inside a poll is a nondeterministic choice among the SDK calls it can   *)
(* make.  The order of the writes and what they carry is the business of   *)
(* modules DirectWrites and BatchedWrites; here a write is the permit it   *)
(* holds, the response it gets, and the wakes that response causes.        *)
(***************************************************************************)
EXTENDS CoordinatorState, FiniteSets

CONSTANTS
  Tasks,      \* the root task and the operation tasks that may be spawned
  Root,       \* the task that runs the handler
  NoTask,     \* the parent of a task nobody spawned yet
  Ops,        \* operations a task may wait for (wire IDs)
  Writes,     \* checkpoint writes tasks may submit
  Refresh,    \* the write of the refresh scheduler
  MaxLocal,   \* bound: bodies, timers and lost races per task
  MaxRefresh  \* bound: refreshes the scheduler sends

ASSUME TaskAssumption ==
  /\ Root \in Tasks /\ NoTask \notin Tasks /\ IsFiniteSet(Tasks)
  /\ Refresh \notin Writes /\ IsFiniteSet(Writes)
  /\ MaxLocal \in Nat /\ MaxRefresh \in Nat

VARIABLES
  c,        \* the coordinator (module CoordinatorState)
  sched,    \* the schedule state of each task
  tokio,    \* wakes on their way to a poll: [called, notified]
  poll,     \* where the Tokio worker that polls the task is
  at,       \* what the task's future does: [do, on]
  slot,     \* the outcome slot each task shares with its handle
  parent,   \* the task that holds each task's handle
  tracker,  \* the task tracker: [handles, aborting, aborted]
  fuel,     \* what is left of MaxLocal
  log,      \* operations whose merged record is ready
  wr,       \* the checkpoint writes: [st, ops, wake]
  rf,       \* the refresh scheduler: [st, ops, wake, left]
  driver,   \* the driver's program counter
  ended,    \* how the drive ended
  outcome   \* the answer of the invocation

taskVars == <<sched, tokio, poll, at, slot, parent, tracker, fuel>>
driverVars == <<driver, ended, outcome>>
vars == <<c, taskVars, log, wr, rf, driverVars>>

AllWrites == Writes \cup {Refresh}
NoWrite(st) == [st |-> st, ops |-> {}, wake |-> {}]
OpTasks == Tasks \ {Root}
SchedState == {"Unspawned", "Idle", "Queued", "Polling", "Woken", "Done"}
PollState == {"off", "entered", "polling", "leaving", "value", "panic",
              "delivered", "finished", "gone"}
WriteState == {"free", "admitted", "queued", "sent", "failing", "withdrawing",
               "failed", "withdrew", "dropped", "orphan", "merged", "waking",
               "answered", "stopped", "panicked", "unwinding", "unwound",
               "recording", "stranded", "done"}
SchedulerState == {"sleeping", "due", "sending", "answered", "waking",
                   "dead", "dropped"}
DriverState == {"start", "fatal", "root", "phase", "sched", "parked",
                "dropScheduler", "finish", "abortRoot", "awaitRoot",
                "abortAll", "waitIdle", "readFatal", "takePanic", "answer",
                "returned"}
Outcome == {"none", "Complete", "Pending", "Panic"} \cup Severity

Run == [do |-> "run", on |-> NoTask]
Stuck == [do |-> "stuck", on |-> NoTask]
Key(t, o) == <<t, o>>

SlotState == {"empty", "value", "panic", "taken", "closed"}
Future ==
  [do : {"check", "wait"}, on : Ops]
    \cup [do : {"submit", "write", "written"}, on : Writes]
    \cup [do : {"spawning", "join", "joinpoll"}, on : Tasks]
    \cup [do : {"run", "body", "bodyDone", "timer", "fired", "stuck"}, on : {NoTask}]
Wakes == [called : SUBSET Tasks, notified : SUBSET Tasks]
Tracker == [handles : SUBSET Tasks, aborting : BOOLEAN, aborted : SUBSET Tasks]
Write == [st : WriteState, ops : SUBSET Ops, wake : SUBSET Tasks]
Scheduler == [st : SchedulerState, ops : SUBSET Ops, wake : SUBSET Tasks,
              left : 0 .. MaxRefresh]

TypeOK ==
  /\ c \in CoordinatorType(Tasks \X Ops)
  /\ sched \in [Tasks -> SchedState] /\ tokio \in Wakes
  /\ poll \in [Tasks -> PollState] /\ at \in [Tasks -> Future]
  /\ slot \in [Tasks -> SlotState] /\ parent \in [Tasks -> Tasks \cup {NoTask}]
  /\ tracker \in Tracker
  /\ fuel \in [Tasks -> 0 .. MaxLocal]
  /\ log \in SUBSET Ops
  /\ wr \in [AllWrites -> Write] /\ rf \in Scheduler
  /\ driver \in DriverState
  /\ ended \in {"none", "Completed", "Interrupted"}
  /\ outcome \in Outcome

\* A panic can be recorded before the drive starts (driver.rs 430-437).
Init ==
  /\ c \in {NewCoordinator, RecordPanic(NewCoordinator)}
  /\ sched = [t \in Tasks |-> "Unspawned"]
  /\ tokio = [called |-> {}, notified |-> {}]
  /\ poll = [t \in Tasks |-> "off"]
  /\ at = [t \in Tasks |-> Run]
  /\ slot = [t \in Tasks |-> "empty"]
  /\ parent = [t \in Tasks |-> NoTask]
  /\ tracker = [handles |-> {}, aborting |-> FALSE, aborted |-> {}]
  /\ fuel = [t \in Tasks |-> MaxLocal]
  /\ log = {}
  /\ wr = [w \in AllWrites |-> NoWrite("free")]
  /\ rf = [st |-> "sleeping", ops |-> {}, wake |-> {}, left |-> MaxRefresh]
  /\ driver = "start" /\ ended = "none" /\ outcome = "none"

\* Tasks and writes the tracker counts; the root task is not one of them,
\* and no writer runs for a write that a panicked one left in the queue.
LiveTasks == {t \in OpTasks : sched[t] # "Unspawned" /\ poll[t] # "gone"}
LiveWrites ==
  {w \in AllWrites : wr[w].st \notin {"free", "admitted", "stranded", "done"}}
Idle == LiveTasks = {} /\ LiveWrites = {}

\* `TaskTracker::release`: at zero the handles and the flag are cleared.
TrackerExit ==
  tracker' = IF Idle' THEN [tracker EXCEPT !.handles = {}, !.aborting = FALSE]
                      ELSE tracker

(***************************************************************************)
(* Wakes.  `Schedule::on_wake` takes the task's permit under the schedule  *)
(* lock, so the schedule and the coordinator move together.  Only then it  *)
(* calls the waker Tokio gave the task, and Tokio polls a notified task.   *)
(***************************************************************************)
Called(t) ==
  tokio' = IF sched[t] = "Done" THEN tokio ELSE [tokio EXCEPT !.called = @ \cup {t}]
Notified(t) == tokio' = [tokio EXCEPT !.notified = @ \cup {t}]
Forgotten(t) ==
  tokio' = [called |-> tokio.called \ {t}, notified |-> tokio.notified \ {t}]

\* Mutant: a wake during a poll is not remembered.
SchedForgetsPoll(t) ==
  IF sched[t] = "Idle" /\ Grants(c, "activity") THEN "Queued" ELSE sched[t]

SchedAfterWake(t) ==
  IF sched[t] = "Idle" /\ Grants(c, "activity") THEN "Queued"
  ELSE IF sched[t] = "Polling" THEN "Woken"
  ELSE sched[t]

OnWake(t) ==
  /\ sched' = [sched EXCEPT ![t] = SchedAfterWake(t)]
  /\ c' = IF sched[t] = "Idle" /\ Grants(c, "activity")
            THEN Acquire(c, "activity") ELSE c
  /\ Called(t)

OuterWake(t) ==
  /\ t \in tokio.called
  /\ tokio' = [called |-> tokio.called \ {t}, notified |-> tokio.notified \cup {t}]
  /\ UNCHANGED <<c, sched, poll, at, slot, parent, tracker, fuel, log, wr, rf, driverVars>>

(***************************************************************************)
(* The gateway wrapper around every poll (`Wrapped::poll`).                *)
(***************************************************************************)
\* Tokio polls a notified task and the wrapper reads the phase. The task may
\* be idle: a wake that came before the last poll notifies it after it.
PollEnter(t) ==
  /\ poll[t] = "off" /\ t \in tokio.notified
  /\ sched[t] \in {"Idle", "Queued"}
  /\ t \notin tracker.aborted
  /\ c.phase = "Running"
  /\ poll' = [poll EXCEPT ![t] = "entered"]
  /\ tokio' = [tokio EXCEPT !.notified = @ \ {t}]
  /\ UNCHANGED <<c, sched, at, slot, parent, tracker, fuel, log, wr, rf, driverVars>>

\* What a future looks at first when it is polled again.
Resumed(a) ==
  CASE a.do = "wait" -> [a EXCEPT !.do = "check"]
    [] a.do = "join" -> [a EXCEPT !.do = "joinpoll"]
    [] OTHER -> a

PollBegin(t) ==
  /\ poll[t] = "entered"
  /\ \/ /\ sched[t] = "Queued" \/ Grants(c, "activity")
        /\ c' = IF sched[t] = "Queued" THEN c ELSE Acquire(c, "activity")
        /\ sched' = [sched EXCEPT ![t] = "Polling"]
        /\ poll' = [poll EXCEPT ![t] = "polling"]
        /\ at' = [at EXCEPT ![t] = Resumed(@)]
     \/ /\ sched[t] = "Idle" /\ ~ Grants(c, "activity")
        /\ poll' = [poll EXCEPT ![t] = "off"]
        /\ UNCHANGED <<c, sched, at>>
  /\ UNCHANGED <<tokio, slot, parent, tracker, fuel, log, wr, rf, driverVars>>

Suspended == {"wait", "body", "write", "timer", "join", "stuck"}

\* The poll returned Pending. A wake during the poll keeps its permit.
PollPending(t) ==
  /\ poll[t] = "polling"
  /\ at[t].do \in Suspended
  /\ sched' = [sched EXCEPT ![t] = IF @ = "Woken" THEN "Queued" ELSE "Idle"]
  /\ poll' = [poll EXCEPT ![t] = IF sched[t] = "Woken" THEN "off" ELSE "leaving"]
  /\ UNCHANGED <<c, tokio, at, slot, parent, tracker, fuel, log, wr, rf, driverVars>>

\* Mutant: an exhausted budget ends the poll like any other.
PollExhaustedIdle(t) ==
  /\ poll[t] = "polling"
  /\ at[t].do = "timer"
  /\ sched' = [sched EXCEPT ![t] = "Idle"]
  /\ poll' = [poll EXCEPT ![t] = "leaving"]
  /\ at' = [at EXCEPT ![t].do = "fired"]
  /\ Notified(t)
  /\ UNCHANGED <<c, slot, parent, tracker, fuel, log, wr, rf, driverVars>>

\* The cooperative budget is spent: a timer that was due returned Pending
\* and wakes the task only after the poll, so the task is requeued.
PollExhausted(t) ==
  /\ poll[t] = "polling"
  /\ at[t].do = "timer"
  /\ sched' = [sched EXCEPT ![t] = "Queued"]
  /\ poll' = [poll EXCEPT ![t] = "off"]
  /\ at' = [at EXCEPT ![t].do = "fired"]
  /\ Notified(t)
  /\ UNCHANGED <<c, slot, parent, tracker, fuel, log, wr, rf, driverVars>>

\* The poll's permit is released after the schedule lock.
PollLeave(t) ==
  /\ poll[t] = "leaving"
  /\ c' = Release(c, "activity")
  /\ poll' = [poll EXCEPT ![t] = "off"]
  /\ UNCHANGED <<sched, tokio, at, slot, parent, tracker, fuel, log, wr, rf, driverVars>>

(***************************************************************************)
(* What user code and the SDK futures do inside a poll.                    *)
(***************************************************************************)
Polling(t, do) == poll[t] = "polling" /\ at[t].do = do
Goto(t, a) == at' = [at EXCEPT ![t] = a]
Burn(t) == fuel[t] > 0 /\ fuel' = [fuel EXCEPT ![t] = @ - 1]

\* `wait_for_record` registers before it reads. A refused one never resolves.
StartWait(t, o) ==
  /\ Polling(t, "run")
  /\ o \notin log
  /\ IF Admits(c)
       THEN /\ c' = RegisterWait(c, Key(t, o))
            /\ Goto(t, [do |-> "check", on |-> o])
       ELSE Goto(t, Stuck) /\ UNCHANGED c
  /\ UNCHANGED <<sched, tokio, poll, slot, parent, tracker, fuel, log, wr, rf, driverVars>>

ReadRecord(t) ==
  /\ Polling(t, "check")
  /\ LET o == at[t].on IN
     IF o \in log
       THEN c' = Retire(c, Key(t, o)) /\ Goto(t, Run)
       ELSE Goto(t, [do |-> "wait", on |-> o]) /\ UNCHANGED c
  /\ UNCHANGED <<sched, tokio, poll, slot, parent, tracker, fuel, log, wr, rf, driverVars>>

\* A step body, a check or a serdes call (`hold_activity`).
StartBody(t) ==
  /\ Polling(t, "run")
  /\ Burn(t)
  /\ IF Grants(c, "activity")
       THEN /\ c' = Acquire(c, "activity")
            /\ Goto(t, [do |-> "body", on |-> NoTask])
       ELSE Goto(t, Stuck) /\ UNCHANGED c
  /\ UNCHANGED <<sched, tokio, poll, slot, parent, tracker, log, wr, rf, driverVars>>

EndBody(t) ==
  /\ Polling(t, "bodyDone")
  /\ c' = Release(c, "activity")
  /\ Goto(t, Run)
  /\ UNCHANGED <<sched, tokio, poll, slot, parent, tracker, fuel, log, wr, rf, driverVars>>

\* An await the SDK does not track, such as a plain timer.
StartTimer(t) ==
  /\ Polling(t, "run")
  /\ Burn(t)
  /\ Goto(t, [do |-> "timer", on |-> NoTask])
  /\ UNCHANGED <<c, sched, tokio, poll, slot, parent, tracker, log, wr, rf, driverVars>>

\* What the task awaited from outside is there: the future goes on.
Proceed(t) ==
  /\ Polling(t, "written") \/ Polling(t, "fired")
  /\ Goto(t, Run)
  /\ UNCHANGED <<c, sched, tokio, poll, slot, parent, tracker, fuel, log, wr, rf, driverVars>>

\* A write that enters the queue starts a writer when none runs, and that
\* writer writes what a panicked one left there.
Queued(w) ==
  [v \in AllWrites |-> IF v = w \/ wr[v].st = "stranded"
                         THEN [wr[v] EXCEPT !.st = "queued"] ELSE wr[v]]

\* A write is admitted with its permit, then queued under the queue's lock,
\* where a failed write rejects it.
SubmitWrite(t, w) ==
  /\ Polling(t, "run")
  /\ wr[w].st = "free"
  /\ IF Grants(c, "checkpoint")
       THEN /\ c' = Acquire(c, "checkpoint")
            /\ wr' = [wr EXCEPT ![w].st = "admitted"]
            /\ Goto(t, [do |-> "submit", on |-> w])
       ELSE Goto(t, Stuck) /\ UNCHANGED <<c, wr>>
  /\ UNCHANGED <<sched, tokio, poll, slot, parent, tracker, fuel, log, rf, driverVars>>

QueueWrite(t) ==
  /\ Polling(t, "submit")
  /\ LET w == at[t].on IN
     IF c.writeFailure = "None"
       THEN /\ wr' = Queued(w)
            /\ Goto(t, [do |-> "write", on |-> w])
            /\ UNCHANGED c
       ELSE /\ wr' = [wr EXCEPT ![w] = NoWrite("done")]
            /\ Goto(t, Stuck)
            /\ c' = Release(c, "checkpoint")
  /\ UNCHANGED <<sched, tokio, poll, slot, parent, tracker, fuel, log, rf, driverVars>>

\* A `select` whose other branch won drops the pending future. An admitted
\* write goes on; a registration retires; a body's permit is released.
LoseRace(t) ==
  /\ Polling(t, "check") \/ Polling(t, "body") \/ Polling(t, "write")
  /\ Burn(t)
  /\ c' = CASE at[t].do = "check" -> Retire(c, Key(t, at[t].on))
            [] at[t].do = "body" -> Release(c, "activity")
            [] OTHER -> c
  /\ Goto(t, Run)
  /\ UNCHANGED <<sched, tokio, poll, slot, parent, tracker, log, wr, rf, driverVars>>

\* `spawn_tracked`: the child's permit is taken on the calling task.
SpawnChild(t, u) ==
  /\ Polling(t, "run")
  /\ sched[u] = "Unspawned"
  /\ IF Grants(c, "activity")
       THEN /\ c' = Acquire(c, "activity")
            /\ sched' = [sched EXCEPT ![u] = "Queued"]
            /\ Notified(u)
            /\ parent' = [parent EXCEPT ![u] = t]
            /\ Goto(t, [do |-> "spawning", on |-> u])
       ELSE Goto(t, Stuck) /\ UNCHANGED <<c, sched, tokio, parent>>
  /\ UNCHANGED <<poll, slot, tracker, fuel, log, wr, rf, driverVars>>

\* `TaskTracker::register_abort`: after abort_all the task is aborted.
RegisterAbort(t) ==
  /\ Polling(t, "spawning")
  /\ tracker' = IF tracker.aborting
                  THEN [tracker EXCEPT !.aborted = @ \cup {at[t].on}]
                  ELSE [tracker EXCEPT !.handles = @ \cup {at[t].on}]
  /\ Goto(t, Run)
  /\ UNCHANGED <<c, sched, tokio, poll, slot, parent, fuel, log, wr, rf, driverVars>>

Children(t) == {u \in Tasks : parent[u] = t}
Joinable(t) == {u \in Children(t) : slot[u] \in {"empty", "value", "panic"}
                                      /\ u \notin tracker.aborted}

\* Dropping handles closes their slots; an unread panic is recorded.
ClosedSlots(us) ==
  [u \in Tasks |-> IF u \in us /\ slot[u] # "taken" THEN "closed" ELSE slot[u]]
AfterClosing(s, us) ==
  IF \E u \in us : slot[u] = "panic" THEN RecordPanic(s) ELSE s

\* Awaiting the handle of one child: its outcome is taken, or the waker
\* stays in the slot.
Awaits(t, u) ==
  /\ u \in Children(t)
  /\ \/ Polling(t, "run") /\ u \in Joinable(t)
     \/ Polling(t, "joinpoll") /\ at[t].on = u

JoinChild(t, u) ==
  /\ Awaits(t, u)
  /\ slot[u] # "panic"
  /\ IF slot[u] = "value"
       THEN slot' = [slot EXCEPT ![u] = "taken"] /\ Goto(t, Run)
       ELSE Goto(t, [do |-> "join", on |-> u]) /\ UNCHANGED slot
  /\ UNCHANGED <<c, sched, tokio, poll, parent, tracker, fuel, log, wr, rf, driverVars>>

\* A child's panic resumes in the task that awaits it, which panics too.
JoinPanic(t, u) ==
  /\ Awaits(t, u)
  /\ slot[u] = "panic"
  /\ slot' = [ClosedSlots(Children(t)) EXCEPT ![u] = "taken"]
  /\ c' = AfterClosing(c, Children(t) \ {u})
  /\ sched' = [sched EXCEPT ![t] = "Done"]
  /\ poll' = [poll EXCEPT ![t] = "panic"]
  /\ Goto(t, Run)
  /\ Forgotten(t)
  /\ UNCHANGED <<parent, tracker, fuel, log, wr, rf, driverVars>>

\* A scope that closed aborts a task started in it and drops its handle.
CancelChild(t, u) ==
  /\ Polling(t, "run")
  /\ u \in Joinable(t)
  /\ tracker' = [tracker EXCEPT !.aborted = @ \cup {u}]
  /\ slot' = ClosedSlots({u})
  /\ c' = AfterClosing(c, {u})
  /\ UNCHANGED <<sched, tokio, poll, at, parent, fuel, log, wr, rf, driverVars>>

\* An operation records a fatal error: a replay identity mismatch, a
\* context usage error, a serdes fault.
RecordFatal(t, severity) ==
  /\ Polling(t, "run")
  /\ Burn(t)
  /\ c' = Record(c, severity)
  /\ \/ Goto(t, Stuck)
     \/ UNCHANGED at
  /\ UNCHANGED <<sched, tokio, poll, slot, parent, tracker, log, wr, rf, driverVars>>

\* The future finished. Its handles are dropped, the schedule is done.
TaskEnds(t, kind) ==
  /\ Polling(t, "run")
  /\ slot' = ClosedSlots(Children(t))
  /\ c' = AfterClosing(c, Children(t))
  /\ sched' = [sched EXCEPT ![t] = "Done"]
  /\ poll' = [poll EXCEPT ![t] = kind]
  /\ Forgotten(t)
  /\ UNCHANGED <<at, parent, tracker, fuel, log, wr, rf, driverVars>>

(***************************************************************************)
(* The end of a task: the outcome is handed over before the permit goes.   *)
(***************************************************************************)
ReaderWaits(t) == parent[t] # NoTask /\ at[parent[t]] = [do |-> "join", on |-> t]

\* `Slot::deliver` stores the outcome and wakes the reader that waits.
\* Without a reader a panic is recorded and a value is dropped.
Deliver(t) ==
  /\ poll[t] \in {"value", "panic"}
  /\ poll' = [poll EXCEPT ![t] = "delivered"]
  /\ IF slot[t] = "empty"
       THEN /\ slot' = [slot EXCEPT ![t] = poll[t]]
            /\ IF ReaderWaits(t) THEN OnWake(parent[t])
               ELSE /\ c' = IF t = Root THEN WakeDriver(c) ELSE c
                    /\ UNCHANGED <<sched, tokio>>
       ELSE /\ c' = IF poll[t] = "panic" THEN RecordPanic(c) ELSE c
            /\ UNCHANGED <<sched, tokio, slot>>
  /\ UNCHANGED <<at, parent, tracker, fuel, log, wr, rf, driverVars>>

\* The root moves the phase to Finished before it releases its permit.
RootFinish ==
  /\ poll[Root] = "delivered"
  /\ c' = Finish(c)
  /\ poll' = [poll EXCEPT ![Root] = "finished"]
  /\ UNCHANGED <<sched, tokio, at, slot, parent, tracker, fuel, log, wr, rf, driverVars>>

TaskExits(t) ==
  /\ poll[t] = IF t = Root THEN "finished" ELSE "delivered"
  /\ c' = Release(c, "activity")
  /\ poll' = [poll EXCEPT ![t] = "gone"]
  /\ UNCHANGED <<sched, tokio, at, slot, parent, fuel, log, wr, rf, driverVars>>
  /\ TrackerExit

\* Tokio drops an aborted task between two polls (`Drop for Wrapped`): its
\* future first, with its registration, its body permit and its handles,
\* then the schedule with a queued permit.
\* Mutant: the schedule of a dropped task keeps its queued permit.
DropTaskQueued(t) ==
  /\ t \in tracker.aborted
  /\ poll[t] = "off" /\ sched[t] # "Unspawned"
  /\ c' = AfterClosing(c, Children(t))
  /\ slot' = ClosedSlots(Children(t))
  /\ sched' = [sched EXCEPT ![t] = "Done"]
  /\ poll' = [poll EXCEPT ![t] = "gone"]
  /\ at' = [at EXCEPT ![t] = Stuck]
  /\ Forgotten(t)
  /\ UNCHANGED <<parent, fuel, log, wr, rf, driverVars>>
  /\ TrackerExit

Registered(t) == {k \in c.waits : k[1] = t}

DropTask(t) ==
  /\ t \in tracker.aborted
  /\ poll[t] = "off" /\ sched[t] # "Unspawned"
  /\ LET retired == IF Registered(t) = {} THEN c
                    ELSE CheckSuspension([c EXCEPT !.waits = @ \ Registered(t)])
         unbodied == IF at[t].do \in {"body", "bodyDone"}
                       THEN Release(retired, "activity") ELSE retired
         closed == AfterClosing(unbodied, Children(t))
     IN c' = IF sched[t] = "Queued" THEN Release(closed, "activity") ELSE closed
  /\ slot' = ClosedSlots(Children(t))
  /\ sched' = [sched EXCEPT ![t] = "Done"]
  /\ poll' = [poll EXCEPT ![t] = "gone"]
  /\ at' = [at EXCEPT ![t] = Stuck]
  /\ Forgotten(t)
  /\ UNCHANGED <<parent, fuel, log, wr, rf, driverVars>>
  /\ TrackerExit

(***************************************************************************)
(* The world outside the SDK: step bodies and timers end.                  *)
(***************************************************************************)
OutsideWake(t) ==
  /\ sched[t] # "Done"
  /\ \/ at[t].do = "body" /\ at' = [at EXCEPT ![t].do = "bodyDone"]
     \/ at[t].do = "timer" /\ at' = [at EXCEPT ![t].do = "fired"]
  /\ OnWake(t)
  /\ UNCHANGED <<poll, slot, parent, tracker, fuel, log, wr, rf, driverVars>>

(***************************************************************************)
(* The detached checkpoint writes (`write_locked` and its callers).        *)
(***************************************************************************)
HoldsToken(w) == wr[w].st \in {"sent", "failing", "withdrawing", "failed", "withdrew"}
TokenLocked == \E w \in AllWrites : HoldsToken(w)
Latched == c.withdrawn \/ c.writeFailure # "None"

\* Mutant: a request that waited for the token does not see the latches.
StartWriteUnlatched(w) ==
  /\ wr[w].st = "queued"
  /\ ~ TokenLocked
  /\ wr' = [wr EXCEPT ![w].st = "sent"]
  /\ UNCHANGED <<c, taskVars, log, rf, driverVars>>

\* Under the token lock: a request is sent unless a latch is set.
StartWrite(w) ==
  /\ wr[w].st = "queued"
  /\ ~ TokenLocked
  /\ wr' = [wr EXCEPT ![w].st = IF Latched THEN "stopped" ELSE "sent"]
  /\ UNCHANGED <<c, taskVars, log, rf, driverVars>>

\* The response rotates the token and is merged before the lock is released.
ResponseMerged(w, ready) ==
  /\ wr[w].st = "sent"
  /\ log' = log \cup ready
  /\ wr' = [wr EXCEPT ![w].st = "merged", ![w].ops = ready]
  /\ UNCHANGED <<c, taskVars, rf, driverVars>>

\* The call failed: `fail_write` sets the latch and the fatal slot.
ResponseFailed(w, severity) ==
  /\ wr[w].st = "sent"
  /\ c' = SetWriteFailure(c, severity)
  /\ wr' = [wr EXCEPT ![w].st = "failing"]
  /\ UNCHANGED <<taskVars, log, rf, driverVars>>

\* The response has no token: `withdraw` closes admission.
ResponseTokenless(w) ==
  /\ wr[w].st = "sent"
  /\ c' = SetWithdrawn(c)
  /\ wr' = [wr EXCEPT ![w].st = "withdrawing"]
  /\ UNCHANGED <<taskVars, log, rf, driverVars>>

\* The checkpoint client panics: its task unwinds and frees the token.
ClientPanics(w) ==
  /\ wr[w].st = "sent"
  /\ wr' = [wr EXCEPT ![w].st = "panicked"]
  /\ UNCHANGED <<c, taskVars, log, rf, driverVars>>

\* `abandon_queued_writes` takes every queued write under the queue's lock
\* and drops them after it: first a write's permit, then its answer.
TakeQueued(w) ==
  /\ wr[w].st \in {"failing", "withdrawing"}
  /\ wr' = [v \in AllWrites |->
              IF wr[v].st \in {"queued", "stranded"} THEN [wr[v] EXCEPT !.st = "dropped"]
              ELSE IF v # w THEN wr[v]
              ELSE [wr[v] EXCEPT !.st = IF @ = "failing" THEN "failed" ELSE "withdrew"]]
  /\ UNCHANGED <<c, taskVars, log, rf, driverVars>>

\* Mutant: the permit of a dropped write is not released.
DropEntryLeaks(w) ==
  /\ wr[w].st = "dropped"
  /\ wr' = [wr EXCEPT ![w].st = "orphan"]
  /\ UNCHANGED <<c, taskVars, log, rf, driverVars>>

DropEntry(w) ==
  /\ wr[w].st = "dropped"
  /\ c' = IF w = Refresh THEN c ELSE Release(c, "checkpoint")
  /\ wr' = [wr EXCEPT ![w].st = "orphan"]
  /\ UNCHANGED <<taskVars, log, rf, driverVars>>

\* Then the driver is woken; a withdrawal also moves the phase.
EndFailure(w) ==
  /\ wr[w].st \in {"failed", "withdrew"}
  /\ \A v \in AllWrites : wr[v].st \notin {"dropped", "orphan"}
  /\ c' = IF wr[w].st = "failed" THEN WakeDriver(c) ELSE EndWithdrawal(c)
  /\ wr' = [wr EXCEPT ![w].st = "stopped"]
  /\ UNCHANGED <<taskVars, log, rf, driverVars>>

\* `wake_operations` collects the wakers under the lock, and wakes after it.
CollectWakers(w) ==
  /\ wr[w].st = "merged"
  /\ wr' = [wr EXCEPT ![w].st = "waking",
                      ![w].wake = {t \in Tasks : \E o \in wr[w].ops : Key(t, o) \in c.waits}]
  /\ UNCHANGED <<c, taskVars, log, rf, driverVars>>

WakeWaiter(w, t) ==
  /\ wr[w].st = "waking" /\ t \in wr[w].wake
  /\ OnWake(t)
  /\ wr' = [wr EXCEPT ![w].wake = @ \ {t}]
  /\ UNCHANGED <<poll, at, slot, parent, tracker, fuel, log, rf, driverVars>>

\* The result is sent to the caller, whose wake takes its own permit. The
\* caller of a write that failed, panicked, was stopped or dropped never
\* resolves.
Callers(w) == {t \in Tasks : at[t] = [do |-> "write", on |-> w]}
Answered(w) == wr[w].st = "waking" /\ wr[w].wake = {}

AnswerCaller(w) ==
  /\ w \in Writes
  /\ Answered(w) \/ wr[w].st \in {"stopped", "orphan", "panicked"}
  /\ \/ \E t \in Callers(w) :
          /\ OnWake(t)
          /\ Goto(t, IF Answered(w) THEN [at[t] EXCEPT !.do = "written"] ELSE Stuck)
     \/ Callers(w) = {} /\ UNCHANGED <<c, sched, tokio, at>>
  /\ wr' = [wr EXCEPT ![w] =
              CASE @.st = "orphan" -> NoWrite("done")
                [] @.st = "panicked" -> [@ EXCEPT !.st = "unwinding"]
                [] OTHER -> [@ EXCEPT !.st = "answered"]]
  /\ UNCHANGED <<poll, slot, parent, tracker, fuel, log, rf, driverVars>>

\* Then the write's checkpoint permit is released.
ReleaseWrite(w) ==
  /\ w \in Writes
  /\ wr[w].st = "answered"
  /\ c' = Release(c, "checkpoint")
  /\ wr' = [wr EXCEPT ![w] = NoWrite("done")]
  /\ UNCHANGED <<sched, tokio, poll, at, slot, parent, fuel, log, rf, driverVars>>
  /\ TrackerExit

\* The unwinding write drops its answer, and then its permit. The caller of
\* a refresh is the scheduler, which waits on.
UnwindWrite(w) ==
  /\ wr[w].st = IF w = Refresh THEN "panicked" ELSE "unwinding"
  /\ c' = IF w = Refresh THEN c ELSE Release(c, "checkpoint")
  /\ wr' = [wr EXCEPT ![w].st = "unwound"]
  /\ UNCHANGED <<taskVars, log, rf, driverVars>>

\* `WriterUnwind`: the direct writer stops, and what is queued stays in the
\* queue until a write starts the next writer. A batch left other batches to
\* the flushers they have.
WriterStops(w) ==
  /\ wr[w].st = "unwound"
  /\ \E left \in {{}, {v \in AllWrites : wr[v].st = "queued"}} :
       wr' = [v \in AllWrites |->
                IF v = w THEN [wr[v] EXCEPT !.st = "recording"]
                ELSE IF v \in left THEN [wr[v] EXCEPT !.st = "stranded"] ELSE wr[v]]
  /\ UNCHANGED <<c, taskVars, log, rf, driverVars>>

\* The gateway records the panic of the writer's task, which ends.
RecordWriterPanic(w) ==
  /\ wr[w].st = "recording"
  /\ c' = RecordPanic(c)
  /\ wr' = [wr EXCEPT ![w] = NoWrite(IF w = Refresh THEN "free" ELSE "done")]
  /\ UNCHANGED <<sched, tokio, poll, at, slot, parent, fuel, log, rf, driverVars>>
  /\ TrackerExit

\* The refresh's write holds no permit of its own: its result goes to the
\* scheduler, which the driver polls, unless the drive dropped it.
EndRefreshWrite ==
  /\ \/ /\ wr[Refresh].st = "waking" /\ wr[Refresh].wake = {}
        /\ IF rf.st = "sending"
             THEN /\ rf' = [rf EXCEPT !.st = "answered", !.ops = wr[Refresh].ops]
                  /\ c' = WakeDriver(c)
             ELSE UNCHANGED <<c, rf>>
     \/ wr[Refresh].st \in {"stopped", "orphan"} /\ UNCHANGED <<c, rf>>
  /\ wr' = [wr EXCEPT ![Refresh] = NoWrite("free")]
  /\ UNCHANGED <<sched, tokio, poll, at, slot, parent, fuel, log, driverVars>>
  /\ TrackerExit

(***************************************************************************)
(* The driver: one poll checks the fatal slot and the panic, the root, the *)
(* phase, and then polls the refresh scheduler.                            *)
(***************************************************************************)
DriveStart ==
  /\ driver = "start"
  /\ LET begun == IF c.panic THEN Finish(c) ELSE c
     IN IF Grants(begun, "activity")
          THEN /\ c' = Acquire(begun, "activity")
               /\ sched' = [sched EXCEPT ![Root] = "Queued"]
          ELSE /\ c' = begun
               /\ sched' = [sched EXCEPT ![Root] = "Idle"]
  /\ Notified(Root)
  /\ driver' = "fatal"
  /\ UNCHANGED <<poll, at, slot, parent, tracker, fuel, log, wr, rf, ended, outcome>>

EndDrive(how) == ended' = how /\ driver' = "dropScheduler"

\* The poll consumes the wake that started it.
DriverCheckFatal ==
  /\ driver = "fatal"
  /\ c' = [c EXCEPT !.driverWoken = FALSE]
  /\ IF c.fatal # "None" \/ c.panic
       THEN EndDrive("Interrupted")
       ELSE driver' = "root" /\ UNCHANGED ended
  /\ UNCHANGED <<taskVars, log, wr, rf, outcome>>

DriverPollRoot ==
  /\ driver = "root"
  /\ CASE slot[Root] = "value" -> EndDrive("Completed") /\ UNCHANGED c
       [] slot[Root] = "panic" -> EndDrive("Interrupted") /\ c' = RecordPanic(c)
       [] OTHER -> driver' = "phase" /\ UNCHANGED <<c, ended>>
  /\ slot' = [slot EXCEPT ![Root] = IF @ \in {"value", "panic"} THEN "taken" ELSE @]
  /\ UNCHANGED <<sched, tokio, poll, at, parent, tracker, fuel, log, wr, rf, outcome>>

DriverCheckPhase ==
  /\ driver = "phase"
  /\ IF c.phase = "Suspending"
       THEN EndDrive("Interrupted")
       ELSE driver' = "sched" /\ UNCHANGED ended
  /\ UNCHANGED <<c, taskVars, log, wr, rf, outcome>>

\* `refresh_scheduler`: the due registrations are taken under one lock and
\* the permit under the next. A refused permit stops the scheduler.
SchedulerTakesDue ==
  /\ driver = "sched" /\ rf.st = "sleeping"
  /\ c.waits # {} /\ rf.left > 0
  /\ rf' = [rf EXCEPT !.st = "due", !.left = @ - 1]
  /\ UNCHANGED <<c, taskVars, log, wr, driverVars>>

SchedulerSends ==
  /\ driver = "sched" /\ rf.st = "due"
  /\ IF Grants(c, "scheduler")
       THEN /\ c' = Acquire(c, "scheduler")
            /\ rf' = [rf EXCEPT !.st = "sending"]
            /\ wr' = IF c.writeFailure = "None"
                       THEN Queued(Refresh) ELSE wr
       ELSE rf' = [rf EXCEPT !.st = "dead"] /\ UNCHANGED <<c, wr>>
  /\ UNCHANGED <<taskVars, log, driverVars>>

\* `after_refresh` wakes each changed registration once more.
SchedulerAnswered ==
  /\ driver = "sched" /\ rf.st = "answered"
  /\ rf' = [rf EXCEPT !.st = "waking",
                      !.wake = {t \in Tasks : \E o \in rf.ops : Key(t, o) \in c.waits}]
  /\ UNCHANGED <<c, taskVars, log, wr, driverVars>>

SchedulerWakes(t) ==
  /\ driver = "sched" /\ rf.st = "waking" /\ t \in rf.wake
  /\ OnWake(t)
  /\ rf' = [rf EXCEPT !.wake = @ \ {t}]
  /\ UNCHANGED <<poll, at, slot, parent, tracker, fuel, log, wr, driverVars>>

SchedulerDone ==
  /\ driver = "sched" /\ rf.st = "waking" /\ rf.wake = {}
  /\ c' = Release(c, "scheduler")
  /\ rf' = [rf EXCEPT !.st = "sleeping", !.ops = {}]
  /\ UNCHANGED <<taskVars, log, wr, driverVars>>

DriverParks ==
  /\ driver = "sched" /\ rf.st \in {"sleeping", "sending", "dead"}
  /\ driver' = "parked"
  /\ UNCHANGED <<c, taskVars, log, wr, rf, ended, outcome>>

\* The driver is polled again when woken, or when a refresh is due.
DriverWakes ==
  /\ driver = "parked"
  /\ c.driverWoken \/ (rf.st = "sleeping" /\ rf.left > 0 /\ c.waits # {})
  /\ driver' = "fatal"
  /\ UNCHANGED <<c, taskVars, log, wr, rf, ended, outcome>>

(***************************************************************************)
(* The cleanup, whatever ended the drive, and the arbitration.             *)
(***************************************************************************)
DropScheduler ==
  /\ driver = "dropScheduler"
  /\ c' = IF rf.st \in {"sending", "answered", "waking"}
            THEN Release(c, "scheduler") ELSE c
  /\ rf' = [rf EXCEPT !.st = "dropped", !.wake = {}]
  /\ driver' = "finish"
  /\ UNCHANGED <<taskVars, log, wr, ended, outcome>>

DriverFinish ==
  /\ driver = "finish"
  /\ c' = Finish(c)
  /\ driver' = "abortRoot"
  /\ UNCHANGED <<taskVars, log, wr, rf, ended, outcome>>

\* The root is aborted and its handle dropped, then awaited.
AbortRoot ==
  /\ driver = "abortRoot"
  /\ tracker' = [tracker EXCEPT !.aborted = @ \cup {Root}]
  /\ slot' = ClosedSlots({Root})
  /\ c' = AfterClosing(c, {Root})
  /\ driver' = "awaitRoot"
  /\ UNCHANGED <<sched, tokio, poll, at, parent, fuel, log, wr, rf, ended, outcome>>

\* Mutant: the driver does not wait for the aborted root.
RootNotAwaited ==
  /\ driver = "awaitRoot"
  /\ driver' = "abortAll"
  /\ UNCHANGED <<c, taskVars, log, wr, rf, ended, outcome>>

RootAwaited ==
  /\ driver = "awaitRoot" /\ poll[Root] = "gone"
  /\ driver' = "abortAll"
  /\ UNCHANGED <<c, taskVars, log, wr, rf, ended, outcome>>

AbortAll ==
  /\ driver = "abortAll"
  /\ tracker' = [handles |-> {}, aborting |-> ~ Idle,
                 aborted |-> tracker.aborted \cup tracker.handles]
  /\ driver' = "waitIdle"
  /\ UNCHANGED <<c, sched, tokio, poll, at, slot, parent, fuel, log, wr, rf, ended, outcome>>

\* Mutant: the arbitration does not wait for the writes in flight.
WaitIdleForTasks ==
  /\ driver = "waitIdle" /\ LiveTasks = {}
  /\ driver' = "readFatal"
  /\ UNCHANGED <<c, taskVars, log, wr, rf, ended, outcome>>

WaitIdle ==
  /\ driver = "waitIdle" /\ Idle
  /\ driver' = "readFatal"
  /\ UNCHANGED <<c, taskVars, log, wr, rf, ended, outcome>>

\* Mutant: an empty fatal slot is read as an answer.
ReadFatalUntested ==
  /\ driver = "readFatal"
  /\ outcome' = c.fatal
  /\ driver' = "takePanic"
  /\ UNCHANGED <<c, taskVars, log, wr, rf, ended>>

\* The fatal error is read first, then panic ownership is closed.
ReadFatal ==
  /\ driver = "readFatal"
  /\ outcome' = IF c.fatal # "None" THEN c.fatal ELSE "none"
  /\ driver' = "takePanic"
  /\ UNCHANGED <<c, taskVars, log, wr, rf, ended>>

\* Mutant: the handler's result outranks a panic.
ArbitrateResultFirst ==
  /\ driver = "takePanic"
  /\ c' = TakePanic(c)
  /\ outcome' = IF outcome # "none" THEN outcome
                ELSE IF ended = "Completed" THEN "Complete"
                ELSE IF c.panic THEN "Panic" ELSE "Pending"
  /\ driver' = "answer"
  /\ UNCHANGED <<taskVars, log, wr, rf, ended>>

Arbitrate ==
  /\ driver = "takePanic"
  /\ c' = TakePanic(c)
  /\ outcome' = IF outcome # "none" THEN outcome
                ELSE IF c.panic THEN "Panic"
                ELSE IF ended = "Completed" THEN "Complete" ELSE "Pending"
  /\ driver' = "answer"
  /\ UNCHANGED <<taskVars, log, wr, rf, ended>>

\* `withdrawal_answer`: a withdrawn invocation answers PENDING.
Answer ==
  /\ driver = "answer"
  /\ outcome' = IF c.withdrawn /\ outcome # "Panic" THEN "Pending" ELSE outcome
  /\ driver' = "returned"
  /\ UNCHANGED <<c, taskVars, log, wr, rf, ended>>

GatewayStep(t) ==
  OuterWake(t) \/ PollEnter(t) \/ PollBegin(t) \/ PollPending(t) \/ PollExhausted(t) \/ PollLeave(t)
    \/ Deliver(t) \/ TaskExits(t) \/ DropTask(t)

UserStep(t) ==
  \/ \E o \in Ops : StartWait(t, o)
  \/ ReadRecord(t) \/ StartBody(t) \/ EndBody(t) \/ StartTimer(t) \/ Proceed(t)
  \/ \E w \in Writes : SubmitWrite(t, w)
  \/ QueueWrite(t) \/ LoseRace(t)
  \/ \E u \in OpTasks : SpawnChild(t, u) \/ JoinChild(t, u) \/ JoinPanic(t, u)
                          \/ CancelChild(t, u)
  \/ RegisterAbort(t)
  \/ \E severity \in Severity : RecordFatal(t, severity)
  \/ TaskEnds(t, "value") \/ TaskEnds(t, "panic")

ServiceStep(w) ==
  \/ \E ready \in SUBSET (Ops \ log) : ResponseMerged(w, ready)
  \/ \E severity \in Severity : ResponseFailed(w, severity)
  \/ ResponseTokenless(w)
  \/ ClientPanics(w)

WriteStep(w) ==
  \/ StartWrite(w) \/ TakeQueued(w) \/ DropEntry(w) \/ EndFailure(w) \/ CollectWakers(w)
  \/ \E t \in Tasks : WakeWaiter(w, t)
  \/ AnswerCaller(w) \/ ReleaseWrite(w)
  \/ UnwindWrite(w) \/ WriterStops(w) \/ RecordWriterPanic(w)

SchedulerStep ==
  \/ SchedulerTakesDue \/ SchedulerSends \/ SchedulerAnswered \/ SchedulerDone
  \/ \E t \in Tasks : SchedulerWakes(t)

DriverStep ==
  \/ DriveStart \/ DriverCheckFatal \/ DriverPollRoot \/ DriverCheckPhase
  \/ DriverParks \/ DriverWakes \/ DropScheduler \/ DriverFinish \/ AbortRoot
  \/ RootAwaited \/ AbortAll \/ WaitIdle \/ ReadFatal \/ Arbitrate \/ Answer

\* The invocation answered and nothing of it is left.
Returned == driver = "returned" /\ UNCHANGED vars

Next ==
  \/ \E t \in Tasks : GatewayStep(t) \/ UserStep(t) \/ OutsideWake(t)
  \/ RootFinish
  \/ \E w \in AllWrites : ServiceStep(w) \/ WriteStep(w)
  \/ EndRefreshWrite
  \/ SchedulerStep
  \/ DriverStep
  \/ Returned

Spec == Init /\ [][Next]_vars

(***************************************************************************)
(* Fairness.  Tokio polls every notified task and drops every aborted one, *)
(* a poll of user code returns, step bodies and timers end, a request to   *)
(* the service ends, and the driver is polled when woken.  Nothing makes   *)
(* the service ready an operation.                                         *)
(***************************************************************************)
Fairness ==
  /\ \A t \in Tasks :
       /\ WF_vars(OuterWake(t)) /\ WF_vars(PollEnter(t)) /\ WF_vars(PollBegin(t))
       /\ WF_vars(PollPending(t)) /\ WF_vars(PollLeave(t))
       /\ WF_vars(UserStep(t)) /\ WF_vars(OutsideWake(t))
       /\ WF_vars(Deliver(t)) /\ WF_vars(TaskExits(t)) /\ WF_vars(DropTask(t))
  /\ WF_vars(RootFinish)
  /\ \A w \in AllWrites : WF_vars(ServiceStep(w)) /\ WF_vars(WriteStep(w))
  /\ WF_vars(EndRefreshWrite)
  /\ WF_vars(SchedulerStep)
  /\ WF_vars(DriverStep)

FairSpec == Spec /\ Fairness

(***************************************************************************)
(* Properties.                                                             *)
(***************************************************************************)
Runnable == {t \in Tasks : sched[t] \in {"Queued", "Polling", "Woken"}}
Ending == {t \in Tasks : poll[t] \in {"leaving", "value", "panic", "delivered", "finished"}}
Bodies == {t \in Tasks : at[t].do \in {"body", "bodyDone"}}
Admitted ==
  {w \in Writes : wr[w].st \notin {"free", "orphan", "unwound", "recording", "done"}}
Stranded == {w \in Writes : wr[w].st = "stranded"}
Refreshing == rf.st \in {"sending", "answered", "waking"}

\* The three counts of the coordinator are the permits that are held: no
\* race of a wake with the end of a poll, no abort and no dropped write
\* leaks a permit or releases one twice (task.rs `Schedule`).
PermitAccounting ==
  /\ c.activity = Cardinality(Runnable) + Cardinality(Ending) + Cardinality(Bodies)
  /\ c.checkpoint = Cardinality(Admitted)
  /\ c.scheduler = IF Refreshing THEN 1 ELSE 0

\* An invocation suspends only when nothing can make progress: no task is
\* runnable, no body runs, no admitted write is unanswered, no refresh is
\* open, and no waiting operation has a record that is ready.
SuspensionIsQuiescent ==
  c.phase = "Suspending" /\ ~ c.withdrawn =>
    /\ Runnable = {} /\ Ending = {} /\ Bodies = {}
    /\ Admitted = {} /\ ~ Refreshing
    /\ \A k \in c.waits : k[2] \notin log

\* The converse: the step that leaves the invocation with waits and without
\* permits decides at once; no such state lingers in phase Running.
DecisionIsPrompt == ~ MustSuspend(c)

\* The decision to suspend is taken exactly when it must be.
DecisionIsExact == SuspensionIsQuiescent /\ DecisionIsPrompt

\* No wakeup is lost: while permits are granted, an idle task has nothing
\* to go on with, or somebody is about to wake it; and a task that holds a
\* permit for its next poll is on its way to be polled, or to be dropped.
SomebodyWakes(t) ==
  \/ \E w \in AllWrites : wr[w].st = "waking" /\ t \in wr[w].wake
  \/ \E w \in AllWrites : wr[w].st = "merged" /\ at[t].on \in wr[w].ops
CanGoOn(t) ==
  \/ at[t].do \in {"run", "bodyDone", "written", "fired"}
  \/ at[t].do = "wait" /\ at[t].on \in log
  \/ at[t].do = "join" /\ slot[at[t].on] \in {"value", "panic"}
NoLostWakeup ==
  \A t \in Tasks :
    /\ Admits(c) /\ sched[t] = "Idle" /\ CanGoOn(t) => SomebodyWakes(t)
    /\ sched[t] \in {"Queued", "Woken"} =>
         \/ t \in tokio.called \cup tokio.notified \cup tracker.aborted
         \/ poll[t] = "entered"

\* When the invocation answers, nothing of it is left: no task, no
\* registration, no write in flight, and no permit (driver.rs,
\* `drive_invocation`) but those of the writes a panic of the checkpoint
\* client left in the queue; then that panic, or a fatal error, decides.
CleanReturn ==
  driver = "returned" =>
    /\ c.activity = 0 /\ c.scheduler = 0 /\ c.waits = {} /\ LiveWrites = {}
    /\ c.checkpoint = Cardinality(Stranded)
    /\ Stranded # {} => outcome = "Panic" \/ c.fatal # "None"
    /\ \A t \in Tasks : sched[t] # "Unspawned" => poll[t] = "gone"

\* A failed write and a withdrawn token never meet in one invocation,
\* because either latch stops the next request (`withdrawal_answer`).
LatchesExclude == ~ (c.withdrawn /\ c.writeFailure # "None")

\* The answer is decided by everything recorded while the tasks unwound: a
\* fatal error outranks the handler's result even when its write was still
\* in flight as the handler returned; PENDING without a withdrawal means
\* that the drive was interrupted, and not that the handler ended.
AnswerIsJustified ==
  driver = "returned" =>
    /\ c.fatal # "None" => outcome = IF c.withdrawn THEN "Pending" ELSE c.fatal
    /\ c.writeFailure # "None" => outcome = c.fatal
    /\ outcome = "Complete" => slot[Root] = "taken" /\ ~ c.withdrawn
    /\ outcome = "Pending" => c.withdrawn \/ ended = "Interrupted"

\* A panic that was kept decides the answer unless a fatal error outranks
\* it: no cleanup step loses it.
PanicDecides ==
  [](c.panic => [](driver = "returned" => outcome = "Panic" \/ c.fatal # "None"))

\* Every drive ends: whatever the tasks await, the handler resolves, the
\* invocation suspends, or a failure or a withdrawal ends it, and then the
\* cleanup finds every task unwound.
DriveEnds == <>(driver = "returned")

(***************************************************************************)
(* The invocation implements the suspension rule.                          *)
(***************************************************************************)
RuleWork == ({"task", "body"} \X Tasks) \cup ({"write"} \X AllWrites)
RuleState ==
  IF c.phase = "Finished" THEN "closed"
  ELSE IF c.withdrawn THEN "withdrawn"
  ELSE IF c.phase = "Suspending" THEN "suspended" ELSE "open"
RuleAble ==
  ({"task"} \X (Runnable \cup Ending)) \cup ({"body"} \X Bodies)
    \cup ({"write"} \X (Admitted \cup (IF Refreshing THEN {Refresh} ELSE {})))

Rule == INSTANCE SuspensionRule
          WITH Work <- RuleWork, Waits <- Tasks \X Ops,
               state <- RuleState, able <- RuleAble, waiting <- c.waits

\* Every step of the invocation is a step the rule allows, or none.
ImplementsRule == Rule!RuleSpec
=============================================================================
