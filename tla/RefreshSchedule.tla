-------------------------- MODULE RefreshSchedule --------------------------
(***************************************************************************)
(* The refresh scheduler and the schedules of the wait registrations       *)
(* (coordinator.rs, driver.rs): how an operation that waits beside other   *)
(* work of an open invocation learns that its record changed.              *)
(*                                                                         *)
(* All times are countdowns: the time left until an instant, zero once it  *)
(* has passed.  `Tick` lets time pass.  The lengths are parameters, so     *)
(* that small ones can stand for the seconds of the code.                  *)
(***************************************************************************)
EXTENDS Naturals, FiniteSets

CONSTANTS
  Ops,              \* the operations that wait
  Spawned,          \* those started on a task of their own
  Changes,          \* how often a record changes; then it is ready
  Dues,             \* end times a record may carry
  Unknown,          \* no time: no end time, no refresh armed, no deadline
  Deadline,         \* the time until the Lambda deadline, if there is one
  InitialDelay,     \* INITIAL_REFRESH_DELAY
  MinRemaining,     \* MIN_REMAINING_TO_REFRESH
  Ceiling,          \* REFRESH_INTERVAL_CEILING
  Extended,         \* EXTENDED_REFRESH_INTERVAL
  BeforeExtended    \* REFRESHES_BEFORE_EXTENDED_INTERVAL

ASSUME ScheduleAssumption ==
  /\ Spawned \subseteq Ops /\ Changes \in Nat \ {0}
  /\ Dues \subseteq Nat /\ Unknown \notin Nat
  /\ {Deadline, InitialDelay, MinRemaining, Ceiling, Extended, BeforeExtended} \subseteq Nat

VARIABLES
  record,   \* what the service stores: [status, due]; status Changes is ready
  log,      \* the invocation's copy
  reg,      \* the registration of each operation (Registration)
  task,     \* the operation's task: "register", "read", "idle", "done"
  woken,    \* operations woken and not polled since
  owing,    \* threads between their critical section and `notify_one`
  awaited,  \* the operations whose first-poll flag is set
  flagging, \* handles that set the flag and did not call notify_awaited yet
  rearm,    \* the stored notification of `rearm`
  sched,    \* the scheduler: [pc, until, keys, view]
  remaining,\* the time until the deadline
  busy      \* other work holds the invocation open

vars == <<record, log, reg, task, woken, owing, awaited, flagging, rearm, sched,
          remaining, busy>>

Time == Nat \cup {Unknown}
View == [status : 0 .. Changes, due : Time]
NoRegistration == [live |-> FALSE, status |-> 0, due |-> Unknown, armed |-> FALSE,
                   next |-> Unknown, unchanged |-> 0, restart |-> FALSE]
Sleeping == [pc |-> "read", until |-> Unknown, keys |-> {}, view |-> [o \in {} |-> 0]]

TypeOK ==
  /\ record \in [Ops -> View] /\ log \in [Ops -> View]
  /\ reg \in [Ops -> [live : BOOLEAN, status : 0 .. Changes, due : Time, armed : BOOLEAN,
                      next : Time, unchanged : 0 .. BeforeExtended + 1, restart : BOOLEAN]]
  /\ \A o \in Ops : reg[o].next # Unknown => reg[o].live /\ reg[o].armed
  /\ task \in [Ops -> {"register", "read", "idle", "done"}]
  /\ woken \subseteq Ops /\ owing \subseteq Ops /\ awaited \subseteq Ops
  /\ flagging \subseteq Spawned /\ rearm \in BOOLEAN
  /\ sched.pc \in {"read", "sleep", "take", "send", "view", "after", "stopped"}
  /\ sched.until \in Time /\ sched.keys \subseteq Ops
  /\ remaining \in Time /\ busy \in BOOLEAN

Init ==
  /\ record \in [Ops -> [status : {0}, due : Dues \cup {Unknown}]]
  /\ log = record
  /\ reg = [o \in Ops |-> NoRegistration]
  /\ task = [o \in Ops |-> "register"]
  /\ woken = {} /\ owing = {}
  /\ awaited = Ops \ Spawned /\ flagging = {}
  /\ rearm = FALSE /\ sched = Sleeping
  /\ remaining \in {Deadline, Unknown} /\ busy = TRUE

IsReady(v) == v.status = Changes

(***************************************************************************)
(* The delays.                                                             *)
(***************************************************************************)
Least(S) == IF S = {} THEN Unknown ELSE CHOOSE m \in S : \A n \in S : m <= n

FitsBeforeDeadline(delay) == remaining = Unknown \/ delay + MinRemaining <= remaining
IfFits(delay) == IF FitsBeforeDeadline(delay) THEN delay ELSE Unknown

FirstRefreshDelay(due) == IfFits(IF due = Unknown THEN InitialDelay ELSE due)

RefreshDelay(unchanged) ==
  IF unchanged > BeforeExtended THEN Extended ELSE Least({unchanged, Ceiling})

\* `Registration::arm`.
Armed(r) == [r EXCEPT !.armed = TRUE, !.next = FirstRefreshDelay(r.due)]

(***************************************************************************)
(* An operation waits (`wait_for_record`).  It registers, notifies the     *)
(* scheduler if it armed a refresh, and then reads its record.             *)
(***************************************************************************)
Registered(o, isAwaited) ==
  LET r == [NoRegistration EXCEPT !.live = TRUE, !.status = log[o].status, !.due = log[o].due]
  IN  IF isAwaited THEN Armed(r) ELSE r

\* Mutant: a registration does not notify the scheduler.
RegisterSilently(o) ==
  /\ task[o] = "register"
  /\ reg' = [reg EXCEPT ![o] = Registered(o, o \in awaited)]
  /\ task' = [task EXCEPT ![o] = "read"]
  /\ UNCHANGED <<record, log, woken, owing, awaited, flagging, rearm, sched, remaining, busy>>

\* Mutant: the registration forgets that the handle was polled already.
RegisterUnawaited(o) ==
  /\ task[o] = "register"
  /\ reg' = [reg EXCEPT ![o] = Registered(o, o \notin Spawned)]
  /\ owing' = IF reg'[o].next # Unknown THEN owing \cup {o} ELSE owing
  /\ task' = [task EXCEPT ![o] = "read"]
  /\ UNCHANGED <<record, log, woken, awaited, flagging, rearm, sched, remaining, busy>>

Register(o) ==
  /\ task[o] = "register"
  /\ reg' = [reg EXCEPT ![o] = Registered(o, o \in awaited)]
  /\ owing' = IF reg'[o].next # Unknown THEN owing \cup {o} ELSE owing
  /\ task' = [task EXCEPT ![o] = "read"]
  /\ UNCHANGED <<record, log, woken, awaited, flagging, rearm, sched, remaining, busy>>

Notify(o) ==
  /\ o \in owing
  /\ owing' = owing \ {o} /\ rearm' = TRUE
  /\ UNCHANGED <<record, log, reg, task, woken, awaited, flagging, sched, remaining, busy>>

\* A ready record ends the wait and retires its registration.
EndWait(o) ==
  /\ task[o] = "read" /\ o \notin owing /\ IsReady(log[o])
  /\ task' = [task EXCEPT ![o] = "done"]
  /\ reg' = [reg EXCEPT ![o] = NoRegistration]
  /\ owing' = IF reg[o].next # Unknown THEN owing \cup {o} ELSE owing
  /\ UNCHANGED <<record, log, woken, awaited, flagging, rearm, sched, remaining, busy>>

\* Mutant: an operation that waits again does not start its schedule again.
WaitAgainUnscheduled(o) ==
  /\ task[o] = "read" /\ o \notin owing /\ ~ IsReady(log[o])
  /\ task' = [task EXCEPT ![o] = "idle"]
  /\ UNCHANGED <<record, log, reg, owing, woken, awaited, flagging, rearm, sched, remaining,
                 busy>>

\* Any other record lets it wait again (`resume_schedule`).
WaitAgain(o) ==
  /\ task[o] = "read" /\ o \notin owing /\ ~ IsReady(log[o])
  /\ task' = [task EXCEPT ![o] = "idle"]
  /\ reg' = [reg EXCEPT ![o] = IF @.restart THEN Armed([@ EXCEPT !.restart = FALSE]) ELSE @]
  /\ owing' = IF reg[o].restart /\ reg'[o].next # Unknown THEN owing \cup {o} ELSE owing
  /\ UNCHANGED <<record, log, woken, awaited, flagging, rearm, sched, remaining, busy>>

PollAgain(o) ==
  /\ task[o] = "idle" /\ o \in woken
  /\ task' = [task EXCEPT ![o] = "read"]
  /\ woken' = woken \ {o}
  /\ UNCHANGED <<record, log, reg, owing, awaited, flagging, rearm, sched, remaining, busy>>

\* The handle of a spawned operation is polled for the first time: it sets
\* the flag, and then arms what was registered before (`notify_awaited`).
FirstPoll(o) ==
  /\ o \in Spawned \ awaited
  /\ awaited' = awaited \cup {o} /\ flagging' = flagging \cup {o}
  /\ UNCHANGED <<record, log, reg, task, woken, owing, rearm, sched, remaining, busy>>

NotifyAwaited(o) ==
  /\ o \in flagging
  /\ flagging' = flagging \ {o}
  /\ LET unarmed == {p \in awaited : reg[p].live /\ ~ reg[p].armed}
     IN  /\ reg' = [p \in Ops |-> IF p \in unarmed THEN Armed(reg[p]) ELSE reg[p]]
         /\ rearm' = (rearm \/ \E p \in unarmed : reg'[p].next # Unknown)
  /\ UNCHANGED <<record, log, task, woken, owing, awaited, sched, remaining, busy>>

(***************************************************************************)
(* The scheduler loop (driver.rs, `refresh_scheduler`).                    *)
(***************************************************************************)
Live == {o \in Ops : reg[o].live}
NextRefreshAt == Least({reg[o].next : o \in Live} \ {Unknown})
Goto(pc) == sched' = [sched EXCEPT !.pc = pc]

ReadNext ==
  /\ sched.pc = "read"
  /\ sched' = [sched EXCEPT !.pc = "sleep", !.until = NextRefreshAt]
  /\ UNCHANGED <<record, log, reg, task, woken, owing, awaited, flagging, rearm, remaining, busy>>

Rearmed ==
  /\ sched.pc = "sleep" /\ rearm
  /\ rearm' = FALSE /\ Goto("read")
  /\ UNCHANGED <<record, log, reg, task, woken, owing, awaited, flagging, remaining, busy>>

SleptUntilDue ==
  /\ sched.pc = "sleep" /\ ~ rearm /\ sched.until = 0
  /\ Goto("take")
  /\ UNCHANGED <<record, log, reg, task, woken, owing, awaited, flagging, rearm, remaining, busy>>

DueNow == {o \in Live : reg[o].next = 0}
UnderFloor == remaining # Unknown /\ remaining < MinRemaining

\* `take_due`, and the scheduler permit: nothing is due any more, too
\* little time is left, the permit is refused, or the refresh is sent.
TakeDue ==
  /\ sched.pc = "take"
  /\ IF DueNow = {} THEN Goto("read") /\ UNCHANGED reg
     ELSE IF UnderFloor
       THEN /\ reg' = [o \in Ops |-> IF o \in DueNow THEN [reg[o] EXCEPT !.next = Unknown]
                                                     ELSE reg[o]]
            /\ Goto("read")
     ELSE IF ~ busy THEN Goto("stopped") /\ UNCHANGED reg
     ELSE sched' = [sched EXCEPT !.pc = "send", !.keys = DueNow] /\ UNCHANGED reg
  /\ UNCHANGED <<record, log, task, woken, owing, awaited, flagging, rearm, remaining, busy>>

\* The registrations the merge of a response wakes.
ChangedLive == {o \in Live : log[o] # record[o]}

MergeRefresh ==
  /\ sched.pc = "send"
  /\ log' = record
  /\ woken' = woken \cup ChangedLive
  /\ Goto("view")
  /\ UNCHANGED <<record, reg, task, owing, awaited, flagging, rearm, remaining, busy>>

\* The records are read before the coordinator is locked.
ViewRecords ==
  /\ sched.pc = "view"
  /\ sched' = [sched EXCEPT !.pc = "after", !.view = [o \in sched.keys |-> log[o]]]
  /\ UNCHANGED <<record, log, reg, task, woken, owing, awaited, flagging, rearm, remaining, busy>>

\* Mutant: the back-off does not look at the deadline.
BackedOffUnchecked(r) ==
  LET n == IF r.unchanged > BeforeExtended THEN r.unchanged ELSE r.unchanged + 1
  IN  [r EXCEPT !.unchanged = n, !.next = RefreshDelay(n)]

BackedOff(r) ==
  LET n == IF r.unchanged > BeforeExtended THEN r.unchanged ELSE r.unchanged + 1
  IN  [r EXCEPT !.unchanged = n, !.next = IfFits(RefreshDelay(n))]
Changed(r, v) ==
  [r EXCEPT !.status = v.status, !.due = v.due, !.unchanged = 0, !.next = Unknown,
            !.restart = TRUE]

\* Mutant: an operation whose record changed is not woken once more.
AfterRefreshWithoutWake ==
  /\ sched.pc = "after"
  /\ LET met == sched.keys \cap Live
         changed == {o \in met : sched.view[o].status # reg[o].status}
     IN  reg' = [o \in Ops |-> IF o \in changed THEN Changed(reg[o], sched.view[o])
                               ELSE IF o \in met THEN BackedOff(reg[o]) ELSE reg[o]]
  /\ sched' = Sleeping
  /\ UNCHANGED <<record, log, task, woken, owing, awaited, flagging, rearm, remaining, busy>>

\* `after_refresh`: a registration whose record did not change backs off;
\* one whose record changed is woken again and restarts when it waits.
\* (The wakes follow the critical section; they only wake.)
AfterRefresh ==
  /\ sched.pc = "after"
  /\ LET met == sched.keys \cap Live
         changed == {o \in met : sched.view[o].status # reg[o].status}
     IN  /\ reg' = [o \in Ops |-> IF o \in changed THEN Changed(reg[o], sched.view[o])
                                  ELSE IF o \in met THEN BackedOff(reg[o]) ELSE reg[o]]
         /\ woken' = woken \cup changed
  /\ sched' = Sleeping
  /\ UNCHANGED <<record, log, task, owing, awaited, flagging, rearm, remaining, busy>>

(***************************************************************************)
(* The service, other writes, other work and time.                         *)
(***************************************************************************)
RecordChanges(o) ==
  /\ ~ IsReady(record[o])
  /\ \E due \in Dues \cup {Unknown} :
       record' = [record EXCEPT ![o] = [status |-> @.status + 1, due |-> due]]
  /\ UNCHANGED <<log, reg, task, woken, owing, awaited, flagging, rearm, sched, remaining, busy>>

\* Another write's response carries the operation. The responses come one
\* at a time, so none while the refresh is open.
MergeOther(o) ==
  /\ sched.pc # "send" /\ log[o] # record[o]
  /\ log' = [log EXCEPT ![o] = record[o]]
  /\ woken' = IF reg[o].live THEN woken \cup {o} ELSE woken
  /\ UNCHANGED <<record, reg, task, owing, awaited, flagging, rearm, sched, remaining, busy>>

\* The last other work ends, and the invocation suspends.
OtherWorkEnds ==
  /\ busy /\ busy' = FALSE
  /\ UNCHANGED <<record, log, reg, task, woken, owing, awaited, flagging, rearm, sched, remaining>>

Later(time) == IF time \in {0, Unknown} THEN time ELSE time - 1
Aged(v) == [v EXCEPT !.due = Later(@)]
Tick ==
  /\ record' = [o \in Ops |-> Aged(record[o])]
  /\ log' = [o \in Ops |-> Aged(log[o])]
  /\ reg' = [o \in Ops |-> [Aged(reg[o]) EXCEPT !.next = Later(@)]]
  /\ sched' = [sched EXCEPT !.until = Later(@),
                            !.view = [o \in DOMAIN sched.view |-> Aged(sched.view[o])]]
  /\ remaining' = Later(remaining)
  /\ UNCHANGED <<task, woken, owing, awaited, flagging, rearm, busy>>

OperationStep(o) ==
  Register(o) \/ Notify(o) \/ EndWait(o) \/ WaitAgain(o) \/ PollAgain(o) \/ NotifyAwaited(o)
SchedulerStep ==
  ReadNext \/ Rearmed \/ SleptUntilDue \/ TakeDue \/ MergeRefresh \/ ViewRecords \/ AfterRefresh

Next ==
  \/ \E o \in Ops : OperationStep(o) \/ FirstPoll(o) \/ RecordChanges(o) \/ MergeOther(o)
  \/ SchedulerStep
  \/ OtherWorkEnds \/ Tick

Spec == Init /\ [][Next]_vars

\* Tokio polls what is woken, time passes, and the service answers. A
\* handle need not be polled, and a record need not change.
Fairness ==
  /\ \A o \in Ops : WF_vars(OperationStep(o))
  /\ WF_vars(SchedulerStep) /\ WF_vars(Tick)

FairSpec == Spec /\ Fairness

(***************************************************************************)
(* Properties.                                                             *)
(***************************************************************************)
\* The scheduler never oversleeps: while it sleeps, every armed refresh is
\* due no earlier than it wakes, or a notification is stored or about to
\* be (`rearm`, sent after each critical section that arms a refresh).
NeverOversleeps ==
  sched.pc = "sleep" /\ ~ rearm /\ owing = {} =>
    \A o \in Live : reg[o].next # Unknown => sched.until # Unknown /\ sched.until <= reg[o].next

\* An operation that waits and is awaited has a refresh to come, or is
\* about to be polled: neither the first-poll flag nor a changed record
\* leaves it without a schedule. (Without a deadline.)
AwaitedIsScheduled ==
  \A o \in Live \cap awaited :
    \/ reg[o].next # Unknown
    \/ o \in woken \/ task[o] # "idle"
    \/ flagging # {}
    \/ remaining # Unknown

\* The schedule is kept: no armed refresh is slept over, and none is missing.
ScheduleIsKept == NeverOversleeps /\ AwaitedIsScheduled

\* An awaited operation whose record is ready continues in the same
\* invocation, as long as other work holds it open (coordinator.rs,
\* "Refresh scheduler"). With a deadline the refreshes may have ended before.
ReadyContinues ==
  \A o \in Ops :
    IsReady(record[o]) /\ o \in awaited ~> task[o] = "done" \/ ~ busy \/ remaining # Unknown

\* With a deadline no refresh is in the schedule that would be sent with
\* less than the minimum left, however the schedule was moved.
RefreshesFit ==
  \A o \in Live :
    remaining # Unknown /\ reg[o].next \in Nat \ {0} => reg[o].next + MinRemaining <= remaining
=============================================================================
