---------------------------- MODULE DurableStep ----------------------------
(***************************************************************************)
(* One step of an execution, across invocations that crash, suspend or     *)
(* fail at any point (step.rs, start.rs): the start step, the attempt, the *)
(* settling of its result, the wait for the retry timer, and the replay in *)
(* the next invocation.  A step has at most one update in flight, so the   *)
(* write path (OrderedJournal) is here the state of that update.           *)
(*                                                                         *)
(* The service is the one the SDK ships for its users' tests               *)
(* (test_util.rs): it checks the status of the stored step, applies the    *)
(* update, and fires the retry timer.                                      *)
(***************************************************************************)
EXTENDS Naturals

CONSTANTS
  Values,       \* results of the body that can be told apart
  BodyErrors,   \* the recorded types of the errors it may return
  MaxAttempts,  \* the retry strategy stops there
  MaxCrashes,   \* bound: invocations that end while the step is at work
  Omits         \* whether a response may omit the step's record

ASSUME StepAssumption ==
  /\ MaxAttempts \in Nat \ {0} /\ MaxCrashes \in Nat /\ Omits \in BOOLEAN
  /\ BodyErrors \subseteq {"Error", "SerializationError", "StepInterruptedError"}

VARIABLES
  semantics,  \* StepSemantics, chosen by the handler once and for all
  record,     \* what the service stores: [status, attempt, outcome]
  log,        \* this invocation's copy of it (CheckpointLog)
  write,      \* the step's update: [st, action, outcome]
  pc,         \* where this invocation is in the step
  attempt,    \* the attempt this invocation works on
  ran,        \* how the attempt ended: its outcome, and the kind of its error
  bodies,     \* history: how often each attempt's body was called
  returned,   \* history: outcomes the handler got and their kinds, in any invocation
  crashes     \* what is left of MaxCrashes

stepVars == <<pc, attempt, ran>>
vars == <<semantics, record, log, write, stepVars, bodies, returned, crashes>>

Attempts == 1 .. MaxAttempts
Semantics == {"AtLeastOncePerRetry", "AtMostOncePerRetry"}
AtMostOnce == semantics = "AtMostOncePerRetry"
\* The ErrorType of a record ("Error" stands for every type that the SDK has
\* no use for) and the StepErrorKind the handler sees.
Reserved == {"SerializationError", "StepInterruptedError"}
ErrorType == Reserved \cup {"Error"}
Kind == {"Succeeded", "ExecutionFailed", "Interrupted", "SerializationFailed"}
Success == {"value"} \X Values
Outcome == Success \cup ({"error"} \X ErrorType)
Answer == Outcome \X Kind
Nothing == <<"nothing", "yet">>
NotRun == <<Nothing, "none">>
Status == {"NONE", "STARTED", "PENDING", "READY", "SUCCEEDED", "FAILED"}
Record == [status : Status, attempt : 0 .. MaxAttempts - 1, outcome : Outcome \cup {Nothing}]
NoWrite == [st |-> "none", action |-> "NONE", outcome |-> Nothing]
Step == {"off", "start", "starting", "ready", "body", "ran", "settling", "wait", "done",
         "rejected"}

TypeOK ==
  /\ semantics \in Semantics
  /\ record \in Record /\ log \in Record
  /\ write \in [st : {"none", "queued", "recorded", "answered"},
                action : {"NONE", "START", "RETRY", "SUCCEED", "FAIL"},
                outcome : Outcome \cup {Nothing}]
  /\ pc \in Step /\ attempt \in 0 .. MaxAttempts /\ ran \in Answer \cup {NotRun}
  /\ bodies \in [Attempts -> Nat] /\ returned \subseteq Answer /\ crashes \in Nat

Init ==
  /\ semantics \in Semantics
  /\ record = [status |-> "NONE", attempt |-> 0, outcome |-> Nothing]
  /\ log = record
  /\ write = NoWrite
  /\ pc = "off" /\ attempt = 0 /\ ran = NotRun
  /\ bodies = [n \in Attempts |-> 0]
  /\ returned = {} /\ crashes = MaxCrashes

IsTerminal(r) == r.status \in {"SUCCEEDED", "FAILED"}

(***************************************************************************)
(* One cycle of the step loop.                                             *)
(***************************************************************************)
Queue(action, out) == write' = [st |-> "queued", action |-> action, outcome |-> out]

\* `get_attempt`, plus one: the recorded attempts are over.
NextAttempt == log.attempt + 1

\* Mutant: an at-most-once body does not wait for its START.
StartAttemptEagerly ==
  /\ pc = "start" /\ log.status \in {"NONE", "READY"}
  /\ Queue("START", Nothing)
  /\ attempt' = NextAttempt
  /\ pc' = "ready"
  /\ UNCHANGED <<semantics, record, log, ran, bodies, returned, crashes>>

\* The start step of a live attempt queues its START. An at-most-once body
\* has to wait for the response.
StartAttempt ==
  /\ pc = "start" /\ log.status \in {"NONE", "READY"}
  /\ Queue("START", Nothing)
  /\ attempt' = NextAttempt
  /\ pc' = IF AtMostOnce THEN "starting" ELSE "ready"
  /\ UNCHANGED <<semantics, record, log, ran, bodies, returned, crashes>>

StartRecorded ==
  /\ pc = "starting" /\ write.st = "answered"
  /\ pc' = "ready"
  /\ UNCHANGED <<semantics, record, log, write, attempt, ran, bodies, returned, crashes>>

\* Mutant: an interrupted attempt queues another START.
ResumeAttemptRestarts ==
  /\ pc = "start" /\ log.status = "STARTED" /\ ~ AtMostOnce
  /\ Queue("START", Nothing)
  /\ attempt' = NextAttempt
  /\ pc' = "ready"
  /\ UNCHANGED <<semantics, record, log, ran, bodies, returned, crashes>>

\* An interrupted at-least-once attempt is entered again, without a START.
ResumeAttempt ==
  /\ pc = "start" /\ log.status = "STARTED" /\ ~ AtMostOnce
  /\ write' = NoWrite
  /\ attempt' = NextAttempt
  /\ pc' = "ready"
  /\ UNCHANGED <<semantics, record, log, ran, bodies, returned, crashes>>

\* `handle_failure`: the retry strategy stops at its last attempt at the
\* latest; RETRY or FAIL is queued.
HandleFailure(failure, n) ==
  /\ \/ n < MaxAttempts /\ Queue("RETRY", Nothing)
     \/ Queue("FAIL", failure)
  /\ pc' = "settling"

\* `interrupted_failure`
Interrupted == <<"error", "StepInterruptedError">>
Interrupt ==
  /\ attempt' = NextAttempt
  /\ HandleFailure(Interrupted, NextAttempt)
  /\ ran' = <<Interrupted, "Interrupted">>

\* Mutant: every interrupted attempt has failed.
FailEveryInterrupted ==
  /\ pc = "start" /\ log.status = "STARTED"
  /\ Interrupt
  /\ UNCHANGED <<semantics, record, log, bodies, returned, crashes>>

\* An interrupted at-most-once attempt has failed.
FailInterrupted ==
  /\ pc = "start" /\ log.status = "STARTED" /\ AtMostOnce
  /\ Interrupt
  /\ UNCHANGED <<semantics, record, log, bodies, returned, crashes>>

\* Mutant: every recorded failure is an ordinary one.
ReplayedKindIsPlain(out) == IF out \in Success THEN "Succeeded" ELSE "ExecutionFailed"

\* `replay_failure` tells the kind of a failure by its recorded type.
ReplayedKind(out) ==
  CASE out \in Success -> "Succeeded"
    [] out = <<"error", "SerializationError">> -> "SerializationFailed"
    [] out = Interrupted -> "Interrupted"
    [] OTHER -> "ExecutionFailed"

\* A terminal record is replayed; a pending one is waited for.
Replay ==
  /\ pc = "start" /\ IsTerminal(log)
  /\ returned' = returned \cup {<<log.outcome, ReplayedKind(log.outcome)>>}
  /\ pc' = "done"
  /\ UNCHANGED <<semantics, record, log, write, attempt, ran, bodies, crashes>>

AwaitTimer ==
  /\ pc = "start" /\ log.status = "PENDING"
  /\ pc' = "wait"
  /\ UNCHANGED <<semantics, record, log, write, attempt, ran, bodies, returned, crashes>>

CallBody ==
  /\ pc = "ready"
  /\ bodies' = [n \in Attempts |-> IF n = attempt THEN bodies[n] + 1 ELSE bodies[n]]
  /\ pc' = "body"
  /\ UNCHANGED <<semantics, record, log, write, attempt, ran, returned, crashes>>

\* The body returns a value, which may not serialize, or an error, recorded
\* with a type of its own or that of an error it passes on.
Unserialized == <<<<"error", "SerializationError">>, "SerializationFailed">>
BodyReturns ==
  /\ pc = "body"
  /\ ran' \in (Success \X {"Succeeded"}) \cup (({"error"} \X BodyErrors) \X {"ExecutionFailed"})
              \cup {Unserialized}
  /\ pc' = "ran"
  /\ UNCHANGED <<semantics, record, log, write, attempt, bodies, returned, crashes>>

StartAnswered == write.st \in {"none", "answered"}

\* Mutant: a value is answered to the handler before it is recorded.
SettleUnrecorded ==
  /\ pc = "ran" /\ StartAnswered
  /\ CASE ran[1] \in Success -> /\ Queue("SUCCEED", ran[1]) /\ pc' = "done"
                                /\ returned' = returned \cup {ran}
       [] ran = Unserialized -> Queue("FAIL", ran[1]) /\ pc' = "settling" /\ UNCHANGED returned
       [] OTHER -> HandleFailure(ran[1], attempt) /\ UNCHANGED returned
  /\ UNCHANGED <<semantics, record, log, attempt, ran, bodies, crashes>>

\* `await_start`, then `settle`: only a recorded START may be followed by
\* an outcome. A value that does not serialize fails the step at once.
Settle ==
  /\ pc = "ran" /\ StartAnswered
  /\ CASE ran[1] \in Success -> Queue("SUCCEED", ran[1]) /\ pc' = "settling"
       [] ran = Unserialized -> Queue("FAIL", ran[1]) /\ pc' = "settling"
       [] OTHER -> HandleFailure(ran[1], attempt)
  /\ UNCHANGED <<semantics, record, log, attempt, ran, bodies, returned, crashes>>

\* The outcome is recorded: the handler gets it, or the step waits for the
\* timer of its retry.
OutcomeRecorded ==
  /\ pc = "settling" /\ write.st = "answered"
  /\ IF write.action = "RETRY" THEN pc' = "wait" /\ UNCHANGED returned
     ELSE pc' = "done" /\ returned' = returned \cup {ran}
  /\ UNCHANGED <<semantics, record, log, write, attempt, ran, bodies, crashes>>

\* Mutant: the step loop waits for a terminal record, as a wait does.
RecordTerminal ==
  /\ pc = "wait" /\ IsTerminal(log)
  /\ pc' = "start"
  /\ UNCHANGED <<semantics, record, log, write, attempt, ran, bodies, returned, crashes>>

\* The wait of the step loop: READY or terminal in this invocation's log.
RecordReady ==
  /\ pc = "wait" /\ (log.status = "READY" \/ IsTerminal(log))
  /\ pc' = "start"
  /\ UNCHANGED <<semantics, record, log, write, attempt, ran, bodies, returned, crashes>>

(***************************************************************************)
(* The service.                                                            *)
(***************************************************************************)
\* `validate_status_transition`, for a step.
Valid(action) ==
  IF action = "START" THEN record.status \in {"NONE", "READY"}
  ELSE record.status \in {"NONE", "STARTED", "READY"}

Applied(w) ==
  CASE w.action = "START" -> [record EXCEPT !.status = "STARTED"]
    [] w.action = "RETRY" -> [record EXCEPT !.status = "PENDING", !.attempt = @ + 1]
    [] w.action = "SUCCEED" -> [record EXCEPT !.status = "SUCCEEDED", !.outcome = w.outcome]
    [] OTHER -> [record EXCEPT !.status = "FAILED", !.outcome = w.outcome]

\* The service applies the update. An invalid one fails the execution for
\* good.
RecordUpdate ==
  /\ write.st = "queued"
  /\ IF Valid(write.action)
       THEN /\ record' = Applied(write)
            /\ write' = [write EXCEPT !.st = "recorded"]
            /\ UNCHANGED pc
       ELSE /\ pc' = "rejected"
            /\ write' = NoWrite
            /\ UNCHANGED record
  /\ UNCHANGED <<semantics, log, attempt, ran, bodies, returned, crashes>>

\* The response is merged and the write answered. A service that omits
\* the record from it leaves the log as it is.
AnswerWrite ==
  /\ write.st = "recorded"
  /\ write' = [write EXCEPT !.st = "answered"]
  /\ log' \in IF Omits THEN {log, record} ELSE {record}
  /\ UNCHANGED <<semantics, record, stepVars, bodies, returned, crashes>>

\* Any other response this invocation merges: a refresh, another write.
MergeResponse ==
  /\ pc \notin {"off", "rejected"} /\ write.st # "recorded"
  /\ log # record /\ log' = record
  /\ UNCHANGED <<semantics, record, write, stepVars, bodies, returned, crashes>>

FireTimer ==
  /\ record.status = "PENDING"
  /\ record' = [record EXCEPT !.status = "READY"]
  /\ UNCHANGED <<semantics, log, write, stepVars, bodies, returned, crashes>>

(***************************************************************************)
(* Invocations.                                                            *)
(***************************************************************************)
EndInvocation ==
  /\ pc' = "off"
  /\ write' = NoWrite
  /\ UNCHANGED <<semantics, record, log, attempt, ran, bodies, returned>>

\* A crash, a timeout or a failed write, with the step at work.
Crash ==
  /\ pc \notin {"off", "rejected"}
  /\ crashes > 0 /\ crashes' = crashes - 1
  /\ EndInvocation

\* The invocation suspends for this step, or for others after it.
Suspend ==
  /\ \/ pc = "wait" /\ log.status \notin {"READY", "SUCCEEDED", "FAILED"}
     \/ pc = "done"
  /\ UNCHANGED crashes
  /\ EndInvocation

\* The next invocation loads the records and runs the handler again.
Invoke ==
  /\ pc = "off"
  /\ log' = record
  /\ pc' = "start"
  /\ UNCHANGED <<semantics, record, write, attempt, ran, bodies, returned, crashes>>

StepLoop ==
  \/ StartAttempt \/ StartRecorded \/ ResumeAttempt \/ FailInterrupted \/ Replay
  \/ AwaitTimer \/ CallBody \/ BodyReturns \/ Settle \/ OutcomeRecorded \/ RecordReady
Service == RecordUpdate \/ AnswerWrite \/ MergeResponse \/ FireTimer

Next == StepLoop \/ Service \/ Crash \/ Suspend \/ Invoke

Spec == Init /\ [][Next]_vars

\* The invocation is scheduled, the service answers and fires its timer,
\* and Lambda invokes an execution that has not ended again.
Fairness ==
  /\ WF_vars(StepLoop) /\ WF_vars(Invoke)
  /\ WF_vars(RecordUpdate) /\ WF_vars(AnswerWrite) /\ WF_vars(MergeResponse)
  /\ WF_vars(FireTimer)

FairSpec == Spec /\ Fairness

(***************************************************************************)
(* Properties.                                                             *)
(***************************************************************************)
\* The body of an at-most-once attempt is called once, whatever crashes
\* (step.rs, StepSemantics::AtMostOncePerRetry).
AtMostOncePerRetry == AtMostOnce => \A n \in Attempts : bodies[n] <= 1

\* Whatever invocation the handler asks in, it gets the same outcome, the
\* one the service recorded, although bodies may return different values. A
\* failure is of the same kind too, unless it is recorded with a type the SDK
\* reserves and bodies may return such an error (step.rs, replay_failure).
OneOutcome ==
  \A r \in returned :
    /\ IsTerminal(record) /\ r[1] = record.outcome
    /\ \A other \in returned :
         r[2] # other[2] => record.outcome \in {"error"} \X (Reserved \cap BodyErrors)

\* The recorded attempt number counts attempts that ran: a crash never
\* consumes an at-least-once attempt, no attempt beyond the next one ran,
\* and a recorded value was produced by the current attempt.
AttemptsAreCounted ==
  /\ \A n \in Attempts : n > record.attempt + 1 => bodies[n] = 0
  /\ ~ AtMostOnce => \A n \in Attempts : n <= record.attempt => bodies[n] > 0
  /\ record.outcome \in Success => bodies[record.attempt + 1] > 0

\* The service can accept every update the step sends: after a crash the
\* step goes on from what was recorded, and never ends the execution with
\* an update its record does not allow.
NeverRejected == pc # "rejected"

\* After a RETRY the step waits until the service made the record READY;
\* it does not start another attempt before the timer fired (step.rs, the
\* wait of the step loop).
TimerIsAwaited == write.st = "queued" /\ write.action = "START" => record.status # "PENDING"

\* A step that is invoked again and again returns in the end.
StepSettles == <>(returned # {})
=============================================================================
