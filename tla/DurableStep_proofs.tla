-------------------------- MODULE DurableStep_proofs --------------------------
(***************************************************************************)
(* Proofs about module DurableStep, for any results, any number of         *)
(* attempts and any number of crashes, of a service whose responses carry  *)
(* the step's record.                                                      *)
(***************************************************************************)
EXTENDS DurableStep, TLAPS

(***************************************************************************)
(* The inductive invariant: what the record, the update in flight, this    *)
(* invocation's log and the place in the step loop say of one another.     *)
(***************************************************************************)
Live == record.status \in {"NONE", "PENDING", "READY"}   \* no attempt started

\* The log is behind the record by an unanswered update or a timer at most.
LogIsFresh ==
  pc # "off" /\ write.st # "recorded" =>
    log = record \/ (log.status = "PENDING" /\ record = [log EXCEPT !.status = "READY"])

\* While an attempt is worked on, its START is queued or the record STARTED.
Working == pc \in {"starting", "ready", "body", "ran"}
AttemptIsCurrent ==
  /\ Working \/ (pc = "settling" /\ write.st = "queued") => attempt = record.attempt + 1
  /\ Working => IF write.st = "queued"
                  THEN write.action = "START" /\ record.status \in {"NONE", "READY"}
                  ELSE record.status = "STARTED"
  /\ pc = "starting" => AtMostOnce /\ write.st # "none"
  /\ AtMostOnce /\ pc \in {"ready", "body", "ran"} => write.st = "answered"

\* An outcome is queued for a started attempt and recorded as it was queued.
OutcomeIsRecorded ==
  pc = "settling" =>
    /\ write.st # "none" /\ write.action \in {"RETRY", "SUCCEED", "FAIL"}
    /\ write.action # "RETRY" => write.outcome = ran[1]
    /\ write.st = "queued" =>
         record.status = "STARTED" /\ (write.action = "RETRY" => attempt < MaxAttempts)
    /\ write.st # "queued" =>
         IF write.action = "RETRY" THEN record.status \in {"PENDING", "READY"}
         ELSE IsTerminal(record) /\ record.outcome = write.outcome

NothingInFlight ==
  /\ pc \in {"off", "start", "wait", "done"} => write.st \in {"none", "answered"}
  /\ record.outcome = Nothing <=> ~ IsTerminal(record)

\* A failure is replayed as it was returned live, but one of a reserved type
\* that a body returned.
Agrees(answer) ==
  /\ answer[1] \in Success => answer[2] = "Succeeded"
  /\ answer[2] = ReplayedKind(answer[1]) \/ answer[1] \in {"error"} \X (Reserved \cap BodyErrors)
KindsAgree ==
  /\ pc \in {"ran", "settling"} => ran \in Answer /\ Agrees(ran)
  /\ \A r \in returned : IsTerminal(record) /\ r[1] = record.outcome /\ Agrees(r)

\* How often the bodies were called, given the record.
CurrentBodies == bodies[record.attempt + 1]
BodiesAreCounted ==
  /\ \A n \in Attempts : n > record.attempt + 1 => bodies[n] = 0
  /\ AtMostOnce => \A n \in Attempts : bodies[n] <= 1
  /\ AtMostOnce /\ (Live \/ pc \in {"starting", "ready"}) => CurrentBodies = 0
  /\ ~ AtMostOnce => \A n \in Attempts : n <= record.attempt => bodies[n] > 0
  /\ pc \in {"body", "ran"} => CurrentBodies > 0
  /\ pc = "settling" /\ write.st = "queued" /\ (~ AtMostOnce \/ write.outcome \in Success)
       => CurrentBodies > 0
  /\ record.outcome \in Success => CurrentBodies > 0

StepInv ==
  /\ TypeOK /\ NeverRejected
  /\ LogIsFresh /\ AttemptIsCurrent /\ OutcomeIsRecorded /\ NothingInFlight
  /\ BodiesAreCounted /\ KindsAgree

(***************************************************************************)
(* Every step keeps it.                                                    *)
(***************************************************************************)
USE DEF Attempts, Semantics, AtMostOnce, Success, Outcome, Nothing, Status, Record, NoWrite,
        Step, IsTerminal, NextAttempt

\* How an attempt ends, and how a record is replayed, agree.
LEMMA ValuesAgree ==
  ASSUME NEW out \in Success
  PROVE  /\ ReplayedKind(out) = "Succeeded"
         /\ <<out, "Succeeded">> \in Answer /\ Agrees(<<out, "Succeeded">>)
  <1>1. out # <<"error", "SerializationError">> /\ out # Interrupted
    BY DEF Interrupted
  <1>2. ReplayedKind(out) = "Succeeded"
    BY <1>1 DEF ReplayedKind
  <1>3. QED
    BY <1>2 DEF Answer, Agrees, Kind

LEMMA FailuresAgree ==
  ASSUME NEW type \in ErrorType, NEW answer, answer[1] = <<"error", type>>,
         answer[2] = ReplayedKind(answer[1]) \/ type \in Reserved \cap BodyErrors
  PROVE  Agrees(answer)
  <1>1. answer[1] \notin Success
    OBVIOUS
  <1>2. type \in Reserved \cap BodyErrors => answer[1] \in {"error"} \X (Reserved \cap BodyErrors)
    OBVIOUS
  <1>3. QED
    BY <1>1, <1>2 DEF Agrees

LEMMA KindsOfFailures ==
  /\ ReplayedKind(<<"error", "SerializationError">>) = "SerializationFailed"
  /\ ReplayedKind(<<"error", "StepInterruptedError">>) = "Interrupted"
  /\ ReplayedKind(<<"error", "Error">>) = "ExecutionFailed"
  BY DEF ReplayedKind, Interrupted

LEMMA BodyFailuresAgree ==
  ASSUME NEW type \in BodyErrors
  PROVE  LET failure == <<<<"error", type>>, "ExecutionFailed">> IN failure \in Answer /\ Agrees(failure)
  <1> DEFINE failure == <<<<"error", type>>, "ExecutionFailed">>
  <1>1. type \in ErrorType /\ (type = "Error" \/ type \in Reserved)
    BY StepAssumption DEF ErrorType, Reserved
  <1>2. failure \in Answer
    BY <1>1 DEF Answer, Kind
  <1>3. failure[1] = <<"error", type>> /\ failure[2] = "ExecutionFailed"
    OBVIOUS
  <1> HIDE DEF failure
  <1>4. Agrees(failure)
    BY <1>1, <1>3, KindsOfFailures, FailuresAgree
  <1>5. QED
    BY <1>2, <1>4 DEF failure

LEMMA OwnFailuresAgree ==
  /\ Unserialized \in Answer /\ Agrees(Unserialized)
  /\ <<Interrupted, "Interrupted">> \in Answer /\ Agrees(<<Interrupted, "Interrupted">>)
  <1>1. {"SerializationError", "StepInterruptedError"} \subseteq ErrorType
    BY DEF ErrorType, Reserved
  <1>2. Unserialized[1] = <<"error", "SerializationError">> /\ Unserialized[2] = "SerializationFailed"
    BY DEF Unserialized
  <1>3. Agrees(Unserialized)
    BY <1>1, <1>2, KindsOfFailures, FailuresAgree
  <1>4. Agrees(<<Interrupted, "Interrupted">>)
    BY <1>1, KindsOfFailures, FailuresAgree DEF Interrupted
  <1>5. Unserialized \in Answer /\ <<Interrupted, "Interrupted">> \in Answer
    BY <1>1 DEF Unserialized, Interrupted, Answer, Kind
  <1>6. QED
    BY <1>3, <1>4, <1>5

LEMMA ReplaysAgree ==
  ASSUME NEW out \in Outcome
  PROVE  <<out, ReplayedKind(out)>> \in Answer /\ Agrees(<<out, ReplayedKind(out)>>)
  <1>1. ReplayedKind(out) \in Kind
    BY DEF ReplayedKind, Kind
  <1>2. out \in Success => ReplayedKind(out) = "Succeeded"
    BY ValuesAgree
  <1>3. QED
    BY <1>1, <1>2 DEF Answer, Agrees

LEMMA StepInvInit == ASSUME Init PROVE StepInv
  BY StepAssumption DEF Init, StepInv, TypeOK, NeverRejected, LogIsFresh, AttemptIsCurrent,
     OutcomeIsRecorded, NothingInFlight, BodiesAreCounted, KindsAgree, Working, Live,
     CurrentBodies

LEMMA StepInvNext ==
  ASSUME ~ Omits, StepInv, [Next]_vars
  PROVE  StepInv'
  <1> USE StepAssumption DEF StepInv, TypeOK, NeverRejected, LogIsFresh, AttemptIsCurrent,
            OutcomeIsRecorded, NothingInFlight, BodiesAreCounted, KindsAgree, Working, Live,
            CurrentBodies, stepVars
  <1>1. CASE StartAttempt
    BY <1>1 DEF Queue, StartAttempt
  <1>2. CASE StartRecorded
    BY <1>2 DEF StartRecorded
  <1>3. CASE ResumeAttempt
    BY <1>3 DEF ResumeAttempt
  <1>4. CASE FailInterrupted
    <2>1. /\ pc = "start" /\ log.status = "STARTED" /\ AtMostOnce /\ pc' = "settling"
          /\ attempt' = log.attempt + 1 /\ ran' = <<Interrupted, "Interrupted">>
          /\ UNCHANGED <<semantics, record, log, bodies, returned, crashes>>
      BY <1>4 DEF FailInterrupted, Interrupt, HandleFailure
    <2>2. \/ log.attempt + 1 < MaxAttempts /\ write' = [st |-> "queued", action |-> "RETRY", outcome |-> Nothing]
          \/ write' = [st |-> "queued", action |-> "FAIL", outcome |-> Interrupted]
      BY <1>4 DEF FailInterrupted, Interrupt, HandleFailure, Queue
    <2>3. /\ ran' \in Answer /\ Agrees(ran') /\ ran'[1] = Interrupted
          /\ Interrupted \in Outcome /\ Interrupted \notin Success
      BY <2>1, OwnFailuresAgree DEF Interrupted, ErrorType, Reserved
    <2>4. TypeOK' /\ NeverRejected' /\ LogIsFresh' /\ AttemptIsCurrent'
      BY <2>1, <2>2, <2>3
    <2>5. OutcomeIsRecorded' /\ NothingInFlight' /\ KindsAgree'
      BY <2>1, <2>2, <2>3
    <2>6. BodiesAreCounted'
      BY <2>1, <2>2, <2>3
    <2>7. QED
      BY <2>4, <2>5, <2>6
  <1>5. CASE Replay
    <2> DEFINE answer == <<log.outcome, ReplayedKind(log.outcome)>>
    <2>0. /\ log = record /\ log.outcome \in Outcome /\ IsTerminal(record)
          /\ answer \in Answer /\ Agrees(answer) /\ answer[1] = record.outcome
      BY <1>5, ReplaysAgree DEF Replay
    <2>1. TypeOK'
      <3>1. returned' = returned \cup {answer}
        BY <1>5 DEF Replay
      <3> HIDE DEF answer
      <3>2. returned' \subseteq Answer
        BY <2>0, <3>1
      <3>3. QED
        BY <1>5, <3>2 DEF Replay
    <2>2. NeverRejected'
      BY <1>5 DEF Replay
    <2>3. LogIsFresh'
      BY <1>5 DEF Replay
    <2>4. AttemptIsCurrent'
      BY <1>5 DEF Replay
    <2>5. OutcomeIsRecorded'
      BY <1>5 DEF Replay
    <2>6. NothingInFlight'
      BY <1>5 DEF Replay
    <2>7. BodiesAreCounted'
      BY <1>5 DEF Replay
    <2>8. KindsAgree'
      BY <1>5, <2>0 DEF Replay
    <2>9. QED
      BY <2>1, <2>2, <2>3, <2>4, <2>5, <2>6, <2>7, <2>8
  <1>6. CASE AwaitTimer
    BY <1>6 DEF AwaitTimer
  <1>7. CASE CallBody
    BY <1>7 DEF CallBody
  <1>8. CASE BodyReturns
    <2>1. /\ pc = "body" /\ pc' = "ran"
          /\ UNCHANGED <<semantics, record, log, write, attempt, bodies, returned, crashes>>
      BY <1>8 DEF BodyReturns
    <2>2. ran' \in Answer /\ Agrees(ran')
      <3>1. CASE ran' \in Success \X {"Succeeded"}
        <4>1. PICK out \in Success : ran' = <<out, "Succeeded">>
          BY <3>1
        <4>2. QED
          BY <4>1, ValuesAgree
      <3>2. CASE ran' \in ({"error"} \X BodyErrors) \X {"ExecutionFailed"}
        <4>1. PICK type \in BodyErrors : ran' = <<<<"error", type>>, "ExecutionFailed">>
          BY <3>2
        <4>2. QED
          BY <4>1, BodyFailuresAgree
      <3>3. CASE ran' = Unserialized
        BY <3>3, OwnFailuresAgree
      <3>4. QED
        BY <1>8, <3>1, <3>2, <3>3 DEF BodyReturns
    <2>3. TypeOK' /\ NeverRejected' /\ LogIsFresh' /\ AttemptIsCurrent'
      BY <2>1, <2>2
    <2>4. OutcomeIsRecorded' /\ NothingInFlight' /\ BodiesAreCounted' /\ KindsAgree'
      BY <2>1, <2>2
    <2>5. QED
      BY <2>3, <2>4
  <1>9. CASE Settle
    <2>1. /\ pc = "ran" /\ pc' = "settling" /\ write.st \in {"none", "answered"}
          /\ UNCHANGED <<semantics, record, log, attempt, ran, bodies, returned, crashes>>
      BY <1>9 DEF Settle, StartAnswered, HandleFailure
    <2>2. /\ write'.st = "queued" /\ write' = [st |-> "queued", action |-> write'.action, outcome |-> write'.outcome]
          /\ \/ write'.action = "RETRY" /\ attempt < MaxAttempts /\ write'.outcome = Nothing
             \/ write'.action \in {"SUCCEED", "FAIL"} /\ write'.outcome = ran[1]
      BY <1>9 DEF Settle, Queue, HandleFailure
    <2>3. ran \in Answer /\ Agrees(ran) /\ ran[1] \in Outcome
      BY <2>1 DEF Answer
    <2>4. TypeOK' /\ NeverRejected' /\ LogIsFresh' /\ AttemptIsCurrent'
      BY <2>1, <2>2, <2>3
    <2>5. OutcomeIsRecorded' /\ NothingInFlight' /\ KindsAgree'
      BY <2>1, <2>2, <2>3
    <2>6. BodiesAreCounted'
      BY <2>1, <2>2, <2>3
    <2>7. QED
      BY <2>4, <2>5, <2>6
  <1>10. CASE OutcomeRecorded
    BY <1>10 DEF OutcomeRecorded
  <1>11. CASE RecordReady
    BY <1>11 DEF RecordReady
  <1>12. CASE RecordUpdate
    <2> USE <1>12
    <2>1. /\ Valid(write.action)
          /\ record' = Applied(write)
          /\ write' = [write EXCEPT !.st = "recorded"]
          /\ UNCHANGED <<semantics, log, pc, attempt, ran, bodies, returned, crashes>>
      BY DEF Valid, RecordUpdate
    <2>2. CASE write.action = "START"
      <3>1. record' = [record EXCEPT !.status = "STARTED"]
        BY <2>1, <2>2 DEF Applied
      <3>2. record' \in Record
        BY <3>1
      <3>3. /\ Working /\ record.status \in {"NONE", "READY"}
            /\ record'.status = "STARTED" /\ record'.attempt = record.attempt
            /\ record'.outcome = record.outcome /\ record.outcome = Nothing
        BY <2>1, <2>2, <3>1 DEF RecordUpdate
      <3>4. TypeOK' /\ LogIsFresh' /\ AttemptIsCurrent' /\ NeverRejected'
        BY <2>1, <2>2, <3>2, <3>3 DEF RecordUpdate
      <3>5. OutcomeIsRecorded' /\ NothingInFlight' /\ KindsAgree' /\ BodiesAreCounted'
        BY <2>1, <2>2, <3>2, <3>3 DEF RecordUpdate
      <3>6. QED
        BY <3>4, <3>5
    <2>3. CASE write.action = "RETRY"
      <3>1. record' = [record EXCEPT !.status = "PENDING", !.attempt = record.attempt + 1]
        BY <2>1, <2>3 DEF Applied
      <3>2. pc = "settling" /\ attempt = record.attempt + 1 /\ attempt < MaxAttempts
        BY <2>1, <2>3 DEF RecordUpdate
      <3>3. record.attempt \in Nat /\ record.attempt + 1 \in 0 .. MaxAttempts - 1
        BY <3>2
      <3>4. record' \in Record
        BY <3>1, <3>3
      <3>5. /\ record'.status = "PENDING" /\ record'.attempt = record.attempt + 1
            /\ record'.outcome = record.outcome /\ record.outcome = Nothing
        BY <2>1, <2>3, <3>1, <3>2 DEF RecordUpdate
      <3>6. BodiesAreCounted'
        <4>1. /\ \A n \in Attempts : n > record.attempt + 1 => bodies[n] = 0
              /\ AtMostOnce => \A n \in Attempts : bodies[n] <= 1
              /\ ~ AtMostOnce => \A n \in Attempts : n <= record.attempt + 1 => bodies[n] > 0
          BY <2>1, <2>3, <3>2, <3>3 DEF RecordUpdate
        <4>2. QED
          BY <2>1, <2>3, <3>2, <3>3, <3>5, <4>1
      <3>7. TypeOK' /\ LogIsFresh' /\ AttemptIsCurrent' /\ NeverRejected'
        BY <2>1, <2>3, <3>2, <3>4, <3>5
      <3>8. OutcomeIsRecorded' /\ NothingInFlight' /\ KindsAgree'
        BY <2>1, <2>3, <3>2, <3>4, <3>5
      <3>9. QED
        BY <3>6, <3>7, <3>8
    <2>4. CASE write.action \in {"SUCCEED", "FAIL"}
      <3>0. pc = "settling" /\ write.outcome = ran[1] /\ ran[1] \in Outcome
        BY <2>1, <2>4 DEF RecordUpdate, Answer
      <3>1. /\ record'.status \in {"SUCCEEDED", "FAILED"} /\ record'.attempt = record.attempt
            /\ record'.outcome = write.outcome /\ write.outcome \in Outcome
            /\ record' \in Record
        BY <2>1, <2>4, <3>0 DEF Applied, RecordUpdate
      <3>2. pc = "settling"
        BY <2>1, <2>4 DEF RecordUpdate
      <3>3. QED
        BY SMTT(30), <2>1, <2>4, <3>1, <3>2 DEF RecordUpdate
    <2>5. QED
      BY <2>2, <2>3, <2>4 DEF RecordUpdate
  <1>13. CASE AnswerWrite
    <2>1. TypeOK'
      BY <1>13 DEF AnswerWrite
    <2>2. NeverRejected'
      BY <1>13 DEF AnswerWrite
    <2>3. LogIsFresh'
      BY <1>13 DEF AnswerWrite
    <2>4. AttemptIsCurrent'
      BY <1>13 DEF AnswerWrite
    <2>5. OutcomeIsRecorded'
      BY <1>13 DEF AnswerWrite
    <2>6. NothingInFlight'
      BY <1>13 DEF AnswerWrite
    <2>7. BodiesAreCounted'
      BY <1>13 DEF AnswerWrite
    <2>8. KindsAgree'
      BY <1>13 DEF AnswerWrite
    <2>9. QED
      BY <2>1, <2>2, <2>3, <2>4, <2>5, <2>6, <2>7, <2>8
  <1>14. CASE MergeResponse
    BY <1>14 DEF MergeResponse
  <1>15. CASE FireTimer
    <2>1. TypeOK'
      BY SMTT(30), <1>15 DEF FireTimer
    <2>2. NeverRejected'
      BY <1>15 DEF FireTimer
    <2>3. LogIsFresh'
      BY <1>15 DEF FireTimer
    <2>4. AttemptIsCurrent'
      BY <1>15 DEF FireTimer
    <2>5. OutcomeIsRecorded'
      BY <1>15 DEF FireTimer
    <2>6. NothingInFlight'
      BY <1>15 DEF FireTimer
    <2>7. BodiesAreCounted'
      BY <1>15 DEF FireTimer
    <2>8. KindsAgree'
      BY <1>15 DEF FireTimer
    <2>9. QED
      BY <2>1, <2>2, <2>3, <2>4, <2>5, <2>6, <2>7, <2>8
  <1>16. CASE Crash
    BY <1>16 DEF EndInvocation, Crash
  <1>17. CASE Suspend
    BY <1>17 DEF EndInvocation, Suspend
  <1>18. CASE Invoke
    BY <1>18 DEF Invoke
  <1>19. CASE UNCHANGED vars
    BY <1>19 DEF vars
  <1>20. QED
    BY <1>1, <1>2, <1>3, <1>4, <1>5, <1>6, <1>7, <1>8, <1>9, <1>10, <1>11, <1>12, <1>13, <1>14, <1>15, <1>16, <1>17, <1>18, <1>19 DEF Next, StepLoop, Service

\* Every reachable state of a step whose service answers with its record
\* satisfies the invariant.
LEMMA StepInvAlways == ASSUME ~ Omits PROVE Spec => []StepInv
  BY StepInvInit, StepInvNext, PTL DEF Spec

(***************************************************************************)
(* What the step promises, whatever crashes.                               *)
(***************************************************************************)
\* Record, log, write and attempt have their types in every reachable state.
THEOREM StepIsTyped == ASSUME ~ Omits PROVE Spec => []TypeOK
  <1>1. StepInv => TypeOK
    BY DEF StepInv
  <1>2. QED
    BY <1>1, StepInvAlways, PTL

\* The body of an at-most-once attempt is called once at most, in however
\* many invocations the step is at work (StepSemantics::AtMostOncePerRetry).
THEOREM AtMostOnceHolds == ASSUME ~ Omits PROVE Spec => []AtMostOncePerRetry
  <1>1. StepInv => AtMostOncePerRetry
    BY DEF StepInv, BodiesAreCounted, AtMostOncePerRetry
  <1>2. QED
    BY <1>1, StepInvAlways, PTL

\* Every invocation that answers the handler answers what the service
\* recorded, and a failure with the same kind, unless a body returned an error
\* of a type the SDK reserves (replay_failure, settle).
THEOREM OutcomeIsOne == ASSUME ~ Omits PROVE Spec => []OneOutcome
  <1>1. StepInv => OneOutcome
    BY DEF StepInv, KindsAgree, Agrees, OneOutcome
  <1>2. QED
    BY <1>1, StepInvAlways, PTL

\* The recorded attempt number counts the attempts that ran, and a recorded
\* value was produced by the current one (`get_attempt`, handle_failure).
THEOREM AttemptsCount == ASSUME ~ Omits PROVE Spec => []AttemptsAreCounted
  <1>1. StepInv => AttemptsAreCounted
    BY DEF StepInv, BodiesAreCounted, AttemptsAreCounted, CurrentBodies
  <1>2. QED
    BY <1>1, StepInvAlways, PTL

\* Whatever crashes, the step never sends an update that the status of its
\* record does not allow (start_step, validate_status_transition).
THEOREM UpdatesAreValid == ASSUME ~ Omits PROVE Spec => []NeverRejected
  <1>1. StepInv => NeverRejected
    BY DEF StepInv
  <1>2. QED
    BY <1>1, StepInvAlways, PTL
=============================================================================
