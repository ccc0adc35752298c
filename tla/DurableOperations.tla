-------------------------- MODULE DurableOperations --------------------------
(***************************************************************************)
(* The operations without inputs: a wait (wait.rs), an invoke (invoke.rs)  *)
(* and a callback (callback.rs), which the service completes; a step that  *)
(* does not retry (step.rs; DurableStep has the rest of it), and a         *)
(* wait_for_condition (wait_for_condition.rs), whose checks pass a state   *)
(* on, from one RETRY to the next check.                                   *)
(***************************************************************************)
EXTENDS DurableRecords

\* The START of a wait, a callback or an invoke was answered.
StartRecorded(op) ==
  /\ pc[op] = "starting" /\ StartAnswered(op)
  /\ pc' = [pc EXCEPT ![op] = "wait"]
  /\ UNCHANGED <<shape, service, result, returned, reported, crashes, fatal>>

\* The statuses each operation waits through.
Unsettled(op) ==
  CASE kind(op) = "wait" -> {"NONE", "STARTED"}
    [] kind(op) = "callback" -> {"NONE", "STARTED", "PENDING"}
    [] kind(op) = "invoke" -> {"NONE", "STARTED", "PENDING", "READY"}
    [] OTHER -> {"NONE", "PENDING"}

\* The log has what the operation waited for. A condition handles its
\* record as the next invocation would.
WaitOver(op) ==
  /\ pc[op] = "wait" /\ log[op].status \notin Unsettled(op)
  /\ IF kind(op) = "condition"
       THEN Enter(<<op>>) /\ UNCHANGED <<record, log, returned, reported>>
       ELSE Return(op, log[op].payload, {}) /\ UNCHANGED <<service, fatal>>
  /\ UNCHANGED <<shape, crashes>>

\* A body returns a value or an error; a check returns the next state.
BodyReturns(op) ==
  /\ pc[op] = "body" /\ kind(op) \in {"step", "condition"}
  /\ \E out \in {Err(error) : error \in ErrorTypes} \cup
          (IF kind(op) = "step" THEN {Ok(<<v>>) : v \in Values}
           ELSE {Ok(Append(result[op].of, "check"))}) :
       result' = [result EXCEPT ![op] = out]
  /\ pc' = [pc EXCEPT ![op] = "ran"]
  /\ UNCHANGED <<shape, service, returned, reported, crashes, fatal>>

SettleStep(op) ==
  /\ pc[op] = "ran" /\ kind(op) = "step" /\ StartAnswered(op)
  /\ \/ SubmitOutcome(op, Update(IF result[op].ok THEN "SUCCEED" ELSE "FAIL", result[op]), result[op])
     \/ SubmitUnserialized(op)
  /\ UNCHANGED <<shape, record, log, returned, reported, crashes, fatal>>

\* Mutant: one check too many.
SettleCheckOnceMore(op) ==
  /\ pc[op] = "ran" /\ kind(op) = "condition" /\ StartAnswered(op)
  /\ \/ ~ result[op].ok /\ SubmitOutcome(op, Update("FAIL", result[op]), result[op])
     \/ result[op].ok /\ SubmitOutcome(op, Update("SUCCEED", result[op]), result[op])
     \/ /\ result[op].ok /\ log[op].attempt < MaxChecks
        /\ SubmitOutcome(op, Update("RETRY", result[op]), result[op])
  /\ UNCHANGED <<shape, record, log, returned, reported, crashes, fatal>>

\* A check that failed fails the condition. Otherwise the strategy
\* completes it with the state, asks for another check, or gives up, unless
\* the state cannot be serialized.
SettleCheck(op) ==
  /\ pc[op] = "ran" /\ kind(op) = "condition" /\ StartAnswered(op)
  /\ \/ SubmitUnserialized(op)
     \/ ~ result[op].ok /\ SubmitOutcome(op, Update("FAIL", result[op]), result[op])
     \/ result[op].ok /\ SubmitOutcome(op, Update("SUCCEED", result[op]), result[op])
     \/ /\ result[op].ok /\ log[op].attempt + 1 < MaxChecks
        /\ SubmitOutcome(op, Update("RETRY", result[op]), result[op])
     \/ /\ result[op].ok /\ log[op].attempt + 1 = MaxChecks
        /\ SubmitOutcome(op, Update("FAIL", Err("MaxChecksExceeded")), Err("MaxChecksExceeded"))
  /\ UNCHANGED <<shape, record, log, returned, reported, crashes, fatal>>

OperationStep(op) ==
  \/ Replay(op) \/ StartRecorded(op) \/ WaitOver(op) \/ BodyReturns(op)
  \/ SettleStep(op) \/ SettleCheck(op) \/ OutcomeRecorded(op)
=============================================================================
