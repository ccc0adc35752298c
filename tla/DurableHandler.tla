---------------------------- MODULE DurableHandler ----------------------------
(***************************************************************************)
(* A handler that awaits one operation, made of others, across invocations *)
(* that crash, suspend and are invoked again, by a handler that may have   *)
(* been deployed again: every kind of operation over the records they      *)
(* share.                                                                  *)
(***************************************************************************)
EXTENDS DurableOperations, ChildContexts, Combinators

\* The handler reaches its operation.
HandlerAwaits ==
  /\ pc[Top] = "invoked"
  /\ Enter(<<Top>>)
  /\ UNCHANGED <<shape, record, log, returned, reported, crashes>>

Work ==
  \/ HandlerAwaits
  \/ \E op \in Ops :
       OperationStep(op) \/ ContextStep(op) \/ CombinatorStep(op)

EndInvocation ==
  /\ pc' = [op \in Ops |-> "off"]
  /\ write' = [op \in Ops |-> NoWrite] /\ queue' = <<>>
  /\ result' = [op \in Ops |-> Nothing] /\ fatal' = FALSE
  /\ UNCHANGED <<shape, record, log, returned, reported>>

AtWork == pc[Top] \notin {"off", "rejected", "failed"}

\* A crash, a timeout or a failed write.
Crash ==
  /\ AtWork
  /\ crashes > 0 /\ crashes' = crashes - 1
  /\ EndInvocation

\* Nothing is left to do before a record changes: the invocation suspends.
\* It also may when the handler goes on to wait for something else.
Suspend ==
  /\ AtWork /\ ~ fatal /\ queue = <<>> /\ ~ ENABLED Work
  /\ UNCHANGED crashes
  /\ EndInvocation

\* The driver finds the fatal error, which ends the execution.
FailExecution ==
  /\ AtWork /\ fatal
  /\ pc' = [op \in Ops |-> "failed"]
  /\ UNCHANGED <<shape, service, result, returned, reported, crashes, fatal>>

\* The handler may have been deployed again since the last invocation.
Invoke ==
  /\ pc[Top] = "off"
  /\ shape' \in {shape, [shape EXCEPT !.kind = shape.becomes]}
  /\ log' = record
  /\ pc' = [pc EXCEPT ![Top] = "invoked"]
  /\ UNCHANGED <<record, write, queue, result, returned, reported, crashes, fatal>>

Next == Work \/ Service \/ Crash \/ Suspend \/ FailExecution \/ Invoke

Spec == Init /\ [][Next]_vars

\* The invocation is scheduled and Lambda invokes it again, the service
\* answers, and completes what it or an external system has to.
Fairness ==
  /\ WF_vars(Work) /\ WF_vars(Suspend) /\ WF_vars(FailExecution) /\ WF_vars(Invoke)
  /\ WF_vars(RecordUpdate) /\ WF_vars(AnswerWrite) /\ WF_vars(Refresh)
  /\ WF_vars(\E op \in Ops : FireTimer(op) \/ Deliver(op))

FairSpec == Spec /\ Fairness

(***************************************************************************)
(* Properties.                                                             *)
(***************************************************************************)
Errors == {"Failed", "TimedOut", "MaxChecksExceeded", "NonDeterministic", "SubmitterFailed", "ChildFailed",
           "JoinFailed", "EmptyInput", "FirstSettledFailed", "AllFailed", "Internal", "SerializationError"}
          \cup ErrorTypes
ErrorKinds == {"ExecutionFailed", "SerializationFailed", "Interrupted", "ChildFailed", "Internal"}
Contents == Values \cup {"small", "check", "rejected"} \cup Errors
Outcomes == [ok : BOOLEAN, of : Seq(Contents), at : Nat]
Records == [status : Status, kind : Kind \ Unrecorded, attempt : 0 .. MaxChecks - 1, payload : Outcomes,
            children : BOOLEAN, winner : Nat, retried : Outcomes]
Updates == [st : {"none", "queued", "recorded", "answered"},
            action : {"NONE", "START", "RETRY", "SUCCEED", "FAIL"},
            payload : Outcomes, children : BOOLEAN, winner : Nat]

TypeOK ==
  /\ \E s \in Shapes : shape \in {s, [s EXCEPT !.kind = s.becomes]}
  /\ record \in [Ops -> Records] /\ log \in [Ops -> Records]
  /\ write \in [Ops -> Updates]
  /\ queue \in Seq(Ops)
  /\ pc \in [Ops -> Step]
  /\ result \in [Ops -> Outcomes]
  /\ returned \in [Ops -> SUBSET Outcomes] /\ reported \in [Ops -> SUBSET ErrorKinds]
  /\ crashes \in 0 .. MaxCrashes /\ fatal \in BOOLEAN

\* The service can accept every update of every operation, whatever ended
\* the invocations between them, and whatever the handler was before it was
\* deployed again: no operation goes on from the record of another.
NeverRejected == \A op \in Ops : pc[op] # "rejected"

\* The types by which a replay tells an SDK's failure from a body's.
Reserved == {"SerializationError", "StepInterruptedError"}

\* An operation has one outcome for all invocations: from its body, its
\* record, or rebuilt from the records of its inputs. Only a recorded
\* outcome is returned (child.rs, settle; combinator.rs, replay_*). A failure
\* is of one kind too, which a replay derives from its recorded type, unless
\* that type is one the SDK has a use for (replay_failure).
OneOutcome ==
  \A op \in Ops : \A out \in returned[op] :
    /\ returned[op] = {out}
    /\ kind(op) \notin Unrecorded =>
         /\ record[op].status \in Terminal
         /\ record[op].children \/ record[op].payload = out
    /\ out.of \in {<<error>> : error \in Reserved} \/ \A k, other \in reported[op] : k = other

\* A failure is of one kind, live and replayed, whatever its type (child.rs,
\* replay_failure: it "reproduces the recorded failure's classification";
\* step.rs, replay_failure, says the same).
KindIsOne == \A op \in Ops : \A k, other \in reported[op] : k = other

\* The outcome `r`, which a combinator recorded or sends, is what its inputs
\* returned: the input that failed a join has failed, every input of a join
\* has an outcome, the winner has the value, and all inputs of a select_ok
\* that failed have. Of a value that is rebuilt, the winner has one.
Combines(op, ok, r) ==
  LET Gave(i, so) == i \in Indices(op) /\ \E out \in returned[inputs(op)[i]] : out.ok = so
  IN  CASE kind(op) = "join_all" -> \A i \in Indices(op) : returned[inputs(op)[i]] # {}
        [] kind(op) = "try_join_all" ->
             IF ok THEN \A i \in Indices(op) : Gave(i, TRUE) ELSE Gave(r.payload.at, FALSE)
        [] kind(op) \in Select ->
             IF r.children THEN Gave(r.winner, TRUE)
             ELSE IF ok THEN \E i \in Indices(op) : r.payload \in returned[inputs(op)[i]]
             ELSE IF kind(op) = "select_ok" THEN \A i \in Indices(op) : Gave(i, FALSE)
             ELSE inputs(op) = <<>> \/ \E i \in Indices(op) : Gave(i, FALSE)

\* What a combinator recorded is what its inputs returned, and with it what
\* they return in every other invocation (combinator.rs, settle_first
\* and run_join).
CombinedFitsInputs ==
  \A op \in Ops :
    kind(op) \in Combinator /\ record[op].kind = kind(op) /\ record[op].status \in Terminal =>
      Combines(op, record[op].status = "SUCCEEDED", record[op])

\* A combinator that was built on an input whose record is another's records
\* no outcome, whichever input settles first and whatever it returned: the
\* execution fails, and could not replay it (combinator.rs, fatal_gate).
MismatchIsNotRecorded ==
  \A op \in Ops :
    kind(op) \in Combinator /\ pc[op] = "settling" =>
      \A o \in Claimed({op}) : ~ Mismatched(o)

\* The outcome of a context that has a scope is recorded, and holds its value.
Finished(op) ==
  kind(op) \in Scope /\ record[op].status \in Terminal /\ ~ record[op].children

\* Once the outcome of a context is recorded, no update of an operation
\* inside it is recorded any more, in this invocation or a later one: not of
\* what it spawned and did not await, nor of an input that a combinator
\* inside it left behind (child.rs, run; checkpoint_coalescer.rs, Admission).
\* A body that is run again to rebuild its value is the exception: it starts
\* what it spawned again.
FinishedContextsAreFinal ==
  [][\A op \in Ops : Finished(op) =>
       \A o \in Inside[op] : write[o].st = "queued" => write'[o].st # "recorded"]_vars

\* A check that started in this invocation gets the state the check before
\* it returned (wait_for_condition.rs, before).
ChecksCarryState ==
  \A op \in Ops :
    kind(op) = "condition" /\ pc[op] = "body" /\ write[op].action = "START" /\ record[op].attempt > 0
      => result[op] = record[op].retried

\* Every check after the first gets the state the check before it returned,
\* also when the invocation crashed in between.
StateSurvives ==
  \A op \in Ops :
    kind(op) = "condition" /\ pc[op] = "body" /\ record[op].attempt > 0
      => result[op] = record[op].retried

\* The operation the handler awaits returns in the end, also with inputs
\* that nobody ever answers, when they lost; or the execution has failed,
\* since the handler was deployed again.
Settles == <>(returned[Top] # {} \/ pc[Top] = "failed")
=============================================================================
