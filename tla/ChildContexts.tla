---------------------------- MODULE ChildContexts ----------------------------
(***************************************************************************)
(* The operations whose body runs operations of their own in a scope of    *)
(* theirs: a child context (child.rs), wait_for_callback (callback.rs) and *)
(* with_retry (with_retry.rs); and a virtual child, which records nothing  *)
(* and closes no scope.                                                    *)
(*                                                                         *)
(* A child's body starts all its inputs, awaits the first and spawned the  *)
(* others.  The inputs of a wait_for_callback are its callback and its     *)
(* submitter; those of a with_retry its attempts and, between them, waits. *)
(***************************************************************************)
EXTENDS DurableRecords

Scoped == Scope \cup {"virtual"}
Running(op) == kind(op) \in Scoped /\ pc[op] \in {"body", "rebuild"}
\* The inputs that were started: they start in their order.
Spawned(op) == {i \in DOMAIN inputs(op) : pc[inputs(op)[i]] # "off"}
Latest(op) == inputs(op)[Cardinality(Spawned(op))]
Done(op) == pc[op] = "done"

\* The body starts: live, resumed, or to rebuild what the record omits.
BodyStarts(op) ==
  /\ Running(op) /\ Spawned(op) = {}
  /\ Enter(IF kind(op) \in {"child", "virtual"} THEN inputs(op) ELSE <<Head(inputs(op))>>)
  /\ UNCHANGED <<shape, record, log, returned, reported, crashes>>

\* The next input: a submitter once the callback has its ID, the wait after
\* an attempt that failed, the attempt after that wait.
BodyGoesOn(op) ==
  /\ Running(op) /\ kind(op) \in {"wait_for_callback", "with_retry"}
  /\ \E n \in 1 .. Len(inputs(op)) - 1 :
       /\ Spawned(op) = 1 .. n
       /\ IF kind(op) = "wait_for_callback" THEN pc[Latest(op)] \in {"wait", "done"} /\ ~ Mismatched(Latest(op))
          ELSE Done(Latest(op)) /\ result[Latest(op)].ok = (n % 2 = 0)
       /\ Enter(<<inputs(op)[n + 1]>>)
  /\ UNCHANGED <<shape, record, log, returned, reported, crashes>>

\* What the body has returned, if it has: an error of an operation that it
\* passes on keeps its type.
Returns(op) ==
  LET first == Head(inputs(op))
      last == Latest(op)
  IN  CASE kind(op) = "wait_for_callback" ->
             IF Mismatched(last) THEN {Refusal}
             ELSE IF last = first \/ ~ Done(last) THEN {}
             ELSE IF ~ result[last].ok THEN {Err("SubmitterFailed")}
             ELSE IF Done(first) THEN {result[first]} ELSE {}
        [] kind(op) = "with_retry" ->
             IF Done(last) /\ (result[last].ok = (Cardinality(Spawned(op)) % 2 = 1) \/ Spawned(op) = DOMAIN inputs(op))
               THEN {result[last]} ELSE {}
        [] OTHER ->
             IF ~ Done(first) THEN {}
             ELSE IF result[first].ok \/ kind(op) = "child" THEN {result[first]} ELSE {Err("ChildFailed")}

\* Mutant: the body's scope stays open when it returns.
LiveBodyReturnsOpen(op) ==
  /\ Running(op) /\ kind(op) # "virtual" /\ pc[op] = "body" /\ Spawned(op) # {}
  /\ \E out \in Returns(op) : result' = [result EXCEPT ![op] = out]
  /\ pc' = [pc EXCEPT ![op] = "ran"]
  /\ UNCHANGED <<shape, service, returned, reported, crashes, fatal>>

\* The body returns, and its scope closes with it: what it spawned and did
\* not await stops.
LiveBodyReturns(op) ==
  /\ Running(op) /\ kind(op) # "virtual" /\ pc[op] = "body" /\ Spawned(op) # {}
  /\ \E out \in Returns(op) : result' = [result EXCEPT ![op] = out]
  /\ CloseScopes({op})
  /\ pc' = [Stopped(Inside[op]) EXCEPT ![op] = "ran"]
  /\ UNCHANGED <<shape, record, log, returned, reported, crashes, fatal>>

\* The value is rebuilt; nothing is written for the context itself.
RebuildReturns(op) ==
  /\ Running(op) /\ kind(op) # "virtual" /\ pc[op] = "rebuild" /\ Spawned(op) # {}
  /\ \E out \in Returns(op) :
       /\ result' = [result EXCEPT ![op] = out]
       /\ returned' = IF fatal THEN returned ELSE [returned EXCEPT ![op] = @ \cup {out}]
       /\ reported' = IF fatal THEN reported ELSE [reported EXCEPT ![op] = @ \cup BodyKind(op, out)]
  /\ CloseScopes({op})
  /\ pc' = [Stopped(Inside[op]) EXCEPT ![op] = "done"]
  /\ UNCHANGED <<shape, record, log, crashes, fatal>>

VirtualReturns(op) ==
  /\ Running(op) /\ kind(op) = "virtual" /\ Spawned(op) # {}
  /\ \E out \in Returns(op) : Return(op, out, {})
  /\ UNCHANGED <<shape, service, crashes, fatal>>

\* The outcome is sent once the START was recorded. A value that does not
\* fit is left to its children's records, one that cannot be serialized fails
\* the context; a callback's raw payload is neither.
SettleContext(op) ==
  /\ pc[op] = "ran" /\ kind(op) \in Scope /\ StartAnswered(op)
  /\ LET out == result[op]
         summary == kind(op) # "wait_for_callback" /\ Oversized(out)
     IN  \/ SubmitOutcome(op,
              [Update(IF out.ok THEN "SUCCEED" ELSE "FAIL", IF summary THEN Nothing ELSE out)
                 EXCEPT !.children = summary],
              out)
         \/ kind(op) # "wait_for_callback" /\ SubmitUnserialized(op)
  /\ UNCHANGED <<shape, record, log, returned, reported, crashes, fatal>>

ContextStep(op) ==
  \/ BodyStarts(op) \/ BodyGoesOn(op) \/ LiveBodyReturns(op) \/ RebuildReturns(op)
  \/ VirtualReturns(op) \/ SettleContext(op)
=============================================================================
