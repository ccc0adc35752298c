----------------------------- MODULE Combinators -----------------------------
(***************************************************************************)
(* try_join_all, join_all, select_ok and race (combinator.rs).  An input   *)
(* is an operation, which the combinator runs, or the handle of one that   *)
(* was spawned beside it, whose result it awaits.                          *)
(***************************************************************************)
EXTENDS DurableRecords

Select == {"select_ok", "race"}
Indices(op) == DOMAIN inputs(op)

\* Mutant: an input counts as soon as its body returned.
SettledUnrecorded(op, i) == pc[inputs(op)[i]] \in {"ran", "settling", "done"}

\* Mutant: no input counts before the last one does.
SettledTogether(op, i) == i \in Indices(op) /\ \A o \in ToSet(inputs(op)) : pc[o] = "done"

Settled(op, i) == pc[inputs(op)[i]] = "done"
Outcome(op, i) == result[inputs(op)[i]]
AllSettled(op) == \A i \in Indices(op) : Settled(op, i)
At(out, i) == [out EXCEPT !.at = i]

\* The inputs start in input order, then the combinator: its START is queued
\* behind theirs, unless it is resumed.
BeginInputs(op) ==
  /\ kind(op) \in Combinator /\ pc[op] = "inputs"
  /\ EnterWith(inputs(op), IF NeedsStart(op) THEN <<op>> ELSE <<>>)
  /\ pc' = [Entered(inputs(op)) EXCEPT ![op] = "join"]
  /\ UNCHANGED <<shape, record, log, returned, reported, crashes>>

\* A record without its value: only the winner it names is driven again, or
\* every input of a join.
Rebuild(op) ==
  /\ kind(op) \in Combinator /\ pc[op] = "rebuild"
  /\ LET again == IF kind(op) \in Select THEN <<inputs(op)[log[op].winner]>> ELSE inputs(op)
     IN  EnterWith(again, <<>>) /\ pc' = [Entered(again) EXCEPT ![op] = "rejoin"]
  /\ UNCHANGED <<shape, record, log, returned, reported, crashes>>

\* The values of all inputs; a failed one of a join_all leaves its error.
Collected(op) ==
  Ok(FlattenSeq([i \in Indices(op) |->
       IF Outcome(op, i).ok THEN Outcome(op, i).of ELSE <<"rejected">>]))

\* The outcomes the inputs settled so far decide.
Decided(op) ==
  LET failed == {i \in Indices(op) : Settled(op, i) /\ ~ Outcome(op, i).ok}
      won == {i \in Indices(op) : Settled(op, i) /\ Outcome(op, i).ok}
  IN  CASE kind(op) = "try_join_all" ->
             {At(Err("JoinFailed"), i) : i \in failed}
               \cup (IF won = Indices(op) THEN {Collected(op)} ELSE {})
        [] kind(op) = "join_all" -> IF AllSettled(op) THEN {Collected(op)} ELSE {}
        [] kind(op) \in Select ->
             IF inputs(op) = <<>> THEN {Err("EmptyInput")}
             ELSE {At(Outcome(op, i), i) : i \in won}
                    \cup (IF kind(op) = "race" THEN {At(Err("FirstSettledFailed"), i) : i \in failed}
                          ELSE IF failed = Indices(op) THEN {Err("AllFailed")} ELSE {})

\* The join is over. The inputs still at work are told to stop, which the
\* combinator does not wait for.
JoinReturns(op) ==
  /\ kind(op) \in Combinator /\ pc[op] = "join"
  /\ \E out \in Decided(op) : result' = [result EXCEPT ![op] = out]
  /\ pc' = [pc EXCEPT ![op] = "ran"]
  /\ UNCHANGED <<shape, service, returned, reported, crashes, fatal>>

\* Nobody awaits it any more: it lost to the input that decided a join, or is
\* what the body of a virtual child awaited that did.
Abandoned(op) ==
  \E o \in Ops :
    /\ op \in ToSet(inputs(o))
    /\ \/ kind(o) \in Combinator /\ pc[o] \in {"ran", "settling", "done", "stopped"}
       \/ kind(o) = "virtual" /\ pc[o] = "stopped" /\ op = Head(inputs(o))

\* A loser stops at its next await, and the scope of its body closes. What a
\* handle is of goes on, and so does what a virtual child spawned.
LoserStops(op) ==
  /\ Unfinished(op) /\ Abandoned(op)
  /\ CloseScopes({op})
  /\ pc' = Stopped({op} \cup (IF kind(op) \in Scope THEN Inside[op] ELSE {}))
  /\ UNCHANGED <<shape, record, log, result, returned, reported, crashes, fatal>>

\* A failed race or select forgets which input failed it.
Value(op) ==
  IF result[op].ok \/ kind(op) \in Select THEN At(result[op], 0) ELSE result[op]

\* In place of a value that does not fit, a race or select records its
\* winner, a join nothing.
CombinatorUpdate(op) ==
  LET large == Oversized(result[op])
  IN  [Update(IF result[op].ok THEN "SUCCEED" ELSE "FAIL", IF large THEN Nothing ELSE Value(op))
         EXCEPT !.children = large, !.winner = IF large THEN result[op].at ELSE 0]

\* Mutant: the outcome is sent although the invocation fails.
SettleCombinatorUngated(op) ==
  /\ pc[op] = "ran" /\ kind(op) \in Combinator /\ StartAnswered(op)
  /\ SubmitOutcome(op, CombinatorUpdate(op), Value(op))
  /\ UNCHANGED <<shape, record, log, returned, reported, crashes, fatal>>

\* The outcome is sent once the START was recorded, unless a fatal error was
\* recorded by then (fatal_gate).
SettleCombinator(op) ==
  /\ pc[op] = "ran" /\ kind(op) \in Combinator /\ StartAnswered(op)
  /\ IF fatal
       THEN /\ pc' = [pc EXCEPT ![op] = "done"]
            /\ result' = [result EXCEPT ![op] = Err("Internal")]
            /\ UNCHANGED <<write, queue>>
       ELSE SubmitOutcome(op, CombinatorUpdate(op), Value(op))
  /\ UNCHANGED <<shape, record, log, returned, reported, crashes, fatal>>

\* The rebuilt value is returned, and nothing is written.
RejoinReturns(op) ==
  /\ pc[op] = "rejoin"
  /\ \E out \in IF kind(op) \in Select
                THEN {Outcome(op, i) : i \in {j \in {log[op].winner} : Settled(op, j)}}
                ELSE Decided(op) :
       Return(op, out, {})
  /\ UNCHANGED <<shape, service, crashes, fatal>>

\* What was spawned returns, and so does the handle of it.
HandleReturns(op) ==
  /\ kind(op) = "handle" /\ pc[op] = "body" /\ pc[shape.of[op]] = "done"
  /\ Return(op, result[shape.of[op]], {})
  /\ UNCHANGED <<shape, service, crashes, fatal>>

CombinatorStep(op) ==
  \/ BeginInputs(op) \/ Rebuild(op) \/ JoinReturns(op) \/ LoserStops(op)
  \/ SettleCombinator(op) \/ RejoinReturns(op) \/ HandleReturns(op)
=============================================================================
