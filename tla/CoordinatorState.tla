------------------------- MODULE CoordinatorState -------------------------
(***************************************************************************)
(* The lock-protected state of `InvocationCoordinator` (coordinator.rs) as *)
(* a record, and one operator per method: the state the method leaves      *)
(* behind.  Every method takes the coordinator lock once, so an action     *)
(* that applies one of these operators is one critical section.            *)
(*                                                                         *)
(* `driverWoken` stands for the waker of the invocation driver: TRUE when  *)
(* it was woken after the driver's last poll began.  The refresh times of  *)
(* a registration are the business of module RefreshSchedule; here a       *)
(* registration is only a member of `waits`.                               *)
(***************************************************************************)
EXTENDS Naturals

PermitKind == {"activity", "checkpoint", "scheduler"}
Phase == {"Running", "Suspending", "Finished"}
Severity == {"FailExecution", "FailInvocation"}
FatalSlot == Severity \cup {"None"}

\* The states of the coordinator when registrations are drawn from Keys.
CoordinatorType(Keys) ==
  [phase : Phase, activity : Nat, checkpoint : Nat, scheduler : Nat,
   waits : SUBSET Keys, fatal : FatalSlot, panic : BOOLEAN,
   panicOpen : BOOLEAN, withdrawn : BOOLEAN, writeFailure : FatalSlot,
   driverWoken : BOOLEAN]

NewCoordinator ==
  [phase |-> "Running", activity |-> 0, checkpoint |-> 0, scheduler |-> 0,
   waits |-> {}, fatal |-> "None", panic |-> FALSE, panicOpen |-> TRUE,
   withdrawn |-> FALSE, writeFailure |-> "None", driverWoken |-> FALSE]

NoPermits(s) == s.activity = 0 /\ s.checkpoint = 0 /\ s.scheduler = 0

\* Mutant: the rule forgets the checkpoint permits.
MustSuspendDespiteWrites(s) ==
  /\ s.phase = "Running" /\ ~ s.withdrawn
  /\ s.activity = 0 /\ s.scheduler = 0
  /\ s.waits # {} /\ s.fatal = "None" /\ ~ s.panic

\* Mutant: the rule forgets the scheduler permit.
MustSuspendDespiteRefresh(s) ==
  /\ s.phase = "Running" /\ ~ s.withdrawn
  /\ s.activity = 0 /\ s.checkpoint = 0
  /\ s.waits # {} /\ s.fatal = "None" /\ ~ s.panic

\* `State::check_suspension`: the rule that decides to suspend.
MustSuspend(s) ==
  /\ s.phase = "Running"
  /\ ~ s.withdrawn
  /\ NoPermits(s)
  /\ s.waits # {}
  /\ s.fatal = "None"
  /\ ~ s.panic

\* Mutant: the decision to suspend does not wake the driver.
CheckSuspensionSilent(s) ==
  IF MustSuspend(s) THEN [s EXCEPT !.phase = "Suspending"] ELSE s

CheckSuspension(s) ==
  IF MustSuspend(s)
    THEN [s EXCEPT !.phase = "Suspending", !.driverWoken = TRUE]
    ELSE s

\* Mutant: admission stays open while the invocation suspends.
AdmitsWhileSuspending(s) == s.phase # "Finished" /\ ~ s.withdrawn

\* `State::admits`: a permit or a registration can be taken.
Admits(s) == s.phase = "Running" /\ ~ s.withdrawn

\* When `acquire` grants a permit of the kind.
Grants(s, kind) ==
  /\ Admits(s)
  /\ kind = "checkpoint" => s.writeFailure = "None"
  /\ kind = "scheduler" => s.activity # 0 \/ s.checkpoint # 0

Acquire(s, kind) == [s EXCEPT ![kind] = @ + 1]

Lowered(n) == IF n > 0 THEN n - 1 ELSE 0        \* saturating_sub(1)

\* Mutant: the rule is not checked when a permit is dropped.
ReleaseUnchecked(s, kind) == [s EXCEPT ![kind] = Lowered(@)]

\* Dropping a permit: the count goes down and the rule is checked.
Release(s, kind) == CheckSuspension([s EXCEPT ![kind] = Lowered(@)])

RegisterWait(s, key) == [s EXCEPT !.waits = @ \cup {key}]

\* Dropping a wait registration.
Retire(s, key) == CheckSuspension([s EXCEPT !.waits = @ \ {key}])

Finish(s) == [s EXCEPT !.phase = "Finished"]

WakeDriver(s) == [s EXCEPT !.driverWoken = TRUE]

\* `record`: the first fatal error wins; the driver is woken.
Record(s, severity) ==
  [s EXCEPT !.fatal = IF @ = "None" THEN severity ELSE @,
            !.driverWoken = TRUE]

\* `record_panic`: kept only while ownership is open and none is kept.
RecordPanic(s) ==
  [s EXCEPT !.panic = @ \/ s.panicOpen, !.driverWoken = TRUE]

\* `take_panic`: closes ownership and takes the kept panic.
TakePanic(s) == [s EXCEPT !.panic = FALSE, !.panicOpen = FALSE]

\* `fail_write`, its first critical section: both first-wins slots.
SetWriteFailure(s, severity) ==
  [s EXCEPT !.writeFailure = IF @ = "None" THEN severity ELSE @,
            !.fatal = IF @ = "None" THEN severity ELSE @]

\* `withdraw`, its first critical section: the latch that closes admission.
SetWithdrawn(s) == [s EXCEPT !.withdrawn = TRUE]

\* `withdraw`, its last critical section, after the queued writes dropped.
EndWithdrawal(s) ==
  [s EXCEPT !.phase = IF @ = "Running" THEN "Suspending" ELSE @,
            !.driverWoken = TRUE]
=============================================================================
