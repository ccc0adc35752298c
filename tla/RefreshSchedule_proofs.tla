----------------------- MODULE RefreshSchedule_proofs -----------------------
(***************************************************************************)
(* Theorems about RefreshSchedule, for any operations, records, delays and *)
(* deadline.                                                               *)
(***************************************************************************)
EXTENDS RefreshSchedule, FiniteSetTheorems, TLAPS

\* The smallest element of a set of numbers, found as the smallest of the
\* initial segments of the set.
LEMMA LeastOfSome ==
  ASSUME NEW S \in SUBSET Nat, S # {}
  PROVE  Least(S) \in S /\ \A n \in S : Least(S) <= n
<1> DEFINE Upto(k) == {n \in S : n <= k}
           T == {Upto(k) : k \in S}
<1>1. ASSUME NEW k \in S
      PROVE  Upto(k) \in FiniteSubsetsOf(S)
  <2>1. k \in Nat /\ Upto(k) \in SUBSET Nat /\ \A n \in Upto(k) : n <= k
    OBVIOUS
  <2>2. IsFiniteSet(Upto(k))
    <3> HIDE DEF Upto
    <3> QED  BY <2>1, FS_BoundedSetOfNaturals
  <2> QED
    BY <2>2 DEF FiniteSubsetsOf
<1>2. T \subseteq FiniteSubsetsOf(S) /\ T # {}
  BY <1>1
<1>3. PICK x \in T : \A y \in T : <<y, x>> \notin StrictSubsetOrdering(S)
  <2> HIDE DEF T
  <2> QED  BY <1>2, FS_StrictSubsetOrderingWellFounded, WFMin
<1>4. PICK k \in S : x = Upto(k)
  OBVIOUS
<1>5. ASSUME NEW n \in S, n < k
      PROVE  FALSE
  <2>1. S \subseteq Nat /\ n \in Nat /\ k \in Nat
    OBVIOUS
  <2>2. k \in Upto(k) /\ k \notin Upto(n)
    BY <1>5, <2>1
  <2>3. \A m \in S : m <= n => m <= k
    BY <1>5, <2>1
  <2>4. Upto(n) \subseteq Upto(k)
    BY <2>3
  <2>5. <<Upto(n), x>> \in StrictSubsetOrdering(S)
    BY <1>4, <2>2, <2>4 DEF StrictSubsetOrdering
  <2> QED
    BY <1>3, <2>5
<1>6. \A n \in S : k <= n
  BY <1>5
<1> QED
  BY <1>6 DEF Least

(***************************************************************************)
(* Registrations.                                                          *)
(***************************************************************************)
Registration == [live : BOOLEAN, status : 0 .. Changes, due : Time, armed : BOOLEAN,
                 next : Time, unchanged : 0 .. BeforeExtended + 1, restart : BOOLEAN]

LEMMA NoRegistrationType == NoRegistration \in Registration
  BY ScheduleAssumption DEF NoRegistration, Registration, Time

\* A delay is a time, and without a deadline every delay fits.
LEMMA FittingDelay ==
  ASSUME NEW d \in Nat
  PROVE  IfFits(d) \in Time /\ (remaining = Unknown => IfFits(d) \in Nat)
  BY DEF IfFits, FitsBeforeDeadline, Time

\* What `arm` does to a registration.
LEMMA ArmedRegistration ==
  ASSUME NEW r \in Registration
  PROVE  /\ Armed(r) \in Registration
         /\ Armed(r).live = r.live /\ Armed(r).armed /\ Armed(r).restart = r.restart
         /\ remaining = Unknown => Armed(r).next # Unknown
<1>1. InitialDelay \in Nat /\ Unknown \notin Nat
  BY ScheduleAssumption
<1>2. FirstRefreshDelay(r.due) \in Time /\ (remaining = Unknown => FirstRefreshDelay(r.due) \in Nat)
  BY <1>1, FittingDelay DEF FirstRefreshDelay, Registration, Time
<1> QED
  BY <1>1, <1>2 DEF Armed, Registration

\* What the back-off does to one.
LEMMA BackedOffRegistration ==
  ASSUME NEW r \in Registration
  PROVE  /\ BackedOff(r) \in Registration
         /\ BackedOff(r).live = r.live /\ BackedOff(r).armed = r.armed
         /\ BackedOff(r).restart = r.restart
         /\ remaining = Unknown => BackedOff(r).next # Unknown
<1> DEFINE n == IF r.unchanged > BeforeExtended THEN r.unchanged ELSE r.unchanged + 1
<1>1. Ceiling \in Nat /\ Extended \in Nat /\ BeforeExtended \in Nat /\ Unknown \notin Nat
  BY ScheduleAssumption
<1>2. n \in 0 .. BeforeExtended + 1
  BY <1>1 DEF Registration
<1>3. {n, Ceiling} \in SUBSET Nat /\ {n, Ceiling} # {}
  BY <1>1, <1>2
<1>4. Least({n, Ceiling}) \in Nat
  <2> HIDE DEF n
  <2> QED  BY <1>3, LeastOfSome
<1>5. RefreshDelay(n) \in Nat
  BY <1>1, <1>4 DEF RefreshDelay
<1>6. IfFits(RefreshDelay(n)) \in Time /\ (remaining = Unknown => IfFits(RefreshDelay(n)) \in Nat)
  BY <1>5, FittingDelay
<1>7. BackedOff(r) = [r EXCEPT !.unchanged = n, !.next = IfFits(RefreshDelay(n))]
  BY DEF BackedOff
<1> HIDE DEF n
<1> QED
  BY <1>1, <1>2, <1>6, <1>7 DEF Registration

\* What a change of the record does to one.
LEMMA ChangedRegistration ==
  ASSUME NEW r \in Registration, NEW v \in View
  PROVE  /\ Changed(r, v) \in Registration
         /\ Changed(r, v).live = r.live /\ Changed(r, v).armed = r.armed
         /\ Changed(r, v).restart /\ Changed(r, v).next = Unknown
<1>1. 0 \in 0 .. BeforeExtended + 1 /\ Unknown \in Time
  BY ScheduleAssumption DEF Time
<1>2. v.status \in 0 .. Changes /\ v.due \in Time
  BY DEF View
<1> QED
  BY <1>1, <1>2 DEF Changed, Registration

(***************************************************************************)
(* The inductive invariant.                                                *)
(***************************************************************************)
\* The scheduler's state: the records it compares are those of the
\* registrations it found due.
SchedulerType ==
  /\ sched = [pc |-> sched.pc, until |-> sched.until, keys |-> sched.keys, view |-> sched.view]
  /\ sched.view \in [DOMAIN sched.view -> View]
  /\ sched.pc = "after" => DOMAIN sched.view = sched.keys

\* A registration that was due is armed for as long as the scheduler holds
\* its key, and its operation does not register twice.
KeysAreArmed ==
  /\ \A o \in Ops : task[o] = "register" => ~ reg[o].live
  /\ \A o \in sched.keys : task[o] # "register" /\ (reg[o].live => reg[o].armed)

\* Without a deadline an armed registration is in the schedule unless its
\* record changed, then its operation is polled before it waits; and one
\* that is awaited and not armed has a handle about to arm it.
RestartIsPending ==
  /\ \A o \in Ops : reg[o].restart => reg[o].live
  /\ remaining = Unknown =>
       \A o \in Live :
         /\ reg[o].armed /\ reg[o].next = Unknown => reg[o].restart
         /\ reg[o].restart /\ task[o] = "idle" => o \in woken
         /\ o \in awaited /\ ~ reg[o].armed => flagging # {}

ScheduleInv == TypeOK /\ SchedulerType /\ KeysAreArmed /\ RestartIsPending /\ NeverOversleeps

LEMMA InvImpliesScheduleIsKept == ScheduleInv => ScheduleIsKept
  BY DEF ScheduleInv, ScheduleIsKept, TypeOK, RestartIsPending, AwaitedIsScheduled, Live

LEMMA InitEstablishes == Init => ScheduleInv
<1> SUFFICES ASSUME Init PROVE ScheduleInv
  OBVIOUS
<1> USE DEF Init
<1>1. \A o \in Ops : reg[o] = NoRegistration /\ ~ reg[o].live /\ ~ reg[o].restart
                     /\ reg[o].next = Unknown
  BY DEF NoRegistration
<1>2. reg \in [Ops -> Registration]
  BY NoRegistrationType
<1>3. record \in [Ops -> View]
  BY ScheduleAssumption DEF View, Time
<1>4. TypeOK
  BY <1>1, <1>2, <1>3, ScheduleAssumption DEF TypeOK, Registration, Sleeping, Time
<1>5. SchedulerType /\ KeysAreArmed /\ RestartIsPending /\ NeverOversleeps
  BY <1>1 DEF SchedulerType, KeysAreArmed, RestartIsPending, NeverOversleeps, Live, Sleeping
<1> QED
  BY <1>4, <1>5 DEF ScheduleInv

(***************************************************************************)
(* Every step preserves it.                                                *)
(***************************************************************************)
LEMMA RegistrationsAreTyped == TypeOK => reg \in [Ops -> Registration]
  BY DEF TypeOK, Registration

LEMMA OperationPreserves ==
  ASSUME ScheduleInv, NEW o \in Ops, OperationStep(o) \/ FirstPoll(o)
  PROVE  ScheduleInv'
<1> USE DEF ScheduleInv
<1>1. reg \in [Ops -> Registration] /\ reg[o] \in Registration
  BY RegistrationsAreTyped
<1>2. ASSUME Notify(o)
      PROVE  ScheduleInv'
  BY <1>2 DEF Notify, TypeOK, SchedulerType, KeysAreArmed, RestartIsPending, NeverOversleeps,
              Live
<1>3. ASSUME FirstPoll(o)
      PROVE  ScheduleInv'
  BY <1>3 DEF FirstPoll, TypeOK, SchedulerType, KeysAreArmed, RestartIsPending,
              NeverOversleeps, Live
<1>4. ASSUME PollAgain(o)
      PROVE  ScheduleInv'
  BY <1>4 DEF PollAgain, TypeOK, SchedulerType, KeysAreArmed, RestartIsPending,
              NeverOversleeps, Live
<1>5. ASSUME EndWait(o)
      PROVE  ScheduleInv'
  <2>1. reg' = [reg EXCEPT ![o] = NoRegistration] /\ ~ NoRegistration.live
        /\ ~ NoRegistration.restart /\ NoRegistration.next = Unknown
    BY <1>5 DEF EndWait, NoRegistration
  <2>2. reg' \in [Ops -> Registration]
    BY <1>1, <2>1, NoRegistrationType
  <2>3. TypeOK'
    BY <1>1, <1>5, <2>1, <2>2 DEF EndWait, TypeOK, Registration
  <2> QED
    BY <1>1, <1>5, <2>1, <2>3 DEF EndWait, SchedulerType, KeysAreArmed, RestartIsPending,
       NeverOversleeps, Live
<1>6. ASSUME Register(o)
      PROVE  ScheduleInv'
  <2> DEFINE r == [NoRegistration EXCEPT !.live = TRUE, !.status = log[o].status,
                                         !.due = log[o].due]
             q == Registered(o, o \in awaited)
  <2>1. r \in Registration /\ r.live /\ ~ r.armed /\ ~ r.restart /\ r.next = Unknown
    BY NoRegistrationType DEF TypeOK, Registration, NoRegistration, View
  <2>2. q = IF o \in awaited THEN Armed(r) ELSE r
    BY DEF Registered
  <2> HIDE DEF r
  <2>3. /\ q \in Registration /\ q.live /\ ~ q.restart
        /\ q.next # Unknown => q.armed
        /\ o \in awaited => q.armed
        /\ remaining = Unknown /\ q.armed => q.next # Unknown
    BY <2>1, <2>2, ArmedRegistration
  <2> HIDE DEF q
  <2>4. reg' = [reg EXCEPT ![o] = q] /\ reg' \in [Ops -> Registration] /\ reg'[o] = q
    BY <1>1, <1>6, <2>3 DEF Register, q
  <2>5. TypeOK'
    BY <1>1, <1>6, <2>3, <2>4 DEF Register, TypeOK, Registration
  <2>6. KeysAreArmed' /\ SchedulerType'
    BY <1>1, <1>6, <2>3, <2>4 DEF Register, KeysAreArmed, SchedulerType, TypeOK
  <2>7. RestartIsPending'
    BY <1>1, <1>6, <2>3, <2>4 DEF Register, RestartIsPending, Live
  <2>8. NeverOversleeps'
    BY <1>1, <1>6, <2>3, <2>4 DEF Register, NeverOversleeps, Live
  <2> QED
    BY <2>5, <2>6, <2>7, <2>8
<1>7. ASSUME WaitAgain(o)
      PROVE  ScheduleInv'
  <2> DEFINE r == [reg[o] EXCEPT !.restart = FALSE]
             q == IF reg[o].restart THEN Armed(r) ELSE reg[o]
  <2>1. r \in Registration /\ r.live = reg[o].live /\ ~ r.restart
    BY <1>1 DEF Registration
  <2> HIDE DEF r
  <2>2. /\ q \in Registration /\ q.live = reg[o].live /\ ~ q.restart
        /\ reg[o].armed => q.armed
        /\ reg[o].restart => q.armed /\ (remaining = Unknown => q.next # Unknown)
        /\ ~ reg[o].restart => q = reg[o]
    BY <1>1, <2>1, ArmedRegistration DEF Registration
  <2>3. reg' = [reg EXCEPT ![o] = q]
    BY <1>7 DEF WaitAgain, r
  <2> HIDE DEF q
  <2>4. reg' \in [Ops -> Registration] /\ reg'[o] = q
    BY <1>1, <2>2, <2>3
  <2>5. TypeOK'
    BY <1>1, <1>7, <2>2, <2>3, <2>4 DEF WaitAgain, TypeOK, RestartIsPending, Registration
  <2>6. KeysAreArmed' /\ SchedulerType'
    BY <1>1, <1>7, <2>2, <2>3, <2>4 DEF WaitAgain, KeysAreArmed, SchedulerType, TypeOK
  <2>7. RestartIsPending'
    <3>1. /\ ~ reg'[o].restart
          /\ remaining = Unknown /\ reg'[o].armed /\ reg'[o].next = Unknown => reg[o] = reg'[o]
          /\ reg[o].armed => reg'[o].armed
          /\ reg'[o].live = reg[o].live
      BY <2>2, <2>4
    <3>2. \A p \in Ops : p # o => reg'[p] = reg[p] /\ task'[p] = task[p]
      BY <1>1, <1>7, <2>3 DEF WaitAgain, TypeOK
    <3>3. UNCHANGED <<woken, awaited, flagging, remaining>>
      BY <1>7 DEF WaitAgain
    <3> QED
      BY <1>1, <3>1, <3>2, <3>3 DEF RestartIsPending, Live
  <2>8. NeverOversleeps'
    BY <1>1, <1>7, <2>2, <2>3, <2>4 DEF WaitAgain, NeverOversleeps, Live
  <2> QED
    BY <2>5, <2>6, <2>7, <2>8
<1>8. ASSUME NotifyAwaited(o)
      PROVE  ScheduleInv'
  <2> DEFINE unarmed == {p \in awaited : reg[p].live /\ ~ reg[p].armed}
  <2>1. reg' = [p \in Ops |-> IF p \in unarmed THEN Armed(reg[p]) ELSE reg[p]]
        /\ rearm' = (rearm \/ \E p \in unarmed : reg'[p].next # Unknown)
    BY <1>8 DEF NotifyAwaited
  <2>2. \A p \in Ops :
          /\ reg'[p] \in Registration /\ reg'[p].live = reg[p].live
          /\ reg'[p].restart = reg[p].restart
          /\ p \notin unarmed => reg'[p] = reg[p]
          /\ p \in unarmed => reg'[p].armed /\ (remaining = Unknown => reg'[p].next # Unknown)
    BY <1>1, <2>1, ArmedRegistration
  <2>3. reg' \in [Ops -> Registration]
    BY <2>1, <2>2
  <2>4. TypeOK'
    BY <1>8, <2>2, <2>3 DEF NotifyAwaited, TypeOK, Registration
  <2>5. KeysAreArmed' /\ SchedulerType'
    BY <1>8, <2>2 DEF NotifyAwaited, KeysAreArmed, SchedulerType, TypeOK
  <2>6. RestartIsPending'
    BY <1>8, <2>2 DEF NotifyAwaited, RestartIsPending, Live
  <2>7. NeverOversleeps'
    BY <1>8, <2>1, <2>2 DEF NotifyAwaited, NeverOversleeps, Live, TypeOK
  <2> QED
    BY <2>4, <2>5, <2>6, <2>7
<1> QED
  BY <1>2, <1>3, <1>4, <1>5, <1>6, <1>7, <1>8 DEF OperationStep

LEMMA SchedulerPreserves ==
  ASSUME ScheduleInv, SchedulerStep
  PROVE  ScheduleInv'
<1> USE DEF ScheduleInv
<1>1. reg \in [Ops -> Registration] /\ Unknown \notin Nat /\ Live \subseteq Ops
  BY RegistrationsAreTyped, ScheduleAssumption DEF Live
<1>2. ASSUME ReadNext
      PROVE  ScheduleInv'
  <2> DEFINE N == {reg[o].next : o \in Live} \ {Unknown}
  <2>1. N \in SUBSET Nat
    BY <1>1 DEF Registration, Time
  <2>2. NextRefreshAt \in Time /\ \A n \in N : NextRefreshAt # Unknown /\ NextRefreshAt <= n
    <3>1. NextRefreshAt = Least(N)
      BY DEF NextRefreshAt
    <3> HIDE DEF N
    <3>2. CASE N = {}
      BY <3>1, <3>2 DEF Least, Time
    <3>3. CASE N # {}
      BY <1>1, <2>1, <3>1, <3>3, LeastOfSome DEF Time
    <3> QED
      BY <3>2, <3>3
  <2>3. \A o \in Live : reg[o].next # Unknown => reg[o].next \in N
    OBVIOUS
  <2> HIDE DEF N
  <2> QED
    BY <1>2, <2>2, <2>3 DEF ReadNext, TypeOK, SchedulerType, KeysAreArmed, RestartIsPending,
       NeverOversleeps, Live
<1>3. ASSUME Rearmed \/ SleptUntilDue
      PROVE  ScheduleInv'
  BY ZenonT(30), <1>3 DEF Rearmed, SleptUntilDue, Goto, TypeOK, SchedulerType, KeysAreArmed,
     RestartIsPending, NeverOversleeps, Live
<1>4. ASSUME TakeDue
      PROVE  ScheduleInv'
  <2>1. \A o \in DueNow : o \in Ops /\ reg[o].live /\ reg[o].next # Unknown
    BY <1>1 DEF DueNow, Live
  <2>2. CASE DueNow = {} \/ (~ UnderFloor /\ ~ busy)
    BY <1>4, <2>2 DEF TakeDue, Goto, TypeOK, SchedulerType, KeysAreArmed, RestartIsPending,
       NeverOversleeps, Live
  <2>3. CASE DueNow # {} /\ UnderFloor
    <3>1. reg' = [o \in Ops |-> IF o \in DueNow THEN [reg[o] EXCEPT !.next = Unknown] ELSE reg[o]]
      BY <1>4, <2>3 DEF TakeDue
    <3>2. \A o \in Ops :
            /\ reg'[o] \in Registration /\ reg'[o].live = reg[o].live
            /\ reg'[o].armed = reg[o].armed /\ reg'[o].restart = reg[o].restart
            /\ reg'[o].next \in {reg[o].next, Unknown}
      BY <1>1, <3>1 DEF Registration, Time
    <3>3. reg' \in [Ops -> Registration] /\ remaining' # Unknown
      BY <1>4, <2>3, <3>1, <3>2 DEF TakeDue, UnderFloor
    <3> QED
      BY <1>4, <2>3, <3>2, <3>3 DEF TakeDue, Goto, TypeOK, SchedulerType, KeysAreArmed,
         RestartIsPending, NeverOversleeps, Live, Registration
  <2>4. CASE DueNow # {} /\ ~ UnderFloor /\ busy
    <3>1. /\ sched' = [sched EXCEPT !.pc = "send", !.keys = DueNow]
          /\ UNCHANGED <<record, log, reg, task, woken, owing, awaited, flagging, rearm, remaining,
                         busy>>
      BY <1>4, <2>4 DEF TakeDue
    <3>2. /\ sched'.pc = "send" /\ sched'.keys = DueNow /\ sched'.until = sched.until
          /\ sched'.view = sched.view /\ SchedulerType'
      BY <3>1 DEF SchedulerType
    <3>3. TypeOK'
      BY <2>1, <3>1, <3>2 DEF TypeOK
    <3>4. KeysAreArmed'
      BY <2>1, <3>1, <3>2 DEF KeysAreArmed, TypeOK
    <3> QED
      BY <3>1, <3>2, <3>3, <3>4 DEF RestartIsPending, NeverOversleeps, Live
  <2> QED
    BY <2>2, <2>3, <2>4 DEF TypeOK
<1>5. ASSUME MergeRefresh
      PROVE  ScheduleInv'
  BY <1>1, <1>5 DEF MergeRefresh, ChangedLive, Goto, TypeOK, SchedulerType, KeysAreArmed,
     RestartIsPending, NeverOversleeps, Live
<1>6. ASSUME ViewRecords
      PROVE  ScheduleInv'
  BY <1>6 DEF ViewRecords, TypeOK, SchedulerType, KeysAreArmed, RestartIsPending,
     NeverOversleeps, Live
<1>7. ASSUME AfterRefresh
      PROVE  ScheduleInv'
  <2> DEFINE met == sched.keys \cap Live
             changed == {o \in met : sched.view[o].status # reg[o].status}
  <2>1. /\ reg' = [o \in Ops |-> IF o \in changed THEN Changed(reg[o], sched.view[o])
                                 ELSE IF o \in met THEN BackedOff(reg[o]) ELSE reg[o]]
        /\ woken' = woken \cup changed /\ sched' = Sleeping
        /\ UNCHANGED <<record, log, task, owing, awaited, flagging, rearm, remaining, busy>>
    BY <1>7 DEF AfterRefresh
  <2>2. \A o \in met : o \in Ops /\ reg[o].live /\ reg[o].armed /\ sched.view[o] \in View
    BY <1>1, <1>7 DEF AfterRefresh, SchedulerType, KeysAreArmed, Live
  <2>3. changed \subseteq met
    OBVIOUS
  <2> HIDE DEF met, changed
  <2>4. \A o \in Ops :
          /\ reg'[o] \in Registration /\ reg'[o].live = reg[o].live
          /\ reg'[o].armed = reg[o].armed
          /\ o \in changed => reg'[o].restart /\ reg'[o].next = Unknown
          /\ o \notin changed => reg'[o].restart = reg[o].restart
          /\ o \in met \ changed => (remaining = Unknown => reg'[o].next # Unknown)
          /\ o \notin met => reg'[o] = reg[o]
    BY <1>1, <2>1, <2>2, <2>3, ChangedRegistration, BackedOffRegistration
  <2>5. reg' \in [Ops -> Registration]
    BY <2>1, <2>4
  <2>6. TypeOK'
    BY <2>1, <2>2, <2>3, <2>4, <2>5 DEF TypeOK, Registration, Sleeping, Time
  <2>7. SchedulerType' /\ KeysAreArmed' /\ NeverOversleeps'
    BY <2>1, <2>4 DEF SchedulerType, KeysAreArmed, NeverOversleeps, Sleeping
  <2>8. RestartIsPending'
    BY <2>1, <2>2, <2>3, <2>4 DEF RestartIsPending, Live
  <2> QED
    BY <2>6, <2>7, <2>8
<1> QED
  BY <1>2, <1>3, <1>4, <1>5, <1>6, <1>7 DEF SchedulerStep

\* Time passes for all countdowns alike.
LEMMA LaterIsMonotone ==
  ASSUME NEW s \in Time, NEW t \in Time
  PROVE  /\ Later(s) \in Time /\ (Later(s) = Unknown <=> s = Unknown)
         /\ s # Unknown /\ t # Unknown /\ s <= t => Later(s) <= Later(t)
  BY ScheduleAssumption DEF Later, Time

LEMMA EnvironmentPreserves ==
  ASSUME ScheduleInv,
         \/ \E o \in Ops : RecordChanges(o) \/ MergeOther(o)
         \/ OtherWorkEnds \/ Tick
  PROVE  ScheduleInv'
<1> USE DEF ScheduleInv
<1>1. reg \in [Ops -> Registration]
  BY RegistrationsAreTyped
<1>2. ASSUME NEW o \in Ops, RecordChanges(o)
      PROVE  ScheduleInv'
  <2>1. record' \in [Ops -> View]
    <3>1. PICK due \in Dues \cup {Unknown} :
            record' = [record EXCEPT ![o] = [status |-> @.status + 1, due |-> due]]
      BY <1>2 DEF RecordChanges
    <3>2. record[o].status \in 0 .. Changes /\ record[o].status # Changes
      BY <1>2 DEF RecordChanges, IsReady, TypeOK, View
    <3>3. Changes \in Nat /\ due \in Time
      BY ScheduleAssumption DEF Time
    <3>4. record[o].status + 1 \in 0 .. Changes
      BY <3>2, <3>3
    <3> QED
      BY <3>1, <3>3, <3>4 DEF TypeOK, View
  <2> QED
    BY <1>2, <2>1 DEF RecordChanges, TypeOK, SchedulerType, KeysAreArmed, RestartIsPending,
       NeverOversleeps, Live
<1>3. ASSUME NEW o \in Ops, MergeOther(o)
      PROVE  ScheduleInv'
  BY <1>3 DEF MergeOther, TypeOK, SchedulerType, KeysAreArmed, RestartIsPending,
     NeverOversleeps, Live
<1>4. ASSUME OtherWorkEnds
      PROVE  ScheduleInv'
  BY <1>4 DEF OtherWorkEnds, TypeOK, SchedulerType, KeysAreArmed, RestartIsPending,
     NeverOversleeps, Live
<1>5. ASSUME Tick
      PROVE  ScheduleInv'
  <2>1. \A v \in View : Aged(v) \in View
    BY LaterIsMonotone DEF Aged, View
  <2>2. record' \in [Ops -> View] /\ log' \in [Ops -> View]
    BY <1>5, <2>1 DEF Tick, TypeOK
  <2>3. \A o \in Ops :
          /\ reg'[o] \in Registration /\ reg'[o].live = reg[o].live
          /\ reg'[o].armed = reg[o].armed /\ reg'[o].restart = reg[o].restart
          /\ reg'[o].next = Later(reg[o].next)
    <3>1. \A r \in Registration :
            LET q == [Aged(r) EXCEPT !.next = Later(@)]
            IN  /\ q \in Registration /\ q.live = r.live /\ q.armed = r.armed
                /\ q.restart = r.restart /\ q.next = Later(r.next)
      BY LaterIsMonotone DEF Aged, Registration
    <3> QED
      BY <1>1, <1>5, <3>1 DEF Tick
  <2>4. reg' \in [Ops -> Registration]
    BY <1>5, <2>3 DEF Tick
  <2>5. /\ sched' = [pc |-> sched.pc, until |-> Later(sched.until), keys |-> sched.keys,
                     view |-> [o \in DOMAIN sched.view |-> Aged(sched.view[o])]]
        /\ remaining' = Later(remaining)
        /\ UNCHANGED <<task, woken, owing, awaited, flagging, rearm, busy>>
    BY <1>5 DEF Tick, SchedulerType
  <2>6. sched'.view \in [DOMAIN sched'.view -> View]
    BY <2>1, <2>5 DEF SchedulerType
  <2>7. TypeOK'
    BY <1>1, <2>2, <2>3, <2>4, <2>5, LaterIsMonotone DEF TypeOK, Registration
  <2>8. SchedulerType' /\ KeysAreArmed'
    BY <2>3, <2>5, <2>6 DEF SchedulerType, KeysAreArmed, TypeOK
  <2>9. RestartIsPending'
    BY <1>1, <2>3, <2>5, LaterIsMonotone DEF RestartIsPending, Live, TypeOK, Registration
  <2>10. NeverOversleeps'
    BY <1>1, <2>3, <2>5, LaterIsMonotone DEF NeverOversleeps, Live, TypeOK, Registration
  <2> QED
    BY <2>7, <2>8, <2>9, <2>10
<1> QED
  BY <1>2, <1>3, <1>4, <1>5

(***************************************************************************)
(* The theorems.                                                           *)
(***************************************************************************)
\* The invariant holds in every reachable state.
LEMMA ScheduleInvHolds == Spec => []ScheduleInv
<1>1. ScheduleInv /\ [Next]_vars => ScheduleInv'
  <2> SUFFICES ASSUME ScheduleInv, [Next]_vars PROVE ScheduleInv'
    OBVIOUS
  <2>1. CASE UNCHANGED vars
    BY <2>1 DEF vars, ScheduleInv, TypeOK, SchedulerType, KeysAreArmed, RestartIsPending,
       NeverOversleeps, Live
  <2>2. CASE Next
    BY <2>2, OperationPreserves, SchedulerPreserves, EnvironmentPreserves DEF Next
  <2> QED
    BY <2>1, <2>2
<1> QED
  BY <1>1, InitEstablishes, PTL DEF Spec

\* Records, registrations and the scheduler have their types in every
\* reachable state; a schedule belongs to a registration that is armed.
THEOREM ScheduleIsTyped == Spec => []TypeOK
<1>1. ScheduleInv => TypeOK
  BY DEF ScheduleInv
<1> QED
  BY <1>1, ScheduleInvHolds, PTL

\* For any operations, records, delays and deadline: the scheduler sleeps
\* past no armed refresh, and an operation that waits and is awaited is in
\* the schedule or is about to be polled (`next_refresh_at`, `arm`,
\* `after_refresh`, `resume_schedule`).
THEOREM ScheduleHolds == Spec => []ScheduleIsKept
  BY ScheduleInvHolds, InvImpliesScheduleIsKept, PTL

(***************************************************************************)
(* The deadline.                                                           *)
(***************************************************************************)
\* A refresh that would be due later has room before the deadline.
Fits(next) ==
  remaining # Unknown /\ next \in Nat \ {0} => next + MinRemaining <= remaining

EveryRefreshFits == \A o \in Ops : Fits(reg[o].next)

LEMMA DelaysFit ==
  ASSUME NEW d \in Nat
  PROVE  Fits(IfFits(d))
  BY ScheduleAssumption DEF Fits, IfFits, FitsBeforeDeadline

LEMMA ArmedFits ==
  ASSUME NEW r \in Registration
  PROVE  Fits(Armed(r).next)
<1>1. Armed(r).next = FirstRefreshDelay(r.due)
  BY DEF Armed, Registration
<1>2. InitialDelay \in Nat /\ (r.due = Unknown \/ r.due \in Nat)
  BY ScheduleAssumption DEF Registration, Time
<1> QED
  BY <1>1, <1>2, DelaysFit DEF FirstRefreshDelay

LEMMA BackedOffFits ==
  ASSUME NEW r \in Registration
  PROVE  Fits(BackedOff(r).next)
<1> DEFINE n == IF r.unchanged > BeforeExtended THEN r.unchanged ELSE r.unchanged + 1
<1>1. n \in Nat /\ Ceiling \in Nat /\ Extended \in Nat /\ BeforeExtended \in Nat
  BY ScheduleAssumption DEF Registration
<1>2. BackedOff(r).next = IfFits(RefreshDelay(n))
  BY DEF BackedOff, Registration
<1> HIDE DEF n
<1>3. {n, Ceiling} \in SUBSET Nat /\ {n, Ceiling} # {}
  BY <1>1
<1>4. RefreshDelay(n) \in Nat
  BY <1>1, <1>3, LeastOfSome DEF RefreshDelay
<1> QED
  BY <1>2, <1>4, DelaysFit

\* Every step but the passing of time leaves a refresh where it is, ends
\* it, or moves it by a delay that fits.
LEMMA RefreshesMoveByDelays ==
  ASSUME TypeOK, SchedulerType, Next, ~ Tick, EveryRefreshFits
  PROVE  remaining' = remaining /\ \A p \in Ops : Fits(reg'[p].next)
<1>1. reg \in [Ops -> Registration] /\ Unknown \notin Nat
  BY RegistrationsAreTyped, ScheduleAssumption
<1>2. Fits(Unknown) /\ \A p \in Ops : Fits(reg[p].next)
  BY <1>1 DEF EveryRefreshFits, Fits
<1>3. ASSUME NEW o \in Ops, Register(o)
      PROVE  remaining' = remaining /\ \A p \in Ops : Fits(reg'[p].next)
  <2> DEFINE r == [NoRegistration EXCEPT !.live = TRUE, !.status = log[o].status,
                                         !.due = log[o].due]
  <2>1. r \in Registration /\ r.next = Unknown
    BY NoRegistrationType DEF TypeOK, Registration, NoRegistration, View
  <2>2. Registered(o, o \in awaited) = IF o \in awaited THEN Armed(r) ELSE r
    BY DEF Registered
  <2> HIDE DEF r
  <2>3. Fits(Registered(o, o \in awaited).next)
    BY <1>2, <2>1, <2>2, ArmedFits
  <2> QED
    BY <1>1, <1>2, <1>3, <2>3 DEF Register
<1>4. ASSUME NEW o \in Ops, EndWait(o)
      PROVE  remaining' = remaining /\ \A p \in Ops : Fits(reg'[p].next)
  BY <1>1, <1>2, <1>4 DEF EndWait, NoRegistration
<1>5. ASSUME NEW o \in Ops, WaitAgain(o)
      PROVE  remaining' = remaining /\ \A p \in Ops : Fits(reg'[p].next)
  <2> DEFINE r == [reg[o] EXCEPT !.restart = FALSE]
  <2>1. r \in Registration
    BY <1>1 DEF Registration
  <2>2. reg' = [reg EXCEPT ![o] = IF reg[o].restart THEN Armed(r) ELSE reg[o]]
    BY <1>5 DEF WaitAgain
  <2> HIDE DEF r
  <2>3. remaining' = remaining
    BY <1>5 DEF WaitAgain
  <2> QED
    BY <1>1, <1>2, <2>1, <2>2, <2>3, ArmedFits
<1>6. ASSUME NEW o \in Ops, NotifyAwaited(o)
      PROVE  remaining' = remaining /\ \A p \in Ops : Fits(reg'[p].next)
  BY <1>1, <1>2, <1>6, ArmedFits DEF NotifyAwaited
<1>7. ASSUME TakeDue
      PROVE  remaining' = remaining /\ \A p \in Ops : Fits(reg'[p].next)
  BY <1>1, <1>2, <1>7 DEF TakeDue, Registration
<1>8. ASSUME AfterRefresh
      PROVE  remaining' = remaining /\ \A p \in Ops : Fits(reg'[p].next)
  <2>1. \A p \in Ops : \/ reg'[p] \in {reg[p], BackedOff(reg[p])}
                       \/ \E v : reg'[p] = Changed(reg[p], v)
    BY <1>8 DEF AfterRefresh
  <2>2. \A p \in Ops : \A v : Changed(reg[p], v).next = Unknown
    BY <1>1 DEF Changed, Registration
  <2>3. remaining' = remaining
    BY <1>8 DEF AfterRefresh
  <2> QED
    BY <1>1, <1>2, <2>1, <2>2, <2>3, BackedOffFits
<1>9. ASSUME \/ \E o \in Ops : \/ Notify(o) \/ PollAgain(o) \/ FirstPoll(o)
                               \/ RecordChanges(o) \/ MergeOther(o)
             \/ ReadNext \/ Rearmed \/ SleptUntilDue \/ MergeRefresh \/ ViewRecords
             \/ OtherWorkEnds
      PROVE  UNCHANGED <<reg, remaining>>
  BY <1>9 DEF Notify, PollAgain, FirstPoll, RecordChanges, MergeOther, ReadNext, Rearmed,
     SleptUntilDue, MergeRefresh, ViewRecords, OtherWorkEnds
<1> QED
  BY <1>2, <1>3, <1>4, <1>5, <1>6, <1>7, <1>8, <1>9 DEF Next, OperationStep, SchedulerStep

LEMMA RefreshesFitHolds == Spec => []EveryRefreshFits
<1>1. Init => EveryRefreshFits
  BY ScheduleAssumption DEF Init, EveryRefreshFits, Fits, NoRegistration
<1>2. ScheduleInv /\ EveryRefreshFits /\ [Next]_vars => EveryRefreshFits'
  <2> SUFFICES ASSUME ScheduleInv, EveryRefreshFits, [Next]_vars PROVE EveryRefreshFits'
    OBVIOUS
  <2>1. CASE UNCHANGED vars
    BY <2>1 DEF vars, EveryRefreshFits, Fits
  <2>2. CASE Tick
    <3>1. reg \in [Ops -> Registration] /\ MinRemaining \in Nat /\ remaining \in Time
      BY RegistrationsAreTyped, ScheduleAssumption DEF ScheduleInv, TypeOK
    <3>2. \A r \in Registration : [Aged(r) EXCEPT !.next = Later(@)].next = Later(r.next)
      BY DEF Aged, Registration
    <3>3. \A o \in Ops : reg'[o].next = Later(reg[o].next)
      BY <2>2, <3>1, <3>2 DEF Tick
    <3>4. remaining' = Later(remaining) /\ \A o \in Ops : reg[o].next \in Time
      BY <2>2, <3>1 DEF Tick, Registration
    <3> QED
      BY <3>1, <3>3, <3>4, ScheduleAssumption DEF EveryRefreshFits, Fits, Later, Time
  <2>3. CASE Next /\ ~ Tick
    BY <2>3, RefreshesMoveByDelays DEF ScheduleInv, EveryRefreshFits, Fits
  <2> QED
    BY <2>1, <2>2, <2>3
<1> QED
  BY <1>1, <1>2, ScheduleInvHolds, PTL DEF Spec

\* For any deadline and delays, no schedule holds a refresh that would be
\* sent with less than the minimum left (`fits_before_deadline`).
THEOREM RefreshesAreInTime == Spec => []RefreshesFit
<1>1. EveryRefreshFits => RefreshesFit
  BY DEF EveryRefreshFits, RefreshesFit, Fits, Live
<1> QED
  BY <1>1, RefreshesFitHolds, PTL
=============================================================================
