------------------------- MODULE Invocation_proofs -------------------------
(***************************************************************************)
(* Proofs about module Invocation, for every number of tasks, operations   *)
(* and writes.  The first part has its type invariant, and that a failed   *)
(* write and a withdrawn token never meet in one invocation.  The second   *)
(* has that its permits are counted exactly, that it suspends exactly when *)
(* it must and only as module SuspensionRule allows, loses no wakeup,      *)
(* answers with nothing left of it, and that its answer is the one that    *)
(* what was recorded decides.                                              *)
(***************************************************************************)
EXTENDS Invocation, FiniteSetTheorems, TLAPS

(***************************************************************************)
(* What the coordinator's methods do to its type.                          *)
(***************************************************************************)
CType == CoordinatorType(Tasks \X Ops)

LEMMA NewCoordinatorType == NewCoordinator \in CType
  BY DEF NewCoordinator, CType, CoordinatorType, Phase, FatalSlot

LEMMA CheckSuspensionType ==
  ASSUME NEW s \in CType
  PROVE  CheckSuspension(s) \in CType
  BY DEF CheckSuspension, CType, CoordinatorType, Phase

LEMMA AcquireType ==
  ASSUME NEW s \in CType, NEW kind \in PermitKind
  PROVE  Acquire(s, kind) \in CType
  BY DEF Acquire, CType, CoordinatorType, PermitKind

LEMMA ReleaseType ==
  ASSUME NEW s \in CType, NEW kind \in PermitKind
  PROVE  Release(s, kind) \in CType
  <1>1. [s EXCEPT ![kind] = Lowered(@)] \in CType
    BY DEF CType, CoordinatorType, PermitKind, Lowered
  <1>2. QED
    BY <1>1, CheckSuspensionType DEF Release

LEMMA WaitsType ==
  ASSUME NEW s \in CType, NEW t \in Tasks, NEW o \in Ops
  PROVE  /\ RegisterWait(s, Key(t, o)) \in CType
         /\ Retire(s, Key(t, o)) \in CType
  <1>1. /\ [s EXCEPT !.waits = @ \cup {Key(t, o)}] \in CType
        /\ [s EXCEPT !.waits = @ \ {Key(t, o)}] \in CType
    BY DEF CType, CoordinatorType, Key
  <1>2. QED
    BY <1>1, CheckSuspensionType DEF RegisterWait, Retire

LEMMA LatchTypes ==
  ASSUME NEW s \in CType, NEW severity \in Severity
  PROVE  /\ Finish(s) \in CType
         /\ WakeDriver(s) \in CType
         /\ Record(s, severity) \in CType
         /\ RecordPanic(s) \in CType
         /\ TakePanic(s) \in CType
         /\ SetWriteFailure(s, severity) \in CType
         /\ SetWithdrawn(s) \in CType
         /\ EndWithdrawal(s) \in CType
  BY DEF Finish, WakeDriver, Record, RecordPanic, TakePanic, SetWriteFailure,
         SetWithdrawn, EndWithdrawal, CType, CoordinatorType, Phase, FatalSlot

(***************************************************************************)
(* The operators the actions are built from.                               *)
(***************************************************************************)
LEMMA TaskFacts == Root \in Tasks /\ OpTasks \subseteq Tasks
  BY TaskAssumption DEF OpTasks

LEMMA WriteNames == Writes \subseteq AllWrites /\ Refresh \in AllWrites
  BY DEF AllWrites

LEMMA FutureFacts ==
  /\ Run \in Future /\ Stuck \in Future
  /\ [do |-> "body", on |-> NoTask] \in Future
  /\ [do |-> "timer", on |-> NoTask] \in Future
  /\ \A o \in Ops : /\ [do |-> "check", on |-> o] \in Future
                    /\ [do |-> "wait", on |-> o] \in Future
  /\ \A w \in Writes : /\ [do |-> "submit", on |-> w] \in Future
                       /\ [do |-> "write", on |-> w] \in Future
  /\ \A u \in Tasks : /\ [do |-> "spawning", on |-> u] \in Future
                      /\ [do |-> "join", on |-> u] \in Future
  BY DEF Run, Stuck, Future

LEMMA FutureSteps ==
  ASSUME NEW a \in Future
  PROVE  /\ Resumed(a) \in Future
         /\ a.do = "body" => [a EXCEPT !.do = "bodyDone"] \in Future
         /\ a.do = "timer" => [a EXCEPT !.do = "fired"] \in Future
         /\ a.do = "write" => [a EXCEPT !.do = "written"] \in Future
         /\ a.do \in {"check", "wait"} => a.on \in Ops
         /\ a.do \in {"submit", "write"} => a.on \in Writes
         /\ a.do \in {"spawning", "join", "joinpoll"} => a.on \in Tasks
  BY DEF Resumed, Future

LEMMA GotoType ==
  ASSUME TypeOK, NEW t \in Tasks, NEW a \in Future, Goto(t, a)
  PROVE  at' \in [Tasks -> Future]
  BY DEF Goto, TypeOK

LEMMA BurnType ==
  ASSUME TypeOK, NEW t \in Tasks, Burn(t)
  PROVE  fuel' \in [Tasks -> 0 .. MaxLocal]
  BY TaskAssumption DEF Burn, TypeOK

LEMMA WriteSteps ==
  /\ \A x \in Write, st \in WriteState : [x EXCEPT !.st = st] \in Write
  /\ \A x \in Write, os \in SUBSET Ops : [x EXCEPT !.ops = os] \in Write
  /\ \A x \in Write, ts \in SUBSET Tasks : [x EXCEPT !.wake = ts] \in Write
  /\ \A st \in WriteState : NoWrite(st) \in Write
  /\ \A x \in Write : x.st \in WriteState /\ x.ops \subseteq Ops /\ x.wake \subseteq Tasks
  BY DEF Write, NoWrite

\* A write that enters the queue restarts what a panicked writer left there.
LEMMA QueuedFacts ==
  ASSUME TypeOK, NEW w \in AllWrites
  PROVE  /\ Queued(w) \in [AllWrites -> Write]
         /\ Queued(w)[w].st = "queued"
         /\ \A v \in AllWrites :
              /\ Queued(w)[v].ops = wr[v].ops /\ Queued(w)[v].wake = wr[v].wake
              /\ \/ Queued(w)[v] = wr[v] /\ wr[v].st # "stranded"
                 \/ Queued(w)[v].st = "queued" /\ (v = w \/ wr[v].st = "stranded")
  <1>1. ASSUME NEW v \in AllWrites
        PROVE  /\ wr[v] \in Write /\ [wr[v] EXCEPT !.st = "queued"] \in Write
               /\ [wr[v] EXCEPT !.st = "queued"].st = "queued"
               /\ [wr[v] EXCEPT !.st = "queued"].ops = wr[v].ops
               /\ [wr[v] EXCEPT !.st = "queued"].wake = wr[v].wake
    BY DEF TypeOK, Write, WriteState
  <1>2. QED
    BY <1>1 DEF Queued

\* The writer that stops changes only itself and queued writes.
LEMMA WriterStopsFacts ==
  ASSUME TypeOK, NEW w \in AllWrites, WriterStops(w)
  PROVE  /\ wr' \in [AllWrites -> Write]
         /\ wr[w].st = "unwound" /\ wr'[w].st = "recording"
         /\ \A v \in AllWrites :
              /\ wr'[v].ops = wr[v].ops /\ wr'[v].wake = wr[v].wake
              /\ v # w => \/ wr'[v] = wr[v]
                          \/ wr[v].st = "queued" /\ wr'[v].st = "stranded"
  <1>1. ASSUME NEW v \in AllWrites, NEW st \in {"recording", "stranded"}
        PROVE  /\ wr[v] \in Write /\ [wr[v] EXCEPT !.st = st] \in Write
               /\ [wr[v] EXCEPT !.st = st].st = st
               /\ [wr[v] EXCEPT !.st = st].ops = wr[v].ops
               /\ [wr[v] EXCEPT !.st = st].wake = wr[v].wake
    BY DEF TypeOK, Write, WriteState
  <1>2. PICK left \in {{}, {v \in AllWrites : wr[v].st = "queued"}} :
          wr' = [v \in AllWrites |->
                   IF v = w THEN [wr[v] EXCEPT !.st = "recording"]
                   ELSE IF v \in left THEN [wr[v] EXCEPT !.st = "stranded"] ELSE wr[v]]
    BY DEF WriterStops
  <1>3. \A v \in left : wr[v].st = "queued"
    BY <1>2
  <1>4. QED
    BY <1>1, <1>2, <1>3 DEF WriterStops

LEMMA OnWakeType ==
  ASSUME TypeOK, NEW t \in Tasks, OnWake(t)
  PROVE  c' \in CType /\ sched' \in [Tasks -> SchedState] /\ tokio' \in Wakes
  <1>1. c' \in CType
    BY AcquireType DEF OnWake, TypeOK, CType, PermitKind
  <1>2. SchedAfterWake(t) \in SchedState
    BY DEF SchedAfterWake, TypeOK, SchedState
  <1>3. tokio' \in Wakes
    BY DEF OnWake, Called, TypeOK, Wakes
  <1>4. QED
    BY <1>1, <1>2, <1>3 DEF OnWake, TypeOK

LEMMA TokioType ==
  ASSUME TypeOK, NEW t \in Tasks, Notified(t) \/ Forgotten(t)
  PROVE  tokio' \in Wakes
  BY DEF Notified, Forgotten, TypeOK, Wakes

LEMMA ClosingType ==
  ASSUME TypeOK, NEW us \in SUBSET Tasks
  PROVE  AfterClosing(c, us) \in CType /\ ClosedSlots(us) \in [Tasks -> SlotState]
  <1>1. RecordPanic(c) \in CType
    BY LatchTypes DEF TypeOK, CType, Severity
  <1>2. QED
    BY <1>1 DEF AfterClosing, ClosedSlots, TypeOK, CType, SlotState

LEMMA ChildrenType == ASSUME NEW t PROVE Children(t) \in SUBSET Tasks
  BY DEF Children

LEMMA TrackerExitType ==
  ASSUME TypeOK, TrackerExit
  PROVE  tracker' \in Tracker
  BY DEF TrackerExit, TypeOK, Tracker

\* What DropTask leaves of the coordinator.
DropTaskC(t) ==
  LET retired == IF Registered(t) = {} THEN c
                 ELSE CheckSuspension([c EXCEPT !.waits = @ \ Registered(t)])
      unbodied == IF at[t].do \in {"body", "bodyDone"}
                    THEN Release(retired, "activity") ELSE retired
      closed == AfterClosing(unbodied, Children(t))
  IN IF sched[t] = "Queued" THEN Release(closed, "activity") ELSE closed

LEMMA DropTaskCType ==
  ASSUME TypeOK, NEW t \in Tasks
  PROVE  DropTaskC(t) \in CType
  <1> DEFINE retired == IF Registered(t) = {} THEN c
                        ELSE CheckSuspension([c EXCEPT !.waits = @ \ Registered(t)])
             unbodied == IF at[t].do \in {"body", "bodyDone"}
                           THEN Release(retired, "activity") ELSE retired
             closed == AfterClosing(unbodied, Children(t))
  <1>1. c \in CType /\ [c EXCEPT !.waits = @ \ Registered(t)] \in CType
    BY DEF TypeOK, CType, CoordinatorType, Registered
  <1>2. retired \in CType
    BY <1>1, CheckSuspensionType
  <1>3. unbodied \in CType
    BY <1>2, ReleaseType DEF PermitKind
  <1>4. closed \in CType
    BY <1>3, LatchTypes DEF AfterClosing, Severity
  <1>5. QED
    BY <1>4, ReleaseType DEF DropTaskC, PermitKind

(***************************************************************************)
(* Every action keeps the type invariant, group by group.                  *)
(***************************************************************************)

LEMMA GatewayStepType ==
  ASSUME TypeOK, NEW t \in Tasks, GatewayStep(t)
  PROVE  TypeOK'
  <1> USE DEF taskVars, driverVars
  <1>1. ASSUME OuterWake(t) PROVE TypeOK'
    BY <1>1 DEF OuterWake, TypeOK, Wakes
  <1>2. ASSUME PollEnter(t) PROVE TypeOK'
    BY <1>2 DEF PollEnter, TypeOK, PollState, Wakes
  <1>3. ASSUME PollBegin(t) PROVE TypeOK'
    <2>1. at' \in [Tasks -> Future]
      <3>1. at[t] \in Future /\ Resumed(at[t]) \in Future
        BY FutureSteps DEF TypeOK
      <3>2. QED
        BY <1>3, <3>1 DEF PollBegin, TypeOK
    <2>2. c' \in CType
      BY <1>3, AcquireType DEF PollBegin, TypeOK, PermitKind, CType
    <2>3. QED
      BY <1>3, <2>1, <2>2 DEF PollBegin, TypeOK, SchedState, PollState, CType
  <1>4. ASSUME PollPending(t) PROVE TypeOK'
    BY <1>4 DEF PollPending, TypeOK, SchedState, PollState
  <1>5. ASSUME PollExhausted(t) PROVE TypeOK'
    BY <1>5, TokioType, FutureSteps
    DEF PollExhausted, TypeOK, SchedState, PollState
  <1>6. ASSUME PollLeave(t) PROVE TypeOK'
    BY <1>6, ReleaseType DEF PollLeave, TypeOK, PollState, PermitKind, CType
  <1>7. ASSUME Deliver(t) PROVE TypeOK'
    BY <1>7, OnWakeType, LatchTypes
    DEF Deliver, TypeOK, ReaderWaits, PollState, SlotState, Severity, CType
  <1>8. ASSUME TaskExits(t) PROVE TypeOK'
    BY <1>8, ReleaseType, TrackerExitType
    DEF TaskExits, TypeOK, PollState, PermitKind, CType
  <1>9. ASSUME DropTask(t) PROVE TypeOK'
    BY <1>9, DropTaskCType, ClosingType, ChildrenType, TokioType,
       TrackerExitType, FutureFacts
    DEF DropTask, TypeOK, DropTaskC, PollState, SchedState, CType
  <1>10. QED
    BY <1>1, <1>2, <1>3, <1>4, <1>5, <1>6, <1>7, <1>8, <1>9 DEF GatewayStep

LEMMA UserStepType ==
  ASSUME TypeOK, NEW t \in Tasks, UserStep(t)
  PROVE  TypeOK'
  <1> USE DEF taskVars, driverVars
  <1>1. ASSUME NEW o \in Ops, StartWait(t, o) PROVE TypeOK'
    <2>1. at' \in [Tasks -> Future]
      BY <1>1, GotoType, FutureFacts DEF StartWait, TypeOK
    <2>2. c' \in CType
      <3>1. c \in CType /\ RegisterWait(c, Key(t, o)) \in CType
        BY WaitsType DEF TypeOK, CType
      <3>2. QED
        BY <1>1, <3>1 DEF StartWait
    <2>3. QED
      BY <1>1, <2>1, <2>2 DEF StartWait, TypeOK, CType
  <1>2. ASSUME ReadRecord(t) PROVE TypeOK'
    <2>1. at[t] \in Future /\ at[t].on \in Ops
      BY <1>2, FutureSteps DEF ReadRecord, Polling, TypeOK
    <2>2. at' \in [Tasks -> Future]
      BY <1>2, <2>1, GotoType, FutureFacts DEF ReadRecord, TypeOK
    <2>3. c' \in CType
      <3>1. c \in CType /\ Retire(c, Key(t, at[t].on)) \in CType
        BY <2>1, WaitsType DEF TypeOK, CType
      <3>2. QED
        BY <1>2, <3>1 DEF ReadRecord
    <2>4. QED
      BY <1>2, <2>1, <2>2, <2>3 DEF ReadRecord, TypeOK, CType
  <1>3. ASSUME StartBody(t) PROVE TypeOK'
    <2>1. at' \in [Tasks -> Future]
      BY <1>3, GotoType, FutureFacts DEF StartBody, TypeOK
    <2>2. c' \in CType
      BY <1>3, AcquireType DEF StartBody, TypeOK, PermitKind, CType
    <2>3. fuel' \in [Tasks -> 0 .. MaxLocal]
      BY <1>3, BurnType DEF StartBody
    <2>4. QED
      BY <1>3, <2>1, <2>2, <2>3 DEF StartBody, TypeOK, CType
  <1>4. ASSUME EndBody(t) PROVE TypeOK'
    BY <1>4, ReleaseType, FutureFacts
    DEF EndBody, TypeOK, Polling, Goto, PermitKind, CType
  <1>5. ASSUME StartTimer(t) PROVE TypeOK'
    <2>1. at' \in [Tasks -> Future]
      BY <1>5, GotoType, FutureFacts DEF StartTimer, TypeOK
    <2>2. fuel' \in [Tasks -> 0 .. MaxLocal]
      BY <1>5, BurnType DEF StartTimer
    <2>3. QED
      BY <1>5, <2>1, <2>2 DEF StartTimer, TypeOK, CType
  <1>6. ASSUME Proceed(t) PROVE TypeOK'
    BY <1>6, FutureFacts DEF Proceed, TypeOK, Polling, Goto
  <1>7. ASSUME NEW w \in Writes, SubmitWrite(t, w) PROVE TypeOK'
    <2>1. at' \in [Tasks -> Future]
      BY <1>7, GotoType, FutureFacts DEF SubmitWrite, TypeOK
    <2>2. c' \in CType
      BY <1>7, AcquireType DEF SubmitWrite, TypeOK, PermitKind, CType
    <2>3. wr' \in [AllWrites -> Write]
      BY <1>7, WriteNames DEF SubmitWrite, TypeOK, Write, WriteState
    <2>4. QED
      BY <1>7, <2>1, <2>2, <2>3 DEF SubmitWrite, TypeOK, CType
  <1>8. ASSUME QueueWrite(t) PROVE TypeOK'
    <2>1. at[t].on \in Writes
      BY <1>8, FutureSteps DEF QueueWrite, Polling, TypeOK
    <2>2. at' \in [Tasks -> Future]
      BY <1>8, <2>1, GotoType, FutureFacts DEF QueueWrite, TypeOK
    <2>3. c' \in CType
      BY <1>8, ReleaseType DEF QueueWrite, TypeOK, PermitKind, CType
    <2>4. wr' \in [AllWrites -> Write]
      <3>1. NoWrite("done") \in Write
        BY DEF Write, NoWrite, WriteState
      <3>2. at[t].on \in AllWrites /\ Queued(at[t].on) \in [AllWrites -> Write]
        BY <2>1, WriteNames, QueuedFacts
      <3>3. QED
        BY <1>8, <3>1, <3>2 DEF QueueWrite, TypeOK
    <2>5. QED
      BY <1>8, <2>1, <2>2, <2>3, <2>4 DEF QueueWrite, TypeOK, CType
  <1>9. ASSUME LoseRace(t) PROVE TypeOK'
    <2>1. at' \in [Tasks -> Future]
      BY <1>9, GotoType, FutureFacts DEF LoseRace, TypeOK
    <2>2. c' \in CType
      BY <1>9, ReleaseType, WaitsType, FutureSteps
      DEF LoseRace, TypeOK, Polling, PermitKind, CType
    <2>3. fuel' \in [Tasks -> 0 .. MaxLocal]
      BY <1>9, BurnType DEF LoseRace
    <2>4. QED
      BY <1>9, <2>1, <2>2, <2>3 DEF LoseRace, TypeOK, CType
  <1>10. ASSUME NEW u \in OpTasks, SpawnChild(t, u) PROVE TypeOK'
    <2>1. u \in Tasks
      BY <1>10, TaskFacts DEF SpawnChild
    <2>2. at' \in [Tasks -> Future]
      BY <1>10, <2>1, GotoType, FutureFacts DEF SpawnChild, TypeOK
    <2>3. c' \in CType
      BY <1>10, AcquireType DEF SpawnChild, TypeOK, PermitKind, CType
    <2>4. tokio' \in Wakes
      BY <1>10, <2>1, TokioType DEF SpawnChild, TypeOK
    <2>5. QED
      BY <1>10, <2>1, <2>2, <2>3, <2>4
      DEF SpawnChild, TypeOK, SchedState, CType
  <1>11. ASSUME NEW u \in OpTasks, JoinChild(t, u) PROVE TypeOK'
    BY ZenonT(30), <1>11, FutureFacts, TaskFacts
    DEF JoinChild, TypeOK, Polling, Goto, SlotState
  <1>12. ASSUME NEW u \in OpTasks, JoinPanic(t, u) PROVE TypeOK'
    BY <1>12, FutureFacts, ClosingType, ChildrenType, TokioType, TaskFacts
    DEF JoinPanic, TypeOK, Polling, Goto, SchedState, PollState, SlotState,
        CType
  <1>13. ASSUME NEW u \in OpTasks, CancelChild(t, u) PROVE TypeOK'
    BY <1>13, ClosingType, TaskFacts DEF CancelChild, TypeOK, Tracker, CType
  <1>14. ASSUME RegisterAbort(t) PROVE TypeOK'
    <2>1. at[t].on \in Tasks
      BY <1>14, FutureSteps DEF RegisterAbort, Polling, TypeOK
    <2>2. at' \in [Tasks -> Future]
      BY <1>14, GotoType, FutureFacts DEF RegisterAbort, TypeOK
    <2>3. tracker' \in Tracker
      BY <1>14, <2>1 DEF RegisterAbort, TypeOK, Tracker
    <2>4. QED
      BY <1>14, <2>1, <2>2, <2>3 DEF RegisterAbort, TypeOK, CType
  <1>15. ASSUME NEW severity \in Severity, RecordFatal(t, severity) PROVE TypeOK'
    <2>1. at' \in [Tasks -> Future]
      BY <1>15, GotoType, FutureFacts DEF RecordFatal, TypeOK
    <2>2. c' \in CType
      BY <1>15, LatchTypes DEF RecordFatal, TypeOK, CType
    <2>3. fuel' \in [Tasks -> 0 .. MaxLocal]
      BY <1>15, BurnType DEF RecordFatal
    <2>4. QED
      BY <1>15, <2>1, <2>2, <2>3 DEF RecordFatal, TypeOK, CType
  <1>16. ASSUME NEW kind \in {"value", "panic"}, TaskEnds(t, kind) PROVE TypeOK'
    BY <1>16, ClosingType, ChildrenType, TokioType
    DEF TaskEnds, TypeOK, SchedState, PollState, CType
  <1>17. QED
    BY <1>1, <1>2, <1>3, <1>4, <1>5, <1>6, <1>7, <1>8, <1>9, <1>10, <1>11,
       <1>12, <1>13, <1>14, <1>15, <1>16
    DEF UserStep

LEMMA ServiceStepType ==
  ASSUME TypeOK, NEW w \in AllWrites, ServiceStep(w)
  PROVE  TypeOK'
  <1> USE DEF taskVars, driverVars
  <1>1. ASSUME NEW ready \in SUBSET (Ops \ log), ResponseMerged(w, ready) PROVE TypeOK'
    BY <1>1, WriteSteps DEF ResponseMerged, TypeOK, WriteState
  <1>2. ASSUME NEW severity \in Severity, ResponseFailed(w, severity) PROVE TypeOK'
    BY <1>2, LatchTypes, WriteSteps
    DEF ResponseFailed, TypeOK, WriteState, CType
  <1>3. ASSUME ResponseTokenless(w) PROVE TypeOK'
    BY <1>3, LatchTypes, WriteSteps
    DEF ResponseTokenless, TypeOK, WriteState, CType, Severity
  <1>4. ASSUME ClientPanics(w) PROVE TypeOK'
    BY <1>4, WriteSteps DEF ClientPanics, TypeOK, WriteState
  <1>5. QED
    BY <1>1, <1>2, <1>3, <1>4 DEF ServiceStep

LEMMA WriteStepType ==
  ASSUME TypeOK, NEW w \in AllWrites, WriteStep(w)
  PROVE  TypeOK'
  <1> USE DEF taskVars, driverVars
  <1>1. ASSUME StartWrite(w) PROVE TypeOK'
    BY <1>1, WriteSteps DEF StartWrite, TypeOK, WriteState
  <1>2. ASSUME TakeQueued(w) PROVE TypeOK'
    BY <1>2, WriteSteps DEF TakeQueued, TypeOK, WriteState
  <1>3. ASSUME DropEntry(w) PROVE TypeOK'
    BY <1>3, ReleaseType, WriteSteps
    DEF DropEntry, TypeOK, WriteState, PermitKind, CType
  <1>4. ASSUME EndFailure(w) PROVE TypeOK'
    BY <1>4, LatchTypes, WriteSteps
    DEF EndFailure, TypeOK, WriteState, CType, Severity
  <1>5. ASSUME CollectWakers(w) PROVE TypeOK'
    BY <1>5, WriteSteps DEF CollectWakers, TypeOK, WriteState
  <1>6. ASSUME NEW t \in Tasks, WakeWaiter(w, t) PROVE TypeOK'
    BY <1>6, OnWakeType, WriteSteps DEF WakeWaiter, TypeOK, CType
  <1>7. ASSUME AnswerCaller(w) PROVE TypeOK'
    <2>1. wr' \in [AllWrites -> Write]
      BY <1>7, WriteSteps DEF AnswerCaller, TypeOK, WriteState
    <2>2. ASSUME NEW t \in Callers(w), OnWake(t),
                 Goto(t, IF Answered(w) THEN [at[t] EXCEPT !.do = "written"] ELSE Stuck)
          PROVE  TypeOK'
      <3>1. t \in Tasks /\ at[t] \in Future /\ at[t].do = "write"
        BY <2>2 DEF Callers, TypeOK
      <3>2. at' \in [Tasks -> Future]
        BY <2>2, <3>1, FutureSteps, FutureFacts, GotoType
      <3>3. QED
        BY <1>7, <2>1, <2>2, <3>1, <3>2, OnWakeType DEF AnswerCaller, TypeOK, CType
    <2>3. ASSUME UNCHANGED <<c, sched, tokio, at>> PROVE TypeOK'
      BY <1>7, <2>1, <2>3 DEF AnswerCaller, TypeOK
    <2>4. QED
      BY <1>7, <2>2, <2>3 DEF AnswerCaller
  <1>8. ASSUME ReleaseWrite(w) PROVE TypeOK'
    BY <1>8, ReleaseType, TrackerExitType, WriteSteps
    DEF ReleaseWrite, TypeOK, WriteState, PermitKind, CType
  <1>9. ASSUME UnwindWrite(w) PROVE TypeOK'
    BY <1>9, ReleaseType, WriteSteps
    DEF UnwindWrite, TypeOK, WriteState, PermitKind, CType
  <1>10. ASSUME WriterStops(w) PROVE TypeOK'
    BY <1>10, WriterStopsFacts DEF WriterStops, TypeOK
  <1>11. ASSUME RecordWriterPanic(w) PROVE TypeOK'
    BY <1>11, LatchTypes, TrackerExitType, WriteSteps
    DEF RecordWriterPanic, TypeOK, WriteState, CType, Severity
  <1>12. QED
    BY <1>1, <1>2, <1>3, <1>4, <1>5, <1>6, <1>7, <1>8, <1>9, <1>10, <1>11 DEF WriteStep

LEMMA SchedulerStepType ==
  ASSUME TypeOK, SchedulerStep
  PROVE  TypeOK'
  <1> USE DEF taskVars, driverVars
  <1>1. ASSUME SchedulerTakesDue PROVE TypeOK'
    <2>1. rf' \in Scheduler
      <3>1. rf.left \in 0 .. MaxRefresh /\ rf.left > 0
        BY <1>1 DEF SchedulerTakesDue, TypeOK, Scheduler
      <3>2. rf.left - 1 \in 0 .. MaxRefresh
        BY <3>1, TaskAssumption
      <3>3. QED
        BY <1>1, <3>2 DEF SchedulerTakesDue, TypeOK, Scheduler, SchedulerState
    <2>2. QED
      BY <1>1, <2>1 DEF SchedulerTakesDue, TypeOK, CType
  <1>2. ASSUME SchedulerSends PROVE TypeOK'
    <2>1. c' \in CType
      BY <1>2, AcquireType DEF SchedulerSends, TypeOK, PermitKind, CType
    <2>2. wr' \in [AllWrites -> Write]
      <3>1. Queued(Refresh) \in [AllWrites -> Write]
        BY WriteNames, QueuedFacts
      <3>2. QED
        BY <1>2, <3>1 DEF SchedulerSends, TypeOK
    <2>3. rf' \in Scheduler
      BY <1>2 DEF SchedulerSends, TypeOK, Scheduler, SchedulerState
    <2>4. QED
      BY <1>2, <2>1, <2>2, <2>3 DEF SchedulerSends, TypeOK, CType
  <1>3. ASSUME SchedulerAnswered PROVE TypeOK'
    BY <1>3 DEF SchedulerAnswered, TypeOK, Scheduler, SchedulerState
  <1>4. ASSUME SchedulerDone PROVE TypeOK'
    BY <1>4, ReleaseType
    DEF SchedulerDone, TypeOK, Scheduler, SchedulerState, PermitKind, CType
  <1>5. ASSUME NEW t \in Tasks, SchedulerWakes(t) PROVE TypeOK'
    BY <1>5, OnWakeType DEF SchedulerWakes, TypeOK, Scheduler, CType
  <1>6. QED
    BY <1>1, <1>2, <1>3, <1>4, <1>5 DEF SchedulerStep

LEMMA DriverStepType ==
  ASSUME TypeOK, DriverStep
  PROVE  TypeOK'
  <1> USE DEF taskVars, driverVars
  <1>1. ASSUME DriveStart PROVE TypeOK'
    BY <1>1, LatchTypes, AcquireType, TaskFacts, TokioType
    DEF DriveStart, TypeOK, DriverState, SchedState, Severity, PermitKind,
        CType
  <1>2. ASSUME DriverCheckFatal PROVE TypeOK'
    BY <1>2
    DEF DriverCheckFatal, TypeOK, EndDrive, DriverState, CoordinatorType
  <1>3. ASSUME DriverPollRoot PROVE TypeOK'
    BY <1>3, LatchTypes
    DEF DriverPollRoot, TypeOK, EndDrive, DriverState, SlotState, Severity,
        CType
  <1>4. ASSUME DriverCheckPhase PROVE TypeOK'
    BY <1>4 DEF DriverCheckPhase, TypeOK, EndDrive, DriverState
  <1>5. ASSUME DriverParks PROVE TypeOK'
    BY <1>5 DEF DriverParks, TypeOK, DriverState
  <1>6. ASSUME DriverWakes PROVE TypeOK'
    BY <1>6 DEF DriverWakes, TypeOK, DriverState
  <1>7. ASSUME DropScheduler PROVE TypeOK'
    BY <1>7, ReleaseType
    DEF DropScheduler, TypeOK, DriverState, Scheduler, SchedulerState,
        PermitKind, CType
  <1>8. ASSUME DriverFinish PROVE TypeOK'
    BY <1>8, LatchTypes
    DEF DriverFinish, TypeOK, DriverState, Severity, CType
  <1>9. ASSUME AbortRoot PROVE TypeOK'
    BY <1>9, ClosingType, TaskFacts
    DEF AbortRoot, TypeOK, DriverState, Tracker, CType
  <1>10. ASSUME RootAwaited PROVE TypeOK'
    BY <1>10 DEF RootAwaited, TypeOK, DriverState
  <1>11. ASSUME AbortAll PROVE TypeOK'
    BY <1>11 DEF AbortAll, TypeOK, DriverState, Tracker
  <1>12. ASSUME WaitIdle PROVE TypeOK'
    BY <1>12 DEF WaitIdle, TypeOK, DriverState
  <1>13. ASSUME ReadFatal PROVE TypeOK'
    BY <1>13
    DEF ReadFatal, TypeOK, DriverState, Outcome, CoordinatorType, FatalSlot
  <1>14. ASSUME Arbitrate PROVE TypeOK'
    BY <1>14, LatchTypes
    DEF Arbitrate, TypeOK, DriverState, Outcome, Severity, CType
  <1>15. ASSUME Answer PROVE TypeOK'
    BY <1>15 DEF Answer, TypeOK, DriverState, Outcome
  <1>16. QED
    BY <1>1, <1>2, <1>3, <1>4, <1>5, <1>6, <1>7, <1>8, <1>9, <1>10, <1>11,
       <1>12, <1>13, <1>14, <1>15
    DEF DriverStep

LEMMA InitType == Init => TypeOK
  <1>1. ASSUME Init PROVE c \in CType
    BY <1>1, NewCoordinatorType, LatchTypes DEF Init, Severity
  <1>2. ASSUME Init PROVE rf \in Scheduler /\ fuel \in [Tasks -> 0 .. MaxLocal]
    BY <1>2, TaskAssumption DEF Init, Scheduler, SchedulerState
  <1>3. ASSUME Init PROVE wr \in [AllWrites -> Write]
    BY <1>3 DEF Init, Write, NoWrite, WriteState
  <1>4. ASSUME Init PROVE tokio \in Wakes /\ tracker \in Tracker /\ log \in SUBSET Ops
    BY <1>4 DEF Init, Wakes, Tracker
  <1>5. QED
    BY <1>1, <1>2, <1>3, <1>4, FutureFacts
    DEF Init, TypeOK, CType, SchedState, PollState, SlotState, DriverState, Outcome

LEMMA NextType ==
  ASSUME TypeOK, [Next]_vars
  PROVE  TypeOK'
  <1> USE DEF driverVars
  <1>1. ASSUME NEW t \in Tasks, OutsideWake(t) PROVE TypeOK'
    <2>1. at[t] \in Future
      BY DEF TypeOK
    <2>2. at' \in [Tasks -> Future]
      BY <1>1, <2>1, FutureSteps DEF OutsideWake, TypeOK
    <2>3. QED
      BY <1>1, <2>2, OnWakeType DEF OutsideWake, TypeOK, CType
  <1>2. ASSUME RootFinish PROVE TypeOK'
    BY <1>2, LatchTypes DEF RootFinish, TypeOK, PollState, Severity, CType
  <1>3. ASSUME EndRefreshWrite PROVE TypeOK'
    <2>1. wr' \in [AllWrites -> Write]
      BY <1>3, WriteSteps, WriteNames DEF EndRefreshWrite, TypeOK, WriteState
    <2>2. wr[Refresh].ops \in SUBSET Ops
      BY WriteSteps, WriteNames DEF TypeOK
    <2>3. rf' \in Scheduler
      BY <1>3, <2>2 DEF EndRefreshWrite, TypeOK, Scheduler, SchedulerState
    <2>4. c' \in CType
      BY <1>3, LatchTypes DEF EndRefreshWrite, TypeOK, Severity, CType
    <2>5. QED
      BY <1>3, <2>1, <2>3, <2>4, TrackerExitType DEF EndRefreshWrite, TypeOK, CType
  <1>4. ASSUME Returned \/ UNCHANGED vars PROVE TypeOK'
    BY <1>4 DEF Returned, TypeOK, vars, taskVars
  <1>5. QED
    BY <1>1, <1>2, <1>3, <1>4, GatewayStepType, UserStepType, ServiceStepType,
       WriteStepType, SchedulerStepType, DriverStepType DEF Next

\* Every variable keeps its type, whatever the tasks, the service and the
\* scheduling do (the records of coordinator.rs, task.rs and driver.rs).
THEOREM TypeCorrect == Spec => []TypeOK
  BY InitType, NextType, PTL DEF Spec

(***************************************************************************)
(* The latches.  At most one write holds the checkpoint-token lock, and a  *)
(* request is in flight only while neither latch is set; so the response   *)
(* that sets one latch finds the other one unset.                          *)
(***************************************************************************)
OneTokenHolder ==
  \A v, w \in AllWrites : HoldsToken(v) /\ HoldsToken(w) => v = w

SentUnlatched == \A w \in AllWrites : wr[w].st = "sent" => ~ Latched

LatchInv == OneTokenHolder /\ SentUnlatched /\ LatchesExclude

Latch(s) == <<s.withdrawn, s.writeFailure>>

LEMMA CheckKeepsLatch ==
  ASSUME NEW s \in CType
  PROVE  Latch(CheckSuspension(s)) = Latch(s)
  BY DEF CheckSuspension, Latch, CType, CoordinatorType

LEMMA PermitsKeepLatch ==
  ASSUME NEW s \in CType, NEW kind \in PermitKind
  PROVE  Latch(Acquire(s, kind)) = Latch(s) /\ Latch(Release(s, kind)) = Latch(s)
  <1>1. /\ [s EXCEPT ![kind] = Lowered(@)] \in CType
        /\ Latch([s EXCEPT ![kind] = Lowered(@)]) = Latch(s)
    BY DEF CType, CoordinatorType, PermitKind, Lowered, Latch
  <1>2. QED
    BY <1>1, CheckKeepsLatch DEF Acquire, Release, Latch, CType, CoordinatorType, PermitKind

LEMMA WaitsKeepLatch ==
  ASSUME NEW s \in CType, NEW ks \in SUBSET (Tasks \X Ops)
  PROVE  /\ Latch([s EXCEPT !.waits = @ \cup ks]) = Latch(s)
         /\ Latch(CheckSuspension([s EXCEPT !.waits = @ \ ks])) = Latch(s)
  <1>1. /\ [s EXCEPT !.waits = @ \ ks] \in CType
        /\ Latch([s EXCEPT !.waits = @ \ ks]) = Latch(s)
        /\ Latch([s EXCEPT !.waits = @ \cup ks]) = Latch(s)
    BY DEF CType, CoordinatorType, Latch
  <1>2. QED
    BY <1>1, CheckKeepsLatch

LEMMA SlotsKeepLatch ==
  ASSUME NEW s \in CType, NEW severity \in Severity, NEW us
  PROVE  /\ Latch(Finish(s)) = Latch(s) /\ Latch(WakeDriver(s)) = Latch(s)
         /\ Latch(Record(s, severity)) = Latch(s)
         /\ Latch(RecordPanic(s)) = Latch(s) /\ Latch(TakePanic(s)) = Latch(s)
         /\ Latch(EndWithdrawal(s)) = Latch(s)
         /\ Latch(AfterClosing(s, us)) = Latch(s)
  BY DEF Finish, WakeDriver, Record, RecordPanic, TakePanic, EndWithdrawal,
         AfterClosing, Latch, CType, CoordinatorType

LEMMA DropTaskLatch ==
  ASSUME TypeOK, NEW t \in Tasks
  PROVE  Latch(DropTaskC(t)) = Latch(c)
  <1> DEFINE retired == IF Registered(t) = {} THEN c
                        ELSE CheckSuspension([c EXCEPT !.waits = @ \ Registered(t)])
             unbodied == IF at[t].do \in {"body", "bodyDone"}
                           THEN Release(retired, "activity") ELSE retired
             closed == AfterClosing(unbodied, Children(t))
  <1>1. c \in CType /\ [c EXCEPT !.waits = @ \ Registered(t)] \in CType
    BY DEF TypeOK, CType, CoordinatorType, Registered
  <1>2. retired \in CType /\ Latch(retired) = Latch(c)
    <2>1. Registered(t) \in SUBSET (Tasks \X Ops)
      BY DEF Registered, TypeOK, CoordinatorType
    <2>2. QED
      BY <1>1, <2>1, CheckSuspensionType, WaitsKeepLatch
  <1>3. unbodied \in CType /\ Latch(unbodied) = Latch(c)
    BY <1>2, ReleaseType, PermitsKeepLatch DEF PermitKind
  <1>4. closed \in CType /\ Latch(closed) = Latch(c)
    BY <1>3, LatchTypes, SlotsKeepLatch DEF AfterClosing, Severity
  <1>5. QED
    BY <1>4, PermitsKeepLatch DEF DropTaskC, PermitKind

LEMMA WakesKeepLatch ==
  ASSUME TypeOK, NEW t \in Tasks, OnWake(t)
  PROVE  Latch(c)' = Latch(c)
  BY PermitsKeepLatch DEF OnWake, TypeOK, CType, PermitKind, Latch

\* A step that leaves the latches alone and takes no token.
LatchFrame ==
  /\ Latch(c)' = Latch(c)
  /\ \A w \in AllWrites : /\ HoldsToken(w)' => HoldsToken(w)
                          /\ wr'[w].st = "sent" => wr[w].st = "sent"

LEMMA FrameKeepsLatchInv ==
  ASSUME LatchInv, LatchFrame
  PROVE  LatchInv'
  BY DEF LatchInv, LatchFrame, OneTokenHolder, SentUnlatched, LatchesExclude,
         Latched, Latch

LEMMA GatewayStepLatch ==
  ASSUME TypeOK, NEW t \in Tasks, GatewayStep(t)
  PROVE  LatchFrame
  <1> USE DEF LatchFrame
  <1>1. ASSUME OuterWake(t) PROVE LatchFrame
    BY <1>1 DEF OuterWake, HoldsToken
  <1>2. ASSUME PollEnter(t) PROVE LatchFrame
    BY <1>2 DEF PollEnter, HoldsToken
  <1>3. ASSUME PollBegin(t) PROVE LatchFrame
    BY <1>3, PermitsKeepLatch
    DEF PollBegin, HoldsToken, PermitKind, TypeOK, CType, Latch
  <1>4. ASSUME PollPending(t) PROVE LatchFrame
    BY <1>4 DEF PollPending, HoldsToken
  <1>5. ASSUME PollExhausted(t) PROVE LatchFrame
    BY <1>5 DEF PollExhausted, HoldsToken
  <1>6. ASSUME PollLeave(t) PROVE LatchFrame
    BY <1>6, PermitsKeepLatch
    DEF PollLeave, HoldsToken, PermitKind, TypeOK, CType, Latch
  <1>7. ASSUME Deliver(t) PROVE LatchFrame
    BY ZenonT(30), <1>7, WakesKeepLatch, SlotsKeepLatch
    DEF Deliver, HoldsToken, ReaderWaits, Severity, TypeOK, CType, Latch
  <1>8. ASSUME TaskExits(t) PROVE LatchFrame
    BY <1>8, PermitsKeepLatch
    DEF TaskExits, HoldsToken, PermitKind, TypeOK, CType, Latch
  <1>9. ASSUME DropTask(t) PROVE LatchFrame
    BY <1>9, DropTaskLatch DEF DropTask, HoldsToken, DropTaskC
  <1>10. QED
    BY <1>1, <1>2, <1>3, <1>4, <1>5, <1>6, <1>7, <1>8, <1>9 DEF GatewayStep

LEMMA UserStepLatch ==
  ASSUME TypeOK, NEW t \in Tasks, UserStep(t)
  PROVE  LatchFrame
  <1> USE DEF LatchFrame
  <1>1. ASSUME NEW o \in Ops, StartWait(t, o) PROVE LatchFrame
    <2>1. Latch(RegisterWait(c, Key(t, o))) = Latch(c)
      BY WaitsKeepLatch, {Key(t, o)} \in SUBSET (Tasks \X Ops)
      DEF RegisterWait, Key, TypeOK, CType
    <2>2. QED
      BY <1>1, <2>1 DEF StartWait, HoldsToken, Latch
  <1>2. ASSUME ReadRecord(t) PROVE LatchFrame
    <2>1. {Key(t, at[t].on)} \in SUBSET (Tasks \X Ops)
      <3>1. at[t] \in Future /\ at[t].on \in Ops
        BY <1>2, FutureSteps DEF ReadRecord, Polling, TypeOK
      <3>2. QED
        BY <3>1 DEF Key
    <2>2. Latch(Retire(c, Key(t, at[t].on))) = Latch(c)
      BY <2>1, WaitsKeepLatch DEF Retire, TypeOK, CType
    <2>3. QED
      BY <1>2, <2>2 DEF ReadRecord, HoldsToken, Latch
  <1>3. ASSUME StartBody(t) PROVE LatchFrame
    BY <1>3, PermitsKeepLatch
    DEF StartBody, HoldsToken, PermitKind, TypeOK, CType, Latch
  <1>4. ASSUME EndBody(t) PROVE LatchFrame
    BY <1>4, PermitsKeepLatch
    DEF EndBody, HoldsToken, PermitKind, TypeOK, CType, Latch
  <1>5. ASSUME StartTimer(t) PROVE LatchFrame
    BY <1>5 DEF StartTimer, HoldsToken
  <1>6. ASSUME Proceed(t) PROVE LatchFrame
    BY <1>6 DEF Proceed, HoldsToken
  <1>7. ASSUME NEW w \in Writes, SubmitWrite(t, w) PROVE LatchFrame
    <2>1. Latch(c)' = Latch(c)
      BY <1>7, PermitsKeepLatch DEF SubmitWrite, PermitKind, TypeOK, CType, Latch
    <2>2. QED
      BY <1>7, <2>1, WriteNames DEF SubmitWrite, HoldsToken, TypeOK, Write
  <1>8. ASSUME QueueWrite(t) PROVE LatchFrame
    <2>1. Latch(c)' = Latch(c)
      BY <1>8, PermitsKeepLatch DEF QueueWrite, PermitKind, TypeOK, CType, Latch
    <2>2. at[t].on \in AllWrites
      BY <1>8, FutureSteps, WriteNames DEF QueueWrite, Polling, TypeOK
    <2>3. CASE wr' = Queued(at[t].on)
      BY <2>1, <2>2, <2>3, QueuedFacts DEF HoldsToken
    <2>4. CASE wr' = [wr EXCEPT ![at[t].on] = NoWrite("done")]
      BY <2>1, <2>4 DEF HoldsToken, NoWrite, TypeOK, Write
    <2>5. QED
      BY <1>8, <2>3, <2>4 DEF QueueWrite
  <1>9. ASSUME LoseRace(t) PROVE LatchFrame
    <2>1. CASE at[t].do = "check"
      <3>1. {Key(t, at[t].on)} \in SUBSET (Tasks \X Ops)
        <4>1. at[t] \in Future /\ at[t].on \in Ops
          BY <2>1, FutureSteps DEF TypeOK
        <4>2. QED
          BY <4>1 DEF Key
      <3>2. Latch(Retire(c, Key(t, at[t].on))) = Latch(c)
        BY <3>1, WaitsKeepLatch DEF Retire, TypeOK, CType
      <3>3. QED
        BY <1>9, <2>1, <3>2 DEF LoseRace, HoldsToken, Latch
    <2>2. CASE at[t].do # "check"
      BY <1>9, <2>2, PermitsKeepLatch
      DEF LoseRace, HoldsToken, PermitKind, TypeOK, CType, Latch
    <2>3. QED
      BY <2>1, <2>2
  <1>10. ASSUME NEW u \in OpTasks, SpawnChild(t, u) PROVE LatchFrame
    BY <1>10, PermitsKeepLatch
    DEF SpawnChild, HoldsToken, PermitKind, TypeOK, CType, Latch
  <1>11. ASSUME NEW u \in OpTasks, JoinChild(t, u) PROVE LatchFrame
    BY <1>11 DEF JoinChild, HoldsToken
  <1>12. ASSUME NEW u \in OpTasks, JoinPanic(t, u) PROVE LatchFrame
    BY <1>12, SlotsKeepLatch
    DEF JoinPanic, HoldsToken, Severity, TypeOK, CType, Latch
  <1>13. ASSUME NEW u \in OpTasks, CancelChild(t, u) PROVE LatchFrame
    BY <1>13, SlotsKeepLatch
    DEF CancelChild, HoldsToken, Severity, TypeOK, CType, Latch
  <1>14. ASSUME RegisterAbort(t) PROVE LatchFrame
    BY <1>14 DEF RegisterAbort, HoldsToken
  <1>15. ASSUME NEW severity \in Severity, RecordFatal(t, severity) PROVE LatchFrame
    BY <1>15, SlotsKeepLatch
    DEF RecordFatal, HoldsToken, TypeOK, CType, Latch
  <1>16. ASSUME NEW kind \in {"value", "panic"}, TaskEnds(t, kind) PROVE LatchFrame
    BY <1>16, SlotsKeepLatch
    DEF TaskEnds, HoldsToken, Severity, TypeOK, CType, Latch
  <1>17. QED
    BY <1>1, <1>2, <1>3, <1>4, <1>5, <1>6, <1>7, <1>8, <1>9, <1>10, <1>11,
       <1>12, <1>13, <1>14, <1>15, <1>16
    DEF UserStep

LEMMA SchedulerStepLatch ==
  ASSUME TypeOK, SchedulerStep
  PROVE  LatchFrame
  <1> USE DEF LatchFrame
  <1>1. ASSUME SchedulerTakesDue PROVE LatchFrame
    BY <1>1 DEF SchedulerTakesDue, HoldsToken
  <1>2. ASSUME SchedulerSends PROVE LatchFrame
    <2>1. Latch(c)' = Latch(c)
      BY <1>2, PermitsKeepLatch DEF SchedulerSends, PermitKind, TypeOK, CType, Latch
    <2>2. wr' = wr \/ wr' = Queued(Refresh)
      BY <1>2 DEF SchedulerSends
    <2>3. QED
      BY <2>1, <2>2, WriteNames, QueuedFacts DEF HoldsToken
  <1>3. ASSUME SchedulerAnswered PROVE LatchFrame
    BY <1>3 DEF SchedulerAnswered, HoldsToken
  <1>4. ASSUME SchedulerDone PROVE LatchFrame
    BY <1>4, PermitsKeepLatch
    DEF SchedulerDone, HoldsToken, PermitKind, TypeOK, CType, Latch
  <1>5. ASSUME NEW t \in Tasks, SchedulerWakes(t) PROVE LatchFrame
    BY <1>5, WakesKeepLatch DEF SchedulerWakes, HoldsToken
  <1>6. QED
    BY <1>1, <1>2, <1>3, <1>4, <1>5 DEF SchedulerStep

LEMMA DriverStepLatch ==
  ASSUME TypeOK, DriverStep
  PROVE  LatchFrame
  <1> USE DEF LatchFrame
  <1>1. ASSUME DriveStart PROVE LatchFrame
    <2>1. Finish(c) \in CType /\ Latch(Finish(c)) = Latch(c)
      BY LatchTypes, SlotsKeepLatch DEF Severity, TypeOK, CType
    <2>2. Latch(c)' = Latch(c)
      <3> DEFINE begun == IF c.panic THEN Finish(c) ELSE c
      <3>1. begun \in CType /\ Latch(begun) = Latch(c)
        BY <2>1 DEF TypeOK, CType
      <3>2. Latch(Acquire(begun, "activity")) = Latch(c)
        BY <3>1, PermitsKeepLatch DEF PermitKind
      <3>3. c' = begun \/ c' = Acquire(begun, "activity")
        BY <1>1 DEF DriveStart
      <3>4. QED
        BY <3>1, <3>2, <3>3 DEF Latch
    <2>3. QED
      BY <1>1, <2>2 DEF DriveStart, HoldsToken
  <1>2. ASSUME DriverCheckFatal PROVE LatchFrame
    BY <1>2
    DEF DriverCheckFatal, HoldsToken, CoordinatorType, TypeOK, CType, Latch
  <1>3. ASSUME DriverPollRoot PROVE LatchFrame
    BY <1>3, SlotsKeepLatch
    DEF DriverPollRoot, HoldsToken, Severity, TypeOK, CType, Latch
  <1>4. ASSUME DriverCheckPhase PROVE LatchFrame
    BY <1>4 DEF DriverCheckPhase, HoldsToken
  <1>5. ASSUME DriverParks PROVE LatchFrame
    BY <1>5 DEF DriverParks, HoldsToken
  <1>6. ASSUME DriverWakes PROVE LatchFrame
    BY <1>6 DEF DriverWakes, HoldsToken
  <1>7. ASSUME DropScheduler PROVE LatchFrame
    BY <1>7, PermitsKeepLatch
    DEF DropScheduler, HoldsToken, PermitKind, TypeOK, CType, Latch
  <1>8. ASSUME DriverFinish PROVE LatchFrame
    BY <1>8, SlotsKeepLatch
    DEF DriverFinish, HoldsToken, Severity, TypeOK, CType, Latch
  <1>9. ASSUME AbortRoot PROVE LatchFrame
    BY <1>9, SlotsKeepLatch
    DEF AbortRoot, HoldsToken, Severity, TypeOK, CType, Latch
  <1>10. ASSUME RootAwaited PROVE LatchFrame
    BY <1>10 DEF RootAwaited, HoldsToken
  <1>11. ASSUME AbortAll PROVE LatchFrame
    BY <1>11 DEF AbortAll, HoldsToken
  <1>12. ASSUME WaitIdle PROVE LatchFrame
    BY <1>12 DEF WaitIdle, HoldsToken
  <1>13. ASSUME ReadFatal PROVE LatchFrame
    BY <1>13 DEF ReadFatal, HoldsToken
  <1>14. ASSUME Arbitrate PROVE LatchFrame
    BY <1>14, SlotsKeepLatch
    DEF Arbitrate, HoldsToken, Severity, TypeOK, CType, Latch
  <1>15. ASSUME Answer PROVE LatchFrame
    BY <1>15 DEF Answer, HoldsToken
  <1>16. QED
    BY <1>1, <1>2, <1>3, <1>4, <1>5, <1>6, <1>7, <1>8, <1>9, <1>10, <1>11,
       <1>12, <1>13, <1>14, <1>15
    DEF DriverStep

LEMMA WriteStepLatch ==
  ASSUME TypeOK, LatchInv, NEW w \in AllWrites, WriteStep(w)
  PROVE  LatchInv'
  <1>1. ASSUME StartWrite(w) PROVE LatchInv'
    BY <1>1
    DEF StartWrite, LatchInv, OneTokenHolder, SentUnlatched, LatchesExclude,
        TokenLocked, HoldsToken, Latched, TypeOK, Write
  <1>2. ASSUME TakeQueued(w) PROVE LatchInv'
    BY <1>2
    DEF TakeQueued, LatchInv, OneTokenHolder, SentUnlatched, LatchesExclude,
        HoldsToken, Latched, TypeOK, Write
  <1>3. ASSUME DropEntry(w) PROVE LatchFrame
    <2>1. Latch(c)' = Latch(c)
      BY <1>3, PermitsKeepLatch DEF DropEntry, PermitKind, TypeOK, CType, Latch
    <2>2. QED
      BY <1>3, <2>1 DEF DropEntry, LatchFrame, HoldsToken, TypeOK, Write
  <1>4. ASSUME EndFailure(w) PROVE LatchFrame
    <2>1. Latch(c)' = Latch(c)
      BY <1>4, SlotsKeepLatch DEF EndFailure, Severity, TypeOK, CType, Latch
    <2>2. QED
      BY <1>4, <2>1 DEF EndFailure, LatchFrame, HoldsToken, TypeOK, Write
  <1>5. ASSUME CollectWakers(w) PROVE LatchFrame
    BY <1>5 DEF CollectWakers, LatchFrame, Latch, HoldsToken, TypeOK, Write
  <1>6. ASSUME NEW t \in Tasks, WakeWaiter(w, t) PROVE LatchFrame
    BY <1>6, WakesKeepLatch DEF WakeWaiter, LatchFrame, HoldsToken, TypeOK, Write
  <1>7. ASSUME AnswerCaller(w) PROVE LatchFrame
    <2>1. Latch(c)' = Latch(c)
      BY <1>7, WakesKeepLatch DEF AnswerCaller, Callers, Latch
    <2>2. QED
      BY <1>7, <2>1 DEF AnswerCaller, LatchFrame, HoldsToken, NoWrite, TypeOK, Write
  <1>8. ASSUME ReleaseWrite(w) PROVE LatchFrame
    <2>1. Latch(c)' = Latch(c)
      BY <1>8, PermitsKeepLatch DEF ReleaseWrite, PermitKind, TypeOK, CType, Latch
    <2>2. QED
      BY <1>8, <2>1 DEF ReleaseWrite, LatchFrame, HoldsToken, NoWrite, TypeOK, Write
  <1>9. ASSUME UnwindWrite(w) PROVE LatchFrame
    <2>1. Latch(c)' = Latch(c)
      BY <1>9, PermitsKeepLatch DEF UnwindWrite, PermitKind, TypeOK, CType, Latch
    <2>2. QED
      BY <1>9, <2>1 DEF UnwindWrite, LatchFrame, HoldsToken, TypeOK, Write
  <1>10. ASSUME WriterStops(w) PROVE LatchFrame
    <2>1. Latch(c)' = Latch(c)
      BY <1>10 DEF WriterStops, Latch
    <2>2. QED
      BY <1>10, <2>1, WriterStopsFacts DEF LatchFrame, HoldsToken
  <1>11. ASSUME RecordWriterPanic(w) PROVE LatchFrame
    <2>1. Latch(c)' = Latch(c)
      BY <1>11, SlotsKeepLatch DEF RecordWriterPanic, Severity, TypeOK, CType, Latch
    <2>2. QED
      BY <1>11, <2>1 DEF RecordWriterPanic, LatchFrame, HoldsToken, NoWrite, TypeOK, Write
  <1>12. QED
    BY <1>1, <1>2, <1>3, <1>4, <1>5, <1>6, <1>7, <1>8, <1>9, <1>10, <1>11, FrameKeepsLatchInv
    DEF WriteStep

\* The steps that set a latch: the write that got the response holds the
\* token, and it was sent while both latches were unset.
LEMMA ServiceStepLatch ==
  ASSUME TypeOK, LatchInv, NEW w \in AllWrites, ServiceStep(w)
  PROVE  LatchInv'
  <1>1. ASSUME NEW ready \in SUBSET (Ops \ log), ResponseMerged(w, ready) PROVE LatchFrame
    BY <1>1 DEF ResponseMerged, LatchFrame, Latch, HoldsToken, TypeOK, Write
  <1>2. ASSUME wr[w].st = "sent",
               \/ wr' = [wr EXCEPT ![w].st = "failing"]
               \/ wr' = [wr EXCEPT ![w].st = "withdrawing"]
        PROVE  OneTokenHolder' /\ \A v \in AllWrites : wr'[v].st # "sent"
    BY <1>2 DEF LatchInv, OneTokenHolder, HoldsToken, TypeOK, Write
  <1>3. ASSUME wr[w].st = "sent" PROVE ~ c.withdrawn /\ c.writeFailure = "None"
    BY <1>3 DEF LatchInv, SentUnlatched, Latched
  <1>4. ASSUME NEW severity \in Severity, ResponseFailed(w, severity) PROVE LatchInv'
    <2>1. ~ c.withdrawn'
      BY <1>3, <1>4 DEF ResponseFailed, SetWriteFailure, TypeOK, CoordinatorType
    <2>2. QED
      BY <1>2, <1>4, <2>1 DEF ResponseFailed, LatchInv, SentUnlatched, LatchesExclude
  <1>5. ASSUME ResponseTokenless(w) PROVE LatchInv'
    <2>1. c.writeFailure' = "None"
      BY <1>3, <1>5 DEF ResponseTokenless, SetWithdrawn, TypeOK, CoordinatorType
    <2>2. QED
      BY <1>2, <1>5, <2>1 DEF ResponseTokenless, LatchInv, SentUnlatched, LatchesExclude
  <1>6. ASSUME ClientPanics(w) PROVE LatchFrame
    BY <1>6 DEF ClientPanics, LatchFrame, Latch, HoldsToken, TypeOK, Write
  <1>7. QED
    BY <1>1, <1>4, <1>5, <1>6, FrameKeepsLatchInv DEF ServiceStep

LEMMA NextLatch ==
  ASSUME TypeOK, LatchInv, [Next]_vars
  PROVE  LatchInv'
  <1>1. ASSUME NEW t \in Tasks, OutsideWake(t) PROVE LatchFrame
    BY <1>1, WakesKeepLatch DEF OutsideWake, LatchFrame, HoldsToken
  <1>2. ASSUME RootFinish PROVE LatchFrame
    BY <1>2, SlotsKeepLatch
    DEF RootFinish, LatchFrame, HoldsToken, Severity, TypeOK, CType, Latch
  <1>3. ASSUME EndRefreshWrite PROVE LatchFrame
    <2>1. Latch(c)' = Latch(c)
      BY <1>3, SlotsKeepLatch DEF EndRefreshWrite, Severity, TypeOK, CType, Latch
    <2>2. QED
      BY <1>3, <2>1 DEF EndRefreshWrite, LatchFrame, HoldsToken, NoWrite, TypeOK, Write
  <1>4. ASSUME Returned \/ UNCHANGED vars PROVE LatchFrame
    BY <1>4 DEF Returned, vars, LatchFrame, Latch, HoldsToken
  <1>5. QED
    BY <1>1, <1>2, <1>3, <1>4, GatewayStepLatch, UserStepLatch, WriteStepLatch,
       ServiceStepLatch, SchedulerStepLatch, DriverStepLatch, FrameKeepsLatchInv
    DEF Next

LEMMA InitLatch == Init => LatchInv
  <1>1. ASSUME Init PROVE ~ c.withdrawn /\ c.writeFailure = "None"
    <2>1. Latch(NewCoordinator) = <<FALSE, "None">>
      BY DEF NewCoordinator, Latch
    <2>2. Latch(RecordPanic(NewCoordinator)) = <<FALSE, "None">>
      BY <2>1, NewCoordinatorType, SlotsKeepLatch DEF Severity
    <2>3. QED
      BY <1>1, <2>1, <2>2 DEF Init, Latch
  <1>2. ASSUME Init PROVE \A w \in AllWrites : ~ HoldsToken(w) /\ wr[w].st # "sent"
    BY <1>2 DEF Init, HoldsToken, NoWrite
  <1>3. QED
    BY <1>1, <1>2 DEF LatchInv, OneTokenHolder, SentUnlatched, LatchesExclude, Latched

\* A failed write and a withdrawn token never meet in one invocation, so
\* `withdrawal_answer` never has to choose between their answers.
THEOREM LatchesNeverMeet == Spec => []LatchesExclude
  <1>1. TypeOK /\ LatchInv /\ [Next]_vars => (TypeOK /\ LatchInv)'
    BY NextType, NextLatch
  <1>2. LatchInv => LatchesExclude
    BY DEF LatchInv
  <1>3. QED
    BY <1>1, <1>2, InitType, InitLatch, PTL DEF Spec

(***************************************************************************)
(* Counting.                                                               *)
(***************************************************************************)
Num(b) == IF b THEN 1 ELSE 0

\* Two sets that differ in one element at most differ by one at most.
LEMMA OneMoves ==
  ASSUME NEW S, NEW T, NEW x, IsFiniteSet(S), IsFiniteSet(T), S \ {x} = T \ {x}
  PROVE  /\ Cardinality(S) \in Nat /\ Cardinality(T) \in Nat
         /\ Cardinality(S) + Num(x \in T) = Cardinality(T) + Num(x \in S)
         /\ x \in S => Cardinality(S) >= 1
  <1>1. /\ Cardinality(S) \in Nat /\ Cardinality(T) \in Nat
        /\ Cardinality(S \ {x}) \in Nat
    BY FS_CardinalityType, FS_RemoveElement
  <1>2. Cardinality(S \ {x}) = IF x \in S THEN Cardinality(S) - 1 ELSE Cardinality(S)
    BY FS_RemoveElement
  <1>3. Cardinality(T \ {x}) = IF x \in T THEN Cardinality(T) - 1 ELSE Cardinality(T)
    BY FS_RemoveElement
  <1>4. QED
    BY <1>1, <1>2, <1>3 DEF Num

(***************************************************************************)
(* What the coordinator's methods may do.  A call that takes neither a     *)
(* permit nor a registration yields: it may lower the counts, retire waits *)
(* and decide to suspend, and it never leaves a decision untaken.          *)
(***************************************************************************)
DecidesBy(s, r) ==
  /\ s.phase = "Running" /\ ~ s.withdrawn /\ s.fatal = "None" /\ ~ s.panic
  /\ NoPermits(r) /\ r.waits # {}

Yields(s, r) ==
  /\ r \in CType
  /\ r.activity <= s.activity /\ r.checkpoint <= s.checkpoint /\ r.scheduler <= s.scheduler
  /\ r.waits \subseteq s.waits
  /\ r.withdrawn = s.withdrawn
  /\ s.fatal # "None" => r.fatal = s.fatal
  /\ r.writeFailure = s.writeFailure \/ r.fatal # "None"
  /\ s.panic => r.panic
  /\ r.panicOpen = s.panicOpen
  /\ r.phase = "Finished" <=> s.phase = "Finished"
  /\ r.phase = "Running" => s.phase = "Running"
  /\ r.phase = "Suspending" => s.phase = "Suspending" \/ r.withdrawn \/ DecidesBy(s, r)
  /\ ~ MustSuspend(s) => ~ MustSuspend(r)

LEMMA YieldsAgain ==
  ASSUME NEW s \in CType, NEW r \in CType, NEW q \in CType, Yields(s, r), Yields(r, q),
         q.waits = r.waits
  PROVE  Yields(s, q)
  <1>1. /\ s.activity \in Nat /\ r.activity \in Nat /\ q.activity \in Nat
        /\ s.checkpoint \in Nat /\ r.checkpoint \in Nat /\ q.checkpoint \in Nat
        /\ s.scheduler \in Nat /\ r.scheduler \in Nat /\ q.scheduler \in Nat
        /\ {s.phase, r.phase, q.phase} \subseteq Phase
    BY DEF CType, CoordinatorType
  <1>2. ASSUME NoPermits(r) PROVE NoPermits(q)
    BY <1>1, <1>2 DEF Yields, NoPermits
  <1>3. q.phase = "Suspending" => s.phase = "Suspending" \/ q.withdrawn \/ DecidesBy(s, q)
    <2>1. CASE r.phase = "Suspending"
      BY <1>2, <2>1 DEF Yields, DecidesBy
    <2>2. CASE r.phase # "Suspending"
      BY <1>1, <2>2 DEF Yields, DecidesBy, Phase
    <2>3. QED
      BY <2>1, <2>2
  <1>4. QED
    BY <1>1, <1>3 DEF Yields

LEMMA SameYields ==
  ASSUME NEW s \in CType PROVE Yields(s, s)
  BY DEF Yields, CType, CoordinatorType

LEMMA CheckYields ==
  ASSUME NEW s \in CType
  PROVE  /\ Yields(s, CheckSuspension(s))
         /\ ~ MustSuspend(CheckSuspension(s))
         /\ CheckSuspension(s).waits = s.waits
         /\ CheckSuspension(s).activity = s.activity
         /\ CheckSuspension(s).checkpoint = s.checkpoint
         /\ CheckSuspension(s).scheduler = s.scheduler
         /\ CheckSuspension(s).fatal = s.fatal /\ CheckSuspension(s).panic = s.panic
         /\ CheckSuspension(s).withdrawn = s.withdrawn
         /\ CheckSuspension(s).writeFailure = s.writeFailure
  <1>1. CASE MustSuspend(s)
    <2>1. CheckSuspension(s) = [s EXCEPT !.phase = "Suspending", !.driverWoken = TRUE]
      BY <1>1 DEF CheckSuspension
    <2>2. QED
      BY <1>1, <2>1, CheckSuspensionType
      DEF MustSuspend, Yields, DecidesBy, NoPermits, CType, CoordinatorType
  <1>2. CASE ~ MustSuspend(s)
    BY <1>2, SameYields DEF CheckSuspension
  <1>3. QED
    BY <1>1, <1>2

LEMMA LoweredFacts ==
  ASSUME NEW n \in Nat
  PROVE  Lowered(n) \in Nat /\ Lowered(n) <= n /\ (n > 0 => Lowered(n) + 1 = n)
  BY DEF Lowered

\* Lowering a count and checking the rule yields.
LEMMA ReleaseFacts ==
  ASSUME NEW s \in CType, NEW kind \in PermitKind
  PROVE  /\ Yields(s, Release(s, kind))
         /\ ~ MustSuspend(Release(s, kind))
         /\ Release(s, kind).waits = s.waits
         /\ Release(s, kind).activity = IF kind = "activity" THEN Lowered(s.activity) ELSE s.activity
         /\ Release(s, kind).checkpoint = IF kind = "checkpoint" THEN Lowered(s.checkpoint) ELSE s.checkpoint
         /\ Release(s, kind).scheduler = IF kind = "scheduler" THEN Lowered(s.scheduler) ELSE s.scheduler
         /\ Release(s, kind).fatal = s.fatal /\ Release(s, kind).panic = s.panic
         /\ Release(s, kind).writeFailure = s.writeFailure
  <1> DEFINE r == [s EXCEPT ![kind] = Lowered(@)]
  <1>1. /\ r \in CType /\ r.waits = s.waits /\ r.phase = s.phase /\ r.withdrawn = s.withdrawn
        /\ r.panicOpen = s.panicOpen
        /\ r.fatal = s.fatal /\ r.panic = s.panic /\ r.writeFailure = s.writeFailure
        /\ r.activity = IF kind = "activity" THEN Lowered(s.activity) ELSE s.activity
        /\ r.checkpoint = IF kind = "checkpoint" THEN Lowered(s.checkpoint) ELSE s.checkpoint
        /\ r.scheduler = IF kind = "scheduler" THEN Lowered(s.scheduler) ELSE s.scheduler
    BY LoweredFacts DEF CType, CoordinatorType, PermitKind
  <1>2. /\ s.activity \in Nat /\ s.checkpoint \in Nat /\ s.scheduler \in Nat
        /\ s.phase \in Phase
    BY DEF CType, CoordinatorType
  <1>3. /\ r.activity <= s.activity /\ r.checkpoint <= s.checkpoint
        /\ r.scheduler <= s.scheduler
    BY <1>1, <1>2, LoweredFacts
  <1> HIDE DEF r
  <1>4. /\ Release(s, kind) = CheckSuspension(r)
        /\ Yields(r, CheckSuspension(r)) /\ ~ MustSuspend(CheckSuspension(r))
    BY <1>1, CheckYields DEF Release, r
  <1>5. Yields(s, Release(s, kind))
    <2> DEFINE q == Release(s, kind)
    <2>1. /\ Yields(r, q) /\ ~ MustSuspend(q) /\ q \in CType
          /\ q.activity \in Nat /\ q.checkpoint \in Nat /\ q.scheduler \in Nat
          /\ r.activity \in Nat /\ r.checkpoint \in Nat /\ r.scheduler \in Nat
      BY <1>1, <1>4 DEF Yields, CType, CoordinatorType
    <2> HIDE DEF q
    <2>2. Yields(s, q)
      BY <1>1, <1>2, <1>3, <2>1 DEF Yields, DecidesBy
    <2>3. QED
      BY <2>2 DEF q
  <1>6. QED
    BY <1>1, <1>4, <1>5, CheckYields

LEMMA RetireFacts ==
  ASSUME NEW s \in CType, NEW ks
  PROVE  LET r == CheckSuspension([s EXCEPT !.waits = @ \ ks])
         IN  /\ Yields(s, r) /\ ~ MustSuspend(r)
             /\ r.waits = s.waits \ ks
             /\ r.activity = s.activity /\ r.checkpoint = s.checkpoint
             /\ r.scheduler = s.scheduler
             /\ r.fatal = s.fatal /\ r.panic = s.panic /\ r.writeFailure = s.writeFailure
  <1> DEFINE r == [s EXCEPT !.waits = @ \ ks]
             q == CheckSuspension(r)
  <1>1. /\ r \in CType /\ r.waits = s.waits \ ks /\ r.phase = s.phase
        /\ r.withdrawn = s.withdrawn /\ r.panicOpen = s.panicOpen
        /\ r.fatal = s.fatal /\ r.panic = s.panic /\ r.writeFailure = s.writeFailure
        /\ r.activity = s.activity /\ r.checkpoint = s.checkpoint
        /\ r.scheduler = s.scheduler
    BY DEF CType, CoordinatorType
  <1> HIDE DEF r
  <1>2. /\ Yields(r, q) /\ ~ MustSuspend(q) /\ q.waits = r.waits
        /\ q.activity = r.activity /\ q.checkpoint = r.checkpoint
        /\ q.scheduler = r.scheduler
        /\ q.fatal = r.fatal /\ q.panic = r.panic /\ q.writeFailure = r.writeFailure
    BY <1>1, CheckYields
  <1> HIDE DEF q
  <1>3. Yields(s, q)
    BY <1>1, <1>2 DEF Yields, DecidesBy, CType, CoordinatorType
  <1>4. QED
    BY <1>1, <1>2, <1>3 DEF q, r

\* The calls that record something.
LEMMA RecordsYield ==
  ASSUME NEW s \in CType, NEW severity \in Severity
  PROVE  /\ Yields(s, WakeDriver(s)) /\ Yields(s, Record(s, severity))
         /\ Yields(s, RecordPanic(s)) /\ Yields(s, SetWriteFailure(s, severity))
         /\ s.withdrawn => Yields(s, EndWithdrawal(s))
         /\ Yields(s, [s EXCEPT !.driverWoken = FALSE])
  <1> USE DEF Yields, MustSuspend, NoPermits, DecidesBy
  <1>1. /\ WakeDriver(s) \in CType /\ Record(s, severity) \in CType /\ RecordPanic(s) \in CType
        /\ SetWriteFailure(s, severity) \in CType /\ EndWithdrawal(s) \in CType
        /\ [s EXCEPT !.driverWoken = FALSE] \in CType
    BY ZenonT(30), LatchTypes DEF CType, CoordinatorType
  <1>2. Yields(s, WakeDriver(s)) /\ Yields(s, [s EXCEPT !.driverWoken = FALSE])
    BY <1>1 DEF WakeDriver, CType, CoordinatorType
  <1>3. Yields(s, Record(s, severity))
    BY <1>1 DEF Record, CType, CoordinatorType, Severity
  <1>4. Yields(s, RecordPanic(s))
    BY <1>1 DEF RecordPanic, CType, CoordinatorType
  <1>5. Yields(s, SetWriteFailure(s, severity))
    BY <1>1 DEF SetWriteFailure, CType, CoordinatorType, Severity
  <1>6. ASSUME s.withdrawn PROVE Yields(s, EndWithdrawal(s))
    <2> DEFINE r == EndWithdrawal(s)
    <2>1. /\ r \in CType /\ r.activity = s.activity /\ r.checkpoint = s.checkpoint
          /\ r.scheduler = s.scheduler /\ r.waits = s.waits /\ r.withdrawn = s.withdrawn
          /\ r.fatal = s.fatal /\ r.panic = s.panic /\ r.writeFailure = s.writeFailure
          /\ r.panicOpen = s.panicOpen
          /\ r.phase = IF s.phase = "Running" THEN "Suspending" ELSE s.phase
      BY <1>1 DEF EndWithdrawal, CType, CoordinatorType
    <2>2. s.activity \in Nat /\ s.checkpoint \in Nat /\ s.scheduler \in Nat
      BY DEF CType, CoordinatorType
    <2> HIDE DEF r
    <2>3. Yields(s, r)
      BY <1>6, <2>1, <2>2
    <2>4. QED
      BY <2>3 DEF r
  <1>7. QED
    BY <1>2, <1>3, <1>4, <1>5, <1>6

\* None of them touches the counts or the waits.
Kept(s, r) ==
  /\ r.activity = s.activity /\ r.checkpoint = s.checkpoint /\ r.scheduler = s.scheduler
  /\ r.waits = s.waits

LEMMA RecordsKeep ==
  ASSUME NEW s \in CType, NEW severity \in Severity, NEW us
  PROVE  /\ Kept(s, WakeDriver(s)) /\ Kept(s, Record(s, severity))
         /\ Kept(s, RecordPanic(s)) /\ Kept(s, SetWriteFailure(s, severity))
         /\ Kept(s, EndWithdrawal(s)) /\ Kept(s, [s EXCEPT !.driverWoken = FALSE])
         /\ Kept(s, Finish(s)) /\ Kept(s, SetWithdrawn(s)) /\ Kept(s, TakePanic(s))
         /\ Kept(s, AfterClosing(s, us))
  BY DEF Kept, WakeDriver, Record, RecordPanic, SetWriteFailure, EndWithdrawal, Finish,
         SetWithdrawn, TakePanic, AfterClosing, CType, CoordinatorType

LEMMA ClosingYields ==
  ASSUME NEW s \in CType, NEW us
  PROVE  Yields(s, AfterClosing(s, us)) /\ AfterClosing(s, us) \in CType
  BY RecordsYield, SameYields, LatchTypes DEF AfterClosing, Severity

LEMMA AcquireFacts ==
  ASSUME NEW s \in CType, NEW kind \in PermitKind
  PROVE  /\ Acquire(s, kind) \in CType
         /\ Acquire(s, kind).activity = IF kind = "activity" THEN s.activity + 1 ELSE s.activity
         /\ Acquire(s, kind).checkpoint = IF kind = "checkpoint" THEN s.checkpoint + 1 ELSE s.checkpoint
         /\ Acquire(s, kind).scheduler = IF kind = "scheduler" THEN s.scheduler + 1 ELSE s.scheduler
         /\ Acquire(s, kind).waits = s.waits /\ Acquire(s, kind).phase = s.phase
         /\ Acquire(s, kind).withdrawn = s.withdrawn
         /\ Acquire(s, kind).panicOpen = s.panicOpen
         /\ Acquire(s, kind).fatal = s.fatal /\ Acquire(s, kind).panic = s.panic
         /\ Acquire(s, kind).writeFailure = s.writeFailure
  BY DEF Acquire, CType, CoordinatorType, PermitKind

(***************************************************************************)
(* What each task holds, and how one step changes it.                      *)
(***************************************************************************)
Runs(t) == sched[t] \in {"Queued", "Polling", "Woken"}
Ends(t) == poll[t] \in {"leaving", "value", "panic", "delivered", "finished"}
HasBody(t) == at[t].do \in {"body", "bodyDone"}

\* The activity permits of one task, and of all.
Held(t) == Num(Runs(t)) + Num(Ends(t)) + Num(HasBody(t))
HeldByAll == Cardinality(Runnable) + Cardinality(Ending) + Cardinality(Bodies)

OthersKeep(t) ==
  \A u \in Tasks \ {t} : /\ Runs(u)' <=> Runs(u)
                         /\ Ends(u)' <=> Ends(u)
                         /\ HasBody(u)' <=> HasBody(u)

Grows(t) == /\ Runs(t) \/ Ends(t) => Runs(t)' \/ Ends(t)'
            /\ HasBody(t) => HasBody(t)'
Shrinks(t) == /\ Runs(t)' \/ Ends(t)' => Runs(t) \/ Ends(t)
              /\ HasBody(t)' => HasBody(t)

LEMMA TasksAreCounted ==
  /\ IsFiniteSet(Runnable) /\ IsFiniteSet(Ending) /\ IsFiniteSet(Bodies)
  /\ HeldByAll \in Nat
  <1>1. IsFiniteSet(Runnable) /\ IsFiniteSet(Ending) /\ IsFiniteSet(Bodies)
    BY FS_Subset, TaskAssumption DEF Runnable, Ending, Bodies
  <1>2. QED
    BY <1>1, FS_CardinalityType DEF HeldByAll

\* When one task changes, the count of all changes with it.
LEMMA OneTaskMoves ==
  ASSUME NEW t \in Tasks, OthersKeep(t)
  PROVE  /\ HeldByAll \in Nat /\ HeldByAll' \in Nat /\ Held(t) \in Nat /\ Held(t)' \in Nat
         /\ HeldByAll' + Held(t) = HeldByAll + Held(t)'
         /\ Held(t) <= HeldByAll
  <1>1. /\ IsFiniteSet(Runnable') /\ IsFiniteSet(Ending') /\ IsFiniteSet(Bodies')
        /\ IsFiniteSet(Runnable) /\ IsFiniteSet(Ending) /\ IsFiniteSet(Bodies)
    BY FS_Subset, TaskAssumption DEF Runnable, Ending, Bodies
  <1>2. /\ Runnable \ {t} = Runnable' \ {t}
        /\ Ending \ {t} = Ending' \ {t}
        /\ Bodies \ {t} = Bodies' \ {t}
    BY DEF OthersKeep, Runs, Ends, HasBody, Runnable, Ending, Bodies
  <1>3. /\ t \in Runnable <=> Runs(t)
        /\ t \in Ending <=> Ends(t)
        /\ t \in Bodies <=> HasBody(t)
        /\ t \in Runnable' <=> Runs(t)'
        /\ t \in Ending' <=> Ends(t)'
        /\ t \in Bodies' <=> HasBody(t)'
    BY DEF Runs, Ends, HasBody, Runnable, Ending, Bodies
  <1>4. /\ Cardinality(Runnable) \in Nat /\ Cardinality(Runnable') \in Nat
        /\ Cardinality(Runnable) + Num(Runs(t)') = Cardinality(Runnable') + Num(Runs(t))
        /\ Runs(t) => Cardinality(Runnable) >= 1
    BY <1>1, <1>2, <1>3, OneMoves DEF Num
  <1>5. /\ Cardinality(Ending) \in Nat /\ Cardinality(Ending') \in Nat
        /\ Cardinality(Ending) + Num(Ends(t)') = Cardinality(Ending') + Num(Ends(t))
        /\ Ends(t) => Cardinality(Ending) >= 1
    BY <1>1, <1>2, <1>3, OneMoves DEF Num
  <1>6. /\ Cardinality(Bodies) \in Nat /\ Cardinality(Bodies') \in Nat
        /\ Cardinality(Bodies) + Num(HasBody(t)') = Cardinality(Bodies') + Num(HasBody(t))
        /\ HasBody(t) => Cardinality(Bodies) >= 1
    BY <1>1, <1>2, <1>3, OneMoves DEF Num
  <1>7. QED
    BY <1>4, <1>5, <1>6 DEF HeldByAll, Held, Num

\* The permits of a step: one task's activity, one write, the scheduler.
ActivityStep ==
  \E t \in Tasks :
    /\ OthersKeep(t)
    /\ \/ c'.activity = c.activity /\ Held(t)' = Held(t) /\ Grows(t) /\ Shrinks(t)
       \/ c'.activity = c.activity + 1 /\ Held(t)' = Held(t) + 1 /\ Grows(t)
       \/ c'.activity = Lowered(c.activity) /\ Held(t) = Held(t)' + 1 /\ Shrinks(t)
       \/ c'.activity = Lowered(Lowered(c.activity)) /\ Held(t) = Held(t)' + 2 /\ Shrinks(t)

Pending(w) == wr[w].st \notin {"free", "orphan", "unwound", "recording", "done"}

CheckpointStep ==
  \/ c'.checkpoint = c.checkpoint /\ \A v \in Writes : Pending(v)' <=> Pending(v)
  \/ \E w \in Writes :
       /\ \A v \in Writes \ {w} : Pending(v)' <=> Pending(v)
       /\ \/ c'.checkpoint = c.checkpoint + 1 /\ ~ Pending(w) /\ Pending(w)'
          \/ c'.checkpoint = Lowered(c.checkpoint) /\ Pending(w) /\ ~ Pending(w)'

RefreshStep ==
  \/ c'.scheduler = c.scheduler /\ (Refreshing' <=> Refreshing)
  \/ c'.scheduler = c.scheduler + 1 /\ ~ Refreshing /\ Refreshing'
  \/ c'.scheduler = Lowered(c.scheduler) /\ Refreshing /\ ~ Refreshing'

PermitStep == ActivityStep /\ CheckpointStep /\ RefreshStep

LEMMA PermitStepCounts ==
  ASSUME TypeOK, PermitAccounting, PermitStep
  PROVE  PermitAccounting'
  <1>1. c.activity \in Nat /\ c.checkpoint \in Nat /\ c.scheduler \in Nat
    BY DEF TypeOK, CoordinatorType
  <1>2. c'.activity = HeldByAll'
    <2>1. PICK t \in Tasks :
            /\ OthersKeep(t)
            /\ \/ c'.activity = c.activity /\ Held(t)' = Held(t)
               \/ c'.activity = c.activity + 1 /\ Held(t)' = Held(t) + 1
               \/ c'.activity = Lowered(c.activity) /\ Held(t) = Held(t)' + 1
               \/ c'.activity = Lowered(Lowered(c.activity)) /\ Held(t) = Held(t)' + 2
      BY DEF PermitStep, ActivityStep
    <2>2. c.activity = HeldByAll
      BY DEF PermitAccounting, HeldByAll
    <2>3. QED
      BY <1>1, <2>1, <2>2, OneTaskMoves DEF Lowered
  <1>3. c'.checkpoint = Cardinality(Admitted')
    <2>1. /\ IsFiniteSet(Admitted) /\ IsFiniteSet(Admitted')
          /\ \A w \in Writes : (w \in Admitted <=> Pending(w)) /\ (w \in Admitted' <=> Pending(w)')
          /\ Admitted \subseteq Writes /\ Admitted' \subseteq Writes
      BY FS_Subset, TaskAssumption DEF Admitted, Pending
    <2>2. c.checkpoint = Cardinality(Admitted)
      BY DEF PermitAccounting
    <2>3. CASE c'.checkpoint = c.checkpoint /\ \A v \in Writes : Pending(v)' <=> Pending(v)
      <3>1. Admitted' = Admitted
        BY <2>1, <2>3
      <3>2. QED
        BY <2>2, <2>3, <3>1
    <2>4. ASSUME NEW w \in Writes,
                 \A v \in Writes \ {w} : Pending(v)' <=> Pending(v),
                 \/ c'.checkpoint = c.checkpoint + 1 /\ ~ Pending(w) /\ Pending(w)'
                 \/ c'.checkpoint = Lowered(c.checkpoint) /\ Pending(w) /\ ~ Pending(w)'
          PROVE  c'.checkpoint = Cardinality(Admitted')
      <3>1. Admitted \ {w} = Admitted' \ {w}
        BY <2>1, <2>4
      <3>2. /\ Cardinality(Admitted) \in Nat /\ Cardinality(Admitted') \in Nat
            /\ Cardinality(Admitted) + Num(w \in Admitted') = Cardinality(Admitted') + Num(w \in Admitted)
            /\ w \in Admitted => Cardinality(Admitted) >= 1
        BY <2>1, <3>1, OneMoves
      <3>3. QED
        BY <1>1, <2>1, <2>2, <2>4, <3>2 DEF Num, Lowered
    <2>5. QED
      BY <2>3, <2>4 DEF PermitStep, CheckpointStep
  <1>4. c'.scheduler = IF Refreshing' THEN 1 ELSE 0
    BY <1>1 DEF PermitStep, RefreshStep, PermitAccounting, Lowered
  <1>5. QED
    BY <1>2, <1>3, <1>4 DEF PermitAccounting, HeldByAll

(***************************************************************************)
(* The frames of a step that leaves the permits of a kind alone.           *)
(***************************************************************************)
LEMMA QuietTasks ==
  ASSUME UNCHANGED <<sched, poll, at>>, c'.activity = c.activity
  PROVE  ActivityStep
  <1>1. OthersKeep(Root) /\ Held(Root)' = Held(Root) /\ Grows(Root) /\ Shrinks(Root)
    BY DEF OthersKeep, Held, Grows, Shrinks, Runs, Ends, HasBody
  <1>2. QED
    BY <1>1, TaskFacts DEF ActivityStep

LEMMA QuietWrites ==
  ASSUME wr' = wr, rf' = rf, c'.checkpoint = c.checkpoint, c'.scheduler = c.scheduler
  PROVE  CheckpointStep /\ RefreshStep
  BY DEF CheckpointStep, RefreshStep, Pending, Refreshing

\* The counts and the waits after the calls the actions make.
LEMMA PermitCalls ==
  ASSUME TypeOK
  PROVE  /\ c \in CType
         /\ LET r == Acquire(c, "activity")
            IN  /\ r.activity = c.activity + 1 /\ r.checkpoint = c.checkpoint
                /\ r.scheduler = c.scheduler /\ r.waits = c.waits
         /\ LET r == Release(c, "activity")
            IN  /\ r.activity = Lowered(c.activity) /\ r.checkpoint = c.checkpoint
                /\ r.scheduler = c.scheduler /\ r.waits = c.waits
         /\ LET r == Acquire(c, "checkpoint")
            IN  /\ r.activity = c.activity /\ r.checkpoint = c.checkpoint + 1
                /\ r.scheduler = c.scheduler /\ r.waits = c.waits
         /\ LET r == Release(c, "checkpoint")
            IN  /\ r.activity = c.activity /\ r.checkpoint = Lowered(c.checkpoint)
                /\ r.scheduler = c.scheduler /\ r.waits = c.waits
         /\ LET r == Acquire(c, "scheduler")
            IN  /\ r.activity = c.activity /\ r.checkpoint = c.checkpoint
                /\ r.scheduler = c.scheduler + 1 /\ r.waits = c.waits
         /\ LET r == Release(c, "scheduler")
            IN  /\ r.activity = c.activity /\ r.checkpoint = c.checkpoint
                /\ r.scheduler = Lowered(c.scheduler) /\ r.waits = c.waits
  <1>1. c \in CType /\ "activity" \in PermitKind /\ "checkpoint" \in PermitKind
        /\ "scheduler" \in PermitKind
    BY DEF TypeOK, CType, PermitKind
  <1>2. QED
    BY SMTT(30), <1>1, AcquireFacts, ReleaseFacts

LEMMA RecordCalls ==
  ASSUME TypeOK
  PROVE  /\ Kept(c, WakeDriver(c)) /\ Kept(c, RecordPanic(c)) /\ Kept(c, EndWithdrawal(c))
         /\ Kept(c, [c EXCEPT !.driverWoken = FALSE]) /\ Kept(c, Finish(c))
         /\ Kept(c, SetWithdrawn(c)) /\ Kept(c, TakePanic(c))
         /\ \A us \in SUBSET Tasks : Kept(c, AfterClosing(c, us))
         /\ \A severity \in Severity : /\ Kept(c, Record(c, severity))
                                       /\ Kept(c, SetWriteFailure(c, severity))
  BY RecordsKeep DEF TypeOK, CType, Severity

\* What a wake does to the task and to the coordinator.
LEMMA OnWakeFacts ==
  ASSUME TypeOK, NEW t \in Tasks, OnWake(t)
  PROVE  /\ \A u \in Tasks \ {t} : sched'[u] = sched[u]
         /\ \/ /\ sched[t] = "Idle" /\ sched'[t] = "Queued" /\ Admits(c)
               /\ c' = Acquire(c, "activity")
            \/ sched[t] = "Idle" /\ sched'[t] = "Idle" /\ ~ Admits(c) /\ c' = c
            \/ sched[t] = "Polling" /\ sched'[t] = "Woken" /\ c' = c
            \/ sched[t] \notin {"Idle", "Polling"} /\ sched'[t] = sched[t] /\ c' = c
         /\ tokio.called \subseteq tokio'.called /\ tokio'.notified = tokio.notified
         /\ t \in tokio'.called \/ sched[t] = "Done"
  <1>1. /\ \A u \in Tasks \ {t} : sched'[u] = sched[u]
        /\ sched'[t] = SchedAfterWake(t)
    BY DEF OnWake, TypeOK
  <1>2. Grants(c, "activity") <=> Admits(c)
    BY DEF Grants
  <1>3. /\ tokio.called \subseteq tokio'.called /\ tokio'.notified = tokio.notified
        /\ t \in tokio'.called \/ sched[t] = "Done"
    BY DEF OnWake, Called, TypeOK, Wakes
  <1>4. QED
    BY <1>1, <1>2, <1>3 DEF OnWake, SchedAfterWake

(***************************************************************************)
(* The shape of a task: how its schedule, its poll and its future agree,   *)
(* and what its future is linked to.                                       *)
(***************************************************************************)
EndedPoll == {"value", "panic", "delivered", "finished", "gone"}
InPoll == {"check", "submit", "spawning", "joinpoll"}

TaskShape(t) ==
  /\ sched[t] \in {"Polling", "Woken"} <=> poll[t] = "polling"
  /\ sched[t] = "Done" <=> poll[t] \in EndedPoll
  /\ sched[t] = "Unspawned" => poll[t] = "off" /\ at[t] = Run
  /\ sched[t] = "Done" => at[t].do \in {"run", "stuck"}
  /\ at[t].do \in InPoll => poll[t] = "polling"
  /\ poll[t] = "finished" => t = Root

SubmitShape ==
  /\ \A t \in Tasks : at[t].do = "submit" => wr[at[t].on].st = "admitted"
  /\ \A t, u \in Tasks : at[t].do = "submit" /\ at[u] = at[t] => t = u
  /\ \A w \in Writes :
       wr[w].st = "admitted" => \E t \in Tasks : at[t] = [do |-> "submit", on |-> w]

JoinShape ==
  /\ \A t \in Tasks : at[t].do \in {"join", "joinpoll"} => parent[at[t].on] = t
  /\ \A u \in Tasks : parent[u] # NoTask => sched[u] # "Unspawned"

WaitShape ==
  \A t \in Tasks, o \in Ops :
    Key(t, o) \in c.waits <=> at[t].do \in {"check", "wait"} /\ at[t].on = o

\* Before the drive starts no task is spawned.
StartShape == driver = "start" => sched[Root] = "Unspawned"

LinkShape == SubmitShape /\ JoinShape /\ WaitShape /\ StartShape

ShapeInv == (\A t \in Tasks : TaskShape(t)) /\ LinkShape

Linked == {"submit", "check", "wait", "join", "joinpoll"}

\* A step that makes and cuts no link.
LinkFrame ==
  /\ \A u \in Tasks : \/ at'[u] = at[u] \/ at'[u] = Resumed(at[u])
                      \/ at[u].do \notin Linked /\ at'[u].do \notin Linked
  /\ \A u \in Tasks : sched'[u] = "Unspawned" <=> sched[u] = "Unspawned"
  /\ driver' = "start" => driver = "start"
  /\ \A w \in Writes : wr'[w].st = "admitted" <=> wr[w].st = "admitted"
  /\ parent' = parent /\ c'.waits = c.waits

LEMMA FrameKeepsLinks ==
  ASSUME TypeOK, TypeOK', LinkShape, LinkFrame
  PROVE  LinkShape'
  <1>1. \A u \in Tasks : at[u] \in Future /\ at'[u] \in Future
    BY DEF TypeOK
  <1>2. \A u \in Tasks : /\ at[u].do = "submit" <=> at'[u].do = "submit"
                         /\ at[u].do \in {"join", "joinpoll"} <=> at'[u].do \in {"join", "joinpoll"}
                         /\ at[u].do \in {"check", "wait"} <=> at'[u].do \in {"check", "wait"}
                         /\ at[u].do \in Linked => at'[u].on = at[u].on
                         /\ at[u].do = "submit" => at'[u] = at[u]
                         /\ at'[u].do = "submit" => at'[u] = at[u]
    BY ZenonT(30), <1>1 DEF LinkFrame, Resumed, Future, Linked
  <1>3. SubmitShape'
    <2>1. \A t \in Tasks : at[t].do = "submit" => at[t].on \in Writes
      BY <1>1, FutureSteps
    <2>2. QED
      BY <1>2, <2>1 DEF LinkFrame, LinkShape, SubmitShape
  <1>4. JoinShape'
    BY <1>2 DEF LinkFrame, LinkShape, JoinShape, Linked
  <1>5. WaitShape'
    BY <1>2 DEF LinkFrame, LinkShape, WaitShape, Linked
  <1>6. StartShape'
    BY TaskFacts DEF LinkFrame, LinkShape, StartShape
  <1>7. QED
    BY <1>3, <1>4, <1>5, <1>6 DEF LinkShape

\* What a dropped task leaves of the coordinator.
LEMMA DropTaskFacts ==
  ASSUME TypeOK, NEW t \in Tasks
  PROVE  LET r == DropTaskC(t)
             n == IF HasBody(t) THEN Lowered(c.activity) ELSE c.activity
         IN  /\ Yields(c, r) /\ r.waits = c.waits \ Registered(t)
             /\ r.activity = IF sched[t] = "Queued" THEN Lowered(n) ELSE n
             /\ r.checkpoint = c.checkpoint /\ r.scheduler = c.scheduler
  <1> DEFINE retired == IF Registered(t) = {} THEN c
                        ELSE CheckSuspension([c EXCEPT !.waits = @ \ Registered(t)])
             unbodied == IF HasBody(t) THEN Release(retired, "activity") ELSE retired
             closed == AfterClosing(unbodied, Children(t))
             last == IF sched[t] = "Queued" THEN Release(closed, "activity") ELSE closed
  <1>1. c \in CType /\ "activity" \in PermitKind
    BY DEF TypeOK, CType, PermitKind
  <1>2. /\ retired \in CType /\ Yields(c, retired) /\ retired.waits = c.waits \ Registered(t)
        /\ retired.activity = c.activity /\ retired.checkpoint = c.checkpoint
        /\ retired.scheduler = c.scheduler
    <2>1. CASE Registered(t) = {}
      BY <1>1, <2>1, SameYields
    <2>2. CASE Registered(t) # {}
      <3>1. retired = CheckSuspension([c EXCEPT !.waits = @ \ Registered(t)])
        BY <2>2
      <3>2. /\ Yields(c, retired) /\ retired.waits = c.waits \ Registered(t)
            /\ retired.activity = c.activity /\ retired.checkpoint = c.checkpoint
            /\ retired.scheduler = c.scheduler
        BY <1>1, <3>1, RetireFacts
      <3>3. QED
        BY <3>2 DEF Yields
    <2>3. QED
      BY <2>1, <2>2
  <1> HIDE DEF retired
  <1>3. /\ unbodied \in CType /\ Yields(c, unbodied) /\ unbodied.waits = c.waits \ Registered(t)
        /\ unbodied.activity = IF HasBody(t) THEN Lowered(c.activity) ELSE c.activity
        /\ unbodied.checkpoint = c.checkpoint /\ unbodied.scheduler = c.scheduler
    <2>1. CASE ~ HasBody(t)
      BY <1>2, <2>1
    <2>2. CASE HasBody(t)
      <3>1. unbodied = Release(retired, "activity")
        BY <2>2
      <3>2. /\ Yields(retired, unbodied) /\ unbodied \in CType /\ unbodied.waits = retired.waits
        BY <1>1, <1>2, <3>1, ReleaseFacts DEF Yields
      <3>3. Yields(c, unbodied)
        BY <1>1, <1>2, <3>2, YieldsAgain
      <3>4. QED
        BY <1>1, <1>2, <2>2, <3>1, <3>2, <3>3, ReleaseFacts
    <2>3. QED
      BY <2>1, <2>2
  <1> HIDE DEF unbodied
  <1>4. /\ closed \in CType /\ Yields(c, closed) /\ Kept(unbodied, closed)
    <2>1. Yields(unbodied, closed) /\ closed \in CType /\ Kept(unbodied, closed)
      BY <1>3, ClosingYields, RecordsKeep DEF Severity
    <2>2. QED
      BY <1>1, <1>3, <2>1, YieldsAgain DEF Kept
  <1> HIDE DEF closed
  <1>5. /\ Yields(c, last) /\ last.waits = closed.waits
        /\ last.activity = IF sched[t] = "Queued" THEN Lowered(closed.activity) ELSE closed.activity
        /\ last.checkpoint = closed.checkpoint /\ last.scheduler = closed.scheduler
    <2>1. CASE sched[t] # "Queued"
      BY <1>4, <2>1
    <2>2. CASE sched[t] = "Queued"
      <3>1. last = Release(closed, "activity")
        BY <2>2
      <3>2. /\ Yields(closed, last) /\ last \in CType /\ last.waits = closed.waits
        BY <1>1, <1>4, <3>1, ReleaseFacts DEF Yields
      <3>3. Yields(c, last)
        BY <1>1, <1>4, <3>2, YieldsAgain
      <3>4. QED
        BY <1>1, <1>4, <2>2, <3>1, <3>2, <3>3, ReleaseFacts
    <2>3. QED
      BY <2>1, <2>2
  <1>6. DropTaskC(t) = last
    BY DEF DropTaskC, last, closed, unbodied, retired, HasBody
  <1> HIDE DEF last
  <1>7. QED
    BY <1>3, <1>4, <1>5, <1>6 DEF Kept

LEMMA GatewayShapes ==
  ASSUME TypeOK, TypeOK', ShapeInv, NEW t \in Tasks, GatewayStep(t)
  PROVE  ShapeInv'
  <1> USE DEF EndedPoll, InPoll
  <1>a. \A u \in Tasks : at[u] \in Future
    BY DEF TypeOK
  <1>1. CASE OuterWake(t)
    BY <1>1 DEF OuterWake, ShapeInv, TaskShape, LinkShape, SubmitShape, JoinShape, WaitShape, StartShape, driverVars
  <1>2. CASE PollEnter(t)
    <2>1. LinkFrame
      BY <1>2 DEF PollEnter, LinkFrame, driverVars
    <2>2. \A u \in Tasks : TaskShape(u)'
      BY <1>2 DEF PollEnter, ShapeInv, TaskShape, TypeOK
    <2>3. QED
      BY <1>2, <2>1, <2>2, FrameKeepsLinks DEF ShapeInv
  <1>3. CASE PollBegin(t)
    <2>1. LinkFrame
      BY <1>3, PermitCalls DEF PollBegin, LinkFrame, TypeOK, ShapeInv, TaskShape, driverVars
    <2>2. \A u \in Tasks : TaskShape(u)'
      BY <1>3 DEF PollBegin, ShapeInv, TaskShape, TypeOK, Resumed, Future
    <2>3. QED
      BY <1>3, <2>1, <2>2, FrameKeepsLinks DEF ShapeInv
  <1>4. CASE PollPending(t)
    <2>1. LinkFrame
      BY <1>4 DEF PollPending, LinkFrame, TypeOK, ShapeInv, TaskShape, driverVars
    <2>2. \A u \in Tasks : TaskShape(u)'
      BY <1>4 DEF PollPending, ShapeInv, TaskShape, TypeOK, Suspended
    <2>3. QED
      BY <1>4, <2>1, <2>2, FrameKeepsLinks DEF ShapeInv
  <1>5. CASE PollExhausted(t)
    <2>1. LinkFrame
      BY <1>5 DEF PollExhausted, LinkFrame, TypeOK, ShapeInv, TaskShape, Linked, Future, driverVars
    <2>2. \A u \in Tasks : TaskShape(u)'
      BY <1>5 DEF PollExhausted, ShapeInv, TaskShape, TypeOK, Future
    <2>3. QED
      BY <1>5, <2>1, <2>2, FrameKeepsLinks DEF ShapeInv
  <1>6. CASE PollLeave(t)
    <2>1. LinkFrame
      BY <1>6, PermitCalls DEF PollLeave, LinkFrame, driverVars
    <2>2. \A u \in Tasks : TaskShape(u)'
      BY <1>6 DEF PollLeave, ShapeInv, TaskShape, TypeOK, SchedState
    <2>3. QED
      BY <1>6, <2>1, <2>2, FrameKeepsLinks DEF ShapeInv
  <1>7. CASE Deliver(t)
    <2>1. PICK p \in Tasks : /\ \A u \in Tasks \ {p} : sched'[u] = sched[u]
                             /\ \/ sched'[p] = sched[p]
                                \/ sched[p] = "Idle" /\ sched'[p] = "Queued"
                                \/ sched[p] = "Polling" /\ sched'[p] = "Woken"
                             /\ c'.waits = c.waits
      <3>1. CASE slot[t] = "empty" /\ ReaderWaits(t)
        <4>1. parent[t] \in Tasks /\ OnWake(parent[t])
          BY <1>7, <3>1 DEF Deliver, ReaderWaits, TypeOK
        <4>2. QED
          BY <4>1, OnWakeFacts, PermitCalls
      <3>2. CASE ~ (slot[t] = "empty" /\ ReaderWaits(t))
        BY <1>7, <3>2, RecordCalls, TaskFacts DEF Deliver, Kept
      <3>3. QED
        BY <3>1, <3>2
    <2>2. LinkFrame
      BY <1>7, <2>1 DEF Deliver, LinkFrame, driverVars
    <2>3. \A u \in Tasks : TaskShape(u)'
      BY <1>7, <2>1 DEF Deliver, ShapeInv, TaskShape, TypeOK
    <2>4. QED
      BY <1>7, <2>1, <2>2, <2>3, FrameKeepsLinks DEF ShapeInv
  <1>8. CASE TaskExits(t)
    <2>1. LinkFrame
      BY <1>8, PermitCalls DEF TaskExits, LinkFrame, driverVars
    <2>2. \A u \in Tasks : TaskShape(u)'
      BY <1>8 DEF TaskExits, ShapeInv, TaskShape, TypeOK
    <2>3. QED
      BY <1>8, <2>1, <2>2, FrameKeepsLinks DEF ShapeInv
  <1>9. CASE DropTask(t)
    <2>1. /\ c'.waits = c.waits \ Registered(t)
          /\ at' = [at EXCEPT ![t] = Stuck] /\ sched' = [sched EXCEPT ![t] = "Done"]
          /\ poll' = [poll EXCEPT ![t] = "gone"] /\ poll[t] = "off" /\ sched[t] # "Unspawned"
          /\ UNCHANGED <<parent, wr, driver>>
      BY <1>9, DropTaskFacts DEF DropTask, DropTaskC, driverVars
    <2>2. \A u \in Tasks : TaskShape(u)'
      BY <2>1 DEF ShapeInv, TaskShape, TypeOK, Stuck
    <2>3. /\ at[t].do # "submit" /\ at'[t].do \notin Linked
          /\ \A u \in Tasks \ {t} : at'[u] = at[u]
      BY <2>1 DEF ShapeInv, TaskShape, TypeOK, Stuck, Linked
    <2>4. SubmitShape'
      BY <2>1, <2>3 DEF ShapeInv, LinkShape, SubmitShape, Linked
    <2>5. JoinShape'
      BY <2>1, <2>3 DEF ShapeInv, LinkShape, JoinShape, Linked, TypeOK
    <2>6. WaitShape'
      <3>1. \A u \in Tasks, o \in Ops : Key(u, o) \in c'.waits <=> Key(u, o) \in c.waits /\ u # t
        BY <2>1 DEF Registered, Key
      <3>2. QED
        BY <2>3, <3>1 DEF ShapeInv, LinkShape, WaitShape, Linked
    <2>7. StartShape'
      BY <2>1 DEF ShapeInv, LinkShape, StartShape, TypeOK
    <2>8. QED
      BY <2>2, <2>4, <2>5, <2>6, <2>7 DEF ShapeInv, LinkShape
  <1>10. QED
    BY <1>1, <1>2, <1>3, <1>4, <1>5, <1>6, <1>7, <1>8, <1>9 DEF GatewayStep

\* A step inside a poll: the future goes from one place to another.
Within(t) ==
  /\ poll[t] = "polling" /\ UNCHANGED <<sched, poll, driver>>
  /\ \A u \in Tasks \ {t} : at'[u] = at[u]

LEMMA WithinKeepsTasks ==
  ASSUME TypeOK, TypeOK', \A u \in Tasks : TaskShape(u), NEW t \in Tasks, Within(t)
  PROVE  \A u \in Tasks : TaskShape(u)'
  BY DEF Within, TaskShape, EndedPoll, InPoll

LEMMA UserShapes ==
  ASSUME TypeOK, TypeOK', ShapeInv, NEW t \in Tasks, UserStep(t)
  PROVE  ShapeInv'
  <1> USE DEF Polling, Goto, driverVars
  <1>a. /\ \A u \in Tasks : at[u] \in Future
        /\ at \in [Tasks -> Future]
    BY DEF TypeOK
  <1>b. ASSUME Within(t), LinkFrame PROVE ShapeInv'
    BY <1>b, WithinKeepsTasks, FrameKeepsLinks DEF ShapeInv
  <1>c. ASSUME Within(t), LinkShape' PROVE ShapeInv'
    BY <1>c, WithinKeepsTasks DEF ShapeInv
  <1>1. ASSUME NEW o \in Ops, StartWait(t, o) PROVE ShapeInv'
    <2>1. CASE ~ Admits(c)
      <3>1. Within(t) /\ LinkFrame
        BY <1>1, <1>a, <2>1 DEF StartWait, Within, LinkFrame, Linked, Stuck
      <3>2. QED
        BY <3>1, <1>b
    <2>2. CASE Admits(c)
      <3>1. /\ at' = [at EXCEPT ![t] = [do |-> "check", on |-> o]] /\ at[t].do = "run"
            /\ c'.waits = c.waits \cup {Key(t, o)}
            /\ UNCHANGED <<parent, sched, driver, wr>>
        BY <1>1, <2>2 DEF StartWait, RegisterWait, TypeOK, CoordinatorType
      <3>2. Within(t)
        BY <1>1, <1>a, <3>1 DEF StartWait, Within
      <3>3. SubmitShape' /\ JoinShape' /\ StartShape'
        BY <1>a, <3>1 DEF ShapeInv, LinkShape, SubmitShape, JoinShape, StartShape
      <3>4. WaitShape'
        <4>1. \A u \in Tasks, q \in Ops : Key(u, q) = Key(t, o) <=> u = t /\ q = o
          BY DEF Key
        <4>2. QED
          BY <1>a, <3>1, <4>1 DEF ShapeInv, LinkShape, WaitShape
      <3>5. QED
        BY <3>2, <3>3, <3>4, <1>c DEF LinkShape
    <2>3. QED
      BY <2>1, <2>2
  <1>2. ASSUME at[t].do = "check", poll[t] = "polling", at' = [at EXCEPT ![t] = Run],
               c' = Retire(c, Key(t, at[t].on)),
               UNCHANGED <<sched, poll, parent, driver, wr>>
        PROVE  ShapeInv'
    <2>1. at[t].on \in Ops /\ c'.waits = c.waits \ {Key(t, at[t].on)}
      BY <1>a, <1>2, FutureSteps, PermitCalls, RetireFacts DEF Retire
    <2>2. Within(t)
      BY <1>2, <1>a DEF Within
    <2>3. SubmitShape' /\ JoinShape' /\ StartShape'
      BY <1>a, <1>2 DEF ShapeInv, LinkShape, SubmitShape, JoinShape, StartShape, Run
    <2>4. WaitShape'
      <3>1. \A u \in Tasks, q \in Ops : Key(u, q) = Key(t, at[t].on) <=> u = t /\ q = at[t].on
        BY DEF Key
      <3>2. QED
        BY <1>a, <1>2, <2>1, <3>1 DEF ShapeInv, LinkShape, WaitShape, Run
    <2>5. QED
      BY <2>2, <2>3, <2>4, <1>c DEF LinkShape
  <1>3. CASE ReadRecord(t)
    <2>1. CASE at[t].on \in log
      BY <1>2, <1>3, <2>1 DEF ReadRecord
    <2>2. CASE at[t].on \notin log
      <3>1. /\ at' = [at EXCEPT ![t] = [do |-> "wait", on |-> at[t].on]] /\ at[t].do = "check"
            /\ UNCHANGED <<c, parent, sched, driver, wr>>
        BY <1>3, <2>2 DEF ReadRecord
      <3>2. Within(t)
        BY <1>3, <1>a, <3>1 DEF ReadRecord, Within
      <3>3. SubmitShape' /\ JoinShape' /\ StartShape'
        BY <1>a, <3>1 DEF ShapeInv, LinkShape, SubmitShape, JoinShape, StartShape
      <3>4. WaitShape'
        BY <1>a, <3>1 DEF ShapeInv, LinkShape, WaitShape
      <3>5. QED
        BY <3>2, <3>3, <3>4, <1>c DEF LinkShape
    <2>3. QED
      BY <2>1, <2>2
  <1>4. CASE StartBody(t)
    <2>1. Within(t) /\ LinkFrame
      BY <1>4, <1>a, PermitCalls DEF StartBody, Within, LinkFrame, Linked, Stuck
    <2>2. QED
      BY <2>1, <1>b
  <1>5. CASE EndBody(t)
    <2>1. Within(t) /\ LinkFrame
      BY <1>5, <1>a, PermitCalls DEF EndBody, Within, LinkFrame, Linked, Run
    <2>2. QED
      BY <2>1, <1>b
  <1>6. CASE StartTimer(t) \/ Proceed(t)
    <2>1. Within(t) /\ LinkFrame
      BY <1>6, <1>a DEF StartTimer, Proceed, Within, LinkFrame, Linked, Run
    <2>2. QED
      BY <2>1, <1>b
  <1>7. ASSUME NEW w \in Writes, SubmitWrite(t, w) PROVE ShapeInv'
    <2>1. CASE ~ Grants(c, "checkpoint")
      <3>1. Within(t) /\ LinkFrame
        BY <1>7, <1>a, <2>1 DEF SubmitWrite, Within, LinkFrame, Linked, Stuck
      <3>2. QED
        BY <3>1, <1>b
    <2>2. CASE Grants(c, "checkpoint")
      <3>1. /\ at' = [at EXCEPT ![t] = [do |-> "submit", on |-> w]] /\ at[t].do = "run"
            /\ c'.waits = c.waits /\ wr[w].st = "free"
            /\ UNCHANGED <<parent, sched, driver>>
        BY <1>7, <2>2, PermitCalls DEF SubmitWrite
      <3>2. wr'[w].st = "admitted" /\ \A v \in AllWrites \ {w} : wr'[v] = wr[v]
        BY <1>7, <2>2, WriteNames DEF SubmitWrite, TypeOK, Write
      <3>3. Within(t)
        BY <1>7, <1>a, <3>1 DEF SubmitWrite, Within
      <3>4. SubmitShape'
        <4>1. \A u \in Tasks : at[u].do = "submit" => at[u].on \in Writes /\ at[u].on # w
          BY <1>a, <3>1, FutureSteps DEF ShapeInv, LinkShape, SubmitShape
        <4>2. at'[t] = [do |-> "submit", on |-> w] /\ \A u \in Tasks \ {t} : at'[u] = at[u]
          BY <1>a, <3>1
        <4>3. \A u \in Tasks : at'[u].do = "submit" => wr'[at'[u].on].st = "admitted"
          BY <3>2, <4>1, <4>2, WriteNames DEF ShapeInv, LinkShape, SubmitShape
        <4>4. \A u, v \in Tasks : at'[u].do = "submit" /\ at'[v] = at'[u] => u = v
          BY <4>1, <4>2 DEF ShapeInv, LinkShape, SubmitShape
        <4>5. \A v \in Writes :
                wr'[v].st = "admitted" => \E u \in Tasks : at'[u] = [do |-> "submit", on |-> v]
          <5>1. \A v \in Writes \ {w} : wr'[v].st = "admitted" => wr[v].st = "admitted"
            BY <3>2, WriteNames
          <5>2. \A v \in Writes \ {w}, u \in Tasks :
                  at[u] = [do |-> "submit", on |-> v] => at'[u] = [do |-> "submit", on |-> v]
            BY <3>1, <4>2
          <5>3. QED
            BY <4>2, <5>1, <5>2 DEF ShapeInv, LinkShape, SubmitShape
        <4>6. QED
          BY <4>3, <4>4, <4>5 DEF SubmitShape
      <3>5. JoinShape' /\ StartShape' /\ WaitShape'
        BY <1>a, <3>1 DEF ShapeInv, LinkShape, JoinShape, StartShape, WaitShape
      <3>6. QED
        BY <3>3, <3>4, <3>5, <1>c DEF LinkShape
    <2>3. QED
      BY <2>1, <2>2
  <1>8. CASE QueueWrite(t)
    <2> DEFINE w == at[t].on
    <2>1. w \in Writes /\ at[t].do = "submit"
      BY <1>8, <1>a, FutureSteps DEF QueueWrite
    <2>2. /\ at'[t].do \in {"write", "stuck"} /\ \A u \in Tasks \ {t} : at'[u] = at[u]
          /\ c'.waits = c.waits /\ UNCHANGED <<parent, sched, driver>>
      BY <1>8, <1>a, PermitCalls DEF QueueWrite, Stuck
    <2>3. /\ wr'[w].st # "admitted"
          /\ \A v \in AllWrites \ {w} : wr'[v].st = "admitted" <=> wr[v].st = "admitted"
      <3>1. CASE wr' = Queued(w)
        BY <2>1, <3>1, WriteNames, QueuedFacts
      <3>2. CASE wr' = [wr EXCEPT ![w] = NoWrite("done")]
        BY <2>1, <3>2, WriteNames DEF TypeOK, Write, NoWrite
      <3>3. QED
        BY <1>8, <3>1, <3>2 DEF QueueWrite
    <2>4. Within(t)
      BY <1>8, <2>2 DEF QueueWrite, Within
    <2>5. SubmitShape'
      <3>1. \A u \in Tasks \ {t} : at[u].do = "submit" => at[u].on \in Writes \ {w}
        <4>1. ASSUME NEW u \in Tasks, at[u].do = "submit", at[u].on = w PROVE u = t
          <5>1. at[u] = at[t]
            BY <1>a, <2>1, <4>1 DEF Future
          <5>2. QED
            BY <2>1, <5>1 DEF ShapeInv, LinkShape, SubmitShape
        <4>2. QED
          BY <1>a, <4>1, FutureSteps
      <3>2. \A u \in Tasks : at'[u].do = "submit" => u # t /\ at'[u] = at[u]
        BY <2>2
      <3>3. \A u \in Tasks : at'[u].do = "submit" => wr'[at'[u].on].st = "admitted"
        BY <2>3, <3>1, <3>2, WriteNames DEF ShapeInv, LinkShape, SubmitShape
      <3>4. \A u, v \in Tasks : at'[u].do = "submit" /\ at'[v] = at'[u] => u = v
        BY <3>2 DEF ShapeInv, LinkShape, SubmitShape
      <3>5. \A v \in Writes :
              wr'[v].st = "admitted" => \E u \in Tasks : at'[u] = [do |-> "submit", on |-> v]
        <4>1. \A v \in Writes : wr'[v].st = "admitted" => v # w /\ wr[v].st = "admitted"
          BY <2>3, WriteNames
        <4>2. \A v \in Writes, u \in Tasks :
                v # w /\ at[u] = [do |-> "submit", on |-> v] => at'[u] = [do |-> "submit", on |-> v]
          BY <2>2
        <4>3. QED
          BY <4>1, <4>2 DEF ShapeInv, LinkShape, SubmitShape
      <3>6. QED
        BY <3>3, <3>4, <3>5 DEF SubmitShape
    <2>6. JoinShape' /\ StartShape' /\ WaitShape'
      BY <2>1, <2>2 DEF ShapeInv, LinkShape, JoinShape, StartShape, WaitShape
    <2>7. QED
      BY <2>4, <2>5, <2>6, <1>c DEF LinkShape
  <1>9. CASE LoseRace(t)
    <2>1. CASE at[t].do = "check"
      BY <1>2, <1>9, <2>1 DEF LoseRace
    <2>2. CASE at[t].do # "check"
      <3>1. Within(t) /\ LinkFrame
        BY <1>9, <1>a, <2>2, PermitCalls DEF LoseRace, Within, LinkFrame, Linked, Run
      <3>2. QED
        BY <3>1, <1>b
    <2>3. QED
      BY <2>1, <2>2
  <1>10. ASSUME NEW u \in OpTasks, SpawnChild(t, u) PROVE ShapeInv'
    <2>1. CASE ~ Grants(c, "activity")
      <3>1. Within(t) /\ LinkFrame
        BY <1>10, <1>a, <2>1 DEF SpawnChild, Within, LinkFrame, Linked, Stuck
      <3>2. QED
        BY <3>1, <1>b
    <2>2. CASE Grants(c, "activity")
      <3>1. /\ at' = [at EXCEPT ![t] = [do |-> "spawning", on |-> u]] /\ at[t].do = "run"
            /\ poll[t] = "polling" /\ c'.waits = c.waits
            /\ sched[u] = "Unspawned" /\ sched' = [sched EXCEPT ![u] = "Queued"]
            /\ parent' = [parent EXCEPT ![u] = t]
            /\ u \in Tasks /\ u # Root /\ UNCHANGED <<poll, wr, driver>>
        BY <1>10, <2>2, PermitCalls DEF SpawnChild, OpTasks
      <3>2. u # t
        BY <3>1 DEF ShapeInv, TaskShape
      <3>3. \A v \in Tasks : TaskShape(v)'
        BY <1>a, <3>1, <3>2 DEF ShapeInv, TaskShape, TypeOK, InPoll, EndedPoll, Run
      <3>4. SubmitShape' /\ StartShape' /\ WaitShape'
        BY <1>a, <3>1, TaskFacts
        DEF ShapeInv, LinkShape, SubmitShape, StartShape, WaitShape, TypeOK
      <3>5. JoinShape'
        <4>1. \A v \in Tasks : at[v].do \in {"join", "joinpoll"} => at[v].on \in Tasks /\ at[v].on # u
          BY <1>a, <3>1, FutureSteps, TaskAssumption DEF ShapeInv, LinkShape, JoinShape
        <4>2. t # NoTask
          BY TaskAssumption
        <4>3. QED
          BY <1>a, <3>1, <4>1 DEF ShapeInv, LinkShape, JoinShape, TypeOK
      <3>6. QED
        BY <3>3, <3>4, <3>5 DEF ShapeInv, LinkShape
    <2>3. QED
      BY <2>1, <2>2
  <1>11. ASSUME NEW u \in OpTasks, JoinChild(t, u) PROVE ShapeInv'
    <2>1. /\ u \in Tasks /\ parent[u] = t /\ at[t].do \in {"run", "joinpoll"}
          /\ poll[t] = "polling" /\ UNCHANGED <<c, wr, sched, poll, parent, driver>>
      BY <1>11, TaskFacts DEF JoinChild, Awaits, Children, Joinable
    <2>2. \/ at' = [at EXCEPT ![t] = Run]
          \/ at' = [at EXCEPT ![t] = [do |-> "join", on |-> u]]
      BY <1>11 DEF JoinChild
    <2>3. Within(t)
      BY <2>1, <2>2, <1>a DEF Within
    <2>4. SubmitShape' /\ JoinShape' /\ StartShape' /\ WaitShape'
      BY <1>a, <2>1, <2>2
      DEF ShapeInv, LinkShape, SubmitShape, JoinShape, StartShape, WaitShape, Run
    <2>5. QED
      BY <2>3, <2>4, <1>c DEF LinkShape
  <1>12. ASSUME at[t].do \in {"run", "joinpoll"}, poll[t] = "polling",
                at' = [at EXCEPT ![t] = Run] \/ (at[t].do = "run" /\ at' = at),
                sched' = [sched EXCEPT ![t] = "Done"],
                poll' = [poll EXCEPT ![t] = "panic"] \/ poll' = [poll EXCEPT ![t] = "value"],
                c'.waits = c.waits, UNCHANGED <<parent, wr, driver>>
         PROVE  ShapeInv'
    <2>1. \A u \in Tasks : TaskShape(u)'
      BY <1>a, <1>12 DEF ShapeInv, TaskShape, TypeOK, InPoll, EndedPoll, Run
    <2>2. /\ at'[t].do = "run" /\ \A u \in Tasks \ {t} : at'[u] = at[u]
          /\ \A u \in Tasks : sched[u] # "Unspawned" => sched'[u] # "Unspawned"
          /\ sched[Root] = "Unspawned" => sched'[Root] = "Unspawned"
      BY <1>a, <1>12, TaskFacts DEF Run, ShapeInv, TaskShape, TypeOK
    <2>3. SubmitShape' /\ WaitShape'
      BY <1>12, <2>2 DEF ShapeInv, LinkShape, SubmitShape, WaitShape
    <2>4. JoinShape' /\ StartShape'
      BY <1>12, <2>2 DEF ShapeInv, LinkShape, JoinShape, StartShape
    <2>5. QED
      BY <2>1, <2>3, <2>4 DEF ShapeInv, LinkShape
  <1>13. ASSUME NEW u \in OpTasks, JoinPanic(t, u) PROVE ShapeInv'
    <2>1. at[t].do \in {"run", "joinpoll"} /\ poll[t] = "polling"
      BY <1>13 DEF JoinPanic, Awaits
    <2>2. c'.waits = c.waits
      BY <1>13, RecordCalls, ChildrenType DEF JoinPanic, Kept
    <2>3. QED
      BY <1>12, <1>13, <2>1, <2>2 DEF JoinPanic
  <1>14. ASSUME NEW u \in OpTasks, CancelChild(t, u) PROVE ShapeInv'
    <2>1. c'.waits = c.waits
      BY <1>14, RecordCalls, TaskFacts DEF CancelChild, Kept
    <2>2. Within(t) /\ LinkFrame
      BY <1>14, <1>a, <2>1 DEF CancelChild, Within, LinkFrame
    <2>3. QED
      BY <2>2, <1>b
  <1>15. CASE RegisterAbort(t)
    <2>1. Within(t) /\ LinkFrame
      BY <1>15, <1>a DEF RegisterAbort, Within, LinkFrame, Linked, Run
    <2>2. QED
      BY <2>1, <1>b
  <1>16. ASSUME NEW severity \in Severity, RecordFatal(t, severity) PROVE ShapeInv'
    <2>1. Within(t) /\ LinkFrame
      BY <1>16, <1>a, RecordCalls DEF RecordFatal, Within, LinkFrame, Linked, Stuck, Kept
    <2>2. QED
      BY <2>1, <1>b
  <1>17. ASSUME NEW kind \in {"value", "panic"}, TaskEnds(t, kind) PROVE ShapeInv'
    <2>1. c'.waits = c.waits
      BY <1>17, RecordCalls, ChildrenType DEF TaskEnds, Kept
    <2>2. QED
      BY <1>12, <1>17, <2>1 DEF TaskEnds
  <1>18. QED
    BY <1>1, <1>3, <1>4, <1>5, <1>6, <1>7, <1>8, <1>9, <1>10, <1>11, <1>13,
       <1>14, <1>15, <1>16, <1>17
    DEF UserStep

\* A step that wakes tasks, and moves the future of none, or of one that
\* goes on.
LEMMA WakingShapes ==
  ASSUME TypeOK, TypeOK', ShapeInv, NEW t \in Tasks, OnWake(t), poll' = poll,
         \A u \in Tasks \ {t} : at'[u] = at[u],
         at'[t] = at[t] \/ (at[t].do \in {"write", "body", "timer"} /\ at'[t].do \in {"written", "stuck", "bodyDone", "fired"}),
         \A w \in Writes : wr'[w].st = "admitted" <=> wr[w].st = "admitted",
         parent' = parent, driver' = driver
  PROVE  ShapeInv'
  <1>1. /\ \A u \in Tasks \ {t} : sched'[u] = sched[u]
        /\ \/ sched[t] = "Idle" /\ sched'[t] = "Queued"
           \/ sched[t] = "Polling" /\ sched'[t] = "Woken"
           \/ sched'[t] = sched[t]
        /\ c'.waits = c.waits
    BY OnWakeFacts, PermitCalls
  <1>2. LinkFrame
    BY <1>1 DEF LinkFrame, Linked
  <1>3. \A u \in Tasks : TaskShape(u)'
    BY <1>1 DEF ShapeInv, TaskShape, InPoll, EndedPoll, Run
  <1>4. QED
    BY <1>2, <1>3, FrameKeepsLinks DEF ShapeInv

LEMMA StillShapes ==
  ASSUME TypeOK, TypeOK', ShapeInv, UNCHANGED <<sched, poll, at, parent>>, c'.waits = c.waits,
         \A w \in Writes : wr'[w].st = "admitted" <=> wr[w].st = "admitted",
         driver' = "start" => driver = "start"
  PROVE  ShapeInv'
  <1>1. LinkFrame
    BY DEF LinkFrame
  <1>2. \A u \in Tasks : TaskShape(u)'
    BY DEF ShapeInv, TaskShape
  <1>3. QED
    BY <1>1, <1>2, FrameKeepsLinks DEF ShapeInv

LEMMA WriteShapes ==
  ASSUME TypeOK, TypeOK', ShapeInv, NEW w \in AllWrites, ServiceStep(w) \/ WriteStep(w)
  PROVE  ShapeInv'
  <1> USE DEF taskVars, driverVars
  <1>a. wr \in [AllWrites -> Write] /\ Writes \subseteq AllWrites
    BY WriteNames DEF TypeOK
  <1>1. ASSUME NEW ready \in SUBSET (Ops \ log), ResponseMerged(w, ready) PROVE ShapeInv'
    BY <1>1, <1>a, StillShapes DEF ResponseMerged, Write
  <1>2. ASSUME NEW severity \in Severity, ResponseFailed(w, severity) PROVE ShapeInv'
    BY <1>2, <1>a, StillShapes, RecordCalls DEF ResponseFailed, Write, Kept
  <1>3. CASE ResponseTokenless(w)
    BY <1>3, <1>a, StillShapes, RecordCalls DEF ResponseTokenless, Write, Kept
  <1>4. CASE StartWrite(w)
    BY <1>4, <1>a, StillShapes DEF StartWrite, Write
  <1>5. CASE TakeQueued(w)
    BY <1>5, <1>a, StillShapes DEF TakeQueued, Write
  <1>6. CASE DropEntry(w)
    BY <1>6, <1>a, StillShapes, PermitCalls DEF DropEntry, Write
  <1>7. CASE EndFailure(w)
    BY <1>7, <1>a, StillShapes, RecordCalls DEF EndFailure, Write, Kept
  <1>8. CASE CollectWakers(w)
    BY <1>8, <1>a, StillShapes DEF CollectWakers, Write
  <1>9. ASSUME NEW t \in Tasks, WakeWaiter(w, t) PROVE ShapeInv'
    <2>1. \A v \in Writes : wr'[v].st = "admitted" <=> wr[v].st = "admitted"
      BY <1>9, <1>a DEF WakeWaiter, Write
    <2>2. QED
      BY <1>9, <2>1, WakingShapes DEF WakeWaiter
  <1>10. CASE AnswerCaller(w)
    <2>1. \A v \in Writes : wr'[v].st = "admitted" <=> wr[v].st = "admitted"
      BY <1>10, <1>a DEF AnswerCaller, Answered, Write, NoWrite
    <2>2. CASE UNCHANGED <<c, sched, tokio, at>>
      BY <1>10, <2>1, <2>2, StillShapes DEF AnswerCaller
    <2>3. ASSUME NEW t \in Callers(w), OnWake(t),
                 Goto(t, IF Answered(w) THEN [at[t] EXCEPT !.do = "written"] ELSE Stuck)
          PROVE  ShapeInv'
      <3>1. t \in Tasks /\ at[t].do = "write" /\ at \in [Tasks -> Future]
        BY <2>3 DEF Callers, TypeOK
      <3>2. /\ at'[t].do \in {"written", "stuck"}
            /\ \A u \in Tasks \ {t} : at'[u] = at[u]
        BY <2>3, <3>1 DEF Goto, Stuck, Future
      <3>3. QED
        BY <1>10, <2>1, <2>3, <3>1, <3>2, WakingShapes DEF AnswerCaller
    <2>4. QED
      BY <1>10, <2>2, <2>3 DEF AnswerCaller
  <1>11. CASE ReleaseWrite(w)
    BY <1>11, <1>a, StillShapes, PermitCalls DEF ReleaseWrite, Write, NoWrite
  <1>12. CASE ClientPanics(w)
    BY <1>12, <1>a, StillShapes DEF ClientPanics, Write
  <1>13. CASE UnwindWrite(w)
    BY <1>13, <1>a, StillShapes, PermitCalls DEF UnwindWrite, Write
  <1>14. CASE WriterStops(w)
    <2>1. \A v \in Writes : wr'[v].st = "admitted" <=> wr[v].st = "admitted"
      BY <1>14, <1>a, WriterStopsFacts
    <2>2. QED
      BY <1>14, <2>1, StillShapes DEF WriterStops
  <1>15. CASE RecordWriterPanic(w)
    BY <1>15, <1>a, StillShapes, RecordCalls DEF RecordWriterPanic, Write, NoWrite, Kept
  <1>16. QED
    BY <1>1, <1>2, <1>3, <1>4, <1>5, <1>6, <1>7, <1>8, <1>9, <1>10, <1>11, <1>12, <1>13, <1>14,
       <1>15
    DEF ServiceStep, WriteStep

LEMMA SchedulerShapes ==
  ASSUME TypeOK, TypeOK', ShapeInv, SchedulerStep
  PROVE  ShapeInv'
  <1> USE DEF taskVars, driverVars
  <1>a. wr \in [AllWrites -> Write] /\ Writes \subseteq AllWrites \ {Refresh}
    BY WriteNames, TaskAssumption DEF TypeOK
  <1>1. CASE SchedulerTakesDue \/ SchedulerAnswered
    BY <1>1, StillShapes DEF SchedulerTakesDue, SchedulerAnswered
  <1>2. CASE SchedulerSends
    <2>1. c'.waits = c.waits
      BY <1>2, PermitCalls DEF SchedulerSends
    <2>2. \A v \in Writes : wr'[v].st = "admitted" <=> wr[v].st = "admitted"
      BY <1>2, <1>a, WriteNames, QueuedFacts DEF SchedulerSends
    <2>3. QED
      BY <1>2, <2>1, <2>2, StillShapes DEF SchedulerSends
  <1>3. CASE SchedulerDone
    BY <1>3, StillShapes, PermitCalls DEF SchedulerDone
  <1>4. ASSUME NEW t \in Tasks, SchedulerWakes(t) PROVE ShapeInv'
    BY <1>4, WakingShapes DEF SchedulerWakes
  <1>5. QED
    BY <1>1, <1>2, <1>3, <1>4 DEF SchedulerStep

LEMMA DriverShapes ==
  ASSUME TypeOK, TypeOK', ShapeInv, DriverStep
  PROVE  ShapeInv'
  <1> USE DEF taskVars, driverVars
  <1>1. CASE DriveStart
    <2>1. /\ c'.waits = c.waits
      <3>1. LET b == IF c.panic THEN Finish(c) ELSE c
            IN  b \in CType /\ b.waits = c.waits /\ Acquire(b, "activity").waits = b.waits
        BY LatchTypes, AcquireFacts, RecordCalls, PermitCalls DEF Kept, Severity, PermitKind
      <3>2. QED
        BY <1>1, <3>1 DEF DriveStart
    <2>2. /\ sched[Root] = "Unspawned" /\ sched'[Root] \in {"Queued", "Idle"}
          /\ \A u \in Tasks \ {Root} : sched'[u] = sched[u]
          /\ driver' # "start" /\ UNCHANGED <<poll, at, parent, wr>>
      BY <1>1, TaskFacts DEF DriveStart, ShapeInv, LinkShape, StartShape, TypeOK
    <2>3. \A u \in Tasks : TaskShape(u)'
      BY <2>2 DEF ShapeInv, TaskShape, EndedPoll, InPoll, Run
    <2>4. SubmitShape' /\ JoinShape' /\ WaitShape' /\ StartShape'
      BY <2>1, <2>2 DEF ShapeInv, LinkShape, SubmitShape, JoinShape, WaitShape, StartShape
    <2>5. QED
      BY <2>3, <2>4 DEF ShapeInv, LinkShape
  <1>2. CASE DriverCheckFatal \/ DriverPollRoot \/ DriverCheckPhase
    BY <1>2, StillShapes, RecordCalls
    DEF DriverCheckFatal, DriverPollRoot, DriverCheckPhase, EndDrive, Kept
  <1>3. CASE DriverParks \/ DriverWakes \/ RootAwaited \/ AbortAll \/ WaitIdle \/ ReadFatal \/ Answer
    BY <1>3, StillShapes
    DEF DriverParks, DriverWakes, RootAwaited, AbortAll, WaitIdle, ReadFatal, Answer
  <1>4. CASE DropScheduler \/ DriverFinish \/ Arbitrate
    BY <1>4, StillShapes, PermitCalls, RecordCalls DEF DropScheduler, DriverFinish, Arbitrate, Kept
  <1>5. CASE AbortRoot
    <2>1. c'.waits = c.waits
      BY <1>5, RecordCalls, TaskFacts DEF AbortRoot, Kept
    <2>2. QED
      BY <1>5, <2>1, StillShapes DEF AbortRoot
  <1>6. QED
    BY <1>1, <1>2, <1>3, <1>4, <1>5 DEF DriverStep

LEMMA InitShapes == Init => ShapeInv
  <1>1. ASSUME Init PROVE c.waits = {}
    BY <1>1, NewCoordinatorType, RecordsKeep DEF Init, Kept, NewCoordinator, Severity
  <1>2. ASSUME Init PROVE ShapeInv
    BY <1>1, <1>2, TaskFacts, WriteNames
    DEF Init, ShapeInv, TaskShape, LinkShape, SubmitShape, JoinShape, WaitShape, StartShape,
        EndedPoll, InPoll, Run, NoWrite
  <1>3. QED
    BY <1>2

LEMMA NextShapes ==
  ASSUME TypeOK, TypeOK', ShapeInv, [Next]_vars
  PROVE  ShapeInv'
  <1>1. ASSUME NEW t \in Tasks, OutsideWake(t) PROVE ShapeInv'
    <2>1. /\ \A u \in Tasks \ {t} : at'[u] = at[u]
          /\ at[t].do \in {"body", "timer"} /\ at'[t].do \in {"bodyDone", "fired"}
      BY <1>1 DEF OutsideWake, TypeOK, Future
    <2>2. QED
      BY <1>1, <2>1, WakingShapes DEF OutsideWake, driverVars
  <1>2. CASE RootFinish
    <2>1. c'.waits = c.waits
      BY <1>2, RecordCalls DEF RootFinish, Kept
    <2>2. LinkFrame
      BY <1>2, <2>1 DEF RootFinish, LinkFrame, driverVars
    <2>3. \A u \in Tasks : TaskShape(u)'
      BY <1>2, TaskFacts DEF RootFinish, ShapeInv, TaskShape, TypeOK, EndedPoll, InPoll
    <2>4. QED
      BY <2>2, <2>3, FrameKeepsLinks DEF ShapeInv
  <1>3. CASE EndRefreshWrite
    <2>1. c'.waits = c.waits
      BY <1>3, RecordCalls DEF EndRefreshWrite, Kept
    <2>2. \A v \in Writes : wr'[v] = wr[v]
      BY <1>3, TaskAssumption, WriteNames DEF EndRefreshWrite, TypeOK
    <2>3. QED
      BY <1>3, <2>1, <2>2, StillShapes DEF EndRefreshWrite, driverVars
  <1>4. CASE Returned \/ UNCHANGED vars
    BY <1>4, StillShapes DEF Returned, vars, taskVars, driverVars
  <1>5. QED
    BY <1>1, <1>2, <1>3, <1>4, GatewayShapes, UserShapes, WriteShapes, SchedulerShapes,
       DriverShapes
    DEF Next

(***************************************************************************)
(* Every action moves the permits of one holder, and makes one kind of     *)
(* call on the coordinator.                                                *)
(***************************************************************************)
CoordinatorStep ==
  \/ Yields(c, c')
  \/ \E kind \in PermitKind : Admits(c) /\ c' = Acquire(c, kind)
  \/ \E k \in Tasks \X Ops : Admits(c) /\ Runnable # {} /\ c' = RegisterWait(c, k)
  \/ c' = Finish(c)
  \/ c' = SetWithdrawn(c) /\ \E w \in AllWrites : wr[w].st = "sent"
  \/ driver = "takePanic" /\ c' = TakePanic(c)

CallStep == PermitStep /\ CoordinatorStep

\* The ways in which one task's permits change with the coordinator.
Gain(t) == c'.activity = c.activity + 1 /\ Held(t)' = Held(t) + 1 /\ Grows(t)
Same(t) == c'.activity = c.activity /\ Held(t)' = Held(t) /\ Grows(t) /\ Shrinks(t)
Loss(t) == c'.activity = Lowered(c.activity) /\ Held(t) = Held(t)' + 1 /\ Shrinks(t)

LEMMA OneTaskStep ==
  ASSUME NEW t \in Tasks, Gain(t) \/ Same(t) \/ Loss(t),
         \A u \in Tasks \ {t} : sched'[u] = sched[u] /\ poll'[u] = poll[u] /\ at'[u] = at[u]
  PROVE  ActivityStep
  <1>1. OthersKeep(t)
    BY DEF OthersKeep, Runs, Ends, HasBody
  <1>2. QED
    BY <1>1 DEF ActivityStep, Gain, Same, Loss

LEMMA SameC ==
  ASSUME TypeOK, c' = c PROVE CoordinatorStep
  BY SameYields DEF CoordinatorStep, TypeOK, CType

LEMMA AcquiredC ==
  ASSUME NEW kind \in PermitKind, Admits(c), c' = Acquire(c, kind) PROVE CoordinatorStep
  BY DEF CoordinatorStep

LEMMA ReleasedC ==
  ASSUME TypeOK, NEW kind \in PermitKind, c' = Release(c, kind) PROVE CoordinatorStep
  BY ReleaseFacts DEF CoordinatorStep, TypeOK, CType

LEMMA RecordedC ==
  ASSUME TypeOK, NEW us \in SUBSET Tasks, NEW severity \in Severity,
         \/ c' = WakeDriver(c) \/ c' = RecordPanic(c) \/ c' = AfterClosing(c, us)
         \/ c' = Record(c, severity) \/ c' = SetWriteFailure(c, severity)
         \/ c.withdrawn /\ c' = EndWithdrawal(c)
         \/ c' = [c EXCEPT !.driverWoken = FALSE]
  PROVE  CoordinatorStep
  <1>1. c \in CType
    BY DEF TypeOK, CType
  <1>2. Yields(c, c')
    BY <1>1, RecordsYield, ClosingYields
  <1>3. QED
    BY <1>2 DEF CoordinatorStep

\* A wake takes a permit for an idle task, and no other.
LEMMA WakeCalls ==
  ASSUME TypeOK, TypeOK', NEW t \in Tasks, OnWake(t), poll' = poll,
         \A u \in Tasks \ {t} : at'[u] = at[u],
         HasBody(t)' <=> HasBody(t)
  PROVE  ActivityStep /\ CoordinatorStep /\ c'.checkpoint = c.checkpoint /\ c'.scheduler = c.scheduler
  <1>1. \A u \in Tasks \ {t} : sched'[u] = sched[u] /\ poll'[u] = poll[u] /\ at'[u] = at[u]
    BY OnWakeFacts
  <1>2. CASE sched[t] = "Idle" /\ sched'[t] = "Queued" /\ Admits(c) /\ c' = Acquire(c, "activity")
    <2>1. Gain(t)
      BY <1>2, PermitCalls DEF Gain, Held, Grows, Runs, Ends, HasBody, Num
    <2>2. QED
      BY <1>1, <1>2, <2>1, OneTaskStep, AcquiredC, PermitCalls DEF PermitKind
  <1>3. CASE c' = c /\ (Runs(t)' <=> Runs(t))
    <2>1. Same(t)
      BY <1>3 DEF Same, Held, Grows, Shrinks, Ends, Num
    <2>2. QED
      BY <1>1, <1>3, <2>1, OneTaskStep, SameC
  <1>4. QED
    BY <1>2, <1>3, OnWakeFacts DEF Runs

LEMMA GatewayCalls ==
  ASSUME TypeOK, TypeOK', ShapeInv, NEW t \in Tasks, GatewayStep(t)
  PROVE  CallStep
  <1> USE DEF driverVars, CallStep, PermitStep
  <1>a. /\ sched \in [Tasks -> SchedState] /\ poll \in [Tasks -> PollState]
        /\ at \in [Tasks -> Future] /\ TaskShape(t) /\ "activity" \in PermitKind
    BY DEF TypeOK, ShapeInv, PermitKind
  <1>1. CASE OuterWake(t)
    BY <1>1, QuietTasks, QuietWrites, SameC DEF OuterWake
  <1>2. CASE PollEnter(t)
    <2>1. Same(t)
      BY <1>2, <1>a DEF PollEnter, Same, Held, Grows, Shrinks, Runs, Ends, HasBody, Num
    <2>2. QED
      BY <1>2, <1>a, <2>1, OneTaskStep, QuietWrites, SameC DEF PollEnter
  <1>3. CASE PollBegin(t)
    <2>1. \A u \in Tasks \ {t} : sched'[u] = sched[u] /\ poll'[u] = poll[u] /\ at'[u] = at[u]
      BY <1>3, <1>a DEF PollBegin
    <2>2. HasBody(t)' <=> HasBody(t)
      BY <1>3, <1>a DEF PollBegin, HasBody, Resumed, Future
    <2>3. CASE sched[t] = "Queued"
      <3>1. Same(t) /\ c' = c
        BY <1>3, <1>a, <2>2, <2>3 DEF PollBegin, Same, Held, Grows, Shrinks, Runs, Ends, Num
      <3>2. QED
        BY <1>3, <2>1, <3>1, OneTaskStep, QuietWrites, SameC DEF PollBegin
    <2>4. CASE sched[t] # "Queued" /\ Grants(c, "activity")
      <3>1. Gain(t) /\ c' = Acquire(c, "activity") /\ Admits(c)
        BY <1>3, <1>a, <2>2, <2>4, PermitCalls
        DEF PollBegin, Gain, Held, Grows, Runs, Ends, Num, Grants, TaskShape, SchedState, EndedPoll
      <3>2. QED
        BY <1>3, <1>a, <2>1, <3>1, OneTaskStep, QuietWrites, AcquiredC, PermitCalls DEF PollBegin
    <2>5. CASE sched[t] # "Queued" /\ ~ Grants(c, "activity")
      <3>1. Same(t) /\ c' = c
        BY <1>3, <1>a, <2>2, <2>5 DEF PollBegin, Same, Held, Grows, Shrinks, Runs, Ends, Num
      <3>2. QED
        BY <1>3, <2>1, <3>1, OneTaskStep, QuietWrites, SameC DEF PollBegin
    <2>6. QED
      BY <2>3, <2>4, <2>5
  <1>4. CASE PollPending(t) \/ PollExhausted(t)
    <2>1. \A u \in Tasks \ {t} : sched'[u] = sched[u] /\ poll'[u] = poll[u] /\ at'[u] = at[u]
      BY <1>4, <1>a DEF PollPending, PollExhausted
    <2>2. HasBody(t)' <=> HasBody(t)
      BY <1>4, <1>a DEF PollPending, PollExhausted, HasBody, Future
    <2>3. Same(t) /\ c' = c
      BY <1>4, <1>a, <2>2
      DEF PollPending, PollExhausted, TaskShape, Same, Held, Grows, Shrinks, Runs, Ends, Num
    <2>4. QED
      BY <1>4, <2>1, <2>3, OneTaskStep, QuietWrites, SameC DEF PollPending, PollExhausted
  <1>5. CASE PollLeave(t)
    <2>1. Loss(t)
      BY <1>5, <1>a, PermitCalls
      DEF PollLeave, Loss, Held, Shrinks, Runs, Ends, HasBody, Num
    <2>2. QED
      BY <1>5, <1>a, <2>1, OneTaskStep, QuietWrites, ReleasedC, PermitCalls DEF PollLeave
  <1>6. CASE Deliver(t)
    <2>1. Ends(t) /\ Ends(t)' /\ at' = at /\ \A u \in Tasks \ {t} : poll'[u] = poll[u]
      BY <1>6, <1>a DEF Deliver, Ends
    <2>2. CASE slot[t] = "empty" /\ ReaderWaits(t)
      <3>1. PICK p \in Tasks : OnWake(p)
        BY <1>6, <2>2 DEF Deliver, ReaderWaits, TypeOK
      <3>2. \A u \in Tasks : (Ends(u)' <=> Ends(u)) /\ (HasBody(u)' <=> HasBody(u))
        BY <2>1 DEF Ends, HasBody
      <3>3. \A u \in Tasks \ {p} : Runs(u)' <=> Runs(u)
        BY <3>1, OnWakeFacts DEF Runs
      <3>4. OthersKeep(p)
        BY <3>2, <3>3 DEF OthersKeep
      <3>5. CASE sched[p] = "Idle" /\ sched'[p] = "Queued" /\ Admits(c) /\ c' = Acquire(c, "activity")
        <4>1. Gain(p)
          BY <3>1, <3>2, <3>5, PermitCalls DEF Gain, Held, Grows, Runs, Num
        <4>2. ActivityStep
          BY <3>1, <3>4, <4>1 DEF ActivityStep, Gain
        <4>3. QED
          BY <1>6, <1>a, <3>5, <4>2, QuietWrites, AcquiredC, PermitCalls DEF Deliver
      <3>6. CASE c' = c /\ (Runs(p)' <=> Runs(p))
        <4>1. Same(p)
          BY <3>1, <3>2, <3>6 DEF Same, Held, Grows, Shrinks, Num
        <4>2. ActivityStep
          BY <3>1, <3>4, <4>1 DEF ActivityStep, Same
        <4>3. QED
          BY <1>6, <3>6, <4>2, QuietWrites, SameC DEF Deliver
      <3>7. QED
        BY <3>1, <3>5, <3>6, OnWakeFacts DEF Runs
    <2>3. CASE ~ (slot[t] = "empty" /\ ReaderWaits(t))
      <3>1. sched' = sched /\ (c' = c \/ c' = WakeDriver(c) \/ c' = RecordPanic(c))
        BY <1>6, <2>3 DEF Deliver
      <3>2. Kept(c, c') /\ CoordinatorStep
        BY <3>1, RecordCalls, SameC, RecordedC DEF Kept, Severity
      <3>3. Same(t)
        BY <2>1, <3>1, <3>2 DEF Same, Held, Grows, Shrinks, Runs, HasBody, Num, Kept
      <3>4. QED
        BY <1>6, <2>1, <3>1, <3>2, <3>3, OneTaskStep, QuietWrites DEF Deliver, Kept
    <2>4. QED
      BY <2>2, <2>3
  <1>7. CASE TaskExits(t)
    <2>1. Loss(t)
      BY <1>7, <1>a, PermitCalls
      DEF TaskExits, Loss, Held, Shrinks, Runs, Ends, HasBody, Num
    <2>2. QED
      BY <1>7, <1>a, <2>1, OneTaskStep, QuietWrites, ReleasedC, PermitCalls DEF TaskExits
  <1>8. CASE DropTask(t)
    <2>1. /\ c' = DropTaskC(t) /\ poll[t] = "off" /\ sched[t] # "Unspawned"
          /\ sched' = [sched EXCEPT ![t] = "Done"] /\ poll' = [poll EXCEPT ![t] = "gone"]
          /\ at' = [at EXCEPT ![t] = Stuck] /\ UNCHANGED <<wr, rf>>
      BY <1>8 DEF DropTask, DropTaskC
    <2>2. /\ ~ Runs(t)' /\ ~ Ends(t)' /\ ~ HasBody(t)' /\ ~ Ends(t)
          /\ Runs(t) <=> sched[t] = "Queued"
      BY <1>a, <2>1 DEF Runs, Ends, HasBody, Stuck, TaskShape
    <2>3. OthersKeep(t)
      BY <1>a, <2>1 DEF OthersKeep, Runs, Ends, HasBody
    <2>4. /\ Yields(c, c') /\ c'.checkpoint = c.checkpoint /\ c'.scheduler = c.scheduler
          /\ LET n == IF HasBody(t) THEN Lowered(c.activity) ELSE c.activity
             IN  c'.activity = IF sched[t] = "Queued" THEN Lowered(n) ELSE n
      BY <2>1, DropTaskFacts
    <2>5. ActivityStep
      <3>1. Shrinks(t)
        BY <2>2 DEF Shrinks
      <3>2. CASE Runs(t) /\ HasBody(t)
        <4>1. Held(t) = Held(t)' + 2 /\ c'.activity = Lowered(Lowered(c.activity))
          BY <2>2, <2>4, <3>2 DEF Held, Num
        <4>2. QED
          BY <2>3, <3>1, <4>1 DEF ActivityStep
      <3>3. CASE (Runs(t) /\ ~ HasBody(t)) \/ (~ Runs(t) /\ HasBody(t))
        <4>1. Held(t) = Held(t)' + 1 /\ c'.activity = Lowered(c.activity)
          BY <2>2, <2>4, <3>3 DEF Held, Num
        <4>2. QED
          BY <2>3, <3>1, <4>1 DEF ActivityStep
      <3>4. CASE ~ Runs(t) /\ ~ HasBody(t)
        <4>1. Held(t) = Held(t)' /\ c'.activity = c.activity /\ Grows(t)
          BY <2>2, <2>4, <3>4 DEF Held, Num, Grows
        <4>2. QED
          BY <2>3, <3>1, <4>1 DEF ActivityStep
      <3>5. QED
        BY <3>2, <3>3, <3>4
    <2>6. QED
      BY <2>1, <2>4, <2>5, QuietWrites DEF CoordinatorStep
  <1>9. QED
    BY <1>1, <1>2, <1>3, <1>4, <1>5, <1>6, <1>7, <1>8 DEF GatewayStep

LEMMA RetiredC ==
  ASSUME TypeOK, NEW k, c' = Retire(c, k)
  PROVE  /\ CoordinatorStep /\ c'.activity = c.activity
         /\ c'.checkpoint = c.checkpoint /\ c'.scheduler = c.scheduler
  <1>1. c \in CType
    BY DEF TypeOK, CType
  <1>2. QED
    BY <1>1, RetireFacts DEF CoordinatorStep, Retire

\* The permits of a task whose future goes from one place to another.
LEMMA WithinCalls ==
  ASSUME NEW t \in Tasks, Within(t),
         \/ c'.activity = c.activity /\ (HasBody(t)' <=> HasBody(t))
         \/ c'.activity = c.activity + 1 /\ ~ HasBody(t) /\ HasBody(t)'
         \/ c'.activity = Lowered(c.activity) /\ HasBody(t) /\ ~ HasBody(t)'
  PROVE  ActivityStep
  <1>1. (Runs(t)' <=> Runs(t)) /\ (Ends(t)' <=> Ends(t))
    BY DEF Within, Runs, Ends
  <1>2. \A u \in Tasks \ {t} : sched'[u] = sched[u] /\ poll'[u] = poll[u] /\ at'[u] = at[u]
    BY DEF Within
  <1>3. Gain(t) \/ Same(t) \/ Loss(t)
    BY <1>1 DEF Gain, Same, Loss, Held, Grows, Shrinks, Num
  <1>4. QED
    BY <1>2, <1>3, OneTaskStep

LEMMA UserCalls ==
  ASSUME TypeOK, TypeOK', ShapeInv, NEW t \in Tasks, UserStep(t)
  PROVE  CallStep
  <1> USE DEF Polling, Goto, driverVars, CallStep, PermitStep
  <1>a. /\ sched \in [Tasks -> SchedState] /\ poll \in [Tasks -> PollState]
        /\ at \in [Tasks -> Future] /\ TaskShape(t)
        /\ "activity" \in PermitKind /\ "checkpoint" \in PermitKind
    BY DEF TypeOK, ShapeInv, PermitKind
  <1>b. ASSUME Within(t), UNCHANGED <<wr, rf>>, CoordinatorStep,
               c'.checkpoint = c.checkpoint, c'.scheduler = c.scheduler,
               \/ c'.activity = c.activity /\ (HasBody(t)' <=> HasBody(t))
               \/ c'.activity = c.activity + 1 /\ ~ HasBody(t) /\ HasBody(t)'
               \/ c'.activity = Lowered(c.activity) /\ HasBody(t) /\ ~ HasBody(t)'
        PROVE  CallStep
    BY <1>b, WithinCalls, QuietWrites
  <1>c. ASSUME Within(t), UNCHANGED <<c, wr, rf>>, HasBody(t)' <=> HasBody(t) PROVE CallStep
    BY <1>b, <1>c, SameC
  <1>1. ASSUME NEW o \in Ops, StartWait(t, o) PROVE CallStep
    <2>1. /\ Within(t) /\ (HasBody(t)' <=> HasBody(t)) /\ UNCHANGED <<wr, rf>>
      BY <1>1, <1>a DEF StartWait, Within, HasBody, Stuck
    <2>2. CASE ~ Admits(c)
      BY <1>1, <1>c, <2>1, <2>2 DEF StartWait
    <2>3. CASE Admits(c)
      <3>1. /\ c' = RegisterWait(c, Key(t, o)) /\ Key(t, o) \in Tasks \X Ops
            /\ t \in Runnable
        BY <1>1, <1>a, <2>3 DEF StartWait, Key, Runnable, TaskShape
      <3>2. /\ c'.activity = c.activity /\ c'.checkpoint = c.checkpoint
            /\ c'.scheduler = c.scheduler
        BY <3>1 DEF RegisterWait, TypeOK, CoordinatorType
      <3>3. CoordinatorStep
        BY <2>3, <3>1 DEF CoordinatorStep
      <3>4. QED
        BY <1>b, <2>1, <3>2, <3>3
    <2>4. QED
      BY <2>2, <2>3
  <1>2. CASE ReadRecord(t)
    <2>1. Within(t) /\ (HasBody(t)' <=> HasBody(t)) /\ UNCHANGED <<wr, rf>>
      BY <1>2, <1>a DEF ReadRecord, Within, HasBody, Run
    <2>2. c' = c \/ c' = Retire(c, Key(t, at[t].on))
      BY <1>2 DEF ReadRecord
    <2>3. QED
      BY <1>b, <1>c, <2>1, <2>2, RetiredC
  <1>3. CASE StartBody(t)
    <2>1. /\ Within(t) /\ UNCHANGED <<wr, rf>> /\ ~ HasBody(t)
          /\ \/ c' = c /\ ~ HasBody(t)'
             \/ c' = Acquire(c, "activity") /\ Admits(c) /\ HasBody(t)'
      BY <1>3, <1>a DEF StartBody, Within, HasBody, Stuck, Grants
    <2>2. QED
      BY <1>a, <1>b, <1>c, <2>1, AcquiredC, PermitCalls
  <1>4. CASE EndBody(t)
    <2>1. /\ Within(t) /\ UNCHANGED <<wr, rf>> /\ HasBody(t) /\ ~ HasBody(t)'
          /\ c' = Release(c, "activity")
      BY <1>4, <1>a DEF EndBody, Within, HasBody, Run
    <2>2. QED
      BY <1>a, <1>b, <2>1, ReleasedC, PermitCalls
  <1>5. CASE StartTimer(t) \/ Proceed(t)
    <2>1. Within(t) /\ UNCHANGED <<c, wr, rf>> /\ (HasBody(t)' <=> HasBody(t))
      BY <1>5, <1>a DEF StartTimer, Proceed, Within, HasBody, Run
    <2>2. QED
      BY <1>c, <2>1
  <1>6. ASSUME NEW w \in Writes, SubmitWrite(t, w) PROVE CallStep
    <2>1. Within(t) /\ (HasBody(t)' <=> HasBody(t)) /\ rf' = rf
      BY <1>6, <1>a DEF SubmitWrite, Within, HasBody, Stuck
    <2>2. CASE ~ Grants(c, "checkpoint")
      BY <1>6, <1>c, <2>1, <2>2 DEF SubmitWrite
    <2>3. CASE Grants(c, "checkpoint")
      <3>1. /\ c' = Acquire(c, "checkpoint") /\ Admits(c) /\ ~ Pending(w)
            /\ wr' = [wr EXCEPT ![w].st = "admitted"]
        BY <1>6, <2>3 DEF SubmitWrite, Grants, Pending
      <3>2. Pending(w)' /\ \A v \in Writes \ {w} : Pending(v)' <=> Pending(v)
        BY <3>1, WriteNames DEF Pending, TypeOK, Write
      <3>3. CheckpointStep /\ RefreshStep
        BY <2>1, <3>1, <3>2, PermitCalls DEF CheckpointStep, RefreshStep, Refreshing
      <3>4. ActivityStep
        BY <2>1, <3>1, WithinCalls, PermitCalls
      <3>5. QED
        BY <1>a, <3>1, <3>3, <3>4, AcquiredC
    <2>4. QED
      BY <2>2, <2>3
  <1>7. CASE QueueWrite(t)
    <2>1. Within(t) /\ (HasBody(t)' <=> HasBody(t)) /\ rf' = rf
      BY <1>7, <1>a DEF QueueWrite, Within, HasBody, Stuck
    <2>2. PICK w \in Writes : w = at[t].on
      BY <1>7, <1>a, FutureSteps DEF QueueWrite
    <2>3. wr[w].st = "admitted" /\ wr \in [AllWrites -> Write] /\ w \in AllWrites
      BY <1>7, <2>2, WriteNames DEF QueueWrite, ShapeInv, LinkShape, SubmitShape, TypeOK
    <2>4. CASE c.writeFailure = "None"
      <3>1. c' = c /\ \A v \in Writes : Pending(v)' <=> Pending(v)
        BY <1>7, <2>2, <2>3, <2>4, WriteNames, QueuedFacts DEF QueueWrite, Pending
      <3>2. CheckpointStep /\ RefreshStep
        BY <2>1, <3>1 DEF CheckpointStep, RefreshStep, Refreshing
      <3>3. QED
        BY <2>1, <3>1, <3>2, WithinCalls, SameC
    <2>5. CASE c.writeFailure # "None"
      <3>1. /\ c' = Release(c, "checkpoint") /\ Pending(w) /\ ~ Pending(w)'
            /\ \A v \in Writes \ {w} : Pending(v)' <=> Pending(v)
        BY <1>7, <2>2, <2>3, <2>5, WriteNames DEF QueueWrite, Pending, NoWrite
      <3>2. CheckpointStep /\ RefreshStep
        BY <2>1, <3>1, PermitCalls DEF CheckpointStep, RefreshStep, Refreshing
      <3>3. ActivityStep
        BY <2>1, <3>1, WithinCalls, PermitCalls
      <3>4. QED
        BY <1>a, <3>1, <3>2, <3>3, ReleasedC
    <2>6. QED
      BY <2>4, <2>5
  <1>8. CASE LoseRace(t)
    <2>1. Within(t) /\ UNCHANGED <<wr, rf>> /\ ~ HasBody(t)' /\ at[t].do \in {"check", "body", "write"}
      BY <1>8, <1>a DEF LoseRace, Within, HasBody, Run
    <2>2. CASE at[t].do = "check"
      <3>1. c' = Retire(c, Key(t, at[t].on)) /\ ~ HasBody(t)
        BY <1>8, <2>2 DEF LoseRace, HasBody
      <3>2. QED
        BY <1>b, <2>1, <3>1, RetiredC
    <2>3. CASE at[t].do = "body"
      <3>1. c' = Release(c, "activity") /\ HasBody(t)
        BY <1>8, <2>3 DEF LoseRace, HasBody
      <3>2. QED
        BY <1>a, <1>b, <2>1, <3>1, ReleasedC, PermitCalls
    <2>4. CASE at[t].do = "write"
      <3>1. c' = c /\ ~ HasBody(t)
        BY <1>8, <2>4 DEF LoseRace, HasBody
      <3>2. QED
        BY <1>c, <2>1, <3>1
    <2>5. QED
      BY <2>1, <2>2, <2>3, <2>4
  <1>9. ASSUME NEW u \in OpTasks, SpawnChild(t, u) PROVE CallStep
    <2>1. CASE ~ Grants(c, "activity")
      <3>1. Within(t) /\ UNCHANGED <<c, wr, rf>> /\ (HasBody(t)' <=> HasBody(t))
        BY <1>9, <1>a, <2>1 DEF SpawnChild, Within, HasBody, Stuck
      <3>2. QED
        BY <1>c, <3>1
    <2>2. CASE Grants(c, "activity")
      <3>1. /\ c' = Acquire(c, "activity") /\ Admits(c) /\ UNCHANGED <<poll, wr, rf>>
            /\ sched[u] = "Unspawned" /\ sched' = [sched EXCEPT ![u] = "Queued"]
            /\ u \in Tasks /\ u # t
            /\ \A v \in Tasks : HasBody(v)' <=> HasBody(v)
        BY <1>9, <1>a, <2>2, TaskFacts DEF SpawnChild, Grants, HasBody, TaskShape
      <3>2. \A v \in Tasks : Ends(v)' <=> Ends(v)
        BY <3>1 DEF Ends
      <3>3. ~ Runs(u) /\ Runs(u)' /\ \A v \in Tasks \ {u} : Runs(v)' <=> Runs(v)
        BY <1>a, <3>1 DEF Runs
      <3>4. OthersKeep(u)
        BY <3>1, <3>2, <3>3 DEF OthersKeep
      <3>5. Gain(u)
        BY <3>1, <3>2, <3>3, PermitCalls DEF Gain, Held, Grows, Num
      <3>6. ActivityStep
        BY <3>1, <3>4, <3>5 DEF ActivityStep, Gain
      <3>7. QED
        BY <1>a, <3>1, <3>6, QuietWrites, AcquiredC, PermitCalls
    <2>3. QED
      BY <2>1, <2>2
  <1>10. ASSUME NEW u \in OpTasks, JoinChild(t, u) PROVE CallStep
    <2>1. Within(t) /\ UNCHANGED <<c, wr, rf>> /\ (HasBody(t)' <=> HasBody(t))
      BY <1>10, <1>a DEF JoinChild, Awaits, Within, HasBody, Run
    <2>2. QED
      BY <1>c, <2>1
  <1>11. ASSUME NEW us \in SUBSET Tasks, c' = AfterClosing(c, us), UNCHANGED <<wr, rf>>,
                poll[t] = "polling", at[t].do \in {"run", "joinpoll"}, at'[t].do = "run",
                sched' = [sched EXCEPT ![t] = "Done"],
                poll' = [poll EXCEPT ![t] = "panic"] \/ poll' = [poll EXCEPT ![t] = "value"],
                \A u \in Tasks \ {t} : at'[u] = at[u]
         PROVE  CallStep
    <2>1. Kept(c, c') /\ CoordinatorStep
      BY <1>11, RecordCalls, RecordedC DEF Severity
    <2>2. \A u \in Tasks \ {t} : sched'[u] = sched[u] /\ poll'[u] = poll[u] /\ at'[u] = at[u]
      BY <1>11, <1>a
    <2>3. /\ Runs(t) /\ ~ Ends(t) /\ ~ HasBody(t)
          /\ ~ Runs(t)' /\ Ends(t)' /\ ~ HasBody(t)'
      BY <1>11, <1>a DEF Runs, Ends, HasBody, TaskShape
    <2>4. Same(t)
      BY <2>1, <2>3 DEF Same, Kept, Held, Grows, Shrinks, Num
    <2>5. QED
      BY <1>11, <2>1, <2>2, <2>4, OneTaskStep, QuietWrites DEF Kept
  <1>12. ASSUME NEW u \in OpTasks, JoinPanic(t, u) PROVE CallStep
    <2>1. /\ at[t].do \in {"run", "joinpoll"} /\ poll[t] = "polling" /\ at'[t].do = "run"
          /\ \A v \in Tasks \ {t} : at'[v] = at[v]
      BY <1>12, <1>a DEF JoinPanic, Awaits, Run
    <2>2. Children(t) \ {u} \in SUBSET Tasks
      BY DEF Children
    <2>3. QED
      BY <1>11, <1>12, <2>1, <2>2 DEF JoinPanic
  <1>13. ASSUME NEW u \in OpTasks, CancelChild(t, u) PROVE CallStep
    <2>1. /\ Within(t) /\ UNCHANGED <<wr, rf>> /\ (HasBody(t)' <=> HasBody(t))
          /\ c' = AfterClosing(c, {u}) /\ {u} \in SUBSET Tasks
      BY <1>13, TaskFacts DEF CancelChild, Within, HasBody
    <2>2. Kept(c, c') /\ CoordinatorStep
      BY <2>1, RecordCalls, RecordedC DEF Severity
    <2>3. QED
      BY <1>b, <2>1, <2>2 DEF Kept
  <1>14. CASE RegisterAbort(t)
    <2>1. Within(t) /\ UNCHANGED <<c, wr, rf>> /\ (HasBody(t)' <=> HasBody(t))
      BY <1>14, <1>a DEF RegisterAbort, Within, HasBody, Run
    <2>2. QED
      BY <1>c, <2>1
  <1>15. ASSUME NEW severity \in Severity, RecordFatal(t, severity) PROVE CallStep
    <2>1. /\ Within(t) /\ UNCHANGED <<wr, rf>> /\ (HasBody(t)' <=> HasBody(t))
          /\ c' = Record(c, severity)
      BY <1>15, <1>a DEF RecordFatal, Within, HasBody, Stuck
    <2>2. Kept(c, c') /\ CoordinatorStep
      BY <2>1, RecordCalls, RecordedC
    <2>3. QED
      BY <1>b, <2>1, <2>2 DEF Kept
  <1>16. ASSUME NEW kind \in {"value", "panic"}, TaskEnds(t, kind) PROVE CallStep
    <2>1. at[t].do = "run" /\ poll[t] = "polling" /\ at' = at
      BY <1>16 DEF TaskEnds
    <2>2. QED
      BY <1>11, <1>16, <2>1, ChildrenType DEF TaskEnds
  <1>17. QED
    BY <1>1, <1>2, <1>3, <1>4, <1>5, <1>6, <1>7, <1>8, <1>9, <1>10, <1>12,
       <1>13, <1>14, <1>15, <1>16
    DEF UserStep

\* Only a withdrawn invocation abandons its queued writes as withdrawn.
WithdrawShape ==
  \A w \in AllWrites : wr[w].st \in {"withdrawing", "withdrew"} => c.withdrawn

LEMMA WriteCalls ==
  ASSUME TypeOK, TypeOK', ShapeInv, WithdrawShape,
         NEW w \in AllWrites, ServiceStep(w) \/ WriteStep(w)
  PROVE  CallStep
  <1> USE DEF taskVars, driverVars, CallStep, PermitStep
  <1>a. /\ wr \in [AllWrites -> Write] /\ Writes \subseteq AllWrites \ {Refresh}
        /\ "activity" \in PermitKind /\ "checkpoint" \in PermitKind
    BY WriteNames, TaskAssumption DEF TypeOK, PermitKind
  <1>b. ASSUME UNCHANGED <<sched, poll, at, rf>>, CoordinatorStep, Kept(c, c'),
               \A v \in Writes : Pending(v)' <=> Pending(v)
        PROVE  CallStep
    BY <1>b, QuietTasks DEF Kept, CheckpointStep, RefreshStep, Refreshing
  <1>c. ASSUME UNCHANGED <<c, sched, poll, at, rf>>, \A v \in Writes : Pending(v)' <=> Pending(v)
        PROVE  CallStep
    BY <1>b, <1>c, SameC DEF Kept
  <1>d. ASSUME UNCHANGED <<sched, poll, at, rf>>, w \in Writes, c' = Release(c, "checkpoint"),
               Pending(w), ~ Pending(w)', \A v \in Writes \ {w} : Pending(v)' <=> Pending(v)
        PROVE  CallStep
    <2>1. ActivityStep /\ CheckpointStep /\ RefreshStep
      BY <1>d, QuietTasks, PermitCalls DEF CheckpointStep, RefreshStep, Refreshing
    <2>2. QED
      BY <1>a, <1>d, <2>1, ReleasedC
  <1>1. ASSUME NEW ready \in SUBSET (Ops \ log), ResponseMerged(w, ready) PROVE CallStep
    <2>1. \A v \in Writes : Pending(v)' <=> Pending(v)
      BY <1>1, <1>a DEF ResponseMerged, Pending, Write
    <2>2. QED
      BY <1>1, <1>c, <2>1 DEF ResponseMerged
  <1>2. ASSUME NEW severity \in Severity, ResponseFailed(w, severity) PROVE CallStep
    <2>1. \A v \in Writes : Pending(v)' <=> Pending(v)
      BY <1>2, <1>a DEF ResponseFailed, Pending, Write
    <2>2. Kept(c, c') /\ CoordinatorStep
      BY <1>2, RecordCalls, RecordedC DEF ResponseFailed
    <2>3. QED
      BY <1>2, <1>b, <2>1, <2>2 DEF ResponseFailed
  <1>3. CASE ResponseTokenless(w)
    <2>1. \A v \in Writes : Pending(v)' <=> Pending(v)
      BY <1>3, <1>a DEF ResponseTokenless, Pending, Write
    <2>2. Kept(c, c') /\ CoordinatorStep
      BY <1>3, RecordCalls DEF ResponseTokenless, CoordinatorStep
    <2>3. QED
      BY <1>3, <1>b, <2>1, <2>2 DEF ResponseTokenless
  <1>4. CASE StartWrite(w)
    <2>1. \A v \in Writes : Pending(v)' <=> Pending(v)
      BY <1>4, <1>a DEF StartWrite, Pending, Write
    <2>2. QED
      BY <1>4, <1>c, <2>1 DEF StartWrite
  <1>5. CASE TakeQueued(w)
    <2>1. \A v \in Writes : Pending(v)' <=> Pending(v)
      BY <1>5, <1>a DEF TakeQueued, Pending, Write
    <2>2. QED
      BY <1>5, <1>c, <2>1 DEF TakeQueued
  <1>6. CASE DropEntry(w)
    <2>1. CASE w = Refresh
      <3>1. \A v \in Writes : Pending(v)' <=> Pending(v)
        BY <1>6, <1>a, <2>1 DEF DropEntry, Pending
      <3>2. QED
        BY <1>6, <1>c, <2>1, <3>1 DEF DropEntry
    <2>2. CASE w # Refresh
      <3>1. w \in Writes
        BY <2>2 DEF AllWrites
      <3>2. /\ Pending(w) /\ ~ Pending(w)'
            /\ \A v \in Writes \ {w} : Pending(v)' <=> Pending(v)
        BY <1>6, <1>a, <3>1 DEF DropEntry, Pending, Write
      <3>3. QED
        BY <1>6, <1>d, <2>2, <3>1, <3>2 DEF DropEntry
    <2>3. QED
      BY <2>1, <2>2
  <1>7. CASE EndFailure(w)
    <2>1. \A v \in Writes : Pending(v)' <=> Pending(v)
      BY <1>7, <1>a DEF EndFailure, Pending, Write
    <2>2. c' = WakeDriver(c) \/ (c.withdrawn /\ c' = EndWithdrawal(c))
      BY <1>7 DEF EndFailure, WithdrawShape
    <2>3. Kept(c, c') /\ CoordinatorStep
      BY <2>2, RecordCalls, RecordedC DEF Severity
    <2>4. QED
      BY <1>7, <1>b, <2>1, <2>3 DEF EndFailure
  <1>8. CASE CollectWakers(w)
    <2>1. \A v \in Writes : Pending(v)' <=> Pending(v)
      BY <1>8, <1>a DEF CollectWakers, Pending, Write
    <2>2. QED
      BY <1>8, <1>c, <2>1 DEF CollectWakers
  <1>9. ASSUME NEW t \in Tasks, WakeWaiter(w, t) PROVE CallStep
    <2>1. \A v \in Writes : Pending(v)' <=> Pending(v)
      BY <1>9, <1>a DEF WakeWaiter, Pending, Write
    <2>2. ActivityStep /\ CoordinatorStep /\ c'.checkpoint = c.checkpoint /\ c'.scheduler = c.scheduler
      BY <1>9, WakeCalls DEF WakeWaiter, HasBody
    <2>3. QED
      BY <1>9, <2>1, <2>2 DEF WakeWaiter, CheckpointStep, RefreshStep, Refreshing
  <1>10. CASE AnswerCaller(w)
    <2>2. \A v \in Writes : Pending(v)' <=> Pending(v)
      BY <1>10, <1>a DEF AnswerCaller, Answered, Pending, Write, NoWrite
    <2>3. ASSUME NEW t \in Callers(w), OnWake(t),
                 Goto(t, IF Answered(w) THEN [at[t] EXCEPT !.do = "written"] ELSE Stuck)
          PROVE  CallStep
      <3>1. /\ t \in Tasks /\ ~ HasBody(t) /\ ~ HasBody(t)'
            /\ \A u \in Tasks \ {t} : at'[u] = at[u]
        BY <2>3 DEF Callers, TypeOK, Goto, Stuck, Future, HasBody
      <3>2. ActivityStep /\ CoordinatorStep /\ c'.checkpoint = c.checkpoint /\ c'.scheduler = c.scheduler
        BY <1>10, <2>3, <3>1, WakeCalls DEF AnswerCaller
      <3>3. QED
        BY <1>10, <2>2, <3>2 DEF AnswerCaller, CheckpointStep, RefreshStep, Refreshing
    <2>4. CASE UNCHANGED <<c, sched, tokio, at>>
      BY <1>10, <1>c, <2>2, <2>4 DEF AnswerCaller
    <2>5. QED
      BY <1>10, <2>3, <2>4 DEF AnswerCaller
  <1>11. CASE ReleaseWrite(w)
    <2>1. /\ Pending(w) /\ ~ Pending(w)' /\ w \in Writes
          /\ \A v \in Writes \ {w} : Pending(v)' <=> Pending(v)
      BY <1>11, <1>a DEF ReleaseWrite, Pending, Write, NoWrite
    <2>2. QED
      BY <1>11, <1>d, <2>1 DEF ReleaseWrite
  <1>12. CASE ClientPanics(w)
    <2>1. \A v \in Writes : Pending(v)' <=> Pending(v)
      BY <1>12, <1>a DEF ClientPanics, Pending, Write
    <2>2. QED
      BY <1>12, <1>c, <2>1 DEF ClientPanics
  <1>13. CASE UnwindWrite(w)
    <2>1. CASE w = Refresh
      <3>1. \A v \in Writes : Pending(v)' <=> Pending(v)
        BY <1>13, <1>a, <2>1 DEF UnwindWrite, Pending
      <3>2. QED
        BY <1>13, <1>c, <2>1, <3>1 DEF UnwindWrite
    <2>2. CASE w # Refresh
      <3>1. w \in Writes
        BY <2>2 DEF AllWrites
      <3>2. /\ Pending(w) /\ ~ Pending(w)'
            /\ \A v \in Writes \ {w} : Pending(v)' <=> Pending(v)
        BY <1>13, <1>a, <2>2, <3>1 DEF UnwindWrite, Pending, Write
      <3>3. QED
        BY <1>13, <1>d, <2>2, <3>1, <3>2 DEF UnwindWrite
    <2>3. QED
      BY <2>1, <2>2
  <1>14. CASE WriterStops(w)
    <2>1. \A v \in Writes : Pending(v)' <=> Pending(v)
      BY <1>14, <1>a, WriterStopsFacts DEF Pending
    <2>2. QED
      BY <1>14, <1>c, <2>1 DEF WriterStops
  <1>15. CASE RecordWriterPanic(w)
    <2>1. \A v \in Writes : Pending(v)' <=> Pending(v)
      BY <1>15, <1>a DEF RecordWriterPanic, Pending, Write, NoWrite
    <2>2. Kept(c, c') /\ CoordinatorStep
      BY <1>15, RecordCalls, RecordedC DEF RecordWriterPanic, Severity
    <2>3. QED
      BY <1>15, <1>b, <2>1, <2>2 DEF RecordWriterPanic
  <1>16. QED
    BY <1>1, <1>2, <1>3, <1>4, <1>5, <1>6, <1>7, <1>8, <1>9, <1>10, <1>11, <1>12, <1>13, <1>14,
       <1>15
    DEF ServiceStep, WriteStep

LEMMA SchedulerCalls ==
  ASSUME TypeOK, TypeOK', SchedulerStep
  PROVE  CallStep
  <1> USE DEF taskVars, driverVars, CallStep, PermitStep
  <1>a. wr \in [AllWrites -> Write] /\ Writes \subseteq AllWrites \ {Refresh}
    BY WriteNames, TaskAssumption DEF TypeOK
  <1>b. rf \in Scheduler /\ "scheduler" \in PermitKind
    BY DEF TypeOK, PermitKind
  <1>1. CASE SchedulerTakesDue \/ SchedulerAnswered
    <2>1. UNCHANGED <<c, sched, poll, at, wr>> /\ (Refreshing' <=> Refreshing)
      BY <1>1, <1>b DEF SchedulerTakesDue, SchedulerAnswered, Refreshing, Scheduler
    <2>2. QED
      BY <2>1, QuietTasks, SameC DEF CheckpointStep, RefreshStep, Pending
  <1>2. CASE SchedulerSends
    <2>1. /\ UNCHANGED <<sched, poll, at>> /\ ~ Refreshing
          /\ \/ c' = c /\ ~ Refreshing'
             \/ c' = Acquire(c, "scheduler") /\ Admits(c) /\ Refreshing'
      BY <1>2, <1>b DEF SchedulerSends, Refreshing, Scheduler, Grants
    <2>2. \A v \in Writes : Pending(v)' <=> Pending(v)
      BY <1>2, <1>a, WriteNames, QueuedFacts DEF SchedulerSends, Pending
    <2>3. ActivityStep /\ CheckpointStep /\ RefreshStep
      BY <2>1, <2>2, QuietTasks, PermitCalls DEF CheckpointStep, RefreshStep
    <2>4. QED
      BY <1>b, <2>1, <2>3, SameC, AcquiredC
  <1>3. CASE SchedulerDone
    <2>1. /\ UNCHANGED <<sched, poll, at, wr>> /\ Refreshing /\ ~ Refreshing'
          /\ c' = Release(c, "scheduler")
      BY <1>3, <1>b DEF SchedulerDone, Refreshing, Scheduler
    <2>2. ActivityStep /\ CheckpointStep /\ RefreshStep
      BY <2>1, QuietTasks, PermitCalls DEF CheckpointStep, RefreshStep, Pending
    <2>3. QED
      BY <1>b, <2>1, <2>2, ReleasedC
  <1>4. ASSUME NEW t \in Tasks, SchedulerWakes(t) PROVE CallStep
    <2>1. ActivityStep /\ CoordinatorStep /\ c'.checkpoint = c.checkpoint /\ c'.scheduler = c.scheduler
      BY <1>4, WakeCalls DEF SchedulerWakes, HasBody
    <2>2. wr' = wr /\ (Refreshing' <=> Refreshing)
      BY <1>4, <1>b DEF SchedulerWakes, Refreshing, Scheduler
    <2>3. QED
      BY <2>1, <2>2 DEF CheckpointStep, RefreshStep, Pending
  <1>5. QED
    BY <1>1, <1>2, <1>3, <1>4 DEF SchedulerStep

LEMMA DriverCalls ==
  ASSUME TypeOK, TypeOK', ShapeInv, DriverStep
  PROVE  CallStep
  <1> USE DEF taskVars, driverVars, CallStep, PermitStep
  <1>a. /\ sched \in [Tasks -> SchedState] /\ rf \in Scheduler /\ Root \in Tasks
        /\ "activity" \in PermitKind /\ "scheduler" \in PermitKind
    BY TaskFacts DEF TypeOK, PermitKind
  <1>b. ASSUME UNCHANGED <<sched, poll, at, wr, rf>>, CoordinatorStep, Kept(c, c')
        PROVE  CallStep
    BY <1>b, QuietTasks, QuietWrites DEF Kept
  <1>1. CASE DriveStart
    <2>1. /\ sched[Root] = "Unspawned" /\ UNCHANGED <<poll, at, wr, rf>>
          /\ \A u \in Tasks \ {Root} : sched'[u] = sched[u]
      BY <1>1, <1>a DEF DriveStart, ShapeInv, LinkShape, StartShape
    <2>2. CASE sched'[Root] = "Queued" /\ c' = Acquire(c, "activity") /\ Admits(c)
      <3>1. Gain(Root)
        BY <2>1, <2>2, PermitCalls DEF Gain, Held, Grows, Runs, Ends, HasBody, Num
      <3>2. QED
        BY <1>a, <2>1, <2>2, <3>1, OneTaskStep, QuietWrites, AcquiredC, PermitCalls
    <2>3. CASE sched'[Root] = "Idle" /\ c' \in {c, Finish(c)}
      <3>1. Kept(c, c') /\ CoordinatorStep
        BY <2>3, RecordCalls, SameC DEF Kept, CoordinatorStep
      <3>2. Same(Root)
        BY <2>1, <2>3, <3>1 DEF Same, Kept, Held, Grows, Shrinks, Runs, Ends, HasBody, Num
      <3>3. QED
        BY <1>a, <2>1, <3>1, <3>2, OneTaskStep, QuietWrites DEF Kept
    <2>4. \/ sched'[Root] = "Queued" /\ c' = Acquire(c, "activity") /\ Admits(c)
          \/ sched'[Root] = "Idle" /\ c' \in {c, Finish(c)}
      <3>1. CASE c.panic
        <4>1. ~ Grants(Finish(c), "activity")
          BY DEF Finish, Grants, Admits, TypeOK, CoordinatorType
        <4>2. QED
          BY <1>1, <1>a, <3>1, <4>1 DEF DriveStart
      <3>2. CASE ~ c.panic
        BY <1>1, <1>a, <3>2 DEF DriveStart, Grants
      <3>3. QED
        BY <3>1, <3>2
    <2>5. QED
      BY <2>2, <2>3, <2>4
  <1>2. CASE DriverCheckFatal \/ DriverPollRoot \/ DriverCheckPhase
    <2>1. /\ UNCHANGED <<sched, poll, at, wr, rf>>
          /\ c' = c \/ c' = RecordPanic(c) \/ c' = [c EXCEPT !.driverWoken = FALSE]
      BY <1>2 DEF DriverCheckFatal, DriverPollRoot, DriverCheckPhase
    <2>2. Kept(c, c') /\ CoordinatorStep
      BY <2>1, RecordCalls, RecordedC, SameC DEF Kept, Severity
    <2>3. QED
      BY <1>b, <2>1, <2>2
  <1>3. CASE DriverParks \/ DriverWakes \/ RootAwaited \/ AbortAll \/ WaitIdle \/ ReadFatal \/ Answer
    <2>1. UNCHANGED <<c, sched, poll, at, wr, rf>>
      BY <1>3 DEF DriverParks, DriverWakes, RootAwaited, AbortAll, WaitIdle, ReadFatal, Answer
    <2>2. QED
      BY <1>b, <2>1, SameC DEF Kept
  <1>4. CASE DropScheduler
    <2>1. /\ UNCHANGED <<sched, poll, at, wr>> /\ ~ Refreshing'
          /\ c' = IF Refreshing THEN Release(c, "scheduler") ELSE c
      BY <1>4, <1>a DEF DropScheduler, Refreshing, Scheduler
    <2>2. ActivityStep /\ CheckpointStep /\ RefreshStep
      BY <2>1, QuietTasks, PermitCalls DEF CheckpointStep, RefreshStep, Pending
    <2>3. QED
      BY <1>a, <2>1, <2>2, ReleasedC, SameC
  <1>5. CASE DriverFinish \/ Arbitrate
    <2>1. /\ UNCHANGED <<sched, poll, at, wr, rf>>
          /\ c' = Finish(c) \/ (driver = "takePanic" /\ c' = TakePanic(c))
      BY <1>5 DEF DriverFinish, Arbitrate
    <2>2. Kept(c, c') /\ CoordinatorStep
      BY <2>1, RecordCalls DEF CoordinatorStep
    <2>3. QED
      BY <1>b, <2>1, <2>2
  <1>6. CASE AbortRoot
    <2>1. /\ UNCHANGED <<sched, poll, at, wr, rf>> /\ c' = AfterClosing(c, {Root})
      BY <1>6 DEF AbortRoot
    <2>2. Kept(c, c') /\ CoordinatorStep
      BY <1>a, <2>1, RecordCalls, RecordedC DEF Severity
    <2>3. QED
      BY <1>b, <2>1, <2>2
  <1>7. QED
    BY <1>1, <1>2, <1>3, <1>4, <1>5, <1>6 DEF DriverStep

\* Every step moves the permits of one holder, and makes one call.
LEMMA NextCalls ==
  ASSUME TypeOK, TypeOK', ShapeInv, WithdrawShape, [Next]_vars
  PROVE  CallStep
  <1> USE DEF taskVars, driverVars, CallStep, PermitStep
  <1>1. ASSUME NEW t \in Tasks, OutsideWake(t) PROVE CallStep
    <2>1. HasBody(t)' <=> HasBody(t)
      BY <1>1 DEF OutsideWake, HasBody, TypeOK, Future
    <2>2. \A u \in Tasks \ {t} : at'[u] = at[u]
      BY <1>1 DEF OutsideWake, TypeOK
    <2>3. ActivityStep /\ CoordinatorStep /\ c'.checkpoint = c.checkpoint /\ c'.scheduler = c.scheduler
      BY <1>1, <2>1, <2>2, WakeCalls DEF OutsideWake
    <2>4. QED
      BY <1>1, <2>3, QuietWrites DEF OutsideWake
  <1>2. CASE RootFinish
    <2>1. /\ Root \in Tasks /\ UNCHANGED <<sched, at, wr, rf>> /\ c' = Finish(c)
          /\ Ends(Root) /\ Ends(Root)' /\ \A u \in Tasks \ {Root} : poll'[u] = poll[u]
      BY <1>2, TaskFacts DEF RootFinish, TypeOK, Ends
    <2>2. Kept(c, c') /\ CoordinatorStep
      BY <2>1, RecordCalls DEF CoordinatorStep
    <2>3. Same(Root)
      BY <2>1, <2>2 DEF Same, Kept, Held, Grows, Shrinks, Runs, HasBody, Num
    <2>4. QED
      BY <2>1, <2>2, <2>3, OneTaskStep, QuietWrites DEF Kept
  <1>3. CASE EndRefreshWrite
    <2>1. /\ UNCHANGED <<sched, poll, at>> /\ (c' = c \/ c' = WakeDriver(c))
          /\ Refreshing' <=> Refreshing
      BY <1>3 DEF EndRefreshWrite, Refreshing, TypeOK, Scheduler
    <2>2. \A v \in Writes : Pending(v)' <=> Pending(v)
      BY <1>3, TaskAssumption, WriteNames DEF EndRefreshWrite, TypeOK, Pending
    <2>3. Kept(c, c') /\ CoordinatorStep
      BY <2>1, RecordCalls, RecordedC, SameC DEF Kept, Severity
    <2>4. QED
      BY <2>1, <2>2, <2>3, QuietTasks DEF Kept, CheckpointStep, RefreshStep
  <1>4. CASE Returned \/ UNCHANGED vars
    BY <1>4, QuietTasks, QuietWrites, SameC DEF Returned, vars
  <1>5. QED
    BY <1>1, <1>2, <1>3, <1>4, GatewayCalls, UserCalls, WriteCalls, SchedulerCalls, DriverCalls
    DEF Next

\* A withdrawal is kept.
LEMMA WithdrawnStays ==
  ASSUME TypeOK, CoordinatorStep, c.withdrawn
  PROVE  c'.withdrawn
  <1>1. c \in CType
    BY DEF TypeOK, CType
  <1>2. ASSUME NEW kind \in PermitKind, c' = Acquire(c, kind) PROVE c'.withdrawn
    BY <1>1, <1>2, AcquireFacts
  <1>3. ASSUME NEW k, c' = RegisterWait(c, k) PROVE c'.withdrawn
    BY <1>1, <1>3 DEF RegisterWait, CType, CoordinatorType
  <1>4. CASE c' = Finish(c) \/ c' = SetWithdrawn(c) \/ c' = TakePanic(c)
    BY <1>1, <1>4 DEF Finish, SetWithdrawn, TakePanic, CType, CoordinatorType
  <1>5. QED
    BY <1>2, <1>3, <1>4 DEF CoordinatorStep, Yields

LEMMA WithdrawKept ==
  ASSUME TypeOK, TypeOK', WithdrawShape, CoordinatorStep, [Next]_vars
  PROVE  WithdrawShape'
  <1> USE DEF taskVars, driverVars
  <1> DEFINE Moving(st) == st \in {"withdrawing", "withdrew"}
  <1>a. wr \in [AllWrites -> Write] /\ c \in CType /\ Refresh \in AllWrites
    BY WriteNames DEF TypeOK, CType
  <1>b. SUFFICES ASSUME NEW v \in AllWrites, Moving(wr'[v].st), ~ Moving(wr[v].st)
                 PROVE  c'.withdrawn
    BY WithdrawnStays DEF WithdrawShape
  <1>1. ASSUME NEW w \in AllWrites, ServiceStep(w) PROVE c'.withdrawn
    <2>1. CASE ResponseTokenless(w)
      BY <1>a, <2>1 DEF ResponseTokenless, SetWithdrawn, CType, CoordinatorType
    <2>2. CASE ~ ResponseTokenless(w)
      BY <1>1, <1>a, <1>b, <2>2
      DEF ServiceStep, ResponseMerged, ResponseFailed, ClientPanics, Write
    <2>3. QED
      BY <2>1, <2>2
  <1>2. ASSUME NEW w \in AllWrites, WriteStep(w) PROVE c'.withdrawn
    <2>1. CASE TakeQueued(w)
      <3>1. Moving(wr[w].st)
        BY <1>a, <1>b, <2>1 DEF TakeQueued, Write
      <3>2. QED
        BY <3>1, WithdrawnStays DEF WithdrawShape
    <2>2. CASE StartWrite(w) \/ DropEntry(w) \/ EndFailure(w) \/ CollectWakers(w)
      BY <1>a, <1>b, <2>2 DEF StartWrite, DropEntry, EndFailure, CollectWakers, Write
    <2>3. CASE (\E t \in Tasks : WakeWaiter(w, t)) \/ AnswerCaller(w) \/ ReleaseWrite(w)
      BY <1>a, <1>b, <2>3 DEF WakeWaiter, AnswerCaller, ReleaseWrite, Write, NoWrite
    <2>4. CASE UnwindWrite(w) \/ RecordWriterPanic(w)
      BY <1>a, <1>b, <2>4 DEF UnwindWrite, RecordWriterPanic, Write, NoWrite
    <2>5. CASE WriterStops(w)
      BY <1>a, <1>b, <2>5, WriterStopsFacts
    <2>6. QED
      BY <1>2, <2>1, <2>2, <2>3, <2>4, <2>5 DEF WriteStep
  <1>3. ASSUME NEW t \in Tasks, UserStep(t) PROVE c'.withdrawn
    <2>1. at[t] \in Future
      BY DEF TypeOK
    <2>2. CASE QueueWrite(t)
      <3>1. at[t].on \in AllWrites
        BY <2>1, <2>2, FutureSteps, WriteNames DEF QueueWrite, Polling
      <3>2. CASE wr' = Queued(at[t].on)
        BY <1>b, <3>1, <3>2, QueuedFacts
      <3>3. CASE wr' = [wr EXCEPT ![at[t].on] = NoWrite("done")]
        BY <1>a, <1>b, <3>1, <3>3 DEF NoWrite
      <3>4. QED
        BY <2>2, <3>2, <3>3 DEF QueueWrite
    <2>3. CASE \E w \in Writes : SubmitWrite(t, w)
      BY <1>a, <1>b, <2>3, WriteNames DEF SubmitWrite, Write
    <2>4. wr' = wr \/ QueueWrite(t) \/ \E w \in Writes : SubmitWrite(t, w)
      BY <1>3
      DEF UserStep, StartWait, ReadRecord, StartBody, EndBody, StartTimer, Proceed, LoseRace,
          SpawnChild, JoinChild, JoinPanic, CancelChild, RegisterAbort, RecordFatal, TaskEnds
    <2>5. QED
      BY <1>b, <2>2, <2>3, <2>4
  <1>4. CASE SchedulerStep
    <2>1. wr' = wr \/ wr' = Queued(Refresh)
      BY <1>4
      DEF SchedulerStep, SchedulerTakesDue, SchedulerSends, SchedulerAnswered, SchedulerDone,
          SchedulerWakes
    <2>2. QED
      BY <1>a, <1>b, <2>1, QueuedFacts
  <1>5. CASE EndRefreshWrite
    BY <1>5, <1>a, <1>b DEF EndRefreshWrite, NoWrite
  <1>6. ASSUME NEW t \in Tasks, GatewayStep(t) PROVE c'.withdrawn
    BY <1>6, <1>b
    DEF GatewayStep, OuterWake, PollEnter, PollBegin, PollPending, PollExhausted, PollLeave,
        Deliver, TaskExits, DropTask
  <1>7. CASE DriverStep
    BY <1>7, <1>b
    DEF DriverStep, DriveStart, DriverCheckFatal, DriverPollRoot, DriverCheckPhase, DriverParks,
        DriverWakes, DropScheduler, DriverFinish, AbortRoot, RootAwaited, AbortAll, WaitIdle,
        ReadFatal, Arbitrate, Answer
  <1>8. CASE (\E t \in Tasks : OutsideWake(t)) \/ RootFinish \/ Returned \/ UNCHANGED vars
    BY <1>8, <1>b DEF OutsideWake, RootFinish, Returned, vars
  <1>9. QED
    BY <1>1, <1>2, <1>3, <1>4, <1>5, <1>6, <1>7, <1>8 DEF Next

(***************************************************************************)
(* The permits.                                                            *)
(***************************************************************************)
PermitInv == TypeOK /\ ShapeInv /\ WithdrawShape /\ PermitAccounting

LEMMA InitPermits == Init => PermitInv
  <1>1. ASSUME Init PROVE TypeOK /\ ShapeInv /\ WithdrawShape
    BY <1>1, InitType, InitShapes DEF Init, WithdrawShape, NoWrite
  <1>2. ASSUME Init PROVE PermitAccounting
    <2>1. c.activity = 0 /\ c.checkpoint = 0 /\ c.scheduler = 0
      BY <1>2, NewCoordinatorType, RecordsKeep DEF Init, Kept, NewCoordinator, Severity
    <2>2. Runnable = {} /\ Ending = {} /\ Bodies = {} /\ Admitted = {} /\ ~ Refreshing
      BY <1>2, WriteNames DEF Init, Runnable, Ending, Bodies, Admitted, Refreshing, Run, NoWrite
    <2>3. QED
      BY <2>1, <2>2, FS_EmptySet DEF PermitAccounting
  <1>3. QED
    BY <1>1, <1>2 DEF PermitInv

LEMMA NextPermits ==
  ASSUME PermitInv, [Next]_vars
  PROVE  PermitInv' /\ CallStep
  <1>1. TypeOK'
    BY NextType DEF PermitInv
  <1>2. ShapeInv' /\ CallStep
    BY <1>1, NextShapes, NextCalls DEF PermitInv
  <1>3. WithdrawShape' /\ PermitAccounting'
    BY <1>1, <1>2, WithdrawKept, PermitStepCounts DEF PermitInv, CallStep
  <1>4. QED
    BY <1>1, <1>2, <1>3 DEF PermitInv

\* The three counts of the coordinator are the permits that are held, in
\* every behaviour: no wake that races the end of a poll, no abort and no
\* dropped write leaks a permit or releases one twice (task.rs `Schedule`).
THEOREM PermitsAreCounted == Spec => []PermitAccounting
  <1>1. PermitInv /\ [Next]_vars => PermitInv'
    BY NextPermits
  <1>2. PermitInv => PermitAccounting
    BY DEF PermitInv
  <1>3. QED
    BY <1>1, <1>2, InitPermits, PTL DEF Spec

(***************************************************************************)
(* What one step does to the driver, to the end of a task, to the slots    *)
(* and to the refresh.                                                     *)
(***************************************************************************)
LEMMA DriverMoves ==
  ASSUME [Next]_vars
  PROVE  DriverStep \/ UNCHANGED driverVars
  <1> USE DEF taskVars, driverVars
  <1>1. ASSUME NEW t \in Tasks, GatewayStep(t) \/ OutsideWake(t) PROVE UNCHANGED driverVars
    BY <1>1
    DEF GatewayStep, OuterWake, PollEnter, PollBegin, PollPending, PollExhausted, PollLeave,
        Deliver, TaskExits, DropTask, OutsideWake
  <1>2. ASSUME NEW t \in Tasks, UserStep(t) PROVE UNCHANGED driverVars
    BY <1>2
    DEF UserStep, StartWait, ReadRecord, StartBody, EndBody, StartTimer, Proceed, LoseRace,
        SpawnChild, JoinChild, JoinPanic, CancelChild, RegisterAbort, RecordFatal,
        TaskEnds, SubmitWrite, QueueWrite
  <1>3. ASSUME NEW w \in AllWrites, ServiceStep(w) \/ WriteStep(w) PROVE UNCHANGED driverVars
    BY <1>3
    DEF ServiceStep, ResponseMerged, ResponseFailed, ResponseTokenless, ClientPanics, WriteStep,
        StartWrite, TakeQueued, DropEntry, EndFailure, CollectWakers, WakeWaiter, AnswerCaller,
        ReleaseWrite, UnwindWrite, WriterStops, RecordWriterPanic
  <1>4. CASE SchedulerStep \/ RootFinish \/ EndRefreshWrite \/ Returned \/ UNCHANGED vars
    BY <1>4
    DEF SchedulerStep, SchedulerTakesDue, SchedulerSends, SchedulerAnswered, SchedulerDone,
        SchedulerWakes, RootFinish, EndRefreshWrite, Returned, vars
  <1>5. QED
    BY <1>1, <1>2, <1>3, <1>4 DEF Next

\* Admission, once closed, stays closed, and so does the phase Finished.
LEMMA PhaseMoves ==
  ASSUME TypeOK, CoordinatorStep
  PROVE  /\ c.phase = "Finished" => c'.phase = "Finished"
         /\ c.phase # "Running" => c'.phase # "Running"
         /\ Admits(c') => Admits(c)
         /\ c'.withdrawn \/ ~ c.withdrawn
         /\ c.fatal # "None" => c'.fatal = c.fatal
         /\ c.panic => c'.panic \/ driver = "takePanic"
         /\ c.panicOpen => c'.panicOpen \/ driver = "takePanic"
         /\ c'.writeFailure = c.writeFailure \/ c'.fatal # "None"
  <1>1. c \in CType /\ c.phase \in Phase
    BY DEF TypeOK, CType, CoordinatorType
  <1>2. CASE Yields(c, c')
    <2>1. c' \in CType /\ c'.phase \in Phase
      BY <1>2 DEF Yields, CType, CoordinatorType
    <2>2. QED
      BY <1>1, <1>2, <2>1 DEF Yields, Admits, Phase
  <1>3. ASSUME NEW kind \in PermitKind, Admits(c), c' = Acquire(c, kind)
        PROVE  /\ c'.phase = c.phase /\ c'.withdrawn = c.withdrawn /\ c'.fatal = c.fatal
               /\ c'.panic = c.panic /\ c'.panicOpen = c.panicOpen /\ c'.writeFailure = c.writeFailure
    BY <1>1, <1>3, AcquireFacts
  <1>4. ASSUME NEW k, c' = RegisterWait(c, k)
        PROVE  /\ c'.phase = c.phase /\ c'.withdrawn = c.withdrawn /\ c'.fatal = c.fatal
               /\ c'.panic = c.panic /\ c'.panicOpen = c.panicOpen /\ c'.writeFailure = c.writeFailure
    BY <1>1, <1>4 DEF RegisterWait, CType, CoordinatorType
  <1>5. CASE c' = Finish(c)
    BY <1>1, <1>5 DEF Finish, Admits, CType, CoordinatorType
  <1>6. CASE c' = SetWithdrawn(c)
    BY <1>1, <1>6 DEF SetWithdrawn, Admits, CType, CoordinatorType
  <1>7. CASE driver = "takePanic" /\ c' = TakePanic(c)
    BY <1>1, <1>7 DEF TakePanic, Admits, CType, CoordinatorType
  <1>8. CASE \/ \E kind \in PermitKind : Admits(c) /\ c' = Acquire(c, kind)
             \/ \E k \in Tasks \X Ops : Admits(c) /\ Runnable # {} /\ c' = RegisterWait(c, k)
    <2>1. /\ c'.phase = c.phase /\ c'.withdrawn = c.withdrawn /\ c'.fatal = c.fatal
          /\ c'.panic = c.panic /\ c'.panicOpen = c.panicOpen /\ c'.writeFailure = c.writeFailure
      BY <1>3, <1>4, <1>8
    <2>2. QED
      BY <2>1 DEF Admits
  <1>9. QED
    BY <1>2, <1>5, <1>6, <1>7, <1>8 DEF CoordinatorStep

\* A task that delivered its outcome exits; a task that is gone stays gone.
LEMMA PollMoves ==
  ASSUME TypeOK, NEW t \in Tasks, [Next]_vars
  PROVE  /\ poll[t] = "gone" => poll'[t] = "gone"
         /\ poll[t] = "delivered" /\ t = Root =>
              poll'[t] = "delivered" \/ c'.phase = "Finished"
  <1> USE DEF taskVars, driverVars
  <1>a. poll \in [Tasks -> PollState]
    BY DEF TypeOK
  <1>1. ASSUME NEW u \in Tasks, GatewayStep(u)
        PROVE  /\ poll[t] = "gone" => poll'[t] = "gone"
               /\ poll[t] = "delivered" /\ t = Root => poll'[t] = "delivered"
    BY <1>1, <1>a
    DEF GatewayStep, OuterWake, PollEnter, PollBegin, PollPending, PollExhausted, PollLeave,
        Deliver, TaskExits, DropTask
  <1>2. ASSUME NEW u \in Tasks, UserStep(u)
        PROVE  poll'[t] = poll[t] \/ poll[t] = "polling"
    BY <1>2, <1>a
    DEF UserStep, StartWait, ReadRecord, StartBody, EndBody, StartTimer, Proceed, LoseRace,
        SpawnChild, JoinChild, JoinPanic, Awaits, CancelChild, RegisterAbort, RecordFatal,
        TaskEnds, SubmitWrite, QueueWrite, Polling
  <1>3. CASE RootFinish
    BY <1>3, <1>a DEF RootFinish, Finish, TypeOK, CoordinatorType
  <1>4. ASSUME NEW w \in AllWrites, ServiceStep(w) \/ WriteStep(w) PROVE poll' = poll
    BY <1>4
    DEF ServiceStep, ResponseMerged, ResponseFailed, ResponseTokenless, ClientPanics, WriteStep,
        StartWrite, TakeQueued, DropEntry, EndFailure, CollectWakers, WakeWaiter, AnswerCaller,
        ReleaseWrite, UnwindWrite, WriterStops, RecordWriterPanic
  <1>5. ASSUME SchedulerStep \/ DriverStep PROVE poll' = poll
    BY <1>5
    DEF SchedulerStep, SchedulerTakesDue, SchedulerSends, SchedulerAnswered, SchedulerDone,
        SchedulerWakes, DriverStep, DriveStart, DriverCheckFatal, DriverPollRoot,
        DriverCheckPhase, DriverParks, DriverWakes, DropScheduler, DriverFinish, AbortRoot,
        RootAwaited, AbortAll, WaitIdle, ReadFatal, Arbitrate, Answer
  <1>6. ASSUME (\E u \in Tasks : OutsideWake(u)) \/ EndRefreshWrite \/ Returned \/ UNCHANGED vars
        PROVE  poll' = poll
    BY <1>6 DEF OutsideWake, EndRefreshWrite, Returned, vars
  <1>7. QED
    BY <1>1, <1>2, <1>3, <1>4, <1>5, <1>6 DEF Next

\* An outcome is in a slot only when its task delivered it; what was taken
\* from a slot stays taken.
LEMMA SlotMoves ==
  ASSUME TypeOK, NEW t \in Tasks, [Next]_vars
  PROVE  /\ slot'[t] \in {"value", "panic"} => slot'[t] = slot[t] \/ (slot[t] = "empty" /\ Deliver(t))
         /\ slot[t] = "taken" => slot'[t] = "taken"
  <1> USE DEF taskVars, driverVars
  <1>a. slot \in [Tasks -> SlotState] /\ poll \in [Tasks -> PollState]
    BY DEF TypeOK
  <1> DEFINE Claim == /\ slot'[t] \in {"value", "panic"} =>
                           slot'[t] = slot[t] \/ (slot[t] = "empty" /\ Deliver(t))
                      /\ slot[t] = "taken" => slot'[t] = "taken"
  <1>1. ASSUME NEW u \in Tasks, GatewayStep(u) PROVE Claim
    <2>1. CASE Deliver(u)
      BY <1>a, <2>1 DEF Deliver
    <2>2. CASE DropTask(u)
      BY <1>a, <2>2 DEF DropTask, ClosedSlots
    <2>3. CASE slot' = slot
      BY <2>3
    <2>4. QED
      BY <1>1, <2>1, <2>2, <2>3
      DEF GatewayStep, OuterWake, PollEnter, PollBegin, PollPending, PollExhausted, PollLeave,
          TaskExits
  <1>2. ASSUME NEW u \in Tasks, UserStep(u) PROVE Claim
    <2>1. ASSUME NEW v \in OpTasks, JoinChild(u, v) \/ JoinPanic(u, v) \/ CancelChild(u, v)
          PROVE Claim
      BY <1>a, <2>1, TaskFacts DEF JoinChild, JoinPanic, CancelChild, ClosedSlots
    <2>2. ASSUME NEW kind \in {"value", "panic"}, TaskEnds(u, kind) PROVE Claim
      BY <1>a, <2>2 DEF TaskEnds, ClosedSlots
    <2>3. CASE slot' = slot
      BY <2>3
    <2>4. QED
      BY <1>2, <2>1, <2>2, <2>3
      DEF UserStep, StartWait, ReadRecord, StartBody, EndBody, StartTimer, Proceed, LoseRace,
          SpawnChild, RegisterAbort, RecordFatal, SubmitWrite, QueueWrite
  <1>3. ASSUME NEW w \in AllWrites, ServiceStep(w) \/ WriteStep(w) PROVE slot' = slot
    BY <1>3
    DEF ServiceStep, ResponseMerged, ResponseFailed, ResponseTokenless, ClientPanics, WriteStep,
        StartWrite, TakeQueued, DropEntry, EndFailure, CollectWakers, WakeWaiter, AnswerCaller,
        ReleaseWrite, UnwindWrite, WriterStops, RecordWriterPanic
  <1>4. ASSUME SchedulerStep \/ DriverStep PROVE Claim
    <2>1. CASE DriverPollRoot
      BY <1>a, <2>1 DEF DriverPollRoot
    <2>2. CASE AbortRoot
      BY <1>a, <2>2 DEF AbortRoot, ClosedSlots
    <2>3. CASE slot' = slot
      BY <2>3
    <2>4. QED
      BY <1>4, <2>1, <2>2, <2>3
      DEF SchedulerStep, SchedulerTakesDue, SchedulerSends, SchedulerAnswered, SchedulerDone,
          SchedulerWakes, DriverStep, DriveStart, DriverCheckFatal,
          DriverCheckPhase, DriverParks, DriverWakes, DropScheduler, DriverFinish,
          RootAwaited, AbortAll, WaitIdle, ReadFatal, Arbitrate, Answer
  <1>5. ASSUME \/ \E u \in Tasks : OutsideWake(u)
               \/ EndRefreshWrite \/ RootFinish \/ Returned \/ UNCHANGED vars
        PROVE  slot' = slot
    BY <1>5 DEF OutsideWake, EndRefreshWrite, RootFinish, Returned, vars
  <1>6. QED
    BY <1>1, <1>2, <1>3, <1>4, <1>5 DEF Next

LEMMA RefreshMoves ==
  ASSUME TypeOK, [Next]_vars
  PROVE  \/ rf' = rf /\ (wr'[Refresh].st # "free" => wr[Refresh].st # "free")
         \/ SchedulerStep \/ DropScheduler \/ EndRefreshWrite
  <1> USE DEF taskVars, driverVars
  <1>a. /\ wr \in [AllWrites -> Write] /\ Writes \subseteq AllWrites \ {Refresh}
        /\ Refresh \in AllWrites /\ \A t \in Tasks : at[t] \in Future
    BY WriteNames, TaskAssumption DEF TypeOK
  <1>1. ASSUME NEW t \in Tasks, GatewayStep(t) \/ OutsideWake(t) PROVE rf' = rf /\ wr' = wr
    BY <1>1
    DEF GatewayStep, OuterWake, PollEnter, PollBegin, PollPending, PollExhausted, PollLeave,
        Deliver, TaskExits, DropTask, OutsideWake
  <1>2. ASSUME NEW t \in Tasks, UserStep(t)
        PROVE  rf' = rf /\ (wr'[Refresh].st # "free" => wr[Refresh].st # "free")
    <2>1. CASE QueueWrite(t)
      <3>1. at[t].on \in Writes /\ at[t].on \in AllWrites
        BY <1>a, <2>1, FutureSteps, WriteNames DEF QueueWrite, Polling
      <3>2. QED
        BY <1>a, <2>1, <3>1, QueuedFacts DEF QueueWrite
    <2>2. ASSUME NEW w \in Writes, SubmitWrite(t, w) PROVE rf' = rf /\ wr'[Refresh] = wr[Refresh]
      BY <1>a, <2>2 DEF SubmitWrite
    <2>3. QED
      BY <1>2, <2>1, <2>2
      DEF UserStep, StartWait, ReadRecord, StartBody, EndBody, StartTimer, Proceed, LoseRace,
          SpawnChild, JoinChild, JoinPanic, CancelChild, RegisterAbort, RecordFatal, TaskEnds
  <1>3. ASSUME NEW w \in AllWrites, ServiceStep(w)
        PROVE  rf' = rf /\ (wr'[Refresh].st # "free" => wr[Refresh].st # "free")
    BY <1>3, <1>a DEF ServiceStep, ResponseMerged, ResponseFailed, ResponseTokenless, ClientPanics
  <1>4. ASSUME NEW w \in AllWrites, WriteStep(w)
        PROVE  rf' = rf /\ (wr'[Refresh].st # "free" => wr[Refresh].st # "free")
    <2>1. CASE StartWrite(w) \/ DropEntry(w) \/ EndFailure(w) \/ CollectWakers(w)
      BY <1>a, <2>1 DEF StartWrite, DropEntry, EndFailure, CollectWakers
    <2>2. CASE TakeQueued(w)
      BY <1>a, <2>2 DEF TakeQueued, Write
    <2>3. CASE (\E t \in Tasks : WakeWaiter(w, t)) \/ AnswerCaller(w) \/ ReleaseWrite(w)
      BY <1>a, <2>3 DEF WakeWaiter, AnswerCaller, ReleaseWrite, Answered
    <2>4. CASE UnwindWrite(w) \/ RecordWriterPanic(w)
      BY <1>a, <2>4 DEF UnwindWrite, RecordWriterPanic, NoWrite
    <2>5. CASE WriterStops(w)
      BY <1>a, <2>5, WriterStopsFacts DEF WriterStops
    <2>6. QED
      BY <1>4, <2>1, <2>2, <2>3, <2>4, <2>5 DEF WriteStep
  <1>5. ASSUME DriverStep PROVE DropScheduler \/ (rf' = rf /\ wr' = wr)
    BY <1>5
    DEF DriverStep, DriveStart, DriverCheckFatal, DriverPollRoot, DriverCheckPhase,
        DriverParks, DriverWakes, DriverFinish, AbortRoot, RootAwaited, AbortAll, WaitIdle,
        ReadFatal, Arbitrate, Answer
  <1>6. CASE RootFinish \/ Returned \/ UNCHANGED vars
    BY <1>6 DEF RootFinish, Returned, vars
  <1>7. QED
    BY <1>1, <1>2, <1>3, <1>4, <1>5, <1>6 DEF Next

(***************************************************************************)
(* The driver: what its program counter says of the invocation.            *)
(***************************************************************************)
PastIdle == {"readFatal", "takePanic", "answer", "returned"}
PastRoot == PastIdle \cup {"abortAll", "waitIdle"}
PastFinish == PastRoot \cup {"abortRoot", "awaitRoot"}

FinishShape == driver \in PastFinish => c.phase = "Finished"
DroppedShape == rf.st = "dropped" <=> driver \in PastFinish \cup {"finish"}

RootDone == c.phase = "Finished" \/ poll[Root] = "delivered"
Decided == c.fatal # "None" \/ c.panic \/ c.phase # "Running" \/ RootDone
EndShape ==
  /\ driver \in {"dropScheduler", "finish"} => Decided
  /\ slot[Root] \in {"value", "panic"} => RootDone
UnwoundShape ==
  /\ driver \in PastRoot => poll[Root] = "gone"
  /\ driver \in PastIdle => Idle

\* A refresh's write is in flight only while the scheduler waits for it, or
\* after the scheduler was dropped.
RefreshShape == wr[Refresh].st # "free" => rf.st \in {"sending", "dropped"}

DriverInv == FinishShape /\ DroppedShape /\ EndShape /\ UnwoundShape /\ RefreshShape

\* Once the tracker is idle, nothing of the invocation moves any more.
LEMMA StillAtEnd ==
  ASSUME TypeOK, ShapeInv, UnwoundShape, DroppedShape, driver \in PastIdle, [Next]_vars
  PROVE  DriverStep \/ UNCHANGED <<c, sched, poll, at, slot, wr, rf, driver, ended, outcome>>
  <1> USE DEF taskVars, driverVars, PastIdle, PastRoot, PastFinish
  <1>1. \A t \in Tasks : /\ sched[t] \in {"Unspawned", "Done"} /\ poll[t] \in {"off", "gone"}
                         /\ sched[t] # "Unspawned" => poll[t] = "gone"
                         /\ at[t].do \in {"run", "stuck"}
    <2>1. \A t \in Tasks : t # Root => sched[t] = "Unspawned" \/ poll[t] = "gone"
      BY DEF UnwoundShape, Idle, LiveTasks, OpTasks
    <2>2. \A t \in Tasks : sched[t] = "Unspawned" \/ poll[t] = "gone"
      BY <2>1 DEF UnwoundShape
    <2>3. QED
      BY <2>2 DEF ShapeInv, TaskShape, EndedPoll, Run
  <1>2. \A w \in AllWrites : wr[w].st \in {"free", "admitted", "stranded", "done"}
    BY DEF UnwoundShape, Idle, LiveWrites
  <1>3. ASSUME NEW t \in Tasks, GatewayStep(t) PROVE OuterWake(t)
    BY <1>1, <1>3
    DEF GatewayStep, PollEnter, PollBegin, PollPending, PollExhausted, PollLeave,
        Deliver, TaskExits, DropTask
  <1>4. ASSUME NEW t \in Tasks, UserStep(t) PROVE FALSE
    <2>1. poll[t] # "polling"
      BY <1>1
    <2>2. QED
      BY <1>4, <2>1
      DEF UserStep, StartWait, ReadRecord, StartBody, EndBody, StartTimer, Proceed, LoseRace,
          SpawnChild, JoinChild, JoinPanic, Awaits, CancelChild, RegisterAbort, RecordFatal,
          TaskEnds, SubmitWrite, QueueWrite, Polling
  <1>5. ASSUME NEW w \in AllWrites, ServiceStep(w) \/ WriteStep(w) PROVE FALSE
    BY <1>2, <1>5
    DEF ServiceStep, ResponseMerged, ResponseFailed, ResponseTokenless, ClientPanics, WriteStep,
        StartWrite, TakeQueued, DropEntry, EndFailure, CollectWakers, WakeWaiter, AnswerCaller,
        Answered, ReleaseWrite, UnwindWrite, WriterStops, RecordWriterPanic
  <1>6. ~ SchedulerStep
    BY DEF SchedulerStep, SchedulerTakesDue, SchedulerSends, SchedulerAnswered, SchedulerDone,
           SchedulerWakes
  <1>7. ~ RootFinish /\ ~ EndRefreshWrite
    BY <1>1, <1>2, TaskFacts, WriteNames DEF RootFinish, EndRefreshWrite
  <1>8. ASSUME NEW t \in Tasks, OutsideWake(t) PROVE FALSE
    BY <1>1, <1>8 DEF OutsideWake
  <1>9. QED
    BY <1>3, <1>4, <1>5, <1>6, <1>7, <1>8 DEF Next, OuterWake, Returned, vars

LEMMA FinishKept ==
  ASSUME TypeOK, FinishShape, CoordinatorStep, [Next]_vars
  PROVE  FinishShape'
  <1> USE DEF PastFinish, PastRoot, PastIdle
  <1>1. CASE DriverFinish
    BY <1>1 DEF DriverFinish, Finish, FinishShape, TypeOK, CoordinatorType
  <1>2. CASE DriverStep /\ ~ DriverFinish
    BY <1>2, PhaseMoves
    DEF FinishShape, DriverStep, DriveStart, DriverCheckFatal, DriverPollRoot, EndDrive,
        DriverCheckPhase, DriverParks, DriverWakes, DropScheduler, AbortRoot,
        RootAwaited, AbortAll, WaitIdle, ReadFatal, Arbitrate, Answer
  <1>3. CASE UNCHANGED driverVars
    BY <1>3, PhaseMoves DEF FinishShape, driverVars
  <1>4. QED
    BY <1>1, <1>2, <1>3, DriverMoves

LEMMA DroppedKept ==
  ASSUME TypeOK, DroppedShape, [Next]_vars
  PROVE  DroppedShape'
  <1> USE DEF PastFinish, PastRoot, PastIdle, driverVars, taskVars
  <1>a. rf \in Scheduler
    BY DEF TypeOK
  <1>1. CASE DriverStep
    <2>1. CASE DropScheduler
      BY <1>a, <2>1 DEF DropScheduler, DroppedShape, Scheduler
    <2>2. CASE ~ DropScheduler
      <3>1. rf' = rf
        BY <1>1, <2>2
        DEF DriverStep, DriveStart, DriverCheckFatal, DriverPollRoot, DriverCheckPhase,
            DriverParks, DriverWakes, DriverFinish, AbortRoot, RootAwaited, AbortAll, WaitIdle,
            ReadFatal, Arbitrate, Answer
      <3>2. driver' \in PastFinish \cup {"finish"} <=> driver \in PastFinish \cup {"finish"}
        BY <1>1, <2>2
        DEF DriverStep, DriveStart, DriverCheckFatal, DriverPollRoot, EndDrive,
            DriverCheckPhase, DriverParks, DriverWakes, DriverFinish, AbortRoot, RootAwaited,
            AbortAll, WaitIdle, ReadFatal, Arbitrate, Answer
      <3>3. QED
        BY <3>1, <3>2 DEF DroppedShape
    <2>3. QED
      BY <2>1, <2>2
  <1>2. CASE ~ DriverStep
    <2>1. driver' = driver
      BY <1>2, DriverMoves
    <2>2. CASE rf' = rf
      BY <2>1, <2>2 DEF DroppedShape
    <2>3. CASE SchedulerStep \/ EndRefreshWrite
      <3>1. rf.st # "dropped" => rf'.st # "dropped"
        BY <1>a, <2>3
        DEF SchedulerStep, SchedulerTakesDue, SchedulerSends, SchedulerAnswered, SchedulerDone,
            SchedulerWakes, EndRefreshWrite, Scheduler
      <3>2. rf.st = "dropped" => rf'.st = "dropped"
        BY <1>a, <2>3
        DEF DroppedShape, SchedulerStep, SchedulerTakesDue, SchedulerSends, SchedulerAnswered,
            SchedulerDone, SchedulerWakes, EndRefreshWrite, Scheduler
      <3>3. QED
        BY <2>1, <3>1, <3>2 DEF DroppedShape
    <2>4. QED
      BY <1>2, <2>2, <2>3, RefreshMoves DEF DriverStep
  <1>3. QED
    BY <1>1, <1>2

LEMMA EndKept ==
  ASSUME TypeOK, EndShape, CoordinatorStep, [Next]_vars
  PROVE  EndShape'
  <1>a. Root \in Tasks /\ c \in CType
    BY TaskFacts DEF TypeOK, CType
  <1>1. RootDone => RootDone'
    BY <1>a, PollMoves, PhaseMoves DEF RootDone
  <1>2. driver \in {"dropScheduler", "finish"} /\ Decided => Decided'
    BY <1>1, PhaseMoves DEF Decided
  <1>3. slot'[Root] \in {"value", "panic"} => RootDone'
    <2>1. CASE slot'[Root] = slot[Root]
      BY <1>1, <2>1 DEF EndShape
    <2>2. CASE Deliver(Root)
      BY <1>a, <2>2 DEF Deliver, RootDone, TypeOK
    <2>3. QED
      BY <1>a, <2>1, <2>2, SlotMoves
  <1>4. driver' \in {"dropScheduler", "finish"} => Decided'
    <2>1. CASE driver \in {"dropScheduler", "finish"}
      BY <1>2, <2>1 DEF EndShape
    <2>2. CASE driver \notin {"dropScheduler", "finish"} /\ DriverStep
      <3>1. CASE DriverCheckFatal
        BY <1>a, <3>1
        DEF DriverCheckFatal, EndDrive, Decided, CType, CoordinatorType
      <3>2. CASE DriverPollRoot
        BY <1>1, <3>2 DEF DriverPollRoot, EndDrive, EndShape, Decided
      <3>3. CASE DriverCheckPhase
        BY <3>3 DEF DriverCheckPhase, EndDrive, Decided
      <3>4. QED
        BY <2>2, <3>1, <3>2, <3>3
        DEF DriverStep, DriveStart, DriverParks, DriverWakes, DropScheduler, DriverFinish,
            AbortRoot, RootAwaited, AbortAll, WaitIdle, ReadFatal, Arbitrate, Answer
    <2>3. QED
      BY <2>1, <2>2, DriverMoves DEF driverVars
  <1>5. QED
    BY <1>3, <1>4 DEF EndShape

LEMMA UnwoundKept ==
  ASSUME TypeOK, ShapeInv, UnwoundShape, DroppedShape, [Next]_vars
  PROVE  UnwoundShape'
  <1> USE DEF PastIdle, PastRoot, PastFinish
  <1>a. Root \in Tasks
    BY TaskFacts
  <1>1. driver' \in PastRoot => poll'[Root] = "gone"
    <2>1. CASE driver \in PastRoot
      BY <1>a, <2>1, PollMoves DEF UnwoundShape
    <2>2. CASE driver \notin PastRoot /\ DriverStep
      BY <2>2
      DEF DriverStep, DriveStart, DriverCheckFatal, DriverPollRoot, EndDrive, taskVars,
          DriverCheckPhase, DriverParks, DriverWakes, DropScheduler, DriverFinish, AbortRoot,
          RootAwaited, AbortAll, WaitIdle, ReadFatal, Arbitrate, Answer
    <2>3. QED
      BY <2>1, <2>2, DriverMoves DEF driverVars
  <1>2. driver' \in PastIdle => Idle'
    <2>1. CASE driver \in PastIdle
      <3>1. UNCHANGED <<sched, poll, wr>>
        <4>1. CASE DriverStep
          BY <2>1, <4>1
          DEF DriverStep, DriveStart, DriverCheckFatal, DriverPollRoot, EndDrive, taskVars,
              DriverCheckPhase, DriverParks, DriverWakes, DropScheduler, DriverFinish, AbortRoot,
              RootAwaited, AbortAll, WaitIdle, ReadFatal, Arbitrate, Answer
        <4>2. QED
          BY <2>1, <4>1, StillAtEnd
      <3>2. QED
        BY <2>1, <3>1 DEF UnwoundShape, Idle, LiveTasks, LiveWrites
    <2>2. CASE driver \notin PastIdle /\ DriverStep
      BY <2>2
      DEF DriverStep, DriveStart, DriverCheckFatal, DriverPollRoot, EndDrive, taskVars,
          DriverCheckPhase, DriverParks, DriverWakes, DropScheduler, DriverFinish, AbortRoot,
          RootAwaited, AbortAll, WaitIdle, ReadFatal, Arbitrate, Answer, Idle, LiveTasks,
          LiveWrites
    <2>3. QED
      BY <2>1, <2>2, DriverMoves DEF driverVars
  <1>3. QED
    BY <1>1, <1>2 DEF UnwoundShape

LEMMA RefreshKept ==
  ASSUME TypeOK, RefreshShape, [Next]_vars
  PROVE  RefreshShape'
  <1>a. rf \in Scheduler /\ wr \in [AllWrites -> Write] /\ Refresh \in AllWrites
    BY WriteNames DEF TypeOK
  <1>1. CASE rf' = rf /\ (wr'[Refresh].st # "free" => wr[Refresh].st # "free")
    BY <1>1 DEF RefreshShape
  <1>2. CASE SchedulerStep
    BY <1>a, <1>2
    DEF RefreshShape, SchedulerStep, SchedulerTakesDue, SchedulerSends, SchedulerAnswered,
        SchedulerDone, SchedulerWakes, Scheduler
  <1>3. CASE DropScheduler
    BY <1>a, <1>3 DEF RefreshShape, DropScheduler, Scheduler
  <1>4. CASE EndRefreshWrite
    BY <1>a, <1>4 DEF RefreshShape, EndRefreshWrite, NoWrite
  <1>5. QED
    BY <1>1, <1>2, <1>3, <1>4, RefreshMoves

LEMMA InitDriver == Init => DriverInv
  BY WriteNames, TaskFacts
  DEF Init, DriverInv, FinishShape, DroppedShape, EndShape, UnwoundShape, RefreshShape,
      PastFinish, PastRoot, PastIdle, NoWrite

LEMMA NextDriver ==
  ASSUME TypeOK, ShapeInv, DriverInv, CoordinatorStep, [Next]_vars
  PROVE  DriverInv'
  BY FinishKept, DroppedKept, EndKept, UnwoundKept, RefreshKept DEF DriverInv

(***************************************************************************)
(* The decision to suspend.                                                *)
(***************************************************************************)

\* No permits means that nothing holds one.
LEMMA NothingHeld ==
  ASSUME TypeOK, PermitAccounting, NoPermits(c)
  PROVE  /\ Runnable = {} /\ Ending = {} /\ Bodies = {}
         /\ Admitted = {} /\ ~ Refreshing
  <1>1. /\ IsFiniteSet(Runnable) /\ IsFiniteSet(Ending) /\ IsFiniteSet(Bodies)
        /\ IsFiniteSet(Admitted)
    BY TasksAreCounted, FS_Subset, TaskAssumption DEF Admitted
  <1>2. /\ Cardinality(Runnable) \in Nat /\ Cardinality(Ending) \in Nat
        /\ Cardinality(Bodies) \in Nat
    BY <1>1, FS_CardinalityType
  <1>3. /\ Cardinality(Runnable) = 0 /\ Cardinality(Ending) = 0 /\ Cardinality(Bodies) = 0
        /\ Cardinality(Admitted) = 0 /\ ~ Refreshing
    BY <1>2 DEF PermitAccounting, NoPermits
  <1>4. QED
    BY <1>1, <1>3, FS_EmptySet

\* A permit that is held is counted.
LEMMA HeldIsCounted ==
  ASSUME TypeOK, PermitAccounting
  PROVE  /\ Runnable # {} \/ Ending # {} \/ Bodies # {} => c.activity # 0
         /\ Admitted # {} => c.checkpoint # 0
         /\ Refreshing => c.scheduler # 0
  <1>1. /\ IsFiniteSet(Runnable) /\ IsFiniteSet(Ending) /\ IsFiniteSet(Bodies)
        /\ IsFiniteSet(Admitted)
    BY TasksAreCounted, FS_Subset, TaskAssumption DEF Admitted
  <1>2. /\ Cardinality(Runnable) \in Nat /\ Cardinality(Ending) \in Nat
        /\ Cardinality(Bodies) \in Nat
        /\ Cardinality(Runnable) = 0 <=> Runnable = {}
        /\ Cardinality(Ending) = 0 <=> Ending = {}
        /\ Cardinality(Bodies) = 0 <=> Bodies = {}
        /\ Cardinality(Admitted) = 0 <=> Admitted = {}
    BY <1>1, FS_CardinalityType, FS_EmptySet
  <1>3. QED
    BY <1>2 DEF PermitAccounting

\* No step leaves a decision untaken.
LEMMA PromptKept ==
  ASSUME PermitInv, FinishShape, DecisionIsPrompt, CoordinatorStep
  PROVE  DecisionIsPrompt'
  <1>a. c \in CType /\ TypeOK /\ PermitAccounting
    BY DEF PermitInv, TypeOK, CType
  <1>1. CASE Yields(c, c')
    BY <1>1 DEF Yields, DecisionIsPrompt
  <1>2. ASSUME NEW kind \in PermitKind, c' = Acquire(c, kind) PROVE DecisionIsPrompt'
    <2>1. ~ NoPermits(c')
      BY <1>a, <1>2, AcquireFacts DEF NoPermits, PermitKind, CType, CoordinatorType
    <2>2. QED
      BY <2>1 DEF DecisionIsPrompt, MustSuspend
  <1>3. ASSUME NEW k, Runnable # {}, c' = RegisterWait(c, k) PROVE DecisionIsPrompt'
    <2>1. c.activity # 0
      BY <1>a, <1>3, HeldIsCounted
    <2>2. c'.activity = c.activity
      BY <1>a, <1>3 DEF RegisterWait, CType, CoordinatorType
    <2>3. QED
      BY <2>1, <2>2 DEF DecisionIsPrompt, MustSuspend, NoPermits
  <1>4. CASE c' = Finish(c) \/ c' = SetWithdrawn(c)
    BY <1>a, <1>4 DEF Finish, SetWithdrawn, DecisionIsPrompt, MustSuspend, CType, CoordinatorType
  <1>5. CASE driver = "takePanic" /\ c' = TakePanic(c)
    BY <1>a, <1>5
    DEF TakePanic, FinishShape, PastFinish, PastRoot, PastIdle, DecisionIsPrompt, MustSuspend,
        CType, CoordinatorType
  <1>6. QED
    BY <1>1, <1>2, <1>3, <1>4, <1>5 DEF CoordinatorStep

\* An invocation that suspends holds no permit, and no refresh is open.
Quiet ==
  c.phase = "Suspending" /\ ~ c.withdrawn => NoPermits(c) /\ wr[Refresh].st = "free"

\* The step that decides to suspend finds no refresh whose scheduler was
\* dropped: the drive goes on until the decision.
LEMMA DecidingIsQuiet ==
  ASSUME PermitInv, PermitInv', DriverInv, DriverInv', DecidesBy(c, c'), [Next]_vars,
         c'.phase = "Suspending"
  PROVE  wr'[Refresh].st = "free"
  <1>a. /\ TypeOK /\ TypeOK' /\ PermitAccounting' /\ NoPermits(c') /\ Root \in Tasks
        /\ DroppedShape' /\ FinishShape' /\ RefreshShape' /\ EndShape
    BY TaskFacts DEF PermitInv, DriverInv, DecidesBy
  <1>1. SUFFICES ASSUME wr'[Refresh].st # "free" PROVE FALSE
    OBVIOUS
  <1>2. rf'.st # "sending"
    BY <1>a DEF PermitAccounting, NoPermits, Refreshing
  <1>3. driver' = "finish"
    BY <1>a, <1>1, <1>2 DEF RefreshShape, DroppedShape, FinishShape
  <1>4. driver \in {"dropScheduler", "finish"}
    BY <1>3, DriverMoves
    DEF DriverStep, DriveStart, DriverCheckFatal, DriverPollRoot, EndDrive, DriverCheckPhase,
        DriverParks, DriverWakes, DropScheduler, DriverFinish, AbortRoot, RootAwaited, AbortAll,
        WaitIdle, ReadFatal, Arbitrate, Answer, driverVars
  <1>5. poll[Root] = "delivered"
    BY <1>a, <1>4 DEF EndShape, Decided, RootDone, DecidesBy
  <1>6. poll'[Root] = "delivered"
    BY <1>a, <1>5, PollMoves
  <1>7. Root \in Ending'
    BY <1>a, <1>6 DEF Ending
  <1>8. c'.activity # 0
    <2>1. IsFiniteSet(Ending') /\ IsFiniteSet(Runnable') /\ IsFiniteSet(Bodies')
      BY FS_Subset, TaskAssumption DEF Ending, Runnable, Bodies
    <2>2. /\ Cardinality(Ending') \in Nat /\ Cardinality(Ending') # 0
          /\ Cardinality(Runnable') \in Nat /\ Cardinality(Bodies') \in Nat
      BY <1>7, <2>1, FS_CardinalityType, FS_EmptySet
    <2>3. c'.activity = Cardinality(Runnable') + Cardinality(Ending') + Cardinality(Bodies')
      BY <1>a DEF PermitAccounting
    <2>4. QED
      BY <2>2, <2>3
  <1>9. QED
    BY <1>a, <1>8 DEF NoPermits

\* The refresh's write is queued only while permits are granted.
LEMMA RefreshStarts ==
  ASSUME TypeOK, [Next]_vars, wr[Refresh].st = "free", wr'[Refresh].st # "free"
  PROVE  Admits(c) /\ c' = Acquire(c, "scheduler")
  <1>a. wr \in [AllWrites -> Write] /\ Refresh \in AllWrites
    BY WriteNames DEF TypeOK
  <1>1. ~ DropScheduler /\ ~ EndRefreshWrite
    BY <1>a DEF DropScheduler, EndRefreshWrite, NoWrite
  <1>2. SchedulerStep
    BY <1>1, RefreshMoves
  <1>3. QED
    BY <1>2
    DEF SchedulerStep, SchedulerTakesDue, SchedulerSends, SchedulerAnswered, SchedulerDone,
        SchedulerWakes, Grants

LEMMA QuietKept ==
  ASSUME PermitInv, PermitInv', DriverInv, DriverInv', Quiet, CoordinatorStep, [Next]_vars
  PROVE  Quiet'
  <1>a. /\ c \in CType /\ c' \in CType /\ TypeOK /\ FinishShape
        /\ c.activity \in Nat /\ c.checkpoint \in Nat /\ c.scheduler \in Nat
        /\ c'.activity \in Nat /\ c'.checkpoint \in Nat /\ c'.scheduler \in Nat
    BY DEF PermitInv, DriverInv, TypeOK, CType, CoordinatorType
  <1>1. SUFFICES ASSUME c'.phase = "Suspending", ~ c'.withdrawn
                 PROVE  NoPermits(c') /\ wr'[Refresh].st = "free"
    BY DEF Quiet
  <1>2. CASE Yields(c, c') /\ c.phase = "Suspending"
    <2>1. NoPermits(c) /\ wr[Refresh].st = "free"
      BY <1>1, <1>2 DEF Quiet, Yields
    <2>2. NoPermits(c')
      BY <1>a, <1>2, <2>1 DEF Yields, NoPermits
    <2>3. ~ Admits(c)
      BY <1>2 DEF Admits
    <2>4. QED
      BY <1>a, <2>1, <2>2, <2>3, RefreshStarts
  <1>3. CASE Yields(c, c') /\ c.phase # "Suspending"
    <2>1. DecidesBy(c, c')
      BY <1>1, <1>3 DEF Yields
    <2>2. QED
      BY <1>1, <2>1, DecidingIsQuiet DEF DecidesBy
  <1>4. ASSUME NEW kind \in PermitKind, Admits(c), c' = Acquire(c, kind) PROVE FALSE
    BY <1>a, <1>1, <1>4, AcquireFacts DEF Admits
  <1>5. ASSUME NEW k, Admits(c), c' = RegisterWait(c, k) PROVE FALSE
    BY <1>a, <1>1, <1>5 DEF RegisterWait, Admits, CType, CoordinatorType
  <1>6. CASE c' = Finish(c) \/ c' = SetWithdrawn(c)
    BY <1>a, <1>1, <1>6 DEF Finish, SetWithdrawn, CType, CoordinatorType
  <1>7. CASE driver = "takePanic" /\ c' = TakePanic(c)
    BY <1>a, <1>1, <1>7
    DEF TakePanic, FinishShape, PastFinish, PastRoot, PastIdle, CType, CoordinatorType
  <1>8. QED
    BY <1>2, <1>3, <1>4, <1>5, <1>6, <1>7 DEF CoordinatorStep

(***************************************************************************)
(* The wakes of the operations that wait for a record.                     *)
(***************************************************************************)
Waker(w, t) ==
  \/ wr[w].st = "waking" /\ t \in wr[w].wake
  \/ wr[w].st = "merged" /\ at[t].on \in wr[w].ops

\* A task that waits for a record that is there is about to be woken.
WaitsAreWoken ==
  \A t \in Tasks :
    c.phase # "Finished" /\ ~ c.withdrawn /\ sched[t] \in {"Idle", "Polling"}
      /\ at[t].do = "wait" /\ at[t].on \in log
    => \E w \in AllWrites : Waker(w, t)

\* A future waits because it already did, or because what it waits for is not
\* there.
LEMMA WaitMoves ==
  ASSUME TypeOK, ShapeInv, NEW t \in Tasks, [Next]_vars,
         at'[t].do \in {"wait", "join"}, sched'[t] \in {"Idle", "Polling"}
  PROVE  \/ at'[t] = at[t] /\ sched[t] \in {"Idle", "Polling"}
         \/ at'[t].do = "wait" /\ at'[t].on \notin log /\ log' = log
         \/ at'[t].do = "join" /\ slot[at'[t].on] \notin {"value", "panic"} /\ slot' = slot
  <1> USE DEF taskVars, driverVars
  <1>a. /\ at \in [Tasks -> Future] /\ sched \in [Tasks -> SchedState] /\ TaskShape(t)
    BY DEF TypeOK, ShapeInv
  <1> DEFINE Claim == \/ at'[t] = at[t] /\ sched[t] \in {"Idle", "Polling"}
                      \/ at'[t].do = "wait" /\ at'[t].on \notin log /\ log' = log
                      \/ /\ at'[t].do = "join" /\ slot' = slot
                         /\ slot[at'[t].on] \notin {"value", "panic"}
  <1>b. ASSUME at'[t] = at[t], sched'[t] = sched[t] PROVE Claim
    BY <1>b
  <1>c. ASSUME NEW u \in Tasks, OnWake(u), at'[t] = at[t] PROVE Claim
    BY <1>c, OnWakeFacts
  <1>1. ASSUME NEW u \in Tasks, GatewayStep(u) PROVE Claim
    <2>1. CASE Deliver(u)
      <3>1. CASE slot[u] = "empty" /\ ReaderWaits(u)
        <4>1. PICK p \in Tasks : OnWake(p)
          BY <2>1, <3>1 DEF Deliver, ReaderWaits, TypeOK
        <4>2. QED
          BY <1>c, <2>1, <4>1 DEF Deliver
      <3>2. CASE ~ (slot[u] = "empty" /\ ReaderWaits(u))
        BY <1>b, <2>1, <3>2 DEF Deliver
      <3>3. QED
        BY <3>1, <3>2
    <2>2. CASE PollBegin(u)
      BY <1>a, <2>2 DEF PollBegin, Resumed, Future, TaskShape
    <2>3. CASE PollPending(u) \/ PollExhausted(u) \/ DropTask(u)
      BY <1>a, <2>3 DEF PollPending, PollExhausted, DropTask, Stuck, TaskShape, Future
    <2>4. CASE OuterWake(u) \/ PollEnter(u) \/ PollLeave(u) \/ TaskExits(u)
      BY <1>b, <2>4 DEF OuterWake, PollEnter, PollLeave, TaskExits
    <2>5. QED
      BY <1>1, <2>1, <2>2, <2>3, <2>4 DEF GatewayStep
  <1>2. ASSUME NEW u \in Tasks, UserStep(u) PROVE Claim
    <2>1. CASE ReadRecord(u)
      BY <1>a, <2>1 DEF ReadRecord, Polling, Goto, Run
    <2>2. ASSUME NEW v \in OpTasks, SpawnChild(u, v) PROVE Claim
      BY <1>a, <2>2, TaskFacts DEF SpawnChild, Polling, Goto, Stuck
    <2>3. ASSUME NEW v \in OpTasks, JoinChild(u, v) \/ JoinPanic(u, v) \/ CancelChild(u, v)
          PROVE  Claim
      BY <1>a, <2>3 DEF JoinChild, JoinPanic, CancelChild, Goto, Run
    <2>4. ASSUME NEW kind \in {"value", "panic"}, TaskEnds(u, kind) PROVE Claim
      BY <1>a, <2>4 DEF TaskEnds
    <2>5. ASSUME NEW o \in Ops, StartWait(u, o) PROVE Claim
      BY <1>a, <2>5 DEF StartWait, Goto, Stuck
    <2>6. ASSUME NEW w \in Writes, SubmitWrite(u, w) PROVE Claim
      BY <1>a, <2>6 DEF SubmitWrite, Goto, Stuck
    <2>7. CASE StartBody(u) \/ EndBody(u) \/ StartTimer(u) \/ Proceed(u) \/ QueueWrite(u)
      BY <1>a, <2>7 DEF StartBody, EndBody, StartTimer, Proceed, QueueWrite, Goto, Run, Stuck
    <2>8. CASE LoseRace(u) \/ RegisterAbort(u) \/ \E severity \in Severity : RecordFatal(u, severity)
      BY <1>a, <2>8 DEF LoseRace, RegisterAbort, RecordFatal, Goto, Run, Stuck
    <2>9. QED
      BY <1>2, <2>1, <2>2, <2>3, <2>4, <2>5, <2>6, <2>7, <2>8 DEF UserStep
  <1>3. ASSUME NEW w \in AllWrites, ServiceStep(w) \/ WriteStep(w) PROVE Claim
    <2>1. ASSUME NEW u \in Tasks, WakeWaiter(w, u) PROVE Claim
      BY <1>c, <2>1 DEF WakeWaiter
    <2>2. CASE AnswerCaller(w)
      <3>1. CASE UNCHANGED <<c, sched, tokio, at>>
        BY <1>b, <3>1
      <3>2. ASSUME NEW u \in Callers(w), OnWake(u),
                   Goto(u, IF Answered(w) THEN [at[u] EXCEPT !.do = "written"] ELSE Stuck)
            PROVE  Claim
        <4>1. u \in Tasks /\ at'[u].do \notin {"wait", "join"} /\ \A v \in Tasks \ {u} : at'[v] = at[v]
          BY <1>a, <3>2 DEF Callers, Goto, Stuck, Future
        <4>2. QED
          BY <1>c, <3>2, <4>1
      <3>3. QED
        BY <2>2, <3>1, <3>2 DEF AnswerCaller
    <2>3. QED
      BY <1>3, <1>b, <2>1, <2>2
      DEF ServiceStep, ResponseMerged, ResponseFailed, ResponseTokenless, ClientPanics, WriteStep,
          StartWrite, TakeQueued, DropEntry, EndFailure, CollectWakers, ReleaseWrite,
          UnwindWrite, WriterStops, RecordWriterPanic
  <1>4. CASE SchedulerStep
    <2>1. ASSUME NEW u \in Tasks, SchedulerWakes(u) PROVE Claim
      BY <1>c, <2>1 DEF SchedulerWakes
    <2>2. QED
      BY <1>4, <1>b, <2>1
      DEF SchedulerStep, SchedulerTakesDue, SchedulerSends, SchedulerAnswered, SchedulerDone
  <1>5. CASE DriverStep
    <2>1. CASE DriveStart
      <3>1. sched[Root] = "Unspawned" /\ at' = at /\ at[Root] = Run
        BY <2>1, TaskFacts DEF DriveStart, ShapeInv, LinkShape, StartShape, TaskShape
      <3>2. QED
        BY <1>a, <1>b, <2>1, <3>1 DEF DriveStart, Run
    <2>2. QED
      BY <1>5, <1>b, <2>1
      DEF DriverStep, DriverCheckFatal, DriverPollRoot, DriverCheckPhase,
          DriverParks, DriverWakes, DropScheduler, DriverFinish, AbortRoot, RootAwaited,
          AbortAll, WaitIdle, ReadFatal, Arbitrate, Answer
  <1>6. ASSUME NEW u \in Tasks, OutsideWake(u) PROVE Claim
    <2>1. at'[u].do \notin {"wait", "join"} /\ \A v \in Tasks \ {u} : at'[v] = at[v]
      BY <1>6, <1>a DEF OutsideWake, Future
    <2>2. QED
      BY <1>6, <1>c, <2>1 DEF OutsideWake
  <1>7. CASE RootFinish \/ EndRefreshWrite \/ Returned \/ UNCHANGED vars
    BY <1>7, <1>b DEF RootFinish, EndRefreshWrite, Returned, vars
  <1>8. QED
    BY <1>1, <1>2, <1>3, <1>4, <1>5, <1>6, <1>7 DEF Next

\* What is about to wake a waiting task goes on to do it.
LEMMA WakerMoves ==
  ASSUME TypeOK, ShapeInv, RefreshShape, NEW t \in Tasks, NEW w \in AllWrites, Waker(w, t),
         at[t].do = "wait", at'[t] = at[t], [Next]_vars
  PROVE  Waker(w, t)' \/ WakeWaiter(w, t)
  <1> USE DEF taskVars, driverVars
  <1>a. /\ wr \in [AllWrites -> Write] /\ Refresh \in AllWrites /\ Writes \subseteq AllWrites
        /\ \A u \in Tasks : at[u] \in Future
    BY WriteNames DEF TypeOK
  <1>b. wr'[w] = wr[w] => Waker(w, t)'
    BY DEF Waker
  <1>1. ASSUME NEW u \in Tasks, GatewayStep(u) \/ OutsideWake(u) PROVE wr' = wr
    BY <1>1
    DEF GatewayStep, OuterWake, PollEnter, PollBegin, PollPending, PollExhausted, PollLeave,
        Deliver, TaskExits, DropTask, OutsideWake
  <1>2. ASSUME NEW u \in Tasks, UserStep(u) PROVE wr'[w] = wr[w]
    <2>1. CASE QueueWrite(u)
      <3>1. at[u].on \in Writes /\ wr[at[u].on].st = "admitted"
        BY <1>a, <2>1, FutureSteps DEF QueueWrite, Polling, ShapeInv, LinkShape, SubmitShape
      <3>2. wr[w].st \notin {"admitted", "stranded"} /\ at[u].on \in AllWrites
        BY <1>a, <3>1 DEF Waker
      <3>3. QED
        BY <1>a, <2>1, <3>1, <3>2, QueuedFacts DEF QueueWrite
    <2>2. ASSUME NEW v \in Writes, SubmitWrite(u, v) PROVE wr'[w] = wr[w]
      BY <1>a, <2>2 DEF SubmitWrite, Waker
    <2>3. QED
      BY <1>2, <2>1, <2>2
      DEF UserStep, StartWait, ReadRecord, StartBody, EndBody, StartTimer, Proceed, LoseRace,
          SpawnChild, JoinChild, JoinPanic, CancelChild, RegisterAbort, RecordFatal, TaskEnds
  <1>3. ASSUME NEW v \in AllWrites, ServiceStep(v) PROVE wr'[w] = wr[w]
    BY <1>3, <1>a
    DEF ServiceStep, ResponseMerged, ResponseFailed, ResponseTokenless, ClientPanics, Waker
  <1>4. ASSUME NEW v \in AllWrites, WriteStep(v) PROVE Waker(w, t)' \/ WakeWaiter(w, t)
    <2>1. CASE StartWrite(v) \/ DropEntry(v) \/ EndFailure(v) \/ ReleaseWrite(v)
      BY <1>a, <1>b, <2>1 DEF StartWrite, DropEntry, EndFailure, ReleaseWrite, Waker
    <2>2. CASE TakeQueued(v)
      BY <1>a, <1>b, <2>2 DEF TakeQueued, Waker
    <2>3. CASE CollectWakers(v) /\ v # w
      BY <1>a, <1>b, <2>3 DEF CollectWakers
    <2>4. CASE CollectWakers(v) /\ v = w
      <3>1. at[t].on \in wr[w].ops /\ at[t].on \in Ops
        BY <1>a, <2>4, FutureSteps DEF CollectWakers, Waker
      <3>2. Key(t, at[t].on) \in c.waits
        BY <3>1 DEF ShapeInv, LinkShape, WaitShape
      <3>3. wr'[w].st = "waking" /\ t \in wr'[w].wake
        BY <1>a, <2>4, <3>1, <3>2 DEF CollectWakers, Write
      <3>4. QED
        BY <3>3 DEF Waker
    <2>5. ASSUME NEW u \in Tasks, WakeWaiter(v, u) PROVE Waker(w, t)' \/ WakeWaiter(w, t)
      <3>1. CASE v # w
        BY <1>a, <1>b, <2>5, <3>1 DEF WakeWaiter
      <3>2. CASE v = w /\ u = t
        BY <2>5, <3>2
      <3>3. CASE v = w /\ u # t
        BY <1>a, <2>5, <3>3 DEF WakeWaiter, Waker, Write
      <3>4. QED
        BY <3>1, <3>2, <3>3
    <2>6. CASE AnswerCaller(v)
      BY <1>a, <1>b, <2>6 DEF AnswerCaller, Answered, Waker
    <2>7. CASE UnwindWrite(v) \/ RecordWriterPanic(v)
      BY <1>a, <1>b, <2>7 DEF UnwindWrite, RecordWriterPanic, Waker
    <2>8. CASE WriterStops(v)
      <3>1. wr[w].st \notin {"unwound", "queued"}
        BY DEF Waker
      <3>2. QED
        BY <1>b, <2>8, <3>1, WriterStopsFacts
    <2>9. QED
      BY <1>4, <2>1, <2>2, <2>3, <2>4, <2>5, <2>6, <2>7, <2>8 DEF WriteStep
  <1>5. CASE SchedulerStep
    <2>1. CASE SchedulerSends
      <3>1. w # Refresh /\ wr[w].st # "stranded"
        BY <2>1 DEF SchedulerSends, RefreshShape, Waker
      <3>2. QED
        BY <1>a, <1>b, <2>1, <3>1, QueuedFacts DEF SchedulerSends
    <2>2. QED
      BY <1>5, <1>b, <2>1
      DEF SchedulerStep, SchedulerTakesDue, SchedulerAnswered, SchedulerDone, SchedulerWakes
  <1>6. CASE DriverStep
    BY <1>6, <1>b
    DEF DriverStep, DriveStart, DriverCheckFatal, DriverPollRoot, DriverCheckPhase,
        DriverParks, DriverWakes, DropScheduler, DriverFinish, AbortRoot, RootAwaited, AbortAll,
        WaitIdle, ReadFatal, Arbitrate, Answer
  <1>7. CASE EndRefreshWrite
    BY <1>7, <1>a, <1>b DEF EndRefreshWrite, Waker
  <1>8. CASE RootFinish \/ Returned \/ UNCHANGED vars
    BY <1>8, <1>b DEF RootFinish, Returned, vars
  <1>9. QED
    BY <1>1, <1>2, <1>3, <1>4, <1>5, <1>6, <1>7, <1>8, <1>b DEF Next

\* Only a response that is merged makes a record ready, and it wakes for it.
LEMMA LogMoves ==
  ASSUME TypeOK, NEW o \in log' \ log, [Next]_vars
  PROVE  \E w \in AllWrites : wr'[w].st = "merged" /\ o \in wr'[w].ops
  <1> USE DEF taskVars, driverVars
  <1>a. wr \in [AllWrites -> Write]
    BY DEF TypeOK
  <1>1. ASSUME NEW w \in AllWrites, NEW ready \in SUBSET (Ops \ log), ResponseMerged(w, ready)
        PROVE  wr'[w].st = "merged" /\ o \in wr'[w].ops
    BY <1>1, <1>a DEF ResponseMerged, Write
  <1>2. ASSUME NEW w \in AllWrites, ServiceStep(w) \/ WriteStep(w)
        PROVE  log' = log \/ \E ready \in SUBSET (Ops \ log) : ResponseMerged(w, ready)
    BY <1>2
    DEF ServiceStep, ResponseFailed, ResponseTokenless, ClientPanics, WriteStep, StartWrite,
        TakeQueued, DropEntry, EndFailure, CollectWakers, WakeWaiter, AnswerCaller, ReleaseWrite,
        UnwindWrite, WriterStops, RecordWriterPanic
  <1>3. ASSUME NEW t \in Tasks, GatewayStep(t) \/ OutsideWake(t) PROVE log' = log
    BY <1>3
    DEF GatewayStep, OuterWake, PollEnter, PollBegin, PollPending, PollExhausted, PollLeave,
        Deliver, TaskExits, DropTask, OutsideWake
  <1>4. ASSUME NEW t \in Tasks, UserStep(t) PROVE log' = log
    BY <1>4
    DEF UserStep, StartWait, ReadRecord, StartBody, EndBody, StartTimer, Proceed, LoseRace,
        SpawnChild, JoinChild, JoinPanic, CancelChild, RegisterAbort, RecordFatal,
        TaskEnds, SubmitWrite, QueueWrite
  <1>5. ASSUME SchedulerStep \/ DriverStep PROVE log' = log
    BY <1>5
    DEF SchedulerStep, SchedulerTakesDue, SchedulerSends, SchedulerAnswered, SchedulerDone,
        SchedulerWakes, DriverStep, DriveStart, DriverCheckFatal, DriverPollRoot,
        DriverCheckPhase, DriverParks, DriverWakes, DropScheduler, DriverFinish, AbortRoot,
        RootAwaited, AbortAll, WaitIdle, ReadFatal, Arbitrate, Answer
  <1>6. CASE RootFinish \/ EndRefreshWrite \/ Returned \/ UNCHANGED vars
    BY <1>6 DEF RootFinish, EndRefreshWrite, Returned, vars
  <1>7. QED
    BY <1>1, <1>2, <1>3, <1>4, <1>5, <1>6 DEF Next

\* While nothing is permitted, no write is about to wake anybody.
LEMMA NobodyWakes ==
  ASSUME PermitInv, Quiet, c.phase = "Suspending", ~ c.withdrawn, NEW w \in AllWrites
  PROVE  wr[w].st \notin {"waking", "merged"}
  <1>1. NoPermits(c) /\ wr[Refresh].st = "free" /\ Admitted = {}
    BY NothingHeld DEF Quiet, PermitInv
  <1>2. QED
    BY <1>1 DEF Admitted, AllWrites

LEMMA WaitsKept ==
  ASSUME PermitInv, Quiet, RefreshShape, WaitsAreWoken, CoordinatorStep, [Next]_vars
  PROVE  WaitsAreWoken'
  <1>a. TypeOK /\ ShapeInv /\ c.phase \in Phase
    BY DEF PermitInv, TypeOK, CoordinatorType
  <1>1. SUFFICES ASSUME NEW t \in Tasks, c'.phase # "Finished", ~ c'.withdrawn,
                        sched'[t] \in {"Idle", "Polling"}, at'[t].do = "wait",
                        at'[t].on \in log'
                 PROVE  \E w \in AllWrites : Waker(w, t)'
    BY DEF WaitsAreWoken
  <1>2. c.phase # "Finished" /\ ~ c.withdrawn
    BY <1>a, <1>1, PhaseMoves
  <1>3. at'[t] = at[t] /\ sched[t] \in {"Idle", "Polling"}
    <2>1. \/ at'[t] = at[t] /\ sched[t] \in {"Idle", "Polling"}
          \/ at'[t].on \notin log /\ log' = log
      BY <1>a, <1>1, WaitMoves
    <2>2. QED
      BY <1>1, <2>1
  <1>4. CASE at[t].on \notin log
    BY <1>a, <1>1, <1>3, <1>4, LogMoves DEF Waker
  <1>5. CASE at[t].on \in log
    <2>1. PICK w \in AllWrites : Waker(w, t)
      BY <1>1, <1>2, <1>3, <1>5 DEF WaitsAreWoken
    <2>2. CASE WakeWaiter(w, t)
      <3>1. sched[t] = "Idle" /\ ~ Admits(c)
        BY <1>a, <1>1, <2>2, OnWakeFacts DEF WakeWaiter
      <3>2. c.phase = "Suspending" /\ wr[w].st = "waking"
        BY <1>a, <1>2, <2>2, <3>1 DEF Admits, Phase, WakeWaiter
      <3>3. QED
        BY <1>2, <3>2, NobodyWakes
    <2>3. QED
      BY <1>a, <1>1, <1>3, <2>1, <2>2, WakerMoves
  <1>6. QED
    BY <1>4, <1>5

(***************************************************************************)
(* The polls of the tasks that can go on.                                  *)
(***************************************************************************)
Ready == {"run", "bodyDone", "written", "fired"}
Coming(t) ==
  t \in tokio.called \cup tokio.notified \cup tracker.aborted \/ poll[t] = "entered"

\* An idle task has nothing to go on with, nor an outcome to take, and a
\* task that holds a permit for its next poll is on its way to it.
ReadyIsQueued ==
  \A t \in Tasks : Admits(c) /\ sched[t] = "Idle" => at[t].do \notin Ready
JoinsAreWoken ==
  \A t \in Tasks :
    Admits(c) /\ sched[t] \in {"Idle", "Polling"} /\ at[t].do = "join"
    => slot[at[t].on] \notin {"value", "panic"}
QueuedIsComing ==
  \A t \in Tasks : sched[t] \in {"Queued", "Woken"} => Coming(t)

LEMMA ReadyMoves ==
  ASSUME TypeOK, ShapeInv, NEW t \in Tasks, [Next]_vars,
         Admits(c'), sched'[t] = "Idle", at'[t].do \in Ready
  PROVE  sched[t] = "Idle" /\ at[t].do \in Ready
  <1> USE DEF taskVars, driverVars
  <1>a. /\ at \in [Tasks -> Future] /\ sched \in [Tasks -> SchedState] /\ TaskShape(t)
    BY DEF TypeOK, ShapeInv
  <1> DEFINE Claim == sched[t] = "Idle" /\ at[t].do \in Ready
  <1>b. ASSUME at'[t] = at[t], sched'[t] = sched[t] PROVE Claim
    BY <1>b
  <1>c. ASSUME NEW u \in Tasks, OnWake(u), at'[t] = at[t] PROVE Claim
    BY <1>c, OnWakeFacts
  <1>d. ASSUME NEW u \in Tasks, OnWake(u), \A v \in Tasks \ {u} : at'[v] = at[v] PROVE Claim
    <2>1. sched'[u] # "Idle"
      BY <1>d, OnWakeFacts
    <2>2. CASE u = t
      BY <2>1, <2>2
    <2>3. CASE u # t
      BY <1>c, <1>d, <2>3
    <2>4. QED
      BY <2>2, <2>3
  <1>1. ASSUME NEW u \in Tasks, GatewayStep(u) PROVE Claim
    <2>1. CASE Deliver(u)
      <3>1. CASE slot[u] = "empty" /\ ReaderWaits(u)
        <4>1. PICK p \in Tasks : OnWake(p)
          BY <2>1, <3>1 DEF Deliver, ReaderWaits, TypeOK
        <4>2. QED
          BY <1>c, <2>1, <4>1 DEF Deliver
      <3>2. CASE ~ (slot[u] = "empty" /\ ReaderWaits(u))
        BY <1>b, <2>1, <3>2 DEF Deliver
      <3>3. QED
        BY <3>1, <3>2
    <2>2. CASE PollBegin(u)
      BY <1>a, <2>2 DEF PollBegin
    <2>3. CASE PollPending(u) \/ PollExhausted(u) \/ DropTask(u)
      BY <1>a, <2>3 DEF PollPending, PollExhausted, DropTask, Suspended, Ready
    <2>4. CASE OuterWake(u) \/ PollEnter(u) \/ PollLeave(u) \/ TaskExits(u)
      BY <1>b, <2>4 DEF OuterWake, PollEnter, PollLeave, TaskExits
    <2>5. QED
      BY <1>1, <2>1, <2>2, <2>3, <2>4 DEF GatewayStep
  <1>2. ASSUME NEW u \in Tasks, UserStep(u) PROVE Claim
    <2>1. poll[u] = "polling"
      BY <1>2
      DEF UserStep, StartWait, ReadRecord, StartBody, EndBody, StartTimer, Proceed, LoseRace,
          SpawnChild, JoinChild, JoinPanic, Awaits, CancelChild, RegisterAbort, RecordFatal,
          TaskEnds, SubmitWrite, QueueWrite, Polling
    <2>2. sched[u] \in {"Polling", "Woken"}
      BY <2>1 DEF ShapeInv, TaskShape
    <2>3. \A v \in Tasks \ {u} : at'[v] = at[v]
      BY <1>2, <1>a
      DEF UserStep, StartWait, ReadRecord, StartBody, EndBody, StartTimer, Proceed, LoseRace,
          SpawnChild, JoinChild, JoinPanic, CancelChild, RegisterAbort, RecordFatal,
          TaskEnds, SubmitWrite, QueueWrite, Goto
    <2>4. ASSUME NEW v \in OpTasks, SpawnChild(u, v)
          PROVE  \A x \in Tasks : sched'[x] = sched[x] \/ sched'[x] # "Idle"
      BY <1>a, <2>4 DEF SpawnChild
    <2>5. ASSUME NEW v \in OpTasks, JoinPanic(u, v)
          PROVE  \A x \in Tasks : sched'[x] = sched[x] \/ sched'[x] # "Idle"
      BY <1>a, <2>5 DEF JoinPanic
    <2>6. ASSUME NEW kind \in {"value", "panic"}, TaskEnds(u, kind)
          PROVE  \A x \in Tasks : sched'[x] = sched[x] \/ sched'[x] # "Idle"
      BY <1>a, <2>6 DEF TaskEnds
    <2>7. sched'[t] = sched[t] \/ sched'[t] # "Idle"
      BY <1>2, <2>4, <2>5, <2>6
      DEF UserStep, StartWait, ReadRecord, StartBody, EndBody, StartTimer, Proceed, LoseRace,
          JoinChild, CancelChild, RegisterAbort, RecordFatal, SubmitWrite, QueueWrite
    <2>8. QED
      BY <1>b, <2>2, <2>3, <2>7
  <1>3. ASSUME NEW w \in AllWrites, ServiceStep(w) \/ WriteStep(w) PROVE Claim
    <2>1. ASSUME NEW u \in Tasks, WakeWaiter(w, u) PROVE Claim
      BY <1>c, <2>1 DEF WakeWaiter
    <2>2. CASE AnswerCaller(w)
      <3>1. CASE UNCHANGED <<c, sched, tokio, at>>
        BY <1>b, <3>1
      <3>2. ASSUME NEW u \in Callers(w), OnWake(u),
                   Goto(u, IF Answered(w) THEN [at[u] EXCEPT !.do = "written"] ELSE Stuck)
            PROVE  Claim
        <4>1. u \in Tasks /\ \A v \in Tasks \ {u} : at'[v] = at[v]
          BY <1>a, <3>2 DEF Callers, Goto
        <4>2. QED
          BY <1>d, <3>2, <4>1
      <3>3. QED
        BY <2>2, <3>1, <3>2 DEF AnswerCaller
    <2>3. QED
      BY <1>3, <1>b, <2>1, <2>2
      DEF ServiceStep, ResponseMerged, ResponseFailed, ResponseTokenless, ClientPanics, WriteStep,
          StartWrite, TakeQueued, DropEntry, EndFailure, CollectWakers, ReleaseWrite,
          UnwindWrite, WriterStops, RecordWriterPanic
  <1>4. CASE SchedulerStep
    <2>1. ASSUME NEW u \in Tasks, SchedulerWakes(u) PROVE Claim
      BY <1>c, <2>1 DEF SchedulerWakes
    <2>2. QED
      BY <1>4, <1>b, <2>1
      DEF SchedulerStep, SchedulerTakesDue, SchedulerSends, SchedulerAnswered, SchedulerDone
  <1>5. CASE DriverStep
    <2>1. CASE DriveStart
      <3>1. sched'[Root] # "Idle" /\ at' = at /\ \A v \in Tasks \ {Root} : sched'[v] = sched[v]
        BY <1>a, <2>1, TaskFacts DEF DriveStart, Grants
      <3>2. QED
        BY <1>b, <3>1
    <2>2. QED
      BY <1>5, <1>b, <2>1
      DEF DriverStep, DriverCheckFatal, DriverPollRoot, DriverCheckPhase,
          DriverParks, DriverWakes, DropScheduler, DriverFinish, AbortRoot, RootAwaited,
          AbortAll, WaitIdle, ReadFatal, Arbitrate, Answer
  <1>6. ASSUME NEW u \in Tasks, OutsideWake(u) PROVE Claim
    BY <1>6, <1>a, <1>d DEF OutsideWake
  <1>7. CASE RootFinish \/ EndRefreshWrite \/ Returned \/ UNCHANGED vars
    BY <1>7, <1>b DEF RootFinish, EndRefreshWrite, Returned, vars
  <1>8. QED
    BY <1>1, <1>2, <1>3, <1>4, <1>5, <1>6, <1>7 DEF Next

LEMMA ReadyKept ==
  ASSUME TypeOK, ShapeInv, ReadyIsQueued, CoordinatorStep, [Next]_vars
  PROVE  ReadyIsQueued'
  <1>1. SUFFICES ASSUME NEW t \in Tasks, Admits(c'), sched'[t] = "Idle", at'[t].do \in Ready
                 PROVE  FALSE
    BY DEF ReadyIsQueued
  <1>2. QED
    BY <1>1, ReadyMoves, PhaseMoves DEF ReadyIsQueued

\* An outcome that is delivered wakes the task that awaits it.
LEMMA JoinsKept ==
  ASSUME TypeOK, ShapeInv, JoinsAreWoken, CoordinatorStep, [Next]_vars
  PROVE  JoinsAreWoken'
  <1>1. SUFFICES ASSUME NEW t \in Tasks, Admits(c'), sched'[t] \in {"Idle", "Polling"},
                        at'[t].do = "join", slot'[at'[t].on] \in {"value", "panic"}
                 PROVE  FALSE
    BY DEF JoinsAreWoken
  <1>2. Admits(c)
    BY <1>1, PhaseMoves
  <1>3. \/ at'[t] = at[t] /\ sched[t] \in {"Idle", "Polling"}
        \/ slot[at'[t].on] \notin {"value", "panic"} /\ slot' = slot
    BY <1>1, WaitMoves
  <1>4. at'[t] = at[t] /\ sched[t] \in {"Idle", "Polling"}
    BY <1>1, <1>3
  <1>5. at[t] \in Future /\ at[t].do = "join" /\ t # NoTask
    BY <1>1, <1>4, TaskAssumption DEF TypeOK
  <1>6. PICK u \in Tasks : u = at[t].on
    BY <1>5, FutureSteps
  <1>7. parent[u] = t /\ at[t] = [do |-> "join", on |-> u]
    BY <1>5, <1>6 DEF ShapeInv, LinkShape, JoinShape, Future
  <1>8. slot[u] \notin {"value", "panic"} /\ slot'[u] \in {"value", "panic"}
    BY <1>1, <1>2, <1>4, <1>6 DEF JoinsAreWoken
  <1>9. slot[u] = "empty" /\ Deliver(u)
    BY <1>8, SlotMoves
  <1>10. OnWake(t)
    BY <1>5, <1>7, <1>9 DEF Deliver, ReaderWaits
  <1>11. QED
    BY <1>1, <1>2, <1>4, <1>10, OnWakeFacts

LEMMA ComingKept ==
  ASSUME TypeOK, ShapeInv, QueuedIsComing, [Next]_vars
  PROVE  QueuedIsComing'
  <1> USE DEF taskVars, driverVars
  <1>a. /\ at \in [Tasks -> Future] /\ sched \in [Tasks -> SchedState]
        /\ poll \in [Tasks -> PollState] /\ tokio \in Wakes /\ tracker \in Tracker
    BY DEF TypeOK
  <1>b. SUFFICES ASSUME NEW t \in Tasks, sched'[t] \in {"Queued", "Woken"}
                 PROVE  Coming(t)'
    BY DEF QueuedIsComing
  <1>c. TaskShape(t)
    BY DEF ShapeInv
  <1>d. ASSUME sched'[t] = sched[t], t \in tokio.called \cup tokio.notified => t \in tokio'.called \cup tokio'.notified,
               tracker.aborted \subseteq tracker'.aborted, poll'[t] = poll[t] \/ poll[t] # "entered"
        PROVE  Coming(t)'
    BY <1>b, <1>d DEF Coming, QueuedIsComing
  <1>e. ASSUME UNCHANGED <<sched, tokio, poll>>, tracker.aborted \subseteq tracker'.aborted
        PROVE  Coming(t)'
    BY <1>d, <1>e
  <1>f. ASSUME TrackerExit PROVE tracker.aborted = tracker'.aborted
    BY <1>a, <1>f DEF TrackerExit, Tracker
  <1>g. ASSUME NEW u \in Tasks, OnWake(u), tracker' = tracker, poll'[t] = poll[t] \/ poll[t] # "entered"
        PROVE  Coming(t)'
    <2>1. /\ \A v \in Tasks \ {u} : sched'[v] = sched[v]
          /\ sched'[u] = sched[u] \/ u \in tokio'.called
          /\ tokio.called \subseteq tokio'.called /\ tokio'.notified = tokio.notified
      BY <1>g, OnWakeFacts
    <2>2. CASE u = t /\ u \in tokio'.called
      BY <2>2 DEF Coming
    <2>3. CASE sched'[t] = sched[t]
      BY <1>d, <1>g, <2>1, <2>3
    <2>4. QED
      BY <2>1, <2>2, <2>3
  <1>1. ASSUME NEW u \in Tasks, GatewayStep(u) PROVE Coming(t)'
    <2>1. CASE OuterWake(u)
      BY <1>a, <1>d, <2>1 DEF OuterWake
    <2>2. CASE PollEnter(u)
      <3>1. CASE u = t
        BY <1>a, <2>2, <3>1 DEF PollEnter, Coming
      <3>2. CASE u # t
        BY <1>a, <1>d, <2>2, <3>2 DEF PollEnter, Wakes
      <3>3. QED
        BY <3>1, <3>2
    <2>3. CASE PollBegin(u)
      <3>1. CASE u = t
        BY <1>a, <1>b, <2>3, <3>1 DEF PollBegin
      <3>2. CASE u # t
        BY <1>a, <1>d, <2>3, <3>2 DEF PollBegin
      <3>3. QED
        BY <3>1, <3>2
    <2>4. CASE PollPending(u)
      <3>1. CASE u = t
        <4>1. sched[t] = "Woken" /\ poll[t] # "entered"
          BY <1>a, <1>b, <2>4, <3>1 DEF PollPending
        <4>2. QED
          BY <2>4, <4>1 DEF PollPending, QueuedIsComing, Coming
      <3>2. CASE u # t
        BY <1>a, <1>d, <2>4, <3>2 DEF PollPending
      <3>3. QED
        BY <3>1, <3>2
    <2>5. CASE PollExhausted(u)
      <3>1. CASE u = t
        BY <1>a, <2>5, <3>1 DEF PollExhausted, Notified, Coming, Wakes
      <3>2. CASE u # t
        BY <1>a, <1>d, <2>5, <3>2 DEF PollExhausted, Notified, Wakes
      <3>3. QED
        BY <3>1, <3>2
    <2>6. CASE PollLeave(u)
      BY <1>a, <1>d, <2>6 DEF PollLeave
    <2>7. CASE Deliver(u)
      <3>1. poll'[t] = poll[t] \/ poll[t] # "entered"
        BY <1>a, <2>7 DEF Deliver
      <3>2. CASE slot[u] = "empty" /\ ReaderWaits(u)
        <4>1. PICK p \in Tasks : OnWake(p)
          BY <2>7, <3>2 DEF Deliver, ReaderWaits, TypeOK
        <4>2. QED
          BY <1>g, <2>7, <3>1, <4>1 DEF Deliver
      <3>3. CASE ~ (slot[u] = "empty" /\ ReaderWaits(u))
        BY <1>d, <2>7, <3>1, <3>3 DEF Deliver
      <3>4. QED
        BY <3>2, <3>3
    <2>8. CASE TaskExits(u)
      BY <1>a, <1>d, <1>f, <2>8 DEF TaskExits
    <2>9. CASE DropTask(u)
      <3>1. u # t
        BY <1>a, <1>b, <2>9 DEF DropTask
      <3>2. QED
        BY <1>a, <1>d, <1>f, <2>9, <3>1 DEF DropTask, Forgotten, Wakes
    <2>10. QED
      BY <1>1, <2>1, <2>2, <2>3, <2>4, <2>5, <2>6, <2>7, <2>8, <2>9 DEF GatewayStep
  <1>2. ASSUME NEW u \in Tasks, UserStep(u) PROVE Coming(t)'
    <2>1. ASSUME NEW v \in OpTasks, SpawnChild(u, v) PROVE Coming(t)'
      <3>1. CASE UNCHANGED <<sched, tokio>>
        BY <1>e, <2>1, <3>1 DEF SpawnChild
      <3>2. CASE sched' = [sched EXCEPT ![v] = "Queued"] /\ Notified(v)
        <4>1. CASE v = t
          BY <1>a, <3>2, <4>1 DEF Notified, Coming, Wakes
        <4>2. CASE v # t
          BY <1>a, <1>d, <2>1, <3>2, <4>2 DEF SpawnChild, Notified, Wakes
        <4>3. QED
          BY <4>1, <4>2
      <3>3. QED
        BY <2>1, <3>1, <3>2 DEF SpawnChild
    <2>2. ASSUME NEW v \in OpTasks, JoinPanic(u, v) PROVE Coming(t)'
      <3>1. u # t
        BY <1>a, <1>b, <2>2 DEF JoinPanic
      <3>2. QED
        BY <1>a, <1>d, <2>2, <3>1 DEF JoinPanic, Forgotten, Wakes
    <2>3. ASSUME NEW kind \in {"value", "panic"}, TaskEnds(u, kind) PROVE Coming(t)'
      <3>1. u # t
        BY <1>a, <1>b, <2>3 DEF TaskEnds
      <3>2. QED
        BY <1>a, <1>d, <2>3, <3>1 DEF TaskEnds, Forgotten, Wakes
    <2>4. CASE RegisterAbort(u)
      BY <1>a, <1>e, <2>4 DEF RegisterAbort, Tracker
    <2>5. ASSUME NEW v \in OpTasks, CancelChild(u, v) PROVE Coming(t)'
      BY <1>a, <1>e, <2>5 DEF CancelChild, Tracker
    <2>6. ASSUME NEW v \in OpTasks, JoinChild(u, v) PROVE Coming(t)'
      BY <1>e, <2>6 DEF JoinChild
    <2>7. ASSUME NEW o \in Ops, StartWait(u, o) PROVE Coming(t)'
      BY <1>e, <2>7 DEF StartWait
    <2>8. ASSUME NEW w \in Writes, SubmitWrite(u, w) PROVE Coming(t)'
      BY <1>e, <2>8 DEF SubmitWrite
    <2>9. ASSUME NEW severity \in Severity, RecordFatal(u, severity) PROVE Coming(t)'
      BY <1>e, <2>9 DEF RecordFatal
    <2>10. CASE ReadRecord(u) \/ StartBody(u) \/ EndBody(u) \/ StartTimer(u) \/ Proceed(u)
      BY <1>e, <2>10 DEF ReadRecord, StartBody, EndBody, StartTimer, Proceed
    <2>11. CASE QueueWrite(u) \/ LoseRace(u)
      BY <1>e, <2>11 DEF QueueWrite, LoseRace
    <2>12. QED
      BY <1>2, <2>1, <2>2, <2>3, <2>4, <2>5, <2>6, <2>7, <2>8, <2>9, <2>10, <2>11 DEF UserStep
  <1>3. ASSUME NEW w \in AllWrites, ServiceStep(w) \/ WriteStep(w) PROVE Coming(t)'
    <2>1. ASSUME NEW u \in Tasks, WakeWaiter(w, u) PROVE Coming(t)'
      BY <1>g, <2>1 DEF WakeWaiter
    <2>2. CASE AnswerCaller(w)
      <3>1. CASE UNCHANGED <<c, sched, tokio, at>>
        BY <1>e, <2>2, <3>1 DEF AnswerCaller
      <3>2. ASSUME NEW u \in Callers(w), OnWake(u) PROVE Coming(t)'
        BY <1>g, <2>2, <3>2 DEF AnswerCaller, Callers
      <3>3. QED
        BY <2>2, <3>1, <3>2 DEF AnswerCaller
    <2>3. CASE ReleaseWrite(w) \/ RecordWriterPanic(w)
      BY <1>e, <1>f, <2>3 DEF ReleaseWrite, RecordWriterPanic
    <2>4. QED
      BY <1>3, <1>e, <2>1, <2>2, <2>3
      DEF ServiceStep, ResponseMerged, ResponseFailed, ResponseTokenless, ClientPanics, WriteStep,
          StartWrite, TakeQueued, DropEntry, EndFailure, CollectWakers, UnwindWrite, WriterStops
  <1>4. CASE SchedulerStep
    <2>1. ASSUME NEW u \in Tasks, SchedulerWakes(u) PROVE Coming(t)'
      BY <1>g, <2>1 DEF SchedulerWakes
    <2>2. QED
      BY <1>4, <1>e, <2>1
      DEF SchedulerStep, SchedulerTakesDue, SchedulerSends, SchedulerAnswered, SchedulerDone
  <1>5. CASE DriverStep
    <2>1. CASE DriveStart
      <3>1. CASE t = Root
        BY <1>a, <2>1, <3>1 DEF DriveStart, Notified, Coming, Wakes
      <3>2. CASE t # Root
        BY <1>a, <1>d, <2>1, <3>2 DEF DriveStart, Notified, Wakes
      <3>3. QED
        BY <3>1, <3>2
    <2>2. CASE AbortRoot \/ AbortAll
      BY <1>a, <1>e, <2>2 DEF AbortRoot, AbortAll, Tracker
    <2>3. QED
      BY <1>5, <1>e, <2>1, <2>2
      DEF DriverStep, DriverCheckFatal, DriverPollRoot, DriverCheckPhase,
          DriverParks, DriverWakes, DropScheduler, DriverFinish, RootAwaited,
          WaitIdle, ReadFatal, Arbitrate, Answer
  <1>6. ASSUME NEW u \in Tasks, OutsideWake(u) PROVE Coming(t)'
    BY <1>6, <1>g DEF OutsideWake
  <1>7. CASE EndRefreshWrite
    BY <1>7, <1>e, <1>f DEF EndRefreshWrite
  <1>8. CASE RootFinish
    BY <1>8, <1>a, <1>d DEF RootFinish
  <1>9. CASE Returned \/ UNCHANGED vars
    BY <1>9, <1>e DEF Returned, vars
  <1>10. QED
    BY <1>1, <1>2, <1>3, <1>4, <1>5, <1>6, <1>7, <1>8, <1>9 DEF Next

(***************************************************************************)
(* The inductive invariant, and what follows from it.                      *)
(***************************************************************************)
SuspensionInv ==
  /\ PermitInv /\ DriverInv /\ Quiet /\ DecisionIsPrompt
  /\ WaitsAreWoken /\ ReadyIsQueued /\ JoinsAreWoken /\ QueuedIsComing

LEMMA InitSuspension == Init => SuspensionInv
  <1>a. NewCoordinator.phase = "Running" /\ NewCoordinator.waits = {}
    BY DEF NewCoordinator
  <1>b. /\ RecordPanic(NewCoordinator).phase = NewCoordinator.phase
        /\ RecordPanic(NewCoordinator).waits = NewCoordinator.waits
    <2>1. ASSUME NEW s \in CType
          PROVE  RecordPanic(s).phase = s.phase /\ RecordPanic(s).waits = s.waits
      BY DEF RecordPanic, CType, CoordinatorType
    <2>2. QED
      BY <2>1, NewCoordinatorType
  <1>1. ASSUME Init PROVE c.phase = "Running" /\ c.waits = {}
    BY <1>1, <1>a, <1>b DEF Init
  <1>2. ASSUME Init PROVE Quiet /\ DecisionIsPrompt
    BY <1>1, <1>2 DEF Quiet, DecisionIsPrompt, MustSuspend
  <1>3. ASSUME Init PROVE WaitsAreWoken /\ ReadyIsQueued /\ JoinsAreWoken /\ QueuedIsComing
    BY <1>3 DEF Init, WaitsAreWoken, ReadyIsQueued, JoinsAreWoken, QueuedIsComing
  <1>4. QED
    BY <1>2, <1>3, InitPermits, InitDriver DEF SuspensionInv

LEMMA NextSuspension ==
  ASSUME SuspensionInv, [Next]_vars
  PROVE  SuspensionInv' /\ CallStep
  <1>1. /\ PermitInv' /\ CallStep /\ CoordinatorStep
        /\ TypeOK /\ ShapeInv /\ FinishShape /\ RefreshShape
    BY NextPermits DEF SuspensionInv, PermitInv, DriverInv, CallStep
  <1>2. DriverInv'
    BY <1>1, NextDriver DEF SuspensionInv
  <1>3. Quiet' /\ DecisionIsPrompt'
    BY <1>1, <1>2, QuietKept, PromptKept DEF SuspensionInv
  <1>4. WaitsAreWoken' /\ ReadyIsQueued' /\ JoinsAreWoken' /\ QueuedIsComing'
    BY <1>1, WaitsKept, ReadyKept, JoinsKept, ComingKept DEF SuspensionInv
  <1>5. QED
    BY <1>1, <1>2, <1>3, <1>4 DEF SuspensionInv

\* When the invocation suspends, no waiting operation has a record: nobody
\* is left that would wake it.
LEMMA QuiescentSuspension ==
  ASSUME SuspensionInv
  PROVE  SuspensionIsQuiescent
  <1>1. SUFFICES ASSUME c.phase = "Suspending", ~ c.withdrawn
                 PROVE  /\ Runnable = {} /\ Ending = {} /\ Bodies = {}
                        /\ Admitted = {} /\ ~ Refreshing
                        /\ \A k \in c.waits : k[2] \notin log
    BY DEF SuspensionIsQuiescent
  <1>2. Runnable = {} /\ Ending = {} /\ Bodies = {} /\ Admitted = {} /\ ~ Refreshing
    BY <1>1, NothingHeld DEF SuspensionInv, PermitInv, Quiet
  <1>3. ASSUME NEW k \in c.waits, k[2] \in log PROVE FALSE
    <2>1. PICK t \in Tasks, o \in Ops : k = Key(t, o)
      <3>1. k \in Tasks \X Ops
        BY <1>3 DEF SuspensionInv, PermitInv, TypeOK, CoordinatorType
      <3>2. k = Key(k[1], k[2]) /\ k[1] \in Tasks /\ k[2] \in Ops
        BY <3>1 DEF Key
      <3>3. QED
        BY <3>2
    <2>2. at[t].do \in {"check", "wait"} /\ at[t].on = o /\ o \in log
      BY <1>3, <2>1 DEF SuspensionInv, PermitInv, ShapeInv, LinkShape, WaitShape, Key
    <2>3. sched[t] \in SchedState /\ sched[t] \notin {"Queued", "Polling", "Woken"} /\ TaskShape(t)
      BY <1>2 DEF Runnable, SuspensionInv, PermitInv, TypeOK, ShapeInv
    <2>4. at[t].do = "wait" /\ sched[t] = "Idle"
      BY <2>2, <2>3 DEF TaskShape, InPoll, Run, SchedState
    <2>5. PICK w \in AllWrites : Waker(w, t)
      BY <1>1, <2>2, <2>4 DEF SuspensionInv, WaitsAreWoken
    <2>6. QED
      BY <1>1, <2>5, NobodyWakes DEF SuspensionInv, Waker
  <1>4. QED
    BY <1>2, <1>3

LEMMA EveryTaskIsWoken ==
  ASSUME SuspensionInv
  PROVE  NoLostWakeup
  <1>1. ASSUME NEW t \in Tasks, Admits(c), sched[t] = "Idle", CanGoOn(t) PROVE SomebodyWakes(t)
    <2>1. at[t].do = "wait" /\ at[t].on \in log
      BY <1>1 DEF SuspensionInv, ReadyIsQueued, JoinsAreWoken, CanGoOn, Ready
    <2>2. PICK w \in AllWrites : Waker(w, t)
      BY <1>1, <2>1 DEF SuspensionInv, WaitsAreWoken, Admits
    <2>3. QED
      BY <2>2 DEF Waker, SomebodyWakes
  <1>2. ASSUME NEW t \in Tasks, sched[t] \in {"Queued", "Woken"}
        PROVE  \/ t \in tokio.called \cup tokio.notified \cup tracker.aborted
               \/ poll[t] = "entered"
    BY <1>2 DEF SuspensionInv, QueuedIsComing, Coming
  <1>3. QED
    BY <1>1, <1>2 DEF NoLostWakeup

\* The decision to suspend is taken exactly when it must be: never while a
\* task is runnable, a body runs, a write is unanswered, a refresh is open or
\* a waiting operation has its record, and at once when none of these is left
\* (coordinator.rs `State::check_suspension`).
THEOREM SuspensionIsExact == Spec => []DecisionIsExact
  <1>1. SuspensionInv /\ [Next]_vars => SuspensionInv'
    BY NextSuspension
  <1>2. SuspensionInv => DecisionIsExact
    BY QuiescentSuspension DEF DecisionIsExact, SuspensionInv
  <1>3. QED
    BY <1>1, <1>2, InitSuspension, PTL DEF Spec

\* No wakeup is lost between the schedule, Tokio and the slots (task.rs
\* `Schedule::on_wake`, `Slot::deliver`; context.rs `wake_operations`).
THEOREM WakeupsAreKept == Spec => []NoLostWakeup
  <1>1. SuspensionInv /\ [Next]_vars => SuspensionInv'
    BY NextSuspension
  <1>2. SuspensionInv => NoLostWakeup
    BY EveryTaskIsWoken
  <1>3. QED
    BY <1>1, <1>2, InitSuspension, PTL DEF Spec

(***************************************************************************)
(* The end of the drive.                                                   *)
(***************************************************************************)
\* Once the tracker is idle, nothing of the invocation is left but the
\* permits of the writes that a panicked writer left in the queue.
LEMMA NothingIsLeft ==
  ASSUME SuspensionInv, driver \in PastIdle
  PROVE  /\ c.activity = 0 /\ c.scheduler = 0 /\ c.waits = {} /\ LiveWrites = {}
         /\ c.checkpoint = Cardinality(Stranded)
         /\ \A t \in Tasks : sched[t] # "Unspawned" => poll[t] = "gone"
  <1> USE DEF SuspensionInv, PermitInv, DriverInv
  <1>1. LiveTasks = {} /\ LiveWrites = {} /\ poll[Root] = "gone"
    BY DEF UnwoundShape, Idle, PastRoot
  <1>2. \A t \in Tasks : sched[t] # "Unspawned" => poll[t] = "gone"
    BY <1>1 DEF LiveTasks, OpTasks
  <1>3. \A t \in Tasks : /\ sched[t] \in {"Unspawned", "Done"} /\ poll[t] \in {"off", "gone"}
                         /\ at[t].do \in {"run", "stuck"}
    BY <1>2 DEF ShapeInv, TaskShape, EndedPoll, Run
  <1>4. c.waits = {}
    <2>1. ASSUME NEW k \in c.waits PROVE FALSE
      <3>1. k \in Tasks \X Ops
        BY <2>1 DEF TypeOK, CoordinatorType
      <3>2. k = Key(k[1], k[2]) /\ k[1] \in Tasks /\ k[2] \in Ops
        BY <3>1 DEF Key
      <3>3. at[k[1]].do \in {"check", "wait"}
        BY <2>1, <3>2 DEF ShapeInv, LinkShape, WaitShape
      <3>4. QED
        BY <1>3, <3>2, <3>3
    <2>2. QED
      BY <2>1
  <1>5. Runnable = {} /\ Ending = {} /\ Bodies = {}
    BY <1>3 DEF Runnable, Ending, Bodies
  <1>6. Admitted = Stranded
    <2>1. ASSUME NEW w \in Writes, wr[w].st = "admitted" PROVE FALSE
      <3>1. PICK t \in Tasks : at[t] = [do |-> "submit", on |-> w]
        BY <2>1 DEF ShapeInv, LinkShape, SubmitShape
      <3>2. at[t].do = "submit"
        BY <3>1
      <3>3. QED
        BY <1>3, <3>2
    <2>2. \A w \in Writes : wr[w].st \in {"free", "admitted", "stranded", "done"}
      BY <1>1 DEF LiveWrites, AllWrites
    <2>3. QED
      BY <2>1, <2>2 DEF Admitted, Stranded
  <1>7. ~ Refreshing
    BY DEF DroppedShape, Refreshing, PastFinish, PastRoot
  <1>8. c.activity = 0 /\ c.scheduler = 0 /\ c.checkpoint = Cardinality(Stranded)
    <2>1. Cardinality({}) = 0
      BY FS_EmptySet
    <2>2. QED
      BY <1>5, <1>6, <1>7, <2>1 DEF PermitAccounting
  <1>9. QED
    BY <1>1, <1>2, <1>4, <1>8

(***************************************************************************)
(* The answer.                                                             *)
(***************************************************************************)
\* What the arbitration may answer, before a withdrawal is looked at.
Verdicts ==
  IF c.fatal # "None" THEN {c.fatal}
  ELSE IF ended = "Completed" THEN {"Panic", "Complete"} ELSE {"Panic", "Pending"}

\* The write failure has set the fatal slot, a completed drive took the
\* root's outcome, and a drive that goes to its cleanup says how it ended.
CauseShape == c.writeFailure # "None" => c.fatal # "None"
ResultShape == ended = "Completed" => slot[Root] = "taken"
EndedShape == driver \in PastFinish \cup {"finish", "dropScheduler"} => ended # "none"

\* From the fatal slot that was read to the answer.
VerdictShape ==
  /\ driver = "takePanic" => outcome = IF c.fatal # "None" THEN c.fatal ELSE "none"
  /\ driver = "answer" => outcome \in Verdicts
  /\ driver = "returned" =>
       IF c.withdrawn THEN outcome = "Pending" \/ (outcome = "Panic" /\ c.fatal = "None")
                      ELSE outcome \in Verdicts
  /\ driver \in {"answer", "returned"} => ~ c.panic

AnswerShape == CauseShape /\ ResultShape /\ EndedShape /\ VerdictShape

LEMMA VerdictKept ==
  ASSUME SuspensionInv, VerdictShape, [Next]_vars
  PROVE  VerdictShape'
  <1> USE DEF VerdictShape, Verdicts
  <1>a. c \in CType /\ c.fatal \in FatalSlot /\ "Panic" \notin FatalSlot
        /\ "Complete" \notin FatalSlot /\ "Pending" \notin FatalSlot /\ "none" \notin FatalSlot
    BY DEF SuspensionInv, PermitInv, TypeOK, CType, CoordinatorType, FatalSlot, Severity
  <1>1. CASE ReadFatal
    BY <1>1 DEF ReadFatal
  <1>2. CASE Arbitrate
    <2>1. c'.fatal = c.fatal /\ c'.withdrawn = c.withdrawn /\ ~ c'.panic
      BY <1>a, <1>2 DEF Arbitrate, TakePanic, CType, CoordinatorType
    <2>2. QED
      BY <1>a, <1>2, <2>1 DEF Arbitrate
  <1>3. CASE Answer
    BY <1>a, <1>3 DEF Answer
  <1>4. CASE DriverStep /\ ~ ReadFatal /\ ~ Arbitrate /\ ~ Answer
    <2>1. driver' \notin {"takePanic", "answer", "returned"}
      BY <1>4
      DEF DriverStep, DriveStart, DriverCheckFatal, DriverPollRoot, EndDrive,
          DriverCheckPhase, DriverParks, DriverWakes, DropScheduler, DriverFinish, AbortRoot,
          RootAwaited, AbortAll, WaitIdle
    <2>2. QED
      BY <2>1
  <1>5. CASE UNCHANGED driverVars /\ ~ DriverStep
    <2>1. driver' = driver /\ ended' = ended /\ outcome' = outcome
      BY <1>5 DEF driverVars
    <2>2. driver \in {"takePanic", "answer", "returned"} => c' = c
      BY <1>5, StillAtEnd DEF SuspensionInv, PermitInv, DriverInv, PastIdle
    <2>3. QED
      BY <2>1, <2>2
  <1>6. QED
    BY <1>1, <1>2, <1>3, <1>4, <1>5, DriverMoves

LEMMA EndedKept ==
  ASSUME TypeOK, ResultShape, EndedShape, [Next]_vars
  PROVE  ResultShape' /\ EndedShape'
  <1> USE DEF ResultShape, EndedShape, PastFinish, PastRoot, PastIdle, EndDrive
  <1>a. slot[Root] = "taken" => slot'[Root] = "taken"
    BY SlotMoves, TaskFacts
  <1>1. CASE DriverPollRoot
    BY <1>a, <1>1, TaskFacts DEF DriverPollRoot, TypeOK
  <1>2. CASE DriverStep /\ ~ DriverPollRoot
    BY <1>a, <1>2
    DEF DriverStep, DriveStart, DriverCheckFatal, DriverCheckPhase, DriverParks, DriverWakes,
        DropScheduler, DriverFinish, AbortRoot, RootAwaited, AbortAll, WaitIdle, ReadFatal,
        Arbitrate, Answer
  <1>3. CASE UNCHANGED driverVars
    BY <1>a, <1>3 DEF driverVars
  <1>4. QED
    BY <1>1, <1>2, <1>3, DriverMoves

AnswerInv == SuspensionInv /\ LatchInv /\ AnswerShape

LEMMA InitAnswer == Init => AnswerInv
  <1>1. ASSUME Init PROVE CauseShape
    <2>1. NewCoordinator.writeFailure = "None"
      BY DEF NewCoordinator
    <2>2. \A s \in CType : RecordPanic(s).writeFailure = s.writeFailure
      BY DEF RecordPanic, CType, CoordinatorType
    <2>3. QED
      BY <1>1, <2>1, <2>2, NewCoordinatorType DEF Init, CauseShape
  <1>2. ASSUME Init PROVE ResultShape /\ EndedShape /\ VerdictShape
    BY <1>2 DEF Init, ResultShape, EndedShape, VerdictShape, PastFinish, PastRoot, PastIdle
  <1>3. QED
    BY <1>1, <1>2, InitSuspension, InitLatch DEF AnswerInv, AnswerShape

LEMMA NextAnswer ==
  ASSUME AnswerInv, [Next]_vars
  PROVE  AnswerInv' /\ CoordinatorStep
  <1>1. SuspensionInv' /\ CoordinatorStep /\ TypeOK /\ c \in CType
    BY NextSuspension
    DEF AnswerInv, CallStep, SuspensionInv, PermitInv, TypeOK, CType
  <1>2. LatchInv'
    BY <1>1, NextLatch DEF AnswerInv
  <1>3. CauseShape'
    BY <1>1, PhaseMoves DEF AnswerInv, AnswerShape, CauseShape
  <1>4. QED
    BY <1>1, <1>2, <1>3, VerdictKept, EndedKept DEF AnswerInv, AnswerShape

\* The answer is decided by everything recorded while the tasks unwound: a
\* fatal error outranks the handler's result, and PENDING without a
\* withdrawal means that the drive was interrupted (driver.rs `drive_invocation`,
\* `withdrawal_answer`).
THEOREM AnswersAreJustified == Spec => []AnswerIsJustified
  <1>1. AnswerInv /\ [Next]_vars => AnswerInv'
    BY NextAnswer
  <1>2. ASSUME AnswerInv PROVE AnswerIsJustified
    <2>1. /\ c.fatal \in FatalSlot /\ "Complete" \notin FatalSlot /\ "Pending" \notin FatalSlot
          /\ ended \in {"none", "Completed", "Interrupted"}
      BY <1>2 DEF AnswerInv, SuspensionInv, PermitInv, TypeOK, CType, CoordinatorType,
                  FatalSlot, Severity
    <2>2. QED
      BY <1>2, <2>1
      DEF AnswerInv, AnswerShape, CauseShape, ResultShape, EndedShape, VerdictShape, Verdicts,
          LatchInv, LatchesExclude, AnswerIsJustified, PastFinish, PastRoot, PastIdle
  <1>3. QED
    BY <1>1, <1>2, InitAnswer, PTL DEF Spec

\* A panic that was kept is held by the coordinator, or has decided.
PanicHeld ==
  IF driver \in {"answer", "returned"} THEN outcome = "Panic" \/ c.fatal # "None"
                                       ELSE c.panic

LEMMA PanicStaysHeld ==
  ASSUME AnswerInv, PanicHeld, [Next]_vars
  PROVE  PanicHeld'
  <1> USE DEF PanicHeld
  <1>a. /\ SuspensionInv /\ VerdictShape /\ CoordinatorStep /\ TypeOK /\ c \in CType
        /\ c.fatal \in FatalSlot /\ "none" \notin FatalSlot
    BY NextAnswer
    DEF AnswerInv, AnswerShape, SuspensionInv, PermitInv, TypeOK, CType, CoordinatorType,
        FatalSlot, Severity
  <1>b. c.fatal # "None" => c'.fatal # "None"
    BY <1>a, PhaseMoves
  <1>1. CASE Arbitrate
    <2>1. c'.fatal = c.fatal
      BY <1>a, <1>1 DEF Arbitrate, TakePanic, CType, CoordinatorType
    <2>2. QED
      BY <1>a, <1>1, <2>1 DEF Arbitrate, VerdictShape
  <1>2. CASE Answer
    BY <1>b, <1>2 DEF Answer
  <1>3. CASE DriverStep /\ ~ Arbitrate /\ ~ Answer
    <2>1. driver' \notin {"answer", "returned"} /\ driver \notin {"takePanic", "answer", "returned"}
      BY <1>3
      DEF DriverStep, DriveStart, DriverCheckFatal, DriverPollRoot, EndDrive,
          DriverCheckPhase, DriverParks, DriverWakes, DropScheduler, DriverFinish, AbortRoot,
          RootAwaited, AbortAll, WaitIdle, ReadFatal
    <2>2. c'.panic
      BY <1>a, <2>1, PhaseMoves
    <2>3. QED
      BY <2>1, <2>2
  <1>4. CASE UNCHANGED driverVars /\ ~ DriverStep
    <2>1. driver' = driver /\ outcome' = outcome
      BY <1>4 DEF driverVars
    <2>2. driver = "takePanic" => c' = c
      BY <1>a, <1>4, StillAtEnd DEF SuspensionInv, PermitInv, DriverInv, PastIdle
    <2>3. c.panic => c'.panic
      BY <1>a, <2>2, PhaseMoves
    <2>4. QED
      BY <1>b, <2>1, <2>3
  <1>5. QED
    BY <1>1, <1>2, <1>3, <1>4, DriverMoves

\* A panic that was kept decides the answer unless a fatal error outranks
\* it: no cleanup step loses it (coordinator.rs `record_panic`, `take_panic`).
THEOREM PanicsDecide == Spec => PanicDecides
  <1>1. AnswerInv /\ [Next]_vars => AnswerInv'
    BY NextAnswer
  <1>2. AnswerInv /\ c.panic => PanicHeld
    BY DEF AnswerInv, AnswerShape, VerdictShape, PanicHeld
  <1>3. AnswerInv /\ PanicHeld /\ [Next]_vars => PanicHeld'
    BY PanicStaysHeld
  <1>4. PanicHeld => (driver = "returned" => outcome = "Panic" \/ c.fatal # "None")
    BY DEF PanicHeld
  <1>5. QED
    BY <1>1, <1>2, <1>3, <1>4, InitAnswer, PTL DEF Spec, PanicDecides

(***************************************************************************)
(* The writes that a panicked writer leaves in the queue.                  *)
(***************************************************************************)
\* Panic ownership is open until the arbitration takes the panic.
OpenShape == c.panicOpen \/ driver \in {"answer", "returned"}

\* A write is left in the queue only by a writer whose panic is held, or is
\* about to be recorded.
LeftShape ==
  (\E w \in AllWrites : wr[w].st = "stranded") =>
    PanicHeld \/ \E w \in AllWrites : wr[w].st = "recording"

ReturnInv == AnswerInv /\ OpenShape /\ LeftShape

LEMMA OpenKept ==
  ASSUME AnswerInv, OpenShape, [Next]_vars
  PROVE  OpenShape'
  <1>a. SuspensionInv /\ CoordinatorStep /\ TypeOK
    BY NextAnswer DEF AnswerInv, SuspensionInv, PermitInv
  <1>1. CASE Arbitrate
    BY <1>1 DEF Arbitrate, OpenShape
  <1>2. CASE DriverStep /\ ~ Arbitrate
    <2>1. driver # "takePanic" /\ (driver \in {"answer", "returned"} => driver' = "returned")
      BY <1>2
      DEF DriverStep, DriveStart, DriverCheckFatal, DriverPollRoot, DriverCheckPhase,
          DriverParks, DriverWakes, DropScheduler, DriverFinish, AbortRoot, RootAwaited, AbortAll,
          WaitIdle, ReadFatal, Answer
    <2>2. QED
      BY <1>a, <2>1, PhaseMoves DEF OpenShape
  <1>3. CASE UNCHANGED driverVars /\ ~ DriverStep
    <2>1. driver' = driver
      BY <1>3 DEF driverVars
    <2>2. driver = "takePanic" => c' = c
      BY <1>a, <1>3, StillAtEnd DEF SuspensionInv, PermitInv, DriverInv, PastIdle
    <2>3. QED
      BY <1>a, <2>1, <2>2, PhaseMoves DEF OpenShape
  <1>4. QED
    BY <1>1, <1>2, <1>3, DriverMoves

\* A panic that is about to be recorded is, and nothing but the end of a
\* writer leaves a write in the queue.
LEMMA LeftMoves ==
  ASSUME TypeOK, ShapeInv, RefreshShape, NEW w \in AllWrites, [Next]_vars
  PROVE  /\ wr[w].st = "recording" => wr'[w].st = "recording" \/ RecordWriterPanic(w)
         /\ wr'[w].st = "stranded" =>
              \/ wr[w].st = "stranded"
              \/ \E v \in AllWrites : wr'[v].st = "recording"
  <1> USE DEF taskVars, driverVars
  <1> DEFINE Claim ==
               /\ wr[w].st = "recording" => wr'[w].st = "recording" \/ RecordWriterPanic(w)
               /\ wr'[w].st = "stranded" =>
                    \/ wr[w].st = "stranded"
                    \/ \E v \in AllWrites : wr'[v].st = "recording"
  <1>a. /\ wr \in [AllWrites -> Write] /\ Refresh \in AllWrites /\ Writes \subseteq AllWrites
        /\ \A u \in Tasks : at[u] \in Future
    BY WriteNames DEF TypeOK
  <1>b. wr'[w] = wr[w] => Claim
    OBVIOUS
  <1>1. ASSUME NEW u \in Tasks, GatewayStep(u) \/ OutsideWake(u) PROVE wr' = wr
    BY <1>1
    DEF GatewayStep, OuterWake, PollEnter, PollBegin, PollPending, PollExhausted, PollLeave,
        Deliver, TaskExits, DropTask, OutsideWake
  <1>2. ASSUME NEW u \in Tasks, UserStep(u) PROVE Claim
    <2>1. CASE QueueWrite(u)
      <3>1. at[u].on \in AllWrites /\ wr[at[u].on].st = "admitted"
        BY <1>a, <2>1, FutureSteps DEF QueueWrite, Polling, ShapeInv, LinkShape, SubmitShape
      <3>2. CASE wr' = Queued(at[u].on)
        BY <3>1, <3>2, QueuedFacts
      <3>3. CASE wr' = [wr EXCEPT ![at[u].on] = NoWrite("done")]
        BY <1>a, <3>1, <3>3 DEF NoWrite
      <3>4. QED
        BY <2>1, <3>2, <3>3 DEF QueueWrite
    <2>2. ASSUME NEW v \in Writes, SubmitWrite(u, v) PROVE Claim
      BY <1>a, <2>2 DEF SubmitWrite, Write
    <2>3. QED
      BY <1>2, <1>b, <2>1, <2>2
      DEF UserStep, StartWait, ReadRecord, StartBody, EndBody, StartTimer, Proceed, LoseRace,
          SpawnChild, JoinChild, JoinPanic, CancelChild, RegisterAbort, RecordFatal, TaskEnds
  <1>3. ASSUME NEW v \in AllWrites, ServiceStep(v) PROVE Claim
    BY <1>3, <1>a
    DEF ServiceStep, ResponseMerged, ResponseFailed, ResponseTokenless, ClientPanics, Write
  <1>4. ASSUME NEW v \in AllWrites, WriteStep(v) PROVE Claim
    <2>1. CASE StartWrite(v) \/ DropEntry(v) \/ EndFailure(v) \/ CollectWakers(v) \/ UnwindWrite(v)
      BY <1>a, <2>1 DEF StartWrite, DropEntry, EndFailure, CollectWakers, UnwindWrite, Write
    <2>2. CASE TakeQueued(v)
      BY <1>a, <2>2 DEF TakeQueued, Write
    <2>3. CASE (\E u \in Tasks : WakeWaiter(v, u)) \/ ReleaseWrite(v)
      BY <1>a, <2>3 DEF WakeWaiter, ReleaseWrite, Write, NoWrite
    <2>4. CASE AnswerCaller(v)
      BY <1>a, <2>4 DEF AnswerCaller, Answered, Write, NoWrite
    <2>5. CASE WriterStops(v)
      BY <2>5, WriterStopsFacts
    <2>6. CASE RecordWriterPanic(v)
      BY <1>a, <2>6 DEF RecordWriterPanic, NoWrite
    <2>7. QED
      BY <1>4, <2>1, <2>2, <2>3, <2>4, <2>5, <2>6 DEF WriteStep
  <1>5. CASE SchedulerStep
    <2>1. CASE SchedulerSends
      <3>1. wr[Refresh].st = "free"
        BY <2>1 DEF SchedulerSends, RefreshShape
      <3>2. QED
        BY <1>a, <1>b, <2>1, <3>1, QueuedFacts DEF SchedulerSends
    <2>2. QED
      BY <1>5, <1>b, <2>1
      DEF SchedulerStep, SchedulerTakesDue, SchedulerAnswered, SchedulerDone, SchedulerWakes
  <1>6. CASE DriverStep
    BY <1>6, <1>b
    DEF DriverStep, DriveStart, DriverCheckFatal, DriverPollRoot, DriverCheckPhase,
        DriverParks, DriverWakes, DropScheduler, DriverFinish, AbortRoot, RootAwaited, AbortAll,
        WaitIdle, ReadFatal, Arbitrate, Answer
  <1>7. CASE EndRefreshWrite
    BY <1>7, <1>a DEF EndRefreshWrite, NoWrite
  <1>8. CASE RootFinish \/ Returned \/ UNCHANGED vars
    BY <1>8, <1>b DEF RootFinish, Returned, vars
  <1>9. QED
    BY <1>1, <1>2, <1>3, <1>4, <1>5, <1>6, <1>7, <1>8, <1>b DEF Next

LEMMA LeftKept ==
  ASSUME ReturnInv, [Next]_vars
  PROVE  LeftShape'
  <1>a. /\ AnswerInv /\ OpenShape /\ LeftShape /\ TypeOK /\ ShapeInv /\ UnwoundShape
        /\ RefreshShape /\ c \in CType
    BY DEF ReturnInv, AnswerInv, SuspensionInv, PermitInv, DriverInv, TypeOK, CType
  <1>1. CASE PanicHeld
    BY <1>a, <1>1, PanicStaysHeld DEF LeftShape
  <1>2. ASSUME NEW w \in AllWrites, wr[w].st = "recording", RecordWriterPanic(w)
        PROVE  PanicHeld'
    <2>1. driver \notin PastIdle
      BY <1>a, <1>2 DEF UnwoundShape, Idle, LiveWrites
    <2>2. c'.panic
      BY <1>a, <1>2, <2>1 DEF OpenShape, PastIdle, RecordWriterPanic, RecordPanic, CType, CoordinatorType
    <2>3. driver' = driver
      BY <1>2 DEF RecordWriterPanic, driverVars
    <2>4. QED
      BY <2>1, <2>2, <2>3 DEF PanicHeld, PastIdle
  <1>3. ASSUME NEW w \in AllWrites, wr[w].st = "recording" PROVE LeftShape'
    BY <1>a, <1>2, <1>3, LeftMoves DEF LeftShape
  <1>4. CASE \A w \in AllWrites : wr[w].st # "stranded"
    BY <1>a, <1>4, LeftMoves DEF LeftShape
  <1>5. QED
    BY <1>a, <1>1, <1>3, <1>4 DEF LeftShape

\* When the invocation answers, nothing of it is left: no task, no
\* registration, no write in flight, and no permit but those of the writes a
\* panic of the checkpoint client left in the queue, and then that panic or a
\* fatal error is the answer (driver.rs `drive_invocation`).
THEOREM ReturnsAreClean == Spec => []CleanReturn
  <1>1. Init => ReturnInv
    <2>1. ASSUME Init PROVE OpenShape /\ LeftShape
      <3>1. NewCoordinator.panicOpen /\ RecordPanic(NewCoordinator).panicOpen
        BY NewCoordinatorType DEF NewCoordinator, RecordPanic
      <3>2. \A w \in AllWrites : wr[w].st = "free"
        BY <2>1 DEF Init, NoWrite
      <3>3. QED
        BY <2>1, <3>1, <3>2 DEF Init, OpenShape, LeftShape
    <2>2. QED
      BY <2>1, InitAnswer DEF ReturnInv
  <1>2. ReturnInv /\ [Next]_vars => ReturnInv'
    BY NextAnswer, OpenKept, LeftKept DEF ReturnInv
  <1>3. ASSUME ReturnInv PROVE CleanReturn
    <2>1. SuspensionInv /\ LeftShape
      BY <1>3 DEF ReturnInv, AnswerInv
    <2>2. ASSUME driver = "returned", Stranded # {} PROVE outcome = "Panic" \/ c.fatal # "None"
      <3>1. \A w \in AllWrites : wr[w].st # "recording"
        BY <2>1, <2>2 DEF SuspensionInv, DriverInv, UnwoundShape, PastIdle, Idle, LiveWrites
      <3>2. PanicHeld
        BY <2>1, <2>2, <3>1, WriteNames DEF LeftShape, Stranded
      <3>3. QED
        BY <2>2, <3>2 DEF PanicHeld
    <2>3. QED
      BY <2>1, <2>2, NothingIsLeft DEF CleanReturn, PastIdle
  <1>4. QED
    BY <1>1, <1>2, <1>3, PTL DEF Spec

(***************************************************************************)
(* The suspension rule.  What can make progress, as the rule counts it.    *)
(***************************************************************************)
AbleTasks == Runnable \cup Ending
AbleWrites == Admitted \cup (IF Refreshing THEN {Refresh} ELSE {})
Able(A, B, W) == ({"task"} \X A) \cup ({"body"} \X B) \cup ({"write"} \X W)

Plus(S, x) == S \cup {x}

LEMMA MoreTasks ==
  ASSUME NEW A, NEW B, NEW W, NEW x
  PROVE  Able(Plus(A, x), B, W) = Plus(Able(A, B, W), <<"task", x>>)
  BY DEF Able, Plus

LEMMA MoreBodies ==
  ASSUME NEW A, NEW B, NEW W, NEW x
  PROVE  Able(A, Plus(B, x), W) = Plus(Able(A, B, W), <<"body", x>>)
  BY DEF Able, Plus

LEMMA MoreWrites ==
  ASSUME NEW A, NEW B, NEW W, NEW x
  PROVE  Able(A, B, Plus(W, x)) = Plus(Able(A, B, W), <<"write", x>>)
  BY DEF Able, Plus

LEMMA AbleShrinks ==
  ASSUME NEW A, NEW B, NEW W, NEW A2, NEW B2, NEW W2,
         A2 \subseteq A, B2 \subseteq B, W2 \subseteq W
  PROVE  Able(A2, B2, W2) \subseteq Able(A, B, W)
  BY DEF Able

LEMMA AbleType ==
  /\ RuleAble \subseteq RuleWork /\ RuleAble' \subseteq RuleWork
  /\ \A t \in Tasks : <<"task", t>> \in RuleWork /\ <<"body", t>> \in RuleWork
  /\ \A w \in AllWrites : <<"write", w>> \in RuleWork
  BY WriteNames
  DEF RuleAble, RuleWork, Runnable, Ending, Bodies, Admitted

\* The work of the tasks moves as the activity count does.
LEMMA TasksMove ==
  ASSUME TypeOK, PermitAccounting, ActivityStep
  PROVE  /\ c'.activity = c.activity => AbleTasks' = AbleTasks /\ Bodies' = Bodies
         /\ c'.activity <= c.activity =>
              AbleTasks' \subseteq AbleTasks /\ Bodies' \subseteq Bodies
         /\ c'.activity = c.activity + 1 =>
              \E t \in Tasks :
                \/ AbleTasks' = AbleTasks /\ Bodies' = Bodies
                \/ AbleTasks' = AbleTasks \cup {t} /\ Bodies' = Bodies
                \/ AbleTasks' = AbleTasks /\ Bodies' = Bodies \cup {t}
  <1>1. PICK t \in Tasks :
          /\ OthersKeep(t)
          /\ \/ c'.activity = c.activity /\ Held(t)' = Held(t) /\ Grows(t) /\ Shrinks(t)
             \/ c'.activity = c.activity + 1 /\ Held(t)' = Held(t) + 1 /\ Grows(t)
             \/ c'.activity = Lowered(c.activity) /\ Held(t) = Held(t)' + 1 /\ Shrinks(t)
             \/ c'.activity = Lowered(Lowered(c.activity)) /\ Held(t) = Held(t)' + 2 /\ Shrinks(t)
    BY DEF ActivityStep
  <1>2. /\ c.activity \in Nat /\ Held(t) \in Nat /\ Held(t)' \in Nat
        /\ Held(t) <= c.activity
    BY <1>1, OneTaskMoves DEF TypeOK, CoordinatorType, PermitAccounting, HeldByAll
  <1>3. /\ \A u \in Tasks : u \in AbleTasks <=> Runs(u) \/ Ends(u)
        /\ \A u \in Tasks : u \in AbleTasks' <=> Runs(u)' \/ Ends(u)'
        /\ \A u \in Tasks : u \in Bodies <=> HasBody(u)
        /\ \A u \in Tasks : u \in Bodies' <=> HasBody(u)'
        /\ AbleTasks \subseteq Tasks /\ AbleTasks' \subseteq Tasks
        /\ Bodies \subseteq Tasks /\ Bodies' \subseteq Tasks
    BY DEF AbleTasks, Runnable, Ending, Bodies, Runs, Ends, HasBody
  <1>4. \A u \in Tasks \ {t} : /\ u \in AbleTasks' <=> u \in AbleTasks
                               /\ u \in Bodies' <=> u \in Bodies
    BY <1>1, <1>3 DEF OthersKeep
  <1>5. \/ c'.activity = c.activity /\ Grows(t) /\ Shrinks(t)
        \/ c'.activity = c.activity + 1 /\ Held(t)' = Held(t) + 1 /\ Grows(t)
        \/ c'.activity < c.activity /\ Shrinks(t)
    BY <1>1, <1>2 DEF Lowered
  <1>6. CASE c'.activity = c.activity /\ Grows(t) /\ Shrinks(t)
    <2>1. AbleTasks' = AbleTasks /\ Bodies' = Bodies
      BY <1>3, <1>4, <1>6 DEF Grows, Shrinks
    <2>2. QED
      BY <1>2, <1>6, <2>1
  <1>7. CASE c'.activity = c.activity + 1 /\ Held(t)' = Held(t) + 1 /\ Grows(t)
    <2>1. \/ (Runs(t)' \/ Ends(t)' <=> Runs(t) \/ Ends(t)) /\ (HasBody(t)' <=> HasBody(t))
          \/ (Runs(t)' \/ Ends(t)') /\ (HasBody(t)' <=> HasBody(t))
          \/ (Runs(t)' \/ Ends(t)' <=> Runs(t) \/ Ends(t)) /\ HasBody(t)'
      BY <1>7 DEF Held, Num, Grows
    <2>2. \/ AbleTasks' = AbleTasks /\ Bodies' = Bodies
          \/ AbleTasks' = AbleTasks \cup {t} /\ Bodies' = Bodies
          \/ AbleTasks' = AbleTasks /\ Bodies' = Bodies \cup {t}
      BY <1>3, <1>4, <2>1
    <2>3. QED
      BY <1>2, <1>7, <2>2
  <1>8. CASE c'.activity < c.activity /\ Shrinks(t)
    <2>1. AbleTasks' \subseteq AbleTasks /\ Bodies' \subseteq Bodies
      BY <1>3, <1>4, <1>8 DEF Shrinks
    <2>2. c'.activity \in Nat
      BY <1>1, <1>2 DEF Lowered
    <2>3. QED
      BY <1>2, <1>8, <2>1, <2>2
  <1>9. QED
    BY <1>5, <1>6, <1>7, <1>8

\* The writes move as the checkpoint and the scheduler counts do.
LEMMA WritesMove ==
  ASSUME TypeOK, PermitAccounting, CheckpointStep, RefreshStep
  PROVE  /\ c'.checkpoint = c.checkpoint /\ c'.scheduler = c.scheduler =>
              AbleWrites' = AbleWrites
         /\ c'.checkpoint <= c.checkpoint /\ c'.scheduler <= c.scheduler =>
              AbleWrites' \subseteq AbleWrites
         /\ (\/ c'.checkpoint = c.checkpoint + 1 /\ c'.scheduler = c.scheduler
             \/ c'.checkpoint = c.checkpoint /\ c'.scheduler = c.scheduler + 1)
            => \E w \in AllWrites : AbleWrites' = AbleWrites \cup {w}
  <1>1. /\ c.checkpoint \in Nat /\ c.scheduler \in Nat
        /\ Admitted # {} => c.checkpoint # 0
        /\ Refreshing => c.scheduler # 0
    BY HeldIsCounted DEF TypeOK, CoordinatorType
  <1>2. /\ \A w \in Writes : w \in Admitted <=> Pending(w)
        /\ \A w \in Writes : w \in Admitted' <=> Pending(w)'
        /\ Admitted \subseteq Writes /\ Admitted' \subseteq Writes
    BY DEF Admitted, Pending
  <1>3. \/ c'.checkpoint = c.checkpoint /\ Admitted' = Admitted
        \/ c'.checkpoint = c.checkpoint + 1 /\ \E w \in Writes : Admitted' = Admitted \cup {w}
        \/ c'.checkpoint < c.checkpoint /\ Admitted' \subseteq Admitted
    <2>1. CASE c'.checkpoint = c.checkpoint /\ \A v \in Writes : Pending(v)' <=> Pending(v)
      BY <1>2, <2>1
    <2>2. ASSUME NEW w \in Writes, \A v \in Writes \ {w} : Pending(v)' <=> Pending(v)
          PROVE  /\ ~ Pending(w) /\ Pending(w)' => Admitted' = Admitted \cup {w}
                 /\ Pending(w) /\ ~ Pending(w)' => Admitted' \subseteq Admitted /\ c.checkpoint # 0
      <3>1. \A v \in Writes \ {w} : v \in Admitted' <=> v \in Admitted
        BY <1>2, <2>2
      <3>2. QED
        BY <1>1, <1>2, <3>1
    <2>3. c.checkpoint # 0 => Lowered(c.checkpoint) < c.checkpoint
      BY <1>1 DEF Lowered
    <2>4. QED
      BY <2>1, <2>2, <2>3 DEF CheckpointStep
  <1>4. \/ c'.scheduler = c.scheduler /\ (Refreshing' <=> Refreshing)
        \/ c'.scheduler = c.scheduler + 1 /\ ~ Refreshing /\ Refreshing'
        \/ c'.scheduler < c.scheduler /\ ~ Refreshing'
    BY <1>1 DEF RefreshStep, Lowered
  <1>5. QED
    BY <1>1, <1>3, <1>4, WriteNames DEF AbleWrites

\* The counts and the rule's work move together.
LEMMA CountsMoveWork ==
  ASSUME TypeOK, PermitAccounting, PermitStep
  PROVE  /\ Kept(c, c') => RuleAble' = RuleAble
         /\ c'.activity <= c.activity /\ c'.checkpoint <= c.checkpoint
              /\ c'.scheduler <= c.scheduler => RuleAble' \subseteq RuleAble
         /\ \A kind \in PermitKind :
              c' = Acquire(c, kind) =>
                RuleAble' = RuleAble \/ \E x \in RuleWork : RuleAble' = RuleAble \cup {x}
  <1>a. PICK A, B, W : A = AbleTasks /\ B = Bodies /\ W = AbleWrites
    OBVIOUS
  <1>b. PICK AA, BB, WW : AA = AbleTasks' /\ BB = Bodies' /\ WW = AbleWrites'
    OBVIOUS
  <1>1. RuleAble = Able(A, B, W) /\ RuleAble' = Able(AA, BB, WW)
    BY <1>a, <1>b DEF RuleAble, Able, AbleTasks, AbleWrites
  <1>2. ActivityStep /\ CheckpointStep /\ RefreshStep
    BY DEF PermitStep
  <1>3. ASSUME Kept(c, c') PROVE RuleAble' = RuleAble
    <2>1. AA = A /\ BB = B
      BY <1>2, <1>3, <1>a, <1>b, TasksMove DEF Kept
    <2>2. WW = W
      BY <1>2, <1>3, <1>a, <1>b, WritesMove DEF Kept
    <2>3. QED
      BY <1>1, <2>1, <2>2
  <1>4. ASSUME c'.activity <= c.activity, c'.checkpoint <= c.checkpoint,
               c'.scheduler <= c.scheduler
        PROVE  RuleAble' \subseteq RuleAble
    <2>1. AA \subseteq A /\ BB \subseteq B
      BY <1>2, <1>4, <1>a, <1>b, TasksMove
    <2>2. WW \subseteq W
      BY <1>2, <1>4, <1>a, <1>b, WritesMove
    <2>3. QED
      BY <1>1, <2>1, <2>2, AbleShrinks
  <1>5. ASSUME NEW kind \in PermitKind, c' = Acquire(c, kind)
        PROVE  RuleAble' = RuleAble \/ \E x \in RuleWork : RuleAble' = RuleAble \cup {x}
    <2>1. /\ c'.activity = IF kind = "activity" THEN c.activity + 1 ELSE c.activity
          /\ c'.checkpoint = IF kind = "checkpoint" THEN c.checkpoint + 1 ELSE c.checkpoint
          /\ c'.scheduler = IF kind = "scheduler" THEN c.scheduler + 1 ELSE c.scheduler
      BY <1>5, AcquireFacts DEF TypeOK, CType
    <2>2. CASE kind = "activity"
      <3>1. WW = W
        BY <1>2, <1>a, <1>b, <2>1, <2>2, WritesMove
      <3>2. PICK t \in Tasks :
              \/ AA = A /\ BB = B
              \/ AA = A \cup {t} /\ BB = B
              \/ AA = A /\ BB = B \cup {t}
        BY <1>2, <1>a, <1>b, <2>1, <2>2, TasksMove
      <3>3. \/ AA = A /\ BB = B
            \/ AA = Plus(A, t) /\ BB = B
            \/ AA = A /\ BB = Plus(B, t)
        BY <3>2 DEF Plus
      <3>4. \/ RuleAble' = RuleAble
            \/ RuleAble' = Plus(RuleAble, <<"task", t>>)
            \/ RuleAble' = Plus(RuleAble, <<"body", t>>)
        BY <1>1, <3>1, <3>3, MoreTasks, MoreBodies
      <3>5. QED
        BY <3>4, AbleType DEF Plus
    <2>3. CASE kind # "activity"
      <3>1. AA = A /\ BB = B
        BY <1>2, <1>a, <1>b, <2>1, <2>3, TasksMove
      <3>2. PICK w \in AllWrites : WW = W \cup {w}
        BY <1>2, <1>a, <1>b, <2>1, <2>3, WritesMove DEF PermitKind
      <3>3. WW = Plus(W, w)
        BY <3>2 DEF Plus
      <3>4. RuleAble' = Plus(RuleAble, <<"write", w>>)
        BY <1>1, <3>1, <3>3, MoreWrites
      <3>5. QED
        BY <3>4, AbleType DEF Plus
    <2>4. QED
      BY <2>2, <2>3
  <1>6. QED
    BY <1>3, <1>4, <1>5

\* What the phase and the withdrawal say of the rule's state.
LEMMA RuleStates ==
  ASSUME TypeOK
  PROVE  /\ RuleState = "closed" <=> c.phase = "Finished"
         /\ RuleState = "withdrawn" <=> c.phase # "Finished" /\ c.withdrawn
         /\ RuleState = "suspended" <=> c.phase = "Suspending" /\ ~ c.withdrawn
         /\ RuleState = "open" <=> Admits(c)
         /\ RuleState \in {"open", "suspended", "withdrawn", "closed"}
  <1>1. c.phase \in Phase /\ c.withdrawn \in BOOLEAN
    BY DEF TypeOK, CoordinatorType
  <1>2. CASE c.phase = "Finished"
    <2>1. RuleState = "closed"
      BY <1>2 DEF RuleState
    <2>2. QED
      BY <1>2, <2>1 DEF Admits
  <1>3. CASE c.phase # "Finished" /\ c.withdrawn
    <2>1. RuleState = "withdrawn"
      BY <1>3 DEF RuleState
    <2>2. QED
      BY <1>3, <2>1 DEF Admits
  <1>4. CASE c.phase = "Suspending" /\ ~ c.withdrawn
    <2>1. RuleState = "suspended"
      BY <1>4 DEF RuleState
    <2>2. QED
      BY <1>4, <2>1 DEF Admits
  <1>5. CASE c.phase = "Running" /\ ~ c.withdrawn
    <2>1. RuleState = "open"
      BY <1>5 DEF RuleState
    <2>2. QED
      BY <1>5, <2>1 DEF Admits
  <1>6. QED
    BY <1>1, <1>2, <1>3, <1>4, <1>5 DEF Phase

LEMMA NextRuleStates ==
  ASSUME TypeOK'
  PROVE  /\ RuleState' = "closed" <=> c'.phase = "Finished"
         /\ RuleState' = "withdrawn" <=> c'.phase # "Finished" /\ c'.withdrawn
         /\ RuleState' = "suspended" <=> c'.phase = "Suspending" /\ ~ c'.withdrawn
         /\ RuleState' = "open" <=> Admits(c')
         /\ RuleState' \in {"open", "suspended", "withdrawn", "closed"}
  <1>1. c'.phase \in Phase /\ c'.withdrawn \in BOOLEAN
    BY DEF TypeOK, CoordinatorType
  <1>2. CASE c'.phase = "Finished"
    <2>1. RuleState' = "closed"
      BY <1>2 DEF RuleState
    <2>2. QED
      BY <1>2, <2>1 DEF Admits
  <1>3. CASE c'.phase # "Finished" /\ c'.withdrawn
    <2>1. RuleState' = "withdrawn"
      BY <1>3 DEF RuleState
    <2>2. QED
      BY <1>3, <2>1 DEF Admits
  <1>4. CASE c'.phase = "Suspending" /\ ~ c'.withdrawn
    <2>1. RuleState' = "suspended"
      BY <1>4 DEF RuleState
    <2>2. QED
      BY <1>4, <2>1 DEF Admits
  <1>5. CASE c'.phase = "Running" /\ ~ c'.withdrawn
    <2>1. RuleState' = "open"
      BY <1>5 DEF RuleState
    <2>2. QED
      BY <1>5, <2>1 DEF Admits
  <1>6. QED
    BY <1>1, <1>2, <1>3, <1>4, <1>5 DEF Phase

\* A coordinator without permits means that nothing can make progress.
LEMMA NothingAbleNext ==
  ASSUME TypeOK', PermitAccounting', NoPermits(c')
  PROVE  RuleAble' = {}
  <1>1. /\ IsFiniteSet(Runnable') /\ IsFiniteSet(Ending') /\ IsFiniteSet(Bodies')
        /\ IsFiniteSet(Admitted')
    BY FS_Subset, TaskAssumption DEF Runnable, Ending, Bodies, Admitted
  <1>2. /\ Cardinality(Runnable') \in Nat /\ Cardinality(Ending') \in Nat
        /\ Cardinality(Bodies') \in Nat
    BY <1>1, FS_CardinalityType
  <1>3. /\ c'.activity = Cardinality(Runnable') + Cardinality(Ending') + Cardinality(Bodies')
        /\ c'.checkpoint = Cardinality(Admitted')
        /\ c'.scheduler = IF Refreshing' THEN 1 ELSE 0
    BY DEF PermitAccounting
  <1>4. /\ Cardinality(Runnable') = 0 /\ Cardinality(Ending') = 0 /\ Cardinality(Bodies') = 0
        /\ Cardinality(Admitted') = 0 /\ ~ Refreshing'
    BY <1>2, <1>3 DEF NoPermits
  <1>5. Runnable' = {} /\ Ending' = {} /\ Bodies' = {} /\ Admitted' = {}
    BY <1>1, <1>4, FS_EmptySet
  <1>6. QED
    BY <1>4, <1>5 DEF RuleAble

LEMMA StepOfRule ==
  ASSUME SuspensionInv, [Next]_vars
  PROVE  [Rule!RuleNext]_(Rule!ruleVars)
  <1> USE DEF Rule!ruleVars
  <1>1. /\ SuspensionInv' /\ PermitStep /\ CoordinatorStep /\ TypeOK /\ TypeOK'
        /\ PermitAccounting /\ PermitAccounting' /\ c \in CType
    BY NextSuspension DEF CallStep, SuspensionInv, PermitInv, TypeOK, CType
  <1>2. /\ c.waits \subseteq Tasks \X Ops /\ c'.waits \subseteq Tasks \X Ops
        /\ c.activity \in Nat /\ c.checkpoint \in Nat /\ c.scheduler \in Nat
    BY <1>1 DEF TypeOK, CoordinatorType
  <1>3. CASE Yields(c, c')
    <2>1. RuleAble' \subseteq RuleAble /\ c'.waits \subseteq c.waits
      BY <1>1, <1>3, CountsMoveWork DEF Yields
    <2>2. \/ RuleState' = RuleState
          \/ RuleState = "open" /\ RuleAble' = {} /\ c'.waits # {} /\ RuleState' = "suspended"
      <3>1. CASE RuleState' = "suspended" /\ DecidesBy(c, c')
        BY <1>1, <3>1, RuleStates, NothingAbleNext DEF DecidesBy, Admits
      <3>2. CASE ~ (RuleState' = "suspended" /\ DecidesBy(c, c'))
        <4>1. /\ c'.withdrawn = c.withdrawn
              /\ c'.phase = "Finished" <=> c.phase = "Finished"
              /\ c'.phase = "Running" => c.phase = "Running"
              /\ c'.phase = "Suspending" => c.phase = "Suspending" \/ c'.withdrawn \/ DecidesBy(c, c')
          BY <1>3 DEF Yields
        <4>2. c.phase \in Phase /\ c'.phase \in Phase /\ c'.withdrawn \in BOOLEAN
          BY <1>1 DEF TypeOK, CoordinatorType
        <4>3. QED
          BY <1>1, <3>2, <4>1, <4>2, RuleStates, NextRuleStates DEF Admits, Phase
      <3>3. QED
        BY <3>1, <3>2
    <2>3. \E xs \in SUBSET RuleWork, ks \in SUBSET (Tasks \X Ops) : Rule!Settle(xs, ks)
      <3> DEFINE xs == RuleAble \ RuleAble'
                 ks == c.waits \ c'.waits
      <3>1. xs \in SUBSET RuleWork /\ ks \in SUBSET (Tasks \X Ops)
        BY <1>2, AbleType
      <3>2. RuleAble' = RuleAble \ xs /\ c'.waits = c.waits \ ks
        BY <2>1
      <3>3. Rule!Settle(xs, ks)
        BY <2>2, <3>2 DEF Rule!Settle
      <3>4. QED
        BY <3>1, <3>3
    <2>4. QED
      BY <2>3 DEF Rule!RuleNext
  <1>4. ASSUME NEW kind \in PermitKind, Admits(c), c' = Acquire(c, kind)
        PROVE  [Rule!RuleNext]_(Rule!ruleVars)
    <2>1. /\ c'.waits = c.waits /\ c'.phase = c.phase /\ c'.withdrawn = c.withdrawn
      BY <1>1, <1>4, AcquireFacts
    <2>2. RuleState = "open" /\ RuleState' = RuleState
      BY <1>1, <1>4, <2>1, RuleStates, NextRuleStates DEF Admits
    <2>3. CASE RuleAble' = RuleAble
      BY <2>1, <2>2, <2>3
    <2>4. ASSUME NEW x \in RuleWork, RuleAble' = RuleAble \cup {x} PROVE Rule!StartWork(x)
      BY <2>1, <2>2, <2>4 DEF Rule!StartWork
    <2>5. QED
      BY <1>1, <1>4, <2>3, <2>4, CountsMoveWork DEF Rule!RuleNext
  <1>5. ASSUME NEW k \in Tasks \X Ops, Admits(c), Runnable # {}, c' = RegisterWait(c, k)
        PROVE  [Rule!RuleNext]_(Rule!ruleVars)
    <2>1. /\ c'.waits = c.waits \cup {k} /\ c'.phase = c.phase /\ c'.withdrawn = c.withdrawn
          /\ c'.activity = c.activity /\ c'.checkpoint = c.checkpoint
          /\ c'.scheduler = c.scheduler
      BY <1>1, <1>5 DEF RegisterWait, CType, CoordinatorType
    <2>2. RuleState = "open" /\ RuleState' = RuleState
      BY <1>1, <1>5, <2>1, RuleStates, NextRuleStates DEF Admits
    <2>3. RuleAble' = RuleAble
      <3>1. AbleTasks' = AbleTasks /\ Bodies' = Bodies /\ AbleWrites' = AbleWrites
        BY <1>1, <2>1, TasksMove, WritesMove DEF PermitStep
      <3>2. QED
        BY <3>1 DEF RuleAble, AbleTasks, AbleWrites
    <2>4. RuleAble # {}
      <3>1. PICK t \in Runnable : TRUE
        BY <1>5
      <3>2. <<"task", t>> \in RuleAble
        BY <3>1 DEF RuleAble
      <3>3. QED
        BY <3>2
    <2>5. Rule!StartWaiting(k)
      BY <2>1, <2>2, <2>3, <2>4 DEF Rule!StartWaiting
    <2>6. QED
      BY <1>5, <2>5 DEF Rule!RuleNext
  <1>6. CASE c' = Finish(c)
    <2>1. Kept(c, c') /\ c'.phase = "Finished"
      BY <1>1, <1>6, RecordCalls DEF Finish, CType, CoordinatorType
    <2>2. RuleAble' = RuleAble /\ c'.waits = c.waits /\ RuleState' = "closed"
      BY <1>1, <2>1, CountsMoveWork, NextRuleStates DEF Kept
    <2>3. QED
      BY <2>2 DEF Rule!RuleNext, Rule!Close
  <1>7. CASE c' = SetWithdrawn(c) /\ \E w \in AllWrites : wr[w].st = "sent"
    <2>1. Kept(c, c') /\ c'.phase = c.phase /\ c'.withdrawn
      BY <1>1, <1>7, RecordCalls DEF SetWithdrawn, CType, CoordinatorType
    <2>2. RuleAble' = RuleAble /\ c'.waits = c.waits
      BY <1>1, <2>1, CountsMoveWork DEF Kept
    <2>3. ~ (c.phase = "Suspending" /\ ~ c.withdrawn)
      <3>1. ASSUME c.phase = "Suspending", ~ c.withdrawn PROVE FALSE
        <4>1. Admitted = {} /\ wr[Refresh].st = "free"
          BY <1>1, <3>1, NothingHeld DEF SuspensionInv, Quiet
        <4>2. QED
          BY <1>7, <4>1 DEF Admitted, AllWrites
      <3>2. QED
        BY <3>1
    <2>4. RuleState' = IF RuleState = "open" THEN "withdrawn" ELSE RuleState
      BY <1>1, <2>1, <2>3, RuleStates, NextRuleStates DEF Admits
    <2>5. QED
      BY <2>2, <2>4 DEF Rule!RuleNext, Rule!Withdraw
  <1>8. CASE driver = "takePanic" /\ c' = TakePanic(c)
    <2>1. Kept(c, c') /\ c'.phase = c.phase
      BY <1>1, <1>8, RecordCalls DEF TakePanic, CType, CoordinatorType
    <2>2. c.phase = "Finished"
      BY <1>8 DEF SuspensionInv, DriverInv, FinishShape, PastFinish, PastRoot, PastIdle
    <2>3. RuleAble' = RuleAble /\ c'.waits = c.waits /\ RuleState' = RuleState
      BY <1>1, <2>1, <2>2, CountsMoveWork, RuleStates, NextRuleStates DEF Kept
    <2>4. QED
      BY <2>3
  <1>9. QED
    BY <1>1, <1>3, <1>4, <1>5, <1>6, <1>7, <1>8 DEF CoordinatorStep

LEMMA StartOfRule == Init => Rule!RuleInit
  <1>1. ASSUME Init PROVE Rule!RuleInit
    <2>a. NewCoordinator.phase = "Running" /\ NewCoordinator.waits = {} /\ ~ NewCoordinator.withdrawn
      BY DEF NewCoordinator
    <2>b. \A s \in CType : /\ RecordPanic(s).phase = s.phase /\ RecordPanic(s).waits = s.waits
                           /\ RecordPanic(s).withdrawn = s.withdrawn
      BY DEF RecordPanic, CType, CoordinatorType
    <2>1. c.phase = "Running" /\ c.waits = {} /\ ~ c.withdrawn
      BY <1>1, <2>a, <2>b, NewCoordinatorType DEF Init
    <2>2. RuleState = "open"
      BY <2>1 DEF RuleState
    <2>3. Runnable = {} /\ Ending = {} /\ Bodies = {} /\ Admitted = {} /\ ~ Refreshing
      BY <1>1, WriteNames
      DEF Init, Runnable, Ending, Bodies, Admitted, Refreshing, Run, NoWrite
    <2>4. RuleAble = {}
      BY <2>3 DEF RuleAble
    <2>5. QED
      BY <2>1, <2>2, <2>4 DEF Rule!RuleInit
  <1>2. QED
    BY <1>1

\* The whole invocation implements the suspension rule: an open invocation
\* suspends only when no work can make progress and an operation waits, and
\* once it is not open no work starts and no operation begins to wait
\* (coordinator.rs, module `suspension`).
THEOREM InvocationImplementsRule == Spec => ImplementsRule
  <1>1. SuspensionInv /\ [Next]_vars => SuspensionInv'
    BY NextSuspension
  <1>2. SuspensionInv /\ [Next]_vars => [Rule!RuleNext]_(Rule!ruleVars)
    BY StepOfRule
  <1>3. QED
    BY <1>1, <1>2, InitSuspension, StartOfRule, PTL DEF Spec, ImplementsRule, Rule!RuleSpec
=============================================================================
