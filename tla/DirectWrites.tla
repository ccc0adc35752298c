---------------------------- MODULE DirectWrites ----------------------------
(***************************************************************************)
(* The unbuffered checkpoint writes of one invocation (context.rs,         *)
(* `DirectWriteQueue`): a write takes its checkpoint permit, enters a FIFO *)
(* queue, and one detached writer sends the entries in order.  The drive   *)
(* is kept only as far as the writes see it: it closes admission, waits    *)
(* for the SDK's tasks, and returns.                                       *)
(***************************************************************************)
EXTENDS RequestPath, FiniteSets

CONSTANT Caller   \* the task of `checkpoint_updates_after_drive`

ASSUME CallerAssumption == Caller \in Procs

Writers == Procs \ {Caller}   \* the writer tasks that may be started

VARIABLES
  st,       \* what became of each write
  order,    \* the writes in the order they entered the queue
  seen,     \* the scopes that were closed when a write entered the queue
  queue,    \* the queued entries
  held,     \* the writes whose reservation is not released
  running,  \* `writer_running`
  writer,   \* "off", "next", "waiting" (at a held entry), "writing", "ending"
            \* or "gone", for each writer
  drive     \* "open", "cleaning" or "returned"

queueVars == <<order, seen, queue, held, running, writer>>
vars == <<requestVars, st, queueVars, drive>>

WriteState == {"new", "admitted", "queued", "taken", "resolved", "dropped"}

TypeOK ==
  /\ RequestTypeOK
  /\ st \in [Updates -> WriteState]
  /\ order \in Seq(Updates) /\ seen \in [Updates -> SUBSET Scopes]
  /\ queue \in Seq(Writes) /\ held \subseteq Writes /\ running \in BOOLEAN
  /\ writer \in [Writers -> {"off", "next", "waiting", "writing", "ending", "gone"}]
  /\ drive \in {"open", "cleaning", "returned"}

Init ==
  /\ RequestInit
  /\ st = [w \in Updates |-> "new"]
  /\ order = <<>> /\ seen = [w \in Updates |-> {}]
  /\ queue = <<>> /\ held = {} /\ running = FALSE
  /\ writer = [i \in Writers |-> "off"]
  /\ drive = "open"

Becomes(ws, state) == [w \in Updates |-> IF w \in ws THEN state ELSE st[w]]

\* The checkpoint permit: the phase runs, and no latch is set.
Admit(w) ==
  /\ w \in Writes /\ st[w] = "new"
  /\ drive = "open" /\ latch = "none"
  /\ st' = Becomes({w}, "admitted")
  /\ UNCHANGED <<requestVars, queueVars, drive>>

Entering(w) ==
  /\ order' = Append(order, w)
  /\ seen' = [seen EXCEPT ![w] = closed]

WriterStarts ==
  LET i == CHOOSE i \in Writers : writer[i] = "off" IN
  /\ \E j \in Writers : writer[j] = "off"
  /\ writer' = [writer EXCEPT ![i] = "next"]

\* Under the queue's lock. A failed write rejects the entry; the push that
\* finds no writer starts one. A reserved entry is held.
Enqueue(w, reserved) ==
  /\ w \in Writes /\ st[w] = "admitted"
  /\ IF latch = "failed"
       THEN st' = Becomes({w}, "dropped") /\ UNCHANGED queueVars
       ELSE /\ Entering(w)
            /\ st' = Becomes({w}, "queued")
            /\ queue' = Append(queue, w)
            /\ held' = IF reserved THEN held \cup {w} ELSE held
            /\ running' = TRUE
            /\ IF running THEN UNCHANGED writer ELSE WriterStarts
  /\ UNCHANGED <<requestVars, drive>>

\* Mutant: the release does not notify the writer.
ReleaseSilent(w) ==
  /\ w \in held
  /\ held' = held \ {w}
  /\ UNCHANGED <<requestVars, st, order, seen, queue, running, writer, drive>>

\* A reservation is released, or dropped with its task. The writer that
\* waits is notified; the entry may be gone.
Release(w) ==
  /\ w \in held
  /\ held' = held \ {w}
  /\ writer' = [i \in Writers |-> IF writer[i] = "waiting" THEN "next" ELSE writer[i]]
  /\ UNCHANGED <<requestVars, st, order, seen, queue, running, drive>>

\* Mutant: the writer skips a held entry instead of waiting at it.
NextEntrySkips(i) ==
  /\ writer[i] = "next"
  /\ \E n \in DOMAIN queue :
       /\ queue[n] \notin held
       /\ queue' = RemoveAt(queue, n)
       /\ st' = Becomes({queue[n]}, "taken")
       /\ Starts(i, <<queue[n]>>, TRUE)
  /\ writer' = [writer EXCEPT ![i] = "writing"]
  /\ UNCHANGED <<token, lock, svc, latch, closed, order, seen, held, running, drive>>

\* `DirectWriteQueue::next`, with an entry that is not held.
NextEntry(i) ==
  /\ writer[i] = "next"
  /\ queue # <<>> /\ Head(queue) \notin held
  /\ queue' = Tail(queue)
  /\ st' = Becomes({Head(queue)}, "taken")
  /\ Starts(i, <<Head(queue)>>, TRUE)
  /\ writer' = [writer EXCEPT ![i] = "writing"]
  /\ UNCHANGED <<token, lock, svc, latch, closed, order, seen, held, running, drive>>

\* The writer waits at a held entry; it registers before it looks.
NextWaits(i) ==
  /\ writer[i] = "next"
  /\ queue # <<>> /\ Head(queue) \in held
  /\ writer' = [writer EXCEPT ![i] = "waiting"]
  /\ UNCHANGED <<requestVars, st, order, seen, queue, held, running, drive>>

\* Mutant: the writer that found the queue empty is still marked running.
NextFindsNoneRunning(i) ==
  /\ writer[i] = "next" /\ queue = <<>>
  /\ writer' = [writer EXCEPT ![i] = "ending"]
  /\ UNCHANGED <<requestVars, st, order, seen, queue, held, running, drive>>

\* The empty queue marks the writer stopped, under the queue's lock.
NextFindsNone(i) ==
  /\ writer[i] = "next" /\ queue = <<>>
  /\ running' = FALSE
  /\ writer' = [writer EXCEPT ![i] = "ending"]
  /\ UNCHANGED <<requestVars, st, order, seen, queue, held, drive>>

\* `abandon_queued_writes` under the token lock; the failed or withdrawn
\* request itself is answered with nothing.
AbandonQueued(p) ==
  /\ req[p].pc = "abandon"
  /\ queue' = <<>>
  /\ st' = Becomes(ToSet(queue), "dropped")
  /\ Put(p, "stopped") /\ lock' = None
  /\ UNCHANGED <<token, svc, latch, closed, order, seen, held, running, writer, drive>>

\* The result is sent to the caller, and the permit released. A write that
\* was rejected, stopped or failed leaves its caller pending.
EndWrite(i) ==
  /\ writer[i] = "writing" /\ req[i].pc \in {"ok", "stopped", "rejected"}
  /\ st' = Becomes(ToSet(req[i].carry), IF req[i].pc = "ok" THEN "resolved" ELSE "dropped")
  /\ req' = [req EXCEPT ![i] = NoRequest]
  /\ writer' = [writer EXCEPT ![i] = "next"]
  /\ UNCHANGED <<token, lock, svc, latch, closed, order, seen, queue, held, running, drive>>

\* `WriterUnwind`: the panic of the client marks the writer stopped, so the
\* next write starts another one.
Unwind(i) ==
  /\ ClientPanics(i)
  /\ writer[i] = "writing"
  /\ running' = FALSE
  /\ writer' = [writer EXCEPT ![i] = "gone"]
  /\ st' = Becomes(ToSet(req[i].carry), "dropped")
  /\ UNCHANGED <<order, seen, queue, held, drive>>

WriterExits(i) ==
  /\ writer[i] = "ending"
  /\ writer' = [writer EXCEPT ![i] = "off"]
  /\ UNCHANGED <<requestVars, st, order, seen, queue, held, running, drive>>

\* The drive ends for whatever reason, and waits for every SDK task.
DriveEnds ==
  /\ drive = "open" /\ drive' = "cleaning"
  /\ UNCHANGED <<requestVars, st, queueVars>>

DriveReturns ==
  /\ drive = "cleaning"
  /\ \A w \in Writes : st[w] # "admitted"
  /\ held = {}
  /\ \A i \in Writers : writer[i] \in {"off", "gone"}
  /\ drive' = "returned"
  /\ UNCHANGED <<requestVars, st, queueVars>>

\* An oversized result is written after the drive, by the caller itself.
WriteResult ==
  /\ drive = "returned" /\ ~ Panicked
  /\ st[Final] = "new"
  /\ st' = Becomes({Final}, "taken")
  /\ Entering(Final)
  /\ Starts(Caller, <<Final>>, TRUE)
  /\ UNCHANGED <<token, lock, svc, latch, closed, queue, held, running, writer, drive>>

EndResult ==
  /\ st[Final] = "taken" /\ req[Caller].pc \in {"ok", "stopped"}
  /\ st' = Becomes({Final}, IF req[Caller].pc = "ok" THEN "resolved" ELSE "dropped")
  /\ req' = [req EXCEPT ![Caller] = NoRequest]
  /\ UNCHANGED <<token, lock, svc, latch, closed, queueVars, drive>>

Requests == \E p \in Procs : RequestStep(p) /\ UNCHANGED <<st, queueVars, drive>>
ScopesClose == \E s \in Scopes : CloseScope(s) /\ UNCHANGED <<st, queueVars, drive>>

WriterStep(i) ==
  \/ RequestStep(i) /\ UNCHANGED <<st, queueVars, drive>>
  \/ NextEntry(i) \/ NextWaits(i) \/ NextFindsNone(i) \/ AbandonQueued(i)
  \/ EndWrite(i) \/ WriterExits(i)

Next ==
  \/ \E w \in Writes : Admit(w) \/ Release(w) \/ \E reserved \in BOOLEAN : Enqueue(w, reserved)
  \/ Requests
  \/ ScopesClose
  \/ \E i \in Writers : NextEntry(i) \/ NextWaits(i) \/ NextFindsNone(i)
                          \/ EndWrite(i) \/ Unwind(i) \/ WriterExits(i)
  \/ \E p \in Procs : AbandonQueued(p)
  \/ DriveEnds \/ DriveReturns \/ WriteResult \/ EndResult

Spec == Init /\ [][Next]_vars

\* The writer task is polled, the service ends every request, a reservation
\* is released and a submission that began goes on.
Fairness ==
  /\ \A i \in Writers : WF_vars(WriterStep(i))
  /\ \A w \in Writes : WF_vars(Release(w)) /\ WF_vars(\E reserved \in BOOLEAN : Enqueue(w, reserved))

FairSpec == Spec /\ Fairness

(***************************************************************************)
(* Properties.                                                             *)
(***************************************************************************)
\* Once an update that was submitted after a scope closed is recorded,
\* such as the parent's outcome, nothing of that scope is recorded.
ClosedScopeIsSilent ==
  \A m, n \in DOMAIN svc.journal :
    m < n => OwnersOf(svc.journal[n]) \cap seen[svc.journal[m]] = {}

\* Every write that entered the path is settled: answered once it is
\* recorded, or dropped for good; none waits behind a reservation forever.
\* A panic of the client is the exception.
WritesSettle ==
  \A w \in Writes :
    st[w] = "admitted" ~> (st[w] \in {"resolved", "dropped"} \/ Panicked)

Journal == INSTANCE OrderedJournal
             WITH order <- order, journal <- svc.journal, shut <- latch # "none",
                  resolved <- {w \in Updates : st[w] = "resolved"}

\* The queue and its writer implement the ordered journal.
ImplementsJournal == Journal!JournalSpec
=============================================================================
