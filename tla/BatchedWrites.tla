--------------------------- MODULE BatchedWrites ---------------------------
(***************************************************************************)
(* The buffered checkpoint writes of one invocation                        *)
(* (checkpoint_coalescer.rs, and `join_batch`, `spawn_batch_flush` and     *)
(* `flush_pending_checkpoints` of context.rs).  An update joins the open   *)
(* batch; flusher tasks claim a batch under the writer lock, send it in    *)
(* requests of bounded size, and publish the result to its contributors.   *)
(* After the drive the caller drains the buffer, then it may write an      *)
(* oversized result.                                                       *)
(***************************************************************************)
EXTENDS RequestPath, FiniteSets

CONSTANTS
  Caller,     \* the task that flushes after the drive
  Refresh,    \* a refresh, which joins with no update
  Delayed,    \* whether a delay window is configured
  MaxOps      \* updates in one request (`BatchLimits`)

ASSUME BatchAssumption ==
  Caller \in Procs /\ Refresh \notin Updates /\ Delayed \in BOOLEAN /\ MaxOps \in Nat \ {0}

Flushers == Procs \ {Caller}   \* bound: the flush tasks that may be spawned
Contributors == Writes \cup {Refresh}

VARIABLES
  st,         \* what became of each contribution
  order,      \* the updates in join order
  seen,       \* the scopes that were closed when an update joined
  pending,    \* the buffered updates
  batch,      \* the batch each contribution joined
  open,       \* the open batch, 0 without one
  held,       \* the contributions whose reservation holds the open batch
  writer,     \* who holds the writer lock
  flush,      \* the flushers: [pc, target, rest]
  drive       \* "open", "cleaning", "returned", "flushing", "flushed"

bufferVars == <<order, seen, pending, batch, open, held>>
vars == <<requestVars, st, bufferVars, writer, flush, drive>>

WriteState == {"new", "joined", "resolved", "dropped"}
FlushState == {"off", "window", "lock", "claim", "unheld", "writing", "gone"}
NoFlush == [pc |-> "off", target |-> 0, rest |-> <<>>]

TypeOK ==
  /\ RequestTypeOK
  /\ st \in [Contributors \cup {Final} -> WriteState]
  /\ order \in Seq(Updates) /\ seen \in [Updates -> SUBSET Scopes]
  /\ pending \in Seq(Writes) /\ batch \in [Contributors -> Nat] /\ open \in Nat
  /\ held \subseteq Writes /\ writer \in Procs \cup {None}
  /\ \A f \in Procs : /\ flush[f].pc \in FlushState /\ flush[f].target \in Nat
                      /\ flush[f].rest \in Seq(Writes)
  /\ drive \in {"open", "cleaning", "returned", "flushing", "flushed"}

Init ==
  /\ RequestInit
  /\ st = [w \in Contributors \cup {Final} |-> "new"]
  /\ order = <<>> /\ seen = [w \in Updates |-> {}]
  /\ pending = <<>> /\ batch = [w \in Contributors |-> 0] /\ open = 0 /\ held = {}
  /\ writer = None /\ flush = [f \in Procs |-> NoFlush]
  /\ drive = "open"

Becomes(ws, state) == [w \in DOMAIN st |-> IF w \in ws THEN state ELSE st[w]]
Joined(b) == {w \in Contributors : batch[w] = b /\ st[w] = "joined"}
LastBatch == CHOOSE b \in {batch[w] : w \in Contributors} : \A w \in Contributors : batch[w] <= b

\* `spawn_batch_flush`: a detached task that waits out the window first.
Spawns(pc, b) ==
  LET f == CHOOSE f \in Flushers : flush[f].pc = "off" IN
  /\ \E g \in Flushers : flush[g].pc = "off"
  /\ flush' = [flush EXCEPT ![f] = [pc |-> pc, target |-> b, rest |-> <<>>]]

Rejected(w) ==
  /\ st' = Becomes({w}, "dropped")
  /\ UNCHANGED <<bufferVars, flush>>

JoinsBatch(w, b, urgent, reserve) ==
  /\ st' = Becomes({w}, "joined")
  /\ batch' = [batch EXCEPT ![w] = b]
  /\ open' = b
  /\ held' = IF reserve THEN held \cup {w} ELSE held
  /\ IF w = Refresh THEN UNCHANGED <<pending, order, seen>>
     ELSE /\ pending' = Append(pending, w)
          /\ order' = Append(order, w)
          /\ seen' = [seen EXCEPT ![w] = closed]
  /\ IF urgent \/ ~ Delayed THEN Spawns("lock", b)
     ELSE IF open = 0 THEN Spawns("window", b)
     ELSE UNCHANGED flush

\* Mutant: a join does not ask whether its scope is closed.
JoinUnadmitted(w, urgent, reserve) ==
  /\ st[w] = "new"
  /\ w = Refresh => urgent /\ ~ reserve
  /\ IF drive = "open" /\ latch = "none"
       THEN JoinsBatch(w, IF open = 0 THEN LastBatch + 1 ELSE open, urgent, reserve)
       ELSE Rejected(w)
  /\ UNCHANGED <<requestVars, writer, drive>>

\* `join_batch`: the admission and the permit are checked under the buffer
\* lock. An urgent join, and any join without a window, flushes at once;
\* otherwise the join that opens the batch arms its window.
Join(w, urgent, reserve) ==
  /\ st[w] = "new"
  /\ w = Refresh => urgent /\ ~ reserve
  /\ IF /\ w = Refresh \/ AdmittedByScopes(<<w>>)
        /\ drive = "open" /\ latch = "none"
       THEN JoinsBatch(w, IF open = 0 THEN LastBatch + 1 ELSE open, urgent, reserve)
       ELSE Rejected(w)
  /\ UNCHANGED <<requestVars, writer, drive>>

\* A reservation is released: flushers that wait for the holds look again.
ReleaseHold(w) ==
  /\ w \in held
  /\ held' = held \ {w}
  /\ flush' = [f \in Procs |-> IF flush[f].pc = "unheld" THEN [flush[f] EXCEPT !.pc = "claim"]
                               ELSE flush[f]]
  /\ UNCHANGED <<requestVars, st, order, seen, pending, batch, open, writer, drive>>

\* The window elapses, or ends early (`coalescing_window`).
WindowEnds(f) ==
  /\ flush[f].pc = "window"
  /\ flush' = [flush EXCEPT ![f].pc = "lock"]
  /\ UNCHANGED <<requestVars, st, bufferVars, writer, drive>>

\* Mutant: a flusher writes without the writer lock.
TakeWriterUnlocked(f) ==
  /\ flush[f].pc = "lock"
  /\ writer' = f
  /\ flush' = [flush EXCEPT ![f].pc = "claim"]
  /\ UNCHANGED <<requestVars, st, bufferVars, drive>>

TakeWriter(f) ==
  /\ flush[f].pc = "lock" /\ writer = None
  /\ writer' = f
  /\ flush' = [flush EXCEPT ![f].pc = "claim"]
  /\ UNCHANGED <<requestVars, st, bufferVars, drive>>

\* `when_unheld`: the flusher keeps the writer lock while it waits.
WaitUnheld(f) ==
  /\ flush[f].pc = "claim" /\ held # {}
  /\ flush' = [flush EXCEPT ![f].pc = "unheld"]
  /\ UNCHANGED <<requestVars, st, bufferVars, writer, drive>>

\* The batch a flusher may claim: its own, or any for the last flush.
Claimable(f) == open # 0 /\ (f = Caller \/ flush[f].target = open)

Smaller(m, n) == IF m < n THEN m ELSE n

\* `split_into_requests`, one request at a time; a batch without updates is
\* one request that carries none.
SendsChunk(f, target, ws) ==
  LET n == Smaller(MaxOps, Len(ws)) IN
  /\ Starts(f, SubSeq(ws, 1, n), FALSE)
  /\ flush' = [flush EXCEPT ![f] = [pc |-> "writing", target |-> target,
                                    rest |-> SubSeq(ws, n + 1, Len(ws))]]

\* Mutant: a claimed batch stays open.
ClaimKeepsOpen(f) ==
  /\ flush[f].pc = "claim" /\ held = {} /\ Claimable(f)
  /\ SendsChunk(f, open, pending)
  /\ pending' = <<>>
  /\ UNCHANGED <<token, lock, svc, latch, closed, st, order, seen, batch, open, held, writer, drive>>

\* The claim takes the batch out of the buffer.
Claim(f) ==
  /\ flush[f].pc = "claim" /\ held = {} /\ Claimable(f)
  /\ SendsChunk(f, open, pending)
  /\ pending' = <<>> /\ open' = 0
  /\ UNCHANGED <<token, lock, svc, latch, closed, st, order, seen, batch, held, writer, drive>>

\* Another flusher claimed the batch, or it was dropped; for the last
\* flush, the buffer is empty.
ClaimsNothing(f) ==
  /\ flush[f].pc = "claim" /\ held = {} /\ ~ Claimable(f)
  /\ flush' = [flush EXCEPT ![f] = NoFlush]
  /\ writer' = None
  /\ drive' = IF f = Caller THEN "flushed" ELSE drive
  /\ UNCHANGED <<requestVars, st, bufferVars>>

Sending(f) == flush[f].pc = "writing"
EndsRequest(f) == req' = [req EXCEPT ![f] = NoRequest]

\* The next request of the batch.
NextChunk(f) ==
  /\ Sending(f) /\ req[f].pc = "ok" /\ flush[f].rest # <<>>
  /\ SendsChunk(f, flush[f].target, flush[f].rest)
  /\ UNCHANGED <<token, lock, svc, latch, closed, st, bufferVars, writer, drive>>

\* Mutant: the first accepted request publishes the batch.
PublishFirst(f) ==
  /\ Sending(f) /\ req[f].pc = "ok"
  /\ st' = Becomes(Joined(flush[f].target), "resolved")
  /\ flush' = [flush EXCEPT ![f] = IF f = Caller THEN [NoFlush EXCEPT !.pc = "claim"] ELSE NoFlush]
  /\ writer' = IF f = Caller THEN f ELSE None
  /\ EndsRequest(f)
  /\ UNCHANGED <<token, lock, svc, latch, closed, bufferVars, drive>>

\* All requests were accepted: the result is published to every
\* contributor. The last flush goes on with the next batch.
Publish(f) ==
  /\ Sending(f) /\ req[f].pc = "ok" /\ flush[f].rest = <<>>
  /\ st' = Becomes(Joined(flush[f].target), "resolved")
  /\ flush' = [flush EXCEPT ![f] = IF f = Caller THEN [NoFlush EXCEPT !.pc = "claim"] ELSE NoFlush]
  /\ writer' = IF f = Caller THEN f ELSE None
  /\ EndsRequest(f)
  /\ UNCHANGED <<token, lock, svc, latch, closed, bufferVars, drive>>

\* A request that sent nothing or failed stops the batch: nothing is
\* published, and the last flush ends.
StopBatch(f) ==
  /\ Sending(f) /\ req[f].pc = "stopped"
  /\ st' = Becomes(Joined(flush[f].target), "dropped")
  /\ flush' = [flush EXCEPT ![f] = NoFlush]
  /\ writer' = None
  /\ EndsRequest(f)
  /\ drive' = IF f = Caller THEN "flushed" ELSE drive
  /\ UNCHANGED <<token, lock, svc, latch, closed, bufferVars>>

\* `abandon_pending`: the open batch is dropped; its holds stay counted.
AbandonPending(p) ==
  /\ req[p].pc = "abandon"
  /\ pending' = <<>> /\ open' = 0
  /\ st' = IF open = 0 THEN st ELSE Becomes(Joined(open), "dropped")
  /\ Put(p, "stopped") /\ lock' = None
  /\ UNCHANGED <<token, svc, latch, closed, order, seen, batch, held, writer, flush, drive>>

\* A panic of the client unwinds the flusher: nothing publishes its batch.
Unwind(f) ==
  /\ f \in Flushers /\ Sending(f)
  /\ ClientPanics(f)
  /\ st' = Becomes(Joined(flush[f].target), "dropped")
  /\ flush' = [flush EXCEPT ![f].pc = "gone", ![f].rest = <<>>]
  /\ writer' = None
  /\ UNCHANGED <<bufferVars, drive>>

DriveEnds ==
  /\ drive = "open" /\ drive' = "cleaning"
  /\ UNCHANGED <<requestVars, st, bufferVars, writer, flush>>

DriveReturns ==
  /\ drive = "cleaning"
  /\ held = {}
  /\ \A f \in Flushers : flush[f].pc \in {"off", "gone"}
  /\ drive' = "returned"
  /\ UNCHANGED <<requestVars, st, bufferVars, writer, flush>>

\* `flush_pending_checkpoints`. After a panic the invocation answers none.
LastFlush ==
  /\ drive = "returned" /\ ~ Panicked
  /\ drive' = "flushing"
  /\ flush' = [flush EXCEPT ![Caller] = [NoFlush EXCEPT !.pc = "lock"]]
  /\ UNCHANGED <<requestVars, st, bufferVars, writer>>

\* An oversized result, after the flush and outside the buffer.
WriteResult ==
  /\ drive = "flushed"
  /\ st[Final] = "new"
  /\ st' = Becomes({Final}, "joined")
  /\ order' = Append(order, Final)
  /\ Starts(Caller, <<Final>>, TRUE)
  /\ UNCHANGED <<token, lock, svc, latch, closed, seen, pending, batch, open, held, writer, flush, drive>>

EndResult ==
  /\ st[Final] = "joined" /\ req[Caller].pc \in {"ok", "stopped"}
  /\ st' = Becomes({Final}, IF req[Caller].pc = "ok" THEN "resolved" ELSE "dropped")
  /\ EndsRequest(Caller)
  /\ UNCHANGED <<token, lock, svc, latch, closed, bufferVars, writer, flush, drive>>

BufferStep(f) ==
  \/ WindowEnds(f) \/ TakeWriter(f) \/ WaitUnheld(f) \/ Claim(f) \/ ClaimsNothing(f)
  \/ NextChunk(f) \/ Publish(f) \/ StopBatch(f) \/ AbandonPending(f)

Next ==
  \/ \E w \in Contributors, urgent, reserve \in BOOLEAN : Join(w, urgent, reserve)
  \/ \E w \in Writes : ReleaseHold(w)
  \/ \E s \in Scopes : CloseScope(s) /\ UNCHANGED <<st, bufferVars, writer, flush, drive>>
  \/ \E p \in Procs : \/ RequestStep(p) /\ UNCHANGED <<st, bufferVars, writer, flush, drive>>
                      \/ BufferStep(p) \/ Unwind(p)
  \/ DriveEnds \/ DriveReturns \/ LastFlush \/ WriteResult \/ EndResult

Spec == Init /\ [][Next]_vars

\* Flusher tasks are polled, windows elapse, the service ends every request
\* and a reservation is released.
Fairness ==
  /\ \A f \in Flushers :
       /\ WF_vars(RequestStep(f) /\ UNCHANGED <<st, bufferVars, writer, flush, drive>>)
       /\ WF_vars(BufferStep(f))
  /\ \A w \in Writes : WF_vars(ReleaseHold(w))

FairSpec == Spec /\ Fairness

(***************************************************************************)
(* Properties.                                                             *)
(***************************************************************************)
\* Once an update that joined after a scope closed is recorded, nothing of
\* that scope is: the parent's outcome is the last word on a closed scope,
\* although the flushers check no admission.
ClosedScopeIsSilent ==
  \A m, n \in DOMAIN svc.journal :
    m < n => OwnersOf(svc.journal[n]) \cap seen[svc.journal[m]] = {}

\* The answer of the invocation follows every buffered update: when the
\* last flush is over, each admitted update is recorded, unless a failure
\* or a withdrawal stopped the writes (lib.rs, the unconditional flush).
AnswerFollowsBuffer ==
  drive = "flushed" /\ latch = "none" => ToSet(order) \ {Final} \subseteq ToSet(svc.journal)

\* Every contribution is settled: published once it is recorded, or dropped
\* for good; no batch is left without a flusher, none waits forever for a
\* hold. A panic of the client is the exception.
ContributionsSettle ==
  \A w \in Contributors :
    st[w] = "joined" ~> (st[w] \in {"resolved", "dropped"} \/ Panicked)

Journal == INSTANCE OrderedJournal
             WITH order <- order, journal <- svc.journal, shut <- latch # "none",
                  resolved <- {w \in Updates : st[w] = "resolved"}

\* The buffer, its flushers and the last flush implement the ordered
\* journal.
ImplementsJournal == Journal!JournalSpec
=============================================================================
