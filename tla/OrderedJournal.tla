--------------------------- MODULE OrderedJournal ---------------------------
(***************************************************************************)
(* What the write path promises, buffered or not: the service records the  *)
(* admitted updates in the order they were submitted, a caller resolves    *)
(* only after its update is recorded, and nothing is recorded any more     *)
(* once a write failed or the token was withdrawn.                         *)
(***************************************************************************)
EXTENDS Naturals, Sequences, SequencesExt

CONSTANT Updates

VARIABLES
  order,     \* the updates in submission order
  journal,   \* what the service recorded
  resolved,  \* the updates whose caller has its result
  shut       \* nothing is recorded any more

journalVars == <<order, journal, resolved, shut>>

JournalInit == order = <<>> /\ journal = <<>> /\ resolved = {} /\ shut = FALSE

Position(w) == CHOOSE n \in DOMAIN order : order[n] = w

\* The submitted updates behind every recorded one.
Unrecorded ==
  {w \in ToSet(order) : \A i \in DOMAIN journal : Position(journal[i]) < Position(w)}

Submit(w) ==
  /\ w \notin ToSet(order)
  /\ order' = Append(order, w)
  /\ UNCHANGED <<journal, resolved, shut>>

InOrder(ws) == \A i, j \in DOMAIN ws : i < j => Position(ws[i]) < Position(ws[j])

\* A request records some of them, in their order; the others are rejected.
RecordRequest ==
  LET ws == SubSeq(journal', Len(journal) + 1, Len(journal')) IN
  /\ ~ shut
  /\ journal' = journal \o ws
  /\ ToSet(ws) \subseteq Unrecorded /\ InOrder(ws)
  /\ UNCHANGED <<order, resolved, shut>>

Resolve(ws) ==
  /\ ws \subseteq ToSet(journal)
  /\ resolved' = resolved \cup ws
  /\ UNCHANGED <<order, journal, shut>>

Shut == shut' = TRUE /\ UNCHANGED <<order, journal, resolved>>

JournalNext ==
  \/ \E w \in Updates : Submit(w)
  \/ \E ws \in SUBSET Updates : Resolve(ws)
  \/ RecordRequest \/ Shut

JournalSpec == JournalInit /\ [][JournalNext]_journalVars
=============================================================================
