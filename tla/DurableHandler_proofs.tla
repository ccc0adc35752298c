------------------------ MODULE DurableHandler_proofs ------------------------
(***************************************************************************)
(* Proofs about module DurableHandler.                                     *)
(***************************************************************************)
EXTENDS DurableHandler, FiniteSetTheorems, SequenceTheorems, TLAPS

USE DEF Unrecorded

(***************************************************************************)
(* Sequences.                                                              *)
(***************************************************************************)
\* The places of a sequence whose elements are kept, and where they go.
Chosen(ops, some) == {i \in DOMAIN ops : ops[i] \in some}
UpTo(ops, some, i) == {j \in Chosen(ops, some) : j <= i}
PlaceOf(ops, some, i) == Cardinality(UpTo(ops, some, i))

LEMMA ChosenIsFinite ==
  ASSUME NEW S, NEW ops \in Seq(S), NEW some
  PROVE  /\ Chosen(ops, some) \subseteq 1 .. Len(ops)
         /\ IsFiniteSet(Chosen(ops, some))
         /\ Cardinality(Chosen(ops, some)) \in Nat
  <1>1. Chosen(ops, some) \subseteq 1 .. Len(ops)
    BY DEF Chosen
  <1>2. IsFiniteSet(1 .. Len(ops))
    BY FS_Interval
  <1>3. IsFiniteSet(Chosen(ops, some))
    BY <1>1, <1>2, FS_Subset
  <1>4. QED
    BY <1>1, <1>3, FS_CardinalityType

\* Kept elements have places of their own, in their order.
LEMMA PlacesAreOrdered ==
  ASSUME NEW S, NEW ops \in Seq(S), NEW some
  PROVE  /\ \A i \in Chosen(ops, some) :
              PlaceOf(ops, some, i) \in 1 .. Cardinality(Chosen(ops, some))
         /\ \A i, j \in Chosen(ops, some) :
              i < j => PlaceOf(ops, some, i) < PlaceOf(ops, some, j)
  <1>1. \A i \in Chosen(ops, some) :
           /\ IsFiniteSet(UpTo(ops, some, i))
           /\ PlaceOf(ops, some, i) \in Nat
           /\ PlaceOf(ops, some, i) <= Cardinality(Chosen(ops, some))
           /\ PlaceOf(ops, some, i) # 0
    <2> SUFFICES ASSUME NEW i \in Chosen(ops, some)
                 PROVE  /\ IsFiniteSet(UpTo(ops, some, i))
                        /\ PlaceOf(ops, some, i) \in Nat
                        /\ PlaceOf(ops, some, i) <= Cardinality(Chosen(ops, some))
                        /\ PlaceOf(ops, some, i) # 0
      OBVIOUS
    <2>1. UpTo(ops, some, i) \in SUBSET Chosen(ops, some)
      BY DEF UpTo
    <2>2. /\ IsFiniteSet(UpTo(ops, some, i))
          /\ Cardinality(UpTo(ops, some, i)) <= Cardinality(Chosen(ops, some))
      BY <2>1, ChosenIsFinite, FS_Subset
    <2>3. i \in UpTo(ops, some, i)
      BY ChosenIsFinite DEF UpTo
    <2>4. UpTo(ops, some, i) # {}
      BY <2>3
    <2>5. Cardinality(UpTo(ops, some, i)) # 0
      BY <2>2, <2>4, FS_EmptySet
    <2>6. Cardinality(UpTo(ops, some, i)) \in Nat
      BY <2>2, FS_CardinalityType
    <2>7. QED
      BY <2>2, <2>5, <2>6 DEF PlaceOf
  <1>2. ASSUME NEW i \in Chosen(ops, some), NEW j \in Chosen(ops, some), i < j
        PROVE  PlaceOf(ops, some, i) < PlaceOf(ops, some, j)
    <2>1. i \in Nat /\ j \in Nat
      BY ChosenIsFinite
    <2>2. UpTo(ops, some, i) \in SUBSET UpTo(ops, some, j)
      BY <1>2, <2>1, ChosenIsFinite DEF UpTo
    <2>3. j \in UpTo(ops, some, j) /\ j \notin UpTo(ops, some, i)
      BY <1>2, <2>1 DEF UpTo
    <2>4. UpTo(ops, some, i) # UpTo(ops, some, j)
      BY <2>3
    <2>5. /\ Cardinality(UpTo(ops, some, i)) <= Cardinality(UpTo(ops, some, j))
          /\ Cardinality(UpTo(ops, some, j)) # Cardinality(UpTo(ops, some, i))
      BY <1>1, <2>2, <2>4, FS_Subset
    <2>6. PlaceOf(ops, some, i) \in Nat /\ PlaceOf(ops, some, j) \in Nat
      BY <1>1
    <2>7. QED
      BY <2>5, <2>6 DEF PlaceOf
  <1>3. \A i \in Chosen(ops, some) :
          PlaceOf(ops, some, i) \in 1 .. Cardinality(Chosen(ops, some))
    BY <1>1, ChosenIsFinite
  <1>4. QED
    BY <1>2, <1>3

\* Every place is taken.
LEMMA PlacesAreTaken ==
  ASSUME NEW S, NEW ops \in Seq(S), NEW some,
         NEW n \in 1 .. Cardinality(Chosen(ops, some))
  PROVE  \E i \in Chosen(ops, some) : PlaceOf(ops, some, i) = n
  <1> DEFINE last == Cardinality(Chosen(ops, some))
             f == [i \in Chosen(ops, some) |-> PlaceOf(ops, some, i)]
  <1>1. f \in [Chosen(ops, some) -> 1 .. last]
    BY PlacesAreOrdered
  <1>2. \A i, j \in Chosen(ops, some) : i # j => f[i] # f[j]
    <2> SUFFICES ASSUME NEW i \in Chosen(ops, some), NEW j \in Chosen(ops, some), i # j
                 PROVE  f[i] # f[j]
      OBVIOUS
    <2>1. i \in Nat /\ j \in Nat
      BY ChosenIsFinite
    <2>2. i < j \/ j < i
      BY <2>1
    <2>3. /\ i < j => PlaceOf(ops, some, i) < PlaceOf(ops, some, j)
          /\ j < i => PlaceOf(ops, some, j) < PlaceOf(ops, some, i)
          /\ PlaceOf(ops, some, i) \in 1 .. last /\ PlaceOf(ops, some, j) \in 1 .. last
      BY PlacesAreOrdered
    <2>4. last \in Nat
      BY ChosenIsFinite
    <2>5. QED
      BY <2>2, <2>3, <2>4
  <1>3. f \in Injection(Chosen(ops, some), 1 .. last)
    BY <1>1, <1>2 DEF Injection, IsInjective
  <1>4. last \in Nat
    BY ChosenIsFinite
  <1>5. IsFiniteSet(1 .. last) /\ Cardinality(1 .. last) = last
    <2> HIDE DEF last
    <2>1. 1 \in Int /\ last \in Int
      BY <1>4
    <2>2. IsFiniteSet(1 .. last) /\ Cardinality(1 .. last) = IF 1 > last THEN 0 ELSE last - 1 + 1
      BY <2>1, FS_Interval
    <2>3. QED
      BY <2>2, <1>4
  <1>6. f \in Surjection(Chosen(ops, some), 1 .. last)
    BY <1>3, <1>5, FS_Injection
  <1>7. \E i \in Chosen(ops, some) : f[i] = n
    BY <1>6 DEF Surjection
  <1>8. QED
    BY <1>7

\* What `Only` keeps: the elements in `some`, each at its place.
LEMMA OnlyKeeps ==
  ASSUME NEW S, NEW ops \in Seq(S), NEW some
  PROVE  /\ Only(ops, some) \in Seq(S)
         /\ Len(Only(ops, some)) = Cardinality(Chosen(ops, some))
         /\ \A n \in 1 .. Len(Only(ops, some)) :
              \E i \in Chosen(ops, some) :
                PlaceOf(ops, some, i) = n /\ Only(ops, some)[n] = ops[i]
         /\ \A i \in Chosen(ops, some) :
              /\ PlaceOf(ops, some, i) \in 1 .. Len(Only(ops, some))
              /\ Only(ops, some)[PlaceOf(ops, some, i)] = ops[i]
  <1> DEFINE last == Cardinality(Chosen(ops, some))
             at(n) == CHOOSE i \in Chosen(ops, some) : PlaceOf(ops, some, i) = n
             q == [n \in 1 .. last |-> ops[at(n)]]
  <1>1. Only(ops, some) = q
    BY DEF Only, Chosen, PlaceOf, UpTo
  <1>2. \A n \in 1 .. last : at(n) \in Chosen(ops, some) /\ PlaceOf(ops, some, at(n)) = n
    BY PlacesAreTaken
  <1>3. \A i \in Chosen(ops, some) : ops[i] \in S
    BY ChosenIsFinite, ElementOfSeq
  <1>4. last \in Nat
    BY ChosenIsFinite
  <1>5. q \in Seq(S) /\ Len(q) = last
    <2>1. \A n \in 1 .. last : ops[at(n)] \in S
      BY <1>2, <1>3
    <2> HIDE DEF last, at
    <2>2. q \in Seq(S)
      BY <1>4, <2>1, IsASeq
    <2>3. DOMAIN q = 1 .. Len(q) /\ Len(q) \in Nat
      BY <2>2, LenProperties
    <2>4. DOMAIN q = 1 .. last
      OBVIOUS
    <2>5. QED
      BY <1>4, <2>2, <2>3, <2>4
  <1>6. \A n \in 1 .. last : q[n] = ops[at(n)]
    OBVIOUS
  <1>7. \A n \in 1 .. last : \E i \in Chosen(ops, some) :
          PlaceOf(ops, some, i) = n /\ q[n] = ops[i]
    BY <1>2, <1>6
  <1>8. \A i \in Chosen(ops, some) : PlaceOf(ops, some, i) \in 1 .. last
    BY PlacesAreOrdered
  <1>9. ASSUME NEW i \in Chosen(ops, some)
        PROVE  q[PlaceOf(ops, some, i)] = ops[i]
    <2>1. PICK j \in Chosen(ops, some) :
             PlaceOf(ops, some, j) = PlaceOf(ops, some, i) /\ q[PlaceOf(ops, some, i)] = ops[j]
      BY <1>7, <1>8
    <2>2. i \in Nat /\ j \in Nat /\ PlaceOf(ops, some, i) \in Nat
      BY <1>4, <1>8, ChosenIsFinite
    <2>3. ~ (i < j) /\ ~ (j < i)
      BY <2>1, <2>2, PlacesAreOrdered
    <2>4. i = j
      BY <2>2, <2>3
    <2>5. QED
      BY <2>1, <2>4
  <1>10. QED
    BY <1>1, <1>5, <1>7, <1>8, <1>9

\* Sequences of sequences are flattened to a sequence of their elements.
LEMMA FlattenedIsTyped ==
  ASSUME NEW S, NEW seqs \in Seq(Seq(S))
  PROVE  FlattenSeq(seqs) \in Seq(S)
  <1> DEFINE Is(g, n) == g = [i \in 1 .. n |-> IF i = 1 THEN seqs[i] ELSE g[i - 1] \o seqs[i]]
             Flat(g, n) == Is(g, n) /\ \A i \in 1 .. n : g[i] \in Seq(S)
             Bad == {n \in Nat : n <= Len(seqs) /\ ~ \E g : Flat(g, n)}
  <1>1. Len(seqs) \in Nat /\ \A i \in 1 .. Len(seqs) : seqs[i] \in Seq(S)
    BY LenProperties, ElementOfSeq
  <1>2. Bad = {}
    <2> SUFFICES ASSUME Bad # {}
                 PROVE  FALSE
      OBVIOUS
    <2>1. PICK n \in Bad : \A m \in Bad : ~ (<<m, n>> \in OpToRel(<, Nat))
      <3>1. Bad \subseteq Nat
        OBVIOUS
      <3>2. QED
        BY <3>1, NatLessThanWellFounded, WFMin
    <2>2. \A m \in Bad : ~ (m < n)
      BY <2>1 DEF OpToRel
    <2>3. n # 0
      <3>1. Flat(<<>>, 0)
        OBVIOUS
      <3>2. QED
        BY <3>1
    <2>4. n - 1 \in Nat /\ n - 1 < n /\ n - 1 <= Len(seqs) /\ n \in Nat /\ n <= Len(seqs)
      BY <1>1, <2>3
    <2>5. PICK g : Flat(g, n - 1)
      BY <2>2, <2>4
    <2> DEFINE h == [i \in 1 .. n |-> IF i = n THEN IF n = 1 THEN seqs[n] ELSE g[n - 1] \o seqs[n]
                                      ELSE g[i]]
    <2>6. \A i \in 1 .. n - 1 : g[i] = IF i = 1 THEN seqs[i] ELSE g[i - 1] \o seqs[i]
      BY <2>5
    <2>7. Is(h, n)
      <3>1. \A i \in 1 .. n : h[i] = IF i = 1 THEN seqs[i] ELSE h[i - 1] \o seqs[i]
        BY <2>4, <2>6
      <3>2. QED
        BY <3>1
    <2>8. \A i \in 1 .. n : h[i] \in Seq(S)
      <3>1. seqs[n] \in Seq(S)
        BY <1>1, <2>4
      <3>2. n # 1 => g[n - 1] \o seqs[n] \in Seq(S)
        BY <2>4, <2>5, <3>1, ConcatProperties
      <3>3. \A i \in 1 .. n : i # n => g[i] \in Seq(S)
        BY <2>4, <2>5
      <3>4. QED
        BY <3>1, <3>2, <3>3
    <2>9. Flat(h, n)
      BY <2>7, <2>8
    <2>10. QED
      BY <2>9
  <1>3. PICK g : Flat(g, Len(seqs))
    <2>1. Len(seqs) \notin Bad
      BY <1>2
    <2>2. Len(seqs) \in Nat /\ Len(seqs) <= Len(seqs)
      BY <1>1
    <2>3. QED
      BY <2>1, <2>2
  <1> DEFINE flatten == CHOOSE f : Is(f, Len(seqs))
  <1>4. Is(flatten, Len(seqs))
    BY <1>3
  <1>5. ASSUME Len(seqs) # 0 PROVE FlattenSeq(seqs) = flatten[Len(seqs)]
    BY <1>5 DEF FlattenSeq
  <1>6. \A i \in 1 .. Len(seqs) : flatten[i] \in Seq(S)
    <2> HIDE DEF flatten
    <2> DEFINE Odd == {n \in Nat : n \in 1 .. Len(seqs) /\ flatten[n] \notin Seq(S)}
    <2> SUFFICES ASSUME Odd # {}
                 PROVE  FALSE
      <3>1. ASSUME NEW i \in 1 .. Len(seqs), Odd = {}
            PROVE  flatten[i] \in Seq(S)
        <4>1. i \in Nat
          BY <1>1
        <4>2. i \notin Odd
          <5> HIDE DEF Odd
          <5> QED
            BY <3>1
        <4>3. QED
          BY <4>1, <4>2
      <3>2. QED
        BY <3>1
    <2>1. PICK n \in Odd : \A m \in Odd : ~ (<<m, n>> \in OpToRel(<, Nat))
      <3>1. Odd \subseteq Nat
        OBVIOUS
      <3>2. QED
        BY <3>1, NatLessThanWellFounded, WFMin
    <2>2. \A m \in Odd : ~ (m < n)
      BY <2>1 DEF OpToRel
    <2>3. flatten[n] = IF n = 1 THEN seqs[n] ELSE flatten[n - 1] \o seqs[n]
      BY <1>4
    <2>4. n # 1 => n - 1 \in 1 .. Len(seqs) /\ n - 1 < n /\ n - 1 \in Nat
      BY <1>1
    <2>5. n # 1 => flatten[n - 1] \in Seq(S)
      BY <2>2, <2>4
    <2>6. seqs[n] \in Seq(S)
      BY <1>1
    <2>7. n # 1 => flatten[n - 1] \o seqs[n] \in Seq(S)
      BY <2>5, <2>6, ConcatProperties
    <2>8. QED
      BY <2>3, <2>6, <2>7
  <1>7. Len(seqs) = 0 => FlattenSeq(seqs) \in Seq(S)
    <2>1. Len(seqs) = 0 => seqs = <<>>
      BY EmptySeq
    <2>2. <<>> \in Seq(S)
      OBVIOUS
    <2>3. QED
      BY <2>1, <2>2 DEF FlattenSeq
  <1>8. ASSUME Len(seqs) # 0 PROVE FlattenSeq(seqs) \in Seq(S)
    <2>1. Len(seqs) \in 1 .. Len(seqs)
      BY <1>1, <1>8
    <2> HIDE DEF flatten
    <2>2. QED
      BY <1>5, <1>6, <1>8, <2>1
  <1>9. QED
    BY <1>7, <1>8

(***************************************************************************)
(* The inductive invariant: what the record of an operation, its update in *)
(* flight, this invocation's copy of the record and the place in the       *)
(* operation say of one another.                                           *)
(***************************************************************************)
Answers == {"RETRY", "SUCCEED", "FAIL"}
Asleep == {"off", "invoked"}
Working == {"inputs", "body", "join", "ran"}

RecordFits(op) ==
  /\ record[op].status = "NONE" => record[op] = NoRecord
  /\ record[op].status # "NONE" => record[op].kind # "none"
  /\ record[op].status \in {"PENDING", "READY"} =>
       /\ record[op].kind = "condition"
       /\ record[op].payload = record[op].retried /\ record[op].payload.ok

\* An update that is queued will be valid when its turn comes.
WriteFits(op) ==
  /\ write[op].st = "none" => write[op] = NoWrite
  /\ write[op].st # "none" => write[op].action # "NONE" /\ kind(op) \notin {"none"} \cup Unrecorded
  /\ write[op].action \in Answers => kind(op) \notin Awaited
  /\ write[op].action = "RETRY" => kind(op) = "condition" /\ write[op].payload.ok
  /\ write[op].action = "RETRY" /\ write[op].st # "queued" => record[op].status \in {"PENDING", "READY"}
  /\ write[op].st = "queued" =>
       /\ record[op].status # "NONE" => Identity(record[op].kind) = Identity(kind(op))
       /\ write[op].action = "START" =>
            record[op].status = "NONE" \/ (kind(op) = "condition" /\ record[op].status = "READY")
       /\ write[op].action # "START" => record[op].status = "STARTED"
       /\ write[op].action = "RETRY" => record[op].attempt + 1 < MaxChecks

\* What happened to a record that this invocation did not write: a timer
\* fired, or the answer came.
Fresh(op) ==
  \/ log[op] = record[op]
  \/ log[op].status = "PENDING" /\ record[op] = [log[op] EXCEPT !.status = "READY"]
  \/ /\ log[op].status = "STARTED" /\ log[op].kind \in Awaited /\ record[op].status \in Terminal
     /\ record[op] = [log[op] EXCEPT !.status = record[op].status, !.payload = record[op].payload]

\* What the log may say of the record: it is fresh until the START is recorded.
LogFits(op) ==
  /\ log[op].status = "NONE" => log[op] = NoRecord
  /\ log[op].status # "NONE" => log[op].kind # "none"
  /\ log[op].kind = record[op].kind \/ (log[op].kind = "none" /\ record[op].kind = kind(op))
  /\ log[op].status \in {"PENDING", "READY"} => log[op].kind = "condition"
  /\ log[op].status \in Terminal => log[op] = record[op]
  /\ pc[op] \notin {"done", "stopped"}
       /\ (write[op].st = "none" \/ (write[op].st = "queued" /\ write[op].action = "START")) => Fresh(op)

\* What an operation is that has got as far as that.
PlaceFits(op) ==
  /\ pc[op] \notin {"failed", "rejected"}
  /\ pc[op] = "invoked" => op = Top
  /\ pc[op] \notin Asleep \cup {"done", "stopped"} => ~ Mismatched(op) /\ kind(op) # "none"
  /\ pc[op] = "starting" => kind(op) \in Awaited
  /\ pc[op] = "wait" => kind(op) \in Awaited \cup {"condition"}
  /\ pc[op] \in {"inputs", "join", "rejoin"} => kind(op) \in Combinator
  /\ pc[op] = "ran" => kind(op) \notin Unrecorded
  /\ pc[op] \in {"body", "ran", "settling"} => kind(op) \notin Awaited
  /\ pc[op] = "body" => kind(op) \notin Combinator

\* What the update and the record are by then.
PhaseFits(op) ==
  /\ pc[op] \in Asleep \cup {"replay", "rebuild", "rejoin", "inputs"} => write[op] = NoWrite
  /\ pc[op] \in {"replay", "rebuild", "rejoin"} => log[op].status \in Terminal
  /\ pc[op] = "inputs" => record[op].status \in {"NONE", "STARTED"}
  /\ pc[op] \in Working /\ kind(op) \notin Unrecorded =>
       /\ write[op].action \in {"NONE", "START"}
       /\ pc[op] # "inputs" /\ write[op].st # "queued" => record[op].status = "STARTED"
       /\ kind(op) = "condition" => log[op].attempt = record[op].attempt
  /\ pc[op] = "settling" => write[op].action \in Answers
  /\ pc[op] = "wait" /\ kind(op) = "condition" =>
       write[op].st \in {"none", "answered"} /\ record[op].status \in {"PENDING", "READY"}
  /\ \/ pc[op] = "settling" /\ write[op].action = "RETRY" /\ write[op].st = "answered"
     \/ pc[op] = "wait" /\ kind(op) = "condition"
     => log[op].status \in {"NONE", "PENDING"} \/ log[op] = record[op]

Fits(op) == RecordFits(op) /\ WriteFits(op) /\ LogFits(op) /\ PlaceFits(op) /\ PhaseFits(op)

\* What a record, its update and its result keep: the winner of a select, and
\* the state of a condition. A record is the operation's own, or is detected.
KeptFits(op) ==
  /\ \/ record[op].kind \in {"none", kind(op)}
     \/ kind(op) = shape.becomes[op] /\ Identity(record[op].kind) # Identity(kind(op))
  /\ kind(op) \in Select =>
       /\ pc[op] = "ran" /\ result[op].ok => result[op].at \in Indices(op)
       /\ write[op].children => write[op].winner \in Indices(op)
       /\ record[op].kind = kind(op) /\ record[op].children => record[op].winner \in Indices(op)
  /\ pc[op] \in {"rebuild", "rejoin"} => record[op].children
  /\ kind(op) = "condition" /\ pc[op] = "body" /\ write[op].action = "START" /\ record[op].attempt > 0
      => result[op] = record[op].retried

OpTyped(op) ==
  /\ record[op] \in Records /\ log[op] \in Records /\ write[op] \in Updates
  /\ pc[op] \in Step /\ result[op] \in Outcomes /\ kind(op) \in Kind

(***************************************************************************)
(* What one step does to one operation.                                    *)
(***************************************************************************)
SameBooks(op) == record'[op] = record[op] /\ log'[op] = log[op]

\* Nothing, but that it may be stopped and its update dropped.
Rests(op) ==
  /\ SameBooks(op) /\ result'[op] = result[op]
  /\ pc'[op] = pc[op] \/ (pc'[op] = "stopped" /\ pc[op] # "off")
  /\ \/ write'[op] = write[op]
     \/ write[op].st = "queued" /\ write'[op] = NoWrite /\ pc'[op] \in {"off", "done", "stopped"}

MayEnter(op) ==
  /\ kind(op) # "none"
  /\ \/ pc[op] \in Asleep
     \/ pc[op] = "wait" /\ kind(op) = "condition" /\ log[op].status \notin {"NONE", "PENDING"}

Enters(op) ==
  /\ MayEnter(op)
  /\ SameBooks(op) /\ pc'[op] = Entry(op)
  /\ write'[op] = IF kind(op) \notin Combinator /\ NeedsStart(op) THEN Update("START", Nothing) ELSE NoWrite
  /\ result'[op] = IF Mismatched(op) THEN Refusal ELSE CarriedState(op)

\* A combinator starts behind its inputs.
Begins(op) ==
  /\ kind(op) \in Combinator /\ pc[op] = "inputs" /\ pc'[op] = "join"
  /\ SameBooks(op) /\ result'[op] = result[op]
  /\ write'[op] = IF NeedsStart(op) THEN Update("START", Nothing) ELSE write[op]

\* It goes on and writes nothing.
Moves(op) ==
  /\ SameBooks(op) /\ write'[op] = write[op]
  /\ \/ pc[op] = "rebuild" /\ pc'[op] = "rejoin" /\ kind(op) \in Combinator
     \/ pc[op] = "starting" /\ pc'[op] = "wait" /\ StartAnswered(op)
     \/ pc[op] = "body" /\ pc'[op] = "ran" /\ kind(op) \notin Unrecorded
     \/ /\ pc[op] = "join" /\ pc'[op] = "ran"
        /\ kind(op) \in Select /\ result'[op].ok => result'[op].at \in Indices(op)
     \/ pc[op] = "settling" /\ pc'[op] = "wait" /\ write[op].action = "RETRY" /\ write[op].st = "answered"
     \/ pc[op] \notin Asleep /\ pc'[op] = "done"

\* It sends its outcome.
Sends(op) ==
  /\ SameBooks(op)
  /\ pc[op] = "ran" /\ StartAnswered(op) /\ kind(op) \notin Unrecorded /\ pc'[op] = "settling"
  /\ write'[op].st = "queued" /\ write'[op].action \in Answers
  /\ write'[op].action = "RETRY" =>
       kind(op) = "condition" /\ write'[op].payload.ok /\ log[op].attempt + 1 < MaxChecks
  /\ kind(op) \in Select /\ write'[op].children => write'[op].winner \in Indices(op)

\* The service records its update, or answers it.
IsRecorded(op) ==
  /\ write[op].st = "queued" /\ Valid(op)
  /\ record'[op] = Applied(record[op], write[op], kind(op)) /\ log'[op] = log[op]
  /\ write'[op] = [write[op] EXCEPT !.st = "recorded"]
  /\ pc'[op] = pc[op] /\ result'[op] = result[op]

IsAnswered(op) ==
  /\ write[op].st = "recorded"
  /\ record'[op] = record[op] /\ (log'[op] = record[op] \/ log'[op] = OmittedUpdate(op))
  /\ write'[op] = [write[op] EXCEPT !.st = "answered"]
  /\ pc'[op] = pc[op] /\ result'[op] = result[op]

IsRefreshed(op) ==
  /\ record'[op] = record[op] /\ log'[op] = record[op]
  /\ write'[op] = write[op] /\ pc'[op] = pc[op] /\ result'[op] = result[op]

\* The service completes it on its own.
IsServed(op) ==
  /\ log'[op] = log[op] /\ write'[op] = write[op] /\ pc'[op] = pc[op] /\ result'[op] = result[op]
  /\ \/ record[op].status = "PENDING" /\ record'[op] = [record[op] EXCEPT !.status = "READY"]
     \/ /\ record[op].status = "STARTED" /\ record[op].kind \in Awaited
        /\ \E status \in Terminal, out \in Outcomes :
             record'[op] = [record[op] EXCEPT !.status = status, !.payload = out]

Local(op) ==
  \/ Rests(op) \/ Enters(op) \/ Begins(op) \/ Moves(op) \/ Sends(op)
  \/ IsRecorded(op) \/ IsAnswered(op) \/ IsRefreshed(op) \/ IsServed(op)

LEMMA RestsFits ==
  ASSUME NEW op \in Ops, OpTyped(op), Fits(op), shape' = shape, Rests(op)
  PROVE  Fits(op)'
  <1>1. RecordFits(op)' /\ WriteFits(op)'
    BY DEF OpTyped, Rests, SameBooks, Fits, RecordFits, WriteFits, LogFits, PlaceFits, PhaseFits, Fresh, kind, Mismatched,
           NoRecord, NoWrite, Answers, Asleep, Working, Records, Updates, Kind, Awaited, Contexts, Combinator, Scope, Status, Terminal
  <1>2. LogFits(op)'
    BY DEF OpTyped, Rests, SameBooks, Fits, RecordFits, WriteFits, LogFits, PlaceFits, PhaseFits, Fresh, kind, Mismatched,
           NoRecord, NoWrite, Answers, Asleep, Working, Records, Updates, Kind, Awaited, Contexts, Combinator, Scope, Status, Terminal
  <1>3. PlaceFits(op)'
    BY DEF OpTyped, Rests, SameBooks, Fits, RecordFits, WriteFits, LogFits, PlaceFits, PhaseFits, Fresh, kind, Mismatched,
           NoRecord, NoWrite, Answers, Asleep, Working, Records, Updates, Kind, Awaited, Contexts, Combinator, Scope, Status, Terminal
  <1>4. PhaseFits(op)'
    BY DEF OpTyped, Rests, SameBooks, Fits, RecordFits, WriteFits, LogFits, PlaceFits, PhaseFits, Fresh, kind, Mismatched,
           NoRecord, NoWrite, Answers, Asleep, Working, Records, Updates, Kind, Awaited, Contexts, Combinator, Scope, Status, Terminal
  <1>5. QED
    BY <1>1, <1>2, <1>3, <1>4 DEF Fits

LEMMA EntersFits ==
  ASSUME NEW op \in Ops, OpTyped(op), Fits(op), shape' = shape, Enters(op)
  PROVE  Fits(op)'
  <1>1. RecordFits(op)' /\ WriteFits(op)'
    BY DEF OpTyped, Enters, MayEnter, SameBooks, NeedsStart, Entry, Update, Nothing, Identity, Fits, RecordFits, WriteFits, LogFits, PlaceFits, PhaseFits, Fresh, kind, Mismatched,
           NoRecord, NoWrite, Answers, Asleep, Working, Records, Updates, Kind, Awaited, Contexts, Combinator, Scope, Status, Terminal
  <1>2. LogFits(op)'
    BY DEF OpTyped, Enters, MayEnter, SameBooks, NeedsStart, Entry, Update, Nothing, Identity, Fits, RecordFits, WriteFits, LogFits, PlaceFits, PhaseFits, Fresh, kind, Mismatched,
           NoRecord, NoWrite, Answers, Asleep, Working, Records, Updates, Kind, Awaited, Contexts, Combinator, Scope, Status, Terminal
  <1>3. PlaceFits(op)'
    BY DEF OpTyped, Enters, MayEnter, SameBooks, NeedsStart, Entry, Update, Nothing, Identity, Fits, RecordFits, WriteFits, LogFits, PlaceFits, PhaseFits, Fresh, kind, Mismatched,
           NoRecord, NoWrite, Answers, Asleep, Working, Records, Updates, Kind, Awaited, Contexts, Combinator, Scope, Status, Terminal
  <1>4. PhaseFits(op)'
    BY DEF OpTyped, Enters, MayEnter, SameBooks, NeedsStart, Entry, Update, Nothing, Identity, Fits, RecordFits, WriteFits, LogFits, PlaceFits, PhaseFits, Fresh, kind, Mismatched,
           NoRecord, NoWrite, Answers, Asleep, Working, Records, Updates, Kind, Awaited, Contexts, Combinator, Scope, Status, Terminal
  <1>5. QED
    BY <1>1, <1>2, <1>3, <1>4 DEF Fits

LEMMA BeginsFits ==
  ASSUME NEW op \in Ops, OpTyped(op), Fits(op), shape' = shape, Begins(op)
  PROVE  Fits(op)'
  <1>1. RecordFits(op)' /\ WriteFits(op)'
    BY DEF OpTyped, Begins, SameBooks, NeedsStart, Update, Nothing, Identity, Fits, RecordFits, WriteFits, LogFits, PlaceFits, PhaseFits, Fresh, kind, Mismatched,
           NoRecord, NoWrite, Answers, Asleep, Working, Records, Updates, Kind, Awaited, Contexts, Combinator, Scope, Status, Terminal
  <1>2. LogFits(op)'
    BY DEF OpTyped, Begins, SameBooks, NeedsStart, Update, Nothing, Identity, Fits, RecordFits, WriteFits, LogFits, PlaceFits, PhaseFits, Fresh, kind, Mismatched,
           NoRecord, NoWrite, Answers, Asleep, Working, Records, Updates, Kind, Awaited, Contexts, Combinator, Scope, Status, Terminal
  <1>3. PlaceFits(op)'
    BY DEF OpTyped, Begins, SameBooks, NeedsStart, Update, Nothing, Identity, Fits, RecordFits, WriteFits, LogFits, PlaceFits, PhaseFits, Fresh, kind, Mismatched,
           NoRecord, NoWrite, Answers, Asleep, Working, Records, Updates, Kind, Awaited, Contexts, Combinator, Scope, Status, Terminal
  <1>4. PhaseFits(op)'
    BY DEF OpTyped, Begins, SameBooks, NeedsStart, Update, Nothing, Identity, Fits, RecordFits, WriteFits, LogFits, PlaceFits, PhaseFits, Fresh, kind, Mismatched,
           NoRecord, NoWrite, Answers, Asleep, Working, Records, Updates, Kind, Awaited, Contexts, Combinator, Scope, Status, Terminal
  <1>5. QED
    BY <1>1, <1>2, <1>3, <1>4 DEF Fits

LEMMA MovesFits ==
  ASSUME NEW op \in Ops, OpTyped(op), Fits(op), shape' = shape, Moves(op)
  PROVE  Fits(op)'
  <1>1. RecordFits(op)' /\ WriteFits(op)'
    BY DEF OpTyped, Moves, SameBooks, StartAnswered, Fits, RecordFits, WriteFits, LogFits, PlaceFits, PhaseFits, Fresh, kind, Mismatched,
           NoRecord, NoWrite, Answers, Asleep, Working, Records, Updates, Kind, Awaited, Contexts, Combinator, Scope, Status, Terminal
  <1>2. LogFits(op)'
    BY DEF OpTyped, Moves, SameBooks, StartAnswered, Fits, RecordFits, WriteFits, LogFits, PlaceFits, PhaseFits, Fresh, kind, Mismatched,
           NoRecord, NoWrite, Answers, Asleep, Working, Records, Updates, Kind, Awaited, Contexts, Combinator, Scope, Status, Terminal
  <1>3. PlaceFits(op)'
    BY DEF OpTyped, Moves, SameBooks, StartAnswered, Fits, RecordFits, WriteFits, LogFits, PlaceFits, PhaseFits, Fresh, kind, Mismatched,
           NoRecord, NoWrite, Answers, Asleep, Working, Records, Updates, Kind, Awaited, Contexts, Combinator, Scope, Status, Terminal
  <1>4. PhaseFits(op)'
    BY DEF OpTyped, Moves, SameBooks, StartAnswered, Fits, RecordFits, WriteFits, LogFits, PlaceFits, PhaseFits, Fresh, kind, Mismatched,
           NoRecord, NoWrite, Answers, Asleep, Working, Records, Updates, Kind, Awaited, Contexts, Combinator, Scope, Status, Terminal
  <1>5. QED
    BY <1>1, <1>2, <1>3, <1>4 DEF Fits

LEMMA SendsFits ==
  ASSUME NEW op \in Ops, OpTyped(op), Fits(op), shape' = shape, Sends(op)
  PROVE  Fits(op)'
  <1>1. RecordFits(op)' /\ WriteFits(op)'
    BY DEF OpTyped, Sends, SameBooks, StartAnswered, Identity, Fits, RecordFits, WriteFits, LogFits, PlaceFits, PhaseFits, Fresh, kind, Mismatched,
           NoRecord, NoWrite, Answers, Asleep, Working, Records, Updates, Kind, Awaited, Contexts, Combinator, Scope, Status, Terminal
  <1>2. LogFits(op)'
    BY DEF OpTyped, Sends, SameBooks, StartAnswered, Identity, Fits, RecordFits, WriteFits, LogFits, PlaceFits, PhaseFits, Fresh, kind, Mismatched,
           NoRecord, NoWrite, Answers, Asleep, Working, Records, Updates, Kind, Awaited, Contexts, Combinator, Scope, Status, Terminal
  <1>3. PlaceFits(op)'
    BY DEF OpTyped, Sends, SameBooks, StartAnswered, Identity, Fits, RecordFits, WriteFits, LogFits, PlaceFits, PhaseFits, Fresh, kind, Mismatched,
           NoRecord, NoWrite, Answers, Asleep, Working, Records, Updates, Kind, Awaited, Contexts, Combinator, Scope, Status, Terminal
  <1>4. PhaseFits(op)'
    BY DEF OpTyped, Sends, SameBooks, StartAnswered, Identity, Fits, RecordFits, WriteFits, LogFits, PlaceFits, PhaseFits, Fresh, kind, Mismatched,
           NoRecord, NoWrite, Answers, Asleep, Working, Records, Updates, Kind, Awaited, Contexts, Combinator, Scope, Status, Terminal
  <1>5. QED
    BY <1>1, <1>2, <1>3, <1>4 DEF Fits

LEMMA IsRecordedIsValid ==
  ASSUME NEW op \in Ops, OpTyped(op), RecordFits(op), WriteFits(op), shape' = shape, IsRecorded(op)
  PROVE  RecordFits(op)' /\ WriteFits(op)'
  <1>1. RecordFits(op)'
    BY DEF OpTyped, IsRecorded, Valid, Applied, Identity, RecordFits, WriteFits, kind,
           NoRecord, NoWrite, Answers, Records, Updates, Kind, Awaited, Contexts, Combinator, Scope, Status, Terminal
  <1>2. WriteFits(op)'
    BY DEF OpTyped, IsRecorded, Valid, Applied, Identity, RecordFits, WriteFits, kind,
           NoRecord, NoWrite, Answers, Records, Updates, Kind, Awaited, Contexts, Combinator, Scope, Status, Terminal
  <1>3. QED
    BY <1>1, <1>2

LEMMA IsRecordedFits ==
  ASSUME NEW op \in Ops, OpTyped(op), Fits(op), shape' = shape, IsRecorded(op)
  PROVE  Fits(op)'
  <1>1. RecordFits(op)' /\ WriteFits(op)'
    BY IsRecordedIsValid DEF Fits
  <1>2. LogFits(op)'
    BY DEF OpTyped, IsRecorded, Valid, Applied, Identity, Fits, RecordFits, WriteFits, LogFits, PlaceFits, PhaseFits, Fresh, kind, Mismatched,
           NoRecord, NoWrite, Answers, Asleep, Working, Records, Updates, Kind, Awaited, Contexts, Combinator, Scope, Status, Terminal
  <1>3. PlaceFits(op)'
    BY DEF OpTyped, IsRecorded, Valid, Applied, Identity, Fits, RecordFits, WriteFits, LogFits, PlaceFits, PhaseFits, Fresh, kind, Mismatched,
           NoRecord, NoWrite, Answers, Asleep, Working, Records, Updates, Kind, Awaited, Contexts, Combinator, Scope, Status, Terminal
  <1>4. PhaseFits(op)'
    BY DEF OpTyped, IsRecorded, Valid, Applied, Identity, Fits, RecordFits, WriteFits, LogFits, PlaceFits, PhaseFits, Fresh, kind, Mismatched,
           NoRecord, NoWrite, Answers, Asleep, Working, Records, Updates, Kind, Awaited, Contexts, Combinator, Scope, Status, Terminal
  <1>5. QED
    BY <1>1, <1>2, <1>3, <1>4 DEF Fits

LEMMA IsAnsweredIsValid ==
  ASSUME NEW op \in Ops, OpTyped(op), RecordFits(op), WriteFits(op), shape' = shape, IsAnswered(op)
  PROVE  RecordFits(op)' /\ WriteFits(op)'
  <1>1. RecordFits(op)'
    BY DEF OpTyped, IsAnswered, OmittedUpdate, Identity, RecordFits, WriteFits, kind,
           NoRecord, NoWrite, Answers, Records, Updates, Kind, Awaited, Contexts, Combinator, Scope, Status, Terminal
  <1>2. WriteFits(op)'
    BY DEF OpTyped, IsAnswered, OmittedUpdate, Identity, RecordFits, WriteFits, kind,
           NoRecord, NoWrite, Answers, Records, Updates, Kind, Awaited, Contexts, Combinator, Scope, Status, Terminal
  <1>3. QED
    BY <1>1, <1>2

LEMMA IsAnsweredFits ==
  ASSUME NEW op \in Ops, OpTyped(op), Fits(op), shape' = shape, IsAnswered(op)
  PROVE  Fits(op)'
  <1>1. RecordFits(op)' /\ WriteFits(op)'
    BY IsAnsweredIsValid DEF Fits
  <1>2. write'[op].st = "answered" /\ write'[op].action = write[op].action
    BY DEF OpTyped, IsAnswered, Updates
  <1>3. CASE log'[op] = record[op]
    <2>1. LogFits(op)'
      BY <1>2, <1>3 DEF OpTyped, IsAnswered, Fits, LogFits, RecordFits, kind, Records, NoRecord
    <2>2. PlaceFits(op)'
      BY <1>3 DEF IsAnswered, Fits, LogFits, PlaceFits, kind, Mismatched
    <2>3. PhaseFits(op)'
      BY <1>2, <1>3 DEF IsAnswered, Fits, PhaseFits, WriteFits, kind, NoWrite
    <2>4. QED
      BY <1>1, <2>1, <2>2, <2>3 DEF Fits
  <1>4. CASE /\ log'[op] = log[op]
             /\ ~ (kind(op) = "condition" /\ write[op].action = "RETRY" /\ log[op].status \notin {"NONE", "PENDING"})
    <2>1. LogFits(op)'
      BY <1>2, <1>4 DEF IsAnswered, Fits, LogFits, kind
    <2>2. PlaceFits(op)'
      BY <1>4 DEF IsAnswered, Fits, PlaceFits, kind, Mismatched
    <2>3. PhaseFits(op)'
      BY <1>2, <1>4 DEF IsAnswered, Fits, PhaseFits, WriteFits, kind, NoWrite
    <2>4. QED
      BY <1>1, <2>1, <2>2, <2>3 DEF Fits
  <1>5. CASE /\ kind(op) = "condition" /\ write[op].action = "RETRY" /\ log[op].status \notin {"NONE", "PENDING"}
             /\ log'[op] = [log[op] EXCEPT !.status = "PENDING", !.payload = write[op].payload]
    <2>1. record[op].kind = "condition" /\ record[op].status \notin Terminal
      BY <1>5 DEF IsAnswered, Fits, WriteFits, RecordFits, Terminal
    <2>2. log[op].kind = "condition"
      BY <1>5, <2>1 DEF Fits, LogFits
    <2>3. log'[op].status = "PENDING" /\ log'[op].kind = "condition" /\ log'[op].attempt = log[op].attempt
      BY <1>5, <2>2 DEF OpTyped, Records
    <2>4. LogFits(op)'
      BY <1>2, <2>1, <2>3 DEF IsAnswered, LogFits, Terminal
    <2>5. PlaceFits(op)'
      BY <1>5, <2>2, <2>3 DEF IsAnswered, Fits, PlaceFits, kind, Mismatched
    <2>6. PhaseFits(op)'
      BY <1>2, <1>5, <2>1, <2>3 DEF IsAnswered, Fits, PhaseFits, LogFits, WriteFits, kind, NoWrite, Working, Asleep
    <2>7. QED
      BY <1>1, <2>4, <2>5, <2>6 DEF Fits
  <1>6. QED
    BY <1>3, <1>4, <1>5 DEF IsAnswered, OmittedUpdate

LEMMA IsRefreshedFits ==
  ASSUME NEW op \in Ops, OpTyped(op), Fits(op), shape' = shape, IsRefreshed(op)
  PROVE  Fits(op)'
  <1>1. RecordFits(op)' /\ WriteFits(op)'
    BY DEF OpTyped, IsRefreshed, Identity, Fits, RecordFits, WriteFits, LogFits, PlaceFits, PhaseFits, Fresh, kind, Mismatched,
           NoRecord, NoWrite, Answers, Asleep, Working, Records, Updates, Kind, Awaited, Contexts, Combinator, Scope, Status, Terminal
  <1>2. LogFits(op)'
    BY DEF OpTyped, IsRefreshed, Identity, Fits, RecordFits, WriteFits, LogFits, PlaceFits, PhaseFits, Fresh, kind, Mismatched,
           NoRecord, NoWrite, Answers, Asleep, Working, Records, Updates, Kind, Awaited, Contexts, Combinator, Scope, Status, Terminal
  <1>3. PlaceFits(op)'
    BY DEF OpTyped, IsRefreshed, Identity, Fits, RecordFits, WriteFits, LogFits, PlaceFits, PhaseFits, Fresh, kind, Mismatched,
           NoRecord, NoWrite, Answers, Asleep, Working, Records, Updates, Kind, Awaited, Contexts, Combinator, Scope, Status, Terminal
  <1>4. PhaseFits(op)'
    BY DEF OpTyped, IsRefreshed, Identity, Fits, RecordFits, WriteFits, LogFits, PlaceFits, PhaseFits, Fresh, kind, Mismatched,
           NoRecord, NoWrite, Answers, Asleep, Working, Records, Updates, Kind, Awaited, Contexts, Combinator, Scope, Status, Terminal
  <1>5. QED
    BY <1>1, <1>2, <1>3, <1>4 DEF Fits

LEMMA IsServedIsValid ==
  ASSUME NEW op \in Ops, OpTyped(op), RecordFits(op), WriteFits(op), shape' = shape, IsServed(op)
  PROVE  RecordFits(op)' /\ WriteFits(op)'
  <1>1. RecordFits(op)'
    BY DEF OpTyped, IsServed, Identity, RecordFits, WriteFits, kind,
           NoRecord, NoWrite, Answers, Records, Updates, Kind, Awaited, Contexts, Combinator, Scope, Status, Terminal
  <1>2. WriteFits(op)'
    BY DEF OpTyped, IsServed, Identity, RecordFits, WriteFits, kind,
           NoRecord, NoWrite, Answers, Records, Updates, Kind, Awaited, Contexts, Combinator, Scope, Status, Terminal
  <1>3. QED
    BY <1>1, <1>2

LEMMA IsServedFits ==
  ASSUME NEW op \in Ops, OpTyped(op), Fits(op), shape' = shape, IsServed(op)
  PROVE  Fits(op)'
  <1>1. RecordFits(op)' /\ WriteFits(op)'
    BY IsServedIsValid DEF Fits
  <1>2. LogFits(op)'
    <2>1. record'[op].kind = record[op].kind /\ (log[op].status \in Terminal => record'[op] = record[op])
      BY DEF OpTyped, IsServed, Fits, LogFits, Records, Terminal
    <2>2. Fresh(op) => Fresh(op)'
      BY DEF OpTyped, IsServed, Fresh, Records, Terminal, Awaited
    <2>3. QED
      BY <2>1, <2>2 DEF IsServed, Fits, LogFits, kind
  <1>3. PlaceFits(op)'
    BY DEF IsServed, Fits, PlaceFits, kind, Mismatched
  <1>4. PhaseFits(op)'
    <2>1. record[op].kind = "condition" => record'[op].status \in {record[op].status, "READY"}
      BY DEF OpTyped, IsServed, Records, Awaited
    <2>2. record[op].status = "PENDING" => record'[op].status = "READY"
      BY DEF OpTyped, IsServed, Records
    <2>3. record[op].status # "PENDING" => record'[op] = record[op] \/ record[op].kind \in Awaited
      BY DEF IsServed
    <2>4. record'[op].attempt = record[op].attempt
      BY DEF OpTyped, IsServed, Records
    <2>5. pc[op] \in Working /\ kind(op) \notin Unrecorded => record[op].kind \notin Awaited /\ record[op].status # "PENDING"
      <3>1. pc[op] \in Working => kind(op) \notin Awaited /\ ~ Mismatched(op)
        BY DEF Fits, PlaceFits, Working, Combinator, Awaited, Asleep
      <3>2. pc[op] \in Working => record[op].kind \notin Awaited
        BY <3>1 DEF Fits, LogFits, Mismatched, Identity, Awaited, Combinator
      <3>3. pc[op] \in Working /\ kind(op) \notin Unrecorded => record[op].status # "PENDING"
        BY DEF Fits, PhaseFits, WriteFits, Working
      <3>4. QED
        BY <3>2, <3>3
    <2>6. pc[op] \in Working /\ kind(op) \notin Unrecorded => record'[op] = record[op]
      BY <2>3, <2>5
    <2>7. pc[op] = "inputs" => kind(op) \notin Unrecorded
      BY DEF Fits, PlaceFits, Combinator
    <2>8. pc[op] = "wait" /\ kind(op) = "condition" => record'[op].status \in {"PENDING", "READY"}
      BY <2>2, <2>3 DEF Fits, RecordFits, PhaseFits, Awaited
    <2>9. log[op] = record[op] /\ record[op].status \in {"PENDING", "READY"} =>
            record'[op] = record[op] \/ log[op].status = "PENDING"
      BY <2>2, <2>3 DEF Fits, RecordFits, Awaited
    <2>10. pc[op] = "settling" /\ write[op].action = "RETRY" /\ write[op].st = "answered" =>
             record[op].status \in {"PENDING", "READY"}
      BY DEF Fits, WriteFits
    <2>11. QED
      BY <2>6, <2>7, <2>8, <2>9, <2>10 DEF IsServed, Fits, PhaseFits, Working, kind
  <1>5. QED
    BY <1>1, <1>2, <1>3, <1>4 DEF Fits

(***************************************************************************)
(* What the assumptions say of a handler, and the types of its parts.      *)
(***************************************************************************)
LEMMA ShapeIsWellMade ==
  ASSUME TypeOK
  PROVE  shape \in Shape /\ Tree(shape.inputs) /\ WellMade(shape.kind, shape.inputs, shape.of)
  <1>1. PICK s \in Shapes : shape = s \/ shape = [s EXCEPT !.kind = s.becomes]
    BY DEF TypeOK
  <1>2. s \in Shape /\ Tree(s.inputs) /\ WellMade(s.kind, s.inputs, s.of) /\ WellMade(s.becomes, s.inputs, s.of)
    BY RecordsAssumption
  <1>3. CASE shape = s
    BY <1>2, <1>3
  <1>4. CASE shape = [s EXCEPT !.kind = s.becomes]
    <2>1. shape \in Shape /\ shape.inputs = s.inputs /\ shape.of = s.of /\ shape.kind = s.becomes
      BY <1>2, <1>4 DEF Shape
    <2>2. QED
      BY <1>2, <2>1
  <1>5. QED
    BY <1>1, <1>3, <1>4

LEMMA TypedParts ==
  ASSUME TypeOK, NEW op \in Ops
  PROVE  /\ OpTyped(op)
         /\ inputs(op) \in Seq(Ops) /\ ToSet(inputs(op)) \subseteq Ops
         /\ DOMAIN inputs(op) = 1 .. Len(inputs(op)) /\ Len(inputs(op)) \in Nat
         /\ \A o \in ToSet(inputs(op)) : kind(o) # "none"
         /\ kind(Top) # "none"
         /\ kind(op) \in Scope \cup {"virtual"} => inputs(op) # <<>>
         /\ shape.of[op] \in Ops
  <1>1. shape \in Shape /\ WellMade(shape.kind, shape.inputs, shape.of)
    BY ShapeIsWellMade
  <1>2. kind(op) \in Kind /\ inputs(op) \in Seq(Ops)
    BY <1>1 DEF Shape, kind, inputs
  <1>3. OpTyped(op)
    BY <1>2 DEF TypeOK, OpTyped
  <1>4. ToSet(inputs(op)) \subseteq Ops
    BY <1>2 DEF ToSet
  <1>5. DOMAIN inputs(op) = 1 .. Len(inputs(op)) /\ Len(inputs(op)) \in Nat
    BY <1>2
  <1>6. /\ \A o \in ToSet(inputs(op)) : kind(o) # "none"
        /\ kind(Top) # "none"
        /\ kind(op) \in Scope \cup {"virtual"} => inputs(op) # <<>>
    BY <1>1 DEF WellMade, kind, inputs
  <1>7. shape.of[op] \in Ops
    BY <1>1 DEF Shape
  <1>8. QED
    BY <1>2, <1>3, <1>4, <1>5, <1>6, <1>7

\* The inputs of an operation are no operation's else, and inside it.
LEMMA InsideIsATree ==
  ASSUME TypeOK, NEW op \in Ops
  PROVE  /\ Inside[op] \subseteq Ops
         /\ ToSet(inputs(op)) \subseteq Inside[op]
         /\ op \notin Inside[op] /\ Top \notin Inside[op]
         /\ \A o \in Inside[op] : Inside[o] \subseteq Inside[op]
         /\ \A o \in Ops : \A i \in DOMAIN inputs(op), j \in DOMAIN inputs(o) :
              inputs(op)[i] = inputs(o)[j] => op = o /\ i = j
  <1>1. shape \in Shape /\ Tree(shape.inputs)
    BY ShapeIsWellMade
  <1> DEFINE ins == shape.inputs
             Grow(ops) == ops \cup UNION {ToSet(ins[o]) : o \in ops}
  <1>2. \A o \in Ops : ToSet(ins[o]) \subseteq Ops
    BY <1>1 DEF Shape, ToSet
  <1>3. \A ops \in SUBSET Ops : Grow(ops) \in SUBSET Ops /\ ops \subseteq Grow(ops)
    BY <1>2
  <1>4. Inside[op] = Grow(Grow(Grow(ToSet(ins[op]))))
    BY DEF Inside, Within
  <1> HIDE DEF Grow
  <1>5. Inside[op] \subseteq Ops /\ ToSet(ins[op]) \subseteq Inside[op]
    BY <1>2, <1>3, <1>4
  <1>6. Top \notin Inside[op]
    <2>1. \A o \in Ops : Top \notin ToSet(ins[o])
      BY <1>1 DEF Tree
    <2>2. \A ops \in SUBSET Ops : Top \notin ops => Top \notin Grow(ops)
      BY <2>1 DEF Grow
    <2>3. ToSet(ins[op]) \in SUBSET Ops
      BY <1>2
    <2>4. QED
      BY <1>3, <1>4, <2>1, <2>2, <2>3
  <1>7. QED
    BY <1>1, <1>5, <1>6 DEF Tree, Inside, inputs

LEMMA SingletonIsASeq ==
  ASSUME NEW S, NEW e \in S
  PROVE  <<e>> \in Seq(S)
  OBVIOUS

LEMMA OutcomesAre ==
  /\ Nothing \in Outcomes /\ Refusal \in Outcomes /\ Ok(<<>>) \in Outcomes
  /\ \A e \in Errors \cup ErrorTypes : Err(e) \in Outcomes /\ ~ Err(e).ok
  /\ \A v \in Seq(Contents) : Ok(v) \in Outcomes /\ Ok(v).ok
  /\ \A out \in Outcomes, i \in Nat : At(out, i) \in Outcomes
  /\ ~ Refusal.ok /\ ~ Nothing.ok
  <1>1. \A v \in Seq(Contents) : Ok(v) \in Outcomes /\ Ok(v).ok
    BY DEF Ok, Outcomes
  <1>2. \A e \in Errors \cup ErrorTypes : Err(e) \in Outcomes /\ ~ Err(e).ok
    <2> SUFFICES ASSUME NEW e \in Errors \cup ErrorTypes
                 PROVE  Err(e) \in Outcomes /\ ~ Err(e).ok
      OBVIOUS
    <2>1. <<e>> \in Seq(Contents)
      BY SingletonIsASeq DEF Contents, Errors
    <2>2. QED
      BY <2>1 DEF Err, Outcomes
  <1>3. <<>> \in Seq(Contents)
    OBVIOUS
  <1>4. Nothing \in Outcomes /\ ~ Nothing.ok
    BY <1>3 DEF Nothing, Outcomes
  <1>5. Refusal \in Outcomes /\ ~ Refusal.ok
    BY <1>2 DEF Refusal, Errors
  <1>6. \A out \in Outcomes, i \in Nat : At(out, i) \in Outcomes
    BY DEF At, Outcomes
  <1>7. QED
    BY <1>1, <1>2, <1>3, <1>4, <1>5, <1>6

LEMMA UpdatesAre ==
  /\ NoWrite \in Updates /\ NoRecord \in Records
  /\ Update("START", Nothing) \in Updates
  /\ \A out \in Outcomes, action \in Answers :
       /\ Update(action, out) \in Updates
       /\ Update(action, out).st = "queued" /\ Update(action, out).action = action
       /\ Update(action, out).payload = out
  <1>1. Nothing \in Outcomes
    BY OutcomesAre
  <1>2. 0 \in 0 .. MaxChecks - 1
    BY RecordsAssumption
  <1>3. NoWrite \in Updates /\ NoRecord \in Records
    BY <1>1, <1>2 DEF NoWrite, NoRecord, Updates, Records, Status, Kind
  <1>4. \A out \in Outcomes, action \in Answers \cup {"START"} :
          /\ Update(action, out) \in Updates
          /\ Update(action, out).st = "queued" /\ Update(action, out).action = action
          /\ Update(action, out).payload = out
    BY <1>3 DEF Update, NoWrite, Updates, Answers
  <1>5. QED
    BY <1>1, <1>3, <1>4

\* What entering operations does to each of them.
LEMMA EnteringTypes ==
  ASSUME TypeOK, NEW ops \in Seq(Ops), NEW last \in Seq(Ops), EnterWith(ops, last)
  PROVE  /\ queue' \in Seq(Ops) /\ write' \in [Ops -> Updates]
         /\ result' \in [Ops -> Outcomes] /\ fatal' \in BOOLEAN
  <1>1. queue' \in Seq(Ops)
    <2> DEFINE some == Starting(ops) \cup ToSet(last)
    <2>1. ops \o last \in Seq(Ops)
      BY ConcatProperties
    <2>2. Only(ops \o last, some) \in Seq(Ops)
      BY <2>1, OnlyKeeps
    <2>3. queue \in Seq(Ops)
      BY DEF TypeOK
    <2>4. queue' = queue \o Only(ops \o last, some)
      BY DEF EnterWith
    <2> HIDE DEF some
    <2>5. QED
      BY <2>2, <2>3, <2>4, ConcatProperties
  <1>2. write' \in [Ops -> Updates]
    <2>1. \A op \in Ops : write[op] \in Updates
      BY DEF TypeOK
    <2>2. NoWrite \in Updates /\ Update("START", Nothing) \in Updates
      BY UpdatesAre
    <2>3. QED
      BY <2>1, <2>2 DEF EnterWith
  <1>3. result' \in [Ops -> Outcomes]
    <2>1. \A op \in Ops : result[op] \in Outcomes /\ CarriedState(op) \in Outcomes
      BY OutcomesAre DEF TypeOK, CarriedState, Records
    <2>2. Refusal \in Outcomes
      BY OutcomesAre
    <2>3. QED
      BY <2>1, <2>2 DEF EnterWith
  <1>4. fatal' \in BOOLEAN
    BY DEF EnterWith, TypeOK
  <1>5. QED
    BY <1>1, <1>2, <1>3, <1>4

LEMMA ClaimedGrows ==
  ASSUME TypeOK
  PROVE  /\ \A ops \in SUBSET Ops : Claimed(ops) \subseteq Ops
         /\ \A ops \in SUBSET Ops : \A op \in ops : Claimed({op}) \subseteq Claimed(ops)
  <1> DEFINE Grow(some) == some \cup (UNION {ToSet(inputs(o)) : o \in {c \in some : kind(c) \in Combinator}})
                                \cup {shape.of[o] : o \in {h \in some : kind(h) = "handle"}}
  <1>1. \A o \in Ops : ToSet(inputs(o)) \subseteq Ops /\ shape.of[o] \in Ops
    BY TypedParts
  <1>2. ASSUME NEW ops \in SUBSET Ops
        PROVE  Grow(ops) \in SUBSET Ops
    <2> DEFINE joined == UNION {ToSet(inputs(o)) : o \in {c \in ops : kind(c) \in Combinator}}
               spawned == {shape.of[o] : o \in {h \in ops : kind(h) = "handle"}}
    <2>1. joined \in SUBSET Ops
      BY <1>1
    <2>2. spawned \in SUBSET Ops
      BY <1>1
    <2>3. Grow(ops) = ops \cup joined \cup spawned
      OBVIOUS
    <2> HIDE DEF Grow, joined, spawned
    <2>4. QED
      BY <2>1, <2>2, <2>3
  <1>3. \A ops, some : ops \subseteq some => Grow(ops) \subseteq Grow(some)
    OBVIOUS
  <1>4. \A ops : Claimed(ops) = Grow(Grow(Grow(ops)))
    BY DEF Claimed
  <1> HIDE DEF Grow
  <1>5. \A ops \in SUBSET Ops : Claimed(ops) \subseteq Ops
    BY <1>2, <1>4
  <1>6. \A ops \in SUBSET Ops : \A op \in ops : Claimed({op}) \subseteq Claimed(ops)
    BY <1>3, <1>4
  <1>7. QED
    BY <1>5, <1>6

LEMMA EnteringIsFatal ==
  ASSUME TypeOK, NEW ops \in Seq(Ops), NEW last \in Seq(Ops), EnterWith(ops, last)
  PROVE  /\ fatal => fatal'
         /\ \A op \in ToSet(ops) : fatal' \/ \A o \in Claimed({op}) : ~ Mismatched(o)
  <1>1. ToSet(ops) \in SUBSET Ops
    BY DEF ToSet
  <1>2. \A op \in ToSet(ops) : Claimed({op}) \subseteq Claimed(ToSet(ops))
    BY <1>1, ClaimedGrows
  <1>3. fatal' = (fatal \/ \E op \in Claimed(ToSet(ops)) : Mismatched(op))
    BY DEF EnterWith
  <1>4. fatal \in BOOLEAN /\ fatal' \in BOOLEAN
    BY EnteringTypes DEF TypeOK
  <1>5. QED
    BY <1>2, <1>3, <1>4

\* Operations that only enter: the others rest.
LEMMA EnterIsLocal ==
  ASSUME TypeOK, NEW ops \in Seq(Ops), Enter(ops),
         \A op \in ToSet(ops) : MayEnter(op),
         UNCHANGED <<shape, record, log, returned, reported, crashes>>
  PROVE  /\ TypeOK'
         /\ \A op \in ToSet(ops) : Enters(op)
         /\ \A op \in Ops : op \notin ToSet(ops) => Rests(op) /\ pc'[op] = pc[op]
  <1>1. EnterWith(ops, <<>>) /\ pc' = Entered(ops)
    BY DEF Enter
  <1>2. <<>> \in Seq(Ops) /\ ToSet(<<>>) = {}
    BY DEF ToSet
  <1>3. ToSet(ops) \subseteq Ops
    BY DEF ToSet
  <1>4. pc' \in [Ops -> Step]
    <2>1. \A op \in Ops : pc[op] \in Step /\ Entry(op) \in Step
      BY DEF TypeOK, Entry, Step
    <2>2. QED
      BY <1>1, <2>1 DEF Entered
  <1>5. TypeOK'
    <2>1. /\ queue' \in Seq(Ops) /\ write' \in [Ops -> Updates]
          /\ result' \in [Ops -> Outcomes] /\ fatal' \in BOOLEAN
      BY <1>1, <1>2, EnteringTypes
    <2>2. QED
      BY <1>4, <2>1 DEF TypeOK
  <1>6. \A op \in Ops :
          /\ pc'[op] = IF op \in ToSet(ops) THEN Entry(op) ELSE pc[op]
          /\ write'[op] = IF op \in Starting(ops) THEN Update("START", Nothing)
                          ELSE IF op \in ToSet(ops) THEN NoWrite ELSE write[op]
          /\ result'[op] = IF op \notin ToSet(ops) THEN result[op]
                           ELSE IF Mismatched(op) THEN Refusal ELSE CarriedState(op)
    BY <1>1, <1>2 DEF EnterWith, Entered
  <1>7. \A op \in ToSet(ops) : Enters(op)
    BY <1>3, <1>6 DEF Enters, SameBooks, Starting
  <1>8. \A op \in Ops : op \notin ToSet(ops) => Rests(op) /\ pc'[op] = pc[op]
    BY <1>6 DEF Rests, SameBooks, Starting
  <1>9. QED
    BY <1>5, <1>7, <1>8

(***************************************************************************)
(* What a step of the invocation does.                                     *)
(***************************************************************************)
\* The inputs of a combinator wait for it.
InputsWait(op) ==
  kind(op) \in Combinator /\ pc[op] \in Asleep \cup {"inputs", "rebuild"} =>
    \A o \in ToSet(inputs(op)) : pc[o] = "off"

\* What was claimed below a combinator is its own, or the invocation fails.
ClaimsFit(op) ==
  kind(op) \in Combinator =>
    /\ pc[op] \in {"inputs", "join", "ran"} => fatal \/ \A o \in Claimed({op}) : ~ Mismatched(o)
    /\ pc[op] = "settling" => \A o \in Claimed({op}) : ~ Mismatched(o)

InvocationFits == \A op \in Ops : Fits(op) /\ InputsWait(op) /\ ClaimsFit(op)

Started(op) == pc[op] \in Asleep /\ pc'[op] # pc[op]

StepFits ==
  /\ TypeOK' /\ shape' = shape
  /\ \A op \in Ops : Local(op)
  /\ \A op \in Ops : Started(op) =>
       \/ op = Top
       \/ \E o \in Ops : /\ op \in ToSet(inputs(o)) /\ pc[o] \notin Asleep
                         /\ kind(o) \in Combinator => pc'[o] \in {"join", "rejoin"}
  /\ fatal => fatal'
  /\ \A op \in Ops : kind(op) \in Combinator /\ Started(op) =>
       fatal' \/ \A o \in Claimed({op}) : ~ Mismatched(o)
  /\ \A op \in Ops : kind(op) \in Combinator /\ pc[op] = "ran" /\ pc'[op] = "settling" => ~ fatal

\* A step of one operation, which does not start it and does not send the
\* outcome of a combinator.
LEMMA OneGoesOn ==
  ASSUME TypeOK, NEW op \in Ops, TypeOK', shape' = shape, Local(op), ~ Started(op), fatal' = fatal,
         kind(op) \in Combinator /\ pc'[op] = "settling" => ~ fatal,
         \A o \in Ops : o # op =>
           /\ SameBooks(o) /\ result'[o] = result[o] /\ pc'[o] = pc[o] /\ write'[o] = write[o]
  PROVE  StepFits
  <1>1. \A o \in Ops : Local(o)
    BY DEF Local, Rests
  <1>2. \A o \in Ops : ~ Started(o)
    BY DEF Started
  <1>3. QED
    BY <1>1, <1>2 DEF StepFits

LEMMA HandlerAwaitsFits ==
  ASSUME TypeOK, InvocationFits, HandlerAwaits
  PROVE  StepFits
  <1>1. Top \in Ops /\ <<Top>> \in Seq(Ops) /\ ToSet(<<Top>>) = {Top}
    BY RecordsAssumption DEF ToSet
  <1>2. Enter(<<Top>>) /\ UNCHANGED <<shape, record, log, returned, reported, crashes>> /\ pc[Top] = "invoked"
    BY DEF HandlerAwaits
  <1>3. MayEnter(Top)
    BY <1>1, <1>2, TypedParts DEF MayEnter, Asleep
  <1>4. /\ TypeOK' /\ Enters(Top)
        /\ \A op \in Ops : op # Top => Rests(op) /\ pc'[op] = pc[op]
    BY <1>1, <1>2, <1>3, EnterIsLocal
  <1>5. /\ fatal => fatal'
        /\ fatal' \/ \A o \in Claimed({Top}) : ~ Mismatched(o)
    <2>1. EnterWith(<<Top>>, <<>>) /\ <<>> \in Seq(Ops)
      BY <1>2 DEF Enter
    <2>2. QED
      BY <1>1, <2>1, EnteringIsFatal
  <1>6. \A op \in Ops : Started(op) => op = Top
    BY <1>4 DEF Started
  <1>7. \A op \in Ops : Local(op)
    BY <1>4 DEF Local
  <1>8. ~ (pc[Top] = "ran") /\ \A op \in Ops : op # Top => pc'[op] = pc[op]
    BY <1>2, <1>4
  <1>9. \A op \in Ops : kind(op) \in Combinator /\ pc[op] = "ran" /\ pc'[op] = "settling" => ~ fatal
    BY <1>8
  <1>10. QED
    BY <1>2, <1>4, <1>5, <1>6, <1>7, <1>9 DEF StepFits

\* What is returned is typed.
LEMMA ReturnIsTyped ==
  ASSUME TypeOK, NEW op \in Ops, NEW out \in Outcomes, NEW kinds \in SUBSET ErrorKinds, Return(op, out, kinds)
  PROVE  /\ pc' \in [Ops -> Step] /\ result' \in [Ops -> Outcomes]
         /\ returned' \in [Ops -> SUBSET Outcomes] /\ reported' \in [Ops -> SUBSET ErrorKinds]
         /\ pc'[op] = "done" /\ result'[op] = out
         /\ \A o \in Ops : o # op => pc'[o] = pc[o] /\ result'[o] = result[o]
  <1>1. pc' \in [Ops -> Step] /\ result' \in [Ops -> Outcomes]
    BY DEF Return, TypeOK, Step
  <1>2. /\ pc'[op] = "done" /\ result'[op] = out
        /\ \A o \in Ops : o # op => pc'[o] = pc[o] /\ result'[o] = result[o]
    BY DEF Return, TypeOK
  <1>3. returned' \in [Ops -> SUBSET Outcomes]
    BY DEF Return, TypeOK
  <1>4. reported' \in [Ops -> SUBSET ErrorKinds]
    BY DEF Return, TypeOK
  <1>5. QED
    BY <1>1, <1>2, <1>3, <1>4

LEMMA KindsAre ==
  ASSUME NEW op, NEW out
  PROVE  {} \in SUBSET ErrorKinds /\ BodyKind(op, out) \in SUBSET ErrorKinds /\ ReplayedKind(op, out) \in SUBSET ErrorKinds
  <1>1. \A k : Usual(k) \in SUBSET ErrorKinds
    BY DEF Usual, ErrorKinds
  <1>2. QED
    BY <1>1 DEF BodyKind, ReplayedKind, ErrorKinds

LEMMA ReplayFits ==
  ASSUME TypeOK, InvocationFits, NEW op \in Ops, Replay(op)
  PROVE  StepFits
  <1>1. /\ pc[op] = "replay" /\ Return(op, log[op].payload, ReplayedKind(op, log[op].payload))
        /\ UNCHANGED <<shape, record, log, write, queue, crashes, fatal>>
    BY DEF Replay, service
  <1>2. log[op].payload \in Outcomes
    BY DEF TypeOK, Records
  <1>3. /\ pc' \in [Ops -> Step] /\ result' \in [Ops -> Outcomes]
        /\ returned' \in [Ops -> SUBSET Outcomes] /\ reported' \in [Ops -> SUBSET ErrorKinds]
        /\ pc'[op] = "done"
        /\ \A o \in Ops : o # op => pc'[o] = pc[o] /\ result'[o] = result[o]
    BY <1>1, <1>2, ReturnIsTyped, KindsAre
  <1>4. TypeOK'
    BY <1>1, <1>3 DEF TypeOK
  <1>5. Local(op) /\ ~ Started(op)
    BY <1>1, <1>3 DEF Local, Moves, SameBooks, Asleep, Started
  <1>6. QED
    BY <1>1, <1>3, <1>4, <1>5, OneGoesOn DEF SameBooks

LEMMA StartRecordedFits ==
  ASSUME TypeOK, InvocationFits, NEW op \in Ops, StartRecorded(op)
  PROVE  StepFits
  <1>1. /\ pc[op] = "starting" /\ StartAnswered(op) /\ pc' = [pc EXCEPT ![op] = "wait"]
        /\ UNCHANGED <<shape, record, log, write, queue, result, returned, reported, crashes, fatal>>
    BY DEF StartRecorded, service
  <1>2. pc' \in [Ops -> Step] /\ pc'[op] = "wait" /\ \A o \in Ops : o # op => pc'[o] = pc[o]
    BY <1>1 DEF TypeOK, Step
  <1>3. TypeOK'
    BY <1>1, <1>2 DEF TypeOK
  <1>4. Local(op) /\ ~ Started(op)
    BY <1>1, <1>2 DEF Local, Moves, SameBooks, Asleep, Started
  <1>5. QED
    BY <1>1, <1>2, <1>3, <1>4, OneGoesOn DEF SameBooks

LEMMA WaitOverFits ==
  ASSUME TypeOK, InvocationFits, NEW op \in Ops, WaitOver(op)
  PROVE  StepFits
  <1>1. pc[op] = "wait" /\ log[op].status \notin Unsettled(op) /\ UNCHANGED <<shape, crashes>>
    BY DEF WaitOver
  <1>2. CASE kind(op) = "condition"
    <2>1. Enter(<<op>>) /\ UNCHANGED <<shape, record, log, returned, reported, crashes>>
      BY <1>1, <1>2 DEF WaitOver
    <2>2. <<op>> \in Seq(Ops) /\ ToSet(<<op>>) = {op}
      BY DEF ToSet
    <2>3. log[op].status \notin {"NONE", "PENDING"}
      BY <1>1, <1>2 DEF Unsettled
    <2>4. MayEnter(op)
      BY <1>1, <1>2, <2>3 DEF MayEnter
    <2>5. /\ TypeOK' /\ Enters(op)
          /\ \A o \in Ops : o # op => Rests(o) /\ pc'[o] = pc[o]
      BY <2>1, <2>2, <2>4, EnterIsLocal
    <2>6. fatal => fatal'
      <3>1. EnterWith(<<op>>, <<>>) /\ <<>> \in Seq(Ops)
        BY <2>1 DEF Enter
      <3>2. QED
        BY <2>2, <3>1, EnteringIsFatal
    <2>7. \A o \in Ops : ~ Started(o) /\ Local(o)
      BY <1>1, <2>5 DEF Started, Asleep, Local
    <2>8. \A o \in Ops : pc[o] = "ran" => pc'[o] = "ran"
      BY <1>1, <2>5
    <2>9. QED
      BY <2>1, <2>5, <2>6, <2>7, <2>8 DEF StepFits
  <1>3. CASE kind(op) # "condition"
    <2>1. Return(op, log[op].payload, {}) /\ UNCHANGED <<shape, record, log, write, queue, crashes, fatal>>
      BY <1>1, <1>3 DEF WaitOver, service
    <2>2. log[op].payload \in Outcomes
      BY DEF TypeOK, Records
    <2>3. /\ pc' \in [Ops -> Step] /\ result' \in [Ops -> Outcomes]
          /\ returned' \in [Ops -> SUBSET Outcomes] /\ reported' \in [Ops -> SUBSET ErrorKinds]
          /\ pc'[op] = "done"
          /\ \A o \in Ops : o # op => pc'[o] = pc[o] /\ result'[o] = result[o]
      BY <2>1, <2>2, ReturnIsTyped, KindsAre
    <2>4. TypeOK'
      BY <2>1, <2>3 DEF TypeOK
    <2>5. Local(op) /\ ~ Started(op)
      BY <1>1, <2>1, <2>3 DEF Local, Moves, SameBooks, Asleep, Started
    <2>6. QED
      BY <2>1, <2>3, <2>4, <2>5, OneGoesOn DEF SameBooks
  <1>4. QED
    BY <1>2, <1>3

LEMMA BodyReturnsFits ==
  ASSUME TypeOK, InvocationFits, NEW op \in Ops, BodyReturns(op)
  PROVE  StepFits
  <1>1. /\ pc[op] = "body" /\ kind(op) \in {"step", "condition"}
        /\ pc' = [pc EXCEPT ![op] = "ran"]
        /\ UNCHANGED <<shape, record, log, write, queue, returned, reported, crashes, fatal>>
    BY DEF BodyReturns, service
  <1>2. PICK out \in {Err(error) : error \in ErrorTypes} \cup (IF kind(op) = "step" THEN {Ok(<<v>>) : v \in Values}
                                          ELSE {Ok(Append(result[op].of, "check"))}) :
           result' = [result EXCEPT ![op] = out]
    BY DEF BodyReturns
  <1>3. out \in Outcomes
    <2>1. \A error \in ErrorTypes : Err(error) \in Outcomes
      BY OutcomesAre
    <2>2. \A v \in Values : Ok(<<v>>) \in Outcomes
      BY OutcomesAre, SingletonIsASeq DEF Contents
    <2>3. Ok(Append(result[op].of, "check")) \in Outcomes
      <3>1. result[op].of \in Seq(Contents) /\ "check" \in Contents
        BY DEF TypeOK, Outcomes, Contents
      <3>2. Append(result[op].of, "check") \in Seq(Contents)
        BY <3>1, AppendProperties
      <3>3. QED
        BY <3>2, OutcomesAre
    <2>4. QED
      BY <1>2, <2>1, <2>2, <2>3
  <1>4. pc' \in [Ops -> Step] /\ result' \in [Ops -> Outcomes]
    BY <1>1, <1>2, <1>3 DEF TypeOK, Step
  <1>5. /\ pc'[op] = "ran"
        /\ \A o \in Ops : o # op => pc'[o] = pc[o] /\ result'[o] = result[o]
    BY <1>1, <1>2 DEF TypeOK
  <1>6. TypeOK'
    BY <1>1, <1>4 DEF TypeOK
  <1>7. Local(op) /\ ~ Started(op)
    BY <1>1, <1>5 DEF Local, Moves, SameBooks, Asleep, Started
  <1>8. QED
    BY <1>1, <1>5, <1>6, <1>7, OneGoesOn DEF SameBooks

\* An outcome that is sent: the step is the operation's own.
LEMMA SendingIsLocal ==
  ASSUME TypeOK, NEW op \in Ops, NEW update \in Updates, NEW out \in Outcomes,
         SubmitOutcome(op, update, out),
         pc[op] = "ran", StartAnswered(op), kind(op) \notin Unrecorded,
         update.st = "queued", update.action \in Answers,
         update.action = "RETRY" =>
           kind(op) = "condition" /\ update.payload.ok /\ log[op].attempt + 1 < MaxChecks,
         kind(op) \in Combinator => ~ fatal,
         kind(op) \in Select /\ update.children => update.winner \in Indices(op),
         UNCHANGED <<shape, record, log, returned, reported, crashes, fatal>>
  PROVE  StepFits
  <1>1. /\ write' = [write EXCEPT ![op] = update] /\ queue' = Append(queue, op)
        /\ result' = [result EXCEPT ![op] = out] /\ pc' = [pc EXCEPT ![op] = "settling"]
    BY DEF SubmitOutcome, Submit
  <1>2. /\ write' \in [Ops -> Updates] /\ result' \in [Ops -> Outcomes] /\ pc' \in [Ops -> Step]
    BY <1>1 DEF TypeOK, Step
  <1>3. queue' \in Seq(Ops)
    BY <1>1, AppendProperties DEF TypeOK
  <1>4. TypeOK'
    BY <1>2, <1>3 DEF TypeOK
  <1>5. /\ write'[op] = update /\ pc'[op] = "settling" /\ result'[op] = out
        /\ \A o \in Ops : o # op => pc'[o] = pc[o] /\ result'[o] = result[o] /\ write'[o] = write[o]
    BY <1>1 DEF TypeOK
  <1>6. Local(op) /\ ~ Started(op)
    BY <1>5 DEF Local, Sends, SameBooks, Asleep, Started
  <1>7. QED
    BY <1>4, <1>5, <1>6, OneGoesOn DEF SameBooks

LEMMA SubmitUnserializedFits ==
  ASSUME TypeOK, NEW op \in Ops, SubmitUnserialized(op),
         pc[op] = "ran", StartAnswered(op), kind(op) \notin Unrecorded \cup Combinator,
         UNCHANGED <<shape, record, log, returned, reported, crashes, fatal>>
  PROVE  StepFits
  <1>1. SubmitOutcome(op, Update("FAIL", Err("SerializationError")), result[op])
    BY DEF SubmitUnserialized
  <1>2. Err("SerializationError") \in Outcomes /\ result[op] \in Outcomes /\ "FAIL" \in Answers
    BY OutcomesAre DEF Errors, TypeOK, Answers
  <1>3. /\ Update("FAIL", Err("SerializationError")) \in Updates
        /\ Update("FAIL", Err("SerializationError")).st = "queued"
        /\ Update("FAIL", Err("SerializationError")).action = "FAIL"
    BY <1>2, UpdatesAre
  <1>4. kind(op) \notin Select
    BY DEF Combinator, Select
  <1>5. QED
    BY <1>1, <1>2, <1>3, <1>4, SendingIsLocal

LEMMA SettleStepFits ==
  ASSUME TypeOK, InvocationFits, NEW op \in Ops, SettleStep(op), ~ SubmitUnserialized(op)
  PROVE  StepFits
  <1> DEFINE action == IF result[op].ok THEN "SUCCEED" ELSE "FAIL"
  <1>1. /\ pc[op] = "ran" /\ kind(op) = "step" /\ StartAnswered(op)
        /\ SubmitOutcome(op, Update(action, result[op]), result[op])
        /\ UNCHANGED <<shape, record, log, returned, reported, crashes, fatal>>
    BY DEF SettleStep
  <1>2. action \in {"SUCCEED", "FAIL"} /\ result[op] \in Outcomes
    BY DEF TypeOK
  <1> HIDE DEF action
  <1>3. /\ Update(action, result[op]) \in Updates
        /\ Update(action, result[op]).st = "queued" /\ Update(action, result[op]).action = action
    BY <1>2, UpdatesAre DEF Answers
  <1>4. action \in Answers /\ action # "RETRY" /\ kind(op) \notin Combinator /\ kind(op) \notin Select /\ kind(op) \notin Unrecorded
    BY <1>1, <1>2 DEF Answers, Combinator, Select
  <1>5. QED
    BY <1>1, <1>2, <1>3, <1>4, SendingIsLocal

LEMMA SettleCheckFits ==
  ASSUME TypeOK, InvocationFits, NEW op \in Ops, SettleCheck(op), ~ SubmitUnserialized(op)
  PROVE  StepFits
  <1>1. /\ pc[op] = "ran" /\ kind(op) = "condition" /\ StartAnswered(op)
        /\ UNCHANGED <<shape, record, log, returned, reported, crashes, fatal>>
    BY DEF SettleCheck
  <1>2. PICK action \in Answers, out \in Outcomes :
          /\ SubmitOutcome(op, Update(action, out), out)
          /\ action = "RETRY" => out.ok /\ log[op].attempt + 1 < MaxChecks
    <2>1. result[op] \in Outcomes /\ Err("MaxChecksExceeded") \in Outcomes
      BY OutcomesAre DEF TypeOK, Errors
    <2>2. {"FAIL", "SUCCEED", "RETRY"} \subseteq Answers
      BY DEF Answers
    <2>3. \/ SubmitOutcome(op, Update("FAIL", result[op]), result[op])
          \/ SubmitOutcome(op, Update("SUCCEED", result[op]), result[op])
          \/ /\ result[op].ok /\ log[op].attempt + 1 < MaxChecks
             /\ SubmitOutcome(op, Update("RETRY", result[op]), result[op])
          \/ SubmitOutcome(op, Update("FAIL", Err("MaxChecksExceeded")), Err("MaxChecksExceeded"))
      BY DEF SettleCheck
    <2>4. QED
      BY <2>1, <2>2, <2>3
  <1>3. /\ Update(action, out) \in Updates /\ Update(action, out).st = "queued"
        /\ Update(action, out).action = action /\ Update(action, out).payload = out
    BY UpdatesAre
  <1>4. kind(op) \notin Combinator /\ kind(op) \notin Select /\ kind(op) \notin Unrecorded
    BY <1>1 DEF Combinator, Select
  <1>5. QED
    BY <1>1, <1>2, <1>3, <1>4, SendingIsLocal

LEMMA OutcomeRecordedFits ==
  ASSUME TypeOK, InvocationFits, NEW op \in Ops, OutcomeRecorded(op)
  PROVE  StepFits
  <1>1. /\ pc[op] = "settling" /\ write[op].st = "answered"
        /\ UNCHANGED <<shape, record, log, write, queue, crashes, fatal>>
    BY DEF OutcomeRecorded, service
  <1>2. CASE write[op].action = "RETRY"
    <2>1. pc' = [pc EXCEPT ![op] = "wait"] /\ UNCHANGED <<result, returned, reported>>
      BY <1>2 DEF OutcomeRecorded
    <2>2. pc' \in [Ops -> Step] /\ pc'[op] = "wait" /\ \A o \in Ops : o # op => pc'[o] = pc[o]
      BY <2>1 DEF TypeOK, Step
    <2>3. TypeOK'
      BY <1>1, <2>1, <2>2 DEF TypeOK
    <2>4. Local(op) /\ ~ Started(op)
      BY <1>1, <1>2, <2>2 DEF Local, Moves, SameBooks, Asleep, Started
    <2>5. QED
      BY <1>1, <2>1, <2>2, <2>3, <2>4, OneGoesOn DEF SameBooks
  <1>3. CASE write[op].action # "RETRY"
    <2>1. PICK out \in {result[op], write[op].payload}, kinds \in {BodyKind(op, result[op]), ReplayedKind(op, write[op].payload)} :
            Return(op, out, kinds)
      BY <1>3 DEF OutcomeRecorded
    <2>2. out \in Outcomes /\ kinds \in SUBSET ErrorKinds
      BY KindsAre DEF TypeOK, Updates
    <2>3. /\ pc' \in [Ops -> Step] /\ result' \in [Ops -> Outcomes]
          /\ returned' \in [Ops -> SUBSET Outcomes] /\ reported' \in [Ops -> SUBSET ErrorKinds]
          /\ pc'[op] = "done"
          /\ \A o \in Ops : o # op => pc'[o] = pc[o] /\ result'[o] = result[o]
      BY <2>1, <2>2, ReturnIsTyped, KindsAre
    <2>4. TypeOK'
      BY <1>1, <2>3 DEF TypeOK
    <2>5. Local(op) /\ ~ Started(op)
      BY <1>1, <2>3 DEF Local, Moves, SameBooks, Asleep, Started
    <2>6. QED
      BY <1>1, <2>3, <2>4, <2>5, OneGoesOn DEF SameBooks
  <1>4. QED
    BY <1>2, <1>3


\* Inputs of a scope that start: the scope is at work.
LEMMA InputsStart ==
  ASSUME TypeOK, InvocationFits, NEW op \in Ops, kind(op) \in Scoped, pc[op] \in {"body", "rebuild"},
         NEW ops \in Seq(Ops), ToSet(ops) \subseteq ToSet(inputs(op)),
         \A o \in ToSet(ops) : pc[o] = "off",
         Enter(ops), UNCHANGED <<shape, record, log, returned, reported, crashes>>
  PROVE  StepFits
  <1>1. \A o \in ToSet(ops) : MayEnter(o)
    BY TypedParts DEF MayEnter, Asleep
  <1>2. /\ TypeOK'
        /\ \A o \in ToSet(ops) : Enters(o)
        /\ \A o \in Ops : o \notin ToSet(ops) => Rests(o) /\ pc'[o] = pc[o]
    BY <1>1, EnterIsLocal
  <1>3. /\ fatal => fatal'
        /\ \A o \in ToSet(ops) : fatal' \/ \A c \in Claimed({o}) : ~ Mismatched(c)
    <2>1. EnterWith(ops, <<>>) /\ <<>> \in Seq(Ops)
      BY DEF Enter
    <2>2. QED
      BY <2>1, EnteringIsFatal
  <1>4. \A o \in Ops : Local(o)
    BY <1>2 DEF Local
  <1>5. \A o \in Ops : Started(o) => o \in ToSet(ops)
    BY <1>2 DEF Started
  <1>6. pc[op] \notin Asleep /\ kind(op) \notin Combinator
    BY DEF Scoped, Scope, Combinator, Asleep
  <1>7. \A o \in Ops : pc[o] = "ran" => pc'[o] = "ran"
    BY <1>2
  <1>8. QED
    BY <1>2, <1>3, <1>4, <1>5, <1>6, <1>7 DEF StepFits

LEMMA BodyStartsFits ==
  ASSUME TypeOK, InvocationFits, NEW op \in Ops, BodyStarts(op)
  PROVE  StepFits
  <1> DEFINE ops == IF kind(op) \in {"child", "virtual"} THEN inputs(op) ELSE <<Head(inputs(op))>>
  <1>1. /\ kind(op) \in Scoped /\ pc[op] \in {"body", "rebuild"} /\ Spawned(op) = {}
        /\ Enter(ops) /\ UNCHANGED <<shape, record, log, returned, reported, crashes>>
    BY DEF BodyStarts, Running
  <1>2. inputs(op) \in Seq(Ops) /\ inputs(op) # <<>> /\ DOMAIN inputs(op) = 1 .. Len(inputs(op))
    BY <1>1, TypedParts DEF Scoped
  <1>3. Head(inputs(op)) \in Ops /\ Head(inputs(op)) \in ToSet(inputs(op))
    <2>1. Head(inputs(op)) = inputs(op)[1] /\ 1 \in DOMAIN inputs(op)
      BY <1>2
    <2>2. QED
      BY <1>2, <2>1 DEF ToSet
  <1>4. ops \in Seq(Ops) /\ ToSet(ops) \subseteq ToSet(inputs(op))
    <2>1. <<Head(inputs(op))>> \in Seq(Ops) /\ ToSet(<<Head(inputs(op))>>) = {Head(inputs(op))}
      BY <1>3, SingletonIsASeq DEF ToSet
    <2>2. QED
      BY <1>2, <1>3, <2>1
  <1>5. \A o \in ToSet(inputs(op)) : pc[o] = "off"
    BY <1>1 DEF Spawned, ToSet
  <1> HIDE DEF ops
  <1>6. QED
    BY <1>1, <1>4, <1>5, InputsStart

LEMMA BodyGoesOnFits ==
  ASSUME TypeOK, InvocationFits, NEW op \in Ops, BodyGoesOn(op)
  PROVE  StepFits
  <1>1. /\ kind(op) \in Scoped /\ pc[op] \in {"body", "rebuild"}
        /\ UNCHANGED <<shape, record, log, returned, reported, crashes>>
    BY DEF BodyGoesOn, Running
  <1>2. PICK n \in 1 .. Len(inputs(op)) - 1 : Spawned(op) = 1 .. n /\ Enter(<<inputs(op)[n + 1]>>)
    BY DEF BodyGoesOn
  <1>3. inputs(op) \in Seq(Ops) /\ DOMAIN inputs(op) = 1 .. Len(inputs(op)) /\ Len(inputs(op)) \in Nat
    BY TypedParts
  <1>4. n + 1 \in DOMAIN inputs(op) /\ n + 1 \notin Spawned(op)
    BY <1>2, <1>3
  <1>5. /\ inputs(op)[n + 1] \in Ops /\ inputs(op)[n + 1] \in ToSet(inputs(op))
        /\ pc[inputs(op)[n + 1]] = "off"
    BY <1>3, <1>4 DEF Spawned, ToSet
  <1>6. /\ <<inputs(op)[n + 1]>> \in Seq(Ops)
        /\ ToSet(<<inputs(op)[n + 1]>>) = {inputs(op)[n + 1]}
    BY <1>5, SingletonIsASeq DEF ToSet
  <1>7. QED
    BY <1>1, <1>2, <1>5, <1>6, InputsStart


\* A scope that closes drops what is queued inside it, and nothing else.
LEMMA ClosingDrops ==
  ASSUME TypeOK, NEW ops \in SUBSET Ops, CloseScopes(ops)
  PROVE  /\ queue' \in Seq(Ops) /\ write' \in [Ops -> Updates]
         /\ \A o \in Ops :
              \/ write'[o] = write[o]
              \/ /\ \E c \in ops : kind(c) \in Scope /\ o \in Inside[c]
                 /\ write[o].st = "queued" /\ write'[o] = NoWrite
  <1> DEFINE closed == UNION {Inside[op] : op \in {o \in ops : kind(o) \in Scope}}
             dropped(sent) == {op \in closed : write[op].st = "queued" /\ ~ (sent /\ op = Head(queue))}
  <1>1. PICK sent \in BOOLEAN :
          /\ queue' = Only(queue, Ops \ dropped(sent))
          /\ write' = [op \in Ops |-> IF op \in dropped(sent) THEN NoWrite ELSE write[op]]
    BY DEF CloseScopes
  <1>2. \A o \in dropped(sent) :
          (\E c \in ops : kind(c) \in Scope /\ o \in Inside[c]) /\ write[o].st = "queued"
    OBVIOUS
  <1> HIDE DEF dropped
  <1>3. queue' \in Seq(Ops)
    BY <1>1, OnlyKeeps DEF TypeOK
  <1>4. write' \in [Ops -> Updates]
    <2>1. \A o \in Ops : write[o] \in Updates /\ NoWrite \in Updates
      BY UpdatesAre DEF TypeOK
    <2>2. QED
      BY <1>1, <2>1
  <1>5. QED
    BY <1>1, <1>2, <1>3, <1>4

\* An operation is over, and what it runs is stopped.
LEMMA OneStopsOthers ==
  ASSUME TypeOK, InvocationFits, NEW op \in Ops,
         NEW ops \in SUBSET Ops, NEW theirs \in SUBSET Ops, op \notin theirs, Top \notin theirs,
         CloseScopes(ops), \A c \in ops : kind(c) \in Scope => Inside[c] \subseteq theirs,
         NEW next \in {"ran", "done"}, pc' = [Stopped(theirs) EXCEPT ![op] = next],
         NEW out \in Outcomes, result' = [result EXCEPT ![op] = out],
         returned' \in [Ops -> SUBSET Outcomes], reported' \in [Ops -> SUBSET ErrorKinds],
         UNCHANGED <<shape, record, log, crashes, fatal>>,
         pc[op] \notin Asleep,
         next = "ran" =>
           \/ pc[op] = "body" /\ kind(op) \notin Unrecorded
           \/ pc[op] = "join" /\ (kind(op) \in Select /\ out.ok => out.at \in Indices(op))
  PROVE  StepFits
  <1>1. /\ queue' \in Seq(Ops) /\ write' \in [Ops -> Updates]
        /\ \A o \in Ops :
              \/ write'[o] = write[o]
              \/ o \in theirs /\ write[o].st = "queued" /\ write'[o] = NoWrite
    BY ClosingDrops
  <1>2. /\ pc'[op] = next
        /\ \A o \in Ops : o # op => pc'[o] = IF o \in theirs /\ Unfinished(o) THEN "stopped" ELSE pc[o]
    BY DEF Stopped
  <1>3. pc' \in [Ops -> Step]
    <2>1. \A o \in Ops : pc[o] \in Step
      BY DEF TypeOK
    <2>2. \A o \in Ops : pc'[o] \in Step
      BY <1>2, <2>1 DEF Step
    <2>3. pc' = [o \in Ops |-> pc'[o]]
      BY DEF Stopped
    <2>4. QED
      BY <2>2, <2>3
  <1>4. result' \in [Ops -> Outcomes] /\ result'[op] = out /\ \A o \in Ops : o # op => result'[o] = result[o]
    BY DEF TypeOK
  <1>5. TypeOK'
    BY <1>1, <1>3, <1>4 DEF TypeOK
  <1>6. write'[op] = write[op]
    BY <1>1
  <1>7. Moves(op)
    BY <1>2, <1>4, <1>6 DEF Moves, SameBooks
  <1>8. ASSUME NEW o \in Ops, o # op
        PROVE  Rests(o) /\ ~ Started(o) /\ (pc'[o] # "settling" \/ pc'[o] = pc[o])
    <2>1. pc'[o] = pc[o] \/ (pc'[o] = "stopped" /\ pc[o] # "off" /\ o \in theirs)
      BY <1>2, <1>8 DEF Unfinished
    <2>2. pc[o] = "invoked" => o = Top
      BY DEF InvocationFits, Fits, PlaceFits
    <2>3. o \in theirs => pc'[o] \in {"off", "done", "stopped"}
      BY <1>2, <1>8 DEF Unfinished
    <2>4. Rests(o)
      BY <1>1, <1>4, <1>8, <2>1, <2>3 DEF Rests, SameBooks
    <2>5. ~ Started(o)
      BY <2>1, <2>2 DEF Started, Asleep
    <2>6. QED
      BY <2>1, <2>4, <2>5
  <1>9. ~ Started(op)
    BY DEF Started
  <1>10. \A o \in Ops : Local(o) /\ ~ Started(o)
    BY <1>7, <1>8, <1>9 DEF Local
  <1>11. \A o \in Ops : pc[o] = "ran" => pc'[o] # "settling"
    BY <1>2, <1>8
  <1>12. QED
    BY <1>5, <1>10, <1>11 DEF StepFits

\* The last input that was started is one.
LEMMA LatestIsAnInput ==
  ASSUME TypeOK, NEW op \in Ops, Spawned(op) # {}
  PROVE  Latest(op) \in Ops
  <1>1. inputs(op) \in Seq(Ops) /\ DOMAIN inputs(op) = 1 .. Len(inputs(op)) /\ Len(inputs(op)) \in Nat
    BY TypedParts
  <1>2. Spawned(op) \in SUBSET (1 .. Len(inputs(op)))
    BY <1>1 DEF Spawned
  <1>3. IsFiniteSet(1 .. Len(inputs(op))) /\ Cardinality(1 .. Len(inputs(op))) \in {0, Len(inputs(op))}
    <2>1. 1 \in Int /\ Len(inputs(op)) \in Int
      BY <1>1
    <2>2. /\ IsFiniteSet(1 .. Len(inputs(op)))
          /\ Cardinality(1 .. Len(inputs(op))) =
               IF 1 > Len(inputs(op)) THEN 0 ELSE Len(inputs(op)) - 1 + 1
      BY <2>1, FS_Interval
    <2>3. QED
      BY <1>1, <2>2
  <1>4. /\ IsFiniteSet(Spawned(op))
        /\ Cardinality(Spawned(op)) <= Cardinality(1 .. Len(inputs(op)))
    BY <1>2, <1>3, FS_Subset
  <1>5. Cardinality(Spawned(op)) \in Nat /\ Cardinality(Spawned(op)) # 0
    BY <1>4, FS_CardinalityType, FS_EmptySet
  <1>6. Cardinality(Spawned(op)) \in 1 .. Len(inputs(op))
    BY <1>1, <1>3, <1>4, <1>5
  <1>7. QED
    BY <1>1, <1>6, ElementOfSeq DEF Latest

LEMMA ReturnsAreTyped ==
  ASSUME TypeOK, NEW op \in Ops, kind(op) \in Scoped, Spawned(op) # {}
  PROVE  Returns(op) \subseteq Outcomes
  <1>1. inputs(op) \in Seq(Ops) /\ inputs(op) # <<>>
    BY TypedParts DEF Scoped
  <1>2. Head(inputs(op)) \in Ops
    BY <1>1
  <1>3. Latest(op) \in Ops
    BY LatestIsAnInput
  <1>4. \A o \in Ops : result[o] \in Outcomes
    BY DEF TypeOK
  <1>5. Refusal \in Outcomes /\ Err("SubmitterFailed") \in Outcomes /\ Err("ChildFailed") \in Outcomes
    BY OutcomesAre DEF Errors
  <1>6. CASE kind(op) = "wait_for_callback"
    BY <1>2, <1>3, <1>4, <1>5, <1>6 DEF Returns
  <1>7. CASE kind(op) = "with_retry"
    BY <1>3, <1>4, <1>7 DEF Returns
  <1>8. CASE kind(op) \notin {"wait_for_callback", "with_retry"}
    BY <1>2, <1>4, <1>5, <1>8 DEF Returns
  <1>9. QED
    BY <1>6, <1>7, <1>8

LEMMA LiveBodyReturnsFits ==
  ASSUME TypeOK, InvocationFits, NEW op \in Ops, LiveBodyReturns(op)
  PROVE  StepFits
  <1>1. /\ kind(op) \in Scoped /\ kind(op) # "virtual" /\ pc[op] = "body" /\ Spawned(op) # {}
        /\ CloseScopes({op}) /\ pc' = [Stopped(Inside[op]) EXCEPT ![op] = "ran"]
        /\ UNCHANGED <<shape, record, log, returned, reported, crashes, fatal>>
    BY DEF LiveBodyReturns, Running
  <1>2. PICK out \in Returns(op) : result' = [result EXCEPT ![op] = out]
    BY DEF LiveBodyReturns
  <1>3. out \in Outcomes
    BY <1>1, ReturnsAreTyped
  <1>4. Inside[op] \in SUBSET Ops /\ op \notin Inside[op] /\ Top \notin Inside[op]
    BY InsideIsATree
  <1>5. returned' \in [Ops -> SUBSET Outcomes] /\ reported' \in [Ops -> SUBSET ErrorKinds] /\ pc[op] \notin Asleep
    BY <1>1 DEF TypeOK, Asleep
  <1>6. kind(op) \notin Unrecorded
    BY <1>1 DEF Scoped, Scope
  <1>7. QED
    BY <1>1, <1>2, <1>3, <1>4, <1>5, <1>6, OneStopsOthers

LEMMA RebuildReturnsFits ==
  ASSUME TypeOK, InvocationFits, NEW op \in Ops, RebuildReturns(op)
  PROVE  StepFits
  <1>1. /\ kind(op) \in Scoped /\ pc[op] = "rebuild" /\ Spawned(op) # {}
        /\ CloseScopes({op}) /\ pc' = [Stopped(Inside[op]) EXCEPT ![op] = "done"]
        /\ UNCHANGED <<shape, record, log, crashes, fatal>>
    BY DEF RebuildReturns, Running
  <1>2. PICK out \in Returns(op) :
          /\ result' = [result EXCEPT ![op] = out]
          /\ returned' = IF fatal THEN returned ELSE [returned EXCEPT ![op] = @ \cup {out}]
          /\ reported' = IF fatal THEN reported ELSE [reported EXCEPT ![op] = @ \cup BodyKind(op, out)]
    BY DEF RebuildReturns
  <1>3. out \in Outcomes
    BY <1>1, ReturnsAreTyped
  <1>4. Inside[op] \in SUBSET Ops /\ op \notin Inside[op] /\ Top \notin Inside[op]
    BY InsideIsATree
  <1>5. returned' \in [Ops -> SUBSET Outcomes] /\ reported' \in [Ops -> SUBSET ErrorKinds]
    BY <1>2, <1>3, KindsAre DEF TypeOK
  <1>6. pc[op] \notin Asleep
    BY <1>1 DEF Asleep
  <1>7. QED
    BY <1>1, <1>2, <1>3, <1>4, <1>5, <1>6, OneStopsOthers

LEMMA VirtualReturnsFits ==
  ASSUME TypeOK, InvocationFits, NEW op \in Ops, VirtualReturns(op)
  PROVE  StepFits
  <1>1. /\ kind(op) \in Scoped /\ pc[op] \in {"body", "rebuild"} /\ Spawned(op) # {}
        /\ UNCHANGED <<shape, record, log, write, queue, crashes, fatal>>
    BY DEF VirtualReturns, Running, service
  <1>2. PICK out \in Returns(op) : Return(op, out, {})
    BY DEF VirtualReturns
  <1>3. out \in Outcomes
    BY <1>1, ReturnsAreTyped
  <1>4. /\ pc' \in [Ops -> Step] /\ result' \in [Ops -> Outcomes]
        /\ returned' \in [Ops -> SUBSET Outcomes] /\ reported' \in [Ops -> SUBSET ErrorKinds]
        /\ pc'[op] = "done"
        /\ \A o \in Ops : o # op => pc'[o] = pc[o] /\ result'[o] = result[o]
    BY <1>2, <1>3, ReturnIsTyped, KindsAre
  <1>5. TypeOK'
    BY <1>1, <1>4 DEF TypeOK
  <1>6. Local(op) /\ ~ Started(op)
    BY <1>1, <1>4 DEF Local, Moves, SameBooks, Asleep, Started
  <1>7. QED
    BY <1>1, <1>4, <1>5, <1>6, OneGoesOn DEF SameBooks

LEMMA SettleContextFits ==
  ASSUME TypeOK, InvocationFits, NEW op \in Ops, SettleContext(op), ~ SubmitUnserialized(op)
  PROVE  StepFits
  <1> DEFINE out == result[op]
             summary == kind(op) # "wait_for_callback" /\ Oversized(out)
             action == IF out.ok THEN "SUCCEED" ELSE "FAIL"
             payload == IF summary THEN Nothing ELSE out
             update == [Update(action, payload) EXCEPT !.children = summary]
  <1>1. /\ pc[op] = "ran" /\ kind(op) \in Scope /\ StartAnswered(op)
        /\ SubmitOutcome(op, update, out)
        /\ UNCHANGED <<shape, record, log, returned, reported, crashes, fatal>>
    BY DEF SettleContext
  <1>2. out \in Outcomes /\ payload \in Outcomes /\ action \in Answers /\ action # "RETRY" /\ summary \in BOOLEAN
    <2>1. out \in Outcomes /\ Nothing \in Outcomes /\ out.ok \in BOOLEAN
      BY OutcomesAre DEF TypeOK, Outcomes
    <2>2. summary \in BOOLEAN
      BY <2>1 DEF Oversized, Contains
    <2>3. QED
      BY <2>1, <2>2 DEF Answers
  <1> HIDE DEF out, summary, action, payload
  <1>3. /\ Update(action, payload) \in Updates
        /\ Update(action, payload).st = "queued" /\ Update(action, payload).action = action
    BY <1>2, UpdatesAre
  <1>4. update \in Updates /\ update.st = "queued" /\ update.action = action
    BY <1>2, <1>3 DEF Updates
  <1> HIDE DEF update
  <1>5. kind(op) \notin Combinator /\ kind(op) \notin Select /\ kind(op) \notin Unrecorded
    BY <1>1 DEF Scope, Combinator, Select
  <1>6. QED
    BY <1>1, <1>2, <1>4, <1>5, SendingIsLocal


(***************************************************************************)
(* The steps of the combinators.                                           *)
(***************************************************************************)
\* A combinator enters inputs that waited for it.
LEMMA CombinatorEnters ==
  ASSUME TypeOK, InvocationFits, NEW op \in Ops, kind(op) \in Combinator,
         NEW ops \in Seq(Ops), NEW last \in Seq(Ops), NEW next \in {"join", "rejoin"},
         ToSet(ops) \subseteq ToSet(inputs(op)), \A o \in ToSet(ops) : pc[o] = "off",
         EnterWith(ops, last), pc' = [Entered(ops) EXCEPT ![op] = next],
         \/ pc[op] = "inputs" /\ next = "join" /\ ToSet(last) = IF NeedsStart(op) THEN {op} ELSE {}
         \/ pc[op] = "rebuild" /\ next = "rejoin" /\ ToSet(last) = {},
         UNCHANGED <<shape, record, log, returned, reported, crashes>>
  PROVE  StepFits
  <1>1. op \notin ToSet(ops) /\ ToSet(ops) \subseteq Ops
    BY InsideIsATree, TypedParts
  <1>2. /\ queue' \in Seq(Ops) /\ write' \in [Ops -> Updates]
        /\ result' \in [Ops -> Outcomes] /\ fatal' \in BOOLEAN
    BY EnteringTypes
  <1>3. /\ pc'[op] = next
        /\ \A o \in Ops : o # op => pc'[o] = IF o \in ToSet(ops) THEN Entry(o) ELSE pc[o]
    BY DEF Entered
  <1>4. pc' \in [Ops -> Step]
    <2>1. \A o \in Ops : pc[o] \in Step /\ Entry(o) \in Step
      BY DEF TypeOK, Entry, Step
    <2>2. \A o \in Ops : pc'[o] \in Step
      BY <1>3, <2>1 DEF Step
    <2>3. pc' = [o \in Ops |-> pc'[o]]
      BY DEF Entered
    <2>4. QED
      BY <2>2, <2>3
  <1>5. TypeOK'
    BY <1>2, <1>4 DEF TypeOK
  <1>6. \A o \in Ops :
          /\ write'[o] = IF o \in Starting(ops) \/ o \in ToSet(last) THEN Update("START", Nothing)
                         ELSE IF o \in ToSet(ops) THEN NoWrite ELSE write[o]
          /\ result'[o] = IF o \notin ToSet(ops) THEN result[o]
                          ELSE IF Mismatched(o) THEN Refusal ELSE CarriedState(o)
    BY DEF EnterWith
  <1>7. \A o \in Starting(ops) : o \in ToSet(ops)
    BY DEF Starting
  <1>8. Local(op)
    <2>1. SameBooks(op) /\ result'[op] = result[op] /\ op \notin Starting(ops)
      BY <1>1, <1>6, <1>7 DEF SameBooks
    <2>2. CASE pc[op] = "inputs" /\ next = "join" /\ ToSet(last) = IF NeedsStart(op) THEN {op} ELSE {}
      <3>1. write'[op] = IF NeedsStart(op) THEN Update("START", Nothing) ELSE write[op]
        BY <1>1, <1>6, <2>1, <2>2
      <3>2. QED
        BY <1>3, <2>1, <2>2, <3>1 DEF Local, Begins
    <2>3. CASE pc[op] = "rebuild" /\ next = "rejoin" /\ ToSet(last) = {}
      <3>1. write'[op] = write[op]
        BY <1>1, <1>6, <2>1, <2>3
      <3>2. QED
        BY <1>3, <2>1, <2>3, <3>1 DEF Local, Moves
    <2>4. QED
      BY <2>2, <2>3
  <1>9. ASSUME NEW o \in ToSet(ops)
        PROVE  Local(o) /\ o \in Ops /\ o # op
    <2>1. o \in Ops /\ o # op /\ o \notin ToSet(last)
      BY <1>1
    <2>2. MayEnter(o)
      BY TypedParts DEF MayEnter, Asleep
    <2>3. write'[o] = IF kind(o) \notin Combinator /\ NeedsStart(o) THEN Update("START", Nothing) ELSE NoWrite
      BY <1>6, <2>1 DEF Starting
    <2>4. Enters(o)
      BY <1>3, <1>6, <2>1, <2>2, <2>3 DEF Enters, SameBooks
    <2>5. QED
      BY <2>1, <2>4 DEF Local
  <1>10. ASSUME NEW o \in Ops, o # op, o \notin ToSet(ops)
         PROVE  Local(o) /\ pc'[o] = pc[o]
    <2>1. write'[o] = write[o] /\ result'[o] = result[o] /\ pc'[o] = pc[o]
      BY <1>3, <1>6, <1>7, <1>10
    <2>2. QED
      BY <2>1 DEF Local, Rests, SameBooks
  <1>11. \A o \in Ops : Local(o)
    BY <1>8, <1>9, <1>10
  <1>12. pc[op] \notin Asleep
    BY DEF Asleep
  <1>13. \A o \in Ops : Started(o) => o \in ToSet(ops)
    BY <1>10, <1>12 DEF Started
  <1>14. \A o \in Ops : pc[o] = "ran" => pc'[o] = "ran"
    BY <1>9, <1>10
  <1>15. /\ fatal => fatal'
         /\ \A o \in ToSet(ops) : fatal' \/ \A c \in Claimed({o}) : ~ Mismatched(c)
    BY EnteringIsFatal
  <1>16. QED
    BY <1>3, <1>5, <1>11, <1>12, <1>13, <1>14, <1>15 DEF StepFits

LEMMA BeginInputsFits ==
  ASSUME TypeOK, InvocationFits, NEW op \in Ops, BeginInputs(op)
  PROVE  StepFits
  <1> DEFINE last == IF NeedsStart(op) THEN <<op>> ELSE <<>>
  <1>1. /\ kind(op) \in Combinator /\ pc[op] = "inputs" /\ EnterWith(inputs(op), last)
        /\ pc' = [Entered(inputs(op)) EXCEPT ![op] = "join"]
        /\ UNCHANGED <<shape, record, log, returned, reported, crashes>>
    BY DEF BeginInputs
  <1>2. last \in Seq(Ops) /\ ToSet(last) = IF NeedsStart(op) THEN {op} ELSE {}
    <2>1. <<op>> \in Seq(Ops) /\ <<>> \in Seq(Ops) /\ ToSet(<<op>>) = {op} /\ ToSet(<<>>) = {}
      BY SingletonIsASeq DEF ToSet
    <2>2. QED
      BY <2>1
  <1> HIDE DEF last
  <1>3. inputs(op) \in Seq(Ops) /\ \A o \in ToSet(inputs(op)) : pc[o] = "off"
    BY <1>1, TypedParts DEF InvocationFits, InputsWait
  <1>4. QED
    BY <1>1, <1>2, <1>3, CombinatorEnters

\* The winner a record names is an input.
LEMMA WinnerIsAnInput ==
  ASSUME TypeOK, NEW op \in Ops, Fits(op), KeptFits(op),
         kind(op) \in Select, pc[op] \in {"rebuild", "rejoin"}
  PROVE  log[op].winner \in Indices(op)
  <1>1. log[op].status \in Terminal /\ ~ Mismatched(op) /\ log[op] = record[op]
    BY DEF Fits, PhaseFits, PlaceFits, LogFits, Asleep
  <1>2. log[op].kind # "none"
    BY <1>1 DEF Fits, LogFits, Terminal
  <1>3. Identity(record[op].kind) = Identity(kind(op))
    BY <1>1, <1>2 DEF Mismatched
  <1>4. record[op].kind = kind(op) /\ record[op].children
    BY <1>1, <1>2, <1>3 DEF KeptFits
  <1>5. QED
    BY <1>1, <1>4 DEF KeptFits

LEMMA RebuildFits ==
  ASSUME TypeOK, InvocationFits, NEW op \in Ops, KeptFits(op), Rebuild(op)
  PROVE  StepFits
  <1> DEFINE again == IF kind(op) \in Select THEN <<inputs(op)[log[op].winner]>> ELSE inputs(op)
  <1>1. /\ kind(op) \in Combinator /\ pc[op] = "rebuild" /\ EnterWith(again, <<>>)
        /\ pc' = [Entered(again) EXCEPT ![op] = "rejoin"]
        /\ UNCHANGED <<shape, record, log, returned, reported, crashes>>
    BY DEF Rebuild
  <1>2. inputs(op) \in Seq(Ops) /\ \A o \in ToSet(inputs(op)) : pc[o] = "off"
    BY <1>1, TypedParts DEF InvocationFits, InputsWait
  <1>3. again \in Seq(Ops) /\ ToSet(again) \subseteq ToSet(inputs(op))
    <2>1. CASE kind(op) \in Select
      <3>1. log[op].winner \in DOMAIN inputs(op)
        BY <1>1, <2>1, WinnerIsAnInput DEF Indices, InvocationFits
      <3>2. inputs(op)[log[op].winner] \in Ops /\ inputs(op)[log[op].winner] \in ToSet(inputs(op))
        BY <1>2, <3>1 DEF ToSet
      <3>3. /\ <<inputs(op)[log[op].winner]>> \in Seq(Ops)
            /\ ToSet(<<inputs(op)[log[op].winner]>>) = {inputs(op)[log[op].winner]}
        BY <3>2, SingletonIsASeq DEF ToSet
      <3>4. QED
        BY <2>1, <3>2, <3>3
    <2>2. CASE kind(op) \notin Select
      BY <1>2, <2>2
    <2>3. QED
      BY <2>1, <2>2
  <1> HIDE DEF again
  <1>4. <<>> \in Seq(Ops) /\ ToSet(<<>>) = {}
    BY DEF ToSet
  <1>5. QED
    BY <1>1, <1>2, <1>3, <1>4, CombinatorEnters

LEMMA DecidedIsTyped ==
  ASSUME TypeOK, NEW op \in Ops, kind(op) \in Combinator
  PROVE  /\ Decided(op) \subseteq Outcomes
         /\ kind(op) \in Select => \A out \in Decided(op) : out.ok => out.at \in Indices(op)
  <1>1. inputs(op) \in Seq(Ops) /\ DOMAIN inputs(op) = 1 .. Len(inputs(op)) /\ Len(inputs(op)) \in Nat
    BY TypedParts
  <1>2. \A i \in Indices(op) : Outcome(op, i) \in Outcomes /\ i \in Nat
    BY <1>1, ElementOfSeq DEF Indices, Outcome, TypeOK
  <1>3. /\ Err("JoinFailed") \in Outcomes /\ Err("EmptyInput") \in Outcomes /\ ~ Err("EmptyInput").ok
        /\ Err("FirstSettledFailed") \in Outcomes /\ ~ Err("FirstSettledFailed").ok
        /\ Err("AllFailed") \in Outcomes /\ ~ Err("AllFailed").ok
    BY OutcomesAre DEF Errors
  <1>4. \A out \in Outcomes, i \in Nat :
          At(out, i) \in Outcomes /\ At(out, i).ok = out.ok /\ At(out, i).at = i
    BY OutcomesAre DEF At, Outcomes
  <1>5. Collected(op) \in Outcomes
    <2> DEFINE values == [i \in Indices(op) |->
                 IF Outcome(op, i).ok THEN Outcome(op, i).of ELSE <<"rejected">>]
    <2>1. <<"rejected">> \in Seq(Contents)
      BY SingletonIsASeq DEF Contents
    <2>2. \A i \in Indices(op) : values[i] \in Seq(Contents)
      BY <1>2, <2>1 DEF Outcomes
    <2>3. values = [i \in 1 .. Len(inputs(op)) |-> values[i]]
      BY <1>1 DEF Indices
    <2> HIDE DEF values
    <2>4. values \in Seq(Seq(Contents))
      BY <1>1, <2>2, <2>3, IsASeq DEF Indices
    <2>5. FlattenSeq(values) \in Seq(Contents)
      BY <2>4, FlattenedIsTyped
    <2>6. QED
      BY <2>5, OutcomesAre DEF Collected, values
  <1>6. CASE kind(op) = "try_join_all"
    BY <1>2, <1>3, <1>4, <1>5, <1>6 DEF Decided, Select
  <1>7. CASE kind(op) = "join_all"
    BY <1>5, <1>7 DEF Decided, Select
  <1>8. CASE kind(op) \in Select
    <2> DEFINE failed == {i \in Indices(op) : Settled(op, i) /\ ~ Outcome(op, i).ok}
               won == {i \in Indices(op) : Settled(op, i) /\ Outcome(op, i).ok}
    <2>1. ASSUME NEW out \in Decided(op)
          PROVE  \/ out \in {Err("EmptyInput"), Err("AllFailed")}
                 \/ \E i \in won : out = At(Outcome(op, i), i)
                 \/ \E i \in failed : out = At(Err("FirstSettledFailed"), i)
      BY <1>8, <2>1 DEF Decided, Select
    <2>2. \A i \in won : At(Outcome(op, i), i) \in Outcomes /\ At(Outcome(op, i), i).at \in Indices(op)
      BY <1>2, <1>4
    <2>3. \A i \in failed : /\ At(Err("FirstSettledFailed"), i) \in Outcomes
                            /\ ~ At(Err("FirstSettledFailed"), i).ok
      BY <1>2, <1>3, <1>4
    <2>4. QED
      BY <1>3, <2>1, <2>2, <2>3
  <1>9. QED
    BY <1>6, <1>7, <1>8 DEF Combinator, Select

LEMMA JoinReturnsFits ==
  ASSUME TypeOK, InvocationFits, NEW op \in Ops, JoinReturns(op)
  PROVE  StepFits
  <1>1. /\ kind(op) \in Combinator /\ pc[op] = "join"
        /\ pc' = [pc EXCEPT ![op] = "ran"]
        /\ UNCHANGED <<shape, record, log, write, queue, returned, reported, crashes, fatal>>
    BY DEF JoinReturns, service
  <1>2. PICK out \in Decided(op) : result' = [result EXCEPT ![op] = out]
    BY DEF JoinReturns
  <1>3. /\ out \in Outcomes
        /\ kind(op) \in Select /\ out.ok => out.at \in Indices(op)
    BY <1>1, DecidedIsTyped
  <1>4. pc' \in [Ops -> Step] /\ result' \in [Ops -> Outcomes]
    BY <1>1, <1>2, <1>3 DEF TypeOK, Step
  <1>5. /\ pc'[op] = "ran" /\ result'[op] = out
        /\ \A o \in Ops : o # op => pc'[o] = pc[o] /\ result'[o] = result[o]
    BY <1>1, <1>2 DEF TypeOK
  <1>6. TypeOK'
    BY <1>1, <1>4 DEF TypeOK
  <1>7. Local(op) /\ ~ Started(op)
    BY <1>1, <1>3, <1>5 DEF Local, Moves, SameBooks, Asleep, Started
  <1>8. QED
    BY <1>1, <1>5, <1>6, <1>7, OneGoesOn DEF SameBooks

\* A loser stops: every operation rests.
LEMMA LoserStopsFits ==
  ASSUME TypeOK, InvocationFits, NEW op \in Ops, LoserStops(op)
  PROVE  StepFits
  <1> DEFINE theirs == {op} \cup (IF kind(op) \in Scope THEN Inside[op] ELSE {})
  <1>1. /\ Unfinished(op) /\ CloseScopes({op}) /\ pc' = Stopped(theirs)
        /\ UNCHANGED <<shape, record, log, result, returned, reported, crashes, fatal>>
    BY DEF LoserStops
  <1>2. PICK join \in Ops : op \in ToSet(inputs(join))
    BY DEF LoserStops, Abandoned
  <1>3. Inside[op] \subseteq Ops /\ Top \notin Inside[op] /\ Top \notin Inside[join] /\ op \in Inside[join]
    BY <1>2, InsideIsATree
  <1>4. theirs \subseteq Ops /\ Top \notin theirs /\ (kind(op) \in Scope => Inside[op] \subseteq theirs)
    BY <1>3
  <1> HIDE DEF theirs
  <1>5. /\ queue' \in Seq(Ops) /\ write' \in [Ops -> Updates]
        /\ \A o \in Ops :
              \/ write'[o] = write[o]
              \/ o \in theirs /\ write[o].st = "queued" /\ write'[o] = NoWrite
    BY <1>1, <1>4, ClosingDrops
  <1>6. \A o \in Ops : pc'[o] = IF o \in theirs /\ Unfinished(o) THEN "stopped" ELSE pc[o]
    BY <1>1 DEF Stopped
  <1>7. pc' \in [Ops -> Step]
    <2>1. \A o \in Ops : pc'[o] \in Step
      BY <1>6 DEF Step, TypeOK
    <2>2. pc' = [o \in Ops |-> pc'[o]]
      BY <1>1 DEF Stopped
    <2>3. QED
      BY <2>1, <2>2
  <1>8. TypeOK'
    BY <1>1, <1>5, <1>7 DEF TypeOK
  <1>9. ASSUME NEW o \in Ops
        PROVE  Rests(o) /\ ~ Started(o) /\ (pc'[o] # "settling" \/ pc'[o] = pc[o])
    <2>1. pc'[o] = pc[o] \/ (pc'[o] = "stopped" /\ pc[o] # "off" /\ o \in theirs)
      BY <1>6 DEF Unfinished
    <2>2. pc[o] = "invoked" => o = Top
      BY DEF InvocationFits, Fits, PlaceFits
    <2>3. o \in theirs => pc'[o] \in {"off", "done", "stopped"}
      BY <1>6 DEF Unfinished
    <2>4. Rests(o)
      BY <1>1, <1>5, <2>1, <2>3 DEF Rests, SameBooks
    <2>5. ~ Started(o)
      BY <1>4, <2>1, <2>2 DEF Started, Asleep
    <2>6. QED
      BY <2>1, <2>4, <2>5
  <1>10. \A o \in Ops : Local(o) /\ ~ Started(o)
    BY <1>9 DEF Local
  <1>11. \A o \in Ops : pc[o] = "ran" => pc'[o] # "settling"
    BY <1>9
  <1>12. QED
    BY <1>1, <1>8, <1>10, <1>11 DEF StepFits

LEMMA SettleCombinatorFits ==
  ASSUME TypeOK, InvocationFits, NEW op \in Ops, KeptFits(op), SettleCombinator(op)
  PROVE  StepFits
  <1>1. /\ pc[op] = "ran" /\ kind(op) \in Combinator /\ StartAnswered(op)
        /\ UNCHANGED <<shape, record, log, returned, reported, crashes, fatal>>
    BY DEF SettleCombinator
  <1>2. CASE fatal
    <2>1. /\ pc' = [pc EXCEPT ![op] = "done"] /\ result' = [result EXCEPT ![op] = Err("Internal")]
          /\ UNCHANGED <<write, queue>>
      BY <1>2 DEF SettleCombinator
    <2>2. Err("Internal") \in Outcomes
      BY OutcomesAre DEF Errors
    <2>3. pc' \in [Ops -> Step] /\ result' \in [Ops -> Outcomes]
      BY <2>1, <2>2 DEF TypeOK, Step
    <2>4. /\ pc'[op] = "done"
          /\ \A o \in Ops : o # op => pc'[o] = pc[o] /\ result'[o] = result[o]
      BY <2>1 DEF TypeOK
    <2>5. TypeOK'
      BY <1>1, <2>1, <2>3 DEF TypeOK
    <2>6. Local(op) /\ ~ Started(op)
      BY <1>1, <2>1, <2>4 DEF Local, Moves, SameBooks, Asleep, Started
    <2>7. QED
      BY <1>1, <2>1, <2>4, <2>5, <2>6, OneGoesOn DEF SameBooks
  <1>3. CASE ~ fatal
    <2> DEFINE action == IF result[op].ok THEN "SUCCEED" ELSE "FAIL"
               large == Oversized(result[op])
               payload == IF large THEN Nothing ELSE Value(op)
               winner == IF large THEN result[op].at ELSE 0
               update == [Update(action, payload) EXCEPT !.children = large, !.winner = winner]
    <2>1. SubmitOutcome(op, CombinatorUpdate(op), Value(op))
      BY <1>3 DEF SettleCombinator
    <2>2. CombinatorUpdate(op) = update
      BY DEF CombinatorUpdate
    <2>3. result[op] \in Outcomes /\ result[op].ok \in BOOLEAN /\ result[op].at \in Nat
      BY DEF TypeOK, Outcomes
    <2>4. Value(op) \in Outcomes /\ Nothing \in Outcomes
      BY <2>3, OutcomesAre DEF Value
    <2>5. large \in BOOLEAN /\ (large => result[op].ok)
      BY <2>3 DEF Oversized, Contains
    <2>6. action \in Answers /\ action # "RETRY" /\ payload \in Outcomes /\ winner \in Nat
      BY <2>3, <2>4, <2>5 DEF Answers
    <2>7. kind(op) \in Select /\ large => winner \in Indices(op)
      BY <1>1, <2>5 DEF KeptFits
    <2>8. kind(op) \notin Unrecorded
      BY <1>1 DEF Combinator
    <2> HIDE DEF action, large, payload, winner
    <2>9. /\ Update(action, payload) \in Updates
          /\ Update(action, payload).st = "queued" /\ Update(action, payload).action = action
      BY <2>6, UpdatesAre
    <2>10. /\ update \in Updates /\ update.st = "queued" /\ update.action = action
           /\ update.children = large /\ update.winner = winner
      BY <2>5, <2>6, <2>9 DEF Updates
    <2> HIDE DEF update
    <2>11. QED
      BY <1>1, <1>3, <2>1, <2>2, <2>4, <2>6, <2>7, <2>8, <2>10, SendingIsLocal
  <1>4. QED
    BY <1>2, <1>3

LEMMA RejoinReturnsFits ==
  ASSUME TypeOK, InvocationFits, NEW op \in Ops, KeptFits(op), RejoinReturns(op)
  PROVE  StepFits
  <1>1. /\ pc[op] = "rejoin"
        /\ UNCHANGED <<shape, record, log, write, queue, crashes, fatal>>
    BY DEF RejoinReturns, service
  <1>2. PICK out \in IF kind(op) \in Select
                     THEN {Outcome(op, i) : i \in {j \in {log[op].winner} : Settled(op, j)}}
                     ELSE Decided(op) : Return(op, out, {})
    BY DEF RejoinReturns
  <1>3. kind(op) \in Combinator /\ Fits(op)
    BY <1>1 DEF InvocationFits, Fits, PlaceFits
  <1>4. out \in Outcomes
    <2>1. CASE kind(op) \in Select
      <3>1. log[op].winner \in Indices(op)
        BY <1>1, <1>3, <2>1, WinnerIsAnInput
      <3>2. inputs(op)[log[op].winner] \in Ops
        BY <3>1, TypedParts, ElementOfSeq DEF Indices
      <3>3. out = Outcome(op, log[op].winner)
        BY <1>2, <2>1
      <3>4. QED
        BY <3>2, <3>3 DEF Outcome, TypeOK
    <2>2. CASE kind(op) \notin Select
      BY <1>2, <1>3, <2>2, DecidedIsTyped
    <2>3. QED
      BY <2>1, <2>2
  <1>5. /\ pc' \in [Ops -> Step] /\ result' \in [Ops -> Outcomes]
        /\ returned' \in [Ops -> SUBSET Outcomes] /\ reported' \in [Ops -> SUBSET ErrorKinds]
        /\ pc'[op] = "done"
        /\ \A o \in Ops : o # op => pc'[o] = pc[o] /\ result'[o] = result[o]
    BY <1>2, <1>4, ReturnIsTyped, KindsAre
  <1>6. TypeOK'
    BY <1>1, <1>5 DEF TypeOK
  <1>7. Local(op) /\ ~ Started(op)
    BY <1>1, <1>5 DEF Local, Moves, SameBooks, Asleep, Started
  <1>8. QED
    BY <1>1, <1>5, <1>6, <1>7, OneGoesOn DEF SameBooks


LEMMA HandleReturnsFits ==
  ASSUME TypeOK, InvocationFits, NEW op \in Ops, HandleReturns(op)
  PROVE  StepFits
  <1>1. /\ pc[op] = "body" /\ Return(op, result[shape.of[op]], {})
        /\ UNCHANGED <<shape, record, log, write, queue, crashes, fatal>>
    BY DEF HandleReturns, service
  <1>2. result[shape.of[op]] \in Outcomes
    BY TypedParts DEF TypeOK
  <1>3. /\ pc' \in [Ops -> Step] /\ result' \in [Ops -> Outcomes]
        /\ returned' \in [Ops -> SUBSET Outcomes] /\ reported' \in [Ops -> SUBSET ErrorKinds]
        /\ pc'[op] = "done"
        /\ \A o \in Ops : o # op => pc'[o] = pc[o] /\ result'[o] = result[o]
    BY <1>1, <1>2, ReturnIsTyped, KindsAre
  <1>4. TypeOK'
    BY <1>1, <1>3 DEF TypeOK
  <1>5. Local(op) /\ ~ Started(op)
    BY <1>1, <1>3 DEF Local, Moves, SameBooks, Asleep, Started
  <1>6. QED
    BY <1>1, <1>3, <1>4, <1>5, OneGoesOn DEF SameBooks

LEMMA WorkFits ==
  ASSUME TypeOK, InvocationFits, \A op \in Ops : KeptFits(op), Work
  PROVE  StepFits
  <1>1. CASE HandlerAwaits
    BY <1>1, HandlerAwaitsFits
  <1>5. ASSUME NEW op \in Ops, SubmitUnserialized(op), SettleStep(op) \/ SettleCheck(op) \/ SettleContext(op)
        PROVE  StepFits
    <2>1. /\ pc[op] = "ran" /\ StartAnswered(op)
          /\ UNCHANGED <<shape, record, log, returned, reported, crashes, fatal>>
      BY <1>5 DEF SettleStep, SettleCheck, SettleContext
    <2>2. kind(op) \in {"step", "condition"} \cup Scope
      BY <1>5 DEF SettleStep, SettleCheck, SettleContext
    <2>3. kind(op) \notin Unrecorded \cup Combinator
      BY <2>2 DEF Scope, Combinator
    <2>4. QED
      BY <1>5, <2>1, <2>3, SubmitUnserializedFits
  <1>2. ASSUME NEW op \in Ops, OperationStep(op)
        PROVE  StepFits
    BY <1>2, <1>5, ReplayFits, StartRecordedFits, WaitOverFits, BodyReturnsFits, SettleStepFits,
       SettleCheckFits, OutcomeRecordedFits DEF OperationStep
  <1>3. ASSUME NEW op \in Ops, ContextStep(op)
        PROVE  StepFits
    BY <1>3, <1>5, BodyStartsFits, BodyGoesOnFits, LiveBodyReturnsFits, RebuildReturnsFits,
       VirtualReturnsFits, SettleContextFits DEF ContextStep
  <1>4. ASSUME NEW op \in Ops, CombinatorStep(op)
        PROVE  StepFits
    BY <1>4, BeginInputsFits, RebuildFits, JoinReturnsFits, LoserStopsFits,
       SettleCombinatorFits, RejoinReturnsFits, HandleReturnsFits DEF CombinatorStep
  <1>6. QED
    BY <1>1, <1>2, <1>3, <1>4 DEF Work

(***************************************************************************)
(* The steps of the service, also after the execution failed.              *)
(***************************************************************************)
RecordsFit == \A op \in Ops : RecordFits(op) /\ WriteFits(op)

\* A step of the service leaves the operations where they are.
LEMMA ServedIsAStep ==
  ASSUME TypeOK', \A op \in Ops : Local(op), UNCHANGED <<shape, pc, fatal>>
  PROVE  StepFits
  <1>1. \A op \in Ops : pc'[op] = pc[op]
    OBVIOUS
  <1>2. \A op \in Ops : ~ Started(op)
    BY <1>1 DEF Started
  <1>3. QED
    BY <1>1, <1>2 DEF StepFits

LEMMA HeadIsAnOp ==
  ASSUME TypeOK, queue # <<>>
  PROVE  Head(queue) \in Ops /\ Tail(queue) \in Seq(Ops)
  BY HeadTailProperties DEF TypeOK

\* The service never has a reason to reject an update.
LEMMA QueuedIsValid ==
  ASSUME TypeOK, NEW op \in Ops, WriteFits(op), write[op].st = "queued"
  PROVE  Valid(op)
  <1>1. write[op].action \in {"START", "RETRY", "SUCCEED", "FAIL"} /\ kind(op) \in Kind
    BY TypedParts DEF WriteFits, OpTyped, Updates
  <1>2. CASE write[op].action = "START"
    BY <1>2 DEF WriteFits, Valid
  <1>3. CASE write[op].action # "START"
    BY <1>3 DEF WriteFits, Valid
  <1>4. QED
    BY <1>2, <1>3

LEMMA RecordUpdateFits ==
  ASSUME TypeOK, RecordsFit, RecordUpdate
  PROVE  StepFits /\ pc' = pc
  <1> DEFINE op == Head(queue)
  <1>1. queue # <<>> /\ write[op].st = "queued" /\ UNCHANGED <<shape, log, queue, result, returned, reported, crashes, fatal>>
    BY DEF RecordUpdate
  <1>2. op \in Ops
    BY <1>1, HeadIsAnOp
  <1>3. Valid(op)
    BY <1>1, <1>2, QueuedIsValid DEF RecordsFit
  <1>4. /\ record' = [record EXCEPT ![op] = Applied(record[op], write[op], kind(op))]
        /\ write' = [write EXCEPT ![op].st = "recorded"] /\ UNCHANGED pc
    BY <1>1, <1>3 DEF RecordUpdate
  <1> HIDE DEF op
  <1>5. OpTyped(op) /\ WriteFits(op)
    BY <1>2, TypedParts DEF RecordsFit
  <1>6. Applied(record[op], write[op], kind(op)) \in Records
    <2>1. /\ record[op] \in Records /\ write[op] \in Updates /\ kind(op) \in Kind \ Unrecorded
          /\ Nothing \in Outcomes /\ write[op].action \in {"START", "RETRY", "SUCCEED", "FAIL"}
      BY <1>1, <1>5, OutcomesAre DEF OpTyped, WriteFits, Updates
    <2>2. CASE write[op].action = "START"
      BY <2>1, <2>2 DEF Applied, Records, Status
    <2>3. CASE write[op].action = "RETRY"
      <3>1. record[op].attempt + 1 \in 0 .. MaxChecks - 1
        BY <1>1, <1>5, <2>1, <2>3, RecordsAssumption DEF WriteFits, Records
      <3>2. write[op].payload \in Outcomes
        BY <2>1 DEF Updates
      <3>3. QED
        BY <2>1, <2>3, <3>1, <3>2 DEF Applied, Records, Status
    <2>4. CASE write[op].action \in {"SUCCEED", "FAIL"}
      <3>1. write[op].payload \in Outcomes /\ write[op].children \in BOOLEAN /\ write[op].winner \in Nat
        BY <2>1 DEF Updates
      <3>2. QED
        BY <2>1, <2>4, <3>1 DEF Applied, Records, Status
    <2>5. QED
      BY <2>1, <2>2, <2>3, <2>4
  <1>7. record' \in [Ops -> Records]
    BY <1>4, <1>6 DEF TypeOK
  <1>8. write' = [write EXCEPT ![op] = [write[op] EXCEPT !.st = "recorded"]] /\ write' \in [Ops -> Updates]
    BY <1>2, <1>4, <1>5 DEF TypeOK, OpTyped, Updates
  <1>9. TypeOK'
    BY <1>1, <1>4, <1>7, <1>8 DEF TypeOK
  <1>10. IsRecorded(op)
    BY <1>1, <1>2, <1>3, <1>4, <1>8 DEF IsRecorded, TypeOK
  <1>11. \A o \in Ops : o # op => Rests(o)
    BY <1>1, <1>4, <1>8 DEF Rests, SameBooks
  <1>12. QED
    BY <1>1, <1>4, <1>9, <1>10, <1>11, ServedIsAStep DEF Local

LEMMA AnswerWriteFits ==
  ASSUME TypeOK, RecordsFit, AnswerWrite
  PROVE  StepFits /\ pc' = pc
  <1> DEFINE op == Head(queue)
  <1>1. /\ queue # <<>> /\ write[op].st = "recorded" /\ queue' = Tail(queue)
        /\ write' = [write EXCEPT ![op].st = "answered"]
        /\ UNCHANGED <<shape, record, pc, result, returned, reported, crashes, fatal>>
    BY DEF AnswerWrite
  <1>2. \/ log' = [log EXCEPT ![op] = record[op]]
        \/ log' = [log EXCEPT ![op] = OmittedUpdate(op)]
    BY DEF AnswerWrite
  <1>3. op \in Ops /\ queue' \in Seq(Ops)
    BY <1>1, HeadIsAnOp
  <1> HIDE DEF op
  <1>4. OpTyped(op)
    BY <1>3, TypedParts
  <1>5. OmittedUpdate(op) \in Records /\ record[op] \in Records
    BY <1>4 DEF OpTyped, OmittedUpdate, Records, Updates, Status
  <1>6. log' \in [Ops -> Records]
    BY <1>2, <1>5 DEF TypeOK
  <1>7. write' = [write EXCEPT ![op] = [write[op] EXCEPT !.st = "answered"]] /\ write' \in [Ops -> Updates]
    BY <1>1, <1>3, <1>4 DEF TypeOK, OpTyped, Updates
  <1>8. TypeOK'
    BY <1>1, <1>3, <1>6, <1>7 DEF TypeOK
  <1>9. IsAnswered(op)
    BY <1>1, <1>2, <1>3, <1>7 DEF IsAnswered, TypeOK
  <1>10. \A o \in Ops : o # op => log'[o] = log[o] /\ write'[o] = write[o]
    BY <1>2, <1>7 DEF TypeOK
  <1>11. \A o \in Ops : o # op => Rests(o)
    BY <1>1, <1>10 DEF Rests, SameBooks
  <1>12. QED
    BY <1>1, <1>8, <1>9, <1>11, ServedIsAStep DEF Local

LEMMA RefreshFits ==
  ASSUME TypeOK, RecordsFit, Refresh
  PROVE  StepFits /\ pc' = pc
  <1>1. log' = record /\ UNCHANGED <<shape, record, write, queue, pc, result, returned, reported, crashes, fatal>>
    BY DEF Refresh
  <1>2. TypeOK'
    BY <1>1 DEF TypeOK
  <1>3. \A op \in Ops : Local(op)
    BY <1>1 DEF Local, IsRefreshed
  <1>4. QED
    BY <1>1, <1>2, <1>3, ServedIsAStep

\* A record the service completes.
LEMMA CompletedFits ==
  ASSUME TypeOK, NEW op \in Ops, NEW status \in Terminal, NEW out \in Outcomes,
         record[op].status = "STARTED", record[op].kind \in Awaited,
         record' = [record EXCEPT ![op].status = status, ![op].payload = out],
         UNCHANGED <<shape, log, write, queue, pc, result, returned, reported, crashes, fatal>>
  PROVE  StepFits
  <1>1. record[op] \in Records
    BY DEF TypeOK
  <1>2. /\ record' = [record EXCEPT ![op] = [record[op] EXCEPT !.status = status, !.payload = out]]
        /\ record'[op] = [record[op] EXCEPT !.status = status, !.payload = out]
    BY <1>1 DEF TypeOK
  <1>3. [record[op] EXCEPT !.status = status, !.payload = out] \in Records
    BY <1>1 DEF Records, Terminal, Status
  <1>4. record' \in [Ops -> Records] /\ \A o \in Ops : o # op => record'[o] = record[o]
    BY <1>2, <1>3 DEF TypeOK
  <1>5. TypeOK'
    BY <1>4 DEF TypeOK
  <1>6. IsServed(op)
    BY <1>2 DEF IsServed
  <1>7. \A o \in Ops : o # op => Rests(o)
    BY <1>4 DEF Rests, SameBooks
  <1>8. QED
    BY <1>5, <1>6, <1>7, ServedIsAStep DEF Local

LEMMA FireTimerFits ==
  ASSUME TypeOK, RecordsFit, NEW op \in Ops, FireTimer(op)
  PROVE  StepFits /\ pc' = pc
  <1>1. UNCHANGED <<shape, log, write, queue, pc, result, returned, reported, crashes, fatal>>
    BY DEF FireTimer
  <1>2. CASE /\ record[op].kind = "wait" /\ record[op].status = "STARTED"
             /\ record' = [record EXCEPT ![op].status = "SUCCEEDED", ![op].payload = Ok(<<>>)]
    <2>1. "SUCCEEDED" \in Terminal /\ Ok(<<>>) \in Outcomes /\ record[op].kind \in Awaited
      BY <1>2, OutcomesAre DEF Terminal, Awaited
    <2>2. QED
      BY <1>1, <1>2, <2>1, CompletedFits
  <1>3. CASE record[op].status = "PENDING" /\ record' = [record EXCEPT ![op].status = "READY"]
    <2>1. record[op] \in Records
      BY DEF TypeOK
    <2>2. record' = [record EXCEPT ![op] = [record[op] EXCEPT !.status = "READY"]]
      BY <1>3, <2>1 DEF TypeOK
    <2>3. record' \in [Ops -> Records]
      BY <2>1, <2>2 DEF TypeOK, Records, Status
    <2>4. TypeOK'
      BY <1>1, <2>3 DEF TypeOK
    <2>5. IsServed(op)
      BY <1>1, <1>3, <2>2 DEF IsServed, TypeOK
    <2>6. \A o \in Ops : o # op => Rests(o)
      BY <1>1, <2>2 DEF Rests, SameBooks
    <2>7. QED
      BY <1>1, <2>4, <2>5, <2>6, ServedIsAStep DEF Local
  <1>4. QED
    BY <1>1, <1>2, <1>3 DEF FireTimer

LEMMA DeliverFits ==
  ASSUME TypeOK, RecordsFit, NEW op \in Ops, Deliver(op)
  PROVE  StepFits /\ pc' = pc
  <1>1. /\ UNCHANGED <<shape, log, write, queue, pc, result, returned, reported, crashes, fatal>>
        /\ record[op].kind \in Awaited /\ record[op].status = "STARTED"
    BY DEF Deliver, Awaited
  <1>2. "small" \in Contents
    BY DEF Contents
  <1>3. Ok(<<"small">>) \in Outcomes /\ Err("Failed") \in Outcomes /\ Err("TimedOut") \in Outcomes
    BY <1>2, SingletonIsASeq, OutcomesAre DEF Errors
  <1>4. PICK status \in Terminal, out \in Outcomes :
          record' = [record EXCEPT ![op].status = status, ![op].payload = out]
    <2>1. PICK answer \in {<<"SUCCEEDED", Ok(<<"small">>)>>, <<"FAILED", Err("Failed")>>,
                           <<"TIMED_OUT", Err("TimedOut")>>} :
             record' = [record EXCEPT ![op].status = answer[1], ![op].payload = answer[2]]
      BY DEF Deliver
    <2>2. answer[1] \in Terminal /\ answer[2] \in Outcomes
      BY <1>3 DEF Terminal
    <2>3. QED
      BY <2>1, <2>2
  <1>5. QED
    BY <1>1, <1>4, CompletedFits

LEMMA ServiceFits ==
  ASSUME TypeOK, RecordsFit, Service
  PROVE  StepFits /\ pc' = pc
  BY RecordUpdateFits, AnswerWriteFits, RefreshFits, FireTimerFits, DeliverFits DEF Service


(***************************************************************************)
(* The invariant is inductive.                                             *)
(***************************************************************************)
LEMMA LocalFits ==
  ASSUME TypeOK, NEW op \in Ops, Fits(op), shape' = shape, Local(op)
  PROVE  Fits(op)'
  <1>1. OpTyped(op)
    BY TypedParts
  <1>2. QED
    BY <1>1, RestsFits, EntersFits, BeginsFits, MovesFits, SendsFits, IsRecordedFits,
       IsAnsweredFits, IsRefreshedFits, IsServedFits DEF Local

\* What the service does keeps records and updates valid in any case.
LEMMA LocalIsValid ==
  ASSUME TypeOK, NEW op \in Ops, RecordFits(op), WriteFits(op), shape' = shape, Local(op), pc'[op] = pc[op],
         pc[op] \in {"off", "failed"}
  PROVE  RecordFits(op)' /\ WriteFits(op)'
  <1>1. OpTyped(op)
    BY TypedParts
  <1>2. Entry(op) \notin {"off", "failed"}
    BY DEF Entry
  <1>3. Rests(op) \/ IsRecorded(op) \/ IsAnswered(op) \/ IsRefreshed(op) \/ IsServed(op)
    BY <1>2 DEF Local, Enters, Begins, Moves, Sends
  <1>4. CASE Rests(op)
    BY <1>4 DEF Rests, SameBooks, RecordFits, WriteFits, kind, NoWrite, Answers
  <1>5. CASE IsRefreshed(op)
    BY <1>5 DEF IsRefreshed, RecordFits, WriteFits, kind
  <1>6. QED
    BY <1>1, <1>3, <1>4, <1>5, IsRecordedIsValid, IsAnsweredIsValid, IsServedIsValid

LEMMA EntryLeads ==
  ASSUME NEW op
  PROVE  Entry(op) \in {"done", "replay", "rebuild", "starting", "wait", "inputs", "body"}
         /\ (Entry(op) = "rebuild" => log[op].status \in Terminal /\ log[op].children)
         /\ (kind(op) \in Combinator => Entry(op) # "body")
  BY DEF Entry

LEMMA LocalKeeps ==
  ASSUME TypeOK, NEW op \in Ops, RecordFits(op), WriteFits(op), KeptFits(op),
         Fits(op) \/ (pc[op] \in {"off", "failed"} /\ pc'[op] = pc[op]),
         shape' = shape, Local(op)
  PROVE  KeptFits(op)'
  <1>1. OpTyped(op)
    BY TypedParts
  <1>2. kind(op)' = kind(op) /\ Indices(op)' = Indices(op) /\ Select \subseteq Combinator
    BY DEF kind, Indices, inputs, Select, Combinator
  <1>3. CASE Rests(op)
    BY <1>2, <1>3 DEF Rests, SameBooks, KeptFits, NoWrite
  <1>4. CASE Enters(op)
    <2>1. Fits(op)
      BY <1>4, EntryLeads DEF Enters
    <2>2. /\ record'[op] = record[op] /\ pc'[op] = Entry(op)
          /\ write'[op] \in {Update("START", Nothing), NoWrite}
          /\ (write'[op] # NoWrite => NeedsStart(op))
          /\ result'[op] = IF Mismatched(op) THEN Refusal ELSE CarriedState(op)
      BY <1>4 DEF Enters, SameBooks
    <2>3. write'[op].children = FALSE
      <3>1. Update("START", Nothing).children = FALSE /\ NoWrite.children = FALSE
        BY DEF Update, NoWrite
      <3>2. QED
        BY <2>2, <3>1
    <2>4. pc'[op] = "rebuild" => record[op].children
      BY <2>1, <2>2, EntryLeads DEF Fits, LogFits
    <2>5. Fresh(op)
      <3>1. CASE pc[op] \in Asleep
        BY <2>1, <3>1 DEF Fits, PhaseFits, LogFits, Asleep, NoWrite
      <3>2. CASE pc[op] = "wait" /\ kind(op) = "condition" /\ log[op].status \notin {"NONE", "PENDING"}
        BY <2>1, <3>2 DEF Fits, PhaseFits, Fresh
      <3>3. QED
        BY <1>4, <3>1, <3>2 DEF Enters, MayEnter
    <2>6. ASSUME kind(op) = "condition", write'[op].action = "START", record[op].attempt > 0
          PROVE  result'[op] = record[op].retried
      <3>1. NeedsStart(op) /\ ~ Mismatched(op)
        BY <2>2, <2>6 DEF NoWrite, NeedsStart
      <3>2. log[op].status # "NONE"
        <4>1. SUFFICES ASSUME log[op].status = "NONE" PROVE FALSE
          OBVIOUS
        <4>2. log[op] = record[op] /\ log[op] = NoRecord
          BY <2>1, <2>5, <4>1 DEF Fits, LogFits, Fresh, Terminal
        <4>3. QED
          BY <2>6, <4>2 DEF NoRecord
      <3>3. log[op].status = "READY"
        BY <3>1, <3>2 DEF NeedsStart
      <3>4. log[op] = record[op]
        BY <2>5, <3>3 DEF Fresh
      <3>5. record[op].payload = record[op].retried /\ record[op].payload.ok
        BY <2>1, <3>3, <3>4 DEF Fits, RecordFits
      <3>6. QED
        BY <2>2, <2>6, <3>1, <3>4, <3>5 DEF CarriedState
    <2>7. pc'[op] \notin {"ran", "rejoin"}
      BY <2>2, EntryLeads
    <2>8. QED
      BY <1>2, <2>2, <2>3, <2>4, <2>6, <2>7 DEF KeptFits
  <1>5. CASE Begins(op)
    BY <1>2, <1>5 DEF Begins, SameBooks, KeptFits, Update, NoWrite
  <1>6. CASE Moves(op)
    <2>1. pc[op] = "body" => kind(op) \notin Combinator
      BY <1>6 DEF Fits, PlaceFits
    <2>2. SameBooks(op) /\ write'[op] = write[op] /\ pc'[op] \in {"rejoin", "wait", "ran", "done"}
      BY <1>6 DEF Moves
    <2>3. kind(op) \in Select /\ pc'[op] = "ran" /\ result'[op].ok => result'[op].at \in Indices(op)
      BY <1>2, <1>6, <2>1 DEF Moves
    <2>4. pc'[op] = "rejoin" => record[op].children
      BY <1>6 DEF Moves, KeptFits
    <2>5. QED
      BY <1>2, <2>2, <2>3, <2>4 DEF SameBooks, KeptFits
  <1>7. CASE Sends(op)
    BY <1>2, <1>7 DEF Sends, SameBooks, KeptFits, Answers
  <1>8. CASE IsRecorded(op)
    <2>1. /\ pc'[op] = pc[op] /\ result'[op] = result[op]
          /\ write'[op].children = write[op].children /\ write'[op].winner = write[op].winner
          /\ write'[op].action = write[op].action
          /\ record'[op] = Applied(record[op], write[op], kind(op)) /\ record[op] \in Records
      BY <1>1, <1>8 DEF IsRecorded, OpTyped, Updates
    <2>2. pc[op] \notin {"rebuild", "rejoin"}
      BY <1>8 DEF IsRecorded, Fits, PhaseFits, NoWrite
    <2>3. record'[op].kind \in {record[op].kind, kind(op)}
      BY <2>1 DEF Applied, Records
    <2>4. /\ write[op].action = "START" => record'[op].attempt = record[op].attempt
                                           /\ record'[op].retried = record[op].retried
      BY <2>1 DEF Applied, Records
    <2>5. kind(op) \in Select /\ record'[op].kind = kind(op) /\ record'[op].children =>
            record'[op].winner \in Indices(op)
      <3>1. CASE write[op].action = "START"
        <4>1. record'[op].children = record[op].children /\ record'[op].winner = record[op].winner
          BY <2>1, <3>1 DEF Applied, Records
        <4>2. kind(op) \in Select => record[op].status = "NONE"
          BY <1>8, <3>1 DEF IsRecorded, WriteFits, Select
        <4>3. kind(op) \in Select => ~ record[op].children
          BY <4>2 DEF RecordFits, NoRecord
        <4>4. QED
          BY <4>1, <4>3
      <3>2. CASE write[op].action = "RETRY"
        BY <3>2 DEF WriteFits, Select
      <3>3. CASE write[op].action \notin {"START", "RETRY"}
        <4>1. record'[op].children = write[op].children /\ record'[op].winner = write[op].winner
          BY <2>1, <3>3 DEF Applied, Records
        <4>2. QED
          BY <4>1 DEF KeptFits
      <3>4. QED
        BY <3>1, <3>2, <3>3
    <2>6. QED
      BY <1>2, <2>1, <2>2, <2>3, <2>4, <2>5 DEF KeptFits
  <1>9. CASE IsAnswered(op)
    <2>1. /\ pc'[op] = pc[op] /\ result'[op] = result[op] /\ record'[op] = record[op]
          /\ write'[op].children = write[op].children /\ write'[op].winner = write[op].winner
          /\ write'[op].action = write[op].action
      BY <1>1, <1>9 DEF IsAnswered, OpTyped, Updates
    <2>2. QED
      BY <1>2, <2>1 DEF KeptFits
  <1>10. CASE IsRefreshed(op)
    BY <1>2, <1>10 DEF IsRefreshed, KeptFits
  <1>11. CASE IsServed(op)
    <2>1. /\ record'[op].kind = record[op].kind /\ record'[op].children = record[op].children
          /\ record'[op].winner = record[op].winner /\ record'[op].attempt = record[op].attempt
          /\ record'[op].retried = record[op].retried
          /\ pc'[op] = pc[op] /\ result'[op] = result[op] /\ write'[op] = write[op]
      BY <1>1, <1>11 DEF IsServed, OpTyped, Records
    <2>2. QED
      BY <1>2, <2>1 DEF KeptFits
  <1>12. QED
    BY <1>3, <1>4, <1>5, <1>6, <1>7, <1>8, <1>9, <1>10, <1>11 DEF Local

\* What is not mismatched stays so: the log only learns what was recorded here.
LEMMA MismatchIsStable ==
  ASSUME TypeOK, NEW op \in Ops, Fits(op), shape' = shape, Local(op), ~ Mismatched(op)
  PROVE  ~ Mismatched(op)'
  <1>1. log[op].kind = record[op].kind \/ (log[op].kind = "none" /\ record[op].kind = kind(op))
    BY DEF Fits, LogFits
  <1>2. log'[op] \in {log[op], record[op], OmittedUpdate(op)}
    BY DEF Local, Rests, Enters, Begins, Moves, Sends, SameBooks, IsRecorded, IsAnswered, IsRefreshed, IsServed
  <1>3. OmittedUpdate(op).kind = log[op].kind
    BY TypedParts DEF OmittedUpdate, OpTyped, Records
  <1>4. log'[op].kind \in {log[op].kind, record[op].kind}
    BY <1>2, <1>3
  <1>5. QED
    BY <1>1, <1>4 DEF Mismatched, kind

LEMMA ClaimsAreKept ==
  ASSUME shape' = shape, NEW ops
  PROVE  Claimed(ops)' = Claimed(ops)
  BY DEF Claimed, kind, inputs

LEMMA InvocationIsKept ==
  ASSUME TypeOK, InvocationFits, StepFits
  PROVE  InvocationFits'
  <1>1. shape' = shape /\ \A op \in Ops : Local(op) /\ Fits(op)
    BY DEF StepFits, InvocationFits
  <1>2. \A op \in Ops : Fits(op)'
    BY <1>1, LocalFits
  <1>3. ASSUME NEW op \in Ops, kind(op) \in Combinator, pc'[op] \in Asleep \cup {"inputs", "rebuild"}
        PROVE  \A o \in ToSet(inputs(op)) : pc'[o] = "off"
    <2>1. pc[op] \in Asleep \cup {"inputs", "rebuild"}
      BY <1>1, <1>3 DEF Local, Rests, Enters, MayEnter, Begins, Moves, Sends, IsRecorded, IsAnswered,
         IsRefreshed, IsServed, Asleep, Combinator
    <2>2. \A o \in ToSet(inputs(op)) : pc[o] = "off"
      BY <1>3, <2>1 DEF InvocationFits, InputsWait
    <2> SUFFICES ASSUME NEW o \in ToSet(inputs(op)), pc'[o] # "off"
                 PROVE  FALSE
      OBVIOUS
    <2>3. o \in Ops /\ Started(o) /\ o # Top
      BY <2>2, TypedParts, InsideIsATree DEF Started, Asleep
    <2>4. PICK p \in Ops : /\ o \in ToSet(inputs(p)) /\ pc[p] \notin Asleep
                           /\ kind(p) \in Combinator => pc'[p] \in {"join", "rejoin"}
      BY <2>3 DEF StepFits
    <2>5. p = op
      BY <2>4, InsideIsATree DEF ToSet
    <2>6. QED
      BY <1>3, <2>4, <2>5 DEF Asleep
  <1>4. ASSUME NEW op \in Ops
        PROVE  InputsWait(op)'
    BY <1>1, <1>3 DEF InputsWait, kind, inputs
  <1>5. \A o \in Ops : ~ Mismatched(o) => ~ Mismatched(o)'
    BY <1>1, MismatchIsStable
  <1>6. ASSUME NEW op \in Ops, kind(op) \in Combinator
        PROVE  /\ pc'[op] \in {"inputs", "join", "ran"} =>
                    fatal' \/ \A o \in Claimed({op}) : ~ Mismatched(o)
               /\ pc'[op] = "settling" => \A o \in Claimed({op}) : ~ Mismatched(o)
    <2>1. ClaimsFit(op) /\ (pc[op] = "body" => FALSE)
      BY <1>1, <1>6 DEF InvocationFits, Fits, PlaceFits
    <2>2. pc'[op] \in {"inputs", "join", "ran"} => pc[op] \in {"inputs", "join", "ran"} \/ Started(op)
      BY <1>1, <1>6, <2>1 DEF Local, Rests, Enters, MayEnter, Begins, Moves, Sends, IsRecorded, IsAnswered,
         IsRefreshed, IsServed, Asleep, Combinator, Started
    <2>3. pc'[op] = "settling" => pc[op] \in {"ran", "settling"}
      BY <1>1, <1>6, EntryLeads DEF Local, Rests, Enters, Begins, Moves, Sends, IsRecorded, IsAnswered,
         IsRefreshed, IsServed
    <2>4. /\ fatal => fatal'
          /\ Started(op) => fatal' \/ \A o \in Claimed({op}) : ~ Mismatched(o)
          /\ pc[op] = "ran" /\ pc'[op] = "settling" => ~ fatal
      BY <1>6 DEF StepFits
    <2>5. QED
      BY <1>6, <2>1, <2>2, <2>3, <2>4 DEF ClaimsFit
  <1>7. ASSUME NEW op \in Ops
        PROVE  ClaimsFit(op)'
    <2>1. Claimed({op})' = Claimed({op}) /\ kind(op)' = kind(op)
      BY <1>1, ClaimsAreKept DEF kind
    <2>2. Claimed({op}) \subseteq Ops
      BY ClaimedGrows
    <2>3. QED
      BY <1>5, <1>6, <2>1, <2>2 DEF ClaimsFit
  <1>8. QED
    BY <1>2, <1>4, <1>7 DEF InvocationFits


\* Between invocations nothing is at work, and nothing goes on after a failure.
Idle ==
  /\ pc[Top] # "rejected"
  /\ pc[Top] = "off" => queue = <<>> /\ \A op \in Ops : pc[op] = "off" /\ write[op] = NoWrite
  /\ pc[Top] = "failed" => \A op \in Ops : pc[op] = "failed"

IInv ==
  /\ TypeOK /\ RecordsFit /\ (\A op \in Ops : KeptFits(op)) /\ Idle
  /\ AtWork => InvocationFits

LEMMA NoWriteIs ==
  NoWrite.st = "none" /\ NoWrite.action = "NONE" /\ NoWrite.children = FALSE
  BY DEF NoWrite

LEMMA NoWriteFits ==
  ASSUME NEW op, write[op] = NoWrite
  PROVE  WriteFits(op) /\ ~ write[op].children /\ write[op].action = "NONE" /\ write[op].st = "none"
  BY NoWriteIs DEF WriteFits, Answers

LEMMA InitFits ==
  ASSUME Init
  PROVE  IInv
  <1>1. TypeOK
    <2>1. \E s \in Shapes : shape \in {s, [s EXCEPT !.kind = s.becomes]}
      BY DEF Init
    <2>2. NoRecord \in Records /\ NoWrite \in Updates /\ Nothing \in Outcomes
      BY UpdatesAre, OutcomesAre
    <2>3. MaxCrashes \in 0 .. MaxCrashes
      BY RecordsAssumption
    <2>4. record \in [Ops -> Records] /\ log \in [Ops -> Records]
      BY <2>2 DEF Init
    <2>5. write \in [Ops -> Updates] /\ result \in [Ops -> Outcomes] /\ queue \in Seq(Ops)
      BY <2>2 DEF Init
    <2>6. pc \in [Ops -> Step] /\ returned \in [Ops -> SUBSET Outcomes]
      BY DEF Init, Step
    <2>7. QED
      BY <2>1, <2>3, <2>4, <2>5, <2>6 DEF Init, TypeOK
  <1>2. \A op \in Ops : record[op] = NoRecord /\ write[op] = NoWrite /\ pc[op] = "off"
    BY DEF Init
  <1>3. RecordsFit
    <2>1. \A op \in Ops : RecordFits(op)
      <3>1. NoRecord.status = "NONE"
        BY DEF NoRecord
      <3>2. QED
        BY <1>2, <3>1 DEF RecordFits
    <2>2. QED
      BY <1>2, <2>1, NoWriteFits DEF RecordsFit
  <1>4. \A op \in Ops : KeptFits(op)
    BY <1>2, NoWriteFits DEF KeptFits, NoRecord
  <1>5. Top \in Ops
    BY RecordsAssumption
  <1>6. Idle /\ ~ AtWork
    BY <1>2, <1>5 DEF Idle, AtWork, Init
  <1>7. QED
    BY <1>1, <1>3, <1>4, <1>6 DEF IInv

\* The step of an invocation keeps the invariant.
LEMMA AtWorkIsKept ==
  ASSUME IInv, AtWork, StepFits
  PROVE  IInv'
  <1>1. TypeOK /\ InvocationFits /\ Top \in Ops
    BY RecordsAssumption DEF IInv
  <1>2. TypeOK' /\ shape' = shape /\ \A op \in Ops : Local(op)
    BY DEF StepFits
  <1>3. InvocationFits'
    BY <1>1, InvocationIsKept
  <1>4. RecordsFit'
    BY <1>3 DEF InvocationFits, RecordsFit, Fits
  <1>5. \A op \in Ops : KeptFits(op)'
    BY <1>1, <1>2, LocalKeeps DEF IInv, RecordsFit, InvocationFits
  <1>6. pc'[Top] \notin {"off", "rejected", "failed"}
    BY <1>1, <1>2, EntryLeads DEF Local, Rests, Enters, Begins, Moves, Sends, IsRecorded, IsAnswered,
       IsRefreshed, IsServed, AtWork
  <1>7. Idle'
    BY <1>6 DEF Idle
  <1>8. QED
    BY <1>2, <1>3, <1>4, <1>5, <1>7 DEF IInv

\* A step that leaves every operation where it is keeps the invariant, also
\* when no invocation is at work.
LEMMA StillIsKept ==
  ASSUME IInv, StepFits, pc' = pc, queue = <<>> => UNCHANGED <<queue, write>>
  PROVE  IInv'
  <1>1. TypeOK /\ Top \in Ops
    BY RecordsAssumption DEF IInv
  <1>2. CASE AtWork
    BY <1>2, AtWorkIsKept
  <1>3. CASE ~ AtWork
    <2>1. pc[Top] \in {"off", "failed"} /\ \A op \in Ops : pc[op] \in {"off", "failed"}
      BY <1>1, <1>3 DEF IInv, Idle, AtWork
    <2>2. shape' = shape /\ \A op \in Ops : Local(op) /\ pc'[op] = pc[op]
      BY DEF StepFits
    <2>3. RecordsFit'
      BY <1>1, <2>1, <2>2, LocalIsValid DEF IInv, RecordsFit
    <2>4. \A op \in Ops : KeptFits(op)'
      BY <1>1, <2>1, <2>2, LocalKeeps DEF IInv, RecordsFit
    <2>5. pc[Top] = "off" => queue' = queue /\ write' = write
      BY DEF IInv, Idle
    <2>6. Idle'
      BY <1>1, <2>1, <2>5 DEF IInv, Idle
    <2>7. ~ AtWork'
      BY <1>1, <1>3 DEF AtWork
    <2>8. QED
      BY <2>3, <2>4, <2>6, <2>7 DEF IInv, StepFits
  <1>4. QED
    BY <1>2, <1>3

LEMMA ServiceIsKept ==
  ASSUME IInv, Service
  PROVE  IInv'
  <1>1. StepFits /\ pc' = pc
    BY ServiceFits DEF IInv
  <1>2. queue = <<>> => UNCHANGED <<queue, write>>
    BY DEF Service, RecordUpdate, AnswerWrite, Refresh, FireTimer, Deliver
  <1>3. QED
    BY <1>1, <1>2, StillIsKept

\* The handler only works in an invocation.
LEMMA WorkIsAtWork ==
  ASSUME IInv, Work
  PROVE  AtWork
  <1>1. Top \in Ops
    BY RecordsAssumption
  <1> SUFFICES ASSUME \A op \in Ops : pc[op] \in {"off", "failed"}
               PROVE  FALSE
    BY <1>1 DEF IInv, Idle, AtWork
  <1>2. ~ HandlerAwaits
    BY <1>1 DEF HandlerAwaits
  <1>3. ASSUME NEW op \in Ops
        PROVE  ~ OperationStep(op) /\ ~ ContextStep(op) /\ ~ CombinatorStep(op)
    <2>1. ~ OperationStep(op)
      BY DEF OperationStep, Replay, StartRecorded, WaitOver, BodyReturns, SettleStep, SettleCheck, OutcomeRecorded
    <2>2. ~ ContextStep(op)
      BY DEF ContextStep, BodyStarts, BodyGoesOn, LiveBodyReturns, RebuildReturns, VirtualReturns,
         SettleContext, Running
    <2>3. ~ CombinatorStep(op)
      BY DEF CombinatorStep, BeginInputs, Rebuild, JoinReturns, LoserStops, Abandoned, SettleCombinator, RejoinReturns,
         HandleReturns
    <2>4. QED
      BY <2>1, <2>2, <2>3
  <1>4. QED
    BY <1>2, <1>3 DEF Work

LEMMA EndInvocationIsKept ==
  ASSUME IInv, EndInvocation, crashes' \in 0 .. MaxCrashes
  PROVE  IInv'
  <1>1. Top \in Ops
    BY RecordsAssumption
  <1>2. /\ \A op \in Ops : pc'[op] = "off" /\ write'[op] = NoWrite
        /\ UNCHANGED <<shape, record, log, returned, reported>> /\ queue' = <<>> /\ fatal' = FALSE
    BY DEF EndInvocation
  <1>3. TypeOK'
    <2>1. NoWrite \in Updates /\ Nothing \in Outcomes /\ <<>> \in Seq(Ops)
      BY UpdatesAre, OutcomesAre
    <2>2. write' \in [Ops -> Updates] /\ result' \in [Ops -> Outcomes] /\ pc' \in [Ops -> Step]
      BY <2>1 DEF EndInvocation, Step
    <2>3. QED
      BY <1>2, <2>1, <2>2 DEF IInv, TypeOK
  <1>4. ASSUME NEW op \in Ops
        PROVE  RecordFits(op)' /\ WriteFits(op)' /\ KeptFits(op)'
    <2>1. RecordFits(op)'
      BY <1>2 DEF IInv, RecordsFit, RecordFits
    <2>2. WriteFits(op)' /\ ~ write'[op].children /\ write'[op].action = "NONE"
      BY <1>2, NoWriteIs DEF WriteFits, Answers
    <2>3. KeptFits(op)'
      BY <1>2, <2>2 DEF IInv, KeptFits, kind, Indices, inputs
    <2>4. QED
      BY <2>1, <2>2, <2>3
  <1>5. Idle' /\ ~ AtWork'
    BY <1>1, <1>2 DEF Idle, AtWork
  <1>6. QED
    BY <1>3, <1>4, <1>5 DEF IInv, RecordsFit

LEMMA FailExecutionIsKept ==
  ASSUME IInv, FailExecution
  PROVE  IInv'
  <1>1. Top \in Ops
    BY RecordsAssumption
  <1>2. /\ \A op \in Ops : pc'[op] = "failed"
        /\ UNCHANGED <<shape, record, log, write, queue, result, returned, reported, crashes, fatal>>
    BY DEF FailExecution, service
  <1>3. TypeOK'
    <2>1. pc' \in [Ops -> Step]
      BY DEF FailExecution, Step
    <2>2. QED
      BY <1>2, <2>1 DEF IInv, TypeOK
  <1>4. RecordsFit'
    BY <1>2 DEF IInv, RecordsFit, RecordFits, WriteFits, kind
  <1>5. \A op \in Ops : KeptFits(op)'
    BY <1>2 DEF IInv, KeptFits, kind, Indices, inputs
  <1>6. Idle' /\ ~ AtWork'
    BY <1>1, <1>2 DEF Idle, AtWork
  <1>7. QED
    BY <1>3, <1>4, <1>5, <1>6 DEF IInv

\* The kind of an operation changes, if it does, to one that is detected.
LEMMA ChangesAreDetected ==
  ASSUME TypeOK, NEW op \in Ops
  PROVE  \/ shape.becomes[op] = kind(op)
         \/ kind(op) \notin Unrecorded /\ Identity(shape.becomes[op]) # Identity(kind(op))
  <1>1. PICK s \in Shapes : shape = s \/ shape = [s EXCEPT !.kind = s.becomes]
    BY DEF TypeOK
  <1>2. s \in Shape /\ Detected(s)
    BY <1>1, RecordsAssumption
  <1>3. CASE shape = s
    BY <1>2, <1>3 DEF Detected, kind
  <1>4. CASE shape = [s EXCEPT !.kind = s.becomes]
    BY <1>2, <1>4 DEF Shape, kind
  <1>5. QED
    BY <1>1, <1>3, <1>4

\* An invocation starts with the records there are, maybe by another handler.
LEMMA InvokeIsKept ==
  ASSUME IInv, Invoke
  PROVE  IInv'
  <1>1. TypeOK /\ Top \in Ops
    BY RecordsAssumption DEF IInv
  <1>2. /\ pc[Top] = "off" /\ log' = record /\ pc' = [pc EXCEPT ![Top] = "invoked"]
        /\ UNCHANGED <<record, write, queue, result, returned, reported, crashes, fatal>>
    BY DEF Invoke
  <1>3. \A op \in Ops : pc[op] = "off" /\ write[op] = NoWrite
    BY <1>2 DEF IInv, Idle
  <1>4. \A op \in Ops : pc'[op] \in Asleep /\ write'[op] = NoWrite /\ log'[op] = record'[op] /\ record'[op] = record[op]
                        /\ (op # Top => pc'[op] = "off")
    BY <1>1, <1>2, <1>3 DEF TypeOK, Asleep
  <1>5. /\ shape'.inputs = shape.inputs /\ shape'.becomes = shape.becomes
        /\ \A op \in Ops : kind(op)' = kind(op) \/ kind(op)' = shape.becomes[op]
        /\ \E s \in Shapes : shape' \in {s, [s EXCEPT !.kind = s.becomes]}
    <2>1. PICK s \in Shapes : shape \in {s, [s EXCEPT !.kind = s.becomes]}
      BY <1>1 DEF TypeOK
    <2>2. s \in Shape /\ shape \in Shape
      BY <1>1, <2>1, RecordsAssumption, ShapeIsWellMade
    <2>3. [shape EXCEPT !.kind = shape.becomes] = [s EXCEPT !.kind = s.becomes]
      BY <2>1, <2>2 DEF Shape
    <2>4. shape' \in {shape, [shape EXCEPT !.kind = shape.becomes]}
      BY DEF Invoke
    <2>5. QED
      BY <2>1, <2>2, <2>3, <2>4 DEF Shape, kind
  <1>6. TypeOK'
    <2>1. pc' \in [Ops -> Step]
      BY <1>1, <1>2 DEF TypeOK, Step
    <2>2. QED
      BY <1>1, <1>2, <1>5, <2>1 DEF TypeOK
  <1>7. ASSUME NEW op \in Ops
        PROVE  Fits(op)' /\ KeptFits(op)' /\ InputsWait(op)' /\ ClaimsFit(op)'
    <2>1. RecordFits(op)'
      BY <1>4 DEF IInv, RecordsFit, RecordFits
    <2>2. WriteFits(op)' /\ ~ write'[op].children /\ write'[op].action = "NONE" /\ write'[op].st = "none"
      BY <1>4, NoWriteIs DEF WriteFits, Answers
    <2>3. LogFits(op)'
      BY <1>4, <2>1 DEF LogFits, RecordFits, Fresh
    <2>4. pc'[op] \in Asleep /\ (pc'[op] = "invoked" => op = Top)
      BY <1>4 DEF Asleep
    <2>5. PlaceFits(op)'
      BY <2>4 DEF PlaceFits, Asleep
    <2>6. PhaseFits(op)'
      BY <1>4, <2>4 DEF PhaseFits, Asleep, Working
    <2>7. KeptFits(op)'
      <3>1. kind(op)' = kind(op) \/ (kind(op)' = shape'.becomes[op] /\ kind(op)' # kind(op))
        BY <1>5
      <3>2. kind(op)' # kind(op) => Identity(kind(op)') # Identity(kind(op))
        BY <1>1, <1>5, ChangesAreDetected
      <3>3. KeptFits(op) /\ RecordFits(op)
        BY DEF IInv, RecordsFit
      <3>4. \/ record'[op].kind \in {"none", kind(op)'}
            \/ kind(op)' = shape'.becomes[op] /\ Identity(record'[op].kind) # Identity(kind(op)')
        BY <1>4, <1>5, <3>1, <3>2, <3>3 DEF KeptFits
      <3>5. record'[op].kind = kind(op)' => kind(op)' = kind(op) \/ ~ record'[op].children
        <4>1. SUFFICES ASSUME record[op].kind = kind(op)', kind(op)' # kind(op)
                       PROVE  ~ record[op].children
          BY <1>4
        <4>2. kind(op)' = shape.becomes[op]
          BY <1>5, <4>1
        <4>3. record[op].kind = "none"
          BY <3>2, <3>3, <4>1, <4>2 DEF KeptFits
        <4>4. QED
          BY <3>3, <4>3 DEF RecordFits, NoRecord
      <3>6. Indices(op)' = Indices(op)
        BY <1>5 DEF Indices, inputs
      <3>7. QED
        BY <1>4, <2>2, <2>4, <3>3, <3>4, <3>5, <3>6 DEF KeptFits, Asleep
    <2>8. InputsWait(op)'
      <3>1. inputs(op)' = inputs(op)
        BY <1>5 DEF inputs
      <3>2. \A o \in ToSet(inputs(op)) : o \in Ops /\ o # Top
        BY <1>1, TypedParts, InsideIsATree
      <3>3. \A o \in ToSet(inputs(op)) : pc'[o] = "off"
        BY <1>4, <3>2
      <3>4. QED
        BY <3>1, <3>3 DEF InputsWait
    <2>9. ClaimsFit(op)'
      BY <2>4 DEF ClaimsFit, Asleep
    <2>10. QED
      BY <2>1, <2>2, <2>3, <2>5, <2>6, <2>7, <2>8, <2>9 DEF Fits
  <1>8. pc'[Top] = "invoked"
    BY <1>1, <1>2 DEF TypeOK
  <1>9. QED
    BY <1>6, <1>7, <1>8 DEF IInv, RecordsFit, Fits, InvocationFits, Idle

LEMMA NextIsKept ==
  ASSUME IInv, [Next]_vars
  PROVE  IInv'
  <1>1. CASE Work
    <2>1. TypeOK /\ \A op \in Ops : KeptFits(op)
      BY DEF IInv
    <2>2. AtWork /\ InvocationFits
      BY <1>1, WorkIsAtWork DEF IInv
    <2>3. StepFits
      BY <1>1, <2>1, <2>2, WorkFits
    <2>4. QED
      BY <2>2, <2>3, AtWorkIsKept
  <1>2. CASE Service
    BY <1>2, ServiceIsKept
  <1>3. CASE Crash
    <2>1. EndInvocation /\ crashes > 0 /\ crashes' = crashes - 1
      BY <1>3 DEF Crash
    <2>2. crashes' \in 0 .. MaxCrashes
      BY <2>1, RecordsAssumption DEF IInv, TypeOK
    <2>3. QED
      BY <2>1, <2>2, EndInvocationIsKept
  <1>4. CASE Suspend
    <2>1. EndInvocation /\ crashes' = crashes
      BY <1>4 DEF Suspend
    <2>2. crashes' \in 0 .. MaxCrashes
      BY <2>1 DEF IInv, TypeOK
    <2>3. QED
      BY <2>1, <2>2, EndInvocationIsKept
  <1>5. CASE FailExecution
    BY <1>5, FailExecutionIsKept
  <1>6. CASE Invoke
    BY <1>6, InvokeIsKept
  <1>7. CASE UNCHANGED vars
    <2>1. UNCHANGED <<shape, record, log, write, queue, pc, result, returned, reported, crashes, fatal>>
      BY <1>7 DEF vars, service
    <2>2. TypeOK'
      BY <2>1 DEF IInv, TypeOK
    <2>3. \A op \in Ops : Local(op)
      BY <2>1 DEF Local, Rests, SameBooks
    <2>4. StepFits
      BY <2>1, <2>2, <2>3, ServedIsAStep
    <2>5. QED
      BY <2>1, <2>4, StillIsKept
  <1>8. QED
    BY <1>1, <1>2, <1>3, <1>4, <1>5, <1>6, <1>7 DEF Next

LEMMA AlwaysFits ==
  Spec => []IInv
  <1>1. Init => IInv
    BY InitFits
  <1>2. IInv /\ [Next]_vars => IInv'
    BY NextIsKept
  <1>3. QED
    BY <1>1, <1>2, PTL DEF Spec

\* Every operation of every handler keeps its types, whatever handlers there
\* are, and whatever they return.
THEOREM HandlerIsTyped == Spec => []TypeOK
  <1>1. IInv => TypeOK
    BY DEF IInv
  <1>2. QED
    BY <1>1, AlwaysFits, PTL

\* The service accepts every update of every operation, in whatever order
\* invocations end and start, and whatever was deployed between them: no
\* START is sent twice, no outcome before its START was recorded, and none
\* for a record that is another operation's (start.rs; engine.rs).
THEOREM UpdatesAreAccepted == Spec => []NeverRejected
  <1>1. IInv => NeverRejected
    <2> SUFFICES ASSUME IInv, NEW op \in Ops
                 PROVE  pc[op] # "rejected"
      BY DEF NeverRejected
    <2>1. CASE AtWork
      BY <2>1 DEF IInv, InvocationFits, Fits, PlaceFits
    <2>2. CASE ~ AtWork
      BY <2>2 DEF IInv, Idle, AtWork
    <2>3. QED
      BY <2>1, <2>2
  <1>2. QED
    BY <1>1, AlwaysFits, PTL

\* A combinator that was built on another operation's record sends no
\* outcome (combinator.rs, fatal_gate).
THEOREM MismatchFailsCombinator == Spec => []MismatchIsNotRecorded
  <1>1. IInv => MismatchIsNotRecorded
    <2> SUFFICES ASSUME IInv, NEW op \in Ops, kind(op) \in Combinator, pc[op] = "settling"
                 PROVE  \A o \in Claimed({op}) : ~ Mismatched(o)
      BY DEF MismatchIsNotRecorded
    <2>1. AtWork
      BY DEF IInv, Idle, AtWork
    <2>2. QED
      BY <2>1 DEF IInv, InvocationFits, ClaimsFit
  <1>2. QED
    BY <1>1, AlwaysFits, PTL

\* A check gets the state that the check before it returned, also when the
\* invocation ended in between (wait_for_condition.rs, before).
THEOREM StateIsCarried == Spec => []ChecksCarryState
  <1>1. IInv => ChecksCarryState
    BY DEF IInv, KeptFits, ChecksCarryState
  <1>2. QED
    BY <1>1, AlwaysFits, PTL

(***************************************************************************)
(* Outcomes.                                                               *)
(***************************************************************************)
\* An outcome that no longer says which input it is of.
Plain(out) == out.ok => out.at = 0
Final == {"SUCCEED", "FAIL"}
Plainly == Contexts \ {"wait_for_callback"}

\* What is recorded is what was sent, without the value if it does not fit.
SentFits(op) ==
  /\ Plain(record[op].payload) /\ Plain(log[op].payload) /\ Plain(write[op].payload)
  /\ record[op].children => record[op].status \in Terminal /\ Identity(record[op].kind) = "child"
  /\ write[op].children => Identity(kind(op)) = "child" /\ write[op].action = "SUCCEED"
  /\ write[op].st \in {"recorded", "answered"} /\ write[op].action \in Final =>
       /\ record[op].status \in Terminal /\ record[op].payload = write[op].payload
       /\ record[op].children = write[op].children /\ record[op].winner = write[op].winner

\* OneOutcome, of an operation.
OnceFits(op) ==
  \A out \in returned[op] :
    /\ returned[op] = {out} /\ Plain(out)
    /\ kind(op) \notin Unrecorded =>
         /\ record[op].status \in Terminal
         /\ record[op].children \/ record[op].payload = out

\* The value that is rebuilt of what the inputs returned: that of the first,
\* of the attempt that succeeded or was the last, of the winner, of all, or
\* of what was spawned.
Passes(op, out) ==
  \E v \in returned[inputs(op)[1]] : out = IF v.ok \/ kind(op) = "child" THEN v ELSE Err("ChildFailed")
Tries(op, out) ==
  \E n \in DOMAIN inputs(op) :
    /\ out \in returned[inputs(op)[n]]
    /\ n = Len(inputs(op)) \/ out.ok = (n % 2 = 1)
    /\ \A i \in 1 .. n - 1 : \E v \in returned[inputs(op)[i]] : v.ok = (i % 2 = 0)
Wins(op, out, w) == w \in DOMAIN inputs(op) /\ out \in returned[inputs(op)[w]]
ValuesOf(outs) == Ok(FlattenSeq([i \in DOMAIN outs |-> IF outs[i].ok THEN outs[i].of ELSE <<"rejected">>]))
Joins(op, out) ==
  \E outs \in [DOMAIN inputs(op) -> Outcomes] :
    /\ \A i \in DOMAIN inputs(op) :
         outs[i] \in returned[inputs(op)[i]] /\ (kind(op) = "try_join_all" => outs[i].ok)
    /\ out = ValuesOf(outs)

MadeOf(op, out, w) ==
  \/ kind(op) \in {"child", "virtual"} /\ Passes(op, out)
  \/ kind(op) = "with_retry" /\ Tries(op, out)
  \/ kind(op) \in Select /\ Wins(op, out, w)
  \/ kind(op) \in {"join_all", "try_join_all"} /\ Joins(op, out)
  \/ kind(op) = "handle" /\ out \in returned[shape.of[op]]

\* What is returned without a record of the value is made of the inputs'.
ValueFits(op) ==
  /\ \A out \in returned[op], w \in Nat :
       \/ kind(op) \in Unrecorded /\ record[op].kind = "none"
       \/ record[op].children /\ record[op].kind = kind(op) /\ w = record[op].winner
       => MadeOf(op, out, w)
  /\ kind(op) = "try_join_all" /\ (write[op].children \/ (record[op].children /\ record[op].kind = kind(op))) =>
       \A o \in ToSet(inputs(op)) : \E v \in returned[o] : v.ok

OutcomeFits(op) == SentFits(op) /\ OnceFits(op) /\ ValueFits(op)

\* An operation that is at work has returned nothing yet, and what it is
\* about to return is made of what its inputs returned.
Live == {"starting", "wait", "body", "inputs", "join", "ran", "settling"}
ResultFits(op) ==
  /\ (pc[op] \in {"ran", "stopped"} /\ kind(op) \in Select) \/ Plain(result[op])
  /\ kind(op) \notin Unrecorded /\ pc[op] \in Live => returned[op] = {}
  /\ kind(op) \notin Unrecorded /\ pc[op] \in Asleep /\ returned[op] # {} => log[op].status \in Terminal
  /\ pc[op] = "replay" => ~ log[op].children
  /\ ~ fatal /\ pc[op] = "done" => result[op] \in returned[op]
  /\ pc[op] = "settling" /\ write[op].action \in Final /\ ~ write[op].children =>
       result[op] = write[op].payload \/ (write[op].action = "FAIL" /\ result[op].ok)
BodyFits(op) ==
  \A out \in Outcomes, w \in Nat :
    ~ fatal /\ kind(op) \in Plainly =>
      /\ pc[op] = "ran" /\ result[op].ok /\ out = At(result[op], 0) /\ w = result[op].at => MadeOf(op, out, w)
      /\ pc[op] = "settling" /\ write[op].children /\ out = result[op] /\ w = write[op].winner => MadeOf(op, out, w)

AtWorkFits(op) == ResultFits(op) /\ BodyFits(op)

LEMMA MadeStays ==
  ASSUME TypeOK, NEW op \in Ops, shape' = shape, \A o \in Ops : returned[o] \subseteq returned'[o],
         kind(op) \in {"child", "virtual"} => inputs(op) # <<>>
  PROVE  \A out, w : MadeOf(op, out, w) => MadeOf(op, out, w)'
  <1>1. /\ inputs(op) \in Seq(Ops) /\ DOMAIN inputs(op) = 1 .. Len(inputs(op)) /\ Len(inputs(op)) \in Nat
        /\ \A i \in DOMAIN inputs(op) : inputs(op)[i] \in Ops
    BY TypedParts, ElementOfSeq
  <1>2. \A i \in DOMAIN inputs(op) : returned[inputs(op)[i]] \subseteq returned'[inputs(op)[i]]
    BY <1>1
  <1>3. inputs(op)' = inputs(op) /\ kind(op)' = kind(op)
    BY DEF inputs, kind
  <1> SUFFICES ASSUME NEW out, NEW w, MadeOf(op, out, w)
               PROVE  MadeOf(op, out, w)'
    OBVIOUS
  <1>4. CASE kind(op) \in {"child", "virtual"} /\ Passes(op, out)
    <2>1. 1 \in DOMAIN inputs(op)
      BY <1>1, <1>4
    <2>2. Passes(op, out)'
      BY <1>2, <1>3, <1>4, <2>1 DEF Passes
    <2>3. QED
      BY <1>3, <1>4, <2>2 DEF MadeOf
  <1>5. CASE kind(op) = "with_retry" /\ Tries(op, out)
    <2>1. PICK n \in DOMAIN inputs(op) :
            /\ out \in returned[inputs(op)[n]]
            /\ n = Len(inputs(op)) \/ out.ok = (n % 2 = 1)
            /\ \A i \in 1 .. n - 1 : \E v \in returned[inputs(op)[i]] : v.ok = (i % 2 = 0)
      BY <1>5 DEF Tries
    <2>2. \A i \in 1 .. n - 1 : \E v \in returned'[inputs(op)[i]] : v.ok = (i % 2 = 0)
      <3>1. \A i \in 1 .. n - 1 : i \in DOMAIN inputs(op)
        BY <1>1
      <3>2. QED
        BY <1>2, <2>1, <3>1
    <2>3. out \in returned'[inputs(op)[n]]
      BY <1>2, <2>1
    <2>4. Tries(op, out)'
      BY <1>3, <2>1, <2>2, <2>3 DEF Tries
    <2>5. QED
      BY <1>3, <1>5, <2>4 DEF MadeOf
  <1>6. CASE kind(op) \in Select /\ Wins(op, out, w)
    <2>1. Wins(op, out, w)'
      BY <1>2, <1>3, <1>6 DEF Wins
    <2>2. QED
      BY <1>3, <1>6, <2>1 DEF MadeOf
  <1>7. CASE kind(op) \in {"join_all", "try_join_all"} /\ Joins(op, out)
    <2>1. Joins(op, out)'
      BY <1>2, <1>3, <1>7 DEF Joins
    <2>2. QED
      BY <1>3, <1>7, <2>1 DEF MadeOf
  <1>8. CASE kind(op) = "handle" /\ out \in returned[shape.of[op]]
    <2>1. shape.of[op] \in Ops
      BY TypedParts
    <2>2. out \in returned'[shape'.of[op]]
      BY <1>8, <2>1
    <2>3. QED
      BY <1>3, <1>8, <2>2 DEF MadeOf
  <1>9. QED
    BY <1>4, <1>5, <1>6, <1>7, <1>8 DEF MadeOf

LEMMA MadeOnce ==
  ASSUME TypeOK, NEW op \in Ops, \A o \in Ops : OnceFits(o), NEW out, NEW other, NEW w,
         MadeOf(op, out, w), MadeOf(op, other, w),
         kind(op) \in {"child", "virtual"} => inputs(op) # <<>>
  PROVE  out = other
  <1>1. /\ inputs(op) \in Seq(Ops) /\ DOMAIN inputs(op) = 1 .. Len(inputs(op)) /\ Len(inputs(op)) \in Nat
        /\ \A i \in DOMAIN inputs(op) : inputs(op)[i] \in Ops
    BY TypedParts, ElementOfSeq
  <1>2. \A i \in DOMAIN inputs(op) : \A u, v \in returned[inputs(op)[i]] : u = v
    BY <1>1 DEF OnceFits
  <1>3. CASE kind(op) \in {"child", "virtual"}
    <2>1. Passes(op, out) /\ Passes(op, other)
      BY <1>3 DEF MadeOf, Select
    <2>2. 1 \in DOMAIN inputs(op)
      BY <1>1, <1>3
    <2>3. QED
      BY <1>2, <2>1, <2>2 DEF Passes
  <1>4. CASE kind(op) = "with_retry"
    <2>1. Tries(op, out) /\ Tries(op, other)
      BY <1>4 DEF MadeOf, Select
    <2>2. PICK n \in DOMAIN inputs(op) :
            /\ out \in returned[inputs(op)[n]]
            /\ n = Len(inputs(op)) \/ out.ok = (n % 2 = 1)
            /\ \A i \in 1 .. n - 1 : \E v \in returned[inputs(op)[i]] : v.ok = (i % 2 = 0)
      BY <2>1 DEF Tries
    <2>3. PICK m \in DOMAIN inputs(op) :
            /\ other \in returned[inputs(op)[m]]
            /\ m = Len(inputs(op)) \/ other.ok = (m % 2 = 1)
            /\ \A i \in 1 .. m - 1 : \E v \in returned[inputs(op)[i]] : v.ok = (i % 2 = 0)
      BY <2>1 DEF Tries
    <2>4. n \in 1 .. Len(inputs(op)) /\ m \in 1 .. Len(inputs(op))
      BY <1>1
    <2>5. ~ (n < m)
      <3> SUFFICES ASSUME n < m
                   PROVE  FALSE
        OBVIOUS
      <3>1. n \in 1 .. m - 1 /\ n # Len(inputs(op))
        BY <1>1, <2>4
      <3>2. PICK v \in returned[inputs(op)[n]] : v.ok = (n % 2 = 0)
        BY <2>3, <3>1
      <3>3. v = out
        BY <1>2, <2>2
      <3>4. out.ok = (n % 2 = 1) /\ out.ok = (n % 2 = 0)
        BY <2>2, <3>1, <3>2, <3>3
      <3>5. QED
        BY <2>4, <3>4
    <2>6. ~ (m < n)
      <3> SUFFICES ASSUME m < n
                   PROVE  FALSE
        OBVIOUS
      <3>1. m \in 1 .. n - 1 /\ m # Len(inputs(op))
        BY <1>1, <2>4
      <3>2. PICK v \in returned[inputs(op)[m]] : v.ok = (m % 2 = 0)
        BY <2>2, <3>1
      <3>3. v = other
        BY <1>2, <2>3
      <3>4. other.ok = (m % 2 = 1) /\ other.ok = (m % 2 = 0)
        BY <2>3, <3>1, <3>2, <3>3
      <3>5. QED
        BY <2>4, <3>4
    <2>7. n = m
      BY <2>4, <2>5, <2>6
    <2>8. QED
      BY <1>2, <2>2, <2>3, <2>7
  <1>5. CASE kind(op) \in Select
    <2>1. Wins(op, out, w) /\ Wins(op, other, w)
      BY <1>5 DEF MadeOf, Select
    <2>2. QED
      BY <1>2, <2>1 DEF Wins
  <1>6. CASE kind(op) \in {"join_all", "try_join_all"}
    <2>1. Joins(op, out) /\ Joins(op, other)
      BY <1>6 DEF MadeOf, Select
    <2>2. PICK outs \in [DOMAIN inputs(op) -> Outcomes] :
            (\A i \in DOMAIN inputs(op) : outs[i] \in returned[inputs(op)[i]]) /\ out = ValuesOf(outs)
      BY <2>1 DEF Joins
    <2>3. PICK others \in [DOMAIN inputs(op) -> Outcomes] :
            (\A i \in DOMAIN inputs(op) : others[i] \in returned[inputs(op)[i]]) /\ other = ValuesOf(others)
      BY <2>1 DEF Joins
    <2>4. \A i \in DOMAIN inputs(op) : outs[i] = others[i]
      BY <1>2, <2>2, <2>3
    <2>5. outs = others
      BY <2>4
    <2>6. QED
      BY <2>2, <2>3, <2>5
  <1>7. CASE kind(op) = "handle"
    <2>1. shape.of[op] \in Ops
      BY TypedParts
    <2>2. out \in returned[shape.of[op]] /\ other \in returned[shape.of[op]]
      BY <1>7 DEF MadeOf, Select
    <2>3. QED
      BY <2>1, <2>2 DEF OnceFits
  <1>8. QED
    BY <1>3, <1>4, <1>5, <1>6, <1>7 DEF MadeOf

(***************************************************************************)
(* What one step of the invocation does to the outcome of one operation.   *)
(***************************************************************************)
SameOutcome(op) == result'[op] = result[op] /\ returned'[op] = returned[op]

Idles(op) ==
  /\ SameOutcome(op)
  /\ pc'[op] = pc[op] \/ (pc'[op] = "stopped" /\ pc[op] # "done")
  /\ write'[op] = write[op] \/ (write'[op] = NoWrite /\ pc'[op] \in {"off", "done", "stopped"})

Opens(op) == Enters(op) /\ returned'[op] = returned[op] /\ (Mismatched(op) => fatal')

Advances(op) ==
  /\ SameOutcome(op)
  /\ \/ pc[op] \in {"starting", "settling"} /\ pc'[op] = "wait" /\ write'[op] = write[op]
     \/ pc[op] = "rebuild" /\ pc'[op] = "rejoin" /\ write'[op] = write[op]
     \/ /\ pc[op] = "inputs" /\ pc'[op] = "join"
        /\ write'[op] = IF NeedsStart(op) THEN Update("START", Nothing) ELSE write[op]

Finishes(op) ==
  /\ returned'[op] = returned[op] /\ write'[op] = write[op] /\ fatal' = fatal
  /\ pc[op] \in {"body", "join"} /\ pc'[op] = "ran" /\ kind(op) \notin Unrecorded
  /\ kind(op) \in Select \/ Plain(result'[op])
  /\ ~ fatal /\ kind(op) \in Plainly /\ result'[op].ok => MadeOf(op, At(result'[op], 0), result'[op].at)
  /\ kind(op) \in Combinator => result'[op] \in Decided(op)

Submits(op) ==
  /\ returned'[op] = returned[op] /\ fatal' = fatal
  /\ pc[op] = "ran" /\ pc'[op] = "settling" /\ kind(op) \notin Unrecorded
  /\ write'[op].st = "queued" /\ write'[op].action \in Answers
  /\ Plain(write'[op].payload) /\ Plain(result'[op])
  /\ IF write'[op].children
       THEN /\ kind(op) \in Plainly /\ write'[op].action = "SUCCEED"
            /\ result[op].ok /\ result'[op] = At(result[op], 0)
            /\ kind(op) \in Select => write'[op].winner = result[op].at
       ELSE result'[op] = write'[op].payload \/ (write'[op].action = "FAIL" /\ result'[op].ok)
  /\ kind(op) \in Combinator => ~ fatal /\ write'[op] = CombinatorUpdate(op)

\* It replays its record, has recorded its outcome, or made it of its inputs'.
Justified(op) ==
  \/ /\ pc[op] \in {"replay", "wait"} /\ kind(op) \notin Unrecorded
     /\ log[op].status \in Terminal /\ ~ log[op].children /\ result'[op] = log[op].payload
  \/ /\ pc[op] = "settling" /\ kind(op) \notin Unrecorded /\ write[op].st = "answered" /\ write[op].action \in Final
     /\ result'[op] = IF write[op].action = "FAIL" /\ result[op].ok THEN write[op].payload ELSE result[op]
  \/ /\ kind(op) \in Unrecorded /\ record[op].kind = "none"
     /\ \A w \in Nat : MadeOf(op, result'[op], w)
  \/ /\ pc[op] \in {"rebuild", "rejoin"} /\ kind(op) \notin Unrecorded
     /\ \A w \in Nat : w = log[op].winner => MadeOf(op, result'[op], w)

Gives(op) ==
  /\ write'[op] = write[op] /\ fatal' = fatal
  /\ pc[op] # "done" /\ pc'[op] = "done" /\ Plain(result'[op])
  /\ returned'[op] = IF fatal THEN returned[op] ELSE returned[op] \cup {result'[op]}
  /\ fatal \/ Justified(op)

Outward(op) ==
  SameBooks(op) /\ (Idles(op) \/ Opens(op) \/ Advances(op) \/ Finishes(op) \/ Submits(op) \/ Gives(op))

LEMMA PlainAre ==
  /\ Plain(Nothing) /\ Plain(Refusal) /\ Plain(Ok(<<>>)) /\ Plain(NoWrite.payload)
  /\ Plain(Update("START", Nothing).payload)
  /\ \A e : Plain(Err(e)) /\ ~ Err(e).ok
  /\ \A v : Plain(Ok(v))
  /\ \A out \in Outcomes : Plain(At(out, 0)) /\ (Plain(out) /\ out.ok => At(out, 0) = out)
  BY DEF Plain, Nothing, Refusal, Err, Ok, NoWrite, Update, At, Outcomes

LEMMA IdlesKeeps ==
  ASSUME TypeOK, NEW op \in Ops, OutcomeFits(op), AtWorkFits(op), shape' = shape, fatal => fatal',
         \A o \in Ops : returned[o] \subseteq returned'[o],
         kind(op) \in {"child", "virtual"} => inputs(op) # <<>>,
         SameBooks(op), Idles(op)
  PROVE  OutcomeFits(op)' /\ AtWorkFits(op)'
  <1>1. \A out, w : MadeOf(op, out, w) => MadeOf(op, out, w)'
    BY MadeStays
  <1>2. kind(op)' = kind(op) /\ inputs(op)' = inputs(op)
    BY DEF kind, inputs
  <1>3. SentFits(op)'
    BY <1>2, PlainAre, NoWriteIs DEF Idles, SameBooks, SentFits, OutcomeFits, Final
  <1>4. OnceFits(op)'
    BY <1>2 DEF Idles, SameOutcome, SameBooks, OnceFits, OutcomeFits
  <1>5. ValueFits(op)'
    <2>1. ToSet(inputs(op)) \subseteq Ops
      BY TypedParts
    <2>2. write'[op].children => write[op].children
      BY NoWriteIs DEF Idles
    <2>3. QED
      BY <1>1, <1>2, <2>1, <2>2 DEF Idles, SameOutcome, SameBooks, ValueFits, OutcomeFits
  <1>6. ResultFits(op)'
    BY <1>2, NoWriteIs DEF Idles, SameOutcome, SameBooks, ResultFits, AtWorkFits, Live, Asleep, Final
  <1>7. BodyFits(op)'
    BY <1>1, <1>2, NoWriteIs DEF Idles, SameOutcome, BodyFits, AtWorkFits
  <1>8. QED
    BY <1>3, <1>4, <1>5, <1>6, <1>7 DEF OutcomeFits, AtWorkFits

LEMMA OpensKeeps ==
  ASSUME TypeOK, NEW op \in Ops, Fits(op), OutcomeFits(op), AtWorkFits(op), shape' = shape, fatal => fatal',
         \A o \in Ops : returned[o] \subseteq returned'[o],
         kind(op) \in {"child", "virtual"} => inputs(op) # <<>>,
         SameBooks(op), Opens(op)
  PROVE  OutcomeFits(op)' /\ AtWorkFits(op)'
  <1>1. \A out, w : MadeOf(op, out, w) => MadeOf(op, out, w)'
    BY MadeStays
  <1>2. kind(op)' = kind(op) /\ inputs(op)' = inputs(op)
    BY DEF kind, inputs
  <1>3. write'[op] \in {NoWrite, Update("START", Nothing)}
    BY DEF Opens, Enters
  <1>4. /\ ~ write'[op].children /\ write'[op].action \notin Final /\ Plain(write'[op].payload)
    BY <1>3, PlainAre, NoWriteIs DEF Update, NoWrite, Final
  <1>5. SentFits(op)'
    BY <1>2, <1>4 DEF SameBooks, SentFits, OutcomeFits
  <1>6. OnceFits(op)'
    BY <1>2 DEF Opens, SameBooks, OnceFits, OutcomeFits
  <1>7. ValueFits(op)'
    <2>1. ToSet(inputs(op)) \subseteq Ops
      BY TypedParts
    <2>2. QED
      BY <1>1, <1>2, <1>4, <2>1 DEF Opens, SameBooks, ValueFits, OutcomeFits
  <1>8. pc'[op] = Entry(op) /\ MayEnter(op) /\ returned'[op] = returned[op] /\ log'[op] = log[op]
    BY DEF Opens, Enters, SameBooks
  <1>9. ResultFits(op)'
    <2>1. Plain(result'[op])
      BY PlainAre DEF Opens, Enters, CarriedState, OutcomeFits, SentFits
    <2>2. kind(op) \notin Unrecorded /\ returned[op] # {} => log[op].status \in Terminal \/ pc[op] = "wait"
      BY <1>8 DEF MayEnter, AtWorkFits, ResultFits
    <2>3. kind(op) \notin Unrecorded /\ returned[op] # {} => log[op].status \in Terminal
      BY <1>8, <2>2 DEF AtWorkFits, ResultFits, Live
    <2>4. kind(op) \notin Unrecorded /\ pc'[op] \in Live => returned'[op] = {}
      BY <1>8, <2>3 DEF Entry, Live
    <2>5. pc'[op] = "replay" => ~ log'[op].children
      BY <1>8 DEF Entry
    <2>6. pc'[op] = "done" => fatal'
      BY <1>8 DEF Opens, Entry
    <2>7. pc'[op] \notin Asleep \cup {"settling"}
      BY <1>8, EntryLeads DEF Asleep
    <2>8. QED
      BY <1>2, <2>1, <2>4, <2>5, <2>6, <2>7 DEF ResultFits
  <1>10. BodyFits(op)'
    <2>1. pc'[op] \notin {"ran", "settling"}
      BY <1>8, EntryLeads
    <2>2. QED
      BY <2>1 DEF BodyFits
  <1>11. QED
    BY <1>5, <1>6, <1>7, <1>9, <1>10 DEF OutcomeFits, AtWorkFits

LEMMA AdvancesKeeps ==
  ASSUME TypeOK, NEW op \in Ops, OutcomeFits(op), AtWorkFits(op), shape' = shape, fatal => fatal',
         \A o \in Ops : returned[o] \subseteq returned'[o],
         kind(op) \in {"child", "virtual"} => inputs(op) # <<>>,
         SameBooks(op), Advances(op)
  PROVE  OutcomeFits(op)' /\ AtWorkFits(op)'
  <1>1. \A out, w : MadeOf(op, out, w) => MadeOf(op, out, w)'
    BY MadeStays
  <1>2. kind(op)' = kind(op) /\ inputs(op)' = inputs(op)
    BY DEF kind, inputs
  <1>3. \/ write'[op] = write[op]
        \/ /\ ~ write'[op].children /\ write'[op].action \notin Final /\ Plain(write'[op].payload)
    BY PlainAre DEF Advances, Update, NoWrite, Final
  <1>4. SentFits(op)'
    BY <1>2, <1>3 DEF SameBooks, SentFits, OutcomeFits
  <1>5. OnceFits(op)'
    BY <1>2 DEF Advances, SameOutcome, SameBooks, OnceFits, OutcomeFits
  <1>6. ValueFits(op)'
    <2>1. ToSet(inputs(op)) \subseteq Ops
      BY TypedParts
    <2>2. QED
      BY <1>1, <1>2, <1>3, <2>1 DEF Advances, SameOutcome, SameBooks, ValueFits, OutcomeFits
  <1>7. ResultFits(op)'
    BY <1>2 DEF Advances, SameOutcome, SameBooks, ResultFits, AtWorkFits, Live, Asleep
  <1>8. BodyFits(op)'
    BY DEF Advances, BodyFits
  <1>9. QED
    BY <1>4, <1>5, <1>6, <1>7, <1>8 DEF OutcomeFits, AtWorkFits

LEMMA FinishesKeeps ==
  ASSUME TypeOK, TypeOK', NEW op \in Ops, OutcomeFits(op), AtWorkFits(op), shape' = shape, fatal => fatal',
         \A o \in Ops : returned[o] \subseteq returned'[o],
         kind(op) \in {"child", "virtual"} => inputs(op) # <<>>,
         SameBooks(op), Finishes(op)
  PROVE  OutcomeFits(op)' /\ AtWorkFits(op)'
  <1>1. \A out, w : MadeOf(op, out, w) => MadeOf(op, out, w)'
    BY MadeStays
  <1>2. kind(op)' = kind(op) /\ inputs(op)' = inputs(op)
    BY DEF kind, inputs
  <1>3. SentFits(op)'
    BY <1>2 DEF Finishes, SameBooks, SentFits, OutcomeFits
  <1>4. OnceFits(op)'
    BY <1>2 DEF Finishes, SameBooks, OnceFits, OutcomeFits
  <1>5. ValueFits(op)'
    <2>1. ToSet(inputs(op)) \subseteq Ops
      BY TypedParts
    <2>2. QED
      BY <1>1, <1>2, <2>1 DEF Finishes, SameBooks, ValueFits, OutcomeFits
  <1>6. ResultFits(op)'
    BY <1>2 DEF Finishes, SameBooks, ResultFits, AtWorkFits, Live, Asleep
  <1>7. BodyFits(op)'
    <2> SUFFICES ASSUME NEW out \in Outcomes, NEW w \in Nat, ~ fatal', kind(op) \in Plainly,
                        result'[op].ok, out = At(result'[op], 0), w = result'[op].at
                 PROVE  MadeOf(op, out, w)'
      <3>1. pc'[op] = "ran"
        BY DEF Finishes
      <3>2. QED
        BY <1>2, <3>1 DEF BodyFits
    <2>1. MadeOf(op, At(result'[op], 0), result'[op].at)
      BY DEF Finishes
    <2>2. MadeOf(op, out, w)
      BY <2>1
    <2>3. QED
      BY <1>1, <2>2
  <1>8. QED
    BY <1>3, <1>4, <1>5, <1>6, <1>7 DEF OutcomeFits, AtWorkFits

LEMMA SubmitsKeeps ==
  ASSUME TypeOK, TypeOK', NEW op \in Ops, OutcomeFits(op), AtWorkFits(op), shape' = shape, fatal => fatal',
         \A o \in Ops : returned[o] \subseteq returned'[o],
         kind(op) \in {"child", "virtual"} => inputs(op) # <<>>,
         SameBooks(op), Submits(op)
  PROVE  OutcomeFits(op)' /\ AtWorkFits(op)'
  <1>1. \A out, w : MadeOf(op, out, w) => MadeOf(op, out, w)'
    BY MadeStays
  <1>2. kind(op)' = kind(op) /\ inputs(op)' = inputs(op)
    BY DEF kind, inputs
  <1>3. /\ result[op] \in Outcomes /\ result[op].at \in Nat /\ At(result[op], 0) \in Outcomes
        /\ ToSet(inputs(op)) \subseteq Ops /\ DOMAIN inputs(op) = 1 .. Len(inputs(op))
    BY TypedParts, OutcomesAre DEF TypeOK, Outcomes
  <1>4. SentFits(op)'
    <2>1. kind(op) \in Plainly => Identity(kind(op)) = "child"
      BY DEF Plainly, Contexts, Scope, Combinator, Identity
    <2>2. QED
      BY <1>2, <2>1 DEF Submits, SameBooks, SentFits, OutcomeFits
  <1>5. OnceFits(op)'
    BY <1>2 DEF Submits, SameBooks, OnceFits, OutcomeFits
  <1>6. ASSUME write'[op].children, ~ fatal
        PROVE  MadeOf(op, At(result[op], 0), result[op].at)
    <2>1. kind(op) \in Plainly /\ pc[op] = "ran" /\ result[op].ok
      BY <1>6 DEF Submits
    <2>2. QED
      BY <1>3, <1>6, <2>1 DEF AtWorkFits, BodyFits
  <1>7. ValueFits(op)'
    <2>1. kind(op) = "try_join_all" /\ write'[op].children =>
            \A o \in ToSet(inputs(op)) : \E v \in returned[o] : v.ok
      <3> SUFFICES ASSUME kind(op) = "try_join_all", write'[op].children
                   PROVE  \A o \in ToSet(inputs(op)) : \E v \in returned[o] : v.ok
        OBVIOUS
      <3>1. ~ fatal
        BY DEF Submits, Combinator
      <3>2. Joins(op, At(result[op], 0))
        BY <1>6, <3>1 DEF MadeOf, Select
      <3>3. PICK outs \in [DOMAIN inputs(op) -> Outcomes] :
              \A i \in DOMAIN inputs(op) : outs[i] \in returned[inputs(op)[i]] /\ outs[i].ok
        BY <3>2 DEF Joins
      <3>4. \A o \in ToSet(inputs(op)) : \E i \in DOMAIN inputs(op) : o = inputs(op)[i]
        BY DEF ToSet
      <3>5. QED
        BY <3>3, <3>4
    <2>2. QED
      BY <1>1, <1>2, <1>3, <2>1 DEF Submits, SameBooks, ValueFits, OutcomeFits
  <1>8. ResultFits(op)'
    BY <1>2 DEF Submits, SameBooks, ResultFits, AtWorkFits, Live, Asleep
  <1>9. BodyFits(op)'
    <2> SUFFICES ASSUME NEW out \in Outcomes, NEW w \in Nat, ~ fatal', kind(op) \in Plainly,
                        write'[op].children, out = result'[op], w = write'[op].winner
                 PROVE  MadeOf(op, out, w)'
      <3>1. pc'[op] = "settling"
        BY DEF Submits
      <3>2. QED
        BY <1>2, <3>1 DEF BodyFits
    <2>1. MadeOf(op, At(result[op], 0), result[op].at)
      BY <1>6 DEF Submits
    <2>2. out = At(result[op], 0) /\ (kind(op) \in Select => w = result[op].at)
      BY DEF Submits
    <2>3. MadeOf(op, out, w)
      <3>1. CASE kind(op) \in Select
        BY <2>1, <2>2, <3>1
      <3>2. CASE kind(op) \notin Select
        BY <2>1, <2>2, <3>2 DEF MadeOf
      <3>3. QED
        BY <3>1, <3>2
    <2>4. QED
      BY <1>1, <2>3
  <1>10. QED
    BY <1>4, <1>5, <1>7, <1>8, <1>9 DEF OutcomeFits, AtWorkFits

LEMMA GivesKeeps ==
  ASSUME TypeOK, TypeOK', NEW op \in Ops, Fits(op), KeptFits(op), \A o \in Ops : OutcomeFits(o),
         AtWorkFits(op), shape' = shape,
         \A o \in Ops : returned[o] \subseteq returned'[o],
         kind(op) \in {"child", "virtual"} => inputs(op) # <<>>,
         SameBooks(op), Gives(op)
  PROVE  OutcomeFits(op)' /\ AtWorkFits(op)'
  <1>1. \A out, w : MadeOf(op, out, w) => MadeOf(op, out, w)'
    BY MadeStays
  <1>2. kind(op)' = kind(op) /\ inputs(op)' = inputs(op)
    BY DEF kind, inputs
  <1>3. /\ result'[op] \in Outcomes /\ returned[op] \subseteq Outcomes /\ record[op].winner \in Nat
        /\ ToSet(inputs(op)) \subseteq Ops
    BY TypedParts DEF TypeOK, Records
  <1>4. /\ write'[op] = write[op] /\ record'[op] = record[op] /\ log'[op] = log[op] /\ fatal' = fatal
        /\ pc'[op] = "done" /\ Plain(result'[op])
        /\ returned'[op] = IF fatal THEN returned[op] ELSE returned[op] \cup {result'[op]}
    BY DEF Gives, SameBooks
  <1>5. OutcomeFits(op) /\ \A o \in Ops : OnceFits(o)
    BY DEF OutcomeFits
  <1>6. SentFits(op)'
    BY <1>2, <1>4, <1>5 DEF SentFits, OutcomeFits
  <1>7. ResultFits(op)'
    BY <1>4 DEF ResultFits, Live, Asleep
  <1>8. BodyFits(op)'
    BY <1>4 DEF BodyFits
  <1>9. \A out, other, w : MadeOf(op, out, w) /\ MadeOf(op, other, w) => out = other
    BY <1>5, MadeOnce
  \* What the operation was about to return it returns for the first time, or again.
  <1>10. CASE fatal
    <2>1. OnceFits(op)'
      BY <1>2, <1>4, <1>5, <1>10 DEF OnceFits
    <2>2. ValueFits(op)'
      BY <1>1, <1>2, <1>3, <1>4, <1>5, <1>10 DEF OutcomeFits, ValueFits
    <2>3. QED
      BY <1>6, <1>7, <1>8, <2>1, <2>2 DEF OutcomeFits, AtWorkFits
  <1>11. ASSUME ~ fatal, \A out \in returned[op] : out = result'[op],
                kind(op) \notin Unrecorded => /\ record[op].status \in Terminal
                                              /\ record[op].children \/ record[op].payload = result'[op],
                \A w \in Nat :
                  \/ kind(op) \in Unrecorded /\ record[op].kind = "none"
                  \/ record[op].children /\ record[op].kind = kind(op) /\ w = record[op].winner
                  => MadeOf(op, result'[op], w)
         PROVE  OutcomeFits(op)' /\ AtWorkFits(op)'
    <2>1. returned'[op] = {result'[op]}
      BY <1>4, <1>11
    <2>2. OnceFits(op)'
      BY <1>2, <1>4, <1>11, <2>1 DEF OnceFits
    <2>3. ValueFits(op)'
      <3>1. ASSUME NEW out \in returned'[op], NEW w \in Nat,
                   \/ kind(op) \in Unrecorded /\ record[op].kind = "none"
                   \/ record[op].children /\ record[op].kind = kind(op) /\ w = record[op].winner
            PROVE  MadeOf(op, out, w)'
        <4>1. MadeOf(op, result'[op], w) /\ out = result'[op]
          BY <1>11, <2>1, <3>1
        <4>2. MadeOf(op, out, w)
          BY <4>1
        <4>3. QED
          BY <1>1, <4>2
      <3>2. QED
        BY <1>2, <1>3, <1>4, <1>5, <3>1 DEF ValueFits, OutcomeFits
    <2>4. QED
      BY <1>6, <1>7, <1>8, <2>2, <2>3 DEF OutcomeFits, AtWorkFits
  <1>12. CASE /\ ~ fatal /\ pc[op] \in {"replay", "wait"} /\ kind(op) \notin Unrecorded
              /\ log[op].status \in Terminal /\ ~ log[op].children /\ result'[op] = log[op].payload
    <2>1. log[op] = record[op]
      BY <1>12 DEF Fits, LogFits
    <2>2. \A out \in returned[op] : out = result'[op]
      BY <1>5, <1>12, <2>1 DEF OnceFits
    <2>3. QED
      BY <1>11, <1>12, <2>1, <2>2
  <1>13. CASE /\ ~ fatal /\ pc[op] = "settling" /\ kind(op) \notin Unrecorded /\ write[op].st = "answered"
              /\ write[op].action \in Final
              /\ result'[op] = IF write[op].action = "FAIL" /\ result[op].ok THEN write[op].payload ELSE result[op]
    <2>1. returned[op] = {}
      BY <1>13 DEF AtWorkFits, ResultFits, Live
    <2>2. /\ record[op].status \in Terminal /\ record[op].payload = write[op].payload
          /\ record[op].children = write[op].children /\ record[op].winner = write[op].winner
      BY <1>5, <1>13 DEF OutcomeFits, SentFits
    <2>3. /\ write[op].children \/ result'[op] = write[op].payload
          /\ write[op].children => result'[op] = result[op]
      BY <1>5, <1>13 DEF AtWorkFits, ResultFits, OutcomeFits, SentFits
    <2>4. write[op].children => kind(op) \in Plainly
      <3>1. kind(op) \in Kind
        BY TypedParts DEF OpTyped
      <3>2. write[op].children => Identity(kind(op)) = "child"
        BY <1>5 DEF OutcomeFits, SentFits
      <3>3. QED
        BY <3>1, <3>2 DEF Identity, Plainly, Contexts, Scope, Combinator, Kind, Awaited
    <2>5. ASSUME NEW w \in Nat, record[op].children, w = record[op].winner
          PROVE  MadeOf(op, result'[op], w)
      <3>1. write[op].children /\ kind(op) \in Plainly /\ result[op] \in Outcomes /\ w = write[op].winner
        BY <1>3, <1>13, <2>2, <2>3, <2>4, <2>5
      <3>2. MadeOf(op, result[op], w)
        BY <1>13, <3>1 DEF AtWorkFits, BodyFits
      <3>3. QED
        BY <2>3, <3>1, <3>2
    <2>6. QED
      BY <1>11, <1>13, <2>1, <2>2, <2>3, <2>5
  <1>14. CASE /\ ~ fatal /\ kind(op) \in Unrecorded /\ record[op].kind = "none"
              /\ \A w \in Nat : MadeOf(op, result'[op], w)
    <2>1. \A out \in returned[op] : MadeOf(op, out, 0)
      BY <1>5, <1>14 DEF OutcomeFits, ValueFits
    <2>2. MadeOf(op, result'[op], 0)
      BY <1>14
    <2>3. \A out \in returned[op] : out = result'[op]
      BY <1>9, <2>1, <2>2
    <2>4. QED
      BY <1>11, <1>14, <2>3
  <1>15. CASE /\ ~ fatal /\ pc[op] \in {"rebuild", "rejoin"} /\ kind(op) \notin Unrecorded
              /\ \A w \in Nat : w = log[op].winner => MadeOf(op, result'[op], w)
    <2>1. log[op].status \in Terminal /\ ~ Mismatched(op) /\ log[op] = record[op]
      BY <1>15 DEF Fits, PhaseFits, PlaceFits, LogFits, Asleep
    <2>2. log[op].kind # "none"
      BY <2>1 DEF Fits, LogFits, Terminal
    <2>3. Identity(record[op].kind) = Identity(kind(op))
      BY <2>1, <2>2 DEF Mismatched
    <2>4. record[op].kind = kind(op) /\ record[op].children
      BY <1>15, <2>1, <2>2, <2>3 DEF KeptFits
    <2>5. MadeOf(op, result'[op], record[op].winner)
      BY <1>3, <1>15, <2>1
    <2>6. \A out \in returned[op] : MadeOf(op, out, record[op].winner)
      BY <1>3, <1>5, <2>4 DEF OutcomeFits, ValueFits
    <2>7. \A out \in returned[op] : out = result'[op]
      BY <1>9, <2>5, <2>6
    <2>8. QED
      BY <1>11, <1>15, <2>1, <2>4, <2>5, <2>7
  <1>16. QED
    BY <1>10, <1>12, <1>13, <1>14, <1>15 DEF Gives, Justified

(***************************************************************************)
(* What the service does to the record of an operation.                    *)
(***************************************************************************)
Stays(op) == SameBooks(op) /\ write'[op] = write[op]
Serves(op) ==
  \/ Stays(op) \/ IsRecorded(op) \/ IsAnswered(op) \/ IsRefreshed(op)
  \/ IsServed(op) /\ Plain(record'[op].payload)

ServiceStep ==
  /\ UNCHANGED <<shape, pc, result, returned, fatal>>
  /\ \A op \in Ops : Serves(op)

LEMMA CompletedServes ==
  ASSUME TypeOK, NEW op \in Ops, NEW status \in Terminal, NEW out \in Outcomes, Plain(out),
         record[op].status = "STARTED", record[op].kind \in Awaited,
         record' = [record EXCEPT ![op].status = status, ![op].payload = out],
         UNCHANGED <<shape, log, write, queue, pc, result, returned, reported, crashes, fatal>>
  PROVE  ServiceStep
  <1>1. record[op] \in Records
    BY DEF TypeOK
  <1>2. /\ record'[op] = [record[op] EXCEPT !.status = status, !.payload = out]
        /\ \A o \in Ops : o # op => record'[o] = record[o]
    BY <1>1 DEF TypeOK
  <1>3. record'[op].payload = out
    BY <1>1, <1>2 DEF Records
  <1>4. IsServed(op)
    BY <1>2 DEF IsServed
  <1>5. \A o \in Ops : o # op => Stays(o)
    BY <1>2 DEF Stays, SameBooks
  <1>6. QED
    BY <1>3, <1>4, <1>5 DEF ServiceStep, Serves

LEMMA ServiceServes ==
  ASSUME TypeOK, RecordsFit, \A op \in Ops : SentFits(op), Service
  PROVE  ServiceStep
  <1>1. CASE RecordUpdate
    <2> DEFINE op == Head(queue)
    <2>1. queue # <<>> /\ write[op].st = "queued" /\ UNCHANGED <<shape, log, queue, result, returned, reported, crashes, fatal>>
      BY <1>1 DEF RecordUpdate
    <2>2. op \in Ops
      BY <2>1, HeadIsAnOp
    <2>3. Valid(op)
      BY <2>1, <2>2, QueuedIsValid DEF RecordsFit
    <2>4. /\ record' = [record EXCEPT ![op] = Applied(record[op], write[op], kind(op))]
          /\ write' = [write EXCEPT ![op].st = "recorded"] /\ UNCHANGED pc
      BY <1>1, <2>1, <2>3 DEF RecordUpdate
    <2> HIDE DEF op
    <2>5. IsRecorded(op)
      BY <2>1, <2>2, <2>3, <2>4 DEF IsRecorded, TypeOK
    <2>6. \A o \in Ops : o # op => Stays(o)
      BY <2>1, <2>4 DEF Stays, SameBooks, TypeOK
    <2>7. QED
      BY <2>1, <2>4, <2>5, <2>6 DEF ServiceStep, Serves
  <1>2. CASE AnswerWrite
    <2> DEFINE op == Head(queue)
    <2>1. /\ queue # <<>> /\ write[op].st = "recorded" /\ write' = [write EXCEPT ![op].st = "answered"]
          /\ UNCHANGED <<shape, record, pc, result, returned, reported, crashes, fatal>>
          /\ \/ log' = [log EXCEPT ![op] = record[op]]
             \/ log' = [log EXCEPT ![op] = OmittedUpdate(op)]
      BY <1>2 DEF AnswerWrite
    <2>2. op \in Ops
      BY <2>1, HeadIsAnOp
    <2> HIDE DEF op
    <2>3. IsAnswered(op)
      BY <2>1, <2>2 DEF IsAnswered, TypeOK
    <2>4. \A o \in Ops : o # op => Stays(o)
      BY <2>1 DEF Stays, SameBooks, TypeOK
    <2>5. QED
      BY <2>1, <2>3, <2>4 DEF ServiceStep, Serves
  <1>3. CASE Refresh
    BY <1>3 DEF Refresh, ServiceStep, Serves, IsRefreshed
  <1>4. ASSUME NEW op \in Ops, FireTimer(op)
        PROVE  ServiceStep
    <2>1. UNCHANGED <<shape, log, write, queue, pc, result, returned, reported, crashes, fatal>>
      BY <1>4 DEF FireTimer
    <2>2. CASE /\ record[op].kind = "wait" /\ record[op].status = "STARTED"
               /\ record' = [record EXCEPT ![op].status = "SUCCEEDED", ![op].payload = Ok(<<>>)]
      <3>1. "SUCCEEDED" \in Terminal /\ Ok(<<>>) \in Outcomes /\ record[op].kind \in Awaited
        BY <2>2, OutcomesAre DEF Terminal, Awaited
      <3>2. QED
        BY <2>1, <2>2, <3>1, PlainAre, CompletedServes
    <2>3. CASE record[op].status = "PENDING" /\ record' = [record EXCEPT ![op].status = "READY"]
      <3>1. record[op] \in Records
        BY DEF TypeOK
      <3>2. /\ record'[op] = [record[op] EXCEPT !.status = "READY"]
            /\ \A o \in Ops : o # op => record'[o] = record[o]
        BY <2>3, <3>1 DEF TypeOK
      <3>3. IsServed(op)
        BY <2>1, <2>3, <3>2 DEF IsServed
      <3>4. Plain(record'[op].payload)
        BY <3>1, <3>2 DEF SentFits, Records
      <3>5. \A o \in Ops : o # op => Stays(o)
        BY <2>1, <3>2 DEF Stays, SameBooks
      <3>6. QED
        BY <2>1, <3>3, <3>4, <3>5 DEF ServiceStep, Serves
    <2>4. QED
      BY <1>4, <2>2, <2>3 DEF FireTimer
  <1>5. ASSUME NEW op \in Ops, Deliver(op)
        PROVE  ServiceStep
    <2>1. /\ UNCHANGED <<shape, log, write, queue, pc, result, returned, reported, crashes, fatal>>
          /\ record[op].kind \in Awaited /\ record[op].status = "STARTED"
      BY <1>5 DEF Deliver, Awaited
    <2>2. "small" \in Contents
      BY DEF Contents
    <2>3. /\ Ok(<<"small">>) \in Outcomes /\ Err("Failed") \in Outcomes /\ Err("TimedOut") \in Outcomes
          /\ Plain(Ok(<<"small">>)) /\ Plain(Err("Failed")) /\ Plain(Err("TimedOut"))
      BY <2>2, SingletonIsASeq, OutcomesAre, PlainAre DEF Errors
    <2>4. PICK status \in Terminal, out \in Outcomes :
            Plain(out) /\ record' = [record EXCEPT ![op].status = status, ![op].payload = out]
      <3>1. PICK answer \in {<<"SUCCEEDED", Ok(<<"small">>)>>, <<"FAILED", Err("Failed")>>,
                             <<"TIMED_OUT", Err("TimedOut")>>} :
               record' = [record EXCEPT ![op].status = answer[1], ![op].payload = answer[2]]
        BY <1>5 DEF Deliver
      <3>2. answer[1] \in Terminal /\ answer[2] \in Outcomes /\ Plain(answer[2])
        BY <2>3 DEF Terminal
      <3>3. QED
        BY <3>1, <3>2
    <2>5. QED
      BY <2>1, <2>4, CompletedServes
  <1>6. QED
    BY <1>1, <1>2, <1>3, <1>4, <1>5 DEF Service

\* A record that is final is never written again, nor is what was returned.
LEMMA ServesKeeps ==
  ASSUME TypeOK, NEW op \in Ops, RecordFits(op), WriteFits(op), OutcomeFits(op), ServiceStep
  PROVE  OutcomeFits(op)'
  <1>1. /\ kind(op)' = kind(op) /\ inputs(op)' = inputs(op) /\ returned' = returned /\ shape' = shape
        /\ OpTyped(op)
    BY TypedParts DEF kind, inputs, ServiceStep
  <1>2. \A out, w : MadeOf(op, out, w) => MadeOf(op, out, w)'
    <2>1. \A out, w : MadeOf(op, out, w)' = MadeOf(op, out, w)
      BY <1>1 DEF MadeOf, Passes, Tries, Wins, Joins
    <2>2. QED
      BY <2>1
  <1>3. Serves(op)
    BY DEF ServiceStep
  <1>4. SentFits(op) /\ OnceFits(op) /\ ValueFits(op)
    BY DEF OutcomeFits
  <1>5. CASE Stays(op) \/ IsRefreshed(op)
    <2>1. record'[op] = record[op] /\ write'[op] = write[op] /\ log'[op] \in {log[op], record[op]}
      BY <1>5 DEF Stays, SameBooks, IsRefreshed
    <2>2. SentFits(op)'
      BY <1>1, <1>4, <2>1 DEF SentFits
    <2>3. OnceFits(op)' /\ ValueFits(op)'
      BY <1>1, <1>2, <1>4, <2>1 DEF OnceFits, ValueFits
    <2>4. QED
      BY <2>2, <2>3 DEF OutcomeFits
  <1>6. CASE IsAnswered(op)
    <2>1. /\ record'[op] = record[op] /\ (log'[op] = record[op] \/ log'[op] = OmittedUpdate(op))
          /\ write[op].st = "recorded" /\ write'[op] = [write[op] EXCEPT !.st = "answered"]
      BY <1>6 DEF IsAnswered
    <2>2. /\ write'[op].action = write[op].action /\ write'[op].payload = write[op].payload
          /\ write'[op].children = write[op].children /\ write'[op].winner = write[op].winner
      BY <1>1, <2>1 DEF OpTyped, Updates
    <2>3. Plain(log'[op].payload)
      <3>1. OmittedUpdate(op).payload \in {log[op].payload, write[op].payload}
        BY <1>1 DEF OmittedUpdate, OpTyped, Records
      <3>2. QED
        BY <1>4, <2>1, <3>1 DEF SentFits
    <2>4. SentFits(op)'
      BY <1>1, <1>4, <2>1, <2>2, <2>3 DEF SentFits
    <2>5. OnceFits(op)' /\ ValueFits(op)'
      BY <1>1, <1>2, <1>4, <2>1, <2>2 DEF OnceFits, ValueFits
    <2>6. QED
      BY <2>4, <2>5 DEF OutcomeFits
  <1>7. CASE IsRecorded(op)
    <2>1. /\ write[op].st = "queued" /\ Valid(op) /\ log'[op] = log[op]
          /\ record'[op] = Applied(record[op], write[op], kind(op))
          /\ write'[op] = [write[op] EXCEPT !.st = "recorded"]
      BY <1>7 DEF IsRecorded
    <2>2. /\ write'[op].action = write[op].action /\ write'[op].payload = write[op].payload
          /\ write'[op].children = write[op].children /\ write'[op].winner = write[op].winner
      BY <1>1, <2>1 DEF OpTyped, Updates
    <2>3. record[op].status \notin Terminal /\ kind(op) \notin Unrecorded /\ write[op].action # "NONE"
      BY <2>1 DEF Valid, Terminal, WriteFits
    <2>4. returned[op] = {} /\ ~ record[op].children
      BY <1>4, <2>3 DEF OnceFits, SentFits
    <2>5. CASE write[op].action \in {"START", "RETRY"}
      <3>1. record'[op].children = FALSE /\ record'[op].payload \in {Nothing, write[op].payload}
        BY <1>1, <2>1, <2>4, <2>5 DEF Applied, OpTyped, Records, Updates
      <3>2. SentFits(op)'
        BY <1>1, <1>4, <2>1, <2>2, <2>5, <3>1, PlainAre DEF SentFits, Final
      <3>3. OnceFits(op)' /\ ValueFits(op)'
        BY <1>1, <1>4, <2>2, <2>4, <3>1 DEF OnceFits, ValueFits
      <3>4. QED
        BY <3>2, <3>3 DEF OutcomeFits
    <2>6. CASE write[op].action \in Final
      <3>1. /\ record'[op].status \in Terminal /\ record'[op].payload = write[op].payload
            /\ record'[op].children = write[op].children /\ record'[op].winner = write[op].winner
            /\ record'[op].kind = record[op].kind
        BY <1>1, <2>1, <2>6 DEF Applied, OpTyped, Records, Updates, Final, Terminal
      <3>2. Identity(record[op].kind) = Identity(kind(op))
        BY <2>1, <2>6 DEF WriteFits, Final
      <3>3. SentFits(op)'
        BY <1>1, <1>4, <2>1, <2>2, <3>1, <3>2 DEF SentFits
      <3>4. OnceFits(op)' /\ ValueFits(op)'
        BY <1>1, <1>4, <2>2, <2>4, <3>1 DEF OnceFits, ValueFits
      <3>5. QED
        BY <3>3, <3>4 DEF OutcomeFits
    <2>7. QED
      BY <1>1, <2>3, <2>5, <2>6 DEF OpTyped, Updates, Final
  <1>8. CASE IsServed(op) /\ Plain(record'[op].payload)
    <2>1. /\ log'[op] = log[op] /\ write'[op] = write[op]
          /\ record[op].status \in {"PENDING", "STARTED"}
      BY <1>8 DEF IsServed
    <2>2. record'[op].kind = record[op].kind /\ record'[op].children = record[op].children
      BY <1>1, <1>8 DEF IsServed, OpTyped, Records
    <2>3. record[op].status \notin Terminal /\ record[op].kind # "none"
      BY <2>1 DEF Terminal, RecordFits
    <2>4. ~ record[op].children /\ ~ (write[op].st \in {"recorded", "answered"} /\ write[op].action \in Final)
      BY <1>4, <2>3 DEF SentFits
    <2>5. SentFits(op)'
      BY <1>1, <1>4, <1>8, <2>1, <2>2, <2>4 DEF SentFits
    <2>6. kind(op) \notin Unrecorded => returned[op] = {}
      BY <1>4, <2>3 DEF OnceFits
    <2>7. OnceFits(op)' /\ ValueFits(op)'
      BY <1>1, <1>4, <2>1, <2>2, <2>3, <2>4, <2>6 DEF OnceFits, ValueFits
    <2>8. QED
      BY <2>5, <2>7 DEF OutcomeFits
  <1>9. QED
    BY <1>3, <1>5, <1>6, <1>7, <1>8 DEF Serves

LEMMA ServesKeepsWork ==
  ASSUME TypeOK, NEW op \in Ops, Fits(op), AtWorkFits(op), ServiceStep
  PROVE  AtWorkFits(op)'
  <1>1. /\ kind(op)' = kind(op) /\ inputs(op)' = inputs(op) /\ returned' = returned /\ OpTyped(op)
        /\ shape' = shape /\ pc' = pc /\ result' = result /\ fatal' = fatal
    BY TypedParts DEF kind, inputs, ServiceStep
  <1>2. \A out, w : MadeOf(op, out, w) => MadeOf(op, out, w)'
    <2>1. \A out, w : MadeOf(op, out, w)' = MadeOf(op, out, w)
      BY <1>1 DEF MadeOf, Passes, Tries, Wins, Joins
    <2>2. QED
      BY <2>1
  <1>3. Serves(op)
    BY DEF ServiceStep
  <1>4. /\ write'[op].action = write[op].action /\ write'[op].payload = write[op].payload
        /\ write'[op].children = write[op].children /\ write'[op].winner = write[op].winner
    <2>1. \/ write'[op] = write[op] \/ write'[op] = [write[op] EXCEPT !.st = "recorded"]
          \/ write'[op] = [write[op] EXCEPT !.st = "answered"]
      BY <1>3 DEF Serves, Stays, IsRecorded, IsAnswered, IsRefreshed, IsServed
    <2>2. QED
      BY <1>1, <2>1 DEF OpTyped, Updates
  <1>5. write[op] = NoWrite => log'[op] \in {log[op], record[op]}
    BY <1>3, NoWriteIs DEF Serves, Stays, SameBooks, IsRecorded, IsAnswered, IsRefreshed, IsServed
  <1>6. pc[op] \in Asleep \cup {"replay"} => write[op] = NoWrite
    BY DEF Fits, PhaseFits
  <1>7. log[op].status \in Terminal => log[op] = record[op]
    BY DEF Fits, LogFits
  <1>8. pc[op] = "replay" => log[op].status \in Terminal
    BY DEF Fits, PhaseFits
  <1>9. ResultFits(op)'
    BY <1>1, <1>4, <1>5, <1>6, <1>7, <1>8 DEF ResultFits, AtWorkFits
  <1>10. BodyFits(op)'
    BY <1>1, <1>2, <1>4 DEF BodyFits, AtWorkFits
  <1>11. QED
    BY <1>9, <1>10 DEF AtWorkFits

(***************************************************************************)
(* What the steps of an invocation do to the outcomes.                     *)
(***************************************************************************)
\* The attempts of a retry block, and the waits between them, run one by one.
PathFits(op) ==
  kind(op) = "with_retry" /\ pc[op] \in {"body", "rebuild"} =>
    \E n \in 0 .. Len(inputs(op)) :
      /\ Spawned(op) = 1 .. n
      /\ \A i \in 1 .. n - 1 : pc[inputs(op)[i]] = "done" /\ result[inputs(op)[i]].ok = (i % 2 = 0)

Feeds(op) ==
  kind(op) = "with_retry" /\ pc[op] \in {"body", "rebuild"} =>
    \/ \A o \in ToSet(inputs(op)) : ~ Started(o)
    \/ \E n \in 0 .. Len(inputs(op)) - 1 :
         /\ Spawned(op) = 1 .. n
         /\ n > 0 => pc[inputs(op)[n]] = "done" /\ result[inputs(op)[n]].ok = (n % 2 = 0)
         /\ \A o \in ToSet(inputs(op)) : Started(o) <=> o = inputs(op)[n + 1]

OutStep == \A op \in Ops : Outward(op) /\ Feeds(op)

Steady ==
  /\ TypeOK /\ InvocationFits
  /\ \A op \in Ops : KeptFits(op) /\ OutcomeFits(op) /\ AtWorkFits(op) /\ PathFits(op)

LEMMA OneOutward ==
  ASSUME TypeOK, NEW op \in Ops, Outward(op), ~ Started(op),
         \A o \in Ops : o # op =>
           SameBooks(o) /\ SameOutcome(o) /\ pc'[o] = pc[o] /\ write'[o] = write[o]
  PROVE  OutStep
  <1>1. \A o \in Ops : o # op => Outward(o)
    BY DEF Outward, Idles
  <1>2. \A o \in Ops : ~ Started(o)
    BY DEF Started
  <1>3. \A o \in Ops : Feeds(o)
    <2>1. \A o \in Ops : ToSet(inputs(o)) \subseteq Ops
      BY TypedParts
    <2>2. QED
      BY <1>2, <2>1 DEF Feeds
  <1>4. QED
    BY <1>1, <1>3 DEF OutStep

\* An operation that returns, and nothing else.
LEMMA OneReturns ==
  ASSUME TypeOK, NEW op \in Ops, NEW out, NEW kinds, Return(op, out, kinds), Plain(out), pc[op] \notin Asleep \cup {"done"},
         UNCHANGED <<record, log, write, fatal>>, fatal \/ (result'[op] = out => Justified(op))
  PROVE  OutStep
  <1>1. /\ pc'[op] = "done" /\ result'[op] = out
        /\ returned'[op] = IF fatal THEN returned[op] ELSE returned[op] \cup {out}
        /\ \A o \in Ops : o # op => pc'[o] = pc[o] /\ result'[o] = result[o] /\ returned'[o] = returned[o]
    BY DEF Return, TypeOK
  <1>2. Gives(op)
    BY <1>1 DEF Gives
  <1>3. Outward(op) /\ ~ Started(op)
    BY <1>2 DEF Outward, SameBooks, Started
  <1>4. QED
    BY <1>1, <1>3, OneOutward DEF SameBooks, SameOutcome

\* What is recorded of what records nothing is none of its own.
LEMMA OwnIsRecorded ==
  ASSUME TypeOK, NEW op \in Ops, Fits(op), ~ Mismatched(op)
  PROVE  /\ log[op].kind # "none" => kind(op) \notin Unrecorded /\ Identity(log[op].kind) = Identity(kind(op))
         /\ kind(op) \in Unrecorded => record[op].kind = "none"
  <1>1. log[op].kind \in Kind \ Unrecorded /\ record[op].kind \in Kind \ Unrecorded
    BY TypedParts DEF OpTyped, Records
  <1>2. \A k \in Unrecorded : Identity(k) = k /\ \A other \in Kind \ Unrecorded : Identity(other) # k
    BY DEF Identity, Combinator
  <1>3. log[op].kind # "none" => Identity(log[op].kind) = Identity(kind(op))
    BY DEF Mismatched
  <1>4. QED
    BY <1>1, <1>2, <1>3 DEF Fits, LogFits

LEMMA ReplayOut ==
  ASSUME Steady, NEW op \in Ops, Replay(op)
  PROVE  OutStep
  <1>1. /\ pc[op] = "replay" /\ Return(op, log[op].payload, ReplayedKind(op, log[op].payload))
        /\ UNCHANGED <<record, log, write, fatal>>
    BY DEF Replay, service
  <1>2. TypeOK /\ Fits(op) /\ OutcomeFits(op) /\ AtWorkFits(op)
    BY DEF Steady, InvocationFits
  <1>3. log[op].status \in Terminal /\ ~ Mismatched(op)
    BY <1>1, <1>2 DEF Fits, PhaseFits, PlaceFits, Asleep
  <1>4. log[op].kind # "none"
    BY <1>2, <1>3 DEF Fits, LogFits, Terminal
  <1>5. kind(op) \notin Unrecorded
    BY <1>2, <1>3, <1>4, OwnIsRecorded
  <1>6. Plain(log[op].payload) /\ ~ log[op].children
    BY <1>1, <1>2 DEF OutcomeFits, SentFits, AtWorkFits, ResultFits
  <1>7. result'[op] = log[op].payload => Justified(op)
    BY <1>1, <1>3, <1>5, <1>6 DEF Justified
  <1>8. QED
    BY <1>1, <1>2, <1>6, <1>7, OneReturns DEF Asleep

LEMMA StartRecordedOut ==
  ASSUME Steady, NEW op \in Ops, StartRecorded(op)
  PROVE  OutStep
  <1>1. /\ pc[op] = "starting" /\ pc' = [pc EXCEPT ![op] = "wait"]
        /\ UNCHANGED <<record, log, write, result, returned, fatal>>
    BY DEF StartRecorded, service
  <1>2. TypeOK
    BY DEF Steady
  <1>3. pc'[op] = "wait" /\ \A o \in Ops : o # op => pc'[o] = pc[o]
    BY <1>1, <1>2 DEF TypeOK
  <1>4. Outward(op) /\ ~ Started(op)
    BY <1>1, <1>3 DEF Outward, Advances, SameOutcome, SameBooks, Started, Asleep
  <1>5. QED
    BY <1>1, <1>2, <1>3, <1>4, OneOutward DEF SameBooks, SameOutcome

\* Operations that only enter.
LEMMA EnterOut ==
  ASSUME TypeOK, NEW ops \in Seq(Ops), Enter(ops),
         \A op \in ToSet(ops) : MayEnter(op),
         UNCHANGED <<shape, record, log, returned, reported, crashes>>
  PROVE  /\ \A op \in Ops : Outward(op) /\ (Started(op) => op \in ToSet(ops)) /\ (op \notin ToSet(ops) => pc'[op] = pc[op])
         /\ \A op \in ToSet(ops) : pc'[op] \notin Asleep
  <1>1. /\ TypeOK'
        /\ \A op \in ToSet(ops) : Enters(op)
        /\ \A op \in Ops : op \notin ToSet(ops) => Rests(op) /\ pc'[op] = pc[op]
    BY EnterIsLocal
  <1>2. EnterWith(ops, <<>>) /\ <<>> \in Seq(Ops) /\ ToSet(ops) \subseteq Ops
    BY DEF Enter, ToSet
  <1>3. \A op \in ToSet(ops) : fatal' \/ \A o \in Claimed({op}) : ~ Mismatched(o)
    BY <1>2, EnteringIsFatal
  <1>4. \A op \in Ops : op \in Claimed({op})
    BY DEF Claimed
  <1>5. ASSUME NEW op \in ToSet(ops)
        PROVE  Outward(op)
    BY <1>1, <1>2, <1>3, <1>4 DEF Outward, Opens, Enters
  <1>6. ASSUME NEW op \in Ops, op \notin ToSet(ops)
        PROVE  Outward(op) /\ ~ Started(op)
    <2>1. Rests(op) /\ pc'[op] = pc[op]
      BY <1>1, <1>6
    <2>2. QED
      BY <2>1 DEF Rests, Outward, Idles, SameOutcome, SameBooks, Started
  <1>7. \A op \in ToSet(ops) : pc'[op] \notin Asleep
    BY <1>1, EntryLeads DEF Enters, Asleep
  <1>8. QED
    BY <1>1, <1>2, <1>5, <1>6, <1>7

LEMMA WaitOverOut ==
  ASSUME Steady, NEW op \in Ops, WaitOver(op)
  PROVE  OutStep
  <1>1. pc[op] = "wait" /\ log[op].status \notin Unsettled(op) /\ UNCHANGED <<shape, crashes>>
    BY DEF WaitOver
  <1>2. TypeOK /\ Fits(op) /\ OutcomeFits(op) /\ \A o \in Ops : ToSet(inputs(o)) \subseteq Ops
    BY TypedParts DEF Steady, InvocationFits
  <1>3. CASE kind(op) = "condition"
    <2>1. Enter(<<op>>) /\ UNCHANGED <<shape, record, log, returned, reported, crashes>>
      BY <1>1, <1>3 DEF WaitOver
    <2>2. <<op>> \in Seq(Ops) /\ ToSet(<<op>>) = {op}
      BY DEF ToSet
    <2>3. log[op].status \notin {"NONE", "PENDING"}
      BY <1>1, <1>3 DEF Unsettled
    <2>4. MayEnter(op)
      BY <1>1, <1>3, <2>3 DEF MayEnter
    <2>5. \A o \in Ops : Outward(o) /\ (Started(o) => o = op)
      BY <1>2, <2>1, <2>2, <2>4, EnterOut
    <2>6. ~ Started(op)
      BY <1>1 DEF Started, Asleep
    <2>7. \A o \in Ops : Feeds(o)
      BY <1>2, <2>5, <2>6 DEF Feeds
    <2>8. QED
      BY <2>5, <2>7 DEF OutStep
  <1>4. CASE kind(op) # "condition"
    <2>1. Return(op, log[op].payload, {}) /\ UNCHANGED <<record, log, write, fatal>>
      BY <1>1, <1>4 DEF WaitOver, service
    <2>2. kind(op) \in Awaited /\ ~ Mismatched(op)
      BY <1>1, <1>2, <1>4 DEF Fits, PlaceFits, Asleep
    <2>3. log[op].status \in Status
      BY <1>2, TypedParts DEF OpTyped, Records
    <2>4. /\ log[op].status \notin {"NONE", "STARTED"}
          /\ log[op].status \in Terminal \/ log[op].status \in {"PENDING", "READY"}
      BY <1>1, <2>2, <2>3 DEF Unsettled, Awaited, Status, Terminal
    <2>5. log[op].kind # "none" /\ Identity(log[op].kind) = Identity(kind(op))
      BY <1>2, <2>2, <2>4 DEF Fits, LogFits, Mismatched
    <2>6. Identity(kind(op)) = kind(op) /\ Identity(kind(op)) \notin {"child", "condition"}
      BY <2>2 DEF Identity, Awaited, Combinator
    <2>7. log[op].status \in Terminal
      <3>1. Identity("condition") = "condition"
        BY DEF Identity, Combinator
      <3>2. QED
        BY <1>2, <2>4, <2>5, <2>6, <3>1 DEF Fits, LogFits
    <2>8. log[op] = record[op]
      BY <1>2, <2>7 DEF Fits, LogFits
    <2>9. ~ log[op].children /\ Plain(log[op].payload)
      BY <1>2, <2>5, <2>6, <2>8 DEF OutcomeFits, SentFits
    <2>10. kind(op) \notin Unrecorded
      BY <2>2 DEF Awaited
    <2>11. result'[op] = log[op].payload => Justified(op)
      BY <1>1, <2>7, <2>9, <2>10 DEF Justified
    <2>12. QED
      BY <1>1, <1>2, <2>1, <2>9, <2>11, OneReturns DEF Asleep
  <1>5. QED
    BY <1>3, <1>4

LEMMA BodyReturnsOut ==
  ASSUME Steady, NEW op \in Ops, BodyReturns(op)
  PROVE  OutStep
  <1>1. /\ pc[op] = "body" /\ kind(op) \in {"step", "condition"}
        /\ pc' = [pc EXCEPT ![op] = "ran"]
        /\ UNCHANGED <<record, log, write, returned, fatal>>
    BY DEF BodyReturns, service
  <1>2. PICK out \in {Err(error) : error \in ErrorTypes} \cup (IF kind(op) = "step" THEN {Ok(<<v>>) : v \in Values}
                                          ELSE {Ok(Append(result[op].of, "check"))}) :
           result' = [result EXCEPT ![op] = out]
    BY DEF BodyReturns
  <1>3. Plain(out)
    <2>1. (\E error : out = Err(error)) \/ \E v : out = Ok(v)
      BY <1>2
    <2>2. QED
      BY <2>1, PlainAre
  <1>4. TypeOK
    BY DEF Steady
  <1>5. /\ pc'[op] = "ran" /\ result'[op] = out
        /\ \A o \in Ops : o # op => pc'[o] = pc[o] /\ result'[o] = result[o]
    BY <1>1, <1>2, <1>4 DEF TypeOK
  <1>6. kind(op) \notin Plainly \cup Combinator /\ kind(op) \notin Unrecorded
    BY <1>1 DEF Plainly, Contexts, Scope, Combinator
  <1>7. Finishes(op)
    BY <1>1, <1>3, <1>5, <1>6 DEF Finishes
  <1>8. Outward(op) /\ ~ Started(op)
    BY <1>1, <1>7 DEF Outward, SameBooks, Started, Asleep
  <1>9. QED
    BY <1>1, <1>4, <1>5, <1>8, OneOutward DEF SameBooks, SameOutcome

\* An outcome that is sent.
LEMMA SubmitsOut ==
  ASSUME TypeOK, NEW op \in Ops, NEW update, NEW out,
         SubmitOutcome(op, update, out), pc[op] = "ran", kind(op) \notin Unrecorded,
         update.st = "queued", update.action \in Answers, Plain(update.payload), Plain(out),
         IF update.children
           THEN /\ kind(op) \in Plainly /\ update.action = "SUCCEED"
                /\ result[op].ok /\ out = At(result[op], 0)
                /\ kind(op) \in Select => update.winner = result[op].at
           ELSE out = update.payload \/ (update.action = "FAIL" /\ out.ok),
         kind(op) \in Combinator => ~ fatal /\ update = CombinatorUpdate(op),
         UNCHANGED <<shape, record, log, returned, reported, crashes, fatal>>
  PROVE  OutStep
  <1>1. /\ write' = [write EXCEPT ![op] = update]
        /\ result' = [result EXCEPT ![op] = out] /\ pc' = [pc EXCEPT ![op] = "settling"]
    BY DEF SubmitOutcome, Submit
  <1>2. /\ write'[op] = update /\ pc'[op] = "settling" /\ result'[op] = out
        /\ \A o \in Ops : o # op => pc'[o] = pc[o] /\ result'[o] = result[o] /\ write'[o] = write[o]
    BY <1>1 DEF TypeOK
  <1>3. Submits(op)
    BY <1>2 DEF Submits
  <1>4. Outward(op) /\ ~ Started(op)
    BY <1>3 DEF Outward, SameBooks, Started, Asleep
  <1>5. QED
    BY <1>2, <1>4, OneOutward DEF SameBooks, SameOutcome

\* A failure that is sent for a value that could not be serialized.
LEMMA UnserializedOut ==
  ASSUME TypeOK, NEW op \in Ops, AtWorkFits(op), SubmitUnserialized(op), pc[op] = "ran",
         kind(op) \notin Select \cup Combinator, kind(op) \notin Unrecorded,
         UNCHANGED <<shape, record, log, returned, reported, crashes, fatal>>
  PROVE  OutStep
  <1> DEFINE update == Update("FAIL", Err("SerializationError"))
  <1>1. result[op].ok /\ SubmitOutcome(op, update, result[op])
    BY DEF SubmitUnserialized
  <1>2. /\ update.st = "queued" /\ update.action = "FAIL" /\ ~ update.children
        /\ update.payload = Err("SerializationError")
    BY DEF Update, NoWrite
  <1>3. Plain(result[op]) /\ Plain(update.payload) /\ update.action \in Answers
    BY <1>2, PlainAre DEF AtWorkFits, ResultFits, Answers
  <1> HIDE DEF update
  <1>4. QED
    BY <1>1, <1>2, <1>3, SubmitsOut

LEMMA SettleStepOut ==
  ASSUME Steady, NEW op \in Ops, SettleStep(op)
  PROVE  OutStep
  <1> DEFINE action == IF result[op].ok THEN "SUCCEED" ELSE "FAIL"
  <1>1. /\ pc[op] = "ran" /\ kind(op) = "step"
        /\ SubmitOutcome(op, Update(action, result[op]), result[op]) \/ SubmitUnserialized(op)
        /\ UNCHANGED <<shape, record, log, returned, reported, crashes, fatal>>
    BY DEF SettleStep
  <1>2. action \in Answers
    BY DEF Answers
  <1> HIDE DEF action
  <1>3. /\ TypeOK /\ result[op] \in Outcomes /\ AtWorkFits(op)
        /\ kind(op) \notin Select \cup Combinator /\ kind(op) \notin Unrecorded
    BY <1>1 DEF Steady, TypeOK, Select, Combinator
  <1>4. /\ Update(action, result[op]).st = "queued" /\ Update(action, result[op]).action = action
        /\ Update(action, result[op]).payload = result[op] /\ ~ Update(action, result[op]).children
    BY DEF Update, NoWrite
  <1>5. Plain(result[op])
    BY <1>3 DEF Steady, AtWorkFits, ResultFits
  <1>6. CASE SubmitUnserialized(op)
    BY <1>1, <1>3, <1>6, UnserializedOut
  <1>7. CASE SubmitOutcome(op, Update(action, result[op]), result[op])
    BY <1>1, <1>2, <1>3, <1>4, <1>5, <1>7, SubmitsOut
  <1>8. QED
    BY <1>1, <1>6, <1>7

LEMMA SettleCheckOut ==
  ASSUME Steady, NEW op \in Ops, SettleCheck(op)
  PROVE  OutStep
  <1>1. /\ pc[op] = "ran" /\ kind(op) = "condition"
        /\ UNCHANGED <<shape, record, log, returned, reported, crashes, fatal>>
    BY DEF SettleCheck
  <1>2. TypeOK /\ AtWorkFits(op) /\ kind(op) \notin Select \cup Combinator /\ kind(op) \notin Unrecorded
    BY <1>1 DEF Steady, Select, Combinator
  <1>3. Plain(result[op])
    BY <1>2 DEF AtWorkFits, ResultFits
  <1>4. CASE SubmitUnserialized(op)
    BY <1>1, <1>2, <1>4, UnserializedOut
  <1>5. CASE ~ SubmitUnserialized(op)
    <2>1. PICK action \in Answers, out \in {result[op], Err("MaxChecksExceeded")} :
            SubmitOutcome(op, Update(action, out), out)
      <3>1. {"FAIL", "SUCCEED", "RETRY"} \subseteq Answers
        BY DEF Answers
      <3>2. \/ SubmitOutcome(op, Update("FAIL", result[op]), result[op])
            \/ SubmitOutcome(op, Update("SUCCEED", result[op]), result[op])
            \/ SubmitOutcome(op, Update("RETRY", result[op]), result[op])
            \/ SubmitOutcome(op, Update("FAIL", Err("MaxChecksExceeded")), Err("MaxChecksExceeded"))
        BY <1>5 DEF SettleCheck
      <3>3. QED
        BY <3>1, <3>2
    <2>2. /\ Update(action, out).st = "queued" /\ Update(action, out).action = action
          /\ Update(action, out).payload = out /\ ~ Update(action, out).children
      BY DEF Update, NoWrite
    <2>3. Plain(out)
      BY <1>3, <2>1, PlainAre
    <2>4. QED
      BY <1>1, <1>2, <2>1, <2>2, <2>3, SubmitsOut
  <1>6. QED
    BY <1>4, <1>5

LEMMA OutcomeRecordedOut ==
  ASSUME Steady, NEW op \in Ops, OutcomeRecorded(op)
  PROVE  OutStep
  <1>1. /\ pc[op] = "settling" /\ write[op].st = "answered"
        /\ UNCHANGED <<record, log, write, fatal>>
    BY DEF OutcomeRecorded, service
  <1>2. TypeOK /\ Fits(op) /\ AtWorkFits(op) /\ OutcomeFits(op)
    BY DEF Steady, InvocationFits
  <1>3. CASE write[op].action = "RETRY"
    <2>1. pc' = [pc EXCEPT ![op] = "wait"] /\ UNCHANGED <<result, returned, reported>>
      BY <1>3 DEF OutcomeRecorded
    <2>2. pc'[op] = "wait" /\ \A o \in Ops : o # op => pc'[o] = pc[o]
      BY <1>2, <2>1 DEF TypeOK
    <2>3. Outward(op) /\ ~ Started(op)
      BY <1>1, <2>1, <2>2 DEF Outward, Advances, SameOutcome, SameBooks, Started, Asleep
    <2>4. QED
      BY <1>1, <1>2, <2>1, <2>2, <2>3, OneOutward DEF SameBooks, SameOutcome
  <1>4. CASE write[op].action # "RETRY"
    <2> DEFINE out == IF write[op].action = "FAIL" /\ result[op].ok THEN write[op].payload ELSE result[op]
    <2>1. \E kinds : Return(op, out, kinds)
      BY <1>4 DEF OutcomeRecorded
    <2>2. write[op].action \in Final /\ kind(op) \notin Unrecorded
      BY <1>1, <1>2, <1>4 DEF Fits, PhaseFits, WriteFits, Answers, Final
    <2>3. Plain(out)
      BY <1>1, <1>2 DEF AtWorkFits, ResultFits, OutcomeFits, SentFits
    <2>4. result'[op] = out => Justified(op)
      BY <1>1, <2>2 DEF Justified
    <2> HIDE DEF out
    <2>5. QED
      BY <1>1, <1>2, <2>1, <2>3, <2>4, OneReturns DEF Asleep
  <1>5. QED
    BY <1>3, <1>4

LEMMA HandlerAwaitsOut ==
  ASSUME Steady, HandlerAwaits
  PROVE  OutStep
  <1>1. /\ pc[Top] = "invoked" /\ Enter(<<Top>>) /\ UNCHANGED <<shape, record, log, returned, reported, crashes>>
    BY DEF HandlerAwaits
  <1>2. TypeOK /\ Top \in Ops /\ kind(Top) # "none"
    BY RecordsAssumption, TypedParts DEF Steady
  <1>3. <<Top>> \in Seq(Ops) /\ ToSet(<<Top>>) = {Top} /\ MayEnter(Top)
    BY <1>1, <1>2, SingletonIsASeq DEF ToSet, MayEnter, Asleep
  <1>4. \A op \in Ops : Outward(op) /\ (Started(op) => op = Top)
    BY <1>1, <1>2, <1>3, EnterOut
  <1>5. \A op \in Ops : Top \notin ToSet(inputs(op)) /\ ToSet(inputs(op)) \subseteq Ops
    BY <1>2, InsideIsATree, TypedParts
  <1>6. \A op \in Ops : Feeds(op)
    BY <1>4, <1>5 DEF Feeds
  <1>7. QED
    BY <1>4, <1>6 DEF OutStep

LEMMA CountUpTo ==
  ASSUME NEW n \in Nat
  PROVE  Cardinality(1 .. n) = n
  <1>1. 1 \in Int /\ n \in Int
    OBVIOUS
  <1>2. Cardinality(1 .. n) = IF 1 > n THEN 0 ELSE n - 1 + 1
    BY <1>1, FS_Interval
  <1>3. QED
    BY <1>2

\* An operation is the input of one other.
LEMMA OthersGetNothing ==
  ASSUME TypeOK, NEW op \in Ops, \A o \in Ops : Started(o) => o \in ToSet(inputs(op))
  PROVE  \A c \in Ops : c # op => Feeds(c)
  <1>1. ASSUME NEW c \in Ops, c # op, NEW o \in ToSet(inputs(c))
        PROVE  ~ Started(o)
    <2>1. o \in Ops
      BY TypedParts
    <2>2. PICK i \in DOMAIN inputs(c) : o = inputs(c)[i]
      BY DEF ToSet
    <2>3. ASSUME Started(o)
          PROVE  FALSE
      <3>1. PICK j \in DOMAIN inputs(op) : o = inputs(op)[j]
        BY <2>1, <2>3 DEF ToSet
      <3>2. QED
        BY <1>1, <2>2, <3>1, InsideIsATree
    <2>4. QED
      BY <2>3
  <1>2. QED
    BY <1>1 DEF Feeds

LEMMA BodyStartsOut ==
  ASSUME Steady, NEW op \in Ops, BodyStarts(op)
  PROVE  OutStep
  <1> DEFINE ops == IF kind(op) \in {"child", "virtual"} THEN inputs(op) ELSE <<Head(inputs(op))>>
  <1>1. /\ kind(op) \in Scoped /\ pc[op] \in {"body", "rebuild"} /\ Spawned(op) = {}
        /\ Enter(ops) /\ UNCHANGED <<shape, record, log, returned, reported, crashes>>
    BY DEF BodyStarts, Running
  <1>2. TypeOK
    BY DEF Steady
  <1>3. /\ inputs(op) \in Seq(Ops) /\ inputs(op) # <<>> /\ DOMAIN inputs(op) = 1 .. Len(inputs(op))
        /\ Len(inputs(op)) \in Nat /\ ToSet(inputs(op)) \subseteq Ops
        /\ \A o \in ToSet(inputs(op)) : kind(o) # "none"
    BY <1>1, <1>2, TypedParts DEF Scoped
  <1>4. Head(inputs(op)) = inputs(op)[1] /\ 1 \in DOMAIN inputs(op)
    BY <1>3
  <1>5. inputs(op)[1] \in Ops /\ inputs(op)[1] \in ToSet(inputs(op))
    BY <1>3, <1>4 DEF ToSet
  <1>6. /\ ops \in Seq(Ops) /\ ToSet(ops) \subseteq ToSet(inputs(op))
        /\ kind(op) = "with_retry" => ToSet(ops) = {inputs(op)[1]}
    <2>1. <<inputs(op)[1]>> \in Seq(Ops) /\ ToSet(<<inputs(op)[1]>>) = {inputs(op)[1]}
      BY <1>5, SingletonIsASeq DEF ToSet
    <2>2. QED
      BY <1>3, <1>4, <1>5, <2>1
  <1>7. \A o \in ToSet(inputs(op)) : pc[o] = "off"
    BY <1>1 DEF Spawned, ToSet
  <1> HIDE DEF ops
  <1>8. \A o \in ToSet(ops) : MayEnter(o)
    BY <1>3, <1>6, <1>7 DEF MayEnter, Asleep
  <1>9. /\ \A o \in Ops : Outward(o) /\ (Started(o) => o \in ToSet(ops))
        /\ \A o \in ToSet(ops) : pc'[o] \notin Asleep
    BY <1>1, <1>2, <1>6, <1>8, EnterOut
  <1>10. \A c \in Ops : c # op => Feeds(c)
    BY <1>2, <1>6, <1>9, OthersGetNothing
  <1>11. ASSUME kind(op) = "with_retry"
         PROVE  Feeds(op)
    <2>1. \A o \in ToSet(inputs(op)) : Started(o) <=> o = inputs(op)[1]
      <3>1. pc[inputs(op)[1]] = "off" /\ pc'[inputs(op)[1]] \notin Asleep
        BY <1>5, <1>6, <1>7, <1>9, <1>11
      <3>2. Started(inputs(op)[1])
        BY <3>1 DEF Started, Asleep
      <3>3. QED
        BY <1>3, <1>6, <1>9, <1>11, <3>2
    <2>2. Spawned(op) = 1 .. 0 /\ 0 \in 0 .. Len(inputs(op)) - 1 /\ ~ (0 > 0) /\ 0 + 1 = 1
      BY <1>1, <1>3, <1>4
    <2>3. \A o \in ToSet(inputs(op)) : Started(o) <=> o = inputs(op)[0 + 1]
      BY <2>1, <2>2
    <2>4. QED
      BY <2>2, <2>3 DEF Feeds
  <1>12. Feeds(op)
    BY <1>11 DEF Feeds
  <1>13. QED
    BY <1>9, <1>10, <1>12 DEF OutStep

LEMMA BodyGoesOnOut ==
  ASSUME Steady, NEW op \in Ops, BodyGoesOn(op)
  PROVE  OutStep
  <1>1. /\ kind(op) \in {"wait_for_callback", "with_retry"}
        /\ UNCHANGED <<shape, record, log, returned, reported, crashes>>
    BY DEF BodyGoesOn, Running
  <1>2. PICK n \in 1 .. Len(inputs(op)) - 1 :
          /\ Spawned(op) = 1 .. n /\ Enter(<<inputs(op)[n + 1]>>)
          /\ kind(op) = "with_retry" => Done(Latest(op)) /\ result[Latest(op)].ok = (n % 2 = 0)
    <2>1. kind(op) = "with_retry" => kind(op) # "wait_for_callback"
      OBVIOUS
    <2>2. QED
      BY <2>1 DEF BodyGoesOn
  <1>3. TypeOK
    BY DEF Steady
  <1>4. /\ inputs(op) \in Seq(Ops) /\ DOMAIN inputs(op) = 1 .. Len(inputs(op)) /\ Len(inputs(op)) \in Nat
        /\ ToSet(inputs(op)) \subseteq Ops /\ \A o \in ToSet(inputs(op)) : kind(o) # "none"
    BY <1>3, TypedParts
  <1>5. n + 1 \in DOMAIN inputs(op) /\ n + 1 \notin Spawned(op) /\ n \in Nat
    BY <1>2, <1>4
  <1> DEFINE next == inputs(op)[n + 1]
  <1>6. next \in Ops /\ next \in ToSet(inputs(op)) /\ pc[next] = "off"
    BY <1>4, <1>5 DEF Spawned, ToSet
  <1>7. <<next>> \in Seq(Ops) /\ ToSet(<<next>>) = {next} /\ MayEnter(next)
    BY <1>4, <1>6, SingletonIsASeq DEF ToSet, MayEnter, Asleep
  <1>8. /\ \A o \in Ops : Outward(o) /\ (Started(o) => o = next)
        /\ pc'[next] \notin Asleep
    BY <1>1, <1>2, <1>3, <1>6, <1>7, EnterOut
  <1>9. \A c \in Ops : c # op => Feeds(c)
    BY <1>3, <1>6, <1>8, OthersGetNothing
  <1>10. ASSUME kind(op) = "with_retry"
         PROVE  Feeds(op)
    <2>1. \A o \in ToSet(inputs(op)) : Started(o) <=> o = next
      BY <1>4, <1>6, <1>8 DEF Started, Asleep
    <2>2. Latest(op) = inputs(op)[n]
      BY <1>2, <1>5, CountUpTo DEF Latest
    <2>3. pc[inputs(op)[n]] = "done" /\ result[inputs(op)[n]].ok = (n % 2 = 0)
      BY <1>2, <1>10, <2>2 DEF Done
    <2>4. n \in 0 .. Len(inputs(op)) - 1
      BY <1>4, <1>5
    <2>5. QED
      BY <1>2, <2>1, <2>3, <2>4 DEF Feeds
  <1>11. Feeds(op)
    BY <1>10 DEF Feeds
  <1>12. QED
    BY <1>8, <1>9, <1>11 DEF OutStep

\* What a body returns is made of what its operations returned.
LEMMA ReturnsAreMade ==
  ASSUME Steady, NEW op \in Ops, kind(op) \in Scoped, pc[op] \in {"body", "rebuild"}, Spawned(op) # {},
         NEW out \in Returns(op)
  PROVE  /\ Plain(out)
         /\ ~ fatal /\ kind(op) # "wait_for_callback" => \A w : MadeOf(op, out, w)
  <1>1. TypeOK /\ PathFits(op) /\ \A o \in Ops : AtWorkFits(o)
    BY DEF Steady
  <1>2. /\ inputs(op) \in Seq(Ops) /\ DOMAIN inputs(op) = 1 .. Len(inputs(op)) /\ Len(inputs(op)) \in Nat
        /\ inputs(op) # <<>> /\ \A i \in DOMAIN inputs(op) : inputs(op)[i] \in Ops
    BY <1>1, TypedParts, ElementOfSeq DEF Scoped
  <1>3. /\ \A o \in Ops : Done(o) => Plain(result[o])
        /\ ~ fatal => \A o \in Ops : Done(o) => result[o] \in returned[o]
    BY <1>1 DEF AtWorkFits, ResultFits, Done
  <1>4. Head(inputs(op)) = inputs(op)[1] /\ 1 \in DOMAIN inputs(op) /\ Head(inputs(op)) \in Ops
    BY <1>2
  <1>5. CASE kind(op) = "wait_for_callback"
    <2>1. \/ out \in {Refusal, Err("SubmitterFailed")}
          \/ Done(Head(inputs(op))) /\ out = result[Head(inputs(op))]
      BY <1>5 DEF Returns
    <2>2. QED
      BY <1>3, <1>4, <1>5, <2>1, PlainAre
  <1>6. CASE kind(op) = "with_retry"
    <2>1. PICK n \in 0 .. Len(inputs(op)) :
            /\ Spawned(op) = 1 .. n
            /\ \A i \in 1 .. n - 1 : pc[inputs(op)[i]] = "done" /\ result[inputs(op)[i]].ok = (i % 2 = 0)
      BY <1>1, <1>6 DEF PathFits
    <2>2. n \in Nat /\ n # 0 /\ n \in DOMAIN inputs(op) /\ inputs(op)[n] \in Ops
      <3>1. n \in Nat /\ n <= Len(inputs(op))
        BY <1>2
      <3>2. n # 0
        BY <2>1
      <3>3. QED
        BY <1>2, <3>1, <3>2
    <2>3. Cardinality(Spawned(op)) = n
      BY <2>1, <2>2, CountUpTo
    <2>4. Latest(op) = inputs(op)[n]
      BY <2>3 DEF Latest
    <2>5. /\ Done(inputs(op)[n]) /\ out = result[inputs(op)[n]]
          /\ out.ok = (n % 2 = 1) \/ Spawned(op) = DOMAIN inputs(op)
      BY <1>6, <2>3, <2>4 DEF Returns
    <2>6. Spawned(op) = DOMAIN inputs(op) => n = Len(inputs(op))
      BY <1>2, <2>3, CountUpTo
    <2>7. Plain(out)
      BY <1>3, <2>2, <2>5
    <2>8. ASSUME ~ fatal
          PROVE  Tries(op, out)
      <3>1. out \in returned[inputs(op)[n]]
        BY <1>3, <2>2, <2>5, <2>8
      <3>2. ASSUME NEW i \in 1 .. n - 1
            PROVE  \E v \in returned[inputs(op)[i]] : v.ok = (i % 2 = 0)
        <4>1. i \in DOMAIN inputs(op)
          BY <1>2, <2>2
        <4>2. Done(inputs(op)[i]) /\ result[inputs(op)[i]].ok = (i % 2 = 0)
          BY <2>1 DEF Done
        <4>3. result[inputs(op)[i]] \in returned[inputs(op)[i]]
          BY <1>2, <1>3, <2>8, <4>1, <4>2
        <4>4. QED
          BY <4>2, <4>3
      <3>3. n = Len(inputs(op)) \/ out.ok = (n % 2 = 1)
        BY <2>5, <2>6
      <3>4. QED
        BY <2>2, <3>1, <3>2, <3>3 DEF Tries
    <2>9. QED
      BY <1>6, <2>7, <2>8 DEF MadeOf
  <1>7. CASE kind(op) \in {"child", "virtual"}
    <2>1. /\ Done(inputs(op)[1])
          /\ out = IF result[inputs(op)[1]].ok \/ kind(op) = "child" THEN result[inputs(op)[1]]
                   ELSE Err("ChildFailed")
      BY <1>4, <1>7 DEF Returns
    <2>2. Plain(out)
      BY <1>3, <1>4, <2>1, PlainAre
    <2>3. ASSUME ~ fatal
          PROVE  Passes(op, out)
      <3>1. result[inputs(op)[1]] \in returned[inputs(op)[1]]
        BY <1>3, <1>4, <2>1, <2>3
      <3>2. QED
        BY <2>1, <3>1 DEF Passes
    <2>4. QED
      BY <1>7, <2>2, <2>3 DEF MadeOf
  <1>8. QED
    BY <1>5, <1>6, <1>7 DEF Scoped, Scope, Unrecorded

\* An operation finishes or returns, and stops what is inside it.
LEMMA OneStopsOut ==
  ASSUME TypeOK, InvocationFits, NEW op \in Ops, Outward(op), pc[op] \notin Asleep,
         NEW ops \in SUBSET Ops, NEW theirs \in SUBSET Ops, op \notin theirs, Top \notin theirs,
         CloseScopes(ops), \A c \in ops : kind(c) \in Scope => Inside[c] \subseteq theirs,
         NEW next, pc' = [Stopped(theirs) EXCEPT ![op] = next],
         NEW out, result' = [result EXCEPT ![op] = out],
         \A o \in Ops : o # op => returned'[o] = returned[o], UNCHANGED <<record, log>>
  PROVE  OutStep
  <1>1. \A o \in Ops :
          write'[o] = write[o] \/ (o \in theirs /\ write[o].st = "queued" /\ write'[o] = NoWrite)
    BY ClosingDrops
  <1>2. \A o \in Ops : o # op =>
          /\ pc'[o] = IF o \in theirs /\ Unfinished(o) THEN "stopped" ELSE pc[o]
          /\ result'[o] = result[o]
    BY DEF Stopped
  <1>3. ASSUME NEW o \in Ops, o # op
        PROVE  Outward(o) /\ ~ Started(o)
    <2>1. pc'[o] = pc[o] \/ (pc'[o] = "stopped" /\ pc[o] \notin {"off", "done"} /\ o \in theirs)
      BY <1>2, <1>3 DEF Unfinished
    <2>2. pc[o] = "invoked" => o = Top
      BY DEF InvocationFits, Fits, PlaceFits
    <2>3. o \in theirs => pc'[o] \in {"off", "done", "stopped"}
      BY <1>2, <1>3 DEF Unfinished
    <2>4. Idles(o)
      BY <1>1, <1>2, <1>3, <2>1, <2>3 DEF Idles, SameOutcome
    <2>5. ~ Started(o)
      BY <2>1, <2>2 DEF Started, Asleep
    <2>6. QED
      BY <2>4, <2>5 DEF Outward, SameBooks
  <1>4. \A o \in Ops : Outward(o) /\ ~ Started(o)
    BY <1>3 DEF Started
  <1>5. \A o \in Ops : ToSet(inputs(o)) \subseteq Ops
    BY TypedParts
  <1>6. QED
    BY <1>4, <1>5 DEF OutStep, Feeds

LEMMA LiveBodyReturnsOut ==
  ASSUME Steady, NEW op \in Ops, LiveBodyReturns(op)
  PROVE  OutStep
  <1>1. /\ kind(op) \in Scoped /\ kind(op) # "virtual" /\ pc[op] = "body" /\ Spawned(op) # {}
        /\ CloseScopes({op}) /\ pc' = [Stopped(Inside[op]) EXCEPT ![op] = "ran"]
        /\ UNCHANGED <<shape, record, log, returned, reported, crashes, fatal>>
    BY DEF LiveBodyReturns, Running
  <1>2. PICK out \in Returns(op) : result' = [result EXCEPT ![op] = out]
    BY DEF LiveBodyReturns
  <1>3. TypeOK /\ InvocationFits
    BY DEF Steady
  <1>4. Plain(out) /\ (~ fatal /\ kind(op) # "wait_for_callback" => \A w : MadeOf(op, out, w))
    BY <1>1, <1>2, ReturnsAreMade
  <1>5. Inside[op] \in SUBSET Ops /\ op \notin Inside[op] /\ Top \notin Inside[op]
    BY <1>3, InsideIsATree
  <1>6. pc'[op] = "ran" /\ result'[op] = out /\ write'[op] = write[op]
    BY <1>1, <1>2, <1>3, <1>5, ClosingDrops DEF TypeOK, Stopped
  <1>7. out \in Outcomes
    BY <1>1, <1>3, ReturnsAreTyped
  <1>8. ~ fatal /\ kind(op) \in Plainly /\ out.ok => MadeOf(op, At(out, 0), out.at)
    <2>1. out.ok => At(out, 0) = out
      BY <1>4, <1>7, PlainAre
    <2>2. QED
      BY <1>4, <2>1 DEF Plainly
  <1>9. kind(op) \notin Combinator \cup Unrecorded
    BY <1>1 DEF Scoped, Scope, Combinator, Unrecorded
  <1>10. Finishes(op)
    BY <1>1, <1>4, <1>6, <1>8, <1>9 DEF Finishes
  <1>11. Outward(op) /\ pc[op] \notin Asleep
    BY <1>1, <1>10 DEF Outward, SameBooks, Asleep
  <1>12. QED
    BY <1>1, <1>2, <1>3, <1>5, <1>11, OneStopsOut

\* The body that rebuilds its value is that of a context with one.
LEMMA RebuildReturnsOut ==
  ASSUME Steady, NEW op \in Ops, RebuildReturns(op)
  PROVE  OutStep
  <1>1. /\ kind(op) \in Scoped /\ kind(op) # "virtual" /\ pc[op] = "rebuild" /\ Spawned(op) # {}
        /\ CloseScopes({op}) /\ pc' = [Stopped(Inside[op]) EXCEPT ![op] = "done"]
        /\ UNCHANGED <<shape, record, log, crashes, fatal>>
    BY DEF RebuildReturns, Running
  <1>2. PICK out \in Returns(op) :
          /\ result' = [result EXCEPT ![op] = out]
          /\ returned' = IF fatal THEN returned ELSE [returned EXCEPT ![op] = @ \cup {out}]
    BY DEF RebuildReturns
  <1>3. TypeOK /\ InvocationFits /\ KeptFits(op) /\ OutcomeFits(op)
    BY DEF Steady
  <1>4. Plain(out) /\ (~ fatal /\ kind(op) # "wait_for_callback" => \A w : MadeOf(op, out, w))
    BY <1>1, <1>2, ReturnsAreMade
  <1>5. Inside[op] \in SUBSET Ops /\ op \notin Inside[op] /\ Top \notin Inside[op]
    BY <1>3, InsideIsATree
  <1>6. pc'[op] = "done" /\ result'[op] = out /\ write'[op] = write[op]
    BY <1>1, <1>2, <1>3, <1>5, ClosingDrops DEF TypeOK, Stopped
  <1>7. kind(op) # "wait_for_callback"
    <2>1. record[op].children
      BY <1>1, <1>3 DEF KeptFits
    <2>2. Identity(record[op].kind) = "child" /\ record[op].status \in Terminal
      BY <1>3, <2>1 DEF OutcomeFits, SentFits
    <2>3. Fits(op) /\ ~ Mismatched(op) /\ log[op].status \in Terminal
      BY <1>1, <1>3 DEF InvocationFits, Fits, PlaceFits, PhaseFits, Asleep
    <2>4. log[op] = record[op] /\ log[op].kind # "none"
      BY <2>3 DEF Fits, LogFits, Terminal
    <2>5. Identity(kind(op)) = "child"
      BY <2>2, <2>3, <2>4 DEF Mismatched
    <2>6. QED
      BY <2>5 DEF Identity, Combinator
  <1>8. returned'[op] = IF fatal THEN returned[op] ELSE returned[op] \cup {out}
    BY <1>2, <1>3 DEF TypeOK
  <1>9. \A o \in Ops : o # op => returned'[o] = returned[o]
    BY <1>2, <1>3 DEF TypeOK
  <1>10. fatal \/ Justified(op)
    BY <1>1, <1>4, <1>6, <1>7 DEF Justified, Scoped, Scope, Unrecorded
  <1>11. Gives(op)
    BY <1>1, <1>4, <1>6, <1>8, <1>10 DEF Gives
  <1>12. Outward(op) /\ pc[op] \notin Asleep
    BY <1>1, <1>11 DEF Outward, SameBooks, Asleep
  <1>13. QED
    BY <1>1, <1>2, <1>3, <1>5, <1>9, <1>12, OneStopsOut

LEMMA VirtualReturnsOut ==
  ASSUME Steady, NEW op \in Ops, VirtualReturns(op)
  PROVE  OutStep
  <1>1. /\ kind(op) = "virtual" /\ kind(op) \in Scoped /\ pc[op] \in {"body", "rebuild"} /\ Spawned(op) # {}
        /\ UNCHANGED <<record, log, write, fatal>>
    BY DEF VirtualReturns, Running, service
  <1>2. PICK out \in Returns(op) : Return(op, out, {})
    BY DEF VirtualReturns
  <1>3. TypeOK /\ Fits(op) /\ ~ Mismatched(op)
    BY <1>1 DEF Steady, InvocationFits, Fits, PlaceFits, Asleep
  <1>4. Plain(out) /\ (~ fatal => \A w : MadeOf(op, out, w))
    BY <1>1, <1>2, ReturnsAreMade
  <1>5. record[op].kind = "none"
    BY <1>1, <1>3, OwnIsRecorded
  <1>6. fatal \/ (result'[op] = out => Justified(op))
    BY <1>1, <1>4, <1>5 DEF Justified
  <1>7. pc[op] \notin Asleep \cup {"done"}
    BY <1>1 DEF Asleep
  <1>8. QED
    BY <1>1, <1>2, <1>3, <1>4, <1>6, <1>7, OneReturns

LEMMA SettleContextOut ==
  ASSUME Steady, NEW op \in Ops, SettleContext(op)
  PROVE  OutStep
  <1> DEFINE out == result[op]
             summary == kind(op) # "wait_for_callback" /\ Oversized(out)
             action == IF out.ok THEN "SUCCEED" ELSE "FAIL"
             payload == IF summary THEN Nothing ELSE out
             update == [Update(action, payload) EXCEPT !.children = summary]
  <1>1. /\ pc[op] = "ran" /\ kind(op) \in Scope
        /\ SubmitOutcome(op, update, out) \/ SubmitUnserialized(op)
        /\ UNCHANGED <<shape, record, log, returned, reported, crashes, fatal>>
    BY DEF SettleContext
  <1>2. TypeOK /\ AtWorkFits(op)
    BY DEF Steady
  <1>3. kind(op) \notin Combinator /\ kind(op) \notin Select /\ kind(op) \notin Unrecorded
    BY <1>1 DEF Scope, Combinator, Select
  <1>4. out \in Outcomes /\ Plain(out) /\ action \in Answers /\ summary \in BOOLEAN
    <2>1. out \in Outcomes /\ out.ok \in BOOLEAN
      BY <1>2 DEF TypeOK, Outcomes
    <2>2. Plain(out)
      BY <1>2, <1>3 DEF AtWorkFits, ResultFits
    <2>3. QED
      BY <2>1, <2>2 DEF Answers, Oversized, Contains
  <1>5. summary => out.ok /\ action = "SUCCEED" /\ kind(op) \in Plainly /\ out = At(out, 0)
    BY <1>1, <1>4, PlainAre DEF Oversized, Plainly, Contexts
  <1>6. Plain(payload) /\ (~ summary => payload = out)
    BY <1>4, PlainAre
  <1>7. out = result[op]
    OBVIOUS
  <1> HIDE DEF out, summary, action, payload
  <1>8. /\ update.st = "queued" /\ update.action = action /\ update.payload = payload
        /\ update.children = summary
    BY DEF Update, NoWrite
  <1> HIDE DEF update
  <1>9. CASE SubmitUnserialized(op)
    BY <1>1, <1>2, <1>3, <1>9, UnserializedOut
  <1>10. CASE SubmitOutcome(op, update, out)
    BY <1>1, <1>2, <1>3, <1>4, <1>5, <1>6, <1>7, <1>8, <1>10, SubmitsOut
  <1>11. QED
    BY <1>1, <1>9, <1>10

\* A combinator that enters its inputs.
LEMMA CombinatorEntersOut ==
  ASSUME TypeOK, NEW op \in Ops, kind(op) \in Combinator,
         NEW ops \in Seq(Ops), NEW last \in Seq(Ops), NEW next \in {"join", "rejoin"},
         ToSet(ops) \subseteq ToSet(inputs(op)), \A o \in ToSet(ops) : pc[o] = "off",
         EnterWith(ops, last), pc' = [Entered(ops) EXCEPT ![op] = next],
         \/ pc[op] = "inputs" /\ next = "join" /\ ToSet(last) = IF NeedsStart(op) THEN {op} ELSE {}
         \/ pc[op] = "rebuild" /\ next = "rejoin" /\ ToSet(last) = {},
         UNCHANGED <<shape, record, log, returned, reported, crashes>>
  PROVE  OutStep
  <1>1. ToSet(ops) \subseteq Ops /\ op \notin ToSet(ops)
    BY TypedParts, InsideIsATree
  <1>2. /\ pc'[op] = next
        /\ \A o \in Ops : o # op => pc'[o] = IF o \in ToSet(ops) THEN Entry(o) ELSE pc[o]
    BY DEF Entered
  <1>3. \A o \in Ops :
          /\ write'[o] = IF o \in Starting(ops) \/ o \in ToSet(last) THEN Update("START", Nothing)
                         ELSE IF o \in ToSet(ops) THEN NoWrite ELSE write[o]
          /\ result'[o] = IF o \notin ToSet(ops) THEN result[o]
                          ELSE IF Mismatched(o) THEN Refusal ELSE CarriedState(o)
    BY DEF EnterWith
  <1>4. \A o \in Starting(ops) : o \in ToSet(ops)
    BY DEF Starting
  <1>5. Outward(op)
    <2>1. SameBooks(op) /\ SameOutcome(op) /\ op \notin Starting(ops)
      BY <1>1, <1>3, <1>4 DEF SameBooks, SameOutcome
    <2>2. CASE pc[op] = "inputs" /\ next = "join" /\ ToSet(last) = IF NeedsStart(op) THEN {op} ELSE {}
      <3>1. write'[op] = IF NeedsStart(op) THEN Update("START", Nothing) ELSE write[op]
        BY <1>1, <1>3, <2>1, <2>2
      <3>2. QED
        BY <1>2, <2>1, <2>2, <3>1 DEF Outward, Advances
    <2>3. CASE pc[op] = "rebuild" /\ next = "rejoin" /\ ToSet(last) = {}
      <3>1. write'[op] = write[op]
        BY <1>1, <1>3, <2>1, <2>3
      <3>2. QED
        BY <1>2, <2>1, <2>3, <3>1 DEF Outward, Advances
    <2>4. QED
      BY <2>2, <2>3
  <1>6. ASSUME NEW o \in ToSet(ops)
        PROVE  Outward(o)
    <2>1. o \in Ops /\ o # op /\ o \notin ToSet(last)
      BY <1>1
    <2>2. MayEnter(o)
      BY TypedParts DEF MayEnter, Asleep
    <2>3. write'[o] = IF kind(o) \notin Combinator /\ NeedsStart(o) THEN Update("START", Nothing) ELSE NoWrite
      BY <1>3, <2>1 DEF Starting
    <2>4. Enters(o)
      BY <1>2, <1>3, <2>1, <2>2, <2>3 DEF Enters, SameBooks
    <2>5. Mismatched(o) => fatal'
      <3>1. o \in Claimed({o})
        BY DEF Claimed
      <3>2. QED
        BY <3>1, EnteringIsFatal
    <2>6. QED
      BY <2>4, <2>5 DEF Outward, Opens, Enters
  <1>7. ASSUME NEW o \in Ops, o # op, o \notin ToSet(ops)
        PROVE  Outward(o) /\ ~ Started(o)
    <2>1. write'[o] = write[o] /\ result'[o] = result[o] /\ pc'[o] = pc[o]
      BY <1>2, <1>3, <1>4, <1>7
    <2>2. QED
      BY <2>1 DEF Outward, Idles, SameOutcome, SameBooks, Started
  <1>8. \A o \in Ops : Outward(o)
    BY <1>5, <1>6, <1>7
  <1>9. ~ Started(op)
    BY DEF Started, Asleep
  <1>10. \A o \in Ops : Started(o) => o \in ToSet(inputs(op))
    BY <1>7, <1>9
  <1>11. \A o \in Ops : Feeds(o)
    <2>1. \A o \in Ops : o # op => Feeds(o)
      BY <1>10, OthersGetNothing
    <2>2. Feeds(op)
      BY DEF Feeds, Combinator
    <2>3. QED
      BY <2>1, <2>2
  <1>12. QED
    BY <1>8, <1>11 DEF OutStep

LEMMA BeginInputsOut ==
  ASSUME Steady, NEW op \in Ops, BeginInputs(op)
  PROVE  OutStep
  <1> DEFINE last == IF NeedsStart(op) THEN <<op>> ELSE <<>>
  <1>1. /\ kind(op) \in Combinator /\ pc[op] = "inputs" /\ EnterWith(inputs(op), last)
        /\ pc' = [Entered(inputs(op)) EXCEPT ![op] = "join"]
        /\ UNCHANGED <<shape, record, log, returned, reported, crashes>>
    BY DEF BeginInputs
  <1>2. last \in Seq(Ops) /\ ToSet(last) = IF NeedsStart(op) THEN {op} ELSE {}
    <2>1. <<op>> \in Seq(Ops) /\ <<>> \in Seq(Ops) /\ ToSet(<<op>>) = {op} /\ ToSet(<<>>) = {}
      BY SingletonIsASeq DEF ToSet
    <2>2. QED
      BY <2>1
  <1> HIDE DEF last
  <1>3. TypeOK /\ inputs(op) \in Seq(Ops) /\ \A o \in ToSet(inputs(op)) : pc[o] = "off"
    BY <1>1, TypedParts DEF Steady, InvocationFits, InputsWait
  <1>4. QED
    BY <1>1, <1>2, <1>3, CombinatorEntersOut

LEMMA RebuildOut ==
  ASSUME Steady, NEW op \in Ops, Rebuild(op)
  PROVE  OutStep
  <1> DEFINE again == IF kind(op) \in Select THEN <<inputs(op)[log[op].winner]>> ELSE inputs(op)
  <1>1. /\ kind(op) \in Combinator /\ pc[op] = "rebuild" /\ EnterWith(again, <<>>)
        /\ pc' = [Entered(again) EXCEPT ![op] = "rejoin"]
        /\ UNCHANGED <<shape, record, log, returned, reported, crashes>>
    BY DEF Rebuild
  <1>2. /\ TypeOK /\ Fits(op) /\ KeptFits(op)
        /\ inputs(op) \in Seq(Ops) /\ \A o \in ToSet(inputs(op)) : pc[o] = "off"
    BY <1>1, TypedParts DEF Steady, InvocationFits, InputsWait
  <1>3. again \in Seq(Ops) /\ ToSet(again) \subseteq ToSet(inputs(op))
    <2>1. CASE kind(op) \in Select
      <3>1. log[op].winner \in DOMAIN inputs(op)
        BY <1>1, <1>2, <2>1, WinnerIsAnInput DEF Indices
      <3>2. inputs(op)[log[op].winner] \in Ops /\ inputs(op)[log[op].winner] \in ToSet(inputs(op))
        BY <1>2, <3>1 DEF ToSet
      <3>3. /\ <<inputs(op)[log[op].winner]>> \in Seq(Ops)
            /\ ToSet(<<inputs(op)[log[op].winner]>>) = {inputs(op)[log[op].winner]}
        BY <3>2, SingletonIsASeq DEF ToSet
      <3>4. QED
        BY <2>1, <3>2, <3>3
    <2>2. CASE kind(op) \notin Select
      BY <1>2, <2>2
    <2>3. QED
      BY <2>1, <2>2
  <1> HIDE DEF again
  <1>4. <<>> \in Seq(Ops) /\ ToSet(<<>>) = {}
    BY DEF ToSet
  <1>5. QED
    BY <1>1, <1>2, <1>3, <1>4, CombinatorEntersOut

\* What a combinator decides is made of what its inputs returned.
LEMMA DecidedIsMade ==
  ASSUME Steady, NEW op \in Ops, kind(op) \in Combinator, NEW out \in Decided(op)
  PROVE  /\ kind(op) \in Select \/ Plain(out)
         /\ ~ fatal /\ out.ok => MadeOf(op, At(out, 0), out.at)
         /\ kind(op) \notin Select /\ out.ok => At(out, 0) = out
         /\ kind(op) \notin Select /\ ~ out.ok =>
              kind(op) = "try_join_all" /\ \E i \in Indices(op) : Settled(op, i) /\ ~ Outcome(op, i).ok
  <1>1. TypeOK /\ out \in Outcomes /\ \A o \in Ops : AtWorkFits(o)
    BY DecidedIsTyped DEF Steady
  <1>2. /\ DOMAIN inputs(op) = 1 .. Len(inputs(op)) /\ Len(inputs(op)) \in Nat
        /\ \A i \in Indices(op) : inputs(op)[i] \in Ops
    BY <1>1, TypedParts, ElementOfSeq DEF Indices
  <1>3. \A i \in Indices(op) :
          /\ Outcome(op, i) \in Outcomes
          /\ Settled(op, i) => Plain(Outcome(op, i))
          /\ ~ fatal /\ Settled(op, i) => Outcome(op, i) \in returned[inputs(op)[i]]
    BY <1>1, <1>2 DEF AtWorkFits, ResultFits, Settled, Outcome, TypeOK
  <1>4. \A i, e : ~ At(Err(e), i).ok
    BY DEF At, Err
  <1>5. Plain(Collected(op)) /\ Collected(op).ok
    <2>1. \E v : Collected(op) = Ok(v)
      BY DEF Collected
    <2>2. \A v : Ok(v).ok
      BY DEF Ok
    <2>3. QED
      BY <2>1, <2>2, PlainAre
  <1>6. ASSUME ~ fatal, \A i \in Indices(op) : Settled(op, i),
               kind(op) = "try_join_all" => \A i \in Indices(op) : Outcome(op, i).ok
        PROVE  Joins(op, Collected(op))
    <2> DEFINE outs == [i \in DOMAIN inputs(op) |-> Outcome(op, i)]
    <2>1. outs \in [DOMAIN inputs(op) -> Outcomes]
      BY <1>3 DEF Indices
    <2>2. \A i \in DOMAIN inputs(op) :
            outs[i] \in returned[inputs(op)[i]] /\ (kind(op) = "try_join_all" => outs[i].ok)
      BY <1>3, <1>6 DEF Indices
    <2>3. Collected(op) = ValuesOf(outs)
      <3>1. [i \in DOMAIN outs |-> IF outs[i].ok THEN outs[i].of ELSE <<"rejected">>]
              = [i \in Indices(op) |-> IF Outcome(op, i).ok THEN Outcome(op, i).of ELSE <<"rejected">>]
        BY DEF Indices
      <3> HIDE DEF outs
      <3>2. QED
        BY <3>1 DEF Collected, ValuesOf
    <2> HIDE DEF outs
    <2>4. QED
      BY <2>1, <2>2, <2>3 DEF Joins
  <1>7. out = Collected(op) => At(out, 0) = out
    BY <1>1, <1>5, PlainAre
  <1>8. CASE kind(op) = "try_join_all"
    <2> DEFINE failed == {i \in Indices(op) : Settled(op, i) /\ ~ Outcome(op, i).ok}
               won == {i \in Indices(op) : Settled(op, i) /\ Outcome(op, i).ok}
    <2>1. (\E i \in failed : out = At(Err("JoinFailed"), i)) \/ (won = Indices(op) /\ out = Collected(op))
      BY <1>8 DEF Decided, Select
    <2>2. CASE won = Indices(op) /\ out = Collected(op)
      <3>1. ~ fatal => Joins(op, Collected(op))
        BY <1>6, <2>2
      <3>2. QED
        BY <1>5, <1>7, <1>8, <2>2, <3>1 DEF MadeOf
    <2>3. CASE \E i \in failed : out = At(Err("JoinFailed"), i)
      <3>1. PICK i \in failed : out = At(Err("JoinFailed"), i)
        BY <2>3
      <3>2. i \in Indices(op) /\ i \in Nat /\ Settled(op, i) /\ ~ Outcome(op, i).ok
        BY <1>2, <3>1 DEF Indices
      <3>3. ~ out.ok
        BY <1>4, <3>1, <3>2
      <3>4. QED
        BY <1>8, <3>2, <3>3 DEF Plain
    <2>4. QED
      BY <2>1, <2>2, <2>3
  <1>9. CASE kind(op) = "join_all"
    <2>1. AllSettled(op) /\ out = Collected(op)
      BY <1>9 DEF Decided, Select
    <2>2. ~ fatal => Joins(op, Collected(op))
      BY <1>6, <1>9, <2>1 DEF AllSettled
    <2>3. QED
      BY <1>5, <1>7, <1>9, <2>1, <2>2 DEF MadeOf
  <1>10. CASE kind(op) \in Select
    <2> DEFINE failed == {i \in Indices(op) : Settled(op, i) /\ ~ Outcome(op, i).ok}
               won == {i \in Indices(op) : Settled(op, i) /\ Outcome(op, i).ok}
    <2>1. \/ out \in {Err("EmptyInput"), Err("AllFailed")}
          \/ \E i \in won : out = At(Outcome(op, i), i)
          \/ \E i \in failed : out = At(Err("FirstSettledFailed"), i)
      BY <1>10 DEF Decided, Select
    <2>2. ASSUME out.ok
          PROVE  \E i \in won : out = At(Outcome(op, i), i)
      <3>1. out \notin {Err("EmptyInput"), Err("AllFailed")}
        BY <2>2, PlainAre
      <3>2. \A i \in failed : i \in Nat
        BY <1>2 DEF Indices
      <3>3. QED
        BY <1>4, <2>1, <2>2, <3>1, <3>2
    <2>3. ASSUME out.ok, ~ fatal
          PROVE  Wins(op, At(out, 0), out.at)
      <3>1. PICK i \in won : out = At(Outcome(op, i), i)
        BY <2>2, <2>3
      <3>2. i \in Indices(op) /\ Settled(op, i) /\ Outcome(op, i) \in Outcomes
        BY <1>3, <3>1
      <3>3. out.at = i /\ out.ok = Outcome(op, i).ok /\ At(out, 0) = At(Outcome(op, i), 0)
        BY <3>1, <3>2 DEF At, Outcomes
      <3>4. At(Outcome(op, i), 0) = Outcome(op, i)
        BY <1>3, <2>3, <3>2, <3>3, PlainAre
      <3>5. QED
        BY <1>3, <2>3, <3>2, <3>3, <3>4 DEF Wins, Indices
    <2>4. QED
      BY <1>10, <2>3 DEF MadeOf
  <1>11. QED
    BY <1>8, <1>9, <1>10 DEF Combinator, Select

LEMMA JoinReturnsOut ==
  ASSUME Steady, NEW op \in Ops, JoinReturns(op)
  PROVE  OutStep
  <1>1. /\ kind(op) \in Combinator /\ pc[op] = "join" /\ pc' = [pc EXCEPT ![op] = "ran"]
        /\ UNCHANGED <<record, log, write, returned, fatal>>
    BY DEF JoinReturns, service
  <1>2. PICK out \in Decided(op) : result' = [result EXCEPT ![op] = out]
    BY DEF JoinReturns
  <1>3. TypeOK
    BY DEF Steady
  <1>4. /\ kind(op) \in Select \/ Plain(out)
        /\ ~ fatal /\ out.ok => MadeOf(op, At(out, 0), out.at)
    BY <1>1, DecidedIsMade
  <1>5. /\ pc'[op] = "ran" /\ result'[op] = out /\ kind(op) \notin Unrecorded
        /\ \A o \in Ops : o # op => pc'[o] = pc[o] /\ result'[o] = result[o]
    BY <1>1, <1>2, <1>3 DEF TypeOK, Combinator
  <1>6. Finishes(op)
    BY <1>1, <1>4, <1>5 DEF Finishes
  <1>7. Outward(op) /\ ~ Started(op)
    BY <1>1, <1>6 DEF Outward, SameBooks, Started, Asleep
  <1>8. QED
    BY <1>1, <1>3, <1>5, <1>7, OneOutward DEF SameBooks, SameOutcome

\* A loser stops, and what is in its scope.
LEMMA LoserStopsOut ==
  ASSUME Steady, NEW op \in Ops, LoserStops(op)
  PROVE  OutStep
  <1> DEFINE theirs == {op} \cup (IF kind(op) \in Scope THEN Inside[op] ELSE {})
  <1>1. /\ CloseScopes({op}) /\ pc' = Stopped(theirs)
        /\ UNCHANGED <<shape, record, log, result, returned, fatal>>
    BY DEF LoserStops
  <1>2. TypeOK /\ InvocationFits /\ {op} \in SUBSET Ops
    BY DEF Steady
  <1>3. PICK c \in Ops : op \in ToSet(inputs(c))
    BY DEF LoserStops, Abandoned
  <1>4. Top \notin theirs /\ theirs \subseteq Ops
    BY <1>2, <1>3, InsideIsATree
  <1>5. \A o \in Ops :
          write'[o] = write[o] \/ (o \in theirs /\ write[o].st = "queued" /\ write'[o] = NoWrite)
    BY <1>1, <1>2, ClosingDrops
  <1> HIDE DEF theirs
  <1>6. \A o \in Ops : pc'[o] = IF o \in theirs /\ Unfinished(o) THEN "stopped" ELSE pc[o]
    BY <1>1 DEF Stopped
  <1>7. ASSUME NEW o \in Ops
        PROVE  Outward(o) /\ ~ Started(o)
    <2>1. pc'[o] = pc[o] \/ (pc'[o] = "stopped" /\ pc[o] \notin {"off", "done"} /\ o \in theirs)
      BY <1>6 DEF Unfinished
    <2>2. pc[o] = "invoked" => o = Top
      BY <1>2 DEF InvocationFits, Fits, PlaceFits
    <2>3. o \in theirs => pc'[o] \in {"off", "done", "stopped"}
      BY <1>6 DEF Unfinished
    <2>4. Idles(o)
      BY <1>1, <1>5, <2>1, <2>3 DEF Idles, SameOutcome
    <2>5. ~ Started(o)
      BY <1>4, <2>1, <2>2 DEF Started, Asleep
    <2>6. QED
      BY <1>1, <2>4, <2>5 DEF Outward, SameBooks
  <1>8. \A o \in Ops : ToSet(inputs(o)) \subseteq Ops
    BY <1>2, TypedParts
  <1>9. QED
    BY <1>7, <1>8 DEF OutStep, Feeds

LEMMA HandleReturnsOut ==
  ASSUME Steady, NEW op \in Ops, HandleReturns(op)
  PROVE  OutStep
  <1> DEFINE out == result[shape.of[op]]
  <1>1. /\ kind(op) = "handle" /\ pc[op] = "body" /\ pc[shape.of[op]] = "done"
        /\ Return(op, out, {}) /\ UNCHANGED <<record, log, write, fatal>>
    BY DEF HandleReturns, service
  <1>2. /\ TypeOK /\ Fits(op) /\ ~ Mismatched(op) /\ shape.of[op] \in Ops
        /\ AtWorkFits(shape.of[op])
    BY <1>1, TypedParts DEF Steady, InvocationFits, Fits, PlaceFits, Asleep
  <1>3. Plain(out) /\ (~ fatal => out \in returned[shape.of[op]])
    BY <1>1, <1>2 DEF AtWorkFits, ResultFits
  <1> HIDE DEF out
  <1>4. ~ fatal => \A w : MadeOf(op, out, w)
    BY <1>1, <1>3 DEF MadeOf
  <1>5. record[op].kind = "none" /\ kind(op) \in Unrecorded
    BY <1>1, <1>2, OwnIsRecorded
  <1>6. fatal \/ (result'[op] = out => Justified(op))
    BY <1>4, <1>5 DEF Justified
  <1>7. pc[op] \notin Asleep \cup {"done"}
    BY <1>1 DEF Asleep
  <1>8. QED
    BY <1>1, <1>2, <1>3, <1>6, <1>7, OneReturns

LEMMA SettleCombinatorOut ==
  ASSUME Steady, NEW op \in Ops, SettleCombinator(op)
  PROVE  OutStep
  <1>1. /\ pc[op] = "ran" /\ kind(op) \in Combinator
        /\ UNCHANGED <<shape, record, log, returned, reported, crashes, fatal>>
    BY DEF SettleCombinator
  <1>2. TypeOK /\ AtWorkFits(op) /\ kind(op) \notin Unrecorded /\ kind(op) \in Plainly
    BY <1>1 DEF Steady, Combinator, Plainly, Contexts
  <1>3. CASE fatal
    <2>1. /\ pc' = [pc EXCEPT ![op] = "done"] /\ result' = [result EXCEPT ![op] = Err("Internal")]
          /\ UNCHANGED write
      BY <1>3 DEF SettleCombinator
    <2>2. /\ pc'[op] = "done" /\ result'[op] = Err("Internal")
          /\ \A o \in Ops : o # op => pc'[o] = pc[o] /\ result'[o] = result[o]
      BY <1>2, <2>1 DEF TypeOK
    <2>3. Gives(op)
      BY <1>1, <1>3, <2>1, <2>2, PlainAre DEF Gives
    <2>4. Outward(op) /\ ~ Started(op)
      BY <1>1, <2>3 DEF Outward, SameBooks, Started, Asleep
    <2>5. QED
      BY <1>1, <1>2, <2>1, <2>2, <2>4, OneOutward DEF SameBooks, SameOutcome
  <1>4. CASE ~ fatal
    <2> DEFINE action == IF result[op].ok THEN "SUCCEED" ELSE "FAIL"
               large == Oversized(result[op])
               payload == IF large THEN Nothing ELSE Value(op)
               winner == IF large THEN result[op].at ELSE 0
               update == [Update(action, payload) EXCEPT !.children = large, !.winner = winner]
    <2>1. SubmitOutcome(op, CombinatorUpdate(op), Value(op))
      BY <1>4 DEF SettleCombinator
    <2>2. CombinatorUpdate(op) = update
      BY DEF CombinatorUpdate
    <2>3. result[op] \in Outcomes /\ result[op].ok \in BOOLEAN
      BY <1>2 DEF TypeOK, Outcomes
    <2>4. Plain(Value(op)) /\ Plain(payload)
      BY <1>2, <2>3, PlainAre DEF Value, AtWorkFits, ResultFits, Plain
    <2>5. action \in Answers
      BY DEF Answers
    <2>6. large => /\ result[op].ok /\ action = "SUCCEED" /\ Value(op) = At(result[op], 0)
                   /\ winner = result[op].at
      BY DEF Oversized, Value
    <2>7. ~ large => Value(op) = payload
      OBVIOUS
    <2> HIDE DEF action, large, payload, winner
    <2>8. /\ update.st = "queued" /\ update.action = action /\ update.payload = payload
          /\ update.children = large /\ update.winner = winner
      BY DEF Update, NoWrite
    <2> HIDE DEF update
    <2>9. QED
      BY <1>1, <1>2, <1>4, <2>1, <2>2, <2>4, <2>5, <2>6, <2>7, <2>8, SubmitsOut
  <1>5. QED
    BY <1>3, <1>4

LEMMA RejoinReturnsOut ==
  ASSUME Steady, NEW op \in Ops, RejoinReturns(op)
  PROVE  OutStep
  <1>1. /\ pc[op] = "rejoin" /\ UNCHANGED <<record, log, write, fatal>>
    BY DEF RejoinReturns, service
  <1>2. PICK out \in IF kind(op) \in Select
                     THEN {Outcome(op, i) : i \in {j \in {log[op].winner} : Settled(op, j)}}
                     ELSE Decided(op) : Return(op, out, {})
    BY DEF RejoinReturns
  <1>3. TypeOK /\ Fits(op) /\ KeptFits(op) /\ \A o \in Ops : OutcomeFits(o) /\ AtWorkFits(o)
    BY DEF Steady, InvocationFits
  <1>4. kind(op) \in Combinator /\ kind(op) \notin Unrecorded /\ pc[op] \notin Asleep \cup {"done"}
    BY <1>1, <1>3 DEF Fits, PlaceFits, Combinator, Asleep
  <1>5. CASE kind(op) \in Select
    <2>1. log[op].winner \in Indices(op)
      BY <1>1, <1>3, <1>5, WinnerIsAnInput
    <2>2. inputs(op)[log[op].winner] \in Ops
      BY <1>3, <2>1, TypedParts, ElementOfSeq DEF Indices
    <2>3. Settled(op, log[op].winner) /\ out = Outcome(op, log[op].winner)
      BY <1>2, <1>5
    <2>4. Plain(out) /\ (~ fatal => out \in returned[inputs(op)[log[op].winner]])
      BY <1>3, <2>2, <2>3 DEF Settled, Outcome, AtWorkFits, ResultFits
    <2>5. ~ fatal => MadeOf(op, out, log[op].winner)
      BY <1>5, <2>1, <2>4 DEF MadeOf, Wins, Indices
    <2>6. fatal \/ (result'[op] = out => Justified(op))
      BY <1>1, <1>4, <2>5 DEF Justified
    <2>7. QED
      BY <1>1, <1>2, <1>3, <1>4, <2>4, <2>6, OneReturns
  <1>6. CASE kind(op) \notin Select
    <2>1. out \in Decided(op)
      BY <1>2, <1>6
    <2>2. /\ Plain(out)
          /\ ~ fatal /\ out.ok => MadeOf(op, At(out, 0), out.at)
          /\ out.ok => At(out, 0) = out
          /\ ~ out.ok => kind(op) = "try_join_all" /\ \E i \in Indices(op) : Settled(op, i) /\ ~ Outcome(op, i).ok
      BY <1>4, <1>6, <2>1, DecidedIsMade
    \* The join that has a value was of inputs that all succeeded, and do again.
    <2>3. ASSUME ~ fatal
          PROVE  out.ok
      <3> SUFFICES ASSUME ~ out.ok
                   PROVE  FALSE
        OBVIOUS
      <3>1. PICK i \in Indices(op) : Settled(op, i) /\ ~ Outcome(op, i).ok
        BY <2>2
      <3>2. log[op].status \in Terminal /\ ~ Mismatched(op) /\ log[op] = record[op]
        BY <1>1, <1>3 DEF Fits, PhaseFits, PlaceFits, LogFits, Asleep
      <3>3. log[op].kind # "none"
        BY <1>3, <3>2 DEF Fits, LogFits, Terminal
      <3>4. Identity(record[op].kind) = Identity(kind(op))
        BY <3>2, <3>3 DEF Mismatched
      <3>5. record[op].kind = kind(op) /\ record[op].children
        BY <1>1, <1>3, <3>2, <3>3, <3>4 DEF KeptFits
      <3>6. inputs(op)[i] \in Ops /\ inputs(op)[i] \in ToSet(inputs(op))
        BY <1>3, TypedParts, ElementOfSeq DEF Indices, ToSet
      <3>7. PICK v \in returned[inputs(op)[i]] : v.ok
        BY <1>3, <2>2, <3>5, <3>6 DEF OutcomeFits, ValueFits
      <3>8. Outcome(op, i) \in returned[inputs(op)[i]]
        BY <1>3, <2>3, <3>1, <3>6 DEF Settled, Outcome, AtWorkFits, ResultFits
      <3>9. v = Outcome(op, i)
        BY <1>3, <3>6, <3>7, <3>8 DEF OutcomeFits, OnceFits
      <3>10. QED
        BY <3>1, <3>7, <3>9
    <2>4. ~ fatal => \A w : MadeOf(op, out, w)
      BY <1>6, <2>2, <2>3 DEF MadeOf
    <2>5. fatal \/ (result'[op] = out => Justified(op))
      BY <1>1, <1>4, <2>4 DEF Justified
    <2>6. QED
      BY <1>1, <1>2, <1>3, <1>4, <2>2, <2>5, OneReturns
  <1>7. QED
    BY <1>5, <1>6

LEMMA WorkOut ==
  ASSUME Steady, Work
  PROVE  OutStep
  <1>1. CASE HandlerAwaits
    BY <1>1, HandlerAwaitsOut
  <1>2. ASSUME NEW op \in Ops, OperationStep(op)
        PROVE  OutStep
    BY <1>2, ReplayOut, StartRecordedOut, WaitOverOut, BodyReturnsOut, SettleStepOut,
       SettleCheckOut, OutcomeRecordedOut DEF OperationStep
  <1>3. ASSUME NEW op \in Ops, ContextStep(op)
        PROVE  OutStep
    BY <1>3, BodyStartsOut, BodyGoesOnOut, LiveBodyReturnsOut, RebuildReturnsOut,
       VirtualReturnsOut, SettleContextOut DEF ContextStep
  <1>4. ASSUME NEW op \in Ops, CombinatorStep(op)
        PROVE  OutStep
    BY <1>4, BeginInputsOut, RebuildOut, JoinReturnsOut, LoserStopsOut, SettleCombinatorOut,
       RejoinReturnsOut, HandleReturnsOut DEF CombinatorStep
  <1>5. QED
    BY <1>1, <1>2, <1>3, <1>4 DEF Work

\* An operation sleeps no more once it started, and is done once it returned.
LEMMA OutwardIs ==
  ASSUME NEW op \in Ops, Outward(op)
  PROVE  /\ pc[op] # "off" => pc'[op] # "off"
         /\ Started(op) => pc'[op] # "off"
         /\ pc[op] = "done" => pc'[op] = "done" /\ result'[op] = result[op]
         /\ pc'[op] \in Asleep => pc[op] \in Asleep
         /\ returned[op] \subseteq returned'[op]
         /\ kind(op) = "with_retry" /\ pc'[op] \in {"body", "rebuild"} => pc[op] \in {"body", "rebuild"} \cup Asleep
  <1>1. CASE Idles(op)
    BY <1>1 DEF Idles, SameOutcome, Started, Asleep
  <1>2. CASE Opens(op)
    BY <1>2, EntryLeads DEF Opens, Enters, MayEnter, Asleep
  <1>3. CASE Advances(op)
    BY <1>3 DEF Advances, SameOutcome, Asleep
  <1>4. CASE Finishes(op) \/ Submits(op)
    BY <1>4 DEF Finishes, Submits, Asleep
  <1>5. CASE Gives(op)
    BY <1>5 DEF Gives, Asleep
  <1>6. QED
    BY <1>1, <1>2, <1>3, <1>4, <1>5 DEF Outward

InputsSleep(op) == pc[op] \in Asleep => \A o \in ToSet(inputs(op)) : pc[o] = "off"

LEMMA NothingStarts ==
  ASSUME TypeOK, StepFits, NEW op \in Ops, pc[op] \in Asleep
  PROVE  \A o \in ToSet(inputs(op)) : ~ Started(o)
  <1> SUFFICES ASSUME NEW o \in ToSet(inputs(op)), Started(o)
               PROVE  FALSE
    OBVIOUS
  <1>1. o \in Ops /\ o # Top
    BY TypedParts, InsideIsATree
  <1>2. PICK p \in Ops : o \in ToSet(inputs(p)) /\ pc[p] \notin Asleep
    BY <1>1 DEF StepFits
  <1>3. p = op
    BY <1>2, InsideIsATree DEF ToSet
  <1>4. QED
    BY <1>2, <1>3

LEMMA SleepIsKept ==
  ASSUME TypeOK, StepFits, OutStep, NEW op \in Ops, InputsSleep(op)
  PROVE  InputsSleep(op)'
  <1>1. ToSet(inputs(op)) \subseteq Ops /\ inputs(op)' = inputs(op)
    BY TypedParts DEF StepFits, inputs
  <1> SUFFICES ASSUME pc'[op] \in Asleep, NEW o \in ToSet(inputs(op))
               PROVE  pc'[o] = "off"
    BY <1>1 DEF InputsSleep
  <1>2. pc[op] \in Asleep
    BY OutwardIs DEF OutStep
  <1>3. pc[o] = "off" /\ ~ Started(o)
    BY <1>2, NothingStarts DEF InputsSleep
  <1>4. QED
    BY <1>3 DEF Started, Asleep

LEMMA PathIsKept ==
  ASSUME TypeOK, StepFits, OutStep, NEW op \in Ops, InputsSleep(op), PathFits(op)
  PROVE  PathFits(op)'
  <1>1. /\ ToSet(inputs(op)) \subseteq Ops /\ inputs(op)' = inputs(op) /\ kind(op)' = kind(op)
        /\ DOMAIN inputs(op) = 1 .. Len(inputs(op)) /\ Len(inputs(op)) \in Nat
        /\ \A i \in DOMAIN inputs(op) : inputs(op)[i] \in Ops /\ inputs(op)[i] \in ToSet(inputs(op))
    BY TypedParts, ElementOfSeq DEF StepFits, inputs, kind, ToSet
  <1>2. \A o \in Ops : /\ pc'[o] # "off" <=> pc[o] # "off" \/ Started(o)
                       /\ pc[o] = "done" => pc'[o] = "done" /\ result'[o] = result[o]
    BY OutwardIs DEF OutStep, Started, Asleep
  <1>3. Spawned(op)' = {i \in DOMAIN inputs(op) : i \in Spawned(op) \/ Started(inputs(op)[i])}
    BY <1>1, <1>2 DEF Spawned
  <1> SUFFICES ASSUME kind(op) = "with_retry", pc'[op] \in {"body", "rebuild"}
               PROVE  \E n \in 0 .. Len(inputs(op)) :
                        /\ Spawned(op)' = 1 .. n
                        /\ \A i \in 1 .. n - 1 :
                             pc'[inputs(op)[i]] = "done" /\ result'[inputs(op)[i]].ok = (i % 2 = 0)
    BY <1>1 DEF PathFits
  <1>4. pc[op] \in {"body", "rebuild"} \cup Asleep
    BY OutwardIs DEF OutStep
  <1>5. CASE pc[op] \in Asleep
    <2>1. \A i \in DOMAIN inputs(op) : i \notin Spawned(op) /\ ~ Started(inputs(op)[i])
      BY <1>1, <1>5, NothingStarts DEF InputsSleep, Spawned
    <2>2. Spawned(op)' = 1 .. 0
      BY <1>3, <2>1
    <2>3. 0 \in 0 .. Len(inputs(op)) /\ 1 .. 0 - 1 = {}
      BY <1>1
    <2>4. QED
      BY <2>2, <2>3
  <1>6. CASE pc[op] \in {"body", "rebuild"}
    <2>1. PICK n \in 0 .. Len(inputs(op)) :
            /\ Spawned(op) = 1 .. n
            /\ \A i \in 1 .. n - 1 : pc[inputs(op)[i]] = "done" /\ result[inputs(op)[i]].ok = (i % 2 = 0)
      BY <1>6 DEF PathFits
    <2>2. n \in Nat /\ 1 .. n \subseteq DOMAIN inputs(op)
      BY <1>1
    <2>3. \A i \in 1 .. n - 1 : pc'[inputs(op)[i]] = "done" /\ result'[inputs(op)[i]].ok = (i % 2 = 0)
      <3>1. \A i \in 1 .. n - 1 : i \in DOMAIN inputs(op)
        BY <2>2
      <3>2. QED
        BY <1>1, <1>2, <2>1, <3>1
    <2>4. Feeds(op)
      BY DEF OutStep
    <2>5. CASE \A o \in ToSet(inputs(op)) : ~ Started(o)
      <3>1. Spawned(op)' = 1 .. n
        BY <1>1, <1>3, <2>1, <2>2, <2>5
      <3>2. QED
        BY <2>3, <3>1
    <2>6. CASE \E m \in 0 .. Len(inputs(op)) - 1 :
                 /\ Spawned(op) = 1 .. m
                 /\ m > 0 => pc[inputs(op)[m]] = "done" /\ result[inputs(op)[m]].ok = (m % 2 = 0)
                 /\ \A o \in ToSet(inputs(op)) : Started(o) <=> o = inputs(op)[m + 1]
      <3>1. PICK m \in 0 .. Len(inputs(op)) - 1 :
               /\ Spawned(op) = 1 .. m
               /\ m > 0 => pc[inputs(op)[m]] = "done" /\ result[inputs(op)[m]].ok = (m % 2 = 0)
               /\ \A o \in ToSet(inputs(op)) : Started(o) <=> o = inputs(op)[m + 1]
        BY <2>6
      <3>2. m \in Nat /\ m + 1 \in DOMAIN inputs(op) /\ m + 1 \in 0 .. Len(inputs(op)) /\ m + 1 - 1 = m
        BY <1>1
      <3>3. m = n
        BY <2>1, <2>2, <3>1, <3>2, CountUpTo
      <3>4. \A i \in DOMAIN inputs(op) : Started(inputs(op)[i]) <=> i = m + 1
        BY <1>1, <3>1, <3>2, InsideIsATree
      <3>5. Spawned(op)' = 1 .. m + 1
        <4>1. \A i \in DOMAIN inputs(op) : i \in Spawned(op)' <=> i \in 1 .. m \/ i = m + 1
          BY <1>3, <3>1, <3>4
        <4>2. Spawned(op)' \subseteq DOMAIN inputs(op)
          BY <1>3
        <4>3. 1 .. m + 1 = {i \in DOMAIN inputs(op) : i \in 1 .. m \/ i = m + 1}
          BY <1>1, <3>2
        <4>4. QED
          BY <4>1, <4>2, <4>3
      <3>6. \A i \in 1 .. m : pc'[inputs(op)[i]] = "done" /\ result'[inputs(op)[i]].ok = (i % 2 = 0)
        <4> SUFFICES ASSUME NEW i \in 1 .. m
                     PROVE  pc'[inputs(op)[i]] = "done" /\ result'[inputs(op)[i]].ok = (i % 2 = 0)
          OBVIOUS
        <4>1. CASE i # m
          BY <2>3, <3>2, <3>3, <4>1
        <4>2. CASE i = m
          <5>1. m > 0 /\ m \in DOMAIN inputs(op)
            BY <1>1, <3>2, <4>2
          <5>2. pc[inputs(op)[m]] = "done" /\ result[inputs(op)[m]].ok = (m % 2 = 0)
            BY <3>1, <5>1
          <5>3. QED
            BY <1>1, <1>2, <4>2, <5>1, <5>2
        <4>3. QED
          BY <4>1, <4>2
      <3>7. QED
        BY <3>2, <3>5, <3>6
    <2>7. QED
      BY <1>6, <2>4, <2>5, <2>6 DEF Feeds
  <1>7. QED
    BY <1>4, <1>5, <1>6

OutInv ==
  /\ IInv
  /\ \A op \in Ops : OutcomeFits(op)
  /\ AtWork => \A op \in Ops : AtWorkFits(op) /\ PathFits(op) /\ InputsSleep(op)
  /\ pc[Top] = "off" => ~ fatal /\ \A op \in Ops : result[op] = Nothing

LEMMA InitOut ==
  ASSUME Init
  PROVE  OutInv
  <1>1. IInv
    BY InitFits
  <1>2. \A op \in Ops : /\ record[op] = NoRecord /\ log[op] = NoRecord /\ write[op] = NoWrite
                        /\ returned[op] = {} /\ result[op] = Nothing /\ pc[op] = "off"
    BY DEF Init
  <1>3. /\ Plain(NoRecord.payload) /\ ~ NoRecord.children
        /\ Plain(NoWrite.payload) /\ ~ NoWrite.children /\ NoWrite.st = "none"
    BY PlainAre, NoWriteIs DEF NoRecord
  <1>4. \A op \in Ops : OutcomeFits(op)
    BY <1>2, <1>3 DEF OutcomeFits, SentFits, OnceFits, ValueFits
  <1>5. ~ AtWork /\ ~ fatal
    BY <1>2, RecordsAssumption DEF AtWork, Init
  <1>6. QED
    BY <1>1, <1>2, <1>4, <1>5 DEF OutInv

LEMMA WorkKeepsOut ==
  ASSUME OutInv, Work, IInv'
  PROVE  OutInv'
  <1>1. IInv /\ AtWork /\ Top \in Ops
    BY WorkIsAtWork, RecordsAssumption DEF OutInv
  <1>2. Steady
    BY <1>1 DEF OutInv, IInv, Steady
  <1>3. TypeOK /\ TypeOK' /\ InvocationFits /\ StepFits /\ OutStep
    BY <1>1, <1>2, WorkFits, WorkOut DEF IInv, Steady
  <1>4. shape' = shape /\ (fatal => fatal') /\ \A o \in Ops : returned[o] \subseteq returned'[o]
    BY <1>3, OutwardIs DEF StepFits, OutStep
  <1>5. ASSUME NEW op \in Ops
        PROVE  OutcomeFits(op)' /\ AtWorkFits(op)'
    <2>1. kind(op) \in {"child", "virtual"} => inputs(op) # <<>>
      BY <1>3, TypedParts DEF Scope
    <2>2. Fits(op) /\ KeptFits(op) /\ AtWorkFits(op) /\ \A o \in Ops : OutcomeFits(o)
      BY <1>2 DEF Steady, InvocationFits
    <2>3. Outward(op)
      BY <1>3 DEF OutStep
    <2>4. QED
      BY <1>3, <1>4, <2>1, <2>2, <2>3, IdlesKeeps, OpensKeeps, AdvancesKeeps, FinishesKeeps, SubmitsKeeps,
         GivesKeeps DEF Outward
  <1>6. \A op \in Ops : PathFits(op)' /\ InputsSleep(op)'
    BY <1>1, <1>3, PathIsKept, SleepIsKept DEF OutInv
  <1>7. pc'[Top] # "off"
    BY <1>1, <1>3, OutwardIs DEF OutStep, AtWork
  <1>8. QED
    BY <1>5, <1>6, <1>7 DEF OutInv

LEMMA ServiceKeepsOut ==
  ASSUME OutInv, Service, IInv'
  PROVE  OutInv'
  <1>1. IInv /\ TypeOK /\ RecordsFit /\ \A op \in Ops : OutcomeFits(op)
    BY DEF OutInv, IInv
  <1>2. ServiceStep
    BY <1>1, ServiceServes DEF OutcomeFits
  <1>3. UNCHANGED <<shape, pc, result, returned, fatal>>
    BY <1>2 DEF ServiceStep
  <1>4. \A op \in Ops : OutcomeFits(op)'
    BY <1>1, <1>2, ServesKeeps DEF RecordsFit
  <1>5. ASSUME AtWork, NEW op \in Ops
        PROVE  AtWorkFits(op)' /\ PathFits(op)' /\ InputsSleep(op)'
    <2>1. Fits(op) /\ AtWorkFits(op) /\ PathFits(op) /\ InputsSleep(op)
      BY <1>1, <1>5 DEF OutInv, IInv, InvocationFits
    <2>2. AtWorkFits(op)'
      BY <1>1, <1>2, <2>1, ServesKeepsWork
    <2>3. PathFits(op)' /\ InputsSleep(op)'
      BY <1>3, <2>1 DEF PathFits, InputsSleep, Spawned, kind, inputs
    <2>4. QED
      BY <2>2, <2>3
  <1>6. AtWork' = AtWork
    BY <1>3 DEF AtWork
  <1>7. QED
    BY <1>3, <1>4, <1>5, <1>6 DEF OutInv

\* Nothing that was returned changes when an invocation ends.
LEMMA SameOutcomesFit ==
  ASSUME OutInv, UNCHANGED <<shape, record, log, returned>>,
         \A op \in Ops : write'[op] \in {write[op], NoWrite}
  PROVE  \A op \in Ops : OutcomeFits(op)'
  <1> SUFFICES ASSUME NEW op \in Ops
               PROVE  OutcomeFits(op)'
    OBVIOUS
  <1>1. kind(op)' = kind(op) /\ inputs(op)' = inputs(op) /\ shape' = shape /\ OutcomeFits(op)
    BY DEF kind, inputs, OutInv
  <1>2. \A out, w : MadeOf(op, out, w) => MadeOf(op, out, w)'
    <2>1. \A out, w : MadeOf(op, out, w)' = MadeOf(op, out, w)
      BY <1>1 DEF MadeOf, Passes, Tries, Wins, Joins
    <2>2. QED
      BY <2>1
  <1>3. write'[op] = write[op] \/ (~ write'[op].children /\ write'[op].st = "none" /\ Plain(write'[op].payload))
    BY NoWriteIs, PlainAre
  <1>4. SentFits(op)'
    BY <1>1, <1>3 DEF OutcomeFits, SentFits
  <1>5. OnceFits(op)' /\ ValueFits(op)'
    BY <1>1, <1>2, <1>3 DEF OutcomeFits, OnceFits, ValueFits
  <1>6. QED
    BY <1>4, <1>5 DEF OutcomeFits

LEMMA EndKeepsOut ==
  ASSUME OutInv, EndInvocation, IInv'
  PROVE  OutInv'
  <1>1. /\ UNCHANGED <<shape, record, log, returned>> /\ fatal' = FALSE
        /\ \A op \in Ops : write'[op] = NoWrite /\ result'[op] = Nothing /\ pc'[op] = "off"
    BY DEF EndInvocation
  <1>2. \A op \in Ops : OutcomeFits(op)'
    BY <1>1, SameOutcomesFit
  <1>3. ~ AtWork'
    BY <1>1, RecordsAssumption DEF AtWork
  <1>4. QED
    BY <1>1, <1>2, <1>3 DEF OutInv

LEMMA FailKeepsOut ==
  ASSUME OutInv, FailExecution, IInv'
  PROVE  OutInv'
  <1>1. UNCHANGED <<shape, record, log, write, returned>> /\ pc'[Top] = "failed"
    BY RecordsAssumption DEF FailExecution, service
  <1>2. \A op \in Ops : OutcomeFits(op)'
    BY <1>1, SameOutcomesFit
  <1>3. ~ AtWork'
    BY <1>1 DEF AtWork
  <1>4. QED
    BY <1>1, <1>2, <1>3 DEF OutInv

\* An operation that is another one now has a record that says so, if it
\* returned anything.
LEMMA InvokeKeepsOut ==
  ASSUME OutInv, Invoke, IInv'
  PROVE  OutInv'
  <1>1. IInv /\ TypeOK /\ Top \in Ops
    BY RecordsAssumption DEF OutInv, IInv
  <1>2. /\ pc[Top] = "off" /\ log' = record /\ pc' = [pc EXCEPT ![Top] = "invoked"]
        /\ shape' \in {shape, [shape EXCEPT !.kind = shape.becomes]}
        /\ UNCHANGED <<record, write, queue, result, returned, reported, crashes, fatal>>
    BY DEF Invoke
  <1>3. \A op \in Ops : pc[op] = "off" /\ write[op] = NoWrite /\ result[op] = Nothing
    BY <1>1, <1>2 DEF OutInv, IInv, Idle
  <1>4. pc'[Top] = "invoked" /\ \A op \in Ops : op # Top => pc'[op] = "off"
    BY <1>1, <1>2, <1>3 DEF TypeOK
  <1>5. /\ \A op \in Ops : inputs(op)' = inputs(op) /\ (kind(op)' = kind(op) \/ kind(op)' = shape.becomes[op])
        /\ shape'.of = shape.of
    <2>1. shape \in Shape
      BY <1>1, ShapeIsWellMade
    <2>2. QED
      BY <1>2, <2>1 DEF Shape, inputs, kind
  <1>6. ASSUME NEW op \in Ops
        PROVE  OutcomeFits(op)' /\ AtWorkFits(op)' /\ PathFits(op)' /\ InputsSleep(op)'
    <2>1. OutcomeFits(op) /\ KeptFits(op) /\ RecordFits(op)
      BY <1>1 DEF OutInv, IInv, RecordsFit
    <2>2. /\ write'[op] = NoWrite /\ ~ write'[op].children /\ write'[op].st = "none" /\ Plain(write'[op].payload)
          /\ log'[op] = record[op] /\ record'[op] = record[op] /\ returned'[op] = returned[op]
      BY <1>2, <1>3, NoWriteIs, PlainAre
    <2>3. SentFits(op)'
      BY <2>1, <2>2 DEF OutcomeFits, SentFits
    <2>4. OnceFits(op)' /\ ValueFits(op)'
      <3>1. CASE kind(op)' = kind(op)
        <4>1. \A out, w : MadeOf(op, out, w) => MadeOf(op, out, w)'
          <5>1. returned' = returned /\ inputs(op)' = inputs(op) /\ shape'.of = shape.of
            BY <1>2, <1>5
          <5>2. \A out, w : MadeOf(op, out, w)' = MadeOf(op, out, w)
            BY <3>1, <5>1 DEF MadeOf, Passes, Tries, Wins, Joins
          <5>3. QED
            BY <5>2
        <4>2. returned' = returned /\ inputs(op)' = inputs(op)
          BY <1>2, <1>5
        <4>3. QED
          BY <2>1, <2>2, <3>1, <4>1, <4>2 DEF OutcomeFits, OnceFits, ValueFits
      <3>2. CASE kind(op)' # kind(op)
        <4>1. kind(op) \notin Unrecorded /\ shape.becomes[op] # kind(op)
          BY <1>1, <1>5, <3>2, ChangesAreDetected
        <4>2. record[op].kind \in {"none", kind(op)}
          BY <2>1, <4>1 DEF KeptFits
        <4>3. record[op].status \in Terminal => record[op].kind # "none"
          BY <2>1 DEF RecordFits, Terminal
        <4>4. \A out \in returned[op] : record[op].status \in Terminal
          BY <2>1, <4>1 DEF OutcomeFits, OnceFits
        <4>5. OnceFits(op)'
          BY <2>1, <2>2, <4>1 DEF OutcomeFits, OnceFits
        <4>6. record[op].children => record[op].kind # kind(op)'
          BY <2>1, <3>2, <4>2, <4>3 DEF OutcomeFits, SentFits
        <4>7. returned'[op] # {} => record'[op].kind # "none"
          BY <2>2, <4>3, <4>4
        <4>8. ValueFits(op)'
          BY <2>2, <4>6, <4>7 DEF ValueFits
        <4>9. QED
          BY <4>5, <4>8
      <3>3. QED
        BY <3>1, <3>2
    <2>5. pc'[op] \in Asleep
      BY <1>4 DEF Asleep
    <2>6. ResultFits(op)'
      <3>1. Plain(result'[op])
        BY <1>2, <1>3, PlainAre
      <3>2. kind(op)' \notin Unrecorded /\ returned'[op] # {} => log'[op].status \in Terminal
        BY <2>2, <2>4 DEF OnceFits
      <3>3. QED
        BY <2>5, <3>1, <3>2 DEF ResultFits, Live, Asleep
    <2>7. BodyFits(op)' /\ PathFits(op)'
      BY <2>5 DEF BodyFits, PathFits, Asleep
    <2>8. InputsSleep(op)'
      <3>1. \A o \in ToSet(inputs(op)) : o \in Ops /\ o # Top
        BY <1>1, TypedParts, InsideIsATree
      <3>2. QED
        BY <1>4, <1>5, <3>1 DEF InputsSleep
    <2>9. QED
      BY <2>3, <2>4, <2>6, <2>7, <2>8 DEF OutcomeFits, AtWorkFits
  <1>7. QED
    BY <1>4, <1>6 DEF OutInv

LEMMA NextKeepsOut ==
  ASSUME OutInv, [Next]_vars
  PROVE  OutInv'
  <1>1. IInv'
    BY NextIsKept DEF OutInv
  <1>2. CASE Work
    BY <1>1, <1>2, WorkKeepsOut
  <1>3. CASE Service
    BY <1>1, <1>3, ServiceKeepsOut
  <1>4. CASE Crash \/ Suspend
    BY <1>1, <1>4, EndKeepsOut DEF Crash, Suspend
  <1>5. CASE FailExecution
    BY <1>1, <1>5, FailKeepsOut
  <1>6. CASE Invoke
    BY <1>1, <1>6, InvokeKeepsOut
  <1>7. CASE UNCHANGED vars
    <2>1. UNCHANGED <<shape, record, log, write, pc, result, returned, fatal>>
      BY <1>7 DEF vars, service
    <2>2. \A op \in Ops : OutcomeFits(op)'
      BY <2>1, SameOutcomesFit
    <2>3. \A op \in Ops : AtWorkFits(op)' = AtWorkFits(op) /\ PathFits(op)' = PathFits(op) /\ InputsSleep(op)' = InputsSleep(op)
      BY <2>1 DEF AtWorkFits, ResultFits, BodyFits, PathFits, InputsSleep, Spawned, MadeOf, Passes, Tries, Wins, Joins,
                  kind, inputs
    <2>4. AtWork' = AtWork
      BY <2>1 DEF AtWork
    <2>5. QED
      BY <1>1, <2>1, <2>2, <2>3, <2>4 DEF OutInv
  <1>8. QED
    BY <1>2, <1>3, <1>4, <1>5, <1>6, <1>7 DEF Next

LEMMA AlwaysOut ==
  Spec => []OutInv
  <1>1. Init => OutInv
    BY InitOut
  <1>2. OutInv /\ [Next]_vars => OutInv'
    BY NextKeepsOut
  <1>3. QED
    BY <1>1, <1>2, PTL DEF Spec

\* The kinds of error an operation returned are those of what recorded it.
Tells(out) == out.of \in {<<error>> : error \in Reserved}
KindsFit(op) ==
  reported[op] # {} =>
    /\ record[op].status \in Terminal
    /\ \E out \in returned[op] : Tells(out) \/ reported[op] \subseteq Usual(record[op].kind)
KindInv == \A op \in Ops : KindsFit(op)

Reports(op, out, kinds) ==
  kinds # {} =>
    /\ kind(op) \notin Unrecorded /\ record[op].kind = kind(op)
    /\ Tells(out) \/ kinds \subseteq Usual(kind(op))
ReportStep ==
  /\ UNCHANGED shape
  /\ \A op \in Ops :
       /\ returned[op] \subseteq returned'[op]
       /\ record[op].status \in Terminal => record'[op].status \in Terminal /\ record'[op].kind = record[op].kind
       /\ \/ reported'[op] = reported[op]
          \/ \E out, kinds : /\ reported'[op] = reported[op] \cup kinds /\ out \in returned'[op]
                             /\ record'[op].kind = record[op].kind
                             /\ Reports(op, out, kinds)

LEMMA KindsAreUsual ==
  ASSUME NEW op \in Ops, NEW out, kind(op) \notin Unrecorded => record[op].kind = kind(op)
  PROVE  Reports(op, out, BodyKind(op, out)) /\ Reports(op, out, ReplayedKind(op, out))
  <1>1. Usual(kind(op)) # {} => kind(op) \notin Unrecorded
    BY DEF Usual
  <1>2. Reports(op, out, BodyKind(op, out))
    BY <1>1 DEF Reports, BodyKind
  <1>3. Reports(op, out, ReplayedKind(op, out))
    <2>1. CASE out.of \in {<<error>> : error \in Reserved}
      <3>1. Usual(kind(op)) = {} => ReplayedKind(op, out) = {}
        BY DEF ReplayedKind
      <3>2. QED
        BY <1>1, <2>1, <3>1 DEF Reports, Tells
    <2>2. CASE out.of \notin {<<error>> : error \in Reserved}
      <3>1. out.of # <<"SerializationError">> /\ out.of # <<"StepInterruptedError">>
        BY <2>2 DEF Reserved
      <3>2. ReplayedKind(op, out) \in {{}, Usual(kind(op))}
        BY <3>1 DEF ReplayedKind
      <3>3. QED
        BY <1>1, <3>2 DEF Reports
    <2>3. QED
      BY <2>1, <2>2
  <1>4. QED
    BY <1>2, <1>3

\* The record of an operation that is no other's.
LEMMA RecordIsOwn ==
  ASSUME Steady, NEW op \in Ops, ~ Mismatched(op), record[op].status \in Terminal
  PROVE  record[op].kind = kind(op)
  <1>1. Fits(op) /\ KeptFits(op)
    BY DEF Steady, InvocationFits
  <1>2. record[op].kind # "none"
    BY <1>1 DEF Fits, RecordFits, Terminal
  <1>3. log[op].kind # "none" => Identity(record[op].kind) = Identity(kind(op))
    BY <1>1, <1>2 DEF Mismatched, Fits, LogFits
  <1>4. QED
    BY <1>1, <1>2, <1>3 DEF Fits, LogFits, KeptFits

LEMMA OneReports ==
  ASSUME TypeOK, NEW op \in Ops, NEW out, NEW kinds, Return(op, out, kinds), UNCHANGED <<shape, record>>,
         Reports(op, out, kinds)
  PROVE  ReportStep
  <1>1. CASE fatal
    BY <1>1 DEF Return, ReportStep
  <1>2. CASE ~ fatal
    <2>1. /\ reported'[op] = reported[op] \cup kinds /\ returned'[op] = returned[op] \cup {out}
          /\ \A o \in Ops : o # op => reported'[o] = reported[o] /\ returned'[o] = returned[o]
      BY <1>2 DEF Return, TypeOK
    <2>2. QED
      BY <2>1 DEF ReportStep
  <1>3. QED
    BY <1>1, <1>2

LEMMA OperationReports ==
  ASSUME Steady, NEW op \in Ops, OperationStep(op)
  PROVE  ReportStep
  <1>1. TypeOK /\ Fits(op) /\ OutcomeFits(op)
    BY DEF Steady, InvocationFits
  <1>2. CASE Replay(op)
    <2>1. pc[op] = "replay" /\ UNCHANGED <<shape, record>>
          /\ Return(op, log[op].payload, ReplayedKind(op, log[op].payload))
      BY <1>2 DEF Replay, service
    <2>2. log[op].status \in Terminal /\ ~ Mismatched(op) /\ log[op] = record[op]
      BY <1>1, <2>1 DEF Fits, PhaseFits, PlaceFits, LogFits, Asleep
    <2>3. record[op].kind = kind(op)
      BY <2>2, RecordIsOwn
    <2>4. QED
      BY <1>1, <2>1, <2>3, KindsAreUsual, OneReports
  <1>3. CASE WaitOver(op)
    <2>1. CASE kind(op) = "condition"
      BY <1>3, <2>1 DEF WaitOver, ReportStep
    <2>2. CASE kind(op) # "condition"
      <3>1. Return(op, log[op].payload, {}) /\ UNCHANGED <<shape, record>>
        BY <1>3, <2>2 DEF WaitOver, service
      <3>2. QED
        BY <1>1, <3>1, OneReports DEF Reports
    <2>3. QED
      BY <2>1, <2>2
  <1>4. CASE OutcomeRecorded(op)
    <2>1. pc[op] = "settling" /\ write[op].st = "answered" /\ UNCHANGED <<shape, record>>
      BY <1>4 DEF OutcomeRecorded, service
    <2>2. CASE write[op].action = "RETRY"
      BY <1>4, <2>1, <2>2 DEF OutcomeRecorded, ReportStep
    <2>3. CASE write[op].action # "RETRY"
      <3>1. write[op].action \in Final
        BY <1>1, <2>1, <2>3 DEF Fits, PhaseFits, Answers, Final
      <3>2. record[op].status \in Terminal /\ ~ Mismatched(op)
        BY <1>1, <2>1, <3>1 DEF OutcomeFits, SentFits, Fits, PlaceFits, Asleep
      <3>3. record[op].kind = kind(op)
        BY <3>2, RecordIsOwn
      <3>4. \/ Return(op, write[op].payload, ReplayedKind(op, write[op].payload))
            \/ Return(op, result[op], BodyKind(op, result[op]))
        BY <1>4, <2>3 DEF OutcomeRecorded
      <3>5. QED
        BY <1>1, <2>1, <3>3, <3>4, KindsAreUsual, OneReports
    <2>4. QED
      BY <2>2, <2>3
  <1>5. CASE StartRecorded(op) \/ BodyReturns(op) \/ SettleStep(op) \/ SettleCheck(op)
    BY <1>5 DEF StartRecorded, BodyReturns, SettleStep, SettleCheck, service, ReportStep
  <1>6. QED
    BY <1>2, <1>3, <1>4, <1>5 DEF OperationStep

LEMMA ContextReports ==
  ASSUME Steady, NEW op \in Ops, ContextStep(op)
  PROVE  ReportStep
  <1>1. TypeOK /\ Fits(op) /\ OutcomeFits(op)
    BY DEF Steady, InvocationFits
  <1>2. CASE RebuildReturns(op)
    <2>1. /\ pc[op] = "rebuild" /\ UNCHANGED <<shape, record, fatal>>
      BY <1>2 DEF RebuildReturns
    <2>2. PICK out :
            /\ returned' = IF fatal THEN returned ELSE [returned EXCEPT ![op] = @ \cup {out}]
            /\ reported' = IF fatal THEN reported ELSE [reported EXCEPT ![op] = @ \cup BodyKind(op, out)]
      BY <1>2 DEF RebuildReturns
    <2>3. log[op].status \in Terminal /\ ~ Mismatched(op) /\ log[op] = record[op]
      BY <1>1, <2>1 DEF Fits, PhaseFits, PlaceFits, LogFits, Asleep
    <2>4. record[op].kind = kind(op)
      BY <2>3, RecordIsOwn
    <2>5. Reports(op, out, BodyKind(op, out))
      BY <2>4, KindsAreUsual
    <2>6. CASE fatal
      BY <2>1, <2>2, <2>6 DEF ReportStep
    <2>7. CASE ~ fatal
      <3>1. /\ reported'[op] = reported[op] \cup BodyKind(op, out) /\ returned'[op] = returned[op] \cup {out}
            /\ \A o \in Ops : o # op => reported'[o] = reported[o] /\ returned'[o] = returned[o]
        BY <1>1, <2>2, <2>7 DEF TypeOK
      <3>2. QED
        BY <2>1, <2>5, <3>1 DEF ReportStep
    <2>8. QED
      BY <2>6, <2>7
  <1>3. CASE VirtualReturns(op)
    <2>1. UNCHANGED <<shape, record>> /\ \E out : Return(op, out, {})
      BY <1>3 DEF VirtualReturns, service
    <2>2. QED
      BY <1>1, <2>1, OneReports DEF Reports
  <1>4. CASE BodyStarts(op) \/ BodyGoesOn(op) \/ LiveBodyReturns(op) \/ SettleContext(op)
    BY <1>4 DEF BodyStarts, BodyGoesOn, LiveBodyReturns, SettleContext, ReportStep
  <1>5. QED
    BY <1>2, <1>3, <1>4 DEF ContextStep

LEMMA CombinatorReports ==
  ASSUME Steady, NEW op \in Ops, CombinatorStep(op)
  PROVE  ReportStep
  <1>1. TypeOK
    BY DEF Steady
  <1>2. CASE RejoinReturns(op) \/ HandleReturns(op)
    <2>1. UNCHANGED <<shape, record>> /\ \E out : Return(op, out, {})
      BY <1>2 DEF RejoinReturns, HandleReturns, service
    <2>2. QED
      BY <1>1, <2>1, OneReports DEF Reports
  <1>3. CASE BeginInputs(op) \/ Rebuild(op) \/ JoinReturns(op) \/ LoserStops(op) \/ SettleCombinator(op)
    BY <1>3 DEF BeginInputs, Rebuild, JoinReturns, LoserStops, SettleCombinator, service, ReportStep
  <1>4. QED
    BY <1>2, <1>3 DEF CombinatorStep

LEMMA ServiceReports ==
  ASSUME OutInv, Service
  PROVE  ReportStep
  <1>1. TypeOK /\ RecordsFit /\ \A op \in Ops : OutcomeFits(op)
    BY DEF OutInv, IInv
  <1>2. ServiceStep
    BY <1>1, ServiceServes DEF OutcomeFits
  <1>3. UNCHANGED <<shape, returned, reported>>
    BY DEF Service, RecordUpdate, AnswerWrite, Refresh, FireTimer, Deliver
  <1>4. ASSUME NEW op \in Ops, record[op].status \in Terminal
        PROVE  record'[op] = record[op]
    <2>1. Serves(op)
      BY <1>2 DEF ServiceStep
    <2>2. ~ IsRecorded(op)
      BY <1>1, <1>4 DEF IsRecorded, Valid, Terminal
    <2>3. ~ IsServed(op)
      BY <1>4 DEF IsServed, Terminal
    <2>4. QED
      BY <2>1, <2>2, <2>3 DEF Serves, Stays, SameBooks, IsAnswered, IsRefreshed
  <1>5. QED
    BY <1>3, <1>4 DEF ReportStep

\* An operation returns errors of one kind, for it returns one outcome.
LEMMA ReportsKeep ==
  ASSUME OutInv, OutInv', KindInv, ReportStep
  PROVE  KindInv'
  <1> SUFFICES ASSUME NEW op \in Ops, reported'[op] # {}
               PROVE  /\ record'[op].status \in Terminal
                      /\ \E out \in returned'[op] : Tells(out) \/ reported'[op] \subseteq Usual(record'[op].kind)
    BY DEF KindInv, KindsFit
  <1>1. /\ record[op].status \in Terminal => record'[op].status \in Terminal /\ record'[op].kind = record[op].kind
        /\ shape' = shape /\ KindsFit(op)
    BY DEF ReportStep, KindInv
  <1>2. OnceFits(op)' /\ returned[op] \subseteq returned'[op]
    BY DEF OutInv, OutcomeFits, ReportStep
  <1>3. CASE reported'[op] = reported[op]
    BY <1>1, <1>2, <1>3 DEF KindsFit
  <1>4. CASE reported'[op] # reported[op]
    <2>1. PICK out, kinds : /\ reported'[op] = reported[op] \cup kinds /\ out \in returned'[op]
                            /\ record'[op].kind = record[op].kind /\ Reports(op, out, kinds)
      BY <1>4 DEF ReportStep
    <2>2. kind(op) \notin Unrecorded /\ record[op].kind = kind(op) /\ (Tells(out) \/ kinds \subseteq Usual(kind(op)))
      BY <1>4, <2>1 DEF Reports
    <2>3. record'[op].status \in Terminal /\ returned'[op] = {out}
      BY <1>1, <1>2, <2>1, <2>2 DEF OnceFits, kind
    <2>4. reported[op] # {} => Tells(out) \/ reported[op] \subseteq Usual(record[op].kind)
      BY <1>1, <1>2, <2>3 DEF KindsFit
    <2>5. QED
      BY <2>1, <2>2, <2>3, <2>4
  <1>5. QED
    BY <1>3, <1>4

LEMMA NextKeepsKinds ==
  ASSUME OutInv, OutInv', KindInv, [Next]_vars
  PROVE  KindInv'
  <1>1. CASE Work
    <2>1. Steady
      BY <1>1, WorkIsAtWork DEF OutInv, IInv, Steady
    <2>2. CASE HandlerAwaits
      BY <2>2, ReportsKeep DEF HandlerAwaits, ReportStep
    <2>3. QED
      BY <1>1, <2>1, <2>2, OperationReports, ContextReports, CombinatorReports, ReportsKeep DEF Work
  <1>2. CASE Service
    BY <1>2, ServiceReports, ReportsKeep
  <1>3. CASE Crash \/ Suspend \/ FailExecution \/ Invoke \/ UNCHANGED vars
    <2>1. UNCHANGED <<record, returned, reported>>
      BY <1>3 DEF Crash, Suspend, FailExecution, Invoke, EndInvocation, vars, service
    <2>2. QED
      BY <2>1 DEF KindInv, KindsFit
  <1>4. QED
    BY <1>1, <1>2, <1>3 DEF Next

LEMMA AlwaysOneKind ==
  Spec => []KindInv
  <1>1. Init => KindInv
    BY DEF Init, KindInv, KindsFit
  <1>2. OutInv /\ OutInv' /\ KindInv /\ [Next]_vars => KindInv'
    BY NextKeepsKinds
  <1>3. QED
    BY <1>1, <1>2, AlwaysOut, PTL DEF Spec

\* Whatever an operation returns in one invocation it returns in every other,
\* whether its body ran, its record was replayed, or its value was rebuilt of
\* what its inputs returned; and nothing is returned that was not recorded
\* (child.rs, settle; combinator.rs, replay_recorded_winner and
\* replay_vec_success). An error it returns is of one kind, live and
\* replayed, unless its recorded type is one by which a replay tells the
\* SDK's own failures (step.rs and child.rs, replay_failure).
THEOREM OutcomesAreOne == Spec => []OneOutcome
  <1>1. ASSUME OutInv, KindInv
        PROVE  OneOutcome
    <2> SUFFICES ASSUME NEW op \in Ops, NEW out \in returned[op]
                 PROVE  /\ returned[op] = {out}
                        /\ kind(op) \notin Unrecorded =>
                             /\ record[op].status \in Terminal
                             /\ record[op].children \/ record[op].payload = out
                        /\ Tells(out) \/ \A k, other \in reported[op] : k = other
      BY DEF OneOutcome, Tells
    <2>1. OnceFits(op) /\ KindsFit(op)
      BY <1>1 DEF OutInv, OutcomeFits, KindInv
    <2>2. \A k, other \in Usual(record[op].kind) : k = other
      BY DEF Usual
    <2>3. Tells(out) \/ \A k, other \in reported[op] : k = other
      BY <2>1, <2>2 DEF OnceFits, KindsFit
    <2>4. QED
      BY <2>1, <2>3 DEF OnceFits
  <1>2. QED
    BY <1>1, AlwaysOut, AlwaysOneKind, PTL

(***************************************************************************)
(* What combinators record.                                                *)
(***************************************************************************)
\* What a combinator recorded, sends, or is about to send, is what its inputs
\* returned.
CombinedFits(op) ==
  kind(op) \in Combinator =>
    \A ok, r :
      \/ /\ record[op].kind = kind(op) /\ record[op].status \in Terminal
         /\ ok = (record[op].status = "SUCCEEDED") /\ r = record[op]
      \/ write[op].action \in Final /\ ok = (write[op].action = "SUCCEED") /\ r = write[op]
      \/ ~ fatal /\ pc[op] = "ran" /\ ok = result[op].ok /\ r = CombinatorUpdate(op)
      => Combines(op, ok, r)

JoinInv == OutInv /\ \A op \in Ops : CombinedFits(op)

LEMMA CombinesStays ==
  ASSUME TypeOK, NEW op \in Ops, kind(op) \in Combinator, shape' = shape,
         \A o \in Ops : returned[o] \subseteq returned'[o]
  PROVE  \A ok, r : Combines(op, ok, r) => Combines(op, ok, r)'
  <1> SUFFICES ASSUME NEW ok, NEW r, Combines(op, ok, r)
               PROVE  Combines(op, ok, r)'
    OBVIOUS
  <1>1. kind(op)' = kind(op) /\ inputs(op)' = inputs(op) /\ Indices(op)' = Indices(op)
    BY DEF kind, inputs, Indices
  <1>2. \A i \in Indices(op) : inputs(op)[i] \in Ops
    BY TypedParts, ElementOfSeq DEF Indices
  <1>3. \A i \in Indices(op) : returned[inputs(op)[i]] \subseteq returned'[inputs(op)[i]]
    BY <1>2
  <1>4. CASE kind(op) = "join_all"
    BY <1>1, <1>3, <1>4 DEF Combines, Select
  <1>5. CASE kind(op) = "try_join_all"
    BY <1>1, <1>3, <1>5 DEF Combines, Select
  <1>6. CASE kind(op) \in Select
    BY <1>1, <1>3, <1>6 DEF Combines, Select
  <1>7. QED
    BY <1>4, <1>5, <1>6 DEF Combinator, Select

LEMMA CombinesSame ==
  ASSUME NEW op, NEW ok, NEW r, NEW s, r.payload = s.payload, r.children = s.children, r.winner = s.winner
  PROVE  Combines(op, ok, r) = Combines(op, ok, s)
  BY DEF Combines

\* What is decided of inputs that settled while nothing failed.
LEMMA DecidedCombines ==
  ASSUME Steady, NEW op \in Ops, kind(op) \in Combinator, ~ fatal, NEW out \in Decided(op), NEW r,
         r.children = Oversized(out), r.children => r.winner = out.at,
         ~ r.children => r.payload = IF out.ok \/ kind(op) \in Select THEN At(out, 0) ELSE out
  PROVE  Combines(op, out.ok, r)
  <1>1. TypeOK /\ \A o \in Ops : AtWorkFits(o)
    BY DEF Steady
  <1>2. /\ DOMAIN inputs(op) = 1 .. Len(inputs(op)) /\ Len(inputs(op)) \in Nat
        /\ \A i \in Indices(op) : i \in Nat /\ inputs(op)[i] \in Ops
    BY <1>1, TypedParts, ElementOfSeq DEF Indices
  <1>3. \A i \in Indices(op) : Settled(op, i) =>
          /\ Outcome(op, i) \in Outcomes /\ Plain(Outcome(op, i))
          /\ Outcome(op, i) \in returned[inputs(op)[i]]
    BY <1>1, <1>2 DEF AtWorkFits, ResultFits, Settled, Outcome, TypeOK
  <1>4. \A e, i : At(Err(e), i).at = i /\ ~ At(Err(e), i).ok /\ ~ Err(e).ok
    BY DEF At, Err
  <1>5. ~ out.ok => ~ r.children
    BY DEF Oversized
  <1> DEFINE failed == {i \in Indices(op) : Settled(op, i) /\ ~ Outcome(op, i).ok}
             won == {i \in Indices(op) : Settled(op, i) /\ Outcome(op, i).ok}
             Gave(i, so) == i \in Indices(op) /\ \E v \in returned[inputs(op)[i]] : v.ok = so
  <1>6. /\ \A i \in failed : Gave(i, FALSE) /\ i \in Nat
        /\ \A i \in won : Gave(i, TRUE) /\ i \in Nat
    BY <1>2, <1>3 DEF Outcomes
  <1>7. CASE kind(op) = "join_all"
    <2>1. AllSettled(op)
      BY <1>7 DEF Decided, Select
    <2>2. \A i \in Indices(op) : returned[inputs(op)[i]] # {}
      BY <1>3, <2>1 DEF AllSettled
    <2>3. QED
      BY <1>7, <2>2 DEF Combines, Select
  <1>8. CASE kind(op) = "try_join_all"
    <2>1. (\E i \in failed : out = At(Err("JoinFailed"), i)) \/ (won = Indices(op) /\ out = Collected(op))
      BY <1>8 DEF Decided, Select
    <2>2. CASE won = Indices(op) /\ out = Collected(op)
      <3>1. out.ok = TRUE
        BY <2>2 DEF Collected, Ok
      <3>2. \A i \in Indices(op) : Gave(i, TRUE)
        BY <1>6, <2>2
      <3>3. QED
        BY <1>8, <3>1, <3>2 DEF Combines, Select
    <2>3. CASE \E i \in failed : out = At(Err("JoinFailed"), i)
      <3>1. PICK i \in failed : out = At(Err("JoinFailed"), i)
        BY <2>3
      <3>2. ~ out.ok /\ out.at = i /\ Gave(i, FALSE)
        BY <1>4, <1>6, <3>1
      <3>3. r.payload = out
        BY <1>5, <1>8, <3>2 DEF Select
      <3>4. QED
        BY <1>8, <3>2, <3>3 DEF Combines, Select
    <2>4. QED
      BY <2>1, <2>2, <2>3
  <1>9. CASE kind(op) \in Select
    <2>1. \/ inputs(op) = <<>> /\ ~ out.ok
          \/ \E i \in won : out = At(Outcome(op, i), i)
          \/ kind(op) = "race" /\ ~ out.ok /\ failed # {}
          \/ kind(op) = "select_ok" /\ ~ out.ok /\ failed = Indices(op)
      <3>1. \/ inputs(op) = <<>> /\ out = Err("EmptyInput")
            \/ \E i \in won : out = At(Outcome(op, i), i)
            \/ kind(op) = "race" /\ \E i \in failed : out = At(Err("FirstSettledFailed"), i)
            \/ kind(op) # "race" /\ failed = Indices(op) /\ out = Err("AllFailed")
        BY <1>9 DEF Decided, Select
      <3>2. QED
        BY <1>4, <1>9, <3>1 DEF Select
    <2>2. CASE \E i \in won : out = At(Outcome(op, i), i)
      <3>1. PICK i \in won : out = At(Outcome(op, i), i)
        BY <2>2
      <3>2. i \in Indices(op) /\ Settled(op, i) /\ Outcome(op, i) \in Outcomes /\ Outcome(op, i).ok
        BY <1>3, <3>1
      <3>3. out.at = i /\ out.ok = TRUE /\ At(out, 0) = At(Outcome(op, i), 0)
        BY <3>1, <3>2 DEF At, Outcomes
      <3>4. At(Outcome(op, i), 0) = Outcome(op, i)
        BY <1>3, <3>2, PlainAre
      <3>5. ~ r.children => r.payload \in returned[inputs(op)[i]]
        BY <1>3, <3>2, <3>3, <3>4
      <3>6. r.children => Gave(r.winner, TRUE)
        BY <1>6, <3>1, <3>3
      <3>7. QED
        BY <1>9, <3>2, <3>3, <3>5, <3>6 DEF Combines, Select
    <2>3. CASE inputs(op) = <<>> /\ ~ out.ok
      <3>1. Indices(op) = {}
        BY <2>3 DEF Indices
      <3>2. QED
        BY <1>5, <1>9, <2>3, <3>1 DEF Combines, Select
    <2>4. CASE kind(op) = "race" /\ ~ out.ok /\ failed # {}
      <3>1. PICK i \in Indices(op) : Gave(i, FALSE)
        BY <1>6, <2>4
      <3>2. QED
        BY <1>5, <2>4, <3>1 DEF Combines, Select
    <2>5. CASE kind(op) = "select_ok" /\ ~ out.ok /\ failed = Indices(op)
      <3>1. \A i \in Indices(op) : Gave(i, FALSE)
        BY <1>6, <2>5
      <3>2. QED
        BY <1>5, <2>5, <3>1 DEF Combines, Select
    <2>6. QED
      BY <2>1, <2>2, <2>3, <2>4, <2>5
  <1>10. QED
    BY <1>7, <1>8, <1>9 DEF Combinator, Select

LEMMA WorkKeepsJoins ==
  ASSUME JoinInv, Work, OutInv'
  PROVE  JoinInv'
  <1>1. IInv /\ AtWork
    BY WorkIsAtWork DEF JoinInv, OutInv
  <1>2. Steady
    BY <1>1 DEF JoinInv, OutInv, IInv, Steady
  <1>3. TypeOK /\ StepFits /\ OutStep
    BY <1>1, <1>2, WorkFits, WorkOut DEF IInv, Steady
  <1>4. shape' = shape /\ (fatal => fatal') /\ \A o \in Ops : returned[o] \subseteq returned'[o]
    BY <1>3, OutwardIs DEF StepFits, OutStep
  <1> SUFFICES ASSUME NEW op \in Ops, kind(op) \in Combinator, NEW ok, NEW r,
                      \/ /\ record'[op].kind = kind(op) /\ record'[op].status \in Terminal
                         /\ ok = (record'[op].status = "SUCCEEDED") /\ r = record'[op]
                      \/ write'[op].action \in Final /\ ok = (write'[op].action = "SUCCEED") /\ r = write'[op]
                      \/ ~ fatal' /\ pc'[op] = "ran" /\ ok = result'[op].ok /\ r = CombinatorUpdate(op)'
               PROVE  Combines(op, ok, r)
    <2>1. \A op \in Ops : kind(op)' = kind(op)
      BY <1>4 DEF kind
    <2>2. ASSUME NEW op \in Ops, kind(op) \in Combinator, NEW ok, NEW r, Combines(op, ok, r)
          PROVE  Combines(op, ok, r)'
      BY <1>3, <1>4, <2>2, CombinesStays
    <2>3. QED
      BY <2>1, <2>2 DEF JoinInv, CombinedFits
  <1>5. /\ kind(op)' = kind(op) /\ Outward(op) /\ CombinedFits(op)
        /\ result[op] \in Outcomes
    BY <1>3, <1>4 DEF kind, OutStep, JoinInv, TypeOK
  <1>6. SameBooks(op)
    BY <1>5 DEF Outward
  <1>7. CASE record'[op].kind = kind(op) /\ record'[op].status \in Terminal
             /\ ok = (record'[op].status = "SUCCEEDED") /\ r = record'[op]
    BY <1>5, <1>6, <1>7 DEF SameBooks, CombinedFits
  <1>8. CASE write'[op].action \in Final /\ ok = (write'[op].action = "SUCCEED") /\ r = write'[op]
    <2>1. Update("START", Nothing).action \notin Final /\ NoWrite.action \notin Final
      BY DEF Update, NoWrite, Final
    <2>2. CASE write'[op] = write[op]
      BY <1>5, <1>8, <2>2 DEF CombinedFits
    <2>3. CASE Submits(op)
      <3>1. pc[op] = "ran" /\ ~ fatal /\ write'[op] = CombinatorUpdate(op)
        BY <2>3 DEF Submits
      <3>2. CombinatorUpdate(op).action = IF result[op].ok THEN "SUCCEED" ELSE "FAIL"
        BY DEF CombinatorUpdate, Update, NoWrite
      <3>3. ok = result[op].ok
        BY <1>5, <1>8, <3>1, <3>2 DEF Outcomes
      <3>4. QED
        BY <1>5, <1>8, <3>1, <3>3 DEF CombinedFits
    <2>4. write'[op] = write[op] \/ Submits(op) \/ write'[op] \in {NoWrite, Update("START", Nothing)}
      BY <1>5 DEF Outward, Idles, Opens, Enters, Advances, Finishes, Gives
    <2>5. QED
      BY <1>8, <2>1, <2>2, <2>3, <2>4
  <1>9. CASE ~ fatal' /\ pc'[op] = "ran" /\ ok = result'[op].ok /\ r = CombinatorUpdate(op)'
    <2>1. CASE pc[op] = "ran" /\ result'[op] = result[op]
      <3>1. CombinatorUpdate(op)' = CombinatorUpdate(op)
        BY <1>5, <2>1 DEF CombinatorUpdate, Value
      <3>2. QED
        BY <1>4, <1>5, <1>9, <2>1, <3>1 DEF CombinedFits
    <2>2. CASE Finishes(op)
      <3>1. ~ fatal /\ result'[op] \in Decided(op)
        BY <1>4, <1>9, <2>2 DEF Finishes
      <3>2. PICK out \in Decided(op) : result'[op] = out
        BY <3>1
      <3>3. /\ r.children = Oversized(out) /\ (r.children => r.winner = out.at)
            /\ ~ r.children => r.payload = IF out.ok \/ kind(op) \in Select THEN At(out, 0) ELSE out
        BY <1>5, <1>9, <3>2 DEF CombinatorUpdate, Value, Update, NoWrite
      <3>4. QED
        BY <1>2, <1>9, <3>1, <3>2, <3>3, DecidedCombines
    <2>3. pc'[op] = "ran" => (pc[op] = "ran" /\ result'[op] = result[op]) \/ Finishes(op)
      <3>1. Entry(op) # "ran"
        BY DEF Entry
      <3>2. QED
        BY <1>5, <3>1 DEF Outward, Idles, SameOutcome, Opens, Enters, Advances, Submits, Gives
    <2>4. QED
      BY <1>9, <2>1, <2>2, <2>3
  <1>10. QED
    BY <1>7, <1>8, <1>9

LEMMA ServiceKeepsJoins ==
  ASSUME JoinInv, Service, OutInv'
  PROVE  JoinInv'
  <1>1. TypeOK /\ RecordsFit /\ \A op \in Ops : OutcomeFits(op) /\ CombinedFits(op)
    BY DEF JoinInv, OutInv, IInv
  <1>2. ServiceStep
    BY <1>1, ServiceServes DEF OutcomeFits
  <1>3. UNCHANGED <<shape, pc, result, returned, fatal>> /\ \A op \in Ops : kind(op)' = kind(op)
    BY <1>2 DEF ServiceStep, kind
  <1> SUFFICES ASSUME NEW op \in Ops, kind(op) \in Combinator, NEW ok, NEW r,
                      \/ /\ record'[op].kind = kind(op) /\ record'[op].status \in Terminal
                         /\ ok = (record'[op].status = "SUCCEEDED") /\ r = record'[op]
                      \/ write'[op].action \in Final /\ ok = (write'[op].action = "SUCCEED") /\ r = write'[op]
                      \/ ~ fatal' /\ pc'[op] = "ran" /\ ok = result'[op].ok /\ r = CombinatorUpdate(op)'
               PROVE  Combines(op, ok, r)
    <2>1. ASSUME NEW op \in Ops, kind(op) \in Combinator, NEW ok, NEW r, Combines(op, ok, r)
          PROVE  Combines(op, ok, r)'
      BY <1>1, <1>3, <2>1, CombinesStays
    <2>2. QED
      BY <1>3, <2>1 DEF JoinInv, CombinedFits
  <1>4. Serves(op) /\ CombinedFits(op) /\ record[op] \in Records /\ write[op] \in Updates
    BY <1>1, <1>2 DEF ServiceStep, TypeOK
  <1>5. CombinatorUpdate(op)' = CombinatorUpdate(op)
    BY <1>3 DEF CombinatorUpdate, Value
  <1>6. CASE ~ fatal' /\ pc'[op] = "ran" /\ ok = result'[op].ok /\ r = CombinatorUpdate(op)'
    BY <1>3, <1>4, <1>5, <1>6 DEF CombinedFits
  <1>7. CASE write'[op].action \in Final /\ ok = (write'[op].action = "SUCCEED") /\ r = write'[op]
    <2>1. /\ write'[op].action = write[op].action /\ write'[op].payload = write[op].payload
          /\ write'[op].children = write[op].children /\ write'[op].winner = write[op].winner
      BY <1>4 DEF Serves, Stays, IsRecorded, IsAnswered, IsRefreshed, IsServed, Updates
    <2>2. Combines(op, ok, write[op])
      BY <1>4, <1>7, <2>1 DEF CombinedFits
    <2>3. QED
      BY <1>7, <2>1, <2>2, CombinesSame
  <1>8. CASE record'[op].kind = kind(op) /\ record'[op].status \in Terminal
             /\ ok = (record'[op].status = "SUCCEEDED") /\ r = record'[op]
    <2>1. CASE record'[op] = record[op]
      BY <1>4, <1>8, <2>1 DEF CombinedFits
    <2>2. CASE IsRecorded(op)
      <3>1. /\ write[op].action \notin {"START", "RETRY"}
            /\ record'[op].status = IF write[op].action = "SUCCEED" THEN "SUCCEEDED" ELSE "FAILED"
            /\ record'[op].payload = write[op].payload /\ record'[op].children = write[op].children
            /\ record'[op].winner = write[op].winner
        BY <1>4, <1>8, <2>2 DEF IsRecorded, Applied, Records, Terminal
      <3>2. WriteFits(op)
        BY <1>1 DEF RecordsFit
      <3>3. write[op].action \in Final
        BY <1>4, <2>2, <3>1, <3>2 DEF WriteFits, IsRecorded, Updates, Final
      <3>4. Combines(op, ok, write[op])
        BY <1>4, <1>8, <3>1, <3>3 DEF CombinedFits, Final
      <3>5. QED
        BY <1>8, <3>1, <3>4, CombinesSame
    <2>3. CASE IsServed(op)
      <3>1. record'[op].kind = record[op].kind /\ (record'[op].status = "READY" \/ record[op].kind \in Awaited)
        BY <1>4, <2>3 DEF IsServed, Records
      <3>2. QED
        BY <1>8, <3>1 DEF Terminal, Awaited, Combinator
    <2>4. QED
      BY <1>4, <2>1, <2>2, <2>3 DEF Serves, Stays, SameBooks, IsAnswered, IsRefreshed
  <1>9. QED
    BY <1>6, <1>7, <1>8

\* Outside the work of an invocation no combinator decides anything.
LEMMA RestKeepsJoins ==
  ASSUME JoinInv, OutInv', EndInvocation \/ FailExecution \/ Invoke
  PROVE  JoinInv'
  <1> SUFFICES ASSUME NEW op \in Ops
               PROVE  CombinedFits(op)'
    BY DEF JoinInv
  <1>1. TypeOK /\ CombinedFits(op) /\ KeptFits(op) /\ record[op] \in Records
    BY DEF JoinInv, OutInv, IInv, TypeOK
  <1>2. UNCHANGED <<record, returned>> /\ write'[op] \in {NoWrite, write[op]} /\ pc'[op] # "ran"
    <2>1. CASE EndInvocation
      BY <2>1 DEF EndInvocation
    <2>2. CASE FailExecution
      BY <2>2 DEF FailExecution, service
    <2>3. CASE Invoke
      <3>1. pc[op] = "off"
        BY <2>3 DEF JoinInv, OutInv, IInv, Idle, Invoke
      <3>2. QED
        BY <1>1, <2>3, <3>1 DEF Invoke, TypeOK
    <2>4. QED
      BY <2>1, <2>2, <2>3
  <1>3. NoWrite.action \notin Final
    BY DEF NoWrite, Final
  <1>4. inputs(op)' = inputs(op) /\ (kind(op)' # kind(op) => write'[op] = NoWrite)
    <2>1. CASE EndInvocation \/ FailExecution
      BY <2>1 DEF EndInvocation, FailExecution, inputs, kind
    <2>2. CASE Invoke
      <3>1. shape \in Shape
        BY <1>1, ShapeIsWellMade
      <3>2. write[op] = NoWrite
        BY <2>2 DEF JoinInv, OutInv, IInv, Idle, Invoke
      <3>3. QED
        BY <1>2, <2>2, <3>1, <3>2 DEF Invoke, Shape, inputs
    <2>3. QED
      BY <2>1, <2>2
  <1>5. CASE kind(op)' = kind(op)
    <2>1. \A ok, r : Combines(op, ok, r)' = Combines(op, ok, r)
      BY <1>2, <1>4, <1>5 DEF Combines, Indices
    <2>2. QED
      BY <1>1, <1>2, <1>3, <1>5, <2>1 DEF CombinedFits
  <1>6. CASE kind(op)' # kind(op)
    <2>1. kind(op)' = shape.becomes[op] /\ kind(op) # shape.becomes[op]
      BY <1>1, <1>6, ShapeIsWellMade DEF EndInvocation, FailExecution, Invoke, Shape, kind
    <2>2. record[op].kind \in {"none", kind(op)}
      BY <1>1, <2>1 DEF KeptFits
    <2>3. kind(op)' \in Combinator => record'[op].kind # kind(op)'
      BY <1>2, <1>6, <2>2 DEF Combinator
    <2>4. QED
      BY <1>2, <1>3, <1>4, <1>6, <2>3 DEF CombinedFits
  <1>7. QED
    BY <1>5, <1>6

LEMMA AlwaysJoins ==
  Spec => []JoinInv
  <1>1. Init => JoinInv
    <2>1. Init => OutInv
      BY InitOut
    <2>2. Init => \A op \in Ops : CombinedFits(op)
      BY DEF Init, CombinedFits, NoRecord, NoWrite, Terminal, Final
    <2>3. QED
      BY <2>1, <2>2 DEF JoinInv
  <1>2. JoinInv /\ [Next]_vars => JoinInv'
    <2> SUFFICES ASSUME JoinInv, [Next]_vars
                 PROVE  JoinInv'
      OBVIOUS
    <2>1. OutInv'
      BY NextKeepsOut DEF JoinInv
    <2>2. CASE UNCHANGED vars
      <3>1. UNCHANGED <<shape, record, write, pc, result, returned, fatal>>
        BY <2>2 DEF vars, service
      <3>2. \A op \in Ops : CombinedFits(op)' = CombinedFits(op)
        BY <3>1 DEF CombinedFits, CombinatorUpdate, Value, Combines, Indices, kind, inputs
      <3>3. QED
        BY <2>1, <3>2 DEF JoinInv
    <2>3. QED
      BY <2>1, <2>2, WorkKeepsJoins, ServiceKeepsJoins, RestKeepsJoins DEF Next, Crash, Suspend
  <1>3. QED
    BY <1>1, <1>2, PTL DEF Spec

\* What a combinator recorded is what its inputs have returned: each input of
\* a join, the failure it names, and the winner whose value it has; and since
\* they return the same in every invocation, a replay finds nothing else
\* (combinator.rs, settle_first and run_join).
THEOREM CombinatorsFitInputs == Spec => []CombinedFitsInputs
  <1>1. JoinInv => CombinedFitsInputs
    BY DEF JoinInv, CombinedFits, CombinedFitsInputs
  <1>2. QED
    BY <1>1, AlwaysJoins, PTL

(***************************************************************************)
(* What writes no more once a context has ended.                           *)
(***************************************************************************)
\* The queue has each update that is not answered, once.
Queued(op) == write[op].st = "queued"
Sent(op) == write[op].st \in {"queued", "recorded"}
QueueFits ==
  /\ \A i \in DOMAIN queue : Sent(queue[i])
  /\ \A i, j \in DOMAIN queue : queue[i] = queue[j] => i = j
  /\ \A op \in Ops : Queued(op) => \E i \in DOMAIN queue : queue[i] = op
Before(o, op) == \E i, j \in DOMAIN queue : i < j /\ queue[i] = o /\ queue[j] = op

\* Updates that stay queued keep their order, and new ones come behind them.
InTurn ==
  \A o, op \in Ops :
    Queued(o) /\ Queued(o)' /\ Queued(op)' /\ (Queued(op) => Before(o, op)) => Before(o, op)'
QueueStep == QueueFits' /\ InTurn

LEMMA QueueStays ==
  ASSUME TypeOK, QueueFits, queue' = queue,
         \A op \in Ops : (Queued(op)' => Queued(op)) /\ (Sent(op) => Sent(op)')
  PROVE  QueueStep
  <1>1. \A i \in DOMAIN queue : queue[i] \in Ops
    BY ElementOfSeq DEF TypeOK
  <1>2. QueueFits'
    <2>1. \A i \in DOMAIN queue : Sent(queue[i])'
      BY <1>1 DEF QueueFits
    <2>2. QED
      BY <2>1 DEF QueueFits, Sent
  <1>3. InTurn
    BY DEF InTurn, Before
  <1>4. QED
    BY <1>2, <1>3 DEF QueueStep

LEMMA QueueGrows ==
  ASSUME TypeOK, QueueFits, NEW more \in Seq(Ops), queue' = queue \o more,
         \A i, j \in DOMAIN more : more[i] = more[j] => i = j,
         \A op \in ToSet(more) : ~ Sent(op) /\ Queued(op)',
         \A op \in Ops : op \notin ToSet(more) => (Queued(op)' => Queued(op)) /\ (Sent(op) => Sent(op)')
  PROVE  QueueStep
  <1>1. /\ queue \in Seq(Ops) /\ Len(queue) \in Nat /\ Len(more) \in Nat
        /\ DOMAIN queue = 1 .. Len(queue) /\ DOMAIN more = 1 .. Len(more)
        /\ \A i \in DOMAIN queue : queue[i] \in Ops
        /\ \A i \in DOMAIN more : more[i] \in Ops /\ more[i] \in ToSet(more)
    BY ElementOfSeq, LenProperties DEF TypeOK, ToSet
  <1>2. /\ DOMAIN queue' = 1 .. Len(queue) + Len(more)
        /\ \A i \in DOMAIN queue : i \in DOMAIN queue' /\ queue'[i] = queue[i]
        /\ \A i \in DOMAIN more : Len(queue) + i \in DOMAIN queue' /\ queue'[Len(queue) + i] = more[i]
    BY <1>1, ConcatProperties
  <1>3. \A n \in DOMAIN queue' : n \in DOMAIN queue \/ \E i \in DOMAIN more : n = Len(queue) + i
    <2>1. \A n \in 1 .. Len(queue) + Len(more) : n \in 1 .. Len(queue) \/ (n - Len(queue) \in 1 .. Len(more) /\ n = Len(queue) + (n - Len(queue)))
      BY <1>1
    <2>2. QED
      BY <1>1, <1>2, <2>1
  <1>4. \A i \in DOMAIN queue : Sent(queue[i]) /\ Sent(queue[i])' /\ queue[i] \notin ToSet(more)
    <2>1. \A i \in DOMAIN queue : Sent(queue[i])
      BY DEF QueueFits
    <2>2. QED
      BY <1>1, <2>1
  <1>5. QueueFits'
    <2>1. ASSUME NEW n \in DOMAIN queue'
          PROVE  write'[queue'[n]].st \in {"queued", "recorded"}
      BY <1>1, <1>2, <1>3, <1>4 DEF Sent, Queued
    <2>2. ASSUME NEW n \in DOMAIN queue', NEW m \in DOMAIN queue', queue'[n] = queue'[m]
          PROVE  n = m
      <3>1. CASE n \in DOMAIN queue /\ m \in DOMAIN queue
        BY <1>2, <2>2, <3>1 DEF QueueFits
      <3>2. CASE n \in DOMAIN queue /\ m \notin DOMAIN queue
        BY <1>1, <1>2, <1>3, <1>4, <2>2, <3>2
      <3>3. CASE n \notin DOMAIN queue /\ m \in DOMAIN queue
        BY <1>1, <1>2, <1>3, <1>4, <2>2, <3>3
      <3>4. CASE n \notin DOMAIN queue /\ m \notin DOMAIN queue
        BY <1>1, <1>2, <1>3, <2>2, <3>4
      <3>5. QED
        BY <3>1, <3>2, <3>3, <3>4
    <2>3. ASSUME NEW op \in Ops, Queued(op)'
          PROVE  \E n \in DOMAIN queue' : queue'[n] = op
      <3>1. CASE op \in ToSet(more)
        <4>1. PICK i \in DOMAIN more : more[i] = op
          BY <3>1 DEF ToSet
        <4>2. QED
          BY <1>2, <4>1
      <3>2. CASE op \notin ToSet(more)
        BY <1>2, <2>3, <3>2 DEF QueueFits
      <3>3. QED
        BY <3>1, <3>2
    <2>4. QED
      BY <2>1, <2>2, <2>3 DEF QueueFits, Sent, Queued
  <1>6. ASSUME NEW o \in Ops, NEW op \in Ops, Queued(o), Queued(op)', Queued(op) => Before(o, op)
        PROVE  Before(o, op)'
    <2>1. PICK i \in DOMAIN queue : queue[i] = o
      BY <1>6 DEF QueueFits
    <2>2. CASE op \in ToSet(more)
      <3>1. PICK j \in DOMAIN more : more[j] = op
        BY <2>2 DEF ToSet
      <3>2. i < Len(queue) + j
        BY <1>1
      <3>3. QED
        BY <1>2, <2>1, <3>1, <3>2 DEF Before
    <2>3. CASE op \notin ToSet(more)
      <3>1. Before(o, op)
        BY <1>6, <2>3
      <3>2. PICK a \in DOMAIN queue, b \in DOMAIN queue : a < b /\ queue[a] = o /\ queue[b] = op
        BY <3>1 DEF Before
      <3>3. QED
        BY <1>2, <3>2 DEF Before
    <2>4. QED
      BY <2>2, <2>3
  <1>7. QED
    BY <1>5, <1>6 DEF QueueStep, InTurn

LEMMA QueueCloses ==
  ASSUME TypeOK, QueueFits, NEW ops \in SUBSET Ops, CloseScopes(ops)
  PROVE  QueueStep
  <1> DEFINE closed == UNION {Inside[op] : op \in {o \in ops : kind(o) \in Scope}}
             dropped(sent) == {op \in closed : write[op].st = "queued" /\ ~ (sent /\ op = Head(queue))}
  <1>1. PICK sent \in BOOLEAN :
          /\ queue' = Only(queue, Ops \ dropped(sent))
          /\ write' = [op \in Ops |-> IF op \in dropped(sent) THEN NoWrite ELSE write[op]]
    BY DEF CloseScopes
  <1> DEFINE some == Ops \ dropped(sent)
             Place(i) == PlaceOf(queue, some, i)
  <1>2. some \subseteq Ops /\ \A op \in Ops : write'[op] = IF op \in some THEN write[op] ELSE NoWrite
    BY <1>1
  <1> HIDE DEF dropped, some
  <1>3. queue' = Only(queue, some) /\ queue \in Seq(Ops)
    BY <1>1 DEF some, TypeOK
  <1>4. /\ DOMAIN queue' = 1 .. Len(queue') /\ Chosen(queue, some) \subseteq DOMAIN queue
        /\ \A i \in DOMAIN queue : i \in Nat /\ queue[i] \in Ops
    BY <1>3, OnlyKeeps, LenProperties, ElementOfSeq DEF Chosen
  <1>5. /\ \A n \in DOMAIN queue' : \E i \in Chosen(queue, some) : Place(i) = n /\ queue'[n] = queue[i]
        /\ \A i \in Chosen(queue, some) : Place(i) \in DOMAIN queue' /\ queue'[Place(i)] = queue[i]
        /\ \A i, j \in Chosen(queue, some) : i < j => Place(i) < Place(j)
    BY <1>3, <1>4, OnlyKeeps, PlacesAreOrdered
  <1> HIDE DEF Place
  <1>6. \A i \in Chosen(queue, some) : queue[i] \in some /\ Sent(queue[i])
    BY <1>4 DEF Chosen, QueueFits
  <1>7. \A op \in Ops : Queued(op)' => Queued(op) /\ op \in some
    BY <1>2, NoWriteIs DEF Queued
  <1>8. QueueFits'
    <2>1. ASSUME NEW n \in DOMAIN queue'
          PROVE  write'[queue'[n]].st \in {"queued", "recorded"}
      BY <1>2, <1>5, <1>6 DEF Sent
    <2>2. ASSUME NEW n \in DOMAIN queue', NEW m \in DOMAIN queue', queue'[n] = queue'[m]
          PROVE  n = m
      <3>1. PICK i \in Chosen(queue, some) : Place(i) = n /\ queue'[n] = queue[i]
        BY <1>5
      <3>2. PICK j \in Chosen(queue, some) : Place(j) = m /\ queue'[m] = queue[j]
        BY <1>5
      <3>3. i = j
        BY <1>4, <2>2, <3>1, <3>2 DEF QueueFits
      <3>4. QED
        BY <3>1, <3>2, <3>3
    <2>3. ASSUME NEW op \in Ops, Queued(op)'
          PROVE  \E n \in DOMAIN queue' : queue'[n] = op
      <3>1. PICK i \in DOMAIN queue : queue[i] = op
        BY <1>7, <2>3 DEF QueueFits
      <3>2. i \in Chosen(queue, some)
        BY <1>7, <2>3, <3>1 DEF Chosen
      <3>3. QED
        BY <1>5, <3>1, <3>2
    <2>4. QED
      BY <2>1, <2>2, <2>3 DEF QueueFits, Sent, Queued
  <1>9. ASSUME NEW o \in Ops, NEW op \in Ops, Queued(o)', Queued(op)', Queued(op) => Before(o, op)
        PROVE  Before(o, op)'
    <2>1. PICK i \in DOMAIN queue, j \in DOMAIN queue : i < j /\ queue[i] = o /\ queue[j] = op
      BY <1>7, <1>9 DEF Before
    <2>2. i \in Chosen(queue, some) /\ j \in Chosen(queue, some)
      BY <1>7, <1>9, <2>1 DEF Chosen
    <2>3. QED
      BY <1>5, <2>1, <2>2 DEF Before
  <1>10. QED
    BY <1>8, <1>9 DEF QueueStep, InTurn

\* What `Only` keeps of a sequence without repetitions has none.
LEMMA OnlyIsOnce ==
  ASSUME NEW S, NEW ops \in Seq(S), NEW some, \A i, j \in DOMAIN ops : ops[i] = ops[j] => i = j
  PROVE  /\ \A i, j \in DOMAIN Only(ops, some) : Only(ops, some)[i] = Only(ops, some)[j] => i = j
         /\ ToSet(Only(ops, some)) = ToSet(ops) \cap some
  <1> DEFINE q == Only(ops, some)
             Place(i) == PlaceOf(ops, some, i)
  <1>1. /\ DOMAIN q = 1 .. Len(q)
        /\ \A n \in DOMAIN q : \E i \in Chosen(ops, some) : Place(i) = n /\ q[n] = ops[i]
        /\ \A i \in Chosen(ops, some) : Place(i) \in DOMAIN q /\ q[Place(i)] = ops[i]
    BY OnlyKeeps, LenProperties
  <1> HIDE DEF q, Place
  <1>2. \A i : i \in Chosen(ops, some) <=> i \in DOMAIN ops /\ ops[i] \in some
    BY DEF Chosen
  <1>3. \A i, j \in DOMAIN q : q[i] = q[j] => i = j
    BY <1>1, <1>2
  <1>4. ToSet(q) \subseteq ToSet(ops) \cap some
    BY <1>1, <1>2 DEF ToSet
  <1>5. ToSet(ops) \cap some \subseteq ToSet(q)
    BY <1>1, <1>2 DEF ToSet
  <1>6. QED
    BY <1>3, <1>4, <1>5 DEF q

\* Operations that are entered queue their STARTs in order.
LEMMA EnteringIsInTurn ==
  ASSUME TypeOK, QueueFits, NEW ops \in Seq(Ops), NEW last \in Seq(Ops), EnterWith(ops, last),
         \A i, j \in DOMAIN (ops \o last) : (ops \o last)[i] = (ops \o last)[j] => i = j,
         \A op \in ToSet(ops) \cup ToSet(last) : ~ Sent(op)
  PROVE  QueueStep
  <1> DEFINE some == Starting(ops) \cup ToSet(last)
             more == Only(ops \o last, some)
  <1>1. ops \o last \in Seq(Ops) /\ ToSet(ops \o last) = ToSet(ops) \cup ToSet(last)
    <2>1. ops \o last \in Seq(Ops)
      BY ConcatProperties
    <2>2. /\ DOMAIN ops = 1 .. Len(ops) /\ DOMAIN last = 1 .. Len(last) /\ Len(ops) \in Nat /\ Len(last) \in Nat
          /\ DOMAIN (ops \o last) = 1 .. Len(ops) + Len(last)
          /\ \A i \in 1 .. Len(ops) + Len(last) :
               (ops \o last)[i] = IF i <= Len(ops) THEN ops[i] ELSE last[i - Len(ops)]
      BY ConcatProperties, LenProperties
    <2>3. ToSet(ops \o last) \subseteq ToSet(ops) \cup ToSet(last)
      <3>1. \A i \in 1 .. Len(ops) + Len(last) : i \in 1 .. Len(ops) \/ (~ (i <= Len(ops)) /\ i - Len(ops) \in 1 .. Len(last))
        BY <2>2
      <3>2. QED
        BY <2>2, <3>1 DEF ToSet
    <2>4. ToSet(ops) \subseteq ToSet(ops \o last)
      <3>1. \A i \in 1 .. Len(ops) : i \in 1 .. Len(ops) + Len(last) /\ (ops \o last)[i] = ops[i]
        BY <2>2
      <3>2. QED
        BY <2>2, <3>1 DEF ToSet
    <2>5. ToSet(last) \subseteq ToSet(ops \o last)
      <3>1. \A i \in 1 .. Len(last) : Len(ops) + i \in DOMAIN (ops \o last) /\ (ops \o last)[Len(ops) + i] = last[i]
        BY <2>2
      <3>2. ASSUME NEW i \in DOMAIN last
            PROVE  last[i] \in ToSet(ops \o last)
        <4>1. \A n \in DOMAIN (ops \o last) : (ops \o last)[n] \in ToSet(ops \o last)
          BY DEF ToSet
        <4>2. QED
          BY <2>2, <3>1, <4>1
      <3>3. QED
        BY <3>2 DEF ToSet
    <2>6. QED
      BY <2>1, <2>3, <2>4, <2>5
  <1>2. some \subseteq ToSet(ops) \cup ToSet(last)
    BY DEF Starting
  <1>3. /\ more \in Seq(Ops) /\ ToSet(more) = some
        /\ \A i, j \in DOMAIN more : more[i] = more[j] => i = j
    <2> DEFINE both == ops \o last
    <2>1. /\ both \in Seq(Ops) /\ ToSet(both) = ToSet(ops) \cup ToSet(last)
          /\ \A i, j \in DOMAIN both : both[i] = both[j] => i = j
      BY <1>1
    <2>2. more = Only(both, some)
      OBVIOUS
    <2> HIDE DEF both, some, more
    <2>3. more \in Seq(Ops)
      BY <2>1, <2>2, OnlyKeeps
    <2>4. /\ ToSet(more) = ToSet(both) \cap some
          /\ \A i, j \in DOMAIN more : more[i] = more[j] => i = j
      BY <2>1, <2>2, OnlyIsOnce
    <2>5. QED
      BY <1>2, <2>1, <2>3, <2>4
  <1>4. /\ queue' = queue \o more
        /\ \A op \in Ops : write'[op] = IF op \in some THEN Update("START", Nothing)
                                        ELSE IF op \in ToSet(ops) THEN NoWrite ELSE write[op]
    BY DEF EnterWith
  <1> HIDE DEF some, more
  <1>5. some \subseteq Ops
    BY <1>1, <1>2 DEF ToSet
  <1>6. \A op \in some : ~ Sent(op) /\ Queued(op)'
    BY <1>2, <1>4, <1>5 DEF Queued, Update, NoWrite
  <1>7. \A op \in Ops : op \notin some => (Queued(op)' => Queued(op)) /\ (Sent(op) => Sent(op)')
    BY <1>4, NoWriteIs DEF Queued, Sent
  <1>8. QED
    BY <1>3, <1>4, <1>6, <1>7, QueueGrows

LEMMA BothAreOnce ==
  ASSUME NEW S, NEW ops \in Seq(S), NEW last \in Seq(S),
         \A i, j \in DOMAIN ops : ops[i] = ops[j] => i = j,
         \A i, j \in DOMAIN last : last[i] = last[j] => i = j,
         ToSet(ops) \cap ToSet(last) = {}
  PROVE  \A i, j \in DOMAIN (ops \o last) : (ops \o last)[i] = (ops \o last)[j] => i = j
  <1>1. /\ DOMAIN ops = 1 .. Len(ops) /\ DOMAIN last = 1 .. Len(last) /\ Len(ops) \in Nat /\ Len(last) \in Nat
        /\ DOMAIN (ops \o last) = 1 .. Len(ops) + Len(last)
        /\ \A i \in 1 .. Len(ops) + Len(last) :
             (ops \o last)[i] = IF i <= Len(ops) THEN ops[i] ELSE last[i - Len(ops)]
    BY ConcatProperties, LenProperties
  <1>2. \A i \in DOMAIN ops, j \in DOMAIN last : ops[i] # last[j]
    BY DEF ToSet
  <1> SUFFICES ASSUME NEW i \in 1 .. Len(ops) + Len(last), NEW j \in 1 .. Len(ops) + Len(last),
                      (ops \o last)[i] = (ops \o last)[j]
               PROVE  i = j
    BY <1>1
  <1>3. i \in DOMAIN ops \/ (~ (i <= Len(ops)) /\ i - Len(ops) \in DOMAIN last)
    BY <1>1
  <1>4. j \in DOMAIN ops \/ (~ (j <= Len(ops)) /\ j - Len(ops) \in DOMAIN last)
    BY <1>1
  <1>5. CASE i <= Len(ops) /\ j <= Len(ops)
    BY <1>1, <1>3, <1>4, <1>5
  <1>6. CASE i <= Len(ops) /\ ~ (j <= Len(ops))
    BY <1>1, <1>2, <1>3, <1>4, <1>6
  <1>7. CASE ~ (i <= Len(ops)) /\ j <= Len(ops)
    BY <1>1, <1>2, <1>3, <1>4, <1>7
  <1>8. CASE ~ (i <= Len(ops)) /\ ~ (j <= Len(ops))
    <2>1. i - Len(ops) = j - Len(ops)
      BY <1>1, <1>3, <1>4, <1>8
    <2>2. QED
      BY <1>1, <2>1
  <1>9. QED
    BY <1>5, <1>6, <1>7, <1>8

LEMMA OneIsOnce ==
  \A e : ToSet(<<e>>) = {e} /\ \A i, j \in DOMAIN <<e>> : <<e>>[i] = <<e>>[j] => i = j
  BY DEF ToSet

(***************************************************************************)
(* What runs inside an operation.                                          *)
(***************************************************************************)
Ended == {"off", "done", "stopped"}
Quiet(op) == \A o \in Inside[op] : pc[o] \in Ended

\* It may start its inputs.
Hosts(op) ==
  \/ kind(op) \in Scoped /\ pc[op] \in {"body", "rebuild"}
  \/ kind(op) \in Combinator /\ pc[op] \in {"inputs", "rebuild"}

\* Nothing runs on in the scope of a body that ends.
Follows(op) ==
  kind(op) \in Scope /\ pc[op] \in {"body", "rebuild"} /\ pc'[op] \notin {"body", "rebuild"} => Quiet(op)'

FlowStep ==
  /\ QueueStep
  /\ \A op \in Ops : Follows(op)
  /\ \A o \in Ops : Started(o) => o = Top \/ \E p \in Ops : o \in ToSet(inputs(p)) /\ Hosts(p)

\* A step that ends no body with a scope.
LEMMA MildFlows ==
  ASSUME QueueStep,
         \A o \in Ops : pc'[o] = pc[o] \/ (kind(o) \in Scope => pc[o] \notin {"body", "rebuild"}),
         \A o \in Ops : Started(o) => o = Top \/ \E p \in Ops : o \in ToSet(inputs(p)) /\ Hosts(p)
  PROVE  FlowStep
  <1>1. \A op \in Ops : Follows(op)
    BY DEF Follows
  <1>2. QED
    BY <1>1 DEF FlowStep

\* A step of one operation that starts nothing.
LEMMA OneFlows ==
  ASSUME QueueStep, NEW op \in Ops, pc[op] \notin Asleep,
         \A o \in Ops : o # op => pc'[o] = pc[o],
         kind(op) \in Scope => pc[op] \notin {"body", "rebuild"}
  PROVE  FlowStep
  <1>1. \A o \in Ops : ~ Started(o)
    BY DEF Started
  <1>2. QED
    BY <1>1, MildFlows

LEMMA QueueIsSame ==
  ASSUME TypeOK, QueueFits, UNCHANGED <<write, queue>>
  PROVE  QueueStep
  <1>1. \A op \in Ops : (Queued(op)' => Queued(op)) /\ (Sent(op) => Sent(op)')
    BY DEF Queued, Sent
  <1>2. QED
    BY <1>1, QueueStays

LEMMA ReturnFlows ==
  ASSUME TypeOK, QueueFits, NEW op \in Ops, NEW out, NEW kinds, Return(op, out, kinds),
         UNCHANGED <<write, queue>>, pc[op] \notin Asleep,
         kind(op) \in Scope => pc[op] \notin {"body", "rebuild"}
  PROVE  FlowStep
  <1>1. pc'[op] = "done" /\ \A o \in Ops : o # op => pc'[o] = pc[o]
    BY DEF Return, TypeOK
  <1>2. QED
    BY <1>1, QueueIsSame, OneFlows

\* An outcome that is sent comes last in the queue.
LEMMA SubmitFlows ==
  ASSUME TypeOK, QueueFits, OutStep, NEW op \in Ops, pc[op] = "ran", StartAnswered(op),
         NEW update, NEW out, SubmitOutcome(op, update, out)
  PROVE  FlowStep
  <1>1. /\ queue' = queue \o <<op>> /\ pc'[op] = "settling" /\ \A o \in Ops : o # op => pc'[o] = pc[o] /\ write'[o] = write[o]
    BY DEF SubmitOutcome, Submit, TypeOK
  <1>2. Queued(op)'
    <2>1. Outward(op)
      BY DEF OutStep
    <2>2. Submits(op)
      BY <1>1, <2>1, EntryLeads DEF Outward, Idles, Opens, Enters, MayEnter, Advances, Finishes, Gives, Asleep
    <2>3. QED
      BY <2>2 DEF Submits, Queued
  <1>3. ~ Sent(op)
    BY DEF StartAnswered, Sent
  <1>4. <<op>> \in Seq(Ops)
    BY SingletonIsASeq
  <1>5. QueueStep
    <2> DEFINE more == <<op>>
    <2>1. more \in Seq(Ops) /\ ToSet(more) = {op} /\ queue' = queue \o more
          /\ \A i, j \in DOMAIN more : more[i] = more[j] => i = j
      BY <1>1, <1>4, OneIsOnce
    <2> HIDE DEF more
    <2>2. \A o \in ToSet(more) : ~ Sent(o) /\ Queued(o)'
      BY <1>2, <1>3, <2>1
    <2>3. \A o \in Ops : o \notin ToSet(more) => (Queued(o)' => Queued(o)) /\ (Sent(o) => Sent(o)')
      BY <1>1, <2>1 DEF Queued, Sent
    <2>4. QED
      BY <2>1, <2>2, <2>3, QueueGrows
  <1>6. QED
    BY <1>1, <1>5, OneFlows DEF Asleep

\* Operations that only enter.
LEMMA EnterFlows ==
  ASSUME TypeOK, QueueFits, NEW ops \in Seq(Ops), Enter(ops), UNCHANGED <<shape, record, log, returned, reported, crashes>>,
         \A i, j \in DOMAIN ops : ops[i] = ops[j] => i = j,
         \A op \in ToSet(ops) :
           /\ MayEnter(op) /\ ~ Sent(op)
           /\ Started(op) => op = Top \/ \E p \in Ops : op \in ToSet(inputs(p)) /\ Hosts(p)
  PROVE  FlowStep
  <1>1. EnterWith(ops, <<>>) /\ pc' = Entered(ops)
    BY DEF Enter
  <1>2. QueueStep
    <2>1. <<>> \in Seq(Ops) /\ ToSet(<<>>) = {} /\ \A i, j \in DOMAIN <<>> : <<>>[i] = <<>>[j] => i = j
      BY DEF ToSet
    <2>2. ToSet(ops) \cap ToSet(<<>>) = {} /\ ToSet(ops) \cup ToSet(<<>>) = ToSet(ops)
      BY <2>1
    <2>3. \A i, j \in DOMAIN (ops \o <<>>) : (ops \o <<>>)[i] = (ops \o <<>>)[j] => i = j
      BY <2>1, <2>2, BothAreOnce
    <2>4. QED
      BY <1>1, <2>1, <2>2, <2>3, EnteringIsInTurn
  <1>3. \A o \in Ops : pc'[o] = IF o \in ToSet(ops) THEN Entry(o) ELSE pc[o]
    BY <1>1 DEF Entered
  <1>4. \A o \in Ops : Started(o) => o \in ToSet(ops)
    BY <1>3 DEF Started
  <1>5. \A o \in ToSet(ops) : pc[o] \notin {"body", "rebuild"}
    BY DEF MayEnter, Asleep
  <1>6. \A o \in Ops : pc'[o] = pc[o] \/ (kind(o) \in Scope => pc[o] \notin {"body", "rebuild"})
    BY <1>3, <1>5
  <1>7. QED
    BY <1>2, <1>4, <1>6, MildFlows

LEMMA NotSent ==
  ASSUME NEW op, write[op].st = "none" \/ write[op] = NoWrite \/ StartAnswered(op)
  PROVE  ~ Sent(op)
  BY NoWriteIs DEF Sent, StartAnswered

LEMMA OneEntersFlows ==
  ASSUME TypeOK, QueueFits, NEW op \in Ops, Enter(<<op>>), UNCHANGED <<shape, record, log, returned, reported, crashes>>,
         MayEnter(op), ~ Sent(op),
         Started(op) => op = Top \/ \E p \in Ops : op \in ToSet(inputs(p)) /\ Hosts(p)
  PROVE  FlowStep
  <1> DEFINE ops == <<op>>
  <1>1. /\ ops \in Seq(Ops) /\ ToSet(ops) = {op} /\ Enter(ops)
        /\ \A i, j \in DOMAIN ops : ops[i] = ops[j] => i = j
    BY SingletonIsASeq, OneIsOnce
  <1> HIDE DEF ops
  <1>2. \A o \in ToSet(ops) :
           /\ MayEnter(o) /\ ~ Sent(o)
           /\ Started(o) => o = Top \/ \E p \in Ops :
                o \in ToSet(inputs(p)) /\ Hosts(p)
    BY <1>1
  <1>3. QED
    BY <1>1, <1>2, EnterFlows

LEMMA HandlerAwaitsFlows ==
  ASSUME Steady, QueueFits, HandlerAwaits
  PROVE  FlowStep
  <1>1. Top \in Ops
    BY RecordsAssumption
  <1>2. /\ Enter(<<Top>>) /\ UNCHANGED <<shape, record, log, returned, reported, crashes>> /\ pc[Top] = "invoked"
        /\ TypeOK /\ PhaseFits(Top)
    BY <1>1 DEF HandlerAwaits, Steady, InvocationFits, Fits
  <1>3. MayEnter(Top) /\ ~ Sent(Top)
    BY <1>1, <1>2, TypedParts, NotSent DEF MayEnter, PhaseFits, Asleep
  <1>4. QED
    BY <1>1, <1>2, <1>3, OneEntersFlows

LEMMA WaitOverFlows ==
  ASSUME Steady, QueueFits, NEW op \in Ops, WaitOver(op)
  PROVE  FlowStep
  <1>1. TypeOK /\ Fits(op) /\ pc[op] = "wait" /\ log[op].status \notin Unsettled(op)
    BY DEF Steady, InvocationFits, WaitOver
  <1>2. kind(op) \in Awaited \cup {"condition"}
    BY <1>1 DEF Fits, PlaceFits
  <1>3. CASE kind(op) = "condition"
    <2>1. Enter(<<op>>) /\ UNCHANGED <<shape, record, log, returned, reported, crashes>>
      BY <1>3 DEF WaitOver
    <2>2. /\ MayEnter(op) /\ ~ Started(op) /\ ~ Sent(op)
      BY <1>1, <1>3 DEF MayEnter, Unsettled, Awaited, Started, Asleep, Fits, PhaseFits, Sent
    <2>3. QED
      BY <1>1, <2>1, <2>2, OneEntersFlows
  <1>4. CASE kind(op) # "condition"
    <2>1. Return(op, log[op].payload, {}) /\ UNCHANGED <<write, queue>>
      BY <1>4 DEF WaitOver, service
    <2>2. QED
      BY <1>1, <2>1, ReturnFlows DEF Asleep
  <1>5. QED
    BY <1>3, <1>4

LEMMA OperationFlows ==
  ASSUME Steady, QueueFits, OutStep, NEW op \in Ops, OperationStep(op)
  PROVE  FlowStep
  <1>1. TypeOK
    BY DEF Steady
  <1>2. CASE Replay(op)
    BY <1>1, <1>2, ReturnFlows DEF Replay, service, Asleep
  <1>3. CASE StartRecorded(op) \/ BodyReturns(op)
    <2>1. /\ pc[op] = "starting" /\ pc' = [pc EXCEPT ![op] = "wait"] /\ UNCHANGED <<write, queue>>
          \/ /\ pc[op] = "body" /\ pc' = [pc EXCEPT ![op] = "ran"] /\ UNCHANGED <<write, queue>>
             /\ kind(op) \in {"step", "condition"}
      BY <1>3 DEF StartRecorded, BodyReturns, service
    <2>2. pc'[op] \in {"wait", "ran"} /\ \A o \in Ops : o # op => pc'[o] = pc[o]
      BY <1>1, <2>1 DEF TypeOK
    <2>3. QueueStep
      BY <1>1, <2>1, QueueIsSame
    <2>4. QED
      BY <1>1, <2>1, <2>2, <2>3, OneFlows DEF Asleep, Scope
  <1>4. CASE WaitOver(op)
    BY <1>4, WaitOverFlows
  <1>5. CASE SettleStep(op) \/ SettleCheck(op)
    <2>1. /\ pc[op] = "ran" /\ StartAnswered(op)
          /\ \E update, out : SubmitOutcome(op, update, out)
      BY <1>5 DEF SettleStep, SettleCheck, SubmitUnserialized
    <2>2. QED
      BY <1>1, <2>1, SubmitFlows
  <1>6. CASE OutcomeRecorded(op)
    <2>1. /\ pc[op] = "settling" /\ UNCHANGED <<write, queue>>
          /\ pc' = [pc EXCEPT ![op] = "wait"] \/ \E out, kinds : Return(op, out, kinds)
      BY <1>6 DEF OutcomeRecorded, service
    <2>2. pc'[op] \in {"wait", "done"} /\ \A o \in Ops : o # op => pc'[o] = pc[o]
      BY <1>1, <2>1 DEF TypeOK, Return
    <2>3. QED
      BY <1>1, <2>1, <2>2, QueueIsSame, OneFlows DEF Asleep
  <1>7. QED
    BY <1>2, <1>3, <1>4, <1>5, <1>6 DEF OperationStep

\* What ends stops what runs in its scope.
LEMMA StopsFlow ==
  ASSUME TypeOK, InvocationFits, QueueFits, NEW op \in Ops, pc[op] \notin Asleep,
         NEW ops \in SUBSET Ops, NEW theirs \in SUBSET Ops, op \notin theirs, Top \notin theirs,
         \A c \in theirs : Inside[c] \subseteq theirs,
         kind(op) \in Scope => Inside[op] \subseteq theirs,
         CloseScopes(ops), shape' = shape,
         \A o \in Ops : o # op => pc'[o] = IF o \in theirs /\ Unfinished(o) THEN "stopped" ELSE pc[o]
  PROVE  FlowStep
  <1>1. QueueStep
    BY QueueCloses
  <1>2. Inside' = Inside
    BY DEF Inside
  <1>3. \A o \in theirs : pc'[o] \in Ended
    BY DEF Unfinished, Ended
  <1>4. \A o \in Ops : ~ Started(o)
    <2>1. \A o \in Ops : pc[o] = "invoked" => o = Top
      BY DEF InvocationFits, Fits, PlaceFits
    <2>2. QED
      BY <2>1 DEF Started, Asleep, Unfinished
  <1>5. \A o \in Ops : Inside[o] \subseteq theirs => Quiet(o)'
    BY <1>2, <1>3 DEF Quiet
  <1>6. ASSUME NEW o \in Ops
        PROVE  Follows(o)
    <2>1. CASE o = op
      BY <1>5, <2>1 DEF Follows
    <2>2. CASE o # op
      <3>1. pc'[o] = pc[o] \/ o \in theirs
        BY <2>2
      <3>2. QED
        BY <1>5, <3>1 DEF Follows
    <2>3. QED
      BY <2>1, <2>2
  <1>7. QED
    BY <1>1, <1>4, <1>6 DEF FlowStep

LEMMA BodyStartsFlows ==
  ASSUME Steady, QueueFits, NEW op \in Ops, BodyStarts(op)
  PROVE  FlowStep
  <1> DEFINE ops == IF kind(op) \in {"child", "virtual"} THEN inputs(op) ELSE <<Head(inputs(op))>>
  <1>1. /\ TypeOK /\ kind(op) \in Scoped /\ pc[op] \in {"body", "rebuild"} /\ Spawned(op) = {}
        /\ Enter(ops) /\ UNCHANGED <<shape, record, log, returned, reported, crashes>>
    BY DEF BodyStarts, Running, Steady
  <1>2. /\ inputs(op) \in Seq(Ops) /\ inputs(op) # <<>> /\ DOMAIN inputs(op) = 1 .. Len(inputs(op))
        /\ ToSet(inputs(op)) \subseteq Ops
    BY <1>1, TypedParts DEF Scoped
  <1>3. Head(inputs(op)) \in Ops /\ Head(inputs(op)) \in ToSet(inputs(op))
    <2>1. Head(inputs(op)) = inputs(op)[1] /\ 1 \in DOMAIN inputs(op)
      BY <1>2
    <2>2. QED
      BY <1>2, <2>1 DEF ToSet
  <1>4. /\ ops \in Seq(Ops) /\ ToSet(ops) \subseteq ToSet(inputs(op))
        /\ \A i, j \in DOMAIN ops : ops[i] = ops[j] => i = j
    <2>1. CASE kind(op) \in {"child", "virtual"}
      <3>1. ops = inputs(op)
        BY <2>1
      <3>2. QED
        BY <1>1, <1>2, <3>1, InsideIsATree
    <2>2. CASE kind(op) \notin {"child", "virtual"}
      <3>1. ops = <<Head(inputs(op))>>
        BY <2>2
      <3>2. QED
        BY <1>3, <3>1, SingletonIsASeq, OneIsOnce
    <2>3. QED
      BY <2>1, <2>2
  <1>5. \A o \in ToSet(inputs(op)) : pc[o] = "off"
    BY <1>1 DEF Spawned, ToSet
  <1> HIDE DEF ops
  <1>6. Hosts(op)
    BY <1>1 DEF Hosts
  <1>7. ASSUME NEW o \in ToSet(ops)
        PROVE  /\ MayEnter(o) /\ ~ Sent(o)
               /\ \E p \in Ops : o \in ToSet(inputs(p)) /\ Hosts(p)
    <2>1. o \in Ops /\ o \in ToSet(inputs(op)) /\ pc[o] = "off" /\ kind(o) # "none"
      BY <1>1, <1>2, <1>4, <1>5, TypedParts
    <2>2. write[o] = NoWrite
      BY <2>1 DEF Steady, InvocationFits, Fits, PhaseFits, Asleep
    <2>3. QED
      BY <1>6, <2>1, <2>2, NotSent DEF MayEnter, Asleep
  <1>8. QED
    BY <1>1, <1>4, <1>7, EnterFlows

LEMMA BodyGoesOnFlows ==
  ASSUME Steady, QueueFits, NEW op \in Ops, BodyGoesOn(op)
  PROVE  FlowStep
  <1>1. /\ TypeOK /\ kind(op) \in Scoped /\ pc[op] \in {"body", "rebuild"}
        /\ UNCHANGED <<shape, record, log, returned, reported, crashes>>
    BY DEF BodyGoesOn, Running, Steady
  <1>2. PICK n \in 1 .. Len(inputs(op)) - 1 : Spawned(op) = 1 .. n /\ Enter(<<inputs(op)[n + 1]>>)
    BY DEF BodyGoesOn
  <1>3. inputs(op) \in Seq(Ops) /\ DOMAIN inputs(op) = 1 .. Len(inputs(op)) /\ Len(inputs(op)) \in Nat
    BY <1>1, TypedParts
  <1>4. n + 1 \in DOMAIN inputs(op) /\ n + 1 \notin Spawned(op)
    BY <1>2, <1>3
  <1> DEFINE o == inputs(op)[n + 1]
  <1>5. o \in Ops /\ o \in ToSet(inputs(op)) /\ pc[o] = "off" /\ Enter(<<o>>)
    BY <1>2, <1>3, <1>4 DEF Spawned, ToSet
  <1> HIDE DEF o
  <1>6. write[o] = NoWrite /\ kind(o) # "none"
    BY <1>1, <1>5, TypedParts DEF Steady, InvocationFits, Fits, PhaseFits, Asleep
  <1>7. Hosts(op)
    BY <1>1 DEF Hosts
  <1>8. QED
    BY <1>1, <1>5, <1>6, <1>7, NotSent, OneEntersFlows DEF MayEnter, Asleep

LEMMA ContextFlows ==
  ASSUME Steady, QueueFits, OutStep, NEW op \in Ops, ContextStep(op)
  PROVE  FlowStep
  <1>1. TypeOK /\ InvocationFits
    BY DEF Steady
  <1>2. CASE BodyStarts(op) \/ BodyGoesOn(op)
    BY <1>2, BodyStartsFlows, BodyGoesOnFlows
  <1>3. CASE LiveBodyReturns(op) \/ RebuildReturns(op)
    <2>1. /\ kind(op) \in Scoped /\ kind(op) # "virtual" /\ pc[op] \in {"body", "rebuild"}
          /\ CloseScopes({op}) /\ shape' = shape
          /\ \E next \in {"ran", "done"} : pc' = [Stopped(Inside[op]) EXCEPT ![op] = next]
      BY <1>3 DEF LiveBodyReturns, RebuildReturns, Running
    <2>2. /\ Inside[op] \in SUBSET Ops /\ op \notin Inside[op] /\ Top \notin Inside[op]
          /\ \A c \in Inside[op] : Inside[c] \subseteq Inside[op]
      BY <1>1, InsideIsATree
    <2>3. pc[op] \notin Asleep
      BY <2>1 DEF Asleep
    <2>4. \A o \in Ops : o # op => pc'[o] = IF o \in Inside[op] /\ Unfinished(o) THEN "stopped" ELSE pc[o]
      BY <2>1 DEF Stopped
    <2>5. QED
      BY <1>1, <2>1, <2>2, <2>3, <2>4, StopsFlow
  <1>4. CASE VirtualReturns(op)
    <2>1. kind(op) = "virtual" /\ pc[op] \in {"body", "rebuild"} /\ UNCHANGED <<write, queue>> /\ \E out : Return(op, out, {})
      BY <1>4 DEF VirtualReturns, Running, service
    <2>2. QED
      BY <1>1, <2>1, ReturnFlows DEF Asleep, Scope
  <1>5. CASE SettleContext(op)
    <2>1. pc[op] = "ran" /\ StartAnswered(op) /\ \E update, out : SubmitOutcome(op, update, out)
      BY <1>5 DEF SettleContext, SubmitUnserialized
    <2>2. QED
      BY <1>1, <2>1, SubmitFlows
  <1>6. QED
    BY <1>2, <1>3, <1>4, <1>5 DEF ContextStep

LEMMA BeginInputsFlows ==
  ASSUME Steady, QueueFits, NEW op \in Ops, BeginInputs(op)
  PROVE  FlowStep
  <1> DEFINE last == IF NeedsStart(op) THEN <<op>> ELSE <<>>
  <1>1. /\ TypeOK /\ kind(op) \in Combinator /\ pc[op] = "inputs" /\ EnterWith(inputs(op), last)
        /\ pc' = [Entered(inputs(op)) EXCEPT ![op] = "join"]
    BY DEF BeginInputs, Steady
  <1>2. /\ inputs(op) \in Seq(Ops) /\ ToSet(inputs(op)) \subseteq Ops /\ op \notin ToSet(inputs(op))
        /\ \A i, j \in DOMAIN inputs(op) : inputs(op)[i] = inputs(op)[j] => i = j
        /\ \A o \in ToSet(inputs(op)) : pc[o] = "off" /\ ~ Sent(o)
    <2>1. inputs(op) \in Seq(Ops) /\ ToSet(inputs(op)) \subseteq Ops /\ op \notin ToSet(inputs(op))
      BY <1>1, TypedParts, InsideIsATree
    <2>2. \A o \in ToSet(inputs(op)) : pc[o] = "off"
      BY <1>1 DEF Steady, InvocationFits, InputsWait
    <2>3. \A o \in ToSet(inputs(op)) : write[o] = NoWrite
      BY <2>1, <2>2 DEF Steady, InvocationFits, Fits, PhaseFits, Asleep
    <2>4. \A i, j \in DOMAIN inputs(op) : inputs(op)[i] = inputs(op)[j] => i = j
      BY <1>1, InsideIsATree
    <2>5. QED
      BY <2>1, <2>2, <2>3, <2>4, NotSent
  <1>3. /\ last \in Seq(Ops) /\ ToSet(last) \subseteq {op}
        /\ \A i, j \in DOMAIN last : last[i] = last[j] => i = j
    <2>1. <<op>> \in Seq(Ops) /\ <<>> \in Seq(Ops) /\ ToSet(<<>>) = {} /\ DOMAIN <<>> = {}
      BY SingletonIsASeq DEF ToSet
    <2>2. QED
      BY <2>1, OneIsOnce
  <1> HIDE DEF last
  <1>4. ~ Sent(op)
    BY <1>1, NotSent DEF Steady, InvocationFits, Fits, PhaseFits
  <1>5. QueueStep
    <2>1. ToSet(inputs(op)) \cap ToSet(last) = {}
      BY <1>2, <1>3
    <2>2. \A i, j \in DOMAIN (inputs(op) \o last) : (inputs(op) \o last)[i] = (inputs(op) \o last)[j] => i = j
      BY <1>2, <1>3, <2>1, BothAreOnce
    <2>3. QED
      BY <1>1, <1>2, <1>3, <1>4, <2>2, EnteringIsInTurn
  <1>6. /\ pc'[op] = "join"
        /\ \A o \in Ops : o # op => pc'[o] = IF o \in ToSet(inputs(op)) THEN Entry(o) ELSE pc[o]
    BY <1>1, <1>2 DEF Entered
  <1>7. \A o \in Ops : pc'[o] = pc[o] \/ (kind(o) \in Scope => pc[o] \notin {"body", "rebuild"})
    BY <1>1, <1>2, <1>6
  <1>8. Hosts(op)
    BY <1>1 DEF Hosts
  <1>9. \A o \in Ops : Started(o) => o \in ToSet(inputs(op))
    BY <1>1, <1>6 DEF Started, Asleep
  <1>10. QED
    BY <1>1, <1>5, <1>7, <1>8, <1>9, MildFlows

LEMMA RebuildFlows ==
  ASSUME Steady, QueueFits, NEW op \in Ops, Rebuild(op)
  PROVE  FlowStep
  <1> DEFINE again == IF kind(op) \in Select THEN <<inputs(op)[log[op].winner]>> ELSE inputs(op)
  <1>1. /\ TypeOK /\ kind(op) \in Combinator /\ pc[op] = "rebuild" /\ EnterWith(again, <<>>)
        /\ pc' = [Entered(again) EXCEPT ![op] = "rejoin"]
    BY DEF Rebuild, Steady
  <1>2. /\ inputs(op) \in Seq(Ops) /\ ToSet(inputs(op)) \subseteq Ops /\ op \notin ToSet(inputs(op))
        /\ \A i, j \in DOMAIN inputs(op) : inputs(op)[i] = inputs(op)[j] => i = j
        /\ \A o \in ToSet(inputs(op)) : pc[o] = "off" /\ ~ Sent(o)
    <2>1. inputs(op) \in Seq(Ops) /\ ToSet(inputs(op)) \subseteq Ops /\ op \notin ToSet(inputs(op))
      BY <1>1, TypedParts, InsideIsATree
    <2>2. \A o \in ToSet(inputs(op)) : pc[o] = "off"
      BY <1>1 DEF Steady, InvocationFits, InputsWait
    <2>3. \A o \in ToSet(inputs(op)) : write[o] = NoWrite
      BY <2>1, <2>2 DEF Steady, InvocationFits, Fits, PhaseFits, Asleep
    <2>4. \A i, j \in DOMAIN inputs(op) : inputs(op)[i] = inputs(op)[j] => i = j
      BY <1>1, InsideIsATree
    <2>5. QED
      BY <2>1, <2>2, <2>3, <2>4, NotSent
  <1>3. /\ again \in Seq(Ops) /\ ToSet(again) \subseteq ToSet(inputs(op))
        /\ \A i, j \in DOMAIN again : again[i] = again[j] => i = j
        /\ kind(op) \in Select => ToSet(again) = {inputs(op)[log[op].winner]}
    <2>1. CASE kind(op) \in Select
      <3>1. log[op].winner \in DOMAIN inputs(op)
        BY <1>1, <2>1, WinnerIsAnInput DEF Steady, InvocationFits, Indices
      <3>2. inputs(op)[log[op].winner] \in Ops /\ inputs(op)[log[op].winner] \in ToSet(inputs(op))
        BY <1>2, <3>1 DEF ToSet
      <3>3. again = <<inputs(op)[log[op].winner]>>
        BY <2>1
      <3>4. QED
        BY <3>2, <3>3, SingletonIsASeq, OneIsOnce
    <2>2. CASE kind(op) \notin Select
      <3>1. again = inputs(op)
        BY <2>2
      <3>2. QED
        BY <1>2, <2>2, <3>1
    <2>3. QED
      BY <2>1, <2>2
  <1> HIDE DEF again
  <1>4. QueueStep
    <2>1. <<>> \in Seq(Ops) /\ ToSet(<<>>) = {} /\ \A i, j \in DOMAIN <<>> : <<>>[i] = <<>>[j] => i = j
      BY DEF ToSet
    <2>2. ToSet(again) \cap ToSet(<<>>) = {}
      BY <2>1
    <2>3. \A i, j \in DOMAIN (again \o <<>>) : (again \o <<>>)[i] = (again \o <<>>)[j] => i = j
      BY <1>3, <2>1, <2>2, BothAreOnce
    <2>4. \A o \in ToSet(again) \cup ToSet(<<>>) : ~ Sent(o)
      BY <1>2, <1>3, <2>1
    <2>5. QED
      BY <1>1, <1>3, <2>1, <2>3, <2>4, EnteringIsInTurn
  <1>5. /\ pc'[op] = "rejoin"
        /\ \A o \in Ops : o # op => pc'[o] = IF o \in ToSet(again) THEN Entry(o) ELSE pc[o]
    BY <1>1, <1>2, <1>3 DEF Entered
  <1>6. Hosts(op) /\ kind(op) \notin Scope
    BY <1>1 DEF Hosts, Combinator, Scope
  <1>7. \A o \in Ops : Started(o) => o \in ToSet(inputs(op))
    BY <1>1, <1>3, <1>5 DEF Started, Asleep
  <1>8. \A o \in Ops : pc'[o] = pc[o] \/ (kind(o) \in Scope => pc[o] \notin {"body", "rebuild"})
    BY <1>2, <1>3, <1>5, <1>6
  <1>9. QED
    BY <1>4, <1>6, <1>7, <1>8, MildFlows

LEMMA JoinReturnsFlows ==
  ASSUME Steady, QueueFits, NEW op \in Ops, JoinReturns(op)
  PROVE  FlowStep
  <1>1. /\ TypeOK /\ kind(op) \in Combinator /\ pc[op] = "join" /\ UNCHANGED <<write, queue>>
        /\ pc' = [pc EXCEPT ![op] = "ran"]
    BY DEF JoinReturns, service, Steady
  <1>2. \A o \in Ops : o # op => pc'[o] = pc[o]
    BY <1>1
  <1>3. QED
    BY <1>1, <1>2, QueueIsSame, OneFlows DEF Asleep

LEMMA LoserStopsFlows ==
  ASSUME Steady, QueueFits, NEW op \in Ops, LoserStops(op)
  PROVE  FlowStep
  <1> DEFINE theirs == IF kind(op) \in Scope THEN Inside[op] ELSE {}
  <1>1. /\ TypeOK /\ InvocationFits /\ Unfinished(op) /\ Abandoned(op) /\ CloseScopes({op}) /\ shape' = shape
        /\ pc' = Stopped({op} \cup theirs)
    BY DEF LoserStops, Steady
  <1>2. /\ Inside[op] \in SUBSET Ops /\ op \notin Inside[op] /\ Top \notin Inside[op]
        /\ \A c \in Inside[op] : Inside[c] \subseteq Inside[op]
    BY <1>1, InsideIsATree
  <1>3. op # Top
    <2>1. PICK p \in Ops : op \in ToSet(inputs(p))
      BY <1>1 DEF Abandoned
    <2>2. QED
      BY <1>1, <2>1, InsideIsATree
  <1>4. pc[op] \notin Asleep
    <2>1. pc[op] = "invoked" => op = Top
      BY <1>1 DEF InvocationFits, Fits, PlaceFits
    <2>2. QED
      BY <1>1, <1>3, <2>1 DEF Unfinished, Asleep
  <1>5. /\ theirs \in SUBSET Ops /\ op \notin theirs /\ Top \notin theirs
        /\ \A c \in theirs : Inside[c] \subseteq theirs
        /\ kind(op) \in Scope => Inside[op] \subseteq theirs
    BY <1>2
  <1> HIDE DEF theirs
  <1>6. \A o \in Ops : o # op => pc'[o] = IF o \in theirs /\ Unfinished(o) THEN "stopped" ELSE pc[o]
    BY <1>1 DEF Stopped
  <1>7. QED
    BY <1>1, <1>4, <1>5, <1>6, StopsFlow

LEMMA RejoinReturnsFlows ==
  ASSUME Steady, QueueFits, NEW op \in Ops, RejoinReturns(op)
  PROVE  FlowStep
  <1>1. /\ TypeOK /\ pc[op] = "rejoin" /\ UNCHANGED <<write, queue>>
        /\ \E out : Return(op, out, {})
    BY DEF RejoinReturns, Steady, service
  <1>2. QED
    BY <1>1, ReturnFlows DEF Asleep

LEMMA HandleReturnsFlows ==
  ASSUME Steady, QueueFits, NEW op \in Ops, HandleReturns(op)
  PROVE  FlowStep
  <1>1. /\ TypeOK /\ kind(op) = "handle" /\ pc[op] = "body" /\ UNCHANGED <<write, queue>>
        /\ \E out : Return(op, out, {})
    BY DEF HandleReturns, Steady, service
  <1>2. QED
    BY <1>1, ReturnFlows DEF Asleep, Scope

LEMMA CombinatorFlows ==
  ASSUME Steady, QueueFits, OutStep, NEW op \in Ops, CombinatorStep(op)
  PROVE  FlowStep
  <1>1. TypeOK
    BY DEF Steady
  <1>2. CASE SettleCombinator(op)
    <2>1. pc[op] = "ran" /\ StartAnswered(op)
      BY <1>2 DEF SettleCombinator
    <2>2. CASE fatal
      <3>1. pc' = [pc EXCEPT ![op] = "done"] /\ UNCHANGED <<write, queue>>
        BY <1>2, <2>2 DEF SettleCombinator
      <3>2. pc'[op] = "done" /\ \A o \in Ops : o # op => pc'[o] = pc[o]
        BY <1>1, <3>1 DEF TypeOK
      <3>3. QED
        BY <1>1, <2>1, <3>1, <3>2, QueueIsSame, OneFlows DEF Asleep
    <2>3. CASE ~ fatal
      BY <1>1, <1>2, <2>1, <2>3, SubmitFlows DEF SettleCombinator
    <2>4. QED
      BY <2>2, <2>3
  <1>3. QED
    BY <1>2, BeginInputsFlows, RebuildFlows, JoinReturnsFlows, LoserStopsFlows, RejoinReturnsFlows,
       HandleReturnsFlows DEF CombinatorStep

LEMMA WorkFlows ==
  ASSUME Steady, QueueFits, OutStep, Work
  PROVE  FlowStep
  BY HandlerAwaitsFlows, OperationFlows, ContextFlows, CombinatorFlows DEF Work

\* What is inside an operation is inside one of its inputs, or is one, and is
\* an input of something there.
LEMMA InsideIsMade ==
  ASSUME TypeOK, NEW op \in Ops
  PROVE  /\ \A o \in Inside[op] : \E i \in ToSet(inputs(op)) : o = i \/ o \in Inside[i]
         /\ \A o \in Inside[op], p \in Ops : o \in ToSet(inputs(p)) => p = op \/ p \in Inside[op]
  <1> DEFINE ins == shape.inputs
             Grow(ops) == ops \cup UNION {ToSet(ins[o]) : o \in ops}
             first == ToSet(inputs(op))
             Under(o) == \E i \in first : o = i \/ o \in Inside[i]
             Housed(o) == \A p \in Ops : o \in ToSet(inputs(p)) => p = op \/ p \in Inside[op]
  <1>1. Inside[op] = Grow(Grow(Grow(first))) /\ \A o \in Ops : ins[o] = inputs(o)
    BY DEF Inside, Within, inputs
  <1>2. /\ first \subseteq Inside[op] /\ Inside[op] \subseteq Ops
        /\ \A o \in Ops : /\ ToSet(inputs(o)) \subseteq Inside[o] /\ Inside[o] \subseteq Ops
                          /\ \A c \in Inside[o] : Inside[c] \subseteq Inside[o]
    BY InsideIsATree
  <1>3. \A o, p, c \in Ops : o \in ToSet(inputs(p)) /\ o \in ToSet(inputs(c)) => p = c
    BY InsideIsATree DEF ToSet
  <1> HIDE DEF first
  <1>4. \A ops : ops \subseteq Grow(ops)
    OBVIOUS
  <1>5. ASSUME NEW ops \in SUBSET Inside[op], \A o \in ops : Under(o) /\ Housed(o)
        PROVE  \A o \in Grow(ops) : Under(o) /\ Housed(o)
    <2> SUFFICES ASSUME NEW o \in Grow(ops), o \notin ops
                 PROVE  Under(o) /\ Housed(o)
      BY <1>5
    <2>1. PICK c \in ops : o \in ToSet(inputs(c))
      BY <1>1, <1>2
    <2>2. c \in Ops /\ c \in Inside[op] /\ o \in Inside[c] /\ o \in Ops
      BY <1>2, <2>1
    <2>3. Under(o)
      <3>1. PICK i \in first : c = i \/ c \in Inside[i]
        BY <1>5
      <3>2. i \in Ops
        BY <1>2
      <3>3. o \in Inside[i]
        BY <1>2, <2>2, <3>1, <3>2
      <3>4. QED
        BY <3>3
    <2>4. Housed(o)
      BY <1>3, <2>1, <2>2
    <2>5. QED
      BY <2>3, <2>4
  <1>6. \A o \in first : Under(o) /\ Housed(o)
    <2>1. \A o \in first : o \in Ops /\ o \in ToSet(inputs(op))
      BY <1>2 DEF first
    <2>2. QED
      BY <1>3, <2>1
  <1> HIDE DEF Grow, Under, Housed
  <1>7. /\ first \subseteq Grow(first) /\ Grow(first) \subseteq Grow(Grow(first))
        /\ Grow(Grow(first)) \subseteq Inside[op]
    BY <1>1, <1>4
  <1>8. \A o \in Grow(first) : Under(o) /\ Housed(o)
    BY <1>2, <1>5, <1>6
  <1>9. \A o \in Grow(Grow(first)) : Under(o) /\ Housed(o)
    BY <1>5, <1>7, <1>8
  <1>10. \A o \in Inside[op] : Under(o) /\ Housed(o)
    BY <1>1, <1>5, <1>7, <1>9
  <1>11. QED
    BY <1>10 DEF Under, Housed, first

\* A context that bounds what is inside it.
Bounded(op) == kind(op) \in Scope

\* It has an outcome, or it is not what has a record.
Over(op) ==
  \/ record[op].status \in Terminal /\ ~ record[op].children
  \/ record[op].kind \notin {"none", kind(op)}

\* What is queued inside it goes before its outcome.
OrderFits(op) ==
  Bounded(op) => \A o \in Inside[op] : Queued(o) =>
    /\ ~ Over(op)
    /\ write[op].action \in Final => Queued(op) /\ Before(o, op)

\* Nothing goes on in a scope but while its body runs.
QuietFits(op) == Bounded(op) /\ pc[op] \notin {"body", "rebuild"} => Quiet(op)

FlowInv ==
  /\ OutInv /\ QueueFits
  /\ \A op \in Ops : OrderFits(op)
  /\ AtWork => \A op \in Ops : QuietFits(op)

\* What has ended goes on only if it is started.
LEMMA EndedStays ==
  ASSUME NEW o \in Ops, Outward(o), pc[o] \in Ended, ~ Started(o)
  PROVE  pc'[o] \in Ended
  <1>1. CASE Idles(o)
    BY <1>1 DEF Idles, Ended
  <1>2. CASE Opens(o)
    BY <1>2, EntryLeads DEF Opens, Enters, MayEnter, Ended, Started, Asleep
  <1>3. CASE Advances(o)
    BY <1>3 DEF Advances, Ended
  <1>4. CASE Finishes(o) \/ Submits(o)
    BY <1>4 DEF Finishes, Submits, Ended
  <1>5. CASE Gives(o)
    BY <1>5 DEF Gives, Ended
  <1>6. QED
    BY <1>1, <1>2, <1>3, <1>4, <1>5 DEF Outward

LEMMA QuietStays ==
  ASSUME TypeOK, shape' = shape, OutStep, FlowStep, NEW op \in Ops, Quiet(op), ~ Hosts(op)
  PROVE  Quiet(op)'
  <1>1. Inside' = Inside /\ Inside[op] \subseteq Ops /\ Top \notin Inside[op]
    BY InsideIsATree DEF Inside
  <1> SUFFICES ASSUME NEW o \in Inside[op], pc'[o] \notin Ended
               PROVE  FALSE
    BY <1>1 DEF Quiet
  <1>2. o \in Ops /\ o # Top /\ pc[o] \in Ended /\ Outward(o)
    BY <1>1 DEF Quiet, OutStep
  <1>3. Started(o)
    BY <1>2, EndedStays
  <1>4. PICK p \in Ops : o \in ToSet(inputs(p)) /\ Hosts(p)
    BY <1>2, <1>3 DEF FlowStep
  <1>5. p \in Inside[op]
    BY <1>4, InsideIsMade
  <1>6. pc[p] \in Ended
    BY <1>5 DEF Quiet
  <1>7. QED
    BY <1>4, <1>6 DEF Hosts, Ended

\* An operation that may start its inputs has no outcome, and sends none yet.
LEMMA HostsAreOpen ==
  ASSUME Steady, RecordsFit, NEW op \in Ops, Hosts(op), Bounded(op)
  PROVE  ~ Over(op) /\ write[op].action \notin Final
  <1>1. Fits(op) /\ KeptFits(op) /\ RecordFits(op) /\ OpTyped(op)
    BY TypedParts DEF Steady, InvocationFits, Fits
  <1>2. kind(op) \notin Unrecorded \cup {"condition"}
    BY DEF Bounded, Scope, Unrecorded
  <1>3. pc[op] \in {"body", "inputs", "rebuild"}
    BY DEF Hosts
  <1>4. record[op].kind \in {"none", kind(op)}
    <2>1. ~ Mismatched(op)
      BY <1>1, <1>3 DEF Fits, PlaceFits, Asleep
    <2>2. log[op].kind # "none" => Identity(log[op].kind) = Identity(kind(op))
      BY <2>1 DEF Mismatched
    <2>3. log[op].kind = record[op].kind \/ (log[op].kind = "none" /\ record[op].kind = kind(op))
      BY <1>1 DEF Fits, LogFits
    <2>4. QED
      BY <1>1, <2>2, <2>3 DEF KeptFits
  <1>5. write[op].action \in {"NONE", "START"}
    <2>1. CASE pc[op] \in {"body", "inputs"}
      BY <1>1, <1>2, <2>1 DEF Fits, PhaseFits, Working
    <2>2. CASE pc[op] = "rebuild"
      BY <1>1, <2>2, NoWriteIs DEF Fits, PhaseFits
    <2>3. QED
      BY <1>3, <2>1, <2>2
  <1>6. record[op].status \in Terminal => record[op].children
    <2>1. CASE pc[op] = "rebuild"
      BY <1>1, <2>1 DEF KeptFits
    <2>2. CASE pc[op] = "inputs"
      BY <1>1, <2>2 DEF Fits, PhaseFits, Terminal
    <2>3. CASE pc[op] = "body" /\ write[op].st = "queued"
      BY <1>1, <1>2, <1>5, <2>3 DEF Fits, WriteFits, Terminal
    <2>4. CASE pc[op] = "body" /\ write[op].st # "queued"
      BY <1>1, <1>2, <2>4 DEF Fits, PhaseFits, Working, Terminal
    <2>5. QED
      BY <1>3, <2>1, <2>2, <2>3, <2>4
  <1>7. QED
    BY <1>4, <1>5, <1>6 DEF Over, Final

\* An update is new when its operation is entered, begins or sends its
\* outcome; an outcome only then.
LEMMA NewUpdates ==
  ASSUME NEW op \in Ops, Outward(op)
  PROVE  /\ Queued(op)' /\ ~ Queued(op) => Started(op) \/ pc[op] \notin Ended
         /\ write'[op].action \in Final => write'[op] = write[op] \/ Submits(op)
  <1>1. Update("START", Nothing).action = "START" /\ NoWrite.action = "NONE" /\ NoWrite.st = "none"
    BY NoWriteIs DEF Update, NoWrite
  <1>2. CASE Idles(op)
    BY <1>1, <1>2 DEF Idles, Queued, Final
  <1>3. CASE Opens(op)
    <2>1. write'[op].action \notin Final
      BY <1>1, <1>3 DEF Opens, Enters, Final
    <2>2. Started(op) \/ pc[op] \notin Ended
      BY <1>3, EntryLeads DEF Opens, Enters, MayEnter, Started, Asleep, Ended
    <2>3. QED
      BY <2>1, <2>2
  <1>4. CASE Advances(op)
    BY <1>1, <1>4 DEF Advances, Queued, Final, Ended
  <1>5. CASE Finishes(op)
    BY <1>5 DEF Finishes, Queued
  <1>6. CASE Submits(op)
    BY <1>6 DEF Submits, Ended
  <1>7. CASE Gives(op)
    BY <1>7 DEF Gives, Queued
  <1>8. QED
    BY <1>2, <1>3, <1>4, <1>5, <1>6, <1>7 DEF Outward

\* What sends its outcome had its START answered, and nothing inside it goes on.
LEMMA SendersAreQuiet ==
  ASSUME NEW op \in Ops, Local(op), QuietFits(op), Bounded(op), Submits(op)
  PROVE  ~ Queued(op) /\ Queued(op)' /\ Quiet(op) /\ ~ Hosts(op)
  <1>1. pc[op] = "ran" /\ pc'[op] = "settling" /\ Queued(op)'
    BY DEF Submits, Queued
  <1>2. Sends(op)
    BY <1>1 DEF Local, Rests, Enters, MayEnter, Begins, Moves, IsRecorded, IsAnswered, IsRefreshed, IsServed, Asleep
  <1>3. ~ Queued(op)
    BY <1>2 DEF Sends, StartAnswered, Queued
  <1>4. QED
    BY <1>1, <1>3 DEF QuietFits, Hosts

LEMMA OrderIsKept ==
  ASSUME Steady, RecordsFit, StepFits, OutStep, FlowStep, NEW op \in Ops, OrderFits(op),
         QuietFits(op)
  PROVE  OrderFits(op)'
  <1>1. /\ TypeOK /\ shape' = shape /\ Local(op)
        /\ \A o \in Ops : Outward(o)
    BY DEF Steady, StepFits, OutStep
  <1>2. /\ kind(op)' = kind(op) /\ Inside' = Inside /\ record'[op] = record[op]
        /\ Inside[op] \subseteq Ops /\ Top \notin Inside[op]
        /\ \A o \in Ops : kind(o)' = kind(o)
    BY <1>1, InsideIsATree DEF kind, Inside, Outward, SameBooks
  <1>3. Bounded(op)' = Bounded(op) /\ Over(op)' = Over(op)
    BY <1>2 DEF Bounded, Over
  <1> SUFFICES ASSUME Bounded(op), NEW o \in Inside[op], Queued(o)'
               PROVE  /\ ~ Over(op)
                      /\ write'[op].action \in Final => Queued(op)' /\ Before(o, op)'
    BY <1>2, <1>3 DEF OrderFits
  <1>4. o \in Ops /\ o # Top
    BY <1>2
  <1>5. CASE Queued(o)
    <2>1. ~ Over(op) /\ (write[op].action \in Final => Queued(op) /\ Before(o, op))
      BY <1>5 DEF OrderFits
    <2>2. CASE write'[op] = write[op]
      <3>1. write'[op].action \in Final => Queued(op) /\ Queued(op)' /\ Before(o, op)
        BY <2>1, <2>2 DEF Queued
      <3>2. QED
        BY <1>4, <1>5, <2>1, <3>1 DEF FlowStep, QueueStep, InTurn
    <2>3. CASE Submits(op)
      <3>1. ~ Queued(op) /\ Queued(op)'
        BY <1>1, <2>3, SendersAreQuiet
      <3>2. QED
        BY <1>4, <1>5, <2>1, <3>1 DEF FlowStep, QueueStep, InTurn
    <2>4. QED
      BY <1>1, <2>1, <2>2, <2>3, NewUpdates
  <1>6. CASE ~ Queued(o)
    <2>1. Hosts(op) \/ ~ Quiet(op)
      <3>1. CASE Started(o)
        <4>1. PICK p \in Ops : o \in ToSet(inputs(p)) /\ Hosts(p)
          BY <1>4, <3>1 DEF FlowStep
        <4>2. p = op \/ p \in Inside[op]
          BY <1>1, <4>1, InsideIsMade
        <4>3. pc[p] \notin Ended
          BY <4>1 DEF Hosts, Ended
        <4>4. QED
          BY <4>1, <4>2, <4>3 DEF Quiet
      <3>2. CASE pc[o] \notin Ended
        BY <3>2 DEF Quiet
      <3>3. QED
        BY <1>1, <1>4, <1>6, <3>1, <3>2, NewUpdates
    <2>2. ~ Over(op) /\ write[op].action \notin Final
      <3>1. CASE Hosts(op)
        BY <3>1, HostsAreOpen
      <3>2. CASE ~ Quiet(op)
        <4>1. Hosts(op)
          BY <3>2 DEF QuietFits, Hosts, Bounded, Scoped
        <4>2. QED
          BY <4>1, HostsAreOpen
      <3>3. QED
        BY <2>1, <3>1, <3>2
    <2>3. ~ Submits(op)
      BY <1>1, <2>1, SendersAreQuiet
    <2>4. QED
      BY <1>1, <2>2, <2>3, NewUpdates
  <1>7. QED
    BY <1>5, <1>6

LEMMA QuietIsKept ==
  ASSUME Steady, StepFits, OutStep, FlowStep, NEW op \in Ops, QuietFits(op)
  PROVE  QuietFits(op)'
  <1>1. TypeOK /\ shape' = shape /\ Follows(op)
    BY DEF Steady, StepFits, FlowStep
  <1>2. kind(op)' = kind(op)
    BY <1>1 DEF kind
  <1> SUFFICES ASSUME Bounded(op), pc'[op] \notin {"body", "rebuild"}
               PROVE  Quiet(op)'
    BY <1>2 DEF QuietFits, Bounded
  <1>3. CASE pc[op] \in {"body", "rebuild"}
    BY <1>1, <1>3 DEF Follows, Bounded
  <1>4. CASE pc[op] \notin {"body", "rebuild"}
    <2>1. Quiet(op)
      BY <1>4 DEF QuietFits
    <2>2. ~ Hosts(op)
      BY <1>4 DEF Hosts, Bounded, Scope, Combinator
    <2>3. QED
      BY <1>1, <2>1, <2>2, QuietStays
  <1>5. QED
    BY <1>3, <1>4

LEMMA WorkKeepsFlow ==
  ASSUME FlowInv, Work, OutInv'
  PROVE  FlowInv'
  <1>1. IInv /\ AtWork /\ IInv'
    BY WorkIsAtWork DEF FlowInv, OutInv
  <1>2. Steady /\ RecordsFit /\ TypeOK /\ InvocationFits /\ QueueFits /\ \A op \in Ops : OrderFits(op) /\ QuietFits(op)
    BY <1>1 DEF FlowInv, OutInv, IInv, Steady
  <1>3. StepFits /\ OutStep
    BY <1>1, <1>2, WorkFits, WorkOut DEF IInv, Steady
  <1>4. FlowStep
    BY <1>2, <1>3, WorkFlows
  <1>5. \A op \in Ops : OrderFits(op)'
    BY <1>2, <1>3, <1>4, OrderIsKept
  <1>6. QueueFits'
    BY <1>4 DEF FlowStep, QueueStep
  <1>7. ASSUME AtWork'
        PROVE  \A op \in Ops : QuietFits(op)'
    BY <1>2, <1>3, <1>4, QuietIsKept
  <1>8. QED
    BY <1>5, <1>6, <1>7 DEF FlowInv

\* The service takes the updates in the order of the queue.
LEMMA ServiceIsInTurn ==
  ASSUME TypeOK, RecordsFit, QueueFits, Service
  PROVE  /\ QueueStep
         /\ \A op \in Ops : write'[op] # write[op] => queue # <<>> /\ op = queue[1]
         /\ \A op \in Ops : Queued(op)' => Queued(op)
  <1>1. /\ queue \in Seq(Ops) /\ Len(queue) \in Nat /\ DOMAIN queue = 1 .. Len(queue)
        /\ \A i \in DOMAIN queue : queue[i] \in Ops
        /\ queue # <<>> => Head(queue) = queue[1] /\ queue[1] \in Ops /\ Len(queue) >= 1
    BY ElementOfSeq, LenProperties, EmptySeq DEF TypeOK
  <1>2. CASE RecordUpdate
    <2> DEFINE op == queue[1]
    <2>1. queue # <<>> /\ op = Head(queue) /\ op \in Ops /\ write[op].st = "queued" /\ queue' = queue
      BY <1>1, <1>2 DEF RecordUpdate
    <2>2. Valid(op)
      BY <2>1, QueuedIsValid DEF RecordsFit
    <2>3. write' = [write EXCEPT ![op].st = "recorded"] /\ write[op] \in Updates
      BY <1>2, <2>1, <2>2 DEF RecordUpdate, TypeOK
    <2> HIDE DEF op
    <2>4. write'[op].st = "recorded" /\ \A o \in Ops : o # op => write'[o] = write[o]
      BY <2>1, <2>3 DEF TypeOK, Updates
    <2>5. \A o \in Ops : (Queued(o)' => Queued(o)) /\ (Sent(o) => Sent(o)')
      BY <2>1, <2>4 DEF Queued, Sent
    <2>6. QueueStep
      BY <2>1, <2>5, QueueStays
    <2>7. \A o \in Ops : write'[o] # write[o] => o = queue[1]
      BY <2>4 DEF op
    <2>8. QED
      BY <2>1, <2>5, <2>6, <2>7
  <1>3. CASE AnswerWrite
    <2> DEFINE op == queue[1]
    <2>1. queue # <<>> /\ op = Head(queue) /\ op \in Ops /\ write[op].st = "recorded" /\ queue' = Tail(queue)
          /\ write' = [write EXCEPT ![op].st = "answered"]
      BY <1>1, <1>3 DEF AnswerWrite
    <2> HIDE DEF op
    <2>2. write'[op].st = "answered" /\ \A o \in Ops : o # op => write'[o] = write[o]
      BY <2>1 DEF TypeOK, Updates
    <2>3. /\ Len(queue') = Len(queue) - 1 /\ DOMAIN queue' = 1 .. Len(queue) - 1
          /\ \A i \in DOMAIN queue' : queue'[i] = queue[i + 1] /\ i \in Nat /\ i + 1 \in DOMAIN queue /\ i + 1 # 1
          /\ \A i \in DOMAIN queue : i # 1 => i - 1 \in DOMAIN queue' /\ queue'[i - 1] = queue[i] /\ i \in Nat
      <3>1. queue' \in Seq(Ops) /\ Len(queue') = Len(queue) - 1 /\ \A i \in 1 .. Len(queue) - 1 : queue'[i] = queue[i + 1]
        BY <1>1, <2>1, HeadTailProperties
      <3>2. DOMAIN queue' = 1 .. Len(queue) - 1
        BY <3>1, LenProperties
      <3>3. \A i \in DOMAIN queue : i # 1 => i - 1 \in 1 .. Len(queue) - 1 /\ i = (i - 1) + 1 /\ i \in Nat
        BY <1>1
      <3>4. \A i \in 1 .. Len(queue) - 1 : i \in Nat /\ i + 1 \in DOMAIN queue /\ i + 1 # 1
        BY <1>1
      <3>5. \A i \in DOMAIN queue : i # 1 => queue'[i - 1] = queue[i]
        BY <3>1, <3>3
      <3>6. QED
        BY <3>1, <3>2, <3>3, <3>4, <3>5
    <2>4. 1 \in DOMAIN queue /\ \A i \in DOMAIN queue : queue[i] = op => i = 1
      BY <1>1, <2>1 DEF QueueFits, op
    <2>5. \A i \in DOMAIN queue : queue[i] = op <=> i = 1
      BY <2>4 DEF op
    <2>6. \A o \in Ops : Queued(o)' => Queued(o) /\ o # op
      BY <2>1, <2>2 DEF Queued
    <2>7. \A o \in Ops : Queued(o) => o # op
      BY <2>1 DEF Queued
    <2>8. ASSUME NEW i \in DOMAIN queue, i # 1
          PROVE  write'[queue[i]].st \in {"queued", "recorded"}
      <3>1. Sent(queue[i]) /\ queue[i] \in Ops
        BY <1>1 DEF QueueFits
      <3>2. queue[i] # op
        BY <2>4, <2>8
      <3>3. QED
        BY <2>2, <3>1, <3>2 DEF Sent
    <2>9. QueueFits'
      <3>1. \A i \in DOMAIN queue' : write'[queue[i + 1]].st \in {"queued", "recorded"}
        BY <2>3, <2>8
      <3>2. \A i \in DOMAIN queue' : write'[queue'[i]].st \in {"queued", "recorded"}
        BY <2>3, <3>1
      <3>3. ASSUME NEW i \in DOMAIN queue', NEW j \in DOMAIN queue', queue'[i] = queue'[j]
            PROVE  i = j
        <4>1. i + 1 = j + 1
          BY <2>3, <3>3 DEF QueueFits
        <4>2. QED
          BY <2>3, <4>1
      <3>4. ASSUME NEW o \in Ops, Queued(o)'
            PROVE  \E i \in DOMAIN queue' : queue'[i] = o
        <4>1. PICK i \in DOMAIN queue : queue[i] = o
          BY <2>6, <3>4 DEF QueueFits
        <4>2. i # 1
          BY <2>5, <2>6, <3>4, <4>1
        <4>3. QED
          BY <2>3, <4>1, <4>2
      <3>5. QED
        BY <3>2, <3>3, <3>4 DEF QueueFits, Sent, Queued
    <2>10. ASSUME NEW o \in Ops, NEW p \in Ops, Queued(o), Queued(p)', Queued(p) => Before(o, p)
           PROVE  Before(o, p)'
      <3>1. PICK i \in DOMAIN queue, j \in DOMAIN queue : i < j /\ queue[i] = o /\ queue[j] = p
        BY <2>6, <2>10 DEF Before
      <3>2. i # 1 /\ j # 1
        BY <2>5, <2>6, <2>7, <2>10, <3>1
      <3>3. i - 1 < j - 1
        BY <2>3, <3>1, <3>2
      <3>4. QED
        BY <2>3, <3>1, <3>2, <3>3 DEF Before
    <2>11. QueueStep
      BY <2>9, <2>10 DEF QueueStep, InTurn
    <2>12. \A o \in Ops : write'[o] # write[o] => o = queue[1]
      BY <2>2 DEF op
    <2>13. QED
      BY <2>1, <2>6, <2>11, <2>12
  <1>4. CASE Refresh \/ \E op \in Ops : FireTimer(op) \/ Deliver(op)
    <2>1. queue' = queue /\ write' = write
      BY <1>4 DEF Refresh, FireTimer, Deliver
    <2>2. \A op \in Ops : (Queued(op)' => Queued(op)) /\ (Sent(op) => Sent(op)')
      BY <2>1 DEF Queued, Sent
    <2>3. QueueStep
      BY <2>1, <2>2, QueueStays
    <2>4. QED
      BY <2>1, <2>2, <2>3
  <1>5. QED
    BY <1>2, <1>3, <1>4 DEF Service

\* A context has an outcome only when it sent it.
LEMMA ServedIsOver ==
  ASSUME TypeOK, NEW op \in Ops, WriteFits(op), Bounded(op), ServiceStep
  PROVE  /\ Over(op)' => Over(op) \/ (IsRecorded(op) /\ write[op].action \in Final)
         /\ write'[op].action = write[op].action
  <1>1. /\ kind(op)' = kind(op) /\ Serves(op) /\ OpTyped(op)
        /\ kind(op) \in Scope
    BY TypedParts DEF ServiceStep, kind, Bounded
  <1>2. write'[op].action = write[op].action
    BY <1>1 DEF Serves, Stays, IsRecorded, IsAnswered, IsRefreshed, IsServed, OpTyped, Updates
  <1>3. CASE record'[op] = record[op]
    BY <1>1, <1>2, <1>3 DEF Over
  <1>4. CASE IsRecorded(op)
    <2>1. write[op].st = "queued" /\ Valid(op) /\ record'[op] = Applied(record[op], write[op], kind(op))
          /\ write[op].action \in {"START", "RETRY", "SUCCEED", "FAIL"}
      BY <1>1, <1>4 DEF IsRecorded, WriteFits, OpTyped, Updates
    <2>2. CASE write[op].action = "START"
      <3>1. record'[op].status = "STARTED" /\ record'[op].kind = kind(op)
        BY <1>1, <2>1, <2>2 DEF Applied, OpTyped, Records
      <3>2. QED
        BY <1>1, <1>2, <3>1 DEF Over, Terminal
    <2>3. CASE write[op].action = "RETRY"
      <3>1. record'[op].status = "PENDING" /\ record'[op].kind = record[op].kind
        BY <1>1, <2>1, <2>3 DEF Applied, OpTyped, Records
      <3>2. QED
        BY <1>1, <1>2, <3>1 DEF Over, Terminal
    <2>4. CASE write[op].action \in {"SUCCEED", "FAIL"}
      BY <1>2, <1>4, <2>4 DEF Final
    <2>5. QED
      BY <2>1, <2>2, <2>3, <2>4
  <1>5. CASE IsServed(op)
    <2>1. /\ record'[op].kind = record[op].kind
          /\ record'[op].status = "READY" \/ record[op].kind \in Awaited
      BY <1>1, <1>5 DEF IsServed, OpTyped, Records
    <2>2. record[op].kind \in Awaited => Over(op)
      BY <1>1 DEF Over, Awaited, Scope
    <2>3. QED
      BY <1>1, <1>2, <2>1, <2>2 DEF Over, Terminal
  <1>6. QED
    BY <1>1, <1>3, <1>4, <1>5 DEF Serves, Stays, SameBooks, IsAnswered, IsRefreshed

LEMMA ServiceKeepsFlow ==
  ASSUME FlowInv, Service, OutInv'
  PROVE  FlowInv'
  <1>1. /\ TypeOK /\ RecordsFit /\ QueueFits /\ (AtWork => InvocationFits)
        /\ \A op \in Ops : OutcomeFits(op) /\ OrderFits(op)
        /\ AtWork => \A op \in Ops : QuietFits(op)
    BY DEF FlowInv, OutInv, IInv
  <1>2. ServiceStep
    BY <1>1, ServiceServes DEF OutcomeFits
  <1>3. UNCHANGED <<shape, pc, fatal>> /\ AtWork' = AtWork
    BY <1>2 DEF ServiceStep, AtWork
  <1>4. /\ QueueStep
        /\ \A op \in Ops : write'[op] # write[op] => queue # <<>> /\ op = queue[1]
        /\ \A op \in Ops : Queued(op)' => Queued(op)
    BY <1>1, ServiceIsInTurn
  <1>5. /\ Inside' = Inside /\ \A op \in Ops : kind(op)' = kind(op) /\ inputs(op)' = inputs(op)
        /\ \A op \in Ops : Inside[op] \subseteq Ops
    BY <1>1, <1>3, InsideIsATree DEF Inside, kind, inputs
  <1>6. \A op \in Ops : Bounded(op)' = Bounded(op) /\ Quiet(op)' = Quiet(op)
    BY <1>3, <1>5 DEF Bounded, Quiet
  <1>7. ASSUME NEW op \in Ops
        PROVE  OrderFits(op)'
    <2> SUFFICES ASSUME Bounded(op), NEW o \in Inside[op], Queued(o)'
                 PROVE  /\ ~ Over(op)'
                        /\ write'[op].action \in Final => Queued(op)' /\ Before(o, op)'
      BY <1>5, <1>6 DEF OrderFits
    <2>1. /\ o \in Ops /\ Queued(o) /\ ~ Over(op)
          /\ write[op].action \in Final => Queued(op) /\ Before(o, op)
      BY <1>1, <1>4, <1>5 DEF OrderFits
    <2>2. write[op].action \in Final => write'[op] = write[op]
      <3> SUFFICES ASSUME write[op].action \in Final, write'[op] # write[op]
                   PROVE  FALSE
        OBVIOUS
      <3>1. PICK i \in DOMAIN queue, j \in DOMAIN queue : i < j /\ queue[i] = o /\ queue[j] = op
        BY <2>1 DEF Before
      <3>2. op = queue[1] /\ DOMAIN queue = 1 .. Len(queue) /\ Len(queue) \in Nat
        BY <1>1, <1>4, LenProperties DEF TypeOK
      <3>3. 1 \in DOMAIN queue /\ j # 1
        BY <3>1, <3>2
      <3>4. QED
        BY <1>1, <3>1, <3>2, <3>3 DEF QueueFits
    <2>3. ~ (IsRecorded(op) /\ write[op].action \in Final)
      <3> SUFFICES ASSUME IsRecorded(op), write'[op] = write[op]
                   PROVE  FALSE
        BY <2>2
      <3>1. write[op] \in Updates /\ write[op].st = "queued" /\ write'[op] = [write[op] EXCEPT !.st = "recorded"]
        BY <1>1 DEF IsRecorded, TypeOK
      <3>2. write'[op].st = "recorded"
        BY <3>1 DEF Updates
      <3>3. QED
        BY <3>1, <3>2
    <2>4. ~ Over(op)' /\ write'[op].action = write[op].action
      BY <1>1, <1>2, <2>1, <2>3, ServedIsOver DEF RecordsFit
    <2>5. ASSUME write[op].action \in Final
          PROVE  Queued(op)' /\ Before(o, op)'
      <3>1. Queued(op)'
        BY <2>1, <2>2, <2>5 DEF Queued
      <3>2. QED
        BY <1>4, <2>1, <2>5, <3>1 DEF QueueStep, InTurn
    <2>6. QED
      BY <2>4, <2>5
  <1>8. ASSUME AtWork, NEW op \in Ops
        PROVE  QuietFits(op)'
    BY <1>1, <1>3, <1>6, <1>8 DEF QuietFits
  <1>9. QED
    BY <1>3, <1>4, <1>7, <1>8 DEF FlowInv, QueueStep

\* Without a queue there is nothing to order.
LEMMA EmptyFlows ==
  ASSUME TypeOK, Inside' = Inside, queue' = <<>>, \A op \in Ops : write'[op] = NoWrite
  PROVE  QueueFits' /\ \A op \in Ops : OrderFits(op)'
  <1>1. \A op \in Ops : ~ Queued(op)'
    BY NoWriteIs DEF Queued
  <1>2. QueueFits'
    <2>1. DOMAIN queue' = {}
      OBVIOUS
    <2>2. QED
      BY <1>1, <2>1 DEF QueueFits
  <1>3. \A op \in Ops : Inside'[op] \subseteq Ops
    BY InsideIsATree
  <1>4. QED
    BY <1>1, <1>2, <1>3 DEF OrderFits

\* When an invocation ends or begins, nothing is queued and nothing goes on.
LEMMA RestKeepsFlow ==
  ASSUME FlowInv, OutInv', EndInvocation \/ FailExecution \/ Invoke
  PROVE  FlowInv'
  <1>1. TypeOK /\ Top \in Ops /\ QueueFits /\ \A op \in Ops : OrderFits(op)
    BY RecordsAssumption DEF FlowInv, OutInv, IInv
  <1>2. CASE EndInvocation
    <2>1. Inside' = Inside /\ queue' = <<>> /\ (\A op \in Ops : write'[op] = NoWrite /\ pc'[op] = "off")
      BY <1>2 DEF EndInvocation, Inside
    <2>2. ~ AtWork'
      BY <1>1, <2>1 DEF AtWork
    <2>3. QED
      BY <1>1, <2>1, <2>2, EmptyFlows DEF FlowInv
  <1>3. CASE FailExecution
    <2>1. UNCHANGED <<shape, record, write, queue>> /\ pc'[Top] = "failed"
      BY <1>1, <1>3 DEF FailExecution, service
    <2>2. ~ AtWork'
      BY <2>1 DEF AtWork
    <2>3. QueueFits'
      BY <1>1, <2>1 DEF QueueFits, Queued, Sent
    <2>4. \A op \in Ops : OrderFits(op)' = OrderFits(op)
      BY <2>1 DEF OrderFits, Bounded, Over, Queued, Before, Inside, kind
    <2>5. QED
      BY <1>1, <2>2, <2>3, <2>4 DEF FlowInv
  <1>4. CASE Invoke
    <2>1. queue = <<>> /\ \A op \in Ops : pc[op] = "off" /\ write[op] = NoWrite
      BY <1>4 DEF FlowInv, OutInv, IInv, Idle, Invoke
    <2>2. queue' = <<>> /\ \A op \in Ops : write'[op] = NoWrite
      BY <1>4, <2>1 DEF Invoke
    <2>3. pc'[Top] = "invoked" /\ \A op \in Ops : op # Top => pc'[op] = "off"
      BY <1>1, <1>4, <2>1 DEF Invoke, TypeOK
    <2>4. Inside' = Inside /\ \A op \in Ops : inputs(op)' = inputs(op)
      <3>1. shape'.inputs = shape.inputs
        BY <1>1, <1>4, ShapeIsWellMade DEF Invoke, Shape
      <3>2. QED
        BY <3>1 DEF Inside, inputs
    <2>5. ASSUME NEW op \in Ops
          PROVE  QuietFits(op)'
      <3>1. \A o \in Inside[op] : o \in Ops /\ o # Top
        BY <1>1, InsideIsATree
      <3>2. Quiet(op)'
        BY <2>3, <2>4, <3>1 DEF Quiet, Ended
      <3>3. QED
        BY <3>2 DEF QuietFits
    <2>6. QED
      BY <1>1, <2>2, <2>4, <2>5, EmptyFlows DEF FlowInv
  <1>5. QED
    BY <1>2, <1>3, <1>4

LEMMA AlwaysFlow ==
  Spec => []FlowInv
  <1>1. Init => FlowInv
    <2> SUFFICES ASSUME Init
                 PROVE  FlowInv
      OBVIOUS
    <2>1. OutInv /\ TypeOK
      BY InitOut DEF OutInv, IInv
    <2>2. /\ queue = <<>>
          /\ \A op \in Ops : pc[op] = "off" /\ write[op] = NoWrite /\ ~ Queued(op) /\ Inside[op] \subseteq Ops
      BY <2>1, NoWriteIs, InsideIsATree DEF Init, Queued
    <2>3. QueueFits
      <3>1. DOMAIN queue = {}
        BY <2>2
      <3>2. QED
        BY <2>2, <3>1 DEF QueueFits
    <2>4. \A op \in Ops : OrderFits(op)
      BY <2>2 DEF OrderFits
    <2>5. ~ AtWork
      BY <2>2, RecordsAssumption DEF AtWork
    <2>6. QED
      BY <2>1, <2>3, <2>4, <2>5 DEF FlowInv
  <1>2. FlowInv /\ [Next]_vars => FlowInv'
    <2> SUFFICES ASSUME FlowInv, [Next]_vars
                 PROVE  FlowInv'
      OBVIOUS
    <2>1. OutInv'
      BY NextKeepsOut DEF FlowInv
    <2>2. CASE UNCHANGED vars
      <3>1. UNCHANGED <<shape, record, log, write, queue, pc, fatal>>
        BY <2>2 DEF vars, service
      <3>2. QueueFits' = QueueFits
        BY <3>1 DEF QueueFits, Queued, Sent
      <3>3. \A op \in Ops : OrderFits(op)' = OrderFits(op)
        BY <3>1 DEF OrderFits, Bounded, Over, Queued, Before, Inside, kind
      <3>4. \A op \in Ops : QuietFits(op)' = QuietFits(op)
        BY <3>1 DEF QuietFits, Quiet, Bounded, Inside, kind
      <3>5. AtWork' = AtWork
        BY <3>1 DEF AtWork
      <3>6. QED
        BY <2>1, <3>2, <3>3, <3>4, <3>5 DEF FlowInv
    <2>3. QED
      BY <2>1, <2>2, WorkKeepsFlow, ServiceKeepsFlow, RestKeepsFlow DEF Next, Crash, Suspend
  <1>3. QED
    BY <1>1, <1>2, PTL DEF Spec

\* Once the outcome of a context with a scope is recorded, no operation inside
\* it has an update queued, in any invocation, so none is recorded: what it
\* started was answered, dropped with the scope that closed, or goes before
\* the outcome (child.rs, run; checkpoint_coalescer.rs, Admission).
THEOREM FinishedContextsStayFinal == Spec => FinishedContextsAreFinal
  <1>1. FlowInv => \A op \in Ops : Finished(op) => \A o \in Inside[op] : write[o].st # "queued"
    <2> SUFFICES ASSUME FlowInv, NEW op \in Ops, Finished(op), NEW o \in Inside[op], write[o].st = "queued"
                 PROVE  FALSE
      OBVIOUS
    <2>1. OrderFits(op) /\ Bounded(op) /\ Over(op) /\ Queued(o)
      BY DEF FlowInv, Finished, Bounded, Over, Queued
    <2>2. QED
      BY <2>1 DEF OrderFits
  <1>2. FlowInv /\ [Next]_vars =>
          [\A op \in Ops : Finished(op) =>
             \A o \in Inside[op] : write[o].st = "queued" => write'[o].st # "recorded"]_vars
    BY <1>1
  <1>3. QED
    BY <1>2, AlwaysFlow, PTL DEF Spec, FinishedContextsAreFinal
=============================================================================
