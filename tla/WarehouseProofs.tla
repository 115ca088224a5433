--------------------------- MODULE WarehouseProofs ---------------------------
(***************************************************************************)
(* Theorems about Warehouse, for any users, threads, files and faults.     *)
(* The argument about what dashboards show is in three parts: the tables   *)
(* only grow, and what is added has the time of the clock (Grows); a step  *)
(* that is not a reader's leaves what readers know alone or forgets it     *)
(* (Quiet); and so what an entry of the cache saw when it was read stays   *)
(* true of it.                                                             *)
(*                                                                         *)
(* That rows are stored once is about where a row is: not yet reported, in *)
(* the hands of one thread, or in the table, and in one of these only      *)
(* (Once).  That none is lost and that reviews and findings go together    *)
(* needs the same of the file, and of rows whose other half is in hand     *)
(* (Migrated, NoneLost, Matched).  None of this depends on which calls     *)
(* fail.                                                                   *)
(***************************************************************************)
EXTENDS Warehouse, SequenceTheorems, TLAPS

\* A thread that writes has something to write; a request that goes on has a
\* query left.
BusyHaveWork ==
    /\ \A w \in Thread : writer[w].pc = "insert" => writer[w].todo # <<>>
    /\ \A q \in Reader : reader[q].pc # "idle" => reader[q].keys # <<>>

Typed == TypeOK /\ BusyHaveWork

-----------------------------------------------------------------------------
(* Types *)

LEMMA TodoTypes ==
    ASSUME NEW i \in Id, NEW outcome
    PROVE  Insertions(i, outcome) \in Seq(Insertion) /\ Insertions(i, outcome) # <<>>
<1>1. <<"reviews", i>> \in Insertion /\ <<"findings", i>> \in Insertion
  BY DEF Insertion, Table
<1>2. CASE outcome.found
  <2>1. Insertions(i, outcome) = <<<<"reviews", i>>, <<"findings", i>>>>
    BY <1>2 DEF Insertions
  <2>2. <<<<"reviews", i>>, <<"findings", i>>>> \in Seq(Insertion)
    BY <1>1
  <2>3. Len(<<<<"reviews", i>>, <<"findings", i>>>>) = 2
    OBVIOUS
  <2> QED BY <2>1, <2>2, <2>3
<1>3. CASE ~outcome.found
  <2>1. Insertions(i, outcome) = <<<<"reviews", i>>>>
    BY <1>3 DEF Insertions
  <2>2. <<<<"reviews", i>>>> \in Seq(Insertion)
    BY <1>1
  <2>3. Len(<<<<"reviews", i>>>>) = 1
    OBVIOUS
  <2> QED BY <2>1, <2>2, <2>3
<1> QED BY <1>2, <1>3

LEMMA TailOfLonger ==
    ASSUME NEW S, NEW s \in Seq(S), Len(s) > 1
    PROVE  Tail(s) # <<>> /\ Tail(Tail(s)) \in Seq(S)
<1>1. s # <<>>
  BY EmptySeq
<1>2. Tail(s) \in Seq(S) /\ Len(Tail(s)) = Len(s) - 1
  BY <1>1, HeadTailProperties
<1>3. Len(s) \in Nat
  BY LenProperties
<1>4. Tail(s) # <<>>
  <2>1. Len(Tail(s)) # 0
    BY <1>2, <1>3
  <2> QED BY <2>1, EmptySeq
<1> QED BY <1>2, <1>4, HeadTailProperties

LEMMA RestTypes ==
    ASSUME NEW todo \in Seq(Insertion), todo # <<>>
    PROVE  Rest(todo) \in Seq(Insertion)
<1>1. Tail(todo) \in Seq(Insertion)
  BY HeadTailProperties
<1>2. Len(todo) > 1 => Tail(Tail(todo)) \in Seq(Insertion)
  BY TailOfLonger
<1> QED BY <1>1, <1>2 DEF Rest

LEMMA ProceedTyped ==
    ASSUME TypeOK, BusyHaveWork, NEW w \in Thread, NEW todo \in Seq(Insertion), Proceed(w, todo)
    PROVE  /\ writer' \in [Thread -> WriterState]
           /\ \A v \in Thread : writer'[v].pc = "insert" => writer'[v].todo # <<>>
<1> DEFINE pc == IF todo # <<>> THEN "insert" ELSE IF w \in Writer THEN "idle" ELSE "gone"
           next == [pc |-> pc, todo |-> todo, tries |-> 0, ddl |-> 0]
<1>1. writer' = [writer EXCEPT ![w] = next]
  BY DEF Proceed
<1>2. pc \in {"idle", "tiered", "baseline", "insert", "ensure", "open", "gone"}
  OBVIOUS
<1>3. pc = "insert" => todo # <<>>
  BY Zenon
<1>4. next \in WriterState /\ next.pc = pc /\ next.todo = todo
  <2> HIDE DEF pc
  <2> QED BY <1>2 DEF WriterState
<1>5. writer \in [Thread -> WriterState]
  BY DEF TypeOK
<1> HIDE DEF next, pc
<1>6. \A v \in Thread : writer'[v] = IF v = w THEN next ELSE writer[v]
  BY <1>1, <1>5
<1> QED BY <1>1, <1>3, <1>4, <1>5, <1>6 DEF BusyHaveWork

LEMMA RaiseTyped ==
    ASSUME TypeOK, BusyHaveWork, NEW w \in Thread, writer[w].todo # <<>>, Raise(w)
    PROVE  /\ writer' \in [Thread -> WriterState]
           /\ \A v \in Thread : writer'[v].pc = "insert" => writer'[v].todo # <<>>
<1>1. writer[w].todo \in Seq(Insertion)
  BY DEF TypeOK, WriterState
<1> QED BY <1>1, RestTypes, ProceedTyped DEF Raise

\* A table grows by one row, which has the time of the clock.
LEMMA Appends ==
    ASSUME TypeOK, NEW d \in Insertion, Append1(d)
    PROVE  /\ table' \in [Table -> [Id -> Seq(Nat)]]
           /\ \A t \in Table, i \in Id :
                 table'[t][i] = IF <<t, i>> = d THEN Append(table[t][i], clock) ELSE table[t][i]
<1>1. PICK a \in Table, b \in Id : d = <<a, b>>
  BY DEF Insertion
<1>2. /\ table \in [Table -> [Id -> Seq(Nat)]]
      /\ clock \in Nat
  BY DEF TypeOK
<1>3. table' = [table EXCEPT ![a] = [table[a] EXCEPT ![b] = Append(table[a][b], clock)]]
  BY <1>1, <1>2 DEF Append1
<1>4. Append(table[a][b], clock) \in Seq(Nat)
  BY <1>2, AppendProperties
<1>5. table' \in [Table -> [Id -> Seq(Nat)]]
  <2> DEFINE new == Append(table[a][b], clock)
  <2>1. [table[a] EXCEPT ![b] = new] \in [Id -> Seq(Nat)]
    <3>1. new \in Seq(Nat)
      BY <1>4
    <3> HIDE DEF new
    <3> QED BY <1>2, <3>1
  <2> QED BY <1>2, <1>3, <2>1
<1>6. ASSUME NEW t \in Table, NEW i \in Id
      PROVE  table'[t][i] = IF <<t, i>> = d THEN Append(table[t][i], clock) ELSE table[t][i]
  <2>1. CASE t = a /\ i = b
    BY <1>1, <1>2, <1>3, <2>1
  <2>2. CASE t # a
    BY <1>1, <1>2, <1>3, <2>2
  <2>3. CASE t = a /\ i # b
    BY <1>1, <1>2, <1>3, <2>3
  <2> QED BY <2>1, <2>2, <2>3
<1> QED BY <1>5, <1>6

LEMMA KeyTypes ==
    ASSUME NEW k \in Key
    PROVE  /\ k = <<k[1], k[2]>>
           /\ k[1] \in {"modes", "findings", "reviews"}
           /\ k[1] = "modes" => k[2] \in User \union {None}
           /\ k[1] # "modes" => k[2] \in User
BY DEF Key

LEMMA ResultTypes ==
    ASSUME NEW k \in Key, NEW rows \in Results(k)
    PROVE  /\ rows \in SUBSET Id
           /\ rows \intersect Review =
                 IF k[1] = "findings" THEN FindingsOf(k[2]) ELSE Traffic(k[2])
<1>1. Stored("reviews") \subseteq Id /\ Stored("findings") \subseteq Id
  BY DEF Stored
<1>2. /\ Traffic(k[2]) \subseteq Review /\ FindingsOf(k[2]) \subseteq Review
      /\ Traffic(k[2]) \subseteq Id /\ FindingsOf(k[2]) \subseteq Id
  BY <1>1 DEF Traffic, FindingsOf
<1>3. CASE k[1] = "modes"
  <2>1. PICK e \in LatestEvidence : rows = Traffic(k[2]) \union e
    BY <1>3 DEF Results
  <2>2. e \subseteq Benchmarked
    BY <2>1 DEF LatestEvidence
  <2>3. e \subseteq Id /\ e \intersect Review = {}
    BY <1>1, <2>2, WarehouseAssumption DEF Benchmarked
  <2> QED BY <1>2, <1>3, <2>1, <2>3
<1>4. CASE k[1] = "findings"
  <2>1. rows = FindingsOf(k[2])
    BY <1>4 DEF Results
  <2> QED BY <1>2, <1>4, <2>1
<1>5. CASE k[1] = "reviews"
  <2>1. rows = Traffic(k[2])
    BY <1>5 DEF Results
  <2> QED BY <1>2, <1>5, <2>1
<1> QED BY <1>3, <1>4, <1>5, KeyTypes

LEMMA RequestTyped ==
    ASSUME Typed, NEW q \in Reader, NEW u \in User, NEW keys \in Seq(Key), keys # <<>>,
           Request(q, u, keys)
    PROVE  Typed'
<1> DEFINE next == [pc |-> "look", user |-> u, keys |-> keys, now |-> 0, rows |-> {}, got |-> None]
<1>1. next \in ReaderState /\ next.keys # <<>>
  BY DEF ReaderState
<1>2. reader' = [reader EXCEPT ![q] = next]
  BY DEF Request
<1>3. inputs' \in Nat
  BY DEF Typed, TypeOK, Request, Ask
<1> HIDE DEF next
<1>4. TypeOK'
  BY <1>1, <1>2, <1>3 DEF Typed, TypeOK, Request
<1>5. \A p \in Reader : reader'[p] = IF p = q THEN next ELSE reader[p]
  BY <1>2 DEF Typed, TypeOK
<1>6. UNCHANGED writer
  BY DEF Request
<1> QED BY <1>1, <1>4, <1>5, <1>6 DEF Typed, BusyHaveWork

LEMMA AnsweredTyped ==
    ASSUME Typed, NEW q \in Reader, reader[q].pc # "idle", NEW now \in Nat,
           NEW rows \in SUBSET Id, Answered(q, now, rows)
    PROVE  /\ reader' \in [Reader -> ReaderState]
           /\ \A p \in Reader : reader'[p].pc # "idle" => reader'[p].keys # <<>>
           /\ \A p \in Reader \ {q} : reader'[p] = reader[p]
           /\ reader'[q].user = reader[q].user
           /\ reader'[q].keys = Tail(reader[q].keys)
           /\ reader'[q].pc \in {"look", "idle"}
           /\ reader'[q].got = [key |-> Head(reader[q].keys), now |-> now, rows |-> rows]
<1>1. /\ reader \in [Reader -> ReaderState]
      /\ reader[q].keys # <<>>
  BY DEF Typed, TypeOK, BusyHaveWork
<1>2. reader[q].keys \in Seq(Key) /\ reader[q].user \in User \union {None}
  BY <1>1 DEF ReaderState
<1>3. Head(reader[q].keys) \in Key /\ Tail(reader[q].keys) \in Seq(Key)
  BY <1>1, <1>2, HeadTailProperties
<1>4. Len(reader[q].keys) > 1 => Tail(reader[q].keys) # <<>>
  BY <1>2, TailOfLonger
<1> DEFINE pc == IF Len(reader[q].keys) > 1 THEN "look" ELSE "idle"
           got == [key |-> Head(reader[q].keys), now |-> now, rows |-> rows]
           next == [pc |-> pc, user |-> reader[q].user, keys |-> Tail(reader[q].keys),
                    now |-> 0, rows |-> {}, got |-> got]
<1>5. reader' = [reader EXCEPT ![q] = next]
  BY DEF Answered
<1>6. got \in Answer
  BY <1>3 DEF Answer
<1>7. pc \in {"look", "idle"} /\ (pc # "idle" => Tail(reader[q].keys) # <<>>)
  BY <1>4
<1>8. /\ next \in ReaderState
      /\ next.pc = pc /\ next.user = reader[q].user /\ next.keys = Tail(reader[q].keys)
      /\ next.got = got
  <2> HIDE DEF pc, got
  <2> QED BY <1>2, <1>3, <1>6, <1>7 DEF ReaderState
<1>9. \A p \in Reader : reader'[p] = IF p = q THEN next ELSE reader[p]
  <2> HIDE DEF next
  <2> QED BY <1>1, <1>5
<1>10. reader' \in [Reader -> ReaderState]
  <2> HIDE DEF next
  <2> QED BY <1>1, <1>5, <1>8
<1>11. \A p \in Reader : reader'[p].pc # "idle" => reader'[p].keys # <<>>
  <2> HIDE DEF next, pc
  <2> QED BY <1>7, <1>8, <1>9 DEF Typed, BusyHaveWork
<1>12. reader'[q] = next
  BY <1>9
<1> QED
  <2> HIDE DEF next, pc
  <2> QED BY <1>7, <1>8, <1>9, <1>10, <1>11, <1>12

\* A step of the schema leaves each table in a state it can be in.
LEMMA DdlTypes ==
    ASSUME TypeOK, NEW n \in 1..3
    PROVE  Ddl(n) \in [findings : {"missing", "ready"}, reviews : {"missing", "old", "ready"}]
<1>1. schema \in [findings : {"missing", "ready"}, reviews : {"missing", "old", "ready"}]
  BY DEF TypeOK
<1>2. CASE n = 1
  <2>1. Ddl(n) = [schema EXCEPT !.findings = "ready"]
    BY <1>2 DEF Ddl
  <2> QED BY <1>1, <2>1
<1>3. CASE n = 2
  <2>1. Ddl(n) = [schema EXCEPT !.reviews = IF @ = "missing" THEN "ready" ELSE @]
    BY <1>3 DEF Ddl
  <2> QED BY <1>1, <2>1
<1>4. CASE n = 3
  <2>1. Ddl(n) = [schema EXCEPT !.reviews = IF @ = "old" THEN "ready" ELSE @]
    BY <1>4 DEF Ddl
  <2> QED BY <1>1, <2>1
<1> QED BY <1>2, <1>3, <1>4

\* What the type invariant says of a thread, and what a step that changes only
\* one thread has to show of it.
LEMMA WriterTyped ==
    ASSUME Typed, NEW w \in Thread
    PROVE  /\ writer[w] \in WriterState
           /\ writer[w].todo \in Seq(Insertion)
           /\ writer[w].ddl \in 0..3 /\ writer[w].tries \in 0..2
           /\ writer[w].pc = "insert" => writer[w].todo # <<>>
BY DEF Typed, TypeOK, BusyHaveWork, WriterState

LEMMA OneWriter ==
    ASSUME Typed, NEW w \in Thread, NEW next \in WriterState,
           next.pc = "insert" => next.todo # <<>>, writer' = [writer EXCEPT ![w] = next]
    PROVE  /\ writer' \in [Thread -> WriterState]
           /\ \A v \in Thread : writer'[v].pc = "insert" => writer'[v].todo # <<>>
BY DEF Typed, TypeOK, BusyHaveWork

LEMMA OneReader ==
    ASSUME Typed, NEW q \in Reader, NEW next \in ReaderState,
           next.pc # "idle" => next.keys # <<>>, reader' = [reader EXCEPT ![q] = next]
    PROVE  /\ reader' \in [Reader -> ReaderState]
           /\ \A p \in Reader : reader'[p].pc # "idle" => reader'[p].keys # <<>>
BY DEF Typed, TypeOK, BusyHaveWork

LEMMA EnsureTyped ==
    ASSUME Typed, NEW w \in Thread, EnsureEnds(w)
    PROVE  /\ writer' \in [Thread -> WriterState]
           /\ \A v \in Thread : writer'[v].pc = "insert" => writer'[v].todo # <<>>
<1> DEFINE pc == IF writer[w].todo = <<>> THEN "open" ELSE "insert"
           next == [writer[w] EXCEPT !.pc = pc]
<1>1. pc \in {"open", "insert"} /\ (pc = "insert" => writer[w].todo # <<>>)
  BY Zenon
<1>2. writer' = [writer EXCEPT ![w] = next]
  BY DEF EnsureEnds
<1> HIDE DEF pc
<1>3. next \in WriterState /\ next.pc = pc /\ next.todo = writer[w].todo
  BY <1>1, WriterTyped DEF WriterState
<1> HIDE DEF next
<1> QED BY <1>1, <1>2, <1>3, OneWriter

LEMMA BeginTyped ==
    ASSUME Typed, NEW w \in Thread, NEW tries \in 0..2, BeginEnsure(w, tries)
    PROVE  /\ writer' \in [Thread -> WriterState]
           /\ \A v \in Thread : writer'[v].pc = "insert" => writer'[v].todo # <<>>
<1> DEFINE next == [pc |-> "ensure", todo |-> writer[w].todo, tries |-> tries, ddl |-> 0]
<1>1. writer' = [writer EXCEPT ![w] = next]
  BY DEF BeginEnsure, Typed, TypeOK
<1>2. next \in WriterState /\ next.pc = "ensure"
  BY WriterTyped DEF WriterState
<1> HIDE DEF next
<1> QED BY <1>1, <1>2, OneWriter

LEMMA EmitTyped ==
    ASSUME Typed, NEW w \in Writer, NEW i \in Review, NEW u \in User, NEW o \in Outcome,
           Emit(w, i, u, o)
    PROVE  Typed'
<1>1. w \in Thread /\ i \in Id
  BY DEF Thread, Id
<1>2. /\ writer' \in [Thread -> WriterState]
      /\ \A v \in Thread : writer'[v].pc = "insert" => writer'[v].todo # <<>>
  BY <1>1, TodoTypes, ProceedTyped DEF Emit, Typed
<1>3. row' \in [Id -> RowType \union {None}]
  <2>1. [uid |-> u, outcome |-> o, completed |-> clock] \in RowType
    BY DEF Typed, TypeOK, RowType
  <2> QED BY <1>1, <2>1 DEF Emit, Typed, TypeOK
<1>4. inputs' \in Nat
  BY DEF Emit, Ask, Typed, TypeOK
<1> QED BY <1>2, <1>3, <1>4 DEF Emit, Typed, TypeOK, BusyHaveWork

LEMMA WriterStepTyped ==
    ASSUME Typed, NEW w \in Thread, WriterStep(w)
    PROVE  Typed'
<1> DEFINE Kept == /\ writer' \in [Thread -> WriterState]
                   /\ \A v \in Thread : writer'[v].pc = "insert" => writer'[v].todo # <<>>
<1>1. CASE InsertStores(w)
  <2>1. /\ writer[w].todo \in Seq(Insertion) /\ writer[w].todo # <<>>
        /\ Append1(Head(writer[w].todo)) /\ Proceed(w, Tail(writer[w].todo))
    BY <1>1, WriterTyped DEF InsertStores
  <2>2. Head(writer[w].todo) \in Insertion /\ Tail(writer[w].todo) \in Seq(Insertion)
    BY <2>1, HeadTailProperties
  <2>3. Kept
    BY <2>1, <2>2, ProceedTyped DEF Typed
  <2>4. table' \in [Table -> [Id -> Seq(Nat)]]
    BY <2>1, <2>2, Appends DEF Typed
  <2> QED BY <1>1, <2>3, <2>4 DEF InsertStores, Typed, TypeOK, BusyHaveWork
<1>2. CASE InsertNotFound(w)
  <2>1. Kept
    BY <1>2, WriterTyped, BeginTyped, RaiseTyped DEF InsertNotFound, Typed
  <2> QED BY <1>2, <2>1 DEF InsertNotFound, Typed, TypeOK, BusyHaveWork
<1>3. CASE InsertNoSuchField(w)
  <2>1. Kept
    BY <1>3, WriterTyped, BeginTyped, RaiseTyped DEF InsertNoSuchField, Typed
  <2> QED BY <1>3, <2>1 DEF InsertNoSuchField, Typed, TypeOK, BusyHaveWork
<1>4. CASE InsertFails(w)
  <2>1. /\ writer[w].todo \in Seq(Insertion) /\ writer[w].todo # <<>> /\ Raise(w)
    BY <1>4, WriterTyped DEF InsertFails
  <2>2. Kept
    BY <2>1, RaiseTyped DEF Typed
  <2>3. table' \in [Table -> [Id -> Seq(Nat)]]
    <3>1. Head(writer[w].todo) \in Insertion
      BY <2>1, HeadTailProperties
    <3> QED BY <1>4, <3>1, Appends DEF InsertFails, Typed, TypeOK
  <2>4. inputs' \in Nat /\ faults' \in Nat
    BY <1>4 DEF InsertFails, Inject, Ask, Typed, TypeOK
  <2> QED BY <1>4, <2>2, <2>3, <2>4 DEF InsertFails, Typed, TypeOK, BusyHaveWork
<1>5. CASE EnsureCheck(w)
  <2>1. CASE ready[ProcessOf(w)] /\ writer[w].tries = 1
    <3>1. Kept
      BY <1>5, <2>1, EnsureTyped DEF EnsureCheck
    <3> QED BY <1>5, <3>1 DEF EnsureCheck, Typed, TypeOK, BusyHaveWork
  <2>2. CASE ~(ready[ProcessOf(w)] /\ writer[w].tries = 1)
    <3>1. writer' = [writer EXCEPT ![w] = [writer[w] EXCEPT !.ddl = 1]]
      BY <1>5, <2>2 DEF EnsureCheck, Typed, TypeOK
    <3>2. /\ [writer[w] EXCEPT !.ddl = 1] \in WriterState
          /\ [writer[w] EXCEPT !.ddl = 1].pc = "ensure"
      BY <1>5, WriterTyped DEF WriterState, EnsureCheck
    <3>3. Kept
      BY <3>1, <3>2, OneWriter
    <3> QED BY <1>5, <3>3 DEF EnsureCheck, Typed, TypeOK, BusyHaveWork
  <2> QED BY <2>1, <2>2
<1>6. CASE EnsureStep(w)
  <2>1. writer[w].ddl \in 1..3
    BY <1>6, WriterTyped DEF EnsureStep
  <2>2. schema' \in [findings : {"missing", "ready"}, reviews : {"missing", "old", "ready"}]
    BY <1>6, <2>1, DdlTypes DEF EnsureStep, Typed
  <2>3. ready' \in [Process -> BOOLEAN]
    BY <1>6 DEF EnsureStep, Typed, TypeOK
  <2>4. Kept
    <3>1. CASE writer[w].ddl < 3
      <4> DEFINE n == writer[w].ddl + 1
      <4>1. n \in 0..3
        BY <2>1, <3>1
      <4>2. writer' = [writer EXCEPT ![w] = [writer[w] EXCEPT !.ddl = n]]
        BY <1>6, <3>1 DEF EnsureStep, Typed, TypeOK
      <4> HIDE DEF n
      <4>3. /\ [writer[w] EXCEPT !.ddl = n] \in WriterState
            /\ [writer[w] EXCEPT !.ddl = n].pc = "ensure"
        BY <1>6, <4>1, WriterTyped DEF WriterState, EnsureStep
      <4> QED BY <4>2, <4>3, OneWriter
    <3>2. CASE ~(writer[w].ddl < 3)
      BY <1>6, <3>2, EnsureTyped DEF EnsureStep
    <3> QED BY <3>1, <3>2
  <2> QED BY <1>6, <2>2, <2>3, <2>4 DEF EnsureStep, Typed, TypeOK, BusyHaveWork
<1>7. CASE EnsureFails(w)
  <2>1. inputs' \in Nat /\ faults' \in Nat
    BY <1>7 DEF EnsureFails, Inject, Ask, Typed, TypeOK
  <2>2. Kept
    <3>1. CASE writer[w].todo = <<>>
      <4>1. writer' = [writer EXCEPT ![w] = [writer[w] EXCEPT !.pc = "gone"]]
        BY <1>7, <3>1 DEF EnsureFails, Typed, TypeOK
      <4>2. /\ [writer[w] EXCEPT !.pc = "gone"] \in WriterState
            /\ [writer[w] EXCEPT !.pc = "gone"].pc = "gone"
        BY WriterTyped DEF WriterState
      <4> QED BY <4>1, <4>2, OneWriter
    <3>2. CASE writer[w].todo # <<>>
      BY <1>7, <3>2, RaiseTyped DEF EnsureFails, Typed
    <3> QED BY <3>1, <3>2
  <2> QED BY <1>7, <2>1, <2>2 DEF EnsureFails, Typed, TypeOK, BusyHaveWork
<1> QED BY <1>1, <1>2, <1>3, <1>4, <1>5, <1>6, <1>7 DEF WriterStep

LEMMA BenchmarkTyped ==
    ASSUME Typed, NEW r \in Run, NEW f \in File,
           \/ BenchmarkFile(r, f) \/ ModeFails(r, f)
           \/ \E o \in Outcome : ModeEnds(r, f, o)
    PROVE  Typed'
<1> DEFINE Kept == /\ writer' \in [Thread -> WriterState]
                   /\ \A v \in Thread : writer'[v].pc = "insert" => writer'[v].todo # <<>>
<1>1. /\ <<r, f>> \in Thread
      /\ \A m \in Mode : <<r, f, m>> \in Id
  BY DEF Thread, Id, BenchmarkId
<1>2. ASSUME NEW w \in Thread, NEW pc \in {"tiered", "baseline", "gone"},
             writer' = [writer EXCEPT ![w].pc = pc]
      PROVE  Kept
  <2>1. writer' = [writer EXCEPT ![w] = [writer[w] EXCEPT !.pc = pc]]
    BY <1>2 DEF Typed, TypeOK
  <2>2. /\ [writer[w] EXCEPT !.pc = pc] \in WriterState
        /\ [writer[w] EXCEPT !.pc = pc].pc = pc
    BY WriterTyped DEF WriterState
  <2> QED BY <2>1, <2>2, OneWriter
<1>3. CASE BenchmarkFile(r, f)
  <2>1. Kept
    BY <1>1, <1>2, <1>3 DEF BenchmarkFile
  <2> QED BY <1>3, <2>1 DEF BenchmarkFile, Typed, TypeOK, BusyHaveWork
<1>4. CASE ModeFails(r, f)
  <2>1. Kept
    BY <1>1, <1>2, <1>4 DEF ModeFails
  <2>2. row' \in [Id -> RowType \union {None}]
    BY <1>4 DEF ModeFails, Typed, TypeOK
  <2> QED BY <1>4, <2>1, <2>2 DEF ModeFails, Typed, TypeOK, BusyHaveWork
<1>5. ASSUME NEW o \in Outcome, ModeEnds(r, f, o)
      PROVE  Typed'
  <2> DEFINE w == <<r, f>>
             todo == Insertions(<<r, f, "tiered">>, row[<<r, f, "tiered">>].outcome)
                       \o Insertions(<<r, f, "baseline">>, o)
  <2>1. Kept
    <3>1. CASE writer[w].pc = "tiered"
      BY <1>1, <1>2, <1>5, <3>1 DEF ModeEnds
    <3>2. CASE writer[w].pc # "tiered"
      <4>1. todo \in Seq(Insertion)
        <5>1. /\ Insertions(<<r, f, "tiered">>, row[<<r, f, "tiered">>].outcome) \in Seq(Insertion)
              /\ Insertions(<<r, f, "baseline">>, o) \in Seq(Insertion)
          BY <1>1, TodoTypes DEF Mode
        <5> QED BY <5>1, ConcatProperties
      <4>2. Proceed(w, todo)
        BY <1>5, <3>2 DEF ModeEnds
      <4> HIDE DEF todo
      <4> QED BY <1>1, <4>1, <4>2, ProceedTyped DEF Typed
    <3> QED BY <3>1, <3>2
  <2>2. row' \in [Id -> RowType \union {None}]
    <3>1. BenchmarkRow(o) \in RowType
      BY DEF BenchmarkRow, RowType, Typed, TypeOK
    <3> QED BY <1>5, <3>1 DEF ModeEnds, Typed, TypeOK
  <2> QED BY <1>5, <2>1, <2>2 DEF ModeEnds, Typed, TypeOK, BusyHaveWork
<1> QED BY <1>3, <1>4, <1>5

\* What a request waiting for an answer goes on with.
LEMMA AwaitTyped ==
    ASSUME Typed, NEW q \in Reader, reader[q].pc # "idle", NEW pc \in {"query", "store"},
           NEW now \in Nat, NEW rows \in SUBSET Id, Await(q, pc, now, rows)
    PROVE  /\ reader' \in [Reader -> ReaderState]
           /\ \A p \in Reader : reader'[p].pc # "idle" => reader'[p].keys # <<>>
           /\ \A p \in Reader \ {q} : reader'[p] = reader[p]
           /\ reader'[q].pc = pc /\ reader'[q].now = now /\ reader'[q].rows = rows
           /\ reader'[q].user = reader[q].user /\ reader'[q].keys = reader[q].keys
           /\ reader'[q].got = None
<1> DEFINE next == [pc |-> pc, user |-> reader[q].user, keys |-> reader[q].keys,
                    now |-> now, rows |-> rows, got |-> None]
<1>1. reader \in [Reader -> ReaderState] /\ reader[q].keys # <<>>
  BY DEF Typed, TypeOK, BusyHaveWork
<1>2. reader' = [reader EXCEPT ![q] = next]
  BY DEF Await
<1>3. next \in ReaderState /\ next.keys = reader[q].keys
  BY <1>1 DEF ReaderState
<1>4. \A p \in Reader : reader'[p] = IF p = q THEN next ELSE reader[p]
  BY <1>1, <1>2
<1> HIDE DEF next
<1>5. /\ reader' \in [Reader -> ReaderState]
      /\ \A p \in Reader : reader'[p].pc # "idle" => reader'[p].keys # <<>>
  BY <1>1, <1>2, <1>3, OneReader
<1> QED BY <1>4, <1>5 DEF next

LEMMA ForgetTyped ==
    ASSUME Typed, NEW q \in Reader, reader' = [reader EXCEPT ![q] = IdleReader]
    PROVE  /\ reader' \in [Reader -> ReaderState]
           /\ \A p \in Reader : reader'[p].pc # "idle" => reader'[p].keys # <<>>
           /\ \A p \in Reader \ {q} : reader'[p] = reader[p]
           /\ reader'[q].pc = "idle" /\ reader'[q].got = None
<1>1. IdleReader \in ReaderState
  BY EmptySeq DEF IdleReader, ReaderState
<1> QED BY <1>1 DEF Typed, TypeOK, BusyHaveWork, IdleReader

\* What a request in progress asks next, and of which cache.
LEMMA AskedTyped ==
    ASSUME Typed, NEW q \in Reader, reader[q].pc # "idle"
    PROVE  /\ Head(reader[q].keys) \in Key
           /\ Home[q] \in Server
           /\ reader[q].now \in Nat /\ reader[q].rows \in SUBSET Id
           /\ cache[Home[q]][Head(reader[q].keys)] \in [at : 0..clock, rows : SUBSET Id] \union {None}
<1>1. reader[q] \in ReaderState /\ reader[q].keys # <<>>
  BY DEF Typed, TypeOK, BusyHaveWork
<1>2. reader[q].keys \in Seq(Key)
  BY <1>1 DEF ReaderState
<1>3. Head(reader[q].keys) \in Key
  BY <1>1, <1>2, HeadTailProperties
<1>4. Home[q] \in Server
  BY WarehouseAssumption
<1> QED BY <1>1, <1>3, <1>4 DEF ReaderState, Typed, TypeOK

\* An entry is stamped with the time the clock had when it was asked for.
AskedBefore == \A q \in Reader : reader[q].pc \in {"query", "store"} => reader[q].now <= clock

Shaped == Typed /\ AskedBefore

LEMMA ReaderStepTyped ==
    ASSUME Shaped, NEW q \in Reader, ReaderStep(q)
    PROVE  Shaped'
<1> USE DEF Shaped
<1>1. clock \in Nat
  BY DEF Typed, TypeOK
<1> DEFINE k == Head(reader[q].keys)
           entry == cache[Home[q]][k]
<1>2. CASE Look(q)
  <2>1. reader[q].pc = "look"
    BY <1>2 DEF Look
  <2>2. CASE entry # None /\ clock - entry.at < CacheS
    <3>1. Answered(q, clock, entry.rows)
      BY <1>2, <2>2 DEF Look, CacheKeyOf
    <3>2. entry.rows \in SUBSET Id
      BY <2>1, <2>2, AskedTyped
    <3>3. /\ reader' \in [Reader -> ReaderState]
          /\ \A p \in Reader : reader'[p].pc # "idle" => reader'[p].keys # <<>>
          /\ \A p \in Reader \ {q} : reader'[p] = reader[p]
          /\ reader'[q].pc \in {"look", "idle"}
      <4> HIDE DEF entry
      <4> QED BY <1>1, <2>1, <3>1, <3>2, AnsweredTyped
    <3> QED BY <1>2, <3>3 DEF Look, Typed, TypeOK, BusyHaveWork, AskedBefore
  <2>3. CASE ~(entry # None /\ clock - entry.at < CacheS)
    <3>1. Await(q, "query", clock, {})
      BY <1>2, <2>3 DEF Look, CacheKeyOf
    <3>2. /\ reader' \in [Reader -> ReaderState]
          /\ \A p \in Reader : reader'[p].pc # "idle" => reader'[p].keys # <<>>
          /\ \A p \in Reader \ {q} : reader'[p] = reader[p]
          /\ reader'[q].now = clock
      BY <1>1, <2>1, <3>1, AwaitTyped
    <3>3. Typed'
      BY <1>2, <3>2 DEF Look, Typed, TypeOK, BusyHaveWork
    <3>4. AskedBefore'
      BY <1>1, <1>2, <3>2 DEF Look, AskedBefore
    <3> QED BY <3>3, <3>4
  <2> QED BY <2>2, <2>3
<1>3. CASE Query(q)
  <2>1. reader[q].pc = "query" /\ UNCHANGED clock
    BY <1>3 DEF Query
  <2>2. k \in Key /\ reader[q].now \in Nat /\ reader[q].now <= clock
    BY <2>1, AskedTyped DEF AskedBefore
  <2>3. \/ reader' = [reader EXCEPT ![q] = IdleReader]
        \/ \E rows \in Results(k) : Await(q, "store", reader[q].now, rows)
    BY <1>3 DEF Query
  <2>4. /\ reader' \in [Reader -> ReaderState]
        /\ \A p \in Reader : reader'[p].pc # "idle" => reader'[p].keys # <<>>
        /\ \A p \in Reader \ {q} : reader'[p] = reader[p]
        /\ reader'[q].pc = "idle" \/ reader'[q].now = reader[q].now
    BY <2>1, <2>2, <2>3, ResultTypes, ForgetTyped, AwaitTyped
  <2>5. AskedBefore'
    BY <2>1, <2>2, <2>4 DEF AskedBefore
  <2> QED BY <1>3, <2>4, <2>5 DEF Query, Typed, TypeOK, BusyHaveWork
<1>4. CASE QueryFails(q)
  <2>1. /\ reader' \in [Reader -> ReaderState]
        /\ \A p \in Reader : reader'[p].pc # "idle" => reader'[p].keys # <<>>
        /\ \A p \in Reader \ {q} : reader'[p] = reader[p]
        /\ reader'[q].pc = "idle"
    BY <1>4, ForgetTyped DEF QueryFails
  <2>2. inputs' \in Nat /\ faults' \in Nat
    BY <1>4 DEF QueryFails, Inject, Ask, Typed, TypeOK
  <2>3. AskedBefore'
    BY <1>4, <2>1 DEF QueryFails, AskedBefore
  <2> QED BY <1>4, <2>1, <2>2, <2>3 DEF QueryFails, Typed, TypeOK, BusyHaveWork
<1>5. CASE Store(q)
  <2>1. reader[q].pc = "store" /\ Answered(q, reader[q].now, reader[q].rows)
    BY <1>5 DEF Store
  <2>2. /\ k \in Key /\ Home[q] \in Server
        /\ reader[q].now \in 0..clock /\ reader[q].rows \in SUBSET Id
    BY <1>1, <2>1, AskedTyped DEF AskedBefore
  <2>3. /\ reader' \in [Reader -> ReaderState]
        /\ \A p \in Reader : reader'[p].pc # "idle" => reader'[p].keys # <<>>
        /\ \A p \in Reader \ {q} : reader'[p] = reader[p]
        /\ reader'[q].pc \in {"look", "idle"}
    <3>1. reader[q].now \in Nat
      BY <1>1, <2>2
    <3> QED BY <2>1, <2>2, <3>1, AnsweredTyped
  <2>4. cache' \in [Server -> [Key -> [at : 0..clock, rows : SUBSET Id] \union {None}]]
    <3> DEFINE new == [at |-> reader[q].now, rows |-> reader[q].rows]
    <3>1. new \in [at : 0..clock, rows : SUBSET Id]
      BY <2>2
    <3>2. cache' = [cache EXCEPT ![Home[q]][k] = new]
      BY <1>5 DEF Store, CacheKeyOf
    <3> HIDE DEF new, k
    <3> QED BY <2>2, <3>1, <3>2 DEF Typed, TypeOK
  <2> QED BY <1>5, <2>3, <2>4 DEF Store, Typed, TypeOK, BusyHaveWork, AskedBefore
<1> QED BY <1>2, <1>3, <1>4, <1>5 DEF ReaderStep

LEMMA RestartTyped ==
    ASSUME Shaped, NEW p \in Process, Restart(p)
    PROVE  Shaped'
<1> USE DEF Shaped
<1>1. ASSUME NEW w \in Thread
      PROVE  /\ writer'[w] \in WriterState
             /\ writer'[w].pc = "insert" => writer'[w].todo # <<>>
  <2>1. CASE ProcessOf(w) # p
    <3>1. writer'[w] = writer[w]
      BY <2>1 DEF Restart
    <3> QED BY <3>1, WriterTyped
  <2>2. CASE ProcessOf(w) = p
    <3> DEFINE pc == IF w \in Writer THEN "idle" ELSE "gone"
    <3>1. writer'[w] = [pc |-> pc, todo |-> <<>>, tries |-> 0, ddl |-> 0]
      BY <2>2 DEF Restart
    <3>2. pc \in {"idle", "gone"}
      OBVIOUS
    <3> HIDE DEF pc
    <3> QED BY <3>1, <3>2, EmptySeq DEF WriterState
  <2> QED BY <2>1, <2>2
<1>2. writer' \in [Thread -> WriterState]
  BY <1>1 DEF Restart
<1>3. ASSUME NEW q \in Reader
      PROVE  /\ reader'[q] \in ReaderState
             /\ reader'[q].pc # "idle" => reader'[q].keys # <<>>
             /\ reader'[q].pc \in {"query", "store"} => reader'[q].now <= clock
  <2>1. IdleReader \in ReaderState /\ IdleReader.pc = "idle"
    BY EmptySeq DEF IdleReader, ReaderState
  <2>2. reader'[q] = reader[q] \/ reader'[q] = IdleReader
    BY DEF Restart
  <2> QED BY <2>1, <2>2 DEF Typed, TypeOK, BusyHaveWork, AskedBefore
<1>4. reader' \in [Reader -> ReaderState]
  BY <1>3 DEF Restart
<1>5. /\ ready' \in [Process -> BOOLEAN]
      /\ inputs' \in Nat /\ faults' \in Nat
  BY DEF Restart, Inject, Ask, Typed, TypeOK
<1>6. cache' \in [Server -> [Key -> [at : 0..clock, rows : SUBSET Id] \union {None}]]
  BY DEF Restart, Typed, TypeOK
<1> QED BY <1>1, <1>2, <1>3, <1>4, <1>5, <1>6 DEF Restart, Typed, TypeOK, BusyHaveWork, AskedBefore

LEMMA TickTyped ==
    ASSUME Shaped, Tick
    PROVE  Shaped'
<1>1. clock \in Nat /\ clock' \in Nat /\ clock <= clock'
  BY DEF Shaped, Typed, TypeOK, Tick
<1>2. cache' \in [Server -> [Key -> [at : 0..clock', rows : SUBSET Id] \union {None}]]
  <2>1. [at : 0..clock, rows : SUBSET Id] \subseteq [at : 0..clock', rows : SUBSET Id]
    BY <1>1
  <2> QED BY <2>1 DEF Shaped, Typed, TypeOK, Tick
<1>3. AskedBefore'
  <2> SUFFICES ASSUME NEW q \in Reader, reader[q].pc \in {"query", "store"}
               PROVE  reader[q].now <= clock'
    BY DEF Tick, AskedBefore
  <2>1. reader[q].now \in Nat /\ reader[q].now <= clock
    BY DEF Shaped, Typed, TypeOK, AskedBefore, ReaderState
  <2> QED BY <1>1, <2>1
<1> QED BY <1>1, <1>2, <1>3 DEF Tick, Shaped, Typed, TypeOK, BusyHaveWork

LEMMA ShapedInit == Init => Shaped
<1> SUFFICES ASSUME Init PROVE Shaped
  OBVIOUS
<1>1. IdleWriter \in WriterState
  BY EmptySeq DEF IdleWriter, WriterState
<1>2. IdleReader \in ReaderState
  BY EmptySeq DEF IdleReader, ReaderState
<1>3. table \in [Table -> [Id -> Seq(Nat)]]
  BY EmptySeq DEF Init
<1> QED BY <1>1, <1>2, <1>3 DEF Init, InitialSchemas, Shaped, Typed, TypeOK, BusyHaveWork, AskedBefore,
                              IdleWriter, IdleReader

LEMMA RequestShaped ==
    ASSUME Shaped, NEW q \in Reader, NEW u \in User, Stats(q, u) \/ Insights(q, u)
    PROVE  Shaped'
<1>1. ASSUME NEW keys \in Seq(Key), keys # <<>>, Request(q, u, keys)
      PROVE  Shaped'
  <2>1. Typed'
    BY <1>1, RequestTyped DEF Shaped
  <2>2. AskedBefore'
    BY <1>1 DEF Request, AskedBefore, Shaped, Typed, TypeOK
  <2> QED BY <2>1, <2>2 DEF Shaped
<1>2. /\ <<"modes", u>> \in Key /\ <<"modes", None>> \in Key
      /\ <<"findings", u>> \in Key /\ <<"reviews", u>> \in Key
  BY DEF Key
<1>3. CASE Stats(q, u)
  <2> DEFINE own == <<<<"modes", u>>>>
             all == IF u \in Admin THEN <<<<"modes", None>>>> ELSE <<>>
  <2>1. Request(q, u, own \o all)
    BY <1>3 DEF Stats
  <2>2. own \in Seq(Key) /\ Len(own) = 1
    BY <1>2
  <2>3. all \in Seq(Key)
    BY <1>2, EmptySeq
  <2> HIDE DEF own, all
  <2>4. own \o all \in Seq(Key) /\ Len(own \o all) = Len(own) + Len(all) /\ Len(all) \in Nat
    BY <2>2, <2>3, ConcatProperties, LenProperties
  <2>5. own \o all # <<>>
    <3>1. Len(own \o all) # 0
      BY <2>2, <2>4
    <3> QED BY <2>4, <3>1, EmptySeq
  <2> QED BY <1>1, <2>1, <2>4, <2>5
<1>4. CASE Insights(q, u)
  <2>1. Request(q, u, <<<<"findings", u>>, <<"reviews", u>>>>)
    BY <1>4 DEF Insights
  <2>2. <<<<"findings", u>>, <<"reviews", u>>>> \in Seq(Key)
    BY <1>2
  <2> QED BY <1>1, <2>1, <2>2
<1> QED BY <1>3, <1>4

LEMMA ShapedStep ==
    ASSUME Shaped, [Next]_vars
    PROVE  Shaped'
<1>1. ASSUME UNCHANGED clock, \A q \in Reader : reader'[q] = reader[q], Typed'
      PROVE  Shaped'
  BY <1>1 DEF Shaped, AskedBefore
<1>2. ASSUME NEW w \in Writer, NEW i \in Review, NEW u \in User, NEW o \in Outcome,
             Emit(w, i, u, o)
      PROVE  Shaped'
  BY <1>1, <1>2, EmitTyped DEF Emit, Shaped
<1>3. ASSUME NEW w \in Thread, WriterStep(w)
      PROVE  Shaped'
  <2>1. UNCHANGED <<clock, reader>>
    BY <1>3 DEF WriterStep, InsertStores, InsertNotFound, InsertNoSuchField, InsertFails,
                EnsureCheck, EnsureStep, EnsureFails
  <2> QED BY <1>1, <1>3, <2>1, WriterStepTyped DEF Shaped
<1>4. ASSUME NEW r \in Run, BenchmarkStart(r)
      PROVE  Shaped'
  <2>1. Main(r) \in Thread
    BY DEF Thread, Main
  <2>2. /\ writer' \in [Thread -> WriterState]
        /\ \A v \in Thread : writer'[v].pc = "insert" => writer'[v].todo # <<>>
    BY <1>4, <2>1, BeginTyped DEF BenchmarkStart, Shaped
  <2>3. inputs' \in Nat
    BY <1>4 DEF BenchmarkStart, Ask, Shaped, Typed, TypeOK
  <2>4. Typed'
    BY <1>4, <2>2, <2>3 DEF BenchmarkStart, Shaped, Typed, TypeOK, BusyHaveWork
  <2> QED BY <1>1, <1>4, <2>4 DEF BenchmarkStart
<1>5. ASSUME NEW r \in Run, NEW f \in File,
             \/ BenchmarkFile(r, f) \/ ModeFails(r, f)
             \/ \E o \in Outcome : ModeEnds(r, f, o)
      PROVE  Shaped'
  <2>1. UNCHANGED <<clock, reader>>
    BY <1>5 DEF BenchmarkFile, ModeFails, ModeEnds
  <2> QED BY <1>1, <1>5, <2>1, BenchmarkTyped DEF Shaped
<1>6. CASE UNCHANGED vars
  BY <1>6 DEF vars, Shaped, Typed, TypeOK, BusyHaveWork, AskedBefore
<1> QED BY <1>2, <1>3, <1>4, <1>5, <1>6, RequestShaped, ReaderStepTyped, RestartTyped, TickTyped
        DEF Next

\* Every table, thread and cache entry always has the shape the code gives it.
THEOREM WarehouseTypes == Spec => []TypeOK
<1>1. Init => Shaped
  BY ShapedInit
<1>2. Shaped /\ [Next]_vars => Shaped'
  BY ShapedStep
<1>3. Shaped => TypeOK
  BY DEF Shaped, Typed
<1> QED BY <1>1, <1>2, <1>3, PTL DEF Spec

-----------------------------------------------------------------------------
(* Findings have their review *)

\* The reviews that have a row, and whatever is not one.
KnownIds == {i \in Id : i \in Review => row[i] # None}

\* What is still to be inserted is known, and findings come right after the
\* review they belong to, or that one is already stored.
Orderly(todo, stored, known) ==
    \A n \in 1..Len(todo) :
        /\ todo[n][2] \in known
        /\ todo[n][1] = "findings" =>
              todo[n][2] \in stored \/ (n > 1 /\ todo[n - 1] = <<"reviews", todo[n][2]>>)

Backed ==
    /\ \A w \in Thread : Orderly(writer[w].todo, Stored("reviews"), KnownIds)
    /\ \A t \in Table : Stored(t) \subseteq KnownIds
    /\ FindingsHaveTheirReview

LEMMA OrderlyInsertions ==
    ASSUME NEW i \in Id, NEW outcome, NEW stored, NEW known, i \in known
    PROVE  Orderly(Insertions(i, outcome), stored, known)
<1>1. CASE outcome.found
  <2>1. Insertions(i, outcome) = <<<<"reviews", i>>, <<"findings", i>>>>
    BY <1>1 DEF Insertions
  <2>2. \A n \in 1..Len(<<<<"reviews", i>>, <<"findings", i>>>>) : n = 1 \/ n = 2
    OBVIOUS
  <2> QED BY <2>1, <2>2 DEF Orderly
<1>2. CASE ~outcome.found
  <2>1. Insertions(i, outcome) = <<<<"reviews", i>>>>
    BY <1>2 DEF Insertions
  <2>2. \A n \in 1..Len(<<<<"reviews", i>>>>) : n = 1
    OBVIOUS
  <2> QED BY <2>1, <2>2 DEF Orderly
<1> QED BY <1>1, <1>2

LEMMA OrderlyTail ==
    ASSUME NEW todo \in Seq(Insertion), todo # <<>>, NEW stored, NEW known,
           Orderly(todo, stored, known), NEW more,
           stored \subseteq more,
           \/ todo[1][1] = "reviews" => todo[1][2] \in more
           \/ Len(todo) > 1 => todo[2] # <<"findings", todo[1][2]>>
    PROVE  Orderly(Tail(todo), more, known)
<1> SUFFICES ASSUME NEW n \in 1..Len(Tail(todo))
             PROVE  /\ Tail(todo)[n][2] \in known
                    /\ Tail(todo)[n][1] = "findings" =>
                          \/ Tail(todo)[n][2] \in more
                          \/ n > 1 /\ Tail(todo)[n - 1] = <<"reviews", Tail(todo)[n][2]>>
  BY DEF Orderly
<1>1. Len(Tail(todo)) = Len(todo) - 1 /\ Len(todo) \in Nat
  BY HeadTailProperties, LenProperties
<1>2. /\ n + 1 \in 1..Len(todo) /\ Tail(todo)[n] = todo[n + 1]
      /\ n > 1 => Tail(todo)[n - 1] = todo[n]
  BY <1>1, HeadTailProperties
<1>3. /\ todo[n + 1][2] \in known
      /\ todo[n + 1][1] = "findings" =>
            todo[n + 1][2] \in stored \/ todo[n] = <<"reviews", todo[n + 1][2]>>
  BY <1>2 DEF Orderly
<1>4. CASE n = 1
  <2>1. Len(todo) > 1 /\ todo[2] = <<todo[2][1], todo[2][2]>>
    <3>1. todo[2] \in Insertion /\ Len(todo) > 1
      BY <1>2, <1>4, ElementOfSeq
    <3> QED BY <3>1 DEF Insertion
  <2> QED BY <1>2, <1>3, <1>4, <2>1
<1>5. CASE n > 1
  BY <1>2, <1>3, <1>5
<1> QED BY <1>4, <1>5

LEMMA OrderlyRest ==
    ASSUME NEW todo \in Seq(Insertion), todo # <<>>, NEW stored, NEW known,
           Orderly(todo, stored, known)
    PROVE  Orderly(Rest(todo), stored, known)
<1>1. CASE Len(todo) > 1 /\ todo[1][1] = "reviews" /\ todo[2] = <<"findings", todo[1][2]>>
  <2> DEFINE more == stored \union {todo[1][2]}
  <2>1. Orderly(Tail(todo), more, known)
    BY OrderlyTail
  <2>2. /\ Tail(todo) \in Seq(Insertion) /\ Tail(todo) # <<>>
        /\ Tail(todo)[1] = todo[2]
        /\ Len(Tail(todo)) = Len(todo) - 1 /\ Len(todo) \in Nat
    BY <1>1, HeadTailProperties, TailOfLonger, LenProperties
  <2> SUFFICES Orderly(Tail(Tail(todo)), stored, known)
    BY <1>1 DEF Rest
  <2> SUFFICES ASSUME NEW n \in 1..Len(Tail(Tail(todo)))
               PROVE  /\ Tail(Tail(todo))[n][2] \in known
                      /\ Tail(Tail(todo))[n][1] = "findings" =>
                            \/ Tail(Tail(todo))[n][2] \in stored
                            \/ /\ n > 1
                               /\ Tail(Tail(todo))[n - 1] = <<"reviews", Tail(Tail(todo))[n][2]>>
    BY DEF Orderly
  <2>3. Len(Tail(Tail(todo))) = Len(todo) - 2
    BY <2>2, HeadTailProperties
  <2>4. /\ n + 1 \in 1..Len(Tail(todo)) /\ n + 2 \in 1..Len(todo)
        /\ Tail(Tail(todo))[n] = Tail(todo)[n + 1]
        /\ Tail(todo)[n + 1] = todo[n + 2]
        /\ n > 1 => Tail(Tail(todo))[n - 1] = Tail(todo)[n] /\ Tail(todo)[n] = todo[n + 1]
    BY <2>2, <2>3, HeadTailProperties
  <2>5. /\ todo[n + 2][2] \in known
        /\ todo[n + 2][1] = "findings" =>
              todo[n + 2][2] \in stored \/ todo[n + 1] = <<"reviews", todo[n + 2][2]>>
    BY <2>4 DEF Orderly
  <2>6. CASE n = 1
    BY <1>1, <2>4, <2>5, <2>6
  <2>7. CASE n > 1
    BY <2>4, <2>5, <2>7
  <2> QED BY <2>6, <2>7
<1>2. CASE ~(Len(todo) > 1 /\ todo[1][1] = "reviews" /\ todo[2] = <<"findings", todo[1][2]>>)
  <2>1. Orderly(Tail(todo), stored, known)
    BY <1>2, OrderlyTail
  <2> QED BY <1>2, <2>1 DEF Rest
<1> QED BY <1>1, <1>2

LEMMA OrderlyConcat ==
    ASSUME NEW a \in Seq(Insertion), NEW b \in Seq(Insertion), NEW stored, NEW known,
           Orderly(a, stored, known), Orderly(b, stored, known)
    PROVE  Orderly(a \o b, stored, known)
<1> DEFINE c == a \o b
<1>1. /\ Len(a) \in Nat /\ Len(b) \in Nat /\ Len(c) = Len(a) + Len(b)
      /\ \A n \in 1..(Len(a) + Len(b)) : c[n] = IF n <= Len(a) THEN a[n] ELSE b[n - Len(a)]
  BY ConcatProperties, LenProperties
<1> HIDE DEF c
<1> SUFFICES ASSUME NEW n \in 1..Len(c)
             PROVE  /\ c[n][2] \in known
                    /\ c[n][1] = "findings" =>
                          c[n][2] \in stored \/ (n > 1 /\ c[n - 1] = <<"reviews", c[n][2]>>)
  BY DEF Orderly, c
<1>2. CASE n <= Len(a)
  <2>1. n \in 1..Len(a) /\ c[n] = a[n] /\ (n > 1 => c[n - 1] = a[n - 1])
    BY <1>1, <1>2
  <2> QED BY <2>1 DEF Orderly
<1>3. CASE n > Len(a)
  <2> DEFINE m == n - Len(a)
  <2>1. m \in 1..Len(b) /\ c[n] = b[m] /\ (m > 1 => n > 1 /\ c[n - 1] = b[m - 1])
    BY <1>1, <1>3
  <2> HIDE DEF m
  <2> QED BY <2>1 DEF Orderly
<1> QED BY <1>1, <1>2, <1>3

LEMMA OrderlyGrows ==
    ASSUME NEW todo, NEW stored, NEW known, Orderly(todo, stored, known),
           NEW stored2, NEW known2, stored \subseteq stored2, known \subseteq known2
    PROVE  Orderly(todo, stored2, known2)
BY DEF Orderly

\* What a step does to the tables and to the rows of reviews.
Grown ==
    /\ clock <= clock'
    /\ \A i \in Review : row[i] # None => row'[i] = row[i]
    /\ \A t \in Table, i \in Id :
          table'[t][i] = table[t][i] \/ table'[t][i] = Append(table[t][i], clock)

Sound == Shaped /\ Backed

\* A step that stores nothing leaves what was stored backed, if it forgets no
\* row of a review and what it leaves to be inserted is in order.
LEMMA StoresNothing ==
    ASSUME Sound, Shaped', UNCHANGED table, clock <= clock',
           \A i \in Review : row[i] # None => row'[i] = row[i],
           \A w \in Thread : \/ writer'[w].todo = writer[w].todo
                            \/ Orderly(writer'[w].todo, Stored("reviews"), KnownIds')
    PROVE  Backed' /\ Grown
<1>1. Stored("reviews")' = Stored("reviews") /\ Stored("findings")' = Stored("findings")
  BY DEF Stored
<1>2. KnownIds \subseteq KnownIds'
  BY DEF KnownIds
<1>3. \A w \in Thread : Orderly(writer'[w].todo, Stored("reviews"), KnownIds')
  BY <1>2, OrderlyGrows DEF Sound, Backed
<1>4. \A t \in Table : Stored(t)' \subseteq KnownIds'
  BY <1>2 DEF Sound, Backed, Stored
<1> QED BY <1>1, <1>3, <1>4 DEF Backed, Grown, Sound, FindingsHaveTheirReview

\* A row that is stored was the first one its thread had to insert.
LEMMA StoresFirst ==
    ASSUME Sound, NEW w \in Thread, writer[w].pc = "insert",
           Append1(Head(writer[w].todo)), UNCHANGED <<row, clock>>,
           NEW todo \in {Tail(writer[w].todo), Rest(writer[w].todo)}, Proceed(w, todo)
    PROVE  Backed' /\ Grown
<1> DEFINE old == writer[w].todo
           d == Head(old)
<1>1. old \in Seq(Insertion) /\ old # <<>>
  BY WriterTyped DEF Sound, Shaped
<1>2. /\ d \in Insertion /\ d = old[1] /\ 1 \in 1..Len(old)
      /\ Orderly(old, Stored("reviews"), KnownIds)
  <2>1. Len(old) \in Nat /\ Len(old) # 0
    BY <1>1, LenProperties, EmptySeq
  <2> QED BY <1>1, <2>1, HeadTailProperties DEF Sound, Backed
<1>3. PICK a \in Table, b \in Id : d = <<a, b>>
  BY <1>2 DEF Insertion
<1>4. b \in KnownIds /\ (a = "findings" => b \in Stored("reviews"))
  BY <1>2, <1>3 DEF Orderly
<1> HIDE DEF d
<1>5. \A t \in Table, i \in Id :
        table'[t][i] = IF <<t, i>> = d THEN Append(table[t][i], clock) ELSE table[t][i]
  BY <1>2, Appends DEF Sound, Shaped, Typed, d
<1>6. \A t \in Table : Stored(t)' = IF t = a THEN Stored(t) \union {b} ELSE Stored(t)
  <2> SUFFICES ASSUME NEW t \in Table
               PROVE  \A i \in Id : table'[t][i] # <<>> <=> table[t][i] # <<>> \/ <<t, i>> = d
    BY <1>3 DEF Stored
  <2> TAKE i \in Id
  <2>1. table[t][i] \in Seq(Nat) /\ clock \in Nat
    BY DEF Sound, Shaped, Typed, TypeOK
  <2>2. Append(table[t][i], clock) # <<>>
    <3>1. Len(Append(table[t][i], clock)) = Len(table[t][i]) + 1 /\ Len(table[t][i]) \in Nat
      BY <2>1, AppendProperties, LenProperties
    <3>2. Len(<<>>) = 0
      OBVIOUS
    <3> QED BY <3>1, <3>2
  <2> QED BY <1>5, <2>2
<1>7. KnownIds' = KnownIds
  BY DEF KnownIds
<1>8. /\ Stored("reviews") \subseteq Stored("reviews")'
      /\ Stored("findings")' \subseteq Stored("reviews")'
      /\ \A t \in Table : Stored(t)' \subseteq KnownIds
  BY <1>3, <1>4, <1>6 DEF Sound, Backed, FindingsHaveTheirReview, Table
<1>9. Orderly(todo, Stored("reviews")', KnownIds)
  <2>1. old[1][1] = "reviews" => old[1][2] \in Stored("reviews")'
    BY <1>2, <1>3, <1>6 DEF Table
  <2>2. Orderly(Tail(old), Stored("reviews")', KnownIds)
    BY <1>1, <1>2, <1>8, <2>1, OrderlyTail
  <2>3. Orderly(Rest(old), Stored("reviews")', KnownIds)
    BY <1>1, <1>2, <1>8, OrderlyRest, OrderlyGrows
  <2> QED BY <2>2, <2>3
<1>10. /\ writer'[w].todo = todo
       /\ \A v \in Thread \ {w} : writer'[v] = writer[v]
  BY DEF Proceed, Sound, Shaped, Typed, TypeOK
<1>11. \A v \in Thread : Orderly(writer'[v].todo, Stored("reviews")', KnownIds')
  BY <1>7, <1>8, <1>9, <1>10, OrderlyGrows DEF Sound, Backed
<1>12. clock <= clock'
  BY DEF Sound, Shaped, Typed, TypeOK
<1> QED BY <1>5, <1>7, <1>8, <1>11, <1>12 DEF Backed, Grown, FindingsHaveTheirReview

LEMMA WriterStepBacked ==
    ASSUME Sound, Shaped', NEW w \in Thread, WriterStep(w)
    PROVE  Backed' /\ Grown
<1> DEFINE old == writer[w].todo
<1>1. old \in Seq(Insertion) /\ Orderly(old, Stored("reviews"), KnownIds)
  BY WriterTyped DEF Sound, Shaped, Backed
<1>2. UNCHANGED <<row, clock>> /\ clock <= clock'
  BY DEF WriterStep, InsertStores, InsertNotFound, InsertNoSuchField, InsertFails,
         EnsureCheck, EnsureStep, EnsureFails, Sound, Shaped, Typed, TypeOK
<1>3. ASSUME UNCHANGED table, old # <<>>, Raise(w)
      PROVE  Backed' /\ Grown
  <2>1. Orderly(Rest(old), Stored("reviews"), KnownIds)
    BY <1>1, <1>3, OrderlyRest
  <2>2. /\ writer'[w].todo = Rest(old)
        /\ \A v \in Thread \ {w} : writer'[v] = writer[v]
    BY <1>3 DEF Raise, Proceed, Sound, Shaped, Typed, TypeOK
  <2>3. KnownIds' = KnownIds
    BY <1>2 DEF KnownIds
  <2> HIDE DEF old
  <2> QED BY <1>2, <1>3, <2>1, <2>2, <2>3, StoresNothing
<1>4. ASSUME UNCHANGED table, \A v \in Thread : writer'[v].todo = writer[v].todo
      PROVE  Backed' /\ Grown
  BY <1>2, <1>4, StoresNothing
<1>5. ASSUME NEW tries, BeginEnsure(w, tries)
      PROVE  \A v \in Thread : writer'[v].todo = writer[v].todo
  BY <1>5 DEF BeginEnsure, Sound, Shaped, Typed, TypeOK
<1>6. ASSUME EnsureEnds(w)
      PROVE  \A v \in Thread : writer'[v].todo = writer[v].todo
  <2> DEFINE pc == IF old = <<>> THEN "open" ELSE "insert"
  <2>1. writer' = [writer EXCEPT ![w].pc = pc]
    BY <1>6 DEF EnsureEnds
  <2> HIDE DEF pc
  <2> QED BY <2>1 DEF Sound, Shaped, Typed, TypeOK, WriterState
<1>7. writer[w].pc = "insert" => old # <<>>
  BY WriterTyped DEF Sound, Shaped
<1>8. CASE InsertStores(w)
  BY <1>2, <1>8, StoresFirst DEF InsertStores
<1>9. CASE InsertNotFound(w)
  BY <1>3, <1>4, <1>5, <1>7, <1>9 DEF InsertNotFound
<1>10. CASE InsertNoSuchField(w)
  BY <1>3, <1>4, <1>5, <1>7, <1>10 DEF InsertNoSuchField
<1>11. CASE InsertFails(w)
  BY <1>2, <1>3, <1>7, <1>11, StoresFirst DEF InsertFails, Raise
<1>12. CASE EnsureCheck(w)
  <2>1. writer' = [writer EXCEPT ![w].ddl = 1]
          => \A v \in Thread : writer'[v].todo = writer[v].todo
    BY DEF Sound, Shaped, Typed, TypeOK, WriterState
  <2> QED BY <1>4, <1>6, <1>12, <2>1 DEF EnsureCheck
<1>13. CASE EnsureStep(w)
  <2>1. writer' = [writer EXCEPT ![w].ddl = @ + 1]
          => \A v \in Thread : writer'[v].todo = writer[v].todo
    BY DEF Sound, Shaped, Typed, TypeOK, WriterState
  <2> QED BY <1>4, <1>6, <1>13, <2>1 DEF EnsureStep
<1>14. CASE EnsureFails(w)
  <2>1. writer' = [writer EXCEPT ![w].pc = "gone"]
          => \A v \in Thread : writer'[v].todo = writer[v].todo
    BY DEF Sound, Shaped, Typed, TypeOK, WriterState
  <2> QED BY <1>3, <1>4, <1>14, <2>1 DEF EnsureFails
<1> QED BY <1>8, <1>9, <1>10, <1>11, <1>12, <1>13, <1>14 DEF WriterStep

LEMMA EmitBacked ==
    ASSUME Sound, Shaped', NEW w \in Writer, NEW i \in Review, NEW u \in User, NEW o \in Outcome,
           Emit(w, i, u, o)
    PROVE  Backed' /\ Grown
<1>1. w \in Thread /\ i \in Id
  BY DEF Thread, Id
<1>2. /\ UNCHANGED <<table, clock>> /\ clock <= clock'
      /\ row[i] = None /\ \A j \in Id : j # i => row'[j] = row[j]
      /\ row'[i] # None
  <2>1. row' = [row EXCEPT ![i] = [uid |-> u, outcome |-> o, completed |-> clock]]
    BY DEF Emit
  <2>2. row'[i] = [uid |-> u, outcome |-> o, completed |-> clock] /\ row[i] = None
    BY <1>1, <2>1 DEF Emit, Sound, Shaped, Typed, TypeOK
  <2>3. [uid |-> u, outcome |-> o, completed |-> clock] \in RowType
    BY DEF Sound, Shaped, Typed, TypeOK, RowType
  <2> QED BY <1>1, <2>1, <2>2, <2>3, WarehouseAssumption
          DEF Emit, Sound, Shaped, Typed, TypeOK
<1>3. Orderly(Insertions(i, o), Stored("reviews"), KnownIds')
  BY <1>1, <1>2, OrderlyInsertions DEF KnownIds
<1>4. /\ writer'[w].todo = Insertions(i, o)
      /\ \A v \in Thread \ {w} : writer'[v] = writer[v]
  BY <1>1 DEF Emit, Proceed, Sound, Shaped, Typed, TypeOK
<1>5. \A j \in Review : row[j] # None => row'[j] = row[j]
  BY <1>2 DEF Id
<1> QED BY <1>2, <1>3, <1>4, <1>5, StoresNothing

LEMMA StartBacked ==
    ASSUME Sound, Shaped', NEW r \in Run, BenchmarkStart(r)
    PROVE  Backed' /\ Grown
<1>1. UNCHANGED <<row, table, clock>> /\ clock <= clock'
  BY DEF BenchmarkStart, Sound, Shaped, Typed, TypeOK
<1>2. \A v \in Thread : writer'[v].todo = writer[v].todo
  BY DEF BenchmarkStart, BeginEnsure, Sound, Shaped, Typed, TypeOK
<1> QED BY <1>1, <1>2, StoresNothing

LEMMA BenchmarkBacked ==
    ASSUME Sound, Shaped', NEW r \in Run, NEW f \in File,
           \/ BenchmarkFile(r, f) \/ ModeFails(r, f)
           \/ \E o \in Outcome : ModeEnds(r, f, o)
    PROVE  Backed' /\ Grown
<1>1. /\ <<r, f>> \in Thread
      /\ \A m \in Mode : <<r, f, m>> \in Id \ Review
  BY WarehouseAssumption DEF Thread, Id, BenchmarkId
<1>2. /\ UNCHANGED <<table, clock>> /\ clock <= clock'
      /\ \A i \in Review : row'[i] = row[i]
  <2>1. UNCHANGED <<table, clock>>
    BY DEF BenchmarkFile, ModeFails, ModeEnds
  <2>2. \A i \in Review : row'[i] = row[i]
    <3>1. row \in [Id -> RowType \union {None}]
      BY DEF Sound, Shaped, Typed, TypeOK
    <3>2. \/ row' = row
          \/ \E m \in Mode : \E after : row' = [row EXCEPT ![<<r, f, m>>] = after]
      BY DEF BenchmarkFile, ModeFails, ModeEnds, Mode
    <3>3. \A m \in Mode, i \in Review : i # <<r, f, m>> /\ i \in Id
      BY <1>1 DEF Id
    <3> QED BY <3>1, <3>2, <3>3
  <2> QED BY <2>1, <2>2 DEF Sound, Shaped, Typed, TypeOK
<1>3. KnownIds' = KnownIds
  BY <1>2 DEF KnownIds
<1>4. ASSUME NEW w \in Thread, NEW pc, writer' = [writer EXCEPT ![w].pc = pc]
      PROVE  \A v \in Thread : writer'[v].todo = writer[v].todo
  BY <1>4 DEF Sound, Shaped, Typed, TypeOK, WriterState
<1>5. CASE BenchmarkFile(r, f)
  BY <1>1, <1>2, <1>4, <1>5, StoresNothing DEF BenchmarkFile
<1>6. CASE ModeFails(r, f)
  BY <1>1, <1>2, <1>4, <1>6, StoresNothing DEF ModeFails
<1>7. ASSUME NEW o \in Outcome, ModeEnds(r, f, o)
      PROVE  Backed' /\ Grown
  <2> DEFINE w == <<r, f>>
             first == Insertions(<<r, f, "tiered">>, row[<<r, f, "tiered">>].outcome)
             second == Insertions(<<r, f, "baseline">>, o)
  <2>1. CASE writer[w].pc = "tiered"
    BY <1>1, <1>2, <1>4, <1>7, <2>1, StoresNothing DEF ModeEnds
  <2>2. CASE writer[w].pc # "tiered"
    <3>1. /\ <<r, f, "tiered">> \in Id /\ <<r, f, "tiered">> \in KnownIds
          /\ <<r, f, "baseline">> \in Id /\ <<r, f, "baseline">> \in KnownIds
      BY <1>1 DEF KnownIds, Mode
    <3>2. /\ first \in Seq(Insertion) /\ Orderly(first, Stored("reviews"), KnownIds)
          /\ second \in Seq(Insertion) /\ Orderly(second, Stored("reviews"), KnownIds)
      BY <3>1, TodoTypes, OrderlyInsertions
    <3>3. Proceed(w, first \o second)
      BY <1>7, <2>2 DEF ModeEnds
    <3> HIDE DEF first, second
    <3>4. Orderly(first \o second, Stored("reviews"), KnownIds)
      BY <3>2, OrderlyConcat
    <3>5. /\ writer'[w].todo = first \o second
          /\ \A v \in Thread \ {w} : writer'[v] = writer[v]
      BY <1>1, <3>3 DEF Proceed, Sound, Shaped, Typed, TypeOK
    <3> QED BY <1>2, <1>3, <3>4, <3>5, StoresNothing
  <2> QED BY <2>1, <2>2
<1> QED BY <1>5, <1>6, <1>7

LEMMA RestartBacked ==
    ASSUME Sound, Shaped', NEW p \in Process, Restart(p)
    PROVE  Backed' /\ Grown
<1>1. UNCHANGED <<table, clock, row>> /\ clock <= clock'
  BY DEF Restart, Sound, Shaped, Typed, TypeOK
<1>2. ASSUME NEW w \in Thread
      PROVE  \/ writer'[w].todo = writer[w].todo
             \/ Orderly(writer'[w].todo, Stored("reviews"), KnownIds')
  <2>1. CASE ProcessOf(w) # p
    BY <2>1 DEF Restart
  <2>2. CASE ProcessOf(w) = p
    <3>1. writer'[w].todo = <<>>
      BY <2>2 DEF Restart
    <3>2. Len(<<>>) = 0
      OBVIOUS
    <3> QED BY <3>1, <3>2 DEF Orderly
  <2> QED BY <2>1, <2>2
<1> QED BY <1>1, <1>2, StoresNothing

LEMMA OthersBacked ==
    ASSUME Sound, Shaped', UNCHANGED <<row, table, writer>>, clock <= clock'
    PROVE  Backed' /\ Grown
BY StoresNothing

LEMMA SoundStep ==
    ASSUME Sound, [Next]_vars
    PROVE  Sound' /\ Grown
<1>1. Shaped' /\ clock \in Nat
  BY ShapedStep DEF Sound, Shaped, Typed, TypeOK
<1>2. ASSUME NEW q \in Reader, NEW u \in User, Stats(q, u) \/ Insights(q, u)
      PROVE  UNCHANGED <<row, table, writer, clock>>
  BY <1>2 DEF Stats, Insights, Request
<1>3. ASSUME NEW q \in Reader, ReaderStep(q)
      PROVE  UNCHANGED <<row, table, writer, clock>>
  BY <1>3 DEF ReaderStep, Look, Query, QueryFails, Store
<1>4. Tick => UNCHANGED <<row, table, writer>> /\ clock <= clock'
  BY <1>1 DEF Tick
<1>5. UNCHANGED vars => UNCHANGED <<row, table, writer, clock>>
  BY DEF vars
<1>6. UNCHANGED clock => clock <= clock'
  BY <1>1
<1>7. Backed' /\ Grown
  <2>1. CASE \E w \in Writer, i \in Review, u \in User, o \in Outcome : Emit(w, i, u, o)
    BY <1>1, <2>1, EmitBacked
  <2>2. CASE \E w \in Thread : WriterStep(w)
    BY <1>1, <2>2, WriterStepBacked
  <2>3. CASE \E r \in Run : BenchmarkStart(r)
    BY <1>1, <2>3, StartBacked
  <2>4. CASE \E r \in Run, f \in File : \/ BenchmarkFile(r, f) \/ ModeFails(r, f)
                                      \/ \E o \in Outcome : ModeEnds(r, f, o)
    BY <1>1, <2>4, BenchmarkBacked
  <2>5. CASE \E p \in Process : Restart(p)
    BY <1>1, <2>5, RestartBacked
  <2>6. CASE \/ \E q \in Reader, u \in User : Stats(q, u) \/ Insights(q, u)
             \/ \E q \in Reader : ReaderStep(q)
             \/ Tick
             \/ UNCHANGED vars
    BY <1>1, <1>2, <1>3, <1>4, <1>5, <1>6, <2>6, OthersBacked
  <2> QED BY <2>1, <2>2, <2>3, <2>4, <2>5, <2>6 DEF Next
<1> QED BY <1>1, <1>7 DEF Sound

LEMMA SoundInit == Init => Sound
<1> SUFFICES ASSUME Init PROVE Sound
  OBVIOUS
<1>1. \A t \in Table : Stored(t) = {}
  BY DEF Init, Stored
<1>2. \A w \in Thread : writer[w].todo = <<>>
  BY DEF Init, IdleWriter
<1>3. Len(<<>>) = 0
  OBVIOUS
<1>4. Backed
  BY <1>1, <1>2, <1>3 DEF Backed, Orderly, FindingsHaveTheirReview, Table
<1> QED BY <1>4, ShapedInit DEF Sound

\* Findings are only ever stored with the review they belong to, whatever
\* fails between the two inserts (emit).
THEOREM FindingsAreBacked == Spec => []FindingsHaveTheirReview
<1>1. Init => Sound
  BY SoundInit
<1>2. Sound /\ [Next]_vars => Sound'
  BY SoundStep
<1>3. Sound => FindingsHaveTheirReview
  BY DEF Sound, Backed
<1> QED BY <1>1, <1>2, <1>3, PTL DEF Spec

-----------------------------------------------------------------------------
(* What dashboards show *)

TableOf(k) == IF k[1] = "findings" THEN "findings" ELSE "reviews"

\* The rows of production a query counts.
Wanted(k) == IF k[1] = "findings" THEN FindingsOf(k[2]) ELSE Traffic(k[2])

\* The result of a query has all it should that was stored before a time.
Seen(k, by, rows) ==
    \A i \in Wanted(k) : (\E n \in DOMAIN table[TableOf(k)][i] : table[TableOf(k)][i][n] < by)
                            => i \in rows

\* The result of a query has only what is of the user it is for.
Own(k, rows) ==
    \A i \in rows \intersect Review : row[i] # None /\ (k[2] = None \/ row[i].uid = k[2])

Permitted(u, k) == u \in User /\ (k[2] = u \/ (k = <<"modes", None>> /\ u \in Admin))

EntryTold(s, k) ==
    \A at \in Nat, rows \in SUBSET Id :
        cache[s][k] = [at |-> at, rows |-> rows] => Seen(k, at, rows) /\ Own(k, rows)

ReaderTold(q) ==
    /\ \A k \in Key, now \in Nat, rows \in SUBSET Id :
          /\ reader[q].pc = "store" /\ Head(reader[q].keys) = k
          /\ reader[q].now = now /\ reader[q].rows = rows
          => Seen(k, now, rows) /\ Own(k, rows)
    /\ \A k \in Key, now \in Nat, rows \in SUBSET Id :
          reader[q].got = [key |-> k, now |-> now, rows |-> rows] =>
              /\ now <= clock
              /\ Seen(k, now - CacheS + 1, rows) /\ Own(k, rows)
              /\ Permitted(reader[q].user, k)
    /\ \A n \in 1..Len(reader[q].keys) : Permitted(reader[q].user, reader[q].keys[n])

Told ==
    /\ \A s \in Server, k \in Key : EntryTold(s, k)
    /\ \A q \in Reader : ReaderTold(q)

\* What was seen by a time that is not to come stays all there was to see.
LEMMA SeenKept ==
    ASSUME Sound, Shaped', Grown, NEW k \in Key, NEW by \in Int, by <= clock, NEW rows
    PROVE  Seen(k, by, rows) => Seen(k, by, rows)'
<1> SUFFICES ASSUME Seen(k, by, rows), NEW i \in Wanted(k)',
                    NEW n \in DOMAIN table'[TableOf(k)][i], table'[TableOf(k)][i][n] < by
             PROVE  i \in rows
  BY DEF Seen, TableOf
<1> DEFINE t == TableOf(k)
<1>1. /\ i \in Review /\ i \in Id /\ t \in Table
      /\ IF k[1] = "findings" THEN row'[i].uid = k[2]
         ELSE row'[i].outcome.status = "done" /\ (k[2] = None \/ row'[i].uid = k[2])
  BY DEF Wanted, FindingsOf, Traffic, Stored, TableOf, Table
<1>2. table[t][i] \in Seq(Nat) /\ clock \in Nat
  BY <1>1 DEF Sound, Shaped, Typed, TypeOK
<1>3. n \in DOMAIN table[t][i] /\ table[t][i][n] < by
  <2>1. CASE table'[t][i] = table[t][i]
    BY <2>1
  <2>2. CASE table'[t][i] = Append(table[t][i], clock)
    <3>1. n \in 1..(Len(table[t][i]) + 1) /\ Len(table[t][i]) \in Nat
      BY <1>2, <2>2, AppendProperties, LenProperties
    <3>2. n # Len(table[t][i]) + 1
      BY <1>2, <2>2, AppendProperties
    <3>3. n \in 1..Len(table[t][i])
      BY <3>1, <3>2
    <3> QED BY <1>2, <2>2, <3>3, AppendProperties, LenProperties
  <2> QED BY <1>1, <2>1, <2>2 DEF Grown
<1>4. i \in Stored(t)
  <2>1. Len(table[t][i]) # 0
    BY <1>2, <1>3, LenProperties
  <2> QED BY <1>1, <1>2, <2>1, EmptySeq DEF Stored
<1>5. row'[i] = row[i]
  BY <1>1, <1>4 DEF Sound, Backed, KnownIds, Grown
<1>6. i \in Wanted(k)
  BY <1>1, <1>4, <1>5 DEF Wanted, FindingsOf, Traffic, TableOf
<1> QED BY <1>3, <1>6 DEF Seen

LEMMA OwnKept ==
    ASSUME Grown, NEW k \in Key, NEW rows
    PROVE  Own(k, rows) => Own(k, rows)'
BY DEF Grown, Own

\* A query sees all that is stored, and only what is of its user.
LEMMA QueryTold ==
    ASSUME Sound, NEW k \in Key, NEW rows \in Results(k), NEW by \in Int
    PROVE  Seen(k, by, rows) /\ Own(k, rows)
<1>1. rows \intersect Review = Wanted(k)
  BY ResultTypes DEF Wanted
<1>2. \A i \in Wanted(k) : i \in KnownIds /\ i \in Review /\ (k[2] = None \/ row[i].uid = k[2])
  BY DEF Wanted, FindingsOf, Traffic, Sound, Backed, Table
<1> QED BY <1>1, <1>2 DEF Seen, Own, KnownIds

LEMMA SeenBefore ==
    ASSUME Sound, NEW k \in Key, NEW at \in Int, NEW by \in Int, by <= at, NEW rows,
           Seen(k, at, rows)
    PROVE  Seen(k, by, rows)
<1> SUFFICES ASSUME NEW i \in Wanted(k), NEW n \in DOMAIN table[TableOf(k)][i],
                    table[TableOf(k)][i][n] < by
             PROVE  table[TableOf(k)][i][n] < at
  BY DEF Seen
<1>1. TableOf(k) \in Table /\ i \in Id
  BY DEF TableOf, Table, Wanted, FindingsOf, Traffic, Stored
<1>2. table[TableOf(k)][i] \in Seq(Nat)
  BY <1>1 DEF Sound, Shaped, Typed, TypeOK
<1>3. table[TableOf(k)][i][n] \in Nat
  BY <1>2, ElementOfSeq, LenProperties
<1> QED BY <1>3

LEMMA EntryKept ==
    ASSUME Sound, Shaped', Grown, NEW s \in Server, NEW k \in Key, EntryTold(s, k),
           cache'[s][k] = cache[s][k] \/ cache'[s][k] = None
    PROVE  EntryTold(s, k)'
<1> SUFFICES ASSUME NEW at \in Nat, NEW rows \in SUBSET Id,
                    cache'[s][k] = [at |-> at, rows |-> rows]
             PROVE  Seen(k, at, rows)' /\ Own(k, rows)'
  BY DEF EntryTold
<1>1. [at |-> at, rows |-> rows] # None
  BY WarehouseAssumption DEF Entry
<1>2. cache[s][k] = [at |-> at, rows |-> rows]
  BY <1>1
<1>3. at <= clock
  <2>1. cache[s][k] \in [at : 0..clock, rows : SUBSET Id] /\ clock \in Nat
    BY <1>1, <1>2 DEF Sound, Shaped, Typed, TypeOK
  <2>2. cache[s][k].at \in 0..clock /\ cache[s][k].at = at
    BY <1>2, <2>1
  <2> QED BY <2>1, <2>2
<1> QED BY <1>2, <1>3, SeenKept, OwnKept DEF EntryTold

LEMMA ReaderKept ==
    ASSUME Sound, Shaped', Grown, NEW q \in Reader, ReaderTold(q), reader'[q] = reader[q]
    PROVE  ReaderTold(q)'
<1>1. clock \in Nat /\ clock' \in Nat /\ clock <= clock' /\ CacheS \in Nat /\ CacheS >= 1
  BY WarehouseAssumption DEF Sound, Shaped, Typed, TypeOK, Grown
<1>2. ASSUME NEW k \in Key, NEW now \in Nat, NEW rows \in SUBSET Id,
             reader[q].pc = "store", Head(reader[q].keys) = k,
             reader[q].now = now, reader[q].rows = rows
      PROVE  Seen(k, now, rows)' /\ Own(k, rows)'
  <2>1. now <= clock
    BY <1>2 DEF Sound, Shaped, AskedBefore
  <2>2. Seen(k, now, rows) /\ Own(k, rows)
    BY <1>2 DEF ReaderTold
  <2> QED BY <2>1, <2>2, SeenKept, OwnKept
<1>3. ASSUME NEW k \in Key, NEW now \in Nat, NEW rows \in SUBSET Id,
             reader[q].got = [key |-> k, now |-> now, rows |-> rows]
      PROVE  /\ now <= clock'
             /\ Seen(k, now - CacheS + 1, rows)' /\ Own(k, rows)'
             /\ Permitted(reader[q].user, k)
  <2>1. /\ now <= clock
        /\ Seen(k, now - CacheS + 1, rows) /\ Own(k, rows)
        /\ Permitted(reader[q].user, k)
    BY <1>3 DEF ReaderTold
  <2>2. now - CacheS + 1 \in Int /\ now - CacheS + 1 <= clock /\ now <= clock'
    BY <1>1, <2>1
  <2> QED BY <2>1, <2>2, SeenKept, OwnKept
<1>4. \A n \in 1..Len(reader[q].keys) : Permitted(reader[q].user, reader[q].keys[n])
  BY DEF ReaderTold
<1> QED BY <1>2, <1>3, <1>4 DEF ReaderTold, Permitted

\* A request that has begun, or has been forgotten, shows nothing yet.
LEMMA NothingTold ==
    ASSUME NEW q \in Reader, reader'[q].pc # "store", reader'[q].got = None,
           \A n \in 1..Len(reader'[q].keys) : Permitted(reader'[q].user, reader'[q].keys[n])
    PROVE  ReaderTold(q)'
<1>1. \A k \in Key, now \in Nat, rows \in SUBSET Id : [key |-> k, now |-> now, rows |-> rows] # None
  BY WarehouseAssumption DEF Answer
<1> QED BY <1>1 DEF ReaderTold, Permitted

LEMMA IdleTold ==
    ASSUME NEW q \in Reader, reader'[q] = IdleReader
    PROVE  ReaderTold(q)'
<1>1. reader'[q].pc = "idle" /\ reader'[q].got = None /\ reader'[q].keys = <<>>
  BY DEF IdleReader
<1>2. Len(<<>>) = 0
  OBVIOUS
<1> QED BY <1>1, <1>2, NothingTold

LEMMA RequestTold ==
    ASSUME Sound, NEW q \in Reader, NEW u \in User, Stats(q, u) \/ Insights(q, u)
    PROVE  ReaderTold(q)' /\ \A p \in Reader \ {q} : reader'[p] = reader[p]
<1>1. ASSUME NEW keys, Request(q, u, keys), \A n \in 1..Len(keys) : Permitted(u, keys[n])
      PROVE  ReaderTold(q)' /\ \A p \in Reader \ {q} : reader'[p] = reader[p]
  <2>1. /\ reader'[q].pc = "look" /\ reader'[q].got = None
        /\ reader'[q].user = u /\ reader'[q].keys = keys
        /\ \A p \in Reader \ {q} : reader'[p] = reader[p]
    BY <1>1 DEF Request, Sound, Shaped, Typed, TypeOK
  <2> QED BY <1>1, <2>1, NothingTold
<1>2. /\ Permitted(u, <<"modes", u>>)
      /\ Permitted(u, <<"findings", u>>) /\ Permitted(u, <<"reviews", u>>)
      /\ u \in Admin => Permitted(u, <<"modes", None>>)
  BY DEF Permitted
<1>3. CASE Stats(q, u)
  <2> DEFINE own == <<<<"modes", u>>>>
             all == IF u \in Admin THEN <<<<"modes", None>>>> ELSE <<>>
             asked == own \o all
  <2>1. Request(q, u, asked)
    BY <1>3 DEF Stats
  <2>2. <<"modes", u>> \in Key /\ <<"modes", None>> \in Key
    BY DEF Key
  <2>3. own \in Seq(Key) /\ Len(own) = 1 /\ own[1] = <<"modes", u>>
    BY <2>2
  <2>4. /\ all \in Seq(Key) /\ Len(all) \in 0..1
        /\ Len(all) = 1 => u \in Admin /\ all[1] = <<"modes", None>>
    BY <2>2, EmptySeq
  <2> HIDE DEF own, all
  <2>5. \A n \in 1..(1 + Len(all)) : asked[n] = IF n <= 1 THEN own[n] ELSE all[n - 1]
    BY <2>3, <2>4, ConcatProperties
  <2>6. Len(asked) = 1 + Len(all)
    BY <2>3, <2>4, ConcatProperties
  <2> HIDE DEF asked
  <2>7. ASSUME NEW n \in 1..Len(asked)
        PROVE  Permitted(u, asked[n])
    <3> DEFINE more == Len(all)
    <3>1. more \in 0..1 /\ n \in 1..(1 + more) /\ asked[n] = IF n <= 1 THEN own[n] ELSE all[n - 1]
      BY <2>4, <2>5, <2>6
    <3>2. n = 1 \/ (n = 2 /\ more = 1)
      <4> HIDE DEF more
      <4> QED BY <3>1
    <3> QED BY <1>2, <2>3, <2>4, <3>1, <3>2
  <2> QED BY <1>1, <2>1, <2>7
<1>4. CASE Insights(q, u)
  <2> DEFINE asked == <<<<"findings", u>>, <<"reviews", u>>>>
  <2>1. Request(q, u, asked)
    BY <1>4 DEF Insights
  <2>2. \A n \in 1..Len(asked) : Permitted(u, asked[n])
    <3>1. \A n \in 1..Len(asked) : n = 1 \/ n = 2
      OBVIOUS
    <3> QED BY <1>2, <3>1
  <2> HIDE DEF asked
  <2> QED BY <1>1, <2>1, <2>2
<1> QED BY <1>3, <1>4

\* An answer is as good as the query it comes from, or the entry of the cache.
LEMMA AnsweredTold ==
    ASSUME Sound, Shaped', Grown, NEW q \in Reader, reader[q].pc # "idle", ReaderTold(q),
           UNCHANGED <<table, row, clock>>, NEW now \in Nat, now <= clock, NEW rows \in SUBSET Id,
           Answered(q, now, rows),
           Seen(Head(reader[q].keys), now - CacheS + 1, rows), Own(Head(reader[q].keys), rows)
    PROVE  ReaderTold(q)' /\ \A p \in Reader \ {q} : reader'[p] = reader[p]
<1> DEFINE keys == reader[q].keys
           k == Head(keys)
<1>1. /\ \A p \in Reader \ {q} : reader'[p] = reader[p]
      /\ reader'[q].user = reader[q].user /\ reader'[q].keys = Tail(keys)
      /\ reader'[q].pc \in {"look", "idle"}
      /\ reader'[q].got = [key |-> k, now |-> now, rows |-> rows]
  BY AnsweredTyped DEF Sound, Shaped
<1>2. keys \in Seq(Key) /\ keys # <<>>
  BY DEF Sound, Shaped, Typed, TypeOK, BusyHaveWork, ReaderState
<1>3. /\ k = keys[1] /\ 1 \in 1..Len(keys) /\ k \in Key
      /\ Len(Tail(keys)) = Len(keys) - 1 /\ Len(keys) \in Nat
      /\ \A n \in 1..(Len(keys) - 1) : Tail(keys)[n] = keys[n + 1]
  <2>1. Len(keys) \in Nat /\ Len(keys) # 0
    BY <1>2, LenProperties, EmptySeq
  <2> QED BY <1>2, <2>1, HeadTailProperties
<1>4. \A n \in 1..Len(keys) : Permitted(reader[q].user, keys[n])
  BY DEF ReaderTold
<1>5. CacheS \in Nat /\ clock \in Nat /\ CacheS >= 1
  BY WarehouseAssumption DEF Sound, Shaped, Typed, TypeOK
<1>6. ASSUME NEW k1 \in Key, NEW now1 \in Nat, NEW rows1 \in SUBSET Id,
             reader'[q].got = [key |-> k1, now |-> now1, rows |-> rows1]
      PROVE  /\ now1 <= clock'
             /\ Seen(k1, now1 - CacheS + 1, rows1)' /\ Own(k1, rows1)'
             /\ Permitted(reader'[q].user, k1)
  <2>1. k1 = k /\ now1 = now /\ rows1 = rows
    <3>1. /\ [key |-> k, now |-> now, rows |-> rows].key = k1
          /\ [key |-> k, now |-> now, rows |-> rows].now = now1
          /\ [key |-> k, now |-> now, rows |-> rows].rows = rows1
      BY <1>1, <1>6
    <3> QED BY <3>1
  <2>2. Seen(k1, now1 - CacheS + 1, rows1) /\ Own(k1, rows1)
    BY <2>1
  <2>3. now1 - CacheS + 1 \in Int /\ now1 - CacheS + 1 <= clock
    BY <1>5, <2>1
  <2> HIDE DEF k, keys
  <2>4. Seen(k1, now1 - CacheS + 1, rows1)' /\ Own(k1, rows1)'
    BY <2>2, <2>3, SeenKept, OwnKept
  <2> QED BY <1>1, <1>3, <1>4, <2>1, <2>4
<1>7. \A n \in 1..Len(reader'[q].keys) : Permitted(reader'[q].user, reader'[q].keys[n])
  <2> SUFFICES ASSUME NEW n \in 1..Len(Tail(keys))
               PROVE  Permitted(reader[q].user, Tail(keys)[n])
    BY <1>1
  <2>1. n + 1 \in 1..Len(keys) /\ Tail(keys)[n] = keys[n + 1]
    BY <1>3
  <2> QED BY <1>4, <2>1
<1> QED BY <1>1, <1>6, <1>7 DEF ReaderTold, Permitted

LEMMA ReaderStepTold ==
    ASSUME Sound, Told, Shaped', Grown, NEW q \in Reader, ReaderStep(q)
    PROVE  Told'
<1> DEFINE k == Head(reader[q].keys)
           entry == cache[Home[q]][k]
<1>1. UNCHANGED <<table, row, clock>>
  BY DEF ReaderStep, Look, Query, QueryFails, Store
<1>2. /\ reader[q].pc # "idle" /\ k \in Key /\ Home[q] \in Server
      /\ clock \in Nat /\ CacheS \in Nat /\ CacheS >= 1
      /\ reader[q].now \in Nat /\ reader[q].rows \in SUBSET Id
      /\ entry \in [at : 0..clock, rows : SUBSET Id] \union {None}
  <2>1. reader[q].pc # "idle"
    BY DEF ReaderStep, Look, Query, QueryFails, Store
  <2> QED BY <2>1, AskedTyped, WarehouseAssumption DEF Sound, Shaped, Typed, TypeOK
<1>3. ReaderTold(q) /\ EntryTold(Home[q], k)
  BY <1>2 DEF Told
<1>4. ASSUME UNCHANGED cache, ReaderTold(q)', \A p \in Reader \ {q} : reader'[p] = reader[p]
      PROVE  Told'
  <2>1. \A s \in Server, j \in Key : EntryTold(s, j)'
    BY <1>4, EntryKept DEF Told
  <2>2. \A p \in Reader : ReaderTold(p)'
    BY <1>4, ReaderKept DEF Told
  <2> QED BY <2>1, <2>2 DEF Told
<1>5. CASE Look(q)
  <2>1. CASE entry # None /\ clock - entry.at < CacheS
    <3> DEFINE at == entry.at
               rows == entry.rows
    <3>1. Answered(q, clock, rows)
      BY <1>5, <2>1 DEF Look, CacheKeyOf
    <3>2. at \in Nat /\ rows \in SUBSET Id /\ entry = [at |-> at, rows |-> rows]
      <4> HIDE DEF entry
      <4>1. entry \in [at : 0..clock, rows : SUBSET Id] /\ clock \in Nat
        BY <1>2, <2>1
      <4>2. entry.at \in 0..clock /\ entry.rows \in SUBSET Id
        BY <4>1
      <4>3. entry = [at |-> entry.at, rows |-> entry.rows]
        BY <4>1
      <4> QED BY <4>1, <4>2, <4>3
    <3>3. Seen(k, at, rows) /\ Own(k, rows)
      BY <1>3, <3>2 DEF EntryTold
    <3>4. clock - CacheS + 1 \in Int /\ clock - CacheS + 1 <= at
      <4> HIDE DEF entry
      <4> QED BY <1>2, <2>1, <3>2
    <3> HIDE DEF at, rows, k, entry
    <3>5. Seen(k, clock - CacheS + 1, rows)
      BY <1>2, <3>2, <3>3, <3>4, SeenBefore
    <3>6. ReaderTold(q)' /\ \A p \in Reader \ {q} : reader'[p] = reader[p]
      <4>1. clock <= clock
        BY <1>2
      <4> QED BY <1>1, <1>2, <1>3, <3>1, <3>2, <3>3, <3>5, <4>1, AnsweredTold DEF k
    <3> QED BY <1>4, <1>5, <3>6 DEF Look
  <2>2. CASE ~(entry # None /\ clock - entry.at < CacheS)
    <3>1. Await(q, "query", clock, {})
      BY <1>5, <2>2 DEF Look, CacheKeyOf
    <3>2. /\ reader'[q].pc = "query" /\ reader'[q].got = None
          /\ reader'[q].user = reader[q].user /\ reader'[q].keys = reader[q].keys
          /\ \A p \in Reader \ {q} : reader'[p] = reader[p]
      <4>1. Typed /\ reader[q].pc # "idle" /\ clock \in Nat /\ {} \in SUBSET Id
        BY <1>2 DEF Sound, Shaped
      <4> HIDE DEF k, entry
      <4> QED BY <3>1, <4>1, AwaitTyped
    <3>3. ReaderTold(q)'
      BY <1>3, <3>2, NothingTold DEF ReaderTold
    <3> QED BY <1>4, <1>5, <3>2, <3>3 DEF Look
  <2> QED BY <2>1, <2>2
<1>6. CASE Query(q)
  <2>1. CASE reader' = [reader EXCEPT ![q] = IdleReader]
    <3>1. reader'[q] = IdleReader /\ \A p \in Reader \ {q} : reader'[p] = reader[p]
      BY <2>1 DEF Sound, Shaped, Typed, TypeOK
    <3> QED BY <1>4, <1>6, <3>1, IdleTold DEF Query
  <2>2. ASSUME NEW rows \in Results(k), Await(q, "store", reader[q].now, rows)
        PROVE  Told'
    <3> DEFINE now == reader[q].now
    <3>1. rows \in SUBSET Id /\ now \in Nat /\ now <= clock
      <4>1. reader[q].pc = "query"
        BY <1>6 DEF Query
      <4> QED BY <1>2, <2>2, <4>1, ResultTypes DEF Sound, Shaped, AskedBefore
    <3>2. /\ reader'[q].pc = "store" /\ reader'[q].got = None
          /\ reader'[q].now = now /\ reader'[q].rows = rows
          /\ reader'[q].user = reader[q].user /\ reader'[q].keys = reader[q].keys
          /\ \A p \in Reader \ {q} : reader'[p] = reader[p]
      BY SMTT(30), <1>2, <2>2, <3>1, AwaitTyped DEF Sound, Shaped
    <3> HIDE DEF now
    <3>3. Seen(k, now, rows) /\ Own(k, rows)
      BY <1>2, <2>2, <3>1, QueryTold
    <3>4. ASSUME NEW k1 \in Key, NEW now1 \in Nat, NEW rows1 \in SUBSET Id,
                 Head(reader'[q].keys) = k1, reader'[q].now = now1, reader'[q].rows = rows1
          PROVE  Seen(k1, now1, rows1)' /\ Own(k1, rows1)'
      <4>1. k1 = k /\ now1 = now /\ rows1 = rows
        BY <3>2, <3>4
      <4>2. Seen(k1, now1, rows1) /\ Own(k1, rows1) /\ now1 \in Int /\ now1 <= clock
        BY <3>1, <3>3, <4>1
      <4> QED BY <4>2, SeenKept, OwnKept
    <3>5. \A k1 \in Key, now1 \in Nat, rows1 \in SUBSET Id :
             reader'[q].got # [key |-> k1, now |-> now1, rows |-> rows1]
      <4>1. \A k1 \in Key, now1 \in Nat, rows1 \in SUBSET Id :
               [key |-> k1, now |-> now1, rows |-> rows1] # None
        BY WarehouseAssumption DEF Answer
      <4> QED BY <3>2, <4>1
    <3>6. \A n \in 1..Len(reader'[q].keys) : Permitted(reader'[q].user, reader'[q].keys[n])
      BY <1>3, <3>2 DEF ReaderTold
    <3>7. ReaderTold(q)'
      BY <3>4, <3>5, <3>6 DEF ReaderTold, Permitted
    <3> QED BY <1>4, <1>6, <3>2, <3>7 DEF Query
  <2> QED BY <1>6, <2>1, <2>2 DEF Query
<1>7. CASE QueryFails(q)
  <2>1. reader'[q] = IdleReader /\ \A p \in Reader \ {q} : reader'[p] = reader[p]
    BY <1>7 DEF QueryFails, Sound, Shaped, Typed, TypeOK
  <2> QED BY <1>4, <1>7, <2>1, IdleTold DEF QueryFails
<1>8. CASE Store(q)
  <2> DEFINE now == reader[q].now
             rows == reader[q].rows
  <2>1. /\ reader[q].pc = "store" /\ Answered(q, now, rows)
        /\ cache' = [cache EXCEPT ![Home[q]][k] = [at |-> now, rows |-> rows]]
    BY <1>8 DEF Store, CacheKeyOf
  <2>2. now \in Nat /\ rows \in SUBSET Id /\ now <= clock
    BY <1>2, <2>1 DEF Sound, Shaped, AskedBefore
  <2>3. Seen(k, now, rows) /\ Own(k, rows)
    BY <1>2, <1>3, <2>1 DEF ReaderTold
  <2> HIDE DEF now, rows, k
  <2>4. Seen(k, now - CacheS + 1, rows)
    <3>1. now \in Int /\ now - CacheS + 1 \in Int /\ now - CacheS + 1 <= now
      BY <1>2, <2>2
    <3> QED BY <1>2, <2>3, <3>1, SeenBefore
  <2>5. ReaderTold(q)' /\ \A p \in Reader \ {q} : reader'[p] = reader[p]
    BY <1>1, <1>2, <1>3, <2>1, <2>2, <2>3, <2>4, AnsweredTold DEF k
  <2>6. ASSUME NEW s \in Server, NEW j \in Key
        PROVE  EntryTold(s, j)'
    <3>1. CASE s = Home[q] /\ j = k
      <4>1. cache'[s][j] = [at |-> now, rows |-> rows]
        BY <2>1, <3>1 DEF Sound, Shaped, Typed, TypeOK
      <4> SUFFICES ASSUME NEW at1 \in Nat, NEW rows1 \in SUBSET Id,
                          cache'[s][j] = [at |-> at1, rows |-> rows1]
                   PROVE  Seen(j, at1, rows1)' /\ Own(j, rows1)'
        BY DEF EntryTold
      <4>2. at1 = now /\ rows1 = rows
        <5>1. /\ [at |-> now, rows |-> rows].at = at1
              /\ [at |-> now, rows |-> rows].rows = rows1
          BY <4>1
        <5> QED BY <5>1
      <4>3. Seen(j, at1, rows1) /\ Own(j, rows1) /\ at1 \in Int /\ at1 <= clock
        BY <2>2, <2>3, <3>1, <4>2
      <4> QED BY <4>3, SeenKept, OwnKept
    <3>2. CASE ~(s = Home[q] /\ j = k)
      <4>1. cache'[s][j] = cache[s][j]
        BY <1>2, <2>1, <3>2 DEF Sound, Shaped, Typed, TypeOK
      <4> QED BY <4>1, EntryKept DEF Told
    <3> QED BY <3>1, <3>2
  <2>7. \A p \in Reader : ReaderTold(p)'
    BY <2>5, ReaderKept DEF Told
  <2> QED BY <2>6, <2>7 DEF Told
<1> QED BY <1>5, <1>6, <1>7, <1>8 DEF ReaderStep

LEMMA RestartTold ==
    ASSUME Sound, Told, Shaped', Grown, NEW p \in Process, Restart(p)
    PROVE  Told'
<1>1. ASSUME NEW s \in Server, NEW k \in Key
      PROVE  EntryTold(s, k)'
  <2>1. cache'[s][k] = cache[s][k] \/ cache'[s][k] = None
    BY DEF Restart
  <2> QED BY <2>1, EntryKept DEF Told
<1>2. ASSUME NEW q \in Reader
      PROVE  ReaderTold(q)'
  <2>1. reader'[q] = reader[q] \/ reader'[q] = IdleReader
    BY DEF Restart
  <2> QED BY <2>1, ReaderKept, IdleTold DEF Told
<1> QED BY <1>1, <1>2 DEF Told

LEMMA ToldStep ==
    ASSUME Sound, Told, [Next]_vars
    PROVE  Sound' /\ Told'
<1>1. Sound' /\ Shaped' /\ Grown
  BY SoundStep DEF Sound
<1>2. ASSUME UNCHANGED <<cache, reader>>
      PROVE  Told'
  <2>1. \A s \in Server, k \in Key : EntryTold(s, k)'
    BY <1>1, <1>2, EntryKept DEF Told
  <2>2. \A q \in Reader : ReaderTold(q)'
    BY <1>1, <1>2, ReaderKept DEF Told
  <2> QED BY <2>1, <2>2 DEF Told
<1>3. CASE \/ \E w \in Writer, i \in Review, u \in User, o \in Outcome : Emit(w, i, u, o)
           \/ \E w \in Thread : WriterStep(w)
           \/ \E r \in Run : BenchmarkStart(r)
           \/ \E r \in Run, f \in File : BenchmarkFile(r, f) \/ ModeFails(r, f)
           \/ \E r \in Run, f \in File, o \in Outcome : ModeEnds(r, f, o)
           \/ Tick
           \/ UNCHANGED vars
  <2>1. UNCHANGED <<cache, reader>>
    BY <1>3 DEF Emit, WriterStep, InsertStores, InsertNotFound, InsertNoSuchField, InsertFails,
                EnsureCheck, EnsureStep, EnsureFails, BenchmarkStart, BenchmarkFile, ModeFails,
                ModeEnds, Tick, vars
  <2> QED BY <1>1, <1>2, <2>1
<1>4. ASSUME NEW q \in Reader, NEW u \in User, Stats(q, u) \/ Insights(q, u)
      PROVE  Told'
  <2>1. UNCHANGED cache
    BY <1>4 DEF Stats, Insights, Request
  <2>2. ReaderTold(q)' /\ \A p \in Reader \ {q} : reader'[p] = reader[p]
    BY <1>4, RequestTold
  <2>3. \A s \in Server, k \in Key : EntryTold(s, k)'
    BY <1>1, <2>1, EntryKept DEF Told
  <2>4. \A p \in Reader : ReaderTold(p)'
    BY <1>1, <2>2, ReaderKept DEF Told
  <2> QED BY <2>3, <2>4 DEF Told
<1>5. CASE \E q \in Reader : ReaderStep(q)
  BY <1>1, <1>5, ReaderStepTold
<1>6. CASE \E p \in Process : Restart(p)
  BY <1>1, <1>6, RestartTold
<1>7. Told'
  BY <1>3, <1>4, <1>5, <1>6 DEF Next
<1> QED BY <1>1, <1>7

LEMMA ToldInit == Init => Told
<1> SUFFICES ASSUME Init PROVE Told
  OBVIOUS
<1>1. \A s \in Server, k \in Key : cache[s][k] = None
  BY DEF Init
<1>2. \A at \in Nat, rows \in SUBSET Id : [at |-> at, rows |-> rows] # None
  BY WarehouseAssumption DEF Entry
<1>3. \A k \in Key, now \in Nat, rows \in SUBSET Id : [key |-> k, now |-> now, rows |-> rows] # None
  BY WarehouseAssumption DEF Answer
<1>4. \A q \in Reader : reader[q].pc = "idle" /\ reader[q].got = None /\ reader[q].keys = <<>>
  BY DEF Init, IdleReader
<1>5. Len(<<>>) = 0
  OBVIOUS
<1>6. \A q \in Reader : ReaderTold(q)
  BY <1>3, <1>4, <1>5 DEF ReaderTold
<1> QED BY <1>1, <1>2, <1>6 DEF Told, EntryTold

\* What an answer is, from what the type invariant says of it.
LEMMA GotTyped ==
    ASSUME Sound, Told, NEW q \in Reader, reader[q].got # None, NEW a, a = reader[q].got
    PROVE  /\ a.key \in Key /\ a.now \in Nat /\ a.rows \in SUBSET Id
           /\ Seen(a.key, a.now - CacheS + 1, a.rows) /\ Own(a.key, a.rows)
           /\ Permitted(reader[q].user, a.key)
<1>1. a \in Answer
  BY DEF Sound, Shaped, Typed, TypeOK, ReaderState
<1>2. /\ a.key \in Key /\ a.now \in Nat /\ a.rows \in SUBSET Id
      /\ a = [key |-> a.key, now |-> a.now, rows |-> a.rows]
  BY <1>1 DEF Answer
<1> QED BY <1>2 DEF Told, ReaderTold

LEMMA SpecTold == Spec => [](Sound /\ Told)
<1>1. Init => Sound /\ Told
  BY SoundInit, ToldInit
<1>2. Sound /\ Told /\ [Next]_vars => (Sound /\ Told)'
  BY ToldStep
<1> QED BY <1>1, <1>2, PTL DEF Spec

\* No dashboard ever shows a row of production that is another user's, except
\* to an admin who asked for everybody's (stats, insights, _rows).
THEOREM DashboardsAreOnesOwn == Spec => []AnswersAreYours
<1>1. Sound /\ Told => AnswersAreYours
  <2> SUFFICES ASSUME Sound, Told, NEW q \in Reader, reader[q].got # None,
                      NEW a, a = reader[q].got, NEW i \in a.rows \intersect Review
               PROVE  \/ row[i].uid = reader[q].user
                      \/ a.key = <<"modes", None>> /\ reader[q].user \in Admin
    BY DEF AnswersAreYours
  <2>1. Own(a.key, a.rows) /\ Permitted(reader[q].user, a.key)
    BY GotTyped
  <2> QED BY <2>1, WarehouseAssumption DEF Own, Permitted
<1> QED BY <1>1, SpecTold, PTL

\* Every dashboard shows what was stored cache_s before it was asked for, on
\* whatever path it came through the cache (_rows).
THEOREM DashboardsAreFresh == Spec => []FreshEnough
<1>1. Sound /\ Told => FreshEnough
  <2> SUFFICES ASSUME Sound, Told, NEW q \in Reader, reader[q].got # None,
                      NEW a, a = reader[q].got, NEW i \in Wanted(a.key),
                      NEW n \in DOMAIN table[TableOf(a.key)][i],
                      table[TableOf(a.key)][i][n] + CacheS <= a.now
               PROVE  i \in a.rows
    BY DEF FreshEnough, Wanted, TableOf
  <2>1. a.now \in Nat /\ Seen(a.key, a.now - CacheS + 1, a.rows)
    BY GotTyped
  <2>2. table[TableOf(a.key)][i][n] \in Nat
    <3>1. TableOf(a.key) \in Table /\ i \in Id
      BY DEF TableOf, Table, Wanted, FindingsOf, Traffic, Stored
    <3>2. table[TableOf(a.key)][i] \in Seq(Nat)
      BY <3>1 DEF Sound, Shaped, Typed, TypeOK
    <3> QED BY <3>2, ElementOfSeq, LenProperties
  <2>3. CacheS \in Nat
    BY WarehouseAssumption
  <2>4. table[TableOf(a.key)][i][n] < a.now - CacheS + 1
    BY <2>1, <2>2, <2>3
  <2> QED BY <2>1, <2>4 DEF Seen
<1> QED BY <1>1, SpecTold, PTL

-----------------------------------------------------------------------------
(* Rows are stored once, and not lost *)

HeldIn(todo) == {todo[n] : n \in 1..Len(todo)}

Held(w) == HeldIn(writer[w].todo)

\* Nothing is to be inserted twice.
Apart(todo) == \A m, n \in 1..Len(todo) : todo[m] = todo[n] => m = n

\* Only a thread that inserts has something to insert.
HandsEmpty == \A w \in Thread : writer[w].pc \notin {"insert", "ensure"} => writer[w].todo = <<>>

\* Reviews whose outcome has not been reported.
Reviewing == {"idle", "tiered", "baseline"}

Fresh ==
    {i \in Id : IF i \in Review THEN row[i] = None ELSE writer[<<i[1], i[2]>>].pc \in Reviewing}

Untouched(i) == \A t \in Table : table[t][i] = <<>> /\ ~InHand(<<t, i>>)

\* What is to be inserted is in one place, and has not been stored.
Once ==
    /\ \A t \in Table, i \in Id : Len(table[t][i]) <= 1
    /\ \A w \in Thread : Apart(writer[w].todo) /\ \A d \in Held(w) : table[d[1]][d[2]] = <<>>
    /\ \A v, w \in Thread : v # w => Held(v) \intersect Held(w) = {}
    /\ \A i \in Fresh : Untouched(i)

LEMMA HandIsHeld ==
    ASSUME Typed, NEW d
    PROVE  InHand(d) <=> \E w \in Thread : d \in Held(w)
<1>1. \A w \in Thread : DOMAIN writer[w].todo = 1..Len(writer[w].todo)
  BY WriterTyped, LenProperties
<1> QED BY <1>1 DEF InHand, Held, HeldIn

LEMMA TailHeld ==
    ASSUME NEW todo \in Seq(Insertion), todo # <<>>, Apart(todo)
    PROVE  /\ Apart(Tail(todo)) /\ Head(todo) \notin HeldIn(Tail(todo))
           /\ HeldIn(todo) = HeldIn(Tail(todo)) \union {Head(todo)}
<1> DEFINE tail == Tail(todo)
           len == Len(todo)
<1>1. len \in Nat /\ len # 0
  BY LenProperties, EmptySeq
<1>2. Len(tail) = len - 1 /\ Head(todo) = todo[1]
  BY <1>1, HeadTailProperties
<1>3. \A n \in 1..(len - 1) : tail[n] = todo[n + 1] /\ n + 1 \in 1..len /\ n + 1 # 1
  BY <1>1, HeadTailProperties
<1>4. \A n \in 1..len : n = 1 \/ (n - 1 \in 1..(len - 1) /\ todo[n] = tail[n - 1])
  <2> SUFFICES ASSUME NEW n \in 1..len, n # 1
               PROVE  n - 1 \in 1..(len - 1) /\ todo[n] = tail[n - 1]
    OBVIOUS
  <2>1. n - 1 \in 1..(len - 1) /\ (n - 1) + 1 = n
    BY <1>1
  <2> QED BY <1>3, <2>1
<1>5. 1 \in 1..len
  BY <1>1
<1> HIDE DEF tail, len
<1>6. Apart(tail)
  <2> SUFFICES ASSUME NEW m \in 1..(len - 1), NEW n \in 1..(len - 1), tail[m] = tail[n]
               PROVE  m = n
    BY <1>2 DEF Apart
  <2>1. m + 1 = n + 1
    BY <1>3 DEF Apart, len
  <2> QED BY <1>1, <2>1
<1>7. todo[1] \notin HeldIn(tail)
  BY <1>2, <1>3, <1>5 DEF HeldIn, Apart, len
<1>8. HeldIn(todo) = HeldIn(tail) \union {todo[1]}
  <2>1. HeldIn(todo) = {todo[n] : n \in 1..len} /\ HeldIn(tail) = {tail[n] : n \in 1..(len - 1)}
    BY <1>2 DEF HeldIn, len
  <2> QED BY <1>3, <1>4, <1>5, <2>1
<1> QED BY <1>2, <1>6, <1>7, <1>8 DEF tail

LEMMA RestHeld ==
    ASSUME NEW todo \in Seq(Insertion), todo # <<>>, Apart(todo)
    PROVE  Apart(Rest(todo)) /\ HeldIn(Rest(todo)) \subseteq HeldIn(Tail(todo))
<1>1. Apart(Tail(todo)) /\ Tail(todo) \in Seq(Insertion)
  BY TailHeld, HeadTailProperties
<1>2. CASE Rest(todo) = Tail(todo)
  BY <1>1, <1>2
<1>3. CASE Rest(todo) # Tail(todo)
  <2>1. Len(todo) > 1 /\ Rest(todo) = Tail(Tail(todo))
    BY <1>3 DEF Rest
  <2>2. Tail(todo) # <<>>
    BY <2>1, TailOfLonger
  <2> QED BY <1>1, <2>1, <2>2, TailHeld
<1> QED BY <1>2, <1>3

LEMMA InsertionsHeld ==
    ASSUME NEW i \in Id, NEW outcome
    PROVE  /\ Apart(Insertions(i, outcome))
           /\ HeldIn(Insertions(i, outcome)) =
                {<<"reviews", i>>} \union IF outcome.found THEN {<<"findings", i>>} ELSE {}
<1>1. CASE outcome.found
  <2> DEFINE s == <<<<"reviews", i>>, <<"findings", i>>>>
  <2>1. Insertions(i, outcome) = s
    BY <1>1 DEF Insertions
  <2>2. 1..Len(s) = {1, 2} /\ s[1] = <<"reviews", i>> /\ s[2] = <<"findings", i>>
    OBVIOUS
  <2>3. s[1] # s[2]
    BY <2>2
  <2> HIDE DEF s
  <2>4. HeldIn(s) = {s[1], s[2]} /\ Apart(s)
    BY <2>2, <2>3 DEF HeldIn, Apart
  <2> QED BY <1>1, <2>1, <2>2, <2>4
<1>2. CASE ~outcome.found
  <2> DEFINE s == <<<<"reviews", i>>>>
  <2>1. Insertions(i, outcome) = s
    BY <1>2 DEF Insertions
  <2>2. 1..Len(s) = {1} /\ s[1] = <<"reviews", i>>
    OBVIOUS
  <2> HIDE DEF s
  <2>3. HeldIn(s) = {s[1]} /\ Apart(s)
    BY <2>2 DEF HeldIn, Apart
  <2> QED BY <1>2, <2>1, <2>2, <2>3
<1> QED BY <1>1, <1>2

LEMMA ConcatHeld ==
    ASSUME NEW a \in Seq(Insertion), NEW b \in Seq(Insertion), Apart(a), Apart(b),
           HeldIn(a) \intersect HeldIn(b) = {}
    PROVE  Apart(a \o b) /\ HeldIn(a \o b) = HeldIn(a) \union HeldIn(b)
<1> DEFINE c == a \o b
           la == Len(a)
           lb == Len(b)
<1>1. /\ la \in Nat /\ lb \in Nat /\ Len(c) = la + lb
      /\ \A n \in 1..(la + lb) : c[n] = IF n <= la THEN a[n] ELSE b[n - la]
  BY ConcatProperties, LenProperties
<1>2. /\ HeldIn(a) = {a[n] : n \in 1..la} /\ HeldIn(b) = {b[n] : n \in 1..lb}
      /\ HeldIn(c) = {c[n] : n \in 1..(la + lb)}
  BY <1>1 DEF HeldIn
<1>3. /\ \A m, n \in 1..la : a[m] = a[n] => m = n
      /\ \A m, n \in 1..lb : b[m] = b[n] => m = n
  BY DEF Apart
<1> HIDE DEF c, la, lb
<1>4. \A n \in 1..(la + lb) :
        IF n \in 1..la THEN c[n] = a[n] ELSE n - la \in 1..lb /\ c[n] = b[n - la]
  BY <1>1
<1>5. /\ \A n \in 1..la : n \in 1..(la + lb) /\ c[n] = a[n]
      /\ \A n \in 1..lb : n + la \in 1..(la + lb) /\ c[n + la] = b[n]
  <2>1. \A n \in 1..la : n \in 1..(la + lb) /\ c[n] = a[n]
    BY <1>1
  <2>2. ASSUME NEW n \in 1..lb
        PROVE  n + la \in 1..(la + lb) /\ c[n + la] = b[n]
    <3>1. n + la \in 1..(la + lb) /\ ~(n + la <= la) /\ (n + la) - la = n
      BY <1>1
    <3> QED BY <1>1, <3>1
  <2> QED BY <2>1, <2>2
<1>6. HeldIn(c) = HeldIn(a) \union HeldIn(b)
  BY <1>2, <1>4, <1>5
<1>7. ASSUME NEW m \in 1..(la + lb), NEW n \in 1..(la + lb), c[m] = c[n]
      PROVE  m = n
  <2>1. CASE m \in 1..la /\ n \in 1..la
    BY <1>3, <1>5, <1>7, <2>1
  <2>2. CASE m \notin 1..la /\ n \notin 1..la
    <3>1. m - la \in 1..lb /\ n - la \in 1..lb /\ b[m - la] = b[n - la]
      BY <1>4, <1>7, <2>2
    <3>2. m - la = n - la
      BY <1>3, <3>1
    <3> QED BY <1>1, <3>2
  <2>3. CASE ~(m \in 1..la <=> n \in 1..la)
    <3>1. c[m] \in HeldIn(a) /\ c[m] \in HeldIn(b)
      BY <1>2, <1>4, <1>7, <2>3
    <3> QED BY <3>1
  <2> QED BY <2>1, <2>2, <2>3
<1> QED BY <1>1, <1>6, <1>7 DEF Apart, c

\* How a thread moves what is to be inserted: what is stored leaves its hands;
\* what comes is of a review that is reported in this step.
Moves(w) ==
    /\ Fresh' \subseteq Fresh
    /\ \A v \in Thread : Apart(writer'[v].todo)
    /\ \A v \in Thread : \A d \in Held(v)' :
         d \in Held(v) \/ (v = w /\ d \in Insertion /\ d[2] \in Fresh \ Fresh')
    /\ \A t \in Table, i \in Id :
         \/ table'[t][i] = table[t][i]
         \/ /\ w \in Thread /\ <<t, i>> \in Held(w) /\ <<t, i>> \notin Held(w)'
            /\ table'[t][i] = Append(table[t][i], clock)

LEMMA OnceKept ==
    ASSUME Typed, Typed', Once, NEW w, Moves(w)
    PROVE  Once'
<1>1. \A d : InHand(d) <=> \E v \in Thread : d \in Held(v)
  BY HandIsHeld
<1>2. \A d : InHand(d)' <=> \E v \in Thread : d \in Held(v)'
  <2> SUFFICES ASSUME NEW d PROVE InHand(d)' <=> \E v \in Thread : d \in Held(v)'
    OBVIOUS
  <2>1. \A v \in Thread : writer'[v].todo \in Seq(Insertion)
    BY DEF Typed, TypeOK, WriterState
  <2>2. \A v \in Thread : DOMAIN writer'[v].todo = 1..Len(writer'[v].todo)
    BY <2>1, LenProperties
  <2> QED BY <2>2 DEF InHand, Held, HeldIn
<1>3. ASSUME NEW v \in Thread, NEW d \in Held(v)
      PROVE  d \in Insertion /\ d = <<d[1], d[2]>> /\ d[1] \in Table /\ d[2] \in Id
  <2>1. writer[v].todo \in Seq(Insertion)
    BY WriterTyped
  <2>2. d \in Insertion
    BY <2>1, ElementOfSeq DEF Held, HeldIn
  <2> QED BY <2>2 DEF Insertion
<1>4. ASSUME NEW i \in Fresh, NEW t \in Table
      PROVE  table[t][i] = <<>> /\ \A v \in Thread : <<t, i>> \notin Held(v)
  BY <1>1 DEF Once, Untouched
<1>5. ASSUME w \in Thread, NEW d \in Held(w)', d \notin Held(w)
      PROVE  /\ d = <<d[1], d[2]>> /\ d[1] \in Table /\ d[2] \in Id
             /\ d[2] \in Fresh /\ d[2] \notin Fresh'
             /\ table'[d[1]][d[2]] = <<>>
             /\ \A v \in Thread : d \notin Held(v)
  <2>1. d \in Insertion /\ d[2] \in Fresh /\ d[2] \notin Fresh'
    BY <1>5 DEF Moves
  <2>2. d = <<d[1], d[2]>> /\ d[1] \in Table /\ d[2] \in Id
    BY <2>1 DEF Insertion
  <2>3. table[d[1]][d[2]] = <<>> /\ \A v \in Thread : d \notin Held(v)
    BY <1>4, <2>1, <2>2
  <2>4. table'[d[1]][d[2]] = table[d[1]][d[2]]
    BY <2>2, <2>3 DEF Moves
  <2> QED BY <2>1, <2>2, <2>3, <2>4
<1>6. ASSUME NEW t \in Table, NEW i \in Id
      PROVE  Len(table'[t][i]) <= 1
  <2>1. CASE table'[t][i] = table[t][i]
    BY <2>1 DEF Once
  <2>2. CASE w \in Thread /\ <<t, i>> \in Held(w) /\ table'[t][i] = Append(table[t][i], clock)
    <3>1. table[t][i] = <<>>
      <4>1. \A d \in Held(w) : table[d[1]][d[2]] = <<>>
        BY <2>2 DEF Once
      <4> QED BY <2>2, <4>1
    <3>2. table[t][i] \in Seq(Nat) /\ clock \in Nat
      BY DEF Typed, TypeOK
    <3>3. Len(Append(table[t][i], clock)) = Len(table[t][i]) + 1
      BY <3>2, AppendProperties
    <3>4. Len(table[t][i]) = 0
      BY <3>1
    <3> QED BY <2>2, <3>3, <3>4
  <2> QED BY <2>1, <2>2 DEF Moves
<1>7. ASSUME NEW v \in Thread, NEW d \in Held(v)'
      PROVE  table'[d[1]][d[2]] = <<>>
  <2>1. CASE d \in Held(v)
    <3>1. /\ table[d[1]][d[2]] = <<>> /\ d = <<d[1], d[2]>>
          /\ d[1] \in Table /\ d[2] \in Id
      BY <1>3, <2>1 DEF Once
    <3>2. ~(w \in Thread /\ d \in Held(w) /\ d \notin Held(w)')
      BY <1>7, <2>1 DEF Once
    <3>3. table'[d[1]][d[2]] = table[d[1]][d[2]]
      BY <3>1, <3>2 DEF Moves
    <3> QED BY <3>1, <3>3
  <2>2. CASE d \notin Held(v)
    <3>1. v = w
      BY <1>7, <2>2 DEF Moves
    <3> QED BY <1>5, <1>7, <2>2, <3>1
  <2> QED BY <2>1, <2>2
<1>8. ASSUME NEW v \in Thread, NEW u \in Thread, v # u, NEW d, d \in Held(v)', d \in Held(u)'
      PROVE  FALSE
  <2>1. \A x \in Thread : d \in Held(x)' => d \in Held(x) \/ (x = w /\ \A y \in Thread : d \notin Held(y))
    BY <1>5 DEF Moves
  <2> QED BY <1>8, <2>1 DEF Once
<1>9. ASSUME NEW i \in Fresh'
      PROVE  Untouched(i)'
  <2>1. i \in Fresh /\ i \in Id
    BY DEF Moves, Fresh
  <2> SUFFICES ASSUME NEW t \in Table
               PROVE  table'[t][i] = <<>> /\ \A v \in Thread : <<t, i>> \notin Held(v)'
    BY <1>2 DEF Untouched
  <2>2. table[t][i] = <<>> /\ \A v \in Thread : <<t, i>> \notin Held(v)
    BY <1>4, <2>1
  <2>3. table'[t][i] = table[t][i]
    BY <2>1, <2>2 DEF Moves
  <2>4. ASSUME NEW v \in Thread, <<t, i>> \in Held(v)'
        PROVE  FALSE
    <3>1. v = w
      BY <2>2, <2>4 DEF Moves
    <3>2. <<t, i>>[2] \notin Fresh'
      BY <1>5, <2>2, <2>4, <3>1
    <3> QED BY <3>2
  <2> QED BY <2>2, <2>3, <2>4
<1>10. \A v \in Thread : Apart(writer'[v].todo)
  BY DEF Moves
<1>11. \A v, u \in Thread : v # u => Held(v)' \intersect Held(u)' = {}
  BY <1>8
<1> QED BY <1>6, <1>7, <1>9, <1>10, <1>11 DEF Once

-----------------------------------------------------------------------------
AllReady == schema.findings = "ready" /\ schema.reviews = "ready"

\* Where a thread is in the schema, the schema is as well: after a NotFound or
\* a NoSuchField a thread only inserts again once the tables are there.
ThreadMigrated(w) ==
    /\ writer[w].pc = "ensure" /\ writer[w].ddl >= 2 => schema.findings = "ready"
    /\ writer[w].pc = "ensure" /\ writer[w].ddl = 3 => schema.reviews # "missing"
    /\ writer[w].pc = "insert" /\ writer[w].tries # 0 => AllReady

Migrated ==
    /\ \A p \in Process : ready[p] => AllReady
    /\ \A w \in Thread : ThreadMigrated(w)

SchemaGrows ==
    /\ schema.findings = "ready" => schema'.findings = "ready"
    /\ schema.reviews # "missing" => schema'.reviews # "missing"
    /\ schema.reviews = "ready" => schema'.reviews = "ready"

LEMMA MigratedKept ==
    ASSUME Migrated, SchemaGrows,
           \A p \in Process : ready'[p] => ready[p] \/ AllReady',
           \A w \in Thread : writer'[w] = writer[w] \/ ThreadMigrated(w)'
    PROVE  Migrated'
BY DEF Migrated, SchemaGrows, ThreadMigrated, AllReady

LEMMA ProceedHeld ==
    ASSUME Typed, NEW w \in Thread, NEW todo, Proceed(w, todo)
    PROVE  /\ \A v \in Thread \ {w} : writer'[v] = writer[v]
           /\ writer'[w].todo = todo /\ writer'[w].tries = 0
           /\ writer'[w].pc \in {"insert", "idle", "gone"}
           /\ writer'[w].pc = "idle" => w \in Writer
           /\ writer'[w].pc # "insert" => todo = <<>>
<1> DEFINE pc == IF todo # <<>> THEN "insert" ELSE IF w \in Writer THEN "idle" ELSE "gone"
<1>1. /\ pc \in {"insert", "idle", "gone"}
      /\ pc = "idle" => w \in Writer
      /\ pc # "insert" => todo = <<>>
  <2>1. CASE todo = <<>> /\ w \in Writer
    BY <2>1
  <2>2. CASE todo = <<>> /\ w \notin Writer
    BY <2>2
  <2>3. CASE todo # <<>>
    BY <2>3
  <2> QED BY <2>1, <2>2, <2>3
<1>2. writer' = [writer EXCEPT ![w] = [pc |-> pc, todo |-> todo, tries |-> 0, ddl |-> 0]]
  BY DEF Proceed
<1> HIDE DEF pc
<1> QED BY <1>1, <1>2 DEF Typed, TypeOK

LEMMA EnsureEndsHeld ==
    ASSUME Typed, NEW w \in Thread, EnsureEnds(w)
    PROVE  /\ \A v \in Thread \ {w} : writer'[v] = writer[v]
           /\ writer'[w].todo = writer[w].todo /\ writer'[w].pc \in {"open", "insert"}
           /\ writer'[w].pc = "open" => writer[w].todo = <<>>
<1> DEFINE pc == IF writer[w].todo = <<>> THEN "open" ELSE "insert"
<1>1. pc \in {"open", "insert"} /\ (pc = "open" => writer[w].todo = <<>>)
  BY Zenon
<1>2. writer' = [writer EXCEPT ![w].pc = pc]
  BY DEF EnsureEnds
<1> HIDE DEF pc
<1> QED BY <1>1, <1>2 DEF Typed, TypeOK, WriterState

\* What a step of a thread that writes does to the schema.
LEMMA WriterStepMigrated ==
    ASSUME Typed, Migrated, NEW w \in Thread, WriterStep(w)
    PROVE  Migrated'
<1>1. ThreadMigrated(w) /\ writer[w] \in WriterState /\ writer[w].ddl \in 0..3
  BY WriterTyped DEF Migrated
<1>2. schema \in [findings : {"missing", "ready"}, reviews : {"missing", "old", "ready"}]
  BY DEF Typed, TypeOK
<1>3. ASSUME NEW todo, Proceed(w, todo), UNCHANGED <<schema, ready>>
      PROVE  Migrated'
  BY <1>3, ProceedHeld, MigratedKept DEF SchemaGrows, ThreadMigrated
<1>4. ASSUME NEW tries, BeginEnsure(w, tries), UNCHANGED <<schema, ready>>
      PROVE  Migrated'
  <2>1. /\ \A v \in Thread \ {w} : writer'[v] = writer[v]
        /\ writer'[w].pc = "ensure" /\ writer'[w].ddl = 0
    BY <1>4 DEF BeginEnsure, Typed, TypeOK
  <2> QED BY <1>4, <2>1, MigratedKept DEF SchemaGrows, ThreadMigrated
<1>5. ASSUME EnsureEnds(w), AllReady', SchemaGrows,
             \A p \in Process : ready'[p] => ready[p] \/ AllReady'
      PROVE  Migrated'
  <2>1. ThreadMigrated(w)'
    BY <1>5, EnsureEndsHeld DEF ThreadMigrated
  <2> QED BY <1>5, <2>1, EnsureEndsHeld, MigratedKept
<1>6. CASE InsertStores(w)
  BY <1>3, <1>6 DEF InsertStores
<1>7. CASE InsertNotFound(w)
  BY <1>3, <1>4, <1>7 DEF InsertNotFound, Raise
<1>8. CASE InsertNoSuchField(w)
  BY <1>3, <1>4, <1>8 DEF InsertNoSuchField, Raise
<1>9. CASE InsertFails(w)
  BY <1>3, <1>9 DEF InsertFails, Raise
<1>10. CASE EnsureCheck(w)
  <2>1. UNCHANGED <<schema, ready>>
    BY <1>10 DEF EnsureCheck
  <2>2. CASE ready[ProcessOf(w)] /\ writer[w].tries = 1
    <3>1. ProcessOf(w) \in Process
      BY WarehouseAssumption DEF ProcessOf, Process, Thread
    <3>2. AllReady
      BY <2>2, <3>1 DEF Migrated
    <3> QED BY <1>5, <1>10, <2>1, <2>2, <3>2 DEF EnsureCheck, AllReady, SchemaGrows
  <2>3. CASE ~(ready[ProcessOf(w)] /\ writer[w].tries = 1)
    <3>1. /\ \A v \in Thread \ {w} : writer'[v] = writer[v]
          /\ writer'[w].pc = "ensure" /\ writer'[w].ddl = 1
      BY <1>10, <2>3 DEF EnsureCheck, Typed, TypeOK, WriterState
    <3> QED BY <2>1, <3>1, MigratedKept DEF SchemaGrows, ThreadMigrated
  <2> QED BY <2>2, <2>3
<1>11. CASE EnsureStep(w)
  <2>1. writer[w].ddl \in 1..3 /\ writer[w].pc = "ensure" /\ schema' = Ddl(writer[w].ddl)
    BY <1>1, <1>11 DEF EnsureStep
  <2>2. /\ SchemaGrows
        /\ writer[w].ddl = 1 => schema'.findings = "ready"
        /\ writer[w].ddl = 2 => schema'.reviews # "missing"
        /\ writer[w].ddl = 3 => schema'.reviews # "old"
    <3>1. CASE writer[w].ddl = 1
      <4>1. schema' = [schema EXCEPT !.findings = "ready"]
        BY <2>1, <3>1 DEF Ddl
      <4> QED BY <1>2, <3>1, <4>1 DEF SchemaGrows
    <3>2. CASE writer[w].ddl = 2
      <4>1. schema' = [schema EXCEPT !.reviews = IF @ = "missing" THEN "ready" ELSE @]
        BY <2>1, <3>2 DEF Ddl
      <4> QED BY <1>2, <3>2, <4>1 DEF SchemaGrows
    <3>3. CASE writer[w].ddl = 3
      <4>1. schema' = [schema EXCEPT !.reviews = IF @ = "old" THEN "ready" ELSE @]
        BY <2>1, <3>3 DEF Ddl
      <4> QED BY <1>2, <3>3, <4>1 DEF SchemaGrows
    <3> QED BY <2>1, <3>1, <3>2, <3>3
  <2>3. schema' \in [findings : {"missing", "ready"}, reviews : {"missing", "old", "ready"}]
    BY <2>1, DdlTypes DEF Typed
  <2>4. CASE writer[w].ddl < 3
    <3> DEFINE n == writer[w].ddl + 1
    <3>1. /\ UNCHANGED ready
          /\ writer' = [writer EXCEPT ![w] = [writer[w] EXCEPT !.ddl = n]]
      BY <1>11, <2>4 DEF EnsureStep, Typed, TypeOK
    <3>2. n \in 2..3 /\ (n = 2 => writer[w].ddl = 1) /\ (n = 3 => writer[w].ddl = 2)
      BY <2>1, <2>4
    <3> HIDE DEF n
    <3>3. /\ \A v \in Thread \ {w} : writer'[v] = writer[v]
          /\ writer'[w].pc = "ensure" /\ writer'[w].ddl = n
      BY <1>1, <2>1, <3>1 DEF Typed, TypeOK, WriterState
    <3>4. n >= 2 => schema'.findings = "ready"
      <4>1. CASE n = 2
        BY <2>2, <3>2, <4>1
      <4>2. CASE n = 3
        <5>1. writer[w].ddl >= 2
          BY <3>2, <4>2
        <5> QED BY <1>1, <2>1, <2>2, <5>1 DEF ThreadMigrated, SchemaGrows
      <4> QED BY <3>2, <4>1, <4>2
    <3>5. ThreadMigrated(w)'
      BY <2>2, <3>2, <3>3, <3>4 DEF ThreadMigrated
    <3> QED BY <2>2, <3>1, <3>3, <3>5, MigratedKept
  <2>5. CASE ~(writer[w].ddl < 3)
    <3>1. writer[w].ddl = 3 /\ writer[w].ddl >= 2
      BY <2>1, <2>5
    <3>2. AllReady'
      BY <1>1, <2>1, <2>2, <2>3, <3>1 DEF ThreadMigrated, SchemaGrows, AllReady
    <3> QED BY <1>5, <1>11, <2>2, <2>5, <3>2 DEF EnsureStep
  <2> QED BY <2>4, <2>5
<1>12. CASE EnsureFails(w)
  <2>1. CASE writer[w].todo = <<>>
    <3>1. /\ \A v \in Thread \ {w} : writer'[v] = writer[v]
          /\ writer'[w].pc = "gone" /\ UNCHANGED <<schema, ready>>
      BY <1>12, <2>1 DEF EnsureFails, Typed, TypeOK, WriterState
    <3> QED BY <3>1, MigratedKept DEF SchemaGrows, ThreadMigrated
  <2>2. CASE writer[w].todo # <<>>
    BY <1>3, <1>12, <2>2 DEF EnsureFails, Raise
  <2> QED BY <2>1, <2>2
<1> QED BY <1>6, <1>7, <1>8, <1>9, <1>10, <1>11, <1>12 DEF WriterStep
-----------------------------------------------------------------------------
At(t, i) == i \in Stored(t) \/ InHand(<<t, i>>)

\* Unless a request fails, what is stored or to be inserted stays so.
Loses == faults' # 0 \/ (faults = 0 /\ \A t \in Table, i \in Id : At(t, i) => At(t, i)')

LEMMA AtMeans ==
    ASSUME Typed, NEW t \in Table, NEW i \in Id
    PROVE  At(t, i) <=> table[t][i] # <<>> \/ \E w \in Thread : <<t, i>> \in Held(w)
BY HandIsHeld DEF At, Stored

LEMMA AtMeansNext ==
    ASSUME Typed', NEW t \in Table, NEW i \in Id
    PROVE  At(t, i)' <=> table'[t][i] # <<>> \/ \E w \in Thread : <<t, i>> \in Held(w)'
<1>1. \A w \in Thread : writer'[w].todo \in Seq(Insertion)
  BY DEF Typed, TypeOK, WriterState
<1>2. \A w \in Thread : DOMAIN writer'[w].todo = 1..Len(writer'[w].todo)
  BY <1>1, LenProperties
<1> QED BY <1>2 DEF At, Stored, InHand, Held, HeldIn

\* What a step of a thread that writes leaves it with.
Writes(w) ==
    /\ UNCHANGED row
    /\ \A v \in Thread \ {w} : writer'[v] = writer[v]
    /\ writer[w].pc \in {"insert", "ensure"}
    /\ writer'[w].pc \in {"insert", "ensure", "open", "idle", "gone"}
    /\ writer'[w].pc = "idle" => w \in Writer
    /\ writer'[w].pc \in {"insert", "ensure"} \/ writer'[w].todo = <<>>
    /\ Apart(writer'[w].todo) /\ Held(w)' \subseteq Held(w)
    /\ \A t \in Table, i \in Id :
         \/ table'[t][i] = table[t][i]
         \/ /\ <<t, i>> \in Held(w) /\ <<t, i>> \notin Held(w)'
            /\ table'[t][i] = Append(table[t][i], clock)
    /\ \/ faults' # 0
       \/ /\ faults = 0
          /\ \A t \in Table, i \in Id :
                <<t, i>> \in Held(w) => <<t, i>> \in Held(w)' \/ table'[t][i] # <<>>

LEMMA WriterStepWrites ==
    ASSUME Typed, Once, Migrated, NEW w \in Thread, WriterStep(w)
    PROVE  Writes(w)
<1> DEFINE old == writer[w].todo
<1>1. /\ old \in Seq(Insertion) /\ Apart(old) /\ faults \in Nat
      /\ writer[w].pc = "insert" => old # <<>>
      /\ UNCHANGED row /\ writer[w].pc \in {"insert", "ensure"}
  BY WriterTyped DEF Once, Typed, TypeOK, WriterStep, InsertStores, InsertNotFound, InsertNoSuchField, InsertFails,
         EnsureCheck, EnsureStep, EnsureFails
<1>2. old # <<>> => /\ Head(old) \in Insertion /\ Tail(old) \in Seq(Insertion)
                    /\ Apart(Tail(old)) /\ Head(old) \notin HeldIn(Tail(old))
                    /\ HeldIn(old) = HeldIn(Tail(old)) \union {Head(old)}
                    /\ Apart(Rest(old)) /\ HeldIn(Rest(old)) \subseteq HeldIn(Tail(old))
  BY <1>1, TailHeld, RestHeld, HeadTailProperties
<1>3. ASSUME NEW todo \in {Tail(old), Rest(old)}, old # <<>>, Proceed(w, todo),
             \/ UNCHANGED table
             \/ Append1(Head(old)),
             \/ faults' # 0
             \/ faults' = faults /\ todo = Tail(old) /\ Append1(Head(old))
      PROVE  Writes(w)
  <2>1. /\ Apart(todo) /\ HeldIn(todo) \subseteq HeldIn(old) /\ Head(old) \notin HeldIn(todo)
        /\ Head(old) \in HeldIn(old) /\ Head(old) \in Insertion
        /\ HeldIn(old) = HeldIn(Tail(old)) \union {Head(old)}
    BY <1>2, <1>3
  <2>2. Held(w) = HeldIn(old) /\ Held(w)' = HeldIn(todo)
    BY <1>3, ProceedHeld DEF Held
  <2>3. Append1(Head(old)) =>
          \A t \in Table, i \in Id :
             table'[t][i] = IF <<t, i>> = Head(old) THEN Append(table[t][i], clock) ELSE table[t][i]
    BY <2>1, Appends DEF Typed
  <2>4. \A t \in Table, i \in Id : Append(table[t][i], clock) # <<>>
    <3> SUFFICES ASSUME NEW t \in Table, NEW i \in Id
                 PROVE  Append(table[t][i], clock) # <<>>
      OBVIOUS
    <3>1. table[t][i] \in Seq(Nat) /\ clock \in Nat
      BY DEF Typed, TypeOK
    <3> QED BY <3>1, AppendProperties
  <2> HIDE DEF old
  <2>5. \A t \in Table, i \in Id :
         \/ table'[t][i] = table[t][i]
         \/ /\ <<t, i>> \in Held(w) /\ <<t, i>> \notin Held(w)'
            /\ table'[t][i] = Append(table[t][i], clock)
    BY <1>3, <2>1, <2>2, <2>3
  <2>6. \/ faults' # 0
        \/ /\ faults = 0
           /\ \A t \in Table, i \in Id :
                 <<t, i>> \in Held(w) => <<t, i>> \in Held(w)' \/ table'[t][i] # <<>>
    BY <1>3, <2>1, <2>2, <2>3, <2>4
  <2>7. /\ \A v \in Thread \ {w} : writer'[v] = writer[v]
        /\ writer'[w].todo = todo
        /\ writer'[w].pc \in {"insert", "idle", "gone"}
        /\ writer'[w].pc = "idle" => w \in Writer
        /\ writer'[w].pc # "insert" => todo = <<>>
    BY <1>3, ProceedHeld
  <2> QED BY <1>1, <2>1, <2>2, <2>5, <2>6, <2>7 DEF Writes
<1>4. ASSUME \A v \in Thread \ {w} : writer'[v] = writer[v],
             writer'[w].todo = old,
             writer'[w].pc \in {"insert", "ensure", "open", "gone"},
             writer'[w].pc \in {"insert", "ensure"} \/ old = <<>>,
             UNCHANGED table, faults' # 0 \/ UNCHANGED faults
      PROVE  Writes(w)
  <2>1. Held(w)' = Held(w)
    BY <1>4 DEF Held
  <2> QED BY <1>1, <1>4, <2>1 DEF Writes
<1>5. ASSUME NEW tries, BeginEnsure(w, tries)
      PROVE  /\ \A v \in Thread \ {w} : writer'[v] = writer[v]
             /\ writer'[w].todo = old /\ writer'[w].pc = "ensure"
  BY <1>5 DEF BeginEnsure, Typed, TypeOK
<1>6. ASSUME NEW kind, Inject(kind)
      PROVE  faults' # 0
  BY <1>1, <1>6 DEF Inject
<1>7. writer[w].pc = "insert" /\ writer[w].tries # 0 =>
         \A t \in Table : schema[t] = "ready"
  <2>1. \A t \in Table : t = "findings" \/ t = "reviews"
    BY DEF Table
  <2> QED BY <2>1 DEF Migrated, ThreadMigrated, AllReady
<1>8. writer[w].pc = "insert" => Head(old)[1] \in Table
  BY <1>1, <1>2 DEF Insertion
<1>9. CASE InsertStores(w)
  BY <1>1, <1>3, <1>9 DEF InsertStores
<1>10. CASE InsertNotFound(w)
  <2>1. writer[w].tries = 0
    BY <1>7, <1>8, <1>10 DEF InsertNotFound
  <2> QED BY <1>4, <1>5, <1>10, <2>1 DEF InsertNotFound
<1>11. CASE InsertNoSuchField(w)
  <2>1. writer[w].tries # 2
    BY <1>7, <1>8, <1>11 DEF InsertNoSuchField
  <2> QED BY <1>4, <1>5, <1>11, <2>1 DEF InsertNoSuchField
<1>12. CASE InsertFails(w)
  BY <1>1, <1>3, <1>6, <1>12 DEF InsertFails, Raise
<1>13. CASE EnsureCheck(w)
  <2>1. CASE EnsureEnds(w)
    BY <1>4, <1>13, <2>1, EnsureEndsHeld DEF EnsureCheck
  <2>2. CASE writer' = [writer EXCEPT ![w].ddl = 1]
    <3>1. /\ \A v \in Thread \ {w} : writer'[v] = writer[v]
          /\ writer'[w].todo = old /\ writer'[w].pc = "ensure"
      BY <1>13, <2>2 DEF EnsureCheck, Typed, TypeOK, WriterState
    <3> QED BY <1>4, <1>13, <3>1 DEF EnsureCheck
  <2> QED BY <1>13, <2>1, <2>2 DEF EnsureCheck
<1>14. CASE EnsureStep(w)
  <2>1. CASE EnsureEnds(w)
    BY <1>4, <1>14, <2>1, EnsureEndsHeld DEF EnsureStep
  <2>2. CASE writer' = [writer EXCEPT ![w].ddl = @ + 1]
    <3>1. /\ \A v \in Thread \ {w} : writer'[v] = writer[v]
          /\ writer'[w].todo = old /\ writer'[w].pc = "ensure"
      BY <1>14, <2>2 DEF EnsureStep, Typed, TypeOK, WriterState
    <3> QED BY <1>4, <1>14, <3>1 DEF EnsureStep
  <2> QED BY <1>14, <2>1, <2>2 DEF EnsureStep
<1>15. CASE EnsureFails(w)
  <2>1. faults' # 0 /\ UNCHANGED table
    BY <1>6, <1>15 DEF EnsureFails
  <2>2. CASE old = <<>>
    <3>1. /\ \A v \in Thread \ {w} : writer'[v] = writer[v]
          /\ writer'[w].todo = old /\ writer'[w].pc = "gone"
      BY <1>15, <2>2 DEF EnsureFails, Typed, TypeOK, WriterState
    <3> QED BY <1>4, <2>1, <2>2, <3>1
  <2>3. CASE old # <<>>
    BY <1>3, <1>15, <2>1, <2>3 DEF EnsureFails, Raise
  <2> QED BY <2>2, <2>3
<1> QED BY <1>9, <1>10, <1>11, <1>12, <1>13, <1>14, <1>15 DEF WriterStep
-----------------------------------------------------------------------------
\* Something is to be stored in a table of a review that was reported.
Calls(t, i) == Reported(i) /\ (t = "findings" => row[i].outcome.found)

NoneLost == faults = 0 => \A t \in Table, i \in Id : Calls(t, i) => At(t, i)

\* The two modes of a file are reported together, when both have ended.
MatchedFile(r, f) ==
    /\ writer[<<r, f>>].pc \in Reviewing => row[<<r, f, "baseline">>] = None
    /\ writer[<<r, f>>].pc = "baseline" => row[<<r, f, "tiered">>] # None
    /\ \A m \in Mode : Untouched(<<r, f, m>>) \/ \A n \in Mode : row[<<r, f, n>>] # None

Matched == \A r \in Run, f \in File : MatchedFile(r, f)

Stocked == HandsEmpty /\ Once /\ Migrated /\ NoneLost /\ Matched

LEMMA FileTypes ==
    ASSUME NEW r \in Run, NEW f \in File
    PROVE  /\ <<r, f>> \in Thread /\ <<r, f>> \notin Writer /\ ProcessOf(<<r, f>>) = r
           /\ \A m \in Mode : /\ <<r, f, m>> \in Id /\ <<r, f, m>> \notin Review
                              /\ <<r, f, m>> \in Fresh <=> writer[<<r, f>>].pc \in Reviewing
                              /\ <<r, f, m>> \in Fresh' <=> writer'[<<r, f>>].pc \in Reviewing
<1>1. <<r, f>> \in Thread /\ <<r, f>> \notin Writer
  BY WarehouseAssumption DEF Thread
<1>2. \A m \in Mode : <<r, f, m>> \in Id /\ <<r, f, m>> \notin Review
  BY WarehouseAssumption DEF Id, BenchmarkId
<1>3. \A m \in Mode : <<r, f, m>>[1] = r /\ <<r, f, m>>[2] = f
  OBVIOUS
<1> QED BY <1>1, <1>2, <1>3 DEF Fresh, ProcessOf

LEMMA IdTypes ==
    ASSUME NEW i \in Id, i \notin Review
    PROVE  \E r \in Run, f \in File, m \in Mode : i = <<r, f, m>>
BY DEF Id, BenchmarkId

LEMMA UntouchedMeans ==
    ASSUME Typed, Typed', NEW i \in Id
    PROVE  /\ Untouched(i) <=> \A t \in Table : table[t][i] = <<>>
                                  /\ \A w \in Thread : <<t, i>> \notin Held(w)
           /\ Untouched(i)' <=> \A t \in Table : table'[t][i] = <<>>
                                  /\ \A w \in Thread : <<t, i>> \notin Held(w)'
<1>1. Untouched(i) <=> \A t \in Table : ~At(t, i)
  BY DEF Untouched, At, Stored
<1>2. Untouched(i)' <=> \A t \in Table : ~At(t, i)'
  BY DEF Untouched, At, Stored
<1> QED BY <1>1, <1>2, AtMeans, AtMeansNext

\* What has not been reported in this step and was not touched still is not.
LEMMA UntouchedKept ==
    ASSUME Typed, Typed', NEW w, Moves(w), NEW i \in Id, i \notin Fresh \ Fresh', Untouched(i)
    PROVE  Untouched(i)'
<1> SUFFICES ASSUME NEW t \in Table
             PROVE  table'[t][i] = <<>> /\ \A v \in Thread : <<t, i>> \notin Held(v)'
  BY UntouchedMeans
<1>1. table[t][i] = <<>> /\ \A v \in Thread : <<t, i>> \notin Held(v)
  BY UntouchedMeans
<1>2. table'[t][i] = table[t][i]
  BY <1>1 DEF Moves
<1>3. ASSUME NEW v \in Thread, <<t, i>> \in Held(v)'
      PROVE  FALSE
  <2>1. <<t, i>>[2] \in Fresh \ Fresh'
    BY <1>1, <1>3 DEF Moves
  <2> QED BY <2>1
<1> QED BY <1>1, <1>2, <1>3

\* A step in which nothing is reported.
LEMMA NothingReported ==
    ASSUME Stocked, Typed, Typed', NEW w, UNCHANGED row, Migrated', HandsEmpty', Loses,
           \A v \in Thread : Apart(writer'[v].todo) /\ Held(v)' \subseteq Held(v),
           \A t \in Table, i \in Id :
             \/ table'[t][i] = table[t][i]
             \/ /\ w \in Thread /\ <<t, i>> \in Held(w) /\ <<t, i>> \notin Held(w)'
                /\ table'[t][i] = Append(table[t][i], clock),
           \A r \in Run, f \in File :
             \/ writer'[<<r, f>>].pc = writer[<<r, f>>].pc
             \/ writer'[<<r, f>>].pc \notin Reviewing
             \/ writer[<<r, f>>].pc = "idle" /\ writer'[<<r, f>>].pc = "tiered"
    PROVE  Stocked'
<1>1. Fresh' \subseteq Fresh
  <2> SUFFICES ASSUME NEW i \in Fresh' PROVE i \in Fresh
    OBVIOUS
  <2>1. i \in Id
    BY DEF Fresh
  <2>2. CASE i \in Review
    BY <2>2 DEF Fresh
  <2>3. CASE i \notin Review
    <3>1. PICK r \in Run, f \in File, m \in Mode : i = <<r, f, m>>
      BY <2>1, <2>3, IdTypes
    <3>2. writer'[<<r, f>>].pc \in Reviewing
      BY <3>1, FileTypes
    <3>3. writer[<<r, f>>].pc \in Reviewing
      BY <3>2 DEF Reviewing
    <3> QED BY <3>1, <3>3, FileTypes
  <2> QED BY <2>2, <2>3
<1>2. Moves(w)
  BY <1>1 DEF Moves
<1>3. Once'
  BY <1>2, OnceKept DEF Stocked
<1>4. NoneLost'
  BY DEF Stocked, NoneLost, Loses, Calls, Reported
<1>5. ASSUME NEW i \in Id, Untouched(i)
      PROVE  Untouched(i)'
  <2> SUFFICES ASSUME NEW t \in Table
               PROVE  table'[t][i] = <<>> /\ \A v \in Thread : <<t, i>> \notin Held(v)'
    BY UntouchedMeans
  <2>1. table[t][i] = <<>> /\ \A v \in Thread : <<t, i>> \notin Held(v)
    BY <1>5, UntouchedMeans
  <2> QED BY <2>1
<1>6. ASSUME NEW r \in Run, NEW f \in File
      PROVE  MatchedFile(r, f)'
  <2>1. MatchedFile(r, f) /\ \A m \in Mode : Untouched(<<r, f, m>>) => Untouched(<<r, f, m>>)'
    BY <1>5, FileTypes DEF Stocked, Matched
  <2> QED BY <2>1 DEF MatchedFile, Reviewing
<1> QED BY <1>3, <1>4, <1>6 DEF Stocked, Matched

LEMMA WriterStepStocked ==
    ASSUME Stocked, Typed, Typed', NEW w \in Thread, WriterStep(w)
    PROVE  Stocked'
<1>1. Writes(w) /\ Migrated'
  BY WriterStepWrites, WriterStepMigrated DEF Stocked
<1>2. \A v \in Thread \ {w} : writer'[v] = writer[v] /\ Held(v)' = Held(v)
  BY <1>1 DEF Writes, Held
<1>3. HandsEmpty'
  BY <1>1, <1>2 DEF Stocked, HandsEmpty, Writes
<1>4. \A v \in Thread : Apart(writer'[v].todo) /\ Held(v)' \subseteq Held(v)
  BY <1>1, <1>2 DEF Writes, Stocked, Once
<1>5. ASSUME NEW r \in Run, NEW f \in File
      PROVE  writer'[<<r, f>>].pc = writer[<<r, f>>].pc \/ writer'[<<r, f>>].pc \notin Reviewing
  BY <1>1, <1>2, FileTypes DEF Writes, Reviewing
<1>6. Loses
  <2> SUFFICES ASSUME faults' = 0
               PROVE  faults = 0 /\ \A t \in Table, i \in Id : At(t, i) => At(t, i)'
    BY DEF Loses
  <2>1. /\ faults = 0
        /\ \A t \in Table, i \in Id :
              <<t, i>> \in Held(w) => <<t, i>> \in Held(w)' \/ table'[t][i] # <<>>
    BY <1>1 DEF Writes
  <2> SUFFICES ASSUME NEW t \in Table, NEW i \in Id, At(t, i)
               PROVE  At(t, i)'
    BY <2>1
  <2>2. table[t][i] # <<>> => table'[t][i] # <<>>
    <3>1. table[t][i] \in Seq(Nat) /\ clock \in Nat
      BY DEF Typed, TypeOK
    <3>2. Append(table[t][i], clock) # <<>>
      BY <3>1, AppendProperties
    <3> QED BY <1>1, <3>2 DEF Writes
  <2>3. table[t][i] # <<>> \/ \E v \in Thread : <<t, i>> \in Held(v)
    BY AtMeans
  <2>4. table'[t][i] # <<>> \/ \E v \in Thread : <<t, i>> \in Held(v)'
    BY <1>2, <2>1, <2>2, <2>3
  <2> QED BY <2>4, AtMeansNext
<1>7. UNCHANGED row /\ \A t \in Table, i \in Id :
         \/ table'[t][i] = table[t][i]
         \/ /\ w \in Thread /\ <<t, i>> \in Held(w) /\ <<t, i>> \notin Held(w)'
            /\ table'[t][i] = Append(table[t][i], clock)
  BY <1>1 DEF Writes
<1> QED BY <1>1, <1>3, <1>4, <1>5, <1>6, <1>7, NothingReported

\* A step that leaves the tables alone, and what is to be inserted unless a
\* fault is injected.
Leaves ==
    /\ UNCHANGED <<row, table>>
    /\ faults' # 0 \/ UNCHANGED faults
    /\ \A v \in Thread : writer'[v].todo = writer[v].todo \/ (writer'[v].todo = <<>> /\ faults' # 0)
    /\ \A v \in Thread :
         writer'[v].pc = writer[v].pc \/ writer'[v].pc = "ensure" \/ writer'[v].todo = <<>>
    /\ \A r \in Run, f \in File :
         \/ writer'[<<r, f>>].pc = writer[<<r, f>>].pc
         \/ writer'[<<r, f>>].pc \notin Reviewing
         \/ writer[<<r, f>>].pc = "idle" /\ writer'[<<r, f>>].pc = "tiered"

LEMMA TablesAlone ==
    ASSUME Stocked, Typed, Typed', Migrated', Leaves
    PROVE  Stocked'
<1>1. HeldIn(<<>>) = {} /\ Apart(<<>>)
  <2>1. 1..Len(<<>>) = {}
    OBVIOUS
  <2> QED BY <2>1 DEF HeldIn, Apart
<1>2. HandsEmpty'
  BY DEF Stocked, HandsEmpty, Leaves
<1>3. \A v \in Thread : Apart(writer'[v].todo) /\ Held(v)' \subseteq Held(v)
  BY <1>1 DEF Stocked, Once, Held, Leaves
<1>4. Loses
  <2> SUFFICES ASSUME faults' = 0
               PROVE  faults = 0 /\ \A t \in Table, i \in Id : At(t, i) => At(t, i)'
    BY DEF Loses
  <2>1. \A v \in Thread : writer'[v].todo = writer[v].todo
    BY DEF Leaves
  <2> QED BY <2>1 DEF At, Stored, InHand, Leaves
<1>5. /\ UNCHANGED row /\ \A t \in Table, i \in Id : table'[t][i] = table[t][i]
      /\ \A r \in Run, f \in File :
           \/ writer'[<<r, f>>].pc = writer[<<r, f>>].pc
           \/ writer'[<<r, f>>].pc \notin Reviewing
           \/ writer[<<r, f>>].pc = "idle" /\ writer'[<<r, f>>].pc = "tiered"
  BY DEF Leaves
<1> QED BY <1>2, <1>3, <1>4, <1>5, NothingReported

LEMMA RestartStocked ==
    ASSUME Stocked, Typed, Typed', NEW p \in Process, Restart(p)
    PROVE  Stocked'
<1>1. UNCHANGED <<row, table, schema>> /\ faults' # 0
  BY DEF Restart, Inject, Typed, TypeOK
<1>2. ASSUME NEW v \in Thread
      PROVE  \/ writer'[v] = writer[v]
             \/ writer'[v].todo = <<>> /\ writer'[v].pc = IF v \in Writer THEN "idle" ELSE "gone"
  BY DEF Restart
<1>3. \A q \in Process : ready'[q] => ready[q]
  BY DEF Restart, Typed, TypeOK
<1>4. Migrated'
  <2>1. ASSUME NEW v \in Thread
        PROVE  writer'[v] = writer[v] \/ ThreadMigrated(v)'
    BY <1>2 DEF ThreadMigrated
  <2> QED BY <1>1, <1>3, <2>1, MigratedKept DEF SchemaGrows, Stocked
<1>5. ASSUME NEW r \in Run, NEW f \in File
      PROVE  writer'[<<r, f>>].pc = writer[<<r, f>>].pc \/ writer'[<<r, f>>].pc \notin Reviewing
  BY <1>2, FileTypes DEF Reviewing
<1>6. \A v \in Thread : \/ writer'[v].todo = writer[v].todo
                        \/ writer'[v].todo = <<>> /\ faults' # 0
  BY <1>1, <1>2
<1>7. \A v \in Thread : writer'[v].pc = writer[v].pc \/ writer'[v].todo = <<>>
  BY <1>2
<1>8. Leaves
  BY <1>1, <1>5, <1>6, <1>7 DEF Leaves
<1> QED BY <1>4, <1>8, TablesAlone

\* A step that has nothing to do with what is written.
LEMMA OthersStocked ==
    ASSUME Stocked, Typed, Typed', UNCHANGED <<row, table, writer, schema, ready>>,
           faults' # 0 \/ UNCHANGED faults
    PROVE  Stocked'
<1>1. Migrated'
  BY MigratedKept DEF SchemaGrows, Stocked
<1>2. \A v \in Thread : writer'[v].todo = writer[v].todo /\ writer'[v].pc = writer[v].pc
  OBVIOUS
<1>3. \A r \in Run, f \in File : writer'[<<r, f>>].pc = writer[<<r, f>>].pc
  OBVIOUS
<1>4. UNCHANGED <<row, table>>
  OBVIOUS
<1>5. Leaves
  BY <1>2, <1>3, <1>4 DEF Leaves
<1> QED BY <1>1, <1>5, TablesAlone

LEMMA StartStocked ==
    ASSUME Stocked, Typed, Typed', NEW r \in Run, BenchmarkStart(r)
    PROVE  Stocked'
<1>1. /\ UNCHANGED <<row, table, schema, ready, faults>> /\ Main(r) \in Thread
      /\ \A f \in File : <<r, f>> # Main(r)
  BY WarehouseAssumption DEF BenchmarkStart, Main, Thread
<1>2. /\ \A v \in Thread \ {Main(r)} : writer'[v] = writer[v]
      /\ writer'[Main(r)].todo = writer[Main(r)].todo
      /\ writer'[Main(r)].pc = "ensure" /\ writer'[Main(r)].ddl = 0
  BY <1>1 DEF BenchmarkStart, BeginEnsure, Typed, TypeOK
<1>3. Migrated'
  BY <1>1, <1>2, MigratedKept DEF SchemaGrows, ThreadMigrated, Stocked
<1>4. ASSUME NEW s \in Run, NEW f \in File
      PROVE  writer'[<<s, f>>].pc = writer[<<s, f>>].pc
  <2>1. <<s, f>> # Main(r)
    BY WarehouseAssumption DEF Main
  <2> QED BY <1>2, <2>1, FileTypes
<1>5. \A v \in Thread : /\ writer'[v].todo = writer[v].todo
                        /\ writer'[v].pc = writer[v].pc \/ writer'[v].pc = "ensure"
  BY <1>2
<1>6. UNCHANGED <<row, table>> /\ UNCHANGED faults
  BY <1>1
<1>7. Leaves
  BY <1>4, <1>5, <1>6 DEF Leaves
<1> QED BY <1>3, <1>7, TablesAlone

LEMMA FileStocked ==
    ASSUME Stocked, Typed, Typed', NEW r \in Run, NEW f \in File, BenchmarkFile(r, f)
    PROVE  Stocked'
<1>1. UNCHANGED <<row, table, schema, ready, faults>> /\ writer[<<r, f>>].pc = "idle"
  BY DEF BenchmarkFile
<1>2. /\ \A v \in Thread \ {<<r, f>>} : writer'[v] = writer[v]
      /\ writer'[<<r, f>>].todo = writer[<<r, f>>].todo
      /\ writer'[<<r, f>>].pc = "tiered"
  BY FileTypes DEF BenchmarkFile, Typed, TypeOK, WriterState
<1>3. writer'[<<r, f>>].todo = <<>>
  BY <1>1, <1>2, FileTypes DEF Stocked, HandsEmpty
<1>4. Migrated'
  BY <1>1, <1>2, MigratedKept DEF SchemaGrows, ThreadMigrated, Stocked
<1>5. ASSUME NEW s \in Run, NEW g \in File
      PROVE  \/ writer'[<<s, g>>].pc = writer[<<s, g>>].pc
             \/ writer[<<s, g>>].pc = "idle" /\ writer'[<<s, g>>].pc = "tiered"
  BY <1>1, <1>2, FileTypes
<1>6. \A v \in Thread : /\ writer'[v].todo = writer[v].todo
                        /\ writer'[v].pc = writer[v].pc \/ writer'[v].todo = <<>>
  BY <1>2, <1>3
<1>7. UNCHANGED <<row, table>> /\ UNCHANGED faults
  BY <1>1
<1>8. Leaves
  BY <1>5, <1>6, <1>7 DEF Leaves
<1> QED BY <1>4, <1>8, TablesAlone

LEMMA EmptyHand ==
    ASSUME Stocked, NEW w \in Thread, writer[w].pc \notin {"insert", "ensure"}
    PROVE  Held(w) = {} /\ writer[w].todo = <<>> /\ Apart(<<>>)
<1>1. 1..Len(<<>>) = {}
  OBVIOUS
<1>2. writer[w].todo = <<>>
  BY DEF Stocked, HandsEmpty
<1> QED BY <1>1, <1>2 DEF Held, HeldIn, Apart

LEMMA EmitStocked ==
    ASSUME Stocked, Typed, Typed', NEW w \in Writer, NEW i \in Review, NEW u \in User,
           NEW o \in Outcome, Emit(w, i, u, o)
    PROVE  Stocked'
<1> DEFINE todo == Insertions(i, o)
<1>1. /\ w \in Thread /\ i \in Id /\ writer[w].pc = "idle" /\ row[i] = None
      /\ UNCHANGED <<table, schema, ready, faults>> /\ Proceed(w, todo)
  BY DEF Emit, Thread, Id
<1>2. /\ row'[i] # None /\ row'[i].outcome = o
      /\ \A j \in Id : j # i => row'[j] = row[j]
  <2>1. [uid |-> u, outcome |-> o, completed |-> clock] \in RowType
    BY DEF Typed, TypeOK, RowType
  <2> QED BY <1>1, <2>1, WarehouseAssumption DEF Emit, Typed, TypeOK
<1>3. /\ Apart(todo)
      /\ HeldIn(todo) = {<<"reviews", i>>} \union IF o.found THEN {<<"findings", i>>} ELSE {}
      /\ todo \in Seq(Insertion)
  BY <1>1, InsertionsHeld, TodoTypes
<1> HIDE DEF todo
<1>4. /\ \A v \in Thread \ {w} : writer'[v] = writer[v] /\ Held(v)' = Held(v)
      /\ writer'[w].todo = todo /\ Held(w)' = HeldIn(todo)
      /\ writer'[w].pc # "insert" => todo = <<>>
      /\ ThreadMigrated(w)' /\ writer'[w].pc \in {"insert", "idle", "gone"}
  BY <1>1, ProceedHeld DEF Held, ThreadMigrated
<1>5. Held(w) = {}
  BY <1>1, EmptyHand
<1>6. \A r \in Run, f \in File : writer'[<<r, f>>] = writer[<<r, f>>]
  BY <1>4, FileTypes
<1>7. Fresh' \subseteq Fresh /\ i \in Fresh /\ i \notin Fresh'
  <2>1. i \in Fresh /\ i \notin Fresh'
    BY <1>1, <1>2 DEF Fresh
  <2>2. ASSUME NEW j \in Fresh'
        PROVE  j \in Fresh
    <3>1. j \in Id /\ j # i
      BY <2>1, <2>2 DEF Fresh
    <3>2. CASE j \in Review
      BY <1>2, <2>2, <3>1, <3>2 DEF Fresh
    <3>3. CASE j \notin Review
      <4>1. PICK r \in Run, f \in File, m \in Mode : j = <<r, f, m>>
        BY <3>1, <3>3, IdTypes
      <4> QED BY <1>6, <2>2, <4>1, FileTypes
    <3> QED BY <3>2, <3>3
  <2> QED BY <2>1, <2>2
<1>8. Moves(w)
  <2>1. \A d \in Held(w)' : d \in Insertion /\ d[2] = i
    BY <1>1, <1>3, <1>4 DEF Insertion, Table
  <2>2. \A v \in Thread : Apart(writer'[v].todo)
    BY <1>3, <1>4 DEF Stocked, Once
  <2> QED BY <1>1, <1>4, <1>7, <2>1, <2>2 DEF Moves
<1>9. Once'
  BY <1>8, OnceKept DEF Stocked
<1>10. HandsEmpty'
  BY <1>4 DEF Stocked, HandsEmpty
<1>11. Migrated'
  BY <1>1, <1>4, MigratedKept DEF SchemaGrows, Stocked
<1>12. NoneLost'
  <2> SUFFICES ASSUME faults = 0, NEW t \in Table, NEW j \in Id, Calls(t, j)'
               PROVE  At(t, j)'
    BY <1>1 DEF NoneLost
  <2>1. CASE j = i
    <3>1. <<t, j>> \in Held(w)'
      BY <1>2, <1>3, <1>4, <2>1 DEF Calls, Table
    <3> QED BY <1>1, <3>1, AtMeansNext
  <2>2. CASE j # i
    <3>1. Calls(t, j)
      <4>1. row'[j] = row[j]
        BY <1>2, <2>2
      <4>2. j \in BenchmarkId => /\ <<j[1], j[2], "baseline">> \in Id
                                 /\ <<j[1], j[2], "baseline">> # i
        <5>1. j \in BenchmarkId => <<j[1], j[2], "baseline">> \in BenchmarkId
          BY DEF BenchmarkId, Mode
        <5> QED BY <5>1, WarehouseAssumption DEF Id
      <4> QED BY <1>2, <2>2, <4>1, <4>2 DEF Calls, Reported
    <3>2. At(t, j)
      BY <3>1 DEF Stocked, NoneLost
    <3>3. table[t][j] # <<>> \/ \E v \in Thread : <<t, j>> \in Held(v)
      BY <3>2, AtMeans
    <3>4. table'[t][j] # <<>> \/ \E v \in Thread : <<t, j>> \in Held(v)'
      BY <1>1, <1>4, <1>5, <3>3
    <3> QED BY <3>4, AtMeansNext
  <2> QED BY <2>1, <2>2
<1>13. ASSUME NEW r \in Run, NEW f \in File
       PROVE  MatchedFile(r, f)'
  <2>1. \A m \in Mode : /\ row'[<<r, f, m>>] = row[<<r, f, m>>]
                        /\ <<r, f, m>> \in Id /\ <<r, f, m>> \notin Fresh \ Fresh'
    BY <1>2, <1>6, FileTypes
  <2>2. \A m \in Mode : Untouched(<<r, f, m>>) => Untouched(<<r, f, m>>)'
    BY <1>8, <2>1, UntouchedKept
  <2>3. MatchedFile(r, f)
    BY DEF Stocked, Matched
  <2> QED BY <1>6, <2>1, <2>2, <2>3 DEF MatchedFile, Mode
<1> QED BY <1>9, <1>10, <1>11, <1>12, <1>13 DEF Stocked, Matched
\* What is known of the other reviews when a file's rows change.
LEMMA OtherFiles ==
    ASSUME NEW r \in Run, NEW f \in File,
           \A i \in Id : (\A m \in Mode : i # <<r, f, m>>) => row'[i] = row[i],
           NEW t \in Table, NEW i \in Id, \A m \in Mode : i # <<r, f, m>>
    PROVE  Calls(t, i)' => Calls(t, i)
<1>1. row'[i] = row[i]
  OBVIOUS
<1>2. CASE i \notin BenchmarkId
  BY <1>1, <1>2 DEF Calls, Reported
<1>3. CASE i \in BenchmarkId
  <2>1. PICK s \in Run, g \in File, n \in Mode : i = <<s, g, n>>
    BY <1>3 DEF BenchmarkId
  <2>2. <<s, g>> # <<r, f>>
    BY <2>1
  <2>3. row'[<<s, g, "baseline">>] = row[<<s, g, "baseline">>]
    BY <2>2, FileTypes DEF Mode
  <2> QED BY <1>1, <2>1, <2>3 DEF Calls, Reported
<1> QED BY <1>2, <1>3

\* A thread of a benchmark that changes the rows of its file and nothing but
\* what it has to insert itself.
ChangesFile(r, f) ==
    /\ UNCHANGED <<table, schema, ready, faults>>
    /\ writer[<<r, f>>].pc \in Mode
    /\ \A v \in Thread \ {<<r, f>>} : writer'[v] = writer[v]
    /\ \A i \in Id : (\A m \in Mode : i # <<r, f, m>>) => row'[i] = row[i]
    /\ writer'[<<r, f>>].pc \notin {"insert", "ensure"} => writer'[<<r, f>>].todo = <<>>
    /\ ThreadMigrated(<<r, f>>)'
    /\ Apart(writer'[<<r, f>>].todo)
    /\ \A d \in Held(<<r, f>>)' : d \in Insertion /\ \E m \in Mode : d[2] = <<r, f, m>>
    /\ Held(<<r, f>>)' # {} => writer'[<<r, f>>].pc \notin Reviewing
    /\ \A t \in Table, m \in Mode : Calls(t, <<r, f, m>>)' => <<t, <<r, f, m>>>> \in Held(<<r, f>>)'
    /\ writer'[<<r, f>>].pc \in Reviewing => row'[<<r, f, "baseline">>] = None
    /\ writer'[<<r, f>>].pc = "baseline" => row'[<<r, f, "tiered">>] # None
    /\ Held(<<r, f>>)' # {} => \A m \in Mode : row'[<<r, f, m>>] # None

LEMMA FileChanged ==
    ASSUME Stocked, Typed, Typed', NEW r \in Run, NEW f \in File, ChangesFile(r, f)
    PROVE  Stocked'
<1> DEFINE w == <<r, f>>
<1>1. /\ w \in Thread /\ writer[w].pc \in Reviewing
      /\ Held(w) = {} /\ writer[w].todo = <<>>
  BY FileTypes, EmptyHand DEF ChangesFile, Reviewing, Mode
<1>2. \A v \in Thread \ {w} : writer'[v] = writer[v] /\ Held(v)' = Held(v)
  BY DEF ChangesFile, Held
<1>3. \A m \in Mode : <<r, f, m>> \in Fresh /\ Untouched(<<r, f, m>>)
  BY <1>1, FileTypes DEF Stocked, Once
<1>4. ASSUME NEW i \in Fresh'
      PROVE  i \in Fresh
  <2>1. CASE \E m \in Mode : i = <<r, f, m>>
    BY <1>3, <2>1
  <2>2. CASE \A m \in Mode : i # <<r, f, m>>
    <3>1. i \in Id
      BY <1>4 DEF Fresh
    <3>2. CASE i \in Review
      BY <1>4, <2>2, <3>1, <3>2 DEF ChangesFile, Fresh
    <3>3. CASE i \notin Review
      <4>1. PICK s \in Run, g \in File, m \in Mode : i = <<s, g, m>>
        BY <3>1, <3>3, IdTypes
      <4>2. <<s, g>> # w
        BY <2>2, <4>1
      <4> QED BY <1>2, <1>4, <4>1, <4>2, FileTypes
    <3> QED BY <3>2, <3>3
  <2> QED BY <2>1, <2>2
<1>5. Moves(w)
  <2>1. \A d \in Held(w)' : d \in Insertion /\ d[2] \in Fresh \ Fresh'
    <3> SUFFICES ASSUME NEW d \in Held(w)'
                 PROVE  d \in Insertion /\ d[2] \in Fresh \ Fresh'
      OBVIOUS
    <3>1. PICK m \in Mode : d \in Insertion /\ d[2] = <<r, f, m>>
      BY DEF ChangesFile
    <3>2. writer'[w].pc \notin Reviewing
      BY DEF ChangesFile
    <3> QED BY <1>3, <3>1, <3>2, FileTypes
  <2>2. \A v \in Thread : Apart(writer'[v].todo)
    BY <1>2 DEF Stocked, Once, ChangesFile
  <2>3. \A v \in Thread : \A d \in Held(v)' :
          d \in Held(v) \/ (v = w /\ d \in Insertion /\ d[2] \in Fresh \ Fresh')
    BY <1>2, <2>1
  <2> HIDE DEF w
  <2> QED BY <1>4, <2>2, <2>3 DEF Moves, ChangesFile
<1>6. Once'
  BY <1>5, OnceKept DEF Stocked
<1>7. HandsEmpty'
  BY <1>2 DEF Stocked, HandsEmpty, ChangesFile
<1>8. Migrated'
  BY <1>2, MigratedKept DEF SchemaGrows, Stocked, ChangesFile
<1>9. NoneLost'
  <2> SUFFICES ASSUME faults = 0, NEW t \in Table, NEW i \in Id, Calls(t, i)'
               PROVE  At(t, i)'
    BY DEF NoneLost, ChangesFile
  <2>1. CASE \E m \in Mode : i = <<r, f, m>>
    <3>1. <<t, i>> \in Held(w)'
      BY <2>1 DEF ChangesFile
    <3> QED BY <1>1, <3>1, AtMeansNext
  <2>2. CASE \A m \in Mode : i # <<r, f, m>>
    <3>1. Calls(t, i)
      BY <2>2, OtherFiles DEF ChangesFile
    <3>2. At(t, i)
      BY <3>1 DEF Stocked, NoneLost
    <3>3. table[t][i] # <<>> \/ \E v \in Thread : <<t, i>> \in Held(v)
      BY <3>2, AtMeans
    <3>4. table'[t][i] # <<>> \/ \E v \in Thread : <<t, i>> \in Held(v)'
      BY <1>1, <1>2, <3>3 DEF ChangesFile
    <3> QED BY <3>4, AtMeansNext
  <2> QED BY <2>1, <2>2
<1>10. ASSUME NEW s \in Run, NEW g \in File
       PROVE  MatchedFile(s, g)'
  <2>1. CASE <<s, g>> # w
    <3>1. \A m \in Mode : /\ row'[<<s, g, m>>] = row[<<s, g, m>>]
                          /\ <<s, g, m>> \in Id /\ <<s, g, m>> \notin Fresh \ Fresh'
      <4> SUFFICES ASSUME NEW m \in Mode
                   PROVE  /\ row'[<<s, g, m>>] = row[<<s, g, m>>]
                          /\ <<s, g, m>> \in Id /\ <<s, g, m>> \notin Fresh \ Fresh'
        OBVIOUS
      <4>1. <<s, g, m>> \in Id /\ \A n \in Mode : <<s, g, m>> # <<r, f, n>>
        BY <2>1, FileTypes
      <4>2. writer'[<<s, g>>].pc = writer[<<s, g>>].pc
        BY <1>2, <2>1, FileTypes
      <4> QED BY <4>1, <4>2, FileTypes DEF ChangesFile
    <3>2. \A m \in Mode : Untouched(<<s, g, m>>) => Untouched(<<s, g, m>>)'
      BY <1>5, <3>1, UntouchedKept
    <3>3. MatchedFile(s, g) /\ writer'[<<s, g>>].pc = writer[<<s, g>>].pc
      BY <1>2, <2>1, FileTypes DEF Stocked, Matched
    <3> QED BY <3>1, <3>2, <3>3 DEF MatchedFile, Mode
  <2>2. CASE <<s, g>> = w
    <3>1. s = r /\ g = f
      BY <2>2
    <3>2. CASE Held(w)' # {}
      BY <3>1, <3>2 DEF MatchedFile, ChangesFile
    <3>3. CASE Held(w)' = {}
      <4>1. ASSUME NEW m \in Mode
            PROVE  Untouched(<<r, f, m>>)'
        <5>1. <<r, f, m>> \in Id
          BY FileTypes
        <5>2. \A t \in Table : table[t][<<r, f, m>>] = <<>>
                              /\ \A v \in Thread : <<t, <<r, f, m>>>> \notin Held(v)
          BY <1>3, <5>1, UntouchedMeans
        <5>3. UNCHANGED table
          BY DEF ChangesFile
        <5>4. \A v \in Thread : Held(v)' \subseteq Held(v)
          BY <1>2, <3>3
        <5>5. \A t \in Table : table'[t][<<r, f, m>>] = <<>>
                              /\ \A v \in Thread : <<t, <<r, f, m>>>> \notin Held(v)'
          BY <5>2, <5>3, <5>4
        <5> QED BY <5>1, <5>5, UntouchedMeans
      <4> QED BY <3>1, <4>1 DEF MatchedFile, ChangesFile
    <3> QED BY <3>2, <3>3
  <2> QED BY <2>1, <2>2
<1> QED BY <1>6, <1>7, <1>8, <1>9, <1>10 DEF Stocked, Matched
\* What a file's rows are after one of them has changed.
LEMMA RowsChanged ==
    ASSUME Typed, NEW r \in Run, NEW f \in File, NEW m \in Mode, NEW new,
           row' = [row EXCEPT ![<<r, f, m>>] = new]
    PROVE  /\ row'[<<r, f, m>>] = new
           /\ \A n \in Mode : n # m => row'[<<r, f, n>>] = row[<<r, f, n>>]
           /\ \A i \in Id : (\A n \in Mode : i # <<r, f, n>>) => row'[i] = row[i]
<1>1. row \in [Id -> RowType \union {None}]
  BY DEF Typed, TypeOK
<1>2. \A n \in Mode : <<r, f, n>> \in Id
  BY FileTypes
<1>3. \A n \in Mode : n # m => <<r, f, n>> # <<r, f, m>>
  OBVIOUS
<1> QED BY <1>1, <1>2, <1>3

\* The thread of a file goes on without anything to insert.
LEMMA ThreadGoesOn ==
    ASSUME Stocked, Typed, NEW r \in Run, NEW f \in File, writer[<<r, f>>].pc \in Mode,
           NEW pc \in {"baseline", "gone"}, writer' = [writer EXCEPT ![<<r, f>>].pc = pc]
    PROVE  /\ \A v \in Thread \ {<<r, f>>} : writer'[v] = writer[v]
           /\ writer'[<<r, f>>].pc = pc
           /\ writer'[<<r, f>>].todo = <<>> /\ Apart(<<>>) /\ Held(<<r, f>>)' = {}
           /\ ThreadMigrated(<<r, f>>)'
<1>1. /\ \A v \in Thread \ {<<r, f>>} : writer'[v] = writer[v]
      /\ writer'[<<r, f>>].pc = pc /\ writer'[<<r, f>>].todo = writer[<<r, f>>].todo
  BY FileTypes DEF Typed, TypeOK, WriterState
<1>2. Held(<<r, f>>) = {} /\ writer[<<r, f>>].todo = <<>> /\ Apart(<<>>)
  BY FileTypes, EmptyHand DEF Mode
<1> QED BY <1>1, <1>2 DEF Held, ThreadMigrated

LEMMA ModeFailsStocked ==
    ASSUME Stocked, Typed, Typed', NEW r \in Run, NEW f \in File, ModeFails(r, f)
    PROVE  Stocked'
<1>1. /\ UNCHANGED <<table, schema, ready, faults>> /\ writer[<<r, f>>].pc \in Mode
      /\ row' = [row EXCEPT ![<<r, f, "tiered">>] = None]
      /\ writer' = [writer EXCEPT ![<<r, f>>].pc = "gone"]
      /\ "tiered" \in Mode /\ "gone" \in {"baseline", "gone"}
  BY DEF ModeFails, Mode
<1>2. /\ row'[<<r, f, "tiered">>] = None
      /\ row'[<<r, f, "baseline">>] = row[<<r, f, "baseline">>]
      /\ \A i \in Id : (\A n \in Mode : i # <<r, f, n>>) => row'[i] = row[i]
  <2>1. /\ row'[<<r, f, "tiered">>] = None
        /\ \A n \in Mode : n # "tiered" => row'[<<r, f, n>>] = row[<<r, f, n>>]
        /\ \A i \in Id : (\A n \in Mode : i # <<r, f, n>>) => row'[i] = row[i]
    BY <1>1, RowsChanged
  <2>2. "baseline" \in Mode /\ "baseline" # "tiered"
    BY DEF Mode
  <2> QED BY <2>1, <2>2
<1>3. /\ \A v \in Thread \ {<<r, f>>} : writer'[v] = writer[v]
      /\ writer'[<<r, f>>].pc = "gone"
      /\ writer'[<<r, f>>].todo = <<>> /\ Apart(<<>>) /\ Held(<<r, f>>)' = {}
      /\ ThreadMigrated(<<r, f>>)'
  BY <1>1, ThreadGoesOn
<1>4. row[<<r, f, "baseline">>] = None
  BY <1>1 DEF Stocked, Matched, MatchedFile, Mode, Reviewing
<1>5. \A t \in Table, m \in Mode : ~Calls(t, <<r, f, m>>)'
  BY <1>2, <1>4 DEF Calls, Reported, Mode
<1>6. "gone" \notin Reviewing
  BY DEF Reviewing
<1>7. ChangesFile(r, f)
  BY <1>1, <1>2, <1>3, <1>5, <1>6 DEF ChangesFile
<1> QED BY <1>7, FileChanged

LEMMA ModeEndsStocked ==
    ASSUME Stocked, Typed, Typed', NEW r \in Run, NEW f \in File, NEW o \in Outcome,
           ModeEnds(r, f, o)
    PROVE  Stocked'
<1> DEFINE w == <<r, f>>
           it == <<r, f, "tiered">>
           ib == <<r, f, "baseline">>
<1>1. /\ UNCHANGED <<table, schema, ready, faults>> /\ writer[w].pc \in Mode
      /\ row' = [row EXCEPT ![<<r, f, writer[w].pc>>] = BenchmarkRow(o)]
  BY DEF ModeEnds
<1>2. BenchmarkRow(o) # None /\ BenchmarkRow(o).outcome = o
  <2>1. BenchmarkRow(o) \in RowType
    BY DEF BenchmarkRow, RowType, Typed, TypeOK
  <2> QED BY <2>1, WarehouseAssumption DEF BenchmarkRow
<1>3. /\ row'[<<r, f, writer[w].pc>>] = BenchmarkRow(o)
      /\ \A n \in Mode : n # writer[w].pc => row'[<<r, f, n>>] = row[<<r, f, n>>]
      /\ \A i \in Id : (\A n \in Mode : i # <<r, f, n>>) => row'[i] = row[i]
  BY <1>1, RowsChanged
<1>4. CASE writer[w].pc = "tiered"
  <2>1. writer' = [writer EXCEPT ![<<r, f>>].pc = "baseline"]
    BY <1>4 DEF ModeEnds
  <2>2. /\ \A v \in Thread \ {<<r, f>>} : writer'[v] = writer[v]
        /\ writer'[<<r, f>>].pc = "baseline"
        /\ writer'[<<r, f>>].todo = <<>> /\ Apart(<<>>) /\ Held(<<r, f>>)' = {}
        /\ ThreadMigrated(<<r, f>>)'
    <3>1. "baseline" \in {"baseline", "gone"}
      OBVIOUS
    <3> QED BY <1>1, <2>1, <3>1, ThreadGoesOn
  <2>3. row[ib] = None
    BY <1>4 DEF Stocked, Matched, MatchedFile, Reviewing
  <2>4. row'[ib] = None /\ row'[it] # None
    BY <1>2, <1>3, <1>4, <2>3 DEF Mode
  <2>5. \A t \in Table, m \in Mode : ~Calls(t, <<r, f, m>>)'
    <3>1. \A m \in Mode : <<r, f, m>> \in BenchmarkId
      BY DEF BenchmarkId
    <3> QED BY <2>4, <3>1 DEF Calls, Reported
  <2>6. ChangesFile(r, f)
    BY <1>1, <1>3, <2>2, <2>4, <2>5 DEF ChangesFile
  <2> QED BY <2>6, FileChanged
<1>5. CASE writer[w].pc = "baseline"
  <2> DEFINE ot == row[it].outcome
             first == Insertions(it, ot)
             second == Insertions(ib, o)
             todo == first \o second
  <2>1. row[it] # None
    BY <1>5 DEF Stocked, Matched, MatchedFile
  <2>2. /\ row'[it] = row[it] /\ row'[it] # None
        /\ row'[ib].outcome = o /\ row'[ib] # None
    BY <1>2, <1>3, <1>5, <2>1 DEF Mode
  <2>3. it \in Id /\ ib \in Id
    BY FileTypes DEF Mode
  <2>4. /\ first \in Seq(Insertion) /\ second \in Seq(Insertion)
        /\ Apart(first) /\ Apart(second)
        /\ HeldIn(first) = {<<"reviews", it>>} \union IF ot.found THEN {<<"findings", it>>} ELSE {}
        /\ HeldIn(second) = {<<"reviews", ib>>} \union IF o.found THEN {<<"findings", ib>>} ELSE {}
    BY <2>3, TodoTypes, InsertionsHeld
  <2>5. Proceed(w, todo)
    BY <1>5 DEF ModeEnds
  <2>6. HeldIn(first) \intersect HeldIn(second) = {}
    <3>1. it # ib
      OBVIOUS
    <3> HIDE DEF it, ib, first, second, ot
    <3> QED BY <2>4, <3>1
  <2> HIDE DEF first, second, ot
  <2>7. todo \in Seq(Insertion) /\ Apart(todo) /\ HeldIn(todo) = HeldIn(first) \union HeldIn(second)
    BY <2>4, <2>6, ConcatHeld, ConcatProperties
  <2> HIDE DEF todo
  <2>8. /\ \A v \in Thread \ {w} : writer'[v] = writer[v]
        /\ writer'[w].todo = todo /\ Held(w)' = HeldIn(todo)
        /\ writer'[w].pc # "insert" => todo = <<>>
        /\ writer'[w].pc \notin Reviewing /\ ThreadMigrated(w)'
    <3>1. w \in Thread /\ w \notin Writer
      BY FileTypes
    <3> QED BY <2>5, <3>1, ProceedHeld DEF Held, ThreadMigrated, Reviewing
  <2>9. \A d \in HeldIn(todo) : d \in Insertion /\ \E m \in Mode : d[2] = <<r, f, m>>
    <3>1. \A t \in Table : <<t, it>> \in Insertion /\ <<t, ib>> \in Insertion
      BY <2>3 DEF Insertion
    <3>2. \A d \in HeldIn(todo) : \E t \in Table : d = <<t, it>> \/ d = <<t, ib>>
      BY <2>4, <2>7 DEF Table
    <3>3. \A d \in HeldIn(todo) : d \in Insertion /\ (d[2] = it \/ d[2] = ib)
      <4> SUFFICES ASSUME NEW d \in HeldIn(todo)
                   PROVE  d \in Insertion /\ (d[2] = it \/ d[2] = ib)
        OBVIOUS
      <4>1. PICK t \in Table : d = <<t, it>> \/ d = <<t, ib>>
        BY <3>2
      <4>2. d \in Insertion
        BY <3>1, <4>1
      <4>3. <<t, it>>[2] = it /\ <<t, ib>>[2] = ib
        OBVIOUS
      <4> HIDE DEF it, ib
      <4> QED BY <4>1, <4>2, <4>3
    <3> QED BY <3>3 DEF Mode
  <2>10. ASSUME NEW t \in Table, NEW m \in Mode, Calls(t, <<r, f, m>>)'
         PROVE  <<t, <<r, f, m>>>> \in HeldIn(todo)
    <3>1. CASE m = "tiered"
      <4>1. t = "reviews" \/ (t = "findings" /\ ot.found)
        BY <2>2, <2>10, <3>1 DEF Calls, Table, ot
      <4> QED BY <2>4, <2>7, <3>1, <4>1
    <3>2. CASE m = "baseline"
      <4>1. t = "reviews" \/ (t = "findings" /\ o.found)
        BY <2>2, <2>10, <3>2 DEF Calls, Table
      <4> QED BY <2>4, <2>7, <3>2, <4>1
    <3> QED BY <3>1, <3>2 DEF Mode
  <2>11. \A m \in Mode : row'[<<r, f, m>>] # None
    BY <2>2 DEF Mode
  <2>12. /\ writer'[w].pc \notin {"insert", "ensure"} => writer'[w].todo = <<>>
         /\ Apart(writer'[w].todo)
         /\ writer'[w].pc # "baseline"
         /\ \A d \in Held(w)' : d \in Insertion /\ \E m \in Mode : d[2] = <<r, f, m>>
         /\ \A t \in Table, m \in Mode : Calls(t, <<r, f, m>>)' => <<t, <<r, f, m>>>> \in Held(w)'
    BY <2>7, <2>8, <2>9, <2>10 DEF Reviewing
  <2>13. ChangesFile(r, f)
    BY <1>1, <1>3, <2>8, <2>11, <2>12 DEF ChangesFile
  <2> QED BY <2>13, FileChanged
<1> QED BY <1>1, <1>4, <1>5 DEF Mode

LEMMA StockedStep ==
    ASSUME Sound, Stocked, [Next]_vars
    PROVE  Stocked'
<1>1. Typed /\ Typed' /\ faults \in Nat
  BY ShapedStep DEF Sound, Shaped, Typed, TypeOK
<1>2. ASSUME \/ \E q \in Reader, u \in User : Stats(q, u) \/ Insights(q, u)
             \/ \E q \in Reader : Look(q) \/ Query(q) \/ Store(q)
             \/ Tick
             \/ UNCHANGED vars
      PROVE  UNCHANGED <<row, table, writer, schema, ready, faults>>
  BY <1>2 DEF Stats, Insights, Request, Look, Query, Store, Tick, vars
<1>3. ASSUME NEW q \in Reader, QueryFails(q)
      PROVE  UNCHANGED <<row, table, writer, schema, ready>> /\ faults' # 0
  BY <1>1, <1>3 DEF QueryFails, Inject
<1>4. CASE \E q \in Reader : ReaderStep(q)
  BY <1>1, <1>2, <1>3, <1>4, OthersStocked DEF ReaderStep
<1>5. CASE \/ \E q \in Reader, u \in User : Stats(q, u) \/ Insights(q, u)
           \/ Tick
           \/ UNCHANGED vars
  BY <1>1, <1>2, <1>5, OthersStocked
<1>6. CASE \E w \in Writer, i \in Review, u \in User, o \in Outcome : Emit(w, i, u, o)
  BY <1>1, <1>6, EmitStocked
<1>7. CASE \E w \in Thread : WriterStep(w)
  BY <1>1, <1>7, WriterStepStocked
<1>8. CASE \E r \in Run : BenchmarkStart(r)
  BY <1>1, <1>8, StartStocked
<1>9. CASE \E r \in Run, f \in File : BenchmarkFile(r, f) \/ ModeFails(r, f)
  BY <1>1, <1>9, FileStocked, ModeFailsStocked
<1>10. CASE \E r \in Run, f \in File, o \in Outcome : ModeEnds(r, f, o)
  BY <1>1, <1>10, ModeEndsStocked
<1>11. CASE \E p \in Process : Restart(p)
  BY <1>1, <1>11, RestartStocked
<1> QED BY <1>4, <1>5, <1>6, <1>7, <1>8, <1>9, <1>10, <1>11 DEF Next

LEMMA StockedInit == Init => Stocked
<1> SUFFICES ASSUME Init PROVE Stocked
  OBVIOUS
<1>1. \A w \in Thread : writer[w] = IdleWriter
  BY DEF Init
<1>2. IdleWriter.pc = "idle" /\ IdleWriter.todo = <<>>
  BY DEF IdleWriter
<1>3. HeldIn(<<>>) = {} /\ Apart(<<>>) /\ Len(<<>>) = 0 /\ DOMAIN <<>> = {}
  <2>1. 1..Len(<<>>) = {} /\ Len(<<>>) = 0 /\ DOMAIN <<>> = {}
    OBVIOUS
  <2> QED BY <2>1 DEF HeldIn, Apart
<1>4. \A t \in Table, i \in Id : table[t][i] = <<>>
  BY DEF Init
<1>5. \A w \in Thread : Held(w) = {} /\ writer[w].todo = <<>> /\ writer[w].pc = "idle"
  BY <1>1, <1>2, <1>3 DEF Held
<1>6. \A i \in Id : Untouched(i)
  BY <1>3, <1>4, <1>5 DEF Untouched, InHand
<1>7. \A i \in Id : row[i] = None
  BY DEF Init
<1>8. Once
  <2>1. \A t \in Table, i \in Id : Len(table[t][i]) <= 1
    BY <1>3, <1>4
  <2>2. \A i \in Fresh : Untouched(i)
    BY <1>6 DEF Fresh
  <2> QED BY <1>3, <1>5, <2>1, <2>2 DEF Once
<1>9. Migrated
  BY <1>5 DEF Init, Migrated, ThreadMigrated
<1>10. HandsEmpty
  BY <1>5 DEF HandsEmpty
<1>11. NoneLost
  BY <1>7 DEF NoneLost, Calls, Reported
<1>12. Matched
  <2> SUFFICES ASSUME NEW r \in Run, NEW f \in File
               PROVE  MatchedFile(r, f)
    BY DEF Matched
  <2>1. \A m \in Mode : <<r, f, m>> \in Id
    BY FileTypes
  <2> QED BY <1>5, <1>6, <1>7, <2>1, FileTypes DEF MatchedFile, Mode
<1> QED BY <1>8, <1>9, <1>10, <1>11, <1>12 DEF Stocked

LEMMA SpecStocked == Spec => [](Sound /\ Stocked)
<1>1. Init => Sound /\ Stocked
  BY SoundInit, StockedInit
<1>2. Sound /\ Stocked /\ [Next]_vars => (Sound /\ Stocked)'
  BY SoundStep, StockedStep
<1> QED BY <1>1, <1>2, PTL DEF Spec

\* However the first writes of threads and processes race to create or migrate
\* the tables, what was reported is stored or still to be inserted unless a
\* request fails, and is never stored twice (_insert, ensure_schema).
THEOREM WritesHold == Spec => []WrittenOnce
<1>1. Stocked => WrittenOnce
  BY DEF Stocked, Once, NoneLost, Calls, At, WrittenOnce
<1> QED BY <1>1, SpecStocked, PTL

-----------------------------------------------------------------------------
(* The evidence of a benchmark *)

\* The rows of a benchmark that a result has are stored, of one run, and with
\* each of them the row of the other mode, if it was stored before a time.
Shows(by, rows) ==
    /\ rows \ Review \subseteq Stored("reviews")
    /\ \A i, j \in rows \ Review : i[1] = j[1]
    /\ \A i \in rows \ Review, m \in Mode :
          (\E n \in DOMAIN table["reviews"][<<i[1], i[2], m>>] :
               table["reviews"][<<i[1], i[2], m>>][n] < by)
          => <<i[1], i[2], m>> \in rows

EntryShows(s, k) == cache[s][k] # None => Shows(cache[s][k].at, cache[s][k].rows)

ReaderShows(q) ==
    /\ reader[q].pc = "store" => Shows(reader[q].now, reader[q].rows)
    /\ reader[q].got # None =>
          reader[q].got.now <= clock /\ Shows(reader[q].got.now - CacheS + 1, reader[q].got.rows)

Evidence ==
    /\ \A s \in Server, k \in Key : EntryShows(s, k)
    /\ \A q \in Reader : ReaderShows(q)

LEMMA PairTypes ==
    ASSUME NEW i \in Id, i \notin Review, NEW m \in Mode
    PROVE  <<i[1], i[2], m>> \in Id /\ <<i[1], i[2], m>> \notin Review
<1>1. PICK r \in Run, f \in File, n \in Mode : i = <<r, f, n>>
  BY IdTypes
<1> QED BY <1>1, FileTypes

\* What was stored before a time that is not to come is all there will be.
LEMMA OlderKept ==
    ASSUME Typed, Grown, NEW i \in Id, NEW by \in Int, by <= clock,
           NEW n \in DOMAIN table'["reviews"][i], table'["reviews"][i][n] < by
    PROVE  n \in DOMAIN table["reviews"][i] /\ table["reviews"][i][n] < by
<1>1. table["reviews"][i] \in Seq(Nat) /\ clock \in Nat
  BY DEF Typed, TypeOK, Table
<1>2. CASE table'["reviews"][i] = table["reviews"][i]
  BY <1>2
<1>3. CASE table'["reviews"][i] = Append(table["reviews"][i], clock)
  <2>1. n \in 1..(Len(table["reviews"][i]) + 1) /\ Len(table["reviews"][i]) \in Nat
    BY <1>1, <1>3, AppendProperties, LenProperties
  <2>2. n # Len(table["reviews"][i]) + 1
    BY <1>1, <1>3, AppendProperties
  <2>3. n \in 1..Len(table["reviews"][i])
    BY <2>1, <2>2
  <2> QED BY <1>1, <1>3, <2>3, AppendProperties, LenProperties
<1> QED BY <1>2, <1>3 DEF Grown, Table

LEMMA ShowsKept ==
    ASSUME Typed, Grown, NEW by \in Int, by <= clock, NEW rows, Shows(by, rows)
    PROVE  Shows(by, rows)'
<1>1. Stored("reviews") \subseteq Stored("reviews")'
  <2> SUFFICES ASSUME NEW i \in Id, table["reviews"][i] # <<>>
               PROVE  table'["reviews"][i] # <<>>
    BY DEF Stored
  <2>1. table["reviews"][i] \in Seq(Nat) /\ clock \in Nat
    BY DEF Typed, TypeOK, Table
  <2>2. Append(table["reviews"][i], clock) # <<>>
    BY <2>1, AppendProperties
  <2> QED BY <2>2 DEF Grown, Table
<1>2. ASSUME NEW i \in rows \ Review, NEW m \in Mode,
             NEW n \in DOMAIN table'["reviews"][<<i[1], i[2], m>>],
             table'["reviews"][<<i[1], i[2], m>>][n] < by
      PROVE  <<i[1], i[2], m>> \in rows
  <2> DEFINE p == <<i[1], i[2], m>>
  <2>1. i \in Id
    BY DEF Shows, Stored
  <2>2. p \in Id
    BY <2>1, PairTypes
  <2>3. n \in DOMAIN table["reviews"][p] /\ table["reviews"][p][n] < by
    <3> HIDE DEF p
    <3>1. n \in DOMAIN table'["reviews"][p] /\ table'["reviews"][p][n] < by
      BY <1>2 DEF p
    <3> QED BY <2>2, <3>1, OlderKept
  <2> QED BY <2>3 DEF Shows
<1> QED BY <1>1, <1>2 DEF Shows

LEMMA ShowsBefore ==
    ASSUME Typed, NEW at \in Int, NEW by \in Int, by <= at, NEW rows, Shows(at, rows)
    PROVE  Shows(by, rows)
<1> SUFFICES ASSUME NEW i \in rows \ Review, NEW m \in Mode,
                    NEW n \in DOMAIN table["reviews"][<<i[1], i[2], m>>],
                    table["reviews"][<<i[1], i[2], m>>][n] < by
             PROVE  table["reviews"][<<i[1], i[2], m>>][n] < at
  BY DEF Shows
<1>1. i \in Id
  BY DEF Shows, Stored
<1>2. <<i[1], i[2], m>> \in Id
  BY <1>1, PairTypes
<1>3. table["reviews"][<<i[1], i[2], m>>] \in Seq(Nat)
  BY <1>2 DEF Typed, TypeOK, Table
<1>4. table["reviews"][<<i[1], i[2], m>>][n] \in Nat
  BY <1>3, ElementOfSeq, LenProperties
<1> QED BY <1>4

\* A query shows one run, and all of it that is stored.
LEMMA QueryShows ==
    ASSUME NEW k \in Key, NEW rows \in Results(k), NEW by \in Int
    PROVE  Shows(by, rows)
<1>1. CASE rows \ Review = {}
  BY <1>1 DEF Shows
<1>2. CASE rows \ Review # {}
  <2>1. k[1] = "modes"
    <3>1. Traffic(k[2]) \subseteq Review /\ FindingsOf(k[2]) \subseteq Review
      BY DEF Traffic, FindingsOf
    <3>2. k[1] = "findings" => rows = FindingsOf(k[2])
      BY DEF Results
    <3>3. k[1] = "reviews" => rows = Traffic(k[2])
      BY DEF Results
    <3> QED BY <1>2, <3>1, <3>2, <3>3, KeyTypes
  <2>2. PICK e \in LatestEvidence : rows = Traffic(k[2]) \union e
    BY <2>1 DEF Results
  <2>3. e # {}
    BY <1>2, <2>2 DEF Traffic
  <2>4. PICK j \in Benchmarked : e = {i \in Benchmarked : i[1] = j[1]}
    BY <2>2, <2>3 DEF LatestEvidence
  <2>5. rows \ Review \subseteq e
    BY <2>2 DEF Traffic
  <2>6. ASSUME NEW i \in rows \ Review, NEW m \in Mode,
               NEW n \in DOMAIN table["reviews"][<<i[1], i[2], m>>]
        PROVE  <<i[1], i[2], m>> \in e
    <3> DEFINE p == <<i[1], i[2], m>>
    <3>1. i \in Benchmarked /\ i[1] = j[1]
      BY <2>4, <2>5
    <3>2. i \in BenchmarkId /\ i \in Id /\ i \notin Review
      BY <3>1 DEF Benchmarked, Stored
    <3>3. p \in BenchmarkId /\ p \in Id
      BY <3>2, PairTypes DEF BenchmarkId
    <3>4. table["reviews"][p] # <<>>
      <4>1. DOMAIN <<>> = {}
        OBVIOUS
      <4> QED BY <4>1
    <3>5. p[1] = i[1]
      OBVIOUS
    <3> HIDE DEF p
    <3> QED BY <2>4, <3>1, <3>3, <3>4, <3>5 DEF Benchmarked, Stored, p
  <2>7. \A i, l \in rows \ Review : i[1] = l[1]
    BY <2>4, <2>5
  <2>8. rows \ Review \subseteq Stored("reviews")
    BY <2>4, <2>5 DEF Benchmarked
  <2> QED BY <2>2, <2>6, <2>7, <2>8 DEF Shows
<1> QED BY <1>1, <1>2

LEMMA EntryShowsKept ==
    ASSUME Typed, Grown, NEW s \in Server, NEW k \in Key, EntryShows(s, k),
           cache'[s][k] = cache[s][k] \/ cache'[s][k] = None
    PROVE  EntryShows(s, k)'
<1> SUFFICES ASSUME cache[s][k] # None, cache'[s][k] = cache[s][k]
             PROVE  Shows(cache[s][k].at, cache[s][k].rows)'
  BY DEF EntryShows
<1> DEFINE at == cache[s][k].at
           rows == cache[s][k].rows
<1>1. at \in Int /\ at <= clock
  BY DEF Typed, TypeOK
<1>2. Shows(at, rows)
  BY DEF EntryShows
<1> HIDE DEF at, rows
<1>3. \A b \in Int : \A r : b <= clock /\ Shows(b, r) => Shows(b, r)'
  BY ShowsKept
<1>4. at' = at /\ rows' = rows
  BY DEF at, rows
<1> QED BY <1>1, <1>2, <1>3, <1>4 DEF at, rows
LEMMA ReaderShowsKept ==
    ASSUME Shaped, Grown, clock' \in Nat, NEW q \in Reader, ReaderShows(q), reader'[q] = reader[q]
    PROVE  ReaderShows(q)'
<1> DEFINE now == reader[q].now
           rows == reader[q].rows
           got == reader[q].got
<1>1. /\ Typed /\ clock \in Nat /\ clock <= clock' /\ CacheS \in Nat \ {0}
      /\ now \in Nat /\ got \in Answer \union {None}
      /\ reader[q].pc = "store" => now <= clock
  BY WarehouseAssumption DEF Shaped, AskedBefore, Typed, TypeOK, Grown, ReaderState
<1>2. got # None => got.now \in Nat
  BY <1>1 DEF Answer
<1>3. /\ reader[q].pc = "store" => Shows(now, rows)
      /\ got # None => got.now <= clock /\ Shows(got.now - CacheS + 1, got.rows)
  BY DEF ReaderShows
<1>4. now' = now /\ rows' = rows /\ got' = got /\ reader'[q].pc = reader[q].pc
  OBVIOUS
<1> HIDE DEF now, rows, got
<1>5. \A b \in Int : \A r : b <= clock /\ Shows(b, r) => Shows(b, r)'
  BY <1>1, ShowsKept
<1>6. reader[q].pc = "store" => Shows(now, rows)'
  BY <1>1, <1>3, <1>4, <1>5
<1>7. got # None => got.now <= clock' /\ Shows(got.now - CacheS + 1, got.rows)'
  <2> SUFFICES ASSUME got # None
               PROVE  got.now <= clock' /\ Shows(got.now - CacheS + 1, got.rows)'
    OBVIOUS
  <2> DEFINE b == got.now - CacheS + 1
             r == got.rows
  <2>1. b \in Int /\ b <= clock /\ got.now <= clock'
    BY <1>1, <1>2, <1>3
  <2>2. Shows(b, r)
    BY <1>3
  <2>3. b' = b /\ r' = r
    BY <1>4
  <2> HIDE DEF b, r
  <2>4. Shows(b, r)'
    BY <1>5, <2>1, <2>2, <2>3
  <2> QED BY <2>1, <2>4 DEF b, r
<1> QED BY <1>4, <1>6, <1>7 DEF ReaderShows, now, rows, got

\* A request that has begun, or has been forgotten, shows nothing yet.
LEMMA NothingShown ==
    ASSUME NEW q \in Reader, reader'[q].pc # "store", reader'[q].got = None
    PROVE  ReaderShows(q)'
BY DEF ReaderShows

LEMMA IdleShows ==
    ASSUME NEW q \in Reader, reader'[q] = IdleReader
    PROVE  ReaderShows(q)'
BY NothingShown DEF IdleReader

LEMMA AnsweredShows ==
    ASSUME Shaped, NEW q \in Reader, reader[q].pc # "idle", UNCHANGED <<table, clock>>,
           NEW now \in Nat, now <= clock, NEW rows \in SUBSET Id, Answered(q, now, rows),
           Shows(now - CacheS + 1, rows)
    PROVE  ReaderShows(q)' /\ \A p \in Reader \ {q} : reader'[p] = reader[p]
<1>1. /\ \A p \in Reader \ {q} : reader'[p] = reader[p]
      /\ reader'[q].pc \in {"look", "idle"}
      /\ reader'[q].got = [key |-> Head(reader[q].keys), now |-> now, rows |-> rows]
  BY AnsweredTyped DEF Shaped
<1>2. reader'[q].got.now = now /\ reader'[q].got.rows = rows
  BY <1>1
<1>3. \A b, r : Shows(b, r) => Shows(b, r)'
  BY DEF Shows, Stored
<1>4. Shows(reader[q].got.now - CacheS + 1, reader[q].got.rows)'
  <2> DEFINE b == reader[q].got.now - CacheS + 1
             r == reader[q].got.rows
  <2>1. b' = now - CacheS + 1 /\ r' = rows
    BY <1>2
  <2>2. Shows(now - CacheS + 1, rows)'
    BY <1>3
  <2> HIDE DEF b, r
  <2>3. Shows(b, r)'
    BY <2>1, <2>2
  <2> QED BY <2>3 DEF b, r
<1> QED BY <1>1, <1>2, <1>4 DEF ReaderShows
LEMMA ReaderStepShows ==
    ASSUME Sound, Evidence, Shaped', Grown, NEW q \in Reader, ReaderStep(q)
    PROVE  Evidence'
<1> DEFINE k == Head(reader[q].keys)
           entry == cache[Home[q]][k]
<1>1. UNCHANGED <<table, row, clock>>
  BY DEF ReaderStep, Look, Query, QueryFails, Store
<1>2. /\ reader[q].pc # "idle" /\ k \in Key /\ Home[q] \in Server
      /\ clock \in Nat /\ clock' \in Nat /\ CacheS \in Nat /\ CacheS >= 1
      /\ reader[q].now \in Nat /\ reader[q].rows \in SUBSET Id
      /\ entry \in [at : 0..clock, rows : SUBSET Id] \union {None}
      /\ Shaped /\ Typed
  <2>1. reader[q].pc # "idle"
    BY DEF ReaderStep, Look, Query, QueryFails, Store
  <2> QED BY <2>1, AskedTyped, WarehouseAssumption DEF Sound, Shaped, Typed, TypeOK
<1>3. ReaderShows(q) /\ EntryShows(Home[q], k)
  BY <1>2 DEF Evidence
<1>4. ASSUME UNCHANGED cache, ReaderShows(q)', \A p \in Reader \ {q} : reader'[p] = reader[p]
      PROVE  Evidence'
  <2>1. \A s \in Server, j \in Key : EntryShows(s, j)'
    BY <1>2, <1>4, EntryShowsKept DEF Evidence
  <2>2. \A p \in Reader : ReaderShows(p)'
    BY <1>2, <1>4, ReaderShowsKept DEF Evidence
  <2> QED BY <2>1, <2>2 DEF Evidence
<1>5. CASE Look(q)
  <2>1. CASE entry # None /\ clock - entry.at < CacheS
    <3> DEFINE at == entry.at
               rows == entry.rows
    <3>1. Answered(q, clock, rows)
      BY <1>5, <2>1 DEF Look, CacheKeyOf
    <3>2. at \in Nat /\ rows \in SUBSET Id
      BY <1>2, <2>1
    <3>3. Shows(at, rows)
      BY <1>3, <2>1 DEF EntryShows
    <3>4. clock - CacheS + 1 \in Int /\ clock - CacheS + 1 <= at
      <4> HIDE DEF entry
      <4> QED BY <1>2, <2>1, <3>2
    <3> HIDE DEF at, rows, k, entry
    <3>5. Shows(clock - CacheS + 1, rows)
      BY <1>2, <3>2, <3>3, <3>4, ShowsBefore
    <3>6. ReaderShows(q)' /\ \A p \in Reader \ {q} : reader'[p] = reader[p]
      <4>1. clock <= clock
        BY <1>2
      <4> QED BY <1>1, <1>2, <3>1, <3>2, <3>5, <4>1, AnsweredShows
    <3> QED BY <1>4, <1>5, <3>6 DEF Look
  <2>2. CASE ~(entry # None /\ clock - entry.at < CacheS)
    <3>1. Await(q, "query", clock, {})
      BY <1>5, <2>2 DEF Look, CacheKeyOf
    <3>2. /\ reader'[q].pc = "query" /\ reader'[q].got = None
          /\ \A p \in Reader \ {q} : reader'[p] = reader[p]
      <4>1. Typed /\ reader[q].pc # "idle" /\ clock \in Nat /\ {} \in SUBSET Id
        BY <1>2
      <4> HIDE DEF k, entry
      <4> QED BY <3>1, <4>1, AwaitTyped
    <3>3. ReaderShows(q)'
      BY <3>2, NothingShown
    <3> QED BY <1>4, <1>5, <3>2, <3>3 DEF Look
  <2> QED BY <2>1, <2>2
<1>6. CASE Query(q)
  <2>1. CASE reader' = [reader EXCEPT ![q] = IdleReader]
    <3>1. reader'[q] = IdleReader /\ \A p \in Reader \ {q} : reader'[p] = reader[p]
      BY <1>2, <2>1 DEF Typed, TypeOK
    <3> QED BY <1>4, <1>6, <3>1, IdleShows DEF Query
  <2>2. ASSUME NEW rows \in Results(k), Await(q, "store", reader[q].now, rows)
        PROVE  Evidence'
    <3> DEFINE now == reader[q].now
    <3>1. rows \in SUBSET Id /\ now \in Nat
      BY <1>2, <2>2, ResultTypes
    <3>2. /\ reader'[q].pc = "store" /\ reader'[q].got = None
          /\ reader'[q].now = now /\ reader'[q].rows = rows
          /\ \A p \in Reader \ {q} : reader'[p] = reader[p]
      <4>1. /\ Typed /\ reader[q].pc # "idle" /\ "store" \in {"query", "store"}
            /\ Await(q, "store", now, rows)
        BY <1>2, <2>2
      <4> HIDE DEF now, k, entry
      <4> QED BY <3>1, <4>1, AwaitTyped
    <3> HIDE DEF now
    <3>3. Shows(now, rows)
      BY <1>2, <2>2, <3>1, QueryShows
    <3>4. \A b, r : Shows(b, r) => Shows(b, r)'
      BY <1>1 DEF Shows, Stored
    <3>5. Shows(reader[q].now, reader[q].rows)'
      <4> DEFINE b == reader[q].now
                 r == reader[q].rows
      <4>1. b' = now /\ r' = rows
        BY <3>2
      <4>2. Shows(now, rows)'
        <5>1. now' = now
          BY <3>2 DEF now
        <5> QED BY <3>3, <3>4, <5>1
      <4>3. now' = now
        BY <3>2 DEF now
      <4> HIDE DEF b, r
      <4>4. Shows(b, r)'
        BY <4>1, <4>2, <4>3
      <4> QED BY <4>4 DEF b, r
    <3>6. ReaderShows(q)'
      BY <3>2, <3>5 DEF ReaderShows
    <3> QED BY <1>4, <1>6, <3>2, <3>6 DEF Query
  <2> QED BY <1>6, <2>1, <2>2 DEF Query
<1>7. CASE QueryFails(q)
  <2>1. reader'[q] = IdleReader /\ \A p \in Reader \ {q} : reader'[p] = reader[p]
    BY <1>2, <1>7 DEF QueryFails, Typed, TypeOK
  <2> QED BY <1>4, <1>7, <2>1, IdleShows DEF QueryFails
<1>8. CASE Store(q)
  <2> DEFINE now == reader[q].now
             rows == reader[q].rows
  <2>1. /\ reader[q].pc = "store" /\ Answered(q, now, rows)
        /\ cache' = [cache EXCEPT ![Home[q]][k] = [at |-> now, rows |-> rows]]
    BY <1>8 DEF Store, CacheKeyOf
  <2>2. now \in Nat /\ rows \in SUBSET Id /\ now <= clock
    BY <1>2, <2>1 DEF Shaped, AskedBefore
  <2>3. Shows(now, rows)
    BY <1>3, <2>1 DEF ReaderShows
  <2> HIDE DEF now, rows, k
  <2>4. Shows(now - CacheS + 1, rows)
    <3>1. now \in Int /\ now - CacheS + 1 \in Int /\ now - CacheS + 1 <= now
      BY <1>2, <2>2
    <3> QED BY <1>2, <2>3, <3>1, ShowsBefore
  <2>5. ReaderShows(q)' /\ \A p \in Reader \ {q} : reader'[p] = reader[p]
    BY <1>1, <1>2, <2>1, <2>2, <2>4, AnsweredShows
  <2>6. ASSUME NEW s \in Server, NEW j \in Key
        PROVE  EntryShows(s, j)'
    <3>1. CASE s = Home[q] /\ j = k
      <4>1. cache'[s][j] = [at |-> now, rows |-> rows]
        BY <1>2, <2>1, <3>1 DEF Typed, TypeOK
      <4>2. cache'[s][j].at = now /\ cache'[s][j].rows = rows
        BY <4>1
      <4>3. \A b, r : Shows(b, r) => Shows(b, r)'
        BY <1>1 DEF Shows, Stored
      <4>4. \A b1, r1 : Shows(b1, r1)' /\ cache'[s][j].at = b1 /\ cache'[s][j].rows = r1
               => EntryShows(s, j)'
        BY DEF EntryShows
      <4>5. PICK b1, r1 : b1 = now /\ r1 = rows
        OBVIOUS
      <4>6. Shows(b1, r1)'
        BY <2>3, <4>3, <4>5
      <4> QED BY <4>2, <4>4, <4>5, <4>6
    <3>2. CASE ~(s = Home[q] /\ j = k)
      <4>1. cache'[s][j] = cache[s][j]
        BY <1>2, <2>1, <3>2 DEF Typed, TypeOK
      <4> QED BY <1>2, <4>1, EntryShowsKept DEF Evidence
    <3> QED BY <3>1, <3>2
  <2>7. \A p \in Reader : ReaderShows(p)'
    BY <1>2, <2>5, ReaderShowsKept DEF Evidence
  <2> QED BY <2>6, <2>7 DEF Evidence
<1> QED BY <1>5, <1>6, <1>7, <1>8 DEF ReaderStep
LEMMA EvidenceStep ==
    ASSUME Sound, Evidence, [Next]_vars
    PROVE  Evidence'
<1>1. Shaped /\ Shaped' /\ Grown /\ Typed /\ clock' \in Nat
  BY SoundStep DEF Sound, Shaped, Typed, TypeOK
<1>2. ASSUME UNCHANGED <<cache, reader>>
      PROVE  Evidence'
  <2>1. \A s \in Server, k \in Key : EntryShows(s, k)'
    BY <1>1, <1>2, EntryShowsKept DEF Evidence
  <2>2. \A q \in Reader : ReaderShows(q)'
    BY <1>1, <1>2, ReaderShowsKept DEF Evidence
  <2> QED BY <2>1, <2>2 DEF Evidence
<1>3. CASE \/ \E w \in Writer, i \in Review, u \in User, o \in Outcome : Emit(w, i, u, o)
           \/ \E w \in Thread : WriterStep(w)
           \/ \E r \in Run : BenchmarkStart(r)
           \/ \E r \in Run, f \in File : BenchmarkFile(r, f) \/ ModeFails(r, f)
           \/ \E r \in Run, f \in File, o \in Outcome : ModeEnds(r, f, o)
           \/ Tick
           \/ UNCHANGED vars
  <2>1. UNCHANGED <<cache, reader>>
    BY <1>3 DEF Emit, WriterStep, InsertStores, InsertNotFound, InsertNoSuchField, InsertFails,
                EnsureCheck, EnsureStep, EnsureFails, BenchmarkStart, BenchmarkFile, ModeFails,
                ModeEnds, Tick, vars
  <2> QED BY <1>2, <2>1
<1>4. ASSUME NEW q \in Reader, NEW u \in User, Stats(q, u) \/ Insights(q, u)
      PROVE  Evidence'
  <2>1. PICK keys : Request(q, u, keys)
    BY <1>4 DEF Stats, Insights
  <2>2. /\ UNCHANGED cache
        /\ \A p \in Reader \ {q} : reader'[p] = reader[p]
        /\ reader'[q].pc = "look" /\ reader'[q].got = None
    BY <1>1, <2>1 DEF Request, Typed, TypeOK
  <2>3. \A s \in Server, k \in Key : EntryShows(s, k)'
    BY <1>1, <2>2, EntryShowsKept DEF Evidence
  <2>4. ASSUME NEW p \in Reader
        PROVE  ReaderShows(p)'
    <3>1. CASE p = q
      BY <2>2, <3>1, NothingShown
    <3>2. CASE p # q
      BY <1>1, <2>2, <3>2, ReaderShowsKept DEF Evidence
    <3> QED BY <3>1, <3>2
  <2> QED BY <2>3, <2>4 DEF Evidence
<1>5. CASE \E q \in Reader : ReaderStep(q)
  BY <1>1, <1>5, ReaderStepShows
<1>6. ASSUME NEW p \in Process, Restart(p)
      PROVE  Evidence'
  <2>1. ASSUME NEW s \in Server, NEW k \in Key
        PROVE  EntryShows(s, k)'
    <3>1. cache'[s][k] = cache[s][k] \/ cache'[s][k] = None
      BY <1>6 DEF Restart
    <3> QED BY <1>1, <3>1, EntryShowsKept DEF Evidence
  <2>2. ASSUME NEW q \in Reader
        PROVE  ReaderShows(q)'
    <3>1. reader'[q] = reader[q] \/ reader'[q] = IdleReader
      BY <1>6 DEF Restart
    <3> QED BY <1>1, <3>1, ReaderShowsKept, IdleShows DEF Evidence
  <2> QED BY <2>1, <2>2 DEF Evidence
<1> QED BY <1>3, <1>4, <1>5, <1>6 DEF Next

LEMMA EvidenceInit == Init => Evidence
<1> SUFFICES ASSUME Init PROVE Evidence
  OBVIOUS
<1>1. \A s \in Server, k \in Key : cache[s][k] = None
  BY DEF Init
<1>2. \A q \in Reader : reader[q].pc = "idle" /\ reader[q].got = None
  BY DEF Init, IdleReader
<1> QED BY <1>1, <1>2 DEF Evidence, EntryShows, ReaderShows

\* What a dashboard shows of a benchmark is of one run, and of both modes of a
\* file, but for what is being written, was within cache_s or was lost to a
\* request that failed (benchmark, mode_aggregates).
THEOREM EvidenceHolds == Spec => []EvidenceIsPaired
<1>1. Init => Sound /\ Stocked /\ Evidence
  BY SoundInit, StockedInit, EvidenceInit
<1>2. Sound /\ Stocked /\ Evidence /\ [Next]_vars => (Sound /\ Stocked /\ Evidence)'
  BY SoundStep, StockedStep, EvidenceStep
<1>3. Sound /\ Stocked /\ Evidence => EvidenceIsPaired
  <2> SUFFICES ASSUME Sound, Stocked, Evidence, NEW q \in Reader, reader[q].got # None,
                      NEW a, a = reader[q].got
               PROVE  /\ \A i, j \in a.rows \ Review : i[1] = j[1]
                      /\ \A i \in a.rows \ Review, m \in Mode :
                           \/ <<i[1], i[2], m>> \in a.rows \ Review
                           \/ faults > 0
                           \/ InHand(<<"reviews", <<i[1], i[2], m>>>>)
                           \/ \E n \in DOMAIN table["reviews"][<<i[1], i[2], m>>] :
                                 table["reviews"][<<i[1], i[2], m>>][n] + CacheS > a.now
    BY DEF EvidenceIsPaired
  <2>1. Shows(a.now - CacheS + 1, a.rows)
    BY DEF Evidence, ReaderShows
  <2>2. /\ a.now \in Nat /\ CacheS \in Nat /\ Typed /\ faults \in Nat
    <3>1. a \in Answer
      BY DEF Sound, Shaped, Typed, TypeOK, ReaderState
    <3> QED BY <3>1, WarehouseAssumption DEF Answer, Sound, Shaped, Typed, TypeOK
  <2>3. ASSUME NEW i \in a.rows \ Review, NEW m \in Mode, ~(faults > 0),
               ~InHand(<<"reviews", <<i[1], i[2], m>>>>)
        PROVE  \/ <<i[1], i[2], m>> \in a.rows \ Review
               \/ \E n \in DOMAIN table["reviews"][<<i[1], i[2], m>>] :
                     table["reviews"][<<i[1], i[2], m>>][n] + CacheS > a.now
    <3> DEFINE p == <<i[1], i[2], m>>
    <3>1. i \in Id /\ table["reviews"][i] # <<>> /\ faults = 0
      BY <2>1, <2>2, <2>3 DEF Shows, Stored
    <3>2. PICK r \in Run, f \in File, l \in Mode : i = <<r, f, l>>
      BY <3>1, IdTypes
    <3>3. ~Untouched(i)
      BY <3>1 DEF Untouched, Table
    <3>4. \A n \in Mode : row[<<r, f, n>>] # None
      BY <3>2, <3>3 DEF Stocked, Matched, MatchedFile
    <3>5. p = <<r, f, m>> /\ p \in Id /\ p \notin Review
      BY <3>2, FileTypes
    <3>6. Calls("reviews", p)
      BY <3>4, <3>5 DEF Calls, Reported, Mode
    <3>7. At("reviews", p)
      BY <3>1, <3>5, <3>6 DEF Stocked, NoneLost, Table
    <3>8. table["reviews"][p] # <<>>
      BY <2>3, <3>7 DEF At, Stored
    <3>9. table["reviews"][p] \in Seq(Nat)
      BY <2>2, <3>5 DEF Typed, TypeOK, Table
    <3>10. 1 \in DOMAIN table["reviews"][p] /\ table["reviews"][p][1] \in Nat
      <4> DEFINE stored == table["reviews"][p]
      <4>1. stored \in Seq(Nat) /\ stored # <<>>
        BY <3>8, <3>9
      <4> HIDE DEF stored
      <4>2. Len(stored) \in Nat /\ Len(stored) # 0 /\ DOMAIN stored = 1..Len(stored)
        BY <4>1, LenProperties, EmptySeq
      <4>3. 1 \in DOMAIN stored /\ stored[1] \in Nat
        BY <4>1, <4>2, ElementOfSeq
      <4> QED BY <4>3 DEF stored
    <3>11. CASE table["reviews"][p][1] < a.now - CacheS + 1
      BY <2>1, <3>5, <3>10, <3>11 DEF Shows
    <3>12. CASE ~(table["reviews"][p][1] < a.now - CacheS + 1)
      <4>1. table["reviews"][p][1] + CacheS > a.now
        BY <2>2, <3>10, <3>12
      <4> QED BY <3>10, <4>1
    <3> QED BY <3>11, <3>12
  <2>4. ASSUME NEW i \in a.rows \ Review, NEW m \in Mode
        PROVE  \/ <<i[1], i[2], m>> \in a.rows \ Review
               \/ faults > 0
               \/ InHand(<<"reviews", <<i[1], i[2], m>>>>)
               \/ \E n \in DOMAIN table["reviews"][<<i[1], i[2], m>>] :
                     table["reviews"][<<i[1], i[2], m>>][n] + CacheS > a.now
    BY <2>3
  <2> QED BY <2>1, <2>4 DEF Shows
<1> QED BY <1>1, <1>2, <1>3, PTL DEF Spec

=============================================================================
