------------------------------ MODULE Warehouse ------------------------------
(***************************************************************************)
(* The analytics warehouse (storage/bigquery.py, BigQueryAnalytics): who   *)
(* writes its two tables (worker/jobs.py, emit; cli.py, benchmark), who    *)
(* creates and migrates them on the way, and who reads them through the    *)
(* cache of each process (api/app.py, stats and insights).                 *)
(*                                                                         *)
(* An insert, a statement of the schema and a query are one request each,  *)
(* and so one step.  What a row says is abstracted to what the queries     *)
(* select by; an aggregate stands for the set of rows it counts.  A run of *)
(* the model is shorter than the window of days of a query.                *)
(***************************************************************************)
EXTENDS Naturals, Sequences

CONSTANTS
    User,      \* tenants
    Admin,     \* those who also see the numbers of the whole system
    Review,    \* reviews whose outcome is reported
    Run,       \* benchmark runs, each in a process of its own
    File,      \* the files of a benchmark
    Server,    \* processes of the service
    Writer,    \* their threads that report
    Reader,    \* their threads that answer a dashboard
    Outcome,   \* how a review may end: [status, found]
    Home,      \* the process of a writer or reader
    None,      \* no value
    CacheS,    \* cache_s: how long a query result is served again
    MaxTime,   \* bound: how far the clock goes
    Faults,    \* which faults the environment may inject
    MaxInputs  \* bound: reviews reported, benchmarks begun, dashboards asked
               \* for and faults injected, all told

(***************************************************************************)
(* insert:     an insert fails, and nothing is stored.                     *)
(* ambiguous:  an insert raises, but its rows are stored.                  *)
(* ddl:        a statement of the schema raises.                           *)
(* query:      a query raises.                                             *)
(* restart:    a process dies, with its threads and its cache.             *)
(***************************************************************************)
FaultKinds == {"insert", "ambiguous", "ddl", "query", "restart"}

Process == Server \union Run
Mode == {"tiered", "baseline"}
BenchmarkId == Run \X File \X Mode
Id == Review \union BenchmarkId

\* A benchmark has a main thread and one for each file.
Main(r) == <<r, None>>
Thread == Writer \union (Run \X (File \union {None}))

Table == {"findings", "reviews"}
Insertion == Table \X Id

\* A query by what its cache key tells apart: whose rows, None for all.
Key == ({"modes"} \X (User \union {None})) \union ({"findings", "reviews"} \X User)

RowType == [uid : User \union {None}, outcome : Outcome, completed : Nat]
Entry == [at : Nat, rows : SUBSET Id]
Answer == [key : Key, now : Nat, rows : SUBSET Id]

ASSUME WarehouseAssumption ==
    /\ Admin \subseteq User
    /\ None \notin User \union File \union RowType \union Entry \union Answer
    /\ Outcome \subseteq [status : {"done", "failed"}, found : BOOLEAN]
    /\ \A o \in Outcome : o.found => o.status = "done"
    /\ Home \in [Writer \union Reader -> Server]
    /\ Review \intersect BenchmarkId = {}
    /\ Writer \intersect (Run \X (File \union {None})) = {}
    /\ CacheS \in Nat \ {0}
    /\ MaxTime \in Nat /\ MaxInputs \in Nat
    /\ Faults \subseteq FaultKinds

VARIABLES
    clock,
    schema,  \* what there is of each table
    row,     \* what the row of a reported review says
    table,   \* per table and review, the times at which its rows were stored
    ready,   \* _schema_ready, per process
    cache,   \* _cache, per process and query
    writer,  \* threads that write
    reader,  \* requests of dashboards
    inputs,  \* what MaxInputs bounds
    faults   \* faults injected so far

vars == <<clock, schema, row, table, ready, cache, writer, reader, inputs, faults>>

-----------------------------------------------------------------------------
WriterState ==
    [pc : {"idle", "tiered", "baseline", "insert", "ensure", "open", "gone"},
     todo : Seq(Insertion), tries : 0..2, ddl : 0..3]

ReaderState ==
    [pc : {"idle", "look", "query", "store"}, user : User \union {None}, keys : Seq(Key),
     now : Nat, rows : SUBSET Id, got : Answer \union {None}]

IdleWriter == [pc |-> "idle", todo |-> <<>>, tries |-> 0, ddl |-> 0]
IdleReader == [pc |-> "idle", user |-> None, keys |-> <<>>, now |-> 0, rows |-> {},
               got |-> None]

\* Nothing yet, only the first of two statements done, tables of a version
\* without run_id, or all there is.
InitialSchemas ==
    {s \in [findings : {"missing", "ready"}, reviews : {"missing", "old", "ready"}] :
       s.findings = "missing" => s.reviews = "missing"}

Init ==
    /\ clock = 0
    /\ schema \in InitialSchemas
    /\ row = [i \in Id |-> None]
    /\ table = [t \in Table |-> [i \in Id |-> <<>>]]
    /\ ready = [p \in Process |-> FALSE]
    /\ cache = [s \in Server |-> [k \in Key |-> None]]
    /\ writer = [w \in Thread |-> IdleWriter]
    /\ reader = [q \in Reader |-> IdleReader]
    /\ inputs = 0
    /\ faults = 0

\* The environment does something, or something to the system.
Ask == inputs < MaxInputs /\ inputs' = inputs + 1
Inject(kind) == kind \in Faults /\ Ask /\ faults' = faults + 1

ProcessOf(w) == IF w \in Writer THEN Home[w] ELSE w[1]

-----------------------------------------------------------------------------
(* Reporting: emit *)

\* Bug: findings are written before the review they belong to.
FindingsFirst(i, outcome) ==
    IF outcome.found THEN <<<<"findings", i>>, <<"reviews", i>>>> ELSE <<<<"reviews", i>>>>

\* One review row, then its findings if there are any.
Insertions(i, outcome) ==
    IF outcome.found THEN <<<<"reviews", i>>, <<"findings", i>>>> ELSE <<<<"reviews", i>>>>

\* A thread goes on with what it still has to insert.
Proceed(w, todo) ==
    writer' = [writer EXCEPT ![w] =
                 [pc |-> IF todo # <<>> THEN "insert"
                         ELSE IF w \in Writer THEN "idle" ELSE "gone",
                  todo |-> todo, tries |-> 0, ddl |-> 0]]

\* The outcome of a review.  A hit has no findings of its own to report, a
\* failed review none at all.
Emit(w, i, u, outcome) ==
    /\ writer[w].pc = "idle" /\ row[i] = None
    /\ Ask
    /\ row' = [row EXCEPT ![i] = [uid |-> u, outcome |-> outcome, completed |-> clock]]
    /\ Proceed(w, Insertions(i, outcome))
    /\ UNCHANGED <<clock, schema, table, ready, cache, reader, faults>>

-----------------------------------------------------------------------------
(* Inserting: _insert and ensure_schema *)

\* emit swallows whatever is raised: a review whose row was not written does
\* not report its findings either.
Rest(todo) ==
    IF Len(todo) > 1 /\ todo[1][1] = "reviews" /\ todo[2] = <<"findings", todo[1][2]>>
    THEN Tail(Tail(todo))
    ELSE Tail(todo)

Raise(w) == Proceed(w, Rest(writer[w].todo))

Append1(insertion) ==
    table' = [table EXCEPT ![insertion[1]][insertion[2]] = Append(@, clock)]

InsertStores(w) ==
    /\ writer[w].pc = "insert"
    /\ schema[Head(writer[w].todo)[1]] = "ready"
    /\ Append1(Head(writer[w].todo))
    /\ Proceed(w, Tail(writer[w].todo))
    /\ UNCHANGED <<clock, schema, row, ready, cache, reader, inputs, faults>>

BeginEnsure(w, tries) ==
    writer' = [writer EXCEPT ![w] =
                 [pc |-> "ensure", todo |-> @.todo, tries |-> tries, ddl |-> 0]]

\* The table is missing: after the first try the schema is created, after
\* the second one that is the end.
InsertNotFound(w) ==
    /\ writer[w].pc = "insert"
    /\ schema[Head(writer[w].todo)[1]] = "missing"
    /\ IF writer[w].tries = 0 THEN BeginEnsure(w, 1) ELSE Raise(w)
    /\ UNCHANGED <<clock, schema, row, table, ready, cache, reader, inputs, faults>>

\* The table has no run_id: it is migrated once.
InsertNoSuchField(w) ==
    /\ writer[w].pc = "insert"
    /\ schema[Head(writer[w].todo)[1]] = "old"
    /\ IF writer[w].tries = 2 THEN Raise(w) ELSE BeginEnsure(w, 2)
    /\ UNCHANGED <<clock, schema, row, table, ready, cache, reader, inputs, faults>>

InsertFails(w) ==
    /\ writer[w].pc = "insert"
    /\ \/ Inject("insert") /\ UNCHANGED table
       \/ /\ Inject("ambiguous")
          /\ schema[Head(writer[w].todo)[1]] = "ready"
          /\ Append1(Head(writer[w].todo))
    /\ Raise(w)
    /\ UNCHANGED <<clock, schema, row, ready, cache, reader>>

\* analytics_ddl: CREATE findings, CREATE reviews, ALTER reviews.
Ddl(n) ==
    CASE n = 1 -> [schema EXCEPT !.findings = "ready"]
      [] n = 2 -> [schema EXCEPT !.reviews = IF @ = "missing" THEN "ready" ELSE @]
      [] n = 3 -> [schema EXCEPT !.reviews = IF @ = "old" THEN "ready" ELSE @]

EnsureEnds(w) ==
    writer' = [writer EXCEPT ![w].pc = IF writer[w].todo = <<>> THEN "open" ELSE "insert"]

\* Only what follows a NotFound trusts that this process has done it before.
EnsureCheck(w) ==
    /\ writer[w].pc = "ensure" /\ writer[w].ddl = 0
    /\ IF ready[ProcessOf(w)] /\ writer[w].tries = 1
       THEN EnsureEnds(w)
       ELSE writer' = [writer EXCEPT ![w].ddl = 1]
    /\ UNCHANGED <<clock, schema, row, table, ready, cache, reader, inputs, faults>>

\* Bug: the schema is called ready before it is.
EnsureReadyFirst(w) ==
    /\ writer[w].pc = "ensure" /\ writer[w].ddl > 0
    /\ schema' = Ddl(writer[w].ddl)
    /\ ready' = [ready EXCEPT ![ProcessOf(w)] = TRUE]
    /\ IF writer[w].ddl < 3
       THEN writer' = [writer EXCEPT ![w].ddl = @ + 1]
       ELSE EnsureEnds(w)
    /\ UNCHANGED <<clock, row, table, cache, reader, inputs, faults>>

EnsureStep(w) ==
    /\ writer[w].pc = "ensure" /\ writer[w].ddl > 0
    /\ schema' = Ddl(writer[w].ddl)
    /\ IF writer[w].ddl < 3
       THEN writer' = [writer EXCEPT ![w].ddl = @ + 1] /\ UNCHANGED ready
       ELSE EnsureEnds(w) /\ ready' = [ready EXCEPT ![ProcessOf(w)] = TRUE]
    /\ UNCHANGED <<clock, row, table, cache, reader, inputs, faults>>

\* It escapes _insert, or ends the benchmark before it has begun.
EnsureFails(w) ==
    /\ writer[w].pc = "ensure" /\ writer[w].ddl > 0
    /\ Inject("ddl")
    /\ IF writer[w].todo = <<>>
       THEN writer' = [writer EXCEPT ![w].pc = "gone"]
       ELSE Raise(w)
    /\ UNCHANGED <<clock, schema, row, table, ready, cache, reader>>

-----------------------------------------------------------------------------
(* plimsoll benchmark *)

\* ensure_schema(force=True), whatever there is already.
BenchmarkStart(r) ==
    /\ writer[Main(r)].pc = "idle"
    /\ Ask
    /\ BeginEnsure(Main(r), 0)
    /\ UNCHANGED <<clock, schema, row, table, ready, cache, reader, faults>>

BenchmarkFile(r, f) ==
    /\ writer[Main(r)].pc = "open"
    /\ writer[<<r, f>>].pc = "idle"
    /\ writer' = [writer EXCEPT ![<<r, f>>].pc = "tiered"]
    /\ UNCHANGED <<clock, schema, row, table, ready, cache, reader, inputs, faults>>

BenchmarkRow(outcome) == [uid |-> None, outcome |-> outcome, completed |-> clock]

\* Bug: a row is written as soon as its mode has ended.
EmitAtOnce(r, f, outcome) ==
    LET w == <<r, f>> IN
    /\ outcome.status = "done"
    /\ writer[w].pc \in Mode
    /\ row' = [row EXCEPT ![<<r, f, writer[w].pc>>] = BenchmarkRow(outcome)]
    /\ Proceed(w, Insertions(<<r, f, writer[w].pc>>, outcome))
    /\ UNCHANGED <<clock, schema, table, ready, cache, reader, inputs, faults>>

\* One mode has reviewed the file; when both have, both rows are written.
ModeEnds(r, f, outcome) ==
    LET w == <<r, f>> IN
    /\ outcome.status = "done"
    /\ writer[w].pc \in Mode
    /\ row' = [row EXCEPT ![<<r, f, writer[w].pc>>] = BenchmarkRow(outcome)]
    /\ IF writer[w].pc = "tiered"
       THEN writer' = [writer EXCEPT ![w].pc = "baseline"]
       ELSE Proceed(w, Insertions(<<r, f, "tiered">>, row[<<r, f, "tiered">>].outcome)
                         \o Insertions(<<r, f, "baseline">>, outcome))
    /\ UNCHANGED <<clock, schema, table, ready, cache, reader, inputs, faults>>

\* The file is excluded, with what its first mode made of it.
ModeFails(r, f) ==
    /\ writer[<<r, f>>].pc \in Mode
    /\ row' = [row EXCEPT ![<<r, f, "tiered">>] = None]
    /\ writer' = [writer EXCEPT ![<<r, f>>].pc = "gone"]
    /\ UNCHANGED <<clock, schema, table, ready, cache, reader, inputs, faults>>

-----------------------------------------------------------------------------
(* Queries *)

Stored(t) == {i \in Id : table[t][i] # <<>>}

\* What production reviews a query counts: those that are done, of the user.
Traffic(u) ==
    {i \in Stored("reviews") \intersect Review :
       row[i].outcome.status = "done" /\ (u = None \/ row[i].uid = u)}

FindingsOf(u) == {i \in Stored("findings") \intersect Review : row[i].uid = u}

Benchmarked == Stored("reviews") \intersect BenchmarkId

\* Bug: every mode has a latest run of its own.
LatestPerMode ==
    {{i \in Benchmarked : \E m \in Mode : i[3] = m /\ i[1] = pick[m]} :
       pick \in {p \in [Mode -> Run] : \A m \in Mode : \A i \in Benchmarked : i[3] = m =>
                   \E j \in Benchmarked : /\ j[3] = m /\ j[1] = p[m]
                                          /\ row[j].completed >= row[i].completed}}

\* The rows of the run that completed a review last; of one of them, on a tie.
LatestEvidence ==
    LET latest == {i \in Benchmarked :
                     \A j \in Benchmarked : row[j].completed <= row[i].completed}
    IN IF latest = {} THEN {{}}
       ELSE {{i \in Benchmarked : i[1] = j[1]} : j \in latest}

\* The rows a query may come back with; a missing table has none.
Results(k) ==
    CASE k[1] = "modes" -> {Traffic(k[2]) \union e : e \in LatestEvidence}
      [] k[1] = "findings" -> {FindingsOf(k[2])}
      [] k[1] = "reviews" -> {Traffic(k[2])}

-----------------------------------------------------------------------------
(* Dashboards: stats, insights, _rows *)

Request(q, u, keys) ==
    /\ reader[q].pc = "idle"
    /\ Ask
    /\ reader' = [reader EXCEPT ![q] =
                    [pc |-> "look", user |-> u, keys |-> keys,
                     now |-> 0, rows |-> {}, got |-> None]]
    /\ UNCHANGED <<clock, schema, row, table, ready, cache, writer, faults>>

\* /v1/stats: admins also get the numbers of everybody.
Stats(q, u) ==
    Request(q, u, <<<<"modes", u>>>> \o IF u \in Admin THEN <<<<"modes", None>>>> ELSE <<>>)

\* /v1/insights: two queries, one after the other.
Insights(q, u) == Request(q, u, <<<<"findings", u>>, <<"reviews", u>>>>)

\* Bug: the user is left out of the key.
KeyWithoutUser(k) == <<k[1], CHOOSE u \in User : TRUE>>

\* The key of a query: what it asks for, and for whom.
CacheKeyOf(k) == k

Answered(q, now, rows) ==
    reader' = [reader EXCEPT ![q] =
                 [pc |-> IF Len(reader[q].keys) > 1 THEN "look" ELSE "idle",
                  user |-> reader[q].user, keys |-> Tail(reader[q].keys), now |-> 0, rows |-> {},
                  got |-> [key |-> Head(reader[q].keys), now |-> now, rows |-> rows]]]

Await(q, pc, now, rows) ==
    reader' = [reader EXCEPT ![q] =
                 [pc |-> pc, user |-> @.user, keys |-> @.keys,
                  now |-> now, rows |-> rows, got |-> None]]

\* The clock is read before the query is made.
Look(q) ==
    LET entry == cache[Home[q]][CacheKeyOf(Head(reader[q].keys))] IN
    /\ reader[q].pc = "look"
    /\ IF entry # None /\ clock - entry.at < CacheS
       THEN Answered(q, clock, entry.rows)
       ELSE Await(q, "query", clock, {})
    /\ UNCHANGED <<clock, schema, row, table, ready, cache, writer, inputs, faults>>

\* The modes are told apart by run_id, which an old table does not have.
Query(q) ==
    LET k == Head(reader[q].keys) IN
    /\ reader[q].pc = "query"
    /\ IF k[1] = "modes" /\ schema.reviews = "old"
       THEN reader' = [reader EXCEPT ![q] = IdleReader]
       ELSE \E rows \in Results(k) : Await(q, "store", reader[q].now, rows)
    /\ UNCHANGED <<clock, schema, row, table, ready, cache, writer, inputs, faults>>

QueryFails(q) ==
    /\ reader[q].pc = "query"
    /\ Inject("query")
    /\ reader' = [reader EXCEPT ![q] = IdleReader]
    /\ UNCHANGED <<clock, schema, row, table, ready, cache, writer>>

\* Bug: the entry is stamped when it is stored.
StoreStampedLate(q) ==
    /\ reader[q].pc = "store"
    /\ cache' = [cache EXCEPT ![Home[q]][CacheKeyOf(Head(reader[q].keys))] =
                   [at |-> clock, rows |-> reader[q].rows]]
    /\ Answered(q, reader[q].now, reader[q].rows)
    /\ UNCHANGED <<clock, schema, row, table, ready, writer, inputs, faults>>

\* Whatever has been cached meanwhile is replaced.
Store(q) ==
    /\ reader[q].pc = "store"
    /\ cache' = [cache EXCEPT ![Home[q]][CacheKeyOf(Head(reader[q].keys))] =
                   [at |-> reader[q].now, rows |-> reader[q].rows]]
    /\ Answered(q, reader[q].now, reader[q].rows)
    /\ UNCHANGED <<clock, schema, row, table, ready, writer, inputs, faults>>

-----------------------------------------------------------------------------
\* A process dies.  A server starts again, with nothing; a benchmark does not.
Restart(p) ==
    /\ p \in Run => writer[Main(p)].pc # "idle"
    /\ Inject("restart")
    /\ ready' = [ready EXCEPT ![p] = FALSE]
    /\ cache' = [s \in Server |-> IF s = p THEN [k \in Key |-> None] ELSE cache[s]]
    /\ writer' = [w \in Thread |->
                    IF ProcessOf(w) # p THEN writer[w]
                    ELSE [pc |-> IF w \in Writer THEN "idle" ELSE "gone",
                          todo |-> <<>>, tries |-> 0, ddl |-> 0]]
    /\ reader' = [q \in Reader |-> IF Home[q] = p THEN IdleReader ELSE reader[q]]
    /\ UNCHANGED <<clock, schema, row, table>>

Tick ==
    /\ clock < MaxTime
    /\ clock' = clock + 1
    /\ UNCHANGED <<schema, row, table, ready, cache, writer, reader, inputs, faults>>

WriterStep(w) ==
    InsertStores(w) \/ InsertNotFound(w) \/ InsertNoSuchField(w) \/ InsertFails(w)
    \/ EnsureCheck(w) \/ EnsureStep(w) \/ EnsureFails(w)

ReaderStep(q) == Look(q) \/ Query(q) \/ QueryFails(q) \/ Store(q)

Next ==
    \/ \E w \in Writer, i \in Review, u \in User, o \in Outcome : Emit(w, i, u, o)
    \/ \E w \in Thread : WriterStep(w)
    \/ \E r \in Run : BenchmarkStart(r)
    \/ \E r \in Run, f \in File : BenchmarkFile(r, f) \/ ModeFails(r, f)
    \/ \E r \in Run, f \in File, o \in Outcome : ModeEnds(r, f, o)
    \/ \E q \in Reader, u \in User : Stats(q, u) \/ Insights(q, u)
    \/ \E q \in Reader : ReaderStep(q)
    \/ \E p \in Process : Restart(p)
    \/ Tick

Spec == Init /\ [][Next]_vars

-----------------------------------------------------------------------------
(* Properties *)

\* Every table, thread and cache entry has the shape the code gives it; no
\* entry is of a time to come.
TypeOK ==
    /\ clock \in Nat
    /\ schema \in [findings : {"missing", "ready"}, reviews : {"missing", "old", "ready"}]
    /\ row \in [Id -> RowType \union {None}]
    /\ table \in [Table -> [Id -> Seq(Nat)]]
    /\ ready \in [Process -> BOOLEAN]
    /\ cache \in [Server -> [Key -> [at : 0..clock, rows : SUBSET Id] \union {None}]]
    /\ writer \in [Thread -> WriterState]
    /\ reader \in [Reader -> ReaderState]
    /\ inputs \in Nat
    /\ faults \in Nat

InHand(insertion) ==
    \E w \in Thread : \E n \in DOMAIN writer[w].todo : writer[w].todo[n] = insertion

\* A benchmark reports the two modes of a file together.
Reported(i) ==
    /\ row[i] # None
    /\ i \in BenchmarkId => row[<<i[1], i[2], "baseline">>] # None

\* However first writes of several threads and processes race to create or
\* migrate the tables, nothing that was reported is lost unless a request
\* fails, and nothing is ever stored twice (_insert, ensure_schema).
WrittenOnce ==
    \A i \in Id, t \in Table :
        /\ Len(table[t][i]) <= 1
        /\ Reported(i) /\ faults = 0 /\ (t = "findings" => row[i].outcome.found) =>
              i \in Stored(t) \/ InHand(<<t, i>>)

\* Findings are stored with the review they belong to, whatever fails between
\* the two inserts (emit): their rates have the review in the denominator.
FindingsHaveTheirReview == Stored("findings") \subseteq Stored("reviews")

\* A dashboard shows every row stored cache_s before it was asked for: neither
\* a query that takes its time nor one that overtakes another serves older
\* numbers for longer (_rows).
FreshEnough ==
    \A q \in Reader : reader[q].got # None =>
        LET a == reader[q].got
            t == IF a.key[1] = "findings" THEN "findings" ELSE "reviews"
            due == {i \in Id : \E n \in DOMAIN table[t][i] : table[t][i][n] + CacheS <= a.now}
        IN due \intersect (IF t = "findings" THEN FindingsOf(a.key[2]) ELSE Traffic(a.key[2]))
             \subseteq a.rows

\* The production rows a user is shown are the user's own, unless an admin
\* asked for everybody's (README: isolated by uid; stats, insights, _rows).
AnswersAreYours ==
    \A q \in Reader : reader[q].got # None =>
        \A i \in reader[q].got.rows \intersect Review :
            \/ row[i].uid = reader[q].user
            \/ reader[q].got.key = <<"modes", None>> /\ reader[q].user \in Admin

\* The evidence of a benchmark is of one run, and covers the same files in both
\* modes, except what is being written or was within cache_s, if no request fails
\* (benchmark, mode_aggregates).
EvidenceIsPaired ==
    \A q \in Reader : reader[q].got # None =>
        LET a == reader[q].got
            shown == a.rows \ Review
        IN /\ \A i, j \in shown : i[1] = j[1]
           /\ \A i \in shown, m \in Mode :
                LET pair == <<i[1], i[2], m>> IN
                \/ pair \in shown
                \/ faults > 0
                \/ InHand(<<"reviews", pair>>)
                \/ \E n \in DOMAIN table["reviews"][pair] :
                       table["reviews"][pair][n] + CacheS > a.now

=============================================================================
