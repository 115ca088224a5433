# Verification of sar-plimsoll

sar-plimsoll reviews a submitted source file with language models, grounded in
a corpus of coding rules, and keeps the result.  This directory models the
parts of it that decide whether a review is run once, paid once, shown to the
right user and finished at all, and what its dashboards make of it, checks them
with TLC and proves the safety properties of the runs with TLAPS.  Paths below are
relative to `src/src/sar_plimsoll/` unless they start with `src/`.

## 1. Inventory

| Component | State it keeps | Operations | Interacts with |
|---|---|---|---|
| Submission service (`api/submission.py`) | none of its own | `submit`, `retry`, `_enqueue`, `is_stalled` | store, cache, queue |
| Task queue (`storage/queues.py`, Cloud Tasks) | named tasks, their dispatches | `enqueue_review`; dispatch, retry, redelivery | API creates, worker answers |
| Review worker (`worker/jobs.py`, `worker/app.py`) | one ledger per attempt | `process`, `emit`, `_retry_or_fail`, `_fail` | store, cache, analytics, orchestrator |
| Review store (`storage/firestore.py`, `storage/memory.py`) | review documents, daily counters, cache, ingest jobs, system metadata | `claim_review`, `reserve_daily_review`, `update_review`, `put_cache`, ... | everyone; each operation is one transaction or one write |
| Review cache (`review/cache_key.py`) | in the store | `compute_cache_key` | submission reads, worker writes |
| Rules ingest (`rules/ingest.py`, `storage/bigquery.py`) | fingerprints in memory during an ingest; the rules table; the published corpus version | `ingest`, `upsert`, `_publish_version` | store, warehouse, embeddings |
| Ingest jobs (`rules/ingest_jobs.py`, `worker/ingest_job.py`) | job documents | `submit`, `run`, `main` | Cloud Run Job with retries |
| Review orchestrator (`worker/orchestrator.py`, `rules/retrieval.py`, `review/triage.py`) | a pool per run | `run`, `_review_batch`, `retrieve` | chunking, gateway |
| Model gateway and ledger (`llm/gateway.py`, `llm/ledger.py`) | one long-lived embedding pool; a ledger per review | `classify`, `embed`, `_with_retries`, `record` | model backends |
| Chunking (`review/chunking.py`) | none | `chunk_source`, `_cover`, `_split_oversized`, `pack_batches` | tree-sitter |
| Scoring (`scoring/`) | none | `score`, `_apportion` | a pure function of the findings, called once per run |
| CSV parser (`rules/csv_parser.py`) | none | `parse_rules_csv` | what it accepts is what an ingest is given |
| Analytics warehouse (`storage/bigquery.py`, `analytics/`) | two tables; per process `_schema_ready` and a cache of query results | `_insert`, `ensure_schema`, `_rows`, `mode_aggregates`, `recurring` | the worker and the submission service write, the API reads |
| Benchmark (`cli.py`) | a thread per file | `benchmark` | the orchestrator; writes the warehouse |
| Dashboards (`api/app.py`) | none of their own | `stats`, `insights` | warehouse and its cache |
| Rule identity (`rules/identity.py`), prompts and schema (`review/`), backends (`llm/backends/`), the other routes of `api/app.py`, identity (`api/auth.py`), adapters, wiring, the other commands, web client, scripts | none that outlives a call | pure functions or I/O | |

What makes it hard, and the properties that answer it:

* **Review lifecycle.** Requests, deliveries, redeliveries, timers and dying
  processes interleave on one document, which is read in one store operation
  and written in another.  Correct means: one delivery at a time runs a review;
  a finished review stays finished; nobody exceeds the daily cap or sees another
  tenant's result; what the cache serves is what its source shows; a review is
  reported and paid a bounded number of times; every review settles.
* **Rules corpus.** An ingest commits checkpoint by checkpoint, may die
  anywhere and is tried again; reviews are cached under the version published.
  Correct means: the version never counts rules that are not there, lags by a
  bounded amount, is that of the table when nobody ingests; a retry resumes; a
  job that is reported done is done; a cache hit is grounded in the rules there
  are.
* **A run of the pipeline.** Parallel batches succeed, escalate, are tried
  again, fail; one failure decides.  Correct means: the one that decides does
  not depend on timing; everything answered is paid for before the cost is
  read; the run ends.
* **The result of a run.** Vectors come back in requests and for the chunks
  that have text only; chunks overlap in rules and batches in chunks; a model
  names lines and rules as it likes.  Correct means: each batch is offered the
  closest rules of its own chunks; a finding only cites what its batch was
  offered; what is deducted adds up, is fair, and never shrinks when more of the
  file has been reviewed.
* **The warehouse.** Several threads and processes find the tables missing, or of
  an older version, and create or migrate them in the middle of an insert; the
  two inserts of a review may fail one by one, and whatever fails is swallowed;
  one cache serves everybody, filled by queries that overlap.  Correct means:
  what is reported is stored once; findings have their review; a dashboard shows
  its own user's rows, none older than the cache allows to be missing, and a
  benchmark that compares the same files.
* **Files of rules.** A faulty row must cost neither another row nor its id, and a
  job that is done has told what became of each row of its own file.
* **Chunking.** Arithmetic on line numbers of a parse tree that may overlap,
  leave holes and end past the file.  Correct means: the models see every line
  once, in batches that fit, with the rules of the chunk they come from.

`PROJECT.json` lists the hazards one by one, at the line where each bites, with
the properties that would catch it.

## 2. Plan

Written, in this order (most important first):

1. `ReviewLifecycle`, with `MCReviewLifecycle` for TLC, then
   `ReviewLifecycleProofs`.
2. `RulesCorpus` (ingest, jobs, version, and the reviews that use it), then
   `RulesCorpusProofs`.
3. `Chunking`, then `ChunkingProofs`.
4. `ReviewRun`, the abstract promise of a run to the worker, and `BatchReview`,
   the orchestrator and the gateway, which implements it; then
   `BatchReviewProofs`, with the refinement.
5. `ReviewResult` with `MCReviewResult`: what retrieval, validation and scoring
   make of the batches; then `ReviewResultProofs`.
6. `CsvRules`, the parser, and `CsvIngest` with `MCCsvIngest`, which puts it to work
   in the attempts of `RulesCorpus`, with a file for each job.
7. `MCReviewProgress`: that every review settles, with a history variable for
   whether it may need its user's help; then `ReviewProgressProofs`.
8. `Warehouse`, with `MCWarehouse` for TLC, then `WarehouseProofs`.
9. `FiniteSums`, the lemmas on sums and ranks that the proofs share.
10. `ReviewService`, the abstract service that `ReviewLifecycle` implements in a
    timely environment, with the refinement in `ReviewLifecycleProofs`.
11. `MCChunking`: `Chunking` on files whose lines end in more ways than one.

Left, in this order:

1. The packing of texts by `_batches` of the gateway, with theorems like those of
   `Chunking`.
2. The sums of the dashboards (`analytics/stats.py`, `analytics/insights.py`)
   against reference definitions over the rows of `Warehouse`.
3. A measure for the steps of a review, like those of runs and jobs.

Composition: `ReviewLifecycle` implements `ReviewService`; it has the outcome of
a run as a choice, which `ReviewRun` describes and `BatchReview` implements; the
batches of `BatchReview` are those of `Chunking`, and `ReviewResult` is what
they carry, in the order in which `BatchReview` awaits them; `CsvIngest` composes
`RulesCorpus`, whose jobs merge what is accepted of a file, with `CsvRules`, which
says what that is; `RulesCorpus` lets the corpus version move
that `ReviewLifecycle` holds fixed.  `ReviewLifecycle` says how often a review
is reported (`ReportedOnce`); `Warehouse` takes it from there, so it reports
each of its reviews once.

## 3. Modules

### ReviewLifecycle

One variable per store collection (`review`, `cache`, `usage`, `rows`), one per
kind of process (`api`: requests, `work`: deliveries), the queue (`tasks`, by
review and generation, because a task is named `review-{id}-g{generation}`),
`stalled` for the age of the last (re)queue, and `spent`, a history variable
of what the runs of a review cost.

An action is one store or queue operation with the code up to the next one:

| Action | Code |
|---|---|
| `SubmitLookup`, `SubmitCached`, `SubmitEmit`, `SubmitReserve`, `SubmitCreate`, `Enqueue`, `EnqueueUndo` | `submit` and `_enqueue` |
| `RetryRead`, `RetryWrite` | `retry`; the read of the status and the blind write are two steps, as in the code |
| `Deliver`, `Redeliver`, `Requeued`, `Completed` | Cloud Tasks: named tasks, at least once, `max_attempts` of `src/infra/main.tf` |
| `Claim`, `RunDone`, `PutCache`, `WorkerEmit`, `RunFailed`, `RunTransient`, `Respond` | `process`, `_retry_or_fail`, `_fail`, `emit`, and the answer of the route |
| `HandlerAborts`, `WorkerAborts` | a process dies, or a storage error escapes (a 500) |
| `LeaseExpires`, `StallElapses` | time passes |

Faults are named (`FaultKinds`) and injected at most `MaxFaults` times, so that
a run says which of them it allows.  Four kinds of them are not failures but
bad timing: a lease shorter than its run (`overrun`), a stall window shorter
than the progress of a review (`stall`), a retry beside another request
(`retryRace`), a redelivery (`duplicate`).

`MCReviewProgress` adds the history variable `mishap`: a process died, or a
delivery was repeated.  Until then a review settles by itself; afterwards a user
may have to retry it.

A content stands for a file, a language and a corpus version; results are named
by the claim that made them (`Run`), so a property can ask where a result came
from.

### ReviewService

What a user is promised, without queue, leases or workers: one variable, `shown`,
and the five things that may happen to a review.  It is accepted within the
daily cap (`Accept`), or served at once the result of an equal one that is done
(`Serve`); it then waits until it shows a result of its own (`Finish`) or has failed
(`GiveUp`), and a review that failed may be run again (`Retry`).  There is no
step from done to anything, and no way back from a result to waiting.
`ReviewLifecycle` maps to it by `Shown`, what the API gives out of the documents
(`_PUBLIC_FIELDS`): the status, in which queued and running are both pending, the
owner, the content, whether it counts for the cap, and the result of a done
review.  Claims, leases, redeliveries and attempts given back are stutters; a
reservation is not shown until its review is stored.

### RulesCorpus

A corpus is a map from rule ids to texts (or `None`).  `table` is the rules
table, `published` the corpus of which the version was published, `exec` the
execution of a job with the fingerprints it has in memory (`state`) and what it
has left to embed (`todo`).  `Upsert` is one checkpoint: embed, merge, and bring
the memory up to date; its failing disjuncts break the loop off before and after
the merge.  `PublishCheckpoint` and `PublishFinal` publish what is in memory,
never what is in the table: that is the code, and the reason for `InStep`.
A job's file is in `blob`, the blob store; `File` are the files there may be and
`Accepts` what the parser takes from each, any function to corpora here.  `upload` is
what the attempts of a job then merge.  `corpus_cache` takes the corpora themselves
for files.
`ReviewSubmit` pins a version, `ReviewRetrieve` retrieves from the table as it is
then, `ReviewFinish` caches under the pinned version.
`JobSteps` counts the steps a job may still take: those of its request, those of
the attempts it has left, and those of the attempt it is in, two for each checkpoint
and a few others.

### CsvRules and CsvIngest

A file is the sequence of rows `csv.reader` yields; a row is what the parser
tells apart (no content, too few cells, an id that is missing or too long, a
text that is) or the place where the reader raises.  `Parse` is the loop as a
recursive function of the number of rows read, with the checks in the order of
the code; `EveryRowCounts` compares it with a definition that looks at the whole
file at once.  Both stop where the reader raises (`Reached`): the rows after it are
nobody's, which is the finding `csv_broken`.

`CsvIngest` puts the two together: a file of `RulesCorpus` is a sequence of rows, and
`Accepts` what `CsvRules` accepts of it.  `DoneHasItsRows` then relates what a job has
left in the table when it is done, however many attempts it took, to the rows of its
own file.  (The document of a job counts the rejected rows and shows the first
hundred; the model has them all.)

### Chunking

Each action is one turn of one of the loops of `review/chunking.py`.  A line is
its length, a chunk its first and last line; the parse is any sequence of
top-level nodes in file order (`Parses`), which may share a line, and, if
`PastEnd`, may end one line past the file (a node that includes its newline).
Rows of the tree and lines of the file have one numbering here, as `chunk_source`
has it.  `MCChunking` tells them apart: `OtherBreaks` are the lines that end in a
break of `str.splitlines` that starts no row (a form feed), `RowOf` the row a line
is on.  With none of these the numberings agree; with one, `chunk_rows` is violated.

### ReviewRun and BatchReview

`ReviewRun` is what the worker counts on when it calls `run`: one outcome,
each call paid once, no result for a file of which a batch was not reviewed, and
nothing paid after the end, but for the calls of `Late`, which a run that fails may
leave under way.  For `BatchReview` these are the embeddings, if there is more
than one batch of them (`LeftBehind`).  `BatchReview` has a task per batch of
embeddings and per batch of the file, the threads that take them, and `run`,
which awaits their results in order, as `Executor.map` does.  A single batch of
embeddings is not given to the pool but run by the caller; as nothing else runs
then, it is a task like the others here.  `MayStart` is the pool: a thread that is
free takes the first task that waits.  `Refuse` is an answer that was paid for and
raises on the way to the ledger: a model without a price (`llm/pricing.py`), or a
wrong number of vectors found by the backend (`llm/backends/vertex.py`); every
other answer is recorded before anything is made of it (`Book`).

### ReviewResult

The data of the same run.  `Search` draws a distance for each text and rule,
embeds the texts that are not blank in the requests `_batches` makes, and hands
the hits back to their chunks; a text stands for its vector.  `ReviewBatch` takes
the batches in order, because their results are awaited in order: the closest
rules of the chunks of the batch, any of the constant `Answers`, `_validate`,
`_dedupe`.  A finding's id is the tuple `finding_id` hashes.  Points are natural
numbers (`Weight`), and the exponential is a table (`Curve`) in thousandths,
as `_apportion` splits; the theorems do not depend on its values.

### Warehouse

`schema` is what there is of each table (`old` is a `reviews` table without
`run_id`), `table` the times at which the rows of each review were stored, `row`
what they say.  `ready` and `cache` are `_schema_ready` and `_cache` of each
process.  A `writer` is a thread that reports: `todo` is what it has still to
insert, `tries` which of the three attempts of `_insert` it is at, `ddl` the next
statement of `ensure_schema`.  A `reader` is a dashboard being answered: `keys`
are its queries still to come, `got` is what the last one showed.

| Action | Code |
|---|---|
| `Emit` | `emit`: what one review reports, the row first |
| `InsertStores`, `InsertNotFound`, `InsertNoSuchField`, `InsertFails` | the three attempts of `_insert`; a failed one loses the row of a review together with its findings |
| `EnsureCheck`, `EnsureStep`, `EnsureFails` | `ensure_schema`, one statement at a time |
| `BenchmarkStart`, `BenchmarkFile`, `ModeEnds`, `ModeFails` | `benchmark`: two modes per file, whose rows are kept until both have ended |
| `Stats`, `Insights` | the routes; an admin's `stats` asks for everybody's numbers too |
| `Look`, `Query`, `QueryFails`, `Store` | `_rows`: the clock, the cache, the query and the new entry are four steps |
| `Restart`, `Tick` | a process dies with its threads and cache; time passes |

An aggregate stands for the set of rows it counts, so what a dashboard shows can
be compared with what is stored.

## 4. Runs

All runs end well under five minutes.  `Faults` in a cfg names what may go
wrong, `MaxFaults` how often.

| Run | Instance | Shows |
|---|---|---|
| `lifecycle_faults` | 2 users (one exempt), one content, 2 reviews, 2 requests, 2 deliveries, 2 attempts, cap 1, tenant scope; no retry by a user (`MaxGeneration` = 0), any 3 faults of 7 kinds | `SpendBounded`: a delivery pays for at most one run; `ResultBelongsToSubmission` through chains of cache hits; `QuotaRespected` however requests interleave and die |
| `lifecycle_exclusive` | 2 reviews of one content, 2 requests, 2 deliveries, 1 retry; crashes, redeliveries, failing analytics, 2 faults | `ExclusiveProcessing`, `DoneIsFinal`, `CacheMatchesSource`, `ReportedOnce`, `ServiceAsPromised` (the refinement of `ReviewService`) |
| `lifecycle_progress` | 1 review, 2 deliveries, 2 retries; crashes, redeliveries, failing enqueues and analytics, 2 faults; fairness, and users who retry | `NeverStalledUnprovoked`: only a crash or a redelivery leaves a review stalled; `EventuallySettles`: each settles, then with its user's help; `SpendBounded` over two retries |
| `corpus_resume` | 2 jobs, one at a time, 3 rules (one a header's id), 2 texts; the files are a clean one for each corpus and all of up to 2 rows about one id, faulty, doubled and breaking rows included; checkpoints of 1, 2 attempts; crashes, dying requests, failing storage, embedding, merge and launch, 2 faults; symmetry of texts | the safety properties of ingest (`TypeOK`, `PublishedRulesExist`, `NothingEmbeddedTwice`, `LagIsBounded`, `DoneIsComplete`, `DoneJobIsFinal`); `DoneHasItsRows`: what a done job has merged and reported is true of its own file; `JobsRunOut`: no job goes on for ever |
| `corpus_cache` | 2 jobs, 2 rules, 2 texts, 2 reviews, 2 attempts, 2 faults; fairness | `SettledIsPublished`, `HitIsGrounded`, `JobSettles` |
| `chunking` | up to 4 lines of 3 lengths, up to 3 nodes, ends past the file | `BatchesCover`, `BatchesFit`, `PiecesHaveTheirChunk`, `DefinitionsAreChunks` |
| `run_batches` | 2 batches of embeddings on 2 threads, 3 batches on 2 threads, 2 attempts; fairness | `FirstFailureDecides`, `AnsweredIsBooked`, `RunsAsPromised` (the refinement), `RunEnds` |
| `review_result` | 3 batches of 2 chunks that overlap, 3 rules, 5 answers | `OffersTheClosest`, `GroundingIsProvable`, `DeductionsSplitFairly`, `MoreNeverBetter` |
| `warehouse` | 2 users (one an admin), 2 reviews, 2 benchmarks of one file, 1 server with 2 reporting threads and 2 dashboards, 4 states of the tables; any 3 of reviews, benchmarks, dashboards and 5 kinds of faults | `WrittenOnce`, `FindingsHaveTheirReview`, `FreshEnough`, `AnswersAreYours`, `EvidenceIsPaired` |
| `corpus_stale_hit` (violated) | 3 jobs, 1 rule, 2 texts, 2 reviews, one review beside an ingest | refutes `HitIsGrounded` where reviews may run beside ingests |
| `chunk_past_end` (violated) | up to 2 lines, 1 node, which may end past the file | refutes `ChunksCover` |
| `late_embedding` (violated) | 2 batches of embeddings, one batch, 1 attempt | refutes `CostIsFinal` |

Twelve more instances are kept beside these runs, one for each case in which a property
fails that a reader might expect to hold (section 6).

Why the bounds are enough.  Two deliveries and two requests are needed for any
race here, because every race is between two actors on one document; a third
one repeats what one of the two may do.  Two attempts make one that is the last
and one that is not, and one retry makes two generations.  Three rules with
checkpoints of one have a first, a middle and a last checkpoint.  Three nodes
have a predecessor and a successor that overlap the middle one; lengths 0, 20
and 60 with a limit of 45 are a blank line, one of which two fit a batch and a
blank line no longer does, and one that does not fit.  Three batches on two threads
have one that waits.
Two rows about one id have a faulty row and a good one, two good ones, or one before or
after the row the reader breaks at; a clean file of a header's id alone begins with
what is taken for a header.  Texts are told apart and nothing else is asked of them, so
they may be permuted.
A rule that
two chunks of one batch retrieve at different distances, a chunk that two batches
review, and the same finding with and without confidence are in the instance of
`MCReviewResult`.
In `warehouse` the environment acts `MaxInputs` = 3 times: two writers that find
the tables missing at once and a dashboard that looks, two dashboards of two users
and the review one of them must not see, two benchmarks and a dashboard, or a
review, a fault between its inserts and a dashboard.  One tick with `CacheS` = 1 is
enough for an entry to be served, to expire, and to be stamped before a row it
does not have.  What
does not depend on a size is proved for every size (section 5).

Fairness.  Weak fairness of a request, a delivery, an execution or a thread
means that a live process goes on; a dead one is a fault, and the liveness runs
name the faults they allow.  Weak fairness of `Deliver` is Cloud Tasks
dispatching a ready task; of the timers, that time passes.  In `RunEnds` a call
returns or times out (`llm_timeout_s`), so a task takes steps.  Nothing obliges a
user to submit; `lifecycle_progress` has users who do retry a review they find
stalled (strong fairness, since it may be stalled on and off), which asks what
retrying achieves.  Until a process dies or a delivery is repeated nobody has to:
`NeverStalledUnprovoked` says in the same run that there is nothing to retry.
After such a `mishap`, `EventuallySettles` stops at `MaxGeneration`, which bounds
the retries of the model, not of the code.

Deadlock is not checked where the system may stop: when all reviews are settled,
all jobs are over, or the run has ended.  `chunking` checks it.

## 5. Theorems

| Theorem | For every | Under |
|---|---|---|
| `TypeCorrect`, `RunningLeased`, `ResultsBelong`, `QuotaHolds` | users, reviews, requests, deliveries, faults | nothing |
| `SpendingIsBounded` | the same | `SpendAssumption`: some run is the most expensive one |
| `OwnershipHolds`, `ExclusiveHolds`, `DoneStaysDone`, `CacheHolds`, `ReportsHold`, `LifecycleServes` | the same | `TimelyEnvironment` |
| `StallsAreProvoked` | the same | `Reported`, `QueueOutlasts` |
| `CorpusTypes`, `PublishedExist`, `JobsAlwaysRunOut`, `NextCheckpointExists` | rules, texts, jobs, reviews, faults | nothing: overlapping ingests too |
| `EveryRowIsCounted` | files of any length | nothing |
| `IdleJobsAreOver` | the same | `ProcessesLive` |
| `DoneJobStays` | the same | `LaunchIsClear` |
| `InStepHolds`, `EmbeddedOnce`, `DoneComplete`, `LagHolds` | the same | `OneAtATime` |
| `JobsAreWellRead` | the same, with files of any length | `OneAtATime` |
| `SettledHolds` | the same | `SmoothIngest` |
| `HitsAreGrounded` | the same | `SmoothIngest`, `NoRace` |
| `BatchesAlwaysCover`, `LoopsCover`, `PiecesAlwaysHaveTheirChunk`, `DefinitionsAreAlwaysChunks`, `BatchesAlwaysFit` | files, parses, sizes of any length | nothing |
| `ChunksAlwaysCover`, `ChunkingNeverRaises` | the same | `~PastEnd` |
| `RunTypes`, `FirstFailureAlwaysDecides`, `OnlyEmbeddingsAreLate`, `AnsweredIsAlwaysBooked`, `RunImplementsPromise`, `WorkAlwaysRunsOut`, `RunMayGoOn` | batches, threads, attempts | nothing |
| `CostIsFinalAfterOne` | the same | `OneEmbedding` |
| `ResultTypes`, `OffersAreClosest`, `GroundingHolds`, `FindingsStayInFile` | chunks, rules, distances and answers | nothing |
| `MoreIsNeverBetter`, `DeductionsAreFair` | the same, weights and curves | `CurveIsTotal` |
| `WarehouseTypes`, `FindingsAreBacked`, `DashboardsAreOnesOwn`, `DashboardsAreFresh`, `WritesHold`, `EvidenceHolds` | users, servers, threads, benchmarks, faults | nothing |

The hypotheses, and what they exclude.
`TimelyEnvironment`: leases and stall windows outlast what they guard, retries
come one at a time and `create_task` does not fail; crashes, redeliveries and
lost answers are allowed.  `Reported` is the same without its first and fourth
part: a lease may be overrun, an enqueue may fail, but not so that the task is
there all the same.  `QueueOutlasts`: the queue tries a task at least as often as
the worker asks for (`config.py:69` and `src/infra/main.tf:133` both say five;
were the queue to give up first, a review would wait for a delivery that does
not come).  `OneAtATime`: jobs do not overlap; `SmoothIngest` moreover that nothing
fails between a merge and its publication; `NoRace` that reviews do not run
beside ingests, without which `corpus_stale_hit` refutes the property.
`LaunchIsClear`: `run_job` does not both raise and start an execution.
`ProcessesLive`: no request dies before it has launched its job, and no execution
dies; storage, embeddings, merges, launches and jobs that overlap may still fail
it.
`OneEmbedding`: the chunks fit one batch of embeddings, without which
`late_embedding` refutes `CostIsFinal`; what the worker is promised (`ReviewRun`)
holds with any number of them.  `SpendAssumption` is what the caps on
tokens give (`config.py:43`).  `CurveIsTotal`: the curve has a value for every
number of points, as `_curve` has; the table in `MCReviewResult` only goes as far as
the points of its instance.

*Lifecycle.*  `ExclusiveProcessing` is not inductive: a claim looks at the
status and the lease only, so the invariant has to say who may have a review in
hand.  `SoleOwner` does, in five parts: requests hold reviews one at a time
(`HeldOnce`); a submission writes an absent review and a retry finds what it
read (`RequestsAreCurrent`); a stalled review has no delivery and no task
(`StalledIsQuiet`); who processes a review has its live lease (`LeaseIsHeld`);
and nobody else does.  `DoneIsFinal` is then an action property of that
invariant: every blind write is made by an owner that finds what it expects.
Each exclusion of `TimelyEnvironment` is needed: without any one of them TLC finds
two deliveries on one review or a done one taken back.

`ResultBelongsToSubmission` follows results through the cache: `Blank`, `Opened`
and `Stored` say that a review nobody has stored has left no trace and that the id
a request has drawn is its own, and `Traced` that every result, wherever it is kept or
carried, was made by a run of a review that is stored and has the same key.  A
reservation comes before its review, so `QuotaInv` counts both (`Charged`).
`CacheMatchesSource` needs the run a delivery is about to cache to be the one its
review shows (`AboutToCache`), which `SoleOwner` keeps.  `ReportedOnce` is two
invariants, because a done review has one report for good and a failed one has
one for each generation that failed (`DoneReportsInv`, `FailureReportsInv`).
`SpendInv` says that a delivery in hand has not paid yet: what is spent, and what
the deliveries in hand may still spend, stays within the dispatches; it holds
even when two of them run the same review.

*Service.*  `LifecycleServes` is the sum of these.  A step that writes a document
is `Accept`, `Serve`, `Finish`, `GiveUp` or `Retry`, and every other one a stutter.  That it
is the right one needs what has been said of who may write: a delivery finishes or
gives up a review that is still running, because it is its only owner
(`SoleOwner`); a retry finds the failed or stalled review it has read; an accepted
review had a place in the cap when it was reserved, and still has it when it is
stored (`QuotaInv`).  For `Serve` the result that a request found in the cache has to
be that of a review that is done, equal, and in its user's scope, and still so
when the request is answered (`HitInv`), which `DoneIsFinal` keeps.  A stalled review is
retried without having failed: it was shown as pending and is again, a stutter.

*Progress.*  Until a mishap every review that is not settled is in somebody's
custody (`Custody`): a request that is to enqueue it and it has no task yet
(`Handled`), a delivery that holds the task of its generation (`Worked`), or that
task, which is ready (`Tasked`).  `Carried` says that there is one of these for each
review that is queued or running, so none is marked as stalled.  It needs
attempts and dispatches to be in step, which `QueueOutlasts` turns into one more
delivery for each attempt that the worker gives back.

*Corpus.*  What is published is what an ingest has in memory, so both the table
and the memory have to be related: `RulesAreKnown` (what memory and version name,
the table has) holds under overlaps, because the table never loses a rule, and
gives `PublishedExist`.  `IngestsInStep` adds that the only ingest at work has
the table in memory, up to a merge whose result it did not see, and gives the
next two.  `LagIsBounded` counts: a job that is about to publish adds one to the
lag and takes it back, a failure leaves it (`LagInv`).  When nothing fails in
between, the published version is the table whenever no job is between the two
(`PublishedInv`); a review that runs beside no job then sees what it pinned
(`Grounded`).  A done job stays done because whoever could still write it has
finished (`DoneIsLeft`), and it is launched once (`LaunchedOnce`).

*Why a job ends.*  `JobSteps` falls with every step of a job, whatever fails
(`JobStepsFall`): a checkpoint takes rows out of `todo`, which never gets them back
within an attempt, and an attempt that is begun again is one of the attempts left.
Nothing else moves a job (`JobMovesOn`).  As long as rows are left there is a
next checkpoint (`NextCheckpointExists`: a part of any size that is wanted, new
rules first).  And where processes live, a job that nothing works on has its final
status (`StatusIsKnown`, `IdleJobsAreOver`).  Together these are `JobSettles`, but for
the fairness that makes a process that can go on do so.

*Files of rules.*  `Parse` is a recursive function of the number of rows read, so
what it returns is shown row by row with `Counting` of `FiniteSums`: after each row,
what has been accepted, skipped and seen is what the file says of the rows so far
(`ParsesTo`), and ids are told apart (`ToldApart`).  `EveryRowCounts` is its last row.
`JobsAreWellRead` joins this with the jobs: a job that somebody has submitted has a
file, and what it merges is what the parser accepts of it (`UploadsAreParsed`,
`FilesHold`), because no other step writes either (`FilesStay`); when it is done the
table has all of that (`DoneComplete`), and the kept rows of the file are what is
accepted (`KeptIsAccepted`).

*Chunking.*  `CoveredSoFar` says of each loop that it has tiled the file up to
where it is; `InBounds` where it can be.  Chunks may reach one line past the
file; but pieces are cut line by line, so the loop raises before it makes one
that does, and batches are exact whenever they are made at all.  A piece is cut
from one chunk (`Cut`), and as chunks are in order, all of them and not only
neighbours (`InOrder`), the first one that reaches a line of the piece is that one.
A definition that no other node touches is found as it is (`Scanned`), and the
loops that fill the holes do not pass a chunk without taking it (`NotPassed`).
`SizesInv` relates the running totals of both loops, which count the newlines of a
piece in different ways, to the lengths of the lines.

*Run.*  The results are awaited in order (`InOrder`), so all that is before the one
that failed has succeeded whatever happened in time (`Decided`); a thread that
answers has paid (`Settled`).  Once a run is closing no batch starts,
and none is at work when it is over (`Shut`); embeddings are not waited for, which is
what `Late` is for, unless there is one batch of them only, and that is over when `run`
goes on (`EmbedsOver`).  The refinement follows: a step that pays is `Pay`, the last one is
`End`, the others stutter, and what pays after the end of a run is an embedding that
a failed one has left behind, of several (`LatePayments`).

*Why a run ends.*  `StepsLeft` adds up what every task has still to do, which
attempts and escalations bound, and what `run` has.  A step of a task takes from its
own share and no other (`TaskStepsFall`); a step of `run` takes from its own, and
gives no task more to do (`TaskStepsStay`).  So no step is taken twice
(`WorkAlwaysRunsOut`).  `RunMayGoOn` says that it does not get stuck on the way
either: what `run` awaits is done, failed, at work, or waits for a thread
(`Waiting`), and then the first task that waits can start or a thread is at work
(`FirstMayStart`).  With fairness this is `RunEnds`.

*Result.*  What a batch was offered and what came of it are appended together, so
`Paired` keeps the two sequences in step; with that, what `_validate` ensures of
one finding holds of each, whatever retrieval did.  `RetrievalInv` says which
vectors are there (`Embedded`: those of the first texts that are wanted, in order,
however requests are packed), that the hits of a chunk are those of its own text
(`Retrieved`), and that an offer is made of them (`Offered`).  That an offer is as
large as it may be, and that as many findings are rounded up as there are
thousandths left, is one lemma of `FiniteSums`: in a finite strict order, n
elements have a rank below n (`RanksBelow`); closer hits and larger remainders,
ties decided by id and place, are such orders.  The remainders of the findings sum
to the thousandths left times the total, and each is smaller than the total, so
there are enough findings with a remainder to take them: what has no weight is
never rounded up (`RemainderFits`).  More findings never deduct less because the
first of those with one id stays, so a later batch only adds (`UniqueGrows`).

*Warehouse.*  `FindingsHaveTheirReview` needs to know what is still to be inserted:
`Orderly` says that findings come right after their review, or that it is stored,
which survives an insert that goes through (`OrderlyTail`) and one that fails and
takes the findings along (`OrderlyRest`).  What a dashboard shows was known when
its query was made, so `Told` says of each cache entry, each result not yet stored
and each answer that it has every row stored before its time (`Seen`) and only
rows of its user (`Own`).  `SeenKept` carries that over every step: tables only
grow, by rows of the present time (`Grown`), and the row of a reported review does
not change.  That an older result may replace a newer entry does not matter,
since an entry carries the time at which it was asked for.
`WrittenOnce` needs that what is to be inserted is in one place and not stored yet
(`Once`), and that every attempt but the first finds tables with the fields it writes
(`Migrated`), unless a request failed (`NoneLost`).  `EvidenceIsPaired` adds that the
two modes of a file are reported together, when both have ended (`Matched`), and
that what a dashboard shows of a benchmark is of one run and, if it was stored in
time, has its counterpart (`Shows`).

*Sums.*  `MapThenSumSet` is a fold, and so a recursive function on subsets.
`FiniteSums` shows what it computes without an induction theorem: a smallest
subset, or number, for which it would be wrong leads to a smaller one
(`BySubsets`, `Counting`).

Only model-checked: liveness (`EventuallySettles`, `JobSettles`, `RunEnds`), which
is out of the prover's reach like everything with `ENABLED`, though of the last two
only the use of fairness is left to TLC; and of course the properties of the runs
that are violated.  Every invariant and action property of the passing
runs is a theorem.  Some theorems go beyond the runs: `TypeCorrect` (of the lifecycle),
`RunningLeased` (a running
review has a lease, so it can be claimed later), `WarehouseTypes`, `WorkAlwaysRunsOut`,
`RunMayGoOn`, `IdleJobsAreOver` and `NextCheckpointExists` are not checked by TLC as well.
The constants of the theorems are
any that satisfy the assumptions of their module, which TLC evaluates in every run.

## 6. Findings

Three runs of `PROJECT.json` are violated, each against the line it quotes:

* `corpus_stale_hit`: a review is cached under the version it pinned at
  submission but retrieves from the table as it is when it runs; after an ingest
  in between and another that restores the rules, the entry is hit.
* `chunk_past_end`: `_cover` promises that chunks cover every line exactly once,
  but never cuts a chunk at the end of the file.  A node that includes its
  newline (a C function-like macro) at the end of a file makes a chunk of one
  line too many, and `_split_oversized` raises `IndexError`: the review is tried
  again as an internal error, and fails.
* `late_embedding`: with more than one batch of embeddings, one that is with the
  model when another one fails is recorded in the ledger after the cost of the
  failed review was written from it.  Of what is recorded late, `RunsAsPromised`
  allows these embeddings and nothing else.

The other instances are kept beside the runs.  TLC refutes the property of each when it
is run by hand, `tlc -config <name>.cfg <module>`; each is as small as the case allows,
with only the faults it needs, and shows why a run above leaves these faults out.

With `MCReviewLifecycle`:

* `lifecycle_overrun` refutes `ExclusiveProcessing`: a run that outlives its lease is
  joined by a later delivery, which is not skipped; each writes its result.
  (`src/docs/ARCHITECTURE.md:662`: "later deliveries are skipped".)
* `lifecycle_stall` refutes `ExclusiveProcessing`: `is_stalled` never looks at the
  lease.  A review that waited for the stall window and is being run can be retried,
  and is then run twice.  (`src/docs/ARCHITECTURE.md:666`: "stuck in queue".)
* `retry_race` refutes `DoneIsFinal`: of two retries that read the same failed review,
  the second one resets what the first one's delivery has done.
  (`api/submission.py:161`: "only failed or stalled reviews can be retried".)
* `enqueue_ambiguous` refutes `NotEnqueuedIsNotRun`: `create_task` may raise when the task
  was made; the review is failed as not enqueued while a worker has it.
  (`api/submission.py:185`: "could not enqueue review".)
* `lost_ledger` refutes `FailedShowsSpend`: each attempt has a ledger of its own and a
  transient one is dropped, so a review that fails in the end shows the cost of its last
  attempt.  (`worker/jobs.py:175`: "Failed reviews still spent money; keep that visible".)

With `MCReviewProgress`:

* `retry_unqueued` refutes `NeverStalledUnprovoked`: the two retries compute the same
  generation, so the second one makes no task, because the name is taken, and the review
  waits for nothing.  (`src/docs/ARCHITECTURE.md:666`: retrying "re-enqueues with a new
  task generation".)

With `MCRulesCorpus`:

* `ingest_overlap` refutes `SettledIsPublished`: overlapping ingests each publish their
  own view of the table; the last one wins.  (`src/docs/ARCHITECTURE.md:612`: the version
  "is a hash of every rule's ID".  The same happens when `upsert` raises after its merge,
  fault `merge`.)
* `job_abandoned` refutes `JobSettles`: an execution that dies on its last attempt
  leaves its job running for good, and whoever polls it polling (`src/README.md:310`:
  "polls until done").  (A request that dies before it launches an ingest leaves it
  queued, fault `abort`.)

With `MCCsvIngest`:

* `csv_broken` refutes `BadRowsAreNeverFatal`: a field longer than
  `csv.field_size_limit` makes `csv.reader` raise, and the rows after it are neither
  rules nor reported.  (`rules/csv_parser.py:5`: "Bad rows are reported, never fatal".)

With `Chunking`, `MCChunking` and `BatchReview`:

* `batch_limit` (`Chunking`) refutes `BatchesWithinLimit`: neither `_split_oversized` nor
  `pack_batches` counts the newline between two pieces that are packed together, so a
  batch may be larger than the limit by one character for each.  `BatchesFit` allows for
  these.  (`src/DECISIONS.md:293`: "up to `batch_max_chars`".)
* `chunk_rows` (`MCChunking`) refutes `DefinitionsKeepTheirLines`: `chunk_source` takes
  rows of the parse tree, which begin at newlines, for indexes of `splitlines`, which also
  breaks at form feeds and the like; after one of these a chunk is not the definition it
  is named for.  `_cover` hides this, as every line still is in one chunk.
  (`review/chunking.py:1`: "function/class-level chunks".)
* `unbooked_call` (`BatchReview`) refutes `EveryCallIsBooked`: an answer whose model has
  no price, or that misses vectors, raises before it is recorded.  `AnsweredIsBooked`
  speaks of all other answers.  (`llm/ledger.py:1`: "Every billable call appends one
  entry".)

Met while modelling, and visible in the models by allowing the fault or stating
the property named:

* A worker that dies while it runs a review leaves the lease live.  The
  redelivery is answered "skipped" with 200, which completes the task: nothing
  will take the review up until a user retries it after the stall window
  (fault `abort`; this is why `EventuallySettles` speaks of a `mishap`).
* A review that is failed because `create_task` raised gets no analytics row.
* A review that failed is not counted by `mode_aggregates`, so what it cost is
  not in the cost of any dashboard, although `worker/jobs.py:175` records it for
  that.
* `mode_aggregates` takes the rows of the latest benchmark run whatever state the
  run is in: while its rows are being written, or when one of them was lost, the
  two modes cover different files (`EvidenceIsPaired` excludes just that).
* Two queries for one key may overlap, and the older result then replaces the newer
  entry: a dashboard can go back in time, within `cache_s`.
* `insights` divides findings by reviews from two queries, cached separately: the
  two may be of different moments.
* `_rows` takes a missing table for an empty one, but a `reviews` table without
  `run_id` makes `stats` fail until the first write has migrated it.
* `_dedupe` keeps the first of two findings with one id, whatever their
  confidence: a finding an earlier batch was unsure of hides the same finding of a
  later batch that is sure, and nothing is deducted.
* A first row whose id is `no` or `number` is taken for the header, and is neither
  a rule nor reported.

## 7. Not modelled

Scoring's exponential curve and the prices are real arithmetic.  Encodings and the
quoting of CSV are the library's.
Prompts, languages, validation of uploads, wiring, configuration, logging, the
web client and the scripts keep no state.  Token verification and the
model backends are libraries behind an adapter.

Of the warehouse, the rows a query counts are modelled, not the sums and averages
it makes of them, nor the window of days, which a run of the model is shorter
than.  The texts of the rules on the insights page are read from the corpus and
shown as they are.  `analytics/history.py` aggregates the summaries of the store for
the benefit of one request, without a cache.  Of the command line, `ingest` and
`review` are the operations of the services in one process, and the polling of a
job only reads; `benchmark` is in `Warehouse`.  Of the HTTP API, the routes that read
one document, and the translation of exceptions to status codes, are left out.
