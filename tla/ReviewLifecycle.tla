--------------------------- MODULE ReviewLifecycle ---------------------------
(***************************************************************************)
(* The life of a review: the API handlers that submit and retry it         *)
(* (api/submission.py), the Cloud Tasks queue that carries it to a worker  *)
(* (storage/queues.py), the worker that claims it under a lease, runs it   *)
(* and records the outcome (worker/jobs.py), and the documents they share  *)
(* (storage/firestore.py, storage/memory.py).                              *)
(*                                                                         *)
(* A store operation is one atomic step, because each is one transaction   *)
(* or one document write; whatever lies between two store operations of a  *)
(* handler may interleave with everything else.  Model calls are           *)
(* abstracted to the outcome of a run and to what the run spent.  The      *)
(* rules corpus is fixed here, so a content stands for a (content, corpus  *)
(* version) pair in the cache key; RulesCorpus lets it move.               *)
(***************************************************************************)
EXTENDS Naturals, FiniteSets, FiniteSetsExt

CONSTANTS
    User,             \* tenants
    Content,          \* distinguishable submissions: file content + language
    Review,           \* ids uuid4 may still hand out
    Handler,          \* API requests that can be in progress at once
    Worker,           \* deliveries that can be in progress at once
    None,             \* no value
    Exempt,           \* users the daily cap does not apply to (admins)
    DailyLimit,       \* daily_review_limit; 0 switches the cap off
    TenantScope,      \* cache_scope = "tenant"
    TaskMaxAttempts,  \* task_max_attempts of the worker
    QueueMaxAttempts, \* max_attempts of the Cloud Tasks queue
    Spend,            \* what one run may cost, in ledger units
    MaxGeneration,    \* bound: manual retries of one review
    Faults,           \* which faults the environment may inject
    MaxFaults         \* bound: how many of them

(***************************************************************************)
(* abort:      a process dies, or a storage error escapes its handler.     *)
(* duplicate:  Cloud Tasks redelivers a task whose delivery still runs or  *)
(*             whose response it did not get.                              *)
(* overrun:    a lease runs out while its worker is still at work.         *)
(* stall:      the stall window passes while the review makes progress.    *)
(* retryRace:  a retry starts while another request holds the review.      *)
(* enqueue:    create_task raises, and there is no task.                   *)
(* ambiguous:  create_task raises, but the task was created.               *)
(* analytics:  an analytics write fails (and emit swallows it).            *)
(***************************************************************************)
FaultKinds ==
    {"abort", "duplicate", "overrun", "stall", "retryRace", "enqueue", "ambiguous",
     "analytics"}

ASSUME ConstantsAssumption ==
    /\ Exempt \subseteq User
    /\ None \notin User \union Content \union Review \union Worker
    /\ DailyLimit \in Nat
    /\ TenantScope \in BOOLEAN
    /\ TaskMaxAttempts \in Nat \ {0}
    /\ QueueMaxAttempts \in Nat \ {0}
    /\ Spend \subseteq Nat
    /\ MaxGeneration \in Nat
    /\ Faults \subseteq FaultKinds
    /\ MaxFaults \in Nat

\* Calls and their output are capped: some run is the most expensive one.
ASSUME SpendAssumption == \E c \in Spend : \A d \in Spend : d <= c

VARIABLES
    review,   \* the review documents
    stalled,  \* reviews whose (re)queue time is older than review_stall_minutes
    cache,    \* review_cache documents
    usage,    \* today's usage document of each user
    rows,     \* rows of the analytics table, per review and status
    spent,    \* what the runs of a review really spent (no process reads it)
    api,      \* API requests in progress
    work,     \* deliveries in progress
    tasks,    \* Cloud Tasks, by review and generation
    faults    \* faults injected so far

vars == <<review, stalled, cache, usage, rows, spent, api, work, tasks, faults>>

-----------------------------------------------------------------------------
Generation == 0..MaxGeneration

\* One execution of the pipeline: the claim it started from names it, and
\* stands for the result it produced.
Run == Review \X Generation \X Nat
RunSource(run) == run[1]
RunAttempt(run) == run[3]

ReviewDoc ==
    [status : {"absent", "queued", "running", "done", "failed"},
     owner : User \union {None}, content : Content \union {None},
     fresh : BOOLEAN, attempts : Nat, generation : Generation,
     lease : {"none", "live", "expired"},
     result : Run \union {None}, cost : Nat]

ApiState ==
    [pc : {"idle", "hit", "row", "reserve", "create", "enqueue", "undo", "retry"},
     review : Review \union {None}, user : User \union {None},
     content : Content \union {None}, result : Run \union {None},
     generation : Generation]

WorkState ==
    [pc : {"idle", "claim", "running", "cache", "emit", "respond"},
     review : Review \union {None}, generation : Generation,
     run : Run \union {None}, outcome : {"none", "done", "failed", "retry", "skipped"}]

TaskState ==
    [state : {"none", "ready", "inflight", "gone"}, dispatches : Nat,
     holder : Worker \union {None}]

\* Bug: the tenant is left out of the key in every scope.
CacheKeyWithoutTenant(u, c) == <<None, c>>

\* compute_cache_key: the tenant is part of the key only in tenant scope.
CacheKey(u, c) == <<IF TenantScope THEN u ELSE None, c>>
Key == (User \union {None}) \X Content
KeyOf(r) == CacheKey(review[r].owner, review[r].content)

NoReview == [status |-> "absent", owner |-> None, content |-> None,
             fresh |-> FALSE, attempts |-> 0, generation |-> 0,
             lease |-> "none", result |-> None, cost |-> 0]
IdleHandler == [pc |-> "idle", review |-> None, user |-> None,
                content |-> None, result |-> None, generation |-> 0]
IdleWorker == [pc |-> "idle", review |-> None, generation |-> 0,
               run |-> None, outcome |-> "none"]
NoTask == [state |-> "none", dispatches |-> 0, holder |-> None]

Init ==
    /\ review = [r \in Review |-> NoReview]
    /\ stalled = {}
    /\ cache = [k \in Key |-> None]
    /\ usage = [u \in User |-> 0]
    /\ rows = [r \in Review |-> [s \in {"done", "failed"} |-> 0]]
    /\ spent = [r \in Review |-> 0]
    /\ api = [h \in Handler |-> IdleHandler]
    /\ work = [w \in Worker |-> IdleWorker]
    /\ tasks = [r \in Review |-> [g \in Generation |-> NoTask]]
    /\ faults = 0

-----------------------------------------------------------------------------
(* Who is busy with a review. *)

Inject(kind) == kind \in Faults /\ faults < MaxFaults /\ faults' = faults + 1

Processing(w, r) == work[w].pc = "running" /\ work[w].review = r
Held(r) == \E h \in Handler : api[h].review = r
Pending(r, g) == tasks[r][g].state \in {"ready", "inflight"}

\* Nothing will move r any more without a manual retry.
Abandoned(r) ==
    /\ ~Held(r)
    /\ \A w \in Worker : work[w].review # r
    /\ \A g \in Generation : ~Pending(r, g)

Write(r, doc) == review' = [review EXCEPT ![r] = doc]
Goto(h, pc) == api' = [api EXCEPT ![h].pc = pc]
Finish(h) == api' = [api EXCEPT ![h] = IdleHandler]
Step(w, pc) == work' = [work EXCEPT ![w].pc = pc]
AddRow(r, status) == rows' = [rows EXCEPT ![r][status] = @ + 1]

-----------------------------------------------------------------------------
(* API: submit *)

\* Validate, build the review with a fresh id, and look its key up.
SubmitLookup(h, u, c, r) ==
    /\ api[h].pc = "idle"
    /\ review[r].status = "absent" /\ ~Held(r)
    /\ LET found == cache[CacheKey(u, c)] IN
       api' = [api EXCEPT ![h] =
                 [pc |-> IF found = None THEN "reserve" ELSE "hit",
                  review |-> r, user |-> u, content |-> c,
                  result |-> found, generation |-> 0]]
    /\ UNCHANGED <<review, stalled, cache, usage, rows, spent, work, tasks, faults>>

\* A hit is stored as a finished review of its own that cost nothing.
CachedDoc(a) ==
    [NoReview EXCEPT !.status = "done", !.owner = a.user, !.content = a.content,
                     !.result = a.result]

SubmitCached(h) ==
    /\ api[h].pc = "hit"
    /\ Write(api[h].review, CachedDoc(api[h]))
    /\ Goto(h, "row")
    /\ UNCHANGED <<stalled, cache, usage, rows, spent, work, tasks, faults>>

SubmitEmit(h) ==
    /\ api[h].pc = "row"
    /\ \/ AddRow(api[h].review, "done") /\ UNCHANGED faults
       \/ Inject("analytics") /\ UNCHANGED rows
    /\ Finish(h)
    /\ UNCHANGED <<review, stalled, cache, usage, spent, work, tasks>>

\* Bug: off by one at the cap.
MayReserveOneMore(u) == usage[u] <= DailyLimit

\* reserve_daily_review: count and compare in one transaction.
MayReserve(u) == usage[u] < DailyLimit

SubmitReserve(h) ==
    LET a == api[h] IN
    /\ a.pc = "reserve"
    /\ IF DailyLimit = 0 \/ a.user \in Exempt
       THEN Goto(h, "create") /\ UNCHANGED usage
       ELSE IF MayReserve(a.user)
       THEN Goto(h, "create") /\ usage' = [usage EXCEPT ![a.user] = @ + 1]
       ELSE Finish(h) /\ UNCHANGED usage
    /\ UNCHANGED <<review, stalled, cache, rows, spent, work, tasks, faults>>

\* blobs.put, then create_review.
FreshDoc(a) ==
    [NoReview EXCEPT !.status = "queued", !.owner = a.user, !.content = a.content,
                     !.fresh = TRUE]

SubmitCreate(h) ==
    /\ api[h].pc = "create"
    /\ Write(api[h].review, FreshDoc(api[h]))
    /\ Goto(h, "enqueue")
    /\ UNCHANGED <<stalled, cache, usage, rows, spent, work, tasks, faults>>

-----------------------------------------------------------------------------
(* API: retry, and the enqueue that submit and retry share *)

\* Bug: a review that is done can be stalled.
IsStalledAtAnyStatus(r) == review[r].status # "absent" /\ r \in stalled

\* is_stalled looks at the age of the last (re)queue, never at the lease.
IsStalled(r) == review[r].status \in {"queued", "running"} /\ r \in stalled

RetryRead(h, r) ==
    /\ api[h].pc = "idle"
    /\ review[r].status = "failed" \/ IsStalled(r)
    /\ review[r].generation < MaxGeneration
    /\ IF Held(r) THEN Inject("retryRace") ELSE UNCHANGED faults
    /\ api' = [api EXCEPT ![h] =
                 [IdleHandler EXCEPT !.pc = "retry", !.review = r,
                                     !.generation = review[r].generation + 1]]
    /\ UNCHANGED <<review, stalled, cache, usage, rows, spent, work, tasks>>

\* The reset does not look at the review again.
RetriedDoc(r, generation) ==
    [review[r] EXCEPT !.status = "queued", !.attempts = 0,
                      !.generation = generation, !.lease = "none"]

\* Bug: the generation is not bumped.
RetryWriteSameGeneration(h) ==
    LET a == api[h] IN
    /\ a.pc = "retry"
    /\ Write(a.review, RetriedDoc(a.review, a.generation - 1))
    /\ stalled' = stalled \ {a.review}
    /\ api' = [api EXCEPT ![h].pc = "enqueue", ![h].generation = @ - 1]
    /\ UNCHANGED <<cache, usage, rows, spent, work, tasks, faults>>

RetryWrite(h) ==
    LET a == api[h] IN
    /\ a.pc = "retry"
    /\ Write(a.review, RetriedDoc(a.review, a.generation))
    /\ stalled' = stalled \ {a.review}
    /\ Goto(h, "enqueue")
    /\ UNCHANGED <<cache, usage, rows, spent, work, tasks, faults>>

\* create_task with the name review-{id}-g{generation}: AlreadyExists is
\* taken for success, and a name stays reserved when its task is gone.
CreateTask(r, g) ==
    tasks' = IF tasks[r][g].state = "none"
             THEN [tasks EXCEPT ![r][g].state = "ready"]
             ELSE tasks

Enqueue(h) ==
    LET a == api[h] IN
    /\ a.pc = "enqueue"
    /\ \/ CreateTask(a.review, a.generation) /\ Finish(h) /\ UNCHANGED faults
       \/ Inject("enqueue") /\ UNCHANGED tasks /\ Goto(h, "undo")
       \/ Inject("ambiguous") /\ CreateTask(a.review, a.generation) /\ Goto(h, "undo")
    /\ UNCHANGED <<review, stalled, cache, usage, rows, spent, work>>

\* The handler of a failed enqueue: the review is failed, without a row.
EnqueueUndo(h) ==
    /\ api[h].pc = "undo"
    /\ Write(api[h].review, [review[api[h].review] EXCEPT !.status = "failed"])
    /\ Finish(h)
    /\ UNCHANGED <<stalled, cache, usage, rows, spent, work, tasks, faults>>

\* The request dies between two store operations, or one of them raises.
HandlerAborts(h) ==
    /\ api[h].pc # "idle"
    /\ Inject("abort")
    /\ Finish(h)
    /\ UNCHANGED <<review, stalled, cache, usage, rows, spent, work, tasks>>

-----------------------------------------------------------------------------
(* The queue *)

Deliver(w, r, g) ==
    /\ work[w].pc = "idle"
    /\ tasks[r][g].state = "ready"
    /\ tasks' = [tasks EXCEPT ![r][g] =
                   [state |-> "inflight", dispatches |-> @.dispatches + 1, holder |-> w]]
    /\ work' = [work EXCEPT ![w] =
                  [IdleWorker EXCEPT !.pc = "claim", !.review = r, !.generation = g]]
    /\ UNCHANGED <<review, stalled, cache, usage, rows, spent, api, faults>>

\* A delivery that did not end in 2xx is tried again while dispatches last.
Requeued(task) ==
    [task EXCEPT !.state = IF task.dispatches < QueueMaxAttempts THEN "ready" ELSE "gone",
                 !.holder = None]
Completed(task) == [task EXCEPT !.state = "gone", !.holder = None]

\* The queue gives a delivery up (request timeout, lost response) and takes
\* the task back; the worker that has it does not notice.
Redeliver(r, g) ==
    /\ tasks[r][g].state = "inflight"
    /\ Inject("duplicate")
    /\ tasks' = [tasks EXCEPT ![r][g] = Requeued(@)]
    /\ UNCHANGED <<review, stalled, cache, usage, rows, spent, api, work>>

-----------------------------------------------------------------------------
(* Worker: ReviewJobRunner.process *)

\* Bug: the lease of a running review is not looked at.
ClaimableWhileLeased(r) == review[r].status \in {"queued", "running"}

\* Bug: only the lease is looked at.
ClaimableWithoutLease(r) == review[r].status = "queued" \/ review[r].lease # "live"

Claimable(r) ==
    \/ review[r].status = "queued"
    \/ review[r].status = "running" /\ review[r].lease = "expired"

ClaimedDoc(r) ==
    [review[r] EXCEPT !.status = "running", !.attempts = @ + 1, !.lease = "live"]

Claim(w) ==
    LET r == work[w].review IN
    /\ work[w].pc = "claim"
    /\ IF Claimable(r)
       THEN /\ Write(r, ClaimedDoc(r))
            /\ work' = [work EXCEPT
                  ![w].pc = "running",
                  ![w].run = <<r, review[r].generation, review[r].attempts + 1>>]
       ELSE /\ work' = [work EXCEPT ![w].pc = "respond", ![w].outcome = "skipped"]
            /\ UNCHANGED review
    /\ UNCHANGED <<stalled, cache, usage, rows, spent, api, tasks, faults>>

Charge(r, c) == spent' = [spent EXCEPT ![r] = @ + c]

\* The run succeeded: update_review with the result and this run's ledger.
DoneDoc(r, run, c) ==
    [review[r] EXCEPT !.status = "done", !.result = run, !.cost = c, !.lease = "none"]

RunDone(w, c) ==
    /\ work[w].pc = "running"
    /\ Write(work[w].review, DoneDoc(work[w].review, work[w].run, c))
    /\ Charge(work[w].review, c)
    /\ Step(w, "cache")
    /\ UNCHANGED <<stalled, cache, usage, rows, api, tasks, faults>>

\* put_cache replaces whatever entry the key has.
PutCache(w) ==
    /\ work[w].pc = "cache"
    /\ cache' = [cache EXCEPT ![KeyOf(work[w].review)] = work[w].run]
    /\ work' = [work EXCEPT ![w].pc = "emit", ![w].outcome = "done"]
    /\ UNCHANGED <<review, stalled, usage, rows, spent, api, tasks, faults>>

\* _fail: terminal, with the ledger of this run only.
FailedDoc(r, c) == [review[r] EXCEPT !.status = "failed", !.cost = c, !.lease = "none"]

Fail(w, c) ==
    /\ Write(work[w].review, FailedDoc(work[w].review, c))
    /\ work' = [work EXCEPT ![w].pc = "emit", ![w].outcome = "failed"]

\* ReviewFailed or SubmissionError.
RunFailed(w, c) ==
    /\ work[w].pc = "running"
    /\ Fail(w, c)
    /\ Charge(work[w].review, c)
    /\ UNCHANGED <<stalled, cache, usage, rows, api, tasks, faults>>

\* Bug: one attempt too many is left to the queue.
NotYetLastAttempt(run) == RunAttempt(run) > TaskMaxAttempts

\* Transient or unexpected exception, with the attempts read at the claim.
LastAttempt(run) == RunAttempt(run) >= TaskMaxAttempts

\* Bug: the worker starts over without giving the delivery back.
RunTransientInPlace(w, c) ==
    /\ work[w].pc = "running"
    /\ Charge(work[w].review, c)
    /\ UNCHANGED <<review, stalled, cache, usage, rows, api, work, tasks, faults>>

RequeuedDoc(r) == [review[r] EXCEPT !.status = "queued", !.lease = "none"]

RunTransient(w, c) ==
    LET r == work[w].review IN
    /\ work[w].pc = "running"
    /\ IF LastAttempt(work[w].run)
       THEN Fail(w, c)
       ELSE /\ Write(r, RequeuedDoc(r))
            /\ work' = [work EXCEPT ![w].pc = "respond", ![w].outcome = "retry"]
    /\ Charge(r, c)
    /\ UNCHANGED <<stalled, cache, usage, rows, api, tasks, faults>>

WorkerEmit(w) ==
    /\ work[w].pc = "emit"
    /\ \/ AddRow(work[w].review, work[w].outcome) /\ UNCHANGED faults
       \/ Inject("analytics") /\ UNCHANGED rows
    /\ Step(w, "respond")
    /\ UNCHANGED <<review, stalled, cache, usage, spent, api, tasks>>

\* Only "retry" is a 503; every other outcome, "skipped" too, completes the
\* task.  A response to a delivery the queue gave up counts for nothing.
TaskOf(w) == tasks[work[w].review][work[w].generation]

Settle(w, after) ==
    tasks' = IF TaskOf(w).holder = w
             THEN [tasks EXCEPT ![work[w].review][work[w].generation] = after]
             ELSE tasks

Respond(w) ==
    /\ work[w].pc = "respond"
    /\ Settle(w, IF work[w].outcome = "retry" THEN Requeued(TaskOf(w))
                                              ELSE Completed(TaskOf(w)))
    /\ work' = [work EXCEPT ![w] = IdleWorker]
    /\ UNCHANGED <<review, stalled, cache, usage, rows, spent, api, faults>>

\* The instance dies, or a storage error escapes process and becomes a 500.
WorkerAborts(w) ==
    /\ work[w].pc # "idle"
    /\ Inject("abort")
    /\ IF work[w].pc = "running"
       THEN \E c \in Spend : Charge(work[w].review, c)
       ELSE UNCHANGED spent
    /\ Settle(w, Requeued(TaskOf(w)))
    /\ work' = [work EXCEPT ![w] = IdleWorker]
    /\ UNCHANGED <<review, stalled, cache, usage, rows, api>>

-----------------------------------------------------------------------------
(* Time *)

\* lease_expires_at passes.
LeaseExpires(r) ==
    /\ review[r].lease = "live"
    /\ IF \E w \in Worker : Processing(w, r) THEN Inject("overrun") ELSE UNCHANGED faults
    /\ Write(r, [review[r] EXCEPT !.lease = "expired"])
    /\ UNCHANGED <<stalled, cache, usage, rows, spent, api, work, tasks>>

\* review_stall_minutes pass since created_at or requeued_at.
StallElapses(r) ==
    /\ review[r].status # "absent" /\ r \notin stalled
    /\ IF Abandoned(r) THEN UNCHANGED faults ELSE Inject("stall")
    /\ stalled' = stalled \union {r}
    /\ UNCHANGED <<review, cache, usage, rows, spent, api, work, tasks>>

-----------------------------------------------------------------------------
HandlerStep(h) ==
    SubmitCached(h) \/ SubmitEmit(h) \/ SubmitReserve(h) \/ SubmitCreate(h)
    \/ RetryWrite(h) \/ Enqueue(h) \/ EnqueueUndo(h)

RunEnds(w) == \E c \in Spend : RunDone(w, c) \/ RunFailed(w, c) \/ RunTransient(w, c)

WorkerStep(w) == Claim(w) \/ RunEnds(w) \/ PutCache(w) \/ WorkerEmit(w) \/ Respond(w)

Next ==
    \/ \E h \in Handler, u \in User, c \in Content, r \in Review : SubmitLookup(h, u, c, r)
    \/ \E h \in Handler, r \in Review : RetryRead(h, r)
    \/ \E h \in Handler : HandlerStep(h) \/ HandlerAborts(h)
    \/ \E w \in Worker, r \in Review, g \in Generation : Deliver(w, r, g)
    \/ \E r \in Review, g \in Generation : Redeliver(r, g)
    \/ \E w \in Worker : WorkerStep(w) \/ WorkerAborts(w)
    \/ \E r \in Review : LeaseExpires(r) \/ StallElapses(r)

Spec == Init /\ [][Next]_vars

(***************************************************************************)
(* Handlers and workers run to their end, the queue dispatches a ready     *)
(* task to some free worker, and time passes.  Nothing obliges a user to   *)
(* submit or to retry.                                                     *)
(***************************************************************************)
Fairness ==
    /\ \A h \in Handler : WF_vars(HandlerStep(h))
    /\ \A w \in Worker : WF_vars(WorkerStep(w))
    /\ \A r \in Review, g \in Generation : WF_vars(\E w \in Worker : Deliver(w, r, g))
    /\ \A r \in Review : WF_vars(LeaseExpires(r)) /\ WF_vars(StallElapses(r))

\* Users who do press retry on what is stalled.
UsersRetry ==
    \A r \in Review : SF_vars(IsStalled(r) /\ \E h \in Handler : RetryRead(h, r))

-----------------------------------------------------------------------------
(* Properties *)

\* Every document, request, delivery and task has the shape the code gives it.
TypeOK ==
    /\ review \in [Review -> ReviewDoc]
    /\ stalled \in SUBSET Review
    /\ cache \in [Key -> Run \union {None}]
    /\ usage \in [User -> Nat]
    /\ rows \in [Review -> [{"done", "failed"} -> Nat]]
    /\ spent \in [Review -> Nat]
    /\ api \in [Handler -> ApiState]
    /\ work \in [Worker -> WorkState]
    /\ tasks \in [Review -> [Generation -> TaskState]]
    /\ faults \in Nat

\* However submissions interleave and die, a user who is not exempt never
\* has more fresh reviews in a day than the cap (submit, reserve_daily_review).
QuotaRespected ==
    \A u \in User \ Exempt : DailyLimit > 0 =>
        Cardinality({r \in Review : review[r].fresh /\ review[r].owner = u}) <= DailyLimit

\* A running review always has a lease, live or expired: whatever happens to
\* its worker, a later delivery can still claim it (claim_review, _claimable).
RunningHasLease ==
    \A r \in Review : review[r].status = "running" => review[r].lease # "none"

\* No delivery runs the pipeline on a review another delivery is running: the
\* claim transaction and its lease admit one at a time (process).
ExclusiveProcessing ==
    \A r \in Review : \A v, w \in Worker :
        Processing(v, r) /\ Processing(w, r) => v = w

\* No later step of any handler, worker or timer takes a finished review back
\* or replaces its result (the blind writes of retry, _enqueue and process).
DoneIsFinal ==
    [][\A r \in Review : review[r].status = "done" =>
        review'[r].status = "done" /\ review'[r].result = review[r].result]_vars

\* What the cache serves is the result its source review shows (put_cache).
CacheMatchesSource ==
    \A k \in Key : cache[k] # None =>
        /\ review[RunSource(cache[k])].status = "done"
        /\ review[RunSource(cache[k])].result = cache[k]

\* A review only ever shows a result computed from its own content and, in
\* tenant scope, for its own user, through any chain of cache hits.
ResultBelongsToSubmission ==
    \A r \in Review : review[r].result # None =>
        LET source == review[RunSource(review[r].result)] IN
        /\ source.content = review[r].content
        /\ TenantScope => source.owner = review[r].owner

\* Whatever is delivered again or dies half way, a review is reported done at
\* most once, and only if it is, and reported failed at most once for each time
\* it was submitted or retried (emit, which the dashboards count on).
ReportedOnce ==
    \A r \in Review :
        /\ rows[r]["done"] <= IF review[r].status = "done" THEN 1 ELSE 0
        /\ rows[r]["failed"] <= review[r].generation + 1

\* What all runs of a review spend, failed and forgotten attempts included, is
\* bounded by its deliveries: a delivery pays for at most one run, whatever
\* crashes, duplicates and retries do (process, _retry_or_fail).
SpendBounded ==
    \A r \in Review :
        spent[r] <= Max(Spend)
                      * MapThenSumSet(LAMBDA g : tasks[r][g].dispatches, Generation)

\* The cost of a review that failed is what was spent on it.  A run that is to be
\* tried again takes its ledger with it, and the next one starts an empty one
\* (_fail, which means to keep it visible; _retry_or_fail).
FailedShowsSpend ==
    \A r \in Review : review[r].status = "failed" => review[r].cost = spent[r]

\* A review that is failed because it could not be enqueued is one that no worker
\* has claimed since it was queued (_enqueue, which does not look at it again).
NotEnqueuedIsNotRun ==
    [][\A h \in Handler :
        LET r == api[h].review IN
        api[h].pc = "undo" /\ api'[h].pc = "idle" /\ review'[r].status = "failed" =>
            review[r].attempts = 0]_vars

-----------------------------------------------------------------------------
(* Why ExclusiveProcessing and DoneIsFinal hold *)

\* Leases and stall windows are long enough, retries of a review come one at
\* a time, and create_task does not fail.
TimelyEnvironment ==
    Faults \intersect {"overrun", "stall", "retryRace", "enqueue", "ambiguous"} = {}

HeldOnce ==
    /\ \A h \in Handler : api[h].review = None <=> api[h].pc = "idle"
    /\ \A g, h \in Handler : api[g].review # None /\ api[g].review = api[h].review => g = h

\* A submission writes a review nobody has seen; a retry finds what it read.
Current(h) ==
    LET r == api[h].review IN
    /\ api[h].pc \in {"hit", "reserve", "create"} => review[r].status = "absent"
    /\ api[h].pc = "retry" => review[r].status = "failed" \/ IsStalled(r)
    /\ api[h].pc # "undo"
RequestsAreCurrent == \A h \in Handler : Current(h)

\* Nothing but a retry is about to happen to a stalled review.
StalledIsQuiet ==
    /\ \A w \in Worker : work[w].review = None <=> work[w].pc = "idle"
    /\ \A r \in stalled :
        /\ review[r].status # "absent"
        /\ \A h \in Handler : api[h].review = r => api[h].pc = "retry"
        /\ \A w \in Worker : work[w].review # r
        /\ \A g \in Generation : ~Pending(r, g)

\* The worker that processes a review is the one that has its live lease.
LeaseIsHeld ==
    \A r \in Review : \A w \in Worker : Processing(w, r) =>
        review[r].status = "running" /\ review[r].lease = "live"

\* The inductive invariant: one handler and one worker at a time have a
\* review in hand, and what they are about to write over is what they expect.
SoleOwner ==
    HeldOnce /\ RequestsAreCurrent /\ StalledIsQuiet /\ LeaseIsHeld /\ ExclusiveProcessing

-----------------------------------------------------------------------------
(* What all of it comes to *)

\* What a user is shown of a review: not whether it waits or runs, nor how often.
ShownDoc(doc) ==
    [status |-> IF doc.status \in {"queued", "running"} THEN "pending" ELSE doc.status,
     owner |-> doc.owner, content |-> doc.content, fresh |-> doc.fresh, result |-> doc.result]

Shown == [r \in Review |-> ShownDoc(review[r])]

IsRunOf(run, r) == RunSource(run) = r

Service == INSTANCE ReviewService WITH
    shown <- Shown, RunOf <- IsRunOf

\* Requests, queue, leases and workers together are the plain service of
\* ReviewService: through crashes, redeliveries and retries each review is
\* accepted within the cap or served what a done one of the same key shows, ends
\* with a result of its own run or failed, and never loses a result.
ServiceAsPromised == Service!ServiceSpec

=============================================================================
