----------------------------- MODULE RulesCorpus -----------------------------
(***************************************************************************)
(* The rules corpus: ingest jobs that merge uploaded rules into the        *)
(* BigQuery table checkpoint by checkpoint and publish its version         *)
(* (rules/ingest.py, rules/ingest_jobs.py, worker/ingest_job.py), and the  *)
(* reviews that pin the published version at submission, retrieve from the *)
(* live table and cache their result under the pinned version              *)
(* (api/submission.py, worker/orchestrator.py, worker/jobs.py).            *)
(*                                                                         *)
(* A version is a hash of the whole corpus, so the corpus itself stands    *)
(* for it; a text stands for a content hash with its embedding model.  The *)
(* reviews here all have one content, so the version is their cache key.   *)
(***************************************************************************)
EXTENDS Naturals, FiniteSets

CONSTANTS
    Rule,            \* rule ids
    Text,            \* content hashes (with the embedding model)
    Job,             \* ids of ingest jobs
    Review,          \* reviews of the one content
    File,            \* the files that are uploaded
    Accepts,         \* the rules the parser takes from each of them
    None,            \* no text, no corpus
    CheckpointRows,  \* ingest_checkpoint_rows
    MaxRetries,      \* ingest_max_retries: of the Cloud Run Job and of the runner
    Faults,          \* which faults the environment may inject
    MaxFaults        \* bound: how many of them

(***************************************************************************)
(* abort:      the submitting request dies.                                *)
(* crash:      the execution dies, or a storage error escapes run.         *)
(* storage:    a store operation inside ingest raises.                     *)
(* embed:      embedding raises, or the merge does and changes nothing.    *)
(* merge:      upsert raises after its merge was applied.                  *)
(* launch:     run_job raises, and there is no execution.                  *)
(* ambiguous:  run_job raises, but the execution was created.              *)
(* overlap:    a job is submitted while another one is at work.            *)
(* race:       a review is submitted while an ingest is at work, or an     *)
(*             ingest while a review is.                                   *)
(***************************************************************************)
FaultKinds ==
    {"abort", "crash", "storage", "embed", "merge", "launch", "ambiguous", "overlap",
     "race"}

ASSUME CorpusAssumption ==
    /\ None \notin Text /\ None \notin [Rule -> Text \union {None}]
    /\ IsFiniteSet(Rule)
    /\ Accepts \in [File -> [Rule -> Text \union {None}]]
    /\ CheckpointRows \in Nat \ {0}
    /\ MaxRetries \in Nat
    /\ Faults \subseteq FaultKinds
    /\ MaxFaults \in Nat

VARIABLES
    table,      \* the rules table
    published,  \* the corpus the published version is the hash of
    blob,       \* the file at each job's source_path
    upload,     \* the accepted rows of that file
    job,        \* status of the ingest job documents
    api,        \* where the request that submitted the job is
    exec,       \* the execution of each job
    review,     \* reviews: the version they pinned, the rules they were offered
    cache,      \* review_cache, by pinned version
    faults      \* faults injected so far

vars == <<table, published, blob, upload, job, api, exec, review, cache, faults>>

-----------------------------------------------------------------------------
Corpus == [Rule -> Text \union {None}]
Uninitialised == [r \in Rule |-> None]

ExecState ==
    [pc : {"none", "start", "read", "chunk", "publish", "finish", "report", "failing",
           "exit", "ended"},
     attempt : 0..MaxRetries, state : Corpus, todo : SUBSET Rule, error : BOOLEAN]

ReviewState ==
    [pc : {"absent", "pinned", "retrieved", "done"}, version : Corpus, grounds : Corpus]

NoExec == [pc |-> "none", attempt |-> 0, state |-> Uninitialised, todo |-> {}, error |-> FALSE]

Init ==
    /\ table = Uninitialised
    /\ published = Uninitialised
    /\ blob = [j \in Job |-> None]
    /\ upload = [j \in Job |-> Uninitialised]
    /\ job = [j \in Job |-> "absent"]
    /\ api = [j \in Job |-> "idle"]
    /\ exec = [j \in Job |-> NoExec]
    /\ review = [v \in Review |->
                   [pc |-> "absent", version |-> Uninitialised, grounds |-> Uninitialised]]
    /\ cache = [c \in Corpus |-> None]
    /\ faults = 0

Inject(kind) == kind \in Faults /\ faults < MaxFaults /\ faults' = faults + 1

\* What the environment is not calm about costs a fault.
Unless(calm, kind) == IF calm THEN UNCHANGED faults ELSE Inject(kind)

Working(j) == api[j] # "idle" \/ exec[j].pc \notin {"none", "ended"}
Reviewing(v) == review[v].pc \in {"pinned", "retrieved"}

Goto(j, pc) == exec' = [exec EXCEPT ![j].pc = pc]
SetStatus(j, status) == job' = [job EXCEPT ![j] = status]

-----------------------------------------------------------------------------
(* IngestJobService.submit *)

\* The file is stored under an id of its own, and then the job document.  Nothing
\* writes the file again, so every attempt parses the same rows.
Submit(j, file) ==
    /\ job[j] = "absent"
    /\ IF \E i \in Job : Working(i) THEN Inject("overlap")
       ELSE Unless(\A v \in Review : ~Reviewing(v), "race")
    /\ blob' = [blob EXCEPT ![j] = file]
    /\ upload' = [upload EXCEPT ![j] = Accepts[file]]
    /\ SetStatus(j, "queued")
    /\ api' = [api EXCEPT ![j] = "launch"]
    /\ UNCHANGED <<table, published, exec, review, cache>>

Launch(j) ==
    /\ api[j] = "launch"
    /\ \/ Goto(j, "start") /\ api' = [api EXCEPT ![j] = "idle"] /\ UNCHANGED faults
       \/ Inject("launch") /\ api' = [api EXCEPT ![j] = "undo"] /\ UNCHANGED exec
       \/ Inject("ambiguous") /\ Goto(j, "start") /\ api' = [api EXCEPT ![j] = "undo"]
    /\ UNCHANGED <<table, published, blob, upload, job, review, cache>>

LaunchUndo(j) ==
    /\ api[j] = "undo"
    /\ SetStatus(j, "failed")
    /\ api' = [api EXCEPT ![j] = "idle"]
    /\ UNCHANGED <<table, published, blob, upload, exec, review, cache, faults>>

\* A job whose request died before the launch stays queued: nothing looks for it.
SubmitAborts(j) ==
    /\ api[j] # "idle"
    /\ Inject("abort")
    /\ api' = [api EXCEPT ![j] = "idle"]
    /\ UNCHANGED <<table, published, blob, upload, job, exec, review, cache>>

-----------------------------------------------------------------------------
(* IngestJobRunner.run and RulesIngestor.ingest *)

\* Bug: the status is not looked at.
AttemptStartAlways(j) ==
    /\ exec[j].pc = "start"
    /\ SetStatus(j, "running") /\ Goto(j, "read")
    /\ UNCHANGED <<table, published, blob, upload, api, review, cache, faults>>

\* A job that is done needs nothing more.
AttemptStart(j) ==
    /\ exec[j].pc = "start"
    /\ IF job[j] = "done"
       THEN Goto(j, "exit") /\ UNCHANGED job
       ELSE SetStatus(j, "running") /\ Goto(j, "read")
    /\ UNCHANGED <<table, published, blob, upload, api, review, cache, faults>>

\* Bug: every row of the file is written again.
StaleInFile(j, rows) == {r \in Rule : upload[j][r] # None}

\* The rows of the file that are new or changed against the rows that are there.
Stale(j, rows) == {r \in Rule : upload[j][r] # None /\ rows[r] # upload[j][r]}

\* parse the file and read the fingerprints.
IngestRead(j) ==
    /\ exec[j].pc = "read"
    /\ exec' = [exec EXCEPT ![j] = [pc |-> "chunk", attempt |-> @.attempt, state |-> table,
                                    todo |-> Stale(j, table), error |-> FALSE]]
    /\ UNCHANGED <<table, published, blob, upload, job, api, review, cache, faults>>

\* The next checkpoint: so many rows in file order, the new ones first.
IsChunk(j, chunk) ==
    LET todo == exec[j].todo
        new == {r \in todo : exec[j].state[r] = None} IN
    /\ chunk \subseteq todo /\ chunk # {}
    /\ \/ Cardinality(chunk) = CheckpointRows
       \/ Cardinality(chunk) < CheckpointRows /\ chunk = todo
    /\ chunk \subseteq new \/ new \subseteq chunk

Merged(rows, j, chunk) == [r \in Rule |-> IF r \in chunk THEN upload[j][r] ELSE rows[r]]

\* Bug: the fingerprints in memory are not brought up to date.
CommittedForgotten(j, chunk) ==
    exec' = [exec EXCEPT ![j].pc = "publish", ![j].todo = @ \ chunk]

Committed(j, chunk) ==
    exec' = [exec EXCEPT ![j] = [exec[j] EXCEPT !.pc = "publish",
                                                !.todo = exec[j].todo \ chunk,
                                                !.state = Merged(exec[j].state, j, chunk)]]

\* The loop breaks off; what is published and reported comes after it.
BreaksOff(j) == exec' = [exec EXCEPT ![j] = [@ EXCEPT !.pc = "finish", !.error = TRUE]]

\* Embed and merge one checkpoint.
Upsert(j, chunk) ==
    /\ exec[j].pc = "chunk"
    /\ IsChunk(j, chunk)
    /\ \/ table' = Merged(table, j, chunk) /\ Committed(j, chunk) /\ UNCHANGED faults
       \/ Inject("embed") /\ BreaksOff(j) /\ UNCHANGED table
       \/ Inject("merge") /\ BreaksOff(j) /\ table' = Merged(table, j, chunk)
    /\ UNCHANGED <<published, blob, upload, job, api, review, cache>>

ChunksDone(j) ==
    /\ exec[j].pc = "chunk" /\ exec[j].todo = {}
    /\ Goto(j, "finish")
    /\ UNCHANGED <<table, published, blob, upload, job, api, review, cache, faults>>

\* Bug: the checkpoint is not published.
PublishCheckpointLater(j) ==
    /\ exec[j].pc = "publish"
    /\ Goto(j, "chunk")
    /\ UNCHANGED <<table, published, blob, upload, job, api, review, cache, faults>>

\* _publish_version after a checkpoint: from the fingerprints in memory.
PublishCheckpoint(j) ==
    /\ exec[j].pc = "publish"
    /\ published' = exec[j].state
    /\ Goto(j, "chunk")
    /\ UNCHANGED <<table, blob, upload, job, api, review, cache, faults>>

\* Bug: an ingest that failed half-way publishes what it set out to write.
PublishFinalUpload(j) ==
    /\ exec[j].pc = "finish"
    /\ published' = Merged(exec[j].state, j, exec[j].todo)
    /\ Goto(j, "report")
    /\ UNCHANGED <<table, blob, upload, job, api, review, cache, faults>>

\* refresh_index, and _publish_version once more, whatever happened.
PublishFinal(j) ==
    /\ exec[j].pc = "finish"
    /\ published' = exec[j].state
    /\ Goto(j, "report")
    /\ UNCHANGED <<table, blob, upload, job, api, review, cache, faults>>

\* Bug: the last attempt is taken for one that will be retried.
FinalAttemptNever(j) == exec[j].attempt > MaxRetries

FinalAttempt(j) == exec[j].attempt >= MaxRetries

GiveUp(j) == SetStatus(j, IF FinalAttempt(j) THEN "failed" ELSE "retrying")

\* Bug: a partial ingest counts as done.
ReportPartial(j) ==
    /\ exec[j].pc = "report"
    /\ SetStatus(j, "done")
    /\ Goto(j, "exit")
    /\ UNCHANGED <<table, published, blob, upload, api, review, cache, faults>>

Report(j) ==
    /\ exec[j].pc = "report"
    /\ IF exec[j].error THEN GiveUp(j) ELSE SetStatus(j, "done")
    /\ Goto(j, "exit")
    /\ UNCHANGED <<table, published, blob, upload, api, review, cache, faults>>

\* A store operation inside the try block of run raises; run catches it.
StorageFails(j) ==
    /\ exec[j].pc \in {"read", "chunk", "publish", "finish"}
    /\ Inject("storage")
    /\ Goto(j, "failing")
    /\ UNCHANGED <<table, published, blob, upload, job, api, review, cache>>

AttemptFailed(j) ==
    /\ exec[j].pc = "failing"
    /\ GiveUp(j)
    /\ Goto(j, "exit")
    /\ UNCHANGED <<table, published, blob, upload, api, review, cache, faults>>

\* Bug: one attempt too many.
NextAttemptOneMore(j) ==
    exec' = [exec EXCEPT ![j] =
               IF @.attempt <= MaxRetries
               THEN [NoExec EXCEPT !.pc = "start", !.attempt = exec[j].attempt + 1]
               ELSE [@ EXCEPT !.pc = "ended"]]

\* Bug: attempts are not counted.
NextAttemptUncounted(j) ==
    exec' = [exec EXCEPT ![j] =
               IF @.attempt < MaxRetries
               THEN [NoExec EXCEPT !.pc = "start"]
               ELSE [@ EXCEPT !.pc = "ended"]]

\* Cloud Run runs the task again after a non-zero exit, max_retries times.
NextAttempt(j) ==
    exec' = [exec EXCEPT ![j] =
               IF @.attempt < MaxRetries
               THEN [NoExec EXCEPT !.pc = "start", !.attempt = exec[j].attempt + 1]
               ELSE [@ EXCEPT !.pc = "ended"]]

\* The exit code is 0 when the job document says done.
Exit(j) ==
    /\ exec[j].pc = "exit"
    /\ IF job[j] = "done" THEN Goto(j, "ended") ELSE NextAttempt(j)
    /\ UNCHANGED <<table, published, blob, upload, job, api, review, cache, faults>>

Crash(j) ==
    /\ exec[j].pc \notin {"none", "ended"}
    /\ Inject("crash")
    /\ NextAttempt(j)
    /\ UNCHANGED <<table, published, blob, upload, job, api, review, cache>>

-----------------------------------------------------------------------------
(* Reviews *)

\* Bug: the corpus version is left out of the key.
KeyUnversioned(version) == Uninitialised

\* compute_cache_key: for one content the version is what tells keys apart.
Key(version) == version

\* submit: pin the published version, and look the cache up under it.
ReviewSubmit(v) ==
    /\ review[v].pc = "absent"
    /\ Unless(\A j \in Job : ~Working(j), "race")
    /\ review' = [review EXCEPT ![v] =
                    IF cache[Key(published)] = None
                    THEN [@ EXCEPT !.pc = "pinned", !.version = published]
                    ELSE [pc |-> "done", version |-> published,
                          grounds |-> cache[Key(published)]]]
    /\ UNCHANGED <<table, published, blob, upload, job, api, exec, cache>>

\* The worker retrieves from the table as it is now, unless the pinned
\* version says there was none.
ReviewRetrieve(v) ==
    /\ review[v].pc = "pinned"
    /\ review' = [review EXCEPT ![v].pc = "retrieved",
                                ![v].grounds = IF review[v].version = Uninitialised
                                               THEN Uninitialised ELSE table]
    /\ UNCHANGED <<table, published, blob, upload, job, api, exec, cache, faults>>

\* A transient failure later in the run: the next attempt retrieves again.
ReviewRetry(v) ==
    /\ review[v].pc = "retrieved"
    /\ review' = [review EXCEPT ![v].pc = "pinned"]
    /\ UNCHANGED <<table, published, blob, upload, job, api, exec, cache, faults>>

ReviewFinish(v) ==
    /\ review[v].pc = "retrieved"
    /\ review' = [review EXCEPT ![v].pc = "done"]
    /\ cache' = [cache EXCEPT ![Key(review[v].version)] = review[v].grounds]
    /\ UNCHANGED <<table, published, blob, upload, job, api, exec, faults>>

-----------------------------------------------------------------------------
JobStep(j) ==
    \/ Launch(j) \/ LaunchUndo(j)
    \/ AttemptStart(j) \/ IngestRead(j) \/ ChunksDone(j)
    \/ \E chunk \in SUBSET Rule : Upsert(j, chunk)
    \/ PublishCheckpoint(j) \/ PublishFinal(j) \/ Report(j) \/ AttemptFailed(j) \/ Exit(j)

ReviewStep(v) ==
    ReviewSubmit(v) \/ ReviewRetrieve(v) \/ ReviewRetry(v) \/ ReviewFinish(v)

\* What happens besides the uploads.
Continue ==
    \/ \E j \in Job : JobStep(j) \/ SubmitAborts(j) \/ StorageFails(j) \/ Crash(j)
    \/ \E v \in Review : ReviewStep(v)

Next == Continue \/ \E j \in Job, file \in File : Submit(j, file)

Spec == Init /\ [][Next]_vars

\* Requests and executions run to their end.
FairSpec == Spec /\ \A j \in Job : WF_vars(JobStep(j))

-----------------------------------------------------------------------------
(* Properties *)

\* Corpus, jobs, executions and reviews have the shape the code gives them.
TypeOK ==
    /\ table \in Corpus /\ published \in Corpus
    /\ blob \in [Job -> File \union {None}] /\ upload \in [Job -> Corpus]
    /\ job \in [Job -> {"absent", "queued", "running", "retrying", "done", "failed"}]
    /\ api \in [Job -> {"idle", "launch", "undo"}]
    /\ exec \in [Job -> ExecState]
    /\ review \in [Review -> ReviewState]
    /\ cache \in [Corpus -> Corpus \union {None}]
    /\ faults \in Nat

\* Every rule the published version counts is in the table, however ingests
\* overlap, fail and die (_publish_version is never ahead of upsert).
PublishedRulesExist ==
    \A r \in Rule : published[r] # None => table[r] # None

\* A job is only reported done when all its rows are in the table and the
\* published version is that of the table (ingest, run), unless jobs overlap.
DoneIsComplete ==
    [][\A j \in Job : job[j] # "done" /\ job'[j] = "done" =>
        /\ \A r \in Rule : upload[j][r] # None => table[r] = upload[j][r]
        /\ published = table]_vars

\* Whatever happened before, a row about to be embedded is one the table does
\* not have: a retry resumes (the fingerprints read by ingest).
NothingEmbeddedTwice ==
    \A j \in Job : exec[j].pc = "chunk" =>
        \A r \in exec[j].todo : table[r] # upload[j][r]

\* A failure leaves at most one checkpoint of rows unpublished, and an ingest
\* at work has at most one more (_publish_version after each checkpoint).
LagIsBounded ==
    Cardinality({r \in Rule : published[r] # table[r]}) <= CheckpointRows * (faults + 1)

\* When no job is at work the published version is that of the table.
SettledIsPublished == (\A j \in Job : ~Working(j)) => published = table

\* A review answered from the cache while no job is at work shows what the
\* rules that are there now would have grounded (submit, put_cache).
HitIsGrounded ==
    [][\A v \in Review :
        review[v].pc = "absent" /\ review'[v].pc = "done" /\ (\A j \in Job : ~Working(j))
            => review'[v].grounds = table]_vars

\* A job that is done is not taken up again by a late attempt (run).
DoneJobIsFinal ==
    [][\A j \in Job : job[j] = "done" => job'[j] = "done"]_vars

\* A job whose processes live ends done or failed, whatever its attempts run
\* into (run, Cloud Run).
JobSettles == \A j \in Job : job[j] = "queued" ~> job[j] \in {"done", "failed"}

\* The steps an attempt takes at most: two for each checkpoint, and seven others.
AttemptSteps == 2 * Cardinality(Rule) + 7

StepsInAttempt(j) ==
    LET merging == 2 * Cardinality(exec[j].todo) IN
    CASE exec[j].pc = "start" -> AttemptSteps - 1
      [] exec[j].pc = "read" -> AttemptSteps - 2
      [] exec[j].pc = "publish" -> merging + 5
      [] exec[j].pc = "chunk" -> merging + 4
      [] exec[j].pc = "finish" -> 3
      [] exec[j].pc \in {"report", "failing"} -> 2
      [] exec[j].pc = "exit" -> 1

ExecutionSteps(j) ==
    CASE exec[j].pc = "none" -> (MaxRetries + 1) * AttemptSteps
      [] exec[j].pc = "ended" -> 0
      [] OTHER -> (MaxRetries - exec[j].attempt) * AttemptSteps + StepsInAttempt(j)

RequestSteps(j) == IF job[j] = "absent" THEN 3 ELSE [launch |-> 2, undo |-> 1, idle |-> 0][api[j]]

\* The steps that a job, its request and its execution have before them.
JobSteps(j) == RequestSteps(j) + ExecutionSteps(j)

Moves(j) == job'[j] # job[j] \/ api'[j] # api[j] \/ exec'[j] # exec[j]

\* No job goes on for ever: whatever fails, dies or overlaps, each step of its
\* request and its attempts takes one of a number of steps that is known from the
\* start (the loop of ingest, run, max_retries).
JobsRunOut == [][\A j \in Job : Moves(j) => JobSteps(j)' < JobSteps(j)]_vars

-----------------------------------------------------------------------------
(* Why they hold *)

\* Jobs are at work one at a time.
OneAtATime == "overlap" \notin Faults

\* Corpora only name rules the table has, todo only rows of the file, and a
\* job nobody has submitted has nothing at work.
RulesAreKnown ==
    /\ PublishedRulesExist
    /\ \A j \in Job :
        /\ \A r \in Rule : exec[j].state[r] # None => table[r] # None
        /\ \A r \in exec[j].todo : upload[j][r] # None
        /\ job[j] = "absent" => exec[j] = NoExec /\ api[j] = "idle"

AloneAtWork == \A i, j \in Job : Working(i) /\ Working(j) => i = j

\* While no error has occurred, what an ingest has in memory is the table, and
\* what is left to do is what the table still lacks.
InStep(j) ==
    /\ exec[j].pc \in {"chunk", "publish"} =>
        ~exec[j].error /\ exec[j].state = table /\ exec[j].todo = Stale(j, table)
    /\ exec[j].pc \in {"finish", "report"} /\ ~exec[j].error =>
        exec[j].state = table /\ Stale(j, table) = {}
    /\ exec[j].pc = "report" /\ ~exec[j].error => published = table

IngestsInStep == AloneAtWork /\ \A j \in Job : InStep(j)

=============================================================================
