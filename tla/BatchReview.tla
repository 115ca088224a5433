------------------------------ MODULE BatchReview ------------------------------
(***************************************************************************)
(* One run of the review pipeline (worker/orchestrator.py) with the model  *)
(* gateway under it (llm/gateway.py): the chunks are embedded in batches   *)
(* on the gateway's pool, one search retrieves their rules, and the        *)
(* batches of the file are reviewed on a pool of the run's own, each by    *)
(* the triage model and, if that gives a reason to, the escalation model.  *)
(*                                                                         *)
(* Both pools are used through Executor.map: the tasks start in order, the *)
(* results are awaited in order, and the first one awaited that has failed *)
(* raises and cancels the tasks that have not started.  The run's own pool *)
(* is then shut down, which waits for those that have; the gateway's pool  *)
(* lives on.                                                               *)
(***************************************************************************)
EXTENDS Naturals, FiniteSets

CONSTANTS
    Embeds,        \* batches of texts to embed; none if there are no rules
    Batches,       \* batches of the file
    EmbedWorkers,  \* embedding_concurrency
    Workers,       \* _MAX_PARALLEL_BATCHES
    MaxAttempts    \* llm_max_attempts

ASSUME BatchReviewAssumption ==
    /\ Embeds \in Nat /\ Batches \in Nat
    /\ EmbedWorkers \in Nat \ {0} /\ Workers \in Nat \ {0}
    /\ MaxAttempts \in Nat \ {0}

VARIABLES
    mode,     \* "tiered", or "baseline": of the benchmark
    stage,    \* where run is: "embed", "search", "review", "closing", "ended"
    task,     \* the tasks on the pools
    awaited,  \* the task whose result run waits for
    ledger,   \* the calls recorded: a task and the tier of the call
    raised,   \* what run is about to raise
    outcome   \* how run ended

vars == <<mode, stage, task, awaited, ledger, raised, outcome>>

-----------------------------------------------------------------------------
\* The embedding tasks come first.
Task == 1..Embeds + Batches
IsEmbed(t) == t <= Embeds

Tier == {"embed", "triage", "escalation", "baseline"}
Error == {"unparseable", "transient", "broken"}

TaskState ==
    [pc : {"new", "queued", "calling", "answered", "done", "failed", "cancelled"},
     tier : Tier, attempt : 1..MaxAttempts,
     answer : {"none", "fine", "serious", "unusable", "refused"},
     triage : {"none", "serious", "unusable"},
     error : Error \union {"none"}]

FirstTier(t) ==
    IF IsEmbed(t) THEN "embed" ELSE IF mode = "baseline" THEN "baseline" ELSE "triage"

NewTask(t) ==
    [pc |-> IF IsEmbed(t) \/ Embeds = 0 THEN "queued" ELSE "new",
     tier |-> FirstTier(t), attempt |-> 1, answer |-> "none", triage |-> "none",
     error |-> "none"]

Init ==
    /\ mode \in {"tiered", "baseline"}
    /\ stage = IF Embeds > 0 THEN "embed" ELSE "review"
    /\ task = [t \in Task |-> NewTask(t)]
    /\ awaited = 1
    /\ ledger = {}
    /\ raised = "none" /\ outcome = "none"

Running(t) == task[t].pc \in {"calling", "answered"}

-----------------------------------------------------------------------------
(* The pools *)

Capacity(t) == IF IsEmbed(t) THEN EmbedWorkers ELSE Workers
PoolOf(t) == {u \in Task : IsEmbed(u) = IsEmbed(t)}

\* A thread of the pool is free for the task, and none before it waits for one.
MayStart(t) ==
    /\ task[t].pc = "queued"
    /\ \A u \in PoolOf(t) : u < t => task[u].pc # "queued"
    /\ Cardinality({u \in PoolOf(t) : Running(u)}) < Capacity(t)

Take(t) ==
    /\ MayStart(t)
    /\ task' = [task EXCEPT ![t].pc = "calling"]
    /\ UNCHANGED <<mode, stage, awaited, ledger, raised, outcome>>

-----------------------------------------------------------------------------
(* classify, embed and _with_retries *)

Answers(tier) ==
    IF tier = "triage" THEN {"fine", "serious", "unusable"} ELSE {"fine", "unusable"}

\* serious: escalation_reason finds one.  unusable: the output is truncated or
\* cannot be parsed, or the number of vectors is not that of the texts.
Answer(t) ==
    /\ task[t].pc = "calling"
    /\ \E answer \in Answers(task[t].tier) :
        task' = [task EXCEPT ![t].pc = "answered", ![t].answer = answer]
    /\ UNCHANGED <<mode, stage, awaited, ledger, raised, outcome>>

Failed(t, error) == task' = [task EXCEPT ![t].pc = "failed", ![t].error = error]

\* A transient error, a pause, and the same call once more, up to the limit.
CallAgain(t) ==
    /\ task[t].pc = "calling"
    /\ IF task[t].attempt < MaxAttempts
       THEN task' = [task EXCEPT ![t].attempt = @ + 1]
       ELSE Failed(t, "transient")
    /\ UNCHANGED <<mode, stage, awaited, ledger, raised, outcome>>

\* Any other error of the backend is not tried again.
CallBreaks(t) ==
    /\ task[t].pc = "calling"
    /\ Failed(t, "broken")
    /\ UNCHANGED <<mode, stage, awaited, ledger, raised, outcome>>

\* An answer that was paid for, and raises before it is recorded: its model has no
\* price, or the backend itself misses vectors.
Refuse(t) ==
    /\ task[t].pc = "calling"
    /\ task' = [task EXCEPT ![t] = [@ EXCEPT !.pc = "failed", !.answer = "refused",
                                             !.error = "broken"]]
    /\ UNCHANGED <<mode, stage, awaited, ledger, raised, outcome>>

\* Any other answer is recorded, whatever it is worth.
Book(t) == ledger' = ledger \union {<<t, task[t].tier>>}

-----------------------------------------------------------------------------
(* _review_batch, and what embed makes of an answer *)

\* Triage gives a reason: no findings, serious ones, or ones it is not sure of.
WantsEscalation(t) ==
    task[t].tier = "triage" /\ task[t].answer \in {"serious", "unusable"}

\* Usable findings, of the escalation or, if those are not usable, of triage.
Suffices(t) ==
    \/ task[t].answer = "fine"
    \/ task[t].tier = "escalation" /\ task[t].triage = "serious"

Escalate(t) ==
    /\ task[t].pc = "answered" /\ WantsEscalation(t)
    /\ Book(t)
    /\ task' = [task EXCEPT ![t] = [@ EXCEPT !.pc = "calling", !.tier = "escalation",
                                             !.attempt = 1, !.answer = "none",
                                             !.triage = task[t].answer]]
    /\ UNCHANGED <<mode, stage, awaited, raised, outcome>>

\* Bug: what was answered is only recorded if it can be used.
DiscardUnbooked(t) ==
    /\ task[t].pc = "answered" /\ ~WantsEscalation(t) /\ ~Suffices(t)
    /\ Failed(t, IF IsEmbed(t) THEN "broken" ELSE "unparseable")
    /\ UNCHANGED <<mode, stage, awaited, ledger, raised, outcome>>

Finish(t) ==
    /\ task[t].pc = "answered" /\ Suffices(t)
    /\ Book(t)
    /\ task' = [task EXCEPT ![t].pc = "done"]
    /\ UNCHANGED <<mode, stage, awaited, raised, outcome>>

Discard(t) ==
    /\ task[t].pc = "answered" /\ ~WantsEscalation(t) /\ ~Suffices(t)
    /\ Book(t)
    /\ Failed(t, IF IsEmbed(t) THEN "broken" ELSE "unparseable")
    /\ UNCHANGED <<mode, stage, awaited, raised, outcome>>

-----------------------------------------------------------------------------
(* run *)

\* The task is one of the pool that run is waiting for.
Awaits(t) == t = awaited /\ stage = IF IsEmbed(t) THEN "embed" ELSE "review"

LastOfPool(t) == t = IF IsEmbed(t) THEN Embeds ELSE Embeds + Batches

\* The next result.  After the last vector comes the search.
AwaitDone(t) ==
    /\ Awaits(t) /\ task[t].pc = "done"
    /\ awaited' = t + 1
    /\ stage' = IF LastOfPool(t) /\ IsEmbed(t) THEN "search" ELSE stage
    /\ UNCHANGED <<mode, task, ledger, raised, outcome>>

\* Bug: results are awaited as they come.
AwaitFailedAny(t) ==
    /\ stage = (IF IsEmbed(t) THEN "embed" ELSE "review") /\ task[t].pc = "failed"
    /\ task' = [u \in Task |-> IF task[u].pc = "queued"
                              THEN [task[u] EXCEPT !.pc = "cancelled"] ELSE task[u]]
    /\ IF IsEmbed(t)
       THEN stage' = "ended" /\ outcome' = task[t].error /\ UNCHANGED raised
       ELSE stage' = "closing" /\ raised' = task[t].error /\ UNCHANGED outcome
    /\ UNCHANGED <<mode, awaited, ledger>>

\* The tasks that have not started are cancelled.  An embedding that failed
\* ends the run at once.
AwaitFailed(t) ==
    /\ Awaits(t) /\ task[t].pc = "failed"
    /\ task' = [u \in Task |-> IF task[u].pc = "queued"
                              THEN [task[u] EXCEPT !.pc = "cancelled"] ELSE task[u]]
    /\ IF IsEmbed(t)
       THEN stage' = "ended" /\ outcome' = task[t].error /\ UNCHANGED raised
       ELSE stage' = "closing" /\ raised' = task[t].error /\ UNCHANGED outcome
    /\ UNCHANGED <<mode, awaited, ledger>>

\* One query for all chunks, recorded if bytes were billed for it; then the
\* batches are given to their pool.
Search ==
    /\ stage = "search"
    /\ ledger' \in {ledger, ledger \union {<<0, "vector_search">>}}
    /\ task' = [t \in Task |-> IF IsEmbed(t) THEN task[t] ELSE [task[t] EXCEPT !.pc = "queued"]]
    /\ stage' = "review"
    /\ UNCHANGED <<mode, awaited, raised, outcome>>

SearchFails ==
    /\ stage = "search"
    /\ outcome' \in {"transient", "broken"}
    /\ stage' = "ended"
    /\ UNCHANGED <<mode, task, awaited, ledger, raised>>

\* Bug: the pool is shut down without waiting.
CloseAtOnce ==
    /\ stage = "closing"
    /\ outcome' = raised
    /\ stage' = "ended"
    /\ UNCHANGED <<mode, task, awaited, ledger, raised>>

\* Bug: the batches that were cancelled are waited for too.
CloseWaitsForAll ==
    /\ stage = "closing"
    /\ \A t \in Task : ~IsEmbed(t) => task[t].pc \in {"done", "failed"}
    /\ outcome' = raised
    /\ stage' = "ended"
    /\ UNCHANGED <<mode, task, awaited, ledger, raised>>

\* Leaving the with block waits for the batches at work.
Close ==
    /\ stage = "closing"
    /\ \A t \in Task : ~IsEmbed(t) => ~Running(t)
    /\ outcome' = raised
    /\ stage' = "ended"
    /\ UNCHANGED <<mode, task, awaited, ledger, raised>>

\* All results are there: validate, deduplicate, score.
Complete ==
    /\ stage = "review" /\ awaited = Embeds + Batches + 1
    /\ outcome' = "done"
    /\ stage' = "ended"
    /\ UNCHANGED <<mode, task, awaited, ledger, raised>>

-----------------------------------------------------------------------------
TaskStep(t) ==
    \/ Take(t)
    \/ Answer(t) \/ CallAgain(t) \/ CallBreaks(t) \/ Refuse(t)
    \/ Escalate(t) \/ Finish(t) \/ Discard(t)

RunStep ==
    \/ \E t \in Task : AwaitDone(t) \/ AwaitFailed(t)
    \/ Search \/ SearchFails
    \/ Close \/ Complete

Next == (\E t \in Task : TaskStep(t)) \/ RunStep

Spec == Init /\ [][Next]_vars

\* Threads run, and a call returns or times out.
FairSpec == Spec /\ WF_vars(RunStep) /\ \A t \in Task : WF_vars(TaskStep(t))

-----------------------------------------------------------------------------
(* Properties *)

\* Tasks, ledger and outcome have the shape the code gives them.
TypeOK ==
    /\ mode \in {"tiered", "baseline"}
    /\ stage \in {"embed", "search", "review", "closing", "ended"}
    /\ task \in [Task -> TaskState]
    /\ awaited \in 1..Embeds + Batches + 1
    /\ ledger \subseteq (Task \X Tier) \union {<<0, "vector_search">>}
    /\ raised \in Error \union {"none"}
    /\ outcome \in Error \union {"none", "done"}

\* How a run ends does not depend on which of its tasks is done first: a failed
\* run raises what its first failed task raised, in the order of the file, and a
\* run that is done has all of them (run, which retries or fails the review by
\* that error).
FirstFailureDecides ==
    /\ outcome = "done" => \A t \in Task : task[t].pc = "done"
    /\ outcome \in Error /\ (\E t \in Task : task[t].pc = "failed") =>
        \E t \in Task :
            /\ task[t].pc = "failed" /\ task[t].error = outcome
            /\ \A u \in Task : u < t => task[u].pc = "done"

\* The cost of a run is known when it ends: no call is recorded after the end
\* (the shut-down of the pool, before cost_record reads the ledger).
CostIsFinal == [][outcome # "none" => ledger' = ledger]_vars

\* The shut-down of the first pool may leave other batches of embeddings at work.
LeftBehind(t) == IsEmbed(t) /\ Embeds > 1

\* A run that is over has paid for what was answered in either tier, except for
\* what a failed embedding left at work and what was refused: nothing is lost to an
\* answer that cannot be used (classify, embed).
AnsweredIsBooked ==
    outcome # "none" =>
        \A t \in Task : outcome = "done" \/ ~LeftBehind(t) =>
            /\ task[t].answer \notin {"none", "refused"} => <<t, task[t].tier>> \in ledger
            /\ task[t].triage # "none" => <<t, "triage">> \in ledger

\* A run that is over has an entry in its ledger for every call it was billed for,
\* but for what a failed embedding left at work.  The price is looked up before
\* the entry is made, and the backend checks an answer before either (classify,
\* embed).
EveryCallIsBooked ==
    outcome # "none" =>
        \A t \in Task : task[t].answer # "none" /\ ~LeftBehind(t) =>
            <<t, task[t].tier>> \in ledger

\* A run ends, whatever the models answer (_with_retries, run).
RunEnds == <>(outcome # "none")

\* The run does what the worker counts on.
ReviewsPart(call, part) == call[1] = part

Run == INSTANCE ReviewRun WITH
    Call <- (Task \X Tier) \union {<<0, "vector_search">>},
    Late <- {t \in Task : LeftBehind(t)} \X Tier,
    Part <- {t \in Task : ~IsEmbed(t)},
    Reviews <- ReviewsPart,
    paid <- ledger

RunsAsPromised == Run!RunSpec

=============================================================================
