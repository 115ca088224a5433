------------------------ MODULE ReviewLifecycleProofs ------------------------
(***************************************************************************)
(* What holds of ReviewLifecycle for any number of users, reviews,         *)
(* requests and deliveries.  Under every fault: documents keep their       *)
(* shape, a running review has a lease, a review shows a result of its     *)
(* own, no user has more fresh reviews than the cap, and the deliveries    *)
(* bound the costs.  In a timely environment: at most one delivery         *)
(* processes a review, a done review stays done, the cache serves what its *)
(* source shows, and nothing is reported twice.                            *)
(***************************************************************************)
EXTENDS ReviewLifecycle, FiniteSums, TLAPS

-----------------------------------------------------------------------------
(* Type correctness, one part for each group of variables *)

DocsOK == review \in [Review -> ReviewDoc]

\* Whoever is busy is busy with a review that exists.
ApiOK ==
    /\ api \in [Handler -> ApiState]
    /\ \A h \in Handler : api[h].pc # "idle" => api[h].review \in Review

WorkOK ==
    /\ work \in [Worker -> WorkState]
    /\ \A w \in Worker :
        /\ work[w].pc # "idle" => work[w].review \in Review
        /\ work[w].pc \in {"running", "cache"} => work[w].run \in Run
        /\ work[w].pc = "emit" => work[w].outcome \in {"done", "failed"}

TasksOK == tasks \in [Review -> [Generation -> TaskState]]

SharedOK ==
    /\ stalled \in SUBSET Review
    /\ cache \in [Key -> Run \union {None}]
    /\ usage \in [User -> Nat]
    /\ faults \in Nat

BooksOK ==
    /\ rows \in [Review -> [{"done", "failed"} -> Nat]]
    /\ spent \in [Review -> Nat]

TypeInv == DocsOK /\ ApiOK /\ WorkOK /\ TasksOK /\ SharedOK /\ BooksOK

LEMMA InitialTypes ==
    /\ NoReview \in ReviewDoc
    /\ IdleHandler \in ApiState
    /\ IdleWorker \in WorkState
    /\ NoTask \in TaskState
  BY ConstantsAssumption DEF NoReview, ReviewDoc, IdleHandler, ApiState,
     IdleWorker, WorkState, NoTask, TaskState, Generation

LEMMA InitTypeInv == Init => TypeInv
  BY InitialTypes, ConstantsAssumption
     DEF Init, TypeInv, DocsOK, ApiOK, WorkOK, TasksOK, SharedOK, BooksOK,
         IdleHandler, IdleWorker

-----------------------------------------------------------------------------
(* What the building blocks of the actions keep *)

LEMMA WriteOK ==
    ASSUME DocsOK, NEW r, NEW doc \in ReviewDoc, Write(r, doc)
    PROVE  DocsOK'
  BY DEF DocsOK, Write

LEMMA GotoOK ==
    ASSUME ApiOK, NEW h \in Handler, api[h].pc # "idle",
           NEW pc \in {"row", "create", "enqueue", "undo"}, Goto(h, pc)
    PROVE  ApiOK'
  BY DEF ApiOK, Goto, ApiState

LEMMA FinishOK ==
    ASSUME ApiOK, NEW h \in Handler, Finish(h)
    PROVE  ApiOK'
  BY InitialTypes DEF ApiOK, Finish, IdleHandler

LEMMA InjectOK ==
    ASSUME SharedOK, NEW kind, Inject(kind)
    PROVE  faults' \in Nat
  BY DEF SharedOK, Inject

LEMMA StepOK ==
    ASSUME WorkOK, NEW w \in Worker, work[w].pc # "idle", Step(w, "respond")
    PROVE  WorkOK'
  BY DEF WorkOK, Step, WorkState

LEMMA IdleOK ==
    ASSUME WorkOK, NEW w \in Worker, work' = [work EXCEPT ![w] = IdleWorker]
    PROVE  WorkOK'
  BY InitialTypes DEF WorkOK, IdleWorker

LEMMA ChargeOK ==
    ASSUME BooksOK, NEW r \in Review, NEW c \in Spend, Charge(r, c)
    PROVE  spent' \in [Review -> Nat]
  <1>1. c \in Nat
    BY ConstantsAssumption
  <1>2. spent[r] + c \in Nat
    BY <1>1 DEF BooksOK
  <1>3. QED
    BY <1>2 DEF BooksOK, Charge

LEMMA AddRowOK ==
    ASSUME BooksOK, NEW r \in Review, NEW status \in {"done", "failed"}, AddRow(r, status)
    PROVE  rows' \in [Review -> [{"done", "failed"} -> Nat]]
  <1>1. rows[r] \in [{"done", "failed"} -> Nat]
    BY DEF BooksOK
  <1>2. [rows[r] EXCEPT ![status] = @ + 1] \in [{"done", "failed"} -> Nat]
    BY <1>1
  <1>3. rows' = [rows EXCEPT ![r] = [rows[r] EXCEPT ![status] = @ + 1]]
    BY DEF AddRow, BooksOK
  <1>4. QED
    BY <1>2, <1>3 DEF BooksOK

LEMMA TaskUpdate ==
    ASSUME TasksOK, NEW r \in Review, NEW g \in Generation, NEW after \in TaskState,
           tasks' = [tasks EXCEPT ![r][g] = after]
    PROVE  TasksOK'
  <1>1. [tasks[r] EXCEPT ![g] = after] \in [Generation -> TaskState]
    BY DEF TasksOK
  <1>2. tasks' = [tasks EXCEPT ![r] = [tasks[r] EXCEPT ![g] = after]]
    BY DEF TasksOK
  <1>3. QED
    BY <1>1, <1>2 DEF TasksOK

LEMMA SettleOK ==
    ASSUME TasksOK, WorkOK, NEW w \in Worker, work[w].pc # "idle",
           NEW after \in TaskState, Settle(w, after)
    PROVE  TasksOK'
  <1>1. work[w].review \in Review /\ work[w].generation \in Generation
    BY DEF WorkOK, WorkState
  <1>2. CASE TaskOf(w).holder = w
    BY <1>1, <1>2, TaskUpdate DEF Settle
  <1>3. CASE TaskOf(w).holder # w
    BY <1>3 DEF Settle, TasksOK
  <1>4. QED
    BY <1>2, <1>3

LEMMA TaskTypes ==
    ASSUME NEW task \in TaskState
    PROVE  Requeued(task) \in TaskState /\ Completed(task) \in TaskState
  BY DEF TaskState, Requeued, Completed


-----------------------------------------------------------------------------
(* Every action keeps the types *)

\* The documents the handlers write.
LEMMA HandlerDocs ==
    ASSUME DocsOK, ApiOK, NEW h \in Handler, api[h].pc # "idle"
    PROVE  /\ CachedDoc(api[h]) \in ReviewDoc
           /\ FreshDoc(api[h]) \in ReviewDoc
           /\ RetriedDoc(api[h].review, api[h].generation) \in ReviewDoc
           /\ [review[api[h].review] EXCEPT !.status = "failed"] \in ReviewDoc
  <1>1. api[h] \in ApiState /\ api[h].review \in Review
    BY DEF ApiOK
  <1>2. review[api[h].review] \in ReviewDoc
    BY <1>1 DEF DocsOK
  <1>3. CachedDoc(api[h]) \in ReviewDoc /\ FreshDoc(api[h]) \in ReviewDoc
    BY <1>1, InitialTypes DEF CachedDoc, FreshDoc, NoReview, ReviewDoc, ApiState
  <1>4. RetriedDoc(api[h].review, api[h].generation) \in ReviewDoc
    BY <1>1, <1>2 DEF RetriedDoc, ReviewDoc, ApiState
  <1>5. [review[api[h].review] EXCEPT !.status = "failed"] \in ReviewDoc
    BY <1>2 DEF ReviewDoc
  <1>6. QED
    BY <1>3, <1>4, <1>5

LEMMA HandlerTypeInv ==
    ASSUME TypeInv, NEW h \in Handler, HandlerStep(h) \/ HandlerAborts(h)
    PROVE  TypeInv'
  <1> USE DEF TypeInv
  <1>1. CASE SubmitCached(h)
    <2>1. DocsOK' /\ ApiOK'
      BY <1>1, WriteOK, GotoOK, HandlerDocs DEF SubmitCached
    <2>2. WorkOK' /\ TasksOK' /\ SharedOK' /\ BooksOK'
      BY <1>1 DEF SubmitCached, WorkOK, TasksOK, SharedOK, BooksOK
    <2>3. QED BY <2>1, <2>2
  <1>2. CASE SubmitEmit(h)
    <2>1. ApiOK'
      BY <1>2, FinishOK DEF SubmitEmit
    <2>2. api[h].review \in Review
      BY <1>2 DEF SubmitEmit, ApiOK
    <2>3. BooksOK' /\ SharedOK'
      BY <1>2, <2>2, AddRowOK, InjectOK DEF SubmitEmit, BooksOK, SharedOK
    <2>4. DocsOK' /\ WorkOK' /\ TasksOK'
      BY <1>2 DEF SubmitEmit, DocsOK, WorkOK, TasksOK
    <2>5. QED BY <2>1, <2>3, <2>4
  <1>3. CASE SubmitReserve(h)
    <2>1. ApiOK'
      BY <1>3, FinishOK, GotoOK DEF SubmitReserve
    <2>2. usage' \in [User -> Nat]
      BY <1>3 DEF SubmitReserve, SharedOK
    <2>3. DocsOK' /\ WorkOK' /\ TasksOK' /\ SharedOK' /\ BooksOK'
      BY <1>3, <2>2 DEF SubmitReserve, DocsOK, WorkOK, TasksOK, SharedOK, BooksOK
    <2>4. QED BY <2>1, <2>3
  <1>4. CASE SubmitCreate(h)
    <2>1. DocsOK' /\ ApiOK'
      BY <1>4, WriteOK, GotoOK, HandlerDocs DEF SubmitCreate
    <2>2. WorkOK' /\ TasksOK' /\ SharedOK' /\ BooksOK'
      BY <1>4 DEF SubmitCreate, WorkOK, TasksOK, SharedOK, BooksOK
    <2>3. QED BY <2>1, <2>2
  <1>5. CASE RetryWrite(h)
    <2>1. DocsOK' /\ ApiOK'
      BY <1>5, WriteOK, GotoOK, HandlerDocs DEF RetryWrite
    <2>2. WorkOK' /\ TasksOK' /\ SharedOK' /\ BooksOK'
      BY <1>5 DEF RetryWrite, WorkOK, TasksOK, SharedOK, BooksOK
    <2>3. QED BY <2>1, <2>2
  <1>6. CASE Enqueue(h)
    <2>1. ApiOK'
      BY <1>6, FinishOK, GotoOK DEF Enqueue
    <2>2. faults' \in Nat
      BY <1>6, InjectOK DEF Enqueue, SharedOK
    <2>3. TasksOK'
      <3>1. api[h].review \in Review /\ api[h].generation \in Generation
        BY <1>6 DEF Enqueue, ApiOK, ApiState
      <3>2. CASE UNCHANGED tasks
        BY <3>2 DEF TasksOK
      <3>3. CASE CreateTask(api[h].review, api[h].generation)
        <4> DEFINE r == api[h].review
                   g == api[h].generation
        <4>1. [tasks[r][g] EXCEPT !.state = "ready"] \in TaskState
          <5>1. tasks[r][g] \in TaskState
            BY <3>1 DEF TasksOK
          <5>2. QED
            BY <5>1 DEF TaskState
        <4>2. CASE tasks[r][g].state = "none"
          <5>1. tasks' = [tasks EXCEPT ![r][g] = [tasks[r][g] EXCEPT !.state = "ready"]]
            BY <3>3, <4>2, <3>1 DEF CreateTask, TasksOK
          <5>2. QED BY <3>1, <4>1, <5>1, TaskUpdate
        <4>3. CASE tasks[r][g].state # "none"
          BY <3>3, <4>3 DEF CreateTask, TasksOK
        <4>4. QED BY <4>2, <4>3
      <3>4. QED BY <1>6, <3>2, <3>3 DEF Enqueue
    <2>4. DocsOK' /\ WorkOK' /\ SharedOK' /\ BooksOK'
      BY <1>6, <2>2 DEF Enqueue, DocsOK, WorkOK, SharedOK, BooksOK
    <2>5. QED BY <2>1, <2>3, <2>4
  <1>7. CASE EnqueueUndo(h)
    <2>1. DocsOK' /\ ApiOK'
      BY <1>7, WriteOK, FinishOK, HandlerDocs DEF EnqueueUndo
    <2>2. WorkOK' /\ TasksOK' /\ SharedOK' /\ BooksOK'
      BY <1>7 DEF EnqueueUndo, WorkOK, TasksOK, SharedOK, BooksOK
    <2>3. QED BY <2>1, <2>2
  <1>8. CASE HandlerAborts(h)
    <2>1. ApiOK' /\ SharedOK'
      BY <1>8, FinishOK, InjectOK DEF HandlerAborts, SharedOK
    <2>2. DocsOK' /\ WorkOK' /\ TasksOK' /\ BooksOK'
      BY <1>8 DEF HandlerAborts, DocsOK, WorkOK, TasksOK, BooksOK
    <2>3. QED BY <2>1, <2>2
  <1>9. QED
    BY <1>1, <1>2, <1>3, <1>4, <1>5, <1>6, <1>7, <1>8 DEF HandlerStep

LEMMA ClaimedDocType ==
    ASSUME DocsOK, NEW r \in Review
    PROVE  ClaimedDoc(r) \in ReviewDoc
  <1>1. review[r] \in ReviewDoc
    BY DEF DocsOK
  <1>2. review[r].attempts + 1 \in Nat
    BY <1>1 DEF ReviewDoc
  <1>3. ClaimedDoc(r) = [review[r] EXCEPT !.status = "running",
                           !.attempts = review[r].attempts + 1, !.lease = "live"]
    BY <1>1 DEF ClaimedDoc, ReviewDoc
  <1>4. QED
    BY <1>1, <1>2, <1>3 DEF ReviewDoc

\* The documents the workers and the clock write.
LEMMA WorkerDocs ==
    ASSUME DocsOK, NEW r \in Review, NEW run \in Run, NEW c \in Spend
    PROVE  /\ ClaimedDoc(r) \in ReviewDoc
           /\ DoneDoc(r, run, c) \in ReviewDoc
           /\ FailedDoc(r, c) \in ReviewDoc
           /\ RequeuedDoc(r) \in ReviewDoc
  <1>1. review[r] \in ReviewDoc
    BY DEF DocsOK
  <1>2. c \in Nat
    BY ConstantsAssumption
  <1>3. ClaimedDoc(r) \in ReviewDoc
    BY ClaimedDocType
  <1>4. DoneDoc(r, run, c) \in ReviewDoc
    BY <1>1, <1>2 DEF DoneDoc, ReviewDoc
  <1>5. FailedDoc(r, c) \in ReviewDoc
    BY <1>1, <1>2 DEF FailedDoc, ReviewDoc
  <1>6. RequeuedDoc(r) \in ReviewDoc
    BY <1>1 DEF RequeuedDoc, ReviewDoc
  <1>7. QED
    BY <1>3, <1>4, <1>5, <1>6

\* A run that is over is about to be reported.
LEMMA EmitsNext ==
    ASSUME WorkOK, NEW w \in Worker, NEW o \in {"done", "failed"}, work[w].pc # "idle",
           work' = [work EXCEPT ![w].pc = "emit", ![w].outcome = o]
    PROVE  WorkOK'
  <1>1. work[w] \in WorkState /\ work[w].review \in Review
    BY DEF WorkOK
  <1>2. /\ work'[w] = [work[w] EXCEPT !.pc = "emit", !.outcome = o]
        /\ \A v \in Worker \ {w} : work'[v] = work[v]
        /\ DOMAIN work' = Worker /\ work' = [v \in Worker |-> work'[v]]
    BY DEF WorkOK
  <1>3. /\ work'[w] \in WorkState /\ work'[w].pc = "emit"
        /\ work'[w].outcome = o /\ work'[w].review \in Review
    BY <1>1, <1>2 DEF WorkState
  <1>4. work' \in [Worker -> WorkState]
    <2>1. \A v \in Worker : work'[v] \in WorkState
      BY <1>2, <1>3 DEF WorkOK
    <2>2. QED BY <1>2, <2>1
  <1>5. QED
    BY <1>2, <1>3, <1>4 DEF WorkOK

LEMMA FailOK ==
    ASSUME DocsOK, WorkOK, NEW w \in Worker, NEW c \in Spend,
           work[w].pc = "running", Fail(w, c)
    PROVE  DocsOK' /\ WorkOK'
  <1>1. work[w].review \in Review /\ work[w].run \in Run
    BY DEF WorkOK
  <1>2. DocsOK'
    BY <1>1, WriteOK, WorkerDocs DEF Fail
  <1>3. WorkOK'
    BY EmitsNext DEF Fail
  <1>4. QED
    BY <1>2, <1>3

LEMMA ClaimTypeInv ==
    ASSUME TypeInv, NEW w \in Worker, Claim(w)
    PROVE  TypeInv'
  <1> DEFINE r == work[w].review
  <1> USE DEF TypeInv
  <1>1. r \in Review
    BY DEF Claim, WorkOK
  <1>2. TasksOK' /\ ApiOK' /\ SharedOK' /\ BooksOK'
    BY DEF Claim, TasksOK, ApiOK, SharedOK, BooksOK
  <1>3. CASE Claimable(r)
    <2>1. review[r] \in ReviewDoc
      BY <1>1 DEF DocsOK
    <2>2. <<r, review[r].generation, review[r].attempts + 1>> \in Run
      BY <1>1, <2>1 DEF Run, ReviewDoc
    <2>3. ClaimedDoc(r) \in ReviewDoc
      BY <1>1, ClaimedDocType
    <2>4. DocsOK'
      BY <1>1, <1>3, <2>3, WriteOK DEF Claim
    <2>5. WorkOK'
      BY <1>1, <1>3, <2>2 DEF Claim, WorkOK, WorkState
    <2>6. QED BY <1>2, <2>4, <2>5
  <1>4. CASE ~Claimable(r)
    BY <1>2, <1>4 DEF Claim, DocsOK, WorkOK, WorkState
  <1>5. QED
    BY <1>3, <1>4

LEMMA RunTypeInv ==
    ASSUME TypeInv, NEW w \in Worker, RunEnds(w)
    PROVE  TypeInv'
  <1> USE DEF TypeInv
  <1>1. PICK c \in Spend : RunDone(w, c) \/ RunFailed(w, c) \/ RunTransient(w, c)
    BY DEF RunEnds
  <1>2. work[w].pc = "running" /\ work[w].review \in Review /\ work[w].run \in Run
    BY <1>1 DEF RunDone, RunFailed, RunTransient, WorkOK
  <1>3. ApiOK' /\ TasksOK' /\ SharedOK' /\ BooksOK'
    <2>1. Charge(work[w].review, c) /\ UNCHANGED <<stalled, cache, usage, rows, api, tasks, faults>>
      BY <1>1 DEF RunDone, RunFailed, RunTransient
    <2>2. QED
      BY <1>2, <2>1, ChargeOK DEF ApiOK, TasksOK, SharedOK, BooksOK
  <1>4. CASE RunDone(w, c)
    <2>1. DocsOK'
      BY <1>2, <1>4, WriteOK, WorkerDocs DEF RunDone
    <2>2. WorkOK'
      BY <1>2, <1>4 DEF RunDone, Step, WorkOK, WorkState
    <2>3. QED BY <1>3, <2>1, <2>2
  <1>5. CASE RunFailed(w, c)
    BY <1>2, <1>3, <1>5, FailOK DEF RunFailed
  <1>6. CASE RunTransient(w, c)
    <2>1. CASE LastAttempt(work[w].run)
      BY <1>2, <1>3, <1>6, <2>1, FailOK DEF RunTransient
    <2>2. CASE ~LastAttempt(work[w].run)
      <3>1. DocsOK'
        BY <1>2, <1>6, <2>2, WriteOK, WorkerDocs DEF RunTransient
      <3>2. WorkOK'
        BY <1>2, <1>6, <2>2 DEF RunTransient, WorkOK, WorkState
      <3>3. QED BY <1>3, <3>1, <3>2
    <2>3. QED BY <2>1, <2>2
  <1>7. QED
    BY <1>1, <1>4, <1>5, <1>6

LEMMA WorkerTypeInv ==
    ASSUME TypeInv, NEW w \in Worker, WorkerStep(w) \/ WorkerAborts(w)
    PROVE  TypeInv'
  <1> USE DEF TypeInv
  <1>1. CASE PutCache(w)
    <2>1. work[w].run \in Run
      BY <1>1 DEF PutCache, WorkOK
    <2>2. cache' \in [Key -> Run \union {None}]
      BY <1>1, <2>1 DEF PutCache, SharedOK
    <2>3. WorkOK'
      BY <1>1, EmitsNext DEF PutCache
    <2>4. DocsOK' /\ ApiOK' /\ TasksOK' /\ SharedOK' /\ BooksOK'
      BY <1>1, <2>2 DEF PutCache, DocsOK, ApiOK, TasksOK, SharedOK, BooksOK
    <2>5. QED BY <2>3, <2>4
  <1>2. CASE WorkerEmit(w)
    <2>1. WorkOK'
      BY <1>2, StepOK DEF WorkerEmit
    <2>2. work[w].review \in Review /\ work[w].outcome \in {"done", "failed"}
      BY <1>2 DEF WorkerEmit, WorkOK
    <2>3. BooksOK' /\ SharedOK'
      BY <1>2, <2>2, AddRowOK, InjectOK DEF WorkerEmit, BooksOK, SharedOK
    <2>4. DocsOK' /\ ApiOK' /\ TasksOK'
      BY <1>2 DEF WorkerEmit, DocsOK, ApiOK, TasksOK
    <2>5. QED BY <2>1, <2>3, <2>4
  <1>3. ASSUME work[w].pc # "idle"
        PROVE  Requeued(TaskOf(w)) \in TaskState /\ Completed(TaskOf(w)) \in TaskState
    <2>1. work[w].review \in Review /\ work[w].generation \in Generation
      BY <1>3 DEF WorkOK, WorkState
    <2>2. TaskOf(w) \in TaskState
      BY <2>1 DEF TaskOf, TasksOK
    <2>3. QED BY <2>2, TaskTypes
  <1>4. CASE Respond(w)
    <2>1. WorkOK'
      BY <1>4, IdleOK DEF Respond
    <2>2. TasksOK'
      BY <1>3, <1>4, SettleOK DEF Respond
    <2>3. DocsOK' /\ ApiOK' /\ SharedOK' /\ BooksOK'
      BY <1>4 DEF Respond, DocsOK, ApiOK, SharedOK, BooksOK
    <2>4. QED BY <2>1, <2>2, <2>3
  <1>5. CASE WorkerAborts(w)
    <2>1. WorkOK'
      BY <1>5, IdleOK DEF WorkerAborts
    <2>2. TasksOK'
      BY <1>3, <1>5, SettleOK DEF WorkerAborts
    <2>3. BooksOK'
      BY <1>5, ChargeOK DEF WorkerAborts, BooksOK, WorkOK
    <2>4. DocsOK' /\ ApiOK' /\ SharedOK'
      BY <1>5, InjectOK DEF WorkerAborts, DocsOK, ApiOK, SharedOK
    <2>5. QED BY <2>1, <2>2, <2>3, <2>4
  <1>6. QED
    BY <1>1, <1>2, <1>4, <1>5, ClaimTypeInv, RunTypeInv DEF WorkerStep

\* The steps of the queue, of the clock, and of requests that begin.
LEMMA EnvironmentTypeInv ==
    ASSUME TypeInv,
           \/ \E h \in Handler, u \in User, c \in Content, r \in Review : SubmitLookup(h, u, c, r)
           \/ \E h \in Handler, r \in Review : RetryRead(h, r)
           \/ \E w \in Worker, r \in Review, g \in Generation : Deliver(w, r, g)
           \/ \E r \in Review, g \in Generation : Redeliver(r, g)
           \/ \E r \in Review : LeaseExpires(r) \/ StallElapses(r)
    PROVE  TypeInv'
  <1> USE DEF TypeInv
  <1>1. ASSUME NEW h \in Handler, NEW u \in User, NEW c \in Content, NEW r \in Review,
               SubmitLookup(h, u, c, r)
        PROVE  TypeInv'
    <2>1. CacheKey(u, c) \in Key
      BY DEF CacheKey, Key
    <2>2. cache[CacheKey(u, c)] \in Run \union {None}
      BY <2>1 DEF SharedOK
    <2>3. 0 \in Generation
      BY ConstantsAssumption DEF Generation
    <2>4. ApiOK'
      BY <1>1, <2>2, <2>3 DEF SubmitLookup, ApiOK, ApiState
    <2>5. DocsOK' /\ WorkOK' /\ TasksOK' /\ SharedOK' /\ BooksOK'
      BY <1>1 DEF SubmitLookup, DocsOK, WorkOK, TasksOK, SharedOK, BooksOK
    <2>6. QED BY <2>4, <2>5
  <1>2. ASSUME NEW h \in Handler, NEW r \in Review, RetryRead(h, r)
        PROVE  TypeInv'
    <2>1. review[r].generation + 1 \in Generation
      <3>1. review[r].generation \in 0..MaxGeneration
        BY DEF DocsOK, ReviewDoc, Generation
      <3>2. review[r].generation < MaxGeneration
        BY <1>2 DEF RetryRead
      <3>3. QED
        BY <3>1, <3>2, ConstantsAssumption DEF Generation
    <2>2. ApiOK'
      BY <1>2, <2>1, InitialTypes DEF RetryRead, ApiOK, ApiState, IdleHandler
    <2>3. DocsOK' /\ WorkOK' /\ TasksOK' /\ SharedOK' /\ BooksOK'
      BY <1>2, InjectOK DEF RetryRead, DocsOK, WorkOK, TasksOK, SharedOK, BooksOK
    <2>4. QED BY <2>2, <2>3
  <1>3. ASSUME NEW w \in Worker, NEW r \in Review, NEW g \in Generation, Deliver(w, r, g)
        PROVE  TypeInv'
    <2>1. WorkOK'
      BY <1>3, InitialTypes DEF Deliver, WorkOK, WorkState, IdleWorker
    <2>2. [state |-> "inflight", dispatches |-> tasks[r][g].dispatches + 1, holder |-> w]
            \in TaskState
      BY DEF TasksOK, TaskState
    <2>3. TasksOK'
      BY <1>3, <2>2, TaskUpdate DEF Deliver, TasksOK
    <2>4. DocsOK' /\ ApiOK' /\ SharedOK' /\ BooksOK'
      BY <1>3 DEF Deliver, DocsOK, ApiOK, SharedOK, BooksOK
    <2>5. QED BY <2>1, <2>3, <2>4
  <1>4. ASSUME NEW r \in Review, NEW g \in Generation, Redeliver(r, g)
        PROVE  TypeInv'
    <2>1. Requeued(tasks[r][g]) \in TaskState
      BY TaskTypes DEF TasksOK
    <2>2. TasksOK'
      BY <1>4, <2>1, TaskUpdate DEF Redeliver, TasksOK
    <2>3. DocsOK' /\ ApiOK' /\ WorkOK' /\ SharedOK' /\ BooksOK'
      BY <1>4, InjectOK DEF Redeliver, DocsOK, ApiOK, WorkOK, SharedOK, BooksOK
    <2>4. QED BY <2>2, <2>3
  <1>5. ASSUME NEW r \in Review, LeaseExpires(r)
        PROVE  TypeInv'
    <2>1. [review[r] EXCEPT !.lease = "expired"] \in ReviewDoc
      BY DEF DocsOK, ReviewDoc
    <2>2. DocsOK'
      BY <1>5, <2>1, WriteOK DEF LeaseExpires
    <2>3. ApiOK' /\ WorkOK' /\ TasksOK' /\ SharedOK' /\ BooksOK'
      BY <1>5, InjectOK DEF LeaseExpires, ApiOK, WorkOK, TasksOK, SharedOK, BooksOK
    <2>4. QED BY <2>2, <2>3
  <1>6. ASSUME NEW r \in Review, StallElapses(r)
        PROVE  TypeInv'
    BY <1>6, InjectOK DEF StallElapses, DocsOK, ApiOK, WorkOK, TasksOK, SharedOK, BooksOK
  <1>7. QED
    BY <1>1, <1>2, <1>3, <1>4, <1>5, <1>6

LEMMA StepTypeInv == TypeInv /\ [Next]_vars => TypeInv'
  <1> SUFFICES ASSUME TypeInv, [Next]_vars
               PROVE  TypeInv'
    OBVIOUS
  <1>1. CASE Next
    BY <1>1, HandlerTypeInv, WorkerTypeInv, EnvironmentTypeInv DEF Next
  <1>2. CASE UNCHANGED vars
    BY <1>2 DEF vars, TypeInv, DocsOK, ApiOK, WorkOK, TasksOK, SharedOK, BooksOK
  <1>3. QED
    BY <1>1, <1>2

LEMMA TypeInvariant == Spec => []TypeInv
  BY InitTypeInv, StepTypeInv, PTL DEF Spec

\* Documents, requests, deliveries and tasks keep their shape.
THEOREM TypeCorrect == Spec => []TypeOK
  <1>1. TypeInv => TypeOK
    BY DEF TypeInv, TypeOK, DocsOK, ApiOK, WorkOK, TasksOK, SharedOK, BooksOK
  <1>2. QED
    BY <1>1, TypeInvariant, PTL

-----------------------------------------------------------------------------
(* Leases *)

\* A write that keeps RunningHasLease: not to running, or under a lease.
Leased(doc) == doc.status = "running" => doc.lease # "none"

LEMMA WriteLeased ==
    ASSUME DocsOK, RunningHasLease, NEW r, NEW doc, Write(r, doc), Leased(doc)
    PROVE  RunningHasLease'
  BY DEF DocsOK, RunningHasLease, Write, Leased

LEMMA DocsLeased ==
    ASSUME DocsOK, NEW r \in Review
    PROVE  /\ \A a : Leased(CachedDoc(a)) /\ Leased(FreshDoc(a))
           /\ \A g : Leased(RetriedDoc(r, g))
           /\ Leased([review[r] EXCEPT !.status = "failed"])
           /\ Leased(ClaimedDoc(r)) /\ Leased(RequeuedDoc(r))
           /\ \A c : Leased(FailedDoc(r, c)) /\ \A run : Leased(DoneDoc(r, run, c))
           /\ Leased([review[r] EXCEPT !.lease = "expired"])
  <1> USE DEF DocsOK, ReviewDoc, Leased
  <1>1. \A a : Leased(CachedDoc(a)) /\ Leased(FreshDoc(a))
    BY DEF CachedDoc, FreshDoc, NoReview
  <1>2. \A g : Leased(RetriedDoc(r, g))
    BY DEF RetriedDoc
  <1>3. Leased(ClaimedDoc(r)) /\ Leased(RequeuedDoc(r))
    BY DEF ClaimedDoc, RequeuedDoc
  <1>4. \A c : Leased(FailedDoc(r, c)) /\ \A run : Leased(DoneDoc(r, run, c))
    BY DEF FailedDoc, DoneDoc
  <1>5. QED BY <1>1, <1>2, <1>3, <1>4

LEMMA HandlerLeased ==
    ASSUME TypeInv, RunningHasLease, NEW h \in Handler, HandlerStep(h) \/ HandlerAborts(h)
    PROVE  RunningHasLease'
  <1>1. api[h].pc # "idle" => api[h].review \in Review
    BY DEF TypeInv, ApiOK
  <1>2. CASE SubmitCached(h) \/ SubmitCreate(h) \/ RetryWrite(h) \/ EnqueueUndo(h)
    BY <1>1, <1>2, WriteLeased, DocsLeased
       DEF TypeInv, SubmitCached, SubmitCreate, RetryWrite, EnqueueUndo
  <1>3. CASE SubmitEmit(h) \/ SubmitReserve(h) \/ Enqueue(h) \/ HandlerAborts(h)
    BY <1>3 DEF SubmitEmit, SubmitReserve, Enqueue, HandlerAborts, RunningHasLease
  <1>4. QED BY <1>2, <1>3 DEF HandlerStep

LEMMA WorkerLeased ==
    ASSUME TypeInv, RunningHasLease, NEW w \in Worker, WorkerStep(w) \/ WorkerAborts(w)
    PROVE  RunningHasLease'
  <1>1. work[w].pc # "idle" => work[w].review \in Review
    BY DEF TypeInv, WorkOK
  <1>2. CASE Claim(w)
    BY <1>1, <1>2, WriteLeased, DocsLeased DEF TypeInv, Claim, RunningHasLease
  <1>3. ASSUME NEW c \in Spend, RunDone(w, c) \/ RunFailed(w, c) \/ RunTransient(w, c)
        PROVE  RunningHasLease'
    <2>1. work[w].review \in Review
      BY <1>1, <1>3 DEF RunDone, RunFailed, RunTransient
    <2>2. PICK doc : Write(work[w].review, doc) /\ Leased(doc)
      BY <1>3, <2>1, DocsLeased DEF TypeInv, RunDone, RunFailed, RunTransient, Fail
    <2>3. QED BY <2>2, WriteLeased DEF TypeInv
  <1>4. CASE PutCache(w) \/ WorkerEmit(w) \/ Respond(w) \/ WorkerAborts(w)
    BY <1>4 DEF PutCache, WorkerEmit, Respond, WorkerAborts, RunningHasLease
  <1>5. QED BY <1>2, <1>3, <1>4 DEF WorkerStep, RunEnds

\* Under every fault a running review has a lease, so that a delivery after the
\* lease can take it up again (claim_review, _claimable).
THEOREM RunningLeased == Spec => []RunningHasLease
  <1>1. Init => RunningHasLease
    BY DEF Init, RunningHasLease, NoReview
  <1>2. TypeInv /\ RunningHasLease /\ [Next]_vars => RunningHasLease'
    <2> SUFFICES ASSUME TypeInv, RunningHasLease, [Next]_vars
                 PROVE  RunningHasLease'
      OBVIOUS
    <2>1. ASSUME NEW r \in Review, LeaseExpires(r)
          PROVE  RunningHasLease'
      BY <2>1, WriteLeased, DocsLeased DEF TypeInv, LeaseExpires
    <2>2. CASE \/ \E h \in Handler, u \in User, c \in Content, r \in Review :
                   SubmitLookup(h, u, c, r)
               \/ \E h \in Handler, r \in Review : RetryRead(h, r)
               \/ \E w \in Worker, r \in Review, g \in Generation : Deliver(w, r, g)
               \/ \E r \in Review, g \in Generation : Redeliver(r, g)
               \/ \E r \in Review : StallElapses(r)
               \/ UNCHANGED vars
      BY <2>2 DEF SubmitLookup, RetryRead, Deliver, Redeliver, StallElapses, vars,
         RunningHasLease
    <2>3. QED
      BY <2>1, <2>2, HandlerLeased, WorkerLeased DEF Next
  <1>3. QED
    BY <1>1, <1>2, TypeInvariant, PTL DEF Spec

-----------------------------------------------------------------------------
(* One owner of a review at a time, in a timely environment *)

LEMMA Timely ==
    ASSUME TimelyEnvironment, NEW kind,
           kind \in {"overrun", "stall", "retryRace", "enqueue", "ambiguous"}
    PROVE  ~Inject(kind)
  BY DEF TimelyEnvironment, Inject

\* What a write to one review leaves alone.
LEMMA Written ==
    ASSUME DocsOK, NEW r \in Review, NEW doc, Write(r, doc)
    PROVE  /\ review'[r] = doc
           /\ \A q \in Review : q # r => review'[q] = review[q]
  BY DEF DocsOK, Write

LEMMA Busy ==
    ASSUME TypeInv
    PROVE  /\ None \notin Review
           /\ \A h \in Handler : api[h].pc # "idle" => api[h].review \in Review
           /\ \A w \in Worker : work[w].pc # "idle" => work[w].review \in Review
           /\ \A w \in Worker : Processing(w, work[w].review) <=> work[w].pc = "running"
  BY ConstantsAssumption DEF TypeInv, ApiOK, WorkOK, Processing

LEMMA InitSoleOwner == Init => SoleOwner
  BY DEF Init, SoleOwner, HeldOnce, RequestsAreCurrent, Current, StalledIsQuiet,
         LeaseIsHeld, ExclusiveProcessing, Processing, IdleHandler, IdleWorker

-----------------------------------------------------------------------------
(* Handlers *)

\* A handler that goes on with its review, or lets it go.
LEMMA HandlerMoves ==
    ASSUME TypeInv, SoleOwner, NEW h \in Handler, api[h].pc # "idle",
           Finish(h) \/ Goto(h, "row") \/ Goto(h, "create") \/ Goto(h, "enqueue")
    PROVE  /\ HeldOnce'
           /\ \A i \in Handler : i # h => api'[i] = api[i]
           /\ api'[h].review \in {api[h].review, None}
           /\ api'[h].review = None <=> api'[h].pc = "idle"
           /\ api'[h].pc \in {"idle", "row", "create", "enqueue"}
           /\ api'[h].pc = "create" => Goto(h, "create")
  BY Busy DEF TypeInv, ApiOK, ApiState, SoleOwner, HeldOnce, Finish, Goto, IdleHandler

LEMMA SubmittedDocs ==
    ASSUME NEW a
    PROVE  CachedDoc(a).status = "done" /\ FreshDoc(a).status = "queued"
  BY DEF CachedDoc, FreshDoc, NoReview

LEMMA SubmitStepOwner ==
    ASSUME TypeInv, SoleOwner, NEW h \in Handler,
           SubmitCached(h) \/ SubmitEmit(h) \/ SubmitReserve(h) \/ SubmitCreate(h)
    PROVE  SoleOwner' /\ (\A r \in Review : review[r].status = "done" => review'[r] = review[r])
  <1> DEFINE r == api[h].review
  <1>1. /\ api[h].pc \in {"hit", "row", "reserve", "create"}
        /\ UNCHANGED <<stalled, work, tasks>>
    BY DEF SubmitCached, SubmitEmit, SubmitReserve, SubmitCreate
  <1>2. r \in Review /\ api[h].pc # "idle"
    BY <1>1, Busy
  <1>3. Finish(h) \/ Goto(h, "row") \/ Goto(h, "create") \/ Goto(h, "enqueue")
    BY DEF SubmitCached, SubmitEmit, SubmitReserve, SubmitCreate
  <1>4. /\ \A q \in Review : q # r => review'[q] = review[q]
        /\ \/ review'[r] = review[r]
           \/ review[r].status = "absent" /\ review'[r].status \in {"done", "queued"}
    <2>1. ASSUME SubmitCached(h) \/ SubmitCreate(h)
          PROVE  /\ review[r].status = "absent"
                 /\ \E doc : Write(r, doc) /\ doc.status \in {"done", "queued"}
      <3>1. review[r].status = "absent"
        BY <2>1 DEF SubmitCached, SubmitCreate, SoleOwner, RequestsAreCurrent, Current
      <3>2. Write(r, CachedDoc(api[h])) \/ Write(r, FreshDoc(api[h]))
        BY <2>1 DEF SubmitCached, SubmitCreate
      <3>3. QED BY <3>1, <3>2, SubmittedDocs
    <2>2. CASE SubmitCached(h) \/ SubmitCreate(h)
      <3>1. PICK doc : Write(r, doc) /\ doc.status \in {"done", "queued"}
        BY <2>1, <2>2
      <3>2. QED BY <1>2, <2>1, <2>2, <3>1, Written DEF TypeInv
    <2>3. CASE SubmitEmit(h) \/ SubmitReserve(h)
      BY <2>3 DEF SubmitEmit, SubmitReserve
    <2>4. QED BY <2>2, <2>3
  <1>5. ASSUME api'[h].pc = "create"
        PROVE  review'[r] = review[r] /\ review[r].status = "absent"
    <2>1. Goto(h, "create")
      BY <1>2, <1>3, <1>5, HandlerMoves
    <2>2. SubmitReserve(h)
      BY <1>2, <2>1 DEF Goto, SubmitCached, SubmitCreate, SubmitEmit, Finish, IdleHandler,
         TypeInv, ApiOK, ApiState
    <2>3. QED
      BY <2>2 DEF SubmitReserve, SoleOwner, RequestsAreCurrent, Current
  <1>6. \A i \in Handler : i # h => api'[i] = api[i] /\ (api[i].pc # "idle" => api[i].review # r)
    BY <1>2, <1>3, HandlerMoves, Busy DEF SoleOwner, HeldOnce
  <1>7. r \notin stalled
    BY <1>1, <1>2 DEF SoleOwner, StalledIsQuiet
  <1>8. HeldOnce' /\ ExclusiveProcessing'
    BY <1>1, <1>2, <1>3, HandlerMoves DEF SoleOwner, ExclusiveProcessing, Processing
  <1>9. RequestsAreCurrent'
    <2> SUFFICES ASSUME NEW i \in Handler
                 PROVE  Current(i)'
      BY DEF RequestsAreCurrent
    <2>1. CASE i = h
      BY <1>2, <1>3, <1>5, <2>1, HandlerMoves DEF Current
    <2>2. CASE i # h /\ api[i].pc = "idle"
      BY <1>6, <2>2 DEF Current
    <2>3. CASE i # h /\ api[i].pc # "idle"
      <3>1. api'[i] = api[i] /\ review'[api[i].review] = review[api[i].review]
        BY <1>4, <1>6, <2>3, Busy
      <3>2. QED
        BY <1>1, <3>1 DEF SoleOwner, RequestsAreCurrent, Current, IsStalled
    <2>4. QED BY <2>1, <2>2, <2>3
  <1>10. StalledIsQuiet'
    <2>1. \A q \in stalled : review'[q] = review[q] /\ q # r
      BY <1>4, <1>7 DEF TypeInv, SharedOK
    <2>2. \A i \in Handler : \A q \in stalled : api'[i].review = q => api'[i].pc = "retry"
      BY <1>2, <1>3, <1>6, <2>1, HandlerMoves, Busy DEF SoleOwner, StalledIsQuiet, TypeInv, SharedOK
    <2>3. QED
      BY <1>1, <2>1, <2>2 DEF SoleOwner, StalledIsQuiet, Pending
  <1>11. LeaseIsHeld'
    BY <1>1, <1>4 DEF SoleOwner, LeaseIsHeld, Processing
  <1>12. QED
    BY <1>4, <1>8, <1>9, <1>10, <1>11 DEF SoleOwner

\* A handler step on a review nobody processes and nothing can deliver, which
\* changes at most that review.
LEMMA RetryStepOwner ==
    ASSUME TypeInv, SoleOwner, TimelyEnvironment, NEW h \in Handler,
           RetryWrite(h) \/ Enqueue(h) \/ EnqueueUndo(h) \/ HandlerAborts(h)
    PROVE  SoleOwner' /\ (\A r \in Review : review[r].status = "done" => review'[r] = review[r])
  <1> DEFINE r == api[h].review
  <1>1. api[h].pc # "idle" /\ r \in Review /\ UNCHANGED work
    BY Busy DEF RetryWrite, Enqueue, EnqueueUndo, HandlerAborts
  <1>2. Finish(h) \/ Goto(h, "enqueue")
    BY Timely DEF RetryWrite, Enqueue, EnqueueUndo, HandlerAborts, SoleOwner,
       RequestsAreCurrent, Current
  <1>3. /\ \A i \in Handler : i # h => api'[i] = api[i] /\ (api[i].pc # "idle" => api[i].review # r)
        /\ api'[h].pc \in {"idle", "enqueue"}
        /\ api'[h].pc = "enqueue" => api'[h].review = r
        /\ api'[h].pc = "idle" => api'[h].review = None
    BY <1>1, <1>2, HandlerMoves, Busy DEF SoleOwner, HeldOnce, Goto, Finish, IdleHandler,
       TypeInv, ApiOK, ApiState
  <1>4. HeldOnce' /\ ExclusiveProcessing'
    BY <1>1, <1>2, HandlerMoves DEF SoleOwner, ExclusiveProcessing, Processing
  <1>5. \A q \in Review : q # r => review'[q] = review[q] /\ (q \in stalled' <=> q \in stalled)
    BY <1>1, Written DEF RetryWrite, Enqueue, EnqueueUndo, HandlerAborts, SoleOwner,
       RequestsAreCurrent, Current, TypeInv
  <1>6. RequestsAreCurrent'
    <2> SUFFICES ASSUME NEW i \in Handler
                 PROVE  Current(i)'
      BY DEF RequestsAreCurrent
    <2>1. CASE i = h
      BY <1>3, <2>1 DEF Current
    <2>2. CASE i # h /\ api[i].pc = "idle"
      BY <1>3, <2>2 DEF Current
    <2>3. CASE i # h /\ api[i].pc # "idle"
      BY <1>3, <1>5, <2>3, Busy DEF SoleOwner, RequestsAreCurrent, Current, IsStalled
    <2>4. QED BY <2>1, <2>2, <2>3
  <1>7. \A q \in stalled' : q \in stalled /\ q \in Review /\ (q = r => review'[r] = review[r])
    BY <1>1 DEF RetryWrite, Enqueue, EnqueueUndo, HandlerAborts, SoleOwner,
       RequestsAreCurrent, Current, TypeInv, SharedOK
  <1>8. ASSUME NEW q \in stalled'
        PROVE  /\ review'[q].status # "absent"
               /\ \A i \in Handler : api'[i].review = q => api'[i].pc = "retry"
               /\ \A w \in Worker : work'[w].review # q
               /\ \A g \in Generation : ~Pending(q, g)'
    <2>1. review'[q].status # "absent" /\ \A w \in Worker : work'[w].review # q
      BY <1>1, <1>5, <1>7, <1>8 DEF SoleOwner, StalledIsQuiet
    <2>2. q = r => ~(RetryWrite(h) \/ Enqueue(h))
      BY <1>7, <1>8 DEF SoleOwner, StalledIsQuiet, RetryWrite, Enqueue
    <2>3. \A i \in Handler : api'[i].review = q => api'[i].pc = "retry"
      <3>1. q = r => api'[h].pc = "idle"
        BY <1>1, <1>2, <2>2 DEF RetryWrite, Enqueue, EnqueueUndo, HandlerAborts, Finish,
           IdleHandler, TypeInv, ApiOK
      <3>2. QED
        BY <1>1, <1>3, <1>7, <1>8, <3>1, Busy DEF SoleOwner, StalledIsQuiet
    <2>4. \A g \in Generation : tasks'[q][g] = tasks[q][g]
      <3>1. CASE Enqueue(h)
        <4>1. UNCHANGED tasks \/ tasks' = [tasks EXCEPT ![r][api[h].generation].state = "ready"]
          BY <3>1 DEF Enqueue, CreateTask
        <4>2. QED
          BY <1>1, <1>7, <1>8, <2>2, <3>1, <4>1 DEF TypeInv, TasksOK
      <3>2. CASE ~Enqueue(h)
        BY <3>2 DEF RetryWrite, EnqueueUndo, HandlerAborts
      <3>3. QED BY <3>1, <3>2
    <2>5. QED
      BY <1>7, <1>8, <2>1, <2>3, <2>4 DEF SoleOwner, StalledIsQuiet, Pending
  <1>9. StalledIsQuiet'
    BY <1>1, <1>8 DEF SoleOwner, StalledIsQuiet
  <1>10. review'[r] = review[r] \/ (RetryWrite(h) /\ review[r].status # "done"
                                      /\ \A w \in Worker : ~Processing(w, r))
    BY <1>1 DEF RetryWrite, Enqueue, EnqueueUndo, HandlerAborts, SoleOwner, LeaseIsHeld,
       RequestsAreCurrent, Current, IsStalled, StalledIsQuiet, Processing
  <1>11. LeaseIsHeld'
    BY <1>1, <1>5, <1>10 DEF SoleOwner, LeaseIsHeld, Processing
  <1>12. QED
    BY <1>4, <1>5, <1>6, <1>9, <1>10, <1>11 DEF SoleOwner

-----------------------------------------------------------------------------
(* Workers *)

\* Claiming, and ending the run one has claimed, change the review in hand:
\* it was claimable, or it was running under this worker's lease.
LEMMA ProcessStepOwner ==
    ASSUME TypeInv, SoleOwner, NEW w \in Worker, Claim(w) \/ RunEnds(w)
    PROVE  SoleOwner' /\ (\A r \in Review : review[r].status = "done" => review'[r] = review[r])
  <1> DEFINE r == work[w].review
  <1>1. /\ work[w].pc \in {"claim", "running"} /\ r \in Review
        /\ UNCHANGED <<stalled, api, tasks>>
    BY Busy DEF Claim, RunEnds, RunDone, RunFailed, RunTransient
  <1>2. r \notin stalled
    BY <1>1 DEF SoleOwner, StalledIsQuiet
  <1>3. /\ \A v \in Worker : v # w => work'[v] = work[v]
        /\ work'[w].review = r
        /\ work'[w].pc \in {"running", "respond", "cache", "emit"}
        /\ work'[w].pc = "running" => Claim(w) /\ Claimable(r)
    BY <1>1 DEF Claim, RunEnds, RunDone, RunFailed, RunTransient, Fail, Step, TypeInv,
       WorkOK, WorkState
  <1>4. /\ \A q \in Review : q # r => review'[q] = review[q]
        /\ \/ review'[r] = review[r]
           \/ /\ review[r].status \in {"queued", "running"}
              /\ review'[r].status # "absent"
    <2>1. review[r] \in ReviewDoc
      BY <1>1 DEF TypeInv, DocsOK
    <2>2. CASE Claim(w)
      <3>1. CASE Claimable(r)
        <4>1. Write(r, ClaimedDoc(r)) /\ ClaimedDoc(r).status = "running"
          BY <2>1, <2>2, <3>1 DEF Claim, ClaimedDoc, ReviewDoc
        <4>2. QED BY <1>1, <3>1, <4>1, Written DEF Claimable, TypeInv
      <3>2. CASE ~Claimable(r)
        BY <2>2, <3>2 DEF Claim
      <3>3. QED BY <3>1, <3>2
    <2>3. CASE RunEnds(w)
      <3>1. PICK c \in Spend : RunDone(w, c) \/ RunFailed(w, c) \/ RunTransient(w, c)
        BY <2>3 DEF RunEnds
      <3>2. review[r].status = "running"
        BY <3>1, <1>1 DEF RunDone, RunFailed, RunTransient, SoleOwner, LeaseIsHeld, Processing
      <3>3. /\ DoneDoc(r, work[w].run, c).status = "done"
            /\ FailedDoc(r, c).status = "failed"
            /\ RequeuedDoc(r).status = "queued"
        BY <2>1 DEF DoneDoc, FailedDoc, RequeuedDoc, ReviewDoc
      <3>4. PICK doc : Write(r, doc) /\ doc.status \in {"done", "failed", "queued"}
        BY <3>1, <3>3 DEF RunDone, RunFailed, RunTransient, Fail
      <3>5. QED BY <1>1, <3>2, <3>4, Written DEF TypeInv
    <2>4. QED BY <2>2, <2>3
  <1>5. \A v \in Worker : v # w /\ Processing(v, r) => ~(Claim(w) /\ Claimable(r)) /\ ~RunEnds(w)
    BY <1>1 DEF SoleOwner, LeaseIsHeld, ExclusiveProcessing, Claimable, RunEnds, RunDone,
       RunFailed, RunTransient, Processing
  <1>6. ExclusiveProcessing'
    <2> SUFFICES ASSUME NEW q \in Review, NEW u \in Worker, NEW v \in Worker,
                        Processing(u, q)', Processing(v, q)'
                 PROVE  u = v
      BY DEF ExclusiveProcessing
    <2>1. CASE u # w /\ v # w
      BY <1>3, <2>1 DEF SoleOwner, ExclusiveProcessing, Processing
    <2>2. ASSUME NEW x \in Worker, x # w, Processing(x, q)', Processing(w, q)'
          PROVE  FALSE
      <3>1. q = r /\ Claim(w) /\ Claimable(r)
        BY <1>3, <2>2 DEF Processing
      <3>2. Processing(x, r)
        BY <1>3, <2>2, <3>1 DEF Processing
      <3>3. QED BY <1>5, <2>2, <3>1, <3>2
    <2>3. QED BY <2>1, <2>2
  <1>7. LeaseIsHeld'
    <2> SUFFICES ASSUME NEW q \in Review, NEW v \in Worker, Processing(v, q)'
                 PROVE  review'[q].status = "running" /\ review'[q].lease = "live"
      BY DEF LeaseIsHeld
    <2>1. CASE q # r
      <3>1. v # w /\ Processing(v, q)
        BY <1>3, <2>1 DEF Processing
      <3>2. QED BY <1>4, <2>1, <3>1 DEF SoleOwner, LeaseIsHeld
    <2>2. CASE q = r /\ v # w
      <3>1. Processing(v, r)
        BY <1>3, <2>2 DEF Processing
      <3>2. UNCHANGED review
        BY <1>5, <2>2, <3>1 DEF Claim
      <3>3. QED BY <2>2, <3>1, <3>2 DEF SoleOwner, LeaseIsHeld
    <2>3. CASE q = r /\ v = w
      <3>1. Claim(w) /\ Claimable(r)
        BY <1>3, <2>3 DEF Processing
      <3>2. review[r] \in ReviewDoc
        BY <1>1 DEF TypeInv, DocsOK
      <3>3. ClaimedDoc(r).status = "running" /\ ClaimedDoc(r).lease = "live"
        BY <3>2 DEF ClaimedDoc, ReviewDoc
      <3>4. QED BY <1>1, <2>3, <3>1, <3>3, Written DEF Claim, TypeInv
    <2>4. QED BY <2>1, <2>2, <2>3
  <1>8. RequestsAreCurrent'
    <2> SUFFICES ASSUME NEW i \in Handler
                 PROVE  Current(i)'
      BY DEF RequestsAreCurrent
    <2>1. Current(i) /\ api'[i] = api[i]
      BY <1>1 DEF SoleOwner, RequestsAreCurrent
    <2>2. CASE api[i].pc = "idle"
      BY <2>1, <2>2 DEF Current
    <2>3. CASE api[i].pc # "idle" /\ review'[api[i].review] = review[api[i].review]
      BY <1>1, <2>1, <2>3 DEF Current, IsStalled
    <2>4. CASE api[i].pc # "idle" /\ api[i].review = r /\ review[r].status \in {"queued", "running"}
      BY <1>2, <2>1, <2>4 DEF Current, IsStalled
    <2>5. QED
      BY <1>4, <2>2, <2>3, <2>4, Busy
  <1>9. StalledIsQuiet'
    <2>1. \A v \in Worker : work'[v].review = None <=> work'[v].pc = "idle"
      BY <1>1, <1>3, Busy DEF SoleOwner, StalledIsQuiet
    <2>2. \A v \in Worker : work'[v].review = work[v].review
      BY <1>3
    <2>3. \A q \in stalled : review'[q] = review[q]
      BY <1>2, <1>4 DEF TypeInv, SharedOK
    <2>4. QED
      BY <1>1, <2>1, <2>2, <2>3 DEF SoleOwner, StalledIsQuiet, Pending
  <1>10. HeldOnce'
    BY <1>1 DEF SoleOwner, HeldOnce
  <1>11. QED
    BY <1>4, <1>6, <1>7, <1>8, <1>9, <1>10 DEF SoleOwner

\* A worker that is through with the review, or dies, only touches its task.
LEMMA SettleStepOwner ==
    ASSUME TypeInv, SoleOwner, NEW w \in Worker,
           PutCache(w) \/ WorkerEmit(w) \/ Respond(w) \/ WorkerAborts(w)
    PROVE  SoleOwner' /\ (\A r \in Review : review[r].status = "done" => review'[r] = review[r])
  <1> DEFINE r == work[w].review
  <1>1. work[w].pc # "idle" /\ r \in Review /\ UNCHANGED <<review, stalled, api>>
    BY Busy DEF PutCache, WorkerEmit, Respond, WorkerAborts
  <1>2. /\ \A v \in Worker : v # w => work'[v] = work[v]
        /\ \/ work'[w].review = r /\ work'[w].pc \in {"emit", "respond"}
           \/ work'[w].review = None /\ work'[w].pc = "idle"
    BY <1>1 DEF PutCache, WorkerEmit, Respond, WorkerAborts, Step, IdleWorker, TypeInv,
       WorkOK, WorkState
  <1>3. r \notin stalled
    BY <1>1 DEF SoleOwner, StalledIsQuiet
  <1>4. \A q \in stalled : tasks'[q] = tasks[q]
    <2>1. \/ UNCHANGED tasks
          \/ \E after : tasks' = [tasks EXCEPT ![r][work[w].generation] = after]
      BY DEF PutCache, WorkerEmit, Respond, WorkerAborts, Settle
    <2>2. QED
      BY <1>3, <2>1 DEF TypeInv, TasksOK, SharedOK
  <1>5. \A q \in Review, v \in Worker : Processing(v, q)' => Processing(v, q)
    BY <1>2 DEF Processing
  <1>6. ExclusiveProcessing' /\ LeaseIsHeld'
    BY <1>1, <1>5 DEF SoleOwner, ExclusiveProcessing, LeaseIsHeld
  <1>7. HeldOnce' /\ RequestsAreCurrent'
    BY <1>1 DEF SoleOwner, HeldOnce, RequestsAreCurrent, Current, IsStalled
  <1>8. StalledIsQuiet'
    <2>1. \A v \in Worker : work'[v].review = None <=> work'[v].pc = "idle"
      BY <1>1, <1>2, Busy DEF SoleOwner, StalledIsQuiet
    <2>2. \A q \in stalled : q \in Review /\ \A v \in Worker : work'[v].review # q
      BY <1>2, <1>3, Busy DEF SoleOwner, StalledIsQuiet, TypeInv, SharedOK
    <2>3. QED
      BY <1>1, <1>4, <2>1, <2>2 DEF SoleOwner, StalledIsQuiet, Pending
  <1>9. QED
    BY <1>1, <1>6, <1>7, <1>8 DEF SoleOwner

-----------------------------------------------------------------------------
(* Requests, deliveries and time *)

\* A request takes up a review no other request holds.
LEMMA RequestStepOwner ==
    ASSUME TypeInv, SoleOwner, TimelyEnvironment, NEW h \in Handler, NEW r \in Review,
           \/ \E u \in User, c \in Content : SubmitLookup(h, u, c, r)
           \/ RetryRead(h, r)
    PROVE  SoleOwner' /\ UNCHANGED review
  <1>1. /\ api[h].pc = "idle" /\ ~Held(r)
        /\ UNCHANGED <<review, stalled, work, tasks>>
    BY Timely DEF SubmitLookup, RetryRead
  <1>2. /\ \A i \in Handler : i # h => api'[i] = api[i]
        /\ api'[h].review = r
        /\ \/ api'[h].pc \in {"hit", "reserve"} /\ review[r].status = "absent"
           \/ api'[h].pc = "retry" /\ (review[r].status = "failed" \/ IsStalled(r))
    <2>1. CASE RetryRead(h, r)
      BY <2>1 DEF RetryRead, TypeInv, ApiOK, IdleHandler
    <2>2. CASE \E u \in User, c \in Content : SubmitLookup(h, u, c, r)
      BY <2>2 DEF SubmitLookup, TypeInv, ApiOK
    <2>3. QED BY <2>1, <2>2
  <1>3. HeldOnce'
    BY <1>1, <1>2, Busy DEF SoleOwner, HeldOnce, Held
  <1>4. RequestsAreCurrent'
    <2>1. Current(h)'
      BY <1>1, <1>2 DEF Current, IsStalled
    <2>2. \A i \in Handler : i # h => Current(i)'
      BY <1>1, <1>2 DEF SoleOwner, RequestsAreCurrent, Current, IsStalled
    <2>3. QED BY <2>1, <2>2 DEF RequestsAreCurrent
  <1>5. StalledIsQuiet'
    <2>1. \A q \in stalled : \A i \in Handler : api'[i].review = q => api'[i].pc = "retry"
      BY <1>2 DEF SoleOwner, StalledIsQuiet
    <2>2. QED
      BY <1>1, <2>1 DEF SoleOwner, StalledIsQuiet, Pending
  <1>6. ExclusiveProcessing' /\ LeaseIsHeld'
    BY <1>1 DEF SoleOwner, ExclusiveProcessing, LeaseIsHeld, Processing
  <1>7. QED BY <1>1, <1>3, <1>4, <1>5, <1>6 DEF SoleOwner

\* A delivery reaches a worker, or goes back to the queue.
LEMMA DeliveryStepOwner ==
    ASSUME TypeInv, SoleOwner, NEW r \in Review, NEW g \in Generation,
           (\E w \in Worker : Deliver(w, r, g)) \/ Redeliver(r, g)
    PROVE  SoleOwner' /\ UNCHANGED review
  <1>1. /\ UNCHANGED <<review, stalled, api>>
        /\ tasks[r][g].state \in {"ready", "inflight"}
        /\ \E after : tasks' = [tasks EXCEPT ![r][g] = after]
    BY DEF Deliver, Redeliver
  <1>2. r \notin stalled
    BY <1>1 DEF SoleOwner, StalledIsQuiet, Pending
  <1>3. \A v \in Worker : \/ work'[v] = work[v]
                          \/ work'[v].review = r /\ work'[v].pc = "claim"
    <2>1. CASE Redeliver(r, g)
      BY <2>1 DEF Redeliver
    <2>2. ASSUME NEW w \in Worker, Deliver(w, r, g), NEW v \in Worker
          PROVE  work'[v] = work[v] \/ (work'[v].review = r /\ work'[v].pc = "claim")
      <3>1. work \in [Worker -> WorkState]
        BY DEF TypeInv, WorkOK
      <3>2. \/ work'[v] = work[v]
            \/ work'[v] = [IdleWorker EXCEPT !.pc = "claim", !.review = r, !.generation = g]
        BY <2>2, <3>1 DEF Deliver
      <3>3. QED BY <3>2 DEF IdleWorker
    <2>3. QED BY <2>1, <2>2
  <1>4. \A q \in stalled : q \in Review /\ tasks'[q] = tasks[q]
    BY <1>1, <1>2 DEF TypeInv, TasksOK, SharedOK
  <1>5. ExclusiveProcessing' /\ LeaseIsHeld'
    <2>1. \A q \in Review, v \in Worker : Processing(v, q)' => Processing(v, q)
      BY <1>3 DEF Processing
    <2>2. QED BY <1>1, <2>1 DEF SoleOwner, ExclusiveProcessing, LeaseIsHeld
  <1>6. HeldOnce' /\ RequestsAreCurrent'
    BY <1>1 DEF SoleOwner, HeldOnce, RequestsAreCurrent, Current, IsStalled
  <1>7. StalledIsQuiet'
    <2>1. \A v \in Worker : work'[v].review = None <=> work'[v].pc = "idle"
      BY <1>3, Busy DEF SoleOwner, StalledIsQuiet
    <2>2. \A q \in stalled : \A v \in Worker : work'[v].review # q
      BY <1>2, <1>3 DEF SoleOwner, StalledIsQuiet
    <2>3. QED BY <1>1, <1>4, <2>1, <2>2 DEF SoleOwner, StalledIsQuiet, Pending
  <1>8. QED BY <1>1, <1>5, <1>6, <1>7 DEF SoleOwner

\* Time passes: a lease nobody works under, or the stall window of a review
\* nothing will move.
LEMMA TimeStepOwner ==
    ASSUME TypeInv, SoleOwner, TimelyEnvironment, NEW r \in Review,
           LeaseExpires(r) \/ StallElapses(r)
    PROVE  /\ SoleOwner'
           /\ \A q \in Review : /\ review'[q].status = review[q].status
                                /\ review'[q].result = review[q].result
  <1>1. CASE LeaseExpires(r)
    <2>1. /\ \A w \in Worker : ~Processing(w, r)
          /\ UNCHANGED <<stalled, api, work, tasks>>
      BY <1>1, Timely DEF LeaseExpires
    <2>2. /\ \A q \in Review : q # r => review'[q] = review[q]
          /\ \A q \in Review : /\ review'[q].status = review[q].status
                               /\ review'[q].result = review[q].result
      BY <1>1 DEF LeaseExpires, Write, TypeInv, DocsOK, ReviewDoc
    <2>3. ExclusiveProcessing' /\ LeaseIsHeld'
      BY <2>1, <2>2 DEF SoleOwner, ExclusiveProcessing, LeaseIsHeld, Processing
    <2>4. HeldOnce' /\ StalledIsQuiet'
      BY <2>1, <2>2 DEF SoleOwner, HeldOnce, StalledIsQuiet, Pending, TypeInv, SharedOK
    <2>5. RequestsAreCurrent'
      <3>1. \A i \in Handler : api[i].pc # "idle" => Current(i)'
        BY <2>1, <2>2, Busy DEF SoleOwner, RequestsAreCurrent, Current, IsStalled
      <3>2. \A i \in Handler : api[i].pc = "idle" => Current(i)'
        BY <2>1 DEF Current
      <3>3. QED BY <3>1, <3>2 DEF RequestsAreCurrent
    <2>6. QED BY <2>2, <2>3, <2>4, <2>5 DEF SoleOwner
  <1>2. CASE StallElapses(r)
    <2>1. /\ Abandoned(r) /\ review[r].status # "absent"
          /\ stalled' = stalled \union {r}
          /\ UNCHANGED <<review, api, work, tasks>>
      BY <1>2, Timely DEF StallElapses
    <2>2. ExclusiveProcessing' /\ LeaseIsHeld' /\ HeldOnce'
      BY <2>1 DEF SoleOwner, ExclusiveProcessing, LeaseIsHeld, HeldOnce, Processing
    <2>3. RequestsAreCurrent'
      BY <2>1 DEF SoleOwner, RequestsAreCurrent, Current, IsStalled
    <2>4. StalledIsQuiet'
      BY <2>1 DEF SoleOwner, StalledIsQuiet, Abandoned, Held, Pending
    <2>5. QED BY <2>1, <2>2, <2>3, <2>4 DEF SoleOwner
  <1>3. QED BY <1>1, <1>2

-----------------------------------------------------------------------------
(* The theorems *)

DoneKept ==
    \A r \in Review : review[r].status = "done" =>
        review'[r].status = "done" /\ review'[r].result = review[r].result

LEMMA StepSoleOwner ==
    ASSUME TypeInv, SoleOwner, TimelyEnvironment, [Next]_vars
    PROVE  SoleOwner' /\ DoneKept
  <1>1. ASSUME NEW h \in Handler, NEW u \in User, NEW c \in Content, NEW r \in Review,
               SubmitLookup(h, u, c, r)
        PROVE  SoleOwner' /\ DoneKept
    BY <1>1, RequestStepOwner DEF DoneKept
  <1>2. ASSUME NEW h \in Handler, NEW r \in Review, RetryRead(h, r)
        PROVE  SoleOwner' /\ DoneKept
    BY <1>2, RequestStepOwner DEF DoneKept
  <1>3. ASSUME NEW h \in Handler, HandlerStep(h) \/ HandlerAborts(h)
        PROVE  SoleOwner' /\ DoneKept
    <2>1. CASE SubmitCached(h) \/ SubmitEmit(h) \/ SubmitReserve(h) \/ SubmitCreate(h)
      BY <2>1, SubmitStepOwner DEF DoneKept
    <2>2. CASE RetryWrite(h) \/ Enqueue(h) \/ EnqueueUndo(h) \/ HandlerAborts(h)
      BY <2>2, RetryStepOwner DEF DoneKept
    <2>3. QED BY <1>3, <2>1, <2>2 DEF HandlerStep
  <1>4. ASSUME NEW r \in Review, NEW g \in Generation,
               (\E w \in Worker : Deliver(w, r, g)) \/ Redeliver(r, g)
        PROVE  SoleOwner' /\ DoneKept
    BY <1>4, DeliveryStepOwner DEF DoneKept
  <1>5. ASSUME NEW w \in Worker, WorkerStep(w) \/ WorkerAborts(w)
        PROVE  SoleOwner' /\ DoneKept
    <2>1. CASE Claim(w) \/ RunEnds(w)
      BY <2>1, ProcessStepOwner DEF DoneKept
    <2>2. CASE PutCache(w) \/ WorkerEmit(w) \/ Respond(w) \/ WorkerAborts(w)
      BY <2>2, SettleStepOwner DEF DoneKept
    <2>3. QED BY <1>5, <2>1, <2>2 DEF WorkerStep
  <1>6. ASSUME NEW r \in Review, LeaseExpires(r) \/ StallElapses(r)
        PROVE  SoleOwner' /\ DoneKept
    BY <1>6, TimeStepOwner DEF DoneKept
  <1>7. CASE UNCHANGED vars
    BY <1>7 DEF vars, SoleOwner, HeldOnce, RequestsAreCurrent, Current, IsStalled,
       StalledIsQuiet, LeaseIsHeld, ExclusiveProcessing, Processing, Pending, DoneKept
  <1>8. QED
    BY <1>1, <1>2, <1>3, <1>4, <1>5, <1>6, <1>7 DEF Next

\* In a timely environment the ownership invariant holds in every state: every
\* review has at most one request and one working delivery in hand (submission.py,
\* jobs.py, claim_review).
THEOREM OwnershipHolds == TimelyEnvironment => (Spec => []SoleOwner)
  <1> SUFFICES ASSUME TimelyEnvironment PROVE Spec => []SoleOwner
    OBVIOUS
  <1>1. Init => SoleOwner
    BY InitSoleOwner
  <1>2. TypeInv /\ SoleOwner /\ [Next]_vars => SoleOwner'
    BY StepSoleOwner
  <1>3. QED
    BY <1>1, <1>2, TypeInvariant, PTL DEF Spec

\* In a timely environment no two deliveries ever run the pipeline on the same
\* review (process, claim_review).
THEOREM ExclusiveHolds == TimelyEnvironment => (Spec => []ExclusiveProcessing)
  <1>1. SoleOwner => ExclusiveProcessing
    BY DEF SoleOwner
  <1>2. QED
    BY <1>1, OwnershipHolds, PTL

\* In a timely environment a done review keeps its status and its result for
\* good (the blind writes of retry, _enqueue and process).
THEOREM DoneStaysDone == TimelyEnvironment => (Spec => DoneIsFinal)
  <1> SUFFICES ASSUME TimelyEnvironment PROVE Spec => DoneIsFinal
    OBVIOUS
  <1>1. TypeInv /\ SoleOwner /\ [Next]_vars =>
          [\A r \in Review : review[r].status = "done" =>
             review'[r].status = "done" /\ review'[r].result = review[r].result]_vars
    BY StepSoleOwner DEF DoneKept
  <1>2. QED
    BY <1>1, TypeInvariant, OwnershipHolds, PTL DEF Spec, DoneIsFinal

-----------------------------------------------------------------------------
(* A review is created once, by the request that drew its id *)

Present(r) == review[r].status # "absent"

\* The request has drawn an id and not stored its review yet.
Opening(h) == api[h].pc \in {"hit", "reserve", "create"}

Blank == \A r \in Review : ~Present(r) => review[r] = NoReview

Opened ==
    \A h \in Handler : Opening(h) =>
        /\ ~Present(api[h].review)
        /\ api[h].user \in User /\ api[h].content \in Content
        /\ \A g \in Handler : Opening(g) /\ api[g].review = api[h].review => g = h

\* Everything else is about reviews that are stored.
Stored ==
    /\ \A h \in Handler :
        api[h].pc \in {"row", "enqueue", "undo", "retry"} => Present(api[h].review)
    /\ \A w \in Worker : work[w].pc # "idle" => Present(work[w].review)
    /\ \A r \in Review, g \in Generation : tasks[r][g].state # "none" => Present(r)
    /\ \A r \in stalled : Present(r)

IdsInv == Blank /\ Opened /\ Stored

\* What a review is for does not change once it is stored.
SameSubmission(r, doc) ==
    /\ doc.status # "absent"
    /\ doc.owner = review[r].owner /\ doc.content = review[r].content
    /\ doc.fresh = review[r].fresh

LEMMA NewDocs ==
    ASSUME NEW a
    PROVE  /\ CachedDoc(a).status = "done" /\ FreshDoc(a).status = "queued"
           /\ CachedDoc(a).owner = a.user /\ FreshDoc(a).owner = a.user
           /\ CachedDoc(a).content = a.content /\ FreshDoc(a).content = a.content
           /\ CachedDoc(a).result = a.result /\ FreshDoc(a).result = None
           /\ CachedDoc(a).fresh = FALSE /\ FreshDoc(a).fresh = TRUE
  BY DEF CachedDoc, FreshDoc, NoReview

LEMMA RevisedDocs ==
    ASSUME DocsOK, NEW r \in Review
    PROVE  /\ \A g : /\ SameSubmission(r, RetriedDoc(r, g))
                     /\ RetriedDoc(r, g).result = review[r].result
           /\ /\ SameSubmission(r, [review[r] EXCEPT !.status = "failed"])
              /\ [review[r] EXCEPT !.status = "failed"].result = review[r].result
           /\ /\ SameSubmission(r, ClaimedDoc(r))
              /\ ClaimedDoc(r).result = review[r].result
           /\ /\ SameSubmission(r, RequeuedDoc(r))
              /\ RequeuedDoc(r).result = review[r].result
           /\ \A c : /\ SameSubmission(r, FailedDoc(r, c))
                     /\ FailedDoc(r, c).result = review[r].result
           /\ \A run, c : /\ SameSubmission(r, DoneDoc(r, run, c))
                          /\ DoneDoc(r, run, c).result = run
           /\ /\ Present(r) => SameSubmission(r, [review[r] EXCEPT !.lease = "expired"])
              /\ [review[r] EXCEPT !.lease = "expired"].result = review[r].result
  <1> review[r] \in ReviewDoc
    BY DEF DocsOK
  <1> USE DEF SameSubmission, ReviewDoc
  <1>1. \A g : /\ SameSubmission(r, RetriedDoc(r, g))
               /\ RetriedDoc(r, g).result = review[r].result
    BY DEF RetriedDoc
  <1>2. /\ SameSubmission(r, ClaimedDoc(r)) /\ ClaimedDoc(r).result = review[r].result
        /\ SameSubmission(r, RequeuedDoc(r)) /\ RequeuedDoc(r).result = review[r].result
    BY DEF ClaimedDoc, RequeuedDoc
  <1>3. \A c : /\ SameSubmission(r, FailedDoc(r, c))
               /\ FailedDoc(r, c).result = review[r].result
    BY DEF FailedDoc
  <1>4. \A run, c : /\ SameSubmission(r, DoneDoc(r, run, c))
                    /\ DoneDoc(r, run, c).result = run
    BY DEF DoneDoc
  <1>5. /\ SameSubmission(r, [review[r] EXCEPT !.status = "failed"])
        /\ Present(r) => SameSubmission(r, [review[r] EXCEPT !.lease = "expired"])
    BY DEF Present
  <1>6. QED
    BY <1>1, <1>2, <1>3, <1>4, <1>5

\* The step stores the review of a request.
Makes(h, r) ==
    /\ r = api[h].review
    /\ \/ SubmitCached(h) /\ review'[r] = CachedDoc(api[h])
       \/ SubmitCreate(h) /\ review'[r] = FreshDoc(api[h])

\* The step revises a review that is stored; a new result is that of its run.
Revises(r) ==
    /\ Present(r) /\ SameSubmission(r, review'[r])
    /\ \/ review'[r].result = review[r].result
       \/ \E w \in Worker :
            /\ work[w].pc = "running" /\ work[w].review = r
            /\ review'[r].result = work[w].run

LEMMA DocStep ==
    ASSUME TypeInv, IdsInv, [Next]_vars, NEW r \in Review
    PROVE  \/ review'[r] = review[r]
           \/ Revises(r)
           \/ \E h \in Handler : Makes(h, r)
  <1> DEFINE Goal == \/ review'[r] = review[r]
                     \/ Revises(r)
                     \/ \E h \in Handler : Makes(h, r)
  <1>1. DocsOK
    BY DEF TypeInv
  <1>2. ASSUME NEW q \in Review, NEW doc, Write(q, doc), Present(q), SameSubmission(q, doc),
               doc.result = review[q].result
        PROVE  Goal
    BY <1>1, <1>2, Written DEF Revises
  <1>3. ASSUME NEW h \in Handler, HandlerStep(h) \/ HandlerAborts(h)
        PROVE  Goal
    <2>1. api[h].pc # "idle" => api[h].review \in Review
      BY Busy
    <2>2. CASE SubmitCached(h) \/ SubmitCreate(h)
      BY <1>1, <2>1, <2>2, Written DEF SubmitCached, SubmitCreate, Makes
    <2>3. CASE RetryWrite(h) \/ EnqueueUndo(h)
      <3>1. api[h].pc \in {"retry", "undo"} /\ api[h].review \in Review /\ Present(api[h].review)
        BY <2>1, <2>3 DEF RetryWrite, EnqueueUndo, IdsInv, Stored
      <3>2. QED
        BY <1>1, <1>2, <2>3, <3>1, RevisedDocs DEF RetryWrite, EnqueueUndo
    <2>4. CASE SubmitEmit(h) \/ SubmitReserve(h) \/ Enqueue(h) \/ HandlerAborts(h)
      BY <2>4 DEF SubmitEmit, SubmitReserve, Enqueue, HandlerAborts
    <2>5. QED BY <1>3, <2>2, <2>3, <2>4 DEF HandlerStep
  <1>4. ASSUME NEW w \in Worker, WorkerStep(w) \/ WorkerAborts(w)
        PROVE  Goal
    <2> DEFINE q == work[w].review
    <2>1. work[w].pc # "idle" => q \in Review /\ Present(q)
      BY Busy DEF IdsInv, Stored
    <2>2. CASE Claim(w)
      <3>1. q \in Review /\ Present(q) /\ (UNCHANGED review \/ Write(q, ClaimedDoc(q)))
        BY <2>1, <2>2 DEF Claim
      <3>2. QED BY <1>1, <1>2, <3>1, RevisedDocs
    <2>3. ASSUME NEW c \in Spend, RunDone(w, c) \/ RunFailed(w, c) \/ RunTransient(w, c)
          PROVE  Goal
      <3>1. work[w].pc = "running" /\ q \in Review /\ Present(q)
        BY <2>1, <2>3 DEF RunDone, RunFailed, RunTransient
      <3>2. CASE Write(q, DoneDoc(q, work[w].run, c))
        <4> DEFINE doc == DoneDoc(q, work[w].run, c)
        <4>1. SameSubmission(q, doc) /\ doc.result = work[w].run
          BY <1>1, <3>1 DEF DoneDoc, SameSubmission, DocsOK, ReviewDoc
        <4>2. IF r = q THEN review'[r] = doc ELSE review'[r] = review[r]
          BY <1>1, <3>1, <3>2, Written
        <4> HIDE DEF doc
        <4>3. QED BY <3>1, <4>1, <4>2 DEF Revises
      <3>3. CASE Write(q, FailedDoc(q, c)) \/ Write(q, RequeuedDoc(q))
        BY <1>1, <1>2, <3>1, <3>3, RevisedDocs
      <3>4. QED
        BY <2>3, <3>2, <3>3 DEF RunDone, RunFailed, RunTransient, Fail
    <2>4. CASE PutCache(w) \/ WorkerEmit(w) \/ Respond(w) \/ WorkerAborts(w)
      BY <2>4 DEF PutCache, WorkerEmit, Respond, WorkerAborts
    <2>5. QED BY <1>4, <2>2, <2>3, <2>4 DEF WorkerStep, RunEnds
  <1>5. ASSUME NEW q \in Review, LeaseExpires(q)
        PROVE  Goal
    <2>1. Present(q)
      BY <1>5 DEF LeaseExpires, IdsInv, Blank, NoReview
    <2>2. QED
      BY <1>1, <1>2, <1>5, <2>1, RevisedDocs DEF LeaseExpires
  <1>6. CASE \/ \E h \in Handler, u \in User, c \in Content, q \in Review : SubmitLookup(h, u, c, q)
             \/ \E h \in Handler, q \in Review : RetryRead(h, q)
             \/ \E w \in Worker, q \in Review, g \in Generation : Deliver(w, q, g)
             \/ \E q \in Review, g \in Generation : Redeliver(q, g)
             \/ \E q \in Review : StallElapses(q)
             \/ UNCHANGED vars
    BY <1>6 DEF SubmitLookup, RetryRead, Deliver, Redeliver, StallElapses, vars
  <1>7. QED
    BY <1>3, <1>4, <1>5, <1>6 DEF Next

LEMMA PresentStays ==
    ASSUME TypeInv, IdsInv, [Next]_vars, NEW r \in Review, Present(r)
    PROVE  Present(r)' /\ SameSubmission(r, review'[r])
  <1>1. ASSUME NEW h \in Handler
        PROVE  ~Makes(h, r)
    BY DEF Makes, SubmitCached, SubmitCreate, IdsInv, Opened, Opening
  <1>2. review'[r] = review[r] \/ Revises(r)
    BY <1>1, DocStep
  <1>3. QED
    BY <1>2 DEF Revises, SameSubmission, Present

\* Only its own request stores a review.
LEMMA AbsentStays ==
    ASSUME TypeInv, IdsInv, [Next]_vars, NEW r \in Review, ~Present(r),
           \A h \in Handler : ~Makes(h, r)
    PROVE  ~Present(r)' /\ review'[r] = review[r]
  BY DocStep DEF Revises, Present

LEMMA StepBlank == TypeInv /\ IdsInv /\ [Next]_vars => Blank'
  <1> SUFFICES ASSUME TypeInv, IdsInv, [Next]_vars, NEW r \in Review, ~Present(r)'
               PROVE  review'[r] = NoReview
    BY DEF Blank
  <1>1. ~Present(r)
    BY PresentStays
  <1>2. ASSUME NEW h \in Handler, Makes(h, r)
        PROVE  FALSE
    BY <1>2, NewDocs DEF Makes, Present
  <1>3. QED
    BY <1>1, <1>2, AbsentStays DEF IdsInv, Blank


\* Only a look-up or a reservation makes a request go on with a fresh id.
LEMMA OpeningKept ==
    ASSUME TypeInv, [Next]_vars, NEW i \in Handler, Opening(i)',
           \A u \in User, c \in Content, r \in Review : ~SubmitLookup(i, u, c, r),
           ~SubmitReserve(i)
    PROVE  api'[i] = api[i]
  <1>1. ASSUME NEW h \in Handler, HandlerStep(h) \/ HandlerAborts(h), h # i
        PROVE  api'[i] = api[i]
    <2>1. (\E pc : Goto(h, pc)) \/ Finish(h)
      BY <1>1 DEF HandlerStep, SubmitCached, SubmitEmit, SubmitReserve, SubmitCreate, RetryWrite,
         Enqueue, EnqueueUndo, HandlerAborts
    <2>2. QED BY <1>1, <2>1 DEF Goto, Finish, TypeInv, ApiOK
  <1>2. CASE HandlerStep(i) \/ HandlerAborts(i)
    <2>1. Goto(i, "row") \/ Goto(i, "enqueue") \/ Goto(i, "undo") \/ Finish(i)
      BY <1>2 DEF HandlerStep, SubmitCached, SubmitEmit, SubmitCreate, RetryWrite,
         Enqueue, EnqueueUndo, HandlerAborts
    <2>2. QED
      BY <2>1 DEF Goto, Finish, TypeInv, ApiOK, ApiState, Opening, IdleHandler
  <1>3. ASSUME NEW h \in Handler, NEW u \in User, NEW c \in Content, NEW r \in Review,
               SubmitLookup(h, u, c, r)
        PROVE  api'[i] = api[i]
    BY <1>3 DEF SubmitLookup, TypeInv, ApiOK
  <1>4. ASSUME NEW h \in Handler, NEW r \in Review, RetryRead(h, r)
        PROVE  api'[i] = api[i]
    BY <1>4 DEF RetryRead, TypeInv, ApiOK, Opening, IdleHandler
  <1>5. CASE \/ \E w \in Worker, r \in Review, g \in Generation : Deliver(w, r, g)
             \/ \E r \in Review, g \in Generation : Redeliver(r, g)
             \/ \E w \in Worker : WorkerStep(w) \/ WorkerAborts(w)
             \/ \E r \in Review : LeaseExpires(r) \/ StallElapses(r)
             \/ UNCHANGED vars
    BY <1>5 DEF Deliver, Redeliver, WorkerStep, Claim, RunEnds, RunDone, RunFailed, RunTransient,
       PutCache, WorkerEmit, Respond, WorkerAborts, LeaseExpires, StallElapses, vars
  <1>6. QED
    BY <1>1, <1>2, <1>3, <1>4, <1>5 DEF Next

LEMMA StepOpened == TypeInv /\ IdsInv /\ [Next]_vars => Opened'
  <1> SUFFICES ASSUME TypeInv, IdsInv, [Next]_vars PROVE Opened'
    OBVIOUS
  <1>0. \A i \in Handler : Opening(i) => api[i].review \in Review
    BY Busy DEF Opening
  <1>1. ASSUME NEW h \in Handler, NEW u \in User, NEW c \in Content, NEW r \in Review,
               SubmitLookup(h, u, c, r)
        PROVE  Opened'
    <2>1. /\ ~Present(r) /\ UNCHANGED review
          /\ api'[h].review = r /\ api'[h].user = u /\ api'[h].content = c
          /\ \A i \in Handler : i # h => api'[i] = api[i] /\ api[i].review # r
      BY <1>1 DEF SubmitLookup, Held, Present, TypeInv, ApiOK
    <2>2. QED BY <2>1 DEF IdsInv, Opened, Opening, Present
  <1>2. ASSUME NEW h \in Handler, SubmitReserve(h)
        PROVE  Opened'
    <2>1. /\ api[h].pc = "reserve" /\ UNCHANGED review
          /\ \A i \in Handler : i # h => api'[i] = api[i]
          /\ \/ api'[h].pc = "idle"
             \/ /\ api'[h].review = api[h].review /\ api'[h].user = api[h].user
                /\ api'[h].content = api[h].content
      BY <1>2 DEF SubmitReserve, Goto, Finish, IdleHandler, TypeInv, ApiOK, ApiState
    <2>2. QED BY <2>1 DEF IdsInv, Opened, Opening, Present
  <1>3. CASE /\ \A i \in Handler, u \in User, c \in Content, r \in Review : ~SubmitLookup(i, u, c, r)
             /\ \A i \in Handler : ~SubmitReserve(i)
    <2>1. \A i \in Handler : Opening(i)' => api'[i] = api[i] /\ Opening(i)
      BY <1>3, OpeningKept DEF Opening
    <2>2. ASSUME NEW i \in Handler, Opening(i)', NEW h \in Handler, Makes(h, api[i].review)
          PROVE  FALSE
      <3>1. Opening(h) /\ Opening(i) /\ api[h].review = api[i].review
        BY <2>1, <2>2 DEF Makes, SubmitCached, SubmitCreate, Opening
      <3>2. h = i
        BY <3>1 DEF IdsInv, Opened
      <3>3. api'[h].pc \in {"row", "enqueue"}
        BY <2>2 DEF Makes, SubmitCached, SubmitCreate, Goto, TypeInv, ApiOK, ApiState
      <3>4. QED BY <2>2, <3>2, <3>3 DEF Opening
    <2>3. ASSUME NEW i \in Handler, Opening(i)'
          PROVE  ~Present(api[i].review)'
      BY <1>0, <2>1, <2>2, <2>3, AbsentStays DEF IdsInv, Opened
    <2>4. QED
      BY <2>1, <2>3 DEF IdsInv, Opened, Present
  <1>4. QED BY <1>1, <1>2, <1>3

\* How a request comes to be about a stored review.
LEMMA StoredRequest ==
    ASSUME TypeInv, [Next]_vars, NEW i \in Handler,
           api'[i].pc \in {"row", "enqueue", "undo", "retry"}
    PROVE  \/ api'[i] = api[i]
           \/ Makes(i, api[i].review) /\ api'[i].review = api[i].review
           \/ api[i].pc \in {"retry", "enqueue"} /\ api'[i].review = api[i].review
           \/ \E r \in Review : RetryRead(i, r) /\ api'[i].review = r
  <1>1. ASSUME NEW h \in Handler, HandlerStep(h) \/ HandlerAborts(h), h # i
        PROVE  api'[i] = api[i]
    <2>1. (\E pc : Goto(h, pc)) \/ Finish(h)
      BY <1>1 DEF HandlerStep, SubmitCached, SubmitEmit, SubmitReserve, SubmitCreate, RetryWrite,
         Enqueue, EnqueueUndo, HandlerAborts
    <2>2. QED BY <1>1, <2>1 DEF Goto, Finish, TypeInv, ApiOK
  <1>2. CASE SubmitCached(i) \/ SubmitCreate(i)
    <2>1. api[i].review \in Review
      BY <1>2, Busy DEF SubmitCached, SubmitCreate
    <2>2. api'[i].review = api[i].review
      BY <1>2 DEF SubmitCached, SubmitCreate, Goto, TypeInv, ApiOK, ApiState
    <2>3. Makes(i, api[i].review)
      BY <1>2, <2>1, Written DEF TypeInv, Makes, SubmitCached, SubmitCreate
    <2>4. QED BY <2>2, <2>3
  <1>3. CASE RetryWrite(i) \/ Enqueue(i)
    <2>1. Goto(i, "enqueue") \/ Goto(i, "undo") \/ Finish(i)
      BY <1>3 DEF RetryWrite, Enqueue
    <2>2. QED
      BY <1>3, <2>1 DEF RetryWrite, Enqueue, Goto, Finish, IdleHandler, TypeInv, ApiOK, ApiState
  <1>4. CASE SubmitEmit(i) \/ SubmitReserve(i) \/ EnqueueUndo(i) \/ HandlerAborts(i)
    BY <1>4 DEF SubmitEmit, SubmitReserve, EnqueueUndo, HandlerAborts, Goto, Finish, IdleHandler,
       TypeInv, ApiOK, ApiState
  <1>5. ASSUME NEW h \in Handler, NEW u \in User, NEW c \in Content, NEW r \in Review,
               SubmitLookup(h, u, c, r)
        PROVE  api'[i] = api[i]
    BY <1>5 DEF SubmitLookup, TypeInv, ApiOK
  <1>6. ASSUME NEW h \in Handler, NEW r \in Review, RetryRead(h, r)
        PROVE  api'[i] = api[i] \/ (h = i /\ api'[i].review = r)
    BY <1>6 DEF RetryRead, TypeInv, ApiOK, IdleHandler
  <1>7. CASE \/ \E w \in Worker, r \in Review, g \in Generation : Deliver(w, r, g)
             \/ \E r \in Review, g \in Generation : Redeliver(r, g)
             \/ \E w \in Worker : WorkerStep(w) \/ WorkerAborts(w)
             \/ \E r \in Review : LeaseExpires(r) \/ StallElapses(r)
             \/ UNCHANGED vars
    BY <1>7 DEF Deliver, Redeliver, WorkerStep, Claim, RunEnds, RunDone, RunFailed, RunTransient,
       PutCache, WorkerEmit, Respond, WorkerAborts, LeaseExpires, StallElapses, vars
  <1>8. QED
    BY <1>1, <1>2, <1>3, <1>4, <1>5, <1>6, <1>7 DEF Next, HandlerStep

\* What a delivery can be about next.
LEMMA DeliveryMoves ==
    ASSUME TypeInv, [Next]_vars, NEW w \in Worker, work'[w].pc # "idle"
    PROVE  \/ work'[w] = work[w]
           \/ /\ \E r \in Review, g \in Generation : Deliver(w, r, g) /\ work'[w].review = r
              /\ work'[w].pc = "claim"
           \/ /\ work'[w].review = work[w].review
              /\ \/ Claim(w) /\ work'[w].pc = "running"
                 \/ (\E c \in Spend : RunDone(w, c)) /\ work'[w].pc = "cache"
                 \/ work'[w].pc \notin {"running", "cache"}
              /\ work[w].pc # "idle"
  <1>1. ASSUME NEW v \in Worker, WorkerStep(v) \/ WorkerAborts(v), v # w
        PROVE  work'[w] = work[w]
    BY <1>1 DEF WorkerStep, Claim, RunEnds, RunDone, RunFailed, RunTransient, Fail, Step,
       PutCache, WorkerEmit, Respond, WorkerAborts, TypeInv, WorkOK
  <1>2. CASE Claim(w)
    BY <1>2 DEF Claim, TypeInv, WorkOK, WorkState
  <1>3. CASE RunEnds(w)
    BY <1>3 DEF RunEnds, RunDone, RunFailed, RunTransient, Fail, Step, TypeInv, WorkOK, WorkState
  <1>4. CASE PutCache(w) \/ WorkerEmit(w)
    BY <1>4 DEF PutCache, WorkerEmit, Step, TypeInv, WorkOK, WorkState
  <1>5. CASE Respond(w) \/ WorkerAborts(w)
    BY <1>5 DEF Respond, WorkerAborts, IdleWorker, TypeInv, WorkOK
  <1>6. ASSUME NEW v \in Worker, NEW r \in Review, NEW g \in Generation, Deliver(v, r, g)
        PROVE  work'[w] = work[w] \/ (v = w /\ work'[w].review = r /\ work'[w].pc = "claim")
    BY <1>6 DEF Deliver, IdleWorker, TypeInv, WorkOK
  <1>7. CASE \/ \E h \in Handler, u \in User, c \in Content, r \in Review : SubmitLookup(h, u, c, r)
             \/ \E h \in Handler, r \in Review : RetryRead(h, r)
             \/ \E h \in Handler : HandlerStep(h) \/ HandlerAborts(h)
             \/ \E r \in Review, g \in Generation : Redeliver(r, g)
             \/ \E r \in Review : LeaseExpires(r) \/ StallElapses(r)
             \/ UNCHANGED vars
    BY <1>7 DEF SubmitLookup, RetryRead, HandlerStep, SubmitCached, SubmitEmit, SubmitReserve,
       SubmitCreate, RetryWrite, Enqueue, EnqueueUndo, HandlerAborts, Redeliver, LeaseExpires,
       StallElapses, vars
  <1>8. QED
    BY <1>1, <1>2, <1>3, <1>4, <1>5, <1>6, <1>7 DEF Next, WorkerStep

\* A task changes only if a request enqueues it, or there is a delivery of it.
LEMMA TaskChanges ==
    ASSUME TypeInv, [Next]_vars, NEW r \in Review, NEW g \in Generation,
           tasks'[r][g] # tasks[r][g]
    PROVE  \/ \E h \in Handler : api[h].pc = "enqueue" /\ api[h].review = r
           \/ \E w \in Worker : work[w].pc # "idle" /\ work[w].review = r
           \/ tasks[r][g].state # "none"
  <1>1. ASSUME NEW q \in Review, NEW k \in Generation, NEW after,
               tasks' = [tasks EXCEPT ![q][k] = after]
        PROVE  q = r /\ k = g
    BY <1>1 DEF TypeInv, TasksOK
  <1>2. ASSUME NEW h \in Handler, Enqueue(h)
        PROVE  api[h].pc = "enqueue" /\ api[h].review = r
    <2> DEFINE a == api[h]
    <2>1. a.review \in Review /\ a.generation \in Generation /\ a.pc = "enqueue"
      BY <1>2, Busy DEF Enqueue, TypeInv, ApiOK, ApiState
    <2>2. tasks' = [tasks EXCEPT ![a.review][a.generation] =
                      [tasks[a.review][a.generation] EXCEPT !.state = "ready"]]
      BY <1>2, <2>1 DEF Enqueue, CreateTask, TypeInv, TasksOK
    <2>3. QED BY <1>1, <2>1, <2>2
  <1>3. ASSUME NEW w \in Worker, Respond(w) \/ WorkerAborts(w)
        PROVE  work[w].pc # "idle" /\ work[w].review = r
    <2>1. work[w].pc # "idle" /\ work[w].review \in Review /\ work[w].generation \in Generation
      BY <1>3, Busy DEF Respond, WorkerAborts, TypeInv, WorkOK, WorkState
    <2>2. \E after : tasks' = [tasks EXCEPT ![work[w].review][work[w].generation] = after]
      BY <1>3 DEF Respond, WorkerAborts, Settle
    <2>3. QED BY <1>1, <2>1, <2>2
  <1>4. ASSUME NEW q \in Review, NEW k \in Generation,
               (\E w \in Worker : Deliver(w, q, k)) \/ Redeliver(q, k)
        PROVE  tasks[r][g].state # "none"
    <2>1. /\ tasks[q][k].state \in {"ready", "inflight"}
          /\ \E after : tasks' = [tasks EXCEPT ![q][k] = after]
      BY <1>4 DEF Deliver, Redeliver
    <2>2. QED BY <1>1, <2>1
  <1>5. CASE \/ \E h \in Handler, u \in User, c \in Content, q \in Review : SubmitLookup(h, u, c, q)
             \/ \E h \in Handler, q \in Review : RetryRead(h, q)
             \/ \E h \in Handler : \/ SubmitCached(h) \/ SubmitEmit(h) \/ SubmitReserve(h)
                                   \/ SubmitCreate(h) \/ RetryWrite(h) \/ EnqueueUndo(h)
                                   \/ HandlerAborts(h)
             \/ \E w \in Worker : Claim(w) \/ RunEnds(w) \/ PutCache(w) \/ WorkerEmit(w)
             \/ \E q \in Review : LeaseExpires(q) \/ StallElapses(q)
             \/ UNCHANGED vars
    BY <1>5 DEF SubmitLookup, RetryRead, SubmitCached, SubmitEmit, SubmitReserve,
       SubmitCreate, RetryWrite, EnqueueUndo, HandlerAborts, Claim, RunEnds, RunDone, RunFailed,
       RunTransient, PutCache, WorkerEmit, LeaseExpires, StallElapses, vars
  <1>6. QED
    BY <1>2, <1>3, <1>4, <1>5 DEF Next, HandlerStep, WorkerStep

LEMMA StepStored == TypeInv /\ IdsInv /\ [Next]_vars => Stored'
  <1> SUFFICES ASSUME TypeInv, IdsInv, [Next]_vars PROVE Stored'
    OBVIOUS
  <1>0. \A r \in Review : Present(r) => Present(r)'
    BY PresentStays
  <1>1. ASSUME NEW h \in Handler, api'[h].pc \in {"row", "enqueue", "undo", "retry"}
        PROVE  review'[api'[h].review].status # "absent"
    <2>1. CASE Makes(h, api[h].review) /\ api'[h].review = api[h].review
      <3>1. CachedDoc(api[h]).status = "done" /\ FreshDoc(api[h]).status = "queued"
        BY NewDocs
      <3>2. QED BY <2>1, <3>1 DEF Makes
    <2>2. ASSUME NEW r \in Review, RetryRead(h, r), api'[h].review = r
          PROVE  review'[r].status # "absent"
      BY <2>2 DEF RetryRead, IsStalled
    <2>3. CASE /\ api[h].pc \in {"row", "enqueue", "undo", "retry"}
               /\ api'[h].review = api[h].review
      BY <1>0, <2>3, Busy DEF IdsInv, Stored, Present
    <2>4. QED BY <1>1, <2>1, <2>2, <2>3, StoredRequest
  <1>2. ASSUME NEW w \in Worker, work'[w].pc # "idle"
        PROVE  review'[work'[w].review].status # "absent"
    <2>1. ASSUME NEW r \in Review, NEW g \in Generation, Deliver(w, r, g)
          PROVE  review'[r].status # "absent"
      BY <1>0, <2>1 DEF Deliver, IdsInv, Stored, Present
    <2>2. CASE work[w].pc # "idle" /\ work'[w].review = work[w].review
      BY <1>0, <2>2, Busy DEF IdsInv, Stored, Present
    <2>3. QED BY <1>2, <2>1, <2>2, DeliveryMoves
  <1>3. ASSUME NEW r \in Review, NEW g \in Generation, tasks'[r][g].state # "none"
        PROVE  Present(r)'
    BY <1>0, <1>3, TaskChanges DEF IdsInv, Stored
  <1>4. ASSUME NEW r \in stalled'
        PROVE  Present(r)'
    <2>1. CASE \E q \in Review : StallElapses(q)
      BY <1>0, <1>4, <2>1 DEF StallElapses, IdsInv, Stored, Present
    <2>2. CASE ~\E q \in Review : StallElapses(q)
      <3>1. stalled' \subseteq stalled
        BY <2>2 DEF Next, vars, SubmitLookup, RetryRead, HandlerStep, SubmitCached, SubmitEmit,
           SubmitReserve, SubmitCreate, RetryWrite, Enqueue, EnqueueUndo, HandlerAborts, Deliver,
           Redeliver, WorkerStep, Claim, RunEnds, RunDone, RunFailed, RunTransient, PutCache,
           WorkerEmit, Respond, WorkerAborts, LeaseExpires
      <3>2. r \in stalled /\ r \in Review
        BY <1>4, <3>1 DEF TypeInv, SharedOK
      <3>3. QED BY <1>0, <3>2 DEF IdsInv, Stored
    <2>3. QED BY <2>1, <2>2
  <1>5. QED
    BY <1>1, <1>2, <1>3, <1>4 DEF Stored, Present

LEMMA IdsHold == Spec => [](TypeInv /\ IdsInv)
  <1>1. Init => IdsInv
    BY DEF Init, IdsInv, Blank, Opened, Opening, Stored, NoReview, IdleHandler, IdleWorker,
       NoTask, Present
  <1>2. TypeInv /\ IdsInv /\ [Next]_vars => IdsInv'
    BY StepBlank, StepOpened, StepStored DEF IdsInv
  <1>3. QED
    BY <1>1, <1>2, TypeInvariant, PTL DEF Spec

-----------------------------------------------------------------------------
(* Whose result a review shows *)

\* The result comes from a run of a stored review with this key.
ComesFrom(run, key) ==
    /\ RunSource(run) \in Review /\ Present(RunSource(run))
    /\ KeyOf(RunSource(run)) = key

Traced ==
    /\ \A k \in Key : cache[k] # None => ComesFrom(cache[k], k)
    /\ \A h \in Handler : api[h].pc = "hit" =>
        api[h].result # None /\ ComesFrom(api[h].result, CacheKey(api[h].user, api[h].content))
    /\ \A w \in Worker : work[w].pc \in {"running", "cache"} =>
        RunSource(work[w].run) = work[w].review
    /\ \A r \in Review : review[r].result # None => ComesFrom(review[r].result, KeyOf(r))

LEMMA KeyStays ==
    ASSUME TypeInv, IdsInv, [Next]_vars, NEW r \in Review, Present(r)
    PROVE  KeyOf(r)' = KeyOf(r) /\ Present(r)'
  <1>1. /\ review'[r].owner = review[r].owner /\ review'[r].content = review[r].content
        /\ Present(r)'
    BY PresentStays DEF SameSubmission
  <1>2. QED
    BY <1>1 DEF KeyOf, CacheKey

LEMMA OriginStays ==
    ASSUME TypeInv, IdsInv, [Next]_vars, NEW run, NEW key, ComesFrom(run, key)
    PROVE  ComesFrom(run, key)'
  <1>1. KeyOf(RunSource(run))' = KeyOf(RunSource(run)) /\ Present(RunSource(run))'
    BY KeyStays DEF ComesFrom
  <1>2. RunSource(run)' = RunSource(run)
    BY DEF RunSource
  <1>3. QED
    BY <1>1, <1>2 DEF ComesFrom, RunSource

LEMMA RunTraced ==
    ASSUME TypeInv, Traced, [Next]_vars, NEW w \in Worker,
           work'[w].pc \in {"running", "cache"}
    PROVE  RunSource(work'[w].run) = work'[w].review
  <1>1. CASE work'[w] = work[w]
    BY <1>1 DEF Traced
  <1>2. CASE Claim(w) /\ work'[w].pc = "running" /\ work'[w].review = work[w].review
    <2>1. work'[w].run = <<work[w].review, review[work[w].review].generation,
                           review[work[w].review].attempts + 1>>
      BY <1>2 DEF Claim, TypeInv, WorkOK, WorkState
    <2>2. QED BY <1>2, <2>1 DEF RunSource
  <1>3. ASSUME NEW c \in Spend, RunDone(w, c)
        PROVE  RunSource(work'[w].run) = work'[w].review
    <2>1. work'[w].run = work[w].run /\ work'[w].review = work[w].review /\ work[w].pc = "running"
      BY <1>3 DEF RunDone, Step, TypeInv, WorkOK, WorkState
    <2>2. QED BY <2>1 DEF Traced
  <1>4. QED
    BY <1>1, <1>2, <1>3, DeliveryMoves

LEMMA WorkTraced ==
    ASSUME TypeInv, IdsInv, Traced, NEW w \in Worker, work[w].pc \in {"running", "cache"}
    PROVE  ComesFrom(work[w].run, KeyOf(work[w].review))
  BY Busy DEF Traced, IdsInv, Stored, ComesFrom

LEMMA CacheChanges ==
    ASSUME TypeInv, [Next]_vars, NEW k \in Key, cache'[k] # cache[k]
    PROVE  \E w \in Worker : /\ work[w].pc = "cache" /\ k = KeyOf(work[w].review)
                             /\ cache'[k] = work[w].run
  <1>1. ASSUME NEW w \in Worker, PutCache(w)
        PROVE  /\ work[w].pc = "cache" /\ k = KeyOf(work[w].review)
               /\ cache'[k] = work[w].run
    BY <1>1 DEF PutCache, TypeInv, SharedOK
  <1>2. ASSUME \A w \in Worker : ~PutCache(w)
        PROVE  UNCHANGED cache
    BY <1>2 DEF Next, vars, SubmitLookup, RetryRead, HandlerStep, SubmitCached, SubmitEmit,
       SubmitReserve, SubmitCreate, RetryWrite, Enqueue, EnqueueUndo, HandlerAborts, Deliver,
       Redeliver, WorkerStep, Claim, RunEnds, RunDone, RunFailed, RunTransient,
       WorkerEmit, Respond, WorkerAborts, LeaseExpires, StallElapses
  <1>3. QED BY <1>1, <1>2

LEMMA StepTraced == TypeInv /\ IdsInv /\ Traced /\ [Next]_vars => Traced'
  <1> SUFFICES ASSUME TypeInv, IdsInv, Traced, [Next]_vars PROVE Traced'
    OBVIOUS
  <1>0. \A run, key : ComesFrom(run, key) => ComesFrom(run, key)'
    BY OriginStays
  <1>1. ASSUME NEW k \in Key, cache'[k] # None
        PROVE  ComesFrom(cache[k], k)'
    <2>1. CASE cache'[k] = cache[k]
      BY <1>0, <1>1, <2>1 DEF Traced, ComesFrom, RunSource
    <2>2. CASE cache'[k] # cache[k]
      <3>1. PICK w \in Worker : /\ work[w].pc = "cache" /\ k = KeyOf(work[w].review)
                                /\ cache'[k] = work[w].run
        BY <2>2, CacheChanges
      <3>2. ComesFrom(work[w].run, k)
        BY <3>1, WorkTraced
      <3>3. QED BY <1>0, <3>1, <3>2 DEF ComesFrom, RunSource
    <2>3. QED BY <2>1, <2>2
  <1>2. ASSUME NEW h \in Handler, api'[h].pc = "hit"
        PROVE  /\ api'[h].result # None
               /\ ComesFrom(api[h].result, CacheKey(api[h].user, api[h].content))'
    <2>1. CASE api'[h] = api[h]
      BY <1>0, <1>2, <2>1 DEF Traced, ComesFrom, RunSource, CacheKey
    <2>2. ASSUME NEW u \in User, NEW c \in Content, NEW r \in Review, SubmitLookup(h, u, c, r)
          PROVE  /\ api'[h].result # None
                 /\ ComesFrom(api[h].result, CacheKey(api[h].user, api[h].content))'
      <3>1. /\ api'[h].result = cache[CacheKey(u, c)] /\ cache[CacheKey(u, c)] # None
            /\ api'[h].user = u /\ api'[h].content = c
        BY <1>2, <2>2 DEF SubmitLookup, TypeInv, ApiOK
      <3>2. CacheKey(u, c) \in Key
        BY DEF CacheKey, Key
      <3>3. ComesFrom(cache[CacheKey(u, c)], CacheKey(u, c))
        BY <3>1, <3>2 DEF Traced
      <3>4. QED BY <1>0, <3>1, <3>3 DEF ComesFrom, RunSource, CacheKey
    <2>3. CASE \A u \in User, c \in Content, r \in Review : ~SubmitLookup(h, u, c, r)
      <3>1. ~SubmitReserve(h)
        BY <1>2 DEF SubmitReserve, Goto, Finish, IdleHandler, TypeInv, ApiOK, ApiState
      <3>2. QED BY <1>2, <2>1, <2>3, <3>1, OpeningKept DEF Opening
    <2>4. QED BY <2>2, <2>3
  <1>3. ASSUME NEW r \in Review, review'[r].result # None
        PROVE  ComesFrom(review[r].result, KeyOf(r))'
    <2>1. CASE review'[r] = review[r]
      <3>1. KeyOf(r)' = KeyOf(r)
        BY <2>1 DEF KeyOf, CacheKey
      <3>2. ComesFrom(review[r].result, KeyOf(r))
        BY <1>3, <2>1 DEF Traced
      <3>3. QED BY <1>0, <2>1, <3>1, <3>2 DEF ComesFrom, RunSource
    <2>2. CASE Revises(r)
      <3>1. KeyOf(r)' = KeyOf(r)
        BY <2>2, KeyStays DEF Revises
      <3>2. ComesFrom(review'[r].result, KeyOf(r))
        BY <1>3, <2>2, WorkTraced DEF Revises, Traced
      <3>3. PICK run : run = review'[r].result
        OBVIOUS
      <3>4. ComesFrom(run, KeyOf(r))'
        BY <1>0, <3>1, <3>2, <3>3 DEF ComesFrom, RunSource
      <3>5. QED BY <3>3, <3>4 DEF ComesFrom, RunSource
    <2>3. ASSUME NEW h \in Handler, Makes(h, r)
          PROVE  ComesFrom(review[r].result, KeyOf(r))'
      <3>1. SubmitCached(h) /\ review'[r] = CachedDoc(api[h])
        <4>1. \A a : FreshDoc(a).result = None
          BY NewDocs
        <4>2. review'[r] # FreshDoc(api[h])
          BY <1>3, <4>1
        <4>3. QED BY <2>3, <4>2 DEF Makes
      <3>2. /\ review'[r].result = api[h].result
            /\ review'[r].owner = api[h].user /\ review'[r].content = api[h].content
        <4>1. \A a : /\ CachedDoc(a).result = a.result
                     /\ CachedDoc(a).owner = a.user /\ CachedDoc(a).content = a.content
          BY NewDocs
        <4>2. PICK doc : doc = CachedDoc(api[h])
          OBVIOUS
        <4>3. doc.result = api[h].result /\ doc.owner = api[h].user /\ doc.content = api[h].content
          BY <4>1, <4>2
        <4>4. review'[r] = doc
          BY <3>1, <4>2
        <4> QED BY <4>3, <4>4
      <3>3. ComesFrom(api[h].result, CacheKey(api[h].user, api[h].content))
        BY <3>1 DEF SubmitCached, Traced
      <3>4. KeyOf(r)' = CacheKey(api[h].user, api[h].content)
        BY <3>2 DEF KeyOf, CacheKey
      <3>5. QED BY <1>0, <3>2, <3>3, <3>4 DEF ComesFrom, RunSource
    <2>4. QED BY <2>1, <2>2, <2>3, DocStep
  <1>4. ASSUME NEW w \in Worker, work'[w].pc \in {"running", "cache"}
        PROVE  RunSource(work'[w].run) = work'[w].review
    BY <1>4, RunTraced
  <1>5. QED
    BY <1>1, <1>2, <1>3, <1>4 DEF Traced, RunSource

LEMMA TracesHold == Spec => [](TypeInv /\ IdsInv /\ Traced)
  <1>1. Init => Traced
    BY DEF Init, Traced, IdleHandler, IdleWorker, NoReview
  <1>2. QED
    BY <1>1, StepTraced, IdsHold, PTL DEF Spec

\* Under every fault, and through any chain of cache hits, a review only ever
\* shows a result that was computed from its own content and, in tenant scope,
\* for its own user (compute_cache_key, submit, put_cache).
THEOREM ResultsBelong == Spec => []ResultBelongsToSubmission
  <1>1. TypeInv /\ Traced => ResultBelongsToSubmission
    BY DEF Traced, ResultBelongsToSubmission, ComesFrom, KeyOf, CacheKey
  <1>2. QED
    BY <1>1, TracesHold, PTL

-----------------------------------------------------------------------------
(* The daily cap *)

\* The fresh reviews of a user, and those that a reservation is held for.
Charged(u) ==
    {r \in Review : \/ review[r].fresh /\ review[r].owner = u
                    \/ \E h \in Handler : /\ api[h].pc = "create"
                                          /\ api[h].user = u /\ api[h].review = r}

QuotaInv ==
    \A u \in User \ Exempt : DailyLimit > 0 =>
        /\ IsFiniteSet(Charged(u)) /\ Cardinality(Charged(u)) <= usage[u]
        /\ usage[u] <= DailyLimit

\* Only a reservation charges a review.
LEMMA ChargedGrows ==
    ASSUME TypeInv, IdsInv, [Next]_vars, NEW u, NEW r \in Review, r \in Charged(u)'
    PROVE  \/ r \in Charged(u)
           \/ \E h \in Handler : /\ SubmitReserve(h) /\ api[h].user = u /\ api[h].review = r
                                 /\ api'[h].pc = "create"
  <1>1. CASE review'[r].fresh /\ review'[r].owner = u
    <2>1. CASE review'[r] = review[r]
      BY <1>1, <2>1 DEF Charged
    <2>2. CASE Revises(r)
      BY <1>1, <2>2 DEF Charged, Revises, SameSubmission
    <2>3. ASSUME NEW h \in Handler, Makes(h, r)
          PROVE  r \in Charged(u)
      <3>1. /\ CachedDoc(api[h]).fresh = FALSE
            /\ FreshDoc(api[h]).owner = api[h].user
        BY NewDocs
      <3>2. SubmitCreate(h) /\ api[h].user = u /\ r = api[h].review
        BY <1>1, <2>3, <3>1 DEF Makes
      <3>3. QED BY <3>2 DEF SubmitCreate, Charged
    <2>4. QED BY <2>1, <2>2, <2>3, DocStep
  <1>2. ASSUME NEW h \in Handler, api'[h].pc = "create", api'[h].user = u, api'[h].review = r
        PROVE  \/ r \in Charged(u)
               \/ SubmitReserve(h) /\ api[h].user = u /\ api[h].review = r
    <2>1. CASE api'[h] = api[h]
      BY <1>2, <2>1 DEF Charged
    <2>2. CASE SubmitReserve(h)
      BY <1>2, <2>2 DEF SubmitReserve, Goto, Finish, IdleHandler, TypeInv, ApiOK, ApiState
    <2>3. ASSUME NEW v \in User, NEW c \in Content, NEW q \in Review
          PROVE  ~SubmitLookup(h, v, c, q)
      BY <1>2 DEF SubmitLookup, TypeInv, ApiOK
    <2>4. QED BY <1>2, <2>1, <2>2, <2>3, OpeningKept DEF Opening
  <1>3. QED BY <1>1, <1>2 DEF Charged

LEMMA ReserveKeepsQuota ==
    ASSUME TypeInv, IdsInv, QuotaInv, [Next]_vars, NEW h \in Handler, SubmitReserve(h),
           NEW u \in User \ Exempt, DailyLimit > 0
    PROVE  /\ IsFiniteSet(Charged(u)') /\ Cardinality(Charged(u)') <= usage'[u]
           /\ usage'[u] <= DailyLimit
  <1> DEFINE old == Charged(u)
             new == Charged(u)'
             x == api[h].review
  <1>0. /\ IsFiniteSet(old) /\ Cardinality(old) <= usage[u] /\ usage[u] <= DailyLimit
        /\ usage[u] \in Nat /\ DailyLimit \in Nat /\ Cardinality(old) \in Nat
    <2>1. IsFiniteSet(old) /\ Cardinality(old) <= usage[u] /\ usage[u] <= DailyLimit
      BY DEF QuotaInv
    <2>2. usage[u] \in Nat /\ DailyLimit \in Nat
      BY ConstantsAssumption DEF TypeInv, SharedOK
    <2>3. QED BY <2>1, <2>2, FS_CardinalityType
  <1>1. \A i \in Handler : SubmitReserve(i) => i = h
    <2>1. \A i \in Handler : SubmitReserve(i) => api'[i] # api[i]
      BY DEF SubmitReserve, Goto, Finish, IdleHandler, TypeInv, ApiOK, ApiState
    <2>2. \A i \in Handler : i # h => api'[i] = api[i]
      BY DEF SubmitReserve, Goto, Finish, TypeInv, ApiOK
    <2>3. QED BY <2>1, <2>2
  <1>2. new \subseteq old \union {x}
    BY <1>1, ChargedGrows DEF Charged
  <1>3. CASE api[h].user = u /\ MayReserve(u)
    <2>1. usage'[u] = usage[u] + 1 /\ usage[u] < DailyLimit
      BY <1>0, <1>3, ConstantsAssumption DEF SubmitReserve, MayReserve, TypeInv, SharedOK
    <2>2. /\ IsFiniteSet(old \union {x})
          /\ Cardinality(old \union {x}) \in {Cardinality(old), Cardinality(old) + 1}
      BY <1>0, FS_AddElement
    <2>3. IsFiniteSet(new) /\ Cardinality(new) <= Cardinality(old \union {x})
      BY <1>2, <2>2, FS_Subset
    <2>4. Cardinality(new) \in Nat
      BY <2>3, FS_CardinalityType
    <2>5. QED BY <1>0, <2>1, <2>2, <2>3, <2>4
  <1>4. CASE ~(api[h].user = u /\ MayReserve(u))
    <2>1. usage'[u] = usage[u]
      BY <1>0, <1>4 DEF SubmitReserve, TypeInv, SharedOK
    <2>2. ~(api[h].user = u /\ api'[h].pc = "create")
      BY <1>0, <1>4 DEF SubmitReserve, Finish, IdleHandler, TypeInv, ApiOK
    <2>3. new \subseteq old
      BY <1>1, <2>2, ChargedGrows DEF Charged
    <2>4. IsFiniteSet(new) /\ Cardinality(new) <= Cardinality(old)
      BY <1>0, <2>3, FS_Subset
    <2>5. Cardinality(new) \in Nat
      BY <2>4, FS_CardinalityType
    <2>6. QED BY <1>0, <2>1, <2>4, <2>5
  <1>5. QED BY <1>3, <1>4

LEMMA StepQuota == TypeInv /\ IdsInv /\ QuotaInv /\ [Next]_vars => QuotaInv'
  <1> SUFFICES ASSUME TypeInv, IdsInv, QuotaInv, [Next]_vars, NEW u \in User \ Exempt,
                      DailyLimit > 0
               PROVE  /\ IsFiniteSet(Charged(u)') /\ Cardinality(Charged(u)') <= usage'[u]
                      /\ usage'[u] <= DailyLimit
    BY DEF QuotaInv
  <1>1. CASE \E h \in Handler : SubmitReserve(h)
    BY <1>1, ReserveKeepsQuota
  <1>2. CASE \A h \in Handler : ~SubmitReserve(h)
    <2>1. UNCHANGED usage
      BY <1>2 DEF Next, vars, SubmitLookup, RetryRead, HandlerStep, SubmitCached, SubmitEmit,
         SubmitCreate, RetryWrite, Enqueue, EnqueueUndo, HandlerAborts, Deliver, Redeliver,
         WorkerStep, Claim, RunEnds, RunDone, RunFailed, RunTransient, PutCache, WorkerEmit,
         Respond, WorkerAborts, LeaseExpires, StallElapses
    <2>2. Charged(u)' \subseteq Charged(u)
      BY <1>2, ChargedGrows DEF Charged
    <2>3. IsFiniteSet(Charged(u)) /\ Cardinality(Charged(u)) <= usage[u] /\ usage[u] <= DailyLimit
      BY DEF QuotaInv
    <2>4. IsFiniteSet(Charged(u)') /\ Cardinality(Charged(u)') <= Cardinality(Charged(u))
      BY <2>2, <2>3, FS_Subset
    <2>5. /\ Cardinality(Charged(u)') \in Nat /\ Cardinality(Charged(u)) \in Nat
          /\ usage[u] \in Nat /\ DailyLimit \in Nat
      BY <2>3, <2>4, FS_CardinalityType, ConstantsAssumption DEF TypeInv, SharedOK
    <2>6. QED BY <2>1, <2>3, <2>4, <2>5
  <1>3. QED BY <1>1, <1>2

LEMMA QuotaKept == Spec => []QuotaInv
  <1>1. Init => QuotaInv
    <2> SUFFICES ASSUME Init, NEW u \in User, DailyLimit > 0
                 PROVE  /\ IsFiniteSet(Charged(u)) /\ Cardinality(Charged(u)) <= usage[u]
                        /\ usage[u] <= DailyLimit
      BY DEF QuotaInv
    <2>1. Charged(u) = {}
      BY DEF Init, Charged, NoReview, IdleHandler
    <2>2. usage[u] = 0
      BY DEF Init
    <2>3. QED BY <2>1, <2>2, FS_EmptySet, ConstantsAssumption
  <1>2. QED
    BY <1>1, StepQuota, IdsHold, PTL DEF Spec

\* Under every fault a user who is not exempt never has more fresh reviews than
\* the cap, however submissions interleave and die (reserve_daily_review).
THEOREM QuotaHolds == Spec => []QuotaRespected
  <1>1. TypeInv /\ QuotaInv => QuotaRespected
    <2> SUFFICES ASSUME TypeInv, QuotaInv, NEW u \in User \ Exempt, DailyLimit > 0
                 PROVE  Cardinality({r \in Review : review[r].fresh /\ review[r].owner = u})
                          <= DailyLimit
      BY DEF QuotaRespected
    <2> DEFINE own == {r \in Review : review[r].fresh /\ review[r].owner = u}
    <2>1. IsFiniteSet(Charged(u)) /\ Cardinality(Charged(u)) <= usage[u] /\ usage[u] <= DailyLimit
      BY DEF QuotaInv
    <2>2. own \subseteq Charged(u)
      BY DEF Charged
    <2>3. IsFiniteSet(own) /\ Cardinality(own) <= Cardinality(Charged(u))
      BY <2>1, <2>2, FS_Subset
    <2>4. /\ Cardinality(own) \in Nat /\ Cardinality(Charged(u)) \in Nat
          /\ usage[u] \in Nat /\ DailyLimit \in Nat
      BY <2>1, <2>3, FS_CardinalityType, ConstantsAssumption DEF TypeInv, SharedOK
    <2>5. QED BY <2>1, <2>3, <2>4
  <1>2. QED
    BY <1>1, QuotaKept, IdsHold, PTL

-----------------------------------------------------------------------------
(* What the cache serves *)

\* The run that a delivery is about to cache is the one its review shows.
AboutToCache ==
    \A w \in Worker : work[w].pc = "cache" =>
        /\ review[work[w].review].status = "done"
        /\ review[work[w].review].result = work[w].run

CacheInv == CacheMatchesSource /\ AboutToCache

LEMMA FinishedRun ==
    ASSUME TypeInv, NEW w \in Worker, NEW c \in Spend, RunDone(w, c)
    PROVE  LET r == work[w].review IN
           /\ r \in Review
           /\ review'[r].status = "done" /\ review'[r].result = work[w].run
           /\ work'[w].review = r /\ work'[w].run = work[w].run
  <1> DEFINE r == work[w].review
  <1>1. r \in Review /\ review[r] \in ReviewDoc
    BY Busy DEF RunDone, TypeInv, DocsOK
  <1>2. review'[r] = DoneDoc(r, work[w].run, c)
    BY <1>1, Written DEF RunDone, TypeInv
  <1>3. DoneDoc(r, work[w].run, c).status = "done" /\ DoneDoc(r, work[w].run, c).result = work[w].run
    BY <1>1 DEF DoneDoc, ReviewDoc
  <1>4. work'[w].review = r /\ work'[w].run = work[w].run
    BY DEF RunDone, Step, TypeInv, WorkOK, WorkState
  <1>5. QED
    BY <1>1, <1>2, <1>3, <1>4

LEMMA StepCache ==
    ASSUME TypeInv, IdsInv, Traced, SoleOwner, TimelyEnvironment, CacheInv, [Next]_vars
    PROVE  CacheInv'
  <1>0. DoneKept
    BY StepSoleOwner
  <1>1. ASSUME NEW k \in Key, cache'[k] # None
        PROVE  /\ review'[RunSource(cache'[k])].status = "done"
               /\ review'[RunSource(cache'[k])].result = cache'[k]
    <2>1. CASE cache'[k] = cache[k]
      <3>1. RunSource(cache[k]) \in Review
        BY <1>1, <2>1 DEF Traced, ComesFrom
      <3>2. QED
        BY <1>0, <1>1, <2>1, <3>1 DEF CacheInv, CacheMatchesSource, DoneKept
    <2>2. CASE cache'[k] # cache[k]
      <3>1. PICK w \in Worker : work[w].pc = "cache" /\ cache'[k] = work[w].run
        BY <2>2, CacheChanges
      <3>2. RunSource(work[w].run) = work[w].review /\ work[w].review \in Review
        BY <3>1, Busy DEF Traced
      <3>3. QED
        BY <1>0, <3>1, <3>2 DEF CacheInv, AboutToCache, DoneKept
    <2>3. QED BY <2>1, <2>2
  <1>2. ASSUME NEW w \in Worker, work'[w].pc = "cache"
        PROVE  /\ review'[work'[w].review].status = "done"
               /\ review'[work'[w].review].result = work'[w].run
    <2>1. CASE work'[w] = work[w]
      <3>1. work[w].review \in Review
        BY <1>2, <2>1, Busy
      <3>2. QED
        BY <1>0, <1>2, <2>1, <3>1 DEF CacheInv, AboutToCache, DoneKept
    <2>2. ASSUME NEW c \in Spend, RunDone(w, c)
          PROVE  /\ review'[work'[w].review].status = "done"
                 /\ review'[work'[w].review].result = work'[w].run
      BY <2>2, FinishedRun
    <2>3. QED BY <1>2, <2>1, <2>2, DeliveryMoves
  <1>3. QED
    BY <1>1, <1>2 DEF CacheInv, CacheMatchesSource, AboutToCache, RunSource

\* In a timely environment whatever the cache serves is the result that its
\* source review shows, and will go on showing (put_cache, submit).
THEOREM CacheHolds == TimelyEnvironment => (Spec => []CacheMatchesSource)
  <1> SUFFICES ASSUME TimelyEnvironment PROVE Spec => []CacheMatchesSource
    OBVIOUS
  <1>1. Init => CacheInv
    BY DEF Init, CacheInv, CacheMatchesSource, AboutToCache, IdleWorker
  <1>2. TypeInv /\ IdsInv /\ Traced /\ SoleOwner /\ CacheInv /\ [Next]_vars => CacheInv'
    BY StepCache
  <1>3. CacheInv => CacheMatchesSource
    BY DEF CacheInv
  <1>4. QED
    BY <1>1, <1>2, <1>3, TracesHold, OwnershipHolds, PTL DEF Spec

-----------------------------------------------------------------------------
(* How often a review is reported done *)

\* A request or a delivery that still has to report the review done.
RequestReports(h, r) == api[h].pc = "row" /\ api[h].review = r

DeliveryReports(w, r) ==
    /\ work[w].review = r
    /\ work[w].pc = "cache" \/ (work[w].pc = "emit" /\ work[w].outcome = "done")

DoneReportsInv ==
    \A r \in Review :
        /\ \A h \in Handler : RequestReports(h, r) =>
            /\ review[r].status = "done" /\ rows[r]["done"] = 0
            /\ \A w \in Worker : ~DeliveryReports(w, r)
        /\ \A w \in Worker : DeliveryReports(w, r) =>
            /\ review[r].status = "done" /\ rows[r]["done"] = 0
            /\ \A v \in Worker : DeliveryReports(v, r) => v = w
        /\ rows[r]["done"] <= IF review[r].status = "done" THEN 1 ELSE 0

\* A retry goes on to enqueue, and an enqueue ends or is to be undone.
LEMMA RetryGoesOn ==
    ASSUME TypeInv, [Next]_vars, NEW h \in Handler, api[h].pc \in {"retry", "enqueue"},
           api'[h] # api[h]
    PROVE  RetryWrite(h) \/ Enqueue(h) \/ api'[h].pc = "idle"
  <1>1. ASSUME NEW i \in Handler, HandlerStep(i) \/ HandlerAborts(i)
        PROVE  RetryWrite(h) \/ Enqueue(h) \/ api'[h].pc = "idle"
    <2>1. i = h
      <3>1. (\E pc : Goto(i, pc)) \/ Finish(i)
        BY <1>1 DEF HandlerStep, SubmitCached, SubmitEmit, SubmitReserve, SubmitCreate,
           RetryWrite, Enqueue, EnqueueUndo, HandlerAborts
      <3>2. QED BY <3>1 DEF Goto, Finish, TypeInv, ApiOK
    <2>2. HandlerAborts(h) => api'[h].pc = "idle"
      BY DEF HandlerAborts, Finish, IdleHandler, TypeInv, ApiOK
    <2>3. QED
      BY <1>1, <2>1, <2>2 DEF HandlerStep, SubmitCached, SubmitEmit, SubmitReserve,
         SubmitCreate, EnqueueUndo
  <1>2. ASSUME NEW i \in Handler, NEW q \in Review,
               (\E u \in User, c \in Content : SubmitLookup(i, u, c, q)) \/ RetryRead(i, q)
        PROVE  FALSE
    BY <1>2 DEF SubmitLookup, RetryRead, TypeInv, ApiOK
  <1>3. CASE \/ \E w \in Worker, q \in Review, g \in Generation : Deliver(w, q, g)
             \/ \E q \in Review, g \in Generation : Redeliver(q, g)
             \/ \E w \in Worker : WorkerStep(w) \/ WorkerAborts(w)
             \/ \E q \in Review : LeaseExpires(q) \/ StallElapses(q)
             \/ UNCHANGED vars
    BY <1>3 DEF Deliver, Redeliver, WorkerStep, Claim, RunEnds, RunDone, RunFailed,
       RunTransient, PutCache, WorkerEmit, Respond, WorkerAborts, LeaseExpires, StallElapses,
       vars
  <1>4. QED BY <1>1, <1>2, <1>3 DEF Next

LEMMA NewRequestReport ==
    ASSUME TypeInv, [Next]_vars, NEW h \in Handler, NEW r \in Review, RequestReports(h, r)'
    PROVE  \/ RequestReports(h, r) /\ api'[h] = api[h]
           \/ SubmitCached(h) /\ api[h].review = r
  <1>1. api'[h].pc = "row" /\ api'[h].review = r
    BY DEF RequestReports
  <1>2. CASE api'[h] = api[h]
    BY <1>1, <1>2 DEF RequestReports
  <1>3. CASE SubmitCached(h)
    BY <1>1, <1>3 DEF SubmitCached, Goto, TypeInv, ApiOK, ApiState
  <1>4. CASE SubmitCreate(h) \/ RetryWrite(h) \/ Enqueue(h)
    <2>1. Goto(h, "enqueue") \/ Goto(h, "undo") \/ Finish(h)
      BY <1>4 DEF SubmitCreate, RetryWrite, Enqueue
    <2>2. QED BY <1>1, <2>1 DEF Goto, Finish, IdleHandler, TypeInv, ApiOK, ApiState
  <1>5. ASSUME NEW q \in Review, RetryRead(h, q)
        PROVE  FALSE
    BY <1>1, <1>5 DEF RetryRead, TypeInv, ApiOK, IdleHandler
  <1>6. QED
    BY <1>1, <1>2, <1>3, <1>4, <1>5, RetryGoesOn, StoredRequest DEF Makes

\* How a delivery comes to report on its review.
LEMMA ReportMoves ==
    ASSUME TypeInv, [Next]_vars, NEW w \in Worker, work'[w].pc = "emit"
    PROVE  \/ work'[w] = work[w]
           \/ /\ work[w].pc = "cache" /\ work'[w].review = work[w].review
              /\ work'[w].outcome = "done"
           \/ /\ work[w].pc = "running" /\ work'[w].review = work[w].review
              /\ work'[w].outcome = "failed"
              /\ \E c \in Spend : Fail(w, c)
  <1>1. CASE PutCache(w)
    BY <1>1 DEF PutCache, TypeInv, WorkOK, WorkState
  <1>2. ASSUME NEW c \in Spend, RunDone(w, c) \/ RunFailed(w, c) \/ RunTransient(w, c)
        PROVE  /\ work[w].pc = "running" /\ work'[w].review = work[w].review
               /\ work'[w].outcome = "failed" /\ Fail(w, c)
    <2>1. work[w].pc = "running" /\ Fail(w, c)
      BY <1>2 DEF RunDone, RunFailed, RunTransient, Step, TypeInv, WorkOK, WorkState
    <2>2. QED BY <2>1 DEF Fail, TypeInv, WorkOK, WorkState
  <1>3. CASE Claim(w) \/ WorkerEmit(w) \/ Respond(w) \/ WorkerAborts(w)
    BY <1>3 DEF Claim, WorkerEmit, Step, Respond, WorkerAborts, IdleWorker, TypeInv, WorkOK,
       WorkState
  <1>4. ASSUME NEW v \in Worker, WorkerStep(v) \/ WorkerAborts(v), v # w
        PROVE  work'[w] = work[w]
    BY <1>4 DEF WorkerStep, Claim, RunEnds, RunDone, RunFailed, RunTransient, Fail, Step,
       PutCache, WorkerEmit, Respond, WorkerAborts, TypeInv, WorkOK
  <1>5. ASSUME NEW v \in Worker, NEW r \in Review, NEW g \in Generation, Deliver(v, r, g)
        PROVE  work'[w] = work[w]
    BY <1>5 DEF Deliver, IdleWorker, TypeInv, WorkOK
  <1>6. CASE \/ \E h \in Handler, u \in User, c \in Content, r \in Review : SubmitLookup(h, u, c, r)
             \/ \E h \in Handler, r \in Review : RetryRead(h, r)
             \/ \E h \in Handler : HandlerStep(h) \/ HandlerAborts(h)
             \/ \E r \in Review, g \in Generation : Redeliver(r, g)
             \/ \E r \in Review : LeaseExpires(r) \/ StallElapses(r)
             \/ UNCHANGED vars
    BY <1>6 DEF SubmitLookup, RetryRead, HandlerStep, SubmitCached, SubmitEmit, SubmitReserve,
       SubmitCreate, RetryWrite, Enqueue, EnqueueUndo, HandlerAborts, Redeliver, LeaseExpires,
       StallElapses, vars
  <1>7. QED
    BY <1>1, <1>2, <1>3, <1>4, <1>5, <1>6 DEF Next, WorkerStep, RunEnds

LEMMA NewDeliveryReport ==
    ASSUME TypeInv, [Next]_vars, NEW w \in Worker, NEW r \in Review, DeliveryReports(w, r)'
    PROVE  \/ DeliveryReports(w, r)
           \/ \E c \in Spend : RunDone(w, c) /\ work[w].review = r
  <1>1. CASE work'[w].pc = "cache"
    BY <1>1, DeliveryMoves DEF DeliveryReports
  <1>2. CASE work'[w].pc = "emit" /\ work'[w].outcome = "done"
    BY <1>2, ReportMoves DEF DeliveryReports
  <1>3. QED BY <1>1, <1>2 DEF DeliveryReports

\* A row is written by whoever had to report, and no longer has to.
LEMMA RowsChange ==
    ASSUME TypeInv, [Next]_vars, NEW r \in Review, NEW s \in {"done", "failed"},
           rows'[r][s] # rows[r][s]
    PROVE  /\ rows'[r][s] = rows[r][s] + 1
           /\ \/ \E h \in Handler : s = "done" /\ RequestReports(h, r) /\ ~RequestReports(h, r)'
                                    /\ UNCHANGED <<review, work>>
              \/ \E w \in Worker : /\ work[w].pc = "emit" /\ work[w].outcome = s
                                   /\ work[w].review = r /\ work'[w].pc = "respond"
                                   /\ UNCHANGED <<review, api>>
  <1>1. ASSUME NEW q \in Review, NEW t \in {"done", "failed"}, AddRow(q, t)
        PROVE  q = r /\ t = s /\ rows'[r][s] = rows[r][s] + 1
    BY <1>1 DEF AddRow, TypeInv, BooksOK
  <1>2. ASSUME NEW h \in Handler, SubmitEmit(h)
        PROVE  /\ rows'[r][s] = rows[r][s] + 1
               /\ s = "done" /\ RequestReports(h, r) /\ ~RequestReports(h, r)'
               /\ UNCHANGED <<review, work>>
    <2>1. api[h].review \in Review /\ AddRow(api[h].review, "done") /\ Finish(h)
      BY <1>2, Busy DEF SubmitEmit
    <2>2. api'[h].pc = "idle"
      BY <2>1 DEF Finish, IdleHandler, TypeInv, ApiOK
    <2>3. api[h].review = r /\ s = "done" /\ rows'[r][s] = rows[r][s] + 1
      BY <1>1, <2>1
    <2>4. QED BY <1>2, <2>2, <2>3 DEF SubmitEmit, RequestReports
  <1>3. ASSUME NEW w \in Worker, WorkerEmit(w)
        PROVE  /\ rows'[r][s] = rows[r][s] + 1
               /\ work[w].pc = "emit" /\ work[w].outcome = s
               /\ work[w].review = r /\ work'[w].pc = "respond"
               /\ UNCHANGED <<review, api>>
    <2>1. /\ work[w].review \in Review /\ work[w].outcome \in {"done", "failed"}
          /\ AddRow(work[w].review, work[w].outcome)
      BY <1>3, Busy DEF WorkerEmit, TypeInv, WorkOK
    <2>2. work'[w].pc = "respond"
      BY <1>3 DEF WorkerEmit, Step, TypeInv, WorkOK, WorkState
    <2>3. QED BY <1>1, <1>3, <2>1, <2>2 DEF WorkerEmit
  <1>4. CASE (\A h \in Handler : ~SubmitEmit(h)) /\ (\A w \in Worker : ~WorkerEmit(w))
    BY <1>4 DEF Next, vars, SubmitLookup, RetryRead, HandlerStep, SubmitCached, SubmitReserve,
       SubmitCreate, RetryWrite, Enqueue, EnqueueUndo, HandlerAborts, Deliver, Redeliver,
       WorkerStep, Claim, RunEnds, RunDone, RunFailed, RunTransient, PutCache, Respond,
       WorkerAborts, LeaseExpires, StallElapses
  <1>5. QED BY <1>2, <1>3, <1>4

LEMMA StepDoneReports ==
    ASSUME TypeInv, SoleOwner, TimelyEnvironment, DoneReportsInv, [Next]_vars
    PROVE  DoneReportsInv'
  <1> SUFFICES ASSUME NEW r \in Review
               PROVE  /\ \A h \in Handler : RequestReports(h, r)' =>
                          /\ review'[r].status = "done" /\ rows'[r]["done"] = 0
                          /\ \A w \in Worker : ~DeliveryReports(w, r)'
                      /\ \A w \in Worker : DeliveryReports(w, r)' =>
                          /\ review'[r].status = "done" /\ rows'[r]["done"] = 0
                          /\ \A v \in Worker : DeliveryReports(v, r)' => v = w
                      /\ rows'[r]["done"] <= IF review'[r].status = "done" THEN 1 ELSE 0
    BY DEF DoneReportsInv
  <1>0. review[r].status = "done" => review'[r].status = "done"
    BY StepSoleOwner DEF DoneKept
  <1>1. /\ rows[r]["done"] \in Nat
        /\ rows'[r]["done"] = rows[r]["done"] \/ rows'[r]["done"] = rows[r]["done"] + 1
    BY RowsChange DEF TypeInv, BooksOK
  <1>2. CASE review[r].status # "done"
    <2>1. /\ rows[r]["done"] = 0
          /\ \A h \in Handler : ~RequestReports(h, r)
          /\ \A w \in Worker : ~DeliveryReports(w, r)
      BY <1>1, <1>2 DEF DoneReportsInv
    <2>2. rows'[r]["done"] = 0
      BY <2>1, RowsChange DEF DeliveryReports
    <2>3. ASSUME NEW h \in Handler, RequestReports(h, r)'
          PROVE  /\ SubmitCached(h) /\ api[h].review = r
                 /\ review[r].status = "absent" /\ review'[r].status = "done"
      <3>1. SubmitCached(h) /\ api[h].review = r
        BY <2>1, <2>3, NewRequestReport
      <3>2. review'[r] = CachedDoc(api[h])
        BY <3>1, Written DEF SubmitCached, TypeInv
      <3>3. review[r].status = "absent"
        BY <3>1 DEF SubmitCached, SoleOwner, RequestsAreCurrent, Current
      <3>4. CachedDoc(api[h]).status = "done"
        BY NewDocs
      <3>5. QED BY <3>1, <3>2, <3>3, <3>4
    <2>4. ASSUME NEW w \in Worker, DeliveryReports(w, r)'
          PROVE  /\ Processing(w, r) /\ review[r].status = "running"
                 /\ review'[r].status = "done"
      <3>1. PICK c \in Spend : RunDone(w, c) /\ work[w].review = r
        BY <2>1, <2>4, NewDeliveryReport
      <3>2. Processing(w, r)
        BY <3>1 DEF RunDone, Processing
      <3>3. QED BY <3>1, <3>2, FinishedRun DEF SoleOwner, LeaseIsHeld
    <2>5. QED
      BY <2>2, <2>3, <2>4 DEF SoleOwner, ExclusiveProcessing
  <1>3. CASE review[r].status = "done"
    <2>1. ASSUME NEW h \in Handler, RequestReports(h, r)'
          PROVE  RequestReports(h, r)
      <3>1. ~(SubmitCached(h) /\ api[h].review = r)
        BY <1>3 DEF SubmitCached, SoleOwner, RequestsAreCurrent, Current
      <3>2. QED BY <2>1, <3>1, NewRequestReport
    <2>2. ASSUME NEW w \in Worker, DeliveryReports(w, r)'
          PROVE  DeliveryReports(w, r)
      <3>1. \A c \in Spend : ~(RunDone(w, c) /\ work[w].review = r)
        BY <1>3 DEF RunDone, SoleOwner, LeaseIsHeld, Processing
      <3>2. QED BY <2>2, <3>1, NewDeliveryReport
    <2>3. CASE rows'[r]["done"] = rows[r]["done"]
      BY <1>0, <1>3, <2>1, <2>2, <2>3 DEF DoneReportsInv
    <2>4. ASSUME NEW h \in Handler, RequestReports(h, r), ~RequestReports(h, r)',
                 rows'[r]["done"] = rows[r]["done"] + 1
          PROVE  /\ rows'[r]["done"] = 1
                 /\ \A i \in Handler : ~RequestReports(i, r)'
                 /\ \A w \in Worker : ~DeliveryReports(w, r)'
      <3>1. \A i \in Handler : RequestReports(i, r) => i = h
        BY <2>4, Busy DEF RequestReports, SoleOwner, HeldOnce
      <3>2. rows[r]["done"] = 0 /\ \A w \in Worker : ~DeliveryReports(w, r)
        BY <2>4 DEF DoneReportsInv
      <3>3. QED BY <2>1, <2>2, <2>4, <3>1, <3>2
    <2>5. ASSUME NEW w \in Worker, work[w].pc = "emit", work[w].outcome = "done",
                 work[w].review = r, work'[w].pc = "respond",
                 rows'[r]["done"] = rows[r]["done"] + 1
          PROVE  /\ rows'[r]["done"] = 1
                 /\ \A i \in Handler : ~RequestReports(i, r)'
                 /\ \A v \in Worker : ~DeliveryReports(v, r)'
      <3>1. DeliveryReports(w, r) /\ ~DeliveryReports(w, r)'
        BY <2>5 DEF DeliveryReports
      <3>2. /\ rows[r]["done"] = 0
            /\ \A i \in Handler : ~RequestReports(i, r)
            /\ \A v \in Worker : DeliveryReports(v, r) => v = w
        BY <3>1 DEF DoneReportsInv
      <3>3. QED BY <2>1, <2>2, <2>5, <3>1, <3>2
    <2>6. CASE rows'[r]["done"] # rows[r]["done"]
      <3>1. /\ rows'[r]["done"] = 1
            /\ \A i \in Handler : ~RequestReports(i, r)'
            /\ \A v \in Worker : ~DeliveryReports(v, r)'
        BY <2>4, <2>5, <2>6, RowsChange
      <3>2. QED BY <1>0, <1>3, <3>1
    <2>7. QED BY <2>3, <2>6
  <1>4. QED BY <1>2, <1>3

-----------------------------------------------------------------------------
(* How often a review is reported failed *)

ReportsFailure(w, r) ==
    work[w].review = r /\ work[w].pc = "emit" /\ work[w].outcome = "failed"
FailureReports(r) == {w \in Worker : ReportsFailure(w, r)}

\* How often a review has failed at most: once per submission or retry, and
\* not yet in the generation it is queued or running in.
Failures(r) == review[r].generation + (IF review[r].status = "failed" THEN 1 ELSE 0)

FailureReportsInv ==
    /\ \A r \in Review :
        /\ IsFiniteSet(FailureReports(r))
        /\ rows[r]["failed"] + Cardinality(FailureReports(r)) <= Failures(r)
    /\ \A h \in Handler : api[h].pc = "retry" =>
        api[h].generation = review[api[h].review].generation + 1

\* A retry that has read the review is the only one that moves its generation.
LEMMA GenerationMoves ==
    ASSUME TypeInv, IdsInv, SoleOwner, TimelyEnvironment, [Next]_vars, NEW r \in Review
    PROVE  \/ /\ review'[r].generation = review[r].generation
              /\ review[r].status = "failed" => review'[r].status = "failed"
           \/ \E h \in Handler : /\ api[h].pc = "retry" /\ api[h].review = r
                                 /\ api'[h].pc = "enqueue"
                                 /\ review'[r].generation = api[h].generation
  <1> DEFINE Goal == \/ /\ review'[r].generation = review[r].generation
                        /\ review[r].status = "failed" => review'[r].status = "failed"
                     \/ \E h \in Handler : /\ api[h].pc = "retry" /\ api[h].review = r
                                           /\ api'[h].pc = "enqueue"
                                           /\ review'[r].generation = api[h].generation
  <1>0. DocsOK /\ review[r] \in ReviewDoc
    BY DEF TypeInv, DocsOK
  <1>1. ASSUME NEW h \in Handler, HandlerStep(h) \/ HandlerAborts(h)
        PROVE  Goal
    <2>0. api[h].pc # "idle" => api[h].review \in Review
      BY Busy
    <2>1. CASE SubmitCached(h) \/ SubmitCreate(h)
      <3>1. review[api[h].review] = NoReview /\ api[h].review \in Review
        BY <2>0, <2>1 DEF SubmitCached, SubmitCreate, IdsInv, Opened, Opening, Blank
      <3>2. CachedDoc(api[h]).generation = 0 /\ FreshDoc(api[h]).generation = 0
        BY DEF CachedDoc, FreshDoc, NoReview
      <3>3. PICK doc : Write(api[h].review, doc) /\ doc.generation = 0
        BY <2>1, <3>2 DEF SubmitCached, SubmitCreate
      <3>4. QED BY <1>0, <3>1, <3>3, Written DEF NoReview
    <2>2. CASE RetryWrite(h)
      <3>1. CASE api[h].review = r
        <4>1. review'[r] = RetriedDoc(r, api[h].generation)
          BY <1>0, <2>2, <3>1, Written DEF RetryWrite
        <4>2. RetriedDoc(r, api[h].generation).generation = api[h].generation
          BY <1>0 DEF RetriedDoc, ReviewDoc
        <4>3. api'[h].pc = "enqueue"
          BY <2>2 DEF RetryWrite, Goto, TypeInv, ApiOK, ApiState
        <4>4. QED BY <2>2, <3>1, <4>1, <4>2, <4>3 DEF RetryWrite
      <3>2. CASE api[h].review # r
        BY <1>0, <2>0, <2>2, <3>2, Written DEF RetryWrite
      <3>3. QED BY <3>1, <3>2
    <2>3. ~EnqueueUndo(h)
      BY DEF EnqueueUndo, SoleOwner, RequestsAreCurrent, Current
    <2>4. CASE SubmitEmit(h) \/ SubmitReserve(h) \/ Enqueue(h) \/ HandlerAborts(h)
      BY <2>4 DEF SubmitEmit, SubmitReserve, Enqueue, HandlerAborts
    <2>5. QED BY <1>1, <2>1, <2>2, <2>3, <2>4 DEF HandlerStep
  <1>2. ASSUME NEW w \in Worker, WorkerStep(w) \/ WorkerAborts(w)
        PROVE  Goal
    <2> DEFINE q == work[w].review
    <2>1. CASE Claim(w)
      <3>1. CASE Claimable(q)
        <4>1. q \in Review /\ Write(q, ClaimedDoc(q)) /\ review[q].status # "failed"
          BY <2>1, <3>1, Busy DEF Claim, Claimable
        <4>2. ClaimedDoc(q).generation = review[q].generation
          BY <1>0, <4>1 DEF ClaimedDoc, DocsOK, ReviewDoc
        <4>3. QED BY <1>0, <4>1, <4>2, Written
      <3>2. CASE ~Claimable(q)
        BY <2>1, <3>2 DEF Claim
      <3>3. QED BY <3>1, <3>2
    <2>2. ASSUME NEW c \in Spend, RunDone(w, c) \/ RunFailed(w, c) \/ RunTransient(w, c)
          PROVE  Goal
      <3>1. q \in Review /\ review[q].status = "running"
        BY <2>2, Busy DEF RunDone, RunFailed, RunTransient, SoleOwner, LeaseIsHeld, Processing
      <3>2. /\ DoneDoc(q, work[w].run, c).generation = review[q].generation
            /\ FailedDoc(q, c).generation = review[q].generation
            /\ RequeuedDoc(q).generation = review[q].generation
        BY <1>0, <3>1 DEF DoneDoc, FailedDoc, RequeuedDoc, DocsOK, ReviewDoc
      <3>3. PICK doc : Write(q, doc) /\ doc.generation = review[q].generation
        BY <2>2, <3>2 DEF RunDone, RunFailed, RunTransient, Fail
      <3>4. QED BY <1>0, <3>1, <3>3, Written
    <2>3. CASE PutCache(w) \/ WorkerEmit(w) \/ Respond(w) \/ WorkerAborts(w)
      BY <2>3 DEF PutCache, WorkerEmit, Respond, WorkerAborts
    <2>4. QED BY <1>2, <2>1, <2>2, <2>3 DEF WorkerStep, RunEnds
  <1>3. ASSUME NEW q \in Review, LeaseExpires(q)
        PROVE  Goal
    BY <1>0, <1>3 DEF LeaseExpires, Write, DocsOK, ReviewDoc
  <1>4. CASE \/ \E h \in Handler, u \in User, c \in Content, q \in Review : SubmitLookup(h, u, c, q)
             \/ \E h \in Handler, q \in Review : RetryRead(h, q)
             \/ \E w \in Worker, q \in Review, g \in Generation : Deliver(w, q, g)
             \/ \E q \in Review, g \in Generation : Redeliver(q, g)
             \/ \E q \in Review : StallElapses(q)
             \/ UNCHANGED vars
    BY <1>4 DEF SubmitLookup, RetryRead, Deliver, Redeliver, StallElapses, vars
  <1>5. QED
    BY <1>1, <1>2, <1>3, <1>4 DEF Next

LEMMA RetryIsAhead ==
    ASSUME TypeInv, IdsInv, SoleOwner, TimelyEnvironment, FailureReportsInv, [Next]_vars,
           NEW h \in Handler, api'[h].pc = "retry"
    PROVE  api'[h].generation = review'[api'[h].review].generation + 1
  <1>1. CASE api'[h] = api[h]
    <2> DEFINE r == api[h].review
    <2>1. r \in Review /\ api[h].pc = "retry" /\ api[h].generation = review[r].generation + 1
      BY <1>1, Busy DEF FailureReportsInv
    <2>2. \A g \in Handler : api[g].pc = "retry" /\ api[g].review = r => g = h
      BY <2>1, Busy DEF SoleOwner, HeldOnce
    <2>3. review'[r].generation = review[r].generation
      BY <1>1, <2>1, <2>2, GenerationMoves
    <2>4. QED BY <1>1, <2>1, <2>3
  <1>2. ASSUME NEW r \in Review, RetryRead(h, r)
        PROVE  api'[h].generation = review'[api'[h].review].generation + 1
    BY <1>2 DEF RetryRead, TypeInv, ApiOK, IdleHandler
  <1>3. CASE RetryWrite(h) \/ Enqueue(h) \/ SubmitCached(h) \/ SubmitCreate(h)
    <2>1. Goto(h, "enqueue") \/ Goto(h, "undo") \/ Goto(h, "row") \/ Finish(h)
      BY <1>3 DEF RetryWrite, Enqueue, SubmitCached, SubmitCreate
    <2>2. QED BY <2>1 DEF Goto, Finish, IdleHandler, TypeInv, ApiOK, ApiState
  <1>4. QED
    BY <1>1, <1>2, <1>3, RetryGoesOn, StoredRequest DEF Makes

LEMMA FailuresGrow ==
    ASSUME TypeInv, IdsInv, SoleOwner, TimelyEnvironment, FailureReportsInv, [Next]_vars,
           NEW r \in Review
    PROVE  Failures(r) \in Nat /\ Failures(r)' \in Nat /\ Failures(r) <= Failures(r)'
  <1>1. TypeInv'
    BY StepTypeInv
  <1>2. review[r].generation \in Nat /\ review'[r].generation \in Nat
    BY <1>1, ConstantsAssumption DEF TypeInv, DocsOK, ReviewDoc, Generation
  <1>3. CASE /\ review'[r].generation = review[r].generation
             /\ review[r].status = "failed" => review'[r].status = "failed"
    BY <1>2, <1>3 DEF Failures
  <1>4. ASSUME NEW h \in Handler, api[h].pc = "retry", api[h].review = r,
               review'[r].generation = api[h].generation
        PROVE  review'[r].generation = review[r].generation + 1
    BY <1>4 DEF FailureReportsInv
  <1>5. CASE review'[r].generation = review[r].generation + 1
    BY <1>2, <1>5 DEF Failures
  <1>6. QED
    BY <1>3, <1>4, <1>5, GenerationMoves

LEMMA NewFailureReport ==
    ASSUME TypeInv, SoleOwner, [Next]_vars, NEW r \in Review, NEW w \in Worker,
           ReportsFailure(w, r)', ~ReportsFailure(w, r)
    PROVE  Processing(w, r) /\ Failures(r)' = Failures(r) + 1
  <1>1. /\ work[w].pc = "running" /\ work'[w].review = work[w].review
        /\ \E c \in Spend : Fail(w, c)
    BY ReportMoves DEF ReportsFailure
  <1>2. work[w].review = r /\ Processing(w, r) /\ review[r].status = "running"
    BY <1>1 DEF ReportsFailure, Processing, SoleOwner, LeaseIsHeld
  <1>3. PICK c \in Spend : Fail(w, c)
    BY <1>1
  <1>4. review[r] \in ReviewDoc /\ review[r].generation \in Nat
    BY ConstantsAssumption DEF TypeInv, DocsOK, ReviewDoc, Generation
  <1>5. review'[r] = FailedDoc(r, c)
    BY <1>2, <1>3, Written DEF Fail, TypeInv
  <1>6. FailedDoc(r, c).status = "failed" /\ FailedDoc(r, c).generation = review[r].generation
    BY <1>4 DEF FailedDoc, ReviewDoc
  <1>7. QED
    BY <1>2, <1>4, <1>5, <1>6 DEF Failures

LEMMA StepFailureReports ==
    ASSUME TypeInv, IdsInv, SoleOwner, TimelyEnvironment, FailureReportsInv, [Next]_vars
    PROVE  FailureReportsInv'
  <1>1. ASSUME NEW r \in Review
        PROVE  /\ IsFiniteSet(FailureReports(r)')
               /\ rows'[r]["failed"] + Cardinality(FailureReports(r)') <= Failures(r)'
    <2> DEFINE old == FailureReports(r)
               new == FailureReports(r)'
               n == rows[r]["failed"]
    <2>1. /\ IsFiniteSet(old) /\ Cardinality(old) \in Nat /\ n \in Nat
          /\ n + Cardinality(old) <= Failures(r)
      BY FS_CardinalityType DEF FailureReportsInv, TypeInv, BooksOK
    <2>2. Failures(r) \in Nat /\ Failures(r)' \in Nat /\ Failures(r) <= Failures(r)'
      BY FailuresGrow
    \* A report that is made is no longer due.
    <2>3. \E mid \in SUBSET old :
             /\ new \subseteq mid \union (new \ old)
             /\ IsFiniteSet(mid) /\ Cardinality(mid) \in Nat
             /\ rows'[r]["failed"] \in Nat
             /\ rows'[r]["failed"] + Cardinality(mid) = n + Cardinality(old)
      <3>1. CASE rows'[r]["failed"] = n
        BY <2>1, <3>1
      <3>2. CASE rows'[r]["failed"] # n
        <4>1. /\ rows'[r]["failed"] = n + 1
              /\ \E w \in Worker : /\ work[w].pc = "emit" /\ work[w].outcome = "failed"
                                   /\ work[w].review = r /\ work'[w].pc = "respond"
          BY <3>2, RowsChange
        <4>2. PICK w \in Worker : w \in old /\ w \notin new
          BY <4>1 DEF FailureReports, ReportsFailure
        <4>3. IsFiniteSet(old \ {w}) /\ Cardinality(old \ {w}) = Cardinality(old) - 1
          BY <2>1, <4>2, FS_RemoveElement
        <4>4. Cardinality(old \ {w}) \in Nat
          BY <4>3, FS_CardinalityType
        <4>5. new \subseteq (old \ {w}) \union (new \ old)
          BY <4>2
        <4>6. rows'[r]["failed"] + Cardinality(old \ {w}) = n + Cardinality(old)
          BY <2>1, <4>1, <4>3, <4>4
        <4>7. QED BY <2>1, <4>1, <4>3, <4>4, <4>5, <4>6
      <3>3. QED BY <3>1, <3>2
    <2>4. PICK mid \in SUBSET old :
             /\ new \subseteq mid \union (new \ old)
             /\ IsFiniteSet(mid) /\ Cardinality(mid) \in Nat
             /\ rows'[r]["failed"] \in Nat
             /\ rows'[r]["failed"] + Cardinality(mid) = n + Cardinality(old)
      BY <2>3
    \* A report that falls due is that of the one delivery that was processing.
    <2>5. ASSUME NEW w \in new \ old
          PROVE  Processing(w, r) /\ Failures(r)' = Failures(r) + 1
      BY NewFailureReport DEF FailureReports, ReportsFailure
    <2>6. CASE new \ old = {}
      <3>1. IsFiniteSet(new) /\ Cardinality(new) <= Cardinality(mid)
        BY <2>4, <2>6, FS_Subset
      <3>2. Cardinality(new) \in Nat
        BY <3>1, FS_CardinalityType
      <3> HIDE DEF old, new, n
      <3>3. QED BY <2>1, <2>2, <2>4, <3>1, <3>2 DEF new
    <2>7. CASE new \ old # {}
      <3>1. PICK w : w \in new \ old
        BY <2>7
      <3>2. new \ old = {w} /\ w \in Worker
        BY <2>5, <3>1 DEF FailureReports, SoleOwner, ExclusiveProcessing
      <3>3. Failures(r)' = Failures(r) + 1
        BY <2>5, <3>1
      <3>4. /\ IsFiniteSet(mid \union {w})
            /\ Cardinality(mid \union {w}) \in {Cardinality(mid), Cardinality(mid) + 1}
        BY <2>4, FS_AddElement
      <3>5. new \subseteq mid \union {w}
        BY <2>4, <3>2
      <3>6. IsFiniteSet(new) /\ Cardinality(new) <= Cardinality(mid \union {w})
        BY <3>4, <3>5, FS_Subset
      <3>7. Cardinality(new) \in Nat
        BY <3>6, FS_CardinalityType
      <3> HIDE DEF old, new, n
      <3>8. QED BY <2>1, <2>2, <2>4, <3>3, <3>4, <3>6, <3>7 DEF new
    <2>8. QED BY <2>6, <2>7
  <1>2. QED
    BY <1>1, RetryIsAhead DEF FailureReportsInv

\* In a timely environment, whatever is delivered again or dies half way, a
\* review is reported done at most once, and only if it is done, and reported
\* failed at most once per submission or retry (emit).
THEOREM ReportsHold == TimelyEnvironment => (Spec => []ReportedOnce)
  <1> SUFFICES ASSUME TimelyEnvironment PROVE Spec => []ReportedOnce
    OBVIOUS
  <1>1. Init => DoneReportsInv /\ FailureReportsInv
    <2> SUFFICES ASSUME Init PROVE DoneReportsInv /\ FailureReportsInv
      OBVIOUS
    <2>1. /\ \A h \in Handler : api[h].pc = "idle"
          /\ \A w \in Worker : work[w].pc = "idle"
          /\ \A r \in Review : /\ rows[r]["done"] = 0 /\ rows[r]["failed"] = 0
                               /\ review[r].generation = 0 /\ review[r].status = "absent"
      BY DEF Init, IdleHandler, IdleWorker, NoReview
    <2>2. \A r \in Review : FailureReports(r) = {}
      BY <2>1 DEF FailureReports, ReportsFailure
    <2>3. IsFiniteSet({}) /\ Cardinality({}) = 0
      BY FS_EmptySet
    <2>4. DoneReportsInv
      BY <2>1 DEF DoneReportsInv, RequestReports, DeliveryReports
    <2>5. \A r \in Review : Failures(r) = 0
      BY <2>1 DEF Failures
    <2>6. ASSUME NEW r \in Review
          PROVE  /\ IsFiniteSet(FailureReports(r))
                 /\ rows[r]["failed"] + Cardinality(FailureReports(r)) <= Failures(r)
      <3>1. FailureReports(r) = {} /\ rows[r]["failed"] = 0 /\ Failures(r) = 0
        BY <2>1, <2>2, <2>5
      <3>2. QED BY <2>3, <3>1
    <2>7. \A h \in Handler : api[h].pc # "retry"
      BY <2>1
    <2>8. QED
      BY <2>4, <2>6, <2>7 DEF FailureReportsInv
  <1>2. TypeInv /\ IdsInv /\ SoleOwner /\ DoneReportsInv /\ FailureReportsInv /\ [Next]_vars
          => DoneReportsInv' /\ FailureReportsInv'
    BY StepDoneReports, StepFailureReports
  <1>3. TypeInv /\ DoneReportsInv /\ FailureReportsInv => ReportedOnce
    <2> SUFFICES ASSUME TypeInv, DoneReportsInv, FailureReportsInv, NEW r \in Review
                 PROVE  rows[r]["failed"] <= review[r].generation + 1
      BY DEF ReportedOnce, DoneReportsInv
    <2>1. rows[r]["failed"] \in Nat /\ review[r].generation \in Nat
      BY ConstantsAssumption DEF TypeInv, BooksOK, DocsOK, ReviewDoc, Generation
    <2>2. Cardinality(FailureReports(r)) \in Nat
      BY FS_CardinalityType DEF FailureReportsInv
    <2>3. rows[r]["failed"] + Cardinality(FailureReports(r)) <= Failures(r)
      BY DEF FailureReportsInv
    <2>4. QED BY <2>1, <2>2, <2>3 DEF Failures
  <1>4. QED
    BY <1>1, <1>2, <1>3, IdsHold, OwnershipHolds, PTL DEF Spec

-----------------------------------------------------------------------------
(* What a review costs *)

Dispatches(some, r) == [g \in Generation |-> some[r][g].dispatches]

Dispatched(some, r) == SumOf(Dispatches(some, r), Generation)

\* Deliveries in hand that have not paid for a run yet, and may.
Unpaid(some, r) == {w \in Worker : some[w].pc \in {"claim", "running"} /\ some[w].review = r}

SpendInv ==
    \A r \in Review :
        /\ IsFiniteSet(Unpaid(work, r))
        /\ spent[r] + Max(Spend) * Cardinality(Unpaid(work, r)) <= Max(Spend) * Dispatched(tasks, r)

LEMMA MaxSpend == Max(Spend) \in Nat /\ \A c \in Spend : c \in Nat /\ c <= Max(Spend)
<1>1. PICK c \in Spend : \A d \in Spend : d <= c
  BY SpendAssumption
<1>2. \A d \in Spend : d \in Nat
  BY ConstantsAssumption
<1>3. \A d \in Spend : c >= d
  BY <1>1, <1>2
<1>4. Max(Spend) \in Spend /\ \A d \in Spend : Max(Spend) >= d
  BY <1>1, <1>3 DEF Max
<1> QED BY <1>2, <1>4

LEMMA Generations == IsFiniteSet(Generation)
  BY ConstantsAssumption, FS_Interval DEF Generation

\* The sum of the property is the one the lemmas on sums are about.
LEMMA DispatchedIs ==
    ASSUME \A r \in Review : spent[r] <= Max(Spend) * Dispatched(tasks, r)
    PROVE  SpendBounded
<1> SUFFICES ASSUME NEW r \in Review
             PROVE  spent[r] <= Max(Spend)
                      * MapThenSumSet(LAMBDA g : tasks[r][g].dispatches, Generation)
  BY DEF SpendBounded
<1> DEFINE f == Dispatches(tasks, r)
           Folds(i) == i = [s \in SUBSET Generation |->
                              IF s = {} THEN 0
                              ELSE tasks[r][CHOOSE x \in s : TRUE].dispatches
                                     + i[s \ {CHOOSE x \in s : TRUE}]]
           h == CHOOSE i : Folds(i)
<1>1. MapThenSumSet(LAMBDA g : tasks[r][g].dispatches, Generation) = h[Generation]
  BY DEF MapThenSumSet, MapThenFoldSet
<1>2. \A i : FoldsOver(i, f, Generation) <=> Folds(i)
  <2>1. \A s \in SUBSET Generation : s # {} =>
            f[CHOOSE x \in s : TRUE] = tasks[r][CHOOSE x \in s : TRUE].dispatches
    <3> SUFFICES ASSUME NEW s \in SUBSET Generation, s # {}
                 PROVE  f[CHOOSE x \in s : TRUE] = tasks[r][CHOOSE x \in s : TRUE].dispatches
      OBVIOUS
    <3>1. (CHOOSE x \in s : TRUE) \in Generation
      OBVIOUS
    <3> QED BY <3>1 DEF Dispatches
  <2> HIDE DEF f
  <2> SUFFICES ASSUME NEW i PROVE FoldsOver(i, f, Generation) <=> Folds(i)
    OBVIOUS
  <2>2. [s \in SUBSET Generation |->
            IF s = {} THEN 0
            ELSE f[CHOOSE x \in s : TRUE] + i[s \ {CHOOSE x \in s : TRUE}]]
        = [s \in SUBSET Generation |->
            IF s = {} THEN 0
            ELSE tasks[r][CHOOSE x \in s : TRUE].dispatches + i[s \ {CHOOSE x \in s : TRUE}]]
    BY <2>1
  <2> QED BY <2>2 DEF FoldsOver
<1>3. \E i : FoldsOver(i, f, Generation)
  BY Generations, FoldExists
<1> HIDE DEF Folds
<1>4. Folds(h)
  BY <1>2, <1>3
<1> HIDE DEF h, f
<1>5. SumOf(f, Generation) = h[Generation]
  BY <1>2, <1>4, Generations, SumIsFold
<1>6. Dispatched(tasks, r) = h[Generation]
  BY <1>5 DEF Dispatched, f
<1> QED BY <1>1, <1>6

LEMMA DispatchesTypes ==
    ASSUME TypeInv, NEW r \in Review
    PROVE  /\ \A g \in Generation : Dispatches(tasks, r)[g] \in Nat
           /\ Dispatched(tasks, r) \in Nat
<1>1. \A g \in Generation : tasks[r][g] \in TaskState
  BY DEF TypeInv, TasksOK
<1>2. \A g \in Generation : Dispatches(tasks, r)[g] \in Nat
  BY <1>1 DEF Dispatches, TaskState
<1> QED BY <1>2, Generations, SumIsNatural DEF Dispatched

\* What does not count as a delivery.
LEMMA SameDispatches ==
    ASSUME NEW r \in Review, \A g \in Generation : tasks'[r][g].dispatches = tasks[r][g].dispatches
    PROVE  Dispatched(tasks', r) = Dispatched(tasks, r)
  BY DEF Dispatched, Dispatches

LEMMA OneMoreDispatch ==
    ASSUME TypeInv, NEW r \in Review, NEW g \in Generation,
           tasks'[r][g].dispatches = tasks[r][g].dispatches + 1,
           \A x \in Generation : x # g => tasks'[r][x].dispatches = tasks[r][x].dispatches
    PROVE  Dispatched(tasks', r) = Dispatched(tasks, r) + 1
<1> DEFINE e == Dispatches(tasks, r)
           f == Dispatches(tasks', r)
           Rest == Generation \ {g}
<1>1. /\ \A x \in Generation : e[x] \in Nat
      /\ f[g] = e[g] + 1 /\ \A x \in Rest : f[x] = e[x]
  BY DispatchesTypes DEF Dispatches
<1>2. \A x \in Generation : f[x] \in Nat
  BY <1>1
<1>3. IsFiniteSet(Generation) /\ IsFiniteSet(Rest)
  BY Generations, FS_Subset
<1> HIDE DEF e, f
<1>4. SumOf(e, Generation) = e[g] + SumOf(e, Rest)
  BY <1>1, <1>3, SumWithout
<1>5. SumOf(f, Generation) = f[g] + SumOf(f, Rest)
  BY <1>2, <1>3, SumWithout
<1>6. SumOf(f, Rest) = SumOf(e, Rest)
  BY <1>1, <1>3, SumSame
<1>7. SumOf(e, Rest) \in Nat
  BY <1>1, <1>3, SumIsNatural
<1> QED BY <1>1, <1>4, <1>5, <1>6, <1>7 DEF Dispatched, e, f

\* A delivery that is not to pay: nothing is spent.
LEMMA NothingSpent ==
    ASSUME TypeInv, SpendInv, UNCHANGED spent,
           \A r \in Review : Unpaid(work', r) \subseteq Unpaid(work, r),
           \A r \in Review, g \in Generation :
              tasks'[r][g].dispatches = tasks[r][g].dispatches
    PROVE  SpendInv'
<1> SUFFICES ASSUME NEW r \in Review
             PROVE  /\ IsFiniteSet(Unpaid(work', r))
                    /\ spent[r] + Max(Spend) * Cardinality(Unpaid(work', r))
                         <= Max(Spend) * Dispatched(tasks', r)
  BY DEF SpendInv
<1>1. /\ IsFiniteSet(Unpaid(work, r))
      /\ spent[r] + Max(Spend) * Cardinality(Unpaid(work, r)) <= Max(Spend) * Dispatched(tasks, r)
  BY DEF SpendInv
<1>2. /\ IsFiniteSet(Unpaid(work', r))
      /\ Cardinality(Unpaid(work', r)) \in Nat /\ Cardinality(Unpaid(work, r)) \in Nat
      /\ Cardinality(Unpaid(work', r)) <= Cardinality(Unpaid(work, r))
  BY <1>1, FS_Subset, FS_CardinalityType
<1>3. Dispatched(tasks', r) = Dispatched(tasks, r)
  BY SameDispatches
<1>4. spent[r] \in Nat /\ Dispatched(tasks, r) \in Nat
  BY DispatchesTypes DEF TypeInv, BooksOK
<1> DEFINE m == Max(Spend)
           a == Cardinality(Unpaid(work, r))
           b == Cardinality(Unpaid(work', r))
           s == spent[r]
           d == Max(Spend) * Dispatched(tasks, r)
<1>5. m \in Nat /\ a \in Nat /\ b \in Nat /\ b <= a /\ s \in Nat /\ d \in Nat /\ s + m * a <= d
  BY <1>1, <1>2, <1>4, MaxSpend
<1>6. s + m * b <= d
  <2> HIDE DEF m, a, b, s, d
  <2>1. m * b <= m * a
    BY <1>5
  <2>2. m * b \in Nat /\ m * a \in Nat
    BY <1>5
  <2> QED BY <1>5, <2>1, <2>2
<1> QED BY <1>2, <1>3, <1>6

\* A delivery pays for the run it has made.
LEMMA RunPaid ==
    ASSUME TypeInv, SpendInv, NEW w \in Worker, work[w].pc = "running",
           NEW c \in Spend, Charge(work[w].review, c),
           work'[w].pc \notin {"claim", "running"}, \A v \in Worker : v # w => work'[v] = work[v],
           \A r \in Review, g \in Generation :
              tasks'[r][g].dispatches = tasks[r][g].dispatches
    PROVE  SpendInv'
<1> SUFFICES ASSUME NEW r \in Review
             PROVE  /\ IsFiniteSet(Unpaid(work', r))
                    /\ spent'[r] + Max(Spend) * Cardinality(Unpaid(work', r))
                         <= Max(Spend) * Dispatched(tasks', r)
  BY DEF SpendInv
<1>1. /\ IsFiniteSet(Unpaid(work, r))
      /\ spent[r] + Max(Spend) * Cardinality(Unpaid(work, r)) <= Max(Spend) * Dispatched(tasks, r)
  BY DEF SpendInv
<1>2. Dispatched(tasks', r) = Dispatched(tasks, r)
  BY SameDispatches
<1>3. spent[r] \in Nat /\ Dispatched(tasks, r) \in Nat /\ c \in Nat /\ c <= Max(Spend)
  BY DispatchesTypes, MaxSpend DEF TypeInv, BooksOK
<1>4. spent' = [spent EXCEPT ![work[w].review] = @ + c] /\ spent \in [Review -> Nat]
  BY DEF Charge, TypeInv, BooksOK
<1>5. Cardinality(Unpaid(work, r)) \in Nat
  BY <1>1, FS_CardinalityType
<1>6. CASE r = work[w].review
  <2>1. Unpaid(work', r) = Unpaid(work, r) \ {w} /\ w \in Unpaid(work, r)
    BY <1>6 DEF Unpaid
  <2>2. /\ IsFiniteSet(Unpaid(work', r))
        /\ Cardinality(Unpaid(work', r)) = Cardinality(Unpaid(work, r)) - 1
        /\ Cardinality(Unpaid(work', r)) \in Nat
    BY <1>1, <2>1, FS_RemoveElement, FS_CardinalityType
  <2>3. spent'[r] = spent[r] + c
    BY <1>4, <1>6
  <2> DEFINE m == Max(Spend)
             b == Cardinality(Unpaid(work', r))
             s == spent[r]
             d == Max(Spend) * Dispatched(tasks, r)
  <2>4. m \in Nat /\ b \in Nat /\ s \in Nat /\ d \in Nat /\ s + m * (b + 1) <= d
    BY <1>1, <1>3, <1>5, <2>2, MaxSpend
  <2>5. (s + c) + m * b <= d
    <3> HIDE DEF m, b, s, d
    <3>1. m * (b + 1) = m * b + m /\ m * b \in Nat
      BY <2>4
    <3> QED BY <1>3, <2>4, <3>1 DEF m
  <2> QED BY <1>2, <2>2, <2>3, <2>5
<1>7. CASE r # work[w].review
  <2>1. Unpaid(work', r) = Unpaid(work, r)
    <3>1. work'[w].review = r => work'[w].pc \notin {"claim", "running"}
      OBVIOUS
    <3> QED BY <1>7 DEF Unpaid
  <2>2. spent'[r] = spent[r]
    BY <1>4, <1>7
  <2> QED BY <1>1, <1>2, <2>1, <2>2
<1> QED BY <1>6, <1>7

\* A new delivery may pay once more.
LEMMA DeliveryCounts ==
    ASSUME TypeInv, SpendInv, NEW w \in Worker, NEW q \in Review, NEW g \in Generation,
           Deliver(w, q, g)
    PROVE  SpendInv'
<1> SUFFICES ASSUME NEW r \in Review
             PROVE  /\ IsFiniteSet(Unpaid(work', r))
                    /\ spent'[r] + Max(Spend) * Cardinality(Unpaid(work', r))
                         <= Max(Spend) * Dispatched(tasks', r)
  BY DEF SpendInv
<1>1. /\ IsFiniteSet(Unpaid(work, r))
      /\ spent[r] + Max(Spend) * Cardinality(Unpaid(work, r)) <= Max(Spend) * Dispatched(tasks, r)
  BY DEF SpendInv
<1>2. spent' = spent /\ spent[r] \in Nat /\ Dispatched(tasks, r) \in Nat
  BY DispatchesTypes DEF TypeInv, BooksOK, Deliver
<1>3. /\ work[w].pc = "idle" /\ work'[w].pc = "claim" /\ work'[w].review = q
      /\ \A v \in Worker : v # w => work'[v] = work[v]
  BY DEF Deliver, TypeInv, WorkOK, IdleWorker
<1>4. /\ tasks'[q][g].dispatches = tasks[q][g].dispatches + 1
      /\ \A x \in Generation : x # g => tasks'[q][x] = tasks[q][x]
      /\ \A p \in Review : p # q => tasks'[p] = tasks[p]
  BY DEF Deliver, TypeInv, TasksOK
<1>5. CASE r = q
  <2>1. Dispatched(tasks', r) = Dispatched(tasks, r) + 1
    BY <1>4, <1>5, OneMoreDispatch
  <2>2. Unpaid(work', r) = Unpaid(work, r) \union {w} /\ w \notin Unpaid(work, r)
    BY <1>3, <1>5 DEF Unpaid
  <2>3. /\ IsFiniteSet(Unpaid(work', r))
        /\ Cardinality(Unpaid(work', r)) = Cardinality(Unpaid(work, r)) + 1
        /\ Cardinality(Unpaid(work, r)) \in Nat
    BY <1>1, <2>2, FS_AddElement, FS_CardinalityType
  <2> DEFINE m == Max(Spend)
             a == Cardinality(Unpaid(work, r))
             s == spent[r]
             d == Dispatched(tasks, r)
  <2>4. m \in Nat /\ a \in Nat /\ s \in Nat /\ d \in Nat /\ s + m * a <= m * d
    BY <1>1, <1>2, <2>3, MaxSpend
  <2>5. s + m * (a + 1) <= m * (d + 1)
    <3> HIDE DEF m, a, s, d
    <3>1. m * (a + 1) = m * a + m /\ m * (d + 1) = m * d + m /\ m * a \in Nat /\ m * d \in Nat
      BY <2>4
    <3> QED BY <2>4, <3>1
  <2> QED BY <1>2, <2>1, <2>3, <2>5
<1>6. CASE r # q
  <2>1. Unpaid(work', r) = Unpaid(work, r)
    BY <1>3, <1>6 DEF Unpaid
  <2>2. Dispatched(tasks', r) = Dispatched(tasks, r)
    BY <1>4, <1>6, SameDispatches
  <2> QED BY <1>1, <1>2, <2>1, <2>2
<1> QED BY <1>5, <1>6

\* Tasks that are created, taken back or completed are not delivered by it.
LEMMA TasksMove ==
    ASSUME TypeInv, UNCHANGED <<spent, work>>, SpendInv,
           NEW q \in Review, NEW g \in Generation,
           tasks' = tasks \/ CreateTask(q, g) \/ tasks' = [tasks EXCEPT ![q][g] = Requeued(@)]
    PROVE  SpendInv'
<1>1. \A r \in Review, x \in Generation : tasks'[r][x].dispatches = tasks[r][x].dispatches
  <2>1. CASE tasks' = tasks
    BY <2>1
  <2>2. CASE CreateTask(q, g)
    BY <2>2 DEF CreateTask, TypeInv, TasksOK, TaskState
  <2>3. CASE tasks' = [tasks EXCEPT ![q][g] = Requeued(@)]
    BY <2>3 DEF Requeued, TypeInv, TasksOK, TaskState
  <2> QED BY <2>1, <2>2, <2>3
<1>2. \A r : Unpaid(work', r) = Unpaid(work, r)
  BY DEF Unpaid
<1> QED BY <1>1, <1>2, NothingSpent

LEMMA SettledTasks ==
    ASSUME TypeInv, NEW w \in Worker, work[w].pc # "idle", NEW after,
           after = Requeued(TaskOf(w)) \/ after = Completed(TaskOf(w)), Settle(w, after)
    PROVE  \A r \in Review, x \in Generation : tasks'[r][x].dispatches = tasks[r][x].dispatches
<1>1. work[w].review \in Review /\ work[w].generation \in Generation
  BY DEF TypeInv, WorkOK, WorkState
<1>2. after.dispatches = tasks[work[w].review][work[w].generation].dispatches
  <2>1. TaskOf(w) \in TaskState /\ TaskOf(w) = tasks[work[w].review][work[w].generation]
    BY <1>1 DEF TaskOf, TypeInv, TasksOK
  <2>2. \A t \in TaskState :
            Requeued(t).dispatches = t.dispatches /\ Completed(t).dispatches = t.dispatches
    BY DEF Requeued, Completed, TaskState
  <2> QED BY <2>1, <2>2
<1> QED BY <1>1, <1>2 DEF Settle, TypeInv, TasksOK, TaskState

LEMMA SpendStep == TypeInv /\ SpendInv /\ [Next]_vars => SpendInv'
<1> SUFFICES ASSUME TypeInv, SpendInv, [Next]_vars PROVE SpendInv'
  OBVIOUS
<1>a. ASSUME UNCHANGED <<spent, work, tasks>> PROVE SpendInv'
  <2>1. \A r : Unpaid(work', r) = Unpaid(work, r)
    BY <1>a DEF Unpaid
  <2> QED BY <1>a, <2>1, NothingSpent
<1>1. ASSUME NEW h \in Handler, NEW u \in User, NEW c \in Content, NEW r \in Review,
             SubmitLookup(h, u, c, r)
      PROVE SpendInv'
  BY <1>a, <1>1 DEF SubmitLookup
<1>2. ASSUME NEW h \in Handler, NEW r \in Review, RetryRead(h, r) PROVE SpendInv'
  BY <1>a, <1>2 DEF RetryRead
<1>3. ASSUME NEW h \in Handler, HandlerStep(h) \/ HandlerAborts(h) PROVE SpendInv'
  <2>1. CASE ~Enqueue(h)
    BY <1>a, <1>3, <2>1 DEF HandlerStep, HandlerAborts, SubmitCached, SubmitEmit, SubmitReserve,
                            SubmitCreate, RetryWrite, EnqueueUndo
  <2>2. CASE Enqueue(h)
    <3>1. api[h].review \in Review /\ api[h].generation \in Generation
      BY <2>2 DEF Enqueue, TypeInv, ApiOK, ApiState
    <3> QED BY <2>2, <3>1, TasksMove DEF Enqueue
  <2> QED BY <2>1, <2>2
<1>4. ASSUME NEW w \in Worker, NEW r \in Review, NEW g \in Generation, Deliver(w, r, g)
      PROVE SpendInv'
  BY <1>4, DeliveryCounts
<1>5. ASSUME NEW r \in Review, NEW g \in Generation, Redeliver(r, g) PROVE SpendInv'
  BY <1>5, TasksMove DEF Redeliver
<1>6. ASSUME NEW w \in Worker, WorkerStep(w) \/ WorkerAborts(w) PROVE SpendInv'
  <2>0. work \in [Worker -> WorkState]
    BY DEF TypeInv, WorkOK
  <2>1. ASSUME work[w].pc \notin {"idle", "running"}, UNCHANGED spent,
               \A v \in Worker : v # w => work'[v] = work[v],
               work'[w].pc \in {"claim", "running"} =>
                  work[w].pc = "claim" /\ work'[w].review = work[w].review,
               \A r \in Review, g \in Generation :
                  tasks'[r][g].dispatches = tasks[r][g].dispatches
        PROVE  SpendInv'
    <3>1. \A r \in Review : Unpaid(work', r) \subseteq Unpaid(work, r)
      BY <2>1 DEF Unpaid
    <3> QED BY <2>1, <3>1, NothingSpent
  <2>2. CASE Claim(w)
    <3>1. /\ work[w].pc = "claim" /\ UNCHANGED <<spent, tasks>>
          /\ \A v \in Worker : v # w => work'[v] = work[v]
          /\ work'[w].review = work[w].review
      BY <2>0, <2>2 DEF Claim, WorkState
    <3> QED BY <2>1, <3>1
  <2>3. CASE RunEnds(w)
    <3>1. PICK c \in Spend : RunDone(w, c) \/ RunFailed(w, c) \/ RunTransient(w, c)
      BY <2>3 DEF RunEnds
    <3>2. /\ work[w].pc = "running" /\ Charge(work[w].review, c) /\ tasks' = tasks
          /\ work'[w].pc \notin {"claim", "running"}
          /\ \A v \in Worker : v # w => work'[v] = work[v]
      <4>1. CASE RunDone(w, c)
        BY <2>0, <4>1 DEF RunDone, Step, WorkState
      <4>2. CASE RunFailed(w, c)
        BY <2>0, <4>2 DEF RunFailed, Fail, WorkState
      <4>3. CASE RunTransient(w, c)
        BY <2>0, <4>3 DEF RunTransient, Fail, WorkState
      <4> QED BY <3>1, <4>1, <4>2, <4>3
    <3> QED BY <3>2, RunPaid
  <2>4. CASE PutCache(w) \/ WorkerEmit(w)
    <3>1. /\ work[w].pc \in {"cache", "emit"} /\ UNCHANGED <<spent, tasks>>
          /\ \A v \in Worker : v # w => work'[v] = work[v]
          /\ work'[w].pc \in {"emit", "respond"}
      BY <2>0, <2>4 DEF PutCache, WorkerEmit, Step, WorkState
    <3> QED BY <2>1, <3>1
  <2>5. CASE Respond(w)
    <3>1. \A r \in Review, g \in Generation : tasks'[r][g].dispatches = tasks[r][g].dispatches
      BY <2>5, SettledTasks DEF Respond
    <3> QED BY <2>0, <2>1, <2>5, <3>1 DEF Respond, IdleWorker
  <2>6. CASE WorkerAborts(w)
    <3>1. \A r \in Review, g \in Generation : tasks'[r][g].dispatches = tasks[r][g].dispatches
      BY <2>6, SettledTasks DEF WorkerAborts
    <3>2. /\ work'[w].pc = "idle" /\ \A v \in Worker : v # w => work'[v] = work[v]
      BY <2>0, <2>6 DEF WorkerAborts, IdleWorker
    <3>3. CASE work[w].pc = "running"
      <4>1. PICK c \in Spend : Charge(work[w].review, c)
        BY <2>6, <3>3 DEF WorkerAborts
      <4> QED BY <3>1, <3>2, <3>3, <4>1, RunPaid
    <3>4. CASE work[w].pc # "running"
      BY <2>1, <2>6, <3>1, <3>2, <3>4 DEF WorkerAborts
    <3> QED BY <3>3, <3>4
  <2> QED BY <1>6, <2>2, <2>3, <2>4, <2>5, <2>6 DEF WorkerStep
<1>7. ASSUME NEW r \in Review, LeaseExpires(r) \/ StallElapses(r) PROVE SpendInv'
  BY <1>a, <1>7 DEF LeaseExpires, StallElapses
<1>8. CASE UNCHANGED vars
  BY <1>a, <1>8 DEF vars
<1> QED BY <1>1, <1>2, <1>3, <1>4, <1>5, <1>6, <1>7, <1>8 DEF Next

\* Whatever is injected, all runs of a review together cost no more than its
\* deliveries times the most expensive run: a delivery that is in hand has not
\* paid yet, and pays once (process, _retry_or_fail).
THEOREM SpendingIsBounded == Spec => []SpendBounded
<1>1. Init => SpendInv
  <2> SUFFICES ASSUME Init, NEW r \in Review
               PROVE  /\ IsFiniteSet(Unpaid(work, r))
                      /\ spent[r] + Max(Spend) * Cardinality(Unpaid(work, r))
                            <= Max(Spend) * Dispatched(tasks, r)
    BY DEF SpendInv
  <2>1. Unpaid(work, r) = {} /\ spent[r] = 0
    BY DEF Init, Unpaid, IdleWorker
  <2>2. IsFiniteSet(Unpaid(work, r)) /\ Cardinality(Unpaid(work, r)) = 0
    BY <2>1, FS_EmptySet
  <2>3. Dispatched(tasks, r) \in Nat /\ Max(Spend) \in Nat
    BY InitTypeInv, DispatchesTypes, MaxSpend
  <2>4. Max(Spend) * 0 = 0 /\ Max(Spend) * Dispatched(tasks, r) \in Nat
    BY <2>3
  <2> QED BY <2>1, <2>2, <2>4
<1>2. TypeInv /\ SpendInv => SpendBounded
  <2> SUFFICES ASSUME TypeInv, SpendInv PROVE SpendBounded
    OBVIOUS
  <2> SUFFICES ASSUME NEW r \in Review
               PROVE  spent[r] <= Max(Spend) * Dispatched(tasks, r)
    BY DispatchedIs DEF SpendBounded
  <2>1. /\ IsFiniteSet(Unpaid(work, r))
        /\ spent[r] + Max(Spend) * Cardinality(Unpaid(work, r)) <= Max(Spend) * Dispatched(tasks, r)
    BY DEF SpendInv
  <2> DEFINE m == Max(Spend)
             a == Cardinality(Unpaid(work, r))
             s == spent[r]
             d == Max(Spend) * Dispatched(tasks, r)
  <2>2. m \in Nat /\ a \in Nat /\ s \in Nat /\ d \in Nat /\ s + m * a <= d
    BY <2>1, FS_CardinalityType, MaxSpend, DispatchesTypes DEF TypeInv, BooksOK
  <2> HIDE DEF m, a, s, d
  <2>3. m * a \in Nat
    BY <2>2
  <2>4. s <= d
    BY <2>2, <2>3
  <2> QED BY <2>4 DEF s, d
<1> QED BY <1>1, <1>2, SpendStep, TypeInvariant, PTL DEF Spec

-----------------------------------------------------------------------------
(* What the service comes to *)

\* The result a request is about to serve is what a done review shows.
HitInv ==
    \A h \in Handler : api[h].pc = "hit" =>
        /\ review[RunSource(api[h].result)].status = "done"
        /\ review[RunSource(api[h].result)].result = api[h].result

LEMMA StepHit ==
    ASSUME TypeInv, IdsInv, Traced, SoleOwner, TimelyEnvironment, CacheMatchesSource, HitInv,
           [Next]_vars
    PROVE  HitInv'
  <1>0. DoneKept
    BY StepSoleOwner
  <1> SUFFICES ASSUME NEW h \in Handler, api'[h].pc = "hit"
               PROVE  /\ review'[RunSource(api'[h].result)].status = "done"
                      /\ review'[RunSource(api'[h].result)].result = api'[h].result
    BY DEF HitInv, RunSource
  <1>1. CASE api'[h] = api[h]
    <2>1. RunSource(api[h].result) \in Review
      BY <1>1 DEF Traced, ComesFrom
    <2>2. QED BY <1>0, <1>1, <2>1 DEF HitInv, DoneKept
  <1>2. ASSUME NEW u \in User, NEW c \in Content, NEW r \in Review, SubmitLookup(h, u, c, r)
        PROVE  /\ review'[RunSource(api'[h].result)].status = "done"
               /\ review'[RunSource(api'[h].result)].result = api'[h].result
    <2> DEFINE found == cache[CacheKey(u, c)]
    <2>1. api'[h].result = found /\ found # None /\ review' = review
      BY <1>2 DEF SubmitLookup, TypeInv, ApiOK
    <2>2. CacheKey(u, c) \in Key
      BY DEF CacheKey, Key
    <2>3. QED BY <2>1, <2>2 DEF CacheMatchesSource
  <1>3. CASE SubmitReserve(h)
    BY <1>3 DEF SubmitReserve, Goto, Finish, IdleHandler, TypeInv, ApiOK, ApiState
  <1>4. QED
    BY <1>1, <1>2, <1>3, OpeningKept DEF Opening

\* In a timely environment what is served on a hit goes on being shown by the
\* review it came from until it is stored.
LEMMA HitsHold == TimelyEnvironment => (Spec => []HitInv)
  <1> SUFFICES ASSUME TimelyEnvironment PROVE Spec => []HitInv
    OBVIOUS
  <1>1. Init => HitInv
    BY DEF Init, HitInv, IdleHandler
  <1>2. TypeInv /\ IdsInv /\ Traced /\ SoleOwner /\ CacheMatchesSource /\ HitInv /\ [Next]_vars
          => HitInv'
    BY StepHit
  <1>3. QED
    BY <1>1, <1>2, TracesHold, OwnershipHolds, CacheHolds, PTL DEF Spec

\* A write to one document changes what is shown of one review.
LEMMA ShownWrite ==
    ASSUME DocsOK, NEW r \in Review, NEW doc, Write(r, doc)
    PROVE  Shown' = [Shown EXCEPT ![r] = ShownDoc(doc)]
  <1>1. \A q \in Review : Shown'[q] = ShownDoc(review'[q])
    BY DEF Shown
  <1>2. \A q \in Review : review'[q] = IF q = r THEN doc ELSE review[q]
    BY Written
  <1>3. QED
    BY <1>1, <1>2 DEF Shown

\* A document that stays as it was for its submission shows a new status only.
LEMMA ShownRevision ==
    ASSUME DocsOK, NEW r \in Review, NEW doc, Write(r, doc), SameSubmission(r, doc),
           doc.result = review[r].result
    PROVE  /\ doc.status \in {"queued", "running"} =>
                Shown' = [Shown EXCEPT ![r].status = "pending"]
           /\ doc.status = "failed" => Shown' = [Shown EXCEPT ![r].status = "failed"]
  <1>1. Shown' = [Shown EXCEPT ![r] = ShownDoc(doc)]
    BY ShownWrite
  <1>2. Shown[r] = ShownDoc(review[r])
    BY DEF Shown
  <1>3. doc.status \in {"queued", "running"} =>
          ShownDoc(doc) = [ShownDoc(review[r]) EXCEPT !.status = "pending"]
    BY DEF ShownDoc, SameSubmission
  <1>4. doc.status = "failed" =>
          ShownDoc(doc) = [ShownDoc(review[r]) EXCEPT !.status = "failed"]
    BY DEF ShownDoc, SameSubmission
  <1>5. QED BY <1>1, <1>2, <1>3, <1>4

LEMMA ShownStatus ==
    ASSUME DocsOK, NEW r \in Review
    PROVE  /\ r \in DOMAIN Shown
           /\ review[r].status \in {"queued", "running"} =>
                Shown[r].status = "pending" /\ [Shown EXCEPT ![r].status = "pending"] = Shown
           /\ review[r].status \notin {"queued", "running"} => Shown[r].status = review[r].status
           /\ Shown[r].owner = review[r].owner /\ Shown[r].content = review[r].content
           /\ Shown[r].fresh = review[r].fresh /\ Shown[r].result = review[r].result
  BY DEF Shown, ShownDoc

LEMMA CachedIsServed ==
    ASSUME TypeInv, IdsInv, Traced, SoleOwner, HitInv, NEW h \in Handler, SubmitCached(h)
    PROVE  Service!ServiceNext
  <1> DEFINE a == api[h]
             r == a.review
             s == RunSource(a.result)
  <1>1. DocsOK /\ r \in Review /\ a.user \in User /\ a.content \in Content
    BY Busy DEF TypeInv, SubmitCached, IdsInv, Opened, Opening
  <1>2. s \in Review /\ review[s].status = "done" /\ review[s].result = a.result
    BY DEF SubmitCached, Traced, HitInv, ComesFrom
  <1>3. review[s].content = a.content /\ (TenantScope => review[s].owner = a.user)
    BY DEF SubmitCached, Traced, ComesFrom, KeyOf, CacheKey
  <1>4. Service!MayServe(s, a.user, a.content) /\ Shown[s].result = a.result
    BY <1>1, <1>2, <1>3, ShownStatus DEF Service!MayServe
  <1>5. Shown[r].status = "absent"
    BY <1>1, ShownStatus DEF SubmitCached, SoleOwner, RequestsAreCurrent, Current
  <1>6. ShownDoc(CachedDoc(a)) =
          [status |-> "done", owner |-> a.user, content |-> a.content, fresh |-> FALSE,
           result |-> Shown[s].result]
    BY <1>4, NewDocs DEF ShownDoc
  <1>7. Shown' = [Shown EXCEPT ![r] = ShownDoc(CachedDoc(a))]
    BY <1>1, ShownWrite DEF SubmitCached
  <1>8. Service!Serve(r, a.user, a.content)
    BY <1>2, <1>4, <1>5, <1>6, <1>7 DEF Service!Serve
  <1>9. QED BY <1>1, <1>8 DEF Service!ServiceNext

LEMMA CreatedIsAccepted ==
    ASSUME TypeInv, IdsInv, SoleOwner, QuotaInv, NEW h \in Handler, SubmitCreate(h)
    PROVE  Service!ServiceNext
  <1> DEFINE a == api[h]
             r == a.review
             u == a.user
             fresh == {q \in Review : review[q].fresh /\ review[q].owner = u}
  <1>1. DocsOK /\ r \in Review /\ u \in User /\ a.content \in Content
    BY Busy DEF TypeInv, SubmitCreate, IdsInv, Opened, Opening
  <1>2. ~Present(r) /\ review[r] = NoReview
    BY <1>1 DEF SubmitCreate, IdsInv, Opened, Opening, Blank
  <1>3. Shown[r].status = "absent"
    BY <1>1, <1>2, ShownStatus DEF Present
  <1>4. Service!FreshOf(u) = fresh
    BY DEF Service!FreshOf, Shown, ShownDoc
  <1>5. ASSUME DailyLimit # 0, u \notin Exempt
        PROVE  Cardinality(fresh) < DailyLimit
    <2>1. /\ IsFiniteSet(Charged(u)) /\ Cardinality(Charged(u)) <= usage[u]
          /\ usage[u] <= DailyLimit /\ usage[u] \in Nat /\ DailyLimit \in Nat
      BY <1>1, <1>5, ConstantsAssumption DEF QuotaInv, TypeInv, SharedOK
    <2>2. fresh \union {r} \subseteq Charged(u)
      BY <1>1 DEF Charged, SubmitCreate
    <2>3. r \notin fresh
      BY <1>2 DEF NoReview
    <2> HIDE DEF fresh
    <2>4. IsFiniteSet(fresh \union {r})
      BY <2>1, <2>2, FS_Subset
    <2>5. IsFiniteSet(fresh)
      BY <2>4, FS_Subset
    <2>6. Cardinality(fresh \union {r}) = Cardinality(fresh) + 1
      BY <2>3, <2>5, FS_AddElement
    <2>7. Cardinality(fresh \union {r}) <= Cardinality(Charged(u))
      BY <2>1, <2>2, FS_Subset
    <2>8. Cardinality(fresh) \in Nat /\ Cardinality(Charged(u)) \in Nat
      BY <2>1, <2>5, FS_CardinalityType
    <2>9. QED BY <2>1, <2>6, <2>7, <2>8
  <1>6. Service!WithinCap(u)
    <2> HIDE DEF fresh, u
    <2>1. Service!Cardinality(Service!FreshOf(u)) = Cardinality(fresh)
      BY <1>4 DEF Service!Cardinality, Cardinality
    <2>2. QED BY <1>5, <2>1 DEF Service!WithinCap
  <1>7. ShownDoc(FreshDoc(a)) =
          [status |-> "pending", owner |-> u, content |-> a.content, fresh |-> TRUE,
           result |-> None]
    BY NewDocs DEF ShownDoc
  <1>8. Shown' = [Shown EXCEPT ![r] = ShownDoc(FreshDoc(a))]
    BY <1>1, ShownWrite DEF SubmitCreate
  <1>9. Service!Accept(r, u, a.content)
    BY <1>3, <1>6, <1>7, <1>8 DEF Service!Accept
  <1>10. QED BY <1>1, <1>9 DEF Service!ServiceNext

LEMMA RetriedIsRetry ==
    ASSUME TypeInv, SoleOwner, NEW h \in Handler, RetryWrite(h)
    PROVE  Service!ServiceNext \/ UNCHANGED Shown
  <1> DEFINE r == api[h].review
  <1>1. DocsOK /\ r \in Review
    BY Busy DEF TypeInv, RetryWrite
  <1>2. review[r].status = "failed" \/ review[r].status \in {"queued", "running"}
    BY DEF SoleOwner, RequestsAreCurrent, Current, IsStalled, RetryWrite
  <1>3. RetriedDoc(r, api[h].generation).status = "queued"
    BY <1>1 DEF RetriedDoc, DocsOK, ReviewDoc
  <1>4. Shown' = [Shown EXCEPT ![r].status = "pending"]
    <2> DEFINE doc == RetriedDoc(r, api[h].generation)
    <2>1. Write(r, doc)
      BY DEF RetryWrite
    <2>2. SameSubmission(r, doc) /\ doc.result = review[r].result
      BY <1>1, RevisedDocs
    <2> HIDE DEF doc
    <2>3. QED BY <1>1, <1>3, <2>1, <2>2, ShownRevision DEF doc
  <1>5. CASE review[r].status = "failed"
    <2>1. Service!Retry(r)
      BY <1>1, <1>4, <1>5, ShownStatus DEF Service!Retry
    <2>2. QED BY <1>1, <2>1 DEF Service!ServiceNext
  <1>6. CASE review[r].status \in {"queued", "running"}
    BY <1>1, <1>4, <1>6, ShownStatus
  <1>7. QED BY <1>2, <1>5, <1>6

LEMMA ClaimIsInside ==
    ASSUME TypeInv, NEW w \in Worker, Claim(w)
    PROVE  UNCHANGED Shown
  <1> DEFINE r == work[w].review
  <1>1. DocsOK /\ r \in Review
    BY Busy DEF TypeInv, Claim
  <1>2. CASE Claimable(r)
    <2>1. Write(r, ClaimedDoc(r)) /\ review[r].status \in {"queued", "running"}
      BY <1>2 DEF Claim, Claimable
    <2>2. ClaimedDoc(r).status = "running"
      BY <1>1 DEF ClaimedDoc, DocsOK, ReviewDoc
    <2>3. Shown' = [Shown EXCEPT ![r].status = "pending"]
      BY <1>1, <2>1, <2>2, RevisedDocs, ShownRevision
    <2>4. QED BY <1>1, <2>1, <2>3, ShownStatus
  <1>3. CASE ~Claimable(r)
    BY <1>3 DEF Claim, Shown
  <1>4. QED BY <1>2, <1>3

LEMMA RunIsFinish ==
    ASSUME TypeInv, Traced, SoleOwner, NEW w \in Worker, NEW c \in Spend,
           RunDone(w, c) \/ RunFailed(w, c) \/ RunTransient(w, c)
    PROVE  Service!ServiceNext \/ UNCHANGED Shown
  <1> DEFINE r == work[w].review
             run == work[w].run
  <1>1. DocsOK /\ r \in Review /\ work[w].pc = "running"
    BY Busy DEF TypeInv, RunDone, RunFailed, RunTransient
  <1>2. review[r].status = "running"
    BY <1>1, Busy DEF SoleOwner, LeaseIsHeld
  <1>3. Shown[r].status = "pending"
    BY <1>1, <1>2, ShownStatus
  <1>4. CASE Write(r, DoneDoc(r, run, c))
    <2> DEFINE doc == DoneDoc(r, run, c)
    <2>1. doc.status = "done" /\ SameSubmission(r, doc) /\ doc.result = run
      <3>1. doc.status = "done"
        BY <1>1 DEF DoneDoc, DocsOK, ReviewDoc
      <3>2. QED BY <1>1, <3>1, RevisedDocs
    <2>2. Shown' = [Shown EXCEPT ![r] = ShownDoc(doc)]
      BY <1>1, <1>4, ShownWrite
    <2>3. ShownDoc(doc) = [Shown[r] EXCEPT !.status = "done", !.result = run]
      <3>1. Shown[r] = [status |-> "pending", owner |-> review[r].owner,
                        content |-> review[r].content, fresh |-> review[r].fresh,
                        result |-> review[r].result]
        BY <1>1, <1>2 DEF Shown, ShownDoc
      <3> HIDE DEF doc
      <3>2. ShownDoc(doc) = [status |-> "done", owner |-> review[r].owner,
                             content |-> review[r].content, fresh |-> review[r].fresh,
                             result |-> run]
        BY <2>1 DEF ShownDoc, SameSubmission
      <3> DEFINE old == Shown[r]
      <3> HIDE DEF run, r
      <3>3. old = [status |-> "pending", owner |-> review[r].owner,
                   content |-> review[r].content, fresh |-> review[r].fresh,
                   result |-> review[r].result]
        BY <3>1
      <3> HIDE DEF old
      <3> DEFINE mid == [status |-> "done", owner |-> review[r].owner,
                         content |-> review[r].content, fresh |-> review[r].fresh,
                         result |-> review[r].result]
      <3>4. [old EXCEPT !.status = "done"] = mid
        BY <3>3
      <3>5. [mid EXCEPT !.result = run]
               = [status |-> "done", owner |-> review[r].owner,
                  content |-> review[r].content, fresh |-> review[r].fresh, result |-> run]
        OBVIOUS
      <3>6. [old EXCEPT !.status = "done", !.result = run]
               = [[old EXCEPT !.status = "done"] EXCEPT !.result = run]
        OBVIOUS
      <3> HIDE DEF mid
      <3>7. QED BY <3>2, <3>4, <3>5, <3>6 DEF old
    <2> HIDE DEF doc
    <2>4. Shown' = [Shown EXCEPT ![r].status = "done", ![r].result = run]
      BY <2>2, <2>3, <1>1 DEF Shown
    <2>5. Shown'[r].result = run
      BY <1>1, <2>2, <2>3 DEF Shown, ShownDoc
    <2>6. IsRunOf(run, r)
      BY <1>1 DEF Traced, IsRunOf
    <2>7. Service!Finish(r)
      BY <1>3, <2>4, <2>5, <2>6 DEF Service!Finish
    <2>8. QED BY <1>1, <2>7 DEF Service!ServiceNext
  <1>5. CASE Write(r, FailedDoc(r, c))
    <2>1. FailedDoc(r, c).status = "failed"
      BY <1>1 DEF FailedDoc, DocsOK, ReviewDoc
    <2>2. SameSubmission(r, FailedDoc(r, c)) /\ FailedDoc(r, c).result = review[r].result
      BY <1>1, RevisedDocs
    <2>3. Shown' = [Shown EXCEPT ![r].status = "failed"]
      BY <1>1, <1>5, <2>1, <2>2, ShownRevision
    <2>4. Service!GiveUp(r)
      BY <1>3, <2>3 DEF Service!GiveUp
    <2>5. QED BY <1>1, <2>4 DEF Service!ServiceNext
  <1>6. CASE Write(r, RequeuedDoc(r))
    <2>1. RequeuedDoc(r).status = "queued"
      BY <1>1 DEF RequeuedDoc, DocsOK, ReviewDoc
    <2>2. Shown' = [Shown EXCEPT ![r].status = "pending"]
      BY <1>1, <1>6, <2>1, RevisedDocs, ShownRevision
    <2>3. QED BY <1>1, <1>2, <2>2, ShownStatus
  <1>7. QED
    BY <1>4, <1>5, <1>6 DEF RunDone, RunFailed, RunTransient, Fail

LEMMA LeaseIsInside ==
    ASSUME TypeInv, IdsInv, NEW r \in Review, LeaseExpires(r)
    PROVE  UNCHANGED Shown
  <1> DEFINE doc == [review[r] EXCEPT !.lease = "expired"]
  <1>1. Shown' = [Shown EXCEPT ![r] = ShownDoc(doc)]
    BY ShownWrite DEF TypeInv, LeaseExpires
  <1>2. ShownDoc(doc) = ShownDoc(review[r])
    BY DEF ShownDoc, TypeInv, DocsOK, ReviewDoc
  <1>3. QED BY <1>1, <1>2 DEF Shown

LEMMA StepServes ==
    ASSUME TypeInv, IdsInv, Traced, SoleOwner, TimelyEnvironment, QuotaInv, HitInv, [Next]_vars
    PROVE  Service!ServiceNext \/ UNCHANGED Shown
  <1>1. ASSUME NEW h \in Handler, HandlerStep(h) \/ HandlerAborts(h)
        PROVE  Service!ServiceNext \/ UNCHANGED Shown
    <2>1. CASE SubmitCached(h) \/ SubmitCreate(h) \/ RetryWrite(h)
      BY <2>1, CachedIsServed, CreatedIsAccepted, RetriedIsRetry
    <2>2. ~EnqueueUndo(h)
      BY DEF EnqueueUndo, SoleOwner, RequestsAreCurrent, Current
    <2>3. CASE SubmitEmit(h) \/ SubmitReserve(h) \/ Enqueue(h) \/ HandlerAborts(h)
      BY <2>3 DEF SubmitEmit, SubmitReserve, Enqueue, HandlerAborts, Shown
    <2>4. QED BY <1>1, <2>1, <2>2, <2>3 DEF HandlerStep
  <1>2. ASSUME NEW w \in Worker, WorkerStep(w) \/ WorkerAborts(w)
        PROVE  Service!ServiceNext \/ UNCHANGED Shown
    <2>1. CASE Claim(w) \/ RunEnds(w)
      BY <2>1, ClaimIsInside, RunIsFinish DEF RunEnds
    <2>2. CASE PutCache(w) \/ WorkerEmit(w) \/ Respond(w) \/ WorkerAborts(w)
      BY <2>2 DEF PutCache, WorkerEmit, Respond, WorkerAborts, Shown
    <2>3. QED BY <1>2, <2>1, <2>2 DEF WorkerStep
  <1>3. ASSUME NEW r \in Review, LeaseExpires(r)
        PROVE  UNCHANGED Shown
    BY <1>3, LeaseIsInside
  <1>4. CASE \/ \E h \in Handler, u \in User, c \in Content, r \in Review : SubmitLookup(h, u, c, r)
             \/ \E h \in Handler, r \in Review : RetryRead(h, r)
             \/ \E w \in Worker, r \in Review, g \in Generation : Deliver(w, r, g)
             \/ \E r \in Review, g \in Generation : Redeliver(r, g)
             \/ \E r \in Review : StallElapses(r)
             \/ UNCHANGED vars
    BY <1>4 DEF SubmitLookup, RetryRead, Deliver, Redeliver, StallElapses, vars, Shown
  <1>5. QED
    BY <1>1, <1>2, <1>3, <1>4 DEF Next

\* In a timely environment requests, queue, leases, deliveries and retries
\* together implement the plain service of ReviewService, whatever crashes, is
\* delivered twice or is retried (submission.py, jobs.py).
THEOREM LifecycleServes == TimelyEnvironment => (Spec => ServiceAsPromised)
  <1> SUFFICES ASSUME TimelyEnvironment PROVE Spec => ServiceAsPromised
    OBVIOUS
  <1>1. Init => Service!ServiceInit
    BY DEF Init, Service!ServiceInit, Service!NotThere, Shown, ShownDoc, NoReview
  <1>2. /\ TypeInv /\ IdsInv /\ Traced /\ SoleOwner /\ QuotaInv /\ HitInv
        /\ [Next]_vars
        => [Service!ServiceNext]_Shown
    BY StepServes
  <1>3. Spec => []QuotaInv
    BY QuotaKept
  <1>4. QED
    BY <1>1, <1>2, <1>3, TracesHold, OwnershipHolds, HitsHold, PTL
       DEF Spec, ServiceAsPromised, Service!ServiceSpec

=============================================================================
