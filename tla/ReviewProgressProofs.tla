------------------------- MODULE ReviewProgressProofs -------------------------
(***************************************************************************)
(* Until a process dies or a delivery is repeated, no review is left for   *)
(* its user to find stalled.                                               *)
(*                                                                         *)
(* The inductive invariant follows the custody of each review: from the    *)
(* request to the task of its current generation, to the delivery that     *)
(* claims it, and back to the task when a run is to be tried again.  That  *)
(* the queue does try again rests on its tries being as many as the        *)
(* worker's, which are counted apart (Worked).                             *)
(***************************************************************************)
EXTENDS ReviewLifecycleProofs, MCReviewProgress

\* Stall windows are long enough, retries of a review come one at a time, and
\* create_task creates no task that it does not report.
Reported == Faults \intersect {"stall", "retryRace", "ambiguous"} = {}

\* The queue tries a task at least as often as the worker asks it to.
QueueOutlasts == TaskMaxAttempts <= QueueMaxAttempts

\* The task of the current generation.
Own(r) == tasks[r][review[r].generation]

\* One request at a time has the review, and it has no task yet.
Handled(r) ==
    \A h \in Handler : api[h].review = r =>
        /\ \A i \in Handler : api[i].review = r => i = h
        /\ Opening(h) => api[h].generation = 0
        /\ api[h].pc \in {"enqueue", "undo"} =>
            /\ review[r].status = "queued" /\ review[r].attempts = 0
            /\ api[h].generation = review[r].generation
            /\ Own(r).state = "none"
        /\ api[h].pc = "retry" =>
            review[r].status = "failed" /\ api[h].generation = review[r].generation + 1

\* A delivery holds its task; one that may still write the review holds that of
\* the current generation, which has been delivered once per attempt.
Worked(r) ==
    \A w \in Worker : work[w].review = r =>
        LET task == tasks[r][work[w].generation]
            own == work[w].generation = review[r].generation IN
        /\ task.state = "inflight" /\ task.holder = w
        /\ work[w].pc = "claim" =>
            own /\ review[r].status = "queued" /\ review[r].attempts + 1 = task.dispatches
        /\ work[w].pc = "running" =>
            /\ own /\ review[r].status = "running" /\ review[r].attempts = task.dispatches
            /\ RunAttempt(work[w].run) = review[r].attempts
        /\ work[w].pc = "respond" /\ work[w].outcome = "retry" =>
            /\ own /\ review[r].status = "queued" /\ review[r].attempts = task.dispatches
            /\ review[r].attempts < TaskMaxAttempts

\* Somebody carries on with the review.
Carried(r) ==
    /\ review[r].status = "queued" =>
        \/ \E h \in Handler : api[h].review = r /\ api[h].pc \in {"enqueue", "undo"}
        \/ Own(r).state = "ready"
        \/ \E w \in Worker : /\ work[w].review = r
                             /\ work[w].pc = "claim"
                                \/ (work[w].pc = "respond" /\ work[w].outcome = "retry")
    /\ review[r].status = "running" =>
        \E w \in Worker : work[w].review = r /\ work[w].pc = "running"
    /\ r \in stalled => review[r].status \notin {"queued", "running"}

Tasked(r) ==
    \A g \in Generation :
        /\ tasks[r][g].state = "none" => tasks[r][g].dispatches = 0
        /\ g > review[r].generation => tasks[r][g].state = "none"
        /\ tasks[r][g].state = "ready" =>
            /\ g = review[r].generation /\ review[r].status = "queued"
            /\ review[r].attempts = tasks[r][g].dispatches

Custody(r) == Handled(r) /\ Worked(r) /\ Carried(r) /\ Tasked(r)

\* Who is idle has no review.
IdleHands ==
    /\ \A h \in Handler : api[h].review = None <=> api[h].pc = "idle"
    /\ \A w \in Worker : work[w].review = None <=> work[w].pc = "idle"

CustodyInv == IdleHands /\ (~mishap => \A r \in Review : Custody(r))

\* What a step that is about another review leaves alone.
Elsewhere(r) ==
    /\ review'[r] = review[r] /\ tasks'[r] = tasks[r] /\ (r \in stalled' <=> r \in stalled)
    /\ \A h \in Handler : r \in {api[h].review, api'[h].review} => api'[h] = api[h]
    /\ \A w \in Worker : r \in {work[w].review, work'[w].review} => work'[w] = work[w]

LEMMA ElsewhereKeeps ==
    ASSUME NEW r, Custody(r), Elsewhere(r)
    PROVE  Custody(r)'
<1>1. Handled(r)'
  BY DEF Custody, Handled, Elsewhere, Own, Opening
<1>2. Worked(r)'
  BY DEF Custody, Worked, Elsewhere
<1>3. Carried(r)'
  BY DEF Custody, Carried, Elsewhere, Own
<1>4. Tasked(r)'
  BY DEF Custody, Tasked, Elsewhere
<1> QED BY <1>1, <1>2, <1>3, <1>4 DEF Custody

\* Steps of a request on one review.
LEMMA HandlerElsewhere ==
    ASSUME NEW h \in Handler, NEW q, NEW r \in Review, r # q, None \notin Review,
           \A i \in Handler : i # h => api'[i] = api[i],
           api[h].review \in {q, None}, api'[h].review \in {q, None},
           review'[r] = review[r], tasks'[r] = tasks[r], r \in stalled' <=> r \in stalled,
           work' = work
    PROVE  Elsewhere(r)
  BY DEF Elsewhere

LEMMA WorkerElsewhere ==
    ASSUME NEW w \in Worker, NEW q, NEW r \in Review, r # q, None \notin Review,
           \A v \in Worker : v # w => work'[v] = work[v],
           work[w].review \in {q, None}, work'[w].review \in {q, None},
           review'[r] = review[r], tasks'[r] = tasks[r], r \in stalled' <=> r \in stalled,
           api' = api
    PROVE  Elsewhere(r)
  BY DEF Elsewhere

\* A delivery that holds the current task holds the review alone.
LEMMA OneHolder ==
    ASSUME NEW r, Worked(r), NEW v \in Worker, NEW w \in Worker,
           work[v].review = r, work[w].review = r, work[v].generation = work[w].generation
    PROVE  v = w
  BY DEF Worked

LEMMA IdleStep == TypeInv /\ IdleHands /\ [Next]_vars => IdleHands'
<1> SUFFICES ASSUME TypeInv, IdleHands, [Next]_vars PROVE IdleHands'
  OBVIOUS
<1>0. /\ None \notin Review
      /\ api \in [Handler -> ApiState] /\ work \in [Worker -> WorkState]
      /\ \A h \in Handler : api[h].pc # "idle" => api[h].review \in Review
      /\ \A w \in Worker : work[w].pc # "idle" => work[w].review \in Review
  BY Busy DEF TypeInv, ApiOK, WorkOK
<1>a. ASSUME UNCHANGED <<api, work>> PROVE IdleHands'
  BY <1>a DEF IdleHands
<1>b. ASSUME NEW h \in Handler, UNCHANGED work, \A i \in Handler : i # h => api'[i] = api[i],
             api'[h].review = None <=> api'[h].pc = "idle"
      PROVE  IdleHands'
  BY <1>b DEF IdleHands
<1>c. ASSUME NEW w \in Worker, UNCHANGED api, \A v \in Worker : v # w => work'[v] = work[v],
             work'[w].review = None <=> work'[w].pc = "idle"
      PROVE  IdleHands'
  BY <1>c DEF IdleHands
<1>1. ASSUME NEW h \in Handler, NEW u \in User, NEW c \in Content, NEW r \in Review,
             SubmitLookup(h, u, c, r)
      PROVE IdleHands'
  BY <1>0, <1>b, <1>1 DEF SubmitLookup
<1>2. ASSUME NEW h \in Handler, NEW r \in Review, RetryRead(h, r) PROVE IdleHands'
  BY <1>0, <1>b, <1>2 DEF RetryRead, IdleHandler
<1>3. ASSUME NEW h \in Handler, HandlerStep(h) \/ HandlerAborts(h) PROVE IdleHands'
  <2>1. api[h].pc # "idle" /\ UNCHANGED work
        /\ (Finish(h) \/ Goto(h, "row") \/ Goto(h, "create") \/ Goto(h, "enqueue") \/ Goto(h, "undo"))
    BY <1>3 DEF HandlerStep, HandlerAborts, SubmitCached, SubmitEmit, SubmitReserve, SubmitCreate,
                RetryWrite, Enqueue, EnqueueUndo
  <2>2. ASSUME NEW pc \in {"row", "create", "enqueue", "undo"}, Goto(h, pc) PROVE IdleHands'
    <3>1. /\ \A i \in Handler : i # h => api'[i] = api[i]
          /\ api'[h].review = api[h].review /\ api'[h].pc = pc
      BY <1>0, <2>2 DEF Goto, ApiState
    <3> QED BY <1>0, <1>b, <2>1, <3>1
  <2>3. CASE Finish(h)
    BY <1>0, <1>b, <2>1, <2>3 DEF Finish, IdleHandler
  <2> QED BY <2>1, <2>2, <2>3
<1>4. ASSUME NEW w \in Worker, NEW r \in Review, NEW g \in Generation, Deliver(w, r, g)
      PROVE IdleHands'
  BY <1>0, <1>c, <1>4 DEF Deliver, IdleWorker
<1>5. ASSUME NEW r \in Review, NEW g \in Generation, Redeliver(r, g) PROVE IdleHands'
  BY <1>5, <1>a DEF Redeliver
<1>6. ASSUME NEW w \in Worker, WorkerStep(w) \/ WorkerAborts(w) PROVE IdleHands'
  <2>1. /\ work[w].pc # "idle" /\ UNCHANGED api
        /\ \A v \in Worker : v # w => work'[v] = work[v]
        /\ \/ work'[w] = IdleWorker
           \/ work'[w].review = work[w].review /\ work'[w].pc # "idle"
    <3>1. CASE Claim(w)
      BY <1>0, <3>1 DEF Claim, WorkState
    <3>2. CASE RunEnds(w)
      <4>1. PICK c \in Spend : RunDone(w, c) \/ RunFailed(w, c) \/ RunTransient(w, c)
        BY <3>2 DEF RunEnds
      <4>2. CASE RunDone(w, c)
        BY <1>0, <4>2 DEF RunDone, Step, WorkState
      <4>3. CASE RunFailed(w, c)
        BY <1>0, <4>3 DEF RunFailed, Fail, WorkState
      <4>4. CASE RunTransient(w, c)
        BY <1>0, <4>4 DEF RunTransient, Fail, WorkState
      <4> QED BY <4>1, <4>2, <4>3, <4>4
    <3>3. CASE PutCache(w) \/ WorkerEmit(w)
      BY <1>0, <3>3 DEF PutCache, WorkerEmit, Step, WorkState
    <3>4. CASE Respond(w) \/ WorkerAborts(w)
      BY <1>0, <3>4 DEF Respond, WorkerAborts
    <3> QED BY <1>6, <3>1, <3>2, <3>3, <3>4 DEF WorkerStep
  <2> QED BY <1>0, <1>c, <2>1 DEF IdleWorker
<1>7. ASSUME NEW r \in Review, LeaseExpires(r) \/ StallElapses(r) PROVE IdleHands'
  BY <1>7, <1>a DEF LeaseExpires, StallElapses
<1>8. CASE UNCHANGED vars
  BY <1>8, <1>a DEF vars
<1> QED BY <1>1, <1>2, <1>3, <1>4, <1>5, <1>6, <1>7, <1>8 DEF Next

-----------------------------------------------------------------------------
(* Requests *)

Kept == TypeInv /\ IdsInv /\ IdleHands /\ \A r \in Review : Custody(r)

\* A request that has no task to look after.
LEMMA HandlerGoesOn ==
    ASSUME Kept, NEW h \in Handler, NEW r \in Review, UNCHANGED <<work, tasks, stalled>>,
           api[h].review = r \/ (api[h].review = None /\ \A i \in Handler : api[i].review # r),
           api'[h].review \in {r, None}, \A i \in Handler : i # h => api'[i] = api[i],
           api[h].pc \notin {"enqueue", "undo"}, api'[h].pc \notin {"enqueue", "undo"},
           api'[h].review = r /\ api'[h].pc = "retry" =>
              review'[r].status = "failed" /\ api'[h].generation = review'[r].generation + 1,
           api'[h].review = r /\ Opening(h)' => api'[h].generation = 0,
           \A q \in Review : q # r => review'[q] = review[q],
           review'[r] = review[r]
             \/ (~Present(r) /\ review'[r].status = "done" /\ review'[r].generation = 0)
    PROVE  \A q \in Review : Custody(q)'
<1>0. None \notin Review
  BY ConstantsAssumption
<1>1. ASSUME NEW q \in Review, q # r PROVE Custody(q)'
  <2>1. Elsewhere(q)
    BY <1>0, <1>1, HandlerElsewhere
  <2> QED BY <2>1, ElsewhereKeeps DEF Kept
<1>2. /\ Handled(r) /\ Worked(r) /\ Carried(r) /\ Tasked(r)
  BY DEF Kept, Custody
<1>3. Handled(r)'
  <2>1. \A i \in Handler : api'[i].review = r =>
            \A j \in Handler : api'[j].review = r => i = j
    BY <1>2 DEF Handled
  <2>2. CASE review'[r] = review[r]
    BY <1>2, <2>1, <2>2 DEF Handled, Own, Opening
  <2>3. CASE ~Present(r)
    <3>1. \A i \in Handler : i # h /\ api[i].review = r =>
            api[i].pc \notin {"enqueue", "undo", "retry"}
      BY <2>3 DEF Kept, IdsInv, Stored
    <3>2. api'[h].review = r => api'[h].pc \notin {"enqueue", "undo"}
      OBVIOUS
    <3> QED BY <1>2, <2>1, <3>1, <3>2 DEF Handled, Opening
  <2> QED BY <2>2, <2>3
<1>4. ASSUME ~Present(r)
      PROVE  /\ \A w \in Worker : work[w].review # r
             /\ \A g \in Generation : tasks[r][g].state = "none"
             /\ r \notin stalled
  BY <1>0, <1>4 DEF Kept, IdsInv, Stored, IdleHands
<1>5. CASE review'[r] = review[r]
  <2>1. Worked(r)' /\ Tasked(r)'
    BY <1>2, <1>5 DEF Worked, Tasked
  <2>2. Carried(r)'
    BY <1>2, <1>5 DEF Carried, Own
  <2> QED BY <1>1, <1>3, <2>1, <2>2 DEF Custody
<1>6. CASE ~Present(r) /\ review'[r].status = "done" /\ review'[r].generation = 0
  <2>1. Worked(r)' /\ Tasked(r)'
    BY <1>2, <1>4, <1>6 DEF Worked, Tasked, Generation
  <2>2. Carried(r)'
    BY <1>4, <1>6 DEF Carried
  <2> QED BY <1>1, <1>3, <2>1, <2>2 DEF Custody
<1> QED BY <1>5, <1>6

LEMMA SubmitCreateKeeps ==
    ASSUME Kept, NEW h \in Handler, SubmitCreate(h), NEW r \in Review, api[h].review = r
    PROVE  \A q \in Review : Custody(q)'
<1>0. /\ r \in Review /\ None \notin Review /\ api[h].pc = "create"
      /\ api \in [Handler -> ApiState] /\ review \in [Review -> ReviewDoc]
      /\ UNCHANGED <<work, tasks, stalled>>
  BY Busy DEF SubmitCreate, Kept, TypeInv, ApiOK, DocsOK
<1>1. ~Present(r)
  BY <1>0 DEF Kept, IdsInv, Opened, Opening
<1>2. /\ \A q \in Review : q # r => review'[q] = review[q]
      /\ review'[r].status = "queued" /\ review'[r].generation = 0 /\ review'[r].attempts = 0
  BY <1>0 DEF SubmitCreate, Write, FreshDoc, NoReview
<1>3. /\ api'[h].pc = "enqueue" /\ api'[h].review = r /\ api'[h].generation = api[h].generation
      /\ \A i \in Handler : i # h => api'[i] = api[i]
  BY <1>0 DEF SubmitCreate, Goto, ApiState
<1>4. /\ \A w \in Worker : work[w].review # r
      /\ \A g \in Generation : tasks[r][g].state = "none"
      /\ r \notin stalled
  BY <1>0, <1>1 DEF Kept, IdsInv, Stored, IdleHands
<1>5. /\ Handled(r) /\ Worked(r) /\ Carried(r) /\ Tasked(r)
  BY <1>0 DEF Kept, Custody
<1>6. api[h].generation = 0 /\ \A i \in Handler : api[i].review = r => i = h
  BY <1>0, <1>5 DEF Handled, Opening
<1>7. 0 \in Generation
  BY ConstantsAssumption DEF Generation
<1>8. Handled(r)'
  <2>1. Own(r)'.state = "none"
    BY <1>0, <1>2, <1>4, <1>7 DEF Own
  <2> QED BY <1>2, <1>3, <1>6, <2>1 DEF Handled, Opening
<1>9. Worked(r)' /\ Tasked(r)'
  BY <1>0, <1>2, <1>4, <1>5 DEF Worked, Tasked
<1>10. Carried(r)'
  BY <1>0, <1>2, <1>3, <1>4 DEF Carried
<1>11. ASSUME NEW q \in Review, q # r PROVE Custody(q)'
  <2>1. Elsewhere(q)
    BY <1>0, <1>2, <1>3, <1>11, HandlerElsewhere
  <2> QED BY <2>1, ElsewhereKeeps DEF Kept
<1> QED BY <1>8, <1>9, <1>10, <1>11 DEF Custody

LEMMA RetryWriteKeeps ==
    ASSUME Kept, NEW h \in Handler, RetryWrite(h), NEW r \in Review, api[h].review = r, NEW g \in Generation,
           api[h].generation = g
    PROVE  \A q \in Review : Custody(q)'
<1>0. /\ r \in Review /\ None \notin Review /\ api[h].pc = "retry" /\ g \in Generation
      /\ api \in [Handler -> ApiState] /\ review \in [Review -> ReviewDoc]
      /\ UNCHANGED <<work, tasks>> /\ stalled' = stalled \ {r}
  BY Busy DEF RetryWrite, Kept, TypeInv, ApiOK, ApiState, DocsOK
<1>2. /\ \A q \in Review : q # r => review'[q] = review[q]
      /\ review'[r].status = "queued" /\ review'[r].generation = g /\ review'[r].attempts = 0
  BY <1>0 DEF RetryWrite, Write, RetriedDoc, ReviewDoc
<1>3. /\ api'[h].pc = "enqueue" /\ api'[h].review = r /\ api'[h].generation = g
      /\ \A i \in Handler : i # h => api'[i] = api[i]
  BY <1>0 DEF RetryWrite, Goto, ApiState
<1>5. /\ Handled(r) /\ Worked(r) /\ Carried(r) /\ Tasked(r)
  BY <1>0 DEF Kept, Custody
<1>6. /\ review[r].status = "failed" /\ g = review[r].generation + 1
      /\ \A i \in Handler : api[i].review = r => i = h
  BY <1>0, <1>5 DEF Handled
<1>7. review[r].generation \in Nat
  BY <1>0 DEF ReviewDoc, Generation
<1>4. /\ tasks[r][g].state = "none" /\ \A x \in Generation : tasks[r][x].state # "ready"
      /\ \A x \in Generation : x > g => tasks[r][x].state = "none"
  <2>1. \A x \in Generation : x \in Nat
    BY DEF Generation
  <2>2. g > review[r].generation /\ \A x \in Generation : x > g => x > review[r].generation
    BY <1>0, <1>6, <1>7, <2>1
  <2> QED BY <1>0, <1>5, <1>6, <2>2 DEF Tasked
<1>8. Handled(r)'
  <2>1. Own(r)'.state = "none"
    BY <1>0, <1>2, <1>4 DEF Own
  <2> QED BY <1>2, <1>3, <1>6, <2>1 DEF Handled, Opening
<1>9. Worked(r)' /\ Tasked(r)'
  BY <1>0, <1>2, <1>4, <1>5, <1>6 DEF Worked, Tasked
<1>10. Carried(r)'
  BY <1>0, <1>2, <1>3 DEF Carried
<1>11. ASSUME NEW q \in Review, q # r PROVE Custody(q)'
  <2>1. Elsewhere(q)
    BY <1>0, <1>2, <1>3, <1>11, HandlerElsewhere
  <2> QED BY <2>1, ElsewhereKeeps DEF Kept
<1> QED BY <1>8, <1>9, <1>10, <1>11 DEF Custody

LEMMA EnqueueKeeps ==
    ASSUME Kept, Reported, NEW h \in Handler, Enqueue(h), NEW r \in Review, api[h].review = r, NEW g \in Generation,
           api[h].generation = g
    PROVE  \A q \in Review : Custody(q)'
<1>0. /\ r \in Review /\ None \notin Review /\ api[h].pc = "enqueue" /\ g \in Generation
      /\ api \in [Handler -> ApiState] /\ tasks \in [Review -> [Generation -> TaskState]]
      /\ UNCHANGED <<work, review, stalled>>
  BY Busy DEF Enqueue, Kept, TypeInv, ApiOK, ApiState, TasksOK
<1>5. /\ Handled(r) /\ Worked(r) /\ Carried(r) /\ Tasked(r)
  BY <1>0 DEF Kept, Custody
<1>6. /\ review[r].status = "queued" /\ review[r].attempts = 0
      /\ g = review[r].generation /\ tasks[r][g].state = "none"
      /\ \A i \in Handler : api[i].review = r => i = h
  BY <1>0, <1>5 DEF Handled, Own
<1>7. /\ \A i \in Handler : i # h => api'[i] = api[i]
      /\ \A q \in Review : q # r => tasks'[q] = tasks[q]
      /\ api'[h].review \in {r, None}
  BY <1>0 DEF Enqueue, Finish, Goto, CreateTask, IdleHandler, ApiState
<1>11. ASSUME NEW q \in Review, q # r PROVE Custody(q)'
  <2>1. Elsewhere(q)
    BY <1>0, <1>7, <1>11, HandlerElsewhere
  <2> QED BY <2>1, ElsewhereKeeps DEF Kept
<1>12. CASE CreateTask(r, g) /\ Finish(h)
  <2>1. /\ tasks'[r][g] = [tasks[r][g] EXCEPT !.state = "ready"]
        /\ \A x \in Generation : x # g => tasks'[r][x] = tasks[r][x]
    BY <1>0, <1>6, <1>12 DEF CreateTask
  <2>2. /\ tasks'[r][g].state = "ready" /\ tasks'[r][g].dispatches = 0
    <3>1. tasks[r][g] \in TaskState /\ tasks[r][g].dispatches = 0
      BY <1>0, <1>5, <1>6 DEF Tasked
    <3> QED BY <2>1, <3>1 DEF TaskState
  <2>3. api'[h].review = None
    BY <1>0, <1>12 DEF Finish, IdleHandler
  <2>4. Handled(r)'
    <3>1. \A i \in Handler : api'[i].review # r
      BY <1>0, <1>6, <1>7, <2>3
    <3> QED BY <3>1 DEF Handled
  <2>5. Worked(r)'
    <3>1. \A w \in Worker : work[w].review = r => work[w].generation # g
      BY <1>5, <1>6 DEF Worked
    <3>2. \A w \in Worker : work[w].review = r => work[w].generation \in Generation
      BY DEF Kept, TypeInv, WorkOK, WorkState
    <3> QED BY <1>0, <1>5, <2>1, <3>1, <3>2 DEF Worked
  <2>6. Carried(r)'
    <3>1. Own(r)'.state = "ready"
      BY <1>0, <1>6, <2>2 DEF Own
    <3> QED BY <1>0, <1>5, <1>6, <3>1 DEF Carried
  <2>7. Tasked(r)'
    <3>1. ~(g > g)
      BY <1>0 DEF Generation
    <3> SUFFICES ASSUME NEW x \in Generation
                 PROVE  /\ tasks'[r][x].state = "none" => tasks'[r][x].dispatches = 0
                        /\ x > review[r].generation => tasks'[r][x].state = "none"
                        /\ tasks'[r][x].state = "ready" =>
                            /\ x = review[r].generation /\ review[r].status = "queued"
                            /\ review[r].attempts = tasks'[r][x].dispatches
      BY <1>0 DEF Tasked
    <3>2. CASE x = g
      BY <1>6, <2>2, <3>1, <3>2
    <3>3. CASE x # g
      BY <1>5, <2>1, <3>3 DEF Tasked
    <3> QED BY <3>2, <3>3
  <2> QED BY <1>11, <2>4, <2>5, <2>6, <2>7 DEF Custody
<1>13. CASE UNCHANGED tasks /\ Goto(h, "undo")
  <2>1. api'[h] = [api[h] EXCEPT !.pc = "undo"]
    BY <1>0, <1>13 DEF Goto
  <2>2. api'[h].pc = "undo" /\ api'[h].review = r /\ api'[h].generation = g
    BY <1>0, <2>1 DEF ApiState
  <2>4. Handled(r)'
    BY <1>0, <1>6, <1>7, <1>13, <2>2 DEF Handled, Own, Opening
  <2>5. Worked(r)' /\ Tasked(r)'
    BY <1>0, <1>5, <1>13 DEF Worked, Tasked
  <2>6. Carried(r)'
    BY <1>0, <1>5, <1>6, <2>2 DEF Carried
  <2> QED BY <1>11, <2>4, <2>5, <2>6 DEF Custody
<1> QED BY <1>12, <1>13 DEF Enqueue, Reported, Inject

LEMMA EnqueueUndoKeeps ==
    ASSUME Kept, NEW h \in Handler, EnqueueUndo(h), NEW r \in Review, api[h].review = r
    PROVE  \A q \in Review : Custody(q)'
<1>0. /\ r \in Review /\ None \notin Review /\ api[h].pc = "undo"
      /\ api \in [Handler -> ApiState] /\ review \in [Review -> ReviewDoc]
      /\ UNCHANGED <<work, tasks, stalled>>
  BY Busy DEF EnqueueUndo, Kept, TypeInv, ApiOK, DocsOK
<1>2. /\ \A q \in Review : q # r => review'[q] = review[q]
      /\ review'[r].status = "failed" /\ review'[r].generation = review[r].generation
  BY <1>0 DEF EnqueueUndo, Write, ReviewDoc
<1>3. /\ api'[h].review = None
      /\ \A i \in Handler : i # h => api'[i] = api[i]
  BY <1>0 DEF EnqueueUndo, Finish, IdleHandler
<1>5. /\ Handled(r) /\ Worked(r) /\ Carried(r) /\ Tasked(r)
  BY <1>0 DEF Kept, Custody
<1>6. /\ Own(r).state = "none" /\ \A i \in Handler : api[i].review = r => i = h
  BY <1>0, <1>5 DEF Handled
<1>8. Handled(r)'
  BY <1>0, <1>3, <1>6 DEF Handled
<1>9. Worked(r)'
  <2>1. \A w \in Worker : work[w].review = r => work[w].generation # review[r].generation
    BY <1>5, <1>6 DEF Worked, Own
  <2> QED BY <1>0, <1>5, <2>1 DEF Worked
<1>10. Tasked(r)'
  BY <1>0, <1>2, <1>5, <1>6 DEF Tasked, Own
<1>12. Carried(r)'
  BY <1>2 DEF Carried
<1>11. ASSUME NEW q \in Review, q # r PROVE Custody(q)'
  <2>1. Elsewhere(q)
    BY <1>0, <1>2, <1>3, <1>11, HandlerElsewhere
  <2> QED BY <2>1, ElsewhereKeeps DEF Kept
<1> QED BY <1>8, <1>9, <1>10, <1>11, <1>12 DEF Custody

LEMMA HandlerKeeps ==
    ASSUME Kept, Reported, NEW h \in Handler, HandlerStep(h)
    PROVE  \A q \in Review : Custody(q)'
<1>0. /\ api[h].pc # "idle" => api[h].review \in Review
      /\ api \in [Handler -> ApiState] /\ review \in [Review -> ReviewDoc]
      /\ api[h].generation \in Generation
  BY Busy DEF Kept, TypeInv, ApiOK, ApiState, DocsOK
<1>1. CASE SubmitCached(h)
  <2>1. /\ api[h].pc = "hit" /\ UNCHANGED <<work, tasks, stalled>>
        /\ api' = [api EXCEPT ![h].pc = "row"]
        /\ review' = [review EXCEPT ![api[h].review] = CachedDoc(api[h])]
    BY <1>1 DEF SubmitCached, Write, Goto
  <2>2. ~Present(api[h].review)
    BY <2>1 DEF Kept, IdsInv, Opened, Opening
  <2>3. /\ api'[h].pc = "row" /\ api'[h].review = api[h].review
        /\ \A i \in Handler : i # h => api'[i] = api[i]
    BY <1>0, <2>1 DEF ApiState
  <2>4. /\ review'[api[h].review].status = "done" /\ review'[api[h].review].generation = 0
        /\ \A q \in Review : q # api[h].review => review'[q] = review[q]
    BY <1>0, <2>1 DEF CachedDoc, NoReview
  <2>5. PICK r \in Review : api[h].review = r
    BY <1>0, <2>1
  <2> QED BY <2>1, <2>2, <2>3, <2>4, <2>5, HandlerGoesOn DEF Opening
<1>2. CASE SubmitEmit(h) \/ SubmitReserve(h)
  <2>1. /\ api[h].pc \in {"row", "reserve"} /\ UNCHANGED <<review, work, tasks, stalled>>
        /\ Finish(h) \/ (Goto(h, "create") /\ api[h].pc = "reserve")
    BY <1>2 DEF SubmitEmit, SubmitReserve
  <2>2. PICK r \in Review : api[h].review = r
    BY <1>0, <2>1
  <2>3. Custody(r)
    BY DEF Kept
  <2>4. api[h].pc = "reserve" => api[h].generation = 0
    BY <2>2, <2>3 DEF Custody, Handled, Opening
  <2>5. /\ \A i \in Handler : i # h => api'[i] = api[i]
        /\ \/ api'[h].review = None /\ api'[h].pc = "idle"
           \/ /\ api'[h].review = r /\ api'[h].pc = "create"
              /\ api'[h].generation = 0
    BY <1>0, <2>1, <2>2, <2>4 DEF Finish, Goto, IdleHandler, ApiState
  <2> QED BY <2>1, <2>2, <2>5, HandlerGoesOn, ConstantsAssumption DEF Opening
<1>3. CASE SubmitCreate(h)
  BY <1>0, <1>3, SubmitCreateKeeps DEF SubmitCreate
<1>4. CASE RetryWrite(h)
  BY <1>0, <1>4, RetryWriteKeeps DEF RetryWrite
<1>5. CASE Enqueue(h)
  BY <1>0, <1>5, EnqueueKeeps DEF Enqueue
<1>6. CASE EnqueueUndo(h)
  BY <1>0, <1>6, EnqueueUndoKeeps DEF EnqueueUndo
<1> QED BY <1>1, <1>2, <1>3, <1>4, <1>5, <1>6 DEF HandlerStep

LEMMA LookupKeeps ==
    ASSUME Kept, NEW h \in Handler, NEW u \in User, NEW c \in Content, NEW r \in Review,
           SubmitLookup(h, u, c, r)
    PROVE  \A q \in Review : Custody(q)'
<1>0. api \in [Handler -> ApiState]
  BY DEF Kept, TypeInv, ApiOK
<1>1. /\ api[h].review = None /\ \A i \in Handler : api[i].review # r
      /\ api[h].pc = "idle"
  BY DEF SubmitLookup, Held, Kept, IdleHands
<1>2. /\ api'[h].review = r /\ api'[h].pc \in {"hit", "reserve"} /\ api'[h].generation = 0
      /\ \A i \in Handler : i # h => api'[i] = api[i]
      /\ UNCHANGED <<review, work, tasks, stalled>>
  BY <1>0 DEF SubmitLookup
<1> QED BY <1>1, <1>2, HandlerGoesOn

LEMMA RetryReadKeeps ==
    ASSUME Kept, Reported, NEW h \in Handler, NEW r \in Review, RetryRead(h, r)
    PROVE  \A q \in Review : Custody(q)'
<1>0. api \in [Handler -> ApiState]
  BY DEF Kept, TypeInv, ApiOK
<1>1. /\ api[h].review = None /\ \A i \in Handler : api[i].review # r
      /\ api[h].pc = "idle"
  BY DEF RetryRead, Held, Kept, IdleHands, Reported, Inject
<1>2. review[r].status = "failed"
  BY DEF RetryRead, IsStalled, Kept, Custody, Carried
<1>3. /\ api'[h].review = r /\ api'[h].pc = "retry"
      /\ api'[h].generation = review[r].generation + 1
      /\ \A i \in Handler : i # h => api'[i] = api[i]
      /\ UNCHANGED <<review, work, tasks, stalled>>
  BY <1>0 DEF RetryRead, IdleHandler
<1> QED BY <1>1, <1>2, <1>3, HandlerGoesOn DEF Opening

-----------------------------------------------------------------------------
(* Deliveries *)

\* A step of a delivery is about its own review.
LEMMA WorkerKeeps ==
    ASSUME Kept, NEW w \in Worker, NEW r \in Review, work[w].review \in {r, None},
           work'[w].review \in {r, None}, \A v \in Worker : v # w => work'[v] = work[v],
           UNCHANGED <<api, stalled>>,
           \A q \in Review : q # r => review'[q] = review[q] /\ tasks'[q] = tasks[q],
           Handled(r)', Worked(r)', Carried(r)', Tasked(r)'
    PROVE  \A q \in Review : Custody(q)'
<1>0. None \notin Review
  BY ConstantsAssumption
<1>1. ASSUME NEW q \in Review, q # r PROVE Custody(q)'
  <2>1. Elsewhere(q)
    BY <1>0, <1>1, WorkerElsewhere
  <2> QED BY <2>1, ElsewhereKeeps DEF Kept
<1> QED BY <1>1 DEF Custody

LEMMA DeliverKeeps ==
    ASSUME Kept, NEW w \in Worker, NEW r \in Review, NEW g \in Generation, Deliver(w, r, g)
    PROVE  \A q \in Review : Custody(q)'
<1>0. /\ work \in [Worker -> WorkState] /\ tasks \in [Review -> [Generation -> TaskState]]
      /\ UNCHANGED <<review, api, stalled>> /\ work[w].pc = "idle" /\ work[w].review = None
  BY DEF Deliver, Kept, TypeInv, WorkOK, TasksOK, IdleHands
<1>1. /\ work'[w].pc = "claim" /\ work'[w].review = r /\ work'[w].generation = g
      /\ \A v \in Worker : v # w => work'[v] = work[v]
  BY <1>0 DEF Deliver, IdleWorker
<1>2. /\ tasks'[r][g].state = "inflight" /\ tasks'[r][g].holder = w
      /\ tasks'[r][g].dispatches = tasks[r][g].dispatches + 1
      /\ \A x \in Generation : x # g => tasks'[r][x] = tasks[r][x]
      /\ \A q \in Review : q # r => tasks'[q] = tasks[q]
  BY <1>0 DEF Deliver
<1>3. /\ Handled(r) /\ Worked(r) /\ Carried(r) /\ Tasked(r)
  BY DEF Kept, Custody
<1>4. /\ tasks[r][g].state = "ready"
      /\ g = review[r].generation /\ review[r].status = "queued"
      /\ review[r].attempts = tasks[r][g].dispatches
  BY <1>3 DEF Deliver, Tasked
<1>5. \A h \in Handler : api[h].review = r => api[h].pc \notin {"enqueue", "undo"}
  BY <1>3, <1>4 DEF Handled, Own
<1>6. Handled(r)'
  BY <1>0, <1>3, <1>5 DEF Handled, Opening
<1>7. Worked(r)'
  <2>1. \A v \in Worker : v # w /\ work[v].review = r =>
            work[v].generation \in Generation /\ work[v].generation # g
    BY <1>0, <1>3, <1>4 DEF Worked, WorkState
  <2>2. \A v \in Worker : v # w /\ work'[v].review = r =>
            tasks'[r][work'[v].generation] = tasks[r][work[v].generation]
    BY <1>1, <1>2, <2>1
  <2> SUFFICES ASSUME NEW v \in Worker, work'[v].review = r
               PROVE  LET task == tasks'[r][work'[v].generation]
                          own == work'[v].generation = review'[r].generation IN
                      /\ task.state = "inflight" /\ task.holder = v
                      /\ work'[v].pc = "claim" =>
                          own /\ review'[r].status = "queued"
                          /\ review'[r].attempts + 1 = task.dispatches
                      /\ work'[v].pc = "running" =>
                          /\ own /\ review'[r].status = "running"
                          /\ review'[r].attempts = task.dispatches
                          /\ RunAttempt(work'[v].run) = review'[r].attempts
                      /\ work'[v].pc = "respond" /\ work'[v].outcome = "retry" =>
                          /\ own /\ review'[r].status = "queued"
                          /\ review'[r].attempts = task.dispatches
                          /\ review'[r].attempts < TaskMaxAttempts
    BY DEF Worked
  <2>3. CASE v = w
    BY <1>0, <1>1, <1>2, <1>4, <2>3
  <2>4. CASE v # w
    BY <1>0, <1>1, <1>3, <2>2, <2>4 DEF Worked
  <2> QED BY <2>3, <2>4
<1>8. Carried(r)'
  BY <1>0, <1>1, <1>3, <1>4 DEF Carried
<1>9. Tasked(r)'
  <2>1. ~(g > review[r].generation)
    BY <1>4 DEF Generation
  <2> SUFFICES ASSUME NEW x \in Generation
               PROVE  /\ tasks'[r][x].state = "none" => tasks'[r][x].dispatches = 0
                      /\ x > review[r].generation => tasks'[r][x].state = "none"
                      /\ tasks'[r][x].state = "ready" =>
                          /\ x = review[r].generation /\ review[r].status = "queued"
                          /\ review[r].attempts = tasks'[r][x].dispatches
    BY <1>0 DEF Tasked
  <2>2. CASE x = g
    BY <1>2, <1>4, <2>1, <2>2
  <2>3. CASE x # g
    BY <1>2, <1>3, <2>3 DEF Tasked
  <2> QED BY <2>2, <2>3
<1> QED BY <1>0, <1>1, <1>2, <1>6, <1>7, <1>8, <1>9, WorkerKeeps

\* One delivery at a time can still write the review.
LEMMA OneWriter ==
    ASSUME NEW r, Worked(r), NEW v \in Worker, NEW w \in Worker,
           work[v].review = r, work[w].review = r, work[w].generation = review[r].generation,
           work[v].pc \in {"claim", "running"}
             \/ (work[v].pc = "respond" /\ work[v].outcome = "retry")
    PROVE  v = w
<1>1. work[v].generation = review[r].generation
  BY DEF Worked
<1> QED BY <1>1, OneHolder

LEMMA ClaimKeeps ==
    ASSUME Kept, NEW w \in Worker, Claim(w), NEW r \in Review, work[w].review = r
    PROVE  \A q \in Review : Custody(q)'
<1> DEFINE g == review[r].generation
<1>0. /\ work \in [Worker -> WorkState] /\ review \in [Review -> ReviewDoc]
      /\ UNCHANGED <<tasks, api, stalled>> /\ work[w].pc = "claim"
      /\ None \notin Review
  BY ConstantsAssumption DEF Claim, Kept, TypeInv, WorkOK, DocsOK
<1>1. /\ Handled(r) /\ Worked(r) /\ Carried(r) /\ Tasked(r)
  BY DEF Kept, Custody
<1>2. /\ work[w].generation = review[r].generation /\ review[r].status = "queued"
      /\ review[r].attempts + 1 = tasks[r][work[w].generation].dispatches
      /\ tasks[r][work[w].generation].state = "inflight"
      /\ tasks[r][work[w].generation].holder = w
  BY <1>0, <1>1 DEF Worked
<1>3. Claimable(r)
  BY <1>2 DEF Claimable
<1>4. /\ work'[w].pc = "running" /\ work'[w].review = r
      /\ work'[w].generation = review[r].generation
      /\ work'[w].run = <<r, review[r].generation, review[r].attempts + 1>>
      /\ \A v \in Worker : v # w => work'[v] = work[v]
  BY <1>0, <1>2, <1>3 DEF Claim, WorkState
<1>5. /\ review'[r].status = "running" /\ review'[r].generation = review[r].generation
      /\ review'[r].attempts = review[r].attempts + 1
      /\ \A q \in Review : q # r => review'[q] = review[q]
  <2>1. review' = [review EXCEPT ![r] = ClaimedDoc(r)]
    BY <1>3 DEF Claim, Write
  <2>2. /\ ClaimedDoc(r).status = "running"
        /\ ClaimedDoc(r).generation = review[r].generation
        /\ ClaimedDoc(r).attempts = review[r].attempts + 1
    <3>1. review[r] \in ReviewDoc
      BY <1>0
    <3> QED BY <3>1 DEF ClaimedDoc, ReviewDoc
  <2> QED BY <1>0, <2>1, <2>2
<1>6. Handled(r)'
  <2>1. \A h \in Handler : api[h].review = r => api[h].pc \notin {"enqueue", "undo", "retry"}
    BY <1>1, <1>2 DEF Handled, Own
  <2> QED BY <1>0, <1>1, <2>1 DEF Handled, Opening
<1>7. Worked(r)'
  <2>1. \A v \in Worker : v # w /\ work[v].review = r =>
            /\ work[v].pc \notin {"claim", "running"}
            /\ ~(work[v].pc = "respond" /\ work[v].outcome = "retry")
    BY <1>1, <1>2, OneWriter
  <2>2. \A v \in Worker : v # w /\ work[v].review = r =>
            /\ tasks[r][work[v].generation].state = "inflight"
            /\ tasks[r][work[v].generation].holder = v
    BY <1>1 DEF Worked
  <2>3. RunAttempt(work'[w].run) = review[r].attempts + 1
    BY <1>4 DEF RunAttempt
  <2> SUFFICES ASSUME NEW v \in Worker, work'[v].review = r
               PROVE  LET task == tasks'[r][work'[v].generation]
                          own == work'[v].generation = review'[r].generation IN
                      /\ task.state = "inflight" /\ task.holder = v
                      /\ work'[v].pc = "claim" =>
                          own /\ review'[r].status = "queued"
                          /\ review'[r].attempts + 1 = task.dispatches
                      /\ work'[v].pc = "running" =>
                          /\ own /\ review'[r].status = "running"
                          /\ review'[r].attempts = task.dispatches
                          /\ RunAttempt(work'[v].run) = review'[r].attempts
                      /\ work'[v].pc = "respond" /\ work'[v].outcome = "retry" =>
                          /\ own /\ review'[r].status = "queued"
                          /\ review'[r].attempts = task.dispatches
                          /\ review'[r].attempts < TaskMaxAttempts
    BY DEF Worked
  <2>4. CASE v = w
    BY <1>0, <1>2, <1>4, <1>5, <2>3, <2>4
  <2>5. CASE v # w
    BY <1>0, <1>4, <2>1, <2>2, <2>5
  <2> QED BY <2>4, <2>5
<1>8. Carried(r)'
  BY <1>0, <1>1, <1>2, <1>4, <1>5 DEF Carried
<1>9. Tasked(r)'
  <2>1. \A x \in Generation : tasks[r][x].state # "ready"
    BY <1>1, <1>2 DEF Tasked
  <2> QED BY <1>0, <1>1, <1>5, <2>1 DEF Tasked
<1>10. \A q \in Review : q # r => review'[q] = review[q] /\ tasks'[q] = tasks[q]
  BY <1>0, <1>5
<1> QED BY <1>0, <1>4, <1>6, <1>7, <1>8, <1>9, <1>10, WorkerKeeps

\* A run that ends: the review is done, failed, or queued again.
LEMMA RunEndsKeeps ==
    ASSUME Kept, NEW w \in Worker, RunEnds(w), NEW r \in Review, work[w].review = r
    PROVE  \A q \in Review : Custody(q)'
<1>0. /\ work \in [Worker -> WorkState] /\ review \in [Review -> ReviewDoc]
      /\ UNCHANGED <<tasks, api, stalled>> /\ work[w].pc = "running"
      /\ None \notin Review /\ TaskMaxAttempts \in Nat
  BY ConstantsAssumption
     DEF RunEnds, RunDone, RunFailed, RunTransient, Kept, TypeInv, WorkOK, DocsOK
<1>1. /\ Handled(r) /\ Worked(r) /\ Carried(r) /\ Tasked(r)
  BY DEF Kept, Custody
<1>2. /\ work[w].generation = review[r].generation /\ review[r].status = "running"
      /\ review[r].attempts = tasks[r][work[w].generation].dispatches
      /\ tasks[r][work[w].generation].state = "inflight"
      /\ tasks[r][work[w].generation].holder = w
      /\ RunAttempt(work[w].run) = review[r].attempts
  BY <1>0, <1>1 DEF Worked
<1>3. /\ work'[w].review = r /\ work'[w].generation = review[r].generation
      /\ \A v \in Worker : v # w => work'[v] = work[v]
      /\ review'[r].generation = review[r].generation /\ review'[r].attempts = review[r].attempts
      /\ \A q \in Review : q # r => review'[q] = review[q]
      /\ \/ review'[r].status \in {"done", "failed"} /\ work'[w].pc \in {"cache", "emit"}
         \/ /\ review'[r].status = "queued" /\ work'[w].pc = "respond"
            /\ work'[w].outcome = "retry" /\ review[r].attempts < TaskMaxAttempts
  <2>1. PICK c \in Spend : RunDone(w, c) \/ RunFailed(w, c) \/ RunTransient(w, c)
    BY DEF RunEnds
  <2>2. CASE RunDone(w, c)
    BY <1>0, <1>2, <2>2 DEF RunDone, Write, DoneDoc, Step, ReviewDoc, WorkState
  <2>3. ASSUME Fail(w, c)
        PROVE /\ work'[w].review = r /\ work'[w].generation = review[r].generation
              /\ \A v \in Worker : v # w => work'[v] = work[v]
              /\ review'[r].generation = review[r].generation
              /\ review'[r].attempts = review[r].attempts
              /\ \A q \in Review : q # r => review'[q] = review[q]
              /\ review'[r].status = "failed" /\ work'[w].pc = "emit"
    BY <1>0, <1>2, <2>3 DEF Fail, Write, FailedDoc, ReviewDoc, WorkState
  <2>4. CASE RunFailed(w, c)
    BY <2>3, <2>4 DEF RunFailed
  <2>5. CASE RunTransient(w, c)
    <3>1. CASE LastAttempt(work[w].run)
      BY <2>3, <2>5, <3>1 DEF RunTransient
    <3>2. CASE ~LastAttempt(work[w].run)
      <4>1. review[r].attempts < TaskMaxAttempts
        <5>1. review[r].attempts \in Nat
          BY <1>0 DEF ReviewDoc
        <5> QED BY <1>0, <1>2, <3>2, <5>1 DEF LastAttempt
      <4>2. /\ review' = [review EXCEPT ![r] = RequeuedDoc(r)]
            /\ work' = [work EXCEPT ![w].pc = "respond", ![w].outcome = "retry"]
        BY <2>5, <3>2 DEF RunTransient, Write
      <4>3. /\ RequeuedDoc(r).status = "queued"
            /\ RequeuedDoc(r).generation = review[r].generation
            /\ RequeuedDoc(r).attempts = review[r].attempts
        <5>1. review[r] \in ReviewDoc
          BY <1>0
        <5> QED BY <5>1 DEF RequeuedDoc, ReviewDoc
      <4>4. /\ work'[w].pc = "respond" /\ work'[w].outcome = "retry"
            /\ work'[w].review = r /\ work'[w].generation = review[r].generation
            /\ \A v \in Worker : v # w => work'[v] = work[v]
        BY <1>0, <1>2, <4>2 DEF WorkState
      <4> QED BY <1>0, <4>1, <4>2, <4>3, <4>4
    <3> QED BY <3>1, <3>2
  <2> QED BY <2>1, <2>2, <2>4, <2>5
<1>6. Handled(r)'
  <2>1. \A h \in Handler : api[h].review = r => api[h].pc \notin {"enqueue", "undo", "retry"}
    BY <1>1, <1>2 DEF Handled, Own
  <2> QED BY <1>0, <1>1, <2>1 DEF Handled, Opening
<1>7. Worked(r)'
  <2>1. \A v \in Worker : v # w /\ work[v].review = r =>
            /\ work[v].pc \notin {"claim", "running"}
            /\ ~(work[v].pc = "respond" /\ work[v].outcome = "retry")
    BY <1>1, <1>2, OneWriter
  <2>2. \A v \in Worker : v # w /\ work[v].review = r =>
            /\ tasks[r][work[v].generation].state = "inflight"
            /\ tasks[r][work[v].generation].holder = v
    BY <1>1 DEF Worked
  <2> SUFFICES ASSUME NEW v \in Worker, work'[v].review = r
               PROVE  LET task == tasks'[r][work'[v].generation]
                          own == work'[v].generation = review'[r].generation IN
                      /\ task.state = "inflight" /\ task.holder = v
                      /\ work'[v].pc = "claim" =>
                          own /\ review'[r].status = "queued"
                          /\ review'[r].attempts + 1 = task.dispatches
                      /\ work'[v].pc = "running" =>
                          /\ own /\ review'[r].status = "running"
                          /\ review'[r].attempts = task.dispatches
                          /\ RunAttempt(work'[v].run) = review'[r].attempts
                      /\ work'[v].pc = "respond" /\ work'[v].outcome = "retry" =>
                          /\ own /\ review'[r].status = "queued"
                          /\ review'[r].attempts = task.dispatches
                          /\ review'[r].attempts < TaskMaxAttempts
    BY DEF Worked
  <2>4. CASE v = w
    BY <1>0, <1>2, <1>3, <2>4
  <2>5. CASE v # w
    BY <1>0, <1>3, <2>1, <2>2, <2>5
  <2> QED BY <2>4, <2>5
<1>8. Carried(r)'
  <2>1. r \notin stalled
    BY <1>1, <1>2 DEF Carried
  <2> QED BY <1>0, <1>3, <2>1 DEF Carried
<1>9. Tasked(r)'
  <2>1. \A x \in Generation : tasks[r][x].state # "ready"
    BY <1>1, <1>2 DEF Tasked
  <2> QED BY <1>0, <1>1, <1>3, <2>1 DEF Tasked
<1>10. \A q \in Review : q # r => review'[q] = review[q] /\ tasks'[q] = tasks[q]
  BY <1>0, <1>3
<1> QED BY <1>0, <1>3, <1>6, <1>7, <1>8, <1>9, <1>10, WorkerKeeps

\* What the outcome of a run is written down for.
LEMMA BookingKeeps ==
    ASSUME Kept, NEW w \in Worker, PutCache(w) \/ WorkerEmit(w),
           NEW r \in Review, work[w].review = r
    PROVE  \A q \in Review : Custody(q)'
<1>0. /\ work \in [Worker -> WorkState] /\ UNCHANGED <<review, tasks, api, stalled>>
      /\ work[w].pc \in {"cache", "emit"} /\ None \notin Review
      /\ work[w].pc = "emit" => work[w].outcome \in {"done", "failed"}
  BY ConstantsAssumption DEF PutCache, WorkerEmit, Kept, TypeInv, WorkOK
<1>1. /\ Handled(r) /\ Worked(r) /\ Carried(r) /\ Tasked(r)
  BY DEF Kept, Custody
<1>3. /\ work'[w].review = r /\ work'[w].generation = work[w].generation
      /\ work'[w].pc \in {"emit", "respond"} /\ work'[w].outcome \in {"done", "failed"}
      /\ \A v \in Worker : v # w => work'[v] = work[v]
  BY <1>0 DEF PutCache, WorkerEmit, Step, WorkState
<1>6. Handled(r)' /\ Tasked(r)'
  BY <1>0, <1>1 DEF Handled, Own, Opening, Tasked
<1>7. Worked(r)'
  BY <1>0, <1>1, <1>3 DEF Worked
<1>8. Carried(r)'
  BY <1>0, <1>1, <1>3 DEF Carried, Own
<1> QED BY <1>0, <1>3, <1>6, <1>7, <1>8, WorkerKeeps

\* The response decides what becomes of the task: after one that asks for it,
\* it is delivered again, since the queue has tries left.
LEMMA RespondKeeps ==
    ASSUME Kept, QueueOutlasts, NEW w \in Worker, Respond(w),
           NEW r \in Review, work[w].review = r,
           NEW g \in Generation, work[w].generation = g
    PROVE  \A q \in Review : Custody(q)'
<1>0. /\ work \in [Worker -> WorkState] /\ UNCHANGED <<review, api, stalled>>
      /\ work[w].pc = "respond" /\ None \notin Review
      /\ tasks \in [Review -> [Generation -> TaskState]]
      /\ TaskMaxAttempts \in Nat /\ QueueMaxAttempts \in Nat
  BY ConstantsAssumption DEF Respond, Kept, TypeInv, WorkOK, TasksOK
<1>1. /\ Handled(r) /\ Worked(r) /\ Carried(r) /\ Tasked(r)
  BY DEF Kept, Custody
<1>2. /\ tasks[r][g].state = "inflight" /\ tasks[r][g].holder = w
      /\ work[w].outcome = "retry" =>
           /\ g = review[r].generation /\ review[r].status = "queued"
           /\ review[r].attempts = tasks[r][g].dispatches /\ review[r].attempts < TaskMaxAttempts
  BY <1>0, <1>1 DEF Worked
<1>3. /\ work'[w].review = None
      /\ \A v \in Worker : v # w => work'[v] = work[v]
  BY <1>0 DEF Respond, IdleWorker
<1>4. /\ \A q \in Review : q # r => tasks'[q] = tasks[q]
      /\ \A x \in Generation : x # g => tasks'[r][x] = tasks[r][x]
      /\ tasks'[r][g] = IF work[w].outcome = "retry" THEN Requeued(tasks[r][g])
                                                     ELSE Completed(tasks[r][g])
  BY <1>0, <1>2 DEF Respond, Settle, TaskOf
<1>5. /\ tasks'[r][g].state = IF work[w].outcome = "retry" THEN "ready" ELSE "gone"
      /\ tasks'[r][g].dispatches = tasks[r][g].dispatches
  <2>1. tasks[r][g] \in TaskState
    BY <1>0
  <2>2. work[w].outcome = "retry" => tasks[r][g].dispatches < QueueMaxAttempts
    <3>1. tasks[r][g].dispatches \in Nat
      BY <2>1 DEF TaskState
    <3> QED BY <1>0, <1>2, <3>1 DEF QueueOutlasts
  <2> QED BY <1>4, <2>1, <2>2 DEF Requeued, Completed, TaskState
<1>6. Handled(r)'
  <2>1. \A h \in Handler : api[h].review = r /\ api[h].pc \in {"enqueue", "undo"} =>
            g # review[r].generation
    BY <1>1, <1>2 DEF Handled, Own
  <2>2. review[r].generation \in Generation
    BY DEF Kept, TypeInv, DocsOK, ReviewDoc
  <2>3. \A h \in Handler : api[h].review = r /\ api[h].pc \in {"enqueue", "undo"} =>
            Own(r)' = Own(r)
    BY <1>0, <1>4, <2>1, <2>2 DEF Own
  <2> QED BY <1>0, <1>1, <2>3 DEF Handled, Opening
<1>7. Worked(r)'
  <2>1. \A v \in Worker : v # w /\ work[v].review = r =>
            work[v].generation \in Generation /\ work[v].generation # g
    BY <1>0, <1>1, OneHolder DEF WorkState
  <2>2. \A v \in Worker : work'[v].review = r =>
            /\ v # w /\ work'[v] = work[v]
            /\ tasks'[r][work[v].generation] = tasks[r][work[v].generation]
    BY <1>0, <1>3, <1>4, <2>1
  <2> QED BY <1>0, <1>1, <2>2 DEF Worked
<1>8. Carried(r)'
  <2>1. CASE work[w].outcome = "retry"
    <3>1. Own(r)'.state = "ready"
      BY <1>0, <1>2, <1>5, <2>1 DEF Own
    <3> QED BY <1>0, <1>1, <1>2, <2>1, <3>1 DEF Carried
  <2>2. CASE work[w].outcome # "retry"
    <3>1. \A v \in Worker : work[v].review = r
                /\ (work[v].pc \in {"claim", "running"}
                      \/ (work[v].pc = "respond" /\ work[v].outcome = "retry"))
            => work'[v] = work[v]
      BY <1>0, <1>3, <2>2
    <3>2. Own(r).state = "ready" => Own(r)' = Own(r)
      <4>1. review[r].generation \in Generation
        BY DEF Kept, TypeInv, DocsOK, ReviewDoc
      <4> QED BY <1>0, <1>2, <1>4, <4>1 DEF Own
    <3> QED BY <1>0, <1>1, <3>1, <3>2 DEF Carried
  <2> QED BY <2>1, <2>2
<1>9. Tasked(r)'
  <2>1. ~(g > review[r].generation)
    BY <1>1, <1>2 DEF Tasked
  <2> SUFFICES ASSUME NEW x \in Generation
               PROVE  /\ tasks'[r][x].state = "none" => tasks'[r][x].dispatches = 0
                      /\ x > review[r].generation => tasks'[r][x].state = "none"
                      /\ tasks'[r][x].state = "ready" =>
                          /\ x = review[r].generation /\ review[r].status = "queued"
                          /\ review[r].attempts = tasks'[r][x].dispatches
    BY <1>0 DEF Tasked
  <2>2. CASE x = g
    BY <1>2, <1>5, <2>1, <2>2
  <2>3. CASE x # g
    BY <1>1, <1>4, <2>3 DEF Tasked
  <2> QED BY <2>2, <2>3
<1>10. \A q \in Review : q # r => review'[q] = review[q] /\ tasks'[q] = tasks[q]
  BY <1>0, <1>4
<1> QED BY <1>0, <1>3, <1>6, <1>7, <1>8, <1>9, <1>10, WorkerKeeps

-----------------------------------------------------------------------------
(* Time, and the whole *)

LEMMA TimeKeeps ==
    ASSUME Kept, Reported, NEW r \in Review, LeaseExpires(r) \/ StallElapses(r)
    PROVE  \A q \in Review : Custody(q)'
<1>0. /\ UNCHANGED <<tasks, api, work>> /\ review \in [Review -> ReviewDoc]
  BY DEF LeaseExpires, StallElapses, Kept, TypeInv, DocsOK
<1>1. \A q \in Review : Handled(q) /\ Worked(q) /\ Carried(q) /\ Tasked(q)
  BY DEF Kept, Custody
<1>2. \A q \in Review : /\ review'[q].status = review[q].status
                        /\ review'[q].generation = review[q].generation
                        /\ review'[q].attempts = review[q].attempts
                        /\ q \in stalled' => q \in stalled \/ (q = r /\ StallElapses(r))
  <2>1. CASE LeaseExpires(r)
    <3>1. review' = [review EXCEPT ![r] = [review[r] EXCEPT !.lease = "expired"]] /\ stalled' = stalled
      BY <2>1 DEF LeaseExpires, Write
    <3>2. review[r] \in ReviewDoc
      BY <1>0
    <3> QED BY <1>0, <3>1, <3>2 DEF ReviewDoc
  <2>2. CASE StallElapses(r)
    BY <2>2 DEF StallElapses
  <2> QED BY <2>1, <2>2
<1>3. StallElapses(r) => review[r].status \notin {"queued", "running"}
  <2> SUFFICES ASSUME StallElapses(r), review[r].status \in {"queued", "running"} PROVE FALSE
    OBVIOUS
  <2>1. Abandoned(r)
    BY DEF StallElapses, Reported, Inject
  <2>2. /\ \A h \in Handler : api[h].review # r
        /\ \A w \in Worker : work[w].review # r
        /\ \A g \in Generation : tasks[r][g].state # "ready"
    BY <2>1 DEF Abandoned, Held, Pending
  <2>3. review[r].generation \in Generation
    BY <1>0 DEF ReviewDoc
  <2> QED BY <1>1, <2>2, <2>3 DEF Carried, Own
<1> SUFFICES ASSUME NEW q \in Review PROVE Custody(q)'
  OBVIOUS
<1>4. Handled(q)'
  BY <1>0, <1>1, <1>2 DEF Handled, Own, Opening
<1>5. Worked(q)'
  BY <1>0, <1>1, <1>2 DEF Worked
<1>6. Carried(q)'
  BY <1>0, <1>1, <1>2, <1>3 DEF Carried, Own
<1>7. Tasked(q)'
  BY <1>0, <1>1, <1>2 DEF Tasked
<1> QED BY <1>4, <1>5, <1>6, <1>7 DEF Custody

LEMMA CustodyStep ==
    ASSUME Reported, QueueOutlasts, TypeInv, IdsInv, CustodyInv, [ProgressNext]_progressVars
    PROVE  CustodyInv'
<1>1. /\ [Next]_vars
      /\ (UNCHANGED vars /\ mishap' = mishap) \/ (Next /\ mishap' = (mishap \/ Mishap))
  BY DEF ProgressNext, progressVars, vars
<1>2. IdleHands'
  BY <1>1, IdleStep DEF CustodyInv
<1> SUFFICES ASSUME ~mishap' PROVE \A q \in Review : Custody(q)'
  BY <1>2 DEF CustodyInv
<1>6. /\ ~mishap
      /\ UNCHANGED vars \/ (Next /\ ~Mishap)
  <2>1. CASE mishap' = mishap /\ UNCHANGED vars
    BY <2>1
  <2>2. CASE Next /\ mishap' = (mishap \/ Mishap)
    BY <2>2, Zenon
  <2> QED BY <1>1, <2>1, <2>2
<1>3. Kept
  BY <1>6 DEF CustodyInv, Kept
<1>4. CASE UNCHANGED vars
  <2>1. \A q \in Review : Elsewhere(q)
    BY <1>4 DEF vars, Elsewhere
  <2> QED BY <1>3, <2>1, ElsewhereKeeps DEF Kept
<1>5. CASE Next /\ ~Mishap
  <2>0. /\ \A h \in Handler : ~HandlerAborts(h)
        /\ \A w \in Worker : ~WorkerAborts(w)
        /\ \A r \in Review, g \in Generation : ~Redeliver(r, g)
    BY <1>5 DEF Mishap
  <2>1. ASSUME NEW h \in Handler, NEW u \in User, NEW c \in Content, NEW r \in Review,
               SubmitLookup(h, u, c, r)
        PROVE \A q \in Review : Custody(q)'
    BY <1>3, <2>1, LookupKeeps
  <2>2. ASSUME NEW h \in Handler, NEW r \in Review, RetryRead(h, r)
        PROVE \A q \in Review : Custody(q)'
    BY <1>3, <2>2, RetryReadKeeps
  <2>3. ASSUME NEW h \in Handler, HandlerStep(h) PROVE \A q \in Review : Custody(q)'
    BY <1>3, <2>3, HandlerKeeps
  <2>4. ASSUME NEW w \in Worker, NEW r \in Review, NEW g \in Generation, Deliver(w, r, g)
        PROVE \A q \in Review : Custody(q)'
    BY <1>3, <2>4, DeliverKeeps
  <2>5. ASSUME NEW w \in Worker, WorkerStep(w) PROVE \A q \in Review : Custody(q)'
    <3>1. work[w].pc # "idle"
      BY <2>5 DEF WorkerStep, Claim, RunEnds, RunDone, RunFailed, RunTransient, PutCache,
                  WorkerEmit, Respond
    <3>2. work[w].review \in Review /\ work[w].generation \in Generation
      BY <1>3, <3>1 DEF Kept, TypeInv, WorkOK, WorkState
    <3>3. PICK r \in Review, g \in Generation : work[w].review = r /\ work[w].generation = g
      BY <3>2
    <3>4. CASE Claim(w)
      BY <1>3, <3>3, <3>4, ClaimKeeps
    <3>5. CASE RunEnds(w)
      BY <1>3, <3>3, <3>5, RunEndsKeeps
    <3>6. CASE PutCache(w) \/ WorkerEmit(w)
      BY <1>3, <3>3, <3>6, BookingKeeps
    <3>7. CASE Respond(w)
      BY <1>3, <3>3, <3>7, RespondKeeps
    <3> QED BY <2>5, <3>4, <3>5, <3>6, <3>7 DEF WorkerStep
  <2>6. ASSUME NEW r \in Review, LeaseExpires(r) \/ StallElapses(r)
        PROVE \A q \in Review : Custody(q)'
    BY <1>3, <2>6, TimeKeeps
  <2> QED BY <1>5, <2>0, <2>1, <2>2, <2>3, <2>4, <2>5, <2>6 DEF Next
<1> QED BY <1>4, <1>5, <1>6

\* Until a process dies or a delivery is repeated, no review is ever found
\* stalled: it passes from its request to its task, to a delivery and back to
\* the task, and somebody has it throughout.  Leases may run out on the way
\* (_enqueue, process, _retry_or_fail).
THEOREM StallsAreProvoked ==
    Reported /\ QueueOutlasts => (ProgressSpec => []NeverStalledUnprovoked)
<1> SUFFICES ASSUME Reported, QueueOutlasts PROVE ProgressSpec => []NeverStalledUnprovoked
  OBVIOUS
<1>1. ProgressSpec => [](TypeInv /\ IdsInv)
  <2>1. ProgressInit => Init
    BY DEF ProgressInit
  <2>2. [ProgressNext]_progressVars => [Next]_vars
    BY DEF ProgressNext, progressVars, vars
  <2> QED BY <2>1, <2>2, IdsHold, PTL DEF ProgressSpec, Spec
<1>2. ProgressInit => CustodyInv
  <2> SUFFICES ASSUME ProgressInit PROVE CustodyInv
    OBVIOUS
  <2>1. /\ \A h \in Handler : api[h].review = None /\ api[h].pc = "idle"
        /\ \A w \in Worker : work[w].review = None /\ work[w].pc = "idle"
        /\ None \notin Review /\ stalled = {}
        /\ \A r \in Review : review[r].status = "absent"
        /\ \A r \in Review, g \in Generation :
              tasks[r][g].state = "none" /\ tasks[r][g].dispatches = 0
    BY ConstantsAssumption DEF ProgressInit, Init, IdleHandler, IdleWorker, NoReview, NoTask
  <2>2. \A r \in Review : Handled(r) /\ Worked(r) /\ Carried(r) /\ Tasked(r)
    BY <2>1 DEF Handled, Worked, Carried, Tasked
  <2> QED BY <2>1, <2>2 DEF CustodyInv, IdleHands, Custody
<1>3. TypeInv /\ IdsInv /\ CustodyInv /\ [ProgressNext]_progressVars => CustodyInv'
  BY CustodyStep
<1>4. CustodyInv => NeverStalledUnprovoked
  BY DEF CustodyInv, Custody, Carried, NeverStalledUnprovoked, IsStalled
<1> QED BY <1>1, <1>2, <1>3, <1>4, PTL DEF ProgressSpec

===============================================================================
