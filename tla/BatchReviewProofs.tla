--------------------------- MODULE BatchReviewProofs ---------------------------
(* What holds of a run of the pipeline for any number of batches, of threads  *)
(* and of attempts, that it implements what the worker counts on, and why it   *)
(* ends.                                                                       *)
EXTENDS BatchReview, FiniteSums

-----------------------------------------------------------------------------
(* Types, and what a task does *)

\* All calls answered for a task that has left the model are in the ledger.
PaidFor(t) ==
    /\ task[t].pc \in {"new", "queued", "calling", "cancelled"} => task[t].answer = "none"
    /\ task[t].pc = "done" => <<t, task[t].tier>> \in ledger
    /\ task[t].pc = "failed" /\ task[t].answer \notin {"none", "refused"} =>
        <<t, task[t].tier>> \in ledger
    /\ task[t].triage # "none" => <<t, "triage">> \in ledger
    /\ task[t].pc = "failed" => task[t].error \in Error

LEMMA TaskNumbers ==
    ASSUME NEW t
    PROVE  /\ Embeds \in Nat /\ Batches \in Nat /\ MaxAttempts \in Nat \ {0}
           /\ t \in Task <=> t \in Nat /\ 1 <= t /\ t <= Embeds + Batches
  BY BatchReviewAssumption DEF Task

\* A step of a task changes nothing of the run but that task, and books at most
\* the call the task has an answer to.
LEMMA TaskMoves ==
    ASSUME TypeOK, NEW t \in Task, TaskStep(t)
    PROVE  /\ UNCHANGED <<mode, stage, awaited, raised, outcome>>
           /\ task[t].pc \in {"queued", "calling", "answered"}
           /\ \E new \in TaskState :
                /\ new.pc \in {"calling", "answered", "done", "failed"}
                /\ task' = [task EXCEPT ![t] = new]
           /\ \/ UNCHANGED ledger
              \/ task[t].pc = "answered" /\ ledger' = ledger \union {<<t, task[t].tier>>}
           /\ PaidFor(t) => PaidFor(t)'
  <1> DEFINE old == task[t]
             Moved == \E new \in TaskState :
                        /\ new.pc \in {"calling", "answered", "done", "failed"}
                        /\ task' = [task EXCEPT ![t] = new]
  <1>1. old \in TaskState /\ task \in [Task -> TaskState]
    BY DEF TypeOK
  <1>2. ASSUME NEW new \in TaskState, task' = [task EXCEPT ![t] = new]
        PROVE  task'[t] = new
    BY <1>1, <1>2
  <1>3. CASE Take(t)
    <2> DEFINE new == [old EXCEPT !.pc = "calling"]
    <2>1. new \in TaskState /\ new.pc = "calling" /\ new.answer = old.answer /\ new.triage = old.triage
      BY <1>1 DEF TaskState
    <2>2. task' = [task EXCEPT ![t] = new]
      BY <1>1, <1>3 DEF Take, MayStart
    <2>3. QED
      BY <1>2, <1>3, <2>1, <2>2 DEF Take, MayStart, PaidFor
  <1>4. CASE Answer(t)
    <2>1. PICK answer \in Answers(old.tier) :
            task' = [task EXCEPT ![t].pc = "answered", ![t].answer = answer]
      BY <1>4 DEF Answer
    <2> DEFINE new == [[old EXCEPT !.pc = "answered"] EXCEPT !.answer = answer]
    <2>2. answer \in {"fine", "serious", "unusable"}
      BY DEF Answers
    <2>3. new \in TaskState /\ new.pc = "answered" /\ new.triage = old.triage
      BY <1>1, <2>2 DEF TaskState
    <2>4. task' = [task EXCEPT ![t] = new]
      BY <1>1, <2>1
    <2>5. QED
      BY <1>2, <1>4, <2>3, <2>4 DEF Answer, PaidFor
  <1>5. ASSUME NEW error \in Error, Failed(t, error)
        PROVE  /\ Moved
               /\ task'[t].pc = "failed" /\ task'[t].error = error
               /\ task'[t].answer = old.answer /\ task'[t].tier = old.tier
               /\ task'[t].triage = old.triage
    <2> DEFINE new == [[old EXCEPT !.pc = "failed"] EXCEPT !.error = error]
    <2>1. /\ new \in TaskState /\ new.pc = "failed" /\ new.error = error
          /\ new.answer = old.answer /\ new.tier = old.tier /\ new.triage = old.triage
      BY <1>1 DEF TaskState
    <2>2. task' = [task EXCEPT ![t] = new]
      BY <1>1, <1>5 DEF Failed
    <2>3. QED BY <1>2, <2>1, <2>2
  <1>6. CASE CallAgain(t)
    <2>1. CASE old.attempt < MaxAttempts
      <3> DEFINE new == [old EXCEPT !.attempt = old.attempt + 1]
      <3>1. new \in TaskState /\ new.pc = old.pc /\ new.answer = old.answer
            /\ new.triage = old.triage
        BY <1>1, <2>1, TaskNumbers DEF TaskState
      <3>2. task' = [task EXCEPT ![t] = new]
        BY <1>1, <1>6, <2>1 DEF CallAgain
      <3>3. QED
        BY <1>2, <1>6, <3>1, <3>2 DEF CallAgain, PaidFor
    <2>2. CASE ~(old.attempt < MaxAttempts)
      <3>1. Failed(t, "transient") /\ "transient" \in Error
        BY <1>6, <2>2 DEF CallAgain, Error
      <3>2. QED
        BY <1>5, <1>6, <3>1 DEF CallAgain, PaidFor
    <2>3. QED BY <2>1, <2>2
  <1>7. CASE CallBreaks(t)
    <2>1. Failed(t, "broken") /\ "broken" \in Error
      BY <1>7 DEF CallBreaks, Error
    <2>2. QED
      BY <1>5, <1>7, <2>1 DEF CallBreaks, PaidFor
  <1>8. CASE Escalate(t)
    <2> DEFINE new == [old EXCEPT !.pc = "calling", !.tier = "escalation", !.attempt = 1,
                                  !.answer = "none", !.triage = old.answer]
    <2>1. old.answer \in {"serious", "unusable"} /\ old.tier = "triage"
      BY <1>8 DEF Escalate, WantsEscalation
    <2>2. 1 \in 1..MaxAttempts
      BY BatchReviewAssumption
    <2>3. new \in TaskState /\ new.pc = "calling" /\ new.answer = "none"
      BY <1>1, <2>1, <2>2 DEF TaskState, Tier
    <2>4. task' = [task EXCEPT ![t] = new]
      BY <1>1, <1>8 DEF Escalate
    <2>5. ledger' = ledger \union {<<t, old.tier>>} /\ <<t, "triage">> \in ledger'
      BY <1>8, <2>1 DEF Escalate, Book
    <2>6. PaidFor(t)'
      BY <1>2, <2>3, <2>4, <2>5 DEF PaidFor
    <2>7. QED
      BY <1>8, <2>3, <2>4, <2>5, <2>6 DEF Escalate
  <1>9. CASE Finish(t)
    <2> DEFINE new == [old EXCEPT !.pc = "done"]
    <2>1. new \in TaskState /\ new.pc = "done" /\ new.tier = old.tier
          /\ new.triage = old.triage
      BY <1>1 DEF TaskState
    <2>2. task' = [task EXCEPT ![t] = new]
      BY <1>1, <1>9 DEF Finish
    <2>3. QED
      BY <1>2, <1>9, <2>1, <2>2 DEF Finish, Book, PaidFor
  <1>10. CASE Discard(t)
    <2>1. PICK error \in Error : Failed(t, error)
      BY <1>10 DEF Discard, Error
    <2>2. QED
      BY <1>5, <1>10, <2>1 DEF Discard, Book, PaidFor
  <1>11. CASE Refuse(t)
    <2> DEFINE new == [old EXCEPT !.pc = "failed", !.answer = "refused", !.error = "broken"]
    <2>1. /\ new \in TaskState /\ new.pc = "failed" /\ new.answer = "refused"
          /\ new.error \in Error /\ new.triage = old.triage
      BY <1>1 DEF TaskState, Error
    <2>2. task' = [task EXCEPT ![t] = new]
      BY <1>1, <1>11 DEF Refuse
    <2>3. QED
      BY <1>2, <1>11, <2>1, <2>2 DEF Refuse, PaidFor
  <1>12. QED
    BY <1>3, <1>4, <1>6, <1>7, <1>8, <1>9, <1>10, <1>11 DEF TaskStep

\* Tasks that have not started are cancelled, whichever failure is awaited.
LEMMA CancelTypes ==
    ASSUME TypeOK, NEW t \in Task, AwaitFailed(t)
    PROVE  /\ t = awaited /\ task[t].pc = "failed"
           /\ task' \in [Task -> TaskState]
           /\ \A u \in Task : IF task[u].pc = "queued"
                              THEN task'[u] = [task[u] EXCEPT !.pc = "cancelled"]
                              ELSE task'[u] = task[u]
           /\ UNCHANGED <<mode, awaited, ledger>>
  <1>1. \A u \in Task : task[u] \in TaskState
    BY DEF TypeOK
  <1>2. \A u \in Task : [task[u] EXCEPT !.pc = "cancelled"] \in TaskState
    BY <1>1 DEF TaskState
  <1>3. QED
    BY <1>1, <1>2 DEF AwaitFailed, Awaits

LEMMA SearchTypes ==
    ASSUME TypeOK, Search
    PROVE  /\ task' \in [Task -> TaskState]
           /\ \A u \in Task : IF IsEmbed(u) THEN task'[u] = task[u]
                              ELSE task'[u] = [task[u] EXCEPT !.pc = "queued"]
  <1>1. \A u \in Task : task[u] \in TaskState
    BY DEF TypeOK
  <1>2. \A u \in Task : [task[u] EXCEPT !.pc = "queued"] \in TaskState
    BY <1>1 DEF TaskState
  <1>3. QED
    BY <1>1, <1>2 DEF Search

LEMMA InitTypes == Init => TypeOK
  <1> SUFFICES ASSUME Init PROVE TypeOK
    OBVIOUS
  <1>1. 1 \in 1..MaxAttempts /\ 1 \in 1..Embeds + Batches + 1
    BY BatchReviewAssumption
  <1>2. ASSUME NEW t \in Task
        PROVE  NewTask(t) \in TaskState
    BY <1>1 DEF Init, NewTask, FirstTier, TaskState, Tier
  <1>3. task \in [Task -> TaskState]
    BY <1>2 DEF Init
  <1>4. QED
    BY <1>1, <1>3 DEF Init, TypeOK

LEMMA StepTypes == TypeOK /\ [Next]_vars => TypeOK'
  <1> SUFFICES ASSUME TypeOK, [Next]_vars PROVE TypeOK'
    OBVIOUS
  <1>1. ASSUME NEW t \in Task, TaskStep(t)
        PROVE  TypeOK'
    <2>1. task[t].tier \in Tier
      BY DEF TypeOK, TaskState
    <2>2. QED
      BY <1>1, <2>1, TaskMoves DEF TypeOK
  <1>2. ASSUME NEW t \in Task, AwaitDone(t)
        PROVE  TypeOK'
    <2>1. t + 1 \in 1..Embeds + Batches + 1
      BY TaskNumbers
    <2>2. QED
      BY <1>2, <2>1 DEF AwaitDone, TypeOK
  <1>3. ASSUME NEW t \in Task, AwaitFailed(t)
        PROVE  TypeOK'
    <2>1. task[t].error \in Error \union {"none"}
      BY DEF TypeOK, TaskState
    <2>2. task' \in [Task -> TaskState] /\ UNCHANGED <<mode, awaited, ledger>>
      BY <1>3, CancelTypes
    <2>3. QED
      BY <1>3, <2>1, <2>2 DEF AwaitFailed, TypeOK
  <1>4. CASE Search
    BY <1>4, SearchTypes DEF Search, TypeOK
  <1>5. CASE SearchFails \/ Close \/ Complete
    BY <1>5 DEF SearchFails, Close, Complete, TypeOK, Error
  <1>6. CASE UNCHANGED vars
    BY <1>6 DEF vars, TypeOK
  <1>7. QED
    BY <1>1, <1>2, <1>3, <1>4, <1>5, <1>6 DEF Next, RunStep

\* Tasks, ledger and outcome always have the shape the code gives them.
THEOREM RunTypes == Spec => []TypeOK
  BY InitTypes, StepTypes, PTL DEF Spec

-----------------------------------------------------------------------------
(* Which failure decides *)

\* What run has awaited is done, and the batches wait for the search.
InOrder ==
    /\ \A t \in Task : t < awaited => task[t].pc = "done"
    /\ stage = "embed" => awaited <= Embeds
    /\ stage = "search" => awaited = Embeds + 1
    /\ stage \in {"embed", "search"} => \A t \in Task : ~IsEmbed(t) => task[t].pc = "new"

\* The task run waits for is the failure that decides.
Decisive(error) ==
    awaited \in Task /\ task[awaited].pc = "failed" /\ task[awaited].error = error

\* What a run that is over, or about to be, has to say for itself.
Decided ==
    /\ stage = "closing" => Decisive(raised) /\ Embeds < awaited
    /\ outcome = "none" <=> stage # "ended"
    /\ outcome = "done" => awaited = Embeds + Batches + 1
    /\ outcome \in Error =>
         Decisive(outcome) \/ \A t \in Task : task[t].pc \in {"done", "new"}

Settled == \A t \in Task : PaidFor(t)

RunInv == TypeOK /\ InOrder /\ Decided /\ Settled

LEMMA InitRun == Init => RunInv
  <1> SUFFICES ASSUME Init PROVE RunInv
    OBVIOUS
  <1>1. \A t \in Task : task[t] = NewTask(t)
    BY DEF Init
  <1>2. InOrder
    BY <1>1, BatchReviewAssumption DEF Init, InOrder, NewTask, Task
  <1>3. Decided /\ Settled
    BY <1>1 DEF Init, Decided, Settled, PaidFor, NewTask, Error
  <1>4. QED BY <1>2, <1>3, InitTypes DEF RunInv

\* A task that is done or failed stays what it is.
LEMMA OverIsOver ==
    ASSUME RunInv, [Next]_vars, NEW t \in Task, task[t].pc \in {"done", "failed"}
    PROVE  task'[t] = task[t]
  <1>1. CASE \E u \in Task : TaskStep(u)
    BY <1>1, TaskMoves DEF RunInv, TypeOK
  <1>2. CASE \E u \in Task : AwaitFailed(u)
    BY <1>2, CancelTypes DEF RunInv
  <1>3. CASE Search
    BY <1>3, SearchTypes DEF RunInv, InOrder, Search
  <1>4. CASE (\E u \in Task : AwaitDone(u)) \/ SearchFails \/ Close \/ Complete \/ UNCHANGED vars
    BY <1>4 DEF AwaitDone, SearchFails, Close, Complete, vars
  <1>5. QED
    BY <1>1, <1>2, <1>3, <1>4 DEF Next, RunStep

LEMMA StepOrder == RunInv /\ [Next]_vars => InOrder'
  <1> SUFFICES ASSUME RunInv, [Next]_vars PROVE InOrder'
    OBVIOUS
  <1> USE DEF IsEmbed
  <1>0. awaited \in Nat /\ Embeds \in Nat /\ \A t \in Task : t \in Nat
    BY TaskNumbers DEF RunInv, TypeOK
  <1>1. ASSUME NEW t \in Task, TaskStep(t)
        PROVE  InOrder'
    <2>1. \A u \in Task : u # t => task'[u] = task[u]
      BY <1>1, TaskMoves DEF RunInv, TypeOK
    <2>2. task[t].pc \notin {"done", "new"}
      BY <1>1, TaskMoves DEF RunInv
    <2>3. UNCHANGED <<stage, awaited>>
      BY <1>1, TaskMoves DEF RunInv
    <2>4. QED
      BY <2>1, <2>2, <2>3 DEF RunInv, InOrder
  <1>2. ASSUME NEW t \in Task, AwaitDone(t)
        PROVE  InOrder'
    <2>1. t = awaited /\ awaited' = t + 1 /\ task[t].pc = "done" /\ UNCHANGED task
      BY <1>2 DEF AwaitDone, Awaits
    <2>2. \A u \in Task : u < awaited' => task'[u].pc = "done"
      BY <1>0, <2>1 DEF RunInv, InOrder
    <2>3. CASE stage = "embed"
      BY <1>0, <1>2, <2>1, <2>2, <2>3 DEF AwaitDone, Awaits, LastOfPool, RunInv, InOrder
    <2>4. CASE stage # "embed"
      BY <1>0, <1>2, <2>1, <2>2, <2>4 DEF AwaitDone, Awaits, RunInv, InOrder
    <2>5. QED BY <2>3, <2>4
  <1>3. ASSUME NEW t \in Task, AwaitFailed(t)
        PROVE  InOrder'
    <2>1. \A u \in Task : task[u].pc # "queued" => task'[u] = task[u]
      BY <1>3, CancelTypes DEF RunInv
    <2>2. UNCHANGED awaited /\ stage' \in {"closing", "ended"}
      BY <1>3 DEF AwaitFailed
    <2>3. QED BY <2>1, <2>2 DEF RunInv, InOrder
  <1>4. CASE Search
    <2>1. \A u \in Task : u < awaited => task'[u] = task[u]
      BY <1>0, <1>4, SearchTypes DEF RunInv, InOrder, Search
    <2>2. QED BY <1>4, <2>1 DEF Search, RunInv, InOrder
  <1>5. CASE SearchFails \/ Close \/ Complete
    BY <1>5 DEF SearchFails, Close, Complete, RunInv, InOrder
  <1>6. CASE UNCHANGED vars
    BY <1>6 DEF vars, RunInv, InOrder
  <1>7. QED
    BY <1>1, <1>2, <1>3, <1>4, <1>5, <1>6 DEF Next, RunStep

LEMMA StepSettled == RunInv /\ [Next]_vars => Settled'
  <1> SUFFICES ASSUME RunInv, [Next]_vars, NEW u \in Task PROVE PaidFor(u)'
    BY DEF Settled
  <1>0. PaidFor(u) /\ task[u] \in TaskState
    BY DEF RunInv, Settled, TypeOK
  <1>1. ASSUME NEW t \in Task, TaskStep(t)
        PROVE  PaidFor(u)'
    <2>1. CASE u = t
      BY <1>0, <1>1, <2>1, TaskMoves DEF RunInv
    <2>2. CASE u # t
      <3>1. task'[u] = task[u] /\ ledger \subseteq ledger'
        BY <1>1, <2>2, TaskMoves DEF RunInv, TypeOK
      <3>2. QED BY <1>0, <3>1 DEF PaidFor
    <2>3. QED BY <2>1, <2>2
  <1>2. ASSUME NEW t \in Task, AwaitFailed(t)
        PROVE  PaidFor(u)'
    <2>1. UNCHANGED ledger /\ \/ task'[u] = task[u]
                              \/ /\ task[u].pc = "queued"
                                 /\ task'[u] = [task[u] EXCEPT !.pc = "cancelled"]
      BY <1>2, CancelTypes DEF RunInv
    <2>2. QED BY <1>0, <2>1 DEF PaidFor, TaskState
  <1>3. CASE Search
    <2>1. \/ task'[u] = task[u]
          \/ task[u].pc = "new" /\ task'[u] = [task[u] EXCEPT !.pc = "queued"]
      BY <1>3, SearchTypes DEF RunInv, InOrder, Search
    <2>2. ledger \subseteq ledger'
      BY <1>3 DEF Search
    <2>3. QED BY <1>0, <2>1, <2>2 DEF PaidFor, TaskState
  <1>4. CASE (\E t \in Task : AwaitDone(t)) \/ SearchFails \/ Close \/ Complete \/ UNCHANGED vars
    <2>1. UNCHANGED <<task, ledger>>
      BY <1>4 DEF AwaitDone, SearchFails, Close, Complete, vars
    <2>2. QED BY <1>0, <2>1 DEF PaidFor
  <1>5. QED
    BY <1>1, <1>2, <1>3, <1>4 DEF Next, RunStep

LEMMA StepDecided == RunInv /\ [Next]_vars => Decided'
  <1> SUFFICES ASSUME RunInv, [Next]_vars PROVE Decided'
    OBVIOUS
  <1>0. awaited \in Nat /\ Embeds \in Nat /\ Batches \in Nat /\ \A t \in Task : t \in Nat
    BY TaskNumbers DEF RunInv, TypeOK
  <1>1. ASSUME NEW error, Decisive(error), UNCHANGED awaited
        PROVE  Decisive(error)'
    BY <1>1, OverIsOver DEF Decisive
  <1>2. CASE (\E t \in Task : TaskStep(t)) \/ UNCHANGED vars
    <2>1. UNCHANGED <<stage, awaited, raised, outcome>>
      BY <1>2, TaskMoves DEF RunInv, vars
    <2>2. ASSUME \A t \in Task : task[t].pc \in {"done", "new"}
          PROVE  UNCHANGED task
      BY <1>2, <2>2, TaskMoves DEF RunInv, vars
    <2>3. QED
      BY <1>1, <2>1, <2>2 DEF RunInv, Decided
  <1>3. ASSUME NEW t \in Task, AwaitDone(t)
        PROVE  Decided'
    <2>1. stage \in {"embed", "review"} /\ stage' \in {"embed", "search", "review"}
      BY <1>3 DEF AwaitDone, Awaits
    <2>2. UNCHANGED outcome /\ outcome = "none"
      BY <1>3, <2>1 DEF AwaitDone, RunInv, Decided
    <2>3. QED BY <2>1, <2>2 DEF Decided, Error
  <1>4. ASSUME NEW t \in Task, AwaitFailed(t)
        PROVE  Decided'
    <2>1. t = awaited /\ task'[t] = task[t] /\ task[t].pc = "failed" /\ awaited' = awaited
      BY <1>4, CancelTypes DEF RunInv
    <2>2. task[t].error \in Error
      BY <2>1 DEF RunInv, Settled, PaidFor
    <2>3. stage \in {"embed", "review"} /\ outcome = "none"
      BY <1>4 DEF AwaitFailed, Awaits, RunInv, Decided
    <2>4. CASE IsEmbed(t)
      BY <1>4, <2>1, <2>2, <2>4 DEF AwaitFailed, Decided, Decisive, Error
    <2>5. CASE ~IsEmbed(t)
      BY <1>0, <1>4, <2>1, <2>2, <2>3, <2>5 DEF AwaitFailed, Decided, Decisive, IsEmbed, Error
    <2>6. QED BY <2>4, <2>5
  <1>5. CASE Search
    BY <1>5 DEF Search, RunInv, Decided, Error
  <1>6. CASE SearchFails
    <2>1. \A t \in Task : task[t].pc \in {"done", "new"}
      BY <1>0, <1>6 DEF SearchFails, RunInv, InOrder, IsEmbed
    <2>2. QED BY <1>6, <2>1 DEF SearchFails, Decided
  <1>7. CASE Close
    <2>1. Decisive(raised) /\ raised \in Error
      BY <1>7 DEF Close, RunInv, Decided, Decisive, Settled, PaidFor
    <2>2. Decisive(raised)'
      BY <1>7, <2>1 DEF Close, Decisive
    <2>3. QED BY <1>7, <2>1, <2>2 DEF Close, Decided, Error, Decisive
  <1>8. CASE Complete
    BY <1>8 DEF Complete, Decided, Error
  <1>9. QED
    BY <1>2, <1>3, <1>4, <1>5, <1>6, <1>7, <1>8 DEF Next, RunStep

LEMMA RunInvHolds == Spec => []RunInv
  <1>1. RunInv /\ [Next]_vars => RunInv'
    BY StepTypes, StepOrder, StepSettled, StepDecided DEF RunInv
  <1>2. QED
    BY <1>1, InitRun, PTL DEF Spec

\* However the tasks of a run overtake one another, a failed run raises the
\* error of its first failed task in the order of the file, and a run that is
\* done has all of them (run, Executor.map).
THEOREM FirstFailureAlwaysDecides == Spec => []FirstFailureDecides
  <1>1. RunInv => FirstFailureDecides
    <2> SUFFICES ASSUME RunInv PROVE FirstFailureDecides
      OBVIOUS
    <2>1. ASSUME outcome = "done"
          PROVE  \A t \in Task : task[t].pc = "done"
      <3>1. \A t \in Task : t < awaited
        BY <2>1, TaskNumbers DEF RunInv, Decided
      <3>2. QED BY <3>1 DEF RunInv, InOrder
    <2>2. ASSUME outcome \in Error, NEW u \in Task, task[u].pc = "failed"
          PROVE  Decisive(outcome)
      BY <2>2 DEF RunInv, Decided
    <2>3. QED
      BY <2>1, <2>2 DEF FirstFailureDecides, Decisive, RunInv, InOrder
  <1>2. QED
    BY <1>1, RunInvHolds, PTL

-----------------------------------------------------------------------------
(* When the books are closed *)

\* No batch starts when a run is closing, and none is at work when it is over.
Shut ==
    \A t \in Task : ~IsEmbed(t) =>
        /\ stage \in {"closing", "ended"} => task[t].pc # "queued"
        /\ stage = "ended" => ~Running(t)

\* With one batch of embeddings there is none left when run goes on, or gives up.
OneEmbedding == Embeds <= 1

EmbedsOver ==
    OneEmbedding =>
        \A t \in Task : IsEmbed(t) /\ stage # "embed" => task[t].pc \in {"done", "failed"}

ClosedInv == Shut /\ EmbedsOver

LEMMA InitClosed == Init => ClosedInv
  BY BatchReviewAssumption DEF Init, ClosedInv, Shut, EmbedsOver, IsEmbed, Task

LEMMA StepClosed == RunInv /\ ClosedInv /\ [Next]_vars => ClosedInv'
  <1> SUFFICES ASSUME RunInv, ClosedInv, [Next]_vars PROVE ClosedInv'
    OBVIOUS
  <1>0. /\ awaited \in Nat /\ Embeds \in Nat /\ Batches \in Nat
        /\ \A t \in Task : t \in Nat /\ 1 <= t /\ t <= Embeds + Batches
    BY TaskNumbers DEF RunInv, TypeOK
  <1>1. ASSUME NEW t \in Task, TaskStep(t)
        PROVE  ClosedInv'
    <2>1. /\ \A u \in Task : u # t => task'[u] = task[u]
          /\ task[t].pc \in {"queued", "calling", "answered"}
          /\ UNCHANGED stage
      BY <1>1, TaskMoves DEF RunInv, TypeOK
    <2>2. task'[t].pc # "queued"
      BY <1>1, TaskMoves DEF RunInv, TypeOK
    <2>3. Shut'
      BY <2>1, <2>2 DEF ClosedInv, Shut, IsEmbed, Running
    <2>4. EmbedsOver'
      BY <2>1 DEF ClosedInv, EmbedsOver, IsEmbed
    <2>5. QED BY <2>3, <2>4 DEF ClosedInv
  <1>2. ASSUME NEW t \in Task, AwaitDone(t)
        PROVE  ClosedInv'
    <2>1. /\ t = awaited /\ task[t].pc = "done" /\ UNCHANGED task
          /\ stage \in {"embed", "review"} /\ stage' \in {"embed", "search", "review"}
          /\ stage # "embed" => stage' = stage
          /\ stage' # "embed" /\ stage = "embed" => t = Embeds
      BY <1>2 DEF AwaitDone, Awaits, LastOfPool
    <2>2. ASSUME NEW u \in Task, IsEmbed(u), stage' # "embed", stage = "embed"
          PROVE  task[u].pc = "done"
      <3>1. awaited = Embeds /\ u <= Embeds
        BY <2>1, <2>2 DEF IsEmbed
      <3>2. u < awaited \/ u = t
        BY <1>0, <2>1, <3>1
      <3>3. QED BY <2>1, <3>2 DEF RunInv, InOrder
    <2>3. EmbedsOver'
      BY <2>1, <2>2 DEF ClosedInv, EmbedsOver, IsEmbed
    <2>4. QED BY <2>1, <2>3 DEF ClosedInv, Shut
  <1>3. ASSUME NEW t \in Task, AwaitFailed(t)
        PROVE  ClosedInv'
    <2>1. /\ task[t].pc = "failed" /\ stage = (IF IsEmbed(t) THEN "embed" ELSE "review")
          /\ stage' = IF IsEmbed(t) THEN "ended" ELSE "closing"
      BY <1>3 DEF AwaitFailed, Awaits
    <2>2. ASSUME NEW u \in Task
          PROVE  /\ task'[u].pc # "queued"
                 /\ task[u].pc # "queued" => task'[u] = task[u]
      <3>1. task'[u] = IF task[u].pc = "queued"
                       THEN [task[u] EXCEPT !.pc = "cancelled"] ELSE task[u]
        BY <1>3, CancelTypes DEF RunInv
      <3>2. task[u] \in TaskState
        BY DEF RunInv, TypeOK
      <3>3. [task[u] EXCEPT !.pc = "cancelled"].pc = "cancelled"
        BY <3>2 DEF TaskState
      <3>4. QED BY <3>1, <3>3
    <2>3. Shut'
      <3>1. ASSUME NEW u \in Task, ~IsEmbed(u), stage' = "ended"
            PROVE  task[u].pc = "new"
        BY <2>1, <3>1 DEF RunInv, InOrder
      <3>2. QED BY <2>2, <3>1 DEF Shut, IsEmbed, Running
    <2>4. EmbedsOver'
      <3>1. ASSUME OneEmbedding, IsEmbed(t), NEW u \in Task, IsEmbed(u)
            PROVE  u = t
        BY <1>0, <3>1 DEF OneEmbedding, IsEmbed
      <3>2. QED BY <2>1, <2>2, <3>1 DEF ClosedInv, EmbedsOver, IsEmbed
    <2>5. QED BY <2>3, <2>4 DEF ClosedInv
  <1>4. CASE Search
    <2>1. \A u \in Task : IsEmbed(u) => task'[u] = task[u]
      BY <1>4, SearchTypes DEF RunInv
    <2>2. QED
      BY <1>4, <2>1 DEF Search, ClosedInv, Shut, EmbedsOver, IsEmbed
  <1>5. CASE SearchFails
    BY <1>5 DEF SearchFails, RunInv, InOrder, ClosedInv, Shut, EmbedsOver, IsEmbed, Running
  <1>6. CASE Close
    BY <1>6 DEF Close, ClosedInv, Shut, EmbedsOver, IsEmbed, Running
  <1>7. CASE Complete
    <2>1. \A u \in Task : u < awaited /\ UNCHANGED task
      BY <1>0, <1>7 DEF Complete
    <2>2. QED
      BY <1>7, <2>1 DEF Complete, RunInv, InOrder, ClosedInv, Shut, EmbedsOver, IsEmbed, Running
  <1>8. CASE UNCHANGED vars
    BY <1>8 DEF vars, ClosedInv, Shut, EmbedsOver, IsEmbed, Running
  <1>9. QED
    BY <1>1, <1>2, <1>3, <1>4, <1>5, <1>6, <1>7, <1>8 DEF Next, RunStep

LEMMA ClosedHolds == Spec => [](RunInv /\ ClosedInv)
  BY InitClosed, StepClosed, RunInvHolds, PTL DEF Spec

\* A task that can still act after the end is one of the embeddings.
LEMMA LateTasks ==
    ASSUME RunInv, ClosedInv, outcome # "none", NEW t \in Task, TaskStep(t)
    PROVE  t \in 1..Embeds /\ ~OneEmbedding
  <1>1. stage = "ended"
    BY DEF RunInv, Decided
  <1>2. task[t].pc \in {"queued", "calling", "answered"}
    BY TaskMoves DEF RunInv
  <1>3. IsEmbed(t)
    BY <1>1, <1>2 DEF ClosedInv, Shut, Running
  <1>4. QED
    BY <1>1, <1>2, <1>3, TaskNumbers DEF ClosedInv, EmbedsOver, IsEmbed

\* What a step books after the end.
LEMMA LateBookings ==
    ASSUME RunInv, ClosedInv, [Next]_vars, outcome # "none"
    PROVE  /\ \A call \in ledger' \ ledger : call[1] \in 1..Embeds
           /\ OneEmbedding => ledger' = ledger
           /\ outcome' = outcome
  <1>1. stage = "ended"
    BY DEF RunInv, Decided
  <1>2. ASSUME NEW t \in Task, TaskStep(t)
        PROVE  /\ \A call \in ledger' \ ledger : call[1] \in 1..Embeds
               /\ ~OneEmbedding /\ outcome' = outcome
    BY <1>2, LateTasks, TaskMoves DEF RunInv
  <1>3. CASE RunStep
    BY <1>1, <1>3 DEF RunStep, AwaitDone, AwaitFailed, Awaits, Search, SearchFails, Close,
       Complete
  <1>4. CASE UNCHANGED vars
    BY <1>4 DEF vars
  <1>5. QED
    BY <1>2, <1>3, <1>4 DEF Next

\* Whatever is recorded after a run has ended is a call for embeddings, of
\* which more than one batch was under way: all calls for the batches of the
\* file are in the cost of the review (the shut-down of the pool in run).
THEOREM OnlyEmbeddingsAreLate ==
    Spec => [][outcome # "none" => \A call \in ledger' \ ledger : call[1] \in 1..Embeds]_vars
  <1>1. RunInv /\ ClosedInv /\ [Next]_vars =>
          [outcome # "none" => \A call \in ledger' \ ledger : call[1] \in 1..Embeds]_vars
    BY LateBookings
  <1>2. QED
    BY <1>1, ClosedHolds, PTL DEF Spec

\* With one batch of embeddings the cost of a run is known when it ends.
THEOREM CostIsFinalAfterOne == OneEmbedding => (Spec => CostIsFinal)
  <1> SUFFICES ASSUME OneEmbedding PROVE Spec => CostIsFinal
    OBVIOUS
  <1>1. RunInv /\ ClosedInv /\ [Next]_vars => [outcome # "none" => ledger' = ledger]_vars
    BY LateBookings
  <1>2. QED
    BY <1>1, ClosedHolds, PTL DEF Spec, CostIsFinal

\* A run that is over, in whatever way, has recorded every call that was
\* answered in either tier, usable or not, but for an answer that was refused and
\* for batches of embeddings that a failed run has left at work (classify, embed).
THEOREM AnsweredIsAlwaysBooked == Spec => []AnsweredIsBooked
  <1>1. RunInv /\ ClosedInv => AnsweredIsBooked
    <2> SUFFICES ASSUME RunInv, ClosedInv, outcome # "none", NEW t \in Task,
                        outcome = "done" \/ ~LeftBehind(t)
                 PROVE  /\ task[t].answer \notin {"none", "refused"} =>
                            <<t, task[t].tier>> \in ledger
                        /\ task[t].triage # "none" => <<t, "triage">> \in ledger
      BY DEF AnsweredIsBooked
    <2>1. stage = "ended"
      BY DEF RunInv, Decided
    <2>2. task[t].pc # "answered"
      <3>1. CASE outcome = "done"
        <4>1. t < awaited
          BY <3>1, TaskNumbers DEF RunInv, Decided
        <4>2. QED BY <4>1 DEF RunInv, InOrder
      <3>2. CASE ~LeftBehind(t)
        BY <2>1, <3>2, BatchReviewAssumption
           DEF ClosedInv, Shut, EmbedsOver, Running, LeftBehind, OneEmbedding
      <3>3. QED BY <3>1, <3>2
    <2>3. task[t] \in TaskState /\ PaidFor(t)
      BY DEF RunInv, TypeOK, Settled
    <2>4. QED
      BY <2>2, <2>3 DEF PaidFor, TaskState
  <1>2. QED
    BY <1>1, ClosedHolds, PTL

-----------------------------------------------------------------------------
(* The run implements what the worker counts on *)

LEMMA RunStarts == Init => Run!RunInit
  BY DEF Init, Run!RunInit

\* What is paid after the end is a call that a failed run has left behind.
LEMMA LatePayments ==
    ASSUME RunInv, ClosedInv, [Next]_vars, outcome # "none"
    PROVE  Run!Pay \/ UNCHANGED <<ledger, outcome>>
  <1>1. stage = "ended"
    BY DEF RunInv, Decided
  <1>2. ASSUME NEW t \in Task, TaskStep(t)
        PROVE  Run!Pay \/ UNCHANGED <<ledger, outcome>>
    <2>1. /\ task[t].tier \in Tier
          /\ ledger' \in {ledger, ledger \union {<<t, task[t].tier>>}}
          /\ outcome' = outcome
      BY <1>2, TaskMoves DEF RunInv, TypeOK, TaskState
    <2>2. LeftBehind(t)
      BY <1>2, LateTasks, TaskNumbers, BatchReviewAssumption
         DEF LeftBehind, IsEmbed, OneEmbedding
    <2>3. outcome # "done"
      <3>1. ASSUME outcome = "done"
            PROVE  task[t].pc = "done"
        <4>1. t < awaited
          BY <3>1, TaskNumbers DEF RunInv, Decided
        <4>2. QED BY <4>1 DEF RunInv, InOrder
      <3>2. task[t].pc \in {"queued", "calling", "answered"}
        BY <1>2, TaskMoves DEF RunInv
      <3>3. QED BY <3>1, <3>2
    <2> DEFINE call == <<t, task[t].tier>>
    <2>4. /\ call \in {u \in Task : LeftBehind(u)} \X Tier
          /\ call \in (Task \X Tier) \union {<<0, "vector_search">>}
      BY <2>1, <2>2
    <2> HIDE DEF call
    <2>5. CASE ledger' = ledger \union {call} /\ call \notin ledger
      BY <2>1, <2>3, <2>4, <2>5 DEF Run!Pay
    <2>6. CASE ledger' = ledger \union {call} /\ call \in ledger
      BY <2>1, <2>6
    <2>7. QED BY <2>1, <2>5, <2>6 DEF call
  <1>3. CASE RunStep
    BY <1>1, <1>3 DEF RunStep, AwaitDone, AwaitFailed, Awaits, Search, SearchFails, Close,
       Complete
  <1>4. CASE UNCHANGED vars
    BY <1>4 DEF vars
  <1>5. QED
    BY <1>2, <1>3, <1>4 DEF Next

LEMMA RunProceeds ==
    ASSUME RunInv, ClosedInv, [Next]_vars
    PROVE  [Run!Pay \/ Run!End]_(Run!runVars)
  <1> DEFINE Call == (Task \X Tier) \union {<<0, "vector_search">>}
  <1>1. CASE outcome # "none"
    BY <1>1, LatePayments DEF Run!runVars
  <1>2. ASSUME outcome = "none", NEW call \in Call, ledger' = ledger \union {call},
               UNCHANGED outcome
        PROVE  Run!Pay \/ UNCHANGED <<ledger, outcome>>
    <2>1. CASE call \in ledger
      BY <1>2, <2>1
    <2>2. CASE call \notin ledger
      BY <1>2, <2>2 DEF Run!Pay
    <2>3. QED BY <2>1, <2>2
  <1>3. ASSUME NEW t \in Task, TaskStep(t), outcome = "none"
        PROVE  Run!Pay \/ UNCHANGED <<ledger, outcome>>
    <2>1. task[t].tier \in Tier
      BY DEF RunInv, TypeOK, TaskState
    <2>2. QED
      BY <1>2, <1>3, <2>1, TaskMoves DEF RunInv
  <1>4. ASSUME Search, outcome = "none"
        PROVE  Run!Pay \/ UNCHANGED <<ledger, outcome>>
    <2>1. <<0, "vector_search">> \in Call
      OBVIOUS
    <2>2. CASE ledger' = ledger
      BY <1>4, <2>2 DEF Search
    <2>3. CASE ledger' = ledger \union {<<0, "vector_search">>}
      BY <1>2, <1>4, <2>1, <2>3 DEF Search
    <2>4. QED BY <1>4, <2>2, <2>3 DEF Search
  <1>5. ASSUME outcome = "none", outcome' \in Error, UNCHANGED ledger
        PROVE  Run!End
    BY <1>5 DEF Run!End, Run!Outcomes, Error
  <1>6. ASSUME NEW t \in Task, AwaitFailed(t), outcome = "none"
        PROVE  Run!End \/ UNCHANGED <<ledger, outcome>>
    <2>1. task[t].error \in Error
      BY <1>6 DEF AwaitFailed, RunInv, Settled, PaidFor
    <2>2. QED BY <1>5, <1>6, <2>1 DEF AwaitFailed
  <1>7. CASE (SearchFails \/ Close) /\ outcome = "none"
    <2>1. CASE SearchFails
      BY <1>5, <1>7, <2>1 DEF SearchFails, Error
    <2>2. CASE Close
      BY <1>5, <1>7, <2>2 DEF Close, RunInv, Decided, Decisive, Settled, PaidFor
    <2>3. QED BY <1>7, <2>1, <2>2
  <1>8. CASE Complete
    <2>1. ASSUME NEW t \in Task
          PROVE  <<t, task[t].tier>> \in ledger
      <3>1. t < awaited
        BY <1>8, TaskNumbers DEF Complete
      <3>2. QED BY <3>1 DEF RunInv, InOrder, Settled, PaidFor
    <2>2. \A t \in Task : \E call \in ledger : ReviewsPart(call, t)
      BY <2>1 DEF ReviewsPart
    <2>3. outcome = "none"
      BY <1>8 DEF Complete, RunInv, Decided
    <2>4. QED
      BY <1>8, <2>2, <2>3 DEF Complete, Run!End, Run!Outcomes
  <1>9. CASE (\E t \in Task : AwaitDone(t)) \/ UNCHANGED vars
    BY <1>9 DEF AwaitDone, vars, Run!runVars
  <1>10. QED
    BY <1>1, <1>3, <1>4, <1>6, <1>7, <1>8, <1>9 DEF Next, RunStep, Run!runVars

\* A run does what the worker counts on: it has one outcome, is done only if
\* every batch of the file was reviewed and paid for, and pays nothing once it
\* has its outcome, unless it failed with several batches of embeddings at work
\* (worker/jobs.py, run).
THEOREM RunImplementsPromise == Spec => RunsAsPromised
  <1>1. RunInv /\ ClosedInv /\ [Next]_vars => [Run!Pay \/ Run!End]_(Run!runVars)
    BY RunProceeds
  <1>2. QED
    BY <1>1, RunStarts, ClosedHolds, PTL DEF Spec, RunsAsPromised, Run!RunSpec

-----------------------------------------------------------------------------
(* Why a run ends *)

\* The steps a task has before it at most: a call takes the attempts it has left,
\* its answer and its booking, and triage may be followed by an escalation.
CallSteps == MaxAttempts + 2

TaskSteps(t) ==
    LET own == CASE task[t].pc = "new" -> CallSteps + 1
                 [] task[t].pc = "queued" -> CallSteps
                 [] task[t].pc = "calling" -> CallSteps - task[t].attempt
                 [] task[t].pc = "answered" -> 1
                 [] OTHER -> 0
    IN  IF own > 0 /\ task[t].tier = "triage" THEN own + CallSteps ELSE own

TaskStepsLeft == [t \in Task |-> TaskSteps(t)]

RunStepsLeft ==
    Embeds + Batches + 1 - awaited
        + [embed |-> 4, search |-> 3, review |-> 2, closing |-> 1, ended |-> 0][stage]

StepsLeft == MapThenSumSet(LAMBDA t : TaskStepsLeft[t], Task) + RunStepsLeft

\* Retries, escalations and shut-downs cannot go round in circles: whatever the
\* models answer, and also what is left at work after the end, each step takes one
\* of a number of steps that is known from the start (_with_retries, _review_batch).
WorkRunsOut == [][StepsLeft' < StepsLeft]_vars

LEMMA TaskStepsNat ==
    ASSUME TypeOK, NEW t \in Task
    PROVE  TaskSteps(t) \in Nat /\ task[t].attempt \in 1..MaxAttempts
  <1>1. task[t].attempt \in 1..MaxAttempts /\ MaxAttempts \in Nat
    BY BatchReviewAssumption DEF TypeOK, TaskState
  <1>2. CallSteps \in Nat /\ CallSteps - task[t].attempt \in Nat
    BY <1>1 DEF CallSteps
  <1>3. QED
    BY <1>1, <1>2 DEF TaskSteps

\* A step of a task takes one of the steps it has before it.
LEMMA TaskStepsFall ==
    ASSUME TypeOK, NEW t \in Task, TaskStep(t)
    PROVE  TaskSteps(t)' < TaskSteps(t)
  <1> DEFINE old == task[t]
  <1>0. old \in TaskState /\ task \in [Task -> TaskState] /\ t \in DOMAIN task
    BY DEF TypeOK
  <1>1. MaxAttempts \in Nat /\ 1 <= MaxAttempts
    BY BatchReviewAssumption
  <1>2. old.attempt \in Nat /\ 1 <= old.attempt /\ old.attempt <= MaxAttempts
    BY <1>0, <1>1 DEF TaskState
  <1>3. CallSteps \in Nat /\ CallSteps = MaxAttempts + 2 /\ CallSteps' = CallSteps
    BY <1>1 DEF CallSteps
  <1>4. CASE Take(t)
    <2>1. task'[t] = [old EXCEPT !.pc = "calling"] /\ old.pc = "queued"
      BY <1>0, <1>4 DEF Take, MayStart
    <2>2. task'[t].pc = "calling" /\ task'[t].tier = old.tier /\ task'[t].attempt = old.attempt
      BY <1>0, <2>1 DEF TaskState
    <2>3. QED BY <1>2, <1>3, <2>1, <2>2 DEF TaskSteps
  <1>5. CASE Answer(t)
    <2>1. PICK answer \in Answers(old.tier) :
            task' = [task EXCEPT ![t].pc = "answered", ![t].answer = answer]
      BY <1>5 DEF Answer
    <2>2. task'[t] = [[old EXCEPT !.pc = "answered"] EXCEPT !.answer = answer]
      BY <1>0, <2>1
    <2>3. task'[t].pc = "answered" /\ task'[t].tier = old.tier
      BY <1>0, <2>2 DEF TaskState
    <2>4. old.pc = "calling"
      BY <1>5 DEF Answer
    <2>5. TaskSteps(t)' = IF old.tier = "triage" THEN 1 + CallSteps ELSE 1
      BY <1>3, <2>3 DEF TaskSteps
    <2>6. TaskSteps(t) = (CallSteps - old.attempt)
                            + (IF old.tier = "triage" THEN CallSteps ELSE 0)
      BY <1>1, <1>2, <1>3, <2>4 DEF TaskSteps
    <2>7. QED BY <1>1, <1>2, <1>3, <2>5, <2>6
  <1>6. ASSUME NEW error, Failed(t, error), old.pc \in {"calling", "answered"}
        PROVE  TaskSteps(t)' < TaskSteps(t)
    <2>1. task'[t] = [[old EXCEPT !.pc = "failed"] EXCEPT !.error = error]
      BY <1>0, <1>6 DEF Failed
    <2>2. task'[t].pc = "failed"
      BY <1>0, <2>1 DEF TaskState
    <2>3. TaskSteps(t)' = 0
      BY <2>2 DEF TaskSteps
    <2>4. TaskSteps(t) > 0
      BY <1>1, <1>2, <1>3, <1>6 DEF TaskSteps
    <2>5. QED BY <2>3, <2>4
  <1>7. CASE CallAgain(t)
    <2>1. old.pc = "calling"
      BY <1>7 DEF CallAgain
    <2>2. CASE old.attempt < MaxAttempts
      <3>1. task'[t] = [old EXCEPT !.attempt = old.attempt + 1]
        BY <1>0, <1>7, <2>2 DEF CallAgain
      <3>2. /\ task'[t].pc = "calling" /\ task'[t].tier = old.tier
            /\ task'[t].attempt = old.attempt + 1
        BY <1>0, <2>1, <3>1 DEF TaskState
      <3>3. QED BY <1>1, <1>2, <1>3, <2>1, <2>2, <3>2 DEF TaskSteps
    <2>3. CASE ~(old.attempt < MaxAttempts)
      BY <1>6, <1>7, <2>1, <2>3 DEF CallAgain
    <2>4. QED BY <2>2, <2>3
  <1>8. CASE CallBreaks(t) \/ Refuse(t)
    <2>1. CASE CallBreaks(t)
      BY <1>6, <2>1 DEF CallBreaks
    <2>2. CASE Refuse(t)
      <3>1. task'[t].pc = "failed" /\ old.pc = "calling"
        BY <1>0, <2>2 DEF Refuse, TaskState
      <3>2. TaskSteps(t)' = 0 /\ TaskSteps(t) > 0
        BY <1>1, <1>2, <1>3, <3>1 DEF TaskSteps
      <3> QED BY <3>2
    <2> QED BY <1>8, <2>1, <2>2
  <1>9. CASE Escalate(t)
    <2>1. task'[t] = [old EXCEPT !.pc = "calling", !.tier = "escalation", !.attempt = 1,
                                 !.answer = "none", !.triage = old.answer]
      BY <1>0, <1>9 DEF Escalate
    <2>2. task'[t].pc = "calling" /\ task'[t].tier = "escalation" /\ task'[t].attempt = 1
      BY <1>0, <2>1 DEF TaskState
    <2>3. old.pc = "answered" /\ old.tier = "triage"
      BY <1>9 DEF Escalate, WantsEscalation
    <2>4. QED BY <1>1, <1>3, <2>2, <2>3 DEF TaskSteps
  <1>10. CASE Finish(t)
    <2>1. task'[t] = [old EXCEPT !.pc = "done"] /\ old.pc = "answered"
      BY <1>0, <1>10 DEF Finish
    <2>2. task'[t].pc = "done"
      BY <1>0, <2>1 DEF TaskState
    <2>3. QED BY <1>3, <2>1, <2>2 DEF TaskSteps
  <1>11. CASE Discard(t)
    BY <1>6, <1>11 DEF Discard
  <1>12. QED
    BY <1>4, <1>5, <1>7, <1>8, <1>9, <1>10, <1>11 DEF TaskStep

\* A step of the run gives no task more to do than it had.
LEMMA TaskStepsStay ==
    ASSUME RunInv, RunStep, NEW t \in Task
    PROVE  TaskSteps(t)' <= TaskSteps(t)
  <1>0. MaxAttempts \in Nat /\ CallSteps \in Nat /\ CallSteps' = CallSteps /\ TypeOK
        /\ task[t] \in TaskState
    BY BatchReviewAssumption DEF CallSteps, RunInv, TypeOK
  <1>1. ASSUME task'[t] = task[t]
        PROVE  TaskSteps(t)' <= TaskSteps(t)
    <2>1. TaskSteps(t)' = TaskSteps(t)
      BY <1>0, <1>1 DEF TaskSteps
    <2>2. QED BY <1>0, <2>1, TaskStepsNat
  <1>2. CASE \E u \in Task : AwaitFailed(u)
    <2>1. CASE task[t].pc = "queued"
      <3>1. task'[t].pc = "cancelled"
        BY <1>0, <1>2, <2>1, CancelTypes DEF TaskState
      <3>2. TaskSteps(t)' = 0 /\ TaskSteps(t) \in Nat
        BY <1>0, <3>1, TaskStepsNat DEF TaskSteps
      <3>3. QED BY <3>2
    <2>2. CASE task[t].pc # "queued"
      BY <1>0, <1>1, <1>2, <2>2, CancelTypes
    <2>3. QED BY <2>1, <2>2
  <1>3. CASE Search
    <2>1. CASE IsEmbed(t)
      BY <1>0, <1>1, <1>3, <2>1, SearchTypes
    <2>2. CASE ~IsEmbed(t)
      <3>1. task'[t] = [task[t] EXCEPT !.pc = "queued"]
        BY <1>0, <1>3, <2>2, SearchTypes
      <3>2. task'[t].pc = "queued" /\ task'[t].tier = task[t].tier
        BY <1>0, <3>1 DEF TaskState
      <3>3. task[t].pc = "new"
        BY <1>3, <2>2 DEF RunInv, InOrder, Search
      <3>4. QED BY <1>0, <3>2, <3>3 DEF TaskSteps, CallSteps
    <2>3. QED BY <2>1, <2>2
  <1>4. CASE (\E u \in Task : AwaitDone(u)) \/ SearchFails \/ Close \/ Complete
    BY <1>1, <1>4 DEF AwaitDone, SearchFails, Close, Complete
  <1>5. QED
    BY <1>2, <1>3, <1>4 DEF RunStep

LEMMA RunStepsNat ==
    ASSUME TypeOK
    PROVE  RunStepsLeft \in Nat
  <1>1. awaited \in Nat /\ Embeds + Batches + 1 - awaited \in Nat
    BY BatchReviewAssumption DEF TypeOK
  <1>2. stage \in {"embed", "search", "review", "closing", "ended"}
    BY DEF TypeOK
  <1>3. QED BY <1>1, <1>2 DEF RunStepsLeft

\* A step of the run takes one of the steps it has before it itself.
LEMMA RunStepsFall ==
    ASSUME RunInv, RunStep
    PROVE  RunStepsLeft' < RunStepsLeft
  <1>0. /\ awaited \in Nat /\ Embeds \in Nat /\ Batches \in Nat
        /\ stage \in {"embed", "search", "review", "closing", "ended"}
    BY BatchReviewAssumption DEF RunInv, TypeOK
  <1>1. CASE \E t \in Task : AwaitDone(t)
    <2>1. /\ awaited' = awaited + 1
          /\ stage' = stage \/ (stage = "embed" /\ stage' = "search")
      BY <1>1 DEF AwaitDone, Awaits
    <2>2. QED BY <1>0, <2>1 DEF RunStepsLeft
  <1>2. CASE \E t \in Task : AwaitFailed(t)
    <2>1. /\ awaited' = awaited
          /\ \/ stage = "embed" /\ stage' = "ended"
             \/ stage = "review" /\ stage' = "closing"
      BY <1>2 DEF AwaitFailed, Awaits
    <2>2. QED BY <1>0, <2>1 DEF RunStepsLeft
  <1>3. CASE Search
    BY <1>0, <1>3 DEF Search, RunStepsLeft
  <1>4. CASE SearchFails
    BY <1>0, <1>4 DEF SearchFails, RunStepsLeft
  <1>5. CASE Close
    BY <1>0, <1>5 DEF Close, RunStepsLeft
  <1>6. CASE Complete
    BY <1>0, <1>6 DEF Complete, RunStepsLeft
  <1>7. QED
    BY <1>1, <1>2, <1>3, <1>4, <1>5, <1>6 DEF RunStep

LEMMA StepsAreFinite == Task = 1..Embeds + Batches /\ IsFiniteSet(Task)
  <1>1. Embeds + Batches \in Nat
    BY BatchReviewAssumption
  <1>2. QED
    BY <1>1, FS_Interval DEF Task

StepsLeftNat ==
    /\ RunStepsLeft \in Nat
    /\ \A t \in Task : TaskSteps(t) \in Nat
    /\ StepsLeft = SumOf(TaskStepsLeft, Task) + RunStepsLeft

LEMMA StepsLeftIs ==
    ASSUME TypeOK
    PROVE  /\ \A t \in Task : TaskStepsLeft[t] = TaskSteps(t) /\ TaskStepsLeft[t] \in Nat
           /\ SumOf(TaskStepsLeft, Task) \in Nat
           /\ StepsLeft = SumOf(TaskStepsLeft, Task) + RunStepsLeft
           /\ StepsLeft \in Nat
  <1>1. \A t \in Task : TaskStepsLeft[t] = TaskSteps(t) /\ TaskStepsLeft[t] \in Nat
    BY TaskStepsNat DEF TaskStepsLeft
  <1>2. SumOf(TaskStepsLeft, Task) \in Nat
    BY <1>1, StepsAreFinite, SumIsNatural
  <1>3. StepsLeft = SumOf(TaskStepsLeft, Task) + RunStepsLeft
    BY DEF StepsLeft, SumOf
  <1>4. QED BY <1>1, <1>2, <1>3, RunStepsNat

LEMMA StepsLeftType == TypeOK => StepsLeftNat
  BY StepsLeftIs, RunStepsNat, TaskStepsNat DEF StepsLeftNat

LEMMA StepsLeftNext == TypeOK' => StepsLeftNat'
  BY StepsLeftType, PTL

LEMMA StepsFall ==
    ASSUME RunInv, TypeOK', Next
    PROVE  StepsLeft' < StepsLeft
  <1>0. TypeOK
    BY DEF RunInv
  <1> DEFINE f == TaskStepsLeft
             g == [t \in Task |-> TaskSteps(t)']
  <1>1. /\ \A t \in Task : f[t] = TaskSteps(t) /\ f[t] \in Nat
        /\ SumOf(f, Task) \in Nat
        /\ StepsLeft = SumOf(f, Task) + RunStepsLeft /\ RunStepsLeft \in Nat
    BY <1>0, StepsLeftIs, RunStepsNat
  <1>2. /\ \A t \in Task : TaskSteps(t)' \in Nat
        /\ StepsLeft' = SumOf(TaskStepsLeft, Task)' + RunStepsLeft' /\ RunStepsLeft' \in Nat
    BY StepsLeftNext DEF StepsLeftNat
  <1>3. SumOf(TaskStepsLeft, Task)' = SumOf(g, Task)
    <2>1. TaskStepsLeft' = g
      BY DEF TaskStepsLeft, Task
    <2>2. SumOf(TaskStepsLeft, Task)' = SumOf(TaskStepsLeft', Task)
      BY DEF Task
    <2>3. QED BY <2>1, <2>2
  <1>4. SumOf(g, Task) \in Nat /\ \A t \in Task : g[t] = TaskSteps(t)' /\ g[t] \in Nat
    BY <1>2, StepsAreFinite, SumIsNatural
  <1> HIDE DEF f, g
  <1>5. CASE RunStep
    <2>1. \A t \in Task : g[t] <= f[t]
      BY <1>1, <1>4, <1>5, TaskStepsStay
    <2>2. SumOf(g, Task) <= SumOf(f, Task)
      <3>1. /\ IsFiniteSet(Task)
            /\ \A t \in Task : g[t] \in Nat /\ f[t] \in Nat /\ g[t] <= f[t]
        BY <1>1, <1>4, <2>1, StepsAreFinite
      <3>2. QED BY <3>1, SumAtMost
    <2>3. RunStepsLeft' < RunStepsLeft
      BY <1>5, RunStepsFall
    <2>4. QED BY <1>1, <1>2, <1>3, <1>4, <2>2, <2>3
  <1>6. ASSUME NEW t \in Task, TaskStep(t)
        PROVE  StepsLeft' < StepsLeft
    <2>1. RunStepsLeft' = RunStepsLeft
      BY <1>0, <1>6, TaskMoves DEF RunStepsLeft
    <2>2. g[t] < f[t]
      BY <1>0, <1>1, <1>4, <1>6, TaskStepsFall
    <2>3. ASSUME NEW u \in Task \ {t}
          PROVE  g[u] = f[u]
      <3>1. task'[u] = task[u]
        BY <1>0, <1>6, TaskMoves DEF TypeOK
      <3>2. TaskSteps(u)' = TaskSteps(u)
        BY <3>1 DEF TaskSteps, CallSteps
      <3>3. QED BY <1>1, <1>4, <3>2
    <2> DEFINE others == Task \ {t}
    <2>4. IsFiniteSet(others)
      BY StepsAreFinite, FS_Subset
    <2>5. SumOf(g, others) = SumOf(f, others) /\ SumOf(f, others) \in Nat
      <3>1. \A u \in others : g[u] = f[u] /\ f[u] \in Nat
        BY <1>1, <2>3
      <3> HIDE DEF others
      <3>2. QED BY <2>4, <3>1, SumSame, SumIsNatural
    <2>6. SumOf(g, Task) = g[t] + SumOf(g, others)
      <3>1. IsFiniteSet(Task) /\ \A u \in Task : g[u] \in Nat
        BY <1>4, StepsAreFinite
      <3>2. QED BY <3>1, SumWithout
    <2>7. SumOf(f, Task) = f[t] + SumOf(f, others)
      <3>1. IsFiniteSet(Task) /\ \A u \in Task : f[u] \in Nat
        BY <1>1, StepsAreFinite
      <3>2. QED BY <3>1, SumWithout
    <2>8. f[t] \in Nat /\ g[t] \in Nat
      BY <1>1, <1>4
    <2> HIDE DEF others
    <2>9. QED BY <1>1, <1>2, <1>3, <2>1, <2>2, <2>5, <2>6, <2>7, <2>8
  <1>7. QED BY <1>5, <1>6 DEF Next

\* Every step of a run takes one of the steps that are left, with any numbers of
\* batches and attempts: no retry, no escalation and no shut-down starts work over
\* (_with_retries, _review_batch).
THEOREM WorkAlwaysRunsOut == Spec => WorkRunsOut
  <1>1. RunInv /\ TypeOK' /\ [Next]_vars => [StepsLeft' < StepsLeft]_vars
    BY StepsFall
  <1>2. QED
    BY <1>1, RunInvHolds, RunTypes, PTL DEF Spec, WorkRunsOut

-----------------------------------------------------------------------------
(* Why a run is never stuck *)

\* Tasks wait for their turn or for the search, and for nothing else.
Waiting ==
    /\ \A t \in Task : task[t].pc = "new" => ~IsEmbed(t) /\ stage \notin {"review", "closing"}
    /\ \A t \in Task : task[t].pc = "cancelled" => stage \in {"closing", "ended"}
    /\ stage = "review" => Embeds < awaited

LEMMA InitWaiting == Init => Waiting
  <1> SUFFICES ASSUME Init PROVE Waiting
    OBVIOUS
  <1>1. Embeds \in Nat /\ \A t \in Task : t \in Nat /\ 1 <= t /\ task[t] = NewTask(t)
    BY TaskNumbers DEF Init
  <1>2. QED
    BY <1>1 DEF Init, Waiting, NewTask, IsEmbed

LEMMA StepWaiting == RunInv /\ Waiting /\ [Next]_vars => Waiting'
  <1> SUFFICES ASSUME RunInv, Waiting, [Next]_vars PROVE Waiting'
    OBVIOUS
  <1>0. /\ awaited \in Nat /\ Embeds \in Nat /\ Batches \in Nat
        /\ \A t \in Task : t \in Nat /\ 1 <= t /\ t <= Embeds + Batches
    BY TaskNumbers DEF RunInv, TypeOK
  <1>1. ASSUME NEW t \in Task, TaskStep(t)
        PROVE  Waiting'
    <2>1. /\ \A u \in Task : u # t => task'[u] = task[u]
          /\ UNCHANGED <<stage, awaited>>
      BY <1>1, TaskMoves DEF RunInv, TypeOK
    <2>2. task'[t].pc \notin {"new", "cancelled"}
      BY <1>1, TaskMoves DEF RunInv, TypeOK
    <2>3. QED BY <2>1, <2>2 DEF Waiting, IsEmbed
  <1>2. ASSUME NEW t \in Task, AwaitDone(t)
        PROVE  Waiting'
    <2>1. /\ t = awaited /\ UNCHANGED task /\ awaited' = t + 1
          /\ stage \in {"embed", "review"}
          /\ stage = "review" => stage' = "review"
          /\ stage = "embed" => stage' \in {"embed", "search"}
      BY <1>2 DEF AwaitDone, Awaits, LastOfPool
    <2>2. QED BY <1>0, <2>1 DEF Waiting, IsEmbed
  <1>3. ASSUME NEW t \in Task, AwaitFailed(t)
        PROVE  Waiting'
    <2>1. /\ stage = "embed" => stage' = "ended"
          /\ stage = "review" => stage' = "closing"
          /\ stage \in {"embed", "review"}
      BY <1>3 DEF AwaitFailed, Awaits
    <2>2. ASSUME NEW u \in Task, task'[u].pc = "new"
          PROVE  task[u].pc = "new"
      <3>1. TypeOK /\ task[u] \in TaskState
        BY DEF RunInv, TypeOK
      <3>2. IF task[u].pc = "queued"
            THEN task'[u] = [task[u] EXCEPT !.pc = "cancelled"] ELSE task'[u] = task[u]
        BY <1>3, <3>1, CancelTypes
      <3>3. task[u].pc = "queued" => task'[u].pc = "cancelled"
        BY <3>1, <3>2 DEF TaskState
      <3>4. QED BY <2>2, <3>2, <3>3
    <2>3. QED BY <2>1, <2>2 DEF Waiting, IsEmbed
  <1>4. CASE Search
    <2>1. stage = "search" /\ stage' = "review" /\ awaited' = awaited /\ awaited = Embeds + 1
      BY <1>4 DEF Search, RunInv, InOrder
    <2>2. ASSUME NEW u \in Task
          PROVE  task'[u].pc \notin {"new", "cancelled"}
      <3>1. TypeOK /\ task[u] \in TaskState
        BY DEF RunInv, TypeOK
      <3>2. IF IsEmbed(u) THEN task'[u] = task[u]
                          ELSE task'[u] = [task[u] EXCEPT !.pc = "queued"]
        BY <1>4, <3>1, SearchTypes
      <3>3. IsEmbed(u) => task[u].pc \notin {"new", "cancelled"}
        BY <2>1 DEF Waiting
      <3>4. ~IsEmbed(u) => task'[u].pc = "queued"
        BY <3>1, <3>2 DEF TaskState
      <3>5. QED BY <3>2, <3>3, <3>4
    <2>3. QED BY <1>0, <2>1, <2>2 DEF Waiting
  <1>5. CASE SearchFails \/ Close \/ Complete
    BY <1>5 DEF SearchFails, Close, Complete, Waiting, IsEmbed
  <1>6. CASE UNCHANGED vars
    BY <1>6 DEF vars, Waiting, IsEmbed
  <1>7. QED
    BY <1>1, <1>2, <1>3, <1>4, <1>5, <1>6 DEF Next, RunStep

\* A task is at work or may start, or the run itself can go on.
MayGoOn ==
    \/ \E t \in Task : Running(t) \/ MayStart(t)
    \/ \E t \in Task : Awaits(t) /\ task[t].pc \in {"done", "failed"}
    \/ stage = "search"
    \/ stage = "closing" /\ \A t \in Task : ~IsEmbed(t) => ~Running(t)
    \/ stage = "review" /\ awaited = Embeds + Batches + 1

\* If nothing is at work, the first task that is queued may start.
LEMMA FirstMayStart ==
    ASSUME NEW t \in Task, task[t].pc = "queued", \A u \in Task : ~Running(u)
    PROVE  \E u \in Task : MayStart(u)
  <1> DEFINE Q == {u \in PoolOf(t) : task[u].pc = "queued"}
  <1>1. t \in Q /\ Q \in SUBSET Nat /\ Q \subseteq Task
    BY TaskNumbers DEF PoolOf
  <1>2. PICK u \in Q : \A v \in Q : u <= v
    BY <1>1, LeastNumber
  <1>3. u \in Task /\ PoolOf(u) = PoolOf(t) /\ task[u].pc = "queued"
    BY <1>1, <1>2 DEF PoolOf
  <1>4. \A v \in PoolOf(u) : v < u => task[v].pc # "queued"
    <2> SUFFICES ASSUME NEW v \in PoolOf(u), v < u, task[v].pc = "queued" PROVE FALSE
      OBVIOUS
    <2>1. v \in Q
      BY <1>3
    <2>2. u <= v /\ u \in Nat /\ v \in Nat
      BY <1>1, <1>2, <2>1
    <2>3. QED BY <2>2
  <1>5. {v \in PoolOf(u) : Running(v)} = {}
    BY DEF PoolOf
  <1>6. Cardinality({v \in PoolOf(u) : Running(v)}) = 0
    BY <1>5, FS_EmptySet
  <1>7. 0 < Capacity(u)
    BY BatchReviewAssumption DEF Capacity
  <1>8. MayStart(u)
    BY <1>3, <1>4, <1>6, <1>7 DEF MayStart
  <1>9. QED BY <1>3, <1>8

\* A run that has not ended is never stuck: whichever tasks have failed, been
\* cancelled or left waiting, some task is at work or free to start, or run
\* itself can take its next step (run, the two pools).
THEOREM RunMayGoOn == Spec => [](outcome = "none" => MayGoOn)
  <1>1. Spec => []Waiting
    <2>1. Init => Waiting
      BY InitWaiting
    <2>2. RunInv /\ Waiting /\ [Next]_vars => Waiting'
      BY StepWaiting
    <2>3. QED BY <2>1, <2>2, RunInvHolds, PTL DEF Spec
  <1>2. RunInv /\ Waiting => (outcome = "none" => MayGoOn)
    <2> SUFFICES ASSUME RunInv, Waiting, outcome = "none", \A t \in Task : ~Running(t),
                        \A t \in Task : ~MayStart(t)
                 PROVE  MayGoOn
      BY DEF MayGoOn
    <2>1. \A t \in Task : task[t].pc \in {"new", "done", "failed", "cancelled"}
      <3>1. \A t \in Task : task[t].pc # "queued"
        BY FirstMayStart
      <3>2. \A t \in Task : task[t] \in TaskState
        BY DEF RunInv, TypeOK
      <3>3. QED BY <3>1, <3>2 DEF Running, TaskState
    <2>2. stage \in {"embed", "search", "review", "closing"}
      BY DEF RunInv, TypeOK, Decided
    <2>3. awaited \in Nat /\ Embeds \in Nat /\ Batches \in Nat
          /\ 1 <= awaited /\ awaited <= Embeds + Batches + 1
      BY BatchReviewAssumption DEF RunInv, TypeOK
    <2>4. CASE stage = "embed"
      <3>1. awaited \in Task /\ IsEmbed(awaited)
        BY <2>3, <2>4 DEF RunInv, InOrder, Task, IsEmbed
      <3>2. Awaits(awaited)
        BY <2>4, <3>1 DEF Awaits
      <3>3. task[awaited].pc \in {"done", "failed"}
        BY <2>1, <2>4, <3>1 DEF Waiting
      <3>4. QED BY <3>1, <3>2, <3>3 DEF MayGoOn
    <2>5. CASE stage = "review"
      <3>1. CASE awaited = Embeds + Batches + 1
        BY <2>5, <3>1 DEF MayGoOn
      <3>2. CASE awaited # Embeds + Batches + 1
        <4>1. awaited \in Task /\ ~IsEmbed(awaited)
          BY <2>3, <2>5, <3>2 DEF Waiting, Task, IsEmbed
        <4>2. Awaits(awaited)
          BY <2>5, <4>1 DEF Awaits
        <4>3. task[awaited].pc \in {"done", "failed"}
          BY <2>1, <2>5, <4>1 DEF Waiting
        <4>4. QED BY <4>1, <4>2, <4>3 DEF MayGoOn
      <3>3. QED BY <3>1, <3>2
    <2>6. CASE stage \in {"search", "closing"}
      BY <2>6 DEF MayGoOn
    <2>7. QED BY <2>2, <2>4, <2>5, <2>6
  <1>3. QED
    BY <1>1, <1>2, RunInvHolds, PTL

=============================================================================
