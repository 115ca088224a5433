-------------------------- MODULE RulesCorpusProofs --------------------------
(* For any rules, files, jobs and reviews: the published version never names *)
(* a rule that is not there; one job at a time only reports done what is     *)
(* wholly in the table and published; the parser accounts for every row of   *)
(* every file; and why a job ends.                                           *)
EXTENDS CsvIngest, FiniteSums

-----------------------------------------------------------------------------
(* Types *)

LEMMA UninitialisedType == Uninitialised \in Corpus
  BY DEF Uninitialised, Corpus

LEMMA MergedType ==
    ASSUME upload \in [Job -> Corpus], NEW rows \in Corpus, NEW j \in Job, NEW chunk
    PROVE  Merged(rows, j, chunk) \in Corpus
  <1>1. upload[j] \in Corpus
    OBVIOUS
  <1>2. QED
    BY <1>1 DEF Merged, Corpus

LEMMA NoExecType == NoExec \in ExecState
  BY CorpusAssumption, UninitialisedType DEF NoExec, ExecState

\* Every step of a job keeps its execution a legal one.
LEMMA GotoType ==
    ASSUME TypeOK, NEW j \in Job, NEW pc \in {"start", "read", "chunk", "publish", "finish",
           "report", "failing", "exit", "ended"}, Goto(j, pc)
    PROVE  exec' \in [Job -> ExecState]
  BY SMTT(30) DEF TypeOK, Goto, ExecState

LEMMA NextAttemptType ==
    ASSUME TypeOK, NEW j \in Job, NextAttempt(j)
    PROVE  exec' \in [Job -> ExecState]
  <1>1. exec[j] \in ExecState
    BY DEF TypeOK
  <1>2. [exec[j] EXCEPT !.pc = "ended"] \in ExecState
    BY <1>1 DEF ExecState
  <1>3. exec[j].attempt < MaxRetries =>
          [NoExec EXCEPT !.pc = "start", !.attempt = exec[j].attempt + 1] \in ExecState
    <2>1. exec[j].attempt < MaxRetries => exec[j].attempt + 1 \in 0..MaxRetries
      BY <1>1, CorpusAssumption DEF ExecState
    <2>2. QED
      BY <2>1, NoExecType DEF ExecState
  <1>4. QED
    BY <1>2, <1>3 DEF NextAttempt, TypeOK

LEMMA JobTypes ==
    ASSUME TypeOK, NEW j \in Job,
           JobStep(j) \/ SubmitAborts(j) \/ StorageFails(j) \/ Crash(j)
    PROVE  TypeOK'
  <1> USE DEF TypeOK
  <1>1. ASSUME Inject("launch") \/ Inject("ambiguous") \/ Inject("embed") \/ Inject("merge")
               \/ Inject("abort") \/ Inject("storage") \/ Inject("crash")
        PROVE  faults' \in Nat
    BY <1>1 DEF Inject
  <1>2. CASE Launch(j)
    BY <1>1, <1>2, GotoType DEF Launch
  <1>3. CASE LaunchUndo(j) \/ SubmitAborts(j)
    BY <1>1, <1>3 DEF LaunchUndo, SubmitAborts, SetStatus
  <1>4. CASE AttemptStart(j)
    BY <1>4, GotoType DEF AttemptStart, SetStatus
  <1>5. CASE IngestRead(j)
    <2>1. Stale(j, table) \in SUBSET Rule /\ exec[j].attempt \in 0..MaxRetries
      BY DEF Stale, ExecState
    <2>2. [pc |-> "chunk", attempt |-> exec[j].attempt, state |-> table,
           todo |-> Stale(j, table), error |-> FALSE] \in ExecState
      BY <2>1 DEF ExecState
    <2>3. QED
      BY <1>5, <2>2 DEF IngestRead
  <1>6. ASSUME NEW chunk \in SUBSET Rule, Upsert(j, chunk)
        PROVE  TypeOK'
    <2>1. exec[j] \in ExecState /\ exec[j].state \in Corpus /\ exec[j].todo \in SUBSET Rule
      BY DEF ExecState
    <2>2. Merged(table, j, chunk) \in Corpus /\ Merged(exec[j].state, j, chunk) \in Corpus
      BY <2>1, MergedType
    <2>3. ASSUME Committed(j, chunk)
          PROVE  exec' \in [Job -> ExecState]
      <3>1. [exec[j] EXCEPT !.pc = "publish", !.todo = exec[j].todo \ chunk,
                            !.state = Merged(exec[j].state, j, chunk)] \in ExecState
        BY <2>1, <2>2 DEF ExecState
      <3>2. QED
        BY <2>3, <3>1 DEF Committed
    <2>4. ASSUME BreaksOff(j)
          PROVE  exec' \in [Job -> ExecState]
      <3>1. [exec[j] EXCEPT !.pc = "finish", !.error = TRUE] \in ExecState
        BY <2>1 DEF ExecState
      <3>2. QED
        BY <2>4, <3>1 DEF BreaksOff
    <2>5. QED
      BY <1>1, <1>6, <2>2, <2>3, <2>4 DEF Upsert
  <1>7. CASE ChunksDone(j)
    BY <1>7, GotoType DEF ChunksDone
  <1>8. CASE PublishCheckpoint(j) \/ PublishFinal(j)
    BY <1>8, GotoType DEF PublishCheckpoint, PublishFinal, ExecState
  <1>9. CASE Report(j) \/ AttemptFailed(j)
    BY <1>9, GotoType DEF Report, AttemptFailed, GiveUp, SetStatus
  <1>10. CASE Exit(j)
    BY <1>10, GotoType, NextAttemptType DEF Exit
  <1>11. CASE StorageFails(j)
    BY <1>1, <1>11, GotoType DEF StorageFails
  <1>12. CASE Crash(j)
    BY <1>1, <1>12, NextAttemptType DEF Crash
  <1>13. QED
    BY <1>2, <1>3, <1>4, <1>5, <1>6, <1>7, <1>8, <1>9, <1>10, <1>11, <1>12 DEF JobStep

LEMMA ReviewTypes ==
    ASSUME TypeOK, NEW v \in Review, ReviewStep(v)
    PROVE  TypeOK'
  <1> USE DEF TypeOK
  <1>1. review[v] \in ReviewState
    OBVIOUS
  <1>2. CASE ReviewSubmit(v)
    <2>1. faults' \in Nat
      BY <1>2 DEF ReviewSubmit, Unless, Inject
    <2>2. [review[v] EXCEPT !.pc = "pinned", !.version = published] \in ReviewState
      BY <1>1 DEF ReviewState
    <2>3. cache[Key(published)] # None =>
            [pc |-> "done", version |-> published, grounds |-> cache[Key(published)]] \in ReviewState
      BY DEF ReviewState, Key
    <2>4. QED
      BY <1>2, <2>1, <2>2, <2>3 DEF ReviewSubmit
  <1>3. CASE ReviewRetrieve(v)
    BY <1>1, <1>3, UninitialisedType DEF ReviewRetrieve, ReviewState
  <1>4. CASE ReviewRetry(v)
    BY <1>1, <1>4 DEF ReviewRetry, ReviewState
  <1>5. CASE ReviewFinish(v)
    BY <1>1, <1>5 DEF ReviewFinish, ReviewState, Key
  <1>6. QED
    BY <1>2, <1>3, <1>4, <1>5 DEF ReviewStep

LEMMA SubmitTypes ==
    ASSUME TypeOK, NEW j \in Job, NEW file \in File, Submit(j, file)
    PROVE  TypeOK'
  <1>1. Accepts[file] \in Corpus
    BY CorpusAssumption DEF Corpus
  <1>2. QED
    BY <1>1 DEF TypeOK, Submit, SetStatus, Unless, Inject

\* Corpus, jobs, executions and reviews keep their shape.
THEOREM CorpusTypes == Spec => []TypeOK
  <1>1. Init => TypeOK
    BY UninitialisedType, NoExecType DEF Init, TypeOK, ReviewState
  <1>2. TypeOK /\ [Next]_vars => TypeOK'
    <2>1. TypeOK /\ UNCHANGED vars => TypeOK'
      BY DEF vars, TypeOK
    <2>2. QED
      BY <2>1, SubmitTypes, JobTypes, ReviewTypes DEF Next, Continue
  <1>3. QED
    BY <1>1, <1>2, PTL DEF Spec

-----------------------------------------------------------------------------
(* Published rules exist *)

\* What the actions do to an execution.
LEMMA GotoState ==
    ASSUME TypeOK, NEW j \in Job, NEW pc, Goto(j, pc)
    PROVE  /\ \A i \in Job : i # j => exec'[i] = exec[i]
           /\ exec'[j].pc = pc /\ exec'[j].state = exec[j].state
           /\ exec'[j].todo = exec[j].todo /\ exec'[j].error = exec[j].error
  BY DEF TypeOK, ExecState, Goto

LEMMA NextAttemptState ==
    ASSUME TypeOK, NEW j \in Job, NextAttempt(j)
    PROVE  /\ \A i \in Job : i # j => exec'[i] = exec[i]
           /\ exec'[j].pc \in {"start", "ended"}
           /\ \/ exec'[j].state = Uninitialised /\ exec'[j].todo = {}
              \/ exec'[j].state = exec[j].state /\ exec'[j].todo = exec[j].todo
  <1>1. exec[j] \in ExecState
    BY DEF TypeOK
  <1>2. CASE exec[j].attempt < MaxRetries
    <2>1. exec' = [exec EXCEPT ![j] =
             [NoExec EXCEPT !.pc = "start", !.attempt = exec[j].attempt + 1]]
      BY <1>2 DEF NextAttempt
    <2>2. QED
      BY <2>1 DEF TypeOK, NoExec
  <1>3. CASE ~(exec[j].attempt < MaxRetries)
    <2>1. exec' = [exec EXCEPT ![j] = [exec[j] EXCEPT !.pc = "ended"]]
      BY <1>3 DEF NextAttempt
    <2>2. QED
      BY <1>1, <2>1 DEF TypeOK, ExecState
  <1>4. QED BY <1>2, <1>3

\* A step of an execution that leaves the table alone and neither reads nor
\* merges: it only forgets.
Forgets(j) ==
    /\ \A i \in Job : i # j => exec'[i] = exec[i]
    /\ exec[j].pc # "none"
    /\ \/ exec'[j].state = Uninitialised /\ exec'[j].todo = {}
       \/ exec'[j].state = exec[j].state /\ exec'[j].todo = exec[j].todo
    /\ UNCHANGED <<table, upload, api>>
    /\ \A i \in Job : i # j => job'[i] = job[i]
    /\ published' \in {published, exec[j].state}

LEMMA ForgetsKnown ==
    ASSUME TypeOK, RulesAreKnown, NEW j \in Job, Forgets(j), job'[j] # "absent"
    PROVE  RulesAreKnown'
  <1>1. \A r \in Rule : Uninitialised[r] = None
    BY DEF Uninitialised
  <1>2. PublishedRulesExist'
    BY DEF RulesAreKnown, PublishedRulesExist, Forgets
  <1>3. ASSUME NEW i \in Job
        PROVE  /\ \A r \in Rule : exec'[i].state[r] # None => table'[r] # None
               /\ \A r \in exec'[i].todo : upload'[i][r] # None
               /\ job'[i] = "absent" => exec'[i] = NoExec /\ api'[i] = "idle"
    <2>1. CASE i = j
      BY <1>1, <2>1 DEF RulesAreKnown, Forgets
    <2>2. CASE i # j
      BY <2>2 DEF RulesAreKnown, Forgets
    <2>3. QED BY <2>1, <2>2
  <1>4. QED BY <1>2, <1>3 DEF RulesAreKnown

LEMMA JobKnown ==
    ASSUME TypeOK, RulesAreKnown, NEW j \in Job,
           JobStep(j) \/ SubmitAborts(j) \/ StorageFails(j) \/ Crash(j)
    PROVE  RulesAreKnown'
  <1>1. exec[j].pc # "none" \/ api[j] # "idle" => job[j] # "absent"
    BY DEF RulesAreKnown, NoExec
  <1>2. CASE Launch(j) \/ LaunchUndo(j) \/ SubmitAborts(j)
    <2>1. job[j] # "absent" /\ job'[j] # "absent"
      BY <1>1, <1>2 DEF Launch, LaunchUndo, SubmitAborts, SetStatus, TypeOK
    <2>2. /\ UNCHANGED <<table, published, upload>>
          /\ \A i \in Job : i # j => exec'[i] = exec[i] /\ job'[i] = job[i] /\ api'[i] = api[i]
          /\ exec'[j].state = exec[j].state /\ exec'[j].todo = exec[j].todo
      BY <1>2, GotoState DEF Launch, LaunchUndo, SubmitAborts, SetStatus, TypeOK
    <2>3. QED
      BY <2>1, <2>2 DEF RulesAreKnown, PublishedRulesExist
  <1>3. CASE IngestRead(j)
    <2>1. /\ UNCHANGED <<table, published, upload, job, api>>
          /\ \A i \in Job : i # j => exec'[i] = exec[i]
          /\ exec'[j].state = table /\ exec'[j].todo = Stale(j, table)
          /\ exec[j].pc = "read"
      BY <1>3 DEF IngestRead, TypeOK
    <2>2. \A r \in Stale(j, table) : upload[j][r] # None
      BY DEF Stale
    <2>3. QED
      BY <1>1, <2>1, <2>2 DEF RulesAreKnown, PublishedRulesExist
  <1>4. ASSUME NEW chunk \in SUBSET Rule, Upsert(j, chunk)
        PROVE  RulesAreKnown'
    <2>1. /\ chunk \subseteq exec[j].todo /\ exec[j].pc # "none"
          /\ UNCHANGED <<published, upload, job, api>>
      BY <1>4 DEF Upsert, IsChunk
    <2>2. /\ \A r \in Rule : table[r] # None => table'[r] # None
          /\ \A i \in Job : i # j => exec'[i] = exec[i]
          /\ exec'[j].todo \subseteq exec[j].todo
          /\ \A r \in Rule : exec'[j].state[r] # None => table'[r] # None
      <3>1. \A r \in chunk : upload[j][r] # None
        BY <2>1 DEF RulesAreKnown
      <3>2. exec[j] \in ExecState
        BY DEF TypeOK
      <3>3. CASE table' = Merged(table, j, chunk) /\ Committed(j, chunk)
        <4>1. /\ \A i \in Job : i # j => exec'[i] = exec[i]
              /\ exec'[j].todo = exec[j].todo \ chunk
              /\ exec'[j].state = Merged(exec[j].state, j, chunk)
          BY <3>2, <3>3 DEF Committed, TypeOK, ExecState
        <4>2. QED
          BY <3>1, <3>3, <4>1 DEF Merged, RulesAreKnown
      <3>4. CASE BreaksOff(j) /\ (UNCHANGED table \/ table' = Merged(table, j, chunk))
        <4>1. /\ \A i \in Job : i # j => exec'[i] = exec[i]
              /\ exec'[j].todo = exec[j].todo /\ exec'[j].state = exec[j].state
          BY <3>2, <3>4 DEF BreaksOff, TypeOK, ExecState
        <4>2. QED
          BY <3>1, <3>4, <4>1 DEF Merged, RulesAreKnown
      <3>5. QED BY <1>4, <3>3, <3>4 DEF Upsert
    <2>3. QED
      BY <1>1, <2>1, <2>2 DEF RulesAreKnown, PublishedRulesExist
  <1>5. CASE \/ AttemptStart(j) \/ ChunksDone(j) \/ PublishCheckpoint(j) \/ PublishFinal(j)
             \/ Report(j) \/ AttemptFailed(j) \/ Exit(j) \/ StorageFails(j) \/ Crash(j)
    <2>1. exec[j].pc # "none"
      BY <1>5 DEF AttemptStart, ChunksDone, PublishCheckpoint, PublishFinal, Report,
         AttemptFailed, Exit, StorageFails, Crash
    <2>2. NextAttempt(j) \/ \E pc : Goto(j, pc)
      BY <1>5 DEF AttemptStart, ChunksDone, PublishCheckpoint, PublishFinal, Report,
         AttemptFailed, Exit, StorageFails, Crash
    <2>3. /\ \A i \in Job : i # j => job'[i] = job[i]
          /\ job[j] # "absent" => job'[j] # "absent"
          /\ UNCHANGED <<table, upload, api>>
          /\ published' \in {published, exec[j].state}
      BY <1>5 DEF AttemptStart, ChunksDone, PublishCheckpoint, PublishFinal, Report,
         AttemptFailed, Exit, StorageFails, Crash, GiveUp, SetStatus, TypeOK
    <2>4. Forgets(j)
      BY <2>1, <2>2, <2>3, GotoState, NextAttemptState DEF Forgets
    <2>5. QED
      BY <1>1, <2>1, <2>3, <2>4, ForgetsKnown
  <1>6. QED
    BY <1>2, <1>3, <1>4, <1>5 DEF JobStep

LEMMA KnownHolds == Spec => []RulesAreKnown
  <1>1. Init => RulesAreKnown
    BY DEF Init, RulesAreKnown, PublishedRulesExist, NoExec, Uninitialised
  <1>2. TypeOK /\ RulesAreKnown /\ [Next]_vars => RulesAreKnown'
    <2> SUFFICES ASSUME TypeOK, RulesAreKnown, [Next]_vars
                 PROVE  RulesAreKnown'
      OBVIOUS
    <2>1. ASSUME NEW j \in Job, NEW file \in File, Submit(j, file)
          PROVE  RulesAreKnown'
      <3>1. exec[j].todo = {}
        BY <2>1 DEF Submit, RulesAreKnown, NoExec
      <3>2. /\ UNCHANGED <<table, published, exec>>
            /\ \A i \in Job : i # j => upload'[i] = upload[i] /\ job'[i] = job[i] /\ api'[i] = api[i]
            /\ job'[j] = "queued"
        BY <2>1 DEF Submit, SetStatus, TypeOK
      <3>3. QED
        BY <3>1, <3>2 DEF RulesAreKnown, PublishedRulesExist
    <2>2. ASSUME NEW v \in Review, ReviewStep(v)
          PROVE  RulesAreKnown'
      <3>1. UNCHANGED <<table, published, upload, job, api, exec>>
        BY <2>2 DEF ReviewStep, ReviewSubmit, ReviewRetrieve, ReviewRetry, ReviewFinish
      <3>2. QED
        BY <3>1 DEF RulesAreKnown, PublishedRulesExist
    <2>3. CASE UNCHANGED vars
      BY <2>3 DEF vars, RulesAreKnown, PublishedRulesExist
    <2>4. QED
      BY <2>1, <2>2, <2>3, JobKnown DEF Next, Continue
  <1>3. QED
    BY <1>1, <1>2, CorpusTypes, PTL DEF Spec

\* Under every fault, and with overlapping ingests, the published version only
\* counts rules that are in the table (_publish_version after upsert).
THEOREM PublishedExist == Spec => []PublishedRulesExist
  <1>1. RulesAreKnown => PublishedRulesExist
    BY DEF RulesAreKnown
  <1>2. QED
    BY <1>1, KnownHolds, PTL

-----------------------------------------------------------------------------
(* One job at a time *)

\* Only j moves, and everybody else is at rest.
LEMMA OthersRest ==
    ASSUME IngestsInStep, NEW j \in Job, Working(j),
           \A i \in Job : i # j => exec'[i] = exec[i] /\ api'[i] = api[i], InStep(j)'
    PROVE  IngestsInStep'
  <1>1. \A i \in Job : i # j => ~Working(i)
    BY DEF IngestsInStep, AloneAtWork
  <1>2. \A i \in Job : i # j => ~Working(i)' /\ InStep(i)'
    BY <1>1 DEF Working, InStep
  <1>3. QED
    BY <1>2 DEF IngestsInStep, AloneAtWork

\* What a merge leaves to do.
LEMMA StaleAfterMerge ==
    ASSUME TypeOK, NEW j \in Job, NEW chunk \in SUBSET Rule,
           table' = Merged(table, j, chunk), UNCHANGED upload
    PROVE  Stale(j, table)' = Stale(j, table) \ chunk
  <1>1. \A r \in Rule : table'[r] = IF r \in chunk THEN upload[j][r] ELSE table[r]
    BY DEF Merged
  <1>2. QED
    BY <1>1 DEF Stale

\* A step of an execution after which nothing is claimed of it.
LEMMA NoClaim ==
    ASSUME NEW j \in Job,
           exec'[j].pc \in {"none", "start", "read", "failing", "exit", "ended"}
    PROVE  InStep(j)'
  BY DEF InStep

LEMMA JobInStep ==
    ASSUME TypeOK, IngestsInStep, NEW j \in Job,
           JobStep(j) \/ SubmitAborts(j) \/ StorageFails(j) \/ Crash(j)
    PROVE  IngestsInStep'
  <1>1. InStep(j) /\ exec[j] \in ExecState
    BY DEF IngestsInStep, TypeOK
  <1>2. ASSUME NEW pc \in {"start", "read", "failing", "exit", "ended"}, Goto(j, pc)
        PROVE  InStep(j)' /\ \A i \in Job : i # j => exec'[i] = exec[i]
    BY <1>2, GotoState, NoClaim
  <1>3. NextAttempt(j) => InStep(j)' /\ \A i \in Job : i # j => exec'[i] = exec[i]
    BY NextAttemptState, NoClaim
  <1>4. CASE Launch(j) \/ LaunchUndo(j) \/ SubmitAborts(j)
    <2>1. Working(j) /\ \A i \in Job : i # j => api'[i] = api[i]
      BY <1>4 DEF Launch, LaunchUndo, SubmitAborts, Working, TypeOK
    <2>2. UNCHANGED <<exec, table, published, upload>> \/ Goto(j, "start")
      BY <1>4 DEF Launch, LaunchUndo, SubmitAborts
    <2>3. UNCHANGED <<exec, table, published, upload>> => InStep(j)'
      BY <1>1 DEF InStep, Stale
    <2>4. QED
      BY <1>2, <2>1, <2>2, <2>3, OthersRest
  <1>5. CASE AttemptStart(j) \/ Report(j) \/ AttemptFailed(j) \/ Exit(j) \/ StorageFails(j) \/ Crash(j)
    <2>1. Working(j) /\ UNCHANGED api
      BY <1>5 DEF AttemptStart, Report, AttemptFailed, Exit, StorageFails, Crash, Working
    <2>2. NextAttempt(j) \/ \E pc \in {"start", "read", "failing", "exit", "ended"} : Goto(j, pc)
      BY <1>5 DEF AttemptStart, Report, AttemptFailed, Exit, StorageFails, Crash
    <2>3. QED
      BY <1>2, <1>3, <2>1, <2>2, OthersRest
  <1>6. CASE IngestRead(j)
    <2>1. /\ exec'[j].pc = "chunk" /\ ~exec'[j].error
          /\ exec'[j].state = table /\ exec'[j].todo = Stale(j, table)
          /\ \A i \in Job : i # j => exec'[i] = exec[i]
          /\ UNCHANGED <<table, upload, api>>
      BY <1>6 DEF IngestRead, TypeOK
    <2>2. InStep(j)'
      BY <2>1 DEF InStep, Stale
    <2>3. QED
      BY <1>6, <2>1, <2>2, OthersRest DEF IngestRead, Working
  <1>7. ASSUME NEW chunk \in SUBSET Rule, Upsert(j, chunk)
        PROVE  IngestsInStep'
    <2>1. /\ exec[j].pc = "chunk" /\ UNCHANGED <<upload, api>>
          /\ exec[j].state = table /\ exec[j].todo = Stale(j, table) /\ ~exec[j].error
      BY <1>1, <1>7 DEF Upsert, InStep
    <2>2. CASE table' = Merged(table, j, chunk) /\ Committed(j, chunk)
      <3>1. /\ \A i \in Job : i # j => exec'[i] = exec[i]
            /\ exec'[j].pc = "publish" /\ exec'[j].error = exec[j].error
            /\ exec'[j].todo = exec[j].todo \ chunk
            /\ exec'[j].state = Merged(exec[j].state, j, chunk)
        BY <1>1, <2>2 DEF Committed, TypeOK, ExecState
      <3>2. InStep(j)'
        BY <2>1, <2>2, <3>1, StaleAfterMerge DEF InStep
      <3>3. QED
        BY <2>1, <3>1, <3>2, OthersRest DEF Working
    <2>3. CASE BreaksOff(j)
      <3>1. /\ \A i \in Job : i # j => exec'[i] = exec[i]
            /\ exec'[j].pc = "finish" /\ exec'[j].error = TRUE
        BY <1>1, <2>3 DEF BreaksOff, TypeOK, ExecState
      <3>2. InStep(j)'
        BY <3>1 DEF InStep
      <3>3. QED
        BY <2>1, <3>1, <3>2, OthersRest DEF Working
    <2>4. QED BY <1>7, <2>2, <2>3 DEF Upsert
  <1>8. CASE ChunksDone(j) \/ PublishCheckpoint(j) \/ PublishFinal(j)
    <2>1. /\ Working(j) /\ UNCHANGED <<table, upload, api>>
          /\ \E pc \in {"finish", "chunk", "report"} : Goto(j, pc)
      BY <1>8 DEF ChunksDone, PublishCheckpoint, PublishFinal, Working
    <2>2. /\ \A i \in Job : i # j => exec'[i] = exec[i]
          /\ exec'[j].state = exec[j].state /\ exec'[j].todo = exec[j].todo
          /\ exec'[j].error = exec[j].error
      BY <2>1, GotoState
    <2>3. InStep(j)'
      <3>1. UNCHANGED Stale(j, table)
        BY <2>1 DEF Stale
      <3>2. CASE ChunksDone(j)
        <4>1. exec[j].pc = "chunk" /\ exec[j].todo = {} /\ exec'[j].pc = "finish"
          BY <3>2, GotoState DEF ChunksDone
        <4>2. QED
          BY <1>1, <2>1, <2>2, <3>1, <4>1 DEF InStep
      <3>3. CASE PublishCheckpoint(j)
        <4>1. exec[j].pc = "publish" /\ exec'[j].pc = "chunk"
          BY <3>3, GotoState DEF PublishCheckpoint
        <4>2. QED
          BY <1>1, <2>1, <2>2, <3>1, <4>1 DEF InStep
      <3>4. CASE PublishFinal(j)
        <4>1. exec[j].pc = "finish" /\ exec'[j].pc = "report" /\ published' = exec[j].state
          BY <3>4, GotoState DEF PublishFinal
        <4>2. QED
          BY <1>1, <2>1, <2>2, <3>1, <4>1 DEF InStep
      <3>5. QED BY <1>8, <3>2, <3>3, <3>4
    <2>4. QED
      BY <2>1, <2>2, <2>3, OthersRest
  <1>9. QED
    BY <1>4, <1>5, <1>6, <1>7, <1>8 DEF JobStep

LEMMA StepInStep ==
    ASSUME OneAtATime, TypeOK, IngestsInStep, [Next]_vars
    PROVE  IngestsInStep'
  <1>1. ASSUME NEW j \in Job, NEW file \in File, Submit(j, file)
        PROVE  IngestsInStep'
    <2>1. \A i \in Job : ~Working(i)
      BY <1>1 DEF Submit, Inject, OneAtATime
    <2>2. /\ UNCHANGED <<table, published, exec>>
          /\ \A i \in Job : i # j => api'[i] = api[i]
      BY <1>1 DEF Submit, TypeOK
    <2>3. /\ \A i \in Job : i # j => ~Working(i)'
          /\ \A i \in Job : InStep(i)'
      BY <2>1, <2>2 DEF Working, InStep
    <2>4. QED
      BY <2>3 DEF IngestsInStep, AloneAtWork
  <1>2. ASSUME NEW v \in Review, ReviewStep(v)
        PROVE  UNCHANGED <<table, published, upload, api, exec>>
    BY <1>2 DEF ReviewStep, ReviewSubmit, ReviewRetrieve, ReviewRetry, ReviewFinish
  <1>3. UNCHANGED vars => UNCHANGED <<table, published, upload, api, exec>>
    BY DEF vars
  <1>4. ASSUME UNCHANGED <<table, published, upload, api, exec>>
        PROVE  IngestsInStep'
    BY <1>4 DEF IngestsInStep, AloneAtWork, Working, InStep, Stale
  <1>5. QED
    BY <1>1, <1>2, <1>3, <1>4, JobInStep DEF Next, Continue

\* One job at a time, whatever its attempts run into: in memory, in the table
\* and in the file there is the same, up to the rows still to be done.
THEOREM InStepHolds == OneAtATime => (Spec => []IngestsInStep)
  <1> SUFFICES ASSUME OneAtATime PROVE Spec => []IngestsInStep
    OBVIOUS
  <1>1. Init => IngestsInStep
    BY DEF Init, IngestsInStep, AloneAtWork, Working, InStep, NoExec
  <1>2. TypeOK /\ IngestsInStep /\ [Next]_vars => IngestsInStep'
    BY StepInStep
  <1>3. QED
    BY <1>1, <1>2, CorpusTypes, PTL DEF Spec

\* One job at a time, a row that is about to be embedded is not in the table,
\* also when it is a later attempt that embeds it (ingest, run).
THEOREM EmbeddedOnce == OneAtATime => (Spec => []NothingEmbeddedTwice)
  <1>1. IngestsInStep => NothingEmbeddedTwice
    BY DEF IngestsInStep, InStep, NothingEmbeddedTwice, Stale
  <1>2. QED
    BY <1>1, InStepHolds, PTL

\* One job at a time, a job is only reported done when every row of its file is
\* in the table and the published version is that of the table (ingest, run).
THEOREM DoneComplete == OneAtATime => (Spec => DoneIsComplete)
  <1> SUFFICES ASSUME OneAtATime PROVE Spec => DoneIsComplete
    OBVIOUS
  <1>1. ASSUME TypeOK, IngestsInStep, [Next]_vars, NEW j \in Job,
               job[j] # "done", job'[j] = "done"
        PROVE  /\ \A r \in Rule : upload[j][r] # None => table[r] = upload[j][r]
               /\ published = table
    <2>1. \E i \in Job : Report(i) /\ ~exec[i].error /\ i = j
      <3>1. ASSUME NEW i \in Job, NEW file \in File
            PROVE  ~Submit(i, file)
        BY <1>1, <3>1 DEF Submit, SetStatus, TypeOK
      <3>2. ASSUME NEW v \in Review
            PROVE  ~ReviewStep(v)
        BY <1>1, <3>2 DEF ReviewStep, ReviewSubmit, ReviewRetrieve, ReviewRetry, ReviewFinish
      <3>3. ~UNCHANGED vars
        BY <1>1 DEF vars
      <3>4. PICK i \in Job : JobStep(i) \/ SubmitAborts(i) \/ StorageFails(i) \/ Crash(i)
        BY <1>1, <3>1, <3>2, <3>3 DEF Next, Continue
      <3>5. ~UNCHANGED job
        BY <1>1
      <3>6. \/ LaunchUndo(i) \/ Report(i) \/ AttemptFailed(i)
            \/ AttemptStart(i)
        BY <3>4, <3>5 DEF JobStep, Launch, SubmitAborts, IngestRead, Upsert, ChunksDone,
           PublishCheckpoint, PublishFinal, Exit, StorageFails, Crash
      <3>7. Report(i) /\ ~exec[i].error /\ SetStatus(i, "done")
        BY <1>1, <3>5, <3>6 DEF LaunchUndo, Report, AttemptFailed, AttemptStart, GiveUp,
           SetStatus, TypeOK
      <3>8. QED
        BY <1>1, <3>7 DEF SetStatus, TypeOK
    <2>2. exec[j].pc = "report" /\ ~exec[j].error
      BY <2>1 DEF Report
    <2>3. Stale(j, table) = {} /\ published = table
      BY <1>1, <2>2 DEF IngestsInStep, InStep
    <2>4. QED
      BY <2>3 DEF Stale
  <1>2. TypeOK /\ IngestsInStep /\ [Next]_vars =>
          [\A j \in Job : job[j] # "done" /\ job'[j] = "done" =>
             /\ \A r \in Rule : upload[j][r] # None => table[r] = upload[j][r]
             /\ published = table]_vars
    BY <1>1
  <1>3. QED
    BY <1>2, CorpusTypes, InStepHolds, PTL DEF Spec, DoneIsComplete

-----------------------------------------------------------------------------
(* A job that is done *)

\* run_job either starts the execution or does not.
LaunchIsClear == "ambiguous" \notin Faults

\* Whoever could still change the status of a done job has finished.
DoneIsLeft ==
    \A j \in Job :
        /\ api[j] # "idle" => exec[j].pc = "none" /\ job[j] = "queued"
        /\ job[j] = "done" => exec[j].pc \in {"start", "exit", "ended"}
        /\ job[j] = "absent" => api[j] = "idle" /\ exec[j].pc = "none"

LEMMA NextAttemptDone ==
    ASSUME TypeOK, NEW j \in Job, NextAttempt(j)
    PROVE  exec'[j].pc \in {"start", "ended"} /\ \A i \in Job : i # j => exec'[i] = exec[i]
  BY NextAttemptState

LEMMA StepDone ==
    ASSUME TypeOK, DoneIsLeft, LaunchIsClear, [Next]_vars
    PROVE  DoneIsLeft' /\ \A j \in Job : job[j] = "done" => job'[j] = "done"
  <1> DEFINE Goal == DoneIsLeft' /\ \A j \in Job : job[j] = "done" => job'[j] = "done"
             Others(j) == \A i \in Job : i # j =>
                 exec'[i] = exec[i] /\ job'[i] = job[i] /\ api'[i] = api[i]
  <1>1. ASSUME NEW j \in Job, Others(j),
               /\ api'[j] # "idle" => exec'[j].pc = "none" /\ job'[j] = "queued"
               /\ job'[j] = "done" => exec'[j].pc \in {"start", "exit", "ended"}
               /\ job'[j] = "absent" => api'[j] = "idle" /\ exec'[j].pc = "none"
               /\ job[j] = "done" => job'[j] = "done"
        PROVE  Goal
    <2>1. ASSUME NEW i \in Job
          PROVE  /\ api'[i] # "idle" => exec'[i].pc = "none" /\ job'[i] = "queued"
                 /\ job'[i] = "done" => exec'[i].pc \in {"start", "exit", "ended"}
                 /\ job'[i] = "absent" => api'[i] = "idle" /\ exec'[i].pc = "none"
                 /\ job[i] = "done" => job'[i] = "done"
      <3>1. CASE i = j
        BY <1>1, <3>1
      <3>2. CASE i # j
        BY <1>1, <3>2 DEF DoneIsLeft
      <3>3. QED BY <3>1, <3>2
    <2>2. QED BY <2>1 DEF DoneIsLeft
  <1>2. ASSUME NEW j \in Job, NEW file \in File, Submit(j, file)
        PROVE  Goal
    <2>1. /\ Others(j) /\ job'[j] = "queued" /\ exec'[j].pc = "none"
          /\ job[j] = "absent"
      BY <1>2 DEF Submit, SetStatus, TypeOK, DoneIsLeft
    <2>2. QED BY <1>1, <2>1
  <1>3. ASSUME NEW j \in Job, JobStep(j) \/ SubmitAborts(j) \/ StorageFails(j) \/ Crash(j)
        PROVE  Goal
    <2>1. CASE Launch(j)
      <3>1. /\ job[j] = "queued" /\ exec[j].pc = "none" /\ Others(j) /\ UNCHANGED job
            /\ \/ api'[j] = "idle"
               \/ api'[j] = "undo" /\ UNCHANGED exec
        BY <2>1, GotoState DEF Launch, LaunchIsClear, Inject, DoneIsLeft, TypeOK
      <3>2. QED BY <1>1, <3>1
    <2>2. CASE LaunchUndo(j) \/ SubmitAborts(j)
      <3>1. /\ job[j] = "queued" /\ Others(j) /\ api'[j] = "idle"
            /\ job'[j] \in {"queued", "failed"}
        BY <2>2 DEF LaunchUndo, SubmitAborts, SetStatus, DoneIsLeft, TypeOK
      <3>2. QED BY <1>1, <3>1
    <2>3. ASSUME exec[j].pc # "none", Others(j), UNCHANGED api,
                 job'[j] # "absent", job[j] = "done" => job'[j] = "done",
                 job'[j] = "done" => exec'[j].pc \in {"start", "exit", "ended"}
          PROVE  Goal
      BY <1>1, <2>3 DEF DoneIsLeft
    <2>4. CASE AttemptStart(j) \/ Report(j) \/ AttemptFailed(j)
      <3>1. /\ exec[j].pc \in {"start", "report", "failing"} /\ UNCHANGED api
            /\ \A i \in Job : i # j => job'[i] = job[i]
            /\ job'[j] # "absent"
            /\ job[j] = "done" => job'[j] = "done"
        BY <2>4 DEF AttemptStart, Report, AttemptFailed, GiveUp, SetStatus, TypeOK, DoneIsLeft
      <3>2. /\ \A i \in Job : i # j => exec'[i] = exec[i]
            /\ job'[j] = "done" => exec'[j].pc \in {"start", "exit", "ended"}
        BY <2>4, GotoState DEF AttemptStart, Report, AttemptFailed, SetStatus, TypeOK
      <3>3. QED BY <2>3, <3>1, <3>2
    <2>5. CASE \/ IngestRead(j) \/ ChunksDone(j) \/ PublishCheckpoint(j) \/ PublishFinal(j)
               \/ StorageFails(j) \/ \E chunk \in SUBSET Rule : Upsert(j, chunk)
      <3>1. /\ exec[j].pc \in {"read", "chunk", "publish", "finish"} /\ UNCHANGED <<api, job>>
        BY <2>5 DEF IngestRead, ChunksDone, PublishCheckpoint, PublishFinal, StorageFails, Upsert
      <3>2. \A i \in Job : i # j => exec'[i] = exec[i]
        BY <2>5 DEF IngestRead, ChunksDone, PublishCheckpoint, PublishFinal, StorageFails, Upsert,
           Goto, Committed, BreaksOff, TypeOK
      <3>3. job[j] \notin {"done", "absent"}
        BY <3>1 DEF DoneIsLeft
      <3>4. QED BY <2>3, <3>1, <3>2, <3>3
    <2>6. CASE Exit(j) \/ Crash(j)
      <3>1. exec[j].pc # "none" /\ UNCHANGED <<api, job>>
        BY <2>6 DEF Exit, Crash
      <3>2. exec'[j].pc \in {"start", "ended"} /\ \A i \in Job : i # j => exec'[i] = exec[i]
        BY <2>6, GotoState, NextAttemptDone DEF Exit, Crash
      <3>3. job[j] # "absent"
        BY <3>1 DEF DoneIsLeft
      <3>4. QED BY <2>3, <3>1, <3>2, <3>3
    <2>7. QED BY <1>3, <2>1, <2>2, <2>4, <2>5, <2>6 DEF JobStep
  <1>4. CASE (\E v \in Review : ReviewStep(v)) \/ UNCHANGED vars
    <2>1. UNCHANGED <<job, api, exec>>
      BY <1>4 DEF ReviewStep, ReviewSubmit, ReviewRetrieve, ReviewRetry, ReviewFinish, vars
    <2>2. QED BY <2>1 DEF DoneIsLeft
  <1>5. QED BY <1>2, <1>3, <1>4 DEF Next, Continue

\* If run_job is never ambiguous, no attempt and no request takes a done job up
\* again, with jobs overlapping and executions dying at any point (run).
THEOREM DoneJobStays == LaunchIsClear => (Spec => DoneJobIsFinal)
  <1> SUFFICES ASSUME LaunchIsClear PROVE Spec => DoneJobIsFinal
    OBVIOUS
  <1>1. Init => DoneIsLeft
    BY DEF Init, DoneIsLeft, NoExec
  <1>2. TypeOK /\ DoneIsLeft /\ [Next]_vars => DoneIsLeft'
    BY StepDone
  <1>3. TypeOK /\ DoneIsLeft /\ [Next]_vars =>
          [\A j \in Job : job[j] = "done" => job'[j] = "done"]_vars
    BY StepDone
  <1>4. QED
    BY <1>1, <1>2, <1>3, CorpusTypes, PTL DEF Spec, DoneJobIsFinal

-----------------------------------------------------------------------------
(* What is published, and what a cached review shows *)

\* A job that is still to be launched has no execution.
LaunchedOnce == \A j \in Job : api[j] = "launch" => exec[j].pc = "none"

LEMMA LaunchHolds == Spec => []LaunchedOnce
  <1>1. Init => LaunchedOnce
    BY DEF Init, LaunchedOnce
  <1>2. ASSUME TypeOK, RulesAreKnown, LaunchedOnce, [Next]_vars
        PROVE  LaunchedOnce'
    <2>1. ASSUME NEW j \in Job, NEW file \in File, Submit(j, file)
          PROVE  LaunchedOnce'
      BY <1>2, <2>1 DEF Submit, RulesAreKnown, NoExec, TypeOK, LaunchedOnce
    <2>2. ASSUME NEW j \in Job, Launch(j) \/ LaunchUndo(j) \/ SubmitAborts(j)
          PROVE  LaunchedOnce'
      BY <1>2, <2>2 DEF Launch, LaunchUndo, SubmitAborts, Goto, TypeOK, LaunchedOnce
    <2>3. ASSUME NEW j \in Job, \/ AttemptStart(j) \/ IngestRead(j) \/ ChunksDone(j)
                                \/ \E chunk \in SUBSET Rule : Upsert(j, chunk)
                                \/ PublishCheckpoint(j) \/ PublishFinal(j) \/ Report(j)
                                \/ AttemptFailed(j) \/ Exit(j) \/ StorageFails(j) \/ Crash(j)
          PROVE  LaunchedOnce'
      <3>1. exec[j].pc # "none" /\ UNCHANGED api
        BY <2>3 DEF AttemptStart, IngestRead, ChunksDone, Upsert, PublishCheckpoint,
           PublishFinal, Report, AttemptFailed, Exit, StorageFails, Crash
      <3>2. \A i \in Job : i # j => exec'[i] = exec[i]
        BY <1>2, <2>3 DEF AttemptStart, IngestRead, ChunksDone, Upsert, PublishCheckpoint,
           PublishFinal, Report, AttemptFailed, Exit, StorageFails, Crash, Goto, NextAttempt,
           Committed, BreaksOff, TypeOK
      <3>3. QED BY <1>2, <3>1, <3>2 DEF LaunchedOnce
    <2>4. CASE (\E v \in Review : ReviewStep(v)) \/ UNCHANGED vars
      <3>1. UNCHANGED <<api, exec>>
        BY <2>4 DEF ReviewStep, ReviewSubmit, ReviewRetrieve, ReviewRetry, ReviewFinish, vars
      <3>2. QED BY <1>2, <3>1 DEF LaunchedOnce
    <2>5. QED
      BY <1>2, <2>1, <2>2, <2>3, <2>4 DEF Next, Continue, JobStep
  <1>3. QED
    BY <1>1, <1>2, CorpusTypes, KnownHolds, PTL DEF Spec

\* One job at a time, and nothing fails between a merge and its publication.
SmoothIngest == {"overlap", "crash", "storage", "merge"} \intersect Faults = {}

\* Only between a merge and its publication is the published version behind,
\* and what an ingest has in memory is the table.
PublishedInv ==
    /\ (\A j \in Job : exec[j].pc # "publish") => published = table
    /\ \A j \in Job : exec[j].pc \in {"chunk", "publish", "finish"} => exec[j].state = table

LEMMA Smooth ==
    ASSUME SmoothIngest
    PROVE  OneAtATime /\ ~Inject("crash") /\ ~Inject("storage") /\ ~Inject("merge")
  BY DEF SmoothIngest, OneAtATime, Inject

\* Only j is at work, so what is published depends on where j is.
LEMMA PublishedBy ==
    ASSUME TypeOK, AloneAtWork, PublishedInv, NEW j \in Job, Working(j),
           \A i \in Job : i # j => exec'[i] = exec[i],
           exec'[j].pc # "publish" => published' = table',
           exec'[j].pc \in {"chunk", "publish", "finish"} => exec'[j].state = table'
    PROVE  PublishedInv'
  <1>1. \A i \in Job : i # j => exec'[i].pc \in {"none", "ended"}
    BY DEF AloneAtWork, Working
  <1>2. QED BY <1>1 DEF PublishedInv

LEMMA JobPublishes ==
    ASSUME TypeOK, AloneAtWork, LaunchedOnce, PublishedInv, SmoothIngest, NEW j \in Job,
           JobStep(j) \/ SubmitAborts(j) \/ StorageFails(j) \/ Crash(j)
    PROVE  PublishedInv'
  <1>0. Working(j)
    BY DEF Working, JobStep, Launch, LaunchUndo, AttemptStart, IngestRead, ChunksDone, Upsert,
       PublishCheckpoint, PublishFinal, Report, AttemptFailed, Exit, SubmitAborts, StorageFails,
       Crash
  <1>1. exec[j].pc # "publish" => published = table
    BY <1>0 DEF AloneAtWork, PublishedInv, Working
  <1>2. CASE SubmitAborts(j) \/ LaunchUndo(j)
    BY <1>2 DEF SubmitAborts, LaunchUndo, PublishedInv, TypeOK
  <1>3. CASE Launch(j)
    <2>1. /\ UNCHANGED <<table, published>> /\ exec[j].pc = "none"
          /\ UNCHANGED exec \/ Goto(j, "start")
      BY <1>3 DEF Launch, LaunchedOnce
    <2>2. QED
      BY <1>0, <1>1, <2>1, GotoState, PublishedBy
  <1>4. CASE AttemptStart(j) \/ Report(j) \/ AttemptFailed(j) \/ Exit(j)
    <2>1. /\ UNCHANGED <<table, published>>
          /\ exec[j].pc \in {"start", "report", "failing", "exit"}
      BY <1>4 DEF AttemptStart, Report, AttemptFailed, Exit
    <2>2. /\ \A i \in Job : i # j => exec'[i] = exec[i]
          /\ exec'[j].pc \notin {"chunk", "publish", "finish", "none"}
      BY <1>4, GotoState, NextAttemptState DEF AttemptStart, Report, AttemptFailed, Exit
    <2>3. QED
      BY <1>0, <1>1, <2>1, <2>2, PublishedBy
  <1>5. CASE IngestRead(j)
    <2>1. /\ UNCHANGED <<table, published>> /\ exec[j].pc = "read"
          /\ exec'[j].pc = "chunk" /\ exec'[j].state = table
          /\ \A i \in Job : i # j => exec'[i] = exec[i]
      BY <1>5 DEF IngestRead, TypeOK
    <2>2. QED
      BY <1>0, <1>1, <2>1, PublishedBy
  <1>6. ASSUME NEW chunk \in SUBSET Rule, Upsert(j, chunk)
        PROVE  PublishedInv'
    <2>1. /\ exec[j].pc = "chunk" /\ exec[j].state = table /\ published = table
          /\ UNCHANGED <<published, upload>> /\ exec[j] \in ExecState
      BY <1>1, <1>6 DEF Upsert, PublishedInv, TypeOK
    <2>2. CASE table' = Merged(table, j, chunk) /\ Committed(j, chunk)
      <3>1. /\ \A i \in Job : i # j => exec'[i] = exec[i]
            /\ exec'[j].pc = "publish" /\ exec'[j].state = table'
        BY <2>1, <2>2 DEF Committed, TypeOK, ExecState
      <3>2. QED
        BY <1>0, <2>1, <3>1, PublishedBy
    <2>3. CASE BreaksOff(j) /\ UNCHANGED table
      <3>1. /\ \A i \in Job : i # j => exec'[i] = exec[i]
            /\ exec'[j].pc = "finish" /\ exec'[j].state = exec[j].state
        BY <2>1, <2>3 DEF BreaksOff, TypeOK, ExecState
      <3>2. QED
        BY <1>0, <2>1, <2>3, <3>1, PublishedBy
    <2>4. QED BY <1>6, <2>2, <2>3, Smooth DEF Upsert
  <1>7. CASE ChunksDone(j) \/ PublishCheckpoint(j) \/ PublishFinal(j)
    <2>1. /\ UNCHANGED table /\ exec[j].state = table /\ published' = table
          /\ exec[j].pc \in {"chunk", "publish", "finish"}
          /\ \E pc \in {"finish", "chunk", "report"} : Goto(j, pc)
      BY <1>1, <1>7 DEF ChunksDone, PublishCheckpoint, PublishFinal, PublishedInv
    <2>2. /\ \A i \in Job : i # j => exec'[i] = exec[i]
          /\ exec'[j].state = table /\ exec'[j].pc \in {"finish", "chunk", "report"}
      BY <2>1, GotoState
    <2>3. QED
      BY <1>0, <2>1, <2>2, PublishedBy
  <1>8. QED
    BY <1>2, <1>3, <1>4, <1>5, <1>6, <1>7, Smooth DEF JobStep, StorageFails, Crash

LEMMA StepPublished ==
    ASSUME TypeOK, LaunchedOnce, IngestsInStep, PublishedInv, SmoothIngest, [Next]_vars
    PROVE  PublishedInv'
  <1>1. CASE \/ \E j \in Job, file \in File : Submit(j, file)
             \/ \E v \in Review : ReviewStep(v)
             \/ UNCHANGED vars
    <2>1. UNCHANGED <<table, published, exec>>
      BY <1>1 DEF Submit, ReviewStep, ReviewSubmit, ReviewRetrieve, ReviewRetry, ReviewFinish,
         vars
    <2>2. QED BY <2>1 DEF PublishedInv
  <1>2. QED BY <1>1, JobPublishes DEF Next, Continue, IngestsInStep

LEMMA PublishedHolds == SmoothIngest => (Spec => []PublishedInv)
  <1> SUFFICES ASSUME SmoothIngest PROVE Spec => []PublishedInv
    OBVIOUS
  <1>1. Init => PublishedInv
    BY DEF Init, PublishedInv, NoExec
  <1>2. TypeOK /\ LaunchedOnce /\ IngestsInStep /\ PublishedInv /\ [Next]_vars => PublishedInv'
    BY StepPublished
  <1>3. OneAtATime
    BY Smooth
  <1>4. QED
    BY <1>1, <1>2, <1>3, CorpusTypes, LaunchHolds, InStepHolds, PTL DEF Spec

\* One job at a time, and with nothing failing between a merge and its
\* publication, a corpus no job is at work on is the published one: a failed
\* embedding or launch leaves nothing behind (_publish_version).
THEOREM SettledHolds == SmoothIngest => (Spec => []SettledIsPublished)
  <1>1. PublishedInv => SettledIsPublished
    BY DEF PublishedInv, SettledIsPublished, Working
  <1>2. QED
    BY <1>1, PublishedHolds, PTL

\* Reviews and ingests do not overlap either.
NoRace == "race" \notin Faults

\* A review under way has pinned what the table holds and finds nobody at work;
\* what the cache keeps under a version is what that version offers.
Grounded ==
    /\ \A v \in Review : Reviewing(v) =>
        /\ \A j \in Job : ~Working(j)
        /\ review[v].version = table
    /\ \A v \in Review : review[v].pc = "retrieved" => review[v].grounds = table
    /\ \A c \in Corpus : cache[c] # None => cache[c] = c

LEMMA StepGrounded ==
    ASSUME TypeOK, PublishedInv, Grounded, NoRace, OneAtATime, [Next]_vars
    PROVE  Grounded'
  <1>0. ~Inject("race") /\ ~Inject("overlap")
    BY DEF NoRace, OneAtATime, Inject
  <1>1. ASSUME NEW j \in Job, NEW file \in File, Submit(j, file)
        PROVE  Grounded'
    <2>1. (\A v \in Review : ~Reviewing(v)) /\ UNCHANGED <<review, cache>>
      BY <1>0, <1>1 DEF Submit, Unless
    <2>2. QED BY <2>1 DEF Grounded, Reviewing
  <1>2. ASSUME NEW j \in Job, JobStep(j) \/ SubmitAborts(j) \/ StorageFails(j) \/ Crash(j)
        PROVE  Grounded'
    <2>1. Working(j) /\ UNCHANGED <<review, cache>>
      BY <1>2 DEF Working, JobStep, Launch, LaunchUndo, AttemptStart, IngestRead, ChunksDone,
         Upsert, PublishCheckpoint, PublishFinal, Report, AttemptFailed, Exit, SubmitAborts,
         StorageFails, Crash
    <2>2. QED BY <2>1 DEF Grounded, Reviewing
  <1>3. ASSUME NEW v \in Review, ReviewStep(v)
        PROVE  Grounded'
    <2>1. UNCHANGED <<table, published, api, exec>>
      BY <1>3 DEF ReviewStep, ReviewSubmit, ReviewRetrieve, ReviewRetry, ReviewFinish
    <2>2. \A w \in Review : w # v => review'[w] = review[w]
      BY <1>3 DEF ReviewStep, ReviewSubmit, ReviewRetrieve, ReviewRetry, ReviewFinish, TypeOK
    <2>3. /\ Reviewing(v)' => (\A j \in Job : ~Working(j)) /\ review'[v].version = table
          /\ review'[v].pc = "retrieved" => review'[v].grounds = table
      <3>1. CASE ReviewSubmit(v)
        <4>1. \A j \in Job : ~Working(j)
          BY <1>0, <3>1 DEF ReviewSubmit, Unless
        <4>2. published = table
          BY <4>1 DEF PublishedInv, Working
        <4>3. /\ review'[v].version = published
              /\ review'[v].pc \in {"pinned", "done"}
          BY <3>1 DEF ReviewSubmit, TypeOK, ReviewState
        <4>4. QED BY <4>1, <4>2, <4>3
      <3>2. CASE ReviewRetrieve(v) \/ ReviewRetry(v)
        <4>1. Reviewing(v) /\ review'[v].version = review[v].version
          BY <3>2 DEF ReviewRetrieve, ReviewRetry, Reviewing, TypeOK, ReviewState
        <4>2. ReviewRetry(v) => review'[v].pc = "pinned"
          BY DEF ReviewRetry, TypeOK, ReviewState
        <4>3. ReviewRetrieve(v) => review'[v].grounds =
                IF review[v].version = Uninitialised THEN Uninitialised ELSE table
          BY DEF ReviewRetrieve, TypeOK, ReviewState
        <4>4. QED BY <3>2, <4>1, <4>2, <4>3 DEF Grounded
      <3>3. CASE ReviewFinish(v)
        BY <3>3 DEF ReviewFinish, Reviewing, TypeOK, ReviewState
      <3>4. QED BY <1>3, <3>1, <3>2, <3>3 DEF ReviewStep
    <2>4. \A c \in Corpus : cache'[c] # None => cache'[c] = c
      <3>1. CASE ReviewFinish(v)
        <4>1. review[v].version = table /\ review[v].grounds = table
          BY <3>1 DEF ReviewFinish, Grounded, Reviewing
        <4>2. QED BY <3>1, <4>1 DEF ReviewFinish, Key, Grounded, TypeOK
      <3>2. CASE ~ReviewFinish(v)
        BY <1>3, <3>2 DEF ReviewStep, ReviewSubmit, ReviewRetrieve, ReviewRetry, Grounded
      <3>3. QED BY <3>1, <3>2
    <2>5. QED
      BY <2>1, <2>2, <2>3, <2>4 DEF Grounded, Reviewing, Working
  <1>4. CASE UNCHANGED vars
    BY <1>4 DEF vars, Grounded, Reviewing, Working
  <1>5. QED BY <1>1, <1>2, <1>3, <1>4 DEF Next, Continue

\* If besides reviews and ingests do not overlap, a review that is answered from
\* the cache shows what the rules that are there now would have grounded, through
\* any number of ingests before it (submit, put_cache).
THEOREM HitsAreGrounded == SmoothIngest /\ NoRace => (Spec => HitIsGrounded)
  <1> SUFFICES ASSUME SmoothIngest, NoRace PROVE Spec => HitIsGrounded
    OBVIOUS
  <1>0. OneAtATime
    BY Smooth
  <1>1. Init => Grounded
    BY DEF Init, Grounded, Reviewing
  <1>2. TypeOK /\ PublishedInv /\ Grounded /\ [Next]_vars => Grounded'
    BY <1>0, StepGrounded
  <1>3. ASSUME TypeOK, PublishedInv, Grounded, [Next]_vars, NEW v \in Review,
               review[v].pc = "absent", review'[v].pc = "done", \A j \in Job : ~Working(j)
        PROVE  review'[v].grounds = table
    <2>1. published = table
      BY <1>3 DEF PublishedInv, Working
    <2>2. ~UNCHANGED review
      BY <1>3
    <2>3. PICK w \in Review : ReviewStep(w)
      <3>1. ASSUME NEW j \in Job, JobStep(j) \/ SubmitAborts(j) \/ StorageFails(j) \/ Crash(j)
            PROVE  FALSE
        BY <2>2, <3>1 DEF JobStep, Launch, LaunchUndo, AttemptStart, IngestRead, ChunksDone,
           Upsert, PublishCheckpoint, PublishFinal, Report, AttemptFailed, Exit, SubmitAborts,
           StorageFails, Crash
      <3>2. ASSUME NEW j \in Job, NEW file \in File, Submit(j, file)
            PROVE  FALSE
        BY <2>2, <3>2 DEF Submit
      <3>3. QED BY <1>3, <2>2, <3>1, <3>2 DEF Next, Continue, vars
    <2>4. w = v
      BY <1>3, <2>3 DEF ReviewStep, ReviewSubmit, ReviewRetrieve, ReviewRetry, ReviewFinish, TypeOK
    <2>5. ReviewSubmit(v)
      BY <1>3, <2>3, <2>4 DEF ReviewStep, ReviewRetrieve, ReviewRetry, ReviewFinish
    <2>6. cache[published] # None /\ review'[v].grounds = cache[published]
      BY <1>3, <2>5 DEF ReviewSubmit, Key, TypeOK, ReviewState
    <2>7. published \in Corpus /\ cache[published] = published
      BY <1>3, <2>6 DEF Grounded, TypeOK
    <2>8. QED BY <2>1, <2>6, <2>7
  <1>4. TypeOK /\ PublishedInv /\ Grounded /\ [Next]_vars =>
          [\A v \in Review :
             review[v].pc = "absent" /\ review'[v].pc = "done" /\ (\A j \in Job : ~Working(j))
               => review'[v].grounds = table]_vars
    BY <1>3
  <1>5. QED
    BY <1>1, <1>2, <1>4, CorpusTypes, PublishedHolds, PTL DEF Spec, HitIsGrounded

-----------------------------------------------------------------------------
(* How far the published version can be behind *)

Behind(rows) == {r \in Rule : rows[r] # table[r]}

\* What a job that is about to publish may add to the lag.
Unpublished == IF \E j \in Job : exec[j].pc = "publish" THEN 1 ELSE 0

LagInv ==
    /\ Cardinality(Behind(published)) <= CheckpointRows * (faults + Unpublished)
    /\ \A j \in Job : exec[j].pc = "finish" =>
        Cardinality(Behind(exec[j].state)) <= CheckpointRows * faults

LEMMA BehindIsFinite ==
    ASSUME NEW rows
    PROVE  IsFiniteSet(Behind(rows)) /\ Cardinality(Behind(rows)) \in Nat
  <1>1. IsFiniteSet(Rule) /\ Behind(rows) \subseteq Rule
    BY CorpusAssumption DEF Behind
  <1>2. QED
    BY <1>1, FS_Subset, FS_CardinalityType

\* A checkpoint adds at most its own rows.
LEMMA LagGrows ==
    ASSUME NEW S, IsFiniteSet(S), NEW T, IsFiniteSet(T), NEW L \in SUBSET (S \union T)
    PROVE  Cardinality(L) <= Cardinality(S) + Cardinality(T)
  <1>1. /\ IsFiniteSet(S \union T)
        /\ Cardinality(S \union T) = Cardinality(S) + Cardinality(T) - Cardinality(S \intersect T)
    BY FS_Union
  <1>2. IsFiniteSet(S \intersect T)
    BY FS_Subset
  <1>3. /\ Cardinality(S \union T) \in Nat /\ Cardinality(S) \in Nat /\ Cardinality(T) \in Nat
        /\ Cardinality(S \intersect T) \in Nat
    BY <1>1, <1>2, FS_CardinalityType
  <1>4. IsFiniteSet(L) /\ Cardinality(L) <= Cardinality(S \union T)
    BY <1>1, FS_Subset
  <1>5. Cardinality(L) \in Nat
    BY <1>4, FS_CardinalityType
  <1>6. QED BY <1>1, <1>3, <1>4, <1>5

LEMMA Budget ==
    ASSUME NEW n \in Nat, NEW m \in Nat, n <= m
    PROVE  /\ CheckpointRows * n \in Nat /\ CheckpointRows * m \in Nat
           /\ CheckpointRows * n <= CheckpointRows * m
           /\ CheckpointRows * (n + 1) = CheckpointRows * n + CheckpointRows
  <1>1. CheckpointRows \in Nat
    BY CorpusAssumption
  <1>2. PICK k \in Nat : m = n + k
    <2>1. m - n \in Nat /\ m = n + (m - n)
      OBVIOUS
    <2>2. QED BY <2>1
  <1>3. CheckpointRows * k \in Nat /\ CheckpointRows * n \in Nat
    BY <1>1
  <1>4. CheckpointRows * (n + k) = CheckpointRows * n + CheckpointRows * k
    BY <1>1
  <1>5. CheckpointRows * (n + 1) = CheckpointRows * n + CheckpointRows
    BY <1>1
  <1>6. QED BY <1>2, <1>3, <1>4, <1>5

LEMMA LargerBudget ==
    ASSUME NEW n \in Nat, NEW m \in Nat, n <= m, NEW k \in Nat
    PROVE  /\ CheckpointRows * (n + k) <= CheckpointRows * (m + k)
           /\ CheckpointRows * (n + k) \in Nat /\ CheckpointRows * (m + k) \in Nat
  <1>1. n + k \in Nat /\ m + k \in Nat /\ n + k <= m + k
    OBVIOUS
  <1>2. QED BY <1>1, Budget

LEMMA ChunkRows ==
    ASSUME NEW j \in Job, NEW chunk \in SUBSET Rule, IsChunk(j, chunk)
    PROVE  IsFiniteSet(chunk) /\ Cardinality(chunk) \in Nat /\ Cardinality(chunk) <= CheckpointRows
  <1>1. IsFiniteSet(chunk) /\ Cardinality(chunk) \in Nat
    BY CorpusAssumption, FS_Subset, FS_CardinalityType
  <1>2. QED
    BY <1>1, CorpusAssumption DEF IsChunk

LEMMA LagIdle ==
    ASSUME TypeOK, LagInv, UNCHANGED <<table, published, exec>>,
           faults' \in {faults, faults + 1}
    PROVE  LagInv'
  <1>1. Unpublished' = Unpublished /\ Unpublished \in Nat
    BY DEF Unpublished
  <1>2. /\ \A rows : Behind(rows)' = Behind(rows)
        /\ Behind(published)' = Behind(published)
        /\ \A j \in Job : Behind(exec[j].state)' = Behind(exec[j].state)
    BY DEF Behind
  <1>3. /\ CheckpointRows * faults <= CheckpointRows * faults'
        /\ CheckpointRows * faults \in Nat /\ CheckpointRows * faults' \in Nat
    BY Budget DEF TypeOK
  <1>4. /\ CheckpointRows * (faults + Unpublished) <= CheckpointRows * (faults' + Unpublished)
        /\ CheckpointRows * (faults + Unpublished) \in Nat
        /\ CheckpointRows * (faults' + Unpublished) \in Nat
    <2>1. faults \in Nat /\ faults' \in Nat /\ faults <= faults'
      BY DEF TypeOK
    <2>2. QED BY <1>1, <2>1, LargerBudget
  <1>5. Cardinality(Behind(published)') <= CheckpointRows * (faults' + Unpublished')
    BY <1>1, <1>2, <1>4, BehindIsFinite DEF LagInv
  <1>6. ASSUME NEW j \in Job, exec'[j].pc = "finish"
        PROVE  Cardinality(Behind(exec[j].state)') <= CheckpointRows * faults'
    <2>1. Cardinality(Behind(exec[j].state)) <= CheckpointRows * faults
      BY <1>6 DEF LagInv
    <2>2. QED BY <1>2, <1>3, <2>1, BehindIsFinite
  <1>7. QED BY <1>5, <1>6 DEF LagInv

\* The lag depends on where the one job at work is.
LEMMA LagBy ==
    ASSUME AloneAtWork, NEW j \in Job, Working(j),
           \A i \in Job : i # j => exec'[i] = exec[i],
           Cardinality(Behind(published)')
             <= CheckpointRows * (faults' + IF exec'[j].pc = "publish" THEN 1 ELSE 0),
           exec'[j].pc = "finish" =>
             Cardinality(Behind(exec[j].state)') <= CheckpointRows * faults'
    PROVE  LagInv'
  <1>1. \A i \in Job : i # j => exec'[i].pc \in {"none", "ended"}
    BY DEF AloneAtWork, Working
  <1>2. Unpublished' = IF exec'[j].pc = "publish" THEN 1 ELSE 0
    BY <1>1 DEF Unpublished
  <1>3. ASSUME NEW i \in Job, exec'[i].pc = "finish"
        PROVE  Cardinality(Behind(exec[i].state)') <= CheckpointRows * faults'
    <2>1. i = j
      BY <1>1, <1>3
    <2>2. QED BY <1>3, <2>1
  <1>4. QED BY <1>2, <1>3 DEF LagInv

LEMMA LagOf ==
    ASSUME TypeOK, AloneAtWork, LagInv, NEW j \in Job, Working(j)
    PROVE  /\ exec[j].pc # "publish" => Cardinality(Behind(published)) <= CheckpointRows * faults
           /\ Cardinality(Behind(published)) <= CheckpointRows * (faults + 1)
  <1>1. \A i \in Job : i # j => exec[i].pc \in {"none", "ended"}
    BY DEF AloneAtWork, Working
  <1>2. CASE exec[j].pc = "publish"
    BY <1>2 DEF LagInv, Unpublished
  <1>3. CASE exec[j].pc # "publish"
    <2>1. Unpublished = 0 /\ faults \in Nat
      BY <1>1, <1>3 DEF Unpublished, TypeOK
    <2>2. Cardinality(Behind(published)) <= CheckpointRows * faults
      BY <2>1 DEF LagInv
    <2>3. /\ CheckpointRows * faults \in Nat
          /\ CheckpointRows * (faults + 1) = CheckpointRows * faults + CheckpointRows
      BY <2>1, Budget
    <2>4. QED
      BY <2>2, <2>3, BehindIsFinite, CorpusAssumption
  <1>4. QED BY <1>2, <1>3

LEMMA UpsertLag ==
    ASSUME TypeOK, IngestsInStep, LagInv, NEW j \in Job, NEW chunk \in SUBSET Rule,
           Upsert(j, chunk)
    PROVE  LagInv'
  <1>1. /\ exec[j].pc = "chunk" /\ exec[j].state = table /\ exec[j] \in ExecState
        /\ Working(j) /\ AloneAtWork /\ IsChunk(j, chunk) /\ UNCHANGED published
        /\ faults \in Nat
    BY DEF Upsert, IngestsInStep, InStep, Working, TypeOK
  <1>2. /\ Cardinality(Behind(published)) <= CheckpointRows * faults
        /\ IsFiniteSet(Behind(published)) /\ Cardinality(Behind(published)) \in Nat
    BY <1>1, LagOf, BehindIsFinite
  <1>3. /\ IsFiniteSet(chunk) /\ Cardinality(chunk) \in Nat /\ Cardinality(chunk) <= CheckpointRows
    BY <1>1, ChunkRows
  <1>4. /\ CheckpointRows * faults \in Nat /\ CheckpointRows \in Nat
        /\ CheckpointRows * (faults + 1) = CheckpointRows * faults + CheckpointRows
    BY <1>1, Budget, CorpusAssumption
  <1>5. ASSUME table' = Merged(table, j, chunk)
        PROVE  /\ Cardinality(Behind(published)') <= CheckpointRows * (faults + 1)
               /\ Cardinality(Behind(table)) = 0
    <2>1. Behind(published)' \subseteq Behind(published) \union chunk
      BY <1>1, <1>5 DEF Behind, Merged
    <2>2. Cardinality(Behind(published)') <= Cardinality(Behind(published)) + Cardinality(chunk)
      BY <1>2, <1>3, <2>1, LagGrows
    <2>3. Cardinality(Behind(published)') \in Nat
      <3>1. IsFiniteSet(Behind(published) \union chunk)
        BY <1>2, <1>3, FS_Union
      <3>2. QED BY <2>1, <3>1, FS_Subset, FS_CardinalityType
    <2>4. Behind(table) = {}
      BY DEF Behind
    <2>5. QED BY <1>2, <1>3, <1>4, <2>2, <2>3, <2>4, FS_EmptySet
  <1>6. CASE table' = Merged(table, j, chunk) /\ Committed(j, chunk) /\ UNCHANGED faults
    <2>1. exec'[j].pc = "publish" /\ \A i \in Job : i # j => exec'[i] = exec[i]
      BY <1>1, <1>6 DEF Committed, TypeOK, ExecState
    <2>2. QED BY <1>1, <1>5, <1>6, <2>1, LagBy
  <1>7. ASSUME BreaksOff(j), faults' = faults + 1
        PROVE  /\ exec'[j].pc = "finish" /\ exec'[j].state = table
               /\ \A i \in Job : i # j => exec'[i] = exec[i]
    BY <1>1, <1>7 DEF BreaksOff, TypeOK, ExecState
  <1>8. CASE Inject("embed") /\ BreaksOff(j) /\ UNCHANGED table
    <2>1. /\ faults' = faults + 1 /\ exec'[j].pc = "finish" /\ exec'[j].state = table
          /\ \A i \in Job : i # j => exec'[i] = exec[i]
      BY <1>7, <1>8 DEF Inject
    <2>2. Behind(exec[j].state)' = {} /\ Behind(published)' = Behind(published)
      BY <1>1, <1>8, <2>1 DEF Behind
    <2>3. /\ Cardinality(Behind(exec[j].state)') <= CheckpointRows * faults'
          /\ Cardinality(Behind(published)') <= CheckpointRows * (faults' + 0)
      <3>1. Cardinality(Behind(exec[j].state)') = 0
        BY <2>2, FS_EmptySet
      <3>2. faults' + 0 = faults + 1
        BY <1>1, <2>1
      <3>3. QED BY <1>2, <1>4, <2>1, <2>2, <3>1, <3>2
    <2>4. QED BY <1>1, <2>1, <2>3, LagBy
  <1>9. CASE Inject("merge") /\ BreaksOff(j) /\ table' = Merged(table, j, chunk)
    <2>1. /\ faults' = faults + 1 /\ exec'[j].pc = "finish" /\ exec'[j].state = table
          /\ \A i \in Job : i # j => exec'[i] = exec[i]
      BY <1>7, <1>9 DEF Inject
    <2>2. Behind(exec[j].state)' \subseteq chunk
      BY <1>9, <2>1 DEF Behind, Merged
    <2>3. Cardinality(Behind(exec[j].state)') <= CheckpointRows * faults'
      <3>1. /\ Cardinality(Behind(exec[j].state)') <= Cardinality(chunk)
            /\ Cardinality(Behind(exec[j].state)') \in Nat
        BY <1>3, <2>2, FS_Subset, FS_CardinalityType
      <3>2. QED BY <1>3, <1>4, <2>1, <3>1
    <2>4. Cardinality(Behind(published)') <= CheckpointRows * (faults' + 0)
      <3>1. faults' + 0 = faults + 1
        BY <1>1, <2>1
      <3>2. QED BY <1>5, <1>9, <3>1
    <2>5. QED BY <1>1, <2>1, <2>3, <2>4, LagBy
  <1>10. QED BY <1>6, <1>8, <1>9 DEF Upsert

\* A step that neither merges nor publishes; a publication that is due and does
\* not happen costs a fault.
LEMMA SkipLag ==
    ASSUME TypeOK, AloneAtWork, LagInv, NEW j \in Job, Working(j),
           \A i \in Job : i # j => exec'[i] = exec[i],
           UNCHANGED <<table, published>>, exec'[j].pc # "publish",
           exec'[j].pc = "finish" => exec'[j].state = table,
           faults' = faults + 1 \/ (faults' = faults /\ exec[j].pc # "publish")
    PROVE  LagInv'
  <1>1. faults \in Nat /\ faults' \in Nat
    BY DEF TypeOK
  <1>2. Behind(published)' = Behind(published)
    BY DEF Behind
  <1>3. CheckpointRows * (faults' + 0) = CheckpointRows * faults' /\ CheckpointRows * faults' \in Nat
    <2>1. faults' + 0 = faults'
      BY <1>1
    <2>2. CheckpointRows * faults' \in Nat
      BY <1>1, Budget
    <2>3. QED BY <2>1, <2>2
  <1>4. Cardinality(Behind(published)) <= CheckpointRows * faults'
    BY LagOf
  <1>5. exec'[j].pc = "finish" => Cardinality(Behind(exec[j].state)') <= CheckpointRows * faults'
    <2>1. ASSUME exec'[j].pc = "finish"
          PROVE  Behind(exec[j].state)' = {}
      BY <2>1 DEF Behind
    <2>2. QED BY <1>3, <2>1, FS_EmptySet
  <1>6. QED
    BY <1>2, <1>3, <1>4, <1>5, LagBy

LEMMA JobLag ==
    ASSUME TypeOK, LaunchedOnce, IngestsInStep, LagInv, NEW j \in Job,
           JobStep(j) \/ SubmitAborts(j) \/ StorageFails(j) \/ Crash(j)
    PROVE  LagInv'
  <1>0. Working(j) /\ AloneAtWork /\ InStep(j) /\ faults \in Nat
    BY DEF Working, JobStep, Launch, LaunchUndo, AttemptStart, IngestRead, ChunksDone, Upsert,
       PublishCheckpoint, PublishFinal, Report, AttemptFailed, Exit, SubmitAborts, StorageFails,
       Crash, IngestsInStep, TypeOK
  <1>1. CASE LaunchUndo(j) \/ SubmitAborts(j)
    BY <1>1, LagIdle DEF LaunchUndo, SubmitAborts, Inject
  <1>2. CASE Launch(j)
    <2>1. /\ UNCHANGED <<table, published>> /\ exec[j].pc = "none"
          /\ UNCHANGED exec \/ Goto(j, "start")
          /\ faults' \in {faults, faults + 1}
      BY <1>2 DEF Launch, LaunchedOnce, Inject
    <2>2. CASE UNCHANGED exec
      BY <2>1, <2>2, LagIdle
    <2>3. CASE Goto(j, "start")
      BY <1>0, <2>1, <2>3, GotoState, SkipLag
    <2>4. QED BY <2>1, <2>2, <2>3
  <1>3. CASE AttemptStart(j) \/ IngestRead(j) \/ Report(j) \/ AttemptFailed(j) \/ Exit(j)
    <2>1. /\ UNCHANGED <<table, published, faults>>
          /\ exec[j].pc \in {"start", "read", "report", "failing", "exit"}
      BY <1>3 DEF AttemptStart, IngestRead, Report, AttemptFailed, Exit
    <2>2. /\ \A i \in Job : i # j => exec'[i] = exec[i]
          /\ exec'[j].pc \notin {"publish", "finish"}
      BY <1>3, GotoState, NextAttemptState DEF AttemptStart, IngestRead, Report, AttemptFailed,
         Exit, TypeOK
    <2>3. QED BY <1>0, <2>1, <2>2, SkipLag
  <1>4. CASE StorageFails(j) \/ Crash(j)
    <2>1. UNCHANGED <<table, published>> /\ faults' = faults + 1
      BY <1>4 DEF StorageFails, Crash, Inject
    <2>2. /\ \A i \in Job : i # j => exec'[i] = exec[i]
          /\ exec'[j].pc \notin {"publish", "finish"}
      BY <1>4, GotoState, NextAttemptState DEF StorageFails, Crash
    <2>3. QED BY <1>0, <2>1, <2>2, SkipLag
  <1>5. CASE ChunksDone(j)
    <2>1. /\ UNCHANGED <<table, published, faults>> /\ exec[j].pc = "chunk"
          /\ exec[j].state = table /\ Goto(j, "finish")
      BY <1>0, <1>5 DEF ChunksDone, InStep
    <2>2. QED BY <1>0, <2>1, GotoState, SkipLag
  <1>6. CASE PublishCheckpoint(j) \/ PublishFinal(j)
    <2>1. /\ UNCHANGED <<table, faults>> /\ published' = exec[j].state
          /\ exec[j].pc \in {"publish", "finish"}
          /\ \E pc \in {"chunk", "report"} : Goto(j, pc)
      BY <1>6 DEF PublishCheckpoint, PublishFinal
    <2>2. /\ \A i \in Job : i # j => exec'[i] = exec[i]
          /\ exec'[j].pc \in {"chunk", "report"}
      BY <2>1, GotoState
    <2>3. Behind(published)' = Behind(exec[j].state)
      BY <2>1 DEF Behind
    <2>4. CheckpointRows * faults \in Nat /\ CheckpointRows * (faults + 0) = CheckpointRows * faults
      BY <1>0, CorpusAssumption
    <2>5. Cardinality(Behind(exec[j].state)) <= CheckpointRows * faults
      <3>1. CASE exec[j].pc = "finish"
        BY <3>1 DEF LagInv
      <3>2. CASE exec[j].pc = "publish"
        <4>1. Behind(exec[j].state) = {}
          BY <1>0, <3>2 DEF InStep, Behind
        <4>2. QED BY <2>4, <4>1, FS_EmptySet
      <3>3. QED BY <2>1, <3>1, <3>2
    <2>6. QED BY <1>0, <2>1, <2>2, <2>3, <2>4, <2>5, LagBy
  <1>7. QED
    BY <1>1, <1>2, <1>3, <1>4, <1>5, <1>6, UpsertLag DEF JobStep

\* One job at a time, the published version never counts more than one checkpoint
\* of rows out per failure, and one more while an ingest is at work: whatever was
\* lost, the next attempt starts from the table (ingest, _publish_version).
THEOREM LagHolds == OneAtATime => (Spec => []LagIsBounded)
  <1> SUFFICES ASSUME OneAtATime PROVE Spec => []LagIsBounded
    OBVIOUS
  <1>1. Init => LagInv
    <2> SUFFICES ASSUME Init PROVE LagInv
      OBVIOUS
    <2>1. Behind(published) = {} /\ faults = 0 /\ \A j \in Job : exec[j].pc = "none"
      BY DEF Init, Behind, NoExec
    <2>2. Unpublished = 0 /\ CheckpointRows * (0 + 0) = 0
      BY <2>1, CorpusAssumption DEF Unpublished
    <2>3. QED BY <2>1, <2>2, FS_EmptySet DEF LagInv
  <1>2. TypeOK /\ LaunchedOnce /\ IngestsInStep /\ LagInv /\ [Next]_vars => LagInv'
    <2> SUFFICES ASSUME TypeOK, LaunchedOnce, IngestsInStep, LagInv, [Next]_vars
                 PROVE  LagInv'
      OBVIOUS
    <2>1. ASSUME \/ \E j \in Job, file \in File : Submit(j, file)
                 \/ \E v \in Review : ReviewStep(v)
                 \/ UNCHANGED vars
          PROVE  LagInv'
      <3>1. UNCHANGED <<table, published, exec>> /\ faults' \in {faults, faults + 1}
        BY <2>1 DEF Submit, ReviewStep, ReviewSubmit, ReviewRetrieve, ReviewRetry, ReviewFinish,
           Unless, Inject, vars
      <3>2. QED BY <3>1, LagIdle
    <2>2. QED BY <2>1, JobLag DEF Next, Continue
  <1>3. TypeOK /\ LagInv => LagIsBounded
    <2> SUFFICES ASSUME TypeOK, LagInv
                 PROVE  Cardinality(Behind(published)) <= CheckpointRows * (faults + 1)
      BY DEF LagIsBounded, Behind
    <2>1. faults \in Nat /\ faults + Unpublished \in Nat /\ faults + 1 \in Nat
          /\ faults + Unpublished <= faults + 1
      BY DEF TypeOK, Unpublished
    <2>2. /\ CheckpointRows * (faults + Unpublished) <= CheckpointRows * (faults + 1)
          /\ CheckpointRows * (faults + Unpublished) \in Nat
          /\ CheckpointRows * (faults + 1) \in Nat
      BY <2>1, Budget
    <2>3. QED BY <2>2, BehindIsFinite DEF LagInv
  <1>4. QED
    BY <1>1, <1>2, <1>3, CorpusTypes, LaunchHolds, InStepHolds, PTL DEF Spec

-----------------------------------------------------------------------------
(* What an uploaded file comes to: the rows the parser's loop has seen so    *)
(* far, sorted as the whole file sorts them                                  *)

\* What the loop can have gathered of the first n rows.
Gathered(n) ==
    [first : BOOLEAN, broken : BOOLEAN, header : SUBSET (1..n),
     rules : Seq(1..n), rejected : Seq(1..n)]

\* The rows of a kind among the first n.
ReachedTo(file, n) == Csv!Reached(file) \cap 1..n
HeaderTo(file, n) == Csv!Header(file) \cap 1..n
KeptTo(file, n) == Csv!Kept(file) \cap 1..n
RestTo(file, n) == ReachedTo(file, n) \ (HeaderTo(file, n) \union KeptTo(file, n))

\* The first n rows have been told apart the way the whole file tells them apart.
ToldApart(file, n, p) ==
    /\ p \in Gathered(n)
    /\ p.broken <=> \E k \in 1..n : file[k].cells = "broken"
    /\ ~p.broken => (p.first <=> ReachedTo(file, n) = {})
    /\ p.header = HeaderTo(file, n)
    /\ Csv!Lists(p.rules, KeptTo(file, n))
    /\ Csv!Lists(p.rejected, RestTo(file, n))

\* f is what the loop has gathered after each row.
ParsesTo(f, file, m) ==
    f = [n \in 0..m |-> IF n = 0 THEN Csv!Start ELSE Csv!ParseRow(f[n - 1], file, n)]

\* The loop comes to something for every number of rows.
LEMMA LoopExists ==
    ASSUME NEW file, NEW m \in Nat
    PROVE  \E f : ParsesTo(f, file, m)
<1> DEFINE G == {n \in Nat : \E f : ParsesTo(f, file, n)}
<1>1. 0 \in G
  <2>1. ParsesTo([n \in 0..0 |-> Csv!Start], file, 0)
    BY DEF ParsesTo
  <2> QED BY <2>1
<1>2. ASSUME NEW n \in Nat, n \in G PROVE n + 1 \in G
  <2>1. PICK f : ParsesTo(f, file, n)
    BY <1>2
  <2> DEFINE g == [i \in 0..(n + 1) |->
                      IF i = n + 1 THEN Csv!ParseRow(f[n], file, n + 1) ELSE f[i]]
  <2>2. ASSUME NEW i \in 0..(n + 1)
        PROVE  g[i] = IF i = 0 THEN Csv!Start ELSE Csv!ParseRow(g[i - 1], file, i)
    <3>1. CASE i = n + 1
      BY <3>1
    <3>2. CASE i # n + 1
      <4>1. i \in 0..n /\ (i # 0 => i - 1 \in 0..n)
        BY <3>2
      <4>2. f[i] = IF i = 0 THEN Csv!Start ELSE Csv!ParseRow(f[i - 1], file, i)
        BY <2>1, <4>1 DEF ParsesTo
      <4>3. g[i] = f[i] /\ (i # 0 => g[i - 1] = f[i - 1])
        BY <4>1
      <4> QED BY <4>2, <4>3
    <3> QED BY <3>1, <3>2
  <2>3. g = [i \in 0..(n + 1) |->
                IF i = 0 THEN Csv!Start ELSE Csv!ParseRow(g[i - 1], file, i)]
    BY <2>2
  <2> HIDE DEF g
  <2>4. ParsesTo(g, file, n + 1)
    BY <2>3 DEF ParsesTo
  <2> QED BY <2>4
<1> HIDE DEF G
<1>3. m \in G
  BY <1>1, <1>2, Counting
<1> QED BY <1>3 DEF G

\* The parser's result is what the loop has gathered at the end.
LEMMA ParseIsLoop ==
    ASSUME NEW file \in Seq(Csv!Row)
    PROVE  \E f : ParsesTo(f, file, Len(file)) /\ Csv!Parse(file) = f[Len(file)]
<1> DEFINE f == CHOOSE h : ParsesTo(h, file, Len(file))
<1>1. Csv!Parse(file) = f[Len(file)]
  BY DEF Csv!Parse, ParsesTo
<1>2. ParsesTo(f, file, Len(file))
  BY LoopExists
<1> QED BY <1>1, <1>2

\* A longer list of rows.
LEMMA ListsNext ==
    ASSUME NEW n \in Nat, NEW s \in Seq(1..n), NEW R, Csv!Lists(s, R)
    PROVE  /\ Append(s, n + 1) \in Seq(1..n + 1)
           /\ Csv!Lists(Append(s, n + 1), R \union {n + 1})
<1>0. \A i \in DOMAIN s : s[i] \in 1..n
  OBVIOUS
<1> DEFINE t == Append(s, n + 1)
<1>1. s \in Seq(1..n + 1) /\ n + 1 \in 1..n + 1
  BY <1>0
<1>2. t \in Seq(1..n + 1)
  BY <1>1
<1>3. DOMAIN t = (DOMAIN s) \union {Len(s) + 1} /\ Len(s) + 1 \notin DOMAIN s
  OBVIOUS
<1>4. (\A i \in DOMAIN s : t[i] = s[i]) /\ t[Len(s) + 1] = n + 1
  OBVIOUS
<1> HIDE DEF t
<1>5. {t[i] : i \in DOMAIN t} = {s[i] : i \in DOMAIN s} \union {n + 1}
  BY <1>3, <1>4
<1>6. ASSUME NEW i \in DOMAIN t, NEW j \in DOMAIN t, i < j PROVE t[i] < t[j]
  <2>1. CASE j \in DOMAIN s
    <3>1. i \in DOMAIN s
      BY <1>3, <1>6, <2>1
    <3> QED BY <1>4, <1>6, <2>1, <3>1 DEF Csv!Lists
  <2>2. CASE j = Len(s) + 1
    <3>1. i \in DOMAIN s
      BY <1>3, <1>6, <2>2
    <3> QED BY <1>0, <1>4, <2>2, <3>1
  <2> QED BY <1>3, <2>1, <2>2
<1>7. Csv!Lists(t, R \union {n + 1})
  BY <1>5, <1>6 DEF Csv!Lists, Csv!ToSet
<1> QED BY <1>2, <1>7 DEF t


\* What a row is to the file, given what the rows before it are.
LEMMA RowIsTold ==
    ASSUME NEW file \in Seq(Csv!Row), NEW n \in Nat, n + 1 \in DOMAIN file,
           NEW p, ToldApart(file, n, p)
    PROVE  /\ n + 1 \in Csv!Reached(file) <=> ~p.broken /\ file[n + 1].cells # "blank"
           /\ n + 1 \in Csv!Reached(file) =>
                (n + 1 \in Csv!Header(file) <=> Csv!IsHeader(p, file[n + 1]))
           /\ n + 1 \in Csv!Reached(file) /\ n + 1 \notin Csv!Header(file) =>
                (n + 1 \in Csv!Kept(file) <=>
                    Csv!Sound(file[n + 1]) /\ ~Csv!Seen(p, file, file[n + 1]))
<1> DEFINE row == file[n + 1]
<1>0. row \in Csv!Row /\ n + 1 \in Nat /\ DOMAIN file = 1..Len(file) /\ 1..(n + 1) - 1 = 1..n
  OBVIOUS
<1>1. n + 1 \in Csv!Reached(file) <=> ~p.broken /\ row.cells # "blank"
  BY <1>0 DEF ToldApart, Csv!Reached
<1>2. \A k \in Csv!Reached(file) : k \in Nat /\ (k < n + 1 <=> k \in ReachedTo(file, n))
  BY <1>0 DEF Csv!Reached, ReachedTo
<1>3. ASSUME n + 1 \in Csv!Reached(file)
      PROVE  n + 1 \in Csv!Header(file) <=> Csv!IsHeader(p, row)
  <2>1. p.first <=> \A k \in Csv!Reached(file) : n + 1 <= k
    <3>1. p.first <=> ReachedTo(file, n) = {}
      BY <1>1, <1>3 DEF ToldApart
    <3>2. ReachedTo(file, n) \subseteq Csv!Reached(file)
      BY DEF ReachedTo
    <3> QED BY <1>2, <3>1, <3>2
  <2>2. row.cells \in {"few", "enough"} <=> row.cells # "broken"
    BY <1>0, <1>1, <1>3 DEF Csv!Row
  <2> QED BY <1>3, <2>1, <2>2 DEF Csv!Header, Csv!IsHeader
<1>4. ASSUME n + 1 \in Csv!Reached(file), n + 1 \notin Csv!Header(file)
      PROVE  n + 1 \in Csv!Kept(file) <=> Csv!Sound(row) /\ ~Csv!Seen(p, file, row)
  <2> DEFINE sound == {i \in Csv!Reached(file) \ Csv!Header(file) : Csv!Sound(file[i])}
             same == {i \in sound : file[i].id = row.id /\ i <= n}
  <2>1. Csv!Kept(file) = {i \in sound : \A k \in sound : file[k].id = file[i].id => i <= k}
    BY DEF Csv!Kept
  <2>2. sound \subseteq Nat
    BY <1>2
  <2>3. Csv!Seen(p, file, row) <=> \E i \in KeptTo(file, n) : file[i].id = row.id
    BY DEF ToldApart, Csv!Seen, Csv!Lists
  <2>4. n + 1 \in sound <=> Csv!Sound(row)
    BY <1>4
  <2> HIDE DEF sound
  <2>5. KeptTo(file, n) \subseteq sound /\ \A k \in KeptTo(file, n) : k <= n
    BY <2>1 DEF KeptTo
  <2>6. ASSUME Csv!Seen(p, file, row) PROVE n + 1 \notin Csv!Kept(file)
    <3>1. PICK i \in KeptTo(file, n) : file[i].id = row.id
      BY <2>3, <2>6
    <3>2. i \in sound /\ i <= n
      BY <2>5
    <3>3. i \in Nat /\ ~(n + 1 <= i)
      BY <2>2, <3>2
    <3> QED BY <2>1, <3>1, <3>2, <3>3
  <2>7. ASSUME Csv!Sound(row), n + 1 \notin Csv!Kept(file) PROVE Csv!Seen(p, file, row)
    <3>1. PICK k \in sound : file[k].id = row.id /\ ~(n + 1 <= k)
      BY <2>1, <2>4, <2>7
    <3>2. k \in same
      BY <2>2, <3>1
    <3>3. same \in SUBSET Nat /\ same # {}
      BY <2>2, <3>2
    <3>4. PICK i \in same : \A m \in same : i <= m
      <4> HIDE DEF same
      <4> QED BY <3>3, LeastNumber
    <3>5. i \in Csv!Kept(file)
      <4>1. ASSUME NEW m \in sound, file[m].id = file[i].id PROVE i <= m
        <5>1. CASE m <= n
          BY <3>4, <4>1, <5>1
        <5>2. CASE ~(m <= n)
          BY <2>2, <3>4, <4>1, <5>2
        <5> QED BY <5>1, <5>2
      <4> QED BY <2>1, <3>4, <4>1
    <3>6. i \in 1..n
      <4>1. i \in Csv!Reached(file) /\ i <= n
        <5>1. i \in Csv!Kept(file) => i \in Csv!Reached(file)
          BY DEF Csv!Kept
        <5> QED BY <3>4, <3>5, <5>1
      <4> QED BY <1>0, <2>2, <4>1 DEF Csv!Reached
    <3> QED BY <2>3, <3>4, <3>5, <3>6 DEF KeptTo
  <2> QED BY <2>1, <2>4, <2>6, <2>7
<1> QED BY <1>1, <1>3, <1>4

\* q is what a turn of the loop makes of p, for each kind of row.
TurnsTo(file, i, p, q) ==
    /\ p.broken \/ file[i].cells = "blank" => q = p
    /\ ~p.broken /\ file[i].cells = "broken" =>
         q = [p EXCEPT !.broken = TRUE, !.rejected = Append(p.rejected, i)]
    /\ ~p.broken /\ file[i].cells \notin {"blank", "broken"} /\ Csv!IsHeader(p, file[i]) =>
         q = [p EXCEPT !.first = FALSE, !.header = {i}]
    /\ ~p.broken /\ file[i].cells \notin {"blank", "broken"} /\ ~Csv!IsHeader(p, file[i]) =>
         q = IF Csv!Sound(file[i]) /\ ~Csv!Seen(p, file, file[i])
             THEN [p EXCEPT !.first = FALSE, !.rules = Append(p.rules, i)]
             ELSE [p EXCEPT !.first = FALSE, !.rejected = Append(p.rejected, i)]

LEMMA RowCases ==
    ASSUME NEW file, NEW n, NEW i, NEW p \in Gathered(n)
    PROVE  TurnsTo(file, i, p, Csv!ParseRow(p, file, i))
<1>1. p.broken \in BOOLEAN
  BY DEF Gathered
<1>2. CASE p.broken \/ file[i].cells = "blank"
  BY <1>1, <1>2 DEF TurnsTo, Csv!ParseRow, Csv!IsHeader
<1>3. CASE ~p.broken /\ file[i].cells = "broken"
  BY <1>1, <1>3 DEF TurnsTo, Csv!ParseRow, Csv!IsHeader
<1>4. CASE ~p.broken /\ file[i].cells \notin {"blank", "broken"} /\ Csv!IsHeader(p, file[i])
  BY <1>1, <1>4 DEF TurnsTo, Csv!ParseRow
<1>5. CASE ~p.broken /\ file[i].cells \notin {"blank", "broken"} /\ ~Csv!IsHeader(p, file[i])
  BY <1>1, <1>5 DEF TurnsTo, Csv!ParseRow
<1> QED BY <1>2, <1>3, <1>4, <1>5

\* One turn of the loop.
LEMMA RowStep ==
    ASSUME NEW file \in Seq(Csv!Row), NEW n \in Nat, n + 1 \in DOMAIN file,
           NEW p, ToldApart(file, n, p)
    PROVE  ToldApart(file, n + 1, Csv!ParseRow(p, file, n + 1))
<1> DEFINE row == file[n + 1]
           q == Csv!ParseRow(p, file, n + 1)
           more(b, S) == S \union (IF b THEN {n + 1} ELSE {})
<1>0. row \in Csv!Row /\ 1..n + 1 = (1..n) \union {n + 1} /\ n + 1 \notin 1..n
  OBVIOUS
<1> HIDE DEF q
<1>turn. TurnsTo(file, n + 1, p, q)
  BY RowCases DEF q, ToldApart
<1>1. p \in Gathered(n) /\ p \in Gathered(n + 1)
  BY DEF ToldApart, Gathered
<1>2. /\ ReachedTo(file, n + 1) = more(n + 1 \in Csv!Reached(file), ReachedTo(file, n))
      /\ HeaderTo(file, n + 1) = more(n + 1 \in Csv!Header(file), HeaderTo(file, n))
      /\ KeptTo(file, n + 1) = more(n + 1 \in Csv!Kept(file), KeptTo(file, n))
  BY <1>0 DEF ReachedTo, HeaderTo, KeptTo
<1>3. RestTo(file, n + 1) = more(n + 1 \in Csv!Reached(file) /\ n + 1 \notin Csv!Header(file)
                                 /\ n + 1 \notin Csv!Kept(file), RestTo(file, n))
  BY <1>0, <1>2 DEF RestTo, ReachedTo, HeaderTo, KeptTo
<1>4. Csv!Kept(file) \subseteq Csv!Reached(file) \ Csv!Header(file)
      /\ Csv!Header(file) \subseteq Csv!Reached(file)
  BY DEF Csv!Kept, Csv!Header
<1>5. (\E k \in 1..n + 1 : file[k].cells = "broken") <=> p.broken \/ row.cells = "broken"
  BY <1>0 DEF ToldApart, q
<1>lists. /\ Append(p.rules, n + 1) \in Seq(1..n + 1)
      /\ Csv!Lists(Append(p.rules, n + 1), KeptTo(file, n) \union {n + 1})
      /\ Append(p.rejected, n + 1) \in Seq(1..n + 1)
      /\ Csv!Lists(Append(p.rejected, n + 1), RestTo(file, n) \union {n + 1})
  <2>1. p.rules \in Seq(1..n) /\ p.rejected \in Seq(1..n)
    BY <1>1 DEF Gathered
  <2> QED BY <2>1, ListsNext DEF ToldApart, q
<1>6. CASE n + 1 \notin Csv!Reached(file)
  <2>1. p.broken \/ row.cells = "blank"
    BY <1>6, RowIsTold
  <2>2. q = p
    BY <1>turn, <2>1 DEF TurnsTo
  <2>3. /\ ReachedTo(file, n + 1) = ReachedTo(file, n) /\ HeaderTo(file, n + 1) = HeaderTo(file, n)
        /\ KeptTo(file, n + 1) = KeptTo(file, n) /\ RestTo(file, n + 1) = RestTo(file, n)
    BY <1>2, <1>3, <1>4, <1>6
  <2>4. (\E k \in 1..n + 1 : file[k].cells = "broken") <=> p.broken
    BY <1>5, <2>1
  <2> QED BY <1>1, <2>2, <2>3, <2>4 DEF ToldApart, q
<1>7. CASE n + 1 \in Csv!Reached(file) /\ row.cells = "broken"
  <2>1. ~p.broken /\ n + 1 \notin Csv!Header(file) /\ n + 1 \notin Csv!Kept(file)
    BY <1>7, RowIsTold DEF Csv!Header, Csv!Kept, Csv!Sound
  <2>2. q = [p EXCEPT !.broken = TRUE, !.rejected = Append(@, n + 1)]
    BY <1>turn, <1>7, <2>1 DEF TurnsTo
  <2>3. /\ q \in Gathered(n + 1)
        /\ q.broken /\ q.header = p.header /\ q.rules = p.rules
        /\ q.rejected = Append(p.rejected, n + 1)
    BY <1>1, <1>lists, <2>2 DEF Gathered
  <2>4. /\ HeaderTo(file, n + 1) = HeaderTo(file, n) /\ KeptTo(file, n + 1) = KeptTo(file, n)
        /\ RestTo(file, n + 1) = RestTo(file, n) \union {n + 1}
    BY <1>2, <1>3, <1>7, <2>1
  <2> QED BY <1>5, <1>7, <1>lists, <2>3, <2>4 DEF ToldApart, q
<1>8. CASE n + 1 \in Csv!Header(file) /\ row.cells # "broken"
  <2>1. /\ ~p.broken /\ row.cells \notin {"blank", "broken"} /\ Csv!IsHeader(p, row)
        /\ n + 1 \in Csv!Reached(file) /\ n + 1 \notin Csv!Kept(file)
    BY <1>4, <1>8, RowIsTold
  <2>2. q = [p EXCEPT !.first = FALSE, !.header = {n + 1}]
    BY <1>turn, <2>1 DEF TurnsTo
  <2>3. /\ q \in Gathered(n + 1) /\ ~q.first /\ ~q.broken /\ q.header = {n + 1}
        /\ q.rules = p.rules /\ q.rejected = p.rejected
    BY <1>0, <1>1, <2>1, <2>2 DEF Gathered
  <2>4. HeaderTo(file, n) = {}
    <3>1. ReachedTo(file, n) = {}
      BY <2>1 DEF Csv!IsHeader, ToldApart
    <3> QED BY <1>4, <3>1 DEF HeaderTo, ReachedTo
  <2>5. /\ HeaderTo(file, n + 1) = {n + 1} /\ KeptTo(file, n + 1) = KeptTo(file, n)
        /\ RestTo(file, n + 1) = RestTo(file, n) /\ ReachedTo(file, n + 1) # {}
    BY <1>2, <1>3, <1>8, <2>1, <2>4
  <2> QED BY <1>5, <2>1, <2>3, <2>5 DEF ToldApart, q
<1>9. CASE n + 1 \in Csv!Kept(file) /\ row.cells # "broken"
  <2>1. /\ ~p.broken /\ row.cells \notin {"blank", "broken"} /\ ~Csv!IsHeader(p, row)
        /\ n + 1 \in Csv!Reached(file) /\ n + 1 \notin Csv!Header(file)
        /\ Csv!Sound(row) /\ ~Csv!Seen(p, file, row)
    BY <1>4, <1>9, RowIsTold
  <2>2. q = [p EXCEPT !.first = FALSE, !.rules = Append(p.rules, n + 1)]
    BY <1>turn, <2>1 DEF TurnsTo
  <2>3. /\ q \in Gathered(n + 1) /\ ~q.first /\ ~q.broken /\ q.header = p.header
        /\ q.rules = Append(p.rules, n + 1) /\ q.rejected = p.rejected
    BY <1>1, <1>lists, <2>1, <2>2 DEF Gathered
  <2>4. /\ HeaderTo(file, n + 1) = HeaderTo(file, n)
        /\ KeptTo(file, n + 1) = KeptTo(file, n) \union {n + 1}
        /\ RestTo(file, n + 1) = RestTo(file, n) /\ ReachedTo(file, n + 1) # {}
    BY <1>2, <1>3, <1>9, <2>1
  <2> QED BY <1>5, <1>lists, <2>1, <2>3, <2>4 DEF ToldApart, q
<1>10. CASE /\ n + 1 \in Csv!Reached(file) /\ n + 1 \notin Csv!Header(file)
            /\ n + 1 \notin Csv!Kept(file) /\ row.cells # "broken"
  <2>1. /\ ~p.broken /\ row.cells \notin {"blank", "broken"} /\ ~Csv!IsHeader(p, row)
        /\ ~(Csv!Sound(row) /\ ~Csv!Seen(p, file, row))
    BY <1>10, RowIsTold
  <2>2. q = [p EXCEPT !.first = FALSE, !.rejected = Append(p.rejected, n + 1)]
    BY <1>turn, <2>1 DEF TurnsTo
  <2>3. /\ q \in Gathered(n + 1) /\ ~q.first /\ ~q.broken /\ q.header = p.header
        /\ q.rules = p.rules /\ q.rejected = Append(p.rejected, n + 1)
    BY <1>1, <1>lists, <2>1, <2>2 DEF Gathered
  <2>4. /\ HeaderTo(file, n + 1) = HeaderTo(file, n)
        /\ KeptTo(file, n + 1) = KeptTo(file, n)
        /\ RestTo(file, n + 1) = RestTo(file, n) \union {n + 1} /\ ReachedTo(file, n + 1) # {}
    BY <1>2, <1>3, <1>10
  <2> QED BY <1>5, <1>lists, <2>1, <2>3, <2>4 DEF ToldApart, q
<1> QED BY <1>4, <1>6, <1>7, <1>8, <1>9, <1>10

\* In every file the parser finds the header, keeps the first sound row of each
\* id and reports every other row with content, in the order of the file
\* (parse_rules_csv).
THEOREM EveryRowIsCounted == \A file \in Seq(Csv!Row) : Csv!EveryRowCounts(file)
<1> SUFFICES ASSUME NEW file \in Seq(Csv!Row) PROVE Csv!EveryRowCounts(file)
  OBVIOUS
<1>1. PICK f : ParsesTo(f, file, Len(file)) /\ Csv!Parse(file) = f[Len(file)]
  BY ParseIsLoop
<1> DEFINE G == {n \in Nat : n <= Len(file) => ToldApart(file, n, f[n])}
<1>2. 0 \in G
  <2>1. f[0] = Csv!Start
    BY <1>1 DEF ParsesTo
  <2>2. ReachedTo(file, 0) = {} /\ HeaderTo(file, 0) = {} /\ KeptTo(file, 0) = {}
        /\ RestTo(file, 0) = {}
    BY DEF ReachedTo, HeaderTo, KeptTo, RestTo
  <2>3. Csv!Lists(<<>>, {})
    BY DEF Csv!Lists, Csv!ToSet
  <2>4. ToldApart(file, 0, Csv!Start)
    <3>1. Csv!Start \in Gathered(0)
      BY DEF Gathered, Csv!Start
    <3>2. ~\E k \in 1..0 : file[k].cells = "broken"
      OBVIOUS
    <3> QED BY <2>2, <2>3, <3>1, <3>2 DEF ToldApart, Csv!Start
  <2> QED BY <2>1, <2>4
<1>3. ASSUME NEW n \in Nat, n \in G PROVE n + 1 \in G
  <2> SUFFICES ASSUME n + 1 <= Len(file) PROVE ToldApart(file, n + 1, f[n + 1])
    OBVIOUS
  <2>1. n + 1 \in DOMAIN file /\ ToldApart(file, n, f[n])
    BY <1>3
  <2>2. f[n + 1] = Csv!ParseRow(f[n], file, n + 1)
    BY <1>1 DEF ParsesTo
  <2> QED BY <2>1, <2>2, RowStep
<1> HIDE DEF G
<1>4. Len(file) \in G
  BY <1>2, <1>3, Counting
<1>5. ToldApart(file, Len(file), Csv!Parse(file))
  BY <1>1, <1>4 DEF G
<1>6. Csv!Reached(file) \subseteq 1..Len(file) /\ Csv!Header(file) \subseteq Csv!Reached(file)
      /\ Csv!Kept(file) \subseteq Csv!Reached(file)
  BY DEF Csv!Reached, Csv!Header, Csv!Kept
<1>7. HeaderTo(file, Len(file)) = Csv!Header(file) /\ KeptTo(file, Len(file)) = Csv!Kept(file)
      /\ RestTo(file, Len(file)) = Csv!Reached(file) \ (Csv!Header(file) \union Csv!Kept(file))
  BY <1>6 DEF ReachedTo, HeaderTo, KeptTo, RestTo
<1> QED BY <1>5, <1>7 DEF ToldApart, Csv!EveryRowCounts

-----------------------------------------------------------------------------
(* Jobs and their files *)

\* Only a submission decides what a job merges, and brings the job about.
LEMMA FilesStay ==
    ASSUME TypeOK, RulesAreKnown, Continue
    PROVE  /\ UNCHANGED <<blob, upload>>
           /\ \A i \in Job : job[i] = "absent" => job'[i] = "absent"
<1> DEFINE Kept == /\ UNCHANGED <<blob, upload>>
                   /\ \A i \in Job : job[i] = "absent" => job'[i] = "absent"
<1>1. ASSUME NEW j \in Job, JobStep(j) PROVE Kept
  <2>1. UNCHANGED <<blob, upload>>
    BY <1>1 DEF JobStep, Launch, LaunchUndo, AttemptStart, IngestRead, ChunksDone, Upsert,
       PublishCheckpoint, PublishFinal, Report, AttemptFailed, Exit
  <2>2. CASE UNCHANGED job
    BY <2>1, <2>2
  <2>3. CASE ~UNCHANGED job
    <3>1. LaunchUndo(j) \/ AttemptStart(j) \/ Report(j) \/ AttemptFailed(j)
      BY <1>1, <2>3 DEF JobStep, Launch, IngestRead, ChunksDone, Upsert,
         PublishCheckpoint, PublishFinal, Exit
    <3>2. api[j] # "idle" \/ exec[j].pc # "none"
      BY <3>1 DEF LaunchUndo, AttemptStart, Report, AttemptFailed
    <3>3. job[j] # "absent"
      BY <3>2 DEF RulesAreKnown, NoExec
    <3>4. \A i \in Job : i # j => job'[i] = job[i]
      BY <3>1, <2>3 DEF LaunchUndo, AttemptStart, Report, AttemptFailed, GiveUp, SetStatus, TypeOK
    <3> QED BY <2>1, <3>3, <3>4
  <2> QED BY <2>2, <2>3
<1>2. ASSUME NEW j \in Job, SubmitAborts(j) \/ StorageFails(j) \/ Crash(j) PROVE Kept
  BY <1>2 DEF SubmitAborts, StorageFails, Crash
<1>3. ASSUME NEW v \in Review, ReviewStep(v) PROVE Kept
  BY <1>3 DEF ReviewStep, ReviewSubmit, ReviewRetrieve, ReviewRetry, ReviewFinish
<1> QED BY <1>1, <1>2, <1>3 DEF Continue

LEMMA FilesHold == Spec => []UploadsAreParsed
<1>1. Init => UploadsAreParsed
  BY DEF Init, UploadsAreParsed
<1>2. TypeOK /\ RulesAreKnown /\ UploadsAreParsed /\ [Next]_vars => UploadsAreParsed'
  <2> SUFFICES ASSUME TypeOK, RulesAreKnown, UploadsAreParsed, [Next]_vars
               PROVE  UploadsAreParsed'
    OBVIOUS
  <2>1. CASE UNCHANGED vars
    BY <2>1 DEF vars, UploadsAreParsed
  <2>2. CASE Continue
    BY <2>2, FilesStay DEF UploadsAreParsed
  <2>3. ASSUME NEW j \in Job, NEW file \in File, Submit(j, file) PROVE UploadsAreParsed'
    <3>1. file \in Seq(Csv!Row) /\ Accepts[file] = Csv!Accepted(file, None)
      BY FileAssumption
    <3>2. /\ blob'[j] = file /\ upload'[j] = Accepts[file]
          /\ \A i \in Job : i # j =>
               blob'[i] = blob[i] /\ upload'[i] = upload[i] /\ job'[i] = job[i]
      BY <2>3 DEF Submit, SetStatus, TypeOK
    <3> QED BY <3>1, <3>2 DEF UploadsAreParsed
  <2> QED BY <2>1, <2>2, <2>3 DEF Next
<1> QED BY <1>1, <1>2, CorpusTypes, KnownHolds, PTL DEF Spec

\* The text accepted for an id is that of the one row kept of it.
LEMMA KeptIsAccepted ==
    ASSUME NEW file \in Seq(Csv!Row), NEW i \in Csv!Kept(file)
    PROVE  /\ file[i].id \in Rule /\ file[i].text # None
           /\ Csv!Accepted(file, None)[file[i].id] = file[i].text
<1> DEFINE r == file[i].id
           kept == {k \in ToSet(Csv!Parse(file).rules) : file[k].id = r}
<1>1. ToSet(Csv!Parse(file).rules) = Csv!Kept(file)
  BY EveryRowIsCounted DEF Csv!EveryRowCounts, Csv!Lists, Csv!ToSet, ToSet
<1>2. Csv!Sound(file[i])
  BY DEF Csv!Kept
<1>3. r \in Rule /\ file[i].text # None
  BY <1>2, CorpusAssumption DEF Csv!Sound
<1>4. kept = {i}
  <2>1. Csv!Kept(file) \subseteq Nat
    BY DEF Csv!Kept, Csv!Reached
  <2>2. ASSUME NEW k \in Csv!Kept(file), file[k].id = r PROVE k = i
    <3>1. i <= k /\ k <= i
      BY <2>2 DEF Csv!Kept
    <3> QED BY <2>1, <3>1
  <2> QED BY <1>1, <2>2
<1>5. Csv!Accepted(file, None)[r] = IF kept = {} THEN None ELSE file[CHOOSE k \in kept : TRUE].text
  BY <1>3 DEF Csv!Accepted, Csv!ToSet, ToSet
<1>6. (CHOOSE k \in kept : TRUE) = i
  BY <1>4
<1> QED BY <1>3, <1>4, <1>5, <1>6

\* When jobs come one at a time, a job that is done has merged its own file: the
\* first sound row of each id is in the table, and all other rows that the reader
\* came to were reported, but for the header (parse_rules_csv, ingest, run).
THEOREM JobsAreWellRead == OneAtATime => (Spec => DoneHasItsRows)
<1> SUFFICES ASSUME OneAtATime PROVE Spec => DoneHasItsRows
  OBVIOUS
<1> DEFINE Merges ==
      \A j \in Job : job[j] # "done" /\ job'[j] = "done" =>
          /\ \A r \in Rule : upload[j][r] # None => table[r] = upload[j][r]
          /\ published = table
<1>1. Spec => [][Merges]_vars
  BY DoneComplete DEF DoneIsComplete
<1>2. TypeOK /\ RulesAreKnown /\ UploadsAreParsed /\ [Next]_vars /\ [Merges]_vars =>
        [\A j \in Job : job[j] # "done" /\ job'[j] = "done" =>
           LET file == blob[j] IN
           /\ \A i \in Csv!Kept(file) : table[file[i].id] = file[i].text
           /\ ToSet(Csv!Parse(file).rejected) =
                Csv!Reached(file) \ (Csv!Header(file) \union Csv!Kept(file))]_vars
  <2> SUFFICES ASSUME TypeOK, RulesAreKnown, UploadsAreParsed, [Next]_vars, [Merges]_vars,
                      NEW j \in Job, job[j] # "done", job'[j] = "done"
               PROVE  /\ \A i \in Csv!Kept(blob[j]) : table[blob[j][i].id] = blob[j][i].text
                      /\ ToSet(Csv!Parse(blob[j]).rejected) =
                           Csv!Reached(blob[j]) \ (Csv!Header(blob[j]) \union Csv!Kept(blob[j]))
    OBVIOUS
  <2>1. blob[j] \in Seq(Csv!Row) /\ upload[j] = Csv!Accepted(blob[j], None)
    <3>1. ASSUME NEW i \in Job, NEW file \in File PROVE ~Submit(i, file)
      BY <3>1 DEF Submit, SetStatus, TypeOK
    <3>2. Continue
      BY <3>1 DEF Next, vars
    <3>3. job[j] # "absent"
      BY <3>2, FilesStay
    <3> QED BY <3>3 DEF UploadsAreParsed
  <2>2. \A r \in Rule : upload[j][r] # None => table[r] = upload[j][r]
    <3>1. ~UNCHANGED vars
      BY DEF vars
    <3> QED BY <3>1
  <2>3. ASSUME NEW i \in Csv!Kept(blob[j]) PROVE table[blob[j][i].id] = blob[j][i].text
    BY <2>1, <2>2, <2>3, KeptIsAccepted
  <2>4. ToSet(Csv!Parse(blob[j]).rejected) =
          Csv!Reached(blob[j]) \ (Csv!Header(blob[j]) \union Csv!Kept(blob[j]))
    BY <2>1, EveryRowIsCounted DEF Csv!EveryRowCounts, Csv!Lists, Csv!ToSet, ToSet
  <2> QED BY <2>3, <2>4
<1> QED BY <1>1, <1>2, FilesHold, CorpusTypes, KnownHolds, PTL DEF DoneHasItsRows, Spec

-----------------------------------------------------------------------------
(* Why a job ends *)

AtWork(j) == exec[j].pc \notin {"none", "ended"}

\* What an execution at work can have before it.
StepsShape(j) ==
    /\ AtWork(j) => StepsInAttempt(j) \in Nat /\ 1 <= StepsInAttempt(j)
                    /\ StepsInAttempt(j) < AttemptSteps
    /\ exec[j].attempt \in Nat /\ MaxRetries - exec[j].attempt \in Nat
    /\ RequestSteps(j) \in Nat /\ ExecutionSteps(j) \in Nat

LEMMA Numbers == MaxRetries \in Nat /\ AttemptSteps \in Nat /\ AttemptSteps = 2 * Cardinality(Rule) + 7
                 /\ Cardinality(Rule) \in Nat
  <1>1. Cardinality(Rule) \in Nat
    BY CorpusAssumption, FS_CardinalityType
  <1>2. QED
    BY <1>1, CorpusAssumption DEF AttemptSteps

LEMMA TodoIsSmall ==
    ASSUME NEW S \in SUBSET Rule
    PROVE  /\ IsFiniteSet(S) /\ Cardinality(S) \in Nat
           /\ Cardinality(S) <= Cardinality(Rule)
  <1>1. IsFiniteSet(S) /\ Cardinality(S) <= Cardinality(Rule)
    BY CorpusAssumption, FS_Subset
  <1>2. QED
    BY <1>1, FS_CardinalityType

\* Attempts left, and what each of them takes.
LEMMA Products ==
    ASSUME NEW n \in Nat
    PROVE  /\ n * AttemptSteps \in Nat
           /\ (n + 1) * AttemptSteps = n * AttemptSteps + AttemptSteps
           /\ \A m \in Nat : (n + m) * AttemptSteps = n * AttemptSteps + m * AttemptSteps
  <1>1. AttemptSteps \in Nat
    BY Numbers
  <1>2. QED BY <1>1

LEMMA StepsShapes == TypeOK => \A j \in Job : StepsShape(j)
  <1> SUFFICES ASSUME TypeOK, NEW j \in Job PROVE StepsShape(j)
    OBVIOUS
  <1>1. exec[j] \in ExecState
    BY DEF TypeOK
  <1>2. exec[j].attempt \in 0..MaxRetries /\ exec[j].todo \in SUBSET Rule
    BY <1>1 DEF ExecState
  <1>3. /\ Cardinality(exec[j].todo) \in Nat
        /\ Cardinality(exec[j].todo) <= Cardinality(Rule)
    BY <1>2, TodoIsSmall
  <1>4. exec[j].attempt \in Nat /\ MaxRetries - exec[j].attempt \in Nat
    BY <1>2, Numbers
  <1>5. ASSUME AtWork(j)
        PROVE  /\ StepsInAttempt(j) \in Nat /\ 1 <= StepsInAttempt(j)
               /\ StepsInAttempt(j) < AttemptSteps
    <2>1. exec[j].pc \in {"start", "read", "chunk", "publish", "finish", "report", "failing",
                          "exit"}
      BY <1>1, <1>5 DEF AtWork, ExecState
    <2> DEFINE n == Cardinality(exec[j].todo)
               m == Cardinality(Rule)
    <2>2. n \in Nat /\ m \in Nat /\ n <= m /\ AttemptSteps = 2 * m + 7
      BY <1>3, Numbers
    <2> HIDE DEF n, m
    <2>3. StepsInAttempt(j) = CASE exec[j].pc = "start" -> AttemptSteps - 1
            [] exec[j].pc = "read" -> AttemptSteps - 2
            [] exec[j].pc = "publish" -> 2 * n + 5
            [] exec[j].pc = "chunk" -> 2 * n + 4
            [] exec[j].pc = "finish" -> 3
            [] exec[j].pc \in {"report", "failing"} -> 2
            [] exec[j].pc = "exit" -> 1
      BY DEF StepsInAttempt, n
    <2>4. QED BY <2>1, <2>2, <2>3
  <1>6. RequestSteps(j) \in Nat
    <2>1. api[j] \in {"idle", "launch", "undo"}
      BY DEF TypeOK
    <2>2. QED BY <2>1 DEF RequestSteps
  <1>7. ExecutionSteps(j) \in Nat
    <2>1. /\ (MaxRetries + 1) * AttemptSteps \in Nat
          /\ (MaxRetries - exec[j].attempt) * AttemptSteps \in Nat
      <3>1. MaxRetries + 1 \in Nat /\ MaxRetries - exec[j].attempt \in Nat
        BY <1>4, Numbers
      <3>2. QED BY <3>1, Products
    <2>2. CASE AtWork(j)
      <3>1. ExecutionSteps(j) =
                (MaxRetries - exec[j].attempt) * AttemptSteps + StepsInAttempt(j)
        BY <2>2 DEF ExecutionSteps, AtWork
      <3>2. StepsInAttempt(j) \in Nat
        BY <1>5, <2>2
      <3>3. QED BY <2>1, <3>1, <3>2
    <2>3. CASE ~AtWork(j)
      BY <2>1, <2>3 DEF ExecutionSteps, AtWork
    <2>4. QED BY <2>2, <2>3
  <1>8. QED BY <1>4, <1>5, <1>6, <1>7 DEF StepsShape

LEMMA StepsShapesNext == TypeOK' => \A j \in Job : StepsShape(j)'
  <1>1. TypeOK' => (\A j \in Job : StepsShape(j))'
    BY StepsShapes, PTL
  <1>2. QED BY <1>1

\* The four ways in which an execution goes on.
Starts(j) == exec[j].pc = "none" /\ exec'[j].pc = "start"

Proceeds(j) ==
    /\ AtWork(j) /\ exec'[j].pc \notin {"none", "ended"}
    /\ exec'[j].attempt = exec[j].attempt
    /\ StepsInAttempt(j)' < StepsInAttempt(j)

TriesAgain(j) ==
    /\ AtWork(j) /\ exec'[j].pc = "start"
    /\ exec'[j].attempt = exec[j].attempt + 1

Stops(j) == AtWork(j) /\ exec'[j].pc = "ended"

LEMMA ExecutionFalls ==
    ASSUME NEW j \in Job, StepsShape(j), StepsShape(j)',
           Starts(j) \/ Proceeds(j) \/ TriesAgain(j) \/ Stops(j)
    PROVE  ExecutionSteps(j)' < ExecutionSteps(j)
  <1> DEFINE A == AttemptSteps
             left == MaxRetries - exec[j].attempt
             now == StepsInAttempt(j)
  <1>1. A \in Nat /\ 7 <= A /\ MaxRetries \in Nat /\ AttemptSteps' = A
    BY Numbers DEF AttemptSteps
  <1>2. left \in Nat
    BY DEF StepsShape
  <1>3. left * A \in Nat
    BY <1>2, Products
  <1>4. AtWork(j) => /\ ExecutionSteps(j) = left * A + now
                     /\ now \in Nat /\ 1 <= now
    BY DEF AtWork, ExecutionSteps, StepsShape
  <1>5. CASE Starts(j)
    <2>1. StepsInAttempt(j)' = A - 1
      BY <1>1, <1>5 DEF StepsInAttempt, Starts
    <2> DEFINE first == exec'[j].attempt
               rest == MaxRetries - first
    <2>2. ExecutionSteps(j)' = rest * A + (A - 1)
      BY <1>1, <1>5, <2>1 DEF ExecutionSteps, Starts
    <2>3. ExecutionSteps(j) = (MaxRetries + 1) * A
      BY <1>5 DEF ExecutionSteps, Starts
    <2>4. rest \in Nat /\ first \in Nat /\ MaxRetries = rest + first
      BY <1>1 DEF StepsShape
    <2>5. /\ (MaxRetries + 1) * A = MaxRetries * A + A
          /\ (rest + first) * A = rest * A + first * A
          /\ MaxRetries * A \in Nat /\ rest * A \in Nat /\ first * A \in Nat
      BY <1>1, <2>4, Products
    <2>6. MaxRetries * A = rest * A + first * A
      BY <2>4, <2>5
    <2> HIDE DEF A, first, rest
    <2>7. QED BY <1>1, <2>2, <2>3, <2>5, <2>6
  <1>6. CASE Proceeds(j)
    <2>1. ExecutionSteps(j)' = (MaxRetries - exec'[j].attempt) * A + StepsInAttempt(j)'
      BY <1>1, <1>6 DEF ExecutionSteps, Proceeds
    <2>2. StepsInAttempt(j)' \in Nat
      BY <1>6 DEF Proceeds, StepsShape, AtWork
    <2>3. ExecutionSteps(j)' = left * A + StepsInAttempt(j)' /\ StepsInAttempt(j)' < now
      BY <1>6, <2>1 DEF Proceeds
    <2> HIDE DEF A, left, now
    <2>4. QED BY <1>3, <1>4, <1>6, <2>2, <2>3 DEF Proceeds
  <1>7. CASE TriesAgain(j)
    <2>1. StepsInAttempt(j)' = A - 1
      BY <1>1, <1>7 DEF StepsInAttempt, TriesAgain
    <2>2. ExecutionSteps(j)' = (MaxRetries - exec'[j].attempt) * A + (A - 1)
      BY <1>1, <1>7, <2>1 DEF ExecutionSteps, TriesAgain
    <2> DEFINE less == MaxRetries - exec'[j].attempt
    <2>3. less \in Nat /\ left = less + 1
      BY <1>1, <1>7 DEF StepsShape, TriesAgain
    <2>4. (less + 1) * A = less * A + A /\ less * A \in Nat
      BY <2>3, Products
    <2>5. ExecutionSteps(j)' = less * A + (A - 1)
      BY <2>2
    <2>6. ExecutionSteps(j) = (less + 1) * A + now /\ now \in Nat
      BY <1>4, <1>7, <2>3 DEF TriesAgain
    <2> HIDE DEF A, left, now, less
    <2>7. QED BY <1>1, <2>4, <2>5, <2>6
  <1>8. CASE Stops(j)
    <2>1. ExecutionSteps(j)' = 0
      BY <1>8 DEF ExecutionSteps, Stops
    <2> HIDE DEF A, left, now
    <2>2. QED BY <1>3, <1>4, <1>8, <2>1 DEF Stops
  <1>9. QED BY <1>5, <1>6, <1>7, <1>8

LEMMA GotoPlace ==
    ASSUME TypeOK, NEW j \in Job, NEW pc, Goto(j, pc)
    PROVE  /\ \A i \in Job : i # j => exec'[i] = exec[i]
           /\ exec'[j].pc = pc /\ exec'[j].attempt = exec[j].attempt
           /\ exec'[j].todo = exec[j].todo
  BY DEF TypeOK, ExecState, Goto

\* A job that is at work or whose request is has been submitted.
LEMMA NextAttemptPlace ==
    ASSUME TypeOK, NEW j \in Job, AtWork(j), NextAttempt(j)
    PROVE  /\ \A i \in Job : i # j => exec'[i] = exec[i]
           /\ TriesAgain(j) \/ Stops(j)
           /\ exec[j].attempt < MaxRetries <=> TriesAgain(j)
  <1>1. exec[j] \in ExecState
    BY DEF TypeOK
  <1>2. CASE exec[j].attempt < MaxRetries
    <2>1. exec' = [exec EXCEPT ![j] =
             [NoExec EXCEPT !.pc = "start", !.attempt = exec[j].attempt + 1]]
      BY <1>2 DEF NextAttempt
    <2>2. QED
      BY <1>2, <2>1 DEF TypeOK, NoExec, TriesAgain
  <1>3. CASE ~(exec[j].attempt < MaxRetries)
    <2>1. exec' = [exec EXCEPT ![j] = [exec[j] EXCEPT !.pc = "ended"]]
      BY <1>3 DEF NextAttempt
    <2>2. QED
      BY <1>1, <1>3, <2>1 DEF TypeOK, ExecState, Stops, TriesAgain
  <1>4. QED BY <1>2, <1>3

\* The rest of the file shrinks with each checkpoint.
LEMMA ChunkShrinks ==
    ASSUME TypeOK, NEW j \in Job, NEW chunk \in SUBSET Rule, IsChunk(j, chunk)
    PROVE  /\ Cardinality(exec[j].todo) \in Nat
           /\ Cardinality(exec[j].todo \ chunk) \in Nat
           /\ Cardinality(exec[j].todo \ chunk) < Cardinality(exec[j].todo)
  <1> DEFINE todo == exec[j].todo
             rest == todo \ chunk
  <1>1. todo \in SUBSET Rule /\ chunk \subseteq todo /\ chunk # {}
    BY DEF TypeOK, ExecState, IsChunk
  <1>2. IsFiniteSet(todo) /\ Cardinality(todo) \in Nat
    BY <1>1, TodoIsSmall
  <1>3. rest \in SUBSET Rule /\ rest \in SUBSET todo /\ rest # todo
    BY <1>1
  <1>4. Cardinality(rest) \in Nat
    BY <1>3, TodoIsSmall
  <1>5. Cardinality(rest) <= Cardinality(todo) /\ Cardinality(rest) # Cardinality(todo)
    <2> HIDE DEF todo, rest
    <2>1. QED BY <1>2, <1>3, FS_Subset
  <1>6. QED
    BY <1>2, <1>4, <1>5

\* What a step of a job does to its own execution and to the others.
JobMoves(j) ==
    /\ \A i \in Job : i # j => exec'[i] = exec[i] /\ api'[i] = api[i] /\ job'[i] = job[i]
    /\ job[j] # "absent" /\ job'[j] # "absent"
    /\ \/ /\ UNCHANGED api
          /\ Proceeds(j) \/ TriesAgain(j) \/ Stops(j)
       \/ /\ api[j] = "launch" /\ api'[j] = "idle" /\ Starts(j)
       \/ /\ api[j] = "launch" /\ api'[j] = "undo" /\ (exec'[j] = exec[j] \/ Starts(j))
       \/ /\ api[j] \in {"launch", "undo"} /\ api'[j] = "idle" /\ exec'[j] = exec[j]

Statuses == {"absent", "queued", "running", "retrying", "done", "failed"}

LEMMA StatusSet ==
    ASSUME TypeOK, NEW j \in Job, NEW status \in Statuses \ {"absent"}, SetStatus(j, status)
    PROVE  job'[j] = status /\ \A i \in Job : i # j => job'[i] = job[i]
  BY DEF TypeOK, SetStatus

LEMMA JobMovesOn ==
    ASSUME TypeOK, RulesAreKnown, LaunchedOnce, NEW j \in Job,
           JobStep(j) \/ SubmitAborts(j) \/ StorageFails(j) \/ Crash(j)
    PROVE  JobMoves(j)
  <1>1. exec[j].pc # "none" \/ api[j] # "idle" => job[j] # "absent"
    BY DEF RulesAreKnown, NoExec
  <1>2. CASE Launch(j) \/ LaunchUndo(j) \/ SubmitAborts(j)
    <2>1. job[j] # "absent" /\ job'[j] # "absent"
      BY <1>1, <1>2 DEF Launch, LaunchUndo, SubmitAborts, SetStatus, TypeOK
    <2>2. \A i \in Job : i # j => exec'[i] = exec[i] /\ job'[i] = job[i] /\ api'[i] = api[i]
      BY <1>2, GotoState DEF Launch, LaunchUndo, SubmitAborts, SetStatus, TypeOK
    <2>3. ASSUME api[j] = "launch", Goto(j, "start")
          PROVE  Starts(j)
      <3>1. exec[j].pc = "none"
        BY <2>3 DEF LaunchedOnce
      <3>2. QED BY <2>3, <3>1, GotoPlace DEF Starts
    <2>4. CASE Launch(j)
      BY <2>1, <2>2, <2>3, <2>4 DEF Launch, JobMoves, TypeOK
    <2>5. CASE LaunchUndo(j) \/ SubmitAborts(j)
      BY <2>1, <2>2, <2>5 DEF LaunchUndo, SubmitAborts, JobMoves, TypeOK
    <2>6. QED BY <1>2, <2>4, <2>5
  <1>3. ASSUME AtWork(j), UNCHANGED api, Proceeds(j) \/ TriesAgain(j) \/ Stops(j),
               \A i \in Job : i # j => exec'[i] = exec[i] /\ job'[i] = job[i],
               job'[j] # "absent"
        PROVE  JobMoves(j)
    BY <1>1, <1>3 DEF JobMoves, AtWork
  <1>4. ASSUME NEW pc, Goto(j, pc), pc \notin {"none", "ended"}, AtWork(j),
               StepsInAttempt(j)' < StepsInAttempt(j), UNCHANGED api,
               \A i \in Job : i # j => job'[i] = job[i], job'[j] # "absent"
        PROVE  JobMoves(j)
    BY <1>3, <1>4, GotoPlace DEF Proceeds
  <1>5. /\ Cardinality(exec[j].todo) \in Nat /\ Cardinality(Rule) \in Nat
        /\ AttemptSteps = 2 * Cardinality(Rule) + 7 /\ AttemptSteps' = AttemptSteps
    <2>1. exec[j].todo \in SUBSET Rule
      BY DEF TypeOK, ExecState
    <2>2. QED BY <2>1, TodoIsSmall, Numbers DEF AttemptSteps
  <1>6. CASE AttemptStart(j)
    <2>1. exec[j].pc = "start" /\ AtWork(j) /\ StepsInAttempt(j) = AttemptSteps - 1
      BY <1>6 DEF AttemptStart, AtWork, StepsInAttempt
    <2>2. PICK pc \in {"read", "exit"} : Goto(j, pc)
      BY <1>6 DEF AttemptStart
    <2>3. StepsInAttempt(j)' \in {1, AttemptSteps - 2}
      BY <1>5, <2>2, GotoPlace DEF StepsInAttempt
    <2>4. StepsInAttempt(j)' < StepsInAttempt(j)
      BY <1>5, <2>1, <2>3
    <2>5. (\A i \in Job : i # j => job'[i] = job[i]) /\ job'[j] # "absent" /\ UNCHANGED api
      BY <1>1, <1>6, <2>1, StatusSet DEF AttemptStart, Statuses
    <2>6. QED BY <1>4, <2>1, <2>2, <2>4, <2>5
  <1>7. CASE IngestRead(j)
    <2>1. /\ exec[j].pc = "read" /\ AtWork(j) /\ StepsInAttempt(j) = AttemptSteps - 2
          /\ UNCHANGED <<api, job>>
      BY <1>7 DEF IngestRead, AtWork, StepsInAttempt
    <2>2. /\ exec'[j].pc = "chunk" /\ exec'[j].attempt = exec[j].attempt
          /\ exec'[j].todo = Stale(j, table)
          /\ \A i \in Job : i # j => exec'[i] = exec[i]
      BY <1>7 DEF IngestRead, TypeOK
    <2>3. Stale(j, table) \in SUBSET Rule
      BY DEF Stale
    <2> DEFINE n == Cardinality(Stale(j, table))
    <2>4. n \in Nat /\ n <= Cardinality(Rule)
      BY <2>3, TodoIsSmall
    <2>5. StepsInAttempt(j)' = 2 * n + 4
      BY <2>2 DEF StepsInAttempt
    <2> HIDE DEF n
    <2>6. StepsInAttempt(j)' < StepsInAttempt(j)
      BY <1>5, <2>1, <2>4, <2>5
    <2>7. QED BY <1>1, <1>3, <2>1, <2>2, <2>6 DEF Proceeds
  <1>8. ASSUME NEW chunk \in SUBSET Rule, Upsert(j, chunk)
        PROVE  JobMoves(j)
    <2>1. /\ exec[j].pc = "chunk" /\ AtWork(j) /\ UNCHANGED <<api, job>>
          /\ IsChunk(j, chunk)
          /\ StepsInAttempt(j) = 2 * Cardinality(exec[j].todo) + 4
      BY <1>8 DEF Upsert, AtWork, StepsInAttempt
    <2>2. exec[j] \in ExecState
      BY DEF TypeOK
    <2>3. CASE Committed(j, chunk)
      <3>1. /\ \A i \in Job : i # j => exec'[i] = exec[i]
            /\ exec'[j].pc = "publish" /\ exec'[j].attempt = exec[j].attempt
            /\ exec'[j].todo = exec[j].todo \ chunk
        BY <2>2, <2>3 DEF Committed, TypeOK, ExecState
      <3> DEFINE n == Cardinality(exec[j].todo)
                 rest == Cardinality(exec[j].todo \ chunk)
      <3>2. n \in Nat /\ rest \in Nat /\ rest < n
        BY <2>1, ChunkShrinks
      <3>3. StepsInAttempt(j)' = 2 * rest + 5
        BY <3>1 DEF StepsInAttempt
      <3>4. StepsInAttempt(j) = 2 * n + 4
        BY <2>1
      <3> HIDE DEF n, rest
      <3>5. StepsInAttempt(j)' < StepsInAttempt(j)
        BY <3>2, <3>3, <3>4
      <3>6. QED BY <1>1, <1>3, <2>1, <3>1, <3>5 DEF Proceeds
    <2>4. CASE BreaksOff(j)
      <3>1. /\ \A i \in Job : i # j => exec'[i] = exec[i]
            /\ exec'[j].pc = "finish" /\ exec'[j].attempt = exec[j].attempt
        BY <2>2, <2>4 DEF BreaksOff, TypeOK, ExecState
      <3>2. StepsInAttempt(j)' = 3
        BY <3>1 DEF StepsInAttempt
      <3>3. StepsInAttempt(j)' < StepsInAttempt(j)
        BY <1>5, <2>1, <3>2
      <3>4. QED BY <1>1, <1>3, <2>1, <3>1, <3>3 DEF Proceeds
    <2>5. QED BY <1>8, <2>3, <2>4 DEF Upsert
  <1>9. CASE ChunksDone(j) \/ PublishCheckpoint(j) \/ PublishFinal(j)
    <2>1. AtWork(j) /\ UNCHANGED <<api, job>>
      BY <1>9 DEF ChunksDone, PublishCheckpoint, PublishFinal, AtWork
    <2>2. PICK pc \in {"finish", "chunk", "report"} : Goto(j, pc)
      BY <1>9 DEF ChunksDone, PublishCheckpoint, PublishFinal
    <2>3. StepsInAttempt(j)' < StepsInAttempt(j)
      <3>1. /\ exec'[j].pc = pc /\ exec'[j].todo = exec[j].todo
        BY <2>2, GotoPlace
      <3>2. CASE ChunksDone(j)
        <4>1. exec[j].pc = "chunk" /\ exec'[j].pc = "finish"
          BY <3>2, GotoPlace DEF ChunksDone
        <4>2. QED BY <1>5, <4>1 DEF StepsInAttempt
      <3>3. CASE PublishCheckpoint(j)
        <4>1. exec[j].pc = "publish" /\ exec'[j].pc = "chunk"
          BY <3>3, GotoPlace DEF PublishCheckpoint
        <4>2. QED BY <1>5, <3>1, <4>1 DEF StepsInAttempt
      <3>4. CASE PublishFinal(j)
        <4>1. exec[j].pc = "finish" /\ exec'[j].pc = "report"
          BY <3>4, GotoPlace DEF PublishFinal
        <4>2. QED BY <4>1 DEF StepsInAttempt
      <3>5. QED BY <1>9, <3>2, <3>3, <3>4
    <2>4. QED BY <1>1, <1>4, <2>1, <2>2, <2>3 DEF AtWork
  <1>10. CASE Report(j) \/ AttemptFailed(j)
    <2>1. /\ AtWork(j) /\ UNCHANGED api /\ exec[j].pc \in {"report", "failing"}
          /\ Goto(j, "exit")
      BY <1>10 DEF Report, AttemptFailed, AtWork
    <2>2. StepsInAttempt(j)' = 1 /\ StepsInAttempt(j) = 2
      BY <2>1, GotoPlace DEF StepsInAttempt
    <2>3. PICK status \in {"done", "failed", "retrying"} : SetStatus(j, status)
      BY <1>10 DEF Report, AttemptFailed, GiveUp
    <2>4. (\A i \in Job : i # j => job'[i] = job[i]) /\ job'[j] # "absent"
      BY <2>3, StatusSet DEF Statuses
    <2>5. QED BY <1>4, <2>1, <2>2, <2>4
  <1>11. CASE StorageFails(j)
    <2>1. /\ AtWork(j) /\ UNCHANGED <<api, job>> /\ Goto(j, "failing")
          /\ exec[j].pc \in {"read", "chunk", "publish", "finish"}
      BY <1>11 DEF StorageFails, AtWork
    <2>2. StepsInAttempt(j)' = 2
      BY <2>1, GotoPlace DEF StepsInAttempt
    <2>3. StepsInAttempt(j) > 2
      BY <1>5, <2>1 DEF StepsInAttempt
    <2>4. StepsInAttempt(j)' < StepsInAttempt(j)
      BY <2>2, <2>3
    <2>5. QED BY <1>1, <1>4, <2>1, <2>4 DEF AtWork
  <1>12. CASE Exit(j) \/ Crash(j)
    <2>1. AtWork(j) /\ UNCHANGED <<api, job>>
      BY <1>12 DEF Exit, Crash, AtWork
    <2>2. CASE NextAttempt(j)
      BY <1>1, <1>3, <2>1, <2>2, NextAttemptPlace DEF AtWork
    <2>3. CASE Goto(j, "ended")
      BY <1>1, <1>3, <2>1, <2>3, GotoPlace DEF AtWork, Stops
    <2>4. QED BY <1>12, <2>2, <2>3 DEF Exit, Crash
  <1>13. QED
    BY <1>2, <1>6, <1>7, <1>8, <1>9, <1>10, <1>11, <1>12 DEF JobStep

LEMMA JobStepsFall ==
    ASSUME NEW j \in Job, StepsShape(j), StepsShape(j)', TypeOK, JobMoves(j)
    PROVE  JobSteps(j)' < JobSteps(j)
  <1>1. /\ RequestSteps(j) \in Nat /\ RequestSteps(j)' \in Nat
        /\ ExecutionSteps(j) \in Nat /\ ExecutionSteps(j)' \in Nat
    BY DEF StepsShape
  <1>2. job[j] # "absent" /\ job'[j] # "absent" /\ api[j] \in {"idle", "launch", "undo"}
    BY DEF JobMoves, TypeOK
  <1>3. CASE exec'[j] = exec[j]
    <2>1. ~Starts(j) /\ ~Stops(j)
      BY <1>3 DEF Starts, Stops, AtWork
    <2>2. ~Proceeds(j)
      <3>1. StepsInAttempt(j)' = StepsInAttempt(j)
        BY <1>3 DEF StepsInAttempt, AttemptSteps
      <3>2. AtWork(j) => StepsInAttempt(j) \in Nat
        BY DEF StepsShape
      <3>3. QED BY <3>1, <3>2 DEF Proceeds
    <2>3. ~TriesAgain(j)
      <3>1. exec[j].attempt \in Nat /\ exec'[j].attempt = exec[j].attempt
        BY <1>3 DEF StepsShape
      <3>2. QED BY <3>1 DEF TriesAgain
    <2>4. /\ api[j] \in {"launch", "undo"} /\ api'[j] \in {"idle", "undo"}
          /\ api[j] = "undo" => api'[j] = "idle"
      BY <1>3, <2>1, <2>2, <2>3 DEF JobMoves
    <2>5. RequestSteps(j)' < RequestSteps(j)
      BY <1>2, <2>4 DEF RequestSteps
    <2>6. ExecutionSteps(j)' = ExecutionSteps(j)
      BY <1>3 DEF ExecutionSteps, StepsInAttempt, AttemptSteps
    <2>7. QED BY <1>1, <2>5, <2>6 DEF JobSteps
  <1>4. CASE exec'[j] # exec[j]
    <2>1. /\ Starts(j) \/ Proceeds(j) \/ TriesAgain(j) \/ Stops(j)
          /\ api'[j] = api[j] \/ (api[j] = "launch" /\ api'[j] \in {"idle", "undo"})
      BY <1>4 DEF JobMoves
    <2>2. ExecutionSteps(j)' < ExecutionSteps(j)
      BY <2>1, ExecutionFalls
    <2>3. RequestSteps(j)' <= RequestSteps(j)
      BY <1>1, <1>2, <2>1 DEF RequestSteps
    <2>4. QED BY <1>1, <2>2, <2>3 DEF JobSteps
  <1>5. QED BY <1>3, <1>4

\* Every step of a job takes one of the steps that are left, for any rules and any
\* number of retries, under every fault and with jobs that overlap (the loop of
\* ingest, run, max_retries).
THEOREM JobsAlwaysRunOut == Spec => JobsRunOut
  <1>1. ASSUME TypeOK, TypeOK', RulesAreKnown, LaunchedOnce, Next, NEW i \in Job,
               Moves(i)
        PROVE  JobSteps(i)' < JobSteps(i)
    <2>0. StepsShape(i) /\ StepsShape(i)'
      BY <1>1, StepsShapes, StepsShapesNext
    <2>1. ASSUME NEW j \in Job, JobStep(j) \/ SubmitAborts(j) \/ StorageFails(j) \/ Crash(j)
          PROVE  JobSteps(i)' < JobSteps(i)
      <3>1. JobMoves(j)
        BY <1>1, <2>1, JobMovesOn
      <3>2. i = j
        BY <1>1, <3>1 DEF JobMoves, Moves
      <3>3. QED BY <1>1, <2>0, <3>1, <3>2, JobStepsFall
    <2>2. ASSUME NEW j \in Job, NEW file \in File, Submit(j, file)
          PROVE  JobSteps(i)' < JobSteps(i)
      <3>1. /\ UNCHANGED exec
            /\ \A k \in Job : k # j => api'[k] = api[k] /\ job'[k] = job[k]
            /\ job[j] = "absent" /\ job'[j] = "queued" /\ api'[j] = "launch"
        BY <1>1, <2>2 DEF Submit, SetStatus, TypeOK
      <3>2. i = j
        BY <1>1, <3>1 DEF Moves
      <3>3. RequestSteps(i)' = 2 /\ RequestSteps(i) = 3
        BY <3>1, <3>2 DEF RequestSteps
      <3>4. ExecutionSteps(i)' = ExecutionSteps(i) /\ ExecutionSteps(i) \in Nat
        BY <2>0, <3>1 DEF ExecutionSteps, StepsInAttempt, AttemptSteps, StepsShape
      <3>5. QED BY <3>3, <3>4 DEF JobSteps
    <2>3. ASSUME NEW v \in Review, ReviewStep(v)
          PROVE  JobSteps(i)' < JobSteps(i)
      BY <1>1, <2>3 DEF Moves, ReviewStep, ReviewSubmit, ReviewRetrieve, ReviewRetry, ReviewFinish
    <2>4. QED BY <1>1, <2>1, <2>2, <2>3 DEF Next, Continue
  <1>2. TypeOK /\ TypeOK' /\ RulesAreKnown /\ LaunchedOnce /\ [Next]_vars =>
            [\A j \in Job : Moves(j) => JobSteps(j)' < JobSteps(j)]_vars
    BY <1>1
  <1>3. QED
    BY <1>2, CorpusTypes, KnownHolds, LaunchHolds, PTL DEF Spec, JobsRunOut

-----------------------------------------------------------------------------
(* Why a job at work can go on, and what has become of one that is not *)

\* A part of any size.
LEMMA PartOfSize ==
    ASSUME NEW S, IsFiniteSet(S), NEW n \in Nat, n <= Cardinality(S)
    PROVE  \E T \in SUBSET S : Cardinality(T) = n
  <1> DEFINE G == {m \in Nat : m <= Cardinality(S) =>
                        \E T \in SUBSET S : IsFiniteSet(T) /\ Cardinality(T) = m}
  <1>1. Cardinality(S) \in Nat
    BY FS_CardinalityType
  <1>2. 0 \in G
    BY FS_EmptySet
  <1>3. ASSUME NEW m \in Nat, m \in G
        PROVE  m + 1 \in G
    <2> SUFFICES ASSUME m + 1 <= Cardinality(S)
                 PROVE  \E T \in SUBSET S : IsFiniteSet(T) /\ Cardinality(T) = m + 1
      OBVIOUS
    <2>1. PICK T \in SUBSET S : IsFiniteSet(T) /\ Cardinality(T) = m
      BY <1>1, <1>3
    <2>2. T # S
      BY <1>1, <2>1
    <2>3. PICK x \in S : x \notin T
      BY <2>2
    <2>4. IsFiniteSet(T \union {x}) /\ Cardinality(T \union {x}) = m + 1
      BY <2>1, <2>3, FS_AddElement
    <2>5. QED BY <2>3, <2>4
  <1> HIDE DEF G
  <1>4. \A m \in Nat : m \in G
    BY <1>2, <1>3, Counting
  <1>5. n \in G
    BY <1>4
  <1>6. QED BY <1>5 DEF G

\* As long as rows are left there is a next checkpoint: of the full size or of all
\* that is left, and with new rows before changed ones (the loop of ingest).
THEOREM NextCheckpointExists ==
    Spec => [](\A j \in Job : exec[j].pc = "chunk" /\ exec[j].todo # {} =>
                    \E chunk \in SUBSET Rule : IsChunk(j, chunk))
  <1>1. ASSUME TypeOK, NEW j \in Job, exec[j].todo # {}
        PROVE  \E chunk \in SUBSET Rule : IsChunk(j, chunk)
    <2> DEFINE todo == exec[j].todo
               new == {r \in todo : exec[j].state[r] = None}
               size == CheckpointRows
    <2>1. todo \in SUBSET Rule /\ todo # {} /\ new \in SUBSET todo /\ new \in SUBSET Rule
      BY <1>1 DEF TypeOK, ExecState
    <2>2. size \in Nat /\ size > 0
      BY CorpusAssumption
    <2>3. /\ IsFiniteSet(todo) /\ Cardinality(todo) \in Nat
          /\ IsFiniteSet(new) /\ Cardinality(new) \in Nat
      BY <2>1, TodoIsSmall
    <2>4. ASSUME NEW chunk \in SUBSET todo, Cardinality(chunk) = size,
                 chunk \subseteq new \/ new \subseteq chunk
          PROVE  IsChunk(j, chunk) /\ chunk \in SUBSET Rule
      <3>1. chunk # {}
        BY <2>2, <2>4, FS_EmptySet
      <3>2. QED BY <2>1, <2>4, <3>1 DEF IsChunk
    <2>5. CASE Cardinality(todo) <= size
      <3>1. Cardinality(todo) = size \/ Cardinality(todo) < size
        BY <2>2, <2>3, <2>5
      <3>2. IsChunk(j, todo)
        BY <2>1, <3>1 DEF IsChunk
      <3>3. QED BY <2>1, <3>2
    <2>6. CASE size <= Cardinality(new)
      <3>1. PICK chunk \in SUBSET new : Cardinality(chunk) = size
        <4> HIDE DEF new, size
        <4>1. QED BY <2>2, <2>3, <2>6, PartOfSize
      <3>2. QED BY <2>1, <2>4, <3>1
    <2>7. CASE size < Cardinality(todo) /\ Cardinality(new) < size
      <3> DEFINE old == todo \ new
                 more == size - Cardinality(new)
      <3>1. old \in SUBSET Rule /\ old \union new = todo /\ old \cap new = {}
        BY <2>1
      <3>2. IsFiniteSet(old) /\ Cardinality(old) \in Nat
        BY <3>1, TodoIsSmall
      <3>3. Cardinality(todo) = Cardinality(old) + Cardinality(new)
        <4> HIDE DEF old, new, todo
        <4>1. Cardinality(old \union new) =
                 Cardinality(old) + Cardinality(new) - Cardinality(old \cap new)
          BY <2>3, <3>2, FS_Union
        <4>2. Cardinality(old \cap new) = 0
          BY <3>1, FS_EmptySet
        <4>3. Cardinality(old \union new) = Cardinality(todo)
          BY <3>1
        <4>4. QED BY <2>3, <3>2, <4>1, <4>2, <4>3
      <3>4. more \in Nat /\ more <= Cardinality(old)
        <4> HIDE DEF old, new, todo, size
        <4>1. QED BY <2>2, <2>3, <2>7, <3>2, <3>3
      <3>5. PICK part \in SUBSET old : Cardinality(part) = more
        <4> HIDE DEF old, more
        <4>1. QED BY <3>2, <3>4, PartOfSize
      <3> DEFINE chunk == new \union part
      <3>6. new \cap part = {} /\ chunk \in SUBSET todo /\ part \in SUBSET Rule
        BY <2>1, <3>1
      <3>7. IsFiniteSet(part) /\ Cardinality(part) \in Nat
        BY <3>6, TodoIsSmall
      <3>8. Cardinality(chunk) = size
        <4>1. Cardinality(new \cap part) = 0
          BY <3>6, FS_EmptySet
        <4> HIDE DEF new, size, old
        <4>2. Cardinality(new \union part) =
                 Cardinality(new) + Cardinality(part) - Cardinality(new \cap part)
          BY <2>3, <3>7, FS_Union
        <4>3. QED BY <2>2, <2>3, <3>5, <4>1, <4>2
      <3>9. QED BY <2>4, <3>6, <3>8
    <2>8. QED BY <2>2, <2>3, <2>5, <2>6, <2>7
  <1>2. TypeOK => \A j \in Job : exec[j].pc = "chunk" /\ exec[j].todo # {} =>
                    \E chunk \in SUBSET Rule : IsChunk(j, chunk)
    BY <1>1
  <1>3. QED BY <1>2, CorpusTypes, PTL

\* Requests and executions live.
ProcessesLive == {"abort", "crash"} \intersect Faults = {}

Over == {"done", "failed"}

\* What the status of a job says of where its request and its execution are.
StatusIsKnown ==
    \A j \in Job :
        /\ exec[j].pc = "none" /\ api[j] = "idle" => job[j] \in {"absent", "failed"}
        /\ exec[j].pc = "exit" =>
             job[j] \in Over \/ (job[j] = "retrying" /\ exec[j].attempt < MaxRetries)
        /\ exec[j].pc = "ended" => job[j] \in Over

\* A job that nothing works on any more is done or failed, as long as processes
\* live: no path through the attempts leaves it queued, running or retrying
\* (run, max_retries of the queue and of the runner).
THEOREM IdleJobsAreOver ==
    ProcessesLive =>
        (Spec => [](\A j \in Job : job[j] # "absent" /\ ~Working(j) => job[j] \in Over))
  <1> SUFFICES ASSUME ProcessesLive
               PROVE  Spec => [](\A j \in Job :
                                    job[j] # "absent" /\ ~Working(j) => job[j] \in Over)
    OBVIOUS
  <1>1. Init => StatusIsKnown
    BY DEF Init, StatusIsKnown, NoExec
  <1>2. ASSUME TypeOK, RulesAreKnown, LaunchedOnce, StatusIsKnown, [Next]_vars
        PROVE  StatusIsKnown'
    <2> USE <1>2
    <2>1. ASSUME NEW j \in Job,
                 \A i \in Job : i # j =>
                    exec'[i] = exec[i] /\ api'[i] = api[i] /\ job'[i] = job[i],
                 exec'[j].pc = "none" /\ api'[j] = "idle" => job'[j] = "failed",
                 exec'[j].pc = "exit" =>
                    job'[j] \in Over \/ (job'[j] = "retrying" /\ exec'[j].attempt < MaxRetries),
                 exec'[j].pc = "ended" => job'[j] \in Over
          PROVE  StatusIsKnown'
      BY <2>1 DEF StatusIsKnown
    <2>2. ASSUME NEW j \in Job, NEW file \in File, Submit(j, file)
          PROVE  StatusIsKnown'
      <3>1. /\ \A i \in Job : i # j => exec'[i] = exec[i] /\ api'[i] = api[i] /\ job'[i] = job[i]
            /\ exec'[j] = NoExec /\ api'[j] = "launch"
        BY <2>2 DEF Submit, SetStatus, TypeOK, RulesAreKnown
      <3>2. QED BY <2>1, <3>1 DEF NoExec
    <2>3. ASSUME NEW j \in Job,
                 JobStep(j) \/ SubmitAborts(j) \/ StorageFails(j) \/ Crash(j)
          PROVE  StatusIsKnown'
      <3>1. JobMoves(j)
        BY <2>3, JobMovesOn
      <3>2. \A i \in Job : i # j => exec'[i] = exec[i] /\ api'[i] = api[i] /\ job'[i] = job[i]
        BY <3>1 DEF JobMoves
      <3>3. ~SubmitAborts(j) /\ ~Crash(j)
        BY DEF SubmitAborts, Crash, Inject, ProcessesLive
      <3>4. CASE Launch(j)
        <4>1. /\ UNCHANGED job
              /\ \/ Goto(j, "start")
                 \/ UNCHANGED exec /\ api'[j] = "undo" /\ exec[j].pc = "none"
          BY <3>4 DEF Launch, TypeOK, LaunchedOnce
        <4>2. CASE Goto(j, "start")
          BY <2>1, <3>2, <4>2, GotoPlace
        <4>3. CASE UNCHANGED exec /\ api'[j] = "undo" /\ exec[j].pc = "none"
          BY <2>1, <3>2, <4>3
        <4>4. QED BY <4>1, <4>2, <4>3
      <3>5. CASE LaunchUndo(j)
        <4>1. UNCHANGED exec /\ job'[j] = "failed"
          BY <3>5, StatusSet DEF LaunchUndo, Statuses
        <4>2. QED BY <2>1, <3>2, <4>1 DEF Over
      <3>6. CASE AttemptStart(j)
        <4>1. \/ Goto(j, "exit") /\ job[j] = "done" /\ UNCHANGED job
              \/ Goto(j, "read")
          BY <3>6 DEF AttemptStart
        <4>2. QED BY <2>1, <3>2, <4>1, GotoPlace DEF Over
      <3>7. CASE \/ IngestRead(j) \/ ChunksDone(j) \/ PublishCheckpoint(j) \/ PublishFinal(j)
                 \/ StorageFails(j) \/ \E chunk \in SUBSET Rule : Upsert(j, chunk)
        <4>1. ASSUME NEW pc \in {"chunk", "finish", "publish", "report", "failing"}, Goto(j, pc)
              PROVE  exec'[j].pc = pc
          BY <4>1, GotoPlace
        <4>2. CASE IngestRead(j)
          BY <2>1, <3>2, <4>2 DEF IngestRead, TypeOK
        <4>3. CASE ChunksDone(j) \/ PublishCheckpoint(j) \/ PublishFinal(j) \/ StorageFails(j)
          <5>1. exec'[j].pc \in {"chunk", "finish", "report", "failing"}
            BY <4>1, <4>3 DEF ChunksDone, PublishCheckpoint, PublishFinal, StorageFails
          <5>2. QED BY <2>1, <3>2, <5>1
        <4>4. CASE \E chunk \in SUBSET Rule : Upsert(j, chunk)
          <5>1. exec[j] \in ExecState /\ exec \in [Job -> ExecState]
            BY DEF TypeOK
          <5>2. PICK chunk \in SUBSET Rule : Committed(j, chunk) \/ BreaksOff(j)
            BY <4>4 DEF Upsert
          <5>3. CASE Committed(j, chunk)
            <6>1. exec'[j].pc = "publish"
              BY <5>1, <5>3 DEF Committed, ExecState
            <6>2. QED BY <2>1, <3>2, <6>1
          <5>4. CASE BreaksOff(j)
            <6>1. exec'[j].pc = "finish"
              BY <5>1, <5>4 DEF BreaksOff, ExecState
            <6>2. QED BY <2>1, <3>2, <6>1
          <5>5. QED BY <5>2, <5>3, <5>4
        <4>5. QED BY <3>7, <4>2, <4>3, <4>4
      <3>8. CASE Report(j) \/ AttemptFailed(j)
        <4>1. Goto(j, "exit")
          BY <3>8 DEF Report, AttemptFailed
        <4>2. \/ SetStatus(j, "done") \/ SetStatus(j, "failed")
              \/ SetStatus(j, "retrying") /\ ~(exec[j].attempt >= MaxRetries)
          BY <3>8 DEF Report, AttemptFailed, GiveUp, FinalAttempt
        <4>3. \/ job'[j] \in Over
              \/ job'[j] = "retrying" /\ ~(exec[j].attempt >= MaxRetries)
          BY <4>2, StatusSet DEF Over, Statuses
        <4>4. exec[j].attempt \in Nat /\ MaxRetries \in Nat
          BY StepsShapes, Numbers DEF StepsShape
        <4>5. QED BY <2>1, <3>2, <4>1, <4>3, <4>4, GotoPlace
      <3>9. CASE Exit(j)
        <4>1. AtWork(j) /\ exec[j].pc = "exit" /\ UNCHANGED job
          BY <3>9 DEF Exit, AtWork
        <4>2. CASE job[j] = "done"
          <5>1. Goto(j, "ended")
            BY <3>9, <4>2 DEF Exit
          <5>2. QED BY <2>1, <3>2, <4>1, <4>2, <5>1, GotoPlace DEF Over
        <4>3. CASE NextAttempt(j)
          <5>1. TriesAgain(j) \/ (Stops(j) /\ ~(exec[j].attempt < MaxRetries))
            BY <4>1, <4>3, NextAttemptPlace
          <5>2. CASE TriesAgain(j)
            BY <2>1, <3>2, <5>2 DEF TriesAgain
          <5>3. CASE Stops(j) /\ ~(exec[j].attempt < MaxRetries)
            <6>1. job'[j] \in Over /\ exec'[j].pc = "ended"
              BY <4>1, <5>3 DEF StatusIsKnown, Stops
            <6>2. QED BY <2>1, <3>2, <6>1
          <5>4. QED BY <5>1, <5>2, <5>3
        <4>4. QED BY <3>9, <4>2, <4>3 DEF Exit
      <3>10. QED
        BY <2>3, <3>3, <3>4, <3>5, <3>6, <3>7, <3>8, <3>9 DEF JobStep
    <2>4. CASE (\E v \in Review : ReviewStep(v)) \/ UNCHANGED vars
      <3>1. UNCHANGED <<job, api, exec>>
        BY <2>4 DEF ReviewStep, ReviewSubmit, ReviewRetrieve, ReviewRetry, ReviewFinish, vars
      <3>2. QED BY <3>1 DEF StatusIsKnown
    <2>5. QED BY <2>2, <2>3, <2>4 DEF Next, Continue
  <1>3. ASSUME StatusIsKnown, NEW j \in Job, job[j] # "absent", ~Working(j)
        PROVE  job[j] \in Over
    BY <1>3 DEF StatusIsKnown, Working, Over
  <1>4. StatusIsKnown => \A j \in Job : job[j] # "absent" /\ ~Working(j) => job[j] \in Over
    BY <1>3
  <1>5. TypeOK /\ RulesAreKnown /\ LaunchedOnce /\ StatusIsKnown /\ [Next]_vars => StatusIsKnown'
    BY <1>2
  <1>6. QED
    BY <1>1, <1>4, <1>5, CorpusTypes, KnownHolds, LaunchHolds, PTL DEF Spec
=============================================================================
