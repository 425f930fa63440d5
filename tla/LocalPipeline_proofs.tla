------------------------ MODULE LocalPipeline_proofs ------------------------
(***************************************************************************)
(* The safety of local mode, for any number of accounts, workers, tasks,   *)
(* objects, attempts and faults: Inv is inductive and implies the          *)
(* invariants the runs check.                                              *)
(***************************************************************************)
EXTENDS LocalPipeline, TaskWorker_proofs

Inv ==
    /\ RowInv
    /\ batch \in [Workers -> SUBSET TaskIds]
    /\ faults \in 0 .. MaxFaults

\* The empty database, with no request and every worker at its start, satisfies Inv.
LEMMA InitInv == Init => Inv
  BY RowInvAtFirst, FaultAssumption DEF Init, Inv

-----------------------------------------------------------------------------
(* dispatch_outbox and run_one *)

\* Claiming the due events preserves RowInv: only waiting tasks are published.
LEMMA ClaimBatchInv ==
    ASSUME RowInv, NEW w \in Workers, ClaimBatch(w)
    PROVE  RowInv'
<1> DEFINE due == {t \in TaskIds : Publishable(t)}
<1>1. /\ event' = [t \in TaskIds |-> IF t \in due THEN ClaimedEvent(event[t], w) ELSE event[t]]
      /\ UNCHANGED <<rev, profile, chunks, task, apiVars, cur, input, content, owed>>
      /\ Goto(w, IF due = {} THEN "claim" ELSE "deliver")
  BY DEF ClaimBatch
<1>2. MemTypeOK' /\ MemoryKept
  <2> HIDE DEF due
  <2> QED
    BY <1>1, GotoKept DEF Labels
<1>3. ASSUME NEW t \in TaskIds
      PROVE  event'[t] \in EventRow /\ PairOK(task[t], event'[t])
  <2>1. event[t] \in EventRow /\ PairOK(task[t], event[t])
    BY PairsOK DEF RowInv, DbTypeOK
  <2>2. CASE t \in due
    <3> DEFINE e == ClaimedEvent(event[t], w)
    <3>1. event'[t] = e /\ task[t].st \in {"PENDING", "RETRY_WAIT"}
      BY <1>1, <2>2 DEF Publishable
    <3>2. w \in Procs /\ w # None
      BY StoreAssumption, WorkerAssumption
    <3>3. e \in EventRow /\ e.st = "CLAIMED" /\ e.holder = w
      BY <2>1, <3>2 DEF EventRow, ClaimedEvent
    <3> HIDE DEF e
    <3> QED
      BY <2>1, <3>1, <3>2, <3>3 DEF PairOK
  <2>3. CASE t \notin due
    BY <1>1, <2>1, <2>3
  <2> QED
    BY <2>2, <2>3
<1>4. event' \in [TaskIds -> EventRow]
  BY <1>1, <1>3
<1> QED
  BY <1>1, <1>2, <1>3, <1>4, EventStep

\* Giving one event the row e, one that agrees with its task, preserves RowInv.
LEMMA DeliveredInv ==
    ASSUME RowInv, NEW w \in Workers, NEW t \in TaskIds, NEW e \in EventRow,
           PairOK(task[t], e), event' = [event EXCEPT ![t] = e], Delivered(w, t)
    PROVE  RowInv'
<1>1. /\ UNCHANGED <<rev, profile, chunks, task, apiVars, cur, input, content, owed>>
      /\ \E l \in {"claim", "deliver"} : Goto(w, l)
  BY DEF Delivered
<1>2. MemTypeOK' /\ MemoryKept
  BY <1>1, GotoKept DEF Labels
<1>3. event \in [TaskIds -> EventRow]
  BY DEF RowInv, DbTypeOK
<1>4. event' \in [TaskIds -> EventRow] /\ \A s \in TaskIds : PairOK(task[s], event'[s])
  BY <1>3, PairsOK DEF RowInv
<1> QED
  BY <1>1, <1>2, <1>4, EventStep

\* A delivery, by a holder or by one that has lost its claim, preserves RowInv: an event
\* that is still claimed belongs to a waiting task.
LEMMA DeliverInv ==
    ASSUME RowInv, NEW w \in Workers, NEW t \in TaskIds, Deliver(w, t)
    PROVE  RowInv'
<1>1. event[t] \in EventRow /\ PairOK(task[t], event[t]) /\ task[t] \in TaskRow
  BY PairsOK DEF RowInv, DbTypeOK
<1>2. Delivered(w, t) /\ event \in [TaskIds -> EventRow]
  BY DEF Deliver, RowInv, DbTypeOK
<1>3. CASE task[t].st \in {"CANCELLED", "FAILED"}
  <2> DEFINE e == CancelledEvent(event[t])
  <2>1. event' = [event EXCEPT ![t] = e]
    BY <1>3 DEF Deliver
  <2>2. e \in EventRow /\ e.st = "CANCELLED" /\ e.holder = None /\ e.live = FALSE
    BY <1>1 DEF EventRow, CancelledEvent, Unleased
  <2> HIDE DEF e
  <2>3. PairOK(task[t], e)
    BY <1>1, <1>3, <2>2 DEF PairOK
  <2> QED
    BY <1>2, <2>1, <2>2, <2>3, DeliveredInv
<1>4. CASE task[t].st \notin {"CANCELLED", "FAILED"} /\ EventFenced(t, w)
  <2> DEFINE e == SentEvent(event[t])
  <2>1. event' = [event EXCEPT ![t] = e]
    BY <1>4 DEF Deliver, Acknowledge
  <2>2. e \in EventRow /\ e.st = "SENT" /\ e.holder = None /\ e.live = FALSE
    BY <1>1 DEF EventRow, SentEvent, Unleased
  <2> HIDE DEF e
  <2>3. PairOK(task[t], e)
    BY <1>1, <1>4, <2>2 DEF PairOK
  <2> QED
    BY <1>2, <2>1, <2>2, <2>3, DeliveredInv
<1>5. CASE task[t].st \notin {"CANCELLED", "FAILED"} /\ ~EventFenced(t, w)
  <2>1. event' = [event EXCEPT ![t] = event[t]]
    BY <1>5 DEF Deliver, Acknowledge
  <2> QED
    BY <1>1, <1>2, <2>1, DeliveredInv
<1> QED
  BY <1>3, <1>4, <1>5

\* A failed delivery gives the claim back, if it still is the worker's.
LEMMA DeliverFailsInv ==
    ASSUME RowInv, NEW w \in Workers, NEW t \in TaskIds, DeliverFails(w, t)
    PROVE  RowInv'
<1>1. event[t] \in EventRow /\ PairOK(task[t], event[t]) /\ task[t] \in TaskRow
  BY PairsOK DEF RowInv, DbTypeOK
<1>2. Delivered(w, t) /\ event \in [TaskIds -> EventRow]
  BY DEF DeliverFails, RowInv, DbTypeOK
<1>3. CASE EventFenced(t, w) /\ event' = [event EXCEPT ![t] = RetriedEvent(event[t])]
  <2> DEFINE e == RetriedEvent(event[t])
  <2>1. event' = [event EXCEPT ![t] = e] /\ event[t].st = "CLAIMED"
    BY <1>3 DEF EventFenced
  <2>2. e \in EventRow /\ e.st = "PENDING" /\ e.holder = None /\ e.live = FALSE
    BY <1>1 DEF EventRow, RetriedEvent, Unleased
  <2> HIDE DEF e
  <2>3. PairOK(task[t], e)
    BY <1>1, <2>1, <2>2 DEF PairOK
  <2> QED
    BY <1>2, <2>1, <2>2, <2>3, DeliveredInv
<1>4. CASE event' = [event EXCEPT ![t] = event[t]]
  BY <1>1, <1>2, <1>4, DeliveredInv
<1> QED
  BY <1>2, <1>3, <1>4 DEF DeliverFails

\* run_one preserves RowInv, whether it claims the oldest candidate or rolls back.
LEMMA RunOneInv ==
    ASSUME RowInv, NEW w \in Workers, NEW t \in TaskIds, RunOne(w, t)
    PROVE  RowInv'
<1>1. CASE Exhausted(t)
  <2>1. UNCHANGED <<dbVars, apiVars, cur, input, content, owed>> /\ Goto(w, "sweep")
    BY <1>1 DEF RunOne
  <2>2. MemTypeOK' /\ MemoryKept
    BY <2>1, GotoKept DEF Labels
  <2>3. ApiTypeOK' /\ UNCHANGED <<dbVars, erased>>
    BY <2>1 DEF RowInv, ApiTypeOK, apiVars
  <2> QED
    BY <2>2, <2>3, MemoryStep
<1>2. CASE ~Exhausted(t)
  BY <1>2, TakeTaskInv DEF RunOne, Oldest, Candidates
<1> QED
  BY <1>1, <1>2

\* A worker that finds nothing to run changes no row.
LEMMA NothingToRunInv ==
    ASSUME RowInv, NEW w \in Workers, NothingToRun(w)
    PROVE  RowInv'
<1>1. UNCHANGED <<dbVars, apiVars, cur, input, content, owed>> /\ Goto(w, "sweep")
  BY DEF NothingToRun
<1>2. MemTypeOK' /\ MemoryKept
  BY <1>1, GotoKept DEF Labels
<1>3. ApiTypeOK' /\ UNCHANGED <<dbVars, erased>>
  BY <1>1 DEF RowInv, ApiTypeOK, apiVars
<1> QED
  BY <1>2, <1>3, MemoryStep

-----------------------------------------------------------------------------
(* The system *)

\* Every step of local mode preserves RowInv.
LEMMA NextRowInv ==
    ASSUME RowInv, Next
    PROVE  RowInv'
<1>1. ASSUME NEW w \in Workers, WorkerStep(w) PROVE RowInv'
  <2>1. ClaimBatch(w) => RowInv'
    BY ClaimBatchInv
  <2>2. (\E t \in TaskIds : Deliver(w, t) \/ RunOne(w, t)) => RowInv'
    BY DeliverInv, RunOneInv
  <2>3. NothingToRun(w) => RowInv'
    BY NothingToRunInv
  <2>4. Work(w) => RowInv'
    BY WorkInv
  <2> QED
    BY <1>1, <2>1, <2>2, <2>3, <2>4 DEF WorkerStep, Work
<1>2. ASSUME NEW w \in Workers, WorkerDies(w) PROVE RowInv'
  BY <1>2, ResetInv DEF WorkerDies
<1>7. ASSUME NEW w \in Workers, NEW t \in TaskIds, DeliverFails(w, t) PROVE RowInv'
  BY <1>7, DeliverFailsInv
<1>3. ASSUME ApiStep PROVE RowInv'
  BY <1>3, RequestInv DEF ApiStep
<1>4. ASSUME ApiFault PROVE RowInv'
  BY <1>4, ObjectInv DEF ApiFault
<1>5. ASSUME NEW t \in TaskIds, Stall(t) \/ Tick(t) PROVE RowInv'
  BY <1>5, ClockInv DEF Stall, Tick
<1>6. ASSUME NEW r \in Refs, Ages(r) PROVE RowInv'
  BY <1>6, ObjectInv DEF Ages
<1> QED
  BY <1>1, <1>2, <1>3, <1>4, <1>5, <1>6, <1>7 DEF Next

\* Every step of local mode keeps the types of the dispatch batches and the fault count.
LEMMA NextBatch ==
    ASSUME Inv, Next
    PROVE  batch' \in [Workers -> SUBSET TaskIds] /\ faults' \in 0 .. MaxFaults
<1> USE DEF Inv
<1>1. ASSUME NEW w \in Workers, NEW due \in SUBSET TaskIds, batch' = [batch EXCEPT ![w] = due]
      PROVE  batch' \in [Workers -> SUBSET TaskIds]
  BY <1>1
<1>2. Fault => faults' \in 0 .. MaxFaults
  BY FaultAssumption DEF Fault
<1>3. UNCHANGED faults \/ Fault
  BY DEF Next, WorkerStep, ClaimBatch, Deliver, RunOne, NothingToRun, WorkerDies, DeliverFails,
     ApiStep, ApiFault, Stall, Tick, Ages
<1>4. ASSUME NEW w \in Workers, WorkerStep(w) \/ WorkerDies(w) \/ \E t \in TaskIds : DeliverFails(w, t)
      PROVE  batch' \in [Workers -> SUBSET TaskIds]
  <2>1. \/ UNCHANGED batch
        \/ batch' = [batch EXCEPT ![w] = {t \in TaskIds : Publishable(t)}]
        \/ \E t \in TaskIds : batch' = [batch EXCEPT ![w] = batch[w] \ {t}]
        \/ batch' = [batch EXCEPT ![w] = {}]
    BY <1>4 DEF WorkerStep, ClaimBatch, Deliver, Delivered, RunOne, NothingToRun, WorkerDies,
       DeliverFails
  <2>2. /\ {t \in TaskIds : Publishable(t)} \in SUBSET TaskIds /\ {} \in SUBSET TaskIds
        /\ \A t \in TaskIds : batch[w] \ {t} \in SUBSET TaskIds
    OBVIOUS
  <2> QED
    BY <1>1, <2>1, <2>2
<1>5. ApiStep \/ ApiFault \/ (\E t \in TaskIds : Stall(t) \/ Tick(t)) \/ (\E r \in Refs : Ages(r))
          => UNCHANGED batch
  BY DEF ApiStep, ApiFault, Stall, Tick, Ages
<1> QED
  BY <1>2, <1>3, <1>4, <1>5 DEF Next

\* Inv is an invariant of local mode.
THEOREM Inductive == Spec => []Inv
<1>1. Inv /\ UNCHANGED vars => Inv'
  BY DEF Inv, vars, RowInv, dbVars, apiVars, memVars, DbTypeOK, ApiTypeOK, MemTypeOK, TasksOwned,
     LiveEmbedding, DraftsSucceeded, ErasedReached, Remembers, Working, LeaseColumns, OutboxAgrees,
     ChunksOfProfile, NothingSurvivesDelete
<1>2. Inv /\ [Next]_vars => Inv'
  BY <1>1, NextRowInv, NextBatch DEF Inv
<1> QED
  BY InitInv, <1>2, PTL DEF Spec

\* Every row the transactions of tasks.py, outbox.py and resume.py write has its type; no
\* task is attempted more than max_attempts times.
THEOREM TypeCorrect == Spec => []TypeOK
<1>1. Inv => TypeOK
  BY DEF Inv, RowInv, TypeOK
<1> QED
  BY <1>1, Inductive, PTL

\* Chunks are of the profile's revision and content, at every moment and for every
\* interleaving of saves, deletes and late workers.
THEOREM ChunksAreOfProfile == Spec => []ChunksOfProfile
<1>1. Inv => ChunksOfProfile
  BY DEF Inv, RowInv
<1> QED
  BY <1>1, Inductive, PTL

\* What delete_resume removed does not come back, whichever worker still holds it.
THEOREM DeleteIsFinal == Spec => []NothingSurvivesDelete
<1>1. Inv => NothingSurvivesDelete
  BY DEF Inv, RowInv
<1> QED
  BY <1>1, Inductive, PTL

\* The task and outbox rows agree, and meet the CHECK constraints on their leases.
THEOREM RowsAgree == Spec => [](OutboxAgrees /\ LeaseColumns)
<1>1. Inv => OutboxAgrees /\ LeaseColumns
  BY DEF Inv, RowInv
<1> QED
  BY <1>1, Inductive, PTL

-----------------------------------------------------------------------------
(* Ends *)

\* No step of any process, late, duplicated or after a restart, revives an ended task or
\* changes how it ended, except that its owner may discard an extraction.
THEOREM EndsAreFinal == Spec => TerminalIsFinal
<1>1. ASSUME Inv, Next PROVE EndsForGood
  <2>0. RowInv
    BY <1>1 DEF Inv
  <2>1. CASE UNCHANGED task
    BY <2>1 DEF EndsForGood
  <2>2. ASSUME NEW w \in Workers, NEW t \in TaskIds, RunOne(w, t) PROVE EndsForGood
    <3>1. Claimable(t)
      BY <2>2 DEF RunOne, Oldest, Candidates
    <3>2. UNCHANGED task \/ task' = [task EXCEPT ![t] = ClaimedTask(task[t], w)]
      BY <2>2 DEF RunOne, TakeTask, dbVars
    <3> QED
      BY <2>0, <2>1, <3>1, <3>2, UnfinishedEnds
  <2>3. ASSUME NEW w \in Workers, WorkerStep(w) PROVE EndsForGood
    <3>1. \/ UNCHANGED task
          \/ \E t \in TaskIds : RunOne(w, t)
          \/ Work(w)
      BY <2>3 DEF WorkerStep, ClaimBatch, Deliver, Delivered, NothingToRun, dbVars, Work
    <3> QED
      BY <2>0, <2>1, <2>2, <3>1, WorkEnds
  <2>6. ASSUME ApiStep PROVE EndsForGood
    BY <2>0, <2>6, RequestEnds DEF ApiStep
  <2>7. ASSUME NEW t \in TaskIds, Stall(t) \/ Tick(t) PROVE EndsForGood
    BY <2>0, <2>7, ClockEnds DEF Stall, Tick
  <2>8. ASSUME NEW w \in Workers, WorkerDies(w) \/ \E t \in TaskIds : DeliverFails(w, t)
        PROVE  EndsForGood
    BY <2>1, <2>8 DEF WorkerDies, DeliverFails, Delivered, dbVars
  <2>9. ASSUME ApiFault \/ \E r \in Refs : Ages(r) PROVE EndsForGood
    BY <2>1, <2>9 DEF ApiFault, ApiDies, UploadFails, Ages, ObjectAges, dbVars
  <2> QED
    BY <1>1, <2>3, <2>6, <2>7, <2>8, <2>9 DEF Next
<1>2. Inv /\ [Next]_vars => [EndsForGood]_vars
  BY <1>1
<1> QED
  BY <1>2, Inductive, PTL DEF Spec, TerminalIsFinal

-----------------------------------------------------------------------------
(* Inputs and embeddings *)

\* Every step of local mode preserves InputInv.
LEMMA NextInputs ==
    ASSUME RowInv, RowInv', InputInv, Next
    PROVE  InputInv'
<1>1. ASSUME NEW w \in Workers, WorkerStep(w) PROVE InputInv'
  <2>1. ASSUME NEW l \in {"claim", "deliver", "sweep"}, Goto(w, l),
               UNCHANGED <<task, apiVars, cur, input, owed>>
        PROVE  InputInv'
    <3>1. \A v \in Workers : KeepsMemory(v)
      BY <2>1, GotoInputs
    <3> QED
      BY <2>1, <3>1, InputStutter DEF apiVars
  <2>2. ClaimBatch(w) \/ (\E t \in TaskIds : Deliver(w, t)) \/ NothingToRun(w) => InputInv'
    BY <2>1, Zenon DEF ClaimBatch, Deliver, Delivered, NothingToRun, dbVars
  <2>3. ASSUME NEW t \in TaskIds, RunOne(w, t) PROVE InputInv'
    <3>1. CASE Exhausted(t)
      BY <2>1, <2>3, <3>1 DEF RunOne, dbVars
    <3>2. CASE ~Exhausted(t)
      BY <2>3, <3>2, TakeTaskInputs DEF RunOne, Oldest, Candidates, Claimable
    <3> QED
      BY <3>1, <3>2
  <2>4. Work(w) => InputInv'
    BY WorkInputs
  <2> QED
    BY <1>1, <2>2, <2>3, <2>4 DEF WorkerStep, Work
<1>2. ASSUME NEW w \in Workers, WorkerDies(w) PROVE InputInv'
  BY <1>2, ResetInputs DEF WorkerDies
<1>3. ASSUME NEW w \in Workers, NEW t \in TaskIds, DeliverFails(w, t) PROVE InputInv'
  <2>1. \A v \in Workers : KeepsMemory(v)
    BY <1>3, GotoInputs DEF DeliverFails, Delivered
  <2> QED
    BY <1>3, <2>1, InputStutter DEF DeliverFails, Delivered, apiVars
<1>4. ASSUME ApiStep PROVE InputInv'
  BY <1>4, RequestInputs DEF ApiStep
<1>5. ASSUME ApiFault \/ \E r \in Refs : Ages(r) PROVE InputInv'
  BY <1>5, ObjectInputs DEF ApiFault, Ages
<1>6. ASSUME NEW t \in TaskIds, Stall(t) \/ Tick(t) PROVE InputInv'
  BY <1>6, ClockInputs DEF Stall, Tick
<1> QED
  BY <1>1, <1>2, <1>3, <1>4, <1>5, <1>6 DEF Next

\* No cleanup, late worker or other request deletes the PDF an extraction still needs.
THEOREM InputsArePresent == Spec => []InputPresent
<1>1. Init => InputInv
  BY InputInvAtFirst DEF Init
<1>2. Inv /\ Inv' /\ InputInv /\ [Next]_vars => InputInv'
  <2>1. InputInv /\ UNCHANGED vars => InputInv'
    BY DEF InputInv, vars, dbVars, apiVars, memVars, InputPresent, Stored, DeletionsAllowed,
       DeletionOwed, Deletable, UploadsStored, InputsUnshared, InputRemembered, Working
  <2> QED
    BY <2>1, NextInputs DEF Inv
<1>3. InputInv => InputPresent
  BY DEF InputInv
<1> QED
  BY <1>1, <1>2, <1>3, Inductive, PTL DEF Spec

\* Every step of local mode leaves every saved resume accounted for.
LEMMA NextAccounts ==
    ASSUME RowInv, EmbeddingAccounted, Next
    PROVE  EmbeddingAccounted'
<1>1. ASSUME NEW w \in Workers, WorkerStep(w) PROVE EmbeddingAccounted'
  <2>1. ASSUME NEW t \in TaskIds, RunOne(w, t), ~Exhausted(t) PROVE EmbeddingAccounted'
    BY <2>1, ClaimAccounts DEF RunOne, TakeTask, Oldest, Candidates
  <2>2. \/ UNCHANGED <<rev, profile, chunks, task>>
        \/ \E t \in TaskIds : RunOne(w, t) /\ ~Exhausted(t)
        \/ Work(w)
    BY <1>1 DEF WorkerStep, Work, ClaimBatch, Deliver, Delivered, RunOne, NothingToRun, dbVars
  <2> QED
    BY <2>1, <2>2, WorkAccounts, AccountsStutter
<1>2. ASSUME NEW w \in Workers, WorkerDies(w) \/ \E t \in TaskIds : DeliverFails(w, t)
      PROVE  EmbeddingAccounted'
  BY <1>2, AccountsStutter DEF WorkerDies, DeliverFails, Delivered, dbVars
<1>3. ASSUME ApiStep PROVE EmbeddingAccounted'
  BY <1>3, RequestAccounts DEF ApiStep
<1>4. ASSUME ApiFault \/ \E r \in Refs : Ages(r) PROVE EmbeddingAccounted'
  BY <1>4, AccountsStutter DEF ApiFault, ApiDies, UploadFails, Ages, ObjectAges, dbVars
<1>5. ASSUME NEW t \in TaskIds, Stall(t) \/ Tick(t) PROVE EmbeddingAccounted'
  BY <1>5, ClockAccounts DEF Stall, Tick
<1> QED
  BY <1>1, <1>2, <1>3, <1>4, <1>5 DEF Next

\* A saved resume without chunks has an embedding under way or failed, or nothing to embed.
THEOREM ResumesAreAccountedFor == Spec => []EmbeddingAccounted
<1>1. Init => EmbeddingAccounted
  BY DEF Init, DbInit, EmbeddingAccounted
<1>2. Inv /\ EmbeddingAccounted /\ [Next]_vars => EmbeddingAccounted'
  <2>1. EmbeddingAccounted /\ UNCHANGED vars => EmbeddingAccounted'
    BY AccountsStutter DEF vars, dbVars
  <2> QED
    BY <2>1, NextAccounts DEF Inv
<1> QED
  BY <1>1, <1>2, Inductive, PTL DEF Spec
=============================================================================
