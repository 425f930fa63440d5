-------------------------- MODULE TaskWorker_proofs --------------------------
(***************************************************************************)
(* RowInv is preserved by every transaction of the API, of the workers and *)
(* of the clock, and so are, on top of it, InputInv and EmbeddingAccounted.*)
(* The modes (LocalPipeline, AwsPipeline) add the steps that are theirs.   *)
(***************************************************************************)
EXTENDS TaskWorker, TLAPS

-----------------------------------------------------------------------------
(* Rows: what the transformers of tasks.py and outbox.py return *)

\* Clearing a lease gives a row.
LEMMA UnleasedType ==
    ASSUME NEW row \in TaskRow
    PROVE  Unleased(row) \in TaskRow
  BY DEF TaskRow, Unleased

\* claim_task returns a row as long as an attempt is left.
LEMMA ClaimedType ==
    ASSUME NEW row \in TaskRow, NEW p \in Procs, row.attempts < MaxAttempts
    PROVE  ClaimedTask(row, p) \in TaskRow
<1>1. row.attempts + 1 \in 0 .. MaxAttempts
  BY StoreAssumption DEF TaskRow
<1>2. \A n \in 0 .. MaxAttempts :
        [row EXCEPT !.st = "PROCESSING", !.attempts = n, !.holder = p, !.live = TRUE] \in TaskRow
  BY DEF TaskRow, LiveStates
<1> QED
  BY <1>1, <1>2, Zenon DEF ClaimedTask

\* The other transformers of tasks.py return rows.
LEMMA TaskRowTypes ==
    ASSUME NEW row \in TaskRow, NEW b \in BOOLEAN
    PROVE  /\ ExhaustedTask(row) \in TaskRow
           /\ SucceededTask(row) \in TaskRow
           /\ StaleTask(row) \in TaskRow
           /\ FailedTask(row, b) \in TaskRow
           /\ OwnerCancelledTask(row) \in TaskRow
           /\ DraftTask(row) \in TaskRow
<1>1. ExhaustedTask(row) \in TaskRow
  BY UnleasedType DEF TaskRow, ExhaustedTask, TerminalStates
<1>2. SucceededTask(row) \in TaskRow
  BY UnleasedType DEF TaskRow, SucceededTask, TerminalStates
<1>3. StaleTask(row) \in TaskRow
  BY UnleasedType DEF TaskRow, StaleTask, TerminalStates
<1>4. FailedTask(row, b) \in TaskRow
  BY UnleasedType DEF TaskRow, FailedTask, TerminalStates, LiveStates
<1>5. OwnerCancelledTask(row) \in TaskRow
  BY UnleasedType DEF TaskRow, OwnerCancelledTask, TerminalStates
<1>6. DraftTask(row) \in TaskRow
  BY <1>2 DEF TaskRow, DraftTask
<1> QED
  BY <1>1, <1>2, <1>3, <1>4, <1>5, <1>6

\* The outbox transformers return rows.
LEMMA EventRowTypes ==
    ASSUME NEW e \in EventRow, NEW p \in Procs, NEW row \in TaskRow, NEW b \in BOOLEAN
    PROVE  /\ CancelledEvent(e) \in EventRow
           /\ FailedEvent(e, row, b) \in EventRow
           /\ ClaimedEvent(e, p) \in EventRow
           /\ SentEvent(e) \in EventRow
           /\ RetriedEvent(e) \in EventRow
  BY DEF EventRow, Unleased, CancelledEvent, FailedEvent, FailRetries, ClaimedEvent, SentEvent,
     RetriedEvent

\* The rows enqueue_task inserts.
LEMMA NewRowTypes ==
    ASSUME NEW u \in Users, NEW k \in Kinds, NEW r \in 0 .. MaxRevision, NEW ref \in Refs \cup {None}
    PROVE  /\ NewTask(u, k, r, ref) \in TaskRow
           /\ NewEvent \in EventRow
<1>1. 0 \in 0 .. MaxAttempts
  BY StoreAssumption
<1>2. NewTask(u, k, r, ref) \in TaskRow
  BY <1>1 DEF TaskRow, NewTask, NoTask, LiveStates
<1>3. NewEvent \in EventRow
  BY DEF EventRow, NewEvent, NoEvent
<1> QED
  BY <1>2, <1>3

\* The empty database, with no request and every worker at its start, satisfies RowInv.
LEMMA RowInvAtFirst ==
    ASSUME DbInit, ApiInit, MemInit
    PROVE  RowInv
<1>1. NoTask \in TaskRow /\ NoEvent \in EventRow /\ NoResume \in ResumeRow
  BY StoreAssumption DEF NoTask, NoEvent, TaskRow, EventRow, ResumeRow
<1>2. DbTypeOK /\ ApiTypeOK
  BY <1>1, StoreAssumption DEF DbInit, ApiInit, DbTypeOK, ApiTypeOK
<1>3. MemTypeOK /\ Remembers
  BY DEF MemInit, MemTypeOK, Labels, Remembers, Working
<1>4. TasksOwned /\ LiveEmbedding /\ DraftsSucceeded /\ ErasedReached
  BY DEF DbInit, ApiInit, NoTask, TasksOwned, LiveEmbedding, LiveStates, DraftsSucceeded, ErasedReached
<1>5. LeaseColumns /\ OutboxAgrees /\ ChunksOfProfile /\ NothingSurvivesDelete
  BY DEF DbInit, NoTask, NoEvent, LeaseColumns, OutboxAgrees, ChunksOfProfile, NothingSurvivesDelete
<1> QED
  BY <1>2, <1>3, <1>4, <1>5 DEF RowInv

-----------------------------------------------------------------------------
(* Steps on existing rows.  Such a step gives no row another owner, kind or revision, *)
(* revives no ended task, and leaves a draft only on an extraction of the account's   *)
(* revision; a worker forgets its task, keeps what it knows of it, or takes one.      *)

Evolved(old, new) ==
    /\ new.kind = old.kind /\ new.owner = old.owner /\ new.rev = old.rev
    /\ new.st = "ABSENT" <=> old.st = "ABSENT"
    /\ new.st \in LiveStates => old.st \in LiveStates
    /\ new.result # "NONE" =>
          \/ old.result # "NONE" /\ new.st = old.st
          \/ old.kind = "EXTRACTION" /\ new.st = "SUCCEEDED" /\ old.st \in LiveStates

PairOK(row, e) ==
    /\ row.holder # None <=> row.st = "PROCESSING"
    /\ row.live => row.st = "PROCESSING"
    /\ e.holder # None <=> e.st = "CLAIMED"
    /\ e.live => e.st = "CLAIMED"
    /\ row.st \in {"PENDING", "RETRY_WAIT"} => e.st \in {"PENDING", "CLAIMED", "SENT"}
    /\ row.st \in {"PROCESSING", "SUCCEEDED"} => e.st = "SENT"
    /\ row.st \in {"FAILED", "CANCELLED"} => e.st = "CANCELLED"

MemoryKept ==
    \A w \in Workers :
        Working(w)' =>
            \/ /\ Working(w) /\ cur'[w] = cur[w]
               /\ pc'[w] = "handled" => pc[w] = "handled" /\ content'[w] = content[w]
            \/ /\ cur'[w] \in TaskIds /\ task[cur'[w]].st # "ABSENT"
               /\ task[cur'[w]].kind = WorkerKind[w]
               /\ pc'[w] = "handled" /\ WorkerKind[w] = "EMBEDDING" =>
                     content'[w] \in Contents /\ content'[w] = profile[task[cur'[w]].owner].content

\* LeaseColumns and OutboxAgrees speak of one task and its event at a time.
LEMMA PairsOK ==
    LeaseColumns /\ OutboxAgrees <=> \A t \in TaskIds : PairOK(task[t], event[t])
  BY DEF LeaseColumns, OutboxAgrees, PairOK

\* The same after a step, in the direction the steps need.
LEMMA PairsOKNext ==
    (\A t \in TaskIds : PairOK(task'[t], event'[t])) => LeaseColumns' /\ OutboxAgrees'
  BY DEF LeaseColumns, OutboxAgrees, PairOK

\* A step that evolves the rows of existing tasks preserves RowInv.
LEMMA RowsStep ==
    ASSUME RowInv, ApiTypeOK', MemTypeOK', ChunksOfProfile', chunks' \in [Users -> ResumeRow],
           task' \in [TaskIds -> TaskRow], event' \in [TaskIds -> EventRow],
           \A t \in TaskIds : Evolved(task[t], task'[t]) /\ PairOK(task'[t], event'[t]),
           MemoryKept, UNCHANGED <<rev, profile, erased>>
    PROVE  RowInv'
<1> USE DEF RowInv
<1>1. DbTypeOK'
  BY DEF DbTypeOK
<1>2. TasksOwned'
  BY DEF Evolved, TasksOwned
<1>3. LiveEmbedding'
  BY DEF Evolved, LiveEmbedding
<1>4. DraftsSucceeded'
  BY DEF Evolved, DraftsSucceeded
<1>5. ErasedReached'
  BY DEF ErasedReached
<1>6. Remembers'
  BY DEF Evolved, MemoryKept, Remembers
<1>7. NothingSurvivesDelete'
  <2> SUFFICES ASSUME NEW t \in TaskIds, task'[t].st # "ABSENT",
                      task'[t].rev < erased'[task'[t].owner]
               PROVE  task'[t].st \in TerminalStates /\ task'[t].result = "NONE"
    BY DEF NothingSurvivesDelete
  <2>1. task[t].st \in TerminalStates /\ task[t].result = "NONE"
    BY DEF Evolved, NothingSurvivesDelete
  <2>2. task[t].st \notin LiveStates
    BY <2>1 DEF LiveStates, TerminalStates
  <2>3. task'[t].st \notin LiveStates /\ task'[t].result = "NONE"
    BY <2>1, <2>2 DEF Evolved
  <2>4. task'[t] \in TaskRow
    OBVIOUS
  <2> QED
    BY <2>3, <2>4 DEF TaskRow
<1>8. LeaseColumns' /\ OutboxAgrees'
  BY PairsOKNext
<1> QED
  BY <1>1, <1>2, <1>3, <1>4, <1>5, <1>6, <1>7, <1>8

\* The same for a step that evolves one task and its event.
LEMMA RowStep ==
    ASSUME RowInv, ApiTypeOK', MemTypeOK', ChunksOfProfile', chunks' \in [Users -> ResumeRow],
           NEW t \in TaskIds, NEW row \in TaskRow, NEW e \in EventRow,
           Evolved(task[t], row), PairOK(row, e),
           task' = [task EXCEPT ![t] = row], event' = [event EXCEPT ![t] = e],
           MemoryKept, UNCHANGED <<rev, profile, erased>>
    PROVE  RowInv'
<1>1. task \in [TaskIds -> TaskRow] /\ event \in [TaskIds -> EventRow]
  BY DEF RowInv, DbTypeOK
<1>2. task' \in [TaskIds -> TaskRow] /\ event' \in [TaskIds -> EventRow]
  BY <1>1
<1>3. ASSUME NEW s \in TaskIds
      PROVE  Evolved(task[s], task'[s]) /\ PairOK(task'[s], event'[s])
  <2>1. CASE s = t
    BY <1>1, <2>1
  <2>2. CASE s # t
    <3>1. task'[s] = task[s] /\ event'[s] = event[s]
      BY <1>1, <2>2
    <3>2. Evolved(task[s], task[s]) /\ PairOK(task[s], event[s])
      BY PairsOK DEF RowInv, Evolved
    <3> QED
      BY <3>1, <3>2
  <2> QED
    BY <2>1, <2>2
<1> QED
  BY <1>2, <1>3, RowsStep

\* What a step that leaves the memory, the objects, profiles and chunks alone keeps.
LEMMA StillKept ==
    ASSUME RowInv, UNCHANGED <<rev, profile, chunks, apiVars, memVars>>
    PROVE  /\ ApiTypeOK' /\ MemTypeOK' /\ ChunksOfProfile' /\ MemoryKept
           /\ chunks' \in [Users -> ResumeRow]
           /\ UNCHANGED <<rev, profile, erased>>
  BY DEF RowInv, DbTypeOK, ApiTypeOK, MemTypeOK, ChunksOfProfile, MemoryKept, Working, apiVars, memVars

-----------------------------------------------------------------------------
(* The clock *)

\* Time passing (a lease runs out, a task becomes due or old, a draft expires) preserves RowInv.
LEMMA ClockInv ==
    ASSUME RowInv, NEW t \in TaskIds, UNCHANGED <<apiVars, memVars>>,
           \/ LeaseExpires(t) \/ EventLeaseExpires(t) \/ BecomesDue(t) \/ TaskAges(t)
           \/ ResultExpires(t)
    PROVE  RowInv'
<1>1. task \in [TaskIds -> TaskRow] /\ event \in [TaskIds -> EventRow]
  BY DEF RowInv, DbTypeOK
<1>2. task[t] \in TaskRow /\ event[t] \in EventRow /\ PairOK(task[t], event[t])
  BY <1>1, PairsOK DEF RowInv
<1>3. UNCHANGED <<rev, profile, chunks>>
  BY DEF LeaseExpires, EventLeaseExpires, BecomesDue, TaskAges, ResultExpires
<1>4. CASE LeaseExpires(t)
  <2> DEFINE row == [task[t] EXCEPT !.live = FALSE]
  <2>1. row \in TaskRow /\ Evolved(task[t], row) /\ PairOK(row, event[t])
    BY <1>2 DEF TaskRow, Evolved, PairOK
  <2>2. task' = [task EXCEPT ![t] = row] /\ event' = [event EXCEPT ![t] = event[t]]
    BY <1>1, <1>4 DEF LeaseExpires
  <2> QED
    BY <1>2, <1>3, <2>1, <2>2, StillKept, RowStep
<1>5. CASE EventLeaseExpires(t)
  <2> DEFINE e == [event[t] EXCEPT !.live = FALSE]
  <2>1. e \in EventRow /\ Evolved(task[t], task[t]) /\ PairOK(task[t], e)
    BY <1>2 DEF EventRow, Evolved, PairOK
  <2>2. task' = [task EXCEPT ![t] = task[t]] /\ event' = [event EXCEPT ![t] = e]
    BY <1>1, <1>5 DEF EventLeaseExpires
  <2> QED
    BY <1>2, <1>3, <2>1, <2>2, StillKept, RowStep
<1>6. CASE BecomesDue(t)
  <2> DEFINE row == [task[t] EXCEPT !.due = TRUE]
             e == [event[t] EXCEPT !.due = TRUE]
  <2>1. row \in TaskRow /\ Evolved(task[t], row)
    BY <1>2 DEF TaskRow, Evolved
  <2>2. e \in EventRow /\ e.st = event[t].st /\ e.holder = event[t].holder /\ e.live = event[t].live
    BY <1>2 DEF EventRow
  <2>3. row.st = task[t].st /\ row.holder = task[t].holder /\ row.live = task[t].live
    BY <1>2 DEF TaskRow
  <2>4. PairOK(row, e)
    BY <1>2, <2>2, <2>3 DEF PairOK
  <2>5. task' = [task EXCEPT ![t] = row] /\ event' = [event EXCEPT ![t] = e]
    BY <1>1, <1>6 DEF BecomesDue
  <2> QED
    BY <1>3, <2>1, <2>2, <2>4, <2>5, StillKept, RowStep
<1>7. CASE TaskAges(t)
  <2> DEFINE row == [task[t] EXCEPT !.aged = TRUE]
  <2>1. row \in TaskRow /\ Evolved(task[t], row) /\ PairOK(row, event[t])
    BY <1>2 DEF TaskRow, Evolved, PairOK
  <2>2. task' = [task EXCEPT ![t] = row] /\ event' = [event EXCEPT ![t] = event[t]]
    BY <1>1, <1>7 DEF TaskAges
  <2> QED
    BY <1>2, <1>3, <2>1, <2>2, StillKept, RowStep
<1>8. CASE ResultExpires(t)
  <2> DEFINE row == [task[t] EXCEPT !.result = "STALE"]
  <2>1. row \in TaskRow /\ Evolved(task[t], row) /\ PairOK(row, event[t])
    BY <1>2, <1>8 DEF TaskRow, Evolved, PairOK, ResultExpires
  <2>2. task' = [task EXCEPT ![t] = row] /\ event' = [event EXCEPT ![t] = event[t]]
    BY <1>1, <1>8 DEF ResultExpires
  <2> QED
    BY <1>2, <1>3, <2>1, <2>2, StillKept, RowStep
<1> QED
  BY <1>4, <1>5, <1>6, <1>7, <1>8

-----------------------------------------------------------------------------
(* The API *)

\* Steps on objects and requests only
LEMMA ObjectInv ==
    ASSUME RowInv, UNCHANGED memVars,
           \/ \E u \in Users, r \in Refs : StoreUpload(u, r)
           \/ \E r \in Refs : UploadFails(r) \/ DeleteDoomed(r) \/ ObjectAges(r)
           \/ \E u \in Users : DeleteLeftovers(u)
           \/ ApiDies
    PROVE  RowInv'
<1>4. \A u \in Users : TempRefs(u) \subseteq Refs
  BY DEF RowInv, DbTypeOK, TempRefs, TaskRow
<1>1. ApiTypeOK' /\ UNCHANGED <<dbVars, erased>>
  BY <1>4 DEF RowInv, ApiTypeOK, StoreUpload, UploadFails, DeleteDoomed, DeleteLeftovers, ObjectAges,
     ApiDies, Deleted
<1>2. /\ DbTypeOK' /\ MemTypeOK' /\ TasksOwned' /\ LiveEmbedding' /\ DraftsSucceeded'
      /\ ErasedReached'
  BY <1>1 DEF RowInv, dbVars, memVars, DbTypeOK, MemTypeOK, TasksOwned, LiveEmbedding,
     DraftsSucceeded, ErasedReached
<1>3. Remembers' /\ LeaseColumns' /\ OutboxAgrees' /\ ChunksOfProfile' /\ NothingSurvivesDelete'
  BY <1>1 DEF RowInv, dbVars, memVars, Remembers, Working, LeaseColumns, OutboxAgrees,
     ChunksOfProfile, NothingSurvivesDelete
<1> QED
  BY <1>1, <1>2, <1>3 DEF RowInv

\* A step that inserts a task of the account's revision, possibly a new one with its profile
LEMMA EnqueueInv ==
    ASSUME RowInv, UNCHANGED <<memVars, erased>>, ApiTypeOK',
           NEW u \in Users, NEW k \in Kinds, NEW ref \in Refs \cup {None},
           EnqueueTask(u, k, rev'[u], ref),
           k = "EMBEDDING" => profile'[u] # NoResume,
           rev' \in [Users -> 0 .. MaxRevision],
           profile' \in [Users -> ResumeRow], chunks' \in [Users -> ResumeRow],
           \A v \in Users :
              \/ rev'[v] = rev[v] /\ profile'[v] = profile[v]
              \/ rev'[v] > rev[v] /\ profile'[v] # NoResume /\ profile'[v].rev = rev'[v],
           ChunksOfProfile'
    PROVE  RowInv'
<1> USE DEF RowInv
<1>1. PICK t \in TaskIds :
        /\ task[t].st = "ABSENT"
        /\ task' = [task EXCEPT ![t] = NewTask(u, k, rev'[u], ref)]
        /\ event' = [event EXCEPT ![t] = NewEvent]
  BY DEF EnqueueTask, NextId
<1> DEFINE new == NewTask(u, k, rev'[u], ref)
<1>2. task \in [TaskIds -> TaskRow] /\ event \in [TaskIds -> EventRow] /\ rev \in [Users -> 0 .. MaxRevision]
  BY DEF DbTypeOK
<1>3. new \in TaskRow /\ NewEvent \in EventRow
  BY NewRowTypes
<1>4. /\ new.st = "PENDING" /\ new.kind = k /\ new.owner = u /\ new.rev = rev'[u]
      /\ new.holder = None /\ new.live = FALSE /\ new.result = "NONE"
      /\ NewEvent.st = "PENDING" /\ NewEvent.holder = None /\ NewEvent.live = FALSE
  BY DEF NewTask, NoTask, NewEvent, NoEvent
<1> HIDE DEF new
<1>5. /\ task'[t] = new /\ event'[t] = NewEvent
      /\ \A s \in TaskIds \ {t} : task'[s] = task[s] /\ event'[s] = event[s]
  BY <1>1, <1>2 DEF new
<1>6. \A v \in Users : rev'[v] >= rev[v]
  BY <1>2
<1>7. DbTypeOK'
  BY <1>1, <1>2, <1>3 DEF DbTypeOK, new
<1>8. TasksOwned'
  <2>1. \A s \in TaskIds : task[s].st # "ABSENT" => task[s].rev \in Int
    BY <1>2, StoreAssumption DEF TaskRow
  <2>2. \A v \in Users : rev[v] \in Int /\ rev'[v] \in Int
    BY <1>2, StoreAssumption
  <2> QED
    BY <1>4, <1>5, <1>6, <2>1, <2>2 DEF TasksOwned
<1>9. LiveEmbedding'
  <2> SUFFICES ASSUME NEW s \in TaskIds, task'[s].st \in LiveStates, task'[s].kind = "EMBEDDING",
                      task'[s].rev = rev'[task'[s].owner]
               PROVE  profile'[task'[s].owner] # NoResume
    BY DEF LiveEmbedding
  <2>1. CASE s = t
    BY <1>4, <1>5, <2>1
  <2>2. CASE s # t
    <3>1. task'[s] = task[s] /\ task[s].owner \in Users
      BY <1>5, <2>2 DEF TasksOwned, LiveStates
    <3> QED
      BY <3>1 DEF LiveEmbedding
  <2> QED
    BY <2>1, <2>2
<1>10. DraftsSucceeded'
  BY <1>4, <1>5 DEF DraftsSucceeded
<1>11. ErasedReached'
  <2>1. \A v \in Users : rev[v] \in Int /\ rev'[v] \in Int /\ erased[v] \in Int
    BY <1>2, StoreAssumption DEF ApiTypeOK
  <2> QED
    BY <1>6, <2>1 DEF ErasedReached
<1>12. Remembers'
  <2> SUFFICES ASSUME NEW w \in Workers, Working(w)
               PROVE  /\ cur[w] \in TaskIds
                      /\ task'[cur[w]].st # "ABSENT"
                      /\ task'[cur[w]].kind = WorkerKind[w]
                      /\ pc[w] = "handled" /\ WorkerKind[w] = "EMBEDDING" =>
                            /\ content[w] \in Contents
                            /\ profile'[task'[cur[w]].owner].rev = task'[cur[w]].rev =>
                                  profile'[task'[cur[w]].owner].content = content[w]
    BY DEF Remembers, memVars, Working
  <2>1. /\ cur[w] \in TaskIds /\ task[cur[w]].st # "ABSENT"
        /\ task'[cur[w]] = task[cur[w]]
    BY <1>1, <1>5 DEF Remembers
  <2>2. /\ task[cur[w]].owner \in Users
        /\ task[cur[w]].rev <= rev[task[cur[w]].owner] /\ task[cur[w]].rev \in Int
        /\ rev[task[cur[w]].owner] \in Int /\ rev'[task[cur[w]].owner] \in Int
    BY <1>2, <2>1, StoreAssumption DEF TasksOwned, TaskRow
  <2>3. profile'[task[cur[w]].owner].rev = task[cur[w]].rev =>
            profile'[task[cur[w]].owner] = profile[task[cur[w]].owner]
    BY <2>2
  <2> QED
    BY <2>1, <2>3 DEF Remembers
<1>13. NothingSurvivesDelete'
  <2>1. erased[u] <= rev'[u] /\ erased[u] \in Int /\ rev'[u] \in Int
    BY <1>6, <1>11, StoreAssumption DEF ErasedReached, ApiTypeOK
  <2> QED
    BY <1>4, <1>5, <2>1 DEF NothingSurvivesDelete
<1>14. LeaseColumns' /\ OutboxAgrees'
  BY <1>4, <1>5, PairsOK, PairsOKNext DEF PairOK
<1>15. MemTypeOK'
  BY DEF MemTypeOK, memVars
<1> QED
  BY <1>7, <1>8, <1>9, <1>10, <1>11, <1>12, <1>13, <1>14, <1>15

\* The transaction of prepare_resume preserves RowInv.
LEMMA EnqueueUploadInv ==
    ASSUME RowInv, UNCHANGED memVars, NEW u \in Users, NEW r \in Refs, EnqueueUpload(u, r)
    PROVE  RowInv'
<1>1. /\ ApiTypeOK' /\ ChunksOfProfile'
      /\ UNCHANGED <<rev, profile, chunks, erased>>
  BY DEF RowInv, EnqueueUpload, ApiTypeOK, ChunksOfProfile
<1>2. /\ rev \in [Users -> 0 .. MaxRevision] /\ profile \in [Users -> ResumeRow]
      /\ chunks \in [Users -> ResumeRow]
  BY DEF RowInv, DbTypeOK
<1>3. EnqueueTask(u, "EXTRACTION", rev'[u], r)
  BY <1>1 DEF EnqueueUpload
<1> QED
  BY <1>1, <1>2, <1>3, EnqueueInv DEF Kinds

\* A save of the same content, which retries the failed embedding, preserves RowInv.
LEMMA SaveUnchangedInv ==
    ASSUME RowInv, UNCHANGED memVars, NEW u \in Users, NEW x, SaveUnchanged(u, x)
    PROVE  RowInv'
<1>1. /\ ApiTypeOK' /\ ChunksOfProfile'
      /\ UNCHANGED <<rev, profile, chunks, erased>>
  BY DEF RowInv, SaveUnchanged, ApiTypeOK, ChunksOfProfile, apiVars
<1>2. /\ rev \in [Users -> 0 .. MaxRevision] /\ profile \in [Users -> ResumeRow]
      /\ chunks \in [Users -> ResumeRow]
  BY DEF RowInv, DbTypeOK
<1>3. EnqueueTask(u, "EMBEDDING", rev'[u], None) /\ profile'[u] # NoResume
  BY <1>1 DEF SaveUnchanged
<1> QED
  BY <1>1, <1>2, <1>3, EnqueueInv DEF Kinds

\* A save of new content (new revision, profile, embedding task, no chunks) preserves RowInv.
LEMMA SaveChangedInv ==
    ASSUME RowInv, UNCHANGED memVars, NEW u \in Users, NEW c \in Contents, NEW x,
           SaveChanged(u, c, x)
    PROVE  RowInv'
<1> DEFINE saved == [rev |-> rev[u] + 1, content |-> c]
<1>1. /\ rev \in [Users -> 0 .. MaxRevision] /\ profile \in [Users -> ResumeRow]
      /\ chunks \in [Users -> ResumeRow]
  BY DEF RowInv, DbTypeOK
<1>2. rev[u] \in Nat /\ rev[u] + 1 \in 0 .. MaxRevision
  BY <1>1, StoreAssumption DEF SaveChanged
<1>3. /\ rev' = [rev EXCEPT ![u] = rev[u] + 1]
      /\ profile' = [profile EXCEPT ![u] = saved]
      /\ chunks' = [chunks EXCEPT ![u] = NoResume]
      /\ UNCHANGED apiVars
      /\ EnqueueTask(u, "EMBEDDING", rev[u] + 1, None)
  BY DEF SaveChanged
<1>4. saved \in ResumeRow /\ saved # NoResume /\ NoResume \in ResumeRow /\ saved.rev = rev[u] + 1
  BY <1>2 DEF ResumeRow, NoResume
<1> HIDE DEF saved
<1>5. /\ rev' \in [Users -> 0 .. MaxRevision] /\ profile' \in [Users -> ResumeRow]
      /\ chunks' \in [Users -> ResumeRow]
  BY <1>1, <1>2, <1>3, <1>4
<1>6. \A v \in Users :
         \/ rev'[v] = rev[v] /\ profile'[v] = profile[v]
         \/ rev'[v] > rev[v] /\ profile'[v] # NoResume /\ profile'[v].rev = rev'[v]
  BY <1>1, <1>2, <1>3, <1>4
<1>7. ChunksOfProfile'
  BY <1>1, <1>3, <1>4 DEF RowInv, ChunksOfProfile
<1>8. ApiTypeOK' /\ UNCHANGED erased
  BY <1>3 DEF RowInv, ApiTypeOK, apiVars
<1>9. EnqueueTask(u, "EMBEDDING", rev'[u], None) /\ profile'[u] # NoResume
  BY <1>1, <1>3, <1>4
<1> QED
  BY <1>5, <1>6, <1>7, <1>8, <1>9, EnqueueInv DEF Kinds

\* Discarding an extraction, at whatever stage it is, preserves RowInv.
LEMMA DiscardInv ==
    ASSUME RowInv, UNCHANGED memVars, NEW t \in TaskIds, DiscardTask(t)
    PROVE  RowInv'
<1> DEFINE row == OwnerCancelledTask(task[t])
           e == CancelledEvent(event[t])
<1>1. task[t] \in TaskRow /\ event[t] \in EventRow
  BY DEF RowInv, DbTypeOK
<1>2. row \in TaskRow /\ e \in EventRow
  BY <1>1, TaskRowTypes, EventRowTypes DEF EventRow, CancelledEvent, Unleased
<1>3. /\ row.kind = task[t].kind /\ row.owner = task[t].owner /\ row.rev = task[t].rev
      /\ row.st = "CANCELLED" /\ row.result = "NONE" /\ row.holder = None /\ row.live = FALSE
      /\ e.st = "CANCELLED" /\ e.holder = None /\ e.live = FALSE
  BY <1>1 DEF TaskRow, EventRow, OwnerCancelledTask, CancelledEvent, Unleased
<1>4. /\ task' = [task EXCEPT ![t] = row] /\ event' = [event EXCEPT ![t] = e]
      /\ task[t].st # "ABSENT"
  BY DEF DiscardTask
<1> HIDE DEF row, e
<1>5. Evolved(task[t], row) /\ PairOK(row, e)
  BY <1>3, <1>4 DEF Evolved, PairOK, LiveStates
<1>6. ApiTypeOK'
  BY <1>1 DEF RowInv, ApiTypeOK, DiscardTask, TaskRow
<1>7. /\ MemTypeOK' /\ MemoryKept /\ ChunksOfProfile' /\ chunks' \in [Users -> ResumeRow]
      /\ UNCHANGED <<rev, profile, erased>>
  BY DEF RowInv, DiscardTask, MemTypeOK, MemoryKept, memVars, Working, ChunksOfProfile, DbTypeOK
<1> QED
  BY <1>2, <1>4, <1>5, <1>6, <1>7, RowStep

\* delete_resume, which cancels all of the owner's tasks and drafts, preserves RowInv.
LEMMA DeleteResumeInv ==
    ASSUME RowInv, UNCHANGED memVars, NEW u \in Users, DeleteResume(u)
    PROVE  RowInv'
<1> USE DEF RowInv
<1> DEFINE gone == Cancellable(u)
<1>1. /\ rev \in [Users -> 0 .. MaxRevision] /\ profile \in [Users -> ResumeRow]
      /\ chunks \in [Users -> ResumeRow]
      /\ task \in [TaskIds -> TaskRow] /\ event \in [TaskIds -> EventRow]
  BY DEF DbTypeOK
<1>2. /\ rev[u] \in Nat /\ rev[u] + 1 \in 0 .. MaxRevision
      /\ rev' = [rev EXCEPT ![u] = rev[u] + 1]
      /\ profile' = [profile EXCEPT ![u] = NoResume]
      /\ chunks' = [chunks EXCEPT ![u] = NoResume]
      /\ erased' = [erased EXCEPT ![u] = rev[u] + 1]
  BY <1>1, StoreAssumption DEF DeleteResume
<1>3. /\ task' = [t \in TaskIds |-> IF t \in gone THEN OwnerCancelledTask(task[t]) ELSE task[t]]
      /\ event' = [t \in TaskIds |-> IF t \in gone THEN CancelledEvent(event[t]) ELSE event[t]]
  BY DEF DeleteResume
<1>4. ASSUME NEW t \in TaskIds
      PROVE  /\ task'[t] \in TaskRow /\ event'[t] \in EventRow
             /\ Evolved(task[t], task'[t]) /\ PairOK(task'[t], event'[t])
             /\ t \in gone => task'[t].st = "CANCELLED" /\ task'[t].result = "NONE"
             /\ t \notin gone => task'[t] = task[t]
  <2>1. task[t] \in TaskRow /\ event[t] \in EventRow /\ PairOK(task[t], event[t])
    BY <1>1, PairsOK
  <2>2. CASE t \in gone
    <3>1. task'[t] = OwnerCancelledTask(task[t]) /\ event'[t] = CancelledEvent(event[t])
      BY <1>3, <2>2
    <3>2. OwnerCancelledTask(task[t]) \in TaskRow /\ CancelledEvent(event[t]) \in EventRow
      BY <2>1, TaskRowTypes DEF EventRow, CancelledEvent, Unleased
    <3>3. task[t].st # "ABSENT"
      BY <2>2 DEF Cancellable
    <3>4. Evolved(task[t], OwnerCancelledTask(task[t]))
      BY <2>1, <3>3 DEF Evolved, OwnerCancelledTask, Unleased, TaskRow, LiveStates
    <3>5. PairOK(OwnerCancelledTask(task[t]), CancelledEvent(event[t]))
      BY <2>1 DEF PairOK, OwnerCancelledTask, CancelledEvent, Unleased, TaskRow, EventRow
    <3>6. OwnerCancelledTask(task[t]).st = "CANCELLED" /\ OwnerCancelledTask(task[t]).result = "NONE"
      BY <2>1 DEF OwnerCancelledTask, Unleased, TaskRow
    <3> QED
      BY <2>2, <3>1, <3>2, <3>4, <3>5, <3>6
  <2>3. CASE t \notin gone
    <3>1. task'[t] = task[t] /\ event'[t] = event[t]
      BY <1>3, <2>3
    <3> QED
      BY <2>1, <2>3, <3>1 DEF Evolved
  <2> QED
    BY <2>2, <2>3
<1>5. task' \in [TaskIds -> TaskRow] /\ event' \in [TaskIds -> EventRow]
  BY <1>3, <1>4
<1>6. DbTypeOK'
  <2>1. NoResume \in ResumeRow
    BY DEF ResumeRow
  <2> QED
    BY <1>1, <1>2, <1>5, <2>1 DEF DbTypeOK
<1>7. ApiTypeOK'
  <2>1. TempRefs(u) \subseteq Refs
    BY <1>1 DEF TempRefs, TaskRow
  <2> QED
    BY <1>2, <2>1 DEF ApiTypeOK, DeleteResume
<1>8. \A t \in TaskIds : task[t].rev \in Nat /\ (task'[t].st # "ABSENT" => task[t].owner \in Users)
  BY <1>1, <1>4, StoreAssumption DEF TaskRow, TasksOwned, Evolved
<1>9. TasksOwned'
  BY <1>1, <1>2, <1>4, <1>8 DEF TasksOwned, Evolved
<1>10. LiveEmbedding'
  BY <1>1, <1>2, <1>4, <1>8 DEF LiveEmbedding, TasksOwned, Evolved, LiveStates
<1>11. DraftsSucceeded'
  BY <1>4 DEF DraftsSucceeded, Evolved
<1>12. ErasedReached'
  BY <1>1, <1>2 DEF ErasedReached, ApiTypeOK
<1>13. Remembers'
  <2> SUFFICES ASSUME NEW w \in Workers, Working(w)
               PROVE  /\ cur[w] \in TaskIds
                      /\ task'[cur[w]].st # "ABSENT"
                      /\ task'[cur[w]].kind = WorkerKind[w]
                      /\ pc[w] = "handled" /\ WorkerKind[w] = "EMBEDDING" =>
                            /\ content[w] \in Contents
                            /\ profile'[task'[cur[w]].owner].rev = task'[cur[w]].rev =>
                                  profile'[task'[cur[w]].owner].content = content[w]
    BY DEF Remembers, memVars, Working
  <2>1. /\ cur[w] \in TaskIds /\ Evolved(task[cur[w]], task'[cur[w]])
        /\ task[cur[w]].owner \in Users /\ task[cur[w]].rev \in Nat
    BY <1>4, <1>8 DEF Remembers, Evolved
  <2>2. profile'[u].rev = -1 /\ \A v \in Users \ {u} : profile'[v] = profile[v]
    BY <1>1, <1>2 DEF NoResume
  <2> QED
    BY <2>1, <2>2 DEF Remembers, Evolved
<1>14. ChunksOfProfile'
  BY <1>1, <1>2 DEF ChunksOfProfile
<1>15. NothingSurvivesDelete'
  <2> SUFFICES ASSUME NEW t \in TaskIds, task'[t].st # "ABSENT",
                      task'[t].rev < erased'[task'[t].owner]
               PROVE  task'[t].st \in TerminalStates /\ task'[t].result = "NONE"
    BY DEF NothingSurvivesDelete
  <2>1. CASE t \in gone
    BY <1>4, <2>1 DEF TerminalStates
  <2>2. CASE t \notin gone /\ task[t].owner = u
    <3>1. task'[t] = task[t] /\ task[t] \in TaskRow
      BY <1>1, <1>4, <2>2
    <3>2. task[t].st \in TerminalStates /\ ~(task[t].kind = "EXTRACTION" /\ task[t].result # "NONE")
      BY <2>2, <3>1 DEF Cancellable
    <3> QED
      BY <3>1, <3>2 DEF DraftsSucceeded
  <2>3. CASE t \notin gone /\ task[t].owner # u
    <3>1. task'[t] = task[t] /\ task[t].owner \in Users
      BY <1>4, <1>8, <2>3
    <3>2. erased'[task[t].owner] = erased[task[t].owner]
      BY <1>2, <2>3, <3>1 DEF ApiTypeOK
    <3> QED
      BY <3>1, <3>2 DEF NothingSurvivesDelete
  <2> QED
    BY <2>1, <2>2, <2>3
<1>16. LeaseColumns' /\ OutboxAgrees'
  BY <1>4, PairsOKNext
<1>17. MemTypeOK'
  BY DEF MemTypeOK, memVars
<1> QED
  BY <1>6, <1>7, <1>9, <1>10, <1>11, <1>12, <1>13, <1>14, <1>15, <1>16, <1>17

-----------------------------------------------------------------------------
(* The workers *)

\* Leaving a task, whatever objects are still to be deleted.
LEMMA LeaveKept ==
    ASSUME RowInv, NEW w \in Workers, NEW refs \in SUBSET Refs, Leave(w, refs)
    PROVE  MemTypeOK' /\ MemoryKept
<1>1. MemTypeOK'
  BY WorkerAssumption DEF RowInv, MemTypeOK, Leave, Goto, Labels
<1>2. ~Working(w)'
  BY WorkerAssumption DEF RowInv, MemTypeOK, Leave, Goto, Working
<1>3. \A v \in Workers \ {w} : pc'[v] = pc[v] /\ cur'[v] = cur[v] /\ content'[v] = content[v]
  BY DEF RowInv, MemTypeOK, Leave, Goto
<1> QED
  BY <1>1, <1>2, <1>3 DEF MemoryKept, Working

\* Claiming a published task that has an attempt left preserves RowInv.
LEMMA TakeTaskInv ==
    ASSUME RowInv, NEW w \in Workers, NEW t \in TaskIds, TakeTask(w, t),
           Claimable(t), ~Exhausted(t), event[t].st = "SENT", task[t].kind = WorkerKind[w]
    PROVE  RowInv'
<1> DEFINE row == ClaimedTask(task[t], w)
<1>1. task[t] \in TaskRow /\ event[t] \in EventRow /\ event \in [TaskIds -> EventRow]
  BY DEF RowInv, DbTypeOK
<1>2. w \in Procs /\ w # None /\ task[t].attempts < MaxAttempts /\ task[t].st \in LiveStates
  BY <1>1, StoreAssumption, WorkerAssumption DEF Exhausted, Claimable, TaskRow
<1>3. row \in TaskRow
  BY <1>1, <1>2, ClaimedType
<1>4. /\ row.kind = task[t].kind /\ row.owner = task[t].owner /\ row.rev = task[t].rev
      /\ row.st = "PROCESSING" /\ row.result = task[t].result /\ row.holder = w
  BY <1>1 DEF TaskRow, ClaimedTask
<1> HIDE DEF row
<1>5. PairOK(task[t], event[t]) /\ task[t].result = "NONE"
  BY <1>2, PairsOK DEF RowInv, DraftsSucceeded, LiveStates
<1>6. Evolved(task[t], row) /\ PairOK(row, event[t])
  BY <1>1, <1>2, <1>4, <1>5 DEF Evolved, PairOK, LiveStates
<1>7. /\ task' = [task EXCEPT ![t] = row] /\ event' = [event EXCEPT ![t] = event[t]]
      /\ UNCHANGED <<rev, profile, chunks, apiVars>>
  BY <1>1 DEF TakeTask, row
<1>8. ApiTypeOK' /\ ChunksOfProfile' /\ chunks' \in [Users -> ResumeRow] /\ UNCHANGED erased
  BY <1>7 DEF RowInv, ApiTypeOK, apiVars, ChunksOfProfile, DbTypeOK
<1>9. MemTypeOK'
  BY <1>1 DEF RowInv, MemTypeOK, TakeTask, Goto, Labels, TaskRow
<1>10. MemoryKept
  <2>1. /\ pc'[w] = "claimed" /\ cur'[w] = t
        /\ \A v \in Workers \ {w} : pc'[v] = pc[v] /\ cur'[v] = cur[v] /\ content'[v] = content[v]
    BY DEF RowInv, MemTypeOK, TakeTask, Goto
  <2> QED
    BY <1>2, <2>1 DEF MemoryKept, Working, LiveStates
<1> QED
  BY <1>1, <1>3, <1>6, <1>7, <1>8, <1>9, <1>10, RowStep

\* Steps of a worker that leave the rows alone
LEMMA MemoryStep ==
    ASSUME RowInv, UNCHANGED <<dbVars, erased>>, ApiTypeOK', MemTypeOK', MemoryKept
    PROVE  RowInv'
<1>1. /\ task \in [TaskIds -> TaskRow] /\ event \in [TaskIds -> EventRow]
      /\ task' = task /\ event' = event /\ chunks' = chunks /\ profile' = profile /\ rev' = rev
      /\ chunks \in [Users -> ResumeRow] /\ ChunksOfProfile
  BY DEF RowInv, DbTypeOK, dbVars
<1>2. ChunksOfProfile'
  BY <1>1 DEF ChunksOfProfile
<1>3. \A t \in TaskIds : Evolved(task[t], task'[t]) /\ PairOK(task'[t], event'[t])
  BY <1>1, PairsOK DEF RowInv, Evolved
<1> QED
  BY <1>1, <1>2, <1>3, RowsStep

\* Running the handler, which reads the profile of the task's owner, preserves RowInv.
LEMMA HandleInv ==
    ASSUME RowInv, NEW w \in Workers, HandleExtraction(w) \/ HandleEmbedding(w)
    PROVE  RowInv'
<1>1. UNCHANGED <<dbVars, erased>> /\ ApiTypeOK'
  BY DEF RowInv, HandleExtraction, HandleEmbedding, ApiTypeOK, apiVars
<1>2. /\ cur[w] \in TaskIds /\ task[cur[w]].st # "ABSENT" /\ task[cur[w]].kind = WorkerKind[w]
      /\ task[cur[w]].owner \in Users /\ task[cur[w]].rev \in Nat
  BY StoreAssumption DEF RowInv, Remembers, Working, TasksOwned, HandleExtraction, HandleEmbedding,
     DbTypeOK, TaskRow
<1>3. Approved(cur[w]) => profile[task[cur[w]].owner].content \in Contents
  BY <1>2 DEF RowInv, DbTypeOK, ResumeRow, NoResume, Approved
<1>4. MemTypeOK'
  BY <1>3 DEF RowInv, MemTypeOK, HandleExtraction, HandleEmbedding, Goto, Labels
<1>5. MemoryKept
  <2>1. /\ cur' = cur /\ pc[w] = "claimed"
        /\ \A v \in Workers \ {w} : pc'[v] = pc[v] /\ content'[v] = content[v]
    BY DEF RowInv, MemTypeOK, HandleExtraction, HandleEmbedding, Goto
  <2>2. WorkerKind[w] = "EMBEDDING" /\ pc'[w] = "handled" =>
           Approved(cur[w]) /\ content'[w] = profile[task[cur[w]].owner].content
    BY DEF RowInv, MemTypeOK, HandleExtraction, HandleEmbedding, Goto
  <2> QED
    BY <1>2, <1>3, <2>1, <2>2 DEF MemoryKept, Working
<1> QED
  BY <1>1, <1>4, <1>5, MemoryStep

\* The two ways complete_task ends a task of a working process, and what they keep.
LEMMA CompletedRows ==
    ASSUME RowInv, NEW w \in Workers, NEW t \in TaskIds, Fenced(t, w)
    PROVE  /\ SucceededTask(task[t]) \in TaskRow
           /\ Evolved(task[t], SucceededTask(task[t])) /\ PairOK(SucceededTask(task[t]), event[t])
           /\ DraftTask(task[t]) \in TaskRow
           /\ task[t].kind = "EXTRACTION" =>
                 Evolved(task[t], DraftTask(task[t])) /\ PairOK(DraftTask(task[t]), event[t])
           /\ StaleTask(task[t]) \in TaskRow /\ CancelledEvent(event[t]) \in EventRow
           /\ Evolved(task[t], StaleTask(task[t]))
           /\ PairOK(StaleTask(task[t]), CancelledEvent(event[t]))
<1>1. task[t] \in TaskRow /\ event[t] \in EventRow /\ PairOK(task[t], event[t])
  BY PairsOK DEF RowInv, DbTypeOK
<1>2. /\ SucceededTask(task[t]) \in TaskRow /\ DraftTask(task[t]) \in TaskRow
      /\ StaleTask(task[t]) \in TaskRow
  BY <1>1, TaskRowTypes
<1>3. CancelledEvent(event[t]) \in EventRow
  BY <1>1 DEF EventRow, CancelledEvent, Unleased
<1>4. task[t].st = "PROCESSING" /\ event[t].st = "SENT"
  BY <1>1 DEF Fenced, PairOK
<1>5. \A new \in {SucceededTask(task[t]), DraftTask(task[t]), StaleTask(task[t])} :
         /\ new.kind = task[t].kind /\ new.owner = task[t].owner /\ new.rev = task[t].rev
         /\ new.holder = None /\ new.live = FALSE
  BY <1>1 DEF TaskRow, SucceededTask, DraftTask, StaleTask, Unleased
<1>6. /\ SucceededTask(task[t]).st = "SUCCEEDED" /\ DraftTask(task[t]).st = "SUCCEEDED"
      /\ StaleTask(task[t]).st = "CANCELLED" /\ StaleTask(task[t]).result = "NONE"
      /\ SucceededTask(task[t]).result = task[t].result
  BY <1>1 DEF TaskRow, SucceededTask, DraftTask, StaleTask, Unleased
<1>7. /\ CancelledEvent(event[t]).st = "CANCELLED" /\ CancelledEvent(event[t]).holder = None
      /\ CancelledEvent(event[t]).live = FALSE
  BY <1>1 DEF EventRow, CancelledEvent, Unleased
<1>8. task[t].result = "NONE"
  BY <1>4 DEF RowInv, DraftsSucceeded
<1>9. /\ Evolved(task[t], SucceededTask(task[t])) /\ PairOK(SucceededTask(task[t]), event[t])
      /\ Evolved(task[t], StaleTask(task[t]))
      /\ PairOK(StaleTask(task[t]), CancelledEvent(event[t]))
  BY <1>1, <1>4, <1>5, <1>6, <1>7, <1>8 DEF Evolved, PairOK, LiveStates
<1>10. task[t].kind = "EXTRACTION" =>
          Evolved(task[t], DraftTask(task[t])) /\ PairOK(DraftTask(task[t]), event[t])
  BY <1>1, <1>4, <1>5, <1>6 DEF Evolved, PairOK, LiveStates
<1> QED
  BY <1>2, <1>3, <1>9, <1>10

\* The completing transaction of an extraction, late or not, preserves RowInv.
LEMMA CompleteExtractionInv ==
    ASSUME RowInv, NEW w \in Workers, CompleteExtraction(w)
    PROVE  RowInv'
<1> DEFINE t == cur[w]
<1>1. t \in TaskIds /\ task[t].kind = "EXTRACTION"
  BY DEF RowInv, Remembers, Working, CompleteExtraction
<1>2. /\ task \in [TaskIds -> TaskRow] /\ event \in [TaskIds -> EventRow] /\ event[t] \in EventRow
      /\ UNCHANGED <<rev, profile, chunks, erased>> /\ ApiTypeOK' /\ ChunksOfProfile'
      /\ chunks' \in [Users -> ResumeRow]
  BY <1>1 DEF RowInv, DbTypeOK, CompleteExtraction, ApiTypeOK, apiVars, ChunksOfProfile
<1>3. MemTypeOK' /\ MemoryKept
  <2>1. Leave(w, {input[w]} \ {None}) \/ Leave(w, {})
    BY DEF CompleteExtraction
  <2>2. ({input[w]} \ {None}) \in SUBSET Refs /\ {} \in SUBSET Refs
    BY DEF RowInv, MemTypeOK
  <2> QED
    BY <2>1, <2>2, LeaveKept
<1>4. CASE Fenced(t, w) /\ Current(t)
  <2>1. /\ DraftTask(task[t]) \in TaskRow
        /\ Evolved(task[t], DraftTask(task[t])) /\ PairOK(DraftTask(task[t]), event[t])
    BY <1>1, <1>4, CompletedRows
  <2>2. task' = [task EXCEPT ![t] = DraftTask(task[t])] /\ event' = [event EXCEPT ![t] = event[t]]
    BY <1>2, <1>4 DEF CompleteExtraction
  <2> QED
    BY <1>1, <1>2, <1>3, <2>1, <2>2, RowStep
<1>5. CASE Fenced(t, w) /\ ~Current(t)
  <2>1. /\ StaleTask(task[t]) \in TaskRow /\ CancelledEvent(event[t]) \in EventRow
        /\ Evolved(task[t], StaleTask(task[t]))
        /\ PairOK(StaleTask(task[t]), CancelledEvent(event[t]))
    BY <1>1, <1>5, CompletedRows
  <2>2. /\ task' = [task EXCEPT ![t] = StaleTask(task[t])]
        /\ event' = [event EXCEPT ![t] = CancelledEvent(event[t])]
    BY <1>5 DEF CompleteExtraction, CancelStale
  <2> QED
    BY <1>1, <1>2, <1>3, <2>1, <2>2, RowStep
<1>6. CASE ~Fenced(t, w)
  <2>1. UNCHANGED dbVars
    BY <1>2, <1>6 DEF CompleteExtraction, dbVars
  <2> QED
    BY <1>2, <1>3, <2>1, MemoryStep
<1> QED
  BY <1>4, <1>5, <1>6

\* The completing transaction of an embedding, late or not, preserves RowInv: the chunks
\* it writes are of the profile's content, because the revision is still the task's.
LEMMA CompleteEmbeddingInv ==
    ASSUME RowInv, NEW w \in Workers, CompleteEmbedding(w)
    PROVE  RowInv'
<1> DEFINE t == cur[w]
           u == task[t].owner
           made == IF content[w] \in Chunkless THEN NoResume
                   ELSE [rev |-> task[t].rev, content |-> content[w]]
<1>1. /\ t \in TaskIds /\ task[t].kind = "EMBEDDING" /\ u \in Users
      /\ content[w] \in Contents
      /\ profile[u].rev = task[t].rev => profile[u].content = content[w]
  BY DEF RowInv, Remembers, TasksOwned, Working, CompleteEmbedding
<1>2. /\ task \in [TaskIds -> TaskRow] /\ event \in [TaskIds -> EventRow] /\ event[t] \in EventRow
      /\ chunks \in [Users -> ResumeRow] /\ profile \in [Users -> ResumeRow]
      /\ UNCHANGED <<rev, profile, erased>> /\ ApiTypeOK'
  BY <1>1 DEF RowInv, DbTypeOK, CompleteEmbedding, ApiTypeOK, apiVars
<1>3. MemTypeOK' /\ MemoryKept
  <2>1. Leave(w, {}) /\ {} \in SUBSET Refs
    BY DEF CompleteEmbedding
  <2> QED
    BY <2>1, LeaveKept
<1>4. CASE Fenced(t, w) /\ Current(t)
  <2>1. /\ SucceededTask(task[t]) \in TaskRow
        /\ Evolved(task[t], SucceededTask(task[t])) /\ PairOK(SucceededTask(task[t]), event[t])
    BY <1>1, <1>4, CompletedRows
  <2>2. /\ task' = [task EXCEPT ![t] = SucceededTask(task[t])]
        /\ event' = [event EXCEPT ![t] = event[t]]
        /\ chunks' = [chunks EXCEPT ![u] = made]
    BY <1>2, <1>4 DEF CompleteEmbedding
  <2>3. profile[u] # NoResume /\ profile[u].rev = task[t].rev
    BY <1>1, <1>4 DEF RowInv, LiveEmbedding, ChunksOfProfile, Fenced, Current, LiveStates
  <2>4. profile[u] = [rev |-> task[t].rev, content |-> content[w]]
    BY <1>1, <1>2, <2>3 DEF ResumeRow
  <2>5. (made = NoResume \/ made = profile[u]) /\ NoResume \in ResumeRow /\ profile[u] \in ResumeRow
    BY <1>1, <1>2, <2>4 DEF ResumeRow
  <2> HIDE DEF made
  <2>6. ChunksOfProfile' /\ chunks' \in [Users -> ResumeRow]
    BY <1>2, <2>2, <2>5 DEF RowInv, ChunksOfProfile
  <2> QED
    BY <1>1, <1>2, <1>3, <2>1, <2>2, <2>6, RowStep
<1>5. CASE Fenced(t, w) /\ ~Current(t)
  <2>1. /\ StaleTask(task[t]) \in TaskRow /\ CancelledEvent(event[t]) \in EventRow
        /\ Evolved(task[t], StaleTask(task[t]))
        /\ PairOK(StaleTask(task[t]), CancelledEvent(event[t]))
    BY <1>1, <1>5, CompletedRows
  <2>2. /\ task' = [task EXCEPT ![t] = StaleTask(task[t])]
        /\ event' = [event EXCEPT ![t] = CancelledEvent(event[t])]
        /\ UNCHANGED chunks
    BY <1>5 DEF CompleteEmbedding, CancelStale
  <2>3. ChunksOfProfile' /\ chunks' \in [Users -> ResumeRow]
    BY <1>2, <2>2 DEF RowInv, ChunksOfProfile
  <2> QED
    BY <1>1, <1>2, <1>3, <2>1, <2>2, <2>3, RowStep
<1>6. CASE ~Fenced(t, w)
  <2>1. UNCHANGED dbVars
    BY <1>2, <1>6 DEF CompleteEmbedding, dbVars
  <2> QED
    BY <1>2, <1>3, <2>1, MemoryStep
<1> QED
  BY <1>4, <1>5, <1>6

\* Recording a failure, retryable or final, late or not, preserves RowInv.
LEMMA FailTaskInv ==
    ASSUME RowInv, NEW w \in Workers, FailTask(w)
    PROVE  RowInv'
<1> DEFINE t == cur[w]
           retryable == pc[w] = "retryable"
           failed == FailedTask(task[t], retryable)
           row == IF failed.st = "FAILED" THEN [failed EXCEPT !.ref = None, !.result = "NONE"]
                  ELSE failed
           e == FailedEvent(event[t], task[t], retryable)
<1>1. t \in TaskIds /\ task[t] \in TaskRow /\ event[t] \in EventRow /\ PairOK(task[t], event[t])
  BY PairsOK DEF RowInv, Remembers, Working, FailTask, DbTypeOK
<1>2. /\ task \in [TaskIds -> TaskRow] /\ event \in [TaskIds -> EventRow]
      /\ UNCHANGED <<rev, profile, chunks, erased>> /\ ApiTypeOK' /\ ChunksOfProfile'
      /\ chunks' \in [Users -> ResumeRow]
  BY DEF RowInv, DbTypeOK, FailTask, ApiTypeOK, apiVars, ChunksOfProfile
<1>3. MemTypeOK' /\ MemoryKept
  <2>1. Leave(w, {task[t].ref} \ {None}) \/ Leave(w, {})
    BY DEF FailTask
  <2>2. ({task[t].ref} \ {None}) \in SUBSET Refs /\ {} \in SUBSET Refs
    BY <1>1 DEF TaskRow
  <2> QED
    BY <2>1, <2>2, LeaveKept
<1>4. CASE Fenced(t, w)
  <2>1. failed \in TaskRow /\ e \in EventRow
    BY <1>1, TaskRowTypes DEF EventRow, FailedEvent, CancelledEvent, Unleased
  <2>2. /\ failed.kind = task[t].kind /\ failed.owner = task[t].owner /\ failed.rev = task[t].rev
        /\ failed.holder = None /\ failed.live = FALSE /\ failed.result = task[t].result
        /\ failed.st = IF FailRetries(task[t], retryable) THEN "RETRY_WAIT" ELSE "FAILED"
    BY <1>1 DEF FailedTask, TaskRow, Unleased
  <2>3. /\ e.holder = None /\ e.live = FALSE
        /\ e.st = IF FailRetries(task[t], retryable) THEN "PENDING" ELSE "CANCELLED"
    BY <1>1 DEF FailedEvent, CancelledEvent, EventRow, Unleased
  <2>4. task' = [task EXCEPT ![t] = row] /\ event' = [event EXCEPT ![t] = e]
    BY <1>1, <1>2, <1>4 DEF FailTask
  <2> HIDE DEF failed, e, retryable
  <2>5. /\ row \in TaskRow
        /\ row.kind = task[t].kind /\ row.owner = task[t].owner /\ row.rev = task[t].rev
        /\ row.holder = None /\ row.live = FALSE /\ row.st = failed.st
        /\ row.result = "NONE" \/ row.result = task[t].result
    <3> DEFINE cleared == [failed EXCEPT !.ref = None, !.result = "NONE"]
    <3>1. /\ cleared \in TaskRow
          /\ cleared.kind = failed.kind /\ cleared.owner = failed.owner /\ cleared.rev = failed.rev
          /\ cleared.holder = failed.holder /\ cleared.live = failed.live
          /\ cleared.st = failed.st /\ cleared.result = "NONE"
      BY <2>1 DEF TaskRow
    <3>2. row = cleared \/ row = failed
      OBVIOUS
    <3> HIDE DEF cleared, row
    <3> QED
      BY <2>1, <2>2, <3>1, <3>2
  <2>6. task[t].st = "PROCESSING" /\ task[t].result = "NONE"
    BY <1>1, <1>4 DEF RowInv, DraftsSucceeded, Fenced
  <2> HIDE DEF row
  <2>7. Evolved(task[t], row) /\ PairOK(row, e)
    BY <2>2, <2>3, <2>5, <2>6 DEF Evolved, PairOK, LiveStates
  <2> QED
    BY <1>1, <1>2, <1>3, <2>1, <2>4, <2>5, <2>7, RowStep
<1>5. CASE ~Fenced(t, w)
  <2>1. UNCHANGED dbVars
    BY <1>2, <1>5 DEF FailTask, dbVars
  <2> QED
    BY <1>2, <1>3, <2>1, MemoryStep
<1> QED
  BY <1>4, <1>5

\* Steps of a worker on its memory and the objects alone
LEMMA DeletionInv ==
    ASSUME RowInv, NEW w \in Workers, Unlink(w) \/ SkipSweep(w) \/ Purge(w)
    PROVE  RowInv'
<1>1. UNCHANGED <<dbVars, erased, cur, content>>
  BY DEF Unlink, SkipSweep, Purge, apiVars
<1>2. ApiTypeOK'
  BY DEF RowInv, ApiTypeOK, Unlink, SkipSweep, Purge, apiVars, Deleted
<1>3. MemTypeOK'
  BY WorkerAssumption DEF RowInv, MemTypeOK, Unlink, SkipSweep, Purge, Goto, Labels
<1>4. MemoryKept
  <2>1. ~Working(w)' /\ \A v \in Workers \ {w} : pc'[v] = pc[v]
    BY WorkerAssumption DEF RowInv, MemTypeOK, Unlink, SkipSweep, Purge, Goto, Working
  <2> QED
    BY <1>1, <2>1 DEF MemoryKept, Working
<1> QED
  BY <1>1, <1>2, <1>3, <1>4, MemoryStep

\* A process that dies and starts again
LEMMA ResetInv ==
    ASSUME RowInv, NEW w \in Workers, Reset(w), UNCHANGED <<dbVars, apiVars>>
    PROVE  RowInv'
<1>1. ApiTypeOK' /\ UNCHANGED <<dbVars, erased>>
  BY DEF RowInv, ApiTypeOK, apiVars
<1>2. MemTypeOK'
  BY DEF RowInv, MemTypeOK, Reset, Goto, Labels
<1>3. MemoryKept
  <2>1. /\ ~Working(w)'
        /\ \A v \in Workers \ {w} : pc'[v] = pc[v] /\ cur'[v] = cur[v] /\ content'[v] = content[v]
    BY DEF RowInv, MemTypeOK, Reset, Goto, Working
  <2> QED
    BY <2>1 DEF MemoryKept, Working
<1> QED
  BY <1>1, <1>2, <1>3, MemoryStep

\* The transaction of cleanup preserves RowInv.
LEMMA SweepInv ==
    ASSUME RowInv, NEW w \in Workers, Sweep(w)
    PROVE  RowInv'
<1>1. /\ task \in [TaskIds -> TaskRow] /\ event \in [TaskIds -> EventRow]
      /\ UNCHANGED <<rev, profile, chunks, erased>> /\ ApiTypeOK' /\ ChunksOfProfile'
      /\ chunks' \in [Users -> ResumeRow]
  BY DEF RowInv, DbTypeOK, Sweep, ApiTypeOK, apiVars, ChunksOfProfile
<1>2. /\ task' = [t \in TaskIds |-> SweptTask(t)]
      /\ event' = [t \in TaskIds |-> IF t \in StaleInputs THEN CancelledEvent(event[t]) ELSE event[t]]
  BY DEF Sweep
<1>3. ASSUME NEW t \in TaskIds
      PROVE  /\ task'[t] \in TaskRow /\ event'[t] \in EventRow
             /\ Evolved(task[t], task'[t]) /\ PairOK(task'[t], event'[t])
  <2>1. task[t] \in TaskRow /\ event[t] \in EventRow /\ PairOK(task[t], event[t])
    BY <1>1, PairsOK DEF RowInv
  <2>2. CASE t \in StaleInputs
    <3> DEFINE row == [Unleased(task[t]) EXCEPT !.st = "FAILED", !.ref = None, !.result = "NONE"]
               e == CancelledEvent(event[t])
    <3>1. task'[t] = row /\ event'[t] = e /\ task[t].st \in LiveStates
      BY <1>2, <2>2 DEF SweptTask, StaleInputs
    <3>2. row \in TaskRow
      BY <2>1, UnleasedType DEF TaskRow, TerminalStates
    <3>3. e \in EventRow /\ e.st = "CANCELLED" /\ e.holder = None /\ e.live = FALSE
      BY <2>1 DEF EventRow, CancelledEvent, Unleased
    <3>4. /\ row.kind = task[t].kind /\ row.owner = task[t].owner /\ row.rev = task[t].rev
          /\ row.holder = None /\ row.live = FALSE /\ row.st = "FAILED" /\ row.result = "NONE"
      BY <2>1 DEF TaskRow, Unleased
    <3> HIDE DEF row, e
    <3> QED
      BY <3>1, <3>2, <3>3, <3>4 DEF Evolved, PairOK, LiveStates
  <2>3. CASE t \notin StaleInputs /\ task[t].result = "STALE"
    <3> DEFINE row == [task[t] EXCEPT !.result = "NONE"]
    <3>1. task'[t] = row /\ event'[t] = event[t]
      BY <1>2, <2>3 DEF SweptTask
    <3>2. row \in TaskRow /\ Evolved(task[t], row) /\ PairOK(row, event[t])
      BY <2>1 DEF TaskRow, Evolved, PairOK
    <3> QED
      BY <2>1, <3>1, <3>2
  <2>4. CASE t \notin StaleInputs /\ task[t].result # "STALE"
    <3>1. task'[t] = task[t] /\ event'[t] = event[t]
      BY <1>2, <2>4 DEF SweptTask
    <3> QED
      BY <2>1, <3>1 DEF Evolved
  <2> QED
    BY <2>2, <2>3, <2>4
<1>4. task' \in [TaskIds -> TaskRow] /\ event' \in [TaskIds -> EventRow]
  BY <1>2, <1>3
<1>5. MemTypeOK'
  <2>1. (({task[t].ref : t \in StaleInputs} \ {None}) \cup Orphans) \subseteq Refs
    BY <1>1 DEF StaleInputs, Orphans, TaskRow
  <2> QED
    BY <2>1 DEF RowInv, MemTypeOK, Sweep, Goto, Labels
<1>6. MemoryKept
  <2>1. /\ ~Working(w)' /\ cur' = cur /\ content' = content
        /\ \A v \in Workers \ {w} : pc'[v] = pc[v]
    BY DEF RowInv, MemTypeOK, Sweep, Goto, Working
  <2> QED
    BY <2>1 DEF MemoryKept, Working
<1> QED
  BY <1>1, <1>3, <1>4, <1>5, <1>6, RowsStep

\* A step that changes nothing but the events of live tasks and where the workers are
LEMMA EventStep ==
    ASSUME RowInv, UNCHANGED <<rev, profile, chunks, task, apiVars>>, MemTypeOK', MemoryKept,
           event' \in [TaskIds -> EventRow],
           \A t \in TaskIds : PairOK(task[t], event'[t])
    PROVE  RowInv'
<1>1. ApiTypeOK' /\ ChunksOfProfile' /\ chunks' \in [Users -> ResumeRow] /\ UNCHANGED erased
  BY DEF RowInv, ApiTypeOK, apiVars, ChunksOfProfile, DbTypeOK
<1>2. \A t \in TaskIds : Evolved(task[t], task'[t])
  BY DEF Evolved
<1>3. task' \in [TaskIds -> TaskRow]
  BY DEF RowInv, DbTypeOK
<1> QED
  BY <1>1, <1>2, <1>3, RowsStep

\* A worker that goes to another label and is not working there has nothing to remember.
LEMMA GotoKept ==
    ASSUME RowInv, NEW w \in Workers, NEW l \in Labels, Goto(w, l),
           UNCHANGED <<cur, input, content, owed>>,
           l \notin {"claimed", "handled", "retryable", "final"}
    PROVE  MemTypeOK' /\ MemoryKept
<1>1. MemTypeOK'
  BY DEF RowInv, MemTypeOK, Goto
<1>2. ~Working(w)' /\ \A v \in Workers \ {w} : pc'[v] = pc[v]
  BY DEF RowInv, MemTypeOK, Goto, Working
<1> QED
  BY <1>1, <1>2 DEF MemoryKept, Working

-----------------------------------------------------------------------------
(* Requests and workers together *)

\* Every request of a student preserves RowInv.
LEMMA RequestInv ==
    ASSUME RowInv, Request, UNCHANGED memVars
    PROVE  RowInv'
<1>1. CASE \/ \E u \in Users, r \in Refs : StoreUpload(u, r)
           \/ \E r \in Refs : DeleteDoomed(r)
           \/ \E u \in Users : DeleteLeftovers(u)
  BY <1>1, ObjectInv
<1>2. ASSUME NEW u \in Users, NEW r \in Refs, EnqueueUpload(u, r) PROVE RowInv'
  BY <1>2, EnqueueUploadInv
<1>3. ASSUME NEW t \in TaskIds, DiscardTask(t) PROVE RowInv'
  BY <1>3, DiscardInv
<1>4. ASSUME NEW u \in Users, NEW x \in TaskIds \cup {0}, SaveUnchanged(u, x) PROVE RowInv'
  BY <1>4, SaveUnchangedInv
<1>5. ASSUME NEW u \in Users, NEW x \in TaskIds \cup {0}, NEW c \in Contents, SaveChanged(u, c, x)
      PROVE  RowInv'
  BY <1>5, SaveChangedInv
<1>6. ASSUME NEW u \in Users, DeleteResume(u) PROVE RowInv'
  BY <1>6, DeleteResumeInv
<1> QED
  BY <1>1, <1>2, <1>3, <1>4, <1>5, <1>6 DEF Request

\* What a worker does with a claimed task, and its cleanup
Work(w) ==
    \/ HandleExtraction(w) \/ HandleEmbedding(w)
    \/ CompleteExtraction(w) \/ CompleteEmbedding(w) \/ FailTask(w)
    \/ Unlink(w) \/ Sweep(w) \/ SkipSweep(w) \/ Purge(w)

\* It preserves RowInv.
LEMMA WorkInv ==
    ASSUME RowInv, NEW w \in Workers, Work(w)
    PROVE  RowInv'
  BY HandleInv, CompleteExtractionInv, CompleteEmbeddingInv, FailTaskInv, SweepInv, DeletionInv DEF Work

-----------------------------------------------------------------------------
(* Ends *)

\* A step that leaves the ended tasks alone, or changes one row in an admitted way.
LEMMA OneRowEnds ==
    ASSUME RowInv, NEW t \in TaskIds, NEW row, task' = [task EXCEPT ![t] = row],
           \/ task[t].st \notin TerminalStates
           \/ row.st = task[t].st
           \/ task[t].kind = "EXTRACTION" /\ row.st = "CANCELLED"
    PROVE  EndsForGood
<1>1. task'[t] = row /\ \A s \in TaskIds \ {t} : task'[s] = task[s]
  BY DEF RowInv, DbTypeOK
<1> QED
  BY <1>1 DEF EndsForGood

\* Every row a worker's transaction changes is one it holds, and so has not ended.
LEMMA WorkerEnds ==
    ASSUME RowInv, NEW w \in Workers,
           \/ CompleteExtraction(w) \/ CompleteEmbedding(w) \/ FailTask(w)
    PROVE  EndsForGood
<1> DEFINE t == cur[w]
<1>1. t \in TaskIds
  BY DEF RowInv, Remembers, Working, CompleteExtraction, CompleteEmbedding, FailTask
<1>2. CASE ~Fenced(t, w)
  BY <1>2 DEF CompleteExtraction, CompleteEmbedding, FailTask, EndsForGood
<1>3. CASE Fenced(t, w)
  <2>1. task[t].st \notin TerminalStates
    BY <1>3 DEF Fenced, TerminalStates
  <2>2. \E row : task' = [task EXCEPT ![t] = row]
    BY <1>3 DEF CompleteExtraction, CompleteEmbedding, FailTask, CancelStale
  <2> QED
    BY <1>1, <2>1, <2>2, OneRowEnds
<1> QED
  BY <1>2, <1>3

\* cleanup ends unfinished tasks only, and of an ended one it drops no more than the draft.
LEMMA SweepEnds ==
    ASSUME RowInv, NEW w \in Workers, Sweep(w)
    PROVE  EndsForGood
<1> SUFFICES ASSUME NEW t \in TaskIds, task[t].st \in TerminalStates
             PROVE  task'[t].st = task[t].st
  BY DEF EndsForGood
<1>1. t \notin StaleInputs
  BY DEF StaleInputs, LiveStates, TerminalStates
<1>2. task[t] \in TaskRow /\ task'[t] = SweptTask(t)
  BY DEF RowInv, DbTypeOK, Sweep
<1>3. [task[t] EXCEPT !.result = "NONE"].st = task[t].st
  BY <1>2 DEF TaskRow
<1> QED
  BY <1>1, <1>2, <1>3 DEF SweptTask

\* delete_resume cancels unfinished tasks and extractions whose draft is kept.
LEMMA DeleteEnds ==
    ASSUME RowInv, NEW u \in Users, DeleteResume(u)
    PROVE  EndsForGood
<1> SUFFICES ASSUME NEW t \in TaskIds, task[t].st \in TerminalStates
             PROVE  \/ task'[t].st = task[t].st
                    \/ task[t].kind = "EXTRACTION" /\ task'[t].st = "CANCELLED"
  BY DEF EndsForGood
<1>1. task[t] \in TaskRow
  BY DEF RowInv, DbTypeOK
<1>2. task'[t] = IF t \in Cancellable(u) THEN OwnerCancelledTask(task[t]) ELSE task[t]
  BY DEF DeleteResume
<1>3. OwnerCancelledTask(task[t]).st = "CANCELLED"
  BY <1>1 DEF OwnerCancelledTask, Unleased, TaskRow
<1> QED
  BY <1>2, <1>3 DEF Cancellable

\* The clock changes no state of a task.
LEMMA ClockEnds ==
    ASSUME RowInv, NEW t \in TaskIds,
           \/ LeaseExpires(t) \/ EventLeaseExpires(t) \/ BecomesDue(t) \/ TaskAges(t)
           \/ ResultExpires(t)
    PROVE  EndsForGood
<1>1. task \in [TaskIds -> TaskRow] /\ task[t] \in TaskRow
  BY DEF RowInv, DbTypeOK
<1>2. /\ [task[t] EXCEPT !.live = FALSE].st = task[t].st
      /\ [task[t] EXCEPT !.due = TRUE].st = task[t].st
      /\ [task[t] EXCEPT !.aged = TRUE].st = task[t].st
      /\ [task[t] EXCEPT !.result = "STALE"].st = task[t].st
  BY <1>1 DEF TaskRow
<1>3. \/ UNCHANGED task
      \/ task' = [task EXCEPT ![t] = [task[t] EXCEPT !.live = FALSE]]
      \/ task' = [task EXCEPT ![t] = [task[t] EXCEPT !.due = TRUE]]
      \/ task' = [task EXCEPT ![t] = [task[t] EXCEPT !.aged = TRUE]]
      \/ task' = [task EXCEPT ![t] = [task[t] EXCEPT !.result = "STALE"]]
  BY <1>1, Zenon DEF LeaseExpires, EventLeaseExpires, BecomesDue, TaskAges, ResultExpires
<1>4. UNCHANGED task => EndsForGood
  BY DEF EndsForGood
<1>5. ASSUME NEW row, task' = [task EXCEPT ![t] = row], row.st = task[t].st
      PROVE  EndsForGood
  BY <1>5, OneRowEnds
<1> QED
  BY <1>2, <1>3, <1>4, <1>5

\* Claiming or ending an unfinished task is no change of an ended one.
LEMMA UnfinishedEnds ==
    ASSUME RowInv, NEW t \in TaskIds, NEW row, task' = [task EXCEPT ![t] = row], Claimable(t)
    PROVE  EndsForGood
<1>1. task[t].st \notin TerminalStates
  BY DEF Claimable, LiveStates, TerminalStates
<1> QED
  BY <1>1, OneRowEnds

\* No request revives an ended task.
LEMMA RequestEnds ==
    ASSUME RowInv, Request
    PROVE  EndsForGood
<1>1. ASSUME NEW u, NEW k, NEW r, NEW ref, EnqueueTask(u, k, r, ref) PROVE EndsForGood
  <2>1. PICK t \in TaskIds : /\ task[t].st = "ABSENT"
                            /\ task' = [task EXCEPT ![t] = NewTask(u, k, r, ref)]
    BY <1>1 DEF EnqueueTask, NextId
  <2> QED
    BY <2>1, OneRowEnds DEF TerminalStates
<1>2. ASSUME NEW t \in TaskIds, DiscardTask(t) PROVE EndsForGood
  <2>1. task[t] \in TaskRow
    BY DEF RowInv, DbTypeOK
  <2>2. OwnerCancelledTask(task[t]).st = "CANCELLED"
    BY <2>1 DEF OwnerCancelledTask, Unleased, TaskRow
  <2>3. task[t].kind = "EXTRACTION" /\ task' = [task EXCEPT ![t] = OwnerCancelledTask(task[t])]
    BY <1>2 DEF DiscardTask
  <2> QED
    BY <2>2, <2>3, OneRowEnds
<1>3. \/ UNCHANGED task
      \/ \E u, k, r, ref : EnqueueTask(u, k, r, ref)
      \/ \E t \in TaskIds : DiscardTask(t)
      \/ \E u \in Users : DeleteResume(u)
  BY DEF Request, StoreUpload, EnqueueUpload, SaveUnchanged, SaveChanged, DeleteDoomed,
     DeleteLeftovers, dbVars
<1>4. UNCHANGED task => EndsForGood
  BY DEF EndsForGood
<1> QED
  BY <1>1, <1>2, <1>3, <1>4, DeleteEnds

\* Nor does a worker.
LEMMA WorkEnds ==
    ASSUME RowInv, NEW w \in Workers, Work(w)
    PROVE  EndsForGood
<1>1. \/ UNCHANGED task
      \/ CompleteExtraction(w) \/ CompleteEmbedding(w) \/ FailTask(w)
      \/ Sweep(w)
  BY DEF Work, HandleExtraction, HandleEmbedding, Unlink, SkipSweep, Purge, dbVars
<1>2. UNCHANGED task => EndsForGood
  BY DEF EndsForGood
<1> QED
  BY <1>1, <1>2, WorkerEnds, SweepEnds

-----------------------------------------------------------------------------
(* Inputs.  A step disturbs InputInv only through what it does to the tasks' references, *)
(* to the objects, to the deletions that are owed and to the inputs workers remember.    *)

\* Task t keeps its input and is revived by nothing, or has none and needs none.
KeepsInput(t) ==
    \/ /\ task'[t].ref = task[t].ref /\ task'[t].kind = task[t].kind
       /\ task'[t].st \in LiveStates => task[t].st \in LiveStates
    \/ /\ task'[t].ref = None
       /\ ~(task'[t].st \in LiveStates /\ task'[t].kind = "EXTRACTION")

\* Object r stays, gets old, or is one that may be deleted and is.
KeepsObject(r) ==
    \/ obj'[r] = obj[r]
    \/ obj[r] = "stored" /\ uploader[r] = None /\ obj'[r] = "old"
    \/ obj'[r] = "gone" /\ Deletable(r)'

\* Worker w keeps its task and input, has none, or takes a task with its input.
KeepsMemory(w) ==
    Working(w)' =>
        \/ Working(w) /\ cur'[w] = cur[w] /\ input'[w] = input[w]
        \/ cur'[w] \in TaskIds /\ input'[w] = task[cur'[w]].ref

\* A step that neither opens nor commits an upload preserves InputInv.
LEMMA InputStep ==
    ASSUME RowInv, RowInv', InputInv,
           \A t \in TaskIds : KeepsInput(t),
           \A r \in Refs : KeepsObject(r) /\ uploader'[r] \in {uploader[r], None},
           \A r \in Refs : DeletionOwed(r)' => DeletionOwed(r) \/ Deletable(r)',
           \A w \in Workers : KeepsMemory(w)
    PROVE  InputInv'
<1> USE DEF InputInv
<1>1. /\ None \notin Refs
      /\ \A t \in TaskIds : task[t].ref \in Refs \cup {None} /\ task'[t].ref \in Refs \cup {None}
      /\ \A w \in Workers : input[w] \in Refs \cup {None} /\ input'[w] \in Refs \cup {None}
  BY StoreAssumption DEF RowInv, DbTypeOK, MemTypeOK, TaskRow
<1>2. \A r \in Refs : obj[r] # "new" => obj'[r] # "new"
  BY DEF KeepsObject
<1>3. ASSUME NEW r \in Refs, uploader[r] = None PROVE uploader'[r] = None
  BY <1>3
<1>4. ASSUME NEW t \in TaskIds, task'[t].ref # None
      PROVE  /\ task'[t].ref = task[t].ref /\ task'[t].kind = task[t].kind
             /\ task'[t].st \in LiveStates => task[t].st \in LiveStates
  BY <1>4 DEF KeepsInput
<1>5. DeletionsAllowed'
  <2> SUFFICES ASSUME NEW r \in Refs, DeletionOwed(r)'
               PROVE  Deletable(r)'
    BY DEF DeletionsAllowed
  <2>1. CASE Deletable(r)'
    BY <2>1
  <2>2. CASE DeletionOwed(r)
    <3>1. Deletable(r)
      BY <2>2 DEF DeletionsAllowed
    <3>2. obj'[r] # "new" /\ uploader'[r] = None
      BY <1>2, <1>3, <3>1 DEF Deletable
    <3>3. \A t \in TaskIds : task'[t].ref = r => task'[t].st \notin LiveStates
      BY <1>1, <1>4, <3>1 DEF Deletable
    <3> QED
      BY <3>2, <3>3 DEF Deletable
  <2> QED
    BY <2>1, <2>2
<1>6. UploadsStored'
  <2> SUFFICES ASSUME NEW r \in Refs, uploader'[r] # None
               PROVE  obj'[r] = "stored"
    BY DEF UploadsStored
  <2>1. uploader[r] # None /\ obj[r] = "stored"
    BY <1>3 DEF UploadsStored
  <2> QED
    BY <2>1 DEF KeepsObject, Deletable
<1>7. InputsUnshared'
  <2> SUFFICES ASSUME NEW t \in TaskIds, task'[t].ref # None
               PROVE  /\ obj'[task'[t].ref] # "new" /\ uploader'[task'[t].ref] = None
                      /\ \A s \in TaskIds : task'[s].ref = task'[t].ref => s = t
    BY DEF InputsUnshared
  <2>1. /\ task'[t].ref = task[t].ref /\ task[t].ref \in Refs
        /\ obj[task[t].ref] # "new" /\ uploader[task[t].ref] = None
        /\ \A s \in TaskIds : task[s].ref = task[t].ref => s = t
    BY <1>1, <1>4 DEF InputsUnshared
  <2>2. obj'[task[t].ref] # "new" /\ uploader'[task[t].ref] = None
    BY <1>2, <1>3, <2>1
  <2>3. ASSUME NEW s \in TaskIds, task'[s].ref = task'[t].ref PROVE s = t
    BY <1>4, <2>1, <2>3
  <2> QED
    BY <2>1, <2>2, <2>3
<1>8. InputPresent'
  <2> SUFFICES ASSUME NEW t \in TaskIds, task'[t].st \in LiveStates, task'[t].kind = "EXTRACTION"
               PROVE  task'[t].ref \in Refs /\ obj'[task'[t].ref] \in {"stored", "old"}
    BY DEF InputPresent, Stored
  <2>1. /\ task'[t].ref = task[t].ref /\ task[t].kind = "EXTRACTION" /\ task[t].st \in LiveStates
    BY DEF KeepsInput
  <2>2. task[t].ref \in Refs /\ obj[task[t].ref] \in {"stored", "old"}
    BY <2>1 DEF InputPresent, Stored
  <2> QED
    BY <2>1, <2>2 DEF KeepsObject, Deletable
<1>9. InputRemembered'
  <2> SUFFICES ASSUME NEW w \in Workers, Working(w)', input'[w] # None
               PROVE  /\ obj'[input'[w]] # "new" /\ uploader'[input'[w]] = None
                      /\ \A t \in TaskIds : task'[t].ref = input'[w] => t = cur'[w]
    BY DEF InputRemembered
  <2>1. input'[w] \in Refs
    BY <1>1
  <2>2. /\ obj[input'[w]] # "new" /\ uploader[input'[w]] = None
        /\ \A t \in TaskIds : task[t].ref = input'[w] => t = cur'[w]
    <3>1. CASE Working(w) /\ cur'[w] = cur[w] /\ input'[w] = input[w]
      BY <3>1 DEF InputRemembered
    <3>2. CASE cur'[w] \in TaskIds /\ input'[w] = task[cur'[w]].ref
      BY <3>2 DEF InputsUnshared
    <3> QED
      BY <3>1, <3>2 DEF KeepsMemory
  <2> QED
    BY <1>2, <1>3, <1>4, <2>1, <2>2
<1> QED
  BY <1>5, <1>6, <1>7, <1>8, <1>9

\* A step that leaves tasks, objects and memories alone preserves InputInv.
LEMMA InputStutter ==
    ASSUME RowInv, RowInv', InputInv, UNCHANGED <<task, obj, uploader, doomed, owed>>,
           \A w \in Workers : KeepsMemory(w)
    PROVE  InputInv'
<1>1. \A t \in TaskIds : KeepsInput(t)
  BY DEF KeepsInput
<1>2. \A r \in Refs : KeepsObject(r) /\ uploader'[r] \in {uploader[r], None}
  BY DEF KeepsObject
<1>3. \A r \in Refs : DeletionOwed(r)' => DeletionOwed(r)
  BY DEF DeletionOwed
<1> QED
  BY <1>1, <1>2, <1>3, InputStep

\* Nothing is stored at first.
LEMMA InputInvAtFirst ==
    ASSUME DbInit, ApiInit, MemInit
    PROVE  InputInv
<1>1. InputPresent /\ InputsUnshared
  BY DEF DbInit, NoTask, InputPresent, InputsUnshared, LiveStates
<1>2. DeletionsAllowed /\ UploadsStored /\ InputRemembered
  BY DEF ApiInit, MemInit, DeletionsAllowed, DeletionOwed, UploadsStored, InputRemembered, Working
<1> QED
  BY <1>1, <1>2 DEF InputInv

\* A worker that is left alone keeps its task and input.
LEMMA MemoryUnchanged ==
    ASSUME UNCHANGED memVars
    PROVE  /\ \A w \in Workers : KeepsMemory(w)
           /\ \A r \in Refs : DeletionOwed(r)' <=> r \in doomed' \/ \E w \in Workers : r \in owed[w]
  BY DEF memVars, KeepsMemory, Working, DeletionOwed

\* An object is stored under a name that was never used.
LEMMA StoreUploadInputs ==
    ASSUME RowInv, RowInv', InputInv, UNCHANGED memVars,
           NEW u \in Users, NEW r \in Refs, StoreUpload(u, r)
    PROVE  InputInv'
<1> USE DEF InputInv
<1>1. /\ obj[r] = "new" /\ obj \in [Refs -> {"new", "stored", "old", "gone"}]
      /\ uploader \in [Refs -> Users \cup {None}]
      /\ obj' = [obj EXCEPT ![r] = "stored"] /\ uploader' = [uploader EXCEPT ![r] = u]
      /\ UNCHANGED <<task, doomed, pc, cur, input, owed>>
  BY DEF RowInv, ApiTypeOK, StoreUpload, dbVars, memVars
<1>2. /\ \A t \in TaskIds : task[t].ref # r
      /\ ~DeletionOwed(r)
      /\ \A w \in Workers : Working(w) => input[w] # r
  <2>1. r # None
    BY StoreAssumption
  <2> QED
    BY <1>1, <2>1 DEF InputsUnshared, DeletionsAllowed, Deletable, InputRemembered
<1>3. /\ obj'[r] = "stored" /\ \A q \in Refs \ {r} : obj'[q] = obj[q] /\ uploader'[q] = uploader[q]
      /\ \A t \in TaskIds : task[t].ref \in Refs \cup {None}
      /\ \A w \in Workers : input[w] \in Refs \cup {None}
  BY <1>1 DEF RowInv, DbTypeOK, MemTypeOK, TaskRow
<1>4. InputPresent' /\ InputsUnshared' /\ UploadsStored'
  BY <1>1, <1>2, <1>3 DEF InputPresent, InputsUnshared, UploadsStored, Stored
<1>5. DeletionsAllowed'
  <2>1. \A q \in Refs : DeletionOwed(q)' => DeletionOwed(q) /\ q # r
    BY <1>1, <1>2 DEF DeletionOwed
  <2>2. ASSUME NEW q \in Refs, q # r, Deletable(q) PROVE Deletable(q)'
    BY <1>1, <1>3, <2>2 DEF Deletable
  <2> QED
    BY <2>1, <2>2 DEF DeletionsAllowed
<1>6. InputRemembered'
  <2> SUFFICES ASSUME NEW w \in Workers, Working(w), input[w] # None
               PROVE  /\ obj'[input[w]] # "new" /\ uploader'[input[w]] = None
                      /\ \A t \in TaskIds : task[t].ref = input[w] => t = cur[w]
    BY <1>1 DEF InputRemembered, Working
  <2> QED
    BY <1>2, <1>3 DEF InputRemembered
<1> QED
  BY <1>4, <1>5, <1>6

\* A new task gets the object its own request stored, which nobody else has or may delete.
LEMMA EnqueueUploadInputs ==
    ASSUME RowInv, RowInv', InputInv, UNCHANGED memVars,
           NEW u \in Users, NEW r \in Refs, EnqueueUpload(u, r)
    PROVE  InputInv'
<1> USE DEF InputInv
<1>1. /\ uploader[r] = u /\ u # None /\ uploader \in [Refs -> Users \cup {None}]
      /\ uploader' = [uploader EXCEPT ![r] = None] /\ r # None
      /\ UNCHANGED <<obj, doomed, pc, cur, input, owed>>
  BY StoreAssumption DEF RowInv, ApiTypeOK, EnqueueUpload, memVars
<1>2. PICK t \in TaskIds : task' = [task EXCEPT ![t] = NewTask(u, "EXTRACTION", rev[u], r)]
  BY DEF EnqueueUpload, EnqueueTask
<1>3. /\ task'[t].ref = r /\ \A s \in TaskIds \ {t} : task'[s] = task[s]
      /\ \A q \in Refs \ {r} : uploader'[q] = uploader[q]
      /\ uploader'[r] = None
      /\ \A s \in TaskIds : task[s].ref \in Refs \cup {None}
      /\ \A w \in Workers : input[w] \in Refs \cup {None}
  BY <1>1, <1>2 DEF RowInv, DbTypeOK, MemTypeOK, TaskRow, NewTask, NoTask
<1>4. /\ obj[r] = "stored" /\ ~DeletionOwed(r)
      /\ \A s \in TaskIds : task[s].ref # r
      /\ \A w \in Workers : Working(w) => input[w] # r
  BY <1>1 DEF UploadsStored, DeletionsAllowed, Deletable, InputsUnshared, InputRemembered
<1>5. InputPresent'
  BY <1>1, <1>3, <1>4 DEF InputPresent, Stored
<1>6. InputsUnshared' /\ UploadsStored'
  BY <1>1, <1>3, <1>4 DEF InputsUnshared, UploadsStored
<1>7. DeletionsAllowed'
  <2>1. \A q \in Refs : DeletionOwed(q)' => DeletionOwed(q) /\ q # r
    BY <1>1, <1>4 DEF DeletionOwed
  <2>2. ASSUME NEW q \in Refs, q # r, Deletable(q) PROVE Deletable(q)'
    BY <1>1, <1>3, <2>2 DEF Deletable
  <2> QED
    BY <2>1, <2>2 DEF DeletionsAllowed
<1>8. InputRemembered'
  <2> SUFFICES ASSUME NEW w \in Workers, Working(w), input[w] # None
               PROVE  /\ obj[input[w]] # "new" /\ uploader'[input[w]] = None
                      /\ \A s \in TaskIds : task'[s].ref = input[w] => s = cur[w]
    BY <1>1 DEF InputRemembered, Working
  <2> QED
    BY <1>3, <1>4 DEF InputRemembered
<1> QED
  BY <1>5, <1>6, <1>7, <1>8

\* Ending an upload, deleting what is doomed and getting old are what objects may do.
LEMMA ObjectInputs ==
    ASSUME RowInv, RowInv', InputInv, UNCHANGED memVars,
           (\E r \in Refs : UploadFails(r) \/ DeleteDoomed(r) \/ ObjectAges(r)) \/ ApiDies
    PROVE  InputInv'
<1>1. /\ UNCHANGED task /\ doomed' \subseteq doomed
      /\ obj \in [Refs -> {"new", "stored", "old", "gone"}]
      /\ uploader \in [Refs -> Users \cup {None}]
  BY DEF RowInv, ApiTypeOK, UploadFails, DeleteDoomed, ObjectAges, ApiDies, dbVars
<1>2. \A t \in TaskIds : KeepsInput(t)
  BY <1>1 DEF KeepsInput
<1>3. \A r \in Refs : DeletionOwed(r)' => DeletionOwed(r)
  BY <1>1, MemoryUnchanged DEF DeletionOwed
<1>4. \A r \in Refs : uploader'[r] \in {uploader[r], None}
  BY <1>1 DEF UploadFails, DeleteDoomed, ObjectAges, ApiDies
<1>5. ASSUME NEW r \in Refs PROVE KeepsObject(r)
  <2>1. CASE obj'[r] = obj[r] \/ (ObjectAges(r) /\ obj'[r] = "old")
    BY <2>1 DEF KeepsObject, ObjectAges
  <2>2. CASE UploadFails(r)
    <3>1. /\ obj'[r] = "gone" /\ uploader'[r] = None
          /\ \A t \in TaskIds : task'[t].ref # r
      BY <1>1, <2>2, StoreAssumption DEF UploadFails, Deleted, InputInv, InputsUnshared
    <3> QED
      BY <3>1 DEF KeepsObject, Deletable
  <2>3. CASE DeleteDoomed(r)
    <3>1. obj'[r] = "gone" /\ uploader' = uploader /\ DeletionOwed(r)
      BY <1>1, <2>3 DEF DeleteDoomed, Deleted, DeletionOwed
    <3> QED
      BY <1>1, <3>1 DEF KeepsObject, Deletable, InputInv, DeletionsAllowed
  <2>4. \/ obj'[r] = obj[r] \/ (ObjectAges(r) /\ obj'[r] = "old")
        \/ UploadFails(r) \/ DeleteDoomed(r)
    BY <1>1 DEF UploadFails, DeleteDoomed, ObjectAges, ApiDies, Deleted
  <2> QED
    BY <2>1, <2>2, <2>3, <2>4
<1> QED
  BY <1>2, <1>3, <1>4, <1>5, InputStep, MemoryUnchanged

\* A step that leaves the objects alone, and owes only deletions that are allowed after it.
LEMMA OwedInputs ==
    ASSUME RowInv, RowInv', InputInv, UNCHANGED <<obj, uploader>>,
           \A t \in TaskIds : KeepsInput(t), \A w \in Workers : KeepsMemory(w),
           \A r \in Refs : DeletionOwed(r)' /\ ~DeletionOwed(r) =>
              /\ obj[r] # "new" /\ uploader[r] = None
              /\ \A t \in TaskIds : task'[t].ref = r => task'[t].st \notin LiveStates
    PROVE  InputInv'
<1>1. \A r \in Refs : KeepsObject(r) /\ uploader'[r] \in {uploader[r], None}
  BY DEF KeepsObject
<1>2. \A r \in Refs : DeletionOwed(r)' => DeletionOwed(r) \/ Deletable(r)'
  BY DEF Deletable
<1> QED
  BY <1>1, <1>2, InputStep

\* The embedding task of a save has no input.
LEMMA SaveInputs ==
    ASSUME RowInv, RowInv', InputInv, UNCHANGED <<memVars, apiVars>>,
           NEW u \in Users, NEW r, EnqueueTask(u, "EMBEDDING", r, None)
    PROVE  InputInv'
<1>1. PICK t \in TaskIds : task' = [task EXCEPT ![t] = NewTask(u, "EMBEDDING", r, None)]
  BY DEF EnqueueTask
<1>2. /\ task'[t].ref = None /\ task'[t].kind = "EMBEDDING"
      /\ \A s \in TaskIds \ {t} : task'[s] = task[s]
  BY <1>1 DEF RowInv, DbTypeOK, NewTask, NoTask
<1>3. \A s \in TaskIds : KeepsInput(s)
  BY <1>2 DEF KeepsInput
<1>4. \A r0 \in Refs : DeletionOwed(r0)' => DeletionOwed(r0)
  BY MemoryUnchanged DEF apiVars, DeletionOwed
<1> QED
  BY <1>3, <1>4, OwedInputs, MemoryUnchanged DEF apiVars

\* A cancelled task has no input.
LEMMA CancelledInput ==
    ASSUME NEW row \in TaskRow
    PROVE  OwnerCancelledTask(row).ref = None /\ OwnerCancelledTask(row).st = "CANCELLED"
  BY DEF OwnerCancelledTask, Unleased, TaskRow

\* A discarded task has lost its input to the handler that deletes it.
LEMMA DiscardInputs ==
    ASSUME RowInv, RowInv', InputInv, UNCHANGED memVars, NEW t \in TaskIds, DiscardTask(t)
    PROVE  InputInv'
<1>1. /\ task' = [task EXCEPT ![t] = OwnerCancelledTask(task[t])]
      /\ doomed' = doomed \cup ({task[t].ref} \ {None})
      /\ UNCHANGED <<obj, uploader>>
  BY DEF DiscardTask
<1>2. /\ task'[t].ref = None /\ task'[t].st = "CANCELLED"
      /\ \A s \in TaskIds \ {t} : task'[s] = task[s]
  BY <1>1, CancelledInput DEF RowInv, DbTypeOK
<1>3. \A s \in TaskIds : KeepsInput(s)
  BY <1>2 DEF KeepsInput, LiveStates
<1>4. ASSUME NEW r \in Refs, DeletionOwed(r)', ~DeletionOwed(r)
      PROVE  /\ obj[r] # "new" /\ uploader[r] = None
             /\ \A s \in TaskIds : task'[s].ref = r => task'[s].st \notin LiveStates
  <2>1. r = task[t].ref /\ r # None
    BY <1>1, <1>4, MemoryUnchanged DEF DeletionOwed
  <2>2. /\ obj[r] # "new" /\ uploader[r] = None /\ \A s \in TaskIds : task[s].ref = r => s = t
    BY <2>1 DEF InputInv, InputsUnshared
  <2> QED
    BY <1>2, <2>1, <2>2
<1> QED
  BY <1>1, <1>3, <1>4, OwedInputs, MemoryUnchanged

\* delete_resume deletes the inputs of the account's extractions, which have all ended by then.
LEMMA DeleteInputs ==
    ASSUME RowInv, RowInv', InputInv, UNCHANGED memVars, NEW u \in Users,
           DeleteResume(u) \/ DeleteLeftovers(u)
    PROVE  InputInv'
<1>1. /\ \A t \in TaskIds : task'[t] = IF t \in Cancellable(u) THEN OwnerCancelledTask(task[t])
                                       ELSE task[t]
      /\ doomed' = doomed \cup TempRefs(u)
      /\ UNCHANGED <<obj, uploader>>
  BY DEF DeleteResume, DeleteLeftovers, dbVars
<1>2. \A t \in TaskIds : task[t] \in TaskRow
  BY DEF RowInv, DbTypeOK
<1>3. \A t \in Cancellable(u) : task'[t].ref = None /\ task'[t].st = "CANCELLED"
  BY <1>1, <1>2, CancelledInput DEF Cancellable
<1>4. \A t \in TaskIds : KeepsInput(t)
  BY <1>1, <1>3 DEF KeepsInput, LiveStates
<1>5. ASSUME NEW r \in Refs, DeletionOwed(r)', ~DeletionOwed(r)
      PROVE  /\ obj[r] # "new" /\ uploader[r] = None
             /\ \A s \in TaskIds : task'[s].ref = r => task'[s].st \notin LiveStates
  <2>1. PICK t \in TaskIds : task[t].owner = u /\ task[t].ref = r /\ r # None
    BY <1>1, <1>5, MemoryUnchanged DEF DeletionOwed, TempRefs
  <2>2. /\ obj[r] # "new" /\ uploader[r] = None /\ \A s \in TaskIds : task[s].ref = r => s = t
    BY <2>1 DEF InputInv, InputsUnshared
  <2>3. t \notin Cancellable(u) => task[t].st \notin LiveStates
    BY <2>1 DEF Cancellable, LiveStates, TerminalStates
  <2> QED
    BY <1>1, <1>3, <2>1, <2>2, <2>3 DEF LiveStates
<1> QED
  BY <1>1, <1>4, <1>5, OwedInputs, MemoryUnchanged

\* Every request preserves InputInv.
LEMMA RequestInputs ==
    ASSUME RowInv, RowInv', InputInv, Request, UNCHANGED memVars
    PROVE  InputInv'
<1>1. ASSUME NEW u \in Users, NEW x, NEW c, SaveUnchanged(u, x) \/ SaveChanged(u, c, x)
      PROVE  InputInv'
  <2>1. UNCHANGED apiVars /\ \E r : EnqueueTask(u, "EMBEDDING", r, None)
    BY <1>1 DEF SaveUnchanged, SaveChanged
  <2> QED
    BY <2>1, SaveInputs
<1> QED
  BY <1>1, StoreUploadInputs, EnqueueUploadInputs, DiscardInputs, DeleteInputs, ObjectInputs DEF Request

\* Time passing changes no reference and revives no task.
LEMMA ClockInputs ==
    ASSUME RowInv, RowInv', InputInv, NEW t \in TaskIds, UNCHANGED <<apiVars, memVars>>,
           \/ LeaseExpires(t) \/ EventLeaseExpires(t) \/ BecomesDue(t) \/ TaskAges(t)
           \/ ResultExpires(t)
    PROVE  InputInv'
<1>1. task \in [TaskIds -> TaskRow]
  BY DEF RowInv, DbTypeOK
<1>2. /\ \A s \in TaskIds \ {t} : task'[s] = task[s]
      /\ task'[t].ref = task[t].ref /\ task'[t].kind = task[t].kind /\ task'[t].st = task[t].st
  BY <1>1 DEF TaskRow, LeaseExpires, EventLeaseExpires, BecomesDue, TaskAges, ResultExpires
<1>3. \A s \in TaskIds : KeepsInput(s)
  BY <1>2 DEF KeepsInput
<1>4. \A r \in Refs : DeletionOwed(r)' => DeletionOwed(r)
  BY MemoryUnchanged DEF apiVars, DeletionOwed
<1> QED
  BY <1>3, <1>4, OwedInputs, MemoryUnchanged DEF apiVars

\* A worker that claims a task remembers its input.
LEMMA TakeTaskInputs ==
    ASSUME RowInv, RowInv', InputInv, NEW w \in Workers, NEW t \in TaskIds, TakeTask(w, t),
           task[t].st \in LiveStates
    PROVE  InputInv'
<1>1. /\ task' = [task EXCEPT ![t] = ClaimedTask(task[t], w)] /\ task \in [TaskIds -> TaskRow]
      /\ cur' = [cur EXCEPT ![w] = t] /\ input' = [input EXCEPT ![w] = task[t].ref]
      /\ Goto(w, "claimed")
      /\ UNCHANGED <<obj, uploader, doomed, owed>>
  BY DEF TakeTask, RowInv, DbTypeOK, apiVars
<1>2. /\ \A s \in TaskIds \ {t} : task'[s] = task[s]
      /\ task'[t].ref = task[t].ref /\ task'[t].kind = task[t].kind
  BY <1>1 DEF TaskRow, ClaimedTask
<1>3. \A s \in TaskIds : KeepsInput(s)
  BY <1>2 DEF KeepsInput
<1>4. \A v \in Workers : KeepsMemory(v)
  <2>1. /\ cur'[w] = t /\ input'[w] = task[t].ref
        /\ \A v \in Workers \ {w} : pc'[v] = pc[v] /\ cur'[v] = cur[v] /\ input'[v] = input[v]
    BY <1>1 DEF RowInv, MemTypeOK, Goto
  <2> QED
    BY <2>1 DEF KeepsMemory, Working
<1>5. \A r \in Refs : DeletionOwed(r)' => DeletionOwed(r)
  BY <1>1 DEF DeletionOwed
<1> QED
  BY <1>1, <1>3, <1>4, <1>5, OwedInputs

\* A worker that goes somewhere with its task and input keeps them.
LEMMA GotoInputs ==
    ASSUME RowInv, NEW w \in Workers, NEW l, Goto(w, l), UNCHANGED <<cur, input>>,
           Working(w) \/ l \notin {"claimed", "handled", "retryable", "final"}
    PROVE  \A v \in Workers : KeepsMemory(v)
<1>1. pc'[w] = l /\ \A v \in Workers \ {w} : pc'[v] = pc[v]
  BY DEF RowInv, MemTypeOK, Goto
<1> QED
  BY <1>1 DEF KeepsMemory, Working

\* Running the handler touches no object.
LEMMA HandleInputs ==
    ASSUME RowInv, RowInv', InputInv, NEW w \in Workers, HandleExtraction(w) \/ HandleEmbedding(w)
    PROVE  InputInv'
<1>1. /\ UNCHANGED <<task, obj, uploader, doomed, cur, input, owed>> /\ Working(w)
      /\ \E l : Goto(w, l)
  BY DEF HandleExtraction, HandleEmbedding, Working, dbVars, apiVars
<1> QED
  BY <1>1, GotoInputs, InputStutter

\* Leaving a task owes the deletion of refs and nothing else, and forgets the input.
LEMMA LeaveInputs ==
    ASSUME RowInv, NEW w \in Workers, NEW refs, Leave(w, refs), UNCHANGED apiVars
    PROVE  /\ \A v \in Workers : KeepsMemory(v)
           /\ \A r \in Refs : DeletionOwed(r)' => DeletionOwed(r) \/ r \in refs
<1>1. ~Working(w)'
  BY WorkerAssumption DEF RowInv, MemTypeOK, Leave, Goto, Working
<1>2. /\ owed'[w] = refs
      /\ \A v \in Workers \ {w} : /\ pc'[v] = pc[v] /\ cur'[v] = cur[v] /\ input'[v] = input[v]
                                  /\ owed'[v] = owed[v]
  BY DEF RowInv, MemTypeOK, Leave, Goto
<1> QED
  BY <1>1, <1>2 DEF KeepsMemory, Working, DeletionOwed, apiVars

\* The worker that completes an extraction deletes its input once the task is over, even
\* if the task was cancelled under it; it never deletes the input of another task.
LEMMA CompleteExtractionInputs ==
    ASSUME RowInv, RowInv', InputInv, NEW w \in Workers, CompleteExtraction(w)
    PROVE  InputInv'
<1> DEFINE t == cur[w]
           pdf == {input[w]} \ {None}
<1>1. /\ t \in TaskIds /\ task \in [TaskIds -> TaskRow] /\ UNCHANGED apiVars
  BY DEF RowInv, DbTypeOK, Remembers, Working, CompleteExtraction
<1>2. PICK refs : refs \subseteq pdf /\ Leave(w, refs) /\
                    \/ \E row : /\ task' = [task EXCEPT ![t] = row] /\ row.st \in {"SUCCEEDED", "CANCELLED"}
                                /\ row.kind = task[t].kind /\ row.ref \in {task[t].ref, None}
                    \/ task' = task /\ (task[t].st = "CANCELLED" \/ refs = {})
  <2>1. CASE Fenced(t, w) /\ Current(t)
    <3>1. DraftTask(task[t]).st = "SUCCEEDED" /\ DraftTask(task[t]).kind = task[t].kind
          /\ DraftTask(task[t]).ref = None
      BY <1>1 DEF DraftTask, SucceededTask, Unleased, TaskRow
    <3>2. task' = [task EXCEPT ![t] = DraftTask(task[t])] /\ Leave(w, pdf)
      BY <2>1 DEF CompleteExtraction
    <3> QED
      BY <3>1, <3>2
  <2>2. CASE Fenced(t, w) /\ ~Current(t)
    <3>1. StaleTask(task[t]).st = "CANCELLED" /\ StaleTask(task[t]).kind = task[t].kind
          /\ StaleTask(task[t]).ref = task[t].ref
      BY <1>1 DEF StaleTask, Unleased, TaskRow
    <3>2. task' = [task EXCEPT ![t] = StaleTask(task[t])] /\ Leave(w, pdf)
      BY <2>2 DEF CompleteExtraction, CancelStale
    <3> QED
      BY <3>1, <3>2
  <2>3. CASE ~Fenced(t, w)
    BY <2>3 DEF CompleteExtraction
  <2> QED
    BY <2>1, <2>2, <2>3
<1>3. /\ \A s \in TaskIds \ {t} : task'[s] = task[s]
      /\ \/ /\ task'[t].st \in {"SUCCEEDED", "CANCELLED"} /\ task'[t].kind = task[t].kind
            /\ task'[t].ref \in {task[t].ref, None}
         \/ task'[t] = task[t] /\ (task[t].st = "CANCELLED" \/ refs = {})
  BY <1>1, <1>2
<1>4. \A s \in TaskIds : KeepsInput(s)
  BY <1>3 DEF KeepsInput, LiveStates
<1>5. ASSUME NEW r \in Refs, DeletionOwed(r)', ~DeletionOwed(r)
      PROVE  /\ obj[r] # "new" /\ uploader[r] = None
             /\ \A s \in TaskIds : task'[s].ref = r => task'[s].st \notin LiveStates
  <2>1. r \in refs /\ r = input[w] /\ r # None /\ Working(w)
    BY <1>2, <1>5, LeaveInputs, <1>1 DEF CompleteExtraction, Working
  <2>2. /\ obj[r] # "new" /\ uploader[r] = None /\ \A s \in TaskIds : task[s].ref = r => s = t
    BY <2>1 DEF InputInv, InputRemembered
  <2>3. \A s \in TaskIds : task'[s].ref = r => s = t
    BY <1>3, <2>1, <2>2
  <2> QED
    BY <1>3, <2>1, <2>2, <2>3 DEF LiveStates
<1> QED
  BY <1>1, <1>2, <1>4, <1>5, OwedInputs, LeaveInputs DEF apiVars

\* A worker that ends the task it holds, and owes the deletion of that task's input at most.
LEMMA EndedInputs ==
    ASSUME RowInv, RowInv', InputInv, NEW w \in Workers, NEW t \in TaskIds, NEW refs, Leave(w, refs),
           UNCHANGED apiVars,
           UNCHANGED task \/ \E row : task' = [task EXCEPT ![t] = row],
           KeepsInput(t),
           refs = {} \/ (refs = {task[t].ref} \ {None} /\ task'[t].ref = None)
    PROVE  InputInv'
<1>1. \A s \in TaskIds \ {t} : task'[s] = task[s]
  BY DEF RowInv, DbTypeOK
<1>2. \A s \in TaskIds : KeepsInput(s)
  BY <1>1 DEF KeepsInput
<1>3. ASSUME NEW r \in Refs, DeletionOwed(r)', ~DeletionOwed(r)
      PROVE  /\ obj[r] # "new" /\ uploader[r] = None
             /\ \A s \in TaskIds : task'[s].ref = r => task'[s].st \notin LiveStates
  <2>1. r = task[t].ref /\ r # None /\ task'[t].ref = None
    BY <1>3, LeaveInputs
  <2>2. /\ obj[r] # "new" /\ uploader[r] = None /\ \A s \in TaskIds : task[s].ref = r => s = t
    BY <2>1 DEF InputInv, InputsUnshared
  <2> QED
    BY <1>1, <2>1, <2>2
<1> QED
  BY <1>2, <1>3, OwedInputs, LeaveInputs DEF apiVars

\* An embedding has no input to delete.
LEMMA CompleteEmbeddingInputs ==
    ASSUME RowInv, RowInv', InputInv, NEW w \in Workers, CompleteEmbedding(w)
    PROVE  InputInv'
<1> DEFINE t == cur[w]
<1>1. /\ t \in TaskIds /\ task[t] \in TaskRow /\ task \in [TaskIds -> TaskRow]
      /\ UNCHANGED apiVars /\ Leave(w, {})
  BY DEF RowInv, DbTypeOK, Remembers, Working, CompleteEmbedding
<1>2. CASE Fenced(t, w)
  <2>1. PICK row \in {SucceededTask(task[t]), StaleTask(task[t])} : task' = [task EXCEPT ![t] = row]
    BY <1>2 DEF CompleteEmbedding, CancelStale
  <2>2. row.ref = task[t].ref /\ row.kind = task[t].kind /\ row.st \in {"SUCCEEDED", "CANCELLED"}
    BY <1>1 DEF SucceededTask, StaleTask, Unleased, TaskRow
  <2>3. KeepsInput(t) /\ task[t].st \in LiveStates
    BY <1>1, <1>2, <2>1, <2>2 DEF KeepsInput, LiveStates, Fenced
  <2> QED
    BY <1>1, <2>1, <2>3, EndedInputs
<1>3. CASE ~Fenced(t, w)
  <2>1. UNCHANGED task
    BY <1>3 DEF CompleteEmbedding
  <2> QED
    BY <1>1, <2>1, EndedInputs DEF KeepsInput
<1> QED
  BY <1>2, <1>3

\* A final failure drops the input, a retry keeps it.
LEMMA FailTaskInputs ==
    ASSUME RowInv, RowInv', InputInv, NEW w \in Workers, FailTask(w)
    PROVE  InputInv'
<1> DEFINE t == cur[w]
           failed == FailedTask(task[t], pc[w] = "retryable")
           cleared == [failed EXCEPT !.ref = None, !.result = "NONE"]
<1>1. /\ t \in TaskIds /\ task[t] \in TaskRow /\ task \in [TaskIds -> TaskRow] /\ UNCHANGED apiVars
  BY DEF RowInv, DbTypeOK, Remembers, Working, FailTask
<1>2. CASE Fenced(t, w)
  <2>1. failed \in TaskRow /\ failed.ref = task[t].ref /\ failed.kind = task[t].kind
    <3>1. (pc[w] = "retryable") \in BOOLEAN
      OBVIOUS
    <3>2. failed \in TaskRow
      BY <1>1, <3>1, TaskRowTypes
    <3> QED
      BY <1>1, <3>2 DEF FailedTask, Unleased, TaskRow
  <2>2. cleared.ref = None /\ cleared.st = failed.st
    BY <2>1 DEF TaskRow
  <2>3. \/ /\ failed.st = "FAILED" /\ task' = [task EXCEPT ![t] = cleared]
           /\ Leave(w, {task[t].ref} \ {None})
        \/ task' = [task EXCEPT ![t] = failed] /\ Leave(w, {})
    BY <1>2 DEF FailTask
  <2>4. task[t].st \in LiveStates
    BY <1>2 DEF Fenced, LiveStates
  <2> HIDE DEF failed, cleared
  <2>5. CASE failed.st = "FAILED" /\ task' = [task EXCEPT ![t] = cleared]
             /\ Leave(w, {task[t].ref} \ {None})
    <3>1. task'[t] = cleared
      BY <1>1, <2>5
    <3>2. KeepsInput(t) /\ task'[t].ref = None
      BY <2>2, <2>5, <3>1 DEF KeepsInput, LiveStates
    <3> QED
      BY <1>1, <2>4, <2>5, <3>2, EndedInputs
  <2>6. CASE task' = [task EXCEPT ![t] = failed] /\ Leave(w, {})
    <3>1. task'[t] = failed
      BY <1>1, <2>6
    <3>2. KeepsInput(t)
      BY <2>1, <2>4, <3>1 DEF KeepsInput
    <3> QED
      BY <1>1, <2>4, <2>6, <3>2, EndedInputs
  <2> QED
    BY <2>3, <2>5, <2>6
<1>3. CASE ~Fenced(t, w)
  <2>1. UNCHANGED task /\ Leave(w, {})
    BY <1>3 DEF FailTask
  <2> QED
    BY <1>1, <2>1, EndedInputs DEF KeepsInput
<1> QED
  BY <1>2, <1>3

\* What a worker deletes, it may delete.
LEMMA DeletionInputs ==
    ASSUME RowInv, RowInv', InputInv, NEW w \in Workers, Unlink(w) \/ SkipSweep(w) \/ Purge(w)
    PROVE  InputInv'
<1>1. /\ UNCHANGED <<task, uploader, doomed, cur, input>>
      /\ obj \in [Refs -> {"new", "stored", "old", "gone"}] /\ owed \in [Workers -> SUBSET Refs]
  BY DEF RowInv, ApiTypeOK, MemTypeOK, Unlink, SkipSweep, Purge, dbVars, apiVars
<1>2. \A r \in Refs : obj'[r] = obj[r] \/ (obj'[r] = "gone" /\ r \in owed[w])
  BY <1>1 DEF Unlink, SkipSweep, Purge, Deleted, apiVars
<1>3. \A v \in Workers : owed'[v] \subseteq owed[v]
  BY <1>1 DEF Unlink, SkipSweep, Purge
<1>4. \A t \in TaskIds : KeepsInput(t)
  BY <1>1 DEF KeepsInput
<1>5. \A r \in Refs : KeepsObject(r) /\ uploader'[r] \in {uploader[r], None}
  BY <1>1, <1>2 DEF KeepsObject, Deletable, InputInv, DeletionsAllowed, DeletionOwed
<1>6. \A r \in Refs : DeletionOwed(r)' => DeletionOwed(r)
  BY <1>1, <1>3 DEF DeletionOwed
<1>7. \A v \in Workers : KeepsMemory(v)
  <2>1. ~Working(w)' /\ \A v \in Workers \ {w} : pc'[v] = pc[v]
    BY WorkerAssumption DEF RowInv, MemTypeOK, Unlink, SkipSweep, Purge, Goto, Working
  <2> QED
    BY <1>1, <2>1 DEF KeepsMemory, Working
<1> QED
  BY <1>4, <1>5, <1>6, <1>7, InputStep

\* A worker that starts again owes nothing.
LEMMA ResetInputs ==
    ASSUME RowInv, RowInv', InputInv, NEW w \in Workers, Reset(w), UNCHANGED <<dbVars, apiVars>>
    PROVE  InputInv'
<1>1. /\ ~Working(w)' /\ owed'[w] = {}
      /\ \A v \in Workers \ {w} : /\ pc'[v] = pc[v] /\ cur'[v] = cur[v] /\ input'[v] = input[v]
                                  /\ owed'[v] = owed[v]
  BY DEF RowInv, MemTypeOK, Reset, Goto, Working
<1>2. \A v \in Workers : KeepsMemory(v)
  BY <1>1 DEF KeepsMemory, Working
<1>3. \A r \in Refs : DeletionOwed(r)' => DeletionOwed(r)
  BY <1>1 DEF DeletionOwed, apiVars
<1>4. \A t \in TaskIds : KeepsInput(t)
  BY DEF KeepsInput, dbVars
<1> QED
  BY <1>2, <1>3, <1>4, OwedInputs DEF apiVars

\* cleanup takes the inputs of the tasks it ends and old objects no task waits for.
LEMMA SweepInputs ==
    ASSUME RowInv, RowInv', InputInv, NEW w \in Workers, Sweep(w)
    PROVE  InputInv'
<1>1. /\ task \in [TaskIds -> TaskRow] /\ \A t \in TaskIds : task'[t] = SweptTask(t)
      /\ owed' = [owed EXCEPT ![w] = (({task[t].ref : t \in StaleInputs} \ {None}) \cup Orphans)]
      /\ Goto(w, "purge") /\ UNCHANGED <<apiVars, cur, input>>
  BY DEF RowInv, DbTypeOK, Sweep
<1>2. ASSUME NEW t \in TaskIds
      PROVE  /\ t \in StaleInputs => task'[t].ref = None /\ task'[t].st = "FAILED"
             /\ t \notin StaleInputs => /\ task'[t].ref = task[t].ref /\ task'[t].kind = task[t].kind
                                        /\ task'[t].st = task[t].st
  BY <1>1 DEF SweptTask, Unleased, TaskRow
<1>3. \A t \in TaskIds : KeepsInput(t)
  BY <1>2 DEF KeepsInput, LiveStates
<1>4. \A v \in Workers : KeepsMemory(v)
  BY <1>1, GotoInputs
<1>5. ASSUME NEW r \in Refs, DeletionOwed(r)', ~DeletionOwed(r)
      PROVE  /\ obj[r] # "new" /\ uploader[r] = None
             /\ \A s \in TaskIds : task'[s].ref = r => task'[s].st \notin LiveStates
  <2>1. (\E t \in StaleInputs : task[t].ref = r /\ r # None) \/ r \in Orphans
    BY <1>1, <1>5 DEF DeletionOwed, apiVars, RowInv, MemTypeOK
  <2>2. CASE \E t \in StaleInputs : task[t].ref = r /\ r # None
    <3>1. PICK t \in StaleInputs : task[t].ref = r /\ r # None
      BY <2>2
    <3>2. t \in TaskIds
      BY DEF StaleInputs
    <3>3. /\ obj[r] # "new" /\ uploader[r] = None /\ \A s \in TaskIds : task[s].ref = r => s = t
      BY <3>1, <3>2 DEF InputInv, InputsUnshared
    <3> QED
      BY <1>2, <3>1, <3>3 DEF LiveStates
  <2>3. CASE r \in Orphans
    <3>1. obj[r] = "old" /\ \A s \in TaskIds : task[s].ref = r /\ task[s].st \in LiveStates => s \in StaleInputs
      BY <2>3 DEF Orphans, LiveRefs
    <3>2. uploader[r] = None
      BY <3>1 DEF InputInv, UploadsStored
    <3>3. r # None
      BY StoreAssumption
    <3> QED
      BY <1>2, <3>1, <3>2, <3>3 DEF LiveStates
  <2> QED
    BY <2>1, <2>2, <2>3
<1> QED
  BY <1>1, <1>3, <1>4, <1>5, OwedInputs DEF apiVars

\* Whatever a worker does with its task, and its cleanup, preserves InputInv.
LEMMA WorkInputs ==
    ASSUME RowInv, RowInv', InputInv, NEW w \in Workers, Work(w)
    PROVE  InputInv'
  BY HandleInputs, CompleteExtractionInputs, CompleteEmbeddingInputs, FailTaskInputs, SweepInputs,
     DeletionInputs DEF Work

-----------------------------------------------------------------------------
(* Embeddings *)

AccountFor(u) ==
    profile[u] # NoResume /\ chunks[u] = NoResume =>
        \E t \in TaskIds :
            /\ task[t].kind = "EMBEDDING" /\ task[t].owner = u /\ task[t].rev = rev[u]
            /\ \/ task[t].st \in LiveStates \cup {"FAILED"}
               \/ task[t].st = "SUCCEEDED" /\ profile[u].content \in Chunkless

\* Task t is no embedding of its account's revision, or it goes on accounting for it.
KeepsEmbedding(t) ==
    task[t].kind = "EMBEDDING" /\ task[t].st # "ABSENT" /\ task[t].rev = rev[task[t].owner] =>
        /\ task'[t].kind = "EMBEDDING" /\ task'[t].owner = task[t].owner /\ task'[t].rev = task[t].rev
        /\ task[t].st \in LiveStates \cup {"FAILED"} => task'[t].st \in LiveStates \cup {"FAILED"}
        /\ task[t].st = "SUCCEEDED" => task'[t].st = "SUCCEEDED"

\* An account whose resume stays, and whose embeddings do, stays accounted for.
LEMMA AccountKept ==
    ASSUME NEW u \in Users, AccountFor(u),
           rev'[u] = rev[u], profile'[u] = profile[u], chunks'[u] = chunks[u],
           \A t \in TaskIds : task[t].owner = u => KeepsEmbedding(t)
    PROVE  AccountFor(u)'
  BY DEF AccountFor, KeepsEmbedding, LiveStates

\* The same for all accounts.
LEMMA AccountsKept ==
    ASSUME EmbeddingAccounted, UNCHANGED <<rev, profile, chunks>>,
           \A t \in TaskIds : KeepsEmbedding(t)
    PROVE  EmbeddingAccounted'
<1>1. \A u \in Users : AccountFor(u)
  BY DEF EmbeddingAccounted, AccountFor
<1>2. \A u \in Users : AccountFor(u)'
  BY <1>1, AccountKept
<1> QED
  BY <1>2 DEF EmbeddingAccounted, AccountFor

\* A step on one task that keeps it.
LEMMA OneTaskKept ==
    ASSUME RowInv, EmbeddingAccounted, UNCHANGED <<rev, profile, chunks>>,
           NEW t \in TaskIds, NEW row, task' = [task EXCEPT ![t] = row], KeepsEmbedding(t)
    PROVE  EmbeddingAccounted'
<1>1. \A s \in TaskIds \ {t} : task'[s] = task[s]
  BY DEF RowInv, DbTypeOK
<1>2. \A s \in TaskIds : KeepsEmbedding(s)
  BY <1>1 DEF KeepsEmbedding
<1> QED
  BY <1>2, AccountsKept

\* A step that leaves the rows alone.
LEMMA AccountsStutter ==
    ASSUME EmbeddingAccounted, UNCHANGED <<rev, profile, chunks, task>>
    PROVE  EmbeddingAccounted'
  BY DEF EmbeddingAccounted

\* A new embedding of its account's revision accounts for what it is to make.
LEMMA SaveAccounts ==
    ASSUME RowInv, EmbeddingAccounted, NEW u \in Users, NEW x, NEW c,
           SaveChanged(u, c, x) \/ SaveUnchanged(u, x)
    PROVE  EmbeddingAccounted'
<1>1. /\ rev \in [Users -> 0 .. MaxRevision] /\ profile \in [Users -> ResumeRow]
      /\ chunks \in [Users -> ResumeRow] /\ task \in [TaskIds -> TaskRow]
  BY DEF RowInv, DbTypeOK
<1>2. /\ EnqueueTask(u, "EMBEDDING", rev'[u], None)
      /\ \A v \in Users \ {u} : rev'[v] = rev[v] /\ profile'[v] = profile[v] /\ chunks'[v] = chunks[v]
  BY <1>1 DEF SaveChanged, SaveUnchanged
<1>3. PICK t \in TaskIds : /\ task[t].st = "ABSENT"
                          /\ task' = [task EXCEPT ![t] = NewTask(u, "EMBEDDING", rev'[u], None)]
  BY <1>2 DEF EnqueueTask, NextId
<1>4. /\ task'[t].st = "PENDING" /\ task'[t].kind = "EMBEDDING" /\ task'[t].owner = u
      /\ task'[t].rev = rev'[u]
      /\ \A s \in TaskIds \ {t} : task'[s] = task[s]
  BY <1>1, <1>3 DEF NewTask, NoTask
<1>5. \A s \in TaskIds : KeepsEmbedding(s)
  BY <1>3, <1>4 DEF KeepsEmbedding
<1>6. AccountFor(u)'
  BY <1>4 DEF AccountFor, LiveStates
<1>7. \A v \in Users \ {u} : AccountFor(v)'
  BY <1>2, <1>5, AccountKept DEF EmbeddingAccounted, AccountFor
<1> QED
  BY <1>6, <1>7 DEF EmbeddingAccounted, AccountFor

\* delete_resume leaves nothing to account for.
LEMMA DeleteAccounts ==
    ASSUME RowInv, EmbeddingAccounted, NEW u \in Users, DeleteResume(u)
    PROVE  EmbeddingAccounted'
<1>1. /\ profile'[u] = NoResume
      /\ \A v \in Users \ {u} : rev'[v] = rev[v] /\ profile'[v] = profile[v] /\ chunks'[v] = chunks[v]
      /\ \A t \in TaskIds : task[t].owner # u => task'[t] = task[t]
  BY DEF RowInv, DbTypeOK, DeleteResume, Cancellable
<1>2. AccountFor(u)'
  BY <1>1 DEF AccountFor
<1>3. \A t \in TaskIds : task[t].owner # u => KeepsEmbedding(t)
  BY <1>1 DEF KeepsEmbedding
<1>4. \A v \in Users \ {u} : AccountFor(v)'
  BY <1>1, <1>3, AccountKept DEF EmbeddingAccounted, AccountFor
<1> QED
  BY <1>2, <1>4 DEF EmbeddingAccounted, AccountFor

\* No request takes an embedding away from a resume that stays.
LEMMA RequestAccounts ==
    ASSUME RowInv, EmbeddingAccounted, Request
    PROVE  EmbeddingAccounted'
<1>1. ASSUME NEW u \in Users, NEW r \in Refs, EnqueueUpload(u, r) PROVE EmbeddingAccounted'
  <2>1. PICK t \in TaskIds : /\ task[t].st = "ABSENT"
                            /\ task' = [task EXCEPT ![t] = NewTask(u, "EXTRACTION", rev[u], r)]
    BY <1>1 DEF EnqueueUpload, EnqueueTask, NextId
  <2>2. UNCHANGED <<rev, profile, chunks>> /\ KeepsEmbedding(t)
    BY <1>1, <2>1 DEF EnqueueUpload, KeepsEmbedding
  <2> QED
    BY <2>1, <2>2, OneTaskKept
<1>2. ASSUME NEW t \in TaskIds, DiscardTask(t) PROVE EmbeddingAccounted'
  BY <1>2, OneTaskKept DEF DiscardTask, KeepsEmbedding
<1>3. \/ UNCHANGED <<rev, profile, chunks, task>>
      \/ \E u \in Users, r \in Refs : EnqueueUpload(u, r)
      \/ \E t \in TaskIds : DiscardTask(t)
      \/ \E u \in Users, x \in TaskIds \cup {0} :
            SaveUnchanged(u, x) \/ \E c \in Contents : SaveChanged(u, c, x)
      \/ \E u \in Users : DeleteResume(u)
  BY DEF Request, StoreUpload, DeleteLeftovers, DeleteDoomed, dbVars
<1> QED
  BY <1>1, <1>2, <1>3, SaveAccounts, DeleteAccounts, AccountsStutter

\* Time changes no state.
LEMMA ClockAccounts ==
    ASSUME RowInv, EmbeddingAccounted, NEW t \in TaskIds,
           \/ LeaseExpires(t) \/ EventLeaseExpires(t) \/ BecomesDue(t) \/ TaskAges(t)
           \/ ResultExpires(t)
    PROVE  EmbeddingAccounted'
<1>1. task \in [TaskIds -> TaskRow]
  BY DEF RowInv, DbTypeOK
<1>2. /\ UNCHANGED <<rev, profile, chunks>>
      /\ \A s \in TaskIds : /\ task'[s].kind = task[s].kind /\ task'[s].owner = task[s].owner
                            /\ task'[s].rev = task[s].rev /\ task'[s].st = task[s].st
  BY <1>1 DEF TaskRow, LeaseExpires, EventLeaseExpires, BecomesDue, TaskAges, ResultExpires
<1>3. \A s \in TaskIds : KeepsEmbedding(s)
  BY <1>2 DEF KeepsEmbedding
<1> QED
  BY <1>2, <1>3, AccountsKept

\* Claiming an unfinished task, or failing it for want of attempts, keeps it accounting.
LEMMA ClaimAccounts ==
    ASSUME RowInv, EmbeddingAccounted, UNCHANGED <<rev, profile, chunks>>,
           NEW t \in TaskIds, NEW w \in Workers,
           \/ task' = [task EXCEPT ![t] = ClaimedTask(task[t], w)] /\ Claimable(t)
           \/ task' = [task EXCEPT ![t] = ExhaustedTask(task[t])] /\ Claimable(t)
    PROVE  EmbeddingAccounted'
<1>1. PICK row \in {ClaimedTask(task[t], w), ExhaustedTask(task[t])} : task' = [task EXCEPT ![t] = row]
  OBVIOUS
<1>2. /\ row.kind = task[t].kind /\ row.owner = task[t].owner /\ row.rev = task[t].rev
      /\ row.st \in {"PROCESSING", "FAILED"}
  <2>1. task[t] \in TaskRow
    BY DEF RowInv, DbTypeOK
  <2>2. CASE row = ClaimedTask(task[t], w)
    BY <2>1, <2>2 DEF TaskRow, ClaimedTask
  <2>3. CASE row = ExhaustedTask(task[t])
    BY <2>1, <2>3 DEF TaskRow, ExhaustedTask, Unleased
  <2> QED
    BY <2>2, <2>3
<1>3. task'[t] = row /\ task[t].st \in LiveStates
  BY <1>1 DEF RowInv, DbTypeOK, Claimable
<1>4. KeepsEmbedding(t)
  BY <1>2, <1>3 DEF KeepsEmbedding, LiveStates, TerminalStates
<1> QED
  BY <1>1, <1>4, OneTaskKept

\* A failed attempt leaves the task unfinished or FAILED, and a cleanup ends extractions only.
LEMMA FailAccounts ==
    ASSUME RowInv, EmbeddingAccounted, NEW w \in Workers,
           FailTask(w) \/ Sweep(w) \/ CompleteExtraction(w)
    PROVE  EmbeddingAccounted'
<1>1. /\ task \in [TaskIds -> TaskRow] /\ UNCHANGED <<rev, profile, chunks>>
  BY DEF RowInv, DbTypeOK, FailTask, Sweep, CompleteExtraction
<1>2. ASSUME FailTask(w), Fenced(cur[w], w) PROVE EmbeddingAccounted'
  <2> DEFINE t == cur[w]
             failed == FailedTask(task[t], pc[w] = "retryable")
             row == IF failed.st = "FAILED" THEN [failed EXCEPT !.ref = None, !.result = "NONE"] ELSE failed
  <2>1. t \in TaskIds /\ task[t] \in TaskRow
    BY <1>1, <1>2 DEF RowInv, Remembers, Working, FailTask
  <2>2. (pc[w] = "retryable") \in BOOLEAN
    OBVIOUS
  <2>3. /\ failed \in TaskRow /\ failed.st \in {"RETRY_WAIT", "FAILED"}
        /\ failed.kind = task[t].kind /\ failed.owner = task[t].owner /\ failed.rev = task[t].rev
    <3>1. failed \in TaskRow
      BY <2>1, <2>2, TaskRowTypes
    <3> QED
      BY <2>1, <3>1 DEF FailedTask, Unleased, TaskRow
  <2>4. task' = [task EXCEPT ![t] = row]
    BY <1>2 DEF FailTask
  <2> HIDE DEF failed
  <2>5. /\ row.st = failed.st /\ row.kind = failed.kind /\ row.owner = failed.owner
        /\ row.rev = failed.rev
    BY <2>3 DEF TaskRow
  <2> HIDE DEF row
  <2>6. KeepsEmbedding(t)
    BY <1>1, <1>2, <2>1, <2>3, <2>4, <2>5 DEF KeepsEmbedding, LiveStates, TerminalStates, Fenced
  <2> QED
    BY <1>1, <2>1, <2>4, <2>6, OneTaskKept
<1>3. ASSUME Sweep(w) PROVE EmbeddingAccounted'
  <2>1. ASSUME NEW t \in TaskIds, task[t].kind = "EMBEDDING"
        PROVE  /\ task'[t].kind = task[t].kind /\ task'[t].owner = task[t].owner
               /\ task'[t].rev = task[t].rev /\ task'[t].st = task[t].st
    BY <1>1, <1>3, <2>1 DEF Sweep, SweptTask, StaleInputs, TaskRow
  <2> QED
    BY <1>1, <2>1, AccountsKept DEF KeepsEmbedding
<1>4. ASSUME CompleteExtraction(w) PROVE EmbeddingAccounted'
  <2>1. cur[w] \in TaskIds /\ task[cur[w]].kind = "EXTRACTION"
    BY <1>4 DEF RowInv, Remembers, Working, CompleteExtraction
  <2>2. UNCHANGED task \/ \E row : task' = [task EXCEPT ![cur[w]] = row]
    BY <1>4 DEF CompleteExtraction, CancelStale
  <2> QED
    BY <1>1, <2>1, <2>2, OneTaskKept, AccountsStutter DEF KeepsEmbedding
<1> QED
  BY <1>1, <1>2, <1>3, <1>4, AccountsStutter DEF FailTask

\* An embedding that completes leaves chunks, or had nothing to embed; one that finds the
\* account at another revision no longer accounts for anything.
LEMMA CompleteAccounts ==
    ASSUME RowInv, EmbeddingAccounted, NEW w \in Workers, CompleteEmbedding(w)
    PROVE  EmbeddingAccounted'
<1> DEFINE t == cur[w]
<1>0. PICK u : u = task[t].owner
  OBVIOUS
<1>1. /\ t \in TaskIds /\ u \in Users /\ task[t] \in TaskRow /\ task \in [TaskIds -> TaskRow]
      /\ chunks \in [Users -> ResumeRow] /\ task[t].kind = "EMBEDDING"
      /\ profile[u].rev = task[t].rev => profile[u].content = content[w]
      /\ UNCHANGED <<rev, profile>>
  BY <1>0 DEF RowInv, DbTypeOK, Remembers, TasksOwned, Working, CompleteEmbedding
<1>2. CASE Fenced(t, w) /\ Current(t)
  <2>1. /\ task' = [task EXCEPT ![t] = SucceededTask(task[t])]
        /\ chunks' = [chunks EXCEPT ![u] = IF content[w] \in Chunkless THEN NoResume
                                ELSE [rev |-> task[t].rev, content |-> content[w]]]
    BY <1>0, <1>2 DEF CompleteEmbedding
  <2>2. /\ task'[t].st = "SUCCEEDED" /\ task'[t].kind = "EMBEDDING" /\ task'[t].owner = u
        /\ task'[t].rev = task[t].rev
        /\ \A s \in TaskIds \ {t} : task'[s] = task[s]
    BY <1>0, <1>1, <2>1 DEF SucceededTask, Unleased, TaskRow
  <2>3. AccountFor(u)'
    <3> SUFFICES ASSUME profile[u] # NoResume, chunks'[u] = NoResume
                 PROVE  profile[u].content \in Chunkless /\ task[t].rev = rev[u]
      BY <1>1, <2>2 DEF AccountFor
    <3>1. task[t].rev = rev[u] /\ profile[u].rev = rev[u]
      BY <1>0, <1>1, <1>2 DEF Current, RowInv, ChunksOfProfile
    <3>2. content[w] \in Chunkless
      <4> SUFFICES ASSUME content[w] \notin Chunkless PROVE FALSE
        OBVIOUS
      <4>1. [rev |-> task[t].rev, content |-> content[w]] = NoResume
        BY <1>1, <2>1
      <4>2. task[t].rev = -1
        BY <4>1 DEF NoResume
      <4> QED
        BY <1>1, <4>2, StoreAssumption DEF TaskRow
    <3> QED
      BY <1>1, <3>1, <3>2
  <2>4. \A v \in Users \ {u} : AccountFor(v)'
    <3>1. \A s \in TaskIds : task[s].owner # u => KeepsEmbedding(s)
      BY <1>0, <2>2 DEF KeepsEmbedding
    <3>2. \A v \in Users \ {u} : chunks'[v] = chunks[v]
      BY <1>1, <2>1
    <3> QED
      BY <1>1, <3>1, <3>2, AccountKept DEF EmbeddingAccounted, AccountFor
  <2> QED
    BY <2>3, <2>4 DEF EmbeddingAccounted, AccountFor
<1>3. CASE Fenced(t, w) /\ ~Current(t)
  <2>1. UNCHANGED chunks /\ \E row : task' = [task EXCEPT ![t] = row]
    BY <1>3 DEF CompleteEmbedding, CancelStale
  <2>2. KeepsEmbedding(t)
    BY <1>3 DEF KeepsEmbedding, Current
  <2> QED
    BY <1>1, <2>1, <2>2, OneTaskKept
<1>4. CASE ~Fenced(t, w)
  <2>1. UNCHANGED <<task, chunks>>
    BY <1>4 DEF CompleteEmbedding
  <2> QED
    BY <1>1, <2>1, AccountsStutter
<1> QED
  BY <1>2, <1>3, <1>4

\* Whatever a worker does with its task, and its cleanup, leaves every resume accounted for.
LEMMA WorkAccounts ==
    ASSUME RowInv, EmbeddingAccounted, NEW w \in Workers, Work(w)
    PROVE  EmbeddingAccounted'
<1>1. \/ UNCHANGED dbVars
      \/ FailTask(w) \/ Sweep(w) \/ CompleteExtraction(w) \/ CompleteEmbedding(w)
  BY DEF Work, HandleExtraction, HandleEmbedding, Unlink, SkipSweep, Purge
<1> QED
  BY <1>1, AccountsStutter, FailAccounts, CompleteAccounts DEF dbVars
=============================================================================
