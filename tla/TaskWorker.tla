------------------------------ MODULE TaskWorker ------------------------------
(***************************************************************************)
(* What a worker process (app/processing/local_worker.py) does with a task *)
(* it has claimed, and its cleanup, in local and in aws mode alike.        *)
(*                                                                         *)
(*   poll ... claimed -> handled ---> [unlink] -> AfterTask ... sweep      *)
(*                   \-> failing -/                  sweep -> purge -> poll *)
(*                                                                         *)
(* A worker holds in memory what it read at its claim (the task, its lease *)
(* token, payload_ref) and the content it read from the profile; the rows  *)
(* may change under it before its completing transaction.                  *)
(***************************************************************************)
EXTENDS ResumeApi

CONSTANTS
    Workers,        \* worker processes
    WorkerKind,     \* the --kind of each
    AfterTask       \* where a worker goes when it is done with a claimed task

ASSUME WorkerAssumption ==
    /\ Workers \subseteq Procs
    /\ WorkerKind \in [Workers -> Kinds]
    /\ AfterTask \in {"settle", "sweep"}

VARIABLES
    pc,         \* pc[w]: where the worker is
    cur,        \* cur[w]: the claimed task, 0 if none
    input,      \* input[w]: payload_ref as read at the claim
    content,    \* content[w]: what _approved_content returned
    owed        \* owed[w]: objects the worker is about to delete

memVars == <<pc, cur, input, content, owed>>

Labels == {"boot", "poll", "deliver", "claim", "claimed", "handled", "retryable",
           "final", "unlink", "settle", "drop", "sweep", "purge"}

MemInit ==
    /\ pc = [w \in Workers |-> "boot"]
    /\ cur = [w \in Workers |-> 0]
    /\ input = [w \in Workers |-> None]
    /\ content = [w \in Workers |-> None]
    /\ owed = [w \in Workers |-> {}]

MemTypeOK ==
    /\ pc \in [Workers -> Labels]
    /\ cur \in [Workers -> TaskIds \cup {0}]
    /\ input \in [Workers -> Refs \cup {None}]
    /\ content \in [Workers -> Contents \cup {None}]
    /\ owed \in [Workers -> SUBSET Refs]

Goto(w, l) == pc' = [pc EXCEPT ![w] = l]

\* The worker leaves its task; it still owes the deletion of the objects in refs.
Leave(w, refs) ==
    /\ Goto(w, IF refs = {} THEN AfterTask ELSE "unlink")
    /\ owed' = [owed EXCEPT ![w] = refs]
    /\ cur' = [cur EXCEPT ![w] = IF AfterTask = "settle" THEN @ ELSE 0]
    /\ input' = [input EXCEPT ![w] = None]
    /\ content' = [content EXCEPT ![w] = None]

Working(w) == pc[w] \in {"claimed", "handled", "retryable", "final"}

\* run_one and run_queue_message: lease task t and remember it.
TakeTask(w, t) ==
    /\ task' = [task EXCEPT ![t] = ClaimedTask(@, w)]
    /\ cur' = [cur EXCEPT ![w] = t]
    /\ input' = [input EXCEPT ![w] = task[t].ref]
    /\ Goto(w, "claimed")
    /\ UNCHANGED <<rev, profile, chunks, event, apiVars, content, owed>>

-----------------------------------------------------------------------------
(* _process_claimed, up to the completing transaction *)

\* _approved_content: the profile row, if it still is of the task's revision
Approved(t) == profile[task[t].owner].rev = task[t].rev

HandleExtraction(w) ==
    /\ pc[w] = "claimed" /\ WorkerKind[w] = "EXTRACTION"
    /\ \/ input[w] \in Stored /\ Goto(w, "handled")
       \/ input[w] \in Stored /\ Goto(w, "final")
       \/ Goto(w, "retryable")
    /\ UNCHANGED <<dbVars, apiVars, cur, input, content, owed>>

HandleEmbedding(w) ==
    /\ pc[w] = "claimed" /\ WorkerKind[w] = "EMBEDDING"
    /\ IF Approved(cur[w])
       THEN /\ content' = [content EXCEPT ![w] = profile[task[cur[w]].owner].content]
            /\ \E l \in {"handled", "final", "retryable"} : Goto(w, l)
       ELSE /\ Goto(w, "final")
            /\ UNCHANGED content
    /\ UNCHANGED <<dbVars, apiVars, cur, input, owed>>

-----------------------------------------------------------------------------
(* _complete_extraction, _complete_embedding, _fail *)

\* faulty variant: complete_task does not look at the account's revision
CurrentAlways(t) == TRUE

Current(t) == rev[task[t].owner] = task[t].rev

DraftTask(row) == [SucceededTask(row) EXCEPT !.result = "FRESH", !.ref = None]

\* complete_task finds the account at another revision.
CancelStale(t) ==
    /\ task' = [task EXCEPT ![t] = StaleTask(@)]
    /\ event' = [event EXCEPT ![t] = CancelledEvent(@)]

CompleteExtraction(w) ==
    LET t == cur[w]
        pdf == {input[w]} \ {None} IN
    /\ pc[w] = "handled" /\ WorkerKind[w] = "EXTRACTION"
    /\ \/ /\ Fenced(t, w) /\ Current(t)
          /\ task' = [task EXCEPT ![t] = DraftTask(@)]
          /\ UNCHANGED event
          /\ Leave(w, pdf)
       \/ /\ Fenced(t, w) /\ ~Current(t)
          /\ CancelStale(t)
          /\ Leave(w, pdf)
       \/ /\ ~Fenced(t, w)
          /\ UNCHANGED <<task, event>>
          /\ Leave(w, IF task[t].st = "CANCELLED" THEN pdf ELSE {})
    /\ UNCHANGED <<rev, profile, chunks, apiVars>>

CompleteEmbedding(w) ==
    LET t == cur[w]
        u == task[t].owner IN
    /\ pc[w] = "handled" /\ WorkerKind[w] = "EMBEDDING"
    /\ \/ /\ Fenced(t, w) /\ Current(t)
          /\ task' = [task EXCEPT ![t] = SucceededTask(@)]
          /\ chunks' = [chunks EXCEPT ![u] = IF content[w] \in Chunkless THEN NoResume
                                ELSE [rev |-> task[t].rev, content |-> content[w]]]
          /\ UNCHANGED event
       \/ /\ Fenced(t, w) /\ ~Current(t)
          /\ CancelStale(t)
          /\ UNCHANGED chunks
       \/ /\ ~Fenced(t, w)
          /\ UNCHANGED <<task, event, chunks>>
    /\ Leave(w, {})
    /\ UNCHANGED <<rev, profile, apiVars>>

\* _fail: a terminal failure also drops the temporary input.
FailTask(w) ==
    LET t == cur[w]
        retryable == pc[w] = "retryable"
        failed == FailedTask(task[t], retryable) IN
    /\ pc[w] \in {"retryable", "final"}
    /\ \/ /\ Fenced(t, w)
          /\ event' = [event EXCEPT ![t] = FailedEvent(@, task[t], retryable)]
          /\ IF failed.st = "FAILED"
             THEN /\ task' = [task EXCEPT ![t] = [failed EXCEPT !.ref = None, !.result = "NONE"]]
                  /\ Leave(w, {task[t].ref} \ {None})
             ELSE /\ task' = [task EXCEPT ![t] = failed]
                  /\ Leave(w, {})
       \/ /\ ~Fenced(t, w)
          /\ UNCHANGED <<task, event>>
          /\ Leave(w, {})
    /\ UNCHANGED <<rev, profile, chunks, apiVars>>

Unlink(w) ==
    /\ pc[w] = "unlink"
    /\ obj' = [r \in Refs |-> IF r \in owed[w] THEN "gone" ELSE obj[r]]
    /\ owed' = [owed EXCEPT ![w] = {}]
    /\ Goto(w, AfterTask)
    /\ UNCHANGED <<dbVars, uploader, doomed, erased, cur, input, content>>

-----------------------------------------------------------------------------
(* cleanup: one transaction, then the deletions it decided on *)

\* faulty variant: an abandoned PROCESSING row is left alone
StaleQueuedInputs ==
    {t \in TaskIds :
        /\ task[t].kind = "EXTRACTION" /\ task[t].aged
        /\ task[t].st \in {"PENDING", "RETRY_WAIT"}}

StaleInputs ==
    {t \in TaskIds :
        /\ task[t].kind = "EXTRACTION" /\ task[t].st \in LiveStates /\ task[t].aged
        /\ task[t].st = "PROCESSING" => ~task[t].live}

SweptTask(t) ==
    IF t \in StaleInputs
    THEN [Unleased(task[t]) EXCEPT !.st = "FAILED", !.ref = None, !.result = "NONE"]
    ELSE IF task[t].result = "STALE" THEN [task[t] EXCEPT !.result = "NONE"] ELSE task[t]

\* faulty variant: tasks that wait for a retry are not live
LiveRefsNoRetry ==
    {task[t].ref : t \in {s \in TaskIds : task[s].st \in {"PENDING", "PROCESSING"}} \ StaleInputs}

\* The references the sweep's own transaction leaves on live tasks
LiveRefs == {task[t].ref : t \in {s \in TaskIds : task[s].st \in LiveStates} \ StaleInputs}

\* faulty variant: no orphan is looked for
OrphansIgnored == {}

Orphans == {r \in Refs : obj[r] = "old"} \ LiveRefs

Sweep(w) ==
    /\ pc[w] \in {"boot", "sweep"}
    /\ task' = [t \in TaskIds |-> SweptTask(t)]
    /\ event' = [t \in TaskIds |-> IF t \in StaleInputs THEN CancelledEvent(event[t]) ELSE event[t]]
    /\ owed' = [owed EXCEPT ![w] = (({task[t].ref : t \in StaleInputs} \ {None}) \cup Orphans)]
    /\ Goto(w, "purge")
    /\ UNCHANGED <<rev, profile, chunks, apiVars, cur, input, content>>

\* Less than CLEANUP_INTERVAL_SECONDS since the last cleanup
SkipSweep(w) ==
    /\ pc[w] = "sweep"
    /\ Goto(w, "poll")
    /\ UNCHANGED <<dbVars, apiVars, cur, input, content, owed>>

Purge(w) ==
    /\ pc[w] = "purge"
    /\ \/ /\ owed[w] = {}
          /\ Goto(w, "poll")
          /\ UNCHANGED <<obj, owed>>
       \/ /\ \E r \in owed[w] :
                /\ obj' = Deleted(r)
                /\ owed' = [owed EXCEPT ![w] = @ \ {r}]
          /\ UNCHANGED pc
    /\ UNCHANGED <<dbVars, uploader, doomed, erased, cur, input, content>>

\* The process dies and Docker starts it again; run_forever begins with a cleanup.
Reset(w) ==
    /\ Goto(w, "boot")
    /\ cur' = [cur EXCEPT ![w] = 0]
    /\ input' = [input EXCEPT ![w] = None]
    /\ content' = [content EXCEPT ![w] = None]
    /\ owed' = [owed EXCEPT ![w] = {}]

-----------------------------------------------------------------------------
(* What the rows promise, in both modes *)

\* The profile is of the account's revision, and matching never sees chunks that were
\* computed from another revision or from other text than the profile holds, although
\* a worker reads the content long before the transaction that writes the chunks.
ChunksOfProfile ==
    \A u \in Users :
        /\ profile[u] # NoResume => profile[u].rev = rev[u]
        /\ chunks[u] # NoResume => chunks[u] = profile[u]

\* A saved resume without chunks is accounted for: an embedding of its revision is under
\* way, or failed (so that saving again retries it), or there was nothing to embed.
EmbeddingAccounted ==
    \A u \in Users :
        profile[u] # NoResume /\ chunks[u] = NoResume =>
            \E t \in TaskIds :
                /\ task[t].kind = "EMBEDDING" /\ task[t].owner = u /\ task[t].rev = rev[u]
                /\ \/ task[t].st \in LiveStates \cup {"FAILED"}
                   \/ task[t].st = "SUCCEEDED" /\ profile[u].content \in Chunkless

\* An unfinished task always has a publication that can still reach a worker, only
\* published tasks are worked on, and what has ended without success is never published.
OutboxAgrees ==
    \A t \in TaskIds :
        /\ task[t].st \in {"PENDING", "RETRY_WAIT"} => event[t].st \in {"PENDING", "CLAIMED", "SENT"}
        /\ task[t].st \in {"PROCESSING", "SUCCEEDED"} => event[t].st = "SENT"
        /\ task[t].st \in {"FAILED", "CANCELLED"} => event[t].st = "CANCELLED"

\* Every commit satisfies the CHECK constraints that tie the lease columns to the states
\* (ck_processing_tasks_lease_state, ck_processing_outbox_lease_state).
LeaseColumns ==
    \A t \in TaskIds :
        /\ task[t].holder # None <=> task[t].st = "PROCESSING"
        /\ task[t].live => task[t].st = "PROCESSING"
        /\ event[t].holder # None <=> event[t].st = "CLAIMED"
        /\ event[t].live => event[t].st = "CLAIMED"

\* Once delete_resume has committed, nothing of what it deleted is worked on or readable
\* again: no late worker, retry or redelivery brings a draft or a task of it back.
NothingSurvivesDelete ==
    \A t \in TaskIds :
        task[t].st # "ABSENT" /\ task[t].rev < erased[task[t].owner] =>
            task[t].st \in TerminalStates /\ task[t].result = "NONE"

\* The PDF of an extraction that may still run is in storage: no cleanup, no late
\* worker and no other request deletes the input of a task that was not ended.
InputPresent ==
    \A t \in TaskIds :
        task[t].st \in LiveStates /\ task[t].kind = "EXTRACTION" => task[t].ref \in Stored

\* A task that has ended never runs again; only its owner's discard may turn one end
\* into another, CANCELLED.
EndsForGood ==
    \A t \in TaskIds :
        task[t].st \in TerminalStates =>
            \/ task'[t].st = task[t].st
            \/ task[t].kind = "EXTRACTION" /\ task'[t].st = "CANCELLED"

-----------------------------------------------------------------------------
(* The inductive invariant behind the promises above *)

\* A task row belongs to an account whose revision has reached the task's.
TasksOwned ==
    \A t \in TaskIds :
        task[t].st # "ABSENT" =>
            /\ task[t].kind \in Kinds /\ task[t].owner \in Users
            /\ task[t].rev <= rev[task[t].owner]

\* An unfinished embedding of the account's revision has its profile.
LiveEmbedding ==
    \A t \in TaskIds :
        task[t].st \in LiveStates /\ task[t].kind = "EMBEDDING"
            /\ task[t].rev = rev[task[t].owner] => profile[task[t].owner] # NoResume

\* Only extractions that succeeded keep a draft.
DraftsSucceeded ==
    \A t \in TaskIds :
        task[t].result # "NONE" => task[t].kind = "EXTRACTION" /\ task[t].st = "SUCCEEDED"

\* A delete never gets ahead of the account's revision.
ErasedReached == \A u \in Users : erased[u] <= rev[u]

\* A working process remembers a task of its kind, and the content it read is the
\* profile's as long as the profile is of the task's revision.
Remembers ==
    \A w \in Workers :
        Working(w) =>
            /\ cur[w] \in TaskIds
            /\ task[cur[w]].st # "ABSENT"
            /\ task[cur[w]].kind = WorkerKind[w]
            /\ pc[w] = "handled" /\ WorkerKind[w] = "EMBEDDING" =>
                  /\ content[w] \in Contents
                  /\ profile[task[cur[w]].owner].rev = task[cur[w]].rev =>
                        profile[task[cur[w]].owner].content = content[w]

RowInv ==
    /\ DbTypeOK /\ ApiTypeOK /\ MemTypeOK
    /\ TasksOwned /\ LiveEmbedding /\ DraftsSucceeded /\ ErasedReached /\ Remembers
    /\ LeaseColumns /\ OutboxAgrees /\ ChunksOfProfile /\ NothingSurvivesDelete

\* An object of no open prepare request and of no unfinished task may be deleted.
Deletable(r) ==
    /\ obj[r] # "new" /\ uploader[r] = None
    /\ \A t \in TaskIds : task[t].ref = r => task[t].st \notin LiveStates

\* Somebody has decided to delete r and has not done it yet.
DeletionOwed(r) == r \in doomed \/ \E w \in Workers : r \in owed[w]

DeletionsAllowed == \A r \in Refs : DeletionOwed(r) => Deletable(r)

\* A prepare request that has not committed has stored its object.
UploadsStored == \A r \in Refs : uploader[r] # None => obj[r] = "stored"

\* An object is the input of one task at most, and of one whose request has committed.
InputsUnshared ==
    \A t \in TaskIds :
        task[t].ref # None =>
            /\ obj[task[t].ref] # "new" /\ uploader[task[t].ref] = None
            /\ \A s \in TaskIds : task[s].ref = task[t].ref => s = t

\* The input a working process remembers is, at most, its own task's.
InputRemembered ==
    \A w \in Workers :
        Working(w) /\ input[w] # None =>
            /\ obj[input[w]] # "new" /\ uploader[input[w]] = None
            /\ \A t \in TaskIds : task[t].ref = input[w] => t = cur[w]

InputInv ==
    InputPresent /\ DeletionsAllowed /\ UploadsStored /\ InputsUnshared /\ InputRemembered
=============================================================================
