------------------------------ MODULE TaskStore ------------------------------
(***************************************************************************)
(* The PostgreSQL rows of the processing subsystem and the row updates of  *)
(* app/processing/tasks.py and app/processing/outbox.py.                   *)
(*                                                                         *)
(* The functions of tasks.py and outbox.py run inside a transaction their  *)
(* caller commits, so they are given here as row transformers and as       *)
(* predicates; the modules that extend this one build one action for every *)
(* transaction that is committed.                                          *)
(*                                                                         *)
(* Time.  A timestamp is abstracted to the answer of the comparison the    *)
(* code makes with it: "live" is lease_expires_at > now, "due" is          *)
(* available_at <= now, "aged" is created_at <= now - ttl, and a result is *)
(* FRESH while expires_at > now.  The steps of the clock change one such   *)
(* answer, in any order.                                                   *)
(*                                                                         *)
(* Lease tokens.  A process keeps at most one task token and one batch of  *)
(* event tokens, and forgets them before it claims again; a fresh uuid4    *)
(* token is therefore the name of the process that drew it.                *)
(***************************************************************************)
EXTENDS Integers, FiniteSets

CONSTANTS
    Users,          \* accounts
    Contents,       \* approved resume contents (content_hash + embedding_version)
    Chunkless,      \* the contents without a project or experience entry
    Refs,           \* names of temporary objects (payload_ref)
    Procs,          \* processes that can hold a lease: workers, publishers
    None,           \* SQL NULL
    MaxTasks,       \* bound: task rows
    MaxAttempts,    \* processing_tasks.max_attempts
    MaxRevision     \* bound: users.resume_revision

ASSUME StoreAssumption ==
    /\ MaxTasks \in Nat
    /\ MaxAttempts \in Nat \ {0}
    /\ MaxRevision \in Nat
    /\ Chunkless \subseteq Contents
    /\ None \notin Users \cup Contents \cup Refs \cup Procs

VARIABLES
    rev,        \* rev[u]: users.resume_revision
    profile,    \* profile[u]: the resume_profiles row
    chunks,     \* chunks[u]: what the resume_chunks rows of u were computed from
    task,       \* task[t]: the processing_tasks row
    event       \* event[t]: the processing_outbox row of task t

dbVars == <<rev, profile, chunks, task, event>>

-----------------------------------------------------------------------------
(* Rows *)

TaskIds == 1 .. MaxTasks                \* in the order of created_at
Kinds == {"EXTRACTION", "EMBEDDING"}
LiveStates == {"PENDING", "RETRY_WAIT", "PROCESSING"}
TerminalStates == {"SUCCEEDED", "FAILED", "CANCELLED"}

NoResume == [rev |-> -1, content |-> None]

ResumeRow == [rev : 0 .. MaxRevision, content : Contents] \cup {NoResume}

TaskRow == [st : {"ABSENT"} \cup LiveStates \cup TerminalStates,
            kind : Kinds \cup {None},
            owner : Users \cup {None},
            rev : 0 .. MaxRevision,
            attempts : 0 .. MaxAttempts,
            due : BOOLEAN,
            holder : Procs \cup {None},
            live : BOOLEAN,
            ref : Refs \cup {None},
            result : {"NONE", "FRESH", "STALE"},
            aged : BOOLEAN]

EventRow == [st : {"ABSENT", "PENDING", "CLAIMED", "SENT", "CANCELLED"},
             due : BOOLEAN,
             holder : Procs \cup {None},
             live : BOOLEAN]

NoTask == [st |-> "ABSENT", kind |-> None, owner |-> None, rev |-> 0, attempts |-> 0,
           due |-> FALSE, holder |-> None, live |-> FALSE, ref |-> None,
           result |-> "NONE", aged |-> FALSE]

NoEvent == [st |-> "ABSENT", due |-> FALSE, holder |-> None, live |-> FALSE]

DbInit ==
    /\ rev = [u \in Users |-> 0]
    /\ profile = [u \in Users |-> NoResume]
    /\ chunks = [u \in Users |-> NoResume]
    /\ task = [t \in TaskIds |-> NoTask]
    /\ event = [t \in TaskIds |-> NoEvent]

DbTypeOK ==
    /\ rev \in [Users -> 0 .. MaxRevision]
    /\ profile \in [Users -> ResumeRow]
    /\ chunks \in [Users -> ResumeRow]
    /\ task \in [TaskIds -> TaskRow]
    /\ event \in [TaskIds -> EventRow]

-----------------------------------------------------------------------------
(* tasks.py *)

\* enqueue_task: a task and its outbox event in the caller's transaction
NextId(t) == task[t].st = "ABSENT" /\ \A s \in TaskIds : s < t => task[s].st # "ABSENT"

NewTask(u, k, r, ref) ==
    [NoTask EXCEPT !.st = "PENDING", !.kind = k, !.owner = u, !.rev = r,
                   !.due = TRUE, !.ref = ref]

NewEvent == [NoEvent EXCEPT !.st = "PENDING", !.due = TRUE]

EnqueueTask(u, k, r, ref) ==
    \E t \in TaskIds :
        /\ NextId(t)
        /\ task' = [task EXCEPT ![t] = NewTask(u, k, r, ref)]
        /\ event' = [event EXCEPT ![t] = NewEvent]

\* _clear_lease and _cancel_outbox
Unleased(row) == [row EXCEPT !.holder = None, !.live = FALSE]

CancelledEvent(e) == [Unleased(e) EXCEPT !.st = "CANCELLED"]

\* claim_task: the row may be claimed now; with attempts left it is leased to p,
\* otherwise it ends as ATTEMPTS_EXHAUSTED
Claimable(t) ==
    /\ task[t].st \in LiveStates
    /\ task[t].st = "PROCESSING" => ~task[t].live
    /\ task[t].due

\* faulty variant: one attempt too many
ExhaustedLate(t) == task[t].attempts > MaxAttempts

Exhausted(t) == task[t].attempts >= MaxAttempts

ClaimedTask(row, p) ==
    [row EXCEPT !.st = "PROCESSING", !.attempts = @ + 1, !.holder = p, !.live = TRUE]

ExhaustedTask(row) == [Unleased(row) EXCEPT !.st = "FAILED"]

\* complete_task and fail_task act only for the current holder of a live lease
\* faulty variant: only another holder's lease refuses the write, an ended task does not
FencedByHolderOnly(t, p) == task[t].st = "PROCESSING" => task[t].holder = p /\ task[t].live

Fenced(t, p) == task[t].st = "PROCESSING" /\ task[t].holder = p /\ task[t].live

SucceededTask(row) == [Unleased(row) EXCEPT !.st = "SUCCEEDED"]

StaleTask(row) == [Unleased(row) EXCEPT !.st = "CANCELLED", !.result = "NONE"]

FailRetries(row, retryable) == retryable /\ row.attempts < MaxAttempts

\* faulty variant: a final failure is recorded as a cancellation
FailedAsCancelled(row, retryable) ==
    IF FailRetries(row, retryable)
    THEN [Unleased(row) EXCEPT !.st = "RETRY_WAIT", !.due = FALSE]
    ELSE [Unleased(row) EXCEPT !.st = "CANCELLED"]

FailedTask(row, retryable) ==
    IF FailRetries(row, retryable)
    THEN [Unleased(row) EXCEPT !.st = "RETRY_WAIT", !.due = FALSE]
    ELSE [Unleased(row) EXCEPT !.st = "FAILED"]

\* faulty variant: the publication of a finally failed task is left as it is
FailedEventKept(e, row, retryable) ==
    IF FailRetries(row, retryable)
    THEN [Unleased(e) EXCEPT !.st = "PENDING", !.due = FALSE]
    ELSE e

FailedEvent(e, row, retryable) ==
    IF FailRetries(row, retryable)
    THEN [Unleased(e) EXCEPT !.st = "PENDING", !.due = FALSE]
    ELSE CancelledEvent(e)

\* faulty variant: drafts that wait for review are not cancelled
CancellableLive(u) ==
    {t \in TaskIds : task[t].st \in LiveStates /\ task[t].owner = u}

\* cancel_owner_tasks: every live task of the owner, and every kept draft
Cancellable(u) ==
    {t \in TaskIds :
        /\ task[t].st # "ABSENT" /\ task[t].owner = u
        /\ \/ task[t].st \notin TerminalStates
           \/ task[t].kind = "EXTRACTION" /\ task[t].result # "NONE"}

OwnerCancelledTask(row) ==
    [Unleased(row) EXCEPT !.st = "CANCELLED", !.result = "NONE", !.ref = None]

-----------------------------------------------------------------------------
(* outbox.py *)

\* claim_outbox_batch: due events of tasks that wait to be published
Publishable(t) ==
    /\ task[t].st \in {"PENDING", "RETRY_WAIT"}
    /\ event[t].due
    /\ \/ event[t].st = "PENDING"
       \/ event[t].st = "CLAIMED" /\ ~event[t].live

ClaimedEvent(e, p) == [e EXCEPT !.st = "CLAIMED", !.holder = p, !.live = TRUE]

\* ack_outbox and retry_outbox act only for the current holder of a live claim
EventFenced(t, p) == event[t].st = "CLAIMED" /\ event[t].holder = p /\ event[t].live

SentEvent(e) == [Unleased(e) EXCEPT !.st = "SENT"]

RetriedEvent(e) == [Unleased(e) EXCEPT !.st = "PENDING", !.due = FALSE]

-----------------------------------------------------------------------------
(* The clock.  fail_task gives the task and its event the same available_at, so   *)
(* they become due together.                                                      *)

LeaseExpires(t) ==
    /\ task[t].st = "PROCESSING" /\ task[t].live
    /\ task' = [task EXCEPT ![t].live = FALSE]
    /\ UNCHANGED <<rev, profile, chunks, event>>

EventLeaseExpires(t) ==
    /\ event[t].st = "CLAIMED" /\ event[t].live
    /\ event' = [event EXCEPT ![t].live = FALSE]
    /\ UNCHANGED <<rev, profile, chunks, task>>

BecomesDue(t) ==
    /\ task[t].st \in {"PENDING", "RETRY_WAIT"} /\ ~event[t].due
    /\ task' = [task EXCEPT ![t].due = TRUE]
    /\ event' = [event EXCEPT ![t].due = TRUE]
    /\ UNCHANGED <<rev, profile, chunks>>

TaskAges(t) ==
    /\ task[t].st \in LiveStates /\ task[t].kind = "EXTRACTION" /\ ~task[t].aged
    /\ task' = [task EXCEPT ![t].aged = TRUE]
    /\ UNCHANGED <<rev, profile, chunks, event>>

ResultExpires(t) ==
    /\ task[t].result = "FRESH"
    /\ task' = [task EXCEPT ![t].result = "STALE"]
    /\ UNCHANGED <<rev, profile, chunks, event>>
=============================================================================
