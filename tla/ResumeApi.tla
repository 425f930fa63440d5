------------------------------ MODULE ResumeApi ------------------------------
(***************************************************************************)
(* The state-changing endpoints of app/api/resume.py over the rows of      *)
(* TaskStore and the temporary object storage (local_storage.py,           *)
(* aws_storage.py).  Every endpoint locks the User row first, so what it   *)
(* does under that lock is one step; storing an object before the lock and *)
(* deleting one after the commit are steps of their own, and the API       *)
(* process may die between them.                                           *)
(*                                                                         *)
(* Requests that answer an error without writing (a revision conflict, an  *)
(* unknown task) and the save_operations rows that make a save idempotent  *)
(* do not change this state.                                               *)
(***************************************************************************)
EXTENDS TaskStore

VARIABLES
    obj,        \* obj[r]: "new" | "stored" | "old" (older than ttl) | "gone"
    uploader,   \* uploader[r]: whose prepare request stored r and has not committed
    doomed,     \* objects an API handler still has to delete after its commit
    erased      \* history: the revision the last delete_resume of a user produced

apiVars == <<obj, uploader, doomed, erased>>

Stored == {r \in Refs : obj[r] \in {"stored", "old"}}

ApiInit ==
    /\ obj = [r \in Refs |-> "new"]
    /\ uploader = [r \in Refs |-> None]
    /\ doomed = {}
    /\ erased = [u \in Users |-> 0]

ApiTypeOK ==
    /\ obj \in [Refs -> {"new", "stored", "old", "gone"}]
    /\ uploader \in [Refs -> Users \cup {None}]
    /\ doomed \subseteq Refs
    /\ erased \in [Users -> 0 .. MaxRevision]

\* storage.delete of one object: a missing object is not an error
Deleted(r) == [obj EXCEPT ![r] = "gone"]

-----------------------------------------------------------------------------
(* POST /resume/prepare *)

StoreUpload(u, r) ==
    /\ obj[r] = "new"
    /\ obj' = [obj EXCEPT ![r] = "stored"]
    /\ uploader' = [uploader EXCEPT ![r] = u]
    /\ UNCHANGED <<dbVars, doomed, erased>>

EnqueueUpload(u, r) ==
    /\ uploader[r] = u
    /\ EnqueueTask(u, "EXTRACTION", rev[u], r)
    /\ uploader' = [uploader EXCEPT ![r] = None]
    /\ UNCHANGED <<rev, profile, chunks, obj, doomed, erased>>

\* The transaction fails: roll back and delete the object.
UploadFails(r) ==
    /\ uploader[r] # None
    /\ uploader' = [uploader EXCEPT ![r] = None]
    /\ obj' = Deleted(r)
    /\ UNCHANGED <<dbVars, doomed, erased>>

-----------------------------------------------------------------------------
(* DELETE /resume/tasks/{task_id} *)

DiscardTask(t) ==
    /\ task[t].st # "ABSENT" /\ task[t].kind = "EXTRACTION"
    /\ task' = [task EXCEPT ![t] = OwnerCancelledTask(@)]
    /\ event' = [event EXCEPT ![t] = CancelledEvent(@)]
    /\ doomed' = doomed \cup ({task[t].ref} \ {None})
    /\ UNCHANGED <<rev, profile, chunks, obj, uploader, erased>>

-----------------------------------------------------------------------------
(* PUT /resume, the transaction under the User lock *)

\* The reviewed draft a save names must still be there and be of this revision.
DraftUsable(u, x) ==
    /\ task[x].kind = "EXTRACTION" /\ task[x].owner = u
    /\ task[x].st = "SUCCEEDED" /\ task[x].rev = rev[u]
    /\ task[x].result = "FRESH"

FailedEmbedding(u) ==
    \E t \in TaskIds :
        /\ task[t].kind = "EMBEDDING" /\ task[t].owner = u
        /\ task[t].rev = rev[u] /\ task[t].st = "FAILED"

\* x = 0: the save names no draft
SaveChanged(u, c, x) ==
    /\ rev[u] < MaxRevision
    /\ x # 0 => DraftUsable(u, x)
    /\ profile[u].content # c
    /\ chunks' = [chunks EXCEPT ![u] = NoResume]
    /\ profile' = [profile EXCEPT ![u] = [rev |-> rev[u] + 1, content |-> c]]
    /\ rev' = [rev EXCEPT ![u] = @ + 1]
    /\ EnqueueTask(u, "EMBEDDING", rev[u] + 1, None)
    /\ UNCHANGED apiVars

\* Saving the same content again retries the revision's failed embedding.
SaveUnchanged(u, x) ==
    /\ x # 0 => DraftUsable(u, x)
    /\ profile[u] # NoResume
    /\ FailedEmbedding(u)
    /\ EnqueueTask(u, "EMBEDDING", rev[u], None)
    /\ UNCHANGED <<rev, profile, chunks, apiVars>>

-----------------------------------------------------------------------------
(* DELETE /resume *)

TempRefs(u) ==
    {task[t].ref : t \in {s \in TaskIds : task[s].owner = u /\ task[s].kind = "EXTRACTION"}}
        \ {None}

DeleteResume(u) ==
    LET gone == Cancellable(u) IN
    /\ profile[u] # NoResume \/ gone # {}
    /\ rev[u] < MaxRevision
    /\ task' = [t \in TaskIds |-> IF t \in gone THEN OwnerCancelledTask(task[t]) ELSE task[t]]
    /\ event' = [t \in TaskIds |-> IF t \in gone THEN CancelledEvent(event[t]) ELSE event[t]]
    /\ profile' = [profile EXCEPT ![u] = NoResume]
    /\ chunks' = [chunks EXCEPT ![u] = NoResume]          \* ON DELETE CASCADE
    /\ rev' = [rev EXCEPT ![u] = @ + 1]
    /\ doomed' = doomed \cup TempRefs(u)
    /\ erased' = [erased EXCEPT ![u] = rev[u] + 1]
    /\ UNCHANGED <<obj, uploader>>

\* No profile and nothing to cancel: only the inputs that ended tasks still name are deleted.
DeleteLeftovers(u) ==
    /\ profile[u] = NoResume /\ Cancellable(u) = {}
    /\ doomed' = doomed \cup TempRefs(u)
    /\ UNCHANGED <<dbVars, obj, uploader, erased>>

-----------------------------------------------------------------------------
(* After the commit, and failure *)

DeleteDoomed(r) ==
    /\ r \in doomed
    /\ obj' = Deleted(r)
    /\ doomed' = doomed \ {r}
    /\ UNCHANGED <<dbVars, uploader, erased>>

\* The API process dies: its open requests are lost, the rows and objects stay.
ApiDies ==
    /\ uploader' = [r \in Refs |-> None]
    /\ doomed' = {}
    /\ UNCHANGED <<dbVars, obj, erased>>

\* An object gets older than ttl.  A prepare request is over long before that.
ObjectAges(r) ==
    /\ obj[r] = "stored" /\ uploader[r] = None
    /\ obj' = [obj EXCEPT ![r] = "old"]
    /\ UNCHANGED <<dbVars, uploader, doomed, erased>>

-----------------------------------------------------------------------------
\* What a student's requests may do, in any order
Request ==
    \/ \E u \in Users, r \in Refs : StoreUpload(u, r) \/ EnqueueUpload(u, r)
    \/ \E t \in TaskIds : DiscardTask(t)
    \/ \E u \in Users, x \in TaskIds \cup {0} :
          SaveUnchanged(u, x) \/ \E c \in Contents : SaveChanged(u, c, x)
    \/ \E u \in Users : DeleteResume(u) \/ DeleteLeftovers(u)
    \/ \E r \in Refs : DeleteDoomed(r)
=============================================================================
