------------------------------ MODULE ResumeSave ------------------------------
(***************************************************************************)
(* PUT /api/resume and DELETE /api/resume of app/api/resume.py, for one    *)
(* user: concurrent requests, each with an Idempotency-Key, and the rows   *)
(* of save_operations that make a repeated key a replay.                   *)
(*                                                                         *)
(* A step of a request is what it does between two points where other      *)
(* requests may commit: the reads of the session and user, the lookup of   *)
(* the operation, the privacy check in a thread, the insert of a           *)
(* REVIEW_REQUIRED row, the save transaction under the user's row lock,    *)
(* and the touch of the session after it.  A SaveOperation is never        *)
(* deleted and never written with state PROCESSING; it only expires.       *)
(* Whether a request names an extraction draft, and whether that draft is  *)
(* still usable, is left open (ResumeApi models it).                       *)
(***************************************************************************)
EXTENDS Integers

CONSTANTS
    Keys,       \* idempotency keys
    Contents,   \* resume contents
    Dirty,      \* the contents that privacy cleanup changes
    Reqs,       \* requests that are under way at a time
    MaxRev,     \* bound: no more writes at this revision
    None

ASSUME SaveAssumption ==
    /\ Dirty \subseteq Contents
    /\ MaxRev \in Nat
    /\ None \notin Contents

VARIABLES
    rev,        \* users.resume_revision
    content,    \* resume_profiles.content, None without a profile
    ops,        \* ops[k]: the SaveOperation row
    req         \* req[r]: the request

serverVars == <<rev, content, ops, req>>

NoOp == [state |-> "NONE", exp |-> 0, new |-> None, result |-> 0, live |-> FALSE]
NoReq == [pc |-> "idle", key |-> None, exp |-> 0, new |-> None, seen |-> 0,
          ans |-> "none", res |-> 0]

SaveInit ==
    /\ rev = 0 /\ content = None
    /\ ops = [k \in Keys |-> NoOp]
    /\ req = [r \in Reqs |-> NoReq]

Answers == {"SAVED", "REVIEW_REQUIRED", "REVISION_CONFLICT", "IDEMPOTENCY_CONFLICT",
            "OPERATION_EXPIRED", "SERVICE_UNAVAILABLE", "TASK_NOT_FOUND",
            "INTERNAL_ERROR", "AUTH_REQUIRED"}
Steps == {"sent", "lookup", "recheck", "review", "replay", "save", "touch", "answered"}
Revs == 0 .. MaxRev + 1

SaveTypeOK ==
    /\ rev \in Revs /\ content \in Contents \cup {None}
    /\ ops \in [Keys -> [state : {"NONE", "SUCCEEDED", "FAILED"}, exp : Revs, result : Revs,
                         new : Contents \cup {None}, live : BOOLEAN]]
    /\ req \in [Reqs -> [pc : Steps \cup {"idle"}, key : Keys \cup {None}, exp : Revs,
                         new : Contents \cup {None}, seen : Revs,
                         ans : Answers \cup {"none"}, res : Revs]]

-----------------------------------------------------------------------------
Go(r, step) == req' = [req EXCEPT ![r].pc = step, ![r].seen = 0]

AnswerWith(r, a, n) ==
    req' = [req EXCEPT ![r].pc = "answered", ![r].seen = 0, ![r].ans = a, ![r].res = n]
Answer(r, a) == AnswerWith(r, a, 0)

OpOf(r) == ops[req[r].key]
Stored(r) == OpOf(r).state # "NONE"

\* _payload_hash: expected revision and content
SamePayload(r) == OpOf(r).exp = req[r].exp /\ OpOf(r).new = req[r].new

\* _replay_or_raise; its callers have dealt with a live REVIEW_REQUIRED row, the only failure
ReplayOrRaise(r) ==
    \/ ~SamePayload(r) /\ Answer(r, "IDEMPOTENCY_CONFLICT")
    \/ SamePayload(r) /\ ~OpOf(r).live /\ Answer(r, "OPERATION_EXPIRED")
    \/ SamePayload(r) /\ OpOf(r).live /\ AnswerWith(r, "SAVED", OpOf(r).result)

ReviewStored(r) == OpOf(r).state = "FAILED" /\ SamePayload(r)

NewOp(r, s, n) ==
    [state |-> s, exp |-> req[r].exp, new |-> req[r].new, result |-> n, live |-> TRUE]

Store(r, s, n) == ops' = [ops EXCEPT ![req[r].key] = NewOp(r, s, n)]

-----------------------------------------------------------------------------
\* A client knows only revisions the server has shown.
SendRequest(r, k, e, c) ==
    /\ req[r].pc = "idle" /\ e \in 0 .. rev
    /\ req' = [req EXCEPT ![r] = [NoReq EXCEPT !.pc = "sent", !.key = k, !.exp = e, !.new = c]]

\* get_current_session_and_user: no session, or the user as it is now
Authenticate(r) ==
    /\ req[r].pc = "sent"
    /\ \/ Answer(r, "AUTH_REQUIRED")
       \/ req' = [req EXCEPT ![r].pc = "lookup", ![r].seen = rev]
    /\ UNCHANGED <<rev, content, ops>>

Lookup(r) ==
    /\ req[r].pc = "lookup"
    /\ \/ /\ Stored(r)
          /\ IF ReviewStored(r) /\ OpOf(r).live THEN Go(r, "replay") ELSE ReplayOrRaise(r)
       \/ ~Stored(r) /\ req[r].seen # req[r].exp /\ Answer(r, "REVISION_CONFLICT")
       \/ ~Stored(r) /\ req[r].seen = req[r].exp /\ Go(r, "recheck")
    /\ UNCHANGED <<rev, content, ops>>

\* _privacy_recheck outside any transaction; it may fail
Recheck(r) ==
    /\ req[r].pc = "recheck"
    /\ \/ Answer(r, "SERVICE_UNAVAILABLE")
       \/ Go(r, IF req[r].new \in Dirty THEN "review" ELSE "save")
    /\ UNCHANGED <<rev, content, ops>>

\* faulty variant: the review row replaces whatever is stored
OverwriteWithReview(r) ==
    /\ req[r].pc = "review"
    /\ Store(r, "FAILED", 0) /\ Answer(r, "REVIEW_REQUIRED")
    /\ UNCHANGED <<rev, content>>

\* The insert, the IntegrityError of a row that came first, or a cleaned draft that fails.
RequireReview(r) ==
    /\ req[r].pc = "review"
    /\ \/ ~Stored(r) /\ Store(r, "FAILED", 0) /\ Answer(r, "REVIEW_REQUIRED")
       \/ /\ Stored(r)
          /\ IF ReviewStored(r) THEN Go(r, "replay") ELSE ReplayOrRaise(r)
          /\ UNCHANGED ops
       \/ Answer(r, "INTERNAL_ERROR") /\ UNCHANGED ops
    /\ UNCHANGED <<rev, content>>

\* _replay_review_required computes the cleaned draft again.
ReplayReview(r) ==
    /\ req[r].pc = "replay"
    /\ Answer(r, "REVIEW_REQUIRED") \/ Answer(r, "INTERNAL_ERROR")
    /\ UNCHANGED <<rev, content, ops>>

-----------------------------------------------------------------------------
(* The save transaction, under SELECT ... FOR UPDATE of the user *)

\* The operation may have been stored since the lookup.
SaveFindsOp(r) ==
    /\ Stored(r)
    /\ IF ReviewStored(r) THEN Go(r, "replay") ELSE ReplayOrRaise(r)
    /\ UNCHANGED <<rev, content, ops>>

\* REVISION_CONFLICT, TASK_NOT_FOUND for a draft, or an error that rolls everything back
SaveRefused(r) ==
    /\ ~Stored(r)
    /\ \/ rev # req[r].exp /\ Answer(r, "REVISION_CONFLICT")
       \/ rev = req[r].exp /\ Answer(r, "TASK_NOT_FOUND")
       \/ Answer(r, "INTERNAL_ERROR")
    /\ UNCHANGED <<rev, content, ops>>

\* faulty variant: the operation is not looked up again under the lock
SaveAgain(r) ==
    /\ rev = req[r].exp /\ rev < MaxRev
    /\ rev' = IF content = req[r].new THEN rev ELSE rev + 1
    /\ content' = req[r].new
    /\ Store(r, "SUCCEEDED", rev')
    /\ req' = [req EXCEPT ![r].pc = "touch", ![r].res = rev']

SaveCommits(r) ==
    /\ ~Stored(r) /\ rev = req[r].exp /\ rev < MaxRev
    /\ rev' = IF content = req[r].new THEN rev ELSE rev + 1
    /\ content' = req[r].new
    /\ Store(r, "SUCCEEDED", rev')
    /\ req' = [req EXCEPT ![r].pc = "touch", ![r].res = rev']

SaveLocked(r) == req[r].pc = "save" /\ (SaveFindsOp(r) \/ SaveRefused(r) \/ SaveCommits(r))

\* touch_session_activity_by_token after the commit; its failure is an answer of 500.
TouchAndAnswer(r) ==
    /\ req[r].pc = "touch"
    /\ AnswerWith(r, "SAVED", req[r].res) \/ Answer(r, "INTERNAL_ERROR")
    /\ UNCHANGED <<rev, content, ops>>

\* The answer has been read, or nobody waits for it any more.
Forget(r) ==
    /\ req[r].pc = "answered"
    /\ req' = [req EXCEPT ![r] = NoReq]

-----------------------------------------------------------------------------
\* delete_resume: a profile, or at least a live task, goes and the revision moves on.
DeleteResume ==
    /\ rev < MaxRev
    /\ rev' = rev + 1 /\ content' = None
    /\ UNCHANGED <<ops, req>>

\* SAVE_OPERATION_RETENTION passes: the row stays and is no longer available.
OpExpires(k) ==
    /\ ops[k].state # "NONE" /\ ops[k].live
    /\ ops' = [ops EXCEPT ![k].live = FALSE]
    /\ UNCHANGED <<rev, content, req>>

RequestStep(r) ==
    \/ Authenticate(r) \/ Lookup(r) \/ Recheck(r) \/ RequireReview(r) \/ ReplayReview(r)
    \/ SaveLocked(r) \/ TouchAndAnswer(r)

ServerStep == DeleteResume \/ (\E k \in Keys : OpExpires(k)) \/ (\E r \in Reqs : RequestStep(r))

-----------------------------------------------------------------------------
(* The server alone, with clients that may use any key for anything *)

Ask(r) ==
    /\ \E k \in Keys, e \in 0 .. rev, c \in Contents : SendRequest(r, k, e, c)
    /\ UNCHANGED <<rev, content, ops>>

Hear(r) == Forget(r) /\ UNCHANGED <<rev, content, ops>>

SaveNext == ServerStep \/ \E r \in Reqs : Ask(r) \/ Hear(r)

SaveSpec == SaveInit /\ [][SaveNext]_serverVars

-----------------------------------------------------------------------------
(* Properties *)

Done == [k \in Keys |-> IF ops[k].state = "SUCCEEDED"
                        THEN [exp |-> ops[k].exp, new |-> ops[k].new, result |-> ops[k].result]
                        ELSE None]

Once == INSTANCE SaveOnce WITH done <- Done

\* However requests with one key interleave, are repeated, race a deletion or come after
\* the row has expired, the key changes the profile at most once, from the revision the
\* request named, and what it did is never forgotten.
SavesOnce == Once!Spec

\* Every answer is still true when it is read: a success names the revision its own
\* payload produced; "review required" and "revision conflict" mean that this payload was
\* not saved under this key and never will be.
AnswersHold ==
    \A r \in Reqs : req[r].pc = "answered" =>
        /\ req[r].ans = "SAVED" =>
              OpOf(r).state = "SUCCEEDED" /\ SamePayload(r) /\ OpOf(r).result = req[r].res
        /\ req[r].ans = "REVIEW_REQUIRED" => OpOf(r).state = "FAILED" /\ SamePayload(r)
        /\ req[r].ans = "REVISION_CONFLICT" => ~(OpOf(r).state = "SUCCEEDED" /\ SamePayload(r))
=============================================================================
