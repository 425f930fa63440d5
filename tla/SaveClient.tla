------------------------------ MODULE SaveClient ------------------------------
(***************************************************************************)
(* The browser's side of saving: ResumeSaveController (saveController.ts), *)
(* the idempotency keys (idempotency.ts) and the part of                   *)
(* useResumeWorkspace.ts that keeps the displayed profile, the expected    *)
(* revision and the conflict.  One workspace; other tabs and devices save  *)
(* and delete beside it.                                                   *)
(*                                                                         *)
(* A request may be answered, or the client stops hearing of it while it   *)
(* is still on its way or being served (a lost answer, a 502 or 504).      *)
(***************************************************************************)
EXTENDS ResumeSave

CONSTANTS
    Waits           \* the number of RETRY_BACKOFF_SECONDS

ASSUME ClientAssumption ==
    /\ Waits \in Nat
    /\ None \notin Reqs
    /\ None \notin [key : Keys, exp : Revs, new : Contents]

VARIABLES
    pc,         \* where the workspace is; "idle" iff not saving or loading
    at,         \* the controller's attempt, or None
    sub,        \* the submitted payload of the running save(), its key, and what became of it
    draft,      \* the content being edited
    known,      \* expectedRevision, or None
    shown,      \* profile: the displayed content, and the revision it was read at
    conflict    \* the conflict: its profile and revision, or None

clientVars == <<pc, at, sub, draft, known, shown, conflict>>
vars == <<serverVars, clientVars>>

NoSub == [slot |-> None, key |-> None, reuse |-> FALSE, tries |-> 0, then |-> "none",
          checking |-> FALSE]
NoConflict == [open |-> FALSE, rev |-> None, content |-> None]
Blank == [rev |-> 0, content |-> None]

Init ==
    /\ SaveInit
    /\ pc = "load" /\ at = None /\ sub = NoSub
    /\ draft \in Contents
    /\ known = None /\ shown = Blank /\ conflict = NoConflict

ClientSteps == {"idle", "load", "account", "sent", "backoff", "check", "refresh", "reconcile"}
TypeOK ==
    /\ SaveTypeOK
    /\ pc \in ClientSteps
    /\ at \in [key : Keys, exp : Revs, new : Contents] \cup {None}
    /\ sub \in [slot : Reqs \cup {None}, key : Keys \cup {None}, reuse : BOOLEAN,
                tries : 0 .. Waits, then : {"none", "SAVED", "FAILED", "CONFLICT"},
                checking : BOOLEAN]
    /\ draft \in Contents /\ known \in Revs \cup {None}
    /\ shown \in [rev : Revs, content : Contents \cup {None}]
    /\ conflict \in [open : BOOLEAN, rev : Revs \cup {None}, content : Contents \cup {None}]

-----------------------------------------------------------------------------
(* confirmSave and save() *)

Matches(e, c) == at # None /\ at.exp = e /\ at.new = c

\* createIdempotencyKey: a key nobody has used
Fresh(k) ==
    /\ ops[k] = NoOp
    /\ \A r \in Reqs : req[r].key # k
    /\ at # None => at.key # k

\* faulty variant: the attempt is kept although the payload changed
KeyKept(e, c, k) == IF at # None THEN k = at.key ELSE Fresh(k)

\* attemptForPayload
KeyFor(e, c, k) == IF Matches(e, c) THEN k = at.key ELSE Fresh(k)

ConfirmSave ==
    /\ pc = "idle" /\ ~conflict.open /\ known # None
    /\ \E k \in Keys, r \in Reqs :
        /\ KeyFor(known, draft, k)
        /\ SendRequest(r, k, known, draft)
        /\ at' = [key |-> k, exp |-> known, new |-> draft]
        /\ sub' = [NoSub EXCEPT !.slot = r, !.key = k, !.reuse = Matches(known, draft)]
    /\ pc' = "sent"
    /\ UNCHANGED <<rev, content, ops, draft, known, shown, conflict>>

\* save() or resolveOperation returns; the status it shows is the name of the case.
Settle == pc' = "idle" /\ sub' = NoSub

Heard == req[sub.slot].pc = "answered"
Reply == req[sub.slot].ans

\* The answer is read; what the request did is done.
Read == pc = "sent" /\ Heard /\ Forget(sub.slot) /\ UNCHANGED <<rev, content, ops>>

PossiblyReplayed == sub.reuse \/ sub.tries > 0

SaveSucceeds ==
    /\ Read /\ Reply = "SAVED"
    /\ IF PossiblyReplayed
       THEN /\ pc' = "refresh" /\ sub' = [sub EXCEPT !.slot = None, !.then = "SAVED"]
            /\ UNCHANGED <<at, known, shown>>
       ELSE /\ Settle /\ at' = None
            /\ known' = req[sub.slot].res
            /\ shown' = [rev |-> req[sub.slot].res, content |-> draft]
    /\ UNCHANGED <<draft, conflict>>

\* Transport loss at any time, or an answer that settles nothing.
NoAnswer ==
    /\ pc = "sent"
    /\ IF sub.tries < Waits
       THEN /\ pc' = "backoff"
            /\ sub' = [sub EXCEPT !.slot = None, !.tries = @ + 1]
       ELSE Settle
    /\ UNCHANGED <<at, draft, known, shown, conflict>>

SaveUnsettled ==
    \/ NoAnswer /\ UNCHANGED serverVars
    \/ NoAnswer /\ Read /\ Reply = "INTERNAL_ERROR"

\* faulty variant: a network retry takes a new key while there is one
NewKey(k) == Fresh(k) \/ (k = sub.key /\ \A f \in Keys : ~Fresh(f))

SameKey(k) == k = sub.key

Retry ==
    /\ pc = "backoff"
    /\ \E r \in Reqs, k \in Keys :
        /\ SameKey(k)
        /\ SendRequest(r, k, at.exp, at.new)
        /\ sub' = [sub EXCEPT !.slot = r, !.key = k]
    /\ pc' = "sent"
    /\ UNCHANGED <<rev, content, ops, at, draft, known, shown, conflict>>

\* REVIEW_REQUIRED puts the cleaned draft in place; it must be confirmed again.
SaveNeedsReview ==
    /\ Read /\ Reply = "REVIEW_REQUIRED"
    /\ Settle /\ at' = None
    /\ draft' \in Contents \ Dirty
    /\ UNCHANGED <<known, shown, conflict>>

SaveConflicts ==
    /\ Read /\ Reply \in {"REVISION_CONFLICT", "IDEMPOTENCY_CONFLICT", "OPERATION_EXPIRED"}
    /\ at' = None /\ pc' = "refresh"
    /\ sub' = [sub EXCEPT !.slot = None,
                          !.then = IF Reply = "REVISION_CONFLICT" THEN "CONFLICT" ELSE "FAILED"]
    /\ UNCHANGED <<draft, known, shown, conflict>>

\* Signed out: draft and key stay.  Anything else is definite: the next attempt has a new key.
SaveFails ==
    /\ Read
    /\ \/ Reply = "AUTH_REQUIRED" /\ Settle /\ UNCHANGED at
       \/ Reply \in {"SERVICE_UNAVAILABLE", "TASK_NOT_FOUND"} /\ Settle /\ at' = None
    /\ UNCHANGED <<draft, known, shown, conflict>>

-----------------------------------------------------------------------------
(* resolveOperation *)

CheckSaveStatus ==
    /\ pc = "idle" /\ ~conflict.open /\ at # None
    /\ pc' = "check" /\ sub' = [NoSub EXCEPT !.key = at.key, !.checking = TRUE]
    /\ UNCHANGED <<serverVars, at, draft, known, shown, conflict>>

ResolveOperation ==
    /\ pc = "check"
    /\ LET op == ops[sub.key]
       IN  \/ /\ op.state = "FAILED" /\ op.live
              /\ Settle /\ at' = None
           \/ /\ op.state = "SUCCEEDED" \/ ~op.live
              /\ pc' = "refresh" /\ at' = None
              /\ sub' = [sub EXCEPT !.then = IF op.live THEN "SAVED" ELSE "FAILED"]
           \/ Settle /\ UNCHANGED at    \* signed out, or no answer
    /\ UNCHANGED <<serverVars, draft, known, shown, conflict>>

-----------------------------------------------------------------------------
(* refreshProfile and what the workspace makes of it *)

Displays(n, c) == shown' = [rev |-> n, content |-> c]

RefreshFails ==
    /\ pc = "refresh"
    /\ \/ sub.then = "SAVED" /\ Settle /\ UNCHANGED conflict
       \/ sub.then = "FAILED" /\ Settle /\ UNCHANGED conflict
       \/ /\ sub.then = "CONFLICT" /\ Settle
          /\ conflict' = [NoConflict EXCEPT !.open = TRUE]
    /\ UNCHANGED <<serverVars, at, draft, known, shown>>

\* The profile is read; without one, the account's revision has to be read after it.
RefreshSaved ==
    /\ pc = "refresh" /\ sub.then = "SAVED"
    /\ at' = None /\ Displays(rev, content)
    /\ IF content = None
       THEN pc' = "account" /\ known' = None /\ UNCHANGED sub
       ELSE Settle /\ known' = rev
    /\ UNCHANGED <<serverVars, draft, conflict>>

RefreshFailed ==
    /\ pc = "refresh" /\ sub.then = "FAILED"
    /\ Displays(rev, content)
    /\ known' = IF ~sub.checking THEN known ELSE IF content = None THEN None ELSE rev
    /\ Settle
    /\ UNCHANGED <<serverVars, at, draft, conflict>>

\* recordConflict
RefreshConflict ==
    /\ pc = "refresh" /\ sub.then = "CONFLICT"
    /\ IF content = None
       THEN /\ pc' = "reconcile" /\ conflict' = [NoConflict EXCEPT !.open = TRUE]
            /\ UNCHANGED sub
       ELSE /\ Settle
            /\ conflict' = [open |-> TRUE, rev |-> rev, content |-> content]
    /\ UNCHANGED <<serverVars, at, draft, known, shown>>

\* faulty variant: the account's revision is taken even if there is a profile again
RevisionAnyway == TRUE

\* getAccountRevision rejects an account that has a resume again.
StillNoResume == content = None

\* The account's revision, after a profile that was missing; the read may also fail.
ReadAccount ==
    /\ pc = "account"
    /\ \/ StillNoResume /\ known' = rev /\ shown' = [shown EXCEPT !.rev = rev]
       \/ UNCHANGED <<known, shown>>
    /\ Settle
    /\ UNCHANGED <<serverVars, at, draft, conflict>>

ReconcileAccount ==
    /\ pc = "reconcile"
    /\ \/ StillNoResume /\ conflict' = [conflict EXCEPT !.rev = rev]
       \/ UNCHANGED conflict
    /\ Settle
    /\ UNCHANGED <<serverVars, at, draft, known, shown>>

-----------------------------------------------------------------------------
(* The student *)

Reload ==
    /\ pc = "idle"
    /\ pc' = "load" /\ known' = None
    /\ UNCHANGED <<serverVars, at, sub, draft, shown, conflict>>

Load ==
    /\ pc = "load"
    /\ \/ pc' = "idle" /\ UNCHANGED <<known, shown, conflict>>
       \/ /\ Displays(rev, content) /\ conflict' = NoConflict
          /\ IF content = None THEN pc' = "account" /\ UNCHANGED known
                               ELSE pc' = "idle" /\ known' = rev
    /\ UNCHANGED <<serverVars, at, sub, draft>>

Edit ==
    /\ pc = "idle" /\ draft' \in Contents /\ draft' # draft
    /\ UNCHANGED <<serverVars, pc, at, sub, known, shown, conflict>>

AskConflictAgain ==
    /\ pc = "idle" /\ conflict.open
    /\ pc' = "refresh" /\ sub' = [NoSub EXCEPT !.then = "CONFLICT"]
    /\ UNCHANGED <<serverVars, at, draft, known, shown, conflict>>

\* resolveConflict, with KEEP_DRAFT or USE_CURRENT
ResolveConflict ==
    /\ pc = "idle" /\ conflict.open /\ conflict.rev # None
    /\ shown' = [rev |-> conflict.rev, content |-> conflict.content]
    /\ known' = conflict.rev /\ conflict' = NoConflict
    /\ draft' \in {draft} \cup ({conflict.content} \ {None})
    /\ at' = None
    /\ UNCHANGED <<serverVars, pc, sub>>

-----------------------------------------------------------------------------
(* Other tabs and devices *)

\* A save of another tab, with a key of its own; SaveNext has its requests in detail.
OtherSaves(k) ==
    /\ Fresh(k) /\ rev < MaxRev
    /\ rev' = rev + 1 /\ content' \in Contents /\ content' # content
    /\ ops' = [ops EXCEPT ![k] = [state |-> "SUCCEEDED", exp |-> rev, new |-> content',
                                  result |-> rev', live |-> TRUE]]
    /\ UNCHANGED <<req, clientVars>>

\* The answers of requests the workspace has given up
Unheard(r) ==
    /\ r # sub.slot /\ Forget(r)
    /\ UNCHANGED <<rev, content, ops, clientVars>>

ControllerStep ==
    \/ SaveSucceeds \/ SaveUnsettled \/ SaveNeedsReview \/ SaveConflicts \/ SaveFails \/ Retry
    \/ ResolveOperation \/ RefreshFails \/ RefreshSaved \/ RefreshFailed \/ RefreshConflict
    \/ ReadAccount \/ ReconcileAccount \/ Load

StudentStep ==
    ConfirmSave \/ CheckSaveStatus \/ Reload \/ Edit \/ AskConflictAgain \/ ResolveConflict

Next ==
    \/ ServerStep /\ UNCHANGED clientVars
    \/ ControllerStep \/ StudentStep
    \/ \E k \in Keys : OtherSaves(k)
    \/ \E r \in Reqs : Unheard(r)

Spec == Init /\ [][Next]_vars

-----------------------------------------------------------------------------
(* Properties *)

Committed(k) == ops'[k].state = "SUCCEEDED" /\ ops[k].state # "SUCCEEDED"

\* What a save of this workspace replaces is what the workspace displays.
ReplacesWhatIsShown ==
    \A k \in Keys :
        Committed(k) /\ content # content' /\ ~OtherSaves(k) => shown.content = content

\* The attempt that a reported conflict ends is over for good: no earlier request of it, its
\* answer lost, has saved it, and as the account has moved past its revision none still on
\* its way will.  What moved the account may be another attempt of this workspace.
ConflictEndsAttempt ==
    [][Read /\ Reply = "REVISION_CONFLICT" =>
           ops[at.key].state # "SUCCEEDED" /\ at.exp < rev]_vars

\* Keys are never mixed up: however edits, lost answers and retries follow each other, the
\* workspace never hears that its key stands for another payload.
NoKeyConflict == pc = "sent" /\ Heard => Reply # "IDEMPOTENCY_CONFLICT"
=============================================================================
