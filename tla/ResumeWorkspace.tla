---------------------------- MODULE ResumeWorkspace ----------------------------
(***************************************************************************)
(* useResumeWorkspace.ts with the buttons of ResumeWorkspace.tsx and       *)
(* ResumeUploadPanel.tsx: loading, uploading, watching an extraction,      *)
(* reviewing its draft, cancelling, saving and deleting.                   *)
(*                                                                         *)
(* Every async function is a flow: it asks the server, which answers when  *)
(* it likes, and goes on when the answer arrives.  Several flows may be    *)
(* under way; taskEpoch tells a flow that the workspace has moved on.  The *)
(* save controller, its keys and the conflict's revision are SaveClient.   *)
(***************************************************************************)
EXTENDS Naturals

CONSTANTS
    MaxExtractions,     \* bound: uploads
    Flows,              \* async functions under way at a time
    MaxEpoch            \* bound: no more moves of the student at this taskEpoch

ASSUME WorkspaceAssumption == MaxExtractions \in Nat /\ MaxEpoch \in Nat

VARIABLES
    epoch,      \* taskEpoch.current
    phase,      \* LOADING, NO_RESUME, PROFILE, REVIEW
    preparing, saving, file,    \* flags; file: a file is selected
    hasProfile, known,          \* profile and expectedRevision are not null
    loadError, inConflict,      \* loadError and conflict are not null
    shownTask,  \* processingTask, 0 for none
    source,     \* sourceExtractionTaskId, 0 for none
    draft,      \* the extraction that filled it, 0 for none, and whether the student has edited it
    flow,       \* flow[f]: an async function under way
    ext,        \* ext[t]: the extraction on the server
    old,        \* extractions of an earlier revision of the resume
    onServer    \* a profile is saved on the server

viewVars == <<preparing, saving, file, hasProfile, known, loadError, inConflict, shownTask>>
reviewVars == <<phase, source, draft>>
worldVars == <<ext, old, onServer>>
workspaceVars == <<epoch, viewVars, reviewVars, flow, worldVars>>

Extractions == 1 .. MaxExtractions
NoFlow == [fn |-> "none", ep |-> 0, task |-> 0, step |-> "none", ans |-> "none", has |-> FALSE, done |-> FALSE]
Filled(b) == [by |-> b, edited |-> FALSE]

WorkspaceInit ==
    /\ epoch = 1 /\ phase = "LOADING"
    /\ preparing = FALSE /\ saving = FALSE /\ file = FALSE
    /\ hasProfile = FALSE /\ known = FALSE /\ loadError = FALSE /\ inConflict = FALSE
    /\ shownTask = 0 /\ source = 0 /\ draft = Filled(0)
    /\ \E f \in Flows :
          flow = [g \in Flows |-> IF g = f THEN [NoFlow EXCEPT !.fn = "reload", !.ep = 1, !.step = "ask"] ELSE NoFlow]
    /\ ext = [t \in Extractions |-> "none"] /\ old = {} /\ onServer \in BOOLEAN

-----------------------------------------------------------------------------
(* Flows *)

Runs(f, fn, step) == flow[f].fn = fn /\ flow[f].step = step
Current(f) == flow[f].ep = epoch

\* The student's next move, within the bound
NewEpoch == epoch < MaxEpoch /\ epoch' = epoch + 1

Begin(f, fn, ep, t) ==
    /\ flow[f] = NoFlow
    /\ flow' = [flow EXCEPT ![f] = [NoFlow EXCEPT !.fn = fn, !.ep = ep, !.task = t, !.step = "ask", !.has = hasProfile]]

Over(f) == flow' = [flow EXCEPT ![f] = NoFlow]
Answers(f, a) == flow' = [flow EXCEPT ![f].step = "answer", ![f].ans = a]
Heard(f, fn) == Runs(f, fn, "answer")
Ans(f) == flow[f].ans

-----------------------------------------------------------------------------
(* The server *)

\* get_active_extraction
Active == {t \in Extractions \ old : ext[t] \in {"live", "done"}}

\* A save or deletion moves the revision on: what was extracted before is no longer active.
Outdates ==
    /\ old' = {t \in Extractions : ext[t] # "none"}
    /\ ext' = [t \in Extractions |-> IF ext[t] = "live" THEN "over" ELSE ext[t]]

ServeReload(f) ==
    \/ Runs(f, "reload", "ask") /\ flow' = [flow EXCEPT ![f].step = "active", ![f].has = onServer]
    \/ /\ Runs(f, "reload", "active")
       /\ \E t \in Active :
             /\ \A s \in Active : s <= t
             /\ flow' = [flow EXCEPT ![f].step = "answer", ![f].ans = "task", ![f].task = t, ![f].done = ext[t] = "done"]
    \/ Runs(f, "reload", "active") /\ Answers(f, "nothing")    \* no task, or its status is unavailable
    \/ (Runs(f, "reload", "ask") \/ Runs(f, "reload", "active")) /\ Answers(f, "failed")

\* The upload may be accepted and its answer lost.
ServePrepare(f) ==
    /\ Runs(f, "prepare", "ask")
    /\ \/ \E t \in Extractions :
             /\ ext[t] = "none" /\ \A s \in Extractions : s < t => ext[s] # "none"
             /\ ext' = [ext EXCEPT ![t] = "live"]
             /\ Answers(f, "failed") \/ flow' = [flow EXCEPT ![f].step = "answer", ![f].ans = "task", ![f].task = t]
       \/ Answers(f, "failed") /\ UNCHANGED ext

ServeMonitor(f) ==
    /\ Runs(f, "monitor", "ask")
    /\ \E a \in {ext[flow[f].task], "failed", "auth"} : Answers(f, a)

ServeCancel(f) ==
    /\ Runs(f, "cancel", "ask")
    /\ \/ ext' = [ext EXCEPT ![flow[f].task] = "over"] /\ (Answers(f, "ok") \/ Answers(f, "failed"))
       \/ Answers(f, "failed") /\ UNCHANGED ext

\* "gone" is a success whose profile is deleted by now, "expired" a failure that brings the
\* profile along, "review" sends the draft back cleaned.
ServeSave(f) ==
    /\ Runs(f, "save", "ask")
    /\ \/ /\ flow[f].task # 0 => ext[flow[f].task] = "done" /\ flow[f].task \notin old
          /\ Outdates /\ onServer' = TRUE
          /\ Answers(f, "saved") \/ Answers(f, "failed")
       \/ /\ \E a \in {"failed", "expired", "conflict", "gone", "review"} : Answers(f, a)
          /\ UNCHANGED worldVars

ServeCheck(f) ==
    /\ Runs(f, "check", "ask")
    /\ \E a \in {"saved", "failed", "expired", "gone"} : Answers(f, a)

ServeDelete(f) ==
    /\ Runs(f, "delete", "ask")
    /\ \/ Outdates /\ onServer' = FALSE /\ (Answers(f, "ok") \/ Answers(f, "failed"))
       \/ /\ Answers(f, "failed") \/ (epoch < MaxEpoch /\ Answers(f, "conflict"))
          /\ UNCHANGED worldVars

\* The worker ends an extraction; another tab saves or deletes.
ServerMoves ==
    \/ \E t \in Extractions :
          /\ ext[t] = "live" /\ \E s \in {"done", "over"} : ext' = [ext EXCEPT ![t] = s]
          /\ UNCHANGED <<old, onServer, flow>>
    \/ Outdates /\ onServer' \in BOOLEAN /\ UNCHANGED flow

Serve ==
    /\ \/ \E f \in Flows : ServeReload(f) /\ UNCHANGED worldVars
       \/ \E f \in Flows : (ServePrepare(f) \/ ServeCancel(f)) /\ UNCHANGED <<old, onServer>>
       \/ \E f \in Flows : (ServeMonitor(f) \/ ServeCheck(f)) /\ UNCHANGED worldVars
       \/ \E f \in Flows : ServeSave(f) \/ ServeDelete(f)
       \/ ServerMoves
    /\ UNCHANGED <<epoch, viewVars, reviewVars>>

-----------------------------------------------------------------------------
(* reload *)

Review(t) == phase' = "REVIEW" /\ source' = t /\ draft' = Filled(t)

ReloadArrives(f) ==
    /\ Heard(f, "reload") /\ Current(f) /\ Ans(f) # "failed"
    /\ known' = TRUE /\ inConflict' = FALSE /\ hasProfile' = flow[f].has
    /\ shownTask' = flow[f].task
    /\ \/ /\ flow[f].done
          /\ Review(flow[f].task) /\ Over(f) /\ UNCHANGED preparing
       \/ /\ Ans(f) = "task" /\ ~flow[f].done
          /\ phase' = IF flow[f].has THEN "PROFILE" ELSE "NO_RESUME"
          /\ preparing' = TRUE
          /\ flow' = [flow EXCEPT ![f] = [@ EXCEPT !.fn = "monitor", !.step = "sleep", !.ans = "none"]]
          /\ UNCHANGED <<source, draft>>
       \/ /\ Ans(f) = "nothing"
          /\ phase' = IF flow[f].has THEN "PROFILE" ELSE "NO_RESUME"
          /\ Over(f) /\ UNCHANGED <<preparing, source, draft>>
    /\ UNCHANGED <<epoch, saving, file, loadError, worldVars>>

ReloadFails(f) ==
    /\ Heard(f, "reload") /\ Current(f) /\ Ans(f) = "failed"
    /\ loadError' = TRUE /\ phase' = "NO_RESUME" /\ Over(f)
    /\ UNCHANGED <<epoch, preparing, saving, file, hasProfile, known, inConflict, shownTask, source, draft, worldVars>>

-----------------------------------------------------------------------------
(* prepare and monitorExtraction *)

PrepareArrives(f) ==
    /\ Heard(f, "prepare") /\ Current(f)
    /\ \/ /\ Ans(f) = "task"
          /\ flow' = [flow EXCEPT ![f] = [@ EXCEPT !.fn = "monitor", !.step = "sleep", !.ans = "none"]]
          /\ UNCHANGED preparing
       \/ Ans(f) = "failed" /\ preparing' = FALSE /\ Over(f)
    /\ UNCHANGED <<epoch, saving, file, hasProfile, known, loadError, inConflict, shownTask, reviewVars, worldVars>>

\* faulty variant: a watcher does not look at the epoch
WatchedAlways(f) == TRUE

Watched(f) == Current(f)

MonitorWakes(f) ==
    /\ Runs(f, "monitor", "sleep")
    /\ \/ Watched(f) /\ flow' = [flow EXCEPT ![f].step = "ask"] /\ UNCHANGED preparing
       \/ Watched(f) /\ Over(f) /\ preparing' = FALSE      \* after 60 attempts
       \/ ~Watched(f) /\ Over(f) /\ UNCHANGED preparing
    /\ UNCHANGED <<epoch, saving, file, hasProfile, known, loadError, inConflict, shownTask, reviewVars, worldVars>>

\* An error is handled before the epoch is looked at.
MonitorFails(f) ==
    /\ Heard(f, "monitor") /\ Ans(f) \in {"failed", "auth"}
    /\ preparing' = FALSE /\ Over(f)
    /\ epoch' = IF Ans(f) = "auth" THEN epoch + 1 ELSE epoch
    /\ UNCHANGED <<saving, file, hasProfile, known, loadError, inConflict, shownTask, reviewVars, worldVars>>

MonitorArrives(f) ==
    /\ Heard(f, "monitor") /\ Ans(f) \notin {"failed", "auth"} /\ Watched(f)
    /\ shownTask' = flow[f].task
    /\ \/ Ans(f) = "done" /\ Review(flow[f].task) /\ preparing' = FALSE /\ Over(f)
       \/ Ans(f) = "over" /\ preparing' = FALSE /\ Over(f) /\ UNCHANGED reviewVars
       \/ /\ Ans(f) = "live" /\ flow' = [flow EXCEPT ![f].step = "sleep", ![f].ans = "none"]
          /\ UNCHANGED <<preparing, reviewVars>>
    /\ UNCHANGED <<epoch, saving, file, hasProfile, known, loadError, inConflict, worldVars>>

\* The answer comes too late: the function returns.
TooLate(f) ==
    /\ \/ flow[f].fn \in {"reload", "prepare", "cancel"} /\ flow[f].step = "answer" /\ ~Current(f)
       \/ Heard(f, "monitor") /\ Ans(f) \notin {"failed", "auth"} /\ ~Watched(f)
    /\ Over(f)
    /\ UNCHANGED <<epoch, viewVars, reviewVars, worldVars>>

-----------------------------------------------------------------------------
(* cancelReview, confirmSave, checkSaveStatus, deleteProfile *)

\* With the profile there was when the student clicked
CancelDone(had) ==
    /\ source' = 0 /\ shownTask' = 0 /\ draft' = Filled(0) /\ file' = FALSE
    /\ phase' = IF had THEN "PROFILE" ELSE "NO_RESUME"
    /\ UNCHANGED <<preparing, saving, hasProfile, known, loadError, inConflict, worldVars>>

CancelArrives(f) ==
    /\ Heard(f, "cancel") /\ Current(f) /\ Over(f)
    /\ \/ Ans(f) = "ok" /\ CancelDone(flow[f].has)
       \/ Ans(f) = "failed" /\ UNCHANGED <<viewVars, reviewVars, worldVars>>
    /\ UNCHANGED epoch

\* Neither looks at the epoch.  Only confirmSave forgets the source of the draft.
SaveArrives(f) ==
    /\ flow[f].fn \in {"save", "check"} /\ flow[f].step = "answer"
    /\ saving' = FALSE /\ Over(f)
    /\ \/ /\ Ans(f) = "saved"
          /\ hasProfile' = TRUE /\ known' = TRUE /\ file' = FALSE /\ phase' = "PROFILE"
          /\ source' = IF flow[f].fn = "save" THEN 0 ELSE source
          /\ UNCHANGED <<loadError, inConflict>>
       \/ /\ Ans(f) = "gone"
          /\ hasProfile' = FALSE /\ file' = FALSE /\ phase' = "NO_RESUME"
          /\ known' \in BOOLEAN /\ loadError' = (loadError \/ ~known')
          /\ source' = IF flow[f].fn = "save" THEN 0 ELSE source
          /\ UNCHANGED inConflict
       \/ /\ Ans(f) = "expired"
          /\ hasProfile' \in BOOLEAN /\ known' = IF flow[f].fn = "save" THEN known ELSE hasProfile'
          /\ UNCHANGED <<file, phase, source, loadError, inConflict>>
       \/ /\ Ans(f) = "conflict" /\ inConflict' = TRUE
          /\ UNCHANGED <<hasProfile, known, file, phase, source, loadError>>
       \/ Ans(f) \in {"failed", "review"} /\ UNCHANGED <<hasProfile, known, file, phase, source, loadError, inConflict>>
    /\ draft' = IF Ans(f) = "review" THEN Filled(flow[f].task) ELSE draft
    /\ UNCHANGED <<epoch, preparing, shownTask, worldVars>>

\* A conflict loads the resume again; saving is reset after that, but nothing can be clicked
\* while it loads.
DeleteArrives(f) ==
    /\ Heard(f, "delete")
    /\ \/ /\ Ans(f) = "ok" /\ Over(f) /\ saving' = FALSE
          /\ hasProfile' = FALSE /\ known' = TRUE /\ file' = FALSE
          /\ draft' = Filled(0) /\ source' = 0 /\ phase' = "NO_RESUME"
          /\ UNCHANGED <<epoch, loadError>>
       \/ /\ Ans(f) = "conflict" /\ saving' = FALSE
          /\ epoch' = epoch + 1 /\ phase' = "LOADING" /\ loadError' = FALSE /\ known' = FALSE
          /\ flow' = [flow EXCEPT ![f] = [NoFlow EXCEPT !.fn = "reload", !.ep = epoch', !.step = "ask"]]
          /\ UNCHANGED <<hasProfile, file, draft, source>>
       \/ /\ Ans(f) = "failed" /\ Over(f) /\ saving' = FALSE
          /\ UNCHANGED <<epoch, hasProfile, known, file, draft, source, phase, loadError>>
    /\ UNCHANGED <<preparing, inConflict, shownTask, worldVars>>

-----------------------------------------------------------------------------
(* The student; a button is there in some phases and while nothing is under way *)

Panel == (phase = "NO_RESUME" \/ (phase = "PROFILE" /\ hasProfile)) /\ ~preparing /\ ~saving
Reviewing == phase = "REVIEW" /\ ~saving

\* Also "Retry loading resume"
Reload ==
    /\ phase # "LOADING" /\ loadError /\ NewEpoch
    /\ \E f \in Flows : Begin(f, "reload", epoch', 0)
    /\ phase' = "LOADING" /\ loadError' = FALSE /\ known' = FALSE
    /\ UNCHANGED <<preparing, saving, file, hasProfile, inConflict, shownTask, source, draft, worldVars>>

\* selectFiles, which keeps a good choice when the new one is rejected, and clearSelection
ChooseFile ==
    /\ Panel /\ NewEpoch /\ (file' = TRUE \/ UNCHANGED file \/ (file /\ file' = FALSE))
    /\ UNCHANGED <<preparing, saving, hasProfile, known, loadError, inConflict, shownTask, reviewVars, flow, worldVars>>

Prepare ==
    /\ Panel /\ file /\ NewEpoch /\ preparing' = TRUE
    /\ \E f \in Flows : Begin(f, "prepare", epoch', 0)
    /\ UNCHANGED <<saving, file, hasProfile, known, loadError, inConflict, shownTask, reviewVars, worldVars>>

StartManualEntry ==
    /\ Panel /\ phase = "NO_RESUME" /\ NewEpoch
    /\ phase' = "REVIEW" /\ source' = 0 /\ draft' = Filled(0)
    /\ UNCHANGED <<viewVars, flow, worldVars>>

EditSavedProfile ==
    /\ Panel /\ phase = "PROFILE" /\ NewEpoch
    /\ phase' = "REVIEW" /\ source' = 0 /\ draft' = Filled(0)
    /\ UNCHANGED <<viewVars, flow, worldVars>>

Edit ==
    /\ Reviewing /\ ~draft.edited /\ draft' = [draft EXCEPT !.edited = TRUE]
    /\ UNCHANGED <<epoch, viewVars, phase, source, flow, worldVars>>

CancelReview ==
    LET t == IF source # 0 THEN source ELSE shownTask IN
    /\ Reviewing /\ NewEpoch
    /\ \/ t # 0 /\ (\E f \in Flows : Begin(f, "cancel", epoch', t)) /\ UNCHANGED <<viewVars, reviewVars, worldVars>>
       \/ t = 0 /\ CancelDone(hasProfile) /\ UNCHANGED flow

ConfirmSave ==
    /\ Reviewing /\ ~inConflict /\ known /\ saving' = TRUE
    /\ \E f \in Flows : Begin(f, "save", epoch, source)
    /\ UNCHANGED <<epoch, preparing, file, hasProfile, known, loadError, inConflict, shownTask, reviewVars, worldVars>>

\* While a key is pending (SaveClient)
CheckSaveStatus ==
    /\ phase # "LOADING" /\ ~saving /\ ~inConflict /\ saving' = TRUE
    /\ \E f \in Flows : Begin(f, "check", epoch, 0)
    /\ UNCHANGED <<epoch, preparing, file, hasProfile, known, loadError, inConflict, shownTask, reviewVars, worldVars>>

\* faulty variant: the draft is replaced and its source is kept
KeepsSource == source' = source

ForgetsSource == source' = 0

\* KEEP_DRAFT, or USE_CURRENT with the conflict's profile, if there is one
ResolveConflict ==
    /\ phase = "REVIEW" /\ inConflict /\ ~saving
    /\ hasProfile' \in BOOLEAN /\ known' = TRUE /\ inConflict' = FALSE
    /\ ForgetsSource
    /\ \/ UNCHANGED draft
       \/ draft' = Filled(0)
    /\ UNCHANGED <<epoch, preparing, saving, file, loadError, shownTask, phase, flow, worldVars>>

DeleteProfile ==
    /\ Panel /\ phase = "PROFILE" /\ saving' = TRUE
    /\ \E f \in Flows : Begin(f, "delete", epoch, 0)
    /\ UNCHANGED <<epoch, preparing, file, hasProfile, known, loadError, inConflict, shownTask, reviewVars, worldVars>>

StudentActs ==
    \/ Reload \/ ChooseFile \/ Prepare \/ StartManualEntry \/ EditSavedProfile \/ Edit \/ CancelReview
    \/ ConfirmSave \/ CheckSaveStatus \/ ResolveConflict \/ DeleteProfile

\* What the page does by itself
Background(f) ==
    \/ ReloadArrives(f) \/ ReloadFails(f) \/ PrepareArrives(f)
    \/ MonitorWakes(f) \/ MonitorFails(f) \/ MonitorArrives(f) \/ TooLate(f)

WorkspaceNext ==
    \/ Serve \/ StudentActs
    \/ \E f \in Flows : Background(f) \/ CancelArrives(f) \/ SaveArrives(f) \/ DeleteArrives(f)

WorkspaceSpec == WorkspaceInit /\ [][WorkspaceNext]_workspaceVars

-----------------------------------------------------------------------------
(* Properties *)

\* The draft under review is the student's: a late answer about an earlier upload or an
\* earlier load of the page neither replaces it nor takes it away.
ReviewIsTheStudents ==
    [][phase = "REVIEW" /\ (\E f \in Flows : Background(f)) => UNCHANGED reviewVars]_workspaceVars

SourceAgrees ==
    /\ source # 0 => draft.by = source
    /\ \A f \in Flows : flow[f].fn = "save" /\ Current(f) /\ flow[f].task # 0 /\ phase = "REVIEW" =>
          draft.by = flow[f].task

\* A draft sent back for review after the workspace has moved on
LateReview == \E f \in Flows : ~Current(f) /\ Ans(f) = "review" /\ SaveArrives(f)

\* The extraction a save names is the one its draft came from, through every reload,
\* conflict, cancellation and deletion.  Only a draft the server sends back for review,
\* which confirmSave shows whatever was loaded meanwhile, may part them.
SourceOfDraft == [][SourceAgrees /\ ~LateReview => SourceAgrees']_workspaceVars
=============================================================================
