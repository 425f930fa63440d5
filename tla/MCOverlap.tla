------------------------------ MODULE MCOverlap ------------------------------
(* Things that overlap, one kind of them at a time: requests of a session, async *)
(* functions of the resume page, transactions on the rows of one owner.          *)
EXTENDS Sessions, ResumeWorkspace, RowLocks, TLC

VARIABLE part       \* "sessions" | "page" | "rows"

allVars == <<part, sessionVars, workspaceVars, lockVars>>

\* A part that does not run starts in one way.
PageStarts == WorkspaceInit /\ (part # "page" => onServer /\ flow[CHOOSE f \in Flows : TRUE] # NoFlow)
RowsStart == LockInit /\ (part # "rows" => stored = [t \in OwnedTasks |-> "absent"])

MCInit == part \in {"sessions", "page", "rows"} /\ SessionInit /\ PageStarts /\ RowsStart

MCNext ==
    \/ part = "sessions" /\ SessionNext /\ UNCHANGED <<part, workspaceVars, lockVars>>
    \/ part = "page" /\ WorkspaceNext /\ UNCHANGED <<part, sessionVars, lockVars>>
    \/ part = "rows" /\ LockNext /\ UNCHANGED <<part, sessionVars, workspaceVars>>

MCSpec == MCInit /\ [][MCNext]_allVars

OverlapSymmetry == Permutations(Tokens) \cup Permutations(Reqs)
=============================================================================
