-------------------------------- MODULE MCSave --------------------------------
(* The save endpoint with the workspace and other tabs, or with clients that may *)
(* use any key for anything.                                                     *)
EXTENDS SaveClient, TLC

VARIABLE clients        \* who sends the requests: "workspace" | "any"

MCInit ==
    /\ Init
    /\ \/ clients = "workspace"
       \/ clients = "any" /\ draft = CHOOSE c \in Contents : TRUE

MCNext ==
    /\ \/ clients = "workspace" /\ Next
       \/ clients = "any" /\ SaveNext /\ UNCHANGED clientVars
    /\ UNCHANGED clients

MCSpec == MCInit /\ [][MCNext]_<<vars, clients>>

\* The profile a save of the workspace replaces is the one the workspace displays, however
\* late the request arrives and whatever other tabs do: nothing is overwritten unseen.
NoBlindOverwrite == [][clients = "workspace" => ReplacesWhatIsShown]_<<vars, clients>>

RequestSymmetry == Permutations(Reqs) \cup Permutations(Keys) \cup Permutations(Contents \ Dirty)
=============================================================================
