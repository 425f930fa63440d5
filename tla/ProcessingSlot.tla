---------------------------- MODULE ProcessingSlot ----------------------------
(***************************************************************************)
(* app/processing/slot.py: one slot, admitted without waiting, and one     *)
(* child process (worker.py) that does the work of whoever holds the slot. *)
(*                                                                         *)
(* A client is a route (it acquires, and releases in its finally block,    *)
(* which a disconnect may reach at any time) and a thread that runs the    *)
(* operation.  Beside the clients there are the background respawn thread  *)
(* and the owner that starts and stops the service, each once.             *)
(*                                                                         *)
(* Every step is what one thread does under one lock (_lock or the mutex   *)
(* of a lease) or one call on the child.  An operation may hang: only the  *)
(* deadline ends it.                                                       *)
(***************************************************************************)
EXTENDS Integers, FiniteSets

CONSTANTS
    Clients,            \* requests that want the slot
    MaxChildren,        \* bound: child processes that are referred to at a time
    RespawnAttempts     \* RESPAWN_ATTEMPTS

ASSUME SlotAssumption ==
    /\ MaxChildren \in Nat
    /\ RespawnAttempts \in Nat

VARIABLES
    state,      \* _state
    proc,       \* _proc and _conn, 0 for None
    child,      \* child[k]: the processes
    slot,       \* _slot is taken
    lease,      \* lease[c]: the fields of the client's Lease
    pc,         \* pc[c]: where the client's thread is
    mine,       \* mine[c]: the child its _call or _terminate_and_recover has read, or 0
    rs,         \* where the respawn thread is; "none" when it is not alive
    rsChild,    \* the child it is starting, or 0
    tries,      \* attempts it has made
    owner,      \* where the owner is: "new" .. "stopped"
    ownChild    \* the child that start is starting or stop is killing, or 0

clientVars == <<slot, lease, pc, mine>>
respawnVars == <<rs, rsChild, tries>>
ownerVars == <<owner, ownChild>>
vars == <<state, proc, child, clientVars, respawnVars, ownerVars>>

Children == 1 .. MaxChildren
AliveStates == {"loading", "idle", "busy", "replied"}
Alive(k) == k # 0 /\ child[k] \in AliveStates

NoLease == [running |-> FALSE, asked |-> FALSE, freed |-> FALSE]

Init ==
    /\ state = "STOPPED" /\ proc = 0 /\ child = [k \in Children |-> "dead"]
    /\ slot = FALSE
    /\ lease = [c \in Clients |-> NoLease]
    /\ pc = [c \in Clients |-> "idle"]
    /\ mine = [c \in Clients |-> 0]
    /\ rs = "none" /\ rsChild = 0 /\ tries = 0
    /\ owner = "new" /\ ownChild = 0

TypeOK ==
    /\ state \in {"STOPPED", "STARTING", "READY", "RECOVERING", "FAILED"}
    /\ proc \in Children \cup {0}
    /\ child \in [Children -> AliveStates \cup {"dead"}]
    /\ slot \in BOOLEAN
    /\ lease \in [Clients -> [running : BOOLEAN, asked : BOOLEAN, freed : BOOLEAN]]
    /\ pc \in [Clients -> {"idle", "admit", "leased", "call", "send", "wait", "recover",
                           "kill", "respawn", "begin", "finish", "done"}]
    /\ mine \in [Clients -> Children \cup {0}]
    /\ rs \in {"none", "check", "start", "spawn", "install", "exit"}
    /\ rsChild \in Children \cup {0} /\ tries \in 0 .. RespawnAttempts
    /\ owner \in {"new", "starting", "serving", "stopping", "stopped"}
    /\ ownChild \in Children \cup {0}

Goto(c, l) == pc' = [pc EXCEPT ![c] = l]

\* Process identities are reused once nobody refers to them; a new child takes the first.
Free(k) == child[k] = "dead" /\ k \notin {proc, rsChild, ownChild} \cup {mine[c] : c \in Clients}

Spawned(k) ==
    /\ Free(k) /\ \A j \in Children : j < k => ~Free(j)
    /\ child' = [child EXCEPT ![k] = "loading"]

Dead(k) == [child EXCEPT ![k] = "dead"]

\* faulty variant: the child is not terminated
KillNobody(k) == UNCHANGED child

\* _kill: terminate and join; None is nobody
Kill(k) == child' = IF k = 0 THEN child ELSE Dead(k)

-----------------------------------------------------------------------------
(* try_acquire *)

\* _begin_respawn: a thread that is still alive is left to it.
BeginRespawn ==
    /\ rs' = IF rs = "none" THEN "check" ELSE rs
    /\ tries' = IF rs = "none" THEN 0 ELSE tries
    /\ UNCHANGED rsChild

Acquire(c) ==
    /\ pc[c] = "idle" /\ ~slot
    /\ slot' = TRUE
    /\ Goto(c, "admit")
    /\ UNCHANGED <<state, proc, child, lease, mine, respawnVars, ownerVars>>

Admit(c) ==
    /\ pc[c] = "admit"
    /\ state = "READY" /\ Alive(proc)
    /\ lease' = [lease EXCEPT ![c] = NoLease]
    /\ Goto(c, "leased")
    /\ UNCHANGED <<state, proc, child, slot, mine, respawnVars, ownerVars>>

\* The child died while idle, or the service is not ready: no lease, the slot is free again.
Refuse(c) ==
    /\ pc[c] = "admit"
    /\ \/ /\ state = "READY" /\ ~Alive(proc)
          /\ state' = "RECOVERING" /\ proc' = 0
          /\ BeginRespawn
       \/ /\ state # "READY"
          /\ UNCHANGED <<state, proc, respawnVars>>
    /\ slot' = FALSE
    /\ Goto(c, "idle")
    /\ UNCHANGED <<child, lease, mine, ownerVars>>

-----------------------------------------------------------------------------
(* Lease.run and _call *)

Run(c) ==
    /\ pc[c] = "leased"
    /\ IF lease[c].freed
       THEN Goto(c, "done") /\ UNCHANGED lease
       ELSE Goto(c, "call") /\ lease' = [lease EXCEPT ![c].running = TRUE]
    /\ UNCHANGED <<state, proc, child, slot, mine, respawnVars, ownerVars>>

Call(c) ==
    /\ pc[c] = "call"
    /\ IF state = "READY" /\ Alive(proc)
       THEN Goto(c, "send") /\ mine' = [mine EXCEPT ![c] = proc]
       ELSE Goto(c, "recover") /\ UNCHANGED mine
    /\ UNCHANGED <<state, proc, child, slot, lease, respawnVars, ownerVars>>

Send(c) ==
    /\ pc[c] = "send"
    /\ \/ /\ child[mine[c]] = "idle"
          /\ child' = [child EXCEPT ![mine[c]] = "busy"]
          /\ Goto(c, "wait")
       \/ /\ child[mine[c]] = "dead"
          /\ UNCHANGED child
          /\ Goto(c, "recover")
    /\ UNCHANGED <<state, proc, slot, lease, mine, respawnVars, ownerVars>>

Answered(c) ==
    /\ pc[c] = "wait" /\ child[mine[c]] = "replied"
    /\ child' = [child EXCEPT ![mine[c]] = "idle"]
    /\ Goto(c, "finish")
    /\ UNCHANGED <<state, proc, slot, lease, mine, respawnVars, ownerVars>>

\* faulty variant: there is no deadline
GiveUpOnDeath(c) ==
    /\ pc[c] = "wait" /\ child[mine[c]] = "dead"
    /\ Goto(c, "recover")
    /\ UNCHANGED <<state, proc, child, slot, lease, mine, respawnVars, ownerVars>>

\* The deadline, at which a reply may just be arriving, or the child's death.
GiveUp(c) ==
    /\ pc[c] = "wait"
    /\ Goto(c, "recover")
    /\ UNCHANGED <<state, proc, child, slot, lease, mine, respawnVars, ownerVars>>

-----------------------------------------------------------------------------
(* _terminate_and_recover, by the holder of the slot *)

MarkRecovering(c) ==
    /\ pc[c] = "recover"
    /\ mine' = [mine EXCEPT ![c] = proc]
    /\ proc' = 0
    /\ state' = IF state = "STOPPED" THEN state ELSE "RECOVERING"
    /\ Goto(c, "kill")
    /\ UNCHANGED <<child, slot, lease, respawnVars, ownerVars>>

KillChild(c) ==
    /\ pc[c] = "kill"
    /\ Kill(mine[c])
    /\ mine' = [mine EXCEPT ![c] = 0]
    /\ Goto(c, "respawn")
    /\ UNCHANGED <<state, proc, slot, lease, respawnVars, ownerVars>>

StillRecovering(c) ==
    /\ pc[c] = "respawn"
    /\ Goto(c, IF state = "RECOVERING" THEN "begin" ELSE "finish")
    /\ UNCHANGED <<state, proc, child, slot, lease, mine, respawnVars, ownerVars>>

Respawn(c) ==
    /\ pc[c] = "begin"
    /\ BeginRespawn
    /\ Goto(c, "finish")
    /\ UNCHANGED <<state, proc, child, slot, lease, mine, ownerVars>>

-----------------------------------------------------------------------------
(* The end of Lease.run, and Lease.release *)

Finish(c) ==
    /\ pc[c] = "finish"
    /\ IF lease[c].asked
       THEN /\ lease' = [lease EXCEPT ![c].running = FALSE, ![c].freed = TRUE]
            /\ slot' = FALSE
       ELSE /\ lease' = [lease EXCEPT ![c].running = FALSE]
            /\ UNCHANGED slot
    /\ mine' = [mine EXCEPT ![c] = 0]
    /\ Goto(c, "done")
    /\ UNCHANGED <<state, proc, child, respawnVars, ownerVars>>

Leased(c) == pc[c] \notin {"idle", "admit"}

\* faulty variants: a second release counts; a running operation is no obstacle
ReleasableTwice(c) == Leased(c) /\ ~lease[c].asked
NeverDeferred(c) == FALSE

Releasable(c) == Leased(c) /\ ~lease[c].freed /\ ~lease[c].asked

Deferred(c) == lease[c].running

\* The route's finally block, after the result or because the client disconnected.
Release(c) ==
    /\ Releasable(c)
    /\ IF Deferred(c)
       THEN lease' = [lease EXCEPT ![c].asked = TRUE] /\ UNCHANGED slot
       ELSE lease' = [lease EXCEPT ![c].freed = TRUE] /\ slot' = FALSE
    /\ UNCHANGED <<state, proc, child, pc, mine, respawnVars, ownerVars>>

\* Both the route and the thread are done with the lease.
Depart(c) ==
    /\ pc[c] = "done" /\ lease[c].freed
    /\ lease' = [lease EXCEPT ![c] = NoLease]
    /\ Goto(c, "idle")
    /\ UNCHANGED <<state, proc, child, slot, mine, respawnVars, ownerVars>>

-----------------------------------------------------------------------------
(* _respawn_loop and _spawn *)

MoreTries == tries < RespawnAttempts

\* The decision is taken under _lock, the process is started without it: a stop may come between.
RespawnTry ==
    /\ rs = "check" /\ state # "STOPPED" /\ MoreTries
    /\ rs' = "start"
    /\ UNCHANGED <<state, proc, child, clientVars, rsChild, tries, ownerVars>>

RespawnSpawn ==
    /\ rs = "start"
    /\ \E k \in Children : Spawned(k) /\ rsChild' = k
    /\ rs' = "spawn"
    /\ UNCHANGED <<state, proc, clientVars, tries, ownerVars>>

RespawnEnds ==
    /\ rs = "check"
    /\ \/ state = "STOPPED" /\ UNCHANGED state
       \/ state # "STOPPED" /\ ~MoreTries /\ state' = "FAILED"
    /\ rs' = "exit"
    /\ UNCHANGED <<proc, child, clientVars, rsChild, tries, ownerVars>>

RespawnLoaded ==
    /\ rs = "spawn" /\ child[rsChild] = "loading"
    /\ child' = [child EXCEPT ![rsChild] = "idle"]
    /\ rs' = "install"
    /\ UNCHANGED <<state, proc, clientVars, rsChild, tries, ownerVars>>

\* The child exits or does not get ready in time: killed, then tried again after a pause.
RespawnFails ==
    /\ rs = "spawn"
    /\ child' = Dead(rsChild)
    /\ rs' = "check" /\ rsChild' = 0 /\ tries' = tries + 1
    /\ UNCHANGED <<state, proc, clientVars, ownerVars>>

\* faulty variant: nobody looks whether the service was stopped while the child was loading
NeverStopped == FALSE

StoppedMeanwhile == state = "STOPPED"

RespawnInstall ==
    /\ rs = "install"
    /\ IF StoppedMeanwhile
       THEN child' = Dead(rsChild) /\ UNCHANGED <<state, proc>>
       ELSE proc' = rsChild /\ state' = "READY" /\ UNCHANGED child
    /\ rs' = "exit" /\ rsChild' = 0
    /\ UNCHANGED <<clientVars, tries, ownerVars>>

\* The thread logs, returns and only then is no longer alive.
RespawnExit ==
    /\ rs = "exit"
    /\ rs' = "none" /\ tries' = 0
    /\ UNCHANGED <<state, proc, child, clientVars, rsChild, ownerVars>>

-----------------------------------------------------------------------------
(* start and stop *)

Start ==
    /\ owner = "new"
    /\ state' = "STARTING"
    /\ \E k \in Children : Spawned(k) /\ ownChild' = k
    /\ owner' = "starting"
    /\ UNCHANGED <<proc, clientVars, respawnVars>>

StartEnds ==
    /\ owner = "starting"
    /\ \/ /\ child[ownChild] = "loading"
          /\ child' = [child EXCEPT ![ownChild] = "idle"]
          /\ proc' = ownChild /\ state' = "READY"
       \/ /\ child' = Dead(ownChild)
          /\ state' = "FAILED" /\ UNCHANGED proc
    /\ owner' = "serving" /\ ownChild' = 0
    /\ UNCHANGED <<clientVars, respawnVars>>

Stop ==
    /\ owner = "serving"
    /\ state' = "STOPPED" /\ proc' = 0 /\ ownChild' = proc
    /\ owner' = "stopping"
    /\ UNCHANGED <<child, clientVars, respawnVars>>

StopEnds ==
    /\ owner = "stopping"
    /\ Kill(ownChild)
    /\ owner' = "stopped" /\ ownChild' = 0
    /\ UNCHANGED <<state, proc, clientVars, respawnVars>>

-----------------------------------------------------------------------------
(* The child: serve, and production_main *)

Replies(k) ==
    /\ child[k] = "busy"
    /\ child' = [child EXCEPT ![k] = "replied"]
    /\ UNCHANGED <<state, proc, clientVars, respawnVars, ownerVars>>

Dies(k) ==
    /\ Alive(k)
    /\ child' = Dead(k)
    /\ UNCHANGED <<state, proc, clientVars, respawnVars, ownerVars>>

-----------------------------------------------------------------------------
(* The system *)

ThreadStep(c) ==
    \/ Admit(c) \/ Refuse(c)
    \/ Run(c) \/ Call(c) \/ Send(c) \/ Answered(c) \/ GiveUp(c)
    \/ MarkRecovering(c) \/ KillChild(c) \/ StillRecovering(c) \/ Respawn(c)
    \/ Finish(c) \/ Depart(c)

RespawnStep ==
    \/ RespawnTry \/ RespawnEnds \/ RespawnSpawn \/ RespawnLoaded \/ RespawnFails
    \/ RespawnInstall \/ RespawnExit

OwnerStep == Start \/ StartEnds \/ Stop \/ StopEnds

Next ==
    \/ \E c \in Clients : Acquire(c) \/ ThreadStep(c) \/ Release(c)
    \/ RespawnStep \/ OwnerStep
    \/ \E k \in Children : Replies(k) \/ Dies(k)

Spec == Init /\ [][Next]_vars

\* Threads run, a route reaches its finally block, start and a begun stop return.  No
\* client has to come, and a child has neither to answer nor to die.
Fairness ==
    /\ \A c \in Clients : WF_vars(ThreadStep(c)) /\ WF_vars(Release(c))
    /\ WF_vars(RespawnStep) /\ WF_vars(StartEnds) /\ WF_vars(StopEnds)

FairSpec == Spec /\ Fairness

-----------------------------------------------------------------------------
(* Properties *)

\* The client that has taken the slot and not given it back
Holds(c) == pc[c] = "admit" \/ (Leased(c) /\ ~lease[c].freed)

\* One client at a time has the slot, and it is never lost: a disconnect during an
\* operation, a timeout or a refused admission neither frees it twice nor keeps it.
SlotExclusive ==
    /\ \A c, d \in Clients : Holds(c) /\ Holds(d) => c = d
    /\ slot <=> \E c \in Clients : Holds(c)

\* Until stop, the child works only for the holder of the slot: whatever became of the
\* request, its operation is answered or its child is dead before the slot can go to
\* another client.
WorkUnderSlot ==
    \A k \in Children :
        state # "STOPPED" /\ child[k] \in {"busy", "replied"} =>
            \E c \in Clients :
                /\ Holds(c) /\ lease[c].running
                /\ pc[c] \in {"wait", "recover", "kill"}

\* There is never a second child beside the first, with a second copy of the models.
OneChild == \A j, k \in Children : Alive(j) /\ Alive(k) => j = k

\* Nobody keeps the slot for ever, even if the operation hangs and the client is gone.
SlotFreed == slot ~> ~slot

\* Once stop has returned there is, from some time on, no child any more.  A replacement
\* that was loading, or that the respawn thread had decided on and starts only after the
\* stop, may outlive the return of stop, but not its own start.
StopIsFinal == (owner = "stopped") ~> [](\A k \in Children : ~Alive(k))

\* "a fresh child is recreated in the background": recovery ends, in READY or in FAILED.
RecoveryEnds == (state = "RECOVERING") ~> (state # "RECOVERING")
=============================================================================
