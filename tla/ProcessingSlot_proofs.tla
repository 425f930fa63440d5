------------------------ MODULE ProcessingSlot_proofs ------------------------
(***************************************************************************)
(* The slot of ProcessingSlot is exclusive, for any number of clients.     *)
(*                                                                         *)
(* SlotExclusive is not inductive: a release frees the slot when the lease *)
(* says that nothing runs, and the end of an operation frees it when the   *)
(* lease says that a release was asked for.  LeaseTracksThread ties these  *)
(* flags to where the client's thread is.                                  *)
(*                                                                         *)
(* What the children do under the slot needs more: ServiceInv says what    *)
(* the owner thread, a respawn and each client in an operation know of the *)
(* service's state and its child, so that at most one child lives and it   *)
(* works only while the slot is taken.                                     *)
(***************************************************************************)
EXTENDS ProcessingSlot, TLAPS

Operating == {"call", "send", "wait", "recover", "kill", "respawn", "begin", "finish"}

PcLabels == {"idle", "admit", "leased", "done"} \cup Operating

\* The parts of the type invariant that the argument needs
ClientTypes ==
    /\ slot \in BOOLEAN
    /\ lease \in [Clients -> [running : BOOLEAN, asked : BOOLEAN, freed : BOOLEAN]]
    /\ pc \in [Clients -> PcLabels]

\* "running" is set exactly while the thread is in an operation, and the slot is not
\* given back during one.
LeaseTracksThread ==
    \A c \in Clients :
        /\ pc[c] \in Operating <=> pc[c] # "idle" /\ pc[c] # "admit" /\ lease[c].running
        /\ pc[c] \in Operating => ~lease[c].freed

SlotInv == ClientTypes /\ LeaseTracksThread /\ SlotExclusive

\* The steps of one client that keep the slot and its lease and only move the thread on
\* inside an operation.
LEMMA MovesOn ==
    ASSUME SlotInv, NEW c \in Clients, NEW l \in Operating,
           pc[c] \in Operating, Goto(c, l), UNCHANGED <<slot, lease>>
    PROVE  SlotInv'
  <1> USE DEF SlotInv, ClientTypes, Goto, Operating, PcLabels
  <1>1. ClientTypes'
    OBVIOUS
  <1>2. LeaseTracksThread'
    BY DEF LeaseTracksThread
  <1>3. \A d \in Clients : Holds(d)' <=> Holds(d)
    BY DEF Holds, Leased
  <1>4. SlotExclusive'
    BY <1>3 DEF SlotExclusive
  <1> QED
    BY <1>1, <1>2, <1>4

\* Steps of the child, of the respawn thread and of the owner do not touch clients.
LEMMA OthersKeep ==
    ASSUME SlotInv, UNCHANGED clientVars
    PROVE  SlotInv'
  BY DEF SlotInv, ClientTypes, LeaseTracksThread, SlotExclusive, Holds, Leased, clientVars

\* Admission: the client that finds the slot free becomes its only holder, and keeps it
\* as a lease or gives it back.
LEMMA AdmissionKeeps ==
    ASSUME SlotInv, NEW c \in Clients, Acquire(c) \/ Admit(c) \/ Refuse(c)
    PROVE  SlotInv'
  <1> USE DEF SlotInv, ClientTypes, Goto, Operating, PcLabels, NoLease
  <1>1. CASE Acquire(c)
    <2>1. ClientTypes' /\ LeaseTracksThread'
      BY <1>1 DEF Acquire, LeaseTracksThread
    <2>2. \A d \in Clients : ~Holds(d)
      BY <1>1 DEF Acquire, SlotExclusive
    <2>3. \A d \in Clients : Holds(d)' <=> d = c
      BY <1>1, <2>2 DEF Acquire, Holds, Leased
    <2> QED
      BY <1>1, <2>1, <2>3 DEF Acquire, SlotExclusive
  <1>2. CASE Admit(c)
    <2>1. ClientTypes' /\ LeaseTracksThread'
      BY <1>2 DEF Admit, LeaseTracksThread
    <2>2. \A d \in Clients : Holds(d)' <=> Holds(d)
      BY <1>2 DEF Admit, Holds, Leased
    <2> QED
      BY <1>2, <2>1, <2>2 DEF Admit, SlotExclusive
  <1>3. CASE Refuse(c)
    <2>1. ClientTypes' /\ LeaseTracksThread'
      BY <1>3 DEF Refuse, LeaseTracksThread
    <2>2. Holds(c)
      BY <1>3 DEF Refuse, Holds
    <2>3. \A d \in Clients : ~Holds(d)'
      BY <1>3, <2>2 DEF Refuse, Holds, Leased, SlotExclusive
    <2> QED
      BY <1>3, <2>1, <2>3 DEF Refuse, SlotExclusive
  <1> QED
    BY <1>1, <1>2, <1>3

\* The two ends of a lease: the slot is given back once, by the route or by the thread.
LEMMA EndsKeep ==
    ASSUME SlotInv, NEW c \in Clients, Run(c) \/ Finish(c) \/ Release(c) \/ Depart(c)
    PROVE  SlotInv'
  <1> USE DEF SlotInv, ClientTypes, Goto, Operating, PcLabels, NoLease
  <1>1. CASE Run(c)
    <2>1. ClientTypes' /\ LeaseTracksThread'
      <3>1. CASE lease[c].freed
        BY <1>1, <3>1 DEF Run, LeaseTracksThread
      <3>2. CASE ~lease[c].freed
        <4>1. lease' = [lease EXCEPT ![c].running = TRUE] /\ slot' = slot /\ Goto(c, "call")
          BY <1>1, <3>2 DEF Run
        <4>2. ClientTypes'
          BY <4>1
        <4>3. lease'[c].running /\ ~lease'[c].freed
          BY <3>2, <4>1
        <4> QED
          BY <4>1, <4>2, <4>3 DEF LeaseTracksThread
      <3> QED
        BY <3>1, <3>2
    <2>2. \A d \in Clients : Holds(d)' <=> Holds(d)
      BY <1>1 DEF Run, Holds, Leased
    <2> QED
      BY <1>1, <2>1, <2>2 DEF Run, SlotExclusive
  <1>2. CASE Finish(c)
    <2>1. ClientTypes' /\ LeaseTracksThread'
      <3>1. PICK f \in BOOLEAN :
               lease' = [lease EXCEPT ![c] = [running |-> FALSE, asked |-> lease[c].asked, freed |-> f]]
        BY <1>2 DEF Finish
      <3>2. ClientTypes'
        BY <1>2, <3>1 DEF Finish
      <3>3. ~lease'[c].running /\ pc'[c] = "done"
        BY <1>2, <3>1 DEF Finish
      <3> QED
        BY <1>2, <3>1, <3>2, <3>3 DEF Finish, LeaseTracksThread
    <2>2. Holds(c)
      BY <1>2 DEF Finish, Holds, Leased, LeaseTracksThread
    <2>3. CASE lease[c].asked
      <3>1. \A d \in Clients : ~Holds(d)'
        BY <1>2, <2>2, <2>3 DEF Finish, Holds, Leased, SlotExclusive
      <3> QED
        BY <1>2, <2>1, <2>3, <3>1 DEF Finish, SlotExclusive
    <2>4. CASE ~lease[c].asked
      <3>1. \A d \in Clients : Holds(d)' <=> Holds(d)
        BY <1>2, <2>2, <2>4 DEF Finish, Holds, Leased
      <3> QED
        BY <1>2, <2>1, <2>4, <3>1 DEF Finish, SlotExclusive
    <2> QED
      BY <2>3, <2>4
  <1>3. CASE Release(c)
    <2> USE <1>3 DEF Release, Releasable, Deferred
    <2>1. ClientTypes' /\ LeaseTracksThread'
      <3>1. CASE lease[c].running
        <4>1. lease' = [lease EXCEPT ![c].asked = TRUE] /\ slot' = slot /\ pc' = pc
          BY <3>1
        <4>2. ClientTypes'
          BY <4>1
        <4>3. \A d \in Clients :
                 lease'[d].running = lease[d].running /\ lease'[d].freed = lease[d].freed
          BY <4>1
        <4> QED
          BY <4>1, <4>2, <4>3 DEF LeaseTracksThread
      <3>2. CASE ~lease[c].running
        <4>1. lease' = [lease EXCEPT ![c].freed = TRUE] /\ slot' = FALSE /\ pc' = pc
          BY <3>2
        <4>2. ClientTypes'
          BY <4>1
        <4>3. \A d \in Clients :
                 /\ lease'[d].running = lease[d].running
                 /\ d # c => lease'[d].freed = lease[d].freed
          BY <4>1
        <4>4. pc[c] \notin Operating
          BY <3>2 DEF LeaseTracksThread
        <4> QED
          BY <4>1, <4>2, <4>3, <4>4 DEF LeaseTracksThread
      <3> QED
        BY <3>1, <3>2
    <2>2. Holds(c)
      BY DEF Holds
    <2>3. CASE lease[c].running
      <3>1. \A d \in Clients : Holds(d)' <=> Holds(d)
        BY <2>3 DEF Holds, Leased
      <3> QED
        BY <2>1, <2>3, <3>1 DEF SlotExclusive
    <2>4. CASE ~lease[c].running
      <3>1. \A d \in Clients : ~Holds(d)'
        BY <2>2, <2>4 DEF Holds, Leased, SlotExclusive
      <3> QED
        BY <2>1, <2>4, <3>1 DEF SlotExclusive
    <2> QED
      BY <2>3, <2>4
  <1>4. CASE Depart(c)
    <2>1. ClientTypes' /\ LeaseTracksThread'
      BY <1>4 DEF Depart, LeaseTracksThread
    <2>2. \A d \in Clients : Holds(d)' <=> Holds(d)
      BY <1>4 DEF Depart, Holds, Leased
    <2> QED
      BY <1>4, <2>1, <2>2 DEF Depart, SlotExclusive
  <1> QED
    BY <1>1, <1>2, <1>3, <1>4

\* Calls, answers, timeouts and the termination of the child leave slot and lease alone.
LEMMA OperationKeeps ==
    ASSUME SlotInv, NEW c \in Clients,
           \/ Call(c) \/ Send(c) \/ Answered(c) \/ GiveUp(c)
           \/ MarkRecovering(c) \/ KillChild(c) \/ StillRecovering(c) \/ Respawn(c)
    PROVE  SlotInv'
  <1>1. PICK l \in Operating : pc[c] \in Operating /\ Goto(c, l) /\ UNCHANGED <<slot, lease>>
    BY DEF Call, Send, Answered, GiveUp, MarkRecovering, KillChild, StillRecovering, Respawn,
           Goto, Operating
  <1> QED
    BY <1>1, MovesOn

\* SlotInv is an invariant of the service.
THEOREM SlotInvariant == Spec => []SlotInv
  <1>1. Init => SlotInv
    <2> SUFFICES ASSUME Init PROVE SlotInv
      OBVIOUS
    <2>1. ClientTypes
      BY DEF Init, ClientTypes, NoLease, Operating, PcLabels
    <2>2. \A c \in Clients : pc[c] = "idle" /\ ~Holds(c)
      BY DEF Init, Holds, Leased
    <2>3. LeaseTracksThread
      BY <2>2 DEF LeaseTracksThread, Operating
    <2>4. SlotExclusive
      BY <2>2 DEF SlotExclusive, Init
    <2> QED
      BY <2>1, <2>3, <2>4 DEF SlotInv
  <1>2. SlotInv /\ [Next]_vars => SlotInv'
    <2> SUFFICES ASSUME SlotInv, [Next]_vars PROVE SlotInv'
      OBVIOUS
    <2>1. ASSUME NEW c \in Clients, Acquire(c) \/ ThreadStep(c) \/ Release(c) PROVE SlotInv'
      BY <2>1, AdmissionKeeps, EndsKeep, OperationKeeps DEF ThreadStep
    <2>2. CASE RespawnStep
      <3>1. UNCHANGED clientVars
        BY <2>2 DEF RespawnStep, RespawnTry, RespawnEnds, RespawnSpawn, RespawnLoaded, RespawnFails,
                    RespawnInstall, RespawnExit, clientVars
      <3> QED
        BY <3>1, OthersKeep
    <2>3. CASE OwnerStep
      <3>1. UNCHANGED clientVars
        BY <2>3 DEF OwnerStep, Start, StartEnds, Stop, StopEnds, clientVars
      <3> QED
        BY <3>1, OthersKeep
    <2>4. ASSUME NEW k \in Children, Replies(k) \/ Dies(k) PROVE SlotInv'
      <3>1. UNCHANGED clientVars
        BY <2>4 DEF Replies, Dies, clientVars
      <3> QED
        BY <3>1, OthersKeep
    <2>5. CASE UNCHANGED vars
      <3>1. UNCHANGED clientVars
        BY <2>5 DEF vars, clientVars
      <3> QED
        BY <3>1, OthersKeep
    <2> QED
      BY <2>1, <2>2, <2>3, <2>4, <2>5 DEF Next
  <1> QED
    BY <1>1, <1>2, PTL DEF Spec

\* At most one client has the slot of ProcessingService, and the slot is taken exactly
\* while one has it, through disconnects, timeouts, crashes and stops.
THEOREM SlotIsExclusive == Spec => []SlotExclusive
  <1>1. SlotInv => SlotExclusive
    BY DEF SlotInv
  <1> QED
    BY <1>1, SlotInvariant, PTL

-----------------------------------------------------------------------------
(* The child.  OneChild and WorkUnderSlot need to know which variable a    *)
(* living child is known by, and that at most one of proc, rsChild,        *)
(* ownChild and the child a client is killing is set: that in turn depends *)
(* on which states the owner, the respawn thread and the holder of the     *)
(* slot leave the service in.                                              *)

\* The parts of the type invariant that speak of the service
ServiceTypes ==
    /\ state \in {"STOPPED", "STARTING", "READY", "RECOVERING", "FAILED"}
    /\ proc \in Children \cup {0} /\ rsChild \in Children \cup {0} /\ ownChild \in Children \cup {0}
    /\ child \in [Children -> AliveStates \cup {"dead"}]
    /\ mine \in [Clients -> Children \cup {0}]
    /\ rs \in {"none", "check", "start", "spawn", "install", "exit"} /\ tries \in 0 .. RespawnAttempts
    /\ owner \in {"new", "starting", "serving", "stopping", "stopped"}

\* What each owner's place says of the service
OwnerKnows ==
    /\ owner = "new" => state = "STOPPED" /\ rs = "none" /\ ownChild = 0
    /\ owner = "starting" => state = "STARTING" /\ rs = "none"
    /\ owner = "serving" => state \in {"READY", "RECOVERING", "FAILED"} /\ ownChild = 0
    /\ owner \in {"stopping", "stopped"} => state = "STOPPED"
    /\ owner = "stopped" => ownChild = 0

\* A replacement is made only while the service has no child.
RespawnKnows ==
    /\ state # "READY" => proc = 0
    /\ rs \in {"check", "start", "spawn", "install"} => state \in {"RECOVERING", "STOPPED"}
    /\ rsChild # 0 <=> rs \in {"spawn", "install"}
    /\ rs \in {"start", "spawn", "install"} => ownChild = 0 /\ tries < RespawnAttempts

\* A lease that has not been given back, before and after its operation lost the child
Serves(c) ==
    (pc[c] = "leased" /\ ~lease[c].freed) \/ pc[c] \in {"call", "send", "wait", "recover"}
Recovers(c) == pc[c] \in {"kill", "respawn", "begin"}

\* While a client has a lease, nobody else recovers the service.
ClientKnows(c) ==
    /\ Serves(c) => state \in {"READY", "STOPPED"}
    /\ Recovers(c) => state \in {"RECOVERING", "STOPPED"}
    /\ Serves(c) \/ Recovers(c) => rs \in {"none", "exit"} /\ owner \notin {"new", "starting"}
    /\ pc[c] \in {"send", "wait"} => mine[c] # 0 /\ (state = "READY" => mine[c] = proc)
    /\ pc[c] = "kill" /\ mine[c] # 0 => ownChild = 0

ClientsKnow == \A c \in Clients : ClientKnows(c)

\* Every living child is somebody's.
ChildKnown ==
    \A k \in Children : Alive(k) =>
        \/ k \in {proc, rsChild, ownChild}
        \/ \E c \in Clients : pc[c] = "kill" /\ mine[c] = k

\* A child that works has been given the work by a client that is not done with it.
WorkKnown ==
    \A k \in Children :
        state # "STOPPED" /\ child[k] \in {"busy", "replied"} =>
            \E c \in Clients : pc[c] \in {"wait", "recover", "kill"}

ServiceInv ==
    /\ ServiceTypes /\ OwnerKnows /\ RespawnKnows /\ ClientsKnow /\ ChildKnown /\ WorkKnown

\* One client at a time is in the middle of an admission or has a lease.
LEMMA OneServed ==
    ASSUME SlotInv, NEW c \in Clients, NEW d \in Clients,
           pc[c] = "admit" \/ Serves(c) \/ Recovers(c), Serves(d) \/ Recovers(d)
    PROVE  c = d
<1>1. Holds(c) /\ Holds(d)
  BY DEF SlotInv, LeaseTracksThread, Operating, Holds, Leased, Serves, Recovers
<1> QED
  BY <1>1 DEF SlotInv, SlotExclusive

\* A ready service knows every living child, and whoever recovers knows it otherwise.
LEMMA WhoseChild ==
    ASSUME SlotInv, ServiceInv, NEW k \in Children, Alive(k)
    PROVE  /\ state = "READY" => k = proc
           /\ rs \notin {"check", "start"} \/ (rs = "check" /\ state = "STOPPED")
           /\ rsChild # 0 => k = rsChild
           /\ \A c \in Clients : pc[c] = "kill" /\ state # "STOPPED" => k = mine[c]
           /\ owner \in {"new", "starting"} => k = ownChild
<1>1. \/ k \in {proc, rsChild, ownChild}
      \/ \E c \in Clients : pc[c] = "kill" /\ mine[c] = k
  BY DEF ServiceInv, ChildKnown
<1>2. k # 0
  BY DEF Children
<1>3. \A c \in Clients : pc[c] = "kill" => /\ state \in {"RECOVERING", "STOPPED"} /\ rs \in {"none", "exit"}
                                           /\ owner \notin {"new", "starting"}
  BY DEF ServiceInv, ClientsKnow, ClientKnows, Recovers
<1>4. state = "READY" => owner = "serving" /\ rs \in {"none", "exit"}
  BY DEF ServiceInv, OwnerKnows, RespawnKnows, ServiceTypes
<1>5. rs \in {"check", "start"} \/ rsChild # 0 => proc = 0 /\ (state # "STOPPED" => ownChild = 0)
  BY DEF ServiceInv, OwnerKnows, RespawnKnows, ServiceTypes
<1>6. rsChild # 0 \/ rs = "start" => ownChild = 0
  BY DEF ServiceInv, RespawnKnows
<1>7. rsChild # 0 <=> rs \in {"spawn", "install"}
  BY DEF ServiceInv, RespawnKnows
<1>8. \A c, d \in Clients : pc[c] = "kill" /\ pc[d] = "kill" => c = d
  BY OneServed DEF Recovers
<1>9. state # "READY" => proc = 0
  BY DEF ServiceInv, RespawnKnows
<1>10. owner \in {"new", "starting"} => rs = "none" /\ state # "READY"
  BY DEF ServiceInv, OwnerKnows
<1>11. state \in {"READY", "RECOVERING"} => ownChild = 0
  BY DEF ServiceInv, OwnerKnows, ServiceTypes
<1> QED
  BY <1>1, <1>2, <1>3, <1>4, <1>5, <1>6, <1>7, <1>8, <1>9, <1>10, <1>11

\* Two living children would be two of proc, rsChild, ownChild and a child being killed.
LEMMA OneLiving ==
    ASSUME SlotInv, ServiceInv
    PROVE  OneChild /\ WorkUnderSlot
<1>1. OneChild
  <2> SUFFICES ASSUME NEW j \in Children, NEW k \in Children, Alive(j), Alive(k) PROVE j = k
    BY DEF OneChild
  <2>1. /\ j \in {proc, rsChild, ownChild} \/ \E c \in Clients : pc[c] = "kill" /\ mine[c] = j
        /\ k \in {proc, rsChild, ownChild} \/ \E c \in Clients : pc[c] = "kill" /\ mine[c] = k
    BY DEF ServiceInv, ChildKnown
  <2>2. j # 0 /\ k # 0
    BY DEF Children
  <2>3. CASE state = "READY" \/ rsChild # 0
    BY <2>3, WhoseChild
  <2>4. CASE state # "READY" /\ rsChild = 0
    <3>1. proc = 0
      BY <2>4 DEF ServiceInv, RespawnKnows
    <3>2. \A c \in Clients : pc[c] = "kill" /\ mine[c] # 0 => ownChild = 0
      BY DEF ServiceInv, ClientsKnow, ClientKnows
    <3>3. \A c, d \in Clients : pc[c] = "kill" /\ pc[d] = "kill" => c = d
      BY OneServed DEF Recovers
    <3> QED
      BY <2>1, <2>2, <2>4, <3>1, <3>2, <3>3
  <2> QED
    BY <2>3, <2>4
<1>2. WorkUnderSlot
  <2> SUFFICES ASSUME NEW k \in Children, state # "STOPPED", child[k] \in {"busy", "replied"}
               PROVE  \E c \in Clients : /\ Holds(c) /\ lease[c].running
                                         /\ pc[c] \in {"wait", "recover", "kill"}
    BY DEF WorkUnderSlot
  <2>1. PICK c \in Clients : pc[c] \in {"wait", "recover", "kill"}
    BY DEF ServiceInv, WorkKnown
  <2>2. Holds(c) /\ lease[c].running
    BY <2>1 DEF SlotInv, LeaseTracksThread, Operating, Holds, Leased
  <2> QED
    BY <2>1, <2>2
<1> QED
  BY <1>1, <1>2

\* A client that moves on without touching the service keeps ServiceInv, if what it knows
\* still holds.
LEMMA ClientMoves ==
    ASSUME ServiceInv, NEW c \in Clients, UNCHANGED <<state, proc, child, respawnVars, ownerVars>>,
           mine' \in [Clients -> Children \cup {0}],
           \A d \in Clients : d # c => pc'[d] = pc[d] /\ lease'[d] = lease[d] /\ mine'[d] = mine[d],
           pc[c] # "kill", pc[c] \in {"wait", "recover"} => pc'[c] \in {"wait", "recover", "kill"},
           ClientKnows(c)'
    PROVE  ServiceInv'
<1> USE DEF respawnVars, ownerVars
<1>1. ServiceTypes' /\ OwnerKnows' /\ RespawnKnows'
  BY DEF ServiceInv, ServiceTypes, OwnerKnows, RespawnKnows
<1>2. ClientsKnow'
  <2>1. ASSUME NEW d \in Clients, d # c PROVE ClientKnows(d)'
    BY <2>1 DEF ServiceInv, ClientsKnow, ClientKnows, Serves, Recovers
  <2> QED
    BY <2>1 DEF ClientsKnow
<1>3. ChildKnown'
  BY DEF ServiceInv, ChildKnown, Alive
<1>4. WorkKnown'
  BY DEF ServiceInv, WorkKnown
<1> QED
  BY <1>1, <1>2, <1>3, <1>4 DEF ServiceInv

\* Admission, the calls, answers and timeouts and the two ends of a lease
LEMMA LeaseService ==
    ASSUME SlotInv, ServiceInv, NEW c \in Clients,
           \/ Acquire(c) \/ Admit(c) \/ Run(c) \/ Call(c) \/ GiveUp(c) \/ StillRecovering(c)
           \/ Finish(c) \/ Release(c) \/ Depart(c)
    PROVE  ServiceInv'
<1> USE DEF Goto
<1>0. /\ lease \in [Clients -> [running : BOOLEAN, asked : BOOLEAN, freed : BOOLEAN]]
      /\ pc \in [Clients -> PcLabels] /\ mine \in [Clients -> Children \cup {0}]
      /\ proc \in Children \cup {0} /\ ClientKnows(c)
  BY DEF SlotInv, ClientTypes, ServiceInv, ServiceTypes, ClientsKnow
<1>1. /\ UNCHANGED <<state, proc, child, respawnVars, ownerVars>>
      /\ mine' \in [Clients -> Children \cup {0}]
      /\ \A d \in Clients : d # c => pc'[d] = pc[d] /\ lease'[d] = lease[d] /\ mine'[d] = mine[d]
      /\ pc[c] # "kill" \/ UNCHANGED pc
      /\ pc[c] \in {"wait", "recover"} => pc'[c] \in {"wait", "recover", "kill"}
  BY <1>0 DEF Acquire, Admit, Run, Call, GiveUp, StillRecovering, Finish, Release, Depart, PcLabels
<1>2. ClientKnows(c)'
  <2> USE DEF ClientKnows, Serves, Recovers, respawnVars, ownerVars
  <2>1. CASE Acquire(c) \/ Finish(c) \/ Depart(c)
    BY <1>0, <2>1 DEF Acquire, Finish, Depart
  <2>2. CASE Admit(c)
    <3>1. rs \in {"none", "exit"} /\ owner \notin {"new", "starting"}
      BY <2>2 DEF Admit, ServiceInv, ServiceTypes, OwnerKnows, RespawnKnows
    <3> QED
      BY <1>0, <2>2, <3>1 DEF Admit
  <2>3. CASE Run(c)
    BY <1>0, <2>3 DEF Run
  <2>4. CASE Call(c)
    BY <1>0, <2>4 DEF Call, Alive
  <2>5. CASE GiveUp(c) \/ StillRecovering(c)
    BY <1>0, <2>5 DEF GiveUp, StillRecovering
  <2>6. CASE Release(c)
    <3>1. lease'[c].freed = FALSE => lease[c].freed = FALSE
      BY <1>0, <2>6 DEF Release, Deferred, Releasable
    <3> QED
      BY <1>0, <2>6, <3>1 DEF Release
  <2> QED
    BY <2>1, <2>2, <2>3, <2>4, <2>5, <2>6
<1>3. CASE pc[c] # "kill"
  BY <1>1, <1>2, <1>3, ClientMoves
<1>4. CASE pc[c] = "kill"
  <2>1. UNCHANGED pc /\ Release(c)
    BY <1>1, <1>4 DEF Acquire, Admit, Run, Call, GiveUp, StillRecovering, Finish, Release, Depart
  <2>2. ServiceTypes' /\ OwnerKnows' /\ RespawnKnows'
    BY <1>1 DEF ServiceInv, ServiceTypes, OwnerKnows, RespawnKnows, respawnVars, ownerVars
  <2>3. ClientsKnow'
    <3>1. ASSUME NEW d \in Clients, d # c PROVE ClientKnows(d)'
      BY <1>1, <2>1, <3>1 DEF ServiceInv, ClientsKnow, ClientKnows, Serves, Recovers, respawnVars, ownerVars
    <3> QED
      BY <1>2, <3>1 DEF ClientsKnow
  <2>4. ChildKnown' /\ WorkKnown'
    BY <1>1, <2>1 DEF ServiceInv, ChildKnown, Alive, WorkKnown, respawnVars, ownerVars, Release
  <2> QED
    BY <2>2, <2>3, <2>4 DEF ServiceInv
<1> QED
  BY <1>3, <1>4

\* Changing what one living child does: it stays alive or dies.
LEMMA ChildMoves ==
    ASSUME ServiceInv, NEW k \in Children, NEW to \in AliveStates \cup {"dead"},
           child[k] \in AliveStates, child' = [child EXCEPT ![k] = to],
           to \in {"busy", "replied"} => child[k] \in {"busy", "replied"} \/ state = "STOPPED"
                                         \/ \E c \in Clients : pc'[c] \in {"wait", "recover", "kill"},
           UNCHANGED <<state, proc, mine, respawnVars, ownerVars, lease>>,
           \A c \in Clients : \/ pc'[c] = pc[c]
                              \/ pc[c] = "send" /\ pc'[c] = "wait"
    PROVE  ServiceInv'
<1> USE DEF respawnVars, ownerVars
<1>1. ServiceTypes' /\ OwnerKnows' /\ RespawnKnows'
  BY DEF ServiceInv, ServiceTypes, OwnerKnows, RespawnKnows
<1>2. ClientsKnow'
  BY DEF ServiceInv, ClientsKnow, ClientKnows, Serves, Recovers
<1>3. child'[k] = to /\ \A j \in Children : j # k => child'[j] = child[j]
  BY DEF ServiceInv, ServiceTypes
<1>4. ChildKnown'
  <2>1. \A j \in Children : Alive(j)' => Alive(j)
    BY <1>3 DEF Alive
  <2> QED
    BY <2>1 DEF ServiceInv, ChildKnown
<1>5. WorkKnown'
  BY <1>3 DEF ServiceInv, WorkKnown
<1> QED
  BY <1>1, <1>2, <1>4, <1>5 DEF ServiceInv

\* The child replies, or dies.
LEMMA ChildService ==
    ASSUME ServiceInv, NEW k \in Children, Replies(k) \/ Dies(k)
    PROVE  ServiceInv'
<1>1. PICK to \in {"replied", "dead"} :
         /\ child[k] \in AliveStates /\ child' = [child EXCEPT ![k] = to]
         /\ to = "replied" => child[k] = "busy"
         /\ UNCHANGED <<state, proc, mine, respawnVars, ownerVars, lease, pc>>
  BY DEF Replies, Dies, Alive, Dead, AliveStates, clientVars
<1> QED
  BY <1>1, ChildMoves DEF AliveStates

\* A request is sent to the child, and its answer is read.
LEMMA CallService ==
    ASSUME SlotInv, ServiceInv, NEW c \in Clients, Send(c) \/ Answered(c)
    PROVE  ServiceInv'
<1>0. /\ pc \in [Clients -> PcLabels] /\ mine \in [Clients -> Children \cup {0}]
      /\ child \in [Children -> AliveStates \cup {"dead"}] /\ ClientKnows(c)
  BY DEF SlotInv, ClientTypes, ServiceInv, ServiceTypes, ClientsKnow
<1>1. PICK k : k = mine[c]
  OBVIOUS
<1>2. /\ k \in Children /\ pc[c] \in {"send", "wait"} /\ (state = "READY" => k = proc)
      /\ UNCHANGED <<state, proc, mine, respawnVars, ownerVars, lease>>
      /\ \A d \in Clients : d # c => pc'[d] = pc[d]
  BY <1>0, <1>1 DEF Send, Answered, ClientKnows, Goto
<1>3. CASE Send(c) /\ child[k] = "idle"
  <2>1. child' = [child EXCEPT ![k] = "busy"] /\ pc[c] = "send" /\ pc'[c] = "wait"
    BY <1>0, <1>1, <1>3 DEF Send, Goto
  <2> QED
    BY <1>2, <1>3, <2>1, ChildMoves DEF AliveStates
<1>4. CASE Send(c) /\ child[k] = "dead"
  <2>1. UNCHANGED child /\ pc'[c] = "recover" /\ pc[c] = "send" /\ mine' = mine
    BY <1>0, <1>1, <1>4 DEF Send, Goto
  <2>2. ClientKnows(c)'
    BY <1>0, <1>2, <2>1 DEF ClientKnows, Serves, Recovers, respawnVars, ownerVars
  <2> QED
    BY <1>0, <1>2, <2>1, <2>2, ClientMoves
<1>5. CASE Answered(c)
  <2>1. /\ child[k] = "replied" /\ child' = [child EXCEPT ![k] = "idle"] /\ pc'[c] = "finish"
        /\ pc[c] = "wait"
    BY <1>0, <1>1, <1>5 DEF Answered, Goto
  <2> USE DEF respawnVars, ownerVars
  <2>2. ServiceTypes' /\ OwnerKnows' /\ RespawnKnows'
    BY <1>2, <2>1 DEF ServiceInv, ServiceTypes, OwnerKnows, RespawnKnows, AliveStates
  <2>3. ClientsKnow'
    <3>1. ASSUME NEW d \in Clients, d # c PROVE ClientKnows(d)'
      BY <1>2, <3>1 DEF ServiceInv, ClientsKnow, ClientKnows, Serves, Recovers
    <3>2. ClientKnows(c)'
      BY <2>1 DEF ClientKnows, Serves, Recovers
    <3> QED
      BY <3>1, <3>2 DEF ClientsKnow
  <2>4. ChildKnown'
    <3>1. \A j \in Children : Alive(j)' => Alive(j)
      BY <1>0, <2>1 DEF Alive, AliveStates
    <3> QED
      BY <1>2, <2>1, <3>1 DEF ServiceInv, ChildKnown
  <2>5. WorkKnown'
    <3> SUFFICES ASSUME NEW j \in Children, state # "STOPPED", child'[j] \in {"busy", "replied"}
                 PROVE  FALSE
      BY <1>2 DEF WorkKnown
    <3>1. Alive(j) /\ Alive(k) /\ j # k
      BY <1>0, <1>2, <2>1 DEF Alive, AliveStates, Children
    <3> QED
      BY <1>2, <3>1, OneLiving DEF OneChild
  <2> QED
    BY <2>2, <2>3, <2>4, <2>5 DEF ServiceInv
<1> QED
  BY <1>1, <1>3, <1>4, <1>5 DEF Send

\* The holder of the slot takes the child away from the service and kills it.
LEMMA KillService ==
    ASSUME SlotInv, ServiceInv, NEW c \in Clients, MarkRecovering(c) \/ KillChild(c)
    PROVE  ServiceInv'
<1> USE DEF respawnVars, ownerVars
<1>0. /\ pc \in [Clients -> PcLabels] /\ mine \in [Clients -> Children \cup {0}]
      /\ child \in [Children -> AliveStates \cup {"dead"}] /\ ClientKnows(c)
      /\ proc \in Children \cup {0}
  BY DEF SlotInv, ClientTypes, ServiceInv, ServiceTypes, ClientsKnow
<1>1. CASE MarkRecovering(c)
  <2>1. /\ pc[c] = "recover" /\ pc'[c] = "kill" /\ mine'[c] = proc /\ proc' = 0
        /\ state' = (IF state = "STOPPED" THEN state ELSE "RECOVERING")
        /\ UNCHANGED <<child, slot, lease, respawnVars, ownerVars>>
        /\ \A d \in Clients : d # c => pc'[d] = pc[d] /\ mine'[d] = mine[d]
        /\ state \in {"READY", "STOPPED"} /\ rs \in {"none", "exit"} /\ owner \notin {"new", "starting"}
        /\ mine' \in [Clients -> Children \cup {0}]
    BY <1>0, <1>1 DEF MarkRecovering, Goto, ClientKnows, Serves
  <2>2. ServiceTypes' /\ OwnerKnows' /\ RespawnKnows'
    BY <2>1 DEF ServiceInv, ServiceTypes, OwnerKnows, RespawnKnows
  <2>3. ClientsKnow'
    <3>1. ASSUME NEW d \in Clients, d # c PROVE ClientKnows(d)'
      <4>1. ~Serves(d) /\ ~Recovers(d)
        BY <2>1, <3>1, OneServed DEF Serves
      <4> QED
        BY <2>1, <3>1, <4>1 DEF ClientKnows, Serves, Recovers
    <3>2. ClientKnows(c)'
      BY <2>1 DEF ClientKnows, Serves, Recovers, ServiceInv, OwnerKnows, RespawnKnows, ServiceTypes
    <3> QED
      BY <3>1, <3>2 DEF ClientsKnow
  <2>4. ChildKnown'
    <3> SUFFICES ASSUME NEW k \in Children, Alive(k)
                 PROVE  \/ k \in {proc', rsChild, ownChild}
                        \/ \E d \in Clients : pc'[d] = "kill" /\ mine'[d] = k
      BY <2>1 DEF ChildKnown, Alive
    <3>1. \/ k \in {proc, rsChild, ownChild}
          \/ \E d \in Clients : d # c /\ pc[d] = "kill" /\ mine[d] = k
      BY <2>1 DEF ServiceInv, ChildKnown
    <3> QED
      BY <2>1, <3>1
  <2>5. WorkKnown'
    BY <2>1 DEF WorkKnown
  <2> QED
    BY <2>2, <2>3, <2>4, <2>5 DEF ServiceInv
<1>2. CASE KillChild(c)
  <2>1. PICK k : k = mine[c]
    OBVIOUS
  <2>2. /\ pc[c] = "kill" /\ pc'[c] = "respawn"
        /\ child' = IF k = 0 THEN child ELSE [child EXCEPT ![k] = "dead"]
        /\ UNCHANGED <<state, proc, slot, lease, respawnVars, ownerVars>>
        /\ \A d \in Clients : d # c => pc'[d] = pc[d] /\ mine'[d] = mine[d]
        /\ mine' \in [Clients -> Children \cup {0}] /\ k \in Children \cup {0}
    BY <1>0, <1>2, <2>1 DEF KillChild, Goto, Kill, Dead
  <2>3. /\ child' \in [Children -> AliveStates \cup {"dead"}]
        /\ \A j \in Children : (child'[j] = child[j] /\ j # k) \/ child'[j] = "dead"
    BY <1>0, <2>2 DEF Children
  <2>4. ServiceTypes' /\ OwnerKnows' /\ RespawnKnows'
    BY <2>2, <2>3 DEF ServiceInv, ServiceTypes, OwnerKnows, RespawnKnows
  <2>5. ClientsKnow'
    <3>1. ASSUME NEW d \in Clients, d # c PROVE ClientKnows(d)'
      BY <2>2, <3>1 DEF ServiceInv, ClientsKnow, ClientKnows, Serves, Recovers
    <3>2. ClientKnows(c)'
      BY <1>0, <2>2 DEF ClientKnows, Serves, Recovers
    <3> QED
      BY <3>1, <3>2 DEF ClientsKnow
  <2>6. ChildKnown'
    <3> SUFFICES ASSUME NEW j \in Children, Alive(j)'
                 PROVE  \/ j \in {proc, rsChild, ownChild}
                        \/ \E d \in Clients : pc'[d] = "kill" /\ mine'[d] = j
      BY <2>2 DEF ChildKnown
    <3>1. Alive(j) /\ j # k
      BY <2>3 DEF Alive, AliveStates
    <3> QED
      BY <2>1, <2>2, <3>1 DEF ServiceInv, ChildKnown
  <2>7. WorkKnown'
    <3> SUFFICES ASSUME NEW j \in Children, state # "STOPPED", child'[j] \in {"busy", "replied"}
                 PROVE  FALSE
      BY <2>2 DEF WorkKnown
    <3>1. Alive(j) /\ j # k
      BY <2>3 DEF Alive, AliveStates, Children
    <3> QED
      BY <2>1, <2>2, <3>1, WhoseChild
  <2> QED
    BY <2>4, <2>5, <2>6, <2>7 DEF ServiceInv
<1> QED
  BY <1>1, <1>2

\* A replacement is asked for by the holder of the slot, who knows that there is no child.
LEMMA BeginService ==
    ASSUME SlotInv, ServiceInv, NEW c \in Clients, Refuse(c) \/ Respawn(c)
    PROVE  ServiceInv'
<1> USE DEF respawnVars, ownerVars
<1>0. /\ pc \in [Clients -> PcLabels] /\ ClientKnows(c)
  BY DEF SlotInv, ClientTypes, ServiceInv, ClientsKnow
<1>1. CASE Refuse(c) /\ state # "READY"
  <2>1. /\ UNCHANGED <<state, proc, child, respawnVars, ownerVars, lease, mine>>
        /\ pc[c] = "admit" /\ pc'[c] = "idle" /\ \A d \in Clients : d # c => pc'[d] = pc[d]
    BY <1>0, <1>1 DEF Refuse, Goto
  <2>2. ClientKnows(c)' /\ mine' \in [Clients -> Children \cup {0}]
    BY <2>1 DEF ClientKnows, Serves, Recovers, ServiceInv, ServiceTypes
  <2> QED
    BY <2>1, <2>2, ClientMoves
<1>2. CASE (Refuse(c) /\ state = "READY") \/ Respawn(c)
  <2>1. /\ \/ state = "READY" /\ ~Alive(proc) /\ pc[c] = "admit" /\ pc'[c] = "idle"
              /\ state' = "RECOVERING" /\ proc' = 0
           \/ pc[c] = "begin" /\ pc'[c] = "finish" /\ UNCHANGED <<state, proc>>
        /\ rs' = (IF rs = "none" THEN "check" ELSE rs) /\ tries' = (IF rs = "none" THEN 0 ELSE tries)
        /\ UNCHANGED <<child, rsChild, ownerVars, lease, mine>>
        /\ \A d \in Clients : d # c => pc'[d] = pc[d]
    BY <1>0, <1>2 DEF Refuse, Respawn, BeginRespawn, Goto
  <2>2. \A d \in Clients : d # c => ~Serves(d) /\ ~Recovers(d)
    BY <2>1, OneServed DEF Recovers
  <2>3. /\ rs \in {"none", "exit"}
        /\ state = "READY" => owner = "serving"
        /\ pc[c] = "begin" => state \in {"RECOVERING", "STOPPED"} /\ owner \notin {"new", "starting"}
    BY <1>0, <2>1 DEF ClientKnows, Recovers, Serves, ServiceInv, OwnerKnows, RespawnKnows, ServiceTypes
  <2>4. ServiceTypes'
    BY <2>1, SlotAssumption DEF ServiceInv, ServiceTypes
  <2>5. OwnerKnows' /\ RespawnKnows'
    BY <2>1, <2>3 DEF ServiceInv, ServiceTypes, OwnerKnows, RespawnKnows
  <2>6. ClientsKnow'
    <3>1. ASSUME NEW d \in Clients, d # c PROVE ClientKnows(d)'
      BY <2>1, <2>2, <3>1 DEF ClientKnows, Serves, Recovers
    <3>2. ClientKnows(c)'
      BY <2>1 DEF ClientKnows, Serves, Recovers
    <3> QED
      BY <3>1, <3>2 DEF ClientsKnow
  <2>7. ChildKnown' /\ WorkKnown'
    <3>1. \A k \in Children : Alive(k)' <=> Alive(k)
      BY <2>1 DEF Alive
    <3>2. \A k \in Children : Alive(k) => k # proc \/ proc' = proc
      BY <2>1
    <3>3. ChildKnown'
      BY <2>1, <3>1, <3>2 DEF ServiceInv, ChildKnown
    <3>4. WorkKnown'
      <4> SUFFICES ASSUME NEW k \in Children, state' # "STOPPED", child[k] \in {"busy", "replied"}
                   PROVE  \E d \in Clients : pc'[d] \in {"wait", "recover", "kill"}
        BY <2>1 DEF WorkKnown
      <4>1. PICK d \in Clients : pc[d] \in {"wait", "recover", "kill"}
        BY <2>1 DEF ServiceInv, WorkKnown
      <4> QED
        BY <2>1, <4>1
    <3> QED
      BY <3>3, <3>4
  <2> QED
    BY <2>4, <2>5, <2>6, <2>7 DEF ServiceInv
<1> QED
  BY <1>1, <1>2 DEF Refuse

\* A client that is not of the service's concern stays so.
LEMMA ClientsStill ==
    ASSUME ServiceInv, UNCHANGED clientVars, NEW d \in Clients,
           Serves(d) \/ Recovers(d) => /\ rs' \in {"none", "exit"} /\ owner' \notin {"new", "starting"}
                                       /\ state' = state \/ state' = "STOPPED"
                                       /\ state' = "READY" => proc' = proc,
           pc[d] = "kill" /\ mine[d] # 0 => ownChild' = 0
    PROVE  ClientKnows(d)'
  BY DEF ServiceInv, ClientsKnow, ClientKnows, Serves, Recovers, clientVars

\* A new child appears only where none is alive.
LEMMA SpawnService ==
    ASSUME SlotInv, ServiceInv, RespawnSpawn \/ Start
    PROVE  ServiceInv'
<1> USE DEF respawnVars, ownerVars
<1>0. child \in [Children -> AliveStates \cup {"dead"}]
  BY DEF ServiceInv, ServiceTypes
<1>1. PICK k \in Children : /\ Spawned(k)
                           /\ \/ RespawnSpawn /\ rsChild' = k
                              \/ Start /\ ownChild' = k
  BY DEF RespawnSpawn, Start
<1>2. /\ child' = [child EXCEPT ![k] = "loading"] /\ UNCHANGED <<proc, tries, clientVars, pc, mine>>
      /\ \/ /\ rs = "start" /\ rs' = "spawn" /\ rsChild' = k
            /\ UNCHANGED <<state, owner, ownChild>>
         \/ /\ owner = "new" /\ state' = "STARTING" /\ owner' = "starting" /\ ownChild' = k
            /\ UNCHANGED <<rs, rsChild>>
  BY <1>1 DEF RespawnSpawn, Start, Spawned, clientVars
<1>3. \A j \in Children : ~Alive(j) \/ (owner = "new" /\ j = ownChild)
  BY <1>2, WhoseChild
<1>4. /\ child' \in [Children -> AliveStates \cup {"dead"}] /\ child'[k] = "loading"
      /\ \A j \in Children : j # k => child'[j] = child[j]
  BY <1>0, <1>2 DEF AliveStates
<1>5. k # 0
  BY DEF Children
<1>6. owner = "new" => ownChild = 0
  BY DEF ServiceInv, OwnerKnows
<1>7. ServiceTypes'
  BY <1>2, <1>4 DEF ServiceInv, ServiceTypes
<1>8. OwnerKnows' /\ RespawnKnows'
  BY <1>2, <1>5 DEF ServiceInv, ServiceTypes, OwnerKnows, RespawnKnows
<1>9. ClientsKnow'
  <2>1. \A d \in Clients : ~Serves(d) /\ ~Recovers(d)
    BY <1>2 DEF ServiceInv, ClientsKnow, ClientKnows
  <2> QED
    BY <2>1, ClientsStill, <1>2 DEF ClientsKnow, Recovers
<1>10. \A j \in Children : Alive(j)' => j = k
  <2>1. \A j \in Children : ~Alive(j)
    BY <1>3, <1>6 DEF Children
  <2> QED
    BY <2>1, <1>4 DEF Alive
<1>11. ChildKnown'
  BY <1>2, <1>10 DEF ChildKnown
<1>12. WorkKnown'
  BY <1>4, <1>10 DEF WorkKnown, Alive, AliveStates, Children
<1> QED
  BY <1>7, <1>8, <1>9, <1>11, <1>12 DEF ServiceInv

\* The other steps of the respawn thread
LEMMA RespawnService ==
    ASSUME SlotInv, ServiceInv,
           \/ RespawnTry \/ RespawnEnds \/ RespawnLoaded \/ RespawnFails
           \/ RespawnInstall \/ RespawnExit
    PROVE  ServiceInv'
<1> USE DEF respawnVars, ownerVars
<1>0. /\ child \in [Children -> AliveStates \cup {"dead"}] /\ rsChild \in Children \cup {0}
      /\ tries \in 0 .. RespawnAttempts /\ RespawnAttempts \in Nat
      /\ rsChild # 0 <=> rs \in {"spawn", "install"}
      /\ rs \in {"check", "start", "spawn", "install"} =>
            /\ state \in {"RECOVERING", "STOPPED"} /\ proc = 0 /\ owner \notin {"new", "starting"}
            /\ state = "RECOVERING" => owner = "serving" /\ ownChild = 0
      /\ rs \in {"start", "spawn", "install"} => ownChild = 0 /\ tries < RespawnAttempts
  BY SlotAssumption DEF ServiceInv, ServiceTypes, OwnerKnows, RespawnKnows
<1>1. rs # "exit" => \A d \in Clients : rs # "none" => ~Serves(d) /\ ~Recovers(d)
  BY DEF ServiceInv, ServiceTypes, ClientsKnow, ClientKnows
<1>2. CASE RespawnTry \/ RespawnEnds \/ RespawnExit
  <2>1. /\ UNCHANGED <<proc, child, clientVars, rsChild, ownerVars, pc, mine>>
        /\ \/ /\ rs = "check" /\ state # "STOPPED" /\ tries < RespawnAttempts
              /\ rs' = "start" /\ UNCHANGED <<state, tries>>
           \/ /\ rs = "check" /\ rs' = "exit" /\ UNCHANGED tries
              /\ ((state = "STOPPED" /\ UNCHANGED state) \/ (state # "STOPPED" /\ state' = "FAILED"))
           \/ /\ rs = "exit" /\ rs' = "none" /\ tries' = 0 /\ UNCHANGED state
    BY <1>2 DEF RespawnTry, MoreTries, RespawnEnds, RespawnExit, clientVars
  <2>2. ServiceTypes' /\ OwnerKnows' /\ RespawnKnows'
    BY <1>0, <2>1 DEF ServiceInv, ServiceTypes, OwnerKnows, RespawnKnows
  <2>3. ClientsKnow'
    <3> SUFFICES ASSUME NEW d \in Clients PROVE ClientKnows(d)'
      BY DEF ClientsKnow
    <3>1. Serves(d) \/ Recovers(d) => rs = "exit" /\ owner \notin {"new", "starting"}
      BY <1>1, <2>1 DEF ServiceInv, ClientsKnow, ClientKnows
    <3>2. pc[d] = "kill" /\ mine[d] # 0 => ownChild = 0
      BY DEF ServiceInv, ClientsKnow, ClientKnows
    <3> QED
      BY <2>1, <3>1, <3>2, ClientsStill
  <2>4. ChildKnown'
    BY <2>1 DEF ServiceInv, ChildKnown, Alive
  <2>5. WorkKnown'
    BY <1>0, <2>1 DEF ServiceInv, WorkKnown
  <2> QED
    BY <2>2, <2>3, <2>4, <2>5 DEF ServiceInv
<1>3. CASE RespawnLoaded \/ RespawnFails \/ RespawnInstall
  <2>1. rs \in {"spawn", "install"} /\ rsChild \in Children
    BY <1>0, <1>3 DEF RespawnLoaded, RespawnFails, RespawnInstall
  <2>2. \A d \in Clients : ~Serves(d) /\ ~Recovers(d)
    BY <1>1, <2>1
  <2>3. PICK k \in Children, to \in AliveStates \cup {"dead"} :
           /\ k = rsChild /\ child' = [child EXCEPT ![k] = to] /\ UNCHANGED <<clientVars, ownerVars, pc, mine>>
           /\ \/ to = "idle" /\ rs' = "install" /\ UNCHANGED <<state, proc, rsChild, tries>>
              \/ /\ to = "dead" /\ rs' = "check" /\ rsChild' = 0 /\ tries' = tries + 1
                 /\ UNCHANGED <<state, proc>>
              \/ /\ to = "dead" /\ state = "STOPPED" /\ rs' = "exit" /\ rsChild' = 0
                 /\ UNCHANGED <<state, proc, tries>>
              \/ /\ to = child[k] /\ state # "STOPPED" /\ rs' = "exit" /\ rsChild' = 0
                 /\ proc' = k /\ state' = "READY" /\ UNCHANGED tries
    <3>1. PICK k \in Children : k = rsChild
      BY <2>1
    <3>2. [child EXCEPT ![k] = child[k]] = child /\ child[k] \in AliveStates \cup {"dead"}
      BY <1>0
    <3>3. "idle" \in AliveStates \cup {"dead"} /\ "dead" \in AliveStates \cup {"dead"}
      BY DEF AliveStates
    <3>4. CASE RespawnLoaded
      BY <3>1, <3>3, <3>4 DEF RespawnLoaded, clientVars
    <3>5. CASE RespawnFails
      BY <3>1, <3>3, <3>5 DEF RespawnFails, Dead, clientVars
    <3>6. CASE RespawnInstall /\ state = "STOPPED"
      BY <3>1, <3>3, <3>6 DEF RespawnInstall, StoppedMeanwhile, Dead, clientVars
    <3>7. CASE RespawnInstall /\ state # "STOPPED"
      BY <3>1, <3>2, <3>7 DEF RespawnInstall, StoppedMeanwhile, clientVars
    <3> QED
      BY <1>3, <3>4, <3>5, <3>6, <3>7
  <2>4. /\ child' \in [Children -> AliveStates \cup {"dead"}] /\ child'[k] = to
        /\ \A j \in Children : j # k => child'[j] = child[j]
    BY <1>0, <2>3
  <2>5. \A j \in Children : Alive(j) => j = k
    BY <2>1, <2>3, WhoseChild DEF Children
  <2>6. \A j \in Children : Alive(j)' => j = k /\ to # "dead"
    BY <2>4, <2>5 DEF Alive, AliveStates
  <2>7. k # 0
    BY DEF Children
  <2>8. ServiceTypes'
    BY <1>0, <2>1, <2>3, <2>4 DEF ServiceInv, ServiceTypes
  <2>9. OwnerKnows' /\ RespawnKnows'
    BY <1>0, <2>1, <2>3, <2>7 DEF ServiceInv, ServiceTypes, OwnerKnows, RespawnKnows
  <2>10. ClientsKnow'
    BY <2>2, <2>3, ClientsStill DEF ClientsKnow, Recovers
  <2>11. ChildKnown'
    BY <2>3, <2>6 DEF ChildKnown
  <2>12. WorkKnown'
    <3> SUFFICES ASSUME NEW j \in Children, state' # "STOPPED", child'[j] \in {"busy", "replied"}
                 PROVE  FALSE
      BY DEF WorkKnown
    <3>1. j = k /\ to \in {"busy", "replied"}
      BY <2>4, <2>6 DEF Alive, AliveStates, Children
    <3>2. child[k] \in {"busy", "replied"} /\ state # "STOPPED"
      BY <2>3, <3>1
    <3>3. \E c \in Clients : pc[c] \in {"wait", "recover", "kill"}
      BY <3>2 DEF ServiceInv, WorkKnown
    <3> QED
      BY <2>2, <3>3 DEF Serves, Recovers
  <2> QED
    BY <2>8, <2>9, <2>10, <2>11, <2>12 DEF ServiceInv
<1> QED
  BY <1>2, <1>3

\* The owner's start returns, with a child or without, and stop takes the child away.
LEMMA OwnerService ==
    ASSUME SlotInv, ServiceInv, StartEnds \/ Stop \/ StopEnds
    PROVE  ServiceInv'
<1> USE DEF respawnVars, ownerVars
<1>0. /\ child \in [Children -> AliveStates \cup {"dead"}] /\ proc \in Children \cup {0}
      /\ ownChild \in Children \cup {0}
  BY DEF ServiceInv, ServiceTypes
<1>1. CASE StartEnds
  <2>1. PICK k, to : k = ownChild /\ to \in {"idle", "dead"}
                     /\ child' = [child EXCEPT ![k] = to] /\ UNCHANGED <<clientVars, respawnVars, pc, mine>>
                     /\ owner = "starting" /\ owner' = "serving" /\ ownChild' = 0
                     /\ \/ to = "idle" /\ proc' = k /\ state' = "READY"
                        \/ to = "dead" /\ proc' = proc /\ state' = "FAILED"
    BY <1>1 DEF StartEnds, Dead, clientVars
  <2>2. /\ child' \in [Children -> AliveStates \cup {"dead"}]
        /\ \A j \in Children : child'[j] = (IF j = k THEN to ELSE child[j])
    BY <1>0, <2>1 DEF AliveStates
  <2>3. \A j \in Children : Alive(j) => j = k
    BY <2>1, WhoseChild
  <2>4. \A j \in Children : Alive(j)' => j = k /\ to = "idle"
    BY <2>1, <2>2, <2>3 DEF Alive, AliveStates
  <2>5. state = "STARTING" /\ rs = "none" /\ proc = 0 /\ rsChild = 0
    BY <2>1 DEF ServiceInv, OwnerKnows, RespawnKnows
  <2>6. ServiceTypes' /\ OwnerKnows' /\ RespawnKnows'
    BY <1>0, <2>1, <2>2, <2>5 DEF ServiceInv, ServiceTypes, OwnerKnows, RespawnKnows
  <2>7. ClientsKnow'
    <3>1. \A d \in Clients : ~Serves(d) /\ ~Recovers(d)
      BY <2>1 DEF ServiceInv, ClientsKnow, ClientKnows
    <3> QED
      BY <2>1, <3>1, ClientsStill DEF ClientsKnow, Recovers
  <2>8. ChildKnown'
    BY <2>1, <2>4 DEF ChildKnown
  <2>9. WorkKnown'
    BY <2>2, <2>4 DEF WorkKnown, Alive, AliveStates, Children
  <2> QED
    BY <2>6, <2>7, <2>8, <2>9 DEF ServiceInv
<1>2. CASE Stop
  <2>1. /\ owner = "serving" /\ owner' = "stopping" /\ state' = "STOPPED" /\ proc' = 0 /\ ownChild' = proc
        /\ UNCHANGED <<child, clientVars, respawnVars, pc, mine>> /\ ownChild = 0
        /\ state # "READY" => proc = 0 /\ (rsChild # 0 => state # "READY")
    BY <1>2 DEF Stop, clientVars, ServiceInv, OwnerKnows, RespawnKnows
  <2>2. state = "READY" => rs \in {"none", "exit"} /\ rsChild = 0
    BY DEF ServiceInv, RespawnKnows, ServiceTypes
  <2>3. ServiceTypes' /\ OwnerKnows' /\ RespawnKnows'
    BY <1>0, <2>1, <2>2 DEF ServiceInv, ServiceTypes, OwnerKnows, RespawnKnows
  <2>4. ClientsKnow'
    <3> SUFFICES ASSUME NEW d \in Clients PROVE ClientKnows(d)'
      BY DEF ClientsKnow
    <3>1. pc[d] = "kill" => state # "READY"
      BY DEF ServiceInv, ClientsKnow, ClientKnows, Recovers
    <3>2. Serves(d) \/ Recovers(d) => rs \in {"none", "exit"}
      BY DEF ServiceInv, ClientsKnow, ClientKnows
    <3> QED
      BY <2>1, <3>1, <3>2, ClientsStill
  <2>5. ChildKnown' /\ WorkKnown'
    BY <2>1 DEF ServiceInv, ChildKnown, WorkKnown, Alive
  <2> QED
    BY <2>3, <2>4, <2>5 DEF ServiceInv
<1>3. CASE StopEnds
  <2>1. /\ owner = "stopping" /\ owner' = "stopped" /\ ownChild' = 0
        /\ child' = IF ownChild = 0 THEN child ELSE [child EXCEPT ![ownChild] = "dead"]
        /\ UNCHANGED <<state, proc, clientVars, respawnVars, pc, mine>>
    BY <1>3 DEF StopEnds, Kill, Dead, clientVars
  <2>2. /\ child' \in [Children -> AliveStates \cup {"dead"}]
        /\ \A j \in Children : (child'[j] = child[j] /\ j # ownChild) \/ child'[j] = "dead"
    BY <1>0, <2>1 DEF Children
  <2>3. ServiceTypes' /\ OwnerKnows' /\ RespawnKnows'
    BY <2>1, <2>2 DEF ServiceInv, ServiceTypes, OwnerKnows, RespawnKnows
  <2>4. ClientsKnow'
    <3> SUFFICES ASSUME NEW d \in Clients PROVE ClientKnows(d)'
      BY DEF ClientsKnow
    <3>1. Serves(d) \/ Recovers(d) => rs \in {"none", "exit"}
      BY DEF ServiceInv, ClientsKnow, ClientKnows
    <3> QED
      BY <2>1, <3>1, ClientsStill
  <2>5. ChildKnown'
    <3>1. \A j \in Children : Alive(j)' => Alive(j) /\ j # ownChild
      BY <2>2 DEF Alive, AliveStates
    <3> QED
      BY <2>1, <3>1 DEF ServiceInv, ChildKnown
  <2>6. WorkKnown'
    BY <2>1, <2>2 DEF ServiceInv, WorkKnown, OwnerKnows
  <2> QED
    BY <2>3, <2>4, <2>5, <2>6 DEF ServiceInv
<1> QED
  BY <1>1, <1>2, <1>3

\* ServiceInv is an invariant of the service.
THEOREM ServiceInductive == Spec => []ServiceInv
<1>1. Init => ServiceInv
  <2> SUFFICES ASSUME Init PROVE ServiceInv
    OBVIOUS
  <2>1. ServiceTypes
    BY SlotAssumption DEF Init, ServiceTypes
  <2>2. /\ \A k \in Children : child[k] = "dead"
        /\ \A c \in Clients : pc[c] = "idle"
    BY DEF Init
  <2>3. OwnerKnows /\ RespawnKnows
    BY DEF Init, OwnerKnows, RespawnKnows
  <2>4. ClientsKnow
    BY <2>2 DEF ClientsKnow, ClientKnows, Serves, Recovers
  <2>5. ChildKnown /\ WorkKnown
    BY <2>2 DEF ChildKnown, WorkKnown, Alive, AliveStates
  <2> QED
    BY <2>1, <2>3, <2>4, <2>5 DEF ServiceInv
<1>2. SlotInv /\ ServiceInv /\ [Next]_vars => ServiceInv'
  <2> SUFFICES ASSUME SlotInv, ServiceInv, [Next]_vars PROVE ServiceInv'
    OBVIOUS
  <2>1. ASSUME NEW c \in Clients, Acquire(c) \/ ThreadStep(c) \/ Release(c) PROVE ServiceInv'
    BY <2>1, LeaseService, CallService, KillService, BeginService DEF ThreadStep
  <2>2. CASE RespawnStep \/ OwnerStep
    BY <2>2, SpawnService, RespawnService, OwnerService DEF RespawnStep, OwnerStep
  <2>3. ASSUME NEW k \in Children, Replies(k) \/ Dies(k) PROVE ServiceInv'
    BY <2>3, ChildService
  <2>4. CASE UNCHANGED vars
    <3>1. UNCHANGED <<state, proc, child, mine, pc, lease, rs, rsChild, tries, owner, ownChild>>
      BY <2>4 DEF vars, clientVars, respawnVars, ownerVars
    <3> QED
      BY <3>1 DEF ServiceInv, ServiceTypes, OwnerKnows, RespawnKnows, ClientsKnow, ClientKnows, Serves,
         Recovers, ChildKnown, WorkKnown, Alive
  <2> QED
    BY <2>1, <2>2, <2>3, <2>4 DEF Next
<1> QED
  BY <1>1, <1>2, SlotInvariant, PTL DEF Spec

\* The fields of the service, the lease and the child have their types; a respawn thread
\* makes at most RESPAWN_ATTEMPTS attempts.
THEOREM ServiceTypeCorrect == Spec => []TypeOK
<1>1. SlotInv /\ ServiceInv => TypeOK
  BY DEF SlotInv, ClientTypes, ServiceInv, ServiceTypes, TypeOK, PcLabels, Operating
<1> QED
  BY <1>1, SlotInvariant, ServiceInductive, PTL

\* start, the respawn thread, stop and the clients never have two children alive.
THEOREM ChildIsAlone == Spec => []OneChild
<1>1. SlotInv /\ ServiceInv => OneChild
  BY OneLiving
<1> QED
  BY <1>1, SlotInvariant, ServiceInductive, PTL

\* Until stop, a child that works does so for the holder of the slot, whose operation is
\* still under way: no timeout or disconnect leaves it working for nobody.
THEOREM WorkIsUnderSlot == Spec => []WorkUnderSlot
<1>1. SlotInv /\ ServiceInv => WorkUnderSlot
  BY OneLiving
<1> QED
  BY <1>1, SlotInvariant, ServiceInductive, PTL

-----------------------------------------------------------------------------
(* Stop *)

\* A step brings a dead child to life only by starting one: in start, and in the respawn
\* thread that has decided to.
LEMMA OnlyStartsRevive ==
    ASSUME SlotInv, ServiceInv, [Next]_vars, NEW k \in Children, ~Alive(k), Alive(k)'
    PROVE  RespawnSpawn \/ Start
<1>0. /\ child \in [Children -> AliveStates \cup {"dead"}]
      /\ child[k] = "dead" /\ child'[k] # "dead" /\ k # 0
      /\ \A c \in Clients : mine[c] \in Children \cup {0}
  BY DEF Alive, AliveStates, Children, ServiceInv, ServiceTypes
<1>1. ASSUME NEW c \in Clients, Acquire(c) \/ ThreadStep(c) \/ Release(c) PROVE FALSE
  <2>1. CASE Send(c) \/ Answered(c)
    BY <1>0, <2>1 DEF Send, Answered
  <2>2. CASE KillChild(c)
    BY <1>0, <2>2 DEF KillChild, Kill, Dead
  <2>3. CASE UNCHANGED child
    BY <1>0, <2>3
  <2> QED
    BY <1>1, <2>1, <2>2, <2>3 DEF Acquire, Release, ThreadStep, Admit, Refuse, Run, Call, GiveUp,
       MarkRecovering, StillRecovering, Respawn, Finish, Depart
<1>2. CASE RespawnStep
  BY <1>0, <1>2 DEF RespawnStep, RespawnTry, RespawnEnds, RespawnLoaded, RespawnFails,
     RespawnInstall, RespawnExit, Dead
<1>3. CASE OwnerStep
  BY <1>0, <1>3 DEF OwnerStep, StartEnds, Stop, StopEnds, Kill, Dead
<1>4. ASSUME NEW j \in Children, Replies(j) \/ Dies(j) PROVE FALSE
  BY <1>0, <1>4 DEF Replies, Dies, Dead
<1>5. CASE UNCHANGED vars
  BY <1>0, <1>5 DEF vars
<1> QED
  BY <1>1, <1>2, <1>3, <1>4, <1>5 DEF Next

\* Only the thread that finds the service not stopped decides on a replacement.
LEMMA OnlyTriesDecide ==
    ASSUME [Next]_vars, rs' = "start", rs # "start"
    PROVE  RespawnTry
<1>1. ASSUME NEW c \in Clients, Acquire(c) \/ ThreadStep(c) \/ Release(c) PROVE FALSE
  <2>1. rs' = rs \/ rs' = "check"
    BY <1>1 DEF Acquire, Release, ThreadStep, Admit, Refuse, BeginRespawn, Run, Call, Send, Answered,
       GiveUp, MarkRecovering, KillChild, StillRecovering, Respawn, Finish, Depart, respawnVars
  <2> QED
    BY <2>1
<1>2. ASSUME NEW j \in Children, Replies(j) \/ Dies(j) PROVE FALSE
  BY <1>2 DEF Replies, Dies, respawnVars
<1>3. CASE RespawnStep
  BY <1>3 DEF RespawnStep, RespawnEnds, RespawnSpawn, RespawnLoaded, RespawnFails, RespawnInstall,
     RespawnExit
<1>4. CASE OwnerStep
  BY <1>4 DEF OwnerStep, Start, StartEnds, Stop, StopEnds, respawnVars
<1>5. CASE UNCHANGED vars
  BY <1>5 DEF vars, respawnVars
<1> QED
  BY <1>1, <1>2, <1>3, <1>4, <1>5 DEF Next

\* A stop that has begun only goes on to return.
LEMMA OwnerKeeps ==
    ASSUME [Next]_vars, owner \in {"stopping", "stopped"}
    PROVE  owner' \in {"stopping", "stopped"}
<1>1. ASSUME NEW c \in Clients, Acquire(c) \/ ThreadStep(c) \/ Release(c) PROVE UNCHANGED owner
  BY <1>1 DEF Acquire, Release, ThreadStep, Admit, Refuse, Run, Call, Send, Answered,
     GiveUp, MarkRecovering, KillChild, StillRecovering, Respawn, Finish, Depart, ownerVars
<1>2. ASSUME NEW j \in Children, Replies(j) \/ Dies(j) PROVE UNCHANGED owner
  BY <1>2 DEF Replies, Dies, ownerVars
<1>3. CASE RespawnStep
  BY <1>3 DEF RespawnStep, RespawnTry, RespawnEnds, RespawnSpawn, RespawnLoaded, RespawnFails,
     RespawnInstall, RespawnExit, ownerVars
<1>4. CASE OwnerStep
  BY <1>4 DEF OwnerStep, Start, StartEnds, Stop, StopEnds
<1>5. CASE UNCHANGED vars
  BY <1>5 DEF vars, ownerVars
<1> QED
  BY <1>1, <1>2, <1>3, <1>4, <1>5 DEF Next

\* The safety half of StopIsFinal.  Stop does not wait for the respawn thread, so a child may
\* still be started after it: by the thread that had decided on it before (_lock is free
\* between the decision and the start), once, and it is never put into service.
OneLateChild ==
    [][(owner \in {"stopping", "stopped"}) =>
           /\ rs' = "start" => rs = "start"
           /\ \A k \in Children : ~Alive(k) /\ Alive(k)' =>
                  rs = "start" /\ rs' = "spawn" /\ rsChild' = k
           /\ state' = "STOPPED" /\ proc' = 0]_vars

\* Once stop has begun, the only child a step can start is the replacement that had been
\* decided on before, no further one is decided on, and none is put into service.
THEOREM StopAllowsOneLateChild == Spec => OneLateChild
<1> DEFINE Late ==
        owner \in {"stopping", "stopped"} =>
            /\ rs' = "start" => rs = "start"
            /\ \A k \in Children : ~Alive(k) /\ Alive(k)' =>
                   rs = "start" /\ rs' = "spawn" /\ rsChild' = k
            /\ state' = "STOPPED" /\ proc' = 0
<1>1. SlotInv /\ ServiceInv /\ ServiceInv' /\ [Next]_vars => Late \/ UNCHANGED vars
  <2> SUFFICES ASSUME SlotInv, ServiceInv, ServiceInv', [Next]_vars, owner \in {"stopping", "stopped"}
               PROVE  Late
    OBVIOUS
  <2>1. state = "STOPPED" /\ owner \notin {"new", "starting"}
    BY DEF ServiceInv, OwnerKnows
  <2>2. owner' \in {"stopping", "stopped"}
    BY <2>1, OwnerKeeps
  <2>3. state' = "STOPPED" /\ proc' = 0
    BY <2>2 DEF ServiceInv, OwnerKnows, RespawnKnows
  <2>4. rs' = "start" => rs = "start"
    BY <2>1, OnlyTriesDecide DEF RespawnTry
  <2>5. ASSUME NEW k \in Children, ~Alive(k), Alive(k)'
        PROVE  rs = "start" /\ rs' = "spawn" /\ rsChild' = k
    <3>1. RespawnSpawn
      BY <2>1, <2>5, OnlyStartsRevive DEF Start
    <3>2. PICK j \in Children : Spawned(j) /\ rsChild' = j
      BY <3>1 DEF RespawnSpawn
    <3>3. child \in [Children -> AliveStates \cup {"dead"}]
      BY DEF ServiceInv, ServiceTypes
    <3>4. k = j
      BY <2>5, <3>2, <3>3 DEF Spawned, Alive
    <3> QED
      BY <3>1, <3>2, <3>4 DEF RespawnSpawn
  <2> QED
    BY <2>3, <2>4, <2>5
<1> QED
  BY <1>1, SlotInvariant, ServiceInductive, PTL DEF Spec, OneLateChild

\* Once stop has returned, a child that is still alive is the one the respawn thread was
\* loading or one a client is about to kill: nobody can be given it.
THEOREM StopLeavesNoChildBehind ==
    Spec => [](owner = "stopped" =>
                   /\ state = "STOPPED" /\ proc = 0
                   /\ \A k \in Children : Alive(k) =>
                          \/ k = rsChild
                          \/ \E c \in Clients : pc[c] = "kill" /\ mine[c] = k)
<1> DEFINE LastChildGoes ==
        owner = "stopped" =>
            /\ state = "STOPPED" /\ proc = 0
            /\ \A k \in Children : Alive(k) =>
                   \/ k = rsChild
                   \/ \E c \in Clients : pc[c] = "kill" /\ mine[c] = k
<1>1. ServiceInv => LastChildGoes
  BY DEF ServiceInv, OwnerKnows, RespawnKnows, ChildKnown, Alive
<1> QED
  BY <1>1, ServiceInductive, PTL
=============================================================================
