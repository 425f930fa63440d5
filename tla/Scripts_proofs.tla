---------------------------- MODULE Scripts_proofs ----------------------------
(***************************************************************************)
(* The programs that are started by hand, deploy-foundation.py and the     *)
(* fetchers, the scan for requirements the fetchers make, and the ranking  *)
(* of what they bring.                                                     *)
(***************************************************************************)
EXTENDS DeployFoundation, FetchJobs, RequirementExtraction, Ranking,
        WellFoundedInduction, FiniteSetTheorems, SequenceTheorems, TLAPS

-----------------------------------------------------------------------------
(***************************************************************************)
(* Deployments, for any number of operators, builds, addresses, commands   *)
(* and interruptions: a stack is of one build, a run acts on a complete    *)
(* stack of its own build, and a success that is reported is real.         *)
(*                                                                         *)
(* A run relies on what it saw earlier, so the invariant says for every    *)
(* step of the script what still holds of it: RunKnows.  The success of a  *)
(* run that found everything ready, and so only checks the catalogue,      *)
(* needs more: that nothing is left that could take the hostname away from *)
(* the host's address, which is NothingStale.                              *)
(***************************************************************************)

OfOneBuild(params) == params.template = params.source /\ params.images = params.source

Acting == {"address", "probe", "online", "poll", "dns", "https", "poll_https", "final"}
Addressed == Acting \ {"address"}
Polling == {"poll", "poll_https"}
Reconciled == {"dns", "https", "poll_https", "final"}

\* The remote command of the catalogue, which leaves it current
Reconciles(c) ==
    /\ cmds[c] # None /\ cmds[c].pc # "https"
    /\ cmds[c].pc \in {"dns", "done"} => current

\* What still holds of what a run has seen and done
RunKnows(r) ==
    /\ run[r].pc = "idle" <=> run[r].params = None
    /\ run[r].pc # "idle" => run[r].exit = "none" /\ OfOneBuild(run[r].params)
    /\ run[r].seen # None =>
          /\ stack # None /\ stack.params = run[r].seen.params
          /\ run[r].seen.status = "complete" => stack.status = "complete"
    /\ run[r].pc = "wait" => stack # None /\ stack.params = run[r].params
    /\ run[r].pc \in Acting => stack # None /\ stack.status = "complete" /\ stack.params.source = run[r].params.source
    /\ run[r].pc \in Addressed => run[r].ip # None
    /\ run[r].pc \in Polling => run[r].cmd \in Slots /\ cmds[run[r].cmd] # None
    /\ run[r].pc = "poll" => Reconciles(run[r].cmd)
    /\ run[r].pc \in Reconciled => current
    /\ run[r].ready => run[r].pc \in {"online", "poll"}

OwnCommands ==
    \A r, s \in Runners :
        run[r].pc \in Polling /\ run[s].pc \in Polling /\ run[r].cmd = run[s].cmd => r = s

\* While a run goes on that met no change of the address
NothingStale ==
    \A r \in Runners : run[r].pc # "idle" /\ r \notin shaken =>
        /\ ~StaleAddress
        /\ run[r].ready => dns = ip /\ https /\ api

DeployInv ==
    /\ TypeOK /\ (stack # None => OfOneBuild(stack.params))
    /\ (\A r \in Runners : RunKnows(r)) /\ OwnCommands /\ NothingStale

-----------------------------------------------------------------------------
(* What steps do to runs *)

\* A run that has not started has seen nothing.
LEMMA NoRunShape ==
    /\ NoRun \in RunRow /\ NoRun.pc = "idle" /\ NoRun.params = None /\ NoRun.seen = None /\ NoRun.ip = None
    /\ NoRun.ready = FALSE /\ NoRun.cmd = None
  BY DEF NoRun, RunRow, RunPcs

\* A step of a run changes the run's own row.
LEMMA RunTurns ==
    ASSUME TypeOK, NEW r \in Runners, NEW new \in RunRow, run' = [run EXCEPT ![r] = new]
    PROVE  run' \in [Runners -> RunRow] /\ run'[r] = new /\ \A s \in Runners \ {r} : run'[s] = run[s]
  BY DEF TypeOK

\* A run that goes on keeps what it has seen,
LEMMA GotoTurns ==
    ASSUME TypeOK, NEW r \in Runners, NEW step \in RunPcs, Goto(r, step)
    PROVE  /\ run' \in [Runners -> RunRow] /\ \A s \in Runners \ {r} : run'[s] = run[s]
           /\ run'[r] = [run[r] EXCEPT !.pc = step]
<1>1. run[r] \in RunRow /\ [run[r] EXCEPT !.pc = step] \in RunRow
  BY DEF TypeOK, RunRow
<1>2. run' = [run EXCEPT ![r] = [run[r] EXCEPT !.pc = step]]
  BY DEF TypeOK, Goto
<1> QED
  BY <1>1, <1>2, RunTurns

\* and one that exits forgets it.
LEMMA ExitTurns ==
    ASSUME TypeOK, NEW r \in Runners, NEW code \in {"ok", "error"}, Exit(r, code)
    PROVE  /\ run' \in [Runners -> RunRow] /\ \A s \in Runners \ {r} : run'[s] = run[s]
           /\ run'[r].pc = "idle" /\ run'[r].params = None /\ run'[r].seen = None /\ run'[r].ip = None
           /\ run'[r].ready = FALSE
<1> DEFINE new == [NoRun EXCEPT !.exit = code, !.apply = run[r].apply]
<1>1. run[r] \in RunRow
  BY DEF TypeOK
<1>2. /\ new \in RunRow /\ new.pc = "idle" /\ new.params = None /\ new.seen = None /\ new.ip = None
      /\ new.ready = FALSE
  BY <1>1 DEF NoRun, RunRow, RunPcs
<1>3. run' = [run EXCEPT ![r] = new]
  BY DEF Exit
<1> HIDE DEF new
<1> QED
  BY <1>2, <1>3, RunTurns

\* The stack goes on to exist and to be what it is, and the catalogue to be current.
WorldGoesOn ==
    /\ stack # None =>
          /\ stack' # None /\ stack'.params = stack.params
          /\ stack.status = "complete" => stack'.status = "complete"
    /\ current => current'

CommandGoesOn(c) == cmds[c] # None => cmds'[c] # None /\ (Reconciles(c) => Reconciles(c)')

\* What a run knows stays true when the run rests and the world only goes on.
LEMMA RunStays ==
    ASSUME NEW r \in Runners, RunKnows(r), run'[r] = run[r], WorldGoesOn,
           run[r].pc \in Polling => CommandGoesOn(run[r].cmd)
    PROVE  RunKnows(r)'
<1>1. run[r].pc = "poll" => run[r].pc \in Polling
  BY DEF Polling
<1> QED
  BY <1>1 DEF RunKnows, WorldGoesOn, CommandGoesOn

\* A run that has ended knows nothing.
LEMMA EndedKnows ==
    ASSUME NEW r \in Runners, run'[r].pc = "idle", run'[r].params = None, run'[r].seen = None,
           run'[r].ready = FALSE
    PROVE  RunKnows(r)'
  BY DEF RunKnows, Acting, Addressed, Polling, Reconciled

\* Two runs poll different commands, if none begins to poll.
LEMMA OwnStays ==
    ASSUME OwnCommands,
           \A r \in Runners : run'[r].pc \in Polling => run[r].pc \in Polling /\ run'[r].cmd = run[r].cmd
    PROVE  OwnCommands'
  BY DEF OwnCommands

-----------------------------------------------------------------------------
(* Steps that leave the world and the commands alone *)

\* A step that only reads leaves the other runs what they know.
LEMMA QuietOthers ==
    ASSUME DeployInv, Quiet, NEW r \in Runners, NEW s \in Runners \ {r}, run'[s] = run[s]
    PROVE  RunKnows(s)'
<1>1. WorldGoesOn /\ \A c : CommandGoesOn(c)
  BY DEF Quiet, world, WorldGoesOn, CommandGoesOn, Reconciles
<1> QED
  BY <1>1, RunStays DEF DeployInv

\* It keeps the types,
LEMMA QuietTypes ==
    ASSUME TypeOK, Quiet, run' \in [Runners -> RunRow]
    PROVE  TypeOK'
  BY DEF TypeOK, Quiet, world
\* Addresses come from the host or from where they were already.
LEMMA StaleStays ==
    ASSUME NothingStale, UNCHANGED ip,
           \A r \in Runners : run'[r].pc # "idle" /\ r \notin shaken' =>
              (run[r].pc # "idle" /\ r \notin shaken) \/ ~StaleAddress,
           \A r \in Runners : run'[r].ip \in {None, ip, run[r].ip},
           \A c \in Slots : cmds'[c] # None =>
              \/ cmds'[c].ip = ip
              \/ cmds[c] # None /\ cmds'[c].ip = cmds[c].ip
              \/ \E r \in Runners : run[r].ip # None /\ cmds'[c].ip = run[r].ip,
           \/ UNCHANGED <<record, dns>>
           \/ record' = record /\ dns # record /\ dns' = record
           \/ dns' = dns /\ \E c \in Slots : cmds[c] # None /\ record' = cmds[c].ip,
           https => https', api => api',
           \A r \in Runners : run'[r].ready =>
              \/ run[r].ready /\ run[r].pc # "idle" /\ (r \in shaken => r \in shaken')
              \/ dns = ip /\ https /\ api
    PROVE  NothingStale'
<1> SUFFICES ASSUME NEW r \in Runners, run'[r].pc # "idle", r \notin shaken'
             PROVE  ~StaleAddress' /\ (run'[r].ready => dns' = ip' /\ https' /\ api')
  BY DEF NothingStale
<1>1. ~StaleAddress
  BY DEF NothingStale
<1>2. /\ \A s \in Runners : run[s].ip \in {None, ip}
      /\ \A c \in Slots : cmds[c] # None => cmds[c].ip = ip
      /\ dns # record => record = ip
  BY <1>1 DEF StaleAddress
<1>3. /\ \A s \in Runners : run'[s].ip \in {None, ip}
      /\ \A c \in Slots : cmds'[c] # None => cmds'[c].ip = ip
  BY <1>2
<1>4. dns' # record' => record' = ip
  BY <1>2
<1>5. ~StaleAddress'
  BY <1>3, <1>4 DEF StaleAddress
<1>6. run'[r].ready => dns = ip /\ https /\ api
  BY DEF NothingStale
<1>7. dns = ip => dns' = ip
  BY <1>2
<1> QED
  BY <1>5, <1>6, <1>7

\* and DeployInv, if its run knows no more than it has read.
LEMMA QuietStep ==
    ASSUME DeployInv, Quiet, NEW r \in Runners, run' \in [Runners -> RunRow],
           \A s \in Runners \ {r} : run'[s] = run[s], RunKnows(r)',
           run[r].pc # "idle", run'[r].pc \notin Polling, run'[r].ip \in {None, ip, run[r].ip},
           run'[r].ready => run[r].ready \/ (dns = ip /\ https /\ api)
    PROVE  DeployInv'
<1>1. TypeOK'
  BY QuietTypes DEF DeployInv
<1>2. \A s \in Runners : RunKnows(s)'
  BY QuietOthers
<1>3. OwnCommands'
  BY OwnStays DEF DeployInv
<1>4. UNCHANGED <<stack, ip, record, dns, https, api, cmds, shaken>>
  BY DEF Quiet, world
<1>5. \A s \in Runners : run[s].ready => run[s].pc # "idle"
  BY DEF DeployInv, RunKnows
<1>6. NothingStale'
  BY <1>4, <1>5, StaleStays DEF DeployInv
<1>7. (stack # None => OfOneBuild(stack.params))'
  BY <1>4 DEF DeployInv
<1> QED
  BY <1>1, <1>2, <1>3, <1>6, <1>7 DEF DeployInv

\* So does a run that exits.
LEMMA QuietExit ==
    ASSUME DeployInv, Quiet, NEW r \in Runners, run[r].pc # "idle",
           NEW code \in {"ok", "error"}, Exit(r, code)
    PROVE  DeployInv'
<1>1. TypeOK
  BY DEF DeployInv
<1> QED
  BY <1>1, ExitTurns, EndedKnows, QuietStep DEF Polling

\* A run goes on; what it knows stays, and the new step needs no more.
LEMMA QuietGoto ==
    ASSUME DeployInv, Quiet, NEW r \in Runners, run[r].pc # "idle",
           NEW step \in RunPcs \ (Polling \cup {"idle"}), Goto(r, step), RunKnows(r)'
    PROVE  DeployInv'
<1>1. TypeOK /\ run[r] \in RunRow
  BY DEF DeployInv, TypeOK
<1>2. /\ run' \in [Runners -> RunRow] /\ \A s \in Runners \ {r} : run'[s] = run[s]
      /\ run'[r] = [run[r] EXCEPT !.pc = step]
  BY <1>1, GotoTurns
<1>3. run'[r].pc = step /\ run'[r].ip = run[r].ip /\ run'[r].ready = run[r].ready
  BY <1>1, <1>2 DEF RunRow
<1> QED
  BY <1>2, <1>3, QuietStep

\* Starting keeps DeployInv: a run starts only with artifacts of one build.
LEMMA StartKeeps ==
    ASSUME DeployInv, NEW r \in Runners, Start(r) PROVE DeployInv'
<1>1. /\ TypeOK /\ run[r].pc = "idle" /\ shaken \subseteq Runners /\ ami \in Amis
      /\ None \notin BuildParams
  BY DeployAssumption DEF DeployInv, Start, TypeOK
<1>2. PICK a \in [archive : Builds, manifest : Builds, digests : Builds, provenance : Builds], apply \in BOOLEAN :
         /\ ArtifactsAgree(a)
         /\ run' = [run EXCEPT ![r] = [NoRun EXCEPT !.pc = "look", !.apply = apply, !.params = Parameters(a)]]
  BY DEF Start
<1>3. /\ shaken' = IF StaleAddress THEN shaken \cup {r} ELSE shaken \ {r}
      /\ UNCHANGED <<world, cmds, trouble>>
  BY DEF Start
<1>4. UNCHANGED <<stack, logs, ami, ip, record, dns, https, api, current>>
  BY <1>3 DEF world
<1>5. Parameters(a) \in BuildParams /\ OfOneBuild(Parameters(a))
  BY <1>1, <1>2 DEF Parameters, BuildParams, OfOneBuild, ArtifactsAgree
<1> DEFINE new == [NoRun EXCEPT !.pc = "look", !.apply = apply, !.params = Parameters(a)]
<1>6. /\ new \in RunRow /\ new.pc = "look" /\ new.params = Parameters(a) /\ new.seen = None /\ new.ip = None
      /\ new.ready = FALSE /\ new.exit = "none"
  <2> HIDE DEF Parameters
  <2> QED
    BY <1>5 DEF NoRun, RunRow, RunPcs
<1>7. run' = [run EXCEPT ![r] = new]
  BY <1>2
<1> HIDE DEF new
<1>8. run' \in [Runners -> RunRow] /\ run'[r] = new /\ \A s \in Runners \ {r} : run'[s] = run[s]
  BY <1>1, <1>6, <1>7, RunTurns
<1>9. TypeOK'
  BY <1>1, <1>3, <1>4, <1>8 DEF TypeOK
<1>10. RunKnows(r)'
  BY <1>1, <1>5, <1>6, <1>8 DEF RunKnows, Acting, Addressed, Polling, Reconciled
<1>11. WorldGoesOn /\ \A c : CommandGoesOn(c)
  BY <1>3, <1>4 DEF WorldGoesOn, CommandGoesOn, Reconciles
<1>12. \A s \in Runners \ {r} : RunKnows(s)'
  BY <1>8, <1>11, RunStays DEF DeployInv
<1>13. OwnCommands'
  BY <1>6, <1>8, OwnStays DEF DeployInv, Polling
<1>14. \A s \in Runners : run[s].ready => run[s].pc # "idle"
  BY DEF DeployInv, RunKnows
<1>15. NothingStale'
  <2>1. \A s \in Runners : run'[s].pc # "idle" /\ s \notin shaken' =>
           (run[s].pc # "idle" /\ s \notin shaken) \/ ~StaleAddress
    BY <1>3, <1>8
  <2>2. \A s \in Runners : run'[s].ip \in {None, ip, run[s].ip}
    BY <1>6, <1>8
  <2>3. \A s \in Runners : run'[s].ready => run[s].ready /\ run[s].pc # "idle" /\ (s \in shaken => s \in shaken')
    BY <1>3, <1>6, <1>8, <1>14
  <2> QED
    BY <1>3, <1>4, <2>1, <2>2, <2>3, StaleStays DEF DeployInv
<1> QED
  BY <1>4, <1>9, <1>10, <1>12, <1>13, <1>15 DEF DeployInv

-----------------------------------------------------------------------------
(* The steps of a run that call nothing that changes *)

\* Looking for the stack keeps DeployInv.
LEMMA LookKeeps ==
    ASSUME DeployInv, NEW r \in Runners, Look(r) PROVE DeployInv'
<1> DEFINE new == [run[r] EXCEPT !.seen = stack, !.pc = "logs"]
<1>1. TypeOK /\ run \in [Runners -> RunRow] /\ run[r] \in RunRow /\ stack \in Stack \cup {None} /\ RunKnows(r)
  BY DEF DeployInv, TypeOK
<1>2. run[r].pc = "look" /\ Quiet /\ stack' = stack
  BY DEF Look, Quiet, world
<1>3. run' = [run EXCEPT ![r] = new]
  BY <1>1 DEF Look
<1>4. /\ new \in RunRow /\ new.pc = "logs" /\ new.seen = stack /\ new.params = run[r].params /\ new.ip = run[r].ip
      /\ new.ready = run[r].ready /\ new.exit = run[r].exit
  BY <1>1 DEF RunRow, RunPcs
<1> HIDE DEF new
<1>5. run' \in [Runners -> RunRow] /\ run'[r] = new /\ \A s \in Runners \ {r} : run'[s] = run[s]
  BY <1>1, <1>3, <1>4, RunTurns
<1>6. RunKnows(r)'
  BY <1>1, <1>2, <1>4, <1>5 DEF RunKnows, Acting, Addressed, Polling, Reconciled
<1> QED
  BY <1>2, <1>4, <1>5, <1>6, QuietStep DEF Polling

\* The next step of a run, if all it has seen and done is as before
LEMMA GotoKnows ==
    ASSUME DeployInv, Quiet, NEW r \in Runners, NEW step \in RunPcs \ (Polling \cup {"idle"}), Goto(r, step),
           run[r].pc # "idle", ~run[r].ready \/ step = "online",
           step = "wait" => stack # None /\ stack.params = run[r].params,
           step \in Acting => stack # None /\ stack.status = "complete" /\ stack.params.source = run[r].params.source,
           step \in Addressed => run[r].ip # None, step \in Reconciled => current
    PROVE  DeployInv'
<1>1. TypeOK /\ run[r] \in RunRow /\ RunKnows(r) /\ UNCHANGED <<stack, current>>
  BY DEF DeployInv, TypeOK, Quiet, world
<1>2. run'[r] = [run[r] EXCEPT !.pc = step]
  BY <1>1, GotoTurns
<1>3. /\ run'[r].pc = step /\ run'[r].ip = run[r].ip /\ run'[r].ready = run[r].ready
      /\ run'[r].seen = run[r].seen /\ run'[r].params = run[r].params /\ run'[r].exit = run[r].exit
  BY <1>1, <1>2 DEF RunRow
<1>4. run[r].ready \in BOOLEAN
  BY <1>1 DEF RunRow
<1>5. RunKnows(r)'
  BY <1>1, <1>3, <1>4 DEF RunKnows, Polling
<1> QED
  BY <1>5, QuietGoto

\* Checking the log group keeps DeployInv.
LEMMA VerifyLogGroupKeeps ==
    ASSUME DeployInv, NEW r \in Runners, VerifyLogGroup(r) PROVE DeployInv'
<1>1. run[r].pc = "logs" /\ Quiet /\ (Goto(r, "plan") \/ Exit(r, "error")) /\ ~run[r].ready
  BY DEF VerifyLogGroup, DeployInv, RunKnows
<1> QED
  BY <1>1, QuietExit, GotoKnows DEF RunPcs, Polling, Acting, Addressed, Reconciled

\* Planning keeps DeployInv.
LEMMA PlanKeeps ==
    ASSUME DeployInv, NEW r \in Runners, Plan(r) PROVE DeployInv'
<1>1. run[r].pc = "plan" /\ Quiet /\ ~run[r].ready /\ RunKnows(r)
  BY DEF Plan, DeployInv, RunKnows
<1>2. CASE Exit(r, "ok") \/ Exit(r, "error")
  BY <1>1, <1>2, QuietExit
<1>3. CASE Goto(r, "create")
  BY <1>1, <1>3, GotoKnows DEF RunPcs, Polling, Acting, Addressed, Reconciled
<1>4. CASE run[r].seen # None /\ Validates(r) /\ Goto(r, "address")
  <2> DEFINE found == run[r].seen
  <2>1. stack # None /\ stack.params = found.params /\ (found.status = "complete" => stack.status = "complete")
    BY <1>1, <1>4 DEF RunKnows
  <2>2. found.status = "complete" /\ found.params = [run[r].params EXCEPT !.ami = found.params.ami]
    BY <1>4 DEF Validates
  <2>3. run[r].params \in BuildParams
    BY <1>1 DEF RunKnows, DeployInv, TypeOK, RunRow
  <2>4. found.params.source = run[r].params.source
    BY <2>2, <2>3 DEF BuildParams
  <2> QED
    BY <1>1, <1>4, <2>1, <2>2, <2>4, GotoKnows DEF RunPcs, Polling, Acting, Addressed, Reconciled
<1> QED
  BY <1>2, <1>3, <1>4 DEF Plan

\* Waiting for the stack keeps DeployInv.
LEMMA WaitStackKeeps ==
    ASSUME DeployInv, NEW r \in Runners, WaitStack(r) PROVE DeployInv'
<1>1. run[r].pc = "wait" /\ Quiet /\ ~run[r].ready /\ stack # None /\ stack.params = run[r].params
  BY DEF WaitStack, DeployInv, RunKnows
<1>2. CASE stack.status = "complete" /\ Goto(r, "address")
  BY <1>1, <1>2, GotoKnows DEF RunPcs, Polling, Acting, Addressed, Reconciled
<1>3. CASE Exit(r, "error")
  BY <1>1, <1>3, QuietExit
<1> QED
  BY <1>2, <1>3 DEF WaitStack

\* Reading the address keeps DeployInv.
LEMMA PublicIpKeeps ==
    ASSUME DeployInv, NEW r \in Runners, PublicIp(r) PROVE DeployInv'
<1> DEFINE step == IF run[r].seen = None THEN "online" ELSE "probe"
           new == [run[r] EXCEPT !.ip = ip, !.pc = step]
<1>1. TypeOK /\ run \in [Runners -> RunRow] /\ run[r] \in RunRow /\ ip \in Ips /\ ip # None /\ RunKnows(r)
  BY DeployAssumption DEF DeployInv, TypeOK
<1>2. run[r].pc = "address" /\ Quiet /\ stack' = stack
  BY DEF PublicIp, Quiet, world
<1>3. run' = [run EXCEPT ![r] = new]
  BY <1>1 DEF PublicIp
<1>4. /\ new \in RunRow /\ new.pc \in {"online", "probe"} /\ new.seen = run[r].seen /\ new.params = run[r].params
      /\ new.ip = ip /\ new.ready = run[r].ready /\ new.exit = run[r].exit
  BY <1>1 DEF RunRow, RunPcs
<1> HIDE DEF new
<1>5. run' \in [Runners -> RunRow] /\ run'[r] = new /\ \A s \in Runners \ {r} : run'[s] = run[s]
  BY <1>1, <1>3, <1>4, RunTurns
<1>6. RunKnows(r)'
  BY <1>1, <1>2, <1>4, <1>5 DEF RunKnows, Acting, Addressed, Polling, Reconciled
<1> QED
  BY <1>2, <1>4, <1>5, <1>6, QuietStep DEF Polling

\* Probing keeps DeployInv.
LEMMA ProbeKeeps ==
    ASSUME DeployInv, NEW r \in Runners, Probe(r) PROVE DeployInv'
<1> DEFINE ready == PublicReady(r)
           new == [run[r] EXCEPT !.ready = ready, !.pc = "online"]
<1>1. /\ TypeOK /\ run \in [Runners -> RunRow] /\ run[r] \in RunRow /\ RunKnows(r)
      /\ https \in BOOLEAN /\ api \in BOOLEAN
  BY DEF DeployInv, TypeOK
<1>2. run[r].pc = "probe" /\ Quiet /\ stack' = stack
  BY DEF Probe, Quiet, world
<1>3. run' = [run EXCEPT ![r] = new]
  BY <1>1 DEF Probe
<1>4. ready \in BOOLEAN /\ (ready => dns = ip /\ https /\ api)
  BY <1>1 DEF PublicReady, Ready
<1> HIDE DEF ready
<1>5. /\ new \in RunRow /\ new.pc = "online" /\ new.seen = run[r].seen /\ new.params = run[r].params
      /\ new.ip = run[r].ip /\ new.ready = ready /\ new.exit = run[r].exit
  BY <1>1, <1>4 DEF RunRow, RunPcs
<1> HIDE DEF new
<1>6. run' \in [Runners -> RunRow] /\ run'[r] = new /\ \A s \in Runners \ {r} : run'[s] = run[s]
  BY <1>1, <1>3, <1>5, RunTurns
<1>7. RunKnows(r)'
  BY <1>1, <1>2, <1>5, <1>6 DEF RunKnows, Acting, Addressed, Polling, Reconciled
<1> QED
  BY <1>2, <1>4, <1>5, <1>6, <1>7, QuietStep DEF Polling

\* Waiting for DNS keeps DeployInv.
LEMMA WaitDnsKeeps ==
    ASSUME DeployInv, NEW r \in Runners, WaitDns(r) PROVE DeployInv'
<1>1. run[r].pc = "dns" /\ Quiet /\ ~run[r].ready /\ RunKnows(r) /\ Goto(r, "https")
  BY DEF WaitDns, DeployInv, RunKnows
<1> QED
  BY <1>1, GotoKnows DEF RunPcs, Polling, Acting, Addressed, Reconciled, RunKnows

\* The last check, and a wait that times out, keep DeployInv.
LEMMA FinishKeeps ==
    ASSUME DeployInv, NEW r \in Runners, VerifyReady(r) \/ TimesOut(r) PROVE DeployInv'
<1>1. run[r].pc # "idle" /\ Quiet /\ \E code \in {"ok", "error"} : Exit(r, code)
  BY DEF VerifyReady, TimesOut
<1> QED
  BY <1>1, QuietExit

-----------------------------------------------------------------------------
(* The steps of a run that create the stack, send a command or poll it *)

\* One run takes a step; the commands of the others go on.
LEMMA RunStep ==
    ASSUME DeployInv, TypeOK', UNCHANGED <<ip, record, dns, https, api, shaken>>, WorldGoesOn,
           stack' # None => OfOneBuild(stack'.params),
           NEW r \in Runners, run[r].pc # "idle", \A s \in Runners \ {r} : run'[s] = run[s], RunKnows(r)',
           run'[r].ip \in {None, run[r].ip}, run'[r].ready => run[r].ready,
           \A s \in Runners \ {r} : run[s].pc \in Polling => CommandGoesOn(run[s].cmd),
           \A c \in Slots : cmds'[c] \in {None, cmds[c]} \/ (run[r].ip # None /\ cmds'[c].ip = run[r].ip),
           OwnCommands'
    PROVE  DeployInv'
<1>1. \A s \in Runners : RunKnows(s)'
  BY RunStays DEF DeployInv
<1>2. \A s \in Runners : run[s].ready => run[s].pc # "idle"
  BY DEF DeployInv, RunKnows
<1>3. NothingStale'
  <2>1. \A s \in Runners : run'[s].pc # "idle" /\ s \notin shaken' => run[s].pc # "idle" /\ s \notin shaken
    OBVIOUS
  <2>2. \A s \in Runners : run'[s].ready => run[s].ready /\ run[s].pc # "idle" /\ (s \in shaken => s \in shaken')
    BY <1>2
  <2> QED
    BY <2>1, <2>2, StaleStays DEF DeployInv
<1> QED
  BY <1>1, <1>3 DEF DeployInv

\* Creating the stack keeps DeployInv: it is of the run's build, and another run that saw no
\* stack does not act on it.
LEMMA CreateKeeps ==
    ASSUME DeployInv, NEW r \in Runners, CreateStack(r) PROVE DeployInv'
<1>1. /\ TypeOK /\ run[r] \in RunRow /\ RunKnows(r) /\ run[r].pc = "create" /\ OwnCommands
      /\ UNCHANGED <<logs, ami, ip, record, dns, https, api, current, cmds, trouble, shaken>>
  BY DEF DeployInv, TypeOK, CreateStack, Create
<1>2. CASE stack # None /\ Exit(r, "error") /\ UNCHANGED stack
  BY <1>1, <1>2, QuietExit DEF Quiet, world
<1>3. CASE stack = None /\ stack' = [status |-> "creating", params |-> run[r].params] /\ Goto(r, "wait")
  <2>1. run[r].params \in BuildParams /\ OfOneBuild(run[r].params)
    BY <1>1 DEF RunKnows, RunRow
  <2>2. stack' \in Stack /\ stack' # None /\ stack'.params = run[r].params
    BY <1>3, <2>1, DeployAssumption DEF Stack
  <2>3. "wait" \in RunPcs
    BY DEF RunPcs
  <2>4. /\ run' \in [Runners -> RunRow] /\ \A s \in Runners \ {r} : run'[s] = run[s]
        /\ run'[r] = [run[r] EXCEPT !.pc = "wait"]
    BY <1>1, <1>3, <2>3, GotoTurns
  <2>5. /\ run'[r].pc = "wait" /\ run'[r].ip = run[r].ip /\ run'[r].ready = run[r].ready
        /\ run'[r].seen = run[r].seen /\ run'[r].params = run[r].params /\ run'[r].exit = run[r].exit
    BY <1>1, <2>4 DEF RunRow
  <2>6. TypeOK'
    BY <1>1, <2>2, <2>4 DEF TypeOK
  <2>7. WorldGoesOn /\ \A c : CommandGoesOn(c)
    BY <1>1, <1>3 DEF WorldGoesOn, CommandGoesOn, Reconciles
  <2>8. RunKnows(r)'
    BY <1>1, <1>3, <2>1, <2>2, <2>5 DEF RunKnows, Acting, Addressed, Polling, Reconciled
  <2>9. OwnCommands'
    BY <1>1, <2>4, <2>5, OwnStays DEF Polling
  <2> QED
    BY <1>1, <2>1, <2>2, <2>4, <2>5, <2>6, <2>7, <2>8, <2>9, RunStep
<1> QED
  BY <1>2, <1>3 DEF CreateStack, Create

\* A run that is interrupted keeps DeployInv, and its remote command goes on.
LEMMA GivesUpKeeps ==
    ASSUME DeployInv, NEW r \in Runners, GivesUp(r) PROVE DeployInv'
<1>1. /\ TypeOK /\ OwnCommands /\ run[r].pc # "idle" /\ Exit(r, "error") /\ trouble' \in 0 .. MaxTrouble
      /\ UNCHANGED <<stack, logs, ami, ip, record, dns, https, api, current, cmds, shaken>>
  BY DeployAssumption DEF DeployInv, TypeOK, GivesUp, world
<1>2. /\ run' \in [Runners -> RunRow] /\ \A s \in Runners \ {r} : run'[s] = run[s]
      /\ run'[r].pc = "idle" /\ run'[r].params = None /\ run'[r].seen = None /\ run'[r].ip = None
      /\ run'[r].ready = FALSE
  BY <1>1, ExitTurns
<1>3. TypeOK'
  BY <1>1, <1>2 DEF TypeOK
<1>4. WorldGoesOn /\ \A c : CommandGoesOn(c)
  BY <1>1 DEF WorldGoesOn, CommandGoesOn, Reconciles
<1>5. RunKnows(r)' /\ OwnCommands'
  BY <1>1, <1>2, EndedKnows, OwnStays DEF Polling
<1> QED
  BY <1>1, <1>2, <1>3, <1>4, <1>5, RunStep DEF DeployInv

\* Sending a remote command keeps DeployInv: no run polls the slot that it takes.
LEMMA SendKeeps ==
    ASSUME DeployInv, NEW r \in Runners, NEW kind \in {"dry", "https"}, NEW step \in Polling,
           run[r].pc \in Addressed \ Polling, Send(r, kind, step), UNCHANGED <<world, trouble, shaken>>,
           step = "poll" => kind = "dry", step = "poll_https" => current /\ ~run[r].ready
    PROVE  DeployInv'
<1>1. /\ TypeOK /\ OwnCommands /\ run \in [Runners -> RunRow] /\ run[r] \in RunRow /\ RunKnows(r)
      /\ cmds \in [Slots -> Command \cup {None}] /\ None \notin Command
      /\ UNCHANGED <<stack, logs, ami, ip, record, dns, https, api, current, trouble, shaken>>
  BY DeployAssumption DEF DeployInv, TypeOK, world
<1>2. PICK c \in Slots :
         /\ cmds[c] = None
         /\ cmds' = [cmds EXCEPT ![c] = [pc |-> kind, ip |-> run[r].ip, dns |-> ~run[r].ready]]
         /\ run' = [run EXCEPT ![r].pc = step, ![r].cmd = c]
  BY DEF Send
<1> DEFINE cmd == [pc |-> kind, ip |-> run[r].ip, dns |-> ~run[r].ready]
           new == [run[r] EXCEPT !.pc = step, !.cmd = c]
<1>3. run[r].ip \in Ips /\ run[r].ip # None /\ run[r].ready \in BOOLEAN
  BY <1>1 DEF RunKnows, RunRow
<1>4. cmd \in Command /\ cmd # None /\ cmd.pc = kind /\ cmd.ip = run[r].ip
  <2> DEFINE named == ~run[r].ready
  <2>1. named \in BOOLEAN
    OBVIOUS
  <2> HIDE DEF named
  <2>2. [pc |-> kind, ip |-> run[r].ip, dns |-> named] \in Command
    BY <1>3, <2>1 DEF Command
  <2>3. cmd \in Command
    BY <2>2 DEF named
  <2> QED
    BY <1>1, <2>3
<1>5. /\ new \in RunRow /\ new.pc = step /\ new.cmd = c /\ new.seen = run[r].seen /\ new.params = run[r].params
      /\ new.ip = run[r].ip /\ new.ready = run[r].ready /\ new.exit = run[r].exit
  BY <1>1 DEF RunRow, RunPcs, Polling
<1>6. cmds' = [cmds EXCEPT ![c] = cmd] /\ run' = [run EXCEPT ![r] = new]
  BY <1>1, <1>2
<1> HIDE DEF cmd, new
<1>7. /\ cmds' \in [Slots -> Command \cup {None}] /\ cmds'[c] = cmd /\ \A d \in Slots \ {c} : cmds'[d] = cmds[d]
      /\ run' \in [Runners -> RunRow] /\ run'[r] = new /\ \A s \in Runners \ {r} : run'[s] = run[s]
  BY <1>1, <1>4, <1>5, <1>6, RunTurns
<1>8. TypeOK'
  BY <1>1, <1>7 DEF TypeOK
<1>9. \A s \in Runners : run[s].pc \in Polling => run[s].cmd \in Slots \ {c}
  BY <1>1, <1>2 DEF DeployInv, RunKnows, TypeOK, RunRow
<1>10. WorldGoesOn /\ \A d \in Slots \ {c} : CommandGoesOn(d)
  BY <1>1, <1>7 DEF WorldGoesOn, CommandGoesOn, Reconciles
<1>11. RunKnows(r)'
  <2>1. kind = "dry" => Reconciles(c)'
    BY <1>4, <1>7 DEF Reconciles
  <2> QED
    BY <1>1, <1>4, <1>5, <1>7, <2>1 DEF RunKnows, Acting, Addressed, Polling, Reconciled
<1>12. OwnCommands'
  BY <1>1, <1>5, <1>7, <1>9 DEF OwnCommands
<1> QED
  <2>1. run[r].pc # "idle"
    BY DEF Addressed, Acting
  <2>2. \A d \in Slots : cmds'[d] \in {None, cmds[d]} \/ (run[r].ip # None /\ cmds'[d].ip = run[r].ip)
    BY <1>3, <1>4, <1>7
  <2>3. stack' # None => OfOneBuild(stack'.params)
    BY <1>1 DEF DeployInv
  <2>4. run'[r].ip = run[r].ip /\ run'[r].ready = run[r].ready
    BY <1>5, <1>7
  <2>5. \A s \in Runners \ {r} : run[s].pc \in Polling => CommandGoesOn(run[s].cmd)
    BY <1>9, <1>10
  <2> QED
    BY <1>1, <1>7, <1>8, <1>10, <1>11, <1>12, <2>1, <2>2, <2>3, <2>4, <2>5, RunStep

\* Polling ends with the command; the others poll commands of their own.
LEMMA PolledKeeps ==
    ASSUME DeployInv, NEW r \in Runners, run[r].pc \in Polling,
           cmds' = [cmds EXCEPT ![run[r].cmd] = None], UNCHANGED <<world, trouble, shaken>>,
           \/ \E code \in {"ok", "error"} : Exit(r, code)
           \/ current /\ ~run[r].ready /\ \E step \in {"dns", "final"} : Goto(r, step)
    PROVE  DeployInv'
<1> DEFINE c == run[r].cmd
<1>1. /\ TypeOK /\ OwnCommands /\ run \in [Runners -> RunRow] /\ run[r] \in RunRow /\ RunKnows(r)
      /\ cmds \in [Slots -> Command \cup {None}]
      /\ UNCHANGED <<stack, logs, ami, ip, record, dns, https, api, current, trouble, shaken>>
  BY DEF DeployInv, TypeOK, world
<1>2. c \in Slots
  BY <1>1 DEF RunKnows
<1>3. /\ cmds' \in [Slots -> Command \cup {None}] /\ cmds'[c] = None
      /\ \A d \in Slots \ {c} : cmds'[d] = cmds[d]
  BY <1>1, <1>2
<1>4. \A s \in Runners \ {r} : run[s].pc \in Polling => run[s].cmd \in Slots \ {c}
  BY <1>1 DEF DeployInv, RunKnows, OwnCommands
<1>5. WorldGoesOn /\ \A d \in Slots \ {c} : CommandGoesOn(d)
  BY <1>1, <1>3 DEF WorldGoesOn, CommandGoesOn, Reconciles
<1>6. /\ run' \in [Runners -> RunRow] /\ \A s \in Runners \ {r} : run'[s] = run[s]
      /\ run'[r].pc \notin Polling /\ run'[r].ip \in {None, run[r].ip} /\ run'[r].ready = FALSE
      /\ RunKnows(r)'
  <2>1. CASE \E code \in {"ok", "error"} : Exit(r, code)
    BY <1>1, <2>1, ExitTurns, EndedKnows DEF Polling
  <2>2. CASE current /\ ~run[r].ready /\ \E step \in {"dns", "final"} : Goto(r, step)
    <3>0. PICK step \in {"dns", "final"} : Goto(r, step)
      BY <2>2
    <3>1. step \in RunPcs /\ step \notin Polling /\ step \in Addressed /\ step \in Acting /\ step # "wait"
      BY DEF RunPcs, Polling, Addressed, Acting
    <3>2. /\ run' \in [Runners -> RunRow] /\ \A s \in Runners \ {r} : run'[s] = run[s]
          /\ run'[r] = [run[r] EXCEPT !.pc = step]
      BY <1>1, <3>0, <3>1, GotoTurns
    <3>3. /\ run'[r].pc = step /\ run'[r].ip = run[r].ip /\ run'[r].ready = run[r].ready
          /\ run'[r].seen = run[r].seen /\ run'[r].params = run[r].params /\ run'[r].exit = run[r].exit
          /\ run[r].ready = FALSE
      BY <1>1, <2>2, <3>2 DEF RunRow
    <3>4. run[r].pc \in Acting \cap Addressed /\ run[r].pc # "idle"
      BY DEF Polling, Acting, Addressed
    <3>5. RunKnows(r)'
      BY <1>1, <2>2, <3>1, <3>3, <3>4 DEF RunKnows
    <3> QED
      BY <3>1, <3>2, <3>3, <3>5
  <2> QED
    BY <2>1, <2>2
<1>7. TypeOK'
  BY <1>1, <1>3, <1>6 DEF TypeOK
<1>8. OwnCommands'
  BY <1>1, <1>6, OwnStays
<1>9. run[r].pc # "idle" /\ (stack' # None => OfOneBuild(stack'.params))
  BY <1>1 DEF DeployInv, Polling
<1>10. \A d \in Slots : cmds'[d] \in {None, cmds[d]}
  BY <1>3
<1> QED
  BY <1>1, <1>4, <1>5, <1>6, <1>7, <1>8, <1>9, <1>10, RunStep

\* Polling the catalogue's command keeps DeployInv.
LEMMA PollCatalogueKeeps ==
    ASSUME DeployInv, NEW r \in Runners, PollCatalogue(r) PROVE DeployInv'
<1>1. run[r].pc = "poll" /\ run[r].pc \in Polling /\ Reconciles(run[r].cmd)
  BY DEF DeployInv, RunKnows, PollCatalogue, Polling
<1>2. /\ cmds' = [cmds EXCEPT ![run[r].cmd] = None] /\ UNCHANGED <<world, trouble, shaken>>
      /\ IF cmds[run[r].cmd].pc = "done" THEN (IF run[r].ready THEN Exit(r, "ok") ELSE Goto(r, "dns"))
         ELSE Exit(r, "error")
  BY DEF PollCatalogue, Polled
<1> QED
  BY <1>1, <1>2, PolledKeeps DEF Reconciles

\* Polling the activation of HTTPS keeps DeployInv.
LEMMA PollHttpsKeeps ==
    ASSUME DeployInv, NEW r \in Runners, PollHttps(r) PROVE DeployInv'
<1>1. run[r].pc = "poll_https" /\ run[r].pc \in Polling /\ current /\ ~run[r].ready
  BY DEF DeployInv, RunKnows, PollHttps, Polling, Reconciled
<1>2. /\ cmds' = [cmds EXCEPT ![run[r].cmd] = None] /\ UNCHANGED <<world, trouble, shaken>>
      /\ IF cmds[run[r].cmd].pc = "done" THEN Goto(r, "final") ELSE Exit(r, "error")
  BY DEF PollHttps, Polled
<1> QED
  BY <1>1, <1>2, PolledKeeps

\* Sending the catalogue's command keeps DeployInv.
LEMMA SendCatalogueKeeps ==
    ASSUME DeployInv, NEW r \in Runners, SendCatalogue(r) PROVE DeployInv'
<1>1. /\ run[r].pc \in Addressed \ Polling /\ Send(r, "dry", "poll") /\ UNCHANGED <<world, trouble, shaken>>
      /\ "poll" \in Polling
  BY DEF SendCatalogue, Addressed, Acting, Polling
<1> QED
  BY <1>1, SendKeeps

\* Sending the activation of HTTPS keeps DeployInv.
LEMMA EnableHttpsKeeps ==
    ASSUME DeployInv, NEW r \in Runners, EnableHttps(r) PROVE DeployInv'
<1>1. /\ run[r].pc = "https" /\ run[r].pc \in Addressed \ Polling /\ current /\ ~run[r].ready /\ RunKnows(r)
      /\ run[r].pc \in Acting /\ "poll_https" \in Polling
  BY DEF DeployInv, RunKnows, EnableHttps, Addressed, Acting, Polling, Reconciled
<1>2. CASE Goto(r, "final") /\ Quiet
  BY <1>1, <1>2, GotoKnows DEF RunPcs, Polling, RunKnows
<1>3. CASE Send(r, "https", "poll_https") /\ UNCHANGED <<world, trouble, shaken>>
  BY <1>1, <1>3, SendKeeps
<1> QED
  BY <1>2, <1>3 DEF EnableHttps

\* Every step of a run keeps DeployInv.
LEMMA RunnerKeeps ==
    ASSUME DeployInv, NEW r \in Runners, RunnerStep(r) PROVE DeployInv'
  BY LookKeeps, VerifyLogGroupKeeps, PlanKeeps, CreateKeeps, WaitStackKeeps, PublicIpKeeps, ProbeKeeps,
     SendCatalogueKeeps, PollCatalogueKeeps, WaitDnsKeeps, EnableHttpsKeeps, PollHttpsKeeps, FinishKeeps
     DEF RunnerStep

-----------------------------------------------------------------------------
(* Commands, and what happens by itself *)

\* The runs stay as they are.
LEMMA RunsStay ==
    ASSUME DeployInv, TypeOK', UNCHANGED <<run, ip, shaken>>, WorldGoesOn,
           stack' # None => OfOneBuild(stack'.params), https => https', api => api',
           \A r \in Runners : run[r].pc \in Polling => CommandGoesOn(run[r].cmd),
           \A c \in Slots : cmds'[c] # None => cmds[c] # None /\ cmds'[c].ip = cmds[c].ip,
           \/ UNCHANGED <<record, dns>>
           \/ record' = record /\ dns # record /\ dns' = record
           \/ dns' = dns /\ \E c \in Slots : cmds[c] # None /\ record' = cmds[c].ip
    PROVE  DeployInv'
<1>1. \A r \in Runners : RunKnows(r)'
  BY RunStays DEF DeployInv
<1>2. OwnCommands'
  BY DEF DeployInv, OwnCommands
<1>3. NothingStale'
  <2>1. \A r \in Runners : run'[r].pc # "idle" /\ r \notin shaken' => run[r].pc # "idle" /\ r \notin shaken
    OBVIOUS
  <2>2. \A r \in Runners : run'[r].ready => run[r].ready /\ run[r].pc # "idle" /\ (r \in shaken => r \in shaken')
    BY DEF DeployInv, RunKnows
  <2> QED
    BY <2>1, <2>2, StaleStays DEF DeployInv
<1> QED
  BY <1>1, <1>2, <1>3 DEF DeployInv

\* A remote command that goes on leaves the others alone.
LEMMA CmdTurns ==
    ASSUME DeployInv, NEW c \in Slots, cmds[c] # None,
           NEW step \in {"check", "import", "dns", "done", "failed"}, CmdStep(c, step)
    PROVE  /\ cmds' \in [Slots -> Command \cup {None}] /\ \A d \in Slots \ {c} : cmds'[d] = cmds[d]
           /\ cmds'[c] # None /\ cmds'[c].pc = step /\ cmds'[c].ip = cmds[c].ip
<1> DEFINE new == [cmds[c] EXCEPT !.pc = step]
<1>1. cmds \in [Slots -> Command \cup {None}] /\ cmds[c] \in Command /\ None \notin Command
  BY DeployAssumption DEF DeployInv, TypeOK
<1>2. new \in Command /\ new.pc = step /\ new.ip = cmds[c].ip
  BY <1>1 DEF Command
<1>3. cmds' = [cmds EXCEPT ![c] = new]
  BY <1>1 DEF CmdStep
<1> HIDE DEF new
<1> QED
  BY <1>1, <1>2, <1>3

\* A command takes a step: one of the catalogue leaves it current.
LEMMA CommandTakes ==
    ASSUME DeployInv, TypeOK', NEW c \in Slots, cmds[c] # None,
           NEW step \in {"check", "import", "dns", "done", "failed"}, CmdStep(c, step),
           UNCHANGED <<run, stack, ip, shaken>>, current => current', https => https', api => api',
           \/ UNCHANGED <<record, dns>>
           \/ dns' = dns /\ record' = cmds[c].ip,
           Reconciles(c) /\ step \in {"dns", "done"} => current'
    PROVE  DeployInv'
<1>1. /\ \A d \in Slots \ {c} : cmds'[d] = cmds[d]
      /\ cmds'[c] # None /\ cmds'[c].pc = step /\ cmds'[c].ip = cmds[c].ip
  BY CmdTurns
<1>2. \A d \in Slots : CommandGoesOn(d)
  BY <1>1 DEF CommandGoesOn, Reconciles
<1>3. WorldGoesOn
  BY DEF WorldGoesOn
<1>4. \A r \in Runners : run[r].pc \in Polling => CommandGoesOn(run[r].cmd)
  BY <1>2 DEF DeployInv, RunKnows
<1> QED
  BY <1>1, <1>3, <1>4, RunsStay DEF DeployInv

\* Remote commands keep the types.
LEMMA CommandTypes ==
    ASSUME DeployInv, cmds' \in [Slots -> Command \cup {None}], UNCHANGED <<run, stack, logs, ami, ip, shaken>>,
           dns' \in Ips \cup {None}, record' \in Ips \cup {None}, https' \in BOOLEAN, api' \in BOOLEAN,
           current' \in BOOLEAN, trouble' \in 0 .. MaxTrouble
    PROVE  TypeOK'
  BY DEF DeployInv, TypeOK

\* Every step of a remote command, and its death, keeps DeployInv.
LEMMA CommandKeeps ==
    ASSUME DeployInv, NEW c \in Slots, CommandStep(c) \/ CommandDies(c) PROVE DeployInv'
<1>1. /\ cmds \in [Slots -> Command \cup {None}] /\ cmds[c] # None /\ cmds[c].ip \in Ips
      /\ dns \in Ips \cup {None} /\ record \in Ips \cup {None} /\ https \in BOOLEAN /\ api \in BOOLEAN
      /\ current \in BOOLEAN /\ trouble \in 0 .. MaxTrouble /\ UNCHANGED <<run, stack, logs, ami, ip, dns, shaken>>
  BY DeployAssumption DEF DeployInv, TypeOK, CommandStep, CommandDies, DryRun, CheckStopped, Import, UpdateDns,
     ActivateHttps, Forget, world, Command
<1>2. CASE DryRun(c)
  <2>1. PICK step \in {"check", "dns", "done"} : CmdStep(c, step) /\ (step # "check" => current)
    BY <1>1, <1>2 DEF DryRun, AfterImport
  <2>2. UNCHANGED <<record, https, api, current, trouble>>
    BY <1>2 DEF DryRun, world
  <2>3. TypeOK'
    BY <1>1, <2>1, <2>2, CmdTurns, CommandTypes
  <2> QED
    BY <1>1, <2>1, <2>2, <2>3, CommandTakes
<1>3. CASE CheckStopped(c)
  <2>1. PICK step \in {"failed", "import"} : CmdStep(c, step)
    BY <1>3 DEF CheckStopped
  <2>2. UNCHANGED <<record, https, api, current, trouble>>
    BY <1>3 DEF CheckStopped, world
  <2>3. TypeOK'
    BY <1>1, <2>1, <2>2, CmdTurns, CommandTypes
  <2> QED
    BY <1>1, <2>1, <2>2, <2>3, CommandTakes
<1>4. CASE Import(c)
  <2>1. PICK step \in {"dns", "done"} : CmdStep(c, step)
    BY <1>4 DEF Import, AfterImport
  <2>2. UNCHANGED <<record, https, api, trouble>> /\ current' = TRUE
    BY <1>4 DEF Import
  <2>3. TypeOK'
    BY <1>1, <2>1, <2>2, CmdTurns, CommandTypes
  <2> QED
    BY <1>1, <2>1, <2>2, <2>3, CommandTakes
<1>5. CASE UpdateDns(c)
  <2>1. cmds[c].pc = "dns" /\ CmdStep(c, "done") /\ record' = cmds[c].ip /\ UNCHANGED <<https, api, current, trouble>>
    BY <1>5 DEF UpdateDns
  <2>2. TypeOK'
    BY <1>1, <2>1, CmdTurns, CommandTypes
  <2> QED
    BY <1>1, <2>1, <2>2, CommandTakes DEF Reconciles
<1>6. CASE ActivateHttps(c)
  <2>1. cmds[c].pc = "https" /\ UNCHANGED <<record, current, trouble>>
    BY <1>6 DEF ActivateHttps
  <2>2. /\ https' \in BOOLEAN /\ api' \in BOOLEAN /\ (https => https') /\ (api => api')
        /\ \E step \in {"done", "failed"} : CmdStep(c, step)
    <3>1. CASE https' = TRUE /\ api' = TRUE /\ CmdStep(c, "done")
      BY <3>1
    <3>2. CASE CmdStep(c, "failed") /\ UNCHANGED <<https, api>>
      BY <1>1, <3>2
    <3> QED
      BY <1>6, <3>1, <3>2 DEF ActivateHttps
  <2>3. PICK step \in {"done", "failed"} : CmdStep(c, step)
    BY <2>2
  <2>4. TypeOK'
    BY <1>1, <2>1, <2>2, <2>3, CmdTurns, CommandTypes
  <2> QED
    BY <1>1, <2>1, <2>2, <2>3, <2>4, CommandTakes DEF Reconciles
<1>7. CASE CommandDies(c)
  <2>1. CmdStep(c, "failed") /\ UNCHANGED <<record, https, api, current>> /\ trouble' \in 0 .. MaxTrouble
    BY <1>1, <1>7, DeployAssumption DEF CommandDies, world
  <2>2. TypeOK'
    BY <1>1, <2>1, CmdTurns, CommandTypes
  <2> QED
    BY <1>1, <2>1, <2>2, CommandTakes
<1>8. CASE Forget(c)
  <2>1. /\ cmds' = [cmds EXCEPT ![c] = None] /\ UNCHANGED <<record, https, api, current, trouble>>
        /\ \A r \in Runners : run[r].pc \in Polling => run[r].cmd # c
    BY <1>8 DEF Forget, world, Polling
  <2>2. /\ cmds' \in [Slots -> Command \cup {None}] /\ cmds'[c] = None
        /\ \A d \in Slots \ {c} : cmds'[d] = cmds[d]
    BY <1>1, <2>1
  <2>3. TypeOK'
    BY <1>1, <2>1, <2>2, CommandTypes
  <2>4. \A d \in Slots \ {c} : CommandGoesOn(d)
    BY <2>1, <2>2 DEF CommandGoesOn, Reconciles
  <2>5. \A r \in Runners : run[r].pc \in Polling => CommandGoesOn(run[r].cmd)
    BY <2>1, <2>4 DEF DeployInv, RunKnows
  <2>6. WorldGoesOn
    BY <1>1, <2>1 DEF WorldGoesOn
  <2> QED
    BY <1>1, <2>1, <2>2, <2>3, <2>5, <2>6, RunsStay DEF DeployInv
<1> QED
  BY <1>2, <1>3, <1>4, <1>5, <1>6, <1>7, <1>8 DEF CommandStep

\* CloudFormation, DNS and the host keep DeployInv: an address that changes shakes every run.
LEMMA OutsideKeeps ==
    ASSUME DeployInv, Outside PROVE DeployInv'
<1>1. /\ TypeOK /\ ip \in Ips /\ dns \in Ips \cup {None} /\ record \in Ips \cup {None} /\ ami \in Amis
      /\ stack \in Stack \cup {None} /\ cmds \in [Slots -> Command \cup {None}] /\ trouble \in 0 .. MaxTrouble
      /\ None \notin Command /\ None \notin Stack /\ MaxTrouble \in Nat
  BY DeployAssumption DEF DeployInv, TypeOK
<1>2. CASE StackEnds
  <2>1. PICK s \in {"complete", "failed"} : stack' = [stack EXCEPT !.status = s]
    BY <1>2 DEF StackEnds
  <2>2. /\ stack # None /\ stack.status = "creating" /\ logs' \in BOOLEAN
        /\ UNCHANGED <<ami, ip, record, dns, https, api, current, cmds, run, trouble, shaken>>
    BY <1>2 DEF StackEnds
  <2>3. stack' \in Stack /\ stack' # None /\ stack'.params = stack.params
    BY <1>1, <2>1, <2>2 DEF Stack
  <2>4. TypeOK'
    BY <1>1, <2>2, <2>3 DEF TypeOK
  <2>5. WorldGoesOn /\ \A c : CommandGoesOn(c)
    BY <2>2, <2>3 DEF WorldGoesOn, CommandGoesOn, Reconciles
  <2> QED
    BY <2>2, <2>3, <2>4, <2>5, RunsStay DEF DeployInv
<1>3. CASE DnsSpreads
  <2>1. /\ dns # record /\ dns' = record
        /\ UNCHANGED <<stack, logs, ami, ip, record, https, api, current, cmds, run, trouble, shaken>>
    BY <1>3 DEF DnsSpreads
  <2>2. TypeOK'
    BY <1>1, <2>1 DEF TypeOK
  <2>3. WorldGoesOn /\ \A c : CommandGoesOn(c)
    BY <2>1 DEF WorldGoesOn, CommandGoesOn, Reconciles
  <2> QED
    BY <2>1, <2>2, <2>3, RunsStay DEF DeployInv
<1>4. CASE AmiAdvances
  <2>1. /\ trouble' \in 0 .. MaxTrouble /\ ami' \in Amis
        /\ UNCHANGED <<stack, logs, ip, record, dns, https, api, current, cmds, run, shaken>>
    BY <1>1, <1>4 DEF AmiAdvances
  <2>2. TypeOK'
    BY <1>1, <2>1 DEF TypeOK
  <2>3. WorldGoesOn /\ \A c : CommandGoesOn(c)
    BY <2>1 DEF WorldGoesOn, CommandGoesOn, Reconciles
  <2> QED
    BY <2>1, <2>2, <2>3, RunsStay DEF DeployInv
<1>5. CASE HostRestarts
  <2>1. /\ trouble' \in 0 .. MaxTrouble /\ ip' \in Ips /\ shaken' = Runners
        /\ cmds' = [c \in Slots |-> IF cmds[c] = None \/ cmds[c].pc = "done" THEN cmds[c]
                                    ELSE [cmds[c] EXCEPT !.pc = "failed"]]
        /\ UNCHANGED <<stack, logs, ami, record, dns, https, api, current, run>>
    BY <1>1, <1>5 DEF HostRestarts
  <2>2. ASSUME NEW c \in Slots
        PROVE  cmds'[c] \in Command \cup {None} /\ CommandGoesOn(c)
    <3>1. CASE cmds[c] = None \/ cmds[c].pc = "done"
      <4>1. cmds'[c] = cmds[c]
        BY <2>1, <3>1
      <4> QED
        BY <1>1, <2>1, <4>1 DEF CommandGoesOn, Reconciles
    <3>2. CASE ~(cmds[c] = None \/ cmds[c].pc = "done")
      <4>1. cmds[c] \in Command /\ cmds'[c] = [cmds[c] EXCEPT !.pc = "failed"]
        BY <1>1, <2>1, <3>2
      <4>2. cmds'[c] \in Command /\ cmds'[c].pc = "failed"
        BY <4>1 DEF Command
      <4> QED
        BY <1>1, <4>2 DEF CommandGoesOn, Reconciles
    <3> QED
      BY <3>1, <3>2
  <2>3. TypeOK'
    <3>1. cmds' \in [Slots -> Command \cup {None}]
      BY <2>1, <2>2
    <3> QED
      BY <1>1, <2>1, <3>1 DEF TypeOK
  <2>4. WorldGoesOn
    BY <2>1 DEF WorldGoesOn
  <2>5. \A r \in Runners : RunKnows(r)'
    <3>1. \A r \in Runners : run[r].pc \in Polling => run[r].cmd \in Slots
      BY DEF DeployInv, RunKnows
    <3> QED
      BY <2>1, <2>2, <2>4, <3>1, RunStays DEF DeployInv
  <2>6. OwnCommands' /\ NothingStale'
    BY <2>1 DEF DeployInv, OwnCommands, NothingStale
  <2> QED
    BY <2>1, <2>3, <2>5, <2>6 DEF DeployInv
<1> QED
  BY <1>2, <1>3, <1>4, <1>5 DEF Outside

-----------------------------------------------------------------------------
(* The theorems *)

\* DeployInv holds at first.
LEMMA DeployStarts == Init => DeployInv
<1> SUFFICES ASSUME Init PROVE DeployInv
  OBVIOUS
<1>1. /\ stack = None /\ logs = FALSE /\ record = None /\ dns = None /\ https = FALSE /\ api = FALSE
      /\ current = FALSE /\ cmds = [c \in Slots |-> None] /\ run = [r \in Runners |-> NoRun]
      /\ trouble = 0 /\ shaken = {}
  BY DEF Init
<1>2. ami \in Amis /\ ip \in Ips /\ MaxTrouble \in Nat
  BY DeployAssumption DEF Init
<1>3. TypeOK
  <2>1. cmds \in [Slots -> Command \cup {None}] /\ run \in [Runners -> RunRow]
    BY <1>1, NoRunShape
  <2>2. trouble \in 0 .. MaxTrouble
    BY <1>1, <1>2
  <2> QED
    BY <1>1, <1>2, <2>1, <2>2 DEF TypeOK
<1>4. \A r \in Runners : run[r].pc = "idle" /\ RunKnows(r)
  BY <1>1, NoRunShape DEF RunKnows, Acting, Addressed, Polling, Reconciled
<1> QED
  BY <1>1, <1>3, <1>4 DEF DeployInv, OwnCommands, NothingStale, Polling

\* Every step of a deployment keeps DeployInv.
LEMMA DeployKeeps == DeployInv /\ [Next]_vars => DeployInv'
<1> SUFFICES ASSUME DeployInv, [Next]_vars PROVE DeployInv'
  OBVIOUS
<1>1. CASE UNCHANGED vars
  <2>1. TypeOK'
    BY <1>1 DEF DeployInv, TypeOK, vars, world
  <2>2. WorldGoesOn /\ \A c : CommandGoesOn(c)
    BY <1>1 DEF WorldGoesOn, CommandGoesOn, Reconciles, vars, world
  <2> QED
    BY <1>1, <2>1, <2>2, RunsStay DEF DeployInv, vars, world
<1> QED
  BY <1>1, StartKeeps, RunnerKeeps, GivesUpKeeps, CommandKeeps, OutsideKeeps DEF Next

\* What a run has seen and done still holds whenever it acts on it.
THEOREM DeployInductive == Spec => []DeployInv
<1> QED
  BY DeployStarts, DeployKeeps, PTL DEF Spec

\* Every variable of the deployment keeps its type.
THEOREM DeployTypeCorrect == Spec => []TypeOK
<1>1. DeployInv => TypeOK
  BY DEF DeployInv
<1> QED
  BY <1>1, DeployInductive, PTL

\* Whatever artifacts are at hand and however many operators race to create the stack: its
\* template, images and source are of one build, and a run acts on a complete stack of its own.
THEOREM StacksAreOfOneBuild == Spec => []OneBuild
<1>1. DeployInv => OneBuild
  BY DEF DeployInv, OneBuild, OfOneBuild, RunKnows, Acting
<1> QED
  BY <1>1, DeployInductive, PTL

\* A run that reports a finished deployment, and met no change of the host's address, reports a
\* complete stack, a current catalogue and an API that answers at the hostname.
THEOREM ReportedSuccessIsReal == Spec => SuccessIsReal
<1>1. ASSUME DeployInv, [Next]_vars, NEW r \in Runners, run[r].pc # "idle", run[r].apply, run'[r].exit = "ok",
             r \notin shaken
      PROVE  stack.status = "complete" /\ current /\ dns = ip /\ https /\ api
  <2>1. /\ TypeOK /\ RunKnows(r) /\ run[r].exit = "none" /\ run \in [Runners -> RunRow]
        /\ run[r].ready => dns = ip /\ https /\ api
    BY <1>1 DEF DeployInv, RunKnows, NothingStale, TypeOK
  <2>2. PICK s \in Runners : Start(s) \/ RunnerStep(s) \/ GivesUp(s)
    <3>1. run'[r] # run[r]
      BY <1>1, <2>1
    <3> QED
      BY <1>1, <3>1 DEF Next, vars, CommandStep, CommandDies, DryRun, CheckStopped, Import, UpdateDns, ActivateHttps,
         Forget, Outside, StackEnds, DnsSpreads, AmiAdvances, HostRestarts
  <2>3. s = r
    <3>1. \A t \in Runners \ {s} : run'[t] = run[t]
      BY <2>1, <2>2 DEF Start, RunnerStep, GivesUp, Look, VerifyLogGroup, Plan, CreateStack, Create, WaitStack,
         PublicIp, Probe, SendCatalogue, PollCatalogue, WaitDns, EnableHttps, PollHttps, VerifyReady, TimesOut,
         Goto, Exit, Send, Polled
    <3> QED
      BY <1>1, <2>1, <3>1
  <2>4. /\ ~Exit(r, "error") /\ \A step : ~Goto(r, step)
    <3>1. ASSUME Exit(r, "error") PROVE run'[r].exit = "error"
      BY <2>1, <3>1 DEF Exit, NoRun
    <3>2. ASSUME NEW step, Goto(r, step) PROVE run'[r].exit = "none"
      <4>1. run[r] \in RunRow /\ run' = [run EXCEPT ![r].pc = step]
        BY <2>1, <3>2 DEF Goto
      <4> QED
        BY <2>1, <4>1 DEF RunRow
    <3> QED
      BY <1>1, <3>1, <3>2
  <2>5. \A kind, step : ~Send(r, kind, step)
    BY <1>1, <2>1 DEF Send, RunRow
  <2>6. ~Start(r) /\ ~Look(r) /\ ~PublicIp(r) /\ ~Probe(r)
    <3>1. run[r] \in RunRow
      BY <2>1
    <3>2. ~Start(r)
      BY <1>1 DEF Start
    <3>3. ~Look(r)
      BY <1>1, <2>1, <3>1 DEF Look, RunRow
    <3>4. ~PublicIp(r)
      <4> DEFINE step == IF run[r].seen = None THEN "online" ELSE "probe"
      <4>1. PublicIp(r) => run' = [run EXCEPT ![r].ip = ip, ![r].pc = step]
        BY DEF PublicIp
      <4> HIDE DEF step
      <4> QED
        BY <1>1, <2>1, <3>1, <4>1 DEF RunRow
    <3>5. ~Probe(r)
      <4> DEFINE ready == PublicReady(r)
      <4>1. Probe(r) => run' = [run EXCEPT ![r].ready = ready, ![r].pc = "online"]
        BY DEF Probe
      <4> HIDE DEF ready
      <4> QED
        BY <1>1, <2>1, <3>1, <4>1 DEF RunRow
    <3> QED
      BY <3>2, <3>3, <3>4, <3>5
  <2>7. (PollCatalogue(r) /\ run[r].ready) \/ VerifyReady(r)
    BY <1>1, <2>2, <2>3, <2>4, <2>5, <2>6
       DEF RunnerStep, SendCatalogue, GivesUp, VerifyLogGroup, Plan, CreateStack, Create, WaitStack,
           PollCatalogue, WaitDns, EnableHttps, PollHttps, TimesOut, Polled
  <2>8. CASE PollCatalogue(r) /\ run[r].ready
    <3>1. cmds[run[r].cmd].pc = "done"
      BY <2>4, <2>8 DEF PollCatalogue, Polled
    <3> QED
      BY <2>1, <2>8, <3>1 DEF PollCatalogue, RunKnows, Reconciles, Acting
  <2>9. CASE VerifyReady(r)
    BY <2>1, <2>9 DEF VerifyReady, Ready, RunKnows, Acting, Reconciled
  <2> QED
    BY <2>7, <2>8, <2>9
<1>2. DeployInv /\ [Next]_vars =>
         \A r \in Runners : run[r].pc # "idle" /\ run[r].apply /\ run'[r].exit = "ok" /\ r \notin shaken =>
            stack.status = "complete" /\ current /\ dns = ip /\ https /\ api
  BY <1>1
<1> QED
  BY <1>2, DeployInductive, PTL DEF SuccessIsReal, Spec

-----------------------------------------------------------------------------
(***************************************************************************)
(* Fetchers, for any listings, pages, retries and command lines: nothing   *)
(* usable is lost.  A listing is worked on over several steps (its detail  *)
(* page, then each link), so FetchInv says which listings are decided:     *)
(* those before next.  Of these every usable one has its job; and what the *)
(* detail page and the links of later listings tell does not touch them.   *)
(***************************************************************************)

GotJobs == {got[k] : k \in 1 .. Len(got)}

HasJob(k) == \E j \in 1 .. Len(jobs) : jobs[j].id = got[k].id

\* Listings before next are decided, the ones from next on are untouched, but for the links
\* of the one that is being checked.
FetchShape ==
    /\ pc \in {"get", "filter", "transform", "verify", "done", "cleaned"}
    /\ next \in Nat \ {0} /\ answers \in Seq(SUBSET Answers)
    /\ jobs \in Seq(GotJobs)
    /\ pc \in {"get", "filter"} => next = 1 /\ jobs = <<>> /\ answers = <<>> /\ told = {}
    /\ pc = "transform" => Len(answers) = next - 1 /\ told \subseteq 1 .. next - 1
    /\ pc = "verify" => Len(answers) = next /\ next <= Len(got) /\ told \subseteq 1 .. next

NothingLost ==
    /\ pc \in {"transform", "verify"} => \A k \in 1 .. next - 1 : Usable(k) => HasJob(k)
    /\ pc = "done" /\ exit \in {"0", "1"} => \A k \in 1 .. Len(got) : Usable(k) => HasJob(k)
    /\ pc = "done" /\ exit = "crash" /\ opt.source \in Paged => bad # "none"

FetchInv == FetchShape /\ NothingLost

\* A decided listing stays so: what it needs is not touched, and no job is lost.
LEMMA StaysDecided ==
    ASSUME NEW k, UNCHANGED <<opt, got>>, k \in told' <=> k \in told, answers[k] \subseteq answers'[k],
           HasJob(k) => HasJob(k)', Usable(k) => HasJob(k)
    PROVE  Usable(k)' => HasJob(k)'
<1>1. (k \in told') = (k \in told)
  OBVIOUS
<1>2. Flawless(k)' <=> Flawless(k)
  BY <1>1 DEF Flawless
<1> QED
  BY <1>2 DEF Usable

\* A job that is kept is added to those that are.
LEMMA JobsGrow ==
    ASSUME FetchShape, NEW raw \in GotJobs, jobs' = Append(jobs, raw), UNCHANGED got
    PROVE  /\ jobs' \in Seq(GotJobs) /\ \A k : HasJob(k) => HasJob(k)'
           /\ \A k : got[k].id = raw.id => HasJob(k)'
<1>1. jobs \in Seq(GotJobs)
  BY DEF FetchShape
<1>2. /\ jobs' \in Seq(GotJobs) /\ Len(jobs') = Len(jobs) + 1 /\ Len(jobs) \in Nat /\ jobs'[Len(jobs) + 1] = raw
      /\ \A j \in 1 .. Len(jobs) : jobs'[j] = jobs[j]
  BY <1>1
<1>3. /\ 1 .. Len(jobs) \subseteq 1 .. Len(jobs') /\ Len(jobs) + 1 \in 1 .. Len(jobs')
  BY <1>2
<1> QED
  BY <1>2, <1>3 DEF HasJob

\* The pages are received and filtered.
LEMMA FetchingKeeps ==
    ASSUME FetchInv, PageArrives \/ RateLimited \/ ConnectionFails \/ BadAnswer \/ Filter PROVE FetchInv'
<1>1. /\ next = 1 /\ jobs = <<>> /\ answers = <<>> /\ told = {}
      /\ UNCHANGED <<opt, next, jobs, answers, told>>
  BY DEF FetchInv, FetchShape, PageArrives, RateLimited, ConnectionFails, BadAnswer, Filter, working
<1>2. pc' \in {"get", "filter", "transform", "done"}
  <2>1. Raises => pc' = "done"
    BY DEF Raises, Ends
  <2> QED
    BY <2>1 DEF PageArrives, RateLimited, PauseUnknown, ConnectionFails, BadAnswer, Filter, Retry, GiveUp,
       FetchInv, FetchShape
<1>3. FetchShape'
  BY <1>1, <1>2 DEF FetchShape
<1>4. pc' = "done" => exit' \in {"2", "crash"} /\ (exit' = "crash" /\ opt.source \in Paged => bad' # "none")
  BY DEF PageArrives, RateLimited, PauseUnknown, ConnectionFails, BadAnswer, Filter, Retry, GiveUp, Raises, Ends
<1>5. NothingLost'
  BY <1>1, <1>2, <1>4 DEF NothingLost
<1> QED
  BY <1>3, <1>5 DEF FetchInv

\* Transforming a listing keeps FetchInv: it is dropped for a flaw, is a copy of a job, waits for
\* its links, or becomes a job.
LEMMA TransformKeeps == ASSUME FetchInv, Transform PROVE FetchInv'
<1>1. /\ FetchShape /\ pc = "transform" /\ next <= Len(got) /\ next \in Nat \ {0} /\ Len(answers) = next - 1
      /\ answers \in Seq(SUBSET Answers) /\ jobs \in Seq(GotJobs) /\ told \subseteq 1 .. next - 1
      /\ UNCHANGED <<opt, got, bad>>
      /\ \A k \in 1 .. next - 1 : Usable(k) => HasJob(k)
  BY DEF FetchInv, FetchShape, NothingLost, Transform, fetching
<1>2. PICK text \in BOOLEAN :
         /\ told' = IF text THEN told \cup {next} ELSE told
         /\ \/ FirstFlaw(opt, got[next], text) # "none" /\ Drop(FirstFlaw(opt, got[next], text)) /\ UNCHANGED pc
            \/ got[next].id \in SeenIds /\ Drop("duplicate") /\ UNCHANGED pc
            \/ \/ pc' = "verify" /\ UNCHANGED <<jobs, next>>
               \/ Keep(got[next]) /\ UNCHANGED pc
  BY DEF Transform
<1>3. answers' = Append(answers, {})
  BY <1>1 DEF Transform
<1>4. /\ answers' \in Seq(SUBSET Answers) /\ Len(answers') = next
      /\ \A k \in 1 .. next - 1 : answers'[k] = answers[k]
  BY <1>1, <1>3
<1>5. /\ told' \subseteq 1 .. next /\ \A k \in 1 .. next - 1 : k \in told' <=> k \in told
  BY <1>1, <1>2
<1>6. got[next] \in GotJobs /\ GotJobs' = GotJobs
  BY <1>1 DEF GotJobs
<1>n. PICK n \in Nat : n = next
  BY <1>1
<1>g. PICK raw \in GotJobs : raw = got[next]
  BY <1>6
<1>7. CASE /\ pc' = "verify" /\ UNCHANGED <<jobs, next>>
  <2>1. FetchShape'
    BY <1>1, <1>4, <1>5, <1>6, <1>7 DEF FetchShape
  <2>2. \A k \in 1 .. next - 1 : HasJob(k) => HasJob(k)'
    BY <1>1, <1>7 DEF HasJob
  <2>3. NothingLost'
    BY <1>1, <1>4, <1>5, <1>7, <2>2, StaysDecided DEF NothingLost
  <2> QED
    BY <2>1, <2>3 DEF FetchInv
<1>8. ASSUME pc' = "transform", next' = next + 1, jobs' \in Seq(GotJobs),
             \A k \in 1 .. next - 1 : HasJob(k) => HasJob(k)', Usable(n)' => HasJob(n)'
      PROVE  FetchInv'
  <2>1. next' - 1 = next /\ next' \in Nat \ {0}
    BY <1>1, <1>8
  <2>2. FetchShape'
    BY <1>1, <1>4, <1>5, <1>6, <1>8, <2>1 DEF FetchShape
  <2>3. ASSUME NEW k \in 1 .. next PROVE Usable(k)' => HasJob(k)'
    <3>1. CASE k = n
      BY <1>8, <3>1
    <3>2. CASE k \in 1 .. next - 1
      BY <1>1, <1>4, <1>5, <1>8, <3>2, StaysDecided
    <3> QED
      BY <1>1, <1>n, <3>1, <3>2
  <2>4. NothingLost'
    BY <1>8, <2>1, <2>3 DEF NothingLost
  <2> QED
    BY <2>2, <2>4 DEF FetchInv
<1>9. CASE FirstFlaw(opt, got[next], text) # "none" /\ Drop(FirstFlaw(opt, got[next], text)) /\ UNCHANGED pc
  <2>1. UNCHANGED jobs /\ next' = next + 1
    BY <1>9 DEF Drop, Becomes
  <2>2. (next \in told') = text
    BY <1>1, <1>2
  <2>3. ~Usable(n)'
    BY <1>1, <1>n, <1>9, <2>2 DEF Usable, Flawless
  <2>4. \A k : HasJob(k) => HasJob(k)'
    BY <1>1, <2>1 DEF HasJob
  <2> QED
    BY <1>1, <1>6, <1>8, <1>9, <2>1, <2>3, <2>4
<1>10. CASE got[next].id \in SeenIds /\ Drop("duplicate") /\ UNCHANGED pc
  <2>1. UNCHANGED jobs /\ next' = next + 1
    BY <1>10 DEF Drop, Becomes
  <2>2. \A k : HasJob(k) => HasJob(k)'
    BY <1>1, <2>1 DEF HasJob
  <2>3. HasJob(n)'
    BY <1>1, <1>n, <1>10, <2>1 DEF HasJob, SeenIds
  <2> QED
    BY <1>1, <1>6, <1>8, <1>10, <2>1, <2>2, <2>3
<1>11. CASE Keep(got[next]) /\ UNCHANGED pc
  <2>1. jobs' = Append(jobs, raw) /\ next' = next + 1
    BY <1>g, <1>11 DEF Keep, Becomes
  <2>2. jobs' \in Seq(GotJobs) /\ (\A k : HasJob(k) => HasJob(k)') /\ (got[n].id = raw.id => HasJob(n)')
    BY <1>1, <2>1, JobsGrow
  <2> QED
    BY <1>1, <1>n, <1>g, <1>6, <1>8, <1>11, <2>1, <2>2
<1> QED
  BY <1>2, <1>7, <1>9, <1>10, <1>11

\* Checking a link keeps FetchInv: a listing is dropped only for a link that is gone.
LEMMA CheckLinkKeeps == ASSUME FetchInv, CheckLink PROVE FetchInv'
<1>1. /\ FetchShape /\ pc = "verify" /\ next <= Len(got) /\ next \in Nat \ {0} /\ Len(answers) = next
      /\ answers \in Seq(SUBSET Answers) /\ jobs \in Seq(GotJobs) /\ told \subseteq 1 .. next
      /\ UNCHANGED <<opt, got, bad, told>>
      /\ \A k \in 1 .. next - 1 : Usable(k) => HasJob(k)
  BY DEF FetchInv, FetchShape, NothingLost, CheckLink, fetching
<1>2. PICK head \in Answers, get \in Answers :
         /\ answers' = [answers EXCEPT ![next] = @ \cup {FinalAnswer(head, get)}]
         /\ \/ Verdict(FinalAnswer(head, get)) = "dead" /\ Drop("dead") /\ pc' = "transform"
            \/ Keep(got[next]) /\ pc' = "transform"
            \/ UNCHANGED <<jobs, next>> /\ pc' = "verify"
  BY DEF CheckLink
<1> DEFINE a == FinalAnswer(head, get)
<1>3. a \in Answers /\ (Verdict(a) = "dead" => a \in {"gone", "no_host"})
  BY DEF FinalAnswer, Verdict
<1> HIDE DEF a
<1>4. answers' = [answers EXCEPT ![next] = answers[next] \cup {a}] /\ next \in 1 .. Len(answers)
  BY <1>1, <1>2 DEF a
<1>5. /\ answers' \in Seq(SUBSET Answers) /\ Len(answers') = next /\ a \in answers'[next]
      /\ \A k \in 1 .. next - 1 : answers'[k] = answers[k]
  <2>1. answers[next] \cup {a} \in SUBSET Answers
    BY <1>1, <1>3, <1>4
  <2> QED
    BY <1>1, <1>4, <2>1
<1>6. got[next] \in GotJobs /\ GotJobs' = GotJobs
  BY <1>1 DEF GotJobs
<1>n. PICK n \in Nat : n = next
  BY <1>1
<1>g. PICK raw \in GotJobs : raw = got[next]
  BY <1>6
<1>7. CASE UNCHANGED <<jobs, next>> /\ pc' = "verify"
  <2>1. FetchShape'
    BY <1>1, <1>5, <1>6, <1>7 DEF FetchShape
  <2>2. \A k \in 1 .. next - 1 : HasJob(k) => HasJob(k)'
    BY <1>1, <1>7 DEF HasJob
  <2>3. NothingLost'
    BY <1>1, <1>5, <1>7, <2>2, StaysDecided DEF NothingLost
  <2> QED
    BY <2>1, <2>3 DEF FetchInv
<1>8. ASSUME pc' = "transform", next' = next + 1, jobs' \in Seq(GotJobs),
             \A k \in 1 .. next - 1 : HasJob(k) => HasJob(k)', Usable(n)' => HasJob(n)'
      PROVE  FetchInv'
  <2>1. next' - 1 = next /\ next' \in Nat \ {0}
    BY <1>1, <1>8
  <2>2. FetchShape'
    BY <1>1, <1>5, <1>6, <1>8, <2>1 DEF FetchShape
  <2>3. ASSUME NEW k \in 1 .. next PROVE Usable(k)' => HasJob(k)'
    <3>1. CASE k = n
      BY <1>8, <3>1
    <3>2. CASE k \in 1 .. next - 1
      BY <1>1, <1>5, <1>8, <3>2, StaysDecided
    <3> QED
      BY <1>1, <1>n, <3>1, <3>2
  <2>4. NothingLost'
    BY <1>8, <2>1, <2>3 DEF NothingLost
  <2> QED
    BY <2>2, <2>4 DEF FetchInv
<1>9. CASE Verdict(a) = "dead" /\ Drop("dead") /\ pc' = "transform"
  <2>1. UNCHANGED jobs /\ next' = next + 1
    BY <1>9 DEF Drop, Becomes
  <2>2. ~Usable(n)'
    BY <1>3, <1>5, <1>n, <1>9 DEF Usable
  <2>3. \A k : HasJob(k) => HasJob(k)'
    BY <1>1, <2>1 DEF HasJob
  <2> QED
    BY <1>1, <1>6, <1>8, <1>9, <2>1, <2>2, <2>3
<1>10. CASE Keep(got[next]) /\ pc' = "transform"
  <2>1. jobs' = Append(jobs, raw) /\ next' = next + 1
    BY <1>g, <1>10 DEF Keep, Becomes
  <2>2. jobs' \in Seq(GotJobs) /\ (\A k : HasJob(k) => HasJob(k)') /\ (got[n].id = raw.id => HasJob(n)')
    BY <1>1, <2>1, JobsGrow
  <2> QED
    BY <1>1, <1>n, <1>g, <1>6, <1>8, <1>10, <2>1, <2>2
<1> QED
  BY <1>2, <1>7, <1>9, <1>10 DEF a

\* Writing and cleaning keep FetchInv.
LEMMA WriteKeeps == ASSUME FetchInv, Write \/ Clean \/ UNCHANGED fetchVars PROVE FetchInv'
<1>1. UNCHANGED <<opt, got, bad, told, answers, next, jobs>>
  BY DEF Write, Clean, fetchVars, fetching, working
<1>2. \A k : (Usable(k)' <=> Usable(k)) /\ (HasJob(k)' <=> HasJob(k))
  BY <1>1 DEF Usable, Flawless, HasJob
<1>3. CASE Write
  <2>1. pc = "transform" /\ next > Len(got) /\ pc' = "done" /\ exit' \in {"0", "1"}
    BY <1>3 DEF Write, Ends
  <2>2. FetchShape'
    BY <1>1, <2>1 DEF FetchInv, FetchShape, GotJobs
  <2>3. \A k \in 1 .. Len(got) : Usable(k) => HasJob(k)
    <3>1. Len(got) \in Nat /\ next \in Nat
      BY DEF FetchInv, FetchShape
    <3> QED
      BY <2>1, <3>1 DEF FetchInv, NothingLost
  <2> QED
    BY <1>1, <1>2, <2>1, <2>2, <2>3 DEF FetchInv, NothingLost
<1>4. CASE Clean
  <2>1. pc = "done" /\ exit' = exit /\ pc' \in {"done", "cleaned"}
    BY <1>4 DEF Clean
  <2> QED
    BY <1>1, <1>2, <2>1 DEF FetchInv, FetchShape, NothingLost, GotJobs
<1>5. CASE UNCHANGED fetchVars
  <2>1. UNCHANGED <<pc, exit>>
    BY <1>5 DEF fetchVars
  <2> QED
    BY <1>1, <1>2, <2>1 DEF FetchInv, FetchShape, NothingLost, GotJobs
<1> QED
  BY <1>3, <1>4, <1>5

\* Of the listings a fetcher has decided, every usable one has its job.
THEOREM FetchInductive == FetchSpec => []FetchInv
<1>1. FetchInit => FetchInv
  BY DEF FetchInit, FetchInv, FetchShape, NothingLost
<1>2. FetchInv /\ [FetchNext]_fetchVars => FetchInv'
  BY FetchingKeeps, TransformKeeps, CheckLinkKeeps, WriteKeeps DEF FetchNext, Run, FetchOver
<1> QED
  BY <1>1, <1>2, PTL DEF FetchSpec

-----------------------------------------------------------------------------
(* Least elements, and sequences of sequences *)

\* A non-empty set of numbers has a least one.
LEMMA LeastNumber ==
    ASSUME NEW T \in SUBSET Nat, T # {}
    PROVE  \E m \in T : \A n \in T : m <= n
<1>1. PICK m \in T : \A n \in T : <<n, m>> \notin OpToRel(<, Nat)
  BY WFMin, NatLessThanWellFounded, Zenon
<1>2. ASSUME NEW n \in T PROVE m <= n
  <2>1. <<n, m>> \notin OpToRel(<, Nat)
    BY <1>1
  <2>2. m \in Nat /\ n \in Nat
    OBVIOUS
  <2> QED
    BY <2>1, <2>2 DEF OpToRel
<1> QED
  BY <1>2

\* f holds what the first n sequences of T give one after the other.
Concatenates(f, T, n) ==
    \A i \in 1 .. n : f[i] = IF i = 1 THEN T[i] ELSE f[i - 1] \o T[i]

\* There is such a function: a least n without one would be one more than an n that has one.
LEMMA ConcatenationsExist ==
    ASSUME NEW S, NEW T \in Seq(Seq(S))
    PROVE  \E f \in [1 .. Len(T) -> Seq(S)] : Concatenates(f, T, Len(T))
<1> DEFINE Has(n) == \E f \in [1 .. n -> Seq(S)] : Concatenates(f, T, n)
           Fails == {n \in 0 .. Len(T) : ~Has(n)}
<1>1. SUFFICES ASSUME Fails # {} PROVE FALSE
  OBVIOUS
<1>2. PICK n \in Fails : \A k \in Fails : n <= k
  <2>1. Fails \in SUBSET Nat
    OBVIOUS
  <2> HIDE DEF Fails
  <2> QED
    BY <1>1, <2>1, LeastNumber
<1>3. n \in Nat /\ n <= Len(T) /\ ~Has(n) /\ \A i \in 1 .. Len(T) : T[i] \in Seq(S)
  BY <1>2
<1>4. n # 0
  <2>1. Has(0)
    <3>1. PICK f : f = [i \in 1 .. 0 |-> <<>>]
      OBVIOUS
    <3>2. f \in [1 .. 0 -> Seq(S)] /\ Concatenates(f, T, 0)
      BY <3>1 DEF Concatenates
    <3> QED
      BY <3>2
  <2> QED
    BY <1>3, <2>1
<1>5. Has(n - 1)
  <2>1. n - 1 \in 0 .. Len(T) /\ ~(n <= n - 1)
    BY <1>3, <1>4
  <2>2. n - 1 \notin Fails
    BY <1>2, <2>1
  <2> QED
    BY <2>1, <2>2
<1>6. PICK g \in [1 .. n - 1 -> Seq(S)] : Concatenates(g, T, n - 1)
  BY <1>5
<1> DEFINE last == IF n = 1 THEN T[n] ELSE g[n - 1] \o T[n]
           h == [i \in 1 .. n |-> IF i < n THEN g[i] ELSE last]
<1>7. last \in Seq(S)
  <2>1. T[n] \in Seq(S)
    BY <1>3, <1>4
  <2>2. n # 1 => g[n - 1] \in Seq(S)
    BY <1>3, <1>4
  <2> QED
    BY <2>1, <2>2
<1>8. h \in [1 .. n -> Seq(S)]
  <2> HIDE DEF last
  <2> QED
    BY <1>3, <1>7
<1>9. ASSUME NEW i \in 1 .. n PROVE h[i] = IF i = 1 THEN T[i] ELSE h[i - 1] \o T[i]
  <2>1. CASE i < n
    <3>1. h[i] = g[i] /\ i \in 1 .. n - 1 /\ (i # 1 => h[i - 1] = g[i - 1])
      BY <1>3, <2>1
    <3> QED
      BY <1>6, <3>1 DEF Concatenates
  <2>2. CASE i = n
    <3>1. h[i] = last /\ (i # 1 => h[i - 1] = g[i - 1])
      BY <1>3, <2>2
    <3> QED
      BY <2>2, <3>1
  <2> QED
    BY <1>3, <2>1, <2>2
<1>10. Has(n)
  BY <1>8, <1>9 DEF Concatenates
<1> QED
  BY <1>3, <1>10

\* Two such functions agree.
LEMMA ConcatenationsAgree ==
    ASSUME NEW T, NEW n \in Nat, NEW f, Concatenates(f, T, n), NEW g, Concatenates(g, T, n)
    PROVE  \A i \in 1 .. n : f[i] = g[i]
<1> DEFINE Differ == {i \in 1 .. n : f[i] # g[i]}
<1>1. SUFFICES ASSUME Differ # {} PROVE FALSE
  OBVIOUS
<1>2. PICK m \in Differ : \A i \in Differ : m <= i
  <2>1. Differ \in SUBSET Nat
    OBVIOUS
  <2> HIDE DEF Differ
  <2> QED
    BY <1>1, <2>1, LeastNumber
<1>3. m \in 1 .. n /\ m \in Nat /\ f[m] # g[m]
  OBVIOUS
<1>4. m # 1 => f[m - 1] = g[m - 1]
  <2>1. SUFFICES ASSUME m # 1 PROVE f[m - 1] = g[m - 1]
    OBVIOUS
  <2>2. m - 1 \in 1 .. n /\ ~(m <= m - 1)
    BY <1>3, <2>1
  <2>3. m - 1 \notin Differ
    BY <1>2, <2>2
  <2> QED
    BY <2>2, <2>3
<1>5. f[m] = (IF m = 1 THEN T[m] ELSE f[m - 1] \o T[m]) /\ g[m] = (IF m = 1 THEN T[m] ELSE g[m - 1] \o T[m])
  BY <1>3 DEF Concatenates
<1> QED
  BY <1>3, <1>4, <1>5

\* FlattenSeq is the last value of such a function.
LEMMA FlattenIsConcatenation ==
    ASSUME NEW S, NEW T \in Seq(Seq(S)), T # <<>>
    PROVE  \E f \in [1 .. Len(T) -> Seq(S)] : Concatenates(f, T, Len(T)) /\ FlattenSeq(T) = f[Len(T)]
<1> DEFINE Flattens(f) == f = [i \in 1 .. Len(T) |-> IF i = 1 THEN T[i] ELSE f[i - 1] \o T[i]]
           h == CHOOSE f : Flattens(f)
<1>1. FlattenSeq(T) = h[Len(T)]
  BY DEF FlattenSeq
<1>2. PICK g \in [1 .. Len(T) -> Seq(S)] : Concatenates(g, T, Len(T))
  BY ConcatenationsExist
<1>3. Flattens(h)
  <2>1. Flattens(g)
    BY <1>2 DEF Concatenates
  <2> QED
    BY <2>1
<1>4. Concatenates(h, T, Len(T))
  <2> HIDE DEF h
  <2> QED
    BY <1>3 DEF Concatenates
<1>5. Len(T) \in 1 .. Len(T)
  OBVIOUS
<1>6. h[Len(T)] = g[Len(T)]
  <2> HIDE DEF h
  <2>1. \A i \in 1 .. Len(T) : h[i] = g[i]
    BY <1>2, <1>4, ConcatenationsAgree
  <2> QED
    BY <1>5, <2>1
<1> QED
  BY <1>1, <1>2, <1>6

\* FlattenSeq gives a sequence.
LEMMA FlattenType ==
    ASSUME NEW S, NEW T \in Seq(Seq(S))
    PROVE  FlattenSeq(T) \in Seq(S)
<1>1. CASE T = <<>>
  BY <1>1 DEF FlattenSeq
<1>2. CASE T # <<>>
  <2>1. PICK f \in [1 .. Len(T) -> Seq(S)] : FlattenSeq(T) = f[Len(T)]
    BY <1>2, FlattenIsConcatenation
  <2>2. Len(T) \in 1 .. Len(T)
    BY <1>2
  <2> QED
    BY <2>1, <2>2
<1> QED
  BY <1>1, <1>2

\* A further sequence comes after what there is.
LEMMA FlattenAppend ==
    ASSUME NEW S, NEW T \in Seq(Seq(S)), NEW x \in Seq(S)
    PROVE  FlattenSeq(Append(T, x)) = FlattenSeq(T) \o x
<1> DEFINE U == Append(T, x)
<1>1. /\ U \in Seq(Seq(S)) /\ Len(U) = Len(T) + 1 /\ U[Len(U)] = x /\ Len(T) \in Nat
      /\ \A i \in 1 .. Len(T) : U[i] = T[i]
  OBVIOUS
<1> HIDE DEF U
<1>2. U # <<>>
  BY <1>1
<1>3. PICK g \in [1 .. Len(U) -> Seq(S)] : Concatenates(g, U, Len(U)) /\ FlattenSeq(U) = g[Len(U)]
  BY <1>1, <1>2, FlattenIsConcatenation
<1>4. g[Len(U)] = IF Len(U) = 1 THEN x ELSE g[Len(T)] \o x
  <2>1. Len(U) \in 1 .. Len(U) /\ Len(U) - 1 = Len(T)
    BY <1>1
  <2>2. g[Len(U)] = IF Len(U) = 1 THEN U[Len(U)] ELSE g[Len(U) - 1] \o U[Len(U)]
    BY <1>3, <2>1 DEF Concatenates
  <2> QED
    BY <1>1, <2>1, <2>2
<1>5. CASE T = <<>>
  <2>1. FlattenSeq(T) = <<>>
    BY <1>5 DEF FlattenSeq
  <2>2. FlattenSeq(T) \o x = x
    BY <2>1
  <2> QED
    BY <1>1, <1>3, <1>4, <1>5, <2>2 DEF U
<1>6. CASE T # <<>>
  <2>1. PICK f \in [1 .. Len(T) -> Seq(S)] : Concatenates(f, T, Len(T)) /\ FlattenSeq(T) = f[Len(T)]
    BY <1>6, FlattenIsConcatenation
  <2>2. Concatenates(g, T, Len(T))
    <3>1. \A i \in 1 .. Len(T) : i \in 1 .. Len(U) /\ U[i] = T[i]
      BY <1>1
    <3> QED
      BY <1>3, <3>1 DEF Concatenates
  <2>3. Len(T) \in 1 .. Len(T)
    BY <1>1, <1>6
  <2>4. f[Len(T)] = g[Len(T)]
    <3>1. Len(T) \in Nat /\ Concatenates(f, T, Len(T))
      BY <1>1, <2>1
    <3>2. \A i \in 1 .. Len(T) : f[i] = g[i]
      BY <2>2, <3>1, ConcatenationsAgree
    <3> QED
      BY <2>3, <3>2
  <2> QED
    BY <1>1, <1>3, <1>4, <1>6, <2>1, <2>3, <2>4 DEF U
<1> QED
  BY <1>5, <1>6

-----------------------------------------------------------------------------
(***************************************************************************)
(* The files of a fetcher, for the same runs: what is written and cleaned  *)
(* is of its types, has what the run could use, and what the importer may  *)
(* still refuse in it is known. BatchInv says why: the jobs that are kept  *)
(* have one identity each, a file is all of them, a run without a file has *)
(* none or one that cannot be quoted, and the cleaning, a job after the    *)
(* other, keeps what it has looked at.                                     *)
(***************************************************************************)

Fates == Flaws \cup {"duplicate", "dead", "kept"}
CleanJobs == {CleanJob(x, more) : x \in Listings, more \in BOOLEAN}

DistinctIds(s) == \A j, k \in 1 .. Len(s) : j # k => s[j].id # s[k].id

\* The types, and that the fetcher asks for a page only if there are some left
FetchTypes ==
    /\ FetchTypeOK
    /\ opt \in Options /\ got \in Seq(Listings) /\ links \in Nat /\ fate \in Seq(Fates)
    /\ clean \in Seq(CleanJobs)
    /\ pc = "get" => page < opt.pages

\* The jobs that are kept have one identity each, and the listing whose links are checked is
\* none of them.
JobsDistinct ==
    /\ DistinctIds(jobs)
    /\ pc = "verify" => got[next].id \notin SeenIds

\* The file is the jobs of a run that succeeded, and a run that kept jobs fails only for what
\* they quote; the cleaning keeps jobs it has looked at.
FilesKnown ==
    /\ exit = "0" => file = jobs
    /\ exit = "1" /\ jobs # <<>> => opt.source = "jsearch" /\ \E j \in 1 .. Len(jobs) : ~Quoted(jobs[j])
    /\ exit # "0" => clean = <<>>
    /\ pc = "done" /\ exit = "0" => swept < Len(file)
    /\ DistinctIds(clean)
    /\ \A k \in 1 .. Len(clean) : \E i \in 1 .. swept : clean[k].id = file[i].id

BatchInv == FetchInv /\ FetchTypes /\ JobsDistinct /\ FilesKnown

\* Cleaning leaves a listing its identity and no quote past the cut.
LEMMA CleanJobIs ==
    ASSUME NEW x \in Listings, NEW more \in BOOLEAN
    PROVE  /\ CleanJob(x, more) \in CleanJobs /\ CleanJob(x, more).id = x.id
           /\ CleanJob(x, more).past = "none" /\ CleanJob(x, more).note \in {"fine", "overlong"}
<1>1. x.note \in {"fine", "past", "overlong"} /\ DOMAIN x = {"id", "keyword", "flaws", "size", "past", "note", "links"}
  BY FetchAssumption
<1>2. Grown(x, more).id = x.id /\ Grown(x, more).note = x.note /\ DOMAIN Grown(x, more) = DOMAIN x
  BY <1>1 DEF Grown
<1>3. CleanJob(x, more).id = x.id /\ CleanJob(x, more).past = "none" /\ CleanJob(x, more).note \in {"fine", "overlong"}
  BY <1>1, <1>2 DEF CleanJob
<1> QED
  BY <1>3 DEF CleanJobs

\* The keyword leaves listings.
LEMMA MatchingIs ==
    ASSUME NEW s \in Seq(Listings) PROVE Matching(s) \in Seq(Listings)
<1> DEFINE T == [k \in DOMAIN s |-> IF s[k].keyword THEN <<s[k]>> ELSE <<>>]
<1>1. T \in Seq(Seq(Listings))
  <2>1. DOMAIN s = 1 .. Len(s) /\ Len(s) \in Nat /\ \A k \in 1 .. Len(s) : s[k] \in Listings
    OBVIOUS
  <2>2. \A k \in 1 .. Len(s) : T[k] \in Seq(Listings)
    BY <2>1
  <2>3. T \in [1 .. Len(s) -> Seq(Listings)]
    BY <2>1, <2>2
  <2> HIDE DEF T
  <2> QED
    BY <2>1, <2>3, IsASeq
<1> QED
  BY <1>1, FlattenType DEF Matching

\* A reason to drop a listing is one of the checks of its adapter.
LEMMA FirstFlawIs ==
    ASSUME NEW o \in Options, NEW raw, NEW text
    PROVE  FirstFlaw(o, raw, text) \in Flaws \cup {"none"}
<1> DEFINE checks == Checks(o.source)
           I == {i \in 1 .. Len(checks) : checks[i] \in FlawsOf(o, raw, text)}
<1>1. checks \in Seq(Flaws)
  <2>1. o.source \in Adapters
    BY FetchAssumption
  <2>2. TransformArbeitnow \in Seq(Flaws) /\ TransformAiJobsCo \in Seq(Flaws)
    BY DEF TransformArbeitnow, TransformAiJobsCo, Flaws
  <2>3. TransformAiDevJobs \in Seq(Flaws) /\ TransformRemoteok \in Seq(Flaws) /\ TransformRemotive \in Seq(Flaws)
    BY DEF TransformAiDevJobs, TransformRemoteok, TransformRemotive, Flaws
  <2>4. TransformListing \in Seq(Flaws)
    BY DEF TransformListing, Flaws
  <2> QED
    BY <2>1, <2>2, <2>3, <2>4 DEF Checks, Adapters, Paged, Snapshot
<1>2. I # {} => Min(I) \in I
  <2>1. I \in SUBSET Nat
    OBVIOUS
  <2> HIDE DEF I
  <2>2. SUFFICES ASSUME I # {} PROVE Min(I) \in I
    OBVIOUS
  <2>3. \E m \in I : \A n \in I : m <= n
    BY <2>1, <2>2, LeastNumber
  <2> QED
    BY <2>3 DEF Min
<1>3. SelectInSeq(checks, LAMBDA c : c \in FlawsOf(o, raw, text)) = IF I # {} THEN Min(I) ELSE 0
  BY DEF SelectInSeq
<1>4. \A i \in 1 .. Len(checks) : checks[i] \in Flaws
  BY <1>1
<1> QED
  BY <1>2, <1>3, <1>4 DEF FirstFlaw

\* Receiving and filtering pages
LEMMA FetchingBatch ==
    ASSUME BatchInv, PageArrives \/ RateLimited \/ ConnectionFails \/ BadAnswer \/ Filter
    PROVE  FetchTypes' /\ JobsDistinct' /\ FilesKnown'
<1>1. /\ FetchTypes /\ FetchTypeOK /\ JobsDistinct /\ FilesKnown /\ FetchShape
      /\ pc \in {"get", "filter"} /\ next = 1 /\ jobs = <<>> /\ exit = "none" /\ file = <<>> /\ clean = <<>>
      /\ UNCHANGED <<opt, next, jobs, links, enriched, fate, file, swept, clean>>
  BY DEF BatchInv, FetchInv, FetchShape, FetchTypes, FetchTypeOK, FilesKnown, PageArrives, RateLimited, ConnectionFails,
     BadAnswer, Filter, working, written
<1>2. /\ pc' \in {"get", "filter", "transform", "done"} /\ exit' \in {"none", "2", "crash"}
      /\ exit' = "none" <=> pc' # "done"
  <2>1. Raises => pc' = "done" /\ exit' \in {"2", "crash"}
    BY DEF Raises, Ends
  <2> QED
    BY <1>1, <2>1 DEF PageArrives, RateLimited, PauseUnknown, ConnectionFails, BadAnswer, Filter, Retry, GiveUp
<1>3. opt.pages \in Nat \ {0} /\ MaxRetries \in Nat /\ EnrichLimit \in Nat /\ PageSize \in Nat
  BY <1>1, FetchAssumption DEF FetchTypes
<1>4. /\ page' \in 0 .. opt.pages /\ attempt' \in 0 .. MaxRetries /\ got' \in Seq(Listings)
      /\ pc' = "get" => page' < opt.pages
  <2>1. CASE PageArrives
    <3>1. PICK items \in BoundedSeq(Listings, PageSize), more \in BOOLEAN :
             got' = got \o items /\ pc' = IF LastPage(items, more) THEN "filter" ELSE "get"
      BY <2>1 DEF PageArrives
    <3>2. items \in Seq(Listings)
      BY <1>3 DEF BoundedSeq, SeqOf
    <3>3. page < opt.pages /\ page' = page + 1 /\ attempt' = 0 /\ page \in Nat
      BY <1>1, <1>3, <2>1 DEF PageArrives, FetchTypes, FetchTypeOK
    <3>4. pc' = "get" => page + 1 # opt.pages
      BY <3>1 DEF LastPage
    <3> QED
      BY <1>1, <1>3, <3>1, <3>2, <3>3, <3>4 DEF FetchTypes
  <2>2. CASE RateLimited \/ ConnectionFails \/ BadAnswer
    <3>1. page' = page /\ got' = got /\ attempt' \in 0 .. MaxRetries
      BY <1>1, <1>3, <2>2 DEF RateLimited, PauseUnknown, ConnectionFails, BadAnswer, Retry, GiveUp,
         FetchTypes, FetchTypeOK
    <3>2. pc = "get"
      BY <2>2 DEF RateLimited, ConnectionFails, BadAnswer
    <3> QED
      BY <1>1, <3>1, <3>2 DEF FetchTypes, FetchTypeOK
  <2>3. CASE Filter
    <3>1. page' = page /\ attempt' = attempt /\ pc' = "transform" /\ (got' = got \/ got' = Matching(got))
      BY <2>3 DEF Filter
    <3> QED
      BY <1>1, <3>1, MatchingIs DEF FetchTypes, FetchTypeOK
  <2> QED
    BY <2>1, <2>2, <2>3
<1>5. FetchTypes'
  <2>1. next \in 1 .. Len(got') + 1
    BY <1>1, <1>4
  <2> QED
    BY <1>1, <1>2, <1>4, <2>1 DEF FetchTypes, FetchTypeOK
<1>6. JobsDistinct'
  BY <1>1, <1>2 DEF JobsDistinct, DistinctIds
<1>7. FilesKnown'
  BY <1>1, <1>2 DEF FilesKnown, DistinctIds
<1> QED
  BY <1>5, <1>6, <1>7

\* While listings are transformed nothing is written; a listing is worked on, is dropped or is kept.
LEMMA ListingBatch ==
    ASSUME BatchInv, pc \in {"transform", "verify"}, next <= Len(got), UNCHANGED <<opt, fetching, written, exit>>,
           enriched' \in 0 .. EnrichLimit, links' \in Nat, pc' \in {"transform", "verify"},
           pc' = "verify" <=> links' > 0,
           \/ UNCHANGED <<jobs, fate, next>> /\ (pc' = "verify" => got[next].id \notin SeenIds)
           \/ UNCHANGED jobs /\ pc' = "transform" /\ \E what \in Fates : Becomes(what)
           \/ Keep(got[next]) /\ got[next].id \notin SeenIds /\ pc' = "transform"
    PROVE  FetchTypes' /\ JobsDistinct' /\ FilesKnown'
<1>1. /\ FetchTypes /\ FetchTypeOK /\ JobsDistinct /\ FilesKnown /\ FetchShape
      /\ next \in Nat \ {0} /\ got \in Seq(Listings) /\ fate \in Seq(Fates) /\ Len(fate) = next - 1
      /\ exit = "none" /\ exit' = "none" /\ clean = <<>>
      /\ UNCHANGED <<page, attempt, got, file, swept, clean>>
  BY DEF BatchInv, FetchInv, FetchShape, FetchTypes, FetchTypeOK, FilesKnown, fetching, written
<1>2. \/ next' = next /\ fate' = fate
      \/ next' = next + 1 /\ \E what \in Fates : fate' = Append(fate, what)
  BY DEF Becomes, Keep, Fates
<1>3. fate' \in Seq(Fates) /\ Len(fate') = next' - 1 /\ next' \in 1 .. Len(got') + 1
  BY <1>1, <1>2
<1>4. FetchTypes'
  BY <1>1, <1>3 DEF FetchTypes, FetchTypeOK
<1>5. FilesKnown'
  BY <1>1 DEF FilesKnown, DistinctIds
<1>6. JobsDistinct'
  <2>1. jobs \in Seq(GotJobs) /\ Len(jobs) \in Nat
    BY <1>1 DEF FetchShape
  <2>2. CASE UNCHANGED <<jobs, next>>
    <3>1. pc' = "verify" => got[next].id \notin SeenIds
      BY <2>2 DEF Keep, Becomes
    <3> QED
      BY <1>1, <2>2, <3>1 DEF JobsDistinct, DistinctIds, SeenIds
  <2>3. CASE UNCHANGED jobs /\ pc' = "transform"
    BY <1>1, <2>3 DEF JobsDistinct, DistinctIds
  <2>4. CASE Keep(got[next]) /\ got[next].id \notin SeenIds /\ pc' = "transform"
    <3>1. PICK raw \in GotJobs : raw = got[next]
      BY <1>1 DEF GotJobs
    <3>2. jobs' = Append(jobs, raw) /\ \A k \in 1 .. Len(jobs) : jobs[k].id # raw.id
      BY <2>4, <3>1 DEF Keep, SeenIds
    <3>3. /\ Len(jobs') = Len(jobs) + 1 /\ jobs'[Len(jobs) + 1] = raw
          /\ \A k \in 1 .. Len(jobs) : jobs'[k] = jobs[k]
      BY <2>1, <3>2
    <3>4. ASSUME NEW j \in 1 .. Len(jobs'), NEW k \in 1 .. Len(jobs'), j # k PROVE jobs'[j].id # jobs'[k].id
      <4>1. \A i \in 1 .. Len(jobs') : i \in 1 .. Len(jobs) \/ i = Len(jobs) + 1
        BY <2>1, <3>3
      <4> QED
        BY <1>1, <3>2, <3>3, <3>4, <4>1 DEF JobsDistinct, DistinctIds
    <3> QED
      BY <2>4, <3>4 DEF JobsDistinct, DistinctIds
  <2> QED
    BY <2>2, <2>3, <2>4
<1> QED
  BY <1>4, <1>5, <1>6

\* Transforming a listing
LEMMA TransformBatch == ASSUME BatchInv, Transform PROVE FetchTypes' /\ JobsDistinct' /\ FilesKnown'
<1>1. /\ FetchTypes /\ FetchTypeOK /\ FetchShape /\ pc = "transform" /\ next <= Len(got) /\ links = 0
      /\ next \in Nat \ {0} /\ got \in Seq(Listings) /\ opt \in Options
      /\ UNCHANGED <<opt, fetching, written, exit>>
  BY DEF BatchInv, FetchInv, FetchShape, FetchTypes, FetchTypeOK, Transform
<1>2. got[next] \in Listings /\ got[next].links \in 1 .. 2
  BY <1>1, FetchAssumption
<1>3. enriched' \in 0 .. EnrichLimit
  BY <1>1, FetchAssumption DEF FetchTypeOK, Transform, DoEnrich
<1>4. PICK text \in BOOLEAN :
         \/ FirstFlaw(opt, got[next], text) # "none" /\ Drop(FirstFlaw(opt, got[next], text)) /\ UNCHANGED <<pc, links>>
         \/ Drop("duplicate") /\ UNCHANGED <<pc, links>>
         \/ /\ got[next].id \notin SeenIds
            /\ \/ pc' = "verify" /\ links' = got[next].links /\ UNCHANGED <<jobs, fate, next>>
               \/ Keep(got[next]) /\ UNCHANGED <<pc, links>>
  BY DEF Transform
<1>5. FirstFlaw(opt, got[next], text) \in Flaws \cup {"none"}
  BY <1>1, FirstFlawIs
<1>6. \A what : Drop(what) => UNCHANGED jobs /\ Becomes(what)
  BY DEF Drop
<1>7. "duplicate" \in Fates /\ Flaws \subseteq Fates
  BY DEF Fates
<1>8. CASE /\ \E what \in Fates : Drop(what)
           /\ UNCHANGED <<pc, links>>
  <2>1. pc' = "transform" /\ links' = 0 /\ links' \in Nat /\ ~(links' > 0)
    BY <1>1, <1>8
  <2>2. UNCHANGED jobs /\ \E what \in Fates : Becomes(what)
    BY <1>6, <1>8
  <2> QED
    BY <1>1, <1>3, <2>1, <2>2, ListingBatch
<1>9. CASE got[next].id \notin SeenIds /\ pc' = "verify" /\ links' = got[next].links /\ UNCHANGED <<jobs, fate, next>>
  <2>1. links' \in Nat /\ links' > 0
    BY <1>2, <1>9
  <2> QED
    BY <1>1, <1>3, <1>9, <2>1, ListingBatch
<1>10. CASE got[next].id \notin SeenIds /\ Keep(got[next]) /\ UNCHANGED <<pc, links>>
  <2>1. pc' = "transform" /\ links' = 0 /\ links' \in Nat /\ ~(links' > 0)
    BY <1>1, <1>10
  <2> QED
    BY <1>1, <1>3, <1>10, <2>1, ListingBatch
<1> QED
  BY <1>4, <1>5, <1>7, <1>8, <1>9, <1>10

\* Checking a link
LEMMA CheckLinkBatch == ASSUME BatchInv, CheckLink PROVE FetchTypes' /\ JobsDistinct' /\ FilesKnown'
<1>1. /\ FetchTypes /\ FetchTypeOK /\ JobsDistinct /\ FetchShape /\ pc = "verify" /\ next <= Len(got) /\ links \in Nat /\ links > 0
      /\ got[next].id \notin SeenIds /\ enriched' \in 0 .. EnrichLimit
      /\ UNCHANGED <<opt, fetching, written, exit>>
  BY DEF BatchInv, FetchInv, FetchShape, FetchTypes, FetchTypeOK, JobsDistinct, CheckLink
<1>2. \/ Drop("dead") /\ links' = 0 /\ pc' = "transform"
      \/ links' = links - 1 /\ links = 1 /\ pc' = "transform" /\ Keep(got[next])
      \/ links' = links - 1 /\ links # 1 /\ pc' = "verify" /\ UNCHANGED <<jobs, fate, next>>
  BY DEF CheckLink
<1>3. CASE Drop("dead") /\ links' = 0 /\ pc' = "transform"
  <2>1. UNCHANGED jobs /\ \E what \in Fates : Becomes(what)
    BY <1>3 DEF Drop, Fates
  <2>2. links' \in Nat /\ ~(links' > 0)
    BY <1>3
  <2> QED
    BY <1>1, <1>3, <2>1, <2>2, ListingBatch
<1>4. CASE links' = links - 1 /\ links = 1 /\ pc' = "transform" /\ Keep(got[next])
  <2>1. links' \in Nat /\ ~(links' > 0)
    BY <1>4
  <2> QED
    BY <1>1, <1>4, <2>1, ListingBatch
<1>5. CASE links' = links - 1 /\ links # 1 /\ pc' = "verify" /\ UNCHANGED <<jobs, fate, next>>
  <2>1. links' \in Nat /\ links' > 0
    BY <1>1, <1>5
  <2> QED
    BY <1>1, <1>5, <2>1, ListingBatch
<1> QED
  BY <1>2, <1>3, <1>4, <1>5

\* Writing the file
LEMMA WriteBatch == ASSUME BatchInv, Write PROVE FetchTypes' /\ JobsDistinct' /\ FilesKnown'
<1>1. /\ FetchTypes /\ FetchTypeOK /\ JobsDistinct /\ FilesKnown /\ pc = "transform" /\ exit = "none" /\ file = <<>>
      /\ swept = 0 /\ clean = <<>> /\ jobs \in Seq(GotJobs) /\ got \in Seq(Listings) /\ pc' = "done" /\ links = 0
      /\ UNCHANGED <<opt, page, attempt, got, next, enriched, fate, links, jobs, swept, clean>>
  BY DEF BatchInv, FetchInv, FetchShape, FetchTypes, FetchTypeOK, FilesKnown, Write, Ends, fetching, working
<1>2. \/ exit' = "1" /\ file' = <<>> /\ (jobs # <<>> => ~Checked)
      \/ exit' = "0" /\ file' = jobs /\ jobs # <<>> /\ Checked
  BY <1>1 DEF Write, Ends
<1>3. Len(jobs) \in Nat /\ swept' \in 0 .. Len(file')
  BY <1>1, <1>2
<1>4. FetchTypes'
  BY <1>1, <1>2, <1>3 DEF FetchTypes, FetchTypeOK
<1>5. JobsDistinct'
  BY <1>1 DEF JobsDistinct, DistinctIds
<1>6. FilesKnown'
  <2>1. \A n \in 1 .. Len(jobs) : jobs[n].size # "over"
    <3>1. \A x \in Listings : x.size # "over"
      BY FetchAssumption
    <3>2. \A n \in 1 .. Len(jobs) : jobs[n] \in GotJobs
      BY <1>1
    <3>3. GotJobs \subseteq Listings
      BY <1>1 DEF GotJobs
    <3> QED
      BY <3>1, <3>2, <3>3
  <2>2. exit' = "1" /\ jobs # <<>> => opt.source = "jsearch" /\ \E n \in 1 .. Len(jobs) : ~Quoted(jobs[n])
    BY <1>1, <1>2, <2>1 DEF Checked, Importable, JobsDistinct, DistinctIds
  <2>3. exit' = "1" /\ jobs' # <<>> => opt'.source = "jsearch" /\ \E n \in 1 .. Len(jobs') : ~Quoted(jobs'[n])
    BY <1>1, <2>2
  <2> QED
    BY <1>1, <1>2, <2>3 DEF FilesKnown, DistinctIds, Quoted
<1> QED
  BY <1>4, <1>5, <1>6

\* Cleaning a job of the file: the ones that were kept before are of other jobs.
LEMMA CleanBatch == ASSUME BatchInv, Clean PROVE FetchTypes' /\ JobsDistinct' /\ FilesKnown'
<1>1. /\ FetchTypes /\ FetchTypeOK /\ JobsDistinct /\ FilesKnown /\ pc = "done" /\ exit = "0" /\ file = jobs
      /\ jobs \in Seq(GotJobs) /\ got \in Seq(Listings) /\ swept \in Nat /\ swept < Len(file) /\ Len(file) \in Nat
      /\ swept' = swept + 1 /\ clean \in Seq(CleanJobs) /\ links = 0
      /\ pc' = IF swept + 1 = Len(file) THEN "cleaned" ELSE "done"
      /\ UNCHANGED <<opt, page, attempt, got, next, enriched, fate, links, jobs, exit, file>>
  BY DEF BatchInv, FetchInv, FetchShape, FetchTypes, FetchTypeOK, FilesKnown, Clean, fetching, working
<1>2. PICK n \in Nat : n = swept + 1
  BY <1>1
<1>3. n \in 1 .. Len(file) /\ file[n] \in Listings
  <2>1. GotJobs \subseteq Listings
    BY <1>1 DEF GotJobs
  <2>2. n \in 1 .. Len(jobs)
    BY <1>1, <1>2
  <2>3. jobs[n] \in GotJobs
    BY <1>1, <2>2
  <2> QED
    BY <1>1, <2>1, <2>2, <2>3
<1>4. PICK j \in Listings : j = file[n]
  BY <1>3
<1>5. PICK more \in BOOLEAN : clean' = clean \/ clean' = Append(clean, CleanJob(j, more))
  BY <1>2, <1>4 DEF Clean
<1>6. CleanJob(j, more) \in CleanJobs /\ CleanJob(j, more).id = j.id
  BY CleanJobIs
<1>7. clean' \in Seq(CleanJobs)
  <2>1. PICK c \in CleanJobs : c = CleanJob(j, more)
    BY <1>6
  <2>2. clean' = clean \/ clean' = Append(clean, c)
    BY <1>5, <2>1
  <2>3. clean \in Seq(CleanJobs)
    BY <1>1
  <2> QED
    BY <2>2, <2>3, AppendProperties
<1>8. FetchTypes'
  <2>1. swept' \in 0 .. Len(file') /\ (pc' = "cleaned" => swept' = Len(file'))
    BY <1>1
  <2> QED
    BY <1>1, <1>7, <2>1 DEF FetchTypes, FetchTypeOK
<1>9. JobsDistinct'
  BY <1>1 DEF JobsDistinct, DistinctIds
<1>10. \A k \in 1 .. Len(clean) : clean[k].id # j.id /\ \E i \in 1 .. swept : clean[k].id = file[i].id
  BY <1>1, <1>2, <1>3, <1>4 DEF FilesKnown, JobsDistinct, DistinctIds
<1>11. DistinctIds(clean') /\ \A k \in 1 .. Len(clean') : \E i \in 1 .. swept' : clean'[k].id = file'[i].id
  <2>1. \A i \in 1 .. swept : i \in 1 .. swept'
    BY <1>1
  <2>2. CASE clean' = clean
    BY <1>1, <1>10, <2>1, <2>2 DEF FilesKnown, DistinctIds
  <2>3. CASE clean' = Append(clean, CleanJob(j, more))
    <3>1. /\ Len(clean) \in Nat /\ Len(clean') = Len(clean) + 1 /\ clean'[Len(clean) + 1].id = j.id
          /\ \A k \in 1 .. Len(clean) : clean'[k] = clean[k]
      BY <1>1, <1>6, <2>3
    <3>2. \A k \in 1 .. Len(clean') : k \in 1 .. Len(clean) \/ k = Len(clean) + 1
      BY <3>1
    <3>3. DistinctIds(clean')
      <4>1. \A k, m \in 1 .. Len(clean) : k # m => clean[k].id # clean[m].id
        BY <1>1 DEF FilesKnown, DistinctIds
      <4>2. SUFFICES ASSUME NEW k \in 1 .. Len(clean'), NEW m \in 1 .. Len(clean'), k # m
                     PROVE  clean'[k].id # clean'[m].id
        BY DEF DistinctIds
      <4>3. CASE k \in 1 .. Len(clean) /\ m \in 1 .. Len(clean)
        BY <3>1, <4>1, <4>2, <4>3
      <4>4. CASE k \in 1 .. Len(clean) /\ m = Len(clean) + 1
        BY <1>10, <3>1, <4>4
      <4>5. CASE k = Len(clean) + 1 /\ m \in 1 .. Len(clean)
        BY <1>10, <3>1, <4>5
      <4> QED
        BY <3>2, <4>2, <4>3, <4>4, <4>5
    <3>4. n \in 1 .. swept' /\ file'[n].id = j.id
      BY <1>1, <1>2, <1>3, <1>4
    <3>5. ASSUME NEW k \in 1 .. Len(clean') PROVE \E i \in 1 .. swept' : clean'[k].id = file'[i].id
      <4>1. CASE k \in 1 .. Len(clean)
        BY <1>1, <1>10, <2>1, <3>1, <4>1
      <4>2. CASE k = Len(clean) + 1
        BY <3>1, <3>4, <4>2
      <4> QED
        BY <3>2, <4>1, <4>2
    <3> QED
      BY <3>3, <3>5
  <2> QED
    BY <1>5, <2>2, <2>3
<1>12. FilesKnown'
  BY <1>1, <1>11 DEF FilesKnown, Quoted
<1> QED
  BY <1>8, <1>9, <1>12

\* What a fetcher has kept, written and cleaned stays of distinct identities, in every step.
THEOREM BatchInductive == FetchSpec => []BatchInv
<1>1. FetchInit => BatchInv
  <2> SUFFICES ASSUME FetchInit PROVE BatchInv
    OBVIOUS
  <2>1. FetchInv
    BY DEF FetchInit, FetchInv, FetchShape, NothingLost
  <2>2. opt.pages \in Nat \ {0} /\ MaxRetries \in Nat /\ EnrichLimit \in Nat
    BY FetchAssumption DEF FetchInit
  <2>3. FetchTypes
    BY <2>2 DEF FetchInit, FetchTypes, FetchTypeOK
  <2> QED
    BY <2>1, <2>3 DEF FetchInit, BatchInv, JobsDistinct, FilesKnown, DistinctIds
<1>2. BatchInv /\ [FetchNext]_fetchVars => BatchInv'
  <2> SUFFICES ASSUME BatchInv, [FetchNext]_fetchVars PROVE BatchInv'
    OBVIOUS
  <2>1. FetchInv'
    BY FetchingKeeps, TransformKeeps, CheckLinkKeeps, WriteKeeps DEF BatchInv, FetchNext, Run, FetchOver
  <2>2. ASSUME UNCHANGED fetchVars PROVE FetchTypes' /\ JobsDistinct' /\ FilesKnown'
    BY <2>2 DEF fetchVars, BatchInv, FetchTypes, FetchTypeOK, JobsDistinct, FilesKnown, DistinctIds, SeenIds, Quoted
  <2> QED
    BY <2>1, <2>2, FetchingBatch, TransformBatch, CheckLinkBatch, WriteBatch, CleanBatch
       DEF BatchInv, FetchNext, Run, FetchOver
<1> QED
  BY <1>1, <1>2, PTL DEF FetchSpec

\* Every run of a fetcher keeps the types of its state and within its limits of pages, retries and
\* detail pages.
THEOREM FetchTypeCorrect == FetchSpec => []FetchTypeOK
<1>1. BatchInv => FetchTypeOK
  BY DEF BatchInv, FetchTypes
<1> QED
  BY <1>1, BatchInductive, PTL

\* Whatever pages, rate limits, lost connections, copies and links a run of a fetcher meets, its
\* file has every usable listing; a run without one had none, is a JSearch run whose quotes the
\* importer refuses, or met an answer or a Retry-After it cannot read.
THEOREM NothingUsableIsLost == FetchSpec => []KeepsWhatItHas
<1>1. BatchInv => KeepsWhatItHas
  <2>1. SUFFICES ASSUME BatchInv, pc = "done" PROVE KeepsWhatItHas
    BY DEF KeepsWhatItHas
  <2>2. exit \in {"0", "1"} => \A k \in 1 .. Len(got) : Usable(k) => HasJob(k)
    BY <2>1 DEF BatchInv, FetchInv, NothingLost
  <2>3. exit = "crash" /\ opt.source \in Paged => bad # "none"
    BY <2>1 DEF BatchInv, FetchInv, NothingLost
  <2>4. exit = "0" => file = jobs
    BY <2>1 DEF BatchInv, FilesKnown
  <2>5. exit = "1" /\ jobs # <<>> => opt.source = "jsearch" /\ \E j \in 1 .. Len(jobs) : ~Quoted(jobs[j])
    BY <2>1 DEF BatchInv, FilesKnown
  <2>6. ASSUME NEW k, HasJob(k) PROVE jobs # <<>> /\ \E j \in 1 .. Len(jobs) : jobs[j].id = got[k].id
    BY <2>6 DEF HasJob
  <2>7. exit = "0" => \A k \in 1 .. Len(got) : Usable(k) => \E j \in 1 .. Len(file) : file[j].id = got[k].id
    BY <2>2, <2>4, <2>6
  <2>8. exit = "1" /\ (\E k \in 1 .. Len(got) : Usable(k)) =>
            opt.source = "jsearch" /\ \E j \in 1 .. Len(jobs) : ~Quoted(jobs[j])
    BY <2>2, <2>5, <2>6
  <2> QED
    BY <2>3, <2>7, <2>8 DEF KeepsWhatItHas
<1> QED
  BY <1>1, BatchInductive, PTL

\* Whatever the boards return and however often: of a cleaned file the importer refuses nothing
\* but a description that cleaning made too long and an eligibility sentence that is too long.
THEOREM CleaningSettlesQuotes == FetchSpec => []CleanRefusals
<1>1. BatchInv => CleanRefusals
  <2>1. SUFFICES ASSUME BatchInv, clean # <<>>,
                        \A n \in 1 .. Len(clean) : clean[n].size # "over" /\ clean[n].note # "overlong"
                 PROVE  Importable(clean)
    BY DEF CleanRefusals
  <2>2. clean \in Seq(CleanJobs) /\ DistinctIds(clean)
    BY <2>1 DEF BatchInv, FetchTypes, FilesKnown
  <2>3. ASSUME NEW c \in CleanJobs PROVE c.past = "none" /\ c.note \in {"fine", "overlong"}
    <3>1. PICK x \in Listings, more \in BOOLEAN : c = CleanJob(x, more)
      BY DEF CleanJobs
    <3> QED
      BY <3>1, CleanJobIs
  <2>4. \A k \in 1 .. Len(clean) : Quoted(clean[k])
    BY <2>1, <2>2, <2>3 DEF Quoted
  <2> QED
    BY <2>1, <2>2, <2>4 DEF Importable, DistinctIds
<1> QED
  BY <1>1, BatchInductive, PTL

-----------------------------------------------------------------------------
(***************************************************************************)
(* The scan for requirements, for any lines and any number of listings:    *)
(* it meets its reference.  ScanInv says what the flags of the loop mean   *)
(* at every line: the section and the preferred heading that the lines     *)
(* above it put it under, the texts that were met, and that the shared     *)
(* counter is past the value this listing began with exactly when one of   *)
(* its own lines was unclear.                                              *)
(***************************************************************************)

Items == {x.item : x \in RawLines} \ {Absent}
LineRecord == [head : Headings, item : {Absent}] \cup [head : {Absent}, item : Items]
RowSet == {[quote |-> x.text, part |-> p, join |-> x.join, importance |-> imp] :
              x \in Items, p \in 1 .. 2, imp \in {"REQUIRED", "PREFERRED"}}

\* The rows that line i adds
RowsOf(i) == IF Counts(i) THEN Rows(lines[i].item, Importance(lines[i].item, BelowPreferred(i))) ELSE <<>>

MetBefore(n) == {lines[i].item.text : i \in {k \in 1 .. n - 1 : Eligible(k)}}
UnclearBefore(n) == \E i \in 1 .. n - 1 : Counts(i) /\ lines[i].item.join = "unclear"

ScanTypes ==
    /\ at \in {"idle", "scan", "done"} /\ listing \in 0 .. MaxListings
    /\ lines \in Seq(LineRecord) /\ pos \in Nat \ {0} /\ pos <= Len(lines) + 1
    /\ count \in Nat /\ before \in Nat /\ before <= count
    /\ at = "idle" => lines = <<>> /\ pos = 1 /\ on = FALSE /\ pref = FALSE /\ seen = {} /\ picked = <<>>
    /\ at = "done" => pos = Len(lines) + 1

FlagsMean ==
    /\ on = InSection(pos) /\ pref = BelowPreferred(pos)
    /\ seen = MetBefore(pos)
    /\ count > before <=> UnclearBefore(pos)

ScanInv ==
    /\ ScanTypes
    /\ at = "scan" => FlagsMean
    /\ ScanMeetsReference

-----------------------------------------------------------------------------
(* Lines *)

\* Splitting headings off gives lines that are a heading or an item.
LEMMA SplitIs ==
    ASSUME NEW d \in Seq(RawLines) PROVE SplitAll(d) \in Seq(LineRecord)
<1> DEFINE T == [i \in DOMAIN d |-> Split(d[i])]
<1>1. ASSUME NEW x \in RawLines PROVE Split(x) \in Seq(LineRecord)
  <2>1. x.head # Absent => [head |-> x.head, item |-> Absent] \in LineRecord
    BY ExtractionAssumption DEF LineRecord
  <2>2. x.item # Absent => [head |-> Absent, item |-> x.item] \in LineRecord
    BY DEF LineRecord, Items
  <2> QED
    BY <2>1, <2>2 DEF Split
<1>2. T \in Seq(Seq(LineRecord))
  <2>1. DOMAIN d = 1 .. Len(d) /\ Len(d) \in Nat /\ \A k \in 1 .. Len(d) : d[k] \in RawLines
    OBVIOUS
  <2>2. \A k \in 1 .. Len(d) : T[k] \in Seq(LineRecord)
    BY <1>1, <2>1
  <2>3. T \in [1 .. Len(d) -> Seq(LineRecord)]
    BY <2>1, <2>2
  <2> HIDE DEF T
  <2> QED
    BY <2>1, <2>3, IsASeq
<1> QED
  BY <1>2, FlattenType DEF SplitAll

\* A line is a heading or an item.
LEMMA LineIs ==
    ASSUME ScanTypes, AtLine
    PROVE  /\ pos \in 1 .. Len(lines) /\ Line \in LineRecord
           /\ Line.head # Absent => Line.head \in Headings /\ Line.item = Absent
           /\ Line.item # Absent => Line.head = Absent /\ Line.item \in Items /\ Line.head \notin Headings
<1>1. pos \in 1 .. Len(lines) /\ Line \in LineRecord
  BY DEF ScanTypes, AtLine, Line
<1> QED
  BY <1>1, ExtractionAssumption DEF LineRecord, Items

-----------------------------------------------------------------------------
(* What the lines above a line say, one line further *)

\* A start heading begins a section, a stop heading ends it, no other line changes it.
LEMMA SectionStep ==
    ASSUME NEW n \in Nat \ {0}
    PROVE  InSection(n + 1) <=> lines[n].head = "start" \/ (InSection(n) /\ lines[n].head # "stop")
<1>1. ASSUME InSection(n + 1) PROVE lines[n].head = "start" \/ (InSection(n) /\ lines[n].head # "stop")
  <2>1. PICK s \in 1 .. n : lines[s].head = "start" /\ \A k \in s + 1 .. n : lines[k].head # "stop"
    BY <1>1 DEF InSection
  <2>2. CASE s = n
    BY <2>1, <2>2
  <2>3. CASE s # n
    <3>1. s \in 1 .. n - 1 /\ n \in s + 1 .. n /\ \A k \in s + 1 .. n - 1 : k \in s + 1 .. n
      BY <2>3
    <3> QED
      BY <2>1, <3>1 DEF InSection
  <2> QED
    BY <2>2, <2>3
<1>2. ASSUME lines[n].head = "start" PROVE InSection(n + 1)
  <2>1. n \in 1 .. n + 1 - 1 /\ \A k \in n + 1 .. n + 1 - 1 : FALSE
    OBVIOUS
  <2> QED
    BY <1>2, <2>1 DEF InSection
<1>3. ASSUME InSection(n), lines[n].head # "stop" PROVE InSection(n + 1)
  <2>1. PICK s \in 1 .. n - 1 : lines[s].head = "start" /\ \A k \in s + 1 .. n - 1 : lines[k].head # "stop"
    BY <1>3 DEF InSection
  <2>2. s \in 1 .. n + 1 - 1 /\ \A k \in s + 1 .. n + 1 - 1 : k \in s + 1 .. n - 1 \/ k = n
    BY <2>1
  <2> QED
    BY <1>3, <2>1, <2>2 DEF InSection
<1> QED
  BY <1>1, <1>2, <1>3

\* A preferred heading of a section counts until the next heading that begins or ends one.
LEMMA PreferredStep ==
    ASSUME NEW n \in Nat \ {0}
    PROVE  BelowPreferred(n + 1) <=>
              \/ lines[n].head = "preferred" /\ InSection(n)
              \/ BelowPreferred(n) /\ lines[n].head \notin {"start", "stop"}
<1>1. ASSUME BelowPreferred(n + 1)
      PROVE  \/ lines[n].head = "preferred" /\ InSection(n)
             \/ BelowPreferred(n) /\ lines[n].head \notin {"start", "stop"}
  <2>1. PICK p \in 1 .. n : /\ lines[p].head = "preferred" /\ InSection(p)
                            /\ \A k \in p + 1 .. n : lines[k].head \notin {"start", "stop"}
    BY <1>1 DEF BelowPreferred
  <2>2. CASE p = n
    BY <2>1, <2>2
  <2>3. CASE p # n
    <3>1. p \in 1 .. n - 1 /\ n \in p + 1 .. n /\ \A k \in p + 1 .. n - 1 : k \in p + 1 .. n
      BY <2>3
    <3> QED
      BY <2>1, <3>1 DEF BelowPreferred
  <2> QED
    BY <2>2, <2>3
<1>2. ASSUME lines[n].head = "preferred" /\ InSection(n) PROVE BelowPreferred(n + 1)
  <2>1. n \in 1 .. n + 1 - 1 /\ \A k \in n + 1 .. n + 1 - 1 : FALSE
    OBVIOUS
  <2> QED
    BY <1>2, <2>1 DEF BelowPreferred
<1>3. ASSUME BelowPreferred(n), lines[n].head \notin {"start", "stop"} PROVE BelowPreferred(n + 1)
  <2>1. PICK p \in 1 .. n - 1 : /\ lines[p].head = "preferred" /\ InSection(p)
                                /\ \A k \in p + 1 .. n - 1 : lines[k].head \notin {"start", "stop"}
    BY <1>3 DEF BelowPreferred
  <2>2. p \in 1 .. n + 1 - 1 /\ \A k \in p + 1 .. n + 1 - 1 : k \in p + 1 .. n - 1 \/ k = n
    BY <2>1
  <2> QED
    BY <1>3, <2>1, <2>2 DEF BelowPreferred
<1> QED
  BY <1>1, <1>2, <1>3

\* A line is below a preferred heading only inside its section.
LEMMA PreferredInSection ==
    ASSUME NEW n \in Nat \ {0}, BelowPreferred(n) PROVE InSection(n)
<1>1. PICK p \in 1 .. n - 1 : /\ lines[p].head = "preferred" /\ InSection(p)
                              /\ \A k \in p + 1 .. n - 1 : lines[k].head \notin {"start", "stop"}
  BY DEF BelowPreferred
<1>2. PICK s \in 1 .. p - 1 : lines[s].head = "start" /\ \A k \in s + 1 .. p - 1 : lines[k].head # "stop"
  BY <1>1 DEF InSection
<1>3. s \in 1 .. n - 1 /\ \A k \in s + 1 .. n - 1 : k \in s + 1 .. p - 1 \/ k = p \/ k \in p + 1 .. n - 1
  BY <1>1, <1>2
<1> QED
  BY <1>1, <1>2, <1>3 DEF InSection

\* The texts that were met and the unclear lines grow with the line that is read.
LEMMA MetStep ==
    ASSUME NEW n \in Nat \ {0}
    PROVE  /\ MetBefore(n + 1) = IF Eligible(n) THEN MetBefore(n) \cup {lines[n].item.text} ELSE MetBefore(n)
           /\ UnclearBefore(n + 1) <=> UnclearBefore(n) \/ (Counts(n) /\ lines[n].item.join = "unclear")
           /\ Counts(n) <=> Eligible(n) /\ lines[n].item.text \notin MetBefore(n)
<1>1. \A k : k \in 1 .. n + 1 - 1 <=> k \in 1 .. n - 1 \/ k = n
  OBVIOUS
<1>2. MetBefore(n + 1) = IF Eligible(n) THEN MetBefore(n) \cup {lines[n].item.text} ELSE MetBefore(n)
  BY <1>1 DEF MetBefore
<1>3. UnclearBefore(n + 1) <=> UnclearBefore(n) \/ (Counts(n) /\ lines[n].item.join = "unclear")
  BY <1>1 DEF UnclearBefore
<1>4. Counts(n) <=> Eligible(n) /\ lines[n].item.text \notin MetBefore(n)
  BY DEF Counts, MetBefore
<1> QED
  BY <1>2, <1>3, <1>4

-----------------------------------------------------------------------------
(* The reference, one line further *)

\* The rows of an item are rows.
LEMMA RowsType ==
    ASSUME NEW x \in Items, NEW imp \in {"REQUIRED", "PREFERRED"} PROVE Rows(x, imp) \in Seq(RowSet)
<1>1. x.join \in Joins
  BY ExtractionAssumption DEF Items
<1> DEFINE row(p) == [quote |-> x.text, part |-> p, join |-> x.join, importance |-> imp]
<1>2. row(1) \in RowSet /\ row(2) \in RowSet
  BY DEF RowSet
<1>3. Rows(x, imp) = <<row(1)>> \/ Rows(x, imp) = <<row(1), row(2)>> \/ Rows(x, imp) = <<>>
  BY <1>1 DEF Rows, Joins
<1>4. \A a, b \in RowSet : <<a>> \in Seq(RowSet) /\ <<a, b>> \in Seq(RowSet) /\ <<>> \in Seq(RowSet)
  <2> HIDE DEF row
  <2> QED
    OBVIOUS
<1> HIDE DEF row
<1> QED
  BY <1>2, <1>3, <1>4

\* A line adds rows, or none.
LEMMA RowsOfType ==
    ASSUME lines \in Seq(LineRecord), NEW i \in 1 .. Len(lines) PROVE RowsOf(i) \in Seq(RowSet)
<1>1. CASE Counts(i)
  <2>1. lines[i] \in LineRecord /\ lines[i].item # Absent
    BY <1>1 DEF Counts, Eligible
  <2>2. lines[i].item \in Items
    BY <2>1 DEF LineRecord
  <2>3. Importance(lines[i].item, BelowPreferred(i)) \in {"REQUIRED", "PREFERRED"}
    BY DEF Importance
  <2> QED
    BY <1>1, <2>2, <2>3, RowsType DEF RowsOf
<1>2. CASE ~Counts(i)
  BY <1>2 DEF RowsOf
<1> QED
  BY <1>1, <1>2

\* The reference of a line more is that of the lines before it and the rows the line adds.
LEMMA ReferenceStep ==
    ASSUME lines \in Seq(LineRecord), NEW n \in 1 .. Len(lines)
    PROVE  /\ Reference(n - 1) \in Seq(RowSet)
           /\ Reference(n) = Reference(n - 1) \o RowsOf(n)
<1> DEFINE T == [i \in 1 .. n - 1 |-> RowsOf(i)]
           U == [i \in 1 .. n |-> RowsOf(i)]
<1>1. n \in Nat /\ n - 1 \in Nat /\ \A i \in 1 .. n : RowsOf(i) \in Seq(RowSet)
  BY RowsOfType
<1>2. T \in Seq(Seq(RowSet)) /\ U \in Seq(Seq(RowSet)) /\ Len(T) = n - 1 /\ Len(U) = n
  <2>1. T \in [1 .. n - 1 -> Seq(RowSet)] /\ U \in [1 .. n -> Seq(RowSet)]
    BY <1>1
  <2> QED
    BY <1>1, <2>1, IsASeq
<1>3. U = Append(T, RowsOf(n))
  <2>1. /\ Append(T, RowsOf(n)) \in Seq(Seq(RowSet)) /\ Len(Append(T, RowsOf(n))) = n
        /\ \A i \in 1 .. n : Append(T, RowsOf(n))[i] = U[i]
    BY <1>1, <1>2
  <2> QED
    BY <1>2, <2>1, SeqEqual
<1>4. Reference(n) = FlattenSeq(U) /\ Reference(n - 1) = FlattenSeq(T)
  BY DEF Reference, RowsOf
<1> HIDE DEF T, U
<1> QED
  BY <1>1, <1>2, <1>3, <1>4, FlattenType, FlattenAppend

\* No lines, no rows
LEMMA ReferenceOfNothing == Reference(0) = <<>> /\ Reference(0)' = <<>>
<1> DEFINE T == [i \in 1 .. 0 |-> RowsOf(i)]
<1>1. T = <<>> /\ T' = <<>>
  OBVIOUS
<1>2. Reference(0) = FlattenSeq(T) /\ Reference(0)' = FlattenSeq(T')
  BY DEF Reference, RowsOf
<1> HIDE DEF T
<1> QED
  BY <1>1, <1>2 DEF FlattenSeq

\* So every reference is a sequence of rows.
LEMMA ReferenceType ==
    ASSUME lines \in Seq(LineRecord), NEW n \in 0 .. Len(lines) PROVE Reference(n) \in Seq(RowSet)
<1>1. CASE n = 0
  <2>1. <<>> \in Seq(RowSet)
    OBVIOUS
  <2>2. Reference(n) = <<>>
    BY <1>1, ReferenceOfNothing
  <2> QED
    BY <2>1, <2>2
<1>2. CASE n # 0
  <2>1. n \in 1 .. Len(lines)
    BY <1>2
  <2>2. PICK r, s \in Seq(RowSet) : Reference(n) = r \o s
    BY <2>1, ReferenceStep, RowsOfType
  <2> QED
    BY <2>2
<1> QED
  BY <1>1, <1>2

-----------------------------------------------------------------------------
(* Steps *)

\* What the reference says depends on the description alone.
LEMMA ReferenceStays ==
    ASSUME UNCHANGED lines
    PROVE  /\ \A n : InSection(n)' = InSection(n) /\ BelowPreferred(n)' = BelowPreferred(n)
           /\ \A n : Counts(n)' = Counts(n) /\ MetBefore(n)' = MetBefore(n)
           /\ \A n : UnclearBefore(n)' = UnclearBefore(n) /\ Reference(n)' = Reference(n)
  BY DEF InSection, BelowPreferred, Counts, Eligible, MetBefore, UnclearBefore, Reference

\* Reading a line: the flags, the texts, the counter and the rows follow what the reference says
\* of the line.
LEMMA LineKeeps ==
    ASSUME ScanInv, AtLine, pos' = pos + 1, UNCHANGED <<lines, before, listing, at>>,
           on' <=> Line.head = "start" \/ (on /\ Line.head # "stop"),
           pref' <=> (Line.head = "preferred" /\ on) \/ (pref /\ Line.head \notin {"start", "stop"}),
           on' \in BOOLEAN, pref' \in BOOLEAN,
           seen' = IF Counts(pos) THEN seen \cup {Line.item.text} ELSE seen,
           picked' = picked \o RowsOf(pos),
           count' = IF Counts(pos) /\ Line.item.join = "unclear" THEN count + 1 ELSE count
    PROVE  ScanInv'
<1>1. /\ ScanTypes /\ FlagsMean /\ picked = Reference(pos - 1) /\ lines \in Seq(LineRecord) /\ at = "scan"
      /\ pos \in 1 .. Len(lines) /\ pos \in Nat \ {0} /\ Line = lines[pos]
  BY LineIs DEF ScanInv, ScanMeetsReference, AtLine, Line, ScanTypes
<1>n. PICK n \in Nat \ {0} : n = pos
  BY <1>1
<1>2. on' = InSection(n + 1) /\ pref' = BelowPreferred(n + 1)
  <2>1. (InSection(n + 1) <=> lines[n].head = "start" \/ (InSection(n) /\ lines[n].head # "stop"))
    BY SectionStep
  <2>2. BelowPreferred(n + 1) <=> \/ lines[n].head = "preferred" /\ InSection(n)
                                  \/ BelowPreferred(n) /\ lines[n].head \notin {"start", "stop"}
    BY PreferredStep
  <2>3. InSection(n + 1) \in BOOLEAN /\ BelowPreferred(n + 1) \in BOOLEAN
    BY DEF InSection, BelowPreferred
  <2> QED
    BY <1>1, <1>n, <2>1, <2>2, <2>3 DEF FlagsMean
<1>3. seen' = MetBefore(n + 1)
  BY <1>1, <1>n, MetStep DEF FlagsMean
<1>4. /\ count' > before' <=> UnclearBefore(n + 1)
      /\ count' \in Nat /\ before' \in Nat /\ before' <= count'
  <2>1. count \in Nat /\ before \in Nat /\ before <= count /\ (count > before <=> UnclearBefore(n))
    BY <1>1, <1>n DEF FlagsMean, ScanTypes
  <2>2. UnclearBefore(n + 1) <=> UnclearBefore(n) \/ (Counts(n) /\ lines[n].item.join = "unclear")
    BY MetStep
  <2>3. CASE Counts(n) /\ lines[n].item.join = "unclear"
    <3>1. count' = count + 1
      BY <1>1, <1>n, <2>3
    <3> QED
      BY <2>1, <2>2, <2>3, <3>1
  <2>4. CASE ~(Counts(n) /\ lines[n].item.join = "unclear")
    <3>1. count' = count
      BY <1>1, <1>n, <2>4
    <3> QED
      BY <2>1, <2>2, <2>4, <3>1
  <2> QED
    BY <2>3, <2>4
<1>5. picked' = Reference(n)
  BY <1>1, <1>n, ReferenceStep
<1>6. FlagsMean'
  BY <1>2, <1>3, <1>4, <1>n, ReferenceStays DEF FlagsMean
<1>7. ScanTypes'
  BY <1>1, <1>4 DEF ScanTypes
<1>8. ScanMeetsReference'
  BY <1>1, <1>5, <1>n, ReferenceStays DEF ScanMeetsReference
<1> QED
  BY <1>6, <1>7, <1>8 DEF ScanInv

\* A heading changes the flags alone.
LEMMA HeadingKeeps == ASSUME ScanInv, Heading PROVE ScanInv'
<1>1. ScanTypes /\ FlagsMean /\ AtLine /\ Line.head \in Headings /\ Line.item = Absent
  BY LineIs DEF ScanInv, Heading, AtLine
<1>2. ~Counts(pos)
  BY <1>1 DEF Counts, Eligible, Line
<1>3. RowsOf(pos) = <<>> /\ picked \o <<>> = picked
  <2>1. picked \in Seq(RowSet)
    BY <1>1, ReferenceType, LineIs DEF ScanInv, ScanMeetsReference, AtLine, ScanTypes
  <2> QED
    BY <1>2, <2>1 DEF RowsOf
<1>4. on \in BOOLEAN /\ pref \in BOOLEAN /\ (pref => on)
  <2>1. pos \in Nat \ {0}
    BY <1>1 DEF ScanTypes
  <2> QED
    BY <1>1, <2>1, PreferredInSection DEF FlagsMean, InSection, BelowPreferred
<1>5. /\ on' <=> Line.head = "start" \/ (on /\ Line.head # "stop")
      /\ pref' <=> (Line.head = "preferred" /\ on) \/ (pref /\ Line.head \notin {"start", "stop"})
      /\ on' \in BOOLEAN /\ pref' \in BOOLEAN
  <2>1. CASE Line.head = "start"
    BY <1>4, <2>1 DEF Heading, Starts
  <2>2. CASE Line.head = "preferred"
    BY <1>4, <2>2 DEF Heading
  <2>3. CASE Line.head = "stop"
    BY <1>4, <2>3 DEF Heading
  <2> QED
    BY <1>1, <2>1, <2>2, <2>3 DEF Headings
<1> QED
  BY <1>1, <1>2, <1>3, <1>5, LineKeeps DEF Heading

\* An item is taken when the reference counts it.
LEMMA ItemKeeps == ASSUME ScanInv, Item PROVE ScanInv'
<1>1. ScanTypes /\ FlagsMean /\ AtLine /\ Line.head \notin Headings /\ Line.item \in Items /\ Line.item # Absent
  BY LineIs DEF ScanInv, Item, AtLine
<1>2. pos \in Nat \ {0} /\ lines \in Seq(LineRecord)
  BY <1>1 DEF ScanTypes
<1>3. Counts(pos) <=> Taken(Line.item)
  BY <1>1, <1>2, MetStep DEF FlagsMean, Taken, Eligible, Line
<1>4. on \in BOOLEAN /\ pref \in BOOLEAN
  BY <1>1 DEF FlagsMean, InSection, BelowPreferred
<1>5. /\ on' <=> Line.head = "start" \/ (on /\ Line.head # "stop")
      /\ pref' <=> (Line.head = "preferred" /\ on) \/ (pref /\ Line.head \notin {"start", "stop"})
      /\ on' \in BOOLEAN /\ pref' \in BOOLEAN
  BY <1>1, <1>4 DEF Item, Headings
<1>6. CASE Taken(Line.item)
  <2>1. RowsOf(pos) = Rows(Line.item, Importance(Line.item, pref))
    BY <1>1, <1>3, <1>6 DEF RowsOf, Line, FlagsMean
  <2> QED
    BY <1>1, <1>3, <1>5, <1>6, <2>1, LineKeeps DEF Item
<1>7. CASE ~Taken(Line.item)
  <2>1. picked \in Seq(RowSet)
    BY <1>1, ReferenceType, LineIs DEF ScanInv, ScanMeetsReference, AtLine, ScanTypes
  <2>2. RowsOf(pos) = <<>> /\ picked \o <<>> = picked
    BY <1>3, <1>7, <2>1 DEF RowsOf
  <2> QED
    BY <1>1, <1>3, <1>5, <1>7, <2>2, LineKeeps DEF Item
<1> QED
  BY <1>6, <1>7

\* Returning the first rows keeps ScanInv: they are a beginning of the reference.
LEMMA ReturnKeeps == ASSUME ScanInv, Return PROVE ScanInv'
<1>1. /\ ScanTypes /\ FlagsMean /\ pos \in Nat \ {0} /\ pos <= Len(lines) + 1 /\ pos > Len(lines) /\ Len(lines) \in Nat
      /\ lines \in Seq(LineRecord) /\ picked = Reference(pos - 1) /\ at' = "done"
      /\ UNCHANGED <<lines, pos, on, pref, seen, count, before, listing>>
  BY DEF ScanInv, ScanTypes, ScanMeetsReference, Return
<1>2. pos = Len(lines) + 1 /\ pos - 1 = Len(lines)
  BY <1>1
<1>3. PICK rows \in Seq(RowSet) : rows = Reference(Len(lines)) /\ picked = rows
  BY <1>1, <1>2, ReferenceType
<1>4. PICK m \in Nat : /\ m = IF Len(rows) < MaxRequirements THEN Len(rows) ELSE MaxRequirements
                       /\ picked' = SubSeq(rows, 1, m)
  BY <1>3, ExtractionAssumption DEF Return
<1>5. m <= Len(rows) /\ MaxRequirements \in Nat
  BY <1>4, ExtractionAssumption
<1>6. picked' \in Seq(RowSet) /\ Len(picked') = m /\ \A i \in 1 .. m : picked'[i] = rows[i]
  BY <1>4, <1>5
<1>7. IsPrefix(picked', rows)
  <2>1. SubSeq(picked', 1, m) = picked'
    BY <1>6
  <2> QED
    BY <1>4, <1>5, <1>6, <2>1 DEF IsPrefix
<1>8. Len(picked') < MaxRequirements => picked' = rows
  <2>1. SUFFICES ASSUME Len(picked') < MaxRequirements PROVE picked' = rows
    OBVIOUS
  <2>2. m = Len(rows)
    BY <1>4, <1>6, <2>1
  <2> QED
    BY <1>4, <2>2
<1>9. review' <=> UnclearBefore(pos)
  BY <1>1 DEF Return, Ambiguous, FlagsMean
<1>10. UnclearBefore(pos) <=> \E i \in 1 .. Len(lines) : Counts(i) /\ lines[i].item.join = "unclear"
  BY <1>2 DEF UnclearBefore
<1>11. ScanTypes'
  BY <1>1, <1>2 DEF ScanTypes
<1>12. ScanMeetsReference'
  <2>1. review' = \E i \in 1 .. Len(lines) : Counts(i) /\ lines[i].item.join = "unclear"
    <3>1. review' \in BOOLEAN
      BY DEF Return, Ambiguous
    <3> QED
      BY <1>9, <1>10, <3>1
  <2>2. /\ Reference(Len(lines))' = rows
        /\ (\E i \in 1 .. Len(lines) : Counts(i) /\ lines[i].item.join = "unclear")' =
              \E i \in 1 .. Len(lines) : Counts(i) /\ lines[i].item.join = "unclear"
    BY <1>1, <1>3 DEF Reference, Counts, Eligible, InSection, BelowPreferred
  <2> QED
    BY <1>1, <1>7, <1>8, <2>1, <2>2 DEF ScanMeetsReference
<1> QED
  BY <1>1, <1>11, <1>12 DEF ScanInv

\* Beginning a listing and leaving it keep ScanInv: nothing is left over but the counter.
LEMMA BeginKeeps == ASSUME ScanInv, Begin PROVE ScanInv'
<1>1. /\ ScanTypes /\ at = "idle" /\ at' = "scan" /\ lines = <<>> /\ pos = 1 /\ on = FALSE /\ pref = FALSE /\ seen = {} /\ picked = <<>>
      /\ listing < MaxListings /\ listing' = listing + 1 /\ before' = count
      /\ UNCHANGED <<pos, on, pref, seen, picked, count, review>>
  BY DEF ScanInv, ScanTypes, Begin
<1>2. lines' \in Seq(LineRecord)
  <2>1. PICK d \in BoundedSeq(RawLines, MaxLines) : lines' = SplitAll(d)
    BY DEF Begin
  <2>2. d \in Seq(RawLines)
    BY ExtractionAssumption DEF BoundedSeq, SeqOf
  <2> QED
    BY <2>1, <2>2, SplitIs
<1>3. ScanTypes'
  BY <1>1, <1>2, ExtractionAssumption DEF ScanTypes
<1>4. FlagsMean'
  <2>1. pos' = 1 /\ on' = FALSE /\ pref' = FALSE /\ seen' = {} /\ ~(count' > before')
    BY <1>1 DEF ScanTypes
  <2>2. InSection(pos)' = FALSE /\ BelowPreferred(pos)' = FALSE /\ MetBefore(pos)' = {} /\ ~UnclearBefore(pos)'
    BY <2>1 DEF InSection, BelowPreferred, MetBefore, UnclearBefore
  <2> QED
    BY <2>1, <2>2 DEF FlagsMean
<1>5. ScanMeetsReference'
  <2>1. (pos - 1)' = 0
    BY <1>1
  <2>2. Reference(pos - 1)' = <<>>
    BY <2>1, ReferenceOfNothing
  <2> QED
    BY <1>1, <2>2 DEF ScanMeetsReference
<1> QED
  BY <1>3, <1>4, <1>5 DEF ScanInv

\* Leaving a listing forgets everything but the counter.
LEMMA LeaveKeeps == ASSUME ScanInv, Leave PROVE ScanInv'
<1>1. /\ ScanTypes /\ at' = "idle" /\ lines' = <<>> /\ pos' = 1 /\ on' = FALSE /\ pref' = FALSE /\ seen' = {}
      /\ picked' = <<>> /\ UNCHANGED <<count, before, listing>>
  BY DEF ScanInv, Leave
<1>2. <<>> \in Seq(LineRecord) /\ Len(<<>>) = 0
  OBVIOUS
<1>3. ScanTypes'
  BY <1>1, <1>2 DEF ScanTypes
<1>4. ScanMeetsReference' /\ (at = "scan" => FlagsMean)'
  BY <1>1 DEF ScanMeetsReference
<1> QED
  BY <1>3, <1>4 DEF ScanInv

\* What the extraction is at every step: its flags, texts, counter and rows mean what the
\* reference says of the lines that were read.
THEOREM ScanInductive == ExtractSpec => []ScanInv
<1>1. ExtractInit => ScanInv
  <2>1. SUFFICES ASSUME ExtractInit PROVE ScanInv
    OBVIOUS
  <2>2. <<>> \in Seq(LineRecord) /\ Len(<<>>) = 0
    OBVIOUS
  <2>3. ScanTypes
    BY <2>1, <2>2, ExtractionAssumption DEF ExtractInit, ScanTypes
  <2> QED
    BY <2>1, <2>3 DEF ExtractInit, ScanInv, ScanMeetsReference
<1>2. ScanInv /\ [ExtractNext]_extractVars => ScanInv'
  <2>1. SUFFICES ASSUME ScanInv, [ExtractNext]_extractVars PROVE ScanInv'
    OBVIOUS
  <2>2. CASE Begin
    BY <2>1, <2>2, BeginKeeps
  <2>3. CASE Heading
    BY <2>1, <2>3, HeadingKeeps
  <2>4. CASE Item
    BY <2>1, <2>4, ItemKeeps
  <2>5. CASE Return
    BY <2>1, <2>5, ReturnKeeps
  <2>6. CASE Leave
    BY <2>1, <2>6, LeaveKeeps
  <2>7. CASE UNCHANGED extractVars
    <3>1. /\ ScanTypes' = ScanTypes /\ ScanMeetsReference' = ScanMeetsReference
          /\ (at = "scan" => FlagsMean)' = (at = "scan" => FlagsMean)
      BY <2>7 DEF extractVars, ScanTypes, FlagsMean, ScanMeetsReference, Reference, Counts, Eligible,
                  InSection, BelowPreferred, MetBefore, UnclearBefore
    <3> QED
      BY <2>1, <3>1 DEF ScanInv
  <2> QED
    BY <2>1, <2>2, <2>3, <2>4, <2>5, <2>6, <2>7 DEF ExtractNext, ExtractOver
<1> QED
  BY <1>1, <1>2, PTL DEF ExtractSpec

\* extract_job_requirements meets its definition, for any lines, any cap and any number of
\* listings: each requirement line gives the rows of its section and importance, each text
\* once, and a record is left to a human for its own unclear lines alone.
THEOREM ExtractionMeetsReference == ExtractSpec => []ScanMeetsReference
<1>1. ScanInv => ScanMeetsReference
  BY DEF ScanInv
<1> QED
  BY <1>1, ScanInductive, PTL

-----------------------------------------------------------------------------
(***************************************************************************)
(* The ranking, for any jobs, requirements, similarities and missing       *)
(* vectors: where PostgreSQL and the memory give the same pages. The score *)
(* in memory looks for duplicates again, under another key than the        *)
(* import, so RankInv says what the import leaves: one requirement of each *)
(* of its keys. The other key joins two of them only if they are twins.    *)
(***************************************************************************)

RankTypes ==
    /\ batch \in Batches
    /\ looked \in [Jobs -> Nat]
    /\ kept \in [Jobs -> Seq(Requirement)]

KeysDiffer(j) == \A m, n \in DOMAIN kept[j] : m # n => ImportKey(kept[j][m]) # ImportKey(kept[j][n])

RankInv == RankTypes /\ \A j \in Jobs : KeysDiffer(j)

\* A new requirement is appended, or takes the place of the one with its key.
LEMMA DedupeKeeps == ASSUME RankInv, NEW j \in Jobs, Dedupe(j) PROVE RankInv'
<1> DEFINE r == batch[j][looked[j] + 1]
           same == {n \in DOMAIN kept[j] : ImportKey(kept[j][n]) = ImportKey(r)}
<1>1. /\ batch \in [Jobs -> Seq(Requirement)] /\ batch' = batch /\ looked[j] \in Nat /\ looked[j] < Len(batch[j])
      /\ kept \in [Jobs -> Seq(Requirement)] /\ looked \in [Jobs -> Nat]
      /\ looked' = [looked EXCEPT ![j] = @ + 1]
  BY RankingAssumption DEF RankInv, RankTypes, Dedupe
<1>2. looked[j] + 1 \in DOMAIN batch[j] /\ r \in Requirement
  BY <1>1
<1>3. PICK s \in Seq(Requirement) : s = kept[j]
  BY <1>1
<1>4. PICK t \in Seq(Requirement) :
        /\ kept' = [kept EXCEPT ![j] = t]
        /\ \A m, n \in DOMAIN t : m # n => ImportKey(t[m]) # ImportKey(t[n])
  <2>0. /\ \A m, n \in DOMAIN s : m # n => ImportKey(s[m]) # ImportKey(s[n])
        /\ same = {n \in DOMAIN s : ImportKey(s[n]) = ImportKey(r)}
        /\ kept' = [kept EXCEPT ![j] = IF same = {} THEN Append(s, r)
                      ELSE [n \in DOMAIN s |-> IF n \in same /\ Promoted(s[n], r) THEN r ELSE s[n]]]
    BY <1>3 DEF RankInv, KeysDiffer, Dedupe
  <2> HIDE DEF r, same
  <2>1. CASE same = {}
    <3>1. /\ Append(s, r) \in Seq(Requirement) /\ DOMAIN Append(s, r) = 1 .. Len(s) + 1 /\ DOMAIN s = 1 .. Len(s)
          /\ \A n \in 1 .. Len(s) + 1 : Append(s, r)[n] = IF n \in 1 .. Len(s) THEN s[n] ELSE r
      BY <1>2
    <3>2. \A n \in DOMAIN s : ImportKey(s[n]) # ImportKey(r)
      BY <2>0, <2>1
    <3>3. \A m, n \in DOMAIN Append(s, r) : m # n => ImportKey(Append(s, r)[m]) # ImportKey(Append(s, r)[n])
      <4>1. SUFFICES ASSUME NEW m \in DOMAIN Append(s, r), NEW n \in DOMAIN Append(s, r), m # n
                     PROVE  ImportKey(Append(s, r)[m]) # ImportKey(Append(s, r)[n])
        OBVIOUS
      <4>2. m \in DOMAIN s \/ n \in DOMAIN s
        BY <3>1, <4>1
      <4> QED
        BY <2>0, <3>1, <3>2, <4>1, <4>2
    <3> QED
      BY <2>0, <2>1, <3>1, <3>3
  <2>2. CASE same # {}
    <3> DEFINE u == [n \in DOMAIN s |-> IF n \in same /\ Promoted(s[n], r) THEN r ELSE s[n]]
    <3>1. u \in Seq(Requirement) /\ DOMAIN u = DOMAIN s
      <4>1. DOMAIN s = 1 .. Len(s) /\ Len(s) \in Nat /\ u \in [1 .. Len(s) -> Requirement]
        BY <1>2
      <4> QED
        BY <4>1
    <3>2. \A n \in DOMAIN s : ImportKey(u[n]) = ImportKey(s[n]) /\ (u[n] = r \/ u[n] = s[n])
      <4>1. \A n \in same : n \in DOMAIN s /\ ImportKey(s[n]) = ImportKey(r)
        BY <2>0
      <4> QED
        BY <4>1
    <3>3. kept' = [kept EXCEPT ![j] = u]
      BY <2>0, <2>2
    <3> HIDE DEF u
    <3>4. \A m, n \in DOMAIN u : m # n => ImportKey(u[m]) # ImportKey(u[n])
      BY <2>0, <3>1, <3>2
    <3> QED
      BY <3>1, <3>3, <3>4
  <2> QED
    BY <2>1, <2>2
<1>5. RankTypes'
  BY <1>1, <1>4 DEF RankInv, RankTypes
<1>6. ASSUME NEW i \in Jobs PROVE KeysDiffer(i)'
  <2>1. kept'[i] = IF i = j THEN t ELSE kept[i]
    BY <1>1, <1>4
  <2> QED
    BY <1>4, <2>1 DEF RankInv, KeysDiffer
<1> QED
  BY <1>5, <1>6 DEF RankInv

\* What the import keeps of a job has one requirement of each key.
THEOREM RankInductive == RankSpec => []RankInv
<1>1. RankInit => RankInv
  BY RankingAssumption DEF RankInit, RankInv, RankTypes, KeysDiffer
<1>2. RankInv /\ [RankNext]_rankVars => RankInv'
  <2>1. SUFFICES ASSUME RankInv, [RankNext]_rankVars PROVE RankInv'
    OBVIOUS
  <2>2. CASE \E j \in Jobs : Dedupe(j)
    BY <2>1, <2>2, DedupeKeeps
  <2>3. CASE UNCHANGED rankVars
    BY <2>1, <2>3 DEF rankVars, RankInv, RankTypes, KeysDiffer
  <2> QED
    BY <2>1, <2>2, <2>3 DEF RankNext, RankOver
<1> QED
  BY <1>1, <1>2, PTL DEF RankSpec

-----------------------------------------------------------------------------
(* The two scorings *)

\* Of requirements with different import keys, the key of the score takes for one exactly a
\* plain requirement and its twin.
LEMMA ScoreKeysJoinTwins ==
    ASSUME NEW r \in Requirement, NEW s \in Requirement, ImportKey(r) # ImportKey(s)
    PROVE  ScoreKey(r) = ScoreKey(s) <=> Twins(r, s)
<1>1. \A q \in Requirement : q.alts = <<>> => NormSet(Embedded(q)) = {Norm[q.text]} /\ NormSet(q.alts) = {}
  BY DEF NormSet, Embedded
<1>2. \A q \in Requirement : q.alts # <<>> => NormSet(Embedded(q)) = NormSet(q.alts)
  BY DEF Embedded
<1>3. ScoreKey(r) = ScoreKey(s) <=> Norm[r.text] = Norm[s.text] /\ NormSet(Embedded(r)) = NormSet(Embedded(s))
  BY DEF ScoreKey
<1>4. Norm[r.text] # Norm[s.text] \/ NormSet(r.alts) # NormSet(s.alts)
  BY DEF ImportKey
<1>5. CASE r.alts = <<>> /\ s.alts = <<>>
  BY <1>1, <1>3, <1>4, <1>5 DEF Twins, OwnChoice
<1>6. CASE r.alts = <<>> /\ s.alts # <<>>
  BY <1>1, <1>2, <1>3, <1>6 DEF Twins, OwnChoice
<1>7. CASE r.alts # <<>> /\ s.alts = <<>>
  BY <1>1, <1>2, <1>3, <1>7 DEF Twins, OwnChoice
<1>8. CASE r.alts # <<>> /\ s.alts # <<>>
  BY <1>2, <1>3, <1>4, <1>8 DEF Twins, OwnChoice
<1> QED
  BY <1>5, <1>6, <1>7, <1>8

\* Of an imported job score_job leaves out the second of two twins, and nothing else.
LEMMA ScoredLeavesOutTwins ==
    ASSUME RankInv, NEW j \in Jobs
    PROVE  Scored(kept[j]) = {n \in DOMAIN kept[j] : /\ kept[j][n].imp = "REQUIRED"
                                                    /\ \A m \in 1 .. n - 1 : ~RequiredTwins(kept[j], m, n)}
<1>1. /\ kept[j] \in Seq(Requirement)
      /\ \A m, n \in DOMAIN kept[j] : m # n => ImportKey(kept[j][m]) # ImportKey(kept[j][n])
  BY DEF RankInv, RankTypes, KeysDiffer
<1>2. PICK s \in Seq(Requirement) : s = kept[j]
  BY <1>1
<1>3. ASSUME NEW n \in DOMAIN s, NEW m \in 1 .. n - 1
      PROVE  m \in DOMAIN s /\ (ScoreKey(s[m]) = ScoreKey(s[n]) <=> Twins(s[m], s[n]))
  <2>1. m \in DOMAIN s /\ m # n
    BY <1>2
  <2>2. s[m] \in Requirement /\ s[n] \in Requirement /\ ImportKey(s[m]) # ImportKey(s[n])
    BY <1>1, <1>2, <2>1
  <2> QED
    BY <2>1, <2>2, ScoreKeysJoinTwins
<1>4. Scored(s) = {n \in DOMAIN s : /\ s[n].imp = "REQUIRED"
                                   /\ \A m \in 1 .. n - 1 : ~RequiredTwins(s, m, n)}
  BY <1>3 DEF Scored, RequiredTwins
<1> QED
  BY <1>2, <1>4

\* A job without twins is scored in memory as it is in SQL.
LEMMA ScoresEqual ==
    ASSUME RankInv, NEW j \in Jobs, ~Twinned(j) PROVE ScoreJob(kept[j]) = SqlScore(kept[j])
<1>1. kept[j] \in Seq(Requirement)
  BY DEF RankInv, RankTypes
<1>2. \A n \in DOMAIN kept[j] : \A m \in 1 .. n - 1 : m \in DOMAIN kept[j]
  BY <1>1
<1>3. \A n \in DOMAIN kept[j] : \A m \in 1 .. n - 1 : ~RequiredTwins(kept[j], m, n)
  BY <1>2 DEF Twinned
<1>4. Scored(kept[j]) = {n \in DOMAIN kept[j] : kept[j][n].imp = "REQUIRED"}
  BY <1>3, ScoredLeavesOutTwins
<1> QED
  BY <1>4 DEF ScoreJob, SqlScore

\* A job has a score, has nothing to score, or lacks a vector.
LEMMA WhyIs == ASSUME NEW reqs, NEW S PROVE MeanOver(reqs, S).why \in {"", "no_required", "incomplete"}
<1>1. CASE S = {}
  BY <1>1 DEF MeanOver
<1>2. CASE S # {} /\ \E n \in S : ~Complete(reqs[n])
  BY <1>2 DEF MeanOver
<1>3. CASE S # {} /\ ~\E n \in S : ~Complete(reqs[n])
  <2>1. \A a, b : [sum |-> a, n |-> b, why |-> ""].why = ""
    OBVIOUS
  <2> QED
    BY <1>3, <2>1 DEF MeanOver
<1> QED
  BY <1>1, <1>2, <1>3

-----------------------------------------------------------------------------
(* The pages *)

\* Of two numbers
LEMMA MinOfTwo == \A a, b \in Int : Min({a, b}) = IF a <= b THEN a ELSE b
<1>1. SUFFICES ASSUME NEW a \in Int, NEW b \in Int, NEW c, c = IF a <= b THEN a ELSE b PROVE Min({a, b}) = c
  OBVIOUS
<1>2. c \in {a, b} /\ (\A y \in {a, b} : c =< y) /\ \A x \in {a, b} : (\A y \in {a, b} : x =< y) => x = c
  BY <1>1
<1> QED
  BY <1>2 DEF Min

\* A difference that is not negative
LEMMA MaxWithZero == \A a \in Nat : Max({a, 0}) = a
<1>1. SUFFICES ASSUME NEW a \in Nat PROVE Max({a, 0}) = a
  OBVIOUS
<1>2. a \in {a, 0} /\ (\A y \in {a, 0} : a >= y) /\ \A x \in {a, 0} : (\A y \in {a, 0} : x >= y) => x = a
  OBVIOUS
<1> QED
  BY <1>2 DEF Max

\* The probe finds a row exactly when a job has a score.
LEMMA ProbeFinds ==
    ASSUME NEW score, NEW limit \in Nat \ {0}, NEW offset \in Nat
    PROVE  /\ Cardinality(Scorable(score)) \in Nat
           /\ PageOrFirst(score, limit, offset) = <<>> <=> Cardinality(Scorable(score)) = 0
<1>1. IsFiniteSet(Scorable(score))
  BY RankingAssumption, FS_Subset DEF Scorable
<1>2. PICK N \in Nat : N = Cardinality(Scorable(score))
  BY <1>1, FS_CardinalityType
<1> DEFINE R == Ranked(score)
<1>3. PICK S : \A n \in 1 .. N : (CHOOSE j \in Scorable(score) : Place(score, j) = n) \in S
  <2>1. \A n \in 1 .. N : (CHOOSE j \in Scorable(score) : Place(score, j) = n)
                             \in {CHOOSE j \in Scorable(score) : Place(score, j) = m : m \in 1 .. N}
    OBVIOUS
  <2> QED
    BY <2>1
<1>4. R \in Seq(S) /\ Len(R) = N
  <2>1. R \in [1 .. N -> S]
    BY <1>2, <1>3 DEF Ranked
  <2> HIDE DEF R
  <2> QED
    BY <2>1
<1>5. \A a \in Nat \ {0}, b \in Nat :
        Slice(R, a, b) = <<>> <=> (IF b + a <= N THEN b + a ELSE N) < b + 1
  <2>1. SUFFICES ASSUME NEW a \in Nat \ {0}, NEW b \in Nat
                 PROVE  Slice(R, a, b) = <<>> <=> (IF b + a <= N THEN b + a ELSE N) < b + 1
    OBVIOUS
  <2> HIDE DEF R
  <2>2. PICK e \in Nat : e = (IF b + a <= N THEN b + a ELSE N) /\ e <= N
    OBVIOUS
  <2>3. Slice(R, a, b) = SubSeq(R, b + 1, e)
    BY <1>4, <2>2, MinOfTwo DEF Slice
  <2>4. CASE e < b + 1
    <3>1. SubSeq(R, b + 1, e) = <<>>
      BY <1>4, <2>4
    <3> QED
      BY <2>2, <2>3, <2>4, <3>1
  <2>5. CASE ~(e < b + 1)
    <3>1. Len(SubSeq(R, b + 1, e)) = e - b /\ e - b > 0
      BY <1>4, <2>2, <2>5
    <3>2. SubSeq(R, b + 1, e) # <<>>
      <4>1. Len(<<>>) = 0
        OBVIOUS
      <4> HIDE DEF R
      <4>2. ASSUME NEW t, t = <<>>, Len(t) > 0 PROVE FALSE
        BY <4>1, <4>2
      <4> QED
        BY <3>1, <4>2
    <3> QED
      BY <2>2, <2>3, <2>5, <3>2
  <2> QED
    BY <2>4, <2>5
<1>6. PageOrFirst(score, limit, offset) = IF Slice(R, limit, offset) = <<>> /\ offset > 0 THEN Slice(R, 1, 0)
                                    ELSE Slice(R, limit, offset)
  BY DEF PageOrFirst
<1> HIDE DEF R
<1>7. Slice(R, 1, 0) = <<>> <=> N = 0
  BY <1>5
<1>8. Slice(R, limit, offset) = <<>> <=> (IF offset + limit <= N THEN offset + limit ELSE N) < offset + 1
  BY <1>5
<1> QED
  BY <1>2, <1>6, <1>7, <1>8

\* A finite set and what is added to it
LEMMA DisjointCardinality ==
    ASSUME NEW A, NEW C, IsFiniteSet(A), IsFiniteSet(C), A \cap C = {}
    PROVE  Cardinality(A) \in Nat /\ Cardinality(A \cup C) - Cardinality(C) = Cardinality(A)
<1>1. Cardinality(A) \in Nat /\ Cardinality(C) \in Nat
  BY FS_CardinalityType
<1>2. Cardinality(A \cup C) = Cardinality(A) + Cardinality(C) - 0
  BY FS_Union, FS_EmptySet
<1>3. \A a, c \in Nat : (a + c - 0) - c = a
  OBVIOUS
<1> QED
  BY <1>1, <1>2, <1>3

\* The jobs that are considered and have no score are those that lack a vector.
LEMMA LeftOut ==
    ASSUME NEW score, \A j \in Jobs : score[j].why \in {"", "no_required", "incomplete"}
    PROVE  /\ Cardinality({j \in Jobs : score[j].why = "incomplete"}) \in Nat
           /\ Cardinality({j \in Jobs : score[j].why # "no_required"}) - Cardinality(Scorable(score))
                 = Cardinality({j \in Jobs : score[j].why = "incomplete"})
<1> DEFINE A == {j \in Jobs : score[j].why = "incomplete"}
           B == {j \in Jobs : score[j].why # "no_required"}
           C == Scorable(score)
<1>1. IsFiniteSet(A) /\ IsFiniteSet(B) /\ IsFiniteSet(C)
  BY RankingAssumption, FS_Subset DEF Scorable
<1>2. B = A \cup C /\ A \cap C = {}
  BY DEF Scorable
<1> HIDE DEF A, B, C
<1>3. Cardinality(A) \in Nat /\ Cardinality(B) - Cardinality(C) = Cardinality(A)
  BY <1>1, <1>2, DisjointCardinality
<1> QED
  BY <1>3 DEF A, B, C

\* Every page, whatever its size and wherever it begins
LEMMA PagesEqual ==
    ASSUME RankInv, \A j \in Jobs : ~Twinned(j), NEW limit \in Nat \ {0}, NEW offset \in Nat
    PROVE  MemoryPage(limit, offset) = SqlPage(limit, offset)
<1> DEFINE score == [j \in Jobs |-> SqlScore(kept[j])]
           considered == Cardinality({j \in Jobs : score[j].why # "no_required"})
           total == IF PageOrFirst(score, limit, offset) = <<>> THEN 0 ELSE Cardinality(Scorable(score))
<1>1. [j \in Jobs |-> ScoreJob(kept[j])] = score
  BY ScoresEqual
<1>2. \A j \in Jobs : score[j].why \in {"", "no_required", "incomplete"}
  BY WhyIs DEF SqlScore
<1>3. MemoryPage(limit, offset) =
        [rows |-> Slice(Ranked(score), limit, offset), total |-> Cardinality(Scorable(score)),
         incomplete |-> Cardinality({j \in Jobs : score[j].why = "incomplete"})]
  <2>1. PICK s : s = score
    OBVIOUS
  <2> HIDE DEF score
  <2> QED
    BY <1>1 DEF MemoryPage
<1>4. SqlPage(limit, offset) =
        [rows |-> Slice(Ranked(score), limit, offset), total |-> total, incomplete |-> Max({considered - total, 0})]
  BY DEF SqlPage
<1> HIDE DEF score
<1>5. total = Cardinality(Scorable(score))
  BY ProbeFinds
<1>6. Max({considered - total, 0}) = Cardinality({j \in Jobs : score[j].why = "incomplete"})
  <2> DEFINE left == Cardinality({j \in Jobs : score[j].why = "incomplete"})
  <2>1. considered - Cardinality(Scorable(score)) = left /\ left \in Nat
    BY <1>2, LeftOut
  <2> HIDE DEF considered, total, left
  <2>2. Max({considered - total, 0}) = left
    BY <1>5, <2>1, MaxWithZero
  <2> QED
    BY <2>2 DEF left
<1> QED
  BY <1>3, <1>4, <1>5, <1>6

\* The score in memory leaves out the second of two twins and nothing else; where no job has
\* twins, the pages of PostgreSQL are those of the memory: the rows, the total and the number
\* of jobs left out, on the pages that are asked for.
THEOREM ScoringsAgreeButForTwins == RankSpec => []ScoringsAgree
<1>1. RankInv => ScoringsAgree
  <2>1. ASSUME RankInv, \A j \in Jobs : ~Twinned(j), NEW p \in Pages
        PROVE  MemoryPage(p[1], p[2]) = SqlPage(p[1], p[2])
    <3>1. p[1] \in Nat \ {0} /\ p[2] \in Nat
      BY DEF Pages
    <3> QED
      BY <2>1, <3>1, PagesEqual
  <2> QED
    BY <2>1, ScoredLeavesOutTwins DEF ScoringsAgree
<1> QED
  BY <1>1, RankInductive, PTL

-----------------------------------------------------------------------------
(***************************************************************************)
(* Reading the ranking a page after the other. The fold that adds the      *)
(* similarities up, and the CHOOSE that ranks, have to be shown to be what *)
(* they look like: a number, and each job at its place. Both are           *)
(* inductions over finite sets, done with a least counterexample.          *)
(***************************************************************************)

\* Finitely many numbers have a greatest one: a least n of which there is none would be one
\* more than a number of which there is one.
LEMMA GreatestNumber ==
    ASSUME NEW N \in Nat \ {0}, NEW s \in [1 .. N -> Nat]
    PROVE  \E m \in 1 .. N : \A n \in 1 .. N : s[n] <= s[m]
<1> DEFINE Has(k) == \E m \in 1 .. k : \A n \in 1 .. k : s[n] <= s[m]
           Fails == {k \in 1 .. N : ~Has(k)}
<1>1. ASSUME NEW n \in Fails, \A k \in Fails : n <= k PROVE FALSE
  <2>1. n \in 1 .. N /\ ~Has(n)
    OBVIOUS
  <2>2. Has(1)
    <3>1. 1 \in 1 .. 1 /\ \A k \in 1 .. 1 : k = 1
      OBVIOUS
    <3>2. s[1] \in Nat /\ s[1] <= s[1]
      OBVIOUS
    <3> QED
      BY <3>1, <3>2
  <2>3. n - 1 \in 1 .. N
    <3>1. n # 1
      BY <2>1, <2>2
    <3> QED
      BY <2>1, <3>1
  <2>4. Has(n - 1)
    <3>1. ~(n <= n - 1)
      BY <2>1
    <3>2. n - 1 \notin Fails
      BY <1>1, <3>1
    <3> QED
      BY <2>3, <3>2
  <2>5. PICK m \in 1 .. n - 1 : \A k \in 1 .. n - 1 : s[k] <= s[m]
    BY <2>4
  <2>6. m \in 1 .. N /\ s[m] \in Nat /\ s[n] \in Nat
    BY <2>1, <2>5
  <2>7. PICK p \in {m, n} : s[m] <= s[p] /\ s[n] <= s[p]
    <3>1. CASE s[m] <= s[n]
      BY <2>6, <3>1
    <3>2. CASE ~(s[m] <= s[n])
      BY <2>6, <3>2
    <3> QED
      BY <3>1, <3>2
  <2>8. p \in 1 .. n /\ s[p] \in Nat
    BY <2>1, <2>5, <2>6, <2>7
  <2>9. ASSUME NEW k \in 1 .. n PROVE s[k] <= s[p]
    <3>1. CASE k = n
      BY <2>7, <3>1
    <3>2. CASE k # n
      <4>1. k \in 1 .. n - 1 /\ k \in 1 .. N
        BY <2>1, <3>2
      <4>2. s[k] <= s[m] /\ s[k] \in Nat
        BY <2>5, <4>1
      <4> QED
        BY <2>6, <2>7, <2>8, <4>2
    <3> QED
      BY <3>1, <3>2
  <2> QED
    BY <2>1, <2>8, <2>9
<1>2. Fails = {}
  <2>1. Fails \in SUBSET Nat
    OBVIOUS
  <2> HIDE DEF Fails
  <2> QED
    BY <1>1, <2>1, LeastNumber
<1>3. Has(N)
  <2>1. N \notin Fails
    <3> HIDE DEF Fails
    <3> QED
      BY <1>2
  <2> QED
    BY <2>1
<1> QED
  BY <1>3

\* So Max is one of them.
LEMMA MaxIsANumber ==
    ASSUME NEW s \in Seq(Nat), s # <<>> PROVE Max({s[n] : n \in DOMAIN s}) \in Nat
<1>1. Len(s) \in Nat \ {0} /\ s \in [1 .. Len(s) -> Nat] /\ DOMAIN s = 1 .. Len(s)
  OBVIOUS
<1>2. PICK m \in 1 .. Len(s) : \A n \in 1 .. Len(s) : s[n] <= s[m]
  BY <1>1, GreatestNumber
<1> DEFINE T == {s[n] : n \in DOMAIN s}
<1>3. T \in SUBSET Nat /\ s[m] \in T /\ \A y \in T : s[m] >= y
  BY <1>1, <1>2
<1> HIDE DEF T
<1>4. Max(T) \in T
  BY <1>3 DEF Max
<1> QED
  BY <1>3, <1>4 DEF T

\* The best similarity of a requirement
LEMMA BestIsANumber == ASSUME NEW r \in Requirement PROVE Best(r) \in Nat
<1>1. Embedded(r) \in Seq(Texts) /\ Embedded(r) # <<>>
  <2>1. r.text \in Texts /\ r.alts \in Seq(Texts)
    BY RankingAssumption DEF Requirement
  <2>2. <<r.text>> \in Seq(Texts) /\ <<r.text>> # <<>>
    BY <2>1
  <2> QED
    BY <2>1, <2>2 DEF Embedded
<1>2. PICK e \in Seq(Texts) : e = Embedded(r) /\ e # <<>>
  BY <1>1
<1> DEFINE t == [n \in DOMAIN e |-> Sim[e[n]]]
<1>3. DOMAIN e = 1 .. Len(e) /\ Len(e) \in Nat /\ \A n \in 1 .. Len(e) : e[n] \in Texts /\ Sim[e[n]] \in Nat
  BY RankingAssumption
<1>4. t \in Seq(Nat) /\ t # <<>> /\ DOMAIN t = DOMAIN e /\ \A n \in DOMAIN e : t[n] = Sim[e[n]]
  <2>1. t \in [1 .. Len(e) -> Nat] /\ Len(e) # 0
    BY <1>2, <1>3
  <2>2. t \in Seq(Nat) /\ Len(t) = Len(e)
    BY <1>3, <2>1
  <2>3. t # <<>>
    BY <2>1, <2>2
  <2> QED
    BY <2>2, <2>3
<1>5. {t[n] : n \in DOMAIN t} = {Sim[Embedded(r)[n]] : n \in DOMAIN Embedded(r)}
  BY <1>2, <1>4
<1> QED
  BY <1>4, <1>5, MaxIsANumber DEF Best

\* f gives every subset of S the sum of its values under b, an element at a time.
OneMore(f, b, s) == IF s = {} THEN 0 ELSE b[CHOOSE x \in s : TRUE] + f[s \ {CHOOSE x \in s : TRUE}]

SumsUp(f, b, S) == f = [s \in SUBSET S |-> OneMore(f, b, s)]

\* Taking the chosen element away
LEMMA Smaller ==
    ASSUME NEW S, IsFiniteSet(S), NEW s \in SUBSET S, s # {}
    PROVE  /\ (CHOOSE x \in s : TRUE) \in S
           /\ Cardinality(s) \in Nat /\ Cardinality(s \ {CHOOSE x \in s : TRUE}) = Cardinality(s) - 1
           /\ s \ {CHOOSE x \in s : TRUE} \in SUBSET S
<1>1. PICK x : x = CHOOSE y \in s : TRUE
  OBVIOUS
<1>2. x \in s /\ IsFiniteSet(s)
  BY <1>1, FS_Subset
<1> QED
  BY <1>1, <1>2, FS_RemoveElement, FS_CardinalityType

\* There is such an f: a least number of elements up to which there is none would be one more
\* than a number up to which there is one.
LEMMA SumsExist ==
    ASSUME NEW S, IsFiniteSet(S), NEW b \in [S -> Int]
    PROVE  \E f : SumsUp(f, b, S)
<1> DEFINE Level(k) == {s \in SUBSET S : Cardinality(s) <= k}
           Has(k) == \E f \in [Level(k) -> Int] : \A s \in Level(k) : f[s] = OneMore(f, b, s)
           Fails == {k \in 0 .. Cardinality(S) : ~Has(k)}
<1>1. Cardinality(S) \in Nat /\ \A s \in SUBSET S : Cardinality(s) \in Nat /\ Cardinality(s) <= Cardinality(S)
                                                  /\ (Cardinality(s) = 0 <=> s = {})
  BY FS_CardinalityType, FS_Subset, FS_EmptySet
<1>2. ASSUME NEW n \in Fails, \A k \in Fails : n <= k PROVE FALSE
  <2>2. n \in 0 .. Cardinality(S) /\ ~Has(n)
    OBVIOUS
  <2>3. n # 0
    <3> DEFINE f == [s \in Level(0) |-> 0]
    <3>1. \A s \in Level(0) : s = {}
      BY <1>1
    <3>2. f \in [Level(0) -> Int] /\ \A s \in Level(0) : f[s] = OneMore(f, b, s)
      BY <3>1 DEF OneMore
    <3>3. Has(0)
      BY <3>2
    <3> QED
      BY <2>2, <3>3
  <2>4. n \in Nat /\ n - 1 \in Nat /\ Has(n - 1)
    <3>1. n - 1 \in 0 .. Cardinality(S) /\ ~(n <= n - 1)
      BY <1>1, <2>2, <2>3
    <3>2. n - 1 \notin Fails
      BY <1>2, <3>1
    <3>3. Has(n - 1)
      BY <3>1, <3>2
    <3> HIDE DEF Has
    <3> QED
      BY <1>1, <2>2, <3>1, <3>3
  <2>5. PICK g \in [Level(n - 1) -> Int] : \A s \in Level(n - 1) : g[s] = OneMore(g, b, s)
    BY <2>4
  <2> DEFINE f == [s \in Level(n) |-> OneMore(g, b, s)]
  <2>6. ASSUME NEW s \in Level(n), s # {}
        PROVE  (CHOOSE x \in s : TRUE) \in S /\ s \ {CHOOSE x \in s : TRUE} \in Level(n - 1)
    <3>1. s \in SUBSET S /\ Cardinality(s) <= n
      OBVIOUS
    <3>2. /\ (CHOOSE x \in s : TRUE) \in S /\ s \ {CHOOSE x \in s : TRUE} \in SUBSET S
          /\ Cardinality(s) \in Nat /\ Cardinality(s \ {CHOOSE x \in s : TRUE}) = Cardinality(s) - 1
      BY <2>6, <3>1, Smaller
    <3> QED
      BY <2>4, <3>1, <3>2
  <2>7. f \in [Level(n) -> Int]
    <3>1. ASSUME NEW s \in Level(n) PROVE OneMore(g, b, s) \in Int
      <4>1. CASE s = {}
        BY <4>1 DEF OneMore
      <4>2. CASE s # {}
        <5>1. PICK x \in S, t \in Level(n - 1) : x = (CHOOSE y \in s : TRUE) /\ t = s \ {CHOOSE y \in s : TRUE}
          BY <2>6, <4>2
        <5>2. b[x] \in Int /\ g[t] \in Int /\ OneMore(g, b, s) = b[x] + g[t]
          BY <4>2, <5>1 DEF OneMore
        <5> QED
          BY <5>2
      <4> QED
        BY <4>1, <4>2
    <3> QED
      BY <3>1
  <2>8. ASSUME NEW s \in Level(n) PROVE f[s] = OneMore(f, b, s)
    <3>1. CASE s = {}
      BY <3>1 DEF OneMore
    <3>2. CASE s # {}
      <4>1. PICK t \in Level(n - 1) : t = s \ {CHOOSE y \in s : TRUE}
        BY <2>6, <3>2
      <4>2. t \in Level(n)
        BY <1>1, <2>4
      <4>3. f[t] = g[t]
        BY <2>5, <4>2
      <4> QED
        BY <3>2, <4>1, <4>3 DEF OneMore
    <3> QED
      BY <3>1, <3>2
  <2>9. Has(n)
    <3> HIDE DEF f, Level
    <3> QED
      BY <2>7, <2>8
  <2> QED
    BY <2>2, <2>9
<1>3. Has(Cardinality(S))
  <2>1. Fails \in SUBSET Nat
    BY <1>1
  <2>2. Fails = {}
    <3> HIDE DEF Fails
    <3> QED
      BY <1>2, <2>1, LeastNumber
  <2>3. Cardinality(S) \notin Fails
    <3> HIDE DEF Fails
    <3> QED
      BY <2>2
  <2>4. Cardinality(S) \in 0 .. Cardinality(S)
    BY <1>1
  <2> QED
    BY <2>3, <2>4
<1>4. Level(Cardinality(S)) = SUBSET S
  BY <1>1
<1>5. PICK f \in [SUBSET S -> Int] : \A s \in SUBSET S : f[s] = OneMore(f, b, s)
  <2> HIDE DEF Level
  <2> QED
    BY <1>3, <1>4
<1>6. SumsUp(f, b, S)
  BY <1>5 DEF SumsUp
<1> QED
  BY <1>6

\* Every such f gives numbers.
LEMMA SumsAreNumbers ==
    ASSUME NEW S, IsFiniteSet(S), NEW b \in [S -> Int], NEW f, SumsUp(f, b, S)
    PROVE  f[S] \in Int
<1> DEFINE Fails == {k \in Nat : \E s \in SUBSET S : Cardinality(s) = k /\ f[s] \notin Int}
<1>1. ASSUME Fails # {} PROVE FALSE
  <2>1. PICK n \in Fails : \A k \in Fails : n <= k
    <3>1. Fails \in SUBSET Nat
      OBVIOUS
    <3> HIDE DEF Fails
    <3> QED
      BY <1>1, <3>1, LeastNumber
  <2>2. n \in Nat
    BY <2>1
  <2>3. PICK s \in SUBSET S : Cardinality(s) = n /\ f[s] \notin Int
    BY <2>1
  <2>4. s # {} /\ f[s] = OneMore(f, b, s)
    <3>1. f[s] = OneMore(f, b, s)
      BY Zenon DEF SumsUp
    <3> QED
      BY <2>3, <3>1 DEF OneMore
  <2>5. PICK x \in S, t \in SUBSET S : /\ x = (CHOOSE y \in s : TRUE) /\ t = s \ {CHOOSE y \in s : TRUE}
                                       /\ n - 1 \in Nat /\ Cardinality(t) = n - 1
    <3>1. /\ (CHOOSE y \in s : TRUE) \in S /\ s \ {CHOOSE y \in s : TRUE} \in SUBSET S
          /\ Cardinality(s \ {CHOOSE y \in s : TRUE}) = Cardinality(s) - 1
      BY <2>4, Smaller
    <3>2. Cardinality(s) # 0
      BY <2>4, FS_Subset, FS_EmptySet
    <3>3. n - 1 \in Nat
      BY <2>2, <2>3, <3>2
    <3> QED
      BY <2>3, <3>1, <3>3
  <2>6. f[t] \in Int
    <3>1. ~(n <= n - 1)
      BY <2>2
    <3> QED
      BY <2>1, <2>5, <3>1
  <2>7. f[s] = b[x] + f[t] /\ b[x] \in Int
    BY <2>4, <2>5 DEF OneMore
  <2> QED
    BY <2>3, <2>6, <2>7
<1>2. Cardinality(S) \in Nat /\ Cardinality(S) \notin Fails
  BY <1>1, FS_CardinalityType
<1> QED
  BY <1>2

SumOver(reqs, S) == MapThenSumSet(LAMBDA n : Best(reqs[n]), S)

\* So the sum of the best similarities, which is such a fold, is a number.
LEMMA SumIsANumber ==
    ASSUME NEW reqs, NEW S, IsFiniteSet(S), \A n \in S : Best(reqs[n]) \in Int
    PROVE  SumOver(reqs, S) \in Int
<1> DEFINE b == [n \in S |-> Best(reqs[n])]
           Term(f, s) == IF s = {} THEN 0 ELSE LET x == CHOOSE x \in s : TRUE IN Best(reqs[x]) + f[s \ {x}]
           P(f) == f = [s \in SUBSET S |-> Term(f, s)]
<1>1. b \in [S -> Int]
  OBVIOUS
<1>2. ASSUME NEW f PROVE [s \in SUBSET S |-> OneMore(f, b, s)] = [s \in SUBSET S |-> Term(f, s)]
  <2>1. ASSUME NEW s \in SUBSET S PROVE OneMore(f, b, s) = Term(f, s)
    <3>1. CASE s = {}
      BY <3>1 DEF OneMore
    <3>2. CASE s # {}
      <4>1. PICK x \in S : x = CHOOSE y \in s : TRUE
        BY <3>2
      <4>2. OneMore(f, b, s) = b[x] + f[s \ {x}]
        BY <3>2, <4>1 DEF OneMore
      <4>3. Term(f, s) = Best(reqs[x]) + f[s \ {x}]
        BY <3>2, <4>1
      <4> QED
        BY <4>2, <4>3
    <3> QED
      BY <3>1, <3>2
  <2> HIDE DEF Term
  <2> QED
    BY <2>1
<1> HIDE DEF b
<1>3. \E f : P(f)
  <2>1. PICK f : SumsUp(f, b, S)
    BY <1>1, SumsExist
  <2>2. P(f)
    BY <1>2, <2>1, Zenon DEF SumsUp
  <2> QED
    BY <2>2
<1>4. SumOver(reqs, S) = (CHOOSE f : P(f))[S]
  BY DEF SumOver, MapThenSumSet, MapThenFoldSet
<1>5. PICK f : f = CHOOSE g : P(g)
  OBVIOUS
<1>6. P(f)
  <2> HIDE DEF P
  <2> QED
    BY <1>3, <1>5, Zenon
<1>7. SumsUp(f, b, S)
  BY <1>2, <1>6, Zenon DEF SumsUp
<1>8. f[S] \in Int
  BY <1>1, <1>7, SumsAreNumbers
<1> HIDE DEF P
<1> QED
  BY <1>4, <1>5, <1>8, Zenon

\* The sum of a mean is a number, and it is over one requirement at least.
LEMMA MeanIsOfNumbers ==
    ASSUME NEW reqs \in Seq(Requirement), NEW S \in SUBSET DOMAIN reqs
    PROVE  MeanOver(reqs, S).why = "" => MeanOver(reqs, S).sum \in Int /\ MeanOver(reqs, S).n \in Nat \ {0}
<1>1. IsFiniteSet(S) /\ Cardinality(S) \in Nat /\ (S # {} => Cardinality(S) \in Nat \ {0})
  <2>1. DOMAIN reqs = 1 .. Len(reqs) /\ Len(reqs) \in Int
    OBVIOUS
  <2>2. IsFiniteSet(S)
    BY <2>1, FS_Interval, FS_Subset
  <2> QED
    BY <2>2, FS_CardinalityType, FS_EmptySet
<1>2. \A n \in S : Best(reqs[n]) \in Int
  <2>1. ASSUME NEW n \in S PROVE Best(reqs[n]) \in Int
    <3>1. reqs[n] \in Requirement
      OBVIOUS
    <3> QED
      BY <3>1, BestIsANumber
  <2> QED
    BY <2>1
<1>3. PICK total \in Int : total = SumOver(reqs, S)
  BY <1>1, <1>2, SumIsANumber
<1>4. CASE S = {}
  BY <1>4 DEF MeanOver
<1>5. CASE S # {} /\ \E n \in S : ~Complete(reqs[n])
  BY <1>5 DEF MeanOver
<1>6. CASE S # {} /\ ~\E n \in S : ~Complete(reqs[n])
  <2>1. MeanOver(reqs, S) = [sum |-> total, n |-> Cardinality(S), why |-> ""]
    BY <1>3, <1>6, Zenon DEF MeanOver, SumOver
  <2>2. total \in Int /\ Cardinality(S) \in Nat \ {0}
    BY <1>1, <1>3, <1>6
  <2>3. MeanOver(reqs, S).sum = total /\ MeanOver(reqs, S).n = Cardinality(S)
    <3>1. \A a, b : [sum |-> a, n |-> b, why |-> ""].sum = a /\ [sum |-> a, n |-> b, why |-> ""].n = b
      OBVIOUS
    <3> QED
      BY <2>1, <3>1, Zenon
  <2> QED
    BY <2>2, <2>3, Zenon
<1> QED
  BY <1>4, <1>5, <1>6

-----------------------------------------------------------------------------
(* The order *)

Means(score) == \A j \in Scorable(score) : score[j].sum \in Int /\ score[j].n \in Nat \ {0}

\* Multiplying two fractions out
LEMMA CrossMultiplied ==
    ASSUME NEW a \in Int, NEW b \in Int, NEW c \in Int,
           NEW p \in Nat \ {0}, NEW q \in Nat \ {0}, NEW r \in Nat \ {0}, a * q >= b * p, b * r >= c * q
    PROVE  a * r >= c * p
<1>1. \A x, y \in Int, z \in Nat : x >= y => x * z >= y * z
  OBVIOUS
<1>2. a * q \in Int /\ b * p \in Int /\ b * r \in Int /\ c * q \in Int /\ a * r \in Int /\ c * p \in Int
  OBVIOUS
<1>3. (a * q) * r >= (b * p) * r /\ (b * r) * p >= (c * q) * p
  BY <1>1, <1>2
<1>4. (a * q) * r = (a * r) * q /\ (b * p) * r = (b * r) * p /\ (c * q) * p = (c * p) * q
  OBVIOUS
<1>5. (a * r) * q >= (c * p) * q
  BY <1>2, <1>3, <1>4
<1>6. \A x, y \in Int, z \in Nat \ {0} : x * z >= y * z => x >= y
  OBVIOUS
<1> QED
  BY <1>2, <1>5, <1>6

\* The ranking is a total order: mean scores first, and the ids of jobs with the same one.
LEMMA RankingOrders ==
    ASSUME NEW score, Means(score), NEW i \in Scorable(score), NEW j \in Scorable(score), NEW k \in Scorable(score)
    PROVE  /\ RanksBefore(score, i, j) \/ RanksBefore(score, j, i)
           /\ RanksBefore(score, i, j) /\ RanksBefore(score, j, i) => i = j
           /\ RanksBefore(score, i, j) /\ RanksBefore(score, j, k) => RanksBefore(score, i, k)
<1> DEFINE G(x, y) == score[x].sum * score[y].n >= score[y].sum * score[x].n
<1>1. \A x, y \in Scorable(score) :
        /\ x \in Nat
        /\ G(x, y) \/ G(y, x)
        /\ RanksBefore(score, x, y) <=> ~G(y, x) \/ (G(x, y) /\ x <= y)
  <2>1. ASSUME NEW x \in Scorable(score), NEW y \in Scorable(score)
        PROVE  /\ x \in Nat
               /\ G(x, y) \/ G(y, x)
               /\ RanksBefore(score, x, y) <=> ~G(y, x) \/ (G(x, y) /\ x <= y)
    <3>1. x \in Nat
      BY RankingAssumption DEF Scorable
    <3>2. PICK u \in Int, v \in Int : u = score[x].sum * score[y].n /\ v = score[y].sum * score[x].n
      BY DEF Means
    <3>3. (G(x, y) <=> u >= v) /\ (G(y, x) <=> v >= u) /\ (Better(score[x], score[y]) <=> u > v)
          /\ (Better(score[y], score[x]) <=> v > u)
      BY <3>2 DEF Better
    <3> QED
      BY <3>1, <3>3 DEF RanksBefore
  <2> QED
    BY <2>1
<1>2. \A x, y, z \in Scorable(score) : G(x, y) /\ G(y, z) => G(x, z)
  BY CrossMultiplied DEF Means
<1> HIDE DEF G
<1>3. i \in Nat /\ j \in Nat /\ k \in Nat
  BY <1>1
<1>4. RanksBefore(score, i, j) /\ RanksBefore(score, j, k) => RanksBefore(score, i, k)
  <2>1. SUFFICES ASSUME RanksBefore(score, i, j), RanksBefore(score, j, k), G(k, i) PROVE G(i, k) /\ i <= k
    BY <1>1
  <2>2. G(i, j) /\ G(j, k)
    BY <1>1, <2>1
  <2>3. G(i, k) /\ G(k, j) /\ G(j, i)
    BY <1>2, <2>1, <2>2
  <2>4. i <= j /\ j <= k
    BY <1>1, <2>1, <2>3
  <2> QED
    BY <1>3, <2>3, <2>4
<1>5. RanksBefore(score, i, j) \/ RanksBefore(score, j, i)
  <2>1. i <= j \/ j <= i
    BY <1>3
  <2> QED
    BY <1>1, <2>1
<1>6. RanksBefore(score, i, j) /\ RanksBefore(score, j, i) => i = j
  BY <1>1, <1>3
<1> QED
  BY <1>4, <1>5, <1>6

\* A job that ranks before another one has a smaller place.
LEMMA PlacesFollowOrder ==
    ASSUME NEW score, Means(score), NEW i \in Scorable(score), NEW j \in Scorable(score)
    PROVE  /\ Place(score, j) \in 1 .. Cardinality(Scorable(score))
           /\ RanksBefore(score, i, j) /\ i # j => Place(score, i) < Place(score, j)
<1> DEFINE D == Scorable(score)
           Above(k) == {m \in D : RanksBefore(score, m, k)}
<1>1. IsFiniteSet(D)
  BY RankingAssumption, FS_Subset DEF Scorable
<1>2. \A k \in D : /\ Above(k) \in SUBSET D /\ IsFiniteSet(Above(k)) /\ Place(score, k) = Cardinality(Above(k))
                   /\ Cardinality(Above(k)) \in Nat /\ Cardinality(Above(k)) <= Cardinality(D)
  BY <1>1, FS_Subset, FS_CardinalityType DEF Place
<1>3. j \in Above(j) /\ Cardinality(D) \in Nat
  BY <1>1, RankingOrders, FS_CardinalityType
<1>4. Cardinality(Above(j)) # 0
  BY <1>2, <1>3, FS_EmptySet
<1>5. ASSUME RanksBefore(score, i, j), i # j PROVE Place(score, i) < Place(score, j)
  <2>1. Above(i) \in SUBSET Above(j)
    <3>1. ASSUME NEW m \in Above(i) PROVE m \in Above(j)
      BY <1>5, RankingOrders
    <3> QED
      BY <3>1
  <2>2. j \notin Above(i)
    BY <1>5, RankingOrders
  <2>3. Above(i) # Above(j)
    BY <1>3, <2>2
  <2> HIDE DEF Above
  <2>4. Cardinality(Above(i)) <= Cardinality(Above(j)) /\ Cardinality(Above(i)) # Cardinality(Above(j))
    BY <1>2, <2>1, <2>3, FS_Subset
  <2> QED
    BY <1>2, <2>4
<1> HIDE DEF Above
<1> QED
  BY <1>2, <1>3, <1>4, <1>5

\* Every job that has a score is in the ranking, once, at its place.
LEMMA RankedOnce ==
    ASSUME NEW score, Means(score)
    PROVE  /\ \A j \in Scorable(score) :
                /\ Place(score, j) \in 1 .. Cardinality(Scorable(score))
                /\ Ranked(score)[Place(score, j)] = j
           /\ \A n \in 1 .. Cardinality(Scorable(score)) :
                Ranked(score)[n] \in Scorable(score) /\ Place(score, Ranked(score)[n]) = n
<1> DEFINE D == Scorable(score)
           N == Cardinality(D)
           place == [j \in D |-> Place(score, j)]
<1>1. IsFiniteSet(D) /\ N \in Nat
  BY RankingAssumption, FS_Subset, FS_CardinalityType DEF Scorable
<1>2. place \in [D -> 1 .. N]
  BY PlacesFollowOrder
<1>3. \A i, j \in D : place[i] = place[j] => i = j
  <2>1. ASSUME NEW i \in D, NEW j \in D, i # j PROVE place[i] # place[j]
    <3>1. Place(score, i) \in Int /\ Place(score, j) \in Int
      BY <1>1, PlacesFollowOrder
    <3>2. Place(score, i) < Place(score, j) \/ Place(score, j) < Place(score, i)
      BY <2>1, PlacesFollowOrder, RankingOrders
    <3> QED
      BY <3>1, <3>2
  <2> QED
    BY <2>1
<1>4. place \in Surjection(D, 1 .. N)
  <2> HIDE DEF place, D
  <2>1. place \in Injection(D, 1 .. N)
    BY <1>2, <1>3 DEF Injection, IsInjective
  <2>2. IsFiniteSet(1 .. N) /\ Cardinality(1 .. N) = N
    BY <1>1, FS_Interval
  <2> QED
    BY <2>1, <2>2, FS_Injection
<1>5. \A n \in 1 .. N : \E j \in D : Place(score, j) = n
  BY <1>4 DEF Surjection
<1>6. \A n \in 1 .. N : Ranked(score)[n] \in D /\ Place(score, Ranked(score)[n]) = n
  BY <1>5 DEF Ranked
<1>7. ASSUME NEW j \in D PROVE Place(score, j) \in 1 .. N /\ Ranked(score)[Place(score, j)] = j
  <2>1. Place(score, j) \in 1 .. N
    BY PlacesFollowOrder
  <2>2. Ranked(score)[Place(score, j)] \in D /\ Place(score, Ranked(score)[Place(score, j)]) = Place(score, j)
    BY <1>6, <2>1
  <2> QED
    BY <1>3, <2>1, <2>2
<1> QED
  BY <1>6, <1>7

-----------------------------------------------------------------------------
(* Pages that follow each other *)

\* The rows of a page are the places it covers.
LEMMA SliceIs ==
    ASSUME NEW S, NEW R \in Seq(S), NEW limit \in Nat \ {0}, NEW offset \in Nat
    PROVE  /\ \A i : i \in DOMAIN Slice(R, limit, offset) <=> i \in 1 .. limit /\ offset + i <= Len(R)
           /\ \A i \in DOMAIN Slice(R, limit, offset) : Slice(R, limit, offset)[i] = R[offset + i]
<1>1. PICK N \in Nat : N = Len(R)
  OBVIOUS
<1>2. PICK e \in Nat : e = (IF offset + limit <= N THEN offset + limit ELSE N) /\ e <= N
  BY <1>1
<1>3. Slice(R, limit, offset) = SubSeq(R, offset + 1, e)
  BY <1>1, <1>2, MinOfTwo DEF Slice
<1>4. PICK t : t = SubSeq(R, offset + 1, e)
  OBVIOUS
<1>5. CASE e < offset + 1
  <2>1. t = <<>>
    BY <1>1, <1>2, <1>4, <1>5
  <2>2. \A i \in 1 .. limit : ~(offset + i <= N)
    BY <1>2, <1>5
  <2> QED
    BY <1>1, <1>3, <1>4, <2>1, <2>2
<1>6. CASE ~(e < offset + 1)
  <2>1. DOMAIN t = 1 .. e - offset /\ \A i \in 1 .. e - offset : t[i] = R[offset + i]
    <3>1. /\ offset + 1 \in 1 .. Len(R) + 1 /\ e \in offset .. Len(R) /\ e - (offset + 1) + 1 = e - offset
          /\ \A i : i \in 1 .. e - offset => offset + 1 + i - 1 = offset + i
      BY <1>1, <1>2, <1>6
    <3>2. /\ t = [i \in 1 .. e - (offset + 1) + 1 |-> R[offset + 1 + i - 1]]
      BY <1>4, <3>1
    <3> QED
      BY <3>1, <3>2
  <2>2. \A i : i \in 1 .. e - offset <=> i \in 1 .. limit /\ offset + i <= N
    BY <1>2, <1>6
  <2> QED
    BY <1>1, <1>3, <1>4, <2>1, <2>2
<1> QED
  BY <1>5, <1>6

\* A number is on one page of any size.
LEMMA OnOnePage ==
    ASSUME NEW limit \in Nat \ {0}, NEW p \in Nat \ {0}
    PROVE  \E k \in Nat : \E i \in 1 .. limit : p = k * limit + i
<1> DEFINE T == {k \in Nat : p <= k * limit + limit}
<1>1. T \in SUBSET Nat /\ p \in T
  <2>1. p * limit >= p
    <3>1. \A x \in Nat, y \in Nat \ {0} : x * y >= x
      OBVIOUS
    <3> QED
      BY <3>1
  <2>2. p * limit \in Nat
    OBVIOUS
  <2> QED
    BY <2>1, <2>2
<1>2. PICK k \in T : \A m \in T : k <= m
  <2> HIDE DEF T
  <2> QED
    BY <1>1, LeastNumber
<1>3. PICK o \in Nat : o = k * limit /\ p <= o + limit
  BY <1>2
<1>4. o < p
  <2>1. CASE k = 0
    <3>1. o = 0
      BY <1>3, <2>1
    <3> QED
      BY <3>1
  <2>2. CASE k # 0
    <3>1. k - 1 \in Nat /\ ~(k <= k - 1)
      BY <1>2, <2>2
    <3>2. k - 1 \notin T
      BY <1>2, <3>1
    <3>3. (k - 1) * limit + limit = o
      <4>1. \A x \in Nat, y \in Nat : (x - 1) * y + y = x * y
        OBVIOUS
      <4> QED
        BY <1>2, <1>3, <4>1
    <3> QED
      BY <1>3, <3>1, <3>2, <3>3
  <2> QED
    BY <2>1, <2>2
<1>5. p - o \in 1 .. limit /\ p = o + (p - o)
  BY <1>3, <1>4
<1> QED
  BY <1>2, <1>3, <1>5

\* and comes after those of the pages before it.
LEMMA PagesFollow ==
    ASSUME NEW limit \in Nat \ {0}, NEW k \in Nat, NEW m \in Nat, NEW i \in 1 .. limit, NEW h \in 1 .. limit, k < m
    PROVE  k * limit + i < m * limit + h
<1>1. \A x, y \in Nat, z \in Nat : x + 1 <= y => x * z + z <= y * z
  OBVIOUS
<1>2. k * limit + limit <= m * limit /\ k * limit \in Nat /\ m * limit \in Nat
  BY <1>1
<1>3. \A a, b \in Nat : a + limit <= b => a + i < b + h
  OBVIOUS
<1> QED
  BY <1>2, <1>3

Scores == [j \in Jobs |-> SqlScore(kept[j])]
PageRows(limit, k) == SqlPage(limit, k * limit).rows

\* The pages of one size list the jobs that have a score, each of them once and in the order of
\* the ranking.
EachJobOnce(limit) ==
    /\ \A j \in Scorable(Scores) : \E k \in Nat : \E i \in DOMAIN PageRows(limit, k) : PageRows(limit, k)[i] = j
    /\ \A k, m \in Nat : \A i \in DOMAIN PageRows(limit, k), h \in DOMAIN PageRows(limit, m) :
          LET a == PageRows(limit, k)[i]
              b == PageRows(limit, m)[h]
          IN  /\ a \in Scorable(Scores)
              /\ a = b => k = m /\ i = h
              /\ k < m \/ (k = m /\ i <= h) => RanksBefore(Scores, a, b)

\* The scores of what the import keeps are means of numbers.
LEMMA ScoresAreMeans == ASSUME RankInv PROVE Means(Scores)
<1>1. ASSUME NEW j \in Scorable(Scores) PROVE Scores[j].sum \in Int /\ Scores[j].n \in Nat \ {0}
  <2>1. j \in Jobs /\ Scores[j] = SqlScore(kept[j]) /\ Scores[j].why = "" /\ kept[j] \in Seq(Requirement)
    BY DEF Scorable, Scores, RankInv, RankTypes
  <2>2. PICK S \in SUBSET DOMAIN kept[j] : SqlScore(kept[j]) = MeanOver(kept[j], S)
    BY DEF SqlScore
  <2> QED
    BY <2>1, <2>2, MeanIsOfNumbers
<1> QED
  BY <1>1 DEF Means

\* A page shows the jobs at its places.
LEMMA PageShowsPlaces ==
    ASSUME RankInv, NEW limit \in Nat \ {0}, NEW k \in Nat
    PROVE  /\ \A i : i \in DOMAIN PageRows(limit, k) <=>
                        i \in 1 .. limit /\ k * limit + i <= Cardinality(Scorable(Scores))
           /\ \A i \in DOMAIN PageRows(limit, k) :
                /\ PageRows(limit, k)[i] = Ranked(Scores)[k * limit + i]
                /\ PageRows(limit, k)[i] \in Scorable(Scores)
                /\ Place(Scores, PageRows(limit, k)[i]) = k * limit + i
<1>1. PageRows(limit, k) = Slice(Ranked(Scores), limit, k * limit)
  BY DEF PageRows, SqlPage, Scores
<1>2. PICK N \in Nat : N = Cardinality(Scorable(Scores))
  <2>1. IsFiniteSet(Scorable(Scores))
    BY RankingAssumption, FS_Subset DEF Scorable
  <2> QED
    BY <2>1, FS_CardinalityType
<1>3. Means(Scores)
  BY ScoresAreMeans
<1>4. \A n \in 1 .. N : Ranked(Scores)[n] \in Scorable(Scores) /\ Place(Scores, Ranked(Scores)[n]) = n
  BY <1>2, <1>3, RankedOnce
<1>5. Ranked(Scores) \in Seq(Scorable(Scores)) /\ Len(Ranked(Scores)) = N
  <2>1. Ranked(Scores) \in [1 .. N -> Scorable(Scores)]
    BY <1>2, <1>4 DEF Ranked
  <2> QED
    BY <1>2, <2>1
<1>6. PICK o \in Nat : o = k * limit
  OBVIOUS
<1>7. /\ \A i : i \in DOMAIN PageRows(limit, k) <=> i \in 1 .. limit /\ o + i <= N
      /\ \A i \in DOMAIN PageRows(limit, k) : PageRows(limit, k)[i] = Ranked(Scores)[o + i]
  BY <1>1, <1>5, <1>6, SliceIs
<1>8. \A i \in DOMAIN PageRows(limit, k) : o + i \in 1 .. N
  BY <1>2, <1>6, <1>7
<1> QED
  BY <1>2, <1>4, <1>6, <1>7, <1>8

\* So a job is on the page its place is on, and on no other.
LEMMA PagesListEachOnce == ASSUME RankInv, NEW limit \in Nat \ {0} PROVE EachJobOnce(limit)
<1>1. Means(Scores)
  BY ScoresAreMeans
<1>2. PICK N \in Nat : N = Cardinality(Scorable(Scores))
  <2>1. IsFiniteSet(Scorable(Scores))
    BY RankingAssumption, FS_Subset DEF Scorable
  <2> QED
    BY <2>1, FS_CardinalityType
<1>3. ASSUME NEW j \in Scorable(Scores)
      PROVE  \E k \in Nat : \E i \in DOMAIN PageRows(limit, k) : PageRows(limit, k)[i] = j
  <2>1. PICK p \in 1 .. N : p = Place(Scores, j) /\ Ranked(Scores)[p] = j
    BY <1>1, <1>2, RankedOnce
  <2>2. PICK k \in Nat : \E i \in 1 .. limit : p = k * limit + i
    <3>1. p \in Nat \ {0}
      BY <2>1
    <3> QED
      BY <3>1, OnOnePage
  <2>3. PICK i \in 1 .. limit : p = k * limit + i
    BY <2>2
  <2>4. i \in DOMAIN PageRows(limit, k)
    <3>1. k * limit + i <= N
      BY <2>1, <2>3
    <3> QED
      BY <1>2, <3>1, PageShowsPlaces
  <2>5. PageRows(limit, k)[i] = j
    BY <2>1, <2>3, <2>4, PageShowsPlaces
  <2> QED
    BY <2>4, <2>5
<1>4. ASSUME NEW k \in Nat, NEW m \in Nat, NEW i \in DOMAIN PageRows(limit, k), NEW h \in DOMAIN PageRows(limit, m)
      PROVE  LET a == PageRows(limit, k)[i]
                 b == PageRows(limit, m)[h]
             IN  /\ a \in Scorable(Scores)
                 /\ a = b => k = m /\ i = h
                 /\ k < m \/ (k = m /\ i <= h) => RanksBefore(Scores, a, b)
  <2> DEFINE a == PageRows(limit, k)[i]
             b == PageRows(limit, m)[h]
  <2>1. /\ a \in Scorable(Scores) /\ Place(Scores, a) = k * limit + i /\ i \in 1 .. limit
        /\ b \in Scorable(Scores) /\ Place(Scores, b) = m * limit + h /\ h \in 1 .. limit
    BY PageShowsPlaces
  <2> HIDE DEF a, b
  <2>2. PICK p \in Nat, q \in Nat : p = k * limit + i /\ q = m * limit + h
    BY <2>1
  <2>3. (k < m => p < q) /\ (m < k => q < p)
    BY <2>1, <2>2, PagesFollow
  <2>4. ASSUME a = b PROVE k = m /\ i = h
    <3>1. p = q
      BY <2>1, <2>2, <2>4
    <3>2. k = m
      BY <2>3, <3>1
    <3>3. \A o \in Nat : o + i = o + h => i = h
      BY <2>1
    <3>4. k * limit \in Nat /\ k * limit + i = k * limit + h
      BY <2>2, <3>1, <3>2
    <3> QED
      BY <3>2, <3>3, <3>4
  <2>5. ASSUME k < m \/ (k = m /\ i <= h) PROVE RanksBefore(Scores, a, b)
    <3>1. p <= q
      <4>1. CASE k < m
        BY <2>3, <4>1
      <4>2. CASE k = m /\ i <= h
        <5>1. \A o \in Nat : o + i <= o + h
          BY <2>1, <4>2
        <5>2. k * limit \in Nat
          OBVIOUS
        <5> QED
          BY <2>2, <4>2, <5>1, <5>2
      <4> QED
        BY <2>5, <4>1, <4>2
    <3>2. ~(q < p)
      BY <3>1
    <3>3. RanksBefore(Scores, b, a) /\ a # b => q < p
      BY <1>1, <2>1, <2>2, PlacesFollowOrder
    <3>4. (RanksBefore(Scores, a, b) \/ RanksBefore(Scores, b, a)) /\ (RanksBefore(Scores, a, a) \/ RanksBefore(Scores, a, a))
      BY <1>1, <2>1, RankingOrders
    <3> QED
      BY <3>2, <3>3, <3>4
  <2> QED
    BY <2>1, <2>4, <2>5 DEF a, b
<1> QED
  BY <1>3, <1>4 DEF EachJobOnce

\* Whoever reads the ranking a page after the other sees every job that has a score exactly once,
\* best score first, whatever the size of the pages: ties have an order.
THEOREM EveryJobIsOnOnePage == RankSpec => [](\A limit \in Nat \ {0} : EachJobOnce(limit))
<1>1. RankInv => \A limit \in Nat \ {0} : EachJobOnce(limit)
  BY PagesListEachOnce
<1> QED
  BY <1>1, RankInductive, PTL
=============================================================================
