---------------------------- MODULE DeployFoundation ----------------------------
(***************************************************************************)
(* infra/scripts/deploy-foundation.py: runs of the deployment runner       *)
(* against one AWS account, with the commands they leave behind on the     *)
(* host.  A run may be interrupted or time out anywhere and be started     *)
(* again; two operators may run it at once; the remote script goes on      *)
(* whether or not its runner still polls it; the host's address and the    *)
(* latest AMI change under a run.                                          *)
(*                                                                         *)
(* AWS, DNS and the host are external: they are modelled from the calls    *)
(* and the scripts of the runner.                                          *)
(***************************************************************************)
EXTENDS Naturals, FiniteSets

CONSTANTS
    Runners,        \* operators
    Builds,         \* source snapshots with their images
    Ips, Amis,
    Slots,          \* bound: remote commands known at a time
    MaxTrouble,     \* bound: interruptions, timeouts, failures, restarts
    None

BuildParams == [template : Builds, images : Builds, source : Builds, ami : Amis]
Stack == [status : {"creating", "complete", "failed"}, params : BuildParams]
Command == [pc : {"dry", "check", "import", "dns", "https", "done", "failed"}, ip : Ips, dns : BOOLEAN]

ASSUME DeployAssumption ==
    /\ MaxTrouble \in Nat
    /\ IsFiniteSet(Slots) /\ Builds # {} /\ Ips # {} /\ Amis # {}
    /\ None \notin Ips /\ None \notin BuildParams /\ None \notin Stack /\ None \notin Command

VARIABLES
    stack,      \* the CloudFormation stack: None, or its status and parameters
    logs,       \* the API's log group exists
    ami,        \* the latest AMI
    ip,         \* the public address of the host
    record,     \* what DuckDNS was told
    dns,        \* what the hostname resolves to
    https,      \* the certificate is installed
    api,        \* the API container runs
    current,    \* the synthetic catalogue is complete
    cmds,       \* cmds[c]: a remote command, or None
    run,        \* run[r]: a run of the script
    trouble,    \* disturbances so far
    shaken      \* history: runners whose run met a change of the host's address, or a run that had

world == <<stack, logs, ami, ip, record, dns, https, api, current>>
vars == <<world, cmds, run, trouble, shaken>>

NoRun == [pc |-> "idle", apply |-> FALSE, params |-> None, seen |-> None, ip |-> None, ready |-> FALSE,
          cmd |-> None, exit |-> "none"]

Init ==
    /\ stack = None /\ logs = FALSE
    /\ ami = (CHOOSE a \in Amis : TRUE) /\ ip = (CHOOSE i \in Ips : TRUE)     \* the names are interchangeable
    /\ record = None /\ dns = None /\ https = FALSE /\ api = FALSE /\ current = FALSE
    /\ cmds = [c \in Slots |-> None] /\ run = [r \in Runners |-> NoRun]
    /\ trouble = 0 /\ shaken = {}

RunPcs == {"idle", "look", "logs", "plan", "create", "wait", "address", "probe", "online", "poll", "dns",
           "https", "poll_https", "final"}

RunRow == [pc : RunPcs, apply : BOOLEAN, params : BuildParams \cup {None}, seen : Stack \cup {None},
           ip : Ips \cup {None}, ready : BOOLEAN, cmd : Slots \cup {None}, exit : {"none", "ok", "error"}]

TypeOK ==
    /\ stack \in Stack \cup {None}
    /\ logs \in BOOLEAN /\ https \in BOOLEAN /\ api \in BOOLEAN /\ current \in BOOLEAN
    /\ ami \in Amis /\ ip \in Ips /\ record \in Ips \cup {None} /\ dns \in Ips \cup {None}
    /\ cmds \in [Slots -> Command \cup {None}]
    /\ run \in [Runners -> RunRow]
    /\ trouble \in 0 .. MaxTrouble /\ shaken \subseteq Runners

-----------------------------------------------------------------------------
Goto(r, step) == run' = [run EXCEPT ![r].pc = step]
Exit(r, code) == run' = [run EXCEPT ![r] = [NoRun EXCEPT !.exit = code, !.apply = run[r].apply]]
Quiet == UNCHANGED <<world, cmds, trouble, shaken>>

\* load_artifacts: the archive, the manifest beside it, the digests and the provenance may
\* come from different builds; any disagreement stops the run.
ArtifactsAgree(a) == a.archive = a.manifest /\ a.digests = a.manifest /\ a.provenance = a.manifest

\* expected_parameters
Parameters(a) == [template |-> a.archive, images |-> a.digests, source |-> a.manifest, ami |-> ami]

\* Some run, command or resolver is still to act on an address the host had before.
StaleAddress ==
    \/ \E r \in Runners : run[r].ip \notin {None, ip}
    \/ \E c \in Slots : cmds[c] # None /\ cmds[c].ip # ip
    \/ dns # record /\ record # ip

Start(r) ==
    /\ run[r].pc = "idle"
    /\ \E a \in [archive : Builds, manifest : Builds, digests : Builds, provenance : Builds], apply \in BOOLEAN :
        /\ ArtifactsAgree(a)
        /\ run' = [run EXCEPT ![r] = [NoRun EXCEPT !.pc = "look", !.apply = apply, !.params = Parameters(a)]]
    /\ shaken' = IF StaleAddress THEN shaken \cup {r} ELSE shaken \ {r}
    /\ UNCHANGED <<world, cmds, trouble>>

\* stack_status
Look(r) ==
    /\ run[r].pc = "look"
    /\ run' = [run EXCEPT ![r].seen = stack, ![r].pc = "logs"]
    /\ Quiet

\* verify_log_group
VerifyLogGroup(r) ==
    /\ run[r].pc = "logs"
    /\ IF logs = (run[r].seen # None) THEN Goto(r, "plan") ELSE Exit(r, "error")
    /\ Quiet

\* faulty variant: the latest AMI is compared too
ValidatesAmi(r) == run[r].seen.status = "complete" /\ run[r].seen.params = run[r].params

\* The AMI of an existing stack is kept; validate_existing_stack compares the rest.
Validates(r) ==
    LET seen == run[r].seen
    IN  seen.status = "complete" /\ seen.params = [run[r].params EXCEPT !.ami = seen.params.ami]

Plan(r) ==
    /\ run[r].pc = "plan"
    /\ \/ run[r].seen # None /\ ~Validates(r) /\ Exit(r, "error")
       \/ (run[r].seen # None => Validates(r)) /\ ~run[r].apply /\ Exit(r, "ok")
       \/ run[r].seen = None /\ run[r].apply /\ Goto(r, "create")
       \/ run[r].seen # None /\ Validates(r) /\ run[r].apply /\ Goto(r, "address")
    /\ Quiet

-----------------------------------------------------------------------------
(* apply_deployment *)

\* faulty variant: an existing stack is taken for the one just created
CreateAdopts(r) ==
    /\ run[r].pc = "create" /\ Goto(r, "wait")
    /\ stack' = IF stack = None THEN [status |-> "creating", params |-> run[r].params] ELSE stack

\* create-stack fails if the stack has come into being since it was looked for.
Create(r) ==
    /\ run[r].pc = "create"
    /\ \/ stack = None /\ stack' = [status |-> "creating", params |-> run[r].params] /\ Goto(r, "wait")
       \/ stack # None /\ Exit(r, "error") /\ UNCHANGED stack

CreateStack(r) ==
    /\ Create(r)
    /\ UNCHANGED <<logs, ami, ip, record, dns, https, api, current, cmds, trouble, shaken>>

WaitStack(r) ==
    /\ run[r].pc = "wait"
    /\ \/ stack.status = "complete" /\ Goto(r, "address")
       \/ stack.status = "failed" /\ Exit(r, "error")
    /\ Quiet

\* _public_ip; only a run that found the stack looks whether everything works already.
PublicIp(r) ==
    /\ run[r].pc = "address"
    /\ run' = [run EXCEPT ![r].ip = ip, ![r].pc = IF run[r].seen = None THEN "online" ELSE "probe"]
    /\ Quiet

\* _ready: the hostname answers over HTTPS
Ready == dns = ip /\ https /\ api

\* faulty variant: an endpoint that answers is enough
ProbeEndpoint(r) == https /\ api

PublicReady(r) == dns = run[r].ip /\ Ready

Probe(r) ==
    /\ run[r].pc = "probe"
    /\ run' = [run EXCEPT ![r].ready = PublicReady(r), ![r].pc = "online"]
    /\ Quiet

\* _run_ssm: send-command, then poll
Send(r, kind, step) ==
    \E c \in Slots :
        /\ cmds[c] = None
        /\ cmds' = [cmds EXCEPT ![c] = [pc |-> kind, ip |-> run[r].ip, dns |-> ~run[r].ready]]
        /\ run' = [run EXCEPT ![r].pc = step, ![r].cmd = c]

\* The agent is online once the stack is up.
SendCatalogue(r) ==
    /\ run[r].pc = "online"
    /\ Send(r, "dry", "poll")
    /\ UNCHANGED <<world, trouble, shaken>>

\* Polling ends with the command; a finished command that nobody polls is forgotten.
Polled(r, done) ==
    LET c == run[r].cmd
    IN  /\ cmds[c].pc \in {"done", "failed"}
        /\ cmds' = [cmds EXCEPT ![c] = None]
        /\ IF cmds[c].pc = "done" THEN done ELSE Exit(r, "error")
        /\ UNCHANGED <<world, trouble, shaken>>

PollCatalogue(r) ==
    /\ run[r].pc = "poll"
    /\ Polled(r, IF run[r].ready THEN Exit(r, "ok") ELSE Goto(r, "dns"))

WaitDns(r) ==
    /\ run[r].pc = "dns" /\ dns = run[r].ip
    /\ Goto(r, "https")
    /\ Quiet

EnableHttps(r) ==
    /\ run[r].pc = "https"
    /\ \/ Ready /\ Goto(r, "final") /\ Quiet
       \/ ~Ready /\ Send(r, "https", "poll_https") /\ UNCHANGED <<world, trouble, shaken>>

PollHttps(r) == run[r].pc = "poll_https" /\ Polled(r, Goto(r, "final"))

VerifyReady(r) ==
    /\ run[r].pc = "final" /\ Ready
    /\ Exit(r, "ok")
    /\ Quiet

\* A deadline passes before the stack is up, the name resolves or the endpoint answers.
TimesOut(r) ==
    /\ \/ run[r].pc = "wait" /\ stack.status = "creating"
       \/ run[r].pc = "dns" /\ dns # run[r].ip
       \/ run[r].pc = "final" /\ ~Ready
    /\ Exit(r, "error")
    /\ Quiet

\* A command takes too long, AWS refuses a call, or the operator stops the run: what it started goes on.
GivesUp(r) ==
    /\ run[r].pc # "idle" /\ trouble < MaxTrouble
    /\ Exit(r, "error")
    /\ trouble' = trouble + 1
    /\ UNCHANGED <<world, cmds, shaken>>

RunnerStep(r) ==
    \/ Look(r) \/ VerifyLogGroup(r) \/ Plan(r) \/ CreateStack(r) \/ WaitStack(r) \/ PublicIp(r) \/ Probe(r)
    \/ SendCatalogue(r) \/ PollCatalogue(r) \/ WaitDns(r) \/ EnableHttps(r) \/ PollHttps(r) \/ VerifyReady(r)
    \/ TimesOut(r)

-----------------------------------------------------------------------------
(* catalogue_reconciliation_script and enable-https.sh on the host *)

CmdStep(c, step) == cmds' = [cmds EXCEPT ![c].pc = step]
AfterImport(c) == IF cmds[c].dns THEN "dns" ELSE "done"

DryRun(c) ==
    /\ cmds[c] # None /\ cmds[c].pc = "dry"
    /\ CmdStep(c, IF current THEN AfterImport(c) ELSE "check")
    /\ UNCHANGED <<world, run, trouble, shaken>>

\* docker compose ps: no import while the API runs
CheckStopped(c) ==
    /\ cmds[c] # None /\ cmds[c].pc = "check"
    /\ CmdStep(c, IF api THEN "failed" ELSE "import")
    /\ UNCHANGED <<world, run, trouble, shaken>>

Import(c) ==
    /\ cmds[c] # None /\ cmds[c].pc = "import"
    /\ current' = TRUE /\ CmdStep(c, AfterImport(c))
    /\ UNCHANGED <<stack, logs, ami, ip, record, dns, https, api, run, trouble, shaken>>

UpdateDns(c) ==
    /\ cmds[c] # None /\ cmds[c].pc = "dns"
    /\ record' = cmds[c].ip /\ CmdStep(c, "done")
    /\ UNCHANGED <<stack, logs, ami, ip, dns, https, api, current, run, trouble, shaken>>

ActivateHttps(c) ==
    /\ cmds[c] # None /\ cmds[c].pc = "https"
    /\ \/ dns = cmds[c].ip /\ https' = TRUE /\ api' = TRUE /\ CmdStep(c, "done")
       \/ dns # cmds[c].ip /\ CmdStep(c, "failed") /\ UNCHANGED <<https, api>>
    /\ UNCHANGED <<stack, logs, ami, ip, record, dns, current, run, trouble, shaken>>

\* The command fails or runs out of time.
CommandDies(c) ==
    /\ cmds[c] # None /\ cmds[c].pc \notin {"done", "failed"} /\ trouble < MaxTrouble
    /\ CmdStep(c, "failed") /\ trouble' = trouble + 1
    /\ UNCHANGED <<world, run, shaken>>

Forget(c) ==
    /\ cmds[c] # None /\ cmds[c].pc \in {"done", "failed"}
    /\ \A r \in Runners : run[r].pc \in {"poll", "poll_https"} => run[r].cmd # c
    /\ cmds' = [cmds EXCEPT ![c] = None]
    /\ UNCHANGED <<world, run, trouble, shaken>>

CommandStep(c) == DryRun(c) \/ CheckStopped(c) \/ Import(c) \/ UpdateDns(c) \/ ActivateHttps(c) \/ Forget(c)

-----------------------------------------------------------------------------
(* AWS, the resolvers and the host *)

StackEnds ==
    /\ stack # None /\ stack.status = "creating"
    /\ \E s \in {"complete", "failed"} : stack' = [stack EXCEPT !.status = s]
    /\ logs' \in (IF stack'.status = "complete" THEN {TRUE} ELSE BOOLEAN)
    /\ UNCHANGED <<ami, ip, record, dns, https, api, current, cmds, run, trouble, shaken>>

DnsSpreads ==
    /\ dns # record /\ dns' = record
    /\ UNCHANGED <<stack, logs, ami, ip, record, https, api, current, cmds, run, trouble, shaken>>

AmiAdvances ==
    /\ trouble < MaxTrouble /\ trouble' = trouble + 1
    /\ ami' \in Amis \ {ami}
    /\ UNCHANGED <<stack, logs, ip, record, dns, https, api, current, cmds, run, shaken>>

\* After a stop and start the address is another; the containers come back.
HostRestarts ==
    /\ stack # None /\ stack.status = "complete" /\ trouble < MaxTrouble /\ trouble' = trouble + 1
    /\ ip' \in Ips \ {ip}
    /\ cmds' = [c \in Slots |-> IF cmds[c] = None \/ cmds[c].pc = "done" THEN cmds[c] ELSE [cmds[c] EXCEPT !.pc = "failed"]]
    /\ shaken' = Runners
    /\ UNCHANGED <<stack, logs, ami, record, dns, https, api, current, run>>

Outside == StackEnds \/ DnsSpreads \/ AmiAdvances \/ HostRestarts

Next ==
    \/ \E r \in Runners : Start(r) \/ RunnerStep(r) \/ GivesUp(r)
    \/ \E c \in Slots : CommandStep(c) \/ CommandDies(c)
    \/ Outside

Spec == Init /\ [][Next]_vars

\* A deployment of the build the stack has, or of any build if there is no stack
Applies(r) == Start(r) /\ run'[r].apply /\ (stack # None => run'[r].params.source = stack.params.source)

\* Runs and commands go on, CloudFormation and the resolvers answer, and the operator
\* starts a deployment again until one succeeds.
FairSpec ==
    /\ Spec
    /\ \A r \in Runners : WF_vars(RunnerStep(r)) /\ SF_vars(Applies(r))
    /\ \A c \in Slots : WF_vars(CommandStep(c))
    /\ WF_vars(StackEnds) /\ WF_vars(DnsSpreads)

-----------------------------------------------------------------------------
(* Properties *)

\* The template, the images and the source of the stack are of one build, although the
\* artifact directory may mix builds and two runs may race to create the stack; and what a
\* run does to the host it does to a complete stack of its own build.
OneBuild ==
    /\ stack # None => stack.params.template = stack.params.source /\ stack.params.images = stack.params.source
    /\ \A r \in Runners : run[r].pc \in {"address", "probe", "online", "poll", "dns", "https", "poll_https", "final"} =>
          stack.status = "complete" /\ stack.params.source = run[r].params.source

\* A run that reports a finished deployment, on a host whose address nothing changed
\* meanwhile, reports a complete stack with a current catalogue, the hostname at the host's address and
\* the API answering, whichever earlier runs or other operators did part of the work.
SuccessIsReal ==
    [][\A r \in Runners : run[r].pc # "idle" /\ run[r].apply /\ run'[r].exit = "ok" /\ r \notin shaken =>
          stack.status = "complete" /\ current /\ dns = ip /\ https /\ api]_vars

\* However a deployment was interrupted, running it again completes it, unless
\* CloudFormation has failed, which the script leaves to a person.
RerunCompletes == <>((current /\ Ready) \/ (stack # None /\ stack.status = "failed"))
=============================================================================
