---------------------------- MODULE LocalPipeline ----------------------------
(***************************************************************************)
(* The processing subsystem in local mode: the resume API and the worker   *)
(* processes of local_worker.py, which publish the outbox into the         *)
(* database queue (dispatch_outbox), claim the oldest due task (run_one)   *)
(* and clean up, over the shared rows and the temporary objects.           *)
(*                                                                         *)
(* Faults - a process dying, a worker stalled past its lease, a failing    *)
(* transaction - may happen anywhere, MaxFaults times in a behaviour.      *)
(***************************************************************************)
EXTENDS TaskWorker

CONSTANT MaxFaults      \* bound: faults in a behaviour

ASSUME FaultAssumption == MaxFaults \in Nat

VARIABLES
    batch,      \* batch[w]: the events a worker claimed and has not delivered
    faults      \* faults so far

vars == <<dbVars, apiVars, memVars, batch, faults>>

Init ==
    /\ DbInit /\ ApiInit /\ MemInit
    /\ batch = [w \in Workers |-> {}]
    /\ faults = 0

TypeOK ==
    /\ DbTypeOK /\ ApiTypeOK /\ MemTypeOK
    /\ batch \in [Workers -> SUBSET TaskIds]
    /\ faults \in 0 .. MaxFaults

Fault == faults < MaxFaults /\ faults' = faults + 1

-----------------------------------------------------------------------------
(* dispatch_outbox *)

ClaimBatch(w) ==
    LET due == {t \in TaskIds : Publishable(t)} IN
    /\ pc[w] = "poll"
    /\ event' = [t \in TaskIds |-> IF t \in due THEN ClaimedEvent(event[t], w) ELSE event[t]]
    /\ batch' = [batch EXCEPT ![w] = due]
    /\ Goto(w, IF due = {} THEN "claim" ELSE "deliver")
    /\ UNCHANGED <<rev, profile, chunks, task, apiVars, cur, input, content, owed, faults>>

\* The worker goes on to its next delivery, or to run_one after the last.
Delivered(w, t) ==
    /\ batch' = [batch EXCEPT ![w] = @ \ {t}]
    /\ Goto(w, IF batch[w] = {t} THEN "claim" ELSE "deliver")
    /\ UNCHANGED <<rev, profile, chunks, task, apiVars, cur, input, content, owed>>

Acknowledge(w, t) ==
    event' = [event EXCEPT ![t] = IF EventFenced(t, w) THEN SentEvent(@) ELSE @]

Deliver(w, t) ==
    /\ pc[w] = "deliver" /\ t \in batch[w]
    /\ IF task[t].st \in {"CANCELLED", "FAILED"}
       THEN event' = [event EXCEPT ![t] = CancelledEvent(@)]
       ELSE Acknowledge(w, t)
    /\ Delivered(w, t)
    /\ UNCHANGED faults

\* The delivering transaction raises; retry_outbox releases the claim, unless it raises too.
DeliverFails(w, t) ==
    /\ pc[w] = "deliver" /\ t \in batch[w]
    /\ \/ event' = [event EXCEPT ![t] = IF EventFenced(t, w) THEN RetriedEvent(@) ELSE @]
       \/ UNCHANGED event
    /\ Delivered(w, t)
    /\ Fault

-----------------------------------------------------------------------------
(* run_one *)

\* claim_next_task's candidates; the oldest one is tried.
Candidates(k) ==
    {t \in TaskIds : task[t].kind = k /\ event[t].st = "SENT" /\ Claimable(t)}

Oldest(k, t) == t \in Candidates(k) /\ \A s \in Candidates(k) : t <= s

\* With attempts left the claim commits; the FAILED of an exhausted task is rolled back.
RunOne(w, t) ==
    /\ pc[w] = "claim" /\ Oldest(WorkerKind[w], t)
    /\ IF Exhausted(t)
       THEN /\ Goto(w, "sweep")
            /\ UNCHANGED <<dbVars, apiVars, cur, input, content, owed>>
       ELSE TakeTask(w, t)
    /\ UNCHANGED <<batch, faults>>

\* Nothing is due, or _lock_task skips the row because another worker is claiming it.
Contended(w) == \E v \in Workers \ {w} : pc[v] = "claim" /\ WorkerKind[v] = WorkerKind[w]

NothingToRun(w) ==
    /\ pc[w] = "claim"
    /\ Candidates(WorkerKind[w]) = {} \/ Contended(w)
    /\ Goto(w, "sweep")
    /\ UNCHANGED <<dbVars, apiVars, cur, input, content, owed, batch, faults>>

-----------------------------------------------------------------------------
(* The system *)

WorkerStep(w) ==
    \/ ClaimBatch(w)
    \/ \E t \in TaskIds : Deliver(w, t) \/ RunOne(w, t)
    \/ NothingToRun(w)
    \/ /\ \/ HandleExtraction(w) \/ HandleEmbedding(w)
          \/ CompleteExtraction(w) \/ CompleteEmbedding(w) \/ FailTask(w)
          \/ Unlink(w) \/ Sweep(w) \/ SkipSweep(w) \/ Purge(w)
       /\ UNCHANGED <<batch, faults>>

WorkerDies(w) ==
    /\ Fault
    /\ Reset(w)
    /\ batch' = [batch EXCEPT ![w] = {}]
    /\ UNCHANGED <<dbVars, apiVars>>

ApiStep == Request /\ UNCHANGED <<memVars, batch, faults>>

ApiFault ==
    /\ \/ ApiDies
       \/ \E r \in Refs : UploadFails(r)
    /\ Fault
    /\ UNCHANGED <<memVars, batch>>

\* A lease runs out on a process that has forgotten it as time passes; on one
\* that is still at work only when that process stalls.
Abandoned(t) == ~\E w \in Workers : Working(w) /\ cur[w] = t /\ task[t].holder = w

EventAbandoned(t) == ~\E w \in Workers : t \in batch[w] /\ event[t].holder = w

Stall(t) ==
    /\ Fault
    /\ \/ LeaseExpires(t) /\ ~Abandoned(t)
       \/ EventLeaseExpires(t) /\ ~EventAbandoned(t)
    /\ UNCHANGED <<apiVars, memVars, batch>>

Tick(t) ==
    /\ \/ LeaseExpires(t) /\ Abandoned(t)
       \/ EventLeaseExpires(t) /\ EventAbandoned(t)
       \/ BecomesDue(t) \/ TaskAges(t) \/ ResultExpires(t)
    /\ UNCHANGED <<apiVars, memVars, batch, faults>>

Ages(r) == ObjectAges(r) /\ UNCHANGED <<memVars, batch, faults>>

Next ==
    \/ \E w \in Workers : WorkerStep(w) \/ WorkerDies(w) \/ \E t \in TaskIds : DeliverFails(w, t)
    \/ ApiStep \/ ApiFault
    \/ \E t \in TaskIds : Stall(t) \/ Tick(t)
    \/ \E r \in Refs : Ages(r)

Spec == Init /\ [][Next]_vars

\* run_forever loops for ever and cleans up every CLEANUP_INTERVAL_SECONDS; requests
\* finish; time passes.  Nothing obliges a user to act, and no fault has to happen.
Fairness ==
    /\ \A w \in Workers :
          /\ WF_vars(WorkerStep(w))
          /\ SF_vars(Sweep(w) /\ UNCHANGED <<batch, faults>>)
    /\ \A r \in Refs :
          /\ WF_vars((\E u \in Users : EnqueueUpload(u, r)) /\ UNCHANGED <<memVars, batch, faults>>)
          /\ WF_vars(DeleteDoomed(r) /\ UNCHANGED <<memVars, batch, faults>>)
          /\ WF_vars(Ages(r))
    /\ \A t \in TaskIds : WF_vars(Tick(t))

FairSpec == Spec /\ Fairness

-----------------------------------------------------------------------------
(* Properties *)

\* A task that has ended stays ended, through every step of every process.
TerminalIsFinal == [][EndsForGood]_vars

\* Every task ends, whatever dies or stalls: "maximum attempts end in FAILED".
TasksSettle ==
    \A t \in TaskIds : (task[t].st \in LiveStates) ~> (task[t].st \in TerminalStates)

\* Every temporary object leaves the storage, even if the process that owed its
\* deletion died.
ObjectsReclaimed == \A r \in Refs : (r \in Stored) ~> (r \notin Stored)
=============================================================================
