----------------------------- MODULE AwsPipeline -----------------------------
(***************************************************************************)
(* The processing subsystem in aws mode: the outbox publisher thread of    *)
(* every API instance (outbox_publisher.py) sends task identities to SQS,  *)
(* and a worker receives one message at a time (run_queue_message), claims *)
(* the task it names, processes it and disposes of the message.            *)
(*                                                                         *)
(* SQS is external: a message is delivered at least once, stays hidden for *)
(* a visibility timeout once received, comes back unless it is deleted,    *)
(* and moves to the dead-letter queue after MaxReceives receives.          *)
(***************************************************************************)
EXTENDS TaskWorker

CONSTANTS
    Publishers,     \* API instances, each with a publisher thread
    MaxMessages,    \* bound: messages in SQS at a time
    MaxReceives,    \* RedrivePolicy.maxReceiveCount
    MaxFaults       \* bound: faults in a behaviour

ASSUME AwsAssumption ==
    /\ Publishers \subseteq Procs
    /\ AfterTask = "settle"
    /\ MaxMessages \in Nat
    /\ MaxReceives \in Nat \ {0}
    /\ MaxFaults \in Nat

VARIABLES
    batch,      \* batch[p]: the events a publisher claimed and is not done with
    sent,       \* sent[p]: the task whose message it sent and has not acknowledged, or 0
    sqs,        \* sqs[m]: the messages
    msg,        \* msg[w]: the message a worker received and is not done with, or 0
    faults      \* faults so far

sqsVars == <<batch, sent, sqs, msg>>
vars == <<dbVars, apiVars, memVars, sqsVars, faults>>

Messages == 1 .. MaxMessages

Message == [st : {"none", "visible", "hidden", "dead"},
            task : TaskIds \cup {0},
            receives : 0 .. MaxReceives]

NoMessage == [st |-> "none", task |-> 0, receives |-> 0]

Init ==
    /\ DbInit /\ ApiInit /\ MemInit
    /\ batch = [p \in Publishers |-> {}]
    /\ sent = [p \in Publishers |-> 0]
    /\ sqs = [m \in Messages |-> NoMessage]
    /\ msg = [w \in Workers |-> 0]
    /\ faults = 0

TypeOK ==
    /\ DbTypeOK /\ ApiTypeOK /\ MemTypeOK
    /\ batch \in [Publishers -> SUBSET TaskIds]
    /\ sent \in [Publishers -> TaskIds \cup {0}]
    /\ sqs \in [Messages -> Message]
    /\ msg \in [Workers -> Messages \cup {0}]
    /\ faults \in 0 .. MaxFaults

Fault == faults < MaxFaults /\ faults' = faults + 1

-----------------------------------------------------------------------------
(* publish_once *)

ClaimBatch(p) ==
    LET due == {t \in TaskIds : Publishable(t)} IN
    /\ batch[p] = {} /\ due # {}
    /\ event' = [t \in TaskIds |-> IF t \in due THEN ClaimedEvent(event[t], p) ELSE event[t]]
    /\ batch' = [batch EXCEPT ![p] = due]
    /\ UNCHANGED <<rev, profile, chunks, task, apiVars, memVars, sent, sqs, msg>>

Ended(t) == task[t].st \in {"CANCELLED", "FAILED"}

\* The next delivery of a batch; sent[p] # 0 while one is between send and acknowledgement.
DropEnded(p, t) ==
    /\ t \in batch[p] /\ sent[p] = 0
    /\ Ended(t)
    /\ event' = [event EXCEPT ![t] = CancelledEvent(@)]
    /\ batch' = [batch EXCEPT ![p] = @ \ {t}]
    /\ UNCHANGED <<rev, profile, chunks, task, apiVars, memVars, sent, sqs, msg>>

FreeSlot(m) ==
    /\ sqs[m].st = "none" /\ \A w \in Workers : msg[w] # m
    /\ \A k \in Messages : k < m => sqs[k].st # "none" \/ \E w \in Workers : msg[w] = k

Send(p, t) ==
    /\ t \in batch[p] /\ sent[p] = 0
    /\ ~Ended(t)
    /\ \E m \in Messages :
          /\ FreeSlot(m)
          /\ sqs' = [sqs EXCEPT ![m] = [st |-> "visible", task |-> t, receives |-> 0]]
    /\ sent' = [sent EXCEPT ![p] = t]
    /\ UNCHANGED <<dbVars, apiVars, memVars, batch, msg>>

\* Done with t, whatever became of it.
Handed(p, t) ==
    /\ batch' = [batch EXCEPT ![p] = @ \ {t}]
    /\ sent' = [sent EXCEPT ![p] = 0]
    /\ UNCHANGED <<rev, profile, chunks, task, apiVars, memVars, sqs, msg>>

\* ack_outbox; without a live claim of its own the publisher rolls back.
Acknowledge(p) ==
    LET t == sent[p] IN
    /\ t # 0
    /\ event' = [event EXCEPT ![t] = IF EventFenced(t, p) THEN SentEvent(@) ELSE @]
    /\ Handed(p, t)

\* Sending or acknowledging raises; retry_outbox releases the claim, unless it raises too.
PublishFails(p, t) ==
    /\ t \in batch[p] /\ sent[p] \in {0, t}
    /\ \/ event' = [event EXCEPT ![t] = IF EventFenced(t, p) THEN RetriedEvent(@) ELSE @]
       \/ UNCHANGED event
    /\ Handed(p, t)

PublisherDies(p) ==
    /\ batch' = [batch EXCEPT ![p] = {}]
    /\ sent' = [sent EXCEPT ![p] = 0]
    /\ UNCHANGED <<dbVars, apiVars, memVars, sqs, msg>>

-----------------------------------------------------------------------------
(* SQS *)

Receivable(w) ==
    {m \in Messages : /\ sqs[m].st = "visible" /\ sqs[m].receives < MaxReceives
                      /\ task[sqs[m].task].kind = WorkerKind[w]}

\* A visibility timeout ends.
Reappears(m) ==
    /\ sqs[m].st = "hidden"
    /\ sqs' = [sqs EXCEPT ![m].st = "visible"]
    /\ UNCHANGED <<dbVars, apiVars, memVars, batch, sent, msg>>

DeadLetters(m) ==
    /\ sqs[m].st = "visible" /\ sqs[m].receives = MaxReceives
    /\ sqs' = [sqs EXCEPT ![m].st = "dead"]
    /\ UNCHANGED <<dbVars, apiVars, memVars, batch, sent, msg>>

-----------------------------------------------------------------------------
(* run_queue_message *)

Receive(w, m) ==
    /\ pc[w] = "poll" /\ m \in Receivable(w)
    /\ sqs' = [sqs EXCEPT ![m].st = "hidden", ![m].receives = @ + 1]
    /\ msg' = [msg EXCEPT ![w] = m]
    /\ cur' = [cur EXCEPT ![w] = sqs[m].task]
    /\ Goto(w, "claim")
    /\ UNCHANGED <<dbVars, apiVars, input, content, owed, batch, sent>>

NothingReceived(w) ==
    /\ pc[w] = "poll" /\ Receivable(w) = {}
    /\ Goto(w, "sweep")
    /\ UNCHANGED <<dbVars, apiVars, cur, input, content, owed, sqsVars>>

\* The worker is done with its message, deleted or not.
Forget(w) ==
    /\ cur' = [cur EXCEPT ![w] = 0]
    /\ msg' = [msg EXCEPT ![w] = 0]
    /\ Goto(w, "sweep")
    /\ UNCHANGED <<dbVars, apiVars, input, content, owed, batch, sent>>

\* claim_published_task: the publication is committed and the row may be claimed.
MayClaim(t) == event[t].st = "SENT" /\ Claimable(t)

ClaimMessage(w) ==
    /\ pc[w] = "claim"
    /\ MayClaim(cur[w]) /\ ~Exhausted(cur[w])
    /\ TakeTask(w, cur[w])
    /\ UNCHANGED sqsVars

ExhaustMessage(w) ==
    LET t == cur[w] IN
    /\ pc[w] = "claim"
    /\ MayClaim(t) /\ Exhausted(t)
    /\ task' = [task EXCEPT ![t] = ExhaustedTask(@)]
    /\ event' = [event EXCEPT ![t] = CancelledEvent(@)]
    /\ Goto(w, "drop")
    /\ UNCHANGED <<rev, profile, chunks, apiVars, cur, input, content, owed, sqsVars>>

\* faulty variant: a publication that is not acknowledged yet counts as a durable retry
DisposableEarly(t) ==
    \/ task[t].st \in TerminalStates
    \/ event[t].st # "SENT" \/ task[t].st = "RETRY_WAIT"

\* dispositions "terminal" and "durable_retry"
Disposable(t) ==
    \/ task[t].st \in TerminalStates
    \/ event[t].st \in {"PENDING", "CANCELLED"} \/ task[t].st = "RETRY_WAIT"

\* claim_published_task skips a row that another worker's transaction has locked.
Contended(w) ==
    \E v \in Workers \ {w} :
        \/ cur[v] = cur[w] /\ (pc[v] = "claim" \/ Working(v))
        \/ cur[w] \in StaleInputs /\ pc[v] \in {"boot", "sweep"}

RefuseMessage(w) ==
    /\ pc[w] = "claim"
    /\ MayClaim(cur[w]) => Contended(w)
    /\ Disposable(cur[w])
    /\ Goto(w, "drop")
    /\ UNCHANGED <<dbVars, apiVars, cur, input, content, owed, sqsVars>>

\* dispositions "leased" and "not_ready": change_visibility, the message comes back.  A
\* row that may be claimed can be locked at that moment, if only by a request of its owner.
PostponeMessage(w) ==
    /\ pc[w] = "claim"
    /\ ~Disposable(cur[w])
    /\ Forget(w)
    /\ UNCHANGED sqs

\* After _process_claimed: delete the message of what ended or went back to the outbox.
Settle(w) ==
    LET t == cur[w] IN
    /\ pc[w] = "settle"
    /\ IF task[t].st \in TerminalStates \/ (task[t].st = "RETRY_WAIT" /\ event[t].st = "PENDING")
       THEN /\ Goto(w, "drop")
            /\ UNCHANGED <<dbVars, apiVars, cur, input, content, owed, sqsVars>>
       ELSE Forget(w) /\ UNCHANGED sqs

\* delete_message, by a receipt that may have been superseded and then may do nothing
DeleteMessage(w) ==
    /\ pc[w] = "drop"
    /\ \/ sqs' = [sqs EXCEPT ![msg[w]] = IF @.st = "dead" THEN @ ELSE NoMessage]
       \/ sqs[msg[w]].st = "visible" /\ UNCHANGED sqs
       \/ (\E v \in Workers \ {w} : msg[v] = msg[w]) /\ UNCHANGED sqs
    /\ Forget(w)

\* complete_task skips a row that a duplicate's claim_published_task has locked.
CompleteSkipped(w) ==
    /\ pc[w] = "handled"
    /\ Fenced(cur[w], w)
    /\ \E v \in Workers \ {w} : pc[v] = "claim" /\ cur[v] = cur[w]
    /\ Leave(w, {})
    /\ UNCHANGED <<dbVars, apiVars, sqsVars>>

-----------------------------------------------------------------------------
(* The system *)

PublisherStep(p) ==
    /\ \/ ClaimBatch(p) \/ Acknowledge(p)
       \/ \E t \in TaskIds : DropEnded(p, t) \/ Send(p, t)
    /\ UNCHANGED faults

PublisherFault(p) ==
    /\ PublisherDies(p) \/ \E t \in TaskIds : PublishFails(p, t)
    /\ Fault

WorkerStep(w) ==
    /\ \/ \E m \in Messages : Receive(w, m)
       \/ NothingReceived(w) \/ ClaimMessage(w) \/ ExhaustMessage(w) \/ RefuseMessage(w)
       \/ PostponeMessage(w) \/ Settle(w) \/ DeleteMessage(w) \/ CompleteSkipped(w)
       \/ /\ \/ HandleExtraction(w) \/ HandleEmbedding(w)
             \/ CompleteExtraction(w) \/ CompleteEmbedding(w) \/ FailTask(w)
             \/ Unlink(w) \/ Sweep(w) \/ SkipSweep(w) \/ Purge(w)
          /\ UNCHANGED sqsVars
    /\ UNCHANGED faults

WorkerDies(w) ==
    /\ Fault
    /\ Reset(w)
    /\ msg' = [msg EXCEPT ![w] = 0]
    /\ UNCHANGED <<dbVars, apiVars, batch, sent, sqs>>

ApiStep == Request /\ UNCHANGED <<memVars, sqsVars, faults>>

ApiFault ==
    /\ \/ ApiDies
       \/ \E r \in Refs : UploadFails(r)
    /\ Fault
    /\ UNCHANGED <<memVars, sqsVars>>

\* A lease, claim or visibility timeout runs out as time passes when its holder has
\* forgotten it, and on a holder that is still at work only when that one stalls.
Abandoned(t) == ~\E w \in Workers : Working(w) /\ cur[w] = t /\ task[t].holder = w

EventAbandoned(t) == ~\E p \in Publishers : t \in batch[p] /\ event[t].holder = p

MessageAbandoned(m) == \A w \in Workers : msg[w] # m

Stall ==
    /\ Fault
    /\ \/ \E t \in TaskIds : /\ \/ LeaseExpires(t) /\ ~Abandoned(t)
                                \/ EventLeaseExpires(t) /\ ~EventAbandoned(t)
                             /\ UNCHANGED <<apiVars, memVars, sqsVars>>
       \/ \E m \in Messages : Reappears(m) /\ ~MessageAbandoned(m)

Tick(t) ==
    /\ \/ LeaseExpires(t) /\ Abandoned(t)
       \/ EventLeaseExpires(t) /\ EventAbandoned(t)
       \/ BecomesDue(t) \/ TaskAges(t) \/ ResultExpires(t)
    /\ UNCHANGED <<apiVars, memVars, sqsVars, faults>>

SqsStep(m) ==
    /\ \/ Reappears(m) /\ MessageAbandoned(m)
       \/ DeadLetters(m)
    /\ UNCHANGED faults

Ages(r) == ObjectAges(r) /\ UNCHANGED <<memVars, sqsVars, faults>>

Next ==
    \/ \E p \in Publishers : PublisherStep(p) \/ PublisherFault(p)
    \/ \E w \in Workers : WorkerStep(w) \/ WorkerDies(w)
    \/ ApiStep \/ ApiFault \/ Stall
    \/ \E t \in TaskIds : Tick(t)
    \/ \E m \in Messages : SqsStep(m)
    \/ \E r \in Refs : Ages(r)

Spec == Init /\ [][Next]_vars

\* The loops of publishers and workers go on, cleanups recur, requests finish, time passes.
Fairness ==
    /\ \A p \in Publishers : WF_vars(PublisherStep(p))
    /\ \A w \in Workers :
          /\ WF_vars(WorkerStep(w))
          /\ SF_vars(Sweep(w) /\ UNCHANGED <<sqsVars, faults>>)
    /\ \A r \in Refs :
          /\ WF_vars((\E u \in Users : EnqueueUpload(u, r)) /\ UNCHANGED <<memVars, sqsVars, faults>>)
          /\ WF_vars(DeleteDoomed(r) /\ UNCHANGED <<memVars, sqsVars, faults>>)
          /\ WF_vars(Ages(r))
    /\ \A t \in TaskIds : WF_vars(Tick(t))
    /\ \A m \in Messages : WF_vars(SqsStep(m))

FairSpec == Spec /\ Fairness

-----------------------------------------------------------------------------
(* Properties *)

\* SQS still knows a message of task t, if only in the dead-letter queue.
HasMessage(t) == \E m \in Messages : sqs[m].task = t /\ sqs[m].st # "none"

\* A published task has a message until its first attempt is over, although a worker may
\* receive it before the publisher's acknowledgement commits, twice, or after a restart:
\* if the worker dies, the message brings another one.
FirstDeliveryKept ==
    \A t \in TaskIds :
        task[t].st \in {"PENDING", "PROCESSING"} /\ task[t].attempts <= 1 /\ event[t].st = "SENT"
            => HasMessage(t)

\* The same for a task that waits for its retry: "A durable outbox retry ... now owns
\* recovery" of every message the worker deletes.
RetryDeliveryKept ==
    \A t \in TaskIds : task[t].st = "RETRY_WAIT" /\ event[t].st = "SENT" => HasMessage(t)

\* A task that has ended stays ended, through every step of every process.
TerminalIsFinal == [][EndsForGood]_vars

\* Every extraction ends, even one whose message was lost or dead-lettered: cleanup is the
\* backstop of whatever SQS and the workers do.
ExtractionsSettle ==
    \A t \in TaskIds :
        (task[t].st \in LiveStates /\ task[t].kind = "EXTRACTION")
            ~> (task[t].st \in TerminalStates)

\* Every temporary object leaves the storage, even if the process that owed its
\* deletion died or its task ended as ATTEMPTS_EXHAUSTED.
ObjectsReclaimed == \A r \in Refs : (r \in Stored) ~> (r \notin Stored)
=============================================================================
