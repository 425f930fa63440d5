------------------------- MODULE AwsPipeline_proofs -------------------------
(***************************************************************************)
(* The safety of aws mode, for any number of accounts, publishers,         *)
(* workers, messages, receives and faults.                                 *)
(*                                                                         *)
(* The rows keep RowInv as in local mode, given that a worker's message is *)
(* of the task it remembers (Delivered) and that a message names a task.   *)
(*                                                                         *)
(* FirstDeliveryKept is not inductive: a message may exist and be about to *)
(* be deleted, and a message sent may not be acknowledged yet.  FirstKept  *)
(* asks for a message no worker is about to delete, from the moment it is  *)
(* sent under a live claim.  A worker that is about to delete a message    *)
(* has seen the task ended, in retry or not yet published, so what it      *)
(* deletes is not the message of the publication that follows.             *)
(***************************************************************************)
EXTENDS AwsPipeline, TaskWorker_proofs

\* A worker has a message: from its receipt until it is deleted or given up.
Engaged(w) == Working(w) \/ pc[w] \in {"claim", "unlink", "settle", "drop"}

Known(t) == t \in TaskIds /\ task[t].st # "ABSENT"

MessagesKnown ==
    /\ \A m \in Messages : sqs[m].st # "none" => Known(sqs[m].task)
    /\ \A p \in Publishers : /\ \A t \in batch[p] : Known(t)
                             /\ sent[p] # 0 => sent[p] \in batch[p]

\* The message of a worker is of the task it remembers, unless it is deleted already.
Delivered ==
    \A w \in Workers : Engaged(w) =>
        /\ Known(cur[w]) /\ task[cur[w]].kind = WorkerKind[w]
        /\ msg[w] \in Messages
        /\ sqs[msg[w]].st # "none" => sqs[msg[w]].task = cur[w]

\* A claim that ended, in a retry or in a lapsed lease, has been counted.
AttemptsCounted ==
    \A t \in TaskIds : task[t].st \in {"PROCESSING", "RETRY_WAIT"} => task[t].attempts > 0

\* The first publication of t has been sent, by a claim that still holds, or acknowledged.
Published(t) == event[t].st = "SENT" \/ \E p \in Publishers : sent[p] = t /\ EventFenced(t, p)

First(t) ==
    \/ task[t].st = "PENDING" /\ Published(t)
    \/ task[t].st = "PROCESSING" /\ task[t].attempts <= 1

\* m is a message of t that no worker is about to delete.
Lasting(m, t) ==
    /\ sqs[m].st # "none" /\ sqs[m].task = t
    /\ \A w \in Workers : pc[w] = "drop" => msg[w] # m

FirstKept == \A t \in TaskIds : First(t) => \E m \in Messages : Lasting(m, t)

AwsTypes ==
    /\ batch \in [Publishers -> SUBSET TaskIds]
    /\ sent \in [Publishers -> TaskIds \cup {0}]
    /\ sqs \in [Messages -> Message]
    /\ msg \in [Workers -> Messages \cup {0}]
    /\ faults \in 0 .. MaxFaults

AwsInv ==
    /\ RowInv /\ AwsTypes
    /\ MessagesKnown /\ Delivered /\ AttemptsCounted /\ FirstKept

-----------------------------------------------------------------------------
(* The start *)

\* The empty database and queue, with every process at its start, satisfy AwsInv.
LEMMA AwsInvAtFirst ==
    ASSUME Init
    PROVE  AwsInv
<1>1. RowInv
  BY RowInvAtFirst DEF Init
<1>2. AwsTypes
  <2>1. NoMessage \in Message
    BY AwsAssumption DEF NoMessage, Message
  <2> QED
    BY <2>1, AwsAssumption DEF Init, AwsTypes
<1>3. /\ \A t \in TaskIds : task[t].st = "ABSENT"
      /\ \A m \in Messages : sqs[m].st = "none"
      /\ \A w \in Workers : pc[w] = "boot"
  BY DEF Init, DbInit, NoTask, NoMessage, MemInit
<1>4. MessagesKnown /\ Delivered /\ AttemptsCounted /\ FirstKept
  BY <1>3 DEF Init, MessagesKnown, Delivered, Engaged, Working, AttemptsCounted, FirstKept, First
<1> QED
  BY <1>1, <1>2, <1>4 DEF AwsInv

-----------------------------------------------------------------------------
(* What most steps do to tasks, messages and memories *)

\* No row disappears or changes its kind.
RowsStay == \A t \in TaskIds : Known(t) => Known(t)' /\ task'[t].kind = task[t].kind

\* No publication becomes a first one.
NoneFirst == \A t \in TaskIds : First(t)' => First(t)

\* Publishers have existing tasks, and have sent messages of those only.
PublishersKept ==
    \A p \in Publishers : /\ \A t \in batch'[p] : Known(t)
                          /\ sent'[p] # 0 => sent'[p] \in batch'[p]

\* No message comes or goes.
MessagesKept ==
    \A m \in Messages : /\ sqs'[m].st = "none" <=> sqs[m].st = "none"
                        /\ sqs'[m].task = sqs[m].task

\* A worker keeps its message or receives one.  It goes on to delete it only when it has
\* seen that it is of no first publication.
WorkersKept ==
    \A w \in Workers : Engaged(w)' =>
        \/ /\ Engaged(w) /\ cur'[w] = cur[w] /\ msg'[w] = msg[w]
           /\ pc'[w] = "drop" => pc[w] = "drop" \/ ~First(cur[w])'
        \/ \E m \in Messages : /\ pc'[w] # "drop" /\ msg'[w] = m
                               /\ sqs[m].st # "none" /\ cur'[w] = sqs[m].task
                               /\ task[cur'[w]].kind = WorkerKind[w]

\* Such a step preserves the delivery part of AwsInv.
LEMMA DeliveryKept ==
    ASSUME AwsInv, RowsStay, NoneFirst, PublishersKept, MessagesKept, WorkersKept
    PROVE  MessagesKnown' /\ Delivered' /\ FirstKept'
<1>1. MessagesKnown /\ Delivered /\ FirstKept
  BY DEF AwsInv
<1>2. \A t : Known(t) => Known(t)' /\ task'[t].kind = task[t].kind
  BY DEF RowsStay, Known
<1>3. MessagesKnown'
  <2>1. ASSUME NEW m \in Messages, sqs'[m].st # "none" PROVE Known(sqs[m].task)'
    <3>1. sqs'[m].task = sqs[m].task /\ Known(sqs[m].task)
      BY <1>1, <2>1 DEF MessagesKept, MessagesKnown
    <3>2. PICK t : t = sqs[m].task
      OBVIOUS
    <3>3. t \in TaskIds /\ task'[t].st # "ABSENT" /\ sqs'[m].task = t
      BY <1>2, <3>1, <3>2 DEF Known
    <3> QED
      BY <3>3 DEF Known
  <2>2. ASSUME NEW p \in Publishers, NEW t \in batch'[p] PROVE Known(t)'
    BY <1>2, <2>2 DEF PublishersKept
  <2>3. \A p \in Publishers : sent'[p] # 0 => sent'[p] \in batch'[p]
    BY DEF PublishersKept
  <2> QED
    BY <2>1, <2>2, <2>3 DEF MessagesKnown
<1>4. Delivered'
  <2> SUFFICES ASSUME NEW w \in Workers, Engaged(w)'
               PROVE  /\ Known(cur[w])' /\ task'[cur'[w]].kind = WorkerKind[w]
                      /\ msg'[w] \in Messages
                      /\ sqs'[msg'[w]].st # "none" => sqs'[msg'[w]].task = cur'[w]
    BY DEF Delivered
  <2>1. PICK t, m : /\ t = cur'[w] /\ m = msg'[w]
    OBVIOUS
  <2>2. /\ Known(t) /\ task[t].kind = WorkerKind[w] /\ m \in Messages
        /\ sqs[m].st # "none" => sqs[m].task = t
    BY <1>1, <2>1 DEF Delivered, WorkersKept, MessagesKnown
  <2>3. t \in TaskIds /\ task'[t].st # "ABSENT" /\ task'[t].kind = task[t].kind
    BY <1>2, <2>2 DEF Known
  <2> QED
    BY <2>1, <2>2, <2>3 DEF Known, MessagesKept
<1>5. FirstKept'
  <2> SUFFICES ASSUME NEW t \in TaskIds, First(t)'
               PROVE  \E m \in Messages : Lasting(m, t)'
    BY DEF FirstKept
  <2>1. PICK m \in Messages : Lasting(m, t)
    BY <1>1 DEF FirstKept, NoneFirst
  <2>2. ASSUME NEW w \in Workers, pc'[w] = "drop" PROVE msg'[w] # m
    <3>1. Engaged(w)'
      BY <2>2 DEF Engaged
    <3>2. /\ Engaged(w) /\ msg'[w] = msg[w] /\ (pc[w] = "drop" \/ ~First(cur[w])')
          /\ cur'[w] = cur[w]
      BY <2>2, <3>1 DEF WorkersKept
    <3>3. CASE pc[w] = "drop"
      BY <2>1, <3>2, <3>3 DEF Lasting
    <3>4. CASE ~First(cur[w])'
      <4>1. cur'[w] # t
        BY <3>4
      <4>2. sqs[msg[w]].st # "none" => sqs[msg[w]].task = cur[w]
        BY <1>1, <3>2 DEF Delivered
      <4> QED
        BY <2>1, <3>2, <4>1, <4>2 DEF Lasting
    <3> QED
      BY <3>2, <3>3, <3>4
  <2>3. Lasting(m, t)'
    BY <2>1, <2>2 DEF Lasting, MessagesKept
  <2> QED
    BY <2>3
<1> QED
  BY <1>3, <1>4, <1>5

\* What a row may become without a publisher or a claim: it goes on, waits for a retry, ends
\* or is new.
CalmRow(old, oe, new, ne) ==
    /\ old.st # "ABSENT" => new.st # "ABSENT" /\ new.kind = old.kind
    /\ new.st \in LiveStates =>
          \/ /\ new.st = old.st /\ new.attempts = old.attempts
             /\ ne.st = oe.st /\ ne.holder = oe.holder /\ (ne.live => oe.live)
          \/ new.st = "RETRY_WAIT" /\ old.st = "PROCESSING" /\ new.attempts = old.attempts
          \/ new.st = "PENDING" /\ ne.st = "PENDING"

Calm == \A t \in TaskIds : CalmRow(task[t], event[t], task'[t], event'[t])

\* Calm rows preserve what AwsInv says of rows.
LEMMA CalmKeeps ==
    ASSUME AwsInv, Calm, UNCHANGED sent
    PROVE  RowsStay /\ NoneFirst /\ AttemptsCounted'
<1>1. RowsStay
  BY DEF RowsStay, Calm, CalmRow, Known
<1>2. NoneFirst
  <2> SUFFICES ASSUME NEW t \in TaskIds, First(t)' PROVE First(t)
    BY DEF NoneFirst
  <2>1. CalmRow(task[t], event[t], task'[t], event'[t])
    BY DEF Calm
  <2> QED
    BY <2>1 DEF CalmRow, First, Published, EventFenced, LiveStates
<1>3. AttemptsCounted'
  BY DEF AwsInv, AttemptsCounted, Calm, CalmRow, LiveStates
<1> QED
  BY <1>1, <1>2, <1>3

\* Changing one row calmly
LEMMA OneRowCalm ==
    ASSUME RowInv, NEW t \in TaskIds, NEW row, NEW e,
           task' = [task EXCEPT ![t] = row], event' = [event EXCEPT ![t] = e],
           CalmRow(task[t], event[t], row, e)
    PROVE  Calm
<1>1. /\ task'[t] = row /\ event'[t] = e
      /\ \A s \in TaskIds : s # t => task'[s] = task[s] /\ event'[s] = event[s]
  BY DEF RowInv, DbTypeOK
<1> QED
  BY <1>1 DEF Calm, CalmRow

\* Changing none
LEMMA NoRowCalm ==
    ASSUME UNCHANGED <<task, event>>
    PROVE  Calm
  BY DEF Calm, CalmRow

-----------------------------------------------------------------------------
(* Requests, the clock and the work of a claimed task are calm *)

\* A request of the API creates or ends tasks: no row is claimed or published by it.
LEMMA RequestCalm ==
    ASSUME RowInv, Request
    PROVE  Calm
<1>0. \A t \in TaskIds : task[t] \in TaskRow /\ event[t] \in EventRow
  BY DEF RowInv, DbTypeOK
<1>1. ASSUME NEW u, NEW k, NEW r, NEW ref, EnqueueTask(u, k, r, ref) PROVE Calm
  <2>1. PICK t \in TaskIds : /\ task[t].st = "ABSENT"
                            /\ task' = [task EXCEPT ![t] = NewTask(u, k, r, ref)]
                            /\ event' = [event EXCEPT ![t] = NewEvent]
    BY <1>1 DEF EnqueueTask, NextId
  <2>2. NewTask(u, k, r, ref).st = "PENDING" /\ NewEvent.st = "PENDING"
    BY DEF NewTask, NoTask, NewEvent, NoEvent
  <2>3. CalmRow(task[t], event[t], NewTask(u, k, r, ref), NewEvent)
    BY <2>1, <2>2 DEF CalmRow
  <2> QED
    BY <2>1, <2>3, OneRowCalm
<1>2. \A t \in TaskIds : /\ OwnerCancelledTask(task[t]).st = "CANCELLED"
                         /\ OwnerCancelledTask(task[t]).kind = task[t].kind
  BY <1>0 DEF OwnerCancelledTask, Unleased, TaskRow
<1>3. ASSUME NEW t \in TaskIds, DiscardTask(t) PROVE Calm
  <2>1. CalmRow(task[t], event[t], OwnerCancelledTask(task[t]), CancelledEvent(event[t]))
    BY <1>2 DEF CalmRow, LiveStates
  <2> QED
    BY <1>3, <2>1, OneRowCalm DEF DiscardTask
<1>4. ASSUME NEW u \in Users, DeleteResume(u) PROVE Calm
  <2>1. \A t \in TaskIds : \/ task'[t] = task[t] /\ event'[t] = event[t]
                           \/ task'[t] = OwnerCancelledTask(task[t])
    BY <1>4 DEF DeleteResume
  <2> QED
    BY <1>2, <2>1 DEF Calm, CalmRow, LiveStates
<1>5. \/ UNCHANGED <<task, event>>
      \/ \E u, k, r, ref : EnqueueTask(u, k, r, ref)
      \/ \E t \in TaskIds : DiscardTask(t)
      \/ \E u \in Users : DeleteResume(u)
  BY DEF Request, StoreUpload, EnqueueUpload, SaveUnchanged, SaveChanged, DeleteDoomed,
     DeleteLeftovers, dbVars
<1> QED
  BY <1>1, <1>3, <1>4, <1>5, NoRowCalm

\* Time expires leases and results and makes rows due, and leaves their states.
LEMMA ClockCalm ==
    ASSUME RowInv, NEW t \in TaskIds,
           \/ LeaseExpires(t) \/ EventLeaseExpires(t) \/ BecomesDue(t) \/ TaskAges(t)
           \/ ResultExpires(t)
    PROVE  Calm
<1>1. /\ task \in [TaskIds -> TaskRow] /\ task[t] \in TaskRow
      /\ event \in [TaskIds -> EventRow] /\ event[t] \in EventRow
  BY DEF RowInv, DbTypeOK
<1>2. \A new \in {[task[t] EXCEPT !.live = FALSE], [task[t] EXCEPT !.due = TRUE],
                  [task[t] EXCEPT !.aged = TRUE], [task[t] EXCEPT !.result = "STALE"]} :
         new.st = task[t].st /\ new.kind = task[t].kind /\ new.attempts = task[t].attempts
  BY <1>1 DEF TaskRow
<1>3. \A e \in {[event[t] EXCEPT !.live = FALSE], [event[t] EXCEPT !.due = TRUE]} :
         e.st = event[t].st /\ e.holder = event[t].holder /\ (e.live => event[t].live)
  BY <1>1 DEF EventRow
<1>4. CASE LeaseExpires(t) \/ TaskAges(t) \/ ResultExpires(t)
  <2>1. \E new \in {[task[t] EXCEPT !.live = FALSE], [task[t] EXCEPT !.aged = TRUE],
                    [task[t] EXCEPT !.result = "STALE"]} : task' = [task EXCEPT ![t] = new]
    BY <1>1, <1>4, Zenon DEF LeaseExpires, TaskAges, ResultExpires
  <2>2. event' = [event EXCEPT ![t] = event[t]]
    BY <1>1, <1>4 DEF LeaseExpires, TaskAges, ResultExpires
  <2>3. PICK new : /\ task' = [task EXCEPT ![t] = new]
                   /\ new.st = task[t].st /\ new.kind = task[t].kind /\ new.attempts = task[t].attempts
    BY <1>2, <2>1
  <2>4. CalmRow(task[t], event[t], new, event[t])
    BY <2>3 DEF CalmRow
  <2> QED
    BY <2>2, <2>3, <2>4, OneRowCalm
<1>5. CASE EventLeaseExpires(t)
  <2>1. event' = [event EXCEPT ![t] = [event[t] EXCEPT !.live = FALSE]]
    BY <1>1, <1>5, Zenon DEF EventLeaseExpires
  <2>2. task' = [task EXCEPT ![t] = task[t]]
    BY <1>1, <1>5 DEF EventLeaseExpires
  <2> QED
    BY <1>3, <2>1, <2>2, OneRowCalm DEF CalmRow
<1>6. CASE BecomesDue(t)
  <2>1. /\ task' = [task EXCEPT ![t] = [task[t] EXCEPT !.due = TRUE]]
        /\ event' = [event EXCEPT ![t] = [event[t] EXCEPT !.due = TRUE]]
    BY <1>1, <1>6, Zenon DEF BecomesDue
  <2> QED
    BY <1>2, <1>3, <2>1, OneRowCalm DEF CalmRow
<1> QED
  BY <1>4, <1>5, <1>6

\* The transaction that ends a claim, or finds it lost
LEMMA OutcomeCalm ==
    ASSUME RowInv, NEW w \in Workers,
           CompleteExtraction(w) \/ CompleteEmbedding(w) \/ FailTask(w)
    PROVE  Calm
<1> DEFINE t == cur[w]
           retryable == pc[w] = "retryable"
           failed == FailedTask(task[t], retryable)
           cleared == [failed EXCEPT !.ref = None, !.result = "NONE"]
<1>1. t \in TaskIds /\ task[t] \in TaskRow /\ event[t] \in EventRow /\ event \in [TaskIds -> EventRow]
  BY DEF RowInv, DbTypeOK, Remembers, Working, CompleteExtraction, CompleteEmbedding, FailTask
<1>2. CASE ~Fenced(t, w)
  BY <1>2, NoRowCalm DEF CompleteExtraction, CompleteEmbedding, FailTask
<1>3. ASSUME Fenced(t, w), NEW row, NEW e,
             task' = [task EXCEPT ![t] = row], event' = [event EXCEPT ![t] = e],
             row.kind = task[t].kind,
             row.st \in TerminalStates \/ (row.st = "RETRY_WAIT" /\ row.attempts = task[t].attempts)
      PROVE  Calm
  <2>1. CalmRow(task[t], event[t], row, e)
    BY <1>3 DEF CalmRow, LiveStates, TerminalStates, Fenced
  <2> QED
    BY <1>1, <1>3, <2>1, OneRowCalm
<1>4. \A row \in {SucceededTask(task[t]), DraftTask(task[t]), StaleTask(task[t])} :
         row.kind = task[t].kind /\ row.st \in TerminalStates
  BY <1>1 DEF SucceededTask, DraftTask, StaleTask, Unleased, TaskRow, TerminalStates
<1>5. CASE Fenced(t, w) /\ (CompleteExtraction(w) \/ CompleteEmbedding(w))
  <2>1. /\ \E row \in {SucceededTask(task[t]), DraftTask(task[t]), StaleTask(task[t])} :
              task' = [task EXCEPT ![t] = row]
        /\ \E e : event' = [event EXCEPT ![t] = e]
    <3>1. CASE UNCHANGED event
      <4>1. event' = [event EXCEPT ![t] = event[t]]
        BY <1>1, <3>1
      <4> QED
        BY <1>5, <4>1 DEF CompleteExtraction, CompleteEmbedding, CancelStale
    <3>2. CASE CancelStale(t)
      BY <3>2 DEF CancelStale
    <3> QED
      BY <1>5, <3>1, <3>2 DEF CompleteExtraction, CompleteEmbedding
  <2>2. PICK row, e : /\ task' = [task EXCEPT ![t] = row] /\ event' = [event EXCEPT ![t] = e]
                      /\ row.kind = task[t].kind /\ row.st \in TerminalStates
    BY <1>4, <2>1
  <2> QED
    BY <1>3, <1>5, <2>2
<1>6. CASE Fenced(t, w) /\ FailTask(w)
  <2>1. /\ failed.kind = task[t].kind /\ cleared.kind = task[t].kind /\ cleared.st = failed.st
        /\ failed.st = "FAILED" \/ (failed.st = "RETRY_WAIT" /\ failed.attempts = task[t].attempts)
    BY <1>1 DEF FailedTask, Unleased, TaskRow
  <2>2. /\ event' = [event EXCEPT ![t] = FailedEvent(event[t], task[t], retryable)]
        /\ IF failed.st = "FAILED" THEN task' = [task EXCEPT ![t] = cleared]
                                   ELSE task' = [task EXCEPT ![t] = failed]
    BY <1>6 DEF FailTask
  <2> DEFINE e == FailedEvent(event[t], task[t], retryable)
  <2>3. PICK row : /\ task' = [task EXCEPT ![t] = row] /\ event' = [event EXCEPT ![t] = e]
                   /\ row.kind = task[t].kind
                   /\ row.st \in TerminalStates \/ (row.st = "RETRY_WAIT" /\ row.attempts = task[t].attempts)
    <3> HIDE DEF failed, cleared, e
    <3>1. CASE failed.st = "FAILED"
      BY <2>1, <2>2, <3>1 DEF TerminalStates, e
    <3>2. CASE failed.st # "FAILED"
      BY <2>1, <2>2, <3>2 DEF e
    <3> QED
      BY <3>1, <3>2
  <2> HIDE DEF e
  <2> QED
    BY <1>3, <1>6, <2>3
<1> QED
  BY <1>2, <1>5, <1>6

\* A worker's work on a claimed task ends it or lets it wait for a retry.
LEMMA WorkCalm ==
    ASSUME RowInv, NEW w \in Workers, Work(w)
    PROVE  Calm
<1>1. CASE UNCHANGED <<task, event>>
  BY <1>1, NoRowCalm
<1>2. CASE Sweep(w)
  <2> SUFFICES ASSUME NEW t \in TaskIds PROVE CalmRow(task[t], event[t], task'[t], event'[t])
    BY DEF Calm
  <2>1. /\ task[t] \in TaskRow /\ task'[t] = SweptTask(t)
        /\ event'[t] = IF t \in StaleInputs THEN CancelledEvent(event[t]) ELSE event[t]
    BY <1>2 DEF RowInv, DbTypeOK, Sweep
  <2>2. CASE t \in StaleInputs
    <3>1. task'[t].st = "FAILED" /\ task'[t].kind = task[t].kind
      BY <2>1, <2>2 DEF SweptTask, Unleased, TaskRow
    <3> QED
      BY <3>1 DEF CalmRow, LiveStates
  <2>3. CASE t \notin StaleInputs
    <3>1. /\ task'[t].st = task[t].st /\ task'[t].kind = task[t].kind
          /\ task'[t].attempts = task[t].attempts /\ event'[t] = event[t]
      BY <2>1, <2>3 DEF SweptTask, TaskRow
    <3> QED
      BY <3>1 DEF CalmRow
  <2> QED
    BY <2>2, <2>3
<1> QED
  BY <1>1, <1>2, OutcomeCalm DEF Work, HandleExtraction, HandleEmbedding, Unlink, SkipSweep, Purge, dbVars

-----------------------------------------------------------------------------
(* Putting AwsInv together *)

\* The fault count stays in its bounds.
LEMMA FaultsCounted ==
    ASSUME AwsInv, Fault \/ UNCHANGED faults
    PROVE  faults' \in 0 .. MaxFaults
  BY AwsAssumption DEF AwsInv, AwsTypes, Fault

\* The parts of AwsInv, one per kind of process, give AwsInv again.
LEMMA Together ==
    ASSUME AwsInv, RowInv', AwsTypes', RowsStay, NoneFirst, AttemptsCounted',
           PublishersKept, MessagesKept, WorkersKept
    PROVE  AwsInv'
  BY DeliveryKept DEF AwsInv

\* Publishers and the queue that do nothing keep what they have.
LEMMA IdleKept ==
    ASSUME AwsInv
    PROVE  /\ UNCHANGED <<batch, sent>> => PublishersKept
           /\ UNCHANGED sqs => MessagesKept
           /\ UNCHANGED <<pc, cur, msg>> => WorkersKept
<1>1. UNCHANGED <<batch, sent>> => PublishersKept
  BY DEF AwsInv, MessagesKnown, PublishersKept
<1>2. UNCHANGED sqs => MessagesKept
  BY DEF MessagesKept
<1>3. UNCHANGED <<pc, cur, msg>> => WorkersKept
  BY DEF WorkersKept, Engaged, Working
<1> QED
  BY <1>1, <1>2, <1>3

\* A calm step that leaves the queue and the publishers alone preserves AwsInv.
LEMMA CalmStep ==
    ASSUME AwsInv, RowInv', Calm, UNCHANGED <<batch, sent, sqs>>, WorkersKept,
           msg' \in [Workers -> Messages \cup {0}], faults' \in 0 .. MaxFaults
    PROVE  AwsInv'
<1>1. RowsStay /\ NoneFirst /\ AttemptsCounted'
  BY CalmKeeps
<1>2. AwsTypes'
  BY DEF AwsInv, AwsTypes
<1> QED
  BY <1>1, <1>2, IdleKept, Together

\* Requests and the clock preserve AwsInv.
LEMMA RequestKeeps ==
    ASSUME AwsInv, Request, UNCHANGED <<memVars, sqsVars>>, faults' \in 0 .. MaxFaults
    PROVE  AwsInv'
<1>1. RowInv' /\ Calm
  BY RequestInv, RequestCalm DEF AwsInv
<1>2. UNCHANGED <<pc, cur, msg, batch, sent, sqs>>
  BY DEF memVars, sqsVars
<1>3. msg' \in [Workers -> Messages \cup {0}]
  BY <1>2 DEF AwsInv, AwsTypes
<1> QED
  BY <1>1, <1>2, <1>3, IdleKept, CalmStep

\* Time keeps AwsInv.
LEMMA ClockKeeps ==
    ASSUME AwsInv, NEW t \in TaskIds, UNCHANGED <<apiVars, memVars, sqsVars>>,
           \/ LeaseExpires(t) \/ EventLeaseExpires(t) \/ BecomesDue(t) \/ TaskAges(t)
           \/ ResultExpires(t),
           faults' \in 0 .. MaxFaults
    PROVE  AwsInv'
<1>1. RowInv' /\ Calm
  BY ClockInv, ClockCalm DEF AwsInv
<1>2. UNCHANGED <<pc, cur, msg, batch, sent, sqs>>
  BY DEF memVars, sqsVars
<1>3. msg' \in [Workers -> Messages \cup {0}]
  BY <1>2 DEF AwsInv, AwsTypes
<1> QED
  BY <1>1, <1>2, <1>3, IdleKept, CalmStep

\* So do the objects, and an API process that dies.
LEMMA ObjectsKeep ==
    ASSUME AwsInv, UNCHANGED <<memVars, sqsVars>>, faults' \in 0 .. MaxFaults,
           ApiDies \/ \E r \in Refs : UploadFails(r) \/ ObjectAges(r)
    PROVE  AwsInv'
<1>1. RowInv'
  BY ObjectInv DEF AwsInv
<1>2. Calm
  BY NoRowCalm DEF ApiDies, UploadFails, ObjectAges, dbVars
<1>3. UNCHANGED <<pc, cur, msg, batch, sent, sqs>>
  BY DEF memVars, sqsVars
<1>4. msg' \in [Workers -> Messages \cup {0}]
  BY <1>3 DEF AwsInv, AwsTypes
<1> QED
  BY <1>1, <1>2, <1>3, <1>4, IdleKept, CalmStep

-----------------------------------------------------------------------------
(* Workers *)

\* Worker w goes to l, others stay; w keeps its message and task, gives them up or is not
\* engaged.
WorkerGoes(w, l) ==
    /\ pc'[w] = l /\ \A v \in Workers : v # w => /\ pc'[v] = pc[v] /\ cur'[v] = cur[v]
                                                 /\ msg'[v] = msg[v]
    /\ Engaged(w)' => Engaged(w) /\ cur'[w] = cur[w] /\ msg'[w] = msg[w]

\* A worker that only moves on keeps what is known of the workers, provided that it does not
\* begin to drop the message of a first delivery.
LEMMA GoesKept ==
    ASSUME NEW w \in Workers, NEW l, WorkerGoes(w, l),
           l = "drop" => pc[w] = "drop" \/ ~First(cur[w])'
    PROVE  WorkersKept
  BY DEF WorkersKept, WorkerGoes, Engaged, Working

\* What a worker does with its task, and cleanup, preserve AwsInv.
LEMMA WorkKeeps ==
    ASSUME AwsInv, NEW w \in Workers, Work(w), UNCHANGED sqsVars, faults' \in 0 .. MaxFaults
    PROVE  AwsInv'
<1>1. RowInv' /\ Calm
  BY WorkInv, WorkCalm DEF AwsInv
<1>2. UNCHANGED <<msg, batch, sent, sqs>> /\ msg' \in [Workers -> Messages \cup {0}]
  BY DEF sqsVars, AwsInv, AwsTypes
<1>3. /\ pc \in [Workers -> Labels] /\ cur \in [Workers -> TaskIds \cup {0}]
  BY DEF AwsInv, RowInv, MemTypeOK
<1>4. \E l \in Labels \ {"drop"} : WorkerGoes(w, l)
  <2>1. CASE HandleExtraction(w) \/ HandleEmbedding(w)
    BY <1>2, <1>3, <2>1 DEF HandleExtraction, HandleEmbedding, Goto, WorkerGoes, Engaged, Working, Labels
  <2>2. CASE CompleteExtraction(w) \/ CompleteEmbedding(w) \/ FailTask(w)
    <3>1. PICK refs : Leave(w, refs)
      BY <2>2 DEF CompleteExtraction, CompleteEmbedding, FailTask
    <3>2. cur' = cur /\ pc' = [pc EXCEPT ![w] = IF refs = {} THEN "settle" ELSE "unlink"]
      BY <1>3, <3>1, AwsAssumption DEF Leave, Goto
    <3>3. Engaged(w)
      BY <2>2 DEF CompleteExtraction, CompleteEmbedding, FailTask, Engaged, Working
    <3> QED
      BY <1>2, <1>3, <3>2, <3>3 DEF WorkerGoes, Labels
  <2>3. CASE Unlink(w)
    BY <1>2, <1>3, <2>3, AwsAssumption DEF Unlink, Goto, WorkerGoes, Engaged, Labels
  <2>4. CASE Sweep(w) \/ SkipSweep(w) \/ Purge(w)
    BY <1>2, <1>3, <2>4 DEF Sweep, SkipSweep, Purge, Goto, WorkerGoes, Engaged, Working, Labels
  <2> QED
    BY <2>1, <2>2, <2>3, <2>4 DEF Work
<1>5. WorkersKept
  BY <1>4, GoesKept
<1> QED
  BY <1>1, <1>2, <1>5, CalmStep

\* A worker that goes to a label where it does not work, and remembers task n or none
LEMMA AwayKept ==
    ASSUME RowInv, NEW w \in Workers, NEW l \in Labels, NEW n \in TaskIds \cup {0},
           l \notin {"claimed", "handled", "retryable", "final"},
           Goto(w, l), cur' = [cur EXCEPT ![w] = n], UNCHANGED <<input, content, owed>>
    PROVE  MemTypeOK' /\ MemoryKept
<1>1. MemTypeOK'
  BY DEF RowInv, MemTypeOK, Goto
<1>2. /\ ~Working(w)'
      /\ \A v \in Workers \ {w} : pc'[v] = pc[v] /\ cur'[v] = cur[v]
  BY DEF RowInv, MemTypeOK, Goto, Working
<1> QED
  BY <1>1, <1>2 DEF MemoryKept, Working

\* The same for the rows
LEMMA AwayInv ==
    ASSUME RowInv, NEW w \in Workers, NEW l \in Labels, NEW n \in TaskIds \cup {0},
           l \notin {"claimed", "handled", "retryable", "final"},
           Goto(w, l), cur' = [cur EXCEPT ![w] = n], UNCHANGED <<dbVars, apiVars, input, content, owed>>
    PROVE  RowInv'
<1>1. MemTypeOK' /\ MemoryKept
  BY AwayKept
<1>2. ApiTypeOK' /\ UNCHANGED erased
  BY DEF RowInv, ApiTypeOK, apiVars
<1> QED
  BY <1>1, <1>2, MemoryStep

\* Giving a message up, deleted or not
LEMMA ForgetFacts ==
    ASSUME AwsInv, NEW w \in Workers, Forget(w)
    PROVE  /\ RowInv' /\ WorkersKept /\ UNCHANGED <<task, event, batch, sent>>
           /\ msg' = [msg EXCEPT ![w] = 0] /\ msg' \in [Workers -> Messages \cup {0}]
           /\ pc'[w] = "sweep" /\ \A v \in Workers : v # w => pc'[v] = pc[v]
<1>1. RowInv'
  BY AwayInv DEF AwsInv, Forget, Labels
<1>2. /\ pc \in [Workers -> Labels] /\ cur \in [Workers -> TaskIds \cup {0}]
      /\ msg \in [Workers -> Messages \cup {0}]
  BY DEF AwsInv, RowInv, MemTypeOK, AwsTypes
<1>3. WorkerGoes(w, "sweep")
  BY <1>2 DEF Forget, Goto, WorkerGoes, Engaged, Working
<1>4. WorkersKept
  BY <1>3, GoesKept
<1> QED
  BY <1>1, <1>2, <1>3, <1>4 DEF Forget, WorkerGoes, dbVars

\* Steps of a worker that only decide what to do next
LEMMA DecideKeeps ==
    ASSUME AwsInv, NEW w \in Workers, faults' \in 0 .. MaxFaults,
           \/ NothingReceived(w) \/ RefuseMessage(w) \/ PostponeMessage(w) \/ Settle(w)
           \/ CompleteSkipped(w)
    PROVE  AwsInv'
<1>0. /\ pc \in [Workers -> Labels] /\ cur \in [Workers -> TaskIds \cup {0}] /\ RowInv
      /\ msg \in [Workers -> Messages \cup {0}]
  BY DEF AwsInv, RowInv, MemTypeOK, AwsTypes
<1>1. CASE Forget(w) /\ UNCHANGED sqs
  <2>1. /\ RowInv' /\ WorkersKept /\ UNCHANGED <<task, event, batch, sent, sqs>>
        /\ msg' \in [Workers -> Messages \cup {0}]
    BY <1>1, ForgetFacts
  <2> QED
    BY <2>1, NoRowCalm, CalmStep
<1>2. ASSUME NEW l \in {"sweep", "drop"}, Goto(w, l),
             UNCHANGED <<dbVars, apiVars, cur, input, content, owed, sqsVars>>,
             l = "drop" => Engaged(w) /\ ~First(cur[w])
      PROVE  AwsInv'
  <2>1. cur' = [cur EXCEPT ![w] = cur[w]] /\ l \in Labels /\ cur[w] \in TaskIds \cup {0}
    BY <1>0, <1>2 DEF Labels
  <2>2. RowInv'
    BY <1>0, <1>2, <2>1, AwayInv
  <2>3. UNCHANGED <<task, event, batch, sent, sqs, msg, cur>>
    BY <1>2 DEF dbVars, sqsVars
  <2>4. WorkerGoes(w, l)
    BY <1>0, <1>2, <2>3 DEF Goto, WorkerGoes, Engaged, Working
  <2>5. First(cur[w])' => First(cur[w])
    BY <2>3 DEF First, Published, EventFenced
  <2>6. WorkersKept
    BY <1>2, <2>4, <2>5, GoesKept
  <2> QED
    BY <1>0, <1>2, <2>2, <2>3, <2>6, NoRowCalm, CalmStep
<1>3. CASE NothingReceived(w)
  BY <1>2, <1>3 DEF NothingReceived
<1>4. ASSUME RefuseMessage(w) \/ Settle(w), Goto(w, "drop") PROVE ~First(cur[w])
  <2>1. cur[w] \in TaskIds
    BY <1>4 DEF RefuseMessage, Settle, AwsInv, Delivered, Engaged, Known
  <2>2. task[cur[w]].st \in TerminalStates \/ event[cur[w]].st \in {"PENDING", "CANCELLED"}
           \/ task[cur[w]].st = "RETRY_WAIT"
    <3>1. CASE RefuseMessage(w)
      BY <3>1 DEF RefuseMessage, Disposable
    <3>2. CASE Settle(w) /\ ~Forget(w)
      BY <3>2 DEF Settle
    <3>3. CASE Forget(w)
      BY <1>0, <1>4, <3>3 DEF Forget, Goto
    <3> QED
      BY <1>4, <3>1, <3>2, <3>3
  <2>3. OutboxAgrees
    BY <1>0 DEF RowInv
  <2> QED
    BY <2>1, <2>2, <2>3 DEF First, Published, EventFenced, TerminalStates, OutboxAgrees
<1>5. CASE RefuseMessage(w)
  <2>1. Goto(w, "drop") /\ UNCHANGED <<dbVars, apiVars, cur, input, content, owed, sqsVars>> /\ Engaged(w)
    BY <1>5 DEF RefuseMessage, Engaged
  <2> QED
    BY <1>2, <1>4, <1>5, <2>1
<1>6. CASE PostponeMessage(w)
  BY <1>1, <1>6 DEF PostponeMessage
<1>7. CASE Settle(w)
  <2>1. CASE Goto(w, "drop") /\ UNCHANGED <<dbVars, apiVars, cur, input, content, owed, sqsVars>>
    BY <1>2, <1>4, <1>7, <2>1 DEF Settle, Engaged
  <2> QED
    BY <1>1, <1>7, <2>1 DEF Settle
<1>8. CASE CompleteSkipped(w)
  <2>1. /\ Leave(w, {}) /\ UNCHANGED <<dbVars, apiVars, sqsVars>> /\ Engaged(w)
    BY <1>8 DEF CompleteSkipped, Engaged, Working
  <2>2. MemTypeOK' /\ MemoryKept
    BY <1>0, <2>1, LeaveKept
  <2>3. RowInv'
    BY <1>0, <2>1, <2>2, MemoryStep DEF RowInv, ApiTypeOK, apiVars
  <2>4. cur' = cur /\ pc' = [pc EXCEPT ![w] = "settle"]
    BY <1>0, <2>1, AwsAssumption DEF Leave, Goto
  <2>5. UNCHANGED <<task, event, batch, sent, sqs, msg>>
    BY <2>1 DEF dbVars, sqsVars
  <2>6. WorkerGoes(w, "settle")
    BY <1>0, <2>1, <2>4, <2>5 DEF WorkerGoes
  <2>7. WorkersKept
    BY <2>6, GoesKept
  <2> QED
    BY <1>0, <2>3, <2>5, <2>7, NoRowCalm, CalmStep
<1> QED
  BY <1>3, <1>5, <1>6, <1>7, <1>8

\* A claimed message's task keeps the message it has: an unfinished first attempt began
\* with the publication.
LEMMA ClaimKeeps ==
    ASSUME AwsInv, NEW w \in Workers, ClaimMessage(w), faults' \in 0 .. MaxFaults
    PROVE  AwsInv'
<1>p. PICK t : t = cur[w]
  OBVIOUS
<1> DEFINE row == ClaimedTask(task[t], w)
<1>0. /\ pc \in [Workers -> Labels] /\ cur \in [Workers -> TaskIds \cup {0}] /\ RowInv
      /\ task \in [TaskIds -> TaskRow] /\ event[t].st = "SENT" /\ pc[w] = "claim"
      /\ Claimable(t) /\ ~Exhausted(t) /\ TakeTask(w, t)
      /\ UNCHANGED <<batch, sent, sqs, msg, event>>
  BY <1>p DEF AwsInv, RowInv, MemTypeOK, DbTypeOK, ClaimMessage, MayClaim, sqsVars, TakeTask
<1>1. t \in TaskIds /\ task[t].kind = WorkerKind[w] /\ task[t] \in TaskRow
  BY <1>p, <1>0 DEF AwsInv, Delivered, Engaged, Known, DbTypeOK
<1>2. RowInv'
  BY <1>0, <1>1, TakeTaskInv
<1>3. /\ task'[t] = row /\ \A s \in TaskIds : s # t => task'[s] = task[s]
      /\ row.st = "PROCESSING" /\ row.kind = task[t].kind /\ row.attempts = task[t].attempts + 1
      /\ task[t].attempts \in Nat /\ task[t].st \in LiveStates
  BY <1>0, <1>1, StoreAssumption DEF TakeTask, ClaimedTask, TaskRow, Claimable
<1>4. RowsStay /\ AttemptsCounted'
  BY <1>3 DEF RowsStay, AwsInv, AttemptsCounted, Known
<1>5. First(t)' => First(t)
  <2>1. ASSUME First(t)' PROVE task[t].attempts = 0
    BY <1>3, <2>1 DEF First
  <2>2. task[t].attempts = 0 => task[t].st = "PENDING"
    BY <1>1, <1>3 DEF AwsInv, AttemptsCounted, LiveStates
  <2> QED
    BY <1>0, <2>1, <2>2 DEF First, Published
<1>6. NoneFirst
  <2> SUFFICES ASSUME NEW s \in TaskIds, First(s)' PROVE First(s)
    BY DEF NoneFirst
  <2>1. CASE s = t
    BY <1>5, <2>1
  <2>2. CASE s # t
    BY <1>0, <1>3, <2>2 DEF First, Published, EventFenced
  <2> QED
    BY <2>1, <2>2
<1>7. WorkersKept
  <2>1. /\ pc' = [pc EXCEPT ![w] = "claimed"] /\ cur' = [cur EXCEPT ![w] = t]
    BY <1>0 DEF TakeTask, Goto
  <2>2. WorkerGoes(w, "claimed")
    BY <1>p, <1>0, <2>1 DEF WorkerGoes, Engaged
  <2> QED
    BY <2>2, GoesKept
<1>8. AwsTypes'
  BY <1>0 DEF AwsInv, AwsTypes
<1> QED
  BY <1>0, <1>2, <1>4, <1>6, <1>7, <1>8, IdleKept, Together

\* The message of an exhausted task is of a task that has ended.
LEMMA ExhaustKeeps ==
    ASSUME AwsInv, NEW w \in Workers, ExhaustMessage(w), faults' \in 0 .. MaxFaults
    PROVE  AwsInv'
<1> DEFINE t == cur[w]
           row == ExhaustedTask(task[t])
           e == CancelledEvent(event[t])
<1>0. /\ pc \in [Workers -> Labels] /\ cur \in [Workers -> TaskIds \cup {0}] /\ RowInv
      /\ task \in [TaskIds -> TaskRow] /\ event \in [TaskIds -> EventRow]
      /\ Claimable(t) /\ event[t].st = "SENT" /\ Engaged(w)
      /\ task' = [task EXCEPT ![t] = row] /\ event' = [event EXCEPT ![t] = e] /\ Goto(w, "drop")
      /\ UNCHANGED <<rev, profile, chunks, apiVars, cur, input, content, owed, batch, sent, sqs, msg>>
      /\ msg' \in [Workers -> Messages \cup {0}]
  BY DEF AwsInv, AwsTypes, RowInv, MemTypeOK, DbTypeOK, ExhaustMessage, MayClaim, sqsVars, Engaged
<1>1. t \in TaskIds /\ task[t] \in TaskRow /\ event[t] \in EventRow /\ PairOK(task[t], event[t])
  BY <1>0, PairsOK DEF AwsInv, RowInv, Delivered, Known
<1>2. /\ row \in TaskRow /\ row.st = "FAILED" /\ row.kind = task[t].kind /\ row.owner = task[t].owner
      /\ row.rev = task[t].rev /\ row.holder = None /\ row.live = FALSE /\ row.result = task[t].result
  BY <1>1, TaskRowTypes DEF ExhaustedTask, Unleased, TaskRow
<1>3. e \in EventRow /\ e.st = "CANCELLED" /\ e.holder = None /\ e.live = FALSE
  BY <1>1 DEF EventRow, CancelledEvent, Unleased
<1>4. task[t].st \in LiveStates /\ task[t].result = "NONE"
  BY <1>0, <1>1 DEF Claimable, RowInv, DraftsSucceeded, LiveStates
<1> HIDE DEF row, e
<1>5. Evolved(task[t], row) /\ PairOK(row, e) /\ CalmRow(task[t], event[t], row, e)
  BY <1>2, <1>3, <1>4 DEF Evolved, PairOK, CalmRow, LiveStates
<1>6. RowInv'
  <2>1. cur' = [cur EXCEPT ![w] = t]
    BY <1>0
  <2>2. MemTypeOK' /\ MemoryKept
    BY <1>0, <1>1, <2>1, AwayKept DEF Labels
  <2>3. ApiTypeOK' /\ ChunksOfProfile' /\ chunks' \in [Users -> ResumeRow] /\ UNCHANGED erased
    BY <1>0 DEF RowInv, ApiTypeOK, apiVars, ChunksOfProfile, DbTypeOK
  <2> QED
    BY <1>0, <1>1, <1>2, <1>3, <1>5, <2>2, <2>3, RowStep
<1>7. Calm
  BY <1>0, <1>1, <1>5, OneRowCalm
<1>8. ~First(t)'
  BY <1>0, <1>1, <1>2 DEF First
<1>9. WorkersKept
  <2>1. WorkerGoes(w, "drop")
    BY <1>0 DEF Goto, WorkerGoes
  <2>2. ~First(cur[w])'
    BY <1>0, <1>8
  <2> QED
    BY <2>1, <2>2, GoesKept
<1> QED
  BY <1>0, <1>6, <1>7, <1>9, CalmStep

\* A worker that dies has no message any more; SQS has it.
LEMMA DeathKeeps ==
    ASSUME AwsInv, NEW w \in Workers, WorkerDies(w), faults' \in 0 .. MaxFaults
    PROVE  AwsInv'
<1>1. /\ RowInv' /\ UNCHANGED <<task, event, batch, sent, sqs>>
      /\ pc \in [Workers -> Labels] /\ cur \in [Workers -> TaskIds \cup {0}]
      /\ msg \in [Workers -> Messages \cup {0}]
  BY ResetInv DEF WorkerDies, AwsInv, AwsTypes, RowInv, MemTypeOK, dbVars
<1>2. WorkerGoes(w, "boot") /\ msg' \in [Workers -> Messages \cup {0}]
  BY <1>1 DEF WorkerDies, Reset, Goto, WorkerGoes, Engaged, Working
<1>3. WorkersKept
  BY <1>2, GoesKept
<1> QED
  BY <1>1, <1>2, <1>3, NoRowCalm, CalmStep

\* Visibility timeouts and the dead-letter queue keep every message.
LEMMA SqsKeeps ==
    ASSUME AwsInv, NEW m \in Messages, Reappears(m) \/ DeadLetters(m), faults' \in 0 .. MaxFaults
    PROVE  AwsInv'
<1>1. /\ UNCHANGED <<dbVars, apiVars, memVars, batch, sent, msg, task, event, pc, cur>>
      /\ sqs \in [Messages -> Message]
  BY DEF Reappears, DeadLetters, AwsInv, AwsTypes, dbVars, memVars
<1>2. RowInv'
  BY <1>1, StillKept, MemoryStep DEF AwsInv, dbVars
<1>3. RowsStay /\ NoneFirst /\ AttemptsCounted'
  BY <1>1, NoRowCalm, CalmKeeps
<1>4. /\ sqs'[m].st # "none" /\ sqs[m].st # "none" /\ sqs'[m].task = sqs[m].task /\ sqs'[m] \in Message
      /\ \A k \in Messages : k # m => sqs'[k] = sqs[k]
      /\ sqs' = [sqs EXCEPT ![m] = sqs'[m]]
  BY <1>1 DEF Reappears, DeadLetters, Message
<1>5. MessagesKept
  BY <1>4 DEF MessagesKept
<1>6. AwsTypes'
  BY <1>1, <1>4 DEF AwsInv, AwsTypes
<1> QED
  BY <1>1, <1>2, <1>3, <1>5, <1>6, IdleKept, Together

\* Receiving hides a message that stays in the queue, and is no decision about it yet.
LEMMA ReceiveKeeps ==
    ASSUME AwsInv, NEW w \in Workers, NEW m \in Messages, Receive(w, m), faults' \in 0 .. MaxFaults
    PROVE  AwsInv'
<1>0. /\ pc \in [Workers -> Labels] /\ cur \in [Workers -> TaskIds \cup {0}] /\ RowInv
      /\ sqs \in [Messages -> Message] /\ msg \in [Workers -> Messages \cup {0}]
  BY DEF AwsInv, RowInv, MemTypeOK, AwsTypes
<1>1. PICK n : n = sqs[m].task
  OBVIOUS
<1>2. /\ sqs[m].st = "visible" /\ sqs[m].receives \in Nat /\ sqs[m].receives < MaxReceives
      /\ n \in TaskIds /\ task[n].kind = WorkerKind[w] /\ sqs[m] \in Message
  BY <1>0, <1>1, AwsAssumption DEF Receive, Receivable, AwsInv, MessagesKnown, Known, Message
<1>3. /\ sqs' = [sqs EXCEPT ![m] = [sqs[m] EXCEPT !.st = "hidden", !.receives = sqs[m].receives + 1]]
      /\ msg' = [msg EXCEPT ![w] = m] /\ cur' = [cur EXCEPT ![w] = n] /\ Goto(w, "claim")
      /\ UNCHANGED <<dbVars, apiVars, input, content, owed, batch, sent>>
  BY <1>1 DEF Receive
<1>4. [sqs[m] EXCEPT !.st = "hidden", !.receives = sqs[m].receives + 1] \in Message
  <2>1. sqs[m].receives + 1 \in 0 .. MaxReceives
    BY <1>2, AwsAssumption
  <2> QED
    BY <1>2, <2>1 DEF Message
<1>5. AwsTypes'
  BY <1>0, <1>3, <1>4 DEF AwsInv, AwsTypes
<1>6. RowInv'
  BY <1>0, <1>2, <1>3, AwayInv DEF Labels
<1>7. RowsStay /\ NoneFirst /\ AttemptsCounted'
  BY <1>3, NoRowCalm, CalmKeeps DEF dbVars
<1>8. MessagesKept
  BY <1>0, <1>2, <1>3 DEF MessagesKept, Message
<1>9. WorkersKept
  <2>1. /\ pc'[w] = "claim" /\ msg'[w] = m /\ cur'[w] = n
        /\ \A v \in Workers : v # w => pc'[v] = pc[v] /\ msg'[v] = msg[v] /\ cur'[v] = cur[v]
    BY <1>0, <1>3 DEF Goto
  <2> QED
    BY <1>1, <1>2, <2>1 DEF WorkersKept, Engaged, Working
<1> QED
  BY <1>3, <1>5, <1>6, <1>7, <1>8, <1>9, IdleKept, Together

\* A message that is deleted is of no first publication: its worker was about to delete it.
LEMMA DeleteKeeps ==
    ASSUME AwsInv, NEW w \in Workers, DeleteMessage(w), faults' \in 0 .. MaxFaults
    PROVE  AwsInv'
<1>0. PICK m : m = msg[w]
  OBVIOUS
<1>1. /\ RowInv' /\ WorkersKept /\ UNCHANGED <<task, event, batch, sent>>
      /\ msg' = [msg EXCEPT ![w] = 0] /\ msg' \in [Workers -> Messages \cup {0}]
      /\ pc'[w] = "sweep" /\ \A v \in Workers : v # w => pc'[v] = pc[v]
  BY ForgetFacts DEF DeleteMessage
<1>2. /\ m \in Messages /\ pc[w] = "drop" /\ sqs \in [Messages -> Message]
      /\ msg \in [Workers -> Messages \cup {0}]
  BY <1>0 DEF DeleteMessage, AwsInv, Delivered, Engaged, AwsTypes
<1>3. CASE UNCHANGED sqs
  BY <1>1, <1>3, NoRowCalm, CalmStep
<1>4. CASE sqs' = [sqs EXCEPT ![m] = NoMessage]
  <2>1. /\ sqs'[m].st = "none" /\ \A k \in Messages : k # m => sqs'[k] = sqs[k]
    BY <1>2, <1>4 DEF NoMessage
  <2>2. AwsTypes'
    <3>1. NoMessage \in Message
      BY AwsAssumption DEF NoMessage, Message
    <3>2. sqs' \in [Messages -> Message]
      BY <1>2, <1>4, <3>1
    <3> QED
      BY <1>1, <3>2 DEF AwsInv, AwsTypes
  <2>3. RowsStay /\ NoneFirst /\ AttemptsCounted'
    BY <1>1, NoRowCalm, CalmKeeps
  <2>4. MessagesKnown'
    BY <1>1, <2>1 DEF AwsInv, MessagesKnown, Known
  <2>5. \A v \in Workers : Engaged(v)' => /\ v # w /\ Engaged(v) /\ msg'[v] = msg[v]
                                          /\ cur'[v] = cur[v]
    <3>1. \A v \in Workers : v # w => msg'[v] = msg[v]
      BY <1>1, <1>2
    <3>2. cur' = [cur EXCEPT ![w] = 0] /\ cur \in [Workers -> TaskIds \cup {0}]
      BY DEF DeleteMessage, Forget, AwsInv, RowInv, MemTypeOK
    <3> QED
      BY <1>1, <3>1, <3>2 DEF Engaged, Working
  <2>6. Delivered'
    <3> SUFFICES ASSUME NEW v \in Workers, Engaged(v)'
                 PROVE  /\ Known(cur[v])' /\ task'[cur'[v]].kind = WorkerKind[v]
                        /\ msg'[v] \in Messages
                        /\ sqs'[msg'[v]].st # "none" => sqs'[msg'[v]].task = cur'[v]
      BY DEF Delivered
    <3>1. PICK t, k : t = cur[v] /\ k = msg[v]
      OBVIOUS
    <3>2. /\ Known(t) /\ task[t].kind = WorkerKind[v] /\ k \in Messages
          /\ sqs[k].st # "none" => sqs[k].task = t
          /\ cur'[v] = t /\ msg'[v] = k
      BY <2>5, <3>1 DEF AwsInv, Delivered
    <3>3. sqs'[k].st # "none" => sqs'[k].task = t
      BY <2>1, <3>2
    <3> QED
      BY <1>1, <3>2, <3>3 DEF Known
  <2>7. FirstKept'
    <3> SUFFICES ASSUME NEW t \in TaskIds, First(t)' PROVE \E k \in Messages : Lasting(k, t)'
      BY DEF FirstKept
    <3>1. PICK k \in Messages : Lasting(k, t)
      BY <2>3 DEF AwsInv, FirstKept, NoneFirst
    <3>2. k # m
      BY <1>0, <1>2, <3>1 DEF Lasting
    <3>3. \A v \in Workers : pc'[v] = "drop" => pc[v] = "drop" /\ msg'[v] = msg[v]
      BY <1>1, <2>5 DEF Engaged
    <3>4. Lasting(k, t)'
      BY <2>1, <3>1, <3>2, <3>3 DEF Lasting
    <3> QED
      BY <3>4
  <2> QED
    BY <1>1, <2>2, <2>3, <2>4, <2>6, <2>7 DEF AwsInv
<1>5. \/ sqs' = sqs
      \/ sqs' = [sqs EXCEPT ![m] = NoMessage]
  <2>1. sqs[m].st = "dead" => [sqs EXCEPT ![m] = sqs[m]] = sqs
    BY <1>2
  <2>2. \/ UNCHANGED sqs
        \/ sqs' = [sqs EXCEPT ![m] = IF sqs[m].st = "dead" THEN sqs[m] ELSE NoMessage]
    BY <1>0 DEF DeleteMessage
  <2> QED
    BY <2>1, <2>2
<1> QED
  BY <1>3, <1>4, <1>5

-----------------------------------------------------------------------------
(* Publishers *)

\* A step of a publisher that leaves the queue alone preserves AwsInv.
LEMMA PublisherKeeps ==
    ASSUME AwsInv, RowInv', NoneFirst, PublishersKept, UNCHANGED <<task, memVars, sqs, msg>>,
           batch' \in [Publishers -> SUBSET TaskIds], sent' \in [Publishers -> TaskIds \cup {0}],
           faults' \in 0 .. MaxFaults
    PROVE  AwsInv'
<1>1. RowsStay /\ AttemptsCounted'
  BY DEF RowsStay, Known, AwsInv, AttemptsCounted
<1>2. AwsTypes'
  BY DEF AwsInv, AwsTypes
<1> QED
  BY <1>1, <1>2, IdleKept, Together DEF memVars

\* Publishers give one event a row that agrees with its task.
LEMMA OneEventInv ==
    ASSUME RowInv, NEW t \in TaskIds, NEW e \in EventRow, PairOK(task[t], e),
           event' = [event EXCEPT ![t] = e],
           UNCHANGED <<rev, profile, chunks, task, apiVars, memVars>>
    PROVE  RowInv'
<1>1. event \in [TaskIds -> EventRow]
  BY DEF RowInv, DbTypeOK
<1>2. event' \in [TaskIds -> EventRow] /\ \A s \in TaskIds : PairOK(task[s], event'[s])
  BY <1>1, PairsOK DEF RowInv
<1> QED
  BY <1>2, StillKept, EventStep

\* Claiming events gives up no acknowledged publication, and sends nothing yet.
LEMMA ClaimBatchKeeps ==
    ASSUME AwsInv, NEW p \in Publishers, ClaimBatch(p), faults' \in 0 .. MaxFaults
    PROVE  AwsInv'
<1> DEFINE due == {t \in TaskIds : Publishable(t)}
<1>1. /\ RowInv /\ event \in [TaskIds -> EventRow] /\ batch \in [Publishers -> SUBSET TaskIds]
      /\ sent \in [Publishers -> TaskIds \cup {0}] /\ MessagesKnown
  BY DEF AwsInv, RowInv, DbTypeOK, AwsTypes
<1>2. /\ event' = [t \in TaskIds |-> IF t \in due THEN ClaimedEvent(event[t], p) ELSE event[t]]
      /\ batch' = [batch EXCEPT ![p] = due] /\ batch[p] = {}
      /\ UNCHANGED <<rev, profile, chunks, task, apiVars, memVars, sent, sqs, msg>>
  BY DEF ClaimBatch
<1>3. ASSUME NEW t \in TaskIds
      PROVE  /\ event'[t] \in EventRow /\ PairOK(task[t], event'[t])
             /\ t \in due => /\ task[t].st \in {"PENDING", "RETRY_WAIT"}
                             /\ event'[t].st = "CLAIMED" /\ event'[t].holder = p
             /\ t \notin due => event'[t] = event[t]
  <2>1. event[t] \in EventRow /\ PairOK(task[t], event[t])
    BY <1>1, PairsOK DEF RowInv
  <2>2. CASE t \in due
    <3> DEFINE e == ClaimedEvent(event[t], p)
    <3>1. event'[t] = e /\ task[t].st \in {"PENDING", "RETRY_WAIT"}
      BY <1>2, <2>2 DEF Publishable
    <3>2. p \in Procs /\ p # None
      BY StoreAssumption, AwsAssumption
    <3>3. e \in EventRow /\ e.st = "CLAIMED" /\ e.holder = p
      BY <2>1, <3>2 DEF EventRow, ClaimedEvent
    <3> HIDE DEF e
    <3> QED
      BY <2>1, <2>2, <3>1, <3>2, <3>3 DEF PairOK
  <2>3. CASE t \notin due
    BY <1>2, <2>1, <2>3
  <2> QED
    BY <2>2, <2>3
<1> HIDE DEF due
<1>4. RowInv'
  <2>1. event' \in [TaskIds -> EventRow]
    BY <1>2, <1>3
  <2> QED
    BY <1>1, <1>2, <1>3, <2>1, StillKept, EventStep
<1>5. NoneFirst
  <2> SUFFICES ASSUME NEW t \in TaskIds, First(t)' PROVE First(t)
    BY DEF NoneFirst
  <2>1. CASE t \in due
    <3>1. event'[t].st = "CLAIMED" /\ event'[t].holder = p /\ task[t].st # "PROCESSING"
      BY <1>3, <2>1
    <3>2. sent[p] = t
      BY <1>2, <3>1 DEF First, Published, EventFenced
    <3> QED
      BY <1>1, <1>2, <3>2 DEF MessagesKnown, TaskIds
  <2>2. CASE t \notin due
    BY <1>2, <1>3, <2>2 DEF First, Published, EventFenced
  <2> QED
    BY <2>1, <2>2
<1>6. PublishersKept
  <2>1. \A t \in due : Known(t)
    BY <1>3 DEF due, Known
  <2>2. sent[p] = 0
    BY <1>1, <1>2 DEF MessagesKnown
  <2> QED
    BY <1>1, <1>2, <2>1, <2>2 DEF PublishersKept, MessagesKnown
<1>7. batch' \in [Publishers -> SUBSET TaskIds]
  BY <1>1, <1>2 DEF due
<1> QED
  BY <1>1, <1>2, <1>4, <1>5, <1>6, <1>7, PublisherKeeps

\* What a publisher may do with the event of a delivery it is done with
Answer(t, p, e) ==
    \/ e = event[t]
    \/ e = CancelledEvent(event[t]) /\ Ended(t)
    \/ EventFenced(t, p) /\ e = RetriedEvent(event[t])
    \/ EventFenced(t, p) /\ e = SentEvent(event[t]) /\ sent[p] = t

\* Being done with a delivery publishes nothing that was not sent under a live claim.
LEMMA AnswerKeeps ==
    ASSUME AwsInv, NEW p \in Publishers, NEW t \in TaskIds, NEW e, Answer(t, p, e),
           event' = [event EXCEPT ![t] = e], sent[p] \in {0, t},
           batch' = [batch EXCEPT ![p] = batch[p] \ {t}], sent' = [sent EXCEPT ![p] = 0],
           UNCHANGED <<rev, profile, chunks, task, apiVars, memVars, sqs, msg>>,
           faults' \in 0 .. MaxFaults
    PROVE  AwsInv'
<1>1. /\ RowInv /\ event \in [TaskIds -> EventRow] /\ batch \in [Publishers -> SUBSET TaskIds]
      /\ sent \in [Publishers -> TaskIds \cup {0}] /\ MessagesKnown
      /\ event[t] \in EventRow /\ PairOK(task[t], event[t]) /\ task[t] \in TaskRow
  BY PairsOK DEF AwsInv, RowInv, DbTypeOK, AwsTypes
<1>2. /\ e \in EventRow /\ PairOK(task[t], e)
      /\ \/ e = event[t] \/ e.st = "PENDING" \/ (e.st = "CANCELLED" /\ Ended(t))
         \/ (e.st = "SENT" /\ EventFenced(t, p) /\ sent[p] = t)
  <2>1. CASE e = event[t]
    BY <1>1, <2>1
  <2>2. CASE e = CancelledEvent(event[t]) /\ Ended(t)
    <3>1. e \in EventRow /\ e.st = "CANCELLED" /\ e.holder = None /\ e.live = FALSE
      BY <1>1, <2>2 DEF EventRow, CancelledEvent, Unleased
    <3> QED
      BY <1>1, <2>2, <3>1 DEF PairOK, Ended
  <2>3. CASE EventFenced(t, p) /\ e = RetriedEvent(event[t])
    <3>1. e \in EventRow /\ e.st = "PENDING" /\ e.holder = None /\ e.live = FALSE
      BY <1>1, <2>3 DEF EventRow, RetriedEvent, Unleased
    <3> QED
      BY <1>1, <2>3, <3>1 DEF PairOK, EventFenced
  <2>4. CASE EventFenced(t, p) /\ e = SentEvent(event[t]) /\ sent[p] = t
    <3>1. e \in EventRow /\ e.st = "SENT" /\ e.holder = None /\ e.live = FALSE
      BY <1>1, <2>4 DEF EventRow, SentEvent, Unleased
    <3> QED
      BY <1>1, <2>4, <3>1 DEF PairOK, EventFenced
  <2> QED
    BY <2>1, <2>2, <2>3, <2>4 DEF Answer
<1>3. RowInv'
  BY <1>1, <1>2, OneEventInv
<1>4. /\ event'[t] = e /\ \A s \in TaskIds : s # t => event'[s] = event[s]
      /\ sent'[p] = 0 /\ \A q \in Publishers : q # p => sent'[q] = sent[q] /\ batch'[q] = batch[q]
      /\ batch'[p] \subseteq batch[p]
  BY <1>1
<1>5. NoneFirst
  <2> SUFFICES ASSUME NEW s \in TaskIds, First(s)' PROVE First(s)
    BY DEF NoneFirst
  <2>0. s # 0
    BY DEF TaskIds
  <2>1. CASE task[s].st = "PROCESSING"
    BY <2>1 DEF First
  <2>2. CASE task[s].st = "PENDING" /\ s = t
    BY <1>2, <1>4, <2>0, <2>2 DEF First, Published, EventFenced, Ended
  <2>3. CASE task[s].st = "PENDING" /\ s # t
    BY <1>4, <2>0, <2>3 DEF First, Published, EventFenced
  <2> QED
    BY <2>1, <2>2, <2>3 DEF First
<1>6. PublishersKept
  BY <1>1, <1>4 DEF PublishersKept, MessagesKnown
<1>7. batch' \in [Publishers -> SUBSET TaskIds] /\ sent' \in [Publishers -> TaskIds \cup {0}]
  BY <1>1
<1> QED
  BY <1>3, <1>5, <1>6, <1>7, PublisherKeeps

\* Dropping, acknowledging or failing a delivery preserves AwsInv.
LEMMA AnswersKeep ==
    ASSUME AwsInv, NEW p \in Publishers, faults' \in 0 .. MaxFaults,
           Acknowledge(p) \/ \E t \in TaskIds : DropEnded(p, t) \/ PublishFails(p, t)
    PROVE  AwsInv'
<1>1. /\ event \in [TaskIds -> EventRow] /\ sent \in [Publishers -> TaskIds \cup {0}]
  BY DEF AwsInv, AwsTypes, RowInv, DbTypeOK
<1>2. ASSUME NEW t \in TaskIds, DropEnded(p, t) PROVE AwsInv'
  <2>1. /\ event' = [event EXCEPT ![t] = CancelledEvent(event[t])] /\ sent[p] \in {0, t}
        /\ batch' = [batch EXCEPT ![p] = batch[p] \ {t}] /\ sent' = [sent EXCEPT ![p] = 0]
        /\ UNCHANGED <<rev, profile, chunks, task, apiVars, memVars, sqs, msg>>
        /\ Answer(t, p, CancelledEvent(event[t]))
    BY <1>1, <1>2 DEF DropEnded, Answer
  <2> QED
    BY <2>1, AnswerKeeps
<1>3. ASSUME Acknowledge(p) PROVE AwsInv'
  <2>1. PICK t : t = sent[p]
    OBVIOUS
  <2>2. /\ t \in TaskIds /\ Handed(p, t)
        /\ event' = [event EXCEPT ![t] = IF EventFenced(t, p) THEN SentEvent(event[t]) ELSE event[t]]
    BY <1>1, <1>3, <2>1 DEF Acknowledge
  <2>3. PICK e : e = IF EventFenced(t, p) THEN SentEvent(event[t]) ELSE event[t]
    OBVIOUS
  <2>4. Answer(t, p, e)
    BY <2>1, <2>3 DEF Answer
  <2> QED
    BY <2>1, <2>2, <2>3, <2>4, AnswerKeeps DEF Handed
<1>4. ASSUME NEW t \in TaskIds, PublishFails(p, t) PROVE AwsInv'
  <2>1. /\ Handed(p, t) /\ sent[p] \in {0, t}
        /\ \/ event' = [event EXCEPT ![t] = IF EventFenced(t, p) THEN RetriedEvent(event[t]) ELSE event[t]]
           \/ event' = [event EXCEPT ![t] = event[t]]
    BY <1>1, <1>4 DEF PublishFails
  <2>2. PICK e : event' = [event EXCEPT ![t] = e] /\ Answer(t, p, e)
    BY <2>1 DEF Answer
  <2> QED
    BY <2>1, <2>2, AnswerKeeps DEF Handed
<1> QED
  BY <1>2, <1>3, <1>4

\* A publisher that dies leaves its claims to their leases and its messages in the queue.
LEMMA PublisherDeathKeeps ==
    ASSUME AwsInv, NEW p \in Publishers, PublisherDies(p), faults' \in 0 .. MaxFaults
    PROVE  AwsInv'
<1>1. /\ batch \in [Publishers -> SUBSET TaskIds] /\ sent \in [Publishers -> TaskIds \cup {0}]
      /\ MessagesKnown
      /\ batch' = [batch EXCEPT ![p] = {}] /\ sent' = [sent EXCEPT ![p] = 0]
      /\ UNCHANGED <<dbVars, apiVars, memVars, sqs, msg, task, event>>
  BY DEF AwsInv, AwsTypes, PublisherDies, dbVars
<1>2. RowInv'
  BY <1>1, StillKept, MemoryStep DEF AwsInv, dbVars
<1>3. NoneFirst
  <2>1. \A q \in Publishers : sent'[q] = 0 \/ sent'[q] = sent[q]
    BY <1>1
  <2>2. 0 \notin TaskIds
    BY DEF TaskIds
  <2> QED
    BY <1>1, <2>1, <2>2 DEF NoneFirst, First, Published, EventFenced
<1>4. PublishersKept
  BY <1>1 DEF PublishersKept, MessagesKnown
<1>5. batch' \in [Publishers -> SUBSET TaskIds] /\ sent' \in [Publishers -> TaskIds \cup {0}]
  BY <1>1
<1> QED
  BY <1>1, <1>2, <1>3, <1>4, <1>5, PublisherKeeps

\* A message is sent before its event is acknowledged, to a place no worker points at.
LEMMA SendKeeps ==
    ASSUME AwsInv, NEW p \in Publishers, NEW t \in TaskIds, Send(p, t), faults' \in 0 .. MaxFaults
    PROVE  AwsInv'
<1> DEFINE new == [st |-> "visible", task |-> t, receives |-> 0]
<1>1. /\ sent \in [Publishers -> TaskIds \cup {0}] /\ sqs \in [Messages -> Message]
      /\ MessagesKnown /\ Delivered /\ FirstKept /\ AttemptsCounted
      /\ sent' = [sent EXCEPT ![p] = t] /\ t \in batch[p]
      /\ UNCHANGED <<dbVars, apiVars, memVars, batch, msg, task, event, pc, cur>>
  BY DEF AwsInv, AwsTypes, Send, dbVars, memVars
<1>2. PICK m \in Messages : FreeSlot(m) /\ sqs' = [sqs EXCEPT ![m] = new]
  BY DEF Send
<1>3. /\ sqs'[m] = new /\ \A k \in Messages : k # m => sqs'[k] = sqs[k]
      /\ sqs[m].st = "none" /\ \A w \in Workers : msg[w] # m
  BY <1>1, <1>2 DEF FreeSlot
<1>4. AwsTypes'
  <2>1. new \in Message
    BY AwsAssumption DEF Message
  <2>2. sqs' \in [Messages -> Message] /\ sent' \in [Publishers -> TaskIds \cup {0}]
    BY <1>1, <1>2, <2>1
  <2> QED
    BY <1>1, <2>2 DEF AwsInv, AwsTypes
<1>5. RowInv'
  BY <1>1, StillKept, MemoryStep DEF AwsInv, dbVars
<1>6. MessagesKnown'
  <2>1. Known(t)
    BY <1>1 DEF MessagesKnown
  <2> QED
    BY <1>1, <1>3, <2>1 DEF MessagesKnown, Known
<1>7. Delivered'
  <2> SUFFICES ASSUME NEW w \in Workers, Engaged(w)
               PROVE  sqs'[msg[w]].st # "none" => sqs'[msg[w]].task = cur[w]
    BY <1>1 DEF Delivered, Engaged, Working, Known
  <2>1. msg[w] \in Messages /\ msg[w] # m /\ (sqs[msg[w]].st # "none" => sqs[msg[w]].task = cur[w])
    BY <1>1, <1>3 DEF Delivered
  <2> QED
    BY <1>3, <2>1
<1>8. AttemptsCounted'
  BY <1>1 DEF AttemptsCounted
<1>9. FirstKept'
  <2> SUFFICES ASSUME NEW s \in TaskIds, First(s)' PROVE \E k \in Messages : Lasting(k, s)'
    BY DEF FirstKept
  <2>1. CASE s = t
    <3>1. Lasting(m, s)'
      BY <1>1, <1>3, <2>1 DEF Lasting
    <3> QED
      BY <3>1
  <2>2. CASE s # t
    <3>1. First(s)
      BY <1>1, <2>2 DEF First, Published, EventFenced
    <3>2. PICK k \in Messages : Lasting(k, s)
      BY <1>1, <3>1 DEF FirstKept
    <3>3. Lasting(k, s)'
      BY <1>1, <1>3, <3>2 DEF Lasting
    <3> QED
      BY <3>3
  <2> QED
    BY <2>1, <2>2
<1> QED
  BY <1>4, <1>5, <1>6, <1>7, <1>8, <1>9 DEF AwsInv

-----------------------------------------------------------------------------
(* The system *)

\* Every step of aws mode preserves AwsInv.
LEMMA NextKeeps ==
    ASSUME AwsInv, Next
    PROVE  AwsInv'
<1>1. ASSUME NEW p \in Publishers, PublisherStep(p) \/ PublisherFault(p) PROVE AwsInv'
  <2>1. faults' \in 0 .. MaxFaults
    BY <1>1, FaultsCounted DEF PublisherStep, PublisherFault
  <2> QED
    BY <1>1, <2>1, ClaimBatchKeeps, AnswersKeep, SendKeeps, PublisherDeathKeeps
    DEF PublisherStep, PublisherFault
<1>2. ASSUME NEW w \in Workers, WorkerStep(w) PROVE AwsInv'
  <2>1. faults' \in 0 .. MaxFaults
    BY <1>2, FaultsCounted DEF WorkerStep
  <2>2. \/ \E m \in Messages : Receive(w, m)
        \/ NothingReceived(w) \/ RefuseMessage(w) \/ PostponeMessage(w) \/ Settle(w)
        \/ CompleteSkipped(w)
        \/ ClaimMessage(w) \/ ExhaustMessage(w) \/ DeleteMessage(w)
        \/ (Work(w) /\ UNCHANGED sqsVars)
    BY <1>2 DEF WorkerStep, Work
  <2> QED
    BY <2>1, <2>2, ReceiveKeeps, DecideKeeps, ClaimKeeps, ExhaustKeeps, DeleteKeeps, WorkKeeps
<1>3. ASSUME NEW w \in Workers, WorkerDies(w) PROVE AwsInv'
  BY <1>3, FaultsCounted, DeathKeeps DEF WorkerDies
<1>4. CASE ApiStep
  <2>1. faults' \in 0 .. MaxFaults
    BY <1>4, FaultsCounted DEF ApiStep
  <2> QED
    BY <1>4, <2>1, RequestKeeps DEF ApiStep
<1>5. ASSUME ApiFault \/ \E r \in Refs : Ages(r) PROVE AwsInv'
  <2>1. faults' \in 0 .. MaxFaults
    BY <1>5, FaultsCounted DEF ApiFault, Ages
  <2> QED
    BY <1>5, <2>1, ObjectsKeep DEF ApiFault, Ages
<1>6. ASSUME Stall \/ \E t \in TaskIds : Tick(t) PROVE AwsInv'
  <2>1. faults' \in 0 .. MaxFaults
    BY <1>6, FaultsCounted DEF Stall, Tick
  <2>2. \/ \E t \in TaskIds :
              /\ \/ LeaseExpires(t) \/ EventLeaseExpires(t) \/ BecomesDue(t) \/ TaskAges(t)
                 \/ ResultExpires(t)
              /\ UNCHANGED <<apiVars, memVars, sqsVars>>
        \/ \E m \in Messages : Reappears(m)
    BY <1>6 DEF Stall, Tick
  <2> QED
    BY <2>1, <2>2, ClockKeeps, SqsKeeps
<1>7. ASSUME NEW m \in Messages, SqsStep(m) PROVE AwsInv'
  <2>1. faults' \in 0 .. MaxFaults
    BY <1>7, FaultsCounted DEF SqsStep
  <2> QED
    BY <1>7, <2>1, SqsKeeps DEF SqsStep
<1> QED
  BY <1>1, <1>2, <1>3, <1>4, <1>5, <1>6, <1>7 DEF Next

\* AwsInv is an invariant of aws mode.
THEOREM AwsInductive == Spec => []AwsInv
<1>1. Init => AwsInv
  BY AwsInvAtFirst
<1>2. AwsInv /\ UNCHANGED vars => AwsInv'
  <2> SUFFICES ASSUME AwsInv, UNCHANGED vars PROVE AwsInv'
    OBVIOUS
  <2>1. /\ UNCHANGED <<dbVars, apiVars, memVars, sqsVars, faults, task, event, pc, cur, msg, batch, sent, sqs>>
        /\ UNCHANGED <<rev, profile, chunks>>
    BY DEF vars, dbVars, memVars, sqsVars
  <2>2. RowInv'
    BY <2>1, StillKept, MemoryStep DEF AwsInv
  <2>3. msg' \in [Workers -> Messages \cup {0}] /\ faults' \in 0 .. MaxFaults
    BY <2>1 DEF AwsInv, AwsTypes
  <2> QED
    BY <2>1, <2>2, <2>3, NoRowCalm, IdleKept, CalmStep
<1>3. AwsInv /\ [Next]_vars => AwsInv'
  BY <1>2, NextKeeps
<1> QED
  BY <1>1, <1>3, PTL DEF Spec

-----------------------------------------------------------------------------
(* What it shows *)

\* The rows of the database, the memory of publishers and workers and the messages of SQS
\* have their types, and no task is attempted more than max_attempts times.
THEOREM AwsTypeCorrect == Spec => []TypeOK
<1>1. AwsInv => TypeOK
  BY DEF AwsInv, AwsTypes, RowInv, TypeOK
<1> QED
  BY <1>1, AwsInductive, PTL

\* A published task has a message until its first attempt is over: at every moment, with
\* any number of publishers, duplicates, receives, crashes and lapsed leases.
THEOREM FirstDeliveryIsKept == Spec => []FirstDeliveryKept
<1>1. AwsInv => FirstDeliveryKept
  BY DEF AwsInv, FirstKept, First, Published, Lasting, FirstDeliveryKept, HasMessage
<1> QED
  BY <1>1, AwsInductive, PTL

\* Chunks are of the profile's revision and content in aws mode too, where two workers can
\* hold messages of one task.
THEOREM AwsChunksAreOfProfile == Spec => []ChunksOfProfile
<1>1. AwsInv => ChunksOfProfile
  BY DEF AwsInv, RowInv
<1> QED
  BY <1>1, AwsInductive, PTL

\* What delete_resume removed does not come back, whichever message is still in the queue.
THEOREM AwsDeleteIsFinal == Spec => []NothingSurvivesDelete
<1>1. AwsInv => NothingSurvivesDelete
  BY DEF AwsInv, RowInv
<1> QED
  BY <1>1, AwsInductive, PTL

\* The task and outbox rows agree whatever publishers and workers do to them, and meet the
\* CHECK constraints on their leases.
THEOREM AwsRowsAgree == Spec => [](OutboxAgrees /\ LeaseColumns)
<1>1. AwsInv => OutboxAgrees /\ LeaseColumns
  BY DEF AwsInv, RowInv
<1> QED
  BY <1>1, AwsInductive, PTL

\* No message, duplicate, late worker or publisher revives an ended task.
THEOREM AwsEndsAreFinal == Spec => TerminalIsFinal
<1>1. ASSUME AwsInv, Next PROVE EndsForGood
  <2>0. RowInv /\ Delivered
    BY <1>1 DEF AwsInv
  <2>1. UNCHANGED task => EndsForGood
    BY DEF EndsForGood
  <2>2. ASSUME NEW w \in Workers, ClaimMessage(w) \/ ExhaustMessage(w) PROVE EndsForGood
    <3>1. PICK t : t = cur[w]
      OBVIOUS
    <3>2. t \in TaskIds /\ Claimable(t)
      BY <2>0, <2>2, <3>1 DEF ClaimMessage, ExhaustMessage, MayClaim, Delivered, Engaged, Known
    <3>3. \E row : task' = [task EXCEPT ![t] = row]
      BY <2>2, <3>1 DEF ClaimMessage, ExhaustMessage, TakeTask
    <3> QED
      BY <2>0, <3>2, <3>3, UnfinishedEnds
  <2>3. ASSUME NEW w \in Workers, WorkerStep(w) PROVE EndsForGood
    <3>1. UNCHANGED task \/ ClaimMessage(w) \/ ExhaustMessage(w) \/ Work(w)
      BY <2>3 DEF WorkerStep, Work, Receive, NothingReceived, RefuseMessage, PostponeMessage, Settle,
         DeleteMessage, CompleteSkipped, Forget, dbVars
    <3> QED
      BY <2>0, <2>1, <2>2, <3>1, WorkEnds
  <2>4. ASSUME NEW p \in Publishers, PublisherStep(p) \/ PublisherFault(p) PROVE UNCHANGED task
    BY <2>4 DEF PublisherStep, PublisherFault, ClaimBatch, Acknowledge, DropEnded, Send, PublisherDies,
       PublishFails, Handed, dbVars
  <2>5. CASE ApiStep
    BY <2>0, <2>5, RequestEnds DEF ApiStep
  <2>6. ASSUME NEW t \in TaskIds, \/ LeaseExpires(t) \/ EventLeaseExpires(t) \/ BecomesDue(t)
                                  \/ TaskAges(t) \/ ResultExpires(t)
        PROVE  EndsForGood
    BY <2>0, <2>6, ClockEnds
  <2>7. Stall \/ (\E t \in TaskIds : Tick(t)) =>
           \/ UNCHANGED task
           \/ \E t \in TaskIds : \/ LeaseExpires(t) \/ EventLeaseExpires(t) \/ BecomesDue(t)
                                 \/ TaskAges(t) \/ ResultExpires(t)
    BY DEF Stall, Tick, Reappears, dbVars
  <2>8. ASSUME \/ \E w \in Workers : WorkerDies(w)
               \/ \E m \in Messages : SqsStep(m)
               \/ ApiFault \/ \E r \in Refs : Ages(r)
        PROVE  UNCHANGED task
    BY <2>8 DEF WorkerDies, SqsStep, Reappears, DeadLetters, ApiFault, ApiDies, UploadFails, Ages,
       ObjectAges, dbVars
  <2> QED
    BY <1>1, <2>1, <2>3, <2>4, <2>5, <2>6, <2>7, <2>8 DEF Next
<1>2. AwsInv /\ [Next]_vars => [EndsForGood]_vars
  BY <1>1
<1> QED
  BY <1>2, AwsInductive, PTL DEF Spec, TerminalIsFinal

-----------------------------------------------------------------------------
(* Inputs and embeddings, as in local mode *)

\* A worker that decides what to do with its message changes no row and no object.
Decides(w) ==
    /\ UNCHANGED <<rev, profile, chunks, task, apiVars, input, owed>>
    /\ \A v \in Workers \ {w} : cur'[v] = cur[v]
    /\ \E l \in {"claim", "sweep", "drop"} : Goto(w, l)

\* Time changes a row.
Passes ==
    /\ \E t \in TaskIds :
          LeaseExpires(t) \/ EventLeaseExpires(t) \/ BecomesDue(t) \/ TaskAges(t) \/ ResultExpires(t)
    /\ UNCHANGED <<apiVars, memVars>>

\* What the steps of aws mode are to tasks and objects.
LEMMA StepsAre ==
    ASSUME RowInv, Next
    PROVE  \/ UNCHANGED <<rev, profile, chunks, task, apiVars, memVars>>
           \/ \E w \in Workers :
                 \/ ClaimMessage(w) \/ ExhaustMessage(w) \/ CompleteSkipped(w)
                 \/ Work(w) \/ Decides(w)
                 \/ Reset(w) /\ UNCHANGED <<dbVars, apiVars>>
           \/ UNCHANGED memVars /\ (Request \/ ApiDies \/ \E r \in Refs : UploadFails(r) \/ ObjectAges(r))
           \/ Passes
<1>1. ASSUME NEW p \in Publishers, PublisherStep(p) \/ PublisherFault(p)
      PROVE  UNCHANGED <<rev, profile, chunks, task, apiVars, memVars>>
  BY <1>1 DEF PublisherStep, PublisherFault, ClaimBatch, Acknowledge, DropEnded, Send, PublisherDies,
     PublishFails, Handed, dbVars
<1>2. ASSUME NEW w \in Workers, WorkerStep(w)
      PROVE  ClaimMessage(w) \/ ExhaustMessage(w) \/ CompleteSkipped(w) \/ Work(w) \/ Decides(w)
  <2>1. \/ \E m \in Messages : Receive(w, m)
        \/ NothingReceived(w) \/ RefuseMessage(w) \/ PostponeMessage(w)
        \/ Settle(w) \/ DeleteMessage(w)
        \/ ClaimMessage(w) \/ ExhaustMessage(w) \/ Work(w) \/ CompleteSkipped(w)
    BY <1>2, Zenon DEF WorkerStep, Work
  <2>2. cur \in [Workers -> TaskIds \cup {0}]
    BY DEF RowInv, MemTypeOK
  <2>3. (\E m \in Messages : Receive(w, m)) \/ NothingReceived(w) \/ RefuseMessage(w)
           \/ PostponeMessage(w) \/ Settle(w) \/ DeleteMessage(w) => Decides(w)
    BY <2>2 DEF Receive, NothingReceived, RefuseMessage, PostponeMessage, Settle, DeleteMessage, Forget,
       dbVars, Decides
  <2> QED
    BY <2>1, <2>3
<1>3. ASSUME NEW w \in Workers, WorkerDies(w) PROVE Reset(w) /\ UNCHANGED <<dbVars, apiVars>>
  BY <1>3 DEF WorkerDies
<1>4. Stall \/ (\E t \in TaskIds : Tick(t)) =>
         UNCHANGED <<rev, profile, chunks, task, apiVars, memVars>> \/ Passes
  BY DEF Stall, Tick, Reappears, dbVars, Passes
<1>5. ASSUME NEW m \in Messages, SqsStep(m)
      PROVE  UNCHANGED <<rev, profile, chunks, task, apiVars, memVars>>
  BY <1>5 DEF SqsStep, Reappears, DeadLetters, dbVars
<1>6. ApiStep \/ ApiFault \/ (\E r \in Refs : Ages(r)) =>
         UNCHANGED memVars /\ (Request \/ ApiDies \/ \E r \in Refs : UploadFails(r) \/ ObjectAges(r))
  BY DEF ApiStep, ApiFault, Ages
<1> QED
  BY <1>1, <1>2, <1>3, <1>4, <1>5, <1>6 DEF Next

\* A worker that claims the task of its message, or ends it for want of attempts, has a
\* task that may be claimed.
LEMMA ClaimsAreOfTasks ==
    ASSUME AwsInv, NEW w \in Workers, ClaimMessage(w) \/ ExhaustMessage(w)
    PROVE  cur[w] \in TaskIds /\ Claimable(cur[w])
<1>1. pc[w] = "claim" /\ Claimable(cur[w])
  BY DEF ClaimMessage, ExhaustMessage, MayClaim
<1> QED
  BY <1>1 DEF AwsInv, Delivered, Engaged, Known

\* Every step of aws mode preserves InputInv.
LEMMA AwsNextInputs ==
    ASSUME AwsInv, RowInv', InputInv, Next
    PROVE  InputInv'
<1>0. RowInv
  BY DEF AwsInv
<1>1. ASSUME NEW w \in Workers, ClaimMessage(w) PROVE InputInv'
  <2>1. PICK t \in TaskIds : t = cur[w] /\ task[t].st \in LiveStates
    BY <1>1, ClaimsAreOfTasks DEF Claimable
  <2> QED
    BY <1>0, <1>1, <2>1, TakeTaskInputs DEF ClaimMessage
<1>2. ASSUME NEW w \in Workers, ExhaustMessage(w) PROVE InputInv'
  <2>1. PICK t \in TaskIds : t = cur[w] /\ task[t].st \in LiveStates
    BY <1>2, ClaimsAreOfTasks DEF Claimable
  <2>2. task \in [TaskIds -> TaskRow] /\ task' = [task EXCEPT ![t] = ExhaustedTask(task[t])]
    BY <1>0, <1>2, <2>1 DEF ExhaustMessage, RowInv, DbTypeOK
  <2>3. /\ task'[t].ref = task[t].ref /\ task'[t].kind = task[t].kind
        /\ \A s \in TaskIds \ {t} : task'[s] = task[s]
    BY <2>2 DEF ExhaustedTask, Unleased, TaskRow
  <2>4. \A s \in TaskIds : KeepsInput(s)
    BY <2>1, <2>3 DEF KeepsInput
  <2>5. \A v \in Workers : KeepsMemory(v)
    BY <1>0, <1>2, GotoInputs DEF ExhaustMessage
  <2>6. \A r \in Refs : DeletionOwed(r)' => DeletionOwed(r)
    BY <1>2 DEF ExhaustMessage, DeletionOwed, apiVars
  <2> QED
    BY <1>0, <1>2, <2>4, <2>5, <2>6, OwedInputs DEF ExhaustMessage, apiVars
<1>3. ASSUME NEW w \in Workers, CompleteSkipped(w) PROVE InputInv'
  <2>1. /\ \A v \in Workers : KeepsMemory(v)
        /\ \A r \in Refs : DeletionOwed(r)' => DeletionOwed(r)
    BY <1>0, <1>3, LeaveInputs DEF CompleteSkipped
  <2>2. \A s \in TaskIds : KeepsInput(s)
    BY <1>3 DEF CompleteSkipped, KeepsInput, dbVars
  <2> QED
    BY <1>0, <1>3, <2>1, <2>2, OwedInputs DEF CompleteSkipped, apiVars
<1>4. ASSUME NEW w \in Workers, Decides(w) PROVE InputInv'
  <2>1. ~Working(w)' /\ \A v \in Workers \ {w} : pc'[v] = pc[v]
    BY <1>0, <1>4 DEF RowInv, MemTypeOK, Goto, Working, Decides
  <2>2. \A v \in Workers : KeepsMemory(v)
    BY <1>4, <2>1 DEF KeepsMemory, Working, Decides
  <2> QED
    BY <1>0, <1>4, <2>2, InputStutter DEF Decides, apiVars
<1>5. ASSUME UNCHANGED <<task, apiVars, memVars>> PROVE InputInv'
  BY <1>0, <1>5, InputStutter, MemoryUnchanged DEF apiVars, memVars
<1> QED
  BY <1>0, <1>1, <1>2, <1>3, <1>4, <1>5, StepsAre, WorkInputs, ResetInputs, RequestInputs, ObjectInputs,
     ClockInputs DEF Passes

\* No cleanup, duplicate delivery, late worker or other request deletes the PDF an
\* extraction still needs.
THEOREM AwsInputsArePresent == Spec => []InputPresent
<1>1. Init => InputInv
  BY InputInvAtFirst DEF Init
<1>2. AwsInv /\ AwsInv' /\ InputInv /\ [Next]_vars => InputInv'
  <2>1. InputInv /\ UNCHANGED vars => InputInv'
    BY DEF InputInv, vars, dbVars, apiVars, memVars, InputPresent, Stored, DeletionsAllowed,
       DeletionOwed, Deletable, UploadsStored, InputsUnshared, InputRemembered, Working
  <2> QED
    BY <2>1, AwsNextInputs DEF AwsInv
<1>3. InputInv => InputPresent
  BY DEF InputInv
<1> QED
  BY <1>1, <1>2, <1>3, AwsInductive, PTL DEF Spec

\* Every step of aws mode leaves every saved resume accounted for.
LEMMA AwsNextAccounts ==
    ASSUME AwsInv, EmbeddingAccounted, Next
    PROVE  EmbeddingAccounted'
<1>0. RowInv
  BY DEF AwsInv
<1>1. ASSUME NEW w \in Workers, ClaimMessage(w) \/ ExhaustMessage(w) PROVE EmbeddingAccounted'
  <2>1. PICK t \in TaskIds : t = cur[w] /\ Claimable(t)
    BY <1>1, ClaimsAreOfTasks
  <2>2. /\ UNCHANGED <<rev, profile, chunks>>
        /\ \/ task' = [task EXCEPT ![t] = ClaimedTask(task[t], w)]
           \/ task' = [task EXCEPT ![t] = ExhaustedTask(task[t])]
    BY <1>1, <2>1 DEF ClaimMessage, TakeTask, ExhaustMessage
  <2> QED
    BY <1>0, <2>1, <2>2, ClaimAccounts
<1>2. UNCHANGED <<rev, profile, chunks, task>> => EmbeddingAccounted'
  BY AccountsStutter
<1>3. ASSUME NEW w \in Workers,
             CompleteSkipped(w) \/ Decides(w) \/ (Reset(w) /\ UNCHANGED <<dbVars, apiVars>>)
      PROVE  UNCHANGED <<rev, profile, chunks, task>>
  BY <1>3 DEF CompleteSkipped, Decides, dbVars
<1>4. ApiDies \/ (\E r \in Refs : UploadFails(r) \/ ObjectAges(r))
         => UNCHANGED <<rev, profile, chunks, task>>
  BY DEF ApiDies, UploadFails, ObjectAges, dbVars
<1>5. Passes => EmbeddingAccounted'
  BY <1>0, ClockAccounts DEF Passes
<1>6. (\E w \in Workers : Work(w)) \/ Request => EmbeddingAccounted'
  BY <1>0, WorkAccounts, RequestAccounts
<1>7. UNCHANGED <<rev, profile, chunks, task, apiVars, memVars>> => UNCHANGED <<rev, profile, chunks, task>>
  OBVIOUS
<1> QED
  BY <1>0, <1>1, <1>2, <1>3, <1>4, <1>5, <1>6, <1>7, StepsAre

\* A saved resume without chunks has an embedding under way or failed, or nothing to embed,
\* whatever SQS loses or repeats.
THEOREM AwsResumesAreAccountedFor == Spec => []EmbeddingAccounted
<1>1. Init => EmbeddingAccounted
  BY DEF Init, DbInit, EmbeddingAccounted
<1>2. AwsInv /\ EmbeddingAccounted /\ [Next]_vars => EmbeddingAccounted'
  <2>1. EmbeddingAccounted /\ UNCHANGED vars => EmbeddingAccounted'
    BY AccountsStutter DEF vars, dbVars
  <2> QED
    BY <2>1, AwsNextAccounts
<1> QED
  BY <1>1, <1>2, AwsInductive, PTL DEF Spec
=============================================================================
