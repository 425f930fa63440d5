------------------------------- MODULE RowLocks -------------------------------
(***************************************************************************)
(* The row locks of one owner's transactions: app/api/resume.py,           *)
(* processing/tasks.py, outbox.py, local_worker.py, outbox_publisher.py.   *)
(*                                                                         *)
(* A transaction locks rows one after another and keeps them to its end.   *)
(* A lock on a row another one holds is waited for, or, with SKIP LOCKED,  *)
(* not taken.  Every transaction may end early: an early return, an error, *)
(* the lock timeout of db/session.py.  Leases and revisions are TaskStore's*)
(* business; here they only decide which end a transaction comes to.       *)
(***************************************************************************)
EXTENDS Naturals, Sequences, FiniteSets

CONSTANTS
    Txs,        \* transactions under way at a time
    MaxTask,    \* bound: tasks of the owner, in the order of task_id
    Nobody

ASSUME LockAssumption == MaxTask \in Nat /\ Nobody \notin Txs

VARIABLES
    holder,     \* holder[row]: the transaction that has locked it, or Nobody
    tx,         \* tx[x]: what the transaction does, and the rows it has still to lock
    stored      \* stored[t]: absent, live, kept (SUCCEEDED with its result) or over

lockVars == <<holder, tx, stored>>

OwnedTasks == 1 .. MaxTask
UserRow == <<"user", 0>>
TaskRow(t) == <<"task", t>>
EventRow(t) == <<"event", t>>
LockedRows == {UserRow} \cup {<<k, t>> : k \in {"task", "event"}, t \in OwnedTasks}

Wait(row) == [row |-> row, skip |-> FALSE]
SkipLocked(row) == [row |-> row, skip |-> TRUE]

Ended == [op |-> "none", task |-> 0, todo |-> <<>>, listed |-> {}]

LockInit ==
    /\ holder = [row \in LockedRows |-> Nobody]
    /\ tx = [x \in Txs |-> Ended]
    /\ stored \in [OwnedTasks -> {"absent", "live"}]

Free(row) == holder[row] = Nobody
Holds(x, row) == holder[row] = x

\* cancel_owner_tasks: live, or a result is kept
Cancels(t) == stored[t] \in {"live", "kept"}

-----------------------------------------------------------------------------
(* What each transaction locks, in order *)

Enqueue == <<Wait(UserRow)>>
ClaimExhausted(t) == <<SkipLocked(TaskRow(t)), Wait(EventRow(t))>>

\* faulty variant: the task before its owner
CompleteTaskFirst(t) == <<SkipLocked(TaskRow(t)), Wait(UserRow)>>
Complete(t) == <<Wait(UserRow), SkipLocked(TaskRow(t))>>

CompleteStale(t) == Append(Complete(t), Wait(EventRow(t)))
Fail(t) == <<Wait(TaskRow(t)), Wait(EventRow(t))>>
Discard(t) == <<Wait(UserRow), Wait(TaskRow(t)), Wait(EventRow(t))>>

\* ack_outbox and retry_outbox; the update of an event whose task is over
Acknowledge(t) == <<SkipLocked(EventRow(t))>>
CancelEvent(t) == <<Wait(EventRow(t))>>

Begins(x, op, t, locks) ==
    /\ tx[x] = Ended
    /\ tx' = [tx EXCEPT ![x] = [Ended EXCEPT !.op = op, !.task = t, !.todo = locks]]
    /\ UNCHANGED <<holder, stored>>

BeginTx(x) ==
    \/ Begins(x, "enqueue", 0, Enqueue) \/ Begins(x, "delete", 0, <<Wait(UserRow)>>)
    \/ \E t \in OwnedTasks :
        /\ stored[t] # "absent"
        /\ \/ Begins(x, "claim", t, ClaimExhausted(t))
           \/ Begins(x, "complete", t, Complete(t)) \/ Begins(x, "stale", t, CompleteStale(t))
           \/ Begins(x, "fail", t, Fail(t)) \/ Begins(x, "discard", t, Discard(t))
           \/ Begins(x, "event", t, Acknowledge(t)) \/ Begins(x, "event", t, CancelEvent(t))

\* The elements of a set of tasks one after another, in any order
Orders(T) == {order \in [1 .. Cardinality(T) -> T] :
                \A i, j \in 1 .. Cardinality(T) : order[i] = order[j] => i = j}

\* cleanup and claim_outbox_batch take what is free of the rows they select and never wait
\* for them; cleanup then waits for the events of the live tasks.
TakeFree(x) ==
    /\ tx[x] = Ended
    /\ \E T \in (SUBSET OwnedTasks) \ {{}}, k \in {"task", "event"} :
        /\ \A t \in T : Free(<<k, t>>) /\ stored[t] \in {"live", "kept"}
        /\ holder' = [row \in LockedRows |-> IF row[1] = k /\ row[2] \in T THEN x ELSE holder[row]]
        /\ \E order \in Orders(IF k = "task" THEN {t \in T : stored[t] = "live"} ELSE {}) :
            tx' = [tx EXCEPT ![x] = [op |-> IF k = "task" THEN "cleanup" ELSE "publish", task |-> 0, listed |-> T,
                                     todo |-> [i \in DOMAIN order |-> Wait(EventRow(order[i]))]]]
    /\ UNCHANGED stored

-----------------------------------------------------------------------------
(* Locking *)

Lock(x) ==
    /\ tx[x].todo # <<>>
    /\ LET row == Head(tx[x].todo).row
       IN  /\ Free(row) \/ Holds(x, row)
           /\ holder' = [holder EXCEPT ![row] = x]
    /\ tx' = [tx EXCEPT ![x].todo = Tail(@)]
    /\ UNCHANGED stored

\* ORDER BY task_id: the n-th task has n of them, itself included, up to it
Ascending(T) == [n \in 1 .. Cardinality(T) |-> CHOOSE t \in T : Cardinality({s \in T : s <= t}) = n]

InOrder(T, Row(_)) == [n \in 1 .. Cardinality(T) |-> Wait(Row(Ascending(T)[n]))]

\* faulty variant: the owner's tasks are listed with SKIP LOCKED
ListSkipping(t) == Cancels(t) /\ Free(TaskRow(t))
Listed(t) == Cancels(t)

\* delete_resume with the owner locked: the tasks to cancel, in the order of task_id
ListTasks(x) ==
    /\ tx[x].op = "delete" /\ tx[x].todo = <<>> /\ Holds(x, UserRow) /\ tx[x].listed = {}
    /\ LET T == {t \in OwnedTasks : Listed(t)}
       IN  /\ T # {}
           /\ tx' = [tx EXCEPT ![x].listed = T, ![x].todo = InOrder(T, TaskRow)]
    /\ UNCHANGED <<holder, stored>>

\* Then the events of those that are still to be cancelled, now that they are locked
LockEvents(x) ==
    /\ tx[x].op = "delete" /\ tx[x].todo = <<>> /\ tx[x].listed # {}
    /\ tx' = [tx EXCEPT ![x].op = "cancel", ![x].todo = InOrder({t \in tx[x].listed : Cancels(t)}, EventRow)]
    /\ UNCHANGED <<holder, stored>>

-----------------------------------------------------------------------------
(* The end of a transaction *)

Release(x) ==
    /\ holder' = [row \in LockedRows |-> IF holder[row] = x THEN Nobody ELSE holder[row]]
    /\ tx' = [tx EXCEPT ![x] = Ended]

\* Rolled back, or committed without a change that matters here: a claim that has attempts
\* left, a failure that is retried, a row that SKIP LOCKED did not return
EndTx(x) == tx[x] # Ended /\ Release(x) /\ UNCHANGED stored

Deletes(x) == tx[x].op = "cancel" \/ (tx[x].op = "delete" /\ \A t \in OwnedTasks : ~Listed(t))

Commit(x) ==
    LET t == tx[x].task IN
    /\ tx[x].todo = <<>> /\ Release(x)
    /\ \/ /\ tx[x].op = "enqueue"
          /\ \E n \in OwnedTasks : stored[n] = "absent" /\ stored' = [stored EXCEPT ![n] = "live"]
       \/ /\ tx[x].op = "complete" /\ stored[t] = "live"
          /\ \E end \in {"kept", "over"} : stored' = [stored EXCEPT ![t] = end]
       \/ /\ tx[x].op \in {"claim", "stale", "fail"} /\ stored[t] = "live"
          /\ stored' = [stored EXCEPT ![t] = "over"]
       \/ tx[x].op = "discard" /\ stored' = [stored EXCEPT ![t] = "over"]
       \/ /\ Deletes(x) \/ tx[x].op = "cleanup"
          /\ stored' = [n \in OwnedTasks |-> IF n \in tx[x].listed /\ Cancels(n) THEN "over" ELSE stored[n]]

LockNext == \E x \in Txs :
    BeginTx(x) \/ TakeFree(x) \/ Lock(x) \/ ListTasks(x) \/ LockEvents(x) \/ EndTx(x) \/ Commit(x)

LockSpec == LockInit /\ [][LockNext]_lockVars

-----------------------------------------------------------------------------
(* Properties *)

\* x waits for a row y holds
WaitsFor(x, y) ==
    /\ tx[x].todo # <<>> /\ ~Head(tx[x].todo).skip
    /\ x # y /\ Holds(y, Head(tx[x].todo).row)

\* Of any transactions at least one waits for none of the others: completion, deletion,
\* cleanup and the publisher never wait for each other in a circle, which the database
\* would end by failing one of them.
NoWaitCycle ==
    \A S \in (SUBSET Txs) \ {{}} : \E x \in S : \A y \in S : ~WaitsFor(x, y)

\* The deletion of a resume misses no task: when it commits, none of the owner's tasks is
\* live and no result is kept, although claims, failures and cleanups hold some of them
\* while it lists them.
DeletionMissesNothing ==
    [][\A x \in Txs : Deletes(x) /\ Commit(x) => \A t \in OwnedTasks : stored'[t] \in {"absent", "over"}]_lockVars
=============================================================================
