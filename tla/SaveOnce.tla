------------------------------- MODULE SaveOnce -------------------------------
(***************************************************************************)
(* What PUT /api/resume promises, without requests, operation rows that    *)
(* expire, privacy checks or answers: a profile with a revision, and for   *)
(* every idempotency key at most one effect, taken on exactly the revision *)
(* the request named and remembered for ever.                              *)
(***************************************************************************)
EXTENDS Integers

CONSTANTS Keys, Contents, None

VARIABLES
    rev,        \* the account's resume revision
    content,    \* the saved profile, or None
    done        \* done[k]: what the key did, or None

vars == <<rev, content, done>>

Init == rev = 0 /\ content = None /\ done = [k \in Keys |-> None]

\* A key that did nothing yet sets the profile; saving what is there keeps the revision.
Save(k) ==
    /\ done[k] = None
    /\ \E c \in Contents :
        /\ content' = c
        /\ rev' = IF c = content THEN rev ELSE rev + 1
        /\ done' = [done EXCEPT ![k] = [exp |-> rev, new |-> c, result |-> rev']]

Delete ==
    /\ content' = None /\ rev' = rev + 1
    /\ UNCHANGED done

Next == Delete \/ \E k \in Keys : Save(k)

Spec == Init /\ [][Next]_vars
=============================================================================
