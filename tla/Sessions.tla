------------------------------- MODULE Sessions -------------------------------
(***************************************************************************)
(* app/auth (router.py, dependencies.py, security.py) and app/api/me.py:   *)
(* sign-in, rotation, logout and the two lifetimes of a session.           *)
(*                                                                         *)
(* A request authenticates when it starts and, if it is a domain request,  *)
(* touches its session when it ends; other requests may sign out or rotate *)
(* the session in between.  Two sign-ins of a new Google identity may run  *)
(* at once.  Time is in units of the throttle's minute or finer.  Session  *)
(* rows are removed by logout and rotation only.                           *)
(***************************************************************************)
EXTENDS Integers

CONSTANTS
    Tokens,     \* session tokens, each issued at most once
    Subs,       \* Google subjects
    Reqs,       \* requests under way at a time
    Idle,       \* SESSION_IDLE_LIFETIME
    Absolute,   \* SESSION_ABSOLUTE_LIFETIME
    Throttle,   \* touch_session_activity: at most once in this time
    MaxTime,    \* bound: the clock stops here
    None

ASSUME SessionAssumption ==
    /\ Idle \in Nat /\ Absolute \in Nat /\ Throttle \in Nat /\ MaxTime \in Nat
    /\ Throttle <= Idle
    /\ None \notin Tokens /\ None \notin [sub : Subs, user : Nat, active : Nat, expires : Nat]

VARIABLES
    now,        \* the clock
    users,      \* users[s]: the number of the account, 0 for none
    issued,     \* accounts created so far
    sess,       \* sess[t]: the row of sessions, or None
    req,        \* req[r]: a request, or a sign-in
    dead,       \* history: tokens that were signed out or rotated away
    used        \* history: used[t]: the end of the last domain request of the session

sessionVars == <<now, users, issued, sess, req, dead, used>>

NoReq == [pc |-> "idle", tok |-> None, sub |-> None, user |-> 0, old |-> FALSE, active |-> 0]

SessionInit ==
    /\ now = 0
    /\ users = [s \in Subs |-> 0] /\ issued = 0
    /\ sess = [t \in Tokens |-> None]
    /\ req = [r \in Reqs |-> NoReq]
    /\ dead = {} /\ used = [t \in Tokens |-> 0]

SessionTypeOK ==
    /\ now \in 0 .. MaxTime
    /\ users \in [Subs -> Nat] /\ issued \in Nat
    /\ \A t \in Tokens : sess[t] # None =>
          /\ sess[t].sub \in Subs /\ sess[t].user \in 1 .. issued
          /\ sess[t].active \in 0 .. now /\ sess[t].expires \in 0 .. MaxTime + Absolute
    /\ \A r \in Reqs :
          /\ req[r].pc \in {"idle", "served", "peek", "signing"}
          /\ req[r].tok \in Tokens \cup {None} /\ req[r].sub \in Subs \cup {None}
    /\ dead \subseteq Tokens /\ used \in [Tokens -> 0 .. MaxTime]

Tick ==
    /\ now < MaxTime
    /\ now' = now + 1
    /\ UNCHANGED <<users, issued, sess, req, dead, used>>

Ends(r) == req' = [req EXCEPT ![r] = NoReq]

-----------------------------------------------------------------------------
(* get_current_session_and_user *)

Valid(t) ==
    /\ sess[t] # None
    /\ now < sess[t].expires
    /\ now <= sess[t].active + Idle

\* A domain request, or one that never counts as activity: /me, operation status
Authenticate(r, t) ==
    /\ req[r].pc = "idle" /\ Valid(t)
    /\ \E step \in {"served", "peek"} :
        req' = [req EXCEPT ![r] = [NoReq EXCEPT !.pc = step, !.tok = t, !.active = sess[t].active]]
    /\ UNCHANGED <<now, users, issued, sess, dead, used>>

\* faulty variant: the row is written back even if it is gone
TouchMerges(r) ==
    LET t == req[r].tok
    IN  sess' = [sess EXCEPT ![t] = [sub |-> CHOOSE s \in Subs : TRUE, user |-> 1, active |-> now,
                                     expires |-> now + Absolute]]

\* touch_session_activity with the row as read at the start or as it is now.  The row may
\* be gone: touch_session_activity_by_token returns, the others fail, and nothing is written.
Touch(r) ==
    LET t == req[r].tok
    IN  IF sess[t] = None THEN UNCHANGED sess
        ELSE \E seen \in {req[r].active, sess[t].active} :
                 sess' = IF now - seen >= Throttle THEN [sess EXCEPT ![t].active = now] ELSE sess

EndServed(r) ==
    /\ req[r].pc = "served"
    /\ Touch(r)
    /\ used' = [used EXCEPT ![req[r].tok] = now]
    /\ Ends(r)
    /\ UNCHANGED <<now, users, issued, dead>>

\* faulty variant: every request counts as activity
EndPeekTouches(r) ==
    /\ req[r].pc = "peek" /\ Touch(r) /\ Ends(r)
    /\ UNCHANGED <<now, users, issued, dead, used>>

EndPeek(r) ==
    /\ req[r].pc = "peek" /\ Ends(r)
    /\ UNCHANGED <<now, users, issued, sess, dead, used>>

-----------------------------------------------------------------------------
(* google_exchange, after the nonce and the credential have been verified *)

\* The user is looked up, and the row of the session the browser still has.
StartSignIn(r, s) ==
    /\ req[r].pc = "idle"
    /\ \E t \in Tokens \cup {None} :
        req' = [req EXCEPT ![r] = [NoReq EXCEPT !.pc = "signing", !.sub = s, !.tok = t, !.user = users[s],
                                                !.old = t # None /\ sess[t] # None]]
    /\ UNCHANGED <<now, users, issued, sess, dead, used>>

\* faulty variant: a second account for the identity
SignInInserts(r) == TRUE

\* google_sub is unique: an insert of an identity that has come meanwhile fails.
Insertable(r) == req[r].user = users[req[r].sub]

Account(r) == IF req[r].user = 0 THEN issued + 1 ELSE req[r].user

\* The deletion of a row that another request has already deleted changes nothing.
CommitSignIn(r) ==
    /\ req[r].pc = "signing"
    /\ Insertable(r)
    /\ \E t \in Tokens :
        /\ sess[t] = None /\ t \notin dead /\ t # req[r].tok
        /\ \A q \in Reqs : req[q].tok # t
        /\ LET s == req[r].sub
               account == Account(r)
           IN  /\ users' = [users EXCEPT ![s] = account]
               /\ issued' = IF req[r].user = 0 THEN issued + 1 ELSE issued
               /\ sess' = [u \in Tokens |->
                     IF u = t THEN [sub |-> s, user |-> account, active |-> now, expires |-> now + Absolute]
                     ELSE IF req[r].old /\ u = req[r].tok THEN None ELSE sess[u]]
        /\ used' = [used EXCEPT ![t] = now]
    /\ dead' = IF req[r].old THEN dead \cup {req[r].tok} ELSE dead
    /\ Ends(r)
    /\ UNCHANGED now

FailSignIn(r) ==
    /\ req[r].pc = "signing"
    /\ Ends(r)
    /\ UNCHANGED <<now, users, issued, sess, dead, used>>

\* logout, whether or not the session is still valid
Logout(t) ==
    /\ sess[t] # None
    /\ sess' = [sess EXCEPT ![t] = None] /\ dead' = dead \cup {t}
    /\ UNCHANGED <<now, users, issued, req, used>>

-----------------------------------------------------------------------------
RequestStep(r) ==
    \/ \E t \in Tokens : Authenticate(r, t)
    \/ EndServed(r) \/ EndPeek(r)
    \/ \E s \in Subs : StartSignIn(r, s)
    \/ CommitSignIn(r) \/ FailSignIn(r)

SessionNext == Tick \/ (\E r \in Reqs : RequestStep(r)) \/ (\E t \in Tokens : Logout(t))

SessionSpec == SessionInit /\ [][SessionNext]_sessionVars

-----------------------------------------------------------------------------
(* Properties *)

\* A token that was signed out or rotated away has no session again: a request that was
\* under way when it ended does not bring it back.
SignedOutStaysOut == \A t \in dead : sess[t] = None

\* The idle limit counts from the end of the last domain request: within the limit, less
\* the throttle, a student is never signed out, and past it always, however requests
\* overlap and whatever /me is asked.
IdleCountsFromUse ==
    \A t \in Tokens : sess[t] # None /\ now < sess[t].expires =>
        /\ now - used[t] <= Idle - Throttle => Valid(t)
        /\ now - used[t] > Idle => ~Valid(t)

\* One Google identity has one account: every session is of the account its identity
\* has now, although two first sign-ins may race.
OneAccount == \A t \in Tokens : sess[t] # None => users[sess[t].sub] = sess[t].user
=============================================================================
