---------------------------- MODULE Overlap_proofs ----------------------------
(***************************************************************************)
(* What overlaps, one kind of it after the other: the requests of a        *)
(* session, the async functions of the resume page, the transactions on    *)
(* the rows of one owner.                                                  *)
(***************************************************************************)
EXTENDS Sessions, ResumeWorkspace, RowLocks,
        WellFoundedInduction, FiniteSetTheorems, SequenceTheorems, TLAPS

-----------------------------------------------------------------------------
(***************************************************************************)
(* Sessions, for any number of tokens, identities and overlapping requests *)
(* and any lifetimes: what was signed out stays out, the idle limit counts *)
(* from the last use, and an identity has one account.                     *)
(*                                                                         *)
(* None of these is inductive.  The idle limit needs ActiveTracksUse: the  *)
(* row lags behind the last use by the throttle at most; and this needs    *)
(* RequestKnows: what a request read of the row when it started is never   *)
(* ahead of the row.  One account per identity needs that numbers of       *)
(* accounts are positive, so that an account cannot be created for an      *)
(* identity that has a session.                                            *)
(***************************************************************************)

SessionRow == [sub : Subs, user : Nat, active : Nat, expires : Nat]

SessionTypes ==
    /\ now \in 0 .. MaxTime
    /\ users \in [Subs -> Nat] /\ issued \in Nat
    /\ sess \in [Tokens -> SessionRow \cup {None}]
    /\ req \in [Reqs -> [pc : {"idle", "served", "peek", "signing"}, tok : Tokens \cup {None},
                         sub : Subs \cup {None}, user : Nat, old : BOOLEAN, active : Nat]]
    /\ dead \subseteq Tokens /\ used \in [Tokens -> 0 .. MaxTime]

\* A row says no more than is so: its account exists, and it was active before now
RowsAreSound ==
    /\ \A s \in Subs : users[s] <= issued
    /\ \A t \in Tokens : sess[t] # None =>
          /\ sess[t].user \in 1 .. issued
          /\ sess[t].active <= now /\ sess[t].expires <= MaxTime + Absolute

\* The row is behind the last use by the throttle at most.
ActiveTracksUse ==
    \A t \in Tokens : sess[t] # None =>
        /\ sess[t].active <= used[t] /\ used[t] <= now
        /\ used[t] <= sess[t].active + Throttle

\* A request has the token or the identity it works for, and what it read of the row is
\* not newer than the row.
RequestKnows(r) ==
    /\ req[r].pc \in {"served", "peek"} =>
          /\ req[r].tok \in Tokens
          /\ sess[req[r].tok] # None => req[r].active <= sess[req[r].tok].active
    /\ req[r].pc = "signing" =>
          /\ req[r].sub \in Subs /\ req[r].user <= issued
          /\ req[r].old => req[r].tok \in Tokens

RequestsKnow == \A r \in Reqs : RequestKnows(r)

SessionInv ==
    /\ SessionTypes /\ RowsAreSound /\ ActiveTracksUse /\ RequestsKnow
    /\ SignedOutStaysOut /\ OneAccount

\* SessionInv holds at first.
LEMMA SessionInitHolds == SessionInit => SessionInv
  BY SessionAssumption DEF SessionInit, SessionInv, SessionTypes, RowsAreSound, ActiveTracksUse,
     RequestsKnow, RequestKnows, SignedOutStaysOut, OneAccount, NoReq

-----------------------------------------------------------------------------
(* The steps that leave the sessions as they are *)

\* Time keeps SessionInv.
LEMMA TickKeeps == SessionInv /\ Tick => SessionInv'
<1> SUFFICES ASSUME SessionInv, Tick PROVE SessionInv'
  OBVIOUS
<1>1. /\ now' = now + 1 /\ now' \in 0 .. MaxTime
      /\ UNCHANGED <<users, issued, sess, req, dead, used>>
  BY SessionAssumption DEF SessionInv, SessionTypes, Tick
<1>2. SessionTypes'
  BY <1>1 DEF SessionInv, SessionTypes
<1>3. now \in Nat /\ \A t \in Tokens : sess[t] # None => sess[t] \in SessionRow /\ used[t] \in Nat
  BY SessionAssumption DEF SessionInv, SessionTypes
<1>4. RowsAreSound'
  BY <1>1, <1>3, SessionAssumption DEF SessionInv, RowsAreSound, SessionRow
<1>5. ActiveTracksUse'
  BY <1>1, <1>3, SessionAssumption DEF SessionInv, ActiveTracksUse, SessionRow
<1>6. RequestsKnow' /\ SignedOutStaysOut' /\ OneAccount'
  BY <1>1 DEF SessionInv, RequestsKnow, RequestKnows, SignedOutStaysOut, OneAccount
<1> QED
  BY <1>2, <1>4, <1>5, <1>6 DEF SessionInv

\* A request that starts, or ends without a write, changes what it knows only.
LEMMA RequestOnly ==
    ASSUME SessionInv, NEW r \in Reqs,
           NEW q \in [pc : {"idle", "served", "peek", "signing"}, tok : Tokens \cup {None},
                      sub : Subs \cup {None}, user : Nat, old : BOOLEAN, active : Nat],
           req' = [req EXCEPT ![r] = q], UNCHANGED <<now, users, issued, sess, dead, used>>,
           q.pc \in {"served", "peek"} =>
              q.tok \in Tokens /\ (sess[q.tok] # None => q.active <= sess[q.tok].active),
           q.pc = "signing" =>
              q.sub \in Subs /\ q.user <= issued /\ (q.old => q.tok \in Tokens)
    PROVE  SessionInv'
<1>1. SessionTypes'
  BY DEF SessionInv, SessionTypes
<1>2. RowsAreSound' /\ ActiveTracksUse' /\ SignedOutStaysOut' /\ OneAccount'
  BY DEF SessionInv, RowsAreSound, ActiveTracksUse, SignedOutStaysOut, OneAccount
<1>3. ASSUME NEW p \in Reqs PROVE RequestKnows(p)'
  BY DEF SessionInv, SessionTypes, RequestsKnow, RequestKnows
<1> QED
  BY <1>1, <1>2, <1>3 DEF SessionInv, RequestsKnow

\* A request that writes no session row keeps SessionInv.
LEMMA QuietRequestKeeps ==
    ASSUME SessionInv, NEW r \in Reqs,
           (\E t \in Tokens : Authenticate(r, t)) \/ EndPeek(r) \/ FailSignIn(r)
              \/ (\E s \in Subs : StartSignIn(r, s))
    PROVE  SessionInv'
<1>1. CASE \E t \in Tokens : Authenticate(r, t)
  <2>1. PICK t \in Tokens : Authenticate(r, t)
    BY <1>1
  <2>2. PICK step \in {"served", "peek"} :
           req' = [req EXCEPT ![r] = [NoReq EXCEPT !.pc = step, !.tok = t, !.active = sess[t].active]]
    BY <2>1 DEF Authenticate
  <2>3. sess[t] \in SessionRow
    BY <2>1 DEF Authenticate, Valid, SessionInv, SessionTypes
  <2>4. sess[t].active \in Nat
    BY <2>3 DEF SessionRow
  <2> DEFINE q == [pc |-> step, tok |-> t, sub |-> None, user |-> 0, old |-> FALSE,
                   active |-> sess[t].active]
  <2>5. req' = [req EXCEPT ![r] = q] /\ UNCHANGED <<now, users, issued, sess, dead, used>>
    BY <2>1, <2>2 DEF Authenticate, NoReq
  <2>6. /\ q \in [pc : {"idle", "served", "peek", "signing"}, tok : Tokens \cup {None},
                  sub : Subs \cup {None}, user : Nat, old : BOOLEAN, active : Nat]
        /\ q.tok \in Tokens /\ q.active = sess[q.tok].active /\ q.pc # "signing"
    BY <2>4
  <2>7. sess[q.tok] # None => q.active <= sess[q.tok].active
    BY <2>4, <2>6
  <2> HIDE DEF q
  <2> QED
    BY <2>5, <2>6, <2>7, RequestOnly
<1>2. CASE EndPeek(r) \/ FailSignIn(r)
  <2>1. req' = [req EXCEPT ![r] = NoReq] /\ UNCHANGED <<now, users, issued, sess, dead, used>>
    BY <1>2 DEF EndPeek, FailSignIn, Ends
  <2> QED
    BY <2>1, RequestOnly DEF NoReq
<1>3. CASE \E s \in Subs : StartSignIn(r, s)
  <2>1. PICK s \in Subs : StartSignIn(r, s)
    BY <1>3
  <2>2. PICK t \in Tokens \cup {None} :
           req' = [req EXCEPT ![r] = [NoReq EXCEPT !.pc = "signing", !.sub = s, !.tok = t,
                                         !.user = users[s], !.old = t # None /\ sess[t] # None]]
    BY <2>1 DEF StartSignIn
  <2>3. users[s] \in Nat /\ users[s] <= issued
    BY DEF SessionInv, SessionTypes, RowsAreSound
  <2> QED
    BY <2>1, <2>2, <2>3, RequestOnly DEF StartSignIn, NoReq
<1> QED
  BY <1>1, <1>2, <1>3

-----------------------------------------------------------------------------
(* The steps that write *)

\* A domain request ends: the row, if it is still there, catches up to within the throttle.
LEMMA EndServedKeeps ==
    ASSUME SessionInv, NEW r \in Reqs, EndServed(r) PROVE SessionInv'
<1> DEFINE t == req[r].tok
<1>1. /\ t \in Tokens /\ req' = [req EXCEPT ![r] = NoReq]
      /\ used' = [used EXCEPT ![t] = now] /\ UNCHANGED <<now, users, issued, dead>>
      /\ sess[t] # None => req[r].active <= sess[t].active
  BY DEF EndServed, Ends, SessionInv, RequestsKnow, RequestKnows
<1>2. /\ now \in 0 .. MaxTime /\ now \in Nat /\ Throttle \in Nat /\ req[r].active \in Nat
      /\ sess \in [Tokens -> SessionRow \cup {None}] /\ used \in [Tokens -> 0 .. MaxTime]
  BY SessionAssumption DEF SessionInv, SessionTypes
<1>3. \A u \in Tokens : sess[u] # None =>
         /\ sess[u] \in SessionRow /\ sess[u].active \in Nat /\ sess[u].active <= now
         /\ sess[u].active <= used[u] /\ used[u] <= now /\ used[u] <= sess[u].active + Throttle
  BY <1>2 DEF SessionRow, SessionInv, RowsAreSound, ActiveTracksUse
<1> HIDE DEF t
<1>4. \/ sess[t] = None /\ sess' = sess
      \/ sess[t] # None /\ sess' = [sess EXCEPT ![t].active = now]
      \/ sess[t] # None /\ sess' = sess /\ now <= sess[t].active + Throttle
  <2>1. CASE sess[t] = None
    BY <2>1 DEF EndServed, Touch, t
  <2>2. CASE sess[t] # None
    <3>1. PICK seen \in {req[r].active, sess[t].active} :
             sess' = IF now - seen >= Throttle THEN [sess EXCEPT ![t].active = now] ELSE sess
      BY <2>2 DEF EndServed, Touch, t
    <3>2. seen \in Nat /\ seen <= sess[t].active /\ sess[t].active \in Nat
      BY <1>1, <1>2, <1>3, <2>2, <3>1
    <3> QED
      BY <1>2, <2>2, <3>1, <3>2
  <2> QED
    BY <2>1, <2>2
<1>5. \A u \in Tokens :
         /\ sess'[u] = None <=> sess[u] = None
         /\ sess[u] # None =>
               /\ sess'[u] \in SessionRow /\ sess'[u].user = sess[u].user /\ sess'[u].sub = sess[u].sub
               /\ sess'[u].expires = sess[u].expires /\ sess[u].active <= sess'[u].active
               /\ sess'[u].active <= now
               /\ sess'[u].active <= used'[u] /\ used'[u] <= now /\ used'[u] <= sess'[u].active + Throttle
  <2> SUFFICES ASSUME NEW u \in Tokens
               PROVE  /\ sess'[u] = None <=> sess[u] = None
                      /\ sess[u] # None =>
                           /\ sess'[u] \in SessionRow /\ sess'[u].user = sess[u].user /\ sess'[u].sub = sess[u].sub
                           /\ sess'[u].expires = sess[u].expires /\ sess[u].active <= sess'[u].active
                           /\ sess'[u].active <= now /\ sess'[u].active <= used'[u] /\ used'[u] <= now
                           /\ used'[u] <= sess'[u].active + Throttle
    OBVIOUS
  <2>1. CASE sess' = [sess EXCEPT ![t].active = now] /\ u = t /\ sess[t] # None
    <3>1. sess'[u] = [sess[u] EXCEPT !.active = now] /\ used'[u] = now
      BY <1>1, <1>2, <2>1
    <3>2. sess[u] \in SessionRow /\ sess[u].active <= now
      BY <1>3, <2>1
    <3>3. /\ sess'[u] \in SessionRow /\ sess'[u].user = sess[u].user /\ sess'[u].sub = sess[u].sub
          /\ sess'[u].expires = sess[u].expires /\ sess'[u].active = now
      BY <1>2, <3>1, <3>2 DEF SessionRow
    <3>4. sess'[u] # None
      BY <3>3, SessionAssumption DEF SessionRow
    <3> QED
      BY <1>2, <2>1, <3>1, <3>2, <3>3, <3>4
  <2>2. CASE u # t
    <3>1. sess'[u] = sess[u] /\ used'[u] = used[u]
      BY <1>1, <1>2, <1>4, <2>2
    <3> QED
      BY <1>3, <3>1
  <2>3. CASE sess' = sess /\ u = t /\ (sess[t] # None => now <= sess[t].active + Throttle)
    <3>1. used'[u] = now
      BY <1>1, <1>2, <2>3
    <3> QED
      BY <1>2, <1>3, <2>3, <3>1
  <2> QED
    BY <1>4, <2>1, <2>2, <2>3
<1>6. SessionTypes'
  BY <1>1, <1>2, <1>4, <1>5 DEF SessionInv, SessionTypes, NoReq
<1>7. RowsAreSound' /\ ActiveTracksUse'
  BY <1>1, <1>5 DEF SessionInv, RowsAreSound, ActiveTracksUse
<1>8. ASSUME NEW q \in Reqs PROVE RequestKnows(q)'
  <2>1. q = r => req'[q] = NoReq
    BY <1>1 DEF SessionInv, SessionTypes
  <2>2. q # r => req'[q] = req[q]
    BY <1>1 DEF SessionInv, SessionTypes
  <2>3. RequestKnows(q) /\ req[q].active \in Nat
    BY DEF SessionInv, RequestsKnow, SessionTypes
  <2>4. CASE q = r
    BY <2>1, <2>4 DEF RequestKnows, NoReq
  <2>5. CASE q # r
    <3>1. req'[q].pc \in {"served", "peek"} =>
             req[q].tok \in Tokens /\ (sess'[req[q].tok] # None => req[q].active <= sess'[req[q].tok].active)
      <4> SUFFICES ASSUME req[q].pc \in {"served", "peek"}
                   PROVE  req[q].tok \in Tokens
                          /\ (sess'[req[q].tok] # None => req[q].active <= sess'[req[q].tok].active)
        BY <2>2, <2>5
      <4>1. /\ req[q].tok \in Tokens
            /\ sess[req[q].tok] # None => req[q].active <= sess[req[q].tok].active
        BY <2>3 DEF RequestKnows
      <4>2. sess'[req[q].tok] # None =>
               /\ sess[req[q].tok].active \in Nat /\ sess'[req[q].tok].active \in Nat
               /\ req[q].active <= sess[req[q].tok].active
               /\ sess[req[q].tok].active <= sess'[req[q].tok].active
        BY <1>3, <1>5, <4>1 DEF SessionRow
      <4> QED
        BY <2>3, <4>1, <4>2
    <3> QED
      BY <1>1, <2>2, <2>3, <2>5, <3>1 DEF RequestKnows
  <2> QED
    BY <2>4, <2>5
<1>9. SignedOutStaysOut' /\ OneAccount'
  BY <1>1, <1>5 DEF SessionInv, SessionTypes, SignedOutStaysOut, OneAccount
<1> QED
  BY <1>6, <1>7, <1>8, <1>9 DEF SessionInv, RequestsKnow

\* A sign-out keeps SessionInv: it deletes the row and remembers the token as out.
LEMMA LogoutKeeps ==
    ASSUME SessionInv, NEW t \in Tokens, Logout(t) PROVE SessionInv'
<1>1. /\ sess' = [sess EXCEPT ![t] = None] /\ dead' = dead \cup {t}
      /\ UNCHANGED <<now, users, issued, req, used>>
  BY DEF Logout
<1>2. SessionTypes'
  BY <1>1 DEF SessionInv, SessionTypes
<1>3. \A u \in Tokens : sess'[u] # None => sess'[u] = sess[u]
  BY <1>1 DEF SessionInv, SessionTypes
<1>4. RowsAreSound' /\ ActiveTracksUse' /\ OneAccount'
  BY <1>1, <1>3 DEF SessionInv, RowsAreSound, ActiveTracksUse, OneAccount
<1>5. RequestsKnow'
  BY <1>1, <1>3 DEF SessionInv, RequestsKnow, RequestKnows
<1>6. SignedOutStaysOut'
  BY <1>1 DEF SessionInv, SessionTypes, SignedOutStaysOut
<1> QED
  BY <1>2, <1>4, <1>5, <1>6 DEF SessionInv

\* A sign-in commits a new row, and takes away the row that the browser had.
LEMMA CommitKeeps ==
    ASSUME SessionInv, NEW r \in Reqs, CommitSignIn(r) PROVE SessionInv'
<1> DEFINE s == req[r].sub
           account == Account(r)
           new == [sub |-> s, user |-> account, active |-> now, expires |-> now + Absolute]
<1>1. PICK t \in Tokens :
         /\ sess[t] = None /\ t \notin dead /\ t # req[r].tok
         /\ \A q \in Reqs : req[q].tok # t
         /\ users' = [users EXCEPT ![s] = account]
         /\ issued' = IF req[r].user = 0 THEN issued + 1 ELSE issued
         /\ sess' = [u \in Tokens |->
               IF u = t THEN new ELSE IF req[r].old /\ u = req[r].tok THEN None ELSE sess[u]]
         /\ used' = [used EXCEPT ![t] = now]
  BY DEF CommitSignIn
<1>2. /\ dead' = IF req[r].old THEN dead \cup {req[r].tok} ELSE dead
      /\ req' = [req EXCEPT ![r] = NoReq] /\ now' = now
      /\ s \in Subs /\ req[r].user = users[s]
      /\ req[r].old => req[r].tok \in Tokens
  BY DEF CommitSignIn, Ends, Insertable, SessionInv, RequestsKnow, RequestKnows
<1>3. /\ users \in [Subs -> Nat] /\ issued \in Nat /\ users[s] \in Nat /\ users[s] <= issued
      /\ \A x \in Subs : users[x] \in Nat /\ users[x] <= issued
      /\ sess \in [Tokens -> SessionRow \cup {None}] /\ now \in 0 .. MaxTime
      /\ used \in [Tokens -> 0 .. MaxTime]
  BY <1>2 DEF SessionInv, SessionTypes, RowsAreSound
<1>4. /\ account \in Nat \ {0} /\ account <= issued' /\ issued' \in Nat /\ issued <= issued'
      /\ users[s] # 0 => account = users[s]
  BY <1>1, <1>2, <1>3 DEF Account
<1>5. /\ new \in SessionRow /\ new # None /\ new.sub = s /\ new.user = account
      /\ new.active = now /\ new.expires = now + Absolute
  BY <1>2, <1>3, <1>4, SessionAssumption DEF SessionRow
<1> HIDE DEF s, account, new
<1>6. /\ sess'[t] = new /\ used'[t] = now
      /\ \A u \in Tokens : u # t /\ sess'[u] # None => sess'[u] = sess[u]
      /\ \A u \in Tokens : u # t => used'[u] = used[u]
  BY <1>1, <1>3
<1>7. SessionTypes'
  BY <1>1, <1>2, <1>3, <1>4, <1>5 DEF SessionInv, SessionTypes, NoReq
<1>8. users'[s] = account /\ \A x \in Subs : x # s => users'[x] = users[x]
  BY <1>1, <1>2, <1>3
<1>9. RowsAreSound'
  <2>1. \A x \in Subs : users'[x] <= issued'
    BY <1>3, <1>4, <1>8
  <2>2. ASSUME NEW u \in Tokens, sess'[u] # None
        PROVE  sess'[u].user \in 1 .. issued' /\ sess'[u].active <= now'
               /\ sess'[u].expires <= MaxTime + Absolute
    <3>1. CASE u = t
      BY <1>2, <1>3, <1>4, <1>5, <1>6, <3>1, SessionAssumption
    <3>2. CASE u # t
      <4>1. sess'[u] = sess[u] /\ sess[u] # None
        BY <1>6, <2>2, <3>2
      <4> QED
        BY <1>2, <1>3, <1>4, <4>1 DEF SessionInv, RowsAreSound
    <3> QED
      BY <3>1, <3>2
  <2> QED
    BY <2>1, <2>2 DEF RowsAreSound
<1>10. ActiveTracksUse'
  BY <1>2, <1>3, <1>5, <1>6, SessionAssumption DEF SessionInv, ActiveTracksUse
<1>11. ASSUME NEW q \in Reqs PROVE RequestKnows(q)'
  <2>1. q = r => req'[q] = NoReq
    BY <1>2 DEF SessionInv, SessionTypes
  <2>2. q # r => req'[q] = req[q]
    BY <1>2 DEF SessionInv, SessionTypes
  <2>3. RequestKnows(q) /\ req[q].tok # t /\ req[q].user \in Nat
    BY <1>1 DEF SessionInv, RequestsKnow, SessionTypes
  <2>4. CASE q = r
    BY <2>1, <2>4 DEF RequestKnows, NoReq
  <2>5. CASE q # r
    BY <1>3, <1>4, <1>6, <2>2, <2>3, <2>5 DEF RequestKnows
  <2> QED
    BY <2>4, <2>5
<1>12. SignedOutStaysOut'
  <2> SUFFICES ASSUME NEW u \in dead' PROVE sess'[u] = None
    BY DEF SignedOutStaysOut
  <2>1. u \in Tokens /\ u # t
    BY <1>1, <1>2 DEF SessionInv, SessionTypes
  <2>2. CASE u \in dead
    BY <1>6, <2>1, <2>2 DEF SessionInv, SignedOutStaysOut
  <2>3. CASE req[r].old /\ u = req[r].tok
    BY <1>1, <2>1, <2>3
  <2> QED
    BY <1>2, <2>2, <2>3
<1>13. OneAccount'
  <2> SUFFICES ASSUME NEW u \in Tokens, sess'[u] # None PROVE users'[sess'[u].sub] = sess'[u].user
    BY DEF OneAccount
  <2>1. CASE u = t
    BY <1>5, <1>6, <1>8, <2>1
  <2>2. CASE u # t
    <3>1. /\ sess'[u] = sess[u] /\ sess[u] # None /\ users[sess[u].sub] = sess[u].user
          /\ sess[u].sub \in Subs /\ sess[u].user # 0
      BY <1>3, <1>6, <2>2 DEF SessionInv, OneAccount, RowsAreSound, SessionRow
    <3> QED
      BY <1>4, <1>8, <3>1
  <2> QED
    BY <2>1, <2>2
<1> QED
  BY <1>7, <1>9, <1>10, <1>11, <1>12, <1>13 DEF SessionInv, RequestsKnow

-----------------------------------------------------------------------------
\* SessionInv is an invariant: what overlapping requests know of the sessions they serve
\* stays behind what the rows say, across sign-ins, sign-outs and touches.
THEOREM SessionsInductive == SessionSpec => []SessionInv
<1>1. SessionInv /\ [SessionNext]_sessionVars => SessionInv'
  <2> SUFFICES ASSUME SessionInv, [SessionNext]_sessionVars PROVE SessionInv'
    OBVIOUS
  <2>1. CASE Tick
    BY <2>1, TickKeeps
  <2>2. CASE \E r \in Reqs : RequestStep(r)
    <3>1. PICK r \in Reqs : RequestStep(r)
      BY <2>2
    <3> QED
      BY <3>1, QuietRequestKeeps, EndServedKeeps, CommitKeeps DEF RequestStep
  <2>3. CASE \E t \in Tokens : Logout(t)
    BY <2>3, LogoutKeeps
  <2>4. CASE UNCHANGED sessionVars
    BY <2>4 DEF sessionVars, SessionInv, SessionTypes, RowsAreSound, ActiveTracksUse,
       RequestsKnow, RequestKnows, SignedOutStaysOut, OneAccount
  <2> QED
    BY <2>1, <2>2, <2>3, <2>4 DEF SessionNext
<1> QED
  BY SessionInitHolds, <1>1, PTL DEF SessionSpec

\* Every session is of an existing account and has not been active later than now.
THEOREM SessionTypeCorrect == SessionSpec => []SessionTypeOK
<1>1. SessionInv => SessionTypeOK
  <2> SUFFICES ASSUME SessionInv PROVE SessionTypeOK
    OBVIOUS
  <2>1. ASSUME NEW t \in Tokens, sess[t] # None
        PROVE  /\ sess[t].sub \in Subs /\ sess[t].user \in 1 .. issued
               /\ sess[t].active \in 0 .. now /\ sess[t].expires \in 0 .. MaxTime + Absolute
    <3>1. sess[t] \in SessionRow
      BY <2>1 DEF SessionInv, SessionTypes
    <3> QED
      BY <2>1, <3>1, SessionAssumption DEF SessionInv, SessionTypes, RowsAreSound, SessionRow
  <2> QED
    BY <2>1 DEF SessionInv, SessionTypes, SessionTypeOK
<1> QED
  BY SessionsInductive, <1>1, PTL

\* A token that was signed out or rotated away has no session again, whatever requests
\* were under way when it ended (logout, google_exchange and touch_session_activity).
THEOREM SignedOutIsFinal == SessionSpec => []SignedOutStaysOut
<1>1. SessionInv => SignedOutStaysOut
  BY DEF SessionInv
<1> QED
  BY SessionsInductive, <1>1, PTL

\* The idle limit counts from the end of the last domain request, to within the throttle
\* of touch_session_activity, however many requests of the session overlap.
THEOREM IdleLimitHolds == SessionSpec => []IdleCountsFromUse
<1>1. SessionInv => IdleCountsFromUse
  <2> SUFFICES ASSUME SessionInv, NEW t \in Tokens, sess[t] # None, now < sess[t].expires
               PROVE  /\ now - used[t] <= Idle - Throttle => Valid(t)
                      /\ now - used[t] > Idle => ~Valid(t)
    BY DEF IdleCountsFromUse
  <2>1. /\ sess[t] \in SessionRow /\ now \in Nat /\ used[t] \in Nat
        /\ sess[t].active <= used[t] /\ used[t] <= sess[t].active + Throttle
    BY SessionAssumption DEF SessionInv, SessionTypes, ActiveTracksUse
  <2> QED
    BY <2>1, SessionAssumption DEF Valid, SessionRow
<1> QED
  BY SessionsInductive, <1>1, PTL

\* One identity has one account, although several first sign-ins of it may race: the
\* unique google_sub fails all but one.
THEOREM IdentityHasOneAccount == SessionSpec => []OneAccount
<1>1. SessionInv => OneAccount
  BY DEF SessionInv
<1> QED
  BY SessionsInductive, <1>1, PTL

-----------------------------------------------------------------------------
(***************************************************************************)
(* The resume page, for any number of uploads, of flows under way and of   *)
(* moves of the student: a late answer leaves the draft under review       *)
(* alone, and a save names the extraction its draft came from.             *)
(*                                                                         *)
(* Both rest on the epochs.  An epoch has one flow at most that loads,     *)
(* uploads, watches or cancels, so none watches once the review is open;   *)
(* one save, check or deletion is under way at a time, and while a save of *)
(* this epoch is, the source it took is kept or forgotten.                 *)
(***************************************************************************)

OrNone == Extractions \cup {0}

Watching == {"reload", "prepare", "monitor"}
Moving == Watching \cup {"cancel"}
Carrying == {"save", "check", "delete"}

Flow == [fn : Watching \cup Carrying \cup {"cancel", "none"}, ep : Nat, task : OrNone,
         step : {"none", "ask", "active", "answer", "sleep"},
         ans : {"none", "live", "done", "over", "task", "nothing", "failed", "auth", "ok", "saved", "expired",
                "conflict", "gone", "review"},
         has : BOOLEAN, done : BOOLEAN]

PageTypes ==
    /\ epoch \in Nat /\ phase \in {"LOADING", "NO_RESUME", "PROFILE", "REVIEW"}
    /\ saving \in BOOLEAN /\ hasProfile \in BOOLEAN
    /\ shownTask \in OrNone /\ source \in OrNone
    /\ draft \in [by : OrNone, edited : BOOLEAN]
    /\ flow \in [Flows -> Flow]
    /\ ext \in [Extractions -> {"none", "live", "done", "over"}]
    /\ onServer \in BOOLEAN

\* Flows that watch or cancel an extraction name it, and only a save gets a draft back.
Named(w) ==
    /\ w.fn \in {"monitor", "cancel"} \/ w.ans = "task" => w.task # 0
    /\ w.ans = "review" => w.fn = "save"

\* No epoch is ahead of the page's, and the page's belongs to one flow that loads, uploads,
\* watches or cancels.
EpochsTaken ==
    /\ \A f \in Flows : flow[f].ep <= epoch
    /\ \A f, g \in Flows :
          /\ Current(f) /\ flow[f].fn \in Moving
          /\ Current(g) /\ flow[g].fn \in Moving
          => f = g

NobodyWatches == \A f \in Flows : Current(f) => flow[f].fn \notin Watching

\* One save, check or deletion at a time, and saving says so
OneCarrier ==
    /\ \A f, g \in Flows : flow[f].fn \in Carrying /\ flow[g].fn \in Carrying => f = g
    /\ \A f \in Flows : flow[f].fn \in Carrying => saving

\* Until the workspace moves on, a save's source is kept or forgotten.
SourceKept == \A f \in Flows : flow[f].fn = "save" /\ Current(f) => source \in {0, flow[f].task} /\ NobodyWatches

PageInv ==
    /\ PageTypes /\ (\A f \in Flows : Named(flow[f]))
    /\ EpochsTaken /\ (phase = "REVIEW" => NobodyWatches)
    /\ OneCarrier /\ SourceKept

-----------------------------------------------------------------------------
(* What steps do to flows *)

\* A flow goes on as what it is, from a function that watches to another one, or ends.
Stays(f) ==
    \/ flow'[f] = NoFlow
    \/ /\ flow'[f].ep = flow[f].ep
       /\ flow'[f].fn = flow[f].fn \/ (flow[f].fn \in Watching /\ flow'[f].fn \in Watching)
       /\ flow[f].fn = "save" => flow'[f].task = flow[f].task

\* A flow that is not running is in no class of functions.
LEMMA NoFlowShape ==
    NoFlow \in Flow /\ NoFlow.fn = "none" /\ NoFlow.ep = 0 /\ Named(NoFlow)
    /\ "none" \notin Moving /\ "none" \notin Carrying /\ "none" \notin Watching /\ "save" \notin Watching
  BY DEF NoFlow, Flow, Named, OrNone, Moving, Watching, Carrying

\* Steps within an epoch
LEMMA GoesOn ==
    ASSUME PageInv, PageTypes', \A f \in Flows : Named(flow'[f]), UNCHANGED epoch,
           \A f \in Flows : Stays(f),
           phase' = "REVIEW" => phase = "REVIEW" \/ NobodyWatches',
           \A f \in Flows : flow'[f].fn \in Carrying => saving',
           source' \in {0, source} \/ ~NobodyWatches
    PROVE  PageInv'
<1>1. /\ \A f \in Flows : flow[f] \in Flow /\ flow'[f] \in Flow /\ flow[f].ep \in Nat /\ flow'[f].ep \in Nat
      /\ epoch \in Nat /\ EpochsTaken /\ OneCarrier /\ SourceKept
  BY DEF PageInv, PageTypes, Flow
<1>2. ASSUME NEW f \in Flows
      PROVE  /\ flow'[f].ep <= epoch'
             /\ flow'[f].fn \in Moving => flow[f].fn \in Moving /\ flow'[f].ep = flow[f].ep
             /\ flow'[f].fn \in Watching => flow[f].fn \in Watching /\ flow'[f].ep = flow[f].ep
             /\ flow'[f].fn \in Carrying => flow[f].fn = flow'[f].fn /\ flow'[f].ep = flow[f].ep
             /\ flow'[f].fn = "save" => flow'[f].task = flow[f].task
  BY <1>1, NoFlowShape DEF Stays, EpochsTaken, Moving, Watching, Carrying
<1>3. EpochsTaken'
  BY <1>1, <1>2 DEF EpochsTaken, Current, Moving
<1>4. NobodyWatches => NobodyWatches'
  BY <1>2 DEF NobodyWatches, Current
<1>5. OneCarrier'
  BY <1>1, <1>2 DEF OneCarrier
<1>6. SourceKept'
  BY <1>1, <1>2, <1>4 DEF SourceKept, Current, Carrying
<1> QED
  BY <1>3, <1>4, <1>5, <1>6 DEF PageInv

\* Steps that move the workspace on, with at most one new flow
LEMMA MovesOn ==
    ASSUME PageInv, PageTypes', \A f \in Flows : Named(flow'[f]), epoch' = epoch + 1,
           NEW n, \A f \in Flows : \/ flow'[f] = flow[f] \/ flow'[f] = NoFlow
                                   \/ /\ f = n /\ flow'[f].ep = epoch' /\ flow'[f].fn \in Moving
                                      /\ flow'[f].fn \in Watching => phase' # "REVIEW",
           \A f \in Flows : flow'[f].fn \in Carrying => saving'
    PROVE  PageInv'
<1>1. /\ \A f \in Flows : flow[f] \in Flow /\ flow'[f] \in Flow /\ flow[f].ep \in Nat /\ flow'[f].ep \in Nat
      /\ epoch \in Nat /\ epoch' \in Nat /\ epoch < epoch' /\ EpochsTaken /\ OneCarrier
  BY DEF PageInv, PageTypes, Flow
<1>2. Moving \cap Carrying = {} /\ Watching \subseteq Moving
  BY DEF Moving, Carrying, Watching
<1>3. ASSUME NEW f \in Flows
      PROVE  /\ flow'[f].ep <= epoch'
             /\ Current(f)' => f = n /\ flow'[f].fn \in Moving /\ (flow'[f].fn \in Watching => phase' # "REVIEW")
             /\ flow'[f].fn \in Carrying => flow[f].fn = flow'[f].fn
  <2>1. CASE flow'[f] = flow[f]
    <3>1. flow[f].ep <= epoch
      BY <1>1 DEF EpochsTaken
    <3>2. flow'[f].ep < epoch'
      BY <1>1, <2>1, <3>1
    <3> QED
      BY <1>1, <2>1, <3>2 DEF Current
  <2>2. CASE flow'[f] = NoFlow
    BY <1>1, <2>2, NoFlowShape DEF Current
  <2>3. CASE /\ f = n /\ flow'[f].ep = epoch' /\ flow'[f].fn \in Moving
             /\ flow'[f].fn \in Watching => phase' # "REVIEW"
    BY <1>1, <1>2, <2>3
  <2> QED
    BY <2>1, <2>2, <2>3
<1>4. EpochsTaken' /\ OneCarrier'
  BY <1>1, <1>3 DEF EpochsTaken, OneCarrier
<1>5. phase' = "REVIEW" => NobodyWatches'
  BY <1>3 DEF NobodyWatches
<1>6. SourceKept'
  BY <1>2, <1>3 DEF SourceKept, Carrying
<1> QED
  BY <1>4, <1>5, <1>6 DEF PageInv

\* A save, check or deletion begins while none is under way; a save from the review.
LEMMA Carries ==
    ASSUME PageInv, PageTypes', UNCHANGED <<epoch, phase, source>>, ~saving, saving',
           NEW f \in Flows, \A g \in Flows \ {f} : flow'[g] = flow[g],
           Named(flow'[f]), flow'[f].ep = epoch, flow'[f].fn \in Carrying,
           flow'[f].fn = "save" => phase = "REVIEW" /\ flow'[f].task = source
    PROVE  PageInv'
<1>1. /\ \A g \in Flows : flow[g] \in Flow /\ flow'[g] \in Flow /\ flow[g].ep \in Nat /\ flow'[g].ep \in Nat
      /\ epoch \in Nat /\ EpochsTaken /\ OneCarrier /\ SourceKept /\ \A g \in Flows : Named(flow'[g])
  BY DEF PageInv, PageTypes, Flow
<1>2. Moving \cap Carrying = {} /\ Watching \subseteq Moving /\ "save" \in Carrying
  BY DEF Moving, Carrying, Watching
<1>3. \A g \in Flows : flow[g].fn \notin Carrying
  BY <1>1 DEF OneCarrier
<1>4. EpochsTaken'
  BY <1>1, <1>2 DEF EpochsTaken, Current, Moving
<1>5. NobodyWatches => NobodyWatches'
  BY <1>2 DEF NobodyWatches, Current
<1>6. OneCarrier'
  BY <1>1, <1>3 DEF OneCarrier
<1>7. SourceKept'
  BY <1>2, <1>3, <1>5 DEF SourceKept, PageInv
<1> QED
  BY <1>1, <1>4, <1>5, <1>6, <1>7 DEF PageInv

\* A flow's next shape, with the others as they are
LEMMA Turns ==
    ASSUME PageInv, NEW f \in Flows, NEW new \in Flow, Named(new), flow' = [flow EXCEPT ![f] = new]
    PROVE  /\ flow' \in [Flows -> Flow] /\ flow'[f] = new /\ \A g \in Flows \ {f} : flow'[g] = flow[g]
           /\ \A g \in Flows : Named(flow'[g])
  BY DEF PageInv, PageTypes

\* A function that returns leaves the other flows alone.
LEMMA OverTurns ==
    ASSUME PageInv, NEW f \in Flows, Over(f)
    PROVE  /\ flow' \in [Flows -> Flow] /\ flow'[f] = NoFlow /\ \A g \in Flows \ {f} : flow'[g] = flow[g]
           /\ \A g \in Flows : Named(flow'[g]) /\ Stays(g) /\ (flow'[g] = flow[g] \/ flow'[g] = NoFlow)
  BY Turns, NoFlowShape DEF Over, Stays

\* An answer that arrives at the page leaves every flow its function and epoch.
LEMMA AnswerTurns ==
    ASSUME PageInv, NEW f \in Flows,
           NEW a \in {"none", "live", "done", "over", "nothing", "failed", "auth", "ok", "saved", "expired",
                      "conflict", "gone", "review"},
           a = "review" => flow[f].fn = "save", Answers(f, a)
    PROVE  /\ flow' \in [Flows -> Flow]
           /\ \A g \in Flows : Named(flow'[g]) /\ Stays(g) /\ flow'[g].fn = flow[g].fn
<1> DEFINE new == [flow[f] EXCEPT !.step = "answer", !.ans = a]
<1>1. flow[f] \in Flow /\ Named(flow[f]) /\ flow \in [Flows -> Flow]
  BY DEF PageInv, PageTypes
<1>2. /\ new \in Flow /\ new.fn = flow[f].fn /\ new.ep = flow[f].ep /\ new.task = flow[f].task /\ new.ans = a
  BY <1>1 DEF Flow
<1>3. Named(new)
  BY <1>1, <1>2 DEF Named
<1>4. flow' = [flow EXCEPT ![f] = new]
  BY <1>1 DEF Answers
<1> HIDE DEF new
<1>5. /\ flow' \in [Flows -> Flow] /\ flow'[f] = new /\ \A g \in Flows \ {f} : flow'[g] = flow[g]
      /\ \A g \in Flows : Named(flow'[g])
  BY <1>2, <1>3, <1>4, Turns
<1> QED
  BY <1>2, <1>5 DEF Stays

\* A function that begins takes a free flow, with its epoch and its task.
LEMMA BeginTurns ==
    ASSUME PageInv, NEW f \in Flows, NEW fn \in Watching \cup Carrying \cup {"cancel"}, fn # "monitor",
           NEW ep \in Nat, NEW t \in OrNone, fn = "cancel" => t # 0, Begin(f, fn, ep, t)
    PROVE  /\ flow' \in [Flows -> Flow] /\ \A g \in Flows \ {f} : flow'[g] = flow[g]
           /\ \A g \in Flows : Named(flow'[g])
           /\ flow'[f].fn = fn /\ flow'[f].ep = ep /\ flow'[f].task = t
           /\ flow[f] = NoFlow
<1> DEFINE new == [NoFlow EXCEPT !.fn = fn, !.ep = ep, !.task = t, !.step = "ask", !.has = hasProfile]
<1>1. hasProfile \in BOOLEAN /\ NoFlow \in Flow /\ NoFlow.ans = "none"
  BY NoFlowShape DEF PageInv, PageTypes, NoFlow
<1>2. /\ new \in Flow /\ new.fn = fn /\ new.ep = ep /\ new.task = t /\ new.ans = "none"
  BY <1>1 DEF Flow
<1>3. flow' = [flow EXCEPT ![f] = new] /\ flow[f] = NoFlow
  BY DEF Begin
<1> HIDE DEF new
<1>4. Named(new)
  BY <1>2 DEF Named
<1> QED
  BY <1>2, <1>3, <1>4, Turns

-----------------------------------------------------------------------------
(* The server *)

\* An upload that is superseded keeps the extractions' type.
LEMMA OutdatesTypes ==
    ASSUME PageInv, Outdates
    PROVE  ext' \in [Extractions -> {"none", "live", "done", "over"}]
  BY DEF PageInv, PageTypes, Outdates

\* Whatever the server does, a flow at most hears an answer.
LEMMA ServeTurns ==
    ASSUME PageInv, Serve
    PROVE  /\ flow' \in [Flows -> Flow]
           /\ \A g \in Flows : Named(flow'[g]) /\ Stays(g) /\ flow'[g].fn = flow[g].fn
           /\ ext' \in [Extractions -> {"none", "live", "done", "over"}] /\ onServer' \in BOOLEAN
<1>1. /\ flow \in [Flows -> Flow] /\ \A f \in Flows : Named(flow[f]) /\ flow[f] \in Flow
      /\ ext \in [Extractions -> {"none", "live", "done", "over"}] /\ onServer \in BOOLEAN
  BY DEF PageInv, PageTypes
<1> DEFINE Turned == /\ flow' \in [Flows -> Flow]
                      /\ \A g \in Flows : Named(flow'[g]) /\ Stays(g) /\ flow'[g].fn = flow[g].fn
           ExtOK == ext' \in [Extractions -> {"none", "live", "done", "over"}]
<1>2. ASSUME UNCHANGED flow PROVE Turned
  BY <1>1, <1>2 DEF Stays
<1>3. ASSUME NEW f \in Flows, NEW a, Answers(f, a),
             a \in {"none", "live", "done", "over", "nothing", "failed", "auth", "ok", "saved", "expired",
                   "conflict", "gone", "review"},
             a = "review" => flow[f].fn = "save"
      PROVE  Turned
  BY <1>3, AnswerTurns
<1>4. ASSUME NEW f \in Flows, NEW new \in Flow, Named(new), flow' = [flow EXCEPT ![f] = new],
             new.fn = flow[f].fn, new.ep = flow[f].ep, flow[f].fn # "save"
      PROVE  Turned
  BY <1>1, <1>4, Turns DEF Stays
<1>5. ASSUME UNCHANGED worldVars PROVE ExtOK /\ onServer' \in BOOLEAN
  BY <1>1, <1>5 DEF worldVars
<1>6. ASSUME NEW f \in Flows, ServeReload(f) PROVE Turned
  <2>1. CASE Runs(f, "reload", "ask") /\ flow' = [flow EXCEPT ![f].step = "active", ![f].has = onServer]
    <3> DEFINE new == [flow[f] EXCEPT !.step = "active", !.has = onServer]
    <3>1. /\ new \in Flow /\ new.fn = flow[f].fn /\ new.ep = flow[f].ep /\ new.task = flow[f].task
          /\ new.ans = flow[f].ans
      BY <1>1 DEF Flow
    <3>2. flow' = [flow EXCEPT ![f] = new] /\ flow[f].fn # "save"
      BY <1>1, <2>1 DEF Runs
    <3> HIDE DEF new
    <3>3. Named(new)
      BY <1>1, <3>1 DEF Named
    <3> QED
      BY <1>4, <3>1, <3>2, <3>3
  <2>2. ASSUME Runs(f, "reload", "active"), NEW t \in Active,
               flow' = [flow EXCEPT ![f].step = "answer", ![f].ans = "task", ![f].task = t, ![f].done = ext[t] = "done"]
        PROVE  Turned
    <3> DEFINE new == [flow[f] EXCEPT !.step = "answer", !.ans = "task", !.task = t, !.done = ext[t] = "done"]
    <3>0. t \in OrNone /\ t # 0 /\ (ext[t] = "done") \in BOOLEAN
      BY DEF Active, OrNone, Extractions
    <3>1. new \in Flow /\ new.fn = flow[f].fn /\ new.ep = flow[f].ep /\ new.task = t /\ new.ans = "task"
      BY <1>1, <3>0 DEF Flow
    <3>2. flow' = [flow EXCEPT ![f] = new] /\ flow[f].fn # "save"
      BY <1>1, <2>2 DEF Runs
    <3> HIDE DEF new
    <3>3. Named(new)
      BY <3>0, <3>1 DEF Named
    <3> QED
      BY <1>4, <3>1, <3>2, <3>3
  <2> QED
    BY <1>3, <1>6, <2>1, <2>2 DEF ServeReload
<1>7. ASSUME NEW f \in Flows, ServePrepare(f) PROVE Turned /\ ExtOK
  <2>1. ASSUME NEW t \in Extractions, Runs(f, "prepare", "ask"),
               flow' = [flow EXCEPT ![f].step = "answer", ![f].ans = "task", ![f].task = t]
        PROVE  Turned
    <3> DEFINE new == [flow[f] EXCEPT !.step = "answer", !.ans = "task", !.task = t]
    <3>0. t \in OrNone /\ t # 0
      BY DEF OrNone, Extractions
    <3>1. new \in Flow /\ new.fn = flow[f].fn /\ new.ep = flow[f].ep /\ new.task = t /\ new.ans = "task"
      BY <1>1, <3>0 DEF Flow
    <3>2. flow' = [flow EXCEPT ![f] = new] /\ flow[f].fn # "save"
      BY <1>1, <2>1 DEF Runs
    <3> HIDE DEF new
    <3>3. Named(new)
      BY <3>0, <3>1 DEF Named
    <3> QED
      BY <1>4, <3>1, <3>2, <3>3
  <2>2. Turned
    BY <1>3, <1>7, <2>1 DEF ServePrepare
  <2>3. ExtOK
    BY <1>1, <1>7 DEF ServePrepare
  <2> QED
    BY <2>2, <2>3
<1>8. ASSUME NEW f \in Flows, ServeCancel(f) PROVE Turned /\ ExtOK
  <2>1. Turned
    BY <1>3, <1>8 DEF ServeCancel
  <2>2. ExtOK
    BY <1>1, <1>8 DEF ServeCancel
  <2> QED
    BY <2>1, <2>2
<1>9. ASSUME NEW f \in Flows, ServeMonitor(f) PROVE Turned
  <2>1. flow[f].task \in Extractions
    BY <1>1, <1>9 DEF ServeMonitor, Runs, Named, Flow, OrNone
  <2> QED
    BY <1>1, <1>3, <1>9, <2>1 DEF ServeMonitor
<1>10. ASSUME NEW f \in Flows, ServeCheck(f) PROVE Turned
  BY <1>3, <1>10 DEF ServeCheck
<1>11. ASSUME NEW f \in Flows, ServeSave(f) \/ ServeDelete(f) PROVE Turned /\ ExtOK /\ onServer' \in BOOLEAN
  <2> HIDE DEF Turned
  <2>1. Turned
    <3>1. CASE ServeSave(f)
      <4>1. /\ flow[f].fn = "save"
            /\ \E a \in {"saved", "failed", "expired", "conflict", "gone", "review"} : Answers(f, a)
        BY <3>1 DEF ServeSave, Runs
      <4> QED
        BY <1>3, <4>1
    <3>2. CASE ServeDelete(f)
      <4>1. \E a \in {"ok", "failed", "conflict"} : Answers(f, a)
        BY <3>2 DEF ServeDelete
      <4> QED
        BY <1>3, <4>1
    <3> QED
      BY <1>11, <3>1, <3>2
  <2>2. ExtOK /\ onServer' \in BOOLEAN
    <3> HIDE DEF ExtOK
    <3>1. Outdates => ExtOK
      BY OutdatesTypes DEF ExtOK
    <3> QED
      BY <1>5, <1>11, <3>1 DEF ServeSave, ServeDelete
  <2> QED
    BY <2>1, <2>2
<1>12. ASSUME ServerMoves PROVE Turned /\ ExtOK /\ onServer' \in BOOLEAN
  <2>1. Turned
    BY <1>2, <1>12 DEF ServerMoves
  <2>2. ExtOK /\ onServer' \in BOOLEAN
    BY <1>1, <1>12, OutdatesTypes DEF ServerMoves
  <2> QED
    BY <2>1, <2>2
<1>13. onServer' = onServer => onServer' \in BOOLEAN
  BY <1>1
<1> HIDE DEF Turned, ExtOK
<1>14. Turned /\ ExtOK /\ onServer' \in BOOLEAN
  BY <1>5, <1>6, <1>7, <1>8, <1>9, <1>10, <1>11, <1>12, <1>13 DEF Serve
<1> QED
  BY <1>14 DEF Turned, ExtOK

\* What the server does keeps PageInv.
LEMMA ServeKeeps == ASSUME PageInv, Serve PROVE PageInv'
<1>1. UNCHANGED <<epoch, viewVars, reviewVars>>
  BY DEF Serve
<1>2. PageTypes'
  BY <1>1, ServeTurns DEF PageInv, PageTypes, viewVars, reviewVars
<1>3. \A f \in Flows : flow'[f].fn \in Carrying => saving'
  BY <1>1, ServeTurns DEF PageInv, OneCarrier, viewVars
<1> QED
  BY <1>1, <1>2, <1>3, ServeTurns, GoesOn DEF reviewVars

-----------------------------------------------------------------------------
(* Answers arrive *)

\* A flow that carries a write of the student has done so since saving was set.
LEMMA CarriersStay ==
    ASSUME PageInv, NEW g \in Flows, Stays(g), flow'[g].fn \in Carrying
    PROVE  saving /\ flow[g].fn \in Carrying
  BY NoFlowShape DEF PageInv, OneCarrier, Stays, Watching, Carrying

\* A current flow that watches is the only one; when it ends nobody watches.
LEMMA LastWatcher ==
    ASSUME PageInv, NEW f \in Flows, Current(f), flow[f].fn \in Watching, UNCHANGED epoch,
           flow'[f] = NoFlow, \A g \in Flows \ {f} : flow'[g] = flow[g]
    PROVE  NobodyWatches' /\ ~NobodyWatches
<1>1. \A g \in Flows : Current(g) /\ flow[g].fn \in Watching => g = f
  BY DEF PageInv, EpochsTaken, Moving
<1> QED
  BY <1>1, NoFlowShape DEF NobodyWatches, Current

\* From asking for a task to watching it
LEMMA WatchTurns ==
    ASSUME PageInv, NEW f \in Flows, flow[f].fn \in Watching, Ans(f) = "task",
           flow' = [flow EXCEPT ![f] = [@ EXCEPT !.fn = "monitor", !.step = "sleep", !.ans = "none"]]
    PROVE  /\ flow' \in [Flows -> Flow]
           /\ \A g \in Flows : Named(flow'[g]) /\ Stays(g)
<1> DEFINE new == [flow[f] EXCEPT !.fn = "monitor", !.step = "sleep", !.ans = "none"]
<1>1. flow[f] \in Flow /\ Named(flow[f]) /\ flow \in [Flows -> Flow]
  BY DEF PageInv, PageTypes
<1>2. new \in Flow /\ new.fn = "monitor" /\ new.ep = flow[f].ep /\ new.task = flow[f].task /\ new.ans = "none"
  BY <1>1 DEF Flow, Watching
<1>3. flow' = [flow EXCEPT ![f] = new]
  BY <1>1
<1> HIDE DEF new
<1>4. Named(new)
  BY <1>1, <1>2 DEF Named, Ans
<1>5. /\ flow' \in [Flows -> Flow] /\ flow'[f] = new /\ \A g \in Flows \ {f} : flow'[g] = flow[g]
      /\ \A g \in Flows : Named(flow'[g])
  BY <1>2, <1>3, <1>4, Turns
<1> QED
  BY <1>2, <1>5 DEF Stays, Watching

\* A watcher sleeps or asks again.
LEMMA StepTurns ==
    ASSUME PageInv, NEW f \in Flows, flow[f].fn = "monitor",
           NEW step \in {"ask", "sleep"}, NEW ans \in {"none", Ans(f)}, 
           flow' = [flow EXCEPT ![f].step = step, ![f].ans = ans]
    PROVE  /\ flow' \in [Flows -> Flow]
           /\ \A g \in Flows : Named(flow'[g]) /\ Stays(g)
<1> DEFINE new == [flow[f] EXCEPT !.step = step, !.ans = ans]
<1>1. flow[f] \in Flow /\ Named(flow[f]) /\ flow \in [Flows -> Flow]
  BY DEF PageInv, PageTypes
<1>2. /\ new \in Flow /\ new.fn = flow[f].fn /\ new.ep = flow[f].ep /\ new.task = flow[f].task
      /\ new.ans \in {"none", flow[f].ans}
  BY <1>1 DEF Flow, Ans
<1>3. flow' = [flow EXCEPT ![f] = new]
  BY <1>1
<1> HIDE DEF new
<1>4. Named(new)
  BY <1>1, <1>2 DEF Named
<1>5. /\ flow' \in [Flows -> Flow] /\ flow'[f] = new /\ \A g \in Flows \ {f} : flow'[g] = flow[g]
      /\ \A g \in Flows : Named(flow'[g])
  BY <1>2, <1>3, <1>4, Turns
<1> QED
  BY <1>2, <1>5 DEF Stays

\* A load, a resumed watch or a poll keeps PageInv, however late its answer is.
LEMMA BackgroundKeeps ==
    ASSUME PageInv, NEW f \in Flows, Background(f) PROVE PageInv'
<1>1. /\ PageTypes /\ flow \in [Flows -> Flow] /\ flow[f] \in Flow
      /\ flow[f].task \in OrNone /\ flow[f].has \in BOOLEAN
  BY DEF PageInv, PageTypes, Flow
<1>2. "REVIEW" \in {"LOADING", "NO_RESUME", "PROFILE", "REVIEW"} /\ 0 \in OrNone
      /\ \A t \in OrNone : Filled(t) \in [by : OrNone, edited : BOOLEAN]
  BY DEF OrNone, Filled
<1>3. CASE ReloadArrives(f)
  <2>1. /\ Current(f) /\ flow[f].fn \in Watching /\ UNCHANGED <<epoch, saving, worldVars>>
        /\ hasProfile' = flow[f].has /\ shownTask' = flow[f].task
    BY <1>3 DEF ReloadArrives, Heard, Runs, Watching
  <2>2. CASE flow[f].done /\ Review(flow[f].task) /\ Over(f)
    <3>1. PageTypes'
      BY <1>1, <1>2, <2>1, <2>2, OverTurns DEF PageTypes, Review, worldVars
    <3>2. NobodyWatches' /\ ~NobodyWatches
      BY <2>1, <2>2, OverTurns, LastWatcher
    <3> QED
      BY <2>1, <2>2, <3>1, <3>2, OverTurns, CarriersStay, GoesOn
  <2>3. CASE /\ Ans(f) = "task" /\ phase' = IF flow[f].has THEN "PROFILE" ELSE "NO_RESUME"
             /\ flow' = [flow EXCEPT ![f] = [@ EXCEPT !.fn = "monitor", !.step = "sleep", !.ans = "none"]]
             /\ UNCHANGED <<source, draft>>
    <3>1. flow' \in [Flows -> Flow] /\ \A g \in Flows : Named(flow'[g]) /\ Stays(g)
      BY <2>1, <2>3, WatchTurns
    <3>2. PageTypes'
      BY <1>1, <2>1, <2>3, <3>1 DEF PageTypes, worldVars
    <3> QED
      BY <2>1, <2>3, <3>1, <3>2, CarriersStay, GoesOn
  <2>4. CASE /\ phase' = IF flow[f].has THEN "PROFILE" ELSE "NO_RESUME"
             /\ Over(f) /\ UNCHANGED <<source, draft>>
    <3>1. PageTypes'
      BY <1>1, <2>1, <2>4, OverTurns DEF PageTypes, worldVars
    <3> QED
      BY <2>1, <2>4, <3>1, OverTurns, CarriersStay, GoesOn
  <2> QED
    BY <1>3, <2>2, <2>3, <2>4 DEF ReloadArrives
<1>4. CASE ReloadFails(f)
  <2>1. /\ phase' = "NO_RESUME" /\ Over(f)
        /\ UNCHANGED <<epoch, saving, hasProfile, shownTask, source, draft, worldVars>>
    BY <1>4 DEF ReloadFails
  <2>2. PageTypes'
    BY <1>1, <2>1, OverTurns DEF PageTypes, worldVars
  <2> QED
    BY <2>1, <2>2, OverTurns, CarriersStay, GoesOn
<1>5. CASE PrepareArrives(f)
  <2>1. /\ UNCHANGED <<epoch, saving, hasProfile, shownTask, reviewVars, worldVars>>
        /\ flow[f].fn \in Watching
    BY <1>5 DEF PrepareArrives, Heard, Runs, Watching
  <2>2. flow' \in [Flows -> Flow] /\ \A g \in Flows : Named(flow'[g]) /\ Stays(g)
    BY <1>5, <2>1, WatchTurns, OverTurns DEF PrepareArrives
  <2>3. PageTypes'
    BY <1>1, <2>1, <2>2 DEF PageTypes, reviewVars, worldVars
  <2> QED
    BY <2>1, <2>2, <2>3, CarriersStay, GoesOn DEF reviewVars
<1>6. CASE MonitorWakes(f)
  <2>1. UNCHANGED <<epoch, saving, hasProfile, shownTask, reviewVars, worldVars>> /\ flow[f].fn = "monitor"
    BY <1>6 DEF MonitorWakes, Runs
  <2>2. flow' \in [Flows -> Flow] /\ \A g \in Flows : Named(flow'[g]) /\ Stays(g)
    <3>1. CASE flow' = [flow EXCEPT ![f].step = "ask"]
      <4>1. flow' = [flow EXCEPT ![f].step = "ask", ![f].ans = Ans(f)]
        BY <1>1, <3>1 DEF Flow, Ans
      <4> QED
        BY <2>1, <4>1, StepTurns
    <3> QED
      BY <1>6, <3>1, OverTurns DEF MonitorWakes
  <2>3. PageTypes'
    BY <1>1, <2>1, <2>2 DEF PageTypes, reviewVars, worldVars
  <2> QED
    BY <2>1, <2>2, <2>3, CarriersStay, GoesOn DEF reviewVars
<1>7. CASE MonitorFails(f)
  <2>1. /\ Over(f) /\ UNCHANGED <<saving, hasProfile, shownTask, reviewVars, worldVars>>
        /\ epoch' = epoch \/ epoch' = epoch + 1
    BY <1>7 DEF MonitorFails
  <2>2. PageTypes'
    BY <1>1, <2>1, OverTurns DEF PageTypes, reviewVars, worldVars
  <2>3. CASE epoch' = epoch
    BY <2>1, <2>2, <2>3, OverTurns, CarriersStay, GoesOn DEF reviewVars
  <2>4. CASE epoch' = epoch + 1
    BY <2>1, <2>2, <2>4, OverTurns, CarriersStay, MovesOn
  <2> QED
    BY <2>1, <2>3, <2>4
<1>8. CASE MonitorArrives(f)
  <2>1. /\ flow[f].fn = "monitor" /\ Current(f) /\ shownTask' = flow[f].task
        /\ UNCHANGED <<epoch, saving, hasProfile, worldVars>>
    BY <1>8 DEF MonitorArrives, Heard, Runs, Watched
  <2>2. CASE Review(flow[f].task) /\ Over(f)
    <3>1. PageTypes'
      BY <1>1, <1>2, <2>1, <2>2, OverTurns DEF PageTypes, Review, worldVars
    <3>2. NobodyWatches' /\ ~NobodyWatches
      BY <2>1, <2>2, OverTurns, LastWatcher DEF Watching
    <3> QED
      BY <2>1, <2>2, <3>1, <3>2, OverTurns, CarriersStay, GoesOn
  <2>3. CASE UNCHANGED reviewVars /\ (Over(f) \/ flow' = [flow EXCEPT ![f].step = "sleep", ![f].ans = "none"])
    <3>1. flow' \in [Flows -> Flow] /\ \A g \in Flows : Named(flow'[g]) /\ Stays(g)
      BY <2>1, <2>3, StepTurns, OverTurns
    <3>2. PageTypes'
      BY <1>1, <2>1, <2>3, <3>1 DEF PageTypes, reviewVars, worldVars
    <3> QED
      BY <2>1, <2>3, <3>1, <3>2, CarriersStay, GoesOn DEF reviewVars
  <2> QED
    BY <1>8, <2>2, <2>3 DEF MonitorArrives
<1>9. CASE TooLate(f)
  <2>1. Over(f) /\ UNCHANGED <<epoch, viewVars, reviewVars, worldVars>>
    BY <1>9 DEF TooLate
  <2>2. PageTypes'
    BY <1>1, <2>1, OverTurns DEF PageTypes, viewVars, reviewVars, worldVars
  <2> QED
    BY <2>1, <2>2, OverTurns, CarriersStay, GoesOn DEF reviewVars, viewVars
<1> QED
  BY <1>3, <1>4, <1>5, <1>6, <1>7, <1>8, <1>9 DEF Background

\* The only save, check or deletion ends.
LEMMA CarrierEnds ==
    ASSUME PageInv, NEW f \in Flows, flow[f].fn \in Carrying, flow'[f].fn \notin Carrying,
           \A g \in Flows \ {f} : flow'[g] = flow[g]
    PROVE  \A g \in Flows : flow'[g].fn \notin Carrying
  BY DEF PageInv, OneCarrier

\* So does the answer to a discard,
LEMMA CancelKeeps ==
    ASSUME PageInv, NEW f \in Flows, CancelArrives(f) PROVE PageInv'
<1>1. PageTypes /\ flow[f] \in Flow /\ 0 \in OrNone /\ Filled(0) \in [by : OrNone, edited : BOOLEAN]
  BY DEF PageInv, PageTypes, OrNone, Filled
<1>2. Over(f) /\ UNCHANGED epoch /\ (CancelDone(flow[f].has) \/ UNCHANGED <<viewVars, reviewVars, worldVars>>)
  BY DEF CancelArrives
<1>3. /\ UNCHANGED <<saving, hasProfile, worldVars>> /\ shownTask' \in {0, shownTask} /\ source' \in {0, source}
      /\ draft' \in {Filled(0), draft} /\ phase' \in {phase, "PROFILE", "NO_RESUME"}
  BY <1>2 DEF CancelDone, viewVars, reviewVars, worldVars
<1>4. PageTypes'
  BY <1>1, <1>2, <1>3, OverTurns DEF PageTypes, worldVars
<1> QED
  BY <1>2, <1>3, <1>4, OverTurns, CarriersStay, GoesOn

\* the answer to a save,
LEMMA SaveKeeps ==
    ASSUME PageInv, NEW f \in Flows, SaveArrives(f) PROVE PageInv'
<1>1. /\ PageTypes /\ flow[f].task \in OrNone
      /\ 0 \in OrNone /\ \A t \in OrNone : Filled(t) \in [by : OrNone, edited : BOOLEAN]
  BY DEF PageInv, PageTypes, Flow, OrNone, Filled
<1>2. flow[f].fn \in Carrying /\ saving' = FALSE /\ Over(f) /\ UNCHANGED <<epoch, shownTask, worldVars>>
  BY DEF SaveArrives, Carrying
<1>3. hasProfile' \in BOOLEAN
  BY <1>1 DEF SaveArrives, PageTypes
<1>4. phase' \in {phase, "PROFILE", "NO_RESUME"} /\ source' \in {0, source}
  BY DEF SaveArrives
<1>5. draft' \in {draft, Filled(flow[f].task)}
  BY DEF SaveArrives
<1>6. PageTypes'
  BY <1>1, <1>2, <1>3, <1>4, <1>5, OverTurns DEF PageTypes, worldVars
<1>7. \A g \in Flows : flow'[g].fn \notin Carrying
  BY <1>2, OverTurns, NoFlowShape, CarrierEnds
<1> QED
  BY <1>2, <1>4, <1>6, <1>7, OverTurns, GoesOn

\* and the answer to a deletion.
LEMMA DeleteKeeps ==
    ASSUME PageInv, NEW f \in Flows, DeleteArrives(f) PROVE PageInv'
<1>1. /\ PageTypes /\ epoch \in Nat /\ 0 \in OrNone /\ Filled(0) \in [by : OrNone, edited : BOOLEAN]
      /\ flow \in [Flows -> Flow]
  BY DEF PageInv, PageTypes, OrNone, Filled
<1>2. flow[f].fn \in Carrying /\ saving' = FALSE /\ UNCHANGED <<shownTask, worldVars>>
  BY DEF DeleteArrives, Carrying, Heard, Runs
<1>3. CASE Over(f) /\ UNCHANGED epoch
  <2>1. hasProfile' \in BOOLEAN /\ draft' \in {draft, Filled(0)} /\ source' \in {0, source}
        /\ phase' \in {phase, "NO_RESUME"}
    <3>1. ~(epoch' = epoch + 1)
      BY <1>1, <1>3
    <3> QED
      BY <1>1, <3>1 DEF DeleteArrives, PageTypes
  <2>2. PageTypes'
    BY <1>1, <1>2, <1>3, <2>1, OverTurns DEF PageTypes, worldVars
  <2>3. \A g \in Flows : flow'[g].fn \notin Carrying
    BY <1>2, <1>3, OverTurns, NoFlowShape, CarrierEnds
  <2> QED
    BY <1>3, <2>1, <2>2, <2>3, OverTurns, GoesOn
<1>4. CASE /\ epoch' = epoch + 1 /\ phase' = "LOADING" /\ UNCHANGED <<hasProfile, draft, source>>
           /\ flow' = [flow EXCEPT ![f] = [NoFlow EXCEPT !.fn = "reload", !.ep = epoch', !.step = "ask"]]
  <2> DEFINE new == [NoFlow EXCEPT !.fn = "reload", !.ep = epoch', !.step = "ask"]
  <2>1. epoch' \in Nat /\ NoFlow \in Flow /\ NoFlow.ans = "none"
    BY <1>1, <1>4, NoFlowShape DEF NoFlow
  <2>2. new \in Flow /\ new.fn = "reload" /\ new.ep = epoch' /\ new.ans = "none"
    BY <2>1 DEF Flow, Watching
  <2>3. flow' = [flow EXCEPT ![f] = new]
    BY <1>4
  <2> HIDE DEF new
  <2>4. Named(new)
    BY <2>2 DEF Named
  <2>5. /\ flow' \in [Flows -> Flow] /\ flow'[f] = new /\ \A g \in Flows \ {f} : flow'[g] = flow[g]
        /\ \A g \in Flows : Named(flow'[g])
    BY <2>2, <2>3, <2>4, Turns
  <2>6. PageTypes'
    BY <1>1, <1>2, <1>4, <2>1, <2>5 DEF PageTypes, worldVars
  <2>7. new.fn \in Moving /\ new.fn \notin Carrying
    BY <2>2 DEF Moving, Watching, Carrying
  <2>8. \A g \in Flows : flow'[g].fn \notin Carrying
    BY <1>2, <2>5, <2>7, CarrierEnds
  <2>9. \A g \in Flows : \/ flow'[g] = flow[g] \/ flow'[g] = NoFlow
                         \/ /\ g = f /\ flow'[g].ep = epoch' /\ flow'[g].fn \in Moving
                            /\ flow'[g].fn \in Watching => phase' # "REVIEW"
    BY <1>4, <2>2, <2>5, <2>7
  <2> QED
    BY <1>4, <2>5, <2>6, <2>8, <2>9, MovesOn
<1> QED
  BY <1>3, <1>4 DEF DeleteArrives

-----------------------------------------------------------------------------
(* The student *)

\* A move of the student, with one new flow that watches or cancels
LEMMA NewWatch ==
    ASSUME PageInv, NewEpoch, NEW f \in Flows, NEW fn \in {"reload", "prepare", "cancel"}, NEW t \in OrNone,
           fn = "cancel" => t # 0, fn # "cancel" => phase' # "REVIEW",
           Begin(f, fn, epoch', t), UNCHANGED saving, flow' \in [Flows -> Flow] => PageTypes'
    PROVE  PageInv'
<1>1. epoch \in Nat /\ epoch' = epoch + 1 /\ epoch' \in Nat
  BY DEF PageInv, PageTypes, NewEpoch
<1>2. fn \in Watching \cup Carrying \cup {"cancel"} /\ fn # "monitor" /\ fn \in Moving /\ fn \notin Carrying
  BY DEF Watching, Carrying, Moving
<1>3. /\ flow' \in [Flows -> Flow] /\ \A g \in Flows \ {f} : flow'[g] = flow[g]
      /\ \A g \in Flows : Named(flow'[g])
      /\ flow'[f].fn = fn /\ flow'[f].ep = epoch'
  BY <1>1, <1>2, BeginTurns
<1>4. \A g \in Flows : flow'[g].fn \in Carrying => saving'
  BY <1>2, <1>3 DEF PageInv, OneCarrier
<1>5. \A g \in Flows : \/ flow'[g] = flow[g] \/ flow'[g] = NoFlow
                       \/ /\ g = f /\ flow'[g].ep = epoch' /\ flow'[g].fn \in Moving
                          /\ flow'[g].fn \in Watching => phase' # "REVIEW"
  BY <1>2, <1>3 DEF Watching
<1> QED
  BY <1>1, <1>3, <1>4, <1>5, MovesOn

\* A move of the student that starts nothing
LEMMA NewPhase ==
    ASSUME PageInv, NewEpoch, UNCHANGED <<flow, saving>>, PageTypes'
    PROVE  PageInv'
<1>1. epoch' = epoch + 1 /\ (\A g \in Flows : Named(flow'[g])) /\ \A g \in Flows : flow'[g] = flow[g]
  BY DEF PageInv, NewEpoch
<1>2. \A g \in Flows : flow'[g].fn \in Carrying => saving'
  BY DEF PageInv, OneCarrier
<1> QED
  BY <1>1, <1>2, MovesOn

\* A save, check or deletion the student starts
LEMMA NewCarrier ==
    ASSUME PageInv, UNCHANGED <<epoch, phase, source>>, ~saving, saving',
           NEW f \in Flows, NEW fn \in Carrying, NEW t \in OrNone,
           fn = "save" => phase = "REVIEW" /\ t = source,
           Begin(f, fn, epoch, t), flow' \in [Flows -> Flow] => PageTypes'
    PROVE  PageInv'
<1>1. epoch \in Nat /\ fn \in Watching \cup Carrying \cup {"cancel"} /\ fn # "monitor" /\ fn # "cancel"
  BY DEF PageInv, PageTypes, Carrying
<1>2. /\ flow' \in [Flows -> Flow] /\ \A g \in Flows \ {f} : flow'[g] = flow[g]
      /\ \A g \in Flows : Named(flow'[g])
      /\ flow'[f].fn = fn /\ flow'[f].ep = epoch /\ flow'[f].task = t
  BY <1>1, BeginTurns
<1> QED
  BY <1>2, Carries

\* Nothing under way is touched.
LEMMA NoTurn ==
    ASSUME PageInv, UNCHANGED <<epoch, saving, phase, flow>>, source' \in {0, source}, PageTypes'
    PROVE  PageInv'
<1>1. \A g \in Flows : Named(flow'[g]) /\ Stays(g)
  BY DEF PageInv, Stays
<1>2. \A g \in Flows : flow'[g].fn \in Carrying => saving'
  BY DEF PageInv, OneCarrier
<1> QED
  BY <1>1, <1>2, GoesOn

\* What the student does on the page keeps PageInv.
LEMMA StudentKeeps == ASSUME PageInv, StudentActs PROVE PageInv'
<1>1. /\ PageTypes /\ epoch \in Nat /\ source \in OrNone /\ shownTask \in OrNone /\ hasProfile \in BOOLEAN
      /\ draft \in [by : OrNone, edited : BOOLEAN] /\ flow \in [Flows -> Flow]
      /\ 0 \in OrNone /\ \A t \in OrNone : Filled(t) \in [by : OrNone, edited : BOOLEAN]
  BY DEF PageInv, PageTypes, OrNone, Filled
<1>2. NewEpoch => epoch' \in Nat
  BY <1>1 DEF NewEpoch
<1>3. ASSUME Reload PROVE PageInv'
  <2>1. PICK f \in Flows : Begin(f, "reload", epoch', 0)
    BY <1>3 DEF Reload
  <2>2. NewEpoch /\ phase' = "LOADING" /\ UNCHANGED <<saving, hasProfile, shownTask, source, draft, worldVars>>
    BY <1>3 DEF Reload
  <2>3. flow' \in [Flows -> Flow] => PageTypes'
    BY <1>1, <1>2, <2>2 DEF PageTypes, worldVars
  <2> QED
    BY <1>1, <2>1, <2>2, <2>3, NewWatch
<1>4. ASSUME ChooseFile PROVE PageInv'
  <2>1. NewEpoch /\ UNCHANGED <<saving, hasProfile, shownTask, reviewVars, flow, worldVars>>
    BY <1>4 DEF ChooseFile
  <2>2. PageTypes'
    BY <1>1, <1>2, <2>1 DEF PageTypes, reviewVars, worldVars
  <2> QED
    BY <2>1, <2>2, NewPhase
<1>5. ASSUME Prepare PROVE PageInv'
  <2>1. PICK f \in Flows : Begin(f, "prepare", epoch', 0)
    BY <1>5 DEF Prepare
  <2>2. NewEpoch /\ phase' # "REVIEW" /\ UNCHANGED <<saving, hasProfile, shownTask, reviewVars, worldVars>>
    BY <1>5 DEF Prepare, Panel, reviewVars
  <2>3. flow' \in [Flows -> Flow] => PageTypes'
    BY <1>1, <1>2, <2>2 DEF PageTypes, reviewVars, worldVars
  <2> QED
    BY <1>1, <2>1, <2>2, <2>3, NewWatch
<1>6. ASSUME StartManualEntry \/ EditSavedProfile PROVE PageInv'
  <2>1. /\ NewEpoch /\ phase' = "REVIEW" /\ source' = 0 /\ draft' = Filled(0)
        /\ UNCHANGED <<viewVars, flow, worldVars>>
    BY <1>6 DEF StartManualEntry, EditSavedProfile
  <2>2. PageTypes'
    BY <1>1, <1>2, <2>1 DEF PageTypes, viewVars, worldVars
  <2> QED
    BY <2>1, <2>2, NewPhase DEF viewVars
<1>7. ASSUME Edit PROVE PageInv'
  <2>1. /\ draft' = [draft EXCEPT !.edited = TRUE] /\ UNCHANGED <<epoch, viewVars, phase, source, flow, worldVars>>
    BY <1>7 DEF Edit
  <2>2. PageTypes'
    BY <1>1, <2>1 DEF PageTypes, viewVars, worldVars
  <2> QED
    BY <2>1, <2>2, NoTurn DEF viewVars
<1>8. ASSUME CancelReview PROVE PageInv'
  <2> DEFINE t == IF source # 0 THEN source ELSE shownTask
  <2>1. t \in OrNone /\ NewEpoch
    BY <1>1, <1>8 DEF CancelReview
  <2>2. CASE t # 0 /\ (\E f \in Flows : Begin(f, "cancel", epoch', t)) /\ UNCHANGED <<viewVars, reviewVars, worldVars>>
    <3>1. PICK f \in Flows : Begin(f, "cancel", epoch', t)
      BY <2>2
    <3>2. flow' \in [Flows -> Flow] => PageTypes'
      BY <1>1, <1>2, <2>1, <2>2 DEF PageTypes, viewVars, reviewVars, worldVars
    <3>3. UNCHANGED saving
      BY <2>2 DEF viewVars
    <3> HIDE DEF t
    <3> QED
      BY <2>1, <2>2, <3>1, <3>2, <3>3, NewWatch
  <2>3. CASE CancelDone(hasProfile) /\ UNCHANGED flow
    <3>1. PageTypes'
      BY <1>1, <1>2, <2>1, <2>3 DEF PageTypes, CancelDone, worldVars
    <3>2. UNCHANGED saving
      BY <2>3 DEF CancelDone
    <3> QED
      BY <2>1, <2>3, <3>1, <3>2, NewPhase
  <2> QED
    BY <1>8, <2>2, <2>3 DEF CancelReview
<1>9. ASSUME ConfirmSave PROVE PageInv'
  <2>1. PICK f \in Flows : Begin(f, "save", epoch, source)
    BY <1>9 DEF ConfirmSave
  <2>2. /\ phase = "REVIEW" /\ ~saving /\ saving' = TRUE
        /\ UNCHANGED <<epoch, phase, source, draft, hasProfile, shownTask, worldVars>>
    BY <1>9 DEF ConfirmSave, Reviewing, reviewVars
  <2>3. flow' \in [Flows -> Flow] => PageTypes'
    BY <1>1, <2>2 DEF PageTypes, worldVars
  <2>4. "save" \in Carrying
    BY DEF Carrying
  <2> QED
    BY <1>1, <2>1, <2>2, <2>3, <2>4, NewCarrier
<1>10. ASSUME CheckSaveStatus PROVE PageInv'
  <2>1. PICK f \in Flows : Begin(f, "check", epoch, 0)
    BY <1>10 DEF CheckSaveStatus
  <2>2. /\ ~saving /\ saving' = TRUE
        /\ UNCHANGED <<epoch, phase, source, draft, hasProfile, shownTask, worldVars>>
    BY <1>10 DEF CheckSaveStatus, reviewVars
  <2>3. flow' \in [Flows -> Flow] => PageTypes'
    BY <1>1, <2>2 DEF PageTypes, worldVars
  <2>4. "check" \in Carrying
    BY DEF Carrying
  <2> QED
    BY <1>1, <2>1, <2>2, <2>3, <2>4, NewCarrier
<1>11. ASSUME DeleteProfile PROVE PageInv'
  <2>1. PICK f \in Flows : Begin(f, "delete", epoch, 0)
    BY <1>11 DEF DeleteProfile
  <2>2. /\ ~saving /\ saving' = TRUE
        /\ UNCHANGED <<epoch, phase, source, draft, hasProfile, shownTask, worldVars>>
    BY <1>11 DEF DeleteProfile, Panel, reviewVars
  <2>3. flow' \in [Flows -> Flow] => PageTypes'
    BY <1>1, <2>2 DEF PageTypes, worldVars
  <2>4. "delete" \in Carrying
    BY DEF Carrying
  <2> QED
    BY <1>1, <2>1, <2>2, <2>3, <2>4, NewCarrier
<1>12. ASSUME ResolveConflict PROVE PageInv'
  <2>1. /\ hasProfile' \in BOOLEAN /\ source' = 0 /\ draft' \in {draft, Filled(0)}
        /\ UNCHANGED <<epoch, saving, phase, shownTask, flow, worldVars>>
    BY <1>12 DEF ResolveConflict, ForgetsSource
  <2>2. PageTypes'
    BY <1>1, <2>1 DEF PageTypes, worldVars
  <2> QED
    BY <2>1, <2>2, NoTurn
<1> QED
  BY <1>3, <1>4, <1>5, <1>6, <1>7, <1>8, <1>9, <1>10, <1>11, <1>12 DEF StudentActs

-----------------------------------------------------------------------------
(* The theorems *)

\* PageInv holds at first.
LEMMA PageStarts == WorkspaceInit => PageInv
<1> SUFFICES ASSUME WorkspaceInit PROVE PageInv
  OBVIOUS
<1> DEFINE new == [NoFlow EXCEPT !.fn = "reload", !.ep = 1, !.step = "ask"]
<1>1. PICK f \in Flows : flow = [g \in Flows |-> IF g = f THEN new ELSE NoFlow]
  BY DEF WorkspaceInit
<1>2. NoFlow \in Flow /\ NoFlow.ans = "none"
  BY NoFlowShape DEF NoFlow
<1>3. new \in Flow /\ new.fn = "reload" /\ new.ep = 1 /\ new.ans = "none"
  BY <1>2 DEF Flow, Watching
<1> HIDE DEF new
<1>4. \A g \in Flows : flow[g] \in Flow /\ Named(flow[g]) /\ (g = f \/ flow[g] = NoFlow)
  BY <1>1, <1>2, <1>3, NoFlowShape DEF Named
<1>5. /\ epoch = 1 /\ phase = "LOADING" /\ saving = FALSE /\ hasProfile = FALSE /\ shownTask = 0 /\ source = 0
      /\ draft = Filled(0) /\ ext = [t \in Extractions |-> "none"] /\ onServer \in BOOLEAN
  BY DEF WorkspaceInit
<1>6. 0 \in OrNone /\ Filled(0) \in [by : OrNone, edited : BOOLEAN]
  BY DEF OrNone, Filled
<1>7. PageTypes
  BY <1>1, <1>4, <1>5, <1>6 DEF PageTypes
<1>8. \A g \in Flows : flow[g].fn \notin Carrying /\ flow[g].ep <= 1
  BY <1>1, <1>3, <1>4, NoFlowShape DEF Carrying
<1>9. EpochsTaken
  BY <1>4, <1>5, <1>8, NoFlowShape DEF EpochsTaken, Moving, Current
<1>10. OneCarrier /\ SourceKept
  BY <1>8 DEF OneCarrier, SourceKept, Carrying
<1> QED
  BY <1>4, <1>5, <1>7, <1>9, <1>10 DEF PageInv

\* Every step of the page and the server keeps PageInv.
LEMMA PageKeeps == PageInv /\ [WorkspaceNext]_workspaceVars => PageInv'
<1> SUFFICES ASSUME PageInv, [WorkspaceNext]_workspaceVars PROVE PageInv'
  OBVIOUS
<1>1. CASE UNCHANGED workspaceVars
  <2>1. PageTypes'
    BY <1>1 DEF PageInv, PageTypes, workspaceVars, viewVars, reviewVars, worldVars
  <2> QED
    BY <1>1, <2>1, NoTurn DEF workspaceVars, viewVars, reviewVars
<1> QED
  BY <1>1, ServeKeeps, StudentKeeps, BackgroundKeeps, CancelKeeps, SaveKeeps, DeleteKeeps DEF WorkspaceNext

\* Every epoch of the page has one flow at most that loads, uploads, watches or cancels, a save
\* keeps its source until the page moves on, and nothing watches while a draft is reviewed.
THEOREM PageInductive == WorkspaceSpec => []PageInv
<1> QED
  BY PageStarts, PageKeeps, PTL DEF WorkspaceSpec

\* A late answer of reload, prepare or monitorExtraction neither replaces the draft under review
\* nor takes it away.
THEOREM ReviewStaysTheStudents == WorkspaceSpec => ReviewIsTheStudents
<1>1. ASSUME PageInv, phase = "REVIEW", NEW f \in Flows, Background(f) PROVE UNCHANGED reviewVars
  <2>1. ~(Current(f) /\ flow[f].fn \in Watching)
    BY <1>1 DEF PageInv, NobodyWatches
  <2>2. ~ReloadArrives(f) /\ ~ReloadFails(f) /\ ~MonitorArrives(f)
    BY <2>1 DEF ReloadArrives, ReloadFails, MonitorArrives, Heard, Runs, Watched, Watching
  <2> QED
    BY <1>1, <2>2 DEF Background, PrepareArrives, MonitorWakes, MonitorFails, TooLate
<1>2. PageInv => (phase = "REVIEW" /\ (\E f \in Flows : Background(f)) => UNCHANGED reviewVars)
  BY <1>1
<1> QED
  BY <1>2, PageInductive, PTL DEF ReviewIsTheStudents

\* Where the draft comes from
DraftNamed == source # 0 => draft.by = source
SavesNamed ==
    \A f \in Flows : flow[f].fn = "save" /\ Current(f) /\ flow[f].task # 0 /\ phase = "REVIEW" =>
       draft.by = flow[f].task

\* Saves stay named when no new one begins and the draft is the same.
LEMMA SavesStayNamed ==
    ASSUME SavesNamed, UNCHANGED <<epoch, phase, draft>>,
           \A f \in Flows : flow'[f].fn = "save" =>
              flow[f].fn = "save" /\ flow'[f].ep = flow[f].ep /\ flow'[f].task = flow[f].task
    PROVE  SavesNamed'
  BY DEF SavesNamed, Current

\* Nothing has to be said of a save of an earlier epoch, or when nothing is under review.
LEMMA NoSaveIsNamed ==
    ASSUME \A f \in Flows : flow'[f].fn = "save" => ~Current(f)' \/ phase' # "REVIEW"
    PROVE  SavesNamed'
  BY DEF SavesNamed

\* A save that stays keeps its epoch and its task.
LEMMA StaysSave ==
    ASSUME NEW f \in Flows, Stays(f), flow'[f].fn = "save"
    PROVE  flow[f].fn = "save" /\ flow'[f].ep = flow[f].ep /\ flow'[f].task = flow[f].task
  BY NoFlowShape DEF Stays, Watching

\* A save that is under way when the page moves on is of an earlier epoch.
LEMMA OlderSaves ==
    ASSUME PageInv, epoch' = epoch + 1,
           \A f \in Flows : flow'[f].fn = "save" => flow'[f].ep = flow[f].ep
    PROVE  SavesNamed'
<1>1. ASSUME NEW f \in Flows, flow'[f].fn = "save" PROVE ~Current(f)'
  <2>1. flow[f].ep <= epoch /\ flow[f].ep \in Nat /\ epoch \in Nat /\ flow'[f].ep = flow[f].ep
    BY <1>1 DEF PageInv, PageTypes, EpochsTaken, Flow
  <2> QED
    BY <2>1 DEF Current
<1> QED
  BY <1>1, NoSaveIsNamed

\* A function other than save() that begins leaves the saves alone.
LEMMA BeginsSave ==
    ASSUME PageInv, NEW f \in Flows, NEW fn \in Watching \cup Carrying \cup {"cancel"}, fn # "monitor", fn # "save",
           NEW ep \in Nat, NEW t \in OrNone, fn = "cancel" => t # 0, Begin(f, fn, ep, t)
    PROVE  \A g \in Flows : flow'[g].fn = "save" =>
              flow[g].fn = "save" /\ flow'[g].ep = flow[g].ep /\ flow'[g].task = flow[g].task
  BY BeginTurns

\* Loads, resumed watches and polls keep the names of draft and saves.
LEMMA BackgroundNames ==
    ASSUME PageInv, DraftNamed, SavesNamed, NEW f \in Flows, Background(f)
    PROVE  DraftNamed' /\ SavesNamed'
<1>1. flow \in [Flows -> Flow]
  BY DEF PageInv, PageTypes
<1>2. \A g \in Flows \ {f} : flow'[g] = flow[g]
  BY <1>1 DEF Background, ReloadArrives, ReloadFails, PrepareArrives, MonitorWakes, MonitorFails, MonitorArrives,
              TooLate, Over
<1>3. flow'[f].fn # "save"
  <2>1. flow[f].fn # "save"
    BY DEF Background, ReloadArrives, ReloadFails, PrepareArrives, MonitorWakes, MonitorFails, MonitorArrives,
           TooLate, Heard, Runs
  <2>2. flow'[f] = NoFlow \/ flow'[f].fn \in {flow[f].fn, "monitor"}
    <3> DEFINE Turned == flow'[f] = NoFlow \/ flow'[f].fn \in {flow[f].fn, "monitor"}
    <3>1. flow[f] \in Flow
      BY DEF PageInv, PageTypes
    <3>2. Over(f) => Turned
      BY <1>1 DEF Over
    <3>3. flow' = [flow EXCEPT ![f] = [@ EXCEPT !.fn = "monitor", !.step = "sleep", !.ans = "none"]] => Turned
      BY <1>1, <3>1 DEF Flow
    <3>4. flow' = [flow EXCEPT ![f].step = "ask"] => Turned
      BY <1>1, <3>1 DEF Flow
    <3>5. flow' = [flow EXCEPT ![f].step = "sleep", ![f].ans = "none"] => Turned
      BY <1>1, <3>1 DEF Flow
    <3> HIDE DEF Turned
    <3>6. Turned
      BY <3>2, <3>3, <3>4, <3>5
         DEF Background, ReloadArrives, ReloadFails, PrepareArrives, MonitorWakes, MonitorFails, MonitorArrives, TooLate
    <3> QED
      BY <3>6 DEF Turned
  <2> QED
    BY <2>1, <2>2, NoFlowShape
<1>4. CASE UNCHANGED <<epoch, reviewVars>>
  BY <1>2, <1>3, <1>4, SavesStayNamed DEF DraftNamed, reviewVars
<1>5. CASE epoch' = epoch + 1 /\ UNCHANGED reviewVars
  BY <1>2, <1>3, <1>5, OlderSaves DEF DraftNamed, reviewVars
<1>6. CASE phase' # "REVIEW" /\ UNCHANGED <<source, draft>>
  BY <1>6, NoSaveIsNamed DEF DraftNamed
<1>7. CASE UNCHANGED epoch /\ Current(f) /\ flow[f].fn \in Watching /\ Review(flow[f].task)
  <2>1. \A g \in Flows : flow[g].fn = "save" => ~Current(g)
    BY <1>7 DEF PageInv, SourceKept, NobodyWatches
  <2>2. SavesNamed'
    BY <1>2, <1>3, <1>7, <2>1, NoSaveIsNamed DEF Current
  <2> QED
    BY <1>7, <2>2 DEF DraftNamed, Review, Filled
<1>8. ReloadArrives(f) => \/ UNCHANGED epoch /\ Current(f) /\ flow[f].fn \in Watching /\ Review(flow[f].task)
                          \/ phase' # "REVIEW" /\ UNCHANGED <<source, draft>>
  BY DEF ReloadArrives, Heard, Runs, Watching
<1>9. MonitorArrives(f) => \/ UNCHANGED epoch /\ Current(f) /\ flow[f].fn \in Watching /\ Review(flow[f].task)
                           \/ UNCHANGED <<epoch, reviewVars>>
  BY DEF MonitorArrives, Heard, Runs, Watched, Watching
<1>10. ReloadFails(f) => phase' # "REVIEW" /\ UNCHANGED <<source, draft>>
  BY DEF ReloadFails
<1>11. PrepareArrives(f) \/ MonitorWakes(f) \/ TooLate(f) => UNCHANGED <<epoch, reviewVars>>
  BY DEF PrepareArrives, MonitorWakes, TooLate
<1>12. MonitorFails(f) => UNCHANGED reviewVars /\ (epoch' = epoch \/ epoch' = epoch + 1)
  BY DEF MonitorFails
<1> QED
  BY <1>4, <1>5, <1>6, <1>7, <1>8, <1>9, <1>10, <1>11, <1>12 DEF Background

\* So do the answers to the student's writes, but for a late review.
LEMMA AnswerNames ==
    ASSUME PageInv, DraftNamed, SavesNamed, ~LateReview, NEW f \in Flows,
           CancelArrives(f) \/ SaveArrives(f) \/ DeleteArrives(f)
    PROVE  DraftNamed' /\ SavesNamed'
<1>1. CASE CancelArrives(f)
  <2>1. \A g \in Flows : Stays(g)
    BY <1>1, OverTurns DEF CancelArrives
  <2>2. CASE UNCHANGED reviewVars
    BY <1>1, <2>1, <2>2, StaysSave, SavesStayNamed DEF DraftNamed, CancelArrives, reviewVars
  <2>3. CASE CancelDone(flow[f].has)
    BY <2>3, NoSaveIsNamed DEF DraftNamed, CancelDone
  <2> QED
    BY <1>1, <2>2, <2>3 DEF CancelArrives
<1>2. CASE SaveArrives(f)
  <2>1. flow[f].fn \in Carrying /\ Over(f)
    BY <1>2 DEF SaveArrives, Carrying
  <2>2. SavesNamed'
    <3>1. "save" \in Carrying
      BY DEF Carrying
    <3> QED
      BY <2>1, <3>1, OverTurns, NoFlowShape, CarrierEnds, NoSaveIsNamed
  <2>3. CASE Ans(f) # "review"
    BY <1>2, <2>2, <2>3 DEF DraftNamed, SaveArrives
  <2>4. CASE Ans(f) = "review"
    <3>1. flow[f].fn = "save" /\ Current(f)
      BY <1>2, <2>4 DEF PageInv, Named, Ans, LateReview
    <3>2. source \in {0, flow[f].task}
      BY <3>1 DEF PageInv, SourceKept
    <3>3. source' = source /\ draft' = Filled(flow[f].task)
      BY <1>2, <2>4 DEF SaveArrives
    <3> QED
      BY <2>2, <3>2, <3>3 DEF DraftNamed, Filled
  <2> QED
    BY <2>2, <2>3, <2>4
<1>3. CASE DeleteArrives(f)
  <2>1. flow[f].fn \in Carrying /\ flow \in [Flows -> Flow] /\ "save" \in Carrying
    BY <1>3 DEF DeleteArrives, Carrying, Heard, Runs, PageInv, PageTypes
  <2>2. (\A g \in Flows \ {f} : flow'[g] = flow[g]) /\ flow'[f].fn \notin Carrying
    BY <1>3, <2>1, NoFlowShape DEF DeleteArrives, Over, Carrying, NoFlow
  <2>3. SavesNamed'
    BY <2>1, <2>2, CarrierEnds, NoSaveIsNamed
  <2> QED
    BY <1>3, <2>3 DEF DraftNamed, DeleteArrives
<1> QED
  BY <1>1, <1>2, <1>3

\* So does what the student does.
LEMMA StudentNames ==
    ASSUME PageInv, DraftNamed, SavesNamed, StudentActs
    PROVE  DraftNamed' /\ SavesNamed'
<1>1. /\ epoch \in Nat /\ 0 \in OrNone /\ source \in OrNone /\ shownTask \in OrNone
      /\ draft \in [by : OrNone, edited : BOOLEAN] /\ (NewEpoch => epoch' \in Nat /\ epoch' = epoch + 1)
  BY DEF PageInv, PageTypes, OrNone, NewEpoch
<1>2. ASSUME NEW fn \in {"reload", "prepare", "cancel", "check", "delete"}, NEW ep \in Nat, NEW t \in OrNone,
             fn = "cancel" => t # 0, \E f \in Flows : Begin(f, fn, ep, t)
      PROVE  \A g \in Flows : flow'[g].fn = "save" =>
                flow[g].fn = "save" /\ flow'[g].ep = flow[g].ep /\ flow'[g].task = flow[g].task
  BY <1>2, BeginsSave DEF Watching, Carrying
<1>3. CASE Reload
  <2>1. SavesNamed'
    BY <1>1, <1>2, <1>3, OlderSaves DEF Reload
  <2> QED
    BY <1>3, <2>1 DEF DraftNamed, Reload
<1>4. CASE ChooseFile
  <2>1. SavesNamed'
    BY <1>1, <1>4, OlderSaves DEF ChooseFile
  <2> QED
    BY <1>4, <2>1 DEF DraftNamed, ChooseFile, reviewVars
<1>5. CASE Prepare
  <2>1. SavesNamed'
    BY <1>1, <1>2, <1>5, OlderSaves DEF Prepare
  <2> QED
    BY <1>5, <2>1 DEF DraftNamed, Prepare, reviewVars
<1>6. CASE StartManualEntry \/ EditSavedProfile
  <2>1. SavesNamed'
    BY <1>1, <1>6, OlderSaves DEF StartManualEntry, EditSavedProfile
  <2> QED
    BY <1>6, <2>1 DEF DraftNamed, StartManualEntry, EditSavedProfile
<1>7. CASE Edit
  <2>1. draft'.by = draft.by /\ UNCHANGED <<epoch, phase, source, flow>>
    BY <1>1, <1>7 DEF Edit
  <2> QED
    BY <2>1 DEF DraftNamed, SavesNamed, Current
<1>8. CASE CancelReview
  <2> DEFINE t == IF source # 0 THEN source ELSE shownTask
  <2>1. CASE t # 0 /\ (\E f \in Flows : Begin(f, "cancel", epoch', t)) /\ UNCHANGED reviewVars
    <3>1. t \in OrNone
      BY <1>1
    <3> HIDE DEF t
    <3>2. SavesNamed'
      BY <1>1, <1>2, <1>8, <2>1, <3>1, OlderSaves DEF CancelReview
    <3> QED
      BY <2>1, <3>2 DEF DraftNamed, reviewVars
  <2>2. CASE CancelDone(hasProfile) /\ UNCHANGED flow
    <3>1. SavesNamed'
      BY <2>2, NoSaveIsNamed DEF CancelDone
    <3> QED
      BY <2>2, <3>1 DEF DraftNamed, CancelDone
  <2> QED
    BY <1>8, <2>1, <2>2 DEF CancelReview
<1>9. CASE ConfirmSave
  <2>1. PICK f \in Flows : Begin(f, "save", epoch, source)
    BY <1>9 DEF ConfirmSave
  <2>2. ~saving /\ UNCHANGED <<epoch, phase, source, draft>>
    BY <1>9 DEF ConfirmSave, Reviewing, reviewVars
  <2>3. /\ \A g \in Flows \ {f} : flow'[g] = flow[g] /\ flow[g].fn # "save"
        /\ flow'[f].fn = "save" /\ flow'[f].task = source
    <3>1. "save" \in Carrying
      BY DEF Carrying
    <3>2. \A g \in Flows : flow[g].fn # "save"
      BY <2>2, <3>1 DEF PageInv, OneCarrier
    <3> QED
      BY <1>1, <2>1, <3>1, <3>2, BeginTurns
  <2> QED
    BY <2>2, <2>3 DEF DraftNamed, SavesNamed
<1>10. CASE CheckSaveStatus
  <2>1. UNCHANGED <<epoch, phase, draft, source>> /\ \E f \in Flows : Begin(f, "check", epoch, 0)
    BY <1>10 DEF CheckSaveStatus, reviewVars
  <2>2. SavesNamed'
    BY <1>1, <1>2, <2>1, SavesStayNamed
  <2> QED
    BY <2>1, <2>2 DEF DraftNamed
<1>11. CASE DeleteProfile
  <2>1. UNCHANGED <<epoch, phase, draft, source>> /\ \E f \in Flows : Begin(f, "delete", epoch, 0)
    BY <1>11 DEF DeleteProfile, reviewVars
  <2>2. SavesNamed'
    BY <1>1, <1>2, <2>1, SavesStayNamed
  <2> QED
    BY <2>1, <2>2 DEF DraftNamed
<1>12. CASE ResolveConflict
  <2>1. ~saving /\ source' = 0 /\ UNCHANGED flow
    BY <1>12 DEF ResolveConflict, ForgetsSource
  <2>2. \A g \in Flows : flow'[g].fn # "save"
    BY <2>1 DEF PageInv, OneCarrier, Carrying
  <2> QED
    BY <2>1, <2>2, NoSaveIsNamed DEF DraftNamed
<1> QED
  BY <1>3, <1>4, <1>5, <1>6, <1>7, <1>8, <1>9, <1>10, <1>11, <1>12 DEF StudentActs

\* The extraction a save names is the one its draft came from, whatever the student, the server
\* and late answers do, but for a draft sent back after the workspace has moved on.
THEOREM DraftHasItsSource == WorkspaceSpec => SourceOfDraft
<1>1. ASSUME PageInv, SourceAgrees, ~LateReview, [WorkspaceNext]_workspaceVars PROVE SourceAgrees'
  <2>1. DraftNamed /\ SavesNamed
    BY <1>1 DEF SourceAgrees, DraftNamed, SavesNamed
  <2>2. ASSUME Serve PROVE DraftNamed' /\ SavesNamed'
    BY <1>1, <2>1, <2>2, ServeTurns, StaysSave, SavesStayNamed DEF Serve, DraftNamed, reviewVars
  <2>3. ASSUME UNCHANGED workspaceVars PROVE DraftNamed' /\ SavesNamed'
    BY <2>1, <2>3, SavesStayNamed DEF DraftNamed, workspaceVars, reviewVars
  <2>4. DraftNamed' /\ SavesNamed'
    BY <1>1, <2>1, <2>2, <2>3, BackgroundNames, AnswerNames, StudentNames DEF WorkspaceNext
  <2> QED
    BY <2>4 DEF SourceAgrees, DraftNamed, SavesNamed
<1>2. PageInv /\ [WorkspaceNext]_workspaceVars => (SourceAgrees /\ ~LateReview => SourceAgrees')
  BY <1>1
<1> QED
  BY <1>2, PageInductive, PTL DEF SourceOfDraft, WorkspaceSpec

-----------------------------------------------------------------------------
(***************************************************************************)
(* However many transactions of one owner lock however many tasks and      *)
(* events: they never wait for each other in a circle, and a deletion      *)
(* misses no task.                                                         *)
(*                                                                         *)
(* The order of the locks is: owner, tasks by task_id, events.  A          *)
(* transaction that waits for its owner has nothing; one that waits for a  *)
(* task has at most the owner and earlier tasks.  Events have no order     *)
(* among themselves (cleanup locks them as they come): what keeps them out *)
(* of a circle is that whoever waits for an event has its task, unless it  *)
(* has nothing, and that whoever has an event without its task waits for   *)
(* nothing any more.                                                       *)
(***************************************************************************)

Ops == {"none", "enqueue", "delete", "cancel", "claim", "complete", "stale", "fail", "discard",
        "event", "cleanup", "publish"}

RowLock == [row : LockedRows, skip : BOOLEAN]

Tx == [op : Ops, task : Nat, todo : Seq(RowLock), listed : SUBSET OwnedTasks]

LockTypes ==
    /\ holder \in [LockedRows -> Txs \cup {Nobody}]
    /\ tx \in [Txs -> Tx]
    /\ stored \in [OwnedTasks -> {"absent", "live", "kept", "over"}]

HoldsNothing(x) == \A row \in LockedRows : ~Holds(x, row)

\* The owner or a task before t
Before(row, t) == row = UserRow \/ \E s \in OwnedTasks : s < t /\ row = TaskRow(s)

\* The i-th lock x has still to take, if it waits for it, comes after all x has or takes before
OrderKept(x, i) ==
    LET todo == tx[x].todo IN
    /\ todo[i].row = UserRow => i = 1 /\ HoldsNothing(x)
    /\ \A t \in OwnedTasks :
        /\ todo[i].row = TaskRow(t) /\ ~todo[i].skip =>
              /\ \A row \in LockedRows : Holds(x, row) => Before(row, t)
              /\ \A j \in 1 .. Len(todo) : j < i => Before(todo[j].row, t)
        /\ todo[i].row = EventRow(t) =>
              /\ \A j \in 1 .. Len(todo) : i < j => \E s \in OwnedTasks : todo[j].row = EventRow(s)
              /\ \/ HoldsNothing(x) /\ Len(todo) = 1
                 \/ Holds(x, TaskRow(t))
                 \/ \E j \in 1 .. Len(todo) : j < i /\ todo[j].row = TaskRow(t)

\* Whoever has an event takes no lock but on events; without the task it takes none.
EventsLast(x) ==
    \A t \in OwnedTasks : Holds(x, EventRow(t)) =>
        /\ \A i \in 1 .. Len(tx[x].todo) : \E s \in OwnedTasks : tx[x].todo[i].row = EventRow(s)
        /\ ~Holds(x, TaskRow(t)) => tx[x].todo = <<>>

LockOrder == \A x \in Txs : EventsLast(x) /\ \A i \in 1 .. Len(tx[x].todo) : OrderKept(x, i)

\* Which transactions have what: nothing before the first lock; an enqueue or a deletion has
\* the owner as soon as it has taken its first lock; a deletion has or takes what it listed.
Deleting(x) == tx[x].op = "cancel" \/ (tx[x].op = "delete" /\ tx[x].listed # {})

Owns(x) ==
    /\ tx[x].op = "none" => tx[x] = Ended /\ HoldsNothing(x)
    /\ tx[x].op \in {"enqueue", "delete"} => Holds(x, UserRow) \/ tx[x].todo = <<Wait(UserRow)>>
    /\ tx[x].op = "delete" =>
          /\ \A row \in LockedRows :
                Holds(x, row) => row = UserRow \/ \E t \in tx[x].listed : row = TaskRow(t)
          /\ \A t \in tx[x].listed :
                Holds(x, TaskRow(t)) \/ \E i \in 1 .. Len(tx[x].todo) : tx[x].todo[i].row = TaskRow(t)
          /\ \A i \in 1 .. Len(tx[x].todo) :
                \/ tx[x].todo = <<Wait(UserRow)>>
                \/ \E t \in tx[x].listed : tx[x].todo[i].row = TaskRow(t)
    /\ Deleting(x) => Holds(x, UserRow)

Owning == \A x \in Txs : Owns(x)

\* While a deletion has its owner, no task comes to be cancelled that it has not listed.
ListsAll == \A x \in Txs : Deleting(x) => \A t \in OwnedTasks : Cancels(t) => t \in tx[x].listed

LockInv == LockTypes /\ LockOrder /\ Owning /\ ListsAll

-----------------------------------------------------------------------------
(* Rows and orders *)

\* The rows that are locked are told apart by their kind and their task.
LEMMA RowShapes ==
    /\ UserRow \in LockedRows
    /\ \A t \in OwnedTasks : /\ TaskRow(t) \in LockedRows /\ EventRow(t) \in LockedRows
                             /\ TaskRow(t) # UserRow /\ EventRow(t) # UserRow
                             /\ TaskRow(t)[1] = "task" /\ TaskRow(t)[2] = t
                             /\ EventRow(t)[1] = "event" /\ EventRow(t)[2] = t
    /\ \A s, t \in OwnedTasks : /\ TaskRow(s) # EventRow(t)
                                /\ TaskRow(s) = TaskRow(t) => s = t
                                /\ EventRow(s) = EventRow(t) => s = t
    /\ UserRow[1] = "user"
    /\ \A row \in LockedRows :
          row = UserRow \/ \E t \in OwnedTasks : row = TaskRow(t) \/ row = EventRow(t)
  BY LockAssumption DEF LockedRows, UserRow, TaskRow, EventRow, OwnedTasks

\* The tasks of the owner are finitely many numbers.
LEMMA TasksAreNumbers == OwnedTasks \subseteq Nat /\ IsFiniteSet(OwnedTasks)
  BY LockAssumption, FS_Interval DEF OwnedTasks

\* Ascending lists every task of a set once, the smaller before the larger.
LEMMA AscendingLists ==
    ASSUME NEW T \in SUBSET OwnedTasks
    PROVE  /\ Cardinality(T) \in Nat
           /\ Ascending(T) \in [1 .. Cardinality(T) -> T]
           /\ \A t \in T : \E n \in 1 .. Cardinality(T) : Ascending(T)[n] = t
           /\ \A i, j \in 1 .. Cardinality(T) : i < j => Ascending(T)[i] < Ascending(T)[j]
<1> DEFINE upto(t) == {s \in T : s <= t}
           N == Cardinality(T)
           place == [t \in T |-> Cardinality(upto(t))]
<1>0. T \subseteq Nat /\ IsFiniteSet(T) /\ N \in Nat
  BY TasksAreNumbers, FS_Subset, FS_CardinalityType
<1>1. ASSUME NEW t \in T
      PROVE  IsFiniteSet(upto(t)) /\ Cardinality(upto(t)) \in 1 .. N
  <2>1. upto(t) \in SUBSET T /\ t \in upto(t)
    BY <1>0
  <2> HIDE DEF upto
  <2>2. IsFiniteSet(upto(t)) /\ Cardinality(upto(t)) <= N
    BY <1>0, <2>1, FS_Subset
  <2>3. Cardinality(upto(t)) \in Nat /\ Cardinality(upto(t)) # 0
    BY <2>1, <2>2, FS_CardinalityType, FS_EmptySet
  <2> HIDE DEF N
  <2> QED
    BY <1>0, <2>2, <2>3
<1>2. ASSUME NEW s \in T, NEW t \in T, s < t
      PROVE  Cardinality(upto(s)) < Cardinality(upto(t))
  <2>1. upto(s) \in SUBSET upto(t) /\ upto(s) # upto(t)
    <3>1. t \in upto(t) /\ t \notin upto(s)
      BY <1>0, <1>2
    <3>2. upto(s) \subseteq upto(t)
      <4>1. ASSUME NEW r \in T, r <= s PROVE r <= t
        <5>1. r \in Nat /\ s \in Nat /\ t \in Nat
          BY <1>0
        <5> QED
          BY <1>2, <4>1, <5>1
      <4> QED
        BY <4>1
    <3> HIDE DEF upto
    <3> QED
      BY <3>1, <3>2
  <2> HIDE DEF upto
  <2>2. /\ Cardinality(upto(s)) <= Cardinality(upto(t))
        /\ Cardinality(upto(s)) # Cardinality(upto(t))
    BY <1>1, <2>1, FS_Subset
  <2>3. Cardinality(upto(s)) \in Nat /\ Cardinality(upto(t)) \in Nat
    BY <1>1, FS_CardinalityType
  <2> QED
    BY <2>2, <2>3
<1> HIDE DEF upto
<1>3. place \in [T -> 1 .. N] /\ \A t \in T : place[t] = Cardinality(upto(t))
  BY <1>1
<1> HIDE DEF place, N
<1>4. \A s, t \in T : s < t => place[s] < place[t]
  BY <1>2, <1>3
<1>5. \A s, t \in T : place[s] = place[t] => s = t
  BY <1>0, <1>3, <1>4
<1>6. place \in Surjection(T, 1 .. N)
  <2>1. place \in Injection(T, 1 .. N)
    BY <1>3, <1>5 DEF Injection, IsInjective
  <2>2. IsFiniteSet(1 .. N) /\ Cardinality(1 .. N) = N
    BY <1>0, FS_Interval
  <2> QED
    BY <2>1, <2>2, FS_Injection DEF N
<1>7. \A n \in 1 .. N : \E t \in T : place[t] = n
  BY <1>6 DEF Surjection
<1>8. Ascending(T) = [n \in 1 .. N |-> CHOOSE t \in T : Cardinality(upto(t)) = n]
  BY DEF Ascending, N, upto
<1>9. \A n \in 1 .. N : Ascending(T)[n] \in T /\ place[Ascending(T)[n]] = n
  BY <1>3, <1>7, <1>8
<1>10. \A t \in T : place[t] \in 1 .. N /\ Ascending(T)[place[t]] = t
  BY <1>3, <1>5, <1>9
<1>11. ASSUME NEW i \in 1 .. N, NEW j \in 1 .. N, i < j PROVE Ascending(T)[i] < Ascending(T)[j]
  <2> DEFINE a == Ascending(T)[i]
             b == Ascending(T)[j]
  <2>1. a \in T /\ b \in T /\ place[a] = i /\ place[b] = j
    BY <1>9
  <2> HIDE DEF a, b
  <2>2. a \in Nat /\ b \in Nat /\ (a < b \/ a = b \/ b < a) /\ i \in Nat /\ j \in Nat
    BY <1>0, <2>1
  <2>3. a < b
    BY <1>4, <1>11, <2>1, <2>2
  <2> QED
    BY <2>3 DEF a, b
<1>12. Ascending(T) \in [1 .. N -> T]
  BY <1>8, <1>9
<1> QED
  BY <1>0, <1>10, <1>11, <1>12 DEF N

-----------------------------------------------------------------------------
(* No circle *)

\* A non-empty set of tasks has a last one.
LEMMA LastTask ==
    ASSUME NEW T \in SUBSET OwnedTasks, T # {}
    PROVE  \E t \in T : \A s \in T : s <= t
<1> DEFINE M == {MaxTask - t : t \in T}
<1>1. MaxTask \in Nat /\ \A t \in T : t \in Nat /\ t <= MaxTask /\ MaxTask - t \in Nat
  BY LockAssumption DEF OwnedTasks
<1>2. M \subseteq Nat /\ M # {}
  BY <1>1
<1>3. PICK m \in M : \A n \in M : <<n, m>> \notin OpToRel(<, Nat)
  <2> HIDE DEF M
  <2> QED
    BY <1>2, WFMin, NatLessThanWellFounded, Zenon
<1>4. PICK t \in T : m = MaxTask - t
  BY <1>3
<1>5. ASSUME NEW s \in T PROVE s <= t
  <2>1. MaxTask - s \in M
    OBVIOUS
  <2>2. MaxTask - s \in Nat /\ m \in Nat
    BY <1>1, <1>4
  <2>3. ~(MaxTask - s < m)
    <3>1. <<MaxTask - s, m>> \notin OpToRel(<, Nat)
      BY <1>3, <2>1
    <3> QED
      BY <3>1, <2>2 DEF OpToRel
  <2> QED
    BY <1>1, <1>4, <2>3
<1> QED
  BY <1>5

\* What is known of a transaction that waits
LEMMA Waiting ==
    ASSUME LockInv, NEW x \in Txs, NEW y \in Txs, WaitsFor(x, y)
    PROVE  LET first == tx[x].todo[1] IN
           /\ tx[x].todo # <<>> /\ Len(tx[x].todo) \in Nat \ {0}
           /\ first.row \in LockedRows /\ ~first.skip
           /\ x # y /\ Holds(y, first.row) /\ OrderKept(x, 1)
<1>1. /\ tx[x].todo \in Seq(RowLock) /\ tx[x].todo # <<>>
      /\ x # y /\ ~Head(tx[x].todo).skip /\ Holds(y, Head(tx[x].todo).row)
  BY DEF LockInv, LockTypes, Tx, WaitsFor
<1>2. Len(tx[x].todo) \in Nat \ {0} /\ Head(tx[x].todo) = tx[x].todo[1] /\ tx[x].todo[1] \in RowLock
  BY <1>1
<1>3. OrderKept(x, 1)
  BY <1>2 DEF LockInv, LockOrder
<1> QED
  BY <1>1, <1>2, <1>3 DEF RowLock

\* In a circle of waits nobody waits for an event, so each waits for a task that is greater than
\* the one it is waited for; there is no greatest.
LEMMA NoCircle == LockInv => NoWaitCycle
<1> SUFFICES ASSUME LockInv, NEW S \in SUBSET Txs, S # {},
                    \A x \in S : \E y \in S : WaitsFor(x, y)
             PROVE  FALSE
  BY DEF NoWaitCycle
<1> DEFINE row(x) == tx[x].todo[1].row
\* Whoever has an event waits for an event, and so has that event's task.
<1>1. ASSUME NEW x \in S, NEW t \in OwnedTasks, row(x) = EventRow(t) PROVE FALSE
  <2>1. PICK y \in S : WaitsFor(x, y)
    OBVIOUS
  <2>2. PICK z \in S : WaitsFor(y, z)
    OBVIOUS
  <2>3. PICK v \in S : WaitsFor(z, v)
    OBVIOUS
  <2>4. /\ Holds(y, EventRow(t)) /\ EventRow(t) \in LockedRows
        /\ EventsLast(y) /\ EventsLast(z)
    BY <1>1, <2>1, Waiting, RowShapes DEF LockInv, LockOrder
  <2>5. /\ Len(tx[y].todo) \in Nat \ {0} /\ y # z /\ Holds(z, row(y)) /\ OrderKept(y, 1)
        /\ tx[z].todo # <<>>
    BY <2>2, <2>3, Waiting
  <2>6. PICK s \in OwnedTasks : row(y) = EventRow(s)
    BY <2>4, <2>5 DEF EventsLast
  <2>7. Holds(y, TaskRow(s))
    <3>1. \A j \in 1 .. Len(tx[y].todo) : ~(j < 1)
      OBVIOUS
    <3> QED
      BY <2>4, <2>5, <2>6, <3>1 DEF OrderKept, HoldsNothing
  <2>8. ~Holds(z, TaskRow(s))
    BY <2>5, <2>7 DEF Holds
  <2> QED
    BY <2>4, <2>5, <2>6, <2>8 DEF EventsLast
\* So whoever has a row waits for a task.
<1>2. ASSUME NEW x \in S, NEW y \in S, WaitsFor(x, y)
      PROVE  \E s \in OwnedTasks :
                row(y) = TaskRow(s) /\ \A t \in OwnedTasks : row(x) = TaskRow(t) => t < s
  <2>1. PICK z \in S : WaitsFor(y, z)
    OBVIOUS
  <2>2. /\ row(x) \in LockedRows /\ Holds(y, row(x))
        /\ row(y) \in LockedRows /\ ~tx[y].todo[1].skip /\ OrderKept(y, 1)
    BY <1>2, <2>1, Waiting
  <2>3. row(y) # UserRow
    BY <2>2 DEF OrderKept, HoldsNothing
  <2>4. PICK s \in OwnedTasks : row(y) = TaskRow(s)
    BY <1>1, <2>2, <2>3, RowShapes
  <2>5. Before(row(x), s)
    BY <2>2, <2>4 DEF OrderKept
  <2>6. ASSUME NEW t \in OwnedTasks, row(x) = TaskRow(t) PROVE t < s
    BY <2>5, <2>6, RowShapes DEF Before
  <2> QED
    BY <2>4, <2>6
<1> DEFINE T == {t \in OwnedTasks : \E x \in S : row(x) = TaskRow(t)}
<1>3. T # {}
  BY <1>2
<1>4. PICK t \in T : \A s \in T : s <= t
  BY <1>3, LastTask
<1>5. PICK x \in S : row(x) = TaskRow(t)
  OBVIOUS
<1>6. PICK y \in S : WaitsFor(x, y)
  OBVIOUS
<1>7. PICK s \in OwnedTasks : row(y) = TaskRow(s) /\ t < s
  BY <1>2, <1>5, <1>6
<1>8. s \in T /\ s \in Nat /\ t \in Nat
  BY <1>7, TasksAreNumbers
<1> QED
  BY <1>4, <1>7, <1>8

-----------------------------------------------------------------------------
(* Steps *)

\* A step of x changes nothing of another transaction.
Others(x) == \A y \in Txs \ {x} :
    tx'[y] = tx[y] /\ \A row \in LockedRows : Holds(y, row)' <=> Holds(y, row)

\* What is left to show of a step of x
LEMMA StepOf ==
    ASSUME LockInv, NEW x \in Txs, Others(x), LockTypes',
           EventsLast(x)', \A i \in 1 .. Len(tx'[x].todo) : OrderKept(x, i)', Owns(x)', ListsAll'
    PROVE  LockInv'
<1>1. ASSUME NEW y \in Txs, y # x PROVE EventsLast(y)'
  BY <1>1, RowShapes DEF LockInv, LockOrder, Others, EventsLast
<1>2. ASSUME NEW y \in Txs, y # x, NEW i \in 1 .. Len(tx'[y].todo) PROVE OrderKept(y, i)'
  <2>1. OrderKept(y, i)
    BY <1>2 DEF LockInv, LockOrder, Others
  <2>2. tx'[y] = tx[y] /\ \A row \in LockedRows : Holds(y, row)' <=> Holds(y, row)
    BY <1>2 DEF Others
  <2>3. (\A row \in LockedRows : ~Holds(y, row)) <=> (\A row \in LockedRows : ~Holds(y, row)')
    BY <2>2
  <2>4. \A t \in OwnedTasks : Holds(y, TaskRow(t))' <=> Holds(y, TaskRow(t))
    BY <2>2, RowShapes
  <2> QED
    BY <2>1, <2>2, <2>3, <2>4 DEF OrderKept, HoldsNothing, Before
<1>3. ASSUME NEW y \in Txs, y # x PROVE Owns(y)'
  <2>1. Owns(y) /\ tx[y] \in Tx
    BY DEF LockInv, Owning, LockTypes
  <2>2. tx'[y] = tx[y] /\ \A row \in LockedRows : Holds(y, row)' <=> Holds(y, row)
    BY <1>3 DEF Others
  <2>3. UserRow \in LockedRows /\ \A t \in tx[y].listed : TaskRow(t) \in LockedRows
    BY <2>1, RowShapes DEF Tx
  <2> QED
    BY <2>1, <2>2, <2>3 DEF Owns, Deleting, HoldsNothing
<1> QED
  BY <1>1, <1>2, <1>3 DEF LockInv, LockOrder, Owning

\* Whatever ends the transaction, it has nothing afterwards.
LEMMA ReleaseKeeps ==
    ASSUME LockInv, NEW x \in Txs, Release(x), ListsAll',
           stored' \in [OwnedTasks -> {"absent", "live", "kept", "over"}]
    PROVE  LockInv'
<1>1. /\ holder \in [LockedRows -> Txs \cup {Nobody}] /\ tx \in [Txs -> Tx] /\ Nobody \notin Txs
  BY LockAssumption DEF LockInv, LockTypes
<1>2. Ended \in Tx /\ Ended.todo = <<>> /\ Len(Ended.todo) = 0 /\ Ended.op = "none"
  BY DEF Ended, Tx, Ops
<1>3. /\ tx'[x] = Ended /\ HoldsNothing(x)' /\ Others(x)
      /\ holder' \in [LockedRows -> Txs \cup {Nobody}] /\ tx' \in [Txs -> Tx]
  BY <1>1, <1>2 DEF Release, HoldsNothing, Holds, Others
<1>4. LockTypes'
  BY <1>3 DEF LockTypes
<1>5. EventsLast(x)' /\ Owns(x)' /\ \A i \in 1 .. Len(tx'[x].todo) : OrderKept(x, i)'
  BY <1>2, <1>3, RowShapes DEF EventsLast, Owns, HoldsNothing, Deleting
<1> QED
  BY <1>3, <1>4, <1>5, StepOf

\* Only an enqueue makes a task that a deletion would have to list, and it has the owner.
LEMMA RowsCommitKeep == ASSUME LockInv, NEW x \in Txs, Commit(x) PROVE LockInv'
<1>1. /\ tx[x] \in Tx /\ Owns(x) /\ tx[x].todo = <<>> /\ Release(x)
      /\ tx' = [tx EXCEPT ![x] = Ended] /\ tx \in [Txs -> Tx]
      /\ stored \in [OwnedTasks -> {"absent", "live", "kept", "over"}]
  BY DEF LockInv, LockTypes, Owning, Commit, Release
<1>2. stored' \in [OwnedTasks -> {"absent", "live", "kept", "over"}]
  BY <1>1 DEF Commit
<1>3. ASSUME tx[x].op # "enqueue", NEW t \in OwnedTasks, Cancels(t)' PROVE Cancels(t)
  BY <1>1, <1>3 DEF Commit, Cancels, Deletes
<1>4. ASSUME NEW y \in Txs, Deleting(y)', NEW t \in OwnedTasks, Cancels(t)' PROVE t \in tx'[y].listed
  <2>1. y # x /\ tx'[y] = tx[y] /\ Deleting(y)
    BY <1>1, <1>4 DEF Deleting, Ended
  <2>2. tx[x].op # "enqueue"
    <3>1. Holds(y, UserRow)
      BY <2>1 DEF LockInv, Owning, Owns
    <3>2. tx[x].op = "enqueue" => Holds(x, UserRow)
      BY <1>1 DEF Owns
    <3> QED
      BY <2>1, <3>1, <3>2 DEF Holds
  <2> QED
    BY <1>3, <1>4, <2>1, <2>2 DEF LockInv, ListsAll
<1>5. ListsAll'
  BY <1>4 DEF ListsAll
<1> QED
  BY <1>1, <1>2, <1>5, ReleaseKeeps

\* A transaction that ends, at any point, keeps LockInv.
LEMMA EndKeeps == ASSUME LockInv, NEW x \in Txs, EndTx(x) PROVE LockInv'
<1>1. /\ Release(x) /\ UNCHANGED stored /\ tx' = [tx EXCEPT ![x] = Ended] /\ tx \in [Txs -> Tx]
  BY DEF EndTx, Release, LockInv, LockTypes
<1>2. ListsAll'
  <2>1. ASSUME NEW y \in Txs, Deleting(y)' PROVE tx'[y] = tx[y]
    BY <1>1, <2>1 DEF Deleting, Ended
  <2> QED
    BY <1>1, <2>1 DEF LockInv, ListsAll, Deleting, Cancels
<1> QED
  BY <1>1, <1>2, ReleaseKeeps DEF LockInv, LockTypes

\* A plan that keeps the order
GoodPlan(locks) ==
    \A i \in 1 .. Len(locks) :
        /\ locks[i].row = UserRow => i = 1
        /\ \A t \in OwnedTasks :
            /\ locks[i].row = TaskRow(t) /\ ~locks[i].skip =>
                  \A j \in 1 .. Len(locks) : j < i => Before(locks[j].row, t)
            /\ locks[i].row = EventRow(t) =>
                  /\ \A j \in 1 .. Len(locks) : i < j => \E s \in OwnedTasks : locks[j].row = EventRow(s)
                  /\ Len(locks) = 1 \/ \E j \in 1 .. Len(locks) : j < i /\ locks[j].row = TaskRow(t)

\* A transaction that begins with a plan in the order of the locks keeps LockInv.
LEMMA BeginKeeps ==
    ASSUME LockInv, NEW x \in Txs, NEW op \in Ops \ {"none", "cancel"}, NEW t \in Nat,
           NEW locks \in Seq(RowLock), Begins(x, op, t, locks), GoodPlan(locks),
           op \in {"enqueue", "delete"} => locks = <<Wait(UserRow)>>
    PROVE  LockInv'
<1> DEFINE new == [Ended EXCEPT !.op = op, !.task = t, !.todo = locks]
<1>1. /\ holder \in [LockedRows -> Txs \cup {Nobody}] /\ tx \in [Txs -> Tx] /\ tx[x] = Ended
      /\ tx' = [tx EXCEPT ![x] = new] /\ UNCHANGED <<holder, stored>>
  BY DEF LockInv, LockTypes, Begins
<1>2. new \in Tx /\ new.op = op /\ new.todo = locks /\ new.listed = {}
  <2>1. Ended \in Tx /\ Ended.listed = {}
    BY DEF Ended, Tx, Ops
  <2> QED
    BY <2>1 DEF Tx
<1>3. HoldsNothing(x)
  BY <1>1 DEF LockInv, Owning, Owns, Ended
<1>4. HoldsNothing(x)' /\ tx'[x] = new /\ Others(x) /\ LockTypes'
  BY <1>1, <1>2, <1>3 DEF HoldsNothing, Holds, Others, LockTypes, LockInv
<1> HIDE DEF new
<1>5. new.op = op /\ new.todo = locks /\ new.listed = {} /\ Len(locks) \in Nat
  BY <1>2
<1>6. EventsLast(x)'
  BY <1>4, RowShapes DEF EventsLast, HoldsNothing
<1>7. \A i \in 1 .. Len(tx'[x].todo) : OrderKept(x, i)'
  BY <1>4, <1>5, RowShapes DEF OrderKept, HoldsNothing, GoodPlan
<1>8. Owns(x)'
  <2>1. op = "delete" => Len(locks) = 1
    BY DEF Wait
  <2> QED
    BY <1>4, <1>5, <2>1 DEF Owns, Deleting, HoldsNothing
<1>9. ListsAll'
  BY <1>1, <1>4, <1>5 DEF ListsAll, LockInv, Deleting, Cancels
<1> QED
  BY <1>4, <1>6, <1>7, <1>8, <1>9, StepOf

\* Every transaction's plan does.
LEMMA BeginTxKeeps == ASSUME LockInv, NEW x \in Txs, BeginTx(x) PROVE LockInv'
<1>1. UserRow \in LockedRows /\ Wait(UserRow) \in RowLock
  BY RowShapes DEF RowLock, Wait
<1>2. CASE Begins(x, "enqueue", 0, Enqueue) \/ Begins(x, "delete", 0, <<Wait(UserRow)>>)
  <2>1. <<Wait(UserRow)>> \in Seq(RowLock) /\ GoodPlan(<<Wait(UserRow)>>)
    BY <1>1, RowShapes DEF GoodPlan, Wait
  <2> QED
    BY <1>2, <2>1, BeginKeeps DEF Enqueue, Ops
<1>3. ASSUME NEW t \in OwnedTasks,
             \/ Begins(x, "claim", t, ClaimExhausted(t))
             \/ Begins(x, "complete", t, Complete(t)) \/ Begins(x, "stale", t, CompleteStale(t))
             \/ Begins(x, "fail", t, Fail(t)) \/ Begins(x, "discard", t, Discard(t))
             \/ Begins(x, "event", t, Acknowledge(t)) \/ Begins(x, "event", t, CancelEvent(t))
      PROVE  LockInv'
  <2> DEFINE u == Wait(UserRow)
             w == Wait(TaskRow(t))
             s == SkipLocked(TaskRow(t))
             e == Wait(EventRow(t))
             f == SkipLocked(EventRow(t))
  <2>1. {u, w, s, e, f} \subseteq RowLock /\ t \in Nat
    BY RowShapes, TasksAreNumbers DEF RowLock, Wait, SkipLocked
  <2>2. /\ u.row = UserRow /\ w.row = TaskRow(t) /\ s.row = TaskRow(t) /\ e.row = EventRow(t)
        /\ f.row = EventRow(t) /\ s.skip
    BY DEF Wait, SkipLocked
  <2>3. Complete(t) = <<u, s>>
    BY DEF Complete
  <2> HIDE DEF u, w, s, e, f
  <2>4. <<s, e>> \in Seq(RowLock) /\ GoodPlan(<<s, e>>)
    BY <2>1, <2>2, RowShapes DEF GoodPlan
  <2>5. <<u, s>> \in Seq(RowLock) /\ GoodPlan(<<u, s>>)
    BY <2>1, <2>2, RowShapes DEF GoodPlan
  <2>6. <<u, s, e>> \in Seq(RowLock) /\ GoodPlan(<<u, s, e>>)
    BY <2>1, <2>2, RowShapes DEF GoodPlan
  <2>7. <<w, e>> \in Seq(RowLock) /\ GoodPlan(<<w, e>>)
    BY <2>1, <2>2, RowShapes DEF GoodPlan
  <2>8. <<u, w, e>> \in Seq(RowLock) /\ GoodPlan(<<u, w, e>>)
    BY <2>1, <2>2, RowShapes DEF GoodPlan, Before
  <2>9. /\ <<f>> \in Seq(RowLock) /\ GoodPlan(<<f>>)
        /\ <<e>> \in Seq(RowLock) /\ GoodPlan(<<e>>)
    BY <2>1, <2>2, RowShapes DEF GoodPlan
  <2>10. /\ ClaimExhausted(t) = <<s, e>> /\ Complete(t) = <<u, s>> /\ CompleteStale(t) = <<u, s, e>>
         /\ Fail(t) = <<w, e>> /\ Discard(t) = <<u, w, e>> /\ Acknowledge(t) = <<f>> /\ CancelEvent(t) = <<e>>
    <3>1. Append(<<u, s>>, e) = <<u, s, e>>
      <4>1. <<u, s>> \in Seq(RowLock) /\ Len(<<u, s>>) = 2 /\ e \in RowLock
        BY <2>1
      <4>2. /\ Append(<<u, s>>, e) \in Seq(RowLock) /\ Len(Append(<<u, s>>, e)) = 3
            /\ \A i \in 1 .. 2 : Append(<<u, s>>, e)[i] = <<u, s>>[i]
            /\ Append(<<u, s>>, e)[3] = e
        BY <4>1, AppendProperties
      <4>3. \A i \in 1 .. 3 : Append(<<u, s>>, e)[i] = <<u, s, e>>[i]
        BY <4>2
      <4>4. <<u, s, e>> \in Seq(RowLock) /\ Len(<<u, s, e>>) = 3
        BY <2>1
      <4> QED
        BY <4>2, <4>3, <4>4, SeqEqual
    <3>2. CompleteStale(t) = Append(<<u, s>>, e)
      BY <2>3 DEF CompleteStale, e
    <3> QED
      BY <2>3, <3>1, <3>2 DEF ClaimExhausted, Fail, Discard, Acknowledge, CancelEvent, u, w, s, e, f
  <2>11. {"claim", "complete", "stale", "fail", "discard", "event"} \subseteq Ops \ {"none", "cancel"}
    BY DEF Ops
  <2> QED
    BY <1>3, <2>1, <2>4, <2>5, <2>6, <2>7, <2>8, <2>9, <2>10, <2>11, BeginKeeps
<1> QED
  BY <1>2, <1>3 DEF BeginTx

\* x takes the next lock of its plan.
LEMMA LockKeeps == ASSUME LockInv, NEW x \in Txs, Lock(x) PROVE LockInv'
<1> DEFINE todo == tx[x].todo
           row == todo[1].row
           rest == Tail(todo)
           new == [tx[x] EXCEPT !.todo = rest]
<1>1. /\ holder \in [LockedRows -> Txs \cup {Nobody}] /\ tx \in [Txs -> Tx] /\ tx[x] \in Tx
      /\ todo \in Seq(RowLock) /\ todo # <<>> /\ Nobody \notin Txs /\ UNCHANGED stored
  BY LockAssumption DEF LockInv, LockTypes, Lock, Tx
<1>2. /\ Len(todo) \in Nat \ {0} /\ todo[1] \in RowLock /\ Head(todo) = todo[1]
      /\ rest \in Seq(RowLock) /\ Len(rest) = Len(todo) - 1
      /\ \A i \in 1 .. Len(rest) : rest[i] = todo[i + 1]
  BY <1>1, HeadTailProperties
<1>3. /\ Free(row) \/ Holds(x, row)
      /\ holder' = [holder EXCEPT ![row] = x] /\ tx' = [tx EXCEPT ![x] = new] /\ row \in LockedRows
  BY <1>1, <1>2 DEF Lock, RowLock
<1>4. new \in Tx /\ new.op = tx[x].op /\ new.listed = tx[x].listed /\ new.todo = rest
  BY <1>1, <1>2 DEF Tx
<1> HIDE DEF new
<1>5. tx'[x] = new /\ tx' \in [Txs -> Tx] /\ holder' \in [LockedRows -> Txs \cup {Nobody}]
  BY <1>1, <1>3, <1>4
<1>6. \A r \in LockedRows : Holds(x, r)' <=> Holds(x, r) \/ r = row
  BY <1>1, <1>3 DEF Holds
<1>7. Others(x)
  BY <1>1, <1>3 DEF Others, Holds, Free
<1> HIDE DEF rest, todo
<1>8. ASSUME NEW i \in 1 .. Len(rest) PROVE i + 1 \in 1 .. Len(todo) /\ rest[i] = todo[i + 1] /\ i \in Nat
  BY <1>2
<1>9. \A i \in 1 .. Len(todo) : OrderKept(x, i)
  BY DEF LockInv, LockOrder, todo
<1>10. 1 \in 1 .. Len(todo)
  BY <1>2
<1>11. EventsLast(x)'
  <2> SUFFICES ASSUME NEW t \in OwnedTasks, Holds(x, EventRow(t))'
               PROVE  /\ \A i \in 1 .. Len(rest) : \E s \in OwnedTasks : rest[i].row = EventRow(s)
                      /\ ~Holds(x, TaskRow(t))' => rest = <<>>
    BY <1>4, <1>5 DEF EventsLast
  <2>0. EventRow(t) \in LockedRows /\ TaskRow(t) \in LockedRows
    BY RowShapes
  <2>1. CASE Holds(x, EventRow(t))
    <3>1. /\ \A i \in 1 .. Len(todo) : \E s \in OwnedTasks : todo[i].row = EventRow(s)
          /\ ~Holds(x, TaskRow(t)) => todo = <<>>
      BY <2>1 DEF LockInv, LockOrder, EventsLast, todo
    <3> QED
      BY <1>1, <1>6, <1>8, <2>0, <3>1 DEF todo
  <2>2. CASE row = EventRow(t)
    <3>1. /\ \A j \in 1 .. Len(todo) : 1 < j => \E s \in OwnedTasks : todo[j].row = EventRow(s)
          /\ \/ HoldsNothing(x) /\ Len(todo) = 1
             \/ Holds(x, TaskRow(t))
             \/ \E j \in 1 .. Len(todo) : j < 1 /\ todo[j].row = TaskRow(t)
      BY <1>9, <1>10, <2>2 DEF OrderKept, todo
    <3>2. \A i \in 1 .. Len(rest) : 1 < i + 1
      BY <1>8
    <3>3. Len(todo) = 1 => rest = <<>>
      BY <1>2
    <3>4. \A j \in 1 .. Len(todo) : ~(j < 1)
      OBVIOUS
    <3> QED
      BY <1>6, <1>8, <2>0, <3>1, <3>2, <3>3, <3>4
  <2> QED
    BY <1>6, <2>0, <2>1, <2>2
<1>12. ASSUME NEW i \in 1 .. Len(rest) PROVE OrderKept(x, i)'
  <2>1. OrderKept(x, i + 1) /\ rest[i] = todo[i + 1] /\ 1 < i + 1 /\ i + 1 \in 1 .. Len(todo)
    BY <1>8, <1>9
  <2>2. todo[i + 1].row # UserRow
    BY <2>1 DEF OrderKept, todo
  <2>3. ASSUME NEW t \in OwnedTasks, rest[i].row = TaskRow(t), ~rest[i].skip
        PROVE  /\ \A r \in LockedRows : Holds(x, r)' => Before(r, t)
               /\ \A j \in 1 .. Len(rest) : j < i => Before(rest[j].row, t)
    <3>1. /\ \A r \in LockedRows : Holds(x, r) => Before(r, t)
          /\ \A j \in 1 .. Len(todo) : j < i + 1 => Before(todo[j].row, t)
      BY <2>1, <2>3 DEF OrderKept, todo
    <3>2. \A j \in 1 .. Len(rest) : j < i => j + 1 < i + 1
      BY <1>2
    <3> QED
      BY <1>6, <1>8, <1>10, <2>1, <3>1, <3>2
  <2>4. ASSUME NEW t \in OwnedTasks, rest[i].row = EventRow(t)
        PROVE  /\ \A j \in 1 .. Len(rest) : i < j => \E s \in OwnedTasks : rest[j].row = EventRow(s)
               /\ \/ Holds(x, TaskRow(t))'
                  \/ \E j \in 1 .. Len(rest) : j < i /\ rest[j].row = TaskRow(t)
    <3>1. /\ \A j \in 1 .. Len(todo) : i + 1 < j => \E s \in OwnedTasks : todo[j].row = EventRow(s)
          /\ \/ HoldsNothing(x) /\ Len(todo) = 1
             \/ Holds(x, TaskRow(t))
             \/ \E j \in 1 .. Len(todo) : j < i + 1 /\ todo[j].row = TaskRow(t)
      BY <2>1, <2>4 DEF OrderKept, todo
    <3>2. \A j \in 1 .. Len(rest) : i < j => i + 1 < j + 1
      BY <1>2
    <3>3. Len(todo) # 1
      BY <1>2, <2>1
    <3>4. TaskRow(t) \in LockedRows
      BY RowShapes
    <3>5. ASSUME NEW j \in 1 .. Len(todo), j < i + 1, todo[j].row = TaskRow(t), row # TaskRow(t)
          PROVE  \E k \in 1 .. Len(rest) : k < i /\ rest[k].row = TaskRow(t)
      <4>1. j - 1 \in 1 .. Len(rest) /\ j - 1 < i
        BY <1>2, <1>8, <3>5
      <4>2. rest[j - 1] = todo[j]
        BY <1>2, <4>1
      <4> QED
        BY <3>5, <4>1, <4>2
    <3> QED
      BY <1>6, <1>8, <3>1, <3>2, <3>3, <3>4, <3>5
  <2> QED
    BY <1>4, <1>5, <2>1, <2>2, <2>3, <2>4 DEF OrderKept, Before
<1>13. Owns(x)'
  <2>1. Owns(x) /\ tx[x].listed \subseteq OwnedTasks /\ tx[x].op # "none"
    <3>1. Owns(x) /\ tx[x] \in Tx
      BY <1>1 DEF LockInv, Owning
    <3>2. tx[x].op # "none"
      BY <1>1, <3>1 DEF Owns, Ended, todo
    <3> QED
      BY <3>1, <3>2 DEF Tx
  <2>2. todo = <<Wait(UserRow)>> => row = UserRow /\ Len(todo) = 1
    BY DEF Wait
  <2>3. UserRow \in LockedRows /\ \A t \in tx[x].listed : TaskRow(t) \in LockedRows
    BY <2>1, RowShapes
  <2>4. tx[x].op \in {"enqueue", "delete"} => Holds(x, UserRow)'
    BY <1>6, <2>1, <2>2, <2>3 DEF Owns, todo
  <2>5. ASSUME tx[x].op = "delete"
        PROVE  /\ \A r \in LockedRows :
                    Holds(x, r)' => r = UserRow \/ \E t \in tx[x].listed : r = TaskRow(t)
               /\ \A t \in tx[x].listed :
                    Holds(x, TaskRow(t))' \/ \E i \in 1 .. Len(rest) : rest[i].row = TaskRow(t)
               /\ \A i \in 1 .. Len(rest) : \E t \in tx[x].listed : rest[i].row = TaskRow(t)
    <3>1. /\ \A r \in LockedRows :
                Holds(x, r) => r = UserRow \/ \E t \in tx[x].listed : r = TaskRow(t)
          /\ \A t \in tx[x].listed :
                Holds(x, TaskRow(t)) \/ \E i \in 1 .. Len(todo) : todo[i].row = TaskRow(t)
          /\ \A i \in 1 .. Len(todo) :
                todo = <<Wait(UserRow)>> \/ \E t \in tx[x].listed : todo[i].row = TaskRow(t)
      BY <2>1, <2>5 DEF Owns, todo
    <3>2. row = UserRow \/ \E t \in tx[x].listed : row = TaskRow(t)
      BY <1>10, <2>2, <3>1
    <3>3. \A i \in 1 .. Len(rest) : todo # <<Wait(UserRow)>>
      BY <1>2, <2>2
    <3>4. ASSUME NEW t \in tx[x].listed, NEW j \in 1 .. Len(todo), todo[j].row = TaskRow(t), row # TaskRow(t)
          PROVE  \E k \in 1 .. Len(rest) : rest[k].row = TaskRow(t)
      <4>1. j - 1 \in 1 .. Len(rest)
        BY <1>2, <3>4
      <4>2. rest[j - 1] = todo[j]
        BY <1>2, <4>1
      <4> QED
        BY <3>4, <4>1, <4>2
    <3> QED
      BY <1>6, <1>8, <2>3, <3>1, <3>2, <3>3, <3>4
  <2>6. Deleting(x)' => Holds(x, UserRow)'
    BY <1>4, <1>5, <1>6, <2>1, <2>3 DEF Deleting, Owns
  <2> QED
    BY <1>4, <1>5, <2>1, <2>4, <2>5, <2>6 DEF Owns
<1>14. ListsAll'
  <2>1. ASSUME NEW y \in Txs PROVE tx'[y].op = tx[y].op /\ tx'[y].listed = tx[y].listed
    BY <1>1, <1>3, <1>4, <1>5
  <2> QED
    BY <1>1, <2>1 DEF LockInv, ListsAll, Deleting, Cancels
<1>15. LockTypes'
  BY <1>1, <1>5 DEF LockInv, LockTypes
<1> QED
  BY <1>4, <1>5, <1>7, <1>11, <1>12, <1>13, <1>14, <1>15, StepOf

\* Cleanup has the tasks whose events it waits for; the publisher waits for nothing.
LEMMA TakeFreeKeeps == ASSUME LockInv, NEW x \in Txs, TakeFree(x) PROVE LockInv'
<1>1. PICK T \in (SUBSET OwnedTasks) \ {{}}, k \in {"task", "event"} :
         /\ \A t \in T : Free(<<k, t>>)
         /\ holder' = [row \in LockedRows |-> IF row[1] = k /\ row[2] \in T THEN x ELSE holder[row]]
         /\ \E order \in Orders(IF k = "task" THEN {t \in T : stored[t] = "live"} ELSE {}) :
              tx' = [tx EXCEPT ![x] = [op |-> IF k = "task" THEN "cleanup" ELSE "publish", task |-> 0, listed |-> T,
                                       todo |-> [i \in DOMAIN order |-> Wait(EventRow(order[i]))]]]
  BY DEF TakeFree
<1> DEFINE L == IF k = "task" THEN {t \in T : stored[t] = "live"} ELSE {}
<1>2. PICK order \in Orders(L) :
         tx' = [tx EXCEPT ![x] = [op |-> IF k = "task" THEN "cleanup" ELSE "publish", task |-> 0, listed |-> T,
                                  todo |-> [i \in DOMAIN order |-> Wait(EventRow(order[i]))]]]
  BY <1>1
<1> DEFINE N == Cardinality(L)
           todo == [i \in DOMAIN order |-> Wait(EventRow(order[i]))]
           new == [op |-> IF k = "task" THEN "cleanup" ELSE "publish", task |-> 0, listed |-> T, todo |-> todo]
<1>3. /\ L \in SUBSET OwnedTasks /\ L \subseteq T /\ IsFiniteSet(L) /\ N \in Nat /\ order \in [1 .. N -> L]
      /\ k = "event" => L = {} /\ N = 0
  <2>1. L \in SUBSET OwnedTasks /\ L \subseteq T /\ (k = "event" => L = {})
    BY <1>1
  <2> HIDE DEF L
  <2> QED
    BY <2>1, TasksAreNumbers, FS_Subset, FS_CardinalityType, FS_EmptySet DEF Orders
<1> HIDE DEF L, N
<1>4. /\ todo \in Seq(RowLock) /\ Len(todo) = N
      /\ \A i \in 1 .. N : \E t \in L : todo[i].row = EventRow(t)
  <2>1. \A i \in 1 .. N : order[i] \in L /\ EventRow(order[i]) \in LockedRows
    BY <1>3, RowShapes
  <2>2. DOMAIN order = 1 .. N
    BY <1>3
  <2> QED
    BY <1>3, <2>1, <2>2 DEF Wait, RowLock
<1> HIDE DEF todo
<1>5. /\ new \in Tx /\ new.op \in {"cleanup", "publish"} /\ new.todo = todo /\ new.listed = T
  BY <1>1, <1>4 DEF Tx, Ops
<1>6. tx' = [tx EXCEPT ![x] = new]
  BY <1>2 DEF todo
<1> HIDE DEF new
<1>7. /\ holder \in [LockedRows -> Txs \cup {Nobody}] /\ tx \in [Txs -> Tx] /\ tx[x] = Ended
      /\ HoldsNothing(x) /\ Nobody \notin Txs /\ UNCHANGED stored
  BY LockAssumption DEF LockInv, LockTypes, Owning, Owns, TakeFree, Ended
<1>8. /\ holder' \in [LockedRows -> Txs \cup {Nobody}] /\ tx' \in [Txs -> Tx] /\ tx'[x] = new
      /\ \A row \in LockedRows : Holds(x, row)' <=> row[1] = k /\ row[2] \in T
  BY <1>1, <1>5, <1>6, <1>7 DEF HoldsNothing, Holds
<1>9. Others(x)
  <2>1. ASSUME NEW row \in LockedRows, row[1] = k, row[2] \in T PROVE Free(row)
    BY <1>1, <2>1, RowShapes DEF TaskRow, EventRow, UserRow
  <2> QED
    BY <1>1, <1>6, <1>7, <1>8, <2>1 DEF Others, Holds, Free
<1>10. LockTypes'
  BY <1>7, <1>8 DEF LockInv, LockTypes
<1>11. EventsLast(x)'
  <2>1. CASE k = "task"
    BY <1>8, <2>1, RowShapes DEF EventsLast
  <2>2. CASE k = "event"
    <3>1. todo = <<>>
      BY <1>3, <1>4, <2>2
    <3> QED
      BY <1>5, <1>8, <3>1 DEF EventsLast
  <2> QED
    BY <1>1, <2>1, <2>2
<1>12. ASSUME NEW i \in 1 .. Len(tx'[x].todo) PROVE OrderKept(x, i)'
  <2>1. tx'[x].todo = todo /\ i \in 1 .. N /\ k = "task"
    BY <1>1, <1>3, <1>4, <1>5, <1>8, <1>12
  <2>2. PICK t \in L : todo[i].row = EventRow(t)
    BY <1>4, <2>1
  <2>3. t \in OwnedTasks /\ t \in T /\ Holds(x, TaskRow(t))'
    BY <1>3, <1>8, <2>1, RowShapes
  <2>4. \A j \in 1 .. Len(todo) : \E s \in OwnedTasks : todo[j].row = EventRow(s)
    BY <1>3, <1>4
  <2> QED
    BY <2>1, <2>2, <2>3, <2>4, RowShapes DEF OrderKept
<1>13. Owns(x)' /\ ListsAll'
  BY <1>5, <1>6, <1>7, <1>8 DEF Owns, ListsAll, LockInv, Deleting, Cancels
<1> QED
  BY <1>9, <1>10, <1>11, <1>12, <1>13, StepOf

-----------------------------------------------------------------------------
(* The two lists of a deletion *)

\* A deletion with the owner and nothing else lists all there is to cancel.
LEMMA ListTasksKeeps == ASSUME LockInv, NEW x \in Txs, ListTasks(x) PROVE LockInv'
<1> DEFINE T == {t \in OwnedTasks : Listed(t)}
           N == Cardinality(T)
           todo == InOrder(T, TaskRow)
           new == [tx[x] EXCEPT !.listed = T, !.todo = todo]
<1>1. /\ tx \in [Txs -> Tx] /\ tx[x] \in Tx /\ Owns(x) /\ tx[x].op = "delete" /\ tx[x].listed = {}
      /\ Holds(x, UserRow) /\ tx' = [tx EXCEPT ![x] = new] /\ UNCHANGED <<holder, stored>>
  <2>1. tx' = [tx EXCEPT ![x] = new]
    BY DEF ListTasks, LockInv, LockTypes
  <2> HIDE DEF new
  <2> QED
    BY <2>1 DEF ListTasks, LockInv, LockTypes, Owning
<1>2. T \in SUBSET OwnedTasks
  OBVIOUS
<1>3. /\ N \in Nat /\ Ascending(T) \in [1 .. N -> T]
      /\ \A t \in T : \E n \in 1 .. N : Ascending(T)[n] = t
      /\ \A i, j \in 1 .. N : i < j => Ascending(T)[i] < Ascending(T)[j]
  <2> HIDE DEF T
  <2> QED
    BY <1>2, AscendingLists
<1>4. todo = [n \in 1 .. N |-> Wait(TaskRow(Ascending(T)[n]))]
  BY DEF InOrder
<1> HIDE DEF T, N, todo
<1>5. /\ todo \in Seq(RowLock) /\ Len(todo) = N
      /\ \A i \in 1 .. N : todo[i].row = TaskRow(Ascending(T)[i]) /\ Ascending(T)[i] \in T
  BY <1>2, <1>3, <1>4, RowShapes DEF Wait, RowLock
<1>6. new \in Tx /\ new.op = "delete" /\ new.listed = T /\ new.todo = todo
  BY <1>1, <1>2, <1>5 DEF Tx
<1> HIDE DEF new
<1>7. tx'[x] = new /\ tx' \in [Txs -> Tx] /\ Others(x) /\ \A row \in LockedRows : Holds(x, row)' <=> Holds(x, row)
  BY <1>1, <1>6 DEF Others, Holds
<1>8. LockTypes'
  BY <1>1, <1>7 DEF LockInv, LockTypes
<1>9. \A row \in LockedRows : Holds(x, row) => row = UserRow
  BY <1>1 DEF Owns
<1>10. EventsLast(x)'
  BY <1>7, <1>9, RowShapes DEF EventsLast
<1>11. ASSUME NEW i \in 1 .. Len(tx'[x].todo) PROVE OrderKept(x, i)'
  <2>1. tx'[x].todo = todo /\ i \in 1 .. N
    BY <1>5, <1>6, <1>7, <1>11
  <2>2. PICK t \in T : t = Ascending(T)[i] /\ todo[i].row = TaskRow(t)
    BY <1>5, <2>1
  <2>3. t \in OwnedTasks /\ todo[i].row # UserRow /\ \A s \in OwnedTasks : todo[i].row # EventRow(s)
    BY <1>2, <2>2, RowShapes
  <2>4. ASSUME NEW s \in OwnedTasks, todo[i].row = TaskRow(s)
        PROVE  /\ \A row \in LockedRows : Holds(x, row)' => Before(row, s)
               /\ \A j \in 1 .. Len(todo) : j < i => Before(todo[j].row, s)
    <3>1. s = t
      <4>1. TaskRow(s) = TaskRow(t) /\ t \in OwnedTasks
        BY <2>2, <2>3, <2>4
      <4> QED
        BY <4>1, RowShapes
    <3>2. ASSUME NEW j \in 1 .. N, j < i PROVE Before(todo[j].row, s)
      BY <1>2, <1>3, <1>5, <2>1, <2>2, <3>1, <3>2 DEF Before
    <3> QED
      BY <1>5, <1>7, <1>9, <3>2 DEF Before
  <2> QED
    BY <2>1, <2>3, <2>4 DEF OrderKept, Before
<1>12. Owns(x)'
  <2>1. UserRow \in LockedRows
    BY RowShapes
  <2>2. \A t \in T : \E i \in 1 .. Len(todo) : todo[i].row = TaskRow(t)
    BY <1>3, <1>5
  <2> QED
    BY <1>1, <1>5, <1>6, <1>7, <1>9, <2>1, <2>2 DEF Owns, Deleting
<1>13. ListsAll'
  <2>1. \A t \in OwnedTasks : Cancels(t) => t \in T
    BY DEF T, Listed
  <2> QED
    BY <1>1, <1>6, <1>7, <2>1 DEF LockInv, ListsAll, Deleting, Cancels
<1> QED
  BY <1>7, <1>8, <1>10, <1>11, <1>12, <1>13, StepOf

\* With all it listed locked, it goes on to the events of those tasks.
LEMMA LockEventsKeeps == ASSUME LockInv, NEW x \in Txs, LockEvents(x) PROVE LockInv'
<1> DEFINE T == {t \in tx[x].listed : Cancels(t)}
           N == Cardinality(T)
           todo == InOrder(T, EventRow)
           new == [tx[x] EXCEPT !.op = "cancel", !.todo = todo]
<1>1. /\ tx \in [Txs -> Tx] /\ tx[x] \in Tx /\ Owns(x) /\ tx[x].op = "delete" /\ tx[x].listed # {}
      /\ tx[x].todo = <<>> /\ tx' = [tx EXCEPT ![x] = new] /\ UNCHANGED <<holder, stored>>
  <2>1. tx' = [tx EXCEPT ![x] = new]
    BY DEF LockEvents, LockInv, LockTypes
  <2> HIDE DEF new
  <2> QED
    BY <2>1 DEF LockEvents, LockInv, LockTypes, Owning
<1>2. T \in SUBSET OwnedTasks /\ T \subseteq tx[x].listed
  BY <1>1 DEF Tx
<1>3. N \in Nat /\ Ascending(T) \in [1 .. N -> T]
  <2> HIDE DEF T
  <2> QED
    BY <1>2, AscendingLists
<1>4. todo = [n \in 1 .. N |-> Wait(EventRow(Ascending(T)[n]))]
  BY DEF InOrder
<1> HIDE DEF T, N, todo
<1>5. /\ todo \in Seq(RowLock) /\ Len(todo) = N
      /\ \A i \in 1 .. N : \E t \in T : todo[i].row = EventRow(t)
  BY <1>2, <1>3, <1>4, RowShapes DEF Wait, RowLock
<1>6. new \in Tx /\ new.op = "cancel" /\ new.listed = tx[x].listed /\ new.todo = todo
  BY <1>1, <1>5 DEF Tx, Ops
<1> HIDE DEF new
<1>7. tx'[x] = new /\ tx' \in [Txs -> Tx] /\ Others(x) /\ \A row \in LockedRows : Holds(x, row)' <=> Holds(x, row)
  BY <1>1, <1>6 DEF Others, Holds
<1>8. LockTypes'
  BY <1>1, <1>7 DEF LockInv, LockTypes
<1>9. /\ \A row \in LockedRows : Holds(x, row) => row = UserRow \/ \E t \in tx[x].listed : row = TaskRow(t)
      /\ \A t \in tx[x].listed : Holds(x, TaskRow(t))
      /\ Holds(x, UserRow)
  <2>1. Len(tx[x].todo) = 0
    BY <1>1
  <2> QED
    BY <1>1, <2>1 DEF Owns, Deleting
<1>10. EventsLast(x)'
  <2>1. tx[x].listed \subseteq OwnedTasks
    BY <1>1 DEF Tx
  <2> QED
    BY <1>7, <1>9, <2>1, RowShapes DEF EventsLast
<1>11. ASSUME NEW i \in 1 .. Len(tx'[x].todo) PROVE OrderKept(x, i)'
  <2>1. tx'[x].todo = todo /\ i \in 1 .. N
    BY <1>5, <1>6, <1>7, <1>11
  <2>2. PICK t \in T : todo[i].row = EventRow(t)
    BY <1>5, <2>1
  <2>3. t \in OwnedTasks /\ Holds(x, TaskRow(t))'
    BY <1>2, <1>7, <1>9, <2>2, RowShapes
  <2>4. \A j \in 1 .. Len(todo) : \E s \in OwnedTasks : todo[j].row = EventRow(s)
    BY <1>2, <1>5
  <2> QED
    BY <2>1, <2>2, <2>3, <2>4, RowShapes DEF OrderKept
<1>12. Owns(x)'
  BY <1>6, <1>7, <1>9, RowShapes DEF Owns
<1>13. ListsAll'
  BY <1>1, <1>6, <1>7 DEF LockInv, ListsAll, Deleting, Cancels
<1> QED
  BY <1>7, <1>8, <1>10, <1>11, <1>12, <1>13, StepOf

-----------------------------------------------------------------------------
(* Theorems *)

\* LockInv holds at first.
LEMMA LockInitHolds == LockInit => LockInv
<1> SUFFICES ASSUME LockInit PROVE LockInv
  OBVIOUS
<1>1. /\ holder = [row \in LockedRows |-> Nobody] /\ tx = [x \in Txs |-> Ended] /\ Nobody \notin Txs
      /\ stored \in [OwnedTasks -> {"absent", "live"}]
  BY LockAssumption DEF LockInit
<1>2. Ended \in Tx /\ Ended.todo = <<>> /\ Len(Ended.todo) = 0 /\ Ended.op = "none"
  BY DEF Ended, Tx, Ops
<1>3. LockTypes
  BY <1>1, <1>2 DEF LockTypes
<1>4. \A x \in Txs : tx[x] = Ended /\ HoldsNothing(x)
  BY <1>1 DEF HoldsNothing, Holds
<1>5. LockOrder
  BY <1>2, <1>4, RowShapes DEF LockOrder, EventsLast, HoldsNothing
<1>6. Owning /\ ListsAll
  BY <1>2, <1>4 DEF Owning, Owns, ListsAll, Deleting
<1> QED
  BY <1>3, <1>5, <1>6 DEF LockInv

\* The invariant of the locks: owner before tasks before events, tasks in their order, and
\* what a deletion has and has listed.
THEOREM LocksInductive == LockSpec => []LockInv
<1>1. LockInv /\ [LockNext]_lockVars => LockInv'
  <2> SUFFICES ASSUME LockInv, [LockNext]_lockVars PROVE LockInv'
    OBVIOUS
  <2>1. CASE UNCHANGED lockVars
    BY <2>1 DEF lockVars, LockInv, LockTypes, LockOrder, EventsLast, OrderKept, Before, Owning, Owns,
       ListsAll, Deleting, HoldsNothing, Holds, Cancels
  <2>2. ASSUME NEW x \in Txs,
               BeginTx(x) \/ TakeFree(x) \/ Lock(x) \/ ListTasks(x) \/ LockEvents(x) \/ EndTx(x) \/ Commit(x)
        PROVE  LockInv'
    BY <2>2, BeginTxKeeps, TakeFreeKeeps, LockKeeps, ListTasksKeeps, LockEventsKeeps, EndKeeps, RowsCommitKeep
  <2> QED
    BY <2>1, <2>2 DEF LockNext
<1> QED
  BY <1>1, LockInitHolds, PTL DEF LockSpec

\* No transactions of an owner (enqueue, claim, completion, failure, discard, deletion,
\* cleanup, publication) wait for each other in a circle, however many there are.
THEOREM NobodyWaitsInACircle == LockSpec => []NoWaitCycle
  BY LocksInductive, NoCircle, PTL

\* When the deletion of a resume commits, no task of the owner is live and no result is kept.
THEOREM DeletionIsComplete == LockSpec => DeletionMissesNothing
<1>1. ASSUME LockInv, NEW x \in Txs, Deletes(x), Commit(x), NEW t \in OwnedTasks
      PROVE  stored'[t] \in {"absent", "over"}
  <2>1. /\ stored \in [OwnedTasks -> {"absent", "live", "kept", "over"}] /\ Owns(x)
        /\ tx[x].op \in {"delete", "cancel"}
    BY <1>1 DEF LockInv, LockTypes, Owning, Deletes
  <2>2. stored' = [n \in OwnedTasks |-> IF n \in tx[x].listed /\ Cancels(n) THEN "over" ELSE stored[n]]
    BY <1>1, <2>1 DEF Commit
  <2>3. Cancels(t) => t \in tx[x].listed
    BY <1>1 DEF LockInv, ListsAll, Deleting, Deletes, Listed
  <2> QED
    BY <1>1, <2>1, <2>2, <2>3 DEF Cancels
<1>2. LockInv => [\A x \in Txs : Deletes(x) /\ Commit(x) =>
                    \A t \in OwnedTasks : stored'[t] \in {"absent", "over"}]_lockVars
  BY <1>1
<1> QED
  BY <1>2, LocksInductive, PTL DEF DeletionMissesNothing
=============================================================================
