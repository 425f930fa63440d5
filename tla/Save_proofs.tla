----------------------------- MODULE Save_proofs -----------------------------
(***************************************************************************)
(* The save endpoint keeps its promises for any requests, keys, contents   *)
(* and revisions: it implements SaveOnce, and its answers stay true.  And  *)
(* the workspace saves honestly: its keys never mix payloads, a conflict   *)
(* it is told of is somebody else's write, and it never overwrites what it *)
(* does not display, whatever answers are lost and however late a request  *)
(* it gave up is served.                                                   *)
(*                                                                         *)
(* AnswersHold is not inductive.  A conflict stays true because revisions  *)
(* only grow: a request never expects more than the account has, and what  *)
(* it saw when it was authenticated lies between the two.  A success and a *)
(* review stay true because a stored operation is never rewritten; the     *)
(* request may know of it (steps "touch" and "replay") before it answers.  *)
(*                                                                         *)
(* The workspace's invariant has three parts beside ServerInv.  A key has  *)
(* one payload: that of every request that carries it, of its row, and of  *)
(* the attempt that holds it.  The attempt of a running save() is its      *)
(* request's.  And the displayed profile is what the account has if it is  *)
(* of the account's revision; no request, not even an abandoned one,       *)
(* expects a later one.                                                    *)
(***************************************************************************)
EXTENDS MCSave, TLAPS


Request == [pc : Steps \cup {"idle"}, key : Keys \cup {None}, exp : Revs,
            new : Contents \cup {None}, seen : Revs,
            ans : Answers \cup {"none"}, res : Revs]

Operation == [state : {"NONE", "SUCCEEDED", "FAILED"}, exp : Revs, result : Revs,
              new : Contents \cup {None}, live : BOOLEAN]

\* Operation o is stored for the payload of request q.
For(q, o) == o.exp = q.exp /\ o.new = q.new

\* What request q says, if it has been answered, is true of the operation of its key.
Truthful(q, o) ==
    /\ q.ans = "SAVED" => o.state = "SUCCEEDED" /\ For(q, o) /\ o.result = q.res
    /\ q.ans = "REVIEW_REQUIRED" => o.state = "FAILED" /\ For(q, o)
    /\ q.ans = "REVISION_CONFLICT" => ~(o.state = "SUCCEEDED" /\ For(q, o))

\* What a request relies on, with o the operation of its key and n the account's revision
Sound(q, o, n) ==
    /\ q.exp <= n /\ q.new \in Contents
    /\ q.pc = "lookup" => q.exp <= q.seen /\ q.seen <= n
    /\ q.pc = "replay" => o.state = "FAILED" /\ For(q, o)
    /\ q.pc = "touch" => o.state = "SUCCEEDED" /\ For(q, o) /\ o.result = q.res
    /\ q.pc = "answered" => Truthful(q, o) /\ (q.ans = "REVISION_CONFLICT" => q.exp < n)

RequestsSound ==
    \A r \in Reqs :
        req[r].pc # "idle" => req[r].key \in Keys /\ Sound(req[r], ops[req[r].key], rev)

ServerInv == SaveTypeOK /\ rev <= MaxRev /\ RequestsSound

-----------------------------------------------------------------------------
(* Steps *)

\* The type invariant, in terms of Request and Operation
LEMMA Types ==
    SaveTypeOK <=> /\ rev \in Revs /\ content \in Contents \cup {None}
                   /\ ops \in [Keys -> Operation] /\ req \in [Reqs -> Request]
  BY DEF SaveTypeOK, Request, Operation

\* A stored operation is never rewritten and the revision never falls; what is stored anew
\* was asked for at the revision the account had.
Kept ==
    /\ rev <= rev'
    /\ \A k \in Keys :
        \/ /\ ops'[k].state = ops[k].state /\ ops'[k].exp = ops[k].exp
           /\ ops'[k].new = ops[k].new /\ ops'[k].result = ops[k].result
        \/ /\ ops[k].state = "NONE"
           /\ ops'[k].state = "SUCCEEDED" => ops'[k].exp = rev

\* A request that does not move stays sound.
LEMMA SoundKept ==
    ASSUME ServerInv, Kept, rev' \in Revs, NEW q \in Request, NEW k \in Keys,
           ops' \in [Keys -> Operation],
           Sound(q, ops[k], rev)
    PROVE  Sound(q, ops'[k], rev')
  BY SaveAssumption DEF ServerInv, SaveTypeOK, Kept, Sound, Truthful, For, Revs, Request, Operation

\* A step that moves one request, while the rows keep what is stored.
LEMMA OneMoves ==
    ASSUME ServerInv, Kept, rev' \in Revs, rev' <= MaxRev, content' \in Contents \cup {None},
           ops' \in [Keys -> Operation],
           NEW r \in Reqs, NEW q \in Request, req' = [req EXCEPT ![r] = q],
           q.pc # "idle" => q.key \in Keys /\ Sound(q, ops'[q.key], rev')
    PROVE  ServerInv'
<1>1. req \in [Reqs -> Request]
  BY Types DEF ServerInv
<1>2. req' \in [Reqs -> Request]
  BY <1>1
<1>3. SaveTypeOK'
  BY <1>2 DEF SaveTypeOK, Request, Operation
<1>4. ASSUME NEW p \in Reqs, req'[p].pc # "idle"
      PROVE  req'[p].key \in Keys /\ Sound(req'[p], ops'[req'[p].key], rev')
  <2>1. CASE p = r
    BY <1>1, <1>4, <2>1
  <2>2. CASE p # r
    <3>1. req'[p] = req[p] /\ req[p] \in Request
      BY <1>1, <2>2
    <3>2. req[p].key \in Keys /\ Sound(req[p], ops[req[p].key], rev)
      BY <1>4, <3>1 DEF ServerInv, RequestsSound
    <3> QED
      BY <3>1, <3>2, SoundKept
  <2> QED
    BY <2>1, <2>2
<1> QED
  BY <1>3, <1>4 DEF ServerInv, RequestsSound

\* A step that moves no request.
LEMMA NoneMoves ==
    ASSUME ServerInv, Kept, rev' \in Revs, rev' <= MaxRev, content' \in Contents \cup {None},
           ops' \in [Keys -> Operation], req' = req
    PROVE  ServerInv'
<1>1. req \in [Reqs -> Request]
  BY Types DEF ServerInv
<1>2. SaveTypeOK'
  BY <1>1 DEF SaveTypeOK, Request, Operation
<1>3. ASSUME NEW p \in Reqs, req[p].pc # "idle"
      PROVE  req[p].key \in Keys /\ Sound(req[p], ops'[req[p].key], rev')
  <2>1. req[p].key \in Keys /\ Sound(req[p], ops[req[p].key], rev)
    BY <1>3 DEF ServerInv, RequestsSound
  <2> QED
    BY <1>1, <2>1, SoundKept
<1> QED
  BY <1>2, <1>3 DEF ServerInv, RequestsSound

\* A step that moves one request and touches nothing else.
LEMMA OnlyOneMoves ==
    ASSUME ServerInv, UNCHANGED <<rev, content, ops>>,
           NEW r \in Reqs, NEW q \in Request, req' = [req EXCEPT ![r] = q],
           q.pc # "idle" => q.key \in Keys /\ Sound(q, ops[q.key], rev)
    PROVE  ServerInv'
<1>1. Kept /\ rev' \in Revs /\ rev' <= MaxRev /\ content' \in Contents \cup {None}
      /\ ops' \in [Keys -> Operation]
  BY Types DEF ServerInv, Kept, Revs
<1> QED
  BY <1>1, OneMoves

-----------------------------------------------------------------------------
(* The requests *)

\* What the invariant says of a request that is under way
LEMMA RequestFacts ==
    ASSUME ServerInv, NEW r \in Reqs, req[r].pc # "idle"
    PROVE  /\ req \in [Reqs -> Request] /\ req[r] \in Request
           /\ ops \in [Keys -> Operation] /\ req[r].key \in Keys /\ OpOf(r) \in Operation
           /\ rev \in Revs /\ rev <= MaxRev /\ Sound(req[r], OpOf(r), rev)
  BY Types DEF ServerInv, RequestsSound, OpOf

\* Going on to a step that relies on nothing new
LEMMA GoesOn ==
    ASSUME ServerInv, UNCHANGED <<rev, content, ops>>,
           NEW r \in Reqs, req[r].pc # "idle",
           NEW step \in {"recheck", "review", "save", "replay"}, Go(r, step),
           step = "replay" => ReviewStored(r)
    PROVE  ServerInv'
<1>0. /\ req \in [Reqs -> Request] /\ req[r] \in Request
      /\ ops \in [Keys -> Operation] /\ req[r].key \in Keys /\ OpOf(r) \in Operation
      /\ rev \in Revs /\ rev <= MaxRev /\ Sound(req[r], OpOf(r), rev) /\ 0 \in Revs
  BY RequestFacts, SaveAssumption DEF Revs
<1> DEFINE q == [req[r] EXCEPT !.pc = step, !.seen = 0]
<1>1. q \in Request
  BY <1>0 DEF Request, Steps
<1>2. q.key = req[r].key /\ q.key \in Keys /\ Sound(q, ops[q.key], rev)
  BY <1>0 DEF Sound, Request, For, OpOf, ReviewStored, SamePayload
<1>3. req' = [req EXCEPT ![r] = q]
  BY DEF Go
<1> QED
  BY <1>1, <1>2, <1>3, OnlyOneMoves

\* An answer that is true of what is stored
LEMMA AnswersSound ==
    ASSUME ServerInv, UNCHANGED <<rev, content, ops>>,
           NEW r \in Reqs, req[r].pc # "idle",
           NEW a \in Answers, NEW n \in Revs, AnswerWith(r, a, n),
           a = "SAVED" => OpOf(r).state = "SUCCEEDED" /\ SamePayload(r) /\ OpOf(r).result = n,
           a = "REVIEW_REQUIRED" => OpOf(r).state = "FAILED" /\ SamePayload(r),
           a = "REVISION_CONFLICT" => OpOf(r).state # "SUCCEEDED" /\ req[r].exp < rev
    PROVE  ServerInv'
<1>0. /\ req \in [Reqs -> Request] /\ req[r] \in Request
      /\ ops \in [Keys -> Operation] /\ req[r].key \in Keys /\ OpOf(r) \in Operation
      /\ rev \in Revs /\ rev <= MaxRev /\ Sound(req[r], OpOf(r), rev) /\ 0 \in Revs
  BY RequestFacts, SaveAssumption DEF Revs
<1> DEFINE q == [req[r] EXCEPT !.pc = "answered", !.seen = 0, !.ans = a, !.res = n]
<1>1. q \in Request
  BY <1>0 DEF Request, Steps
<1>2. q.key = req[r].key /\ q.key \in Keys /\ Sound(q, ops[q.key], rev)
  BY <1>0 DEF Sound, Truthful, Request, For, OpOf, SamePayload
<1>3. req' = [req EXCEPT ![r] = q]
  BY DEF AnswerWith
<1> QED
  BY <1>1, <1>2, <1>3, OnlyOneMoves

\* An answer that says nothing of the operation
LEMMA PlainAnswers ==
    ASSUME ServerInv, UNCHANGED <<rev, content, ops>>,
           NEW r \in Reqs, req[r].pc # "idle",
           NEW a \in Answers \ {"SAVED", "REVIEW_REQUIRED", "REVISION_CONFLICT"}, Answer(r, a)
    PROVE  ServerInv'
<1>1. 0 \in Revs
  BY SaveAssumption DEF Revs
<1> QED
  BY <1>1, AnswersSound DEF Answer

\* _replay_or_raise, where its callers call it
LEMMA Replays ==
    ASSUME ServerInv, UNCHANGED <<rev, content, ops>>,
           NEW r \in Reqs, req[r].pc # "idle", Stored(r), ReplayOrRaise(r),
           ~(ReviewStored(r) /\ OpOf(r).live)
    PROVE  ServerInv'
<1>1. CASE Answer(r, "IDEMPOTENCY_CONFLICT") \/ Answer(r, "OPERATION_EXPIRED")
  BY <1>1, PlainAnswers DEF Answers
<1>2. CASE SamePayload(r) /\ OpOf(r).live /\ AnswerWith(r, "SAVED", OpOf(r).result)
  <2>1. OpOf(r).state = "SUCCEEDED" /\ OpOf(r).result \in Revs
    BY <1>2, RequestFacts DEF Stored, ReviewStored, Operation
  <2> QED
    BY <1>2, <2>1, AnswersSound DEF Answers
<1> QED
  BY <1>1, <1>2 DEF ReplayOrRaise

\* The steps of a request before the save transaction keep ServerInv.
LEMMA EarlySteps ==
    ASSUME ServerInv, NEW r \in Reqs,
           Authenticate(r) \/ Lookup(r) \/ Recheck(r) \/ ReplayReview(r)
    PROVE  ServerInv'
<1>1. req[r].pc # "idle" /\ UNCHANGED <<rev, content, ops>>
  BY DEF Authenticate, Lookup, Recheck, ReplayReview
<1>2. CASE Authenticate(r)
  <2>1. CASE Answer(r, "AUTH_REQUIRED")
    BY <1>1, <2>1, PlainAnswers DEF Answers
  <2>2. CASE req' = [req EXCEPT ![r].pc = "lookup", ![r].seen = rev]
    <3> DEFINE q == [req[r] EXCEPT !.pc = "lookup", !.seen = rev]
    <3>0. /\ req[r] \in Request /\ req[r].key \in Keys /\ rev \in Revs
          /\ Sound(req[r], OpOf(r), rev)
      BY <1>1, RequestFacts
    <3>1. q \in Request
      BY <3>0 DEF Request, Steps
    <3>2. q.key = req[r].key /\ Sound(q, ops[q.key], rev)
      BY <3>0 DEF Request, Revs, Sound, OpOf
    <3> QED
      BY <1>1, <2>2, <3>0, <3>1, <3>2, OnlyOneMoves
  <2> QED
    BY <1>2, <2>1, <2>2 DEF Authenticate
<1>3. CASE Lookup(r)
  <2>1. CASE Stored(r) /\ ReviewStored(r) /\ OpOf(r).live /\ Go(r, "replay")
    BY <1>1, <2>1, GoesOn
  <2>2. CASE Stored(r) /\ ~(ReviewStored(r) /\ OpOf(r).live) /\ ReplayOrRaise(r)
    BY <1>1, <2>2, Replays
  <2>3. CASE ~Stored(r) /\ req[r].seen # req[r].exp /\ Answer(r, "REVISION_CONFLICT")
    <3>1. req[r].exp < rev /\ 0 \in Revs
      BY <1>1, <1>3, <2>3, RequestFacts, SaveAssumption DEF Lookup, Sound, Request, Revs
    <3>2. OpOf(r).state # "SUCCEEDED"
      BY <2>3 DEF Stored
    <3> QED
      BY <1>1, <2>3, <3>1, <3>2, AnswersSound DEF Answer, Answers
  <2>4. CASE Go(r, "recheck")
    BY <1>1, <2>4, GoesOn
  <2> QED
    BY <1>3, <2>1, <2>2, <2>3, <2>4 DEF Lookup
<1>4. CASE Recheck(r)
  <2>1. CASE Answer(r, "SERVICE_UNAVAILABLE")
    BY <1>1, <2>1, PlainAnswers DEF Answers
  <2>2. CASE Go(r, "review") \/ Go(r, "save")
    BY <1>1, <2>2, GoesOn
  <2> QED
    BY <1>4, <2>1, <2>2 DEF Recheck
<1>5. CASE ReplayReview(r)
  <2>1. CASE Answer(r, "REVIEW_REQUIRED")
    <3>1. OpOf(r).state = "FAILED" /\ SamePayload(r)
      BY <1>1, <1>5, RequestFacts DEF ReplayReview, Sound, For, SamePayload
    <3>2. 0 \in Revs
      BY SaveAssumption DEF Revs
    <3> QED
      BY <1>1, <2>1, <3>1, <3>2, AnswersSound DEF Answer, Answers
  <2>2. CASE Answer(r, "INTERNAL_ERROR")
    BY <1>1, <2>2, PlainAnswers DEF Answers
  <2> QED
    BY <1>5, <2>1, <2>2 DEF ReplayReview
<1> QED
  BY <1>2, <1>3, <1>4, <1>5
-----------------------------------------------------------------------------
(* Steps that store an operation or change the account *)

\* A row that was not there is stored for the payload of the request.
LEMMA StoreKeeps ==
    ASSUME ServerInv, NEW r \in Reqs, req[r].pc # "idle", ~Stored(r),
           NEW s \in {"SUCCEEDED", "FAILED"}, NEW n \in Revs, Store(r, s, n),
           rev' \in Revs, rev <= rev', s = "SUCCEEDED" => req[r].exp = rev
    PROVE  /\ Kept /\ ops' \in [Keys -> Operation]
           /\ ops'[req[r].key] = NewOp(r, s, n)
<1>0. /\ req[r] \in Request /\ req[r].key \in Keys
      /\ ops \in [Keys -> Operation] /\ OpOf(r) \in Operation
  BY RequestFacts
<1>1. NewOp(r, s, n) \in Operation
  BY <1>0 DEF NewOp, Operation, Request
<1>2. ops' \in [Keys -> Operation] /\ ops'[req[r].key] = NewOp(r, s, n)
  BY <1>0, <1>1 DEF Store
<1>3. \A k \in Keys : k # req[r].key => ops'[k] = ops[k]
  BY <1>0 DEF Store
<1>4. Kept
  BY <1>0, <1>2, <1>3 DEF Kept, NewOp, Stored, OpOf
<1> QED
  BY <1>2, <1>4

\* The insert of a REVIEW_REQUIRED row, or what came first, keeps ServerInv.
LEMMA ReviewStep ==
    ASSUME ServerInv, NEW r \in Reqs, RequireReview(r)
    PROVE  ServerInv'
<1>0. /\ req[r].pc # "idle" /\ req \in [Reqs -> Request] /\ req[r] \in Request
      /\ req[r].key \in Keys /\ rev \in Revs /\ rev <= MaxRev /\ 0 \in Revs
      /\ content \in Contents \cup {None} /\ Sound(req[r], OpOf(r), rev)
      /\ UNCHANGED <<rev, content>>
  BY RequestFacts, Types, SaveAssumption DEF RequireReview, ServerInv, Revs
<1>1. CASE ~Stored(r) /\ Store(r, "FAILED", 0) /\ Answer(r, "REVIEW_REQUIRED")
  <2> DEFINE q == [req[r] EXCEPT !.pc = "answered", !.seen = 0,
                                 !.ans = "REVIEW_REQUIRED", !.res = 0]
  <2>1. Kept /\ ops' \in [Keys -> Operation] /\ ops'[req[r].key] = NewOp(r, "FAILED", 0)
    BY <1>0, <1>1, StoreKeeps DEF Revs
  <2>2. q \in Request
    BY <1>0 DEF Request, Steps, Answers
  <2>3. q.key = req[r].key /\ Sound(q, ops'[q.key], rev)
    BY <1>0, <2>1 DEF Sound, Truthful, For, NewOp, Request
  <2>4. req' = [req EXCEPT ![r] = q]
    BY <1>1 DEF Answer, AnswerWith
  <2> QED
    BY <1>0, <2>1, <2>2, <2>3, <2>4, OneMoves
<1>2. CASE Stored(r) /\ ReviewStored(r) /\ Go(r, "replay") /\ UNCHANGED ops
  BY <1>0, <1>2, GoesOn
<1>3. CASE Stored(r) /\ ~ReviewStored(r) /\ ReplayOrRaise(r) /\ UNCHANGED ops
  BY <1>0, <1>3, Replays
<1>4. CASE Answer(r, "INTERNAL_ERROR") /\ UNCHANGED ops
  BY <1>0, <1>4, PlainAnswers DEF Answers
<1> QED
  BY <1>1, <1>2, <1>3, <1>4 DEF RequireReview

\* The save transaction keeps ServerInv.
LEMMA SaveStep ==
    ASSUME ServerInv, NEW r \in Reqs, SaveLocked(r)
    PROVE  ServerInv'
<1>0. /\ req[r].pc # "idle" /\ req \in [Reqs -> Request] /\ req[r] \in Request
      /\ req[r].key \in Keys /\ rev \in Revs /\ rev <= MaxRev /\ 0 \in Revs
      /\ content \in Contents \cup {None} /\ Sound(req[r], OpOf(r), rev)
  BY RequestFacts, Types, SaveAssumption DEF SaveLocked, ServerInv, Revs
<1>1. CASE SaveFindsOp(r)
  <2>1. CASE ReviewStored(r) /\ Go(r, "replay")
    BY <1>0, <1>1, <2>1, GoesOn DEF SaveFindsOp
  <2>2. CASE ~ReviewStored(r) /\ ReplayOrRaise(r)
    BY <1>0, <1>1, <2>2, Replays DEF SaveFindsOp
  <2> QED
    BY <1>1, <2>1, <2>2 DEF SaveFindsOp
<1>2. CASE SaveRefused(r)
  <2>1. CASE rev # req[r].exp /\ Answer(r, "REVISION_CONFLICT")
    <3>1. req[r].exp < rev
      BY <1>0, <2>1 DEF Sound, Request, Revs
    <3>2. OpOf(r).state # "SUCCEEDED" /\ UNCHANGED <<rev, content, ops>>
      BY <1>2 DEF SaveRefused, Stored
    <3> QED
      BY <1>0, <2>1, <3>1, <3>2, AnswersSound DEF Answer, Answers
  <2>2. CASE Answer(r, "TASK_NOT_FOUND") \/ Answer(r, "INTERNAL_ERROR")
    BY <1>0, <1>2, <2>2, PlainAnswers DEF Answers, SaveRefused
  <2> QED
    BY <1>2, <2>1, <2>2 DEF SaveRefused
<1>3. CASE SaveCommits(r)
  <2> DEFINE q == [req[r] EXCEPT !.pc = "touch", !.res = rev']
  <2>1. rev' \in Revs /\ rev' <= MaxRev /\ rev <= rev'
    BY <1>0, <1>3, SaveAssumption DEF SaveCommits, Revs
  <2>2. ~Stored(r) /\ Store(r, "SUCCEEDED", rev') /\ req[r].exp = rev
    BY <1>3 DEF SaveCommits
  <2>3. Kept /\ ops' \in [Keys -> Operation] /\ ops'[req[r].key] = NewOp(r, "SUCCEEDED", rev')
    BY <1>0, <2>1, <2>2, StoreKeeps
  <2>4. q \in Request
    BY <1>0, <2>1 DEF Request, Steps
  <2>5. q.key = req[r].key /\ Sound(q, ops'[q.key], rev')
    BY <1>0, <2>1, <2>3 DEF Sound, For, NewOp, Request, Revs
  <2>6. req' = [req EXCEPT ![r] = q] /\ content' \in Contents \cup {None}
    BY <1>0, <1>3 DEF SaveCommits, Sound
  <2> QED
    BY <1>0, <2>1, <2>3, <2>4, <2>5, <2>6, OneMoves
<1> QED
  BY <1>1, <1>2, <1>3 DEF SaveLocked

\* The touch of the session and the answer after it keep ServerInv.
LEMMA TouchStep ==
    ASSUME ServerInv, NEW r \in Reqs, TouchAndAnswer(r)
    PROVE  ServerInv'
<1>1. req[r].pc # "idle" /\ UNCHANGED <<rev, content, ops>>
  BY DEF TouchAndAnswer
<1>2. CASE AnswerWith(r, "SAVED", req[r].res)
  <2>1. /\ OpOf(r).state = "SUCCEEDED" /\ SamePayload(r)
        /\ OpOf(r).result = req[r].res /\ req[r].res \in Revs
    BY <1>1, RequestFacts DEF TouchAndAnswer, Sound, For, SamePayload, Request
  <2> QED
    BY <1>1, <1>2, <2>1, AnswersSound DEF Answers
<1>3. CASE Answer(r, "INTERNAL_ERROR")
  BY <1>1, <1>3, PlainAnswers DEF Answers
<1> QED
  BY <1>2, <1>3 DEF TouchAndAnswer

\* delete_resume and the expiry of an operation keep ServerInv.
LEMMA AccountSteps ==
    ASSUME ServerInv, DeleteResume \/ \E k \in Keys : OpExpires(k)
    PROVE  ServerInv'
<1>1. /\ rev \in Revs /\ rev <= MaxRev /\ content \in Contents \cup {None}
      /\ ops \in [Keys -> Operation]
  BY Types DEF ServerInv
<1>2. CASE DeleteResume
  BY <1>1, <1>2, NoneMoves, SaveAssumption DEF DeleteResume, Kept, Revs
<1>3. ASSUME NEW k \in Keys, OpExpires(k) PROVE ServerInv'
  <2>1. ops' = [ops EXCEPT ![k] = [ops[k] EXCEPT !.live = FALSE]] /\ UNCHANGED <<rev, content, req>>
    BY <1>3 DEF OpExpires
  <2>2. [ops[k] EXCEPT !.live = FALSE] \in Operation
    BY <1>1 DEF Operation
  <2>3. ops' \in [Keys -> Operation]
    BY <1>1, <2>1, <2>2
  <2>4. Kept
    BY <1>1, <2>1 DEF Kept, Revs, Operation
  <2> QED
    BY <1>1, <2>1, <2>3, <2>4, NoneMoves
<1> QED
  BY <1>2, <1>3

\* Every step of the server keeps ServerInv.
LEMMA ServerKeeps ==
    ASSUME ServerInv, ServerStep
    PROVE  ServerInv'
  BY AccountSteps, EarlySteps, ReviewStep, SaveStep, TouchStep DEF ServerStep, RequestStep

-----------------------------------------------------------------------------
(* Clients *)

\* A request begins with a revision the account has had.
LEMMA SendKeeps ==
    ASSUME ServerInv, NEW r \in Reqs, NEW k \in Keys, NEW e, NEW c \in Contents,
           SendRequest(r, k, e, c), UNCHANGED <<rev, content, ops>>
    PROVE  ServerInv'
<1> DEFINE q == [NoReq EXCEPT !.pc = "sent", !.key = k, !.exp = e, !.new = c]
<1>1. rev \in Revs /\ e \in Revs /\ e <= rev /\ 0 \in Revs
  BY Types, SaveAssumption DEF ServerInv, SendRequest, Revs
<1>2. q \in Request
  BY <1>1 DEF NoReq, Request, Steps, Answers
<1>3. q.key = k /\ Sound(q, ops[k], rev)
  BY <1>1 DEF NoReq, Sound
<1>4. req' = [req EXCEPT ![r] = q]
  BY DEF SendRequest
<1> QED
  BY <1>2, <1>3, <1>4, OnlyOneMoves

\* An answer that has been read is forgotten.
LEMMA ForgetKeeps ==
    ASSUME ServerInv, NEW r \in Reqs, Forget(r), UNCHANGED <<rev, content, ops>>
    PROVE  ServerInv'
<1>1. NoReq \in Request /\ NoReq.pc = "idle"
  BY SaveAssumption DEF NoReq, Request, Steps, Answers, Revs
<1>2. req' = [req EXCEPT ![r] = NoReq]
  BY DEF Forget
<1> QED
  BY <1>1, <1>2, OnlyOneMoves

\* ServerInv holds at first.
LEMMA ServerInvAtFirst ==
    ASSUME SaveInit
    PROVE  ServerInv
<1>1. NoReq \in Request /\ NoReq.pc = "idle" /\ NoOp \in Operation
  BY SaveAssumption DEF NoReq, NoOp, Request, Operation, Steps, Answers, Revs
<1>2. SaveTypeOK
  BY <1>1, Types, SaveAssumption DEF SaveInit, Revs
<1> QED
  BY <1>1, <1>2, SaveAssumption DEF SaveInit, ServerInv, RequestsSound

-----------------------------------------------------------------------------
(* The server alone, with clients that may use any key for anything *)

\* ServerInv is an invariant of the save endpoint.
LEMMA ServerInductive == SaveSpec => []ServerInv
<1>1. ServerInv /\ [SaveNext]_serverVars => ServerInv'
  <2> SUFFICES ASSUME ServerInv, [SaveNext]_serverVars PROVE ServerInv'
    OBVIOUS
  <2>1. ASSUME NEW r \in Reqs, Ask(r) \/ Hear(r) PROVE ServerInv'
    <3>1. CASE Ask(r)
      BY <3>1, SendKeeps DEF Ask
    <3>2. CASE Hear(r)
      BY <3>2, ForgetKeeps DEF Hear
    <3> QED
      BY <2>1, <3>1, <3>2
  <2>2. CASE UNCHANGED serverVars
    BY <2>2, NoneMoves, Types DEF serverVars, ServerInv, Kept, Revs
  <2> QED
    BY <2>1, <2>2, ServerKeeps DEF SaveNext
<1> QED
  BY <1>1, ServerInvAtFirst, PTL DEF SaveSpec

\* Every variable of the save endpoint keeps its type, and the revision its bound.
THEOREM SaveTypeCorrect == SaveSpec => []SaveTypeOK
<1>1. ServerInv => SaveTypeOK
  BY DEF ServerInv
<1> QED
  BY <1>1, ServerInductive, PTL

\* ServerInv says it of every answer.
LEMMA AnswersSoundlyHold ==
    ASSUME ServerInv
    PROVE  AnswersHold
<1> SUFFICES ASSUME NEW r \in Reqs, req[r].pc = "answered"
             PROVE  Truthful(req[r], OpOf(r))
  BY DEF AnswersHold, Truthful, For, SamePayload
<1> QED
  BY DEF ServerInv, RequestsSound, Sound, OpOf

\* What save_resume tells any client is true when it is read, however long that takes:
\* nobody else's request, deletion or expiry makes an answer wrong.
THEOREM AnswersStayTrue == SaveSpec => []AnswersHold
  BY ServerInductive, AnswersSoundlyHold, PTL

-----------------------------------------------------------------------------
(* The refinement of SaveOnce: a key has done what its SUCCEEDED row says *)

\* A step that rewrites no row's state, payload or result is none of the key's.
LEMMA DoneKept ==
    ASSUME \A k \in Keys : /\ ops'[k].state = ops[k].state /\ ops'[k].exp = ops[k].exp
                           /\ ops'[k].new = ops[k].new /\ ops'[k].result = ops[k].result
    PROVE  UNCHANGED Done
  BY DEF Done

\* A request that is served is a Save of its key, or does nothing that SaveOnce sees.
LEMMA RequestRefines ==
    ASSUME ServerInv, NEW r \in Reqs, RequestStep(r)
    PROVE  [Once!Next]_(Once!vars)
<1>1. CASE UNCHANGED <<rev, content, ops>>
  <2>1. UNCHANGED Done
    BY <1>1 DEF Done
  <2> QED
    BY <1>1, <2>1 DEF Once!vars
<1>2. CASE ~Stored(r) /\ Store(r, "FAILED", 0) /\ UNCHANGED <<rev, content>> /\ req[r].pc # "idle"
  <2>1. ops \in [Keys -> Operation] /\ req[r].key \in Keys
    BY <1>2, RequestFacts
  <2>2. /\ ops'[req[r].key].state = "FAILED" /\ ops[req[r].key].state = "NONE"
        /\ \A k \in Keys : k # req[r].key => ops'[k] = ops[k]
    BY <1>2, <2>1 DEF Store, NewOp, Stored, OpOf
  <2>3. UNCHANGED Done
    BY <2>2 DEF Done
  <2> QED
    BY <1>2, <2>3 DEF Once!vars
<1>3. CASE SaveLocked(r) /\ SaveCommits(r)
  <2> DEFINE k == req[r].key
             did == [exp |-> rev, new |-> req[r].new, result |-> rev']
  <2>1. ops \in [Keys -> Operation] /\ k \in Keys /\ req[r].new \in Contents
    BY <1>3, RequestFacts DEF SaveLocked, Sound
  <2>2. /\ content' = req[r].new /\ rev' = IF req[r].new = content THEN rev ELSE rev + 1
        /\ Store(r, "SUCCEEDED", rev') /\ req[r].exp = rev /\ ops[k].state = "NONE"
    BY <1>3 DEF SaveCommits, Stored, OpOf
  <2>3. /\ ops'[k] = NewOp(r, "SUCCEEDED", rev')
        /\ \A j \in Keys : j # k => ops'[j] = ops[j]
    BY <2>1, <2>2 DEF Store
  <2>4. Done[k] = None
    BY <2>1, <2>2 DEF Done
  <2>5. Done' = [Done EXCEPT ![k] = did]
    <3>1. /\ ops'[k].state = "SUCCEEDED" /\ ops'[k].exp = rev
          /\ ops'[k].new = req[r].new /\ ops'[k].result = rev'
      BY <2>2, <2>3 DEF NewOp
    <3>2. Done'[k] = did
      BY <2>1, <3>1 DEF Done
    <3>3. \A j \in Keys : j # k => Done'[j] = Done[j]
      BY <2>3 DEF Done
    <3>4. /\ Done' = [j \in Keys |-> Done'[j]]
          /\ [Done EXCEPT ![k] = did] = [j \in Keys |-> IF j = k THEN did ELSE Done[j]]
      BY DEF Done
    <3> HIDE DEF did, k
    <3> QED
      BY <3>2, <3>3, <3>4
  <2>6. Once!Save(k)
    BY <2>1, <2>2, <2>4, <2>5 DEF Once!Save
  <2> QED
    BY <2>1, <2>6 DEF Once!Next
<1> QED
  BY <1>1, <1>2, <1>3 DEF RequestStep, Authenticate, Lookup, Recheck, RequireReview, ReplayReview,
     SaveLocked, SaveFindsOp, SaveRefused, TouchAndAnswer

\* So is every step of the server.
LEMMA ServerRefines ==
    ASSUME ServerInv, ServerStep
    PROVE  [Once!Next]_(Once!vars)
<1>1. CASE DeleteResume
  <2>1. UNCHANGED Done /\ Once!Delete
    BY <1>1 DEF DeleteResume, Done, Once!Delete
  <2> QED
    BY <2>1 DEF Once!Next
<1>2. ASSUME NEW k \in Keys, OpExpires(k) PROVE [Once!Next]_(Once!vars)
  <2>1. ops \in [Keys -> Operation]
    BY Types DEF ServerInv
  <2>2. UNCHANGED Done
    BY <1>2, <2>1, DoneKept DEF OpExpires, Operation
  <2> QED
    BY <1>2, <2>2 DEF OpExpires, Once!vars
<1> QED
  BY <1>1, <1>2, RequestRefines DEF ServerStep

\* The initial state is SaveOnce's.
LEMMA InitRefines ==
    ASSUME SaveInit
    PROVE  Once!Init
  BY DEF SaveInit, Once!Init, Done, NoOp

\* PUT /api/resume implements SaveOnce: however requests with one key interleave, are
\* repeated, race a deletion or come after the row has expired, the key changes the
\* profile at most once, from the revision the request named.
THEOREM SaveImplementsSaveOnce == SaveSpec => SavesOnce
<1>1. ServerInv /\ [SaveNext]_serverVars => [Once!Next]_(Once!vars)
  <2> SUFFICES ASSUME ServerInv, [SaveNext]_serverVars PROVE [Once!Next]_(Once!vars)
    OBVIOUS
  <2>1. CASE UNCHANGED <<rev, content, ops>>
    <3>1. UNCHANGED Done
      BY <2>1 DEF Done
    <3> QED
      BY <2>1, <3>1 DEF Once!vars
  <2> QED
    BY <2>1, ServerRefines DEF SaveNext, Ask, Hear, serverVars
<1> QED
  BY <1>1, InitRefines, ServerInductive, PTL DEF SaveSpec, SavesOnce, Once!Spec

-----------------------------------------------------------------------------
(* The workspace: what it keeps in mind *)

Open(r) == req[r].pc # "idle"

Attempt == [key : Keys, exp : Revs, new : Contents]

\* Key k stands for the payload of p, as far as its row is concerned.
RowFor(p, k) == ops[k].state # "NONE" => For(p, ops[k])

\* A key has one payload.
KeysFit ==
    /\ \A r \in Reqs : Open(r) => RowFor(req[r], req[r].key) /\ req[r].ans # "IDEMPOTENCY_CONFLICT"
    /\ \A r, q \in Reqs : Open(r) /\ Open(q) /\ req[r].key = req[q].key => For(req[r], req[q])
    /\ at # None =>
          /\ RowFor(at, at.key)
          /\ \A r \in Reqs : Open(r) /\ req[r].key = at.key => For(at, req[r])

\* The running save() submits the attempt, and the request it waits for carries its key.
AttemptRuns ==
    /\ pc \in {"sent", "backoff"} => at # None /\ at.key = sub.key /\ at.new = draft
    /\ pc = "sent" => sub.slot \in Reqs /\ Open(sub.slot) /\ req[sub.slot].key = sub.key
    /\ pc = "backoff" => sub.tries > 0
    /\ pc = "check" => sub.key \in Keys

\* What is recorded as (n, c) is what the account has, if it still has that revision.
Seen(n, c) == n <= rev /\ (n = rev => c = content)

\* The display is never ahead of the account nor behind what any request expects.
DisplayTrue ==
    /\ Seen(shown.rev, shown.content)
    /\ \A r \in Reqs : Open(r) => req[r].exp <= shown.rev
    /\ at # None => at.exp <= shown.rev
    /\ known # None => known <= shown.rev
    /\ \A k \in Keys : ops[k].state = "SUCCEEDED" => Seen(ops[k].result, ops[k].new)
    /\ pc = "sent" /\ ~PossiblyReplayed /\ ops[sub.key].state = "SUCCEEDED" =>
          shown.rev <= ops[sub.key].result
    /\ pc = "account" => shown.content = None
    /\ conflict.open /\ conflict.rev # None =>
          shown.rev <= conflict.rev /\ Seen(conflict.rev, conflict.content)

\* A conflict is open only while nothing else is under way.
ConflictAlone ==
    /\ conflict.open => \/ pc \in {"idle", "load", "reconcile"}
                        \/ pc = "refresh" /\ sub.then = "CONFLICT"
    /\ pc = "reconcile" => conflict.open /\ conflict.content = None
    /\ pc = "refresh" => sub.then \in {"SAVED", "FAILED", "CONFLICT"}

ClientInv ==
    TypeOK /\ ServerInv /\ KeysFit /\ AttemptRuns /\ DisplayTrue /\ ConflictAlone

-----------------------------------------------------------------------------
(* What a step of the server can do to keys and revisions *)

\* Request r moves on with the key and payload it has, and hears of no mix-up.
Moves(r) ==
    \E q \in Request :
        /\ req' = [req EXCEPT ![r] = q]
        /\ q.key = req[r].key /\ For(req[r], q)
        /\ q.pc # "idle" /\ q.ans # "IDEMPOTENCY_CONFLICT"

SameRow(k) ==
    /\ ops'[k].state = ops[k].state /\ ops'[k].exp = ops[k].exp
    /\ ops'[k].new = ops[k].new /\ ops'[k].result = ops[k].result

\* Row k is stored for the payload of an open request; a save made it, or nothing happened.
Stores(k) ==
    /\ ops[k].state = "NONE"
    /\ \E r \in Reqs : Open(r) /\ req[r].key = k /\ For(req[r], ops'[k])
    /\ ops'[k].state = "SUCCEEDED" =>
          ops'[k].exp = rev /\ ops'[k].result = rev' /\ ops'[k].new = content'

ProfileMoves == rev <= rev' /\ (rev' = rev => content' = content)

ServerShape ==
    /\ (\E r \in Reqs : Open(r) /\ Moves(r)) \/ UNCHANGED req
    /\ \A k \in Keys : SameRow(k) \/ Stores(k)
    /\ ProfileMoves

\* Going on or answering moves the request.
LEMMA MovesOn ==
    ASSUME ServerInv, KeysFit, NEW r \in Reqs, Open(r),
           \/ \E step \in Steps : Go(r, step)
           \/ \E a \in Answers \ {"IDEMPOTENCY_CONFLICT"}, n \in Revs : AnswerWith(r, a, n)
    PROVE  Moves(r)
<1>1. req[r] \in Request /\ req[r].ans # "IDEMPOTENCY_CONFLICT" /\ 0 \in Revs
  BY RequestFacts, SaveAssumption DEF Open, KeysFit, Revs
<1>2. ASSUME NEW step \in Steps, Go(r, step) PROVE Moves(r)
  <2> DEFINE q == [req[r] EXCEPT !.pc = step, !.seen = 0]
  <2>1. q \in Request /\ q.key = req[r].key /\ For(req[r], q) /\ q.ans = req[r].ans /\ q.pc = step
    BY <1>1 DEF Request, For
  <2>2. req' = [req EXCEPT ![r] = q]
    BY <1>2 DEF Go
  <2> QED
    BY <1>1, <2>1, <2>2 DEF Moves, Steps
<1>3. ASSUME NEW a \in Answers \ {"IDEMPOTENCY_CONFLICT"}, NEW n \in Revs, AnswerWith(r, a, n)
      PROVE  Moves(r)
  <2> DEFINE q == [req[r] EXCEPT !.pc = "answered", !.seen = 0, !.ans = a, !.res = n]
  <2>1. q \in Request /\ q.key = req[r].key /\ For(req[r], q) /\ q.ans = a /\ q.pc = "answered"
    BY <1>1 DEF Request, For, Steps
  <2>2. req' = [req EXCEPT ![r] = q]
    BY <1>3 DEF AnswerWith
  <2> QED
    BY <2>1, <2>2 DEF Moves
<1> QED
  BY <1>2, <1>3

\* _replay_or_raise never finds another payload.
LEMMA RaisesNothingMixed ==
    ASSUME ServerInv, KeysFit, NEW r \in Reqs, Open(r), Stored(r), ReplayOrRaise(r)
    PROVE  Moves(r)
<1>1. SamePayload(r) /\ OpOf(r).result \in Revs /\ 0 \in Revs
  BY RequestFacts, SaveAssumption DEF Open, KeysFit, RowFor, Stored, SamePayload, OpOf, For, Operation, Revs
<1> QED
  BY <1>1, MovesOn DEF ReplayOrRaise, Answer, Answers

\* A request that is served moves on, and at most stores its row.
LEMMA RequestShape ==
    ASSUME ServerInv, KeysFit, NEW r \in Reqs, RequestStep(r)
    PROVE  ServerShape
<1>0. /\ Open(r) /\ req \in [Reqs -> Request] /\ req[r] \in Request /\ rev \in Revs /\ 0 \in Revs
      /\ ops \in [Keys -> Operation] /\ req[r].key \in Keys
  BY RequestFacts, SaveAssumption DEF RequestStep, Authenticate, Lookup, Recheck, RequireReview,
     ReplayReview, SaveLocked, TouchAndAnswer, Open, Revs
<1>1. Moves(r)
  <2>1. CASE Authenticate(r)
    <3>1. CASE Answer(r, "AUTH_REQUIRED")
      BY <1>0, <3>1, MovesOn DEF Answer, Answers
    <3>2. CASE req' = [req EXCEPT ![r].pc = "lookup", ![r].seen = rev]
      <4> DEFINE q == [req[r] EXCEPT !.pc = "lookup", !.seen = rev]
      <4>1. q \in Request /\ q.key = req[r].key /\ For(req[r], q) /\ q.ans = req[r].ans /\ q.pc = "lookup"
        BY <1>0 DEF Request, For, Steps
      <4>2. req[r].ans # "IDEMPOTENCY_CONFLICT"
        BY <1>0 DEF KeysFit
      <4> QED
        BY <3>2, <4>1, <4>2 DEF Moves
    <3> QED
      BY <2>1, <3>1, <3>2 DEF Authenticate
  <2>2. CASE Lookup(r)
    BY <1>0, <2>2, MovesOn, RaisesNothingMixed DEF Lookup, Answer, Answers, Steps
  <2>3. CASE Recheck(r)
    BY <1>0, <2>3, MovesOn DEF Recheck, Answer, Answers, Steps
  <2>4. CASE RequireReview(r)
    BY <1>0, <2>4, MovesOn, RaisesNothingMixed DEF RequireReview, Answer, Answers, Steps
  <2>5. CASE ReplayReview(r)
    BY <1>0, <2>5, MovesOn DEF ReplayReview, Answer, Answers
  <2>6. CASE SaveFindsOp(r)
    BY <1>0, <2>6, MovesOn, RaisesNothingMixed DEF SaveFindsOp, Steps
  <2>7. CASE SaveRefused(r)
    BY <1>0, <2>7, MovesOn DEF SaveRefused, Answer, Answers
  <2>8. CASE SaveCommits(r)
    <3> DEFINE q == [req[r] EXCEPT !.pc = "touch", !.res = rev']
    <3>1. rev' \in Revs
      BY <1>0, <2>8, SaveAssumption DEF SaveCommits, Revs
    <3>2. q \in Request /\ q.key = req[r].key /\ For(req[r], q) /\ q.ans = req[r].ans /\ q.pc = "touch"
      BY <1>0, <3>1 DEF Request, For, Steps
    <3>3. req[r].ans # "IDEMPOTENCY_CONFLICT" /\ req' = [req EXCEPT ![r] = q]
      BY <1>0, <2>8 DEF KeysFit, SaveCommits
    <3> QED
      BY <3>2, <3>3 DEF Moves
  <2>9. CASE TouchAndAnswer(r)
    <3>1. req[r].res \in Revs
      BY <1>0 DEF Request
    <3> QED
      BY <1>0, <2>9, <3>1, MovesOn DEF TouchAndAnswer, Answer, Answers
  <2> QED
    BY <2>1, <2>2, <2>3, <2>4, <2>5, <2>6, <2>7, <2>8, <2>9 DEF RequestStep, SaveLocked
<1>2. CASE UNCHANGED <<rev, content, ops>>
  BY <1>0, <1>1, <1>2 DEF ServerShape, SameRow, ProfileMoves, Revs
<1>3. CASE ~Stored(r) /\ Store(r, "FAILED", 0) /\ UNCHANGED <<rev, content>>
  <2>1. /\ ops'[req[r].key] = NewOp(r, "FAILED", 0)
        /\ \A k \in Keys : k # req[r].key => ops'[k] = ops[k]
    BY <1>0, <1>3 DEF Store
  <2>2. Stores(req[r].key)
    BY <1>0, <1>3, <2>1 DEF Stores, NewOp, Stored, OpOf, For
  <2>3. ProfileMoves
    BY <1>0, <1>3 DEF ProfileMoves, Revs
  <2> QED
    BY <1>0, <1>1, <2>1, <2>2, <2>3 DEF ServerShape, SameRow
<1>4. CASE SaveCommits(r)
  <2>1. /\ ops'[req[r].key] = NewOp(r, "SUCCEEDED", rev')
        /\ \A k \in Keys : k # req[r].key => ops'[k] = ops[k]
    BY <1>0, <1>4 DEF SaveCommits, Store
  <2>2. Stores(req[r].key)
    BY <1>0, <1>4, <2>1 DEF SaveCommits, Stores, NewOp, Stored, OpOf, For
  <2>3. ProfileMoves
    BY <1>0, <1>4 DEF SaveCommits, ProfileMoves, Revs
  <2> QED
    BY <1>0, <1>1, <2>1, <2>2, <2>3 DEF ServerShape, SameRow
<1> QED
  BY <1>2, <1>3, <1>4 DEF RequestStep, Authenticate, Lookup, Recheck, RequireReview, ReplayReview,
     SaveLocked, SaveFindsOp, SaveRefused, TouchAndAnswer

\* Every step of the server has this shape.
LEMMA ServerShapes ==
    ASSUME ServerInv, KeysFit, ServerStep
    PROVE  ServerShape
<1>1. rev \in Revs /\ ops \in [Keys -> Operation]
  BY Types DEF ServerInv
<1>2. CASE DeleteResume
  BY <1>1, <1>2 DEF DeleteResume, ServerShape, SameRow, ProfileMoves, Revs
<1>3. ASSUME NEW k \in Keys, OpExpires(k) PROVE ServerShape
  <2>1. \A j \in Keys : SameRow(j)
    BY <1>1, <1>3 DEF OpExpires, SameRow, Operation
  <2> QED
    BY <1>1, <1>3, <2>1 DEF OpExpires, ServerShape, ProfileMoves, Revs
<1> QED
  BY <1>2, <1>3, RequestShape DEF ServerStep
-----------------------------------------------------------------------------
(* Steps of the server and of other tabs *)

Submission == [slot : Reqs \cup {None}, key : Keys \cup {None}, reuse : BOOLEAN,
               tries : 0 .. Waits, then : {"none", "SAVED", "FAILED", "CONFLICT"},
               checking : BOOLEAN]
Shown == [rev : Revs, content : Contents \cup {None}]
Conflict == [open : BOOLEAN, rev : Revs \cup {None}, content : Contents \cup {None}]

ClientTypes ==
    /\ pc \in ClientSteps /\ at \in Attempt \cup {None} /\ sub \in Submission
    /\ draft \in Contents /\ known \in Revs \cup {None}
    /\ shown \in Shown /\ conflict \in Conflict

\* The type invariant, in these terms
LEMMA ClientTypesOK == TypeOK <=> SaveTypeOK /\ ClientTypes
  BY DEF TypeOK, ClientTypes, Attempt, Submission, Shown, Conflict

\* ClientInv after a step, part by part
LEMMA Assemble ==
    ASSUME ServerInv', ClientTypes', KeysFit', AttemptRuns', DisplayTrue', ConflictAlone'
    PROVE  ClientInv'
  BY DEF ClientInv, ServerInv, TypeOK, ClientTypes, Attempt, Submission, Shown, Conflict

\* What ClientInv says of the rows and requests
LEMMA ClientFacts ==
    ASSUME ClientInv
    PROVE  /\ ServerInv /\ ClientTypes /\ KeysFit /\ AttemptRuns /\ DisplayTrue /\ ConflictAlone
           /\ rev \in Revs /\ content \in Contents \cup {None}
           /\ ops \in [Keys -> Operation] /\ req \in [Reqs -> Request]
           /\ \A r \in Reqs : Open(r) => req[r].key \in Keys
           /\ Revs \subseteq Int
  BY Types, ClientTypesOK, SaveAssumption DEF ClientInv, ServerInv, RequestsSound, Open, Revs

\* Requests keep their payload, and a row is stored for a request's.
LEMMA ShapeKeepsKeys ==
    ASSUME ClientInv, ServerShape, UNCHANGED clientVars
    PROVE  KeysFit'
<1>1. /\ KeysFit /\ req \in [Reqs -> Request] /\ \A r \in Reqs : Open(r) => req[r].key \in Keys
      /\ at \in Attempt \cup {None}
  BY ClientFacts DEF ClientTypes
<1>2. ASSUME NEW p \in Reqs
      PROVE  /\ Open(p)' <=> Open(p)
             /\ Open(p) => /\ req'[p].key = req[p].key /\ For(req[p], req'[p])
                           /\ req'[p].ans # "IDEMPOTENCY_CONFLICT"
  <2>1. CASE UNCHANGED req
    BY <1>1, <2>1 DEF Open, KeysFit, For
  <2>2. ASSUME NEW r \in Reqs, Open(r), Moves(r)
        PROVE  /\ Open(p)' <=> Open(p)
               /\ Open(p) => /\ req'[p].key = req[p].key /\ For(req[p], req'[p])
                             /\ req'[p].ans # "IDEMPOTENCY_CONFLICT"
    BY <1>1, <2>2 DEF Moves, Open, KeysFit, For
  <2> QED
    BY <2>1, <2>2 DEF ServerShape
<1>3. /\ at' = at /\ \A k \in Keys : SameRow(k) \/ Stores(k)
  BY DEF clientVars, ServerShape
<1>4. ASSUME NEW r \in Reqs, Open(r) PROVE RowFor(req[r], req[r].key)'
  BY <1>1, <1>2, <1>3, <1>4 DEF KeysFit, RowFor, For, SameRow, Stores
<1>5. ASSUME at # None PROVE RowFor(at, at.key)'
  BY <1>1, <1>2, <1>3, <1>5 DEF KeysFit, RowFor, For, SameRow, Stores, Attempt
<1> QED
  BY <1>1, <1>2, <1>3, <1>4, <1>5 DEF KeysFit, For

\* What was displayed stays true or falls behind.
LEMMA ShapeKeepsDisplay ==
    ASSUME ClientInv, ServerShape, UNCHANGED clientVars, rev' \in Revs
    PROVE  DisplayTrue'
<1>1. /\ DisplayTrue /\ req \in [Reqs -> Request] /\ \A r \in Reqs : Open(r) => req[r].key \in Keys
      /\ ClientTypes /\ rev \in Revs /\ ops \in [Keys -> Operation] /\ Revs \subseteq Int /\ AttemptRuns
  BY ClientFacts
<1>2. \A r \in Reqs : (Open(r)' <=> Open(r)) /\ req'[r].exp = req[r].exp
  BY <1>1 DEF ServerShape, Moves, Open, For
<1>3. ASSUME NEW n \in Revs, NEW c, Seen(n, c) PROVE Seen(n, c)'
  BY <1>1, <1>3 DEF ServerShape, ProfileMoves, Seen
<1>4. ASSUME NEW k \in Keys, ops'[k].state = "SUCCEEDED"
      PROVE  /\ Seen(ops[k].result, ops[k].new)'
             /\ pc = "sent" /\ ~PossiblyReplayed /\ k = sub.key => shown.rev <= ops'[k].result
  <2>1. CASE SameRow(k)
    BY <1>1, <1>3, <1>4, <2>1 DEF SameRow, DisplayTrue, Operation
  <2>2. CASE Stores(k)
    <3>1. ops'[k].result = rev' /\ ops'[k].new = content'
      BY <1>4, <2>2 DEF Stores
    <3>2. rev \in Int /\ rev' \in Int /\ shown.rev \in Int /\ rev <= rev' /\ shown.rev <= rev
      BY <1>1 DEF DisplayTrue, Seen, ServerShape, ProfileMoves, ClientTypes, Shown
    <3>3. shown.rev <= rev'
      BY <3>2
    <3> QED
      BY <3>1, <3>2, <3>3 DEF Seen
  <2> QED
    BY <2>1, <2>2 DEF ServerShape
<1>5. pc = "sent" => sub.key \in Keys
  BY <1>1 DEF AttemptRuns
<1>6. UNCHANGED <<pc, at, sub, draft, known, shown, conflict>>
  BY DEF clientVars
<1> QED
  BY <1>1, <1>2, <1>3, <1>4, <1>5, <1>6 DEF DisplayTrue, ClientTypes, Shown, Conflict, PossiblyReplayed

\* The server preserves ClientInv.
LEMMA ServerStepKeeps ==
    ASSUME ClientInv, ServerStep, UNCHANGED clientVars
    PROVE  ClientInv'
<1>1. ServerInv' /\ ServerShape
  BY ClientFacts, ServerKeeps, ServerShapes
<1>2. rev' \in Revs
  BY <1>1 DEF ServerInv, SaveTypeOK
<1>3. ClientTypes' /\ ConflictAlone'
  BY ClientFacts DEF ClientTypes, ConflictAlone, clientVars
<1>4. AttemptRuns'
  BY <1>1, ClientFacts DEF AttemptRuns, clientVars, ServerShape, Moves, Open
<1>5. KeysFit' /\ DisplayTrue'
  BY <1>1, <1>2, ShapeKeepsKeys, ShapeKeepsDisplay
<1> QED
  BY <1>1, <1>3, <1>4, <1>5, Assemble
-----------------------------------------------------------------------------
(* Steps of the workspace that send nothing *)

Unsent ==
    /\ UNCHANGED <<rev, content, ops>>
    /\ UNCHANGED req \/ \E r \in Reqs : Forget(r)

\* The attempt is kept or given up, and nothing is waited for.
Quiet ==
    /\ Unsent
    /\ at' = at \/ at' = None
    /\ pc' # "sent"
    /\ pc' = "backoff" => /\ pc = "sent" /\ at' = at /\ draft' = draft
                          /\ sub'.key = sub.key /\ sub'.tries > 0
    /\ pc' = "check" => sub'.key \in Keys

\* The display goes on to something newer, or stays.
ShowsTrue ==
    /\ shown.rev <= shown'.rev /\ Seen(shown'.rev, shown'.content)
    /\ known' # None => known' <= shown'.rev
    /\ pc' = "account" => shown'.content = None
    /\ conflict'.open /\ conflict'.rev # None =>
          shown'.rev <= conflict'.rev /\ Seen(conflict'.rev, conflict'.content)

\* Requests are at most forgotten.
LEMMA UnsentKeeps ==
    ASSUME ClientInv, Unsent
    PROVE  /\ ServerInv'
           /\ \A r \in Reqs : req'[r] = req[r] \/ ~Open(r)'
<1>1. ServerInv /\ req \in [Reqs -> Request]
  BY ClientFacts
<1>2. CASE UNCHANGED req
  BY <1>1, <1>2 DEF Unsent, ServerInv, SaveTypeOK, RequestsSound
<1>3. ASSUME NEW r \in Reqs, Forget(r)
      PROVE  ServerInv' /\ \A p \in Reqs : req'[p] = req[p] \/ ~Open(p)'
  BY <1>1, <1>3, ForgetKeeps DEF Unsent, Forget, NoReq, Open
<1> QED
  BY <1>2, <1>3 DEF Unsent

\* Such a step preserves ClientInv.
LEMMA QuietKeeps ==
    ASSUME ClientInv, Quiet, ShowsTrue, ClientTypes', ConflictAlone'
    PROVE  ClientInv'
<1>1. /\ ServerInv' /\ UNCHANGED <<rev, content, ops>>
      /\ \A r \in Reqs : req'[r] = req[r] \/ ~Open(r)'
  BY UnsentKeeps DEF Quiet, Unsent
<1>2. /\ KeysFit /\ AttemptRuns /\ DisplayTrue /\ ClientTypes /\ Revs \subseteq Int
      /\ \A r \in Reqs : Open(r)' => Open(r) /\ req'[r] = req[r]
  BY <1>1, ClientFacts DEF Open
<1>3. KeysFit'
  BY <1>1, <1>2 DEF KeysFit, RowFor, Quiet
<1>4. AttemptRuns'
  BY <1>2 DEF AttemptRuns, Quiet
<1>5. DisplayTrue'
  <2>1. shown.rev \in Int /\ shown'.rev \in Int
    BY <1>2 DEF ClientTypes, Shown
  <2>2. ASSUME NEW r \in Reqs, Open(r)' PROVE req'[r].exp <= shown'.rev
    <3>1. req[r].exp <= shown.rev /\ req'[r] = req[r] /\ req[r].exp \in Int
      BY <1>2, <2>2, ClientFacts DEF DisplayTrue, Request
    <3> QED
      BY <2>1, <3>1 DEF ShowsTrue
  <2>3. ASSUME at' # None PROVE at'.exp <= shown'.rev
    <3>1. at' = at /\ at.exp <= shown.rev /\ at.exp \in Int
      BY <1>2, <2>3 DEF Quiet, DisplayTrue, ClientTypes, Attempt
    <3> QED
      BY <2>1, <3>1 DEF ShowsTrue
  <2>4. \A n, c : Seen(n, c)' <=> Seen(n, c)
    BY <1>1 DEF Seen
  <2> QED
    BY <1>1, <1>2, <2>2, <2>3, <2>4 DEF DisplayTrue, ShowsTrue, Quiet
<1> QED
  BY <1>1, <1>3, <1>4, <1>5, Assemble

\* The blank values are of their types.
LEMMA BlankTypes ==
    /\ NoSub \in Submission /\ NoConflict \in Conflict
    /\ [NoConflict EXCEPT !.open = TRUE] \in Conflict
<1>1. 0 \in 0 .. Waits
  BY ClientAssumption
<1>2. NoSub \in Submission
  BY <1>1 DEF NoSub, Submission
<1>3. NoConflict \in Conflict
  BY DEF NoConflict, Conflict
<1>4. [NoConflict EXCEPT !.open = TRUE] \in Conflict
  BY <1>3 DEF Conflict
<1> QED
  BY <1>2, <1>3, <1>4

\* What the request says that the workspace waits for
LEMMA HeardFacts ==
    ASSUME ClientInv, Read
    PROVE  /\ sub.slot \in Reqs /\ req[sub.slot] \in Request /\ req[sub.slot].key = at.key
           /\ at # None /\ at.key = sub.key /\ at.key \in Keys /\ at.new = draft
           /\ Truthful(req[sub.slot], ops[at.key]) /\ For(at, req[sub.slot])
           /\ RowFor(at, at.key) /\ Reply # "IDEMPOTENCY_CONFLICT"
           /\ Reply = "REVISION_CONFLICT" => at.exp < rev
<1>1. /\ sub.slot \in Reqs /\ req[sub.slot].key = sub.key /\ Open(sub.slot)
      /\ at # None /\ at.key = sub.key /\ at.new = draft
  BY ClientFacts DEF AttemptRuns, Read, Heard
<1>2. /\ req[sub.slot] \in Request /\ at \in Attempt
      /\ Sound(req[sub.slot], ops[at.key], rev)
  BY <1>1, ClientFacts DEF ServerInv, RequestsSound, ClientTypes, Open
<1>3. /\ For(at, req[sub.slot]) /\ RowFor(at, at.key) /\ Reply # "IDEMPOTENCY_CONFLICT"
  BY <1>1, ClientFacts DEF KeysFit, Reply
<1>4. Truthful(req[sub.slot], ops[at.key])
  BY <1>2 DEF Sound, Read, Heard
<1>5. Reply = "REVISION_CONFLICT" => at.exp < rev
  BY <1>2, <1>3 DEF Sound, Read, Heard, Reply, For
<1> QED
  BY <1>1, <1>2, <1>3, <1>4, <1>5 DEF Attempt

\* Reading an answer forgets a request.
LEMMA ReadIsUnsent ==
    ASSUME ClientInv, Read
    PROVE  Unsent
  BY HeardFacts DEF Read, Unsent

\* The outcomes of a save() that is heard of, and of one that is not, preserve ClientInv.
LEMMA OutcomesKeep ==
    ASSUME ClientInv,
           SaveSucceeds \/ SaveUnsettled \/ SaveNeedsReview \/ SaveConflicts \/ SaveFails
    PROVE  ClientInv'
<1>0. /\ ClientTypes /\ DisplayTrue /\ ConflictAlone /\ AttemptRuns /\ rev \in Revs /\ Revs \subseteq Int
      /\ pc = "sent" /\ ~conflict.open
  BY ClientFacts DEF ConflictAlone, SaveSucceeds, SaveUnsettled, NoAnswer, SaveNeedsReview, SaveConflicts,
     SaveFails, Read
<1>1. CASE SaveSucceeds /\ PossiblyReplayed
  <2>1. Quiet /\ ShowsTrue
    BY <1>0, <1>1, ReadIsUnsent DEF SaveSucceeds, Quiet, ShowsTrue, DisplayTrue, ClientTypes, Shown
  <2>2. ClientTypes' /\ ConflictAlone'
    BY <1>0, <1>1 DEF SaveSucceeds, ClientTypes, ClientSteps, Submission, ConflictAlone
  <2> QED
    BY <2>1, <2>2, QuietKeeps
<1>2. CASE SaveSucceeds /\ ~PossiblyReplayed
  <2> DEFINE n == req[sub.slot].res
  <2>1. /\ ops[at.key].state = "SUCCEEDED" /\ ops[at.key].result = n /\ ops[at.key].new = draft
        /\ n \in Revs /\ draft \in Contents
    BY <1>0, <1>2, HeardFacts DEF SaveSucceeds, Read, Reply, Truthful, For, Request, ClientTypes
  <2>2. shown.rev <= n /\ Seen(n, draft)
    BY <1>0, <1>2, <2>1, HeardFacts DEF DisplayTrue, SaveSucceeds, Read
  <2>3. /\ shown' = [rev |-> n, content |-> draft] /\ known' = n /\ at' = None
        /\ pc' = "idle" /\ sub' = NoSub /\ UNCHANGED <<draft, conflict>>
    BY <1>2 DEF SaveSucceeds, Settle
  <2>4. Quiet /\ ShowsTrue
    BY <1>0, <1>2, <2>1, <2>2, <2>3, ReadIsUnsent DEF SaveSucceeds, Quiet, ShowsTrue
  <2>5. ClientTypes' /\ ConflictAlone'
    BY <1>0, <2>1, <2>3, ClientAssumption
       DEF ClientTypes, ClientSteps, NoSub, Submission, Shown, ConflictAlone
  <2> QED
    BY <2>4, <2>5, QuietKeeps
<1>3. CASE SaveUnsettled
  <2>1. Unsent
    BY <1>3, ReadIsUnsent DEF SaveUnsettled, Unsent, serverVars
  <2>2. NoAnswer
    BY <1>3 DEF SaveUnsettled
  <2>3. sub \in Submission /\ UNCHANGED <<at, draft, known, shown, conflict>>
    BY <1>0, <2>2 DEF ClientTypes, NoAnswer
  <2>4. CASE sub.tries < Waits
    <3>1. pc' = "backoff" /\ sub' = [sub EXCEPT !.slot = None, !.tries = sub.tries + 1]
      BY <2>2, <2>4 DEF NoAnswer
    <3>2. sub.tries + 1 \in 0 .. Waits /\ sub.tries + 1 > 0
      BY <2>3, <2>4, ClientAssumption DEF Submission
    <3>3. sub' \in Submission /\ sub'.key = sub.key /\ sub'.tries > 0
      BY <2>3, <3>1, <3>2 DEF Submission
    <3>4. Quiet
      BY <1>0, <2>1, <2>3, <3>1, <3>3 DEF Quiet
    <3>5. ShowsTrue
      BY <1>0, <2>3, <3>1 DEF ShowsTrue, DisplayTrue, ClientTypes, Shown
    <3>6. ClientTypes' /\ ConflictAlone'
      BY <1>0, <2>3, <3>1, <3>3 DEF ClientTypes, ClientSteps, ConflictAlone
    <3> QED
      BY <3>4, <3>5, <3>6, QuietKeeps
  <2>5. CASE ~(sub.tries < Waits)
    <3>1. pc' = "idle" /\ sub' = NoSub
      BY <2>2, <2>5 DEF NoAnswer, Settle
    <3>2. Quiet
      BY <2>1, <2>3, <3>1 DEF Quiet
    <3>3. ShowsTrue
      <4>1. shown.rev \in Int /\ shown' = shown /\ known' = known /\ conflict' = conflict
        BY <1>0, <2>3 DEF ClientTypes, Shown
      <4> QED
        BY <1>0, <3>1, <4>1 DEF ShowsTrue, DisplayTrue
    <3>4. ClientTypes' /\ ConflictAlone'
      BY <1>0, <2>3, <3>1, BlankTypes DEF ClientTypes, ClientSteps, ConflictAlone
    <3> QED
      BY <3>2, <3>3, <3>4, QuietKeeps
  <2> QED
    BY <2>4, <2>5
<1>4. CASE SaveNeedsReview \/ SaveConflicts \/ SaveFails
  <2>1. Unsent
    BY <1>4, ReadIsUnsent DEF SaveNeedsReview, SaveConflicts, SaveFails
  <2>2. Quiet /\ ShowsTrue
    BY <1>0, <1>4, <2>1 DEF SaveNeedsReview, SaveConflicts, SaveFails, Settle, Quiet, ShowsTrue,
       DisplayTrue, ClientTypes, Shown
  <2>3. sub' \in Submission /\ (pc' = "refresh" => sub'.then \in {"FAILED", "CONFLICT"})
    <3>1. CASE SaveConflicts
      BY <1>0, <3>1 DEF SaveConflicts, ClientTypes, Submission
    <3>2. CASE SaveNeedsReview \/ SaveFails
      BY <3>2, BlankTypes DEF SaveNeedsReview, SaveFails, Settle
    <3> QED
      BY <1>4, <3>1, <3>2
  <2>4. ClientTypes'
    BY <1>0, <1>4, <2>3 DEF SaveNeedsReview, SaveConflicts, SaveFails, Settle, ClientTypes, ClientSteps
  <2>5. ConflictAlone'
    BY <1>0, <1>4, <2>3 DEF SaveNeedsReview, SaveConflicts, SaveFails, Settle, ConflictAlone
  <2> QED
    BY <2>2, <2>4, <2>5, QuietKeeps
<1> QED
  BY <1>1, <1>2, <1>3, <1>4

\* Reading the profile, the account and the operation preserves ClientInv.
LEMMA ReadsKeep ==
    ASSUME ClientInv,
           \/ ResolveOperation \/ RefreshFails \/ RefreshSaved \/ RefreshFailed \/ RefreshConflict
           \/ ReadAccount \/ ReconcileAccount \/ Load
    PROVE  ClientInv'
<1>0. /\ ClientTypes /\ DisplayTrue /\ ConflictAlone /\ rev \in Revs /\ content \in Contents \cup {None}
      /\ Revs \subseteq Int
  BY ClientFacts
<1>1. Unsent
  BY DEF ResolveOperation, RefreshFails, RefreshSaved, RefreshFailed, RefreshConflict, ReadAccount,
     ReconcileAccount, Load, Unsent, serverVars
<1>2. Quiet
  BY <1>1 DEF ResolveOperation, RefreshFails, RefreshSaved, RefreshFailed, RefreshConflict, ReadAccount,
     ReconcileAccount, Load, Settle, Quiet
<1>3. ClientTypes'
  <2>1. sub' \in Submission
    BY <1>0, BlankTypes DEF ResolveOperation, RefreshFails, RefreshSaved, RefreshFailed, RefreshConflict,
       ReadAccount, ReconcileAccount, Load, Settle, ClientTypes, Submission
  <2>2. shown' \in Shown
    BY <1>0 DEF ResolveOperation, RefreshFails, RefreshSaved, RefreshFailed, RefreshConflict,
       ReadAccount, ReconcileAccount, Load, Displays, ClientTypes, Shown
  <2>3. conflict' \in Conflict
    <3>1. CASE RefreshConflict
      <4>1. [open |-> TRUE, rev |-> rev, content |-> content] \in Conflict
        BY <1>0 DEF Conflict
      <4> QED
        BY <3>1, <4>1, BlankTypes DEF RefreshConflict
    <3>2. CASE ReconcileAccount
      BY <1>0, <3>2 DEF ReconcileAccount, ClientTypes, Conflict
    <3>3. CASE UNCHANGED conflict \/ conflict' = NoConflict \/ RefreshFails
      BY <1>0, <3>3, BlankTypes DEF RefreshFails, ClientTypes
    <3> QED
      BY <3>1, <3>2, <3>3 DEF ResolveOperation, RefreshSaved, RefreshFailed, ReadAccount, Load
  <2>4. known' \in Revs \cup {None} /\ at' \in Attempt \cup {None} /\ draft' \in Contents
    BY <1>0 DEF ResolveOperation, RefreshFails, RefreshSaved, RefreshFailed, RefreshConflict,
       ReadAccount, ReconcileAccount, Load, ClientTypes
  <2>5. pc' \in ClientSteps
    BY <1>0 DEF ResolveOperation, RefreshFails, RefreshSaved, RefreshFailed, RefreshConflict,
       ReadAccount, ReconcileAccount, Load, Settle, ClientSteps
  <2> QED
    BY <2>1, <2>2, <2>3, <2>4, <2>5 DEF ClientTypes
<1>4. ConflictAlone'
  BY <1>0 DEF ResolveOperation, RefreshFails, RefreshSaved, RefreshFailed, RefreshConflict,
     ReadAccount, ReconcileAccount, Load, Settle, NoConflict, ConflictAlone, ClientTypes, Conflict, Submission
<1>5. ShowsTrue
  BY <1>0 DEF ResolveOperation, RefreshFails, RefreshSaved, RefreshFailed, RefreshConflict,
     ReadAccount, ReconcileAccount, Load, Settle, NoConflict, Displays, StillNoResume, ConflictAlone,
     ClientTypes, Shown, Conflict, DisplayTrue, Seen, ShowsTrue
<1> QED
  BY <1>2, <1>3, <1>4, <1>5, QuietKeeps

\* So do the steps of the student that send nothing.
LEMMA StudentKeeps ==
    ASSUME ClientInv, CheckSaveStatus \/ Reload \/ Edit \/ AskConflictAgain \/ ResolveConflict
    PROVE  ClientInv'
<1>0. /\ ClientTypes /\ DisplayTrue /\ ConflictAlone /\ rev \in Revs /\ Revs \subseteq Int
  BY ClientFacts
<1>1. sub' \in Submission /\ (pc' = "refresh" => sub'.then = "CONFLICT") /\ (pc' = "check" => sub'.key \in Keys)
  <2>1. CASE CheckSaveStatus
    <3>1. at \in Attempt /\ sub' = [NoSub EXCEPT !.key = at.key, !.checking = TRUE] /\ pc' = "check"
      BY <1>0, <2>1 DEF CheckSaveStatus, ClientTypes
    <3>2. at.key \in Keys
      BY <3>1 DEF Attempt
    <3> QED
      BY <3>1, <3>2, BlankTypes DEF Submission, NoSub
  <2>2. CASE AskConflictAgain
    BY <2>2, BlankTypes DEF AskConflictAgain, Submission, NoSub
  <2>3. CASE Reload \/ Edit \/ ResolveConflict
    BY <1>0, <2>3 DEF Reload, Edit, ResolveConflict, ClientTypes
  <2> QED
    BY <2>1, <2>2, <2>3
<1>2. Quiet
  <2>1. Unsent
    BY DEF CheckSaveStatus, Reload, Edit, AskConflictAgain, ResolveConflict, Unsent, serverVars
  <2> QED
    BY <1>1, <2>1 DEF CheckSaveStatus, Reload, Edit, AskConflictAgain, ResolveConflict, Quiet
<1>3. ClientTypes'
  <2>1. draft' \in Contents
    BY <1>0 DEF CheckSaveStatus, Reload, Edit, AskConflictAgain, ResolveConflict, ClientTypes, Conflict
  <2>2. shown' \in Shown /\ known' \in Revs \cup {None}
    BY <1>0 DEF CheckSaveStatus, Reload, Edit, AskConflictAgain, ResolveConflict, ClientTypes, Shown, Conflict
  <2>3. conflict' \in Conflict /\ at' \in Attempt \cup {None} /\ pc' \in ClientSteps
    BY <1>0, BlankTypes DEF CheckSaveStatus, Reload, Edit, AskConflictAgain, ResolveConflict, ClientTypes,
       ClientSteps
  <2> QED
    BY <1>1, <2>1, <2>2, <2>3 DEF ClientTypes
<1>4. ConflictAlone'
  BY <1>0, <1>1 DEF CheckSaveStatus, Reload, Edit, AskConflictAgain, ResolveConflict, NoConflict, ConflictAlone
<1>5. ShowsTrue
  BY <1>0 DEF CheckSaveStatus, Reload, Edit, AskConflictAgain, ResolveConflict, NoConflict, ClientTypes,
     Shown, Conflict, DisplayTrue, Seen, ShowsTrue
<1> QED
  BY <1>2, <1>3, <1>4, <1>5, QuietKeeps
-----------------------------------------------------------------------------
(* Steps that send a request, and the other tabs *)

\* A new request of a key that is fresh, or of the attempt's, keeps the keys apart.
LEMMA SendFits ==
    ASSUME ClientInv, NEW r \in Reqs, NEW k \in Keys, NEW e \in Revs, NEW c \in Contents,
           SendRequest(r, k, e, c), UNCHANGED ops,
           at' = [key |-> k, exp |-> e, new |-> c],
           Fresh(k) \/ at' = at
    PROVE  /\ KeysFit'
           /\ \A p \in Reqs : Open(p)' => IF p = r THEN req'[p].key = k /\ req'[p].exp = e
                                                  ELSE Open(p) /\ req'[p] = req[p]
<1> DEFINE q == [NoReq EXCEPT !.pc = "sent", !.key = k, !.exp = e, !.new = c]
<1>1. KeysFit /\ req \in [Reqs -> Request] /\ req' = [req EXCEPT ![r] = q]
  BY ClientFacts DEF SendRequest
<1>2. q.pc = "sent" /\ q.key = k /\ q.exp = e /\ q.new = c /\ q.ans = "none"
  BY DEF NoReq
<1>3. /\ req'[r] = q
      /\ \A p \in Reqs : p # r => req'[p] = req[p]
  BY <1>1
<1>4. at'.key = k /\ For(at', q)
  BY <1>2 DEF For
<1>5. RowFor(at', k) /\ \A p \in Reqs : Open(p) /\ req[p].key = k => For(at', req[p])
  <2>1. CASE Fresh(k)
    BY <2>1 DEF Fresh, RowFor, NoOp
  <2>2. CASE at' = at
    <3>1. at # None
      BY <2>2, ClientAssumption
    <3> QED
      BY <2>2, <3>1, <1>1, <1>4 DEF KeysFit
  <2> QED
    BY <2>1, <2>2
<1> HIDE DEF q
<1>6. KeysFit'
  <2>1. ASSUME NEW p \in Reqs, Open(p)'
        PROVE  RowFor(req[p], req[p].key)' /\ req'[p].ans # "IDEMPOTENCY_CONFLICT"
    BY <1>1, <1>2, <1>3, <1>4, <1>5, <2>1 DEF KeysFit, RowFor, Open, For
  <2>2. ASSUME NEW p \in Reqs, NEW s \in Reqs, Open(p)', Open(s)', req'[p].key = req'[s].key
        PROVE  For(req'[p], req'[s])
    BY <1>1, <1>2, <1>3, <1>4, <1>5, <2>2 DEF KeysFit, Open, For
  <2>3. ASSUME NEW p \in Reqs, Open(p)', req'[p].key = at'.key PROVE For(at', req'[p])
    BY <1>3, <1>4, <1>5, <2>3 DEF Open
  <2>4. RowFor(at, at.key)'
    BY <1>4, <1>5 DEF RowFor
  <2> QED
    BY <2>1, <2>2, <2>3, <2>4 DEF KeysFit, RowFor
<1> QED
  BY <1>1, <1>2, <1>3, <1>6 DEF q, Open

\* A step of the workspace that sends the attempt preserves ClientInv.
LEMMA SendingKeeps ==
    ASSUME ClientInv, ConfirmSave \/ Retry
    PROVE  ClientInv'
<1>0. /\ ClientTypes /\ DisplayTrue /\ ConflictAlone /\ AttemptRuns /\ Revs \subseteq Int
      /\ rev \in Revs /\ req \in [Reqs -> Request] /\ ServerInv
  BY ClientFacts
<1>1. PICK r \in Reqs, k \in Keys, e \in Revs, c \in Contents :
         /\ SendRequest(r, k, e, c) /\ at' = [key |-> k, exp |-> e, new |-> c]
         /\ Fresh(k) \/ at' = at
         /\ c = draft /\ e <= shown.rev /\ pc' = "sent"
         /\ sub'.slot = r /\ sub'.key = k /\ sub' \in Submission
         /\ sub'.reuse \/ sub'.tries > 0 \/ Fresh(k)
         /\ UNCHANGED <<rev, content, ops, draft, known, shown, conflict>> /\ ~conflict.open
  <2>1. CASE ConfirmSave
    <3>1. PICK r \in Reqs, k \in Keys :
             /\ KeyFor(known, draft, k) /\ SendRequest(r, k, known, draft)
             /\ at' = [key |-> k, exp |-> known, new |-> draft]
             /\ sub' = [NoSub EXCEPT !.slot = r, !.key = k, !.reuse = Matches(known, draft)]
      BY <2>1 DEF ConfirmSave
    <3>2. known \in Revs /\ known <= shown.rev /\ draft \in Contents
      BY <1>0, <2>1 DEF ConfirmSave, ClientTypes, DisplayTrue
    <3>3. Matches(known, draft) \in BOOLEAN
      BY DEF Matches
    <3>4. sub' \in Submission /\ sub'.slot = r /\ sub'.key = k /\ sub'.reuse = Matches(known, draft)
      BY <3>1, <3>3, BlankTypes DEF Submission
    <3>5. CASE Matches(known, draft)
      <4>1. at \in Attempt /\ at.key = k /\ at.exp = known /\ at.new = draft
        BY <1>0, <3>1, <3>5 DEF KeyFor, Matches, ClientTypes
      <4>2. at' = at
        BY <3>1, <4>1 DEF Attempt
      <4> QED
        BY <2>1, <3>1, <3>2, <3>4, <3>5, <4>2 DEF ConfirmSave
    <3>6. CASE ~Matches(known, draft)
      BY <2>1, <3>1, <3>2, <3>4, <3>6 DEF ConfirmSave, KeyFor
    <3> QED
      BY <3>5, <3>6
  <2>2. CASE Retry
    <3>1. PICK r \in Reqs : SendRequest(r, sub.key, at.exp, at.new) /\ sub' = [sub EXCEPT !.slot = r, !.key = sub.key]
      BY <2>2 DEF Retry, SameKey
    <3>2. /\ at \in Attempt /\ at.key = sub.key /\ at.new = draft /\ at.exp <= shown.rev
          /\ ~conflict.open /\ sub.tries > 0
      BY <1>0, <2>2 DEF Retry, AttemptRuns, ClientTypes, DisplayTrue, ConflictAlone
    <3>3. at = [key |-> sub.key, exp |-> at.exp, new |-> at.new] /\ at.exp \in Revs /\ at.new \in Contents
          /\ sub.key \in Keys
      BY <3>2 DEF Attempt
    <3>4. sub' \in Submission /\ sub'.slot = r /\ sub'.key = sub.key /\ sub'.tries = sub.tries
      BY <1>0, <3>1, <3>3 DEF ClientTypes, Submission
    <3>5. /\ pc' = "sent" /\ at' = at
          /\ UNCHANGED <<rev, content, ops, draft, known, shown, conflict>>
      BY <2>2 DEF Retry
    <3> HIDE DEF Attempt
    <3> QED
      BY <3>1, <3>2, <3>3, <3>4, <3>5
  <2> QED
    BY <2>1, <2>2<1>2. ServerInv'
  BY <1>0, <1>1, SendKeeps
<1>3. /\ KeysFit'
      /\ \A p \in Reqs : Open(p)' => IF p = r THEN req'[p].key = k /\ req'[p].exp = e
                                              ELSE Open(p) /\ req'[p] = req[p]
      /\ Open(r)'
  <2>1. req' = [req EXCEPT ![r] = [NoReq EXCEPT !.pc = "sent", !.key = k, !.exp = e, !.new = c]]
    BY <1>1 DEF SendRequest
  <2>2. [NoReq EXCEPT !.pc = "sent", !.key = k, !.exp = e, !.new = c].pc = "sent"
    BY DEF NoReq
  <2>3. Open(r)'
    BY <1>0, <2>1, <2>2 DEF Open
  <2>4. /\ SendRequest(r, k, e, c) /\ UNCHANGED ops
        /\ Fresh(k) \/ at' = at
        /\ at' = [key |-> k, exp |-> e, new |-> c]
    BY <1>1
  <2>5. /\ KeysFit'
        /\ \A p \in Reqs : Open(p)' => IF p = r THEN req'[p].key = k /\ req'[p].exp = e
                                                ELSE Open(p) /\ req'[p] = req[p]
    BY <2>4, SendFits
  <2> QED
    BY <2>3, <2>5
<1>4. ClientTypes'
  BY <1>0, <1>1 DEF ClientTypes, ClientSteps, Attempt
<1>5. AttemptRuns'
  BY <1>1, <1>3, ClientAssumption DEF AttemptRuns
<1>6. ConflictAlone'
  BY <1>1 DEF ConflictAlone
<1>7. DisplayTrue'
  <2>1. ASSUME NEW p \in Reqs, Open(p)' PROVE req'[p].exp <= shown.rev
    BY <1>0, <1>1, <1>3, <2>1 DEF DisplayTrue
  <2>2. sub'.reuse \/ sub'.tries > 0 \/ ops[k].state # "SUCCEEDED"
    BY <1>1 DEF Fresh, NoOp
  <2> QED
    BY <1>0, <1>1, <2>1, <2>2 DEF DisplayTrue, Seen, PossiblyReplayed
<1> QED
  BY <1>2, <1>3, <1>4, <1>5, <1>6, <1>7, Assemble

\* So does a save of another tab, which uses a key of its own.
LEMMA OthersKeep ==
    ASSUME ClientInv, NEW k \in Keys, OtherSaves(k)
    PROVE  ClientInv'
<1>0. /\ ClientTypes /\ DisplayTrue /\ ConflictAlone /\ AttemptRuns /\ Revs \subseteq Int /\ KeysFit
      /\ rev \in Revs /\ req \in [Reqs -> Request] /\ ops \in [Keys -> Operation] /\ ServerInv
      /\ \A r \in Reqs : Open(r) => req[r].key \in Keys
  BY ClientFacts
<1>1. /\ ops[k].state = "NONE" /\ \A r \in Reqs : req[r].key # k
      /\ at # None => at.key # k
      /\ rev' = rev + 1 /\ content' \in Contents /\ rev' \in Revs /\ rev' <= MaxRev
      /\ UNCHANGED <<req, pc, at, sub, draft, known, shown, conflict>>
  BY <1>0, SaveAssumption DEF OtherSaves, Fresh, NoOp, Revs, clientVars
<1> DEFINE row == [state |-> "SUCCEEDED", exp |-> rev, new |-> content', result |-> rev', live |-> TRUE]
<1>2. ops' = [ops EXCEPT ![k] = row] /\ row \in Operation
  BY <1>0, <1>1 DEF OtherSaves, Operation
<1>3. /\ row.state = "SUCCEEDED" /\ row.exp = rev /\ row.new = content' /\ row.result = rev'
      /\ ops'[k] = row /\ \A j \in Keys : j # k => ops'[j] = ops[j]
  BY <1>0, <1>2
<1> HIDE DEF row
<1>4. Kept /\ ops' \in [Keys -> Operation]
  BY <1>0, <1>1, <1>2, <1>3 DEF Kept
<1>5. ServerInv'
  BY <1>0, <1>1, <1>4, NoneMoves
<1>6. ClientTypes' /\ ConflictAlone' /\ AttemptRuns'
  BY <1>0, <1>1 DEF ClientTypes, ConflictAlone, AttemptRuns, Open
<1>7. KeysFit'
  <2>1. at # None => at.key \in Keys
    BY <1>0 DEF ClientTypes, Attempt
  <2> QED
    BY <1>0, <1>1, <1>3, <2>1 DEF KeysFit, RowFor, Open
<1>8. DisplayTrue'
  <2>1. ASSUME NEW n \in Revs, NEW c, Seen(n, c) PROVE Seen(n, c)'
    BY <1>0, <1>1, <2>1 DEF Seen
  <2>2. Seen(shown.rev, shown.content)' /\ shown.rev \in Revs
    BY <1>0, <1>1, <2>1 DEF DisplayTrue, ClientTypes, Shown
  <2>3. \A r \in Reqs : Open(r)' => req'[r].exp <= shown.rev
    BY <1>0, <1>1 DEF DisplayTrue, Open
  <2>4. ASSUME NEW j \in Keys, ops'[j].state = "SUCCEEDED" PROVE Seen(ops[j].result, ops[j].new)'
    <3>1. CASE j = k
      BY <1>0, <1>1, <1>3, <3>1 DEF Seen
    <3>2. CASE j # k
      BY <1>0, <1>3, <2>1, <2>4, <3>2 DEF DisplayTrue, Operation
    <3> QED
      BY <3>1, <3>2
  <2>5. pc = "sent" => sub.key \in Keys /\ sub.key # k
    BY <1>0, <1>1 DEF AttemptRuns
  <2>6. conflict.open /\ conflict.rev # None =>
           shown.rev <= conflict.rev /\ Seen(conflict.rev, conflict.content)'
    BY <1>0, <1>1, <2>1 DEF DisplayTrue, ClientTypes, Conflict
  <2> QED
    BY <1>0, <1>1, <1>3, <2>2, <2>3, <2>4, <2>5, <2>6 DEF DisplayTrue, PossiblyReplayed
<1> QED
  BY <1>5, <1>6, <1>7, <1>8, Assemble

\* Forgetting a request that the workspace has given up keeps ClientInv.
LEMMA UnheardKeeps ==
    ASSUME ClientInv, NEW r \in Reqs, Unheard(r)
    PROVE  ClientInv'
<1>0. /\ ClientTypes /\ DisplayTrue /\ ConflictAlone /\ AttemptRuns /\ KeysFit
      /\ req \in [Reqs -> Request] /\ ServerInv
  BY ClientFacts
<1>1. /\ UNCHANGED <<rev, content, ops, pc, at, sub, draft, known, shown, conflict>>
      /\ r # sub.slot /\ Unsent /\ req' = [req EXCEPT ![r] = NoReq] /\ ~(NoReq.pc # "idle")
  BY DEF Unheard, Unsent, clientVars, Forget, NoReq
<1>2. ServerInv' /\ \A p \in Reqs : Open(p)' => Open(p) /\ req'[p] = req[p]
  BY <1>1, UnsentKeeps DEF Open
<1>3. ClientTypes' /\ ConflictAlone'
  BY <1>0, <1>1 DEF ClientTypes, ConflictAlone
<1>4. AttemptRuns'
  BY <1>0, <1>1 DEF AttemptRuns, Open
<1>5. KeysFit'
  BY <1>0, <1>1, <1>2 DEF KeysFit, RowFor
<1>6. DisplayTrue'
  BY <1>0, <1>1, <1>2 DEF DisplayTrue, Seen, PossiblyReplayed
<1> QED
  BY <1>2, <1>3, <1>4, <1>5, <1>6, Assemble
-----------------------------------------------------------------------------
(* The workspace with the server and other tabs *)

\* ClientInv holds at first.
LEMMA ClientInvAtFirst ==
    ASSUME Init
    PROVE  ClientInv
<1>1. ServerInv
  BY ServerInvAtFirst DEF Init
<1>2. /\ rev = 0 /\ 0 \in Revs /\ content = None
      /\ \A k \in Keys : ops[k].state = "NONE"
      /\ \A r \in Reqs : ~Open(r)
  BY SaveAssumption DEF Init, SaveInit, NoOp, NoReq, Open, Revs
<1>3. ClientTypes
  BY <1>2, BlankTypes DEF Init, ClientTypes, ClientSteps, Shown, Blank
<1>4. KeysFit /\ AttemptRuns /\ ConflictAlone
  BY <1>2 DEF Init, KeysFit, AttemptRuns, ConflictAlone, NoConflict
<1>5. DisplayTrue
  BY <1>2 DEF Init, DisplayTrue, Seen, Blank, NoConflict
<1> QED
  BY <1>1, <1>3, <1>4, <1>5, ClientTypesOK DEF ClientInv, ServerInv

\* Every step keeps ClientInv.
LEMMA ClientInvKept == ASSUME ClientInv, [Next]_vars PROVE ClientInv'
<1>1. CASE ServerStep /\ UNCHANGED clientVars
  BY <1>1, ServerStepKeeps
<1>2. CASE ControllerStep
  BY <1>2, OutcomesKeep, SendingKeeps, ReadsKeep DEF ControllerStep
<1>3. CASE StudentStep
  BY <1>3, SendingKeeps, StudentKeeps DEF StudentStep
<1>4. CASE \E k \in Keys : OtherSaves(k)
  BY <1>4, OthersKeep
<1>5. CASE \E r \in Reqs : Unheard(r)
  BY <1>5, UnheardKeeps
<1>6. CASE UNCHANGED vars
  <2>1. UNCHANGED <<rev, content, ops, req, pc, at, sub, draft, known, shown, conflict>>
    BY <1>6 DEF vars, serverVars, clientVars
  <2> QED
    BY <2>1 DEF ClientInv, TypeOK, SaveTypeOK, ServerInv, RequestsSound, KeysFit, RowFor, Open, AttemptRuns,
       DisplayTrue, Seen, PossiblyReplayed, ConflictAlone
<1> QED
  BY <1>1, <1>2, <1>3, <1>4, <1>5, <1>6 DEF Next

\* ClientInv is an invariant.
LEMMA ClientInductive == Spec => []ClientInv
BY ClientInvAtFirst, ClientInvKept, PTL DEF Spec

\* Every variable of the workspace and the server keeps its type.
THEOREM WorkspaceTypeCorrect == Spec => []TypeOK
<1>1. ClientInv => TypeOK
  BY DEF ClientInv
<1> QED
  BY <1>1, ClientInductive, PTL

\* The keys of saveController.ts are never mixed up: however edits, lost answers and
\* retries follow each other, no answer says that a key stands for another payload.
THEOREM KeysNeverConflict == Spec => []NoKeyConflict
<1>1. ClientInv => NoKeyConflict
  BY DEF ClientInv, AttemptRuns, KeysFit, NoKeyConflict, Reply
<1> QED
  BY <1>1, ClientInductive, PTL

\* The attempt that a conflict ends in save() has not been saved by an earlier request of it
\* with a lost answer, and the account is past its revision, so that no request of it can
\* save it later; that another attempt of the same workspace moved it is not excluded.
THEOREM ConflictsEndAttempts == Spec => ConflictEndsAttempt
<1>1. ClientInv => (Read /\ Reply = "REVISION_CONFLICT" =>
                       ops[at.key].state # "SUCCEEDED" /\ at.exp < rev)
  <2> SUFFICES ASSUME ClientInv, Read, Reply = "REVISION_CONFLICT"
               PROVE  ops[at.key].state # "SUCCEEDED" /\ at.exp < rev
    OBVIOUS
  <2> QED
    BY HeardFacts DEF Truthful, For, RowFor, Reply
<1> QED
  BY <1>1, ClientInductive, PTL DEF ConflictEndsAttempt

\* With this workspace and other tabs too, every answer is still true when it is read.
THEOREM AnswersStayTrueToWorkspace == Spec => []AnswersHold
<1>1. ClientInv => AnswersHold
  BY AnswersSoundlyHold DEF ClientInv
<1> QED
  BY <1>1, ClientInductive, PTL

\* A step that commits a save of the workspace replaces what is displayed.
LEMMA ReplacesShown == ASSUME ClientInv, [Next]_vars PROVE [ReplacesWhatIsShown]_vars
<1> SUFFICES ASSUME ClientInv, [Next]_vars, NEW k \in Keys,
                    Committed(k), content # content', ~OtherSaves(k)
             PROVE  shown.content = content
  BY DEF ReplacesWhatIsShown
<1>0. ClientTypes /\ DisplayTrue /\ ServerInv /\ Revs \subseteq Int /\ ops \in [Keys -> Operation]
  BY ClientFacts
<1>1. CASE \E r \in Reqs : RequestStep(r)
  <2>1. PICK r \in Reqs : RequestStep(r)
    BY <1>1
  <2>2. SaveCommits(r) /\ Open(r)
    BY <2>1 DEF RequestStep, Authenticate, Lookup, Recheck, RequireReview, ReplayReview,
       SaveLocked, SaveFindsOp, SaveRefused, TouchAndAnswer, Open
  <2>3. rev = req[r].exp
    BY <2>2 DEF SaveCommits
  <2>4. rev <= shown.rev /\ shown.rev <= rev /\ (shown.rev = rev => shown.content = content)
    BY <1>0, <2>2, <2>3 DEF DisplayTrue, Seen
  <2>5. rev \in Int /\ shown.rev \in Int
    BY <1>0, ClientFacts DEF ClientTypes, Shown
  <2> QED
    BY <2>4, <2>5
<1>2. CASE DeleteResume \/ \E j \in Keys : OpExpires(j)
  BY <1>0, <1>2 DEF DeleteResume, OpExpires, Committed, Operation
<1>3. CASE ControllerStep \/ StudentStep \/ (\E r \in Reqs : Unheard(r)) \/ UNCHANGED vars
  BY <1>3 DEF ControllerStep, StudentStep, Unheard, vars, serverVars,
     SaveSucceeds, SaveUnsettled, SaveNeedsReview, SaveConflicts, SaveFails, Retry, Read,
     ResolveOperation, RefreshFails, RefreshSaved, RefreshFailed, RefreshConflict,
     ReadAccount, ReconcileAccount, Load, ConfirmSave, CheckSaveStatus, Reload, Edit,
     AskConflictAgain, ResolveConflict
<1>4. ASSUME NEW j \in Keys, OtherSaves(j) PROVE FALSE
  <2>1. j # k
    BY <1>4
  <2>2. ops'[k] = ops[k]
    BY <1>0, <1>4, <2>1 DEF OtherSaves
  <2> QED
    BY <2>2 DEF Committed
<1> QED
  BY <1>1, <1>2, <1>3, <1>4 DEF Next, ServerStep

\* A save that a request of this workspace commits, even one it gave up long ago, replaces
\* the profile it displays: a write of another tab is never overwritten unseen.
THEOREM NothingOverwrittenUnseen == Spec => [][ReplacesWhatIsShown]_vars
BY ReplacesShown, ClientInductive, PTL DEF Spec

\* The same of the run, where the requests are the workspace's or any client's: as long as
\* they are the workspace's, nothing is overwritten that it does not display.
THEOREM NothingOverwrittenInTheRun == MCSpec => NoBlindOverwrite
<1> DEFINE I == clients = "workspace" => ClientInv
<1>1. MCInit => I
  BY ClientInvAtFirst DEF MCInit
<1>2. ASSUME I, [MCNext]_<<vars, clients>> PROVE I'
  BY <1>2, ClientInvKept DEF MCNext
<1>3. ASSUME I, [MCNext]_<<vars, clients>>
      PROVE  [clients = "workspace" => ReplacesWhatIsShown]_<<vars, clients>>
  <2> SUFFICES ASSUME clients = "workspace", MCNext, ~UNCHANGED vars PROVE ReplacesWhatIsShown
    BY <1>3 DEF MCNext
  <2> QED
    BY <1>3, ReplacesShown DEF MCNext
<1> HIDE DEF I
<1> QED
  BY <1>1, <1>2, <1>3, PTL DEF MCSpec, NoBlindOverwrite

\* A save of another tab is a Save of its key.
LEMMA OtherRefines ==
    ASSUME ClientInv, NEW k \in Keys, OtherSaves(k)
    PROVE  Once!Save(k)
<1> DEFINE did == [exp |-> rev, new |-> content', result |-> rev']
           row == [state |-> "SUCCEEDED", exp |-> rev, new |-> content', result |-> rev', live |-> TRUE]
<1>1. /\ ops \in [Keys -> Operation] /\ ops' = [ops EXCEPT ![k] = row] /\ ops[k].state = "NONE"
      /\ content' \in Contents /\ content' # content /\ rev' = rev + 1
  BY ClientFacts DEF OtherSaves, Fresh, NoOp
<1>2. /\ row.state = "SUCCEEDED" /\ row.exp = rev /\ row.new = content' /\ row.result = rev'
      /\ ops'[k] = row /\ \A j \in Keys : j # k => ops'[j] = ops[j]
  BY <1>1
<1>3. Done[k] = None
  BY <1>1 DEF Done
<1>4. Done' = [Done EXCEPT ![k] = did]
  <2>1. Done'[k] = did
    BY <1>2 DEF Done
  <2>2. \A j \in Keys : j # k => Done'[j] = Done[j]
    BY <1>2 DEF Done
  <2>3. /\ Done' = [j \in Keys |-> Done'[j]]
        /\ [Done EXCEPT ![k] = did] = [j \in Keys |-> IF j = k THEN did ELSE Done[j]]
    BY DEF Done
  <2> HIDE DEF did
  <2> QED
    BY <2>1, <2>2, <2>3
<1> QED
  BY <1>1, <1>3, <1>4 DEF Once!Save

\* With the workspace's retries and the other tabs, the endpoint implements SaveOnce.
THEOREM WorkspaceSavesOnce == Spec => SavesOnce
<1>1. ClientInv /\ [Next]_vars => [Once!Next]_(Once!vars)
  <2> SUFFICES ASSUME ClientInv, [Next]_vars PROVE [Once!Next]_(Once!vars)
    OBVIOUS
  <2>1. CASE UNCHANGED <<rev, content, ops>>
    <3>1. UNCHANGED Done
      BY <2>1 DEF Done
    <3> QED
      BY <2>1, <3>1 DEF Once!vars
  <2>2. CASE ServerStep
    BY <2>2, ServerRefines, ClientFacts
  <2>3. CASE \E k \in Keys : OtherSaves(k)
    BY <2>3, OtherRefines DEF Once!Next
  <2>4. CASE ControllerStep \/ StudentStep \/ (\E r \in Reqs : Unheard(r)) \/ UNCHANGED vars
    <3>1. UNCHANGED <<rev, content, ops>>
      BY <2>4 DEF ControllerStep, StudentStep, Unheard, vars, serverVars,
         SaveSucceeds, SaveUnsettled, SaveNeedsReview, SaveConflicts, SaveFails, Retry, Read,
         ResolveOperation, RefreshFails, RefreshSaved, RefreshFailed, RefreshConflict,
         ReadAccount, ReconcileAccount, Load, ConfirmSave, CheckSaveStatus, Reload, Edit,
         AskConflictAgain, ResolveConflict
    <3> QED
      BY <2>1, <3>1
  <2> QED
    BY <2>2, <2>3, <2>4 DEF Next
<1>2. Init => Once!Init
  BY InitRefines DEF Init
<1> QED
  BY <1>1, <1>2, ClientInductive, PTL DEF Spec, SavesOnce, Once!Spec
=============================================================================
