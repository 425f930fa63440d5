\* Two requests and two tokens past both lifetimes; two uploads with two functions of the
\* page under way; three transactions on two tasks.
SPECIFICATION MCSpec
CONSTANTS
    Tokens = {t1, t2}
    Subs = {s1, s2}
    Reqs = {r1, r2}
    Idle = 2
    Absolute = 4
    Throttle = 1
    MaxTime = 5
    None = None
    MaxExtractions = 2
    Flows = {f1, f2}
    MaxEpoch = 4
    Txs = {x1, x2, x3}
    MaxTask = 2
    Nobody = Nobody
SYMMETRY OverlapSymmetry
INVARIANTS
    SignedOutStaysOut
    IdleCountsFromUse
    OneAccount
    NoWaitCycle
PROPERTIES
    ReviewIsTheStudents
    SourceOfDraft
    DeletionMissesNothing
