\* Saves, duplicate messages, an upload: at most two workers at a time.
SPECIFICATION Spec
CONSTANTS
    x1 = x1
    x2 = x2
    e1 = e1
    e2 = e2
    c1 = c1
    Users = {u1}
    Contents = {c1, c2}
    Chunkless = {}
    Refs = {r1}
    Procs = {x1, x2, e1, e2, p1}
    Workers = {x1, x2, e1, e2}
    Publishers = {p1}
    WorkerKind <- MCWorkerKind
    None = None
    AfterTask = "settle"
    MaxTasks = 2
    MaxAttempts = 2
    MaxRevision = 2
    MaxMessages = 3
    MaxReceives = 3
    MaxFaults = 1
CONSTRAINT Scenarios
INVARIANTS
    FirstDeliveryKept
    ChunksOfProfile
PROPERTY TerminalIsFinal
