\* An upload and a save with a worker of each kind, or saves with two EMBEDDING workers.
SPECIFICATION Spec
CONSTANTS
    x1 = x1
    e1 = e1
    e2 = e2
    Users = {u1}
    Contents = {c1, c2}
    Chunkless = {c2}
    Refs = {r1}
    Procs = {x1, e1, e2}
    Workers = {x1, e1, e2}
    WorkerKind <- MCWorkerKind
    None = None
    AfterTask = "sweep"
    MaxTasks = 3
    MaxAttempts = 2
    MaxRevision = 2
    MaxFaults = 1
CONSTRAINT Scenarios
INVARIANTS
    TypeOK
    OutboxAgrees
    NothingSurvivesDelete
    InputPresent
    ChunksOfProfile
    EmbeddingAccounted
PROPERTY TerminalIsFinal
