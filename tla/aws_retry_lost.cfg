\* A retry whose message is received before its acknowledgement.
SPECIFICATION Spec
CONSTANTS
    x1 = x1
    x2 = x2
    e1 = e1
    e2 = e2
    c1 = c1
    Users = {u1}
    Contents = {c1}
    Chunkless = {}
    Refs = {}
    Procs = {e1, p1}
    Workers = {e1}
    Publishers = {p1}
    WorkerKind <- MCWorkerKind
    None = None
    AfterTask = "settle"
    MaxTasks = 1
    MaxAttempts = 2
    MaxRevision = 2
    MaxMessages = 2
    MaxReceives = 3
    MaxFaults = 1
INVARIANTS
    RetryDeliveryKept
