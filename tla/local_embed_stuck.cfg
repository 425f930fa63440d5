\* A worker dies on the last attempt of an embedding.
SPECIFICATION FairSpec
CONSTANTS
    x1 = x1
    e1 = e1
    e2 = e2
    Users = {u1}
    Contents = {c1}
    Chunkless = {}
    Refs = {}
    Procs = {e1}
    Workers = {e1}
    WorkerKind <- MCWorkerKind
    None = None
    AfterTask = "sweep"
    MaxTasks = 1
    MaxAttempts = 2
    MaxRevision = 1
    MaxFaults = 1
PROPERTY TasksSettle
