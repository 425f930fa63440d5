\* Uploads end and objects are reclaimed, whatever becomes of the message: one message at a
\* time, redelivered and dead-lettered, two workers that contend for its task.
SPECIFICATION FairSpec
CONSTANTS
    x1 = x1
    x2 = x2
    e1 = e1
    e2 = e2
    c1 = c1
    Users = {u1}
    Contents = {}
    Chunkless = {}
    Refs = {r1}
    Procs = {x1, x2, p1}
    Workers = {x1, x2}
    Publishers = {p1}
    WorkerKind <- MCWorkerKind
    None = None
    AfterTask = "settle"
    MaxTasks = 1
    MaxAttempts = 2
    MaxRevision = 2
    MaxMessages = 1
    MaxReceives = 3
    MaxFaults = 1
PROPERTIES
    ExtractionsSettle
    ObjectsReclaimed
