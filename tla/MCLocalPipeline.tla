--------------------------- MODULE MCLocalPipeline ---------------------------
(* Instances of LocalPipeline: a worker of each kind, as docker-compose.yml starts *)
(* them, and optionally a second EMBEDDING worker.                                *)
EXTENDS LocalPipeline

CONSTANTS x1, e1, e2        \* worker processes: extraction, embedding, embedding

MCWorkerKind == [w \in Workers |-> IF w = x1 THEN "EXTRACTION" ELSE "EMBEDDING"]

\* An upload and a save with one worker of each kind
OneOfEachKind == pc[e2] = "boot" /\ task[MaxTasks].st = "ABSENT"

\* Saves only, with two EMBEDDING workers
TwoEmbedding == pc[x1] = "boot" /\ \A r \in Refs : obj[r] = "new"

Scenarios == OneOfEachKind \/ TwoEmbedding
=============================================================================
