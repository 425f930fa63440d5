---------------------------- MODULE MCAwsPipeline ----------------------------
(* Instances of AwsPipeline: API instances with their publishers, and workers. *)
EXTENDS AwsPipeline

CONSTANTS x1, x2, e1, e2, c1        \* worker processes, two of each kind; a content

MCWorkerKind == [w \in Workers |-> IF w \in {x1, x2} THEN "EXTRACTION" ELSE "EMBEDDING"]

Only(started) == \A w \in Workers \ started : pc[w] = "boot"
NoUploads == \A r \in Refs : obj[r] = "new"
OneTask == \A t \in TaskIds : t > 1 => task[t].st = "ABSENT"

\* Two saves, their publications and one worker
TwoSaves ==
    /\ Only({e1}) /\ NoUploads
    /\ sqs[MaxMessages] = NoMessage /\ \A m \in Messages : sqs[m].receives < MaxReceives

\* One save, its duplicate messages and two workers
TwoEmbedding ==
    /\ Only({e1, e2}) /\ NoUploads /\ OneTask
    /\ \A u \in Users : profile[u].content \in {c1, None}

\* An upload, with deletion and cleanup, and two workers
TwoExtraction ==
    /\ Only({x1, x2}) /\ OneTask /\ sqs[MaxMessages] = NoMessage
    /\ \A u \in Users : profile[u] = NoResume

Scenarios == TwoSaves \/ TwoEmbedding \/ TwoExtraction
=============================================================================
