-------------------------------- MODULE Ranking --------------------------------
(***************************************************************************)
(* A job's requirements from the batch file to its score: the import drops *)
(* duplicates (dedupe_requirements of importer.py), and the score of what  *)
(* is left is computed twice in this code, in memory (scoring.py: the      *)
(* loader, score_job, rank_jobs) and in PostgreSQL (sql.py: RANK_SQL,      *)
(* rank_jobs_sql).  The loop over the requirements is a step per           *)
(* requirement; the two scorings are operators on what it has kept.        *)
(*                                                                         *)
(* A score is the best similarity of a text with any chunk, an integer     *)
(* here; a job's mean is the pair of their sum and number.                 *)
(***************************************************************************)
EXTENDS Integers, Sequences, FiniteSets, FiniteSetsExt, SequencesExt

CONSTANTS
    Jobs,           \* job ids, numbers: the order of ties
    Texts,          \* texts as they are written, and embedded
    Norm,           \* Norm[t]: the text without case and spacing
    Alternatives,   \* lists of alternatives; <<>> for none
    Sim,            \* Sim[t]: the best cosine of the text with a resume chunk
    Batches,        \* functions from Jobs to sequences of requirements
    Missing         \* sets of texts without a vector in the current version

Requirement == [text : Texts, alts : Alternatives, imp : {"REQUIRED", "PREFERRED"}]

NormSet(alts) == {Norm[alts[n]] : n \in DOMAIN alts}

\* The alternatives of a requirement are distinct: the schema refuses others.
ASSUME RankingAssumption ==
    /\ Jobs \subseteq Nat /\ IsFiniteSet(Jobs)
    /\ Norm \in [Texts -> Texts] /\ Sim \in [Texts -> Nat]
    /\ Alternatives \subseteq Seq(Texts)
    /\ \A a \in Alternatives : \A m, n \in DOMAIN a : m # n => Norm[a[m]] # Norm[a[n]]
    /\ Batches \subseteq [Jobs -> Seq(Requirement)]

VARIABLES
    batch,      \* batch[j]: the requirements in the file
    missing,    \* the texts whose stored vectors are of another version
    kept,       \* kept[j]: the requirements that are stored
    looked        \* looked[j]: how many requirements of the file have been looked at

rankVars == <<batch, missing, kept, looked>>

RankInit ==
    /\ batch \in Batches /\ missing \in Missing
    /\ kept = [j \in Jobs |-> <<>>]
    /\ looked = [j \in Jobs |-> 0]

-----------------------------------------------------------------------------
(* dedupe_requirements *)

\* The alternatives of one requirement are distinct, so sorting them is their set.
ImportKey(r) == <<Norm[r.text], NormSet(r.alts)>>

Promoted(old, r) == old.imp = "PREFERRED" /\ r.imp = "REQUIRED"

Dedupe(j) ==
    /\ looked[j] < Len(batch[j])
    /\ LET r == batch[j][looked[j] + 1]
           same == {n \in DOMAIN kept[j] : ImportKey(kept[j][n]) = ImportKey(r)}
       IN  kept' = [kept EXCEPT ![j] =
                IF same = {} THEN Append(@, r)
                ELSE [n \in DOMAIN @ |-> IF n \in same /\ Promoted(@[n], r) THEN r ELSE @[n]]]
    /\ looked' = [looked EXCEPT ![j] = @ + 1]
    /\ UNCHANGED <<batch, missing>>

Imported == \A j \in Jobs : looked[j] = Len(batch[j])

RankOver == Imported /\ UNCHANGED rankVars

RankNext == RankOver \/ \E j \in Jobs : Dedupe(j)

RankSpec == RankInit /\ [][RankNext]_rankVars

-----------------------------------------------------------------------------
(* The score in memory *)

\* requirement_texts: what is embedded
Embedded(r) == IF r.alts = <<>> THEN <<r.text>> ELSE r.alts

\* requirement_match: the best alternative
Best(r) == Max({Sim[Embedded(r)[n]] : n \in DOMAIN Embedded(r)})

\* load_job_vectors: a text without a current vector leaves the matrix short
Complete(r) == \A n \in DOMAIN Embedded(r) : Embedded(r)[n] \notin missing

\* _dedupe_key is about the embedded texts
ScoreKey(r) == <<Norm[r.text], NormSet(Embedded(r))>>

\* score_job: the REQUIRED requirements, equal ones once, the first of them
Scored(reqs) ==
    {n \in DOMAIN reqs :
        /\ reqs[n].imp = "REQUIRED"
        /\ \A m \in 1 .. n - 1 : reqs[m].imp = "REQUIRED" => ScoreKey(reqs[m]) # ScoreKey(reqs[n])}

\* fmean, and AVG: over all of S or, if a vector is missing, not at all
MeanOver(reqs, S) ==
    IF S = {} THEN [sum |-> 0, n |-> 0, why |-> "no_required"]
    ELSE IF \E n \in S : ~Complete(reqs[n]) THEN [sum |-> 0, n |-> 0, why |-> "incomplete"]
    ELSE [sum |-> MapThenSumSet(LAMBDA n : Best(reqs[n]), S), n |-> Cardinality(S), why |-> ""]

ScoreJob(reqs) == MeanOver(reqs, Scored(reqs))

-----------------------------------------------------------------------------
(* The score in SQL *)

\* req, and job_score of the jobs whose every requirement has all its vectors
SqlScore(reqs) == MeanOver(reqs, {n \in DOMAIN reqs : reqs[n].imp = "REQUIRED"})

-----------------------------------------------------------------------------
(* The ranking and its pages *)

Better(a, b) == a.sum * b.n > b.sum * a.n

\* The jobs that have a score
Scorable(score) == {j \in Jobs : score[j].why = ""}

\* i ranks before j, or is j: equal scores by the job's id
RanksBefore(score, i, j) == \/ Better(score[i], score[j])
                            \/ ~Better(score[j], score[i]) /\ i <= j

Place(score, j) == Cardinality({i \in Scorable(score) : RanksBefore(score, i, j)})

\* rank_jobs and RANK_SQL: every job first, then the order, then the page
Ranked(score) ==
    [n \in 1 .. Cardinality(Scorable(score)) |-> CHOOSE j \in Scorable(score) : Place(score, j) = n]

Slice(s, limit, offset) == SubSeq(s, offset + 1, Min({offset + limit, Len(s)}))

MemoryPage(limit, offset) ==
    LET score == [j \in Jobs |-> ScoreJob(kept[j])]
    IN  [rows |-> Slice(Ranked(score), limit, offset), total |-> Cardinality(Scorable(score)),
         incomplete |-> Cardinality({j \in Jobs : score[j].why = "incomplete"})]

\* faulty variant: the total is read from the page alone
NoProbe(score, limit, offset) == Slice(Ranked(score), limit, offset)

\* rank_jobs_sql: an empty page past the end asks again for the first row, which has the total
PageOrFirst(score, limit, offset) ==
    LET rows == Slice(Ranked(score), limit, offset)
    IN  IF rows = <<>> /\ offset > 0 THEN Slice(Ranked(score), 1, 0) ELSE rows

SqlPage(limit, offset) ==
    LET score == [j \in Jobs |-> SqlScore(kept[j])]
        considered == Cardinality({j \in Jobs : score[j].why # "no_required"})
        total == IF PageOrFirst(score, limit, offset) = <<>> THEN 0 ELSE Cardinality(Scorable(score))
    IN  [rows |-> Slice(Ranked(score), limit, offset), total |-> total, incomplete |-> Max({considered - total, 0})]

-----------------------------------------------------------------------------
(* Properties *)

Pages == (1 .. 2) \X (0 .. Cardinality(Jobs) + 1)

\* Requirements the import tells apart and the score in memory does not: a text stated
\* plainly, and the same text as its own only alternative.
OwnChoice(r, s) == r.alts = <<>> /\ s.alts # <<>> /\ Norm[r.text] = Norm[s.text] /\ NormSet(s.alts) = {Norm[r.text]}

Twins(r, s) == OwnChoice(r, s) \/ OwnChoice(s, r)

RequiredTwins(reqs, m, n) == reqs[m].imp = "REQUIRED" /\ reqs[n].imp = "REQUIRED" /\ Twins(reqs[m], reqs[n])

Twinned(j) == \E m, n \in DOMAIN kept[j] : RequiredTwins(kept[j], m, n)

\* Two computations of one ranking.  Of an imported job the score in memory leaves out what
\* the score in SQL counts in one case only, the second of two twins.  Where no job has
\* twins, both give every page the same rows, the same total and the same number of jobs
\* left out, past the last page too.
ScoringsAgree ==
    Imported =>
        /\ \A j \in Jobs : Scored(kept[j]) =
              {n \in DOMAIN kept[j] : /\ kept[j][n].imp = "REQUIRED"
                                     /\ \A m \in 1 .. n - 1 : ~RequiredTwins(kept[j], m, n)}
        /\ (\A j \in Jobs : ~Twinned(j)) =>
              \A p \in Pages : MemoryPage(p[1], p[2]) = SqlPage(p[1], p[2])
=============================================================================
