--------------------------- MODULE CatalogueReaders ---------------------------
(***************************************************************************)
(* GET /api/jobs, /api/jobs/{id} and /api/matches (app/api/jobs.py,        *)
(* matches.py, app/matching/sql.py) beside running imports, saves and      *)
(* embeddings.  A student pages through the listing and passes on the      *)
(* catalogue revision, and for matches the profile revision, of the first  *)
(* page.  A request reads one REPEATABLE READ snapshot, so it is one step; *)
(* between two pages anything may be committed.                            *)
(***************************************************************************)
EXTENDS CatalogueImport

CONSTANTS
    Readers,            \* students' listings
    PageSize,           \* limit
    EmbeddingVersion,   \* EMBEDDING_VERSION of the running API
    Contents,           \* resume contents
    Score(_, _),        \* how well a job's texts match a content
    MaxProfileRev       \* bound: no more saves at this profile revision

ASSUME ReaderAssumption ==
    /\ PageSize \in Nat \ {0} /\ MaxProfileRev \in Nat
    /\ EmbeddingVersion \in Versions
    /\ JobKeys \subseteq Nat /\ IsFiniteSet(JobKeys)     \* listings order equal jobs by id
    /\ \A c \in Contents, T \in SUBSET Texts : Score(c, T) \in Int

VARIABLES
    profile,    \* the student's profile, its revision and the state of its embedding
    page        \* page[r]: a listing under way

readerVars == <<profile, page>>
vars == <<importVars, readerVars>>

NoPage == [pc |-> "idle", kind |-> "jobs", rev |-> 0, prof |-> 0, got |-> <<>>,
           all |-> <<>>, opened |-> "none"]

Init ==
    /\ ImportInit
    /\ profile = [rev |-> 0, content |-> None, state |-> "none"]
    /\ page = [r \in Readers |-> NoPage]

-----------------------------------------------------------------------------
(* The student's resume, as the other modules let it change *)

SaveProfile ==
    /\ profile.rev < MaxProfileRev
    /\ \E c \in Contents : profile' = [rev |-> profile.rev + 1, content |-> c, state |-> "pending"]
    /\ UNCHANGED <<importVars, page>>

\* The embedding task ends, without chunks for a resume that has no project and no
\* experience, or is tried again.
EmbeddingMoves ==
    /\ \/ /\ profile.state = "pending"
          /\ \E s \in {"ready", "failed", "empty"} : profile' = [profile EXCEPT !.state = s]
       \/ profile.state = "failed" /\ profile' = [profile EXCEPT !.state = "pending"]
    /\ UNCHANGED <<importVars, page>>

DeleteProfile ==
    /\ profile.state # "none" /\ profile.rev < MaxProfileRev
    /\ profile' = [rev |-> profile.rev + 1, content |-> None, state |-> "none"]
    /\ UNCHANGED <<importVars, page>>

-----------------------------------------------------------------------------
(* The listings *)

\* The n-th of the keys has n of them, itself included, at or before it.
Sorted(keys, before(_, _)) ==
    [n \in 1 .. Cardinality(keys) |-> CHOOSE k \in keys : Cardinality({j \in keys : before(j, k)}) = n]

Active == {k \in JobKeys : jobs[k] # None /\ jobs[k].job.active}

\* list_jobs: newest first, then by id
JobsListing ==
    LET before(j, k) == \/ jobs[j].job.posted > jobs[k].job.posted
                        \/ jobs[j].job.posted = jobs[k].job.posted /\ j <= k
    IN  Sorted(Active, before)

\* RANK_SQL: jobs whose vectors are all there in the API's version, best score first
Rankable == {k \in Active : \A t \in jobs[k].job.texts :
                t \in DOMAIN jobs[k].vec /\ jobs[k].vec[t] = EmbeddingVersion}

MatchesListing ==
    LET s(k) == Score(profile.content, jobs[k].job.texts)
        before(j, k) == s(j) > s(k) \/ (s(j) = s(k) /\ j <= k)
    IN  Sorted(Rankable, before)

Listing(kind) ==
    LET keys == IF kind = "jobs" THEN JobsListing ELSE MatchesListing
    IN  [n \in DOMAIN keys |-> jobs[keys[n]].id]

\* limit and offset, after sorting
PageOf(listing, offset) ==
    SubSeq(listing, offset + 1, IF offset + PageSize < Len(listing) THEN offset + PageSize ELSE Len(listing))

\* _matching_resume: a current resume with chunks
MatchReady(kind) == kind = "matches" => profile.state = "ready"

\* faulty variant: the catalogue's revision is not compared
SameProfile(r) == page[r].kind = "matches" => page[r].prof = profile.rev

\* _revision and _matching_resume: else RESULTS_CHANGED
SameResults(r) ==
    /\ page[r].rev = revision
    /\ page[r].kind = "matches" => page[r].prof = profile.rev

\* A page is appended; the listing is complete once its total has been collected.
Collect(r, p, listing) ==
    LET got == p.got \o PageOf(listing, Len(p.got))
    IN  page' = [page EXCEPT ![r] = [p EXCEPT !.got = got,
                                              !.pc = IF Len(got) < Len(listing) THEN "paging" ELSE "done"]]

FirstPage(r) ==
    /\ page[r].pc = "idle" /\ revision # None
    /\ \E kind \in {"jobs", "matches"} :
        /\ MatchReady(kind)
        /\ Collect(r, [NoPage EXCEPT !.kind = kind, !.rev = revision, !.prof = profile.rev,
                                     !.all = Listing(kind)], Listing(kind))
    /\ UNCHANGED <<importVars, profile>>

NextPage(r) ==
    /\ page[r].pc = "paging"
    /\ SameResults(r) /\ MatchReady(page[r].kind)
    /\ Collect(r, page[r], Listing(page[r].kind))
    /\ UNCHANGED <<importVars, profile>>

\* RESULTS_CHANGED, RESUME_REQUIRED or an embedding that is not there: start again.
Restart(r) ==
    /\ page[r].pc = "paging" /\ ~(SameResults(r) /\ MatchReady(page[r].kind))
    /\ page' = [page EXCEPT ![r] = NoPage]
    /\ UNCHANGED <<importVars, profile>>

\* get_job of a job on one of the pages
OpenJob(r) ==
    /\ page[r].pc \in {"paging", "done"} /\ page[r].got # <<>>
    /\ \E n \in DOMAIN page[r].got :
        page' = [page EXCEPT ![r].opened =
                    IF \E k \in JobKeys : jobs[k] # None /\ jobs[k].id = page[r].got[n]
                    THEN "found" ELSE "missing"]
    /\ UNCHANGED <<importVars, profile>>

Leave(r) ==
    /\ page[r].pc # "idle"
    /\ page' = [page EXCEPT ![r] = NoPage]
    /\ UNCHANGED <<importVars, profile>>

ReaderStep(r) == FirstPage(r) \/ NextPage(r) \/ Restart(r) \/ OpenJob(r) \/ Leave(r)

Next ==
    \/ ImportNext /\ UNCHANGED readerVars
    \/ SaveProfile \/ EmbeddingMoves \/ DeleteProfile
    \/ \E r \in Readers : ReaderStep(r)

Spec == Init /\ [][Next]_vars

-----------------------------------------------------------------------------
(* Properties *)

\* A student who reaches the last page without RESULTS_CHANGED has collected exactly one
\* listing, the one of the first page: nothing twice, nothing left out, nothing reordered,
\* whatever was imported or saved between the pages; and a job of it can still be opened.
PagesAgree ==
    \A r \in Readers : /\ page[r].pc = "done" => page[r].got = page[r].all
                      /\ page[r].opened # "missing"
=============================================================================
