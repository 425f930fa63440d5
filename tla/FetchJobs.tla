------------------------------- MODULE FetchJobs -------------------------------
(***************************************************************************)
(* app/catalogue/fetch_live_jobs.py, fetch_jsearch.py and clean_batch.py:  *)
(* one run of a fetcher, from the provider's pages to the batch file and   *)
(* its provenance sidecar, then the offline cleaning of that file.         *)
(*                                                                         *)
(* A listing is what a provider returns.  Of its text the model keeps what *)
(* the adapters tell apart: the defects a check can find, whether it       *)
(* matches the keyword, how many distinct links it has, and how its        *)
(* quotes lie to the limits of what is stored: a description is cut at     *)
(* 50,000 characters when it is written, an eligibility sentence at 2,000. *)
(* How the lines of a description become requirements is                   *)
(* RequirementExtraction.                                                  *)
(***************************************************************************)
EXTENDS Integers, Sequences, FiniteSets, SequencesExt

CONSTANTS
    Options,        \* the command lines that are tried; a page at least is asked for
    Listings,       \* the listings the boards can return
    PageSize,       \* bound: listings of a page
    MaxRetries,     \* get_with_backoff
    EnrichLimit     \* --enrich-limit

Paged    == {"arbeitnow", "ai_jobs_co", "aidevboard"}   \* get_with_backoff, page by page
Snapshot == {"remoteok", "remotive"}                    \* one request, no retry
Adapters == Paged \cup Snapshot \cup {"jsearch"}

Flaws == {"incomplete", "intermediary", "empty", "foreign", "insecure", "ambiguous", "unlisted",
          "elsewhere", "undated", "stale", "other_type"}

ASSUME FetchAssumption ==
    /\ Options \subseteq [source : Adapters, pages : Nat \ {0}, keyword : BOOLEAN, enrich : BOOLEAN,
                          anyLanguage : BOOLEAN, verify : BOOLEAN]
    /\ Listings \subseteq [id : {x.id : x \in Listings}, keyword : BOOLEAN, flaws : SUBSET Flaws,
                           size : {"fits", "cut"}, past : {"none", "some", "all"},
                           note : {"fine", "past", "overlong"}, links : 1 .. 2]
    /\ \A x \in Listings : x.past # "none" \/ x.note = "past" => x.size = "cut"
    /\ PageSize \in Nat \ {0} /\ MaxRetries \in Nat /\ EnrichLimit \in Nat

\* size: the description fits or is cut; a cleaned job's may be "over" the importer's limit.
\* past: the requirement lines past the cut; after "all", what is left has no clear line.
\* note: an eligibility sentence goes on past the cut, or what is stored of it is too long.

VARIABLES
    opt,        \* the command line
    pc,         \* get, filter, transform, verify, done, cleaned
    page,       \* pages received
    attempt,    \* retries of the page that is asked for
    got,        \* the listings received, then those that match the keyword
    next,       \* the listing that is transformed
    enriched,   \* detail pages asked for
    told,       \* listings of ai_jobs_co whose detail page gave the posting's text
    links,      \* links of the listing that are still to be checked
    jobs,       \* the jobs kept
    skipped, skips,     \* listings skipped, and SKIPS: the reasons that were counted
    exit,       \* the exit code, "crash" for an uncaught exception, "none" while running
    file,       \* the batch file with its sidecar's counts, or the empty sequence
    swept,      \* jobs of the file that clean_batch.py has looked at
    clean,      \* the jobs it keeps: its output, unless there are none
    bad,        \* history: what the run could not take: an "answer" that is not retried,
                \* a "date" for the end of a pause
    fate,       \* history: what became of each listing
    answers     \* history: the final answer to the check of each link

fetchVars == <<opt, pc, page, attempt, got, next, enriched, told, links, jobs, skipped, skips, exit, file,
          swept, clean, bad, fate, answers>>
fetching == <<page, attempt, got, bad>>
working  == <<next, enriched, told, links, jobs, skipped, skips, fate, answers>>
written  == <<file, swept, clean>>

Counted == Flaws \cup {"duplicate", "dead", "unverified"}

FetchInit ==
    /\ opt \in Options
    /\ pc = "get" /\ page = 0 /\ attempt = 0 /\ got = <<>> /\ bad = "none"
    /\ next = 1 /\ enriched = 0 /\ told = {} /\ links = 0 /\ jobs = <<>>
    /\ skipped = 0 /\ skips = [r \in Counted |-> 0] /\ fate = <<>> /\ answers = <<>>
    /\ exit = "none" /\ file = <<>> /\ swept = 0 /\ clean = <<>>

FetchTypeOK ==
    /\ pc \in {"get", "filter", "transform", "verify", "done", "cleaned"}
    /\ page \in 0 .. opt.pages /\ attempt \in 0 .. MaxRetries
    /\ enriched \in 0 .. EnrichLimit /\ Len(fate) = next - 1 /\ next \in 1 .. Len(got) + 1
    /\ pc = "verify" <=> links > 0
    /\ exit \in {"none", "0", "1", "2", "crash"} /\ (exit = "none" <=> pc \notin {"done", "cleaned"})
    /\ (file # <<>> <=> exit = "0") /\ swept \in 0 .. Len(file) /\ (pc = "cleaned" => swept = Len(file))

-----------------------------------------------------------------------------
(* Fetching *)

Ends(code) == pc' = "done" /\ exit' = code

\* An exception that reaches main(): only the JSearch adapter turns it into an exit code.
Raises == Ends(IF opt.source = "jsearch" THEN "2" ELSE "crash")

\* How each board says that there are no further pages: an empty page, a short page, or its
\* own flag or cursor.  remoteok and remotive answer with everything at once.
ArbeitnowEnds(items)   == items = <<>>
AiJobsCoEnds(items)    == Len(items) < PageSize
AiDevJobsEnds(more)    == ~more
JsearchEnds(more)      == ~more

LastPage(items, more) ==
    \/ page + 1 = opt.pages \/ opt.source \in Snapshot
    \/ opt.source = "arbeitnow" /\ ArbeitnowEnds(items)
    \/ opt.source = "ai_jobs_co" /\ AiJobsCoEnds(items)
    \/ opt.source = "aidevboard" /\ AiDevJobsEnds(more)
    \/ opt.source = "jsearch" /\ JsearchEnds(more)

\* Boards move while they are read, so a listing may come again on a later page.
PageArrives ==
    /\ pc = "get"
    /\ \E items \in BoundedSeq(Listings, PageSize), more \in BOOLEAN :
        /\ got' = got \o items
        /\ pc' = IF LastPage(items, more) THEN "filter" ELSE "get"
    /\ page' = page + 1 /\ attempt' = 0
    /\ UNCHANGED <<opt, working, written, exit, bad>>

\* faulty variant: after the last retry the page is asked for anew
GiveUpNever == attempt' = 0 /\ UNCHANGED <<pc, exit>>

Retry == attempt' = attempt + 1 /\ UNCHANGED <<pc, exit>>

\* The pages already received are kept.
GiveUp == pc' = "filter" /\ UNCHANGED <<attempt, exit>>

\* float() takes seconds; on the other form of a Retry-After, a date, it raises.
PauseUnknown == Raises /\ bad' = "date" /\ UNCHANGED attempt

\* 429 or 5xx
RateLimited ==
    /\ pc = "get"
    /\ \/ opt.source \in Paged /\ attempt < MaxRetries /\ Retry /\ UNCHANGED bad
       \/ opt.source \in Paged /\ attempt < MaxRetries /\ PauseUnknown
       \/ opt.source \in Paged /\ attempt = MaxRetries /\ GiveUp /\ UNCHANGED bad
       \/ opt.source \notin Paged /\ Raises /\ UNCHANGED <<attempt, bad>>
    /\ UNCHANGED <<opt, page, got, working, written>>

ConnectionFails ==
    /\ pc = "get"
    /\ \/ opt.source \in Paged /\ GiveUp
       \/ opt.source \notin Paged /\ Raises /\ UNCHANGED attempt
    /\ UNCHANGED <<opt, page, got, bad, working, written>>

\* Another 4xx, or an answer that is not the expected JSON
BadAnswer ==
    /\ pc = "get" /\ Raises /\ bad' = "answer"
    /\ UNCHANGED <<opt, page, attempt, got, working, written>>

Matching(listings) == FlattenSeq([k \in DOMAIN listings |-> IF listings[k].keyword THEN <<listings[k]>> ELSE <<>>])

\* The keyword is matched here unless the provider's own search does it.
Filter ==
    /\ pc = "filter"
    /\ got' = IF opt.keyword /\ opt.source \in Snapshot \cup {"arbeitnow"} THEN Matching(got) ELSE got
    /\ pc' = "transform"
    /\ UNCHANGED <<opt, page, attempt, bad, working, written, exit>>

-----------------------------------------------------------------------------
(* Transforming: each adapter's checks, in its order *)

TransformArbeitnow == <<"incomplete", "intermediary", "empty", "foreign", "insecure", "ambiguous", "unlisted">>
TransformAiJobsCo  == <<"incomplete", "insecure", "ambiguous", "unlisted">>
TransformAiDevJobs == <<"incomplete", "insecure", "empty", "ambiguous", "unlisted">>
TransformRemoteok  == <<"incomplete", "insecure", "empty", "foreign", "ambiguous", "unlisted">>
TransformRemotive  == <<"incomplete", "insecure", "empty", "foreign", "ambiguous", "unlisted">>
TransformListing   == <<"elsewhere", "undated", "stale", "incomplete", "intermediary", "empty",
                        "foreign", "other_type", "ambiguous", "unlisted", "insecure">>

Checks(source) ==
    CASE source = "arbeitnow"  -> TransformArbeitnow
      [] source = "ai_jobs_co" -> TransformAiJobsCo
      [] source = "aidevboard" -> TransformAiDevJobs
      [] source = "remoteok"   -> TransformRemoteok
      [] source = "remotive"   -> TransformRemotive
      [] source = "jsearch"    -> TransformListing

\* ai_jobs_co has no posting text, so no requirements, unless the detail page gave it.
FlawsOf(o, raw, text) ==
    LET found == IF o.source # "ai_jobs_co" \/ text THEN raw.flaws ELSE (raw.flaws \ {"ambiguous"}) \cup {"unlisted"}
    IN  IF o.anyLanguage /\ o.source # "jsearch" THEN found \ {"foreign"} ELSE found

FirstFlaw(o, raw, text) ==
    LET k == SelectInSeq(Checks(o.source), LAMBDA c : c \in FlawsOf(o, raw, text))
    IN  IF k = 0 THEN "none" ELSE Checks(o.source)[k]

\* transform_ai_jobs_co returns None without skip() when a field or an https link is missing.
SkipCounted(reason) == ~(opt.source = "ai_jobs_co" /\ reason \in {"incomplete", "insecure"})

\* faulty variant: a listing that was dropped counts as seen
IdsMet == {got[k].id : k \in 1 .. next - 1}

SeenIds == {jobs[k].id : k \in 1 .. Len(jobs)}

Becomes(what) == fate' = Append(fate, what) /\ next' = next + 1

Drop(reason) ==
    /\ skipped' = skipped + 1
    /\ skips' = IF SkipCounted(reason) THEN [skips EXCEPT ![reason] = @ + 1] ELSE skips
    /\ Becomes(reason)
    /\ UNCHANGED jobs

Keep(raw) ==
    /\ jobs' = Append(jobs, raw)
    /\ Becomes("kept")

DoEnrich == opt.source = "ai_jobs_co" /\ opt.enrich /\ enriched < EnrichLimit

Transform ==
    /\ pc = "transform" /\ next <= Len(got)
    /\ enriched' = IF DoEnrich THEN enriched + 1 ELSE enriched
    /\ \E text \in (IF DoEnrich THEN BOOLEAN ELSE {FALSE}) :
        LET raw == got[next]
            flaw == FirstFlaw(opt, raw, text)
        IN  /\ told' = IF text THEN told \cup {next} ELSE told
            /\ \/ flaw # "none" /\ Drop(flaw) /\ UNCHANGED <<pc, links>>
               \/ flaw = "none" /\ raw.id \in SeenIds /\ Drop("duplicate") /\ UNCHANGED <<pc, links>>
               \/ /\ flaw = "none" /\ raw.id \notin SeenIds
                  /\ IF opt.verify THEN pc' = "verify" /\ links' = raw.links /\ UNCHANGED <<jobs, fate, next>>
                     ELSE Keep(raw) /\ UNCHANGED <<pc, links>>
                  /\ UNCHANGED <<skipped, skips>>
    /\ answers' = IF next > Len(answers) THEN Append(answers, {}) ELSE answers
    /\ UNCHANGED <<opt, fetching, written, exit>>

-----------------------------------------------------------------------------
(* verify_url *)

Answers == {"ok", "no_method", "gone", "blocked", "timeout", "refused", "no_host"}

\* HEAD first; a server that refuses the method is asked again with GET.
FinalAnswer(head, get) == IF head = "no_method" THEN get ELSE head

Verdict(a) ==
    IF a = "ok" THEN "ok" ELSE IF a \in {"gone", "no_host"} THEN "dead" ELSE "inconclusive"

CheckLink ==
    /\ pc = "verify"
    /\ \E head \in Answers, get \in Answers :
        LET a == FinalAnswer(head, get)
            last == links = 1
        IN  /\ head # "no_method" => get = head
            /\ answers' = [answers EXCEPT ![next] = @ \cup {a}]
            /\ \/ /\ Verdict(a) = "dead"
                  /\ Drop("dead") /\ links' = 0
               \/ /\ Verdict(a) # "dead"
                  /\ skips' = IF Verdict(a) = "inconclusive" THEN [skips EXCEPT !["unverified"] = @ + 1] ELSE skips
                  /\ links' = links - 1
                  /\ IF last THEN Keep(got[next]) ELSE UNCHANGED <<jobs, fate, next>>
                  /\ UNCHANGED skipped
            /\ pc' = IF last \/ Verdict(a) = "dead" THEN "transform" ELSE "verify"
    /\ UNCHANGED <<opt, fetching, written, exit, enriched, told>>

-----------------------------------------------------------------------------
(* Writing and cleaning *)

\* A requirement's quote past the cut, or an eligibility sentence that is clipped with an
\* ellipsis, is not in the stored description.
Quoted(job) == job.past = "none" /\ job.note = "fine"

\* validate_import, of what the model keeps: an empty batch, a repeated identity, a quote
\* that the description does not hold and a description that is too long are refused.
Importable(batch) ==
    /\ batch # <<>>
    /\ \A j, k \in 1 .. Len(batch) : j # k => batch[j].id # batch[k].id
    /\ \A k \in 1 .. Len(batch) : Quoted(batch[k]) /\ batch[k].size # "over"

\* Only the JSearch adapter validates its batch before it writes it.
Checked == opt.source = "jsearch" => Importable(jobs)

Write ==
    /\ pc = "transform" /\ next > Len(got)
    /\ \/ jobs = <<>> /\ Ends("1") /\ UNCHANGED file
       \/ jobs # <<>> /\ ~Checked /\ Ends("1") /\ UNCHANGED file
       \/ jobs # <<>> /\ Checked /\ Ends("0") /\ file' = jobs
    /\ UNCHANGED <<opt, fetching, working, swept, clean>>

\* The ellipsis that ends a cut description becomes three dots (NFKC): nearly always more
\* than the limit, unless cleaning shortens the text elsewhere.
Grown(j, more) == IF more THEN [j EXCEPT !.size = "over"] ELSE j

\* faulty variant: requirements and eligibility notes are taken over from the input
CleanKeepsRows(j, more) == Grown(j, more)

\* clean_job: both are derived again from the description as it was stored; an eligibility
\* sentence that is too long is clipped again.
CleanJob(j, more) ==
    [Grown(j, more) EXCEPT !.past = "none", !.note = IF @ = "past" THEN "fine" ELSE @]

CleanDrops(j) ==
    \/ "intermediary" \in j.flaws \/ j.past = "all"
    \/ "foreign" \in j.flaws /\ ~opt.anyLanguage

\* The next job of the file
Clean ==
    /\ pc = "done" /\ exit = "0"
    /\ LET j == file[swept + 1]
       IN  \E more \in BOOLEAN :
             /\ more => j.size = "cut"
             /\ clean' = IF CleanDrops(j) THEN clean ELSE Append(clean, CleanJob(j, more))
    /\ swept' = swept + 1
    /\ pc' = IF swept + 1 = Len(file) THEN "cleaned" ELSE "done"
    /\ UNCHANGED <<opt, fetching, working, exit, file>>

FetchOver == pc \in {"done", "cleaned"} /\ UNCHANGED fetchVars

-----------------------------------------------------------------------------
Run ==
    \/ PageArrives \/ RateLimited \/ ConnectionFails \/ BadAnswer \/ Filter
    \/ Transform \/ CheckLink \/ Write \/ Clean

FetchNext == Run \/ FetchOver

FetchSpec == FetchInit /\ [][FetchNext]_fetchVars

-----------------------------------------------------------------------------
(* Properties *)

Flawless(k) == FirstFlaw(opt, got[k], k \in told) = "none"

\* A listing the run can use: no check of its adapter finds a defect, and no link was
\* conclusively gone.
Usable(k) == Flawless(k) /\ answers[k] \cap {"gone", "no_host"} = {}

\* A run that writes its file has every usable listing in it, whatever page or copy it came
\* on and however the fetching ended.  One that writes nothing had no usable listing, or is
\* the JSearch adapter with a job whose quotes the importer refuses; and what a paged adapter
\* has is thrown away only by an answer or a Retry-After that it cannot read.
KeepsWhatItHas ==
    pc = "done" =>
        /\ exit = "crash" /\ opt.source \in Paged => bad # "none"
        /\ exit = "0" => \A k \in 1 .. Len(got) : Usable(k) => \E j \in 1 .. Len(file) : file[j].id = got[k].id
        /\ exit = "1" /\ (\E k \in 1 .. Len(got) : Usable(k)) =>
              opt.source = "jsearch" /\ \E j \in 1 .. Len(jobs) : ~Quoted(jobs[j])

\* Cleaning settles what requirements and cut eligibility sentences have to do with the cut:
\* the importer refuses a cleaned file only for a description that cleaning made too long
\* or for an eligibility sentence that is itself too long.
CleanRefusals ==
    clean # <<>> /\ ~Importable(clean) =>
        \E n \in 1 .. Len(clean) : clean[n].size = "over" \/ clean[n].note = "overlong"
=============================================================================
