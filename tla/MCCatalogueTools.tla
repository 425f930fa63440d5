--------------------------- MODULE MCCatalogueTools ---------------------------
(* The sequential programs around the catalogue, one of them at a time: a fetcher *)
(* with its cleaning, the extraction of requirements, and the scoring of jobs.    *)
EXTENDS FetchJobs, RequirementExtraction, Ranking, TLC

VARIABLE tool       \* "fetch" | "extract" | "rank"

allVars == <<tool, fetchVars, extractVars, rankVars>>

\* A program that is not run has its constants, which do not matter, in one way.
FetchStarts == FetchInit /\ (tool # "fetch" => opt = CHOOSE o \in Options : TRUE)
RankStarts ==
    \/ tool = "rank" /\ RankInit
    \/ /\ tool # "rank"
       /\ batch = [j \in Jobs |-> <<>>] /\ missing = {}
       /\ kept = [j \in Jobs |-> <<>>] /\ looked = [j \in Jobs |-> 0]

MCInit == tool \in {"fetch", "extract", "rank"} /\ FetchStarts /\ ExtractInit /\ RankStarts

FetchRuns == tool = "fetch" /\ Run /\ UNCHANGED <<tool, extractVars, rankVars>>

MCNext ==
    \/ FetchRuns
    \/ tool = "fetch" /\ FetchOver /\ UNCHANGED <<tool, extractVars, rankVars>>
    \/ tool = "extract" /\ ExtractNext /\ UNCHANGED <<tool, fetchVars, rankVars>>
    \/ tool = "rank" /\ RankNext /\ UNCHANGED <<tool, fetchVars, extractVars>>

\* A run is one process that nothing else waits for: it takes its next step.
MCSpec == MCInit /\ [][MCNext]_allVars /\ WF_allVars(FetchRuns)

\* Every run of a fetcher ends, although boards rate-limit it and answer page after page.
FetchEnds == tool = "fetch" ~> pc \in {"done", "cleaned"}

-----------------------------------------------------------------------------
(* Boards with two identities, a few defects and the command lines of interest *)

Listing(id, keyword, flaws, size, past, note, n) ==
    [id |-> id, keyword |-> keyword, flaws |-> flaws, size |-> size, past |-> past, note |-> note, links |-> n]

Short(id, keyword, flaws, n) == Listing(id, keyword, flaws, "fits", "none", "fine", n)

CommandLine(source, pages, keyword, enrich, anyLanguage, verify) ==
    [source |-> source, pages |-> pages, keyword |-> keyword, enrich |-> enrich,
     anyLanguage |-> anyLanguage, verify |-> verify]

\* Two copies of one job, one of them with defects some adapters find and an eligibility
\* sentence that is too long; two copies whose description is cut; and the other defects
DefectListings == {
    Short("a", TRUE, {}, 2), Listing("a", FALSE, {"foreign", "stale"}, "fits", "none", "overlong", 1),
    Listing("b", TRUE, {}, "cut", "some", "past", 1),
    Listing("b", TRUE, {"intermediary"}, "cut", "all", "fine", 1),
    Short("c", TRUE, {"incomplete", "insecure", "stale", "other_type"}, 1),
    Short("c", FALSE, {"ambiguous", "empty", "unlisted", "undated", "elsewhere"}, 1)}

\* Every adapter over two pages, with and without a keyword and other languages; one page
\* whose links are checked
FetchOptions ==
    {CommandLine(s, 2, k, k, ~k, FALSE) : s \in Adapters, k \in BOOLEAN}
    \cup {CommandLine("arbeitnow", 1, FALSE, FALSE, TRUE, TRUE)}

-----------------------------------------------------------------------------
(* Descriptions over the lines of interest *)

ItemOf(text, fits, filler, preferred, join) ==
    [text |-> text, fits |-> fits, filler |-> filler, preferred |-> preferred, join |-> join]
HeadingLine(h) == [head |-> h, item |-> Absent]
ItemLine(i) == [head |-> Absent, item |-> i]

Plain == ItemOf("a", TRUE, FALSE, FALSE, "one")

\* Headings, alone and with an item; an item that is repeated, one that says preferred, a
\* conjunction, an unclear compound, and lines that are no requirement
DescriptionLines ==
    {HeadingLine("start"), HeadingLine("preferred"), HeadingLine("stop"), [head |-> "start", item |-> Plain],
     ItemLine(Plain), ItemLine(ItemOf("b", TRUE, FALSE, TRUE, "and")), ItemLine(ItemOf("c", TRUE, FALSE, FALSE, "unclear")),
     ItemLine(ItemOf("d", TRUE, TRUE, FALSE, "one")), ItemLine(ItemOf("e", FALSE, FALSE, FALSE, "or"))}

-----------------------------------------------------------------------------
(* Every job with up to three requirements, beside a job with one *)

TextsWritten == {"p", "P", "q"}
Folded == [t \in TextsWritten |-> IF t = "P" THEN "p" ELSE t]
Closeness == [t \in TextsWritten |-> CASE t = "p" -> 2 [] t = "P" -> 3 [] OTHER -> 1]

\* No alternatives, one, or a choice of two
ChoiceLists == {<<>>, <<"p">>, <<"p", "q">>}

UpTo(n) == UNION {[1 .. m -> Requirement] : m \in 1 .. n}

TwoJobs == {(1 :> a) @@ (2 :> <<b>>) : a \in UpTo(3), b \in {x \in Requirement : x.text = "q"}}

StaleTexts == {{}, {"q"}}
=============================================================================
