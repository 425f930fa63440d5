------------------------- MODULE RequirementExtraction -------------------------
(***************************************************************************)
(* extract_job_requirements and extract_requirements of                    *)
(* app/catalogue/fetch_live_jobs.py: the scan that takes requirement rows  *)
(* from the lines of a description, one listing after the other, with the  *)
(* counter of ambiguous lines that all listings of a run share.            *)
(*                                                                         *)
(* A line is a heading, an item or both ("Requirements: - Python").  The   *)
(* patterns are abstracted to what they find in a line: the kind of the    *)
(* heading; of an item, whether its length fits, whether it is an          *)
(* encouragement, whether its own wording says preferred, and the skills.  *)
(***************************************************************************)
EXTENDS Integers, Sequences, FiniteSets, SequencesExt

CONSTANTS
    RawLines,           \* the lines a description can have
    MaxLines,           \* bound: lines of a description
    MaxRequirements,    \* rows of a listing
    MaxListings,        \* bound: listings of a run
    Absent              \* no heading, or no item

Headings == {"start", "preferred", "stop"}
Joins == {"one", "or", "and", "unclear"}

ASSUME ExtractionAssumption ==
    /\ Absent \notin Headings
    /\ \A x \in RawLines :
        /\ x.head \in Headings \cup {Absent}
        /\ x.item # Absent => /\ x.item.fits \in BOOLEAN /\ x.item.filler \in BOOLEAN
                              /\ x.item.preferred \in BOOLEAN /\ x.item.join \in Joins
        /\ x.head = Absent => x.item # Absent
    /\ MaxLines \in Nat /\ MaxRequirements \in Nat \ {0} /\ MaxListings \in Nat

VARIABLES
    lines,      \* the description, an inline heading split off its item
    pos,        \* the next line
    on, pref,   \* inside a requirements section, below a preferred heading
    seen,       \* the texts met in a section
    picked,     \* the rows
    count,      \* SKIPS["ambiguous_compound_requirement"]
    before,     \* its value when this listing was begun
    review,     \* what extract_job_requirements returned: ambiguous or not
    listing,    \* listings begun
    at

extractVars == <<lines, pos, on, pref, seen, picked, count, before, review, listing, at>>

-----------------------------------------------------------------------------
\* _split_inline_heading
Split(raw) ==
    (IF raw.head = Absent THEN <<>> ELSE <<[head |-> raw.head, item |-> Absent]>>)
    \o (IF raw.item = Absent THEN <<>> ELSE <<[head |-> Absent, item |-> raw.item]>>)

SplitAll(description) == FlattenSeq([i \in DOMAIN description |-> Split(description[i])])

\* _compound_skill_requirements: one row, two for an AND, none when the skills are unclear
Rows(item, importance) ==
    LET row(part) == [quote |-> item.text, part |-> part, join |-> item.join, importance |-> importance]
    IN  CASE item.join \in {"one", "or"} -> <<row(1)>>
          [] item.join = "and"     -> <<row(1), row(2)>>
          [] item.join = "unclear" -> <<>>

Importance(item, below) == IF below \/ item.preferred THEN "PREFERRED" ELSE "REQUIRED"

ExtractInit ==
    /\ lines = <<>> /\ pos = 1 /\ on = FALSE /\ pref = FALSE /\ seen = {} /\ picked = <<>>
    /\ count = 0 /\ before = 0 /\ review = FALSE /\ listing = 0 /\ at = "idle"

\* The next listing of the batch
Begin ==
    /\ at = "idle" /\ listing < MaxListings
    /\ \E description \in BoundedSeq(RawLines, MaxLines) : lines' = SplitAll(description)
    /\ before' = count /\ listing' = listing + 1 /\ at' = "scan"
    /\ UNCHANGED <<pos, on, pref, seen, picked, count, review>>

AtLine == at = "scan" /\ pos <= Len(lines)
Line == lines[pos]

\* faulty variant: a new section stays below the preferred heading of the one before
StartsKeepPref == on' = TRUE /\ UNCHANGED pref

Starts == on' = TRUE /\ pref' = FALSE

\* A preferred heading outside a section is an ordinary line, which changes nothing.
Heading ==
    /\ AtLine /\ Line.head # Absent
    /\ \/ Line.head = "start" /\ Starts
       \/ Line.head = "preferred" /\ pref' = on /\ UNCHANGED on
       \/ Line.head = "stop" /\ on' = FALSE /\ pref' = FALSE
    /\ pos' = pos + 1
    /\ UNCHANGED <<lines, seen, picked, count, before, review, listing, at>>

Taken(item) == on /\ item.fits /\ ~item.filler /\ item.text \notin seen

Item ==
    /\ AtLine /\ Line.item # Absent
    /\ \/ /\ Taken(Line.item)
          /\ seen' = seen \cup {Line.item.text}
          /\ picked' = picked \o Rows(Line.item, Importance(Line.item, pref))
          /\ count' = IF Line.item.join = "unclear" THEN count + 1 ELSE count
       \/ ~Taken(Line.item) /\ UNCHANGED <<seen, picked, count>>
    /\ pos' = pos + 1
    /\ UNCHANGED <<lines, on, pref, before, review, listing, at>>

Ambiguous == count > before

\* picked[:MAX_REQUIREMENTS], and whether the record is left to a human
Return ==
    /\ at = "scan" /\ pos > Len(lines)
    /\ picked' = SubSeq(picked, 1, IF Len(picked) < MaxRequirements THEN Len(picked) ELSE MaxRequirements)
    /\ review' = Ambiguous
    /\ at' = "done"
    /\ UNCHANGED <<lines, pos, on, pref, seen, count, before, listing>>

\* The adapter has used the result: its variables are gone, the counter stays.
Leave ==
    /\ at = "done"
    /\ lines' = <<>> /\ pos' = 1 /\ on' = FALSE /\ pref' = FALSE /\ seen' = {} /\ picked' = <<>>
    /\ review' = FALSE /\ at' = "idle"
    /\ UNCHANGED <<count, before, listing>>

ExtractOver == at = "idle" /\ listing = MaxListings /\ UNCHANGED extractVars

ExtractNext == Begin \/ Heading \/ Item \/ Return \/ Leave \/ ExtractOver

ExtractSpec == ExtractInit /\ [][ExtractNext]_extractVars

-----------------------------------------------------------------------------
(* The reference: what the lines of a description say, without a scan *)

InSection(i) ==
    \E s \in 1 .. i - 1 : lines[s].head = "start" /\ \A k \in s + 1 .. i - 1 : lines[k].head # "stop"

\* Below a preferred heading of the section the line is in
BelowPreferred(i) ==
    \E p \in 1 .. i - 1 : /\ lines[p].head = "preferred" /\ InSection(p)
                          /\ \A k \in p + 1 .. i - 1 : lines[k].head \notin {"start", "stop"}

Eligible(i) == lines[i].item # Absent /\ InSection(i) /\ lines[i].item.fits /\ ~lines[i].item.filler

\* The first eligible line of each text
Counts(i) == Eligible(i) /\ \A k \in 1 .. i - 1 : Eligible(k) => lines[k].item.text # lines[i].item.text

Reference(n) ==
    FlattenSeq([i \in 1 .. n |-> IF Counts(i) THEN Rows(lines[i].item, Importance(lines[i].item, BelowPreferred(i)))
                                 ELSE <<>>])

\* The scan's flags give each line the section and the importance that the headings above
\* it say, and each text one set of rows; a record is left to a human exactly when one of
\* its own requirement lines is unclear, also past the cap, and never for a line of an
\* earlier listing: extract_job_requirements meets its definition.
ScanMeetsReference ==
    /\ at = "scan" => picked = Reference(pos - 1)
    /\ at = "done" =>
          /\ IsPrefix(picked, Reference(Len(lines)))
          /\ Len(picked) < MaxRequirements => picked = Reference(Len(lines))
          /\ review = \E i \in 1 .. Len(lines) : Counts(i) /\ lines[i].item.join = "unclear"
================================================================================
