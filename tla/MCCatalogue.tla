------------------------------ MODULE MCCatalogue ------------------------------
(* Batch files over two jobs and two texts, for the import and its readers. *)
EXTENDS CatalogueReaders, TLC

JobA == [posted |-> 1, texts |-> {"x"}, active |-> TRUE]
JobB == [posted |-> 1, texts |-> {"x", "y"}, active |-> TRUE]
JobC == [posted |-> 2, texts |-> {"y"}, active |-> FALSE]
NoReqs == [JobA EXCEPT !.texts = {}]

Entry(k, j) == [key |-> k, allowed |-> TRUE, job |-> j]

\* Valid files first; then a repeated key, a source that is not allowed, no jobs, no requirements.
BatchFiles ==
    {<<Entry(1, JobB)>>, <<Entry(2, JobA), Entry(1, JobC)>>, <<Entry(1, JobA), Entry(2, JobB)>>,
     <<Entry(1, JobA), Entry(1, JobB)>>, <<[Entry(2, JobA) EXCEPT !.allowed = FALSE]>>,
     <<>>, <<Entry(1, NoReqs)>>}

\* A resume is the set of texts it is close to.
CloseTexts(c, texts) == Cardinality(c \cap texts)

\* Two importers at once, or one beside the student's requests
OneOrTheOther ==
    \/ profile.rev = 0 /\ \A r \in Readers : page[r] = NoPage
    \/ Cardinality({i \in Importers : imp[i] # NoImport}) <= 1

ImporterSymmetry == Permutations(Importers)
=============================================================================
