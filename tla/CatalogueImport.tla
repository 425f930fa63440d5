---------------------------- MODULE CatalogueImport ----------------------------
(***************************************************************************)
(* app/catalogue/importer.py and schema.py: a batch file is validated,     *)
(* compared with the rows of the database, embedded outside any            *)
(* transaction and then written in one transaction that checks again that  *)
(* catalogue_revision is what the plan was made from.  Several imports may *)
(* run at a time (a deployment and a developer, say).                      *)
(*                                                                         *)
(* The reads of a plan are separate statements at READ COMMITTED: other    *)
(* imports may commit between any two of them.  A vector is known by the   *)
(* text it embeds and the version of the model that made it.               *)
(***************************************************************************)
EXTENDS Integers, Sequences, FiniteSets

CONSTANTS
    Importers,      \* imports that may run
    JobKeys,        \* (source, source_job_id)
    Files,          \* batch files: sequences of [key, allowed, job]
    Texts,          \* requirement texts and alternatives
    Versions,       \* embedding model versions
    MaxBatch,       \* MAX_BATCH_JOBS
    MaxReqs,        \* the largest number of requirements of a job
    MaxRevision,    \* bound: nothing more is written at this catalogue revision
    None

Job == [posted : Nat, texts : SUBSET Texts, active : BOOLEAN]

\* A stored job: the row, its content and the model version of each vector
JobRow == [id : JobKeys \X Nat, job : Job, vec : UNION {[T -> Versions] : T \in SUBSET Texts}]

ASSUME ImportAssumption ==
    /\ MaxBatch \in Nat /\ MaxReqs \in Nat /\ MaxRevision \in Nat
    /\ None \notin Versions \cup Nat /\ None \notin JobRow
    /\ \A file \in Files : file \in Seq([key : JobKeys, allowed : BOOLEAN, job : Job])

VARIABLES
    revision,   \* app_state.catalogue_revision, None without the row
    jobs,       \* jobs[k]: the row, its requirements and their vectors, or None
    imp         \* imp[i]: the import

importVars == <<revision, jobs, imp>>

NoImport == [pc |-> "idle", file |-> <<>>, version |-> None, rev |-> 0,
             rows |-> <<>>, vecs |-> <<>>, vectors |-> <<>>]

ImportInit ==
    /\ revision = None
    /\ jobs = [k \in JobKeys |-> None]
    /\ imp = [i \in Importers |-> NoImport]

ImportTypeOK ==
    /\ revision \in 0 .. MaxRevision \cup {None}
    /\ \A k \in JobKeys : jobs[k] # None =>
          /\ jobs[k].id \in JobKeys \X (1 .. MaxRevision) /\ jobs[k].job \in Job
          /\ DOMAIN jobs[k].vec \subseteq Texts
    /\ \A i \in Importers :
          /\ imp[i].pc \in {"idle", "read_revision", "read_rows", "read_vectors", "embed", "write"}
          /\ imp[i].rev \in 0 .. MaxRevision

-----------------------------------------------------------------------------
(* validate_import *)

WellFormed(entry) == Cardinality(entry.job.texts) \in 1 .. MaxReqs

Duplicated(file, n) == \E m \in 1 .. n - 1 : file[m].key = file[n].key

Valid(file) ==
    /\ Len(file) \in 1 .. MaxBatch
    /\ \A n \in DOMAIN file : WellFormed(file[n]) /\ file[n].allowed /\ ~Duplicated(file, n)

KeysOf(file) == {file[n].key : n \in DOMAIN file}
EntryOf(file, k) == file[CHOOSE n \in DOMAIN file : file[n].key = k].job

-----------------------------------------------------------------------------
(* Planning: the revision first, then the rows, then their vectors *)

Revision == IF revision = None THEN 0 ELSE revision

At(i, step) == imp[i].pc = step

\* main: any file, with the model that is installed; an invalid batch ends here.
StartImport(i) ==
    /\ At(i, "idle")
    /\ \E file \in Files, v \in Versions :
        /\ Valid(file)
        /\ imp' = [imp EXCEPT ![i].pc = "read_revision", ![i].file = file, ![i].version = v]
    /\ UNCHANGED <<revision, jobs>>

ReadRevision(i) ==
    /\ At(i, "read_revision")
    /\ imp' = [imp EXCEPT ![i].pc = "read_rows", ![i].rev = Revision]
    /\ UNCHANGED <<revision, jobs>>

\* _load_existing: the rows of the keys, by a first statement
ReadRows(i) ==
    /\ At(i, "read_rows")
    /\ imp' = [imp EXCEPT ![i].pc = "read_vectors",
                          ![i].rows = [k \in {k \in KeysOf(imp[i].file) : jobs[k] # None} |->
                                          [id |-> jobs[k].id, job |-> jobs[k].job]]]
    /\ UNCHANGED <<revision, jobs>>

\* and the vectors of these rows by a second; the transaction ends before the model runs
ReadVectors(i) ==
    /\ At(i, "read_vectors")
    /\ imp' = [imp EXCEPT ![i].pc = "embed", ![i].vecs = [k \in DOMAIN imp[i].rows |-> jobs[k].vec]]
    /\ UNCHANGED <<revision, jobs>>

\* faulty variant: a stored vector counts whatever model made it
HasAnyVector(i, k, t) == k \in DOMAIN imp[i].vecs /\ t \in DOMAIN imp[i].vecs[k]

HasVector(i, k, t) ==
    /\ k \in DOMAIN imp[i].vecs /\ t \in DOMAIN imp[i].vecs[k]
    /\ imp[i].vecs[k][t] = imp[i].version

\* The status of a job in the plan
Created(i, k) == k \notin DOMAIN imp[i].rows

Unchanged(i, k) ==
    /\ ~Created(i, k) /\ imp[i].rows[k].job = EntryOf(imp[i].file, k)
    /\ \A t \in EntryOf(imp[i].file, k).texts : HasVector(i, k, t)

Planned(i) == {k \in KeysOf(imp[i].file) : ~Unchanged(i, k)}

\* reuse: the stored vector of a text, from any planned job that has it; else it is computed.
Reused(i, t) ==
    {imp[i].vecs[k][t] : k \in {k \in Planned(i) : t \in EntryOf(imp[i].file, k).texts /\ HasVector(i, k, t)}}

Embed(i) ==
    /\ At(i, "embed")
    /\ imp' = [imp EXCEPT ![i].pc = "write",
                          ![i].vectors = [t \in UNION {EntryOf(imp[i].file, k).texts : k \in Planned(i)} |->
                              IF Reused(i, t) = {} THEN imp[i].version
                                                   ELSE CHOOSE v \in Reused(i, t) : TRUE]]
    /\ UNCHANGED <<revision, jobs>>

-----------------------------------------------------------------------------
(* The write transaction, under the lock of the app_state row *)

\* faulty variant: the revision is not compared
AlwaysCurrent(i) == TRUE

PlanIsCurrent(i) == imp[i].rev = Revision

\* An updated job keeps its row, a created one gets an identity nobody has.
RowId(i, k) == IF Created(i, k) THEN <<k, imp[i].rev + 1>> ELSE imp[i].rows[k].id

Bump(i) == Planned(i) # {}

WriteImport(i) ==
    /\ At(i, "write") /\ PlanIsCurrent(i)
    /\ Bump(i) => imp[i].rev < MaxRevision
    /\ jobs' = [k \in JobKeys |->
                  IF k \notin Planned(i) THEN jobs[k]
                  ELSE LET job == EntryOf(imp[i].file, k)
                       IN  [id |-> RowId(i, k), job |-> job,
                            vec |-> [t \in job.texts |-> imp[i].vectors[t]]]]
    /\ revision' = imp[i].rev + (IF Bump(i) THEN 1 ELSE 0)
    /\ imp' = [imp EXCEPT ![i] = NoImport]

\* catalogue_changed_during_import; an invalid text, a failing model or database, a crash
AbandonImport(i) ==
    /\ ~At(i, "idle")
    /\ imp' = [imp EXCEPT ![i] = NoImport]
    /\ UNCHANGED <<revision, jobs>>

ImportStep(i) ==
    \/ StartImport(i) \/ ReadRevision(i) \/ ReadRows(i) \/ ReadVectors(i) \/ Embed(i)
    \/ WriteImport(i) \/ AbandonImport(i)

ImportNext == \E i \in Importers : ImportStep(i)

ImportSpec == ImportInit /\ [][ImportNext]_importVars

-----------------------------------------------------------------------------
(* Properties *)

\* Every stored job has a vector for each text of its requirements and for nothing else,
\* all made by one model, although imports reuse vectors that other imports have stored.
VectorsComplete ==
    \A k \in JobKeys : jobs[k] # None =>
        /\ DOMAIN jobs[k].vec = jobs[k].job.texts
        /\ \A t, u \in jobs[k].job.texts : jobs[k].vec[t] = jobs[k].vec[u]

\* An import that succeeds has made every job of its file what the file says, although it
\* planned from rows it read earlier and other imports may have committed since.
ImportApplies ==
    [][\A i \in Importers : WriteImport(i) =>
          \A n \in DOMAIN imp[i].file :
              LET row == jobs'[imp[i].file[n].key]
              IN  /\ row.job = imp[i].file[n].job
                  /\ \A t \in row.job.texts : row.vec[t] = imp[i].version]_importVars
=============================================================================
