---------------------------- MODULE Catalogue_proofs ----------------------------
(***************************************************************************)
(* CatalogueImport and CatalogueReaders, for any number of imports, files, *)
(* model versions and listings.                                            *)
(*                                                                         *)
(* What an import writes rests on rows it read in earlier statements, each *)
(* of which others may have outdated.  ImportKnows says what is left of    *)
(* these reads: while the revision is the one the import saw first, the    *)
(* rows and vectors it holds are those of the database.  A listing is one  *)
(* listing for the same reason: PageKnows says that while both revisions   *)
(* are those of the first page, sorting again gives the same sequence.     *)
(***************************************************************************)
EXTENDS CatalogueReaders, FiniteSetTheorems, SequenceTheorems, TLAPS

Vectors == UNION {[T -> Versions] : T \in SUBSET Texts}

Steps == {"idle", "read_revision", "read_rows", "read_vectors", "embed", "write"}

Import == [pc : Steps, file : Files \cup {<<>>}, version : Versions \cup {None}, rev : 0 .. MaxRevision,
           rows : UNION {[K -> [id : JobKeys \X Nat, job : Job]] : K \in SUBSET JobKeys},
           vecs : UNION {[K -> Vectors] : K \in SUBSET JobKeys}, vectors : Vectors]

ImportTypes ==
    /\ revision \in 0 .. MaxRevision \cup {None}
    /\ jobs \in [JobKeys -> JobRow \cup {None}]
    /\ \A k \in JobKeys : jobs[k] # None => jobs[k].id \in JobKeys \X (1 .. MaxRevision)
    /\ imp \in [Importers -> Import]

Existing(i) == {k \in KeysOf(imp[i].file) : jobs[k] # None}

\* Rows are never deleted, so those an import has read exist; and they are all, and as they
\* are, unless the revision has moved on.
RowsCurrent(i) ==
    imp[i].pc \in {"read_vectors", "embed", "write"} =>
        /\ DOMAIN imp[i].rows \subseteq Existing(i)
        /\ imp[i].rev = Revision =>
              imp[i].rows = [k \in Existing(i) |-> [id |-> jobs[k].id, job |-> jobs[k].job]]

VecsCurrent(i) ==
    imp[i].pc \in {"embed", "write"} /\ imp[i].rev = Revision =>
        imp[i].vecs = [k \in DOMAIN imp[i].rows |-> jobs[k].vec]

\* Reused or computed, every vector to be written is of the import's version.
VectorsMade(i) ==
    imp[i].pc = "write" =>
        imp[i].vectors \in [UNION {EntryOf(imp[i].file, k).texts : k \in Planned(i)} -> {imp[i].version}]

ImportKnows(i) ==
    /\ imp[i].pc # "idle" => imp[i].file \in Files /\ Valid(imp[i].file) /\ imp[i].version \in Versions
    /\ imp[i].rev <= Revision
    /\ RowsCurrent(i) /\ VecsCurrent(i) /\ VectorsMade(i)

ImportInv == ImportTypes /\ (\A i \in Importers : ImportKnows(i)) /\ VectorsComplete

-----------------------------------------------------------------------------
(* What a listing under way knows *)

Ids == JobKeys \X Nat

ReaderTypes ==
    /\ profile \in [rev : Nat, content : Contents \cup {None},
                    state : {"none", "pending", "ready", "failed", "empty"}]
    /\ profile.state # "none" => profile.content \in Contents
    /\ page \in [Readers -> [pc : {"idle", "paging", "done"}, kind : {"jobs", "matches"}, rev : Nat, prof : Nat,
                             got : Seq(Ids), all : Seq(Ids), opened : {"none", "found", "missing"}]]

Stored(id) == \E k \in JobKeys : jobs[k] # None /\ jobs[k].id = id

\* What was collected is the beginning of the first page's listing, of jobs that still are
\* there; and it is the listing of now, unless the student is told that results changed.
PageKnows(r) ==
    /\ page[r].pc \in {"paging", "done"} =>
          /\ Len(page[r].got) <= Len(page[r].all)
          /\ page[r].got = SubSeq(page[r].all, 1, Len(page[r].got))
          /\ page[r].pc = "done" => page[r].got = page[r].all
          /\ \A n \in 1 .. Len(page[r].all) : Stored(page[r].all[n])
          /\ revision # None /\ page[r].rev <= revision /\ page[r].prof <= profile.rev
          /\ SameResults(r) => Listing(page[r].kind) = page[r].all
    /\ page[r].opened # "missing"

ReaderInv == ImportInv /\ ReaderTypes /\ \A r \in Readers : PageKnows(r)

-----------------------------------------------------------------------------
(* The files *)

\* In a valid file a key stands for one entry.
LEMMA EntryIsOfFile ==
    ASSUME NEW file \in Files, Valid(file), NEW n \in DOMAIN file
    PROVE  EntryOf(file, file[n].key) = file[n].job
<1> DEFINE m == CHOOSE l \in DOMAIN file : file[l].key = file[n].key
<1>1. m \in DOMAIN file /\ file[m].key = file[n].key
  OBVIOUS
<1>2. DOMAIN file = 1 .. Len(file) /\ Len(file) \in Nat
  BY ImportAssumption
<1>3. m = n
  <2>1. ~(m < n) /\ ~(n < m)
    BY <1>1, <1>2 DEF Valid, Duplicated
  <2> HIDE DEF m
  <2> QED
    BY <1>1, <1>2, <2>1
<1> QED
  BY <1>3 DEF EntryOf

\* The keys of a batch are job keys, and its entries are jobs.
LEMMA KeysAreKnown ==
    ASSUME NEW file \in Files, NEW k \in KeysOf(file)
    PROVE  k \in JobKeys /\ EntryOf(file, k) \in Job
<1>1. PICK n \in DOMAIN file : file[n].key = k
  BY DEF KeysOf
<1>2. file \in Seq([key : JobKeys, allowed : BOOLEAN, job : Job])
  BY ImportAssumption
<1>3. DOMAIN file = 1 .. Len(file)
  BY <1>2
<1>4. \A l \in DOMAIN file : file[l] \in [key : JobKeys, allowed : BOOLEAN, job : Job]
  BY <1>2, <1>3, ElementOfSeq
<1> QED
  BY <1>1, <1>4 DEF EntryOf

-----------------------------------------------------------------------------
(* The plan *)

\* A plan depends only on the file, the version and what was read.
LEMMA PlannedSame ==
    ASSUME NEW i, imp'[i].file = imp[i].file, imp'[i].version = imp[i].version,
           imp'[i].rows = imp[i].rows, imp'[i].vecs = imp[i].vecs
    PROVE  Planned(i)' = Planned(i)
<1>1. \A k, t : HasVector(i, k, t)' = HasVector(i, k, t)
  BY DEF HasVector
<1>2. \A k : Unchanged(i, k)' = Unchanged(i, k)
  BY <1>1 DEF Unchanged, Created
<1> QED
  BY <1>2 DEF Planned

\* A plan writes no job that the file does not hold.
LEMMA PlannedAreOfFile == ASSUME NEW i PROVE Planned(i) \subseteq KeysOf(imp[i].file)
  BY DEF Planned

\* A file that was valid when the import started stays so.
LEMMA FileStill ==
    ASSUME NEW i, imp'[i].file = imp[i].file, imp'[i].version = imp[i].version,
           imp[i].file \in Files, Valid(imp[i].file), imp[i].version \in Versions
    PROVE  (imp[i].file \in Files /\ Valid(imp[i].file) /\ imp[i].version \in Versions)'
  BY DEF Valid, WellFormed, Duplicated

\* An import that is left alone knows what it knew.
LEMMA KnowsStill ==
    ASSUME NEW i, ImportKnows(i), imp'[i] = imp[i], UNCHANGED <<revision, jobs>>
    PROVE  ImportKnows(i)'
<1>1. Planned(i)' = Planned(i)
  BY PlannedSame
<1>2. Revision' = Revision /\ Existing(i)' = Existing(i)
  BY DEF Revision, Existing
<1>3. RowsCurrent(i)' /\ VecsCurrent(i)'
  BY <1>2 DEF ImportKnows, RowsCurrent, VecsCurrent
<1>4. VectorsMade(i)'
  BY <1>1 DEF ImportKnows, VectorsMade
<1> QED
  BY <1>2, <1>3, <1>4 DEF ImportKnows

\* A step of an import that writes nothing keeps the invariant if it knows what it did.
LEMMA ReadKeeps ==
    ASSUME ImportInv, NEW i \in Importers, NEW b \in Import, imp' = [imp EXCEPT ![i] = b],
           UNCHANGED <<revision, jobs>>, ImportKnows(i)'
    PROVE  ImportInv'
<1>1. ImportTypes'
  BY DEF ImportInv, ImportTypes
<1>2. ASSUME NEW j \in Importers, j # i PROVE ImportKnows(j)'
  BY <1>2, KnowsStill DEF ImportInv, ImportTypes
<1>3. VectorsComplete'
  BY DEF ImportInv, VectorsComplete
<1> QED
  BY <1>1, <1>2, <1>3 DEF ImportInv

\* An importer at rest remembers nothing that could be stale.
LEMMA NothingKnown ==
    /\ NoImport \in Import
    /\ \A i \in Importers : ImportTypes /\ imp[i] = NoImport => ImportKnows(i)
<1>1. <<>> \in [{} -> Versions] /\ <<>> \in [{} -> Vectors] /\ <<>> \in [{} -> [id : JobKeys \X Nat, job : Job]]
  OBVIOUS
<1>2. NoImport \in Import
  <2>1. <<>> \in Vectors
    BY <1>1 DEF Vectors
  <2>2. <<>> \in UNION {[K -> Vectors] : K \in SUBSET JobKeys}
    BY <1>1
  <2>3. <<>> \in UNION {[K -> [id : JobKeys \X Nat, job : Job]] : K \in SUBSET JobKeys}
    BY <1>1
  <2>4. 0 \in 0 .. MaxRevision
    BY ImportAssumption
  <2> DEFINE rs == UNION {[K -> [id : JobKeys \X Nat, job : Job]] : K \in SUBSET JobKeys}
             vs == UNION {[K -> Vectors] : K \in SUBSET JobKeys}
             e == <<>>
  <2>6. e \in rs /\ e \in vs /\ e \in Vectors
    BY <2>1, <2>2, <2>3
  <2>7. NoImport = [pc |-> "idle", file |-> e, version |-> None, rev |-> 0,
                    rows |-> e, vecs |-> e, vectors |-> e]
    BY DEF NoImport
  <2>8. Import = [pc : Steps, file : Files \cup {e}, version : Versions \cup {None},
                  rev : 0 .. MaxRevision, rows : rs, vecs : vs, vectors : Vectors]
    BY DEF Import
  <2>9. "idle" \in Steps
    BY DEF Steps
  <2> HIDE DEF rs, vs, e
  <2> QED
    BY <2>4, <2>6, <2>7, <2>8, <2>9
<1>3. ImportTypes => Revision \in Nat
  BY ImportAssumption DEF ImportTypes, Revision
<1> QED
  BY <1>2, <1>3 DEF ImportKnows, NoImport, RowsCurrent, VecsCurrent, VectorsMade

\* ImportInv holds at first.
LEMMA ImportInitHolds == ImportInit => ImportInv
<1> SUFFICES ASSUME ImportInit PROVE ImportInv
  OBVIOUS
<1>1. ImportTypes
  BY NothingKnown DEF ImportInit, ImportTypes
<1> QED
  BY <1>1, NothingKnown DEF ImportInit, ImportInv, VectorsComplete

-----------------------------------------------------------------------------
(* The steps that read *)

\* Starting an import keeps ImportInv: nothing is read yet.
LEMMA StartKeeps ==
    ASSUME ImportInv, NEW i \in Importers, StartImport(i) PROVE ImportInv'
<1>1. PICK file \in Files, v \in Versions :
         /\ Valid(file)
         /\ imp' = [imp EXCEPT ![i].pc = "read_revision", ![i].file = file, ![i].version = v]
  BY DEF StartImport
<1> DEFINE b == [imp[i] EXCEPT !.pc = "read_revision", !.file = file, !.version = v]
<1>2. imp[i] \in Import
  BY DEF ImportInv, ImportTypes
<1>3. /\ b \in Import /\ b.pc = "read_revision" /\ b.file = file /\ b.version = v /\ b.rev = imp[i].rev
      /\ imp' = [imp EXCEPT ![i] = b] /\ imp'[i] = b
  BY <1>1, <1>2 DEF Import, Steps, ImportInv, ImportTypes
<1> HIDE DEF b
<1>4. UNCHANGED <<revision, jobs>>
  BY DEF StartImport
<1>5. ImportKnows(i)'
  BY <1>1, <1>3, <1>4 DEF ImportInv, ImportKnows, Revision, RowsCurrent, VecsCurrent, VectorsMade, Valid,
     WellFormed, Duplicated
<1> QED
  BY <1>3, <1>4, <1>5, ReadKeeps

\* Reading the revision keeps ImportInv.
LEMMA ReadRevisionKeeps ==
    ASSUME ImportInv, NEW i \in Importers, ReadRevision(i) PROVE ImportInv'
<1> DEFINE b == [imp[i] EXCEPT !.pc = "read_rows", !.rev = Revision]
<1>1. imp[i] \in Import /\ Revision \in 0 .. MaxRevision
  BY ImportAssumption DEF ImportInv, ImportTypes, Revision
<1>2. /\ b \in Import /\ b.pc = "read_rows" /\ b.file = imp[i].file /\ b.version = imp[i].version
      /\ b.rev = Revision /\ imp' = [imp EXCEPT ![i] = b] /\ imp'[i] = b
  BY <1>1 DEF Import, Steps, ImportInv, ImportTypes, ReadRevision
<1> HIDE DEF b
<1>3. UNCHANGED <<revision, jobs>> /\ imp[i].pc = "read_revision"
  BY DEF ReadRevision, At
<1>4. Revision' = Revision /\ Revision \in Nat
  BY <1>1, <1>3, ImportAssumption DEF Revision
<1>5. ImportKnows(i)'
  <2>1. (imp[i].file \in Files /\ Valid(imp[i].file) /\ imp[i].version \in Versions)'
    BY <1>2, <1>3, FileStill DEF ImportInv, ImportKnows
  <2> QED
    BY <1>2, <1>4, <2>1 DEF ImportKnows, RowsCurrent, VecsCurrent, VectorsMade
<1> QED
  BY <1>2, <1>3, <1>5, ReadKeeps

\* Reading the rows keeps ImportInv: they are those of the revision, or the revision has moved.
LEMMA ReadRowsKeeps ==
    ASSUME ImportInv, NEW i \in Importers, ReadRows(i) PROVE ImportInv'
<1> DEFINE rs == [k \in Existing(i) |-> [id |-> jobs[k].id, job |-> jobs[k].job]]
           b == [imp[i] EXCEPT !.pc = "read_vectors", !.rows = rs]
<1>1. imp[i] \in Import /\ imp[i].file \in Files /\ imp[i].pc = "read_rows"
  BY DEF ImportInv, ImportTypes, ImportKnows, ReadRows, At
<1>2. Existing(i) \in SUBSET JobKeys /\ \A k \in Existing(i) : jobs[k] \in JobRow
  BY <1>1, KeysAreKnown DEF Existing, ImportInv, ImportTypes
<1>3. rs \in [Existing(i) -> [id : JobKeys \X Nat, job : Job]]
  BY <1>2 DEF JobRow
<1>4. imp' = [imp EXCEPT ![i].pc = "read_vectors", ![i].rows = rs] /\ UNCHANGED <<revision, jobs>>
  BY DEF ReadRows, Existing
<1> HIDE DEF rs
<1>5. rs \in UNION {[K -> [id : JobKeys \X Nat, job : Job]] : K \in SUBSET JobKeys}
  BY <1>2, <1>3
<1>6. /\ b \in Import /\ b.pc = "read_vectors" /\ b.file = imp[i].file /\ b.version = imp[i].version
      /\ b.rev = imp[i].rev /\ b.rows = rs /\ imp' = [imp EXCEPT ![i] = b] /\ imp'[i] = b
  BY <1>1, <1>4, <1>5 DEF Import, Steps, ImportInv, ImportTypes
<1> HIDE DEF b
<1>7. Existing(i)' = Existing(i) /\ Revision' = Revision
  BY <1>4, <1>6 DEF Existing, Revision
<1>8. RowsCurrent(i)'
  <2>1. DOMAIN rs = Existing(i) /\ rs = [k \in Existing(i) |-> [id |-> jobs[k].id, job |-> jobs[k].job]]
    BY DEF rs
  <2> QED
    BY <1>4, <1>6, <1>7, <2>1 DEF RowsCurrent
<1>9. ImportKnows(i)'
  <2>1. (imp[i].file \in Files /\ Valid(imp[i].file) /\ imp[i].version \in Versions)'
    BY <1>1, <1>6, FileStill DEF ImportInv, ImportKnows
  <2>2. (imp[i].rev <= Revision)'
    BY <1>6, <1>7 DEF ImportInv, ImportKnows
  <2> QED
    BY <1>6, <1>8, <2>1, <2>2 DEF ImportKnows, VecsCurrent, VectorsMade
<1> QED
  BY <1>4, <1>6, <1>9, ReadKeeps

\* Reading the vectors keeps ImportInv: they are those of the revision, or it has moved.
LEMMA ReadVectorsKeeps ==
    ASSUME ImportInv, NEW i \in Importers, ReadVectors(i) PROVE ImportInv'
<1> DEFINE vs == [k \in DOMAIN imp[i].rows |-> jobs[k].vec]
           b == [imp[i] EXCEPT !.pc = "embed", !.vecs = vs]
<1>1. /\ imp[i] \in Import /\ imp[i].file \in Files /\ imp[i].pc = "read_vectors"
      /\ DOMAIN imp[i].rows \subseteq Existing(i)
  BY DEF ImportInv, ImportTypes, ImportKnows, RowsCurrent, ReadVectors, At
<1>2. DOMAIN imp[i].rows \in SUBSET JobKeys /\ \A k \in DOMAIN imp[i].rows : jobs[k] \in JobRow
  BY <1>1, KeysAreKnown DEF Existing, ImportInv, ImportTypes
<1>3. vs \in [DOMAIN imp[i].rows -> Vectors]
  BY <1>2 DEF JobRow, Vectors
<1>4. /\ imp' = [imp EXCEPT ![i].pc = "embed", ![i].vecs = vs] /\ UNCHANGED <<revision, jobs>>
      /\ vs = [k \in DOMAIN imp[i].rows |-> jobs[k].vec]
  BY DEF ReadVectors
<1> HIDE DEF vs
<1>5. vs \in UNION {[K -> Vectors] : K \in SUBSET JobKeys}
  BY <1>2, <1>3
<1>6. /\ b \in Import /\ b.pc = "embed" /\ b.file = imp[i].file /\ b.version = imp[i].version
      /\ b.rev = imp[i].rev /\ b.rows = imp[i].rows /\ b.vecs = vs
      /\ imp' = [imp EXCEPT ![i] = b] /\ imp'[i] = b
  BY <1>1, <1>4, <1>5 DEF Import, Steps, ImportInv, ImportTypes
<1> HIDE DEF b
<1>7. Existing(i)' = Existing(i) /\ Revision' = Revision
  BY <1>4, <1>6 DEF Existing, Revision
<1>8. RowsCurrent(i)'
  <2>1. RowsCurrent(i) /\ imp'[i].rows = imp[i].rows /\ imp'[i].rev = imp[i].rev
    BY <1>6 DEF ImportInv, ImportKnows
  <2> QED
    BY <1>1, <1>4, <1>7, <2>1 DEF RowsCurrent
<1>9. VecsCurrent(i)'
  <2>1. imp'[i].rows = imp[i].rows /\ imp'[i].vecs = vs
    BY <1>6
  <2> QED
    BY <1>4, <2>1 DEF VecsCurrent
<1>10. ImportKnows(i)'
  <2>1. (imp[i].file \in Files /\ Valid(imp[i].file) /\ imp[i].version \in Versions)'
    BY <1>1, <1>6, FileStill DEF ImportInv, ImportKnows
  <2>2. (imp[i].rev <= Revision)'
    BY <1>6, <1>7 DEF ImportInv, ImportKnows
  <2> QED
    BY <1>6, <1>8, <1>9, <2>1, <2>2 DEF ImportKnows, VectorsMade
<1> QED
  BY <1>4, <1>6, <1>10, ReadKeeps

\* Embedding reuses vectors of the import's version only.
LEMMA EmbedKeeps ==
    ASSUME ImportInv, NEW i \in Importers, Embed(i) PROVE ImportInv'
<1> DEFINE texts == UNION {EntryOf(imp[i].file, k).texts : k \in Planned(i)}
           vs == [t \in texts |-> IF Reused(i, t) = {} THEN imp[i].version ELSE CHOOSE v \in Reused(i, t) : TRUE]
           b == [imp[i] EXCEPT !.pc = "write", !.vectors = vs]
<1>1. /\ imp[i] \in Import /\ imp[i].file \in Files /\ imp[i].pc = "embed" /\ imp[i].version \in Versions
  BY DEF ImportInv, ImportTypes, ImportKnows, Embed, At
<1>2. imp' = [imp EXCEPT ![i].pc = "write", ![i].vectors = vs] /\ UNCHANGED <<revision, jobs>>
  BY DEF Embed
<1>3. texts \in SUBSET Texts
  <2>1. \A k \in Planned(i) : EntryOf(imp[i].file, k) \in Job
    BY <1>1, KeysAreKnown, PlannedAreOfFile
  <2> QED
    BY <2>1 DEF Job
<1>4. \A t : \A v \in Reused(i, t) : v = imp[i].version
  BY DEF Reused, HasVector
<1>5. vs \in [texts -> {imp[i].version}]
  <2> SUFFICES ASSUME NEW t \in texts PROVE vs[t] = imp[i].version
    OBVIOUS
  <2> HIDE DEF texts
  <2>1. CASE Reused(i, t) = {}
    BY <2>1
  <2>2. CASE Reused(i, t) # {}
    <3>1. (CHOOSE v \in Reused(i, t) : TRUE) \in Reused(i, t)
      BY <2>2
    <3> QED
      BY <1>4, <2>2, <3>1
  <2> QED
    BY <2>1, <2>2
<1> HIDE DEF vs
<1>6. vs \in Vectors
  <2>1. vs \in [texts -> Versions]
    BY <1>1, <1>5
  <2> HIDE DEF texts
  <2> QED
    BY <1>3, <2>1 DEF Vectors
<1>7. /\ b \in Import /\ b.pc = "write" /\ b.file = imp[i].file /\ b.version = imp[i].version
      /\ b.rev = imp[i].rev /\ b.rows = imp[i].rows /\ b.vecs = imp[i].vecs /\ b.vectors = vs
      /\ imp' = [imp EXCEPT ![i] = b] /\ imp'[i] = b
  BY <1>1, <1>2, <1>6 DEF Import, Steps, ImportInv, ImportTypes
<1> HIDE DEF b
<1>8. Planned(i)' = Planned(i)
  BY <1>7, PlannedSame
<1>9. Existing(i)' = Existing(i) /\ Revision' = Revision
  BY <1>2, <1>7 DEF Existing, Revision
<1>10. RowsCurrent(i)' /\ VecsCurrent(i)'
  <2>1. /\ RowsCurrent(i) /\ VecsCurrent(i) /\ imp'[i].rows = imp[i].rows /\ imp'[i].rev = imp[i].rev
        /\ imp'[i].vecs = imp[i].vecs
    BY <1>7 DEF ImportInv, ImportKnows
  <2>2. RowsCurrent(i)'
    BY <1>1, <1>2, <1>9, <2>1 DEF RowsCurrent
  <2>3. VecsCurrent(i)'
    BY <1>1, <1>2, <1>9, <2>1 DEF VecsCurrent
  <2> QED
    BY <2>2, <2>3
<1>11. VectorsMade(i)'
  <2>1. \A k : EntryOf(imp[i].file, k)' = EntryOf(imp[i].file, k)
    BY <1>7 DEF EntryOf
  <2>2. (UNION {EntryOf(imp[i].file, k).texts : k \in Planned(i)})' = texts
    BY <1>8, <2>1
  <2>3. vs \in [(UNION {EntryOf(imp[i].file, k).texts : k \in Planned(i)})' -> {imp[i].version}]
    BY <1>5, <2>2
  <2> HIDE DEF texts
  <2> QED
    BY <1>7, <2>3 DEF VectorsMade
<1>12. ImportKnows(i)'
  <2>1. (imp[i].file \in Files /\ Valid(imp[i].file) /\ imp[i].version \in Versions)'
    BY <1>1, <1>7, FileStill DEF ImportInv, ImportKnows
  <2>2. (imp[i].rev <= Revision)'
    BY <1>7, <1>9 DEF ImportInv, ImportKnows
  <2> QED
    BY <1>7, <1>10, <1>11, <2>1, <2>2 DEF ImportKnows
<1> QED
  BY <1>2, <1>7, <1>12, ReadKeeps

\* An import that fails leaves the catalogue alone.
LEMMA AbandonKeeps ==
    ASSUME ImportInv, NEW i \in Importers, AbandonImport(i) PROVE ImportInv'
<1>1. imp' = [imp EXCEPT ![i] = NoImport] /\ UNCHANGED <<revision, jobs>>
  BY DEF AbandonImport
<1>2. imp'[i] = NoImport /\ NoImport \in Import
  BY <1>1, NothingKnown DEF ImportInv, ImportTypes
<1>3. Revision' \in Nat
  BY <1>1, ImportAssumption DEF ImportInv, ImportTypes, Revision
<1>4. ImportKnows(i)'
  BY <1>2, <1>3 DEF ImportKnows, NoImport, RowsCurrent, VecsCurrent, VectorsMade
<1> QED
  BY <1>1, <1>2, <1>4, ReadKeeps

-----------------------------------------------------------------------------
(* The write transaction *)

\* What a write that commits leaves: planned jobs as the file has them, with vectors of
\* one version, and the other jobs as they were.
LEMMA WriteWrites ==
    ASSUME ImportInv, NEW i \in Importers, WriteImport(i)
    PROVE  /\ imp[i].file \in Files /\ Valid(imp[i].file) /\ imp[i].version \in Versions
           /\ imp[i].rev = Revision /\ Revision \in Nat
           /\ \A k \in DOMAIN imp[i].rows : k \in JobKeys /\ jobs[k] # None /\ imp[i].rows[k].id = jobs[k].id
                                              /\ imp[i].rows[k].job = jobs[k].job
                                              /\ k \in DOMAIN imp[i].vecs /\ imp[i].vecs[k] = jobs[k].vec
           /\ \A k \in JobKeys : k \notin Planned(i) => jobs'[k] = jobs[k]
           /\ \A k \in Planned(i) :
                 /\ k \in JobKeys /\ EntryOf(imp[i].file, k) \in Job
                 /\ jobs'[k] = [id |-> RowId(i, k), job |-> EntryOf(imp[i].file, k),
                                vec |-> [t \in EntryOf(imp[i].file, k).texts |-> imp[i].version]]
<1>1. /\ imp[i].file \in Files /\ Valid(imp[i].file) /\ imp[i].version \in Versions /\ imp[i].pc = "write"
      /\ imp[i].rev = Revision /\ Revision \in Nat
  BY ImportAssumption DEF ImportInv, ImportKnows, WriteImport, At, PlanIsCurrent, ImportTypes, Revision
<1>2. /\ imp[i].rows = [k \in Existing(i) |-> [id |-> jobs[k].id, job |-> jobs[k].job]]
      /\ imp[i].vecs = [k \in DOMAIN imp[i].rows |-> jobs[k].vec]
  BY <1>1 DEF ImportInv, ImportKnows, RowsCurrent, VecsCurrent
<1>3. \A k \in Existing(i) : k \in JobKeys /\ jobs[k] # None
  BY <1>1, KeysAreKnown DEF Existing
<1>4. \A k \in DOMAIN imp[i].rows :
         /\ k \in JobKeys /\ jobs[k] # None /\ imp[i].rows[k].id = jobs[k].id
         /\ imp[i].rows[k].job = jobs[k].job
         /\ k \in DOMAIN imp[i].vecs /\ imp[i].vecs[k] = jobs[k].vec
  <2>1. DOMAIN imp[i].rows = Existing(i)
    BY <1>2
  <2>2. \A k \in Existing(i) : imp[i].rows[k] = [id |-> jobs[k].id, job |-> jobs[k].job]
    BY <1>2
  <2>3. DOMAIN imp[i].vecs = Existing(i) /\ \A k \in Existing(i) : imp[i].vecs[k] = jobs[k].vec
    BY <1>2, <2>1
  <2> SUFFICES ASSUME NEW k \in Existing(i)
               PROVE  /\ k \in JobKeys /\ jobs[k] # None /\ imp[i].rows[k].id = jobs[k].id
                      /\ imp[i].rows[k].job = jobs[k].job
                      /\ k \in DOMAIN imp[i].vecs /\ imp[i].vecs[k] = jobs[k].vec
    BY <2>1
  <2>4. imp[i].rows[k].id = jobs[k].id /\ imp[i].rows[k].job = jobs[k].job
    <3>1. imp[i].rows[k] = [id |-> jobs[k].id, job |-> jobs[k].job]
      BY <2>2
    <3> QED
      BY <3>1
  <2> QED
    BY <1>3, <2>3, <2>4
<1>5. jobs' = [k \in JobKeys |->
                  IF k \notin Planned(i) THEN jobs[k]
                  ELSE [id |-> RowId(i, k), job |-> EntryOf(imp[i].file, k),
                        vec |-> [t \in EntryOf(imp[i].file, k).texts |-> imp[i].vectors[t]]]]
  BY DEF WriteImport
<1>6. ASSUME NEW k \in Planned(i)
      PROVE  /\ k \in JobKeys /\ EntryOf(imp[i].file, k) \in Job
             /\ jobs'[k] = [id |-> RowId(i, k), job |-> EntryOf(imp[i].file, k),
                            vec |-> [t \in EntryOf(imp[i].file, k).texts |-> imp[i].version]]
  <2>1. k \in JobKeys /\ EntryOf(imp[i].file, k) \in Job
    BY <1>1, KeysAreKnown, PlannedAreOfFile
  <2>2. imp[i].vectors \in [UNION {EntryOf(imp[i].file, l).texts : l \in Planned(i)} -> {imp[i].version}]
    BY <1>1 DEF ImportInv, ImportKnows, VectorsMade
  <2>3. \A t \in EntryOf(imp[i].file, k).texts : imp[i].vectors[t] = imp[i].version
    BY <2>2
  <2>4. [t \in EntryOf(imp[i].file, k).texts |-> imp[i].vectors[t]]
           = [t \in EntryOf(imp[i].file, k).texts |-> imp[i].version]
    BY <2>3
  <2> QED
    BY <1>5, <2>1, <2>4
<1>7. \A k \in JobKeys : k \notin Planned(i) => jobs'[k] = jobs[k]
  BY <1>5
<1> QED
  BY <1>1, <1>4, <1>6, <1>7

\* No row is lost and none changes its identity; and if a job changes, the revision moves on.
LEMMA WriteMovesOn ==
    ASSUME ImportInv, NEW i \in Importers, WriteImport(i)
    PROVE  /\ \A k \in JobKeys : jobs[k] # None => jobs'[k] # None /\ jobs'[k].id = jobs[k].id
           /\ revision' \in 0 .. MaxRevision /\ Revision' = revision' /\ Revision <= Revision'
           /\ Revision' = Revision => jobs' = jobs
           /\ revision # None => revision \in Nat /\ (jobs' = jobs \/ revision' > revision)
           /\ jobs' \in [JobKeys -> JobRow \cup {None}]
           /\ \A k \in JobKeys : jobs'[k] # None => jobs'[k].id \in JobKeys \X (1 .. MaxRevision)
<1>1. /\ imp[i].rev = Revision /\ Revision \in Nat /\ MaxRevision \in Nat /\ imp[i].rev \in 0 .. MaxRevision
      /\ jobs \in [JobKeys -> JobRow \cup {None}]
  BY WriteWrites, ImportAssumption DEF ImportInv, ImportTypes, Import
<1>2. /\ Planned(i) # {} => imp[i].rev < MaxRevision /\ revision' = imp[i].rev + 1
      /\ Planned(i) = {} => revision' = imp[i].rev
  BY <1>1 DEF WriteImport, Bump
<1>3. revision' \in 0 .. MaxRevision /\ Revision' = revision'
  <2>1. revision' \in 0 .. MaxRevision
    BY <1>1, <1>2
  <2> QED
    BY <2>1, ImportAssumption DEF Revision
<1>4. \A k \in Planned(i) :
         /\ k \in JobKeys /\ EntryOf(imp[i].file, k) \in Job
         /\ jobs'[k] = [id |-> RowId(i, k), job |-> EntryOf(imp[i].file, k),
                        vec |-> [t \in EntryOf(imp[i].file, k).texts |-> imp[i].version]]
  BY WriteWrites
<1>5. ASSUME NEW k \in Planned(i)
      PROVE  /\ RowId(i, k) \in JobKeys \X (1 .. MaxRevision)
             /\ jobs[k] # None => RowId(i, k) = jobs[k].id
  <2>1. CASE Created(i, k)
    <3>1. jobs[k] = None
      <4>1. DOMAIN imp[i].rows = Existing(i)
        BY <1>1 DEF WriteImport, At, ImportInv, ImportKnows, RowsCurrent
      <4> QED
        BY <2>1, <4>1, PlannedAreOfFile DEF Created, Existing
    <3>2. RowId(i, k) = <<k, imp[i].rev + 1>> /\ k \in JobKeys /\ imp[i].rev + 1 \in 1 .. MaxRevision
      <4>1. RowId(i, k) = <<k, imp[i].rev + 1>>
        BY <2>1 DEF RowId
      <4>2. Planned(i) # {}
        OBVIOUS
      <4>3. k \in JobKeys
        BY <1>4
      <4>4. imp[i].rev < MaxRevision
        BY <1>2, <4>2
      <4>5. imp[i].rev + 1 \in 1 .. MaxRevision
        BY <1>1, <4>4
      <4> QED
        BY <4>1, <4>3, <4>5
    <3> QED
      BY <3>1, <3>2
  <2>2. CASE ~Created(i, k)
    <3>1. k \in DOMAIN imp[i].rows
      BY <2>2 DEF Created
    <3>2. jobs[k] # None /\ imp[i].rows[k].id = jobs[k].id
      BY <3>1, WriteWrites
    <3>3. jobs[k].id \in JobKeys \X (1 .. MaxRevision)
      BY <1>4, <3>2 DEF ImportInv, ImportTypes
    <3> QED
      BY <2>2, <3>2, <3>3 DEF RowId
  <2> QED
    BY <2>1, <2>2
<1>6. ASSUME NEW k \in Planned(i)
      PROVE  /\ jobs'[k] \in JobRow /\ jobs'[k].id = RowId(i, k)
  <2> DEFINE texts == EntryOf(imp[i].file, k).texts
             vec == [t \in texts |-> imp[i].version]
  <2>1. texts \in SUBSET Texts /\ EntryOf(imp[i].file, k) \in Job
    BY <1>4 DEF Job
  <2>2. vec \in [texts -> Versions]
    BY WriteWrites
  <2>3. vec \in UNION {[T -> Versions] : T \in SUBSET Texts}
    <3> HIDE DEF texts, vec
    <3> QED
      BY <2>1, <2>2
  <2>4. RowId(i, k) \in JobKeys \X Nat
    BY <1>1, <1>5
  <2>5. jobs'[k] = [id |-> RowId(i, k), job |-> EntryOf(imp[i].file, k), vec |-> vec]
    BY <1>4
  <2> HIDE DEF texts, vec
  <2> QED
    BY <2>1, <2>3, <2>4, <2>5 DEF JobRow
<1>7. \A k \in Planned(i) : jobs'[k] # None
  BY <1>6, ImportAssumption
<1>8. \A k \in JobKeys : k \notin Planned(i) => jobs'[k] = jobs[k]
  BY WriteWrites
<1>9. DOMAIN jobs' = JobKeys /\ jobs' \in [JobKeys -> JobRow \cup {None}]
  <2>1. DOMAIN jobs' = JobKeys /\ jobs' = [k \in JobKeys |-> jobs'[k]]
    BY DEF WriteImport
  <2>2. \A k \in JobKeys : jobs'[k] \in JobRow \cup {None}
    BY <1>1, <1>6, <1>8
  <2> QED
    BY <2>1, <2>2
<1>10. Planned(i) = {} => jobs' = jobs
  BY <1>1, <1>8, <1>9
<1>11. revision # None => revision \in Nat /\ Revision = revision
  BY ImportAssumption DEF ImportInv, ImportTypes, Revision
<1>12. \A k \in JobKeys : jobs'[k] # None => jobs'[k].id \in JobKeys \X (1 .. MaxRevision)
  BY <1>5, <1>6, <1>8 DEF ImportInv, ImportTypes
<1>13. \A k \in JobKeys : jobs[k] # None => jobs'[k] # None /\ jobs'[k].id = jobs[k].id
  BY <1>5, <1>6, <1>7, <1>8
<1> QED
  BY <1>1, <1>2, <1>3, <1>9, <1>10, <1>11, <1>12, <1>13

\* The transaction keeps ImportInv: it raises the revision, so no other importer's plan is
\* applied to rows it has not seen.
LEMMA WriteKeeps ==
    ASSUME ImportInv, NEW i \in Importers, WriteImport(i) PROVE ImportInv'
<1>1. imp' = [imp EXCEPT ![i] = NoImport] /\ imp'[i] = NoImport /\ NoImport \in Import
  BY NothingKnown DEF WriteImport, ImportInv, ImportTypes
<1>2. ImportTypes'
  BY <1>1, WriteMovesOn DEF ImportInv, ImportTypes
<1>3. Revision \in Nat /\ Revision' \in Nat /\ Revision <= Revision' /\ (Revision' = Revision => jobs' = jobs)
  BY WriteMovesOn, WriteWrites, ImportAssumption
<1>4. ImportKnows(i)'
  BY <1>1, <1>3 DEF ImportKnows, NoImport, RowsCurrent, VecsCurrent, VectorsMade
<1>5. ASSUME NEW j \in Importers, j # i PROVE ImportKnows(j)'
  <2>1. imp'[j] = imp[j] /\ ImportKnows(j) /\ imp[j].rev \in Int /\ imp[j].file = imp'[j].file
    BY <1>1, <1>5 DEF ImportInv, ImportTypes, Import
  <2>2. Planned(j)' = Planned(j)
    BY <2>1, PlannedSame
  <2>3. VectorsMade(j)'
    BY <2>1, <2>2 DEF ImportKnows, VectorsMade
  <2>4. imp[j].pc # "idle" => Existing(j) \subseteq Existing(j)'
    BY <2>1, WriteMovesOn, KeysAreKnown DEF Existing, ImportKnows
  <2>5. imp[j].rev = Revision' => imp[j].rev = Revision /\ jobs' = jobs
    BY <1>3, <2>1 DEF ImportKnows
  <2>6. jobs' = jobs => Existing(j)' = Existing(j)
    BY <2>1 DEF Existing
  <2>7. RowsCurrent(j)'
    BY <2>1, <2>4, <2>5, <2>6 DEF ImportKnows, RowsCurrent
  <2>8. VecsCurrent(j)'
    BY <2>1, <2>5 DEF ImportKnows, VecsCurrent
  <2> QED
    BY <1>3, <2>1, <2>3, <2>7, <2>8 DEF ImportKnows, Valid, WellFormed, Duplicated
<1>6. VectorsComplete'
  <2> SUFFICES ASSUME NEW k \in JobKeys, jobs'[k] # None
               PROVE  /\ DOMAIN jobs'[k].vec = jobs'[k].job.texts
                      /\ \A t, u \in jobs'[k].job.texts : jobs'[k].vec[t] = jobs'[k].vec[u]
    BY DEF VectorsComplete
  <2>1. CASE k \in Planned(i)
    <3> DEFINE texts == EntryOf(imp[i].file, k).texts
    <3>1. jobs'[k] = [id |-> RowId(i, k), job |-> EntryOf(imp[i].file, k),
                      vec |-> [t \in EntryOf(imp[i].file, k).texts |-> imp[i].version]]
      BY <2>1, WriteWrites
    <3>2. jobs'[k].job.texts = texts /\ jobs'[k].vec = [t \in texts |-> imp[i].version]
      BY <3>1
    <3> HIDE DEF texts
    <3> QED
      BY <3>2
  <2>2. CASE k \notin Planned(i)
    <3>1. jobs'[k] = jobs[k]
      BY <2>2, WriteWrites
    <3> QED
      BY <3>1 DEF ImportInv, VectorsComplete
  <2> QED
    BY <2>1, <2>2
<1> QED
  BY <1>2, <1>4, <1>5, <1>6 DEF ImportInv

\* Every step of an import keeps ImportInv.
LEMMA ImportStepKeeps == ImportInv /\ [ImportNext]_importVars => ImportInv'
<1> SUFFICES ASSUME ImportInv, [ImportNext]_importVars PROVE ImportInv'
  OBVIOUS
<1>1. CASE ImportNext
  <2>1. PICK i \in Importers : ImportStep(i)
    BY <1>1 DEF ImportNext
  <2> QED
    BY <2>1, StartKeeps, ReadRevisionKeeps, ReadRowsKeeps, ReadVectorsKeeps, EmbedKeeps, WriteKeeps,
       AbandonKeeps DEF ImportStep
<1>2. CASE UNCHANGED importVars
  <2>1. UNCHANGED <<revision, jobs, imp>>
    BY <1>2 DEF importVars
  <2>2. \A i \in Importers : ImportKnows(i)'
    BY <2>1, KnowsStill DEF ImportInv
  <2> QED
    BY <2>1, <2>2 DEF ImportInv, ImportTypes, VectorsComplete
<1> QED
  BY <1>1, <1>2

-----------------------------------------------------------------------------
\* ImportInv is an invariant: what an import has read is what is stored, for as long as
\* the revision it compares before it writes has not moved on.
THEOREM ImportInductive == ImportSpec => []ImportInv
  BY ImportInitHolds, ImportStepKeeps, PTL DEF ImportSpec

\* Every row has an identity of its own key, and an import never saw a later revision than
\* the bound.
THEOREM ImportTypeCorrect == ImportSpec => []ImportTypeOK
<1>1. ImportInv => ImportTypeOK
  <2> SUFFICES ASSUME ImportInv PROVE ImportTypeOK
    OBVIOUS
  <2>1. ASSUME NEW k \in JobKeys, jobs[k] # None
        PROVE  jobs[k].id \in JobKeys \X (1 .. MaxRevision) /\ jobs[k].job \in Job
               /\ DOMAIN jobs[k].vec \subseteq Texts
    <3>1. jobs[k] \in JobRow /\ DOMAIN jobs[k].vec = jobs[k].job.texts
      BY <2>1 DEF ImportInv, ImportTypes, VectorsComplete
    <3> QED
      BY <2>1, <3>1 DEF ImportInv, ImportTypes, JobRow, Job
  <2> QED
    BY <2>1 DEF ImportTypeOK, ImportInv, ImportTypes, Import, Steps
<1> QED
  BY ImportInductive, <1>1, PTL

\* Every stored job has vectors for exactly its texts, of one model: an import that reuses
\* stored vectors never mixes versions, although it chose them outside a transaction.
THEOREM VectorsAreComplete == ImportSpec => []VectorsComplete
<1>1. ImportInv => VectorsComplete
  BY DEF ImportInv
<1> QED
  BY ImportInductive, <1>1, PTL

\* An import that succeeds has made each job of its file what the file says, with vectors of
\* its model, the jobs it left alone because they seemed unchanged included.
THEOREM ImportsApply == ImportSpec => ImportApplies
<1> DEFINE Applied == \A i \in Importers : WriteImport(i) =>
             \A n \in DOMAIN imp[i].file :
               LET row == jobs'[imp[i].file[n].key]
               IN  /\ row.job = imp[i].file[n].job
                   /\ \A t \in row.job.texts : row.vec[t] = imp[i].version
<1>1. ImportInv => Applied
  <2> SUFFICES ASSUME ImportInv, NEW i \in Importers, WriteImport(i), NEW n \in DOMAIN imp[i].file
               PROVE  LET row == jobs'[imp[i].file[n].key]
                      IN  /\ row.job = imp[i].file[n].job
                          /\ \A t \in row.job.texts : row.vec[t] = imp[i].version
    OBVIOUS
  <2> DEFINE k == imp[i].file[n].key
  <2>1. k \in KeysOf(imp[i].file) /\ EntryOf(imp[i].file, k) = imp[i].file[n].job
    BY WriteWrites, EntryIsOfFile DEF KeysOf
  <2> HIDE DEF k
  <2>2. CASE k \in Planned(i)
    <3>1. jobs'[k] = [id |-> RowId(i, k), job |-> EntryOf(imp[i].file, k),
                      vec |-> [t \in EntryOf(imp[i].file, k).texts |-> imp[i].version]]
      BY <2>2, WriteWrites
    <3>2. /\ jobs'[k].job = EntryOf(imp[i].file, k)
          /\ jobs'[k].vec = [t \in EntryOf(imp[i].file, k).texts |-> imp[i].version]
      BY <3>1
    <3> QED
      BY <2>1, <3>2 DEF k
  <2>3. CASE k \notin Planned(i)
    <3>1. k \in DOMAIN imp[i].rows /\ imp[i].rows[k].job = EntryOf(imp[i].file, k)
          /\ \A t \in EntryOf(imp[i].file, k).texts : imp[i].vecs[k][t] = imp[i].version
      BY <2>1, <2>3 DEF Planned, Unchanged, Created, HasVector
    <3>2. k \in JobKeys /\ imp[i].rows[k].job = jobs[k].job /\ imp[i].vecs[k] = jobs[k].vec
      BY <3>1, WriteWrites
    <3>3. jobs'[k] = jobs[k]
      BY <2>3, <3>2, WriteWrites
    <3> QED
      BY <2>1, <3>1, <3>2, <3>3 DEF k
  <2> QED
    BY <2>2, <2>3
<1>2. ImportInv /\ [ImportNext]_importVars => [Applied]_importVars
  BY <1>1
<1> HIDE DEF Applied
<1>3. ImportSpec => [][Applied]_importVars
  BY ImportInductive, <1>2, PTL DEF ImportSpec
<1> QED
  BY <1>3 DEF ImportApplies, Applied

-----------------------------------------------------------------------------
(* Sorting *)

\* Keys in the order of a rank, equal ranks in their own order: every position is taken.
LEMMA EveryPlaceIsTaken ==
    ASSUME NEW S \in SUBSET Nat, IsFiniteSet(S), NEW p \in [S -> Int]
    PROVE  \A n \in 1 .. Cardinality(S) : \E k \in S :
              Cardinality({j \in S : p[j] > p[k] \/ (p[j] = p[k] /\ j <= k)}) = n
<1> DEFINE upto(k) == {j \in S : p[j] > p[k] \/ (p[j] = p[k] /\ j <= k)}
           N == Cardinality(S)
           place == [k \in S |-> Cardinality(upto(k))]
<1>1. N \in Nat
  BY FS_CardinalityType
<1>2. ASSUME NEW k \in S
      PROVE  /\ upto(k) \in SUBSET S /\ k \in upto(k) /\ IsFiniteSet(upto(k))
             /\ Cardinality(upto(k)) \in 1 .. N
  <2>1. upto(k) \in SUBSET S /\ k \in upto(k)
    OBVIOUS
  <2> HIDE DEF upto
  <2>2. IsFiniteSet(upto(k)) /\ Cardinality(upto(k)) <= N
    BY <2>1, FS_Subset
  <2>3. Cardinality(upto(k)) \in Nat /\ Cardinality(upto(k)) # 0
    BY <2>1, <2>2, FS_CardinalityType, FS_EmptySet
  <2> HIDE DEF N
  <2> QED
    BY <1>1, <2>1, <2>2, <2>3
<1>3. ASSUME NEW j \in S, NEW k \in S, j # k PROVE Cardinality(upto(j)) # Cardinality(upto(k))
  <2>1. upto(j) # upto(k) /\ (upto(j) \subseteq upto(k) \/ upto(k) \subseteq upto(j))
    <3>1. \A l \in S : p[l] \in Int /\ l \in Nat
      OBVIOUS
    <3>2. ASSUME NEW a \in S, NEW b \in S, p[a] > p[b] \/ (p[a] = p[b] /\ a < b)
          PROVE  upto(a) \subseteq upto(b) /\ b \notin upto(a)
      <4>1. ASSUME NEW l \in S, p[l] > p[a] \/ (p[l] = p[a] /\ l <= a)
            PROVE  p[l] > p[b] \/ (p[l] = p[b] /\ l <= b)
        <5>1. p[l] \in Int /\ p[a] \in Int /\ p[b] \in Int /\ l \in Nat /\ a \in Nat /\ b \in Nat
          BY <3>1
        <5> QED
          BY <3>2, <4>1, <5>1
      <4>2. ~(p[b] > p[a] \/ (p[b] = p[a] /\ b <= a))
        <5>1. p[a] \in Int /\ p[b] \in Int /\ a \in Nat /\ b \in Nat
          BY <3>1
        <5> QED
          BY <3>2, <5>1
      <4> QED
        BY <4>1, <4>2
    <3>3. \/ p[j] > p[k] \/ (p[j] = p[k] /\ j < k)
          \/ p[k] > p[j] \/ (p[k] = p[j] /\ k < j)
      BY <1>3, <3>1
    <3> HIDE DEF upto
    <3> QED
      BY <1>2, <3>2, <3>3
  <2> HIDE DEF upto
  <2>2. CASE upto(j) \subseteq upto(k)
    BY <1>2, <2>1, <2>2, FS_Subset
  <2>3. CASE upto(k) \subseteq upto(j)
    BY <1>2, <2>1, <2>3, FS_Subset
  <2> QED
    BY <2>1, <2>2, <2>3
<1> HIDE DEF upto
<1>4. place \in [S -> 1 .. N] /\ \A k \in S : place[k] = Cardinality(upto(k))
  BY <1>2
<1>5. place \in Injection(S, 1 .. N)
  <2>1. \A j, k \in S : place[j] = place[k] => j = k
    BY <1>3, <1>4
  <2> HIDE DEF place, N
  <2> QED
    BY <1>4, <2>1 DEF Injection, IsInjective
<1>6. IsFiniteSet(1 .. N) /\ Cardinality(1 .. N) = N
  BY <1>1, FS_Interval
<1>7. place \in Surjection(S, 1 .. N)
  <2> HIDE DEF place
  <2> QED
    BY <1>5, <1>6, FS_Injection
<1>8. \A n \in 1 .. N : \E k \in S : place[k] = n
  <2> HIDE DEF place
  <2> QED
    BY <1>7 DEF Surjection
<1> QED
  BY <1>4, <1>8 DEF upto

\* A listing, of jobs or, for a student whose resume is current, of matches, is a sequence of
\* the identities of stored jobs.
LEMMA ListingIsOfRows ==
    ASSUME ImportInv, NEW kind \in {"jobs", "matches"}, kind = "matches" => profile.content \in Contents
    PROVE  /\ Listing(kind) \in Seq(Ids)
           /\ \A n \in 1 .. Len(Listing(kind)) : Stored(Listing(kind)[n])
<1>1. ASSUME NEW k \in Active PROVE jobs[k] \in JobRow /\ k \in JobKeys /\ jobs[k] # None
  BY DEF Active, ImportInv, ImportTypes
<1>2. \E S \in SUBSET Active : \E keys \in [1 .. Cardinality(S) -> S] :
         /\ Cardinality(S) \in Nat
         /\ Listing(kind) = [n \in 1 .. Cardinality(S) |-> jobs[keys[n]].id]
  <2>1. CASE kind = "jobs"
    <3> DEFINE p == [k \in Active |-> jobs[k].job.posted]
               before(j, k) == \/ jobs[j].job.posted > jobs[k].job.posted
                               \/ jobs[j].job.posted = jobs[k].job.posted /\ j <= k
               keys == [n \in 1 .. Cardinality(Active) |->
                          CHOOSE k \in Active : Cardinality({j \in Active : before(j, k)}) = n]
    <3>1. Active \in SUBSET Nat /\ IsFiniteSet(Active) /\ p \in [Active -> Int]
      <4>1. \A k \in Active : jobs[k].job.posted \in Int
        BY <1>1 DEF JobRow, Job
      <4>2. Active \in SUBSET JobKeys
        BY DEF Active
      <4> QED
        BY <4>1, <4>2, ReaderAssumption, FS_Subset
    <3>2. Cardinality(Active) \in Nat /\ keys \in [1 .. Cardinality(Active) -> Active]
      <4>1. \A k \in Active :
               {j \in Active : p[j] > p[k] \/ (p[j] = p[k] /\ j <= k)} = {j \in Active : before(j, k)}
        OBVIOUS
      <4> HIDE DEF p, before
      <4>2. \A n \in 1 .. Cardinality(Active) : \E k \in Active :
               Cardinality({j \in Active : p[j] > p[k] \/ (p[j] = p[k] /\ j <= k)}) = n
        BY <3>1, EveryPlaceIsTaken
      <4>3. \A n \in 1 .. Cardinality(Active) : \E k \in Active :
               Cardinality({j \in Active : before(j, k)}) = n
        BY <4>1, <4>2
      <4> QED
        BY <3>1, <4>3, FS_CardinalityType
    <3>3. JobsListing = keys
      BY DEF JobsListing, Sorted
    <3> HIDE DEF keys
    <3>4. Listing(kind) = [n \in 1 .. Cardinality(Active) |-> jobs[keys[n]].id]
      BY <2>1, <3>2, <3>3 DEF Listing
    <3> QED
      BY <3>2, <3>4
  <2>2. CASE kind = "matches"
    <3> DEFINE s(k) == Score(profile.content, jobs[k].job.texts)
               p == [k \in Rankable |-> s(k)]
               before(j, k) == s(j) > s(k) \/ (s(j) = s(k) /\ j <= k)
               keys == [n \in 1 .. Cardinality(Rankable) |->
                          CHOOSE k \in Rankable : Cardinality({j \in Rankable : before(j, k)}) = n]
    <3>1. Rankable \in SUBSET Active /\ Rankable \in SUBSET Nat /\ IsFiniteSet(Rankable)
      BY ReaderAssumption, FS_Subset DEF Rankable, Active
    <3>2. p \in [Rankable -> Int]
      <4> SUFFICES ASSUME NEW k \in Rankable PROVE Score(profile.content, jobs[k].job.texts) \in Int
        OBVIOUS
      <4>1. jobs[k].job.texts \in SUBSET Texts
        BY <1>1, <3>1 DEF JobRow, Job
      <4> QED
        BY <2>2, <4>1, ReaderAssumption
    <3>3. Cardinality(Rankable) \in Nat /\ keys \in [1 .. Cardinality(Rankable) -> Rankable]
      <4>1. \A k \in Rankable :
               {j \in Rankable : p[j] > p[k] \/ (p[j] = p[k] /\ j <= k)} = {j \in Rankable : before(j, k)}
        OBVIOUS
      <4> HIDE DEF p, before, s
      <4>2. \A n \in 1 .. Cardinality(Rankable) : \E k \in Rankable :
               Cardinality({j \in Rankable : p[j] > p[k] \/ (p[j] = p[k] /\ j <= k)}) = n
        BY <3>1, <3>2, EveryPlaceIsTaken
      <4>3. \A n \in 1 .. Cardinality(Rankable) : \E k \in Rankable :
               Cardinality({j \in Rankable : before(j, k)}) = n
        BY <4>1, <4>2
      <4> QED
        BY <3>1, <4>3, FS_CardinalityType
    <3>4. MatchesListing = keys
      BY DEF MatchesListing, Sorted
    <3> HIDE DEF keys
    <3>5. Listing(kind) = [n \in 1 .. Cardinality(Rankable) |-> jobs[keys[n]].id]
      BY <2>2, <3>3, <3>4 DEF Listing
    <3> QED
      BY <3>1, <3>3, <3>5
  <2> QED
    BY <2>1, <2>2
<1>2a. PICK S \in SUBSET Active : \E keys \in [1 .. Cardinality(S) -> S] :
         /\ Cardinality(S) \in Nat
         /\ Listing(kind) = [n \in 1 .. Cardinality(S) |-> jobs[keys[n]].id]
  BY <1>2
<1>3. PICK keys \in [1 .. Cardinality(S) -> S] :
         /\ Cardinality(S) \in Nat
         /\ Listing(kind) = [n \in 1 .. Cardinality(S) |-> jobs[keys[n]].id]
  BY <1>2a
<1>4. \A n \in 1 .. Cardinality(S) :
         /\ Listing(kind)[n] = jobs[keys[n]].id /\ keys[n] \in Active /\ jobs[keys[n]].id \in Ids
  BY <1>1, <1>3 DEF JobRow, Ids
<1>5. Listing(kind) \in [1 .. Cardinality(S) -> Ids]
  BY <1>3, <1>4
<1>6. Listing(kind) \in Seq(Ids) /\ Len(Listing(kind)) = Cardinality(S)
  <2> QED
    BY <1>3, <1>5
<1> QED
  BY <1>1, <1>4, <1>6 DEF Stored

-----------------------------------------------------------------------------
(* Pages *)

\* A page appended to the beginning of a listing is the beginning of it, or all.
LEMMA PagesJoin ==
    ASSUME NEW listing \in Seq(Ids), NEW n \in 0 .. Len(listing)
    PROVE  \E m \in 0 .. Len(listing) :
              LET more == SubSeq(listing, 1, n) \o PageOf(listing, n)
              IN  /\ more = SubSeq(listing, 1, m) /\ more \in Seq(Ids) /\ Len(more) = m
                  /\ m = Len(listing) => more = listing
<1> DEFINE more == SubSeq(listing, 1, n) \o PageOf(listing, n)
<1>1. PICK m \in n .. Len(listing) : m = IF n + PageSize < Len(listing) THEN n + PageSize ELSE Len(listing)
  BY ReaderAssumption
<1>2. Len(listing) \in Nat /\ m \in Nat /\ n \in Nat
  OBVIOUS
<1>3. more = SubSeq(listing, 1, m)
  <2>1. 1 \in 1 .. Len(listing) + 1 /\ n \in 1 - 1 .. Len(listing)
    BY <1>2
  <2>2. SubSeq(listing, 1, n) \o SubSeq(listing, n + 1, m) = SubSeq(listing, 1, m)
    BY <1>1, <2>1, ConcatAdjacentSubSeq
  <2>3. PageOf(listing, n) = SubSeq(listing, n + 1, m)
    BY <1>1 DEF PageOf
  <2> QED
    BY <2>2, <2>3
<1>4. \A i \in 1 .. m : listing[i] \in Ids
  BY <1>2, ElementOfSeq
<1>5. more \in Seq(Ids) /\ Len(more) = IF 1 <= m THEN m - 1 + 1 ELSE 0
  <2>1. 1 \in Int /\ m \in Int
    BY <1>2
  <2>2. SubSeq(listing, 1, m) \in Seq(Ids) /\ Len(SubSeq(listing, 1, m)) = IF 1 <= m THEN m - 1 + 1 ELSE 0
    BY <1>4, <2>1, SubSeqProperties
  <2> QED
    BY <1>3, <2>2
<1>6. Len(more) = m
  BY <1>2, <1>5
<1>7. m = Len(listing) => more = listing
  BY <1>3, SubSeqFull
<1> QED
  BY <1>1, <1>2, <1>3, <1>5, <1>6, <1>7

\* A listing depends on the stored jobs, and one of matches on the resume.
LEMMA ListingSame ==
    ASSUME jobs' = jobs
    PROVE  JobsListing' = JobsListing /\ (profile'.content = profile.content => MatchesListing' = MatchesListing)
<1>1. Active' = Active
  BY DEF Active
<1>2. JobsListing' = JobsListing
  BY <1>1 DEF JobsListing, Sorted
<1>3. ASSUME profile'.content = profile.content PROVE MatchesListing' = MatchesListing
  <2>1. Rankable' = Rankable
    BY <1>1 DEF Rankable
  <2> QED
    BY <1>3, <2>1 DEF MatchesListing, Sorted
<1> QED
  BY <1>2, <1>3

\* A listing that is left alone knows what it knew, if revisions move on with what they count.
LEMMA PageStill ==
    ASSUME ReaderInv, NEW r \in Readers, page'[r] = page[r],
           \A k \in JobKeys : jobs[k] # None => jobs'[k] # None /\ jobs'[k].id = jobs[k].id,
           revision # None => revision' \in Nat /\ revision <= revision',
           revision' = revision /\ revision # None => jobs' = jobs,
           profile'.rev \in Nat, profile.rev <= profile'.rev,
           profile'.rev = profile.rev => profile'.content = profile.content
    PROVE  PageKnows(r)'
<1>1. PageKnows(r) /\ profile.rev \in Nat /\ page[r].kind \in {"jobs", "matches"} /\ page[r].rev \in Nat
      /\ page[r].prof \in Nat /\ (revision # None => revision \in Nat)
  BY ImportAssumption DEF ReaderInv, ReaderTypes, ImportInv, ImportTypes
<1> SUFFICES ASSUME page[r].pc \in {"paging", "done"}
             PROVE  /\ \A n \in 1 .. Len(page[r].all) : Stored(page[r].all[n])'
                    /\ revision' # None /\ page[r].rev <= revision' /\ page[r].prof <= profile'.rev
                    /\ SameResults(r)' => Listing(page[r].kind)' = page[r].all
  BY <1>1 DEF PageKnows
<1>2. revision # None /\ revision \in Nat /\ revision' \in Nat /\ page[r].rev <= revision /\ page[r].prof <= profile.rev
  BY <1>1 DEF PageKnows
<1>3. \A n \in 1 .. Len(page[r].all) : Stored(page[r].all[n])'
  BY <1>1 DEF PageKnows, Stored
<1>4. revision' # None
  BY <1>2, ImportAssumption
<1>5. ASSUME SameResults(r)' PROVE Listing(page[r].kind)' = page[r].all
  <2>1. page[r].rev = revision' /\ (page[r].kind = "matches" => page[r].prof = profile'.rev)
    BY <1>5 DEF SameResults
  <2>2. revision' = revision
    BY <1>1, <1>2, <2>1
  <2>3. page[r].kind = "matches" => profile'.rev = profile.rev
    BY <1>1, <1>2, <2>1
  <2>4. SameResults(r)
    BY <2>1, <2>2, <2>3 DEF SameResults
  <2>5. Listing(page[r].kind) = page[r].all
    BY <1>1, <2>4 DEF PageKnows
  <2>6. /\ jobs' = jobs
        /\ JobsListing' = JobsListing /\ (page[r].kind = "matches" => MatchesListing' = MatchesListing)
    BY <1>2, <2>2, <2>3, ListingSame
  <2> QED
    BY <1>1, <2>5, <2>6 DEF Listing
<1> QED
  BY <1>1, <1>2, <1>3, <1>4, <1>5

-----------------------------------------------------------------------------
(* The steps of the composition *)

\* ReaderInv holds at first.
LEMMA ReaderInitHolds == Init => ReaderInv
<1> SUFFICES ASSUME Init PROVE ReaderInv
  OBVIOUS
<1>1. ImportInv
  BY ImportInitHolds DEF Init
<1>2. <<>> \in Seq(Ids)
  BY EmptySeq
<1>3. ReaderTypes
  BY <1>2 DEF Init, ReaderTypes, NoPage
<1>4. ASSUME NEW r \in Readers PROVE PageKnows(r)
  BY DEF Init, NoPage, PageKnows
<1> QED
  BY <1>1, <1>3, <1>4 DEF ReaderInv

\* An import leaves the pages of a student alone: its revision outdates their cursor.
LEMMA ImportKeepsPages ==
    ASSUME ReaderInv, ImportNext, UNCHANGED readerVars PROVE ReaderInv'
<1>1. ImportInv' /\ profile' = profile /\ page' = page
  BY ImportStepKeeps DEF ReaderInv, readerVars
<1>2. PICK i \in Importers : ImportStep(i)
  BY DEF ImportNext
<1>3. /\ \A k \in JobKeys : jobs[k] # None => jobs'[k] # None /\ jobs'[k].id = jobs[k].id
      /\ revision # None => revision' \in Nat /\ revision <= revision'
      /\ revision' = revision /\ revision # None => jobs' = jobs
  <2>1. CASE WriteImport(i)
    <3>1. /\ \A k \in JobKeys : jobs[k] # None => jobs'[k] # None /\ jobs'[k].id = jobs[k].id
          /\ revision' \in 0 .. MaxRevision /\ Revision' = revision' /\ Revision <= Revision'
          /\ Revision' = Revision => jobs' = jobs
      BY <2>1, WriteMovesOn DEF ReaderInv
    <3>2. revision # None => Revision = revision
      BY DEF Revision
    <3> QED
      BY <3>1, <3>2
  <2>2. CASE ~WriteImport(i)
    <3>1. UNCHANGED <<revision, jobs>>
      BY <1>2, <2>2 DEF ImportStep, StartImport, ReadRevision, ReadRows, ReadVectors, Embed, AbandonImport
    <3>2. revision # None => revision \in Nat
      BY ImportAssumption DEF ReaderInv, ImportInv, ImportTypes
    <3> QED
      BY <3>1, <3>2
  <2> QED
    BY <2>1, <2>2
<1>4. profile.rev \in Nat /\ ReaderTypes'
  BY <1>1 DEF ReaderInv, ReaderTypes
<1>5. ASSUME NEW r \in Readers PROVE PageKnows(r)'
  BY <1>1, <1>3, <1>4, PageStill
<1> QED
  BY <1>1, <1>4, <1>5 DEF ReaderInv

\* So does a new or deleted profile, by its own revision.
LEMMA ProfileKeepsPages ==
    ASSUME ReaderInv, SaveProfile \/ EmbeddingMoves \/ DeleteProfile PROVE ReaderInv'
<1>1. UNCHANGED <<revision, jobs, imp>> /\ page' = page
  BY DEF SaveProfile, EmbeddingMoves, DeleteProfile, importVars
<1>2. ImportInv'
  BY <1>1, ImportStepKeeps DEF ReaderInv, importVars
<1>3. /\ ReaderTypes' /\ profile.rev \in Nat /\ profile'.rev \in Nat /\ profile.rev <= profile'.rev
      /\ profile'.rev = profile.rev => profile'.content = profile.content
  BY <1>1 DEF ReaderInv, ReaderTypes, SaveProfile, EmbeddingMoves, DeleteProfile
<1>4. revision # None => revision \in Nat
  BY ImportAssumption DEF ReaderInv, ImportInv, ImportTypes
<1>5. ASSUME NEW r \in Readers PROVE PageKnows(r)'
  BY <1>1, <1>3, <1>4, PageStill
<1> QED
  BY <1>2, <1>3, <1>5 DEF ReaderInv

\* A step of one listing: the others are left alone.
LEMMA ListingKeeps ==
    ASSUME ReaderInv, NEW r \in Readers, UNCHANGED <<importVars, profile>>,
           NEW b \in [pc : {"idle", "paging", "done"}, kind : {"jobs", "matches"}, rev : Nat, prof : Nat,
                      got : Seq(Ids), all : Seq(Ids), opened : {"none", "found", "missing"}],
           page' = [page EXCEPT ![r] = b], PageKnows(r)'
    PROVE  ReaderInv'
<1>1. ImportInv' /\ UNCHANGED <<revision, jobs>>
  BY ImportStepKeeps DEF ReaderInv, importVars
<1>2. ReaderTypes' /\ profile.rev \in Nat /\ (revision # None => revision \in Nat)
  BY ImportAssumption DEF ReaderInv, ReaderTypes, ImportInv, ImportTypes
<1>3. ASSUME NEW q \in Readers, q # r PROVE PageKnows(q)'
  <2>1. page'[q] = page[q]
    BY <1>3 DEF ReaderInv, ReaderTypes
  <2> QED
    BY <1>1, <1>2, <2>1, PageStill
<1> QED
  BY <1>1, <1>2, <1>3 DEF ReaderInv

\* A page of the listing of now is collected
LEMMA CollectKeeps ==
    ASSUME ReaderInv, NEW r \in Readers, UNCHANGED <<importVars, profile>>,
           NEW p \in [pc : {"idle", "paging", "done"}, kind : {"jobs", "matches"}, rev : Nat, prof : Nat,
                      got : Seq(Ids), all : Seq(Ids), opened : {"none", "found", "missing"}],
           NEW listing, listing = Listing(p.kind), p.all = listing, p.opened # "missing",
           MatchReady(p.kind), revision # None, p.rev <= revision, p.prof <= profile.rev,
           Len(p.got) <= Len(p.all), p.got = SubSeq(p.all, 1, Len(p.got)),
           Collect(r, p, listing)
    PROVE  ReaderInv'
<1> DEFINE got == p.got \o PageOf(listing, Len(p.got))
           b == [p EXCEPT !.got = got, !.pc = IF Len(got) < Len(listing) THEN "paging" ELSE "done"]
<1>1. /\ listing \in Seq(Ids) /\ \A n \in 1 .. Len(listing) : Stored(listing[n])
  BY ListingIsOfRows DEF ReaderInv, ReaderTypes, MatchReady
<1>2. Len(p.got) \in 0 .. Len(listing)
  BY <1>1
<1>3. /\ got \in Seq(Ids) /\ Len(got) <= Len(listing) /\ got = SubSeq(listing, 1, Len(got))
      /\ ~(Len(got) < Len(listing)) => got = listing
      /\ Len(got) \in Nat
  <2>1. p.got = SubSeq(listing, 1, Len(p.got))
    OBVIOUS
  <2>2. PICK n \in 0 .. Len(listing) : n = Len(p.got)
    BY <1>2
  <2>3. got = SubSeq(listing, 1, n) \o PageOf(listing, n)
    BY <2>1, <2>2
  <2> HIDE DEF got
  <2>4. PICK m \in 0 .. Len(listing) :
           /\ got = SubSeq(listing, 1, m) /\ got \in Seq(Ids) /\ Len(got) = m
           /\ m = Len(listing) => got = listing
    BY <1>1, <2>2, <2>3, PagesJoin
  <2>5. Len(listing) \in Nat
    BY <1>1
  <2> QED
    BY <2>4, <2>5
<1> HIDE DEF got
<1>4. /\ b \in [pc : {"idle", "paging", "done"}, kind : {"jobs", "matches"}, rev : Nat, prof : Nat,
                got : Seq(Ids), all : Seq(Ids), opened : {"none", "found", "missing"}]
      /\ b.got = got /\ b.all = listing /\ b.kind = p.kind /\ b.rev = p.rev /\ b.prof = p.prof
      /\ b.opened = p.opened
      /\ b.pc = "done" => got = listing
  BY <1>3
<1>5. page' = [page EXCEPT ![r] = b] /\ UNCHANGED <<revision, jobs>>
  BY DEF Collect, got, importVars
<1> HIDE DEF b
<1>6. page'[r] = b
  BY <1>5 DEF ReaderInv, ReaderTypes
<1>7. PageKnows(r)'
  <2>1. \A n \in 1 .. Len(listing) : Stored(listing[n])'
    BY <1>1, <1>5 DEF Stored
  <2>2. /\ JobsListing' = JobsListing /\ MatchesListing' = MatchesListing /\ UNCHANGED <<revision, jobs, profile>>
    BY <1>5, ListingSame
  <2>3. Listing(page[r].kind)' = listing
    BY <1>4, <1>5, <1>6, <2>2 DEF Listing
  <2> QED
    <3>1. /\ page'[r].got = got /\ page'[r].all = listing /\ page'[r].rev = p.rev /\ page'[r].prof = p.prof
          /\ page'[r].opened = p.opened
          /\ page'[r].pc = "done" => got = listing
      BY <1>4, <1>6
    <3>2. \A n \in 1 .. Len(page'[r].all) : Stored(page[r].all[n])'
      BY <2>1, <3>1 DEF Stored
    <3>3. revision' # None /\ page'[r].rev <= revision' /\ page'[r].prof <= profile'.rev
      BY <1>5, <3>1
    <3> QED
      BY <1>3, <2>3, <3>1, <3>2, <3>3 DEF PageKnows
<1> QED
  BY <1>4, <1>5, <1>7, ListingKeeps

\* A first page is the head of the listing, and the cursor names it.
LEMMA FirstPageKeeps ==
    ASSUME ReaderInv, NEW r \in Readers, FirstPage(r) PROVE ReaderInv'
<1>1. PICK kind \in {"jobs", "matches"} :
         /\ MatchReady(kind)
         /\ Collect(r, [NoPage EXCEPT !.kind = kind, !.rev = revision, !.prof = profile.rev,
                                      !.all = Listing(kind)], Listing(kind))
  BY DEF FirstPage
<1> DEFINE listing == Listing(kind)
           p == [NoPage EXCEPT !.kind = kind, !.rev = revision, !.prof = profile.rev, !.all = listing]
<1>2. revision # None /\ revision \in Nat /\ profile.rev \in Nat /\ UNCHANGED <<importVars, profile>>
  BY ImportAssumption DEF FirstPage, ReaderInv, ReaderTypes, ImportInv, ImportTypes
<1>3. kind = "matches" => profile.content \in Contents
  BY <1>1 DEF MatchReady, ReaderInv, ReaderTypes
<1>4. listing \in Seq(Ids)
  BY <1>3, ListingIsOfRows DEF ReaderInv
<1>5. Collect(r, p, listing)
  BY <1>1
<1> HIDE DEF listing
<1>6. <<>> \in Seq(Ids) /\ Len(<<>>) = 0 /\ SubSeq(listing, 1, 0) = <<>>
  BY EmptySeq, SubSeqEmpty
<1>7. p \in [pc : {"idle", "paging", "done"}, kind : {"jobs", "matches"}, rev : Nat, prof : Nat,
             got : Seq(Ids), all : Seq(Ids), opened : {"none", "found", "missing"}]
  BY <1>2, <1>4, <1>6 DEF NoPage
<1>8. /\ p.kind = kind /\ p.all = listing /\ p.opened # "missing" /\ p.rev = revision /\ p.prof = profile.rev
      /\ Len(p.got) <= Len(p.all) /\ p.got = SubSeq(p.all, 1, Len(p.got))
  <2>1. /\ p.got = <<>> /\ p.all = listing /\ p.kind = kind /\ p.opened = "none" /\ p.rev = revision
        /\ p.prof = profile.rev
    BY DEF NoPage
  <2> HIDE DEF p
  <2>2. Len(listing) \in Nat
    BY <1>4
  <2> QED
    BY <1>6, <2>1, <2>2
<1>9. listing = Listing(p.kind) /\ MatchReady(p.kind)
  BY <1>1, <1>8 DEF listing
<1> HIDE DEF p
<1> QED
  BY <1>2, <1>5, <1>7, <1>8, <1>9, CollectKeeps

\* A next page goes on where the cursor says, in the same listing, or the student is told.
LEMMA NextPageKeeps ==
    ASSUME ReaderInv, NEW r \in Readers, NextPage(r) PROVE ReaderInv'
<1>1. /\ page[r].pc = "paging" /\ SameResults(r) /\ MatchReady(page[r].kind)
      /\ Collect(r, page[r], Listing(page[r].kind)) /\ UNCHANGED <<importVars, profile>>
  BY DEF NextPage
<1>2. page[r] \in [pc : {"idle", "paging", "done"}, kind : {"jobs", "matches"}, rev : Nat, prof : Nat,
                   got : Seq(Ids), all : Seq(Ids), opened : {"none", "found", "missing"}]
  BY DEF ReaderInv, ReaderTypes
<1>3. /\ Len(page[r].got) <= Len(page[r].all) /\ page[r].got = SubSeq(page[r].all, 1, Len(page[r].got))
      /\ revision # None /\ page[r].rev <= revision /\ page[r].prof <= profile.rev
      /\ Listing(page[r].kind) = page[r].all /\ page[r].opened # "missing"
  BY <1>1 DEF ReaderInv, PageKnows
<1> QED
  BY <1>1, <1>2, <1>3, CollectKeeps

\* A job of the listing that is opened is found: it is stored still.
LEMMA OpenJobKeeps ==
    ASSUME ReaderInv, NEW r \in Readers, OpenJob(r) PROVE ReaderInv'
<1>1. PICK n \in DOMAIN page[r].got :
        page' = [page EXCEPT ![r].opened =
                    IF \E k \in JobKeys : jobs[k] # None /\ jobs[k].id = page[r].got[n]
                    THEN "found" ELSE "missing"]
  BY DEF OpenJob
<1>2. /\ page[r] \in [pc : {"idle", "paging", "done"}, kind : {"jobs", "matches"}, rev : Nat, prof : Nat,
                      got : Seq(Ids), all : Seq(Ids), opened : {"none", "found", "missing"}]
      /\ page[r].pc \in {"paging", "done"} /\ UNCHANGED <<importVars, profile>>
  BY DEF ReaderInv, ReaderTypes, OpenJob
<1>3. PageKnows(r) /\ UNCHANGED <<revision, jobs>>
  BY <1>2 DEF ReaderInv, importVars
<1>4. \E k \in JobKeys : jobs[k] # None /\ jobs[k].id = page[r].got[n]
  <2>1. /\ Len(page[r].got) <= Len(page[r].all) /\ page[r].got = SubSeq(page[r].all, 1, Len(page[r].got))
        /\ \A l \in 1 .. Len(page[r].all) : Stored(page[r].all[l])
    BY <1>2, <1>3 DEF PageKnows
  <2>2. PICK m \in Nat : m = Len(page[r].got)
    BY <1>2
  <2>3. n \in 1 .. m /\ m <= Len(page[r].all) /\ Len(page[r].all) \in Nat
    BY <1>1, <1>2, <2>1, <2>2
  <2>4. \A l \in 1 .. m : page[r].all[l] \in Ids
    BY <1>2, <2>3, ElementOfSeq
  <2>5. SubSeq(page[r].all, 1, m)[n] = page[r].all[1 + n - 1]
    BY <2>2, <2>3, <2>4, SubSeqProperties
  <2>6. page[r].got[n] = page[r].all[n]
    BY <2>1, <2>2, <2>3, <2>5
  <2> QED
    BY <2>1, <2>3, <2>6 DEF Stored
<1> DEFINE b == [page[r] EXCEPT !.opened = "found"]
<1>5. /\ b \in [pc : {"idle", "paging", "done"}, kind : {"jobs", "matches"}, rev : Nat, prof : Nat,
                got : Seq(Ids), all : Seq(Ids), opened : {"none", "found", "missing"}]
      /\ b.pc = page[r].pc /\ b.kind = page[r].kind /\ b.rev = page[r].rev /\ b.prof = page[r].prof
      /\ b.got = page[r].got /\ b.all = page[r].all /\ b.opened = "found"
  BY <1>2
<1>6. page' = [page EXCEPT ![r] = b] /\ page'[r] = b
  BY <1>1, <1>4 DEF ReaderInv, ReaderTypes
<1> HIDE DEF b
<1>7. PageKnows(r)'
  <2>1. JobsListing' = JobsListing /\ MatchesListing' = MatchesListing
    BY <1>2, <1>3, ListingSame
  <2>2. Listing(page[r].kind)' = Listing(page[r].kind)
    BY <1>3, <1>5, <1>6, <2>1 DEF Listing
  <2>3. SameResults(r)' = SameResults(r)
    BY <1>2, <1>3, <1>5, <1>6 DEF SameResults
  <2>4. \A l \in 1 .. Len(page'[r].all) : Stored(page[r].all[l])'
    BY <1>2, <1>3, <1>5, <1>6 DEF PageKnows, Stored
  <2>5. /\ Len(page[r].got) <= Len(page[r].all) /\ page[r].got = SubSeq(page[r].all, 1, Len(page[r].got))
        /\ page[r].pc = "done" => page[r].got = page[r].all
    BY <1>2, <1>3 DEF PageKnows
  <2>6. revision' # None /\ page'[r].rev <= revision' /\ page'[r].prof <= profile'.rev
    BY <1>2, <1>3, <1>5, <1>6 DEF PageKnows
  <2>7. SameResults(r) => Listing(page[r].kind) = page[r].all
    BY <1>2, <1>3 DEF PageKnows
  <2> QED
    BY <1>5, <1>6, <2>2, <2>3, <2>4, <2>5, <2>6, <2>7 DEF PageKnows
<1> QED
  BY <1>2, <1>5, <1>6, <1>7, ListingKeeps

\* Starting again, or leaving, forgets the pages.
LEMMA LeavingKeeps ==
    ASSUME ReaderInv, NEW r \in Readers, Restart(r) \/ Leave(r) PROVE ReaderInv'
<1>1. page' = [page EXCEPT ![r] = NoPage] /\ UNCHANGED <<importVars, profile>>
  BY DEF Restart, Leave
<1>2. NoPage \in [pc : {"idle", "paging", "done"}, kind : {"jobs", "matches"}, rev : Nat, prof : Nat,
                  got : Seq(Ids), all : Seq(Ids), opened : {"none", "found", "missing"}]
  <2>1. <<>> \in Seq(Ids)
    BY EmptySeq
  <2> QED
    BY <2>1 DEF NoPage
<1>3. page'[r] = NoPage
  BY <1>1 DEF ReaderInv, ReaderTypes
<1>4. PageKnows(r)'
  BY <1>3 DEF PageKnows, NoPage
<1> QED
  BY <1>1, <1>2, <1>4, ListingKeeps

-----------------------------------------------------------------------------
\* ReaderInv is an invariant of imports and listings together: a page knows the listing of
\* now for as long as the revisions it carries are those of now.
THEOREM ReadersInductive == Spec => []ReaderInv
<1>1. ReaderInv /\ [Next]_vars => ReaderInv'
  <2> SUFFICES ASSUME ReaderInv, [Next]_vars PROVE ReaderInv'
    OBVIOUS
  <2>1. CASE ImportNext /\ UNCHANGED readerVars
    BY <2>1, ImportKeepsPages
  <2>2. CASE SaveProfile \/ EmbeddingMoves \/ DeleteProfile
    BY <2>2, ProfileKeepsPages
  <2>3. CASE \E r \in Readers : ReaderStep(r)
    <3>1. PICK r \in Readers : ReaderStep(r)
      BY <2>3
    <3> QED
      BY <3>1, FirstPageKeeps, NextPageKeeps, OpenJobKeeps, LeavingKeeps DEF ReaderStep
  <2>4. CASE UNCHANGED vars
    <3>1. UNCHANGED <<importVars, profile, page, revision, jobs>>
      BY <2>4 DEF vars, readerVars, importVars
    <3>2. ImportInv'
      BY <3>1, ImportStepKeeps DEF ReaderInv
    <3>3. ReaderTypes' /\ profile.rev \in Nat /\ (revision # None => revision \in Nat)
      BY <3>1, ImportAssumption DEF ReaderInv, ReaderTypes, ImportInv, ImportTypes
    <3>4. \A r \in Readers : PageKnows(r)'
      BY <3>1, <3>3, PageStill
    <3> QED
      BY <3>2, <3>3, <3>4 DEF ReaderInv
  <2> QED
    BY <2>1, <2>2, <2>3, <2>4 DEF Next
<1> QED
  BY ReaderInitHolds, <1>1, PTL DEF Spec

\* A student who reaches the last page without RESULTS_CHANGED has collected the listing of
\* the first page, and a job of it can be opened, whatever imports, saves and embeddings
\* commit between the pages (_consistent_snapshot, _revision, get_job).
THEOREM OneListing == Spec => []PagesAgree
<1>1. ReaderInv => PagesAgree
  BY DEF ReaderInv, PageKnows, PagesAgree
<1> QED
  BY ReadersInductive, <1>1, PTL
=============================================================================
