\* Two concurrent imports with two model versions, or one beside a student who pages.
SPECIFICATION Spec
CONSTANTS
    Importers = {i1, i2}
    JobKeys = {1, 2}
    Files <- BatchFiles
    Texts = {"x", "y"}
    Versions = {v1, v2}
    MaxBatch = 2
    MaxReqs = 2
    MaxRevision = 2
    None = None
    Readers = {r1}
    PageSize = 1
    EmbeddingVersion = v1
    Contents = {{"x"}, {"y"}}
    Score <- CloseTexts
    MaxProfileRev = 2
CONSTRAINT OneOrTheOther
SYMMETRY ImporterSymmetry
INVARIANTS
    VectorsComplete
    PagesAgree
PROPERTIES
    ImportApplies
