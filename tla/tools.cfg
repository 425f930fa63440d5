\* Two pages of two listings; descriptions of four lines; jobs of three requirements.
SPECIFICATION MCSpec
CONSTANTS
    Options <- FetchOptions
    Listings <- DefectListings
    PageSize = 2
    MaxRetries = 1
    EnrichLimit = 1
    RawLines <- DescriptionLines
    MaxLines = 4
    MaxRequirements = 3
    MaxListings = 2
    Absent = Absent
    Jobs = {1, 2}
    Texts <- TextsWritten
    Norm <- Folded
    Alternatives <- ChoiceLists
    Sim <- Closeness
    Batches <- TwoJobs
    Missing <- StaleTexts
INVARIANTS
    KeepsWhatItHas
    CleanRefusals
    ScanMeetsReference
    ScoringsAgree
PROPERTY FetchEnds
