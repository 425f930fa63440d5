\* Two requests under way at a time, two keys, three contents, one of them not clean.
SPECIFICATION MCSpec
CONSTANTS
    Keys = {k1, k2}
    Contents = {a, b, d}
    Dirty = {d}
    Reqs = {r1, r2}
    MaxRev = 2
    Waits = 1
    None = None
SYMMETRY RequestSymmetry
INVARIANTS
    AnswersHold
    NoKeyConflict
PROPERTIES
    SavesOnce
    NoBlindOverwrite
    ConflictEndsAttempt
