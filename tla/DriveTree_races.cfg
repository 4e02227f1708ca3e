\* Two requests of any kind, at any of two nested paths or the root, from any tree.
CONSTANTS
    Requests = {r1, r2}
    Paths <- NestedPaths
    MAX_RETRIES = 1
    MaxChanges = 2
SYMMETRY RequestSymmetry
SPECIFICATION Spec
INVARIANTS
    TypeOK
    AnswersWereTrue
    CreatedMeansMade
    ChangesAreAudited
    DeletesOnlyWhatItSaw
