\* Two recordings a page apart, two tags, two runs of an action, one mishap.
SPECIFICATION Spec
CONSTANTS
    Recordings = {1, 2}
    Tags = {x, y}
    Filters = {"all", "some"}
    Matching <- MCMatching
    PageSize = 1
    Concurrency = 2
    MaxRuns = 2
    MaxMishaps = 1
SYMMETRY Symmetric
CONSTRAINT AFew
INVARIANTS RowsAreCurrent
PROPERTIES StripsForACause
CHECK_DEADLOCK FALSE
