\* StudioGraph: two runs on one thread, three reviewers, four ways to start.
SPECIFICATION Spec
CONSTANTS
    NoVariant = NoVariant
    Contexts <- MCContexts
    Threads <- MCThreads
    MaxTries = 2
    MaxTurns = 2
    Budget = 2
    Costs = {1}
    Order <- MCOrder
    Devil = "devil"
    MinReviewers = 2
    MaxReviewers = 3
    Ratings = {0, 1, 5}
    Threshold = 2
    Selections <- MCSelections
    Papers = {"paper"}
    Sections = {"abstract"}
    Variants = {"v1", "v2"}
    MaxRuns = 2
    MaxAsks = 2
    Starts <- MCStarts
INVARIANTS
    TypeOK
    RoundtableWhole
    FilesRan
PROPERTIES
    ScoresOwnRun
    Pauses
CHECK_DEADLOCK FALSE
