\* The user deletes the document at any moment of the upload, of the runs and of their
\* crashes, shutdowns and timeouts, with a queue and without one.
CONSTANTS
    N = 1
    BatchSize = 1
    SmallMax = 0
    LargeMin = 2
    MaxTries = 2
    Runs = {r1, r2}
    Modes = {"arq", "inline"}
    Crashes = TRUE
    Overlap = TRUE
    Timeouts = TRUE
    Deletes = TRUE
    Cascade = TRUE
SPECIFICATION FairSpec
PROPERTIES
    DeletedIsFinal
    DeletedSettles
CHECK_DEADLOCK FALSE
