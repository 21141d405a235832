\* A delete request overtakes the run of a worker.
CONSTANTS
    N = 1
    BatchSize = 1
    SmallMax = 0
    LargeMin = 2
    MaxTries = 2
    Runs = {r1}
    Modes = {"arq"}
    Crashes = TRUE
    Overlap = FALSE
    Timeouts = FALSE
    Deletes = TRUE
    Cascade = TRUE
SPECIFICATION Spec
PROPERTIES
    NothingStoredAfterDelete
CHECK_DEADLOCK FALSE
