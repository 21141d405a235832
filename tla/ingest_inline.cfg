\* Redis is unavailable: the web process ingests the upload itself.
CONSTANTS
    N = 1
    BatchSize = 1
    SmallMax = 0
    LargeMin = 2
    MaxTries = 2
    Runs = {r1}
    Modes = {"inline"}
    Crashes = TRUE
    Overlap = FALSE
    Timeouts = FALSE
    Deletes = FALSE
    Cascade = TRUE
SPECIFICATION Spec
INVARIANTS
    ReadyAccountsForEveryChunk
CHECK_DEADLOCK FALSE
