\* Two workers: one may be asked to stop while its thread runs on, and the other
\* starts the same job again.
CONSTANTS
    N = 2
    BatchSize = 1
    SmallMax = 0
    LargeMin = 2
    MaxTries = 3
    Runs = {r1, r2}
    Modes = {"arq"}
    Crashes = FALSE
    Overlap = TRUE
    Timeouts = FALSE
    Deletes = FALSE
    Cascade = TRUE
SPECIFICATION FairSpec
INVARIANTS
    NoSilentLimbo
PROPERTIES
    QueuedSettles
CHECK_DEADLOCK FALSE
