\* A worker is asked to stop, its thread runs on, and a second worker embeds the same
\* document from the same checkpoint.
CONSTANTS
    N = 3
    BatchSize = 1
    SmallMax = 0
    LargeMin = 2
    MaxTries = 2
    Runs = {r1, r2}
    Modes = {"arq"}
    Crashes = TRUE
    Overlap = TRUE
    Timeouts = FALSE
    Deletes = FALSE
    Cascade = TRUE
SPECIFICATION Spec
INVARIANTS
    CheckpointSound
SYMMETRY RunSymmetry
CHECK_DEADLOCK FALSE
