\* One worker, crashes at every step, arq's redelivery, swallowed BM25 failures.
CONSTANTS
    N = 5
    BatchSize = 2
    SmallMax = 2
    LargeMin = 4
    MaxTries = 3
    Runs = {r1}
    Modes = {"arq"}
    Crashes = TRUE
    Overlap = FALSE
    Timeouts = FALSE
    Deletes = FALSE
    Cascade = TRUE
SPECIFICATION FairSpec
INVARIANTS
    TypeOK
    ReadyAccountsForEveryChunk
    CheckpointSound
    LexicalWithinVector
    CompletedWithinTotal
    NoSilentLimbo
PROPERTIES
    LivesAsPromised
    QueuedSettles
CHECK_DEADLOCK FALSE
