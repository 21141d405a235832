\* Two requests about a document of two chunks while it is ingested and deleted, with
\* a cache of one entry for the keys of two models.
CONSTANTS
    Requests = {r1, r2}
    Chunks = {c1, c2}
    Questions = {q1}
    Models = {gemini, offline}
    TopK = 1
    Thin = 2
    MaxTokens = 2
    MaxEntries = 1
SPECIFICATION FairSpec
INVARIANTS
    TypeOK
    CacheBounded
    OwnAnswer
    DeletedNotServed
    StreamWellFormed
PROPERTIES
    Answered
CHECK_DEADLOCK FALSE
