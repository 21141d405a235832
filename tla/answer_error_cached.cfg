\* Two requests about a document of two chunks: what the verifier never saw is cached.
CONSTANTS
    Requests = {r1, r2}
    Chunks = {c1, c2}
    Questions = {q1}
    Models = {gemini, offline}
    TopK = 1
    Thin = 2
    MaxTokens = 2
    MaxEntries = 1
SPECIFICATION Spec
SYMMETRY RequestSymmetry
INVARIANT NoErrorCached
CHECK_DEADLOCK FALSE
