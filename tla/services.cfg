\* The agent with three planning steps over two documents of one passage, two chat requests,
\* two registrations, two traced requests, two reading threads, and each function over its
\* own inputs, one part at a time.
CONSTANTS
    AgentDocs = {d1, d2}
    Length = 1
    Searches = {q1}
    Question = q1
    MaxSteps = 3
    AskedWidth = 2
    DefaultWidth = 1
    MaxWidth = 2
    AgentTokens = 1
    Nothing = Nothing
    ChatDocs = {k1}
    ChatRequests = {r1, r2}
    MaxSessions = 2
    MaxMessages = 2
    Emails = {e1, e2}
    Passwords = {p1}
    Providers = {google}
    Identities = {y1}
    Registrants = {g1, g2}
    MaxEvents = 4
    Absent = Absent
    TraceRequests = {t1, t2}
    MaxNesting = 2
    MaxSpans = 4
    Backends = {pgvector, pinecone}
    Default = pgvector
    Threads = {h1, h2}
    MaxBuilds = 3
    Pages <- PageShapes
    MaxPages = 2
    Sizes = {2, 4, 8}
    Overlaps = {0, 1}
    Budgets = {0, 3, 4}
    Tokenizers <- TokenizersHere
    Spans <- SpanShapes
    Indices = {0, 1, 2}
    Windows = {1}
    Lengths = {60, 84, 99, 150, 400}
    MaxTexts = 3
    ContextLimits = {0, 30, 120}
    PromptLimits = {0, 40, 90}
    Overheads = {100, 200}
    Missing = Missing
    CitedTokens <- Tokens
    MaxSentences = 2
    Facts = {x1, x2}
    Within <- Parts
    Vocabulary = {w1}
    MaxChunks = 2
    MaxLines = 2
    Chunks = {a, b, c, d}
    RrfK = 60
    MaxHits = 3
    Tops = {1, 2}
    Grades = {0, 1, 2}
    Weights = {5, 10}
    PoolFactor = 2
    PoolCap = 50
    ReadOrders <- OrdersRead
    ThinThreshold = 2
    WholeCap = 2
    Owners = {u1, u2}
    Ids = {i1, i2, i3, i4}
    DocOf <- ChunkDocs
    Similarity <- ChunkGrades
    Exact = 2
    Wanted = {1, 3}
    ReadCap = 2
    RequestCap = 1
    SinkCap = 2
    Texts = {1, 2}
    Vacant = Vacant
    Corpus = {c1, c2, c3}
    CorpusDoc <- CorpusDocs
    Snippets = {s1, s2}
    MaxRetrieved = 3
    Scores = {20, 40, 90}
    FaithFloor = 55
    OffTopicFloor = 30
    PartialFloor = 50
    MetricFloors <- Floors
    MaxRates <- Ceilings
    MaxReport = 2
    Lexicon = {w1, w2}
    TopSentences = 2
    Interval = 3
    MaxRetries = 2
    CallTimes = {0, 4}
    i1 = i1
    i2 = i2
    i3 = i3
    i4 = i4
    f1 = f1
    f2 = f2
    c1 = c1
    c2 = c2
    c3 = c3
    x1 = x1
    x2 = x2
SPECIFICATION Spec
INVARIANTS
    ServicesTypeOK
    AgentBounded
    NeverWorseThanRag
    EvidenceOnce
    AgentStream
    BlanksBounded
    TitledByUser
    OneAccountPerIdentity
    GrantsLogged
    OneTreePerRequest
    OneClientPerBackend
    ChunksSound
    ContextSound
    VerdictsEarned
    RetrievalSound
    StoresAlike
    EvaluationSound
PROPERTIES
    AgentEnds
CHECK_DEADLOCK FALSE
