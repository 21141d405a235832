\* One page of up to four characters, cut by sentences, or by windows or paragraphs, and then
\* by tokens.
CONSTANTS
    Pages <- PageShapes
    MaxPages = 1
    Sizes = {4}
    Overlaps = {0, 1}
    Budgets = {4}
    Tokenizers <- TokenizersHere
SPECIFICATION Spec
INVARIANTS
    ChunkIdsUnique
CHECK_DEADLOCK FALSE
