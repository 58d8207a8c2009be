CONSTANTS
    Ads = {a1, a2}
    MaxPool = 2
    Batches = {b1, b2}
    First = 2
    Tab = 3
    More = 2
    Low = 2
    None = None
SPECIFICATION FairSpec
INVARIANTS
    TypeOK
    PoolIsExact
PROPERTIES
    PreloadingEnds
