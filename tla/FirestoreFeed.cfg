CONSTANTS
    w1 = w1
    w2 = w2
    Wallpapers = {w1, w2}
    MaxRev = 1
    Catalogue <- MCCatalogue
    Buttons = {b1}
    Mount = Mount
    Pull = Pull
    MaxRestarts = 1
SPECIFICATION FairSpec
INVARIANTS
    TypeOK
    ShimmerHasOwner
PROPERTIES
    ImplementsCacheBox
    RefreshIgnoresCache
    LoadingEnds
    PullReturns
