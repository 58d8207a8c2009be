CONSTANTS
    LastPage = 2
    MaxPage = 3
    Calls = {c1, c2}
    MaxRestarts = 1
SPECIFICATION FairSpec
INVARIANTS
    TypeOK
    LoadingIsOneRequest
    NoHoles
PROPERTIES
    ImplementsCacheBox
    ImplementsPager
    CallsReturn
