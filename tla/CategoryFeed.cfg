CONSTANTS
    Topics = {t1, t2}
    Collections = {c1}
    Stocked = {t1, c1}
    LastPage = 2
    Calls = {l1, l2, l3}
    None = None
SPECIFICATION FairSpec
INVARIANTS
    TypeOK
    OneLoadPerCategory
    ResultsAreOfTheQuery
PROPERTIES
    ImplementsPager
    ShimmerEnds
