CONSTANTS
    Downloads = {d1, d2}
    Checkouts = {c1, c2}
    None = None
SPECIFICATION FairSpec
INVARIANTS
    TypeOK
    ButtonIsRight
    SavedIsWhole
    NothingSavedUnpaid
PROPERTIES
    ImplementsPurchase
    SpinnerEnds
