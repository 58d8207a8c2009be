CONSTANTS
    Downloads = {d1}
    Checkouts = {c1}
    None = None
SPECIFICATION FairSpec
PROPERTY CanTryAgain
