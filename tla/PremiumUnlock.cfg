CONSTANTS
    Wallpapers = {w1, w2}
    Attempts = {a1, a2}
    None = None
    MaxRestarts = 1
SPECIFICATION FairSpec
INVARIANTS
    TypeOK
    CreditedIsDurable
    PageAgreesWithPrefs
    SettledPaymentUnlocksItsOwn
PROPERTIES
    ImplementsPurchase
    PaidComesUnlocked
