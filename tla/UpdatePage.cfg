CONSTANTS
    Pages = {p1, p2}
    Downloads = {d1, d2, d3}
    Installed <- MCInstalled
    Releases <- MCReleases
    None = None
SPECIFICATION Spec
SYMMETRY Symmetry
CHECK_DEADLOCK FALSE
INVARIANTS
    TypeOK
    NoOrphanDialog
    CancelInTimeIsKept
