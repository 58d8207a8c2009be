CONSTANTS
    Pages = {p1}
    Downloads = {d1, d2}
    Installed <- MCInstalled
    Releases <- MCReleases
    None = None
SPECIFICATION Spec
SYMMETRY Symmetry
CHECK_DEADLOCK FALSE
PROPERTY HidesOnlyTheDialog
