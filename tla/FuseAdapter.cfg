SPECIFICATION Spec
CONSTANTS
    Inodes = {r, a, b}
    Root = r
    Names = {n, m}
    Users <- MCUsers
    Owner <- MCOwner
    Modes <- MCModes
    Handles = {h1, h2}
    SuidSupport = TRUE
    None = None
INVARIANT TypeOK
PROPERTIES DirectoryRules SetIdRule RefusalEffects WritersLost
VIEW View
SYMMETRY Symmetry
CONSTRAINT Bound
