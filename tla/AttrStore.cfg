SPECIFICATION Spec
CONSTANTS
    Tasks = {t1, t2, t3}
    Values = {c1, c2, c3}
    Fields = {perm, uid}
    Settings = {x, y}
    None = None
    Gone = Gone
INVARIANTS TypeOK ServesStored UpdatesKept
PROPERTY SharedWhileLive
SYMMETRY Symmetry
CONSTRAINT NoRaceYet
