SPECIFICATION Spec
CONSTANTS
    Tasks = {t1, t2}
    Inodes = {a, b}
    Handles = {h1, h2}
    Ops = {"open", "read", "write", "flush", "release", "set_len", "getattr"}
    None = None
INVARIANTS TypeOK OneWriter SettledWhenIdle DeadlocksHoldTables
PROPERTY UnwrapsRaceRelease
CONSTRAINT NoneDied
SYMMETRY Symmetry
CHECK_DEADLOCK FALSE
