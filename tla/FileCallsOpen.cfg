SPECIFICATION Spec
CONSTANTS
    None = None
    Tasks = {t1, t2}
    Inodes = {a}
    Handles = {h1, h2}
    Ops = {"open"}
INVARIANT OnlyOneToWrite
CHECK_DEADLOCK FALSE
