SPECIFICATION Spec
CONSTANTS
    Inodes = {r, a, b}
    Root = r
    Names = {n, m}
    Ops = {"create", "remove", "rename", "rename_over"}
    Env = {"crash", "fault"}
    None = None
INVARIANTS TypeOK TreeConsistent OneName
CHECK_DEADLOCK FALSE
