SPECIFICATION Spec
CONSTANTS
    Inodes = {i1}
    MaxHandle = 2
    BlockSize = 2
    Bytes = {0, 1}
    Env = {"fault", "crash", "shrink_open", "unlink_open"}
    Gone = Gone
    NoAttr = NoAttr
    NoCtx = NoCtx
    Damaged = Damaged
INVARIANT Registered
PROPERTIES  CrashSafeWhenClosed
