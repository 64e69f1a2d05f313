SPECIFICATION Spec
CONSTANTS
    Inodes = {i1}
    MaxHandle = 2
    BlockSize = 2
    Bytes = {0, 1}
    Env = {"shrink_open"}
    Gone = Gone
    NoAttr = NoAttr
    NoCtx = NoCtx
    Damaged = Damaged
PROPERTY SetLenExact
