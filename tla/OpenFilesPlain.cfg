SPECIFICATION Spec
CONSTANTS
    Inodes = {i1}
    MaxHandle = 3
    BlockSize = 2
    Bytes = {0, 1}
    Env = {}
    Gone = Gone
    NoAttr = NoAttr
    NoCtx = NoCtx
    Damaged = Damaged
INVARIANTS TypeOK NoStaleRegistration NoPanic ReadersFresh
PROPERTY PlainFiles
