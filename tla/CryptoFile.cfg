SPECIFICATION FileSpec
CONSTANTS
    B = 3
    Overhead = 2
    Torn = Torn
    Bytes = {0, 1}
    MaxLen = 7
    Use = {}
    BytesRead = {0}
INVARIANTS BlocksReadable NothingBehindDirty BufferMatches ReadSound
PROPERTIES ActsAsFile ReadComplete
