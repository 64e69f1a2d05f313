SPECIFICATION Spec
CONSTANTS
    B = 3
    Overhead = 2
    Torn = Torn
    Bytes = {0, 1}
    MaxLen = 7
    Use = {"flush_inside"}
PROPERTY NextBlockKept
