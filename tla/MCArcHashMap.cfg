SPECIFICATION Spec
CONSTANTS
    Keys = {k1, k2}
    Holders = {h1, h2, h3, h4}
    Vals = {v1, v2, v3, v4}
    NoVal = NoVal
    NoKey = NoKey
    NoHolder = NoHolder
SYMMETRY Symmetry
INVARIANTS TypeOK SameLock RcExact NoResidue
PROPERTY KeyedLocking
