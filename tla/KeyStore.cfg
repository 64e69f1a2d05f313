SPECIFICATION KeySpec
CONSTANTS
    DataDirs = {d1, d2}
    Passwords = {p1, p2}
    Masters = {m1, m2, m3}
    Env = {"crash"}
    Absent = Absent
    Torn = Torn
INVARIANTS KeyTypeOK MasterKept MasterServed
