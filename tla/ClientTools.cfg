SPECIFICATION FairSpec
CONSTANTS
    a = a
    b = b
    s1 = s1
    s2 = s2
    s3 = s3
    Agents = {a, b}
    Names = {n}
    Socks = {s1, s2, s3}
    SockAgent <- MCSockAgent
    NoTool = NoTool
    Calls = {c1, c2}
    Drops = 2
CHECK_DEADLOCK FALSE
INVARIANTS
    NoOrphanedWait
    AnswerIsOwn
PROPERTIES
    CallsEnd
