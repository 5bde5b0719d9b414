CONSTANTS
    owner = owner
    ag = ag
    t1 = t1
    t2 = t2
    r1 = r1
    r2 = r2
    r3 = r3
    so = so
    sa = sa
    m1 = m1
    Threads = {t1}
    Agents = {owner, ag}
    Owner = owner
    NoAgent = NoAgent
    Requests = {r1, r2, r3}
    Socks = {so, sa}
    SocketAgent <- MCSocketAgent
    Msgs = {}
    Cap <- MCCap
    Stored <- MCStoredOne
    NoFile = NoFile
    None = None
SPECIFICATION FairSpec
CHECK_DEADLOCK FALSE
PROPERTY WaitersServed
