CONSTANTS
    owner = owner
    ag = ag
    t1 = t1
    t2 = t2
    r1 = r1
    r2 = r2
    r3 = r3
    so = so
    sa = sa
    m1 = m1
    Threads = {t1, t2}
    Agents = {owner, ag}
    Owner = owner
    NoAgent = NoAgent
    Requests = {r1, r2, r3}
    Socks = {so, sa}
    SocketAgent <- MCSocketAgent
    Msgs = {m1}
    Cap <- MCCap
    Stored <- MCStored
    NoFile = NoFile
    None = None
SPECIFICATION Spec
SYMMETRY Symmetry
CHECK_DEADLOCK FALSE
INVARIANT LockReleased
