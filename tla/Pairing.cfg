SPECIFICATION Spec
CONSTANTS
    app = app
    other = other
    s1 = s1
    s2 = s2
    s3 = s3
    Clients = {app, other}
    Agents = {a1, a2}
    NoAgent = NoAgent
    Socks = {s1, s2, s3}
    SockClient <- MCSockClient
    Requests = {r1, r2}
    NoRequest = NoRequest
SYMMETRY MCSymmetry
CHECK_DEADLOCK FALSE
INVARIANTS
    RevokedGone
    OwnerHoldsKey
    
