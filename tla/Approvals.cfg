CONSTANTS
    owner = owner
    ag = ag
    to = to
    ta = ta
    so = so
    sa = sa
    sb = sb
    Threads = {to, ta}
    Agents = {owner, ag}
    Owner = owner
    NoAgent = NoAgent
    Labels = {l1}
    Socks = {so, sa, sb}
    SocketAgent <- MCSocketAgent
    TurnAgent <- MCTurnAgent
    Cards = {c1, c2}
    NoCard = NoCard
SPECIFICATION Spec
SYMMETRY Symmetry
INVARIANTS
    NoOrphanWait
    NoPhantomCard
    EveryClientSeesCard
    OwnGrantHonoured
