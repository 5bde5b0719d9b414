CONSTANTS
    Threads = {t1, t2}
    NoThread = NoThread
    Pids = {p1, p2}
    NoPid = NoPid
    MaxVersion = 1
SPECIFICATION FairDaemonSpec
INVARIANTS
    DaemonTypeOK
    DaemonKnown
    FreshUnlessMissed
PROPERTIES
    StartingReleased
