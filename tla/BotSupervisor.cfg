CONSTANTS
    a = a
    Bots = {a}
    Staged = {a}
    Pids = {p1, p2}
    NoPid = NoPid
    NoBot = NoBot
    Guest = Guest
    NoProcess = NoProcess
    Ensurers = {w}
    Commanders = {c}
    MaxGuests = 1
    MaxDeaths = 1
SPECIFICATION FairSpec
INVARIANTS
    Supervised
    StopHolds
PROPERTIES
    ListedRestarted
