SPECIFICATION Spec
CONSTANTS
    Threads = {t, u}
    Agents = {a, b}
    NoAgent = NoAgent
    NoFile = NoFile
    NoTurn = NoTurn
    NoCompaction = NoCompaction
    Msgs = {m1, m2}
SYMMETRY Symmetry
INVARIANTS
    OwnContent
    Recoverable
CONSTRAINTS
    Followed
    OneMemory
