SPECIFICATION McpSpec
CONSTANTS
    m = m
    n = n
    r1 = r1
    r2 = r2
    r3 = r3
    Names = {m, n}
    Runs = {r1, r2, r3}
    Boot = r1
    Objects = 3
    Edits = 1
SYMMETRY MCSymmetry
CHECK_DEADLOCK FALSE
INVARIANTS
    NoStrayProcess
    ListedCallable
