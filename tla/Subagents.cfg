SPECIFICATION FairSpec
CONSTANTS
    c1 = c1
    c2 = c2
    c3 = c3
    Subs = {c1, c2, c3}
    Shared = {c1}
    Max = 2
CHECK_DEADLOCK FALSE
INVARIANTS
    TypeOK
    ReportedOver
    CapHolds
PROPERTIES
    PlaceReturned
