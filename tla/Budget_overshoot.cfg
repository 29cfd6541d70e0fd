SPECIFICATION Spec
CONSTANTS
    Keys = {k1, k2}
    Requests = {r1, r2, r3}
    Limit = 2
    MaxCost = 2
INVARIANTS TypeOK Headroom OvershootBounded
