SPECIFICATION SystemSpec
CONSTANTS
    Bookings = {b1, b2}
    MaxRestarts = 1
    Requests = {r1, r2, r3, r4}
SYMMETRY Symmetry
CHECK_DEADLOCK FALSE
INVARIANTS
    WorkerFollowsMarket
    SettledRunsOnlyActive
