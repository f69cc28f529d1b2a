SPECIFICATION Spec
CONSTANTS
    Bookings = {b1}
    Requests = {r1, r2, r3}
    MaxBookingSecs = 1
    SettleGraceSecs = 0
    AtStart = {b1}
    ReceiptTimeouts = FALSE
    MaxCrashes = 0
    MaxTime = 1
SYMMETRY Symmetry
CHECK_DEADLOCK FALSE
INVARIANTS
    CloseNeverSilent
