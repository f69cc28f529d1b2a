SPECIFICATION Spec
CONSTANTS
    Bookings = {b1, b2}
    Requests = {r1, r2, r3}
    MaxBookingSecs = 1
    SettleGraceSecs = 0
    AtStart = {b1}
    ReceiptTimeouts = TRUE
    MaxCrashes = 1
    MaxTime = 1
SYMMETRY Symmetry
CHECK_DEADLOCK FALSE
INVARIANTS
    TypeOK
    ActivationOwnsLock
    ConfirmedIsTrue
    ChargedOnce
    LedgerAgrees
    ChargedStaysClosed
    ClosesAreAccounted
PROPERTIES
    KeepsRecord
