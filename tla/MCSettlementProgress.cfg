SPECIFICATION FairSpec
CONSTANTS
    Bookings = {b1}
    Requests = {r1, r2}
    MaxBookingSecs = 0
    SettleGraceSecs = 0
    AtStart = {b1}
    ReceiptTimeouts = TRUE
    MaxCrashes = 1
    MaxTime = 1
CHECK_DEADLOCK FALSE
PROPERTIES
    RequestsEnd
    ActivationIsTold
