SPECIFICATION FairSystemSpec
CONSTANTS
    Bookings = {b1}
    MaxRestarts = 0
    Requests = {r1, r2, r3}
CHECK_DEADLOCK FALSE
PROPERTIES
    WorkerReconciles
