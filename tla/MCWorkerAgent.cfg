SPECIFICATION Spec
CONSTANTS
    Bookings = {b1, b2}
    MaxRestarts = 2
SYMMETRY Symmetry
INVARIANTS
    TypeOK
    RecordsAgree
    PortsAreServed
    RelayedWhileActive
PROPERTIES
    CancelStops
