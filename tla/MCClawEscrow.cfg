SPECIFICATION Spec
CONSTANTS
    Accounts = {c1, c2, s1}
    ZeroAddress = zero
    BookingIds = {b1, b2}
    Cent = 4
    SecondsPerHour = 3
    BpsBase = 2
    MaxCommissionBps = 1
    SettleGraceSecs = 1
    Rates = {1}
    Durations = {0, 1, 2}
    Usages = {1, 2, 3}
    Commissions = {0, 1, 2}
    SettlerKeys = {key}
    Funded = {c1}
    Funds = 3
    Wallet <- MCWallet
    MaxTime = 1
SYMMETRY Symmetry
INVARIANTS
    EscrowInv
    OpenBookingsPayable
    NothingTrapped
PROPERTIES
    NoOverbilling
    TermsAreFinal
    ImplementsCustody
    SplitBySnapshot
