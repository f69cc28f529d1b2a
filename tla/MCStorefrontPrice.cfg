SPECIFICATION StoreSpec
CONSTANTS
    o1 = o1
    s1 = s1
    Offerings = {o1}
    Seeds = {s1}
    Prices = {1, 2}
    Tags = {"mlx", "m4", "mlx,m4"}
    Words = {"mlx", "m4"}
    WordsOf <- MCWordsOf
    TagsOfSeed <- MCTagsOfSeed
    Suppliers = {p1}
    Forms = {f1}
    Bookings = {k1}
    MaxClicks = 3
    MaxLost = 0
INVARIANT ExistingBookingsKeepPrice
CHECK_DEADLOCK FALSE
