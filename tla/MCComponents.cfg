CONSTANTS
    l1 = l1  l2 = l2  e1 = e1  e2 = e2  t1 = t1  t2 = t2  br1 = br1
    w1 = w1  w2 = w2  m1 = m1  m2 = m2  b1 = b1  b2 = b2  o1 = o1  s1 = s1
\* WebSession: two links to one address, two tabs of one browser
    Links = {l1, l2}  Addresses = {e1, e2}  Tabs = {t1, t2}  Browsers = {br1}
    AddressOf <- MCAddressOf  BrowserOf <- MCBrowserOf  MaxVisits = 2  MaxFaults = 1
\* Storefront: two forms, one offering
    Offerings = {o1}  Seeds = {s1}  Prices = {1}  Suppliers = {"p"}  Forms = {t1, t2}  Bookings = {b1}
    Tags = {"mlx", "mlx,"}  Words = {"mlx"}  WordsOf <- MCWordsOf  TagsOfSeed <- MCTagsOfSeed
    MaxClicks = 4  MaxLost = 0
\* SupplierConsole: two tabs, two tokens, two machines
    ConsoleTabs = {t1, t2}  Workers = {w1, w2}  Machines = {m1, m2}  MaxActs = 4  MaxMisses = 1
\* ChatThread: two tabs, two messages
    ChatTabs = {t1, t2}  MaxMessages = 2  MaxOpens = 2  MaxChatMisses = 1
\* LandingMeter: the phases, in units
    LOCK = 2  RUN = 5  HOLD = 7  MaxRecords = 2
\* PublicLedger: two bookings, three rows, pages that show two
    LedgerBookings = {b1, b2}  Lock <- MCLock  CentUnits = 4  Charges <- MCCharges  Limit <- MCLimit  MaxRows = 3
\* ModelHost
    Catalog = {"qwen", "gemma"}  UnknownIds = {"gpt"}  DefaultModel = "qwen"
    MaxLoads = 3  MaxDeaths = 1  MaxNoStarts = 2
SPECIFICATION Spec
INVARIANTS
    SessionsComeFromLinks RegistersOnce ConsoleIsTrue ThreadAgrees
    MeterIsSound PageAddsUp OneServer NoDeadLinks
PROPERTIES
    SignedInStaysIn UntouchedFieldsStay AnsweredByItsModel EverythingEnds
CHECK_DEADLOCK FALSE
