CONSTANTS
    Sha = {s1}
    Client = {c1, c2}
    Worker = {w1}
    Reader = {r1}
    Chan = {h1, h2, h3}
    NoSha = NoSha
    NoChan = NoChan
    MaxCalls = 2
    MaxReads = 2
    MaxCancels = 1
    MaxDrops = 1
SPECIFICATION SafeSpec
SYMMETRY Symmetry
INVARIANTS
    TypeOK
    AccountingExact
    SingleFlight
    FollowersSafe
    NoLostWaiter
    PendingHasJob
PROPERTIES
    ImplementsContract
CHECK_DEADLOCK FALSE
