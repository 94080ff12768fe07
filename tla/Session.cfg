CONSTANTS
    alice = alice
    bob = bob
    a1 = a1
    a2 = a2
    Account = {alice, bob}
    AccountOf <- User
    Attempt = {a1}
    Logout = {l1}
    Waiter = {w1}
    Viewer = {v1}
    Resume = Resume
    NoClient = NoClient
    NoOne = NoOne
    NoSession = NoSession
    MayPanic = TRUE
SPECIFICATION FairSpec
INVARIANTS
    TypeOK
    PendingHasTask
    ResumeServes
    ShownCurrent
PROPERTIES
    EntryKept
    WaiterReturns
CHECK_DEADLOCK FALSE
