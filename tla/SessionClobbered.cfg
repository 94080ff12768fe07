CONSTANTS
    alice = alice
    bob = bob
    a1 = a1
    a2 = a2
    Account = {alice, bob}
    AccountOf <- Users
    Attempt = {a1, a2}
    Logout = {}
    Waiter = {}
    Viewer = {}
    Resume = Resume
    NoClient = NoClient
    NoOne = NoOne
    NoSession = NoSession
    MayPanic = FALSE
SPECIFICATION Spec
PROPERTIES
    NewerClientKept
CHECK_DEADLOCK FALSE
