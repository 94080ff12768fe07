CONSTANTS
    Sha = {s1}
    Client = {c1}
    Worker = {w1}
    Reader = {r1, r2}
    Chan = {h1, h2, h3}
    NoSha = NoSha
    NoChan = NoChan
    MaxCalls = 1
    MaxReads = 2
    MaxCancels = 1
    MaxDrops = 1
SPECIFICATION LiveSpec
PROPERTIES
    WaitersReturn
    PendingSettles
    ReadsEnd
CHECK_DEADLOCK FALSE
