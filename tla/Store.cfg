CONSTANTS
    m1 = m1
    m2 = m2
    x = x
    y = y
    Manifest = {m1, m2}
    Chunk = {x, y}
    ChunksOf <- Shared
    Requests <- Kinds
    Opener = {o1}
    Admin = {a1, a2}
    Fetcher = {f1}
    NoModel = NoModel
    Nobody = Nobody
    NoManifest = NoManifest
    NoChunk = NoChunk
    MaxOpens = 1
    MaxPrunes = 2
    MaxFetches = 1
    MaxFaults = 1
    MaxRestarts = 1
SPECIFICATION Spec
SYMMETRY Symmetry
INVARIANTS
    TypeOK
    IndexHonest
    ModelCurrent
    PruneSparesOthers
CHECK_DEADLOCK FALSE
