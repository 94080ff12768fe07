SPECIFICATION Spec
CONSTANTS
    r1 = r1
    r2 = r2
    r3 = r3
    r4 = r4
    r5 = r5
    data = data
    level = level
    aa = aa
    Linux = Linux
    Windows = Windows
    x = x
    y = y
    i1 = i1
    i2 = i2
    i3 = i3
    none = none
    Component = {data, aa, level, Linux, Windows, x, y}
    AA = aa
    BuildTarget = {Linux, Windows}
    Ref = {r1, r2, r3, r4, r5}
    FilesOf <- Catalogue
    UnityGame = {r1, r2, r3}
    Permits = 2
    ChunkLen = 2
    CacheLimit = 0
    NoMap = NoMap
    Time <- Times
    Node <- TreeNodes
    IdOf <- Ids
    BodyOf <- Bodies
    NoNode = none
    v1 = v1
    v2 = v2
    Slash = Slash
    Comma = Comma
    Versions <- MCVersions
    ContentIn <- MCContentIn
    KindOf <- MCKindOf
    Opening <- MCOpening
    UnityVersions <- MCUnityVersions
    Viewers = {v1, v2}
    Cap = 2
    NoVersion = 0
    CloseFloats <- MCClose
    DiffTree <- DiffOf
    DeepTree <- DeepVerdict
    FileTree <- TreeOf
    TypesIn <- Fqns
    q1 = q1
    m1 = m1
    m2 = m2
    c1 = c1
    u1 = u1
    u2 = u2
    k1 = k1
    k2 = k2
    d1 = d1
    d2 = d2
    d3 = d3
    f1 = f1
    f2 = f2
    f3 = f3
    ma = ma
    mb = mb
    None = None
    Accounts = {u1, u2}
    Manifests = {m1, m2}
    AppChunks = {c1}
    ChunksIn <- MCChunksIn
    AppInfos <- MCAppInfos
    Lists <- MCLists
    Openable = {m1, m2}
    Requests = {q1}
    MaxWrites = 1
    Chunks = {d1, d2, d3}
    Files = {f1, f2, f3}
    ChunksOf <- MCChunksOf
    ManifestOf <- MCManifestOf
    QueuedFor <- MCQueuedFor
    Flushes = {k1, k2}
    Unshown = Unshown
SYMMETRY AccountsAlike
INVARIANTS
    AnswersRight
    DeepRight
    HistoryRight
    StructuredRight
    LibraryRight
    LandedShown
PROPERTY PagesServed
CHECK_DEADLOCK FALSE
