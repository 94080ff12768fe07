CONSTANTS
    empty = empty
    big = big
    File = {empty, big}
    Size <- Sizes
    Window = 2
    Run = {r1, r2}
    NoRun = NoRun
    NoFile = NoFile
    MaxCancels = 2
SPECIFICATION FairSpec
INVARIANTS
    TypeOK
    OneRun
    OutcomeTrue
    BytesAddUp
PROPERTIES
    SlotComesBack
CHECK_DEADLOCK FALSE
