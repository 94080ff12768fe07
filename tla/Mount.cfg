CONSTANTS
    Start = {s1, s2, s3}
    Stop = {t1, t2}
    Signal = Signal
    Window = Window
    NoMount = NoMount
    MayDrop = TRUE
    MayKill = TRUE
SPECIFICATION FairSpec
INVARIANTS
    TypeOK
    SlotHeld
    NoOrphan
    MountedServes
PROPERTIES
    NoReclaim
    SlotSettles
