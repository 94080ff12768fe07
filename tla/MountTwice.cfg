CONSTANTS
    Start = {s1, s2}
    Stop = {t1}
    Signal = Signal
    Window = Window
    NoMount = NoMount
    MayDrop = FALSE
    MayKill = FALSE
SPECIFICATION Spec
INVARIANTS
    OneMount
