CONSTANTS
    Char = {x, y}
    Hole = Hole
    Junk = Junk
    Modes <- MCModes
    DefaultSize = 2
    BufSizes = {0}
    MaxFile = 3
    MaxString = 3
    Offsets <- MCOffsets
    Strings <- MCStrings
    Devices <- MCDevices
    UnderBegin = FALSE
SPECIFICATION Spec
SYMMETRY CharSymmetry
VIEW BufView
INVARIANTS
    TypeOK
    AreasApart
    NoJunk
PROPERTIES
    SyncSkipsNothing
    LossReported
    StreamSpec
