CHECK_DEADLOCK FALSE
CONSTANTS
    Char = {x, y}
    Accesses = {"read", "write", "copy"}
    PageSize = 2
    MaxSize = 5
    MaxOffset = 6
    Strings <- MCStrings
    Lengths = {1, 2, 3}
    Offsets <- MCOffsets
    JunkSizes = {3}
    MemoryFails = FALSE
SPECIFICATION Spec
SYMMETRY CharSymmetry
VIEW BufView
PROPERTY StringsInPlace
