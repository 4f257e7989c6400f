CONSTANTS
    Char = {x, y}
    Junk = Junk
    Modes <- MCModes
    Blocks = {b1, b2, b3}
    GROW_SIZE = 1
    MaxPos = 4
    Texts <- MCTexts
    Strings <- MCStrings
    Lengths = {1, 2}
    Offsets <- MCOffsets
    ByteTexts <- MCByteTexts
    UnitTexts <- MCUnitTexts
    CodeTexts <- MCCodeTexts
    Code <- MCCode
    MaxLen = 2
    Modulus = 65536
    Memory <- MCMemory
    Floats = FALSE
SPECIFICATION MCSpec
SYMMETRY MemorySymmetry
VIEW View
INVARIANTS
    TypeOK
    Ends
    OwnsItsBlock
    UniTypeOK
    TextKept
    FormsAgree
    IcaseOrder
    BytesSwapped
PROPERTIES
    OnlyEndLeaks
    StreamSpec
