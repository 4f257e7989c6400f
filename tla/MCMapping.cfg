CONSTANTS
    Bases = {b1, b2}
    Views = {v1, v2}
    Impls = {i1, i2}
    NULL = NULL
    Files = {f, g}
    FileSize <- MCFileSize
    Fds = {0, 1, 2}
    Pages = {1, 2, 3}
    PageSize = 2
    ObjSize = 1
    SizeArgs = {0, 4}
    Offsets = {0, 3}
    Counts = {0, 2}
    SelfMove = FALSE
SPECIFICATION Spec
SYMMETRY ImplSymmetry
VIEW MappedView
INVARIANTS
    ViewsIntact
    PagesOwned
    DescriptorsOwned
