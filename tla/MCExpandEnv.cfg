CONSTANTS
    Missing = Missing
    None = None
    Closed = Closed
    NoName = NoName
    Var <- MCVar
    Value <- MCValue
    Sources <- MCSources
    Thread = {t1, t2}
    EnvSize = 3
    Growing = FALSE
    Block = {b1, b2, b3}
    Object = {o1}
    Format = {text, locale}
    ClipText <- MCClipText
    Granule = 2
    Name = {h1, h2, h3}
    Fd = {3, 4, 5}
    File = {f1, f2, f3, f4}
    ConstCopy = FALSE
    Path <- MCPath
    MbLen = 2
    CwdSize = 5
    GrownSize = 8
    EmptyNames = FALSE
    Code = {"ok", "ENOENT"}
    NoError = "ok"
    Bad = "bad"
    Replaced = "replaced"
    ErrorText <- MCErrorText
    IllFormed = FALSE
    Exc = {e1, e2}
    Info = {i1, i2}
    Second = 3
    MaxTime = 8
    Absent = Absent
    Char = {a, b}
    ModeArgs <- MCModeArgs
    CreateArgs <- MCCreateArgs
    AppendCreates = FALSE
    TruncateToRead = FALSE
    MaxFile = 3
    Letter = {"a"}
    BufSize = 3
    TextBuf = 3
    Texts <- MCTexts
    TextFiles <- MCFiles
    Rooms = {2, 3, 4, 5, 99}
    MaxRead = 4
    MaxText = 8
SPECIFICATION MCSpec
PROPERTIES
    ExpandsExactly
