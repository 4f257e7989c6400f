CHECK_DEADLOCK FALSE
SPECIFICATION FairSpec
CONSTANTS
    Threads = {t1, t2}
    Objects = {o1, o2}
    Vars = {p, q, r}
    NULL = NULL
INVARIANTS
    TypeOK
    CountExact
    NoDangling
    NoDoubleDelete
    NoOrphan
    UniqueMeansSole
PROPERTY Reclaimed
