------------------------------ MODULE OpenMode ------------------------------
(***************************************************************************)
(* Open modes and the conversions between them (sysio.h, sysio.cc).  An    *)
(* access is a set of "read" and "write".  A POSIX mode is an access and   *)
(* the set of the other O_ flags, a Windows mode an access and a creation  *)
(* disposition, an ios mode a set of names of std::ios flags.              *)
(***************************************************************************)
EXTENDS Naturals, Sequences

CONSTANT Absent     \* a file that is not there

Accesses == {{"read"}, {"write"}, {"read", "write"}}
PosixModes == [acc : Accesses, flags : SUBSET {"CREAT", "EXCL", "TRUNC", "APPEND"}]

(* What O_ flags say in place of a creation disposition.                   *)
CreateFlags ==
    [create_new |-> {"CREAT", "EXCL"}, create_always |-> {"CREAT", "TRUNC"},
     open_always |-> {"CREAT"}, truncate_existing |-> {"TRUNC"},
     open_existing |-> {}, open_default |-> {}]

WinModes == [acc : Accesses \cup {{}}, create : DOMAIN CreateFlags]

win_to_posix(w) ==
    [acc |-> IF w.acc \in {{"read"}, {"write"}} THEN w.acc ELSE {"read", "write"},
     flags |-> CreateFlags[w.create]]

Disposition(flags) ==
    IF "CREAT" \in flags
    THEN IF "EXCL" \in flags THEN "create_new"
         ELSE IF "TRUNC" \in flags THEN "create_always" ELSE "open_always"
    ELSE IF "TRUNC" \in flags THEN "truncate_existing" ELSE "open_existing"

posix_to_win(p) == [acc |-> p.acc, create |-> Disposition(p.flags)]

-----------------------------------------------------------------------------
(* From ios modes, at run time.  O_RDONLY is 0.                            *)
Writing == {"out", "app", "trunc"}
When(cond, flags) == IF cond THEN flags ELSE {}

IosAccess(m, neither) ==
    IF m \cap {"in", "out"} = {} THEN neither
    ELSE When("in" \in m, {"read"}) \cup When("out" \in m, {"write"})

(* Mutation of ios_to_posix: trunc does not create, as at compile time.    *)
ios_to_posix_else(m) ==
    [acc |-> IosAccess(m, {"read"}),
     flags |-> (IF "trunc" \in m THEN {"TRUNC"} ELSE When(m \cap Writing # {}, {"CREAT"}))
               \cup When("app" \in m, {"APPEND"})]

ios_to_posix(m) ==
    [acc |-> IosAccess(m, {"read"}),
     flags |-> When("trunc" \in m, {"TRUNC"}) \cup When(m \cap Writing # {}, {"CREAT"})
               \cup When("app" \in m, {"APPEND"})]

IosDisposition(m) ==
    IF "trunc" \in m THEN "create_always"
    ELSE IF m \cap Writing # {} THEN "open_always" ELSE "open_existing"

ios_to_win(m) ==
    [acc |-> When("in" \in m, {"read"}) \cup When(m \cap Writing # {}, {"write"}),
     create |-> IosDisposition(m)]

(* The same at compile time, ios_to_sys<mode>().                           *)
CompiledPosix(m) ==
    [acc |-> IosAccess(m, {"read", "write"}),
     flags |-> (IF "trunc" \in m THEN {"TRUNC"} ELSE When(m \cap Writing # {}, {"CREAT"}))
               \cup When("app" \in m, {"APPEND"})]

CompiledWin(m) ==
    [acc |-> IosAccess(m, {"read", "write"}), create |-> IosDisposition(m)]

-----------------------------------------------------------------------------
(* What open() and CreateFile() make of a file f: the file, and the access *)
(* they grant.  Linux truncates a file opened to read, too.                *)
NotOpened(f) == [ok |-> FALSE, file |-> f, acc |-> {}, append |-> FALSE]
Opened(f, acc, append) == [ok |-> TRUE, file |-> f, acc |-> acc, append |-> append]

PosixOpen(p, f) ==
    IF f = Absent
    THEN IF "CREAT" \in p.flags THEN Opened(<<>>, p.acc, "APPEND" \in p.flags) ELSE NotOpened(f)
    ELSE IF {"CREAT", "EXCL"} \subseteq p.flags THEN NotOpened(f)
    ELSE Opened(IF "TRUNC" \in p.flags THEN <<>> ELSE f, p.acc, "APPEND" \in p.flags)

WinOpen(w, f) ==
    CASE w.create = "open_default" -> NotOpened(f)
      [] w.create = "truncate_existing" /\ "write" \notin w.acc -> NotOpened(f)
      [] w.create = "create_new" /\ f # Absent -> NotOpened(f)
      [] w.create \in {"open_existing", "truncate_existing"} /\ f = Absent -> NotOpened(f)
      [] OTHER -> Opened(IF f = Absent \/ w.create \in {"create_always", "truncate_existing"}
                         THEN <<>> ELSE f,
                         w.acc, FALSE)
=============================================================================
