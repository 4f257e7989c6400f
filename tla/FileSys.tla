------------------------------ MODULE FileSys --------------------------------
(***************************************************************************)
(* The file system functions (sysfs.h, sysfs.cc) in the POSIX or the       *)
(* Windows build, over a small tree, as one thread calls them.  Another    *)
(* thread changes the tree and the current directory, also between the two *)
(* calls of the system that getcwd (DST) may make.  Each of the other      *)
(* functions makes one call of the system.                                 *)
(*                                                                         *)
(* Bounds and client rules: only files are renamed; EmptyNames says        *)
(* whether programs pass the empty wide string for a name.                 *)
(***************************************************************************)
EXTENDS Integers, Sequences, FiniteSetsExt

CONSTANTS
    Path,           \* absolute names, with their prefixes
    NoName,         \* the empty name
    MbLen,          \* mb_len_max(), and the bytes of a character in a name
    DefaultSize,    \* the size of a local_buffer
    GrownSize,      \* the size that getcwd() tries after it
    EmptyNames

Root == <<>>
Removed == <<"removed">>    \* a current directory that is there no more

VARIABLES
    build,  \* the build of the program
    fs,     \* the tree and the current directory of the process
    err,    \* the last error of the thread
    dst,    \* getcwd (DST) in progress
    ret     \* the last call that ended, and its result

vars == <<build, fs, err, dst, ret>>

Idle == [pc |-> "idle"]

Init ==
    /\ build \in {"posix", "windows"}
    /\ fs = [tree |-> [p \in Path |-> IF p = Root THEN "dir" ELSE "none"], cwd |-> Root]
    /\ err = "ok" /\ dst = Idle /\ ret = <<"none">>

-----------------------------------------------------------------------------
(* What the system makes of a call: the error code, and the file system    *)
(* then.                                                                   *)
Blocked(t, p) == {k \in 1 .. Len(p) - 1 : t[SubSeq(p, 1, k)] # "dir"}
Stat(t, p) ==
    IF p = NoName THEN "ENOENT"
    ELSE IF Blocked(t, p) # {}
    THEN IF t[SubSeq(p, 1, Min(Blocked(t, p)))] = "file" THEN "ENOTDIR" ELSE "ENOENT"
    ELSE IF t[p] = "none" THEN "ENOENT" ELSE "ok"

(* Why no entry can be made of that name.                                  *)
Place(t, p) ==
    IF Stat(t, p) = "ok" THEN "EEXIST"
    ELSE IF p # NoName /\ Blocked(t, p) = {} THEN "ok"
    ELSE Stat(t, p)

Done(f) == [code |-> "ok", fs |-> f]
Refused(code, f) == [code |-> code, fs |-> f]
With(f, p, kind) == [f EXCEPT !.tree[p] = kind]
Entry(f, p) == IF Stat(f.tree, p) = "ok" THEN f.tree[p] ELSE "none"
HasEntries(t, p) == \E q \in Path : Len(q) = Len(p) + 1 /\ SubSeq(q, 1, Len(p)) = p /\ t[q] # "none"

(* mkdir() and open() of a new name, and what is done to an entry there.   *)
Make(what, p, f) ==
    IF Place(f.tree, p) = "ok" THEN Done(With(f, p, IF what = "mkdir" THEN "dir" ELSE "file"))
    ELSE IF Entry(f, p) = "none" THEN Refused(Stat(f.tree, p), f)
    ELSE IF what = "create" /\ Entry(f, p) = "file" THEN Done(f)
    ELSE Refused("EEXIST", f)

Remove(b, p, f) ==
    IF Entry(f, p) # "dir" THEN Refused("ENOTDIR", f)
    ELSE IF HasEntries(f.tree, p) THEN Refused("ENOTEMPTY", f)
    ELSE IF p = Root \/ (b = "windows" /\ f.cwd = p) THEN Refused("EBUSY", f)
    ELSE Done(With([f EXCEPT !.cwd = IF @ = p THEN Removed ELSE @], p, "none"))

Call(b, what, p, f) ==
    IF what \in {"mkdir", "create"} THEN Make(what, p, f)
    ELSE IF Stat(f.tree, p) # "ok" THEN Refused(Stat(f.tree, p), f)
    ELSE CASE what = "stat" -> Done(f)
           [] what = "chdir" ->
                IF Entry(f, p) = "dir" THEN Done([f EXCEPT !.cwd = p]) ELSE Refused("ENOTDIR", f)
           [] what = "unlink" ->
                IF Entry(f, p) = "file" THEN Done(With(f, p, "none")) ELSE Refused("EISDIR", f)
           [] what = "rmdir" -> Remove(b, p, f)

(* rename() puts the file in the place of another, MoveFile() does not.    *)
Rename(b, p, q, f) ==
    LET why == Stat(f.tree, p)
        room == Place(f.tree, q)
        moved == With(With(f, p, "none"), q, "file")
    IN  IF why # "ok" THEN Refused(why, f)
        ELSE IF room = "ok" \/ p = q THEN Done(moved)
        ELSE IF Entry(f, q) = "none" THEN Refused(room, f)
        ELSE IF Entry(f, q) = "dir" THEN Refused("EISDIR", f)
        ELSE IF b = "posix" THEN Done(moved) ELSE Refused("EEXIST", f)

-----------------------------------------------------------------------------
(* The functions.  A wide name goes through wcstombs() in the POSIX build, *)
(* which fails for the empty one and leaves errno alone, in all functions  *)
(* but create_file().                                                      *)
Converts(wide, p) == ~(build = "posix" /\ wide /\ p = NoName)
Errno(code) == err' = IF code = "ok" THEN err ELSE code

Passable(wide, p) == wide /\ p = NoName => EmptyNames

Do(what, wide, p) ==
    LET r == Call(build, what, p, fs) IN
    /\ dst = Idle /\ Passable(wide, p)
    /\ IF Converts(wide, p)
       THEN fs' = r.fs /\ Errno(r.code) /\ ret' = <<what, p, r.code = "ok">>
       ELSE /\ ret' = <<what, p, FALSE>> /\ UNCHANGED fs
            /\ IF what = "create" THEN Errno("ENOENT") ELSE UNCHANGED err
    /\ UNCHANGED <<build, dst>>

chdir(wide, p) == Do("chdir", wide, p)
mkdir(wide, p) == Do("mkdir", wide, p)
rmdir(wide, p) == Do("rmdir", wide, p)
unlink(wide, p) == Do("unlink", wide, p)
create_file(wide, p) == Do("create", wide, p)

rename(wide, p, q) ==
    LET r == Rename(build, p, q, fs) IN
    /\ dst = Idle /\ Passable(wide, p) /\ Passable(wide, q) /\ Entry(fs, p) # "dir"
    /\ IF Converts(wide, p) /\ Converts(wide, q)
       THEN fs' = r.fs /\ Errno(r.code) /\ ret' = <<"rename", p, r.code = "ok">>
       ELSE ret' = <<"rename", p, FALSE>> /\ UNCHANGED <<fs, err>>
    /\ UNCHANGED <<build, dst>>

(* exists(): in the POSIX build, unless errno is ENOENT.                   *)
exists(wide, p) ==
    LET code == Stat(fs.tree, p) IN
    /\ dst = Idle /\ Passable(wide, p)
    /\ ret' = <<"exists", p, IF build = "windows" THEN code = "ok"
                             ELSE Converts(wide, p) /\ code # "ENOENT">>
    /\ IF Converts(wide, p) THEN Errno(code) ELSE UNCHANGED err
    /\ UNCHANGED <<build, fs, dst>>

(* get_mod_time() throws a file_error with the last error, get_size()      *)
(* returns invalid_size.                                                   *)
get_mod_time(wide, p) ==
    LET code == Stat(fs.tree, p) IN
    /\ dst = Idle /\ Passable(wide, p)
    /\ IF Converts(wide, p) THEN Errno(code) ELSE UNCHANGED err
    /\ ret' = IF Converts(wide, p) /\ code = "ok" THEN <<"time", p>> ELSE <<"throw", p, err'>>
    /\ UNCHANGED <<build, fs, dst>>

get_size(wide, p) ==
    LET code == Stat(fs.tree, p) IN
    /\ dst = Idle /\ Passable(wide, p)
    /\ IF Converts(wide, p) THEN Errno(code) ELSE UNCHANGED err
    /\ ret' = <<"size", p, Converts(wide, p) /\ code = "ok">>
    /\ UNCHANGED <<build, fs, dst>>

-----------------------------------------------------------------------------
(* getcwd (BUFFER, BUFFER_SIZE).  Characters of names are of MbLen bytes,  *)
(* in the wide string they are one.                                        *)
Bytes(p) == IF p = Root THEN 1 ELSE Len(p) * (1 + MbLen)
Chars(p) == IF p = Root THEN 1 ELSE Len(p) * 2
Larger(n, m) == IF n > m THEN n ELSE m

GetCwd(n) ==
    IF fs.cwd = Removed THEN "ENOENT"
    ELSE IF n = 0 THEN "EINVAL"
    ELSE IF Bytes(fs.cwd) >= n THEN "ERANGE" ELSE "ok"

getcwd(n, wide) ==
    LET code == IF wide THEN GetCwd(Larger(n * MbLen, DefaultSize)) ELSE GetCwd(n)
        fits == code = "ok" /\ (wide => Chars(fs.cwd) < n)
    IN  /\ dst = Idle
        /\ IF build = "windows"
           THEN /\ ret' = <<"getcwd", n, IF wide THEN Chars(fs.cwd) < n ELSE Bytes(fs.cwd) < n>>
                /\ UNCHANGED err
           ELSE /\ ret' = <<"getcwd", n, n # 0 /\ fits>>
                /\ IF wide /\ n = 0 THEN UNCHANGED err ELSE Errno(code)
        /\ UNCHANGED <<build, fs, dst>>

(* getcwd (DST).  POSIX: once more after ERANGE.  Windows: first for the   *)
(* size; GetCurrentDirectory() does not fail.                              *)
Again(size) == dst' = [pc |-> "again", size |-> size, seen |-> {fs.cwd}] /\ UNCHANGED <<err, ret>>
Ended(rc, seen) ==
    /\ dst' = Idle
    /\ ret' = <<"cwd", rc, IF rc THEN fs.cwd ELSE NoName, seen>>

GetcwdBegin ==
    /\ dst = Idle
    /\ IF build = "windows" THEN Again(Larger(DefaultSize, Chars(fs.cwd) + 1))
       ELSE IF GetCwd(DefaultSize) = "ERANGE"
       THEN /\ dst' = [pc |-> "again", size |-> Larger(DefaultSize, GrownSize), seen |-> {fs.cwd}]
            /\ err' = "ERANGE" /\ UNCHANGED ret
       ELSE Ended(GetCwd(DefaultSize) = "ok", {fs.cwd}) /\ Errno(GetCwd(DefaultSize))
    /\ UNCHANGED <<build, fs>>

GetcwdAgain ==
    /\ dst # Idle
    /\ IF build = "windows" THEN Ended(Chars(fs.cwd) < dst.size, dst.seen) /\ UNCHANGED err
       ELSE Ended(GetCwd(dst.size) = "ok", dst.seen) /\ Errno(GetCwd(dst.size))
    /\ UNCHANGED <<build, fs>>

(* Another thread, with an errno of its own.                               *)
Other(f) ==
    /\ dst # Idle
    /\ fs' = f /\ dst' = [dst EXCEPT !.seen = @ \cup {f.cwd}]
    /\ UNCHANGED <<build, err, ret>>

Names == Path \cup {NoName}

Next ==
    \/ \E p \in Names, wide \in BOOLEAN :
          \/ chdir(wide, p) \/ mkdir(wide, p) \/ rmdir(wide, p)
          \/ unlink(wide, p) \/ create_file(wide, p)
          \/ \E q \in Names : rename(wide, p, q)
          \/ exists(wide, p) \/ get_mod_time(wide, p) \/ get_size(wide, p)
    \/ \E n \in 0 .. GrownSize, wide \in BOOLEAN : getcwd(n, wide)
    \/ GetcwdBegin \/ GetcwdAgain
    \/ \E p \in Path, what \in {"chdir", "mkdir", "rmdir"} : Other(Call(build, what, p, fs).fs)

Spec == Init /\ [][Next]_vars

-----------------------------------------------------------------------------
TypeOK ==
    /\ build \in {"posix", "windows"}
    /\ fs.tree \in [Path -> {"none", "file", "dir"}] /\ fs.tree[Root] = "dir"
    /\ \A p \in Path \ {Root} : fs.tree[p] # "none" => fs.tree[SubSeq(p, 1, Len(p) - 1)] = "dir"
    /\ fs.cwd = Removed \/ fs.tree[fs.cwd] = "dir"

(* getcwd (DST) ends with a directory that was the current one at a moment *)
(* of the call, or with "empty string on error" (sysfs.h:170), and fails   *)
(* only if the directory was removed, changed between the two calls of the *)
(* system, or is too long for the buffer of 1024.                          *)
CwdTells ==
    [][(GetcwdBegin \/ GetcwdAgain) /\ dst' = Idle =>
         IF ret'[2] THEN ret'[3] \in ret'[4] /\ ret'[3] # Removed
         ELSE /\ ret'[3] = NoName
              /\ \/ Removed \in ret'[4] \/ (build = "windows" /\ ret'[4] # {fs.cwd})
                 \/ \E d \in ret'[4] : build = "posix" /\ Bytes(d) >= GrownSize]_vars

(* getcwd (BUFFER, BUFFER_SIZE) succeeds if the name fits, wide or not,    *)
(* whatever bytes it takes on the way.                                     *)
CwdFits ==
    [][\A n \in 0 .. GrownSize, wide \in BOOLEAN : getcwd(n, wide) =>
         (ret'[3] <=> fs.cwd # Removed /\ n > IF wide THEN Chars(fs.cwd) ELSE Bytes(fs.cwd))]_vars

(* The error thrown by get_mod_time() is why this name cannot be accessed, *)
(* not one that was left behind; exists() is false only of a name that is  *)
(* not there, and true of one that is not only beyond a file (sysfs.h:212).*)
NamesTell ==
    [][\A p \in Names, wide \in BOOLEAN :
        /\ get_mod_time(wide, p) /\ ret'[1] = "throw" =>
              ret'[3] = Stat(fs.tree, p) /\ ret'[3] # "ok"
        /\ exists(wide, p) =>
              (ret'[3] <=> \/ Entry(fs, p) # "none"
                           \/ build = "posix" /\ Stat(fs.tree, p) = "ENOTDIR")]_vars
=============================================================================
