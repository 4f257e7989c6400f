------------------------------ MODULE FStream -------------------------------
(***************************************************************************)
(* sys::ifstream, ofstream and fstream (fstream.hpp) on one file, in the   *)
(* POSIX and in the Windows build side by side: every call is made in both *)
(* of them.  The buffer is as FileStream has it, on a device that takes    *)
(* everything; streams are binary.                                         *)
(*                                                                         *)
(* Client rules: characters are put to and got from open streams, and      *)
(* AppendCreates and TruncateToRead say whether programs combine a         *)
(* creation disposition with app, and truncate_existing with a stream that *)
(* only reads.                                                             *)
(***************************************************************************)
EXTENDS OpenMode, SequencesExt

CONSTANTS Char, ModeArgs, CreateArgs, AppendCreates, TruncateToRead,
          MaxFile       \* bound: the length of the file

Flags == {"in", "out", "app", "ate", "trunc"}

ASSUME StreamAssumption ==
    /\ ModeArgs \subseteq SUBSET Flags /\ CreateArgs \subseteq DOMAIN CreateFlags
    /\ Absent \notin Seq(Char)

VARIABLES
    kind,   \* the class of the stream object, "none" before it is constructed
    file,   \* by build: the file
    str,    \* by build: the stream
    asked    \* the last call with its arguments

streamvars == <<kind, file, str, asked>>

Builds == {"posix", "windows"}
Adds == [ifstream |-> {"in"}, ofstream |-> {"out"}, fstream |-> {"in", "out"}]

NotOpen(bits) == [open |-> FALSE, mode |-> {}, acc |-> {}, append |-> FALSE, pos |-> 0, bits |-> bits]

FStreamInit ==
    /\ kind = "none" /\ asked = <<>>
    /\ \E f \in {Absent} \cup SeqOf(Char, 2) : file = [b \in Builds |-> f]
    /\ str = [b \in Builds |-> NotOpen({})]

-----------------------------------------------------------------------------
(* filebuf::open(): the mode of the system, then create_file().            *)
CreateFile(b, m, create, f) ==
    LET given == [acc |-> When("in" \in m, {"read"}) \cup When("out" \in m, {"write"}),
                  create |-> create]
    IN  IF b = "windows"
        THEN WinOpen(IF create = "open_default" THEN ios_to_win(m) ELSE given, f)
        ELSE PosixOpen(IF create = "open_default" THEN ios_to_posix(m) ELSE win_to_posix(given), f)

SetState(s, bits) == [s EXCEPT !.bits = @ \cup bits]

(* open(): failbit if the stream is open or the file cannot be, else       *)
(* clear().                                                                *)
Opening(b, m, create) ==
    LET r == CreateFile(b, m, create, file[b]) IN
    IF str[b].open \/ ~r.ok THEN SetState(str[b], {"fail"})
    ELSE [open |-> TRUE, mode |-> m, acc |-> r.acc, append |-> r.append,
          pos |-> IF "ate" \in m THEN Len(r.file) ELSE 0, bits |-> {}]

Construct(k) ==
    /\ kind = "none" /\ kind' = k
    /\ str' = [b \in Builds |-> NotOpen({})]
    /\ asked' = <<"construct">>
    /\ UNCHANGED file

Destroy ==
    /\ kind # "none" /\ kind' = "none"
    /\ str' = [b \in Builds |-> NotOpen({})]
    /\ asked' = <<"destroy">>
    /\ UNCHANGED file

Open(arg, create) ==
    LET m == arg \cup Adds[kind] IN
    /\ kind # "none"
    /\ create # "open_default" /\ "app" \in m => AppendCreates
    /\ create = "truncate_existing" /\ "out" \notin m => TruncateToRead
    /\ str' = [b \in Builds |-> Opening(b, m, create)]
    /\ file' = [b \in Builds |-> IF str[b].open THEN file[b]
                                 ELSE CreateFile(b, m, create, file[b]).file]
    /\ asked' = <<"open", m, create>>
    /\ UNCHANGED kind

Close ==
    /\ kind # "none"
    /\ str' = [b \in Builds |-> IF str[b].open THEN NotOpen(str[b].bits)
                                ELSE SetState(str[b], {"fail"})]
    /\ asked' = <<"close">>
    /\ UNCHANGED <<kind, file>>

-----------------------------------------------------------------------------
AllOpen == \A b \in Builds : str[b].open
Good(b) == str[b].bits = {}

(* Mutation of WriteAt: m_writefile() leaves the position to the kernel.   *)
WriteAtPosition(b) == IF str[b].append THEN Len(file[b]) ELSE str[b].pos

(* m_writefile(): the kernel appends, or m_seek (0, std::ios::end) before  *)
(* it.                                                                     *)
WriteAt(b) ==
    IF IF b = "windows" THEN "app" \in str[b].mode ELSE str[b].append
    THEN Len(file[b]) ELSE str[b].pos

Overwrite(f, at, s) ==
    SubSeq(f, 1, at) \o s \o SubSeq(f, at + Len(s) + 1, Len(f))

(* An output function of std::ostream that writes s.                       *)
Output(s) ==
    /\ file' = [b \in Builds |-> IF Good(b) THEN Overwrite(file[b], WriteAt(b), s) ELSE file[b]]
    /\ str' = [b \in Builds |-> IF Good(b) THEN [str[b] EXCEPT !.pos = WriteAt(b) + Len(s)]
                                ELSE str[b]]

Put(c) ==
    /\ kind \in {"ofstream", "fstream"} /\ AllOpen
    /\ \A b \in Builds : Len(file[b]) < MaxFile
    /\ Output(<<c>>)
    /\ asked' = <<"put", c>>
    /\ UNCHANGED kind

(* operator<< (std::ostream&, const wstring&): wcstombs() of an empty      *)
(* string fails.                                                           *)
PutWide(s) ==
    /\ kind \in {"ofstream", "fstream"} /\ AllOpen
    /\ \A b \in Builds : Len(file[b]) + Len(s) <= MaxFile
    /\ IF s # <<>> THEN Output(s)
       ELSE str' = [b \in Builds |-> SetState(str[b], {"fail"})] /\ UNCHANGED file
    /\ asked' = <<"putwide", s>>
    /\ UNCHANGED kind

Get ==
    /\ kind \in {"ifstream", "fstream"} /\ AllOpen
    /\ str' = [b \in Builds |->
                 IF ~Good(b) THEN SetState(str[b], {"fail"})
                 ELSE IF str[b].pos < Len(file[b]) THEN [str[b] EXCEPT !.pos = @ + 1]
                 ELSE SetState(str[b], {"eof", "fail"})]
    /\ asked' = <<"get">>
    /\ UNCHANGED <<kind, file>>

(* operator>> (std::istream&, wstring&), when there is no white space: a   *)
(* word that was read is not empty, so that mbstowcs() does not fail.      *)
GetWide ==
    /\ kind \in {"ifstream", "fstream"} /\ AllOpen
    /\ str' = [b \in Builds |->
                 IF ~Good(b) THEN SetState(str[b], {"fail"})
                 ELSE IF str[b].pos < Len(file[b])
                 THEN [SetState(str[b], {"eof"}) EXCEPT !.pos = Len(file[b])]
                 ELSE SetState(str[b], {"eof", "fail"})]
    /\ asked' = <<"getwide">>
    /\ UNCHANGED <<kind, file>>

(* seekg (0) or seekp (0), and clear().                                    *)
Rewind ==
    /\ kind # "none" /\ AllOpen
    /\ str' = [b \in Builds |-> IF "fail" \in str[b].bits THEN str[b]
                                ELSE [str[b] EXCEPT !.pos = 0]]
    /\ asked' = <<"rewind">>
    /\ UNCHANGED <<kind, file>>

Clear ==
    /\ kind # "none"
    /\ str' = [b \in Builds |-> [str[b] EXCEPT !.bits = {}]]
    /\ asked' = <<"clear">>
    /\ UNCHANGED <<kind, file>>

Unlink ==
    /\ \A b \in Builds : ~str[b].open
    /\ file' = [b \in Builds |-> Absent]
    /\ asked' = <<"unlink">>
    /\ UNCHANGED <<kind, str>>

FStreamNext ==
    \/ \E k \in DOMAIN Adds : Construct(k)
    \/ Destroy
    \/ \E m \in ModeArgs, create \in CreateArgs : kind # "none" /\ Open(m, create)
    \/ Close
    \/ \E c \in Char : Put(c)
    \/ \E c \in Char : PutWide(<<>>) \/ PutWide(<<c, c>>)
    \/ Get \/ GetWide \/ Rewind \/ Clear \/ Unlink

FStreamSpec == FStreamInit /\ [][FStreamNext]_streamvars

-----------------------------------------------------------------------------
FStreamTypeOK ==
    /\ kind \in {"none"} \cup DOMAIN Adds
    /\ \A b \in Builds :
          /\ file[b] \in {Absent} \cup Seq(Char)
          /\ str[b].open => str[b].pos \in 0 .. Len(file[b])
          /\ str[b].bits \subseteq {"eof", "fail"}

Seen(b) == <<file[b], str[b].open, str[b].mode, str[b].pos, str[b].bits>>

(* A mode that is converted to Windows and back opens a file as before,    *)
(* but for appending, and the conversions at compile time agree with those *)
(* at run time, but for trunc and app to read (sysio.h 195-238, sysio.cc). *)
ModesAgree ==
    \A f \in {file[b] : b \in Builds} :
        /\ \A p \in PosixModes :
              PosixOpen(win_to_posix(posix_to_win(p)), f)
                = [PosixOpen(p, f) EXCEPT !.append = FALSE]
        /\ \A m \in SUBSET {"in", "out", "app"} :
              m \cap {"in", "out"} # {} /\ ("app" \in m => "out" \in m) =>
                 /\ PosixOpen(CompiledPosix(m), f) = PosixOpen(ios_to_posix(m), f)
                 /\ WinOpen(CompiledWin(m), f) = WinOpen(ios_to_win(m), f)

(* A program behaves the same in both builds: the same opens succeed, and  *)
(* files, positions and error bits never differ (sysio.cc has one          *)
(* conversion of modes for each build, fstream.hpp one m_writefile()); and *)
(* so do the conversions of modes among themselves.                        *)
SameOnBoth == FStreamTypeOK /\ Seen("posix") = Seen("windows") /\ ModesAgree

(* As long as a stream is open to append, nothing that was in the file is  *)
(* changed, wherever reading and seeking left the position                 *)
(* (fstream.hpp:472, sysio.cc:135).                                        *)
AppendKeeps ==
    \A b \in Builds : str[b].open /\ "app" \in str[b].mode => IsPrefix(file[b], file'[b])

(* open() does what the mode and the disposition mean, whatever they are   *)
(* converted to on the way: whether the file has to exist, must not exist, *)
(* is emptied or is kept, and what the stream can do with it               *)
(* (fstream.hpp:421-455).                                                  *)
Empties(m, create) ==
    IF create = "open_default" THEN "trunc" \in m
    ELSE create \in {"create_always", "truncate_existing"}
MustExist(m, create) ==
    IF create = "open_default" THEN m \cap Writing = {}
    ELSE create \in {"open_existing", "truncate_existing"}
Possible(m, create, f) ==
    /\ MustExist(m, create) => f # Absent
    /\ create = "create_new" => f = Absent

OpenDoes ==
    \A m \in SUBSET Flags, create \in CreateArgs :
       asked' = <<"open", m, create>> =>
          \A b \in Builds : ~str[b].open =>
             /\ str'[b].open = Possible(m, create, file[b])
             /\ str'[b].open =>
                   /\ str'[b].bits = {}
                   /\ file'[b] = IF file[b] = Absent \/ Empties(m, create) THEN <<>> ELSE file[b]
                   /\ "in" \in m => "read" \in str'[b].acc
                   /\ "out" \in m => "write" \in str'[b].acc
             /\ ~str'[b].open => file'[b] = file[b] /\ "fail" \in str'[b].bits

(* Every open() does what it was asked for, and nothing changes what a     *)
(* stream that appends has found in its file.                              *)
OpenAsAsked == [][OpenDoes /\ AppendKeeps]_streamvars
=============================================================================
