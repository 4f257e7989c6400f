--------------------------- MODULE Streams_proof ----------------------------
(***************************************************************************)
(* The streams of both builds, for every mode, disposition, text and file: *)
(* what open() and CreateFile() end in (Result), that the builds keep in   *)
(* step (StreamInv), and what opening and writing do to the file.          *)
(*                                                                         *)
(* Then the text mode of the Windows build, for all sizes of the buffers,  *)
(* files and texts: what m_read_text() reads is the text (Reads), what     *)
(* m_write_text() writes is a beginning of the translated text (Writes),   *)
(* and at every step the get area and what the file still has are what was *)
(* not read of it (TextInv).                                               *)
(***************************************************************************)
EXTENDS FStream, TextMode, SequenceTheorems, FiniteSetTheorems, WellFoundedInduction, TLAPS

(* What open() and CreateFile() make of the mode and the disposition: the  *)
(* conversions end in the same, but for appending, which the Windows build *)
(* does by itself.                                                         *)
Result(b, m, create, f) ==
    IF Possible(m, create, f)
    THEN Opened(IF f = Absent \/ Empties(m, create) THEN <<>> ELSE f,
                CreateFile(b, m, create, f).acc,
                IF b = "posix" /\ create = "open_default" THEN "app" \in m ELSE FALSE)
    ELSE NotOpened(f)

Rights(m) == When("in" \in m, {"read"}) \cup When("out" \in m, {"write"})

LEMMA RightsOf ==
    ASSUME NEW m \in SUBSET Flags, m \cap {"in", "out"} # {}
    PROVE  /\ Rights(m) \in Accesses
           /\ "in" \in m <=> "read" \in Rights(m)
           /\ "out" \in m <=> "write" \in Rights(m)
  BY DEF Rights, When, Accesses

LEMMA PosixDefault ==
    ASSUME NEW m \in SUBSET Flags, m \cap {"in", "out"} # {}, NEW f
    PROVE  PosixOpen(ios_to_posix(m), f) = 
             IF Possible(m, "open_default", f)
             THEN Opened(IF f = Absent \/ Empties(m, "open_default") THEN <<>> ELSE f,
                         Rights(m), "app" \in m)
             ELSE NotOpened(f)
<1> DEFINE p == ios_to_posix(m)
<1>1. /\ p.acc = Rights(m)
      /\ p.flags = When("trunc" \in m, {"TRUNC"}) \cup When(m \cap Writing # {}, {"CREAT"})
                   \cup When("app" \in m, {"APPEND"})
  BY DEF ios_to_posix, IosAccess, Rights
<1>2. /\ "CREAT" \in p.flags <=> m \cap Writing # {}
      /\ "TRUNC" \in p.flags <=> "trunc" \in m
      /\ "APPEND" \in p.flags <=> "app" \in m
      /\ "EXCL" \notin p.flags
  BY <1>1 DEF When
<1>3. /\ Possible(m, "open_default", f) <=> (m \cap Writing = {} => f # Absent)
      /\ Empties(m, "open_default") <=> "trunc" \in m
  BY DEF Possible, Empties, MustExist
<1>4. ("APPEND" \in p.flags) = ("app" \in m)
  BY <1>2
<1> HIDE DEF p
<1>5. "trunc" \in m => m \cap Writing # {}
  BY DEF Writing
<1>6. CASE f = Absent
  BY <1>6, <1>1, <1>2, <1>3, <1>4, <1>5 DEF PosixOpen, p
<1>7. CASE f # Absent
  BY <1>7, <1>1, <1>2, <1>3, <1>4, <1>5 DEF PosixOpen, p
<1> QED
  BY <1>6, <1>7 DEF p

LEMMA PosixGiven ==
    ASSUME NEW m \in SUBSET Flags, m \cap {"in", "out"} # {}, NEW f,
           NEW create \in DOMAIN CreateFlags, create # "open_default",
           NEW w, w = [acc |-> Rights(m), create |-> create]
    PROVE  PosixOpen(win_to_posix(w), f) =
             IF Possible(m, create, f)
             THEN Opened(IF f = Absent \/ Empties(m, create) THEN <<>> ELSE f, Rights(m), FALSE)
             ELSE NotOpened(f)
<1> DEFINE p == win_to_posix(w)
<1>1. p.acc = Rights(m) /\ p.flags = CreateFlags[create]
  BY RightsOf DEF win_to_posix, Accesses
<1>2. /\ "CREAT" \in p.flags <=> create \in {"create_new", "create_always", "open_always"}
      /\ "TRUNC" \in p.flags <=> create \in {"create_always", "truncate_existing"}
      /\ "EXCL" \in p.flags <=> create = "create_new"
      /\ ("APPEND" \in p.flags) = FALSE
  BY <1>1 DEF CreateFlags
<1>3. /\ create \in {"create_new", "create_always", "open_always", "truncate_existing",
                     "open_existing"}
      /\ Empties(m, create) <=> create \in {"create_always", "truncate_existing"}
      /\ Possible(m, create, f) <=>
            /\ create \in {"open_existing", "truncate_existing"} => f # Absent
            /\ create = "create_new" => f = Absent
  BY DEF CreateFlags, Possible, Empties, MustExist
<1> QED
  BY <1>1, <1>2, <1>3 DEF PosixOpen, p

LEMMA WinDefault ==
    ASSUME NEW m \in SUBSET Flags, m \cap {"in", "out"} # {}, NEW f
    PROVE  WinOpen(ios_to_win(m), f) =
             IF Possible(m, "open_default", f)
             THEN Opened(IF f = Absent \/ Empties(m, "open_default") THEN <<>> ELSE f,
                         ios_to_win(m).acc, FALSE)
             ELSE NotOpened(f)
<1> DEFINE w == ios_to_win(m)
<1>1. w.create = IosDisposition(m)
  BY DEF ios_to_win
<1>2. /\ w.create \in {"create_always", "open_always", "open_existing"}
      /\ w.create = "create_always" <=> "trunc" \in m
      /\ w.create = "open_existing" <=> m \cap Writing = {}
  BY <1>1 DEF IosDisposition, Writing
<1>3. /\ Possible(m, "open_default", f) <=> (m \cap Writing = {} => f # Absent)
      /\ Empties(m, "open_default") <=> "trunc" \in m
  BY DEF Possible, Empties, MustExist
<1> QED
  BY <1>2, <1>3 DEF WinOpen, w

LEMMA WinGiven ==
    ASSUME NEW m \in SUBSET Flags, m \cap {"in", "out"} # {}, NEW f,
           NEW create \in DOMAIN CreateFlags, create # "open_default",
           create = "truncate_existing" => "out" \in m,
           NEW w, w = [acc |-> Rights(m), create |-> create]
    PROVE  WinOpen(w, f) =
             IF Possible(m, create, f)
             THEN Opened(IF f = Absent \/ Empties(m, create) THEN <<>> ELSE f, Rights(m), FALSE)
             ELSE NotOpened(f)
<1>1. w.acc = Rights(m) /\ w.create = create
  OBVIOUS
<1>2. create = "truncate_existing" => "write" \in Rights(m)
  BY RightsOf
<1>3. /\ create \in {"create_new", "create_always", "open_always", "truncate_existing",
                     "open_existing"}
      /\ Empties(m, create) <=> create \in {"create_always", "truncate_existing"}
      /\ Possible(m, create, f) <=>
            /\ create \in {"open_existing", "truncate_existing"} => f # Absent
            /\ create = "create_new" => f = Absent
  BY DEF CreateFlags, Possible, Empties, MustExist
<1> QED
  BY <1>1, <1>2, <1>3 DEF WinOpen

LEMMA FileCreated ==
    ASSUME NEW b \in Builds, NEW m \in SUBSET Flags, m \cap {"in", "out"} # {}, NEW f,
           NEW create \in DOMAIN CreateFlags,
           create = "truncate_existing" => "out" \in m
    PROVE  /\ CreateFile(b, m, create, f) = Result(b, m, create, f)
           /\ Possible(m, create, f) => Rights(m) \subseteq CreateFile(b, m, create, f).acc
<1> DEFINE w == [acc |-> Rights(m), create |-> create]
           r == CreateFile(b, m, create, f)
<1>1. r = IF b = "windows"
          THEN WinOpen(IF create = "open_default" THEN ios_to_win(m) ELSE w, f)
          ELSE PosixOpen(IF create = "open_default" THEN ios_to_posix(m) ELSE win_to_posix(w), f)
  BY DEF CreateFile, Rights
<1>2. CASE create = "open_default" /\ b = "windows"
  <2>1. r = WinOpen(ios_to_win(m), f)
    BY <1>1, <1>2
  <2>2. Rights(m) \subseteq ios_to_win(m).acc
    BY DEF Rights, When, ios_to_win, Writing
  <2> QED
    BY <1>2, <2>1, <2>2, WinDefault DEF Result, Opened
<1>3. CASE create = "open_default" /\ b = "posix"
  <2>1. r = PosixOpen(ios_to_posix(m), f)
    BY <1>1, <1>3
  <2> QED
    BY <1>3, <2>1, PosixDefault DEF Result, Opened
<1>4. CASE create # "open_default" /\ b = "windows"
  <2>1. r = WinOpen(w, f)
    BY <1>1, <1>4
  <2> QED
    BY <1>4, <2>1, WinGiven DEF Result, Opened
<1>5. CASE create # "open_default" /\ b = "posix"
  <2>1. r = PosixOpen(win_to_posix(w), f)
    BY <1>1, <1>5
  <2> QED
    BY <1>5, <2>1, PosixGiven DEF Result, Opened
<1> QED
  BY <1>2, <1>3, <1>4, <1>5 DEF Builds

-----------------------------------------------------------------------------
(* The streams of the two builds are in the same state, but for appending, *)
(* which in the POSIX build is the kernel's and in the other the mode's.   *)
Stream == [open : BOOLEAN, mode : SUBSET Flags, acc : SUBSET {"read", "write"},
           append : BOOLEAN, pos : Nat, bits : SUBSET {"eof", "fail"}]

Alike ==
    /\ file["posix"] = file["windows"]
    /\ str["posix"].open = str["windows"].open
    /\ str["posix"].mode = str["windows"].mode
    /\ str["posix"].pos = str["windows"].pos
    /\ str["posix"].bits = str["windows"].bits

InFile ==
    \A b \in Builds : str[b].open => file[b] \in Seq(Char) /\ str[b].pos <= Len(file[b])

Appends == str["posix"].open => (str["posix"].append <=> "app" \in str["posix"].mode)

StreamInv ==
    /\ kind \in {"none"} \cup DOMAIN Adds
    /\ file \in [Builds -> {Absent} \cup Seq(Char)]
    /\ str \in [Builds -> Stream]
    /\ Alike /\ InFile /\ Appends

LEMMA NewRecords ==
    /\ \A bits \in SUBSET {"eof", "fail"} :
          NotOpen(bits) \in Stream /\ ~NotOpen(bits).open /\ NotOpen(bits).mode = {}
          /\ NotOpen(bits).pos = 0 /\ NotOpen(bits).bits = bits
    /\ \A s \in Stream, bits \in SUBSET {"eof", "fail"} :
          /\ SetState(s, bits) \in Stream
          /\ SetState(s, bits).bits = s.bits \cup bits
          /\ SetState(s, bits).open = s.open /\ SetState(s, bits).mode = s.mode
          /\ SetState(s, bits).pos = s.pos /\ SetState(s, bits).append = s.append
  BY DEF NotOpen, SetState, Stream

LEMMA NewPosition ==
    ASSUME NEW s \in Stream, NEW p \in Nat
    PROVE  /\ [s EXCEPT !.pos = p] \in Stream
           /\ [s EXCEPT !.pos = p].pos = p
           /\ [s EXCEPT !.pos = p].open = s.open
           /\ [s EXCEPT !.pos = p].mode = s.mode
           /\ [s EXCEPT !.pos = p].bits = s.bits
           /\ [s EXCEPT !.pos = p].append = s.append
  BY DEF Stream

LEMMA NewBits ==
    ASSUME NEW s \in Stream
    PROVE  /\ [s EXCEPT !.bits = {}] \in Stream
           /\ [s EXCEPT !.bits = {}].pos = s.pos
           /\ [s EXCEPT !.bits = {}].open = s.open
           /\ [s EXCEPT !.bits = {}].mode = s.mode
           /\ [s EXCEPT !.bits = {}].bits = {}
           /\ [s EXCEPT !.bits = {}].append = s.append
  BY DEF Stream

LEMMA Overwritten ==
    ASSUME NEW f \in Seq(Char), NEW at \in 0 .. Len(f), NEW s \in Seq(Char)
    PROVE  /\ Overwrite(f, at, s) \in Seq(Char)
           /\ Len(Overwrite(f, at, s)) >= at + Len(s)
           /\ at = Len(f) => IsPrefix(f, Overwrite(f, at, s))
<1> DEFINE a == SubSeq(f, 1, at)
           c == SubSeq(f, at + Len(s) + 1, Len(f))
           o == (a \o s) \o c
<1>1. /\ a \in Seq(Char) /\ Len(a) = at
      /\ \A i \in 1 .. at : a[i] = f[i]
      /\ c \in Seq(Char)
  OBVIOUS
<1>2. Overwrite(f, at, s) = o
  BY DEF Overwrite
<1> HIDE DEF a, c
<1>3. /\ (a \o s) \in Seq(Char) /\ Len(a \o s) = at + Len(s)
      /\ \A i \in 1 .. at : (a \o s)[i] = f[i]
  <2>1. a \in Seq(Char) /\ s \in Seq(Char)
    BY <1>1
  <2>3. (a \o s) \in Seq(Char)
    BY <2>1
  <2>4. Len(a \o s) = Len(a) + Len(s)
    BY <2>1
  <2>2. \A i \in 1 .. Len(a) : (a \o s)[i] = a[i]
    BY <1>1
  <2> QED
    BY <1>1, <2>2, <2>3, <2>4
<1>4. /\ o \in Seq(Char) /\ Len(o) = at + Len(s) + Len(c) /\ Len(c) \in Nat
      /\ \A i \in 1 .. at : o[i] = f[i]
  <2>1. o \in Seq(Char) /\ Len(o) = at + Len(s) + Len(c) /\ Len(c) \in Nat
    BY <1>1, <1>3
  <2>2. \A i \in 1 .. Len(a \o s) : o[i] = (a \o s)[i]
    BY <1>1, <1>3
  <2> QED
    BY <1>1, <1>3, <2>1, <2>2
<1> HIDE DEF o
<1>5. ASSUME at = Len(f) PROVE IsPrefix(f, o)
  <2>1. Len(f) <= Len(o)
    BY <1>4, <1>5
  <2>2. SubSeq(f, 1, Len(f)) = SubSeq(o, 1, Len(f))
    BY <1>4, <1>5, <2>1
  <2> QED
    BY <2>1, <2>2 DEF IsPrefix
<1> QED
  BY <1>2, <1>4, <1>5

LEMMA StreamsInit == StreamAssumption /\ FStreamInit => StreamInv
<1> SUFFICES ASSUME FStreamInit PROVE StreamInv
  OBVIOUS
<1>1. \A f \in SeqOf(Char, 2) : f \in Seq(Char)
  <2> SUFFICES ASSUME NEW f \in SeqOf(Char, 2) PROVE f \in Seq(Char)
    OBVIOUS
  <2>1. PICK n \in 0 .. 2 : f \in [1 .. n -> Char]
    BY DEF SeqOf
  <2> QED
    BY <2>1
<1>2. file \in [Builds -> {Absent} \cup Seq(Char)] /\ file["posix"] = file["windows"]
  BY <1>1 DEF FStreamInit, Builds
<1>3. str \in [Builds -> Stream] /\ \A b \in Builds : str[b] = NotOpen({})
  BY NewRecords DEF FStreamInit
<1> QED
  BY <1>2, <1>3, NewRecords DEF StreamInv, Alike, InFile, Appends, Builds, FStreamInit

LEMMA OutputKeeps ==
    ASSUME StreamInv, AllOpen, NEW s \in Seq(Char), Output(s), kind' = kind
    PROVE  StreamInv' /\ AppendKeeps
<1> DEFINE f == file["posix"]
           at == WriteAt("posix")
<1>1. /\ f \in Seq(Char) /\ \A b \in Builds : file[b] = f
      /\ \A b \in Builds : str[b] \in Stream /\ str[b].open
      /\ \A b \in Builds : Good(b) <=> Good("posix")
  BY DEF StreamInv, Alike, InFile, AllOpen, Builds, Good
<1>2. /\ \A b \in Builds : WriteAt(b) = at
      /\ at \in 0 .. Len(f)
      /\ \A b \in Builds : "app" \in str[b].mode => at = Len(f)
  BY <1>1 DEF StreamInv, Alike, InFile, Appends, Builds, WriteAt, Stream
<1> DEFINE o == Overwrite(f, at, s)
<1>3. /\ o \in Seq(Char) /\ Len(o) >= at + Len(s)
      /\ at = Len(f) => IsPrefix(f, o)
  BY <1>1, <1>2, Overwritten
<1>4. IsPrefix(f, f)
  BY <1>1 DEF IsPrefix
<1> DEFINE p == at + Len(s)
<1>5. p \in Nat
  BY <1>1, <1>2
<1> HIDE DEF f, at, o, p
<1>6. CASE Good("posix")
  <2>1. \A b \in Builds : file'[b] = o /\ str'[b] = [str[b] EXCEPT !.pos = p]
    BY <1>1, <1>2, <1>6 DEF Output, o, p
  <2>2. file' \in [Builds -> {Absent} \cup Seq(Char)] /\ str' \in [Builds -> Stream]
    <3>1. file' \in [Builds -> {Absent} \cup Seq(Char)]
      BY <2>1, <1>3 DEF Output
    <3>2. \A b \in Builds : [str[b] EXCEPT !.pos = p] \in Stream
      BY <1>1, <1>5, NewPosition
    <3>3. \A b \in Builds : str'[b] \in Stream
      BY <3>2, <2>1
    <3> QED
      BY <3>1, <3>3 DEF Output
  <2>3. \A b \in Builds :
           /\ str'[b].pos = p /\ str'[b].open = str[b].open
           /\ str'[b].mode = str[b].mode /\ str'[b].bits = str[b].bits
           /\ str'[b].append = str[b].append
    <3> SUFFICES ASSUME NEW b \in Builds
        PROVE  /\ str'[b].pos = p /\ str'[b].open = str[b].open
               /\ str'[b].mode = str[b].mode /\ str'[b].bits = str[b].bits
               /\ str'[b].append = str[b].append
      OBVIOUS
    <3> DEFINE t == str[b]
    <3>1. t \in Stream
      BY <1>1
    <3>2. /\ [t EXCEPT !.pos = p].pos = p /\ [t EXCEPT !.pos = p].open = t.open
          /\ [t EXCEPT !.pos = p].mode = t.mode /\ [t EXCEPT !.pos = p].bits = t.bits
          /\ [t EXCEPT !.pos = p].append = t.append
      BY <3>1, <1>5, NewPosition
    <3> QED
      BY <3>2, <2>1
  <2>4. Alike' /\ InFile' /\ Appends'
    BY <2>1, <2>3, <1>1, <1>3 DEF StreamInv, Alike, InFile, Appends, Builds, p
  <2>5. AppendKeeps
    BY <2>1, <1>1, <1>2, <1>3 DEF AppendKeeps
  <2> QED
    BY <2>2, <2>4, <2>5 DEF StreamInv
<1>7. CASE ~Good("posix")
  <2>1. \A b \in Builds : file'[b] = file[b] /\ str'[b] = str[b]
    BY <1>1, <1>7 DEF Output
  <2>2. file' = file /\ str' = str
    BY <2>1 DEF Output, StreamInv
  <2>3. AppendKeeps
    BY <1>1, <1>4, <2>2 DEF AppendKeeps
  <2> QED
    BY <2>2, <2>3 DEF StreamInv, Alike, InFile, Appends
<1> QED
  BY <1>6, <1>7

(* What a call does to the streams alone, the same in both builds.         *)
LEMMA StreamsChange ==
    ASSUME StreamInv, file' = file, kind' \in {"none"} \cup DOMAIN Adds,
           str' \in [Builds -> Stream],
           str'["posix"].open = str'["windows"].open,
           str'["posix"].mode = str'["windows"].mode,
           str'["posix"].pos = str'["windows"].pos,
           str'["posix"].bits = str'["windows"].bits,
           str'["posix"].append <=> str["posix"].append,
           \A b \in Builds : str'[b].open =>
              str[b].open /\ str'[b].mode = str[b].mode /\ str'[b].pos <= Len(file[b])
    PROVE  StreamInv' /\ AppendKeeps
<1>1. StreamInv'
  BY DEF StreamInv, Alike, InFile, Appends, Builds
<1>2. \A f \in Seq(Char) : IsPrefix(f, f)
  BY DEF IsPrefix
<1>3. AppendKeeps
  BY <1>2 DEF AppendKeeps, StreamInv, InFile
<1> QED
  BY <1>1, <1>3

LEMMA ObjectKeeps ==
    ASSUME StreamInv, Destroy \/ \E k \in DOMAIN Adds : Construct(k)
    PROVE  StreamInv' /\ AppendKeeps
<1>1. /\ file' = file /\ kind' \in {"none"} \cup DOMAIN Adds
      /\ str' = [b \in Builds |-> NotOpen({})]
  BY DEF Destroy, Construct
<1>2. /\ NotOpen({}) \in Stream /\ ~NotOpen({}).open
  BY NewRecords
<1>3. str' \in [Builds -> Stream] /\ \A b \in Builds : str'[b] = NotOpen({})
  BY <1>1, <1>2
<1>4. /\ file'["posix"] = file'["windows"] /\ file' \in [Builds -> {Absent} \cup Seq(Char)]
  BY <1>1 DEF StreamInv, Alike
<1>5. StreamInv'
  BY <1>1, <1>2, <1>3, <1>4 DEF StreamInv, Alike, InFile, Appends, Builds
<1>6. \A f \in Seq(Char) : IsPrefix(f, f)
  BY DEF IsPrefix
<1> QED
  BY <1>1, <1>5, <1>6 DEF AppendKeeps, StreamInv, InFile

LEMMA CloseKeeps ==
    ASSUME StreamInv, Close
    PROVE  StreamInv' /\ AppendKeeps
<1>1. \A b \in Builds : str[b] \in Stream /\ str[b].bits \in SUBSET {"eof", "fail"}
  BY DEF StreamInv, Stream
<1>2. \A b \in Builds : str'[b] = IF str[b].open THEN NotOpen(str[b].bits)
                                  ELSE SetState(str[b], {"fail"})
  BY DEF Close
<1>3. file' = file /\ kind' = kind
  BY DEF Close
<1>4. \A b \in Builds : str[b].open => str'[b] \in Stream /\ ~str'[b].open /\ str'[b].mode = {}
                              /\ str'[b].pos = 0 /\ str'[b].bits = str[b].bits
  BY <1>1, <1>2, NewRecords
<1>5. \A b \in Builds : ~str[b].open => str'[b] \in Stream /\ ~str'[b].open
                              /\ str'[b].mode = str[b].mode /\ str'[b].pos = str[b].pos
                              /\ str'[b].bits = str[b].bits \cup {"fail"}
  <2>1. {"fail"} \in SUBSET {"eof", "fail"}
    OBVIOUS
  <2>2. \A b \in Builds : LET t == SetState(str[b], {"fail"}) IN
           /\ t \in Stream /\ t.bits = str[b].bits \cup {"fail"} /\ t.open = str[b].open
           /\ t.mode = str[b].mode /\ t.pos = str[b].pos
    BY <1>1, <2>1, NewRecords
  <2> QED
    BY <1>2, <2>2
<1>6. \A b \in Builds : str'[b] \in Stream /\ ~str'[b].open
  BY <1>4, <1>5
<1>7. str' \in [Builds -> Stream]
  BY <1>6 DEF Close
<1>8. Alike'
  BY <1>3, <1>4, <1>5, <1>6 DEF StreamInv, Alike, Builds
<1>9. StreamInv'
  BY <1>3, <1>6, <1>7, <1>8 DEF StreamInv, InFile, Appends, Builds
<1>10. \A f \in Seq(Char) : IsPrefix(f, f)
  BY DEF IsPrefix
<1> QED
  BY <1>3, <1>9, <1>10 DEF AppendKeeps, StreamInv, InFile

LEMMA PutKeeps ==
    ASSUME StreamInv, NEW s \in Seq(Char), (s # <<>> /\ PutWide(s)) \/ \E c \in Char : s = <<c>> /\ Put(c)
    PROVE  StreamInv' /\ AppendKeeps
<1>1. AllOpen /\ Output(s) /\ kind' = kind
  BY DEF PutWide, Put
<1> QED
  BY <1>1, OutputKeeps

(* What the calls that get, seek and clear leave as it is.                 *)
Turned(b, p, bits) ==
    /\ str'[b] \in Stream
    /\ str'[b].open = str[b].open /\ str'[b].mode = str[b].mode
    /\ (str'[b].append <=> str[b].append)
    /\ str'[b].pos = p /\ str'[b].bits = bits

LEMMA TurnedKeeps ==
    ASSUME StreamInv, file' = file, kind' = kind, DOMAIN str' = Builds,
           str' = [b \in Builds |-> str'[b]],
           NEW p \in Nat, NEW bits,
           \A b \in Builds : Turned(b, p, bits),
           \A b \in Builds : str[b].open => p <= Len(file[b])
    PROVE  StreamInv' /\ AppendKeeps
<1>1. str' \in [Builds -> Stream]
  BY DEF Turned
<1>2. \A b \in Builds : str'[b].open => str[b].open /\ str'[b].mode = str[b].mode
                                        /\ str'[b].pos <= Len(file[b])
  BY DEF Turned
<1>3. /\ str'["posix"].open = str'["windows"].open
      /\ str'["posix"].mode = str'["windows"].mode
      /\ str'["posix"].pos = str'["windows"].pos
      /\ str'["posix"].bits = str'["windows"].bits
      /\ str'["posix"].append <=> str["posix"].append
  BY DEF Turned, Builds, StreamInv, Alike
<1>4. kind' \in {"none"} \cup DOMAIN Adds
  BY DEF StreamInv
<1> QED
  BY <1>1, <1>2, <1>3, <1>4, StreamsChange

LEMMA Turnings ==
    ASSUME StreamInv, NEW b \in Builds
    PROVE  /\ str'[b] = str[b] => Turned(b, str[b].pos, str[b].bits)
           /\ \A bits \in SUBSET {"eof", "fail"} :
                 str'[b] = SetState(str[b], bits) => Turned(b, str[b].pos, str[b].bits \cup bits)
           /\ \A p \in Nat : str'[b] = [str[b] EXCEPT !.pos = p] => Turned(b, p, str[b].bits)
           /\ \A p \in Nat, bits \in SUBSET {"eof", "fail"} :
                 str'[b] = [SetState(str[b], bits) EXCEPT !.pos = p]
                    => Turned(b, p, str[b].bits \cup bits)
           /\ str'[b] = [str[b] EXCEPT !.bits = {}] => Turned(b, str[b].pos, {})
<1> DEFINE s == str[b]
<1>1. s \in Stream
  BY DEF StreamInv
<1>2. s' = s => Turned(b, s.pos, s.bits)
  <2> SUFFICES ASSUME str'[b] = str[b] PROVE Turned(b, str[b].pos, str[b].bits)
    OBVIOUS
  <2>1. str'[b] \in Stream
    BY <1>1
  <2> QED
    BY <2>1, Zenon DEF Turned
<1>3. ASSUME NEW bits \in SUBSET {"eof", "fail"}, s' = SetState(s, bits)
      PROVE  Turned(b, s.pos, s.bits \cup bits)
  <2> DEFINE t == SetState(s, bits)
  <2>1. /\ t \in Stream /\ t.open = s.open /\ t.mode = s.mode /\ t.append = s.append
        /\ t.bits = s.bits \cup bits /\ t.pos = s.pos
    <3> HIDE DEF s
    <3> QED
      BY <1>1, NewRecords, Zenon
  <2> HIDE DEF t
  <2>2. s' = t
    BY <1>3 DEF t
  <2> QED
    BY <2>1, <2>2 DEF Turned
<1>4. ASSUME NEW p \in Nat, s' = [s EXCEPT !.pos = p]
      PROVE  Turned(b, p, s.bits)
  BY <1>1, <1>4, NewPosition DEF Turned
<1>5. ASSUME NEW p \in Nat, NEW bits \in SUBSET {"eof", "fail"},
             s' = [SetState(s, bits) EXCEPT !.pos = p]
      PROVE  Turned(b, p, s.bits \cup bits)
  <2> DEFINE t == SetState(s, bits)
  <2>1. t \in Stream /\ t.open = s.open /\ t.mode = s.mode /\ t.append = s.append
        /\ t.bits = s.bits \cup bits
    <3> HIDE DEF s
    <3> QED
      BY <1>1, NewRecords, Zenon
  <2> HIDE DEF t
  <2>2. s' = [t EXCEPT !.pos = p]
    BY <1>5 DEF t
  <2> QED
    BY <2>1, <2>2, NewPosition DEF Turned
<1>6. s' = [s EXCEPT !.bits = {}] => Turned(b, s.pos, {})
  BY <1>1, NewBits DEF Turned
<1> QED
  BY <1>2, <1>3, <1>4, <1>5, <1>6

LEMMA TurnsKeep ==
    ASSUME StreamInv, Get \/ GetWide \/ Rewind \/ Clear \/ PutWide(<<>>)
    PROVE  StreamInv' /\ AppendKeeps
<1> DEFINE s == str["posix"]
           f == file["posix"]
<1>1. /\ \A b \in Builds : /\ str[b] \in Stream /\ str[b].pos = s.pos /\ str[b].bits = s.bits
                           /\ str[b].open = s.open /\ file[b] = f
                           /\ Good(b) <=> s.bits = {}
      /\ s.pos \in Nat /\ s.bits \in SUBSET {"eof", "fail"}
      /\ s.open => f \in Seq(Char) /\ s.pos <= Len(f)
  BY DEF StreamInv, Alike, InFile, Builds, Good, Stream
<1>2. /\ DOMAIN str' = Builds /\ str' = [b \in Builds |-> str'[b]]
      /\ file' = file /\ kind' = kind
  BY DEF Get, GetWide, Rewind, Clear, PutWide
<1> HIDE DEF s, f
<1>3. ASSUME NEW p \in Nat, NEW bits, \A b \in Builds : Turned(b, p, bits), s.open => p <= Len(f)
      PROVE  StreamInv' /\ AppendKeeps
  BY <1>1, <1>2, <1>3, TurnedKeeps
<1>4. {"fail"} \in SUBSET {"eof", "fail"} /\ {"eof"} \in SUBSET {"eof", "fail"}
      /\ {"eof", "fail"} \in SUBSET {"eof", "fail"}
  OBVIOUS
<1>5. CASE Get
  <2>1. s.open
    BY <1>1, <1>5 DEF Get, AllOpen, Builds
  <2>2. CASE s.bits # {}
    <3>1. \A b \in Builds : str'[b] = SetState(str[b], {"fail"})
      BY <1>1, <1>5, <2>2 DEF Get
    <3>2. \A b \in Builds : Turned(b, s.pos, s.bits \cup {"fail"})
      BY <1>1, <1>4, <3>1, Turnings
    <3> QED
      BY <1>1, <1>3, <3>2
  <2>3. CASE s.bits = {} /\ s.pos < Len(f)
    <3>1. \A b \in Builds : str'[b] = [str[b] EXCEPT !.pos = s.pos + 1]
      BY <1>1, <1>5, <2>3 DEF Get
    <3>2. \A b \in Builds : Turned(b, s.pos + 1, s.bits)
      <4>1. s.pos + 1 \in Nat
        BY <1>1
      <4> QED
        BY <1>1, <3>1, <4>1, Turnings
    <3>3. s.pos + 1 \in Nat /\ s.pos + 1 <= Len(f)
      BY <1>1, <2>1, <2>3
    <3> QED
      BY <1>3, <3>2, <3>3
  <2>4. CASE s.bits = {} /\ ~(s.pos < Len(f))
    <3>1. \A b \in Builds : str'[b] = SetState(str[b], {"eof", "fail"})
      BY <1>1, <1>5, <2>4 DEF Get
    <3>2. \A b \in Builds : Turned(b, s.pos, s.bits \cup {"eof", "fail"})
      BY <1>1, <1>4, <3>1, Turnings
    <3> QED
      BY <1>1, <1>3, <3>2
  <2> QED
    BY <2>2, <2>3, <2>4
<1>6. CASE GetWide
  <2>1. s.open
    BY <1>1, <1>6 DEF GetWide, AllOpen, Builds
  <2>2. CASE s.bits # {}
    <3>1. \A b \in Builds : str'[b] = SetState(str[b], {"fail"})
      BY <1>1, <1>6, <2>2 DEF GetWide
    <3>2. \A b \in Builds : Turned(b, s.pos, s.bits \cup {"fail"})
      BY <1>1, <1>4, <3>1, Turnings
    <3> QED
      BY <1>1, <1>3, <3>2
  <2>3. CASE s.bits = {} /\ s.pos < Len(f)
    <3>1. \A b \in Builds : str'[b] = [SetState(str[b], {"eof"}) EXCEPT !.pos = Len(f)]
      BY <1>1, <1>6, <2>3 DEF GetWide
    <3>2. \A b \in Builds : Turned(b, Len(f), s.bits \cup {"eof"})
      <4>1. Len(f) \in Nat
        BY <1>1, <2>1
      <4> QED
        BY <1>1, <1>4, <3>1, <4>1, Turnings
    <3>3. Len(f) \in Nat /\ Len(f) <= Len(f)
      BY <1>1, <2>1
    <3> QED
      BY <1>3, <3>2, <3>3
  <2>4. CASE s.bits = {} /\ ~(s.pos < Len(f))
    <3>1. \A b \in Builds : str'[b] = SetState(str[b], {"eof", "fail"})
      BY <1>1, <1>6, <2>4 DEF GetWide
    <3>2. \A b \in Builds : Turned(b, s.pos, s.bits \cup {"eof", "fail"})
      BY <1>1, <1>4, <3>1, Turnings
    <3> QED
      BY <1>1, <1>3, <3>2
  <2> QED
    BY <2>2, <2>3, <2>4
<1>7. CASE Rewind
  <2>1. CASE "fail" \in s.bits
    <3>1. \A b \in Builds : str'[b] = str[b]
      BY <1>1, <1>7, <2>1 DEF Rewind
    <3>2. \A b \in Builds : Turned(b, s.pos, s.bits)
      BY <1>1, <3>1, Turnings
    <3> QED
      BY <1>1, <1>3, <3>2
  <2>2. CASE "fail" \notin s.bits
    <3>1. \A b \in Builds : str'[b] = [str[b] EXCEPT !.pos = 0]
      BY <1>1, <1>7, <2>2 DEF Rewind
    <3>2. \A b \in Builds : Turned(b, 0, s.bits)
      BY <1>1, <3>1, Turnings
    <3>3. 0 \in Nat /\ (s.open => 0 <= Len(f))
      BY <1>1
    <3> QED
      BY <1>3, <3>2, <3>3
  <2> QED
    BY <2>1, <2>2
<1>8. CASE Clear
  <2>1. \A b \in Builds : str'[b] = [str[b] EXCEPT !.bits = {}]
    BY <1>8 DEF Clear
  <2>2. \A b \in Builds : Turned(b, s.pos, {})
    BY <1>1, <2>1, Turnings
  <2> QED
    BY <1>1, <1>3, <2>2
<1>9. CASE PutWide(<<>>)
  <2>1. \A b \in Builds : str'[b] = SetState(str[b], {"fail"})
    BY <1>9 DEF PutWide
  <2>2. \A b \in Builds : Turned(b, s.pos, s.bits \cup {"fail"})
    BY <1>1, <1>4, <2>1, Turnings
  <2> QED
    BY <1>1, <1>3, <2>2
<1> QED
  BY <1>5, <1>6, <1>7, <1>8, <1>9

LEMMA UnlinkKeeps ==
    ASSUME StreamInv, Unlink
    PROVE  StreamInv' /\ AppendKeeps
<1>1. /\ \A b \in Builds : file'[b] = Absent /\ ~str[b].open
      /\ str' = str /\ kind' = kind
      /\ file' \in [Builds -> {Absent} \cup Seq(Char)]
  BY DEF Unlink
<1> QED
  BY <1>1 DEF StreamInv, Alike, InFile, Appends, AppendKeeps, Builds

LEMMA ResultIs ==
    ASSUME NEW b \in Builds, NEW m \in SUBSET Flags, m \cap {"in", "out"} # {}, NEW f,
           NEW create \in DOMAIN CreateFlags,
           create = "truncate_existing" => "out" \in m,
           NEW r, r = CreateFile(b, m, create, f)
    PROVE  /\ r.ok <=> Possible(m, create, f)
           /\ r.ok => /\ r.file = IF f = Absent \/ Empties(m, create) THEN <<>> ELSE f
                      /\ Rights(m) \subseteq r.acc /\ r.acc \in SUBSET {"read", "write"}
                      /\ r.append \in BOOLEAN
                      /\ b = "posix" /\ create = "open_default" => (r.append <=> "app" \in m)
                      /\ ~(b = "posix" /\ create = "open_default") => ~r.append
           /\ ~r.ok => r.file = f
<1>1. r = Result(b, m, create, f)
  BY FileCreated
<1>2. Possible(m, create, f) => Rights(m) \subseteq r.acc
  BY FileCreated
<1>3. ASSUME Possible(m, create, f) PROVE r.acc \in SUBSET {"read", "write"}
  <2>1. r.acc = Rights(m) \/ r.acc = ios_to_win(m).acc
    BY <1>3, FileCreated, PosixDefault, PosixGiven, WinDefault, WinGiven DEF CreateFile, Opened, Rights, Builds
  <2> QED
    BY <2>1 DEF Rights, When, ios_to_win
<1>4. ASSUME Possible(m, create, f)
      PROVE  /\ r.ok /\ r.file = IF f = Absent \/ Empties(m, create) THEN <<>> ELSE f
  BY <1>1, <1>4 DEF Result, Opened
<1>5. ASSUME ~Possible(m, create, f) PROVE ~r.ok /\ r.file = f
  BY <1>1, <1>5 DEF Result, NotOpened
<1> DEFINE appends == b = "posix" /\ create = "open_default"
<1>7. ASSUME Possible(m, create, f), appends, "app" \in m PROVE r.append = TRUE
  <2>1. r = Opened(IF f = Absent \/ Empties(m, create) THEN <<>> ELSE f, r.acc, "app" \in m)
    BY <1>1, <1>7, Zenon DEF Result
  <2>2. ("app" \in m) = TRUE
    BY <1>7
  <2>3. r = Opened(IF f = Absent \/ Empties(m, create) THEN <<>> ELSE f, r.acc, TRUE)
    BY <2>1, <2>2, Zenon
  <2> QED
    BY <2>3 DEF Opened
<1>8. ASSUME Possible(m, create, f), appends, "app" \notin m PROVE r.append = FALSE
  <2>1. r = Opened(IF f = Absent \/ Empties(m, create) THEN <<>> ELSE f, r.acc, "app" \in m)
    BY <1>1, <1>8, Zenon DEF Result
  <2>2. ("app" \in m) = FALSE
    BY <1>8
  <2>3. r = Opened(IF f = Absent \/ Empties(m, create) THEN <<>> ELSE f, r.acc, FALSE)
    BY <2>1, <2>2, Zenon
  <2> QED
    BY <2>3 DEF Opened
<1>9. ASSUME Possible(m, create, f), ~appends PROVE r.append = FALSE
  BY <1>1, <1>9 DEF Result, Opened
<1>6. CASE Possible(m, create, f)
  <2>1. /\ b = "posix" /\ create = "open_default" => (r.append <=> "app" \in m)
        /\ ~(b = "posix" /\ create = "open_default") => ~r.append
        /\ r.append \in BOOLEAN
    BY <1>6, <1>7, <1>8, <1>9
  <2> QED
    BY <1>2, <1>3, <1>4, <1>6, <2>1
<1> QED
  BY <1>5, <1>6

LEMMA OpenKeeps ==
    ASSUME StreamInv, ~AppendCreates, ~TruncateToRead,
           NEW arg \in ModeArgs, NEW create \in CreateArgs, Open(arg, create)
    PROVE  StreamInv' /\ AppendKeeps /\ OpenDoes
<1> DEFINE m == arg \cup Adds[kind]
           r(b) == CreateFile(b, m, create, file[b])
           f == file["posix"]
           s == str["posix"]
<1>1. /\ m \in SUBSET Flags /\ m \cap {"in", "out"} # {}
      /\ create \in DOMAIN CreateFlags
      /\ create # "open_default" => "app" \notin m
      /\ create = "truncate_existing" => "out" \in m
      /\ kind' = kind /\ asked' = <<"open", m, create>>
  <2>1. /\ DOMAIN Adds = {"ifstream", "ofstream", "fstream"}
        /\ Adds["ifstream"] = {"in"} /\ Adds["ofstream"] = {"out"}
        /\ Adds["fstream"] = {"in", "out"}
    BY DEF Adds
  <2>2. kind \in {"ifstream", "ofstream", "fstream"}
    BY <2>1 DEF Open, StreamInv
  <2>3. Adds[kind] \subseteq {"in", "out"} /\ Adds[kind] # {}
    BY <2>1, <2>2
  <2> QED
    BY <2>3, StreamAssumption DEF Open, Flags
<1>2. \A b \in Builds :
         /\ str[b] \in Stream /\ str[b].open = s.open /\ file[b] = f
         /\ str[b].mode = s.mode /\ str[b].pos = s.pos /\ str[b].bits = s.bits
         /\ file[b] \in {Absent} \cup Seq(Char)
         /\ str[b].open => file[b] \in Seq(Char)
  BY DEF StreamInv, Alike, InFile, Builds
<1> HIDE DEF m
<1>3. \A b \in Builds :
         /\ file'[b] = IF str[b].open THEN file[b] ELSE r(b).file
         /\ str'[b] = IF str[b].open \/ ~r(b).ok THEN SetState(str[b], {"fail"})
                      ELSE [open |-> TRUE, mode |-> m, acc |-> r(b).acc, append |-> r(b).append,
                            pos |-> IF "ate" \in m THEN Len(r(b).file) ELSE 0, bits |-> {}]
  BY DEF Open, Opening, m
<1>10. file' = [b \in Builds |-> file'[b]] /\ str' = [b \in Builds |-> str'[b]]
  BY DEF Open
<1>4. \A b \in Builds : 
         /\ r(b).ok <=> Possible(m, create, f)
         /\ r(b).ok => /\ r(b).file = IF f = Absent \/ Empties(m, create) THEN <<>> ELSE f
                       /\ Rights(m) \subseteq r(b).acc /\ r(b).acc \in SUBSET {"read", "write"}
                       /\ r(b).append \in BOOLEAN
                       /\ b = "posix" => (r(b).append <=> "app" \in m)
         /\ ~r(b).ok => r(b).file = f
  BY <1>1, <1>2, ResultIs
<1> HIDE DEF r, f, s
<1> DEFINE g == IF f = Absent \/ Empties(m, create) THEN <<>> ELSE f
<1>5. \A b \in Builds : str[b].open \/ ~r(b).ok =>
         /\ file'[b] = file[b] /\ str'[b] \in Stream
         /\ str'[b].open = str[b].open /\ str'[b].mode = str[b].mode
         /\ str'[b].pos = str[b].pos /\ str'[b].bits = str[b].bits \cup {"fail"}
         /\ str'[b].append = str[b].append
  <2>1. {"fail"} \in SUBSET {"eof", "fail"}
    OBVIOUS
  <2>2. ASSUME NEW b \in Builds, NEW t, t = SetState(str[b], {"fail"})
        PROVE  /\ t \in Stream /\ t.bits = str[b].bits \cup {"fail"} /\ t.open = str[b].open
               /\ t.mode = str[b].mode /\ t.pos = str[b].pos /\ t.append = str[b].append
    BY <1>2, <2>1, <2>2, NewRecords
  <2>3. \A b \in Builds : str[b].open \/ ~r(b).ok =>
           file'[b] = file[b] /\ str'[b] = SetState(str[b], {"fail"})
    BY <1>2, <1>3, <1>4
  <2> QED
    BY <2>2, <2>3
<1>6. ASSUME NEW b \in Builds, ~str[b].open, r(b).ok
      PROVE  /\ file'[b] = g /\ g \in Seq(Char)
             /\ str'[b] \in Stream
             /\ str'[b].open /\ str'[b].mode = m /\ str'[b].bits = {}
             /\ str'[b].pos = (IF "ate" \in m THEN Len(g) ELSE 0)
             /\ str'[b].pos <= Len(g)
             /\ str'[b].acc = r(b).acc
             /\ b = "posix" => (str'[b].append <=> "app" \in m)
  <2>1. file'[b] = g /\ r(b).file = g
    BY <1>2, <1>3, <1>4, <1>6
  <2>2. g \in Seq(Char)
    BY <1>2, <1>6
  <2> HIDE DEF g
  <2> DEFINE p == IF "ate" \in m THEN Len(g) ELSE 0
  <2>3. p \in Nat /\ p <= Len(g)
    BY <2>2
  <2>4. str'[b] = [open |-> TRUE, mode |-> m, acc |-> r(b).acc, append |-> r(b).append,
                   pos |-> p, bits |-> {}]
    BY <1>3, <1>6, <2>1
  <2> HIDE DEF p
  <2>5. m \in SUBSET Flags /\ r(b).acc \in SUBSET {"read", "write"} /\ r(b).append \in BOOLEAN
    BY <1>1, <1>4, <1>6
  <2>6. str'[b] \in Stream
    BY <2>3, <2>4, <2>5 DEF Stream
  <2>7. /\ str'[b].open /\ str'[b].mode = m /\ str'[b].bits = {}
        /\ str'[b].pos = p /\ str'[b].acc = r(b).acc
        /\ str'[b].append = r(b).append
    BY <2>4
  <2> QED
    BY <1>4, <1>6, <2>1, <2>2, <2>3, <2>6, <2>7 DEF p
<1>7. s.open \/ ~Possible(m, create, f) \/ (~s.open /\ Possible(m, create, f))
  OBVIOUS
<1> HIDE DEF g
<1>8. CASE s.open \/ ~Possible(m, create, f)
  <2>1. \A b \in Builds : str[b].open \/ ~r(b).ok
    BY <1>2, <1>4, <1>8
  <2>2. str' \in [Builds -> Stream]
    <3>1. \A b \in Builds : str'[b] \in Stream
      BY <1>5, <2>1
    <3> QED
      BY <1>10, <3>1
  <2>3. file' = file
    <3>1. \A b \in Builds : file'[b] = file[b]
      BY <1>5, <2>1
    <3>2. file \in [Builds -> {Absent} \cup Seq(Char)]
      BY DEF StreamInv
    <3> QED
      BY <1>10, <3>1, <3>2
  <2>4. /\ str'["posix"].open = str'["windows"].open
        /\ str'["posix"].mode = str'["windows"].mode
        /\ str'["posix"].pos = str'["windows"].pos
        /\ str'["posix"].bits = str'["windows"].bits
        /\ str'["posix"].append <=> str["posix"].append
    BY <1>2, <1>5, <2>1 DEF Builds
  <2>5. \A b \in Builds : str'[b].open =>
              str[b].open /\ str'[b].mode = str[b].mode /\ str'[b].pos <= Len(file[b])
    BY <1>5, <2>1 DEF StreamInv, InFile
  <2>6. StreamInv' /\ AppendKeeps
    <3>1. kind' \in {"none"} \cup DOMAIN Adds
      BY <1>1 DEF StreamInv
    <3> QED
      BY <2>2, <2>3, <2>4, <2>5, <3>1, StreamsChange
  <2>7. OpenDoes
    <3>1. \A b \in Builds : ~str[b].open =>
             /\ str'[b].open = FALSE /\ Possible(m, create, file[b]) = FALSE
             /\ file'[b] = file[b] /\ "fail" \in str'[b].bits
      BY <1>2, <1>5, <1>8, <2>1 DEF Stream, Possible
    <3>2. \A m2, c2 : asked' = <<"open", m2, c2>> => m2 = m /\ c2 = create
      BY <1>1
    <3> QED
      BY <3>1, <3>2 DEF OpenDoes
  <2> QED
    BY <2>6, <2>7
<1>9. CASE ~s.open /\ Possible(m, create, f)
  <2>1. \A b \in Builds : ~str[b].open /\ r(b).ok
    BY <1>2, <1>4, <1>9
  <2>2. /\ \A b \in Builds : str'[b] \in Stream /\ file'[b] = g
        /\ g \in Seq(Char)
    BY <1>6, <2>1 DEF Builds
  <2>3. str' \in [Builds -> Stream] /\ file' \in [Builds -> {Absent} \cup Seq(Char)]
    <3>1. str' \in [Builds -> Stream]
      BY <1>10, <2>2
    <3>2. file' \in [Builds -> {Absent} \cup Seq(Char)]
      BY <1>10, <2>2
    <3> QED
      BY <3>1, <3>2
  <2>4. Alike' /\ InFile' /\ Appends'
    <3> DEFINE p == IF "ate" \in m THEN Len(g) ELSE 0
    <3>1. \A b \in Builds : /\ str'[b].open /\ str'[b].mode = m /\ str'[b].bits = {}
                            /\ str'[b].pos = p /\ str'[b].pos <= Len(g) /\ str'[b] \in Stream
      BY <1>6, <2>1
    <3>2. str'["posix"].append <=> "app" \in m
      BY <1>6, <2>1 DEF Builds
    <3> HIDE DEF p
    <3>3. str'["posix"].open = str'["windows"].open
      BY <3>1 DEF Stream, Builds
    <3> QED
      BY <3>1, <3>2, <3>3, <2>2 DEF Alike, InFile, Appends, Builds
  <2>5. StreamInv'
    BY <1>1, <2>3, <2>4 DEF StreamInv
  <2>6. AppendKeeps
    BY <2>1 DEF AppendKeeps
  <2>7. OpenDoes
    <3>1. \A b \in Builds :
             /\ str'[b].open = TRUE /\ Possible(m, create, file[b]) = TRUE /\ str'[b].bits = {}
             /\ file'[b] = IF file[b] = Absent \/ Empties(m, create) THEN <<>> ELSE file[b]
      <4>1. \A b \in Builds : str'[b].open /\ str'[b] \in Stream
        BY <1>6, <2>1
      <4>2. \A b \in Builds : str'[b].open = TRUE
        BY <4>1 DEF Stream
      <4> QED
        BY <1>2, <1>6, <1>9, <2>1, <2>2, <4>2 DEF Possible, g
    <3>2. \A b \in Builds : Rights(m) \subseteq str'[b].acc
      BY <1>4, <1>6, <2>1
    <3>3. ("in" \in m => "read" \in Rights(m)) /\ ("out" \in m => "write" \in Rights(m))
      BY <1>1, RightsOf
    <3>4. \A m2, c2 : asked' = <<"open", m2, c2>> => m2 = m /\ c2 = create
      BY <1>1
    <3> QED
      BY <3>1, <3>2, <3>3, <3>4 DEF OpenDoes
  <2> QED
    BY <2>5, <2>6, <2>7
<1> QED
  BY <1>7, <1>8, <1>9

LEMMA OtherCalls ==
    ASSUME Len(asked') < 3
    PROVE  OpenDoes
<1>1. \A m, create : Len(<<"open", m, create>>) = 3
  OBVIOUS
<1>2. \A m, create : asked' # <<"open", m, create>>
  BY <1>1
<1> QED
  BY <1>2 DEF OpenDoes

LEMMA StreamsStep ==
    ASSUME StreamInv, ~AppendCreates, ~TruncateToRead, [FStreamNext]_streamvars
    PROVE  StreamInv' /\ [OpenDoes /\ AppendKeeps]_streamvars
<1>1. CASE \E k \in DOMAIN Adds : Construct(k)
  <2>1. asked' = <<"construct">>
    BY <1>1 DEF Construct
  <2> QED
    BY <1>1, <2>1, ObjectKeeps, OtherCalls
<1>2. CASE Destroy
  <2>1. asked' = <<"destroy">>
    BY <1>2 DEF Destroy
  <2> QED
    BY <1>2, <2>1, ObjectKeeps, OtherCalls
<1>3. CASE \E m \in ModeArgs, create \in CreateArgs : Open(m, create)
  BY <1>3, OpenKeeps
<1>4. CASE Close
  <2>1. asked' = <<"close">>
    BY <1>4 DEF Close
  <2> QED
    BY <1>4, <2>1, CloseKeeps, OtherCalls
<1>5. ASSUME NEW c \in Char, Put(c)
      PROVE  StreamInv' /\ AppendKeeps /\ OpenDoes
  <2>1. asked' = <<"put", c>> /\ <<c>> \in Seq(Char)
    BY <1>5 DEF Put
  <2>2. Len(asked') < 3
    BY <2>1
  <2> QED
    BY <1>5, <2>1, <2>2, PutKeeps, OtherCalls
<1>6. ASSUME NEW c \in Char, PutWide(<<c, c>>)
      PROVE  StreamInv' /\ AppendKeeps /\ OpenDoes
  <2>1. asked' = <<"putwide", <<c, c>>>>
    BY <1>6 DEF PutWide
  <2>2. <<c, c>> \in Seq(Char) /\ <<c, c>> # <<>>
    OBVIOUS
  <2>3. Len(asked') < 3
    BY <2>1
  <2>4. StreamInv' /\ AppendKeeps
    BY <1>6, <2>2, PutKeeps
  <2> QED
    BY <2>3, <2>4, OtherCalls
<1>7. CASE PutWide(<<>>)
  <2>1. Len(asked') = 2
    BY <1>7 DEF PutWide
  <2> QED
    BY <1>7, <2>1, TurnsKeep, OtherCalls
<1>8. CASE Get \/ GetWide \/ Rewind \/ Clear
  <2>1. Len(asked') = 1
    BY <1>8 DEF Get, GetWide, Rewind, Clear
  <2> QED
    BY <1>8, <2>1, TurnsKeep, OtherCalls
<1>9. CASE Unlink
  <2>1. asked' = <<"unlink">>
    BY <1>9 DEF Unlink
  <2> QED
    BY <1>9, <2>1, UnlinkKeeps, OtherCalls
<1>10. CASE UNCHANGED streamvars
  BY <1>10 DEF streamvars, StreamInv, Alike, InFile, Appends
<1> QED
  BY <1>1, <1>2, <1>3, <1>4, <1>5, <1>6, <1>7, <1>8, <1>9, <1>10 DEF FStreamNext

-----------------------------------------------------------------------------
(* The conversions of modes among themselves.                              *)
LEMMA NoAppend ==
    ASSUME NEW ok \in BOOLEAN, NEW g, NEW acc, NEW append \in BOOLEAN,
           NEW r, r = [ok |-> ok, file |-> g, acc |-> acc, append |-> append]
    PROVE  [r EXCEPT !.append = FALSE] = [ok |-> ok, file |-> g, acc |-> acc, append |-> FALSE]
<1> DEFINE R == [ok : BOOLEAN, file : {g}, acc : {acc}, append : BOOLEAN]
           e == [r EXCEPT !.append = FALSE]
           x == [ok |-> ok, file |-> g, acc |-> acc, append |-> FALSE]
<1>1. r \in R /\ r.ok = ok /\ r.file = g /\ r.acc = acc
  OBVIOUS
<1>2. e \in R /\ e.ok = ok /\ e.file = g /\ e.acc = acc /\ e.append = FALSE
  BY <1>1
<1>3. x \in R /\ x.ok = ok /\ x.file = g /\ x.acc = acc /\ x.append = FALSE
  OBVIOUS
<1>4. \A a, b \in R : a.ok = b.ok /\ a.file = b.file /\ a.acc = b.acc /\ a.append = b.append => a = b
  OBVIOUS
<1> HIDE DEF R, e, x
<1>5. e = x
  BY <1>2, <1>3, <1>4
<1> QED
  BY <1>5 DEF e, x

LEMMA ModesRoundTrip ==
    ASSUME NEW p \in PosixModes, NEW f
    PROVE  PosixOpen(win_to_posix(posix_to_win(p)), f)
             = [PosixOpen(p, f) EXCEPT !.append = FALSE]
<1> DEFINE q == win_to_posix(posix_to_win(p))
<1>1. p.acc \in Accesses /\ p.flags \in SUBSET {"CREAT", "EXCL", "TRUNC", "APPEND"}
  BY DEF PosixModes
<1>2. posix_to_win(p).acc = p.acc /\ posix_to_win(p).create = Disposition(p.flags)
  BY DEF posix_to_win
<1>3. q.acc = p.acc /\ q.flags = CreateFlags[Disposition(p.flags)]
  BY <1>1, <1>2 DEF win_to_posix, Accesses
<1>4. /\ "CREAT" \in q.flags <=> "CREAT" \in p.flags
      /\ "EXCL" \in q.flags <=> {"CREAT", "EXCL"} \subseteq p.flags
      /\ "TRUNC" \in q.flags <=> "TRUNC" \in p.flags /\ ~({"CREAT", "EXCL"} \subseteq p.flags)
      /\ ("APPEND" \in q.flags) = FALSE
  BY <1>1, <1>3 DEF Disposition, CreateFlags
<1> HIDE DEF q
<1>5. \A g, acc : \A append \in BOOLEAN :
         [Opened(g, acc, append) EXCEPT !.append = FALSE] = Opened(g, acc, FALSE)
  <2> TAKE g, acc
  <2> TAKE append \in BOOLEAN
  <2> QED
    BY NoAppend, Zenon DEF Opened
<1>6. [NotOpened(f) EXCEPT !.append = FALSE] = NotOpened(f)
  BY NoAppend DEF NotOpened
<1>7. ASSUME NEW g, NEW acc
      PROVE  [Opened(g, acc, "APPEND" \in p.flags) EXCEPT !.append = FALSE] = Opened(g, acc, FALSE)
  <2>1. CASE "APPEND" \in p.flags
    <3>1. ("APPEND" \in p.flags) = TRUE
      BY <2>1
    <3>2. [Opened(g, acc, TRUE) EXCEPT !.append = FALSE] = Opened(g, acc, FALSE)
      BY <1>5
    <3> QED
      BY <3>1, <3>2, Zenon
  <2>2. CASE "APPEND" \notin p.flags
    <3>1. ("APPEND" \in p.flags) = FALSE
      BY <2>2
    <3>2. [Opened(g, acc, FALSE) EXCEPT !.append = FALSE] = Opened(g, acc, FALSE)
      BY <1>5
    <3> QED
      BY <3>1, <3>2, Zenon
  <2> QED
    BY <2>1, <2>2
<1>8. CASE f = Absent /\ "CREAT" \in p.flags
  <2>1. PosixOpen(q, f) = Opened(<<>>, p.acc, FALSE)
    BY <1>3, <1>4, <1>8 DEF PosixOpen
  <2>2. PosixOpen(p, f) = Opened(<<>>, p.acc, "APPEND" \in p.flags)
    BY <1>8 DEF PosixOpen
  <2>3. [Opened(<<>>, p.acc, "APPEND" \in p.flags) EXCEPT !.append = FALSE]
          = Opened(<<>>, p.acc, FALSE)
    BY <1>7
  <2> QED
    BY <2>1, <2>2, <2>3, Zenon DEF q
<1>9. CASE f = Absent /\ "CREAT" \notin p.flags
  BY <1>3, <1>4, <1>6, <1>9 DEF PosixOpen, q
<1>10. CASE f # Absent /\ {"CREAT", "EXCL"} \subseteq p.flags
  BY <1>3, <1>4, <1>6, <1>10 DEF PosixOpen, q
<1>11. CASE f # Absent /\ ~({"CREAT", "EXCL"} \subseteq p.flags)
  <2> DEFINE g == IF "TRUNC" \in p.flags THEN <<>> ELSE f
  <2>1. PosixOpen(q, f) = Opened(g, p.acc, FALSE)
    BY <1>3, <1>4, <1>11 DEF PosixOpen
  <2>2. PosixOpen(p, f) = Opened(g, p.acc, "APPEND" \in p.flags)
    BY <1>11 DEF PosixOpen
  <2> HIDE DEF g
  <2>3. [Opened(g, p.acc, "APPEND" \in p.flags) EXCEPT !.append = FALSE]
          = Opened(g, p.acc, FALSE)
    BY <1>7
  <2> QED
    BY <2>1, <2>2, <2>3, Zenon DEF q
<1> QED
  BY <1>8, <1>9, <1>10, <1>11

LEMMA CompiledAlike ==
    ASSUME NEW m \in SUBSET {"in", "out", "app"}, m \cap {"in", "out"} # {},
           "app" \in m => "out" \in m, NEW f
    PROVE  /\ PosixOpen(CompiledPosix(m), f) = PosixOpen(ios_to_posix(m), f)
           /\ WinOpen(CompiledWin(m), f) = WinOpen(ios_to_win(m), f)
<1>1. "trunc" \notin m /\ (m \cap Writing # {} <=> "out" \in m)
  BY DEF Writing
<1>2. CompiledPosix(m) = ios_to_posix(m)
  <2>1. IosAccess(m, {"read", "write"}) = IosAccess(m, {"read"})
    BY DEF IosAccess
  <2>2. (IF "trunc" \in m THEN {"TRUNC"} ELSE When(m \cap Writing # {}, {"CREAT"}))
          = When("trunc" \in m, {"TRUNC"}) \cup When(m \cap Writing # {}, {"CREAT"})
    BY <1>1 DEF When
  <2> QED
    BY <2>1, <2>2 DEF CompiledPosix, ios_to_posix
<1>3. CompiledWin(m) = ios_to_win(m)
  <2>1. IosAccess(m, {"read", "write"})
          = When("in" \in m, {"read"}) \cup When(m \cap Writing # {}, {"write"})
    BY <1>1 DEF IosAccess, When
  <2> QED
    BY <2>1 DEF CompiledWin, ios_to_win
<1> QED
  BY <1>2, <1>3

LEMMA StreamsSame == StreamInv => SameOnBoth
<1> SUFFICES ASSUME StreamInv PROVE SameOnBoth
  OBVIOUS
<1>1. FStreamTypeOK
  <2>1. \A b \in Builds : str[b] \in Stream
    BY DEF StreamInv
  <2>2. \A b \in Builds : str[b].open => str[b].pos \in 0 .. Len(file[b])
    BY <2>1 DEF StreamInv, InFile, Stream
  <2>3. \A b \in Builds : str[b].bits \subseteq {"eof", "fail"}
    BY <2>1 DEF Stream
  <2> QED
    BY <2>2, <2>3 DEF StreamInv, FStreamTypeOK
<1>2. Seen("posix") = Seen("windows")
  BY DEF StreamInv, Alike, Seen
<1>3. ModesAgree
  BY ModesRoundTrip, CompiledAlike DEF ModesAgree
<1> QED
  BY <1>1, <1>2, <1>3 DEF SameOnBoth

(* A program sees the same files, positions and error bits in both         *)
(* builds, whatever it opens and however, if it keeps the client rules     *)
(* (fstream.hpp over file::open() and file::create()).                     *)
THEOREM SameProgram ==
    ASSUME ~AppendCreates, ~TruncateToRead
    PROVE  FStreamSpec => []SameOnBoth
<1>1. FStreamInit => StreamInv
  BY StreamsInit, StreamAssumption
<1>2. StreamInv /\ [FStreamNext]_streamvars => StreamInv'
  BY StreamsStep
<1>3. StreamInv => SameOnBoth
  BY StreamsSame
<1> QED
  BY <1>1, <1>2, <1>3, PTL DEF FStreamSpec

(* In both builds opening creates, empties and leaves files as the mode    *)
(* and the disposition ask for, and a stream that appends never changes    *)
(* what the file has (sysio.h: the conversions of ios modes).              *)
THEOREM OpensAsAsked ==
    ASSUME ~AppendCreates, ~TruncateToRead
    PROVE  FStreamSpec => OpenAsAsked
<1>1. FStreamInit => StreamInv
  BY StreamsInit, StreamAssumption
<1>2. StreamInv /\ [FStreamNext]_streamvars => StreamInv' /\ [OpenDoes /\ AppendKeeps]_streamvars
  BY StreamsStep
<1> QED
  BY <1>1, <1>2, PTL DEF FStreamSpec, OpenAsAsked

-----------------------------------------------------------------------------
(* Induction along the numbers, and along a sequence.                      *)
LEMMA Upward ==
    ASSUME NEW n \in Nat, NEW Q, 0 \in Q, \A k \in 0 .. n - 1 : k \in Q => k + 1 \in Q
    PROVE  \A k \in 0 .. n : k \in Q
<1> DEFINE Bad == {k \in 0 .. n : k \notin Q}
<1> SUFFICES ASSUME Bad # {}
             PROVE  FALSE
  OBVIOUS
<1> HIDE DEF Bad
<1>1. Bad \subseteq Nat
  BY DEF Bad
<1>2. PICK k \in Bad : \A j \in Bad : ~(<<j, k>> \in OpToRel(<, Nat))
  BY <1>1, NatLessThanWellFounded, WFMin
<1>3. k \in 1 .. n /\ k \notin Q
  BY DEF Bad
<1>4. k - 1 \in 0 .. n - 1 /\ k - 1 \in Nat /\ k \in Nat /\ k - 1 < k /\ (k - 1) + 1 = k
  BY <1>3
<1>5. k - 1 \notin Bad
  BY <1>2, <1>4 DEF OpToRel
<1>6. k - 1 \in Q
  BY <1>3, <1>5 DEF Bad
<1> QED
  BY <1>3, <1>4, <1>6

(* What FlattenSeq() is: f[n], where f[i] are the first i sequences.       *)
Flat(f, seqs) ==
    f = [i \in 1 .. Len(seqs) |-> IF i = 1 THEN seqs[i] ELSE f[i - 1] \o seqs[i]]

Glue(x, y) == x \o y

LEMMA FlatExists ==
    ASSUME NEW n \in Nat, NEW seqs
    PROVE  \E f : f = [i \in 1 .. n |-> IF i = 1 THEN seqs[i] ELSE f[i - 1] \o seqs[i]]
<1> DEFINE Part(f, k) == f = [i \in 1 .. k |-> IF i = 1 THEN seqs[i] ELSE Glue(f[i - 1], seqs[i])]
           T == {k \in 0 .. n : \E f : Part(f, k)}
<1>1. 0 \in T
  <2> DEFINE f == [i \in 1 .. 0 |-> <<>>]
  <2>1. f = [i \in 1 .. 0 |-> IF i = 1 THEN seqs[i] ELSE Glue(f[i - 1], seqs[i])]
    OBVIOUS
  <2> HIDE DEF f
  <2>2. Part(f, 0)
    BY <2>1
  <2> HIDE DEF Part
  <2> QED
    BY <2>2
<1>2. \A k \in 0 .. n - 1 : k \in T => k + 1 \in T
  <2> SUFFICES ASSUME NEW k \in 0 .. n - 1, k \in T
               PROVE  k + 1 \in T
    OBVIOUS
  <2>1. PICK f : Part(f, k)
    OBVIOUS
  <2> DEFINE g == [i \in 1 .. k + 1 |->
                      IF i <= k THEN f[i] ELSE IF i = 1 THEN seqs[i] ELSE Glue(f[i - 1], seqs[i])]
             h == [i \in 1 .. k + 1 |-> IF i = 1 THEN seqs[i] ELSE Glue(g[i - 1], seqs[i])]
  <2>2. \A i \in 1 .. k + 1 : g[i] = IF i = 1 THEN seqs[i] ELSE Glue(g[i - 1], seqs[i])
    <3> SUFFICES ASSUME NEW i \in 1 .. k + 1
                 PROVE  g[i] = IF i = 1 THEN seqs[i] ELSE Glue(g[i - 1], seqs[i])
      OBVIOUS
    <3>1. CASE i = 1
      <4>1. CASE k = 0
        BY <3>1, <4>1
      <4>2. CASE k >= 1
        <5>1. g[i] = f[i] /\ f[i] = seqs[i]
          BY <2>1, <3>1, <4>2
        <5> QED
          BY <3>1, <5>1
      <4> QED
        BY <4>1, <4>2
    <3>2. CASE i # 1
      <4>1. i - 1 \in 1 .. k /\ g[i - 1] = f[i - 1]
        BY <3>2
      <4>2. g[i] = Glue(f[i - 1], seqs[i])
        BY <2>1, <3>2
      <4> QED
        BY <3>2, <4>1, <4>2
    <3> QED
      BY <3>1, <3>2
  <2>3. g = h
    <3>1. \A i \in 1 .. k + 1 : g[i] = h[i]
      BY <2>2
    <3>2. DOMAIN g = 1 .. k + 1 /\ DOMAIN h = 1 .. k + 1
      OBVIOUS
    <3> QED
      BY <3>1, <3>2
  <2>5. Part(g, k + 1)
    BY <2>3
  <2> HIDE DEF Part, g
  <2>6. k + 1 \in 0 .. n
    OBVIOUS
  <2> QED
    BY <2>5, <2>6
<1> HIDE DEF T
<1>3. \A k \in 0 .. n : k \in T
  BY <1>1, <1>2, Upward
<1>4. n \in T
  BY <1>3
<1> QED
  BY <1>4 DEF T, Glue

LEMMA Flattening ==
    ASSUME NEW seqs, Len(seqs) \in Nat, Len(seqs) # 0
    PROVE  \E f : /\ FlattenSeq(seqs) = f[Len(seqs)] /\ f[1] = seqs[1]
                  /\ \A i \in 2 .. Len(seqs) : f[i] = Glue(f[i - 1], seqs[i])
<1>1. \E f : Flat(f, seqs)
  BY FlatExists DEF Flat
<1> DEFINE flatten[i \in 1 .. Len(seqs)] ==
              IF i = 1 THEN seqs[i] ELSE flatten[i - 1] \o seqs[i]
<1>2. Flat(flatten, seqs)
  BY <1>1 DEF Flat
<1>3. FlattenSeq(seqs) = flatten[Len(seqs)]
  BY DEF FlattenSeq
<1> HIDE DEF flatten
<1>4. flatten = [i \in 1 .. Len(seqs) |-> IF i = 1 THEN seqs[i] ELSE Glue(flatten[i - 1], seqs[i])]
  BY <1>2 DEF Flat, Glue
<1>5. flatten[1] = seqs[1] /\ \A i \in 2 .. Len(seqs) : flatten[i] = Glue(flatten[i - 1], seqs[i])
  BY <1>4
<1> QED
  BY <1>3, <1>5


(* Induction along a sequence.                                             *)
LEMMA SeqUp ==
    ASSUME NEW S, NEW Q, <<>> \in Q,
           \A t \in Seq(S), c \in S : t \in Q => Append(t, c) \in Q
    PROVE  \A t \in Seq(S) : t \in Q
<1> SUFFICES ASSUME NEW t \in Seq(S)
             PROVE  t \in Q
  OBVIOUS
<1> DEFINE T == {k \in 0 .. Len(t) : SubSeq(t, 1, k) \in Q}
<1>0. Len(t) \in Nat
  OBVIOUS
<1>1. 0 \in T
  <2>1. SubSeq(t, 1, 0) = <<>>
    BY SMT
  <2>2. 0 \in 0 .. Len(t)
    BY <1>0
  <2>3. SubSeq(t, 1, 0) \in Q
    BY <2>1, Zenon
  <2> QED
    BY <2>2, <2>3
<1>2. \A k \in 0 .. Len(t) - 1 : k \in T => k + 1 \in T
  <2> SUFFICES ASSUME NEW k \in 0 .. Len(t) - 1, k \in T
               PROVE  k + 1 \in T
    OBVIOUS
  <2>1. SubSeq(t, 1, k) \in Seq(S) /\ t[k + 1] \in S
    BY SMT
  <2>2. SubSeq(t, 1, k + 1) = Append(SubSeq(t, 1, k), t[k + 1])
    BY SMT
  <2>3. SubSeq(t, 1, k) \in Q /\ k + 1 \in 0 .. Len(t)
    BY <1>0
  <2>4. SubSeq(t, 1, k + 1) \in Q
    BY <2>1, <2>2, <2>3
  <2> QED
    BY <2>3, <2>4
<1> HIDE DEF T
<1>3. Len(t) \in Nat
  OBVIOUS
<1>4. \A k \in 0 .. Len(t) : k \in T
  BY <1>1, <1>2, <1>3, Upward
<1>5. SubSeq(t, 1, Len(t)) \in Q
  BY <1>3, <1>4 DEF T
<1>6. SubSeq(t, 1, Len(t)) = t
  BY SMT
<1> QED
  BY <1>5, <1>6

LEMMA FlattenEmpty == FlattenSeq(<<>>) = <<>>
  BY DEF FlattenSeq

LEMMA FlattenAppend ==
    ASSUME NEW S, NEW ss \in Seq(Seq(S)), NEW x \in Seq(S)
    PROVE  FlattenSeq(Append(ss, x)) = FlattenSeq(ss) \o x
<1> DEFINE n == Len(ss)
<1>1. PICK ts : ts = Append(ss, x)
  OBVIOUS
<1>2. /\ n \in Nat /\ Len(ts) = n + 1 /\ ts[n + 1] = x
      /\ \A i \in 1 .. n : ts[i] = ss[i]
  BY <1>1
<1>3. PICK f : /\ FlattenSeq(ts) = f[n + 1] /\ f[1] = ts[1]
               /\ \A i \in 2 .. n + 1 : f[i] = Glue(f[i - 1], ts[i])
  <2>1. Len(ts) \in Nat /\ Len(ts) # 0
    BY <1>2
  <2>2. \E f : /\ FlattenSeq(ts) = f[Len(ts)] /\ f[1] = ts[1]
               /\ \A i \in 2 .. Len(ts) : f[i] = Glue(f[i - 1], ts[i])
    BY <2>1, Flattening
  <2> QED
    BY <1>2, <2>2
<1>4. CASE n = 0
  <2>1. ss = <<>>
    BY <1>4
  <2>2. FlattenSeq(ss) = <<>>
    BY <2>1, FlattenEmpty
  <2>3. FlattenSeq(ts) = x
    BY <1>2, <1>3, <1>4
  <2>4. <<>> \o x = x
    OBVIOUS
  <2> QED
    BY <1>1, <2>2, <2>3, <2>4
<1>5. CASE n # 0
  <2>1. PICK g : /\ FlattenSeq(ss) = g[n] /\ g[1] = ss[1]
                 /\ \A i \in 2 .. n : g[i] = Glue(g[i - 1], ss[i])
    BY <1>2, <1>5, Flattening
  <2> DEFINE T == {k \in 0 .. n : k = 0 \/ f[k] = g[k]}
  <2>2. 0 \in T
    BY <1>2
  <2>3. \A k \in 0 .. n - 1 : k \in T => k + 1 \in T
    <3> SUFFICES ASSUME NEW k \in 0 .. n - 1, k \in T
                 PROVE  k + 1 \in T
      OBVIOUS
    <3>1. CASE k = 0
      BY <1>2, <1>3, <2>1, <3>1
    <3>2. CASE k # 0
      <4>0. n \in Nat
        BY <1>2
      <4>1. k + 1 \in 2 .. n /\ k + 1 \in 2 .. n + 1 /\ (k + 1) - 1 = k /\ k + 1 \in 1 .. n
        BY <3>2, <4>0
      <4>2. f[k + 1] = Glue(f[k], ts[k + 1]) /\ g[k + 1] = Glue(g[k], ss[k + 1])
        BY <1>3, <2>1, <4>1
      <4>3. f[k] = g[k] /\ ts[k + 1] = ss[k + 1]
        BY <1>2, <3>2, <4>1
      <4>4. f[k + 1] = g[k + 1]
        BY <4>2, <4>3
      <4> QED
        BY <4>1, <4>4
    <3> QED
      BY <3>1, <3>2
  <2> HIDE DEF T
  <2>4. \A k \in 0 .. n : k \in T
    BY <1>2, <2>2, <2>3, Upward
  <2>5. f[n] = g[n]
    BY <1>2, <1>5, <2>4 DEF T
  <2>6. n + 1 \in 2 .. n + 1 /\ (n + 1) - 1 = n
    BY <1>2, <1>5
  <2>7. f[n + 1] = Glue(f[n], ts[n + 1])
    BY <1>3, <2>6
  <2>8. f[n + 1] = Glue(g[n], x)
    BY <1>2, <2>5, <2>7
  <2> QED
    BY <1>1, <1>3, <2>1, <2>8 DEF Glue
<1> QED
  BY <1>4, <1>5

LEMMA FlattenIn ==
    ASSUME NEW S, NEW ss \in Seq(Seq(S))
    PROVE  FlattenSeq(ss) \in Seq(S)
<1> DEFINE Q == {t \in Seq(Seq(S)) : FlattenSeq(t) \in Seq(S)}
<1>1. <<>> \in Q
  <2>1. <<>> \in Seq(S) /\ <<>> \in Seq(Seq(S))
    OBVIOUS
  <2> QED
    BY <2>1, FlattenEmpty
<1>2. \A t \in Seq(Seq(S)), c \in Seq(S) : t \in Q => Append(t, c) \in Q
  <2> SUFFICES ASSUME NEW t \in Seq(Seq(S)), NEW c \in Seq(S), t \in Q
               PROVE  Append(t, c) \in Q
    OBVIOUS
  <2>1. FlattenSeq(Append(t, c)) = FlattenSeq(t) \o c
    BY FlattenAppend
  <2>2. FlattenSeq(t) \in Seq(S)
    OBVIOUS
  <2>3. FlattenSeq(t) \o c \in Seq(S)
    BY <2>2
  <2>4. Append(t, c) \in Seq(Seq(S))
    OBVIOUS
  <2> QED
    BY <2>1, <2>3, <2>4
<1> HIDE DEF Q
<1>3. ss \in Q
  BY <1>1, <1>2, SeqUp
<1> QED
  BY <1>3 DEF Q

Extended(g, f, c) ==
    /\ g = Append(f, c) /\ Len(g) = Len(f) + 1 /\ g[Len(f) + 1] = c
    /\ \A i \in 1 .. Len(f) : g[i] = f[i]

LEMMA Longer ==
    ASSUME NEW S, NEW f \in Seq(S), NEW c \in S
    PROVE  \E g \in Seq(S) : Extended(g, f, c)
<1>1. Append(f, c) \in Seq(S)
  OBVIOUS
<1>2. Len(Append(f, c)) = Len(f) + 1 /\ Append(f, c)[Len(f) + 1] = c
  OBVIOUS
<1>3. \A i \in 1 .. Len(f) : Append(f, c)[i] = f[i]
  OBVIOUS
<1>4. Extended(Append(f, c), f, c)
  BY <1>2, <1>3 DEF Extended
<1> QED
  BY <1>1, <1>4

LEMMA SeqIs ==
    ASSUME NEW S, NEW f \in Seq(S)
    PROVE  /\ Len(f) \in Nat /\ DOMAIN f = 1 .. Len(f) /\ f = [i \in 1 .. Len(f) |-> f[i]]
           /\ \A i \in 1 .. Len(f) : f[i] \in S
  OBVIOUS

LEMMA Three ==
    ASSUME NEW S, NEW x \in Seq(S), NEW y \in Seq(S), NEW z \in Seq(S)
    PROVE  (x \o y) \o z = x \o (y \o z)
  BY ConcatAssociative

-----------------------------------------------------------------------------
(* Text and its line ends in a file.                                       *)
One(c) == IF c = NL THEN <<CR, NL>> ELSE <<c>>

LEMMA TextChars == CR \in TextChar /\ NL \in TextChar /\ CR # NL
  BY DEF TextChar, CR, NL

LEMMA OneIs ==
    /\ \A c \in TextChar : One(c) \in Seq(TextChar)
    /\ One(NL) = <<CR, NL>> /\ \A c : c # NL => One(c) = <<c>>
  BY TextChars DEF One

LEMMA CrlfEmpty == Crlf(<<>>) = <<>>
<1>1. [i \in DOMAIN <<>> |-> IF <<>>[i] = NL THEN <<CR, NL>> ELSE << <<>>[i]>>] = <<>>
  OBVIOUS
<1> QED
  BY <1>1, FlattenEmpty DEF Crlf

LEMMA CrlfAppend ==
    ASSUME NEW t \in Seq(TextChar), NEW c \in TextChar
    PROVE  Crlf(t) \in Seq(TextChar) /\ Crlf(Append(t, c)) = Crlf(t) \o One(c)
<1> DEFINE Each(s) == [i \in DOMAIN s |-> IF s[i] = NL THEN <<CR, NL>> ELSE <<s[i]>>]
<1>1. Each(t) \in Seq(Seq(TextChar))
  <2>1. \A i \in 1 .. Len(t) : t[i] \in TextChar
    OBVIOUS
  <2>2. \A i \in 1 .. Len(t) : Each(t)[i] = One(t[i])
    BY DEF One
  <2>3. \A i \in 1 .. Len(t) : Each(t)[i] \in Seq(TextChar)
    BY <2>1, <2>2, OneIs
  <2>4. Each(t) = [i \in 1 .. Len(t) |-> Each(t)[i]] /\ Len(t) \in Nat
    OBVIOUS
  <2> HIDE DEF Each
  <2>5. Each(t) \in [1 .. Len(t) -> Seq(TextChar)]
    BY <2>3, <2>4
  <2> QED
    BY <2>4, <2>5, SMT
<1>2. Each(Append(t, c)) = Append(Each(t), One(c))
  <2>1. PICK u \in Seq(TextChar) : Extended(u, t, c)
    BY Longer
  <2>2. Len(u) = Len(t) + 1 /\ u[Len(t) + 1] = c /\ \A i \in 1 .. Len(t) : u[i] = t[i]
    BY <2>1 DEF Extended
  <2>4. Len(Each(t)) = Len(t) /\ Len(t) \in Nat
    OBVIOUS
  <2> HIDE DEF Each
  <2>3. PICK v \in Seq(Seq(TextChar)) : Extended(v, Each(t), One(c))
    <3>1. One(c) \in Seq(TextChar)
      BY OneIs
    <3> QED
      BY <1>1, <3>1, Longer
  <2>5. /\ v = [i \in 1 .. Len(t) + 1 |-> v[i]] /\ v[Len(t) + 1] = One(c)
        /\ \A i \in 1 .. Len(t) : v[i] = Each(t)[i]
    BY <2>3, <2>4, SeqIs DEF Extended
  <2> USE DEF Each
  <2>6. Each(u) = [i \in 1 .. Len(t) + 1 |-> One(u[i])]
    BY <2>2 DEF One
  <2>7. \A i \in 1 .. Len(t) : Each(t)[i] = One(t[i])
    BY DEF One
  <2>8. \A i \in 1 .. Len(t) + 1 : One(u[i]) = v[i]
    <3> HIDE DEF Each
    <3> SUFFICES ASSUME NEW i \in 1 .. Len(t) + 1 PROVE One(u[i]) = v[i]
      OBVIOUS
    <3>1. CASE i = Len(t) + 1
      BY <2>2, <2>5, <3>1
    <3>2. CASE i # Len(t) + 1
      <4>1. i \in 1 .. Len(t)
        BY <2>4, <3>2
      <4> QED
        BY <2>2, <2>5, <2>7, <4>1
    <3> QED
      BY <3>1, <3>2
  <2> HIDE DEF Each
  <2>9. Each(u) = v
    BY <2>5, <2>6, <2>8
  <2> QED
    BY <2>1, <2>3, <2>9 DEF Extended
<1>3. Crlf(t) = FlattenSeq(Each(t)) /\ Crlf(Append(t, c)) = FlattenSeq(Each(Append(t, c)))
  BY DEF Crlf
<1> HIDE DEF Each
<1>4. One(c) \in Seq(TextChar)
  BY OneIs
<1>5. FlattenSeq(Append(Each(t), One(c))) = FlattenSeq(Each(t)) \o One(c)
  BY <1>1, <1>4, FlattenAppend
<1>6. FlattenSeq(Each(t)) \in Seq(TextChar)
  BY <1>1, FlattenIn
<1> QED
  BY <1>2, <1>3, <1>5, <1>6

LEMMA CrlfIn == \A t \in Seq(TextChar) : Crlf(t) \in Seq(TextChar)
  BY TextChars, CrlfAppend

Assoc(x, y, z) == (x \o y) \o z = x \o (y \o z)

LEMMA Assocs == \A x, y, z \in Seq(TextChar) : Assoc(x, y, z)
  BY Three DEF Assoc

LEMMA CrlfJoin ==
    ASSUME NEW a \in Seq(TextChar), NEW b \in Seq(TextChar)
    PROVE  Crlf(a \o b) = Crlf(a) \o Crlf(b)
<1> DEFINE Q == {t \in Seq(TextChar) : Crlf(a \o t) = Crlf(a) \o Crlf(t)}
<1>1. <<>> \in Q
  <2>1. a \o <<>> = a /\ <<>> \in Seq(TextChar)
    OBVIOUS
  <2>2. Crlf(a) \o <<>> = Crlf(a)
    BY CrlfIn
  <2> QED
    BY <2>1, <2>2, CrlfEmpty
<1>2. \A t \in Seq(TextChar), c \in TextChar : t \in Q => Append(t, c) \in Q
  <2> SUFFICES ASSUME NEW t \in Seq(TextChar), NEW c \in TextChar, t \in Q
               PROVE  Append(t, c) \in Q
    OBVIOUS
  <2>1. a \o Append(t, c) = Append(a \o t, c) /\ a \o t \in Seq(TextChar) /\ Append(t, c) \in Seq(TextChar)
    BY SMT
  <2>2. Crlf(a \o Append(t, c)) = Crlf(a \o t) \o One(c)
    BY <2>1, CrlfAppend
  <2>3. Crlf(Append(t, c)) = Crlf(t) \o One(c)
    BY CrlfAppend
  <2>4. Crlf(a \o t) = Crlf(a) \o Crlf(t)
    OBVIOUS
  <2>5. (Crlf(a) \o Crlf(t)) \o One(c) = Crlf(a) \o (Crlf(t) \o One(c))
    <3>1. Crlf(a) \in Seq(TextChar) /\ Crlf(t) \in Seq(TextChar) /\ One(c) \in Seq(TextChar)
      BY CrlfIn, OneIs
    <3>2. PICK x, y, z \in Seq(TextChar) : x = Crlf(a) /\ y = Crlf(t) /\ z = One(c)
      BY <3>1, Zenon
    <3>3. Assoc(x, y, z)
      BY <3>2, Assocs
    <3> QED
      BY <3>2, <3>3, Zenon DEF Assoc
  <2>6. Crlf(a \o Append(t, c)) = Crlf(a) \o Crlf(Append(t, c))
    BY <2>2, <2>3, <2>4, <2>5
  <2> QED
    BY <2>1, <2>6
<1> HIDE DEF Q
<1>3. b \in Q
  BY <1>1, <1>2, SeqUp
<1> QED
  BY <1>3 DEF Q

LEMMA CrlfOne == \A c \in TextChar : Crlf(<<c>>) = One(c)
<1> SUFFICES ASSUME NEW c \in TextChar PROVE Crlf(<<c>>) = One(c)
  OBVIOUS
<1>1. <<c>> = Append(<<>>, c) /\ <<>> \in Seq(TextChar)
  OBVIOUS
<1>2. Crlf(<<c>>) = Crlf(<<>>) \o One(c)
  BY <1>1, CrlfAppend
<1>3. <<>> \o One(c) = One(c)
  BY OneIs
<1> QED
  BY <1>2, <1>3, CrlfEmpty

(* The text of a file in lines is the one it was made of.                  *)
Kept(f, i) == IF f[i] = CR /\ i < Len(f) /\ f[i + 1] = NL THEN <<>> ELSE <<f[i]>>
Keeps(f) == [i \in 1 .. Len(f) |-> Kept(f, i)]

LEMMA KeepsIn == \A f \in Seq(TextChar) : Keeps(f) \in Seq(Seq(TextChar)) /\ Len(Keeps(f)) = Len(f)
<1> SUFFICES ASSUME NEW f \in Seq(TextChar)
             PROVE  Keeps(f) \in Seq(Seq(TextChar)) /\ Len(Keeps(f)) = Len(f)
  OBVIOUS
<1>1. \A i \in 1 .. Len(f) : Kept(f, i) \in Seq(TextChar)
  <2>1. \A i \in 1 .. Len(f) : f[i] \in TextChar
    OBVIOUS
  <2> QED
    BY <2>1 DEF Kept
<1>2. Keeps(f) \in [1 .. Len(f) -> Seq(TextChar)] /\ Len(f) \in Nat
  BY <1>1 DEF Keeps
<1>3. Keeps(f) \in Seq(Seq(TextChar))
  BY <1>2
<1> QED
  BY <1>2, <1>3, SMT DEF Keeps

LEMMA TextIs == \A f \in Seq(TextChar) : Text(f) = FlattenSeq(Keeps(f)) /\ Text(f) \in Seq(TextChar)
<1> SUFFICES ASSUME NEW f \in Seq(TextChar)
             PROVE  Text(f) = FlattenSeq(Keeps(f)) /\ Text(f) \in Seq(TextChar)
  OBVIOUS
<1>1. DOMAIN f = 1 .. Len(f)
  OBVIOUS
<1>2. Text(f) = FlattenSeq(Keeps(f))
  BY <1>1 DEF Text, Keeps, Kept
<1> QED
  BY <1>2, KeepsIn, FlattenIn

LEMMA KeepsAppend ==
    ASSUME NEW f \in Seq(TextChar), NEW c \in TextChar, NEW v \in Seq(Seq(TextChar)),
           Len(v) = Len(f), \A i \in 1 .. Len(f) : v[i] = Kept(Append(f, c), i)
    PROVE  Keeps(Append(f, c)) = Append(v, <<c>>)
<1>1. PICK g \in Seq(TextChar) : Extended(g, f, c)
  BY Longer
<1>2. Len(g) = Len(f) + 1 /\ g[Len(f) + 1] = c /\ Len(f) \in Nat
  BY <1>1 DEF Extended
<1>3. Kept(g, Len(f) + 1) = <<c>>
  BY <1>2 DEF Kept
<1>4. PICK w \in Seq(Seq(TextChar)) : Extended(w, v, <<c>>)
  <2>1. <<c>> \in Seq(TextChar)
    OBVIOUS
  <2> QED
    BY <2>1, Longer
<1>5. Len(w) = Len(f) + 1 /\ w[Len(f) + 1] = <<c>> /\ \A i \in 1 .. Len(f) : w[i] = v[i]
  BY <1>4 DEF Extended
<1>6. w = [i \in 1 .. Len(f) + 1 |-> w[i]]
  BY <1>5, SeqIs
<1>7. Keeps(g) = [i \in 1 .. Len(f) + 1 |-> Kept(g, i)]
  BY <1>2 DEF Keeps
<1>8. \A i \in 1 .. Len(f) + 1 : Kept(g, i) = w[i]
  <2> SUFFICES ASSUME NEW i \in 1 .. Len(f) + 1 PROVE Kept(g, i) = w[i]
    OBVIOUS
  <2>1. CASE i = Len(f) + 1
    BY <1>3, <1>5, <2>1
  <2>2. CASE i # Len(f) + 1
    <3>1. i \in 1 .. Len(f)
      BY <1>2, <2>2
    <3> QED
      BY <1>1, <1>5, <3>1 DEF Extended
  <2> QED
    BY <2>1, <2>2
<1>9. Keeps(g) = w
  BY <1>6, <1>7, <1>8
<1> QED
  BY <1>1, <1>4, <1>9 DEF Extended

LEMMA TextOn ==
    ASSUME NEW f \in Seq(TextChar), NEW c \in TextChar
    PROVE  /\ c # NL => Text(Append(f, c)) = Append(Text(f), c)
           /\ Text(Append(Append(f, CR), NL)) = Append(Text(f), NL)
<1>0. CR \in TextChar /\ NL \in TextChar /\ CR # NL
  BY TextChars
<1>1. PICK g \in Seq(TextChar) : Extended(g, f, c)
  BY Longer
<1>2. Len(g) = Len(f) + 1 /\ g[Len(f) + 1] = c /\ Len(f) \in Nat /\ \A i \in 1 .. Len(f) : g[i] = f[i]
  BY <1>1 DEF Extended
<1>3. PICK v \in Seq(Seq(TextChar)) : v = Keeps(f)
  BY KeepsIn
<1>4. /\ Len(v) = Len(f) /\ \A i \in 1 .. Len(f) : v[i] = Kept(f, i)
      /\ Text(f) = FlattenSeq(v) /\ Text(f) \in Seq(TextChar)
  BY <1>3, KeepsIn, TextIs DEF Keeps
<1>5. ASSUME c # NL
      PROVE  Text(Append(f, c)) = Append(Text(f), c)
  <2>1. \A i \in 1 .. Len(f) : Kept(f, i) = Kept(g, i)
    <3> SUFFICES ASSUME NEW i \in 1 .. Len(f) PROVE Kept(f, i) = Kept(g, i)
      OBVIOUS
    <3>1. CASE i = Len(f)
      BY <1>2, <1>5, <3>1 DEF Kept
    <3>2. CASE i # Len(f)
      <4>1. i < Len(f) /\ i < Len(g) /\ i + 1 \in 1 .. Len(f)
        BY <1>2, <3>2
      <4> QED
        BY <1>2, <4>1 DEF Kept
    <3> QED
      BY <3>1, <3>2
  <2>2. Keeps(g) = Append(v, <<c>>)
    BY <1>1, <1>4, <2>1, KeepsAppend DEF Extended
  <2>3. FlattenSeq(Append(v, <<c>>)) = FlattenSeq(v) \o <<c>>
    <3>1. <<c>> \in Seq(TextChar)
      OBVIOUS
    <3> QED
      BY <3>1, FlattenAppend
  <2>4. Text(g) = Text(f) \o <<c>>
    BY <1>4, <2>2, <2>3, TextIs
  <2>5. Text(f) \o <<c>> = Append(Text(f), c)
    BY <1>4
  <2> QED
    BY <1>1, <2>4, <2>5 DEF Extended
<1>6. Text(Append(Append(f, CR), NL)) = Append(Text(f), NL)
  <2>1. PICK e \in Seq(TextChar) : Extended(e, f, CR)
    BY <1>0, Longer
  <2>2. Len(e) = Len(f) + 1 /\ e[Len(f) + 1] = CR /\ \A i \in 1 .. Len(f) : e[i] = f[i]
    BY <2>1 DEF Extended
  <2>3. PICK h \in Seq(TextChar) : Extended(h, e, NL)
    BY <1>0, Longer
  <2>4. Len(h) = Len(f) + 2 /\ h[Len(f) + 1] = CR /\ h[Len(f) + 2] = NL /\ \A i \in 1 .. Len(f) : h[i] = f[i]
    BY <1>2, <2>2, <2>3 DEF Extended
  <2>5. PICK w \in Seq(Seq(TextChar)) : Extended(w, v, <<>>)
    <3>1. <<>> \in Seq(TextChar)
      OBVIOUS
    <3> QED
      BY <3>1, Longer
  <2>6. Len(w) = Len(f) + 1 /\ w[Len(f) + 1] = <<>> /\ \A i \in 1 .. Len(f) : w[i] = v[i]
    BY <1>4, <2>5 DEF Extended
  <2>7. \A i \in 1 .. Len(e) : w[i] = Kept(h, i)
    <3> SUFFICES ASSUME NEW i \in 1 .. Len(f) + 1 PROVE w[i] = Kept(h, i)
      BY <2>2
    <3>1. CASE i = Len(f) + 1
      <4>1. i < Len(h) /\ h[i] = CR /\ h[i + 1] = NL
        BY <1>2, <2>4, <3>1
      <4> QED
        BY <2>6, <3>1, <4>1 DEF Kept
    <3>2. CASE i # Len(f) + 1
      <4>1. i \in 1 .. Len(f)
        BY <1>2, <3>2
      <4>2. w[i] = Kept(f, i)
        BY <1>4, <2>6, <4>1
      <4>3. CASE i = Len(f)
        BY <1>0, <1>2, <2>4, <4>1, <4>2, <4>3 DEF Kept
      <4>4. CASE i # Len(f)
        <5>1. i < Len(f) /\ i < Len(h) /\ i + 1 \in 1 .. Len(f)
          BY <1>2, <2>4, <4>1, <4>4
        <5> QED
          BY <2>4, <4>1, <4>2, <5>1 DEF Kept
      <4> QED
        BY <4>3, <4>4
    <3> QED
      BY <3>1, <3>2
  <2>8. Keeps(h) = Append(w, <<NL>>)
    <3>1. Len(w) = Len(e)
      BY <2>2, <2>6
    <3> QED
      BY <1>0, <2>3, <2>7, <3>1, KeepsAppend DEF Extended
  <2>9. FlattenSeq(Append(w, <<NL>>)) = FlattenSeq(w) \o <<NL>>
    <3>1. <<NL>> \in Seq(TextChar)
      BY <1>0
    <3> QED
      BY <3>1, FlattenAppend
  <2>10. FlattenSeq(w) = FlattenSeq(v) \o <<>>
    <3>1. <<>> \in Seq(TextChar)
      OBVIOUS
    <3> QED
      BY <2>5, <3>1, FlattenAppend DEF Extended
  <2>11. Text(f) \o <<>> = Text(f) /\ Text(f) \o <<NL>> = Append(Text(f), NL)
    BY <1>4
  <2>12. Text(h) = Text(f) \o <<NL>>
    BY <1>4, <2>8, <2>9, <2>10, <2>11, TextIs
  <2> QED
    BY <2>1, <2>3, <2>11, <2>12 DEF Extended
<1> QED
  BY <1>5, <1>6

LEMMA TextOfLines == \A t \in Seq(TextChar) : Text(Crlf(t)) = t
<1> DEFINE Q == {t \in Seq(TextChar) : Text(Crlf(t)) = t}
<1>0. CR \in TextChar /\ NL \in TextChar
  BY TextChars
<1>1. <<>> \in Q
  <2>1. [i \in DOMAIN <<>> |-> IF <<>>[i] = CR /\ i < Len(<<>>) /\ <<>>[i + 1] = NL
                               THEN <<>> ELSE << <<>>[i]>>] = <<>>
    OBVIOUS
  <2>2. Text(<<>>) = <<>> /\ <<>> \in Seq(TextChar)
    BY <2>1, FlattenEmpty DEF Text
  <2> QED
    BY <2>2, CrlfEmpty
<1>2. \A t \in Seq(TextChar), c \in TextChar : t \in Q => Append(t, c) \in Q
  <2> SUFFICES ASSUME NEW t \in Seq(TextChar), NEW c \in TextChar, t \in Q
               PROVE  Append(t, c) \in Q
    OBVIOUS
  <2>1. Crlf(Append(t, c)) = Crlf(t) \o One(c) /\ Text(Crlf(t)) = t /\ Append(t, c) \in Seq(TextChar)
    BY CrlfAppend
  <2>2. PICK f \in Seq(TextChar) : f = Crlf(t)
    BY CrlfIn
  <2>3. CASE c = NL
    <3>1. f \o One(c) = Append(Append(f, CR), NL)
      <4>1. One(c) = <<CR, NL>>
        BY <2>3, OneIs
      <4>2. f \o <<CR, NL>> = Append(Append(f, CR), NL)
        BY <1>0, <2>2
      <4> QED
        BY <4>1, <4>2
    <3>2. Text(Append(Append(f, CR), NL)) = Append(Text(f), NL)
      BY <1>0, TextOn
    <3> QED
      BY <2>1, <2>2, <2>3, <3>1, <3>2
  <2>4. CASE c # NL
    <3>1. f \o One(c) = Append(f, c)
      <4>1. One(c) = <<c>>
        BY <2>4, OneIs
      <4>2. f \o <<c>> = Append(f, c)
        BY <2>2
      <4> QED
        BY <4>1, <4>2
    <3>2. Text(Append(f, c)) = Append(Text(f), c)
      BY <2>4, TextOn
    <3> QED
      BY <2>1, <2>2, <3>1, <3>2
  <2> QED
    BY <2>3, <2>4
<1> HIDE DEF Q
<1>3. \A t \in Seq(TextChar) : t \in Q
  BY <1>1, <1>2, SeqUp
<1> QED
  BY <1>3 DEF Q

-----------------------------------------------------------------------------
(* Sequences from both ends.                                               *)
Starts(t, d, u) == t = <<d>> \o u

LEMMA FirstOf ==
    ASSUME NEW S, NEW t \in Seq(S), t # <<>>
    PROVE  \E d \in S, u \in Seq(S) : Starts(t, d, u)
<1>1. Len(t) \in Nat /\ Len(t) >= 1
  OBVIOUS
<1>2. t[1] \in S
  BY <1>1
<1>3. Tail(t) \in Seq(S)
  OBVIOUS
<1>4. t = <<t[1]>> \o Tail(t)
  BY <1>1, SMT
<1>5. Starts(t, t[1], Tail(t))
  BY <1>4 DEF Starts
<1> QED
  BY <1>2, <1>3, <1>5

LEMMA LastOf ==
    ASSUME NEW S, NEW t \in Seq(S), t # <<>>
    PROVE  \E u \in Seq(S), d \in S : t = Append(u, d)
<1>1. Len(t) \in Nat /\ Len(t) >= 1
  OBVIOUS
<1>2. t[Len(t)] \in S
  BY <1>1
<1>3. SubSeq(t, 1, Len(t) - 1) \in Seq(S)
  BY <1>1
<1>4. t = Append(SubSeq(t, 1, Len(t) - 1), t[Len(t)])
  BY <1>1, SMT
<1> QED
  BY <1>2, <1>3, <1>4

LEMMA Joined ==
    ASSUME NEW S, NEW a \in Seq(S), NEW b \in Seq(S)
    PROVE  /\ a \o b \in Seq(S) /\ Len(a \o b) = Len(a) + Len(b)
           /\ \A i \in 1 .. Len(a) : (a \o b)[i] = a[i]
           /\ \A i \in 1 .. Len(b) : (a \o b)[Len(a) + i] = b[i]
<1>1. a \o b \in Seq(S) /\ Len(a \o b) = Len(a) + Len(b)
  OBVIOUS
<1>2. \A i \in 1 .. Len(a) : (a \o b)[i] = a[i]
  OBVIOUS
<1>3. \A i \in 1 .. Len(b) : (a \o b)[Len(a) + i] = b[i]
  OBVIOUS
<1> QED
  BY <1>1, <1>2, <1>3

LEMMA Same ==
    ASSUME NEW S, NEW a \in Seq(S), NEW b \in Seq(S), Len(a) = Len(b),
           \A i \in 1 .. Len(a) : a[i] = b[i]
    PROVE  a = b
  BY SMT

LEMMA Cancel ==
    ASSUME NEW S, NEW a \in Seq(S), NEW b \in Seq(S), NEW c \in Seq(S), a \o b = a \o c
    PROVE  b = c
<1>1. Len(b) = Len(c)
  <2>1. Len(a) \in Nat /\ Len(b) \in Nat /\ Len(c) \in Nat
    OBVIOUS
  <2> QED
    BY <2>1, Joined
<1>2. \A i \in 1 .. Len(b) : b[i] = c[i]
  BY <1>1, Joined
<1> QED
  BY <1>1, <1>2, Same

LEMMA CancelFirst ==
    ASSUME NEW S, NEW c \in S, NEW d \in S, NEW a \in Seq(S), NEW b \in Seq(S),
           <<c>> \o a = <<d>> \o b
    PROVE  c = d /\ a = b
<1>1. <<c>> \in Seq(S) /\ <<d>> \in Seq(S) /\ Len(<<c>>) = 1 /\ Len(<<d>>) = 1 /\ <<c>>[1] = c /\ <<d>>[1] = d
  OBVIOUS
<1>2. (<<c>> \o a)[1] = c /\ (<<d>> \o b)[1] = d
  BY <1>1, Joined
<1>3. c = d
  BY <1>2
<1>4. a = b
  BY <1>1, <1>3, Cancel
<1> QED
  BY <1>3, <1>4

LEMMA Between ==
    \A a, b \in Seq(TextChar), c \in TextChar : (a \o <<c>>) \o b = a \o (<<c>> \o b)
<1> SUFFICES ASSUME NEW a \in Seq(TextChar), NEW b \in Seq(TextChar), NEW c \in TextChar
             PROVE  (a \o <<c>>) \o b = a \o (<<c>> \o b)
  OBVIOUS
<1>1. <<c>> \in Seq(TextChar)
  OBVIOUS
<1> QED
  BY <1>1, Three

LEMMA Empties0 ==
    ASSUME NEW S, NEW a \in Seq(S)
    PROVE  a \o <<>> = a /\ <<>> \o a = a /\ (\A c : <<c>> \o a # <<>>)
  OBVIOUS

-----------------------------------------------------------------------------
(* What begins the lines of a text.                                        *)
LEMMA CrlfFirst ==
    ASSUME NEW d \in TextChar, NEW u \in Seq(TextChar)
    PROVE  Crlf(<<d>> \o u) = One(d) \o Crlf(u)
<1>1. <<d>> \in Seq(TextChar)
  OBVIOUS
<1> QED
  BY <1>1, CrlfJoin, CrlfOne

LEMMA Pair ==
    ASSUME NEW S, NEW c \in S, NEW d \in S
    PROVE  <<c, d>> = <<c>> \o <<d>>
<1>0. <<c, d>> \in Seq(S)
  OBVIOUS
<1>1. PICK t \in Seq(S) : t = <<c, d>>
  BY <1>0, Zenon
<1>2. <<c>> \in Seq(S) /\ <<d>> \in Seq(S) /\ Len(<<c>>) = 1 /\ Len(<<d>>) = 1 /\ <<c>>[1] = c /\ <<d>>[1] = d
  OBVIOUS
<1>3. PICK w \in Seq(S) : w = <<c>> \o <<d>>
  BY <1>2, Joined
<1>4. Len(w) = 2 /\ w[1] = c /\ w[1 + 1] = d
  BY <1>2, <1>3, Joined
<1>5. Len(t) = 2 /\ t[1] = c /\ t[2] = d
  BY <1>1
<1>6. \A i \in 1 .. Len(t) : t[i] = w[i]
  BY <1>4, <1>5
<1> QED
  BY <1>1, <1>3, <1>4, <1>5, <1>6, Same

LEMMA Singles ==
    ASSUME NEW S, NEW c \in S, NEW a \in Seq(S)
    PROVE  <<c>> \in Seq(S) /\ <<c>> \o a \in Seq(S) /\ Append(a, c) = a \o <<c>>
  OBVIOUS

LEMMA CrlfStarts ==
    ASSUME NEW u \in Seq(TextChar), NEW c \in TextChar, NEW y \in Seq(TextChar),
           Crlf(u) = <<c>> \o y
    PROVE  /\ c # NL
           /\ \E v \in Seq(TextChar) :
                 \/ Starts(u, c, v) /\ y = Crlf(v)
                 \/ c = CR /\ Starts(u, NL, v) /\ Starts(y, NL, Crlf(v))
<1>0. CR \in TextChar /\ NL \in TextChar /\ CR # NL
  BY TextChars
<1>1. u # <<>>
  BY CrlfEmpty, Empties0
<1>2. PICK d \in TextChar, v \in Seq(TextChar) : Starts(u, d, v)
  BY <1>1, FirstOf
<1>3. PICK w \in Seq(TextChar) : w = Crlf(v)
  BY CrlfIn
<1>4. <<c>> \o y = One(d) \o w
  BY <1>2, <1>3, CrlfFirst DEF Starts
<1>5. CASE d = NL
  <2>1. One(d) \o w = <<CR>> \o (<<NL>> \o w)
    <3>1. One(d) = <<CR>> \o <<NL>>
      BY <1>0, <1>5, OneIs, Pair
    <3>2. <<CR>> \in Seq(TextChar) /\ <<NL>> \in Seq(TextChar)
      BY <1>0
    <3> QED
      BY <3>1, <3>2, Three
  <2>2. PICK z \in Seq(TextChar) : z = <<NL>> \o w
    BY <1>0, Singles
  <2>3. <<c>> \o y = <<CR>> \o z
    BY <1>4, <2>1, <2>2
  <2>4. c = CR /\ y = z
    BY <1>0, <2>3, CancelFirst
  <2>5. Starts(y, NL, Crlf(v))
    BY <1>3, <2>2, <2>4 DEF Starts
  <2> QED
    BY <1>0, <1>2, <1>5, <2>4, <2>5
<1>6. CASE d # NL
  <2>1. One(d) = <<d>>
    BY <1>6, OneIs
  <2>2. <<c>> \o y = <<d>> \o w
    BY <1>4, <2>1
  <2>3. c = d /\ y = w
    BY <2>2, CancelFirst
  <2> QED
    BY <1>2, <1>3, <1>6, <2>3
<1> QED
  BY <1>5, <1>6

LEMMA CrlfNone == \A u \in Seq(TextChar) : Crlf(u) = <<>> => u = <<>>
<1> SUFFICES ASSUME NEW u \in Seq(TextChar), Crlf(u) = <<>>, u # <<>> PROVE FALSE
  OBVIOUS
<1>1. PICK d \in TextChar, v \in Seq(TextChar) : Starts(u, d, v)
  BY FirstOf
<1>2. PICK w \in Seq(TextChar) : w = Crlf(v)
  BY CrlfIn
<1>3. One(d) \o w = <<>> /\ One(d) \in Seq(TextChar)
  BY <1>1, <1>2, CrlfFirst, OneIs DEF Starts
<1>4. Len(One(d)) + Len(w) = 0
  <2>1. Len(One(d) \o w) = Len(One(d)) + Len(w)
    BY <1>3, Joined
  <2> QED
    BY <1>3, <2>1
<1>5. Len(One(d)) \in Nat /\ Len(w) \in Nat /\ Len(One(d)) > 0
  BY <1>3 DEF One
<1> QED
  BY <1>4, <1>5

(* Without a "\r" it is the text itself.                                   *)
Without(c, s) == \A i \in 1 .. Len(s) : s[i] # c
LeavesText(u, r, v, x) == u = r \o v /\ Crlf(v) = x

LEMMA PlainPrefix ==
    ASSUME NEW u \in Seq(TextChar), NEW r \in Seq(TextChar), NEW x \in Seq(TextChar),
           Crlf(u) = r \o x, Without(CR, r)
    PROVE  \E v \in Seq(TextChar) : LeavesText(u, r, v, x)
<1> DEFINE Found(p, z) == \E v \in Seq(TextChar) : LeavesText(u, p, v, z)
           Q == {p \in Seq(TextChar) : Without(CR, p) =>
                    \A z \in Seq(TextChar) : Crlf(u) = p \o z => Found(p, z)}
<1>1. <<>> \in Q
  <2>1. \A z \in Seq(TextChar) : Crlf(u) = <<>> \o z => Found(<<>>, z)
    <3> SUFFICES ASSUME NEW z \in Seq(TextChar), Crlf(u) = <<>> \o z PROVE Found(<<>>, z)
      OBVIOUS
    <3>1. Crlf(u) = z /\ u = <<>> \o u
      BY Empties0
    <3>2. LeavesText(u, <<>>, u, z)
      BY <3>1 DEF LeavesText
    <3> QED
      BY <3>2
  <2> HIDE DEF Found
  <2>2. <<>> \in Seq(TextChar)
    OBVIOUS
  <2> QED
    BY <2>1, <2>2
<1>2. \A p \in Seq(TextChar), c \in TextChar : p \in Q => Append(p, c) \in Q
  <2> SUFFICES ASSUME NEW p \in Seq(TextChar), NEW c \in TextChar, p \in Q
               PROVE  Append(p, c) \in Q
    OBVIOUS
  <2>1. PICK q \in Seq(TextChar) : Extended(q, p, c)
    BY Longer
  <2> SUFFICES ASSUME Without(CR, q),
                      NEW z \in Seq(TextChar), Crlf(u) = q \o z
               PROVE  Found(q, z)
    <3> HIDE DEF Found
    <3> QED
      BY <2>1 DEF Extended
  <2>2. Len(p) \in Nat
    OBVIOUS
  <2>3. c # CR /\ Without(CR, p)
    <3>1. \A i \in 1 .. Len(p) : i \in 1 .. Len(q)
      BY <2>1, <2>2 DEF Extended
    <3>2. Len(p) + 1 \in 1 .. Len(q)
      BY <2>1, <2>2 DEF Extended
    <3> QED
      BY <2>1, <3>1, <3>2 DEF Extended, Without
  <2>4. q = p \o <<c>> /\ <<c>> \in Seq(TextChar) /\ <<c>> \o z \in Seq(TextChar)
    BY <2>1, Singles DEF Extended
  <2>5. Crlf(u) = p \o (<<c>> \o z)
    <3>1. (p \o <<c>>) \o z = p \o (<<c>> \o z)
      BY <2>4, Three
    <3> QED
      BY <2>4, <3>1
  <2>9. PICK v \in Seq(TextChar) : LeavesText(u, p, v, <<c>> \o z)
    BY <2>3, <2>4, <2>5
  <2>6. v \in Seq(TextChar) /\ u = p \o v /\ Crlf(v) = <<c>> \o z
    BY <2>9 DEF LeavesText
  <2>7. PICK w \in Seq(TextChar) : Starts(v, c, w) /\ z = Crlf(w)
    <3>1. \E w \in Seq(TextChar) :
             \/ Starts(v, c, w) /\ z = Crlf(w)
             \/ c = CR /\ Starts(v, NL, w) /\ Starts(z, NL, Crlf(w))
      BY <2>6, CrlfStarts
    <3> QED
      BY <2>3, <3>1
  <2>8. u = q \o w
    <3>1. u = p \o (<<c>> \o w)
      BY <2>6, <2>7 DEF Starts
    <3>2. (p \o <<c>>) \o w = p \o (<<c>> \o w)
      BY <2>7, Between
    <3> QED
      BY <2>4, <3>1, <3>2
  <2> QED
    BY <2>7, <2>8 DEF LeavesText
<1> HIDE DEF Q
<1>3. r \in Q
  BY <1>1, <1>2, SeqUp
<1> QED
  BY <1>3 DEF Q

(* A file in lines is that of a text.                                      *)
LEMMA OfLines == \A f \in Seq(TextChar) : InLines(f) => \E t \in Seq(TextChar) : f = Crlf(t)
<1> DEFINE IsOf(f) == \E t \in Seq(TextChar) : f = Crlf(t)
           Q == {f \in Seq(TextChar) : InLines(f) => IsOf(f)}
<1>0. CR \in TextChar /\ NL \in TextChar /\ CR # NL
  BY TextChars
<1>1. <<>> \in Q
  <2>1. <<>> \in Seq(TextChar)
    OBVIOUS
  <2> QED
    BY <2>1, CrlfEmpty
<1>2. \A f \in Seq(TextChar), c \in TextChar : f \in Q => Append(f, c) \in Q
  <2> SUFFICES ASSUME NEW f \in Seq(TextChar), NEW c \in TextChar, f \in Q
               PROVE  Append(f, c) \in Q
    OBVIOUS
  <2>1. PICK g \in Seq(TextChar) : Extended(g, f, c)
    BY Longer
  <2> SUFFICES ASSUME InLines(g) PROVE IsOf(g)
    <3> HIDE DEF IsOf
    <3> QED
      BY <2>1 DEF Extended
  <2>2. Len(f) \in Nat /\ DOMAIN f = 1 .. Len(f) /\ DOMAIN g = 1 .. Len(g)
    OBVIOUS
  <2>3. InLines(f)
    <3> SUFFICES ASSUME NEW i \in 1 .. Len(f), f[i] = NL PROVE i > 1 /\ f[i - 1] = CR
      BY <2>2 DEF InLines
    <3>1. i \in 1 .. Len(g) /\ g[i] = NL
      BY <2>1, <2>2 DEF Extended
    <3>2. i > 1 /\ g[i - 1] = CR
      BY <2>2, <3>1 DEF InLines
    <3>3. i - 1 \in 1 .. Len(f)
      BY <2>2, <3>2
    <3> QED
      BY <2>1, <3>2, <3>3 DEF Extended
  <2>4. PICK t \in Seq(TextChar) : f = Crlf(t)
    BY <2>3
  <2>5. CASE c # NL
    <3>1. Crlf(Append(t, c)) = f \o <<c>>
      BY <2>4, <2>5, CrlfAppend, OneIs
    <3>2. g = f \o <<c>> /\ Append(t, c) \in Seq(TextChar)
      BY <2>1 DEF Extended
    <3> QED
      BY <3>1, <3>2
  <2>6. CASE c = NL
    <3>1. Len(f) + 1 > 1 /\ g[(Len(f) + 1) - 1] = CR
      <4>1. Len(f) + 1 \in 1 .. Len(g) /\ g[Len(f) + 1] = NL
        BY <2>1, <2>2, <2>6 DEF Extended
      <4> QED
        BY <2>2, <4>1 DEF InLines
    <3>2. Len(f) > 0 /\ f[Len(f)] = CR
      <4>1. Len(f) > 0 /\ (Len(f) + 1) - 1 = Len(f) /\ Len(f) \in 1 .. Len(f)
        BY <2>2, <3>1
      <4> QED
        BY <2>1, <3>1, <4>1 DEF Extended
    <3>3. t # <<>>
      BY <2>4, <3>2, CrlfEmpty
    <3>4. PICK v \in Seq(TextChar), d \in TextChar : t = Append(v, d)
      BY <3>3, LastOf
    <3>5. PICK h \in Seq(TextChar) : h = Crlf(v)
      BY CrlfIn
    <3>6. f = h \o One(d)
      BY <2>4, <3>4, <3>5, CrlfAppend
    <3>7. d # NL
      <4> SUFFICES ASSUME d = NL PROVE FALSE
        OBVIOUS
      <4>1. f = h \o <<CR, NL>>
        BY <3>6, OneIs
      <4>2. f[Len(f)] = NL
        BY <1>0, <4>1
      <4> QED
        BY <1>0, <3>2, <4>2
    <3>8. f = h \o <<d>>
      BY <3>6, <3>7, OneIs
    <3>9. d = CR
      <4>1. f[Len(f)] = d
        BY <3>8
      <4> QED
        BY <3>2, <4>1
    <3>10. g = h \o <<CR, NL>>
      <4>1. g = Append(f, NL)
        BY <2>1, <2>6 DEF Extended
      <4>2. Append(h \o <<CR>>, NL) = h \o <<CR, NL>>
        BY <1>0
      <4> QED
        BY <3>8, <3>9, <4>1, <4>2
    <3>11. Crlf(Append(v, NL)) = h \o <<CR, NL>>
      BY <1>0, <3>5, CrlfAppend, OneIs
    <3>12. Append(v, NL) \in Seq(TextChar)
      BY <1>0
    <3> QED
      BY <3>10, <3>11, <3>12
  <2> QED
    BY <2>5, <2>6
<1> HIDE DEF Q
<1>3. \A f \in Seq(TextChar) : f \in Q
  BY <1>1, <1>2, SeqUp
<1> QED
  BY <1>3 DEF Q

-----------------------------------------------------------------------------
(* Firsts() and From() cut a sequence in two.                              *)
LEMMA Cut ==
    ASSUME NEW S, NEW s \in Seq(S), NEW n \in Nat
    PROVE  /\ Firsts(s, n) \in Seq(S) /\ From(s, n) \in Seq(S)
           /\ s = Firsts(s, n) \o From(s, n)
           /\ n <= Len(s) => Len(Firsts(s, n)) = n
           /\ n >= Len(s) => Firsts(s, n) = s /\ From(s, n) = <<>>
<1>0. Len(s) \in Nat
  OBVIOUS
<1>1. CASE n >= Len(s)
  <2>1. SubSeq(s, 1, Len(s)) = s /\ SubSeq(s, n + 1, Len(s)) = <<>>
    BY <1>1
  <2>5. (IF n < Len(s) THEN n ELSE Len(s)) = Len(s)
    BY <1>0, <1>1
  <2>2. Firsts(s, n) = s
    BY <2>1, <2>5 DEF Firsts
  <2>3. From(s, n) = <<>>
    BY <2>1 DEF From
  <2>4. s \o <<>> = s /\ <<>> \in Seq(S)
    OBVIOUS
  <2> QED
    BY <1>0, <1>1, <2>2, <2>3, <2>4
<1>2. CASE n < Len(s)
  <2>1. PICK a : a = SubSeq(s, 1, n)
    OBVIOUS
  <2>2. PICK b : b = SubSeq(s, n + 1, Len(s))
    OBVIOUS
  <2>3. a \in Seq(S) /\ Len(a) = n /\ \A i \in 1 .. n : a[i] = s[i]
    BY <1>2, <2>1
  <2>4. b \in Seq(S) /\ Len(b) = Len(s) - n /\ \A i \in 1 .. Len(s) - n : b[i] = s[n + i]
    BY <1>2, <2>2
  <2>5. s = a \o b
    <3>1. PICK e \in Seq(S) : e = a \o b
      BY <2>3, <2>4, Joined
    <3>2. /\ Len(e) = Len(s)
          /\ \A i \in 1 .. n : e[i] = a[i]
          /\ \A i \in 1 .. Len(s) - n : e[n + i] = b[i]
      <4>1. Len(a \o b) = Len(a) + Len(b)
        BY <2>3, <2>4, Joined
      <4>2. \A i \in 1 .. Len(a) : (a \o b)[i] = a[i]
        BY <2>3, <2>4, Joined
      <4>3. \A i \in 1 .. Len(b) : (a \o b)[Len(a) + i] = b[i]
        BY <2>3, <2>4, Joined
      <4> QED
        BY <1>0, <2>3, <2>4, <3>1, <4>1, <4>2, <4>3
    <3>3. \A i \in 1 .. Len(e) : e[i] = s[i]
      <4> SUFFICES ASSUME NEW i \in 1 .. Len(s) PROVE e[i] = s[i]
        BY <3>2
      <4>1. CASE i <= n
        BY <2>3, <3>2, <4>1
      <4>2. CASE i > n
        <5>1. i - n \in 1 .. Len(s) - n /\ n + (i - n) = i
          BY <1>0, <4>2
        <5>2. e[n + (i - n)] = b[i - n] /\ b[i - n] = s[n + (i - n)]
          BY <2>4, <3>2, <5>1
        <5> QED
          BY <5>1, <5>2
      <4> QED
        BY <1>0, <4>1, <4>2
    <3> QED
      BY <3>1, <3>2, <3>3, Same
  <2>6. (IF n < Len(s) THEN n ELSE Len(s)) = n /\ ~(n >= Len(s))
    BY <1>0, <1>2
  <2>7. Firsts(s, n) = a /\ From(s, n) = b
    BY <2>1, <2>2, <2>6 DEF Firsts, From
  <2> QED
    BY <2>3, <2>4, <2>5, <2>6, <2>7
<1> QED
  BY <1>0, <1>1, <1>2

LEMMA CutJoin ==
    ASSUME NEW S, NEW a \in Seq(S), NEW b \in Seq(S)
    PROVE  /\ Firsts(a \o b, Len(a)) = a /\ From(a \o b, Len(a)) = b
<1>1. PICK s \in Seq(S) : s = a \o b
  BY Joined
<1>2. Len(s) = Len(a) + Len(b) /\ Len(a) \in Nat /\ Len(b) \in Nat /\ Len(a) <= Len(s)
  BY <1>1, Joined
<1>3. PICK c \in Seq(S) : c = Firsts(s, Len(a))
  BY <1>1, <1>2, Cut
<1>4. PICK d \in Seq(S) : d = From(s, Len(a))
  BY <1>1, <1>2, Cut
<1>5. s = c \o d /\ Len(c) = Len(a)
  BY <1>1, <1>2, <1>3, <1>4, Cut
<1>6. \A i \in 1 .. Len(a) : c[i] = a[i]
  <2>1. \A i \in 1 .. Len(a) : (c \o d)[i] = c[i] /\ (a \o b)[i] = a[i]
    BY <1>3, <1>4, <1>5, Joined
  <2> QED
    BY <1>1, <1>5, <2>1
<1>7. c = a
  BY <1>3, <1>5, <1>6, Same
<1>8. a \o d = a \o b
  BY <1>1, <1>5, <1>7
<1>9. d = b
  BY <1>4, <1>8, Cancel
<1> QED
  BY <1>1, <1>3, <1>4, <1>7, <1>9

LEMMA FromOn ==
    ASSUME NEW S, NEW s \in Seq(S), NEW p \in 0 .. Len(s), NEW a \in Seq(S), NEW b \in Seq(S),
           From(s, p) = a \o b
    PROVE  p + Len(a) \in 0 .. Len(s) /\ From(s, p + Len(a)) = b
<1>0. Len(s) \in Nat /\ Len(a) \in Nat /\ Len(b) \in Nat /\ p \in Nat /\ p <= Len(s)
  OBVIOUS
<1>1. PICK h \in Seq(S) : h = Firsts(s, p)
  BY <1>0, Cut
<1>2. s = h \o (a \o b) /\ Len(h) = p
  <2>1. s = h \o From(s, p)
    BY <1>0, <1>1, Cut
  <2>2. p <= Len(s) => Len(Firsts(s, p)) = p
    BY <1>0, Cut
  <2> QED
    BY <1>0, <1>1, <2>1, <2>2
<1>3. PICK g \in Seq(S) : g = h \o a
  BY <1>1, Joined
<1>4. Len(g) = p + Len(a)
  BY <1>1, <1>2, <1>3, Joined
<1>5. s = g \o b
  <2>1. (h \o a) \o b = h \o (a \o b)
    BY <1>1, Three
  <2> QED
    BY <1>2, <1>3, <2>1
<1>6. From(g \o b, Len(g)) = b
  BY <1>3, CutJoin
<1>7. Len(g \o b) = Len(g) + Len(b)
  BY <1>3, Joined
<1> QED
  BY <1>0, <1>4, <1>5, <1>6, <1>7

LEMMA FromAll ==
    ASSUME NEW S, NEW s \in Seq(S)
    PROVE  From(s, 0) = s /\ From(s, Len(s)) = <<>> /\ Firsts(s, 0) = <<>>
<1>1. 0 \in Nat /\ Len(s) \in Nat
  OBVIOUS
<1>2. From(s, Len(s)) = <<>>
  BY <1>1, Cut
<1>3. Firsts(s, 0) = <<>>
  BY <1>1 DEF Firsts
<1>4. From(s, 0) = s
  BY DEF From
<1> QED
  BY <1>2, <1>3, <1>4

(* The first of the places.                                                *)
LEMMA FirstIs ==
    ASSUME NEW P \in SUBSET Nat, P # {}
    PROVE  First(P) \in P /\ \A j \in P : First(P) <= j
<1>1. PICK i \in P : \A j \in P : ~(<<j, i>> \in OpToRel(<, Nat))
  BY NatLessThanWellFounded, WFMin
<1>2. \A j \in P : i <= j
  <2> SUFFICES ASSUME NEW j \in P, ~(i <= j) PROVE FALSE
    OBVIOUS
  <2>0. i \in P
    BY <1>1
  <2>1. i \in Nat /\ j \in Nat /\ j < i
    BY <2>0
  <2>2. <<j, i>> \in OpToRel(<, Nat)
    BY <2>1 DEF OpToRel
  <2> QED
    BY <1>1, <2>2
<1>3. \E k \in P : \A j \in P : k <= j
  BY <1>1, <1>2
<1> QED
  BY <1>3 DEF First

Parts(s, a, c, b) == s = a \o (<<c>> \o b) /\ s = (a \o <<c>>) \o b

LEMMA FirstPlace ==
    ASSUME NEW v \in Seq(TextChar), NEW r \in Seq(TextChar), NEW s \in Seq(TextChar), s = v \o r,
           NEW c \in TextChar
    PROVE  /\ Places(c, s, Len(v)) = {} => Without(c, r)
           /\ Places(c, s, Len(v)) # {} =>
                \E p, q \in Seq(TextChar) :
                    /\ Parts(r, p, c, q) /\ Without(c, p)
                    /\ First(Places(c, s, Len(v))) = Len(v) + Len(p) + 1
<1>0. /\ Len(v) \in Nat /\ Len(r) \in Nat /\ Len(s) = Len(v) + Len(r) /\ DOMAIN s = 1 .. Len(s)
      /\ \A i \in 1 .. Len(r) : s[Len(v) + i] = r[i]
  BY Joined
<1> DEFINE P == Places(c, s, Len(v))
<1>1. ASSUME P = {}
      PROVE  Without(c, r)
  <2> SUFFICES ASSUME NEW i \in 1 .. Len(r), r[i] = c PROVE FALSE
    BY DEF Without
  <2>1. Len(v) + i \in 1 .. Len(s) /\ Len(v) + i > Len(v) /\ s[Len(v) + i] = c
    BY <1>0
  <2> QED
    BY <1>0, <1>1, <2>1 DEF Places
<1>2. ASSUME P # {}
      PROVE  \E p, q \in Seq(TextChar) :
                /\ Parts(r, p, c, q) /\ Without(c, p)
                /\ First(P) = Len(v) + Len(p) + 1
  <2>1. P \in SUBSET Nat
    BY <1>0 DEF Places
  <2>2. First(P) \in P /\ \A j \in P : First(P) <= j
    BY <1>2, <2>1, FirstIs
  <2> DEFINE k == First(P) - Len(v)
  <2>3. First(P) \in 1 .. Len(s) /\ First(P) > Len(v) /\ s[First(P)] = c
    BY <1>0, <2>2 DEF Places
  <2>4. k \in 1 .. Len(r) /\ Len(v) + k = First(P) /\ k - 1 \in Nat /\ k - 1 <= Len(r) /\ k \in Nat
    BY <1>0, <2>3
  <2>5. r[k] = c
    BY <1>0, <2>3, <2>4
  <2> HIDE DEF k
  <2>6. PICK p \in Seq(TextChar) : p = Firsts(r, k - 1)
    BY <2>4, Cut
  <2>7. PICK q \in Seq(TextChar) : q = From(r, k)
    BY <2>4, Cut
  <2>8. Len(p) = k - 1
    BY <2>4, <2>6, Cut
  <2>9. \A i \in 1 .. k - 1 : p[i] = r[i]
    BY <2>4, <2>6 DEF Firsts
  <2>10. r = (p \o <<c>>) \o q
    <3>1. PICK g \in Seq(TextChar) : g = Firsts(r, k)
      BY <2>4, Cut
    <3>2. r = g \o q /\ Len(g) = k
      <4>1. r = Firsts(r, k) \o From(r, k)
        BY <2>4, Cut
      <4>2. k <= Len(r) => Len(Firsts(r, k)) = k
        BY <2>4, Cut
      <4> QED
        BY <2>4, <2>7, <3>1, <4>1, <4>2
    <3>3. \A i \in 1 .. k : g[i] = r[i]
      BY <2>4, <3>1 DEF Firsts
    <3>4. PICK h \in Seq(TextChar) : h = p \o <<c>>
      BY <2>6, Joined, Singles
    <3>5. Len(h) = k /\ h[k] = c /\ \A i \in 1 .. k - 1 : h[i] = p[i]
      BY <2>4, <2>6, <2>8, <3>4
    <3>6. \A i \in 1 .. Len(h) : h[i] = g[i]
      <4> SUFFICES ASSUME NEW i \in 1 .. k PROVE h[i] = g[i]
        BY <3>5
      <4>1. CASE i = k
        BY <2>4, <2>5, <3>3, <3>5, <4>1
      <4>2. CASE i # k
        <5>1. i \in 1 .. k - 1
          BY <2>4, <4>2
        <5> QED
          BY <2>9, <3>3, <3>5, <5>1
      <4> QED
        BY <4>1, <4>2
    <3>7. h = g
      BY <3>1, <3>2, <3>4, <3>5, <3>6, Same
    <3> QED
      BY <3>2, <3>4, <3>7
  <2>11. Parts(r, p, c, q)
    BY <2>6, <2>7, <2>10, Between DEF Parts
  <2>12. Without(c, p)
    <3> SUFFICES ASSUME NEW i \in 1 .. k - 1, p[i] = c PROVE FALSE
      BY <2>8 DEF Without
    <3>1. r[i] = c /\ i \in 1 .. Len(r) /\ i < k
      BY <2>4, <2>9
    <3>2. Len(v) + i \in 1 .. Len(s) /\ Len(v) + i > Len(v) /\ s[Len(v) + i] = c
      BY <1>0, <3>1
    <3>3. Len(v) + i \in P
      BY <1>0, <3>2 DEF Places
    <3>4. First(P) <= Len(v) + i
      BY <2>2, <3>3
    <3> QED
      BY <1>0, <2>4, <3>1, <3>4
  <2>13. First(P) = Len(v) + Len(p) + 1
    BY <1>0, <2>4, <2>8
  <2> QED
    BY <2>6, <2>7, <2>11, <2>12, <2>13
<1> QED
  BY <1>1, <1>2

-----------------------------------------------------------------------------
(* The loop of m_read_text().  The text u is what the file still has: v of *)
(* it is read, r is the bytes after the pointer, and y is the text of r    *)
(* and of what comes after it in the file.                                 *)
States == [b : Seq(TextChar), at : Nat, tail : Nat, pos : 0 .. Len(bytes), eof : BOOLEAN]
Ahead(s) == From(bytes, s.pos)
Holds(s, u, v, r, y) ==
    /\ u = v \o y /\ s.at = Len(v) /\ s.b = v \o r /\ Crlf(y) = r \o Ahead(s)
Fits(s, size) ==
    /\ s \in States /\ Len(s.b) + s.tail <= size
    /\ s.eof => Ahead(s) = <<>>
Reading(s, u, size) ==
    /\ Fits(s, size)
    /\ \E v, r, y \in Seq(TextChar) : Holds(s, u, v, r, y)

FromIs(f, p, x) == p \in 0 .. Len(f) /\ From(f, p) = x

LEMMA FromNext ==
    \A f, a, b \in Seq(TextChar) : \A p \in 0 .. Len(f) :
        From(f, p) = a \o b => FromIs(f, p + Len(a), b)
  BY FromOn DEF FromIs

LEMMA AfterCr ==
    ASSUME NEW u \in Seq(TextChar), NEW y \in Seq(TextChar), Crlf(u) = <<CR>> \o y
    PROVE  \E t \in Seq(TextChar) :
              \/ Starts(u, NL, t) /\ Starts(y, NL, Crlf(t))
              \/ /\ Starts(u, CR, t) /\ y = Crlf(t)
                 /\ \A z \in Seq(TextChar) : ~Starts(y, NL, z)
<1>0. CR \in TextChar /\ NL \in TextChar /\ CR # NL
  BY TextChars
<1>1. \E t \in Seq(TextChar) :
         \/ Starts(u, CR, t) /\ y = Crlf(t)
         \/ CR = CR /\ Starts(u, NL, t) /\ Starts(y, NL, Crlf(t))
  BY <1>0, CrlfStarts
<1>2. PICK t \in Seq(TextChar) :
         \/ Starts(u, CR, t) /\ y = Crlf(t)
         \/ Starts(u, NL, t) /\ Starts(y, NL, Crlf(t))
  BY <1>1
<1>3. CASE Starts(u, CR, t) /\ y = Crlf(t)
  <2>1. ASSUME NEW z \in Seq(TextChar), Starts(y, NL, z)
        PROVE  FALSE
    <3>1. Crlf(t) = <<NL>> \o z
      BY <1>3, <2>1 DEF Starts
    <3>2. NL # NL
      BY <1>0, <1>2, <3>1, CrlfStarts
    <3> QED
      BY <3>2
  <2> QED
    BY <1>2, <1>3, <2>1
<1>4. CASE Starts(u, NL, t) /\ Starts(y, NL, Crlf(t))
  BY <1>2, <1>4
<1> QED
  BY <1>2, <1>3, <1>4

LEMMA Refills ==
    ASSUME bytes \in Seq(TextChar), NEW s \in States
    PROVE  \E more \in Seq(TextChar) :
              /\ more = Taken(s, s.tail) /\ Len(more) <= s.tail
              /\ Refilled(s) \in States
              /\ Refilled(s).b = s.b \o more /\ Refilled(s).at = s.at /\ Refilled(s).tail = 0
              /\ Ahead(s) = more \o Ahead(Refilled(s))
              /\ Refilled(s).eof => Ahead(Refilled(s)) = <<>>
<1>0. /\ s.b \in Seq(TextChar) /\ s.tail \in Nat /\ s.pos \in 0 .. Len(bytes) /\ s.at \in Nat
      /\ Len(bytes) \in Nat /\ s.pos \in Nat
  BY DEF States
<1>1. PICK x \in Seq(TextChar) : x = Ahead(s)
  BY <1>0, Cut DEF Ahead
<1>2. PICK more \in Seq(TextChar) : more = Firsts(x, s.tail)
  BY <1>0, <1>1, Cut
<1>3. PICK z \in Seq(TextChar) : z = From(x, s.tail)
  BY <1>0, <1>1, Cut
<1>4. x = more \o z
  <2>1. x = Firsts(x, s.tail) \o From(x, s.tail)
    BY <1>0, <1>1, Cut
  <2> QED
    BY <1>2, <1>3, <2>1
<1>5. s.pos + Len(more) \in 0 .. Len(bytes) /\ From(bytes, s.pos + Len(more)) = z
  <2>1. From(bytes, s.pos) = more \o z
    BY <1>1, <1>4 DEF Ahead
  <2>2. s.pos \in 0 .. Len(bytes) /\ more \in Seq(TextChar) /\ z \in Seq(TextChar)
    BY <1>0, <1>2, <1>3
  <2>3. FromIs(bytes, s.pos + Len(more), z)
    BY <2>1, <2>2, FromNext
  <2> QED
    BY <2>3 DEF FromIs
<1>6. Len(more) <= s.tail /\ (Len(more) # s.tail => z = <<>>)
  <2>1. CASE s.tail <= Len(x)
    <3>1. Len(more) = s.tail
      BY <1>0, <1>1, <1>2, <2>1, Cut
    <3> QED
      BY <1>0, <3>1
  <2>2. CASE s.tail >= Len(x)
    <3>1. more = x /\ z = <<>>
      BY <1>0, <1>1, <1>2, <1>3, <2>2, Cut
    <3> QED
      BY <2>2, <3>1
  <2> QED
    BY <1>0, <1>1, <2>1, <2>2
<1>7. more = Taken(s, s.tail)
  BY <1>1, <1>2 DEF Taken, Ahead
<1>8. PICK t \in States : t = Refilled(s)
  <2>1. s.b \o more \in Seq(TextChar)
    BY <1>0, <1>2, Joined
  <2> QED
    BY <1>0, <1>5, <1>7, <2>1 DEF Refilled, States
<1>9. /\ t.b = s.b \o more /\ t.at = s.at /\ t.tail = 0 /\ t.pos = s.pos + Len(more)
      /\ t.eof = (Len(more) # s.tail)
  BY <1>0, <1>7, <1>8 DEF Refilled, States
<1>10. Ahead(t) = z
  BY <1>5, <1>9 DEF Ahead
<1>11. Ahead(s) = more \o Ahead(t) /\ (t.eof => Ahead(t) = <<>>)
  BY <1>1, <1>4, <1>6, <1>9, <1>10
<1> QED
  BY <1>2, <1>6, <1>7, <1>8, <1>9, <1>11

LEMMA RefillsOn ==
    ASSUME bytes \in Seq(TextChar), NEW s, NEW u \in Seq(TextChar), NEW size \in Nat, Fits(s, size),
           NEW v \in Seq(TextChar), NEW r \in Seq(TextChar), NEW y \in Seq(TextChar), Holds(s, u, v, r, y)
    PROVE  \E more \in Seq(TextChar) :
              /\ more = Taken(s, s.tail) /\ Refilled(s).b = s.b \o more
              /\ Fits(Refilled(s), size) /\ Holds(Refilled(s), u, v, r \o more, y)
<1>0. s \in States /\ s.b \in Seq(TextChar) /\ s.tail \in Nat /\ Len(s.b) + s.tail <= size
  BY DEF Fits, States
<1>1. PICK more \in Seq(TextChar) :
         /\ more = Taken(s, s.tail) /\ Len(more) <= s.tail
         /\ Refilled(s) \in States
         /\ Refilled(s).b = s.b \o more /\ Refilled(s).at = s.at /\ Refilled(s).tail = 0
         /\ Ahead(s) = more \o Ahead(Refilled(s))
         /\ Refilled(s).eof => Ahead(Refilled(s)) = <<>>
  BY <1>0, Refills
<1>2. PICK t \in States : t = Refilled(s)
  BY <1>1
<1>3. PICK z \in Seq(TextChar) : z = Ahead(t)
  <2>1. t.pos \in Nat
    BY <1>2 DEF States
  <2> QED
    BY <2>1, Cut DEF Ahead
<1>4. PICK q \in Seq(TextChar) : q = r \o more
  BY <1>1, Joined
<1>5. Fits(t, size)
  <2>1. Len(s.b) \in Nat /\ Len(more) \in Nat /\ more \in Seq(TextChar)
    BY <1>0, <1>1
  <2>2. Len(s.b \o more) = Len(s.b) + Len(more)
    BY <1>0, <2>1, Joined
  <2>3. t \in States /\ t.b = s.b \o more /\ t.tail = 0 /\ (t.eof => Ahead(t) = <<>>)
    BY <1>1, <1>2
  <2>4. Len(t.b) + t.tail <= size
    <3>1. Len(t.b) = Len(s.b) + Len(more) /\ t.tail = 0 /\ Len(more) <= s.tail
      BY <1>1, <2>2, <2>3
    <3> QED
      BY <1>0, <2>1, <3>1
  <2> QED
    BY <2>3, <2>4 DEF Fits
<1>6. u = v \o y /\ s.at = Len(v) /\ s.b = v \o r /\ Crlf(y) = r \o Ahead(s)
  BY DEF Holds
<1>7. t.b = v \o q
  <2>1. Assoc(v, r, more)
    BY <1>1, Assocs
  <2> QED
    BY <1>1, <1>2, <1>4, <1>6, <2>1 DEF Assoc
<1>8. Crlf(y) = q \o z
  <2>1. Assoc(r, more, z)
    BY <1>1, <1>3, Assocs
  <2> QED
    BY <1>1, <1>2, <1>3, <1>4, <1>6, <2>1 DEF Assoc
<1>9. Holds(t, u, v, q, y)
  BY <1>1, <1>2, <1>3, <1>6, <1>7, <1>8 DEF Holds
<1> QED
  BY <1>1, <1>2, <1>4, <1>5, <1>9

(* s.at is not used: w is what is before a "\r", q the bytes after it.     *)
AtCr(s, u, w, q, t) ==
    /\ s.b = (w \o <<CR>>) \o q /\ u = w \o t
    /\ Crlf(t) = <<CR>> \o (q \o Ahead(s))

LEMMA AheadIn ==
    ASSUME bytes \in Seq(TextChar), NEW s, NEW size, Fits(s, size)
    PROVE  /\ Ahead(s) \in Seq(TextChar) /\ s.b \in Seq(TextChar) /\ s.at \in Nat
           /\ s.pos \in 0 .. Len(bytes) /\ s.tail \in Nat /\ s \in States
           /\ Len(s.b) + s.tail <= size /\ Len(s.b) \in Nat
<1>1. s.pos \in 0 .. Len(bytes) /\ s.pos \in Nat /\ s.b \in Seq(TextChar)
  BY DEF Fits, States
<1>2. Ahead(s) \in Seq(TextChar)
  BY <1>1, Cut DEF Ahead
<1>3. Len(s.b) \in Nat
  BY <1>1
<1> QED
  BY <1>1, <1>2, <1>3 DEF Fits, States

LEMMA EndedIs ==
    ASSUME bytes \in Seq(TextChar), NEW s, NEW size, Fits(s, size)
    PROVE  /\ Fits(Ended(s), size) /\ Ahead(Ended(s)) = Ahead(s)
           /\ Ended(s).b = s.b /\ Ended(s).at = Len(s.b)
<1>1. s \in States /\ Len(s.b) \in Nat
  BY AheadIn
<1>2. PICK t \in States : t = Ended(s)
  BY <1>1 DEF Ended, States
<1>3. t.b = s.b /\ t.at = Len(s.b) /\ t.tail = s.tail /\ t.pos = s.pos /\ t.eof = s.eof
  BY <1>1, <1>2 DEF Ended, States
<1>4. Ahead(t) = Ahead(s)
  BY <1>3 DEF Ahead
<1> QED
  BY <1>2, <1>3, <1>4 DEF Fits

(* Nothing is left between the pointer and the end.                        *)
LEMMA AllRead ==
    ASSUME bytes \in Seq(TextChar), NEW s, NEW size, Fits(s, size),
           NEW u \in Seq(TextChar), NEW y \in Seq(TextChar),
           s.at = Len(s.b), u = s.b \o y, Crlf(y) = Ahead(s)
    PROVE  Reading(s, u, size) /\ Holds(s, u, s.b, <<>>, y)
<1>1. s.b \in Seq(TextChar) /\ Ahead(s) \in Seq(TextChar) /\ <<>> \in Seq(TextChar)
  BY AheadIn
<1>2. s.b \o <<>> = s.b /\ <<>> \o Ahead(s) = Ahead(s)
  BY <1>1, Empties0
<1>3. Holds(s, u, s.b, <<>>, y)
  BY <1>2 DEF Holds
<1> QED
  BY <1>1, <1>3 DEF Reading

LEMMA PlainTurn ==
    ASSUME bytes \in Seq(TextChar), NEW s, NEW size, Fits(s, size), NEW u \in Seq(TextChar),
           NEW v \in Seq(TextChar), NEW r \in Seq(TextChar), NEW y \in Seq(TextChar),
           Holds(s, u, v, r, y), Without(CR, r)
    PROVE  /\ Reading(Ended(s), u, size) /\ Fits(Ended(s), size)
           /\ \E z \in Seq(TextChar) : Holds(Ended(s), u, s.b, <<>>, z)
<1>1. PICK x \in Seq(TextChar) : x = Ahead(s)
  BY AheadIn
<1>2. u = v \o y /\ s.b = v \o r /\ Crlf(y) = r \o x
  BY <1>1 DEF Holds
<1>8. PICK z \in Seq(TextChar) : LeavesText(y, r, z, x)
  BY <1>1, <1>2, PlainPrefix
<1>3. z \in Seq(TextChar) /\ y = r \o z /\ Crlf(z) = x
  BY <1>8 DEF LeavesText
<1>4. Assoc(v, r, z)
  BY <1>3, Assocs
<1>5. u = s.b \o z
  BY <1>2, <1>3, <1>4 DEF Assoc
<1>6. /\ Fits(Ended(s), size) /\ Ahead(Ended(s)) = Ahead(s)
      /\ Ended(s).b = s.b /\ Ended(s).at = Len(s.b)
  BY EndedIs
<1>7. Reading(Ended(s), u, size) /\ Holds(Ended(s), u, Ended(s).b, <<>>, z)
  BY <1>1, <1>3, <1>5, <1>6, AllRead
<1> QED
  BY <1>3, <1>6, <1>7

LEMMA CrFound ==
    ASSUME bytes \in Seq(TextChar), NEW s, NEW size, Fits(s, size), NEW u \in Seq(TextChar),
           NEW v \in Seq(TextChar), NEW r \in Seq(TextChar), NEW y \in Seq(TextChar),
           Holds(s, u, v, r, y),
           NEW p \in Seq(TextChar), NEW q \in Seq(TextChar), Parts(r, p, CR, q), Without(CR, p)
    PROVE  \E w, t \in Seq(TextChar) : AtCr(s, u, w, q, t) /\ Len(w) = Len(v) + Len(p)
<1>0. <<CR>> \in Seq(TextChar)
  BY TextChars
<1>1. PICK x \in Seq(TextChar) : x = Ahead(s)
  BY AheadIn
<1>2. u = v \o y /\ s.b = v \o r /\ Crlf(y) = r \o x /\ r = p \o (<<CR>> \o q)
  BY <1>1 DEF Holds, Parts
<1>3. PICK e \in Seq(TextChar) : e = <<CR>> \o q
  BY <1>0, Joined
<1>4. PICK d \in Seq(TextChar) : d = e \o x
  BY <1>1, <1>3, Joined
<1>5. Crlf(y) = p \o d
  <2>1. Assoc(p, e, x)
    BY <1>1, <1>3, Assocs
  <2> QED
    BY <1>2, <1>3, <1>4, <2>1 DEF Assoc
<1>13. PICK t \in Seq(TextChar) : LeavesText(y, p, t, d)
  BY <1>4, <1>5, PlainPrefix
<1>6. t \in Seq(TextChar) /\ y = p \o t /\ Crlf(t) = d
  BY <1>13 DEF LeavesText
<1>7. PICK w \in Seq(TextChar) : w = v \o p
  BY Joined
<1>8. Len(w) = Len(v) + Len(p)
  <2>1. Len(v \o p) = Len(v) + Len(p)
    BY Joined
  <2> QED
    BY <1>7, <2>1
<1>9. u = w \o t
  <2>1. Assoc(v, p, t)
    BY <1>6, Assocs
  <2> QED
    BY <1>2, <1>6, <1>7, <2>1 DEF Assoc
<1>10. s.b = (w \o <<CR>>) \o q
  <2>1. Assoc(v, p, e) /\ Assoc(w, <<CR>>, q)
    BY <1>0, <1>3, <1>7, Assocs
  <2> QED
    BY <1>2, <1>3, <1>7, <2>1 DEF Assoc
<1>11. Crlf(t) = <<CR>> \o (q \o x)
  <2>1. Assoc(<<CR>>, q, x)
    BY <1>0, <1>1, Assocs
  <2> QED
    BY <1>3, <1>4, <1>6, <2>1 DEF Assoc
<1>12. AtCr(s, u, w, q, t)
  BY <1>1, <1>9, <1>10, <1>11 DEF AtCr
<1> QED
  BY <1>6, <1>7, <1>8, <1>12

(* The "\r" is the last of what is read, and no '\n' comes next.           *)
LEMMA LoneCr ==
    ASSUME bytes \in Seq(TextChar), NEW s, NEW size, Fits(s, size), NEW u \in Seq(TextChar),
           NEW w \in Seq(TextChar), NEW t \in Seq(TextChar), AtCr(s, u, w, <<>>, t),
           \A z \in Seq(TextChar) : ~Starts(Ahead(s), NL, z)
    PROVE  Reading(Ended(s), u, size)
<1>0. <<CR>> \in Seq(TextChar)
  BY TextChars
<1>1. PICK x \in Seq(TextChar) : x = Ahead(s)
  BY AheadIn
<1>2. PICK g \in Seq(TextChar) : g = w \o <<CR>>
  BY <1>0, Joined
<1>3. s.b = g /\ Crlf(t) = <<CR>> \o x /\ u = w \o t
  BY <1>1, <1>2, Empties0 DEF AtCr
<1>4. \E d \in Seq(TextChar) :
         \/ Starts(t, NL, d) /\ Starts(x, NL, Crlf(d))
         \/ /\ Starts(t, CR, d) /\ x = Crlf(d)
            /\ \A z \in Seq(TextChar) : ~Starts(x, NL, z)
  BY <1>1, <1>3, AfterCr
<1>5. PICK d \in Seq(TextChar) : Starts(t, CR, d) /\ x = Crlf(d)
  <2>1. \A d \in Seq(TextChar) : ~Starts(x, NL, Crlf(d))
    BY <1>1, CrlfIn
  <2> QED
    BY <1>4, <2>1
<1>6. u = g \o d
  <2>1. (w \o <<CR>>) \o d = w \o (<<CR>> \o d)
    <3>1. Assoc(w, <<CR>>, d)
      BY <1>0, <1>5, Assocs
    <3> QED
      BY <3>1 DEF Assoc
  <2> QED
    BY <1>2, <1>3, <1>5, <2>1 DEF Starts
<1>7. /\ Fits(Ended(s), size) /\ Ahead(Ended(s)) = Ahead(s)
      /\ Ended(s).b = s.b /\ Ended(s).at = Len(s.b)
  BY EndedIs
<1> QED
  BY <1>1, <1>3, <1>5, <1>6, <1>7, AllRead

LEMMA StartsOnce ==
    \A y, a, b \in Seq(TextChar), c, d \in TextChar :
        Starts(y, c, a) /\ Starts(y, d, b) => c = d /\ a = b
<1> SUFFICES ASSUME NEW y \in Seq(TextChar), NEW a \in Seq(TextChar), NEW b \in Seq(TextChar),
                    NEW c \in TextChar, NEW d \in TextChar, Starts(y, c, a), Starts(y, d, b)
             PROVE  c = d /\ a = b
  OBVIOUS
<1>1. <<c>> \o a = <<d>> \o b
  BY DEF Starts
<1> QED
  BY <1>1, CancelFirst

LEMMA SubJoin ==
    ASSUME NEW S, NEW a \in Seq(S), NEW b \in Seq(S)
    PROVE  SubSeq(a \o b, 1, Len(a)) = a
<1>1. PICK s \in Seq(S) : s = a \o b
  BY Joined
<1>2. Len(s) = Len(a) + Len(b) /\ Len(a) \in Nat /\ Len(b) \in Nat
  BY <1>1, Joined
<1>3. Firsts(s, Len(a)) = a
  BY <1>1, CutJoin
<1>4. (IF Len(a) < Len(s) THEN Len(a) ELSE Len(s)) = Len(a)
  BY <1>2
<1> QED
  BY <1>1, <1>3, <1>4 DEF Firsts

(* What comes after the "\r" in place i.                                   *)
CrAt(b, w, q) == b = (w \o <<CR>>) \o q

LEMMA CrPlace ==
    ASSUME NEW b \in Seq(TextChar), NEW w \in Seq(TextChar), NEW q \in Seq(TextChar),
           CrAt(b, w, q)
    PROVE  /\ Len(b) = Len(w) + 1 + Len(q) /\ Len(w) \in Nat /\ Len(q) \in Nat
           /\ Len(w \o <<CR>>) = Len(w) + 1
           /\ SubSeq(b, 1, Len(w)) = w /\ From(b, Len(w) + 1) = q
           /\ \A d \in TextChar, q1 \in Seq(TextChar) : Starts(q, d, q1) => b[Len(w) + 1 + 1] = d
<1>0. <<CR>> \in Seq(TextChar) /\ Len(<<CR>>) = 1 /\ CR \in TextChar
  BY TextChars
<1> USE DEF CrAt
<1>1. PICK g \in Seq(TextChar) : g = w \o <<CR>>
  BY <1>0, Joined
<1>2. Len(g) = Len(w) + 1 /\ Len(w) \in Nat
  <2>1. Len(w \o <<CR>>) = Len(w) + Len(<<CR>>)
    BY <1>0, Joined
  <2> QED
    BY <1>0, <1>1, <2>1
<1>3. Len(b) = Len(g) + Len(q) /\ Len(q) \in Nat
  <2>1. Len(g \o q) = Len(g) + Len(q)
    BY <1>1, Joined
  <2> QED
    BY <1>1, <2>1
<1>4. From(b, Len(g)) = q
  <2>1. From(g \o q, Len(g)) = q
    BY <1>1, CutJoin
  <2> QED
    BY <1>1, <2>1
<1>5. SubSeq(b, 1, Len(w)) = w
  <2>1. PICK e \in Seq(TextChar) : e = <<CR>> \o q
    BY <1>0, Joined
  <2>2. Assoc(w, <<CR>>, q)
    BY <1>0, Assocs
  <2>3. b = w \o e
    BY <2>1, <2>2 DEF Assoc
  <2>4. SubSeq(w \o e, 1, Len(w)) = w
    BY <2>1, SubJoin
  <2> QED
    BY <2>3, <2>4
<1>6. ASSUME NEW d \in TextChar, NEW q1 \in Seq(TextChar), Starts(q, d, q1)
      PROVE  b[Len(w) + 1 + 1] = d
  <2>1. q = <<d>> \o q1 /\ <<d>> \in Seq(TextChar) /\ Len(<<d>>) = 1 /\ <<d>>[1] = d
    BY <1>6 DEF Starts
  <2>2. Len(<<d>> \o q1) = 1 + Len(q1) /\ (<<d>> \o q1)[1] = d /\ Len(q1) \in Nat
    BY <2>1, Joined
  <2>3. Len(q) >= 1 /\ q[1] = d
    BY <2>1, <2>2
  <2>4. \A i \in 1 .. Len(q) : (g \o q)[Len(g) + i] = q[i]
    BY <1>1, Joined
  <2>5. (g \o q)[Len(g) + 1] = q[1]
    BY <1>3, <2>3, <2>4
  <2> QED
    BY <1>1, <1>2, <2>3, <2>5
<1> QED
  BY <1>1, <1>2, <1>3, <1>4, <1>5, <1>6

LEMMA Stepped ==
    ASSUME NEW s \in States, NEW c \in Seq(TextChar), NEW i \in Nat
    PROVE  [s EXCEPT !.b = c, !.at = i, !.tail = @ + 1] \in States
<1>1. s.tail \in Nat
  BY DEF States
<1>2. PICK n \in Nat : n = s.tail + 1
  BY <1>1
<1>3. [s EXCEPT !.b = c, !.at = i, !.tail = n] \in States
  BY <1>2 DEF States
<1> QED
  BY <1>2, <1>3

LEMMA PassedTurn ==
    ASSUME bytes \in Seq(TextChar), NEW s, NEW size \in Nat, Fits(s, size), NEW u \in Seq(TextChar),
           NEW w \in Seq(TextChar), NEW q \in Seq(TextChar), NEW t \in Seq(TextChar),
           AtCr(s, u, w, q, t), q # <<>>
    PROVE  /\ Reading(Passed(s, Len(w) + 1), u, size)
           /\ Passed(s, Len(w) + 1).at = Len(w) + 1
<1>0. <<CR>> \in Seq(TextChar) /\ <<NL>> \in Seq(TextChar) /\ NL \in TextChar /\ CR \in TextChar
  BY TextChars
<1>1. PICK x \in Seq(TextChar) : x = Ahead(s)
  BY AheadIn
<1>2. /\ s.b \in Seq(TextChar) /\ s \in States /\ s.tail \in Nat /\ Len(s.b) + s.tail <= size
      /\ s.eof => Ahead(s) = <<>>
  BY AheadIn DEF Fits
<1>3. s.b = (w \o <<CR>>) \o q /\ u = w \o t /\ Crlf(t) = <<CR>> \o (q \o x)
  BY <1>1 DEF AtCr
<1>4. PICK d \in TextChar, q1 \in Seq(TextChar) : Starts(q, d, q1)
  BY FirstOf
<1>5. PICK i \in Nat : i = Len(w) + 1
  OBVIOUS
<1>6. /\ Len(s.b) = i + Len(q) /\ Len(q) \in Nat /\ Len(w \o <<CR>>) = i
      /\ SubSeq(s.b, 1, i - 1) = w /\ From(s.b, i) = q /\ s.b[i + 1] = d
  <2>1. /\ Len(s.b) = Len(w) + 1 + Len(q) /\ Len(w) \in Nat /\ Len(q) \in Nat
        /\ Len(w \o <<CR>>) = Len(w) + 1
        /\ SubSeq(s.b, 1, Len(w)) = w /\ From(s.b, Len(w) + 1) = q
        /\ s.b[Len(w) + 1 + 1] = d
    <3>0. CrAt(s.b, w, q)
      BY <1>3 DEF CrAt
    <3>1. /\ Len(s.b) = Len(w) + 1 + Len(q) /\ Len(w) \in Nat /\ Len(q) \in Nat
          /\ Len(w \o <<CR>>) = Len(w) + 1
          /\ SubSeq(s.b, 1, Len(w)) = w /\ From(s.b, Len(w) + 1) = q
      BY <1>2, <3>0, CrPlace
    <3>2. \A c \in TextChar, z \in Seq(TextChar) : Starts(q, c, z) => s.b[Len(w) + 1 + 1] = c
      BY <1>2, <3>0, CrPlace
    <3> QED
      BY <1>4, <3>1, <3>2
  <2>2. i - 1 = Len(w)
    BY <1>5, <2>1
  <2> QED
    BY <1>5, <2>1, <2>2
<1>7. PICK e \in Seq(TextChar) : e = q1 \o x
  BY <1>1, <1>4, Joined
<1>8. PICK y \in Seq(TextChar) : y = q \o x
  BY <1>1, Joined
<1>9. Starts(y, d, e)
  <2>1. <<d>> \in Seq(TextChar)
    OBVIOUS
  <2>2. Assoc(<<d>>, q1, x)
    BY <1>1, <1>4, <2>1, Assocs
  <2> QED
    BY <1>4, <1>7, <1>8, <2>2 DEF Assoc, Starts
<1>10. Crlf(t) = <<CR>> \o y
  BY <1>3, <1>8
<1>11. PICK t2 \in Seq(TextChar) :
          \/ Starts(t, NL, t2) /\ Starts(y, NL, Crlf(t2))
          \/ /\ Starts(t, CR, t2) /\ y = Crlf(t2)
             /\ \A z \in Seq(TextChar) : ~Starts(y, NL, z)
  BY <1>8, <1>10, AfterCr
<1>12. CASE d = NL
  <2>1. Starts(t, NL, t2) /\ Starts(y, NL, Crlf(t2))
    BY <1>7, <1>9, <1>11, <1>12
  <2>2. Crlf(t2) = e
    <3>1. Crlf(t2) \in Seq(TextChar)
      BY <1>11, CrlfIn
    <3> QED
      BY <1>0, <1>7, <1>8, <1>9, <1>12, <2>1, <3>1, StartsOnce
  <2>3. PICK v \in Seq(TextChar) : v = w \o <<NL>>
    BY <1>0, Joined
  <2>4. PICK z \in States : z = Passed(s, i)
    <3>1. w \o q \in Seq(TextChar)
      BY Joined
    <3>2. Passed(s, i) = [s EXCEPT !.b = w \o q, !.at = i, !.tail = @ + 1]
      BY <1>6, <1>12 DEF Passed
    <3>3. PICK e1 \in Seq(TextChar) : e1 = w \o q
      BY <3>1
    <3>4. Passed(s, i) = [s EXCEPT !.b = e1, !.at = i, !.tail = @ + 1]
      BY <3>2, <3>3
    <3>5. s \in States /\ e1 \in Seq(TextChar) /\ i \in Nat
      BY <1>2, <1>5, <3>3
    <3>6. [s EXCEPT !.b = e1, !.at = i, !.tail = @ + 1] \in States
      BY <3>5, Stepped
    <3> QED
      BY <3>4, <3>6
  <2>5. z.b = w \o q /\ z.at = i /\ z.tail = s.tail + 1 /\ z.pos = s.pos /\ z.eof = s.eof
    BY <1>2, <1>6, <1>12, <2>4 DEF Passed, States
  <2>6. Len(v) = i
    <3>1. Len(w \o <<NL>>) = Len(w) + Len(<<NL>>) /\ Len(<<NL>>) = 1
      BY <1>0, Joined
    <3> QED
      BY <1>5, <2>3, <3>1
  <2>7. Fits(z, size)
    <3>1. Len(w \o q) = Len(w) + Len(q)
      BY Joined
    <3>2. Len(z.b) + 1 = Len(s.b) /\ Len(z.b) \in Nat
      BY <1>5, <1>6, <2>5, <3>1
    <3>3. Len(z.b) + z.tail <= size
      BY <1>2, <2>5, <3>2
    <3>4. Ahead(z) = Ahead(s)
      BY <2>5 DEF Ahead
    <3> QED
      BY <1>2, <2>4, <2>5, <3>3, <3>4 DEF Fits
  <2>8. u = v \o t2
    <3>1. Assoc(w, <<NL>>, t2)
      BY <1>0, <1>11, Assocs
    <3> QED
      BY <1>3, <2>1, <2>3, <3>1 DEF Assoc, Starts
  <2>9. z.b = v \o q1
    <3>1. Assoc(w, <<NL>>, q1)
      BY <1>0, <1>4, Assocs
    <3> QED
      BY <1>4, <1>12, <2>3, <2>5, <3>1 DEF Assoc, Starts
  <2>10. Crlf(t2) = q1 \o Ahead(z)
    BY <1>1, <1>7, <2>2, <2>5 DEF Ahead
  <2>11. Holds(z, u, v, q1, t2)
    BY <2>5, <2>6, <2>8, <2>9, <2>10 DEF Holds
  <2> QED
    BY <1>4, <1>5, <1>11, <2>3, <2>4, <2>5, <2>7, <2>11 DEF Reading
<1>13. CASE d # NL
  <2>1. Starts(t, CR, t2) /\ y = Crlf(t2)
    <3>1. ~Starts(y, NL, Crlf(t2))
      <4> SUFFICES ASSUME Starts(y, NL, Crlf(t2)) PROVE FALSE
        OBVIOUS
      <4>1. Crlf(t2) \in Seq(TextChar)
        BY <1>11, CrlfIn
      <4>3. d = NL
        BY <1>0, <1>4, <1>7, <1>8, <1>9, <4>1, StartsOnce
      <4> QED
        BY <1>13, <4>3
    <3> QED
      BY <1>11, <3>1
  <2>2. PICK v \in Seq(TextChar) : v = w \o <<CR>>
    BY <1>0, Joined
  <2>3. PICK z \in States : z = Passed(s, i)
    BY <1>2, <1>5, <1>6, <1>13 DEF Passed, States
  <2>4. z.b = s.b /\ z.at = i /\ z.tail = s.tail /\ z.pos = s.pos /\ z.eof = s.eof
    BY <1>2, <1>6, <1>13, <2>3 DEF Passed, States
  <2>5. Ahead(z) = Ahead(s)
    BY <2>4 DEF Ahead
  <2>6. Fits(z, size)
    BY <1>2, <2>3, <2>4, <2>5 DEF Fits
  <2>7. u = v \o t2
    <3>1. Assoc(w, <<CR>>, t2)
      BY <1>0, <1>11, Assocs
    <3> QED
      BY <1>3, <2>1, <2>2, <3>1 DEF Assoc, Starts
  <2>8. Holds(z, u, v, q, t2)
    BY <1>1, <1>3, <1>6, <1>8, <2>1, <2>2, <2>4, <2>5, <2>7 DEF Holds
  <2> QED
    BY <1>5, <1>11, <2>2, <2>3, <2>4, <2>6, <2>8 DEF Reading
<1> QED
  BY <1>12, <1>13

LEMMA LookedSeq ==
    ASSUME NEW w \in Seq(TextChar), NEW g \in Seq(TextChar), g = w \o <<CR>>
    PROVE  [g EXCEPT ![Len(g)] = NL] = w \o <<NL>>
<1>0. CR \in TextChar /\ NL \in TextChar /\ Len(w) \in Nat
  BY TextChars
<1>1. PICK k \in Seq(TextChar) : k = w \o <<NL>>
  BY <1>0, Singles, Joined
<1>2. PICK n \in Nat : n = Len(w) + 1
  BY <1>0
<1>3. Len(g) = n /\ \A i \in 1 .. Len(w) : g[i] = w[i]
  BY <1>0, <1>2
<1>4. Len(k) = n /\ k[n] = NL /\ \A i \in 1 .. Len(w) : k[i] = w[i]
  BY <1>0, <1>1, <1>2
<1>5. [g EXCEPT ![Len(g)] = NL] = [i \in 1 .. n |-> IF i = n THEN NL ELSE g[i]]
  <2>1. DOMAIN g = 1 .. n
    BY <1>3, SeqIs
  <2> QED
    BY <1>3, <2>1
<1>6. k = [i \in 1 .. n |-> k[i]]
  BY <1>1, <1>4, SeqIs
<1>7. \A i \in 1 .. n : k[i] = IF i = n THEN NL ELSE g[i]
  <2> SUFFICES ASSUME NEW i \in 1 .. n PROVE k[i] = IF i = n THEN NL ELSE g[i]
    OBVIOUS
  <2>1. CASE i = n
    BY <1>4, <2>1
  <2>2. CASE i # n
    <3>1. i \in 1 .. Len(w)
      BY <1>0, <1>2, <2>2
    <3> QED
      BY <1>3, <1>4, <2>2, <3>1
  <2> QED
    BY <2>1, <2>2
<1>8. [i \in 1 .. n |-> IF i = n THEN NL ELSE g[i]] = [i \in 1 .. n |-> k[i]]
  BY <1>7
<1> QED
  BY <1>1, <1>5, <1>6, <1>8, Zenon

LEMMA TakenOne ==
    ASSUME bytes \in Seq(TextChar), NEW s, NEW size, Fits(s, size)
    PROVE  Taken(s, 1) = <<NL>> <=> \E z \in Seq(TextChar) : Starts(Ahead(s), NL, z)
<1>0. NL \in TextChar /\ <<NL>> \in Seq(TextChar) /\ Len(<<NL>>) = 1
  BY TextChars
<1>1. PICK x \in Seq(TextChar) : x = Ahead(s)
  BY AheadIn
<1>2. Taken(s, 1) = Firsts(x, 1)
  BY <1>1 DEF Taken, Ahead
<1>3. ASSUME Firsts(x, 1) = <<NL>>
      PROVE  \E z \in Seq(TextChar) : Starts(x, NL, z)
  <2>0. 1 \in Nat
    OBVIOUS
  <2>1. x = Firsts(x, 1) \o From(x, 1) /\ From(x, 1) \in Seq(TextChar)
    BY <1>1, <2>0, Cut
  <2>2. Starts(x, NL, From(x, 1))
    BY <1>3, <2>1 DEF Starts
  <2> QED
    BY <2>1, <2>2
<1>4. ASSUME NEW z \in Seq(TextChar), Starts(x, NL, z)
      PROVE  Firsts(x, 1) = <<NL>>
  <2>1. x = <<NL>> \o z
    BY <1>4 DEF Starts
  <2>2. Firsts(<<NL>> \o z, Len(<<NL>>)) = <<NL>>
    BY <1>0, CutJoin
  <2> QED
    BY <1>0, <2>1, <2>2
<1> QED
  BY <1>1, <1>2, <1>3, <1>4

LEMMA LookedTurn ==
    ASSUME bytes \in Seq(TextChar), NEW s, NEW size, Fits(s, size), NEW u \in Seq(TextChar),
           NEW w \in Seq(TextChar), NEW t \in Seq(TextChar), AtCr(s, u, w, <<>>, t),
           NEW z \in Seq(TextChar), Starts(Ahead(s), NL, z)
    PROVE  /\ Reading(Ended(LookedAhead(s)), u, size)
           /\ Ended(LookedAhead(s)).at = Len(Ended(LookedAhead(s)).b)
<1>0. CR \in TextChar /\ NL \in TextChar /\ <<CR>> \in Seq(TextChar) /\ <<NL>> \in Seq(TextChar)
  BY TextChars
<1>1. PICK x \in Seq(TextChar) : x = Ahead(s)
  BY AheadIn
<1>2. PICK g \in Seq(TextChar) : g = w \o <<CR>>
  BY <1>0, Joined
<1>3. s.b = g /\ Crlf(t) = <<CR>> \o x /\ u = w \o t
  BY <1>1, <1>2, Empties0 DEF AtCr
<1>4. PICK d \in Seq(TextChar) :
         \/ Starts(t, NL, d) /\ Starts(x, NL, Crlf(d))
         \/ /\ Starts(t, CR, d) /\ x = Crlf(d)
            /\ \A e \in Seq(TextChar) : ~Starts(x, NL, e)
  BY <1>1, <1>3, AfterCr
<1>5. Starts(t, NL, d) /\ Starts(x, NL, Crlf(d)) /\ Starts(x, NL, z)
  BY <1>1, <1>4
<1>6. Crlf(d) = z
  <2>1. Crlf(d) \in Seq(TextChar)
    BY <1>4, CrlfIn
  <2> QED
    BY <1>0, <1>1, <1>5, <2>1, StartsOnce
<1>7. PICK h \in Seq(TextChar) : h = w \o <<NL>>
  BY <1>0, Joined
<1>8. Len(h) = Len(g)
  <2>1. Len(w \o <<NL>>) = Len(w) + Len(<<NL>>)
    BY <1>0, Joined
  <2>2. Len(w \o <<CR>>) = Len(w) + Len(<<CR>>)
    BY <1>0, Joined
  <2>3. Len(<<CR>>) = 1 /\ Len(<<NL>>) = 1
    OBVIOUS
  <2> QED
    BY <1>2, <1>7, <2>1, <2>2, <2>3
<1>9. /\ s \in States /\ s.pos \in 0 .. Len(bytes) /\ s.tail \in Nat /\ Len(s.b) + s.tail <= size
      /\ s.at \in Nat /\ s.eof \in BOOLEAN
  BY AheadIn DEF States
<1>10. FromIs(bytes, s.pos + 1, z)
  <2>1. From(bytes, s.pos) = <<NL>> \o z
    BY <1>1, <1>5 DEF Starts, Ahead
  <2>2. FromIs(bytes, s.pos + Len(<<NL>>), z)
    BY <1>0, <1>9, <2>1, FromNext
  <2>3. Len(<<NL>>) = 1
    OBVIOUS
  <2> QED
    BY <2>2, <2>3
<1>11. s.pos + 1 \in 0 .. Len(bytes) /\ From(bytes, s.pos + 1) = z
  BY <1>10 DEF FromIs
<1>12. ~s.eof
  <2>1. x # <<>>
    BY <1>1, <1>5, Empties0 DEF Starts
  <2> QED
    BY <1>1, <2>1 DEF Fits
<1>13. PICK e \in States :
          /\ e = Ended(LookedAhead(s))
          /\ e.b = h /\ e.at = Len(h) /\ e.tail = s.tail /\ e.pos = s.pos + 1 /\ e.eof = s.eof
  <2>1. Taken(s, 1) = <<NL>>
    BY TakenOne
  <2>2. LookedAhead(s) = [s EXCEPT !.b[Len(s.b)] = NL, !.pos = @ + 1]
    BY <2>1 DEF LookedAhead
  <2>3. [g EXCEPT ![Len(g)] = NL] = h
    BY <1>2, <1>7, LookedSeq
  <2>4. [s EXCEPT !.b[Len(s.b)] = NL, !.pos = @ + 1]
          = [s EXCEPT !.b = [s.b EXCEPT ![Len(s.b)] = NL], !.pos = @ + 1]
    OBVIOUS
  <2>5. PICK n \in 0 .. Len(bytes) : n = s.pos + 1
    BY <1>11
  <2>6. LookedAhead(s) = [s EXCEPT !.b = h, !.pos = n]
    BY <1>3, <2>2, <2>3, <2>4, <2>5
  <2>7. [s EXCEPT !.b = h, !.pos = n] \in States
    BY <1>9, <1>7, <2>5 DEF States
  <2>8. PICK l \in States : /\ l = LookedAhead(s)
                            /\ l.b = h /\ l.pos = n /\ l.tail = s.tail /\ l.eof = s.eof
    BY <1>9, <1>7, <2>5, <2>6, <2>7 DEF States
  <2>9. Len(h) \in Nat
    BY <1>7
  <2>10. PICK m \in States : m = [l EXCEPT !.at = Len(l.b)]
    BY <2>8, <2>9 DEF States
  <2>11. m = Ended(LookedAhead(s))
    BY <2>8, <2>10 DEF Ended
  <2>12. m.b = l.b /\ m.at = Len(l.b) /\ m.tail = l.tail /\ m.pos = l.pos /\ m.eof = l.eof
    BY <2>8, <2>10 DEF States
  <2> QED
    BY <2>5, <2>8, <2>11, <2>12
<1>14. Ahead(e) = z
  BY <1>11, <1>13 DEF Ahead
<1>15. Fits(e, size)
  <2>1. Len(e.b) + e.tail <= size
    BY <1>3, <1>8, <1>9, <1>13
  <2> QED
    BY <1>12, <1>13, <2>1 DEF Fits
<1>16. u = h \o d
  <2>1. Assoc(w, <<NL>>, d)
    BY <1>0, <1>4, Assocs
  <2> QED
    BY <1>3, <1>5, <1>7, <2>1 DEF Assoc, Starts
<1>17. Reading(e, u, size)
  BY <1>4, <1>6, <1>13, <1>14, <1>15, <1>16, AllRead
<1> QED
  BY <1>13, <1>17

TurnedOn(s, e, u, size) ==
    Reading(e, u, size) /\ (e.at = Len(e.b) \/ e.at > s.at)

LEMMA PlainScan ==
    ASSUME bytes \in Seq(TextChar), NEW s, NEW size \in Nat, Fits(s, size), NEW u \in Seq(TextChar),
           NEW v \in Seq(TextChar), NEW r \in Seq(TextChar), NEW y \in Seq(TextChar),
           Holds(s, u, v, r, y), Without(CR, r), s.at < Len(s.b)
    PROVE  /\ TurnedOn(s, Ended(s), u, size)
           /\ TurnedOn(s, [Refilled(s) EXCEPT !.at = Len(s.b)], u, size)
<1>1. /\ Fits(Ended(s), size) /\ Ahead(Ended(s)) = Ahead(s)
      /\ Ended(s).b = s.b /\ Ended(s).at = Len(s.b)
  BY EndedIs
<1>2. Reading(Ended(s), u, size)
  BY PlainTurn
<1>3. PICK z \in Seq(TextChar) : Holds(Ended(s), u, s.b, <<>>, z)
  BY PlainTurn
<1>4. PICK e : e = Ended(s)
  OBVIOUS
<1>5. s \in States /\ s.b \in Seq(TextChar) /\ <<>> \in Seq(TextChar) /\ s.at \in Nat /\ Len(s.b) \in Nat
  BY AheadIn
<1>6. PICK more \in Seq(TextChar) :
         /\ more = Taken(e, e.tail) /\ Refilled(e).b = e.b \o more
         /\ Fits(Refilled(e), size) /\ Holds(Refilled(e), u, s.b, <<>> \o more, z)
  BY <1>1, <1>3, <1>4, <1>5, RefillsOn
<1>7. Refilled(e) = [Refilled(s) EXCEPT !.at = Len(s.b)]
  <2>1. e \in States /\ e.b = s.b /\ e.at = Len(s.b) /\ e.tail = s.tail /\ e.pos = s.pos /\ e.eof = s.eof
    BY <1>4, <1>5 DEF Ended, States
  <2>2. Taken(e, e.tail) = more /\ Taken(s, s.tail) = more
    BY <1>6, <2>1 DEF Taken
  <2>3. PICK c \in Seq(TextChar) : c = s.b \o more
    BY <1>5, <1>6, Joined
  <2>4. PICK n : n = s.pos + Len(more)
    OBVIOUS
  <2>5. PICK f : f = (Len(more) # s.tail)
    OBVIOUS
  <2>6. /\ Refilled(e) = [e EXCEPT !.b = c, !.tail = 0, !.pos = n, !.eof = f]
        /\ Refilled(s) = [s EXCEPT !.b = c, !.tail = 0, !.pos = n, !.eof = f]
    BY <2>1, <2>2, <2>3, <2>4, <2>5 DEF Refilled
  <2> QED
    BY <1>5, <2>1, <2>6 DEF States
<1>8. Reading(Refilled(e), u, size)
  <2>1. <<>> \o more \in Seq(TextChar)
    BY <1>5, <1>6, Joined
  <2> QED
    BY <1>3, <1>5, <1>6, <2>1 DEF Reading
<1>9. Refilled(e).at = Len(s.b)
  BY <1>6 DEF Holds
<1> QED
  BY <1>1, <1>2, <1>5, <1>7, <1>8, <1>9 DEF TurnedOn

LEMMA CrScan ==
    ASSUME bytes \in Seq(TextChar), NEW s, NEW size \in Nat, Fits(s, size), NEW u \in Seq(TextChar),
           NEW v \in Seq(TextChar), NEW r \in Seq(TextChar), NEW y \in Seq(TextChar),
           Holds(s, u, v, r, y),
           NEW w \in Seq(TextChar), NEW q \in Seq(TextChar), NEW t \in Seq(TextChar),
           AtCr(s, u, w, q, t), Len(v) <= Len(w)
    PROVE  /\ Len(w) + 1 < Len(s.b) => TurnedOn(s, Passed(s, Len(w) + 1), u, size)
           /\ Len(w) + 1 >= Len(s.b) =>
                /\ s.eof => TurnedOn(s, Ended(s), u, size)
                /\ TurnedOn(s, Ended(LookedAhead(s)), u, size)
                /\ s.tail # 0 /\ Taken(s, s.tail) = <<>> => TurnedOn(s, Ended(s), u, size)
                /\ s.tail # 0 /\ Taken(s, s.tail) # <<>> =>
                      TurnedOn(s, Passed(Refilled(s), Len(w) + 1), u, size)
<1>0. /\ s.b \in Seq(TextChar) /\ s \in States /\ s.tail \in Nat /\ Ahead(s) \in Seq(TextChar)
      /\ s.at = Len(v) /\ Len(v) \in Nat /\ Len(w) \in Nat /\ Len(w) + 1 > Len(v)
  BY AheadIn DEF Holds
<1>1. Len(s.b) = Len(w) + 1 + Len(q) /\ Len(q) \in Nat
  <2>1. CrAt(s.b, w, q)
    BY DEF AtCr, CrAt
  <2> QED
    BY <1>0, <2>1, CrPlace
<1>2. ASSUME Len(w) + 1 < Len(s.b)
      PROVE  TurnedOn(s, Passed(s, Len(w) + 1), u, size)
  <2>1. q # <<>>
    BY <1>0, <1>1, <1>2
  <2>2. Reading(Passed(s, Len(w) + 1), u, size) /\ Passed(s, Len(w) + 1).at = Len(w) + 1
    BY <2>1, PassedTurn
  <2> QED
    BY <1>0, <2>2 DEF TurnedOn
<1>3. ASSUME Len(w) + 1 >= Len(s.b)
      PROVE  /\ s.eof => TurnedOn(s, Ended(s), u, size)
             /\ TurnedOn(s, Ended(LookedAhead(s)), u, size)
             /\ s.tail # 0 /\ Taken(s, s.tail) = <<>> => TurnedOn(s, Ended(s), u, size)
             /\ s.tail # 0 /\ Taken(s, s.tail) # <<>> =>
                      TurnedOn(s, Passed(Refilled(s), Len(w) + 1), u, size)
  <2>0. q = <<>>
    <3>1. Len(q) = 0
      BY <1>0, <1>1, <1>3
    <3> QED
      BY <3>1
  <2>1. AtCr(s, u, w, <<>>, t)
    BY <2>0
  <2>2. ASSUME \A z \in Seq(TextChar) : ~Starts(Ahead(s), NL, z)
        PROVE  TurnedOn(s, Ended(s), u, size)
    <3>1. Reading(Ended(s), u, size)
      BY <2>1, <2>2, LoneCr
    <3>2. Ended(s).at = Len(s.b) /\ Ended(s).b = s.b
      BY EndedIs
    <3> QED
      BY <3>1, <3>2 DEF TurnedOn
  <2>3. ASSUME Ahead(s) = <<>>
        PROVE  TurnedOn(s, Ended(s), u, size)
    <3>1. \A z \in Seq(TextChar) : ~Starts(<<>>, NL, z)
      BY Empties0 DEF Starts
    <3> QED
      BY <2>2, <2>3, <3>1
  <2>4. s.eof => TurnedOn(s, Ended(s), u, size)
    BY <2>3 DEF Fits
  <2>5. TurnedOn(s, Ended(LookedAhead(s)), u, size)
    <3>1. CASE \A z \in Seq(TextChar) : ~Starts(Ahead(s), NL, z)
      <4>1. LookedAhead(s) = s
        BY <3>1, TakenOne DEF LookedAhead
      <4> QED
        BY <2>2, <3>1, <4>1
    <3>2. ASSUME NEW z \in Seq(TextChar), Starts(Ahead(s), NL, z)
          PROVE  TurnedOn(s, Ended(LookedAhead(s)), u, size)
      BY <2>1, <3>2, LookedTurn DEF TurnedOn
    <3> QED
      BY <3>1, <3>2
  <2>6. ASSUME s.tail # 0, Taken(s, s.tail) = <<>>
        PROVE  TurnedOn(s, Ended(s), u, size)
    <3>1. Ahead(s) = <<>>
      <4>1. PICK x \in Seq(TextChar) : x = Ahead(s)
        BY <1>0
      <4>2. Firsts(x, s.tail) = <<>>
        BY <2>6, <4>1 DEF Taken, Ahead
      <4>3. CASE s.tail <= Len(x)
        <5>1. Len(Firsts(x, s.tail)) = s.tail
          BY <1>0, <4>1, <4>3, Cut
        <5>2. Len(<<>>) = 0
          OBVIOUS
        <5> QED
          BY <2>6, <4>2, <5>1, <5>2
      <4>4. CASE s.tail >= Len(x)
        <5>1. Firsts(x, s.tail) = x
          BY <1>0, <4>1, <4>4, Cut
        <5> QED
          BY <4>1, <4>2, <5>1
      <4>5. Len(x) \in Nat
        BY <4>1
      <4> QED
        BY <1>0, <4>3, <4>4, <4>5
    <3> QED
      BY <2>3, <3>1
  <2>7. ASSUME s.tail # 0, Taken(s, s.tail) # <<>>
        PROVE  TurnedOn(s, Passed(Refilled(s), Len(w) + 1), u, size)
    <3>1. PICK more \in Seq(TextChar) :
             /\ more = Taken(s, s.tail) /\ Refilled(s).b = s.b \o more
             /\ Fits(Refilled(s), size) /\ Holds(Refilled(s), u, v, r \o more, y)
      BY RefillsOn
    <3>2. Ahead(s) = more \o Ahead(Refilled(s))
      BY <1>0, <3>1, Refills
    <3>3. AtCr(Refilled(s), u, w, more, t)
      <4>1. <<CR>> \in Seq(TextChar) /\ w \o <<CR>> \in Seq(TextChar)
        BY TextChars, Singles, Joined
      <4>2. /\ s.b = w \o <<CR>> /\ u = w \o t /\ Crlf(t) = <<CR>> \o Ahead(s)
        BY <1>0, <2>1, <4>1, Empties0 DEF AtCr
      <4> QED
        BY <3>1, <3>2, <4>2 DEF AtCr
    <3>4. /\ Reading(Passed(Refilled(s), Len(w) + 1), u, size)
          /\ Passed(Refilled(s), Len(w) + 1).at = Len(w) + 1
      BY <2>7, <3>1, <3>3, PassedTurn
    <3> QED
      BY <1>0, <3>4 DEF TurnedOn
  <2> QED
    BY <2>4, <2>5, <2>6, <2>7
<1> QED
  BY <1>2, <1>3

Whole(s, v, r) == s = v \o r

NextCr(s, v, r) ==
    \E p, q \in Seq(TextChar) :
        /\ Parts(r, p, CR, q) /\ Without(CR, p)
        /\ First(Places(CR, s, Len(v))) = Len(v) + Len(p) + 1

LEMMA CrAfter ==
    ASSUME NEW s \in Seq(TextChar), NEW v \in Seq(TextChar), NEW r \in Seq(TextChar),
           Whole(s, v, r), Places(CR, s, Len(v)) # {}
    PROVE  NextCr(s, v, r)
<1>1. s = v \o r /\ CR \in TextChar
  BY TextChars DEF Whole
<1> QED
  BY <1>1, FirstPlace DEF NextCr

LEMMA ScanTurn ==
    ASSUME bytes \in Seq(TextChar), NEW s, NEW size \in Nat, NEW u \in Seq(TextChar),
           Reading(s, u, size)
    PROVE  /\ s.at = Len(s.b) => Scan(s) = s
           /\ s.at # Len(s.b) => TurnedOn(s, Scan(s), u, size)
<1>1. s.at = Len(s.b) => Scan(s) = s
  BY DEF Scan
<1>2. ASSUME s.at # Len(s.b)
      PROVE  TurnedOn(s, Scan(s), u, size)
  <2>0. Fits(s, size)
    BY DEF Reading
  <2>1. PICK v, r, y \in Seq(TextChar) : Holds(s, u, v, r, y)
    BY DEF Reading
  <2>2. s.b = v \o r /\ s.at = Len(v) /\ s.b \in Seq(TextChar) /\ s.tail \in Nat
    BY <2>0, <2>1, AheadIn DEF Holds
  <2>3. Len(v) \in Nat /\ Len(r) \in Nat /\ Len(s.b) = Len(v) + Len(r)
    <3>1. Len(v \o r) = Len(v) + Len(r)
      BY <2>1, Joined
    <3> QED
      BY <2>1, <2>2, <3>1
  <2>4. s.at < Len(s.b)
    BY <1>2, <2>2, <2>3
  <2> DEFINE crs == Places(CR, s.b, s.at)
             dry == s.eof \/ s.tail = 0 \/ Taken(s, s.tail) = <<>>
             i == First(crs)
  <2>5. Scan(s) = IF crs = {} THEN IF dry THEN Ended(s) ELSE [Refilled(s) EXCEPT !.at = Len(s.b)]
                  ELSE IF i < Len(s.b) THEN Passed(s, i)
                  ELSE IF s.eof THEN Ended(s)
                  ELSE IF s.tail = 0 THEN Ended(LookedAhead(s))
                  ELSE IF dry THEN Ended(s)
                  ELSE Passed(Refilled(s), i)
    BY <1>2 DEF Scan
  <2>6. CASE crs = {}
    <3>1. Without(CR, r)
      BY <2>1, <2>2, <2>6, TextChars, FirstPlace
    <3>2. /\ TurnedOn(s, Ended(s), u, size)
          /\ TurnedOn(s, [Refilled(s) EXCEPT !.at = Len(s.b)], u, size)
      BY <2>0, <2>1, <2>4, <3>1, PlainScan
    <3> QED
      BY <2>5, <2>6, <3>2
  <2>7. CASE crs # {}
    <3>1. PICK p, q \in Seq(TextChar) :
             Parts(r, p, CR, q) /\ Without(CR, p) /\ i = Len(v) + Len(p) + 1
      <4>1. Places(CR, s.b, Len(v)) # {}
        BY <2>2, <2>7
      <4>2. v \in Seq(TextChar) /\ r \in Seq(TextChar)
        BY <2>1
      <4>3. Whole(s.b, v, r)
        BY <2>2 DEF Whole
      <4>4. NextCr(s.b, v, r)
        BY <2>2, <4>1, <4>2, <4>3, CrAfter
      <4>5. i = First(Places(CR, s.b, Len(v)))
        BY <2>2
      <4> QED
        BY <4>4, <4>5 DEF NextCr
    <3>2. PICK w, t \in Seq(TextChar) : AtCr(s, u, w, q, t) /\ Len(w) = Len(v) + Len(p)
      BY <2>0, <2>1, <3>1, CrFound
    <3>3. Len(p) \in Nat /\ Len(w) \in Nat
      BY <3>1, <3>2
    <3>4. i = Len(w) + 1 /\ Len(v) <= Len(w)
      BY <2>3, <3>1, <3>2, <3>3
    <3>5. /\ Len(w) + 1 < Len(s.b) => TurnedOn(s, Passed(s, Len(w) + 1), u, size)
          /\ Len(w) + 1 >= Len(s.b) =>
                /\ s.eof => TurnedOn(s, Ended(s), u, size)
                /\ TurnedOn(s, Ended(LookedAhead(s)), u, size)
                /\ s.tail # 0 /\ Taken(s, s.tail) = <<>> => TurnedOn(s, Ended(s), u, size)
                /\ s.tail # 0 /\ Taken(s, s.tail) # <<>> =>
                      TurnedOn(s, Passed(Refilled(s), Len(w) + 1), u, size)
      BY <2>0, <2>1, <3>1, <3>2, <3>4, CrScan
    <3>6. i < Len(s.b) \/ Len(w) + 1 >= Len(s.b)
      BY <2>2, <2>3, <3>3, <3>4
    <3>7. (i < Len(s.b)) <=> (Len(w) + 1 < Len(s.b))
      BY <3>4
    <3> HIDE DEF i, crs
    <3> QED
      BY <2>5, <2>7, <3>4, <3>5, <3>6, <3>7
  <2> QED
    BY <2>6, <2>7
<1> QED
  BY <1>1, <1>2

(* The recursive function of the turns is one.                             *)
Turns(f, n, a) == f = [k \in 0 .. n |-> IF k = 0 THEN a ELSE Scan(f[k - 1])]

LEMMA ScanExists ==
    ASSUME NEW n \in Nat, NEW a
    PROVE  \E f : Turns(f, n, a)
<1> DEFINE Part(f, m) == f = [k \in 0 .. m |-> IF k = 0 THEN a ELSE Scan(f[k - 1])]
           T == {m \in 0 .. n : \E f : Part(f, m)}
<1>1. 0 \in T
  <2> DEFINE f == [k \in 0 .. 0 |-> a]
             g == [k \in 0 .. 0 |-> IF k = 0 THEN a ELSE Scan(f[k - 1])]
  <2>1. f = g
    <3>1. \A k \in 0 .. 0 : f[k] = g[k]
      OBVIOUS
    <3>2. DOMAIN f = 0 .. 0 /\ DOMAIN g = 0 .. 0
      OBVIOUS
    <3> QED
      BY <3>1, <3>2
  <2>2. Part(f, 0)
    BY <2>1
  <2> HIDE DEF Part
  <2> QED
    BY <2>2
<1>2. \A m \in 0 .. n - 1 : m \in T => m + 1 \in T
  <2> SUFFICES ASSUME NEW m \in 0 .. n - 1, m \in T
               PROVE  m + 1 \in T
    OBVIOUS
  <2>1. PICK f : Part(f, m)
    OBVIOUS
  <2> DEFINE g == [k \in 0 .. m + 1 |-> IF k <= m THEN f[k] ELSE Scan(f[k - 1])]
             h == [k \in 0 .. m + 1 |-> IF k = 0 THEN a ELSE Scan(g[k - 1])]
  <2>2. \A k \in 0 .. m + 1 : g[k] = h[k]
    <3> SUFFICES ASSUME NEW k \in 0 .. m + 1
                 PROVE  g[k] = h[k]
      OBVIOUS
    <3>1. CASE k = 0
      BY <2>1, <3>1
    <3>2. CASE k \in 1 .. m
      <4>1. k - 1 \in 0 .. m /\ k - 1 \in 0 .. m + 1 /\ k - 1 <= m /\ k <= m /\ k # 0 /\ k \in 0 .. m
        BY <3>2
      <4>2. g[k] = f[k] /\ g[k - 1] = f[k - 1] /\ h[k] = Scan(g[k - 1])
        BY <4>1
      <4>3. f[k] = Scan(f[k - 1])
        BY <2>1, <4>1
      <4> QED
        BY <4>2, <4>3
    <3>3. CASE k = m + 1
      <4>1. k - 1 \in 0 .. m /\ k - 1 \in 0 .. m + 1 /\ k - 1 <= m /\ ~(k <= m) /\ k # 0
        BY <3>3
      <4>2. g[k] = Scan(f[k - 1]) /\ g[k - 1] = f[k - 1] /\ h[k] = Scan(g[k - 1])
        BY <4>1
      <4> QED
        BY <4>2
    <3> QED
      BY <3>1, <3>2, <3>3
  <2>3. g = h
    <3>1. DOMAIN g = 0 .. m + 1 /\ DOMAIN h = 0 .. m + 1
      OBVIOUS
    <3> QED
      BY <2>2, <3>1
  <2>4. Part(g, m + 1)
    BY <2>3
  <2> HIDE DEF Part, g
  <2>5. m + 1 \in 0 .. n
    OBVIOUS
  <2> QED
    BY <2>4, <2>5
<1> HIDE DEF T
<1>3. \A m \in 0 .. n : m \in T
  BY <1>1, <1>2, Upward
<1>4. n \in T
  BY <1>3
<1> QED
  BY <1>4 DEF T, Turns

(* What m_read_text() starts with, and what the turns make of it.          *)
ScanStart(size) ==
    [b |-> Firsts(From(bytes, fpos), size), at |-> 0, tail |-> 0,
     pos |-> fpos + Len(Firsts(From(bytes, fpos), size)),
     eof |-> Len(Firsts(From(bytes, fpos), size)) # size]

LEMMA Scanned ==
    ASSUME NEW size \in Nat
    PROVE  \E f : /\ m_read_text(size) = f[size] /\ f[0] = ScanStart(size)
                  /\ \A k \in 1 .. size : f[k] = Scan(f[k - 1])
<1> DEFINE read == Firsts(From(bytes, fpos), size)
           start == [b |-> read, at |-> 0, tail |-> 0, pos |-> fpos + Len(read),
                     eof |-> Len(read) # size]
           scan[k \in 0 .. size] == IF k = 0 THEN start ELSE Scan(scan[k - 1])
<1>1. \E f : Turns(f, size, start)
  <2> HIDE DEF start, scan
  <2> QED
    BY ScanExists
<1>2. scan = [k \in 0 .. size |-> IF k = 0 THEN start ELSE Scan(scan[k - 1])]
  <2> HIDE DEF start
  <2> QED
    BY <1>1 DEF Turns
<1>3. m_read_text(size) = scan[size]
  BY DEF m_read_text
<1>4. start = ScanStart(size)
  BY DEF ScanStart
<1> HIDE DEF scan, start
<1>5. scan[0] = start /\ \A k \in 1 .. size : scan[k] = Scan(scan[k - 1])
  BY <1>2
<1> QED
  BY <1>3, <1>4, <1>5

LEMMA StartsReading ==
    ASSUME bytes \in Seq(TextChar), fpos \in 0 .. Len(bytes), NEW size \in Nat,
           NEW u \in Seq(TextChar), From(bytes, fpos) = Crlf(u)
    PROVE  Reading(ScanStart(size), u, size)
<1> DEFINE e == [b |-> <<>>, at |-> 0, tail |-> size, pos |-> fpos, eof |-> FALSE]
<1>0. <<>> \in Seq(TextChar) /\ Len(<<>>) = 0
  OBVIOUS
<1>1. e \in States
  BY <1>0 DEF States
<1>2. Fits(e, size)
  BY <1>0, <1>1 DEF Fits
<1>3. Ahead(e) = Crlf(u)
  BY DEF Ahead
<1>4. Holds(e, u, <<>>, <<>>, u)
  <2>1. <<>> \o u = u /\ <<>> \o Crlf(u) = Crlf(u) /\ <<>> \o <<>> = <<>>
    BY <1>0, Empties0, CrlfIn
  <2> QED
    BY <1>0, <1>3, <2>1 DEF Holds
<1>5. e.b = <<>> /\ e.at = 0 /\ e.tail = size /\ e.pos = fpos
  OBVIOUS
<1>6. Taken(e, e.tail) = Firsts(From(bytes, fpos), size)
  BY <1>5 DEF Taken
<1>7. PICK read \in Seq(TextChar) :
         /\ read = Taken(e, e.tail) /\ Refilled(e).b = e.b \o read
         /\ Fits(Refilled(e), size) /\ Holds(Refilled(e), u, <<>>, <<>> \o read, u)
  <2> HIDE DEF e
  <2> QED
    BY <1>0, <1>2, <1>4, RefillsOn
<1>8. Refilled(e) = ScanStart(size)
  <2>1. <<>> \o read = read
    BY <1>7, Empties0
  <2>2. PICK t \in States :
           /\ t = Refilled(e)
           /\ t.b = read /\ t.at = 0 /\ t.tail = 0 /\ t.pos = fpos + Len(read)
           /\ t.eof = (Len(read) # size)
    <3>1. e.tail = size /\ e.pos = fpos /\ e.at = 0
      BY <1>5
    <3> HIDE DEF e
    <3>2. /\ Refilled(e) \in States /\ Refilled(e).b = read /\ Refilled(e).at = 0 /\ Refilled(e).tail = 0
      <4>1. PICK more \in Seq(TextChar) :
               /\ more = Taken(e, e.tail) /\ Len(more) <= e.tail
               /\ Refilled(e) \in States
               /\ Refilled(e).b = e.b \o more /\ Refilled(e).at = e.at /\ Refilled(e).tail = 0
               /\ Ahead(e) = more \o Ahead(Refilled(e))
               /\ Refilled(e).eof => Ahead(Refilled(e)) = <<>>
        BY <1>1, Refills
      <4> QED
        BY <1>7, <2>1, <3>1, <4>1, <1>5
    <3>3. PICK n : n = fpos + Len(read)
      OBVIOUS
    <3>4. PICK f : f = (Len(read) # size)
      OBVIOUS
    <3>5. Refilled(e) = [e EXCEPT !.b = read, !.tail = 0, !.pos = n, !.eof = f]
      BY <1>5, <1>7, <2>1, <3>3, <3>4 DEF Refilled
    <3>6. Refilled(e).pos = n /\ Refilled(e).eof = f
      BY <1>1, <3>5 DEF States
    <3> QED
      BY <3>2, <3>3, <3>4, <3>6
  <2>4. t = [b |-> t.b, at |-> t.at, tail |-> t.tail, pos |-> t.pos, eof |-> t.eof]
    BY <2>2 DEF States
  <2>5. ScanStart(size) = [b |-> read, at |-> 0, tail |-> 0, pos |-> fpos + Len(read), eof |-> Len(read) # size]
    <3> HIDE DEF e
    <3> QED
      BY <1>6, <1>7 DEF ScanStart
  <2> HIDE DEF e
  <2> QED
    BY <2>2, <2>4, <2>5, Zenon
<1>9. <<>> \o read \in Seq(TextChar)
  BY <1>0, <1>7, Joined
<1> HIDE DEF e
<1> QED
  BY <1>0, <1>7, <1>8, <1>9 DEF Reading

ReadOff(m, u, size, v, y) ==
    /\ u = v \o y /\ m.b = v /\ Len(v) <= size
    /\ m.pos \in 0 .. Len(bytes) /\ From(bytes, m.pos) = Crlf(y)

LEMMA Reads ==
    ASSUME bytes \in Seq(TextChar), fpos \in 0 .. Len(bytes), NEW size \in Nat,
           NEW u \in Seq(TextChar), From(bytes, fpos) = Crlf(u)
    PROVE  \E v, y \in Seq(TextChar) : ReadOff(m_read_text(size), u, size, v, y)
<1>1. PICK f : /\ m_read_text(size) = f[size] /\ f[0] = ScanStart(size)
               /\ \A k \in 1 .. size : f[k] = Scan(f[k - 1])
  BY Scanned
<1> DEFINE Far(k) == Reading(f[k], u, size) /\ (f[k].at = Len(f[k].b) \/ f[k].at >= k)
           T == {k \in 0 .. size : Far(k)}
<1>2. 0 \in T
  <2>1. Reading(f[0], u, size)
    BY <1>1, StartsReading
  <2>2. f[0].at = 0
    BY <1>1 DEF ScanStart
  <2> QED
    BY <2>1, <2>2
<1>3. \A k \in 0 .. size - 1 : k \in T => k + 1 \in T
  <2> SUFFICES ASSUME NEW k \in 0 .. size - 1, k \in T
               PROVE  k + 1 \in T
    OBVIOUS
  <2>1. k + 1 \in 1 .. size /\ (k + 1) - 1 = k /\ k + 1 \in 0 .. size /\ k \in Nat
    OBVIOUS
  <2>2. f[k + 1] = Scan(f[k])
    BY <1>1, <2>1
  <2>3. Far(k)
    OBVIOUS
  <2>4. Far(k + 1)
    <3>1. CASE f[k].at = Len(f[k].b)
      BY <2>2, <2>3, <3>1, ScanTurn
    <3>2. CASE f[k].at # Len(f[k].b)
      <4>1. TurnedOn(f[k], f[k + 1], u, size)
        BY <2>2, <2>3, <3>2, ScanTurn
      <4>2. Reading(f[k + 1], u, size) /\ (f[k + 1].at = Len(f[k + 1].b) \/ f[k + 1].at > f[k].at)
        BY <4>1 DEF TurnedOn
      <4>3. f[k].at >= k
        BY <2>3, <3>2
      <4>4. f[k].at \in Nat /\ f[k + 1].at \in Nat
        BY <2>3, <4>2, AheadIn DEF Reading
      <4>5. f[k + 1].at > f[k].at => f[k + 1].at >= k + 1
        BY <2>1, <4>3, <4>4
      <4> QED
        BY <4>2, <4>5
    <3> QED
      BY <3>1, <3>2
  <2> QED
    BY <2>1, <2>4
<1> HIDE DEF T
<1>4. \A k \in 0 .. size : k \in T
  BY <1>2, <1>3, Upward
<1>5. size \in 0 .. size
  OBVIOUS
<1>6. Far(size)
  BY <1>4, <1>5 DEF T
<1>7. PICK m : m = f[size]
  OBVIOUS
<1>8. Fits(m, size) /\ (m.at = Len(m.b) \/ m.at >= size)
  BY <1>6, <1>7 DEF Reading
<1>9. PICK v, r, y \in Seq(TextChar) : Holds(m, u, v, r, y)
  BY <1>6, <1>7 DEF Reading
<1>10. u = v \o y /\ m.at = Len(v) /\ m.b = v \o r /\ Crlf(y) = r \o Ahead(m)
  BY <1>9 DEF Holds
<1>11. /\ Len(m.b) + m.tail <= size /\ m.tail \in Nat /\ m.pos \in 0 .. Len(bytes)
       /\ Ahead(m) \in Seq(TextChar)
  BY <1>8, AheadIn
<1>12. Len(m.b) = Len(v) + Len(r) /\ Len(v) \in Nat /\ Len(r) \in Nat
  <2>1. Len(v \o r) = Len(v) + Len(r)
    BY <1>9, Joined
  <2> QED
    BY <1>9, <1>10, <2>1
<1>13. r = <<>>
  <2>1. Len(r) = 0
    BY <1>8, <1>10, <1>11, <1>12
  <2> QED
    BY <1>9, <2>1
<1>14. m.b = v /\ Crlf(y) = Ahead(m)
  BY <1>9, <1>10, <1>11, <1>13, Empties0
<1>15. ReadOff(m, u, size, v, y)
  BY <1>10, <1>11, <1>12, <1>13, <1>14 DEF ReadOff, Ahead
<1> QED
  BY <1>1, <1>7, <1>9, <1>15

-----------------------------------------------------------------------------
(* A line end is two bytes of the file.                                    *)
LEMMA CountIs ==
    ASSUME NEW c
    PROVE  /\ Count(c, <<>>) = 0
           /\ \A s \in Seq(TextChar) : Count(c, s) \in Nat
           /\ \A s \in Seq(TextChar), d \in TextChar :
                 Count(c, Append(s, d)) = Count(c, s) + (IF d = c THEN 1 ELSE 0)
<1> DEFINE In(s) == {i \in DOMAIN s : s[i] = c}
<1>1. Count(c, <<>>) = 0
  <2>1. In(<<>>) = {}
    OBVIOUS
  <2> QED
    BY <2>1, FS_EmptySet DEF Count
<1>2. \A s \in Seq(TextChar) : IsFiniteSet(In(s)) /\ In(s) \subseteq 1 .. Len(s)
  <2> SUFFICES ASSUME NEW s \in Seq(TextChar)
               PROVE  IsFiniteSet(In(s)) /\ In(s) \subseteq 1 .. Len(s)
    OBVIOUS
  <2>1. In(s) \subseteq 1 .. Len(s)
    OBVIOUS
  <2>2. Len(s) \in Int /\ 1 \in Int
    OBVIOUS
  <2>3. IsFiniteSet(1 .. Len(s))
    BY <2>2, FS_Interval
  <2> HIDE DEF In
  <2> QED
    BY <2>1, <2>3, FS_Subset
<1>3. \A s \in Seq(TextChar) : Count(c, s) \in Nat
  BY <1>2, FS_CardinalityType DEF Count
<1>4. ASSUME NEW s \in Seq(TextChar), NEW d \in TextChar
      PROVE  Count(c, Append(s, d)) = Count(c, s) + (IF d = c THEN 1 ELSE 0)
  <2>1. PICK t \in Seq(TextChar) : Extended(t, s, d)
    BY Longer
  <2>2. /\ Len(t) = Len(s) + 1 /\ t[Len(s) + 1] = d /\ \A i \in 1 .. Len(s) : t[i] = s[i]
        /\ t = Append(s, d) /\ DOMAIN t = 1 .. Len(t) /\ DOMAIN s = 1 .. Len(s) /\ Len(s) \in Nat
    BY <2>1 DEF Extended
  <2>3. In(t) = IF d = c THEN In(s) \cup {Len(s) + 1} ELSE In(s)
    <3>1. \A i \in 1 .. Len(s) + 1 : i \in 1 .. Len(s) \/ i = Len(s) + 1
      BY <2>2
    <3>2. CASE d = c
      BY <2>2, <3>1, <3>2
    <3>3. CASE d # c
      BY <2>2, <3>1, <3>3
    <3> QED
      BY <3>2, <3>3
  <2>4. Len(s) + 1 \notin In(s) /\ IsFiniteSet(In(s))
    BY <1>2, <2>2
  <2>5. Cardinality(In(s) \cup {Len(s) + 1}) = Cardinality(In(s)) + 1
    <3> HIDE DEF In
    <3> QED
      BY <2>4, FS_AddElement
  <2>6. Count(c, t) = Cardinality(In(t)) /\ Count(c, s) = Cardinality(In(s))
    BY DEF Count
  <2>7. Count(c, s) \in Nat
    BY <1>3
  <2> HIDE DEF In
  <2> QED
    BY <2>2, <2>3, <2>5, <2>6, <2>7
<1> HIDE DEF In
<1> QED
  BY <1>1, <1>3, <1>4

LEMMA CrlfLen == \A t \in Seq(TextChar) : Len(Crlf(t)) = Len(t) + Count(NL, t)
<1> DEFINE Q == {t \in Seq(TextChar) : Len(Crlf(t)) = Len(t) + Count(NL, t)}
<1>1. <<>> \in Q
  <2>1. <<>> \in Seq(TextChar) /\ Len(<<>>) = 0
    OBVIOUS
  <2> QED
    BY <2>1, CrlfEmpty, CountIs
<1>2. \A t \in Seq(TextChar), c \in TextChar : t \in Q => Append(t, c) \in Q
  <2> SUFFICES ASSUME NEW t \in Seq(TextChar), NEW c \in TextChar, t \in Q
               PROVE  Append(t, c) \in Q
    OBVIOUS
  <2>0. Append(t, c) \in Seq(TextChar) /\ Len(Append(t, c)) = Len(t) + 1
    OBVIOUS
  <2>1. PICK w \in Seq(TextChar) : w = Append(t, c) /\ Len(w) = Len(t) + 1
    BY <2>0, Zenon
  <2>2. Crlf(w) = Crlf(t) \o One(c) /\ Crlf(t) \in Seq(TextChar) /\ One(c) \in Seq(TextChar)
    BY <2>1, CrlfAppend, OneIs
  <2>3. Len(Crlf(w)) = Len(Crlf(t)) + Len(One(c))
    BY <2>2, Joined
  <2>4. Len(One(c)) = 1 + (IF c = NL THEN 1 ELSE 0)
    BY DEF One
  <2>5. Count(NL, w) = Count(NL, t) + (IF c = NL THEN 1 ELSE 0) /\ Count(NL, t) \in Nat
    BY <2>1, CountIs
  <2>6. Len(Crlf(t)) = Len(t) + Count(NL, t) /\ Len(t) \in Nat
    OBVIOUS
  <2>7. Len(Crlf(w)) = Len(w) + Count(NL, w)
    BY <2>1, <2>3, <2>4, <2>5, <2>6
  <2> HIDE DEF Q
  <2>8. Len(Crlf(w)) = Len(w) + Count(NL, w) => w \in Q
    BY <2>1 DEF Q
  <2> QED
    BY <2>1, <2>7, <2>8
<1> HIDE DEF Q
<1>3. \A t \in Seq(TextChar) : t \in Q
  BY <1>1, <1>2, SeqUp
<1> QED
  BY <1>3 DEF Q

-----------------------------------------------------------------------------
(* The invariant of the stream.                                            *)
AreaOK(a) ==
    /\ a.before \in Seq(TextChar) /\ a.next \in Seq(TextChar) /\ a.rest \in Seq(TextChar)
    /\ a.pb \in BOOLEAN
    /\ ~a.pb => a.rest = <<>>
    /\ a.pb => Len(a.before) + Len(a.next) = 1
    /\ Len(a.before) + Len(a.next) <= BufSize /\ Len(a.rest) <= BufSize

Left(a) == a.next \o a.rest
At(f, p, u) == p \in 0 .. Len(f) /\ From(f, p) = Crlf(u)
InStep(u) == At(bytes, fpos, u) /\ At(bytes, base, (got \o Left(area)) \o u)

TextInv ==
    /\ bytes \in Seq(TextChar) /\ \E t \in Seq(TextChar) : bytes = Crlf(t)
    /\ AreaOK(area) /\ got \in Seq(TextChar)
    /\ \E u \in Seq(TextChar) : InStep(u)

LEMMA LeftIn == \A a : AreaOK(a) => Left(a) \in Seq(TextChar)
  BY Joined DEF AreaOK, Left

LEMMA NatSum == \A p, q \in Nat : (p + 1) + (q - 1) = p + q
  OBVIOUS

MayBeArea(b, n, r, pb) ==
    /\ b \in Seq(TextChar) /\ n \in Seq(TextChar) /\ r \in Seq(TextChar) /\ pb \in BOOLEAN
    /\ ~pb => r = <<>>
    /\ pb => Len(b) + Len(n) = 1
    /\ Len(b) + Len(n) <= BufSize /\ Len(r) <= BufSize

LEMMA AreaIs ==
    ASSUME NEW b, NEW n, NEW r, NEW pb, MayBeArea(b, n, r, pb)
    PROVE  AreaOK(Area(b, n, r, pb)) /\ Left(Area(b, n, r, pb)) = n \o r
<1>1. PICK a : a = Area(b, n, r, pb)
  OBVIOUS
<1>2. a.before = b /\ a.next = n /\ a.rest = r /\ a.pb = pb
  BY <1>1 DEF Area
<1>3. AreaOK(a)
  BY <1>2 DEF AreaOK, MayBeArea
<1>4. Left(a) = n \o r
  BY <1>2 DEF Left
<1> QED
  BY <1>1, <1>3, <1>4

LEMMA Empty == <<>> \in Seq(TextChar) /\ Len(<<>>) = 0 /\ <<>> \o <<>> = <<>>
  OBVIOUS

LEMMA Size == BufSize \in Nat /\ BufSize >= 1
  BY TextModeAssumption

LEMMA NoAreaOK == AreaOK(NoArea) /\ Left(NoArea) = <<>>
<1>1. MayBeArea(<<>>, <<>>, <<>>, FALSE)
  BY Empty, Size DEF MayBeArea
<1>2. AreaOK(Area(<<>>, <<>>, <<>>, FALSE)) /\ Left(Area(<<>>, <<>>, <<>>, FALSE)) = <<>> \o <<>>
  BY <1>1, AreaIs
<1> QED
  BY <1>2, Empty, Zenon DEF NoArea

(* What the invariant says of what was read, and of what was not.          *)
LEMMA TextInvReads == TextInv => ReadsText
<1> SUFFICES ASSUME TextInv PROVE ReadsText
  OBVIOUS
<1>1. PICK u \in Seq(TextChar) : InStep(u)
  BY DEF TextInv
<1>2. bytes \in Seq(TextChar) /\ AreaOK(area) /\ got \in Seq(TextChar) /\ Left(area) \in Seq(TextChar)
  BY LeftIn DEF TextInv
<1>3. PICK t \in Seq(TextChar) : t = got \o Left(area)
  BY <1>2, Joined
<1>4. /\ fpos \in 0 .. Len(bytes) /\ From(bytes, fpos) = Crlf(u)
      /\ base \in 0 .. Len(bytes) /\ From(bytes, base) = Crlf(t \o u)
  BY <1>1, <1>3 DEF InStep, At
<1>5. Text(From(bytes, fpos)) = u /\ Text(From(bytes, base)) = t \o u
  <2>1. t \o u \in Seq(TextChar)
    BY <1>1, <1>3, Joined
  <2> QED
    BY <1>1, <1>4, <2>1, TextOfLines
<1>6. TextTypeOK
  <2>1. \A i \in DOMAIN bytes : bytes[i] \in TextChar
    BY <1>2
  <2>2. Len(area.before \o area.next) = Len(area.before) + Len(area.next)
    BY <1>2, Joined DEF AreaOK
  <2> QED
    BY <1>2, <1>4, <2>1, <2>2 DEF TextTypeOK, AreaOK, TextChar
<1> QED
  BY <1>3, <1>5, <1>6 DEF ReadsText, Unread, Left

(* The characters are delivered: v more of the text were read from the     *)
(* file, of which y is left.                                               *)
Delivers(chars, to, u, v, y) ==
    /\ u = v \o y /\ Left(area) \o v = chars \o Left(to)

LEMMA DeliverOK ==
    ASSUME TextInv, NEW u \in Seq(TextChar), InStep(u), NEW chars \in Seq(TextChar), NEW to,
           NEW v \in Seq(TextChar), NEW y \in Seq(TextChar),
           AreaOK(to), Deliver(chars, to), At(bytes, fpos', y), Delivers(chars, to, u, v, y)
    PROVE  TextInv'
<1>1. /\ bytes \in Seq(TextChar) /\ \E t \in Seq(TextChar) : bytes = Crlf(t)
      /\ got \in Seq(TextChar) /\ Left(area) \in Seq(TextChar) /\ Left(to) \in Seq(TextChar)
  BY LeftIn DEF TextInv
<1>2. bytes' = bytes /\ base' = base /\ got' = got \o chars /\ area' = to
  BY DEF Deliver
<1>3. PICK l \in Seq(TextChar) : l = Left(area)
  BY <1>1
<1>4. PICK m \in Seq(TextChar) : m = Left(to)
  BY <1>1
<1>5. PICK g \in Seq(TextChar) : g = got \o chars
  BY <1>1, Joined
<1>6. PICK w \in Seq(TextChar) : w = got \o l
  BY <1>1, <1>3, Joined
<1>7. w \o u = (g \o m) \o y
  <2>1. Assoc(w, v, y) /\ Assoc(got, l, v) /\ Assoc(got, chars, m)
    BY <1>1, <1>3, <1>4, <1>6, Assocs
  <2>2. u = v \o y /\ l \o v = chars \o m
    BY <1>3, <1>4 DEF Delivers
  <2>3. w \o u = (w \o v) \o y
    BY <2>1, <2>2 DEF Assoc
  <2>4. w \o v = got \o (chars \o m)
    BY <1>6, <2>1, <2>2 DEF Assoc
  <2> QED
    BY <1>5, <2>1, <2>3, <2>4 DEF Assoc
<1>8. At(bytes, base, (g \o m) \o y)
  BY <1>3, <1>6, <1>7 DEF InStep
<1>9. InStep(y)'
  BY <1>2, <1>4, <1>5, <1>8 DEF InStep, At, Left
<1>10. AreaOK(area)' /\ got' \in Seq(TextChar)
  BY <1>2, <1>5 DEF AreaOK
<1> QED
  BY <1>1, <1>2, <1>9, <1>10 DEF TextInv

LEMMA HeadTail ==
    ASSUME NEW q \in Seq(TextChar), q # <<>>
    PROVE  /\ Head(q) \in TextChar /\ Tail(q) \in Seq(TextChar) /\ Starts(q, Head(q), Tail(q))
           /\ Len(Tail(q)) = Len(q) - 1 /\ Len(q) >= 1
<1>1. Len(q) >= 1 /\ Len(q) \in Nat
  OBVIOUS
<1>2. Head(q) \in TextChar /\ Tail(q) \in Seq(TextChar) /\ Len(Tail(q)) = Len(q) - 1
  BY <1>1
<1>3. q = <<Head(q)>> \o Tail(q)
  BY <1>1, SMT
<1> QED
  BY <1>1, <1>2, <1>3 DEF Starts

LEMMA ConsumedOK ==
    ASSUME NEW a, AreaOK(a), a.next # <<>>
    PROVE  AreaOK(Consumed(a)) /\ Left(a) = <<Head(a.next)>> \o Left(Consumed(a))
<1>0. /\ a.before \in Seq(TextChar) /\ a.next \in Seq(TextChar) /\ a.rest \in Seq(TextChar)
      /\ a.pb \in BOOLEAN /\ (~a.pb => a.rest = <<>>) /\ (a.pb => Len(a.before) + Len(a.next) = 1)
      /\ Len(a.before) + Len(a.next) <= BufSize /\ Len(a.rest) <= BufSize
  BY DEF AreaOK
<1>1. PICK d \in TextChar : d = Head(a.next)
  BY <1>0, HeadTail
<1>2. PICK t \in Seq(TextChar) : t = Tail(a.next)
  BY <1>0, HeadTail
<1>3. a.next = <<d>> \o t /\ Len(t) = Len(a.next) - 1
  BY <1>0, <1>1, <1>2, HeadTail DEF Starts
<1>4. PICK b \in Seq(TextChar) : b = Append(a.before, d) /\ Len(b) = Len(a.before) + 1
  <2>1. Append(a.before, d) \in Seq(TextChar) /\ Len(Append(a.before, d)) = Len(a.before) + 1
    BY <1>0
  <2> QED
    BY <2>1, Zenon
<1>5. Len(b) + Len(t) = Len(a.before) + Len(a.next)
  <2>1. Len(a.before) \in Nat /\ Len(a.next) \in Nat
    BY <1>0
  <2>2. Len(t) = Len(a.next) - 1
    BY <1>3
  <2>3. Len(b) = Len(a.before) + 1
    BY <1>4
  <2>4. (Len(a.before) + 1) + (Len(a.next) - 1) = Len(a.before) + Len(a.next)
    BY <2>1, NatSum
  <2> QED
    BY <2>2, <2>3, <2>4, Zenon
<1>6. Consumed(a) = Area(b, t, a.rest, a.pb)
  BY <1>1, <1>2, <1>4 DEF Consumed
<1>7. AreaOK(Consumed(a)) /\ Left(Consumed(a)) = t \o a.rest
  <2>1. MayBeArea(b, t, a.rest, a.pb)
    BY <1>0, <1>2, <1>4, <1>5, Zenon DEF MayBeArea
  <2>2. AreaOK(Area(b, t, a.rest, a.pb)) /\ Left(Area(b, t, a.rest, a.pb)) = t \o a.rest
    BY <2>1, AreaIs
  <2> QED
    BY <1>6, <2>2
<1>8. (<<d>> \o t) \o a.rest = <<d>> \o (t \o a.rest)
  <2>1. <<d>> \in Seq(TextChar)
    OBVIOUS
  <2>2. Assoc(<<d>>, t, a.rest)
    BY <1>0, <1>2, <2>1, Assocs
  <2> QED
    BY <2>2 DEF Assoc
<1>9. Left(a) = (<<d>> \o t) \o a.rest
  BY <1>3 DEF Left
<1> QED
  BY <1>1, <1>7, <1>8, <1>9

(* Characters of the get area: nothing is read from the file.              *)
LEMMA FromArea ==
    ASSUME TextInv, NEW chars \in Seq(TextChar), NEW to, AreaOK(to), Deliver(chars, to),
           UNCHANGED fpos, Left(area) = chars \o Left(to)
    PROVE  TextInv'
<1>1. PICK u \in Seq(TextChar) : InStep(u)
  BY DEF TextInv
<1>2. Left(area) \in Seq(TextChar) /\ <<>> \in Seq(TextChar)
  BY LeftIn, Empty DEF TextInv
<1>3. u = <<>> \o u /\ Left(area) \o <<>> = Left(area)
  BY <1>1, <1>2, Empties0
<1>4. Delivers(chars, to, u, <<>>, u)
  BY <1>3 DEF Delivers
<1>5. At(bytes, fpos', u)
  BY <1>1 DEF InStep
<1> QED
  BY <1>1, <1>2, <1>4, <1>5, DeliverOK

(* Nothing is left in the get area, and size characters are asked for.     *)
LEMMA FromFile ==
    ASSUME TextInv, NEW chars \in Seq(TextChar), NEW to, AreaOK(to), Deliver(chars, to),
           NEW size \in Nat, fpos' = m_read_text(size).pos,
           Left(area) \o m_read_text(size).b = chars \o Left(to)
    PROVE  TextInv'
<1>1. PICK u \in Seq(TextChar) : InStep(u)
  BY DEF TextInv
<1>2. bytes \in Seq(TextChar) /\ fpos \in 0 .. Len(bytes) /\ From(bytes, fpos) = Crlf(u)
  BY <1>1 DEF TextInv, InStep, At
<1>3. PICK v, y \in Seq(TextChar) : ReadOff(m_read_text(size), u, size, v, y)
  BY <1>1, <1>2, Reads
<1>4. Delivers(chars, to, u, v, y) /\ At(bytes, fpos', y)
  BY <1>3 DEF Delivers, ReadOff, At
<1> QED
  BY <1>1, <1>3, <1>4, DeliverOK

(* What is read is a text, of size characters at most.                     *)
LEMMA ReadIs ==
    ASSUME TextInv, NEW size \in Nat
    PROVE  m_read_text(size).b \in Seq(TextChar) /\ Len(m_read_text(size).b) <= size
<1>1. PICK u \in Seq(TextChar) : InStep(u)
  BY DEF TextInv
<1>2. bytes \in Seq(TextChar) /\ fpos \in 0 .. Len(bytes) /\ From(bytes, fpos) = Crlf(u)
  BY <1>1 DEF TextInv, InStep, At
<1>3. PICK v, y \in Seq(TextChar) : ReadOff(m_read_text(size), u, size, v, y)
  BY <1>1, <1>2, Reads
<1> QED
  BY <1>3 DEF ReadOff

LEMMA SbumpcOK == TextInv /\ Sbumpc => TextInv'
<1> SUFFICES ASSUME TextInv, Sbumpc PROVE TextInv'
  OBVIOUS
<1>0. AreaOK(area)
  BY DEF TextInv
<1>1. /\ area.next \in Seq(TextChar) /\ area.rest \in Seq(TextChar) /\ Len(area.rest) <= BufSize
  BY <1>0 DEF AreaOK
<1>2. CASE area.next # <<>>
  <2>1. Deliver(<<Head(area.next)>>, Consumed(area)) /\ UNCHANGED fpos
    BY <1>2 DEF Sbumpc
  <2>2. AreaOK(Consumed(area)) /\ Left(area) = <<Head(area.next)>> \o Left(Consumed(area))
    BY <1>0, <1>2, ConsumedOK
  <2>3. <<Head(area.next)>> \in Seq(TextChar)
    BY <1>1, <1>2, HeadTail
  <2> QED
    BY <2>1, <2>2, <2>3, FromArea
<1>3. CASE area.next = <<>> /\ area.rest # <<>>
  <2> DEFINE a == Area(<<>>, area.rest, <<>>, FALSE)
  <2>1. Deliver(<<Head(area.rest)>>, Consumed(a)) /\ UNCHANGED fpos
    BY <1>3 DEF Sbumpc
  <2>2. AreaOK(a) /\ Left(a) = area.rest \o <<>> /\ a.next = area.rest
    <3>1. MayBeArea(<<>>, area.rest, <<>>, FALSE)
      BY <1>1, Empty, Size DEF MayBeArea
    <3>2. AreaOK(a) /\ Left(a) = area.rest \o <<>>
      BY <3>1, AreaIs
    <3>3. a.next = area.rest
      BY DEF Area
    <3> QED
      BY <3>2, <3>3, Zenon
  <2>3. AreaOK(Consumed(a)) /\ Left(a) = <<Head(area.rest)>> \o Left(Consumed(a))
    <3> HIDE DEF a
    <3> QED
      BY <1>3, <2>2, ConsumedOK
  <2>4. <<Head(area.rest)>> \in Seq(TextChar)
    BY <1>1, <1>3, HeadTail
  <2>5. Left(area) = Left(a)
    <3>1. area.rest \o <<>> = area.rest /\ <<>> \o area.rest = area.rest
      BY <1>1, Empties0
    <3> QED
      BY <1>3, <2>2, <3>1 DEF Left
  <2> HIDE DEF a
  <2> QED
    BY <2>1, <2>3, <2>4, <2>5, FromArea
<1>4. CASE area.next = <<>> /\ area.rest = <<>>
  <2>1. PICK b \in Seq(TextChar) : b = m_read_text(BufSize).b /\ Len(b) <= BufSize
    BY Size, ReadIs
  <2> DEFINE a == Area(<<>>, b, <<>>, FALSE)
  <2>2. fpos' = m_read_text(BufSize).pos
    BY <1>4 DEF Sbumpc
  <2>3. Left(area) \o b = b
    <3>1. Left(area) = <<>>
      BY <1>4, Empty DEF Left
    <3> QED
      BY <2>1, <3>1, Empties0
  <2>4. CASE b = <<>>
    <3>1. Deliver(<<>>, NoArea)
      BY <1>4, <2>1, <2>4 DEF Sbumpc
    <3>2. Left(area) \o b = <<>> \o Left(NoArea)
      BY <2>3, <2>4, NoAreaOK, Empty
    <3> QED
      BY <2>1, <2>2, <3>1, <3>2, NoAreaOK, Empty, Size, FromFile
  <2>5. CASE b # <<>>
    <3>1. Deliver(<<Head(b)>>, Consumed(a))
      BY <1>4, <2>1, <2>5 DEF Sbumpc
    <3>2. AreaOK(a) /\ Left(a) = b \o <<>> /\ a.next = b
      <4>1. MayBeArea(<<>>, b, <<>>, FALSE)
        BY <2>1, Empty, Size DEF MayBeArea
      <4>2. AreaOK(a) /\ Left(a) = b \o <<>>
        BY <4>1, AreaIs
      <4>3. a.next = b
        BY DEF Area
      <4> QED
        BY <4>2, <4>3, Zenon
    <3>3. AreaOK(Consumed(a)) /\ Left(a) = <<Head(b)>> \o Left(Consumed(a))
      <4> HIDE DEF a
      <4> QED
        BY <2>5, <3>2, ConsumedOK
    <3>4. <<Head(b)>> \in Seq(TextChar)
      BY <2>1, <2>5, HeadTail
    <3>5. Left(area) \o b = <<Head(b)>> \o Left(Consumed(a))
      BY <2>1, <2>3, <3>2, <3>3, Empties0
    <3> HIDE DEF a
    <3> QED
      BY <2>1, <2>2, <3>1, <3>3, <3>4, <3>5, Size, FromFile
  <2> QED
    BY <2>4, <2>5
<1> QED
  BY <1>2, <1>3, <1>4

LEMMA FromJoin ==
    ASSUME NEW a \in Seq(TextChar), NEW b \in Seq(TextChar), NEW k \in Nat
    PROVE  From(a \o b, Len(a) + k) = From(b, k)
<1>1. PICK s \in Seq(TextChar) : s = a \o b
  BY Joined
<1>2. Len(s) = Len(a) + Len(b) /\ Len(a) \in Nat /\ Len(b) \in Nat /\ Len(a) \in 0 .. Len(s)
  BY <1>1, Joined
<1>3. From(s, Len(a)) = b
  BY <1>1, CutJoin
<1>4. CASE k <= Len(b)
  <2>1. PICK c \in Seq(TextChar) : c = Firsts(b, k)
    BY Cut
  <2>2. PICK d \in Seq(TextChar) : d = From(b, k)
    BY Cut
  <2>3. b = c \o d
    BY <2>1, <2>2, Cut
  <2>4. Len(c) = k
    BY <1>4, <2>1, Cut
  <2>5. FromIs(s, Len(a) + Len(c), d)
    BY <1>1, <1>2, <1>3, <2>1, <2>2, <2>3, FromNext
  <2> QED
    BY <1>1, <2>2, <2>4, <2>5 DEF FromIs
<1>5. CASE k >= Len(b)
  <2>1. From(b, k) = <<>>
    BY <1>5, Cut
  <2>2. Len(a) + k >= Len(s) /\ Len(a) + k \in Nat
    BY <1>2, <1>5
  <2>3. From(s, Len(a) + k) = <<>>
    BY <1>1, <2>2, Cut
  <2> QED
    BY <1>1, <2>1, <2>3
<1> QED
  BY <1>2, <1>4, <1>5

CutIs(s, n, a, b) == a = Firsts(s, n) /\ b = From(s, n) /\ s = a \o b /\ Len(a) + Len(b) = Len(s)

LEMMA Cuts ==
    \A s \in Seq(TextChar), n \in Nat : \E a, b \in Seq(TextChar) : CutIs(s, n, a, b)
<1> SUFFICES ASSUME NEW s \in Seq(TextChar), NEW n \in Nat
             PROVE  \E a, b \in Seq(TextChar) : CutIs(s, n, a, b)
  OBVIOUS
<1>1. PICK a \in Seq(TextChar) : a = Firsts(s, n)
  BY Cut
<1>2. PICK b \in Seq(TextChar) : b = From(s, n)
  BY Cut
<1>3. s = a \o b
  BY <1>1, <1>2, Cut
<1>4. Len(a \o b) = Len(a) + Len(b)
  BY <1>1, <1>2, Joined
<1> QED
  BY <1>1, <1>2, <1>3, <1>4 DEF CutIs

(* The get area is r, of which k characters have been passed.              *)
LEMMA AreaCut ==
    ASSUME NEW r \in Seq(TextChar), NEW k \in Nat, Len(r) <= BufSize
    PROVE  /\ AreaOK(Area(Firsts(r, k), From(r, k), <<>>, FALSE))
           /\ Left(Area(Firsts(r, k), From(r, k), <<>>, FALSE)) = From(r, k)
<1>1. PICK a, b \in Seq(TextChar) : CutIs(r, k, a, b)
  BY Cuts
<1>2. MayBeArea(a, b, <<>>, FALSE)
  BY <1>1, Empty, Size DEF CutIs, MayBeArea
<1>3. AreaOK(Area(a, b, <<>>, FALSE)) /\ Left(Area(a, b, <<>>, FALSE)) = b \o <<>>
  BY <1>2, AreaIs
<1>4. b \o <<>> = b
  BY <1>1, Empties0
<1> QED
  BY <1>1, <1>3, <1>4, Zenon DEF CutIs

LEMMA SgetnOK ==
    ASSUME TextInv, NEW n \in Nat \ {0}, Sgetn(n)
    PROVE  TextInv'
<1>0. AreaOK(area)
  BY DEF TextInv
<1>1. /\ area.before \in Seq(TextChar) /\ area.next \in Seq(TextChar) /\ area.rest \in Seq(TextChar)
      /\ area.pb \in BOOLEAN /\ (~area.pb => area.rest = <<>>)
      /\ (area.pb => Len(area.before) + Len(area.next) = 1)
      /\ Len(area.before) + Len(area.next) <= BufSize /\ Len(area.rest) <= BufSize
  BY <1>0 DEF AreaOK
<1>2. Len(area.before) \in Nat /\ Len(area.next) \in Nat /\ Len(area.rest) \in Nat
  BY <1>1
<1>3. PICK l \in Seq(TextChar) : l = Left(area) /\ l = Unread
  BY <1>0, LeftIn DEF Left, Unread
<1>4. PICK have, more \in Seq(TextChar) : CutIs(l, n, have, more)
  BY <1>3, Cuts
<1>5. l = have \o more /\ have = Firsts(l, n) /\ more = From(l, n)
  BY <1>4 DEF CutIs
<1>6. PICK left : left = n - Len(have)
  OBVIOUS
<1>7. Len(have) \in Nat
  BY <1>4
<1>8. CASE left = 0 /\ area.pb
  <2>1. PICK k : k = n - Len(area.next)
    OBVIOUS
  <2>2. k \in Nat /\ Len(area.next) + k = n
    <3>1. Len(area.before) + Len(area.next) = 1
      BY <1>1, <1>8
    <3>2. \A p, q \in Nat : p + q = 1 => n - q \in Nat /\ q + (n - q) = n
      OBVIOUS
    <3> QED
      BY <1>2, <2>1, <3>1, <3>2
  <2> DEFINE to == Area(Firsts(area.rest, k), From(area.rest, k), <<>>, FALSE)
  <2>3. Deliver(have, to) /\ UNCHANGED fpos
    BY <1>3, <1>5, <1>6, <1>8, <2>1 DEF Sgetn
  <2>4. AreaOK(to) /\ Left(to) = From(area.rest, k)
    BY <1>1, <2>2, AreaCut
  <2>5. more = From(area.rest, k)
    <3>1. From(area.next \o area.rest, Len(area.next) + k) = From(area.rest, k)
      BY <1>1, <2>2, FromJoin
    <3> QED
      BY <1>3, <1>5, <2>2, <3>1 DEF Left
  <2> HIDE DEF to
  <2> QED
    BY <1>3, <1>4, <1>5, <2>3, <2>4, <2>5, FromArea
<1>9. CASE left = 0 /\ ~area.pb
  <2>1. PICK all \in Seq(TextChar) : all = area.before \o area.next
    BY <1>1, Joined
  <2>2. PICK k \in Nat : k = Len(area.before) + n
    BY <1>2
  <2>3. Len(all) <= BufSize
    <3>1. Len(area.before \o area.next) = Len(area.before) + Len(area.next)
      BY <1>1, Joined
    <3> QED
      BY <1>1, <2>1, <3>1
  <2> DEFINE to == Area(Firsts(all, k), From(all, k), <<>>, FALSE)
  <2>4. Deliver(have, to) /\ UNCHANGED fpos
    BY <1>3, <1>5, <1>6, <1>9, <2>1, <2>2 DEF Sgetn
  <2>5. AreaOK(to) /\ Left(to) = From(all, k)
    BY <2>1, <2>2, <2>3, AreaCut
  <2>6. l = area.next
    BY <1>1, <1>3, <1>9, Empties0 DEF Left
  <2>7. more = From(all, k)
    <3>1. From(area.before \o area.next, Len(area.before) + n) = From(area.next, n)
      BY <1>1, FromJoin
    <3> QED
      BY <1>5, <2>1, <2>2, <2>6, <3>1
  <2> HIDE DEF to
  <2> QED
    BY <1>3, <1>4, <1>5, <2>4, <2>5, <2>7, FromArea
<1>10. CASE left # 0
  <2>1. have = l
    <3>1. CASE n <= Len(l)
      <4>1. Len(Firsts(l, n)) = n
        BY <1>3, <3>1, Cut
      <4>2. left = 0
        BY <1>5, <1>6, <4>1
      <4> QED
        BY <1>10, <4>2
    <3>2. CASE n >= Len(l)
      BY <1>3, <1>5, <3>2, Cut
    <3>3. Len(l) \in Nat
      BY <1>3
    <3> QED
      BY <3>1, <3>2, <3>3
  <2>2. left \in Nat
    <3>1. CASE n <= Len(l)
      <4>1. Len(Firsts(l, n)) = n
        BY <1>3, <3>1, Cut
      <4> QED
        BY <1>5, <1>6, <4>1
    <3>2. CASE n > Len(l)
      BY <1>6, <1>7, <2>1, <3>2
    <3>3. Len(l) \in Nat
      BY <1>3
    <3> QED
      BY <3>1, <3>2, <3>3
  <2>3. PICK size \in Nat : size = IF left < BufSize THEN BufSize ELSE left
    BY <2>2, Size
  <2>4. PICK b \in Seq(TextChar) : b = m_read_text(size).b /\ Len(b) <= size
    BY <2>3, ReadIs
  <2>5. fpos' = m_read_text(size).pos
    BY <1>3, <1>5, <1>6, <1>10, <2>3 DEF Sgetn
  <2>6. CASE left < BufSize
    <3>1. PICK p, q \in Seq(TextChar) : CutIs(b, left, p, q)
      BY <2>2, <2>4, Cuts
    <3>2. p = Firsts(b, left) /\ q = From(b, left) /\ b = p \o q
      BY <3>1 DEF CutIs
    <3> DEFINE to == Area(Firsts(b, left), From(b, left), <<>>, FALSE)
    <3>3. Deliver(l \o p, to)
      BY <1>3, <1>5, <1>6, <1>10, <2>1, <2>3, <2>4, <2>6, <3>2 DEF Sgetn
    <3>4. Len(b) <= BufSize
      BY <2>3, <2>4, <2>6
    <3>5. AreaOK(to) /\ Left(to) = q
      BY <2>2, <2>4, <3>2, <3>4, AreaCut
    <3>6. l \o b = (l \o p) \o q
      <4>1. Assoc(l, p, q)
        BY <1>3, <3>1, Assocs
      <4> QED
        BY <3>2, <4>1 DEF Assoc
    <3>7. l \o p \in Seq(TextChar)
      BY <1>3, <3>1, Joined
    <3> HIDE DEF to
    <3> QED
      BY <1>3, <2>3, <2>4, <2>5, <3>3, <3>5, <3>6, <3>7, FromFile
  <2>7. CASE ~(left < BufSize)
    <3>1. Deliver(l \o b, NoArea)
      BY <1>3, <1>5, <1>6, <1>10, <2>1, <2>3, <2>4, <2>7 DEF Sgetn
    <3>2. l \o b \in Seq(TextChar)
      BY <1>3, <2>4, Joined
    <3>3. l \o b = (l \o b) \o Left(NoArea)
      BY <3>2, NoAreaOK, Empties0
    <3> QED
      BY <1>3, <2>3, <2>4, <2>5, <3>1, <3>2, <3>3, NoAreaOK, FromFile
  <2> QED
    BY <2>6, <2>7
<1> QED
  BY <1>1, <1>8, <1>9, <1>10

LEMMA PutBackOK == TextInv /\ PutBack => TextInv'
<1> SUFFICES ASSUME TextInv, PutBack PROVE TextInv'
  OBVIOUS
<1>1. PICK u \in Seq(TextChar) : InStep(u)
  BY DEF TextInv
<1>2. /\ bytes \in Seq(TextChar) /\ \E t \in Seq(TextChar) : bytes = Crlf(t)
      /\ AreaOK(area) /\ got \in Seq(TextChar)
  BY DEF TextInv
<1>3. /\ area.before \in Seq(TextChar) /\ area.next \in Seq(TextChar) /\ area.rest \in Seq(TextChar)
      /\ area.pb \in BOOLEAN /\ (~area.pb => area.rest = <<>>)
      /\ (area.pb => Len(area.before) + Len(area.next) = 1)
      /\ Len(area.before) + Len(area.next) <= BufSize /\ Len(area.rest) <= BufSize
  BY <1>2 DEF AreaOK
<1>4. got # <<>> /\ bytes' = bytes /\ fpos' = fpos /\ base' = base
  BY DEF PutBack
<1>5. PICK g \in Seq(TextChar), c \in TextChar : got = Append(g, c)
  BY <1>2, <1>4, LastOf
<1>6. got = g \o <<c>> /\ <<c>> \in Seq(TextChar)
  BY <1>5, Singles
<1>7. Len(got) = Len(g) + 1 /\ got[Len(got)] = c /\ Len(g) \in Nat
  <2>1. Len(Append(g, c)) = Len(g) + 1 /\ Append(g, c)[Len(g) + 1] = c
    OBVIOUS
  <2> QED
    BY <1>5, <2>1
<1>8. got' = g
  <2>1. Firsts(g \o <<c>>, Len(g)) = g
    BY <1>6, CutJoin
  <2>2. Len(got) - 1 = Len(g)
    BY <1>7
  <2>3. got' = Firsts(got, Len(got) - 1)
    BY DEF PutBack
  <2> QED
    BY <1>6, <2>1, <2>2, <2>3
<1>9. PICK l \in Seq(TextChar) : l = Left(area)
  BY <1>2, LeftIn
<1>10. PICK x \in Seq(TextChar) : x = <<c>> \o area.next
  BY <1>3, <1>6, Joined
<1>11. Len(x) = Len(area.next) + 1 /\ Len(area.next) \in Nat
  <2>1. Len(<<c>> \o area.next) = Len(<<c>>) + Len(area.next)
    BY <1>3, <1>6, Joined
  <2>2. Len(<<c>>) = 1 /\ Len(area.next) \in Nat
    BY <1>3
  <2> QED
    BY <1>10, <2>1, <2>2
<1>12. AreaOK(area') /\ Left(area') = <<c>> \o l
  <2>1. CASE Len(area.before) > 0
    <3>1. Len(area.before) \in Nat /\ Len(area.before) - 1 \in Nat
      BY <1>3, <2>1
    <3>2. PICK k \in Nat : k = Len(area.before) - 1
      BY <3>1
    <3>3. PICK b \in Seq(TextChar) : b = Firsts(area.before, k)
      BY <1>3, <3>2, Cut
    <3>4. Len(b) = k
      <4>1. k <= Len(area.before)
        BY <3>1, <3>2
      <4>2. k <= Len(area.before) => Len(Firsts(area.before, k)) = k
        BY <1>3, <3>2, Cut
      <4> QED
        BY <3>3, <4>1, <4>2, Zenon
    <3>5. area' = Area(b, x, area.rest, area.pb)
      BY <1>7, <1>10, <2>1, <3>2, <3>3 DEF PutBack
    <3>6. Len(b) + Len(x) = Len(area.before) + Len(area.next)
      <4>1. \A m, n \in Nat : (m - 1) + (n + 1) = m + n
        OBVIOUS
      <4>2. (Len(area.before) - 1) + (Len(area.next) + 1) = Len(area.before) + Len(area.next)
        BY <1>11, <3>1, <4>1
      <4>3. Len(b) = Len(area.before) - 1 /\ Len(x) = Len(area.next) + 1
        BY <1>11, <3>2, <3>4, Zenon
      <4> QED
        BY <4>2, <4>3, Zenon
    <3>7. MayBeArea(b, x, area.rest, area.pb)
      BY <1>3, <3>6, Zenon DEF MayBeArea
    <3>8. AreaOK(Area(b, x, area.rest, area.pb)) /\ Left(Area(b, x, area.rest, area.pb)) = x \o area.rest
      BY <3>7, AreaIs
    <3>9. x \o area.rest = <<c>> \o l
      <4>1. Assoc(<<c>>, area.next, area.rest)
        BY <1>3, <1>6, Assocs
      <4> QED
        BY <1>9, <1>10, <4>1 DEF Assoc, Left
    <3> QED
      BY <3>5, <3>8, <3>9
  <2>2. CASE ~(Len(area.before) > 0)
    <3>1. ~area.pb /\ area' = Area(<<>>, <<c>>, area.next, TRUE)
      BY <1>7, <2>2 DEF PutBack
    <3>2. Len(area.next) <= BufSize
      <4>1. Len(area.before) \in Nat
        BY <1>3
      <4>2. \A m, n, o \in Nat : m + n <= o => n <= o
        OBVIOUS
      <4> QED
        BY <1>3, <1>11, <4>1, <4>2, Size
    <3>3. Len(<<c>>) = 1 /\ 0 + 1 = 1
      OBVIOUS
    <3>4. MayBeArea(<<>>, <<c>>, area.next, TRUE)
      BY <1>3, <1>6, <3>2, <3>3, Empty, Size DEF MayBeArea
    <3>5. AreaOK(Area(<<>>, <<c>>, area.next, TRUE)) /\ Left(Area(<<>>, <<c>>, area.next, TRUE)) = <<c>> \o area.next
      BY <3>4, AreaIs
    <3>6. l = area.next
      BY <1>3, <1>9, <3>1, Empties0 DEF Left
    <3> QED
      BY <3>1, <3>5, <3>6
  <2> QED
    BY <2>1, <2>2
<1>13. got \o l = g \o (<<c>> \o l)
  <2>1. Assoc(g, <<c>>, l)
    BY <1>6, <1>9, Assocs
  <2> QED
    BY <1>6, <2>1 DEF Assoc
<1>14. InStep(u)'
  <2>1. At(bytes, fpos, u) /\ At(bytes, base, (got \o l) \o u)
    BY <1>1, <1>9 DEF InStep
  <2>2. At(bytes, base, (g \o (<<c>> \o l)) \o u)
    BY <1>13, <2>1
  <2>3. At(bytes', fpos', u) /\ At(bytes', base', (got' \o Left(area')) \o u)
    BY <1>4, <1>8, <1>12, <2>1, <2>2
  <2> QED
    BY <2>3 DEF InStep, At, Left
<1> QED
  BY <1>2, <1>4, <1>8, <1>12, <1>14 DEF TextInv, AreaOK

(* m_flush_text() goes back to where what was not read begins.             *)
LEMMA FlushBack ==
    ASSUME NEW f \in Seq(TextChar), NEW l \in Seq(TextChar), NEW u \in Seq(TextChar),
           NEW g \in Seq(TextChar), NEW b \in 0 .. Len(f), NEW p \in 0 .. Len(f),
           At(f, p, u), At(f, b, (g \o l) \o u)
    PROVE  /\ p - Len(l) - Count(NL, l) \in Nat
           /\ At(f, p - Len(l) - Count(NL, l), l \o u)
<1>1. PICK cg \in Seq(TextChar) : cg = Crlf(g)
  BY CrlfIn
<1>2. PICK cl \in Seq(TextChar) : cl = Crlf(l)
  BY CrlfIn
<1>3. PICK cu \in Seq(TextChar) : cu = Crlf(u)
  BY CrlfIn
<1>4. PICK x \in Seq(TextChar) : x = cl \o cu
  BY <1>2, <1>3, Joined
<1>5. x = Crlf(l \o u)
  BY <1>2, <1>3, <1>4, CrlfJoin
<1>6. From(f, b) = cg \o x
  <2>1. (g \o l) \o u = g \o (l \o u) /\ l \o u \in Seq(TextChar)
    <3>1. Assoc(g, l, u)
      BY Assocs
    <3> QED
      BY <3>1, Joined DEF Assoc
  <2>2. Crlf(g \o (l \o u)) = cg \o x
    BY <1>1, <1>5, <2>1, CrlfJoin
  <2>3. From(f, b) = Crlf((g \o l) \o u)
    BY DEF At
  <2> QED
    BY <2>1, <2>2, <2>3
<1>7. b + Len(cg) \in 0 .. Len(f) /\ From(f, b + Len(cg)) = x
  <2>1. FromIs(f, b + Len(cg), x)
    BY <1>1, <1>4, <1>6, FromNext
  <2> QED
    BY <2>1, Zenon DEF FromIs
<1>8. PICK q \in 0 .. Len(f) : q = b + Len(cg) /\ From(f, q) = x
  BY <1>7, Zenon
<1>0. Len(f) \in Nat
  OBVIOUS
<1>9. q + Len(cl) \in 0 .. Len(f) /\ From(f, q + Len(cl)) = cu
  <2>1. FromIs(f, q + Len(cl), cu)
    BY <1>2, <1>3, <1>4, <1>8, FromNext
  <2> QED
    BY <2>1, Zenon DEF FromIs
<1>10. \A k \in 0 .. Len(f) : Len(From(f, k)) = Len(f) - k
  <2> SUFFICES ASSUME NEW k \in 0 .. Len(f) PROVE Len(From(f, k)) = Len(f) - k
    OBVIOUS
  <2>0. k \in Nat /\ k <= Len(f)
    BY <1>0
  <2>1. PICK c, d \in Seq(TextChar) : CutIs(f, k, c, d)
    BY <2>0, Cuts
  <2>2. Len(c) = k
    <3>1. c = Firsts(f, k)
      BY <2>1, Zenon DEF CutIs
    <3>2. k <= Len(f) => Len(Firsts(f, k)) = k
      BY <2>0, Cut
    <3> QED
      BY <2>0, <3>1, <3>2, Zenon
  <2>3. k + Len(d) = Len(f) /\ Len(d) \in Nat
    <3>1. Len(c) + Len(d) = Len(f)
      BY <2>1, Zenon DEF CutIs
    <3>2. Len(d) \in Nat
      BY <2>1
    <3> QED
      BY <2>2, <3>1, <3>2, Zenon
  <2>4. d = From(f, k)
    BY <2>1 DEF CutIs
  <2>5. Len(d) = Len(f) - k
    <3>1. \A m, n, o \in Nat : m + n = o => n = o - m
      OBVIOUS
    <3> QED
      BY <1>0, <2>0, <2>3, <3>1
  <2> QED
    BY <2>4, <2>5
<1>11. p = q + Len(cl)
  <2>1. From(f, p) = cu /\ p \in 0 .. Len(f)
    BY <1>3 DEF At
  <2>2. PICK r \in 0 .. Len(f) : r = q + Len(cl) /\ From(f, r) = cu
    BY <1>9, Zenon
  <2>3. Len(f) - p = Len(f) - r
    BY <1>10, <2>1, <2>2
  <2>4. p \in Nat /\ r \in Nat
    BY <1>0, <2>1, <2>2
  <2>5. \A m, n, o \in Nat : o - m = o - n => m = n
    OBVIOUS
  <2>6. p = r
    BY <1>0, <2>3, <2>4, <2>5
  <2> QED
    BY <2>2, <2>6
<1>12. Len(cl) = Len(l) + Count(NL, l) /\ Len(l) \in Nat /\ Count(NL, l) \in Nat
  <2>1. Len(cl) = Len(l) + Count(NL, l)
    BY <1>2, CrlfLen, Zenon
  <2>2. Len(l) \in Nat
    OBVIOUS
  <2>3. Count(NL, l) \in Nat
    BY CountIs, Zenon
  <2> QED
    BY <2>1, <2>2, <2>3, Zenon
<1>13. p - Len(l) - Count(NL, l) = q
  <2>1. q \in Nat
    BY <1>0, <1>8
  <2>2. \A m, n, o \in Nat : (m + (n + o)) - n - o = m
    OBVIOUS
  <2>3. p = q + (Len(l) + Count(NL, l))
    BY <1>11, <1>12, Zenon
  <2>4. (q + (Len(l) + Count(NL, l))) - Len(l) - Count(NL, l) = q
    BY <1>12, <2>1, <2>2, Zenon
  <2> QED
    BY <2>3, <2>4, Zenon
<1> QED
  BY <1>5, <1>8, <1>13 DEF At

LEMMA SyncOK == TextInv /\ Sync => TextInv'
<1> SUFFICES ASSUME TextInv, Sync PROVE TextInv'
  OBVIOUS
<1>1. PICK u \in Seq(TextChar) : InStep(u)
  BY DEF TextInv
<1>2. /\ bytes \in Seq(TextChar) /\ \E t \in Seq(TextChar) : bytes = Crlf(t)
      /\ AreaOK(area) /\ got \in Seq(TextChar)
  BY DEF TextInv
<1>3. /\ fpos' = IF Unread # <<>> THEN m_flush_text(bytes, fpos) ELSE fpos
      /\ area' = NoArea /\ bytes' = bytes /\ base' = base /\ got' = got
  BY DEF Sync
<1>4. PICK l \in Seq(TextChar) : l = Left(area) /\ l = Unread
  BY <1>2, LeftIn DEF Left, Unread
<1>5. At(bytes, fpos, u) /\ At(bytes, base, (got \o l) \o u)
  BY <1>1, <1>4 DEF InStep
<1>6. PICK w \in Seq(TextChar) : w = l \o u
  BY <1>1, <1>4, Joined
<1>7. At(bytes', fpos', w)
  <2>1. CASE l # <<>>
    <3>1. PICK to : to = fpos - Len(l) - Count(NL, l)
      OBVIOUS
    <3>2. fpos \in 0 .. Len(bytes) /\ base \in 0 .. Len(bytes)
      BY <1>5 DEF At
    <3>3. to \in Nat /\ At(bytes, to, w)
      BY <1>1, <1>2, <1>4, <1>5, <1>6, <3>1, <3>2, FlushBack
    <3>4. fpos' = to
      BY <1>3, <1>4, <2>1, <3>1, <3>3 DEF m_flush_text
    <3> QED
      BY <1>3, <3>3, <3>4
  <2>2. CASE l = <<>>
    <3>1. w = u
      BY <1>6, <2>2, Empties0
    <3> QED
      BY <1>3, <1>4, <1>5, <2>2, <3>1
  <2> QED
    BY <2>1, <2>2
<1>8. (got \o Left(NoArea)) \o w = (got \o l) \o u
  <2>1. got \o Left(NoArea) = got
    BY <1>2, NoAreaOK, Empties0
  <2>2. Assoc(got, l, u)
    BY <1>1, <1>2, <1>4, Assocs
  <2> QED
    BY <1>6, <2>1, <2>2 DEF Assoc
<1>9. At(bytes', base', (got' \o Left(area')) \o w)
  BY <1>3, <1>5, <1>8
<1>10. InStep(w)'
  BY <1>7, <1>9 DEF InStep, At, Left
<1>11. AreaOK(area)'
  BY <1>3, NoAreaOK DEF AreaOK
<1> QED
  BY <1>2, <1>3, <1>6, <1>10, <1>11 DEF TextInv

(* At place p of a file of lines, nothing has been read since.             *)
LEMMA Afresh ==
    ASSUME NEW t \in Seq(TextChar), bytes' = Crlf(t), NEW u \in Seq(TextChar), At(bytes', fpos', u),
           base' = fpos', got' = <<>>, area' = NoArea
    PROVE  TextInv'
<1>1. bytes' \in Seq(TextChar)
  BY CrlfIn
<1>2. (<<>> \o Left(NoArea)) \o u = u
  BY NoAreaOK, Empty, Empties0
<1>3. At(bytes', base', (got' \o Left(area')) \o u)
  BY <1>2
<1>4. InStep(u)'
  BY <1>3 DEF InStep, At, Left
<1>5. AreaOK(area)' /\ got' \in Seq(TextChar)
  BY NoAreaOK, Empty DEF AreaOK
<1> QED
  BY <1>1, <1>4, <1>5 DEF TextInv

LEMMA AtStart == \A f \in Seq(TextChar), t \in Seq(TextChar) : f = Crlf(t) => At(f, 0, t)
<1> SUFFICES ASSUME NEW f \in Seq(TextChar), NEW t \in Seq(TextChar), f = Crlf(t) PROVE At(f, 0, t)
  OBVIOUS
<1>1. From(f, 0) = f
  BY FromAll
<1>2. 0 \in 0 .. Len(f)
  OBVIOUS
<1> QED
  BY <1>1, <1>2 DEF At

LEMMA SeekStartOK == TextInv /\ SeekStart => TextInv'
<1> SUFFICES ASSUME TextInv, SeekStart PROVE TextInv'
  OBVIOUS
<1>1. PICK t \in Seq(TextChar) : bytes = Crlf(t)
  BY DEF TextInv
<1>2. bytes' = bytes /\ fpos' = 0 /\ base' = 0 /\ got' = <<>> /\ area' = NoArea
  BY DEF SeekStart
<1>3. At(bytes, 0, t)
  BY <1>1, AtStart DEF TextInv
<1> QED
  BY <1>1, <1>2, <1>3, Afresh

LEMMA TextInitInv == TextInit => TextInv
<1> SUFFICES ASSUME TextInit PROVE TextInv
  OBVIOUS
<1>1. bytes \in TextFiles /\ fpos = 0 /\ base = 0 /\ area = NoArea /\ got = <<>>
  BY DEF TextInit
<1>2. bytes \in Seq(TextChar) /\ InLines(bytes)
  BY <1>1, TextModeAssumption
<1>3. PICK t \in Seq(TextChar) : bytes = Crlf(t)
  BY <1>2, OfLines
<1>4. At(bytes, 0, t)
  BY <1>2, <1>3, AtStart
<1>5. (<<>> \o Left(NoArea)) \o t = t
  BY <1>3, NoAreaOK, Empty, Empties0
<1>6. At(bytes, base, (got \o Left(area)) \o t)
  BY <1>1, <1>4, <1>5
<1>7. InStep(t)
  BY <1>1, <1>4, <1>6 DEF InStep
<1> QED
  BY <1>1, <1>2, <1>3, <1>7, NoAreaOK, Empty DEF TextInv

-----------------------------------------------------------------------------
(* The characters that the bytes a are, or have begun to be.               *)
Chars(a) == Len(a) - Count(NL, a)

LEMMA CountJoin ==
    \A c, a : a \in Seq(TextChar) => \A b \in Seq(TextChar) : Count(c, a \o b) = Count(c, a) + Count(c, b)
<1> SUFFICES ASSUME NEW c, NEW a \in Seq(TextChar)
             PROVE  \A b \in Seq(TextChar) : Count(c, a \o b) = Count(c, a) + Count(c, b)
  OBVIOUS
<1> DEFINE Q == {b \in Seq(TextChar) : Count(c, a \o b) = Count(c, a) + Count(c, b)}
<1>1. <<>> \in Q
  <2>1. a \o <<>> = a /\ <<>> \in Seq(TextChar)
    BY Empty, Empties0
  <2>2. Count(c, <<>>) = 0 /\ Count(c, a) \in Nat
    BY CountIs, Zenon
  <2>3. \A n \in Nat : n = n + 0
    OBVIOUS
  <2>4. Count(c, a \o <<>>) = Count(c, a) + Count(c, <<>>)
    BY <2>1, <2>2, <2>3, Zenon
  <2> QED
    BY <2>1, <2>4, Zenon
<1>2. \A b \in Seq(TextChar), d \in TextChar : b \in Q => Append(b, d) \in Q
  <2> SUFFICES ASSUME NEW b \in Seq(TextChar), NEW d \in TextChar, b \in Q
               PROVE  Append(b, d) \in Q
    OBVIOUS
  <2>1. PICK w \in Seq(TextChar) : w = Append(b, d)
    BY Singles, Joined
  <2>2. PICK x \in Seq(TextChar) : x = a \o b
    BY Joined
  <2>3. a \o w = Append(x, d)
    <3>1. w = b \o <<d>> /\ Append(x, d) = x \o <<d>> /\ <<d>> \in Seq(TextChar)
      BY <2>1, <2>2, Singles
    <3>2. Assoc(a, b, <<d>>)
      BY <3>1, Assocs
    <3> QED
      BY <2>2, <3>1, <3>2 DEF Assoc
  <2>4. PICK k \in Nat : k = IF d = c THEN 1 ELSE 0
    OBVIOUS
  <2>5. Count(c, a \o w) = Count(c, x) + k /\ Count(c, w) = Count(c, b) + k
    <3>1. Count(c, Append(x, d)) = Count(c, x) + (IF d = c THEN 1 ELSE 0)
      BY <2>2, CountIs, Zenon
    <3>2. Count(c, Append(b, d)) = Count(c, b) + (IF d = c THEN 1 ELSE 0)
      BY CountIs, Zenon
    <3> QED
      BY <2>1, <2>3, <2>4, <3>1, <3>2, Zenon
  <2>6. Count(c, x) = Count(c, a) + Count(c, b)
    BY <2>2, Zenon
  <2>7. PICK m \in Nat : m = Count(c, a)
    BY CountIs, Zenon
  <2>8. PICK n \in Nat : n = Count(c, b)
    BY CountIs, Zenon
  <2>9. Count(c, a \o w) = Count(c, a) + Count(c, w)
    <3>1. (m + n) + k = m + (n + k)
      BY <2>4, <2>7, <2>8
    <3>2. Count(c, a \o w) = (m + n) + k /\ Count(c, w) = n + k
      BY <2>5, <2>6, <2>7, <2>8, Zenon
    <3> QED
      BY <2>7, <3>1, <3>2, Zenon
  <2> QED
    BY <2>1, <2>9, Zenon
<1> HIDE DEF Q
<1>3. \A b \in Seq(TextChar) : b \in Q
  BY <1>1, <1>2, SeqUp
<1> QED
  BY <1>3, Zenon DEF Q

LEMMA CharsIs ==
    /\ Chars(<<>>) = 0
    /\ \A a \in Seq(TextChar) : Chars(a) \in Int
    /\ \A a, b \in Seq(TextChar) : Chars(a \o b) = Chars(a) + Chars(b)
<1>1. Chars(<<>>) = 0
  <2>1. Count(NL, <<>>) = 0 /\ Len(<<>>) = 0
    BY CountIs
  <2>2. 0 - 0 = 0
    OBVIOUS
  <2> QED
    BY <2>1, <2>2, Zenon DEF Chars
<1>2. \A a \in Seq(TextChar) : Len(a) \in Nat /\ Count(NL, a) \in Nat
  <2>1. \A a \in Seq(TextChar) : Len(a) \in Nat
    OBVIOUS
  <2> QED
    BY <2>1, CountIs, Zenon
<1>3. \A a \in Seq(TextChar) : Chars(a) \in Int
  <2>1. \A m, n \in Nat : m - n \in Int
    OBVIOUS
  <2> QED
    BY <1>2, <2>1, Zenon DEF Chars
<1>4. \A a, b \in Seq(TextChar) : Chars(a \o b) = Chars(a) + Chars(b)
  <2> SUFFICES ASSUME NEW a \in Seq(TextChar), NEW b \in Seq(TextChar)
               PROVE  Chars(a \o b) = Chars(a) + Chars(b)
    OBVIOUS
  <2>1. Len(a \o b) = Len(a) + Len(b)
    BY Joined
  <2>2. Count(NL, a \o b) = Count(NL, a) + Count(NL, b)
    BY CountJoin, Zenon
  <2>3. PICK m, n \in Nat : m = Len(a) /\ n = Len(b)
    BY <1>2, Zenon
  <2>4. PICK o, p \in Nat : o = Count(NL, a) /\ p = Count(NL, b)
    BY <1>2, Zenon
  <2>5. (m + n) - (o + p) = (m - o) + (n - p)
    BY <2>3, <2>4
  <2>6. Chars(a \o b) = (m + n) - (o + p)
    BY <2>1, <2>2, <2>3, <2>4, Zenon DEF Chars
  <2>7. Chars(a) = m - o /\ Chars(b) = n - p
    BY <2>3, <2>4, Zenon DEF Chars
  <2> QED
    BY <2>5, <2>6, <2>7, Zenon
<1> QED
  BY <1>1, <1>3, <1>4

LEMMA CountNone == \A a \in Seq(TextChar) : Without(NL, a) => Count(NL, a) = 0
<1> SUFFICES ASSUME NEW a \in Seq(TextChar), Without(NL, a) PROVE Count(NL, a) = 0
  OBVIOUS
<1>1. {i \in DOMAIN a : a[i] = NL} = {}
  BY DEF Without
<1> QED
  BY <1>1, FS_EmptySet DEF Count

LEMMA CharsPlain == \A a \in Seq(TextChar) : Without(NL, a) => Chars(a) = Len(a)
<1>1. \A a \in Seq(TextChar) : Len(a) \in Nat
  OBVIOUS
<1>2. \A m \in Nat : m - 0 = m
  OBVIOUS
<1> QED
  BY <1>1, <1>2, CountNone, Zenon DEF Chars

LEMMA CharsOne == \A c \in TextChar : Chars(One(c)) = 1
<1> SUFFICES ASSUME NEW c \in TextChar PROVE Chars(One(c)) = 1
  OBVIOUS
<1>0. CR \in TextChar /\ NL \in TextChar /\ CR # NL
  BY TextChars
<1>1. \A d \in TextChar : Count(NL, <<d>>) = (IF d = NL THEN 1 ELSE 0)
  <2> SUFFICES ASSUME NEW d \in TextChar PROVE Count(NL, <<d>>) = (IF d = NL THEN 1 ELSE 0)
    OBVIOUS
  <2>1. <<d>> = Append(<<>>, d) /\ <<>> \in Seq(TextChar)
    OBVIOUS
  <2>2. Count(NL, Append(<<>>, d)) = Count(NL, <<>>) + (IF d = NL THEN 1 ELSE 0) /\ Count(NL, <<>>) = 0
    BY <2>1, CountIs, Zenon
  <2>3. 0 + 0 = 0 /\ 0 + 1 = 1
    OBVIOUS
  <2> QED
    BY <2>1, <2>2, <2>3
<1>2. CASE c # NL
  <2>1. One(c) = <<c>> /\ <<c>> \in Seq(TextChar) /\ Len(<<c>>) = 1
    BY <1>2, OneIs
  <2>2. Count(NL, <<c>>) = 0
    BY <1>1, <1>2
  <2>3. 1 - 0 = 1
    OBVIOUS
  <2> QED
    BY <2>1, <2>2, <2>3, Zenon DEF Chars
<1>3. CASE c = NL
  <2>1. One(c) = <<CR>> \o <<NL>> /\ One(c) = <<CR, NL>>
    BY <1>0, <1>3, OneIs, Pair
  <2>2. Count(NL, <<CR>> \o <<NL>>) = Count(NL, <<CR>>) + Count(NL, <<NL>>)
    <3>1. <<CR>> \in Seq(TextChar) /\ <<NL>> \in Seq(TextChar)
      BY <1>0
    <3> QED
      BY <3>1, CountJoin, Zenon
  <2>3. Count(NL, <<CR>>) = 0 /\ Count(NL, <<NL>>) = 1
    BY <1>0, <1>1
  <2>4. Len(<<CR, NL>>) = 2 /\ 2 - (0 + 1) = 1
    OBVIOUS
  <2> QED
    BY <2>1, <2>2, <2>3, <2>4, Zenon DEF Chars
<1> QED
  BY <1>2, <1>3

LEMMA CharsCrlf == \A t \in Seq(TextChar) : Chars(Crlf(t)) = Len(t)
<1> DEFINE Q == {t \in Seq(TextChar) : Chars(Crlf(t)) = Len(t)}
<1>1. <<>> \in Q
  BY CrlfEmpty, CharsIs, Empty
<1>2. \A t \in Seq(TextChar), c \in TextChar : t \in Q => Append(t, c) \in Q
  <2> SUFFICES ASSUME NEW t \in Seq(TextChar), NEW c \in TextChar, t \in Q
               PROVE  Append(t, c) \in Q
    OBVIOUS
  <2>1. PICK w \in Seq(TextChar) : w = Append(t, c) /\ Len(w) = Len(t) + 1
    <3>1. Append(t, c) \in Seq(TextChar) /\ Len(Append(t, c)) = Len(t) + 1
      OBVIOUS
    <3> QED
      BY <3>1, Zenon
  <2>2. Crlf(w) = Crlf(t) \o One(c) /\ Crlf(t) \in Seq(TextChar) /\ One(c) \in Seq(TextChar)
    BY <2>1, CrlfAppend, OneIs
  <2>3. Chars(Crlf(w)) = Chars(Crlf(t)) + 1
    BY <2>2, CharsIs, CharsOne, Zenon
  <2>4. Chars(Crlf(t)) = Len(t)
    OBVIOUS
  <2>5. Chars(Crlf(w)) = Len(w)
    BY <2>1, <2>3, <2>4, Zenon
  <2> QED
    BY <2>1, <2>5, Zenon
<1> HIDE DEF Q
<1>3. \A t \in Seq(TextChar) : t \in Q
  BY <1>1, <1>2, SeqUp
<1> QED
  BY <1>3, Zenon DEF Q

-----------------------------------------------------------------------------
(* The beginnings of a translated text.                                    *)
Joins(a, b, x) == a \o b = x

LEMMA Overlap ==
    ASSUME NEW a \in Seq(TextChar), NEW b \in Seq(TextChar), NEW x \in Seq(TextChar),
           NEW y \in Seq(TextChar), NEW z, Joins(a, b, z), Joins(x, y, z), Len(a) <= Len(x)
    PROVE  \E r \in Seq(TextChar) : Joins(a, r, x) /\ Joins(r, y, b)
<1>1. Len(a) \in Nat
  OBVIOUS
<1>2. PICK p, r \in Seq(TextChar) : CutIs(x, Len(a), p, r)
  BY <1>1, Cuts
<1>3. x = p \o r /\ p = Firsts(x, Len(a))
  BY <1>2, Zenon DEF CutIs
<1>4. Len(p) = Len(a)
  <2>1. Len(Firsts(x, Len(a))) = Len(a)
    BY <1>1, Cut
  <2> QED
    BY <1>3, <2>1, Zenon
<1>5. PICK e \in Seq(TextChar) : e = r \o y
  BY <1>2, Joined
<1>6. p \o e = a \o b
  <2>1. Assoc(p, r, y)
    BY <1>2, Assocs
  <2> QED
    BY <1>3, <1>5, <2>1, Zenon DEF Assoc, Joins
<1>7. p = a
  <2>1. Firsts(p \o e, Len(p)) = p
    BY <1>2, <1>5, CutJoin
  <2>2. Firsts(a \o b, Len(a)) = a
    BY CutJoin
  <2> QED
    BY <1>4, <1>6, <2>1, <2>2, Zenon
<1>8. e = b
  BY <1>5, <1>6, <1>7, Cancel
<1> QED
  BY <1>2, <1>3, <1>5, <1>7, <1>8, Zenon DEF Joins

(* a is n characters of the text s, or all but the '\n' of a line end.     *)
WholeOf(s, a) == \E v, q \in Seq(TextChar) : a = Crlf(v) /\ s = v \o q
HalfOf(s, a) == \E v, q \in Seq(TextChar) : a = Crlf(v) \o <<CR>> /\ s = v \o (<<NL>> \o q)
BeginningOf(s, a) == WholeOf(s, a) \/ HalfOf(s, a)

LEMMA Beginning ==
    \A s \in Seq(TextChar) : \A a, b \in Seq(TextChar) : Crlf(s) = a \o b => BeginningOf(s, a)
<1> DEFINE Q == {s \in Seq(TextChar) : \A a, b \in Seq(TextChar) : Crlf(s) = a \o b => BeginningOf(s, a)}
<1>0. CR \in TextChar /\ NL \in TextChar /\ <<CR>> \in Seq(TextChar) /\ <<NL>> \in Seq(TextChar)
  BY TextChars
<1>1. <<>> \in Q
  <2> SUFFICES ASSUME NEW a \in Seq(TextChar), NEW b \in Seq(TextChar), Crlf(<<>>) = a \o b
               PROVE  BeginningOf(<<>>, a)
    BY Empty
  <2>1. a \o b = <<>> \o <<>>
    BY CrlfEmpty, Empty
  <2>2. a = <<>>
    <3>1. Len(a \o b) = Len(a) + Len(b)
      BY Joined
    <3>2. Len(a) \in Nat /\ Len(b) \in Nat
      OBVIOUS
    <3>3. Len(a) = 0
      BY <2>1, <3>1, <3>2, Empty
    <3> QED
      BY <3>3
  <2> QED
    BY <2>2, Empty, CrlfEmpty DEF BeginningOf, WholeOf
<1>2. \A s \in Seq(TextChar), c \in TextChar : s \in Q => Append(s, c) \in Q
  <2> SUFFICES ASSUME NEW s \in Seq(TextChar), NEW c \in TextChar, s \in Q
               PROVE  Append(s, c) \in Q
    OBVIOUS
  <2>1. PICK w \in Seq(TextChar) : w = Append(s, c) /\ w = s \o <<c>>
    BY Singles, Joined
  <2>2. PICK x \in Seq(TextChar) : x = Crlf(s)
    BY CrlfIn
  <2>3. PICK o \in Seq(TextChar) : o = One(c)
    BY OneIs
  <2>4. Crlf(w) = x \o o
    BY <2>1, <2>2, <2>3, CrlfAppend
  <2>5. ASSUME NEW a \in Seq(TextChar), NEW b \in Seq(TextChar), Crlf(w) = a \o b
        PROVE  BeginningOf(w, a)
    <3>1. x \o o = a \o b
      BY <2>4, <2>5
    <3>2. CASE Len(a) <= Len(x)
      <4>1. PICK r \in Seq(TextChar) : Joins(a, r, x)
        <5>1. Joins(a, b, Crlf(w)) /\ Joins(x, o, Crlf(w))
          BY <2>4, <2>5, Zenon DEF Joins
        <5> QED
          BY <2>2, <2>3, <2>5, <3>2, <5>1, Overlap
      <4>2. BeginningOf(s, a)
        <5>1. Crlf(s) = a \o r
          BY <2>2, <4>1, Zenon DEF Joins
        <5> QED
          BY <4>1, <5>1
      <4>3. WholeOf(s, a) => WholeOf(w, a)
        <5> SUFFICES ASSUME NEW v \in Seq(TextChar), NEW q \in Seq(TextChar), a = Crlf(v), s = v \o q
                     PROVE  \E e \in Seq(TextChar) : a = Crlf(v) /\ w = v \o e
          BY DEF WholeOf
        <5>1. Assoc(v, q, <<c>>) /\ q \o <<c>> \in Seq(TextChar)
          BY Singles, Joined, Assocs
        <5> QED
          BY <2>1, <5>1, Zenon DEF Assoc
      <4>4. HalfOf(s, a) => HalfOf(w, a)
        <5> SUFFICES ASSUME NEW v \in Seq(TextChar), NEW q \in Seq(TextChar), a = Crlf(v) \o <<CR>>,
                            s = v \o (<<NL>> \o q)
                     PROVE  \E e \in Seq(TextChar) : a = Crlf(v) \o <<CR>> /\ w = v \o (<<NL>> \o e)
          BY DEF HalfOf
        <5>1. PICK l \in Seq(TextChar) : l = <<NL>> \o q
          BY <1>0, Joined
        <5>2. Assoc(v, l, <<c>>) /\ Assoc(<<NL>>, q, <<c>>) /\ q \o <<c>> \in Seq(TextChar)
          BY <1>0, <5>1, Singles, Joined, Assocs
        <5>3. w = v \o (<<NL>> \o (q \o <<c>>))
          BY <2>1, <5>1, <5>2, Zenon DEF Assoc
        <5> QED
          BY <5>2, <5>3, Zenon
      <4> QED
        BY <4>2, <4>3, <4>4, Zenon DEF BeginningOf
    <3>3. CASE ~(Len(a) <= Len(x))
      <4>1. Len(x) <= Len(a)
        <5>1. Len(x) \in Nat /\ Len(a) \in Nat
          OBVIOUS
        <5> QED
          BY <3>3, <5>1
      <4>2. PICK e \in Seq(TextChar) : a = x \o e /\ o = e \o b
        <5>1. Joins(a, b, Crlf(w)) /\ Joins(x, o, Crlf(w))
          BY <2>4, <2>5, Zenon DEF Joins
        <5>2. PICK e \in Seq(TextChar) : Joins(x, e, a) /\ Joins(e, b, o)
          BY <2>2, <2>3, <2>5, <4>1, <5>1, Overlap
        <5> QED
          BY <5>2, Zenon DEF Joins
      <4>3. e # <<>>
        <5>1. e = <<>> => a = x
          BY <4>2, Empties0
        <5> QED
          BY <4>1, <3>3, <5>1
      <4>4. CASE e = o
        <5>1. a = Crlf(w) /\ w = w \o <<>>
          BY <2>4, <4>2, <4>4, Empties0
        <5> QED
          BY <5>1, Empty, Zenon DEF BeginningOf, WholeOf
      <4>5. CASE e # o
        <5>1. PICK d \in TextChar, g \in Seq(TextChar) : e = <<d>> \o g
          BY <4>2, <4>3, FirstOf DEF Starts
        <5>2. PICK h \in Seq(TextChar) : h = g \o b
          BY <5>1, Joined
        <5>3. o = <<d>> \o h
          <6>1. <<d>> \in Seq(TextChar)
            BY <5>1
          <6>2. Assoc(<<d>>, g, b)
            BY <5>1, <6>1, Assocs
          <6> QED
            BY <4>2, <5>1, <5>2, <6>2, Zenon DEF Assoc
        <5>4. c = NL
          <6> SUFFICES ASSUME c # NL PROVE FALSE
            OBVIOUS
          <6>1. o = <<c>> \o <<>>
            BY <2>3, OneIs, Singles, Empty, Empties0
          <6>2. d = c /\ h = <<>>
            <7>1. Starts(o, d, h) /\ Starts(o, c, <<>>)
              BY <5>3, <6>1, Zenon DEF Starts
            <7> QED
              BY <2>3, <5>1, <5>2, <7>1, Empty, StartsOnce
          <6>3. g = <<>>
            <7>1. Len(g \o b) = Len(g) + Len(b) /\ Len(g) \in Nat /\ Len(b) \in Nat
              BY <5>1, Joined
            <7>2. Len(g) = 0
              BY <5>2, <6>2, <7>1, Empty
            <7> QED
              BY <5>1, <7>2
          <6> QED
            BY <4>5, <5>1, <6>1, <6>2, <6>3, Zenon
        <5>5. d = CR /\ h = <<NL>>
          <6>1. o = <<CR>> \o <<NL>>
            BY <1>0, <2>3, <5>4, OneIs, Pair
          <6> QED
            <7>1. Starts(o, d, h) /\ Starts(o, CR, <<NL>>)
              BY <5>3, <6>1, Zenon DEF Starts
            <7> QED
              BY <1>0, <2>3, <5>1, <5>2, <7>1, StartsOnce
        <5>6. g = <<>>
          <6>1. CASE g = <<>>
            BY <6>1
          <6>2. CASE g # <<>>
            <7>1. PICK i \in TextChar, j \in Seq(TextChar) : g = <<i>> \o j
              BY <5>1, <6>2, FirstOf DEF Starts
            <7>2. PICK k \in Seq(TextChar) : k = j \o b
              BY <7>1, Joined
            <7>3. <<i>> \o k = <<NL>> \o <<>>
              <8>1. <<i>> \in Seq(TextChar)
                BY <7>1
              <8>2. Assoc(<<i>>, j, b)
                BY <7>1, <8>1, Assocs
              <8>3. <<NL>> \o <<>> = <<NL>>
                BY <1>0, Empties0
              <8> QED
                BY <5>2, <5>5, <7>1, <7>2, <8>2, <8>3, Zenon DEF Assoc
            <7>4. i = NL /\ k = <<>>
              <8>1. PICK z \in Seq(TextChar) : z = <<i>> \o k
                BY <7>1, <7>2, Singles
              <8>2. Starts(z, i, k) /\ Starts(z, NL, <<>>)
                BY <7>3, <8>1, Zenon DEF Starts
              <8> QED
                BY <1>0, <7>1, <7>2, <8>1, <8>2, Empty, StartsOnce
            <7>5. j = <<>>
              <8>1. Len(j \o b) = Len(j) + Len(b) /\ Len(j) \in Nat /\ Len(b) \in Nat
                BY <7>1, Joined
              <8>2. Len(j) = 0
                BY <7>2, <7>4, <8>1, Empty
              <8> QED
                BY <7>1, <8>2
            <7>6. g = h
              BY <1>0, <5>5, <7>1, <7>4, <7>5, Empties0
            <7>7. e = o
              BY <5>1, <5>3, <7>6, Zenon
            <7> QED
              BY <4>5, <7>7
          <6> QED
            BY <6>1, <6>2
        <5>7. e = <<CR>>
          BY <1>0, <5>1, <5>5, <5>6, Empties0
        <5>8. w = s \o (<<NL>> \o <<>>)
          <6>1. <<NL>> \o <<>> = <<NL>>
            BY <1>0, Empties0
          <6> QED
            BY <2>1, <5>4, <6>1, Zenon
        <5>9. HalfOf(w, a)
          BY <2>2, <4>2, <5>7, <5>8, Empty, Zenon DEF HalfOf
        <5> QED
          BY <5>9 DEF BeginningOf
      <4> QED
        BY <4>4, <4>5
    <3> QED
      BY <3>2, <3>3
  <2> HIDE DEF Q
  <2>6. (\A a, b \in Seq(TextChar) : Crlf(w) = a \o b => BeginningOf(w, a)) => w \in Q
    BY <2>1 DEF Q
  <2> QED
    BY <2>1, <2>5, <2>6
<1> HIDE DEF Q
<1>3. \A s \in Seq(TextChar) : s \in Q
  BY <1>1, <1>2, SeqUp
<1> QED
  BY <1>3 DEF Q

-----------------------------------------------------------------------------
(* The writer.                                                             *)
Writers ==
    [file : Seq(TextChar), room : Nat, out : Seq(TextChar), written : Int, nl : Int,
     left : Seq(TextChar), ok : BOOLEAN]

Sends(w, r, w1, p, q) ==
    /\ w1 = sys_write(w, r) /\ w1.left = w.left /\ w1.out = w.out /\ w1.nl = w.nl
    /\ w1.file = w.file \o p /\ w1.written = w.written + Len(p)
    /\ r = p \o q /\ p = Firsts(r, w.room) /\ (w1.ok <=> q = <<>>)

LEMMA SysWriteIs ==
    ASSUME NEW w \in Writers, NEW r \in Seq(TextChar)
    PROVE  \E w1 \in Writers, p, q \in Seq(TextChar) : Sends(w, r, w1, p, q)
<1>1. PICK room \in Nat : room = w.room
  BY DEF Writers
<1>2. Len(r) \in Nat
  OBVIOUS
<1>3. PICK k \in Nat : k = (IF Len(r) < w.room THEN Len(r) ELSE w.room) /\ k <= Len(r) /\ k <= room
  <2>1. CASE Len(r) < room
    BY <1>1, <1>2, <2>1
  <2>2. CASE ~(Len(r) < room)
    BY <1>1, <1>2, <2>2
  <2> QED
    BY <2>1, <2>2
<1>4. PICK p, q \in Seq(TextChar) : CutIs(r, k, p, q)
  BY <1>3, Cuts
<1>5. p = Firsts(r, k) /\ r = p \o q /\ Len(p) + Len(q) = Len(r)
  BY <1>4, Zenon DEF CutIs
<1>6. Len(p) = k
  <2>1. k <= Len(r) => Len(Firsts(r, k)) = k
    BY <1>3, Cut
  <2> QED
    BY <1>3, <1>5, <2>1, Zenon
<1>7. p = Firsts(r, w.room)
  <2>1. CASE Len(r) < room
    <3>1. Firsts(r, Len(r)) = r
      BY <1>2, Cut
    <3>2. Firsts(r, room) = r
      <4>1. room >= Len(r) /\ room \in Nat
        BY <1>1, <1>2, <2>1
      <4>2. room >= Len(r) => Firsts(r, room) = r
        BY <4>1, Cut
      <4> QED
        BY <4>1, <4>2, Zenon
    <3>3. k = Len(r)
      BY <1>1, <1>3, <2>1
    <3> QED
      BY <1>1, <1>5, <3>1, <3>2, <3>3, Zenon
  <2>2. CASE ~(Len(r) < room)
    BY <1>1, <1>3, <1>5, <2>2
  <2> QED
    BY <2>1, <2>2
<1>8. k = Len(r) <=> q = <<>>
  <2>1. Len(q) \in Nat /\ (q = <<>> <=> Len(q) = 0)
    BY <1>4
  <2>2. k + Len(q) = Len(r)
    BY <1>5, <1>6, Zenon
  <2>3. \A m, n, o \in Nat : m + n = o => (m = o <=> n = 0)
    OBVIOUS
  <2> QED
    BY <1>2, <1>3, <2>1, <2>2, <2>3
<1>9. PICK sent \in Seq(TextChar) : sent = w.file \o Firsts(r, k) /\ sent = w.file \o p
  <2>1. w.file \in Seq(TextChar)
    BY DEF Writers
  <2>2. w.file \o p \in Seq(TextChar)
    BY <1>4, <2>1, Joined
  <2> QED
    BY <1>5, <2>2, Zenon
<1>10. PICK rest \in Nat : rest = w.room - k
  BY <1>1, <1>3
<1>11. PICK written \in Int : written = w.written + k
  BY <1>3 DEF Writers
<1>12. PICK ok \in BOOLEAN : ok = (k = Len(r))
  OBVIOUS
<1>13. sys_write(w, r) = [w EXCEPT !.file = sent, !.room = rest, !.written = written, !.ok = ok]
  BY <1>3, <1>9, <1>10, <1>11, <1>12, Zenon DEF sys_write
<1>14. PICK w1 \in Writers : /\ w1 = [w EXCEPT !.file = sent, !.room = rest, !.written = written, !.ok = ok]
                             /\ w1.left = w.left /\ w1.out = w.out /\ w1.nl = w.nl
                             /\ w1.file = sent /\ w1.written = written /\ w1.ok = ok
  <2> DEFINE e == [w EXCEPT !.file = sent, !.room = rest, !.written = written, !.ok = ok]
  <2>1. e \in Writers
    BY <1>9, <1>10, <1>11, <1>12 DEF Writers
  <2>2. e.left = w.left /\ e.out = w.out /\ e.nl = w.nl
    BY DEF Writers
  <2>3. e.file = sent /\ e.written = written
    BY DEF Writers
  <2>4. e.ok = ok
    BY Zenon DEF Writers
  <2> QED
    BY <2>1, <2>2, <2>3, <2>4, Zenon
<1>15. Sends(w, r, w1, p, q)
  BY <1>5, <1>6, <1>7, <1>8, <1>9, <1>11, <1>12, <1>13, <1>14, Zenon DEF Sends
<1> QED
  BY <1>4, <1>14, <1>15, Zenon

(* The bytes x have been passed to the writer, of which those in a are in  *)
(* the file, after f.                                                      *)
Wrote(w, f, a) == w.file = f \o a /\ w.written = Chars(a)
Holding(w, f, a, x) ==
    /\ Wrote(w, f, a) /\ a \o w.out = x /\ w.nl = Count(NL, w.out) /\ Len(w.out) <= TextBuf
Begun(w, f, x) == \E a, b \in Seq(TextChar) : Wrote(w, f, a) /\ a \o b = x
Passes(w, f, x) == IF w.ok THEN \E a \in Seq(TextChar) : Holding(w, f, a, x) ELSE Begun(w, f, x)
To(w1, w, f, x) == w1 \in Writers /\ w1.left = w.left /\ Passes(w1, f, x)

LEMMA PassesBegun ==
    ASSUME NEW w \in Writers, NEW f, NEW x, Passes(w, f, x)
    PROVE  Begun(w, f, x)
<1>1. w.out \in Seq(TextChar)
  BY DEF Writers
<1> QED
  BY <1>1, Zenon DEF Passes, Holding, Begun

LEMMA BegunMore ==
    ASSUME NEW w, NEW f, NEW x \in Seq(TextChar), NEW y \in Seq(TextChar), Begun(w, f, x)
    PROVE  Begun(w, f, x \o y)
<1>1. PICK a, b \in Seq(TextChar) : Wrote(w, f, a) /\ a \o b = x
  BY DEF Begun
<1>2. Assoc(a, b, y) /\ b \o y \in Seq(TextChar)
  BY <1>1, Joined, Assocs
<1>3. a \o (b \o y) = x \o y
  BY <1>1, <1>2, Zenon DEF Assoc
<1> QED
  BY <1>1, <1>2, <1>3, Zenon DEF Begun

(* p is written after the bytes a.                                         *)
LEMMA WroteMore ==
    ASSUME NEW w, NEW w1, NEW f \in Seq(TextChar), NEW a \in Seq(TextChar), NEW p \in Seq(TextChar),
           Wrote(w, f, a), w1.file = w.file \o p, w1.written = w.written + Chars(p)
    PROVE  Wrote(w1, f, a \o p)
<1>1. Assoc(f, a, p)
  BY Assocs
<1>2. (f \o a) \o p = f \o (a \o p)
  BY <1>1, Zenon DEF Assoc
<1>3. Chars(a \o p) = Chars(a) + Chars(p)
  BY CharsIs, Zenon
<1> QED
  BY <1>2, <1>3, Zenon DEF Wrote

(* sys_write() of text without line ends, past an empty buffer.            *)
LEMMA Sent ==
    ASSUME NEW w \in Writers, NEW f \in Seq(TextChar), NEW x \in Seq(TextChar),
           w.ok, Passes(w, f, x), w.out = <<>>, NEW r \in Seq(TextChar), Without(NL, r)
    PROVE  To(sys_write(w, r), w, f, x \o r)
<1>1. PICK w1 \in Writers, p, q \in Seq(TextChar) : Sends(w, r, w1, p, q)
  BY SysWriteIs
<1>2. PICK a \in Seq(TextChar) : Holding(w, f, a, x)
  BY DEF Passes
<1>3. x = a
  <2>1. a \o <<>> = a
    BY <1>2, Empties0
  <2> QED
    BY <1>2, <2>1, Zenon DEF Holding
<1>4. r = p \o q
  BY <1>1, Zenon DEF Sends
<1>5. Without(NL, p)
  <2>1. Len(r) = Len(p) + Len(q) /\ (\A i \in 1 .. Len(p) : r[i] = p[i])
    BY <1>1, <1>4, Joined
  <2>2. Len(p) \in Nat /\ Len(q) \in Nat
    BY <1>1
  <2>3. \A i \in 1 .. Len(p) : i \in 1 .. Len(r)
    BY <2>1, <2>2
  <2> QED
    BY <2>1, <2>3, Zenon DEF Without
<1>6. Chars(p) = Len(p)
  BY <1>1, <1>5, CharsPlain, Zenon
<1>7. Wrote(w1, f, x \o p)
  <2>1. Wrote(w, f, x)
    BY <1>2, <1>3, Zenon DEF Holding
  <2>2. w1.file = w.file \o p /\ w1.written = w.written + Chars(p)
    BY <1>1, <1>6, Zenon DEF Sends
  <2> QED
    BY <1>1, <2>1, <2>2, WroteMore
<1>8. PICK y \in Seq(TextChar) : y = x \o p
  BY <1>1, Joined
<1>9. y \o q = x \o r
  <2>1. Assoc(x, p, q)
    BY <1>1, Assocs
  <2> QED
    BY <1>4, <1>8, <2>1, Zenon DEF Assoc
<1>10. CASE w1.ok
  <2>1. q = <<>> /\ w1.out = <<>> /\ w1.nl = w.nl
    BY <1>1, <1>10, Zenon DEF Sends
  <2>2. w1.nl = Count(NL, w1.out) /\ Len(w1.out) <= TextBuf
    BY <1>2, <2>1, Zenon, Empty DEF Holding
  <2>3. Holding(w1, f, y, x \o r)
    BY <1>7, <1>8, <1>9, <2>1, <2>2, Zenon DEF Holding
  <2> QED
    BY <1>1, <1>8, <1>10, <2>3, Zenon DEF Passes, To, Sends
<1>11. CASE ~w1.ok
  <2>1. Begun(w1, f, x \o r)
    BY <1>1, <1>7, <1>8, <1>9, Zenon DEF Begun
  <2> QED
    BY <1>1, <1>11, <2>1, Zenon DEF Passes, To, Sends
<1> QED
  BY <1>10, <1>11

(* flush() counts the line ends that the file has got.                     *)
LEMMA Flushed ==
    ASSUME NEW w \in Writers, NEW f \in Seq(TextChar), NEW x \in Seq(TextChar),
           w.ok, Passes(w, f, x)
    PROVE  To(Flush(w), w, f, x) /\ Flush(w).out = <<>>
<1>1. w.out \in Seq(TextChar) /\ w.room \in Nat
  BY DEF Writers
<1>2. PICK done \in Writers, p, q \in Seq(TextChar) : Sends(w, w.out, done, p, q)
  BY <1>1, SysWriteIs
<1>3. PICK a \in Seq(TextChar) : Holding(w, f, a, x)
  BY DEF Passes
<1>4. /\ done = sys_write(w, w.out) /\ done.left = w.left
      /\ done.file = w.file \o p /\ done.written = w.written + Len(p)
      /\ w.out = p \o q /\ p = Firsts(w.out, w.room) /\ (done.ok <=> q = <<>>)
  BY <1>2, Zenon DEF Sends
<1>5. PICK n \in Nat : n = Count(NL, p)
  BY <1>2, CountIs, Zenon
<1>6. n = IF done.ok THEN w.nl ELSE Count(NL, Firsts(w.out, w.room))
  <2>1. CASE done.ok
    <3>1. p = w.out
      BY <1>2, <1>4, <2>1, Empties0
    <3> QED
      BY <1>3, <1>5, <2>1, <3>1, Zenon DEF Holding
  <2>2. CASE ~done.ok
    BY <1>4, <1>5, <2>2, Zenon
  <2> QED
    BY <2>1, <2>2
<1>7. PICK written \in Int : written = done.written - n
  <2>1. PICK v \in Int : v = done.written
    BY <1>2 DEF Writers
  <2>2. v - n \in Int
    BY <1>5, <2>1
  <2> QED
    BY <2>1, <2>2, Zenon
<1>8. Flush(w) = [done EXCEPT !.out = <<>>, !.nl = 0, !.written = written]
  BY <1>4, <1>6, <1>7, Zenon DEF Flush
<1>9. PICK w1 \in Writers :
         /\ w1 = [done EXCEPT !.out = <<>>, !.nl = 0, !.written = written]
         /\ w1.out = <<>> /\ w1.nl = 0 /\ w1.written = written
         /\ w1.file = done.file /\ w1.left = done.left /\ w1.ok = done.ok
  <2> DEFINE e == [done EXCEPT !.out = <<>>, !.nl = 0, !.written = written]
  <2>1. e \in Writers
    <3>1. PICK z \in Seq(TextChar) : z = <<>>
      BY Empty
    <3>2. PICK o \in Int : o = 0
      OBVIOUS
    <3>3. [done EXCEPT !.out = z, !.nl = o, !.written = written] \in Writers
      BY <1>2, <1>7, <3>1, <3>2 DEF Writers
    <3> QED
      BY <3>1, <3>2, <3>3, Zenon
  <2>2. e.file = done.file /\ e.left = done.left
    BY <1>2 DEF Writers
  <2>3. e.out = <<>> /\ e.nl = 0 /\ e.written = written
    BY <1>2 DEF Writers
  <2>4. e.ok = done.ok
    BY <1>2, Zenon DEF Writers
  <2> QED
    BY <2>1, <2>2, <2>3, <2>4, Zenon
<1>10. w1.written = w.written + Chars(p)
  <2>1. PICK m \in Nat : m = Len(p)
    BY <1>2
  <2>2. PICK v \in Int : v = w.written
    BY DEF Writers
  <2>3. (v + m) - n = v + (m - n)
    BY <1>5, <2>1, <2>2
  <2>4. Chars(p) = m - n
    BY <1>5, <2>1, Zenon DEF Chars
  <2> QED
    BY <1>4, <1>7, <1>9, <2>1, <2>2, <2>3, <2>4, Zenon
<1>11. PICK y \in Seq(TextChar) : y = a \o p
  BY <1>2, <1>3, Joined
<1>12. Wrote(w1, f, y)
  <2>1. w1.file = w.file \o p /\ Wrote(w, f, a)
    BY <1>3, <1>4, <1>9, Zenon DEF Holding
  <2> QED
    BY <1>2, <1>3, <1>10, <1>11, <2>1, WroteMore
<1>13. y \o q = x
  <2>1. Assoc(a, p, q)
    BY <1>2, <1>3, Assocs
  <2> QED
    BY <1>3, <1>4, <1>11, <2>1, Zenon DEF Assoc, Holding
<1>14. CASE w1.ok
  <2>1. y \o w1.out = x
    BY <1>4, <1>9, <1>13, <1>14, Zenon
  <2>2. w1.nl = Count(NL, w1.out)
    BY <1>9, CountIs, Zenon
  <2>3. Len(w1.out) <= TextBuf
    BY <1>9, Empty, TextModeAssumption
  <2>4. Holding(w1, f, y, x)
    BY <1>12, <2>1, <2>2, <2>3, Zenon DEF Holding
  <2> QED
    BY <1>4, <1>8, <1>9, <1>11, <1>14, <2>4, Zenon DEF Passes, To
<1>15. CASE ~w1.ok
  <2>1. Begun(w1, f, x)
    BY <1>2, <1>11, <1>12, <1>13, Zenon DEF Begun
  <2> QED
    BY <1>4, <1>8, <1>9, <1>15, <2>1, Zenon DEF Passes, To
<1> QED
  BY <1>14, <1>15

LEMMA Filled ==
    ASSUME NEW w \in Writers, NEW f \in Seq(TextChar), NEW x \in Seq(TextChar),
           w.ok, Passes(w, f, x), NEW r \in Seq(TextChar), Without(NL, r),
           Len(w.out) + Len(r) <= TextBuf
    PROVE  To(Fill(w, r), w, f, x \o r) /\ Fill(w, r).ok
<1>1. w.out \in Seq(TextChar)
  BY DEF Writers
<1>2. PICK out \in Seq(TextChar) : out = w.out \o r /\ Len(out) = Len(w.out) + Len(r)
  BY <1>1, Joined
<1>3. PICK w1 \in Writers :
         /\ w1 = Fill(w, r) /\ w1.out = out /\ w1.nl = w.nl /\ w1.written = w.written
         /\ w1.file = w.file /\ w1.left = w.left /\ w1.ok = w.ok
  <2>1. Fill(w, r) = [w EXCEPT !.out = out]
    BY <1>2, Zenon DEF Fill
  <2> QED
    BY <1>2, <2>1 DEF Writers
<1>4. PICK a \in Seq(TextChar) : Holding(w, f, a, x)
  BY DEF Passes
<1>5. Count(NL, out) = Count(NL, w.out)
  <2>1. Count(NL, out) = Count(NL, w.out) + Count(NL, r)
    BY <1>1, <1>2, CountJoin, Zenon
  <2>2. Count(NL, r) = 0
    BY CountNone
  <2>3. PICK n \in Nat : n = Count(NL, w.out)
    BY <1>1, CountIs, Zenon
  <2>4. n + 0 = n
    BY <2>3
  <2> QED
    BY <2>1, <2>2, <2>3, <2>4, Zenon
<1>6. a \o out = x \o r
  <2>1. Assoc(a, w.out, r)
    BY <1>1, <1>4, Assocs
  <2> QED
    BY <1>2, <1>4, <2>1, Zenon DEF Assoc, Holding
<1>7. Holding(w1, f, a, x \o r)
  BY <1>2, <1>3, <1>4, <1>5, <1>6, Zenon DEF Holding, Wrote
<1> QED
  BY <1>3, <1>4, <1>7, Zenon DEF Passes, To

LEMMA WithoutParts ==
    ASSUME NEW c, NEW p \in Seq(TextChar), NEW q \in Seq(TextChar), Without(c, p \o q)
    PROVE  Without(c, p) /\ Without(c, q)
<1>1. PICK r \in Seq(TextChar) : r = p \o q
  BY Joined
<1>2. /\ Len(r) = Len(p) + Len(q)
      /\ (\A i \in 1 .. Len(p) : r[i] = p[i]) /\ (\A i \in 1 .. Len(q) : r[Len(p) + i] = q[i])
  BY <1>1, Joined
<1>3. PICK m, n \in Nat : m = Len(p) /\ n = Len(q)
  OBVIOUS
<1>4. (\A i \in 1 .. m : i \in 1 .. m + n) /\ (\A i \in 1 .. n : m + i \in 1 .. m + n)
  BY <1>3
<1>5. \A i \in 1 .. m + n : r[i] # c
  BY <1>1, <1>2, <1>3, Zenon DEF Without
<1>6. \A i \in 1 .. m : p[i] # c
  BY <1>2, <1>3, <1>4, <1>5, Zenon
<1>7. \A i \in 1 .. n : q[i] # c
  BY <1>2, <1>3, <1>4, <1>5, Zenon
<1> QED
  BY <1>3, <1>6, <1>7, Zenon DEF Without

LEMMA ToOn ==
    \A w, w1, w2, f, x : To(w2, w1, f, x) /\ w1.left = w.left => To(w2, w, f, x)
  BY Zenon DEF To

LEMMA ToBegun == \A w, w1, f, x : To(w1, w, f, x) => Begun(w1, f, x) /\ w1 \in Writers /\ Passes(w1, f, x)
  BY PassesBegun, Zenon DEF To

LEMMA Stopped ==
    ASSUME NEW w1, NEW w, NEW f, NEW x \in Seq(TextChar), NEW r \in Seq(TextChar),
           To(w1, w, f, x), ~w1.ok
    PROVE  To(w1, w, f, x \o r)
<1>1. Begun(w1, f, x)
  BY ToBegun
<1>2. Begun(w1, f, x \o r)
  BY <1>1, BegunMore
<1> QED
  BY <1>2, Zenon DEF To, Passes

LEMMA SentAfter ==
    ASSUME NEW w, NEW w1, NEW f \in Seq(TextChar), NEW x \in Seq(TextChar), To(w1, w, f, x),
           w1.out = <<>>, NEW r \in Seq(TextChar), Without(NL, r)
    PROVE  To(IF w1.ok THEN sys_write(w1, r) ELSE w1, w, f, x \o r)
<1>1. CASE w1.ok
  <2>1. w1 \in Writers /\ Passes(w1, f, x) /\ w1.left = w.left
    BY DEF To
  <2>2. To(sys_write(w1, r), w1, f, x \o r)
    BY <1>1, <2>1, Sent
  <2> QED
    BY <1>1, <2>1, <2>2, ToOn, Zenon
<1>2. CASE ~w1.ok
  BY <1>2, Stopped
<1> QED
  BY <1>1, <1>2

LEMMA FilledAfter ==
    ASSUME NEW w, NEW w1, NEW f \in Seq(TextChar), NEW x \in Seq(TextChar), To(w1, w, f, x),
           NEW r \in Seq(TextChar), Without(NL, r), w1.ok => Len(w1.out) + Len(r) <= TextBuf
    PROVE  To(IF w1.ok THEN Fill(w1, r) ELSE w1, w, f, x \o r)
<1>1. CASE w1.ok
  <2>1. w1 \in Writers /\ Passes(w1, f, x) /\ w1.left = w.left
    BY DEF To
  <2>2. To(Fill(w1, r), w1, f, x \o r)
    BY <1>1, <2>1, Filled
  <2> QED
    BY <1>1, <2>1, <2>2, ToOn, Zenon
<1>2. CASE ~w1.ok
  BY <1>2, Stopped
<1> QED
  BY <1>1, <1>2

LEMMA RoomIs ==
    ASSUME NEW w \in Writers, NEW f, NEW x, w.ok, Passes(w, f, x)
    PROVE  Room(w) \in Nat /\ Len(w.out) \in Nat /\ Len(w.out) + Room(w) = TextBuf
<1>1. PICK a \in Seq(TextChar) : Holding(w, f, a, x)
  BY DEF Passes
<1>2. Len(w.out) <= TextBuf
  BY <1>1 DEF Holding
<1>3. PICK n \in Nat : n = Len(w.out)
  BY DEF Writers
<1>4. TextBuf \in Nat
  BY TextModeAssumption
<1>5. TextBuf - n \in Nat /\ n + (TextBuf - n) = TextBuf
  BY <1>2, <1>3, <1>4
<1>6. Room(w) = TextBuf - n
  BY <1>3, Zenon DEF Room
<1> QED
  BY <1>3, <1>5, <1>6, Zenon

(* append (str, len).                                                      *)
LEMMA AppendTextOK ==
    ASSUME NEW w \in Writers, NEW f \in Seq(TextChar), NEW x \in Seq(TextChar),
           w.ok, Passes(w, f, x), NEW r \in Seq(TextChar), Without(NL, r)
    PROVE  To(AppendText(w, r), w, f, x \o r)
<1>1. Len(r) \in Nat /\ TextBuf \in Nat
  BY TextModeAssumption
<1>2. PICK room \in Nat : room = Room(w) /\ Len(w.out) \in Nat /\ Len(w.out) + room = TextBuf
  BY RoomIs
<1>3. CASE Len(r) >= TextBuf
  <2>1. PICK w1 : w1 = IF w.out # <<>> THEN Flush(w) ELSE w
    OBVIOUS
  <2>2. To(w1, w, f, x) /\ w1.out = <<>>
    <3>1. CASE w.out # <<>>
      BY <2>1, <3>1, Flushed
    <3>2. CASE w.out = <<>>
      BY <2>1, <3>2, Zenon DEF To
    <3> QED
      BY <3>1, <3>2
  <2>3. To(IF w1.ok THEN sys_write(w1, r) ELSE w1, w, f, x \o r)
    BY <2>2, SentAfter
  <2> QED
    BY <1>3, <2>1, <2>3, Zenon DEF AppendText
<1>4. CASE ~(Len(r) >= TextBuf) /\ Len(r) <= Room(w)
  <2>1. Len(w.out) + Len(r) <= TextBuf
    BY <1>1, <1>2, <1>4
  <2>2. To(Fill(w, r), w, f, x \o r)
    BY <2>1, Filled
  <2> QED
    BY <1>4, <2>2, Zenon DEF AppendText
<1>5. CASE ~(Len(r) >= TextBuf) /\ ~(Len(r) <= Room(w))
  <2>1. PICK p, q \in Seq(TextChar) : CutIs(r, room, p, q)
    BY <1>2, Cuts
  <2>2. p = Firsts(r, room) /\ q = From(r, room) /\ r = p \o q /\ Len(p) + Len(q) = Len(r)
    BY <2>1, Zenon DEF CutIs
  <2>3. Len(p) = room
    <3>1. room <= Len(r)
      BY <1>1, <1>2, <1>5
    <3>2. room <= Len(r) => Len(Firsts(r, room)) = room
      BY <1>2, Cut
    <3> QED
      BY <2>2, <3>1, <3>2, Zenon
  <2>4. Without(NL, p) /\ Without(NL, q)
    <3>1. Without(NL, p \o q)
      BY <2>2, Zenon
    <3> QED
      BY <2>1, <3>1, WithoutParts
  <2>5. PICK w0 : w0 = Fill(w, p) /\ To(w0, w, f, x \o p) /\ w0.ok
    <3>1. Len(w.out) + Len(p) <= TextBuf
      BY <1>1, <1>2, <2>3
    <3> QED
      BY <2>1, <2>4, <3>1, Filled
  <2>6. PICK y \in Seq(TextChar) : y = x \o p
    BY <2>1, Joined
  <2>7. PICK w1 : w1 = Flush(w0) /\ To(w1, w, f, y) /\ w1.out = <<>>
    <3>1. w0 \in Writers /\ Passes(w0, f, y) /\ w0.left = w.left
      BY <2>5, <2>6, Zenon DEF To
    <3>2. To(Flush(w0), w0, f, y) /\ Flush(w0).out = <<>>
      BY <2>5, <2>6, <3>1, Flushed
    <3> QED
      BY <3>1, <3>2, ToOn, Zenon
  <2>8. Len(w1.out) + Len(q) <= TextBuf
    <3>1. Len(w1.out) = 0
      BY <2>7, Empty, Zenon
    <3>2. Len(p) \in Nat /\ Len(q) \in Nat
      BY <2>1
    <3>3. \A l, m, n, o \in Nat : m + n = l /\ ~(l >= o) => 0 + n <= o
      OBVIOUS
    <3> QED
      BY <1>1, <1>5, <2>2, <3>1, <3>2, <3>3
  <2>9. To(IF w1.ok THEN Fill(w1, q) ELSE w1, w, f, y \o q)
    BY <2>1, <2>4, <2>6, <2>7, <2>8, FilledAfter
  <2>10. y \o q = x \o r
    <3>1. Assoc(x, p, q)
      BY <2>1, Assocs
    <3> QED
      BY <2>2, <2>6, <3>1, Zenon DEF Assoc
  <2>11. AppendText(w, r) = IF w1.ok THEN Fill(w1, q) ELSE w1
    BY <1>2, <1>5, <2>2, <2>5, <2>7, Zenon DEF AppendText
  <2> QED
    BY <2>9, <2>10, <2>11, Zenon
<1> QED
  BY <1>3, <1>4, <1>5

(* append (chr): room for one more is made first.                          *)
LEMMA MakesRoom ==
    ASSUME NEW w \in Writers, NEW f \in Seq(TextChar), NEW x \in Seq(TextChar), Passes(w, f, x)
    PROVE  \E w1 : /\ \A c : AppendChar(w, c) = IF w1.ok THEN Fill(w1, <<c>>) ELSE w1
                   /\ To(w1, w, f, x) /\ (w1.ok => Len(w1.out) + 1 <= TextBuf)
<1>1. PICK w1 : w1 = IF w.ok /\ Room(w) = 0 THEN Flush(w) ELSE w
  OBVIOUS
<1>2. \A c : AppendChar(w, c) = IF w1.ok THEN Fill(w1, <<c>>) ELSE w1
  BY <1>1, Zenon DEF AppendChar
<1>3. CASE w.ok /\ Room(w) = 0
  <2>1. To(w1, w, f, x) /\ w1.out = <<>>
    BY <1>1, <1>3, Flushed
  <2>2. 0 + 1 <= TextBuf
    BY TextModeAssumption
  <2> QED
    BY <1>2, <2>1, <2>2, Empty, Zenon
<1>4. CASE w.ok /\ Room(w) # 0
  <2>1. PICK m, n \in Nat : m = Len(w.out) /\ n = Room(w) /\ m + n = TextBuf
    BY <1>4, RoomIs
  <2>2. m + 1 <= TextBuf
    BY <1>4, <2>1
  <2> QED
    BY <1>1, <1>2, <1>4, <2>1, <2>2, Zenon DEF To
<1>5. CASE ~w.ok
  BY <1>1, <1>2, <1>5, Zenon DEF To
<1> QED
  BY <1>3, <1>4, <1>5

LEMMA LineEnded ==
    ASSUME NEW w \in Writers, NEW f \in Seq(TextChar), NEW x \in Seq(TextChar),
           w.ok, Passes(w, f, x), Len(w.out) + 1 <= TextBuf
    PROVE  /\ To([Fill(w, <<NL>>) EXCEPT !.nl = @ + 1], w, f, x \o <<NL>>)
           /\ Fill(w, <<NL>>).ok
<1>0. NL \in TextChar /\ <<NL>> \in Seq(TextChar) /\ Len(<<NL>>) = 1
  BY TextChars
<1>1. w.out \in Seq(TextChar) /\ w.nl \in Int
  BY DEF Writers
<1>2. PICK out \in Seq(TextChar) : out = w.out \o <<NL>> /\ Len(out) = Len(w.out) + 1
  <2>1. w.out \o <<NL>> \in Seq(TextChar) /\ Len(w.out \o <<NL>>) = Len(w.out) + Len(<<NL>>)
    BY <1>0, <1>1, Joined
  <2> QED
    BY <1>0, <2>1, Zenon
<1>3. PICK n \in Int : n = w.nl + 1
  BY <1>1
<1>4. PICK w0 \in Writers :
         /\ w0 = Fill(w, <<NL>>) /\ w0.out = out /\ w0.nl = w.nl /\ w0.written = w.written
         /\ w0.file = w.file /\ w0.left = w.left /\ w0.ok = w.ok
  <2>1. Fill(w, <<NL>>) = [w EXCEPT !.out = out]
    BY <1>2, Zenon DEF Fill
  <2> QED
    BY <1>2, <2>1 DEF Writers
<1>5. PICK w1 \in Writers :
         /\ w1 = [Fill(w, <<NL>>) EXCEPT !.nl = @ + 1] /\ w1.out = out /\ w1.nl = n
         /\ w1.written = w.written /\ w1.file = w.file /\ w1.left = w.left /\ w1.ok = w.ok
  <2>1. [Fill(w, <<NL>>) EXCEPT !.nl = @ + 1] = [w0 EXCEPT !.nl = n]
    BY <1>3, <1>4, Zenon
  <2> QED
    BY <1>3, <1>4, <2>1 DEF Writers
<1>6. PICK a \in Seq(TextChar) : Holding(w, f, a, x)
  BY DEF Passes
<1>7. n = Count(NL, out)
  <2>1. Count(NL, Append(w.out, NL)) = Count(NL, w.out) + (IF NL = NL THEN 1 ELSE 0)
    BY <1>0, <1>1, CountIs, Zenon
  <2>2. Append(w.out, NL) = out
    BY <1>0, <1>1, <1>2, Singles
  <2>3. w.nl = Count(NL, w.out)
    BY <1>6, Zenon DEF Holding
  <2> QED
    BY <1>3, <2>1, <2>2, <2>3, Zenon
<1>8. a \o out = x \o <<NL>>
  <2>1. Assoc(a, w.out, <<NL>>)
    BY <1>0, <1>1, <1>6, Assocs
  <2> QED
    BY <1>2, <1>6, <2>1, Zenon DEF Assoc, Holding
<1>9. Holding(w1, f, a, x \o <<NL>>)
  BY <1>2, <1>5, <1>6, <1>7, <1>8, Zenon DEF Holding, Wrote
<1> QED
  BY <1>4, <1>5, <1>6, <1>9, Zenon DEF Passes, To

LEMMA EndLineOK ==
    ASSUME NEW w \in Writers, NEW f \in Seq(TextChar), NEW x \in Seq(TextChar), Passes(w, f, x)
    PROVE  To(EndLine(w), w, f, x \o <<CR, NL>>)
<1>0. /\ CR \in TextChar /\ NL \in TextChar /\ CR # NL /\ <<CR>> \in Seq(TextChar) /\ <<NL>> \in Seq(TextChar)
      /\ Len(<<CR>>) = 1 /\ Without(NL, <<CR>>)
  BY TextChars DEF Without
<1>1. PICK w1 : /\ AppendChar(w, CR) = IF w1.ok THEN Fill(w1, <<CR>>) ELSE w1
                /\ To(w1, w, f, x) /\ (w1.ok => Len(w1.out) + 1 <= TextBuf)
  BY MakesRoom, Zenon
<1>2. PICK y \in Seq(TextChar) : y = x \o <<CR>>
  BY <1>0, Joined
<1>3. PICK w2 \in Writers : w2 = AppendChar(w, CR) /\ To(w2, w, f, y) /\ Passes(w2, f, y) /\ w2.left = w.left
  <2>1. To(IF w1.ok THEN Fill(w1, <<CR>>) ELSE w1, w, f, x \o <<CR>>)
    <3>1. w1.ok => Len(w1.out) + Len(<<CR>>) <= TextBuf
      BY <1>0, <1>1, Zenon
    <3> QED
      BY <1>0, <1>1, <3>1, FilledAfter
  <2> QED
    BY <1>1, <1>2, <2>1, Zenon DEF To
<1>4. PICK w3 : /\ AppendChar(w2, NL) = IF w3.ok THEN Fill(w3, <<NL>>) ELSE w3
                /\ To(w3, w2, f, y) /\ (w3.ok => Len(w3.out) + 1 <= TextBuf)
  <2>1. \E w3 : /\ \A c : AppendChar(w2, c) = IF w3.ok THEN Fill(w3, <<c>>) ELSE w3
                /\ To(w3, w2, f, y) /\ (w3.ok => Len(w3.out) + 1 <= TextBuf)
    BY <1>2, <1>3, MakesRoom
  <2> QED
    BY <2>1, Zenon
<1>5. To(w3, w, f, y) /\ w3 \in Writers /\ Passes(w3, f, y) /\ w3.left = w.left
  BY <1>3, <1>4, Zenon DEF To
<1>6. To(EndLine(w), w, f, y \o <<NL>>)
  <2>1. CASE w3.ok
    <3>1. To([Fill(w3, <<NL>>) EXCEPT !.nl = @ + 1], w3, f, y \o <<NL>>) /\ Fill(w3, <<NL>>).ok
      BY <1>2, <1>4, <1>5, <2>1, LineEnded
    <3>2. EndLine(w) = [Fill(w3, <<NL>>) EXCEPT !.nl = @ + 1]
      BY <1>3, <1>4, <2>1, <3>1, Zenon DEF EndLine
    <3> QED
      BY <1>5, <3>1, <3>2, ToOn, Zenon
  <2>2. CASE ~w3.ok
    <3>1. EndLine(w) = w3
      BY <1>3, <1>4, <2>2, Zenon DEF EndLine
    <3>2. To(w3, w, f, y \o <<NL>>)
      BY <1>0, <1>2, <1>5, <2>2, Stopped
    <3> QED
      BY <3>1, <3>2
  <2> QED
    BY <2>1, <2>2
<1>7. y \o <<NL>> = x \o <<CR, NL>>
  <2>1. Assoc(x, <<CR>>, <<NL>>)
    BY <1>0, Assocs
  <2>2. <<CR, NL>> = <<CR>> \o <<NL>>
    BY <1>0, Pair
  <2> QED
    BY <1>2, <2>1, <2>2, Zenon DEF Assoc
<1> QED
  BY <1>6, <1>7, Zenon

(* What follows the last line end.                                         *)
LEMMA LastLineOK ==
    ASSUME NEW w \in Writers, NEW f \in Seq(TextChar), NEW x \in Seq(TextChar),
           w.ok, Passes(w, f, x), NEW r \in Seq(TextChar), Without(NL, r)
    PROVE  Begun(LastLine(w, r), f, x \o r)
<1>1. CASE r = <<>>
  <2>0. x \o r = x
    BY <1>1, Empties0
  <2>1. CASE w.out = <<>>
    <3>1. LastLine(w, r) = w
      BY <1>1, <2>1, Zenon DEF LastLine
    <3> QED
      BY <2>0, <3>1, PassesBegun
  <2>2. CASE w.out # <<>>
    <3>1. LastLine(w, r) = Flush(w)
      BY <1>1, <2>2, Zenon DEF LastLine
    <3>2. To(Flush(w), w, f, x)
      BY Flushed
    <3> QED
      BY <2>0, <3>1, <3>2, ToBegun, Zenon
  <2> QED
    BY <2>1, <2>2
<1>2. CASE r # <<>> /\ w.out = <<>>
  <2>1. To(sys_write(w, r), w, f, x \o r)
    BY <1>2, Sent
  <2>2. LastLine(w, r) = sys_write(w, r)
    BY <1>2, Zenon DEF LastLine
  <2> QED
    BY <2>1, <2>2, ToBegun, Zenon
<1>3. CASE r # <<>> /\ w.out # <<>> /\ Len(r) <= Room(w)
  <2>1. PICK w0 : w0 = Fill(w, r) /\ To(w0, w, f, x \o r) /\ w0.ok
    <3>1. PICK m, n \in Nat : m = Len(w.out) /\ n = Room(w) /\ m + n = TextBuf
      BY RoomIs
    <3>2. PICK l \in Nat : l = Len(r)
      OBVIOUS
    <3>3. m + l <= TextBuf
      BY <1>3, <3>1, <3>2
    <3>4. Len(w.out) + Len(r) <= TextBuf
      BY <3>1, <3>2, <3>3, Zenon
    <3> QED
      BY <3>4, Filled
  <2>2. PICK y \in Seq(TextChar) : y = x \o r
    BY Joined
  <2>3. To(Flush(w0), w0, f, y)
    <3>1. w0 \in Writers /\ Passes(w0, f, y)
      BY <2>1, <2>2, Zenon DEF To
    <3> QED
      BY <2>1, <2>2, <3>1, Flushed
  <2>4. LastLine(w, r) = Flush(w0)
    BY <1>3, <2>1, Zenon DEF LastLine
  <2> QED
    BY <2>2, <2>3, <2>4, ToBegun, Zenon
<1>4. CASE r # <<>> /\ w.out # <<>> /\ ~(Len(r) <= Room(w))
  <2>1. PICK w1 : w1 = Flush(w) /\ To(w1, w, f, x) /\ w1.out = <<>>
    BY Flushed
  <2>2. To(IF w1.ok THEN sys_write(w1, r) ELSE w1, w, f, x \o r)
    BY <2>1, SentAfter
  <2>3. LastLine(w, r) = IF w1.ok THEN sys_write(w1, r) ELSE w1
    BY <1>4, <2>1, Zenon DEF LastLine
  <2> QED
    BY <2>2, <2>3, ToBegun, Zenon
<1> QED
  BY <1>1, <1>2, <1>3, <1>4

LEMMA CrlfPlain == \A t \in Seq(TextChar) : Without(NL, t) => Crlf(t) = t
<1> DEFINE Q == {t \in Seq(TextChar) : Without(NL, t) => Crlf(t) = t}
<1>1. <<>> \in Q
  BY Empty, CrlfEmpty, Zenon
<1>2. \A t \in Seq(TextChar), c \in TextChar : t \in Q => Append(t, c) \in Q
  <2> SUFFICES ASSUME NEW t \in Seq(TextChar), NEW c \in TextChar, t \in Q
               PROVE  Append(t, c) \in Q
    OBVIOUS
  <2>1. PICK w \in Seq(TextChar) : w = Append(t, c) /\ w = t \o <<c>>
    BY Singles, Joined
  <2>2. ASSUME Without(NL, w) PROVE Crlf(w) = w
    <3>1. <<c>> \in Seq(TextChar) /\ <<c>>[1] = c /\ 1 \in 1 .. Len(<<c>>)
      OBVIOUS
    <3>2. Without(NL, t \o <<c>>)
      BY <2>1, <2>2, Zenon
    <3>3. Without(NL, t) /\ Without(NL, <<c>>)
      BY <3>1, <3>2, WithoutParts
    <3>4. c # NL
      BY <3>1, <3>3, Zenon DEF Without
    <3>5. Crlf(t) = t
      BY <3>3, Zenon
    <3>6. One(c) = <<c>>
      BY <3>4, OneIs
    <3>7. Crlf(Append(t, c)) = Crlf(t) \o One(c)
      BY CrlfAppend
    <3> QED
      BY <2>1, <3>5, <3>6, <3>7, Zenon
  <2> QED
    BY <2>1, <2>2, Zenon
<1> HIDE DEF Q
<1>3. \A t \in Seq(TextChar) : t \in Q
  BY <1>1, <1>2, SeqUp
<1> QED
  BY <1>3, Zenon DEF Q

(* Between two turns of m_write_text(): the text c has been passed on.     *)
OnTheWay(w, f, s) == \E c \in Seq(TextChar) : c \o w.left = s /\ Passes(w, f, Crlf(c))
WritesOn(w, f, s) == w \in Writers /\ IF w.ok THEN OnTheWay(w, f, s) ELSE Begun(w, f, Crlf(s))
LineLeft(w, n) == w.ok => Without(NL, w.left) \/ Len(w.left) <= n

(* What the next line end is.                                              *)
LEMMA NextLine ==
    ASSUME NEW l \in Seq(TextChar)
    PROVE  /\ Places(NL, l, 0) = {} => Without(NL, l)
           /\ Places(NL, l, 0) # {} =>
                \E p, q \in Seq(TextChar) :
                    /\ Without(NL, p) /\ l = (p \o <<NL>>) \o q
                    /\ First(Places(NL, l, 0)) = Len(p) + 1
                    /\ (Len(p) + 1 > 1 => SubSeq(l, 1, (Len(p) + 1) - 1) = p)
                    /\ From(l, Len(p) + 1) = q /\ Len(q) < Len(l)
<1>0. NL \in TextChar /\ <<NL>> \in Seq(TextChar) /\ Len(<<NL>>) = 1 /\ <<>> \in Seq(TextChar) /\ Len(<<>>) = 0
  BY TextChars, Empty
<1>1. l = <<>> \o l
  BY Empties0
<1>2. /\ Places(NL, l, Len(<<>>)) = {} => Without(NL, l)
      /\ Places(NL, l, Len(<<>>)) # {} =>
           \E p, q \in Seq(TextChar) :
               /\ Parts(l, p, NL, q) /\ Without(NL, p)
               /\ First(Places(NL, l, Len(<<>>))) = Len(<<>>) + Len(p) + 1
  BY <1>0, <1>1, FirstPlace
<1>3. ASSUME Places(NL, l, 0) # {}
      PROVE  \E p, q \in Seq(TextChar) :
                    /\ Without(NL, p) /\ l = (p \o <<NL>>) \o q
                    /\ First(Places(NL, l, 0)) = Len(p) + 1
                    /\ (Len(p) + 1 > 1 => SubSeq(l, 1, (Len(p) + 1) - 1) = p)
                    /\ From(l, Len(p) + 1) = q /\ Len(q) < Len(l)
  <2>1. PICK p, q \in Seq(TextChar) :
           Parts(l, p, NL, q) /\ Without(NL, p) /\ First(Places(NL, l, 0)) = 0 + Len(p) + 1
    BY <1>0, <1>2, <1>3, Zenon
  <2>2. PICK m, n \in Nat : m = Len(p) /\ n = Len(q)
    BY <2>1
  <2>3. PICK h \in Seq(TextChar) : h = p \o <<NL>>
    BY <1>0, <2>1, Joined
  <2>4. l = h \o q /\ l = p \o (<<NL>> \o q)
    BY <2>1, <2>3, Zenon DEF Parts
  <2>5. Len(h) = m + 1
    <3>1. Len(p \o <<NL>>) = Len(p) + Len(<<NL>>)
      BY <1>0, <2>1, Joined
    <3> QED
      BY <1>0, <2>2, <2>3, <3>1, Zenon
  <2>6. Len(l) = (m + 1) + n
    <3>1. Len(h \o q) = Len(h) + Len(q)
      BY <2>1, <2>3, Joined
    <3> QED
      BY <2>2, <2>4, <2>5, <3>1, Zenon
  <2>7. From(l, m + 1) = q
    <3>1. From(h \o q, Len(h)) = q
      BY <2>1, <2>3, CutJoin
    <3> QED
      BY <2>4, <2>5, <3>1, Zenon
  <2>8. SubSeq(l, 1, m) = p
    <3>1. PICK t \in Seq(TextChar) : t = <<NL>> \o q
      BY <1>0, <2>1, Joined
    <3>2. Firsts(p \o t, Len(p)) = p
      BY <2>1, <3>1, CutJoin
    <3>3. Firsts(l, m) = p
      BY <2>2, <2>4, <3>1, <3>2, Zenon
    <3>4. m < Len(l)
      BY <2>2, <2>6
    <3> QED
      BY <3>3, <3>4, Zenon DEF Firsts
  <2>9. (m + 1) - 1 = m /\ 0 + m + 1 = m + 1 /\ n < (m + 1) + n
    BY <2>2
  <2> QED
    BY <2>1, <2>2, <2>3, <2>4, <2>6, <2>7, <2>8, <2>9, Zenon
<1> QED
  BY <1>0, <1>2, <1>3, Zenon

(* A turn of the loop.                                                     *)
LEMMA LineOK ==
    ASSUME NEW w, NEW f \in Seq(TextChar), NEW s \in Seq(TextChar), WritesOn(w, f, s),
           NEW n \in Nat, LineLeft(w, n + 1)
    PROVE  WritesOn(Line(w), f, s) /\ LineLeft(Line(w), n)
<1>0. w \in Writers /\ w.left \in Seq(TextChar)
  BY DEF WritesOn, Writers
<1>1. CASE ~w.ok
  <2>1. Line(w) = w
    BY <1>1, Zenon DEF Line
  <2> QED
    BY <1>1, <2>1, Zenon DEF LineLeft
<1>2. CASE w.ok /\ Places(NL, w.left, 0) = {}
  <2>1. Line(w) = w
    BY <1>2, Zenon DEF Line
  <2>2. Without(NL, w.left)
    BY <1>0, <1>2, NextLine
  <2> QED
    BY <2>1, <2>2, Zenon DEF LineLeft
<1>3. CASE w.ok /\ Places(NL, w.left, 0) # {}
  <2>1. PICK l \in Seq(TextChar) : l = w.left
    BY <1>0
  <2>2. PICK p, q \in Seq(TextChar) :
           /\ Without(NL, p) /\ l = (p \o <<NL>>) \o q
           /\ First(Places(NL, l, 0)) = Len(p) + 1
           /\ (Len(p) + 1 > 1 => SubSeq(l, 1, (Len(p) + 1) - 1) = p)
           /\ From(l, Len(p) + 1) = q /\ Len(q) < Len(l)
    BY <1>3, <2>1, NextLine
  <2>3. PICK i : i = Len(p) + 1
    OBVIOUS
  <2>4. PICK c \in Seq(TextChar) : c \o l = s /\ Passes(w, f, Crlf(c))
    BY <1>3, <2>1, Zenon DEF WritesOn, OnTheWay
  <2>5. PICK x \in Seq(TextChar) : x = Crlf(c)
    BY <2>4, CrlfIn
  <2>6. PICK w1 : w1 = IF i > 1 THEN AppendText(w, SubSeq(l, 1, i - 1)) ELSE w
    OBVIOUS
  <2>7. To(w1, w, f, x \o p)
    <3>1. CASE i > 1
      <4>1. w1 = AppendText(w, p)
        BY <2>2, <2>3, <2>6, <3>1, Zenon
      <4> QED
        BY <1>0, <1>3, <2>2, <2>4, <2>5, <4>1, AppendTextOK
    <3>2. CASE ~(i > 1)
      <4>1. PICK m \in Nat : m = Len(p)
        BY <2>2
      <4>2. ~(m + 1 > 1)
        BY <2>3, <3>2, <4>1, Zenon
      <4>3. m = 0
        BY <4>1, <4>2
      <4>4. p = <<>>
        <5>1. \A t \in Seq(TextChar) : Len(t) = 0 => t = <<>>
          OBVIOUS
        <5> QED
          BY <2>2, <4>1, <4>3, <5>1, Zenon
      <4>5. x \o p = x
        BY <2>5, <4>4, Empties0
      <4> QED
        BY <1>0, <2>4, <2>5, <2>6, <3>2, <4>5, Zenon DEF To
    <3> QED
      BY <3>1, <3>2
  <2>8. PICK y \in Seq(TextChar) : y = x \o p
    BY <2>2, <2>5, Joined
  <2>9. w1 \in Writers /\ Passes(w1, f, y) /\ w1.left = l
    BY <2>1, <2>7, <2>8, Zenon DEF To
  <2>10. PICK z \in Seq(TextChar) : z = y \o <<CR, NL>>
    <3>1. <<CR, NL>> \in Seq(TextChar)
      BY TextChars
    <3> QED
      BY <2>8, <3>1, Joined
  <2>11. PICK w2 : w2 = IF w1.ok THEN EndLine(w1) ELSE w1
    OBVIOUS
  <2>12. w2 \in Writers /\ w2.left = l /\ Passes(w2, f, z)
    <3>1. CASE w1.ok
      <4>1. To(EndLine(w1), w1, f, y \o <<CR, NL>>)
        BY <2>8, <2>9, EndLineOK
      <4> QED
        BY <2>9, <2>10, <2>11, <3>1, <4>1, Zenon DEF To
    <3>2. CASE ~w1.ok
      <4>1. To(w1, w1, f, y)
        BY <2>9, Zenon DEF To
      <4>2. <<CR, NL>> \in Seq(TextChar)
        BY TextChars
      <4>3. To(w1, w1, f, y \o <<CR, NL>>)
        BY <2>8, <3>2, <4>1, <4>2, Stopped
      <4> QED
        BY <2>9, <2>10, <2>11, <3>2, <4>3, Zenon DEF To
    <3> QED
      BY <3>1, <3>2
  <2>13. PICK w3 \in Writers :
            /\ w3 = Line(w) /\ w3.left = q /\ w3.ok = w2.ok /\ w3.file = w2.file
            /\ w3.out = w2.out /\ w3.written = w2.written /\ w3.nl = w2.nl
    <3>1. Line(w) = [w2 EXCEPT !.left = From(@, i)]
      BY <1>3, <2>1, <2>2, <2>3, <2>6, <2>11, Zenon DEF Line
    <3>2. Line(w) = [w2 EXCEPT !.left = q]
      BY <2>2, <2>3, <2>12, <3>1, Zenon
    <3>3. [w2 EXCEPT !.left = q] \in Writers
      BY <2>2, <2>12 DEF Writers
    <3>4. /\ [w2 EXCEPT !.left = q].left = q /\ [w2 EXCEPT !.left = q].file = w2.file
          /\ [w2 EXCEPT !.left = q].out = w2.out /\ [w2 EXCEPT !.left = q].written = w2.written
          /\ [w2 EXCEPT !.left = q].nl = w2.nl
      BY <2>2, <2>12 DEF Writers
    <3>5. [w2 EXCEPT !.left = q].ok = w2.ok
      BY <2>12, Zenon DEF Writers
    <3> QED
      BY <3>2, <3>3, <3>4, <3>5, Zenon
  <2>14. Passes(w3, f, z)
    BY <2>12, <2>13, Zenon DEF Passes, Holding, Begun, Wrote
  <2>15. PICK h \in Seq(TextChar) : h = p \o <<NL>>
    BY <2>2, TextChars, Singles, Joined
  <2>16. PICK d \in Seq(TextChar) : d = c \o h
    BY <2>4, <2>15, Joined
  <2>17. Crlf(d) = z
    <3>0. NL \in TextChar /\ <<NL>> \in Seq(TextChar) /\ <<CR, NL>> \in Seq(TextChar)
      BY TextChars
    <3>1. Crlf(d) = Crlf(c) \o Crlf(h)
      BY <2>4, <2>15, <2>16, CrlfJoin
    <3>2. Crlf(p \o <<NL>>) = Crlf(p) \o Crlf(<<NL>>)
      BY <2>2, <3>0, CrlfJoin
    <3>3. Crlf(p) = p
      BY <2>2, CrlfPlain
    <3>4. Crlf(<<NL>>) = <<CR, NL>>
      BY <3>0, CrlfOne, OneIs
    <3>5. Assoc(x, p, <<CR, NL>>)
      BY <2>2, <2>5, <3>0, Assocs
    <3> QED
      BY <2>5, <2>8, <2>10, <2>15, <3>1, <3>2, <3>3, <3>4, <3>5, Zenon DEF Assoc
  <2>18. d \o q = s
    <3>1. Assoc(c, h, q)
      BY <2>2, <2>4, <2>15, Assocs
    <3> QED
      BY <2>2, <2>4, <2>15, <2>16, <3>1, Zenon DEF Assoc
  <2>19. WritesOn(w3, f, s)
    <3>1. CASE w3.ok
      BY <2>13, <2>14, <2>16, <2>17, <2>18, <3>1, Zenon DEF WritesOn, OnTheWay
    <3>2. CASE ~w3.ok
      <4>1. Begun(w3, f, z)
        BY <2>14, <3>2, Zenon DEF Passes
      <4>2. Begun(w3, f, z \o Crlf(q))
        <5>1. Crlf(q) \in Seq(TextChar)
          BY <2>2, CrlfIn
        <5> QED
          BY <2>10, <4>1, <5>1, BegunMore
      <4>3. z \o Crlf(q) = Crlf(s)
        <5>1. Crlf(d \o q) = Crlf(d) \o Crlf(q)
          BY <2>2, <2>16, CrlfJoin
        <5> QED
          BY <2>17, <2>18, <5>1, Zenon
      <4> QED
        BY <2>13, <3>2, <4>2, <4>3, Zenon DEF WritesOn
    <3> QED
      BY <3>1, <3>2
  <2>20. LineLeft(w3, n)
    <3>1. ~Without(NL, l)
      <4>1. ASSUME Without(NL, l) PROVE FALSE
        <5>1. Without(NL, h \o q)
          BY <2>2, <2>15, <4>1, Zenon
        <5>2. Without(NL, h)
          BY <2>2, <2>15, <5>1, WithoutParts
        <5>3. Without(NL, p \o <<NL>>)
          BY <2>15, <5>2, Zenon
        <5>4. <<NL>> \in Seq(TextChar) /\ 1 \in 1 .. Len(<<NL>>) /\ <<NL>>[1] = NL
          BY TextChars
        <5>5. Without(NL, <<NL>>)
          BY <2>2, <5>3, <5>4, WithoutParts
        <5> QED
          BY <5>4, <5>5, Zenon DEF Without
      <4> QED
        BY <4>1
    <3>2. Len(l) <= n + 1
      BY <1>3, <2>1, <3>1, Zenon DEF LineLeft
    <3>3. PICK a, b \in Nat : a = Len(q) /\ b = Len(l)
      BY <2>1, <2>2
    <3>4. a < b /\ b <= n + 1
      BY <2>2, <3>2, <3>3, Zenon
    <3>5. a <= n
      BY <3>3, <3>4
    <3> QED
      BY <2>13, <3>3, <3>5, Zenon DEF LineLeft
  <2> QED
    BY <2>13, <2>19, <2>20
<1> QED
  BY <1>1, <1>2, <1>3

(* As ScanExists, for the turns of m_write_text().                         *)
LineTurns(f, n, a) == f = [k \in 0 .. n |-> IF k = 0 THEN a ELSE Line(f[k - 1])]

LEMMA LinesExist ==
    ASSUME NEW n \in Nat, NEW a
    PROVE  \E f : LineTurns(f, n, a)
<1> DEFINE Part(f, m) == f = [k \in 0 .. m |-> IF k = 0 THEN a ELSE Line(f[k - 1])]
           T == {m \in 0 .. n : \E f : Part(f, m)}
<1>1. 0 \in T
  <2> DEFINE f == [k \in 0 .. 0 |-> a]
             g == [k \in 0 .. 0 |-> IF k = 0 THEN a ELSE Line(f[k - 1])]
  <2>1. f = g
    <3>1. \A k \in 0 .. 0 : f[k] = g[k]
      OBVIOUS
    <3>2. DOMAIN f = 0 .. 0 /\ DOMAIN g = 0 .. 0
      OBVIOUS
    <3> QED
      BY <3>1, <3>2
  <2>2. Part(f, 0)
    BY <2>1
  <2> HIDE DEF Part
  <2> QED
    BY <2>2
<1>2. \A m \in 0 .. n - 1 : m \in T => m + 1 \in T
  <2> SUFFICES ASSUME NEW m \in 0 .. n - 1, m \in T
               PROVE  m + 1 \in T
    OBVIOUS
  <2>1. PICK f : Part(f, m)
    OBVIOUS
  <2> DEFINE g == [k \in 0 .. m + 1 |-> IF k <= m THEN f[k] ELSE Line(f[k - 1])]
             h == [k \in 0 .. m + 1 |-> IF k = 0 THEN a ELSE Line(g[k - 1])]
  <2>2. \A k \in 0 .. m + 1 : g[k] = h[k]
    <3> SUFFICES ASSUME NEW k \in 0 .. m + 1
                 PROVE  g[k] = h[k]
      OBVIOUS
    <3>1. CASE k = 0
      BY <2>1, <3>1
    <3>2. CASE k \in 1 .. m
      <4>1. k - 1 \in 0 .. m /\ k - 1 \in 0 .. m + 1 /\ k - 1 <= m /\ k <= m /\ k # 0 /\ k \in 0 .. m
        BY <3>2
      <4>2. g[k] = f[k] /\ g[k - 1] = f[k - 1] /\ h[k] = Line(g[k - 1])
        BY <4>1
      <4>3. f[k] = Line(f[k - 1])
        BY <2>1, <4>1
      <4> QED
        BY <4>2, <4>3
    <3>3. CASE k = m + 1
      <4>1. k - 1 \in 0 .. m /\ k - 1 \in 0 .. m + 1 /\ k - 1 <= m /\ ~(k <= m) /\ k # 0
        BY <3>3
      <4>2. g[k] = Line(f[k - 1]) /\ g[k - 1] = f[k - 1] /\ h[k] = Line(g[k - 1])
        BY <4>1
      <4> QED
        BY <4>2
    <3> QED
      BY <3>1, <3>2, <3>3
  <2>3. g = h
    <3>1. DOMAIN g = 0 .. m + 1 /\ DOMAIN h = 0 .. m + 1
      OBVIOUS
    <3> QED
      BY <2>2, <3>1
  <2>4. Part(g, m + 1)
    BY <2>3
  <2> HIDE DEF Part, g
  <2>5. m + 1 \in 0 .. n
    OBVIOUS
  <2> QED
    BY <2>4, <2>5
<1> HIDE DEF T
<1>3. \A m \in 0 .. n : m \in T
  BY <1>1, <1>2, Upward
<1>4. n \in T
  BY <1>3
<1> QED
  BY <1>4 DEF T, LineTurns

(* What m_write_text() starts with.                                        *)
LineStart(f, room, s) ==
    [file |-> f, room |-> room, out |-> <<>>, written |-> 0, nl |-> 0, left |-> s, ok |-> TRUE]

LEMMA LinesRun ==
    ASSUME NEW f, NEW room, NEW s, Len(s) \in Nat
    PROVE  \E t, w : /\ w = t[Len(s)] /\ t[0] = LineStart(f, room, s)
                     /\ \A k \in 1 .. Len(s) : t[k] = Line(t[k - 1])
                     /\ m_write_text(f, room, s) = IF w.ok THEN LastLine(w, w.left) ELSE w
<1> DEFINE start == [file |-> f, room |-> room, out |-> <<>>, written |-> 0, nl |-> 0,
                     left |-> s, ok |-> TRUE]
           lines[k \in 0 .. Len(s)] == IF k = 0 THEN start ELSE Line(lines[k - 1])
<1>1. \E t : LineTurns(t, Len(s), start)
  <2> HIDE DEF start, lines
  <2> QED
    BY LinesExist
<1>2. lines = [k \in 0 .. Len(s) |-> IF k = 0 THEN start ELSE Line(lines[k - 1])]
  <2> HIDE DEF start
  <2> QED
    BY <1>1 DEF LineTurns
<1>3. m_write_text(f, room, s) = IF lines[Len(s)].ok THEN LastLine(lines[Len(s)], lines[Len(s)].left)
                                 ELSE lines[Len(s)]
  BY DEF m_write_text
<1>4. start = LineStart(f, room, s)
  BY DEF LineStart
<1> HIDE DEF lines, start
<1>5. lines[0] = start /\ \A k \in 1 .. Len(s) : lines[k] = Line(lines[k - 1])
  BY <1>2
<1> QED
  BY <1>3, <1>4, <1>5, Zenon

LEMMA StartsWriting ==
    ASSUME NEW f \in Seq(TextChar), NEW room \in Nat, NEW s \in Seq(TextChar)
    PROVE  WritesOn(LineStart(f, room, s), f, s) /\ LineLeft(LineStart(f, room, s), Len(s))
<1>1. PICK w : w = LineStart(f, room, s)
  OBVIOUS
<1>2. w \in Writers
  BY <1>1, Empty DEF LineStart, Writers
<1>3. w.file = f /\ w.out = <<>> /\ w.written = 0 /\ w.nl = 0 /\ w.left = s /\ w.ok
  BY <1>1 DEF LineStart
<1>4. Wrote(w, f, <<>>)
  <2>1. f \o <<>> = f
    BY Empties0
  <2> QED
    BY <1>3, <2>1, CharsIs, Zenon DEF Wrote
<1>5. Holding(w, f, <<>>, <<>>)
  <2>1. Len(w.out) <= TextBuf
    BY <1>3, Empty, TextModeAssumption
  <2>2. w.nl = Count(NL, w.out)
    BY <1>3, CountIs, Zenon
  <2> QED
    BY <1>3, <1>4, <2>1, <2>2, Empty, Zenon DEF Holding
<1>6. <<>> \o w.left = s
  BY <1>3, Empties0
<1>7. OnTheWay(w, f, s)
  BY <1>3, <1>5, <1>6, Empty, CrlfEmpty, Zenon DEF OnTheWay, Passes
<1>8. LineLeft(w, Len(s))
  <2>1. Len(s) <= Len(s)
    OBVIOUS
  <2> QED
    BY <1>3, <2>1, Zenon DEF LineLeft
<1> QED
  BY <1>1, <1>2, <1>3, <1>7, <1>8, Zenon DEF WritesOn

(* m_write_text() writes a beginning of the translated text, and returns   *)
(* how many characters that is.                                            *)
LEMMA Writes ==
    ASSUME NEW f \in Seq(TextChar), NEW room \in Nat, NEW s \in Seq(TextChar)
    PROVE  \E a, b \in Seq(TextChar) :
              /\ m_write_text(f, room, s).file = f \o a
              /\ m_write_text(f, room, s).written = Chars(a) /\ a \o b = Crlf(s)
<1>0. PICK n \in Nat : n = Len(s)
  OBVIOUS
<1>1. PICK t, w : /\ w = t[n] /\ t[0] = LineStart(f, room, s)
                  /\ \A k \in 1 .. n : t[k] = Line(t[k - 1])
                  /\ m_write_text(f, room, s) = IF w.ok THEN LastLine(w, w.left) ELSE w
  BY <1>0, LinesRun
<1> DEFINE Q == {k \in 0 .. n : WritesOn(t[k], f, s) /\ LineLeft(t[k], n - k)}
<1>2. 0 \in Q
  <2>1. n - 0 = n /\ 0 \in 0 .. n
    BY <1>0
  <2>2. WritesOn(t[0], f, s) /\ LineLeft(t[0], n)
    BY <1>0, <1>1, StartsWriting
  <2> QED
    BY <2>1, <2>2, Zenon
<1>3. \A k \in 0 .. n - 1 : k \in Q => k + 1 \in Q
  <2> SUFFICES ASSUME NEW k \in 0 .. n - 1, k \in Q PROVE k + 1 \in Q
    OBVIOUS
  <2>1. k + 1 \in 1 .. n /\ k + 1 \in 0 .. n /\ (k + 1) - 1 = k /\ n - k = (n - (k + 1)) + 1 /\ n - (k + 1) \in Nat
    BY <1>0
  <2>2. t[k + 1] = Line(t[k])
    BY <1>1, <2>1, Zenon
  <2>3. WritesOn(t[k], f, s) /\ LineLeft(t[k], (n - (k + 1)) + 1)
    BY <2>1, Zenon
  <2>4. WritesOn(Line(t[k]), f, s) /\ LineLeft(Line(t[k]), n - (k + 1))
    BY <2>1, <2>3, LineOK
  <2> QED
    BY <2>1, <2>2, <2>4, Zenon
<1> HIDE DEF Q
<1>4. \A k \in 0 .. n : k \in Q
  BY <1>0, <1>2, <1>3, Upward
<1>5. WritesOn(w, f, s) /\ LineLeft(w, 0)
  <2>1. n \in 0 .. n /\ n - n = 0
    BY <1>0
  <2>2. n \in Q
    BY <1>4, <2>1
  <2> QED
    BY <1>1, <2>1, <2>2, Zenon DEF Q
<1>6. PICK r : r = m_write_text(f, room, s) /\ Begun(r, f, Crlf(s))
  <2>1. CASE ~w.ok
    BY <1>1, <1>5, <2>1, Zenon DEF WritesOn
  <2>2. CASE w.ok
    <3>1. PICK l \in Seq(TextChar) : l = w.left
      BY <1>5 DEF WritesOn, Writers
    <3>2. PICK c \in Seq(TextChar) : c \o l = s /\ Passes(w, f, Crlf(c))
      BY <1>5, <2>2, <3>1, Zenon DEF WritesOn, OnTheWay
    <3>3. Without(NL, l)
      <4>1. CASE Len(l) <= 0
        <5>1. Len(l) \in Nat
          OBVIOUS
        <5> QED
          BY <4>1, <5>1 DEF Without
      <4>2. CASE ~(Len(l) <= 0)
        BY <1>5, <2>2, <3>1, <4>2, Zenon DEF LineLeft
      <4> QED
        BY <4>1, <4>2
    <3>4. Begun(LastLine(w, l), f, Crlf(c) \o l)
      <4>1. w \in Writers /\ Crlf(c) \in Seq(TextChar)
        BY <1>5, <3>2, CrlfIn DEF WritesOn
      <4> QED
        BY <2>2, <3>1, <3>2, <3>3, <4>1, LastLineOK
    <3>5. Crlf(c) \o l = Crlf(s)
      <4>1. Crlf(c \o l) = Crlf(c) \o Crlf(l)
        BY <3>1, <3>2, CrlfJoin
      <4>2. Crlf(l) = l
        BY <3>1, <3>3, CrlfPlain
      <4> QED
        BY <3>2, <4>1, <4>2, Zenon
    <3> QED
      BY <1>1, <2>2, <3>1, <3>4, <3>5, Zenon
  <2> QED
    BY <2>1, <2>2
<1> QED
  BY <1>6, Zenon DEF Begun, Wrote

LEMMA SputnOK ==
    ASSUME TextInv, NEW s \in Texts, NEW room \in Rooms, Sputn(s, room)
    PROVE  TextInv'
<1>0. s \in Seq(TextChar) /\ room \in Nat
  BY TextModeAssumption
<1>1. PICK t \in Seq(TextChar) : bytes = Crlf(t)
  BY DEF TextInv
<1>2. PICK a, b \in Seq(TextChar) : m_write_text(bytes, room, s).file = bytes \o a /\ a \o b = Crlf(s)
  <2>1. bytes \in Seq(TextChar)
    BY DEF TextInv
  <2>2. \E a, b \in Seq(TextChar) :
           /\ m_write_text(bytes, room, s).file = bytes \o a
           /\ m_write_text(bytes, room, s).written = Chars(a) /\ a \o b = Crlf(s)
    BY <1>0, <2>1, Writes
  <2> QED
    BY <2>2, Zenon
<1>3. PICK f \in Seq(TextChar) : f = bytes \o a
  BY <1>2, Joined DEF TextInv
<1>4. bytes' = f /\ fpos' = Len(f) /\ base' = Len(f) /\ got' = <<>> /\ area' = NoArea
  BY <1>2, <1>3, Zenon DEF Sputn
<1>5. PICK v \in Seq(TextChar) : a = Crlf(v)
  <2>1. BeginningOf(s, a)
    <3>1. Crlf(s) = a \o b
      BY <1>2, Zenon
    <3> QED
      BY <1>0, <1>2, <3>1, Beginning
  <2>2. CASE WholeOf(s, a)
    BY <2>2, Zenon DEF WholeOf
  <2>3. CASE HalfOf(s, a)
    <3>1. PICK v \in Seq(TextChar) : a = Crlf(v) \o <<CR>>
      BY <2>3, Zenon DEF HalfOf
    <3>2. PICK u \in Seq(TextChar) : u = Append(v, CR)
      BY <3>1, TextChars, Singles, Joined
    <3>3. Crlf(Append(v, CR)) = Crlf(v) \o One(CR) /\ One(CR) = <<CR>>
      BY <3>1, TextChars, CrlfAppend, OneIs
    <3> QED
      BY <3>1, <3>2, <3>3, Zenon
  <2> QED
    BY <2>1, <2>2, <2>3, Zenon DEF BeginningOf
<1>6. PICK u \in Seq(TextChar) : u = t \o v
  BY <1>1, <1>5, Joined
<1>7. f = Crlf(u)
  <2>1. Crlf(t \o v) = Crlf(t) \o Crlf(v)
    BY <1>1, <1>5, CrlfJoin
  <2> QED
    BY <1>1, <1>3, <1>5, <1>6, <2>1, Zenon
<1>8. At(f, Len(f), <<>>)
  <2>1. From(f, Len(f)) = <<>>
    BY <1>3, FromAll
  <2>2. Len(f) \in 0 .. Len(f)
    BY <1>3
  <2> QED
    BY <2>1, <2>2, CrlfEmpty, Zenon DEF At
<1>9. At(bytes', fpos', <<>>)
  BY <1>4, <1>8, Zenon
<1>10. bytes' = Crlf(u) /\ base' = fpos'
  BY <1>4, <1>7, Zenon
<1> QED
  BY <1>4, <1>6, <1>9, <1>10, Empty, Afresh

-----------------------------------------------------------------------------
(* Of a text s, the bytes a have been written, which n characters make.    *)
Partly(s, a, n) ==
    Len(Crlf(Firsts(s, n - 1))) < Len(a) /\ Len(a) <= Len(Crlf(Firsts(s, n)))

LEMMA FirstsJoin ==
    \A s, p, q \in Seq(TextChar) : s = p \o q => Firsts(s, Len(p)) = p
  BY CutJoin

(* The next character makes the bytes more.                                *)
LEMMA FirstsGrow ==
    ASSUME NEW s \in Seq(TextChar), NEW n \in Nat, n < Len(s)
    PROVE  /\ Len(Crlf(Firsts(s, n))) \in Nat /\ Len(Crlf(Firsts(s, n + 1))) \in Nat
           /\ Len(Crlf(Firsts(s, n))) < Len(Crlf(Firsts(s, n + 1)))
<1>1. PICK g \in Seq(TextChar), d \in TextChar : Firsts(s, n) = g /\ Firsts(s, n + 1) = Append(g, d)
  <2>1. SubSeq(s, 1, n) \in Seq(TextChar) /\ s[n + 1] \in TextChar
    BY SMT
  <2>2. SubSeq(s, 1, n + 1) = Append(SubSeq(s, 1, n), s[n + 1])
    BY SMT
  <2>3. Firsts(s, n) = SubSeq(s, 1, n)
    BY DEF Firsts
  <2>4. Firsts(s, n + 1) = SubSeq(s, 1, n + 1)
    <3>1. n + 1 < Len(s) \/ n + 1 = Len(s)
      OBVIOUS
    <3> QED
      BY <3>1 DEF Firsts
  <2> QED
    BY <2>1, <2>2, <2>3, <2>4
<1>2. PICK x, o \in Seq(TextChar) : x = Crlf(g) /\ o = One(d) /\ Crlf(Append(g, d)) = x \o o
  BY CrlfAppend, OneIs
<1>3. PICK m, k \in Nat : m = Len(x) /\ k = Len(o) /\ k >= 1
  <2>1. Len(One(d)) = 1 + (IF d = NL THEN 1 ELSE 0)
    BY DEF One
  <2>2. 1 + 1 \in Nat /\ 1 + 0 \in Nat /\ 1 + 1 >= 1 /\ 1 + 0 >= 1
    OBVIOUS
  <2>3. Len(o) \in Nat /\ Len(o) >= 1
    BY <1>2, <2>1, <2>2, Zenon
  <2> QED
    BY <1>2, <2>3
<1>4. Len(x \o o) = m + k
  BY <1>2, <1>3, Joined
<1>5. m < m + k /\ m + k \in Nat
  BY <1>3
<1> QED
  BY <1>1, <1>2, <1>3, <1>4, <1>5, Zenon

LEMMA PartlyLess ==
    ASSUME NEW s \in Seq(TextChar), NEW a \in Seq(TextChar), NEW n \in Nat, n < Len(s),
           Partly(s, a, n)
    PROVE  Len(a) < Len(Crlf(Firsts(s, n + 1)))
<1>1. Len(a) \in Nat
  OBVIOUS
<1> QED
  BY <1>1, FirstsGrow DEF Partly

LEMMA WholePartly ==
    ASSUME NEW s \in Seq(TextChar), NEW a \in Seq(TextChar), a # <<>>, WholeOf(s, a)
    PROVE  Partly(s, a, Chars(a))
<1>1. PICK v, q \in Seq(TextChar) : a = Crlf(v) /\ s = v \o q
  BY Zenon DEF WholeOf
<1>2. v # <<>>
  BY <1>1, CrlfEmpty, Zenon
<1>3. PICK g \in Seq(TextChar), d \in TextChar : v = Append(g, d)
  BY <1>1, <1>2, LastOf
<1>4. PICK k \in Nat : k = Len(g) /\ Len(v) = k + 1
  <2>1. Len(Append(g, d)) = Len(g) + 1 /\ Len(g) \in Nat
    BY <1>3
  <2> QED
    BY <1>3, <2>1, Zenon
<1>5. Chars(a) = k + 1
  BY <1>1, <1>4, CharsCrlf, Zenon
<1>6. Firsts(s, k + 1) = v
  BY <1>1, <1>4, FirstsJoin, Zenon
<1>7. Firsts(s, k) = g
  <2>1. PICK h \in Seq(TextChar) : h = <<d>> \o q
    BY <1>1, <1>3, Singles, Joined
  <2>2. v = g \o <<d>> /\ <<d>> \in Seq(TextChar)
    BY <1>3, Singles
  <2>3. Assoc(g, <<d>>, q)
    BY <1>1, <1>3, <2>2, Assocs
  <2>4. s = g \o h
    BY <1>1, <2>1, <2>2, <2>3, Zenon DEF Assoc
  <2> QED
    BY <1>3, <1>4, <2>1, <2>4, FirstsJoin, Zenon
<1>8. Len(Crlf(g)) < Len(a) /\ Len(a) <= Len(a)
  <2>1. Crlf(Append(g, d)) = Crlf(g) \o One(d) /\ Crlf(g) \in Seq(TextChar) /\ One(d) \in Seq(TextChar)
    BY <1>3, CrlfAppend, OneIs
  <2>2. PICK x, o \in Seq(TextChar) : x = Crlf(g) /\ o = One(d)
    BY <2>1
  <2>3. Len(x \o o) = Len(x) + Len(o)
    BY <2>2, Joined
  <2>4. PICK m \in Nat : m = Len(x)
    BY <2>2
  <2>5. PICK n \in Nat : n = Len(o) /\ n >= 1
    <3>1. Len(One(d)) = 1 + (IF d = NL THEN 1 ELSE 0)
      BY DEF One
    <3>2. 1 + 1 \in Nat /\ 1 + 0 \in Nat /\ 1 + 1 >= 1 /\ 1 + 0 >= 1
      OBVIOUS
    <3> QED
      BY <2>2, <3>1, <3>2, Zenon
  <2>6. Len(a) = m + n
    BY <1>1, <1>3, <2>1, <2>2, <2>3, <2>4, <2>5, Zenon
  <2>7. m < m + n /\ m + n <= m + n
    BY <2>4, <2>5
  <2> QED
    BY <2>2, <2>4, <2>6, <2>7, Zenon
<1>9. (k + 1) - 1 = k
  BY <1>4
<1> QED
  BY <1>1, <1>5, <1>6, <1>7, <1>8, <1>9, Zenon DEF Partly

LEMMA HalfPartly ==
    ASSUME NEW s \in Seq(TextChar), NEW a \in Seq(TextChar), HalfOf(s, a)
    PROVE  Partly(s, a, Chars(a))
<1>0. /\ CR \in TextChar /\ NL \in TextChar /\ <<CR>> \in Seq(TextChar) /\ <<NL>> \in Seq(TextChar)
      /\ CR # NL /\ Len(<<CR>>) = 1 /\ Len(<<NL>>) = 1 /\ Len(<<CR, NL>>) = 2 /\ <<CR, NL>> \in Seq(TextChar)
  BY TextChars
<1>1. PICK v, q \in Seq(TextChar) : a = Crlf(v) \o <<CR>> /\ s = v \o (<<NL>> \o q)
  BY Zenon DEF HalfOf
<1>2. PICK k \in Nat : k = Len(v)
  BY <1>1
<1>3. PICK x \in Seq(TextChar) : x = Crlf(v)
  BY <1>1, CrlfIn
<1>4. Chars(a) = k + 1
  <2>1. Chars(x \o <<CR>>) = Chars(x) + Chars(<<CR>>)
    BY <1>0, <1>3, CharsIs, Zenon
  <2>2. One(CR) = <<CR>> /\ Chars(One(CR)) = 1
    BY <1>0, OneIs, CharsOne
  <2>3. Chars(x) = k
    BY <1>1, <1>2, <1>3, CharsCrlf, Zenon
  <2> QED
    BY <1>1, <1>3, <2>1, <2>2, <2>3, Zenon
<1>5. Firsts(s, k) = v
  <2>1. PICK h \in Seq(TextChar) : h = <<NL>> \o q
    BY <1>0, <1>1, Joined
  <2> QED
    BY <1>1, <1>2, <2>1, FirstsJoin, Zenon
<1>6. PICK h \in Seq(TextChar) : h = v \o <<NL>> /\ Len(h) = k + 1
  <2>1. v \o <<NL>> \in Seq(TextChar) /\ Len(v \o <<NL>>) = Len(v) + Len(<<NL>>)
    BY <1>0, <1>1, Joined
  <2> QED
    BY <1>0, <1>2, <2>1, Zenon
<1>7. Firsts(s, k + 1) = h
  <2>1. Assoc(v, <<NL>>, q)
    BY <1>0, <1>1, Assocs
  <2>2. s = h \o q
    BY <1>1, <1>6, <2>1, Zenon DEF Assoc
  <2> QED
    BY <1>1, <1>6, <2>2, FirstsJoin, Zenon
<1>8. PICK m \in Nat : m = Len(x) /\ Len(a) = m + 1
  <2>1. Len(x \o <<CR>>) = Len(x) + Len(<<CR>>) /\ Len(x) \in Nat
    BY <1>0, <1>3, Joined
  <2> QED
    BY <1>0, <1>1, <1>3, <2>1, Zenon
<1>9. Len(Crlf(h)) = m + 2
  <2>1. Crlf(v \o <<NL>>) = Crlf(v) \o Crlf(<<NL>>)
    BY <1>0, <1>1, CrlfJoin
  <2>2. Crlf(<<NL>>) = <<CR, NL>>
    BY <1>0, CrlfOne, OneIs
  <2>3. Len(x \o <<CR, NL>>) = Len(x) + Len(<<CR, NL>>)
    BY <1>0, <1>3, Joined
  <2> QED
    BY <1>0, <1>3, <1>6, <1>8, <2>1, <2>2, <2>3, Zenon
<1>10. m < m + 1 /\ m + 1 <= m + 2 /\ (k + 1) - 1 = k
  BY <1>2, <1>8
<1> QED
  BY <1>3, <1>4, <1>5, <1>7, <1>8, <1>9, <1>10, Zenon DEF Partly

LEMMA SputnWrites ==
    ASSUME TextInv, NEW s \in Texts, NEW room \in Rooms, Sputn(s, room), bytes' # bytes
    PROVE  /\ From(bytes', Len(bytes)) \in Seq(TextChar)
           /\ IsPrefix(From(bytes', Len(bytes)), Crlf(s))
           /\ \A n : ret' = <<s, n>> => Partly(s, From(bytes', Len(bytes)), n)
<1>0. s \in Seq(TextChar) /\ room \in Nat
  BY TextModeAssumption
<1>1. PICK f \in Seq(TextChar) : f = bytes
  BY DEF TextInv
<1>2. PICK a, b \in Seq(TextChar) : /\ m_write_text(f, room, s).file = f \o a
                                    /\ m_write_text(f, room, s).written = Chars(a) /\ a \o b = Crlf(s)
  BY <1>0, <1>1, Writes
<1>3. bytes' = f \o a /\ ret' = <<s, Chars(a)>>
  BY <1>1, <1>2, Zenon DEF Sputn
<1>4. From(bytes', Len(bytes)) = a
  <2>1. From(f \o a, Len(f)) = a
    BY <1>1, <1>2, CutJoin
  <2> QED
    BY <1>1, <1>3, <2>1, Zenon
<1>5. a # <<>>
  <2>1. f \o <<>> = f
    BY <1>1, Empties0
  <2> QED
    BY <1>1, <1>3, <2>1, Zenon
<1>6. Partly(s, a, Chars(a))
  <2>1. Crlf(s) = a \o b
    BY <1>2, Zenon
  <2>2. WholeOf(s, a) \/ HalfOf(s, a)
    BY <1>0, <1>2, <2>1, Beginning DEF BeginningOf
  <2> QED
    BY <1>0, <1>2, <1>5, <2>2, WholePartly, HalfPartly
<1>7. IsPrefix(a, Crlf(s))
  <2>1. PICK x \in Seq(TextChar) : x = a \o b /\ x = Crlf(s)
    BY <1>2, Joined, Zenon
  <2>2. PICK k, l, m \in Nat : k = Len(a) /\ l = Len(b) /\ m = Len(x)
    BY <1>2, <2>1
  <2>3. m = k + l
    <3>1. Len(a \o b) = Len(a) + Len(b)
      BY <1>2, Joined
    <3> QED
      BY <2>1, <2>2, <3>1, Zenon
  <2>4. Firsts(x, k) = a /\ Firsts(a, k) = a
    <3>1. Firsts(a, Len(a)) = a
      BY <1>2, Cut
    <3> QED
      BY <1>2, <2>1, <2>2, <3>1, FirstsJoin, Zenon
  <2>5. k <= m /\ (IF k < m THEN k ELSE m) = k /\ (IF k < k THEN k ELSE k) = k
    BY <2>2, <2>3
  <2>6. SubSeq(x, 1, k) = a /\ SubSeq(a, 1, k) = a
    BY <2>2, <2>4, <2>5, Zenon DEF Firsts
  <2> QED
    BY <2>1, <2>2, <2>5, <2>6, Zenon DEF IsPrefix
<1>8. ASSUME NEW n, ret' = <<s, n>> PROVE n = Chars(a)
  BY <1>3, <1>8
<1> QED
  BY <1>2, <1>4, <1>6, <1>7, <1>8, Zenon

(* TextInv is an invariant.                                                *)
LEMMA TextSteps == TextInv /\ [TextNext]_textvars => TextInv'
<1> SUFFICES ASSUME TextInv, [TextNext]_textvars PROVE TextInv'
  OBVIOUS
<1>1. CASE Sbumpc
  BY <1>1, SbumpcOK
<1>2. CASE \E n \in 1 .. MaxRead : Sgetn(n)
  <2>1. PICK n \in 1 .. MaxRead : Sgetn(n)
    BY <1>2
  <2>2. n \in Nat \ {0}
    BY <2>1, TextModeAssumption
  <2> QED
    BY <2>1, <2>2, SgetnOK
<1>3. CASE PutBack
  BY <1>3, PutBackOK
<1>4. CASE Sync
  BY <1>4, SyncOK
<1>5. CASE SeekStart
  BY <1>5, SeekStartOK
<1>6. CASE \E s \in Texts, room \in Rooms : Sputn(s, room)
  BY <1>6, SputnOK
<1>7. CASE UNCHANGED textvars
  <2>1. /\ bytes' = bytes /\ fpos' = fpos /\ area' = area /\ base' = base /\ got' = got
    BY <1>7 DEF textvars
  <2> QED
    BY <2>1, Zenon DEF TextInv, AreaOK, InStep, At, Left
<1> QED
  BY <1>1, <1>2, <1>3, <1>4, <1>5, <1>6, <1>7 DEF TextNext

(* Whatever the sizes of the buffers, the files, the room on the device    *)
(* and the calls, reading gives the text of the bytes: m_read_text() makes *)
(* no mistake at a "\r" at the end of what was read, or of the buffer, and *)
(* m_flush_text() goes back to the right byte.                             *)
THEOREM TextIsRead == TextSpec => []ReadsText
<1>1. TextInit => TextInv
  BY TextInitInv
<1>2. TextInv /\ [TextNext]_textvars => TextInv'
  BY TextSteps
<1>3. TextInv => ReadsText
  BY TextInvReads
<1> QED
  BY <1>1, <1>2, <1>3, PTL DEF TextSpec

(* Whatever the size of the translation buffer and the room on the device, *)
(* m_write_text() writes a beginning of the translated text, and counts    *)
(* every character that is written in full, and none before it is begun.   *)
THEOREM TextIsWritten == TextSpec => WritesText
<1> DEFINE Added == From(bytes', Len(bytes))
           Told == \A s \in Texts, n \in 0 .. MaxText :
                      bytes' # bytes /\ ret' = <<s, n>> =>
                        LET added == From(bytes', Len(bytes)) IN
                        /\ IsPrefix(added, Crlf(s))
                        /\ Len(Crlf(Firsts(s, n - 1))) < Len(added)
                        /\ n < Len(s) => Len(added) < Len(Crlf(Firsts(s, n + 1)))
<1>1. TextInit => TextInv
  BY TextInitInv
<1>2. TextInv /\ [TextNext]_textvars => TextInv'
  BY TextSteps
<1>3. TextInv /\ [TextNext]_textvars => [Told]_textvars
  <2> SUFFICES ASSUME TextInv, [TextNext]_textvars, NEW s \in Texts, NEW n \in 0 .. MaxText,
                      bytes' # bytes, ret' = <<s, n>>
               PROVE  /\ IsPrefix(Added, Crlf(s))
                      /\ Len(Crlf(Firsts(s, n - 1))) < Len(Added)
                      /\ n < Len(s) => Len(Added) < Len(Crlf(Firsts(s, n + 1)))
    BY Zenon
  <2>1. PICK t \in Texts, room \in Rooms : Sputn(t, room)
    BY DEF TextNext, textvars, Sbumpc, Sgetn, PutBack, Sync, SeekStart, Deliver
  <2>2. ret'[1] = t
    BY <2>1 DEF Sputn
  <2>3. t = s
    BY <2>2
  <2>4. Added \in Seq(TextChar) /\ IsPrefix(Added, Crlf(s)) /\ Partly(s, Added, n)
    BY <2>1, <2>3, SputnWrites
  <2>5. n \in Nat /\ s \in Seq(TextChar)
    BY TextModeAssumption
  <2>6. n < Len(s) => Len(Added) < Len(Crlf(Firsts(s, n + 1)))
    <3> HIDE DEF Added
    <3> QED
      BY <2>4, <2>5, PartlyLess
  <2>7. Len(Crlf(Firsts(s, n - 1))) < Len(Added)
    BY <2>4, Zenon DEF Partly
  <2> QED
    BY <2>4, <2>6, <2>7, Zenon
<1> QED
  BY <1>1, <1>2, <1>3, PTL DEF TextSpec, WritesText
=============================================================================
