------------------------------ MODULE FileBuf -------------------------------
(***************************************************************************)
(* sys::filebuf (fstream.hpp, fstream.cc), the POSIX build: a streambuf    *)
(* whose get area and put area share one buffer, over a file descriptor.   *)
(*                                                                         *)
(* The pointers of the areas are offsets from the start of the buffer.     *)
(* eback() is always the start of m_buf or &m_putback, pbase() always the  *)
(* start of m_buf (or 0, which no code tells apart from an empty area).    *)
(*                                                                         *)
(* The public calls of std::streambuf are the actions.  Each is one call   *)
(* of a single-threaded user: the operators below compute its effect on    *)
(* the state, one for each member function it runs through.  How many      *)
(* bytes the device takes or yields per system call is up to the device.   *)
(***************************************************************************)
EXTENDS Integers, Sequences

CONSTANTS
    Char,           \* the characters of the stream
    Hole,           \* what reading returns where nothing was ever written
    Junk,           \* the content of memory that new char_type[] returns
    Modes,          \* the open modes in use
    DefaultSize,    \* default_bufsize
    BufSizes,       \* the sizes given to pubsetbuf(), 0 for no buffer
    MaxFile,        \* bound: the length the file may reach
    MaxString,      \* bound: the characters asked of sgetn()
    Strings,        \* the arguments of sputn()
    Offsets,        \* the arguments of pubseekoff()
    Devices,        \* the states of the device: how many bytes one write()
                    \* takes at most (MaxFile is no limit), and does it read?
    UnderBegin      \* may a character be pushed back before position 0?

ASSUME BufAssumption ==
    /\ DefaultSize \in Nat \ {0} /\ BufSizes \subseteq Nat
    /\ MaxFile \in Nat /\ MaxString \in Nat /\ {} \notin Modes
    /\ Strings \subseteq Seq(Char) /\ Offsets \subseteq Int
    /\ <<MaxFile, TRUE>> \in Devices /\ Devices \subseteq Nat \X BOOLEAN
    /\ UnderBegin \in BOOLEAN

VARIABLES
    fb,     \* the filebuf, its file and the position of its descriptor
    limit,      \* what one write() takes now
    readable,   \* does read() succeed now?
    call,       \* the last call, with its arguments
    ret         \* its result: characters and a number

vars == <<fb, limit, readable, call, ret>>

(* The device takes, and yields, all that it is asked to.                  *)
Working == limit = MaxFile /\ readable

Min2(a, b) == IF a <= b THEN a ELSE b
First(q, n) == SubSeq(q, 1, Min2(n, Len(q)))

Ret(chars, n) == [chars |-> chars, n |-> n]

WriteAt(f, at, s) ==
    LET end == at + Len(s) IN
    IF s = <<>> THEN f
    ELSE [i \in 1 .. (IF end > Len(f) THEN end ELSE Len(f)) |->
            IF i > at /\ i <= end THEN s[i - at]
            ELSE IF i <= Len(f) THEN f[i] ELSE Hole]

(* The fields of fb: file and fpos, the kernel's; open, m_handle.valid();  *)
(* mode; mem, the m_buf_size characters of m_buf (none: m_buf is null);     *)
(* area "buf" or "pb", where eback() is; gn and ge, gptr() and egptr()     *)
(* from there; pn and pe, pptr() and epptr() from pbase(); cur,            *)
(* m_cur_gsize; pb, m_putback.                                             *)
Init ==
    /\ fb \in [file : UNION {[1 .. n -> Char] : n \in 0 .. MaxFile},
               fpos : {0}, open : {FALSE}, mode : {{}}, mem : {<<>>},
               area : {"buf"}, gn : {0}, ge : {0}, pn : {0}, pe : {0},
               cur : {0}, pb : {Junk}]
    /\ limit = MaxFile /\ readable = TRUE
    /\ call = <<>> /\ ret = Ret(<<>>, 0)

-----------------------------------------------------------------------------
(* Assignments to the state: setg(), gbump(), setp(), pbump() of the       *)
(* streambuf, m_cur_gsize, m_buf, m_putback, and the descriptor.           *)
SetG(s, area, gn, ge) == [s EXCEPT !.area = area, !.gn = gn, !.ge = ge]
gbump(s, n) == SetG(s, s.area, s.gn + n, s.ge)
SetP(s, pn, pe) == [s EXCEPT !.pn = pn, !.pe = pe]
pbump(s, n) == SetP(s, s.pn + n, s.pe)
SetCur(s, cur) == [s EXCEPT !.cur = cur]
SetMem(s, mem) == [s EXCEPT !.mem = mem]
SetPb(s, c) == [s EXCEPT !.pb = c]
SetFile(s, file, fpos) == [s EXCEPT !.file = file, !.fpos = fpos]
SetMode(s, open, mode) == [s EXCEPT !.open = open, !.mode = mode]

-----------------------------------------------------------------------------
(* The descriptor: sys::write_file, read_file and seek_file.               *)

(* write() of the characters c: the device takes a part of them only when  *)
(* it is limited; an error counts as 0.                                    *)
Taken(s, c) == IF s.open THEN Min2(Len(c), limit) ELSE 0

WriteFile(s, c) ==
    LET n  == Taken(s, c)
        at == IF "app" \in s.mode THEN Len(s.file) ELSE s.fpos
    IN  IF n = 0 THEN s ELSE SetFile(s, WriteAt(s.file, at, SubSeq(c, 1, n)), at + n)

(* What read() of n bytes returns: nothing at the end of the file, which   *)
(* is what an error counts as, too.                                        *)
Available(s, n) ==
    IF ~readable \/ s.fpos >= Len(s.file) THEN <<>>
    ELSE SubSeq(s.file, s.fpos + 1, Min2(s.fpos + n, Len(s.file)))

(* lseek(): the descriptor does not move if there is no such position.     *)
SeekFile(s, base, off) ==
    IF base + off >= 0 THEN SetFile(s, s.file, base + off) ELSE s

-----------------------------------------------------------------------------
(* The private members.                                                    *)
Size(s) == Len(s.mem)
Pending(s) == SubSeq(s.mem, 1, s.pn)

m_init(s) ==
    SetP(SetG(SetCur(s, 0), "buf", 0, 0),
         0, IF "out" \in s.mode THEN Size(s) ELSE 0)

(* Mutation of m_input_size: m_cur_gsize is forgotten.                     *)
AreaSize(s) == s.ge - s.gn

m_input_size(s) == s.ge - s.gn + (IF s.area = "pb" THEN s.cur ELSE 0)

m_flush_input(s) ==
    SetG(SetCur(SeekFile(s, s.fpos, -m_input_size(s)), 0), "buf", 0, 0)

(* Mutation of m_sync: input is not given back.                            *)
FlushOutput(s) == IF s.pn > 0 THEN m_init(WriteFile(s, Pending(s))) ELSE s

m_sync(s) ==
    IF s.pn > 0 THEN m_init(WriteFile(s, Pending(s)))
    ELSE IF "in" \in s.mode THEN m_flush_input(s)
    ELSE s

(* Mutation of SyncFails: only a write of nothing counts as failure.       *)
SyncWritesNothing(s) == s.pn > 0 /\ Taken(s, Pending(s)) = 0

SyncFails(s) == s.pn > 0 /\ Taken(s, Pending(s)) # s.pn

(* Mutation of EndOutput: the put area stays, emptied.                     *)
EmptyOutput(s) == SetP(WriteFile(s, Pending(s)), 0, s.pe)

(* What underflow() and xsgetn() do with output: the result of the write   *)
(* is not looked at.                                                       *)
EndOutput(s) == SetP(WriteFile(s, Pending(s)), 0, 0)

(* s after bytes c were read into the buffer.                              *)
ReadInto(s, c) ==
    SetFile(SetMem(s, [i \in 1 .. Size(s) |-> IF i <= Len(c) THEN c[i] ELSE s.mem[i]]),
            s.file, s.fpos + Len(c))

(* Mutation of Fill: what was read is taken to be a full buffer.           *)
FillAll(s, n) ==
    LET c == Available(s, Size(s)) IN
    SetG(SetCur(ReadInto(s, c), Size(s)), "buf", Min2(n, Len(c)), Size(s))

(* m_cur_gsize = m_readfile (m_buf, m_buf_size), of which n are consumed.  *)
Fill(s, n) ==
    LET c == Available(s, Size(s)) IN
    SetG(SetCur(ReadInto(s, c), Len(c)), "buf", Min2(n, Len(c)), Len(c))

(* m_readfile (&m_putback, 1)                                              *)
FillPutback(s) ==
    LET c == Available(s, 1) IN
    SetG(SetPb(SetFile(SetCur(s, 0), s.file, s.fpos + Len(c)), IF c = <<>> THEN s.pb ELSE c[1]),
         "pb", 0, Len(c))

underflow(s) ==
    IF "in" \notin s.mode \/ s.gn < s.ge THEN s
    ELSE IF s.area = "pb" /\ s.cur > 0 THEN SetG(s, "buf", 0, s.cur)
    ELSE IF Size(s) > 0 THEN Fill(EndOutput(s), 0)
    ELSE FillPutback(s)

(* The characters of the get area from gptr() on, and the one before it.   *)
Chars(s, from, to) ==
    IF s.area = "buf" THEN SubSeq(s.mem, from + 1, to)
    ELSE SubSeq(<<s.pb>>, from + 1, to)
Unread(s) == Chars(s, s.gn, s.ge)

-----------------------------------------------------------------------------
(* xsgetn (buf, size): first the pushed back character, then the buffer,   *)
(* then the file, through the buffer unless the rest is as large as it.    *)
TakePutback(s) == IF s.area = "pb" THEN SetG(s, "buf", 0, s.cur) ELSE s

xsgetn(s, size) ==
    LET ended  == EndOutput(s)
        first  == IF s.area = "pb" THEN Unread(ended) ELSE <<>>
        inbuf  == TakePutback(ended)
        second == First(Unread(inbuf), size - Len(first))
        rest   == size - Len(first) - Len(second)
        used   == gbump(inbuf, Len(second))
        third  == Available(used, rest)
        after  == IF rest = 0 THEN used
                  ELSE IF rest < Size(s) THEN Fill(used, rest)
                  ELSE SetG(SetCur(SetFile(used, used.file, used.fpos + Len(third)), 0),
                            "buf", 0, 0)
    IN  IF size = 0 \/ "in" \notin s.mode THEN [fb |-> s, got |-> <<>>]
        ELSE [fb |-> after, got |-> first \o second \o third]

(* pbackfail (c) for a character c.                                        *)
CanPutBack(s) ==
    /\ "in" \in s.mode /\ s.pe = 0
    /\ s.gn > 0 \/ s.area # "pb"

pbackfail(s, c) ==
    IF ~CanPutBack(s) THEN s
    ELSE IF s.gn = 0 THEN SetG(SetPb(s, c), "pb", 0, 1)
    ELSE IF s.area = "pb" THEN SetPb(gbump(s, -1), c)
    ELSE SetMem(gbump(s, -1), [s.mem EXCEPT ![s.gn] = c])

StoreChars(s, c) ==
    pbump(SetMem(s, [i \in 1 .. Len(s.mem) |->
                        IF i > s.pn /\ i <= s.pn + Len(c) THEN c[i - s.pn] ELSE s.mem[i]]),
          Len(c))

(* setp (m_buf, m_buf+m_buf_size), unless there is a put area.             *)
BeginOutput(s) == IF s.pe = 0 THEN SetP(s, 0, Size(s)) ELSE s

(* overflow (c): n is 1 if c was taken.                                    *)
overflow(s, c) ==
    IF "out" \notin s.mode THEN [fb |-> s, n |-> 0]
    ELSE IF Size(s) = 0
    THEN LET f == IF "in" \in s.mode THEN m_flush_input(s) ELSE s IN
         [fb |-> WriteFile(f, <<c>>), n |-> Taken(f, <<c>>)]
    ELSE LET b == BeginOutput(s) IN
         IF SyncFails(b) THEN [fb |-> m_sync(b), n |-> 0]
         ELSE [fb |-> StoreChars(m_sync(b), <<c>>), n |-> 1]

sputc(s, c) ==
    IF s.pn < s.pe THEN [fb |-> StoreChars(s, <<c>>), n |-> 1] ELSE overflow(s, c)

(* std::streambuf::xsputn: as much as fits, then overflow() with the next  *)
(* character makes room for the others.                                    *)
StdXsputn(s, c) ==
    LET k == Min2(Len(c), s.pe - s.pn)
        b == StoreChars(s, SubSeq(c, 1, k))
        o == overflow(b, c[k + 1])
    IN  IF k = Len(c) THEN [fb |-> b, n |-> k]
        ELSE IF o.n = 0 THEN [fb |-> o.fb, n |-> k]
        ELSE [fb |-> StoreChars(o.fb, SubSeq(c, k + 2, Len(c))), n |-> Len(c)]

xsputn(s, c) ==
    IF "out" \notin s.mode THEN [fb |-> s, n |-> 0]
    ELSE IF Len(c) > Size(s)
    THEN LET f == m_sync(s) IN
         IF SyncFails(s) THEN [fb |-> f, n |-> 0]
         ELSE [fb |-> WriteFile(f, c), n |-> Taken(f, c)]
    ELSE LET f == IF "in" \in s.mode THEN m_flush_input(s) ELSE s
         IN  StdXsputn(BeginOutput(f), c)

-----------------------------------------------------------------------------
(* The actions.                                                            *)
Finish(s, c, r) == fb' = s /\ call' = c /\ ret' = r /\ UNCHANGED <<limit, readable>>

NewBuffer(size) == [i \in 1 .. size |-> Junk]

(* open (filename, mode), by ios_to_sys (mode) and create_file(), whose    *)
(* failure is up to the system.                                            *)
Open(m) ==
    \/ /\ ~fb.open
       /\ LET file == IF "trunc" \in m THEN <<>> ELSE fb.file
              mem  == IF fb.mem = <<>> THEN NewBuffer(DefaultSize) ELSE fb.mem
              fpos == IF "ate" \in m THEN Len(file) ELSE 0
          IN  Finish(m_init(SetMode(SetFile(SetMem(fb, mem), file, fpos), TRUE, m)),
                     <<"open">>, Ret(<<>>, 0))
    \/ Finish(fb, <<"open">>, Ret(<<>>, -1))

(* What m_handle.close() may return: a device that fails makes ::close()   *)
(* fail, which gives the descriptor up all the same.                       *)
Closing == IF Working THEN {0} ELSE {0, -1}

(* Mutation of Close: m_mode stays.                                        *)
CloseHandle ==
    \/ /\ fb.open
       /\ \E rc \in Closing :
             Finish(SetMode(SetFile(m_sync(fb), m_sync(fb).file, 0), FALSE, fb.mode),
                    <<"close">>, Ret(<<>>, rc))
    \/ ~fb.open /\ Finish(fb, <<"close">>, Ret(<<>>, -1))

Close ==
    \/ /\ fb.open
       /\ \E rc \in Closing :
             Finish(SetMode(SetFile(m_sync(fb), m_sync(fb).file, 0), FALSE, {}),
                    <<"close">>, Ret(<<>>, rc))
    \/ ~fb.open /\ Finish(fb, <<"close">>, Ret(<<>>, -1))

(* pubsetbuf() after which mem is the buffer: a fresh one, none after      *)
(* pubsetbuf (0, 0), or the one there was if only one argument was 0.      *)
Buffers == {NewBuffer(size) : size \in BufSizes} \cup {fb.mem}

SetBuf(mem) ==
    IF m_input_size(fb) # 0
    THEN Finish(fb, <<"setbuf">>, Ret(<<>>, -1))
    ELSE Finish(m_init(SetMem(m_sync(fb), mem)), <<"setbuf">>, Ret(<<>>, 0))

Sgetc ==
    LET s == underflow(fb) IN
    Finish(s, <<"sgetc">>, Ret(First(Unread(s), 1), Len(First(Unread(s), 1))))

Sbumpc ==
    LET s == underflow(fb)
        c == First(Unread(s), 1)
    IN  Finish(gbump(s, Len(c)), <<"sbumpc">>, Ret(c, Len(c)))

Sgetn(n) ==
    LET r == xsgetn(fb, n) IN Finish(r.fb, <<"sgetn", n>>, Ret(r.got, Len(r.got)))

(* sungetc(): pbackfail() of end-of-file refuses.                          *)
Sungetc ==
    IF fb.gn > 0
    THEN Finish(gbump(fb, -1),
                <<"sungetc">>, Ret(Chars(fb, fb.gn - 1, fb.gn), 1))
    ELSE Finish(fb, <<"sungetc">>, Ret(<<>>, 0))

Sputbackc(c) ==
    /\ UnderBegin \/ ~fb.open \/ fb.fpos > m_input_size(fb)
    /\ IF fb.gn > 0 /\ Chars(fb, fb.gn - 1, fb.gn) = <<c>>
       THEN Finish(gbump(fb, -1), <<"sputbackc", c>>, Ret(<<c>>, 1))
       ELSE IF CanPutBack(fb)
       THEN Finish(pbackfail(fb, c), <<"sputbackc", c>>, Ret(<<c>>, 1))
       ELSE Finish(fb, <<"sputbackc", c>>, Ret(<<>>, 0))

(* What the file will be long when all output has reached it.              *)
Position(s) ==
    IF s.pn > 0 THEN (IF "app" \in s.mode THEN Len(s.file) ELSE s.fpos) + s.pn
    ELSE s.fpos - m_input_size(s)
Fits(n) ==
    /\ Position(fb) + n <= MaxFile
    /\ "app" \in fb.mode => Len(fb.file) + fb.pn + n <= MaxFile

Sputc(c) ==
    /\ Fits(1)
    /\ LET r == sputc(fb, c) IN Finish(r.fb, <<"sputc", c>>, Ret(IF r.n = 1 THEN <<c>> ELSE <<>>, r.n))

Sputn(c) ==
    /\ Fits(Len(c))
    /\ LET r == xsputn(fb, c) IN Finish(r.fb, <<"sputn", c>>, Ret(First(c, r.n), r.n))

Sync == Finish(m_sync(fb), <<"sync">>, Ret(<<>>, IF SyncFails(fb) THEN -1 ELSE 0))

(* pubseekoff (off, way); pubseekpos (off) is the way "beg".               *)
Base(s, way) ==
    CASE way = "beg" -> 0
      [] way = "cur" -> s.fpos
      [] way = "end" -> Len(s.file)

Seek(way, off) ==
    LET s == m_sync(fb)
        p == Base(s, way) + off
    IN  /\ p <= MaxFile
        /\ IF ~fb.open THEN Finish(fb, <<"seek", way, off>>, Ret(<<>>, -1))
           ELSE IF SyncFails(fb) THEN Finish(s, <<"seek", way, off>>, Ret(<<>>, -1))
           ELSE Finish(SeekFile(s, Base(s, way), off),
                       <<"seek", way, off>>, Ret(<<>>, IF p >= 0 THEN p ELSE -1))

(* The device fills up or fails, has room again or works again.            *)
Device ==
    /\ \E d \in Devices \ {<<limit, readable>>} : limit' = d[1] /\ readable' = d[2]
    /\ UNCHANGED <<fb, call, ret>>

Next ==
    \/ \E m \in Modes : Open(m)
    \/ Close
    \/ \E mem \in Buffers : SetBuf(mem)
    \/ Sgetc
    \/ Sbumpc
    \/ \E n \in 1 .. MaxString : Sgetn(n)
    \/ Sungetc
    \/ \E c \in Char : Sputbackc(c) \/ Sputc(c)
    \/ \E c \in Strings : Sputn(c)
    \/ Sync
    \/ \E way \in {"beg", "cur", "end"}, off \in Offsets : Seek(way, off)
    \/ Device

Spec == Init /\ [][Next]_vars

-----------------------------------------------------------------------------
State == [file : Seq(Char \cup {Hole}), fpos : Nat, open : BOOLEAN,
          mode : Modes \cup {{}}, mem : Seq(Char \cup {Hole, Junk}),
          area : {"buf", "pb"}, gn : Nat, ge : Nat, pn : Nat, pe : Nat,
          cur : Nat, pb : Char \cup {Hole, Junk}]

TypeOK == fb \in State /\ (fb.open <=> fb.mode # {}) /\ <<limit, readable>> \in Devices

(* Every pointer stays within its memory, and m_cur_gsize is the size of   *)
(* the input in m_buf also while the get area is the put-back character.   *)
Bounds(s) ==
    /\ s.gn <= s.ge /\ s.pn <= s.pe /\ s.pe <= Len(s.mem)
    /\ s.cur <= Len(s.mem)
    /\ s.area = "buf" => s.ge = s.cur
    /\ s.area = "pb" => s.ge <= 1

(* There is no input in a stream that was not opened to read.              *)
InputMode(s) == "in" \notin s.mode => s.area = "buf" /\ s.ge = 0

(* Output is only gathered while there is no input in the buffer.          *)
Apart(s) == s.pe > 0 => s.area = "buf" /\ s.ge = 0

(* What waits to be written was put there, what can be read came from the  *)
(* file or was pushed back.                                                *)
Initialised(s) ==
    /\ \A i \in 1 .. s.pn : s.mem[i] \in Char
    /\ \A i \in 1 .. s.cur : s.mem[i] \in Char \cup {Hole}
    /\ s.area = "pb" /\ s.ge = 1 => s.pb \in Char \cup {Hole}

(* No byte of uninitialized memory, of the buffer or of m_putback, is      *)
(* handed to the reader or written to the file.                            *)
NoJunk == Initialised(fb)

(* The two areas share one buffer, which is safe: neither reading nor      *)
(* pushing back touches characters that wait to be written, nor does a     *)
(* character that is put overwrite one that was read ahead and not         *)
(* returned to the file.  A failing device makes no difference.            *)
AreasApart == Bounds(fb) /\ InputMode(fb) /\ Apart(fb)

(* sync() discards the input that was read ahead and puts the descriptor   *)
(* back, so that no character of the file is skipped that was not read.    *)
FirstUnread(s) == s.fpos - (IF s.area = "pb" THEN s.cur ELSE s.ge - s.gn)
SyncSkipsNothing ==
    [][call' = <<"sync">> /\ fb.pn = 0 => FirstUnread(fb') <= FirstUnread(fb)]_vars

-----------------------------------------------------------------------------
(* The refinement mapping to FileStream: output that waits in the buffer   *)
(* counts as written; a character of the get area counts as pushed back if *)
(* the file has another at its position, which follows from fpos.          *)
StreamData ==
    IF fb.open /\ fb.pn > 0
    THEN WriteAt(fb.file, IF "app" \in fb.mode THEN Len(fb.file) ELSE fb.fpos, Pending(fb))
    ELSE fb.file

WindowStart == fb.fpos - fb.cur
InWindow ==
    IF ~fb.open \/ fb.pe > 0 THEN {}
    ELSE WindowStart .. fb.fpos - 1
         \cup (IF fb.area = "pb" /\ fb.ge = 1 THEN {WindowStart - 1} ELSE {})
Window(p) == IF p < WindowStart THEN fb.pb ELSE fb.mem[p - WindowStart + 1]

StreamOver ==
    [p \in {q \in InWindow : q + 1 \notin DOMAIN fb.file \/ fb.file[q + 1] # Window(q)}
        |-> Window(p)]

Stream == INSTANCE FileStream WITH
    data <- StreamData, pos <- IF fb.open THEN Position(fb) ELSE 0,
    over <- StreamOver, mode <- fb.mode

(* A character that waits in the buffer of an open stream, and after the   *)
(* step neither waits nor is in the file.                                  *)
Lost ==
    /\ fb.open /\ fb.pn > 0
    /\ \E p \in Position(fb) - fb.pn + 1 .. Position(fb) :
           p \notin DOMAIN StreamData' \/ StreamData'[p] # StreamData[p]

(* The calls that put out, sync or seek never swallow the failure of a     *)
(* write: when characters accepted earlier do not reach the file the call  *)
(* says so.                                                                *)
LossReported ==
    [][Lost => CASE call'[1] \in {"sync", "seek"} -> ret'.n = -1
                 [] call'[1] = "sputc" -> ret'.n = 0
                 [] call'[1] = "sputn" -> ret'.n < Len(call'[2])
                 [] OTHER -> TRUE]_vars

(* close() is the last call that could tell: it fails when the output it   *)
(* flushes does not reach the file.                                        *)
CloseReportsLoss == [][Lost /\ call' = <<"close">> => ret'.n = -1]_vars

(* While its device works a filebuf is a FileStream: through any sequence  *)
(* of reading, pushing back, writing, seeking, syncing, replacing the      *)
(* buffer, closing and opening again, every call returns what the          *)
(* unbuffered file would, and no output is lost or misplaced.  It makes no *)
(* difference what calls the device failed before.                         *)
StreamSpec == Stream!Init /\ [][Working => Stream!Next]_(Stream!vars)
=============================================================================
