------------------------------ MODULE TextMode ------------------------------
(***************************************************************************)
(* Text mode of sys::filebuf, in the Windows build (fstream.cc 272-459):   *)
(* "\r\n" in the file is '\n' in the stream.  The stream is open to read   *)
(* and to append.  The get area is the characters already passed (before), *)
(* those still to come (next), and, while the put-back character is the    *)
(* get area, what is left in m_buf (rest).                                 *)
(*                                                                         *)
(* Client rules: only the character that was read last is put back, a      *)
(* line end in the file is "\r\n", as m_flush_text() counts on, and the    *)
(* file is a disk file, of which a read gets all there is.                 *)
(***************************************************************************)
EXTENDS Integers, Sequences, FiniteSets, SequencesExt

CONSTANTS
    Letter,     \* the characters other than "\r" and "\n"
    BufSize,    \* the size of m_buf
    TextBuf,    \* text_writer::text_buf_size
    Texts,      \* the arguments of sputn(), longer than m_buf
    TextFiles,      \* the files at the start
    Rooms,      \* how many bytes the device still takes
    MaxRead,    \* bound: the characters asked of sgetn()
    MaxText     \* bound: the length of the file

CR == "\r"
NL == "\n"
TextChar == Letter \cup {CR, NL}

InLines(f) == \A i \in DOMAIN f : f[i] = NL => i > 1 /\ f[i - 1] = CR

ASSUME TextModeAssumption ==
    /\ Letter \cap {CR, NL} = {}
    /\ BufSize \in Nat \ {0} /\ TextBuf \in Nat \ {0} /\ MaxRead \in Nat /\ MaxText \in Nat
    /\ Texts \subseteq Seq(TextChar) /\ Rooms \subseteq Nat
    /\ TextFiles \subseteq Seq(TextChar) /\ \A f \in TextFiles : InLines(f)

VARIABLES
    bytes,  \* the file
    fpos,   \* the position of its handle
    area,   \* the get area
    base,   \* where reading began, or went on after output
    got,    \* the characters read since then
    ret     \* what the last call returned

textvars == <<bytes, fpos, area, base, got, ret>>

Area(before, next, rest, pb) == [before |-> before, next |-> next, rest |-> rest, pb |-> pb]
NoArea == Area(<<>>, <<>>, <<>>, FALSE)
Unread == area.next \o area.rest

From(f, p) == SubSeq(f, p + 1, Len(f))
Firsts(s, n) == SubSeq(s, 1, IF n < Len(s) THEN n ELSE Len(s))
Count(c, s) == Cardinality({i \in DOMAIN s : s[i] = c})
Places(c, s, at) == {i \in DOMAIN s : i > at /\ s[i] = c}
First(S) == CHOOSE i \in S : \A j \in S : i <= j

-----------------------------------------------------------------------------
(* m_read_text().  b is what was read, with the pointer buf at index at,   *)
(* which is at the end of b when the loop ends, and tail places at its end *)
(* that are free again.                                                    *)
Taken(s, n) == Firsts(From(bytes, s.pos), n)
Ended(s) == [s EXCEPT !.at = Len(s.b)]

Refilled(s) ==
    LET more == Taken(s, s.tail) IN
    [s EXCEPT !.b = @ \o more, !.tail = 0, !.pos = @ + Len(more),
              !.eof = Len(more) # s.tail]

(* After the "\r" in place i.                                              *)
Passed(s, i) ==
    IF s.b[i + 1] = NL
    THEN [s EXCEPT !.b = SubSeq(@, 1, i - 1) \o From(@, i), !.at = i, !.tail = @ + 1]
    ELSE [s EXCEPT !.at = i]

(* A "\r" in the last place of a full buffer: look at the next character.  *)
LookedAhead(s) ==
    IF Taken(s, 1) = <<NL>>
    THEN [s EXCEPT !.b[Len(s.b)] = NL, !.pos = @ + 1]
    ELSE s

(* A turn of the loop.                                                     *)
Scan(s) ==
    LET crs == Places(CR, s.b, s.at)
        i == First(crs)
        dry == s.eof \/ s.tail = 0 \/ Taken(s, s.tail) = <<>>
    IN  IF s.at = Len(s.b) THEN s
        ELSE IF crs = {} THEN IF dry THEN Ended(s) ELSE [Refilled(s) EXCEPT !.at = Len(s.b)]
        ELSE IF i < Len(s.b) THEN Passed(s, i)
        ELSE IF s.eof THEN Ended(s)
        ELSE IF s.tail = 0 THEN Ended(LookedAhead(s))
        ELSE IF dry THEN Ended(s)
        ELSE Passed(Refilled(s), i)

(* As every turn moves at, there are no more than size of them.            *)
m_read_text(size) ==
    LET read == Firsts(From(bytes, fpos), size)
        scan[k \in 0 .. size] ==
            IF k = 0 THEN [b |-> read, at |-> 0, tail |-> 0, pos |-> fpos + Len(read),
                           eof |-> Len(read) # size]
            ELSE Scan(scan[k - 1])
    IN  scan[size]

-----------------------------------------------------------------------------
(* Mutation of m_flush_text: a '\n' counts once.                           *)
m_flush_chars(f, p) == IF p >= Len(Unread) THEN p - Len(Unread) ELSE p

(* m_flush_text(): back over what was not read, a '\n' counting twice.     *)
m_flush_text(f, p) ==
    LET to == p - Len(Unread) - Count(NL, Unread)
    IN  IF to >= 0 THEN to ELSE p

-----------------------------------------------------------------------------
(* text_writer.  w has the file, the room of the device, the translation   *)
(* buffer (out), written, newline_count (nl), what is left of the string,  *)
(* and whether all was well.                                               *)
sys_write(w, s) ==
    LET k == IF Len(s) < w.room THEN Len(s) ELSE w.room IN
    [w EXCEPT !.file = @ \o Firsts(s, k), !.room = @ - k, !.written = @ + k, !.ok = k = Len(s)]

(* Mutation of Flush: the "\r" are counted, too.                           *)
FlushCounting(w) == [sys_write(w, w.out) EXCEPT !.out = <<>>, !.nl = 0]

Flush(w) ==
    LET done == sys_write(w, w.out)
        lines == IF done.ok THEN w.nl ELSE Count(NL, Firsts(w.out, w.room))
    IN  [done EXCEPT !.out = <<>>, !.nl = 0, !.written = @ - lines]

Room(w) == TextBuf - Len(w.out)
Fill(w, s) == [w EXCEPT !.out = @ \o s]

(* append (chr) and append (str, len).                                     *)
AppendChar(w, c) ==
    LET w1 == IF w.ok /\ Room(w) = 0 THEN Flush(w) ELSE w
    IN  IF w1.ok THEN Fill(w1, <<c>>) ELSE w1

AppendText(w, s) ==
    IF Len(s) >= TextBuf
    THEN LET w1 == IF w.out # <<>> THEN Flush(w) ELSE w
         IN  IF w1.ok THEN sys_write(w1, s) ELSE w1
    ELSE IF Len(s) <= Room(w) THEN Fill(w, s)
    ELSE LET w1 == Flush(Fill(w, Firsts(s, Room(w))))
         IN  IF w1.ok THEN Fill(w1, From(s, Room(w))) ELSE w1

EndLine(w) ==
    LET w1 == AppendChar(AppendChar(w, CR), NL)
    IN  IF w1.ok THEN [w1 EXCEPT !.nl = @ + 1] ELSE w1

(* What follows the last line end.                                         *)
LastLine(w, s) ==
    IF s = <<>> THEN IF w.out = <<>> THEN w ELSE Flush(w)
    ELSE IF w.out = <<>> THEN sys_write(w, s)
    ELSE IF Len(s) <= Room(w) THEN Flush(Fill(w, s))
    ELSE LET w1 == Flush(w) IN IF w1.ok THEN sys_write(w1, s) ELSE w1

(* A turn of the loop.                                                     *)
Line(w) ==
    LET i == First(Places(NL, w.left, 0))
        w1 == IF i > 1 THEN AppendText(w, SubSeq(w.left, 1, i - 1)) ELSE w
        w2 == IF w1.ok THEN EndLine(w1) ELSE w1
    IN  IF w.ok /\ Places(NL, w.left, 0) # {} THEN [w2 EXCEPT !.left = From(@, i)] ELSE w

m_write_text(f, room, s) ==
    LET lines[k \in 0 .. Len(s)] ==
            IF k = 0 THEN [file |-> f, room |-> room, out |-> <<>>, written |-> 0, nl |-> 0,
                           left |-> s, ok |-> TRUE]
            ELSE Line(lines[k - 1])
        w == lines[Len(s)]
    IN  IF w.ok THEN LastLine(w, w.left) ELSE w

-----------------------------------------------------------------------------
TextInit ==
    /\ bytes \in TextFiles /\ fpos = 0 /\ base = 0
    /\ area = NoArea /\ got = <<>> /\ ret = <<>>

Deliver(chars, to) ==
    /\ ret' = chars /\ got' = got \o chars /\ area' = to
    /\ UNCHANGED <<bytes, base>>

Consumed(a) == Area(Append(a.before, Head(a.next)), Tail(a.next), a.rest, a.pb)

(* underflow(), by sbumpc().                                               *)
Sbumpc ==
    LET read == m_read_text(BufSize) IN
    IF area.next # <<>>
    THEN Deliver(<<Head(area.next)>>, Consumed(area)) /\ UNCHANGED fpos
    ELSE IF area.rest # <<>>
    THEN Deliver(<<Head(area.rest)>>, Consumed(Area(<<>>, area.rest, <<>>, FALSE))) /\ UNCHANGED fpos
    ELSE /\ fpos' = read.pos
         /\ IF read.b = <<>> THEN Deliver(<<>>, NoArea)
            ELSE Deliver(<<Head(read.b)>>, Consumed(Area(<<>>, read.b, <<>>, FALSE)))

(* xsgetn(), by sgetn (n): what is there, then a read, through the buffer  *)
(* if it is for less than that holds.                                      *)
Sgetn(n) ==
    LET have == Firsts(Unread, n)
        left == n - Len(have)
        all == area.before \o area.next
        read == m_read_text(IF left < BufSize THEN BufSize ELSE left)
    IN  IF left = 0
        THEN /\ UNCHANGED fpos
             /\ IF area.pb THEN Deliver(have, Area(Firsts(area.rest, n - Len(area.next)),
                                                   From(area.rest, n - Len(area.next)), <<>>, FALSE))
                ELSE Deliver(have, Area(Firsts(all, Len(area.before) + n),
                                        From(all, Len(area.before) + n), <<>>, FALSE))
        ELSE /\ fpos' = read.pos
             /\ IF left < BufSize
                THEN Deliver(have \o Firsts(read.b, left),
                             Area(Firsts(read.b, left), From(read.b, left), <<>>, FALSE))
                ELSE Deliver(have \o read.b, NoArea)

(* pbackfail(), by sputbackc() of the character read last.                 *)
PutBack ==
    LET c == got[Len(got)]
        n == Len(area.before)
    IN  /\ got # <<>>
        /\ IF n > 0
           THEN area' = Area(Firsts(area.before, n - 1), <<c>> \o area.next, area.rest, area.pb)
           ELSE ~area.pb /\ area' = Area(<<>>, <<c>>, area.next, TRUE)
        /\ got' = Firsts(got, Len(got) - 1) /\ ret' = <<c>>
        /\ UNCHANGED <<bytes, fpos, base>>

(* m_flush_input(), by sync().                                             *)
Sync ==
    /\ fpos' = IF Unread # <<>> THEN m_flush_text(bytes, fpos) ELSE fpos
    /\ area' = NoArea /\ ret' = <<>>
    /\ UNCHANGED <<bytes, base, got>>

(* xsputn() of what does not fit into m_buf: m_sync(), then m_writefile()  *)
(* at the end of the bytes.                                                 *)
Sputn(s, room) ==
    LET w == m_write_text(bytes, room, s) IN
    /\ Len(s) > BufSize /\ Len(bytes) + 2 * Len(s) <= MaxText
    /\ bytes' = w.file /\ fpos' = Len(w.file)
    /\ ret' = <<s, w.written>>
    /\ area' = NoArea /\ base' = Len(w.file) /\ got' = <<>>

(* seekpos (0).                                                            *)
SeekStart ==
    /\ fpos' = 0 /\ base' = 0 /\ got' = <<>> /\ area' = NoArea /\ ret' = <<>>
    /\ UNCHANGED bytes

TextNext ==
    \/ Sbumpc
    \/ \E n \in 1 .. MaxRead : Sgetn(n)
    \/ PutBack \/ Sync \/ SeekStart
    \/ \E s \in Texts, room \in Rooms : Sputn(s, room)

TextSpec == TextInit /\ [][TextNext]_textvars

-----------------------------------------------------------------------------
(* The text of the bytes f: without the "\r" of every "\r\n".              *)
Text(f) ==
    FlattenSeq([i \in DOMAIN f |->
        IF f[i] = CR /\ i < Len(f) /\ f[i + 1] = NL THEN <<>> ELSE <<f[i]>>])

TextTypeOK ==
    /\ fpos \in 0 .. Len(bytes) /\ base \in 0 .. Len(bytes)
    /\ \A i \in DOMAIN bytes : bytes[i] \in Letter \cup {CR, NL}
    /\ Len(area.before \o area.next) <= BufSize /\ Len(area.rest) <= BufSize

(* Reading gives the text of the bytes, in order and all of it, wherever    *)
(* the buffer cuts a "\r\n" in two, and whether or not what was read ahead *)
(* is given back and read again (m_read_text(), m_flush_text()).           *)
ReadsText == TextTypeOK /\ got \o Unread \o Text(From(bytes, fpos)) = Text(From(bytes, base))

(* m_write_text() writes a beginning of the translated text, however the   *)
(* translation buffer and the device cut it, and in the number it returns  *)
(* every character counts that is in the file in full, and none of which   *)
(* there is nothing (fstream.hpp 481-494).                                 *)
Crlf(s) == FlattenSeq([i \in DOMAIN s |-> IF s[i] = NL THEN <<CR, NL>> ELSE <<s[i]>>])

WritesText ==
    [][\A s \in Texts, n \in 0 .. MaxText :
         bytes' # bytes /\ ret' = <<s, n>> =>
            LET added == From(bytes', Len(bytes)) IN
            /\ IsPrefix(added, Crlf(s))
            /\ Len(Crlf(Firsts(s, n - 1))) < Len(added)
            /\ n < Len(s) => Len(added) < Len(Crlf(Firsts(s, n + 1)))]_textvars

(* "Returns: number of source characters successfully written"             *)
(* (fstream.hpp:487): when the whole length of the string is returned, all *)
(* of it is in the file.                                                   *)
TextLossReported ==
    [][\A s \in Texts :
         bytes' # bytes /\ ret' = <<s, Len(s)>> => IsSuffix(Crlf(s), bytes')]_textvars
=============================================================================
