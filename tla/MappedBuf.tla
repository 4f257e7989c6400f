----------------------------- MODULE MappedBuf -----------------------------
(***************************************************************************)
(* sys::mapped_buf (membuf.hpp, membuf.cc): a streambuf whose get area and *)
(* put area both are the window of a file that its view maps.              *)
(*                                                                         *)
(* A pointer of an area is a base and an offset from it.  The base is      *)
(* "win", the mapped window; "old", a window that is mapped no longer; or  *)
(* "zero", the null pointer: setg (0, 0, 0) is base "zero" with offsets 0. *)
(* An access that is not through "win" is a fault, which ends the program. *)
(***************************************************************************)
EXTENDS MapView, Sequences

CONSTANTS
    Char,           \* the bytes of the file
    Accesses,       \* the ways the file is opened: "read", "write", "copy"
    PageSize,       \* page_size()
    MaxSize,        \* bound: the length of the file
    MaxOffset,      \* bound: m_offset, which calls that throw push on and on
    Strings,        \* the arguments of sputn()
    Lengths,        \* the arguments of sgetn(), greserve() and preserve()
    Offsets,        \* the arguments of pubseekoff()
    JunkSizes,      \* what m_view.msize may hold before the first mapping
    MemoryFails     \* may mmap() fail?

ASSUME MappedAssumption ==
    /\ Accesses \subseteq {"read", "write", "copy"}
    /\ PageSize \in Nat \ {0} /\ MaxSize \in Nat /\ MaxOffset \in Nat
    /\ Strings \subseteq Seq(Char) /\ Lengths \subseteq Nat /\ Offsets \subseteq Int
    /\ JunkSizes \subseteq Nat /\ MemoryFails \in BOOLEAN

VARIABLES
    mb,     \* the mapped_buf, its view and the file
    nomem,  \* does mmap() fail now?
    call,   \* the last call, with its arguments
    ret,    \* its outcome: "ok", "throw" or a fault, characters and a number
    thrown  \* has any call thrown so far?

vars == <<mb, nomem, call, ret, thrown>>

Min2(a, b) == IF a <= b THEN a ELSE b
Max2(a, b) == IF a >= b THEN a ELSE b

(* What a call that does not answer leaves in ret.                         *)
Nothing == [out |-> "ok", chars |-> <<>>, n |-> 0]

(* The fields of mb: file; access; bound, m_view.is_bound(); mapped,       *)
(* m_view.area is not null; woff, where in the file the window was mapped, *)
(* and win, its bytes; msize, m_view.msize; off, m_offset; gb, gn and ge,  *)
(* the base of the get area, gptr() and egptr(); pb, pn and pe likewise.   *)
Init ==
    /\ mb \in [file : UNION {[1 .. n -> Char] : n \in 0 .. MaxSize},
               access : {"read"}, bound : {FALSE}, mapped : {FALSE},
               woff : {0}, win : {<<>>}, msize : JunkSizes, off : {0},
               gb : {"zero"}, gn : {0}, ge : {0}, pb : {"zero"}, pn : {0}, pe : {0}]
    /\ nomem = FALSE
    /\ call = <<"none">> /\ ret = Nothing
    /\ thrown = FALSE

-----------------------------------------------------------------------------
(* Assignments to the state.                                               *)
SetG(s, b, n, e) == [s EXCEPT !.gb = b, !.gn = n, !.ge = e]
SetP(s, b, n, e) == [s EXCEPT !.pb = b, !.pn = n, !.pe = e]
gbump(s, n) == SetG(s, s.gb, s.gn + n, s.ge)
pbump(s, n) == SetP(s, s.pb, s.pn + n, s.pe)
SetOffset(s, off) == [s EXCEPT !.off = off]
NoAreas(s) == SetP(SetG(s, "zero", 0, 0), "zero", 0, 0)

MapSize(s) == Len(s.file)

(* m_view.begin(), from which m_setg_ex() and m_setp_ex() start.           *)
ViewBase(s) == IF s.mapped THEN "win" ELSE "zero"
m_setg_ex(s, offset) == SetG(s, ViewBase(s), offset, s.msize)
m_setp_ex(s, offset) == SetP(s, ViewBase(s), offset, s.msize)

(* m_view.unmap(): the areas are left to their own devices.                *)
Old(b) == IF b = "win" THEN "old" ELSE b
Unmap(s) == [s EXCEPT !.mapped = FALSE, !.win = <<>>, !.gb = Old(@), !.pb = Old(@)]

(* m_view.remap (m_offset, n), when it does not throw; m_reset().          *)
Window(s, n) ==
    LET size == ByteSize(MapSize(s), s.off, n)
        w == [s EXCEPT !.mapped = TRUE, !.woff = s.off, !.msize = size,
                       !.win = SubSeq(s.file, s.off + 1, s.off + size)]
    IN  m_setp_ex(m_setg_ex(w, 0), 0)

(* m_remap (sz): do_remap() throws when m_offset is not within the file,   *)
(* or when there is no memory; the old window is gone by then.             *)
CanRemap(s) == ~nomem /\ InRange(MapSize(s), s.off, 1)
m_remap(s, sz) == IF CanRemap(s) THEN Window(s, Max2(sz, PageSize)) ELSE Unmap(s)

(* A string to be returned, and the outcome of a call.                     *)
Done(s, chars, n) == [mb |-> s, out |-> "ok", chars |-> chars, n |-> n]
Threw(s) == [mb |-> s, out |-> "throw", chars |-> <<>>, n |-> -1]
Fault(s, why) == [mb |-> s, out |-> why, chars |-> <<>>, n |-> -1]

Chars(s, n) == SubSeq(s.win, s.gn + 1, s.gn + n)

(* c stored at pptr(): in the window, and in the file if it is shared.     *)
Overwrite(f, at, c) ==
    [i \in DOMAIN f |-> IF i > at /\ i <= at + Len(c) THEN c[i - at] ELSE f[i]]
StoreChars(s, c) ==
    pbump([s EXCEPT !.win = Overwrite(@, s.pn, c),
                    !.file = IF s.access = "write" THEN Overwrite(@, s.woff + s.pn, c) ELSE @],
          Len(c))
Put(s, c) ==
    IF s.pb # "win" THEN Fault(s, "unmapped")
    ELSE IF s.access = "read" THEN Fault(s, "readonly")
    ELSE Done(StoreChars(s, c), c, Len(c))

-----------------------------------------------------------------------------
(* greserve (sz) and preserve (sz): the number of bytes available.         *)
greserve(s, sz) ==
    LET m == SetOffset(s, s.off + s.gn)
    IN  IF sz <= s.ge - s.gn THEN Done(s, <<>>, s.ge - s.gn)
        ELSE IF ~s.bound THEN Threw(Unmap(m))
        ELSE IF CanRemap(m) THEN LET r == m_remap(m, sz) IN Done(r, <<>>, r.ge - r.gn)
        ELSE Threw(m_remap(m, sz))

preserve(s, sz) ==
    LET m == SetOffset(s, s.off + s.pn)
    IN  IF sz <= s.pe - s.pn THEN Done(s, <<>>, s.pe - s.pn)
        ELSE IF ~s.bound THEN Threw(Unmap(m))
        ELSE IF CanRemap(m) THEN LET r == m_remap(m, sz) IN Done(r, <<>>, r.pe - r.pn)
        ELSE Threw(m_remap(m, sz))

(* xsgetn (buf, size): what the window has, then what greserve() maps.     *)
xsgetn(s, size) ==
    LET k      == Min2(size, s.ge - s.gn)
        first  == Chars(s, k)
        used   == gbump(s, k)
        more   == greserve(used, size - k)
        j      == Min2(size - k, more.n)
        second == Chars(more.mb, j)
        after  == gbump(more.mb, j)
    IN  IF k > 0 /\ s.gb # "win" THEN Fault(s, "unmapped")
        ELSE IF size = k THEN Done(m_setp_ex(used, used.gn), first, k)
        ELSE IF more.out = "throw" THEN Threw(more.mb)
        ELSE Done(m_setp_ex(after, after.gn), first \o second, k + j)

(* Mutation of underflow: the next window is taken to be one page on.      *)
NextPage(s) ==
    LET m == SetOffset(s, s.off + PageSize)
    IN  IF s.gn < s.ge
        THEN IF s.gb = "win" THEN Done(s, Chars(s, 1), 1) ELSE Fault(s, "unmapped")
        ELSE IF ~s.bound THEN Fault(s, "unopened")
        ELSE IF s.off >= MapSize(s) - s.ge THEN Done(s, <<>>, 0)
        ELSE IF CanRemap(m) THEN LET r == m_remap(m, 0) IN Done(r, Chars(r, 1), 1)
        ELSE Threw(m_remap(m, 0))

(* sgetc(), that is underflow() at the end of the window: the next one.    *)
underflow(s) ==
    LET m == SetOffset(s, s.off + s.ge)
    IN  IF s.gn < s.ge
        THEN IF s.gb = "win" THEN Done(s, Chars(s, 1), 1) ELSE Fault(s, "unmapped")
        ELSE IF ~s.bound THEN Fault(s, "unopened")
        ELSE IF s.off >= MapSize(s) - s.ge THEN Done(s, <<>>, 0)
        ELSE IF CanRemap(m) THEN LET r == m_remap(m, 0) IN Done(r, Chars(r, 1), 1)
        ELSE Threw(m_remap(m, 0))

(* Mutation of overflow: the put position is not moved on.                 *)
SameWindow(s, c) ==
    IF s.pn < s.pe THEN Put(s, <<c>>)
    ELSE IF ~s.bound THEN Fault(s, "unopened")
    ELSE IF s.off >= MapSize(s) THEN Done(NoAreas(s), <<>>, 0)
    ELSE IF CanRemap(s) THEN Put(m_remap(s, 0), <<c>>)
    ELSE Threw(m_remap(s, 0))

(* sputc (c), that is overflow (c) at the end of the window.               *)
overflow(s, c) ==
    LET m == SetOffset(s, s.off + s.pe)
    IN  IF s.pn < s.pe THEN Put(s, <<c>>)
        ELSE IF ~s.bound THEN Fault(s, "unopened")
        ELSE IF m.off >= MapSize(s) THEN Done(NoAreas(m), <<>>, 0)
        ELSE IF CanRemap(m) THEN Put(m_remap(m, 0), <<c>>)
        ELSE Threw(m_remap(m, 0))

(* xsputn (buf, size): preserve() makes room.                              *)
Store(s, c) ==
    LET p == Put(s, c) IN
    IF c = <<>> THEN Done(m_setg_ex(s, s.pn), <<>>, 0)
    ELSE IF p.out # "ok" THEN p
    ELSE Done(m_setg_ex(p.mb, p.mb.pn), c, Len(c))

xsputn(s, c) ==
    LET m == SetOffset(s, s.off + s.pn)
        r == preserve(m, Len(c))
    IN  IF Len(c) <= s.pe - s.pn THEN Store(s, c)
        ELSE IF ~s.bound THEN Fault(s, "unopened")
        ELSE IF m.off >= MapSize(s) THEN Done(NoAreas(m), <<>>, 0)
        ELSE IF r.out = "throw" THEN Threw(r.mb)
        ELSE Store(r.mb, SubSeq(c, 1, Min2(Len(c), r.n)))

-----------------------------------------------------------------------------
(* m_seek (offset, way, mode)                                              *)
GetIsNull(s) == s.gb = "zero" /\ s.gn = 0
SamePointers(s) == s.gb = s.pb /\ s.gn = s.pn

(* Mutation of SyncAreas: the two positions stay apart.                    *)
LeaveAreas(s, which) == s

(* The area named by the mode sets the position of the other one.          *)
SyncAreas(s, which) ==
    IF SamePointers(s) THEN s
    ELSE IF "in" \in which THEN m_setp_ex(s, s.gn)
    ELSE IF "out" \in which THEN m_setg_ex(s, s.pn)
    ELSE s

Clamp(offset, size) == IF offset < 0 THEN 0 ELSE Min2(offset, size)

Target(s, way, offset) ==
    Clamp(CASE way = "beg" -> offset
            [] way = "cur" -> offset + s.off + s.gn
            [] way = "end" -> offset + MapSize(s), MapSize(s))

(* Mutation of MoveTo: any position from the window on is taken for one    *)
(* within it.                                                              *)
MoveWithin(s, to) ==
    LET pos == to - s.off IN
    IF ~GetIsNull(s) /\ pos >= 0
    THEN m_setp_ex(m_setg_ex(s, pos), pos)
    ELSE NoAreas(SetOffset(s, to))

MoveTo(s, to) ==
    LET pos == to - s.off IN
    IF ~GetIsNull(s) /\ pos >= 0 /\ pos <= s.msize
    THEN m_setp_ex(m_setg_ex(s, pos), pos)
    ELSE NoAreas(SetOffset(s, to))

m_seek(s, offset, way, which) ==
    LET y == SyncAreas(s, which) IN
    IF way = "cur" /\ offset = 0 THEN Done(y, <<>>, y.off + y.gn)
    ELSE LET to == Target(y, way, offset) IN Done(MoveTo(y, to), <<>>, to)

-----------------------------------------------------------------------------
(* The actions: one call each.                                             *)
Running == ret.out \in {"ok", "throw"}

Finish(r, c) ==
    /\ Running /\ r.mb.off <= MaxOffset
    /\ mb' = r.mb /\ call' = c
    /\ ret' = [out |-> r.out, chars |-> r.chars, n |-> r.n]
    /\ thrown' = (thrown \/ r.out = "throw")
    /\ UNCHANGED nomem

(* open (filename, mode, private_mode): returns 0 on success.              *)
Open(access) ==
    IF mb.bound THEN Finish(Done(mb, <<>>, -1), <<"open">>)
    ELSE Finish(Done(NoAreas([SetOffset(mb, 0) EXCEPT !.bound = TRUE, !.access = access]),
                     <<>>, 0), <<"open">>)

(* Mutation of Close: the areas are not taken away with the window.        *)
CloseView ==
    IF mb.bound THEN Finish(Done(Unmap(mb), <<>>, 0), <<"close">>)
    ELSE Finish(Done(mb, <<>>, -1), <<"close">>)

(* close(): the view stays bound, and m_offset where it is.                *)
Close ==
    IF mb.bound THEN Finish(Done(NoAreas(Unmap(mb)), <<>>, 0), <<"close">>)
    ELSE Finish(Done(mb, <<>>, -1), <<"close">>)

(* The program goes on with a copy, made by mapped_buf (const mapped_buf&) *)
(* or operator=, and destroys this one.                                    *)
Copy ==
    \E junk \in JunkSizes :
        Finish(Done([NoAreas(Unmap(mb)) EXCEPT !.msize = junk], <<>>, 0), <<"copy">>)

Sgetc == Finish(underflow(mb), <<"sgetc">>)

Sbumpc ==
    LET r == underflow(mb) IN
    Finish([r EXCEPT !.mb = IF r.out = "ok" THEN gbump(@, r.n) ELSE @], <<"sbumpc">>)

Sgetn(n) == Finish(xsgetn(mb, n), <<"sgetn", n>>)

(* sungetc(): pbackfail() is that of std::streambuf, which refuses.        *)
Sungetc ==
    Finish(IF mb.gn = 0 THEN Done(mb, <<>>, 0)
           ELSE IF mb.gb # "win" THEN Fault(mb, "unmapped")
           ELSE Done(gbump(mb, -1), SubSeq(mb.win, mb.gn, mb.gn), 1), <<"sungetc">>)

Sputc(c) == Finish(overflow(mb, c), <<"sputc", c>>)
Sputn(c) == Finish(xsputn(mb, c), <<"sputn", c>>)
Greserve(n) == Finish(greserve(mb, n), <<"greserve", n>>)
Preserve(n) == Finish(preserve(mb, n), <<"preserve", n>>)

(* seekoff (offset, way, mode); seekpos (p, mode) is the way "beg".        *)
Seek(offset, way, which) ==
    Finish(IF mb.bound THEN m_seek(mb, offset, way, which) ELSE Done(mb, <<>>, -1),
           <<"seek", way, offset, which>>)

(* The system runs out of memory for mappings, or has some again.          *)
Memory ==
    /\ MemoryFails /\ Running
    /\ nomem' = ~nomem /\ call' = <<"none">> /\ ret' = Nothing
    /\ UNCHANGED <<mb, thrown>>

Next ==
    \/ \E access \in Accesses : Open(access)
    \/ Close
    \/ Copy
    \/ Sgetc
    \/ Sbumpc
    \/ \E n \in Lengths : Sgetn(n) \/ Greserve(n) \/ Preserve(n)
    \/ Sungetc
    \/ \E c \in Char : Sputc(c)
    \/ \E c \in Strings : Sputn(c)
    \/ \E offset \in Offsets, way \in {"beg", "cur", "end"},
          which \in {{"out"}, {"in", "out"}} : Seek(offset, way, which)
    \/ Memory

Spec == Init /\ [][Next]_vars

-----------------------------------------------------------------------------
Bases == {"win", "old", "zero"}

State == [file : Seq(Char), access : {"read", "write", "copy"}, bound : BOOLEAN,
          mapped : BOOLEAN, woff : Nat, win : Seq(Char), msize : Nat, off : Nat,
          gb : Bases, gn : Nat, ge : Nat, pb : Bases, pn : Nat, pe : Nat]

TypeOK == mb \in State /\ nomem \in BOOLEAN /\ thrown \in BOOLEAN

(* goffset() and poffset()                                                 *)
goffset(s) == s.off + s.gn
poffset(s) == s.off + s.pn

(* What the program can see through the buffer: the file, and over it what *)
(* it has changed of a private window.                                     *)
Visible(s) == IF s.mapped THEN Overwrite(s.file, s.woff, s.win) ELSE s.file

(* m_offset is the offset of eback(), and of pbase(), in the file: through *)
(* seeks, growing reads and writes, and the ends of windows, the areas     *)
(* that are in use are exactly the mapped window at m_offset.              *)
WindowAtOffset ==
    /\ mb.gb = "win" => mb.woff = mb.off /\ mb.gn <= mb.ge /\ mb.ge = Len(mb.win)
    /\ mb.pb = "win" => mb.woff = mb.off /\ mb.pn <= mb.pe /\ mb.pe = Len(mb.win)

(* The variables keep their types, and no call touches memory that is not  *)
(* mapped, unless an earlier one threw: the view is replaced behind the    *)
(* pointers only where they are set anew.                                  *)
NoWildAccess == TypeOK /\ (ret.out = "unmapped" => thrown)

(* What a read returns is what is in the file at the position that         *)
(* goffset() tells, in the order of the file and without a gap where one   *)
(* window ends and the next begins; a read that is short has come to the   *)
(* end of the file.  (What was changed in a private window is gone once    *)
(* another is mapped: there a read may return what the file has.)          *)
Asked == CASE call'[1] = "sgetn" -> call'[2] [] OTHER -> 1
ReadsInOrder ==
    [][ret'.out = "ok" /\ call'[1] \in {"sgetc", "sbumpc", "sgetn"} =>
        LET k == Len(ret'.chars) IN
        /\ \A i \in 1 .. k : ret'.chars[i] \in {Visible(mb)[goffset(mb) + i],
                                                 mb.file[goffset(mb) + i]}
        /\ goffset(mb') = goffset(mb) + (IF call'[1] = "sgetc" THEN 0 ELSE k)
        /\ k < Asked => goffset(mb) + k >= MapSize(mb)]_vars

(* A character that sputc() accepts is stored where poffset() tells, and   *)
(* nowhere else; one is refused only at the end of the file, which a       *)
(* mapped file cannot grow beyond.                                         *)
PutsInPlace ==
    [][ret'.out = "ok" /\ call'[1] = "sputc" =>
        IF ret'.n = 1
        THEN /\ poffset(mb) < MapSize(mb)
             /\ Visible(mb')[poffset(mb) + 1] = call'[2]
             /\ mb'.access = "write" =>
                  mb'.file = [mb.file EXCEPT ![poffset(mb) + 1] = call'[2]]
             /\ poffset(mb') = poffset(mb) + 1
        ELSE mb'.file = mb.file /\ poffset(mb) >= MapSize(mb)]_vars

(* A seek answers with the position it was asked for, or the nearest end   *)
(* of the file, and both areas are there afterwards, whichever of them had *)
(* moved last and whether or not the position is in the window.  A         *)
(* relative one counts from the area that the mode names, the get area if  *)
(* it names both (membuf.cc:93-99).                                        *)
StartOf(which) == IF "in" \in which THEN goffset(mb) ELSE poffset(mb)
SeeksBoth ==
    [][~thrown /\ call'[1] = "seek" /\ mb.bound =>
        /\ ret'.n \in 0 .. MapSize(mb)
        /\ call'[2] = "beg" => ret'.n = Clamp(call'[3], MapSize(mb))
        /\ call'[2] = "cur" => ret'.n = Clamp(StartOf(call'[4]) + call'[3], MapSize(mb))
        /\ call'[2] = "end" => ret'.n = Clamp(MapSize(mb) + call'[3], MapSize(mb))
        /\ goffset(mb') = ret'.n /\ poffset(mb') = ret'.n]_vars

(* greserve() and sgetn() at the end of the file give what there is, which *)
(* may be less than what was asked for.                                    *)
ShortAtEnd ==
    [][mb.bound /\ ~nomem /\ call'[1] \in {"sgetn", "greserve"} => ret'.out # "throw"]_vars

(* The characters that sputn() accepts are stored from poffset() on.       *)
StringsInPlace ==
    [][ret'.out = "ok" /\ call'[1] = "sputn" =>
        /\ poffset(mb') = poffset(mb) + ret'.n
        /\ SubSeq(Visible(mb'), poffset(mb) + 1, poffset(mb) + ret'.n) = ret'.chars]_vars
=============================================================================
