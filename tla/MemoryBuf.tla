----------------------------- MODULE MemoryBuf ------------------------------
(***************************************************************************)
(* sys::basic_memory_buf and sys::dynamic_memory_buf (membuf.hpp):         *)
(* streambufs over a block of memory, which is the user's, or is allocated *)
(* by a dynamic_memory_buf that is written to beyond its end.              *)
(*                                                                         *)
(* Pointers are offsets from eback().  As the code has it, eback() always  *)
(* is the beginning of the block and epptr() its end, in every mode.       *)
(***************************************************************************)
EXTENDS Integers, Sequences

CONSTANTS
    Char,       \* the characters
    Junk,       \* what allocate() returns memory full of
    Modes,      \* the modes of the buffers, subsets of {"in", "out"}
    Blocks,     \* the blocks of memory that can be allocated
    GROW_SIZE,  \* the constant of dynamic_memory_buf
    MaxPos,     \* bound: the position that is written to
    Texts,      \* what is in the memory the user gives to a buffer
    Strings,    \* the arguments of sputn()
    Lengths,    \* the arguments of sgetn()
    Offsets     \* the arguments of pubseekoff()

ASSUME MemoryAssumption ==
    /\ GROW_SIZE \in Nat \ {0} /\ MaxPos \in Nat
    /\ Modes \subseteq SUBSET {"in", "out"}
    /\ Texts \subseteq Seq(Char) /\ Strings \subseteq Seq(Char)
    /\ Lengths \subseteq Nat /\ Offsets \subseteq Int
    /\ "null" \notin Blocks /\ "user" \notin Blocks

VARIABLES
    mb,     \* the buffer
    heap,   \* the allocated blocks, with their sizes
    call,   \* the last call, with its arguments
    ret     \* its result: characters and a number, -1 if it threw

vars == <<mb, heap, call, ret>>

Ret(chars, n) == [chars |-> chars, n |-> n]
Min2(a, b) == IF a <= b THEN a ELSE b
Max2(a, b) == IF a >= b THEN a ELSE b

(* The fields of mb: kind, "none" when there is no buffer; mode, m_mode;   *)
(* own, m_allocated; block, the memory the areas are in, "null" for none;  *)
(* mem, its content; gn and ge, gptr() and egptr(); pb, pn and pe,         *)
(* pbase(), pptr() and epptr().                                            *)
NoBuffer == [kind |-> "none", mode |-> {}, own |-> FALSE, block |-> "null", mem |-> <<>>,
             gn |-> 0, ge |-> 0, pb |-> 0, pn |-> 0, pe |-> 0]

Init ==
    /\ mb = NoBuffer /\ heap = [b \in {} |-> 0]
    /\ call = <<"none">> /\ ret = Ret(<<>>, 0)

-----------------------------------------------------------------------------
(* basic_memory_buf::setbuf (s, n).                                        *)
SetAreas(s, block, mem) ==
    LET start == IF "out" \in s.mode THEN 0 ELSE Len(mem) IN
    [s EXCEPT !.block = block, !.mem = mem,
              !.gn = 0, !.ge = IF "in" \in s.mode THEN Len(mem) ELSE 0,
              !.pb = start, !.pn = start, !.pe = Len(mem)]

(* Mutation of setbuf: the new memory is taken to be the buffer's own.     *)
SetBufKeepingOwn(s, block, mem) == SetAreas(s, block, mem)

(* dynamic_memory_buf::setbuf (s, n); what it frees is in Freed.           *)
setbuf(s, block, mem) == [SetAreas(s, block, mem) EXCEPT !.own = FALSE]

(* Mutation of Freed: a block of the buffer's own is not given back.       *)
FreedNothing(s) == {}

Freed(s) == IF s.own THEN {s.block} ELSE {}

goffset(s) == s.gn
poffset(s) == s.pn - s.pb
gbump(s, n) == [s EXCEPT !.gn = @ + n]
pbump(s, n) == [s EXCEPT !.pn = @ + n]

(* Mutation of Copied: the length is taken from the get area.              *)
CopiedInput(s, size) == [i \in 1 .. size |-> IF i <= s.ge THEN s.mem[i] ELSE Junk]

(* The content of the new block.                                           *)
Copied(s, size) == [i \in 1 .. size |-> IF i <= s.pe THEN s.mem[i] ELSE Junk]

(* Mutation of GrownSize: it grows by half, whatever is asked for.         *)
GrownByHalf(s, new_size) == s.pe + s.pe \div 2

GrownSize(s, new_size) == Max2(s.pe + s.pe \div 2, new_size)

(* m_grow (new_size), with the block b from allocate().                    *)
m_grow(s, new_size, b) ==
    LET n == [setbuf(s, b, Copied(s, GrownSize(s, new_size))) EXCEPT !.own = TRUE]
        g == IF "in" \in s.mode THEN gbump(n, goffset(s)) ELSE n
    IN  IF "out" \in s.mode THEN pbump(g, poffset(s)) ELSE g

(* c stored from pptr() on.                                                *)
Store(s, c) ==
    pbump([s EXCEPT !.mem = [i \in DOMAIN @ |->
                                IF i > s.pn /\ i <= s.pn + Len(c) THEN c[i - s.pn] ELSE @[i]]],
          Len(c))

(* The characters that are stored when there can be no more room.          *)
Fitting(s, c) == SubSeq(c, 1, Min2(Len(c), s.pe - s.pn))

(* Mutation of Clamp: there is only an upper limit.                        *)
ClampHigh(p, size) == IF p > size THEN size ELSE p

Clamp(p, size) == IF p < 0 THEN 0 ELSE IF p > size THEN size ELSE p

Target(way, offset, pos, size) ==
    Clamp(offset + (CASE way = "beg" -> 0 [] way = "cur" -> pos [] way = "end" -> size), size)

(* Mutation of PutSize: the end of the sequence is taken from its start.   *)
PutRoom(s) == s.pe - s.pn

PutSize(s) == s.pe - s.pb

-----------------------------------------------------------------------------
(* The actions.                                                            *)
Exists == mb.kind # "none"
Finish(s, c, r) == mb' = s /\ call' = c /\ ret' = r
Drop(bs) == [b \in DOMAIN heap \ bs |-> heap[b]]

(* The constructors, with a block of the user's or without.                *)
Construct(kind, mode) ==
    /\ ~Exists /\ UNCHANGED heap
    /\ LET s == [NoBuffer EXCEPT !.kind = kind, !.mode = mode] IN
       \/ Finish(s, <<"make">>, Ret(<<>>, 0))
       \/ \E t \in Texts : Finish(SetAreas(s, "user", t), <<"make">>, Ret(<<>>, 0))

(* No destructor is declared: the block stays.                             *)
Destroy ==
    /\ Exists /\ UNCHANGED heap
    /\ Finish(NoBuffer, <<"end">>, Ret(<<>>, 0))

(* pubsetbuf (s, n)                                                        *)
SetBuf(t) ==
    /\ Exists /\ heap' = Drop(Freed(mb))
    /\ Finish(IF mb.kind = "dynamic" THEN setbuf(mb, "user", t) ELSE SetAreas(mb, "user", t),
              <<"setbuf">>, Ret(<<>>, 0))

(* sgetc(), sbumpc() and sgetn() of std::streambuf, whose underflow() is   *)
(* not overridden: the get area is all there is.                           *)
Read(c, n, step) ==
    /\ Exists /\ UNCHANGED heap
    /\ LET k == Min2(n, mb.ge - mb.gn) IN
       Finish(gbump(mb, step * k), c, Ret(SubSeq(mb.mem, mb.gn + 1, mb.gn + k), k))

(* sungetc() and sputbackc (c), with the inherited pbackfail().            *)
Back(c, cs) ==
    /\ Exists /\ UNCHANGED heap
    /\ IF mb.gn > 0 /\ mb.mem[mb.gn] \in cs
       THEN Finish(gbump(mb, -1), c, Ret(<<mb.mem[mb.gn]>>, 1))
       ELSE Finish(mb, c, Ret(<<>>, 0))

(* A call c that puts str, for which m_grow (size) makes room; allocate()  *)
(* may throw.  m_grow() sets the new buffer, which frees the old one.      *)
Put(c, str, size) ==
    /\ Exists /\ poffset(mb) + Len(str) <= MaxPos
    /\ \/ /\ mb.kind = "dynamic" /\ "out" \in mb.mode /\ mb.pn + Len(str) <= mb.pe
          /\ Finish(Store(mb, str), c, Ret(str, Len(str))) /\ UNCHANGED heap
       \/ /\ mb.kind = "dynamic" /\ "out" \in mb.mode /\ mb.pn + Len(str) > mb.pe
          /\ \/ \E b \in Blocks \ DOMAIN heap :
                  /\ Finish(Store(m_grow(mb, size, b), str), c, Ret(str, Len(str)))
                  /\ heap' = [x \in (DOMAIN heap \ Freed(mb)) \cup {b} |->
                                IF x = b THEN GrownSize(mb, size) ELSE heap[x]]
             \/ Finish(mb, c, Ret(<<>>, -1)) /\ UNCHANGED heap
       \/ /\ mb.kind = "basic" \/ "out" \notin mb.mode
          /\ Finish(Store(mb, Fitting(mb, str)), c, Ret(Fitting(mb, str), Len(Fitting(mb, str))))
          /\ UNCHANGED heap

psize(s) == s.pn - s.pb

(* overflow() and xsputn(), when they are called: how much they ask for.   *)
Sputc(c) == Put(<<"sputc", c>>, <<c>>, psize(mb) + GROW_SIZE)
Sputn(c) == Put(<<"sputn", c>>, c, psize(mb) + Len(c) + GROW_SIZE)

(* m_seek (offset, way, mode)                                              *)
Seek(way, offset, which) ==
    LET g == Target(way, offset, goffset(mb), mb.ge)
        p == Target(way, offset, poffset(mb), PutSize(mb))
        s == IF "in" \in which THEN [mb EXCEPT !.gn = g] ELSE mb
        t == IF "out" \in which THEN [s EXCEPT !.pn = mb.pb + p] ELSE s
        c == <<"seek", way, offset>>
    IN  /\ Exists /\ UNCHANGED heap
        /\ IF "in" \in which /\ way = "cur" /\ offset = 0
           THEN Finish(mb, c, Ret(<<>>, goffset(mb)))
           ELSE Finish(t, c, Ret(<<>>, IF "out" \in which THEN p ELSE g))

Next ==
    \/ \E kind \in {"basic", "dynamic"}, mode \in Modes : Construct(kind, mode)
    \/ Destroy
    \/ \E t \in Texts : SetBuf(t)
    \/ Read(<<"sgetc">>, 1, 0)
    \/ Read(<<"sbumpc">>, 1, 1)
    \/ \E n \in Lengths : Read(<<"sgetn", n>>, n, 1)
    \/ Back(<<"sungetc">>, Char \cup {Junk})
    \/ \E c \in Char : Back(<<"sputbackc", c>>, {c}) \/ Sputc(c)
    \/ \E c \in Strings : Sputn(c)
    \/ \E way \in {"beg", "cur", "end"}, offset \in Offsets,
          which \in {{"in"}, {"out"}, {"in", "out"}} : Seek(way, offset, which)

Spec == Init /\ [][Next]_vars

-----------------------------------------------------------------------------
State == [kind : {"none", "basic", "dynamic"}, mode : Modes \cup {{}}, own : BOOLEAN,
          block : Blocks \cup {"null", "user"}, mem : Seq(Char \cup {Junk}),
          gn : Nat, ge : Nat, pb : Nat, pn : Nat, pe : Nat]

TypeOK == mb \in State /\ heap \in [DOMAIN heap -> Nat] /\ DOMAIN heap \subseteq Blocks

InOrder(s) ==
    /\ s.pe = Len(s.mem) /\ s.gn <= s.ge /\ s.pb <= s.pn /\ s.pn <= s.pe
    /\ s.ge = IF "in" \in s.mode THEN s.pe ELSE 0
    /\ s.pb = IF "out" \in s.mode THEN 0 ELSE s.pe

Owns(s, h) ==
    /\ s.own <=> s.block \in Blocks
    /\ s.own => s.kind = "dynamic" /\ s.block \in DOMAIN h /\ h[s.block] = s.pe
    /\ s.block = "null" => s.pe = 0

(* eback() and epptr() are the ends of the block in every mode, through    *)
(* seeks and growth, and the positions stay between them: what m_grow()    *)
(* copies, and what setbuf() gives back, is computed from these two.       *)
Ends == InOrder(mb)

(* m_allocated says whose the block is: a block that is given back was     *)
(* allocated, was not given back before, and has the size that it is given *)
(* back with; the areas are never in a block that was given back.          *)
OwnsItsBlock == Owns(mb, heap)

(* No block is lost while the buffer lives: growing and a new buffer give  *)
(* the old block back.  (The end of the buffer does not.)                  *)
OnlyEndLeaks ==
    [][DOMAIN heap' \ {mb'.block} = DOMAIN heap \ {mb.block} \/ call' = <<"end">>]_vars

-----------------------------------------------------------------------------
(* The text is the content of the block, and the positions in it are what  *)
(* goffset() and poffset() return.                                         *)
Text == INSTANCE MemoryStream WITH
            Char <- Char \cup {Junk}, kind <- mb.kind, mode <- mb.mode, text <- mb.mem,
            gpos <- goffset(mb), ppos <- poffset(mb)

(* Whatever the mode and however the buffer grows and moves, the user sees *)
(* one text: nothing that was in it changes but by what is put, at the     *)
(* position where it is put; reading and writing do not move each other.   *)
StreamSpec == Text!Spec
=============================================================================
