-------------------------- MODULE MappedBuf_proof --------------------------
(***************************************************************************)
(* The areas of a mapped_buf are the window at m_offset, no call touches   *)
(* memory that is not mapped unless an earlier one threw, and what is      *)
(* read, put and sought is where the positions tell, for every file, page  *)
(* size and sequence of calls, as long as no transfer is empty (NoneEmpty).*)
(***************************************************************************)
EXTENDS MappedBuf, SequenceTheorems, TLAPS

(* Transfers of 0 characters are not made.                                 *)
NoneEmpty == 0 \notin Lengths /\ <<>> \notin Strings

-----------------------------------------------------------------------------
(* The inductive invariant.                                                *)

Null(s) == s.gb = "zero" /\ s.pb = "zero" /\ s.gn = 0 /\ s.ge = 0 /\ s.pn = 0 /\ s.pe = 0
InUse(s) ==
    s.gb = "win" /\ s.pb = "win" /\ s.woff = s.off /\ s.ge = s.msize /\ s.pe = s.msize

(* A mapped window is in use by both areas, or by none of them; areas      *)
(* without a window are null or have the size of the last one.             *)
Good(s) ==
    /\ s.gn <= s.ge /\ s.pn <= s.pe
    /\ s.ge = s.msize \/ s.ge = 0
    /\ s.pe = s.msize \/ s.pe = 0
    /\ s.mapped => /\ InUse(s) \/ Null(s)
                   /\ s.msize = Len(s.win) /\ s.msize > 0
                   /\ s.woff + s.msize <= Len(s.file)
    /\ ~s.mapped => s.gb # "win" /\ s.pb # "win"

(* What is so until a call throws.                                         *)
Calm(s) == (~s.mapped => Null(s)) /\ s.off <= Len(s.file)

Inv ==
    /\ TypeOK /\ Good(mb)
    /\ ~thrown => Calm(mb)
    /\ ret.out = "unmapped" => thrown

-----------------------------------------------------------------------------
(* The setters, field by field.                                            *)

SameFile(s, t) == t.file = s.file /\ t.access = s.access /\ t.bound = s.bound
SameView(s, t) ==
    SameFile(s, t) /\ t.mapped = s.mapped /\ t.woff = s.woff /\ t.win = s.win /\ t.msize = s.msize
SameGet(s, t) == t.gb = s.gb /\ t.gn = s.gn /\ t.ge = s.ge
SamePut(s, t) == t.pb = s.pb /\ t.pn = s.pn /\ t.pe = s.pe

LEMMA SetGFields ==
    ASSUME NEW s \in State, NEW b \in Bases, NEW n \in Nat, NEW e \in Nat
    PROVE  LET t == SetG(s, b, n, e) IN
           /\ t \in State /\ SameView(s, t) /\ t.off = s.off /\ SamePut(s, t)
           /\ t.gb = b /\ t.gn = n /\ t.ge = e
BY DEF SetG, State, SameView, SameFile, SamePut

LEMMA SetPFields ==
    ASSUME NEW s \in State, NEW b \in Bases, NEW n \in Nat, NEW e \in Nat
    PROVE  LET t == SetP(s, b, n, e) IN
           /\ t \in State /\ SameView(s, t) /\ t.off = s.off /\ SameGet(s, t)
           /\ t.pb = b /\ t.pn = n /\ t.pe = e
BY DEF SetP, State, SameView, SameFile, SameGet

LEMMA SetOffsetFields ==
    ASSUME NEW s \in State, NEW off \in Nat
    PROVE  LET t == SetOffset(s, off) IN
           /\ t \in State /\ SameView(s, t) /\ t.off = off /\ SameGet(s, t) /\ SamePut(s, t)
BY DEF SetOffset, State, SameView, SameFile, SameGet, SamePut

LEMMA GbumpFields ==
    ASSUME NEW s \in State, NEW n \in Int, s.gn + n \in Nat
    PROVE  LET t == gbump(s, n) IN
           /\ t \in State /\ SameView(s, t) /\ t.off = s.off /\ SamePut(s, t)
           /\ t.gb = s.gb /\ t.gn = s.gn + n /\ t.ge = s.ge
<1>1. s.gb \in Bases /\ s.ge \in Nat
  BY DEF State
<1> QED
  BY <1>1, SetGFields DEF gbump

LEMMA PbumpFields ==
    ASSUME NEW s \in State, NEW n \in Nat
    PROVE  LET t == pbump(s, n) IN
           /\ t \in State /\ SameView(s, t) /\ t.off = s.off /\ SameGet(s, t)
           /\ t.pb = s.pb /\ t.pn = s.pn + n /\ t.pe = s.pe
<1> DEFINE k == s.pn + n
           t == SetP(s, s.pb, k, s.pe)
<1>1. s.pb \in Bases /\ s.pe \in Nat /\ k \in Nat
  BY DEF State
<1> HIDE DEF k
<1>2. /\ t \in State /\ SameView(s, t) /\ t.off = s.off /\ SameGet(s, t)
      /\ t.pb = s.pb /\ t.pn = k /\ t.pe = s.pe
  BY <1>1, SetPFields, SMTT(40)
<1> QED
  BY <1>2 DEF pbump, k

LEMMA NoAreasFields ==
    ASSUME NEW s \in State
    PROVE  LET t == NoAreas(s) IN
           t \in State /\ SameView(s, t) /\ t.off = s.off /\ Null(t)
<1> DEFINE u == SetG(s, "zero", 0, 0)
<1>1. "zero" \in Bases
  BY DEF Bases
<1>2. /\ u \in State /\ SameView(s, u) /\ u.off = s.off
      /\ u.gb = "zero" /\ u.gn = 0 /\ u.ge = 0
  BY <1>1, SetGFields
<1> HIDE DEF u
<1>3. LET t == SetP(u, "zero", 0, 0) IN
      /\ t \in State /\ SameView(u, t) /\ t.off = u.off /\ SameGet(u, t)
      /\ t.pb = "zero" /\ t.pn = 0 /\ t.pe = 0
  BY <1>1, <1>2, SetPFields
<1> QED
  BY <1>2, <1>3 DEF NoAreas, u, SameView, SameFile, SameGet, Null

LEMMA UnmapFields ==
    ASSUME NEW s \in State
    PROVE  LET t == Unmap(s) IN
           /\ t \in State /\ SameFile(s, t) /\ ~t.mapped /\ t.off = s.off /\ t.msize = s.msize
           /\ t.gb = Old(s.gb) /\ t.gn = s.gn /\ t.ge = s.ge
           /\ t.pb = Old(s.pb) /\ t.pn = s.pn /\ t.pe = s.pe
           /\ t.gb # "win" /\ t.pb # "win"
<1> DEFINE t == [s EXCEPT !.mapped = FALSE, !.win = <<>>, !.gb = Old(s.gb), !.pb = Old(s.pb)]
<1>1. /\ Old(s.gb) \in Bases /\ Old(s.gb) # "win" /\ Old(s.pb) \in Bases /\ Old(s.pb) # "win"
      /\ <<>> \in Seq(Char)
  BY DEF State, Old, Bases
<1>2. t = Unmap(s)
  BY DEF Unmap
<1>3. /\ t \in State /\ SameFile(s, t) /\ ~t.mapped /\ t.off = s.off /\ t.msize = s.msize
      /\ t.gb = Old(s.gb) /\ t.gn = s.gn /\ t.ge = s.ge
      /\ t.pb = Old(s.pb) /\ t.pn = s.pn /\ t.pe = s.pe
  BY <1>1 DEF State, SameFile
<1> QED
  BY <1>1, <1>2, <1>3

LEMMA SetgExFields ==
    ASSUME NEW s \in State, NEW n \in Nat
    PROVE  LET t == m_setg_ex(s, n) IN
           /\ t \in State /\ SameView(s, t) /\ t.off = s.off /\ SamePut(s, t)
           /\ t.gb = ViewBase(s) /\ t.gn = n /\ t.ge = s.msize
<1>1. ViewBase(s) \in Bases /\ s.msize \in Nat
  BY DEF State, ViewBase, Bases
<1> QED
  BY <1>1, SetGFields, SMTT(20) DEF m_setg_ex

LEMMA SetpExFields ==
    ASSUME NEW s \in State, NEW n \in Nat
    PROVE  LET t == m_setp_ex(s, n) IN
           /\ t \in State /\ SameView(s, t) /\ t.off = s.off /\ SameGet(s, t)
           /\ t.pb = ViewBase(s) /\ t.pn = n /\ t.pe = s.msize
<1>1. ViewBase(s) \in Bases /\ s.msize \in Nat
  BY DEF State, ViewBase, Bases
<1> QED
  BY <1>1, SetPFields, SMTT(20) DEF m_setp_ex

(* m_setg_ex (n), m_setp_ex (n): both areas begin at the window's start.   *)
LEMMA SetBothFields ==
    ASSUME NEW s \in State, NEW n \in Nat
    PROVE  LET t == m_setp_ex(m_setg_ex(s, n), n) IN
           /\ t \in State /\ SameView(s, t) /\ t.off = s.off
           /\ t.gb = ViewBase(s) /\ t.gn = n /\ t.ge = s.msize
           /\ t.pb = ViewBase(s) /\ t.pn = n /\ t.pe = s.msize
<1> DEFINE u == m_setg_ex(s, n)
           t == m_setp_ex(u, n)
<1>1. /\ u \in State /\ SameView(s, u) /\ u.off = s.off /\ SamePut(s, u)
      /\ u.gb = ViewBase(s) /\ u.gn = n /\ u.ge = s.msize
  BY SetgExFields
<1> HIDE DEF u
<1>2. /\ t \in State /\ SameView(u, t) /\ t.off = u.off /\ SameGet(u, t)
      /\ t.pb = ViewBase(u) /\ t.pn = n /\ t.pe = u.msize
  BY <1>1, SetpExFields
<1> HIDE DEF t
<1> QED
  BY <1>1, <1>2 DEF t, u, SameView, SameFile, SameGet, ViewBase

-----------------------------------------------------------------------------
(* remap() with success: the window is the file from m_offset on, as much  *)
(* of it as was asked for, or all that is left.                            *)
LEMMA WindowFields ==
    ASSUME NEW s \in State, NEW sz \in Nat, InRange(MapSize(s), s.off, 1)
    PROVE  LET t == Window(s, Max2(sz, PageSize)) IN
           /\ t \in State /\ SameFile(s, t) /\ t.mapped /\ t.off = s.off /\ InUse(t)
           /\ t.gn = 0 /\ t.pn = 0 /\ t.msize > 0 /\ t.msize = Len(t.win)
           /\ t.win = SubSeq(s.file, s.off + 1, s.off + t.msize)
           /\ s.off + t.msize <= Len(s.file)
           /\ t.msize < sz => s.off + t.msize = Len(s.file)
           /\ Good(t) /\ Calm(t)
<1> DEFINE n == Max2(sz, PageSize)
           size == ByteSize(MapSize(s), s.off, n)
           w == [s EXCEPT !.mapped = TRUE, !.woff = s.off, !.msize = size,
                          !.win = SubSeq(s.file, s.off + 1, s.off + size)]
           t == m_setp_ex(m_setg_ex(w, 0), 0)
<1>1. /\ s.off \in Nat /\ s.file \in Seq(Char) /\ Len(s.file) \in Nat /\ 1 <= Len(s.file)
      /\ s.off <= Len(s.file) - 1
  BY DEF State, InRange, MapSize
<1>2. n \in Nat /\ n > 0 /\ n >= sz
  BY MappedAssumption DEF Max2
<1>3. /\ size \in Nat /\ size > 0 /\ s.off + size <= Len(s.file)
      /\ size < sz => s.off + size = Len(s.file)
  BY <1>1, <1>2 DEF ByteSize, MapSize
<1> HIDE DEF size
<1>4. /\ SubSeq(s.file, s.off + 1, s.off + size) \in Seq(Char)
      /\ Len(SubSeq(s.file, s.off + 1, s.off + size)) = size
  BY <1>1, <1>3
<1>5. /\ w \in State /\ SameFile(s, w) /\ w.mapped /\ w.off = s.off /\ w.woff = s.off
      /\ w.msize = size /\ w.win = SubSeq(s.file, s.off + 1, s.off + size)
  BY <1>1, <1>3, <1>4 DEF State, SameFile
<1> HIDE DEF w
<1>6. /\ t \in State /\ SameView(w, t) /\ t.off = w.off
      /\ t.gb = ViewBase(w) /\ t.gn = 0 /\ t.ge = w.msize
      /\ t.pb = ViewBase(w) /\ t.pn = 0 /\ t.pe = w.msize
  BY <1>5, SetBothFields
<1>7. t = Window(s, n)
  BY DEF Window, w, size
<1> HIDE DEF t, n
<1>8. /\ SameFile(s, t) /\ t.mapped /\ t.off = s.off /\ t.woff = s.off /\ t.msize = size
      /\ t.win = SubSeq(s.file, s.off + 1, s.off + size)
      /\ t.gb = "win" /\ t.pb = "win" /\ t.ge = size /\ t.pe = size
  BY <1>5, <1>6 DEF SameView, SameFile, ViewBase
<1>9. InUse(t) /\ Good(t) /\ Calm(t)
  <2>1. InUse(t) /\ Len(t.win) = t.msize
    BY <1>4, <1>8 DEF InUse
  <2>2. t.woff + t.msize <= Len(t.file) /\ t.off <= Len(t.file) /\ t.msize > 0 /\ t.msize \in Nat
    BY <1>1, <1>3, <1>8 DEF SameFile
  <2>3. t.gn = 0 /\ t.pn = 0 /\ t.ge = t.msize /\ t.pe = t.msize /\ t.mapped
    BY <1>6, <1>8
  <2>4. Good(t)
    BY <2>1, <2>2, <2>3 DEF Good
  <2>5. Calm(t)
    BY <1>8, <2>2 DEF Calm
  <2> QED
    BY <2>1, <2>4, <2>5
<1> QED
  BY <1>3, <1>4, <1>6, <1>7, <1>8, <1>9 DEF n

(* A buffer without its window is in order, as far as that goes.           *)
LEMMA UnmapGood ==
    ASSUME NEW s \in State, Good(s), NEW off \in Nat
    PROVE  LET t == Unmap(SetOffset(s, off)) IN t \in State /\ Good(t) /\ SameFile(s, t)
<1> DEFINE m == SetOffset(s, off)
<1>1. m \in State /\ SameView(s, m) /\ m.off = off /\ SameGet(s, m) /\ SamePut(s, m)
  BY SetOffsetFields
<1> HIDE DEF m
<1> DEFINE t == Unmap(m)
<1>2. /\ t \in State /\ SameFile(m, t) /\ ~t.mapped /\ t.msize = m.msize
      /\ t.gn = m.gn /\ t.ge = m.ge /\ t.pn = m.pn /\ t.pe = m.pe
      /\ t.gb # "win" /\ t.pb # "win"
  BY <1>1, UnmapFields
<1> HIDE DEF t
<1>3. Good(t)
  BY <1>1, <1>2 DEF Good, SameView, SameGet, SamePut
<1> QED
  BY <1>1, <1>2, <1>3 DEF m, t, SameView, SameFile

-----------------------------------------------------------------------------
(* What a call may leave behind: a state in order, and no fault and no     *)
(* loose end but by a throw.                                               *)
Sound(s, r) ==
    /\ r.mb \in State /\ Good(r.mb)
    /\ Calm(s) => r.out # "unmapped" /\ (r.out = "throw" \/ Calm(r.mb))

(* t is s with a new window at at, where sz bytes were wanted.             *)
Fresh(s, t, at, sz) ==
    /\ t \in State /\ SameFile(s, t) /\ t.mapped /\ t.off = at /\ InUse(t)
    /\ t.gn = 0 /\ t.pn = 0 /\ t.msize > 0 /\ t.msize = Len(t.win)
    /\ t.win = SubSeq(s.file, at + 1, at + t.msize)
    /\ at + t.msize <= Len(s.file)
    /\ t.msize < sz => at + t.msize = Len(s.file)
    /\ Good(t) /\ Calm(t)

LEMMA RemapFresh ==
    ASSUME NEW s \in State, NEW at \in Nat, NEW sz \in Nat, CanRemap(SetOffset(s, at))
    PROVE  Fresh(s, m_remap(SetOffset(s, at), sz), at, sz)
<1> DEFINE m == SetOffset(s, at)
           t == m_remap(m, sz)
<1>1. m \in State /\ SameView(s, m) /\ m.off = at
  BY SetOffsetFields
<1>2. CanRemap(m)
  OBVIOUS
<1> HIDE DEF m
<1>3. t = Window(m, Max2(sz, PageSize)) /\ InRange(MapSize(m), m.off, 1)
  BY <1>2 DEF m_remap, CanRemap
<1> HIDE DEF t
<1>4. /\ t \in State /\ SameFile(m, t) /\ t.mapped /\ t.off = m.off /\ InUse(t)
      /\ t.gn = 0 /\ t.pn = 0 /\ t.msize > 0 /\ t.msize = Len(t.win)
      /\ t.win = SubSeq(m.file, m.off + 1, m.off + t.msize)
      /\ m.off + t.msize <= Len(m.file)
      /\ t.msize < sz => m.off + t.msize = Len(m.file)
      /\ Good(t) /\ Calm(t)
  BY <1>1, <1>3, WindowFields
<1>5. m.file = s.file /\ SameFile(s, t)
  BY <1>1, <1>4 DEF SameView, SameFile
<1>6. Fresh(s, t, at, sz)
  BY <1>1, <1>4, <1>5 DEF Fresh
<1> QED
  BY <1>6 DEF m, t

(* greserve(): what is there is enough, or a new window begins at gptr().  *)
LEMMA ReserveResult ==
    ASSUME NEW s \in State, Good(s), NEW sz \in Nat
    PROVE  LET r == greserve(s, sz) IN
           /\ Sound(s, r) /\ r.out \in {"ok", "throw"} /\ r.chars = <<>>
           /\ r.out = "ok" => /\ r.n = r.mb.ge - r.mb.gn
                              /\ \/ sz <= s.ge - s.gn /\ r.mb = s
                                 \/ sz > s.ge - s.gn /\ Fresh(s, r.mb, s.off + s.gn, sz)
<1> DEFINE at == s.off + s.gn
           m == SetOffset(s, at)
           r == greserve(s, sz)
<1>1. at \in Nat /\ s.ge \in Nat /\ s.gn \in Nat
  BY DEF State
<1>2. CASE sz <= s.ge - s.gn
  <2>1. r = Done(s, <<>>, s.ge - s.gn)
    BY <1>2 DEF greserve
  <2>2. r.mb = s /\ r.out = "ok" /\ r.chars = <<>> /\ r.n = s.ge - s.gn
    BY <2>1 DEF Done
  <2> QED
    BY <1>2, <2>2 DEF Sound
<1>3. CASE sz > s.ge - s.gn /\ s.bound /\ CanRemap(m)
  <2> DEFINE t == m_remap(m, sz)
  <2>1. Fresh(s, t, at, sz)
    BY <1>1, <1>3, RemapFresh
  <2>2. r = Done(t, <<>>, t.ge - t.gn)
    BY <1>1, <1>3 DEF greserve
  <2> HIDE DEF t
  <2>3. r.mb = t /\ r.out = "ok" /\ r.chars = <<>> /\ r.n = t.ge - t.gn
    BY <2>2 DEF Done
  <2>4. Sound(s, r)
    BY <2>1, <2>3 DEF Sound, Fresh
  <2> QED
    BY <1>3, <2>1, <2>3, <2>4
<1>4. CASE sz > s.ge - s.gn /\ (~s.bound \/ ~CanRemap(m))
  <2>1. r = Threw(Unmap(m))
    BY <1>1, <1>4 DEF greserve, m_remap
  <2>2. Unmap(m) \in State /\ Good(Unmap(m))
    BY <1>1, UnmapGood
  <2>3. r.mb = Unmap(m) /\ r.out = "throw" /\ r.chars = <<>>
    BY <2>1 DEF Threw
  <2> QED
    BY <2>2, <2>3 DEF Sound
<1>5. s.bound \in BOOLEAN
  BY DEF State
<1> QED
  BY <1>1, <1>2, <1>3, <1>4, <1>5

LEMMA PreserveResult ==
    ASSUME NEW s \in State, Good(s), NEW sz \in Nat
    PROVE  LET r == preserve(s, sz) IN
           /\ Sound(s, r) /\ r.out \in {"ok", "throw"}
           /\ r.out = "ok" => /\ r.n = r.mb.pe - r.mb.pn
                              /\ \/ sz <= s.pe - s.pn /\ r.mb = s
                                 \/ sz > s.pe - s.pn /\ Fresh(s, r.mb, s.off + s.pn, sz)
<1> DEFINE at == s.off + s.pn
           m == SetOffset(s, at)
           r == preserve(s, sz)
<1>1. at \in Nat /\ s.pe \in Nat /\ s.pn \in Nat
  BY DEF State
<1>2. CASE sz <= s.pe - s.pn
  <2>1. r = Done(s, <<>>, s.pe - s.pn)
    BY <1>2 DEF preserve
  <2>2. r.mb = s /\ r.out = "ok" /\ r.n = s.pe - s.pn
    BY <2>1 DEF Done
  <2> QED
    BY <1>2, <2>2 DEF Sound
<1>3. CASE sz > s.pe - s.pn /\ s.bound /\ CanRemap(m)
  <2> DEFINE t == m_remap(m, sz)
  <2>1. Fresh(s, t, at, sz)
    BY <1>1, <1>3, RemapFresh
  <2>2. r = Done(t, <<>>, t.pe - t.pn)
    BY <1>1, <1>3 DEF preserve
  <2> HIDE DEF t
  <2>3. r.mb = t /\ r.out = "ok" /\ r.n = t.pe - t.pn
    BY <2>2 DEF Done
  <2>4. Sound(s, r)
    BY <2>1, <2>3 DEF Sound, Fresh
  <2> QED
    BY <1>3, <2>1, <2>3, <2>4
<1>4. CASE sz > s.pe - s.pn /\ (~s.bound \/ ~CanRemap(m))
  <2>1. r = Threw(Unmap(m))
    BY <1>1, <1>4 DEF preserve, m_remap
  <2>2. Unmap(m) \in State /\ Good(Unmap(m))
    BY <1>1, UnmapGood
  <2>3. r.mb = Unmap(m) /\ r.out = "throw"
    BY <2>1 DEF Threw
  <2> QED
    BY <2>2, <2>3 DEF Sound
<1>5. s.bound \in BOOLEAN
  BY DEF State
<1> QED
  BY <1>1, <1>2, <1>3, <1>4, <1>5

-----------------------------------------------------------------------------
(* Reading.                                                                *)

(* The characters a call returned are those of the file at gptr(), and     *)
(* fewer than asked only at its end.                                       *)
Reads(s, r, asked) ==
    /\ \A i \in 1 .. Len(r.chars) :
          r.chars[i] \in {Visible(s)[goffset(s) + i], s.file[goffset(s) + i]}
    /\ Len(r.chars) < asked => goffset(s) + Len(r.chars) >= MapSize(s)

LEMMA InWindow ==
    ASSUME NEW s \in State, Good(s), s.gb = "win" \/ s.pb = "win"
    PROVE  s.mapped /\ InUse(s)
BY DEF Good, Null, State

LEMMA WindowVisible ==
    ASSUME NEW s \in State, Good(s), s.mapped, InUse(s), NEW j \in 1 .. s.msize
    PROVE  s.off + j \in DOMAIN s.file /\ Visible(s)[s.off + j] = s.win[j]
<1>1. /\ s.off \in Nat /\ s.msize \in Nat /\ s.msize = Len(s.win) /\ s.woff = s.off
      /\ s.off + s.msize <= Len(s.file) /\ s.file \in Seq(Char)
  BY DEF Good, InUse, State
<1>2. s.off + j \in DOMAIN s.file /\ DOMAIN s.file = 1 .. Len(s.file) /\ Len(s.file) \in Nat
  BY <1>1
<1> DEFINE at == s.off + j
<1>3. at > s.woff /\ at <= s.woff + Len(s.win) /\ at - s.woff = j
  BY <1>1
<1>4. Visible(s) = [i \in DOMAIN s.file |-> IF i > s.woff /\ i <= s.woff + Len(s.win)
                                            THEN s.win[i - s.woff] ELSE s.file[i]]
  BY DEF Visible, Overwrite
<1>5. at \in DOMAIN s.file
  BY <1>2
<1> HIDE DEF at
<1>6. Visible(s)[at] = s.win[at - s.woff]
  BY <1>3, <1>4, <1>5
<1> QED
  BY <1>3, <1>5, <1>6 DEF at

LEMMA CharsVisible ==
    ASSUME NEW s \in State, Good(s), s.gb = "win", NEW k \in Nat, s.gn + k <= s.ge
    PROVE  /\ Chars(s, k) \in Seq(Char) /\ Len(Chars(s, k)) = k
           /\ \A i \in 1 .. k : Chars(s, k)[i] = Visible(s)[goffset(s) + i]
<1>1. /\ s.mapped /\ InUse(s)
  BY InWindow
<1>2. /\ s.ge = s.msize /\ s.msize = Len(s.win) /\ s.win \in Seq(Char)
      /\ s.gn \in Nat /\ s.msize \in Nat /\ s.off \in Nat
  BY <1>1 DEF InUse, Good, State
<1> DEFINE c == SubSeq(s.win, s.gn + 1, s.gn + k)
<1>3. /\ c \in Seq(Char) /\ Len(c) = k
      /\ \A i \in 1 .. k : c[i] = s.win[s.gn + i]
  <2> DEFINE a == s.gn + 1
             b == s.gn + k
  <2>1. s.gn + k <= Len(s.win) /\ Len(s.win) \in Nat
    BY <1>2
  <2>2. a \in 1 .. Len(s.win) + 1 /\ b \in a - 1 .. Len(s.win) /\ b - a + 1 = k
    BY <1>2, <2>1
  <2>3. \A i \in 1 .. k : a + i - 1 = s.gn + i
    BY <1>2
  <2> HIDE DEF a, b
  <2>4. /\ SubSeq(s.win, a, b) \in Seq(Char) /\ Len(SubSeq(s.win, a, b)) = k
        /\ \A i \in 1 .. k : SubSeq(s.win, a, b)[i] = s.win[a + i - 1]
    BY <1>2, <2>2, SubSeqProperties
  <2> QED
    BY <2>3, <2>4 DEF a, b
<1>4. ASSUME NEW i \in 1 .. k PROVE s.win[s.gn + i] = Visible(s)[goffset(s) + i]
  <2> DEFINE j == s.gn + i
  <2>1. j \in 1 .. s.msize
    BY <1>2
  <2> HIDE DEF j
  <2>2. Visible(s)[s.off + j] = s.win[j]
    BY <1>1, <2>1, WindowVisible
  <2>3. s.off + (s.gn + i) = (s.off + s.gn) + i
    BY <1>2
  <2> QED
    BY <2>2, <2>3 DEF j, goffset
<1> QED
  BY <1>3, <1>4 DEF Chars

(* A new window shows the file as it is.                                   *)
LEMMA FreshChars ==
    ASSUME NEW s \in State, NEW t, NEW at \in Nat, NEW sz \in Nat, Fresh(s, t, at, sz),
           NEW k \in Nat, k <= t.msize
    PROVE  /\ Len(Chars(t, k)) = k
           /\ \A i \in 1 .. k : Chars(t, k)[i] = s.file[at + i]
<1>1. /\ t \in State /\ t.gn = 0 /\ t.msize = Len(t.win)
      /\ t.win = SubSeq(s.file, at + 1, at + t.msize) /\ at + t.msize <= Len(s.file)
  BY DEF Fresh
<1>2. /\ t.msize \in Nat /\ t.win \in Seq(Char) /\ s.file \in Seq(Char)
  BY <1>1 DEF State
<1>3. Chars(t, k) = SubSeq(t.win, 1, k)
  BY <1>1 DEF Chars
<1>4. /\ Len(SubSeq(t.win, 1, k)) = k
      /\ \A i \in 1 .. k : SubSeq(t.win, 1, k)[i] = t.win[i]
  BY <1>1, <1>2
<1>5. \A i \in 1 .. t.msize : t.win[i] = s.file[at + i]
  <2> DEFINE n == t.msize
             w == SubSeq(s.file, at + 1, at + n)
  <2>1. \A i \in 1 .. n : w[i] = s.file[at + i]
    BY <1>1, <1>2
  <2> QED
    BY <1>1, <2>1
<1> QED
  BY <1>2, <1>3, <1>4, <1>5

LEMMA UnderflowResult ==
    ASSUME NEW s \in State, Good(s)
    PROVE  LET r == underflow(s) IN
           /\ Sound(s, r)
           /\ r.out = "ok" => /\ Reads(s, r, 1) /\ goffset(r.mb) = goffset(s)
                              /\ r.n \in Nat /\ r.n = Len(r.chars)
                              /\ r.n <= r.mb.ge - r.mb.gn
<1> DEFINE at == s.off + s.ge
           m == SetOffset(s, at)
           r == underflow(s)
<1>1. /\ at \in Nat /\ s.off \in Nat /\ s.ge \in Nat /\ s.gn \in Nat /\ s.bound \in BOOLEAN
      /\ s.gn <= s.ge /\ Len(s.file) \in Nat
  BY DEF State, Good
<1>2. CASE s.gn < s.ge /\ s.gb = "win"
  <2>1. r = Done(s, Chars(s, 1), 1)
    BY <1>2 DEF underflow
  <2>2. r.mb = s /\ r.out = "ok" /\ r.n = 1 /\ r.chars = Chars(s, 1)
    BY <2>1 DEF Done
  <2>3. s.gn + 1 <= s.ge
    BY <1>1, <1>2
  <2>4. Len(r.chars) = 1 /\ \A i \in 1 .. 1 : r.chars[i] = Visible(s)[goffset(s) + i]
    <3> DEFINE k == 1
    <3>1. k \in Nat /\ s.gn + k <= s.ge
      BY <2>3
    <3> HIDE DEF k
    <3>2. Len(Chars(s, k)) = k /\ \A i \in 1 .. k : Chars(s, k)[i] = Visible(s)[goffset(s) + i]
      BY <1>2, <3>1, CharsVisible
    <3> QED
      BY <2>2, <3>2 DEF k
  <2>5. Reads(s, r, 1)
    BY <2>4 DEF Reads
  <2>6. Sound(s, r)
    BY <2>2 DEF Sound
  <2> QED
    BY <1>1, <2>2, <2>3, <2>4, <2>5, <2>6
<1>3. CASE s.gn < s.ge /\ s.gb # "win"
  <2>1. r = Fault(s, "unmapped")
    BY <1>3 DEF underflow
  <2>2. r.mb = s /\ r.out = "unmapped"
    BY <2>1 DEF Fault
  <2>3. ~Calm(s)
    BY <1>1, <1>3 DEF Calm, Good, Null, InUse
  <2> QED
    BY <2>2, <2>3 DEF Sound
<1>4. CASE ~(s.gn < s.ge) /\ ~s.bound
  <2>1. r = Fault(s, "unopened")
    BY <1>4 DEF underflow
  <2>2. r.mb = s /\ r.out = "unopened"
    BY <2>1 DEF Fault
  <2> QED
    BY <2>2 DEF Sound
<1>5. CASE ~(s.gn < s.ge) /\ s.bound /\ s.off >= MapSize(s) - s.ge
  <2>1. r = Done(s, <<>>, 0)
    BY <1>5 DEF underflow
  <2>2. r.mb = s /\ r.out = "ok" /\ r.n = 0 /\ r.chars = <<>>
    BY <2>1 DEF Done
  <2>3. s.off + s.gn >= MapSize(s)
    BY <1>1, <1>5 DEF MapSize
  <2>4. Len(r.chars) = 0
    BY <2>2
  <2>5. Reads(s, r, 1)
    BY <1>1, <2>3, <2>4 DEF Reads, goffset
  <2> QED
    BY <1>1, <2>2, <2>4, <2>5 DEF Sound
<1>6. CASE ~(s.gn < s.ge) /\ s.bound /\ s.off < MapSize(s) - s.ge /\ CanRemap(m)
  <2> DEFINE t == m_remap(m, 0)
  <2>1. Fresh(s, t, at, 0)
    BY <1>1, <1>6, RemapFresh
  <2>2. ~(s.off >= MapSize(s) - s.ge)
    BY <1>1, <1>6 DEF MapSize
  <2>3. r = Done(t, Chars(t, 1), 1)
    BY <1>6, <2>2 DEF underflow
  <2> HIDE DEF t
  <2>4. r.mb = t /\ r.out = "ok" /\ r.n = 1 /\ r.chars = Chars(t, 1)
    BY <2>3 DEF Done
  <2>5. t \in State /\ t.gn = 0 /\ t.off = at /\ t.msize > 0 /\ t.ge = t.msize
    BY <2>1 DEF Fresh, InUse
  <2>6. t.msize \in Nat /\ 1 <= t.msize
    BY <2>5, SMTT(20) DEF State
  <2>7. Len(r.chars) = 1 /\ \A i \in 1 .. 1 : r.chars[i] = s.file[at + i]
    <3> DEFINE k == 1
               sz == 0
    <3>1. k \in Nat /\ k <= t.msize /\ sz \in Nat /\ Fresh(s, t, at, sz)
      BY <2>1, <2>6
    <3> HIDE DEF k, sz, at
    <3>2. Len(Chars(t, k)) = k /\ \A i \in 1 .. k : Chars(t, k)[i] = s.file[at + i]
      BY <1>1, <3>1, FreshChars
    <3> QED
      BY <2>4, <3>2 DEF k
  <2>8. s.ge = s.gn
    BY <1>1, <1>6
  <2>9. Reads(s, r, 1)
    BY <2>7, <2>8 DEF Reads, goffset
  <2>10. Sound(s, r)
    BY <2>1, <2>4 DEF Sound, Fresh
  <2>11. goffset(t) = goffset(s)
    BY <1>1, <2>5, <2>8 DEF goffset
  <2> QED
    BY <2>4, <2>5, <2>6, <2>7, <2>9, <2>10, <2>11
<1>7. CASE ~(s.gn < s.ge) /\ s.bound /\ s.off < MapSize(s) - s.ge /\ ~CanRemap(m)
  <2>1. ~(s.off >= MapSize(s) - s.ge)
    BY <1>1, <1>7 DEF MapSize
  <2>2. r = Threw(Unmap(m))
    BY <1>7, <2>1 DEF underflow, m_remap
  <2>3. Unmap(m) \in State /\ Good(Unmap(m))
    BY <1>1, UnmapGood
  <2>4. r.mb = Unmap(m) /\ r.out = "throw"
    BY <2>2 DEF Threw
  <2> QED
    BY <2>3, <2>4 DEF Sound
<1> QED
  BY <1>1, <1>2, <1>3, <1>4, <1>5, <1>6, <1>7 DEF MapSize

(* gptr() moved within its area, and pptr() set beside it.                 *)
LEMMA BumpGood ==
    ASSUME NEW s \in State, Good(s), NEW k \in Nat, s.gn + k <= s.ge
    PROVE  LET t == gbump(s, k) IN
           /\ t \in State /\ Good(t) /\ (Calm(s) => Calm(t))
           /\ SameView(s, t) /\ t.off = s.off /\ SamePut(s, t)
           /\ t.gb = s.gb /\ t.gn = s.gn + k /\ t.ge = s.ge
<1> DEFINE t == gbump(s, k)
<1>1. s.gn + k \in Nat /\ s.gn \in Nat /\ s.ge \in Nat
  BY DEF State
<1>2. /\ t \in State /\ SameView(s, t) /\ t.off = s.off /\ SamePut(s, t)
      /\ t.gb = s.gb /\ t.gn = s.gn + k /\ t.ge = s.ge
  BY <1>1, GbumpFields
<1> HIDE DEF t
<1>3. Null(s) => Null(t)
  BY <1>1, <1>2 DEF Null, SamePut
<1>4. InUse(s) => InUse(t)
  BY <1>2 DEF InUse, SameView, SamePut
<1>5. Good(t)
  BY <1>2, <1>3, <1>4 DEF Good, SameView, SameFile, SamePut
<1>6. Calm(s) => Calm(t)
  BY <1>2, <1>3 DEF Calm, SameView, SameFile
<1> QED
  BY <1>2, <1>5, <1>6 DEF t

LEMMA PutBesideGet ==
    ASSUME NEW s \in State, Good(s), s.mapped => InUse(s)
    PROVE  LET t == m_setp_ex(s, s.gn) IN
           /\ t \in State /\ Good(t) /\ (Calm(s) => Calm(t) \/ ~s.mapped)
           /\ SameView(s, t) /\ t.off = s.off /\ SameGet(s, t)
           /\ t.pn = s.gn /\ t.pb = ViewBase(s) /\ t.pe = s.msize
<1> DEFINE t == m_setp_ex(s, s.gn)
<1>1. s.gn \in Nat /\ s.ge \in Nat /\ s.msize \in Nat /\ s.mapped \in BOOLEAN
  BY DEF State
<1>2. /\ t \in State /\ SameView(s, t) /\ t.off = s.off /\ SameGet(s, t)
      /\ t.pb = ViewBase(s) /\ t.pn = s.gn /\ t.pe = s.msize
  BY <1>1, SetpExFields
<1> HIDE DEF t
<1>3. t.gn <= t.ge /\ t.pn <= t.pe /\ (t.ge = t.msize \/ t.ge = 0) /\ t.pe = t.msize
  BY <1>1, <1>2 DEF Good, SameView, SameGet
<1>4. s.mapped => InUse(t)
  BY <1>2 DEF InUse, SameView, SameGet, ViewBase
<1>5. Good(t)
  <2>1. t.mapped => t.msize = Len(t.win) /\ t.msize > 0 /\ t.woff + t.msize <= Len(t.file)
    BY <1>2 DEF Good, SameView, SameFile
  <2>2. ~t.mapped => t.gb # "win" /\ t.pb # "win"
    BY <1>2 DEF Good, SameView, SameGet, ViewBase
  <2>3. t.mapped = s.mapped
    BY <1>2 DEF SameView
  <2> QED
    BY <1>3, <1>4, <2>1, <2>2, <2>3 DEF Good
<1>6. Calm(s) => Calm(t) \/ ~s.mapped
  BY <1>2 DEF Calm, SameView, SameFile
<1> QED
  BY <1>2, <1>5, <1>6 DEF t

LEMMA GetBesidePut ==
    ASSUME NEW s \in State, Good(s), s.mapped => InUse(s)
    PROVE  LET t == m_setg_ex(s, s.pn) IN
           /\ t \in State /\ Good(t) /\ (Calm(s) => Calm(t) \/ ~s.mapped)
           /\ SameView(s, t) /\ t.off = s.off /\ SamePut(s, t)
           /\ t.gn = s.pn /\ t.gb = ViewBase(s) /\ t.ge = s.msize
<1> DEFINE t == m_setg_ex(s, s.pn)
<1>1. s.pn \in Nat /\ s.pe \in Nat /\ s.msize \in Nat /\ s.mapped \in BOOLEAN
  BY DEF State
<1>2. /\ t \in State /\ SameView(s, t) /\ t.off = s.off /\ SamePut(s, t)
      /\ t.gb = ViewBase(s) /\ t.gn = s.pn /\ t.ge = s.msize
  BY <1>1, SetgExFields
<1> HIDE DEF t
<1>3. t.gn <= t.ge /\ t.pn <= t.pe /\ (t.pe = t.msize \/ t.pe = 0) /\ t.ge = t.msize
  BY <1>1, <1>2 DEF Good, SameView, SamePut
<1>4. s.mapped => InUse(t)
  BY <1>2 DEF InUse, SameView, SamePut, ViewBase
<1>5. Good(t)
  <2>1. t.mapped => t.msize = Len(t.win) /\ t.msize > 0 /\ t.woff + t.msize <= Len(t.file)
    BY <1>2 DEF Good, SameView, SameFile
  <2>2. ~t.mapped => t.gb # "win" /\ t.pb # "win"
    BY <1>2 DEF Good, SameView, SamePut, ViewBase
  <2>3. t.mapped = s.mapped
    BY <1>2 DEF SameView
  <2> QED
    BY <1>3, <1>4, <2>1, <2>2, <2>3 DEF Good
<1>6. Calm(s) => Calm(t) \/ ~s.mapped
  BY <1>2 DEF Calm, SameView, SameFile
<1> QED
  BY <1>2, <1>5, <1>6 DEF t

(* xsgetn(): the rest of this window, and the beginning of the next.       *)
LEMMA GetnResult ==
    ASSUME NEW s \in State, Good(s), NEW size \in Nat, size > 0
    PROVE  LET r == xsgetn(s, size) IN
           /\ Sound(s, r)
           /\ r.out = "ok" => Reads(s, r, size) /\ goffset(r.mb) = goffset(s) + Len(r.chars)
<1> DEFINE k      == Min2(size, s.ge - s.gn)
           first  == Chars(s, k)
           used   == gbump(s, k)
           more   == greserve(used, size - k)
           j      == Min2(size - k, more.n)
           second == Chars(more.mb, j)
           after  == gbump(more.mb, j)
           r      == xsgetn(s, size)
<1>1. /\ s.ge \in Nat /\ s.gn \in Nat /\ s.gn <= s.ge /\ s.off \in Nat /\ s.mapped \in BOOLEAN
      /\ Len(s.file) \in Nat
  BY DEF State, Good
<1>2. k \in Nat /\ k <= size /\ s.gn + k <= s.ge /\ (k < size => s.gn + k = s.ge)
  BY <1>1 DEF Min2
<1> HIDE DEF k
<1>3. CASE k > 0 /\ s.gb # "win"
  <2>1. r = Fault(s, "unmapped")
    BY <1>3 DEF xsgetn, k
  <2>2. r.mb = s /\ r.out = "unmapped"
    BY <2>1 DEF Fault
  <2>3. ~Calm(s)
    BY <1>1, <1>2, <1>3 DEF Calm, Good, Null, InUse
  <2> QED
    BY <2>2, <2>3 DEF Sound
<1>4. ASSUME k = 0 \/ s.gb = "win"
      PROVE  /\ Len(first) = k
             /\ \A i \in 1 .. k : first[i] = Visible(s)[goffset(s) + i]
  <2>1. CASE s.gb = "win"
    BY <1>2, <2>1, CharsVisible
  <2>2. CASE k = 0
    <3>1. first = <<>>
      BY <1>1, <2>2, SubSeqEmpty DEF Chars
    <3> QED
      BY <2>2, <3>1
  <2> QED
    BY <1>4, <2>1, <2>2
<1>5. /\ used \in State /\ Good(used) /\ (Calm(s) => Calm(used))
      /\ SameView(s, used) /\ used.off = s.off /\ SamePut(s, used)
      /\ used.gb = s.gb /\ used.gn = s.gn + k /\ used.ge = s.ge
  BY <1>2, BumpGood
<1> HIDE DEF first, used
<1>6. CASE (k = 0 \/ s.gb = "win") /\ size = k
  <2> DEFINE t == m_setp_ex(used, used.gn)
  <2>1. s.gb = "win" /\ s.mapped /\ used.mapped /\ InUse(used)
    BY <1>5, <1>6, InWindow DEF SameView
  <2>2. t \in State /\ Good(t) /\ (Calm(used) => Calm(t)) /\ t.off = used.off /\ SameGet(used, t)
    BY <1>5, <2>1, PutBesideGet
  <2>3. r = Done(t, first, k)
    BY <1>2, <1>6 DEF xsgetn, k, used, first
  <2> HIDE DEF t
  <2>4. r.mb = t /\ r.out = "ok" /\ r.chars = first
    BY <2>3 DEF Done
  <2>5. Len(r.chars) = k /\ \A i \in 1 .. k : r.chars[i] = Visible(s)[goffset(s) + i]
    BY <1>4, <1>6, <2>4
  <2>6. Reads(s, r, size)
    BY <1>6, <2>5 DEF Reads
  <2>7. Sound(s, r)
    BY <1>5, <2>2, <2>4 DEF Sound
  <2>8. goffset(r.mb) = goffset(s) + k
    BY <1>1, <1>2, <1>5, <2>2, <2>4 DEF goffset, SameGet
  <2> QED
    BY <2>5, <2>6, <2>7, <2>8
<1> DEFINE left == size - k
           at == used.off + used.gn
<1>7. left \in Nat /\ at \in Nat /\ goffset(s) \in Nat /\ at = goffset(s) + k
  BY <1>1, <1>2, <1>5 DEF goffset
<1>8. /\ Sound(used, more) /\ more.out \in {"ok", "throw"}
      /\ more.out = "ok" => /\ more.n = more.mb.ge - more.mb.gn
                            /\ \/ left <= used.ge - used.gn /\ more.mb = used
                               \/ left > used.ge - used.gn /\ Fresh(used, more.mb, at, left)
  <2>1. left \in Nat /\ more = greserve(used, left)
    BY <1>7
  <2> HIDE DEF left, more
  <2> QED
    BY <1>5, <2>1, ReserveResult
<1>9. CASE (k = 0 \/ s.gb = "win") /\ size # k /\ more.out = "throw"
  <2>1. r = Threw(more.mb)
    BY <1>2, <1>9 DEF xsgetn, k, used
  <2>2. r.mb = more.mb /\ r.out = "throw"
    BY <2>1 DEF Threw
  <2> QED
    BY <1>8, <2>2 DEF Sound
<1>10. CASE (k = 0 \/ s.gb = "win") /\ size # k /\ more.out = "ok"
  <2> DEFINE u == more.mb
             t == m_setp_ex(after, after.gn)
             chars == first \o second
  <2>1. left > 0 /\ used.ge - used.gn = 0
    BY <1>1, <1>2, <1>5, <1>10
  <2>2. Fresh(used, u, at, left) /\ more.n = u.ge - u.gn
    BY <1>7, <1>8, <1>10, <2>1
  <2>3. r = Done(t, chars, k + j)
    <3>1. ~(k > 0 /\ s.gb # "win") /\ size # k /\ more.out # "throw"
      BY <1>2, <1>10
    <3> QED
      BY <3>1 DEF xsgetn, k, used, first
  <2> HIDE DEF more
  <2>4. /\ u \in State /\ Good(u) /\ Calm(u) /\ u.mapped /\ u.off = at /\ InUse(u) /\ u.gn = 0
        /\ u.ge = u.msize /\ u.msize \in Nat /\ SameFile(used, u)
    BY <2>2 DEF Fresh, InUse, State
  <2>5. j \in Nat /\ j <= u.msize /\ j <= left /\ u.gn + j <= u.ge /\ (j < left => j = u.msize)
    BY <1>7, <2>2, <2>4 DEF Min2
  <2> HIDE DEF j, u
  <2>6. /\ after \in State /\ Good(after) /\ Calm(after) /\ SameView(u, after)
        /\ after.off = at /\ after.gn = j /\ InUse(after) /\ after.mapped
    <3>1. after = gbump(u, j)
      BY DEF u
    <3>2. /\ after \in State /\ Good(after) /\ Calm(after)
          /\ SameView(u, after) /\ after.off = u.off /\ SamePut(u, after)
          /\ after.gb = u.gb /\ after.gn = u.gn + j /\ after.ge = u.ge
      BY <2>4, <2>5, <3>1, BumpGood
    <3>3. InUse(after)
      BY <2>4, <3>2 DEF InUse, SameView, SamePut
    <3> QED
      BY <2>4, <2>5, <3>2, <3>3 DEF SameView
  <2> HIDE DEF after
  <2>7. t \in State /\ Good(t) /\ Calm(t) /\ t.off = at /\ t.gn = j
    BY <2>6, PutBesideGet DEF SameGet
  <2> HIDE DEF t
  <2>8. /\ Len(second) = j
        /\ \A i \in 1 .. j : second[i] = s.file[at + i]
    <3>1. second = Chars(u, j)
      BY DEF u
    <3>2. used.file = s.file
      BY <1>5 DEF SameView, SameFile
    <3> HIDE DEF at, left
    <3>3. /\ Len(Chars(u, j)) = j
          /\ \A i \in 1 .. j : Chars(u, j)[i] = used.file[at + i]
      BY <1>5, <1>7, <2>2, <2>5, FreshChars DEF u
    <3> QED
      BY <3>1, <3>2, <3>3
  <2>9. first \in Seq(Char) /\ second \in Seq(Char)
    <3>1. s.win \in Seq(Char) /\ u.win \in Seq(Char)
      BY <2>4 DEF State
    <3>2. first = SubSeq(s.win, s.gn + 1, s.gn + k) /\ second = SubSeq(u.win, u.gn + 1, u.gn + j)
      BY DEF first, Chars, u
    <3>3. s.gb = "win" => first \in Seq(Char)
      BY <1>2, CharsVisible DEF first
    <3>4. k = 0 => first \in Seq(Char)
      <4>1. <<>> \in Seq(Char)
        OBVIOUS
      <4>2. k = 0 => first = <<>>
        BY <1>1, SubSeqEmpty DEF first, Chars
      <4> QED
        BY <4>1, <4>2, Zenon
    <3>5. second \in Seq(Char)
      BY <2>4, <2>5, CharsVisible DEF InUse, u
    <3>6. k = 0 \/ s.gb = "win"
      BY <1>10
    <3>7. first \in Seq(Char)
      BY <3>3, <3>4, <3>6
    <3> QED
      BY <3>5, <3>7
  <2> HIDE DEF second
  <2>10. /\ Len(chars) = k + j
         /\ \A i \in 1 .. k + j : chars[i] = IF i <= k THEN first[i] ELSE second[i - k]
    <3>1. k \in Nat /\ j \in Nat
      BY <1>2, <2>5
    <3>2. Len(first) = k /\ Len(second) = j
      BY <1>4, <1>10, <2>8
    <3> QED
      BY <2>9, <3>1, <3>2, ConcatProperties
  <2> HIDE DEF chars
  <2>11. ASSUME NEW i \in 1 .. k + j
         PROVE  chars[i] \in {Visible(s)[goffset(s) + i], s.file[goffset(s) + i]}
    <3>1. CASE i <= k
      <4>1. i \in 1 .. k
        BY <1>2, <2>5, <3>1
      <4>2. chars[i] = Visible(s)[goffset(s) + i]
        BY <1>4, <1>10, <2>10, <3>1, <4>1
      <4> QED
        BY <4>2
    <3>2. CASE i > k
      <4>1. i - k \in 1 .. j
        BY <1>2, <2>5, <3>2
      <4>2. chars[i] = second[i - k]
        BY <1>2, <2>10, <3>2
      <4>3. chars[i] = s.file[at + (i - k)]
        BY <2>8, <4>1, <4>2
      <4>4. at + (i - k) = goffset(s) + i
        BY <1>1, <1>2, <1>7, <2>5 DEF goffset
      <4> QED
        BY <4>3, <4>4
    <3> QED
      BY <1>2, <2>5, <3>1, <3>2
  <2>12. k + j < size => goffset(s) + (k + j) >= MapSize(s)
    <3>1. k + j < size => j = u.msize /\ u.msize < left
      BY <1>2, <2>5
    <3>2. u.msize < left => at + u.msize = Len(used.file)
      BY <2>2 DEF Fresh, u
    <3>3. Len(used.file) = MapSize(s)
      BY <1>5 DEF SameView, SameFile, MapSize
    <3>4. goffset(s) + (k + j) = at + j
      <4>1. k \in Nat /\ j \in Nat
        BY <1>2, <2>5
      <4> HIDE DEF at
      <4> QED
        BY <1>7, <4>1
    <3> QED
      BY <1>1, <1>7, <2>4, <3>1, <3>2, <3>3, <3>4
  <2>13. r.mb = t /\ r.out = "ok" /\ r.chars = chars
    BY <2>3 DEF Done
  <2>14. Reads(s, r, size)
    BY <2>10, <2>11, <2>12, <2>13 DEF Reads
  <2>15. Sound(s, r)
    BY <2>7, <2>13 DEF Sound
  <2>16. goffset(r.mb) = goffset(s) + Len(r.chars)
    <3>1. k \in Nat /\ j \in Nat
      BY <1>2, <2>5
    <3>2. goffset(t) = at + j
      BY <2>7 DEF goffset
    <3> HIDE DEF at
    <3> QED
      BY <1>7, <2>10, <2>13, <3>1, <3>2
  <2> QED
    BY <2>14, <2>15, <2>16
<1> QED
  <2>1. more.out \in {"ok", "throw"}
    BY <1>8
  <2>2. \/ k > 0 /\ s.gb # "win"
        \/ k = 0 \/ s.gb = "win"
    BY <1>2
  <2> HIDE DEF more, j, r, used
  <2> QED
    BY <1>3, <1>6, <1>9, <1>10, <2>1, <2>2

-----------------------------------------------------------------------------
(* Writing.                                                                *)

LEMMA OverwriteFields ==
    ASSUME NEW f \in Seq(Char), NEW at \in Nat, NEW c \in Seq(Char)
    PROVE  LET o == Overwrite(f, at, c) IN
           /\ o \in Seq(Char) /\ Len(o) = Len(f) /\ DOMAIN o = DOMAIN f
           /\ \A i \in DOMAIN f : i > at /\ i <= at + Len(c) => o[i] = c[i - at]
           /\ \A i \in DOMAIN f : ~(i > at /\ i <= at + Len(c)) => o[i] = f[i]
<1> DEFINE o == Overwrite(f, at, c)
           n == Len(f)
<1>1. n \in Nat /\ DOMAIN f = 1 .. n /\ Len(c) \in Nat
  OBVIOUS
<1>2. o = [i \in 1 .. n |-> IF i > at /\ i <= at + Len(c) THEN c[i - at] ELSE f[i]]
  BY <1>1 DEF Overwrite
<1>3. ASSUME NEW i \in 1 .. n
      PROVE  (IF i > at /\ i <= at + Len(c) THEN c[i - at] ELSE f[i]) \in Char
  <2>1. CASE i > at /\ i <= at + Len(c)
    <3>1. i - at \in 1 .. Len(c)
      BY <1>1, <2>1
    <3> QED
      BY <2>1, <3>1
  <2>2. CASE ~(i > at /\ i <= at + Len(c))
    BY <1>1, <2>2
  <2> QED
    BY <2>1, <2>2
<1> HIDE DEF o, n
<1>4. o \in [1 .. n -> Char]
  BY <1>2, <1>3
<1>5. o \in Seq(Char) /\ Len(o) = n
  BY <1>1, <1>4
<1> QED
  BY <1>1, <1>2, <1>5 DEF o, n

LEMMA StoreFields ==
    ASSUME NEW s \in State, Good(s), s.pb = "win",
           NEW c \in Seq(Char), s.pn + Len(c) <= s.pe
    PROVE  LET t == StoreChars(s, c) IN
           /\ t \in State /\ Good(t) /\ Calm(t) /\ t.mapped /\ InUse(t)
           /\ t.off = s.off /\ t.pn = s.pn + Len(c) /\ t.access = s.access
           /\ t.msize = s.msize /\ Len(t.file) = Len(s.file)
           /\ t.win = Overwrite(s.win, s.pn, c)
           /\ t.access = "write" => t.file = Overwrite(s.file, s.off + s.pn, c)
<1> DEFINE win == Overwrite(s.win, s.pn, c)
           file == IF s.access = "write" THEN Overwrite(s.file, s.woff + s.pn, c) ELSE s.file
           u == [s EXCEPT !.win = win, !.file = file]
           n == Len(c)
           t == pbump(u, n)
<1>1. /\ s.file \in Seq(Char) /\ s.win \in Seq(Char) /\ s.pn \in Nat /\ s.woff \in Nat
      /\ n \in Nat /\ s.woff + s.pn \in Nat /\ s.off \in Nat /\ s.msize \in Nat
  BY DEF State
<1>2. win \in Seq(Char) /\ Len(win) = Len(s.win)
  BY <1>1, OverwriteFields
<1>3. file \in Seq(Char) /\ Len(file) = Len(s.file)
  <2> DEFINE at == s.woff + s.pn
  <2>1. at \in Nat
    BY <1>1
  <2> HIDE DEF at
  <2>2. Overwrite(s.file, at, c) \in Seq(Char) /\ Len(Overwrite(s.file, at, c)) = Len(s.file)
    BY <1>1, <2>1, OverwriteFields
  <2> QED
    BY <1>1, <2>2 DEF at
<1>4. t = StoreChars(s, c)
  BY DEF StoreChars
<1>5. s.mapped /\ InUse(s)
  BY InWindow
<1>6. s.access = "write" => file = Overwrite(s.file, s.off + s.pn, c)
  BY <1>5 DEF InUse
<1> HIDE DEF win, file, n
<1>7. /\ u \in State /\ u.win = win /\ u.file = file /\ u.access = s.access /\ u.off = s.off
      /\ u.woff = s.woff /\ u.msize = s.msize /\ u.mapped = s.mapped
      /\ SameGet(s, u) /\ SamePut(s, u)
  BY <1>2, <1>3 DEF State, SameGet, SamePut
<1> HIDE DEF u
<1>8. /\ t \in State /\ SameView(u, t) /\ t.off = u.off /\ SameGet(u, t)
      /\ t.pb = u.pb /\ t.pn = u.pn + n /\ t.pe = u.pe
  BY <1>1, <1>7, PbumpFields
<1> HIDE DEF t
<1>9. /\ t.win = win /\ t.file = file /\ t.access = s.access /\ t.off = s.off
      /\ t.woff = s.woff /\ t.msize = s.msize /\ t.mapped /\ SameGet(s, t)
      /\ t.pb = s.pb /\ t.pn = s.pn + n /\ t.pe = s.pe
  BY <1>5, <1>7, <1>8 DEF SameView, SameFile, SameGet, SamePut
<1>10. InUse(t)
  BY <1>5, <1>9 DEF InUse, SameGet
<1>11. Good(t)
  <2>1. t.gn <= t.ge /\ (t.ge = t.msize \/ t.ge = 0) /\ (t.pe = t.msize \/ t.pe = 0)
    BY <1>9 DEF Good, SameGet
  <2>2. t.pn <= t.pe
    BY <1>9 DEF n
  <2>3. t.msize = Len(t.win) /\ t.msize > 0 /\ t.woff + t.msize <= Len(t.file)
    BY <1>2, <1>3, <1>5, <1>9 DEF Good
  <2> QED
    BY <1>9, <1>10, <2>1, <2>2, <2>3 DEF Good
<1>12. Calm(t)
  <2>1. t.off = t.woff /\ t.woff + t.msize <= Len(t.file)
    BY <1>9, <1>10, <1>11 DEF Good, InUse
  <2>2. t.off \in Nat /\ t.msize \in Nat
    BY <1>1, <1>9
  <2>3. Len(t.file) \in Nat
    BY <1>3, <1>9
  <2> QED
    BY <1>9, <2>1, <2>2, <2>3 DEF Calm
<1> QED
  BY <1>3, <1>4, <1>6, <1>8, <1>9, <1>10, <1>11, <1>12 DEF win, n

(* An area that has room is in use, if all is calm.                        *)
LEMMA RoomIsMapped ==
    ASSUME NEW s \in State, Good(s), Calm(s), s.pn < s.pe
    PROVE  s.pb = "win"
<1>1. s.pn \in Nat /\ s.pe \in Nat
  BY DEF State
<1> QED
  BY <1>1 DEF Calm, Good, Null, InUse

LEMMA PutResult ==
    ASSUME NEW s \in State, Good(s), NEW c \in Seq(Char), Len(c) > 0, s.pn + Len(c) <= s.pe
    PROVE  LET r == Put(s, c) IN
           /\ Sound(s, r)
           /\ r.out # "ok" => r.mb = s /\ (Calm(s) => r.out # "unmapped")
           /\ r.out = "ok" => s.pb = "win" /\ r.mb = StoreChars(s, c) /\ r.n = Len(c)
<1> DEFINE r == Put(s, c)
<1>1. CASE s.pb # "win"
  <2>1. r.mb = s /\ r.out = "unmapped"
    BY <1>1 DEF Put, Fault
  <2>2. s.pn < s.pe
    BY DEF State
  <2>3. ~Calm(s)
    BY <1>1, <2>2, RoomIsMapped
  <2> QED
    BY <2>1, <2>3 DEF Sound
<1>2. CASE s.pb = "win" /\ s.access = "read"
  <2>1. r.mb = s /\ r.out = "readonly"
    BY <1>2 DEF Put, Fault
  <2> QED
    BY <2>1 DEF Sound
<1>3. CASE s.pb = "win" /\ s.access # "read"
  <2> DEFINE t == StoreChars(s, c)
  <2>1. t \in State /\ Good(t) /\ Calm(t)
    BY <1>3, StoreFields
  <2> HIDE DEF t
  <2>2. r.mb = t /\ r.out = "ok" /\ r.n = Len(c)
    BY <1>3 DEF Put, Done, t
  <2> QED
    BY <1>3, <2>1, <2>2 DEF Sound, t
<1> QED
  BY <1>1, <1>2, <1>3

(* The character c is put at pptr(), into the window and the file.         *)
Placed(s, t, c) ==
    /\ poffset(s) < MapSize(s)
    /\ Visible(t)[poffset(s) + 1] = c
    /\ t.access = "write" => t.file = [s.file EXCEPT ![poffset(s) + 1] = c]
    /\ poffset(t) = poffset(s) + 1

LEMMA PutOne ==
    ASSUME NEW s \in State, Good(s), NEW c \in Char, s.pn < s.pe
    PROVE  LET r == Put(s, <<c>>) IN
           Sound(s, r) /\ (r.out = "ok" => r.n = 1 /\ Placed(s, r.mb, c))
<1> DEFINE cc == <<c>>
           r == Put(s, cc)
           t == StoreChars(s, cc)
<1>1. cc \in Seq(Char) /\ Len(cc) = 1 /\ cc[1] = c
  OBVIOUS
<1> HIDE DEF cc
<1>2. s.pn \in Nat /\ s.pe \in Nat /\ s.off \in Nat /\ s.pn + Len(cc) <= s.pe
  BY <1>1 DEF State
<1>3. /\ Sound(s, r)
      /\ r.out = "ok" => s.pb = "win" /\ r.mb = t /\ r.n = Len(cc)
  <2>1. cc \in Seq(Char) /\ Len(cc) > 0 /\ s.pn + Len(cc) <= s.pe
    BY <1>1, <1>2
  <2> QED
    BY <2>1, PutResult
<1> HIDE DEF r
<1>4. CASE r.out = "ok"
  <2>1. s.pb = "win" /\ s.mapped /\ InUse(s)
    BY <1>3, <1>4, InWindow
  <2>2. /\ t \in State /\ Good(t) /\ t.mapped /\ InUse(t)
        /\ t.off = s.off /\ t.pn = s.pn + Len(cc) /\ t.msize = s.msize
        /\ t.win = Overwrite(s.win, s.pn, cc)
        /\ t.access = "write" => t.file = Overwrite(s.file, s.off + s.pn, cc)
    BY <1>1, <1>2, <2>1, StoreFields
  <2> HIDE DEF t
  <2> DEFINE j == s.pn + 1
             at == s.off + s.pn
  <2>3. /\ j \in 1 .. s.msize /\ s.msize = Len(s.win) /\ s.win \in Seq(Char) /\ s.file \in Seq(Char)
        /\ s.msize \in Nat
    BY <1>2, <2>1 DEF InUse, Good, State
  <2>4. s.off + j \in DOMAIN s.file
    <3> HIDE DEF j
    <3> QED
      BY <2>1, <2>3, WindowVisible
  <2>5. t.win[j] = c
    <3>1. j \in DOMAIN s.win /\ j > s.pn /\ j <= s.pn + Len(cc) /\ j - s.pn = 1
      BY <1>1, <1>2, <2>3
    <3> HIDE DEF j
    <3>2. Overwrite(s.win, s.pn, cc)[j] = cc[j - s.pn]
      <4>1. \A i \in DOMAIN s.win :
               i > s.pn /\ i <= s.pn + Len(cc) => Overwrite(s.win, s.pn, cc)[i] = cc[i - s.pn]
        BY <1>1, <1>2, <2>3, OverwriteFields, ZenonT(30)
      <4> QED
        BY <3>1, <4>1
    <3> QED
      BY <1>1, <2>2, <3>1, <3>2
  <2>6. Visible(t)[s.off + j] = c
    <3> HIDE DEF j
    <3>1. Visible(t)[t.off + j] = t.win[j]
      BY <2>2, <2>3, WindowVisible
    <3> QED
      BY <2>2, <2>5, <3>1
  <2>7. Overwrite(s.file, at, cc) = [s.file EXCEPT ![at + 1] = c]
    <3>1. /\ at \in Nat /\ at + 1 \in DOMAIN s.file /\ DOMAIN s.file \subseteq Nat
          /\ at + 1 = s.off + j
      BY <1>2, <2>3, <2>4, SMTT(20)
    <3> HIDE DEF at, j
    <3>2. Overwrite(s.file, at, cc) =
            [i \in DOMAIN s.file |-> IF i > at /\ i <= at + Len(cc) THEN cc[i - at] ELSE s.file[i]]
      BY DEF Overwrite
    <3>3. ASSUME NEW i \in DOMAIN s.file
          PROVE  (IF i > at /\ i <= at + Len(cc) THEN cc[i - at] ELSE s.file[i])
                 = (IF i = at + 1 THEN c ELSE s.file[i])
      <4>1. i \in Nat
        BY <3>1
      <4>2. CASE i = at + 1
        <5>1. i > at /\ i <= at + Len(cc) /\ i - at = 1
          BY <1>1, <3>1, <4>1, <4>2
        <5> QED
          BY <1>1, <4>2, <5>1
      <4>3. CASE i # at + 1
        <5>1. ~(i > at /\ i <= at + Len(cc))
          BY <1>1, <3>1, <4>1, <4>3
        <5> QED
          BY <4>3, <5>1
      <4> QED
        BY <4>2, <4>3
    <3>4. [s.file EXCEPT ![at + 1] = c] = [i \in DOMAIN s.file |-> IF i = at + 1 THEN c ELSE s.file[i]]
      BY <2>3
    <3> QED
      BY <3>2, <3>3, <3>4
  <2>8. at + 1 = s.off + j /\ poffset(s) = at /\ poffset(t) = at + 1
    BY <1>1, <1>2, <2>2 DEF poffset
  <2>9. at < MapSize(s)
    BY <1>2, <2>3, <2>4, SMTT(20) DEF MapSize
  <2> HIDE DEF at, j
  <2>10. Placed(s, t, c)
    <3>1. t.access = "write" => t.file = [s.file EXCEPT ![at + 1] = c]
      BY <2>2, <2>7 DEF at
    <3> QED
      BY <2>6, <2>8, <2>9, <3>1 DEF Placed
  <2> QED
    BY <1>1, <1>3, <1>4, <2>10 DEF r, cc
<1> QED
  BY <1>3, <1>4 DEF r, cc

LEMMA NoAreasGood ==
    ASSUME NEW s \in State, Good(s), NEW off \in Nat
    PROVE  LET t == NoAreas(SetOffset(s, off)) IN
           /\ t \in State /\ Good(t) /\ SameFile(s, t) /\ Null(t) /\ t.off = off
           /\ t.mapped = s.mapped
           /\ off <= Len(s.file) => Calm(t)
<1> DEFINE m == SetOffset(s, off)
           t == NoAreas(m)
<1>1. m \in State /\ SameView(s, m) /\ m.off = off
  BY SetOffsetFields
<1> HIDE DEF m
<1>2. t \in State /\ SameView(m, t) /\ t.off = m.off /\ Null(t)
  BY <1>1, NoAreasFields
<1> HIDE DEF t
<1>3. SameView(s, t) /\ t.off = off /\ s.msize \in Nat
  BY <1>1, <1>2 DEF SameView, SameFile, State
<1>4. Good(t)
  BY <1>2, <1>3 DEF Good, Null, SameView, SameFile
<1>5. off <= Len(s.file) => Calm(t)
  BY <1>2, <1>3 DEF Calm, SameView, SameFile
<1> QED
  BY <1>2, <1>3, <1>4, <1>5 DEF t, m, SameView

(* The put position is within the file.                                    *)
LEMMA PutWithin ==
    ASSUME NEW s \in State, Good(s), Calm(s), NEW n \in Nat, n <= s.pe
    PROVE  s.off + n <= Len(s.file)
<1>1. /\ s.off \in Nat /\ s.msize \in Nat /\ Len(s.file) \in Nat /\ s.off <= Len(s.file)
      /\ s.pe \in Nat /\ s.mapped \in BOOLEAN
  BY DEF Calm, State
<1>2. CASE Null(s)
  BY <1>1, <1>2 DEF Null
<1>3. CASE InUse(s) /\ s.mapped
  BY <1>1, <1>3 DEF InUse, Good
<1> QED
  BY <1>1, <1>2, <1>3 DEF Calm, Good

LEMMA OverflowResult ==
    ASSUME NEW s \in State, Good(s), NEW c \in Char
    PROVE  LET r == overflow(s, c) IN
           /\ Sound(s, r)
           /\ r.out = "ok" => IF r.n = 1 THEN Placed(s, r.mb, c)
                              ELSE r.mb.file = s.file /\ poffset(s) >= MapSize(s)
<1> DEFINE at == s.off + s.pe
           m == SetOffset(s, at)
           r == overflow(s, c)
<1>1. /\ at \in Nat /\ s.off \in Nat /\ s.pe \in Nat /\ s.pn \in Nat /\ s.bound \in BOOLEAN
      /\ s.pn <= s.pe /\ Len(s.file) \in Nat
  BY DEF State, Good
<1>2. m.off = at
  BY <1>1, SetOffsetFields
<1>3. CASE s.pn < s.pe
  <2>1. r = Put(s, <<c>>)
    BY <1>3 DEF overflow
  <2> QED
    BY <1>3, <2>1, PutOne
<1>4. CASE ~(s.pn < s.pe) /\ ~s.bound
  <2>1. r.mb = s /\ r.out = "unopened"
    BY <1>4 DEF overflow, Fault
  <2> QED
    BY <2>1 DEF Sound
<1>5. CASE ~(s.pn < s.pe) /\ s.bound /\ at >= MapSize(s)
  <2> DEFINE t == NoAreas(m)
  <2>1. t \in State /\ Good(t) /\ SameFile(s, t) /\ (at <= Len(s.file) => Calm(t))
    BY <1>1, NoAreasGood
  <2>2. r = Done(t, <<>>, 0)
    BY <1>2, <1>5 DEF overflow
  <2> HIDE DEF t
  <2>3. r.mb = t /\ r.out = "ok" /\ r.n = 0
    BY <2>2 DEF Done
  <2>4. Calm(s) => at <= Len(s.file)
    BY <1>1, PutWithin
  <2>5. Sound(s, r)
    BY <2>1, <2>3, <2>4 DEF Sound
  <2>6. poffset(s) >= MapSize(s)
    BY <1>1, <1>5 DEF poffset
  <2> QED
    BY <2>1, <2>3, <2>5, <2>6 DEF SameFile
<1>6. CASE ~(s.pn < s.pe) /\ s.bound /\ at < MapSize(s) /\ CanRemap(m)
  <2> DEFINE t == m_remap(m, 0)
  <2>1. Fresh(s, t, at, 0)
    BY <1>1, <1>6, RemapFresh
  <2>2. ~(at >= MapSize(s))
    BY <1>1, <1>6 DEF MapSize
  <2>3. r = Put(t, <<c>>)
    BY <1>2, <1>6, <2>2 DEF overflow
  <2> HIDE DEF t
  <2>4. /\ t \in State /\ Good(t) /\ Calm(t) /\ t.pn = 0 /\ t.pe = t.msize /\ t.msize > 0
        /\ t.file = s.file /\ t.off = at
    BY <2>1 DEF Fresh, InUse, SameFile
  <2>5. Sound(t, r) /\ (r.out = "ok" => r.n = 1 /\ Placed(t, r.mb, c))
    BY <2>3, <2>4, PutOne
  <2>6. poffset(t) = poffset(s) /\ MapSize(t) = MapSize(s)
    BY <1>1, <1>6, <2>4 DEF poffset, MapSize
  <2>7. r.out = "ok" => Placed(s, r.mb, c)
    BY <2>4, <2>5, <2>6 DEF Placed
  <2> QED
    BY <2>4, <2>5, <2>7 DEF Sound
<1>7. CASE ~(s.pn < s.pe) /\ s.bound /\ at < MapSize(s) /\ ~CanRemap(m)
  <2>1. ~(at >= MapSize(s))
    BY <1>1, <1>7 DEF MapSize
  <2>2. r = Threw(Unmap(m))
    BY <1>2, <1>7, <2>1 DEF overflow, m_remap
  <2>3. Unmap(m) \in State /\ Good(Unmap(m))
    BY <1>1, UnmapGood
  <2>4. r.mb = Unmap(m) /\ r.out = "throw"
    BY <2>2 DEF Threw
  <2> QED
    BY <2>3, <2>4 DEF Sound
<1> QED
  BY <1>1, <1>3, <1>4, <1>5, <1>6, <1>7 DEF MapSize

(* The copy of xsputn(), once there is room.                               *)
LEMMA StoreResult ==
    ASSUME NEW s \in State, Good(s), NEW c \in Seq(Char), c # <<>>, s.pn + Len(c) <= s.pe
    PROVE  Sound(s, Store(s, c))
<1> DEFINE p == Put(s, c)
           u == p.mb
           t == m_setg_ex(u, u.pn)
           r == Store(s, c)
<1>1. Len(c) > 0
  BY EmptySeq
<1>2. /\ Sound(s, p)
      /\ p.out = "ok" => s.pb = "win" /\ u = StoreChars(s, c)
  BY <1>1, PutResult
<1>3. CASE p.out # "ok"
  <2>1. r = p
    BY <1>3 DEF Store
  <2> QED
    BY <1>2, <2>1
<1>4. CASE p.out = "ok"
  <2>1. u \in State /\ Good(u) /\ Calm(u) /\ u.mapped /\ InUse(u)
    BY <1>2, <1>4, StoreFields
  <2>2. r = Done(t, c, Len(c))
    BY <1>4 DEF Store
  <2> HIDE DEF u
  <2>3. t \in State /\ Good(t) /\ Calm(t)
    BY <2>1, GetBesidePut
  <2> HIDE DEF t
  <2>4. r.mb = t /\ r.out = "ok"
    BY <2>2 DEF Done
  <2> QED
    BY <2>3, <2>4 DEF Sound
<1> QED
  BY <1>3, <1>4

(* xsputn() moves m_offset on before preserve() does: the areas are set    *)
(* anew then, or are gone.                                                 *)
LEMMA PreserveMoved ==
    ASSUME NEW s \in State, Good(s), NEW a \in Nat, NEW sz \in Nat, sz > s.pe - s.pn
    PROVE  LET r == preserve(SetOffset(s, a), sz) IN
           /\ r.mb \in State /\ Good(r.mb) /\ r.out \in {"ok", "throw"}
           /\ r.out = "ok" => /\ Fresh(s, r.mb, a + s.pn, sz)
                              /\ r.n = r.mb.pe - r.mb.pn
<1> DEFINE m == SetOffset(s, a)
           at == a + s.pn
           n == SetOffset(m, at)
           r == preserve(m, sz)
<1>1. at \in Nat /\ s.pe \in Nat /\ s.pn \in Nat /\ s.bound \in BOOLEAN
  BY DEF State
<1>2. m \in State /\ SameView(s, m) /\ SamePut(s, m) /\ m.off = a
  BY SetOffsetFields
<1>3. n = SetOffset(s, at)
  BY DEF SetOffset, State
<1>4. m.off + m.pn = at /\ ~(sz <= m.pe - m.pn) /\ m.bound = s.bound
  BY <1>1, <1>2 DEF SamePut, SameView, SameFile
<1> HIDE DEF m
<1>5. CASE s.bound /\ CanRemap(n)
  <2> DEFINE t == m_remap(n, sz)
  <2>1. Fresh(s, t, at, sz)
    BY <1>1, <1>3, <1>5, RemapFresh
  <2>2. r = Done(t, <<>>, t.pe - t.pn)
    BY <1>4, <1>5 DEF preserve
  <2> HIDE DEF t
  <2>3. r.mb = t /\ r.out = "ok" /\ r.n = t.pe - t.pn
    BY <2>2 DEF Done
  <2> QED
    BY <2>1, <2>3 DEF Fresh, m
<1>6. CASE ~s.bound \/ ~CanRemap(n)
  <2>1. r = Threw(Unmap(n))
    BY <1>4, <1>6 DEF preserve, m_remap
  <2>2. Unmap(n) \in State /\ Good(Unmap(n))
    BY <1>1, <1>3, UnmapGood
  <2>3. r.mb = Unmap(n) /\ r.out = "throw"
    BY <2>1 DEF Threw
  <2> QED
    BY <2>2, <2>3 DEF m
<1> QED
  BY <1>1, <1>5, <1>6

LEMMA PutnResult ==
    ASSUME NEW s \in State, Good(s), NEW c \in Seq(Char), c # <<>>
    PROVE  Sound(s, xsputn(s, c))
<1> DEFINE at == s.off + s.pn
           m == SetOffset(s, at)
           v == preserve(m, Len(c))
           r == xsputn(s, c)
<1>1. /\ at \in Nat /\ s.off \in Nat /\ s.pe \in Nat /\ s.pn \in Nat /\ s.bound \in BOOLEAN
      /\ s.pn <= s.pe /\ Len(s.file) \in Nat /\ Len(c) \in Nat /\ Len(c) > 0
  BY EmptySeq DEF State, Good
<1>2. m.off = at
  BY <1>1, SetOffsetFields
<1>3. CASE Len(c) <= s.pe - s.pn
  <2>1. r = Store(s, c)
    BY <1>3 DEF xsputn
  <2>2. s.pn + Len(c) <= s.pe
    BY <1>1, <1>3
  <2> QED
    BY <2>1, <2>2, StoreResult
<1>4. CASE ~(Len(c) <= s.pe - s.pn) /\ ~s.bound
  <2>1. r.mb = s /\ r.out = "unopened"
    BY <1>4 DEF xsputn, Fault
  <2> QED
    BY <2>1 DEF Sound
<1>5. CASE ~(Len(c) <= s.pe - s.pn) /\ s.bound /\ at >= MapSize(s)
  <2> DEFINE t == NoAreas(m)
  <2>1. t \in State /\ Good(t) /\ (at <= Len(s.file) => Calm(t))
    BY <1>1, NoAreasGood
  <2>2. r = Done(t, <<>>, 0)
    BY <1>2, <1>5 DEF xsputn
  <2> HIDE DEF t
  <2>3. r.mb = t /\ r.out = "ok"
    BY <2>2 DEF Done
  <2>4. Calm(s) => at <= Len(s.file)
    BY <1>1, PutWithin
  <2> QED
    BY <2>1, <2>3, <2>4 DEF Sound
<1>6. CASE ~(Len(c) <= s.pe - s.pn) /\ s.bound /\ ~(at >= MapSize(s))
  <2> DEFINE len == Len(c)
  <2>1. Len(c) > s.pe - s.pn
    BY <1>1, <1>6
  <2>2. /\ v.mb \in State /\ Good(v.mb) /\ v.out \in {"ok", "throw"}
        /\ v.out = "ok" => /\ Fresh(s, v.mb, at + s.pn, Len(c))
                           /\ v.n = v.mb.pe - v.mb.pn
    <3>1. len \in Nat /\ len > s.pe - s.pn
      BY <1>1, <2>1
    <3> HIDE DEF len, at
    <3>2. LET w == preserve(SetOffset(s, at), len) IN
          /\ w.mb \in State /\ Good(w.mb) /\ w.out \in {"ok", "throw"}
          /\ w.out = "ok" => /\ Fresh(s, w.mb, at + s.pn, len)
                             /\ w.n = w.mb.pe - w.mb.pn
      BY <1>1, <3>1, PreserveMoved
    <3> QED
      BY <3>2 DEF len
  <2>3. CASE v.out = "throw"
    <3>1. r = Threw(v.mb)
      BY <1>2, <1>6, <2>3 DEF xsputn
    <3>2. r.mb = v.mb /\ r.out = "throw"
      BY <3>1 DEF Threw
    <3> QED
      BY <2>2, <3>2 DEF Sound
  <2>4. CASE v.out = "ok"
    <3> DEFINE u == v.mb
               k == Min2(Len(c), v.n)
               cc == SubSeq(c, 1, k)
    <3>1. r = Store(u, cc)
      <4>1. v.out # "throw"
        BY <2>4
      <4> QED
        BY <1>2, <1>6, <4>1 DEF xsputn
    <3>2. /\ u \in State /\ Good(u) /\ Calm(u) /\ u.pn = 0 /\ u.pe = u.msize /\ u.msize > 0
          /\ v.n = u.pe - u.pn
      BY <2>2, <2>4 DEF Fresh, InUse
    <3> HIDE DEF v, u
    <3>3. u.msize \in Nat /\ v.n = u.msize
      BY <3>2 DEF State
    <3>4. k \in Nat /\ k > 0 /\ k <= Len(c) /\ u.pn + k <= u.pe
      BY <1>1, <3>2, <3>3 DEF Min2
    <3> HIDE DEF k
    <3>5. cc \in Seq(Char) /\ Len(cc) = k
      BY <1>1, <3>4
    <3>6. cc # <<>>
      BY <3>4, <3>5
    <3> HIDE DEF cc
    <3>7. Sound(u, Store(u, cc))
      BY <3>2, <3>4, <3>5, <3>6, StoreResult
    <3> QED
      BY <3>1, <3>2, <3>7 DEF Sound
  <2> QED
    BY <2>2, <2>3, <2>4
<1> QED
  BY <1>3, <1>4, <1>5, <1>6

-----------------------------------------------------------------------------
(* Seeking.                                                                *)

LEMMA SyncResult ==
    ASSUME NEW s \in State, Good(s), NEW which, "out" \in which
    PROVE  LET y == SyncAreas(s, which) IN
           /\ y \in State /\ Good(y) /\ (Calm(s) => Calm(y)) /\ SameView(s, y)
           /\ y.off = s.off /\ y.gn = y.pn
           /\ y.gn = IF "in" \in which THEN s.gn ELSE s.pn
<1> DEFINE y == SyncAreas(s, which)
<1>1. CASE SamePointers(s)
  <2>1. y = s /\ s.gn = s.pn
    BY <1>1 DEF SyncAreas, SamePointers
  <2> QED
    BY <2>1 DEF SameView, SameFile
<1>2. CASE ~SamePointers(s)
  <2>1. ~Null(s)
    BY <1>2 DEF SamePointers, Null
  <2>2. s.mapped => InUse(s)
    BY <2>1 DEF Good
  <2>3. Calm(s) => s.mapped
    BY <2>1 DEF Calm
  <2>4. CASE "in" \in which
    <3>1. y = m_setp_ex(s, s.gn)
      BY <1>2, <2>4 DEF SyncAreas
    <3>2. LET t == m_setp_ex(s, s.gn) IN
          /\ t \in State /\ Good(t) /\ (Calm(s) => Calm(t) \/ ~s.mapped)
          /\ SameView(s, t) /\ t.off = s.off /\ SameGet(s, t) /\ t.pn = s.gn
      BY <2>2, PutBesideGet
    <3> QED
      BY <2>3, <2>4, <3>1, <3>2 DEF SameGet
  <2>5. CASE "in" \notin which
    <3>1. y = m_setg_ex(s, s.pn)
      BY <1>2, <2>5 DEF SyncAreas
    <3>2. LET t == m_setg_ex(s, s.pn) IN
          /\ t \in State /\ Good(t) /\ (Calm(s) => Calm(t) \/ ~s.mapped)
          /\ SameView(s, t) /\ t.off = s.off /\ SamePut(s, t) /\ t.gn = s.pn
      BY <2>2, GetBesidePut
    <3> QED
      BY <2>3, <2>5, <3>1, <3>2 DEF SamePut
  <2> QED
    BY <2>4, <2>5
<1> QED
  BY <1>1, <1>2

LEMMA ClampWithin ==
    ASSUME NEW n \in Int, NEW size \in Nat
    PROVE  Clamp(n, size) \in 0 .. size
BY DEF Clamp, Min2

LEMMA MoveResult ==
    ASSUME NEW s \in State, Good(s), NEW to \in 0 .. MapSize(s)
    PROVE  LET t == MoveTo(s, to) IN
           /\ t \in State /\ Good(t) /\ (Calm(s) => Calm(t))
           /\ goffset(t) = to /\ poffset(t) = to
<1> DEFINE pos == to - s.off
           t == MoveTo(s, to)
<1>1. /\ s.off \in Nat /\ s.msize \in Nat /\ Len(s.file) \in Nat /\ s.mapped \in BOOLEAN
      /\ to \in Nat /\ to <= Len(s.file) /\ pos \in Int /\ s.off + pos = to
  BY DEF State, MapSize
<1>2. CASE ~GetIsNull(s) /\ pos >= 0 /\ pos <= s.msize
  <2>1. t = m_setp_ex(m_setg_ex(s, pos), pos)
    BY <1>2 DEF MoveTo
  <2>2. pos \in Nat
    BY <1>1, <1>2
  <2> HIDE DEF pos, t
  <2>3. /\ t \in State /\ SameView(s, t) /\ t.off = s.off
        /\ t.gb = ViewBase(s) /\ t.gn = pos /\ t.ge = s.msize
        /\ t.pb = ViewBase(s) /\ t.pn = pos /\ t.pe = s.msize
    BY <2>1, <2>2, SetBothFields
  <2>4. s.mapped => InUse(s)
    BY <1>2 DEF Good, GetIsNull, Null
  <2>5. Calm(s) => s.mapped
    BY <1>2 DEF Calm, GetIsNull, Null
  <2>6. s.mapped => InUse(t)
    BY <2>3, <2>4 DEF InUse, ViewBase, SameView
  <2>7. Good(t)
    <3>1. t.gn <= t.ge /\ t.pn <= t.pe /\ t.ge = t.msize /\ t.pe = t.msize
      BY <1>2, <2>3 DEF SameView
    <3>2. t.mapped => t.msize = Len(t.win) /\ t.msize > 0 /\ t.woff + t.msize <= Len(t.file)
      BY <2>3 DEF Good, SameView, SameFile
    <3>3. ~t.mapped => t.gb # "win" /\ t.pb # "win"
      BY <2>3 DEF ViewBase, SameView
    <3>4. t.mapped = s.mapped
      BY <2>3 DEF SameView
    <3> QED
      BY <2>6, <3>1, <3>2, <3>3, <3>4 DEF Good
  <2>8. Calm(s) => Calm(t)
    BY <2>3, <2>5 DEF Calm, SameView, SameFile
  <2>9. goffset(t) = to /\ poffset(t) = to
    BY <1>1, <2>3 DEF goffset, poffset
  <2> QED
    BY <2>3, <2>7, <2>8, <2>9 DEF t
<1>3. CASE ~(~GetIsNull(s) /\ pos >= 0 /\ pos <= s.msize)
  <2>1. t = NoAreas(SetOffset(s, to))
    BY <1>3 DEF MoveTo
  <2> HIDE DEF t
  <2>2. t \in State /\ Good(t) /\ Null(t) /\ t.off = to /\ Calm(t)
    BY <1>1, <2>1, NoAreasGood
  <2>3. goffset(t) = to /\ poffset(t) = to
    BY <1>1, <2>2 DEF goffset, poffset, Null
  <2> QED
    BY <2>2, <2>3 DEF t
<1> QED
  BY <1>2, <1>3

(* The position of the area that a relative seek counts from.              *)
From(s, which) == IF "in" \in which THEN goffset(s) ELSE poffset(s)

(* m_seek(): both areas are at the answer, which is within the file.       *)
LEMMA SeekResult ==
    ASSUME NEW s \in State, Good(s), NEW offset \in Int, NEW way \in {"beg", "cur", "end"},
           NEW which, "out" \in which
    PROVE  LET r == m_seek(s, offset, way, which) IN
           /\ Sound(s, r) /\ goffset(r.mb) = r.n /\ poffset(r.mb) = r.n
           /\ Calm(s) => r.n \in 0 .. MapSize(s)
           /\ way = "beg" => r.n = Clamp(offset, MapSize(s))
           /\ way = "cur" /\ Calm(s) => r.n = Clamp(From(s, which) + offset, MapSize(s))
           /\ way = "end" => r.n = Clamp(MapSize(s) + offset, MapSize(s))
<1> DEFINE y == SyncAreas(s, which)
           r == m_seek(s, offset, way, which)
<1>1. /\ y \in State /\ Good(y) /\ (Calm(s) => Calm(y)) /\ SameView(s, y)
      /\ y.off = s.off /\ y.gn = y.pn /\ y.off + y.gn = From(s, which)
  BY SyncResult DEF From, goffset, poffset
<1>2. y = SyncAreas(s, which)
  OBVIOUS
<1> HIDE DEF y
<1>3. /\ MapSize(y) = MapSize(s) /\ MapSize(s) \in Nat
      /\ y.off \in Nat /\ y.gn \in Nat /\ y.ge \in Nat /\ y.gn <= y.ge
  BY <1>1 DEF MapSize, SameView, SameFile, State, Good
<1>4. CASE way = "cur" /\ offset = 0
  <2>1. r = Done(y, <<>>, y.off + y.gn)
    BY <1>2, <1>4 DEF m_seek
  <2>2. r.mb = y /\ r.out = "ok" /\ r.n = y.off + y.gn
    BY <2>1 DEF Done
  <2>3. Sound(s, r)
    BY <1>1, <2>2 DEF Sound
  <2>4. goffset(r.mb) = r.n /\ poffset(r.mb) = r.n
    BY <1>1, <2>2 DEF goffset, poffset
  <2>5. Calm(s) => r.n \in 0 .. MapSize(s)
    <3>1. SUFFICES ASSUME Calm(s) PROVE y.off + y.gn <= MapSize(y)
      BY <1>3, <2>2
    <3>2. CASE Null(y)
      BY <1>1, <1>3, <3>1, <3>2 DEF Calm, Null, MapSize
    <3>3. CASE y.mapped /\ InUse(y)
      BY <1>1, <1>3, <3>3 DEF Good, InUse, MapSize
    <3> QED
      BY <1>1, <3>1, <3>2, <3>3 DEF Calm, Good
  <2>6. Calm(s) => r.n = Clamp(From(s, which) + offset, MapSize(s))
    BY <1>1, <1>3, <1>4, <2>2, <2>5 DEF Clamp, Min2
  <2> QED
    BY <1>4, <2>3, <2>4, <2>5, <2>6
<1>5. CASE ~(way = "cur" /\ offset = 0)
  <2> DEFINE to == Target(y, way, offset)
             t == MoveTo(y, to)
  <2>1. /\ to \in 0 .. MapSize(y)
        /\ way = "beg" => to = Clamp(offset, MapSize(s))
        /\ way = "cur" => to = Clamp(From(s, which) + offset, MapSize(s))
        /\ way = "end" => to = Clamp(MapSize(s) + offset, MapSize(s))
    <3> DEFINE n == CASE way = "beg" -> offset
                      [] way = "cur" -> offset + y.off + y.gn
                      [] way = "end" -> offset + MapSize(y)
    <3>1. /\ n \in Int
          /\ way = "beg" => n = offset
          /\ way = "cur" => n = From(s, which) + offset
          /\ way = "end" => n = MapSize(s) + offset
      BY <1>1, <1>3
    <3>2. to = Clamp(n, MapSize(y))
      BY DEF Target
    <3> HIDE DEF n
    <3> QED
      BY <1>3, <3>1, <3>2, ClampWithin
  <2>2. r = Done(t, <<>>, to)
    BY <1>2, <1>5 DEF m_seek
  <2> HIDE DEF to
  <2>3. t \in State /\ Good(t) /\ (Calm(y) => Calm(t)) /\ goffset(t) = to /\ poffset(t) = to
    BY <1>1, <2>1, MoveResult
  <2> HIDE DEF t
  <2>4. r.mb = t /\ r.out = "ok" /\ r.n = to
    BY <2>2 DEF Done
  <2>5. Sound(s, r)
    BY <1>1, <2>3, <2>4 DEF Sound
  <2> QED
    BY <1>3, <2>1, <2>3, <2>4, <2>5
<1> QED
  BY <1>4, <1>5

-----------------------------------------------------------------------------
(* Opening, closing and copying; stepping back.                            *)

LEMMA OpenResult ==
    ASSUME NEW s \in State, Good(s), NEW access \in Accesses
    PROVE  LET t == NoAreas([SetOffset(s, 0) EXCEPT !.bound = TRUE, !.access = access]) IN
           t \in State /\ Good(t) /\ Calm(t)
<1> DEFINE m == SetOffset(s, 0)
           u == [m EXCEPT !.bound = TRUE, !.access = access]
           t == NoAreas(u)
<1>1. m \in State /\ SameView(s, m) /\ m.off = 0
  BY SetOffsetFields
<1>2. access \in {"read", "write", "copy"}
  BY MappedAssumption
<1> HIDE DEF m
<1>3. /\ u \in State /\ u.file = m.file /\ u.mapped = m.mapped /\ u.woff = m.woff
      /\ u.win = m.win /\ u.msize = m.msize /\ u.off = 0
  BY <1>1, <1>2 DEF State
<1> HIDE DEF u
<1>4. t \in State /\ SameView(u, t) /\ t.off = 0 /\ Null(t)
  BY <1>3, NoAreasFields
<1> HIDE DEF t
<1>5. /\ t.file = s.file /\ t.mapped = s.mapped /\ t.woff = s.woff /\ t.win = s.win
      /\ t.msize = s.msize /\ t.msize \in Nat /\ Len(t.file) \in Nat
  BY <1>1, <1>3, <1>4 DEF SameView, SameFile, State
<1>6. Good(t)
  BY <1>4, <1>5 DEF Good, Null
<1>7. Calm(t)
  BY <1>4, <1>5 DEF Calm
<1> QED
  BY <1>4, <1>6, <1>7 DEF t, u, m

LEMMA CloseResult ==
    ASSUME NEW s \in State, Good(s)
    PROVE  LET t == NoAreas(Unmap(s)) IN
           t \in State /\ Good(t) /\ (Calm(s) => Calm(t)) /\ ~t.mapped /\ Null(t) /\ SameFile(s, t)
<1> DEFINE u == Unmap(s)
           t == NoAreas(u)
<1>1. u \in State /\ SameFile(s, u) /\ ~u.mapped /\ u.off = s.off
  BY UnmapFields
<1> HIDE DEF u
<1>2. t \in State /\ SameView(u, t) /\ t.off = u.off /\ Null(t)
  BY <1>1, NoAreasFields
<1> HIDE DEF t
<1>3. SameFile(s, t) /\ ~t.mapped /\ t.off = s.off /\ t.msize \in Nat
  BY <1>1, <1>2 DEF SameView, SameFile, State
<1>4. Good(t)
  BY <1>2, <1>3 DEF Good, Null
<1>5. Calm(s) => Calm(t)
  BY <1>2, <1>3 DEF Calm, SameFile
<1> QED
  BY <1>2, <1>3, <1>4, <1>5 DEF t, u

LEMMA CopyResult ==
    ASSUME NEW s \in State, Good(s), NEW junk \in JunkSizes
    PROVE  LET t == [NoAreas(Unmap(s)) EXCEPT !.msize = junk] IN
           t \in State /\ Good(t) /\ (Calm(s) => Calm(t))
<1> DEFINE u == NoAreas(Unmap(s))
           t == [u EXCEPT !.msize = junk]
<1>1. u \in State /\ Good(u) /\ (Calm(s) => Calm(u)) /\ ~u.mapped /\ Null(u)
  BY CloseResult
<1>2. junk \in Nat
  BY MappedAssumption
<1> HIDE DEF u
<1>3. /\ t \in State /\ ~t.mapped /\ t.file = u.file /\ t.off = u.off
      /\ t.gb = u.gb /\ t.gn = u.gn /\ t.ge = u.ge /\ t.pb = u.pb /\ t.pn = u.pn /\ t.pe = u.pe
      /\ t.msize \in Nat
  BY <1>1, <1>2 DEF State
<1> HIDE DEF t
<1>4. Null(t)
  BY <1>1, <1>3 DEF Null
<1>5. Good(t)
  BY <1>3, <1>4 DEF Good, Null
<1>6. Calm(u) => Calm(t)
  BY <1>3, <1>4 DEF Calm
<1> QED
  BY <1>1, <1>3, <1>5, <1>6 DEF t, u

LEMMA UnderflowShape ==
    ASSUME NEW s
    PROVE  LET r == underflow(s) IN
           r = [mb |-> r.mb, out |-> r.out, chars |-> r.chars, n |-> r.n]
BY DEF underflow, Done, Threw, Fault

(* sbumpc() and sungetc(), as the actions have them.                       *)
Bumped(s) ==
    LET r == underflow(s) IN [r EXCEPT !.mb = IF r.out = "ok" THEN gbump(@, r.n) ELSE @]
Unget(s) ==
    IF s.gn = 0 THEN Done(s, <<>>, 0)
    ELSE IF s.gb # "win" THEN Fault(s, "unmapped")
    ELSE Done(gbump(s, -1), SubSeq(s.win, s.gn, s.gn), 1)

LEMMA BumpedResult ==
    ASSUME NEW s \in State, Good(s)
    PROVE  LET r == Bumped(s) IN
           /\ Sound(s, r)
           /\ r.out = "ok" => Reads(s, r, 1) /\ goffset(r.mb) = goffset(s) + Len(r.chars)
<1> DEFINE q == underflow(s)
           r == Bumped(s)
<1>1. /\ Sound(s, q)
      /\ q.out = "ok" => /\ Reads(s, q, 1) /\ goffset(q.mb) = goffset(s)
                         /\ q.n \in Nat /\ q.n = Len(q.chars)
                         /\ q.n <= q.mb.ge - q.mb.gn
  BY UnderflowResult
<1>2. /\ r.out = q.out /\ r.chars = q.chars
      /\ r.mb = IF q.out = "ok" THEN gbump(q.mb, q.n) ELSE q.mb
  <2>1. q = [mb |-> q.mb, out |-> q.out, chars |-> q.chars, n |-> q.n]
    BY UnderflowShape
  <2>2. r = [q EXCEPT !.mb = IF q.out = "ok" THEN gbump(q.mb, q.n) ELSE q.mb]
    BY DEF Bumped
  <2> HIDE DEF q, r
  <2> QED
    BY <2>1, <2>2
<1> HIDE DEF q, r
<1>3. CASE q.out # "ok"
  BY <1>1, <1>2, <1>3 DEF Sound, r
<1>4. CASE q.out = "ok"
  <2> DEFINE u == q.mb
             k == q.n
             t == gbump(u, k)
  <2>1. u \in State /\ Good(u) /\ (Calm(s) => Calm(u)) /\ k \in Nat /\ k <= u.ge - u.gn
    BY <1>1, <1>4 DEF Sound
  <2>2. goffset(u) = goffset(s) /\ k = Len(q.chars) /\ Reads(s, q, 1) /\ r.mb = t
    BY <1>1, <1>2, <1>4
  <2> HIDE DEF u, k
  <2>3. u.gn + k <= u.ge /\ u.gn \in Nat /\ u.off \in Nat
    <3>1. u.gn \in Nat /\ u.ge \in Nat /\ u.off \in Nat
      BY <2>1 DEF State
    <3> QED
      BY <2>1, <3>1
  <2>4. t \in State /\ Good(t) /\ (Calm(u) => Calm(t)) /\ t.off = u.off /\ t.gn = u.gn + k
    BY <2>1, <2>3, BumpGood
  <2> HIDE DEF t
  <2>5. Sound(s, r)
    BY <1>2, <1>4, <2>1, <2>2, <2>4 DEF Sound
  <2>6. goffset(t) = goffset(s) + k
    BY <2>1, <2>2, <2>3, <2>4 DEF goffset
  <2>7. Reads(s, r, 1)
    BY <1>2, <2>2 DEF Reads
  <2> QED
    BY <1>2, <2>2, <2>5, <2>6, <2>7 DEF r
<1> QED
  BY <1>3, <1>4

LEMMA UngetResult ==
    ASSUME NEW s \in State, Good(s)
    PROVE  Sound(s, Unget(s))
<1> DEFINE r == Unget(s)
           t == gbump(s, -1)
<1>1. s.gn \in Nat /\ s.ge \in Nat /\ s.gn <= s.ge
  BY DEF State, Good
<1>2. CASE s.gn = 0
  <2>1. r.mb = s /\ r.out = "ok"
    BY <1>2 DEF Unget, Done
  <2> QED
    BY <2>1 DEF Sound
<1>3. CASE s.gn # 0 /\ s.gb # "win"
  <2>1. r.mb = s /\ r.out = "unmapped"
    BY <1>3 DEF Unget, Fault
  <2>2. ~Calm(s)
    BY <1>1, <1>3 DEF Calm, Good, Null, InUse
  <2> QED
    BY <2>1, <2>2 DEF Sound
<1>4. CASE s.gn # 0 /\ s.gb = "win"
  <2>1. r.mb = t /\ r.out = "ok"
    BY <1>4 DEF Unget, Done
  <2>2. -1 \in Int /\ s.gn + -1 \in Nat
    BY <1>1, <1>4
  <2>3. /\ t \in State /\ SameView(s, t) /\ t.off = s.off /\ SamePut(s, t)
        /\ t.gb = s.gb /\ t.gn = s.gn + -1 /\ t.ge = s.ge
    BY <2>2, GbumpFields
  <2>4. s.mapped /\ InUse(s)
    BY <1>4, InWindow
  <2> HIDE DEF t
  <2>5. t.mapped /\ InUse(t)
    BY <2>3, <2>4 DEF InUse, SameView, SamePut
  <2>6. t.gn <= t.ge
    BY <1>1, <2>3
  <2>7. Good(t)
    <3>1. t.pn <= t.pe /\ (t.ge = t.msize \/ t.ge = 0) /\ (t.pe = t.msize \/ t.pe = 0)
      BY <2>3 DEF Good, SameView, SamePut
    <3>2. t.msize = Len(t.win) /\ t.msize > 0 /\ t.woff + t.msize <= Len(t.file)
      BY <2>3, <2>4 DEF Good, SameView, SameFile
    <3> QED
      BY <2>5, <2>6, <3>1, <3>2 DEF Good
  <2>8. Calm(s) => Calm(t)
    BY <2>3, <2>5 DEF Calm, SameView, SameFile
  <2> QED
    BY <2>1, <2>3, <2>7, <2>8 DEF Sound
<1> QED
  BY <1>2, <1>3, <1>4

-----------------------------------------------------------------------------
(* The steps.                                                              *)

LEMMA InitialState == Init => Inv
<1> SUFFICES ASSUME Init PROVE Inv
  OBVIOUS
<1> DEFINE F == UNION {[1 .. n -> Char] : n \in 0 .. MaxSize}
<1>1. \A f \in F : f \in Seq(Char)
  <2> SUFFICES ASSUME NEW f \in F PROVE f \in Seq(Char)
    OBVIOUS
  <2>1. PICK n \in 0 .. MaxSize : f \in [1 .. n -> Char]
    OBVIOUS
  <2> QED
    BY <2>1, MappedAssumption
<1> HIDE DEF F
<1>2. mb \in [file : F,
               access : {"read"}, bound : {FALSE}, mapped : {FALSE},
               woff : {0}, win : {<<>>}, msize : JunkSizes, off : {0},
               gb : {"zero"}, gn : {0}, ge : {0}, pb : {"zero"}, pn : {0}, pe : {0}]
  BY DEF Init, F
<1>3. <<>> \in Seq(Char) /\ JunkSizes \subseteq Nat /\ "zero" \in Bases
  BY MappedAssumption DEF Bases
<1>4. /\ mb \in State /\ Null(mb) /\ ~mb.mapped /\ mb.off = 0
  <2> DEFINE f == mb.file
             z == mb.msize
  <2>1. f \in Seq(Char) /\ z \in Nat
    BY <1>1, <1>2, <1>3
  <2>2. mb = [file |-> f, access |-> "read", bound |-> FALSE, mapped |-> FALSE,
              woff |-> 0, win |-> <<>>, msize |-> z, off |-> 0,
              gb |-> "zero", gn |-> 0, ge |-> 0, pb |-> "zero", pn |-> 0, pe |-> 0]
    BY <1>2
  <2> HIDE DEF f, z
  <2>3. mb \in State
    BY <1>3, <2>1, <2>2 DEF State
  <2> QED
    BY <2>2, <2>3 DEF Null
<1>5. Good(mb)
  BY <1>4 DEF Good, Null, State
<1>6. Calm(mb)
  BY <1>4 DEF Calm, State
<1>7. ret.out = "ok" /\ nomem \in BOOLEAN /\ thrown \in BOOLEAN
  BY DEF Init, Nothing
<1> QED
  BY <1>4, <1>5, <1>6, <1>7 DEF Inv, TypeOK

(* A call with a sound outcome keeps the invariant.                        *)
LEMMA FinishKeeps ==
    ASSUME Inv, NEW r, NEW c, Finish(r, c), Sound(mb, r)
    PROVE  Inv'
<1>1. /\ mb' = r.mb /\ ret'.out = r.out /\ nomem' = nomem
      /\ thrown' = (thrown \/ r.out = "throw")
  BY DEF Finish
<1>2. mb' \in State /\ Good(mb') /\ thrown' \in BOOLEAN /\ nomem' \in BOOLEAN
  BY <1>1 DEF Sound, Inv, TypeOK
<1>3. ~thrown' => Calm(mb')
  BY <1>1 DEF Sound, Inv
<1>4. ret'.out = "unmapped" => thrown'
  BY <1>1 DEF Sound, Inv
<1> QED
  BY <1>2, <1>3, <1>4 DEF Inv, TypeOK

LEMMA DoneSound ==
    ASSUME NEW s, NEW t, NEW chars, NEW n, t \in State, Good(t), Calm(s) => Calm(t)
    PROVE  Sound(s, Done(t, chars, n))
BY DEF Sound, Done

LEMMA NextKeeps ==
    ASSUME NoneEmpty, Inv, Next PROVE Inv'
<1>1. mb \in State /\ Good(mb)
  BY DEF Inv, TypeOK
<1>2. ASSUME NEW access \in Accesses, Open(access) PROVE Inv'
  <2> DEFINE t == NoAreas([SetOffset(mb, 0) EXCEPT !.bound = TRUE, !.access = access])
  <2>1. t \in State /\ Good(t) /\ Calm(t)
    BY <1>1, OpenResult
  <2>2. Sound(mb, Done(mb, <<>>, -1))
    BY <1>1, DoneSound
  <2>3. Sound(mb, Done(t, <<>>, 0))
    <3> HIDE DEF t
    <3> QED
      BY <2>1, DoneSound
  <2>4. \/ Finish(Done(mb, <<>>, -1), <<"open">>)
        \/ Finish(Done(t, <<>>, 0), <<"open">>)
    BY <1>2 DEF Open
  <2> QED
    BY <2>2, <2>3, <2>4, FinishKeeps
<1>3. ASSUME Close PROVE Inv'
  <2> DEFINE t == NoAreas(Unmap(mb))
  <2>1. t \in State /\ Good(t) /\ (Calm(mb) => Calm(t))
    BY <1>1, CloseResult
  <2>2. Sound(mb, Done(mb, <<>>, -1))
    BY <1>1, DoneSound
  <2>3. Sound(mb, Done(t, <<>>, 0))
    <3> HIDE DEF t
    <3> QED
      BY <2>1, DoneSound
  <2>4. \/ Finish(Done(mb, <<>>, -1), <<"close">>)
        \/ Finish(Done(t, <<>>, 0), <<"close">>)
    BY <1>3 DEF Close
  <2> QED
    BY <2>2, <2>3, <2>4, FinishKeeps
<1>4. ASSUME Copy PROVE Inv'
  <2>1. PICK junk \in JunkSizes :
          Finish(Done([NoAreas(Unmap(mb)) EXCEPT !.msize = junk], <<>>, 0), <<"copy">>)
    BY <1>4 DEF Copy
  <2> DEFINE t == [NoAreas(Unmap(mb)) EXCEPT !.msize = junk]
  <2>2. t \in State /\ Good(t) /\ (Calm(mb) => Calm(t))
    BY <1>1, CopyResult
  <2> HIDE DEF t
  <2>3. Sound(mb, Done(t, <<>>, 0))
    BY <2>2, DoneSound
  <2> QED
    BY <2>1, <2>3, FinishKeeps DEF t
<1>5. ASSUME Sgetc PROVE Inv'
  <2>1. Sound(mb, underflow(mb))
    BY <1>1, UnderflowResult
  <2> QED
    BY <1>5, <2>1, FinishKeeps DEF Sgetc
<1>6. ASSUME Sbumpc PROVE Inv'
  <2>1. Finish(Bumped(mb), <<"sbumpc">>)
    BY <1>6 DEF Sbumpc, Bumped
  <2>2. Sound(mb, Bumped(mb))
    BY <1>1, BumpedResult
  <2> QED
    BY <2>1, <2>2, FinishKeeps
<1>7. ASSUME NEW n \in Lengths, Sgetn(n) PROVE Inv'
  <2>1. n \in Nat /\ n > 0
    BY MappedAssumption DEF NoneEmpty
  <2>2. Sound(mb, xsgetn(mb, n))
    BY <1>1, <2>1, GetnResult
  <2> QED
    BY <1>7, <2>2, FinishKeeps DEF Sgetn
<1>8. ASSUME NEW n \in Lengths, Greserve(n) PROVE Inv'
  <2>1. n \in Nat
    BY MappedAssumption
  <2>2. Sound(mb, greserve(mb, n))
    BY <1>1, <2>1, ReserveResult
  <2> QED
    BY <1>8, <2>2, FinishKeeps DEF Greserve
<1>9. ASSUME NEW n \in Lengths, Preserve(n) PROVE Inv'
  <2>1. n \in Nat
    BY MappedAssumption
  <2>2. Sound(mb, preserve(mb, n))
    BY <1>1, <2>1, PreserveResult
  <2> QED
    BY <1>9, <2>2, FinishKeeps DEF Preserve
<1>10. ASSUME Sungetc PROVE Inv'
  <2>1. Finish(Unget(mb), <<"sungetc">>)
    BY <1>10 DEF Sungetc, Unget
  <2>2. Sound(mb, Unget(mb))
    BY <1>1, UngetResult
  <2> QED
    BY <2>1, <2>2, FinishKeeps
<1>11. ASSUME NEW c \in Char, Sputc(c) PROVE Inv'
  <2>1. Sound(mb, overflow(mb, c))
    BY <1>1, OverflowResult
  <2> QED
    BY <1>11, <2>1, FinishKeeps DEF Sputc
<1>12. ASSUME NEW c \in Strings, Sputn(c) PROVE Inv'
  <2>1. c \in Seq(Char) /\ c # <<>>
    BY MappedAssumption DEF NoneEmpty
  <2>2. Sound(mb, xsputn(mb, c))
    BY <1>1, <2>1, PutnResult
  <2> QED
    BY <1>12, <2>2, FinishKeeps DEF Sputn
<1>13. ASSUME NEW offset \in Offsets, NEW way \in {"beg", "cur", "end"},
              NEW which \in {{"out"}, {"in", "out"}}, Seek(offset, way, which)
       PROVE  Inv'
  <2>1. offset \in Int /\ "out" \in which
    BY MappedAssumption
  <2>2. Sound(mb, m_seek(mb, offset, way, which))
    BY <1>1, <2>1, SeekResult
  <2>3. Sound(mb, Done(mb, <<>>, -1))
    BY <1>1, DoneSound
  <2>4. \/ Finish(m_seek(mb, offset, way, which), <<"seek", way, offset, which>>)
        \/ Finish(Done(mb, <<>>, -1), <<"seek", way, offset, which>>)
    BY <1>13 DEF Seek
  <2> QED
    BY <2>2, <2>3, <2>4, FinishKeeps
<1>14. ASSUME Memory PROVE Inv'
  <2>1. /\ mb' = mb /\ thrown' = thrown /\ nomem' = ~nomem /\ ret'.out = "ok"
    BY <1>14 DEF Memory, Nothing
  <2> QED
    BY <2>1 DEF Inv, TypeOK
<1> QED
  BY <1>2, <1>3, <1>4, <1>5, <1>6, <1>7, <1>8, <1>9, <1>10, <1>11, <1>12, <1>13, <1>14 DEF Next

-----------------------------------------------------------------------------
(* The theorems.                                                           *)

LEMMA StepKeeps ==
    ASSUME NoneEmpty, Inv, [Next]_vars PROVE Inv'
<1>1. CASE Next
  BY <1>1, NextKeeps
<1>2. CASE UNCHANGED vars
  BY <1>2 DEF vars, Inv, TypeOK
<1> QED
  BY <1>1, <1>2

(* Inv holds of every file and sequence of calls.                          *)
THEOREM BufferInvariant ==
    ASSUME NoneEmpty PROVE Spec => []Inv
<1>1. Inv /\ [Next]_vars => Inv'
  BY StepKeeps
<1> QED
  BY <1>1, InitialState, PTL DEF Spec

(* m_offset is the offset of eback(), and of pbase(), in the file: through *)
(* seeks, growing reads and writes, ends of windows and failures to map.   *)
THEOREM AlwaysAtOffset ==
    ASSUME NoneEmpty PROVE Spec => []WindowAtOffset
<1>1. Inv => WindowAtOffset
  <2> SUFFICES ASSUME Inv PROVE WindowAtOffset
    OBVIOUS
  <2>1. mb \in State /\ Good(mb)
    BY DEF Inv, TypeOK
  <2>2. mb.gb = "win" \/ mb.pb = "win" => mb.mapped /\ InUse(mb)
    BY <2>1, InWindow
  <2> QED
    BY <2>1, <2>2 DEF WindowAtOffset, InUse, Good
<1> QED
  BY <1>1, BufferInvariant, PTL

(* No call touches memory that is not mapped, unless an earlier one threw. *)
THEOREM NeverWild ==
    ASSUME NoneEmpty PROVE Spec => []NoWildAccess
<1>1. Inv => NoWildAccess
  BY DEF Inv, NoWildAccess
<1> QED
  BY <1>1, BufferInvariant, PTL

(* What a finished call says of itself is its first component.             *)
LEMMA Calls ==
    ASSUME Next, call'[1] \in {"sgetc", "sbumpc", "sgetn", "sputc", "seek"}
    PROVE  \/ Sgetc /\ call'[1] = "sgetc"
           \/ Sbumpc /\ call'[1] = "sbumpc"
           \/ (\E n \in Lengths : Sgetn(n)) /\ call'[1] = "sgetn"
           \/ (\E c \in Char : Sputc(c)) /\ call'[1] = "sputc"
           \/ /\ \E offset \in Offsets, way \in {"beg", "cur", "end"},
                    which \in {{"out"}, {"in", "out"}} : Seek(offset, way, which)
              /\ call'[1] = "seek"
<1>1. ASSUME NEW access \in Accesses, Open(access) PROVE call'[1] = "open"
  BY <1>1 DEF Open, Finish
<1>2. Close => call'[1] = "close"
  BY DEF Close, Finish
<1>3. Copy => call'[1] = "copy"
  BY DEF Copy, Finish
<1>4. Sgetc => call'[1] = "sgetc"
  BY DEF Sgetc, Finish
<1>5. Sbumpc => call'[1] = "sbumpc"
  BY DEF Sbumpc, Finish
<1>6. ASSUME NEW n \in Lengths, Sgetn(n) PROVE call'[1] = "sgetn"
  BY <1>6 DEF Sgetn, Finish
<1>7. ASSUME NEW n \in Lengths, Greserve(n) PROVE call'[1] = "greserve"
  BY <1>7 DEF Greserve, Finish
<1>8. ASSUME NEW n \in Lengths, Preserve(n) PROVE call'[1] = "preserve"
  BY <1>8 DEF Preserve, Finish
<1>9. Sungetc => call'[1] = "sungetc"
  BY DEF Sungetc, Finish
<1>10. ASSUME NEW c \in Char, Sputc(c) PROVE call'[1] = "sputc"
  BY <1>10 DEF Sputc, Finish
<1>11. ASSUME NEW c \in Strings, Sputn(c) PROVE call'[1] = "sputn"
  BY <1>11 DEF Sputn, Finish
<1>12. ASSUME NEW offset \in Offsets, NEW way \in {"beg", "cur", "end"},
              NEW which \in {{"out"}, {"in", "out"}}, Seek(offset, way, which)
       PROVE  call'[1] = "seek"
  BY <1>12 DEF Seek, Finish
<1>13. Memory => call'[1] = "none"
  BY DEF Memory
<1> QED
  BY <1>1, <1>2, <1>3, <1>4, <1>5, <1>6, <1>7, <1>8, <1>9, <1>10, <1>11, <1>12, <1>13 DEF Next

(* What a read returns is what is in the file at the position that         *)
(* goffset() tells, without a gap from one window to the next, and all of  *)
(* it that was asked for unless the file ends.                             *)
THEOREM AlwaysInOrder ==
    ASSUME NoneEmpty PROVE Spec => ReadsInOrder
<1> DEFINE A == ret'.out = "ok" /\ call'[1] \in {"sgetc", "sbumpc", "sgetn"} =>
        LET k == Len(ret'.chars) IN
        /\ \A i \in 1 .. k : ret'.chars[i] \in {Visible(mb)[goffset(mb) + i],
                                                 mb.file[goffset(mb) + i]}
        /\ goffset(mb') = goffset(mb) + (IF call'[1] = "sgetc" THEN 0 ELSE k)
        /\ k < Asked => goffset(mb) + k >= MapSize(mb)
<1>1. ASSUME Inv, Next PROVE A
  <2>1. SUFFICES ASSUME ret'.out = "ok", call'[1] \in {"sgetc", "sbumpc", "sgetn"} PROVE A
    OBVIOUS
  <2>2. mb \in State /\ Good(mb)
    BY <1>1 DEF Inv, TypeOK
  <2>3. CASE Sgetc /\ call'[1] = "sgetc"
    <3> DEFINE r == underflow(mb)
    <3>1. mb' = r.mb /\ ret'.out = r.out /\ ret'.chars = r.chars
      BY <2>3 DEF Sgetc, Finish
    <3>2. r.out = "ok" => Reads(mb, r, 1) /\ goffset(r.mb) = goffset(mb)
      BY <2>2, UnderflowResult
    <3>3. Asked = 1
      BY <2>3 DEF Asked
    <3>4. goffset(mb) + 0 = goffset(mb)
      BY <2>2 DEF goffset, State
    <3> HIDE DEF r
    <3> QED
      BY <2>1, <2>3, <3>1, <3>2, <3>3, <3>4 DEF Reads
  <2>4. CASE Sbumpc /\ call'[1] = "sbumpc"
    <3> DEFINE r == Bumped(mb)
    <3>1. mb' = r.mb /\ ret'.out = r.out /\ ret'.chars = r.chars
      BY <2>4 DEF Sbumpc, Bumped, Finish
    <3>2. r.out = "ok" => Reads(mb, r, 1) /\ goffset(r.mb) = goffset(mb) + Len(r.chars)
      BY <2>2, BumpedResult
    <3>3. Asked = 1
      BY <2>4 DEF Asked
    <3> HIDE DEF r
    <3> QED
      BY <2>1, <2>4, <3>1, <3>2, <3>3 DEF Reads
  <2>5. CASE (\E n \in Lengths : Sgetn(n)) /\ call'[1] = "sgetn"
    <3>1. PICK n \in Lengths : Sgetn(n)
      BY <2>5
    <3> DEFINE r == xsgetn(mb, n)
    <3>2. mb' = r.mb /\ ret'.out = r.out /\ ret'.chars = r.chars /\ call' = <<"sgetn", n>>
      BY <3>1 DEF Sgetn, Finish
    <3>3. n \in Nat /\ n > 0
      BY MappedAssumption DEF NoneEmpty
    <3>4. r.out = "ok" => Reads(mb, r, n) /\ goffset(r.mb) = goffset(mb) + Len(r.chars)
      BY <2>2, <3>3, GetnResult
    <3>5. Asked = n
      BY <3>2 DEF Asked
    <3> HIDE DEF r
    <3> QED
      BY <2>1, <2>5, <3>2, <3>4, <3>5 DEF Reads
  <2> HIDE DEF A
  <2> QED
    BY <1>1, <2>1, <2>3, <2>4, <2>5, Calls
<1>2. Inv /\ [Next]_vars => [A]_vars
  <2> HIDE DEF A
  <2> QED
    BY <1>1
<1> QED
  BY <1>2, BufferInvariant, PTL DEF Spec, ReadsInOrder

(* A character that sputc() accepts is stored where poffset() tells, and   *)
(* nowhere else; one is refused only at the end of the file.               *)
THEOREM AlwaysInPlace ==
    ASSUME NoneEmpty PROVE Spec => PutsInPlace
<1> DEFINE A == ret'.out = "ok" /\ call'[1] = "sputc" =>
        IF ret'.n = 1
        THEN /\ poffset(mb) < MapSize(mb)
             /\ Visible(mb')[poffset(mb) + 1] = call'[2]
             /\ mb'.access = "write" =>
                  mb'.file = [mb.file EXCEPT ![poffset(mb) + 1] = call'[2]]
             /\ poffset(mb') = poffset(mb) + 1
        ELSE mb'.file = mb.file /\ poffset(mb) >= MapSize(mb)
<1>1. ASSUME Inv, Next PROVE A
  <2>1. SUFFICES ASSUME ret'.out = "ok", call'[1] = "sputc" PROVE A
    OBVIOUS
  <2>2. mb \in State /\ Good(mb)
    BY <1>1 DEF Inv, TypeOK
  <2>3. PICK c \in Char : Sputc(c)
    BY <1>1, <2>1, Calls
  <2> DEFINE r == overflow(mb, c)
  <2>4. mb' = r.mb /\ ret'.out = r.out /\ ret'.n = r.n /\ call' = <<"sputc", c>>
    BY <2>3 DEF Sputc, Finish
  <2>5. r.out = "ok" => IF r.n = 1 THEN Placed(mb, r.mb, c)
                        ELSE r.mb.file = mb.file /\ poffset(mb) >= MapSize(mb)
    BY <2>2, OverflowResult
  <2>6. call'[2] = c
    BY <2>4
  <2> HIDE DEF r
  <2> QED
    BY <2>1, <2>4, <2>5, <2>6 DEF Placed
<1>2. Inv /\ [Next]_vars => [A]_vars
  <2> HIDE DEF A
  <2> QED
    BY <1>1
<1> QED
  BY <1>2, BufferInvariant, PTL DEF Spec, PutsInPlace

(* A seek answers with the position it was asked for, counted from the     *)
(* area that the mode names if it is relative, or the nearest end of the   *)
(* file, and both areas are there afterwards.                              *)
THEOREM AlwaysSeeksBoth ==
    ASSUME NoneEmpty PROVE Spec => SeeksBoth
<1> DEFINE A == ~thrown /\ call'[1] = "seek" /\ mb.bound =>
        /\ ret'.n \in 0 .. MapSize(mb)
        /\ call'[2] = "beg" => ret'.n = Clamp(call'[3], MapSize(mb))
        /\ call'[2] = "cur" => ret'.n = Clamp(StartOf(call'[4]) + call'[3], MapSize(mb))
        /\ call'[2] = "end" => ret'.n = Clamp(MapSize(mb) + call'[3], MapSize(mb))
        /\ goffset(mb') = ret'.n /\ poffset(mb') = ret'.n
<1>1. ASSUME Inv, Next PROVE A
  <2>1. SUFFICES ASSUME ~thrown, call'[1] = "seek", mb.bound PROVE A
    OBVIOUS
  <2>2. mb \in State /\ Good(mb) /\ Calm(mb)
    BY <1>1, <2>1 DEF Inv, TypeOK
  <2>3. PICK offset \in Offsets, way \in {"beg", "cur", "end"},
             which \in {{"out"}, {"in", "out"}} : Seek(offset, way, which)
    BY <1>1, <2>1, Calls
  <2> DEFINE r == m_seek(mb, offset, way, which)
  <2>4. mb' = r.mb /\ ret'.n = r.n /\ call' = <<"seek", way, offset, which>>
    BY <2>1, <2>3 DEF Seek, Finish
  <2>5. offset \in Int /\ "out" \in which
    BY MappedAssumption
  <2>6. /\ goffset(r.mb) = r.n /\ poffset(r.mb) = r.n
        /\ r.n \in 0 .. MapSize(mb)
        /\ way = "beg" => r.n = Clamp(offset, MapSize(mb))
        /\ way = "cur" => r.n = Clamp(StartOf(which) + offset, MapSize(mb))
        /\ way = "end" => r.n = Clamp(MapSize(mb) + offset, MapSize(mb))
    BY <2>2, <2>5, SeekResult DEF From, StartOf
  <2>7. call'[2] = way /\ call'[3] = offset /\ call'[4] = which
    BY <2>4
  <2> HIDE DEF r
  <2> QED
    BY <2>4, <2>6, <2>7
<1>2. Inv /\ [Next]_vars => [A]_vars
  <2> HIDE DEF A
  <2> QED
    BY <1>1
<1> QED
  BY <1>2, BufferInvariant, PTL DEF Spec, SeeksBoth
=============================================================================
