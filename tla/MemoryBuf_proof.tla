--------------------------- MODULE MemoryBuf_proof --------------------------
(***************************************************************************)
(* MemoryBuf implements MemoryStream, and its pointers and its block are   *)
(* in order, for every text, block size, growth and mode.                  *)
(***************************************************************************)
EXTENDS MemoryBuf, SequenceTheorems, TLAPS

Cell == Char \cup {Junk}

LEMMA InitialState == Init => TypeOK /\ Ends /\ OwnsItsBlock
<1> SUFFICES ASSUME Init PROVE TypeOK /\ Ends /\ OwnsItsBlock
  OBVIOUS
<1>1. NoBuffer \in State
  BY DEF NoBuffer, State
<1>2. Len(NoBuffer.mem) = 0
  BY DEF NoBuffer
<1> QED
  BY <1>1, <1>2, MemoryAssumption
     DEF Init, TypeOK, Ends, OwnsItsBlock, InOrder, Owns, NoBuffer

(* The fields that setbuf() leaves alone.                                  *)
SameKind(s, t) == t.kind = s.kind /\ t.mode = s.mode

LEMMA SetAreasFields ==
    ASSUME NEW s \in State, NEW block \in Blocks \cup {"null", "user"}, NEW mem \in Seq(Cell)
    PROVE  LET t == SetAreas(s, block, mem) IN
           /\ t \in State /\ SameKind(s, t) /\ t.own = s.own
           /\ t.block = block /\ t.mem = mem /\ t.gn = 0 /\ t.pe = Len(mem)
           /\ t.ge = (IF "in" \in s.mode THEN Len(mem) ELSE 0)
           /\ t.pb = (IF "out" \in s.mode THEN 0 ELSE Len(mem)) /\ t.pn = t.pb
           /\ InOrder(t)
<1> DEFINE size == Len(mem)
           start == IF "out" \in s.mode THEN 0 ELSE size
           ge == IF "in" \in s.mode THEN size ELSE 0
           t == [s EXCEPT !.block = block, !.mem = mem, !.gn = 0, !.ge = ge,
                          !.pb = start, !.pn = start, !.pe = size]
<1>1. size \in Nat /\ start \in Nat /\ ge \in Nat /\ start <= size
  OBVIOUS
<1>2. t = SetAreas(s, block, mem)
  BY DEF SetAreas
<1> HIDE DEF start, ge, size
<1>3. /\ t \in State /\ SameKind(s, t) /\ t.own = s.own
      /\ t.block = block /\ t.mem = mem /\ t.gn = 0 /\ t.pe = size
      /\ t.ge = ge /\ t.pb = start /\ t.pn = start
  BY <1>1 DEF State, SameKind, Cell
<1>4. InOrder(t)
  BY <1>1, <1>3 DEF InOrder, SameKind, start, ge, size
<1> QED
  BY <1>2, <1>3, <1>4 DEF start, ge, size

LEMMA SetbufFields ==
    ASSUME NEW s \in State, NEW block \in Blocks \cup {"null", "user"}, NEW mem \in Seq(Cell)
    PROVE  LET t == setbuf(s, block, mem) IN
           /\ t \in State /\ SameKind(s, t) /\ ~t.own
           /\ t.block = block /\ t.mem = mem /\ t.gn = 0 /\ t.pe = Len(mem)
           /\ t.ge = (IF "in" \in s.mode THEN Len(mem) ELSE 0)
           /\ t.pb = (IF "out" \in s.mode THEN 0 ELSE Len(mem)) /\ t.pn = t.pb
           /\ InOrder(t)
<1> DEFINE t == SetAreas(s, block, mem)
<1>1. t \in State /\ SameKind(s, t) /\ InOrder(t)
  BY SetAreasFields
<1>2. setbuf(s, block, mem) = [t EXCEPT !.own = FALSE]
  BY DEF setbuf
<1> QED
  <2> DEFINE u == [t EXCEPT !.own = FALSE]
  <2>1. /\ t.block = block /\ t.mem = mem /\ t.gn = 0 /\ t.pe = Len(mem)
        /\ t.ge = (IF "in" \in s.mode THEN Len(mem) ELSE 0)
        /\ t.pb = (IF "out" \in s.mode THEN 0 ELSE Len(mem)) /\ t.pn = t.pb
    BY SetAreasFields
  <2> HIDE DEF t
  <2>2. /\ u \in State /\ SameKind(t, u) /\ ~u.own /\ u.block = t.block /\ u.mem = t.mem
        /\ u.gn = t.gn /\ u.ge = t.ge /\ u.pb = t.pb /\ u.pn = t.pn /\ u.pe = t.pe
    BY <1>1 DEF State, SameKind
  <2>3. InOrder(u)
    BY <1>1, <2>2 DEF InOrder, SameKind
  <2> QED
    BY <1>1, <1>2, <2>1, <2>2, <2>3 DEF SameKind

(* Memory of the user's.                                                   *)
LEMMA UserAreas ==
    ASSUME NEW s \in State, NEW text \in Texts
    PROVE  LET t == SetAreas(s, "user", text) IN
           /\ t \in State /\ SameKind(s, t) /\ t.own = s.own /\ t.block = "user"
           /\ t.mem = text /\ t.gn = 0 /\ t.pn = t.pb /\ InOrder(t)
<1>1. text \in Seq(Cell)
  BY MemoryAssumption DEF Cell
<1>2. "user" \in Blocks \cup {"null", "user"}
  OBVIOUS
<1> DEFINE t == SetAreas(s, "user", text)
<1>3. t \in State /\ SameKind(s, t) /\ t.own = s.own /\ InOrder(t)
  BY <1>1, <1>2, SetAreasFields, ZenonT(60)
<1>4. t.block = "user" /\ t.mem = text /\ t.gn = 0 /\ t.pn = t.pb
  BY SMT DEF SetAreas, State
<1> QED
  BY <1>3, <1>4

(* The new block is large enough, and no smaller than the old one.         *)
LEMMA GrownSizeBounds ==
    ASSUME NEW s \in State, NEW n \in Nat
    PROVE  GrownSize(s, n) \in Nat /\ GrownSize(s, n) >= n /\ GrownSize(s, n) >= s.pe
<1>1. s.pe \in Nat /\ s.pe \div 2 \in Nat
  BY DEF State
<1> QED
  BY <1>1 DEF GrownSize, Max2

(* m_grow() keeps the text and the positions.                              *)
LEMMA GrowFields ==
    ASSUME NEW s \in State, InOrder(s), NEW n \in Nat, NEW b \in Blocks, "out" \in s.mode
    PROVE  LET t == m_grow(s, n, b) IN
           /\ t \in State /\ SameKind(s, t) /\ t.own /\ t.block = b
           /\ t.mem = Copied(s, GrownSize(s, n)) /\ t.pe = GrownSize(s, n)
           /\ t.gn = s.gn /\ t.pn = s.pn /\ t.pb = 0
           /\ t.ge = (IF "in" \in s.mode THEN t.pe ELSE 0)
<1> DEFINE size == GrownSize(s, n)
           t == setbuf(s, b, Copied(s, size))
<1>1. size \in Nat /\ size >= s.pe
  BY GrownSizeBounds
<1>2. Copied(s, size) \in Seq(Cell) /\ Len(Copied(s, size)) = size
  BY <1>1 DEF Copied, State, Cell, InOrder
<1>3. /\ t \in State /\ SameKind(s, t) /\ t.block = b /\ t.mem = Copied(s, size)
      /\ t.gn = 0 /\ t.pe = size /\ t.pb = 0 /\ t.pn = 0
      /\ t.ge = (IF "in" \in s.mode THEN size ELSE 0)
  BY <1>2, SetbufFields
<1> HIDE DEF t, size
<1>4. goffset(s) = s.gn /\ goffset(s) \in Nat /\ poffset(s) = s.pn /\ poffset(s) \in Nat
  BY DEF goffset, poffset, InOrder, State
<1>5. "in" \notin s.mode => s.gn = 0
  BY DEF InOrder, State
<1> DEFINE u == [t EXCEPT !.own = TRUE]
           v == IF "in" \in s.mode THEN gbump(u, goffset(s)) ELSE u
<1>6. /\ u \in State /\ SameKind(s, u) /\ u.own /\ u.block = b /\ u.mem = t.mem /\ u.gn = 0
      /\ u.ge = t.ge /\ u.pb = 0 /\ u.pn = 0 /\ u.pe = size
  BY <1>3 DEF State, SameKind
<1> HIDE DEF u
<1>7. /\ v \in State /\ SameKind(s, v) /\ v.own /\ v.block = b /\ v.mem = t.mem /\ v.gn = s.gn
      /\ v.ge = t.ge /\ v.pb = 0 /\ v.pn = 0 /\ v.pe = size
  <2>1. gbump(u, goffset(s)) = [u EXCEPT !.gn = s.gn]
    BY <1>4, <1>6 DEF gbump, State
  <2> QED
    BY <1>4, <1>5, <1>6, <2>1, SMTT(20) DEF State, SameKind
<1>8. m_grow(s, n, b) = pbump(v, poffset(s))
  BY DEF m_grow, t, size, u
<1> HIDE DEF v
<1>9. pbump(v, poffset(s)) = [v EXCEPT !.pn = s.pn]
  BY <1>4, <1>7 DEF pbump, State
<1> QED
  BY <1>3, <1>4, <1>7, <1>8, <1>9, SMTT(20) DEF State, SameKind, size

(* Storing characters that fit.                                            *)
LEMMA StoreFields ==
    ASSUME NEW s \in State, s.pe = Len(s.mem), NEW c \in Seq(Cell), s.pn + Len(c) <= s.pe
    PROVE  LET t == Store(s, c) IN
           /\ t \in State /\ SameKind(s, t) /\ t.own = s.own /\ t.block = s.block
           /\ t.gn = s.gn /\ t.ge = s.ge /\ t.pb = s.pb /\ t.pe = s.pe
           /\ t.pn = s.pn + Len(c) /\ Len(t.mem) = Len(s.mem)
           /\ \A i \in 1 .. Len(s.mem) :
                 t.mem[i] = IF i > s.pn /\ i <= s.pn + Len(c) THEN c[i - s.pn] ELSE s.mem[i]
<1> DEFINE new == [i \in DOMAIN s.mem |->
                     IF i > s.pn /\ i <= s.pn + Len(c) THEN c[i - s.pn] ELSE s.mem[i]]
<1>1. s.mem \in Seq(Cell) /\ s.pn \in Nat /\ Len(c) \in Nat
  BY DEF State, Cell
<1>2. DOMAIN s.mem = 1 .. Len(s.mem)
  BY <1>1
<1>3. \A i \in DOMAIN s.mem : new[i] \in Cell
  BY <1>1, <1>2
<1>4. new \in Seq(Cell) /\ Len(new) = Len(s.mem)
  BY <1>1, <1>2, <1>3
<1>5. Store(s, c) = [s EXCEPT !.mem = new, !.pn = s.pn + Len(c)]
  BY DEF Store, pbump, State
<1> HIDE DEF new
<1> DEFINE pn == s.pn + Len(c)
           t == [s EXCEPT !.mem = new, !.pn = pn]
<1>6. pn \in Nat
  BY <1>1
<1> HIDE DEF pn
<1>7. /\ t \in State /\ SameKind(s, t) /\ t.own = s.own /\ t.block = s.block
      /\ t.gn = s.gn /\ t.ge = s.ge /\ t.pb = s.pb /\ t.pe = s.pe
      /\ t.pn = pn /\ t.mem = new
  BY <1>4, <1>6 DEF State, SameKind, Cell
<1> QED
  BY <1>2, <1>4, <1>5, <1>7 DEF new, pn

-----------------------------------------------------------------------------
(* The steps: each keeps the invariant, loses no block unless it ends the  *)
(* buffer, and is a step of MemoryStream.                                  *)
Inv == TypeOK /\ Ends /\ OwnsItsBlock

KeepsBlocks == DOMAIN heap' \ {mb'.block} = DOMAIN heap \ {mb.block}

LEMMA ConstructStep ==
    ASSUME Inv, NEW kind \in {"basic", "dynamic"}, NEW mode \in Modes, Construct(kind, mode)
    PROVE  Inv' /\ KeepsBlocks /\ Text!Make(kind, mode)
<1> DEFINE s == [NoBuffer EXCEPT !.kind = kind, !.mode = mode]
<1>1. /\ s \in State /\ s.kind = kind /\ s.mode = mode /\ ~s.own /\ s.block = "null"
      /\ s.mem = <<>> /\ s.gn = 0 /\ s.ge = 0 /\ s.pb = 0 /\ s.pn = 0 /\ s.pe = 0
  <2>1. NoBuffer \in State
    BY DEF NoBuffer, State
  <2>2. s \in State /\ s.kind = kind /\ s.mode = mode
    BY <2>1 DEF State
  <2> QED
    BY <2>2 DEF NoBuffer
<1>2. heap' = heap /\ mb.kind = "none" /\ mb.block \notin DOMAIN heap
  BY MemoryAssumption DEF Construct, Exists, Inv, Owns, OwnsItsBlock, TypeOK, State
<1>3. call' = <<"make">> /\ ret' = Ret(<<>>, 0)
  BY DEF Construct, Finish
<1>4. mb' = s \/ \E t \in Texts : mb' = SetAreas(s, "user", t)
  BY DEF Construct, Finish
<1> HIDE DEF s
<1>5. CASE mb' = s
  <2>1. Inv'
    BY <1>1, <1>2, <1>5, MemoryAssumption
       DEF Inv, TypeOK, Ends, InOrder, OwnsItsBlock, Owns
  <2>2. Text!Make(kind, mode)
    BY <1>1, <1>2, <1>3, <1>5 DEF Text!Make, Text!Ret, Ret, goffset, poffset
  <2> QED
    BY <1>1, <1>2, <1>5, <2>1, <2>2, MemoryAssumption DEF KeepsBlocks, Inv, TypeOK
<1>6. CASE \E t \in Texts : mb' = SetAreas(s, "user", t)
  <2>1. PICK t \in Texts : mb' = SetAreas(s, "user", t)
    BY <1>6
  <2>3. /\ mb' \in State /\ mb'.kind = kind /\ mb'.mode = mode /\ ~mb'.own
        /\ mb'.block = "user" /\ mb'.mem = t /\ mb'.gn = 0 /\ mb'.pn = mb'.pb /\ InOrder(mb')
    BY <1>1, <2>1, UserAreas DEF SameKind
  <2>4. Inv'
    BY <1>2, <2>3, MemoryAssumption DEF Inv, TypeOK, Ends, InOrder, OwnsItsBlock, Owns
  <2>5. Text!Make(kind, mode)
    <3>1. goffset(mb)' = 0 /\ poffset(mb)' = 0
      BY <2>3 DEF goffset, poffset, State
    <3> QED
      BY <1>2, <1>3, <2>3, <3>1 DEF Text!Make, Text!Ret, Ret
  <2> QED
    BY <1>2, <2>3, <2>4, <2>5, MemoryAssumption DEF KeepsBlocks, Inv, TypeOK
<1> QED
  BY <1>4, <1>5, <1>6

LEMMA DestroyStep ==
    ASSUME Inv, Destroy
    PROVE  Inv' /\ call' = <<"end">> /\ Text!End
<1>1. mb' = NoBuffer /\ heap' = heap /\ call' = <<"end">> /\ ret' = Ret(<<>>, 0) /\ Exists
  BY DEF Destroy, Finish
<1>2. Inv'
  BY <1>1, MemoryAssumption
     DEF Inv, TypeOK, Ends, InOrder, OwnsItsBlock, Owns, NoBuffer, State
<1>3. Text!End
  BY <1>1 DEF Text!End, Text!Ret, Ret, goffset, poffset, NoBuffer, Exists
<1> QED
  BY <1>1, <1>2, <1>3

(* The block that the buffer holds is given back, and no other.            *)
LEMMA FreedBlocks ==
    ASSUME Inv
    PROVE  /\ (DOMAIN heap) \ Freed(mb) = DOMAIN heap \ {mb.block}
           /\ DOMAIN heap \subseteq Blocks
<1>1. CASE mb.own
  BY <1>1 DEF Freed, Inv, TypeOK
<1>2. CASE ~mb.own
  BY <1>2 DEF Freed, Inv, TypeOK, OwnsItsBlock, Owns
<1> QED
  BY <1>1, <1>2

LEMMA SetBufStep ==
    ASSUME Inv, NEW t \in Texts, SetBuf(t)
    PROVE  Inv' /\ KeepsBlocks /\ Text!SetBuf(t)
<1>1. t \in Seq(Cell)
  BY MemoryAssumption DEF Cell
<1>2. /\ mb.kind # "none" /\ heap' = Drop(Freed(mb))
      /\ call' = <<"setbuf">> /\ ret' = Ret(<<>>, 0)
      /\ mb' = IF mb.kind = "dynamic" THEN setbuf(mb, "user", t) ELSE SetAreas(mb, "user", t)
  BY DEF SetBuf, Finish, Exists
<1>3. mb.kind # "dynamic" => ~mb.own
  BY DEF Inv, OwnsItsBlock, Owns
<1>4. mb \in State
  BY DEF Inv, TypeOK
<1>5. /\ mb' \in State /\ SameKind(mb, mb') /\ ~mb'.own
      /\ mb'.block = "user" /\ mb'.mem = t /\ mb'.gn = 0 /\ mb'.pn = mb'.pb /\ InOrder(mb')
  <2>1. CASE mb.kind = "dynamic"
    BY <1>1, <1>2, <1>4, <2>1, SetbufFields
  <2>2. CASE mb.kind # "dynamic"
    BY <1>2, <1>3, <1>4, <2>2, UserAreas
  <2> QED
    BY <2>1, <2>2
<1>6. /\ DOMAIN heap' = DOMAIN heap \ {mb.block}
      /\ \A b \in DOMAIN heap' : heap'[b] = heap[b] /\ b \in DOMAIN heap
  BY <1>2, FreedBlocks DEF Drop
<1>7. heap' \in [DOMAIN heap' -> Nat]
  <2>1. heap' = [b \in DOMAIN heap \ Freed(mb) |-> heap[b]]
    BY <1>2 DEF Drop
  <2> QED
    BY <1>6, <2>1 DEF Inv, TypeOK
<1>8. Inv'
  BY <1>5, <1>6, <1>7, FreedBlocks, MemoryAssumption
     DEF Inv, TypeOK, Ends, OwnsItsBlock, Owns
<1>9. KeepsBlocks
  BY <1>5, <1>6, FreedBlocks, MemoryAssumption DEF KeepsBlocks
<1>10. Text!SetBuf(t)
  <2>1. goffset(mb)' = 0 /\ poffset(mb)' = 0
    BY <1>5 DEF goffset, poffset, State
  <2> QED
    BY <1>2, <1>5, <2>1 DEF Text!SetBuf, Text!Ret, Ret, SameKind
<1> QED
  BY <1>8, <1>9, <1>10

(* A step that changes nothing but the positions.                          *)
Moved(g, p) == mb' = [mb EXCEPT !.gn = g, !.pn = p] /\ heap' = heap

LEMMA MovedKeeps ==
    ASSUME Inv, NEW g \in 0 .. mb.ge, NEW p \in mb.pb .. mb.pe, Moved(g, p)
    PROVE  /\ Inv' /\ KeepsBlocks
           /\ goffset(mb)' = g /\ poffset(mb)' = p - mb.pb
           /\ mb'.mem = mb.mem /\ SameKind(mb, mb')
<1>1. mb \in State /\ g \in Nat /\ p \in Nat /\ g <= mb.ge /\ mb.pb <= p /\ p <= mb.pe
  BY DEF Inv, TypeOK, State
<1>2. /\ mb' \in State /\ SameKind(mb, mb') /\ mb'.own = mb.own /\ mb'.block = mb.block
      /\ mb'.mem = mb.mem /\ mb'.gn = g /\ mb'.ge = mb.ge /\ mb'.pb = mb.pb
      /\ mb'.pn = p /\ mb'.pe = mb.pe
  BY <1>1 DEF Moved, State, SameKind
<1>3. heap' = heap
  BY DEF Moved
<1>4. Inv'
  BY <1>1, <1>2, <1>3 DEF Inv, TypeOK, Ends, InOrder, OwnsItsBlock, Owns, SameKind
<1> QED
  BY <1>2, <1>3, <1>4 DEF KeepsBlocks, goffset, poffset

(* The positions are within their areas, which are what MemoryStream calls *)
(* readable and writable.                                                  *)
LEMMA Positions ==
    ASSUME Inv
    PROVE  /\ mb \in State /\ mb.mem \in Seq(Cell) /\ Len(mb.mem) \in Nat
           /\ mb.gn \in 0 .. mb.ge /\ mb.pn \in mb.pb .. mb.pe
           /\ goffset(mb) = mb.gn /\ poffset(mb) = mb.pn - mb.pb /\ poffset(mb) \in Nat
           /\ mb.ge = Text!Readable /\ mb.pe - mb.pb = Text!Writable
           /\ mb.ge <= Len(mb.mem) /\ mb.pe = Len(mb.mem)
           /\ poffset(mb) <= PutSize(mb)
           /\ [mb EXCEPT !.gn = mb.gn, !.pn = mb.pn] = mb
<1>1. mb \in State /\ InOrder(mb)
  BY DEF Inv, TypeOK, Ends
<1>2. mb.mem \in Seq(Cell) /\ Len(mb.mem) \in Nat
  BY <1>1 DEF State, Cell
<1>3. [mb EXCEPT !.gn = mb.gn, !.pn = mb.pn] = mb
  BY <1>1 DEF State
<1> QED
  BY <1>1, <1>2, <1>3
     DEF State, InOrder, goffset, poffset, PutSize, Text!Readable, Text!Writable

LEMMA ReadStep ==
    ASSUME Inv, NEW c, NEW n \in Nat, NEW step \in {0, 1}, Read(c, n, step)
    PROVE  Inv' /\ KeepsBlocks /\ Text!Read(c, n, step)
<1> DEFINE k == Min2(n, mb.ge - mb.gn)
<1>1. /\ mb.kind # "none" /\ heap' = heap /\ mb' = gbump(mb, step * k) /\ call' = c
      /\ ret' = Ret(SubSeq(mb.mem, mb.gn + 1, mb.gn + k), k)
  BY DEF Read, Finish, Exists
<1>2. k \in Nat /\ k <= mb.ge - mb.gn /\ mb.gn \in Nat /\ mb.pn \in Nat /\ mb.ge \in Nat
  BY Positions DEF Min2, State
<1> DEFINE g == mb.gn + step * k
<1>3. g \in 0 .. mb.ge
  BY <1>2
<1>4. Text!Min2(n, Text!Readable - goffset(mb)) = k
  BY Positions DEF Text!Min2, Min2
<1> HIDE DEF k
<1>5. gbump(mb, step * k) = [mb EXCEPT !.gn = g, !.pn = mb.pn]
  BY <1>2, Positions DEF gbump, State
<1> HIDE DEF g
<1>6. Moved(g, mb.pn)
  BY <1>1, <1>5 DEF Moved
<1>7. /\ Inv' /\ KeepsBlocks /\ goffset(mb)' = g /\ poffset(mb)' = poffset(mb)
      /\ mb'.mem = mb.mem /\ SameKind(mb, mb')
  BY <1>3, <1>6, MovedKeeps, Positions
<1>8. Text!Read(c, n, step)
  BY <1>1, <1>4, <1>7, Positions DEF Text!Read, Text!Ret, Ret, SameKind, g
<1> QED
  BY <1>7, <1>8

LEMMA BackStep ==
    ASSUME Inv, NEW c, NEW cs, Back(c, cs)
    PROVE  Inv' /\ KeepsBlocks /\ Text!Back(c, cs)
<1>1. mb.kind # "none" /\ heap' = heap /\ call' = c
  BY DEF Back, Finish, Exists
<1>2. CASE mb.gn > 0 /\ mb.mem[mb.gn] \in cs
  <2>1. mb' = gbump(mb, -1) /\ ret' = Ret(<<mb.mem[mb.gn]>>, 1)
    BY <1>2 DEF Back, Finish
  <2>2. mb.gn - 1 \in 0 .. mb.ge
    BY <1>2, Positions DEF State
  <2>3. Moved(mb.gn - 1, mb.pn)
    <3>1. gbump(mb, -1) = [mb EXCEPT !.gn = mb.gn - 1, !.pn = mb.pn]
      BY Positions DEF gbump, State
    <3> QED
      BY <1>1, <2>1, <3>1 DEF Moved
  <2>4. /\ Inv' /\ KeepsBlocks /\ goffset(mb)' = mb.gn - 1 /\ poffset(mb)' = poffset(mb)
        /\ mb'.mem = mb.mem /\ SameKind(mb, mb')
    BY <2>2, <2>3, MovedKeeps, Positions
  <2> QED
    BY <1>1, <1>2, <2>1, <2>4, Positions DEF Text!Back, Text!Ret, Ret, SameKind
<1>3. CASE ~(mb.gn > 0 /\ mb.mem[mb.gn] \in cs)
  <2>1. mb' = mb /\ ret' = Ret(<<>>, 0)
    BY <1>3 DEF Back, Finish
  <2>2. Moved(mb.gn, mb.pn)
    BY <1>1, <2>1, Positions DEF Moved
  <2>3. Inv' /\ KeepsBlocks /\ goffset(mb)' = goffset(mb) /\ poffset(mb)' = poffset(mb)
    BY <2>2, MovedKeeps, Positions
  <2> QED
    BY <1>1, <1>3, <2>1, <2>3, Positions DEF Text!Back, Text!Ret, Ret
<1> QED
  BY <1>2, <1>3

(* What is stored in u, which is the buffer or what it has grown to, is    *)
(* written to the text, and nothing else of it changes.                    *)
LEMMA StoredText ==
    ASSUME Inv, NEW u \in State, InOrder(u), SameKind(mb, u),
           u.gn = mb.gn, u.pb = mb.pb, u.pn = mb.pn,
           Len(u.mem) >= Len(mb.mem), \A i \in 1 .. Len(mb.mem) : u.mem[i] = mb.mem[i],
           NEW str \in Seq(Cell), u.pn + Len(str) <= u.pe, u.pb = 0 \/ Len(str) = 0,
           mb' = Store(u, str)
    PROVE  /\ mb' \in State /\ InOrder(mb') /\ SameKind(mb, mb')
           /\ mb'.own = u.own /\ mb'.block = u.block /\ mb'.pe = u.pe
           /\ goffset(mb)' = goffset(mb) /\ Len(mb'.mem) = Len(u.mem)
           /\ Text!Written(str)
<1>1. /\ u.pn \in Nat /\ Len(str) \in Nat /\ Len(u.mem) \in Nat /\ u.pe = Len(u.mem)
      /\ u.gn <= u.ge /\ u.pb <= u.pn /\ u.pb \in Nat /\ u.pn <= u.pe
  BY DEF State, InOrder
<1>2. /\ mb' \in State /\ SameKind(u, mb') /\ mb'.own = u.own /\ mb'.block = u.block
      /\ mb'.gn = u.gn /\ mb'.ge = u.ge /\ mb'.pb = u.pb /\ mb'.pe = u.pe
      /\ mb'.pn = u.pn + Len(str) /\ Len(mb'.mem) = Len(u.mem)
      /\ \A i \in 1 .. Len(u.mem) :
            mb'.mem[i] = IF i > u.pn /\ i <= u.pn + Len(str) THEN str[i - u.pn] ELSE u.mem[i]
  BY <1>1, StoreFields
<1>3. InOrder(mb')
  BY <1>1, <1>2 DEF InOrder, SameKind
<1>4. mb'.mem \in Seq(Cell)
  BY <1>2 DEF State, Cell
<1>5. goffset(mb)' = goffset(mb) /\ poffset(mb)' = poffset(mb) + Len(str)
  BY <1>1, <1>2 DEF goffset, poffset
<1>6. poffset(mb) = u.pn - u.pb /\ Len(mb.mem) \in Nat
  BY Positions DEF poffset
<1>7. ASSUME NEW i \in 1 .. Len(mb'.mem)
      PROVE  IF poffset(mb) < i /\ i <= poffset(mb) + Len(str)
             THEN mb'.mem[i] = str[i - poffset(mb)]
             ELSE i <= Len(mb.mem) => mb'.mem[i] = mb.mem[i]
  <2>1. i \in 1 .. Len(u.mem)
    BY <1>2
  <2>2. CASE Len(str) = 0
    BY <1>1, <1>2, <1>6, <2>1, <2>2
  <2>3. CASE u.pb = 0
    BY <1>1, <1>2, <1>6, <2>1, <2>3
  <2> QED
    BY <2>2, <2>3
<1>8. Len(mb'.mem) >= poffset(mb) + Len(str)
  BY <1>1, <1>2, <1>6
<1>9. Text!Written(str)
  BY <1>2, <1>4, <1>5, <1>7, <1>8 DEF Text!Written, Cell
<1> QED
  BY <1>2, <1>3, <1>5, <1>9 DEF SameKind

(* Growing keeps the text and the positions.                               *)
LEMMA GrownText ==
    ASSUME Inv, NEW n \in Nat, NEW b \in Blocks, "out" \in mb.mode
    PROVE  LET u == m_grow(mb, n, b) IN
           /\ u \in State /\ InOrder(u) /\ SameKind(mb, u) /\ u.own /\ u.block = b
           /\ u.gn = mb.gn /\ u.pb = mb.pb /\ u.pn = mb.pn
           /\ u.pe = GrownSize(mb, n) /\ u.pe >= n /\ u.pb = 0
           /\ Len(u.mem) >= Len(mb.mem)
           /\ \A i \in 1 .. Len(mb.mem) : u.mem[i] = mb.mem[i]
<1> DEFINE u == m_grow(mb, n, b)
           size == GrownSize(mb, n)
<1>1. mb \in State /\ InOrder(mb) /\ mb.pe = Len(mb.mem) /\ mb.pe \in Nat /\ mb.pb = 0
  BY Positions DEF Inv, Ends, InOrder
<1>2. size \in Nat /\ size >= n /\ size >= mb.pe
  BY <1>1, GrownSizeBounds
<1>3. /\ u \in State /\ SameKind(mb, u) /\ u.own /\ u.block = b
      /\ u.mem = Copied(mb, size) /\ u.pe = size /\ u.gn = mb.gn /\ u.pn = mb.pn /\ u.pb = 0
      /\ u.ge = (IF "in" \in mb.mode THEN u.pe ELSE 0)
  BY <1>1, GrowFields
<1> HIDE DEF u, size
<1>4. u.mem \in Seq(Cell) /\ Len(u.mem) = size /\ \A i \in 1 .. Len(mb.mem) : u.mem[i] = mb.mem[i]
  <2>1. u.mem \in Seq(Cell)
    BY <1>3 DEF State, Cell
  <2>2. u.mem = [i \in 1 .. size |-> IF i <= mb.pe THEN mb.mem[i] ELSE Junk]
    BY <1>3 DEF Copied
  <2>3. Len(u.mem) = size
    BY <1>2, <2>1, <2>2
  <2> QED
    BY <1>1, <1>2, <2>1, <2>2, <2>3
<1>5. InOrder(u)
  <2>1. mb.gn <= mb.ge /\ mb.pn <= mb.pe /\ mb.ge = (IF "in" \in mb.mode THEN mb.pe ELSE 0)
    BY <1>1 DEF InOrder
  <2>2. mb.gn \in Nat /\ mb.pn \in Nat
    BY <1>1 DEF State
  <2> QED
    BY <1>1, <1>2, <1>3, <1>4, <2>1, <2>2 DEF InOrder, SameKind
<1> QED
  BY <1>1, <1>2, <1>3, <1>4, <1>5 DEF u, size

LEMMA PutStep ==
    ASSUME Inv, NEW c, NEW str \in Seq(Char), NEW size \in Nat, size >= psize(mb) + Len(str),
           Put(c, str, size)
    PROVE  Inv' /\ KeepsBlocks /\ Text!Put(c, str)
<1>1. str \in Seq(Cell) /\ Len(str) \in Nat
  BY DEF Cell
<1>2. mb.kind # "none" /\ call' = c
  BY DEF Put, Finish, Exists
<1>3. mb \in State /\ InOrder(mb) /\ SameKind(mb, mb)
  BY DEF Inv, TypeOK, Ends, SameKind
<1>4. /\ mb.pn \in Nat /\ mb.pb \in Nat /\ mb.pe \in Nat /\ mb.pb <= mb.pn /\ mb.pn <= mb.pe
      /\ mb.pb = IF "out" \in mb.mode THEN 0 ELSE mb.pe
  BY <1>3 DEF State, InOrder
<1>5. CASE /\ mb.kind = "dynamic" /\ "out" \in mb.mode /\ mb.pn + Len(str) <= mb.pe
           /\ mb' = Store(mb, str) /\ ret' = Ret(str, Len(str)) /\ heap' = heap
  <2>1. /\ mb' \in State /\ InOrder(mb') /\ SameKind(mb, mb')
        /\ mb'.own = mb.own /\ mb'.block = mb.block /\ mb'.pe = mb.pe
        /\ goffset(mb)' = goffset(mb) /\ Text!Written(str)
    BY <1>1, <1>3, <1>4, <1>5, StoredText, Positions
  <2>2. Inv' /\ KeepsBlocks
    BY <1>5, <2>1 DEF Inv, TypeOK, Ends, OwnsItsBlock, Owns, SameKind, KeepsBlocks
  <2> QED
    BY <1>2, <1>5, <2>1, <2>2 DEF Text!Put, Text!Ret, Ret, SameKind
<1>6. CASE /\ mb.kind = "dynamic" /\ "out" \in mb.mode /\ mb.pn + Len(str) > mb.pe
           /\ mb' = mb /\ heap' = heap /\ ret' = Ret(<<>>, -1)
  <2>1. Inv' /\ KeepsBlocks /\ goffset(mb)' = goffset(mb) /\ poffset(mb)' = poffset(mb)
    BY <1>6 DEF Inv, TypeOK, Ends, OwnsItsBlock, KeepsBlocks, goffset, poffset
  <2>2. poffset(mb) + Len(str) > Len(mb.mem)
    BY <1>4, <1>6, Positions
  <2> QED
    BY <1>2, <1>6, <2>1, <2>2 DEF Text!Put, Text!Fail, Text!Ret, Ret
<1>7. ASSUME mb.kind = "dynamic", "out" \in mb.mode, mb.pn + Len(str) > mb.pe,
             NEW b \in Blocks \ DOMAIN heap,
             mb' = Store(m_grow(mb, size, b), str), ret' = Ret(str, Len(str)),
             heap' = [x \in (DOMAIN heap \ Freed(mb)) \cup {b} |->
                         IF x = b THEN GrownSize(mb, size) ELSE heap[x]]
      PROVE  Inv' /\ KeepsBlocks /\ Text!Put(c, str)
  <2> DEFINE u == m_grow(mb, size, b)
  <2>1. /\ u \in State /\ InOrder(u) /\ SameKind(mb, u) /\ u.own /\ u.block = b
        /\ u.gn = mb.gn /\ u.pb = mb.pb /\ u.pn = mb.pn
        /\ u.pe = GrownSize(mb, size) /\ u.pe >= size /\ u.pb = 0
        /\ Len(u.mem) >= Len(mb.mem) /\ \A i \in 1 .. Len(mb.mem) : u.mem[i] = mb.mem[i]
    BY <1>7, GrownText
  <2>2. u.pn + Len(str) <= u.pe
    BY <1>1, <1>4, <1>7, <2>1 DEF psize, State
  <2>3. mb' = Store(u, str)
    BY <1>7
  <2> HIDE DEF u
  <2>4. /\ mb' \in State /\ InOrder(mb') /\ SameKind(mb, mb')
        /\ mb'.own = u.own /\ mb'.block = u.block /\ mb'.pe = u.pe
        /\ goffset(mb)' = goffset(mb) /\ Text!Written(str)
    BY <1>1, <2>1, <2>2, <2>3, StoredText
  <2>5. GrownSize(mb, size) \in Nat
    BY <1>3, GrownSizeBounds
  <2>6. DOMAIN heap' = (DOMAIN heap \ {mb.block}) \cup {b} /\ heap'[b] = GrownSize(mb, size)
    BY <1>7, FreedBlocks
  <2>7. heap' \in [DOMAIN heap' -> Nat]
    BY <1>7, <2>5 DEF Inv, TypeOK
  <2>8. Inv'
    BY <1>7, <2>1, <2>4, <2>6, <2>7, FreedBlocks, MemoryAssumption
       DEF Inv, TypeOK, Ends, OwnsItsBlock, Owns, SameKind
  <2>9. KeepsBlocks
    BY <1>7, <2>1, <2>4, <2>6 DEF KeepsBlocks
  <2> QED
    BY <1>2, <1>7, <2>4, <2>8, <2>9 DEF Text!Put, Text!Ret, Ret, SameKind
<1>8. CASE /\ mb.kind = "basic" \/ "out" \notin mb.mode
           /\ mb' = Store(mb, Fitting(mb, str)) /\ heap' = heap
           /\ ret' = Ret(Fitting(mb, str), Len(Fitting(mb, str)))
  <2> DEFINE m == Min2(Len(str), mb.pe - mb.pn)
             some == Fitting(mb, str)
  <2>1. m \in Nat /\ m <= Len(str) /\ m <= mb.pe - mb.pn
    BY <1>1, <1>4 DEF Min2
  <2>2. some = SubSeq(str, 1, m)
    BY DEF Fitting
  <2>3. \A i \in 1 .. m : str[i] \in Cell
    BY <1>1, <2>1
  <2> HIDE DEF m
  <2>4. some \in Seq(Cell) /\ Len(some) = m
    BY <2>1, <2>2, <2>3, SubSeqProperties
  <2>5. mb.pb = 0 \/ m = 0
    BY <1>4, <2>1
  <2>6. /\ mb' \in State /\ InOrder(mb') /\ SameKind(mb, mb')
        /\ mb'.own = mb.own /\ mb'.block = mb.block /\ mb'.pe = mb.pe
        /\ goffset(mb)' = goffset(mb) /\ Len(mb'.mem) = Len(mb.mem) /\ Text!Written(some)
    <3>1. mb.pn + Len(some) <= mb.pe /\ (mb.pb = 0 \/ Len(some) = 0)
      BY <1>4, <2>1, <2>4, <2>5
    <3> QED
      BY <1>3, <1>8, <2>4, <3>1, StoredText, Positions
  <2>7. Inv' /\ KeepsBlocks
    BY <1>8, <2>6 DEF Inv, TypeOK, Ends, OwnsItsBlock, Owns, SameKind, KeepsBlocks
  <2>8. Text!Min2(Len(str), Text!Writable - poffset(mb)) = m
    <3>1. Text!Writable - poffset(mb) = mb.pe - mb.pn
      BY <1>4, Positions
    <3> QED
      BY <3>1 DEF Text!Min2, Min2, m
  <2> QED
    BY <1>2, <1>8, <2>2, <2>6, <2>7, <2>8 DEF Text!Put, Text!Ret, Ret, SameKind
<1> QED
  BY <1>5, <1>6, <1>7, <1>8 DEF Put, Finish

LEMMA TargetBounds ==
    ASSUME NEW way \in {"beg", "cur", "end"}, NEW off \in Int, NEW pos \in Nat, NEW size \in Nat
    PROVE  /\ Target(way, off, pos, size) \in 0 .. size
           /\ Target(way, off, pos, size) = Text!Target(way, off, pos, size)
           /\ way = "cur" /\ off = 0 /\ pos <= size => Target(way, off, pos, size) = pos
<1>1. CASE way = "beg"
  BY <1>1 DEF Target, Clamp, Text!Target
<1>2. CASE way = "cur"
  BY <1>2 DEF Target, Clamp, Text!Target
<1>3. CASE way = "end"
  BY <1>3 DEF Target, Clamp, Text!Target
<1> QED
  BY <1>1, <1>2, <1>3

LEMMA SeekStep ==
    ASSUME Inv, NEW way \in {"beg", "cur", "end"}, NEW off \in Int,
           NEW which \in {{"in"}, {"out"}, {"in", "out"}}, Seek(way, off, which)
    PROVE  Inv' /\ KeepsBlocks /\ Text!Seek(way, off, which)
<1> DEFINE g == Target(way, off, goffset(mb), mb.ge)
           p == Target(way, off, poffset(mb), PutSize(mb))
           toG == IF "in" \in which THEN g ELSE mb.gn
           toP == IF "out" \in which THEN mb.pb + p ELSE mb.pn
           still == "in" \in which /\ way = "cur" /\ off = 0
<1>1. /\ mb \in State /\ mb.ge \in Nat /\ mb.gn \in 0 .. mb.ge /\ goffset(mb) = mb.gn
      /\ mb.pb \in Nat /\ mb.pn \in mb.pb .. mb.pe /\ PutSize(mb) = mb.pe - mb.pb
      /\ mb.pe \in Nat /\ mb.pb <= mb.pe /\ poffset(mb) = mb.pn - mb.pb
      /\ poffset(mb) \in Nat /\ PutSize(mb) \in Nat /\ poffset(mb) <= PutSize(mb)
  <2>1. mb \in State /\ InOrder(mb)
    BY DEF Inv, TypeOK, Ends
  <2> QED
    BY <2>1, Positions DEF State, InOrder, PutSize
<1>2. g \in 0 .. mb.ge /\ g = Text!Target(way, off, goffset(mb), Text!Readable)
      /\ (still => g = mb.gn)
  <2>1. goffset(mb) \in Nat /\ mb.ge \in Nat /\ goffset(mb) <= mb.ge
    BY <1>1
  <2>2. g \in 0 .. mb.ge
    BY <2>1, TargetBounds
  <2>3. g = Text!Target(way, off, goffset(mb), mb.ge)
    BY <2>1, TargetBounds, ZenonT(30)
  <2>4. way = "cur" /\ off = 0 /\ goffset(mb) <= mb.ge => g = goffset(mb)
    BY <2>1, TargetBounds
  <2> QED
    BY <1>1, <2>1, <2>2, <2>3, <2>4, Positions
<1>3. p \in 0 .. PutSize(mb) /\ p = Text!Target(way, off, poffset(mb), Text!Writable)
      /\ (still => p = poffset(mb))
  <2>1. PutSize(mb) = Text!Writable
    BY <1>1, Positions
  <2>2. poffset(mb) \in Nat /\ PutSize(mb) \in Nat
    BY <1>1
  <2>3. p \in 0 .. PutSize(mb)
    BY <2>2, TargetBounds
  <2>4. p = Text!Target(way, off, poffset(mb), PutSize(mb))
    BY <2>2, TargetBounds, ZenonT(30)
  <2>5. way = "cur" /\ off = 0 /\ poffset(mb) <= PutSize(mb) => p = poffset(mb)
    BY <2>2, TargetBounds
  <2> QED
    BY <1>1, <2>1, <2>3, <2>4, <2>5
<1>4. mb.kind # "none" /\ heap' = heap /\ call' = <<"seek", way, off>>
  BY DEF Seek, Finish, Exists
<1>5. /\ still => mb' = mb /\ ret' = Ret(<<>>, goffset(mb))
      /\ ~still => /\ mb' = LET s == IF "in" \in which THEN [mb EXCEPT !.gn = g] ELSE mb
                            IN  IF "out" \in which THEN [s EXCEPT !.pn = mb.pb + p] ELSE s
                   /\ ret' = Ret(<<>>, IF "out" \in which THEN p ELSE g)
  BY DEF Seek, Finish
<1> HIDE DEF g, p, still
<1>6. toG \in 0 .. mb.ge /\ toP \in mb.pb .. mb.pe
  BY <1>1, <1>2, <1>3
<1>7. mb' = [mb EXCEPT !.gn = toG, !.pn = toP]
  <2>1. CASE still
    <3>1. toG = mb.gn /\ toP = mb.pn
      BY <1>1, <1>2, <1>3, <2>1
    <3> QED
      BY <1>5, <2>1, <3>1, Positions
  <2>2. CASE ~still
    BY <1>1, <1>5, <2>2, ZenonT(30) DEF State
  <2> QED
    BY <2>1, <2>2
<1>8. Moved(toG, toP)
  BY <1>4, <1>7 DEF Moved
<1>9. /\ Inv' /\ KeepsBlocks /\ goffset(mb)' = toG /\ poffset(mb)' = toP - mb.pb
      /\ mb'.mem = mb.mem /\ SameKind(mb, mb')
  BY <1>6, <1>8, MovedKeeps
<1>10. /\ goffset(mb)' = IF "in" \in which THEN g ELSE goffset(mb)
       /\ poffset(mb)' = IF "out" \in which THEN p ELSE poffset(mb)
  BY <1>1, <1>3, <1>9
<1>11. ret' \in {Ret(<<>>, q) : q \in (IF "in" \in which THEN {goffset(mb)'} ELSE {})
                                    \cup (IF "out" \in which THEN {poffset(mb)'} ELSE {})}
  <2>1. CASE still
    <3>1. "in" \in which /\ goffset(mb)' = goffset(mb)
      BY <1>1, <1>2, <1>10, <2>1 DEF still
    <3> QED
      BY <1>5, <2>1, <3>1
  <2>2. CASE ~still
    BY <1>5, <1>10, <2>2
  <2> QED
    BY <2>1, <2>2
<1>12. Text!Seek(way, off, which)
  BY <1>2, <1>3, <1>4, <1>9, <1>10, <1>11 DEF Text!Seek, Text!Ret, Ret, SameKind
<1> QED
  BY <1>9, <1>12

-----------------------------------------------------------------------------
LEMMA NextStep ==
    ASSUME Inv, Next
    PROVE  Inv' /\ (KeepsBlocks \/ call' = <<"end">>) /\ Text!Next
<1>1. CASE \E kind \in {"basic", "dynamic"}, mode \in Modes : Construct(kind, mode)
  BY <1>1, ConstructStep DEF Text!Next
<1>2. CASE Destroy
  BY <1>2, DestroyStep DEF Text!Next
<1>3. CASE \E t \in Texts : SetBuf(t)
  BY <1>3, SetBufStep DEF Text!Next
<1>4. CASE Read(<<"sgetc">>, 1, 0)
  BY <1>4, ReadStep DEF Text!Next
<1>5. CASE Read(<<"sbumpc">>, 1, 1)
  BY <1>5, ReadStep DEF Text!Next
<1>6. CASE \E n \in Lengths : Read(<<"sgetn", n>>, n, 1)
  BY <1>6, ReadStep, MemoryAssumption DEF Text!Next
<1>7. CASE Back(<<"sungetc">>, Char \cup {Junk})
  BY <1>7, BackStep DEF Text!Next
<1>8. CASE \E c \in Char : Back(<<"sputbackc", c>>, {c})
  BY <1>8, BackStep DEF Text!Next
<1>9. CASE \E c \in Char : Sputc(c)
  <2>1. PICK c \in Char : Put(<<"sputc", c>>, <<c>>, psize(mb) + GROW_SIZE)
    BY <1>9 DEF Sputc
  <2>2. /\ <<c>> \in Seq(Char) /\ Len(<<c>>) = 1 /\ psize(mb) \in Nat /\ psize(mb) = poffset(mb)
        /\ psize(mb) + GROW_SIZE \in Nat /\ psize(mb) + GROW_SIZE >= psize(mb) + Len(<<c>>)
    BY Positions, MemoryAssumption DEF psize
  <2>3. Inv' /\ KeepsBlocks /\ Text!Put(<<"sputc", c>>, <<c>>)
    BY <2>1, <2>2, PutStep
  <2> QED
    BY <2>3 DEF Text!Next
<1>10. CASE \E c \in Strings : Sputn(c)
  <2>1. PICK c \in Strings : Put(<<"sputn", c>>, c, psize(mb) + Len(c) + GROW_SIZE)
    BY <1>10 DEF Sputn
  <2>2. c \in Seq(Char) /\ Len(c) \in Nat /\ psize(mb) \in Nat
    BY Positions, MemoryAssumption DEF psize
  <2>3. /\ psize(mb) + Len(c) + GROW_SIZE \in Nat
        /\ psize(mb) + Len(c) + GROW_SIZE >= psize(mb) + Len(c)
    BY <2>2, MemoryAssumption
  <2>4. Inv' /\ KeepsBlocks /\ Text!Put(<<"sputn", c>>, c)
    BY <2>1, <2>2, <2>3, PutStep
  <2> QED
    BY <2>4 DEF Text!Next
<1>11. CASE \E way \in {"beg", "cur", "end"}, off \in Offsets,
               which \in {{"in"}, {"out"}, {"in", "out"}} : Seek(way, off, which)
  <2>1. PICK way \in {"beg", "cur", "end"}, off \in Offsets,
             which \in {{"in"}, {"out"}, {"in", "out"}} : Seek(way, off, which)
    BY <1>11
  <2>2. off \in Int
    BY MemoryAssumption
  <2>3. Inv' /\ KeepsBlocks /\ Text!Seek(way, off, which)
    BY <2>1, <2>2, SeekStep, Zenon
  <2> QED
    BY <2>3 DEF Text!Next
<1> QED
  BY <1>1, <1>2, <1>3, <1>4, <1>5, <1>6, <1>7, <1>8, <1>9, <1>10, <1>11 DEF Next

LEMMA StutterStep ==
    ASSUME Inv, UNCHANGED vars
    PROVE  Inv' /\ KeepsBlocks
           /\ UNCHANGED <<mb.kind, mb.mode, mb.mem, goffset(mb), poffset(mb), call, ret>>
BY DEF Inv, TypeOK, Ends, OwnsItsBlock, KeepsBlocks, vars, goffset, poffset

THEOREM Invariance == Spec => []Inv
<1>1. Init => Inv
  BY InitialState DEF Inv
<1>2. Inv /\ [Next]_vars => Inv'
  BY NextStep, StutterStep
<1> QED
  BY <1>1, <1>2, PTL DEF Spec

(* The variables keep their types.                                         *)
THEOREM TypeCorrect == Spec => []TypeOK
BY Invariance, PTL DEF Inv

(* eback() and epptr() always are the ends of the block, and the positions *)
(* are between them.                                                       *)
THEOREM AlwaysTheEnds == Spec => []Ends
BY Invariance, PTL DEF Inv

(* A block is freed by its owner, once, with its size, and not used later. *)
THEOREM AlwaysOwned == Spec => []OwnsItsBlock
BY Invariance, PTL DEF Inv

(* Only the end of a buffer loses its block.                               *)
THEOREM LeaksAtEndOnly == Spec => OnlyEndLeaks
<1>1. Inv /\ [Next]_vars =>
        [DOMAIN heap' \ {mb'.block} = DOMAIN heap \ {mb.block} \/ call' = <<"end">>]_vars
  BY NextStep DEF KeepsBlocks
<1> QED
  BY <1>1, Invariance, PTL DEF OnlyEndLeaks, Spec

(* MemoryBuf implements MemoryStream: initial states are mapped to initial *)
(* states, and every step to a step or to none.                            *)
THEOREM Implements == Spec => StreamSpec
<1>1. Init => Text!Init
  BY DEF Init, Text!Init, NoBuffer, Text!Ret, Ret, goffset, poffset
<1>2. Inv /\ [Next]_vars => [Text!Next]_(Text!vars)
  BY NextStep, StutterStep DEF Text!vars
<1> QED
  BY <1>1, <1>2, Invariance, PTL DEF Spec, StreamSpec, Text!Spec
=============================================================================
