---------------------------- MODULE FileBuf_proof ---------------------------
(***************************************************************************)
(* FileBuf, for every buffer size, file length, character set and device.  *)
(* First the pointer discipline: each private member of the filebuf        *)
(* preserves it, and so does each public call.  Then what the calls do to  *)
(* the file: sync() skips no input, and a call that loses output says so.  *)
(* Last, and with all of this, FileBuf implements FileStream.              *)
(***************************************************************************)
EXTENDS FileBuf, SequenceTheorems, TLAPS

(* What a member function needs, and what a public call also restores.     *)
Good(s)  == s \in State /\ Bounds(s) /\ InputMode(s) /\ Initialised(s)
Sound(s) == Good(s) /\ Apart(s)
SameMode(s, t) == t.open = s.open /\ t.mode = s.mode

Text == Seq(Char \cup {Hole})

LEMMA FirstType ==
    ASSUME NEW S, NEW q \in Seq(S), NEW n \in Nat
    PROVE  /\ First(q, n) \in Seq(S) /\ Len(First(q, n)) = Min2(n, Len(q))
           /\ \A i \in 1 .. Len(First(q, n)) : First(q, n)[i] = q[i]
<1>1. Min2(n, Len(q)) \in Nat /\ Min2(n, Len(q)) <= Len(q)
  BY DEF Min2
<1>2. \A i \in 1 .. Min2(n, Len(q)) : q[i] \in S
  BY <1>1
<1>3. /\ SubSeq(q, 1, Min2(n, Len(q))) \in Seq(S)
      /\ Len(SubSeq(q, 1, Min2(n, Len(q)))) =
            IF 1 <= Min2(n, Len(q)) THEN Min2(n, Len(q)) - 1 + 1 ELSE 0
      /\ \A i \in 1 .. Min2(n, Len(q)) - 1 + 1 :
            SubSeq(q, 1, Min2(n, Len(q)))[i] = q[1 + i - 1]
  BY <1>1, <1>2, SubSeqProperties
<1> QED
  BY <1>1, <1>3 DEF First

LEMMA AvailableType ==
    ASSUME NEW s \in State, NEW n \in Nat
    PROVE  /\ Available(s, n) \in Text /\ Len(Available(s, n)) <= n
<1>1. s.file \in Text /\ s.fpos \in Nat
  BY DEF State, Text
<1>2. CASE ~readable \/ s.fpos >= Len(s.file)
  BY <1>1, <1>2 DEF Available, Text
<1>3. CASE readable /\ s.fpos < Len(s.file)
  <2> DEFINE m == Min2(s.fpos + n, Len(s.file))
  <2>1. m \in Nat /\ m <= Len(s.file) /\ m <= s.fpos + n
    BY <1>1 DEF Min2, Text
  <2>2. \A i \in s.fpos + 1 .. m : s.file[i] \in Char \cup {Hole}
    BY <1>1, <2>1 DEF Text
  <2>3. /\ SubSeq(s.file, s.fpos + 1, m) \in Seq(Char \cup {Hole})
        /\ Len(SubSeq(s.file, s.fpos + 1, m)) =
              IF s.fpos + 1 <= m THEN m - (s.fpos + 1) + 1 ELSE 0
    BY <1>1, <2>1, <2>2, SubSeqProperties
  <2> QED
    BY <1>1, <1>3, <2>1, <2>3 DEF Available, Text
<1> QED
  BY <1>1, <1>2, <1>3 DEF Text

LEMMA WriteAtType ==
    ASSUME NEW f \in Text, NEW at \in Nat, NEW c \in Text
    PROVE  WriteAt(f, at, c) \in Text
<1> DEFINE end == at + Len(c)
           m == IF end > Len(f) THEN end ELSE Len(f)
<1>1. m \in Nat /\ end \in Nat
  BY DEF Text
<1>2. \A i \in 1 .. m : (IF i > at /\ i <= end THEN c[i - at]
                         ELSE IF i <= Len(f) THEN f[i] ELSE Hole) \in Char \cup {Hole}
  <2> SUFFICES ASSUME NEW i \in 1 .. m
               PROVE  (IF i > at /\ i <= end THEN c[i - at]
                       ELSE IF i <= Len(f) THEN f[i] ELSE Hole) \in Char \cup {Hole}
    OBVIOUS
  <2>1. CASE i > at /\ i <= end
    BY <1>1, <2>1 DEF Text
  <2>2. CASE ~(i > at /\ i <= end)
    BY <1>1, <2>2 DEF Text
  <2> QED
    BY <2>1, <2>2
<1>3. [i \in 1 .. m |-> IF i > at /\ i <= end THEN c[i - at]
                        ELSE IF i <= Len(f) THEN f[i] ELSE Hole] \in Text
  BY <1>1, <1>2 DEF Text
<1> QED
  BY <1>3 DEF WriteAt
(* The assignments: each stays in State and leaves the other fields alone. *)
SameFile(s, t) == t.file = s.file /\ t.fpos = s.fpos
SameGet(s, t)  == t.area = s.area /\ t.gn = s.gn /\ t.ge = s.ge
SamePut(s, t)  == t.pn = s.pn /\ t.pe = s.pe
SameMem(s, t)  == t.mem = s.mem /\ t.cur = s.cur /\ t.pb = s.pb

GetSet(s, t, area, gn, ge) ==
    /\ t \in State /\ t.area = area /\ t.gn = gn /\ t.ge = ge
    /\ SameFile(s, t) /\ SameMode(s, t) /\ SamePut(s, t) /\ SameMem(s, t)

LEMMA SetGFields ==
    ASSUME NEW s \in State, NEW area \in {"buf", "pb"}, NEW gn \in Nat, NEW ge \in Nat
    PROVE  GetSet(s, SetG(s, area, gn, ge), area, gn, ge)
BY DEF GetSet, SetG, State, SameFile, SameMode, SamePut, SameMem

PutSet(s, t, pn, pe) ==
    /\ t \in State /\ t.pn = pn /\ t.pe = pe
    /\ SameFile(s, t) /\ SameMode(s, t) /\ SameGet(s, t) /\ SameMem(s, t)

LEMMA SetPFields ==
    ASSUME NEW s \in State, NEW pn \in Nat, NEW pe \in Nat
    PROVE  PutSet(s, SetP(s, pn, pe), pn, pe)
BY DEF PutSet, SetP, State, SameFile, SameMode, SameGet, SameMem

LEMMA SetCurFields ==
    ASSUME NEW s \in State, NEW cur \in Nat
    PROVE  LET t == SetCur(s, cur) IN
           /\ t \in State /\ t.cur = cur /\ t.mem = s.mem /\ t.pb = s.pb
           /\ SameFile(s, t) /\ SameMode(s, t) /\ SameGet(s, t) /\ SamePut(s, t)
BY DEF SetCur, State, SameFile, SameMode, SameGet, SamePut

LEMMA SetMemFields ==
    ASSUME NEW s \in State, NEW mem \in Seq(Char \cup {Hole, Junk})
    PROVE  LET t == SetMem(s, mem) IN
           /\ t \in State /\ t.mem = mem /\ t.cur = s.cur /\ t.pb = s.pb
           /\ SameFile(s, t) /\ SameMode(s, t) /\ SameGet(s, t) /\ SamePut(s, t)
BY DEF SetMem, State, SameFile, SameMode, SameGet, SamePut

LEMMA SetPbFields ==
    ASSUME NEW s \in State, NEW c \in Char \cup {Hole, Junk}
    PROVE  LET t == SetPb(s, c) IN
           /\ t \in State /\ t.pb = c /\ t.mem = s.mem /\ t.cur = s.cur
           /\ SameFile(s, t) /\ SameMode(s, t) /\ SameGet(s, t) /\ SamePut(s, t)
BY DEF SetPb, State, SameFile, SameMode, SameGet, SamePut

LEMMA SetFileFields ==
    ASSUME NEW s \in State, NEW file \in Text, NEW fpos \in Nat
    PROVE  LET t == SetFile(s, file, fpos) IN
           /\ t \in State /\ t.file = file /\ t.fpos = fpos
           /\ SameMode(s, t) /\ SameGet(s, t) /\ SamePut(s, t) /\ SameMem(s, t)
BY DEF SetFile, State, SameMode, SameGet, SamePut, SameMem, Text

LEMMA SetModeFields ==
    ASSUME NEW s \in State, NEW open \in BOOLEAN, NEW mode \in Modes \cup {{}}
    PROVE  LET t == SetMode(s, open, mode) IN
           /\ t \in State /\ t.open = open /\ t.mode = mode
           /\ SameFile(s, t) /\ SameGet(s, t) /\ SamePut(s, t) /\ SameMem(s, t)
BY DEF SetMode, State, SameFile, SameGet, SamePut, SameMem
(* What a member does to nothing but the file leaves the stream Good.      *)
SameBuffer(s, t) == SameMode(s, t) /\ SameGet(s, t) /\ SamePut(s, t) /\ SameMem(s, t)

LEMMA SameBufferGood ==
    ASSUME NEW s, NEW t \in State, SameBuffer(s, t), Good(s)
    PROVE  Good(t) /\ (Apart(s) => Apart(t))
BY DEF SameBuffer, SameMode, SameGet, SamePut, SameMem, Good, Bounds, InputMode,
       Initialised, Apart

LEMMA WriteFileSound ==
    ASSUME NEW s \in State, NEW c \in Seq(Char), limit \in Nat
    PROVE  /\ WriteFile(s, c) \in State /\ SameBuffer(s, WriteFile(s, c))
           /\ Taken(s, c) \in 0 .. Len(c)
<1> DEFINE n == Taken(s, c)
           at == IF "app" \in s.mode THEN Len(s.file) ELSE s.fpos
           part == SubSeq(c, 1, n)
<1>1. s.file \in Text /\ s.fpos \in Nat /\ at \in Nat
  BY DEF State, Text
<1>2. n \in 0 .. Len(c)
  BY DEF Taken, Min2
<1>3. part \in Text
  <2>1. \A i \in 1 .. n : c[i] \in Char \cup {Hole}
    BY <1>2
  <2> QED
    BY <1>2, <2>1, SubSeqProperties DEF Text
<1>4. WriteAt(s.file, at, part) \in Text
  BY <1>1, <1>3, WriteAtType
<1>5. CASE n = 0
  BY <1>2, <1>5 DEF WriteFile, SameBuffer, SameMode, SameGet, SamePut, SameMem
<1>6. CASE n # 0
  <2>1. WriteFile(s, c) = SetFile(s, WriteAt(s.file, at, part), at + n)
    BY <1>6 DEF WriteFile
  <2>2. at + n \in Nat
    BY <1>1, <1>2
  <2> QED
    BY <1>2, <1>4, <2>1, <2>2, SetFileFields DEF SameBuffer
<1> QED
  BY <1>5, <1>6

LEMMA SeekFileSound ==
    ASSUME NEW s \in State, NEW base \in Nat, NEW off \in Int
    PROVE  SeekFile(s, base, off) \in State /\ SameBuffer(s, SeekFile(s, base, off))
<1>1. CASE base + off >= 0
  <2>1. base + off \in Nat /\ s.file \in Text
    BY <1>1 DEF State, Text
  <2> QED
    BY <1>1, <2>1, SetFileFields DEF SeekFile, SameBuffer
<1>2. CASE ~(base + off >= 0)
  BY <1>2 DEF SeekFile, SameBuffer, SameMode, SameGet, SamePut, SameMem
<1> QED
  BY <1>1, <1>2

LEMMA PendingType ==
    ASSUME NEW s, Good(s)
    PROVE  Pending(s) \in Seq(Char) /\ Len(Pending(s)) = s.pn
<1>1. s.pn \in Nat /\ s.mem \in Seq(Char \cup {Hole, Junk})
  BY DEF Good, State
<1>2. \A i \in 1 .. s.pn : s.mem[i] \in Char
  BY DEF Good, Initialised
<1>3. /\ SubSeq(s.mem, 1, s.pn) \in Seq(Char)
      /\ Len(SubSeq(s.mem, 1, s.pn)) = IF 1 <= s.pn THEN s.pn - 1 + 1 ELSE 0
  BY <1>1, <1>2, SubSeqProperties
<1> QED
  BY <1>1, <1>3 DEF Pending

LEMMA WritePendingSound ==
    ASSUME NEW s, Good(s), limit \in Nat
    PROVE  /\ Good(WriteFile(s, Pending(s))) /\ SameBuffer(s, WriteFile(s, Pending(s)))
BY PendingType, WriteFileSound, SameBufferGood DEF Good

-----------------------------------------------------------------------------
(* The private members.                                                    *)

(* m_init() forgets both areas, whatever they were.                        *)
LEMMA InitSound ==
    ASSUME NEW s \in State
    PROVE  LET t == m_init(s) IN
           /\ Sound(t) /\ SameMode(s, t) /\ t.mem = s.mem
           /\ t.area = "buf" /\ t.ge = 0 /\ t.pn = 0 /\ t.cur = 0
<1> DEFINE a == SetCur(s, 0)
           b == SetG(a, "buf", 0, 0)
           pe == IF "out" \in s.mode THEN Size(s) ELSE 0
           t == SetP(b, 0, pe)
<1>1. m_init(s) = t
  BY DEF m_init
<1>2. pe \in Nat /\ pe <= Len(s.mem)
  BY DEF Size, State
<1>3. a \in State /\ a.cur = 0 /\ a.mem = s.mem /\ SameMode(s, a)
  BY SetCurFields
<1> HIDE DEF a, pe
<1>4. /\ b \in State /\ b.area = "buf" /\ b.gn = 0 /\ b.ge = 0
      /\ SameMode(a, b) /\ SameMem(a, b)
  BY <1>3, SetGFields DEF GetSet
<1> HIDE DEF b
<1>5. /\ t \in State /\ t.pn = 0 /\ t.pe = pe
      /\ SameMode(b, t) /\ SameGet(b, t) /\ SameMem(b, t)
  BY <1>2, <1>4, SetPFields DEF PutSet
<1> HIDE DEF t
<1>6. /\ t.area = "buf" /\ t.gn = 0 /\ t.ge = 0 /\ t.cur = 0 /\ t.mem = s.mem
      /\ SameMode(s, t)
  BY <1>3, <1>4, <1>5 DEF SameMode, SameGet, SameMem
<1>7. Sound(t)
  BY <1>2, <1>5, <1>6 DEF Sound, Good, Bounds, InputMode, Initialised, Apart, State
<1> QED
  BY <1>1, <1>5, <1>6, <1>7

LEMMA FlushInputSound ==
    ASSUME NEW s, Good(s)
    PROVE  LET t == m_flush_input(s) IN
           /\ Sound(t) /\ SameMode(s, t) /\ SamePut(s, t) /\ t.mem = s.mem
           /\ t.area = "buf" /\ t.ge = 0 /\ t.cur = 0
<1> DEFINE a == SeekFile(s, s.fpos, -m_input_size(s))
           b == SetCur(a, 0)
           t == SetG(b, "buf", 0, 0)
<1>1. m_flush_input(s) = t
  BY DEF m_flush_input
<1>2. -m_input_size(s) \in Int /\ s.fpos \in Nat /\ s \in State
  BY DEF m_input_size, Good, State
<1>3. a \in State /\ SameBuffer(s, a)
  BY <1>2, SeekFileSound
<1> HIDE DEF a
<1>4. b \in State /\ b.cur = 0 /\ b.mem = a.mem /\ SameMode(a, b) /\ SamePut(a, b)
  BY <1>3, SetCurFields
<1> HIDE DEF b
<1>5. /\ t \in State /\ t.area = "buf" /\ t.gn = 0 /\ t.ge = 0
      /\ SameMode(b, t) /\ SamePut(b, t) /\ SameMem(b, t)
  BY <1>4, SetGFields DEF GetSet
<1> HIDE DEF t
<1>6. t.cur = 0 /\ t.mem = s.mem /\ SameMode(s, t) /\ SamePut(s, t)
  BY <1>3, <1>4, <1>5 DEF SameBuffer, SameMode, SamePut, SameMem
<1>7. Sound(t)
  BY <1>2, <1>5, <1>6
     DEF Sound, Good, Bounds, InputMode, Initialised, Apart, State, SamePut
<1> QED
  BY <1>1, <1>5, <1>6, <1>7

(* m_sync() ends either direction, even in a state where a put area was    *)
(* set up over unread input, as overflow() does.                           *)
LEMMA SyncSound ==
    ASSUME NEW s, Good(s), limit \in Nat
    PROVE  LET t == m_sync(s) IN
           /\ Sound(t) /\ SameMode(s, t) /\ Len(t.mem) = Len(s.mem)
           /\ t.area = "buf" /\ t.ge = 0 /\ t.pn = 0 /\ t.cur = 0
<1> SUFFICES /\ Sound(m_sync(s)) /\ SameMode(s, m_sync(s)) /\ m_sync(s).mem = s.mem
             /\ m_sync(s).area = "buf" /\ m_sync(s).ge = 0 /\ m_sync(s).pn = 0
             /\ m_sync(s).cur = 0
  OBVIOUS
<1>1. s \in State /\ s.pn \in Nat
  BY DEF Good, State
<1>2. CASE s.pn > 0
  <2> DEFINE w == WriteFile(s, Pending(s))
  <2>1. w \in State /\ SameBuffer(s, w)
    BY WritePendingSound DEF Good
  <2>2. m_sync(s) = m_init(w)
    BY <1>2 DEF m_sync
  <2> HIDE DEF w
  <2>3. /\ Sound(m_init(w)) /\ SameMode(w, m_init(w)) /\ m_init(w).mem = w.mem
        /\ m_init(w).area = "buf" /\ m_init(w).ge = 0 /\ m_init(w).pn = 0
        /\ m_init(w).cur = 0
    BY <2>1, InitSound
  <2> QED
    BY <2>1, <2>2, <2>3 DEF SameBuffer, SameMode, SameMem
<1>3. CASE s.pn = 0 /\ "in" \in s.mode
  <2>1. m_sync(s) = m_flush_input(s)
    BY <1>3 DEF m_sync
  <2> QED
    BY <1>3, <2>1, FlushInputSound DEF SamePut
<1>4. CASE s.pn = 0 /\ "in" \notin s.mode
  <2>1. m_sync(s) = s
    BY <1>4 DEF m_sync
  <2> QED
    BY <1>1, <1>4, <2>1 DEF Sound, Good, Apart, Bounds, InputMode, SameMode
<1> QED
  BY <1>1, <1>2, <1>3, <1>4

LEMMA EndOutputSound ==
    ASSUME NEW s, Good(s), limit \in Nat
    PROVE  LET t == EndOutput(s) IN
           /\ Sound(t) /\ SameMode(s, t) /\ SameGet(s, t) /\ SameMem(s, t)
           /\ t.pn = 0 /\ t.pe = 0
<1> DEFINE w == WriteFile(s, Pending(s))
           t == SetP(w, 0, 0)
<1>1. EndOutput(s) = t
  BY DEF EndOutput
<1>2. w \in State /\ SameBuffer(s, w)
  BY WritePendingSound DEF Good
<1> HIDE DEF w
<1>3. /\ t \in State /\ t.pn = 0 /\ t.pe = 0
      /\ SameMode(w, t) /\ SameGet(w, t) /\ SameMem(w, t)
  BY <1>2, SetPFields DEF PutSet
<1> HIDE DEF t
<1>4. SameMode(s, t) /\ SameGet(s, t) /\ SameMem(s, t)
  BY <1>2, <1>3 DEF SameBuffer, SameMode, SameGet, SameMem
<1>5. Sound(t)
  BY <1>3, <1>4 DEF Sound, Good, Bounds, InputMode, Initialised, Apart, State,
                    SameMode, SameGet, SameMem
<1> QED
  BY <1>1, <1>3, <1>4, <1>5
(* Back from the put-back character to the rest of the buffer.             *)
LEMMA SwitchSound ==
    ASSUME NEW s, Good(s)
    PROVE  LET t == TakePutback(s) IN
           /\ Good(t) /\ SameMode(s, t) /\ SamePut(s, t) /\ t.area = "buf"
           /\ (Apart(s) => Apart(t))
<1>1. CASE s.area = "pb"
  <2> DEFINE t == SetG(s, "buf", 0, s.cur)
  <2>1. s \in State /\ s.cur \in Nat /\ 0 \in Nat /\ "buf" \in {"buf", "pb"}
    BY DEF Good, State
  <2>2. GetSet(s, t, "buf", 0, s.cur)
    BY <2>1, SetGFields, Zenon
  <2>3. TakePutback(s) = t
    BY <1>1 DEF TakePutback
  <2> HIDE DEF t
  <2>4. Good(t) /\ (Apart(s) => Apart(t))
    BY <1>1, <2>1, <2>2 DEF Good, Bounds, InputMode, Initialised, Apart, State,
                            GetSet, SameMode, SamePut, SameMem
  <2> QED
    BY <2>2, <2>3, <2>4 DEF GetSet
<1>2. CASE s.area # "pb"
  BY <1>2 DEF TakePutback, Good, State, SameMode, SamePut
<1> QED
  BY <1>1, <1>2

(* n characters of the get area are consumed, or one is un-read.           *)
LEMMA GbumpSound ==
    ASSUME NEW s, Good(s), NEW n \in Int, s.gn + n >= 0, s.gn + n <= s.ge
    PROVE  LET t == gbump(s, n) IN
           /\ Good(t) /\ SameMode(s, t) /\ SamePut(s, t) /\ SameMem(s, t) /\ SameFile(s, t)
           /\ t.area = s.area /\ t.gn = s.gn + n /\ t.ge = s.ge
           /\ (Apart(s) => Apart(t))
<1> DEFINE t == SetG(s, s.area, s.gn + n, s.ge)
<1>1. gbump(s, n) = t
  BY DEF gbump
<1>2. s \in State /\ s.area \in {"buf", "pb"} /\ s.gn + n \in Nat /\ s.ge \in Nat
  BY DEF Good, State
<1>3. GetSet(s, t, s.area, s.gn + n, s.ge)
  BY <1>2, SetGFields, Zenon
<1> HIDE DEF t
<1>4. Good(t) /\ (Apart(s) => Apart(t))
  BY <1>2, <1>3 DEF Good, Bounds, InputMode, Initialised, Apart, State,
                    GetSet, SameMode, SamePut, SameMem
<1> QED
  BY <1>1, <1>3, <1>4 DEF GetSet

LEMMA ReadIntoFields ==
    ASSUME NEW s \in State, NEW c \in Text, Len(c) <= Size(s)
    PROVE  LET t == ReadInto(s, c) IN
           /\ t \in State /\ Len(t.mem) = Len(s.mem)
           /\ \A i \in 1 .. Len(c) : t.mem[i] \in Char \cup {Hole}
           /\ SameMode(s, t) /\ SameGet(s, t) /\ SamePut(s, t)
<1> DEFINE m == [i \in 1 .. Size(s) |-> IF i <= Len(c) THEN c[i] ELSE s.mem[i]]
           a == SetMem(s, m)
           t == SetFile(a, s.file, s.fpos + Len(c))
<1>1. /\ Size(s) \in Nat /\ Size(s) = Len(s.mem) /\ Len(c) \in Nat
      /\ s.file \in Text /\ s.fpos + Len(c) \in Nat
      /\ \A i \in 1 .. Len(c) : c[i] \in Char \cup {Hole}
      /\ \A i \in 1 .. Size(s) : s.mem[i] \in Char \cup {Hole, Junk}
  BY DEF Size, State, Text
<1>2. m \in Seq(Char \cup {Hole, Junk}) /\ Len(m) = Size(s)
  BY <1>1
<1>3. \A i \in 1 .. Len(c) : m[i] \in Char \cup {Hole}
  BY <1>1
<1> HIDE DEF m
<1>4. a \in State /\ a.mem = m /\ SameMode(s, a) /\ SameGet(s, a) /\ SamePut(s, a)
  BY <1>2, SetMemFields
<1> HIDE DEF a
<1>5. /\ t \in State /\ SameMode(a, t) /\ SameGet(a, t) /\ SamePut(a, t) /\ SameMem(a, t)
  BY <1>1, <1>4, SetFileFields
<1>6. ReadInto(s, c) = t
  BY DEF ReadInto, a, m
<1> HIDE DEF t
<1> QED
  BY <1>1, <1>2, <1>3, <1>4, <1>5, <1>6 DEF SameMode, SameGet, SamePut, SameMem

LEMMA FillSound ==
    ASSUME NEW s, Good(s), s.pn = 0, s.pe = 0, "in" \in s.mode, NEW n \in Nat
    PROVE  Sound(Fill(s, n)) /\ SameMode(s, Fill(s, n))
<1> DEFINE c == Available(s, Size(s))
           a == ReadInto(s, c)
           b == SetCur(a, Len(c))
           t == SetG(b, "buf", Min2(n, Len(c)), Len(c))
<1>1. s \in State /\ Size(s) \in Nat /\ Size(s) = Len(s.mem)
  BY DEF Good, State, Size
<1>2. c \in Text /\ Len(c) <= Size(s) /\ Len(c) \in Nat
  BY <1>1, AvailableType DEF Text
<1> HIDE DEF c
<1>3. /\ a \in State /\ Len(a.mem) = Len(s.mem)
      /\ \A i \in 1 .. Len(c) : a.mem[i] \in Char \cup {Hole}
      /\ SameMode(s, a) /\ SamePut(s, a)
  BY <1>1, <1>2, ReadIntoFields
<1> HIDE DEF a
<1>4. /\ b \in State /\ b.cur = Len(c) /\ b.mem = a.mem /\ SameMode(a, b) /\ SamePut(a, b)
  BY <1>2, <1>3, SetCurFields
<1> HIDE DEF b
<1>5. Min2(n, Len(c)) \in Nat /\ Min2(n, Len(c)) <= Len(c) /\ "buf" \in {"buf", "pb"}
  BY <1>2 DEF Min2
<1>6. GetSet(b, t, "buf", Min2(n, Len(c)), Len(c))
  BY <1>2, <1>4, <1>5, SetGFields, Zenon
<1>7. Fill(s, n) = t
  BY DEF Fill, a, b, c
<1> HIDE DEF t
<1>8. SameMode(s, t) /\ t.pn = 0 /\ t.pe = 0 /\ t.cur = Len(c) /\ t.mem = a.mem
  BY <1>3, <1>4, <1>6 DEF GetSet, SameMode, SamePut, SameMem
<1>9. /\ t \in State /\ t.area = "buf" /\ t.gn <= t.ge /\ t.ge = t.cur
      /\ t.cur <= Len(t.mem) /\ Len(t.mem) \in Nat /\ "in" \in t.mode
  BY <1>1, <1>2, <1>3, <1>5, <1>6, <1>8 DEF GetSet, SameMode
<1>10. \A i \in 1 .. t.cur : t.mem[i] \in Char \cup {Hole}
  BY <1>3, <1>8
<1>11. Sound(t)
  BY <1>8, <1>9, <1>10 DEF Sound, Good, Bounds, InputMode, Initialised, Apart
<1> QED
  BY <1>7, <1>8, <1>11

LEMMA FillPutbackSound ==
    ASSUME NEW s, Good(s), s.pn = 0, s.pe = 0, "in" \in s.mode
    PROVE  Sound(FillPutback(s)) /\ SameMode(s, FillPutback(s))
<1> DEFINE c == Available(s, 1)
           x == IF c = <<>> THEN s.pb ELSE c[1]
           a == SetCur(s, 0)
           b == SetFile(a, s.file, s.fpos + Len(c))
           d == SetPb(b, x)
           t == SetG(d, "pb", 0, Len(c))
<1>1. s \in State /\ s.file \in Text
  BY DEF Good, State, Text
<1>2. c \in Text /\ Len(c) <= 1 /\ Len(c) \in Nat /\ 0 \in Nat /\ "pb" \in {"buf", "pb"}
  BY <1>1, AvailableType DEF Text
<1> HIDE DEF c
<1>3. /\ x \in Char \cup {Hole, Junk} /\ s.fpos + Len(c) \in Nat
      /\ Len(c) = 1 => x \in Char \cup {Hole}
  <2>1. s.pb \in Char \cup {Hole, Junk} /\ s.fpos \in Nat
    BY <1>1 DEF State
  <2>2. c # <<>> => Len(c) = 1 /\ c[1] \in Char \cup {Hole}
    <3> SUFFICES ASSUME c # <<>>
                 PROVE  Len(c) = 1 /\ c[1] \in Char \cup {Hole}
      OBVIOUS
    <3>1. Len(c) # 0
      BY <1>2, EmptySeq DEF Text
    <3>2. Len(c) = 1
      BY <1>2, <3>1, SMTT(20)
    <3> QED
      BY <1>2, <3>2, ElementOfSeq DEF Text
  <2>3. Len(c) = 1 => c # <<>>
    <3>1. c = <<>> => Len(c) = 0
      BY EmptySeq
    <3> QED
      BY <3>1
  <2> QED
    BY <1>2, <2>1, <2>2, <2>3
<1> HIDE DEF x
<1>4. a \in State /\ a.cur = 0 /\ a.mem = s.mem /\ SameMode(s, a) /\ SamePut(s, a)
  BY <1>1, SetCurFields
<1> HIDE DEF a
<1>5. b \in State /\ SameMode(a, b) /\ SamePut(a, b) /\ SameMem(a, b)
  BY <1>1, <1>3, <1>4, SetFileFields
<1> HIDE DEF b
<1>6. /\ d \in State /\ d.pb = x /\ d.mem = b.mem /\ d.cur = b.cur
      /\ SameMode(b, d) /\ SamePut(b, d)
  BY <1>3, <1>5, SetPbFields
<1> HIDE DEF d
<1>7. GetSet(d, t, "pb", 0, Len(c))
  BY <1>2, <1>6, SetGFields, Zenon
<1>8. FillPutback(s) = t
  BY DEF FillPutback, a, b, c, d, x
<1> HIDE DEF t
<1>9. /\ SameMode(s, t) /\ t.pn = 0 /\ t.pe = 0 /\ t.cur = 0 /\ t.mem = s.mem /\ t.pb = x
  BY <1>4, <1>5, <1>6, <1>7 DEF GetSet, SameMode, SamePut, SameMem
<1>10. Sound(t)
  BY <1>1, <1>2, <1>3, <1>7, <1>9
     DEF Sound, Good, Bounds, InputMode, Initialised, Apart, State, SameMode, GetSet
<1> QED
  BY <1>8, <1>9, <1>10

LEMMA UnderflowSound ==
    ASSUME NEW s, Sound(s), limit \in Nat
    PROVE  Sound(underflow(s)) /\ SameMode(s, underflow(s))
<1>1. Good(s) /\ s \in State /\ Size(s) \in Nat
  BY DEF Sound, Good, State, Size
<1>2. CASE "in" \notin s.mode \/ s.gn < s.ge
  BY <1>2 DEF underflow, SameMode
<1>3. CASE ~("in" \notin s.mode \/ s.gn < s.ge) /\ s.area = "pb" /\ s.cur > 0
  <2>1. underflow(s) = TakePutback(s)
    BY <1>3 DEF underflow, TakePutback
  <2> QED
    BY <1>1, <2>1, SwitchSound DEF Sound
<1>4. CASE ~("in" \notin s.mode \/ s.gn < s.ge) /\ ~(s.area = "pb" /\ s.cur > 0) /\ Size(s) > 0
  <2> DEFINE e == EndOutput(s)
  <2>1. underflow(s) = Fill(e, 0)
    BY <1>4 DEF underflow
  <2>2. Good(e) /\ e.pn = 0 /\ e.pe = 0 /\ SameMode(s, e)
    BY <1>1, EndOutputSound DEF Sound
  <2> HIDE DEF e
  <2> QED
    BY <1>4, <2>1, <2>2, FillSound DEF SameMode
<1>5. CASE ~("in" \notin s.mode \/ s.gn < s.ge) /\ ~(s.area = "pb" /\ s.cur > 0) /\ Size(s) = 0
  <2>1. underflow(s) = FillPutback(s)
    BY <1>5 DEF underflow
  <2>2. s.pe = 0 /\ s.pn = 0
    BY <1>1, <1>5 DEF Good, Bounds, Size, State
  <2> QED
    BY <1>1, <1>5, <2>1, <2>2, FillPutbackSound
<1> QED
  BY <1>1, <1>2, <1>3, <1>4, <1>5

-----------------------------------------------------------------------------
(* The characters of the get area: as many as the pointers say, and none   *)
(* of them uninitialized memory.                                           *)
LEMMA UnreadType ==
    ASSUME NEW s, Good(s)
    PROVE  Unread(s) \in Text /\ Len(Unread(s)) = s.ge - s.gn
<1>1. /\ s.gn \in Nat /\ s.ge \in Nat /\ s.cur \in Nat /\ s.gn <= s.ge
      /\ s.mem \in Seq(Char \cup {Hole, Junk})
  BY DEF Good, State, Bounds
<1>2. CASE s.area = "buf"
  <2>1. \A i \in s.gn + 1 .. s.ge : s.mem[i] \in Char \cup {Hole}
    BY <1>1, <1>2 DEF Good, Bounds, Initialised
  <2>2. /\ SubSeq(s.mem, s.gn + 1, s.ge) \in Seq(Char \cup {Hole})
        /\ Len(SubSeq(s.mem, s.gn + 1, s.ge)) =
              IF s.gn + 1 <= s.ge THEN s.ge - (s.gn + 1) + 1 ELSE 0
    BY <1>1, <2>1, SubSeqProperties
  <2> QED
    BY <1>1, <1>2, <2>2 DEF Unread, Chars, Text
<1>3. CASE s.area # "buf"
  <2>1. s.area = "pb" /\ s.ge <= 1 /\ (s.ge = 1 => s.pb \in Char \cup {Hole})
    BY <1>3 DEF Good, State, Bounds, Initialised
  <2> DEFINE q == <<s.pb>>
  <2>2. \A i \in s.gn + 1 .. s.ge : q[i] \in Char \cup {Hole}
    <3> SUFFICES ASSUME NEW i \in s.gn + 1 .. s.ge
                 PROVE  q[i] \in Char \cup {Hole}
      OBVIOUS
    <3>1. i = 1 /\ s.ge = 1
      BY <1>1, <2>1
    <3> QED
      BY <2>1, <3>1
  <2> HIDE DEF q
  <2>3. /\ SubSeq(q, s.gn + 1, s.ge) \in Seq(Char \cup {Hole})
        /\ Len(SubSeq(q, s.gn + 1, s.ge)) =
              IF s.gn + 1 <= s.ge THEN s.ge - (s.gn + 1) + 1 ELSE 0
    BY <1>1, <2>2, SubSeqProperties
  <2>4. Unread(s) = SubSeq(q, s.gn + 1, s.ge)
    BY <1>3 DEF Unread, Chars, q
  <2> QED
    BY <1>1, <2>3, <2>4 DEF Text
<1> QED
  BY <1>2, <1>3

(* The rest of sgetn() that is read past the buffer.                       *)
LEMMA DirectSound ==
    ASSUME NEW s, Good(s), s.pn = 0, s.pe = 0, NEW k \in Nat
    PROVE  LET t == SetG(SetCur(SetFile(s, s.file, s.fpos + k), 0), "buf", 0, 0) IN
           Sound(t) /\ SameMode(s, t)
<1> DEFINE a == SetFile(s, s.file, s.fpos + k)
           b == SetCur(a, 0)
           t == SetG(b, "buf", 0, 0)
<1>1. /\ s \in State /\ s.file \in Text /\ s.fpos + k \in Nat /\ 0 \in Nat
      /\ "buf" \in {"buf", "pb"}
  BY DEF Good, State, Text
<1>2. a \in State /\ SameMode(s, a) /\ SamePut(s, a)
  BY <1>1, SetFileFields
<1> HIDE DEF a
<1>3. b \in State /\ b.cur = 0 /\ SameMode(a, b) /\ SamePut(a, b)
  BY <1>2, SetCurFields
<1> HIDE DEF b
<1>4. GetSet(b, t, "buf", 0, 0)
  BY <1>1, <1>3, SetGFields, Zenon
<1>5. t = SetG(SetCur(SetFile(s, s.file, s.fpos + k), 0), "buf", 0, 0)
  BY DEF a, b
<1> HIDE DEF t
<1>6. t.pn = 0 /\ t.pe = 0 /\ t.cur = 0 /\ SameMode(s, t)
  BY <1>2, <1>3, <1>4 DEF GetSet, SameMode, SamePut, SameMem
<1>7. Sound(t)
  BY <1>4, <1>6 DEF Sound, Good, Bounds, InputMode, Initialised, Apart, State, GetSet
<1> QED
  BY <1>5, <1>6, <1>7

LEMMA XsgetnSound ==
    ASSUME NEW s, Sound(s), limit \in Nat, NEW size \in Nat
    PROVE  Sound(xsgetn(s, size).fb) /\ SameMode(s, xsgetn(s, size).fb)
<1>1. CASE size = 0 \/ "in" \notin s.mode
  BY <1>1 DEF xsgetn, SameMode
<1>2. CASE size # 0 /\ "in" \in s.mode
  <2> DEFINE ended  == EndOutput(s)
             first  == IF s.area = "pb" THEN Unread(ended) ELSE <<>>
             inbuf  == TakePutback(ended)
             second == First(Unread(inbuf), size - Len(first))
             rest   == size - Len(first) - Len(second)
             used   == gbump(inbuf, Len(second))
             third  == Available(used, rest)
             direct == SetG(SetCur(SetFile(used, used.file, used.fpos + Len(third)), 0),
                            "buf", 0, 0)
             after  == IF rest = 0 THEN used
                       ELSE IF rest < Size(s) THEN Fill(used, rest) ELSE direct
  <2>1. xsgetn(s, size).fb = after
    BY <1>2 DEF xsgetn
  <2>2. /\ Sound(ended) /\ Good(ended) /\ SameMode(s, ended) /\ ended.area = s.area
        /\ ended.pn = 0 /\ ended.pe = 0
    BY EndOutputSound DEF Sound, SameGet
  <2> HIDE DEF ended
  <2>3. /\ Good(inbuf) /\ SameMode(s, inbuf) /\ inbuf.area = "buf"
        /\ inbuf.pn = 0 /\ inbuf.pe = 0
    BY <2>2, SwitchSound DEF SameMode, SamePut
  <2> HIDE DEF inbuf
  <2>4. Len(first) \in Nat /\ Len(first) <= 1
    <3>1. CASE s.area = "pb"
      <4>1. /\ ended.ge - ended.gn <= 1 /\ ended.ge - ended.gn >= 0
            /\ ended.ge - ended.gn \in Int
        BY <2>2, <3>1 DEF Good, Bounds, State
      <4>2. Len(Unread(ended)) = ended.ge - ended.gn
        BY <2>2, UnreadType
      <4>3. first = Unread(ended)
        BY <3>1
      <4> HIDE DEF first
      <4> QED
        BY <4>1, <4>2, <4>3
    <3>2. CASE s.area # "pb"
      BY <3>2
    <3> QED
      BY <3>1, <3>2
  <2> HIDE DEF first
  <2>5. size - Len(first) \in Nat
    <3>1. size >= 1
      BY <1>2
    <3> QED
      BY <2>4, <3>1
  <2>6. /\ Len(second) = Min2(size - Len(first), Len(Unread(inbuf)))
        /\ Len(Unread(inbuf)) = inbuf.ge - inbuf.gn /\ Len(Unread(inbuf)) \in Nat
    <3>1. Unread(inbuf) \in Seq(Char \cup {Hole}) /\ Len(Unread(inbuf)) = inbuf.ge - inbuf.gn
      BY <2>3, UnreadType DEF Text
    <3> QED
      BY <2>5, <3>1, FirstType
  <2> HIDE DEF second
  <2>7. /\ Len(second) \in Nat /\ rest \in Nat
        /\ inbuf.gn + Len(second) >= 0 /\ inbuf.gn + Len(second) <= inbuf.ge
    BY <2>3, <2>5, <2>6, SMTT(20) DEF Min2, Good, State
  <2>8. Good(used) /\ SameMode(s, used) /\ used.pn = 0 /\ used.pe = 0
    BY <2>3, <2>7, GbumpSound DEF SameMode, SamePut
  <2> HIDE DEF used, rest
  <2>9. Sound(used)
    BY <2>8 DEF Sound, Apart
  <2>10. Sound(Fill(used, rest)) /\ SameMode(s, Fill(used, rest))
    BY <1>2, <2>7, <2>8, FillSound DEF SameMode
  <2>11. Len(third) \in Nat
    BY <2>7, <2>8, AvailableType DEF Good, Text
  <2> HIDE DEF third
  <2>12. Sound(direct) /\ SameMode(used, direct)
    BY <2>8, <2>11, DirectSound
  <2> HIDE DEF direct
  <2>13. Sound(after) /\ SameMode(s, after)
    BY <2>8, <2>9, <2>10, <2>12 DEF SameMode
  <2> QED
    BY <2>1, <2>13
<1> QED
  BY <1>1, <1>2

LEMMA PbackfailSound ==
    ASSUME NEW s, Sound(s), NEW c \in Char
    PROVE  Sound(pbackfail(s, c)) /\ SameMode(s, pbackfail(s, c))
<1>1. /\ s \in State /\ Good(s) /\ s.gn \in Nat /\ s.ge \in Nat /\ s.gn <= s.ge
      /\ s.cur \in Nat /\ s.cur <= Len(s.mem) /\ s.mem \in Seq(Char \cup {Hole, Junk})
  BY DEF Sound, Good, State, Bounds
<1>2. CASE ~CanPutBack(s)
  BY <1>2 DEF pbackfail, SameMode
<1>3. CASE CanPutBack(s)
  <2>1. "in" \in s.mode /\ s.pe = 0 /\ s.pn = 0
    BY <1>1, <1>3 DEF CanPutBack, Good, Bounds, State
  <2>2. CASE s.gn = 0
    <3> DEFINE a == SetPb(s, c)
               t == SetG(a, "pb", 0, 1)
    <3>1. pbackfail(s, c) = t
      BY <1>3, <2>2 DEF pbackfail
    <3>2. /\ a \in State /\ a.pb = c /\ a.mem = s.mem /\ a.cur = s.cur
          /\ SameMode(s, a) /\ SamePut(s, a)
      BY <1>1, SetPbFields
    <3> HIDE DEF a
    <3>3. GetSet(a, t, "pb", 0, 1)
      BY <3>2, SetGFields, 0 \in Nat, 1 \in Nat, "pb" \in {"buf", "pb"}, Zenon
    <3> HIDE DEF t
    <3>4. /\ t \in State /\ t.area = "pb" /\ t.gn = 0 /\ t.ge = 1 /\ t.pb = c
          /\ t.mem = s.mem /\ t.cur = s.cur /\ t.pn = 0 /\ t.pe = 0 /\ SameMode(s, t)
      BY <2>1, <3>2, <3>3 DEF GetSet, SameMode, SamePut, SameMem
    <3>5. Sound(t)
      BY <1>1, <2>1, <3>4
         DEF Sound, Good, Bounds, InputMode, Initialised, Apart, SameMode
    <3> QED
      BY <3>1, <3>4, <3>5
  <2>3. CASE s.gn # 0
    <3> DEFINE b == gbump(s, -1)
    <3>1. /\ Good(b) /\ SameMode(s, b) /\ SamePut(s, b) /\ SameMem(s, b)
          /\ b.area = s.area /\ b.gn = s.gn - 1 /\ b.ge = s.ge /\ b \in State
      <4>1. s.gn + -1 >= 0 /\ s.gn + -1 <= s.ge /\ -1 \in Int /\ s.gn + -1 = s.gn - 1
        BY <1>1, <2>3
      <4> QED
        BY <1>1, <4>1, GbumpSound DEF Good
    <3> HIDE DEF b
    <3>2. CASE s.area = "pb"
      <4> DEFINE t == SetPb(b, c)
      <4>1. pbackfail(s, c) = t
        BY <1>3, <2>3, <3>2 DEF pbackfail, b
      <4>2. /\ t \in State /\ t.pb = c /\ t.mem = b.mem /\ t.cur = b.cur
            /\ SameMode(b, t) /\ SameGet(b, t) /\ SamePut(b, t)
        BY <3>1, SetPbFields
      <4> HIDE DEF t
      <4>3. Sound(t) /\ SameMode(s, t)
        BY <2>1, <3>1, <4>2 DEF Sound, Good, Bounds, InputMode, Initialised, Apart,
                                SameMode, SameGet, SamePut
      <4> QED
        BY <4>1, <4>3
    <3>3. CASE s.area # "pb"
      <4> DEFINE m == [s.mem EXCEPT ![s.gn] = c]
                 t == SetMem(b, m)
      <4>1. pbackfail(s, c) = t
        BY <1>3, <2>3, <3>3 DEF pbackfail, b
      <4>2. m \in Seq(Char \cup {Hole, Junk}) /\ Len(m) = Len(s.mem)
        <5>1. s.gn \in 1 .. Len(s.mem) /\ c \in Char \cup {Hole, Junk}
          BY <1>1, <2>3, <3>3 DEF Good, Bounds, State
        <5> QED
          BY <1>1, <5>1, ExceptSeq
      <4>3. \A i \in 1 .. Len(s.mem) : m[i] = s.mem[i] \/ m[i] = c
        BY <1>1
      <4> HIDE DEF m
      <4>4. /\ t \in State /\ t.mem = m /\ t.cur = b.cur /\ t.pb = b.pb
            /\ SameMode(b, t) /\ SameGet(b, t) /\ SamePut(b, t)
        BY <3>1, <4>2, SetMemFields
      <4> HIDE DEF t
      <4>5. \A i \in 1 .. s.cur : m[i] \in Char \cup {Hole}
        BY <1>1, <4>3 DEF Good, Initialised
      <4>6. Sound(t) /\ SameMode(s, t)
        BY <1>1, <2>1, <3>1, <4>2, <4>4, <4>5
           DEF Sound, Good, Bounds, InputMode, Initialised, Apart,
               SameMode, SameGet, SamePut, SameMem
      <4> QED
        BY <4>1, <4>6
    <3> QED
      BY <3>2, <3>3
  <2> QED
    BY <2>2, <2>3
<1> QED
  BY <1>2, <1>3

-----------------------------------------------------------------------------
(* Output.                                                                 *)
LEMMA StoreSound ==
    ASSUME NEW s, Good(s), NEW c \in Seq(Char), s.pn + Len(c) <= s.pe
    PROVE  LET t == StoreChars(s, c) IN
           /\ Good(t) /\ SameMode(s, t) /\ SameGet(s, t)
           /\ t.pn = s.pn + Len(c) /\ t.pe = s.pe /\ Len(t.mem) = Len(s.mem)
<1> DEFINE m == [i \in 1 .. Len(s.mem) |->
                   IF i > s.pn /\ i <= s.pn + Len(c) THEN c[i - s.pn] ELSE s.mem[i]]
           a == SetMem(s, m)
           t == SetP(a, a.pn + Len(c), a.pe)
<1>1. /\ s \in State /\ s.mem \in Seq(Char \cup {Hole, Junk}) /\ s.pn \in Nat /\ s.pe \in Nat
      /\ s.pe <= Len(s.mem) /\ s.pn + Len(c) \in Nat /\ Len(c) \in Nat /\ Len(s.mem) \in Nat
      /\ s.cur \in Nat /\ s.cur <= Len(s.mem)
  BY DEF Good, State, Bounds
<1>2. \A i \in 1 .. Len(s.mem) : m[i] = s.mem[i] \/ m[i] \in Char
  <2> SUFFICES ASSUME NEW i \in 1 .. Len(s.mem)
               PROVE  m[i] = s.mem[i] \/ m[i] \in Char
    OBVIOUS
  <2>1. CASE i > s.pn /\ i <= s.pn + Len(c)
    <3>1. i - s.pn \in 1 .. Len(c)
      BY <1>1, <2>1
    <3>2. c[i - s.pn] \in Char
      BY <3>1, ElementOfSeq
    <3> QED
      BY <2>1, <3>2
  <2>2. CASE ~(i > s.pn /\ i <= s.pn + Len(c))
    BY <2>2
  <2> QED
    BY <2>1, <2>2
<1>3. \A i \in 1 .. s.pn + Len(c) : m[i] \in Char
  <2> SUFFICES ASSUME NEW i \in 1 .. s.pn + Len(c)
               PROVE  m[i] \in Char
    OBVIOUS
  <2>1. i \in 1 .. Len(s.mem)
    BY <1>1
  <2>2. CASE i > s.pn
    <3>1. i - s.pn \in 1 .. Len(c)
      BY <1>1, <2>2
    <3>2. c[i - s.pn] \in Char
      BY <3>1, ElementOfSeq
    <3> QED
      BY <1>1, <2>1, <2>2, <3>2
  <2>3. CASE ~(i > s.pn)
    <3>1. s.mem[i] \in Char
      BY <1>1, <2>3 DEF Good, Initialised
    <3> QED
      BY <1>1, <2>1, <2>3, <3>1
  <2> QED
    BY <2>2, <2>3
<1>4. m \in Seq(Char \cup {Hole, Junk}) /\ Len(m) = Len(s.mem)
  <2>1. \A i \in 1 .. Len(s.mem) : m[i] \in Char \cup {Hole, Junk}
    BY <1>1, <1>2
  <2>2. m \in [1 .. Len(s.mem) -> Char \cup {Hole, Junk}]
    BY <2>1
  <2> QED
    BY <1>1, <2>2
<1> HIDE DEF m
<1>5. /\ a \in State /\ a.mem = m /\ a.cur = s.cur /\ a.pb = s.pb
      /\ SameMode(s, a) /\ SameGet(s, a) /\ SamePut(s, a)
  BY <1>1, <1>4, SetMemFields
<1>6. StoreChars(s, c) = t
  BY DEF StoreChars, pbump, m
<1> HIDE DEF a
<1>7. a.pn + Len(c) \in Nat /\ a.pe \in Nat /\ a.pn = s.pn /\ a.pe = s.pe
  BY <1>1, <1>5 DEF SamePut
<1>8. /\ t \in State /\ t.pn = a.pn + Len(c) /\ t.pe = a.pe
      /\ SameMode(a, t) /\ SameGet(a, t) /\ SameMem(a, t)
  BY <1>5, <1>7, SetPFields, ZenonT(30) DEF PutSet
<1> HIDE DEF t
<1>9. /\ t.mem = m /\ t.cur = s.cur /\ t.pb = s.pb /\ SameMode(s, t) /\ SameGet(s, t)
      /\ t.pn = s.pn + Len(c) /\ t.pe = s.pe
  BY <1>5, <1>7, <1>8 DEF SameMode, SameGet, SameMem
<1>10. \A i \in 1 .. s.cur : m[i] \in Char \cup {Hole}
  BY <1>1, <1>2 DEF Good, Initialised
<1>11. Initialised(t)
  BY <1>3, <1>9, <1>10 DEF Initialised, Good, SameGet
<1>12. Good(t)
  BY <1>1, <1>4, <1>8, <1>9, <1>11 DEF Good, Bounds, InputMode, SameMode, SameGet
<1> QED
  BY <1>4, <1>6, <1>9, <1>12

LEMMA BeginOutputSound ==
    ASSUME NEW s, Good(s)
    PROVE  LET t == BeginOutput(s) IN
           /\ Good(t) /\ SameMode(s, t) /\ SameGet(s, t) /\ Len(t.mem) = Len(s.mem)
           /\ (s.pe > 0 \/ Len(s.mem) > 0 => t.pe > 0)
           /\ t.pe = (IF s.pe = 0 THEN Len(s.mem) ELSE s.pe)
<1>1. s \in State /\ s.pe \in Nat /\ s.pn \in Nat /\ s.pn <= s.pe /\ Len(s.mem) \in Nat
  BY DEF Good, Bounds, State
<1>2. CASE s.pe = 0
  <2> DEFINE t == SetP(s, 0, Len(s.mem))
  <2>1. BeginOutput(s) = t
    BY <1>2 DEF BeginOutput, Size
  <2>2. PutSet(s, t, 0, Len(s.mem))
    BY <1>1, SetPFields, 0 \in Nat, Zenon
  <2> HIDE DEF t
  <2>3. Good(t)
    BY <1>1, <2>2 DEF PutSet, Good, Bounds, InputMode, Initialised, SameMode, SameGet, SameMem
  <2> QED
    BY <1>1, <1>2, <2>1, <2>2, <2>3 DEF PutSet, SameMem
<1>3. CASE s.pe # 0
  BY <1>1, <1>3 DEF BeginOutput, SameMode, SameGet
<1> QED
  BY <1>2, <1>3

(* A put area that is not empty is still there after m_sync().             *)
LEMMA SyncRoom ==
    ASSUME NEW s, Good(s), limit \in Nat, "out" \in s.mode, s.pe > 0
    PROVE  m_sync(s).pe > 0 /\ (s.pn > 0 => m_sync(s).pe = Len(s.mem))
<1>1. s \in State /\ s.pn \in Nat /\ s.pe \in Nat /\ s.pe <= Len(s.mem) /\ Len(s.mem) \in Nat
  BY DEF Good, Bounds, State
<1>2. CASE s.pn > 0
  <2> DEFINE w == WriteFile(s, Pending(s))
             b == SetG(SetCur(w, 0), "buf", 0, 0)
  <2>1. w \in State /\ w.mem = s.mem /\ w.mode = s.mode
    BY WritePendingSound DEF Good, SameBuffer, SameMem, SameMode
  <2>2. m_sync(s) = m_init(w)
    BY <1>2 DEF m_sync
  <2> HIDE DEF w
  <2>3. m_init(w) = SetP(b, 0, Len(w.mem))
    BY <2>1 DEF m_init, Size
  <2>4. b \in State
    BY <2>1, SetCurFields, SetGFields DEF GetSet
  <2> HIDE DEF b
  <2>5. PutSet(b, SetP(b, 0, Len(w.mem)), 0, Len(w.mem))
    <3>1. 0 \in Nat /\ Len(w.mem) \in Nat
      BY <1>1, <2>1
    <3> QED
      BY <3>1, <2>4, SetPFields, Zenon
  <2>6. SetP(b, 0, Len(w.mem)).pe = Len(w.mem)
    BY <2>5, Zenon DEF PutSet
  <2> QED
    BY <1>1, <2>1, <2>2, <2>3, <2>6
<1>3. CASE s.pn = 0 /\ "in" \in s.mode
  BY <1>3, FlushInputSound DEF m_sync, SamePut
<1>4. CASE s.pn = 0 /\ "in" \notin s.mode
  BY <1>4 DEF m_sync
<1> QED
  BY <1>1, <1>2, <1>3, <1>4

(* overflow() may be called with a put area over unread input: then        *)
(* m_sync() gives the input back before the character is stored.           *)
LEMMA OverflowSound ==
    ASSUME NEW s, Good(s), limit \in Nat, NEW c \in Char,
           s.pe = 0 \/ Apart(s)
    PROVE  LET r == overflow(s, c) IN
           /\ Sound(r.fb) /\ SameMode(s, r.fb) /\ r.n \in 0 .. 1
           /\ Len(r.fb.mem) = Len(s.mem)
           /\ (r.n = 1 /\ s.pn > 0 => r.fb.pn = 1 /\ r.fb.pe = Len(s.mem))
<1> DEFINE r == overflow(s, c)
<1> SUFFICES /\ Sound(r.fb) /\ SameMode(s, r.fb) /\ r.n \in 0 .. 1
             /\ Len(r.fb.mem) = Len(s.mem)
             /\ (r.n = 1 /\ s.pn > 0 => r.fb.pn = 1 /\ r.fb.pe = Len(s.mem))
  OBVIOUS
<1>1. /\ s \in State /\ Sound(s) /\ s.pn \in Nat /\ s.pe \in Nat /\ s.pn <= s.pe
      /\ s.pe <= Len(s.mem) /\ Len(s.mem) \in Nat /\ Size(s) = Len(s.mem)
  BY DEF Good, State, Sound, Apart, Bounds, Size
<1>2. <<c>> \in Seq(Char) /\ Len(<<c>>) = 1
  OBVIOUS
<1>3. CASE "out" \notin s.mode
  <2>1. r = [fb |-> s, n |-> 0]
    BY <1>3 DEF overflow
  <2> HIDE DEF r
  <2> QED
    BY <1>1, <2>1 DEF SameMode
<1>4. CASE "out" \in s.mode /\ Size(s) = 0
  <2> DEFINE f == IF "in" \in s.mode THEN m_flush_input(s) ELSE s
  <2>1. r = [fb |-> WriteFile(f, <<c>>), n |-> Taken(f, <<c>>)]
    BY <1>4 DEF overflow
  <2>2. Sound(f) /\ SameMode(s, f) /\ Len(f.mem) = Len(s.mem) /\ f \in State
    BY <1>1, FlushInputSound DEF SameMode, Sound, Good
  <2> HIDE DEF f, r
  <2>3. WriteFile(f, <<c>>) \in State /\ SameBuffer(f, WriteFile(f, <<c>>)) /\ Taken(f, <<c>>) \in 0 .. 1
    BY <1>2, <2>2, WriteFileSound
  <2>4. Sound(WriteFile(f, <<c>>))
    BY <2>2, <2>3, SameBufferGood DEF Sound
  <2>5. s.pn = 0
    BY <1>1, <1>4
  <2> QED
    BY <2>1, <2>2, <2>3, <2>4, <2>5 DEF SameMode, SameBuffer, SameMem
<1>5. CASE "out" \in s.mode /\ Size(s) # 0
  <2> DEFINE b == BeginOutput(s)
             m == m_sync(b)
             q == <<c>>
             t == StoreChars(m, q)
  <2>1. r = IF SyncFails(b) THEN [fb |-> m, n |-> 0] ELSE [fb |-> t, n |-> 1]
    BY <1>5 DEF overflow, q
  <2>2. /\ Good(b) /\ SameMode(s, b) /\ b.pe > 0 /\ Len(b.mem) = Len(s.mem)
        /\ (s.pn > 0 => b = s)
    BY <1>1, <1>5, BeginOutputSound DEF BeginOutput
  <2> HIDE DEF b
  <2>3. /\ Sound(m) /\ SameMode(b, m) /\ Len(m.mem) = Len(b.mem) /\ m.pn = 0
        /\ m.area = "buf" /\ m.ge = 0
    BY <2>2, SyncSound
  <2>4. m.pe > 0 /\ (b.pn > 0 => m.pe = Len(b.mem))
    BY <1>5, <2>2, SyncRoom DEF SameMode
  <2> HIDE DEF m
  <2> HIDE DEF q
  <2>5. q \in Seq(Char) /\ Len(q) = 1 /\ m.pn + Len(q) <= m.pe
    BY <1>2, <2>3, <2>4 DEF Sound, Good, State, q
  <2>6. /\ Good(t) /\ SameMode(m, t) /\ SameGet(m, t) /\ t.pn = 1 /\ t.pe = m.pe
        /\ Len(t.mem) = Len(m.mem)
    <3>1. Good(m)
      BY <2>3 DEF Sound
    <3>2. /\ Good(t) /\ SameMode(m, t) /\ SameGet(m, t) /\ t.pn = m.pn + Len(q) /\ t.pe = m.pe
          /\ Len(t.mem) = Len(m.mem)
      BY <2>5, <3>1, StoreSound
    <3> HIDE DEF t
    <3> QED
      BY <2>3, <2>5, <3>2
  <2> HIDE DEF t
  <2>7. Sound(t)
    BY <2>3, <2>6 DEF Sound, Apart, SameGet
  <2> HIDE DEF r
  <2>8. CASE SyncFails(b)
    BY <2>1, <2>2, <2>3, <2>8 DEF SameMode
  <2>9. CASE ~SyncFails(b)
    BY <2>1, <2>2, <2>3, <2>4, <2>6, <2>7, <2>9 DEF SameMode
  <2> QED
    BY <2>8, <2>9
<1> QED
  BY <1>3, <1>4, <1>5

LEMMA PartType ==
    ASSUME NEW c \in Seq(Char), NEW i \in Nat \ {0}, NEW j \in Nat, j <= Len(c), i <= j + 1
    PROVE  SubSeq(c, i, j) \in Seq(Char) /\ Len(SubSeq(c, i, j)) = j - i + 1
<1>1. \A x \in i .. j : c[x] \in Char
  BY ElementOfSeq
<1> QED
  BY <1>1, SubSeqProperties

LEMMA SputcSound ==
    ASSUME NEW s, Sound(s), limit \in Nat, NEW c \in Char
    PROVE  Sound(sputc(s, c).fb) /\ SameMode(s, sputc(s, c).fb)
<1>1. Good(s) /\ Apart(s) /\ s.pn \in Nat /\ s.pe \in Nat
  BY DEF Sound, Good, State
<1>2. CASE s.pn < s.pe
  <2> DEFINE q == <<c>>
             t == StoreChars(s, q)
  <2>1. sputc(s, c).fb = t
    BY <1>2 DEF sputc
  <2>2. q \in Seq(Char) /\ s.pn + Len(q) <= s.pe
    BY <1>1, <1>2
  <2> HIDE DEF q
  <2>3. Good(t) /\ SameMode(s, t) /\ SameGet(s, t) /\ t.pe = s.pe
    BY <1>1, <2>2, StoreSound
  <2> HIDE DEF t
  <2> QED
    BY <1>1, <2>1, <2>3 DEF Sound, Apart, SameGet
<1>3. CASE ~(s.pn < s.pe)
  BY <1>1, <1>3, OverflowSound DEF sputc
<1> QED
  BY <1>2, <1>3

LEMMA StdXsputnSound ==
    ASSUME NEW s, Sound(s), limit \in Nat, NEW c \in Seq(Char), Len(c) <= Len(s.mem),
           s.pe > 0 \/ Len(c) = 0
    PROVE  Sound(StdXsputn(s, c).fb) /\ SameMode(s, StdXsputn(s, c).fb)
<1> DEFINE k == Min2(Len(c), s.pe - s.pn)
           p == SubSeq(c, 1, k)
           b == StoreChars(s, p)
           o == overflow(b, c[k + 1])
           q == SubSeq(c, k + 2, Len(c))
           t == StoreChars(o.fb, q)
<1>1. StdXsputn(s, c).fb = IF k = Len(c) THEN b ELSE IF o.n = 0 THEN o.fb ELSE t
  BY DEF StdXsputn
<1>2. /\ Good(s) /\ Apart(s) /\ s.pn \in Nat /\ s.pe \in Nat /\ s.pn <= s.pe
      /\ Len(s.mem) \in Nat /\ s.pe <= Len(s.mem)
  BY DEF Sound, Good, State, Bounds
<1>3. k \in Nat /\ k <= Len(c) /\ s.pn + k <= s.pe /\ (k # Len(c) => s.pn + k = s.pe /\ s.pe > 0)
  BY <1>2 DEF Min2
<1> HIDE DEF k
<1>4. p \in Seq(Char) /\ Len(p) = k
  <2>1. p \in Seq(Char) /\ Len(p) = k - 1 + 1
    BY <1>3, PartType
  <2> QED
    BY <1>3, <2>1
<1> HIDE DEF p
<1>5. /\ Good(b) /\ SameMode(s, b) /\ SameGet(s, b) /\ b.pn = s.pn + Len(p) /\ b.pe = s.pe
      /\ Len(b.mem) = Len(s.mem)
  BY <1>2, <1>3, <1>4, StoreSound
<1> HIDE DEF b
<1>6. Sound(b)
  BY <1>2, <1>5 DEF Sound, Apart, SameGet
<1>7. CASE k = Len(c)
  BY <1>1, <1>5, <1>6, <1>7
<1>8. CASE k # Len(c)
  <2>1. c[k + 1] \in Char /\ k + 1 <= Len(c)
    BY <1>3, <1>8
  <2>2. /\ Sound(o.fb) /\ SameMode(b, o.fb) /\ o.n \in 0 .. 1
        /\ Len(o.fb.mem) = Len(b.mem)
        /\ (o.n = 1 /\ b.pn > 0 => o.fb.pn = 1 /\ o.fb.pe = Len(b.mem))
    BY <1>6, <2>1, OverflowSound DEF Sound
  <2> HIDE DEF o
  <2>3. b.pn > 0
    BY <1>3, <1>4, <1>5, <1>8
  <2>4. CASE o.n = 0
    BY <1>1, <1>5, <1>8, <2>2, <2>4 DEF SameMode
  <2>5. CASE o.n = 1
    <3>1. q \in Seq(Char) /\ Len(q) = Len(c) - (k + 2) + 1
      BY <1>3, <2>1, PartType
    <3> HIDE DEF q
    <3>2. /\ o.fb.pn = 1 /\ o.fb.pe = Len(s.mem) /\ 1 + Len(q) <= Len(s.mem)
          /\ Good(o.fb) /\ Apart(o.fb)
      BY <1>2, <1>3, <1>5, <2>2, <2>3, <2>5, <3>1 DEF Sound
    <3>3. o.fb.pn + Len(q) <= o.fb.pe
      BY <3>2
    <3>4. Good(t) /\ SameMode(o.fb, t) /\ SameGet(o.fb, t) /\ t.pe = o.fb.pe
      BY <3>1, <3>2, <3>3, StoreSound
    <3> HIDE DEF t
    <3>5. Sound(t) /\ SameMode(s, t)
      BY <1>5, <2>2, <3>2, <3>4 DEF Sound, Apart, SameGet, SameMode
    <3> QED
      BY <1>1, <1>8, <2>5, <3>5
  <2> QED
    BY <2>2, <2>4, <2>5
<1> QED
  BY <1>7, <1>8

LEMMA XsputnSound ==
    ASSUME NEW s, Sound(s), limit \in Nat, NEW c \in Seq(Char)
    PROVE  Sound(xsputn(s, c).fb) /\ SameMode(s, xsputn(s, c).fb)
<1>1. /\ s \in State /\ Good(s) /\ Len(s.mem) \in Nat /\ Size(s) = Len(s.mem)
  BY DEF Sound, Good, State, Size
<1>2. CASE "out" \notin s.mode
  BY <1>2 DEF xsputn, SameMode
<1>3. CASE "out" \in s.mode /\ Len(c) > Size(s)
  <2> DEFINE f == m_sync(s)
             w == WriteFile(f, c)
  <2>1. xsputn(s, c).fb = IF SyncFails(s) THEN f ELSE w
    BY <1>3 DEF xsputn
  <2>2. Sound(f) /\ SameMode(s, f) /\ f \in State
    BY <1>1, SyncSound DEF Sound, Good
  <2> HIDE DEF f
  <2>3. w \in State /\ SameBuffer(f, w)
    BY <2>2, WriteFileSound
  <2> HIDE DEF w
  <2>4. Sound(w) /\ SameMode(s, w)
    BY <2>2, <2>3, SameBufferGood DEF Sound, SameBuffer, SameMode
  <2> QED
    BY <2>1, <2>2, <2>4
<1>4. CASE "out" \in s.mode /\ ~(Len(c) > Size(s))
  <2> DEFINE f == IF "in" \in s.mode THEN m_flush_input(s) ELSE s
             b == BeginOutput(f)
  <2>1. xsputn(s, c).fb = StdXsputn(b, c).fb
    BY <1>4 DEF xsputn
  <2>2. Sound(f) /\ SameMode(s, f) /\ Len(f.mem) = Len(s.mem) /\ f.area = "buf" /\ f.ge = 0
    BY <1>1, FlushInputSound DEF Sound, Good, InputMode, SameMode
  <2> HIDE DEF f
  <2>3. /\ Good(b) /\ SameMode(f, b) /\ SameGet(f, b) /\ Len(b.mem) = Len(f.mem)
        /\ (f.pe > 0 \/ Len(f.mem) > 0 => b.pe > 0)
    BY <2>2, BeginOutputSound DEF Sound
  <2> HIDE DEF b
  <2>4. Sound(b)
    BY <2>2, <2>3 DEF Sound, Apart, SameGet
  <2>5. Len(c) <= Len(b.mem) /\ (b.pe > 0 \/ Len(c) = 0) /\ SameMode(s, b)
    BY <1>1, <1>4, <2>2, <2>3 DEF SameMode
  <2>6. Sound(StdXsputn(b, c).fb) /\ SameMode(b, StdXsputn(b, c).fb)
    BY <2>4, <2>5, StdXsputnSound
  <2> QED
    BY <2>1, <2>5, <2>6 DEF SameMode
<1> QED
  BY <1>2, <1>3, <1>4

-----------------------------------------------------------------------------
(* The public calls.                                                       *)
Inv == Sound(fb) /\ (fb.open <=> fb.mode # {}) /\ <<limit, readable>> \in Devices

LEMMA DeviceType ==
    ASSUME <<limit, readable>> \in Devices
    PROVE  limit \in Nat /\ readable \in BOOLEAN
BY BufAssumption

LEMMA NewBufferType ==
    ASSUME NEW size \in Nat
    PROVE  NewBuffer(size) \in Seq(Char \cup {Hole, Junk}) /\ Len(NewBuffer(size)) = size
BY DEF NewBuffer

LEMMA BuffersType ==
    ASSUME fb \in State, NEW mem \in Buffers
    PROVE  mem \in Seq(Char \cup {Hole, Junk})
<1>1. CASE mem = fb.mem
  BY <1>1 DEF State
<1>2. ASSUME NEW size \in BufSizes, mem = NewBuffer(size)
      PROVE  mem \in Seq(Char \cup {Hole, Junk})
  BY <1>2, NewBufferType, BufAssumption
<1> QED
  BY <1>1, <1>2 DEF Buffers

LEMMA InitInv == Init => Inv
<1> SUFFICES ASSUME Init
             PROVE  Inv
  OBVIOUS
<1>1. /\ fb.file \in UNION {[1 .. n -> Char] : n \in 0 .. MaxFile}
      /\ fb = [file |-> fb.file, fpos |-> 0, open |-> FALSE, mode |-> {}, mem |-> <<>>,
               area |-> "buf", gn |-> 0, ge |-> 0, pn |-> 0, pe |-> 0, cur |-> 0, pb |-> Junk]
      /\ limit = MaxFile /\ readable = TRUE
  BY DEF Init
<1>2. fb.file \in Text
  BY <1>1 DEF Text
<1>3. fb \in State
  <2>1. /\ <<>> \in Seq(Char \cup {Hole, Junk}) /\ {} \in Modes \cup {{}}
        /\ Junk \in Char \cup {Hole, Junk} /\ fb.file \in Seq(Char \cup {Hole})
    BY <1>2, EmptySeq DEF Text
  <2> DEFINE f == fb.file
             e == {}
             m == <<>>
  <2> HIDE DEF f, e, m
  <2>2. fb = [file |-> f, fpos |-> 0, open |-> FALSE, mode |-> e, mem |-> m,
              area |-> "buf", gn |-> 0, ge |-> 0, pn |-> 0, pe |-> 0, cur |-> 0, pb |-> Junk]
    BY <1>1, Zenon DEF f, e, m
  <2>3. /\ m \in Seq(Char \cup {Hole, Junk}) /\ e \in Modes \cup {{}}
        /\ Junk \in Char \cup {Hole, Junk} /\ f \in Seq(Char \cup {Hole})
    BY <2>1 DEF f, e, m
  <2> QED
    BY <2>2, <2>3 DEF State
<1>4. Bounds(fb) /\ InputMode(fb) /\ Apart(fb) /\ Initialised(fb)
  <2>1. Len(fb.mem) = 0
    BY <1>1, EmptySeq
  <2> QED
    BY <1>1, <2>1 DEF Bounds, InputMode, Apart, Initialised
<1> QED
  BY <1>1, <1>3, <1>4, BufAssumption, DeviceType DEF Inv, Sound, Good

LEMMA OpenInv ==
    ASSUME Inv, NEW m \in Modes, Open(m)
    PROVE  Inv'
<1>1. /\ fb \in State /\ fb.mem \in Seq(Char \cup {Hole, Junk}) /\ fb.file \in Text
  BY DEF Inv, Sound, Good, State, Text
<1>2. CASE fb' = fb /\ limit' = limit /\ readable' = readable
  BY <1>2 DEF Inv, Sound, Good, Bounds, InputMode, Apart, Initialised
<1>3. CASE fb' # fb
  <2> DEFINE file == IF "trunc" \in m THEN <<>> ELSE fb.file
             mem  == IF fb.mem = <<>> THEN NewBuffer(DefaultSize) ELSE fb.mem
             fpos == IF "ate" \in m THEN Len(file) ELSE 0
             a == SetMem(fb, mem)
             b == SetFile(a, file, fpos)
             t == SetMode(b, TRUE, m)
  <2>1. fb' = m_init(t) /\ limit' = limit /\ readable' = readable
    BY <1>3 DEF Open, Finish
  <2>2. file \in Text /\ fpos \in Nat
    BY <1>1 DEF Text
  <2>3. mem \in Seq(Char \cup {Hole, Junk})
    BY <1>1, NewBufferType, BufAssumption
  <2> HIDE DEF file, mem, fpos
  <2>4. a \in State
    BY <1>1, <2>3, SetMemFields
  <2> HIDE DEF a
  <2>5. b \in State
    BY <2>2, <2>4, SetFileFields
  <2> HIDE DEF b
  <2>6. t \in State /\ t.open = TRUE /\ t.mode = m
    BY <2>5, SetModeFields
  <2> HIDE DEF t
  <2>7. Sound(m_init(t)) /\ m_init(t).open /\ m_init(t).mode = m
    BY <2>6, InitSound DEF SameMode
  <2> QED
    BY <2>1, <2>7, BufAssumption, DeviceType DEF Inv, Sound, Good, Bounds, InputMode, Apart, Initialised
<1> QED
  BY <1>2, <1>3 DEF Open, Finish

LEMMA CloseInv ==
    ASSUME Inv, Close
    PROVE  Inv'
<1> USE DEF Close, Finish
<1>1. CASE ~fb.open
  BY <1>1 DEF Inv, Sound, Good, Bounds, InputMode, Apart, Initialised
<1>2. CASE fb.open
  <2> DEFINE m == m_sync(fb)
             a == SetFile(m, m.file, 0)
             t == SetMode(a, FALSE, {})
  <2>1. fb' = t /\ limit' = limit /\ readable' = readable
    BY <1>2
  <2>2. limit \in Nat
    BY BufAssumption, DeviceType DEF Inv
  <2>3. /\ Sound(m) /\ m.area = "buf" /\ m.ge = 0 /\ m.pn = 0 /\ m.cur = 0
        /\ m \in State /\ m.file \in Text
    BY <2>2, SyncSound DEF Inv, Sound, Good, State, Text
  <2> HIDE DEF m
  <2>4. a \in State /\ SameGet(m, a) /\ SamePut(m, a) /\ SameMem(m, a)
    BY <2>3, SetFileFields
  <2> HIDE DEF a
  <2>5. /\ t \in State /\ t.open = FALSE /\ t.mode = {}
        /\ SameGet(a, t) /\ SamePut(a, t) /\ SameMem(a, t)
    BY <2>4, SetModeFields
  <2> HIDE DEF t
  <2>6. Sound(t)
    BY <2>3, <2>4, <2>5 DEF Sound, Good, Bounds, InputMode, Apart, Initialised,
                            SameGet, SamePut, SameMem
  <2> QED
    BY <2>1, <2>5, <2>6 DEF Inv, Sound, Good, Bounds, InputMode, Apart, Initialised
<1> QED
  BY <1>1, <1>2

(* The other calls leave the mode alone.                                   *)
LEMMA StepInv ==
    ASSUME Inv, NEW t, Sound(t), SameMode(fb, t), fb' = t, limit' = limit, readable' = readable
    PROVE  Inv'
BY DEF Inv, Sound, Good, Bounds, InputMode, Apart, Initialised, SameMode

LEMMA SetBufInv ==
    ASSUME Inv, NEW mem \in Buffers, SetBuf(mem)
    PROVE  Inv'
<1> USE DEF SetBuf, Finish
<1>1. CASE m_input_size(fb) # 0
  BY <1>1, StepInv DEF Inv, SameMode
<1>2. CASE m_input_size(fb) = 0
  <2> DEFINE m == m_sync(fb)
             a == SetMem(m, mem)
  <2>1. fb' = m_init(a) /\ limit' = limit /\ readable' = readable
    BY <1>2
  <2>2. limit \in Nat /\ mem \in Seq(Char \cup {Hole, Junk})
    BY DeviceType, BuffersType DEF Inv, Sound, Good
  <2>3. m \in State /\ SameMode(fb, m)
    BY <2>2, SyncSound DEF Inv, Sound, Good
  <2> HIDE DEF m
  <2>4. a \in State /\ SameMode(m, a)
    BY <2>2, <2>3, SetMemFields
  <2> HIDE DEF a
  <2>5. Sound(m_init(a)) /\ SameMode(a, m_init(a))
    BY <2>4, InitSound
  <2>6. SameMode(fb, m_init(a))
    BY <2>3, <2>4, <2>5 DEF SameMode
  <2> QED
    BY <2>1, <2>5, <2>6, StepInv
<1> QED
  BY <1>1, <1>2

LEMMA ReadInv ==
    ASSUME Inv, Sgetc \/ Sbumpc \/ \E n \in 1 .. MaxString : Sgetn(n)
    PROVE  Inv'
<1>1. limit \in Nat /\ MaxString \in Nat /\ Sound(fb)
  BY BufAssumption, DeviceType DEF Inv
<1>2. Sound(underflow(fb)) /\ SameMode(fb, underflow(fb))
  BY <1>1, UnderflowSound
<1>3. CASE Sgetc
  BY <1>2, <1>3, StepInv DEF Sgetc, Finish
<1>4. CASE Sbumpc
  <2> DEFINE s == underflow(fb)
             c == First(Unread(s), 1)
  <2>1. fb' = gbump(s, Len(c)) /\ limit' = limit /\ readable' = readable
    BY <1>4 DEF Sbumpc, Finish
  <2> HIDE DEF s
  <2>2. Sound(s) /\ SameMode(fb, s) /\ Good(s)
    BY <1>2 DEF s, Sound
  <2>3. Unread(s) \in Seq(Char \cup {Hole}) /\ Len(Unread(s)) = s.ge - s.gn
    BY <2>2, UnreadType DEF Text
  <2>4. Len(c) = Min2(1, Len(Unread(s)))
    BY <2>3, FirstType
  <2> HIDE DEF c
  <2>5. Len(c) \in Int /\ s.gn + Len(c) >= 0 /\ s.gn + Len(c) <= s.ge
    BY <2>2, <2>3, <2>4 DEF Min2, Good, State, Bounds
  <2>6. Sound(gbump(s, Len(c))) /\ SameMode(s, gbump(s, Len(c)))
    BY <2>2, <2>5, GbumpSound DEF Sound
  <2>7. SameMode(fb, gbump(s, Len(c)))
    BY <2>2, <2>6 DEF SameMode
  <2> QED
    BY <2>1, <2>6, <2>7, StepInv
<1>5. ASSUME NEW n \in 1 .. MaxString, Sgetn(n)
      PROVE  Inv'
  <2>1. n \in Nat
    BY <1>1
  <2>2. Sound(xsgetn(fb, n).fb) /\ SameMode(fb, xsgetn(fb, n).fb)
    BY <1>1, <2>1, XsgetnSound
  <2> QED
    BY <1>5, <2>2, StepInv DEF Sgetn, Finish
<1> QED
  BY <1>3, <1>4, <1>5

LEMMA PutbackInv ==
    ASSUME Inv, Sungetc \/ \E c \in Char : Sputbackc(c)
    PROVE  Inv'
<1>1. Sound(fb) /\ Good(fb) /\ fb.gn \in Nat /\ fb.ge \in Nat /\ fb.gn <= fb.ge
  BY DEF Inv, Sound, Good, State, Bounds
<1>2. SameMode(fb, fb)
  BY DEF SameMode
<1>3. ASSUME fb.gn > 0
      PROVE  Sound(gbump(fb, -1)) /\ SameMode(fb, gbump(fb, -1))
  <2>1. -1 \in Int /\ fb.gn + -1 >= 0 /\ fb.gn + -1 <= fb.ge
    BY <1>1, <1>3
  <2> QED
    BY <1>1, <2>1, GbumpSound DEF Sound
<1>4. CASE Sungetc
  BY <1>1, <1>2, <1>3, <1>4, StepInv DEF Sungetc, Finish
<1>5. ASSUME NEW c \in Char, Sputbackc(c)
      PROVE  Inv'
  <2>1. Sound(pbackfail(fb, c)) /\ SameMode(fb, pbackfail(fb, c))
    BY <1>1, PbackfailSound
  <2> QED
    BY <1>1, <1>2, <1>3, <1>5, <2>1, StepInv DEF Sputbackc, Finish
<1> QED
  BY <1>4, <1>5

LEMMA WriteInv ==
    ASSUME Inv, (\E c \in Char : Sputc(c)) \/ (\E c \in Strings : Sputn(c))
    PROVE  Inv'
<1>1. Sound(fb) /\ limit \in Nat
  BY BufAssumption, DeviceType DEF Inv
<1>2. ASSUME NEW c \in Char, Sputc(c)
      PROVE  Inv'
  BY <1>1, <1>2, SputcSound, StepInv DEF Sputc, Finish
<1>3. ASSUME NEW c \in Strings, Sputn(c)
      PROVE  Inv'
  <2>1. c \in Seq(Char)
    BY BufAssumption
  <2> QED
    BY <1>1, <1>3, <2>1, XsputnSound, StepInv DEF Sputn, Finish
<1> QED
  BY <1>2, <1>3

LEMMA SyncInv ==
    ASSUME Inv, Sync \/ \E way \in {"beg", "cur", "end"}, off \in Offsets : Seek(way, off)
    PROVE  Inv'
<1> DEFINE m == m_sync(fb)
<1>1. limit \in Nat /\ Sound(fb) /\ Good(fb)
  BY BufAssumption, DeviceType DEF Inv, Sound
<1>2. Sound(m) /\ SameMode(fb, m)
  BY <1>1, SyncSound
<1>3. CASE Sync
  BY <1>2, <1>3, StepInv DEF Sync, Finish
<1>4. ASSUME NEW way \in {"beg", "cur", "end"}, NEW off \in Offsets, Seek(way, off)
      PROVE  Inv'
  <2> DEFINE t == SeekFile(m, Base(m, way), off)
  <2>1. /\ limit' = limit /\ readable' = readable
        /\ fb' = fb \/ fb' = m \/ fb' = t
    BY <1>4 DEF Seek, Finish
  <2> HIDE DEF m
  <2>2. m \in State /\ m.fpos \in Nat /\ m.file \in Text
    BY <1>2 DEF Sound, Good, State, Text
  <2>3. Base(m, way) \in Nat
    BY <2>2 DEF Base, Text
  <2>4. off \in Int
    BY BufAssumption
  <2>5. t \in State /\ SameBuffer(m, t)
    BY <2>2, <2>3, <2>4, SeekFileSound
  <2> HIDE DEF t
  <2>6. Sound(t) /\ SameMode(fb, t)
    BY <1>2, <2>5, SameBufferGood DEF Sound, SameBuffer, SameMode
  <2>7. SameMode(fb, fb)
    BY DEF SameMode
  <2> QED
    BY <1>1, <1>2, <2>1, <2>6, <2>7, StepInv
<1> QED
  BY <1>3, <1>4

LEMMA NextInv == Inv /\ [Next]_vars => Inv'
<1> SUFFICES ASSUME Inv, [Next]_vars
             PROVE  Inv'
  OBVIOUS
<1>1. CASE \E m \in Modes : Open(m)
  BY <1>1, OpenInv
<1>2. CASE Close
  BY <1>2, CloseInv
<1>3. CASE \E mem \in Buffers : SetBuf(mem)
  BY <1>3, SetBufInv
<1>4. CASE Sgetc \/ Sbumpc \/ \E n \in 1 .. MaxString : Sgetn(n)
  BY <1>4, ReadInv
<1>5. CASE Sungetc \/ \E c \in Char : Sputbackc(c)
  BY <1>5, PutbackInv
<1>6. CASE (\E c \in Char : Sputc(c)) \/ (\E c \in Strings : Sputn(c))
  BY <1>6, WriteInv
<1>7. CASE Sync \/ \E way \in {"beg", "cur", "end"}, off \in Offsets : Seek(way, off)
  BY <1>7, SyncInv
<1>8. CASE Device
  BY <1>8, BufAssumption DEF Device, Inv, Sound, Good, Bounds, InputMode, Apart, Initialised
<1>9. CASE UNCHANGED vars
  BY <1>9 DEF vars, Inv, Sound, Good, Bounds, InputMode, Apart, Initialised
<1> QED
  BY <1>1, <1>2, <1>3, <1>4, <1>5, <1>6, <1>7, <1>8, <1>9 DEF Next

LEMMA Safety == Spec => []Inv
BY InitInv, NextInv, PTL DEF Spec

(* The fields of the streambuf always have the values their types allow,   *)
(* and the stream is closed exactly when it has no mode.                   *)
THEOREM TypeCorrect == Spec => []TypeOK
<1>1. Inv => TypeOK
  BY DEF Inv, Sound, Good, TypeOK
<1> QED
  BY <1>1, Safety, PTL

(* Whatever the buffer sizes, the file and the failures of the device, the *)
(* get area and the put area never hold characters at the same time and    *)
(* no pointer leaves the buffer.                                           *)
THEOREM AreasAlwaysApart == Spec => []AreasApart
<1>1. Inv => AreasApart
  BY DEF Inv, Sound, Good, AreasApart
<1> QED
  BY <1>1, Safety, PTL

(* No character of uninitialized memory is ever waiting to be written or   *)
(* there to be read, even after short reads and failed writes.             *)
THEOREM NeverJunk == Spec => []NoJunk
<1>1. Inv => NoJunk
  BY DEF Inv, Sound, Good, NoJunk
<1> QED
  BY <1>1, Safety, PTL

-----------------------------------------------------------------------------
(* Where the descriptor is.                                                *)

(* There is nothing to read in the buffer.                                 *)
NoInput(s) == s.area = "buf" /\ s.ge = 0

(* The input in the buffer was read before the position of the descriptor, *)
(* and a character that was pushed back has a place before the input.      *)
Behind(s) == s.cur + (IF s.area = "pb" THEN s.ge ELSE 0) <= s.fpos

LEMMA NoInputBehind ==
    ASSUME NEW s, Good(s), NoInput(s)
    PROVE  Behind(s)
BY DEF Good, State, Bounds, NoInput, Behind

(* Characters that are put leave the get area alone, empty as it is.       *)
LEMMA WriteNoInput ==
    ASSUME NEW s, Good(s), NoInput(s), limit \in Nat, NEW c \in Seq(Char)
    PROVE  NoInput(WriteFile(s, c))
BY WriteFileSound DEF Good, NoInput, SameBuffer, SameGet

LEMMA OverflowInput ==
    ASSUME NEW s, Good(s), limit \in Nat, NEW c \in Char, s.pe = 0 \/ Apart(s)
    PROVE  \/ "out" \notin s.mode /\ overflow(s, c) = [fb |-> s, n |-> 0]
           \/ NoInput(overflow(s, c).fb)
<1> DEFINE q == <<c>>
<1>1. q \in Seq(Char) /\ Len(q) = 1
  OBVIOUS
<1>2. CASE "out" \notin s.mode
  BY <1>2 DEF overflow
<1>3. CASE "out" \in s.mode /\ Size(s) = 0
  <2> DEFINE f == IF "in" \in s.mode THEN m_flush_input(s) ELSE s
  <2>1. overflow(s, c).fb = WriteFile(f, q)
    BY <1>3 DEF overflow
  <2>2. Good(f) /\ NoInput(f)
    BY FlushInputSound DEF Sound, NoInput, Good, InputMode
  <2> HIDE DEF f, q
  <2> QED
    BY <1>1, <2>1, <2>2, WriteNoInput
<1>4. CASE "out" \in s.mode /\ Size(s) # 0
  <2> DEFINE b == BeginOutput(s)
             m == m_sync(b)
             t == StoreChars(m, q)
  <2>1. overflow(s, c).fb = IF SyncFails(b) THEN m ELSE t
    BY <1>4 DEF overflow
  <2>2. Good(b) /\ b.pe > 0 /\ SameMode(s, b)
    <3>1. Len(s.mem) \in Nat /\ Len(s.mem) # 0
      BY <1>4 DEF Size, Good, State
    <3> QED
      BY <3>1, BeginOutputSound
  <2> HIDE DEF b, q
  <2>3. Good(m) /\ NoInput(m) /\ m.pn = 0 /\ m.pe > 0
    BY <1>4, <2>2, SyncSound, SyncRoom DEF Sound, NoInput, SameMode
  <2>4. m.pn + Len(q) <= m.pe /\ m.pe \in Nat
    BY <1>1, <2>3, SMTT(20) DEF Good, State
  <2> HIDE DEF m
  <2>5. NoInput(t)
    BY <1>1, <2>3, <2>4, StoreSound DEF NoInput, SameGet
  <2> QED
    BY <2>1, <2>3, <2>5
<1> QED
  BY <1>2, <1>3, <1>4

LEMMA SputcInput ==
    ASSUME NEW s, Sound(s), limit \in Nat, NEW c \in Char
    PROVE  \/ "out" \notin s.mode /\ sputc(s, c) = [fb |-> s, n |-> 0]
           \/ NoInput(sputc(s, c).fb)
<1> DEFINE q == <<c>>
<1>1. /\ Good(s) /\ Apart(s) /\ s.pn \in Nat /\ s.pe \in Nat
      /\ q \in Seq(Char) /\ Len(q) = 1
  BY DEF Sound, Good, State
<1>2. CASE s.pn < s.pe
  <2>1. sputc(s, c).fb = StoreChars(s, q)
    BY <1>2 DEF sputc
  <2>2. NoInput(s) /\ s.pn + Len(q) <= s.pe
    BY <1>1, <1>2 DEF Apart, NoInput
  <2> HIDE DEF q
  <2> QED
    BY <1>1, <2>1, <2>2, StoreSound, ZenonT(30) DEF NoInput, SameGet
<1>3. CASE ~(s.pn < s.pe)
  BY <1>1, <1>3, OverflowInput DEF sputc
<1> QED
  BY <1>2, <1>3

LEMMA StdXsputnInput ==
    ASSUME NEW s, Sound(s), NoInput(s), limit \in Nat, NEW c \in Seq(Char),
           Len(c) <= Len(s.mem), s.pe > 0 \/ Len(c) = 0
    PROVE  NoInput(StdXsputn(s, c).fb)
<1> DEFINE k == Min2(Len(c), s.pe - s.pn)
           p == SubSeq(c, 1, k)
           b == StoreChars(s, p)
           o == overflow(b, c[k + 1])
           q == SubSeq(c, k + 2, Len(c))
           t == StoreChars(o.fb, q)
<1>1. StdXsputn(s, c).fb = IF k = Len(c) THEN b ELSE IF o.n = 0 THEN o.fb ELSE t
  BY DEF StdXsputn
<1>2. /\ Good(s) /\ Apart(s) /\ s.pn \in Nat /\ s.pe \in Nat /\ s.pn <= s.pe
      /\ Len(s.mem) \in Nat /\ s.pe <= Len(s.mem)
  BY DEF Sound, Good, State, Bounds
<1>3. k \in Nat /\ k <= Len(c) /\ s.pn + k <= s.pe /\ (k # Len(c) => s.pn + k = s.pe /\ s.pe > 0)
  BY <1>2 DEF Min2
<1> HIDE DEF k
<1>4. p \in Seq(Char) /\ Len(p) = k
  <2>1. p \in Seq(Char) /\ Len(p) = k - 1 + 1
    BY <1>3, PartType
  <2> QED
    BY <1>3, <2>1
<1> HIDE DEF p
<1>5. /\ Good(b) /\ SameMode(s, b) /\ SameGet(s, b) /\ b.pn = s.pn + Len(p) /\ b.pe = s.pe
      /\ Len(b.mem) = Len(s.mem)
  BY <1>2, <1>3, <1>4, StoreSound
<1> HIDE DEF b
<1>6. Apart(b) /\ NoInput(b)
  BY <1>2, <1>5 DEF Apart, SameGet, NoInput
<1>7. CASE k = Len(c)
  BY <1>1, <1>6, <1>7
<1>8. CASE k # Len(c)
  <2>1. c[k + 1] \in Char /\ k + 1 <= Len(c)
    BY <1>3, <1>8
  <2>2. /\ Sound(o.fb) /\ o.n \in 0 .. 1
        /\ (o.n = 1 /\ b.pn > 0 => o.fb.pn = 1 /\ o.fb.pe = Len(b.mem))
    BY <1>5, <1>6, <2>1, OverflowSound
  <2>3. NoInput(o.fb)
    BY <1>5, <1>6, <2>1, OverflowInput
  <2> HIDE DEF o
  <2>4. b.pn > 0
    BY <1>3, <1>4, <1>5, <1>8
  <2>5. CASE o.n = 1
    <3>1. q \in Seq(Char) /\ Len(q) = Len(c) - (k + 2) + 1
      BY <1>3, <2>1, PartType
    <3> HIDE DEF q
    <3>2. Good(o.fb) /\ o.fb.pn + Len(q) <= o.fb.pe
      BY <1>2, <1>3, <1>5, <2>2, <2>4, <2>5, <3>1 DEF Sound
    <3> QED
      BY <1>1, <1>8, <2>3, <2>5, <3>1, <3>2, StoreSound DEF SameGet, NoInput
  <2> QED
    BY <1>1, <1>8, <2>2, <2>3, <2>5
<1> QED
  BY <1>7, <1>8

LEMMA XsputnInput ==
    ASSUME NEW s, Sound(s), limit \in Nat, NEW c \in Seq(Char)
    PROVE  \/ "out" \notin s.mode /\ xsputn(s, c) = [fb |-> s, n |-> 0]
           \/ NoInput(xsputn(s, c).fb)
<1>1. s \in State /\ Good(s) /\ Len(s.mem) \in Nat /\ Size(s) = Len(s.mem)
  BY DEF Sound, Good, State, Size
<1>2. CASE "out" \notin s.mode
  BY <1>2 DEF xsputn
<1>3. CASE "out" \in s.mode /\ Len(c) > Size(s)
  <2> DEFINE f == m_sync(s)
  <2>1. xsputn(s, c).fb = IF SyncFails(s) THEN f ELSE WriteFile(f, c)
    BY <1>3 DEF xsputn
  <2>2. Good(f) /\ NoInput(f)
    BY <1>1, SyncSound DEF Sound, NoInput
  <2> HIDE DEF f
  <2> QED
    BY <2>1, <2>2, WriteNoInput
<1>4. CASE "out" \in s.mode /\ ~(Len(c) > Size(s))
  <2> DEFINE f == IF "in" \in s.mode THEN m_flush_input(s) ELSE s
             b == BeginOutput(f)
  <2>1. xsputn(s, c).fb = StdXsputn(b, c).fb
    BY <1>4 DEF xsputn
  <2>2. Good(f) /\ NoInput(f) /\ Len(f.mem) = Len(s.mem)
    BY <1>1, FlushInputSound DEF Sound, Good, InputMode, NoInput
  <2> HIDE DEF f
  <2>3. /\ Good(b) /\ SameGet(f, b) /\ Len(b.mem) = Len(f.mem)
        /\ (f.pe > 0 \/ Len(f.mem) > 0 => b.pe > 0)
    BY <2>2, BeginOutputSound
  <2> HIDE DEF b
  <2>4. Sound(b) /\ NoInput(b)
    BY <2>2, <2>3 DEF Sound, Apart, NoInput, SameGet
  <2>5. Len(c) <= Len(b.mem) /\ (b.pe > 0 \/ Len(c) = 0)
    BY <1>1, <1>4, <2>2, <2>3
  <2> QED
    BY <2>1, <2>4, <2>5, StdXsputnInput
<1> QED
  BY <1>2, <1>3, <1>4

-----------------------------------------------------------------------------
(* Each call keeps the input behind the position.                          *)
LEMMA EndOutputBehind ==
    ASSUME NEW s, Sound(s), Behind(s), limit \in Nat
    PROVE  Behind(EndOutput(s))
<1> DEFINE w == WriteFile(s, Pending(s))
           t == EndOutput(s)
<1>1. /\ s \in State /\ Good(s) /\ Apart(s) /\ s.pn \in Nat /\ s.pe \in Nat /\ s.pn <= s.pe
      /\ Pending(s) \in Seq(Char) /\ Len(Pending(s)) = s.pn
  BY PendingType DEF Sound, Good, State, Bounds
<1>2. Sound(t) /\ SameGet(s, t) /\ SameMem(s, t)
  BY <1>1, EndOutputSound
<1>3. CASE s.pn > 0
  <2>1. NoInput(t)
    BY <1>1, <1>2, <1>3 DEF Apart, SameGet, NoInput
  <2> QED
    BY <1>2, <2>1, NoInputBehind DEF Sound
<1>4. CASE s.pn = 0
  <2>1. WriteFile(s, Pending(s)) = s
    <3>1. Taken(s, Pending(s)) \in 0 .. 0
      BY <1>1, <1>4, WriteFileSound
    <3> QED
      BY <3>1 DEF WriteFile
  <2>2. t = SetP(s, 0, 0)
    BY <2>1 DEF EndOutput
  <2>3. PutSet(s, SetP(s, 0, 0), 0, 0)
    BY <1>1, SetPFields, 0 \in Nat, Zenon
  <2>4. t.fpos = s.fpos
    BY <2>2, <2>3, Zenon DEF PutSet, SameFile
  <2> QED
    BY <1>2, <2>4 DEF Behind, SameGet, SameMem
<1> QED
  BY <1>1, <1>3, <1>4

LEMMA FillBehind ==
    ASSUME NEW s, Good(s), NEW n \in Nat
    PROVE  Behind(Fill(s, n))
<1> DEFINE c == Available(s, Size(s))
           r == ReadInto(s, c)
           b == SetCur(r, Len(c))
           t == SetG(b, "buf", Min2(n, Len(c)), Len(c))
<1>1. s \in State /\ Size(s) \in Nat /\ Size(s) = Len(s.mem) /\ s.fpos \in Nat
  BY DEF Good, State, Size
<1>2. c \in Text /\ Len(c) <= Size(s) /\ Len(c) \in Nat
  BY <1>1, AvailableType DEF Text
<1> HIDE DEF c
<1>3. r \in State /\ r.fpos = s.fpos + Len(c)
  <2> DEFINE m == SetMem(s, [i \in 1 .. Size(s) |-> IF i <= Len(c) THEN c[i] ELSE s.mem[i]])
  <2>1. r \in State
    BY <1>1, <1>2, ReadIntoFields
  <2>2. r = SetFile(m, s.file, s.fpos + Len(c))
    BY DEF ReadInto
  <2>3. DOMAIN m = DOMAIN s
    BY DEF SetMem
  <2> HIDE DEF m, r
  <2>4. r.fpos = s.fpos + Len(c)
    BY <1>1, <2>2, <2>3 DEF SetFile, State
  <2> QED
    BY <2>1, <2>4
<1> HIDE DEF r
<1>4. b \in State /\ b.cur = Len(c) /\ SameFile(r, b)
  BY <1>2, <1>3, SetCurFields
<1> HIDE DEF b
<1>5. Min2(n, Len(c)) \in Nat
  BY <1>2 DEF Min2
<1>6. GetSet(b, t, "buf", Min2(n, Len(c)), Len(c))
  BY <1>2, <1>4, <1>5, SetGFields, "buf" \in {"buf", "pb"}, Zenon
<1>7. Fill(s, n) = t
  BY DEF Fill, r, b, c
<1> HIDE DEF t
<1>8. t.area = "buf" /\ t.cur = Len(c) /\ t.fpos = s.fpos + Len(c)
  BY <1>3, <1>4, <1>6 DEF GetSet, SameFile, SameMem
<1> QED
  BY <1>1, <1>2, <1>7, <1>8 DEF Behind

LEMMA FillPutbackBehind ==
    ASSUME NEW s, Good(s)
    PROVE  Behind(FillPutback(s))
<1> DEFINE c == Available(s, 1)
           x == IF c = <<>> THEN s.pb ELSE c[1]
           a == SetCur(s, 0)
           b == SetFile(a, s.file, s.fpos + Len(c))
           d == SetPb(b, x)
           t == SetG(d, "pb", 0, Len(c))
<1>1. s \in State /\ s.fpos \in Nat
  BY DEF Good, State
<1>2. Len(c) \in Nat
  BY <1>1, AvailableType DEF Text
<1>3. FillPutback(s) = t
  BY DEF FillPutback
<1> HIDE DEF c, x
<1>4. t.cur = 0 /\ t.ge = Len(c) /\ t.fpos = s.fpos + Len(c)
  BY <1>1 DEF State, SetCur, SetFile, SetPb, SetG
<1> HIDE DEF t
<1> QED
  BY <1>1, <1>2, <1>3, <1>4 DEF Behind

LEMMA SwitchBehind ==
    ASSUME NEW s, Good(s), Behind(s)
    PROVE  Behind(TakePutback(s))
<1>1. CASE s.area = "pb"
  <2> DEFINE t == SetG(s, "buf", 0, s.cur)
  <2>1. s \in State /\ s.cur \in Nat /\ s.ge \in Nat /\ s.fpos \in Nat
    BY DEF Good, State
  <2>2. GetSet(s, t, "buf", 0, s.cur)
    BY <2>1, SetGFields, 0 \in Nat, "buf" \in {"buf", "pb"}, Zenon
  <2>3. TakePutback(s) = t
    BY <1>1 DEF TakePutback
  <2> HIDE DEF t
  <2> QED
    BY <1>1, <2>1, <2>2, <2>3 DEF GetSet, SameFile, SameMem, Behind
<1>2. CASE s.area # "pb"
  BY <1>2 DEF TakePutback
<1> QED
  BY <1>1, <1>2

LEMMA GbumpBehind ==
    ASSUME NEW s, Good(s), Behind(s), NEW n \in Int, s.gn + n >= 0, s.gn + n <= s.ge
    PROVE  Behind(gbump(s, n))
BY GbumpSound DEF Behind, SameMem, SameFile

LEMMA UnderflowBehind ==
    ASSUME NEW s, Sound(s), Behind(s), limit \in Nat
    PROVE  Behind(underflow(s))
<1>1. Good(s) /\ s \in State
  BY DEF Sound, Good
<1>2. CASE "in" \notin s.mode \/ s.gn < s.ge
  BY <1>2 DEF underflow
<1>3. CASE ~("in" \notin s.mode \/ s.gn < s.ge) /\ s.area = "pb" /\ s.cur > 0
  <2>1. underflow(s) = TakePutback(s)
    BY <1>3 DEF underflow, TakePutback
  <2> QED
    BY <1>1, <2>1, SwitchBehind
<1>4. CASE ~("in" \notin s.mode \/ s.gn < s.ge) /\ ~(s.area = "pb" /\ s.cur > 0) /\ Size(s) > 0
  <2>1. underflow(s) = Fill(EndOutput(s), 0)
    BY <1>4 DEF underflow
  <2>2. Good(EndOutput(s))
    BY <1>1, EndOutputSound DEF Sound
  <2> QED
    BY <2>1, <2>2, FillBehind
<1>5. CASE ~("in" \notin s.mode \/ s.gn < s.ge) /\ ~(s.area = "pb" /\ s.cur > 0) /\ ~(Size(s) > 0)
  <2>1. underflow(s) = FillPutback(s)
    BY <1>5 DEF underflow
  <2> QED
    BY <1>1, <2>1, FillPutbackBehind
<1> QED
  BY <1>2, <1>3, <1>4, <1>5

LEMMA XsgetnBehind ==
    ASSUME NEW s, Sound(s), Behind(s), limit \in Nat, NEW size \in Nat
    PROVE  Behind(xsgetn(s, size).fb)
<1>1. CASE size = 0 \/ "in" \notin s.mode
  BY <1>1 DEF xsgetn
<1>2. CASE size # 0 /\ "in" \in s.mode
  <2> DEFINE ended  == EndOutput(s)
             first  == IF s.area = "pb" THEN Unread(ended) ELSE <<>>
             inbuf  == TakePutback(ended)
             second == First(Unread(inbuf), size - Len(first))
             rest   == size - Len(first) - Len(second)
             used   == gbump(inbuf, Len(second))
             third  == Available(used, rest)
             direct == SetG(SetCur(SetFile(used, used.file, used.fpos + Len(third)), 0),
                            "buf", 0, 0)
             after  == IF rest = 0 THEN used
                       ELSE IF rest < Size(s) THEN Fill(used, rest) ELSE direct
  <2>1. xsgetn(s, size).fb = after
    BY <1>2 DEF xsgetn
  <2>2. /\ Good(ended) /\ Behind(ended) /\ ended.area = s.area
        /\ ended.pn = 0 /\ ended.pe = 0
    BY EndOutputSound, EndOutputBehind DEF Sound, SameGet
  <2> HIDE DEF ended
  <2>3. Good(inbuf) /\ Behind(inbuf) /\ inbuf.pn = 0 /\ inbuf.pe = 0
    BY <2>2, SwitchSound, SwitchBehind DEF SamePut
  <2> HIDE DEF inbuf
  <2>4. Len(first) \in Nat /\ Len(first) <= 1
    <3>1. CASE s.area = "pb"
      <4>1. /\ ended.ge - ended.gn <= 1 /\ ended.ge - ended.gn >= 0
            /\ ended.ge - ended.gn \in Int
        BY <2>2, <3>1 DEF Good, Bounds, State
      <4>2. Len(Unread(ended)) = ended.ge - ended.gn
        BY <2>2, UnreadType
      <4>3. first = Unread(ended)
        BY <3>1
      <4> HIDE DEF first
      <4> QED
        BY <4>1, <4>2, <4>3
    <3>2. CASE s.area # "pb"
      BY <3>2
    <3> QED
      BY <3>1, <3>2
  <2> HIDE DEF first
  <2>5. size - Len(first) \in Nat
    <3>1. size >= 1
      BY <1>2
    <3> QED
      BY <2>4, <3>1
  <2>6. /\ Len(second) = Min2(size - Len(first), Len(Unread(inbuf)))
        /\ Len(Unread(inbuf)) = inbuf.ge - inbuf.gn /\ Len(Unread(inbuf)) \in Nat
    <3>1. Unread(inbuf) \in Seq(Char \cup {Hole}) /\ Len(Unread(inbuf)) = inbuf.ge - inbuf.gn
      BY <2>3, UnreadType DEF Text
    <3> QED
      BY <2>5, <3>1, FirstType
  <2> HIDE DEF second
  <2>7. /\ Len(second) \in Nat /\ rest \in Nat
        /\ inbuf.gn + Len(second) >= 0 /\ inbuf.gn + Len(second) <= inbuf.ge
    BY <2>3, <2>5, <2>6, SMTT(20) DEF Min2, Good, State
  <2>8. Good(used) /\ Behind(used) /\ used.pn = 0 /\ used.pe = 0
    BY <2>3, <2>7, GbumpSound, GbumpBehind DEF SamePut
  <2> HIDE DEF used, rest
  <2>9. Behind(Fill(used, rest))
    BY <2>7, <2>8, FillBehind
  <2>10. Len(third) \in Nat
    BY <2>7, <2>8, AvailableType DEF Good, Text
  <2>11. used \in State
    BY <2>8 DEF Good
  <2> HIDE DEF third
  <2>12. Good(direct)
    BY <2>8, <2>10, DirectSound DEF Sound
  <2>13. NoInput(direct)
    BY <2>11 DEF State, SetFile, SetCur, SetG, NoInput
  <2> HIDE DEF direct
  <2>14. Behind(direct)
    BY <2>12, <2>13, NoInputBehind
  <2> QED
    BY <2>1, <2>8, <2>9, <2>14
<1> QED
  BY <1>1, <1>2

(* A character is pushed back before the input in the buffer only if the   *)
(* file has a position for it.                                             *)
LEMMA PbackfailBehind ==
    ASSUME NEW s, Sound(s), Behind(s), NEW c \in Char, s.fpos > m_input_size(s)
    PROVE  Behind(pbackfail(s, c))
<1>1. /\ s \in State /\ Good(s) /\ s.gn \in Nat /\ s.ge \in Nat /\ s.gn <= s.ge
      /\ s.cur \in Nat /\ s.fpos \in Nat
  BY DEF Sound, Good, State, Bounds
<1>2. CASE ~CanPutBack(s)
  BY <1>2 DEF pbackfail
<1>3. CASE CanPutBack(s) /\ s.gn = 0
  <2> DEFINE t == SetG(SetPb(s, c), "pb", 0, 1)
  <2>1. pbackfail(s, c) = t
    BY <1>3 DEF pbackfail
  <2>2. s.area = "buf" /\ s.ge = s.cur
    BY <1>1, <1>3 DEF CanPutBack, State, Good, Bounds
  <2>3. t.area = "pb" /\ t.ge = 1 /\ t.cur = s.cur /\ t.fpos = s.fpos
    BY <1>1 DEF SetPb, SetG, State
  <2> HIDE DEF t
  <2>4. s.fpos > s.cur
    BY <1>1, <1>3, <2>2 DEF m_input_size
  <2> QED
    BY <1>1, <2>1, <2>3, <2>4 DEF Behind
<1>4. CASE CanPutBack(s) /\ s.gn # 0
  <2> DEFINE b == gbump(s, -1)
             t == IF s.area = "pb" THEN SetPb(b, c)
                  ELSE SetMem(b, [s.mem EXCEPT ![s.gn] = c])
  <2>1. pbackfail(s, c) = t
    BY <1>4 DEF pbackfail
  <2>2. Good(b) /\ Behind(b) /\ b \in State
    <3>1. -1 \in Int /\ s.gn + -1 >= 0 /\ s.gn + -1 <= s.ge
      BY <1>1, <1>4
    <3> QED
      BY <1>1, <3>1, GbumpSound, GbumpBehind DEF Good
  <2> HIDE DEF b
  <2>3. t.area = b.area /\ t.ge = b.ge /\ t.cur = b.cur /\ t.fpos = b.fpos
    BY <2>2 DEF SetPb, SetMem, State
  <2> HIDE DEF t
  <2> QED
    BY <2>1, <2>2, <2>3 DEF Behind
<1> QED
  BY <1>2, <1>3, <1>4

(* Inv and where the input in the buffer came from.                        *)
PlaceInv == Inv /\ Behind(fb)

LEMMA InitPlace == Init => PlaceInv
<1> SUFFICES ASSUME Init
             PROVE  PlaceInv
  OBVIOUS
<1>1. Inv
  BY InitInv
<1>2. fb.area = "buf" /\ fb.ge = 0
  BY DEF Init
<1> QED
  BY <1>1, <1>2, NoInputBehind DEF PlaceInv, Inv, Sound, NoInput

LEMMA PlacePutback ==
    ASSUME PlaceInv, ~UnderBegin, NEW c \in Char, Sputbackc(c)
    PROVE  Behind(fb')
<1>1. Sound(fb) /\ Good(fb) /\ Behind(fb) /\ fb.gn \in Nat /\ fb.gn <= fb.ge /\ fb.ge \in Nat
  BY DEF PlaceInv, Inv, Sound, Good, State, Bounds
<1>2. CASE fb' = fb
  BY <1>1, <1>2
<1>3. CASE fb' = gbump(fb, -1) /\ fb.gn > 0
  <2>1. -1 \in Int /\ fb.gn + -1 >= 0 /\ fb.gn + -1 <= fb.ge
    BY <1>1, <1>3
  <2> QED
    BY <1>1, <1>3, <2>1, GbumpBehind
<1>4. CASE fb' = pbackfail(fb, c) /\ CanPutBack(fb)
  <2>1. fb.open
    BY <1>4 DEF CanPutBack, PlaceInv, Inv
  <2>2. fb.fpos > m_input_size(fb)
    BY <2>1 DEF Sputbackc
  <2> QED
    BY <1>1, <1>4, <2>2, PbackfailBehind
<1> QED
  BY <1>2, <1>3, <1>4 DEF Sputbackc, Finish

LEMMA PlaceNext ==
    ASSUME ~UnderBegin
    PROVE  PlaceInv /\ [Next]_vars => PlaceInv'
<1> SUFFICES ASSUME PlaceInv, [Next]_vars
             PROVE  Behind(fb')
  BY NextInv DEF PlaceInv, Behind
<1>1. Inv /\ Sound(fb) /\ Good(fb) /\ Behind(fb) /\ limit \in Nat /\ MaxString \in Nat
  BY BufAssumption, DeviceType DEF PlaceInv, Inv, Sound
<1>2. Good(fb')
  BY <1>1, NextInv DEF Inv, Sound, Good, Bounds, InputMode, Initialised
<1>3. ASSUME NoInput(fb')
      PROVE  Behind(fb')
  BY <1>2, <1>3, NoInputBehind
<1>4. NoInput(m_sync(fb)) /\ m_sync(fb) \in State
  BY <1>1, SyncSound DEF NoInput, Sound, Good
<1>5. CASE fb' = fb
  BY <1>1, <1>5
<1>6. ASSUME NEW m \in Modes, Open(m), fb' # fb
      PROVE  Behind(fb')
  <2> DEFINE file == IF "trunc" \in m THEN <<>> ELSE fb.file
             mem  == IF fb.mem = <<>> THEN NewBuffer(DefaultSize) ELSE fb.mem
             fpos == IF "ate" \in m THEN Len(file) ELSE 0
             t == SetMode(SetFile(SetMem(fb, mem), file, fpos), TRUE, m)
  <2>1. fb' = m_init(t)
    BY <1>6 DEF Open, Finish
  <2>2. DOMAIN t = DOMAIN fb
    BY DEF SetMode, SetFile, SetMem
  <2> HIDE DEF t
  <2>3. NoInput(m_init(t))
    BY <1>1, <2>2 DEF m_init, SetP, SetG, SetCur, NoInput, Good, State
  <2> QED
    BY <1>3, <2>1, <2>3
<1>7. CASE Close
  <2> DEFINE m == m_sync(fb)
             t == SetMode(SetFile(m, m.file, 0), FALSE, {})
  <2>1. fb' = fb \/ fb' = t
    BY <1>7 DEF Close, Finish
  <2> HIDE DEF m
  <2>2. NoInput(t)
    BY <1>4 DEF NoInput, SetMode, SetFile, State, m
  <2> QED
    BY <1>3, <1>5, <2>1, <2>2
<1>8. ASSUME NEW mem \in Buffers, SetBuf(mem)
      PROVE  Behind(fb')
  <2> DEFINE m == m_sync(fb)
             t == SetMem(m, mem)
  <2>1. fb' = fb \/ fb' = m_init(t)
    BY <1>8 DEF SetBuf, Finish
  <2>2. DOMAIN t = DOMAIN m
    BY DEF SetMem
  <2> HIDE DEF m, t
  <2>3. NoInput(m_init(t))
    BY <1>4, <2>2 DEF m_init, SetP, SetG, SetCur, NoInput, State, m
  <2> QED
    BY <1>3, <1>5, <2>1, <2>3
<1>9. CASE Sgetc
  BY <1>1, <1>9, UnderflowBehind DEF Sgetc, Finish
<1>10. CASE Sbumpc
  <2> DEFINE s == underflow(fb)
             c == First(Unread(s), 1)
  <2>1. fb' = gbump(s, Len(c))
    BY <1>10 DEF Sbumpc, Finish
  <2>2. Good(s) /\ Behind(s)
    BY <1>1, UnderflowSound, UnderflowBehind DEF Sound
  <2> HIDE DEF s
  <2>3. Unread(s) \in Seq(Char \cup {Hole}) /\ Len(Unread(s)) = s.ge - s.gn
    BY <2>2, UnreadType DEF Text
  <2>4. Len(c) = Min2(1, Len(Unread(s)))
    BY <2>3, FirstType
  <2> HIDE DEF c
  <2>5. Len(c) \in Int /\ s.gn + Len(c) >= 0 /\ s.gn + Len(c) <= s.ge
    BY <2>2, <2>3, <2>4 DEF Min2, Good, State, Bounds
  <2> QED
    BY <2>1, <2>2, <2>5, GbumpBehind
<1>11. ASSUME NEW n \in 1 .. MaxString, Sgetn(n)
       PROVE  Behind(fb')
  <2>1. n \in Nat
    BY <1>1
  <2> QED
    BY <1>1, <1>11, <2>1, XsgetnBehind DEF Sgetn, Finish
<1>12. CASE Sungetc
  <2>1. fb.gn > 0 => -1 \in Int /\ fb.gn + -1 >= 0 /\ fb.gn + -1 <= fb.ge
    BY <1>1 DEF Good, State, Bounds
  <2> QED
    BY <1>1, <1>12, <2>1, GbumpBehind DEF Sungetc, Finish
<1>13. ASSUME NEW c \in Char, Sputbackc(c)
       PROVE  Behind(fb')
  BY <1>13, PlacePutback
<1>14. ASSUME NEW c \in Char, Sputc(c)
       PROVE  Behind(fb')
  BY <1>1, <1>3, <1>5, <1>14, SputcInput DEF Sputc, Finish
<1>15. ASSUME NEW c \in Strings, Sputn(c)
       PROVE  Behind(fb')
  <2>1. c \in Seq(Char)
    BY BufAssumption
  <2> QED
    BY <1>1, <1>3, <1>5, <1>15, <2>1, XsputnInput DEF Sputn, Finish
<1>16. CASE Sync
  BY <1>3, <1>4, <1>16 DEF Sync, Finish
<1>17. ASSUME NEW way \in {"beg", "cur", "end"}, NEW off \in Offsets, Seek(way, off)
       PROVE  Behind(fb')
  <2> DEFINE m == m_sync(fb)
             t == SeekFile(m, Base(m, way), off)
  <2>1. fb' = fb \/ fb' = m \/ fb' = t
    BY <1>17 DEF Seek, Finish
  <2> HIDE DEF m
  <2>2. NoInput(t)
    BY <1>4 DEF NoInput, SeekFile, SetFile, State, m
  <2> QED
    BY <1>3, <1>4, <1>5, <2>1, <2>2 DEF m
<1>18. CASE Device
  BY <1>5, <1>18 DEF Device
<1>19. CASE UNCHANGED vars
  BY <1>5, <1>19 DEF vars
<1> QED
  BY <1>5, <1>6, <1>7, <1>8, <1>9, <1>10, <1>11, <1>12, <1>13, <1>14, <1>15, <1>16, <1>17,
     <1>18, <1>19 DEF Next

(* sync() with no output waiting: the descriptor goes back by what was     *)
(* read ahead.                                                             *)
LEMMA SyncBack ==
    ASSUME NEW s, Good(s), Behind(s), s.pn = 0
    PROVE  FirstUnread(m_sync(s)) <= FirstUnread(s)
<1>1. /\ s \in State /\ s.gn \in Nat /\ s.ge \in Nat /\ s.gn <= s.ge /\ s.cur \in Nat
      /\ s.fpos \in Nat /\ s.area \in {"buf", "pb"}
  BY DEF Good, State, Bounds
<1>2. CASE "in" \notin s.mode
  BY <1>1, <1>2 DEF m_sync, FirstUnread
<1>3. CASE "in" \in s.mode
  <2> DEFINE k == m_input_size(s)
             a == SeekFile(s, s.fpos, -k)
             t == SetG(SetCur(a, 0), "buf", 0, 0)
  <2>1. m_sync(s) = t
    BY <1>1, <1>3 DEF m_sync, m_flush_input
  <2>2. k \in Nat /\ k <= s.fpos /\ FirstUnread(s) >= s.fpos - k /\ FirstUnread(s) \in Int
    <3>1. CASE s.area = "pb"
      BY <1>1, <3>1 DEF m_input_size, Behind, FirstUnread
    <3>2. CASE s.area # "pb"
      <4>1. s.area = "buf" /\ s.ge = s.cur
        BY <1>1, <3>2 DEF Good, Bounds
      <4> QED
        BY <1>1, <4>1 DEF m_input_size, Behind, FirstUnread
    <3> QED
      BY <3>1, <3>2
  <2> HIDE DEF k
  <2>3. a = SetFile(s, s.file, s.fpos + -k)
    BY <1>1, <2>2 DEF SeekFile
  <2>4. t.fpos = s.fpos - k /\ t.area = "buf" /\ t.gn = 0 /\ t.ge = 0
    BY <1>1, <2>2, <2>3 DEF SetFile, SetCur, SetG, State
  <2> HIDE DEF t
  <2> QED
    BY <1>1, <2>1, <2>2, <2>4 DEF FirstUnread
<1> QED
  BY <1>2, <1>3

(* For every buffer, file and device, and any calls before: sync() never   *)
(* moves the descriptor beyond the first character that the reader has not *)
(* been given, provided nothing was pushed back before the first position. *)
THEOREM SyncKeepsInput ==
    ASSUME ~UnderBegin
    PROVE  Spec => SyncSkipsNothing
<1> DEFINE A == call' = <<"sync">> /\ fb.pn = 0 => FirstUnread(fb') <= FirstUnread(fb)
<1>1. ASSUME PlaceInv, Next
      PROVE  A
  <2>1. SUFFICES ASSUME call' = <<"sync">>, fb.pn = 0
                 PROVE  FirstUnread(fb') <= FirstUnread(fb)
    OBVIOUS
  <2>2. FirstUnread(fb) <= FirstUnread(fb)
    <3>1. fb.fpos \in Nat /\ fb.cur \in Nat /\ fb.ge \in Nat /\ fb.gn \in Nat
      BY <1>1 DEF PlaceInv, Inv, Sound, Good, State
    <3> QED
      BY <3>1 DEF FirstUnread
  <2>3. CASE Sync
    BY <1>1, <2>1, <2>3, SyncBack DEF PlaceInv, Inv, Sound, Sync, Finish
  <2>4. CASE Device
    BY <2>2, <2>4 DEF Device
  <2>5. CASE ~Sync /\ ~Device
    <3>1. call'[1] = "sync"
      BY <2>1
    <3>2. ASSUME NEW m \in Modes, Open(m)
          PROVE  FALSE
      <4>1. call' = <<"open">>
        BY <3>2, Zenon DEF Open, Finish
      <4> QED
        BY <3>1, <4>1
    <3>3. CASE Close
      <4>1. call' = <<"close">>
        BY <3>3, Zenon DEF Close, Finish
      <4> QED
        BY <3>1, <4>1
    <3>4. ASSUME NEW mem \in Buffers, SetBuf(mem)
          PROVE  FALSE
      <4>1. call' = <<"setbuf">>
        BY <3>4, Zenon DEF SetBuf, Finish
      <4> QED
        BY <3>1, <4>1
    <3>5. CASE Sgetc \/ Sbumpc \/ \E n \in 1 .. MaxString : Sgetn(n)
      BY <3>1, <3>5 DEF Sgetc, Sbumpc, Sgetn, Finish
    <3>6. CASE Sungetc
      <4>1. call' = <<"sungetc">>
        BY <3>6, Zenon DEF Sungetc, Finish
      <4> QED
        BY <3>1, <4>1
    <3>7. ASSUME NEW c \in Char, Sputbackc(c)
          PROVE  FALSE
      <4>1. call' = <<"sputbackc", c>>
        BY <3>7, Zenon DEF Sputbackc, Finish
      <4> QED
        BY <3>1, <4>1
    <3>8. ASSUME NEW c \in Char, Sputc(c)
          PROVE  FALSE
      <4>1. call' = <<"sputc", c>>
        BY <3>8, Zenon DEF Sputc, Finish
      <4> QED
        BY <3>1, <4>1
    <3>9. ASSUME NEW c \in Strings, Sputn(c)
          PROVE  FALSE
      <4>1. call' = <<"sputn", c>>
        BY <3>9, Zenon DEF Sputn, Finish
      <4> QED
        BY <3>1, <4>1
    <3>10. CASE \E way \in {"beg", "cur", "end"}, off \in Offsets : Seek(way, off)
      BY <3>1, <3>10 DEF Seek, Finish
    <3> QED
      BY <1>1, <2>5, <3>2, <3>3, <3>4, <3>5, <3>6, <3>7, <3>8, <3>9, <3>10 DEF Next
  <2> QED
    BY <2>3, <2>4, <2>5
<1>3. PlaceInv /\ [Next]_vars => [A]_vars
  BY <1>1
<1> HIDE DEF A
<1>4. Spec => []PlaceInv
  BY InitPlace, PlaceNext, PTL DEF Spec
<1>5. Spec => [][A]_vars
  BY <1>3, <1>4, PTL DEF Spec
<1> QED
  BY <1>5 DEF SyncSkipsNothing, A

-----------------------------------------------------------------------------
(* What a write does to the file.                                          *)
LEMMA WriteAtShape ==
    ASSUME NEW f \in Text, NEW at \in Nat, NEW c \in Text, c # <<>>
    PROVE  LET w == WriteAt(f, at, c)
               end == at + Len(c)
           IN  /\ w \in Text /\ Len(w) = IF end > Len(f) THEN end ELSE Len(f)
               /\ \A i \in 1 .. Len(w) :
                    w[i] = IF i > at /\ i <= end THEN c[i - at]
                           ELSE IF i <= Len(f) THEN f[i] ELSE Hole
<1> DEFINE end == at + Len(c)
           m == IF end > Len(f) THEN end ELSE Len(f)
           w == WriteAt(f, at, c)
<1>1. w \in Text
  BY WriteAtType
<1>2. m \in Nat
  BY DEF Text
<1>3. w = [i \in 1 .. m |-> IF i > at /\ i <= end THEN c[i - at]
                            ELSE IF i <= Len(f) THEN f[i] ELSE Hole]
  BY DEF WriteAt
<1> HIDE DEF w, m
<1>4. Len(w) = m
  <2>1. DOMAIN w = 1 .. m
    BY <1>3, Zenon
  <2>2. DOMAIN w = 1 .. Len(w) /\ Len(w) \in Nat
    BY <1>1, LenProperties DEF Text
  <2> QED
    BY <1>2, <2>1, <2>2
<1>5. \A i \in 1 .. m : w[i] = IF i > at /\ i <= end THEN c[i - at]
                               ELSE IF i <= Len(f) THEN f[i] ELSE Hole
  BY <1>3
<1> QED
  BY <1>1, <1>4, <1>5 DEF w, m

(* Two writes one after the other are the write of both texts.             *)
LEMMA WriteTwice ==
    ASSUME NEW f \in Text, NEW at \in Nat, NEW a \in Text, NEW b \in Text
    PROVE  WriteAt(WriteAt(f, at, a), at + Len(a), b) = WriteAt(f, at, a \o b)
<1>1. Len(a) \in Nat /\ Len(b) \in Nat /\ Len(f) \in Nat
  BY DEF Text
<1>2. a \o b \in Text /\ Len(a \o b) = Len(a) + Len(b)
  BY ConcatProperties DEF Text
<1>3. CASE a = <<>>
  <2>1. a \o b = b /\ Len(a) = 0
    BY <1>3, ConcatEmptySeq, EmptySeq DEF Text
  <2>2. WriteAt(f, at, a) = f /\ at + 0 = at
    BY <1>3 DEF WriteAt
  <2> QED
    BY <2>1, <2>2
<1>4. CASE b = <<>>
  <2>1. a \o b = a
    BY <1>4, ConcatEmptySeq DEF Text
  <2>2. \A g : WriteAt(g, at + Len(a), b) = g
    BY <1>4 DEF WriteAt
  <2> QED
    BY <2>1, <2>2
<1>5. CASE a # <<>> /\ b # <<>>
  <2> DEFINE v == WriteAt(f, at, a)
             w == WriteAt(v, at + Len(a), b)
             ab == a \o b
             x == WriteAt(f, at, ab)
  <2>1. Len(a) > 0 /\ Len(b) > 0
    BY <1>1, <1>5, EmptySeq DEF Text
  <2>2. ab \in Text /\ ab # <<>> /\ Len(ab) = Len(a) + Len(b)
    <3>1. Len(ab) # 0
      BY <1>2, <2>1, <1>1
    <3> QED
      BY <1>2, <3>1, EmptySeq
  <2>3. \A i \in 1 .. Len(a) + Len(b) : ab[i] = IF i <= Len(a) THEN a[i] ELSE b[i - Len(a)]
    BY ConcatProperties DEF Text
  <2> HIDE DEF ab
  <2>4. /\ v \in Text /\ Len(v) = IF at + Len(a) > Len(f) THEN at + Len(a) ELSE Len(f)
        /\ \A i \in 1 .. Len(v) :
             v[i] = IF i > at /\ i <= at + Len(a) THEN a[i - at]
                    ELSE IF i <= Len(f) THEN f[i] ELSE Hole
    BY <1>5, WriteAtShape
  <2> HIDE DEF v
  <2>5. at + Len(a) \in Nat
    BY <1>1
  <2>6. /\ w \in Text
        /\ Len(w) = IF at + Len(a) + Len(b) > Len(v) THEN at + Len(a) + Len(b) ELSE Len(v)
        /\ \A i \in 1 .. Len(w) :
             w[i] = IF i > at + Len(a) /\ i <= at + Len(a) + Len(b) THEN b[i - (at + Len(a))]
                    ELSE IF i <= Len(v) THEN v[i] ELSE Hole
    BY <1>5, <2>4, <2>5, WriteAtShape
  <2> HIDE DEF w
  <2>7. /\ x \in Text
        /\ Len(x) = IF at + Len(ab) > Len(f) THEN at + Len(ab) ELSE Len(f)
        /\ \A i \in 1 .. Len(x) :
             x[i] = IF i > at /\ i <= at + Len(ab) THEN ab[i - at]
                    ELSE IF i <= Len(f) THEN f[i] ELSE Hole
    BY <2>2, WriteAtShape
  <2> HIDE DEF x
  <2>8. Len(w) = Len(x) /\ Len(w) \in Nat
    BY <1>1, <2>2, <2>4, <2>6, <2>7, SMTT(20) DEF Text
  <2>9. ASSUME NEW i \in 1 .. Len(w)
        PROVE  w[i] = x[i]
    <3>1. i \in Nat /\ i >= 1 /\ i \in 1 .. Len(x)
      BY <2>8
    <3>2. CASE i > at + Len(a) /\ i <= at + Len(a) + Len(b)
      <4>1. w[i] = b[i - (at + Len(a))]
        BY <2>6, <3>2
      <4>2. x[i] = ab[i - at]
        BY <1>1, <2>2, <2>7, <3>1, <3>2
      <4>3. i - at \in 1 .. Len(a) + Len(b) /\ ~(i - at <= Len(a))
            /\ i - at - Len(a) = i - (at + Len(a))
        BY <1>1, <3>1, <3>2
      <4>4. ab[i - at] = b[i - at - Len(a)]
        BY <2>3, <4>3
      <4> QED
        BY <4>1, <4>2, <4>3, <4>4
    <3>3. CASE i > at /\ i <= at + Len(a)
      <4>1. i \in 1 .. Len(v)
        BY <1>1, <2>4, <3>1, <3>3
      <4>2. w[i] = v[i]
        BY <1>1, <2>6, <3>3, <4>1
      <4>3. v[i] = a[i - at]
        BY <2>4, <3>3, <4>1
      <4>4. x[i] = ab[i - at]
        BY <1>1, <2>2, <2>7, <3>1, <3>3
      <4>5. i - at \in 1 .. Len(a) + Len(b) /\ i - at <= Len(a)
        BY <1>1, <3>1, <3>3
      <4>6. ab[i - at] = a[i - at]
        BY <2>3, <4>5
      <4> QED
        BY <4>2, <4>3, <4>4, <4>6
    <3>4. CASE ~(i > at /\ i <= at + Len(a) + Len(b))
      <4>1. x[i] = IF i <= Len(f) THEN f[i] ELSE Hole
        BY <1>1, <2>2, <2>7, <3>1, <3>4
      <4>2. w[i] = IF i <= Len(v) THEN v[i] ELSE Hole
        BY <1>1, <2>6, <3>4
      <4>3. i <= Len(v) => v[i] = IF i <= Len(f) THEN f[i] ELSE Hole
        BY <1>1, <2>4, <3>1, <3>4
      <4>4. i <= Len(f) => i <= Len(v)
        BY <1>1, <2>4, <3>1
      <4> QED
        BY <4>1, <4>2, <4>3, <4>4
    <3> QED
      BY <1>1, <3>1, <3>2, <3>3, <3>4
  <2>10. w = x
    BY <2>6, <2>7, <2>8, <2>9, SeqEqual DEF Text
  <2> QED
    BY <2>10 DEF w, x, v, ab
<1> QED
  BY <1>3, <1>4, <1>5

-----------------------------------------------------------------------------
(* The file with all output accepted, where the next output goes, and what *)
(* it means to accept c, or nothing.                                       *)
At(s)     == IF "app" \in s.mode THEN Len(s.file) ELSE s.fpos
Output(s) == IF s.pn > 0 THEN WriteAt(s.file, At(s), Pending(s)) ELSE s.file
Target(s) == IF "app" \in s.mode THEN Len(Output(s)) ELSE Position(s)

Idle(s, t) == SameMode(s, t) /\ Output(t) = Output(s) /\ Position(t) = Position(s)
Puts(s, t, c) ==
    /\ SameMode(s, t)
    /\ Output(t) = WriteAt(Output(s), Target(s), c)
    /\ Position(t) = IF c = <<>> THEN Position(s) ELSE Target(s) + Len(c)

LEMMA CharText ==
    ASSUME NEW c \in Seq(Char)
    PROVE  c \in Text /\ Len(c) \in Nat /\ (c = <<>> <=> Len(c) = 0)
<1>1. Seq(Char) \subseteq Seq(Char \cup {Hole})
  BY SeqMonotonic
<1>2. Len(c) \in Nat /\ (c = <<>> <=> Len(c) = 0)
  BY EmptySeq, LenProperties
<1> QED
  BY <1>1, <1>2 DEF Text

LEMMA OutputType ==
    ASSUME NEW s, Good(s)
    PROVE  /\ At(s) \in Nat /\ Output(s) \in Text /\ Len(Output(s)) \in Nat
           /\ s.pn > 0 => /\ Position(s) = At(s) + s.pn /\ Position(s) = Target(s)
                          /\ Position(s) \in Nat /\ Position(s) <= Len(Output(s))
<1>1. s.file \in Text /\ Len(s.file) \in Nat /\ s.fpos \in Nat /\ s.pn \in Nat
  BY DEF Good, State, Text
<1>2. At(s) \in Nat
  BY <1>1 DEF At
<1>3. Pending(s) \in Text /\ Len(Pending(s)) = s.pn /\ (s.pn > 0 => Pending(s) # <<>>)
  BY <1>1, PendingType, CharText
<1>4. CASE s.pn > 0
  <2> DEFINE p == Pending(s)
             w == WriteAt(s.file, At(s), p)
  <2>1. /\ w \in Text
        /\ Len(w) = IF At(s) + Len(p) > Len(s.file) THEN At(s) + Len(p) ELSE Len(s.file)
    BY <1>1, <1>2, <1>3, <1>4, WriteAtShape
  <2>2. Output(s) = w
    BY <1>4 DEF Output
  <2> HIDE DEF w
  <2>3. Len(w) \in Nat
    BY <2>1 DEF Text
  <2>4. Position(s) = At(s) + s.pn
    BY <1>4 DEF Position, At
  <2>5. CASE "app" \in s.mode
    <3>1. At(s) = Len(s.file)
      BY <2>5 DEF At
    <3> QED
      BY <1>1, <1>2, <1>3, <1>4, <2>1, <2>2, <2>3, <2>4, <2>5, <3>1 DEF Target
  <2>6. CASE "app" \notin s.mode
    BY <1>1, <1>2, <1>3, <1>4, <2>1, <2>2, <2>3, <2>4, <2>6 DEF Target
  <2> QED
    BY <2>5, <2>6
<1>5. CASE ~(s.pn > 0)
  BY <1>1, <1>2, <1>5 DEF Output
<1> QED
  BY <1>2, <1>4, <1>5

(* The input that was read ahead does not count.                           *)
LEMMA PositionType ==
    ASSUME NEW s, Good(s), Behind(s)
    PROVE  /\ Position(s) \in Nat /\ Target(s) \in Nat
           /\ s.pn = 0 /\ NoInput(s) => Position(s) = s.fpos /\ Target(s) = At(s)
<1>1. /\ s \in State /\ s.gn \in Nat /\ s.ge \in Nat /\ s.gn <= s.ge /\ s.cur \in Nat
      /\ s.fpos \in Nat /\ s.area \in {"buf", "pb"} /\ s.pn \in Nat
  BY DEF Good, State, Bounds
<1>2. CASE s.pn > 0
  BY <1>2, OutputType
<1>3. CASE s.pn = 0
  <2>1. Position(s) = s.fpos - m_input_size(s) /\ Output(s) = s.file
    BY <1>3 DEF Position, Output
  <2>2. m_input_size(s) \in Nat /\ m_input_size(s) <= s.fpos
    <3>1. CASE s.area = "pb"
      BY <1>1, <3>1 DEF m_input_size, Behind
    <3>2. CASE s.area # "pb"
      <4>1. s.area = "buf" /\ s.ge = s.cur
        BY <1>1, <3>2 DEF Good, Bounds
      <4> QED
        BY <1>1, <4>1 DEF m_input_size, Behind
    <3> QED
      BY <3>1, <3>2
  <2>3. NoInput(s) => m_input_size(s) = 0
    BY <1>1 DEF NoInput, m_input_size
  <2>4. Len(Output(s)) \in Nat
    BY OutputType
  <2> QED
    BY <1>1, <2>1, <2>2, <2>3, <2>4 DEF Target, At
<1> QED
  BY <1>1, <1>2, <1>3

LEMMA IdlePuts ==
    ASSUME NEW s, NEW t, NEW u, NEW c, Idle(s, t), Puts(t, u, c)
    PROVE  Puts(s, u, c)
<1>1. Target(t) = Target(s)
  BY DEF Idle, SameMode, Target
<1> QED
  BY <1>1 DEF Idle, Puts, SameMode

LEMMA PutsNothing ==
    ASSUME NEW s, NEW t, Idle(s, t)
    PROVE  Puts(s, t, <<>>)
BY DEF Idle, Puts, WriteAt

LEMMA PutsTwice ==
    ASSUME NEW s, NEW t, NEW u, NEW a \in Seq(Char), NEW b \in Seq(Char),
           Good(s), Behind(s), Puts(s, t, a), Puts(t, u, b)
    PROVE  Puts(s, u, a \o b)
<1> DEFINE o == Output(s)
           g == Target(s)
           v == WriteAt(o, g, a)
<1>1. o \in Text /\ Len(o) \in Nat /\ g \in Nat /\ Position(s) \in Nat
  BY OutputType, PositionType
<1>2. /\ a \in Text /\ b \in Text /\ Len(a) \in Nat /\ Len(b) \in Nat
      /\ (a = <<>> <=> Len(a) = 0) /\ (b = <<>> <=> Len(b) = 0)
  BY CharText
<1>3. SameMode(s, t) /\ SameMode(t, u) /\ SameMode(s, u)
  BY DEF Puts, SameMode
<1>4. Output(t) = v
  BY DEF Puts
<1>5. a \o b \in Seq(Char) /\ Len(a \o b) = Len(a) + Len(b)
  BY ConcatProperties
<1>6. (a \o b = <<>>) <=> Len(a) + Len(b) = 0
  BY <1>5, CharText
<1>7. CASE a = <<>>
  <2>1. v = o /\ Position(t) = Position(s)
    BY <1>7 DEF WriteAt, Puts
  <2>2. Idle(s, t)
    BY <1>3, <1>4, <2>1 DEF Idle
  <2>3. a \o b = b
    BY <1>7, ConcatEmptySeq
  <2> QED
    BY <2>2, <2>3, IdlePuts
<1>8. CASE a # <<>>
  <2> HIDE DEF o
  <2>1. Len(v) = IF g + Len(a) > Len(o) THEN g + Len(a) ELSE Len(o)
    BY <1>1, <1>2, <1>8, WriteAtShape
  <2>2. Position(t) = g + Len(a)
    BY <1>8 DEF Puts
  <2> HIDE DEF v
  <2>3. Target(t) = g + Len(a)
    <3>1. CASE "app" \in s.mode
      <4>1. g = Len(o) /\ Target(t) = Len(v)
        BY <1>3, <1>4, <3>1 DEF Target, SameMode, o
      <4> QED
        BY <1>1, <1>2, <1>8, <2>1, <4>1
    <3>2. CASE "app" \notin s.mode
      BY <1>3, <2>2, <3>2 DEF Target, SameMode
    <3> QED
      BY <3>1, <3>2
  <2>4. Output(u) = WriteAt(v, g + Len(a), b)
    BY <1>4, <2>3 DEF Puts
  <2>5. Output(u) = WriteAt(o, g, a \o b)
    BY <1>1, <1>2, <2>4, WriteTwice DEF v
  <2>6. Position(u) = g + Len(a \o b)
    <3>1. CASE b = <<>>
      BY <1>1, <1>2, <1>5, <2>2, <3>1 DEF Puts
    <3>2. CASE b # <<>>
      BY <1>1, <1>2, <1>5, <2>3, <3>2 DEF Puts
    <3> QED
      BY <3>1, <3>2
  <2>7. a \o b # <<>>
    BY <1>2, <1>6, <1>8
  <2> QED
    BY <1>3, <2>5, <2>6, <2>7 DEF Puts, o
<1> QED
  BY <1>7, <1>8

(* The private members: the input is given back, the output is written,    *)
(* the put area is set up, and nothing is put.                             *)
LEMMA FlushFields ==
    ASSUME NEW s, Good(s), Behind(s)
    PROVE  LET t == m_flush_input(s) IN
           /\ t.file = s.file /\ t.fpos = s.fpos - m_input_size(s) /\ t.mem = s.mem
           /\ SamePut(s, t) /\ NoInput(t) /\ t.gn = 0 /\ t.cur = 0
<1> DEFINE k == m_input_size(s)
           a == SeekFile(s, s.fpos, -k)
           t == SetG(SetCur(a, 0), "buf", 0, 0)
<1>1. /\ s \in State /\ s.gn \in Nat /\ s.ge \in Nat /\ s.gn <= s.ge /\ s.cur \in Nat
      /\ s.fpos \in Nat /\ s.area \in {"buf", "pb"}
  BY DEF Good, State, Bounds
<1>2. k \in Nat /\ k <= s.fpos
  <2>1. CASE s.area = "pb"
    BY <1>1, <2>1 DEF m_input_size, Behind
  <2>2. CASE s.area # "pb"
    <3>1. s.area = "buf" /\ s.ge = s.cur
      BY <1>1, <2>2 DEF Good, Bounds
    <3> QED
      BY <1>1, <3>1 DEF m_input_size, Behind
  <2> QED
    BY <2>1, <2>2
<1>3. m_flush_input(s) = t
  BY DEF m_flush_input
<1> HIDE DEF k
<1>4. a = SetFile(s, s.file, s.fpos - k)
  BY <1>1, <1>2 DEF SeekFile
<1>5. /\ t.file = s.file /\ t.fpos = s.fpos - k /\ t.mem = s.mem
      /\ t.pn = s.pn /\ t.pe = s.pe /\ t.area = "buf" /\ t.ge = 0 /\ t.gn = 0 /\ t.cur = 0
  BY <1>1, <1>2, <1>4 DEF SetFile, SetCur, SetG, State
<1> HIDE DEF t
<1> QED
  BY <1>3, <1>5 DEF SamePut, NoInput, k

LEMMA FlushIdle ==
    ASSUME NEW s, Good(s), Behind(s), s.pn = 0 \/ NoInput(s)
    PROVE  /\ Idle(s, m_flush_input(s))
           /\ s.pn = 0 => m_flush_input(s).fpos = Position(s)
<1> DEFINE t == m_flush_input(s)
<1>1. /\ t.file = s.file /\ t.fpos = s.fpos - m_input_size(s) /\ t.mem = s.mem
      /\ SamePut(s, t) /\ NoInput(t) /\ SameMode(s, t) /\ t.gn = 0 /\ t.cur = 0
  BY FlushFields, FlushInputSound
<1> HIDE DEF t
<1>2. /\ s.fpos \in Nat /\ s.pn \in Nat /\ s.gn \in Nat /\ s.ge \in Nat /\ s.gn <= s.ge
      /\ m_input_size(s) \in Int
  BY DEF Good, State, Bounds, m_input_size
<1>3. CASE s.pn = 0
  <2>1. Position(s) = s.fpos - m_input_size(s) /\ Output(s) = s.file
    BY <1>3 DEF Position, Output
  <2>2. m_input_size(t) = 0
    BY <1>1 DEF m_input_size, NoInput
  <2>3. Position(t) = t.fpos /\ Output(t) = t.file
    BY <1>1, <1>2, <1>3, <2>2 DEF Position, Output, SamePut
  <2> QED
    BY <1>1, <2>1, <2>3 DEF Idle, t
<1>4. CASE s.pn > 0 /\ NoInput(s)
  <2>1. m_input_size(s) = 0
    BY <1>2, <1>4 DEF NoInput, m_input_size
  <2>2. t.fpos = s.fpos /\ t.pn = s.pn
    BY <1>1, <1>2, <2>1 DEF SamePut
  <2>3. Output(t) = Output(s) /\ Position(t) = Position(s)
    BY <1>1, <1>4, <2>2 DEF Output, Position, At, Pending, SameMode
  <2> QED
    BY <1>1, <1>4, <2>3 DEF Idle, t
<1> QED
  BY <1>2, <1>3, <1>4

LEMMA InitFile ==
    ASSUME NEW s \in State
    PROVE  SameFile(s, m_init(s)) /\ m_init(s).gn = 0
           /\ m_init(s).pe = IF "out" \in s.mode THEN Size(s) ELSE 0
BY DEF m_init, SetP, SetG, SetCur, State, SameFile

LEMMA WriteAll ==
    ASSUME NEW s, NEW c \in Seq(Char), Taken(s, c) = Len(c), c # <<>>
    PROVE  WriteFile(s, c) = SetFile(s, WriteAt(s.file, At(s), c), At(s) + Len(c))
<1>1. Len(c) # 0
  BY CharText
<1>2. SubSeq(c, 1, Len(c)) = c
  BY SubSeqFull
<1>3. WriteFile(s, c) = SetFile(s, WriteAt(s.file, At(s), SubSeq(c, 1, Taken(s, c))),
                                At(s) + Taken(s, c))
  <2>1. Taken(s, c) # 0
    BY <1>1
  <2> QED
    BY <2>1, Zenon DEF WriteFile, At
<1> QED
  BY <1>2, <1>3, Zenon

LEMMA SyncIdle ==
    ASSUME NEW s, Good(s), Behind(s), limit \in Nat, ~SyncFails(s)
    PROVE  LET t == m_sync(s) IN
           /\ Idle(s, t) /\ NoInput(t) /\ t.pn = 0
           /\ t.file = Output(s) /\ t.fpos = Position(s)
<1> DEFINE t == m_sync(s)
           p == Pending(s)
<1>1. s \in State /\ s.pn \in Nat /\ s.file \in Text /\ s.fpos \in Nat
  BY DEF Good, State, Text
<1>2. /\ Good(t) /\ SameMode(s, t) /\ NoInput(t) /\ t.pn = 0 /\ t.gn \in Nat /\ t.gn <= t.ge
      /\ t.fpos \in Nat
  BY SyncSound DEF Sound, Good, State, Bounds, NoInput
<1>3. SUFFICES t.file = Output(s) /\ t.fpos = Position(s)
  <2>1. m_input_size(t) = 0
    BY <1>2 DEF NoInput, m_input_size
  <2>2. Output(t) = t.file /\ Position(t) = t.fpos
    BY <1>2, <2>1 DEF Output, Position
  <2> QED
    BY <1>2, <1>3, <2>2 DEF Idle
<1>4. CASE s.pn > 0
  <2> DEFINE w == WriteFile(s, p)
  <2>1. p \in Seq(Char) /\ Len(p) = s.pn /\ At(s) \in Nat
    BY PendingType, OutputType
  <2>2. Taken(s, p) = Len(p) /\ p # <<>>
    BY <1>4, <2>1, CharText DEF SyncFails
  <2> HIDE DEF p
  <2>3. w = SetFile(s, WriteAt(s.file, At(s), p), At(s) + Len(p))
    BY <2>1, <2>2, WriteAll
  <2>4. w = SetFile(s, WriteAt(s.file, At(s), p), At(s) + s.pn)
    BY <2>1, <2>3
  <2>5. w \in State
    BY <2>1, WriteFileSound, <1>1
  <2>6. w.file = WriteAt(s.file, At(s), p) /\ w.fpos = At(s) + s.pn
    BY <1>1, <2>4 DEF SetFile, State
  <2>7. t = m_init(w)
    BY <1>4 DEF m_sync, p
  <2> HIDE DEF w, t
  <2> QED
    BY <1>4, <2>5, <2>6, <2>7, InitFile, OutputType DEF SameFile, Output, p
<1>5. CASE s.pn = 0 /\ "in" \in s.mode
  <2>1. t = m_flush_input(s)
    BY <1>5 DEF m_sync
  <2> QED
    BY <1>5, <2>1, FlushFields, FlushIdle DEF Output
<1>6. CASE s.pn = 0 /\ "in" \notin s.mode
  <2>1. t = s
    BY <1>6 DEF m_sync
  <2>2. NoInput(s)
    BY <1>6 DEF NoInput, Good, InputMode
  <2> QED
    BY <1>6, <2>1, <2>2, PositionType DEF Output
<1> QED
  BY <1>1, <1>4, <1>5, <1>6

LEMMA BeginIdle ==
    ASSUME NEW s, Good(s)
    PROVE  Idle(s, BeginOutput(s)) /\ (Behind(s) => Behind(BeginOutput(s)))
<1>1. s \in State /\ s.pe \in Nat /\ s.pn \in Nat /\ s.pn <= s.pe /\ Len(s.mem) \in Nat
  BY DEF Good, Bounds, State
<1>2. CASE s.pe = 0
  <2> DEFINE t == SetP(s, 0, Len(s.mem))
  <2>1. BeginOutput(s) = t
    BY <1>2 DEF BeginOutput, Size
  <2>2. PutSet(s, t, 0, Len(s.mem))
    BY <1>1, SetPFields, 0 \in Nat, Zenon
  <2> HIDE DEF t
  <2>3. s.pn = 0 /\ t.pn = 0
    BY <1>1, <1>2, <2>2 DEF PutSet
  <2>4. Output(t) = Output(s) /\ Position(t) = Position(s)
    BY <2>2, <2>3
       DEF PutSet, SameFile, SameGet, SameMem, Output, Position, m_input_size
  <2> QED
    BY <2>1, <2>2, <2>4 DEF PutSet, Idle, SameFile, SameGet, SameMem, Behind
<1>3. CASE s.pe # 0
  BY <1>3 DEF BeginOutput, Idle, SameMode
<1> QED
  BY <1>2, <1>3

(* What is put past the buffer, and what is stored in it.                  *)
LEMMA WritePuts ==
    ASSUME NEW s, Good(s), NoInput(s), s.pn = 0, limit \in Nat, NEW c \in Seq(Char),
           Taken(s, c) = Len(c)
    PROVE  Puts(s, WriteFile(s, c), c)
<1> DEFINE t == WriteFile(s, c)
<1>1. s \in State /\ s.file \in Text /\ s.fpos \in Nat /\ Behind(s)
  BY NoInputBehind DEF Good, State, Text
<1>2. Good(t) /\ SameBuffer(s, t) /\ NoInput(t) /\ t.pn = 0 /\ t.gn = s.gn
  BY <1>1, WriteFileSound, SameBufferGood, WriteNoInput DEF SameBuffer, SamePut, SameGet
<1>3. SameMode(s, t)
  BY <1>2 DEF SameBuffer
<1>4. Position(s) = s.fpos /\ Target(s) = At(s) /\ At(s) \in Nat
  BY <1>1, PositionType, OutputType
<1>5. Output(s) = s.file /\ Output(t) = t.file
  BY <1>2 DEF Output
<1>6. Position(t) = t.fpos
  BY <1>2, NoInputBehind, PositionType
<1>7. CASE c = <<>>
  <2>1. t = s
    <3>1. Taken(s, c) = 0
      BY <1>7, CharText
    <3> QED
      BY <3>1 DEF WriteFile
  <2> HIDE DEF t
  <2> QED
    BY <1>3, <1>7, <2>1 DEF Puts, WriteAt, t
<1>8. CASE c # <<>>
  <2>1. t = SetFile(s, WriteAt(s.file, At(s), c), At(s) + Len(c))
    BY <1>8, WriteAll
  <2>2. t.file = WriteAt(s.file, At(s), c) /\ t.fpos = At(s) + Len(c)
    BY <1>1, <2>1 DEF SetFile, State
  <2> HIDE DEF t
  <2> QED
    BY <1>3, <1>4, <1>5, <1>6, <1>8, <2>2 DEF Puts, t
<1> QED
  BY <1>7, <1>8

LEMMA StoreFields ==
    ASSUME NEW s, Good(s), NEW c \in Seq(Char), s.pn + Len(c) <= s.pe
    PROVE  LET t == StoreChars(s, c) IN
           /\ SameFile(s, t) /\ t.cur = s.cur
           /\ Pending(t) = Pending(s) \o c
<1> DEFINE m == [i \in 1 .. Len(s.mem) |->
                   IF i > s.pn /\ i <= s.pn + Len(c) THEN c[i - s.pn] ELSE s.mem[i]]
           a == SetMem(s, m)
           t == SetP(a, a.pn + Len(c), a.pe)
<1>1. /\ s \in State /\ s.mem \in Seq(Char \cup {Hole, Junk}) /\ s.pn \in Nat /\ s.pe \in Nat
      /\ s.pe <= Len(s.mem) /\ Len(c) \in Nat /\ Len(s.mem) \in Nat
  BY DEF Good, State, Bounds
<1>2. /\ m \in Seq(Char \cup {Hole, Junk}) /\ Len(m) = Len(s.mem)
      /\ \A i \in 1 .. Len(s.mem) :
            m[i] = IF i > s.pn /\ i <= s.pn + Len(c) THEN c[i - s.pn] ELSE s.mem[i]
  <2>1. /\ \A i \in 1 .. Len(s.mem) :
            m[i] = IF i > s.pn /\ i <= s.pn + Len(c) THEN c[i - s.pn] ELSE s.mem[i]
        /\ DOMAIN m = 1 .. Len(s.mem)
    BY Zenon
  <2>2. \A i \in 1 .. Len(s.mem) : m[i] \in Char \cup {Hole, Junk}
    <3> SUFFICES ASSUME NEW i \in 1 .. Len(s.mem)
                 PROVE  m[i] \in Char \cup {Hole, Junk}
      OBVIOUS
    <3>1. i > s.pn /\ i <= s.pn + Len(c) => i - s.pn \in 1 .. Len(c)
      BY <1>1
    <3>2. i > s.pn /\ i <= s.pn + Len(c) => c[i - s.pn] \in Char
      BY <3>1, ElementOfSeq
    <3>3. s.mem[i] \in Char \cup {Hole, Junk}
      BY <1>1, ElementOfSeq
    <3> QED
      BY <2>1, <3>2, <3>3
  <2> QED
    BY <1>1, <2>1, <2>2
<1> HIDE DEF m
<1>3. /\ a \in State /\ a.mem = m /\ a.cur = s.cur /\ SameFile(s, a) /\ SamePut(s, a)
  BY <1>1, <1>2, SetMemFields
<1> HIDE DEF a
<1>4. StoreChars(s, c) = t
  BY DEF StoreChars, pbump, m, a
<1>5. PutSet(a, t, a.pn + Len(c), a.pe)
  <2>1. a.pn + Len(c) \in Nat /\ a.pe \in Nat
    BY <1>1, <1>3 DEF SamePut
  <2> QED
    BY <1>3, <2>1, SetPFields, Zenon
<1> HIDE DEF t
<1>6. t.mem = m /\ t.cur = s.cur /\ SameFile(s, t) /\ t.pn = s.pn + Len(c)
  BY <1>3, <1>5 DEF PutSet, SameMem, SameFile, SamePut
<1>7. Pending(t) = Pending(s) \o c
  <2> DEFINE p == Pending(s)
             q == Pending(t)
  <2>1. Good(t)
    BY <1>4, StoreSound
  <2>2. p \in Seq(Char) /\ Len(p) = s.pn /\ q \in Seq(Char) /\ Len(q) = s.pn + Len(c)
    BY <1>6, <2>1, PendingType
  <2>3. \A i \in 1 .. s.pn : p[i] = s.mem[i]
    <3>1. \A i \in 1 .. s.pn : s.mem[i] \in Char
      BY DEF Good, Initialised
    <3>2. \A i \in 1 .. s.pn - 1 + 1 : p[i] = s.mem[1 + i - 1]
      BY <1>1, <3>1, SubSeqProperties DEF Pending
    <3> QED
      BY <1>1, <3>2
  <2>4. \A i \in 1 .. t.pn : q[i] = m[i]
    <3>1. \A i \in 1 .. t.pn : t.mem[i] \in Char
      BY <2>1 DEF Good, Initialised
    <3>2. \A i \in 1 .. t.pn - 1 + 1 : q[i] = t.mem[1 + i - 1]
      BY <1>1, <1>6, <3>1, SubSeqProperties DEF Pending
    <3> QED
      BY <1>1, <1>6, <3>2
  <2> HIDE DEF p, q
  <2>5. /\ p \o c \in Seq(Char) /\ Len(p \o c) = s.pn + Len(c)
        /\ \A i \in 1 .. s.pn + Len(c) : (p \o c)[i] = IF i <= s.pn THEN p[i] ELSE c[i - s.pn]
    BY <2>2, ConcatProperties, SMTT(20)
  <2>6. ASSUME NEW i \in 1 .. Len(q)
        PROVE  q[i] = (p \o c)[i]
    <3>1. i \in 1 .. s.pn + Len(c) /\ i \in 1 .. t.pn /\ i \in 1 .. Len(s.mem)
      BY <1>1, <1>6, <2>2
    <3>2. q[i] = m[i]
      BY <2>4, <3>1
    <3>3. CASE i <= s.pn
      <4>1. m[i] = s.mem[i] /\ i \in 1 .. s.pn
        BY <1>1, <1>2, <3>1, <3>3
      <4> QED
        BY <2>3, <2>5, <3>1, <3>2, <3>3, <4>1
    <3>4. CASE ~(i <= s.pn)
      <4>1. m[i] = c[i - s.pn]
        BY <1>1, <1>2, <3>1, <3>4
      <4> QED
        BY <2>5, <3>1, <3>2, <3>4, <4>1
    <3> QED
      BY <3>3, <3>4
  <2>7. q = p \o c
    BY <2>2, <2>5, <2>6, SeqEqual
  <2> QED
    BY <2>7 DEF p, q
<1> QED
  BY <1>4, <1>6, <1>7

LEMMA StorePuts ==
    ASSUME NEW s, Good(s), NEW c \in Seq(Char), s.pn + Len(c) <= s.pe, NoInput(s)
    PROVE  Puts(s, StoreChars(s, c), c)
<1> DEFINE t == StoreChars(s, c)
           p == Pending(s)
<1>1. /\ Good(t) /\ SameMode(s, t) /\ SameGet(s, t) /\ t.pn = s.pn + Len(c)
      /\ SameFile(s, t) /\ t.cur = s.cur /\ Pending(t) = p \o c
  BY StoreSound, StoreFields
<1> HIDE DEF t
<1>2. /\ s.pn \in Nat /\ Len(c) \in Nat /\ At(s) \in Nat /\ s.file \in Text
      /\ (c = <<>> <=> Len(c) = 0) /\ c \in Text
  BY CharText, OutputType DEF Good, State, Text
<1>3. p \in Seq(Char) /\ Len(p) = s.pn /\ p \in Text /\ (p = <<>> <=> s.pn = 0)
  BY PendingType, CharText
<1> HIDE DEF p
<1>4. At(t) = At(s)
  BY <1>1 DEF At, SameMode, SameFile
<1>5. CASE c = <<>>
  <2>1. p \o c = p /\ t.pn = s.pn
    BY <1>1, <1>2, <1>3, <1>5, ConcatEmptySeq
  <2>2. Output(t) = Output(s) /\ Position(t) = Position(s)
    BY <1>1, <1>4, <2>1
       DEF Output, Position, SameFile, SameGet, SameMode, m_input_size, p
  <2> QED
    BY <1>1, <1>5, <2>2, PutsNothing DEF Idle, t
<1>6. CASE c # <<>>
  <2>1. t.pn > 0 /\ Len(c) > 0
    BY <1>1, <1>2, <1>6
  <2>2. Output(t) = WriteAt(s.file, At(s), p \o c) /\ Position(t) = At(s) + (s.pn + Len(c))
    BY <1>1, <1>4, <2>1, OutputType DEF Output, SameFile
  <2>3. WriteAt(s.file, At(s), p \o c) = WriteAt(WriteAt(s.file, At(s), p), At(s) + s.pn, c)
    <3>1. WriteAt(WriteAt(s.file, At(s), p), At(s) + Len(p), c) = WriteAt(s.file, At(s), p \o c)
      <4> DEFINE f == s.file
                 at == At(s)
      <4>1. f \in Text /\ at \in Nat /\ p \in Text /\ c \in Text
        BY <1>2, <1>3
      <4> HIDE DEF f, at
      <4>2. WriteAt(WriteAt(f, at, p), at + Len(p), c) = WriteAt(f, at, p \o c)
        BY <4>1, WriteTwice, ZenonT(30)
      <4> QED
        BY <4>2 DEF f, at
    <3> QED
      BY <1>3, <3>1
  <2>4. Output(s) = WriteAt(s.file, At(s), p)
    BY <1>2, <1>3 DEF Output, WriteAt, p
  <2>5. Target(s) = At(s) + s.pn
    <3>1. CASE s.pn > 0
      BY <3>1, OutputType
    <3>2. CASE s.pn = 0
      BY <1>2, <3>2, PositionType, NoInputBehind
    <3> QED
      BY <1>2, <3>1, <3>2
  <2> QED
    BY <1>1, <1>2, <1>6, <2>2, <2>3, <2>4, <2>5 DEF Puts, t
<1> QED
  BY <1>5, <1>6

(* Each way to put: what the call says it took is what the file gets.      *)
LEMMA OverflowPuts ==
    ASSUME NEW s, Good(s), Behind(s), limit \in Nat, NEW c \in Char, s.pe = 0 \/ Apart(s),
           overflow(s, c).n = 1
    PROVE  Puts(s, overflow(s, c).fb, <<c>>)
<1> DEFINE q == <<c>>
           r == overflow(s, c)
<1>1. /\ q \in Seq(Char) /\ Len(q) = 1 /\ s \in State /\ s.pn \in Nat /\ s.pe \in Nat
      /\ s.pn <= s.pe /\ s.pe <= Len(s.mem) /\ Len(s.mem) \in Nat
  BY DEF Good, State, Bounds
<1>2. "out" \in s.mode
  BY DEF overflow
<1>3. CASE Size(s) = 0
  <2> DEFINE f == IF "in" \in s.mode THEN m_flush_input(s) ELSE s
  <2>1. r = [fb |-> WriteFile(f, q), n |-> Taken(f, q)]
    BY <1>2, <1>3 DEF overflow
  <2>2. s.pn = 0
    BY <1>1, <1>3 DEF Size
  <2>3. Good(f) /\ NoInput(f) /\ f.pn = 0 /\ Idle(s, f)
    <3>1. CASE "in" \in s.mode
      BY <2>2, <3>1, FlushInputSound, FlushIdle DEF Sound, NoInput, SamePut
    <3>2. CASE "in" \notin s.mode
      BY <2>2, <3>2 DEF Good, InputMode, NoInput, Idle, SameMode
    <3> QED
      BY <3>1, <3>2
  <2> HIDE DEF f, q
  <2>4. Taken(f, q) = Len(q)
    BY <1>1, <2>1
  <2>5. Puts(f, WriteFile(f, q), q)
    BY <1>1, <2>3, <2>4, WritePuts
  <2>6. Puts(s, WriteFile(f, q), q)
    BY <2>3, <2>5, IdlePuts
  <2> QED
    BY <2>1, <2>6 DEF q
<1>4. CASE Size(s) # 0
  <2> DEFINE b == BeginOutput(s)
             m == m_sync(b)
             t == StoreChars(m, q)
  <2>1. r = IF SyncFails(b) THEN [fb |-> m, n |-> 0] ELSE [fb |-> t, n |-> 1]
    BY <1>2, <1>4 DEF overflow
  <2>2. /\ Good(b) /\ Behind(b) /\ Idle(s, b) /\ SameMode(s, b) /\ b.pe > 0
    <3>1. Len(s.mem) > 0
      BY <1>1, <1>4 DEF Size
    <3> QED
      BY <3>1, BeginOutputSound, BeginIdle
  <2> HIDE DEF b
  <2>3. ~SyncFails(b) /\ r.fb = t
    BY <2>1
  <2> HIDE DEF r
  <2>4. Good(m) /\ NoInput(m) /\ m.pn = 0 /\ Idle(b, m) /\ m.pe > 0 /\ m.pe \in Nat
    BY <1>2, <2>2, <2>3, SyncSound, SyncIdle, SyncRoom DEF Sound, SameMode, Good, State
  <2> HIDE DEF m, q
  <2>5. Puts(m, t, q)
    <3>1. m.pn + Len(q) <= m.pe
      BY <1>1, <2>4
    <3> QED
      BY <1>1, <2>4, <3>1, StorePuts
  <2> HIDE DEF t
  <2>6. Puts(s, t, q)
    BY <2>2, <2>4, <2>5, IdlePuts
  <2> QED
    BY <2>3, <2>6 DEF r, q
<1> QED
  BY <1>3, <1>4

LEMMA SputcPuts ==
    ASSUME NEW s, Sound(s), Behind(s), limit \in Nat, NEW c \in Char, sputc(s, c).n = 1
    PROVE  Puts(s, sputc(s, c).fb, <<c>>)
<1>1. Good(s) /\ Apart(s) /\ s.pn \in Nat /\ s.pe \in Nat
  BY DEF Sound, Good, State
<1>2. CASE s.pn < s.pe
  <2> DEFINE q == <<c>>
  <2>1. sputc(s, c).fb = StoreChars(s, q)
    BY <1>2 DEF sputc
  <2>2. q \in Seq(Char) /\ s.pn + Len(q) <= s.pe /\ NoInput(s)
    BY <1>1, <1>2 DEF Apart, NoInput
  <2> HIDE DEF q
  <2>3. Puts(s, StoreChars(s, q), q)
    BY <1>1, <2>2, StorePuts
  <2> QED
    BY <2>1, <2>3 DEF q
<1>3. CASE ~(s.pn < s.pe)
  BY <1>1, <1>3, OverflowPuts DEF sputc
<1> QED
  BY <1>2, <1>3

LEMMA StdXsputnPuts ==
    ASSUME NEW s, Sound(s), NoInput(s), limit \in Nat, NEW c \in Seq(Char),
           Len(c) <= Len(s.mem), s.pe > 0 \/ Len(c) = 0, StdXsputn(s, c).n = Len(c)
    PROVE  Puts(s, StdXsputn(s, c).fb, c)
<1> DEFINE k == Min2(Len(c), s.pe - s.pn)
           p == SubSeq(c, 1, k)
           b == StoreChars(s, p)
           x == <<c[k + 1]>>
           o == overflow(b, c[k + 1])
           q == SubSeq(c, k + 2, Len(c))
           t == StoreChars(o.fb, q)
           r == StdXsputn(s, c)
<1>1. r = IF k = Len(c) THEN [fb |-> b, n |-> k]
          ELSE IF o.n = 0 THEN [fb |-> o.fb, n |-> k] ELSE [fb |-> t, n |-> Len(c)]
  BY DEF StdXsputn
<1>2. /\ Good(s) /\ Apart(s) /\ s.pn \in Nat /\ s.pe \in Nat /\ s.pn <= s.pe
      /\ Len(s.mem) \in Nat /\ s.pe <= Len(s.mem) /\ Behind(s) /\ Len(c) \in Nat
  BY NoInputBehind, SMTT(20) DEF Sound, Good, State, Bounds
<1>3. k \in Nat /\ k <= Len(c) /\ s.pn + k <= s.pe /\ (k # Len(c) => s.pn + k = s.pe /\ s.pe > 0)
  BY <1>2 DEF Min2
<1> HIDE DEF k, r
<1>4. p \in Seq(Char) /\ Len(p) = k
  <2>1. p \in Seq(Char) /\ Len(p) = k - 1 + 1
    BY <1>3, PartType
  <2> QED
    BY <1>3, <2>1
<1>5. /\ Good(b) /\ SameMode(s, b) /\ SameGet(s, b) /\ b.pn = s.pn + Len(p) /\ b.pe = s.pe
      /\ Len(b.mem) = Len(s.mem) /\ Puts(s, b, p)
  BY <1>2, <1>3, <1>4, StoreSound, StorePuts
<1>6. CASE k = Len(c)
  <2>1. p = c
    BY <1>6, SubSeqFull
  <2>2. r.fb = b
    BY <1>1, <1>6
  <2> HIDE DEF b, p
  <2> QED
    BY <1>5, <2>1, <2>2 DEF r
<1>7. CASE k # Len(c)
  <2> HIDE DEF p, b
  <2>1. Apart(b) /\ NoInput(b) /\ Behind(b)
    BY <1>2, <1>5, NoInputBehind DEF Apart, SameGet, NoInput
  <2>2. c[k + 1] \in Char /\ k + 1 <= Len(c)
    BY <1>3, <1>7
  <2>3. /\ Sound(o.fb) /\ o.n \in 0 .. 1
        /\ (o.n = 1 /\ b.pn > 0 => o.fb.pn = 1 /\ o.fb.pe = Len(b.mem))
        /\ o.fb = b \/ NoInput(o.fb)
    BY <1>5, <2>1, <2>2, OverflowSound, OverflowInput
  <2>4. o.n = 1 => Puts(b, o.fb, x)
    BY <1>5, <2>1, <2>2, OverflowPuts
  <2>5. x \in Seq(Char) /\ Len(x) = 1
    BY <2>2
  <2> HIDE DEF o, x
  <2>6. o.n = 1 /\ r.fb = t
    <3>1. r.n = Len(c)
      BY DEF r
    <3> QED
      BY <1>1, <1>7, <2>3, <3>1
  <2>7. q \in Seq(Char) /\ Len(q) = Len(c) - (k + 2) + 1
    BY <1>3, <2>2, PartType
  <2>8. p \o x \o q = c
    <3>1. p \o x = SubSeq(c, 1, k + 1)
      <4>1. SubSeq(c, k + 1, k + 1) = x
        <5>1. /\ SubSeq(c, k + 1, k + 1) \in Seq(Char) /\ Len(SubSeq(c, k + 1, k + 1)) = 1
              /\ SubSeq(c, k + 1, k + 1)[1] = c[k + 1]
          <6>1. \A i \in k + 1 .. k + 1 : c[i] \in Char
            BY <2>2
          <6>2. /\ SubSeq(c, k + 1, k + 1) \in Seq(Char)
                /\ Len(SubSeq(c, k + 1, k + 1)) = (k + 1) - (k + 1) + 1
                /\ \A i \in 1 .. (k + 1) - (k + 1) + 1 :
                      SubSeq(c, k + 1, k + 1)[i] = c[k + 1 + i - 1]
            BY <1>3, <6>1, SubSeqProperties
          <6> QED
            BY <1>3, <6>2
        <5>2. x[1] = c[k + 1]
          BY DEF x
        <5>3. \A i \in 1 .. Len(x) : SubSeq(c, k + 1, k + 1)[i] = x[i]
          BY <2>5, <5>1, <5>2
        <5> QED
          BY <2>5, <5>1, <5>3, SeqEqual
      <4>2. 1 \in 1 .. Len(c) + 1 /\ k \in 1 - 1 .. Len(c) /\ k + 1 \in k .. Len(c)
        BY <1>3, <1>2, <2>2
      <4> QED
        BY <4>1, <4>2, ConcatAdjacentSubSeq DEF p
    <3>2. 1 \in 1 .. Len(c) + 1 /\ k + 1 \in 1 - 1 .. Len(c) /\ Len(c) \in k + 1 .. Len(c)
      BY <1>3, <1>2, <2>2
    <3>3. SubSeq(c, 1, k + 1) \o SubSeq(c, k + 1 + 1, Len(c)) = SubSeq(c, 1, Len(c))
      BY <3>2, ConcatAdjacentSubSeq
    <3>4. SubSeq(c, 1, Len(c)) = c /\ k + 1 + 1 = k + 2
      BY <1>3, SubSeqFull
    <3> QED
      BY <3>1, <3>3, <3>4
  <2> HIDE DEF q
  <2>9. NoInput(o.fb) /\ Good(o.fb) /\ o.fb.pn + Len(q) <= o.fb.pe
    <3>1. b.pn > 0
      BY <1>3, <1>4, <1>5, <1>7
    <3> QED
      BY <1>2, <1>3, <1>5, <2>1, <2>3, <2>6, <2>7, <3>1 DEF Sound
  <2>10. Puts(o.fb, t, q)
    BY <2>7, <2>9, StorePuts
  <2> HIDE DEF t
  <2>11. Puts(s, o.fb, p \o x) /\ p \o x \in Seq(Char)
    BY <1>2, <1>4, <1>5, <2>4, <2>5, <2>6, PutsTwice, ConcatProperties
  <2>12. Puts(s, t, (p \o x) \o q)
    <3> DEFINE px == p \o x
    <3>1. Puts(s, o.fb, px) /\ px \in Seq(Char)
      BY <2>11
    <3> HIDE DEF px
    <3>2. Puts(s, t, px \o q)
      BY <1>2, <2>7, <2>10, <3>1, PutsTwice
    <3> QED
      BY <3>2 DEF px
  <2> QED
    BY <2>6, <2>8, <2>12 DEF r
<1> QED
  BY <1>6, <1>7

LEMMA XsputnPuts ==
    ASSUME NEW s, Sound(s), Behind(s), limit \in Nat, NEW c \in Seq(Char), "out" \in s.mode,
           xsputn(s, c).n = Len(c)
    PROVE  Puts(s, xsputn(s, c).fb, c)
<1>1. /\ s \in State /\ Good(s) /\ Apart(s) /\ Len(s.mem) \in Nat /\ Size(s) = Len(s.mem)
      /\ Len(c) \in Nat /\ s.pn \in Nat /\ s.pe \in Nat /\ s.pn <= s.pe
  BY DEF Sound, Good, State, Size, Bounds
<1>2. CASE Len(c) > Size(s)
  <2> DEFINE f == m_sync(s)
  <2>1. xsputn(s, c) = IF SyncFails(s) THEN [fb |-> f, n |-> 0]
                       ELSE [fb |-> WriteFile(f, c), n |-> Taken(f, c)]
    BY <1>2 DEF xsputn
  <2>2. ~SyncFails(s)
    BY <1>1, <1>2, <2>1
  <2>3. Good(f) /\ NoInput(f) /\ f.pn = 0 /\ Idle(s, f)
    BY <1>1, <2>2, SyncSound, SyncIdle DEF Sound
  <2> HIDE DEF f
  <2>4. Taken(f, c) = Len(c)
    BY <2>1, <2>2
  <2>5. Puts(f, WriteFile(f, c), c)
    BY <2>3, <2>4, WritePuts
  <2> QED
    BY <2>1, <2>2, <2>3, <2>5, IdlePuts
<1>3. CASE ~(Len(c) > Size(s))
  <2> DEFINE f == IF "in" \in s.mode THEN m_flush_input(s) ELSE s
             b == BeginOutput(f)
  <2>1. xsputn(s, c) = StdXsputn(b, c)
    BY <1>3 DEF xsputn
  <2>2. Good(f) /\ NoInput(f) /\ Len(f.mem) = Len(s.mem) /\ Idle(s, f)
    <3>1. s.pn = 0 \/ NoInput(s)
      BY <1>1 DEF Apart, NoInput
    <3>2. CASE "in" \in s.mode
      BY <1>1, <3>1, <3>2, FlushInputSound, FlushIdle DEF Sound, NoInput
    <3>3. CASE "in" \notin s.mode
      BY <1>1, <3>3 DEF Good, InputMode, NoInput, Idle, SameMode
    <3> QED
      BY <3>2, <3>3
  <2> HIDE DEF f
  <2>3. /\ Good(b) /\ SameGet(f, b) /\ Len(b.mem) = Len(f.mem)
        /\ (f.pe > 0 \/ Len(f.mem) > 0 => b.pe > 0) /\ Idle(f, b)
    BY <2>2, BeginOutputSound, BeginIdle
  <2> HIDE DEF b
  <2>4. Sound(b) /\ NoInput(b)
    BY <2>2, <2>3 DEF Sound, Apart, NoInput, SameGet
  <2>5. Len(c) <= Len(b.mem) /\ (b.pe > 0 \/ Len(c) = 0)
    BY <1>1, <1>3, <2>2, <2>3
  <2>6. Puts(b, StdXsputn(b, c).fb, c)
    BY <2>1, <2>4, <2>5, StdXsputnPuts
  <2> QED
    BY <2>1, <2>2, <2>3, <2>6, IdlePuts
<1> QED
  BY <1>2, <1>3

-----------------------------------------------------------------------------
(* Output that was accepted and what becomes of it.                        *)
LEMMA DataIsOutput == fb.open => StreamData = Output(fb)
BY DEF StreamData, Output, At

LEMMA KeptOutput ==
    ASSUME Inv, fb.open, fb.pn > 0, NEW c \in Seq(Char), Puts(fb, fb', c)
    PROVE  ~Lost
<1>1. Good(fb) /\ Apart(fb) /\ fb.pn \in Nat /\ fb.pe \in Nat /\ fb.pn <= fb.pe
  BY DEF Inv, Sound, Good, State, Bounds
<1> DEFINE o == Output(fb)
           k == Position(fb)
           v == WriteAt(o, k, c)
<1>2. o \in Text /\ k \in Nat /\ k <= Len(o) /\ Target(fb) = k /\ k >= fb.pn
  BY <1>1, OutputType
<1>3. StreamData = o
  BY DataIsOutput
<1>4. StreamData' = v
  <2>1. fb'.open
    BY DEF Puts, SameMode
  <2>2. StreamData' = Output(fb')
    BY <2>1 DEF StreamData, Output, At
  <2> QED
    BY <1>2, <2>2 DEF Puts
<1> HIDE DEF o, k
<1>5. v \in Text /\ Len(v) >= Len(o) /\ \A p \in 1 .. k : v[p] = o[p]
  <2>1. CASE c = <<>>
    BY <1>2, <2>1 DEF WriteAt, Text
  <2>2. CASE c # <<>>
    <3>1. c \in Text /\ Len(c) \in Nat
      BY CharText
    <3>2. /\ v \in Text /\ Len(v) = IF k + Len(c) > Len(o) THEN k + Len(c) ELSE Len(o)
          /\ \A i \in 1 .. Len(v) :
               v[i] = IF i > k /\ i <= k + Len(c) THEN c[i - k]
                      ELSE IF i <= Len(o) THEN o[i] ELSE Hole
      BY <1>2, <2>2, <3>1, WriteAtShape
    <3> HIDE DEF v
    <3>3. Len(o) \in Nat /\ Len(v) \in Nat /\ Len(v) >= Len(o)
      BY <1>2, <3>1, <3>2 DEF Text
    <3>4. ASSUME NEW p \in 1 .. k
          PROVE  v[p] = o[p]
      <4>1. p \in 1 .. Len(v) /\ ~(p > k) /\ p <= Len(o)
        BY <1>2, <3>3
      <4> QED
        BY <3>2, <4>1
    <3> QED
      BY <3>2, <3>3, <3>4
  <2> QED
    BY <2>1, <2>2
<1> HIDE DEF v
<1>6. DOMAIN v = 1 .. Len(v) /\ Len(v) \in Nat /\ Len(o) \in Nat
  BY <1>2, <1>5, LenProperties DEF Text
<1>7. ASSUME NEW p \in k - fb.pn + 1 .. k
      PROVE  p \in DOMAIN v /\ v[p] = o[p]
  <2>1. p \in 1 .. k /\ p \in 1 .. Len(v)
    BY <1>1, <1>2, <1>5, <1>6
  <2> QED
    BY <1>5, <1>6, <2>1
<1> QED
  BY <1>3, <1>4, <1>7 DEF Lost, k

LEMMA IdleKeeps ==
    ASSUME Inv, Idle(fb, fb')
    PROVE  ~Lost
<1>1. <<>> \in Seq(Char) /\ Puts(fb, fb', <<>>)
  BY EmptySeq, PutsNothing
<1> QED
  BY <1>1, KeptOutput DEF Lost

LEMMA SyncKeeps ==
    ASSUME Inv, Lost, fb' = m_sync(fb)
    PROVE  SyncFails(fb)
<1>1. Good(fb) /\ Apart(fb) /\ limit \in Nat /\ fb.pn \in Nat /\ fb.pe \in Nat /\ fb.pn <= fb.pe
  BY BufAssumption, DeviceType DEF Inv, Sound, Good, State, Bounds
<1>2. Behind(fb)
  BY <1>1, NoInputBehind DEF Lost, Apart, NoInput
<1>3. ~SyncFails(fb) => Idle(fb, fb')
  BY <1>1, <1>2, SyncIdle
<1> QED
  BY <1>3, IdleKeeps

LEMMA LossOfSputc ==
    ASSUME Inv, Lost, NEW c \in Char, Sputc(c)
    PROVE  call'[1] = "sputc" /\ ret'.n = 0
<1> DEFINE r == sputc(fb, c)
<1>1. Sound(fb) /\ Good(fb) /\ limit \in Nat /\ fb.open /\ fb.pn > 0
  BY BufAssumption, DeviceType DEF Inv, Sound, Lost
<1>2. Behind(fb)
  BY <1>1, NoInputBehind DEF Sound, Apart, NoInput, Good, State, Bounds
<1>3. /\ fb' = r.fb /\ call' = <<"sputc", c>>
      /\ ret' = Ret(IF r.n = 1 THEN <<c>> ELSE <<>>, r.n)
  BY DEF Sputc, Finish
<1>4. r.n = 1 => Puts(fb, fb', <<c>>)
  BY <1>1, <1>2, <1>3, SputcPuts
<1>5. r.n \in 0 .. 1
  <2>1. CASE fb.pn < fb.pe
    BY <2>1 DEF sputc
  <2>2. CASE ~(fb.pn < fb.pe)
    <3>1. r = overflow(fb, c)
      BY <2>2 DEF sputc
    <3> QED
      BY <1>1, <3>1, OverflowSound DEF Sound
  <2> QED
    BY <2>1, <2>2
<1> HIDE DEF r
<1>6. <<c>> \in Seq(Char)
  OBVIOUS
<1>7. r.n # 1
  BY <1>1, <1>4, <1>6, KeptOutput
<1>8. ret'.n = r.n
  BY <1>3 DEF Ret
<1> QED
  BY <1>3, <1>5, <1>7, <1>8

LEMMA XsputnCount ==
    ASSUME NEW s, Sound(s), limit \in Nat, NEW c \in Seq(Char)
    PROVE  xsputn(s, c).n \in Nat /\ xsputn(s, c).n <= Len(c)
<1>1. /\ s \in State /\ Good(s) /\ Apart(s) /\ Len(c) \in Nat
  BY DEF Sound, Good
<1>2. CASE "out" \notin s.mode
  BY <1>1, <1>2 DEF xsputn
<1>3. CASE "out" \in s.mode /\ Len(c) > Size(s)
  <2> DEFINE f == m_sync(s)
  <2>1. xsputn(s, c).n = IF SyncFails(s) THEN 0 ELSE Taken(f, c)
    BY <1>3 DEF xsputn
  <2>2. f \in State
    BY <1>1, SyncSound DEF Sound, Good
  <2> HIDE DEF f
  <2>3. Taken(f, c) \in 0 .. Len(c)
    BY <2>2, WriteFileSound
  <2> QED
    BY <1>1, <2>1, <2>3
<1>4. CASE "out" \in s.mode /\ ~(Len(c) > Size(s))
  <2> DEFINE f == IF "in" \in s.mode THEN m_flush_input(s) ELSE s
             b == BeginOutput(f)
             k == Min2(Len(c), b.pe - b.pn)
  <2>1. xsputn(s, c).n = k \/ xsputn(s, c).n = Len(c)
    BY <1>4 DEF xsputn, StdXsputn
  <2>2. Good(f)
    BY <1>1, FlushInputSound DEF Sound
  <2> HIDE DEF f
  <2>3. b.pe \in Nat /\ b.pn \in Nat /\ b.pn <= b.pe
    BY <2>2, BeginOutputSound DEF Good, State, Bounds
  <2> HIDE DEF b
  <2>4. k \in Nat /\ k <= Len(c)
    BY <1>1, <2>3 DEF Min2
  <2> QED
    BY <1>1, <2>1, <2>4
<1> QED
  BY <1>2, <1>3, <1>4

LEMMA LossOfSeek ==
    ASSUME Inv, Lost, NEW way \in {"beg", "cur", "end"}, NEW off \in Offsets, Seek(way, off)
    PROVE  call'[1] = "seek" /\ ret'.n = -1
<1> DEFINE s == m_sync(fb)
           t == SeekFile(s, Base(s, way), off)
<1>1. Good(fb) /\ Apart(fb) /\ limit \in Nat /\ fb.pn \in Nat /\ fb.pe \in Nat
      /\ fb.pn <= fb.pe /\ fb.open
  BY BufAssumption, DeviceType DEF Inv, Sound, Good, State, Bounds, Lost
<1>2. Behind(fb)
  BY <1>1, NoInputBehind DEF Lost, Apart, NoInput
<1>3. call'[1] = "seek"
  BY DEF Seek, Finish
<1>4. CASE SyncFails(fb)
  BY <1>1, <1>3, <1>4 DEF Seek, Finish, Ret
<1>5. CASE ~SyncFails(fb)
  <2>1. fb' = t
    BY <1>1, <1>5 DEF Seek, Finish
  <2>2. Idle(fb, s) /\ s.pn = 0 /\ s.file = Output(fb) /\ s \in State
    BY <1>1, <1>2, <1>5, SyncIdle, SyncSound DEF Sound, Good
  <2> HIDE DEF s
  <2>3. t.file = s.file /\ t.pn = 0 /\ SameMode(fb, t)
    BY <2>2 DEF SeekFile, SetFile, State, Idle, SameMode
  <2> HIDE DEF t
  <2>4. StreamData' = Output(fb) /\ StreamData = Output(fb)
    BY <1>1, <2>1, <2>2, <2>3, DataIsOutput DEF StreamData
  <2>5. Output(fb) \in Text /\ Position(fb) \in Nat /\ Position(fb) <= Len(Output(fb))
        /\ Position(fb) >= fb.pn
    BY <1>1, OutputType DEF Lost
  <2>6. ASSUME NEW p \in Position(fb) - fb.pn + 1 .. Position(fb)
        PROVE  p \in DOMAIN Output(fb)
    <3>1. DOMAIN Output(fb) = 1 .. Len(Output(fb)) /\ Len(Output(fb)) \in Nat
      BY <2>5, LenProperties DEF Text
    <3> QED
      BY <1>1, <2>5, <3>1
  <2>7. ~Lost
    BY <2>4, <2>6 DEF Lost
  <2> QED
    BY <2>7
<1> QED
  BY <1>4, <1>5

LEMMA LossOfSputn ==
    ASSUME Inv, Lost, NEW c \in Strings, Sputn(c)
    PROVE  call'[1] = "sputn" /\ ret'.n < Len(call'[2])
<1> DEFINE r == xsputn(fb, c)
<1>1. Sound(fb) /\ Good(fb) /\ limit \in Nat /\ fb.open /\ fb.pn > 0 /\ c \in Seq(Char)
  BY BufAssumption, DeviceType DEF Inv, Sound, Lost
<1>2. Behind(fb)
  BY <1>1, NoInputBehind, SMTT(20) DEF Sound, Apart, NoInput, Good, State, Bounds
<1>3. fb' = r.fb /\ call' = <<"sputn", c>> /\ ret'.n = r.n
  BY DEF Sputn, Finish, Ret
<1>4. "out" \in fb.mode
  <2>1. CASE "out" \notin fb.mode
    <3>1. fb' = fb
      BY <1>3, <2>1 DEF xsputn
    <3> QED
      BY <3>1, IdleKeeps DEF Idle, SameMode
  <2> QED
    BY <2>1
<1>5. r.n = Len(c) => Puts(fb, fb', c)
  BY <1>1, <1>2, <1>3, <1>4, XsputnPuts
<1>6. r.n # Len(c)
  BY <1>1, <1>5, KeptOutput
<1>7. r.n \in Nat /\ r.n <= Len(c)
  BY <1>1, XsputnCount
<1> HIDE DEF r
<1> QED
  BY <1>1, <1>3, <1>6, <1>7

(* Whatever the device does, and with buffers and files of any size:       *)
(* whenever characters that an earlier call accepted neither wait any      *)
(* longer nor are in the file after sync(), a seek, sputc() or sputn(),    *)
(* that call has reported a failure.                                       *)
THEOREM LossIsReported == Spec => LossReported
<1> DEFINE A == Lost => CASE call'[1] \in {"sync", "seek"} -> ret'.n = -1
                          [] call'[1] = "sputc" -> ret'.n = 0
                          [] call'[1] = "sputn" -> ret'.n < Len(call'[2])
                          [] OTHER -> TRUE
<1>1. ASSUME Inv, Next
      PROVE  A
  <2> SUFFICES ASSUME Lost
               PROVE  CASE call'[1] \in {"sync", "seek"} -> ret'.n = -1
                        [] call'[1] = "sputc" -> ret'.n = 0
                        [] call'[1] = "sputn" -> ret'.n < Len(call'[2])
                        [] OTHER -> TRUE
    OBVIOUS
  <2>1. ASSUME NEW m \in Modes, Open(m)
        PROVE  call'[1] = "open"
    <3>1. call' = <<"open">>
      BY <2>1, Zenon DEF Open, Finish
    <3> QED
      BY <3>1
  <2>2. CASE Close
    <3>1. call' = <<"close">>
      BY <2>2, Zenon DEF Close, Finish
    <3> QED
      BY <3>1
  <2>3. ASSUME NEW mem \in Buffers, SetBuf(mem)
        PROVE  call'[1] = "setbuf"
    <3>1. call' = <<"setbuf">>
      BY <2>3, Zenon DEF SetBuf, Finish
    <3> QED
      BY <3>1
  <2>4. CASE Sgetc \/ Sbumpc \/ \E n \in 1 .. MaxString : Sgetn(n)
    BY <2>4 DEF Sgetc, Sbumpc, Sgetn, Finish
  <2>5. CASE Sungetc
    <3>1. call' = <<"sungetc">>
      BY <2>5, Zenon DEF Sungetc, Finish
    <3> QED
      BY <3>1
  <2>6. ASSUME NEW c \in Char, Sputbackc(c)
        PROVE  call'[1] = "sputbackc"
    <3>1. call' = <<"sputbackc", c>>
      BY <2>6, Zenon DEF Sputbackc, Finish
    <3> QED
      BY <3>1
  <2>7. CASE \E c \in Char : Sputc(c)
    BY <1>1, <2>7, LossOfSputc
  <2>8. CASE \E c \in Strings : Sputn(c)
    BY <1>1, <2>8, LossOfSputn
  <2>9. CASE Sync
    <3>1. fb' = m_sync(fb) /\ call' = <<"sync">> /\ ret' = Ret(<<>>, IF SyncFails(fb) THEN -1 ELSE 0)
      BY <2>9 DEF Sync, Finish
    <3>2. SyncFails(fb)
      BY <1>1, <3>1, SyncKeeps
    <3>3. ret'.n = -1 /\ call'[1] = "sync"
      BY <3>1, <3>2 DEF Ret
    <3> QED
      BY <3>3
  <2>10. ASSUME NEW way \in {"beg", "cur", "end"}, NEW off \in Offsets, Seek(way, off)
         PROVE  call'[1] = "seek" /\ ret'.n = -1
    BY <1>1, <2>10, LossOfSeek
  <2>11. CASE Device
    <3>1. fb' = fb
      BY <2>11 DEF Device
    <3> QED
      BY <1>1, <3>1, IdleKeeps DEF Idle, SameMode
  <2> QED
    BY <1>1, <2>1, <2>2, <2>3, <2>4, <2>5, <2>6, <2>7, <2>8, <2>9, <2>10, <2>11 DEF Next
<1>2. Inv /\ [Next]_vars => [A]_vars
  BY <1>1
<1> HIDE DEF A
<1>3. Spec => [][A]_vars
  BY <1>2, Safety, PTL DEF Spec
<1> QED
  BY <1>3 DEF LossReported, A

-----------------------------------------------------------------------------
(***************************************************************************)
(* FileBuf implements FileStream, for every buffer size, file and          *)
(* character set, on a device that takes everything.  First reading: what  *)
(* each private member does to the characters that reading sees (Moves);   *)
(* then pushing back (Pushes), output (Puts, which is above), and the     *)
(* calls that empty the buffer (AtRest).  Each public call is then shown   *)
(* to be a step of FileStream; FlowInv is what they rely on.               *)
(***************************************************************************)
-----------------------------------------------------------------------------
(* The refinement mapping, of any state.                                   *)
Data(s)  == IF s.open THEN Output(s) ELSE s.file
Pos(s)   == IF s.open THEN Position(s) ELSE 0
Start(s) == s.fpos - s.cur
In(s) ==
    IF ~s.open \/ s.pe > 0 THEN {}
    ELSE Start(s) .. s.fpos - 1
         \cup (IF s.area = "pb" /\ s.ge = 1 THEN {Start(s) - 1} ELSE {})
Win(s, p) == IF p < Start(s) THEN s.pb ELSE s.mem[p - Start(s) + 1]
Pushed(s) == {q \in In(s) : q + 1 \notin DOMAIN s.file \/ s.file[q + 1] # Win(s, q)}
Over(s) == [p \in Pushed(s) |-> Win(s, p)]

LEMMA Mapped ==
    /\ StreamData = Data(fb) /\ StreamOver = Over(fb)
    /\ StreamData' = Data(fb') /\ StreamOver' = Over(fb')
<1>1. StreamData = Data(fb)
  BY DEF StreamData, Data, Output, At
<1>2. StreamData' = Data(fb')
  BY DEF StreamData, Data, Output, At
<1>3. StreamOver = Over(fb)
  BY DEF StreamOver, Over, Pushed, In, Win, Start, InWindow, Window, WindowStart
<1>4. StreamOver' = Over(fb')
  BY DEF StreamOver, Over, Pushed, In, Win, Start, InWindow, Window, WindowStart
<1> QED
  BY <1>1, <1>2, <1>3, <1>4

(* What reading sees.                                                      *)
Seen(s) == Pushed(s) \cup 0 .. Len(Data(s)) - 1
View(s, p) == IF p \in Pushed(s) THEN Win(s, p) ELSE Data(s)[p + 1]

(* Without input in the buffer, reading sees the file.                     *)
LEMMA NoInputOver ==
    ASSUME NEW s, Good(s), NoInput(s)
    PROVE  In(s) = {} /\ Pushed(s) = {} /\ Over(s) = Stream!Nothing
<1>1. In(s) = {}
  <2>1. s.cur = 0 /\ s.fpos \in Nat /\ s.area = "buf"
    BY DEF Good, Bounds, State, NoInput
  <2> QED
    BY <2>1 DEF In, Start
<1>2. Pushed(s) = {}
  BY <1>1 DEF Pushed
<1> QED
  BY <1>1, <1>2 DEF Over, Stream!Nothing

(* An open stream that reads, and the position of eback() in its file.     *)
Reads(s) == Good(s) /\ Behind(s) /\ s.open /\ s.pn = 0 /\ s.pe = 0 /\ readable
Low(s) == Start(s) - (IF s.area = "pb" THEN s.ge ELSE 0)

WindowShape(s) ==
    /\ s.gn \in Nat /\ s.ge \in Nat /\ s.gn <= s.ge /\ s.cur \in Nat /\ s.fpos \in Nat
    /\ s.file \in Text /\ Len(s.file) \in Nat /\ DOMAIN s.file = 1 .. Len(s.file)
    /\ Data(s) = s.file
    /\ Start(s) \in Nat /\ Low(s) \in Nat /\ Low(s) <= Start(s) /\ Start(s) = s.fpos - s.cur
    /\ In(s) = Low(s) .. s.fpos - 1
    /\ Pos(s) = Low(s) + s.gn /\ Low(s) + s.ge <= s.fpos

LEMMA ReadsWindow ==
    ASSUME NEW s, Reads(s)
    PROVE  WindowShape(s)
<1>1. /\ s \in State /\ Good(s) /\ Behind(s) /\ s.open /\ s.pn = 0 /\ s.pe = 0
      /\ s.gn \in Nat /\ s.ge \in Nat /\ s.gn <= s.ge /\ s.cur \in Nat /\ s.fpos \in Nat
      /\ s.area \in {"buf", "pb"} /\ s.file \in Text
      /\ (s.area = "buf" => s.ge = s.cur) /\ (s.area = "pb" => s.ge <= 1)
  BY DEF Reads, Good, State, Bounds, Text
<1>2. Len(s.file) \in Nat /\ DOMAIN s.file = 1 .. Len(s.file) /\ Data(s) = s.file
  BY <1>1, LenProperties DEF Text, Data, Output
<1>3. Pos(s) = s.fpos - m_input_size(s)
  BY <1>1 DEF Pos, Position
<1>4. CASE s.area = "buf"
  <2>1. Start(s) = s.fpos - s.cur /\ s.cur <= s.fpos /\ s.ge = s.cur
    BY <1>1, <1>4 DEF Behind, Start
  <2>2. Low(s) = Start(s) /\ m_input_size(s) = s.ge - s.gn
    BY <1>1, <1>4, <2>1 DEF Low, m_input_size
  <2>3. In(s) = Start(s) .. s.fpos - 1
    BY <1>1, <1>4 DEF In
  <2> QED
    BY <1>1, <1>2, <1>3, <2>1, <2>2, <2>3 DEF WindowShape
<1>5. CASE s.area = "pb"
  <2>1. Start(s) = s.fpos - s.cur /\ s.cur + s.ge <= s.fpos
    BY <1>1, <1>5 DEF Behind, Start
  <2>2. Low(s) = Start(s) - s.ge /\ m_input_size(s) = s.ge - s.gn + s.cur
    BY <1>1, <1>5, <2>1 DEF Low, m_input_size
  <2>3. In(s) = Low(s) .. s.fpos - 1
    <3>1. CASE s.ge = 1
      <4>1. In(s) = Start(s) .. s.fpos - 1 \cup {Start(s) - 1}
        BY <1>1, <1>5, <3>1 DEF In
      <4>2. Low(s) = Start(s) - 1 /\ Start(s) \in Nat /\ Start(s) <= s.fpos
        BY <1>1, <2>1, <2>2, <3>1
      <4> QED
        BY <1>1, <4>1, <4>2
    <3>2. CASE s.ge = 0
      <4>1. In(s) = Start(s) .. s.fpos - 1
        BY <1>1, <1>5, <3>2 DEF In
      <4> QED
        BY <1>1, <2>1, <2>2, <3>2, <4>1
    <3> QED
      BY <1>1, <1>5, <3>1, <3>2
  <2>4. /\ Start(s) \in Nat /\ Low(s) \in Nat /\ Low(s) <= Start(s)
        /\ Low(s) + s.ge <= s.fpos
    BY <1>1, <2>1, <2>2
  <2>5. Pos(s) = Low(s) + s.gn
    BY <1>1, <1>3, <2>1, <2>2
  <2> QED
    BY <1>1, <1>2, <2>1, <2>3, <2>4, <2>5 DEF WindowShape
<1> QED
  BY <1>1, <1>4, <1>5

(* What is in the buffer is seen, before all else.                         *)
LEMMA InSeen ==
    ASSUME NEW s, Reads(s), NEW p \in In(s)
    PROVE  p \in Nat /\ p \in Seen(s) /\ View(s, p) = Win(s, p)
<1>1. WindowShape(s)
  BY ReadsWindow
<1>2. p \in Nat
  BY <1>1 DEF WindowShape
<1>3. CASE p \in Pushed(s)
  BY <1>2, <1>3 DEF Seen, View
<1>4. CASE p \notin Pushed(s)
  <2>1. p + 1 \in DOMAIN s.file /\ s.file[p + 1] = Win(s, p)
    BY <1>4 DEF Pushed
  <2>2. p \in 0 .. Len(s.file) - 1
    BY <1>1, <1>2, <2>1 DEF WindowShape
  <2> QED
    BY <1>1, <1>2, <1>4, <2>1, <2>2 DEF WindowShape, Seen, View
<1> QED
  BY <1>3, <1>4

(* The characters of the get area lie side by side in what reading sees.   *)
LEMMA CharsSeen ==
    ASSUME NEW s, Reads(s), NEW a \in Nat, NEW b \in Nat, a <= b, b <= s.ge
    PROVE  /\ Chars(s, a, b) \in Seq(Char \cup {Hole, Junk}) /\ Len(Chars(s, a, b)) = b - a
           /\ \A i \in 1 .. b - a : /\ Low(s) + a + i - 1 \in In(s)
                                    /\ Chars(s, a, b)[i] = Win(s, Low(s) + a + i - 1)
<1>1. WindowShape(s)
  BY ReadsWindow
<1>2. /\ s.area \in {"buf", "pb"} /\ s.mem \in Seq(Char \cup {Hole, Junk})
      /\ s.cur <= Len(s.mem) /\ s.pb \in Char \cup {Hole, Junk}
      /\ (s.area = "buf" => s.ge = s.cur) /\ (s.area = "pb" => s.ge <= 1)
  BY DEF Reads, Good, State, Bounds
<1>3. /\ s.ge \in Nat /\ Low(s) \in Nat /\ s.fpos \in Nat /\ Low(s) + s.ge <= s.fpos
      /\ s.cur \in Nat /\ Start(s) \in Nat
  BY <1>1 DEF WindowShape
<1>4. \A i \in 1 .. b - a : Low(s) + a + i - 1 \in Low(s) .. s.fpos - 1
  BY <1>3
<1>5. \A i \in 1 .. b - a : Low(s) + a + i - 1 \in In(s)
  BY <1>1, <1>4 DEF WindowShape
<1> DEFINE q == IF s.area = "buf" THEN s.mem ELSE <<s.pb>>
<1>6. Chars(s, a, b) = SubSeq(q, a + 1, b)
  BY DEF Chars
<1>7. \A j \in a + 1 .. b : /\ q[j] \in Char \cup {Hole, Junk}
                            /\ q[j] = Win(s, Low(s) + j - 1)
  <2> SUFFICES ASSUME NEW j \in a + 1 .. b
               PROVE  /\ q[j] \in Char \cup {Hole, Junk}
                      /\ q[j] = Win(s, Low(s) + j - 1)
    OBVIOUS
  <2>1. CASE s.area = "buf"
    <3>1. Low(s) = Start(s)
      BY <1>3, <2>1 DEF Low
    <3> DEFINE p == Low(s) + j - 1
    <3>2. ~(p < Start(s)) /\ p - Start(s) + 1 = j
      BY <1>3, <3>1
    <3> HIDE DEF p
    <3>3. Win(s, p) = s.mem[j]
      BY <3>2, Zenon DEF Win
    <3>4. j \in 1 .. Len(s.mem)
      BY <1>2, <1>3, <2>1
    <3> QED
      BY <1>2, <2>1, <3>3, <3>4 DEF p
  <2>2. CASE s.area = "pb"
    <3>1. j = 1 /\ s.ge = 1
      BY <1>2, <1>3, <2>2
    <3>2. Low(s) = Start(s) - 1
      BY <2>2, <3>1 DEF Low
    <3>3. Low(s) + j - 1 < Start(s)
      BY <1>3, <3>1, <3>2
    <3>4. Win(s, Low(s) + j - 1) = s.pb
      BY <3>3 DEF Win
    <3> QED
      BY <1>2, <2>2, <3>1, <3>4
  <2> QED
    BY <1>2, <2>1, <2>2
<1> HIDE DEF q
<1>8. /\ SubSeq(q, a + 1, b) \in Seq(Char \cup {Hole, Junk})
      /\ Len(SubSeq(q, a + 1, b)) = IF a + 1 <= b THEN b - (a + 1) + 1 ELSE 0
      /\ \A i \in 1 .. b - (a + 1) + 1 : SubSeq(q, a + 1, b)[i] = q[a + 1 + i - 1]
  <2>1. \A j \in a + 1 .. b : q[j] \in Char \cup {Hole, Junk}
    BY <1>7
  <2> QED
    BY <2>1, SubSeqProperties
<1>9. \A i \in 1 .. b - a : SubSeq(q, a + 1, b)[i] = Win(s, Low(s) + a + i - 1)
  <2> SUFFICES ASSUME NEW i \in 1 .. b - a
               PROVE  SubSeq(q, a + 1, b)[i] = Win(s, Low(s) + a + i - 1)
    OBVIOUS
  <2>1. a + i \in a + 1 .. b /\ i \in 1 .. b - (a + 1) + 1 /\ a + 1 + i - 1 = a + i
    OBVIOUS
  <2>2. SubSeq(q, a + 1, b)[i] = q[a + i]
    BY <1>8, <2>1
  <2>3. q[a + i] = Win(s, Low(s) + (a + i) - 1)
    BY <1>7, <2>1
  <2>4. Low(s) + (a + i) - 1 = Low(s) + a + i - 1
    BY <1>3
  <2> QED
    BY <2>2, <2>3, <2>4
<1> QED
  BY <1>5, <1>6, <1>8, <1>9

-----------------------------------------------------------------------------
(* From s to t the characters g were read: what was pushed back is gone    *)
(* only if it was read.                                                    *)
Kept(s, t) ==
    /\ SameMode(s, t) /\ Data(t) = Data(s)
    /\ Pushed(t) \subseteq Pushed(s)
    /\ \A q \in Pushed(t) : Win(t, q) = Win(s, q)
    /\ \A q \in Pushed(s) : q >= Pos(t) => q \in Pushed(t)

Moves(s, t, g) ==
    /\ Kept(s, t) /\ Pos(t) = Pos(s) + Len(g)
    /\ \A i \in 1 .. Len(g) : /\ Pos(s) + i - 1 \in Seen(s)
                              /\ g[i] = View(s, Pos(s) + i - 1)

(* What is ahead looks the same.                                           *)
LEMMA SameAhead ==
    ASSUME NEW s, NEW t, Kept(s, t), NEW p, p >= Pos(t)
    PROVE  (p \in Seen(t) <=> p \in Seen(s)) /\ View(t, p) = View(s, p)
<1>1. p \in Pushed(t) <=> p \in Pushed(s)
  BY DEF Kept
<1>2. p \in Pushed(t) => Win(t, p) = Win(s, p)
  BY DEF Kept
<1>3. Data(t) = Data(s)
  BY DEF Kept
<1> QED
  BY <1>1, <1>2, <1>3 DEF Seen, View

LEMMA MovesTwice ==
    ASSUME NEW s, NEW t, NEW u, NEW g \in Text, NEW h \in Text, Pos(s) \in Nat,
           Pushed(s) \subseteq Nat, Moves(s, t, g), Moves(t, u, h)
    PROVE  Moves(s, u, g \o h)
<1>1. /\ Len(g) \in Nat /\ Len(h) \in Nat
      /\ Len(g \o h) = Len(g) + Len(h)
      /\ \A i \in 1 .. Len(g) + Len(h) : (g \o h)[i] =
                  IF i <= Len(g) THEN g[i] ELSE h[i - Len(g)]
  BY LenProperties, ConcatProperties DEF Text
<1>2. Pos(t) = Pos(s) + Len(g) /\ Pos(u) = Pos(t) + Len(h)
  BY DEF Moves
<1>3. Kept(s, u)
  <2>1. Kept(s, t) /\ Kept(t, u)
    BY DEF Moves
  <2>2. ASSUME NEW q \in Pushed(s), q >= Pos(u)
        PROVE  q \in Pushed(u)
    <3>1. q >= Pos(t)
      BY <1>1, <1>2, <2>2
    <3> QED
      BY <2>1, <2>2, <3>1 DEF Kept
  <2>3. SameMode(s, u) /\ Data(u) = Data(s)
    BY <2>1 DEF Kept, SameMode
  <2> QED
    BY <2>1, <2>2, <2>3 DEF Kept
<1>4. ASSUME NEW i \in 1 .. Len(g \o h)
      PROVE  /\ Pos(s) + i - 1 \in Seen(s)
             /\ (g \o h)[i] = View(s, Pos(s) + i - 1)
  <2>1. CASE i <= Len(g)
    BY <1>1, <1>4, <2>1 DEF Moves
  <2>2. CASE i > Len(g)
    <3> DEFINE j == i - Len(g)
               p == Pos(s) + i - 1
    <3>1. j \in 1 .. Len(h) /\ Pos(t) + j - 1 = p /\ p >= Pos(t) /\ (g \o h)[i] = h[j]
      BY <1>1, <1>2, <1>4, <2>2
    <3> HIDE DEF j, p
    <3>2. p \in Seen(t) /\ h[j] = View(t, p)
      BY <3>1 DEF Moves
    <3>3. p \in Seen(s) /\ View(t, p) = View(s, p)
      BY <3>1, <3>2, SameAhead DEF Moves
    <3> QED
      BY <3>1, <3>2, <3>3 DEF p
  <2> QED
    BY <1>1, <1>4, <2>1, <2>2
<1> QED
  BY <1>1, <1>2, <1>3, <1>4 DEF Moves

(* The next characters of the get area are those that reading sees next.   *)
LEMMA NextChars ==
    ASSUME NEW s, Reads(s), NEW k \in Nat, s.gn + k <= s.ge
    PROVE  LET g == Chars(s, s.gn, s.gn + k) IN
           /\ g \in Seq(Char \cup {Hole, Junk}) /\ Len(g) = k
           /\ \A i \in 1 .. k : Pos(s) + i - 1 \in Seen(s) /\ g[i] = View(s, Pos(s) + i - 1)
<1> DEFINE g == Chars(s, s.gn, s.gn + k)
           a == s.gn
           b == s.gn + k
<1>1. a \in Nat /\ s.gn \in Nat /\ s.ge \in Nat /\ Pos(s) = Low(s) + a /\ Low(s) \in Nat
  BY ReadsWindow DEF WindowShape
<1>2. b \in Nat /\ a <= b /\ b <= s.ge /\ b - a = k
  BY <1>1
<1>3. g = Chars(s, a, b)
  OBVIOUS
<1> HIDE DEF g, a, b
<1>4. /\ g \in Seq(Char \cup {Hole, Junk}) /\ Len(g) = b - a
      /\ \A i \in 1 .. b - a : /\ Low(s) + a + i - 1 \in In(s)
                               /\ g[i] = Win(s, Low(s) + a + i - 1)
  <2>1. a \in Nat /\ b \in Nat /\ a <= b /\ b <= s.ge
    BY <1>1, <1>2
  <2>2. Len(Chars(s, a, b)) = b - a
    BY <2>1, CharsSeen
  <2>3. Chars(s, a, b) \in Seq(Char \cup {Hole, Junk})
    BY <2>1, CharsSeen
  <2>4. \A i \in 1 .. b - a : Low(s) + a + i - 1 \in In(s)
    BY <2>1, CharsSeen
  <2>5. \A i \in 1 .. b - a : Chars(s, a, b)[i] = Win(s, Low(s) + a + i - 1)
    BY <2>1, CharsSeen
  <2> QED
    BY <1>3, <2>2, <2>3, <2>4, <2>5
<1>5. \A i \in 1 .. k : Pos(s) + i - 1 \in Seen(s) /\ g[i] = View(s, Pos(s) + i - 1)
  <2> SUFFICES ASSUME NEW i \in 1 .. k
               PROVE  Pos(s) + i - 1 \in Seen(s) /\ g[i] = View(s, Pos(s) + i - 1)
    OBVIOUS
  <2> DEFINE p == Low(s) + a + i - 1
  <2>1. p = Pos(s) + i - 1
    BY <1>1
  <2>2. p \in In(s) /\ g[i] = Win(s, p)
    BY <1>2, <1>4
  <2> HIDE DEF p
  <2> QED
    BY <2>1, <2>2, InSeen
<1> QED
  BY <1>2, <1>4, <1>5 DEF g

(* Reading from the get area: gptr() moves over it.                        *)
LEMMA WindowMoves ==
    ASSUME NEW s, NEW t, Reads(s), Reads(t), SameMode(s, t), s.file = t.file,
           In(t) \subseteq In(s), \A p \in In(t) : Win(t, p) = Win(s, p),
           \A p \in In(s) : p >= Pos(t) => p \in In(t),
           NEW k \in Nat, s.gn + k <= s.ge, Pos(t) = Pos(s) + k
    PROVE  Moves(s, t, Chars(s, s.gn, s.gn + k))
<1>1. WindowShape(s) /\ WindowShape(t)
  BY ReadsWindow
<1>2. Data(s) = Data(t) /\ s.gn \in Nat /\ Pos(s) = Low(s) + s.gn /\ Low(s) \in Nat
  BY <1>1 DEF WindowShape
<1>3. Pushed(t) \subseteq Pushed(s) /\ \A q \in Pushed(t) : Win(t, q) = Win(s, q)
  BY DEF Pushed
<1>4. \A q \in Pushed(s) : q >= Pos(t) => q \in Pushed(t)
  BY DEF Pushed
<1>5. Kept(s, t)
  BY <1>2, <1>3, <1>4 DEF Kept
<1> QED
  BY <1>5, NextChars DEF Moves

(* What read() returns.                                                    *)
LEMMA AvailableShape ==
    ASSUME readable, NEW s \in State, NEW n \in Nat
    PROVE  LET c == Available(s, n) IN
           /\ c \in Text /\ Len(c) \in Nat /\ Len(c) <= n
           /\ Len(c) = n \/ s.fpos + Len(c) >= Len(s.file)
           /\ \A i \in 1 .. Len(c) : s.fpos + i <= Len(s.file) /\ c[i] = s.file[s.fpos + i]
<1> DEFINE c == Available(s, n)
<1>1. s.file \in Text /\ s.fpos \in Nat /\ Len(s.file) \in Nat
  BY LenProperties DEF State, Text
<1>2. c \in Text /\ Len(c) <= n /\ Len(c) \in Nat
  BY AvailableType, LenProperties DEF Text
<1>3. CASE s.fpos >= Len(s.file)
  <2>1. c = <<>>
    BY <1>3 DEF Available
  <2>2. Len(c) = 0
    BY <2>1
  <2> HIDE DEF c
  <2> QED
    BY <1>1, <1>2, <1>3, <2>2 DEF c
<1>4. CASE s.fpos < Len(s.file)
  <2> DEFINE m == Min2(s.fpos + n, Len(s.file))
  <2>1. m \in Nat /\ m <= Len(s.file) /\ m >= s.fpos /\ (m = s.fpos + n \/ m = Len(s.file))
    BY <1>1, <1>4 DEF Min2
  <2> HIDE DEF m
  <2>2. c = SubSeq(s.file, s.fpos + 1, m)
    <3>1. ~(s.fpos >= Len(s.file))
      BY <1>1, <1>4
    <3> QED
      BY <3>1, Zenon DEF Available, m
  <2> HIDE DEF c
  <2>3. \A i \in s.fpos + 1 .. m : s.file[i] \in Char \cup {Hole}
    BY <1>1, <2>1 DEF Text
  <2>4. /\ Len(c) = IF s.fpos + 1 <= m THEN m - (s.fpos + 1) + 1 ELSE 0
        /\ \A i \in 1 .. m - (s.fpos + 1) + 1 : c[i] = s.file[s.fpos + 1 + i - 1]
    <3> DEFINE a == s.fpos + 1
    <3>1. a \in Int /\ m \in Int
      BY <1>1, <2>1
    <3>2. \A i \in a .. m : s.file[i] \in Char \cup {Hole}
      BY <2>3
    <3>3. c = SubSeq(s.file, a, m)
      BY <2>2
    <3> HIDE DEF a
    <3>4. /\ Len(SubSeq(s.file, a, m)) = IF a <= m THEN m - a + 1 ELSE 0
          /\ \A i \in 1 .. m - a + 1 : SubSeq(s.file, a, m)[i] = s.file[a + i - 1]
      BY <3>1, <3>2, SubSeqProperties
    <3> QED
      BY <3>3, <3>4 DEF a
  <2>5. Len(c) = m - s.fpos
    BY <1>1, <2>1, <2>4
  <2>6. \A i \in 1 .. Len(c) : s.fpos + i <= Len(s.file) /\ c[i] = s.file[s.fpos + i]
    <3> SUFFICES ASSUME NEW i \in 1 .. Len(c)
                 PROVE  s.fpos + i <= Len(s.file) /\ c[i] = s.file[s.fpos + i]
      OBVIOUS
    <3>1. i \in 1 .. m - (s.fpos + 1) + 1 /\ s.fpos + 1 + i - 1 = s.fpos + i
          /\ s.fpos + i <= Len(s.file)
      BY <1>1, <2>1, <2>5, SMTT(20)
    <3>2. c[i] = s.file[s.fpos + 1 + i - 1]
      BY <2>4, <3>1
    <3> QED
      BY <3>1, <3>2
  <2> QED
    BY <1>1, <1>2, <2>1, <2>5, <2>6 DEF c
<1> QED
  BY <1>1, <1>3, <1>4

(* Reading from the file, once the get area is used up.                    *)
LEMMA FileMoves ==
    ASSUME NEW s, NEW t, Reads(s), Reads(t), SameMode(s, t), s.file = t.file,
           Pos(s) = s.fpos, Pushed(t) = {},
           NEW n \in Nat, Pos(t) = Pos(s) + Len(Available(s, n))
    PROVE  /\ Moves(s, t, Available(s, n))
           /\ Len(Available(s, n)) = n \/ Pos(t) \notin Seen(t)
<1> DEFINE c == Available(s, n)
<1>1. WindowShape(s) /\ WindowShape(t) /\ s \in State /\ readable
  BY ReadsWindow DEF Reads, Good
<1>2. /\ c \in Text /\ Len(c) \in Nat
      /\ Len(c) = n \/ s.fpos + Len(c) >= Len(s.file)
      /\ \A i \in 1 .. Len(c) : s.fpos + i <= Len(s.file) /\ c[i] = s.file[s.fpos + i]
  BY <1>1, AvailableShape
<1>3. Pos(t) = Pos(s) + Len(c)
  OBVIOUS
<1> HIDE DEF c
<1>4. /\ Data(s) = s.file /\ Data(t) = s.file /\ s.fpos \in Nat /\ Len(s.file) \in Nat
      /\ In(s) = Low(s) .. s.fpos - 1 /\ Low(s) \in Nat
  BY <1>1 DEF WindowShape
<1>5. Kept(s, t)
  <2>1. \A q \in Pushed(s) : ~(q >= Pos(t))
    <3> SUFFICES ASSUME NEW q \in In(s) PROVE ~(q >= Pos(t))
      BY DEF Pushed
    <3> QED
      BY <1>2, <1>3, <1>4
  <2> QED
    BY <1>4, <2>1 DEF Kept
<1>6. ASSUME NEW i \in 1 .. Len(c)
      PROVE  Pos(s) + i - 1 \in Seen(s) /\ c[i] = View(s, Pos(s) + i - 1)
  <2> DEFINE p == Pos(s) + i - 1
  <2>1. p \notin In(s) /\ p \in 0 .. Len(s.file) - 1 /\ p + 1 = s.fpos + i
    <3>1. p = s.fpos + i - 1 /\ i \in Nat /\ i >= 1 /\ s.fpos + i <= Len(s.file)
      BY <1>2
    <3> HIDE DEF p
    <3>2. p \notin Low(s) .. s.fpos - 1
      BY <1>4, <3>1
    <3>3. p \notin In(s)
      BY <1>4, <3>2, Zenon
    <3>4. s.fpos \in Nat /\ Len(s.file) \in Nat
      BY <1>4, Zenon
    <3> QED
      BY <3>1, <3>3, <3>4, SMTT(40)
  <2>2. c[i] = s.file[s.fpos + i]
    BY <1>2, <1>6
  <2> HIDE DEF p
  <2>3. p \notin Pushed(s)
    BY <2>1 DEF Pushed
  <2> QED
    BY <1>4, <2>1, <2>2, <2>3 DEF Seen, View, p
<1>7. Len(c) = n \/ Pos(t) \notin Seen(t)
  <2> SUFFICES ASSUME s.fpos + Len(c) >= Len(s.file) PROVE Pos(t) \notin Seen(t)
    BY <1>2
  <2>1. Pos(t) \notin 0 .. Len(s.file) - 1
    BY <1>2, <1>3, <1>4
  <2> QED
    BY <1>4, <2>1 DEF Seen
<1> QED
  BY <1>3, <1>5, <1>6, <1>7 DEF Moves, c

LEMMA ReadsPosition ==
    ASSUME NEW s, Reads(s)
    PROVE  Pos(s) \in Nat /\ Pushed(s) \subseteq Nat
<1>1. WindowShape(s)
  BY ReadsWindow
<1>2. Pos(s) \in Nat /\ In(s) \subseteq Nat
  BY <1>1, SMTT(20) DEF WindowShape
<1> QED
  BY <1>2 DEF Pushed

-----------------------------------------------------------------------------
(* What the steps of the reading calls move.                               *)
LEMMA SwitchMoves ==
    ASSUME NEW s, Reads(s), s.area = "pb"
    PROVE  Reads(TakePutback(s)) /\ Moves(s, TakePutback(s), Unread(s))
<1> DEFINE t == TakePutback(s)
<1>1. s \in State /\ s.cur \in Nat /\ Good(s) /\ s.open /\ s.pn = 0 /\ s.pe = 0
  BY DEF Reads, Good, State
<1>2. GetSet(s, t, "buf", 0, s.cur)
  <2>1. t = SetG(s, "buf", 0, s.cur)
    BY DEF TakePutback
  <2>2. "buf" \in {"buf", "pb"} /\ 0 \in Nat
    OBVIOUS
  <2> QED
    BY <1>1, <2>1, <2>2, SetGFields, Zenon
<1>3. Good(t) /\ Behind(t)
  BY <1>1, SwitchSound, SwitchBehind DEF Reads
<1> HIDE DEF t
<1>4. Reads(t)
  BY <1>1, <1>2, <1>3 DEF Reads, GetSet, SamePut, SameMode
<1>5. WindowShape(s) /\ WindowShape(t)
  BY <1>4, ReadsWindow
<1>6. /\ t.gn = 0 /\ t.area = "buf" /\ t.fpos = s.fpos /\ t.file = s.file
      /\ t.cur = s.cur /\ t.mem = s.mem /\ t.pb = s.pb /\ SameMode(s, t)
  BY <1>2 DEF GetSet, SameFile, SameMem
<1>7. Start(t) = Start(s) /\ Low(t) = Start(s) /\ Low(s) = Start(s) - s.ge
  BY <1>5, <1>6 DEF Start, Low, WindowShape
<1>8. \A p : Win(t, p) = Win(s, p)
  BY <1>6, <1>7 DEF Win
<1> DEFINE k == s.ge - s.gn
<1>9. k \in Nat /\ s.gn + k = s.ge /\ Pos(t) = Pos(s) + k
  <2>1. /\ s.gn \in Nat /\ s.ge \in Nat /\ s.gn <= s.ge /\ Pos(s) = Low(s) + s.gn
        /\ Pos(t) = Low(t) + t.gn /\ Low(t) \in Nat /\ Low(s) \in Nat /\ Start(s) \in Nat
    BY <1>5 DEF WindowShape
  <2> QED
    BY <1>6, <1>7, <2>1
<1>10. In(t) \subseteq In(s) /\ \A p \in In(s) : p >= Pos(t) => p \in In(t)
  <2>1. In(t) = Low(t) .. s.fpos - 1 /\ In(s) = Low(s) .. s.fpos - 1 /\ Pos(t) = Low(t)
    BY <1>5, <1>6 DEF WindowShape
  <2>2. Low(t) \in Nat /\ Low(s) \in Nat /\ Low(s) <= Low(t) /\ s.fpos \in Nat
    BY <1>5, <1>7 DEF WindowShape
  <2> QED
    BY <2>1, <2>2
<1>11. s.gn + k <= s.ge
  BY <1>5, <1>9 DEF WindowShape
<1> HIDE DEF k
<1>12. Moves(s, t, Chars(s, s.gn, s.gn + k))
  BY <1>4, <1>6, <1>8, <1>9, <1>10, <1>11, WindowMoves, Zenon
<1> QED
  BY <1>4, <1>9, <1>12 DEF Unread, t

LEMMA BumpMoves ==
    ASSUME NEW s, Reads(s), NEW k \in Nat, s.gn + k <= s.ge
    PROVE  Reads(gbump(s, k)) /\ Moves(s, gbump(s, k), Chars(s, s.gn, s.gn + k))
<1> DEFINE t == gbump(s, k)
<1>1. s \in State /\ s.cur \in Nat /\ Good(s) /\ s.open /\ s.pn = 0 /\ s.pe = 0 /\ s.gn \in Nat
  BY DEF Reads, Good, State
<1>2. /\ Good(t) /\ SameMode(s, t) /\ SamePut(s, t) /\ SameMem(s, t) /\ SameFile(s, t)
      /\ t.area = s.area /\ t.gn = s.gn + k /\ t.ge = s.ge
  BY <1>1, GbumpSound
<1>3. Behind(t)
  BY <1>1, GbumpBehind DEF Reads
<1> HIDE DEF t
<1>4. Reads(t)
  BY <1>1, <1>2, <1>3 DEF Reads, SamePut, SameMode
<1>5. WindowShape(s) /\ WindowShape(t)
  BY <1>4, ReadsWindow
<1>6. t.fpos = s.fpos /\ t.file = s.file /\ t.cur = s.cur /\ t.mem = s.mem /\ t.pb = s.pb
  BY <1>2 DEF SameFile, SameMem
<1>7. Start(t) = Start(s) /\ Low(t) = Low(s)
  BY <1>2, <1>6 DEF Start, Low
<1>8. \A p : Win(t, p) = Win(s, p)
  BY <1>6, <1>7 DEF Win
<1>9. In(t) = In(s)
  BY <1>5, <1>6, <1>7 DEF WindowShape
<1>10. Pos(t) = Pos(s) + k
  <2>1. Pos(t) = Low(s) + t.gn /\ Pos(s) = Low(s) + s.gn /\ Low(s) \in Nat
    BY <1>5, <1>7 DEF WindowShape
  <2> QED
    BY <1>1, <1>2, <2>1
<1>11. Moves(s, t, Chars(s, s.gn, s.gn + k))
  BY <1>2, <1>4, <1>6, <1>8, <1>9, <1>10, WindowMoves, Zenon
<1> QED
  BY <1>4, <1>11 DEF t

(* gptr() and egptr() after the buffer was filled, and what lies there.    *)
LEMMA FillFields ==
    ASSUME NEW s, Good(s), NEW n \in Nat
    PROVE  LET t == Fill(s, n)
               c == Available(s, Size(s))
           IN  /\ t.area = "buf" /\ t.gn = Min2(n, Len(c)) /\ t.ge = Len(c) /\ t.cur = Len(c)
               /\ t.file = s.file /\ t.fpos = s.fpos + Len(c) /\ SamePut(s, t)
               /\ \A i \in 1 .. Len(c) : t.mem[i] = c[i]
<1> DEFINE c == Available(s, Size(s))
           m == [i \in 1 .. Size(s) |-> IF i <= Len(c) THEN c[i] ELSE s.mem[i]]
           a == SetMem(s, m)
           b == SetFile(a, s.file, s.fpos + Len(c))
           d == SetCur(b, Len(c))
           k == Min2(n, Len(c))
           t == SetG(d, "buf", k, Len(c))
<1>1. s \in State /\ Size(s) \in Nat /\ Size(s) = Len(s.mem) /\ s.file \in Text /\ s.fpos \in Nat
      /\ s.mem \in Seq(Char \cup {Hole, Junk})
  BY DEF Good, State, Size, Text
<1>2. c \in Text /\ Len(c) <= Size(s) /\ Len(c) \in Nat
  BY <1>1, AvailableType DEF Text
<1>3. t = Fill(s, n)
  BY DEF Fill, ReadInto, SetMem, SetFile
<1> HIDE DEF c
<1>4. k \in Nat /\ s.fpos + Len(c) \in Nat
  BY <1>1, <1>2 DEF Min2
<1>5. m \in Seq(Char \cup {Hole, Junk}) /\ \A i \in 1 .. Len(c) : m[i] = c[i]
  BY <1>1, <1>2 DEF Text
<1> HIDE DEF m, k
<1>6. a \in State /\ SameFile(s, a) /\ SamePut(s, a) /\ a.mem = m
  BY <1>1, <1>5, SetMemFields
<1> HIDE DEF a
<1>7. /\ b \in State /\ b.file = s.file /\ b.fpos = s.fpos + Len(c)
      /\ SamePut(a, b) /\ SameMem(a, b)
  <2> DEFINE f == s.file
             p == s.fpos + Len(c)
  <2>1. f \in Text /\ p \in Nat
    BY <1>1, <1>4
  <2>2. b = SetFile(a, f, p)
    OBVIOUS
  <2> HIDE DEF b, f, p
  <2>3. /\ b \in State /\ b.file = f /\ b.fpos = p /\ SamePut(a, b) /\ SameMem(a, b)
    BY <1>6, <2>1, <2>2, SetFileFields
  <2> QED
    BY <2>3 DEF f, p
<1> HIDE DEF b
<1>8. d \in State /\ d.cur = Len(c) /\ d.mem = b.mem /\ SameFile(b, d) /\ SamePut(b, d)
  BY <1>2, <1>7, SetCurFields
<1> HIDE DEF d
<1>9. GetSet(d, t, "buf", k, Len(c))
  <2>1. "buf" \in {"buf", "pb"}
    OBVIOUS
  <2> QED
    BY <1>2, <1>4, <1>8, <2>1, SetGFields, Zenon
<1> HIDE DEF t
<1>10. /\ t.area = "buf" /\ t.gn = k /\ t.ge = Len(c) /\ t.cur = Len(c)
       /\ t.file = s.file /\ t.fpos = s.fpos + Len(c) /\ SamePut(s, t) /\ t.mem = m
  BY <1>6, <1>7, <1>8, <1>9 DEF GetSet, SameFile, SamePut, SameMem
<1> QED
  BY <1>3, <1>5, <1>10 DEF c, k

LEMMA AvailablePart ==
    ASSUME readable, NEW s \in State, NEW n \in Nat, NEW m \in Nat, n <= m
    PROVE  Len(Available(s, n)) = Min2(n, Len(Available(s, m)))
<1> DEFINE a == Available(s, n)
           c == Available(s, m)
<1>1. s.fpos \in Nat /\ Len(s.file) \in Nat
  BY LenProperties DEF State
<1>2. /\ Len(a) \in Nat /\ Len(a) <= n
      /\ Len(a) = n \/ s.fpos + Len(a) >= Len(s.file)
      /\ \A i \in 1 .. Len(a) : s.fpos + i <= Len(s.file)
  BY AvailableShape
<1>3. /\ Len(c) \in Nat /\ Len(c) <= m
      /\ Len(c) = m \/ s.fpos + Len(c) >= Len(s.file)
      /\ \A i \in 1 .. Len(c) : s.fpos + i <= Len(s.file)
  BY AvailableShape
<1> HIDE DEF a, c
<1>4. /\ Len(a) > 0 => s.fpos + Len(a) <= Len(s.file)
      /\ Len(c) > 0 => s.fpos + Len(c) <= Len(s.file)
  BY <1>1, <1>2, <1>3
<1>5. Len(a) = Min2(n, Len(c))
  BY <1>1, <1>2, <1>3, <1>4, SMTT(20) DEF Min2
<1> QED
  BY <1>5 DEF a, c

LEMMA FillMoves ==
    ASSUME NEW s, Reads(s), Pos(s) = s.fpos, "in" \in s.mode, NEW n \in Nat, n <= Size(s)
    PROVE  LET t == Fill(s, n) IN
           /\ Reads(t) /\ Moves(s, t, Available(s, n))
           /\ Len(Available(s, n)) = n \/ Pos(t) \notin Seen(t)
           /\ n < Size(s) /\ t.gn = t.ge => Pos(t) \notin Seen(t)
<1> DEFINE c == Available(s, Size(s))
           a == Available(s, n)
           t == Fill(s, n)
<1>1. /\ s \in State /\ Good(s) /\ s.open /\ s.pn = 0 /\ s.pe = 0 /\ Size(s) \in Nat /\ s.fpos \in Nat
      /\ readable
  BY DEF Reads, Good, State, Size
<1>2. /\ t.area = "buf" /\ t.gn = Min2(n, Len(c)) /\ t.ge = Len(c) /\ t.cur = Len(c)
      /\ t.file = s.file /\ t.fpos = s.fpos + Len(c) /\ SamePut(s, t)
      /\ \A i \in 1 .. Len(c) : t.mem[i] = c[i]
  BY <1>1, FillFields
<1>3. Good(t) /\ SameMode(s, t) /\ Behind(t)
  BY <1>1, FillSound, FillBehind DEF Sound
<1>4. Len(a) = Min2(n, Len(c))
  BY <1>1, AvailablePart
<1>5. /\ Len(c) \in Nat /\ Len(c) <= Size(s)
      /\ Len(c) = Size(s) \/ s.fpos + Len(c) >= Len(s.file)
      /\ \A i \in 1 .. Len(c) : s.fpos + i <= Len(s.file) /\ c[i] = s.file[s.fpos + i]
  BY <1>1, AvailableShape
<1> HIDE DEF t, c
<1>6. Reads(t)
  BY <1>1, <1>2, <1>3 DEF Reads, SamePut, SameMode
<1>7. WindowShape(s) /\ WindowShape(t)
  BY <1>6, ReadsWindow
<1>8. Start(t) = s.fpos /\ Low(t) = s.fpos
  BY <1>1, <1>2, <1>5 DEF Start, Low
<1>9. Pushed(t) = {}
  <2>1. ASSUME NEW q \in In(t)
        PROVE  q + 1 \in DOMAIN t.file /\ t.file[q + 1] = Win(t, q)
    <3>1. q \in s.fpos .. s.fpos + Len(c) - 1 /\ DOMAIN t.file = 1 .. Len(t.file) /\ Len(t.file) \in Nat
      <4>1. In(t) = Low(t) .. t.fpos - 1 /\ DOMAIN t.file = 1 .. Len(t.file) /\ Len(t.file) \in Nat
        BY <1>7 DEF WindowShape
      <4> DEFINE k == Len(c)
      <4>2. t.fpos = s.fpos + k /\ k \in Nat
        BY <1>2, <1>5, Zenon
      <4> HIDE DEF k
      <4>3. q \in s.fpos .. s.fpos + k - 1
        BY <1>1, <1>8, <2>1, <4>1, <4>2
      <4> QED
        BY <4>1, <4>3, Zenon DEF k
    <3> DEFINE i == q - s.fpos + 1
    <3>2. i \in 1 .. Len(c) /\ q + 1 = s.fpos + i /\ ~(q < s.fpos) /\ q + 1 \in Nat \ {0}
      BY <1>1, <1>5, <3>1, SMTT(20)
    <3>3. Win(t, q) = t.mem[i]
      BY <1>8, <3>2 DEF Win
    <3> HIDE DEF i
    <3>4. t.mem[i] = s.file[s.fpos + i] /\ s.fpos + i <= Len(s.file)
      BY <1>2, <1>5, <3>2
    <3> QED
      BY <1>2, <3>1, <3>2, <3>3, <3>4
  <2> QED
    BY <2>1 DEF Pushed
<1>10. Pos(t) = s.fpos + t.gn /\ Pos(t) = Pos(s) + Len(a)
  BY <1>2, <1>4, <1>7, <1>8 DEF WindowShape
<1>11. Moves(s, t, a) /\ (Len(a) = n \/ Pos(t) \notin Seen(t))
  BY <1>2, <1>3, <1>6, <1>9, <1>10, FileMoves
<1>12. n < Size(s) /\ t.gn = t.ge => Pos(t) \notin Seen(t)
  <2> SUFFICES ASSUME n < Size(s), t.gn = t.ge
               PROVE  Pos(t) \notin Seen(t)
    OBVIOUS
  <2>1. Len(c) < Size(s) /\ t.gn = Len(c)
    <3>1. Len(c) = Min2(n, Len(c)) /\ t.gn = Len(c)
      BY <1>2
    <3> QED
      BY <1>1, <1>5, <3>1 DEF Min2
  <2>2. Pos(t) >= Len(s.file) /\ Pos(t) \in Nat /\ Len(s.file) \in Nat
    <3>1. Len(s.file) \in Nat
      BY <1>7 DEF WindowShape
    <3>2. Pos(t) = s.fpos + Len(c)
      BY <1>10, <2>1
    <3> QED
      BY <1>1, <1>5, <2>1, <3>1, <3>2
  <2>3. Data(t) = s.file
    BY <1>2, <1>7 DEF WindowShape
  <2> QED
    BY <1>9, <2>2, <2>3 DEF Seen
<1> QED
  BY <1>6, <1>11, <1>12 DEF t

LEMMA FillPutbackMoves ==
    ASSUME NEW s, Reads(s), Pos(s) = s.fpos, "in" \in s.mode
    PROVE  LET t == FillPutback(s) IN
           /\ Reads(t) /\ Moves(s, t, <<>>) /\ (t.gn = t.ge => Pos(t) \notin Seen(t))
<1> DEFINE c == Available(s, 1)
           x == IF c = <<>> THEN s.pb ELSE c[1]
           a == SetCur(s, 0)
           f == s.file
           p == s.fpos + Len(c)
           b == SetFile(a, f, p)
           d == SetPb(b, x)
           t == FillPutback(s)
<1>1. s \in State /\ Good(s) /\ s.open /\ s.pn = 0 /\ s.pe = 0 /\ f \in Text /\ s.fpos \in Nat
  BY DEF Reads, Good, State, Size, Text
<1>2. Good(t) /\ SameMode(s, t) /\ Behind(t)
  BY <1>1, FillPutbackSound, FillPutbackBehind DEF Sound
<1>3. /\ c \in Text /\ Len(c) \in Nat /\ Len(c) <= 1
      /\ Len(c) = 1 \/ s.fpos + Len(c) >= Len(s.file)
      /\ \A i \in 1 .. Len(c) : s.fpos + i <= Len(s.file) /\ c[i] = s.file[s.fpos + i]
  <2> HIDE DEF a, b, d, t, x, p, f
  <2>1. s \in State /\ 1 \in Nat /\ readable
    BY <1>1 DEF Reads
  <2> QED
    BY <2>1, AvailableShape, Zenon
<1>0. Len(c) \in Nat /\ (Len(c) = 0 \/ Len(c) = 1)
  <2> DEFINE k == Len(c)
  <2>1. k \in Nat /\ k <= 1
    BY <1>3, Zenon
  <2> HIDE DEF k
  <2>2. k = 0 \/ k = 1
    BY <2>1
  <2> QED
    BY <2>1, <2>2, Zenon DEF k
<1>4. t = SetG(d, "pb", 0, Len(c)) /\ p \in Nat
  BY <1>1, <1>3 DEF FillPutback
<1>5. x \in Char \cup {Hole, Junk} /\ (Len(c) = 1 => x = c[1])
  <2>1. s.pb \in Char \cup {Hole, Junk}
    BY <1>1 DEF State
  <2> HIDE DEF c
  <2>2. c # <<>> => Len(c) = 1
    <3>1. c # <<>> => Len(c) # 0
      BY <1>3, EmptySeq DEF Text
    <3> QED
      BY <1>0, <3>1
  <2>3. Len(c) = 1 => c # <<>> /\ c[1] \in Char \cup {Hole}
    <3>1. c = <<>> => Len(c) = 0
      BY EmptySeq
    <3>2. Len(c) = 1 => c[1] \in Char \cup {Hole}
      <4>1. c \in Seq(Char \cup {Hole})
        BY <1>3, Zenon DEF Text
      <4>2. Len(c) = 1 => 1 \in 1 .. Len(c)
        BY <1>0
      <4> QED
        BY <4>1, <4>2, ElementOfSeq
    <3> QED
      BY <3>1, <3>2
  <2> QED
    BY <2>1, <2>2, <2>3
<1> HIDE DEF t, c, x, p, f
<1>6. a \in State /\ a.cur = 0 /\ SameFile(s, a) /\ SamePut(s, a)
  BY <1>1, SetCurFields
<1> HIDE DEF a
<1>7. b \in State /\ b.file = f /\ b.fpos = p /\ SamePut(a, b) /\ SameMem(a, b)
  BY <1>1, <1>4, <1>6, SetFileFields
<1> HIDE DEF b
<1>8. d \in State /\ d.pb = x /\ d.cur = b.cur /\ SameFile(b, d) /\ SamePut(b, d)
  BY <1>5, <1>7, SetPbFields
<1> HIDE DEF d
<1>9. GetSet(d, t, "pb", 0, Len(c))
  <2>1. "pb" \in {"buf", "pb"} /\ 0 \in Nat
    OBVIOUS
  <2> QED
    BY <1>3, <1>4, <1>8, <2>1, SetGFields, Zenon
<1>10. /\ t.area = "pb" /\ t.gn = 0 /\ t.ge = Len(c) /\ t.cur = 0
       /\ t.file = s.file /\ t.fpos = s.fpos + Len(c) /\ t.pb = x
  BY <1>6, <1>7, <1>8, <1>9 DEF GetSet, SameFile, SameMem, p, f
<1>11. t.pn = 0 /\ t.pe = 0
  BY <1>1, <1>6, <1>7, <1>8, <1>9 DEF GetSet, SamePut
<1>12. Reads(t)
  BY <1>1, <1>2, <1>11 DEF Reads, SameMode
<1>13. WindowShape(s) /\ WindowShape(t)
  BY <1>12, ReadsWindow
<1>14. Start(t) = s.fpos + Len(c) /\ Low(t) = s.fpos
  BY <1>1, <1>3, <1>10 DEF Start, Low
<1>15. Pos(t) = s.fpos
  <2>1. Pos(t) = Low(t) + t.gn
    BY <1>13 DEF WindowShape
  <2> QED
    BY <1>1, <1>10, <1>14, <2>1
<1>16. Pushed(t) = {}
  <2>1. ASSUME NEW q \in In(t)
        PROVE  q + 1 \in DOMAIN t.file /\ t.file[q + 1] = Win(t, q)
    <3>1. q \in s.fpos .. s.fpos + Len(c) - 1 /\ DOMAIN t.file = 1 .. Len(t.file) /\ Len(t.file) \in Nat
      <4>1. In(t) = Low(t) .. t.fpos - 1 /\ DOMAIN t.file = 1 .. Len(t.file) /\ Len(t.file) \in Nat
        BY <1>13 DEF WindowShape
      <4> DEFINE k == Len(c)
      <4>2. t.fpos = s.fpos + k /\ k \in Nat
        BY <1>10, <1>0, Zenon
      <4> HIDE DEF k
      <4>3. q \in s.fpos .. s.fpos + k - 1
        BY <1>1, <1>14, <2>1, <4>1, <4>2
      <4> QED
        BY <4>1, <4>3, Zenon DEF k
    <3>2. q = s.fpos /\ Len(c) = 1
      <4> DEFINE k == Len(c)
      <4>1. s.fpos \in Nat /\ (k = 0 \/ k = 1) /\ q \in s.fpos .. s.fpos + k - 1
        BY <1>0, <1>1, <3>1, Zenon
      <4> HIDE DEF k
      <4>2. q = s.fpos /\ k = 1
        BY <4>1
      <4> QED
        BY <4>2, Zenon DEF k
    <3>3. q < Start(t)
      BY <1>1, <1>14, <3>2
    <3>4. Win(t, q) = x
      BY <1>10, <3>3 DEF Win
    <3>5. s.fpos + 1 <= Len(s.file) /\ x = s.file[s.fpos + 1]
      BY <1>3, <1>5, <3>2
    <3> QED
      BY <1>1, <1>10, <3>1, <3>2, <3>4, <3>5
  <2> QED
    BY <2>1 DEF Pushed
<1>17. Moves(s, t, <<>>)
  <2> DEFINE e == Available(s, 0)
  <2>1. e \in Text /\ Len(e) <= 0 /\ Len(e) \in Nat
    BY <1>1, AvailableShape DEF Reads
  <2>2. Len(e) = 0 /\ e = <<>>
    BY <2>1, EmptySeq DEF Text
  <2>3. Pos(t) = Pos(s) + Len(e)
    BY <1>1, <1>15, <2>2
  <2>4. Moves(s, t, e)
    BY <1>2, <1>10, <1>12, <1>16, <2>3, FileMoves
  <2> HIDE DEF e
  <2> QED
    BY <2>2, <2>4
<1>18. t.gn = t.ge => Pos(t) \notin Seen(t)
  <2> SUFFICES ASSUME Len(c) = 0
               PROVE  Pos(t) \notin Seen(t)
    BY <1>10
  <2>1. Pos(t) >= Len(s.file) /\ Pos(t) \in Nat /\ Len(s.file) \in Nat
    BY <1>1, <1>3, <1>13, <1>15 DEF WindowShape
  <2>2. Data(t) = s.file
    BY <1>10, <1>13 DEF WindowShape
  <2> QED
    BY <1>16, <2>1, <2>2 DEF Seen
<1> QED
  BY <1>12, <1>17, <1>18 DEF t

LEMMA DirectMoves ==
    ASSUME NEW s, Reads(s), Pos(s) = s.fpos, NEW n \in Nat
    PROVE  LET c == Available(s, n)
               t == SetG(SetCur(SetFile(s, s.file, s.fpos + Len(c)), 0), "buf", 0, 0)
           IN  /\ Reads(t) /\ Moves(s, t, c) /\ (Len(c) = n \/ Pos(t) \notin Seen(t))
<1> DEFINE c == Available(s, n)
           k == Len(c)
           f == s.file
           p == s.fpos + k
           b == SetFile(s, f, p)
           d == SetCur(b, 0)
           t == SetG(d, "buf", 0, 0)
<1>1. /\ s \in State /\ Good(s) /\ s.open /\ s.pn = 0 /\ s.pe = 0 /\ s.fpos \in Nat
      /\ f \in Text
  BY DEF Reads, Good, State, Text
<1>2. k \in Nat
  BY <1>1, AvailableShape
<1> HIDE DEF k
<1>3. p \in Nat
  BY <1>1, <1>2
<1>4. Good(t) /\ SameMode(s, t)
  <2> HIDE DEF t
  <2>1. Sound(t) /\ SameMode(s, t)
    BY <1>1, <1>2, DirectSound DEF t, b, d, f, p
  <2> QED
    BY <2>1 DEF Sound
<1> HIDE DEF f, p
<1>5. b \in State /\ b.file = f /\ b.fpos = p /\ SamePut(s, b)
  BY <1>1, <1>3, SetFileFields
<1> HIDE DEF b
<1>6. d \in State /\ SameFile(b, d) /\ SamePut(b, d)
  BY <1>5, SetCurFields
<1> HIDE DEF d
<1>7. GetSet(d, t, "buf", 0, 0)
  <2>1. "buf" \in {"buf", "pb"} /\ 0 \in Nat
    OBVIOUS
  <2> QED
    BY <1>6, <2>1, SetGFields, Zenon
<1> HIDE DEF t
<1>8. /\ t.area = "buf" /\ t.gn = 0 /\ t.ge = 0 /\ t.file = f /\ t.fpos = p
      /\ t.pn = 0 /\ t.pe = 0
  BY <1>1, <1>5, <1>6, <1>7 DEF GetSet, SameFile, SamePut
<1>9. NoInput(t)
  BY <1>8 DEF NoInput
<1>10. Reads(t)
  BY <1>1, <1>4, <1>8, <1>9, NoInputBehind DEF Reads, SameMode
<1>11. Pushed(t) = {}
  BY <1>4, <1>9, NoInputOver
<1>12. Pos(t) = Pos(s) + k
  <2>1. Position(t) = t.fpos
    BY <1>4, <1>8, <1>9, <1>10, PositionType DEF Reads
  <2> QED
    BY <1>8, <1>10, <2>1 DEF Pos, Reads, p
<1>13. Moves(s, t, c) /\ (k = n \/ Pos(t) \notin Seen(t))
  <2>1. s.file = t.file
    BY <1>8 DEF f
  <2>2. Pos(t) = Pos(s) + Len(c)
    BY <1>12 DEF k
  <2> HIDE DEF c
  <2>3. Moves(s, t, c) /\ (Len(c) = n \/ Pos(t) \notin Seen(t))
    BY <1>4, <1>10, <1>11, <2>1, <2>2, FileMoves DEF c
  <2> QED
    BY <2>3 DEF k
<1> QED
  BY <1>10, <1>13, Zenon DEF t, d, b, p, f, k

(* A device that takes everything.                                         *)
LEMMA TakesAll ==
    ASSUME NEW s, Good(s), s.open, limit = MaxFile, s.pn <= MaxFile
    PROVE  Taken(s, Pending(s)) = s.pn /\ ~SyncFails(s) /\ limit \in Nat
<1>1. Pending(s) \in Seq(Char) /\ Len(Pending(s)) = s.pn /\ s.pn \in Nat
  BY PendingType DEF Good, State
<1>2. MaxFile \in Nat
  BY BufAssumption
<1>3. Taken(s, Pending(s)) = Min2(s.pn, MaxFile)
  BY <1>1 DEF Taken
<1> QED
  BY <1>1, <1>2, <1>3 DEF Min2, SyncFails

LEMMA EndMoves ==
    ASSUME NEW s, Sound(s), Behind(s), s.open, Working, s.pn <= MaxFile
    PROVE  LET t == EndOutput(s) IN Reads(t) /\ Moves(s, t, <<>>)
<1> DEFINE t == EndOutput(s)
           w == WriteFile(s, Pending(s))
<1>1. /\ s \in State /\ Good(s) /\ Apart(s) /\ s.pn \in Nat /\ s.pe \in Nat /\ s.pn <= s.pe
      /\ s.file \in Text /\ s.fpos \in Nat /\ limit \in Nat /\ limit = MaxFile
  BY TakesAll DEF Working, Sound, Good, State, Bounds, Text
<1>2. /\ Good(t) /\ SameMode(s, t) /\ SameGet(s, t) /\ SameMem(s, t) /\ t.pn = 0 /\ t.pe = 0
  BY <1>1, EndOutputSound DEF Sound
<1>3. Behind(t)
  BY <1>1, EndOutputBehind
<1>4. w \in State /\ PutSet(w, t, 0, 0)
  <2>1. w \in State
    BY <1>1, PendingType, WriteFileSound
  <2>2. t = SetP(w, 0, 0) /\ 0 \in Nat
    BY DEF EndOutput
  <2> HIDE DEF w, t
  <2> QED
    BY <2>1, <2>2, SetPFields, Zenon
<1> HIDE DEF t
<1>5. Reads(t)
  BY <1>2, <1>3 DEF Working, Reads, SameMode
<1>6. Data(s) = Output(s) /\ Data(t) = t.file /\ Pos(s) = Position(s) /\ Pos(t) = Position(t)
  BY <1>5 DEF Data, Reads, Output, Pos
<1>7. t.file = Output(s) /\ Position(t) = Position(s) /\ Position(s) \in Nat
  <2>1. Position(s) \in Nat
    BY <1>1, PositionType
  <2>2. CASE s.pn > 0
    <3>1. NoInput(t)
      BY <1>1, <1>2, <2>2 DEF Apart, NoInput, SameGet
    <3>2. Position(t) = t.fpos
      BY <1>2, <1>3, <3>1, PositionType
    <3> DEFINE p == Pending(s)
    <3>3. p \in Seq(Char) /\ Len(p) = s.pn /\ Taken(s, p) = Len(p) /\ p # <<>>
      BY <1>1, <2>2, PendingType, TakesAll, CharText
    <3> HIDE DEF p
    <3>4. w = SetFile(s, WriteAt(s.file, At(s), p), At(s) + Len(p))
      BY <3>3, WriteAll DEF p
    <3>5. w = SetFile(s, Output(s), Position(s))
      BY <2>2, <3>3, <3>4, OutputType, <1>1 DEF Output, p
    <3> HIDE DEF w
    <3>6. w.file = Output(s) /\ w.fpos = Position(s)
      BY <1>1, <3>5 DEF SetFile, State
    <3> QED
      BY <1>4, <2>1, <3>2, <3>6 DEF PutSet, SameFile
  <2>3. CASE s.pn = 0
    <3>1. w = s
      <4>1. Taken(s, Pending(s)) = 0
        BY <1>1, <2>3, TakesAll
      <4> QED
        BY <4>1 DEF WriteFile
    <3>2. t.file = s.file /\ t.fpos = s.fpos
      BY <1>4, <3>1 DEF PutSet, SameFile
    <3>3. m_input_size(t) = m_input_size(s)
      BY <1>2 DEF m_input_size, SameGet, SameMem
    <3> QED
      BY <1>2, <2>1, <2>3, <3>2, <3>3 DEF Output, Position
  <2> QED
    BY <1>1, <2>2, <2>3
<1>8. /\ Pushed(t) = Pushed(s) /\ \A q \in Pushed(t) : Win(t, q) = Win(s, q)
  <2>1. CASE s.pe > 0
    <3>1. NoInput(s) /\ NoInput(t)
      BY <1>1, <1>2, <2>1 DEF Apart, NoInput, SameGet
    <3> QED
      BY <1>1, <1>2, <3>1, NoInputOver
  <2>2. CASE s.pe = 0
    <3>1. s.pn = 0
      BY <1>1, <2>2
    <3>2. w = s
      <4>1. Taken(s, Pending(s)) = 0
        BY <1>1, <3>1, TakesAll
      <4> QED
        BY <4>1 DEF WriteFile
    <3> HIDE DEF w
    <3>3. /\ t.file = s.file /\ t.fpos = s.fpos /\ t.area = s.area /\ t.gn = s.gn
          /\ t.ge = s.ge /\ t.cur = s.cur /\ t.mem = s.mem /\ t.pb = s.pb
          /\ t.pe = s.pe /\ t.open = s.open
      BY <1>2, <1>4, <2>2, <3>2 DEF PutSet, SameFile, SameGet, SameMem, SameMode
    <3>4. Start(t) = Start(s)
      BY <3>3 DEF Start
    <3>5. In(t) = In(s) /\ \A q : Win(t, q) = Win(s, q)
      BY <3>3, <3>4 DEF In, Win
    <3> QED
      BY <3>3, <3>5 DEF Pushed
  <2> QED
    BY <1>1, <2>1, <2>2
<1>9. Kept(s, t)
  BY <1>2, <1>6, <1>7, <1>8 DEF Kept
<1>10. Moves(s, t, <<>>)
  <2>1. Len(<<>>) = 0
    OBVIOUS
  <2>2. Pos(t) = Pos(s) + 0
    BY <1>6, <1>7
  <2> QED
    BY <1>9, <2>1, <2>2 DEF Moves
<1> QED
  BY <1>5, <1>10 DEF t

-----------------------------------------------------------------------------
(* The reading calls.                                                      *)

(* A state in which a call begins, on a device that takes everything.      *)
Ready(s) == Sound(s) /\ Behind(s) /\ s.open /\ Working /\ s.pn <= MaxFile

LEMMA MovesNothing ==
    ASSUME NEW s, Pos(s) \in Nat
    PROVE  Moves(s, s, <<>>)
<1>1. Len(<<>>) = 0 /\ Pos(s) = Pos(s) + 0
  OBVIOUS
<1>2. Kept(s, s)
  BY DEF Kept, SameMode
<1> QED
  BY <1>1, <1>2 DEF Moves

LEMMA EmptyMoves ==
    ASSUME NEW s, NEW t, NEW u, NEW g \in Text, Pos(s) \in Nat, Pushed(s) \subseteq Nat,
           Moves(s, t, <<>>), Moves(t, u, g)
    PROVE  Moves(s, u, g)
<1>1. <<>> \in Text /\ <<>> \o g = g
  BY ConcatEmptySeq DEF Text
<1> QED
  BY <1>1, MovesTwice

LEMMA ReadyPosition ==
    ASSUME NEW s, Ready(s)
    PROVE  Pos(s) \in Nat /\ Pushed(s) \subseteq Nat
<1>1. Good(s) /\ Behind(s) /\ Apart(s) /\ s.open /\ s.pn \in Nat /\ s.pe \in Nat /\ s.pn <= s.pe
  BY DEF Ready, Sound, Good, State, Bounds
<1>2. Pos(s) \in Nat
  BY <1>1, PositionType DEF Pos
<1>3. CASE s.pe > 0
  BY <1>1, <1>2, <1>3, NoInputOver DEF Apart, NoInput
<1>4. CASE s.pe = 0
  BY <1>1, <1>4, ReadsPosition DEF Ready, Working, Reads
<1> QED
  BY <1>1, <1>3, <1>4

LEMMA UsedUp ==
    ASSUME NEW s, Reads(s), s.gn = s.ge, s.area = "pb" => s.cur = 0
    PROVE  Pos(s) = s.fpos
<1>1. WindowShape(s) /\ s.area \in {"buf", "pb"} /\ (s.area = "buf" => s.ge = s.cur)
  BY ReadsWindow DEF Reads, Good, State, Bounds
<1>2. /\ s.gn \in Nat /\ s.cur \in Nat /\ s.fpos \in Nat /\ Pos(s) = Low(s) + s.gn
      /\ Start(s) = s.fpos - s.cur
  BY <1>1 DEF WindowShape
<1>3. CASE s.area = "buf"
  <2>1. Low(s) = Start(s)
    BY <1>2, <1>3 DEF Low
  <2> QED
    BY <1>1, <1>2, <1>3, <2>1
<1>4. CASE s.area = "pb"
  <2>1. Low(s) = Start(s) - s.ge
    BY <1>4 DEF Low
  <2> QED
    BY <1>2, <1>4, <2>1
<1> QED
  BY <1>1, <1>3, <1>4

LEMMA UnderflowMoves ==
    ASSUME NEW s, Ready(s), "in" \in s.mode
    PROVE  LET t == underflow(s) IN
           /\ Reads(t) /\ Moves(s, t, <<>>) /\ (t.gn = t.ge => Pos(t) \notin Seen(t))
<1>1. /\ Sound(s) /\ Good(s) /\ Behind(s) /\ Apart(s) /\ s.open /\ s.pn \in Nat /\ s.pe \in Nat
      /\ s.pn <= s.pe /\ s.pe <= Len(s.mem) /\ s.cur \in Nat /\ s.cur <= Len(s.mem)
      /\ s.gn \in Nat /\ s.ge \in Nat /\ s.gn <= s.ge /\ Working /\ s.pn <= MaxFile /\ readable
      /\ limit = MaxFile
  BY DEF Ready, Working, Sound, Good, State, Bounds
<1>2. Pos(s) \in Nat /\ Pushed(s) \subseteq Nat
  BY ReadyPosition
<1>3. CASE s.gn < s.ge
  <2>1. underflow(s) = s
    BY <1>3 DEF underflow
  <2>2. s.pe = 0 /\ s.pn = 0
    BY <1>1, <1>3 DEF Apart
  <2>3. Reads(s) /\ s.gn # s.ge
    BY <1>1, <1>3, <2>2 DEF Reads
  <2> QED
    BY <1>2, <2>1, <2>3, MovesNothing
<1>4. CASE ~(s.gn < s.ge) /\ s.area = "pb" /\ s.cur > 0
  <2> DEFINE t == TakePutback(s)
  <2>1. underflow(s) = t
    BY <1>4 DEF underflow, TakePutback
  <2>2. s.pe = 0 /\ s.pn = 0
    BY <1>1, <1>4 DEF Apart
  <2>3. Reads(s)
    BY <1>1, <2>2 DEF Reads
  <2>4. Reads(t) /\ Moves(s, t, Unread(s))
    BY <1>4, <2>3, SwitchMoves
  <2>5. Unread(s) = <<>>
    <3>1. Len(Unread(s)) = 0 /\ Unread(s) \in Text
      BY <1>1, <1>4, UnreadType
    <3> QED
      BY <3>1, EmptySeq DEF Text
  <2>6. t.gn = 0 /\ t.ge = s.cur
    BY <1>1, <1>4 DEF TakePutback, SetG, Good, State
  <2> QED
    BY <1>1, <1>4, <2>1, <2>4, <2>5, <2>6
<1>5. CASE ~(s.gn < s.ge) /\ ~(s.area = "pb" /\ s.cur > 0) /\ Size(s) > 0
  <2> DEFINE e == EndOutput(s)
             t == Fill(e, 0)
  <2>1. underflow(s) = t
    BY <1>5 DEF underflow
  <2>2. /\ Reads(e) /\ Moves(s, e, <<>>) /\ SameMode(s, e) /\ SameGet(s, e) /\ SameMem(s, e)
    BY <1>1, EndMoves, EndOutputSound, TakesAll
  <2> HIDE DEF e
  <2>3. e.gn = e.ge /\ (e.area = "pb" => e.cur = 0) /\ Size(e) > 0 /\ "in" \in e.mode
        /\ 0 \in Nat /\ 0 < Size(e) /\ 0 <= Size(e)
    BY <1>1, <1>5, <2>2 DEF SameGet, SameMem, SameMode, Size
  <2>4. Pos(e) = e.fpos
    BY <2>2, <2>3, UsedUp
  <2>5. /\ Reads(t) /\ Moves(e, t, Available(e, 0))
        /\ t.gn = t.ge => Pos(t) \notin Seen(t)
    BY <2>2, <2>3, <2>4, FillMoves
  <2>6. Available(e, 0) = <<>>
    <3> DEFINE c == Available(e, 0)
    <3>1. e \in State
      BY <2>2 DEF Reads, Good
    <3>2. c \in Text /\ Len(c) \in Nat /\ Len(c) <= 0
      BY <1>1, <3>1, AvailableShape
    <3> HIDE DEF c
    <3>3. Len(c) = 0
      BY <3>2
    <3>4. c = <<>>
      BY <3>2, <3>3, EmptySeq DEF Text
    <3> QED
      BY <3>4 DEF c
  <2> HIDE DEF t
  <2>7. Moves(s, t, <<>>)
    <3>1. <<>> \in Text
      BY DEF Text
    <3> QED
      BY <1>2, <2>2, <2>5, <2>6, <3>1, EmptyMoves
  <2> QED
    BY <2>1, <2>5, <2>7
<1>6. CASE ~(s.gn < s.ge) /\ ~(s.area = "pb" /\ s.cur > 0) /\ ~(Size(s) > 0)
  <2>1. underflow(s) = FillPutback(s)
    BY <1>6 DEF underflow
  <2>2. Len(s.mem) = 0
    BY <1>6, LenProperties DEF Size, Ready, Sound, Good, State
  <2>3. Reads(s) /\ s.gn = s.ge /\ s.cur = 0
    BY <1>1, <1>6, <2>2 DEF Reads
  <2>4. Pos(s) = s.fpos
    BY <2>3, UsedUp
  <2> QED
    BY <2>1, <2>3, <2>4, FillPutbackMoves
<1> QED
  BY <1>3, <1>4, <1>5, <1>6

(* The first characters of the get area.                                   *)
LEMMA FirstChars ==
    ASSUME NEW s, Reads(s), NEW n \in Nat
    PROVE  LET k == Min2(n, s.ge - s.gn)
               g == First(Unread(s), n)
           IN  /\ g \in Text /\ Len(g) = k /\ k \in Nat /\ s.gn + k <= s.ge
               /\ g = Chars(s, s.gn, s.gn + k)
<1> DEFINE k == Min2(n, s.ge - s.gn)
           g == First(Unread(s), n)
           a == s.gn
           b == s.gn + k
           e == s.ge
           S == Char \cup {Hole, Junk}
<1>1. a \in Nat /\ e \in Nat /\ a <= e
  BY ReadsWindow DEF WindowShape
<1>2. k \in Nat /\ s.gn + k <= s.ge /\ k <= s.ge - s.gn
  BY <1>1 DEF Min2
<1>3. Unread(s) \in Text /\ Len(Unread(s)) = e - a
  BY UnreadType DEF Reads
<1>4. /\ g \in Text /\ Len(g) = k /\ \A i \in 1 .. k : g[i] = Unread(s)[i]
  BY <1>3, FirstType DEF Text
<1>5. /\ Unread(s) = Chars(s, a, e) /\ b \in Nat /\ a <= b /\ b <= e /\ b - a = k /\ e = s.ge
      /\ e <= s.ge /\ k <= e - a
  BY <1>1, <1>2 DEF Unread
<1> HIDE DEF g, k, a, b, e
<1>6. \A i \in 1 .. e - a : Chars(s, a, e)[i] = Win(s, Low(s) + a + i - 1)
  <2>1. a \in Nat /\ e \in Nat /\ a <= e /\ e <= s.ge
    BY <1>1, <1>5
  <2> QED
    BY <2>1, CharsSeen
<1>7. /\ Chars(s, a, b) \in Seq(S) /\ Len(Chars(s, a, b)) = b - a
      /\ \A i \in 1 .. b - a : Chars(s, a, b)[i] = Win(s, Low(s) + a + i - 1)
  <2>1. b <= s.ge
    BY <1>5
  <2>2. Chars(s, a, b) \in Seq(S) /\ Len(Chars(s, a, b)) = b - a
    BY <1>1, <1>5, <2>1, CharsSeen
  <2>3. \A i \in 1 .. b - a : Chars(s, a, b)[i] = Win(s, Low(s) + a + i - 1)
    BY <1>1, <1>5, <2>1, CharsSeen
  <2> QED
    BY <2>2, <2>3
<1>8. g = Chars(s, a, b)
  <2>1. g \in Seq(S)
    BY <1>4 DEF Text
  <2>2. \A i \in 1 .. k : g[i] = Chars(s, a, b)[i]
    <3> SUFFICES ASSUME NEW i \in 1 .. k PROVE g[i] = Chars(s, a, b)[i]
      OBVIOUS
    <3>1. i \in 1 .. e - a /\ i \in 1 .. b - a
      BY <1>1, <1>2, <1>5
    <3> QED
      BY <1>4, <1>5, <1>6, <1>7, <3>1
  <2>3. Len(g) = Len(Chars(s, a, b)) /\ Len(g) = k
    BY <1>4, <1>5, <1>7
  <2> HIDE DEF S
  <2> QED
    BY <1>7, <2>1, <2>2, <2>3, SeqEqual
<1>9. g = Chars(s, s.gn, s.gn + k)
  BY <1>8 DEF a, b
<1> QED
  BY <1>2, <1>4, <1>9 DEF g, k

LEMMA XsgetnMoves ==
    ASSUME NEW s, Ready(s), "in" \in s.mode, NEW size \in Nat, size # 0
    PROVE  LET r == xsgetn(s, size) IN
           /\ Moves(s, r.fb, r.got) /\ r.got \in Text /\ Len(r.got) <= size
           /\ Len(r.got) = size \/ Pos(r.fb) \notin Seen(r.fb)
           /\ r.fb.area = "buf" /\ r.fb.pn = 0 /\ r.fb.pe = 0
<1> DEFINE ended  == EndOutput(s)
           first  == IF s.area = "pb" THEN Unread(ended) ELSE <<>>
           inbuf  == TakePutback(ended)
           left   == size - Len(first)
           second == First(Unread(inbuf), left)
           rest   == size - Len(first) - Len(second)
           used   == gbump(inbuf, Len(second))
           third  == Available(used, rest)
           direct == SetG(SetCur(SetFile(used, used.file, used.fpos + Len(third)), 0),
                          "buf", 0, 0)
           after  == IF rest = 0 THEN used
                     ELSE IF rest < Size(s) THEN Fill(used, rest) ELSE direct
           got    == first \o second \o third
<1>1. xsgetn(s, size) = [fb |-> after, got |-> got]
  BY DEF xsgetn
<1>2. /\ Sound(s) /\ Behind(s) /\ s.open /\ Working /\ s.pn <= MaxFile
      /\ Pos(s) \in Nat /\ Pushed(s) \subseteq Nat
  BY ReadyPosition DEF Ready
<1>3. /\ Reads(ended) /\ Moves(s, ended, <<>>) /\ ended.area = s.area
      /\ SameMode(s, ended) /\ Len(ended.mem) = Len(s.mem)
  <2>1. SameGet(s, ended) /\ SameMode(s, ended) /\ SameMem(s, ended)
    BY <1>2, TakesAll, EndOutputSound DEF Sound, Working
  <2>2. Reads(ended) /\ Moves(s, ended, <<>>)
    BY <1>2, EndMoves
  <2> HIDE DEF ended
  <2> QED
    BY <2>1, <2>2 DEF SameGet, SameMem
<1> HIDE DEF ended
<1>4. /\ first \in Text /\ Len(first) <= 1 /\ Reads(inbuf) /\ Moves(ended, inbuf, first)
      /\ inbuf.area = "buf" /\ SameMode(ended, inbuf) /\ Len(inbuf.mem) = Len(ended.mem)
  <2>1. Good(ended) /\ ended \in State
    BY <1>3 DEF Reads, Good
  <2>2. CASE s.area = "pb"
    <3>1. Unread(ended) \in Text /\ Len(Unread(ended)) = ended.ge - ended.gn
      BY <2>1, UnreadType
    <3>2. ended.ge <= 1 /\ ended.gn \in Nat /\ ended.ge \in Nat
      BY <1>3, <2>1, <2>2 DEF Good, State, Bounds
    <3>3. Reads(inbuf) /\ Moves(ended, inbuf, Unread(ended))
      BY <1>3, <2>2, SwitchMoves
    <3>4. SameMode(ended, inbuf) /\ inbuf.area = "buf"
      BY <2>1, SwitchSound
    <3>5. inbuf.mem = ended.mem
      BY <1>3, <2>1, <2>2 DEF TakePutback, SetG, State
    <3>6. first = Unread(ended)
      BY <2>2
    <3> HIDE DEF inbuf, first
    <3>7. Len(first) <= 1
      BY <3>1, <3>2, <3>6
    <3> QED
      BY <3>1, <3>3, <3>4, <3>5, <3>6, <3>7
  <2>3. CASE s.area # "pb"
    <3>1. first = <<>> /\ inbuf = ended
      BY <1>3, <2>3 DEF TakePutback
    <3>2. ended.area = "buf"
      BY <1>3, <2>1, <2>3 DEF State
    <3>3. Moves(ended, ended, <<>>)
      BY <1>3, ReadsPosition, MovesNothing
    <3>4. <<>> \in Text /\ Len(<<>>) = 0
      BY DEF Text
    <3> HIDE DEF inbuf, first
    <3> QED
      BY <1>3, <3>1, <3>2, <3>3, <3>4 DEF SameMode
  <2> QED
    BY <2>2, <2>3
<1> HIDE DEF inbuf, first
<1>5. left \in Nat /\ Len(first) \in Nat
  <2> DEFINE k == Len(first)
  <2>1. k \in Nat /\ k <= 1
    BY <1>4, LenProperties DEF Text
  <2> HIDE DEF k
  <2>2. size - k \in Nat
    BY <2>1
  <2> QED
    BY <2>1, <2>2 DEF k
<1> DEFINE k == Min2(left, inbuf.ge - inbuf.gn)
<1>6. /\ second \in Text /\ Len(second) = k /\ k \in Nat /\ inbuf.gn + k <= inbuf.ge
      /\ second = Chars(inbuf, inbuf.gn, inbuf.gn + k)
  <2> HIDE DEF left
  <2> QED
    BY <1>4, <1>5, FirstChars
<1>7. used = gbump(inbuf, k)
  BY <1>6
<1>8. k <= left /\ (k = left \/ k = inbuf.ge - inbuf.gn)
  <2> DEFINE d == inbuf.ge - inbuf.gn
  <2>1. d \in Nat
    BY <1>4, ReadsWindow DEF WindowShape
  <2> HIDE DEF d, left
  <2> QED
    BY <1>5, <2>1 DEF Min2, d
<1>9. rest = left - k
  BY <1>6
<1> HIDE DEF left, k, second, used
<1>10. rest \in Nat /\ (rest # 0 => k = inbuf.ge - inbuf.gn)
  BY <1>5, <1>6, <1>8, <1>9
<1>11. Reads(used) /\ Moves(inbuf, used, second)
  BY <1>4, <1>6, <1>7, BumpMoves
<1>12. used.gn = inbuf.gn + k /\ used.ge = inbuf.ge /\ used.area = "buf"
       /\ SameMode(inbuf, used) /\ used.mem = inbuf.mem
  <2>1. Good(inbuf) /\ k \in Int /\ inbuf.gn + k >= 0 /\ inbuf.gn + k <= inbuf.ge
    BY <1>4, <1>6 DEF Reads, Good, State
  <2> QED
    BY <1>4, <1>7, <2>1, GbumpSound DEF SameMem
<1> HIDE DEF rest
<1>13. used \in State /\ third \in Text /\ Len(third) \in Nat /\ Len(third) <= rest
  <2>1. used \in State /\ readable
    BY <1>11 DEF Reads, Good
  <2> QED
    BY <1>10, <2>1, AvailableShape
<1>14. /\ Moves(used, after, third) /\ (Len(third) = rest \/ Pos(after) \notin Seen(after))
       /\ after.area = "buf" /\ Reads(after)
  <2>1. CASE rest = 0
    <3>1. after = used
      BY <2>1
    <3> HIDE DEF third
    <3>2. third = <<>> /\ Len(third) = rest
      <4>1. Len(third) = 0
        BY <1>13, <2>1
      <4> QED
        BY <1>13, <2>1, <4>1, EmptySeq DEF Text
    <3> QED
      BY <1>11, <1>12, <3>1, <3>2, ReadsPosition, MovesNothing
  <2>2. CASE rest # 0
    <3>1. Pos(used) = used.fpos
      <4>1. inbuf.ge \in Nat /\ inbuf.gn \in Nat
        BY <1>4, ReadsWindow DEF WindowShape
      <4>2. used.gn = used.ge
        BY <1>10, <1>12, <2>2, <4>1
      <4> QED
        BY <1>11, <1>12, <4>2, UsedUp
    <3>2. "in" \in used.mode /\ Size(used) = Size(s)
      BY <1>3, <1>4, <1>12 DEF SameMode, Size
    <3>3. CASE rest < Size(s)
      <4>1. after = Fill(used, rest)
        BY <2>2, <3>3
      <4>2. rest <= Size(used)
        BY <1>10, <1>13, <3>2, <3>3 DEF Size, State
      <4>3. Fill(used, rest).area = "buf"
        BY <1>10, <1>11, FillFields DEF Reads
      <4> QED
        BY <1>10, <1>11, <3>1, <3>2, <4>1, <4>2, <4>3, FillMoves
    <3>4. CASE ~(rest < Size(s))
      <4>1. after = direct
        BY <2>2, <3>4
      <4>2. direct.area = "buf"
        BY <1>13 DEF SetG, SetCur, SetFile, State
      <4> QED
        BY <1>10, <1>11, <3>1, <4>1, <4>2, DirectMoves
    <3> QED
      BY <3>3, <3>4
  <2> QED
    BY <2>1, <2>2
<1> HIDE DEF after, third
<1>15. Moves(s, inbuf, first)
  BY <1>2, <1>3, <1>4, EmptyMoves
<1>16. Moves(s, used, first \o second)
  BY <1>2, <1>4, <1>6, <1>11, <1>15, MovesTwice
<1>17. first \o second \in Text /\ Len(first \o second) = Len(first) + Len(second)
  BY <1>4, <1>6, ConcatProperties DEF Text
<1>18. Moves(s, after, got)
  BY <1>2, <1>13, <1>14, <1>16, <1>17, MovesTwice
<1>19. got \in Text /\ Len(got) = Len(first \o second) + Len(third)
  BY <1>13, <1>17, ConcatProperties DEF Text
<1> HIDE DEF got
<1>20. Len(got) <= size /\ (Len(third) = rest => Len(got) = size)
  <2> DEFINE x == Len(first)
             y == Len(third)
             z == Len(got)
  <2>1. x \in Nat /\ y \in Nat /\ y <= rest /\ rest \in Nat /\ rest = size - x - k
    BY <1>5, <1>9, <1>10, <1>13 DEF left
  <2>2. z = x + k + y
    BY <1>6, <1>17, <1>19
  <2> HIDE DEF x, y, z
  <2>3. z <= size /\ (y = rest => z = size)
    BY <1>6, <2>1, <2>2
  <2> QED
    BY <2>3 DEF x, y, z
<1> QED
  BY <1>1, <1>14, <1>18, <1>19, <1>20 DEF Reads

-----------------------------------------------------------------------------
(* Each public call does what FileStream says.                             *)

(* The variables of FileStream, mapped.                                    *)
Same == Data(fb') = Data(fb) /\ Pos(fb') = Pos(fb) /\ Over(fb') = Over(fb) /\ fb'.mode = fb.mode

LEMMA ReadRefines ==
    ASSUME fb.open, Pos(fb) \in Nat, "in" \in fb.mode, Kept(fb, fb'),
           NEW c, NEW n \in Nat, NEW step \in {0, 1}, NEW g \in Text, Len(g) <= n,
           call' = c, ret' = Ret(g, Len(g)), Pos(fb') = Pos(fb) + step * Len(g),
           \A i \in 1 .. Len(g) : /\ Pos(fb) + i - 1 \in Seen(fb)
                                  /\ g[i] = View(fb, Pos(fb) + i - 1),
           Len(g) = n \/ Pos(fb) + Len(g) \notin Seen(fb)
    PROVE  Stream!Read(c, n, step)
<1> DEFINE k == Len(g)
<1>1. k \in Nat /\ k \in 0 .. n /\ g = [i \in 1 .. k |-> g[i]]
  BY LenProperties DEF Text
<1>2. Stream!Seen = Seen(fb)
  BY Mapped DEF Stream!Seen, Seen, Over
<1>3. \A p : Stream!View(p) = View(fb, p)
  BY Mapped DEF Stream!View, View, Over
<1>4. \A i \in 0 .. k - 1 : Pos(fb) + i \in Stream!Seen
  <2> SUFFICES ASSUME NEW i \in 0 .. k - 1
               PROVE  Pos(fb) + i \in Seen(fb)
    BY <1>2
  <2>1. i + 1 \in 1 .. k /\ Pos(fb) + (i + 1) - 1 = Pos(fb) + i
    BY <1>1
  <2> QED
    BY <2>1
<1>5. k = n \/ Pos(fb) + k \notin Stream!Seen
  BY <1>2
<1>6. ret' = Stream!Ret([i \in 1 .. k |-> Stream!View(Pos(fb) + i - 1)], k)
  <2>1. \A i \in 1 .. k : g[i] = Stream!View(Pos(fb) + i - 1)
    BY <1>3
  <2>2. g = [i \in 1 .. k |-> Stream!View(Pos(fb) + i - 1)]
    BY <1>1, <2>1
  <2> QED
    BY <2>2 DEF Ret, Stream!Ret
<1>7. Stream!ForgetBefore(Pos(fb'))
  <2> DEFINE D == Pushed(fb')
  <2>1. D \in SUBSET Pushed(fb) /\ \A q \in Pushed(fb) : q >= Pos(fb') => q \in D
    BY DEF Kept
  <2>2. Over(fb') = [q \in D |-> Over(fb)[q]]
    BY DEF Kept, Over
  <2>3. DOMAIN Over(fb) = Pushed(fb)
    BY DEF Over
  <2>4. DOMAIN StreamOver = Pushed(fb) /\ StreamOver' = [q \in D |-> StreamOver[q]]
    BY <2>2, <2>3, Mapped
  <2> HIDE DEF D
  <2> QED
    BY <2>1, <2>4 DEF Stream!ForgetBefore
<1>8. StreamData' = StreamData /\ fb'.mode = fb.mode /\ fb'.open = fb.open
  BY Mapped DEF Kept, SameMode
<1>9. Pos(fb) = (IF fb.open THEN Position(fb) ELSE 0)
      /\ Pos(fb') = (IF fb'.open THEN Position(fb') ELSE 0)
  BY DEF Pos
<1> HIDE DEF k
<1> QED
  BY <1>1, <1>4, <1>5, <1>6, <1>7, <1>8, <1>9 DEF Stream!Read, k

(* A step that changes nothing the mapping sees.                           *)
LEMMA SameStream ==
    ASSUME Same
    PROVE  /\ StreamData' = StreamData /\ StreamOver' = StreamOver /\ fb'.mode = fb.mode
           /\ (IF fb.open THEN Position(fb) ELSE 0)' = IF fb.open THEN Position(fb) ELSE 0
BY Mapped DEF Same, Pos

LEMMA NotReading ==
    ASSUME NEW s, Good(s), "in" \notin s.mode
    PROVE  /\ NoInput(s) /\ s.gn = 0 /\ Unread(s) = <<>> /\ underflow(s) = s
           /\ First(Unread(s), 1) = <<>> /\ gbump(s, 0) = s
<1>1. NoInput(s) /\ s.gn = 0 /\ s.ge = 0 /\ s \in State
  BY DEF NoInput, Good, State, InputMode, Bounds
<1>2. Unread(s) = <<>>
  <2>1. Unread(s) \in Text /\ Len(Unread(s)) = 0
    BY <1>1, UnreadType
  <2> QED
    BY <2>1, EmptySeq DEF Text
<1>3. First(Unread(s), 1) = <<>>
  <2>1. Unread(s) \in Text /\ Len(Unread(s)) = 0
    BY <1>1, UnreadType
  <2>2. First(Unread(s), 1) \in Text /\ Len(First(Unread(s), 1)) = Min2(1, 0)
    BY <2>1, FirstType DEF Text
  <2>3. Len(First(Unread(s), 1)) = 0
    BY <2>2 DEF Min2
  <2> QED
    BY <2>2, <2>3, EmptySeq DEF Text
<1>4. gbump(s, 0) = s
  <2>1. s.gn + 0 = s.gn
    BY <1>1
  <2>2. SetG(s, s.area, s.gn, s.ge) = s
    BY <1>1 DEF SetG, State
  <2> QED
    BY <2>1, <2>2 DEF gbump
<1> QED
  BY <1>1, <1>2, <1>3, <1>4 DEF underflow

LEMMA ReadNothing ==
    ASSUME "in" \notin fb.mode, fb' = fb, NEW c, call' = c, ret' = Ret(<<>>, 0), NEW n, NEW step
    PROVE  Stream!Read(c, n, step)
<1>1. Same
  BY DEF Same
<1> QED
  BY <1>1, SameStream DEF Stream!Read, Ret, Stream!Ret

(* The invariant of the refinement.                                        *)
OutMode(s) == s.pe > 0 => "out" \in s.mode
Flow(s) == s.open => s.pn <= MaxFile /\ OutMode(s)
FlowInv ==
    /\ PlaceInv /\ Flow(fb)
    /\ call \in Stream!ReadCalls /\ ret.chars # <<>> => CanPutBack(fb)

LEMMA FlowReady ==
    ASSUME FlowInv, Working
    PROVE  /\ Sound(fb) /\ Good(fb) /\ Behind(fb) /\ limit = MaxFile /\ limit \in Nat
           /\ (fb.open <=> fb.mode # {}) /\ (fb.open => Ready(fb) /\ OutMode(fb))
           /\ ("in" \in fb.mode => fb.open) /\ ("out" \in fb.mode => fb.open)
BY BufAssumption DEF FlowInv, Working, PlaceInv, Inv, Flow, Ready, Sound

(* The next character, if there is one.                                    *)
LEMMA NextOne ==
    ASSUME NEW s, Ready(s), "in" \in s.mode
    PROVE  LET t == underflow(s)
               g == First(Unread(t), 1)
               k == Len(g)
           IN  /\ g \in Text /\ k \in 0 .. 1
               /\ \A i \in 1 .. k : Pos(s) + i - 1 \in Seen(s) /\ g[i] = View(s, Pos(s) + i - 1)
               /\ k = 1 \/ Pos(s) + k \notin Seen(s)
               /\ Kept(s, t) /\ Pos(t) = Pos(s)
               /\ Reads(gbump(t, k)) /\ Moves(s, gbump(t, k), g) /\ gbump(t, k).gn = t.gn + k
<1> DEFINE t == underflow(s)
           g == First(Unread(t), 1)
           k == Len(g)
           u == gbump(t, k)
<1>1. Reads(t) /\ Moves(s, t, <<>>) /\ (t.gn = t.ge => Pos(t) \notin Seen(t))
  BY UnderflowMoves
<1>2. Pos(s) \in Nat /\ Pushed(s) \subseteq Nat
  BY ReadyPosition
<1> HIDE DEF t
<1>3. t.gn \in Nat /\ t.ge \in Nat /\ t.gn <= t.ge
  BY <1>1, ReadsWindow DEF WindowShape
<1>4. /\ g \in Text /\ k = Min2(1, t.ge - t.gn) /\ k \in Nat /\ t.gn + k <= t.ge
      /\ g = Chars(t, t.gn, t.gn + k)
  <2>1. 1 \in Nat
    OBVIOUS
  <2> DEFINE m == Min2(1, t.ge - t.gn)
  <2>2. /\ g \in Text /\ Len(g) = m /\ m \in Nat /\ t.gn + m <= t.ge
        /\ g = Chars(t, t.gn, t.gn + m)
    BY <1>1, <2>1, FirstChars
  <2>3. k = m
    BY <2>2
  <2> HIDE DEF k, m, g
  <2>4. /\ g \in Text /\ k = m /\ k \in Nat /\ t.gn + k <= t.ge
        /\ g = Chars(t, t.gn, t.gn + k)
    BY <2>2, <2>3
  <2> QED
    BY <2>4 DEF m
<1>5. k \in 0 .. 1 /\ (k = 0 => t.gn = t.ge)
  <2> HIDE DEF k
  <2> QED
    BY <1>3, <1>4 DEF Min2
<1>6. Kept(s, t) /\ Pos(t) = Pos(s)
  <2>1. Len(<<>>) = 0
    OBVIOUS
  <2> QED
    BY <1>1, <1>2, <2>1 DEF Moves
<1>7. Reads(u) /\ Moves(t, u, g) /\ u.gn = t.gn + k
  <2> HIDE DEF g, k
  <2>1. Reads(u) /\ Moves(t, u, g)
    BY <1>1, <1>4, BumpMoves
  <2>2. u.gn = t.gn + k
    BY <1>1, <1>3, <1>4 DEF gbump, SetG, Reads, Good, State
  <2> QED
    BY <2>1, <2>2
<1> HIDE DEF g, u
<1>8. Moves(s, u, g)
  BY <1>1, <1>2, <1>4, <1>7, EmptyMoves
<1>9. k = 1 \/ Pos(s) + k \notin Seen(s)
  <2> SUFFICES ASSUME k = 0
               PROVE  Pos(s) + k \notin Seen(s)
    BY <1>5
  <2> HIDE DEF k
  <2>1. Pos(s) + k = Pos(t) /\ Pos(t) >= Pos(t)
    BY <1>2, <1>6
  <2>2. Pos(t) \notin Seen(t)
    BY <1>1, <1>5
  <2> QED
    BY <1>6, <2>1, <2>2, SameAhead
<1> QED
  BY <1>4, <1>5, <1>6, <1>7, <1>8, <1>9 DEF Moves, u, t, g

LEMMA SgetcRefines ==
    ASSUME FlowInv, Working, Sgetc
    PROVE  Stream!Read(<<"sgetc">>, 1, 0)
<1> DEFINE t == underflow(fb)
           g == First(Unread(t), 1)
<1>1. fb' = t /\ call' = <<"sgetc">> /\ ret' = Ret(g, Len(g))
  BY Zenon DEF Sgetc, Finish
<1>2. CASE "in" \notin fb.mode
  <2>1. t = fb /\ g = <<>> /\ Len(<<>>) = 0
    BY <1>2, FlowReady, NotReading
  <2> HIDE DEF t, g
  <2> QED
    BY <1>1, <1>2, <2>1, ReadNothing
<1>3. CASE "in" \in fb.mode
  <2>1. Ready(fb) /\ fb.open
    BY <1>3, FlowReady
  <2>2. /\ g \in Text /\ Len(g) \in 0 .. 1
        /\ \A i \in 1 .. Len(g) : /\ Pos(fb) + i - 1 \in Seen(fb)
                                  /\ g[i] = View(fb, Pos(fb) + i - 1)
        /\ Len(g) = 1 \/ Pos(fb) + Len(g) \notin Seen(fb)
        /\ Kept(fb, t) /\ Pos(t) = Pos(fb)
    BY <1>3, <2>1, NextOne
  <2>3. Pos(fb) \in Nat
    BY <2>1, ReadyPosition
  <2> HIDE DEF t, g
  <2>4. Len(g) <= 1 /\ Pos(fb') = Pos(fb) + 0 * Len(g)
    BY <1>1, <2>2, <2>3
  <2>5. 1 \in Nat /\ 0 \in {0, 1}
    OBVIOUS
  <2> QED
    BY <1>1, <1>3, <2>1, <2>2, <2>3, <2>4, <2>5, ReadRefines
<1> QED
  BY <1>2, <1>3

(* What a call leaves for the next one.                                    *)
Leaves ==
    /\ Flow(fb')
    /\ call' \in Stream!ReadCalls /\ ret'.chars # <<>> => CanPutBack(fb')

LEMMA ReadLeaves ==
    ASSUME NEW n, FlowInv, Working, "in" \notin fb.mode, fb' = fb, ret' = Ret(<<>>, n)
    PROVE  Leaves
BY DEF Leaves, FlowInv, Ret

LEMMA SgetcLeaves ==
    ASSUME FlowInv, Working, Sgetc
    PROVE  Leaves
<1>1. fb' = underflow(fb) /\ call' = <<"sgetc">>
  BY DEF Sgetc, Finish
<1>2. call' \notin Stream!ReadCalls
  <2>1. call'[1] = "sgetc"
    BY <1>1
  <2>2. \A c \in Stream!ReadCalls : c[1] # "sgetc"
    BY DEF Stream!ReadCalls
  <2> QED
    BY <2>1, <2>2
<1>3. CASE "in" \notin fb.mode
  BY <1>1, <1>2, <1>3, FlowReady, NotReading DEF Leaves, FlowInv
<1>4. CASE "in" \in fb.mode
  <2>1. Reads(fb')
    BY <1>1, <1>4, FlowReady, UnderflowMoves
  <2> QED
    BY <1>2, <2>1, BufAssumption DEF Leaves, Flow, OutMode, Reads
<1> QED
  BY <1>3, <1>4

LEMMA SbumpcRefines ==
    ASSUME FlowInv, Working, Sbumpc
    PROVE  Stream!Read(<<"sbumpc">>, 1, 1) /\ Leaves
<1> DEFINE t == underflow(fb)
           g == First(Unread(t), 1)
           u == gbump(t, Len(g))
<1>1. fb' = u /\ call' = <<"sbumpc">> /\ ret' = Ret(g, Len(g))
  BY Zenon DEF Sbumpc, Finish
<1>2. CASE "in" \notin fb.mode
  <2>1. t = fb /\ g = <<>> /\ Len(<<>>) = 0 /\ gbump(fb, 0) = fb
    BY <1>2, FlowReady, NotReading
  <2>2. u = fb
    BY <2>1
  <2> HIDE DEF t, g, u
  <2> QED
    BY <1>1, <1>2, <2>1, <2>2, ReadNothing, ReadLeaves
<1>3. CASE "in" \in fb.mode
  <2>1. Ready(fb) /\ fb.open
    BY <1>3, FlowReady
  <2>2. /\ g \in Text /\ Len(g) \in 0 .. 1
        /\ \A i \in 1 .. Len(g) : /\ Pos(fb) + i - 1 \in Seen(fb)
                                  /\ g[i] = View(fb, Pos(fb) + i - 1)
        /\ Len(g) = 1 \/ Pos(fb) + Len(g) \notin Seen(fb)
        /\ Reads(u) /\ Moves(fb, u, g) /\ u.gn = t.gn + Len(g)
    BY <1>3, <2>1, NextOne
  <2>3. Pos(fb) \in Nat
    BY <2>1, ReadyPosition
  <2>4. Reads(t)
    BY <1>3, <2>1, UnderflowMoves
  <2> HIDE DEF t, g, u
  <2>5. Len(g) <= 1 /\ Pos(fb') = Pos(fb) + 1 * Len(g) /\ Kept(fb, fb')
    BY <1>1, <2>2, <2>3, SMTT(40) DEF Moves
  <2>6. 1 \in Nat /\ 1 \in {0, 1}
    OBVIOUS
  <2>7. Stream!Read(<<"sbumpc">>, 1, 1)
    BY <1>1, <1>3, <2>1, <2>2, <2>3, <2>5, <2>6, ReadRefines
  <2>8. ASSUME ret'.chars # <<>>
        PROVE  CanPutBack(fb')
    <3>1. g # <<>>
      BY <1>1, <2>8 DEF Ret
    <3>2. Len(g) # 0
      BY <2>2, <3>1, EmptySeq DEF Text
    <3>3. u.gn > 0
      <4>1. t.gn \in Nat
        BY <2>4 DEF Reads, Good, State
      <4> QED
        BY <2>2, <3>2, <4>1
    <3> QED
      BY <1>1, <1>3, <2>2, <2>5, <3>3 DEF CanPutBack, Reads, Kept, SameMode
  <2>9. Flow(fb')
    BY <1>1, <2>2, BufAssumption DEF Flow, OutMode, Reads
  <2> QED
    BY <2>7, <2>8, <2>9 DEF Leaves
<1> QED
  BY <1>2, <1>3

LEMMA SgetnRefines ==
    ASSUME FlowInv, Working, NEW n \in 1 .. MaxString, Sgetn(n)
    PROVE  Stream!Read(<<"sgetn", n>>, n, 1) /\ Leaves
<1> DEFINE r == xsgetn(fb, n)
           g == r.got
<1>1. fb' = r.fb /\ call' = <<"sgetn", n>> /\ ret' = Ret(g, Len(g))
  BY Zenon DEF Sgetn, Finish
<1>2. n \in Nat /\ n # 0
  BY BufAssumption
<1>3. CASE "in" \notin fb.mode
  <2>1. r.fb = fb /\ g = <<>> /\ Len(<<>>) = 0
    BY <1>3 DEF xsgetn
  <2> HIDE DEF r, g
  <2> QED
    BY <1>1, <1>3, <2>1, ReadNothing, ReadLeaves
<1>4. CASE "in" \in fb.mode
  <2>1. Ready(fb) /\ fb.open /\ Pos(fb) \in Nat
    BY <1>4, FlowReady, ReadyPosition
  <2>2. /\ Moves(fb, r.fb, g) /\ g \in Text /\ Len(g) <= n
        /\ Len(g) = n \/ Pos(r.fb) \notin Seen(r.fb)
        /\ r.fb.area = "buf" /\ r.fb.pn = 0 /\ r.fb.pe = 0
    BY <1>2, <1>4, <2>1, XsgetnMoves
  <2> HIDE DEF r, g
  <2> DEFINE k == Len(g)
  <2>3. k \in Nat
    BY <2>2, LenProperties DEF Text
  <2>4. Kept(fb, fb') /\ Pos(fb') = Pos(fb) + k
    BY <1>1, <2>2 DEF Moves
  <2>5. k = n \/ Pos(fb) + k \notin Seen(fb)
    <3>1. Pos(fb') >= Pos(fb')
      BY <2>1, <2>3, <2>4
    <3> QED
      BY <1>1, <2>2, <2>4, <3>1, SameAhead
  <2>6. Pos(fb') = Pos(fb) + 1 * k
    <3> HIDE DEF k
    <3> QED
      BY <2>1, <2>3, <2>4
  <2>7. 1 \in {0, 1}
    OBVIOUS
  <2>8. Stream!Read(<<"sgetn", n>>, n, 1)
    BY <1>1, <1>2, <1>4, <2>1, <2>2, <2>4, <2>5, <2>6, <2>7, ReadRefines DEF Moves
  <2>9. CanPutBack(fb') /\ Flow(fb')
    BY <1>1, <1>4, <2>2, <2>4, BufAssumption
       DEF CanPutBack, Flow, OutMode, Kept, SameMode
  <2> QED
    BY <2>8, <2>9 DEF Leaves
<1> QED
  BY <1>3, <1>4

-----------------------------------------------------------------------------
(* The character before gptr().                                            *)
LEMMA PreviousChar ==
    ASSUME NEW s, Reads(s), s.gn > 0
    PROVE  /\ Pos(s) - 1 \in In(s) /\ Pos(s) - 1 \in Seen(s)
           /\ Chars(s, s.gn - 1, s.gn) = <<Win(s, Pos(s) - 1)>>
<1> DEFINE b == s.gn
           a == s.gn - 1
           p == Pos(s) - 1
           g == Chars(s, a, b)
<1>1. b \in Nat /\ Low(s) \in Nat /\ Pos(s) = Low(s) + b /\ b > 0 /\ s.ge \in Nat /\ b <= s.ge
  BY ReadsWindow DEF WindowShape
<1>2. a \in Nat /\ a <= b /\ b - a = 1 /\ Low(s) + a + 1 - 1 = p
  BY <1>1
<1> HIDE DEF a, b, p
<1>3. g \in Seq(Char \cup {Hole, Junk}) /\ Len(g) = b - a
  <2>1. b <= s.ge
    BY <1>1
  <2> QED
    BY <1>1, <1>2, <2>1, CharsSeen
<1>4. \A i \in 1 .. b - a : Low(s) + a + i - 1 \in In(s) /\ g[i] = Win(s, Low(s) + a + i - 1)
  <2>1. a \in Nat /\ b \in Nat /\ a <= b /\ b <= s.ge
    BY <1>1, <1>2
  <2>2. \A i \in 1 .. b - a : Low(s) + a + i - 1 \in In(s)
    BY <2>1, CharsSeen
  <2>3. \A i \in 1 .. b - a : Chars(s, a, b)[i] = Win(s, Low(s) + a + i - 1)
    BY <2>1, CharsSeen
  <2> QED
    BY <2>2, <2>3
<1>5. p \in In(s) /\ g[1] = Win(s, p) /\ Len(g) = 1
  BY <1>2, <1>3, <1>4
<1> HIDE DEF g
<1>6. g = <<Win(s, p)>>
  <2> DEFINE S == Char \cup {Hole, Junk}
             x == Win(s, p)
             h == <<x>>
  <2>1. x \in S
    BY <1>3, <1>5, ElementOfSeq
  <2> HIDE DEF S, x
  <2>2. h \in Seq(S) /\ Len(h) = 1 /\ h[1] = x
    BY <2>1
  <2>3. g \in Seq(S) /\ Len(g) = 1 /\ g[1] = x
    BY <1>3, <1>5 DEF S, x
  <2> HIDE DEF h
  <2>4. \A i \in 1 .. Len(g) : g[i] = h[i]
    BY <2>2, <2>3
  <2>5. g = h
    BY <2>2, <2>3, <2>4, SeqEqual
  <2> QED
    BY <2>5 DEF h, x
<1>7. p \in Seen(s)
  BY <1>5, InSeen
<1> QED
  BY <1>5, <1>6, <1>7 DEF g, a, b, p

(* gptr() moves back over it.                                              *)
LEMMA BackUp ==
    ASSUME NEW s, Reads(s), s.gn > 0
    PROVE  LET t == gbump(s, -1) IN
           /\ Reads(t) /\ SameMode(s, t) /\ t.file = s.file
           /\ Pos(t) = Pos(s) - 1 /\ Pos(s) \in Nat
           /\ In(t) = In(s) /\ \A q : Win(t, q) = Win(s, q)
           /\ Pushed(t) = Pushed(s) /\ Over(t) = Over(s) /\ Data(t) = Data(s)
<1> DEFINE t == gbump(s, -1)
<1>1. s \in State /\ Good(s) /\ s.open /\ s.pn = 0 /\ s.pe = 0 /\ s.gn \in Nat
  BY DEF Reads, Good, State
<1>2. -1 \in Int /\ s.gn + -1 >= 0 /\ s.gn + -1 <= s.ge
  BY <1>1, ReadsWindow DEF WindowShape
<1>3. /\ Good(t) /\ SameMode(s, t) /\ SamePut(s, t) /\ SameMem(s, t) /\ SameFile(s, t)
      /\ t.area = s.area /\ t.gn = s.gn + -1 /\ t.ge = s.ge
  BY <1>1, <1>2, GbumpSound
<1>4. Behind(t)
  BY <1>1, <1>2, GbumpBehind DEF Reads
<1> HIDE DEF t
<1>5. Reads(t)
  BY <1>1, <1>3, <1>4 DEF Reads, SamePut, SameMode
<1>6. WindowShape(s) /\ WindowShape(t)
  BY <1>5, ReadsWindow
<1>7. /\ t.fpos = s.fpos /\ t.file = s.file /\ t.cur = s.cur /\ t.mem = s.mem /\ t.pb = s.pb
      /\ t.open = s.open /\ t.pe = s.pe
  BY <1>3 DEF SameFile, SameMem, SameMode, SamePut
<1>8. Start(t) = Start(s) /\ Low(t) = Low(s)
  BY <1>3, <1>7 DEF Start, Low
<1>9. In(t) = In(s) /\ \A q : Win(t, q) = Win(s, q)
  BY <1>3, <1>7, <1>8 DEF In, Win
<1>10. Pos(t) = Pos(s) - 1 /\ Pos(s) \in Nat
  <2>1. Pos(t) = Low(s) + t.gn /\ Pos(s) = Low(s) + s.gn /\ Low(s) \in Nat
    BY <1>6, <1>8 DEF WindowShape
  <2> QED
    BY <1>1, <1>3, <2>1
<1>11. Pushed(t) = Pushed(s) /\ Over(t) = Over(s)
  BY <1>7, <1>9 DEF Pushed, Over
<1>12. Data(t) = Data(s)
  BY <1>6, <1>7 DEF WindowShape
<1> QED
  BY <1>3, <1>5, <1>7, <1>9, <1>10, <1>11, <1>12 DEF t

LEMMA BackReads ==
    ASSUME FlowInv, Working, fb.gn > 0
    PROVE  Reads(fb) /\ "in" \in fb.mode
<1>1. /\ Good(fb) /\ Behind(fb) /\ Apart(fb) /\ fb.gn \in Nat /\ fb.ge \in Nat /\ fb.gn <= fb.ge
      /\ fb.pn \in Nat /\ fb.pe \in Nat /\ fb.pn <= fb.pe
  BY FlowReady DEF Sound, Good, State, Bounds
<1>2. fb.ge # 0
  BY <1>1
<1>3. "in" \in fb.mode
  BY <1>1, <1>2 DEF Good, InputMode
<1>4. fb.pe = 0 /\ fb.pn = 0
  BY <1>1, <1>2 DEF Apart
<1> QED
  BY <1>1, <1>3, <1>4, FlowReady DEF Working, Reads

LEMMA NotReadCall ==
    ASSUME NEW c, NEW n, n \in {"open", "close", "setbuf", "sungetc", "sputbackc", "sputc", "sputn",
                         "sync", "seek"}, c[1] = n
    PROVE  c \notin Stream!ReadCalls
BY DEF Stream!ReadCalls

LEMMA SungetcRefines ==
    ASSUME FlowInv, Working, Sungetc
    PROVE  Stream!Unget /\ Leaves
<1>1. call' = <<"sungetc">>
  BY DEF Sungetc, Finish
<1>2. call' \notin Stream!ReadCalls
  <2>1. call'[1] = "sungetc"
    BY <1>1
  <2> QED
    BY <2>1, NotReadCall
<1>3. CASE fb.gn > 0
  <2> DEFINE p == Pos(fb) - 1
  <2>1. Reads(fb) /\ "in" \in fb.mode
    BY <1>3, BackReads
  <2>2. fb' = gbump(fb, -1) /\ ret' = Ret(Chars(fb, fb.gn - 1, fb.gn), 1)
    BY <1>3 DEF Sungetc, Finish
  <2>3. /\ Reads(fb') /\ SameMode(fb, fb') /\ Pos(fb') = p /\ Pos(fb) \in Nat
        /\ Over(fb') = Over(fb) /\ Data(fb') = Data(fb)
    BY <1>3, <2>1, <2>2, BackUp
  <2>4. p \in In(fb) /\ p \in Seen(fb) /\ View(fb, p) = Win(fb, p)
        /\ ret' = Ret(<<Win(fb, p)>>, 1)
    BY <1>3, <2>1, <2>2, PreviousChar, InSeen
  <2>5. Stream!Seen = Seen(fb)
    BY Mapped DEF Stream!Seen, Seen, Over
  <2>6. Stream!View(p) = View(fb, p)
    BY Mapped DEF Stream!View, View, Over
  <2>7. ret' = Stream!Ret(<<Stream!View(p)>>, 1)
    BY <2>4, <2>6 DEF Ret, Stream!Ret
  <2>8. StreamData' = StreamData /\ StreamOver' = StreamOver
    BY <2>3, Mapped
  <2>9. Pos(fb) = (IF fb.open THEN Position(fb) ELSE 0)
        /\ Pos(fb') = (IF fb'.open THEN Position(fb') ELSE 0)
    BY DEF Pos
  <2>10. Stream!Unget
    BY <1>1, <2>1, <2>3, <2>4, <2>5, <2>7, <2>8, <2>9 DEF Stream!Unget, SameMode
  <2>11. Flow(fb')
    BY <2>3, BufAssumption DEF Flow, OutMode, Reads
  <2> QED
    BY <1>2, <2>10, <2>11 DEF Leaves
<1>4. CASE ~(fb.gn > 0)
  <2>1. fb' = fb /\ ret' = Ret(<<>>, 0)
    BY <1>4 DEF Sungetc, Finish
  <2>2. Same
    BY <2>1 DEF Same
  <2> QED
    BY <1>1, <1>2, <2>1, <2>2, SameStream DEF Stream!Unget, Ret, Stream!Ret, Leaves, FlowInv
<1> QED
  BY <1>3, <1>4

(* A character at p, before or in the buffer.                              *)
Pushes(s, t, p, c) ==
    /\ Reads(t) /\ SameMode(s, t) /\ t.file = s.file /\ Pos(t) = p
    /\ In(t) = In(s) \cup {p} /\ Win(t, p) = c
    /\ \A q \in In(s) : q # p => Win(t, q) = Win(s, q)

Overlaid(s, p, c) ==
    LET same == p + 1 \in DOMAIN Data(s) /\ Data(s)[p + 1] = c
        D == IF same THEN Pushed(s) \ {p} ELSE Pushed(s) \cup {p}
    IN  [q \in D |-> IF q = p THEN c ELSE Over(s)[q]]

LEMMA PushOver ==
    ASSUME NEW s, NEW t, Reads(s), NEW p, NEW c, Pushes(s, t, p, c)
    PROVE  Data(t) = Data(s) /\ Over(t) = Overlaid(s, p, c)
<1> DEFINE same == p + 1 \in DOMAIN Data(s) /\ Data(s)[p + 1] = c
           D == IF same THEN Pushed(s) \ {p} ELSE Pushed(s) \cup {p}
<1>1. Data(s) = s.file /\ Data(t) = s.file /\ t.file = s.file
  BY ReadsWindow DEF WindowShape, Pushes
<1>2. \A q \in In(s) : q # p => (q \in Pushed(t) <=> q \in Pushed(s))
  BY <1>1 DEF Pushed, Pushes
<1>3. p \in Pushed(t) <=> ~same
  BY <1>1 DEF Pushed, Pushes
<1>4. Pushed(t) \subseteq In(s) \cup {p} /\ Pushed(s) \subseteq In(s)
  BY DEF Pushed, Pushes
<1>5. Pushed(t) = D
  <2> HIDE DEF same
  <2> QED
    BY <1>2, <1>3, <1>4
<1>6. \A q \in Pushed(t) : Win(t, q) = IF q = p THEN c ELSE Over(s)[q]
  <2> SUFFICES ASSUME NEW q \in Pushed(t)
               PROVE  Win(t, q) = IF q = p THEN c ELSE Over(s)[q]
    OBVIOUS
  <2>1. CASE q = p
    BY <2>1 DEF Pushes
  <2>2. CASE q # p
    <3>1. q \in In(s) /\ q \in Pushed(s)
      BY <1>2, <1>4, <2>2
    <3>2. Over(s)[q] = Win(s, q)
      BY <3>1 DEF Over
    <3> QED
      BY <2>2, <3>1, <3>2 DEF Pushes
  <2> QED
    BY <2>1, <2>2
<1> HIDE DEF D
<1>7. Over(t) = [q \in D |-> IF q = p THEN c ELSE Over(s)[q]]
  BY <1>5, <1>6 DEF Over
<1> QED
  BY <1>1, <1>7 DEF D, Overlaid

(* sputbackc() of the character that was there.                            *)
LEMMA BackPushes ==
    ASSUME NEW s, Reads(s), s.gn > 0, NEW c, Chars(s, s.gn - 1, s.gn) = <<c>>
    PROVE  Pushes(s, gbump(s, -1), Pos(s) - 1, c)
<1> DEFINE p == Pos(s) - 1
           t == gbump(s, -1)
<1>1. /\ Reads(t) /\ SameMode(s, t) /\ t.file = s.file /\ Pos(t) = p
      /\ In(t) = In(s) /\ \A q : Win(t, q) = Win(s, q)
  BY BackUp
<1>2. p \in In(s) /\ <<Win(s, p)>> = <<c>>
  BY PreviousChar
<1> HIDE DEF p, t
<1>3. Win(s, p) = c
  BY <1>2
<1> QED
  BY <1>1, <1>2, <1>3 DEF Pushes, p, t

LEMMA PbackfailPushes ==
    ASSUME NEW s, Sound(s), Behind(s), s.open, CanPutBack(s), NEW c \in Char,
           s.fpos > m_input_size(s), readable
    PROVE  Reads(s) /\ Pushes(s, pbackfail(s, c), Pos(s) - 1, c)
<1> DEFINE t == pbackfail(s, c)
           p == Pos(s) - 1
<1>1. /\ s \in State /\ Good(s) /\ s.gn \in Nat /\ s.ge \in Nat /\ s.gn <= s.ge
      /\ s.cur \in Nat /\ s.fpos \in Nat /\ s.cur <= Len(s.mem)
      /\ s.mem \in Seq(Char \cup {Hole, Junk}) /\ s.area \in {"buf", "pb"}
      /\ (s.area = "buf" => s.ge = s.cur) /\ (s.area = "pb" => s.ge <= 1)
      /\ s.pe = 0 /\ s.pn = 0 /\ (s.gn > 0 \/ s.area # "pb")
  BY DEF Sound, Good, State, Bounds, CanPutBack
<1>2. Reads(s)
  BY <1>1 DEF Reads
<1>3. WindowShape(s)
  BY <1>2, ReadsWindow
<1>4. Sound(t) /\ SameMode(s, t) /\ Behind(t)
  BY PbackfailSound, PbackfailBehind
<1>5. /\ Low(s) \in Nat /\ Start(s) \in Nat /\ Start(s) = s.fpos - s.cur /\ Low(s) <= Start(s)
      /\ In(s) = Low(s) .. s.fpos - 1 /\ Pos(s) = Low(s) + s.gn /\ Low(s) + s.ge <= s.fpos
  BY <1>3 DEF WindowShape
<1>6. CASE s.gn = 0
  <2>1. s.area = "buf" /\ Low(s) = Start(s) /\ p = Start(s) - 1
    BY <1>1, <1>5, <1>6 DEF Low
  <2>2. t = SetG(SetPb(s, c), "pb", 0, 1)
    BY <1>6 DEF pbackfail
  <2>3. /\ t.area = "pb" /\ t.gn = 0 /\ t.ge = 1 /\ t.pb = c /\ t.mem = s.mem /\ t.cur = s.cur
        /\ t.file = s.file /\ t.fpos = s.fpos /\ t.pn = 0 /\ t.pe = 0
    BY <1>1, <2>2 DEF SetG, SetPb, State
  <2> HIDE DEF t
  <2>4. Reads(t)
    BY <1>2, <1>4, <2>3 DEF Reads, Sound, SameMode
  <2>5. Start(t) = Start(s) /\ Low(t) = p
    BY <2>1, <2>3 DEF Start, Low
  <2>6. In(t) = Low(t) .. s.fpos - 1 /\ Pos(t) = Low(t) + 0 /\ Low(t) \in Nat
    BY <2>3, <2>4, ReadsWindow DEF WindowShape
  <2> HIDE DEF p
  <2>7. p \in Nat /\ Pos(t) = p /\ In(t) = In(s) \cup {p}
    BY <1>1, <1>5, <2>1, <2>5, <2>6 DEF p
  <2>8. p < Start(t)
    BY <1>5, <2>1, <2>5
  <2>9. Win(t, p) = c
    BY <2>3, <2>8 DEF Win
  <2>10. \A q \in In(s) : ~(q < Start(s))
    BY <1>5, <2>1
  <2>11. \A q \in In(s) : Win(t, q) = Win(s, q)
    BY <2>3, <2>5, <2>10 DEF Win
  <2> QED
    BY <1>2, <1>4, <2>3, <2>4, <2>7, <2>9, <2>11 DEF Pushes, t, p
<1>7. CASE s.gn # 0 /\ s.area = "pb"
  <2>1. s.gn = 1 /\ s.ge = 1 /\ Low(s) = Start(s) - 1 /\ p = Low(s)
    BY <1>1, <1>5, <1>7 DEF Low
  <2>2. t = SetPb(gbump(s, -1), c)
    BY <1>7 DEF pbackfail
  <2>3. /\ t.area = "pb" /\ t.gn = s.gn + -1 /\ t.ge = s.ge /\ t.pb = c /\ t.mem = s.mem
        /\ t.cur = s.cur /\ t.file = s.file /\ t.fpos = s.fpos /\ t.pn = 0 /\ t.pe = 0
    BY <1>1, <1>7, <2>2 DEF SetG, SetPb, gbump, State
  <2> HIDE DEF t
  <2>4. Reads(t)
    BY <1>2, <1>4, <2>3 DEF Reads, Sound, SameMode
  <2>5. Start(t) = Start(s) /\ Low(t) = Low(s)
    BY <1>7, <2>1, <2>3 DEF Start, Low
  <2>6. In(t) = Low(t) .. s.fpos - 1 /\ Pos(t) = Low(t) + t.gn
    BY <2>3, <2>4, ReadsWindow DEF WindowShape
  <2> HIDE DEF p
  <2>7. p \in Nat /\ Pos(t) = p /\ In(t) = In(s) /\ p \in In(s)
    <3>1. t.gn = 0
      BY <2>1, <2>3
    <3> QED
      BY <1>1, <1>5, <2>1, <2>5, <2>6, <3>1
  <2>8. p < Start(t)
    BY <1>5, <2>1, <2>5
  <2>9. Win(t, p) = c
    BY <2>3, <2>8 DEF Win
  <2>10. \A q \in In(s) : q # p => ~(q < Start(s))
    BY <1>5, <2>1
  <2>11. \A q \in In(s) : q # p => Win(t, q) = Win(s, q)
    BY <2>3, <2>5, <2>10 DEF Win
  <2> QED
    BY <1>2, <1>4, <2>3, <2>4, <2>7, <2>9, <2>11 DEF Pushes, t, p
<1>8. CASE s.gn # 0 /\ s.area = "buf"
  <2>1. Low(s) = Start(s) /\ p = Start(s) + s.gn - 1 /\ s.gn \in 1 .. Len(s.mem)
    BY <1>1, <1>5, <1>8 DEF Low
  <2> DEFINE m == [s.mem EXCEPT ![s.gn] = c]
  <2>2. t = SetMem(gbump(s, -1), m)
    BY <1>8 DEF pbackfail
  <2>3. m[s.gn] = c /\ \A i : i # s.gn => m[i] = s.mem[i]
    BY <1>1, <2>1
  <2> HIDE DEF m
  <2>4. /\ t.area = "buf" /\ t.gn = s.gn + -1 /\ t.ge = s.ge /\ t.pb = s.pb /\ t.mem = m
        /\ t.cur = s.cur /\ t.file = s.file /\ t.fpos = s.fpos /\ t.pn = 0 /\ t.pe = 0
    BY <1>1, <1>8, <2>2 DEF SetG, SetMem, gbump, State
  <2> HIDE DEF t
  <2>5. Reads(t)
    BY <1>2, <1>4, <2>4 DEF Reads, Sound, SameMode
  <2>6. Start(t) = Start(s) /\ Low(t) = Low(s)
    BY <1>8, <2>1, <2>4, <1>5 DEF Start, Low
  <2>7. In(t) = Low(t) .. s.fpos - 1 /\ Pos(t) = Low(t) + t.gn
    BY <2>4, <2>5, ReadsWindow DEF WindowShape
  <2> HIDE DEF p
  <2>8. p \in Nat /\ Pos(t) = p /\ In(t) = In(s) /\ p \in In(s)
    BY <1>1, <1>5, <1>8, <2>1, <2>4, <2>6, <2>7
  <2>9. ~(p < Start(t)) /\ p - Start(t) + 1 = s.gn
    BY <1>1, <1>5, <1>8, <2>1, <2>6, SMTT(20)
  <2>10. Win(t, p) = c
    BY <2>3, <2>4, <2>9 DEF Win
  <2>11. \A q \in In(s) : q # p => ~(q < Start(s)) /\ q - Start(s) + 1 # s.gn
    BY <1>1, <1>5, <2>1
  <2>12. \A q \in In(s) : q # p => Win(t, q) = Win(s, q)
    BY <2>3, <2>4, <2>6, <2>11 DEF Win
  <2> QED
    BY <1>2, <1>4, <2>4, <2>5, <2>8, <2>10, <2>12 DEF Pushes, t, p
<1> QED
  BY <1>1, <1>6, <1>7, <1>8

LEMMA PutBackRefines ==
    ASSUME FlowInv, Reads(fb), "in" \in fb.mode, NEW c, Pushes(fb, fb', Pos(fb) - 1, c),
           call' = <<"sputbackc", c>>, ret' = Ret(<<c>>, 1)
    PROVE  Stream!PutBack(c) /\ Leaves
<1> DEFINE p == Pos(fb) - 1
<1>0. Pushes(fb, fb', p, c)
  OBVIOUS
<1> HIDE DEF p
<1>1. Data(fb') = Data(fb) /\ Over(fb') = Overlaid(fb, p, c)
  BY <1>0, PushOver
<1>2. DOMAIN StreamOver = Pushed(fb)
  BY Mapped DEF Over
<1>3. StreamOver' = Stream!Overlay(p, c)
  BY <1>1, <1>2, Mapped DEF Stream!Overlay, Overlaid
<1>4. StreamData' = StreamData
  BY <1>1, Mapped
<1>5. fb'.mode = fb.mode /\ Pos(fb') = p /\ Reads(fb')
  BY <1>0 DEF Pushes, SameMode
<1>6. Pos(fb) = (IF fb.open THEN Position(fb) ELSE 0)
      /\ Pos(fb') = (IF fb'.open THEN Position(fb') ELSE 0)
  BY DEF Pos
<1>7. Stream!PutBack(c)
  <2>1. p = Pos(fb) - 1
    BY DEF p
  <2>2. p = (IF fb.open THEN Position(fb) ELSE 0) - 1
    BY <1>6, <2>1
  <2>3. (IF fb'.open THEN Position(fb') ELSE 0) = p
    BY <1>5, <1>6
  <2> QED
    BY <1>3, <1>4, <1>5, <2>2, <2>3 DEF Stream!PutBack, Ret, Stream!Ret
<1>8. call' \notin Stream!ReadCalls
  <2>1. call'[1] = "sputbackc"
    OBVIOUS
  <2> QED
    BY <2>1, NotReadCall
<1>9. Flow(fb')
  BY <1>5, BufAssumption DEF Flow, OutMode, Reads
<1> QED
  BY <1>7, <1>8, <1>9 DEF Leaves

LEMMA SputbackcRefines ==
    ASSUME ~UnderBegin, FlowInv, Working, NEW c \in Char, Sputbackc(c)
    PROVE  Stream!PutBack(c) /\ Leaves
<1>1. call' = <<"sputbackc", c>> /\ call'[1] = "sputbackc"
  <2>1. call' = <<"sputbackc", c>>
    BY Zenon DEF Sputbackc, Finish
  <2> QED
    BY <2>1
<1>2. ~fb.open \/ fb.fpos > m_input_size(fb)
  BY DEF Sputbackc
<1>3. CASE fb.gn > 0 /\ Chars(fb, fb.gn - 1, fb.gn) = <<c>>
  <2>1. fb' = gbump(fb, -1) /\ ret' = Ret(<<c>>, 1)
    BY <1>3 DEF Sputbackc, Finish
  <2>2. Reads(fb) /\ "in" \in fb.mode
    BY <1>3, BackReads
  <2> QED
    BY <1>1, <1>3, <2>1, <2>2, BackPushes, PutBackRefines
<1>4. CASE ~(fb.gn > 0 /\ Chars(fb, fb.gn - 1, fb.gn) = <<c>>) /\ CanPutBack(fb)
  <2>1. fb' = pbackfail(fb, c) /\ ret' = Ret(<<c>>, 1)
    BY <1>4 DEF Sputbackc, Finish
  <2>2. "in" \in fb.mode /\ fb.open /\ Sound(fb) /\ Behind(fb) /\ readable
    BY <1>4, FlowReady DEF CanPutBack, Working
  <2>3. Reads(fb) /\ Pushes(fb, fb', Pos(fb) - 1, c)
    BY <1>2, <1>4, <2>1, <2>2, PbackfailPushes
  <2> QED
    BY <1>1, <2>1, <2>2, <2>3, PutBackRefines
<1>5. CASE ~(fb.gn > 0 /\ Chars(fb, fb.gn - 1, fb.gn) = <<c>>) /\ ~CanPutBack(fb)
  <2>1. fb' = fb /\ ret' = Ret(<<>>, 0)
    BY <1>5 DEF Sputbackc, Finish
  <2>2. Same
    BY <2>1 DEF Same
  <2>3. call \in Stream!ReadCalls => ret.chars = <<>>
    BY <1>5 DEF FlowInv
  <2>4. Stream!PutBack(c)
    BY <1>1, <2>1, <2>2, <2>3, SameStream DEF Stream!PutBack, Ret, Stream!Ret
  <2> QED
    BY <1>1, <2>1, <2>4, NotReadCall DEF Leaves, FlowInv
<1> QED
  BY <1>3, <1>4, <1>5

-----------------------------------------------------------------------------
(* Such a device takes all the output of a call.                           *)
LEMMA OverflowTakes ==
    ASSUME NEW s, Good(s), s.open, limit = MaxFile, s.pn + 1 <= MaxFile, NEW c \in Char,
           "out" \in s.mode
    PROVE  overflow(s, c).n = 1
<1>1. s.pn \in Nat /\ MaxFile \in Nat /\ s \in State
  BY BufAssumption DEF Good, State
<1>2. CASE Size(s) = 0
  <2> DEFINE f == IF "in" \in s.mode THEN m_flush_input(s) ELSE s
             o == <<c>>
  <2>1. overflow(s, c) = [fb |-> WriteFile(f, o), n |-> Taken(f, o)]
    BY <1>2, Zenon DEF overflow
  <2>2. f.open
    BY FlushInputSound DEF SameMode
  <2>3. Len(o) = 1
    OBVIOUS
  <2> HIDE DEF f, o
  <2>4. Taken(f, o) = 1
    BY <1>1, <2>2, <2>3 DEF Taken, Min2
  <2> QED
    BY <2>1, <2>4
<1>3. CASE Size(s) # 0
  <2> DEFINE b == BeginOutput(s)
  <2>1. overflow(s, c) = IF SyncFails(b) THEN [fb |-> m_sync(b), n |-> 0]
                         ELSE [fb |-> StoreChars(m_sync(b), <<c>>), n |-> 1]
    BY <1>3, Zenon DEF overflow
  <2>2. Good(b) /\ b.open
    BY BeginOutputSound DEF SameMode
  <2>3. b.pn \in Nat /\ b.pn <= MaxFile
    BY <1>1 DEF BeginOutput, SetP, State
  <2> HIDE DEF b
  <2>4. ~SyncFails(b)
    BY <2>2, <2>3, TakesAll
  <2> QED
    BY <2>1, <2>4
<1> QED
  BY <1>2, <1>3

LEMMA SputcTakes ==
    ASSUME NEW s, Good(s), s.open, limit = MaxFile, s.pn + 1 <= MaxFile, NEW c \in Char,
           "out" \in s.mode
    PROVE  sputc(s, c).n = 1
BY OverflowTakes DEF sputc

LEMMA StdXsputnTakes ==
    ASSUME NEW s, Good(s), s.open, limit = MaxFile, NEW c \in Seq(Char), "out" \in s.mode,
           s.pn + Len(c) <= MaxFile
    PROVE  StdXsputn(s, c).n = Len(c)
<1> DEFINE k == Min2(Len(c), s.pe - s.pn)
           p == SubSeq(c, 1, k)
           b == StoreChars(s, p)
           o == overflow(b, c[k + 1])
           q == SubSeq(c, k + 2, Len(c))
<1>1. StdXsputn(s, c) = IF k = Len(c) THEN [fb |-> b, n |-> k]
                        ELSE IF o.n = 0 THEN [fb |-> o.fb, n |-> k]
                        ELSE [fb |-> StoreChars(o.fb, q), n |-> Len(c)]
  BY DEF StdXsputn
<1>2. /\ s.pn \in Nat /\ s.pe \in Nat /\ s.pn <= s.pe /\ Len(c) \in Nat /\ MaxFile \in Nat
  BY BufAssumption DEF Good, State, Bounds
<1>3. k \in Nat /\ k <= Len(c) /\ s.pn + k <= s.pe
  BY <1>2 DEF Min2
<1> HIDE DEF k
<1>4. p \in Seq(Char) /\ Len(p) = k
  <2>1. p \in Seq(Char) /\ Len(p) = k - 1 + 1
    BY <1>3, PartType
  <2> QED
    BY <1>3, <2>1
<1> HIDE DEF p
<1>5. Good(b) /\ SameMode(s, b) /\ b.pn = s.pn + k
  BY <1>3, <1>4, StoreSound
<1> HIDE DEF b
<1>6. CASE k = Len(c)
  BY <1>1, <1>6
<1>7. CASE k # Len(c)
  <2>1. c[k + 1] \in Char
    BY <1>2, <1>3, <1>7
  <2>2. b.pn + 1 <= MaxFile
    BY <1>2, <1>3, <1>5, <1>7
  <2>3. b.open /\ "out" \in b.mode
    BY <1>5 DEF SameMode
  <2>4. o.n = 1
    BY <1>5, <2>1, <2>2, <2>3, OverflowTakes
  <2> HIDE DEF o, q
  <2> QED
    BY <1>1, <1>7, <2>4
<1> QED
  BY <1>6, <1>7

LEMMA XsputnTakes ==
    ASSUME NEW s, Sound(s), s.open, limit = MaxFile, NEW c \in Seq(Char), "out" \in s.mode,
           s.pn + Len(c) <= MaxFile
    PROVE  xsputn(s, c).n = Len(c)
<1>1. /\ Good(s) /\ s.pn \in Nat /\ Len(c) \in Nat /\ MaxFile \in Nat /\ s \in State
  BY BufAssumption DEF Sound, Good, State
<1>2. CASE Len(c) > Size(s)
  <2> DEFINE f == m_sync(s)
  <2>1. xsputn(s, c) = IF SyncFails(s) THEN [fb |-> f, n |-> 0]
                       ELSE [fb |-> WriteFile(f, c), n |-> Taken(f, c)]
    BY <1>2 DEF xsputn
  <2>2. ~SyncFails(s)
    BY <1>1, TakesAll
  <2>3. limit \in Nat
    BY <1>1
  <2>4. f.open
    BY <1>1, <2>3, SyncSound DEF SameMode
  <2> HIDE DEF f
  <2>5. Taken(f, c) = Len(c)
    BY <1>1, <2>4 DEF Taken, Min2
  <2> QED
    BY <2>1, <2>2, <2>5
<1>3. CASE ~(Len(c) > Size(s))
  <2> DEFINE f == IF "in" \in s.mode THEN m_flush_input(s) ELSE s
             b == BeginOutput(f)
  <2>1. xsputn(s, c) = StdXsputn(b, c)
    BY <1>3 DEF xsputn
  <2>2. Good(f) /\ SameMode(s, f) /\ f.pn = s.pn
    BY <1>1, FlushInputSound DEF Sound, SamePut, SameMode
  <2> HIDE DEF f
  <2>3. Good(b) /\ SameMode(f, b)
    BY <2>2, BeginOutputSound
  <2>4. b.pn \in Nat /\ b.pn <= s.pn
    BY <1>1, <2>2, SMTT(20) DEF BeginOutput, SetP, Good, State
  <2> HIDE DEF b
  <2>5. b.open /\ "out" \in b.mode /\ b.pn + Len(c) <= MaxFile
    BY <1>1, <2>2, <2>3, <2>4 DEF SameMode
  <2> QED
    BY <1>1, <2>1, <2>3, <2>5, StdXsputnTakes
<1> QED
  BY <1>2, <1>3

(* Output that is taken as a whole, by an open stream.                     *)
LEMMA PutRefines ==
    ASSUME FlowInv, fb.open, "out" \in fb.mode, NEW c \in Seq(Char), Puts(fb, fb', c),
           NoInput(fb'), Sound(fb'), Fits(Len(c)), NEW d, call' = d, d \notin Stream!ReadCalls,
           ret' = Ret(c, Len(c))
    PROVE  Stream!Put(d, c) /\ Leaves
<1>1. /\ Sound(fb) /\ Good(fb) /\ Behind(fb) /\ Good(fb') /\ fb.pn \in Nat /\ fb'.pn \in Nat
      /\ MaxFile \in Nat /\ Len(c) \in Nat
  <2>1. Sound(fb) /\ Behind(fb)
    BY DEF FlowInv, PlaceInv, Inv
  <2>2. Good(fb) /\ Good(fb')
    BY <2>1 DEF Sound
  <2>3. fb.pn \in Nat /\ fb'.pn \in Nat
    BY <2>2 DEF Good, State
  <2>4. MaxFile \in Nat /\ Len(c) \in Nat
    BY BufAssumption, LenProperties
  <2> QED
    BY <2>1, <2>2, <2>3, <2>4
<1>2. SameMode(fb, fb') /\ fb'.open /\ "out" \in fb'.mode /\ fb'.mode = fb.mode
  BY DEF Puts, SameMode
<1>3. StreamData = Output(fb) /\ StreamData' = Output(fb')
  BY <1>2, Mapped DEF Data
<1>4. StreamOver' = Stream!Nothing
  BY <1>1, Mapped, NoInputOver
<1>5. Output(fb') = WriteAt(Output(fb), Target(fb), c)
      /\ Position(fb') = IF c = <<>> THEN Position(fb) ELSE Target(fb) + Len(c)
  BY DEF Puts
<1>6. Stream!WriteAt(Output(fb), Target(fb), c) = WriteAt(Output(fb), Target(fb), c)
  BY Zenon DEF Stream!WriteAt, WriteAt
<1>7. Target(fb) = IF "app" \in fb.mode THEN Len(Output(fb)) ELSE Position(fb)
  BY DEF Target
<1>8. Stream!Put(d, c)
  BY <1>2, <1>3, <1>4, <1>5, <1>6, <1>7 DEF Stream!Put, Ret, Stream!Ret
<1>9. Position(fb') \in Nat /\ Position(fb') <= MaxFile
  <2>1. Position(fb) \in Nat /\ Target(fb) \in Nat
    BY <1>1, PositionType
  <2>2. Position(fb) + Len(c) <= MaxFile
    BY DEF Fits
  <2>3. CASE "app" \notin fb.mode
    BY <1>1, <1>5, <1>7, <2>1, <2>2, <2>3
  <2>4. CASE "app" \in fb.mode
    <3>1. Len(fb.file) + fb.pn + Len(c) <= MaxFile
      BY <2>4 DEF Fits
    <3>2. Len(Output(fb)) = Len(fb.file) + fb.pn
      <4>1. fb.file \in Text /\ Len(fb.file) \in Nat
        BY <1>1, LenProperties DEF Good, State, Text
      <4>2. CASE fb.pn = 0
        BY <1>1, <4>1, <4>2 DEF Output
      <4>3. CASE fb.pn # 0
        <5> DEFINE p == Pending(fb)
                   at == At(fb)
        <5>1. p \in Text /\ Len(p) = fb.pn /\ p # <<>>
          <6>1. p \in Seq(Char) /\ Len(p) = fb.pn
            BY <1>1, PendingType
          <6> HIDE DEF p
          <6> QED
            BY <4>3, <6>1, CharText
        <5>2. at = Len(fb.file)
          BY <2>4 DEF At
        <5>3. Output(fb) = WriteAt(fb.file, at, p)
          BY <1>1, <4>3 DEF Output
        <5> HIDE DEF p, at
        <5>4. at \in Nat
          BY <4>1, <5>2
        <5>5. Len(WriteAt(fb.file, at, p)) =
                 IF at + Len(p) > Len(fb.file) THEN at + Len(p) ELSE Len(fb.file)
          BY <4>1, <5>1, <5>4, WriteAtShape
        <5> QED
          BY <1>1, <4>1, <4>3, <5>1, <5>2, <5>3, <5>5
      <4> QED
        BY <4>2, <4>3
    <3>3. Len(fb.file) \in Nat
      BY <1>1, LenProperties DEF Good, State
    <3> QED
      BY <1>1, <1>5, <1>7, <2>1, <2>2, <2>4, <3>1, <3>2, <3>3
  <2> QED
    BY <2>3, <2>4
<1>10. fb'.pn <= MaxFile
  <2>1. fb'.pn > 0 => Position(fb') = At(fb') + fb'.pn /\ At(fb') \in Nat
    BY <1>1, OutputType
  <2> QED
    BY <1>1, <1>9, <2>1
<1> QED
  BY <1>2, <1>8, <1>10 DEF Leaves, Flow, OutMode

(* A call other than a reading one that changes nothing.                   *)
LEMMA StayLeaves ==
    ASSUME FlowInv, fb' = fb, call' \notin Stream!ReadCalls
    PROVE  Same /\ Leaves
BY DEF FlowInv, Leaves, Same

LEMMA ClosedOver ==
    ASSUME NEW s, ~s.open
    PROVE  Over(s) = Stream!Nothing /\ Data(s) = s.file /\ Pos(s) = 0 /\ Flow(s)
BY DEF Over, Pushed, In, Stream!Nothing, Data, Pos, Flow

LEMMA FitsPending ==
    ASSUME FlowInv, NEW n \in Nat, Fits(n)
    PROVE  fb.pn + n <= MaxFile
<1>1. /\ Good(fb) /\ Behind(fb) /\ fb.pn \in Nat /\ MaxFile \in Nat
  BY BufAssumption, DeviceType DEF FlowInv, PlaceInv, Inv, Sound, Good, State
<1>2. /\ Position(fb) \in Nat
      /\ fb.pn > 0 => Position(fb) = At(fb) + fb.pn /\ At(fb) \in Nat
  BY <1>1, PositionType, OutputType
<1>3. Position(fb) + n <= MaxFile
  BY DEF Fits
<1> QED
  BY <1>1, <1>2, <1>3

LEMMA SputcRefines ==
    ASSUME FlowInv, Working, NEW c \in Char, Sputc(c)
    PROVE  (Stream!Put(<<"sputc", c>>, <<c>>) \/ Stream!PutClosed(c)) /\ Leaves
<1> DEFINE r == sputc(fb, c)
           d == <<"sputc", c>>
<1>1. /\ Sound(fb) /\ Good(fb) /\ Behind(fb) /\ limit = MaxFile /\ limit \in Nat
      /\ (fb.open <=> fb.mode # {}) /\ (fb.open => Ready(fb) /\ OutMode(fb))
      /\ ("out" \in fb.mode => fb.open)
  BY FlowReady
<1>2. fb' = r.fb /\ call' = d /\ ret' = Ret(IF r.n = 1 THEN <<c>> ELSE <<>>, r.n) /\ Fits(1)
  BY Zenon DEF Sputc, Finish
<1>3. d \notin Stream!ReadCalls
  <2>1. d[1] = "sputc"
    OBVIOUS
  <2> HIDE DEF d
  <2> QED
    BY <2>1, NotReadCall
<1>4. CASE "out" \in fb.mode
  <2>1. fb.pn + 1 <= MaxFile
    BY <1>2, FitsPending
  <2>2. r.n = 1
    BY <1>1, <1>4, <2>1, SputcTakes
  <2>3. Puts(fb, fb', <<c>>)
    BY <1>1, <1>2, <2>2, SputcPuts
  <2>4. NoInput(fb') /\ Sound(fb')
    BY <1>1, <1>2, <1>4, SputcInput, SputcSound
  <2>5. <<c>> \in Seq(Char) /\ Len(<<c>>) = 1
    OBVIOUS
  <2> DEFINE x == <<c>>
  <2>6. ret' = Ret(x, 1)
    BY <1>2, <2>2
  <2> HIDE DEF x, d, r
  <2>7. x \in Seq(Char) /\ Len(x) = 1 /\ Puts(fb, fb', x)
    BY <2>3, <2>5 DEF x
  <2>8. Stream!Put(d, x) /\ Leaves
    BY <1>1, <1>2, <1>3, <1>4, <2>4, <2>6, <2>7, PutRefines
  <2> QED
    BY <2>8 DEF x, d
<1>5. CASE "out" \notin fb.mode /\ ~(fb.pn < fb.pe)
  <2>1. r = [fb |-> fb, n |-> 0]
    BY <1>5 DEF sputc, overflow
  <2>2. fb' = fb /\ ret' = Ret(<<>>, 0)
    BY <1>2, <2>1
  <2>3. Same /\ Leaves
    BY <1>2, <1>3, <2>2, StayLeaves
  <2>4. Stream!Put(d, <<c>>)
    BY <1>2, <1>5, <2>2, <2>3, SameStream DEF Stream!Put, Ret, Stream!Ret
  <2> QED
    BY <2>3, <2>4
<1>6. CASE "out" \notin fb.mode /\ fb.pn < fb.pe
  <2>1. fb.pn \in Nat /\ fb.pe \in Nat
    BY <1>1 DEF Good, State
  <2>2. ~fb.open
    BY <1>1, <1>6, <2>1 DEF OutMode
  <2>3. r = [fb |-> StoreChars(fb, <<c>>), n |-> 1]
    BY <1>6 DEF sputc
  <2>4. fb' = StoreChars(fb, <<c>>) /\ ret' = Ret(<<c>>, 1)
    BY <1>2, <2>3
  <2>5. <<c>> \in Seq(Char) /\ fb.pn + Len(<<c>>) <= fb.pe
    BY <1>6, <2>1
  <2>6. SameMode(fb, fb') /\ fb'.file = fb.file
    BY <1>1, <2>4, <2>5, StoreSound, StoreFields DEF SameFile
  <2>7. ~fb'.open /\ fb'.mode = fb.mode /\ fb.mode = {}
    BY <1>1, <2>2, <2>6 DEF SameMode
  <2>8. Same /\ Flow(fb')
    BY <2>2, <2>6, <2>7, ClosedOver DEF Same
  <2>9. Stream!PutClosed(c)
    BY <1>2, <2>4, <2>7, <2>8, SameStream DEF Stream!PutClosed, Ret, Stream!Ret
  <2> QED
    BY <1>2, <1>3, <2>8, <2>9 DEF Leaves
<1> QED
  BY <1>4, <1>5, <1>6

LEMMA SputnRefines ==
    ASSUME FlowInv, Working, NEW c \in Strings, Sputn(c)
    PROVE  Stream!Put(<<"sputn", c>>, c) /\ Leaves
<1> DEFINE r == xsputn(fb, c)
           d == <<"sputn", c>>
<1>1. /\ Sound(fb) /\ Good(fb) /\ Behind(fb) /\ limit = MaxFile /\ limit \in Nat
      /\ ("out" \in fb.mode => fb.open) /\ c \in Seq(Char) /\ Len(c) \in Nat
  BY FlowReady, BufAssumption, LenProperties
<1>2. fb' = r.fb /\ call' = d /\ ret' = Ret(First(c, r.n), r.n) /\ Fits(Len(c))
  BY Zenon DEF Sputn, Finish
<1>3. d \notin Stream!ReadCalls
  <2>1. d[1] = "sputn"
    OBVIOUS
  <2> HIDE DEF d
  <2> QED
    BY <2>1, NotReadCall
<1>4. CASE "out" \in fb.mode
  <2>1. fb.pn + Len(c) <= MaxFile
    BY <1>1, <1>2, FitsPending
  <2>2. r.n = Len(c)
    BY <1>1, <1>4, <2>1, XsputnTakes
  <2>3. Puts(fb, fb', c)
    BY <1>1, <1>2, <1>4, <2>2, XsputnPuts
  <2>4. NoInput(fb') /\ Sound(fb')
    BY <1>1, <1>2, <1>4, XsputnInput, XsputnSound
  <2>5. First(c, Len(c)) = c
    <3>1. Min2(Len(c), Len(c)) = Len(c)
      BY DEF Min2
    <3>2. SubSeq(c, 1, Len(c)) = c
      BY <1>1, SubSeqFull
    <3> QED
      BY <3>1, <3>2 DEF First
  <2>6. ret' = Ret(c, Len(c))
    BY <1>2, <2>2, <2>5
  <2> HIDE DEF d, r
  <2>7. Stream!Put(d, c) /\ Leaves
    BY <1>1, <1>2, <1>3, <1>4, <2>3, <2>4, <2>6, PutRefines
  <2> QED
    BY <2>7 DEF d
<1>5. CASE "out" \notin fb.mode
  <2>1. r = [fb |-> fb, n |-> 0]
    BY <1>5 DEF xsputn
  <2>2. First(c, 0) = <<>>
    <3>1. Min2(0, Len(c)) = 0
      BY <1>1 DEF Min2
    <3>2. SubSeq(c, 1, 0) = <<>>
      OBVIOUS
    <3> QED
      BY <3>1, <3>2 DEF First
  <2>3. fb' = fb /\ ret' = Ret(<<>>, 0)
    BY <1>2, <2>1, <2>2
  <2>4. Same /\ Leaves
    BY <1>2, <1>3, <2>3, StayLeaves
  <2>5. Stream!Put(d, c)
    BY <1>2, <1>5, <2>3, <2>4, SameStream DEF Stream!Put, Ret, Stream!Ret
  <2> QED
    BY <2>4, <2>5
<1> QED
  BY <1>4, <1>5

-----------------------------------------------------------------------------
(* Nothing waits in the buffer, either way.                                *)
LEMMA AtRest ==
    ASSUME NEW t, Good(t), NoInput(t), t.open, t.pn = 0
    PROVE  /\ Data(t) = t.file /\ Pos(t) = t.fpos /\ Over(t) = Stream!Nothing
           /\ (OutMode(t) => Flow(t))
<1>1. t.gn = 0 /\ t.ge = 0 /\ t.area = "buf" /\ t.fpos \in Nat /\ MaxFile \in Nat
  BY BufAssumption DEF Good, State, Bounds, NoInput
<1>2. Pos(t) = t.fpos
  BY <1>1 DEF Pos, Position, m_input_size
<1>3. Data(t) = t.file
  BY DEF Data, Output
<1> QED
  BY <1>1, <1>2, <1>3, NoInputOver DEF Flow

LEMMA InitOutMode ==
    ASSUME NEW s \in State
    PROVE  OutMode(m_init(s))
BY InitFile, InitSound DEF OutMode, SameMode

(* Synchronized, open or not.                                              *)
LEMMA SyncRests ==
    ASSUME NEW s, Ready(s), OutMode(s)
    PROVE  LET t == m_sync(s) IN
           /\ Sound(t) /\ NoInput(t) /\ SameMode(s, t) /\ t.pn = 0 /\ OutMode(t)
           /\ t.file = Data(s) /\ t.fpos = Pos(s) /\ ~SyncFails(s)
<1> DEFINE t == m_sync(s)
<1>1. Good(s) /\ s \in State /\ Behind(s) /\ s.open /\ limit \in Nat /\ ~SyncFails(s)
  BY TakesAll DEF Ready, Working, Sound, Good
<1>2. Sound(t) /\ SameMode(s, t) /\ t.pn = 0
  BY <1>1, SyncSound
<1>3. NoInput(t) /\ t.file = Output(s) /\ t.fpos = Position(s)
  BY <1>1, SyncIdle
<1>4. OutMode(t)
  <2>1. CASE s.pn > 0
    <3> DEFINE w == WriteFile(s, Pending(s))
    <3>1. w \in State
      BY <1>1, WritePendingSound DEF Good
    <3>2. t = m_init(w)
      BY <2>1 DEF m_sync
    <3> QED
      BY <3>1, <3>2, InitOutMode
  <2>2. CASE ~(s.pn > 0) /\ "in" \in s.mode
    BY <1>1, <2>2, FlushInputSound DEF m_sync, OutMode, SamePut, SameMode
  <2>3. CASE ~(s.pn > 0) /\ "in" \notin s.mode
    BY <2>3 DEF m_sync
  <2> QED
    BY <2>1, <2>2, <2>3
<1> HIDE DEF t
<1>5. Data(s) = Output(s) /\ Pos(s) = Position(s)
  BY <1>1 DEF Data, Pos
<1> QED
  BY <1>1, <1>2, <1>3, <1>4, <1>5 DEF t

LEMMA ClosedSync ==
    ASSUME NEW s, Good(s), ~s.open, limit \in Nat
    PROVE  LET t == m_sync(s) IN Sound(t) /\ SameMode(s, t) /\ t.file = s.file
<1> DEFINE t == m_sync(s)
<1>1. Sound(t) /\ SameMode(s, t)
  BY SyncSound
<1>2. s \in State
  BY DEF Good
<1>3. t.file = s.file
  <2>1. CASE s.pn > 0
    <3>1. WriteFile(s, Pending(s)) = s
      BY DEF WriteFile, Taken
    <3>2. t = m_init(s)
      BY <2>1, <3>1 DEF m_sync
    <3> QED
      BY <1>2, <3>2, InitFile DEF SameFile
  <2>2. CASE ~(s.pn > 0) /\ "in" \in s.mode
    <3>1. t = m_flush_input(s)
      BY <2>2 DEF m_sync
    <3> QED
      BY <1>2, <3>1 DEF m_flush_input, SetG, SetCur, SeekFile, SetFile, State
  <2>3. CASE ~(s.pn > 0) /\ "in" \notin s.mode
    BY <2>3 DEF m_sync
  <2> QED
    BY <2>1, <2>2, <2>3
<1> QED
  BY <1>1, <1>3

LEMMA SyncRefines ==
    ASSUME FlowInv, Working, Sync
    PROVE  Stream!Sync /\ Leaves
<1>1. /\ Good(fb) /\ limit \in Nat /\ (fb.open <=> fb.mode # {})
      /\ (fb.open => Ready(fb) /\ OutMode(fb))
  BY FlowReady
<1>2. fb' = m_sync(fb) /\ call' = <<"sync">> /\ ret' = Ret(<<>>, IF SyncFails(fb) THEN -1 ELSE 0)
  BY Zenon DEF Sync, Finish
<1>3. call' \notin Stream!ReadCalls
  <2>1. call'[1] = "sync"
    BY <1>2
  <2> QED
    BY <2>1, NotReadCall
<1>4. CASE fb.open
  <2>1. /\ Good(fb') /\ NoInput(fb') /\ SameMode(fb, fb') /\ fb'.pn = 0 /\ OutMode(fb')
        /\ fb'.file = Data(fb) /\ fb'.fpos = Pos(fb) /\ ~SyncFails(fb)
    BY <1>1, <1>2, <1>4, SyncRests DEF Sound
  <2>2. /\ Data(fb') = Data(fb) /\ Pos(fb') = Pos(fb) /\ Over(fb') = Stream!Nothing
        /\ fb'.mode = fb.mode /\ Flow(fb')
    BY <1>4, <2>1, AtRest DEF SameMode
  <2>3. StreamData' = StreamData /\ StreamOver' = Stream!Nothing
    BY <2>2, Mapped
  <2>4. (IF fb.open THEN Position(fb) ELSE 0)' = IF fb.open THEN Position(fb) ELSE 0
    BY <2>2 DEF Pos
  <2>5. ret' = Ret(<<>>, 0)
    BY <1>2, <2>1
  <2>6. Stream!Sync
    BY <1>2, <2>2, <2>3, <2>4, <2>5 DEF Stream!Sync, Ret, Stream!Ret
  <2> QED
    BY <1>3, <2>2, <2>6 DEF Leaves
<1>5. CASE ~fb.open
  <2>1. SameMode(fb, fb') /\ fb'.file = fb.file
    BY <1>1, <1>2, <1>5, ClosedSync
  <2>2. ~fb'.open /\ fb'.mode = fb.mode /\ fb.mode = {}
    BY <1>1, <1>5, <2>1 DEF SameMode
  <2>3. StreamData' = StreamData /\ StreamOver' = Stream!Nothing /\ Flow(fb')
    BY <1>5, <2>1, <2>2, ClosedOver, Mapped
  <2>4. ret' = Ret(<<>>, 0) \/ ret' = Ret(<<>>, -1)
    BY <1>2
  <2>5. Stream!Sync
    BY <1>2, <1>5, <2>2, <2>3, <2>4 DEF Stream!Sync, Ret, Stream!Ret
  <2> QED
    BY <1>3, <2>3, <2>5 DEF Leaves
<1> QED
  BY <1>4, <1>5

LEMMA CloseRefines ==
    ASSUME FlowInv, Working, Close
    PROVE  Stream!Close /\ Leaves
<1>1. /\ Good(fb) /\ limit \in Nat /\ (fb.open <=> fb.mode # {})
      /\ (fb.open => Ready(fb) /\ OutMode(fb))
  BY FlowReady
<1>2. call' = <<"close">> /\ call'[1] = "close"
  <2>1. call' = <<"close">>
    BY Zenon DEF Close, Finish
  <2> QED
    BY <2>1
<1>3. call' \notin Stream!ReadCalls
  BY <1>2, NotReadCall
<1>4. CASE fb.open
  <2> DEFINE s == m_sync(fb)
  <2>1. fb' = SetMode(SetFile(s, s.file, 0), FALSE, {}) /\ ret' = Ret(<<>>, 0)
    BY <1>4 DEF Close, Closing, Finish
  <2>2. s \in State /\ s.file = Data(fb)
    BY <1>1, <1>4, SyncRests DEF Sound, Good
  <2> HIDE DEF s
  <2>3. ~fb'.open /\ fb'.mode = {} /\ fb'.file = Data(fb)
    BY <2>1, <2>2 DEF SetMode, SetFile, State
  <2>4. StreamData' = StreamData /\ StreamOver' = Stream!Nothing /\ Flow(fb')
    BY <2>3, ClosedOver, Mapped
  <2>5. Stream!Close
    BY <1>1, <1>2, <1>4, <2>1, <2>3, <2>4 DEF Stream!Close, Ret, Stream!Ret
  <2> QED
    BY <1>3, <2>4, <2>5 DEF Leaves
<1>5. CASE ~fb.open
  <2>1. fb' = fb /\ ret' = Ret(<<>>, -1)
    BY <1>5, Zenon DEF Close, Finish
  <2>2. Same /\ Leaves
    BY <1>3, <2>1, StayLeaves
  <2>3. StreamOver' = Stream!Nothing
    BY <1>5, <2>1, ClosedOver, Mapped
  <2>4. Stream!Close
    BY <1>1, <1>2, <1>5, <2>1, <2>2, <2>3, SameStream DEF Stream!Close, Ret, Stream!Ret
  <2> QED
    BY <2>2, <2>4
<1> QED
  BY <1>4, <1>5

LEMMA SetBufRefines ==
    ASSUME FlowInv, Working, NEW mem \in Buffers, SetBuf(mem)
    PROVE  Stream!SetBuf /\ Leaves
<1>1. /\ Good(fb) /\ limit \in Nat /\ (fb.open <=> fb.mode # {})
      /\ (fb.open => Ready(fb) /\ OutMode(fb))
  BY FlowReady
<1>2. call' = <<"setbuf">> /\ call'[1] = "setbuf"
  <2>1. call' = <<"setbuf">>
    BY Zenon DEF SetBuf, Finish
  <2> QED
    BY <2>1
<1>3. call' \notin Stream!ReadCalls
  BY <1>2, NotReadCall
<1>4. CASE m_input_size(fb) # 0
  <2>1. fb' = fb /\ ret' = Ret(<<>>, -1)
    BY <1>4, Zenon DEF SetBuf, Finish
  <2>2. Same /\ Leaves
    BY <1>3, <2>1, StayLeaves
  <2> QED
    BY <1>2, <2>1, <2>2, SameStream DEF Stream!SetBuf, Ret, Stream!Ret
<1>5. CASE m_input_size(fb) = 0
  <2> DEFINE s == m_sync(fb)
             b == SetMem(s, mem)
  <2>1. fb' = m_init(b) /\ ret' = Ret(<<>>, 0)
    BY <1>5, Zenon DEF SetBuf, Finish
  <2>2. Sound(s) /\ SameMode(fb, s) /\ s.file = Data(fb) /\ (fb.open => s.fpos = Pos(fb))
    <3>1. CASE fb.open
      BY <1>1, <3>1, SyncRests
    <3>2. CASE ~fb.open
      BY <1>1, <3>2, ClosedSync, ClosedOver
    <3> QED
      BY <3>1, <3>2
  <2> HIDE DEF s
  <2>3. b \in State /\ SameMode(s, b) /\ SameFile(s, b)
    <3>1. mem \in Seq(Char \cup {Hole, Junk}) /\ s \in State
      BY <1>1, <2>2, BuffersType DEF Sound, Good
    <3> QED
      BY <3>1, SetMemFields
  <2> HIDE DEF b
  <2>4. /\ Sound(fb') /\ SameMode(b, fb') /\ fb'.area = "buf" /\ fb'.ge = 0 /\ fb'.pn = 0
        /\ SameFile(b, fb') /\ OutMode(fb')
    <3>1. Sound(m_init(b)) /\ SameMode(b, m_init(b))
      BY <2>3, InitSound
    <3>2. m_init(b).area = "buf" /\ m_init(b).ge = 0 /\ m_init(b).pn = 0
      BY <2>3, InitSound
    <3>3. SameFile(b, m_init(b)) /\ OutMode(m_init(b))
      BY <2>3, InitFile, InitOutMode
    <3> QED
      BY <2>1, <3>1, <3>2, <3>3
  <2>5. /\ fb'.file = Data(fb) /\ (fb.open => fb'.fpos = Pos(fb)) /\ SameMode(fb, fb')
        /\ Good(fb') /\ NoInput(fb')
    BY <2>2, <2>3, <2>4 DEF SameFile, SameMode, Sound, NoInput
  <2>6. /\ Data(fb') = Data(fb) /\ Pos(fb') = Pos(fb) /\ Over(fb') = Stream!Nothing
        /\ fb'.mode = fb.mode /\ Flow(fb')
    <3>1. CASE fb.open
      BY <2>4, <2>5, <3>1, AtRest DEF SameMode
    <3>2. CASE ~fb.open
      BY <2>5, <3>2, ClosedOver DEF SameMode
    <3> QED
      BY <3>1, <3>2
  <2>7. /\ StreamData' = StreamData /\ StreamOver' = Stream!Nothing
        /\ (IF fb.open THEN Position(fb) ELSE 0)' = IF fb.open THEN Position(fb) ELSE 0
    BY <2>6, Mapped DEF Pos
  <2>8. Stream!SetBuf
    BY <1>2, <2>1, <2>6, <2>7 DEF Stream!SetBuf, Ret, Stream!Ret
  <2> QED
    BY <1>3, <2>6, <2>8 DEF Leaves
<1> QED
  BY <1>4, <1>5

LEMMA SeekRefines ==
    ASSUME FlowInv, Working, NEW way \in {"beg", "cur", "end"}, NEW off \in Offsets,
           Seek(way, off)
    PROVE  Stream!Seek(way, off) /\ Leaves
<1> DEFINE s == m_sync(fb)
           base == Base(s, way)
           d == <<"seek", way, off>>
<1>1. /\ Good(fb) /\ limit \in Nat /\ (fb.open <=> fb.mode # {})
      /\ (fb.open => Ready(fb) /\ OutMode(fb)) /\ off \in Int
  BY FlowReady, BufAssumption
<1>2. call' = d
  BY Zenon DEF Seek, Finish
<1>3. call' \notin Stream!ReadCalls
  <2>1. d[1] = "seek"
    OBVIOUS
  <2> HIDE DEF d
  <2> QED
    BY <1>2, <2>1, NotReadCall
<1>4. CASE fb.open
  <2>1. /\ Good(s) /\ NoInput(s) /\ SameMode(fb, s) /\ s.pn = 0 /\ OutMode(s)
        /\ s.file = Data(fb) /\ s.fpos = Pos(fb) /\ ~SyncFails(fb)
    BY <1>1, <1>4, SyncRests DEF Sound
  <2>2. fb' = SeekFile(s, base, off) /\ ret' = Ret(<<>>, IF base + off >= 0 THEN base + off ELSE -1)
    BY <1>4, <2>1, Zenon DEF Seek, Finish
  <2> HIDE DEF s
  <2>3. s \in State /\ s.open /\ s.mode = fb.mode /\ s.fpos \in Nat /\ Len(s.file) \in Nat
    BY <1>4, <2>1, LenProperties DEF SameMode, Good, State
  <2>4. base \in Nat /\ base = Stream!Base(way)
    <3>1. Stream!Base(way) = CASE way = "beg" -> 0
                               [] way = "cur" -> Pos(fb)
                               [] way = "end" -> Len(Data(fb))
      BY Mapped DEF Stream!Base, Pos
    <3>2. base = CASE way = "beg" -> 0
                   [] way = "cur" -> s.fpos
                   [] way = "end" -> Len(s.file)
      BY DEF Base
    <3> QED
      BY <2>1, <2>3, <3>1, <3>2
  <2> HIDE DEF base, d
  <2>5. fb.mode # {}
    BY <1>1, <1>4
  <2>6. CASE base + off >= 0
    <3> DEFINE p == base + off
    <3>1. p \in Nat
      BY <1>1, <2>4, <2>6
    <3>2. fb' = SetFile(s, s.file, p)
      BY <2>2, <2>6 DEF SeekFile
    <3>3. /\ fb' \in State /\ fb'.file = s.file /\ fb'.fpos = p
          /\ SameBuffer(s, fb')
      <4> DEFINE t == SetFile(s, s.file, p)
      <4>1. s.file \in Text
        BY <2>3 DEF State, Text
      <4>2. /\ t \in State /\ t.file = s.file /\ t.fpos = p
            /\ SameMode(s, t) /\ SameGet(s, t) /\ SamePut(s, t) /\ SameMem(s, t)
        BY <2>3, <3>1, <4>1, SetFileFields
      <4> HIDE DEF t
      <4>3. fb' = t
        BY <3>2 DEF t
      <4> QED
        BY <4>2, <4>3 DEF SameBuffer
    <3>4. /\ Good(fb') /\ NoInput(fb') /\ fb'.open /\ fb'.pn = 0 /\ OutMode(fb')
          /\ fb'.mode = fb.mode
      BY <2>1, <2>3, <3>3, SameBufferGood
         DEF SameBuffer, SameGet, SamePut, SameMode, NoInput, OutMode
    <3> HIDE DEF p
    <3>5. Data(fb') = Data(fb) /\ Pos(fb') = p /\ Over(fb') = Stream!Nothing /\ Flow(fb')
      BY <2>1, <3>3, <3>4, AtRest
    <3>6. StreamData' = StreamData /\ StreamOver' = Stream!Nothing
      BY <3>5, Mapped
    <3>7. (IF fb.open THEN Position(fb) ELSE 0)' = p
      BY <3>5 DEF Pos
    <3>8. p = Stream!Base(way) + off /\ Stream!Base(way) + off >= 0
      BY <2>4, <2>6 DEF p
    <3>9. ret' = Ret(<<>>, Stream!Base(way) + off)
      BY <2>2, <2>4, <2>6
    <3>10. Stream!Seek(way, off)
      BY <1>2, <2>5, <3>4, <3>6, <3>7, <3>8, <3>9 DEF Stream!Seek, Ret, Stream!Ret, d
    <3> QED
      BY <1>3, <3>5, <3>10 DEF Leaves
  <2>7. CASE ~(base + off >= 0)
    <3>1. fb' = s
      BY <2>2, <2>7 DEF SeekFile
    <3>2. Data(fb') = Data(fb) /\ Pos(fb') = Pos(fb) /\ Over(fb') = Stream!Nothing /\ Flow(fb')
      BY <2>1, <2>3, <3>1, AtRest
    <3>3. /\ StreamData' = StreamData /\ StreamOver' = Stream!Nothing
          /\ (IF fb.open THEN Position(fb) ELSE 0)' = IF fb.open THEN Position(fb) ELSE 0
      BY <3>2, Mapped DEF Pos
    <3>4. Stream!Base(way) + off < 0
      BY <1>1, <2>4, <2>7
    <3>5. ret' = Ret(<<>>, -1)
      BY <2>2, <2>7
    <3>6. Stream!Seek(way, off)
      BY <1>2, <2>3, <3>1, <3>3, <3>4, <3>5 DEF Stream!Seek, Ret, Stream!Ret, d
    <3> QED
      BY <1>3, <3>2, <3>6 DEF Leaves
  <2> QED
    BY <2>6, <2>7
<1>5. CASE ~fb.open
  <2>1. fb' = fb /\ ret' = Ret(<<>>, -1)
    BY <1>5, Zenon DEF Seek, Finish
  <2>2. Same /\ Leaves
    BY <1>3, <2>1, StayLeaves
  <2>3. StreamOver' = Stream!Nothing
    BY <1>5, <2>1, ClosedOver, Mapped
  <2>4. Stream!Seek(way, off)
    BY <1>1, <1>2, <1>5, <2>1, <2>2, <2>3, SameStream DEF Stream!Seek, Ret, Stream!Ret
  <2> QED
    BY <2>2, <2>4
<1> QED
  BY <1>4, <1>5

LEMMA OpenRefines ==
    ASSUME FlowInv, Working, NEW m \in Modes, Open(m)
    PROVE  Stream!Open(m) /\ Leaves
<1>1. Good(fb) /\ fb \in State /\ (fb.open <=> fb.mode # {}) /\ m # {}
  BY FlowReady, BufAssumption DEF Good
<1>2. call' = <<"open">> /\ call'[1] = "open"
  <2>1. call' = <<"open">>
    BY Zenon DEF Open, Finish
  <2> QED
    BY <2>1
<1>3. call' \notin Stream!ReadCalls
  BY <1>2, NotReadCall
<1>4. CASE fb' = fb /\ ret' = Ret(<<>>, -1)
  <2>1. Same /\ Leaves
    BY <1>3, <1>4, StayLeaves
  <2>2. Stream!Open(m)
    BY <1>2, <1>4, <2>1, SameStream DEF Stream!Open, Ret, Stream!Ret
  <2> QED
    BY <2>1, <2>2
<1> DEFINE file == IF "trunc" \in m THEN <<>> ELSE fb.file
           mem  == IF fb.mem = <<>> THEN NewBuffer(DefaultSize) ELSE fb.mem
           fpos == IF "ate" \in m THEN Len(file) ELSE 0
           b    == SetMode(SetFile(SetMem(fb, mem), file, fpos), TRUE, m)
<1>5. CASE ~fb.open /\ fb' = m_init(b) /\ ret' = Ret(<<>>, 0)
  <2>1. mem \in Seq(Char \cup {Hole, Junk})
    <3>1. DefaultSize \in Nat
      BY BufAssumption
    <3> QED
      BY <1>1, <3>1, NewBufferType DEF State
  <2>2. file \in Text
    BY <1>1 DEF State, Text
  <2> HIDE DEF mem, file
  <2>3. fpos \in Nat
    BY <2>2, LenProperties DEF Text
  <2> HIDE DEF fpos
  <2>4. b \in State /\ b.file = file /\ b.fpos = fpos /\ b.open /\ b.mode = m
    <3> DEFINE x == SetMem(fb, mem)
               y == SetFile(x, file, fpos)
    <3>1. x \in State
      BY <1>1, <2>1, SetMemFields
    <3> HIDE DEF x
    <3>2. y \in State /\ y.file = file /\ y.fpos = fpos
      BY <2>2, <2>3, <3>1, SetFileFields
    <3> HIDE DEF y
    <3>3. m \in Modes \cup {{}} /\ TRUE \in BOOLEAN
      OBVIOUS
    <3>4. LET t == SetMode(y, TRUE, m) IN
          t \in State /\ t.open = TRUE /\ t.mode = m /\ SameFile(y, t)
      BY <3>2, <3>3, SetModeFields
    <3>5. b = SetMode(y, TRUE, m)
      BY DEF x, y
    <3> QED
      BY <3>2, <3>4, <3>5 DEF SameFile
  <2> HIDE DEF b
  <2>5. /\ Sound(fb') /\ SameMode(b, fb') /\ fb'.area = "buf" /\ fb'.ge = 0 /\ fb'.pn = 0
        /\ SameFile(b, fb') /\ OutMode(fb')
    <3>1. Sound(m_init(b)) /\ SameMode(b, m_init(b))
      BY <2>4, InitSound
    <3>2. m_init(b).area = "buf" /\ m_init(b).ge = 0 /\ m_init(b).pn = 0
      BY <2>4, InitSound
    <3>3. SameFile(b, m_init(b)) /\ OutMode(m_init(b))
      BY <2>4, InitFile, InitOutMode
    <3> QED
      BY <1>5, <3>1, <3>2, <3>3
  <2>6. /\ Good(fb') /\ NoInput(fb') /\ fb'.open /\ fb'.mode = m
        /\ fb'.file = file /\ fb'.fpos = fpos
    BY <2>4, <2>5 DEF Sound, NoInput, SameMode, SameFile
  <2>7. Data(fb') = file /\ Pos(fb') = fpos /\ Over(fb') = Stream!Nothing /\ Flow(fb')
    BY <2>5, <2>6, AtRest
  <2>8. StreamData' = file /\ StreamOver' = Stream!Nothing
    BY <2>7, Mapped
  <2>9. (IF fb.open THEN Position(fb) ELSE 0)' = fpos
    BY <2>7 DEF Pos
  <2>10. StreamData = fb.file /\ fb.mode = {}
    BY <1>1, <1>5, ClosedOver, Mapped
  <2>11. Stream!Open(m)
    BY <1>2, <1>5, <2>6, <2>8, <2>9, <2>10 DEF Stream!Open, Ret, Stream!Ret, file, fpos
  <2> QED
    BY <1>3, <2>7, <2>11 DEF Leaves
<1> QED
  BY <1>4, <1>5, Zenon DEF Open, Finish

-----------------------------------------------------------------------------
(* Every step.                                                             *)
LEMMA InitRefines == Init => FlowInv /\ Stream!Init
<1> SUFFICES ASSUME Init
             PROVE  FlowInv /\ Stream!Init
  OBVIOUS
<1>1. /\ ~fb.open /\ fb.mode = {} /\ ret = Ret(<<>>, 0) /\ call = <<>>
      /\ fb.file \in UNION {[1 .. n -> Char] : n \in 0 .. MaxFile}
  BY DEF Init
<1>2. PlaceInv
  BY InitPlace
<1>3. StreamData = fb.file /\ StreamOver = Stream!Nothing /\ Flow(fb)
  BY <1>1, ClosedOver, Mapped
<1>4. ret.chars = <<>>
  BY <1>1 DEF Ret
<1> QED
  BY <1>1, <1>2, <1>3, <1>4 DEF FlowInv, Stream!Init, Ret, Stream!Ret

LEMMA StepRefines ==
    ASSUME ~UnderBegin, Working, FlowInv, Next, ~Device
    PROVE  Stream!Next /\ Leaves
<1>1. ASSUME NEW m \in Modes, Open(m)
      PROVE  Stream!Next /\ Leaves
  BY <1>1, OpenRefines DEF Stream!Next
<1>2. CASE Close
  BY <1>2, CloseRefines DEF Stream!Next
<1>3. ASSUME NEW mem \in Buffers, SetBuf(mem)
      PROVE  Stream!Next /\ Leaves
  BY <1>3, SetBufRefines DEF Stream!Next
<1>4. CASE Sgetc
  BY <1>4, SgetcRefines, SgetcLeaves DEF Stream!Next
<1>5. CASE Sbumpc
  BY <1>5, SbumpcRefines DEF Stream!Next
<1>6. ASSUME NEW n \in 1 .. MaxString, Sgetn(n)
      PROVE  Stream!Next /\ Leaves
  BY <1>6, SgetnRefines DEF Stream!Next
<1>7. CASE Sungetc
  BY <1>7, SungetcRefines DEF Stream!Next
<1>8. ASSUME NEW c \in Char, Sputbackc(c)
      PROVE  Stream!Next /\ Leaves
  BY <1>8, SputbackcRefines DEF Stream!Next
<1>9. ASSUME NEW c \in Char, Sputc(c)
      PROVE  Stream!Next /\ Leaves
  BY <1>9, SputcRefines DEF Stream!Next
<1>10. ASSUME NEW c \in Strings, Sputn(c)
       PROVE  Stream!Next /\ Leaves
  BY <1>10, SputnRefines DEF Stream!Next
<1>11. CASE Sync
  BY <1>11, SyncRefines DEF Stream!Next
<1>12. ASSUME NEW way \in {"beg", "cur", "end"}, NEW off \in Offsets, Seek(way, off)
       PROVE  Stream!Next /\ Leaves
  BY <1>12, SeekRefines DEF Stream!Next
<1> QED
  BY <1>1, <1>2, <1>3, <1>4, <1>5, <1>6, <1>7, <1>8, <1>9, <1>10, <1>11, <1>12 DEF Next

(* On the one device that always works there is no step of the device.     *)
LEMMA AlwaysWorks ==
    ASSUME Devices = {<<MaxFile, TRUE>>}, FlowInv
    PROVE  Working /\ ~Device
<1>1. <<limit, readable>> \in Devices
  BY DEF FlowInv, PlaceInv, Inv
<1>2. limit = MaxFile /\ readable = TRUE
  BY <1>1
<1>3. Devices \ {<<limit, readable>>} = {}
  BY <1>1
<1> QED
  BY <1>2, <1>3 DEF Working, Device

LEMMA NextRefines ==
    ASSUME ~UnderBegin, Devices = {<<MaxFile, TRUE>>}
    PROVE  FlowInv /\ [Next]_vars => FlowInv' /\ [Working => Stream!Next]_(Stream!vars)
<1> SUFFICES ASSUME FlowInv, [Next]_vars
             PROVE  FlowInv' /\ [Working => Stream!Next]_(Stream!vars)
  OBVIOUS
<1>1. PlaceInv'
  BY PlaceNext DEF FlowInv
<1>2. CASE Next
  <2>1. Stream!Next /\ Leaves
    BY <1>2, StepRefines, AlwaysWorks
  <2> QED
    BY <1>1, <2>1 DEF FlowInv, Leaves
<1>3. CASE UNCHANGED vars
  <2>1. fb' = fb /\ call' = call /\ ret' = ret
    BY <1>3 DEF vars
  <2>2. Same
    BY <2>1 DEF Same
  <2>3. FlowInv'
    BY <1>1, <2>1 DEF FlowInv
  <2>4. UNCHANGED Stream!vars
    BY <2>1, <2>2, SameStream DEF Stream!vars
  <2> QED
    BY <2>3, <2>4
<1> QED
  BY <1>2, <1>3

(* For buffers and files of every size and contents: a filebuf on a device *)
(* that never fails does what the unbuffered file FileStream does.         *)
(* Whatever is called and in whatever order, every call returns the        *)
(* characters and the number that the file without a buffer would, the     *)
(* file holds all output at the position it was put, a character that was  *)
(* pushed back is read next, and putting back the character just read      *)
(* never fails.  The one rule for the caller is not to push a character    *)
(* back before the beginning of the file.                                  *)
THEOREM FileBufIsStream ==
    ASSUME ~UnderBegin, Devices = {<<MaxFile, TRUE>>}
    PROVE  Spec => StreamSpec
<1>1. Init => FlowInv /\ Stream!Init
  BY InitRefines
<1>2. FlowInv /\ [Next]_vars => FlowInv' /\ [Working => Stream!Next]_(Stream!vars)
  BY NextRefines
<1> QED
  BY <1>1, <1>2, PTL DEF Spec, StreamSpec
=============================================================================
