---------------------------- MODULE Values_proof -----------------------------
(***************************************************************************)
(* Proofs about the conversions of values: of characters (Utf) and of      *)
(* strings (UniString), of the case of strings (ICase) and of the bytes of *)
(* numbers (BinData), for every text, every code and every number.         *)
(***************************************************************************)
EXTENDS UniString, ICase, BinData,
        SequenceTheorems, FiniteSetTheorems, WellFoundedInduction, TLAPS

-----------------------------------------------------------------------------
(* Utf: the conversions of one character.                                  *)
(* What s has at i begins with u.                                          *)
Begins(s, i, u) ==
    i + Len(u) <= Len(s) + 1 /\ \A j \in 1 .. Len(u) : s[i + j - 1] = u[j]

-----------------------------------------------------------------------------
(* The powers of 64.                                                       *)
LEMMA ShiftIs ==
    Shift(0) = 1 /\ Shift(1) = 64 /\ Shift(2) = 4096 /\ Shift(3) = 262144
  BY SMT DEF Shift

(* What u32tou8() puts out for a code, by its size.                        *)
LEMMA EncodedBytes ==
    ASSUME NEW c \in Nat, c <= MaxCode
    PROVE  /\ c <= 127 => u32tou8(c) = <<c>>
           /\ 127 < c /\ c <= 2047 => u32tou8(c) = <<192 + (c \div 64), 128 + (c % 64)>>
           /\ 2047 < c /\ c <= 65535
                => u32tou8(c) = <<224 + (c \div 4096), 128 + ((c \div 64) % 64), 128 + (c % 64)>>
           /\ 65535 < c
                => u32tou8(c) = <<240 + (c \div 262144), 128 + ((c \div 4096) % 64),
                                  128 + ((c \div 64) % 64), 128 + (c % 64)>>
  <1>1. Valid(c) = c
    BY SMT DEF Valid, TooLarge, Invalid, MaxCode
  <1>2. Shift(0) = 1 /\ Shift(1) = 64 /\ Shift(2) = 4096
    BY SMT DEF Shift
  <1>3. c \div 1 = c
    BY SMT
  <1> QED
    BY <1>1, <1>2, <1>3, SMT DEF u32tou8, MaxCode

-----------------------------------------------------------------------------
(* Sequences of 2, 3 and 4 bytes, that carry the numbers x, y, z and w.    *)
Two(s, i, x, y) ==
    /\ i + 1 <= Len(s) /\ s[i] = 192 + x
    /\ s[i + 1] = 128 + y

Three(s, i, x, y, z) ==
    /\ i + 2 <= Len(s) /\ s[i] = 224 + x
    /\ s[i + 1] = 128 + y /\ s[i + 2] = 128 + z

Four(s, i, x, y, z, w) ==
    /\ i + 3 <= Len(s) /\ s[i] = 240 + x
    /\ s[i + 1] = 128 + y /\ s[i + 2] = 128 + z /\ s[i + 3] = 128 + w

(* A continuation byte carries six bits.                                   *)
LEMMA SixBits ==
    ASSUME NEW y \in Nat, y < 64
    PROVE  Continues(128 + y) /\ (128 + y) % 64 = y
  <1>1. (128 + y) \div 64 = 2
    BY SMT
  <1>2. (128 + y) % 64 = y
    BY SMT
  <1> QED
    BY <1>1, <1>2, SMT DEF Continues

(* The first byte of a sequence: how many follow, and what it carries.     *)
LEMMA Lead2 ==
    ASSUME NEW x \in Nat, x < 32
    PROVE  /\ Follow(192 + x) = 1 /\ LeadBits(192 + x, 1) = x
           /\ ~Continues(192 + x) /\ ~(192 + x < 128)
  <1>1. (192 + x) % 32 = x /\ (192 + x) \div 64 = 3
    BY SMT
  <1> QED
    BY <1>1, SMT DEF Follow, LeadBits, Continues

LEMMA Lead3 ==
    ASSUME NEW x \in Nat, x < 16
    PROVE  /\ Follow(224 + x) = 2 /\ LeadBits(224 + x, 2) = x
           /\ ~Continues(224 + x) /\ ~(224 + x < 128)
  <1>1. (224 + x) % 16 = x /\ (224 + x) \div 64 = 3
    BY SMT
  <1> QED
    BY <1>1, SMT DEF Follow, LeadBits, Continues

LEMMA Lead4 ==
    ASSUME NEW x \in Nat, x < 8
    PROVE  /\ Follow(240 + x) = 3 /\ LeadBits(240 + x, 3) = x
           /\ ~Continues(240 + x) /\ ~(240 + x < 128)
  <1>1. (240 + x) % 8 = x /\ (240 + x) \div 64 = 3
    BY SMT
  <1> QED
    BY <1>1, SMT DEF Follow, LeadBits, Continues

LEMMA DecodeTwo ==
    ASSUME NEW s, NEW i \in Nat, NEW x \in Nat, NEW y \in Nat,
           x < 32, y < 64, Two(s, i, x, y)
    PROVE  u8tou32(s, i) = Found(x * 64 + y, 2)
  <1>1. /\ Follow(s[i]) = 1 /\ LeadBits(s[i], 1) = x
        /\ ~Continues(s[i]) /\ ~(s[i] < 128)
    BY Lead2, SMT DEF Two
  <1>2. Continues(s[i + 1]) /\ s[i + 1] % 64 = y
    BY SixBits, SMT DEF Two
  <1>3. Continued(s, i, 1)
    BY <1>2, SMT DEF Continued, Two
  <1>4. Sequence(s, i, 1) = x * 64 + y
    BY <1>1, <1>2, ShiftIs, SMT DEF Sequence
  <1> QED
    BY <1>1, <1>3, <1>4, SMT DEF u8tou32

LEMMA DecodeThree ==
    ASSUME NEW s, NEW i \in Nat, NEW x \in Nat, NEW y \in Nat, NEW z \in Nat,
           x < 16, y < 64, z < 64, Three(s, i, x, y, z)
    PROVE  u8tou32(s, i) = Found(x * 4096 + y * 64 + z, 3)
  <1>1. /\ Follow(s[i]) = 2 /\ LeadBits(s[i], 2) = x
        /\ ~Continues(s[i]) /\ ~(s[i] < 128)
    BY Lead3, SMT DEF Three
  <1>2. Continues(s[i + 1]) /\ s[i + 1] % 64 = y
    BY SixBits, SMT DEF Three
  <1>3. Continues(s[i + 2]) /\ s[i + 2] % 64 = z
    BY SixBits, SMT DEF Three
  <1>4. Continued(s, i, 2)
    BY <1>2, <1>3, SMT DEF Continued, Three
  <1>5. Sequence(s, i, 2) = x * 4096 + y * 64 + z
    BY <1>1, <1>2, <1>3, ShiftIs, SMT DEF Sequence
  <1> QED
    BY <1>1, <1>4, <1>5, SMT DEF u8tou32

LEMMA DecodeFour ==
    ASSUME NEW s, NEW i \in Nat, NEW x \in Nat, NEW y \in Nat, NEW z \in Nat, NEW w \in Nat,
           x < 8, y < 64, z < 64, w < 64, Four(s, i, x, y, z, w)
    PROVE  u8tou32(s, i) = Found(x * 262144 + y * 4096 + z * 64 + w, 4)
  <1>1. /\ Follow(s[i]) = 3 /\ LeadBits(s[i], 3) = x
        /\ ~Continues(s[i]) /\ ~(s[i] < 128)
    BY Lead4, SMT DEF Four
  <1>2. Continues(s[i + 1]) /\ s[i + 1] % 64 = y
    BY SixBits, SMT DEF Four
  <1>3. Continues(s[i + 2]) /\ s[i + 2] % 64 = z
    BY SixBits, SMT DEF Four
  <1>4. Continues(s[i + 3]) /\ s[i + 3] % 64 = w
    BY SixBits, SMT DEF Four
  <1>5. Continued(s, i, 3)
    BY <1>2, <1>3, <1>4, SMT DEF Continued, Four
  <1>6. Sequence(s, i, 3) = x * 262144 + y * 4096 + z * 64 + w
    BY <1>1, <1>2, <1>3, <1>4, ShiftIs, SMT DEF Sequence
  <1> QED
    BY <1>1, <1>5, <1>6, SMT DEF u8tou32

(* The bytes that u32tou8() puts out carry the code.                       *)
LEMMA EncodeTwo ==
    ASSUME NEW c \in Nat, 127 < c, c <= 2047
    PROVE  \E x \in Nat, y \in Nat :
               /\ u32tou8(c) = <<192 + x, 128 + y>>
               /\ c = x * 64 + y
               /\ x < 32 /\ y < 64
  <1>1. PICK x \in Nat, y \in Nat : x = c \div 64 /\ y = c % 64
    BY SMT
  <1>2. u32tou8(c) = <<192 + (c \div 64), 128 + (c % 64)>>
    <2>1. c <= MaxCode
      BY SMT DEF MaxCode
    <2> QED
      BY <2>1, EncodedBytes, SMT
  <1>3. c \div 64 < 32
    BY SMT
  <1>4. c % 64 < 64
    BY SMT
  <1>5. c = (c \div 64) * 64 + (c % 64)
    BY SMT
  <1>6. u32tou8(c) = <<192 + x, 128 + y>>
    BY <1>1, <1>2, SMT
  <1>7. c = x * 64 + y
    BY <1>1, <1>5, SMT
  <1>8. x < 32 /\ y < 64
    BY <1>1, <1>3, <1>4, SMT
  <1> QED
    BY <1>6, <1>7, <1>8, SMT

LEMMA EncodeThree ==
    ASSUME NEW c \in Nat, 2047 < c, c <= 65535
    PROVE  \E x \in Nat, y \in Nat, z \in Nat :
               /\ u32tou8(c) = <<224 + x, 128 + y, 128 + z>>
               /\ c = x * 4096 + y * 64 + z
               /\ x < 16 /\ y < 64 /\ z < 64
  <1>1. PICK x \in Nat, y \in Nat, z \in Nat : x = c \div 4096 /\ y = (c \div 64) % 64 /\ z = c % 64
    BY SMT
  <1>2. u32tou8(c) = <<224 + (c \div 4096), 128 + ((c \div 64) % 64), 128 + (c % 64)>>
    <2>1. c <= MaxCode
      BY SMT DEF MaxCode
    <2> QED
      BY <2>1, EncodedBytes, SMT
  <1>3. c \div 4096 < 16
    BY SMT
  <1>4. (c \div 64) % 64 < 64 /\ c % 64 < 64
    BY SMT
  <1>5. c = (c \div 4096) * 4096 + ((c \div 64) % 64) * 64 + (c % 64)
    BY SMT
  <1>6. u32tou8(c) = <<224 + x, 128 + y, 128 + z>>
    BY <1>1, <1>2, SMT
  <1>7. c = x * 4096 + y * 64 + z
    BY <1>1, <1>5, SMT
  <1>8. x < 16 /\ y < 64 /\ z < 64
    BY <1>1, <1>3, <1>4, SMT
  <1> QED
    BY <1>6, <1>7, <1>8, SMT

LEMMA EncodeFour ==
    ASSUME NEW c \in Nat, 65535 < c, c <= MaxCode
    PROVE  \E x \in Nat, y \in Nat, z \in Nat, w \in Nat :
               /\ u32tou8(c) = <<240 + x, 128 + y, 128 + z, 128 + w>>
               /\ c = x * 262144 + y * 4096 + z * 64 + w
               /\ x < 8 /\ y < 64 /\ z < 64 /\ w < 64
  <1>1. PICK x \in Nat, y \in Nat, z \in Nat, w \in Nat :
          x = c \div 262144 /\ y = (c \div 4096) % 64 /\ z = (c \div 64) % 64 /\ w = c % 64
    BY SMT
  <1>2. u32tou8(c) = <<240 + (c \div 262144), 128 + ((c \div 4096) % 64),
                       128 + ((c \div 64) % 64), 128 + (c % 64)>>
    <2>1. c <= MaxCode
      BY SMT DEF MaxCode
    <2> QED
      BY <2>1, EncodedBytes, SMT
  <1>3. c \div 262144 < 8
    BY SMT DEF MaxCode
  <1>4. (c \div 4096) % 64 < 64 /\ (c \div 64) % 64 < 64 /\ c % 64 < 64
    BY SMT
  <1>5. c = (c \div 262144) * 262144 + ((c \div 4096) % 64) * 4096
            + ((c \div 64) % 64) * 64 + (c % 64)
    BY SMT
  <1>6. u32tou8(c) = <<240 + x, 128 + y, 128 + z, 128 + w>>
    BY <1>1, <1>2, SMT
  <1>7. c = x * 262144 + y * 4096 + z * 64 + w
    BY <1>1, <1>5, SMT
  <1>8. x < 8 /\ y < 64 /\ z < 64 /\ w < 64
    BY <1>1, <1>3, <1>4, SMT
  <1> QED
    BY <1>6, <1>7, <1>8, SMT

(* What u32tou8() puts out for a code, u8tou32() reads as that code, and   *)
(* it takes all of it: encoding and decoding again loses nothing, whatever *)
(* comes after in the text (sysstring.h:212-253, 280-311).                 *)
THEOREM DecodeEncode8 ==
    ASSUME NEW c \in Nat, c <= MaxCode,
           NEW s \in Seq(Byte), NEW i \in Nat \ {0}, Begins(s, i, u32tou8(c))
    PROVE  u8tou32(s, i) = Found(c, Len(u32tou8(c)))
  <1>1. CASE c <= 127
    <2>1. u32tou8(c) = <<c>>
      BY <1>1, EncodedBytes, SMT
    <2>2. s[i] = c
      BY <2>1, SMT DEF Begins
    <2> QED
      BY <1>1, <2>1, <2>2, SMT DEF u8tou32
  <1>2. CASE 127 < c /\ c <= 2047
    <2>1. PICK x \in Nat, y \in Nat :
            /\ u32tou8(c) = <<192 + x, 128 + y>>
            /\ c = x * 64 + y
            /\ x < 32 /\ y < 64
      BY <1>2, EncodeTwo, SMT
    <2>2. Two(s, i, x, y) /\ i \in Nat
      BY <2>1, SMT DEF Begins, Two
    <2>3. u8tou32(s, i) = Found(x * 64 + y, 2)
      BY <2>1, <2>2, DecodeTwo, SMT
    <2>4. Len(u32tou8(c)) = 2
      BY <2>1, SMT
    <2> QED
      BY <2>1, <2>3, <2>4, SMT
  <1>3. CASE 2047 < c /\ c <= 65535
    <2>1. PICK x \in Nat, y \in Nat, z \in Nat :
            /\ u32tou8(c) = <<224 + x, 128 + y, 128 + z>>
            /\ c = x * 4096 + y * 64 + z
            /\ x < 16 /\ y < 64 /\ z < 64
      BY <1>3, EncodeThree, SMT
    <2>2. Three(s, i, x, y, z) /\ i \in Nat
      BY <2>1, SMT DEF Begins, Three
    <2>3. u8tou32(s, i) = Found(x * 4096 + y * 64 + z, 3)
      BY <2>1, <2>2, DecodeThree, SMT
    <2>4. Len(u32tou8(c)) = 3
      BY <2>1, SMT
    <2> QED
      BY <2>1, <2>3, <2>4, SMT
  <1>4. CASE 65535 < c
    <2>1. PICK x \in Nat, y \in Nat, z \in Nat, w \in Nat :
            /\ u32tou8(c) = <<240 + x, 128 + y, 128 + z, 128 + w>>
            /\ c = x * 262144 + y * 4096 + z * 64 + w
            /\ x < 8 /\ y < 64 /\ z < 64 /\ w < 64
      BY <1>4, EncodeFour, SMT
    <2>2. Four(s, i, x, y, z, w) /\ i \in Nat
      BY <2>1, SMT DEF Begins, Four
    <2>3. u8tou32(s, i) = Found(x * 262144 + y * 4096 + z * 64 + w, 4)
      BY <2>1, <2>2, DecodeFour, SMTT(20)
    <2>4. Len(u32tou8(c)) = 4
      BY <2>1, SMT
    <2> QED
      BY <2>1, <2>3, <2>4, SMT
  <1> QED
    BY <1>1, <1>2, <1>3, <1>4, SMT

-----------------------------------------------------------------------------
(* The same of UTF-16, for every code that is not a surrogate: u16tou32()  *)
(* reads what u32tou16() put out (sysstring.h:259-277, 318-339).  A        *)
(* surrogate is put out as it is, and may pair with what comes after.      *)
THEOREM DecodeEncode16 ==
    ASSUME NEW c \in Nat, Scalar(c),
           NEW s \in Seq(Unit), NEW i \in Nat \ {0}, Begins(s, i, u32tou16(c))
    PROVE  u16tou32(s, i) = Found(c, Len(u32tou16(c)))
  <1>1. Valid(c) = c
    BY SMT DEF Scalar, Valid, TooLarge, Invalid, MaxCode
  <1>2. CASE c < 65536
    <2>1. u32tou16(c) = <<c>>
      BY <1>1, <1>2, SMT DEF u32tou16
    <2>2. s[i] = c
      BY <2>1, SMT DEF Begins
    <2>3. ~High(c)
      BY SMT DEF Scalar, Surrogate, High
    <2> QED
      BY <2>1, <2>2, <2>3, SMT DEF u16tou32
  <1>3. CASE 65536 <= c
    <2>1. PICK x \in Nat, y \in Nat :
            /\ x = (c - 65536) \div 1024 /\ y = (c - 65536) % 1024
            /\ x < 1024 /\ y < 1024 /\ c = x * 1024 + y + 65536
      BY <1>3, SMT DEF Scalar, MaxCode
    <2>2. u32tou16(c) = <<55296 + x, 56320 + y>>
      BY <1>1, <1>3, <2>1, SMT DEF u32tou16
    <2>3. s[i] = 55296 + x /\ s[i + 1] = 56320 + y /\ i < Len(s)
      BY <2>2, SMT DEF Begins
    <2>4. High(55296 + x) /\ Low(56320 + y)
      BY <2>1, SMT DEF High, Low
    <2>5. u16tou32(s, i) = Found(x * 1024 + y + 65536, 2)
      BY <2>3, <2>4, SMT DEF u16tou32
    <2>6. x * 1024 + y + 65536 = c /\ Len(u32tou16(c)) = 2
      BY <2>1, <2>2, SMT
    <2> QED
      BY <2>5, <2>6
  <1> QED
    BY <1>2, <1>3, SMT

(* Some number of bytes is skipped.                                        *)
LEMMA SkipsSome ==
    ASSUME NEW s, NEW i \in Nat, i <= Len(s), Len(s) \in Nat
    PROVE  \A n \in 0 .. 6 : \E k \in 0 .. n : k \in Skipped(s, i, n)
  <1> DEFINE C(k) == Continued(s, i, k)
  <1>1. C(0)
    BY SMT DEF Continued
  <1>2. SUFFICES ASSUME NEW n \in 0 .. 6, \A k \in 0 .. n : k \notin Skipped(s, i, n)
                 PROVE  FALSE
    OBVIOUS
  <1>3. \A k \in 0 .. n : C(k) => k # n /\ C(k + 1)
    BY <1>2, SMT DEF Skipped
  <1> HIDE DEF C
  <1>4. n # 0 /\ C(1)
    BY <1>1, <1>3, SMT
  <1>5. n # 1 /\ C(2)
    BY <1>3, <1>4, SMT
  <1>6. n # 2 /\ C(3)
    BY <1>3, <1>4, <1>5, SMT
  <1>7. n # 3 /\ C(4)
    BY <1>3, <1>4, <1>5, <1>6, SMT
  <1>8. n # 4 /\ C(5)
    BY <1>3, <1>4, <1>5, <1>6, <1>7, SMT
  <1>9. n # 5 /\ C(6)
    BY <1>3, <1>4, <1>5, <1>6, <1>7, <1>8, SMT
  <1> QED
    BY <1>3, <1>4, <1>5, <1>6, <1>7, <1>8, <1>9, SMT

(* However a text is broken, a step of the loops in u8tou16() and          *)
(* u16tou8() takes at least one code unit and none beyond the end: the     *)
(* iterator comes to last, and never passes it (sysstring.h:345-353,       *)
(* 386-393).                                                               *)
THEOREM Advances ==
    ASSUME NEW s \in Seq(Byte), NEW i \in 1 .. Len(s)
    PROVE  u8tou32(s, i).used \in 1 .. Len(s) + 1 - i
  <1> DEFINE n == Follow(s[i])
  <1>1. n \in 1 .. 6
    BY SMT DEF Follow
  <1>2. \A k \in 0 .. n : Continued(s, i, k) => i + k <= Len(s)
    BY SMT DEF Continued
  <1>3. PICK k \in 0 .. n :
          /\ k = CHOOSE m \in Skipped(s, i, n) : TRUE
          /\ Continued(s, i, k)
    <2>1. PICK q \in 0 .. n : q \in Skipped(s, i, n)
      BY <1>1, SkipsSome, SMT
    <2>2. (CHOOSE m \in Skipped(s, i, n) : TRUE) \in Skipped(s, i, n)
      BY <2>1
    <2> QED
      BY <2>2 DEF Skipped
  <1> HIDE DEF n
  <1>4. i + k <= Len(s) /\ k \in Nat
    BY <1>1, <1>2, <1>3, SMT
  <1>5. CASE s[i] < 128 \/ Continues(s[i])
    BY <1>5, SMT DEF u8tou32, Found
  <1>6. CASE ~(s[i] < 128 \/ Continues(s[i])) /\ n < 6 /\ Continued(s, i, n)
    <2>1. u8tou32(s, i).used = 1 + n
      BY <1>6, SMT DEF u8tou32, Found, n
    <2> QED
      BY <1>1, <1>2, <1>6, <2>1, SMT
  <1>7. CASE ~(s[i] < 128 \/ Continues(s[i])) /\ ~(n < 6 /\ Continued(s, i, n))
    <2>1. u8tou32(s, i).used = 1 + k
      BY <1>3, <1>7, SMT DEF u8tou32, Found, n
    <2> QED
      BY <1>4, <2>1, SMT
  <1> QED
    BY <1>5, <1>6, <1>7

-----------------------------------------------------------------------------
(* What fits a row of the table.                                           *)
LEMMA Fits1 ==
    ASSUME NEW s, NEW i \in Nat, NEW A, i <= Len(s), Len(s) \in Nat, s[i] \in A
    PROVE  Fits(s, i, <<A>>)
  BY SMT DEF Fits

LEMMA Fits2 ==
    ASSUME NEW s, NEW i \in Nat, NEW A, NEW B, i + 1 <= Len(s),
           s[i] \in A, s[i + 1] \in B
    PROVE  Fits(s, i, <<A, B>>)
  BY SMT DEF Fits

LEMMA Fits3 ==
    ASSUME NEW s, NEW i \in Nat, NEW A, NEW B, NEW C, i + 2 <= Len(s),
           s[i] \in A, s[i + 1] \in B, s[i + 2] \in C
    PROVE  Fits(s, i, <<A, B, C>>)
  BY SMT DEF Fits

LEMMA Fits4 ==
    ASSUME NEW s, NEW i \in Nat, NEW A, NEW B, NEW C, NEW D, i + 3 <= Len(s),
           s[i] \in A, s[i + 1] \in B, s[i + 2] \in C, s[i + 3] \in D
    PROVE  Fits(s, i, <<A, B, C, D>>)
  BY SMT DEF Fits

LEMMA WellFormedCode ==
    ASSUME NEW c \in Nat, c <= MaxCode, ~Surrogate(c),
           NEW s \in Seq(Byte), NEW i \in Nat, Begins(s, i, u32tou8(c))
    PROVE  WellFormedAt(s, i)
  <1>1. CASE c <= 127
    <2>1. u32tou8(c) = <<c>>
      BY <1>1, EncodedBytes, SMT
    <2>2. s[i] = c /\ i <= Len(s) /\ Len(s) \in Nat
      BY <2>1, SMT DEF Begins
    <2> DEFINE A == 0 .. 127
    <2>3. s[i] \in A
      BY <1>1, <2>2, SMT
    <2> HIDE DEF A
    <2>4. Fits(s, i, <<A>>)
      BY <2>2, <2>3, Fits1, SMT
    <2> QED
      BY <2>4, SMT DEF WellFormedAt, Rows, A
  <1>2. CASE 127 < c /\ c <= 2047
    <2>1. PICK x \in Nat, y \in Nat :
            /\ u32tou8(c) = <<192 + x, 128 + y>>
            /\ c = x * 64 + y
            /\ x < 32 /\ y < 64
      BY <1>2, EncodeTwo, SMT
    <2>2. Two(s, i, x, y)
      BY <2>1, SMT DEF Begins, Two
    <2>3. 2 <= x
      BY <1>2, <2>1, SMT
    <2>4. /\ s[i] \in 194 .. 223
            /\ s[i + 1] \in 128 .. 191
      BY <2>1, <2>2, <2>3, SMT DEF Two
    <2>5. i + 1 <= Len(s)
      BY <2>2, SMT DEF Two
    <2>6. Fits(s, i, <<194 .. 223, 128 .. 191>>)
      BY <2>4, <2>5, Fits2, SMT
    <2> QED
      BY <2>6, SMT DEF WellFormedAt, Rows
  <1>3. CASE 2047 < c /\ c <= 65535
    <2>1. PICK x \in Nat, y \in Nat, z \in Nat :
            /\ u32tou8(c) = <<224 + x, 128 + y, 128 + z>>
            /\ c = x * 4096 + y * 64 + z
            /\ x < 16 /\ y < 64 /\ z < 64
      BY <1>3, EncodeThree, SMTT(40)
    <2>2. Three(s, i, x, y, z)
      BY <2>1, SMT DEF Begins, Three
    <2>3. /\ x = 0 => 32 <= y
          /\ x = 13 => y < 32
      BY <1>3, <2>1, SMT DEF Surrogate
    <2>4. CASE x = 0
      <3> DEFINE A == {224}
                 B == 160 .. 191
                 C == 128 .. 191
      <3>1. /\ s[i] \in A
              /\ s[i + 1] \in B
              /\ s[i + 2] \in C
        BY <2>1, <2>2, <2>3, <2>4, SMT DEF Three
      <3> HIDE DEF A, B, C
      <3>2. i + 2 <= Len(s)
        BY <2>2, SMT DEF Three
      <3>3. Fits(s, i, <<A, B, C>>)
        BY <3>1, <3>2, Fits3, SMT
      <3> QED
        BY <3>3, SMT DEF WellFormedAt, Rows, A, B, C
    <2>5. CASE x = 13
      <3> DEFINE A == {237}
                 B == 128 .. 159
                 C == 128 .. 191
      <3>1. /\ s[i] \in A
              /\ s[i + 1] \in B
              /\ s[i + 2] \in C
        BY <2>1, <2>2, <2>3, <2>5, SMT DEF Three
      <3> HIDE DEF A, B, C
      <3>2. i + 2 <= Len(s)
        BY <2>2, SMT DEF Three
      <3>3. Fits(s, i, <<A, B, C>>)
        BY <3>1, <3>2, Fits3, SMT
      <3> QED
        BY <3>3, SMT DEF WellFormedAt, Rows, A, B, C
    <2>6. CASE x # 0 /\ x < 13
      <3> DEFINE A == 225 .. 236
                 B == 128 .. 191
                 C == 128 .. 191
      <3>1. /\ s[i] \in A
              /\ s[i + 1] \in B
              /\ s[i + 2] \in C
        BY <2>1, <2>2, <2>6, SMT DEF Three
      <3> HIDE DEF A, B, C
      <3>2. i + 2 <= Len(s)
        BY <2>2, SMT DEF Three
      <3>3. Fits(s, i, <<A, B, C>>)
        BY <3>1, <3>2, Fits3, SMT
      <3> QED
        BY <3>3, SMT DEF WellFormedAt, Rows, A, B, C
    <2>7. CASE 13 < x
      <3> DEFINE A == 238 .. 239
                 B == 128 .. 191
                 C == 128 .. 191
      <3>1. /\ s[i] \in A
              /\ s[i + 1] \in B
              /\ s[i + 2] \in C
        BY <2>1, <2>2, <2>7, SMT DEF Three
      <3> HIDE DEF A, B, C
      <3>2. i + 2 <= Len(s)
        BY <2>2, SMT DEF Three
      <3>3. Fits(s, i, <<A, B, C>>)
        BY <3>1, <3>2, Fits3, SMT
      <3> QED
        BY <3>3, SMT DEF WellFormedAt, Rows, A, B, C
    <2> QED
      BY <2>1, <2>4, <2>5, <2>6, <2>7, SMT
  <1>4. CASE 65535 < c
    <2>1. PICK x \in Nat, y \in Nat, z \in Nat, w \in Nat :
            /\ u32tou8(c) = <<240 + x, 128 + y, 128 + z, 128 + w>>
            /\ c = x * 262144 + y * 4096 + z * 64 + w
            /\ x < 8 /\ y < 64 /\ z < 64 /\ w < 64
      BY <1>4, EncodeFour, SMT
    <2>2. Four(s, i, x, y, z, w)
      BY <2>1, SMT DEF Begins, Four
    <2>3. /\ x <= 4
          /\ x = 0 => 16 <= y
          /\ x = 4 => y < 16
      BY <1>4, <2>1, SMT DEF MaxCode
    <2>4. CASE x = 0
      <3> DEFINE A == {240}
                 B == 144 .. 191
                 C == 128 .. 191
                 D == 128 .. 191
      <3>1. /\ s[i] \in A
              /\ s[i + 1] \in B
              /\ s[i + 2] \in C
              /\ s[i + 3] \in D
        BY <2>1, <2>2, <2>3, <2>4, SMT DEF Four
      <3> HIDE DEF A, B, C, D
      <3>2. i + 3 <= Len(s)
        BY <2>2, SMT DEF Four
      <3>3. Fits(s, i, <<A, B, C, D>>)
        BY <3>1, <3>2, Fits4, SMT
      <3> QED
        BY <3>3, SMT DEF WellFormedAt, Rows, A, B, C, D
    <2>5. CASE x = 4
      <3> DEFINE A == {244}
                 B == 128 .. 143
                 C == 128 .. 191
                 D == 128 .. 191
      <3>1. /\ s[i] \in A
              /\ s[i + 1] \in B
              /\ s[i + 2] \in C
              /\ s[i + 3] \in D
        BY <2>1, <2>2, <2>3, <2>5, SMT DEF Four
      <3> HIDE DEF A, B, C, D
      <3>2. i + 3 <= Len(s)
        BY <2>2, SMT DEF Four
      <3>3. Fits(s, i, <<A, B, C, D>>)
        BY <3>1, <3>2, Fits4, SMT
      <3> QED
        BY <3>3, SMT DEF WellFormedAt, Rows, A, B, C, D
    <2>6. CASE x # 0 /\ x # 4
      <3> DEFINE A == 241 .. 243
                 B == 128 .. 191
                 C == 128 .. 191
                 D == 128 .. 191
      <3>1. /\ s[i] \in A
              /\ s[i + 1] \in B
              /\ s[i + 2] \in C
              /\ s[i + 3] \in D
        BY <2>1, <2>2, <2>3, <2>6, SMTT(20) DEF Four
      <3> HIDE DEF A, B, C, D
      <3>2. i + 3 <= Len(s)
        BY <2>2, SMT DEF Four
      <3>3. Fits(s, i, <<A, B, C, D>>)
        BY <3>1, <3>2, Fits4, SMT
      <3> QED
        BY <3>3, SMT DEF WellFormedAt, Rows, A, B, C, D
    <2> QED
      BY <2>4, <2>5, <2>6
  <1> QED
    BY <1>1, <1>2, <1>3, <1>4, SMT

(* Whatever code u32tou8() is given, even one that is no code point, what  *)
(* it puts out is well-formed UTF-8, if the code is not a surrogate: the   *)
(* first byte of a longer sequence is never one that a shorter would do    *)
(* for (sysstring.h:280-311, against table 3-7 of the Unicode standard).   *)
THEOREM EncodesWellFormed ==
    ASSUME NEW code \in Nat, ~Surrogate(code),
           NEW s \in Seq(Byte), NEW i \in Nat \ {0}, Begins(s, i, u32tou8(code))
    PROVE  WellFormedAt(s, i)
  <1>1. Valid(code) \in Nat /\ Valid(code) <= MaxCode /\ ~Surrogate(Valid(code))
    BY SMT DEF Valid, TooLarge, Invalid, MaxCode, Surrogate, replacement_code_point
  <1>2. Valid(Valid(code)) = Valid(code)
    BY SMT DEF Valid, TooLarge, Invalid, MaxCode, replacement_code_point
  <1>3. u32tou8(Valid(code)) = u32tou8(code)
    BY <1>2, SMT DEF u32tou8
  <1> QED
    BY <1>1, <1>3, WellFormedCode, SMT

-----------------------------------------------------------------------------
(* UniString: the conversions of strings.                                  *)
(* Induction, of which the library's theorems take a predicate: over sets. *)
LEMMA Upward ==
    ASSUME NEW n \in Nat, NEW Q, 0 \in Q, \A k \in 0 .. n - 1 : k \in Q => k + 1 \in Q
    PROVE  \A k \in 0 .. n : k \in Q
<1> DEFINE Bad == {k \in 0 .. n : k \notin Q}
<1> SUFFICES ASSUME Bad # {}
             PROVE  FALSE
  OBVIOUS
<1> HIDE DEF Bad
<1>1. Bad \subseteq Nat
  BY DEF Bad
<1>2. PICK k \in Bad : \A j \in Bad : ~(<<j, k>> \in OpToRel(<, Nat))
  BY <1>1, NatLessThanWellFounded, WFMin
<1>3. k \in 1 .. n /\ k \notin Q
  BY DEF Bad
<1>4. k - 1 \in 0 .. n - 1 /\ k - 1 \in Nat /\ k \in Nat /\ k - 1 < k /\ (k - 1) + 1 = k
  BY <1>3
<1>5. k - 1 \notin Bad
  BY <1>2, <1>4 DEF OpToRel
<1>6. k - 1 \in Q
  BY <1>3, <1>5 DEF Bad
<1> QED
  BY <1>3, <1>4, <1>6

LEMMA Backward ==
    ASSUME NEW n \in Nat, NEW Q, n + 1 \in Q,
           \A i \in 1 .. n : (\A j \in i + 1 .. n + 1 : j \in Q) => i \in Q
    PROVE  \A i \in 1 .. n + 1 : i \in Q
<1> DEFINE T == {k \in 0 .. n : \A j \in n + 1 - k .. n + 1 : j \in Q}
<1>1. 0 \in T
  OBVIOUS
<1>2. \A k \in 0 .. n - 1 : k \in T => k + 1 \in T
  <2> SUFFICES ASSUME NEW k \in 0 .. n - 1, k \in T
               PROVE  k + 1 \in T
    OBVIOUS
  <2>1. PICK i \in 1 .. n : i = n - k
    OBVIOUS
  <2>2. \A j \in i + 1 .. n + 1 : j \in Q
    BY <2>1
  <2>3. i \in Q
    BY <2>2
  <2>4. \A j \in n + 1 - (k + 1) .. n + 1 : j = i \/ j \in i + 1 .. n + 1
    BY <2>1
  <2> QED
    BY <2>2, <2>3, <2>4
<1> HIDE DEF T
<1>3. \A k \in 0 .. n : k \in T
  BY <1>1, <1>2, Upward
<1>4. n \in T /\ n + 1 - n = 1
  BY <1>3
<1> QED
  BY <1>4 DEF T

-----------------------------------------------------------------------------
(* A text is read from each position by the character there and what is    *)
(* read behind it: functions that are defined so exist.                    *)
Join(c, x) == <<c>> \o x

Along(f, n, C, U) ==
    f = [i \in 1 .. n + 1 |-> IF i > n THEN <<>> ELSE Join(C[i], f[i + U[i]])]

LEMMA AlongExists ==
    ASSUME NEW n \in Nat, NEW C, NEW U, \A i \in 1 .. n : U[i] \in 1 .. n + 1 - i
    PROVE  \E f : Along(f, n, C, U)
<1> DEFINE Part(f, k) == f = [i \in n + 1 - k .. n + 1 |->
                          IF i > n THEN <<>> ELSE Join(C[i], f[i + U[i]])]
           T == {k \in 0 .. n : \E f : Part(f, k)}
<1>1. 0 \in T
  <2> DEFINE f == [i \in n + 1 .. n + 1 |-> <<>>]
  <2>1. f = [i \in n + 1 - 0 .. n + 1 |-> IF i > n THEN <<>> ELSE Join(C[i], f[i + U[i]])]
    OBVIOUS
  <2> HIDE DEF f
  <2>2. Part(f, 0)
    BY <2>1
  <2> HIDE DEF Part
  <2> QED
    BY <2>2
<1>2. \A k \in 0 .. n - 1 : k \in T => k + 1 \in T
  <2> SUFFICES ASSUME NEW k \in 0 .. n - 1, k \in T
               PROVE  k + 1 \in T
    OBVIOUS
  <2>1. PICK f : Part(f, k)
    OBVIOUS
  <2> DEFINE g == [i \in n - k .. n + 1 |->
                      IF i = n - k THEN Join(C[i], f[i + U[i]]) ELSE f[i]]
             h == [i \in n - k .. n + 1 |-> IF i > n THEN <<>> ELSE Join(C[i], g[i + U[i]])]
  <2>2. \A i \in n - k .. n + 1 : g[i] = IF i > n THEN <<>> ELSE Join(C[i], g[i + U[i]])
    <3> SUFFICES ASSUME NEW i \in n - k .. n + 1
                 PROVE  g[i] = IF i > n THEN <<>> ELSE Join(C[i], g[i + U[i]])
      OBVIOUS
    <3>1. CASE i = n - k
      <4>1. i + U[i] \in n + 1 - k .. n + 1
        BY <3>1
      <4>2. g[i + U[i]] = f[i + U[i]]
        BY <4>1
      <4> QED
        BY <3>1, <4>2
    <3>2. CASE i # n - k /\ i <= n
      <4>1. i \in 1 .. n /\ i + U[i] \in n + 1 - k .. n + 1
        BY <3>2
      <4>2. g[i] = f[i]
        BY <3>2
      <4>4. g[i + U[i]] = f[i + U[i]]
        <5>1. i + U[i] \in n - k .. n + 1 /\ i + U[i] # n - k
          BY <4>1
        <5> QED
          BY <5>1
      <4>3. f[i] = Join(C[i], f[i + U[i]])
        <5>1. i \in n + 1 - k .. n + 1 /\ ~(i > n)
          BY <3>2
        <5> QED
          BY <2>1, <5>1
      <4> QED
        BY <3>2, <4>2, <4>3, <4>4
    <3>3. CASE i > n
      <4>1. g[i] = f[i] /\ f[i] = <<>>
        BY <2>1, <3>3
      <4> QED
        BY <3>3, <4>1
    <3> QED
      BY <3>1, <3>2, <3>3
  <2>3. g = h
    <3>1. \A i \in n - k .. n + 1 : g[i] = h[i]
      BY <2>2
    <3>2. DOMAIN g = n - k .. n + 1 /\ DOMAIN h = n - k .. n + 1
      OBVIOUS
    <3> QED
      BY <3>1, <3>2
  <2>4. n + 1 - (k + 1) = n - k
    OBVIOUS
  <2>5. Part(g, k + 1)
    BY <2>3, <2>4
  <2> HIDE DEF Part, g
  <2>6. k + 1 \in 0 .. n
    OBVIOUS
  <2> QED
    BY <2>5, <2>6
<1> HIDE DEF T
<1>3. \A k \in 0 .. n : k \in T
  BY <1>1, <1>2, Upward
<1>4. n \in T /\ n + 1 - n = 1
  BY <1>3
<1> QED
  BY <1>4 DEF T, Along

LEMMA AlongIs ==
    ASSUME NEW n \in Nat, NEW C, NEW U, NEW f, Along(f, n, C, U)
    PROVE  f[n + 1] = <<>> /\ \A i \in 1 .. n : f[i] = Join(C[i], f[i + U[i]])
  BY DEF Along

(* What Codes() is: f[1], where f[i] are the codes from s[i].              *)
Reads8(f, s, C, U) ==
    /\ Along(f, Len(s), C, U) /\ Codes(s, u8tou32) = f[1]
    /\ \A i \in 1 .. Len(s) : /\ C[i] = u8tou32(s, i).code /\ U[i] = u8tou32(s, i).used
                              /\ U[i] \in 1 .. Len(s) + 1 - i

LEMMA Reading8 ==
    ASSUME NEW s \in Seq(Byte)
    PROVE  \E f, C, U : Reads8(f, s, C, U)
<1>a. PICK C : C = [i \in 1 .. Len(s) |-> u8tou32(s, i).code]
  OBVIOUS
<1>b. PICK U : U = [i \in 1 .. Len(s) |-> u8tou32(s, i).used]
  OBVIOUS
<1>1. \A i \in 1 .. Len(s) : U[i] \in 1 .. Len(s) + 1 - i
  BY <1>b, Advances
<1>2. PICK f : Along(f, Len(s), C, U)
  <2>1. Len(s) \in Nat
    OBVIOUS
  <2> QED
    BY <1>1, <2>1, AlongExists
<1>3. \A g : Along(g, Len(s), C, U) <=>
             g = [i \in 1 .. Len(s) + 1 |->
                             IF i > Len(s) THEN <<>>
                             ELSE Join(u8tou32(s, i).code, g[i + u8tou32(s, i).used])]
  <2> SUFFICES ASSUME NEW g
               PROVE  Along(g, Len(s), C, U) <=>
                      g = [i \in 1 .. Len(s) + 1 |->
                             IF i > Len(s) THEN <<>>
                             ELSE Join(u8tou32(s, i).code, g[i + u8tou32(s, i).used])]
    OBVIOUS
  <2>1. \A i \in 1 .. Len(s) + 1 : ~(i > Len(s)) => C[i] = u8tou32(s, i).code /\ U[i] = u8tou32(s, i).used
    BY <1>a, <1>b
  <2>2. \A i \in 1 .. Len(s) + 1 : (IF i > Len(s) THEN <<>> ELSE Join(C[i], g[i + U[i]]))
                       = (IF i > Len(s) THEN <<>>
                             ELSE Join(u8tou32(s, i).code, g[i + u8tou32(s, i).used]))
    BY <2>1
  <2> QED
    BY <2>2 DEF Along
<1> DEFINE from[i \in 1 .. Len(s) + 1] ==
            IF i > Len(s) THEN <<>>
            ELSE Join(u8tou32(s, i).code, from[i + u8tou32(s, i).used])
<1>4. from = [i \in 1 .. Len(s) + 1 |->
                             IF i > Len(s) THEN <<>>
                             ELSE Join(u8tou32(s, i).code, from[i + u8tou32(s, i).used])]
  BY <1>2, <1>3
<1>5. Codes(s, u8tou32) = from[1]
  BY DEF Codes, Join
<1> HIDE DEF from
<1>6. Along(from, Len(s), C, U)
  BY <1>3, <1>4
<1>7. \A i \in 1 .. Len(s) : C[i] = u8tou32(s, i).code /\ U[i] = u8tou32(s, i).used
  BY <1>a, <1>b
<1>8. Reads8(from, s, C, U)
  BY <1>1, <1>5, <1>6, <1>7 DEF Reads8
<1> QED
  BY <1>8

Reads16(f, s, C, U) ==
    /\ Along(f, Len(s), C, U) /\ Codes(s, u16tou32) = f[1]
    /\ \A i \in 1 .. Len(s) : /\ C[i] = u16tou32(s, i).code /\ U[i] = u16tou32(s, i).used
                              /\ U[i] \in 1 .. Len(s) + 1 - i

LEMMA Reading16 ==
    ASSUME NEW s \in Seq(Unit)
    PROVE  \E f, C, U : Reads16(f, s, C, U)
<1>a. PICK C : C = [i \in 1 .. Len(s) |-> u16tou32(s, i).code]
  OBVIOUS
<1>b. PICK U : U = [i \in 1 .. Len(s) |-> u16tou32(s, i).used]
  OBVIOUS
<1>1. \A i \in 1 .. Len(s) : U[i] \in 1 .. Len(s) + 1 - i
  BY <1>b DEF u16tou32, Found
<1>2. PICK f : Along(f, Len(s), C, U)
  <2>1. Len(s) \in Nat
    OBVIOUS
  <2> QED
    BY <1>1, <2>1, AlongExists
<1>3. \A g : Along(g, Len(s), C, U) <=>
             g = [i \in 1 .. Len(s) + 1 |->
                             IF i > Len(s) THEN <<>>
                             ELSE Join(u16tou32(s, i).code, g[i + u16tou32(s, i).used])]
  <2> SUFFICES ASSUME NEW g
               PROVE  Along(g, Len(s), C, U) <=>
                      g = [i \in 1 .. Len(s) + 1 |->
                             IF i > Len(s) THEN <<>>
                             ELSE Join(u16tou32(s, i).code, g[i + u16tou32(s, i).used])]
    OBVIOUS
  <2>1. \A i \in 1 .. Len(s) + 1 : ~(i > Len(s)) => C[i] = u16tou32(s, i).code /\ U[i] = u16tou32(s, i).used
    BY <1>a, <1>b
  <2>2. \A i \in 1 .. Len(s) + 1 : (IF i > Len(s) THEN <<>> ELSE Join(C[i], g[i + U[i]]))
                       = (IF i > Len(s) THEN <<>>
                             ELSE Join(u16tou32(s, i).code, g[i + u16tou32(s, i).used]))
    BY <2>1
  <2> QED
    BY <2>2 DEF Along
<1> DEFINE from[i \in 1 .. Len(s) + 1] ==
            IF i > Len(s) THEN <<>>
            ELSE Join(u16tou32(s, i).code, from[i + u16tou32(s, i).used])
<1>4. from = [i \in 1 .. Len(s) + 1 |->
                             IF i > Len(s) THEN <<>>
                             ELSE Join(u16tou32(s, i).code, from[i + u16tou32(s, i).used])]
  BY <1>2, <1>3
<1>5. Codes(s, u16tou32) = from[1]
  BY DEF Codes, Join
<1> HIDE DEF from
<1>6. Along(from, Len(s), C, U)
  BY <1>3, <1>4
<1>7. \A i \in 1 .. Len(s) : C[i] = u16tou32(s, i).code /\ U[i] = u16tou32(s, i).used
  BY <1>a, <1>b
<1>8. Reads16(from, s, C, U)
  BY <1>1, <1>5, <1>6, <1>7 DEF Reads16
<1> QED
  BY <1>8

-----------------------------------------------------------------------------
(* What FlattenSeq() is: f[n], where f[i] are the first i sequences.       *)
Flat(f, seqs) ==
    f = [i \in 1 .. Len(seqs) |-> IF i = 1 THEN seqs[i] ELSE f[i - 1] \o seqs[i]]

Glue(x, y) == x \o y

LEMMA GlueIs ==
    ASSUME NEW S, NEW x \in Seq(S), NEW y \in Seq(S)
    PROVE  Glue(x, y) \in Seq(S) /\ \A z \in Seq(S) : Glue(Glue(x, y), z) = Glue(x, Glue(y, z))
<1>1. (x \o y) \in Seq(S)
  BY ConcatProperties
<1>2. \A z \in Seq(S) : (x \o y) \o z = x \o (y \o z)
  BY ConcatAssociative
<1> QED
  BY <1>1, <1>2 DEF Glue

LEMMA FlatExists ==
    ASSUME NEW n \in Nat, NEW seqs
    PROVE  \E f : f = [i \in 1 .. n |-> IF i = 1 THEN seqs[i] ELSE f[i - 1] \o seqs[i]]
<1> DEFINE Part(f, k) == f = [i \in 1 .. k |-> IF i = 1 THEN seqs[i] ELSE Glue(f[i - 1], seqs[i])]
           T == {k \in 0 .. n : \E f : Part(f, k)}
<1>1. 0 \in T
  <2> DEFINE f == [i \in 1 .. 0 |-> <<>>]
  <2>1. f = [i \in 1 .. 0 |-> IF i = 1 THEN seqs[i] ELSE Glue(f[i - 1], seqs[i])]
    OBVIOUS
  <2> HIDE DEF f
  <2>2. Part(f, 0)
    BY <2>1
  <2> HIDE DEF Part
  <2> QED
    BY <2>2
<1>2. \A k \in 0 .. n - 1 : k \in T => k + 1 \in T
  <2> SUFFICES ASSUME NEW k \in 0 .. n - 1, k \in T
               PROVE  k + 1 \in T
    OBVIOUS
  <2>1. PICK f : Part(f, k)
    OBVIOUS
  <2> DEFINE g == [i \in 1 .. k + 1 |->
                      IF i <= k THEN f[i] ELSE IF i = 1 THEN seqs[i] ELSE Glue(f[i - 1], seqs[i])]
             h == [i \in 1 .. k + 1 |-> IF i = 1 THEN seqs[i] ELSE Glue(g[i - 1], seqs[i])]
  <2>2. \A i \in 1 .. k + 1 : g[i] = IF i = 1 THEN seqs[i] ELSE Glue(g[i - 1], seqs[i])
    <3> SUFFICES ASSUME NEW i \in 1 .. k + 1
                 PROVE  g[i] = IF i = 1 THEN seqs[i] ELSE Glue(g[i - 1], seqs[i])
      OBVIOUS
    <3>1. CASE i = 1
      <4>1. CASE k = 0
        BY <3>1, <4>1
      <4>2. CASE k >= 1
        <5>1. g[i] = f[i] /\ f[i] = seqs[i]
          BY <2>1, <3>1, <4>2
        <5> QED
          BY <3>1, <5>1
      <4> QED
        BY <4>1, <4>2
    <3>2. CASE i # 1
      <4>1. i - 1 \in 1 .. k /\ g[i - 1] = f[i - 1]
        BY <3>2
      <4>2. g[i] = Glue(f[i - 1], seqs[i])
        BY <2>1, <3>2
      <4> QED
        BY <3>2, <4>1, <4>2
    <3> QED
      BY <3>1, <3>2
  <2>3. g = h
    <3>1. \A i \in 1 .. k + 1 : g[i] = h[i]
      BY <2>2
    <3>2. DOMAIN g = 1 .. k + 1 /\ DOMAIN h = 1 .. k + 1
      OBVIOUS
    <3> QED
      BY <3>1, <3>2
  <2>5. Part(g, k + 1)
    BY <2>3
  <2> HIDE DEF Part, g
  <2>6. k + 1 \in 0 .. n
    OBVIOUS
  <2> QED
    BY <2>5, <2>6
<1> HIDE DEF T
<1>3. \A k \in 0 .. n : k \in T
  BY <1>1, <1>2, Upward
<1>4. n \in T
  BY <1>3
<1> QED
  BY <1>4 DEF T, Glue

LEMMA Flattening ==
    ASSUME NEW seqs, Len(seqs) \in Nat, Len(seqs) # 0
    PROVE  \E f : /\ FlattenSeq(seqs) = f[Len(seqs)] /\ f[1] = seqs[1]
                  /\ \A i \in 2 .. Len(seqs) : f[i] = Glue(f[i - 1], seqs[i])
<1>1. \E f : Flat(f, seqs)
  BY FlatExists DEF Flat
<1> DEFINE flatten[i \in 1 .. Len(seqs)] ==
              IF i = 1 THEN seqs[i] ELSE flatten[i - 1] \o seqs[i]
<1>2. Flat(flatten, seqs)
  BY <1>1 DEF Flat
<1>3. FlattenSeq(seqs) = flatten[Len(seqs)]
  BY DEF FlattenSeq
<1> HIDE DEF flatten
<1>4. flatten = [i \in 1 .. Len(seqs) |-> IF i = 1 THEN seqs[i] ELSE Glue(flatten[i - 1], seqs[i])]
  BY <1>2 DEF Flat, Glue
<1>5. flatten[1] = seqs[1] /\ \A i \in 2 .. Len(seqs) : flatten[i] = Glue(flatten[i - 1], seqs[i])
  BY <1>4
<1> QED
  BY <1>3, <1>5

LEMMA JoinIs ==
    ASSUME NEW S, NEW c \in S, NEW x \in Seq(S)
    PROVE  /\ Join(c, x) \in Seq(S) /\ Len(Join(c, x)) = Len(x) + 1
           /\ Join(c, x)[1] = c /\ \A i \in 1 .. Len(x) : Join(c, x)[i + 1] = x[i]
<1>1. PICK a \in Seq(S) : a = <<c>> /\ Len(a) = 1 /\ a[1] = c
  <2>1. <<c>> \in Seq(S) /\ Len(<<c>>) = 1 /\ <<c>>[1] = c
    OBVIOUS
  <2> QED
    BY <2>1
<1>2. /\ (a \o x) \in Seq(S) /\ Len(a \o x) = Len(a) + Len(x)
      /\ \A i \in 1 .. Len(a) + Len(x) : (a \o x)[i] = IF i <= Len(a) THEN a[i] ELSE x[i - Len(a)]
  BY ConcatProperties
<1>3. Join(c, x) = a \o x
  BY <1>1 DEF Join
<1>4. \A i \in 1 .. Len(x) : (i + 1) - Len(a) = i /\ ~(i + 1 <= Len(a)) /\ i + 1 \in 1 .. Len(a) + Len(x)
  BY <1>1
<1>5. 1 \in 1 .. Len(a) + Len(x) /\ 1 <= Len(a)
  BY <1>1
<1> QED
  BY <1>1, <1>2, <1>3, <1>4, <1>5

LEMMA FlattenIn ==
    ASSUME NEW S, NEW r \in Seq(Seq(S))
    PROVE  FlattenSeq(r) \in Seq(S)
<1>1. CASE Len(r) = 0
  BY <1>1 DEF FlattenSeq
<1>2. CASE Len(r) # 0
  <2>1. PICK f : /\ FlattenSeq(r) = f[Len(r)] /\ f[1] = r[1]
                 /\ \A i \in 2 .. Len(r) : f[i] = Glue(f[i - 1], r[i])
    BY <1>2, Flattening
  <2> DEFINE Q == {k \in Nat : k + 1 \in 1 .. Len(r) /\ f[k + 1] \in Seq(S)}
  <2>2. 0 \in Q
    BY <1>2, <2>1
  <2>3. \A k \in 0 .. Len(r) - 1 - 1 : k \in Q => k + 1 \in Q
    <3> SUFFICES ASSUME NEW k \in 0 .. Len(r) - 1 - 1, k \in Q
                 PROVE  k + 1 \in Q
      OBVIOUS
    <3>1. PICK j \in 2 .. Len(r) : j = k + 2 /\ j - 1 = k + 1
      OBVIOUS
    <3>2. f[j] = Glue(f[k + 1], r[j]) /\ f[k + 1] \in Seq(S) /\ r[j] \in Seq(S)
      BY <2>1, <3>1
    <3>3. f[j] \in Seq(S)
      BY <3>2, GlueIs
    <3>4. (k + 1) + 1 = j
      BY <3>1
    <3> QED
      BY <3>3, <3>4
  <2> HIDE DEF Q
  <2>4. Len(r) - 1 \in Nat
    BY <1>2
  <2>5. \A k \in 0 .. Len(r) - 1 : k \in Q
    BY <2>2, <2>3, <2>4, Upward
  <2>6. Len(r) - 1 \in Q /\ (Len(r) - 1) + 1 = Len(r)
    BY <2>4, <2>5
  <2> QED
    BY <2>1, <2>6 DEF Q
<1> QED
  BY <1>1, <1>2

LEMMA FlattenJoin ==
    ASSUME NEW S, NEW a \in Seq(S), NEW r \in Seq(Seq(S))
    PROVE  FlattenSeq(Join(a, r)) = a \o FlattenSeq(r)
<1>1. PICK t \in Seq(Seq(S)) :
          /\ t = Join(a, r) /\ Len(t) = Len(r) + 1
          /\ t[1] = a /\ \A i \in 1 .. Len(r) : t[i + 1] = r[i]
  BY JoinIs
<1>2. Len(t) \in Nat /\ Len(t) # 0
  BY <1>1
<1>3. PICK g : /\ FlattenSeq(t) = g[Len(t)] /\ g[1] = t[1]
               /\ \A i \in 2 .. Len(t) : g[i] = Glue(g[i - 1], t[i])
  BY <1>2, Flattening
<1>4. CASE Len(r) = 0
  <2>1. FlattenSeq(t) = a
    BY <1>1, <1>3, <1>4
  <2>2. FlattenSeq(r) = <<>>
    BY <1>4 DEF FlattenSeq
  <2>3. a \o <<>> = a
    BY ConcatEmptySeq
  <2> QED
    BY <1>1, <2>1, <2>2, <2>3
<1>5. CASE Len(r) # 0
  <2>1. PICK f : /\ FlattenSeq(r) = f[Len(r)] /\ f[1] = r[1]
                 /\ \A i \in 2 .. Len(r) : f[i] = Glue(f[i - 1], r[i])
    <3>1. Len(r) \in Nat /\ Len(r) # 0
      BY <1>5
    <3> QED
      BY <3>1, Flattening, Zenon
  <2> DEFINE Q == {k \in Nat : k + 1 \in 1 .. Len(r) /\ f[k + 1] \in Seq(S)
                               /\ g[k + 2] = Glue(a, f[k + 1])}
  <2>2. 0 \in Q
    <3>1. f[1] = r[1] /\ r[1] \in Seq(S)
      BY <1>5, <2>1
    <3>2. 1 \in 1 .. Len(r) /\ 2 \in 2 .. Len(t) /\ 2 - 1 = 1 /\ 1 + 1 = 2
      BY <1>1, <1>5
    <3>3. g[2] = Glue(g[1], t[2]) /\ t[2] = r[1]
      BY <1>1, <1>3, <3>2
    <3>4. 0 + 1 = 1 /\ 0 + 2 = 2 /\ 0 \in Nat
      OBVIOUS
    <3>5. g[2] = Glue(a, f[1])
      BY <1>1, <1>3, <3>1, <3>3
    <3> QED
      BY <3>1, <3>2, <3>4, <3>5
  <2>3. \A k \in 0 .. Len(r) - 1 - 1 : k \in Q => k + 1 \in Q
    <3> SUFFICES ASSUME NEW k \in 0 .. Len(r) - 1 - 1, k \in Q
                 PROVE  k + 1 \in Q
      OBVIOUS
    <3>1. PICK j \in 2 .. Len(r) : j = k + 2 /\ j - 1 = k + 1
      OBVIOUS
    <3>2. f[j] = Glue(f[k + 1], r[j]) /\ f[k + 1] \in Seq(S) /\ r[j] \in Seq(S)
      BY <2>1, <3>1
    <3>3. f[j] \in Seq(S)
      BY <3>2, GlueIs
    <3>4. j + 1 \in 2 .. Len(t) /\ (j + 1) - 1 = k + 2 /\ j \in 1 .. Len(r)
      BY <1>1, <3>1
    <3>5. g[j + 1] = Glue(g[k + 2], t[j + 1]) /\ t[j + 1] = r[j]
      BY <1>1, <1>3, <3>4
    <3>6. g[k + 2] = Glue(a, f[k + 1])
      OBVIOUS
    <3>7. Glue(Glue(a, f[k + 1]), r[j]) = Glue(a, Glue(f[k + 1], r[j]))
      BY <3>2, GlueIs
    <3>8. g[j + 1] = Glue(a, f[j])
      BY <3>2, <3>5, <3>6, <3>7
    <3>9. (k + 1) + 1 = j /\ (k + 1) + 2 = j + 1 /\ k + 1 \in Nat
      BY <3>1
    <3> QED
      BY <3>3, <3>4, <3>8, <3>9
  <2> HIDE DEF Q
  <2>4. Len(r) - 1 \in Nat
    BY <1>5
  <2>5. \A k \in 0 .. Len(r) - 1 : k \in Q
    BY <2>2, <2>3, <2>4, Upward
  <2>6. Len(r) - 1 \in Q /\ (Len(r) - 1) + 1 = Len(r) /\ (Len(r) - 1) + 2 = Len(t)
    BY <1>1, <2>4, <2>5
  <2>7. g[Len(t)] = Glue(a, f[Len(r)])
    BY <2>6 DEF Q
  <2> QED
    BY <1>1, <1>3, <2>1, <2>7 DEF Glue
<1> QED
  BY <1>4, <1>5

-----------------------------------------------------------------------------
(* What P makes of codes, one after the other.                             *)
To(G, T) == [G -> T]
Maps(G, S) == To(G, Seq(S))
Each(P, cs) == [k \in DOMAIN cs |-> P[cs[k]]]
Enc(P, cs) == FlattenSeq(Each(P, cs))

LEMMA SameSeq ==
    ASSUME NEW S, NEW a \in Seq(S), NEW b \in Seq(S), Len(a) = Len(b),
           \A i \in 1 .. Len(a) : a[i] = b[i]
    PROVE  a = b
  OBVIOUS

LEMMA EachIs ==
    ASSUME NEW T, NEW G, NEW P \in To(G, T), NEW cs \in Seq(G)
    PROVE  /\ Each(P, cs) \in Seq(T) /\ Len(Each(P, cs)) = Len(cs)
           /\ \A k \in 1 .. Len(cs) : Each(P, cs)[k] = P[cs[k]]
<1>1. \A k \in 1 .. Len(cs) : P[cs[k]] \in T
  BY DEF To
<1>2. Each(P, cs) = [k \in 1 .. Len(cs) |-> P[cs[k]]]
  BY DEF Each
<1>3. Each(P, cs) \in [1 .. Len(cs) -> T]
  BY <1>1, <1>2
<1>4. Len(cs) \in Nat
  OBVIOUS
<1>5. Each(P, cs) \in Seq(T) /\ Len(Each(P, cs)) = Len(cs)
  <2>0. \A n \in Nat : \A A, f : f \in [1 .. n -> A] => f \in Seq(A) /\ Len(f) = n
    OBVIOUS
  <2>1. \A A, f : f \in [1 .. Len(cs) -> A] => f \in Seq(A) /\ Len(f) = Len(cs)
    BY <1>4, <2>0, Zenon
  <2> QED
    BY <1>3, <2>1, Zenon
<1> QED
  BY <1>2, <1>5

LEMMA EachSeq ==
    ASSUME NEW S, NEW G, NEW P \in Maps(G, S), NEW cs \in Seq(G)
    PROVE  /\ Each(P, cs) \in Seq(Seq(S)) /\ Len(Each(P, cs)) = Len(cs)
           /\ \A k \in 1 .. Len(cs) : Each(P, cs)[k] = P[cs[k]]
<1>1. PICK T : T = Seq(S)
  OBVIOUS
<1>2. P \in To(G, T)
  BY <1>1, Zenon DEF Maps
<1>3. /\ Each(P, cs) \in Seq(T) /\ Len(Each(P, cs)) = Len(cs)
      /\ \A k \in 1 .. Len(cs) : Each(P, cs)[k] = P[cs[k]]
  BY <1>2, EachIs
<1> QED
  BY <1>1, <1>3, Zenon

LEMMA EncIn ==
    ASSUME NEW S, NEW G, NEW P \in Maps(G, S), NEW cs \in Seq(G)
    PROVE  Enc(P, cs) \in Seq(S)
<1>1. Each(P, cs) \in Seq(Seq(S))
  BY EachSeq
<1> QED
  BY <1>1, FlattenIn DEF Enc

LEMMA EncEmpty ==
    ASSUME NEW S, NEW G, NEW P \in Maps(G, S), NEW cs \in Seq(G), Len(cs) = 0
    PROVE  Enc(P, cs) = <<>>
<1>1. Each(P, cs) \in Seq(Seq(S)) /\ Len(Each(P, cs)) = 0
  <2>1. \A x \in Seq(G) : Each(P, x) \in Seq(Seq(S)) /\ Len(Each(P, x)) = Len(x)
    BY EachSeq
  <2> QED
    BY <2>1, Zenon
<1>2. FlattenSeq(Each(P, cs)) = Each(P, cs)
  BY <1>1 DEF FlattenSeq
<1>3. Each(P, cs) = <<>>
  BY <1>1
<1> QED
  BY <1>2, <1>3 DEF Enc

LEMMA EncJoin ==
    ASSUME NEW S, NEW G, NEW P \in Maps(G, S), NEW c \in G, NEW cs \in Seq(G)
    PROVE  Enc(P, Join(c, cs)) = Glue(P[c], Enc(P, cs))
<1>1. PICK t \in Seq(G) : /\ t = Join(c, cs) /\ Len(t) = Len(cs) + 1
                          /\ t[1] = c /\ \A i \in 1 .. Len(cs) : t[i + 1] = cs[i]
  BY JoinIs
<1>2. P[c] \in Seq(S)
  BY DEF Maps, To
<1>3. PICK r \in Seq(Seq(S)) : /\ r = Each(P, cs) /\ Len(r) = Len(cs)
                               /\ \A k \in 1 .. Len(cs) : r[k] = P[cs[k]]
  <2>1. /\ Each(P, cs) \in Seq(Seq(S)) /\ Len(Each(P, cs)) = Len(cs)
        /\ \A k \in 1 .. Len(cs) : Each(P, cs)[k] = P[cs[k]]
    BY EachSeq
  <2> QED
    BY <2>1, Zenon
<1>4. PICK u \in Seq(Seq(S)) : /\ u = Each(P, t) /\ Len(u) = Len(t)
                               /\ \A k \in 1 .. Len(t) : u[k] = P[t[k]]
  <2>1. /\ Each(P, t) \in Seq(Seq(S)) /\ Len(Each(P, t)) = Len(t)
        /\ \A k \in 1 .. Len(t) : Each(P, t)[k] = P[t[k]]
    BY <1>1, EachSeq
  <2> QED
    BY <2>1, Zenon
<1>5. PICK v \in Seq(Seq(S)) : /\ v = Join(P[c], r) /\ Len(v) = Len(r) + 1
                               /\ v[1] = P[c] /\ \A i \in 1 .. Len(r) : v[i + 1] = r[i]
  <2>1. PICK a \in Seq(S) : a = P[c]
    BY <1>2
  <2>2. /\ Join(a, r) \in Seq(Seq(S)) /\ Len(Join(a, r)) = Len(r) + 1
        /\ Join(a, r)[1] = a /\ \A i \in 1 .. Len(r) : Join(a, r)[i + 1] = r[i]
    <3>1. a \in Seq(S)
      BY <2>1
    <3> QED
      BY <3>1, JoinIs
  <2> QED
    BY <2>1, <2>2
<1>6. u = v
  <2>1. \A i \in 1 .. Len(u) : u[i] = v[i]
    <3> SUFFICES ASSUME NEW i \in 1 .. Len(u)
                 PROVE  u[i] = v[i]
      OBVIOUS
    <3>1. CASE i = 1
      BY <1>1, <1>4, <1>5, <3>1
    <3>2. CASE i # 1
      <4>1. PICK j \in 1 .. Len(cs) : i = j + 1
        <5>1. i - 1 \in 1 .. Len(cs) /\ i = (i - 1) + 1
          BY <1>1, <1>4, <3>2
        <5> QED
          BY <5>1
      <4>2. u[i] = P[t[i]] /\ t[i] = cs[j]
        BY <1>1, <1>4, <4>1
      <4>3. v[i] = r[j] /\ r[j] = P[cs[j]]
        BY <1>3, <1>5, <4>1
      <4> QED
        BY <4>2, <4>3
    <3> QED
      BY <3>1, <3>2
  <2>2. Len(u) = Len(v)
    BY <1>1, <1>3, <1>4, <1>5
  <2> QED
    BY <2>1, <2>2, SameSeq
<1>7. FlattenSeq(Join(P[c], r)) = P[c] \o FlattenSeq(r)
  BY <1>2, FlattenJoin
<1> QED
  BY <1>1, <1>3, <1>4, <1>5, <1>6, <1>7 DEF Enc, Glue

(* The rest of a text: a character is what is before the rest behind it.   *)
Rest(s, i) == SubSeq(s, i, Len(s))

LEMMA RestIs ==
    ASSUME NEW S, NEW s \in Seq(S), NEW i \in 1 .. Len(s) + 1
    PROVE  /\ Rest(s, i) \in Seq(S) /\ Len(Rest(s, i)) = Len(s) + 1 - i
           /\ \A j \in 1 .. Len(s) + 1 - i : Rest(s, i)[j] = s[i + j - 1]
  BY DEF Rest

(* If what P makes of a code is at s[i] the rest of it follows.            *)
LEMMA RestSplits ==
    ASSUME NEW S, NEW s \in Seq(S), NEW i \in 1 .. Len(s) + 1,
           NEW a \in Seq(S), NEW b \in Seq(S), Rest(s, i) = Glue(a, b)
    PROVE  /\ Begins(s, i, a) /\ i + Len(a) \in 1 .. Len(s) + 1
           /\ Rest(s, i + Len(a)) = b
<1>1. PICK r \in Seq(S) : /\ r = Rest(s, i) /\ Len(r) = Len(s) + 1 - i
                          /\ \A j \in 1 .. Len(s) + 1 - i : r[j] = s[i + j - 1]
  <2>1. PICK q \in Seq(S) : q = s
    OBVIOUS
  <2>2. PICK k \in 1 .. Len(q) + 1 : k = i
    BY <2>1
  <2>3. /\ Rest(q, k) \in Seq(S) /\ Len(Rest(q, k)) = Len(q) + 1 - k
        /\ \A j \in 1 .. Len(q) + 1 - k : Rest(q, k)[j] = q[k + j - 1]
    <3>1. k \in 1 .. Len(q) + 1
      BY <2>2
    <3> QED
      BY <3>1, RestIs, Zenon
  <2> QED
    BY <2>1, <2>2, <2>3
<1>2. /\ Len(r) = Len(a) + Len(b)
      /\ \A j \in 1 .. Len(a) + Len(b) : r[j] = IF j <= Len(a) THEN a[j] ELSE b[j - Len(a)]
  <2>1. r = a \o b
    BY <1>1 DEF Glue
  <2>2. Len(a \o b) = Len(a) + Len(b)
    BY ConcatProperties
  <2>3. \A j \in 1 .. Len(a) + Len(b) : (a \o b)[j] = IF j <= Len(a) THEN a[j] ELSE b[j - Len(a)]
    BY ConcatProperties
  <2> QED
    BY <2>1, <2>2, <2>3
<1>3. i + Len(a) \in 1 .. Len(s) + 1
  BY <1>1, <1>2
<1>4. Begins(s, i, a)
  <2>1. \A j \in 1 .. Len(a) : s[i + j - 1] = a[j]
    <3> SUFFICES ASSUME NEW j \in 1 .. Len(a)
                 PROVE  s[i + j - 1] = a[j]
      OBVIOUS
    <3>1. j \in 1 .. Len(a) + Len(b) /\ j <= Len(a) /\ j \in 1 .. Len(s) + 1 - i
      BY <1>1, <1>2
    <3> QED
      BY <1>1, <1>2, <3>1
  <2> QED
    BY <1>3, <2>1 DEF Begins
<1>5. Rest(s, i + Len(a)) = b
  <2>1. PICK k \in 1 .. Len(s) + 1 : k = i + Len(a)
    BY <1>3
  <2>2. PICK q \in Seq(S) : /\ q = Rest(s, k) /\ Len(q) = Len(s) + 1 - k
                            /\ \A j \in 1 .. Len(s) + 1 - k : q[j] = s[k + j - 1]
    <3>1. k \in 1 .. Len(s) + 1
      BY <2>1
    <3>2. /\ Rest(s, k) \in Seq(S) /\ Len(Rest(s, k)) = Len(s) + 1 - k
          /\ \A j \in 1 .. Len(s) + 1 - k : Rest(s, k)[j] = s[k + j - 1]
      BY <3>1, RestIs
    <3> QED
      BY <3>2
  <2>3. Len(q) = Len(b)
    BY <1>1, <1>2, <2>1, <2>2
  <2>4. \A j \in 1 .. Len(q) : q[j] = b[j]
    <3> SUFFICES ASSUME NEW j \in 1 .. Len(q)
                 PROVE  q[j] = b[j]
      OBVIOUS
    <3>0. j \in 1 .. Len(b)
      BY <2>3
    <3>1. PICK m \in 1 .. Len(a) + Len(b) : m = Len(a) + j /\ ~(m <= Len(a)) /\ m - Len(a) = j
      <4>1. Len(a) \in Nat /\ Len(b) \in Nat /\ j \in Nat
        BY <3>0
      <4>2. /\ Len(a) + j \in 1 .. Len(a) + Len(b) /\ ~(Len(a) + j <= Len(a))
            /\ Len(a) + j - Len(a) = j
        BY <3>0, <4>1
      <4> QED
        BY <4>2
    <3>2. r[m] = b[j]
      BY <1>2, <3>1
    <3>3. m \in 1 .. Len(s) + 1 - i /\ i + m - 1 = k + j - 1
      BY <1>1, <1>2, <2>1, <3>1
    <3>4. r[m] = s[k + j - 1]
      BY <1>1, <3>3
    <3> QED
      BY <2>2, <3>2, <3>4
  <2> QED
    BY <2>1, <2>2, <2>3, <2>4, SameSeq
<1> QED
  BY <1>3, <1>4, <1>5

LEMMA RestJoins ==
    ASSUME NEW S, NEW s \in Seq(S), NEW i \in 1 .. Len(s) + 1, NEW a \in Seq(S), Begins(s, i, a)
    PROVE  i + Len(a) \in 1 .. Len(s) + 1 /\ Rest(s, i) = Glue(a, Rest(s, i + Len(a)))
<1>1. i + Len(a) \in 1 .. Len(s) + 1
  BY DEF Begins
<1>2. PICK k \in 1 .. Len(s) + 1 : k = i + Len(a)
  BY <1>1
<1>3. PICK r \in Seq(S) : /\ r = Rest(s, i) /\ Len(r) = Len(s) + 1 - i
                          /\ \A j \in 1 .. Len(s) + 1 - i : r[j] = s[i + j - 1]
  BY RestIs
<1>4. PICK b \in Seq(S) : /\ b = Rest(s, k) /\ Len(b) = Len(s) + 1 - k
                          /\ \A j \in 1 .. Len(s) + 1 - k : b[j] = s[k + j - 1]
  <2>1. k \in 1 .. Len(s) + 1
    BY <1>2
  <2>2. /\ Rest(s, k) \in Seq(S) /\ Len(Rest(s, k)) = Len(s) + 1 - k
        /\ \A j \in 1 .. Len(s) + 1 - k : Rest(s, k)[j] = s[k + j - 1]
    BY <2>1, RestIs
  <2> QED
    BY <2>2
<1>5. PICK q \in Seq(S) :
        /\ q = a \o b /\ Len(q) = Len(a) + Len(b)
        /\ \A j \in 1 .. Len(a) + Len(b) : q[j] = IF j <= Len(a) THEN a[j] ELSE b[j - Len(a)]
  <2>1. (a \o b) \in Seq(S)
    BY ConcatProperties
  <2>2. Len(a \o b) = Len(a) + Len(b)
    BY ConcatProperties
  <2>3. \A j \in 1 .. Len(a) + Len(b) : (a \o b)[j] = IF j <= Len(a) THEN a[j] ELSE b[j - Len(a)]
    BY ConcatProperties
  <2> QED
    BY <2>1, <2>2, <2>3
<1>6. Len(q) = Len(r)
  BY <1>2, <1>3, <1>4, <1>5
<1>7. \A j \in 1 .. Len(q) : q[j] = r[j]
  <2> SUFFICES ASSUME NEW j \in 1 .. Len(q)
               PROVE  q[j] = r[j]
    OBVIOUS
  <2>1. r[j] = s[i + j - 1]
    BY <1>3, <1>6
  <2>2. CASE j <= Len(a)
    <3>1. j \in 1 .. Len(a)
      BY <2>2
    <3> QED
      BY <1>5, <2>1, <2>2, <3>1 DEF Begins
  <2>3. CASE j > Len(a)
    <3>1. PICK m \in 1 .. Len(b) : m = j - Len(a)
      <4>1. Len(a) \in Nat /\ Len(b) \in Nat /\ j \in 1 .. Len(a) + Len(b)
        BY <1>5
      <4>2. j - Len(a) \in 1 .. Len(b)
        BY <2>3, <4>1
      <4> QED
        BY <4>2
    <3>2. k + m - 1 = i + j - 1 /\ m \in 1 .. Len(s) + 1 - k
      BY <1>2, <1>4, <3>1
    <3>3. b[m] = s[i + j - 1]
      BY <1>4, <3>2
    <3> QED
      BY <1>5, <2>1, <2>3, <3>1, <3>3
  <2> QED
    BY <2>2, <2>3
<1>8. q = r
  BY <1>6, <1>7, SameSeq
<1> QED
  BY <1>1, <1>2, <1>3, <1>4, <1>5, <1>8 DEF Glue

LEMMA FirstAndRest ==
    ASSUME NEW G, NEW cs \in Seq(G), Len(cs) # 0
    PROVE  /\ cs[1] \in G /\ Rest(cs, 2) \in Seq(G) /\ Len(Rest(cs, 2)) = Len(cs) - 1
           /\ cs = Join(cs[1], Rest(cs, 2))
<1>1. cs[1] \in G
  OBVIOUS
<1>2. PICK k \in 1 .. Len(cs) + 1 : k = 2
  OBVIOUS
<1>3. k \in 1 .. Len(cs) + 1
  BY <1>2
<1>4. /\ Rest(cs, k) \in Seq(G) /\ Len(Rest(cs, k)) = Len(cs) + 1 - k
      /\ \A j \in 1 .. Len(cs) + 1 - k : Rest(cs, k)[j] = cs[k + j - 1]
  BY <1>3, RestIs
<1>5. PICK t \in Seq(G) : /\ t = Rest(cs, 2) /\ Len(t) = Len(cs) - 1
                          /\ \A j \in 1 .. Len(cs) - 1 : t[j] = cs[j + 1]
  <2>1. Rest(cs, k) \in Seq(G) /\ Len(Rest(cs, k)) = Len(cs) - 1
    BY <1>2, <1>4
  <2>2. \A j \in 1 .. Len(cs) - 1 : Rest(cs, k)[j] = cs[j + 1]
    <3> SUFFICES ASSUME NEW j \in 1 .. Len(cs) - 1
                 PROVE  Rest(cs, k)[j] = cs[j + 1]
      OBVIOUS
    <3>1. j \in 1 .. Len(cs) + 1 - k /\ k + j - 1 = j + 1
      BY <1>2
    <3> QED
      BY <1>4, <3>1
  <2> QED
    BY <1>2, <2>1, <2>2
<1>6. PICK c \in G : c = cs[1]
  BY <1>1
<1>7. /\ Join(c, t) \in Seq(G) /\ Len(Join(c, t)) = Len(t) + 1
      /\ Join(c, t)[1] = c /\ \A i \in 1 .. Len(t) : Join(c, t)[i + 1] = t[i]
  <2>1. c \in G /\ t \in Seq(G)
    BY <1>5, <1>6
  <2>2. \A a \in G : \A x \in Seq(G) :
            /\ Join(a, x) \in Seq(G) /\ Len(Join(a, x)) = Len(x) + 1
            /\ Join(a, x)[1] = a /\ \A i \in 1 .. Len(x) : Join(a, x)[i + 1] = x[i]
    BY JoinIs
  <2> QED
    BY <2>1, <2>2, Zenon
<1>8. cs = Join(c, t)
  <2>1. Len(cs) = Len(Join(c, t))
    BY <1>5, <1>7
  <2>2. \A i \in 1 .. Len(cs) : cs[i] = Join(c, t)[i]
    <3> SUFFICES ASSUME NEW i \in 1 .. Len(cs)
                 PROVE  cs[i] = Join(c, t)[i]
      OBVIOUS
    <3>1. CASE i = 1
      BY <1>6, <1>7, <3>1
    <3>2. CASE i # 1
      <4>1. PICK j \in 1 .. Len(cs) - 1 : i = j + 1
        <5>1. i - 1 \in 1 .. Len(cs) - 1 /\ i = (i - 1) + 1
          BY <3>2
        <5> QED
          BY <5>1
      <4>2. Join(c, t)[j + 1] = t[j] /\ t[j] = cs[j + 1]
        BY <1>5, <1>7, <4>1
      <4> QED
        BY <4>1, <4>2
    <3> QED
      BY <3>1, <3>2
  <2> QED
    BY <1>7, <2>1, <2>2, SameSeq
<1> QED
  BY <1>1, <1>5, <1>6, <1>8

LEMMA DecodeAll ==
    ASSUME NEW S, NEW G, NEW P \in Maps(G, S), NEW s \in Seq(S),
           NEW C, NEW U, NEW f, Along(f, Len(s), C, U),
           \A c \in G : Len(P[c]) > 0,
           \A i \in 1 .. Len(s) : \A c \in G :
               Begins(s, i, P[c]) => C[i] = c /\ U[i] = Len(P[c]),
           NEW codes \in Seq(G)
    PROVE  s = Enc(P, codes) => f[1] = codes
<1> DEFINE Reads(i, cs) == Rest(s, i) = Enc(P, cs) => f[i] = cs
           T == {k \in Nat : \A cs \in Seq(G) : \A i \in 1 .. Len(s) + 1 :
                                 Len(cs) = k => Reads(i, cs)}
<1>a. Len(s) \in Nat
  OBVIOUS
<1>b. f[Len(s) + 1] = <<>> /\ \A i \in 1 .. Len(s) : f[i] = Join(C[i], f[i + U[i]])
  BY <1>a, AlongIs
<1>c. ASSUME NEW i \in 1 .. Len(s) + 1, NEW a \in Seq(S), NEW b \in Seq(S),
             Rest(s, i) = Glue(a, b)
      PROVE  Begins(s, i, a) /\ i + Len(a) \in 1 .. Len(s) + 1 /\ Rest(s, i + Len(a)) = b
  BY <1>c, RestSplits
<1>1. 0 \in T
  <2> SUFFICES ASSUME NEW cs \in Seq(G), NEW i \in 1 .. Len(s) + 1, Len(cs) = 0,
                      Rest(s, i) = Enc(P, cs)
               PROVE  f[i] = cs
    OBVIOUS
  <2>1. Enc(P, cs) = <<>>
    BY EncEmpty
  <2>2. Len(Rest(s, i)) = Len(s) + 1 - i
    <3>1. \A j \in 1 .. Len(s) + 1 : Len(Rest(s, j)) = Len(s) + 1 - j
      BY RestIs
    <3> QED
      BY <3>1, Zenon
  <2>3. i = Len(s) + 1
    BY <2>1, <2>2
  <2> QED
    BY <1>b, <2>3
<1>2. ASSUME NEW k \in Nat, k \in T
      PROVE  k + 1 \in T
  <2> SUFFICES ASSUME NEW cs \in Seq(G), NEW i \in 1 .. Len(s) + 1, Len(cs) = k + 1,
                      Rest(s, i) = Enc(P, cs)
               PROVE  f[i] = cs
    OBVIOUS
  <2>1. Len(cs) # 0
    OBVIOUS
  <2>2. /\ cs[1] \in G /\ Rest(cs, 2) \in Seq(G) /\ Len(Rest(cs, 2)) = Len(cs) - 1
        /\ cs = Join(cs[1], Rest(cs, 2))
    BY <2>1, FirstAndRest, Zenon
  <2>3. PICK c \in G, t \in Seq(G) : cs = Join(c, t) /\ Len(t) = k
    BY <2>2
  <2>4. c \in G /\ t \in Seq(G)
    BY <2>3
  <2>5. Enc(P, Join(c, t)) = Glue(P[c], Enc(P, t))
    BY <2>4, EncJoin
  <2>6. P[c] \in Seq(S) /\ Enc(P, t) \in Seq(S)
    <3>1. P[c] \in Seq(S)
      BY <2>4 DEF Maps, To
    <3> QED
      BY <2>4, <3>1, EncIn
  <2>7. Rest(s, i) = Glue(P[c], Enc(P, t))
    BY <2>3, <2>5
  <2>8. /\ Begins(s, i, P[c]) /\ i + Len(P[c]) \in 1 .. Len(s) + 1
        /\ Rest(s, i + Len(P[c])) = Enc(P, t)
    BY <1>c, <2>6, <2>7, ZenonT(40)
  <2>9. Len(P[c]) \in Nat /\ Len(P[c]) > 0
    BY <2>4, <2>6
  <2>10. i \in 1 .. Len(s)
    BY <2>8, <2>9
  <2>11. C[i] = c /\ U[i] = Len(P[c])
    BY <2>4, <2>8, <2>10
  <2>12. f[i] = Join(c, f[i + Len(P[c])])
    BY <1>b, <2>10, <2>11
  <2>13. Reads(i + Len(P[c]), t)
    BY <1>2, <2>3, <2>8
  <2>14. f[i + Len(P[c])] = t
    BY <2>8, <2>13
  <2> QED
    BY <2>3, <2>12, <2>14
<1> HIDE DEF Reads, T
<1>3. Len(codes) \in Nat
  OBVIOUS
<1>4. \A k \in 0 .. Len(codes) - 1 : k \in T => k + 1 \in T
  BY <1>2, <1>3
<1>5. \A k \in 0 .. Len(codes) : k \in T
  BY <1>1, <1>3, <1>4, Upward
<1>6. Len(codes) \in T
  BY <1>3, <1>5
<1>7. 1 \in 1 .. Len(s) + 1
  BY <1>a
<1>8. Reads(1, codes)
  BY <1>6, <1>7 DEF T
<1>9. Rest(s, 1) = s
  BY SubSeqFull DEF Rest
<1> QED
  BY <1>8, <1>9 DEF Reads

LEMMA EncodeAll ==
    ASSUME NEW S, NEW G, NEW P \in Maps(G, S), NEW s \in Seq(S),
           NEW C, NEW U, NEW f, Along(f, Len(s), C, U), NEW W,
           \A i \in 1 .. Len(s) : i \in W =>
               /\ C[i] \in G /\ Begins(s, i, P[C[i]]) /\ U[i] = Len(P[C[i]])
               /\ U[i] \in 1 .. Len(s) + 1 - i /\ i + U[i] \in W
    PROVE  \A i \in 1 .. Len(s) + 1 : i \in W => f[i] \in Seq(G) /\ Enc(P, f[i]) = Rest(s, i)
<1> DEFINE Q == {i \in 1 .. Len(s) + 1 :
                    i \in W => f[i] \in Seq(G) /\ Enc(P, f[i]) = Rest(s, i)}
<1>a. Len(s) \in Nat
  OBVIOUS
<1>b. f[Len(s) + 1] = <<>> /\ \A i \in 1 .. Len(s) : f[i] = Join(C[i], f[i + U[i]])
  BY <1>a, AlongIs
<1>1. Len(s) + 1 \in Q
  <2>1. f[Len(s) + 1] \in Seq(G) /\ Len(f[Len(s) + 1]) = 0
    BY <1>b
  <2>2. Enc(P, f[Len(s) + 1]) = <<>>
    BY <2>1, EncEmpty
  <2>3. Rest(s, Len(s) + 1) = <<>>
    BY <1>a, SubSeqEmpty DEF Rest
  <2> QED
    BY <1>a, <2>1, <2>2, <2>3
<1>2. ASSUME NEW i \in 1 .. Len(s), \A j \in i + 1 .. Len(s) + 1 : j \in Q
      PROVE  i \in Q
  <2> SUFFICES ASSUME i \in W
               PROVE  f[i] \in Seq(G) /\ Enc(P, f[i]) = Rest(s, i)
    OBVIOUS
  <2>1. PICK k \in i + 1 .. Len(s) + 1 : k = i + U[i] /\ k \in W /\ k \in Q
    <3>1. i + U[i] \in i + 1 .. Len(s) + 1 /\ i + U[i] \in W
      OBVIOUS
    <3> QED
      BY <1>2, <3>1
  <2>2. PICK t \in Seq(G) : t = f[k] /\ Enc(P, t) = Rest(s, k)
    BY <2>1
  <2>3. PICK c \in G : c = C[i] /\ Begins(s, i, P[c]) /\ U[i] = Len(P[c])
    OBVIOUS
  <2>4. c \in G /\ t \in Seq(G)
    BY <2>2, <2>3
  <2>5. f[i] = Join(c, t)
    BY <1>b, <2>1, <2>2, <2>3
  <2>6. Join(c, t) \in Seq(G)
    BY <2>4, JoinIs
  <2>7. Enc(P, Join(c, t)) = Glue(P[c], Enc(P, t))
    BY <2>4, EncJoin
  <2>8. P[c] \in Seq(S)
    BY <2>4 DEF Maps, To
  <2>9. i \in 1 .. Len(s) + 1
    BY <1>a
  <2>10. Rest(s, i) = Glue(P[c], Rest(s, i + Len(P[c])))
    <3>1. ASSUME NEW a \in Seq(S), Begins(s, i, a)
          PROVE  Rest(s, i) = Glue(a, Rest(s, i + Len(a)))
      BY <2>9, <3>1, RestJoins
    <3> QED
      BY <2>3, <2>8, <3>1, Zenon
  <2> QED
    BY <2>1, <2>2, <2>3, <2>5, <2>6, <2>7, <2>10
<1> HIDE DEF Q
<1>3. \A i \in 1 .. Len(s) + 1 : i \in Q
  BY <1>a, <1>1, <1>2, Backward
<1> QED
  BY <1>3 DEF Q

LEMMA CodesIn ==
    ASSUME NEW n \in Nat, NEW G, NEW C, NEW U, NEW f, Along(f, n, C, U),
           \A i \in 1 .. n : C[i] \in G /\ U[i] \in 1 .. n + 1 - i
    PROVE  f[1] \in Seq(G)
<1> DEFINE Q == {i \in 1 .. n + 1 : f[i] \in Seq(G)}
<1>b. f[n + 1] = <<>> /\ \A i \in 1 .. n : f[i] = Join(C[i], f[i + U[i]])
  BY AlongIs
<1>1. n + 1 \in Q
  <2>1. n + 1 \in 1 .. n + 1
    OBVIOUS
  <2>2. <<>> \in Seq(G)
    OBVIOUS
  <2> QED
    BY <1>b, <2>1, <2>2, Zenon
<1>2. ASSUME NEW i \in 1 .. n, \A j \in i + 1 .. n + 1 : j \in Q
      PROVE  i \in Q
  <2>1. i + U[i] \in i + 1 .. n + 1
    OBVIOUS
  <2>2. f[i + U[i]] \in Seq(G)
    BY <1>2, <2>1
  <2>3. PICK c \in G, t \in Seq(G) : c = C[i] /\ t = f[i + U[i]]
    BY <2>2
  <2>4. c \in G /\ t \in Seq(G)
    BY <2>3
  <2>5. Join(c, t) \in Seq(G)
    BY <2>4, JoinIs
  <2> QED
    BY <1>b, <2>3, <2>5
<1> HIDE DEF Q
<1>3. \A i \in 1 .. n + 1 : i \in Q
  BY <1>1, <1>2, Backward
<1>4. 1 \in Q
  BY <1>3
<1> QED
  BY <1>4 DEF Q

-----------------------------------------------------------------------------
(* What is read and put, by its range.                                     *)
AnyCode == Nat \cup {Invalid}
Encodable == {c \in Nat : c <= MaxCode}
Scalars == {c \in Nat : Scalar(c)}

LEMMA Validated ==
    ASSUME NEW c \in AnyCode
    PROVE  Valid(c) \in Encodable /\ u32tou8(c) = u32tou8(Valid(c)) /\ u32tou16(c) = u32tou16(Valid(c))
<1>1. Valid(c) \in Encodable
  BY SMT DEF AnyCode, Encodable, Valid, TooLarge, Invalid, MaxCode, replacement_code_point
<1>2. Valid(Valid(c)) = Valid(c)
  <2>1. Valid(c) \in Nat /\ Valid(c) <= MaxCode
    BY <1>1, SMT DEF Encodable, MaxCode
  <2>2. ~TooLarge(Valid(c))
    BY <2>1, SMT DEF TooLarge, Invalid, MaxCode
  <2>3. \A d : ~TooLarge(d) => Valid(d) = d
    BY Zenon DEF Valid
  <2> QED
    BY <2>2, <2>3, Zenon
<1>3. u32tou8(c) = u32tou8(Valid(c))
  BY <1>2, SMT DEF u32tou8
<1>4. u32tou16(c) = u32tou16(Valid(c))
  BY <1>2, SMT DEF u32tou16
<1> QED
  BY <1>1, <1>3, <1>4, Zenon

LEMMA UnitIs == (\A x \in Nat : x < 65536 => x \in Unit) /\ \A x \in Unit : x \in Nat /\ x < 65536
<1>1. PICK m \in Nat : m = 65535
  BY SMT
<1>2. Unit = 0 .. m
  BY <1>1, SMT DEF Unit
<1>3. m \in Nat
  BY <1>1
<1>4. \A x \in Nat : x <= m => x \in 0 .. m
  BY <1>3, SMT
<1>5. \A x \in Nat : x < 65536 <=> x <= m
  BY <1>1, SMT
<1>6. \A x \in 0 .. m : x \in Nat /\ x <= m
  BY <1>3, SMT
<1> QED
  BY <1>2, <1>4, <1>5, <1>6, SMT

LEMMA ByteIs == \A x \in Byte : x \in Nat /\ x < 256
  BY SMT DEF Byte

LEMMA PutBytes ==
    ASSUME NEW c \in AnyCode
    PROVE  u32tou8(c) \in Seq(Byte) /\ Len(u32tou8(c)) > 0
<1>1. PICK d \in Nat : d <= MaxCode /\ u32tou8(c) = u32tou8(d)
  BY Validated, SMT DEF Encodable, MaxCode
<1>2. CASE d <= 127
  <2>1. u32tou8(d) = <<d>> /\ d \in Byte
    BY <1>1, <1>2, EncodedBytes, SMT DEF Byte
  <2> QED
    BY <1>1, <2>1, SMT
<1>3. CASE 127 < d /\ d <= 2047
  <2>1. PICK x \in Nat, y \in Nat : u32tou8(d) = <<192 + x, 128 + y>> /\ x < 32 /\ y < 64
    <3>1. \E x \in Nat, y \in Nat :
             /\ u32tou8(d) = <<192 + x, 128 + y>>
             /\ d = x * 64 + y
             /\ x < 32 /\ y < 64
      BY <1>1, <1>3, EncodeTwo, SMT
    <3> QED
      BY <3>1, SMT
  <2>2. 192 + x \in Byte /\ 128 + y \in Byte
    BY <2>1, SMT DEF Byte
  <2> QED
    BY <1>1, <2>1, <2>2, SMT
<1>4. CASE 2047 < d /\ d <= 65535
  <2>1. PICK x \in Nat, y \in Nat, z \in Nat :
            u32tou8(d) = <<224 + x, 128 + y, 128 + z>> /\ x < 16 /\ y < 64 /\ z < 64
    <3>1. \E x \in Nat, y \in Nat, z \in Nat :
             /\ u32tou8(d) = <<224 + x, 128 + y, 128 + z>>
             /\ d = x * 4096 + y * 64 + z
             /\ x < 16 /\ y < 64 /\ z < 64
      BY <1>1, <1>4, EncodeThree, SMT
    <3> QED
      BY <3>1, SMT
  <2>2. 224 + x \in Byte /\ 128 + y \in Byte /\ 128 + z \in Byte
    BY <2>1, SMT DEF Byte
  <2> QED
    BY <1>1, <2>1, <2>2, SMT
<1>5. CASE 65535 < d
  <2>1. PICK x \in Nat, y \in Nat, z \in Nat, w \in Nat :
            /\ u32tou8(d) = <<240 + x, 128 + y, 128 + z, 128 + w>>
            /\ x < 8 /\ y < 64 /\ z < 64 /\ w < 64
    <3>1. \E x \in Nat, y \in Nat, z \in Nat, w \in Nat :
             /\ u32tou8(d) = <<240 + x, 128 + y, 128 + z, 128 + w>>
             /\ d = x * 262144 + y * 4096 + z * 64 + w
             /\ x < 8 /\ y < 64 /\ z < 64 /\ w < 64
      BY <1>1, <1>5, EncodeFour, SMT
    <3> QED
      BY <3>1, SMT
  <2>2. 240 + x \in Byte /\ 128 + y \in Byte /\ 128 + z \in Byte /\ 128 + w \in Byte
    BY <2>1, SMT DEF Byte
  <2> QED
    BY <1>1, <2>1, <2>2, SMT
<1> QED
  BY <1>1, <1>2, <1>3, <1>4, <1>5, SMT DEF MaxCode

LEMMA PutUnits ==
    ASSUME NEW c \in AnyCode
    PROVE  u32tou16(c) \in Seq(Unit) /\ Len(u32tou16(c)) > 0
<1>1. PICK d \in Encodable : d = Valid(c)
  BY Validated, SMT
<1>2. u32tou16(c) = IF d < 65536 THEN <<d>>
                    ELSE <<55296 + ((d - 65536) \div 1024), 56320 + ((d - 65536) % 1024)>>
  BY <1>1, SMT DEF u32tou16
<1>3. CASE d < 65536
  <2>1. u32tou16(c) = <<d>> /\ d \in Unit
    BY <1>2, <1>3, UnitIs, SMT DEF Encodable
  <2> QED
    BY <2>1, SMT
<1>4. CASE d >= 65536
  <2>1. PICK q \in Nat, m \in Nat : q = (d - 65536) \div 1024 /\ m = (d - 65536) % 1024
    BY <1>4, SMT DEF Encodable, MaxCode
  <2>2. q < 1024 /\ m < 1024
    BY <1>4, <2>1, SMT DEF Encodable, MaxCode
  <2>3. 55296 + q \in Unit /\ 56320 + m \in Unit
    BY <2>2, UnitIs, SMT
  <2>4. u32tou16(c) = <<55296 + q, 56320 + m>>
    BY <1>2, <1>4, <2>1, SMT DEF Encodable
  <2> QED
    BY <2>3, <2>4, SMT
<1> QED
  BY <1>3, <1>4, SMT DEF Encodable

LEMMA GetByte ==
    ASSUME NEW s \in Seq(Byte), NEW i \in 1 .. Len(s)
    PROVE  u8tou32(s, i).code \in AnyCode
<1>1. s[i] \in Nat /\ s[i] < 256 /\ \A j \in 1 .. Len(s) : s[j] \in Nat
  <2>1. s[i] \in Byte /\ \A j \in 1 .. Len(s) : s[j] \in Byte
    OBVIOUS
  <2> QED
    BY <2>1, ByteIs
<1> DEFINE n == Follow(s[i])
<1>2. n \in 1 .. 6
  BY <1>1 DEF Follow
<1>3. CASE s[i] < 128 \/ Continues(s[i])
  BY <1>1, <1>3 DEF u8tou32, Found, AnyCode
<1>4. CASE ~(s[i] < 128 \/ Continues(s[i])) /\ ~(n < 6 /\ Continued(s, i, n))
  BY <1>4 DEF u8tou32, Found, AnyCode
<1>5. CASE ~(s[i] < 128 \/ Continues(s[i])) /\ n < 6 /\ Continued(s, i, n)
  <2>1. u8tou32(s, i).code = Sequence(s, i, n)
    BY <1>5 DEF u8tou32, Found
  <2> HIDE DEF n
  <2>2. n \in 1 .. 5 /\ i + n <= Len(s)
    BY <1>2, <1>5 DEF Continued
  <2> DEFINE bits(j) == IF j > n THEN 0 ELSE (s[i + j] % 64) * Shift(n - j)
  <2>3. \A k \in 0 .. 5 : Shift(k) \in Nat
    BY SMT DEF Shift
  <2>4. \A j \in 1 .. 5 : bits(j) \in Nat
    <3> SUFFICES ASSUME NEW j \in 1 .. 5, ~(j > n)
                 PROVE  (s[i + j] % 64) * Shift(n - j) \in Nat
      OBVIOUS
    <3>1. s[i + j] \in Nat
      BY <1>1, <2>2
    <3>2. s[i + j] % 64 \in Nat
      BY <3>1
    <3>3. Shift(n - j) \in Nat
      BY <2>2, <2>3, SMTT(30)
    <3> QED
      BY <3>2, <3>3
  <2>5. LeadBits(s[i], n) \in Nat
    <3>1. \A x \in Nat : x % 32 \in Nat /\ x % 16 \in Nat /\ x % 8 \in Nat /\ x % 4 \in Nat /\ x % 2 \in Nat
      OBVIOUS
    <3>2. \A x \in Nat : \A k \in 1 .. 5 : LeadBits(x, k) \in {x % 32, x % 16, x % 8, x % 4, x % 2}
      BY DEF LeadBits
    <3> QED
      BY <1>1, <2>2, <3>1, <3>2
  <2>6. LeadBits(s[i], n) * Shift(n) \in Nat
    <3>1. Shift(n) \in Nat
      BY <2>2, <2>3
    <3> QED
      BY <2>5, <3>1
  <2>7. Sequence(s, i, n) = LeadBits(s[i], n) * Shift(n) + bits(1) + bits(2) + bits(3) + bits(4) + bits(5)
    BY DEF Sequence
  <2> HIDE DEF bits
  <2>8. bits(1) \in Nat /\ bits(2) \in Nat /\ bits(3) \in Nat /\ bits(4) \in Nat /\ bits(5) \in Nat
    BY <2>4
  <2>9. Sequence(s, i, n) \in Nat
    <3> DEFINE a == LeadBits(s[i], n) * Shift(n)
    <3>1. a \in Nat
      BY <2>6
    <3> HIDE DEF a
    <3>2. Sequence(s, i, n) = a + bits(1) + bits(2) + bits(3) + bits(4) + bits(5)
      BY <2>7 DEF a
    <3> QED
      BY <2>8, <3>1, <3>2
  <2> QED
    BY <2>1, <2>9 DEF AnyCode
<1> QED
  BY <1>3, <1>4, <1>5

-----------------------------------------------------------------------------
(* The conversions of texts there and back.                                *)
Put8(G) == [c \in G |-> u32tou8(c)]
Put16(G) == [c \in G |-> u32tou16(c)]

LEMMA Put8Is ==
    ASSUME NEW G, G \subseteq AnyCode
    PROVE  /\ Put8(G) \in Maps(G, Byte)
           /\ \A c \in G : Put8(G)[c] = u32tou8(c) /\ Len(Put8(G)[c]) > 0
<1>1. \A c \in G : u32tou8(c) \in Seq(Byte) /\ Len(u32tou8(c)) > 0
  BY PutBytes
<1> DEFINE T == Seq(Byte)
<1>2. \A c \in G : u32tou8(c) \in T
  BY <1>1
<1> HIDE DEF T
<1>3. Put8(G) \in [G -> T] /\ \A c \in G : Put8(G)[c] = u32tou8(c)
  BY <1>2 DEF Put8
<1> QED
  BY <1>1, <1>3 DEF Maps, To, T

LEMMA Put16Is ==
    ASSUME NEW G, G \subseteq AnyCode
    PROVE  /\ Put16(G) \in Maps(G, Unit)
           /\ \A c \in G : Put16(G)[c] = u32tou16(c) /\ Len(Put16(G)[c]) > 0
<1>1. \A c \in G : u32tou16(c) \in Seq(Unit) /\ Len(u32tou16(c)) > 0
  BY PutUnits
<1> DEFINE T == Seq(Unit)
<1>2. \A c \in G : u32tou16(c) \in T
  BY <1>1
<1> HIDE DEF T
<1>3. Put16(G) \in [G -> T] /\ \A c \in G : Put16(G)[c] = u32tou16(c)
  BY <1>2 DEF Put16
<1> QED
  BY <1>1, <1>3 DEF Maps, To, T

LEMMA Encoded8Is ==
    ASSUME NEW G, G \subseteq AnyCode, NEW cs \in Seq(G)
    PROVE  /\ Encoded(cs, u32tou8) = Enc(Put8(G), cs)
           /\ Encoded(cs, u32tou8) \in Seq(Byte)
<1>1. \A k \in DOMAIN cs : cs[k] \in G
  OBVIOUS
<1>2. \A c \in G : Put8(G)[c] = u32tou8(c)
  BY Put8Is
<1>3. [k \in DOMAIN cs |-> u32tou8(cs[k])] = [k \in DOMAIN cs |-> Put8(G)[cs[k]]]
  BY <1>1, <1>2
<1>4. Encoded(cs, u32tou8) = Enc(Put8(G), cs)
  BY <1>3 DEF Encoded, Enc, Each
<1>5. Put8(G) \in Maps(G, Byte)
  BY Put8Is
<1>6. Enc(Put8(G), cs) \in Seq(Byte)
  BY <1>5, EncIn
<1> QED
  BY <1>4, <1>6

LEMMA Encoded16Is ==
    ASSUME NEW G, G \subseteq AnyCode, NEW cs \in Seq(G)
    PROVE  /\ Encoded(cs, u32tou16) = Enc(Put16(G), cs)
           /\ Encoded(cs, u32tou16) \in Seq(Unit)
<1>1. \A k \in DOMAIN cs : cs[k] \in G
  OBVIOUS
<1>2. \A c \in G : Put16(G)[c] = u32tou16(c)
  BY Put16Is
<1>3. [k \in DOMAIN cs |-> u32tou16(cs[k])] = [k \in DOMAIN cs |-> Put16(G)[cs[k]]]
  BY <1>1, <1>2
<1>4. Encoded(cs, u32tou16) = Enc(Put16(G), cs)
  BY <1>3 DEF Encoded, Enc, Each
<1>5. Put16(G) \in Maps(G, Unit)
  BY Put16Is
<1>6. Enc(Put16(G), cs) \in Seq(Unit)
  BY <1>5, EncIn
<1> QED
  BY <1>4, <1>6

LEMMA SeqSub ==
    ASSUME NEW A, NEW B, A \subseteq B, NEW s \in Seq(A)
    PROVE  s \in Seq(B)
  OBVIOUS

LEMMA Codes8In ==
    ASSUME NEW s \in Seq(Byte)
    PROVE  Codes(s, u8tou32) \in Seq(AnyCode)
<1>1. PICK f, C, U : Reads8(f, s, C, U)
  BY Reading8
<1>2. Len(s) \in Nat
  OBVIOUS
<1>3. Along(f, Len(s), C, U) /\ Codes(s, u8tou32) = f[1]
  BY <1>1 DEF Reads8
<1>4. \A i \in 1 .. Len(s) : C[i] \in AnyCode /\ U[i] \in 1 .. Len(s) + 1 - i
  BY <1>1, GetByte DEF Reads8
<1>5. f[1] \in Seq(AnyCode)
  BY <1>2, <1>3, <1>4, CodesIn
<1> QED
  BY <1>3, <1>5

LEMMA PairIs ==
    ASSUME NEW x \in Nat, NEW y \in Nat, x < 1024, y < 1024
    PROVE  \A c \in Nat : c = x * 1024 + y + 65536 =>
               /\ c >= 65536 /\ c <= 1114111
               /\ (c - 65536) \div 1024 = x /\ (c - 65536) % 1024 = y
<1>1. PICK z \in Nat : z = x * 1024 + y
  OBVIOUS
<1>2. z \div 1024 = x /\ z % 1024 = y
  BY <1>1, SMT
<1>3. (z + 65536) - 65536 = z /\ z + 65536 = x * 1024 + y + 65536
  BY <1>1, SMT
<1>4. x * 1024 + y + 65536 >= 65536 /\ x * 1024 + y + 65536 <= 1114111
  BY SMT
<1> QED
  <2> SUFFICES ASSUME NEW c \in Nat, c = x * 1024 + y + 65536
               PROVE  /\ c >= 65536 /\ c <= 1114111
                      /\ (c - 65536) \div 1024 = x /\ (c - 65536) % 1024 = y
    OBVIOUS
  <2>1. c - 65536 = z
    BY <1>1, SMT
  <2> QED
    BY <1>2, <1>4, <2>1, SMT

LEMMA GetUnit ==
    ASSUME NEW s \in Seq(Unit), NEW i \in 1 .. Len(s)
    PROVE  LET c == u16tou32(s, i).code
           IN  /\ c \in Encodable /\ Begins(s, i, u32tou16(c))
               /\ u16tou32(s, i).used = Len(u32tou16(c))
<1> DEFINE c == u16tou32(s, i).code
<1>0. \A u \in Unit : u \in Nat /\ u < 65536
  BY UnitIs, SMT
<1>1. s[i] \in Nat /\ s[i] < 65536 /\ \A j \in 1 .. Len(s) : s[j] \in Nat /\ s[j] < 65536
  BY <1>0
<1>2. CASE ~(High(s[i]) /\ i < Len(s) /\ Low(s[i + 1]))
  <2>1. c = s[i] /\ u16tou32(s, i).used = 1
    BY <1>2 DEF u16tou32, Found
  <2> HIDE DEF c
  <2>2. c \in Nat /\ c < 65536
    BY <1>1, <2>1, SMT
  <2>3. Valid(c) = c
    BY <2>2, SMT DEF Valid, TooLarge, Invalid, MaxCode
  <2>4. u32tou16(c) = <<c>>
    BY <2>2, <2>3, SMT DEF u32tou16
  <2>5. c \in Encodable
    BY <2>2, SMT DEF Encodable, MaxCode
  <2>6. Begins(s, i, u32tou16(c)) /\ Len(u32tou16(c)) = 1
    BY <2>1, <2>4 DEF Begins
  <2> QED
    BY <2>1, <2>5, <2>6 DEF c
<1>3. CASE High(s[i]) /\ i < Len(s) /\ Low(s[i + 1])
  <2>1. PICK x \in Nat, y \in Nat : x = s[i] - 55296 /\ y = s[i + 1] - 56320 /\ x < 1024 /\ y < 1024
    <3>1. s[i + 1] \in Nat
      BY <1>1, <1>3
    <3>2. s[i] - 55296 \in Nat /\ s[i + 1] - 56320 \in Nat /\ s[i] - 55296 < 1024 /\ s[i + 1] - 56320 < 1024
      BY <1>1, <1>3, <3>1, SMT DEF High, Low
    <3> QED
      BY <3>2, SMT
  <2>a. x \in Nat /\ y \in Nat /\ x < 1024 /\ y < 1024
    BY <2>1
  <2>b. PICK d \in Nat : d = x * 1024 + y + 65536
    BY <2>a, SMT
  <2>2. c = d /\ u16tou32(s, i).used = 2
    BY <1>3, <2>1, <2>b DEF u16tou32, Found
  <2> HIDE DEF c
  <2>3. /\ d >= 65536 /\ d <= 1114111
        /\ (d - 65536) \div 1024 = x /\ (d - 65536) % 1024 = y
    BY <2>a, <2>b, PairIs
  <2>4. Valid(d) = d
    BY <2>3, SMT DEF Valid, TooLarge, Invalid, MaxCode
  <2>6. u32tou16(d) = <<55296 + x, 56320 + y>>
    BY <2>3, <2>4, SMT DEF u32tou16
  <2>7. s[i] = 55296 + x /\ s[i + 1] = 56320 + y
    <3>1. s[i] \in Nat /\ s[i + 1] \in Nat
      BY <1>1, <1>3
    <3> QED
      BY <2>1, <3>1, SMTT(30)
  <2>8. d \in Encodable
    BY <2>3, SMTT(30) DEF Encodable, MaxCode
  <2>9. Begins(s, i, u32tou16(d)) /\ Len(u32tou16(d)) = 2
    BY <1>3, <2>6, <2>7, SMT DEF Begins
  <2> QED
    BY <2>2, <2>8, <2>9 DEF c
<1> QED
  BY <1>2, <1>3

(* UTF-16 is read as codes that are put out as it was.                     *)
LEMMA Back16 ==
    ASSUME NEW s \in Seq(Unit)
    PROVE  /\ Codes(s, u16tou32) \in Seq(Encodable)
           /\ Encoded(Codes(s, u16tou32), u32tou16) = s
<1> DEFINE P == Put16(Encodable)
<1>0. Encodable \subseteq AnyCode
  BY DEF Encodable, AnyCode
<1>1. P \in Maps(Encodable, Unit) /\ \A c \in Encodable : P[c] = u32tou16(c)
  BY <1>0, Put16Is
<1>2. PICK f, C, U : Reads16(f, s, C, U)
  BY Reading16
<1>3. Along(f, Len(s), C, U) /\ Codes(s, u16tou32) = f[1]
  BY <1>2 DEF Reads16
<1> HIDE DEF P
<1>w. PICK W : W = 1 .. Len(s) + 1
  OBVIOUS
<1>4. \A i \in 1 .. Len(s) :
         /\ C[i] \in Encodable /\ Begins(s, i, P[C[i]]) /\ U[i] = Len(P[C[i]])
         /\ U[i] \in 1 .. Len(s) + 1 - i /\ i + U[i] \in W
  <2> SUFFICES ASSUME NEW i \in 1 .. Len(s)
               PROVE  /\ C[i] \in Encodable /\ Begins(s, i, P[C[i]]) /\ U[i] = Len(P[C[i]])
                      /\ U[i] \in 1 .. Len(s) + 1 - i /\ i + U[i] \in W
    OBVIOUS
  <2>1. /\ C[i] = u16tou32(s, i).code /\ U[i] = u16tou32(s, i).used
        /\ U[i] \in 1 .. Len(s) + 1 - i
    BY <1>2 DEF Reads16
  <2>2. /\ C[i] \in Encodable /\ Begins(s, i, u32tou16(C[i])) /\ U[i] = Len(u32tou16(C[i]))
    BY <2>1, GetUnit
  <2>3. P[C[i]] = u32tou16(C[i])
    BY <1>1, <2>2
  <2> QED
    BY <1>w, <2>1, <2>2, <2>3
<1>5. \A i \in 1 .. Len(s) + 1 : i \in W =>
          f[i] \in Seq(Encodable) /\ Enc(P, f[i]) = Rest(s, i)
  BY <1>1, <1>3, <1>4, EncodeAll
<1>6. f[1] \in Seq(Encodable) /\ Enc(P, f[1]) = Rest(s, 1)
  <2>1. 1 \in 1 .. Len(s) + 1
    OBVIOUS
  <2> QED
    BY <1>5, <1>w, <2>1
<1>7. Rest(s, 1) = s
  BY SubSeqFull DEF Rest
<1>8. Encoded(f[1], u32tou16) = Enc(P, f[1])
  BY <1>0, <1>6, Encoded16Is DEF P
<1> QED
  BY <1>3, <1>6, <1>7, <1>8

(* Codes that are put out as UTF-8 are read as they were.                  *)
LEMMA There8 ==
    ASSUME NEW cs \in Seq(Encodable)
    PROVE  /\ Encoded(cs, u32tou8) \in Seq(Byte)
           /\ Codes(Encoded(cs, u32tou8), u8tou32) = cs
<1> DEFINE P == Put8(Encodable)
<1>0. Encodable \subseteq AnyCode
  BY DEF Encodable, AnyCode
<1>1. P \in Maps(Encodable, Byte) /\ \A c \in Encodable : P[c] = u32tou8(c) /\ Len(P[c]) > 0
  BY <1>0, Put8Is
<1>2. PICK s \in Seq(Byte) : s = Encoded(cs, u32tou8) /\ s = Enc(P, cs)
  BY <1>0, Encoded8Is
<1>3. PICK f, C, U : Reads8(f, s, C, U)
  BY <1>2, Reading8
<1>4. Along(f, Len(s), C, U) /\ Codes(s, u8tou32) = f[1]
  BY <1>3 DEF Reads8
<1> HIDE DEF P
<1>5. \A i \in 1 .. Len(s) : \A c \in Encodable :
          Begins(s, i, P[c]) => C[i] = c /\ U[i] = Len(P[c])
  <2> SUFFICES ASSUME NEW i \in 1 .. Len(s), NEW c \in Encodable, Begins(s, i, P[c])
               PROVE  C[i] = c /\ U[i] = Len(P[c])
    OBVIOUS
  <2>1. c \in Nat /\ c <= MaxCode
    BY DEF Encodable
  <2>2. P[c] = u32tou8(c)
    BY <1>1
  <2>3. i \in Nat \ {0}
    OBVIOUS
  <2>4. u8tou32(s, i) = Found(c, Len(u32tou8(c)))
    BY <1>2, <2>1, <2>2, <2>3, DecodeEncode8
  <2>5. C[i] = u8tou32(s, i).code /\ U[i] = u8tou32(s, i).used
    BY <1>3 DEF Reads8
  <2> QED
    BY <2>2, <2>4, <2>5 DEF Found
<1>6. \A c \in Encodable : Len(P[c]) > 0
  BY <1>1
<1>7. s = Enc(P, cs) => f[1] = cs
  <2>1. s \in Seq(Byte)
    BY <1>2
  <2> QED
    BY <1>1, <1>4, <1>5, <1>6, <2>1, DecodeAll
<1> QED
  BY <1>2, <1>4, <1>7

LEMMA There16 ==
    ASSUME NEW cs \in Seq(Scalars)
    PROVE  /\ Encoded(cs, u32tou16) \in Seq(Unit)
           /\ Codes(Encoded(cs, u32tou16), u16tou32) = cs
<1> DEFINE P == Put16(Scalars)
<1>0. Scalars \subseteq AnyCode
  BY DEF Scalars, AnyCode
<1>1. P \in Maps(Scalars, Unit) /\ \A c \in Scalars : P[c] = u32tou16(c) /\ Len(P[c]) > 0
  BY <1>0, Put16Is
<1>2. PICK s \in Seq(Unit) : s = Encoded(cs, u32tou16) /\ s = Enc(P, cs)
  BY <1>0, Encoded16Is
<1>3. PICK f, C, U : Reads16(f, s, C, U)
  BY <1>2, Reading16
<1>4. Along(f, Len(s), C, U) /\ Codes(s, u16tou32) = f[1]
  BY <1>3 DEF Reads16
<1> HIDE DEF P
<1>5. \A i \in 1 .. Len(s) : \A c \in Scalars :
          Begins(s, i, P[c]) => C[i] = c /\ U[i] = Len(P[c])
  <2> SUFFICES ASSUME NEW i \in 1 .. Len(s), NEW c \in Scalars, Begins(s, i, P[c])
               PROVE  C[i] = c /\ U[i] = Len(P[c])
    OBVIOUS
  <2>1. c \in Nat /\ Scalar(c)
    BY DEF Scalars
  <2>2. P[c] = u32tou16(c)
    BY <1>1
  <2>3. i \in Nat \ {0}
    OBVIOUS
  <2>4. u16tou32(s, i) = Found(c, Len(u32tou16(c)))
    BY <1>2, <2>1, <2>2, <2>3, DecodeEncode16
  <2>5. C[i] = u16tou32(s, i).code /\ U[i] = u16tou32(s, i).used
    BY <1>3 DEF Reads16
  <2> QED
    BY <2>2, <2>4, <2>5 DEF Found
<1>6. \A c \in Scalars : Len(P[c]) > 0
  BY <1>1
<1>7. s = Enc(P, cs) => f[1] = cs
  <2>1. s \in Seq(Unit)
    BY <1>2
  <2> QED
    BY <1>1, <1>4, <1>5, <1>6, <2>1, DecodeAll
<1> QED
  BY <1>2, <1>4, <1>7

-----------------------------------------------------------------------------
(* A well-formed character of UTF-8 is read as the code that is put so.    *)
LEMMA FitsOne ==
    ASSUME NEW s \in Seq(Byte), NEW i \in 1 .. Len(s), NEW A, Fits(s, i, <<A>>)
    PROVE  s[i] \in A
<1>1. \A j \in DOMAIN <<A>> : s[i + j - 1] \in <<A>>[j]
  BY DEF Fits
<1>2. 1 \in DOMAIN <<A>> /\ <<A>>[1] = A /\ i + 1 - 1 = i
  OBVIOUS
<1> QED
  BY <1>1, <1>2

LEMMA FitsTwo ==
    ASSUME NEW s \in Seq(Byte), NEW i \in 1 .. Len(s), NEW A, NEW B, Fits(s, i, <<A, B>>)
    PROVE  i + 1 <= Len(s) /\ s[i] \in A /\ s[i + 1] \in B
<1>1. \A j \in DOMAIN <<A, B>> : s[i + j - 1] \in <<A, B>>[j]
  BY DEF Fits
<1>2. 1 \in DOMAIN <<A, B>> /\ <<A, B>>[1] = A /\ i + 1 - 1 = i
  OBVIOUS
<1>3. 2 \in DOMAIN <<A, B>> /\ <<A, B>>[2] = B /\ i + 2 - 1 = i + 1
  OBVIOUS
<1>4. i + 2 <= Len(s) + 1
  BY DEF Fits
<1> QED
  BY <1>1, <1>2, <1>3, <1>4

LEMMA FitsThree ==
    ASSUME NEW s \in Seq(Byte), NEW i \in 1 .. Len(s), NEW A, NEW B, NEW C,
           Fits(s, i, <<A, B, C>>)
    PROVE  i + 2 <= Len(s) /\ s[i] \in A /\ s[i + 1] \in B /\ s[i + 2] \in C
<1>1. \A j \in DOMAIN <<A, B, C>> : s[i + j - 1] \in <<A, B, C>>[j]
  BY DEF Fits
<1>2. 1 \in DOMAIN <<A, B, C>> /\ <<A, B, C>>[1] = A /\ i + 1 - 1 = i
  OBVIOUS
<1>3. 2 \in DOMAIN <<A, B, C>> /\ <<A, B, C>>[2] = B /\ i + 2 - 1 = i + 1
  OBVIOUS
<1>4. 3 \in DOMAIN <<A, B, C>> /\ <<A, B, C>>[3] = C /\ i + 3 - 1 = i + 2
  OBVIOUS
<1>5. i + 3 <= Len(s) + 1
  BY DEF Fits
<1> QED
  BY <1>1, <1>2, <1>3, <1>4, <1>5

LEMMA FitsFour ==
    ASSUME NEW s \in Seq(Byte), NEW i \in 1 .. Len(s), NEW A, NEW B, NEW C, NEW D,
           Fits(s, i, <<A, B, C, D>>)
    PROVE  i + 3 <= Len(s) /\ s[i] \in A /\ s[i + 1] \in B /\ s[i + 2] \in C /\ s[i + 3] \in D
<1>1. \A j \in DOMAIN <<A, B, C, D>> : s[i + j - 1] \in <<A, B, C, D>>[j]
  BY DEF Fits
<1>2. 1 \in DOMAIN <<A, B, C, D>> /\ <<A, B, C, D>>[1] = A /\ i + 1 - 1 = i
  OBVIOUS
<1>3. 2 \in DOMAIN <<A, B, C, D>> /\ <<A, B, C, D>>[2] = B /\ i + 2 - 1 = i + 1
  OBVIOUS
<1>4. 3 \in DOMAIN <<A, B, C, D>> /\ <<A, B, C, D>>[3] = C /\ i + 3 - 1 = i + 2
  OBVIOUS
<1>5. 4 \in DOMAIN <<A, B, C, D>> /\ <<A, B, C, D>>[4] = D /\ i + 4 - 1 = i + 3
  OBVIOUS
<1>6. i + 4 <= Len(s) + 1
  BY DEF Fits
<1> QED
  BY <1>1, <1>2, <1>3, <1>4, <1>5, <1>6

(* What is read at s[i] is put as the n bytes there, which begin with the  *)
(* only one that continues nothing.                                        *)
Reread(s, i, n) ==
    LET c == u8tou32(s, i).code
    IN  /\ c \in Scalars /\ Begins(s, i, u32tou8(c))
        /\ u8tou32(s, i).used = n /\ Len(u32tou8(c)) = n
        /\ ~Continues(s[i]) /\ \A j \in i + 1 .. i + n - 1 : Continues(s[j])

LEMMA Reread1 ==
    ASSUME NEW s \in Seq(Byte), NEW i \in 1 .. Len(s), s[i] \in Nat, s[i] <= 127
    PROVE  Reread(s, i, 1)
<1> DEFINE c == s[i]
<1>1. u8tou32(s, i) = Found(c, 1)
  BY SMT DEF u8tou32
<1>2. u32tou8(c) = <<c>>
  BY EncodedBytes, SMT DEF MaxCode
<1>3. c \in Scalars
  BY SMT DEF Scalars, Scalar, Surrogate, MaxCode
<1>4. ~Continues(c)
  BY SMT DEF Continues
<1> HIDE DEF c
<1>5. Begins(s, i, <<c>>) /\ Len(<<c>>) = 1
  BY SMT DEF Begins, c
<1>6. u8tou32(s, i).code = c /\ u8tou32(s, i).used = 1
  BY <1>1, SMT DEF Found
<1>7. \A j \in i + 1 .. i + 1 - 1 : Continues(s[j])
  OBVIOUS
<1>8. ~Continues(s[i])
  BY <1>4, Zenon DEF c
<1> QED
  BY <1>2, <1>3, <1>5, <1>6, <1>7, <1>8, Zenon DEF Reread

LEMMA Reread2 ==
    ASSUME NEW s \in Seq(Byte), NEW i \in 1 .. Len(s), NEW x \in Nat, NEW y \in Nat,
           2 <= x, x < 32, y < 64, Two(s, i, x, y)
    PROVE  Reread(s, i, 2)
<1>1. PICK c \in Nat : c = x * 64 + y
  BY SMT
<1>2. 127 < c /\ c <= 2047
  BY <1>1, SMT
<1>3. c \div 64 = x /\ c % 64 = y
  BY <1>1, SMT
<1>4. u32tou8(c) = <<192 + x, 128 + y>>
  <2>1. u32tou8(c) = <<192 + (c \div 64), 128 + (c % 64)>>
    <3>1. c <= MaxCode
      BY <1>2, SMT DEF MaxCode
    <3> QED
      BY <1>2, <3>1, EncodedBytes, SMT
  <2> QED
    BY <1>3, <2>1, SMT
<1>5. u8tou32(s, i).code = c /\ u8tou32(s, i).used = 2
  BY <1>1, DecodeTwo, SMT DEF Found
<1>6. c \in Scalars
  BY <1>2, SMT DEF Scalars, Scalar, Surrogate, MaxCode
<1>7. Begins(s, i, <<192 + x, 128 + y>>) /\ Len(<<192 + x, 128 + y>>) = 2
  BY SMT DEF Begins, Two
<1>8. ~Continues(s[i]) /\ Continues(s[i + 1])
  BY Lead2, SixBits, SMT DEF Two
<1>9. \A j \in i + 1 .. i + 2 - 1 : Continues(s[j])
  BY <1>8, SMT
<1> QED
  BY <1>4, <1>5, <1>6, <1>7, <1>8, <1>9, Zenon DEF Reread

LEMMA Reread3 ==
    ASSUME NEW s \in Seq(Byte), NEW i \in 1 .. Len(s),
           NEW x \in Nat, NEW y \in Nat, NEW z \in Nat,
           x < 16, y < 64, z < 64, x = 0 => 32 <= y, x = 13 => y < 32, Three(s, i, x, y, z)
    PROVE  Reread(s, i, 3)
<1>1. PICK c \in Nat : c = x * 4096 + y * 64 + z
  BY SMT
<1>2. 2047 < c /\ c <= 65535 /\ (c < 55296 \/ c > 57343)
  BY <1>1, SMT
<1>3. c \div 4096 = x /\ (c \div 64) % 64 = y /\ c % 64 = z
  <2>1. c \div 64 = x * 64 + y
    BY <1>1, SMT
  <2> QED
    BY <1>1, <2>1, SMT
<1>4. u32tou8(c) = <<224 + x, 128 + y, 128 + z>>
  <2>1. u32tou8(c) = <<224 + (c \div 4096), 128 + ((c \div 64) % 64), 128 + (c % 64)>>
    <3>1. c <= MaxCode
      BY <1>2, SMT DEF MaxCode
    <3> QED
      BY <1>2, <3>1, EncodedBytes, SMT
  <2> QED
    BY <1>3, <2>1, SMT
<1>5. u8tou32(s, i).code = c /\ u8tou32(s, i).used = 3
  BY <1>1, DecodeThree, SMT DEF Found
<1>6. c \in Scalars
  BY <1>2, SMT DEF Scalars, Scalar, Surrogate, MaxCode
<1>7. Begins(s, i, <<224 + x, 128 + y, 128 + z>>) /\ Len(<<224 + x, 128 + y, 128 + z>>) = 3
  BY SMT DEF Begins, Three
<1>8. ~Continues(s[i]) /\ Continues(s[i + 1]) /\ Continues(s[i + 2])
  <2>1. ~Continues(224 + x)
    BY Lead3, SMT
  <2>2. Continues(128 + y) /\ Continues(128 + z)
    BY SixBits, SMT
  <2> QED
    BY <2>1, <2>2 DEF Three
<1>9. \A j \in i + 1 .. i + 3 - 1 : Continues(s[j])
  <2>1. \A j \in i + 1 .. i + 3 - 1 : j = i + 1 \/ j = i + 2
    BY SMT
  <2> QED
    BY <1>8, <2>1, Zenon
<1> QED
  BY <1>4, <1>5, <1>6, <1>7, <1>8, <1>9, Zenon DEF Reread

LEMMA Reread4 ==
    ASSUME NEW s \in Seq(Byte), NEW i \in 1 .. Len(s),
           NEW x \in Nat, NEW y \in Nat, NEW z \in Nat, NEW w \in Nat,
           x <= 4, y < 64, z < 64, w < 64, x = 0 => 16 <= y, x = 4 => y < 16,
           Four(s, i, x, y, z, w)
    PROVE  Reread(s, i, 4)
<1>1. PICK c \in Nat : c = x * 262144 + y * 4096 + z * 64 + w
  BY SMT
<1>2. 65535 < c /\ c <= 1114111
  BY <1>1, SMT
<1>3. c \div 262144 = x /\ (c \div 4096) % 64 = y /\ (c \div 64) % 64 = z /\ c % 64 = w
  <2>1. c \div 64 = x * 4096 + y * 64 + z
    BY <1>1, SMT
  <2>2. c \div 4096 = x * 64 + y
    BY <1>1, SMT
  <2> QED
    BY <1>1, <2>1, <2>2, SMT
<1>4. u32tou8(c) = <<240 + x, 128 + y, 128 + z, 128 + w>>
  <2>1. u32tou8(c) = <<240 + (c \div 262144), 128 + ((c \div 4096) % 64),
                       128 + ((c \div 64) % 64), 128 + (c % 64)>>
    <3>1. c <= MaxCode
      BY <1>2, SMT DEF MaxCode
    <3> QED
      BY <1>2, <3>1, EncodedBytes, SMT
  <2> QED
    BY <1>3, <2>1, SMT
<1>5. u8tou32(s, i).code = c /\ u8tou32(s, i).used = 4
  <2>1. x < 8 /\ i \in Nat
    BY SMT
  <2>2. u8tou32(s, i) = Found(x * 262144 + y * 4096 + z * 64 + w, 4)
    BY <2>1, DecodeFour, SMT
  <2> QED
    BY <1>1, <2>2, SMT DEF Found
<1>6. c \in Scalars
  BY <1>2, SMT DEF Scalars, Scalar, Surrogate, MaxCode
<1>7. /\ Begins(s, i, <<240 + x, 128 + y, 128 + z, 128 + w>>)
      /\ Len(<<240 + x, 128 + y, 128 + z, 128 + w>>) = 4
  BY SMT DEF Begins, Four
<1>8. ~Continues(s[i]) /\ Continues(s[i + 1]) /\ Continues(s[i + 2]) /\ Continues(s[i + 3])
  <2>1. ~Continues(240 + x)
    <3>1. x < 8
      BY SMT
    <3> QED
      BY <3>1, Lead4, SMT
  <2>2. Continues(128 + y) /\ Continues(128 + z) /\ Continues(128 + w)
    BY SixBits, SMT
  <2> QED
    BY <2>1, <2>2 DEF Four
<1>9. \A j \in i + 1 .. i + 4 - 1 : Continues(s[j])
  <2>1. \A j \in i + 1 .. i + 4 - 1 : j = i + 1 \/ j = i + 2 \/ j = i + 3
    BY SMT
  <2> QED
    BY <1>8, <2>1, Zenon
<1> QED
  BY <1>4, <1>5, <1>6, <1>7, <1>8, <1>9, Zenon DEF Reread

(* The bytes that fit the rows of one length, and what they carry.         *)
Bytes2(a, b) ==
    /\ a \in Nat /\ b \in Nat
    /\ 194 <= a /\ a <= 223
    /\ 128 <= b /\ b <= 191

Carried2(a, b, x, y) ==
    /\ a = 192 + x /\ b = 128 + y
    /\ 2 <= x /\ x < 32 /\ y < 64

Bytes3(a, b, c) ==
    /\ a \in Nat /\ b \in Nat /\ c \in Nat
    /\ 224 <= a /\ a <= 239
    /\ 128 <= b /\ b <= 191 /\ 128 <= c /\ c <= 191
    /\ (a = 224 => 160 <= b) /\ (a = 237 => b <= 159)

Carried3(a, b, c, x, y, z) ==
    /\ a = 224 + x /\ b = 128 + y /\ c = 128 + z
    /\ x < 16 /\ y < 64 /\ z < 64 /\ (x = 0 => 32 <= y) /\ (x = 13 => y < 32)

Bytes4(a, b, c, d) ==
    /\ a \in Nat /\ b \in Nat /\ c \in Nat /\ d \in Nat
    /\ 240 <= a /\ a <= 244
    /\ 128 <= b /\ b <= 191 /\ 128 <= c /\ c <= 191 /\ 128 <= d /\ d <= 191
    /\ (a = 240 => 144 <= b) /\ (a = 244 => b <= 143)

Carried4(a, b, c, d, x, y, z, w) ==
    /\ a = 240 + x /\ b = 128 + y /\ c = 128 + z /\ d = 128 + w
    /\ x <= 4 /\ y < 64 /\ z < 64 /\ w < 64 /\ (x = 0 => 16 <= y) /\ (x = 4 => y < 16)

LEMMA CarriesTwo ==
    ASSUME NEW a, NEW b, Bytes2(a, b)
    PROVE  \E x, y \in Nat : Carried2(a, b, x, y)
<1>1. PICK x \in Nat : a = 192 + x
  <2>1. a - 192 \in Nat /\ a = 192 + (a - 192)
    BY SMT DEF Bytes2
  <2> QED
    BY <2>1
<1>2. PICK y \in Nat : b = 128 + y
  <2>1. b - 128 \in Nat /\ b = 128 + (b - 128)
    BY SMT DEF Bytes2
  <2> QED
    BY <2>1
<1>3. Carried2(a, b, x, y)
  BY <1>1, <1>2, SMT DEF Carried2, Bytes2
<1> QED
  BY <1>3, Zenon

LEMMA RowTwo ==
    ASSUME NEW s \in Seq(Byte), NEW i \in 1 .. Len(s), i + 1 <= Len(s),
           Bytes2(s[i], s[i + 1])
    PROVE  Reread(s, i, 2)
<1>1. PICK x, y \in Nat : Carried2(s[i], s[i + 1], x, y)
  BY CarriesTwo, Zenon
<1>2. Two(s, i, x, y)
  BY <1>1, SMT DEF Carried2, Two
<1>3. 2 <= x /\ x < 32 /\ y < 64
  BY <1>1, SMT DEF Carried2
<1> QED
  BY <1>2, <1>3, Reread2, SMT

LEMMA CarriesThree ==
    ASSUME NEW a, NEW b, NEW c, Bytes3(a, b, c)
    PROVE  \E x, y, z \in Nat : Carried3(a, b, c, x, y, z)
<1>1. PICK x \in Nat : a = 224 + x
  <2>1. a - 224 \in Nat /\ a = 224 + (a - 224)
    BY SMT DEF Bytes3
  <2> QED
    BY <2>1
<1>2. PICK y \in Nat : b = 128 + y
  <2>1. b - 128 \in Nat /\ b = 128 + (b - 128)
    BY SMT DEF Bytes3
  <2> QED
    BY <2>1
<1>3. PICK z \in Nat : c = 128 + z
  <2>1. c - 128 \in Nat /\ c = 128 + (c - 128)
    BY SMT DEF Bytes3
  <2> QED
    BY <2>1
<1>4. Carried3(a, b, c, x, y, z)
  BY <1>1, <1>2, <1>3, SMT DEF Carried3, Bytes3
<1> QED
  BY <1>4, Zenon

LEMMA RowThree ==
    ASSUME NEW s \in Seq(Byte), NEW i \in 1 .. Len(s), i + 2 <= Len(s),
           Bytes3(s[i], s[i + 1], s[i + 2])
    PROVE  Reread(s, i, 3)
<1>1. PICK x, y, z \in Nat : Carried3(s[i], s[i + 1], s[i + 2], x, y, z)
  BY CarriesThree, Zenon
<1>2. Three(s, i, x, y, z)
  BY <1>1, SMT DEF Carried3, Three
<1>3. x < 16 /\ y < 64 /\ z < 64 /\ (x = 0 => 32 <= y) /\ (x = 13 => y < 32)
  BY <1>1, SMT DEF Carried3
<1> QED
  BY <1>2, <1>3, Reread3, SMT

LEMMA CarriesFour ==
    ASSUME NEW a, NEW b, NEW c, NEW d, Bytes4(a, b, c, d)
    PROVE  \E x, y, z, w \in Nat : Carried4(a, b, c, d, x, y, z, w)
<1>1. PICK x \in Nat : a = 240 + x
  <2>1. a - 240 \in Nat /\ a = 240 + (a - 240)
    BY SMT DEF Bytes4
  <2> QED
    BY <2>1
<1>2. PICK y \in Nat : b = 128 + y
  <2>1. b - 128 \in Nat /\ b = 128 + (b - 128)
    BY SMT DEF Bytes4
  <2> QED
    BY <2>1
<1>3. PICK z \in Nat : c = 128 + z
  <2>1. c - 128 \in Nat /\ c = 128 + (c - 128)
    BY SMT DEF Bytes4
  <2> QED
    BY <2>1
<1>4. PICK w \in Nat : d = 128 + w
  <2>1. d - 128 \in Nat /\ d = 128 + (d - 128)
    BY SMT DEF Bytes4
  <2> QED
    BY <2>1
<1>5. Carried4(a, b, c, d, x, y, z, w)
  BY <1>1, <1>2, <1>3, <1>4, SMT DEF Carried4, Bytes4
<1> QED
  BY <1>5, Zenon

LEMMA RowFour ==
    ASSUME NEW s \in Seq(Byte), NEW i \in 1 .. Len(s), i + 3 <= Len(s),
           Bytes4(s[i], s[i + 1], s[i + 2], s[i + 3])
    PROVE  Reread(s, i, 4)
<1>1. PICK x, y, z, w \in Nat : Carried4(s[i], s[i + 1], s[i + 2], s[i + 3], x, y, z, w)
  BY CarriesFour, Zenon
<1>2. Four(s, i, x, y, z, w)
  BY <1>1, SMT DEF Carried4, Four
<1>3. x <= 4 /\ y < 64 /\ z < 64 /\ w < 64 /\ (x = 0 => 16 <= y) /\ (x = 4 => y < 16)
  BY <1>1, SMT DEF Carried4
<1> QED
  BY <1>2, <1>3, Reread4, SMT

(* What the rows say of the bytes that fit them.                           *)
Row1(A) == \A a \in A : a \in Nat /\ a <= 127
Row2(A, B) == \A a \in A, b \in B : Bytes2(a, b)
Row3(A, B, C) == \A a \in A, b \in B, c \in C : Bytes3(a, b, c)
Row4(A, B, C, D) == \A a \in A, b \in B, c \in C, d \in D : Bytes4(a, b, c, d)

LEMMA RowsAre ==
    ASSUME NEW row \in Rows
    PROVE  \/ \E A : row = <<A>> /\ Row1(A)
           \/ \E A, B : row = <<A, B>> /\ Row2(A, B)
           \/ \E A, B, C : row = <<A, B, C>> /\ Row3(A, B, C)
           \/ \E A, B, C, D : row = <<A, B, C, D>> /\ Row4(A, B, C, D)
<1>1. CASE row = <<0 .. 127>>
  <2>1. Row1(0 .. 127)
    BY SMT DEF Row1
  <2> QED
    BY <1>1, <2>1
<1>2. CASE row = <<194 .. 223, 128 .. 191>>
  <2>1. Row2(194 .. 223, 128 .. 191)
    BY SMT DEF Row2, Bytes2
  <2> QED
    BY <1>2, <2>1
<1>3. CASE row = <<{224}, 160 .. 191, 128 .. 191>>
  <2>1. Row3({224}, 160 .. 191, 128 .. 191)
    BY SMT DEF Row3, Bytes3
  <2> QED
    BY <1>3, <2>1
<1>4. CASE row = <<225 .. 236, 128 .. 191, 128 .. 191>>
  <2>1. Row3(225 .. 236, 128 .. 191, 128 .. 191)
    BY SMT DEF Row3, Bytes3
  <2> QED
    BY <1>4, <2>1
<1>5. CASE row = <<{237}, 128 .. 159, 128 .. 191>>
  <2>1. Row3({237}, 128 .. 159, 128 .. 191)
    BY SMT DEF Row3, Bytes3
  <2> QED
    BY <1>5, <2>1
<1>6. CASE row = <<238 .. 239, 128 .. 191, 128 .. 191>>
  <2>1. Row3(238 .. 239, 128 .. 191, 128 .. 191)
    BY SMT DEF Row3, Bytes3
  <2> QED
    BY <1>6, <2>1
<1>7. CASE row = <<{240}, 144 .. 191, 128 .. 191, 128 .. 191>>
  <2>1. Row4({240}, 144 .. 191, 128 .. 191, 128 .. 191)
    BY SMT DEF Row4, Bytes4
  <2> QED
    BY <1>7, <2>1
<1>8. CASE row = <<241 .. 243, 128 .. 191, 128 .. 191, 128 .. 191>>
  <2>1. Row4(241 .. 243, 128 .. 191, 128 .. 191, 128 .. 191)
    BY SMT DEF Row4, Bytes4
  <2> QED
    BY <1>8, <2>1
<1>9. CASE row = <<{244}, 128 .. 143, 128 .. 191, 128 .. 191>>
  <2>1. Row4({244}, 128 .. 143, 128 .. 191, 128 .. 191)
    BY SMT DEF Row4, Bytes4
  <2> QED
    BY <1>9, <2>1
<1> QED
  BY <1>1, <1>2, <1>3, <1>4, <1>5, <1>6, <1>7, <1>8, <1>9, SMT DEF Rows

(* A well-formed character is read as a scalar that is put as it was.      *)
LEMMA RowIs ==
    ASSUME NEW s \in Seq(Byte), NEW i \in 1 .. Len(s), NEW row \in Rows, Fits(s, i, row)
    PROVE  Reread(s, i, Len(row))
<1>1. ASSUME NEW A, row = <<A>>, Row1(A)
      PROVE  Reread(s, i, Len(row))
  <2>1. s[i] \in A
    BY <1>1, FitsOne
  <2>2. s[i] \in Nat /\ s[i] <= 127
    BY <1>1, <2>1, Zenon DEF Row1
  <2>3. Reread(s, i, 1)
    BY <2>2, Reread1, SMT
  <2> QED
    BY <1>1, <2>3
<1>2. ASSUME NEW A, NEW B, row = <<A, B>>, Row2(A, B)
      PROVE  Reread(s, i, Len(row))
  <2>1. i + 1 <= Len(s) /\ s[i] \in A /\ s[i + 1] \in B
    BY <1>2, FitsTwo
  <2>2. Bytes2(s[i], s[i + 1])
    BY <1>2, <2>1, Zenon DEF Row2
  <2>3. Reread(s, i, 2)
    BY <2>1, <2>2, RowTwo
  <2> QED
    BY <1>2, <2>3
<1>3. ASSUME NEW A, NEW B, NEW C, row = <<A, B, C>>, Row3(A, B, C)
      PROVE  Reread(s, i, Len(row))
  <2>1. i + 2 <= Len(s) /\ s[i] \in A /\ s[i + 1] \in B /\ s[i + 2] \in C
    BY <1>3, FitsThree
  <2>2. Bytes3(s[i], s[i + 1], s[i + 2])
    BY <1>3, <2>1, Zenon DEF Row3
  <2>3. Reread(s, i, 3)
    BY <2>1, <2>2, RowThree
  <2> QED
    BY <1>3, <2>3
<1>4. ASSUME NEW A, NEW B, NEW C, NEW D, row = <<A, B, C, D>>, Row4(A, B, C, D)
      PROVE  Reread(s, i, Len(row))
  <2>1. i + 3 <= Len(s) /\ s[i] \in A /\ s[i + 1] \in B /\ s[i + 2] \in C /\ s[i + 3] \in D
    BY <1>4, FitsFour
  <2>2. Bytes4(s[i], s[i + 1], s[i + 2], s[i + 3])
    BY <1>4, <2>1, Zenon DEF Row4
  <2>3. Reread(s, i, 4)
    BY <2>1, <2>2, RowFour
  <2> QED
    BY <1>4, <2>3
<1> QED
  BY <1>1, <1>2, <1>3, <1>4, RowsAre

(* Well-formed text is read along the characters that it is made of.       *)
Through(s, C, U, W) ==
    \A i \in 1 .. Len(s) : i \in W =>
        /\ C[i] = u8tou32(s, i).code /\ Reread(s, i, U[i])
        /\ U[i] \in 1 .. Len(s) + 1 - i /\ i + U[i] \in W

LEMMA WellRead ==
    ASSUME NEW s \in Seq(Byte), WellFormed(s), NEW f, NEW C, NEW U, Reads8(f, s, C, U)
    PROVE  \E W : 1 \in W /\ Through(s, C, U, W)
<1>1. PICK W \in SUBSET (1 .. Len(s) + 1) :
        /\ 1 \in W
        /\ \A i \in W \ {Len(s) + 1} :
              \E row \in Rows : Fits(s, i, row) /\ i + Len(row) \in W
  BY DEF WellFormed
<1>2. ASSUME NEW i \in 1 .. Len(s), i \in W
      PROVE  /\ C[i] = u8tou32(s, i).code /\ Reread(s, i, U[i])
             /\ U[i] \in 1 .. Len(s) + 1 - i /\ i + U[i] \in W
  <2>1. i \in W \ {Len(s) + 1}
    BY <1>2
  <2>2. PICK row \in Rows : Fits(s, i, row) /\ i + Len(row) \in W
    BY <1>1, <2>1, Zenon
  <2>3. Reread(s, i, Len(row))
    BY <2>2, RowIs, Zenon
  <2>4. /\ C[i] = u8tou32(s, i).code /\ U[i] = u8tou32(s, i).used
        /\ U[i] \in 1 .. Len(s) + 1 - i
    BY Zenon DEF Reads8
  <2>5. U[i] = Len(row)
    BY <2>3, <2>4, Zenon DEF Reread
  <2> QED
    BY <2>2, <2>3, <2>4, <2>5, Zenon
<1>3. Through(s, C, U, W)
  BY <1>2, Zenon DEF Through
<1> QED
  BY <1>1, <1>3, Zenon

(* It is put as it was, and has as many characters as mbslen() counts.     *)
LEMMA Back8 ==
    ASSUME NEW s \in Seq(Byte), WellFormed(s)
    PROVE  /\ Codes(s, u8tou32) \in Seq(Scalars)
           /\ Encoded(Codes(s, u8tou32), u32tou8) = s
           /\ Count8(s) = mbslen(s)
<1> DEFINE P == Put8(Scalars)
<1>0. Scalars \subseteq AnyCode
  BY DEF Scalars, AnyCode
<1>1. P \in Maps(Scalars, Byte) /\ \A c \in Scalars : P[c] = u32tou8(c)
  BY <1>0, Put8Is
<1>2. PICK f, C, U : Reads8(f, s, C, U)
  BY Reading8
<1>3. Along(f, Len(s), C, U) /\ Codes(s, u8tou32) = f[1]
  BY <1>2 DEF Reads8
<1>w. PICK W : 1 \in W /\ Through(s, C, U, W)
  BY <1>2, WellRead, Zenon
<1> HIDE DEF P
<1>4. \A i \in 1 .. Len(s) : i \in W =>
         /\ C[i] \in Scalars /\ Begins(s, i, P[C[i]]) /\ U[i] = Len(P[C[i]])
         /\ U[i] \in 1 .. Len(s) + 1 - i /\ i + U[i] \in W
  <2> SUFFICES ASSUME NEW i \in 1 .. Len(s), i \in W
               PROVE  /\ C[i] \in Scalars /\ Begins(s, i, P[C[i]]) /\ U[i] = Len(P[C[i]])
                      /\ U[i] \in 1 .. Len(s) + 1 - i /\ i + U[i] \in W
    OBVIOUS
  <2>1. /\ C[i] = u8tou32(s, i).code /\ Reread(s, i, U[i])
        /\ U[i] \in 1 .. Len(s) + 1 - i /\ i + U[i] \in W
    BY <1>w, Zenon DEF Through
  <2>2. C[i] \in Scalars /\ Begins(s, i, u32tou8(C[i])) /\ U[i] = Len(u32tou8(C[i]))
    BY <2>1, Zenon DEF Reread
  <2>3. P[C[i]] = u32tou8(C[i])
    BY <1>1, <2>2
  <2> QED
    BY <2>1, <2>2, <2>3, Zenon
<1>5. \A i \in 1 .. Len(s) + 1 : i \in W =>
          f[i] \in Seq(Scalars) /\ Enc(P, f[i]) = Rest(s, i)
  BY <1>1, <1>3, <1>4, EncodeAll
<1>6. f[1] \in Seq(Scalars) /\ Enc(P, f[1]) = Rest(s, 1)
  <2>1. 1 \in 1 .. Len(s) + 1
    OBVIOUS
  <2> QED
    BY <1>5, <1>w, <2>1
<1>7. Rest(s, 1) = s
  BY SubSeqFull DEF Rest
<1>8. Encoded(f[1], u32tou8) = Enc(P, f[1])
  BY <1>0, <1>6, Encoded8Is DEF P
<1>9. Len(f[1]) = mbslen(s)
  <2> DEFINE N(i) == {j \in i .. Len(s) : ~Continues(s[j])}
             Q == {i \in 1 .. Len(s) + 1 : i \in W =>
                       IsFiniteSet(N(i)) /\ Len(f[i]) = Cardinality(N(i))}
  <2>a. Len(s) \in Nat
    OBVIOUS
  <2>b. f[Len(s) + 1] = <<>> /\ \A i \in 1 .. Len(s) : f[i] = Join(C[i], f[i + U[i]])
    BY <1>3, <2>a, AlongIs
  <2>1. Len(s) + 1 \in Q
    <3>1. N(Len(s) + 1) = {}
      BY <2>a
    <3>2. IsFiniteSet(N(Len(s) + 1)) /\ Cardinality(N(Len(s) + 1)) = 0
      BY <3>1, FS_EmptySet
    <3>3. Len(f[Len(s) + 1]) = 0
      BY <2>b
    <3> QED
      BY <2>a, <3>2, <3>3
  <2>2. ASSUME NEW i \in 1 .. Len(s), \A j \in i + 1 .. Len(s) + 1 : j \in Q
        PROVE  i \in Q
    <3> SUFFICES ASSUME i \in W
                 PROVE  IsFiniteSet(N(i)) /\ Len(f[i]) = Cardinality(N(i))
      OBVIOUS
    <3>1. /\ Reread(s, i, U[i])
          /\ U[i] \in 1 .. Len(s) + 1 - i /\ i + U[i] \in W
      BY <1>w, Zenon DEF Through
    <3>2. /\ C[i] \in Scalars
          /\ ~Continues(s[i]) /\ \A j \in i + 1 .. i + U[i] - 1 : Continues(s[j])
      BY <1>4, <3>1, Zenon DEF Reread
    <3>3. i + U[i] \in i + 1 .. Len(s) + 1
      BY <3>1
    <3>4. IsFiniteSet(N(i + U[i])) /\ Len(f[i + U[i]]) = Cardinality(N(i + U[i]))
      BY <2>2, <3>1, <3>3
    <3>5. N(i) = N(i + U[i]) \cup {i}
      <4>1. \A j \in i .. Len(s) : j = i \/ j \in i + 1 .. i + U[i] - 1 \/ j \in i + U[i] .. Len(s)
        BY <3>1
      <4>2. i \in i .. Len(s) /\ \A j \in i + U[i] .. Len(s) : j \in i .. Len(s)
        BY <3>3
      <4> QED
        BY <3>2, <4>1, <4>2, Zenon
    <3>6. i \notin N(i + U[i])
      BY <3>3
    <3>7. IsFiniteSet(N(i)) /\ Cardinality(N(i)) = Cardinality(N(i + U[i])) + 1
      <4> HIDE DEF N
      <4>1. /\ IsFiniteSet(N(i + U[i]) \cup {i})
            /\ Cardinality(N(i + U[i]) \cup {i}) = Cardinality(N(i + U[i])) + 1
        BY <3>4, <3>6, FS_AddElement
      <4> QED
        BY <3>5, <4>1
    <3>8. f[i + U[i]] \in Seq(Scalars)
      <4>1. i + U[i] \in 1 .. Len(s) + 1
        BY <3>3
      <4> QED
        BY <1>5, <3>1, <4>1, Zenon
    <3>9. Len(f[i]) = Len(f[i + U[i]]) + 1
      <4>1. PICK t \in Seq(Scalars) : t = f[i + U[i]]
        BY <3>8
      <4>2. f[i] = Join(C[i], t)
        BY <2>b, <4>1
      <4>3. t \in Seq(Scalars)
        BY <4>1
      <4>4. Len(Join(C[i], t)) = Len(t) + 1
        <5>1. \A c \in Scalars : \A x \in Seq(Scalars) : Len(Join(c, x)) = Len(x) + 1
          BY JoinIs
        <5> QED
          BY <4>3, <3>2, <5>1, Zenon
      <4> QED
        BY <4>1, <4>2, <4>4
    <3> QED
      BY <3>4, <3>7, <3>9
  <2> HIDE DEF Q
  <2>3. \A i \in 1 .. Len(s) + 1 : i \in Q
    BY <2>a, <2>1, <2>2, Backward
  <2>4. 1 \in 1 .. Len(s) + 1 /\ 1 \in W
    BY <1>w, <2>a
  <2>5. Len(f[1]) = Cardinality(N(1))
    BY <2>3, <2>4 DEF Q
  <2>6. N(1) = {i \in DOMAIN s : ~Continues(s[i])}
    BY <2>a
  <2> QED
    BY <2>5, <2>6 DEF mbslen
<1> QED
  BY <1>3, <1>6, <1>7, <1>8, <1>9, Zenon DEF Count8

-----------------------------------------------------------------------------
(* The conversions of strings.                                             *)
LEMMA EmptyIs ==
    /\ u8tou16(<<>>) = <<>> /\ u16tou8(<<>>) = <<>>
<1>1. /\ <<>> \in Seq(Byte) /\ <<>> \in Seq(Unit) /\ Len(<<>>) = 0
      /\ <<>> \in Seq(AnyCode)
  OBVIOUS
<1>2. Codes(<<>>, u8tou32) = <<>>
  <2>1. PICK f, C, U : Reads8(f, <<>>, C, U)
    BY <1>1, Reading8, Zenon
  <2>2. Along(f, 0, C, U) /\ Codes(<<>>, u8tou32) = f[1]
    BY <1>1, <2>1 DEF Reads8
  <2>3. f[0 + 1] = <<>>
    BY <2>2, AlongIs
  <2> QED
    BY <2>2, <2>3
<1>3. Codes(<<>>, u16tou32) = <<>>
  <2>1. PICK f, C, U : Reads16(f, <<>>, C, U)
    BY <1>1, Reading16, Zenon
  <2>2. Along(f, 0, C, U) /\ Codes(<<>>, u16tou32) = f[1]
    BY <1>1, <2>1 DEF Reads16
  <2>3. f[0 + 1] = <<>>
    BY <2>2, AlongIs
  <2> QED
    BY <2>2, <2>3
<1>4. Put8(AnyCode) \in Maps(AnyCode, Byte) /\ Put16(AnyCode) \in Maps(AnyCode, Unit)
  BY Put8Is, Put16Is
<1>5. Enc(Put8(AnyCode), <<>>) = <<>> /\ Enc(Put16(AnyCode), <<>>) = <<>>
  BY <1>1, <1>4, EncEmpty
<1>6. Encoded(<<>>, u32tou8) = <<>> /\ Encoded(<<>>, u32tou16) = <<>>
  BY <1>1, <1>5, Encoded8Is, Encoded16Is
<1> QED
  BY <1>2, <1>3, <1>6, Zenon DEF u8tou16, u16tou8

LEMMA To16 ==
    ASSUME NEW s \in Seq(Byte)
    PROVE  u8tou16(s) \in Seq(Unit)
<1>1. Codes(s, u8tou32) \in Seq(AnyCode)
  BY Codes8In
<1> QED
  BY <1>1, Encoded16Is DEF u8tou16

(* UTF-16 comes back as it was, and every character of it is counted.      *)
LEMMA To8 ==
    ASSUME NEW s \in Seq(Unit)
    PROVE  /\ u16tou8(s) \in Seq(Byte) /\ u8tou16(u16tou8(s)) = s
           /\ Count8(u16tou8(s)) = Count16(s)
<1>1. /\ Codes(s, u16tou32) \in Seq(Encodable)
      /\ Encoded(Codes(s, u16tou32), u32tou16) = s
  BY Back16
<1>2. /\ Encoded(Codes(s, u16tou32), u32tou8) \in Seq(Byte)
      /\ Codes(Encoded(Codes(s, u16tou32), u32tou8), u8tou32) = Codes(s, u16tou32)
  BY <1>1, There8
<1> QED
  BY <1>1, <1>2, Zenon DEF u16tou8, u8tou16, Count8, Count16

(* So does UTF-8, when it is well-formed.                                  *)
LEMMA WellBack ==
    ASSUME NEW s \in Seq(Byte), WellFormed(s)
    PROVE  u16tou8(u8tou16(s)) = s /\ Count16(u8tou16(s)) = Count8(s)
<1>1. /\ Codes(s, u8tou32) \in Seq(Scalars)
      /\ Encoded(Codes(s, u8tou32), u32tou8) = s
  BY Back8
<1>2. Codes(Encoded(Codes(s, u8tou32), u32tou16), u16tou32) = Codes(s, u8tou32)
  BY <1>1, There16
<1> QED
  BY <1>1, <1>2, Zenon DEF u16tou8, u8tou16, Count8, Count16

(* And UTF-32, when it has no surrogates.                                  *)
LEMMA CodesBack ==
    ASSUME NEW cs \in Seq(Scalars)
    PROVE  /\ Codes(u32stou8(cs), u8tou32) = cs
           /\ u16tou8(u8tou16(u32stou8(cs))) = u32stou8(cs)
<1>1. cs \in Seq(Encodable)
  <2>1. Scalars \subseteq Encodable
    BY DEF Scalars, Encodable, Scalar
  <2> QED
    BY <2>1, SeqSub
<1>2. Codes(Encoded(cs, u32tou8), u8tou32) = cs
  BY <1>1, There8
<1>3. Codes(Encoded(cs, u32tou16), u16tou32) = cs
  BY There16
<1> QED
  BY <1>2, <1>3, Zenon DEF u32stou8, u16tou8, u8tou16

LEMMA CodesTo8 ==
    ASSUME NEW cs \in Seq(Nat)
    PROVE  u32stou8(cs) \in Seq(Byte)
<1>1. Nat \subseteq AnyCode
  BY DEF AnyCode
<1> QED
  BY <1>1, Encoded8Is DEF u32stou8

-----------------------------------------------------------------------------
(* The string in the forms c and w, and what get_string() makes of them.   *)
BytesOf(c, w) == IF c = <<>> /\ w # <<>> THEN u16tou8(w) ELSE c
UnitsOf(c, w) == IF w = <<>> /\ c # <<>> THEN u8tou16(c) ELSE w

(* The text that is t as UTF-8 and u as UTF-16, in one form or in both.    *)
Held(c, w, t, u) ==
    /\ u = u8tou16(t) /\ t = u16tou8(u)
    /\ (c = t /\ w = <<>>) \/ (c = t /\ w = u) \/ (c = <<>> /\ w = u)

LEMMA HeldIs ==
    ASSUME NEW c, NEW w, NEW t, NEW u, Held(c, w, t, u)
    PROVE  BytesOf(c, w) = t /\ UnitsOf(c, w) = u
<1>1. u = u8tou16(t) /\ t = u16tou8(u) /\ (t = <<>> <=> u = <<>>)
  BY EmptyIs, Zenon DEF Held
<1>2. CASE c = t /\ w = <<>>
  BY <1>1, <1>2 DEF BytesOf, UnitsOf
<1>3. CASE c = t /\ w = u
  BY <1>1, <1>3 DEF BytesOf, UnitsOf
<1>4. CASE c = <<>> /\ w = u
  BY <1>1, <1>4 DEF BytesOf, UnitsOf
<1> QED
  BY <1>2, <1>3, <1>4, Zenon DEF Held

LEMMA HeldOn ==
    ASSUME NEW c, NEW w, NEW t, NEW u, Held(c, w, t, u)
    PROVE  /\ Held(BytesOf(c, w), w, t, u) /\ Held(c, UnitsOf(c, w), t, u)
           /\ Held(BytesOf(c, w), <<>>, t, u) /\ Held(<<>>, UnitsOf(c, w), t, u)
<1>1. BytesOf(c, w) = t /\ UnitsOf(c, w) = u
  BY HeldIs
<1>2. /\ u = u8tou16(t) /\ t = u16tou8(u)
      /\ c = t \/ c = <<>>
      /\ w = u \/ w = <<>>
      /\ (c = t /\ w = <<>>) \/ (c = t /\ w = u) \/ (c = <<>> /\ w = u)
  BY DEF Held
<1>3. Held(t, w, t, u)
  BY <1>2, Zenon DEF Held
<1>4. Held(c, u, t, u)
  BY <1>2, Zenon DEF Held
<1>5. Held(t, <<>>, t, u)
  BY <1>2 DEF Held
<1>6. Held(<<>>, u, t, u)
  BY <1>2 DEF Held
<1> QED
  BY <1>1, <1>3, <1>4, <1>5, <1>6

LEMMA HeldAlone ==
    ASSUME NEW t, u16tou8(u8tou16(t)) = t
    PROVE  Held(t, <<>>, t, u8tou16(t))
<1>1. t = u16tou8(u8tou16(t))
  OBVIOUS
<1>2. PICK u : u = u8tou16(t) /\ t = u16tou8(u)
  BY <1>1
<1>3. Held(t, <<>>, t, u)
  BY <1>2 DEF Held
<1> QED
  BY <1>2, <1>3

(* Of two forms, one is what the other is converted to.                    *)
Paired(c, w) == w = u8tou16(c) \/ c = u16tou8(w)

LEMMA PairedOn ==
    ASSUME NEW c, NEW w, c # <<>> /\ w # <<>> => Paired(c, w)
    PROVE  /\ Paired(BytesOf(c, w), UnitsOf(c, w))
           /\ BytesOf(c, w) # <<>> /\ w # <<>> => Paired(BytesOf(c, w), w)
           /\ c # <<>> /\ UnitsOf(c, w) # <<>> => Paired(c, UnitsOf(c, w))
<1>1. CASE c # <<>> /\ w # <<>>
  BY <1>1 DEF BytesOf, UnitsOf
<1>2. CASE c = <<>> /\ w # <<>>
  BY <1>2 DEF BytesOf, UnitsOf, Paired
<1>3. CASE c # <<>> /\ w = <<>>
  BY <1>3 DEF BytesOf, UnitsOf, Paired
<1>4. CASE c = <<>> /\ w = <<>>
  BY <1>4, EmptyIs DEF BytesOf, UnitsOf, Paired
<1> QED
  BY <1>1, <1>2, <1>3, <1>4, Zenon

LEMMA PairedCounts ==
    ASSUME NEW c \in Seq(Byte), NEW w \in Seq(Unit), Paired(c, w), WellFormed(c)
    PROVE  Count8(c) = mbslen(c) /\ Count16(w) = mbslen(c)
<1>1. Count8(c) = mbslen(c)
  BY Back8
<1>2. CASE w = u8tou16(c)
  BY <1>1, <1>2, WellBack
<1>3. CASE c = u16tou8(w)
  BY <1>1, <1>3, To8
<1> QED
  BY <1>1, <1>2, <1>3, Zenon DEF Paired

-----------------------------------------------------------------------------
(* The specification.                                                      *)

(* What is there came from the text assigned last.                         *)
Came ==
    /\ origin.form = "wchar" =>
           /\ origin.text \in Seq(Unit)
           /\ Held(m_cstr, m_wstr, u16tou8(origin.text), origin.text)
    /\ origin.form = "char" =>
           (WellFormed(origin.text) =>
                Held(m_cstr, m_wstr, origin.text, u8tou16(origin.text)))
    /\ origin.form = "code" =>
           (origin.text \in Seq(Scalars) =>
                Held(m_cstr, m_wstr, u32stou8(origin.text), u8tou16(u32stou8(origin.text))))

StringInv ==
    /\ UniTypeOK
    /\ origin.form \in {"char", "wchar", "code"}
    /\ origin.form = "code" => origin.text \in Seq(Nat)
    /\ Came
    /\ m_cstr # <<>> /\ m_wstr # <<>> => Paired(m_cstr, m_wstr)

LEMMA FormsAre == Bytes = BytesOf(m_cstr, m_wstr) /\ Units = UnitsOf(m_cstr, m_wstr)
  BY Zenon DEF Bytes, Units, BytesOf, UnitsOf

LEMMA FormsIn ==
    ASSUME UniTypeOK
    PROVE  Bytes \in Seq(Byte) /\ Units \in Seq(Unit)
  BY To8, To16 DEF UniTypeOK, Bytes, Units

LEMMA StringInit == UniInit => StringInv
<1> SUFFICES ASSUME UniInit
             PROVE  StringInv
  OBVIOUS
<1>1. m_cstr = <<>> /\ m_wstr = <<>> /\ origin.form = "char" /\ origin.text = <<>>
  BY DEF UniInit
<1>2. UniTypeOK
  BY <1>1 DEF UniTypeOK
<1>3. Held(m_cstr, m_wstr, <<>>, u8tou16(<<>>))
  BY <1>1, EmptyIs DEF Held
<1>4. Came
  BY <1>1, <1>3 DEF Came
<1> QED
  BY <1>1, <1>2, <1>4 DEF StringInv

(* A step that leaves the text, and holds it in the form or forms c and w. *)
LEMMA Holds ==
    ASSUME StringInv, UNCHANGED origin, UniTypeOK',
           \A t, u : Held(m_cstr, m_wstr, t, u) => Held(m_cstr', m_wstr', t, u),
           m_cstr' # <<>> /\ m_wstr' # <<>> => Paired(m_cstr', m_wstr')
    PROVE  StringInv'
<1>1. Came'
  <2>1. origin' = origin /\ Came
    BY DEF StringInv
  <2> QED
    BY <2>1, Zenon DEF Came
<1> QED
  BY <1>1, Zenon DEF StringInv

LEMMA StringStep == StringInv /\ [UniNext]_univars => StringInv'
<1> SUFFICES ASSUME StringInv, [UniNext]_univars
             PROVE  StringInv'
  OBVIOUS
<1>0. UniTypeOK /\ (m_cstr # <<>> /\ m_wstr # <<>> => Paired(m_cstr, m_wstr))
  BY DEF StringInv
<1>a. Bytes \in Seq(Byte) /\ Units \in Seq(Unit)
  BY <1>0, FormsIn
<1>b. Bytes = BytesOf(m_cstr, m_wstr) /\ Units = UnitsOf(m_cstr, m_wstr)
  BY FormsAre
<1>c. /\ Bytes # <<>> /\ m_wstr # <<>> => Paired(Bytes, m_wstr)
      /\ m_cstr # <<>> /\ Units # <<>> => Paired(m_cstr, Units)
  BY <1>0, <1>b, PairedOn
<1>d. ASSUME NEW t, NEW u, Held(m_cstr, m_wstr, t, u)
      PROVE  /\ Held(Bytes, m_wstr, t, u) /\ Held(m_cstr, Units, t, u)
             /\ Held(Bytes, <<>>, t, u) /\ Held(<<>>, Units, t, u)
  BY <1>b, <1>d, HeldOn
<1>e. <<>> \in Seq(Byte) /\ <<>> \in Seq(Unit)
  OBVIOUS
<1>1. ASSUME NEW s \in ByteTexts, AssignBytes(s)
      PROVE  StringInv'
  <2>1. s \in Seq(Byte)
    BY TextAssumption
  <2>2. m_cstr' = s /\ m_wstr' = <<>> /\ origin'.form = "char" /\ origin'.text = s
    BY <1>1 DEF AssignBytes
  <2>3. UniTypeOK'
    BY <1>e, <2>1, <2>2 DEF UniTypeOK
  <2>4. WellFormed(s) => Held(s, <<>>, s, u8tou16(s))
    BY <2>1, WellBack, HeldAlone, Zenon
  <2>5. Came'
    BY <2>2, <2>4 DEF Came
  <2> QED
    BY <2>2, <2>3, <2>5 DEF StringInv
<1>2. ASSUME NEW s \in UnitTexts, AssignUnits(s)
      PROVE  StringInv'
  <2>1. s \in Seq(Unit)
    BY TextAssumption
  <2>2. m_cstr' = <<>> /\ m_wstr' = s /\ origin'.form = "wchar" /\ origin'.text = s
    BY <1>2 DEF AssignUnits
  <2>3. UniTypeOK'
    BY <1>e, <2>1, <2>2 DEF UniTypeOK
  <2>4. Held(<<>>, s, u16tou8(s), s)
    BY <2>1, To8, Zenon DEF Held
  <2>5. Came'
    BY <2>1, <2>2, <2>4 DEF Came
  <2> QED
    BY <2>2, <2>3, <2>5 DEF StringInv
<1>3. ASSUME NEW s \in CodeTexts, AssignCodes(s)
      PROVE  StringInv'
  <2>1. s \in Seq(Nat)
    BY TextAssumption
  <2>2. m_cstr' = u32stou8(s) /\ m_wstr' = <<>> /\ origin'.form = "code" /\ origin'.text = s
    BY <1>3 DEF AssignCodes
  <2>3. UniTypeOK'
    BY <1>e, <2>1, <2>2, CodesTo8 DEF UniTypeOK
  <2>4. s \in Seq(Scalars) => Held(u32stou8(s), <<>>, u32stou8(s), u8tou16(u32stou8(s)))
    BY CodesBack, HeldAlone, Zenon
  <2>5. Came'
    BY <2>2, <2>4 DEF Came
  <2> QED
    BY <2>1, <2>2, <2>3, <2>5 DEF StringInv
<1>4. CASE GetBytes
  <2>1. m_cstr' = Bytes /\ m_wstr' = m_wstr /\ UNCHANGED origin
    BY <1>4 DEF GetBytes
  <2>2. UniTypeOK'
    BY <1>0, <1>a, <2>1 DEF UniTypeOK
  <2> QED
    BY <1>c, <1>d, <2>1, <2>2, Holds
<1>5. CASE GetUnits
  <2>1. m_wstr' = Units /\ m_cstr' = m_cstr /\ UNCHANGED origin
    BY <1>5 DEF GetUnits
  <2>2. UniTypeOK'
    BY <1>0, <1>a, <2>1 DEF UniTypeOK
  <2> QED
    BY <1>c, <1>d, <2>1, <2>2, Holds
<1>6. CASE ReassignBytes
  <2>1. m_cstr' = Bytes /\ m_wstr' = <<>> /\ UNCHANGED origin
    BY <1>6 DEF ReassignBytes
  <2>2. UniTypeOK'
    BY <1>a, <1>e, <2>1 DEF UniTypeOK
  <2> QED
    BY <1>d, <2>1, <2>2, Holds
<1>7. CASE ReassignUnits
  <2>1. m_cstr' = <<>> /\ m_wstr' = Units /\ UNCHANGED origin
    BY <1>7 DEF ReassignUnits
  <2>2. UniTypeOK'
    BY <1>a, <1>e, <2>1 DEF UniTypeOK
  <2> QED
    BY <1>d, <2>1, <2>2, Holds
<1>8. CASE UNCHANGED univars
  <2>1. UNCHANGED <<m_cstr, m_wstr, origin>>
    BY <1>8 DEF univars
  <2> QED
    BY <2>1 DEF StringInv, UniTypeOK, Came
<1> QED
  BY <1>1, <1>2, <1>3, <1>4, <1>5, <1>6, <1>7, <1>8, Zenon DEF UniNext

LEMMA StringSafe == StringInv => TextKept /\ FormsAgree
<1> SUFFICES ASSUME StringInv
             PROVE  TextKept /\ FormsAgree
  OBVIOUS
<1>0. UniTypeOK /\ (m_cstr # <<>> /\ m_wstr # <<>> => Paired(m_cstr, m_wstr)) /\ Came
  BY DEF StringInv
<1>a. Bytes \in Seq(Byte) /\ Units \in Seq(Unit)
  BY <1>0, FormsIn
<1>b. Bytes = BytesOf(m_cstr, m_wstr) /\ Units = UnitsOf(m_cstr, m_wstr)
  BY FormsAre
<1>c. ASSUME NEW t, NEW u, Held(m_cstr, m_wstr, t, u)
      PROVE  Bytes = t /\ Units = u
  BY <1>b, <1>c, HeldIs
<1>1. TextKept
  <2>1. CASE origin.form = "wchar"
    <3>1. Units = origin.text
      BY <1>0, <1>c, <2>1, Zenon DEF Came
    <3> QED
      BY <2>1, <3>1 DEF TextKept
  <2>2. CASE origin.form = "char"
    <3>1. WellFormed(origin.text) => Bytes = origin.text
      BY <1>0, <1>c, <2>2, Zenon DEF Came
    <3> QED
      BY <2>2, <3>1 DEF TextKept
  <2>3. CASE origin.form = "code"
    <3>1. origin.text \in Seq(Nat)
      BY <2>3 DEF StringInv
    <3>2. ASSUME \A k \in DOMAIN origin.text : Scalar(origin.text[k])
          PROVE  Codes(Bytes, u8tou32) = origin.text
      <4>1. origin.text \in Seq(Scalars)
        BY <3>1, <3>2 DEF Scalars
      <4>2. Bytes = u32stou8(origin.text)
        BY <1>0, <1>c, <2>3, <4>1, Zenon DEF Came
      <4> QED
        BY <4>1, <4>2, CodesBack
    <3> QED
      BY <2>3, <3>2 DEF TextKept
  <2> QED
    BY <2>1, <2>2, <2>3, Zenon DEF StringInv
<1>2. FormsAgree
  <2>1. Paired(Bytes, Units)
    BY <1>0, <1>b, PairedOn
  <2>2. WellFormed(Bytes) => Count8(Bytes) = mbslen(Bytes) /\ Count16(Units) = mbslen(Bytes)
    BY <1>a, <2>1, PairedCounts
  <2> QED
    BY <1>0, <2>2, Zenon DEF FormsAgree, Paired
<1> QED
  BY <1>1, <1>2

(* Whatever a program assigns to a uni_string and asks of it, the two      *)
(* forms agree, and UTF-16, well-formed UTF-8, and UTF-32 without          *)
(* surrogates keep their text through every conversion there and back      *)
(* (sysstring.h: uni_string, u8tou16, u16tou8, u32tou8 and mbslen).        *)
THEOREM StringKept == UniSpec => [](UniTypeOK /\ TextKept /\ FormsAgree)
<1>1. UniSpec => []StringInv
  BY StringInit, StringStep, PTL DEF UniSpec
<1>2. StringInv => UniTypeOK /\ TextKept /\ FormsAgree
  BY StringSafe DEF StringInv
<1> QED
  BY <1>1, <1>2, PTL

(* The types of the variables of UniString: both forms, and what the       *)
(* decoder returns (sysstring.h: uni_string).                              *)
THEOREM StringTypes == UniSpec => []UniTypeOK
  BY StringKept, PTL

(* A text that is assigned is the text that is asked for, in the encoding  *)
(* it came in and in the others (sysstring.h: get_string).                 *)
THEOREM TextStays == UniSpec => []TextKept
  BY StringKept, PTL

(* A form of a uni_string that was made from the other is never left       *)
(* behind when the other is assigned (sysstring.h: assign, to_multibyte,   *)
(* to_wide).                                                               *)
THEOREM FormsStayAlike == UniSpec => []FormsAgree
  BY StringKept, PTL

-----------------------------------------------------------------------------
(* ICase: strings without regard to case.                                  *)
(* The first place where two sequences of numbers differ.                  *)
LEMMA Least ==
    ASSUME NEW S, S \subseteq Nat, S # {}
    PROVE  \E i \in S : \A j \in S : i <= j
<1>1. PICK m \in S : \A n \in S : ~ (<<n, m>> \in OpToRel(<, Nat))
  BY NatLessThanWellFounded, WFMin
<1>2. \A n \in S : <<n, m>> \in OpToRel(<, Nat) <=> n < m
  BY DEF OpToRel
<1>3. \A n \in S : ~ (n < m)
  BY <1>1, <1>2, Zenon
<1> QED
  BY <1>3, SMT

Same(a, b) == Len(a) = Len(b) /\ Differ(a, b) = {}

LEMMA SameIs ==
    ASSUME NEW a \in Seq(Int), NEW b \in Seq(Int)
    PROVE  Same(a, b) <=> a = b
<1>1. ASSUME Same(a, b) PROVE a = b
  <2>1. \A i \in 1 .. Len(a) : a[i] = b[i]
    BY <1>1 DEF Same, Differ
  <2> QED
    BY <1>1, <2>1 DEF Same
<1>2. ASSUME a = b PROVE Same(a, b)
  BY <1>2 DEF Same, Differ
<1> QED
  BY <1>1, <1>2

(* They agree up to i.                                                     *)
Until(a, b, i) == \A j \in 1 .. i - 1 : a[j] = b[j]

LEMMA PrecedesIs ==
    ASSUME NEW a \in Seq(Int), NEW b \in Seq(Int)
    PROVE  Precedes(a, b) <=>
              \E i \in 1 .. Len(b) : /\ i <= Len(a) + 1 /\ Until(a, b, i)
                                     /\ i <= Len(a) => a[i] < b[i]
<1>1. ASSUME Precedes(a, b)
      PROVE  \E i \in 1 .. Len(b) : /\ i <= Len(a) + 1 /\ Until(a, b, i)
                                    /\ i <= Len(a) => a[i] < b[i]
  <2>1. CASE Differ(a, b) = {} /\ Len(a) < Len(b)
    <3>1. \A j \in 1 .. Len(a) : a[j] = b[j]
      BY <2>1 DEF Differ
    <3>2. Len(a) + 1 \in 1 .. Len(b) /\ Until(a, b, Len(a) + 1)
      BY <2>1, <3>1 DEF Until
    <3> QED
      BY <3>2
  <2>2. ASSUME NEW i \in Differ(a, b), a[i] < b[i], \A j \in Differ(a, b) : i <= j
        PROVE  i \in 1 .. Len(b) /\ i <= Len(a) /\ Until(a, b, i)
    <3>1. i \in 1 .. Len(a) /\ i \in 1 .. Len(b)
      BY DEF Differ
    <3>2. ASSUME NEW j \in 1 .. i - 1, a[j] # b[j] PROVE FALSE
      <4>1. j \in DOMAIN a \cap DOMAIN b
        BY <3>1
      <4>2. j \in Differ(a, b)
        BY <3>2, <4>1, Zenon DEF Differ
      <4> QED
        BY <2>2, <3>1, <4>2
    <3> QED
      BY <3>1, <3>2 DEF Until
  <2>3. CASE \E i \in Differ(a, b) : a[i] < b[i] /\ \A j \in Differ(a, b) : i <= j
    <3>1. PICK i \in Differ(a, b) : a[i] < b[i] /\ \A j \in Differ(a, b) : i <= j
      BY <2>3
    <3>2. i \in 1 .. Len(b) /\ i <= Len(a) /\ Until(a, b, i)
      BY <2>2, <3>1
    <3>3. i <= Len(a) + 1
      BY <3>2
    <3> QED
      BY <3>1, <3>2, <3>3
  <2> QED
    BY <1>1, <2>1, <2>3 DEF Precedes
<1>2. ASSUME NEW i \in 1 .. Len(b), i <= Len(a) + 1, Until(a, b, i), i <= Len(a) => a[i] < b[i]
      PROVE  Precedes(a, b)
  <2>1. CASE i = Len(a) + 1
    <3>1. \A j \in 1 .. Len(a) : a[j] = b[j]
      BY <1>2, <2>1 DEF Until
    <3> QED
      BY <2>1, <3>1 DEF Differ, Precedes
  <2>2. CASE i <= Len(a)
    <3>1. i \in Differ(a, b) /\ a[i] < b[i]
      BY <1>2, <2>2 DEF Differ
    <3>2. ASSUME NEW j \in Differ(a, b) PROVE i <= j
      <4>1. j \in 1 .. Len(a) /\ j \in 1 .. Len(b) /\ a[j] # b[j]
        BY <3>2 DEF Differ
      <4> QED
        BY <1>2, <4>1 DEF Until
    <3> QED
      BY <3>1, <3>2 DEF Precedes
  <2> QED
    BY <1>2, <2>1, <2>2
<1> QED
  BY <1>1, <1>2

LEMMA OneOrOther ==
    ASSUME NEW a \in Seq(Int), NEW b \in Seq(Int)
    PROVE  a = b \/ Precedes(a, b) \/ Precedes(b, a)
<1>1. CASE Differ(a, b) = {}
  <2>1. Differ(b, a) = {}
    BY <1>1 DEF Differ
  <2>2. Len(a) < Len(b) \/ Len(b) < Len(a) \/ Len(a) = Len(b)
    OBVIOUS
  <2> QED
    BY <1>1, <2>1, <2>2, SameIs DEF Precedes, Same
<1>2. CASE Differ(a, b) # {}
  <2>1. Differ(a, b) \subseteq Nat
    BY DEF Differ
  <2>2. PICK i \in Differ(a, b) : \A j \in Differ(a, b) : i <= j
    BY <1>2, <2>1, Least
  <2>3. Differ(b, a) = Differ(a, b) /\ a[i] \in Int /\ b[i] \in Int /\ a[i] # b[i]
    BY DEF Differ
  <2>4. a[i] < b[i] \/ b[i] < a[i]
    BY <2>3
  <2> QED
    BY <2>2, <2>3, <2>4 DEF Precedes
<1> QED
  BY <1>1, <1>2

LEMMA NotBoth ==
    ASSUME NEW a \in Seq(Int), NEW b \in Seq(Int), Precedes(a, b)
    PROVE  a # b /\ ~Precedes(b, a)
<1>1. PICK i \in 1 .. Len(b) : i <= Len(a) + 1 /\ Until(a, b, i) /\ (i <= Len(a) => a[i] < b[i])
  BY PrecedesIs
<1>2. ASSUME Precedes(b, a) PROVE FALSE
  <2>1. PICK k \in 1 .. Len(a) : k <= Len(b) + 1 /\ Until(b, a, k) /\ (k <= Len(b) => b[k] < a[k])
    BY <1>2, PrecedesIs
  <2>2. a[i] \in Int \/ i > Len(a)
    OBVIOUS
  <2>3. b[k] \in Int \/ k > Len(b)
    OBVIOUS
  <2>4. CASE i < k
    BY <1>1, <2>1, <2>4 DEF Until
  <2>5. CASE k < i
    BY <1>1, <2>1, <2>5 DEF Until
  <2>6. CASE k = i
    BY <1>1, <2>1, <2>6
  <2> QED
    BY <2>4, <2>5, <2>6
<1>3. a # b
  BY <1>1
<1> QED
  BY <1>2, <1>3

LEMMA PrecedesOn ==
    ASSUME NEW a \in Seq(Int), NEW b \in Seq(Int), NEW c \in Seq(Int),
           Precedes(a, b), Precedes(b, c)
    PROVE  Precedes(a, c)
<1>1. PICK i \in 1 .. Len(b) : i <= Len(a) + 1 /\ Until(a, b, i) /\ (i <= Len(a) => a[i] < b[i])
  BY PrecedesIs
<1>2. PICK k \in 1 .. Len(c) : k <= Len(b) + 1 /\ Until(b, c, k) /\ (k <= Len(b) => b[k] < c[k])
  BY PrecedesIs
<1>3. CASE i < k
  <2>1. i \in 1 .. Len(c) /\ Until(a, c, i) /\ c[i] = b[i]
    BY <1>1, <1>2, <1>3 DEF Until
  <2> QED
    BY <1>1, <2>1, PrecedesIs
<1>4. CASE k <= i
  <2>1. k \in 1 .. Len(c) /\ Until(a, c, k) /\ k <= Len(a) + 1
    <3>1. k \in 1 .. Len(c) /\ k <= Len(a) + 1
      BY <1>1, <1>2, <1>4
    <3>2. \A j \in 1 .. k - 1 : j \in 1 .. i - 1
      BY <1>4
    <3>3. Until(a, c, k)
      BY <1>1, <1>2, <3>2, Zenon DEF Until
    <3> QED
      BY <3>1, <3>3
  <2>2. ASSUME k <= Len(a) PROVE a[k] < c[k]
    <3>1. a[k] \in Int /\ b[k] \in Int /\ c[k] \in Int
      BY <2>1, <2>2, <1>4
    <3>2. a[k] <= b[k]
      <4>1. CASE k = i
        BY <1>1, <2>2, <3>1, <4>1
      <4>2. CASE k < i
        <5>1. k \in 1 .. i - 1
          BY <4>2
        <5>2. a[k] = b[k]
          BY <1>1, <5>1, Zenon DEF Until
        <5> QED
          BY <3>1, <5>2
      <4> QED
        BY <1>4, <4>1, <4>2
    <3>3. b[k] < c[k]
      BY <1>2, <1>4
    <3> QED
      BY <3>1, <3>2, <3>3
  <2> QED
    BY <2>1, <2>2, PrecedesIs
<1> QED
  BY <1>3, <1>4

-----------------------------------------------------------------------------
(* Letters.                                                                *)
LEMMA Letters ==
    ASSUME NEW c \in Code, NEW d \in Code
    PROVE  /\ Upper(c) \in Int /\ Lower(c) \in Int
           /\ Upper(c) \in Code /\ Lower(c) \in Code
           /\ Upper(Upper(c)) = Upper(c) /\ Upper(Lower(c)) = Upper(c)
           /\ Upper(c) = Upper(d) <=> Lower(c) = Lower(d)
           /\ Upper(c) = 0 <=> c = 0
<1>1. c \in 0 .. 255 /\ d \in 0 .. 255
  BY CaseAssumption
<1>2. Upper(c) \in Code /\ Lower(c) \in Code
  BY CaseAssumption
<1> QED
  BY <1>1, <1>2 DEF Upper, Lower

LEMMA Converted ==
    ASSUME NEW s \in Seq(Code)
    PROVE  /\ Up(s) \in Seq(Code) /\ Down(s) \in Seq(Code)
           /\ Len(Up(s)) = Len(s) /\ Len(Down(s)) = Len(s)
           /\ \A i \in 1 .. Len(s) : Up(s)[i] = Upper(s[i]) /\ Down(s)[i] = Lower(s[i])
           /\ Up(s) \in Seq(Int) /\ Down(s) \in Seq(Int)
<1>1. \A i \in 1 .. Len(s) : /\ Upper(s[i]) \in Code /\ Lower(s[i]) \in Code
                             /\ Upper(s[i]) \in Int /\ Lower(s[i]) \in Int
  BY Letters
<1>2. /\ Up(s) = [i \in 1 .. Len(s) |-> Upper(s[i])]
      /\ Down(s) = [i \in 1 .. Len(s) |-> Lower(s[i])]
  BY DEF Up, Down
<1>3. /\ Up(s) \in [1 .. Len(s) -> Code] /\ Down(s) \in [1 .. Len(s) -> Code]
      /\ Up(s) \in [1 .. Len(s) -> Int] /\ Down(s) \in [1 .. Len(s) -> Int]
      /\ \A i \in 1 .. Len(s) : Up(s)[i] = Upper(s[i]) /\ Down(s)[i] = Lower(s[i])
  BY <1>1, <1>2
<1>4. Len(s) \in Nat
  OBVIOUS
<1>5. \A S, f : f \in [1 .. Len(s) -> S] => f \in Seq(S) /\ Len(f) = Len(s)
  BY <1>4
<1>6. Up(s) \in Seq(Code) /\ Down(s) \in Seq(Code) /\ Up(s) \in Seq(Int) /\ Down(s) \in Seq(Int)
  BY <1>3, <1>5
<1>7. Len(Up(s)) = Len(s) /\ Len(Down(s)) = Len(s)
  BY <1>3, <1>5
<1> QED
  BY <1>3, <1>6, <1>7

LEMMA SameIf ==
    ASSUME NEW a \in Seq(Int), NEW b \in Seq(Int), Len(a) = Len(b),
           \A i \in 1 .. Len(a) : a[i] = b[i]
    PROVE  a = b
  OBVIOUS

LEMMA SameClass ==
    ASSUME NEW a \in Seq(Code), NEW b \in Seq(Code)
    PROVE  /\ eqstr(a, b) <=> Up(a) = Up(b)
           /\ Up(a) = Up(b) <=> Down(a) = Down(b)
           /\ Up(a) = Up(b) <=> Len(a) = Len(b) /\ \A i \in 1 .. Len(a) : Upper(a[i]) = Upper(b[i])
<1>1. eqstr(a, b) <=> Same(Up(a), Up(b))
  BY Converted DEF eqstr, Same
<1>2. Same(Up(a), Up(b)) <=> Up(a) = Up(b)
  BY Converted, SameIs
<1>3. Up(a) = Up(b) <=> Len(a) = Len(b) /\ \A i \in 1 .. Len(a) : Upper(a[i]) = Upper(b[i])
  <2>1. ASSUME Up(a) = Up(b)
        PROVE  Len(a) = Len(b) /\ \A i \in 1 .. Len(a) : Upper(a[i]) = Upper(b[i])
    BY <2>1, Converted
  <2>2. ASSUME Len(a) = Len(b), \A i \in 1 .. Len(a) : Upper(a[i]) = Upper(b[i])
        PROVE  Up(a) = Up(b)
    <3>1. \A i \in 1 .. Len(Up(a)) : Up(a)[i] = Up(b)[i]
      BY <2>2, Converted
    <3>2. Up(a) \in Seq(Int) /\ Up(b) \in Seq(Int) /\ Len(Up(a)) = Len(Up(b))
      BY <2>2, Converted
    <3> QED
      BY <3>1, <3>2, SameIf
  <2> QED
    BY <2>1, <2>2
<1>4. Down(a) = Down(b) <=> Len(a) = Len(b) /\ \A i \in 1 .. Len(a) : Lower(a[i]) = Lower(b[i])
  <2>1. ASSUME Down(a) = Down(b)
        PROVE  Len(a) = Len(b) /\ \A i \in 1 .. Len(a) : Lower(a[i]) = Lower(b[i])
    BY <2>1, Converted
  <2>2. ASSUME Len(a) = Len(b), \A i \in 1 .. Len(a) : Lower(a[i]) = Lower(b[i])
        PROVE  Down(a) = Down(b)
    <3>1. \A i \in 1 .. Len(Down(a)) : Down(a)[i] = Down(b)[i]
      BY <2>2, Converted
    <3>2. Down(a) \in Seq(Int) /\ Down(b) \in Seq(Int) /\ Len(Down(a)) = Len(Down(b))
      BY <2>2, Converted
    <3> QED
      BY <3>1, <3>2, SameIf
  <2> QED
    BY <2>1, <2>2
<1>5. ASSUME Len(a) = Len(b), NEW i \in 1 .. Len(a)
      PROVE  Upper(a[i]) = Upper(b[i]) <=> Lower(a[i]) = Lower(b[i])
  BY <1>5, Letters
<1> QED
  BY <1>1, <1>2, <1>3, <1>4, <1>5

LEMMA WeakOrder ==
    ASSUME NEW a \in Seq(Code), NEW b \in Seq(Code), NEW c \in Seq(Code)
    PROVE  /\ ltstr(a, b) => ~ltstr(b, a)
           /\ ltstr(a, b) /\ ltstr(b, c) => ltstr(a, c)
           /\ eqstr(a, b) <=> ~ltstr(a, b) /\ ~ltstr(b, a)
           /\ eqstr(a, b) /\ ltstr(b, c) => ltstr(a, c)
           /\ less(a, b) = ltstr(a, b) /\ equal_to(a, b) = eqstr(a, b)
<1>1. Up(a) \in Seq(Int) /\ Up(b) \in Seq(Int) /\ Up(c) \in Seq(Int)
  BY Converted
<1>2. ltstr(a, b) => ~ltstr(b, a)
  BY <1>1, NotBoth DEF ltstr
<1>3. ltstr(a, b) /\ ltstr(b, c) => ltstr(a, c)
  BY <1>1, PrecedesOn DEF ltstr
<1>4. eqstr(a, b) <=> ~ltstr(a, b) /\ ~ltstr(b, a)
  BY <1>1, OneOrOther, NotBoth, SameClass DEF ltstr
<1>5. eqstr(a, b) /\ ltstr(b, c) => ltstr(a, c)
  <2>1. eqstr(a, b) => Up(a) = Up(b)
    BY SameClass
  <2> QED
    BY <2>1, Zenon DEF ltstr
<1>6. less(a, b) = ltstr(a, b) /\ equal_to(a, b) = eqstr(a, b)
  BY Zenon DEF less, ltstr, equal_to, eqstr
<1> QED
  BY <1>2, <1>3, <1>4, <1>5, <1>6

(* A const char* of a string without a NUL is the string.                  *)
LEMMA WithoutNul ==
    ASSUME NEW s \in Seq(Code), 0 \notin Range(s)
    PROVE  CStr(s) = s
<1>1. {i \in DOMAIN s : s[i] = 0} = {}
  BY DEF Range
<1> QED
  BY <1>1 DEF CStr

LEMMA Beginning ==
    ASSUME NEW s \in Seq(Code), NEW n \in Nat
    PROVE  Firsts(s, n) \in Seq(Code)
<1>1. (IF n < Len(s) THEN n ELSE Len(s)) \in 0 .. Len(s)
  OBVIOUS
<1> QED
  BY <1>1 DEF Firsts

LEMMA CompareIs ==
    ASSUME NEW a \in Seq(Code), NEW b \in Seq(Code)
    PROVE  Compare(Down(a), Down(b)) = 0 <=> eqstr(a, b)
<1>1. Down(a) \in Seq(Int) /\ Down(b) \in Seq(Int)
  BY Converted
<1>2. Compare(Down(a), Down(b)) = 0 <=> ~Precedes(Down(a), Down(b)) /\ ~Precedes(Down(b), Down(a))
  BY DEF Compare
<1>3. ~Precedes(Down(a), Down(b)) /\ ~Precedes(Down(b), Down(a)) <=> Down(a) = Down(b)
  BY <1>1, OneOrOther, NotBoth
<1> QED
  BY <1>2, <1>3, SameClass

LEMMA Agree ==
    ASSUME NEW a \in Seq(Code), NEW b \in Seq(Code)
    PROVE  /\ eqstr(a, b) => hash(a) = hash(b)
           /\ eqstr_c(a, b) = eqstr(a, CStr(b))
           /\ 0 \notin Range(a) \cup Range(b) =>
                 /\ eqstr_cc(a, b) = eqstr(a, b) /\ eqstr_c(a, b) = eqstr(a, b)
                 /\ hash_c(a) = hash(a)
                 /\ \A n \in 0 .. MaxLen :
                       (strncmp(a, b, n) = 0) = eqstr(Firsts(a, n), Firsts(b, n))
           /\ \A i \in DOMAIN a \cap DOMAIN b : eqstr(a, b) => eqchar(a[i], b[i])
<1>1. eqstr(a, b) => hash(a) = hash(b)
  BY SameClass DEF hash
<1>2. eqstr_c(a, b) = eqstr(a, CStr(b))
  BY Zenon DEF eqstr_c, eqstr
<1>3. ASSUME 0 \notin Range(a) \cup Range(b)
      PROVE  /\ eqstr_cc(a, b) = eqstr(a, b) /\ eqstr_c(a, b) = eqstr(a, b)
             /\ hash_c(a) = hash(a)
             /\ \A n \in 0 .. MaxLen :
                   (strncmp(a, b, n) = 0) = eqstr(Firsts(a, n), Firsts(b, n))
  <2>1. CStr(a) = a /\ CStr(b) = b
    BY <1>3, WithoutNul
  <2>2. eqstr_c(a, b) = eqstr(a, b) /\ hash_c(a) = hash(a)
    BY <1>2, <2>1, Zenon DEF hash_c
  <2>3. strcmp(a, b) = 0 <=> eqstr(a, b)
    BY <2>1, CompareIs DEF strcmp
  <2>4. eqstr_cc(a, b) = eqstr(a, b)
    BY <2>3 DEF eqstr_cc, eqstr
  <2>5. ASSUME NEW n \in 0 .. MaxLen
        PROVE  (strncmp(a, b, n) = 0) = eqstr(Firsts(a, n), Firsts(b, n))
    <3>1. Firsts(a, n) \in Seq(Code) /\ Firsts(b, n) \in Seq(Code)
      <4>1. n \in Nat
        BY CaseAssumption
      <4> QED
        BY <4>1, Beginning
    <3>2. strncmp(a, b, n) = 0 <=> eqstr(Firsts(a, n), Firsts(b, n))
      BY <2>1, <3>1, CompareIs DEF strncmp
    <3> QED
      BY <3>2 DEF eqstr
  <2> QED
    BY <2>2, <2>4, <2>5
<1>4. ASSUME NEW i \in DOMAIN a \cap DOMAIN b, eqstr(a, b) PROVE eqchar(a[i], b[i])
  BY <1>4, SameClass DEF eqchar
<1> QED
  BY <1>1, <1>2, <1>3, <1>4

LEMMA ClassKept ==
    ASSUME NEW a \in Seq(Code), NEW b \in Seq(Code)
    PROVE  eqstr(a, Up(a)) /\ eqstr(a, Down(a)) /\ ltstr(Up(a), Down(b)) = ltstr(a, b)
<1>1. Up(Up(a)) = Up(a) /\ Up(Down(a)) = Up(a) /\ Up(Down(b)) = Up(b)
  <2>1. ASSUME NEW s \in Seq(Code) PROVE Up(Up(s)) = Up(s) /\ Up(Down(s)) = Up(s)
    <3>1. \A i \in 1 .. Len(s) : Upper(Upper(s[i])) = Upper(s[i]) /\ Upper(Lower(s[i])) = Upper(s[i])
      BY Letters
    <3>2. Up(s) \in Seq(Code) /\ Down(s) \in Seq(Code)
      BY Converted
    <3>3. Up(Up(s)) = Up(s)
      <4>1. \A i \in 1 .. Len(Up(Up(s))) : Up(Up(s))[i] = Up(s)[i]
        BY <3>1, <3>2, Converted
      <4>2. Up(Up(s)) \in Seq(Int) /\ Up(s) \in Seq(Int) /\ Len(Up(Up(s))) = Len(Up(s))
        BY <3>2, Converted
      <4> QED
        BY <4>1, <4>2, SameIf
    <3>4. Up(Down(s)) = Up(s)
      <4>1. \A i \in 1 .. Len(Up(Down(s))) : Up(Down(s))[i] = Up(s)[i]
        BY <3>1, <3>2, Converted
      <4>2. Up(Down(s)) \in Seq(Int) /\ Up(s) \in Seq(Int) /\ Len(Up(Down(s))) = Len(Up(s))
        BY <3>2, Converted
      <4> QED
        BY <4>1, <4>2, SameIf
    <3> QED
      BY <3>3, <3>4
  <2> QED
    BY <2>1
<1>2. eqstr(a, Up(a)) /\ eqstr(a, Down(a))
  BY <1>1, SameClass, Converted
<1>3. ltstr(Up(a), Down(b)) = ltstr(a, b)
  BY <1>1, Zenon DEF ltstr
<1> QED
  BY <1>2, <1>3

LEMMA InWords ==
    ASSUME NEW s \in Words
    PROVE  s \in Seq(Code) /\ Up(s) \in Words /\ Down(s) \in Words
<1>1. PICK n \in 0 .. MaxLen : s \in [1 .. n -> Code]
  BY DEF Words
<1>2. s \in Seq(Code) /\ Len(s) = n
  BY <1>1, CaseAssumption
<1>3. Up(s) \in [1 .. n -> Code] /\ Down(s) \in [1 .. n -> Code]
  BY <1>2, Converted
<1> QED
  BY <1>2, <1>3 DEF Words

(* ltstr orders strings of any characters as std::map and std::sort        *)
(* require; the equalities, the hash and the comparisons that take const   *)
(* char* agree with it (icase.h).                                          *)
THEOREM CaseOrder == CaseSpec => []IcaseOrder
<1>1. CaseInit => CaseTypeOK
  BY DEF CaseInit, CaseTypeOK
<1>2. CaseTypeOK /\ [CaseNext]_str => CaseTypeOK'
  <2> SUFFICES ASSUME CaseTypeOK, [CaseNext]_str PROVE CaseTypeOK'
    OBVIOUS
  <2>1. ASSUME NEW i \in 1 .. 3, toupper(i) \/ tolower(i) PROVE CaseTypeOK'
    BY <2>1, InWords DEF CaseTypeOK, toupper, tolower
  <2>2. CASE UNCHANGED str
    BY <2>2 DEF CaseTypeOK
  <2> QED
    BY <2>1, <2>2 DEF CaseNext
<1>3. CaseTypeOK => IcaseOrder
  <2> SUFFICES ASSUME CaseTypeOK PROVE IcaseOrder
    OBVIOUS
  <2>1. str[1] \in Seq(Code) /\ str[2] \in Seq(Code) /\ str[3] \in Seq(Code)
    BY InWords DEF CaseTypeOK
  <2>2. StrictWeakOrder
    BY <2>1, WeakOrder DEF StrictWeakOrder
  <2>3. EqualsAgree
    BY <2>1, Agree DEF EqualsAgree
  <2>4. CaseKeepsClass
    BY <2>1, ClassKept DEF CaseKeepsClass
  <2> QED
    BY <2>2, <2>3, <2>4 DEF IcaseOrder
<1> QED
  BY <1>1, <1>2, <1>3, PTL DEF CaseSpec

-----------------------------------------------------------------------------
(* BinData: byte orders and bit scans.                                     *)
Digit == 0 .. Base - 1

(* The digits of what the shifts and masks make.                           *)
LEMMA ZerosAre ==
    ASSUME NEW n \in Nat
    PROVE  Zeros(n) \in Seq(Digit) /\ Len(Zeros(n)) = n /\ \A i \in 1 .. n : Zeros(n)[i] = 0
<1>1. 0 \in Digit
  BY DEF Digit, Base
<1>2. Zeros(n) \in [1 .. n -> Digit] /\ \A i \in 1 .. n : Zeros(n)[i] = 0
  BY <1>1 DEF Zeros
<1> QED
  BY <1>2

LEMMA ShlIs ==
    ASSUME NEW x \in Seq(Digit), NEW k \in 0 .. Len(x)
    PROVE  /\ Shl(x, k) \in Seq(Digit) /\ Len(Shl(x, k)) = Len(x)
           /\ \A i \in 1 .. Len(x) : Shl(x, k)[i] = IF i + k <= Len(x) THEN x[i + k] ELSE 0
<1> DEFINE a == SubSeq(x, k + 1, Len(x))
           z == Zeros(k)
<1>1. a \in Seq(Digit) /\ Len(a) = Len(x) - k /\ \A i \in 1 .. Len(x) - k : a[i] = x[i + k]
  OBVIOUS
<1>2. z \in Seq(Digit) /\ Len(z) = k /\ \A i \in 1 .. k : z[i] = 0
  BY ZerosAre
<1>3. Shl(x, k) = a \o z
  BY DEF Shl
<1> HIDE DEF a, z
<1>4. (a \o z) \in Seq(Digit)
  BY <1>1, <1>2
<1>5. Len(a \o z) = Len(x)
  <2>1. a \in Seq(Digit) /\ z \in Seq(Digit) /\ Len(a) + Len(z) = Len(x)
    BY <1>1, <1>2
  <2>2. Len(a \o z) = Len(a) + Len(z)
    BY <2>1
  <2> QED
    BY <2>1, <2>2
<1>6. \A i \in 1 .. Len(x) : (a \o z)[i] = IF i <= Len(a) THEN a[i] ELSE z[i - Len(a)]
  BY <1>1, <1>2, <1>5
<1> QED
  BY <1>1, <1>2, <1>3, <1>4, <1>5, <1>6

LEMMA ShrIs ==
    ASSUME NEW x \in Seq(Digit), NEW k \in 0 .. Len(x)
    PROVE  /\ Shr(x, k) \in Seq(Digit) /\ Len(Shr(x, k)) = Len(x)
           /\ \A i \in 1 .. Len(x) : Shr(x, k)[i] = IF i > k THEN x[i - k] ELSE 0
<1> DEFINE a == SubSeq(x, 1, Len(x) - k)
           z == Zeros(k)
<1>1. a \in Seq(Digit) /\ Len(a) = Len(x) - k /\ \A i \in 1 .. Len(x) - k : a[i] = x[i]
  OBVIOUS
<1>2. z \in Seq(Digit) /\ Len(z) = k /\ \A i \in 1 .. k : z[i] = 0
  BY ZerosAre
<1>3. Shr(x, k) = z \o a
  BY DEF Shr
<1> HIDE DEF a, z
<1>4. (z \o a) \in Seq(Digit)
  BY <1>1, <1>2
<1>5. Len(z \o a) = Len(x)
  <2>1. a \in Seq(Digit) /\ z \in Seq(Digit) /\ Len(a) + Len(z) = Len(x)
    BY <1>1, <1>2
  <2>2. Len(z \o a) = Len(z) + Len(a)
    BY <2>1
  <2> QED
    BY <2>1, <2>2
<1>6. \A i \in 1 .. Len(x) : (z \o a)[i] = IF i <= Len(z) THEN z[i] ELSE a[i - Len(z)]
  BY <1>1, <1>2, <1>5
<1> QED
  BY <1>1, <1>2, <1>3, <1>4, <1>5, <1>6

LEMMA MaskIs ==
    ASSUME NEW x \in Seq(Digit), NEW kept
    PROVE  /\ Mask(x, kept) \in Seq(Digit) /\ Len(Mask(x, kept)) = Len(x)
           /\ \A i \in 1 .. Len(x) : Mask(x, kept)[i] = IF i \in kept THEN x[i] ELSE 0
<1>1. 0 \in Digit /\ \A i \in 1 .. Len(x) : x[i] \in Digit
  <2>1. 0 \in Digit
    BY DEF Digit, Base
  <2> QED
    BY <2>1
<1>2. Mask(x, kept) = [i \in 1 .. Len(x) |-> IF i \in kept THEN x[i] ELSE 0]
  BY DEF Mask
<1>3. Mask(x, kept) \in [1 .. Len(x) -> Digit]
  BY <1>1, <1>2
<1>4. Len(x) \in Nat
  OBVIOUS
<1>5. Mask(x, kept) \in Seq(Digit) /\ Len(Mask(x, kept)) = Len(x)
  BY <1>3, <1>4
<1> QED
  BY <1>2, <1>5

LEMMA OrIs ==
    ASSUME NEW x \in Seq(Digit), NEW y \in Seq(Digit), Len(y) = Len(x)
    PROVE  /\ Or(x, y) \in Seq(Digit) /\ Len(Or(x, y)) = Len(x)
           /\ \A i \in 1 .. Len(x) : Or(x, y)[i] = IF x[i] = 0 THEN y[i] ELSE x[i]
<1>1. \A i \in 1 .. Len(x) : x[i] \in Digit /\ y[i] \in Digit
  OBVIOUS
<1>2. Or(x, y) = [i \in 1 .. Len(x) |-> IF x[i] = 0 THEN y[i] ELSE x[i]]
  BY DEF Or
<1>3. Or(x, y) \in [1 .. Len(x) -> Digit]
  BY <1>1, <1>2
<1>4. Len(x) \in Nat
  OBVIOUS
<1>5. Or(x, y) \in Seq(Digit) /\ Len(Or(x, y)) = Len(x)
  BY <1>3, <1>4
<1> QED
  BY <1>2, <1>5

LEMMA SwapIs ==
    ASSUME NEW x \in Seq(Digit), NEW i \in 1 .. Len(x), NEW j \in 1 .. Len(x)
    PROVE  /\ Swap(x, i, j) \in Seq(Digit) /\ Len(Swap(x, i, j)) = Len(x)
           /\ \A k \in 1 .. Len(x) :
                 Swap(x, i, j)[k] = IF k = j THEN x[i] ELSE IF k = i THEN x[j] ELSE x[k]
<1> DEFINE y == [x EXCEPT ![i] = x[j]]
<1>1. /\ y \in Seq(Digit) /\ Len(y) = Len(x)
      /\ \A k \in 1 .. Len(x) : y[k] = IF k = i THEN x[j] ELSE x[k]
  OBVIOUS
<1>2. Swap(x, i, j) = [y EXCEPT ![j] = x[i]]
  BY DEF Swap
<1> HIDE DEF y
<1> QED
  BY <1>1, <1>2

LEMMA ReverseIs ==
    ASSUME NEW x \in Seq(Digit)
    PROVE  /\ Reverse(x) \in Seq(Digit) /\ Len(Reverse(x)) = Len(x)
           /\ \A i \in 1 .. Len(x) : Reverse(x)[i] = x[Len(x) + 1 - i]
<1>1. Reverse(x) = [i \in 1 .. Len(x) |-> x[(Len(x) - i) + 1]]
  BY DEF Reverse
<1>2. \A i \in 1 .. Len(x) : (Len(x) - i) + 1 = Len(x) + 1 - i /\ x[Len(x) + 1 - i] \in Digit
  OBVIOUS
<1>3. Reverse(x) \in [1 .. Len(x) -> Digit]
  BY <1>1, <1>2
<1>4. Len(x) \in Nat
  OBVIOUS
<1>5. Reverse(x) \in Seq(Digit) /\ Len(Reverse(x)) = Len(x)
  BY <1>3, <1>4
<1> QED
  BY <1>1, <1>2, <1>5

LEMMA SameDigits ==
    ASSUME NEW a \in Seq(Digit), NEW b \in Seq(Digit), Len(a) = Len(b),
           \A i \in 1 .. Len(a) : a[i] = b[i]
    PROVE  a = b
  OBVIOUS

-----------------------------------------------------------------------------
(* endian_swap() turns the digits of a number round.                       *)
LEMMA SwapWord ==
    ASSUME NEW x \in Seq(Digit), Len(x) = 2
    PROVE  swap_word(x) = Reverse(x)
<1> DEFINE a == Shr(x, 1)
           b == Mask(x, {2})
           c == Shl(b, 1)
<1>1. a \in Seq(Digit) /\ Len(a) = 2 /\ a[1] = 0 /\ a[2] = x[1]
  <2>1. 1 \in 0 .. Len(x) /\ 1 .. Len(x) = {1, 2}
    OBVIOUS
  <2>2. /\ a \in Seq(Digit) /\ Len(a) = 2
        /\ \A i \in 1 .. Len(x) : a[i] = IF i > 1 THEN x[i - 1] ELSE 0
    BY <2>1, ShrIs
  <2> QED
    BY <2>1, <2>2
<1>2. b \in Seq(Digit) /\ Len(b) = 2 /\ b[1] = 0 /\ b[2] = x[2]
  BY MaskIs
<1> HIDE DEF b
<1>3. c \in Seq(Digit) /\ Len(c) = 2 /\ c[1] = x[2] /\ c[2] = 0
  <2>1. 1 \in 0 .. Len(b) /\ 1 .. Len(b) = {1, 2}
    BY <1>2
  <2>2. /\ c \in Seq(Digit) /\ Len(c) = 2
        /\ \A i \in 1 .. Len(b) : c[i] = IF i + 1 <= Len(b) THEN b[i + 1] ELSE 0
    BY <1>2, <2>1, ShlIs
  <2> QED
    BY <1>2, <2>1, <2>2
<1>4. swap_word(x) = Or(a, c)
  BY DEF swap_word, b
<1> HIDE DEF a, c
<1>5. /\ Or(a, c) \in Seq(Digit) /\ Len(Or(a, c)) = 2
      /\ Or(a, c)[1] = c[1] /\ Or(a, c)[2] = IF a[2] = 0 THEN c[2] ELSE a[2]
  BY <1>1, <1>3, OrIs
<1>6. /\ Reverse(x) \in Seq(Digit) /\ Len(Reverse(x)) = 2
      /\ Reverse(x)[1] = x[2] /\ Reverse(x)[2] = x[1]
  BY ReverseIs
<1>7. \A i \in 1 .. 2 : Or(a, c)[i] = Reverse(x)[i]
  BY <1>1, <1>3, <1>5, <1>6
<1> QED
  BY <1>4, <1>5, <1>6, <1>7, SameDigits

LEMMA SwapDword ==
    ASSUME NEW x \in Seq(Digit), Len(x) = 4
    PROVE  swap_dword(x) = Reverse(x)
<1> DEFINE a4 == Mask(x, {4})
           b4 == Shl(a4, 3)
           a3 == Mask(x, {3})
           b3 == Shl(a3, 1)
           a2 == Shr(x, 1)
           b2 == Mask(a2, {3})
           a1 == Shr(x, 3)
           b1 == Mask(a1, {4})
           l  == Or(b4, b3)
           r  == Or(b2, b1)
<1>1. a4 \in Seq(Digit) /\ Len(a4) = 4 /\ a4[4] = x[4] /\ a4[1] = 0 /\ a4[2] = 0 /\ a4[3] = 0
  BY MaskIs
<1>2. a3 \in Seq(Digit) /\ Len(a3) = 4 /\ a3[3] = x[3] /\ a3[1] = 0 /\ a3[2] = 0 /\ a3[4] = 0
  BY MaskIs
<1>3. a2 \in Seq(Digit) /\ Len(a2) = 4 /\ a2[3] = x[2]
  <2>1. 1 \in 0 .. Len(x) /\ 3 \in 1 .. Len(x)
    OBVIOUS
  <2>2. /\ a2 \in Seq(Digit) /\ Len(a2) = 4
        /\ \A i \in 1 .. Len(x) : a2[i] = IF i > 1 THEN x[i - 1] ELSE 0
    BY <2>1, ShrIs
  <2> QED
    BY <2>1, <2>2
<1>4. a1 \in Seq(Digit) /\ Len(a1) = 4 /\ a1[4] = x[1]
  <2>1. 3 \in 0 .. Len(x) /\ 4 \in 1 .. Len(x)
    OBVIOUS
  <2>2. /\ a1 \in Seq(Digit) /\ Len(a1) = 4
        /\ \A i \in 1 .. Len(x) : a1[i] = IF i > 3 THEN x[i - 3] ELSE 0
    BY <2>1, ShrIs
  <2> QED
    BY <2>1, <2>2
<1> HIDE DEF a4, a3, a2, a1
<1>5. b4 \in Seq(Digit) /\ Len(b4) = 4 /\ b4[1] = x[4] /\ b4[2] = 0 /\ b4[3] = 0 /\ b4[4] = 0
  <2>1. 3 \in 0 .. Len(a4) /\ 1 .. Len(a4) = {1, 2, 3, 4}
    BY <1>1
  <2>2. /\ b4 \in Seq(Digit) /\ Len(b4) = 4
        /\ \A i \in 1 .. Len(a4) : b4[i] = IF i + 3 <= Len(a4) THEN a4[i + 3] ELSE 0
    BY <1>1, <2>1, ShlIs
  <2> QED
    BY <1>1, <2>1, <2>2
<1>6. b3 \in Seq(Digit) /\ Len(b3) = 4 /\ b3[1] = 0 /\ b3[2] = x[3] /\ b3[3] = 0 /\ b3[4] = 0
  <2>1. 1 \in 0 .. Len(a3) /\ 1 .. Len(a3) = {1, 2, 3, 4}
    BY <1>2
  <2>2. /\ b3 \in Seq(Digit) /\ Len(b3) = 4
        /\ \A i \in 1 .. Len(a3) : b3[i] = IF i + 1 <= Len(a3) THEN a3[i + 1] ELSE 0
    BY <1>2, <2>1, ShlIs
  <2> QED
    BY <1>2, <2>1, <2>2
<1>7. b2 \in Seq(Digit) /\ Len(b2) = 4 /\ b2[1] = 0 /\ b2[2] = 0 /\ b2[3] = x[2] /\ b2[4] = 0
  BY <1>3, MaskIs
<1>8. b1 \in Seq(Digit) /\ Len(b1) = 4 /\ b1[1] = 0 /\ b1[2] = 0 /\ b1[3] = 0 /\ b1[4] = x[1]
  BY <1>4, MaskIs
<1>9. swap_dword(x) = Or(l, r)
  BY DEF swap_dword, a4, a3, a2, a1
<1> HIDE DEF b4, b3, b2, b1
<1>10. l \in Seq(Digit) /\ Len(l) = 4 /\ l[1] = x[4] /\ l[2] = x[3] /\ l[3] = 0 /\ l[4] = 0
  BY <1>5, <1>6, OrIs, SMTT(30)
<1>11. r \in Seq(Digit) /\ Len(r) = 4 /\ r[1] = 0 /\ r[2] = 0 /\ r[3] = x[2] /\ r[4] = x[1]
  BY <1>7, <1>8, OrIs, SMTT(30)
<1> HIDE DEF l, r
<1>12. /\ Or(l, r) \in Seq(Digit) /\ Len(Or(l, r)) = 4
       /\ Or(l, r)[1] = x[4] /\ Or(l, r)[2] = x[3] /\ Or(l, r)[3] = x[2] /\ Or(l, r)[4] = x[1]
  <2>1. 1 .. Len(l) = {1, 2, 3, 4}
    BY <1>10
  <2>2. /\ Or(l, r) \in Seq(Digit) /\ Len(Or(l, r)) = 4
        /\ \A i \in 1 .. Len(l) : Or(l, r)[i] = IF l[i] = 0 THEN r[i] ELSE l[i]
    <3>1. l \in Seq(Digit) /\ r \in Seq(Digit) /\ Len(r) = Len(l)
      BY <1>10, <1>11
    <3>2. /\ Or(l, r) \in Seq(Digit) /\ Len(Or(l, r)) = Len(l)
          /\ \A i \in 1 .. Len(l) : Or(l, r)[i] = IF l[i] = 0 THEN r[i] ELSE l[i]
      BY <3>1, OrIs, Zenon
    <3> QED
      BY <1>10, <3>2
  <2> QED
    BY <1>10, <1>11, <2>1, <2>2
<1>13. /\ Reverse(x) \in Seq(Digit) /\ Len(Reverse(x)) = 4
       /\ Reverse(x)[1] = x[4] /\ Reverse(x)[2] = x[3] /\ Reverse(x)[3] = x[2] /\ Reverse(x)[4] = x[1]
  <2>1. 1 .. Len(x) = {1, 2, 3, 4}
    OBVIOUS
  <2>2. /\ Reverse(x) \in Seq(Digit) /\ Len(Reverse(x)) = 4
        /\ \A i \in 1 .. Len(x) : Reverse(x)[i] = x[Len(x) + 1 - i]
    BY ReverseIs
  <2> QED
    BY <2>1, <2>2
<1>14. \A i \in 1 .. 4 : Or(l, r)[i] = Reverse(x)[i]
  BY <1>12, <1>13
<1> QED
  BY <1>9, <1>12, <1>13, <1>14, SameDigits

LEMMA SwapQword ==
    ASSUME NEW x \in Seq(Digit), Len(x) = 8
    PROVE  swap_qword(x) = Reverse(x)
<1> DEFINE IsSwap(y, i, j) ==
             /\ Swap(y, i, j) \in Seq(Digit) /\ Len(Swap(y, i, j)) = Len(y)
             /\ \A k \in 1 .. Len(y) :
                   Swap(y, i, j)[k] = IF k = j THEN y[i] ELSE IF k = i THEN y[j] ELSE y[k]
<1>a. \A y \in Seq(Digit) : \A i \in 1 .. Len(y), j \in 1 .. Len(y) : IsSwap(y, i, j)
  BY SwapIs
<1> HIDE DEF IsSwap
<1> DEFINE a == Swap(x, 1, 8)
           b == Swap(a, 2, 7)
           c == Swap(b, 3, 6)
           d == Swap(c, 4, 5)
<1>0. x \in Seq(Digit) /\ Len(x) = 8
  OBVIOUS
<1>1. /\ a \in Seq(Digit) /\ Len(a) = 8
      /\ \A k \in 1 .. 8 : a[k] = IF k \in {1, 8} THEN x[9 - k] ELSE x[k]
  <2>1. PICK i \in 1 .. Len(x), j \in 1 .. Len(x) : i = 1 /\ j = 8
    BY <1>0
  <2>2. x \in Seq(Digit) /\ Len(x) = 8
    BY <1>0
  <2>a. i \in 1 .. Len(x) /\ j \in 1 .. Len(x)
    BY <2>1, <2>2
  <2>b. IsSwap(x, i, j)
    BY <2>a, <2>2, <1>a, Zenon
  <2>3. /\ Swap(x, i, j) \in Seq(Digit) /\ Len(Swap(x, i, j)) = Len(x)
        /\ \A k \in 1 .. Len(x) :
              Swap(x, i, j)[k] = IF k = j THEN x[i] ELSE IF k = i THEN x[j] ELSE x[k]
    BY <2>b DEF IsSwap
  <2>4. a = Swap(x, i, j)
    BY <2>1
  <2> HIDE DEF a
  <2>5. /\ a \in Seq(Digit) /\ Len(a) = 8
        /\ \A k \in 1 .. 8 : a[k] = IF k = 8 THEN x[1] ELSE IF k = 1 THEN x[8] ELSE x[k]
    BY <2>1, <2>2, <2>3, <2>4
  <2> QED
    BY <1>0, <2>5
<1> HIDE DEF a
<1>2. /\ b \in Seq(Digit) /\ Len(b) = 8
      /\ \A k \in 1 .. 8 : b[k] = IF k \in {1, 8, 2, 7} THEN x[9 - k] ELSE x[k]
  <2>1. PICK i \in 1 .. Len(a), j \in 1 .. Len(a) : i = 2 /\ j = 7
    BY <1>1
  <2>2. a \in Seq(Digit) /\ Len(a) = 8
    BY <1>1
  <2>a. i \in 1 .. Len(a) /\ j \in 1 .. Len(a)
    BY <2>1, <2>2
  <2>b. a \in Seq(Digit)
    BY <2>2
  <2>3. /\ Swap(a, i, j) \in Seq(Digit) /\ Len(Swap(a, i, j)) = Len(a)
        /\ \A k \in 1 .. Len(a) :
              Swap(a, i, j)[k] = IF k = j THEN a[i] ELSE IF k = i THEN a[j] ELSE a[k]
    BY <2>a, <2>b, SwapIs
  <2>4. b = Swap(a, i, j)
    BY <2>1
  <2> HIDE DEF b
  <2>5. /\ b \in Seq(Digit) /\ Len(b) = 8
        /\ \A k \in 1 .. 8 : b[k] = IF k = 7 THEN a[2] ELSE IF k = 2 THEN a[7] ELSE a[k]
    BY <2>1, <2>2, <2>3, <2>4
  <2> QED
    BY <1>1, <2>5
<1> HIDE DEF b
<1>3. /\ c \in Seq(Digit) /\ Len(c) = 8
      /\ \A k \in 1 .. 8 : c[k] = IF k \in {1, 8, 2, 7, 3, 6} THEN x[9 - k] ELSE x[k]
  <2>1. PICK i \in 1 .. Len(b), j \in 1 .. Len(b) : i = 3 /\ j = 6
    BY <1>2
  <2>2. b \in Seq(Digit) /\ Len(b) = 8
    BY <1>2
  <2>a. i \in 1 .. Len(b) /\ j \in 1 .. Len(b)
    BY <2>1, <2>2
  <2>b. b \in Seq(Digit)
    BY <2>2
  <2>3. /\ Swap(b, i, j) \in Seq(Digit) /\ Len(Swap(b, i, j)) = Len(b)
        /\ \A k \in 1 .. Len(b) :
              Swap(b, i, j)[k] = IF k = j THEN b[i] ELSE IF k = i THEN b[j] ELSE b[k]
    BY <2>a, <2>b, SwapIs
  <2>4. c = Swap(b, i, j)
    BY <2>1
  <2> HIDE DEF c
  <2>5. /\ c \in Seq(Digit) /\ Len(c) = 8
        /\ \A k \in 1 .. 8 : c[k] = IF k = 6 THEN b[3] ELSE IF k = 3 THEN b[6] ELSE b[k]
    BY <2>1, <2>2, <2>3, <2>4
  <2> QED
    BY <1>2, <2>5
<1> HIDE DEF c
<1>4. /\ d \in Seq(Digit) /\ Len(d) = 8
      /\ \A k \in 1 .. 8 : d[k] = IF k \in {1, 8, 2, 7, 3, 6, 4, 5} THEN x[9 - k] ELSE x[k]
  <2>1. PICK i \in 1 .. Len(c), j \in 1 .. Len(c) : i = 4 /\ j = 5
    BY <1>3
  <2>2. c \in Seq(Digit) /\ Len(c) = 8
    BY <1>3
  <2>a. i \in 1 .. Len(c) /\ j \in 1 .. Len(c)
    BY <2>1, <2>2
  <2>b. c \in Seq(Digit)
    BY <2>2
  <2>3. /\ Swap(c, i, j) \in Seq(Digit) /\ Len(Swap(c, i, j)) = Len(c)
        /\ \A k \in 1 .. Len(c) :
              Swap(c, i, j)[k] = IF k = j THEN c[i] ELSE IF k = i THEN c[j] ELSE c[k]
    BY <2>a, <2>b, SwapIs
  <2>4. d = Swap(c, i, j)
    BY <2>1
  <2> HIDE DEF d
  <2>5. /\ d \in Seq(Digit) /\ Len(d) = 8
        /\ \A k \in 1 .. 8 : d[k] = IF k = 5 THEN c[4] ELSE IF k = 4 THEN c[5] ELSE c[k]
    BY <2>1, <2>2, <2>3, <2>4
  <2> QED
    BY <1>3, <2>5
<1>5. swap_qword(x) = d
  BY DEF swap_qword, a, b, c
<1> HIDE DEF d
<1>6. /\ Reverse(x) \in Seq(Digit) /\ Len(Reverse(x)) = 8
      /\ \A k \in 1 .. 8 : Reverse(x)[k] = x[9 - k]
  <2>1. /\ Reverse(x) \in Seq(Digit) /\ Len(Reverse(x)) = Len(x)
        /\ \A k \in 1 .. Len(x) : Reverse(x)[k] = x[Len(x) + 1 - k]
    BY ReverseIs
  <2>2. \A k \in 1 .. 8 : 8 + 1 - k = 9 - k
    OBVIOUS
  <2> QED
    BY <2>1, <2>2
<1>7. \A k \in 1 .. 8 : d[k] = Reverse(x)[k]
  <2>1. \A k \in 1 .. 8 : d[k] = x[9 - k]
    BY <1>4
  <2> QED
    BY <1>6, <2>1
<1>8. d = Reverse(x)
  <2>1. \A k \in 1 .. Len(d) : d[k] = Reverse(x)[k]
    BY <1>4, <1>7
  <2>2. d \in Seq(Digit) /\ Reverse(x) \in Seq(Digit) /\ Len(d) = Len(Reverse(x))
    BY <1>4, <1>6
  <2> QED
    BY <2>1, <2>2, SameDigits
<1> QED
  BY <1>5, <1>8

LEMMA Swapped ==
    ASSUME NEW x \in Numbers
    PROVE  endian_swap(x) = Reverse(x) /\ Reverse(x) \in Numbers /\ Reverse(Reverse(x)) = x
<1>1. x \in Seq(Digit) /\ Len(x) \in {1, 2, 4, 8}
  BY DEF Numbers, Digit
<1>2. Reverse(x) \in Seq(Digit) /\ Len(Reverse(x)) = Len(x)
  BY <1>1, ReverseIs
<1>3. Reverse(Reverse(x)) = x
  <2>1. /\ Reverse(Reverse(x)) \in Seq(Digit) /\ Len(Reverse(Reverse(x))) = Len(x)
        /\ \A i \in 1 .. Len(x) : Reverse(Reverse(x))[i] = Reverse(x)[Len(x) + 1 - i]
    BY <1>2, ReverseIs
  <2>2. \A i \in 1 .. Len(x) : Reverse(x)[Len(x) + 1 - i] = x[i]
    <3>1. \A j \in 1 .. Len(x) : Reverse(x)[j] = x[Len(x) + 1 - j]
      BY <1>1, ReverseIs
    <3>2. \A i \in 1 .. Len(x) : Len(x) + 1 - i \in 1 .. Len(x) /\ Len(x) + 1 - (Len(x) + 1 - i) = i
      BY <1>1
    <3> QED
      BY <3>1, <3>2
  <2> QED
    BY <1>1, <2>1, <2>2, SameDigits
<1>4. CASE Len(x) = 1
  <2>1. Reverse(x) = x
    <3>1. \A i \in 1 .. Len(Reverse(x)) : Reverse(x)[i] = x[i]
      BY <1>1, <1>4, ReverseIs
    <3> QED
      BY <1>1, <1>2, <3>1, SameDigits
  <2> QED
    BY <1>1, <1>2, <1>3, <1>4, <2>1 DEF endian_swap, Numbers, Digit
<1>5. CASE Len(x) = 2
  BY <1>1, <1>2, <1>3, <1>5, SwapWord DEF endian_swap, Numbers, Digit
<1>6. CASE Len(x) = 4
  BY <1>1, <1>2, <1>3, <1>6, SwapDword DEF endian_swap, Numbers, Digit
<1>7. CASE Len(x) = 8
  BY <1>1, <1>2, <1>3, <1>7, SwapQword DEF endian_swap, Numbers, Digit
<1> QED
  BY <1>1, <1>4, <1>5, <1>6, <1>7

LEMMA InOrder ==
    ASSUME mem \in Numbers, endian \in Endians, ~Floats
    PROVE  BytesInOrder
<1>1. Reverse(mem) \in Numbers /\ endian_swap(mem) = Reverse(mem) /\ Reverse(Reverse(mem)) = mem
      /\ endian_swap(Reverse(mem)) = mem
  BY Swapped
<1>2. CASE endian = "big"
  BY <1>1, <1>2 DEF BytesInOrder, Load, litendian_convert, bigendian_convert, little_float
<1>3. CASE endian # "big"
  BY <1>1, <1>3 DEF BytesInOrder, Load, litendian_convert, bigendian_convert, little_float
<1> QED
  BY <1>2, <1>3
-----------------------------------------------------------------------------
(* The position of the first one bit.                                      *)
LEMMA MinIs ==
    ASSUME NEW S \in SUBSET Nat, NEW m \in S, \A y \in S : m <= y
    PROVE  Min(S) = m
<1> DEFINE p == CHOOSE z \in S : \A y \in S : z =< y
<1>1. p \in S /\ \A y \in S : p =< y
  OBVIOUS
<1>2. Min(S) = p
  BY DEF Min
<1> HIDE DEF p
<1> QED
  BY <1>1, <1>2

LEMMA FirstIs ==
    ASSUME NEW x \in Seq(Digit), NEW i \in 1 .. Len(x), x[i] # 0,
           \A j \in 1 .. i - 1 : x[j] = 0
    PROVE  NonZero(x) # {} /\ Min(NonZero(x)) = i
<1>1. NonZero(x) \in SUBSET Nat /\ i \in NonZero(x)
  BY DEF NonZero
<1>2. \A y \in NonZero(x) : i <= y
  BY DEF NonZero
<1> QED
  BY <1>1, <1>2, MinIs

LEMMA FirstOne ==
    ASSUME NEW x \in Seq(Digit), NonZero(x) # {}
    PROVE  \E i \in 1 .. Len(x) : x[i] # 0 /\ \A j \in 1 .. i - 1 : x[j] = 0
<1>1. NonZero(x) \subseteq Nat
  BY DEF NonZero
<1>2. PICK i \in NonZero(x) : \A j \in NonZero(x) : ~(<<j, i>> \in OpToRel(<, Nat))
  BY <1>1, NatLessThanWellFounded, WFMin
<1>3. i \in 1 .. Len(x) /\ x[i] # 0
  BY DEF NonZero
<1>4. \A j \in 1 .. i - 1 : x[j] = 0
  <2> SUFFICES ASSUME NEW j \in 1 .. i - 1, x[j] # 0
               PROVE  FALSE
    OBVIOUS
  <2>1. j \in NonZero(x)
    BY <1>3 DEF NonZero
  <2>2. j \in Nat /\ i \in Nat /\ j < i
    BY <1>3
  <2> QED
    BY <1>2, <2>1, <2>2 DEF OpToRel
<1> QED
  BY <1>3, <1>4

LEMMA Log2Is ==
    ASSUME NEW d \in Digit, d # 0
    PROVE  /\ Log2(d) \in 0 .. 7
           /\ (d \div Power(Log2(d))) % 2 = 1
           /\ \A j \in Log2(d) + 1 .. 7 : (d \div Power(j)) % 2 = 0
<1> DEFINE S == {k \in 0 .. 7 : Power(k) <= d}
           p == CHOOSE z \in S : \A y \in S : z >= y
<1>1. d \in 1 .. 255
  BY DEF Digit, Base
<1>2. \A k \in 0 .. 7 : Power(k) \in {1, 2, 4, 8, 16, 32, 64, 128}
  BY DEF Power
<1>3. \E z \in S : \A y \in S : z >= y
  <2>1. CASE d >= 128
    <3>1. 7 \in S /\ \A y \in S : 7 >= y
      BY <1>1, <2>1 DEF Power
    <3> QED
      BY <3>1
  <2>2. CASE d >= 64 /\ d < 128
    <3>1. 6 \in S /\ \A y \in S : 6 >= y
      BY <1>1, <2>2 DEF Power
    <3> QED
      BY <3>1
  <2>3. CASE d >= 32 /\ d < 64
    <3>1. 5 \in S /\ \A y \in S : 5 >= y
      BY <1>1, <2>3 DEF Power
    <3> QED
      BY <3>1
  <2>4. CASE d >= 16 /\ d < 32
    <3>1. 4 \in S /\ \A y \in S : 4 >= y
      BY <1>1, <2>4 DEF Power
    <3> QED
      BY <3>1
  <2>5. CASE d >= 8 /\ d < 16
    <3>1. 3 \in S /\ \A y \in S : 3 >= y
      BY <1>1, <2>5 DEF Power
    <3> QED
      BY <3>1
  <2>6. CASE d >= 4 /\ d < 8
    <3>1. 2 \in S /\ \A y \in S : 2 >= y
      BY <1>1, <2>6 DEF Power
    <3> QED
      BY <3>1
  <2>7. CASE d >= 2 /\ d < 4
    <3>1. 1 \in S /\ \A y \in S : 1 >= y
      BY <1>1, <2>7 DEF Power
    <3> QED
      BY <3>1
  <2>8. CASE d < 2
    <3>1. 0 \in S /\ \A y \in S : 0 >= y
      BY <1>1, <2>8 DEF Power
    <3> QED
      BY <3>1
  <2> QED
    BY <1>1, <2>1, <2>2, <2>3, <2>4, <2>5, <2>6, <2>7, <2>8
<1>4. p \in S /\ \A y \in S : p >= y
  BY <1>3
<1>5. Log2(d) = p
  BY DEF Log2, Max
<1> HIDE DEF p
<1>6. p \in 0 .. 7 /\ Power(p) <= d /\ \A j \in 0 .. 7 : j > p => d < Power(j)
  BY <1>1, <1>2, <1>4
<1>7. d < 2 * Power(p)
  <2>1. CASE p = 7
    BY <1>1, <2>1 DEF Power
  <2>2. CASE p < 7
    <3>1. Power(p + 1) = 2 * Power(p)
      BY <1>6, <2>2 DEF Power
    <3>2. d < Power(p + 1)
      BY <1>6, <2>2
    <3> QED
      BY <3>1, <3>2
  <2> QED
    BY <1>6, <2>1, <2>2
<1>8. d \div Power(p) = 1
  <2> DEFINE q == Power(p)
  <2>1. q \in Nat /\ q > 0 /\ q <= d /\ d < 2 * q
    BY <1>2, <1>6, <1>7
  <2> HIDE DEF q
  <2>2. d \div q = 1
    BY <1>1, <2>1
  <2> QED
    BY <2>2 DEF q
<1>9. \A j \in p + 1 .. 7 : d \div Power(j) = 0
  <2> SUFFICES ASSUME NEW j \in p + 1 .. 7
               PROVE  d \div Power(j) = 0
    OBVIOUS
  <2> DEFINE q == Power(j)
  <2>1. q \in Nat /\ q > 0 /\ d < q
    BY <1>2, <1>6
  <2> HIDE DEF q
  <2>2. d \div q = 0
    BY <1>1, <2>1
  <2> QED
    BY <2>2 DEF q
<1> QED
  BY <1>5, <1>6, <1>8, <1>9
LEMMA BitIs ==
    ASSUME NEW x \in Seq(Digit), NEW i \in 1 .. Len(x), NEW j \in 0 .. 7
    PROVE  Bit(x, 8 * (i - 1) + 7 - j) = (x[i] \div Power(j)) % 2
<1>1. PICK k \in Nat : k = 8 * (i - 1) + 7 - j
  OBVIOUS
<1>2. k \div 8 = i - 1 /\ k % 8 = 7 - j
  BY <1>1
<1>3. (k \div 8) + 1 = i /\ 7 - (k % 8) = j
  BY <1>2
<1>4. Bit(x, k) = (x[i] \div Power(j)) % 2
  BY <1>3 DEF Bit
<1> QED
  BY <1>1, <1>4

(* All bits before the first digit that is not 0, and in it before its     *)
(* first one bit, are 0.                                                   *)
LEMMA FirstBit ==
    ASSUME NEW x \in Seq(Digit), NEW i \in 1 .. Len(x), x[i] # 0,
           \A j \in 1 .. i - 1 : x[j] = 0
    PROVE  LET p == 8 * i - 1 - Log2(x[i])
           IN  /\ p \in 0 .. 8 * Len(x) - 1 /\ Bit(x, p) = 1
               /\ \A k \in 0 .. p - 1 : Bit(x, k) # 1
<1> DEFINE l == Log2(x[i])
           p == 8 * i - 1 - l
<1>1. x[i] \in Digit /\ x[i] # 0
  OBVIOUS
<1>2. /\ l \in 0 .. 7 /\ (x[i] \div Power(l)) % 2 = 1
      /\ \A j \in l + 1 .. 7 : (x[i] \div Power(j)) % 2 = 0
  BY <1>1, Log2Is
<1> HIDE DEF l
<1>3. p \in 0 .. 8 * Len(x) - 1
  BY <1>2
<1>4. Bit(x, p) = 1
  <2>1. p = 8 * (i - 1) + 7 - l
    BY <1>2
  <2> HIDE DEF p
  <2> QED
    BY <1>2, <2>1, BitIs
<1>5. \A k \in 0 .. p - 1 : Bit(x, k) # 1
  <2> SUFFICES ASSUME NEW k \in 0 .. p - 1
               PROVE  Bit(x, k) # 1
    OBVIOUS
  <2>1. PICK q \in 1 .. Len(x), j \in 0 .. 7 : k = 8 * (q - 1) + 7 - j
    <3>1. PICK q \in Int, j \in Int : q = (k \div 8) + 1 /\ j = 7 - (k % 8)
      OBVIOUS
    <3>2. k \in Nat /\ k < 8 * Len(x)
      BY <1>3
    <3>3. k = 8 * (k \div 8) + (k % 8) /\ k % 8 \in 0 .. 7
      BY <3>2
    <3>4. j \in 0 .. 7 /\ k = 8 * (q - 1) + 7 - j
      BY <3>1, <3>3
    <3>5. q \in 1 .. Len(x)
      BY <3>1, <3>2, <3>3
    <3> QED
      BY <3>4, <3>5
  <2>2. Bit(x, k) = (x[q] \div Power(j)) % 2
    BY <2>1, BitIs
  <2>3. q < i \/ (q = i /\ j > l)
    BY <1>2, <2>1
  <2>4. CASE q < i
    <3>1. x[q] = 0
      BY <2>4
    <3>2. Power(j) \in {1, 2, 4, 8, 16, 32, 64, 128}
      BY DEF Power
    <3>3. 0 \div Power(j) = 0
      BY <3>2
    <3> QED
      BY <2>2, <3>1, <3>3
  <2>5. CASE q = i /\ j > l
    <3>1. (x[q] \div Power(j)) % 2 = 0
      BY <1>2, <2>5
    <3> QED
      BY <2>2, <3>1
  <2> QED
    BY <2>3, <2>4, <2>5
<1> QED
  BY <1>3, <1>4, <1>5 DEF p, l

Ones(x) == {k \in 0 .. 8 * Len(x) - 1 : Bit(x, k) = 1}

LEMMA NoOnes ==
    ASSUME NEW x \in Seq(Digit), NonZero(x) = {}
    PROVE  Ones(x) = {}
<1> SUFFICES ASSUME NEW k \in 0 .. 8 * Len(x) - 1
             PROVE  Bit(x, k) # 1
  BY DEF Ones
<1>1. PICK q \in 1 .. Len(x), r \in 0 .. 7 : q = (k \div 8) + 1 /\ r = 7 - (k % 8)
  <2>1. (k \div 8) + 1 \in 1 .. Len(x) /\ 7 - (k % 8) \in 0 .. 7
    OBVIOUS
  <2> QED
    BY <2>1
<1>2. x[q] = 0
  BY <1>1 DEF NonZero
<1>3. Power(r) \in {1, 2, 4, 8, 16, 32, 64, 128}
  BY <1>1 DEF Power
<1>4. Bit(x, k) = (0 \div Power(r)) % 2
  BY <1>1, <1>2 DEF Bit
<1>5. (0 \div Power(r)) % 2 = 0
  BY <1>3
<1> QED
  BY <1>4, <1>5

(* Shifts() by the first digit that is not 0.                              *)
LEMMA ShiftsAre ==
    ASSUME NEW x \in Seq(Digit), NEW i \in 1 .. Len(x), x[i] # 0,
           \A j \in 1 .. i - 1 : x[j] = 0
    PROVE  Shifts(x) = 8 * (Len(x) - i) + Log2(x[i]) /\ Log2(x[i]) \in 0 .. 7
           /\ NonZero(x) # {}
<1>1. Min(NonZero(x)) = i /\ NonZero(x) # {}
  BY FirstIs
<1>2. x[i] \in Digit
  OBVIOUS
<1>3. Log2(x[i]) \in 0 .. 7
  BY <1>2, Log2Is
<1> QED
  BY <1>1, <1>3 DEF Shifts

LEMMA Scan32 ==
    ASSUME NEW x \in Seq(Digit), Len(x) = 4, NEW i \in 1 .. 4, x[i] # 0,
           \A j \in 1 .. i - 1 : x[j] = 0
    PROVE  bit_scan_32(x) = 8 * i - 1 - Log2(x[i]) /\ Log2(x[i]) \in 0 .. 7
<1>1. i \in 1 .. Len(x)
  OBVIOUS
<1>2. Shifts(x) = 8 * (Len(x) - i) + Log2(x[i]) /\ Log2(x[i]) \in 0 .. 7 /\ NonZero(x) # {}
  BY <1>1, ShiftsAre
<1> QED
  BY <1>2 DEF bit_scan_32

LEMMA ScanNone ==
    ASSUME NEW x \in Seq(Digit), \A i \in 1 .. Len(x) : x[i] = 0
    PROVE  bit_scan_32(x) = ULONG_MAX
<1>1. NonZero(x) = {}
  BY DEF NonZero
<1> QED
  BY <1>1 DEF bit_scan_32

LEMMA ScanSmall ==
    ASSUME NEW x \in Seq(Digit), Len(x) \in {1, 2}
    PROVE  /\ NonZero(x) = {} => bit_scan_msb(x) = ULONG_MAX
           /\ \A i \in 1 .. Len(x) :
                (x[i] # 0 /\ \A j \in 1 .. i - 1 : x[j] = 0)
                  => bit_scan_msb(x) = 8 * i - 1 - Log2(x[i])
<1>1. PICK n \in Nat : n = 4 - Len(x) /\ n \in {2, 3}
  <2>1. CASE Len(x) = 1
    BY <2>1
  <2>2. CASE Len(x) = 2
    BY <2>2
  <2> QED
    BY <2>1, <2>2
<1>2. PICK z \in Seq(Digit) : z = Zeros(n) /\ Len(z) = n /\ \A i \in 1 .. n : z[i] = 0
  BY ZerosAre
<1>3. PICK y \in Seq(Digit) : y = z \o x
  <2>1. z \in Seq(Digit) /\ x \in Seq(Digit)
    OBVIOUS
  <2>2. (z \o x) \in Seq(Digit)
    BY <2>1
  <2> QED
    BY <2>2
<1>4. Len(y) = 4
  <2>1. z \in Seq(Digit) /\ x \in Seq(Digit)
    OBVIOUS
  <2>2. Len(z \o x) = Len(z) + Len(x)
    BY <2>1
  <2> QED
    BY <1>1, <1>2, <1>3, <2>2
<1>5. \A k \in 1 .. 4 : y[k] = IF k <= n THEN 0 ELSE x[k - n]
  <2>1. \A k \in 1 .. Len(z) + Len(x) : (z \o x)[k] = IF k <= Len(z) THEN z[k] ELSE x[k - Len(z)]
    OBVIOUS
  <2> QED
    BY <1>1, <1>2, <1>3, <2>1
<1>6. bit_scan_msb(x) = IF bit_scan_32(y) = ULONG_MAX THEN ULONG_MAX ELSE bit_scan_32(y) - 8 * n
  BY <1>1, <1>2, <1>3 DEF bit_scan_msb, bit_scan_small
<1>7. ASSUME NonZero(x) = {}
      PROVE  bit_scan_msb(x) = ULONG_MAX
  <2>1. \A k \in 1 .. Len(x) : x[k] = 0
    BY <1>7 DEF NonZero
  <2>2. \A k \in 1 .. 4 : k - n \in 1 .. Len(x) \/ k <= n
    BY <1>1
  <2>3. \A k \in 1 .. Len(y) : y[k] = 0
    BY <1>4, <1>5, <2>1, <2>2
  <2> QED
    BY <1>6, <2>3, ScanNone
<1>8. ASSUME NEW i \in 1 .. Len(x), x[i] # 0, \A j \in 1 .. i - 1 : x[j] = 0
      PROVE  bit_scan_msb(x) = 8 * i - 1 - Log2(x[i])
  <2>1. PICK k \in 1 .. 4 : k = i + n
    BY <1>1
  <2>2. y[k] = x[i]
    <3>1. k > n /\ k - n = i
      BY <1>1, <2>1
    <3> QED
      BY <1>5, <3>1
  <2>3. \A j \in 1 .. k - 1 : y[j] = 0
    <3> SUFFICES ASSUME NEW j \in 1 .. k - 1
                 PROVE  y[j] = 0
      OBVIOUS
    <3>1. CASE j <= n
      BY <1>5, <3>1
    <3>2. CASE j > n
      <4>1. j - n \in 1 .. i - 1
        BY <1>1, <2>1, <3>2
      <4> QED
        BY <1>5, <1>8, <3>2, <4>1, SMTT(30)
    <3> QED
      BY <1>1, <3>1, <3>2
  <2>4. bit_scan_32(y) = 8 * k - 1 - Log2(x[i]) /\ Log2(x[i]) \in 0 .. 7
    BY <1>4, <1>8, <2>2, <2>3, Scan32
  <2>5. bit_scan_32(y) # ULONG_MAX
    BY <2>4 DEF ULONG_MAX
  <2> QED
    <3>1. bit_scan_msb(x) = bit_scan_32(y) - 8 * n
      BY <1>6, <2>5
    <3>2. n \in 0 .. 4 /\ i \in Nat
      BY <1>1
    <3>3. 8 * k - 1 - Log2(x[i]) - 8 * n = 8 * i - 1 - Log2(x[i])
      <4>1. \A l \in 0 .. 7 : 8 * (i + n) - 1 - l - 8 * n = 8 * i - 1 - l
        BY <3>2
      <4> QED
        BY <2>1, <2>4, <4>1, Zenon
    <3> QED
      BY <2>4, <3>1, <3>3, Zenon
<1> QED
  BY <1>7, <1>8

LEMMA PartIs ==
    ASSUME NEW x \in Seq(Digit), NEW m \in Nat, NEW n \in Nat, m + n <= Len(x)
    PROVE  /\ SubSeq(x, m + 1, m + n) \in Seq(Digit) /\ Len(SubSeq(x, m + 1, m + n)) = n
           /\ \A k \in 1 .. n : SubSeq(x, m + 1, m + n)[k] = x[k + m]
  OBVIOUS

LEMMA ScanHalves ==
    ASSUME NEW x \in Seq(Digit), Len(x) = 8
    PROVE  /\ NonZero(x) = {} => bit_scan_msb(x) = ULONG_MAX
           /\ \A i \in 1 .. 8 :
                (x[i] # 0 /\ \A j \in 1 .. i - 1 : x[j] = 0)
                  => bit_scan_msb(x) = 8 * i - 1 - Log2(x[i])
<1>1. PICK h \in Seq(Digit) : h = SubSeq(x, 1, 4) /\ Len(h) = 4 /\ \A k \in 1 .. 4 : h[k] = x[k]
  <2>1. PICK m \in Nat, n \in Nat : m = 0 /\ n = 4
    OBVIOUS
  <2>2. m + n <= Len(x) /\ m + 1 = 1 /\ m + n = 4 /\ \A k \in 1 .. n : k + m = k
    BY <2>1
  <2>3. /\ SubSeq(x, m + 1, m + n) \in Seq(Digit) /\ Len(SubSeq(x, m + 1, m + n)) = n
        /\ \A k \in 1 .. n : SubSeq(x, m + 1, m + n)[k] = x[k + m]
    BY <2>2, PartIs
  <2> QED
    BY <2>1, <2>2, <2>3
<1>2. PICK l \in Seq(Digit) : l = SubSeq(x, 5, 8) /\ Len(l) = 4 /\ \A k \in 1 .. 4 : l[k] = x[k + 4]
  <2>1. PICK m \in Nat, n \in Nat : m = 4 /\ n = 4
    OBVIOUS
  <2>2. m + n <= Len(x) /\ m + 1 = 5 /\ m + n = 8
    BY <2>1
  <2>3. /\ SubSeq(x, m + 1, m + n) \in Seq(Digit) /\ Len(SubSeq(x, m + 1, m + n)) = n
        /\ \A k \in 1 .. n : SubSeq(x, m + 1, m + n)[k] = x[k + m]
    BY <2>2, PartIs
  <2> QED
    BY <2>1, <2>2, <2>3
<1>3. bit_scan_msb(x) =
        IF bit_scan_32(h) # ULONG_MAX THEN bit_scan_32(h)
        ELSE IF bit_scan_32(l) = ULONG_MAX THEN bit_scan_32(l) ELSE bit_scan_32(l) + 32
  BY <1>1, <1>2 DEF bit_scan_msb, bit_scan_64
<1>4. ASSUME NonZero(x) = {}
      PROVE  bit_scan_msb(x) = ULONG_MAX
  <2>1. \A k \in 1 .. 8 : x[k] = 0
    BY <1>4 DEF NonZero
  <2>2. (\A k \in 1 .. Len(h) : h[k] = 0) /\ (\A k \in 1 .. Len(l) : l[k] = 0)
    BY <1>1, <1>2, <2>1
  <2>3. bit_scan_32(h) = ULONG_MAX /\ bit_scan_32(l) = ULONG_MAX
    BY <2>2, ScanNone
  <2> QED
    BY <1>3, <2>3
<1>5. ASSUME NEW i \in 1 .. 8, x[i] # 0, \A j \in 1 .. i - 1 : x[j] = 0
      PROVE  bit_scan_msb(x) = 8 * i - 1 - Log2(x[i])
  <2>1. CASE i \in 1 .. 4
    <3>1. h[i] # 0 /\ h[i] = x[i] /\ \A j \in 1 .. i - 1 : h[j] = 0
      BY <1>1, <1>5, <2>1
    <3>2. bit_scan_32(h) = 8 * i - 1 - Log2(x[i]) /\ Log2(x[i]) \in 0 .. 7
      BY <1>1, <2>1, <3>1, Scan32
    <3>3. bit_scan_32(h) # ULONG_MAX
      BY <2>1, <3>2 DEF ULONG_MAX
    <3> QED
      BY <1>3, <3>2, <3>3
  <2>2. CASE i \in 5 .. 8
    <3>1. PICK k \in 1 .. 4 : i = k + 4
      BY <2>2
    <3>2. \A j \in 1 .. Len(h) : h[j] = 0
      BY <1>1, <1>5, <3>1
    <3>3. bit_scan_32(h) = ULONG_MAX
      BY <3>2, ScanNone
    <3>4. l[k] # 0 /\ l[k] = x[i] /\ \A j \in 1 .. k - 1 : l[j] = 0
      BY <1>2, <1>5, <3>1
    <3>5. bit_scan_32(l) = 8 * k - 1 - Log2(x[i]) /\ Log2(x[i]) \in 0 .. 7
      BY <1>2, <3>4, Scan32
    <3>6. bit_scan_32(l) # ULONG_MAX
      BY <3>5 DEF ULONG_MAX
    <3>7. bit_scan_msb(x) = bit_scan_32(l) + 32
      BY <1>3, <3>3, <3>6
    <3>8. PICK g \in 0 .. 7 : g = Log2(x[i])
      BY <3>5
    <3>9. bit_scan_32(l) = 8 * k - 1 - g
      BY <3>5, <3>8
    <3> QED
      BY <3>1, <3>7, <3>8, <3>9
  <2> QED
    BY <2>1, <2>2
<1> QED
  BY <1>4, <1>5

LEMMA ScanIs ==
    ASSUME NEW x \in Numbers
    PROVE  /\ NonZero(x) = {} => bit_scan_msb(x) = ULONG_MAX
           /\ \A i \in 1 .. Len(x) :
                (x[i] # 0 /\ \A j \in 1 .. i - 1 : x[j] = 0)
                  => bit_scan_msb(x) = 8 * i - 1 - Log2(x[i])
<1>1. x \in Seq(Digit) /\ Len(x) \in {1, 2, 4, 8}
  BY DEF Numbers, Digit
<1>2. CASE Len(x) \in {1, 2}
  BY <1>1, <1>2, ScanSmall
<1>3. CASE Len(x) = 4
  <2>1. bit_scan_msb(x) = bit_scan_32(x)
    BY <1>3 DEF bit_scan_msb
  <2>2. NonZero(x) = {} => bit_scan_32(x) = ULONG_MAX
    BY DEF bit_scan_32
  <2>3. ASSUME NEW i \in 1 .. Len(x), x[i] # 0, \A j \in 1 .. i - 1 : x[j] = 0
        PROVE  bit_scan_32(x) = 8 * i - 1 - Log2(x[i])
    BY <1>1, <1>3, <2>3, Scan32
  <2> QED
    BY <2>1, <2>2, <2>3
<1>4. CASE Len(x) = 8
  BY <1>1, <1>4, ScanHalves
<1> QED
  BY <1>1, <1>2, <1>3, <1>4

LEMMA Leading ==
    ASSUME mem \in Numbers
    PROVE  LeadingZeros
<1>1. mem \in Seq(Digit)
  BY DEF Numbers, Digit
<1>2. LeadingZeros <=> bit_scan_msb(mem) = IF Ones(mem) = {} THEN ULONG_MAX ELSE Min(Ones(mem))
  BY DEF LeadingZeros, Ones
<1>3. CASE NonZero(mem) = {}
  BY <1>1, <1>2, <1>3, NoOnes, ScanIs
<1>4. CASE NonZero(mem) # {}
  <2>1. PICK i \in 1 .. Len(mem) : mem[i] # 0 /\ \A j \in 1 .. i - 1 : mem[j] = 0
    BY <1>1, <1>4, FirstOne
  <2> DEFINE p == 8 * i - 1 - Log2(mem[i])
  <2>2. p \in 0 .. 8 * Len(mem) - 1 /\ Bit(mem, p) = 1 /\ \A k \in 0 .. p - 1 : Bit(mem, k) # 1
    BY <1>1, <2>1, FirstBit
  <2>3. bit_scan_msb(mem) = p
    BY <2>1, ScanIs
  <2> HIDE DEF p
  <2>4. Ones(mem) \in SUBSET Nat /\ p \in Ones(mem) /\ \A k \in Ones(mem) : p <= k
    BY <1>1, <2>2 DEF Ones
  <2>5. Min(Ones(mem)) = p
    BY <2>4, MinIs
  <2> QED
    BY <1>2, <2>3, <2>4, <2>5
<1> QED
  BY <1>3, <1>4

-----------------------------------------------------------------------------
BinInv == mem \in Numbers /\ endian \in Endians

LEMMA BinSafe ==
    ASSUME BinInv, ~Floats
    PROVE  BytesSwapped
<1>1. BinTypeOK
  <2>1. mem \in Seq(0 .. Base - 1)
    BY DEF BinInv, Numbers
  <2>2. \A S : mem \in Seq(S) => \A i \in DOMAIN mem : mem[i] \in S
    OBVIOUS
  <2>3. \A i \in DOMAIN mem : mem[i] \in 0 .. Base - 1
    BY <2>1, <2>2, Zenon
  <2> QED
    BY <2>3 DEF BinTypeOK
<1>2. BytesInOrder
  BY InOrder DEF BinInv
<1>3. LeadingZeros
  BY Leading DEF BinInv
<1> QED
  BY <1>1, <1>2, <1>3 DEF BytesSwapped

LEMMA BinStep ==
    ASSUME BinInv, [BinNext]_binvars
    PROVE  BinInv'
<1>1. CASE BinNext
  BY <1>1, Swapped DEF BinNext, Convert, BinInv
<1>2. CASE UNCHANGED binvars
  BY <1>2 DEF binvars, BinInv
<1> QED
  BY <1>1, <1>2

(* Numbers of every width are read alike on machines of both byte orders,  *)
(* and bit_scan_msb() finds the first one bit of each (bindata.h).         *)
THEOREM Swaps ==
    ASSUME ~Floats
    PROVE  BinSpec => []BytesSwapped
<1>1. BinInit => BinInv
  BY BinAssumption DEF BinInit, BinInv
<1>2. BinInv /\ [BinNext]_binvars => BinInv'
  BY BinStep
<1>3. BinInv => BytesSwapped
  BY BinSafe
<1> QED
  BY <1>1, <1>2, <1>3, PTL DEF BinSpec
=============================================================================
