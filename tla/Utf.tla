-------------------------------- MODULE Utf ---------------------------------
(***************************************************************************)
(* The conversions of one character between UTF-8, UTF-16 and code points  *)
(* (namespace detail of sysstring.h).  Code units are numbers.  Bits are   *)
(* taken by division: x & 0x3f is x % 64, x >> 6 is x \div 64, and an |    *)
(* of numbers that share no bit is their sum.                              *)
(***************************************************************************)
EXTENDS Integers, Sequences

Byte == 0 .. 255
Unit == 0 .. 65535

(* UChar32 (-1), which is larger than any code point.                      *)
Invalid == -1
MaxCode == 1114111               \* 0x10ffff
replacement_code_point == 65533  \* 0xfffd

(* Mutation of TooLarge: -1 is taken to be a signed number.                *)
SignedTooLarge(code) == code > MaxCode

(* Mutation of TooLarge: the bound is that of 21 bits.                     *)
Above21Bits(code) == code = Invalid \/ code > 2097151

(* code > 0x10ffff, for an unsigned code.                                  *)
TooLarge(code) == code = Invalid \/ code > MaxCode

(* A character found: its code, and the number of code units it took.      *)
Found(code, used) == [code |-> code, used |-> used]

-----------------------------------------------------------------------------
(* (b & 0xc0) == 0x80                                                      *)
Continues(b) == b \div 64 = 2

(* How many bytes follow the lead byte ch, by the number of its leading    *)
(* ones; 6 is too long a sequence.                                         *)
Follow(ch) ==
    IF ch < 224 THEN 1 ELSE IF ch < 240 THEN 2 ELSE IF ch < 248 THEN 3
    ELSE IF ch < 252 THEN 4 ELSE IF ch < 254 THEN 5 ELSE 6

(* The n bytes after s[i] are all there, and all continue it.              *)
Continued(s, i, n) == i + n <= Len(s) /\ \A j \in 1 .. n : Continues(s[i + j])

(* 1 << (6 * n)                                                            *)
Shift(n) ==
    CASE n = 0 -> 1 [] n = 1 -> 64 [] n = 2 -> 4096 [] n = 3 -> 262144
      [] n = 4 -> 16777216 [] n = 5 -> 1073741824

(* Mutation of LeadBits: one bit too few of the lead byte.                 *)
LeadBitsLess(ch, n) ==
    CASE n = 1 -> ch % 16 [] n = 2 -> ch % 8 [] n = 3 -> ch % 4
      [] n = 4 -> ch % 2 [] n = 5 -> 0

(* ch & (mask - 1), after n bytes.                                         *)
LeadBits(ch, n) ==
    CASE n = 1 -> ch % 32 [] n = 2 -> ch % 16 [] n = 3 -> ch % 8
      [] n = 4 -> ch % 4 [] n = 5 -> ch % 2

(* The code point of the lead byte s[i] and the n bytes after it.          *)
Sequence(s, i, n) ==
    LET bits(j) == IF j > n THEN 0 ELSE (s[i + j] % 64) * Shift(n - j)
    IN  LeadBits(s[i], n) * Shift(n) + bits(1) + bits(2) + bits(3) + bits(4) + bits(5)

(* How many bytes are skipped after s[i] when not all n continue it, or    *)
(* when it would be too long.                                              *)
Skipped(s, i, n) ==
    {k \in 0 .. n : Continued(s, i, k) /\ (k = n \/ ~Continued(s, i, k + 1))}

(* u8tou32 (first, last), first at s[i].                                   *)
u8tou32(s, i) ==
    LET ch == s[i]
        n  == Follow(ch)
    IN  IF ch < 128 \/ Continues(ch) THEN Found(ch, 1)
        ELSE IF n < 6 /\ Continued(s, i, n) THEN Found(Sequence(s, i, n), 1 + n)
        ELSE Found(Invalid, 1 + CHOOSE k \in Skipped(s, i, n) : TRUE)

High(u) == 55296 <= u /\ u <= 56319     \* 0xd800 .. 0xdbff
Low(u)  == 56320 <= u /\ u <= 57343     \* 0xdc00 .. 0xdfff

(* Mutation of u16tou32: the second half of a pair is left for the next    *)
(* character.                                                              *)
PairNotPassed(s, i) ==
    IF High(s[i]) /\ i < Len(s) /\ Low(s[i + 1])
    THEN Found((s[i] - 55296) * 1024 + (s[i + 1] - 56320) + 65536, 1)
    ELSE Found(s[i], 1)

(* u16tou32 (first, last), first at s[i].                                  *)
u16tou32(s, i) ==
    IF High(s[i]) /\ i < Len(s) /\ Low(s[i + 1])
    THEN Found((s[i] - 55296) * 1024 + (s[i + 1] - 56320) + 65536, 2)
    ELSE Found(s[i], 1)

(* What is encoded for a code.                                             *)
Valid(code) == IF TooLarge(code) THEN replacement_code_point ELSE code

(* u32tou8 (code, out): what is put to out.                                *)
u32tou8(code) ==
    LET c == Valid(code)
        tail(k) == 128 + ((c \div Shift(k)) % 64)
    IN  IF c <= 127 THEN <<c>>
        ELSE IF c <= 2047 THEN <<192 + (c \div 64), tail(0)>>
        ELSE IF c <= 65535 THEN <<224 + (c \div 4096), tail(1), tail(0)>>
        ELSE <<240 + (c \div 262144), tail(2), tail(1), tail(0)>>

(* u32tou16 (code, out): what is put to out.                               *)
u32tou16(code) ==
    LET c == Valid(code) IN
    IF c < 65536 THEN <<c>>
    ELSE <<55296 + ((c - 65536) \div 1024), 56320 + ((c - 65536) % 1024)>>

-----------------------------------------------------------------------------
(* The reference: Unicode, of which this is not a translation of the code. *)
Surrogate(c) == 55296 <= c /\ c <= 57343

Scalar(c) == c \in Nat /\ c <= MaxCode /\ ~Surrogate(c)

(* Table 3-7 of the Unicode standard: the well-formed characters of UTF-8. *)
Rows ==
    { <<0 .. 127>>,
      <<194 .. 223, 128 .. 191>>,
      <<{224}, 160 .. 191, 128 .. 191>>,
      <<225 .. 236, 128 .. 191, 128 .. 191>>,
      <<{237}, 128 .. 159, 128 .. 191>>,
      <<238 .. 239, 128 .. 191, 128 .. 191>>,
      <<{240}, 144 .. 191, 128 .. 191, 128 .. 191>>,
      <<241 .. 243, 128 .. 191, 128 .. 191, 128 .. 191>>,
      <<{244}, 128 .. 143, 128 .. 191, 128 .. 191>> }

Fits(s, i, row) ==
    i + Len(row) <= Len(s) + 1 /\ \A j \in DOMAIN row : s[i + j - 1] \in row[j]

WellFormedAt(s, i) == \E row \in Rows : Fits(s, i, row)
=============================================================================
