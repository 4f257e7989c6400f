------------------------------ MODULE BinData -------------------------------
(***************************************************************************)
(* Byte order and bits (bindata.h).  A number of 1, 2, 4 or 8 bytes is the *)
(* sequence of its digits in base 256, the most significant one first; on  *)
(* a little-endian machine memory has them the other way round.  Where the *)
(* code has a formula beside the compilers' builtin functions, it is the   *)
(* formula that is modelled.                                               *)
(*                                                                         *)
(* Client rule: little_float() and little_double() are not used on a       *)
(* big-endian machine, unless Floats.                                      *)
(***************************************************************************)
EXTENDS Integers, Sequences, SequencesExt, FiniteSetsExt

CONSTANTS
    Memory,     \* the contents of memory that numbers are read from
    Floats

Base == 256
Numbers == {x \in Seq(0 .. Base - 1) : Len(x) \in {1, 2, 4, 8}}

ASSUME BinAssumption == Memory \subseteq Numbers

ULONG_MAX == -1
Endians == {"little", "big"}

(* Shifts by whole bytes, and masks of whole bytes.                        *)
Zeros(n) == [i \in 1 .. n |-> 0]
Shl(x, k) == SubSeq(x, k + 1, Len(x)) \o Zeros(k)
Shr(x, k) == Zeros(k) \o SubSeq(x, 1, Len(x) - k)
Mask(x, kept) == [i \in DOMAIN x |-> IF i \in kept THEN x[i] ELSE 0]
Or(x, y) == [i \in DOMAIN x |-> IF x[i] = 0 THEN y[i] ELSE x[i]]   \* of bytes apart
Swap(x, i, j) == [x EXCEPT ![i] = x[j], ![j] = x[i]]

swap_word(w) == Or(Shr(w, 1), Shl(Mask(w, {2}), 1))

swap_dword(dw) ==
    Or(Or(Shl(Mask(dw, {4}), 3), Shl(Mask(dw, {3}), 1)),
       Or(Mask(Shr(dw, 1), {3}), Mask(Shr(dw, 3), {4})))

swap_qword(qw) == Swap(Swap(Swap(Swap(qw, 1, 8), 2, 7), 3, 6), 4, 5)

(* endian_swap: by the size of the type.                                   *)
endian_swap(x) ==
    CASE Len(x) = 1 -> x
      [] Len(x) = 2 -> swap_word(x)
      [] Len(x) = 4 -> swap_dword(x)
      [] Len(x) = 8 -> swap_qword(x)

(* little_word() to little_qword() and litendian_convert, big_word() to    *)
(* big_qword() and bigendian_convert.                                      *)
litendian_convert(x, endian) == IF endian = "big" THEN endian_swap(x) ELSE x
bigendian_convert(x, endian) == IF endian = "big" THEN x ELSE endian_swap(x)

(* The result of the swap is not used.                                     *)
little_float(x, endian) == x

-----------------------------------------------------------------------------
(* bit_scan_msb().  The loop counts the shifts that leave something.       *)
(* 1 << k                                                                  *)
Power(k) ==
    CASE k = 0 -> 1 [] k = 1 -> 2 [] k = 2 -> 4 [] k = 3 -> 8
      [] k = 4 -> 16 [] k = 5 -> 32 [] k = 6 -> 64 [] k = 7 -> 128

NonZero(x) == {i \in DOMAIN x : x[i] # 0}
Log2(d) == Max({k \in 0 .. 7 : Power(k) <= d})
Shifts(x) == LET i == Min(NonZero(x)) IN 8 * (Len(x) - i) + Log2(x[i])

bit_scan_32(mask) == IF NonZero(mask) = {} THEN ULONG_MAX ELSE 31 - Shifts(mask)

(* Mutation of bit_scan_64: the upper half is forgotten in the count.      *)
bit_scan_halves(mask) ==
    LET high == bit_scan_32(SubSeq(mask, 1, 4))
    IN  IF high # ULONG_MAX THEN high ELSE bit_scan_32(SubSeq(mask, 5, 8))

bit_scan_64(mask) ==
    LET high == bit_scan_32(SubSeq(mask, 1, 4))
        low == bit_scan_32(SubSeq(mask, 5, 8))
    IN  IF high # ULONG_MAX THEN high ELSE IF low = ULONG_MAX THEN low ELSE low + 32

(* uint8_t and uint16_t: widened to 32 bits.                               *)
bit_scan_small(mask, n) ==
    LET index == bit_scan_32(Zeros(n) \o mask)
    IN  IF index = ULONG_MAX THEN ULONG_MAX ELSE index - 8 * n

bit_scan_msb(mask) ==
    CASE Len(mask) = 8 -> bit_scan_64(mask)
      [] Len(mask) = 4 -> bit_scan_32(mask)
      [] OTHER -> bit_scan_small(mask, 4 - Len(mask))

-----------------------------------------------------------------------------
(* A number is read from memory, and converted in place.                   *)
VARIABLES mem, endian
binvars == <<mem, endian>>

BinInit == mem \in Memory /\ endian \in Endians

Load(m) == IF endian = "big" THEN m ELSE Reverse(m)

Convert == mem' = endian_swap(mem) /\ UNCHANGED endian
BinNext == Convert
BinSpec == BinInit /\ [][BinNext]_binvars

-----------------------------------------------------------------------------
BinTypeOK == \A i \in DOMAIN mem : mem[i] \in 0 .. Base - 1

(* A number that a file has in one byte order is read alike on every       *)
(* machine, at every width, and converting twice changes nothing; floats   *)
(* of a file are read alike only on little-endian machines.                *)
BytesInOrder ==
    /\ litendian_convert(Load(mem), endian) = Reverse(mem)
    /\ bigendian_convert(Load(mem), endian) = mem
    /\ endian_swap(endian_swap(mem)) = mem
    /\ Floats \/ endian = "little" => little_float(Load(mem), endian) = Reverse(mem)

(* bit_scan_msb() is the number of zero bits before the first one bit,     *)
(* at every width, and ULONG_MAX for 0.                                    *)
Bit(x, k) == (x[(k \div 8) + 1] \div Power(7 - (k % 8))) % 2
LeadingZeros ==
    LET ones == {k \in 0 .. 8 * Len(mem) - 1 : Bit(mem, k) = 1}
    IN  bit_scan_msb(mem) = IF ones = {} THEN ULONG_MAX ELSE Min(ones)

BytesSwapped == BinTypeOK /\ BytesInOrder /\ LeadingZeros
=============================================================================
