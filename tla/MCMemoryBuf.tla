---------------------------- MODULE MCMemoryBuf -----------------------------
(* Small instances of MemoryBuf: texts of 0 and 2 characters that grow     *)
(* twice, with one block more than a growing buffer needs.                 *)
EXTENDS MemoryBuf, TLC

MCModes == SUBSET {"in", "out"}
MCTexts == {<<>>} \cup {s \in [1 .. 2 -> Char] : s[1] # s[2]}
MCStrings == {s \in [1 .. 2 -> Char] : s[1] # s[2]}
MCOffsets == -1 .. 1

MemorySymmetry == Permutations(Char) \cup Permutations(Blocks)
=============================================================================
