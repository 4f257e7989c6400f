---------------------------- MODULE MCMappedBuf -----------------------------
(* Small instances of MappedBuf: files of up to two pages and a half, and  *)
(* reads and writes of less, as much and more than a page.                 *)
EXTENDS MappedBuf, TLC

MCStrings == {s \in [1 .. 1 -> Char] \cup [1 .. 3 -> Char] : Len(s) = 3 => s[1] # s[2]}

MCOffsets == -3 .. 3

CharSymmetry == Permutations(Char)

(* The last call and its answer matter to no later step, except that a     *)
(* fault was the last.                                                     *)
BufView == <<mb, nomem, thrown, ret.out = "unmapped", Running>>
=============================================================================
