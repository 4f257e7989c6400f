------------------------------ MODULE MCValues ------------------------------
(* Values in memory: buffers in MemoryBuf, strings in UniString, their     *)
(* case in ICase, numbers in BinData.  They share nothing, and part says   *)
(* which of them a behaviour is about.                                     *)
EXTENDS MCMemoryBuf, MCUniString, ICase, BinData

VARIABLE part

(* A letter in both cases, one without and one beyond ASCII, '_', which is *)
(* between the upper and the lower case letters, and NUL.                  *)
MCCode == {0, 65, 97, 95, 228}

(* All numbers of two bytes, some of four and eight.                       *)
Digits == {0, 1, 2, 127, 128, 255}
OneDigit(n) == {[i \in 1 .. n |-> IF i = j THEN d ELSE 0] : j \in 1 .. n, d \in Digits}
MCMemory ==
    [1 .. 1 -> Digits] \cup [1 .. 2 -> Digits] \cup [1 .. 4 -> {0, 1, 128, 255}]
    \cup OneDigit(4) \cup OneDigit(8)
    \cup {<<1, 2, 3, 4, 5, 6, 7, 8>>, <<8, 7, 0, 0, 0, 0, 2, 1>>}

MCInit ==
    /\ part \in {"buffer", "text", "case", "binary"}
    /\ Init /\ UniInit
    /\ IF part = "case" THEN CaseInit ELSE str = [i \in 1 .. 3 |-> <<>>]
    /\ IF part = "binary" THEN BinInit ELSE mem = <<0>> /\ endian = "little"

MCNext ==
    /\ UNCHANGED part
    /\ \/ part = "buffer" /\ Next /\ UNCHANGED <<univars, str, mem, endian>>
       \/ part = "text" /\ UniNext /\ UNCHANGED <<vars, str, mem, endian>>
       \/ part = "case" /\ CaseNext /\ UNCHANGED <<vars, univars, mem, endian>>
       \/ part = "binary" /\ BinNext /\ UNCHANGED <<vars, univars, str>>

MCSpec == MCInit /\ [][MCNext]_<<part, vars, univars, str, mem, endian>>

(* Cells that no later step reads: the last call and its answer.           *)
View == <<part, mb, heap, univars, str, mem, endian>>
=============================================================================
