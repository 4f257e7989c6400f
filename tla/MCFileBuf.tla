----------------------------- MODULE MCFileBuf ------------------------------
(* Small instances of FileBuf: files and strings a little longer than the  *)
(* buffer, so that every transfer happens with less, as much and more than *)
(* the buffer holds, on a device that fills up, fails and works again.     *)
EXTENDS FileBuf, TLC

MCModes == {{"in"}, {"in", "out", "app"}, {"in", "out", "ate"}, {"out", "trunc"}}
LossModes == {{"in", "out", "ate"}, {"out", "trunc"}}

MCDevices == {<<3, TRUE>>, <<1, TRUE>>, <<0, FALSE>>}

(* Less than, as much as and more than a buffer of 2 with a character in it *)
(* takes, where neighbours differ at least once, so that a shift shows;    *)
(* and nothing.                                                            *)
MCStrings == {<<>>} \cup {s \in [1 .. 2 -> Char] \cup [1 .. 3 -> Char] : s[1] # s[2]}

MCOffsets == -1 .. 1

CharSymmetry == Permutations(Char)

(* Of the last call only this is looked at later: right after a character  *)
(* was read, it can be put back.                                           *)
BufView == <<fb, limit, readable, call \in Stream!ReadCalls /\ ret.chars # <<>>>>
=============================================================================
