----------------------------- MODULE FileStream -----------------------------
(***************************************************************************)
(* What sys::filebuf promises its user, with no buffer in sight: a file    *)
(* with one position that reading and writing share.  It abstracts the     *)
(* public calls of std::streambuf on a filebuf of fstream.hpp, as long as  *)
(* the device takes every byte it is given.                                *)
(*                                                                         *)
(* A character that was pushed back need not be the one in the file.  over *)
(* holds such characters by position: they are seen by the next reading,   *)
(* and dropped by output, by sync and by a seek.                           *)
(***************************************************************************)
EXTENDS Integers, Sequences

CONSTANTS
    Char,       \* the characters of the stream
    Hole,       \* what the file system puts between the old end and a later write
    Modes,      \* the open modes in use, sets of names of std::ios flags
    Strings,    \* the arguments of sputn()
    Offsets,    \* the arguments of pubseekoff()
    MaxString,  \* bound: the characters asked of sgetn()
    MaxFile     \* bound: the length of the file at the start

VARIABLES
    data,       \* the file, with all output accepted so far
    pos,        \* the position of the stream
    over,       \* pushed back characters that are not those of the file
    mode,       \* the mode the stream is open with, {} when it is closed
    call,       \* the last call, with its arguments
    ret         \* its result: characters and a number

vars == <<data, pos, over, mode, call, ret>>

Nothing == [p \in {} |-> Hole]

Ret(chars, n) == [chars |-> chars, n |-> n]

(* f after the characters s are written at offset at.                      *)
WriteAt(f, at, s) ==
    LET end == at + Len(s) IN
    IF s = <<>> THEN f
    ELSE [i \in 1 .. (IF end > Len(f) THEN end ELSE Len(f)) |->
            IF i > at /\ i <= end THEN s[i - at]
            ELSE IF i <= Len(f) THEN f[i] ELSE Hole]

Init ==
    /\ data \in UNION {[1 .. n -> Char] : n \in 0 .. MaxFile}
    /\ pos = 0 /\ over = Nothing /\ mode = {}
    /\ call = <<>> /\ ret = Ret(<<>>, 0)

-----------------------------------------------------------------------------
(* What reading sees.                                                      *)
Seen == DOMAIN over \cup 0 .. Len(data) - 1
View(p) == IF p \in DOMAIN over THEN over[p] ELSE data[p + 1]

(* Characters that have been read may be forgotten, the others may not.    *)
ForgetBefore(p) ==
    \E D \in SUBSET DOMAIN over :
        /\ \A q \in DOMAIN over : q >= p => q \in D
        /\ over' = [q \in D |-> over[q]]

Open(m) ==
    \/ /\ call' = <<"open">> /\ ret' = Ret(<<>>, 0)
       /\ mode = {} /\ mode' = m
       /\ data' = IF "trunc" \in m THEN <<>> ELSE data
       /\ pos' = IF "ate" \in m THEN Len(data') ELSE 0
       /\ over' = Nothing
    \/ /\ call' = <<"open">> /\ ret' = Ret(<<>>, -1)
       /\ UNCHANGED <<data, pos, over, mode>>

Close ==
    /\ call' = <<"close">> /\ ret' = Ret(<<>>, IF mode = {} THEN -1 ELSE 0)
    /\ mode' = {} /\ pos' = 0 /\ over' = Nothing
    /\ UNCHANGED data

(* The buffer may be replaced by another, or the request be refused.       *)
SetBuf ==
    \/ /\ call' = <<"setbuf">> /\ ret' = Ret(<<>>, 0)
       /\ over' = Nothing
       /\ UNCHANGED <<data, pos, mode>>
    \/ /\ call' = <<"setbuf">> /\ ret' = Ret(<<>>, -1)
       /\ UNCHANGED <<data, pos, over, mode>>

(* sgetc(), sbumpc() and sgetn(): all of the next n characters that the    *)
(* stream has; sgetc() leaves the position where it is.                    *)
ReadCalls == {<<"sbumpc">>} \cup {<<"sgetn", n>> : n \in 1 .. MaxString}

Read(c, n, step) ==
    /\ call' = c
    /\ \/ /\ "in" \notin mode /\ ret' = Ret(<<>>, 0)
          /\ UNCHANGED <<data, pos, over, mode>>
       \/ /\ "in" \in mode
          /\ \E k \in 0 .. n :
                /\ \A i \in 0 .. k - 1 : pos + i \in Seen
                /\ k = n \/ pos + k \notin Seen
                /\ ret' = Ret([i \in 1 .. k |-> View(pos + i - 1)], k)
                /\ pos' = pos + step * k
                /\ ForgetBefore(pos')
          /\ UNCHANGED <<data, mode>>

(* sungetc(): may fail.                                                    *)
Unget ==
    \/ /\ call' = <<"sungetc">>
       /\ "in" \in mode /\ pos - 1 \in Seen
       /\ ret' = Ret(<<View(pos - 1)>>, 1)
       /\ pos' = pos - 1
       /\ UNCHANGED <<data, over, mode>>
    \/ /\ call' = <<"sungetc">> /\ ret' = Ret(<<>>, 0)
       /\ UNCHANGED <<data, pos, over, mode>>

(* over with c at position p, which is of no interest if it is in the file. *)
Overlay(p, c) ==
    LET same == p + 1 \in DOMAIN data /\ data[p + 1] = c
        D == IF same THEN DOMAIN over \ {p} ELSE DOMAIN over \cup {p}
    IN  [q \in D |-> IF q = p THEN c ELSE over[q]]

(* sputbackc (c): may fail, but not right after a character was read.      *)
PutBack(c) ==
    \/ /\ call' = <<"sputbackc", c>> /\ ret' = Ret(<<c>>, 1)
       /\ "in" \in mode
       /\ pos' = pos - 1
       /\ over' = Overlay(pos - 1, c)
       /\ UNCHANGED <<data, mode>>
    \/ /\ call' = <<"sputbackc", c>> /\ ret' = Ret(<<>>, 0)
       /\ call \in ReadCalls => ret.chars = <<>>
       /\ UNCHANGED <<data, pos, over, mode>>

(* sputc() and sputn(): all of s goes to the position, or to the end of    *)
(* the file if the stream was opened to append; none move nothing.         *)
Put(c, s) ==
    \/ /\ call' = c /\ ret' = Ret(s, Len(s))
       /\ "out" \in mode
       /\ LET at == IF "app" \in mode THEN Len(data) ELSE pos IN
          /\ data' = WriteAt(data, at, s)
          /\ pos' = IF s = <<>> THEN pos ELSE at + Len(s)
       /\ over' = Nothing
       /\ UNCHANGED mode
    \/ /\ call' = c /\ ret' = Ret(<<>>, 0)
       /\ "out" \notin mode
       /\ UNCHANGED <<data, pos, over, mode>>

(* sputc() on a closed stream may go unnoticed: the character is dropped,  *)
(* and a sync() may tell.                                                  *)
PutClosed(c) ==
    /\ call' = <<"sputc", c>> /\ ret' = Ret(<<c>>, 1)
    /\ mode = {}
    /\ UNCHANGED <<data, pos, over, mode>>

Sync ==
    /\ call' = <<"sync">>
    /\ \E n \in (IF mode = {} THEN {0, -1} ELSE {0}) : ret' = Ret(<<>>, n)
    /\ over' = Nothing
    /\ UNCHANGED <<data, pos, mode>>

(* pubseekoff() and pubseekpos(): -1 if there is no such position.         *)
Base(way) ==
    CASE way = "beg" -> 0
      [] way = "cur" -> pos
      [] way = "end" -> Len(data)

Seek(way, off) ==
    \/ /\ call' = <<"seek", way, off>> /\ ret' = Ret(<<>>, Base(way) + off)
       /\ mode # {} /\ Base(way) + off >= 0
       /\ pos' = Base(way) + off
       /\ over' = Nothing
       /\ UNCHANGED <<data, mode>>
    \/ /\ call' = <<"seek", way, off>> /\ ret' = Ret(<<>>, -1)
       /\ mode = {} \/ Base(way) + off < 0
       /\ over' = Nothing
       /\ UNCHANGED <<data, pos, mode>>

Next ==
    \/ \E m \in Modes : Open(m)
    \/ Close
    \/ SetBuf
    \/ Read(<<"sgetc">>, 1, 0)
    \/ Read(<<"sbumpc">>, 1, 1)
    \/ \E n \in 1 .. MaxString : Read(<<"sgetn", n>>, n, 1)
    \/ Unget
    \/ \E c \in Char : PutBack(c) \/ Put(<<"sputc", c>>, <<c>>) \/ PutClosed(c)
    \/ \E s \in Strings : Put(<<"sputn", s>>, s)
    \/ Sync
    \/ \E way \in {"beg", "cur", "end"}, off \in Offsets : Seek(way, off)

Spec == Init /\ [][Next]_vars
=============================================================================
