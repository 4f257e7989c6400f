---------------------------- MODULE MemoryStream ----------------------------
(***************************************************************************)
(* What sys::basic_memory_buf and sys::dynamic_memory_buf promise their    *)
(* user: a text with a position for reading and one for writing.  A        *)
(* "basic" text has the length it was given; a "dynamic" one grows when it *)
(* is written to beyond its end, by at least what is written.              *)
(* Nothing is said here of memory, of pointers, or of how much it grows.   *)
(***************************************************************************)
EXTENDS Integers, Sequences

CONSTANTS
    Char,       \* the characters of the text
    Modes,      \* the modes of the buffers, subsets of {"in", "out"}
    Texts,      \* the texts the user gives to a buffer
    Strings,    \* the arguments of sputn()
    Lengths,    \* the arguments of sgetn()
    Offsets     \* the arguments of pubseekoff()

VARIABLES
    kind,   \* "basic" or "dynamic", "none" when there is no buffer
    mode,   \* its mode
    text,   \* the text; what it has grown by and was not written holds anything
    gpos,   \* the position of the next character read
    ppos,   \* the position of the next character written
    call,   \* the last call, with its arguments
    ret     \* its result: characters and a number, -1 for failure

vars == <<kind, mode, text, gpos, ppos, call, ret>>

Ret(chars, n) == [chars |-> chars, n |-> n]
Fail == Ret(<<>>, -1)
Min2(a, b) == IF a <= b THEN a ELSE b

(* How much of the text is there to be read, and to be written.            *)
Readable == IF "in" \in mode THEN Len(text) ELSE 0
Writable == IF "out" \in mode THEN Len(text) ELSE 0

Init ==
    /\ kind = "none" /\ mode = {} /\ text = <<>> /\ gpos = 0 /\ ppos = 0
    /\ call = <<"none">> /\ ret = Ret(<<>>, 0)

Make(k, m) ==
    /\ kind = "none" /\ kind' = k /\ mode' = m
    /\ text' \in Texts \cup {<<>>} /\ gpos' = 0 /\ ppos' = 0
    /\ call' = <<"make">> /\ ret' = Ret(<<>>, 0)

End ==
    /\ kind # "none" /\ kind' = "none" /\ mode' = {}
    /\ text' = <<>> /\ gpos' = 0 /\ ppos' = 0
    /\ call' = <<"end">> /\ ret' = Ret(<<>>, 0)

SetBuf(t) ==
    /\ kind # "none" /\ text' = t /\ gpos' = 0 /\ ppos' = 0
    /\ call' = <<"setbuf">> /\ ret' = Ret(<<>>, 0)
    /\ UNCHANGED <<kind, mode>>

(* sgetc() is step 0 of 1 character, sbumpc() and sgetn() move on.         *)
Read(c, n, step) ==
    /\ kind # "none"
    /\ LET k == Min2(n, Readable - gpos) IN
       /\ ret' = Ret(SubSeq(text, gpos + 1, gpos + k), k)
       /\ gpos' = gpos + step * k
    /\ call' = c
    /\ UNCHANGED <<kind, mode, text, ppos>>

(* sungetc() and sputbackc (c): the text is not changed by putting back.   *)
Back(c, cs) ==
    /\ kind # "none" /\ call' = c
    /\ IF gpos > 0 /\ text[gpos] \in cs
       THEN gpos' = gpos - 1 /\ ret' = Ret(<<text[gpos]>>, 1)
       ELSE gpos' = gpos /\ ret' = Ret(<<>>, 0)
    /\ UNCHANGED <<kind, mode, text, ppos>>

(* The text after s was written at the position: longer if need be, and    *)
(* the same elsewhere.                                                     *)
Written(s) ==
    /\ ppos' = ppos + Len(s)
    /\ text' \in Seq(Char) /\ Len(text') >= ppos + Len(s) /\ Len(text') >= Len(text)
    /\ \A i \in 1 .. Len(text') :
          IF ppos < i /\ i <= ppos + Len(s) THEN text'[i] = s[i - ppos]
          ELSE i <= Len(text) => text'[i] = text[i]

(* sputc() and sputn().                                                    *)
Put(c, s) ==
    /\ kind # "none" /\ call' = c
    /\ \/ kind = "dynamic" /\ "out" \in mode /\ Written(s) /\ ret' = Ret(s, Len(s))
       \/ /\ kind = "dynamic" /\ "out" \in mode /\ ppos + Len(s) > Len(text)
          /\ ret' = Fail /\ UNCHANGED <<text, ppos>>
       \/ /\ kind = "basic" \/ "out" \notin mode
          /\ LET some == SubSeq(s, 1, Min2(Len(s), Writable - ppos)) IN
             Written(some) /\ Len(text') = Len(text) /\ ret' = Ret(some, Len(some))
    /\ UNCHANGED <<kind, mode, gpos>>

(* A seek to before the beginning goes there, one to after the end to it.  *)
(* The answer is one of the positions that were moved.                     *)
Target(way, off, pos, size) ==
    LET p == off + (CASE way = "beg" -> 0 [] way = "cur" -> pos [] way = "end" -> size)
    IN  IF p < 0 THEN 0 ELSE IF p > size THEN size ELSE p

Seek(way, off, which) ==
    /\ kind # "none" /\ call' = <<"seek", way, off>>
    /\ gpos' = IF "in" \in which THEN Target(way, off, gpos, Readable) ELSE gpos
    /\ ppos' = IF "out" \in which THEN Target(way, off, ppos, Writable) ELSE ppos
    /\ ret' \in {Ret(<<>>, p) : p \in (IF "in" \in which THEN {gpos'} ELSE {})
                                      \cup (IF "out" \in which THEN {ppos'} ELSE {})}
    /\ UNCHANGED <<kind, mode, text>>

Next ==
    \/ \E k \in {"basic", "dynamic"}, m \in Modes : Make(k, m)
    \/ End
    \/ \E t \in Texts : SetBuf(t)
    \/ Read(<<"sgetc">>, 1, 0)
    \/ Read(<<"sbumpc">>, 1, 1)
    \/ \E n \in Lengths : Read(<<"sgetn", n>>, n, 1)
    \/ Back(<<"sungetc">>, Char)
    \/ \E c \in Char : Back(<<"sputbackc", c>>, {c}) \/ Put(<<"sputc", c>>, <<c>>)
    \/ \E s \in Strings : Put(<<"sputn", s>>, s)
    \/ \E way \in {"beg", "cur", "end"}, off \in Offsets,
          which \in {{"in"}, {"out"}, {"in", "out"}} : Seek(way, off, which)

Spec == Init /\ [][Next]_vars
=============================================================================
