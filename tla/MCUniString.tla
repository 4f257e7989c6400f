---------------------------- MODULE MCUniString -----------------------------
(* Texts at the ends of the ranges that the conversions tell apart.        *)
EXTENDS UniString

(* The first and last codes of 1 to 4 bytes, around the surrogates, and    *)
(* beyond the last code point.                                             *)
Edges == {0, 127, 128, 2047, 2048, 55295, 57344, 65535, 65536, MaxCode}
OutOfRange == {MaxCode + 1, 2147483647, 55296, 57343}

MCCodeTexts == {<<c>> : c \in Edges \cup OutOfRange} \cup {<<c, d>> : c \in Edges, d \in {65, 65536}}
                    \cup {<<55296, 56320>>}

(* Lead bytes of every length, continuations, and what looks like them: in *)
(* pairs, and the encodings of the edges, with a byte cut off or put on.   *)
SomeBytes == {65, 128, 191, 192, 194, 224, 237, 240, 244, 248, 254}
Whole == {u32tou8(c) : c \in Edges \cup {55296, 57343}}
Odd == {<<240, 128, 128, 128>>, <<244, 144, 128, 128>>, <<248, 136, 128, 128, 128>>,
        <<252, 132, 128, 128, 128, 128>>, <<254, 128, 128, 128, 128, 128, 128>>,
        <<253, 191, 191, 191, 191, 191>>, <<224, 128, 65>>, <<240, 144, 128, 65>>}
MCByteTexts ==
    {<<a>> : a \in SomeBytes} \cup {<<a, b>> : a \in SomeBytes, b \in {65, 128, 194}}
    \cup Whole \cup Odd \cup {s \o <<191>> : s \in Whole}
    \cup {SubSeq(s, 1, Len(s) - 1) : s \in Whole}

SomeUnits == {65, 2048, 55296, 56319, 56320, 57343, 57344}
MCUnitTexts == UNION {[1 .. n -> SomeUnits] : n \in 0 .. 2} \cup {<<55296, 55296, 56320>>}
=============================================================================
