----------------------------- MODULE MCTextMode -----------------------------
(* Small values for TextMode.                                              *)
EXTENDS TextMode

(* Files whose line ends are "\r\n", with two letters nowhere side by      *)
(* side; texts that fill the buffers exactly, and once more.               *)
Apart(f) == \A i \in 1 .. Len(f) - 1 : ~(f[i] \in Letter /\ f[i + 1] \in Letter)
MCFiles == {f \in UNION {[1 .. n -> TextChar] : n \in 0 .. 6} : InLines(f) /\ Apart(f)}
MCTexts == {<<"a", NL, "a", NL>>, <<NL, NL, "a", NL>>, <<"a", "a", "a", "a">>,
            <<"a", "a", "a", NL, "a", "a", "a", "a">>}
=============================================================================
