------------------------------ MODULE MCSystem ------------------------------
(* Small values for System, for the stream objects of FStream in both      *)
(* builds, and for TextMode.  They share nothing here, and side says which *)
(* of them a behaviour is about.                                           *)
EXTENDS System, FStream, MCTextMode

VARIABLE side

MCVar == {"v"}

(* Values that fit into the buffer of 3 with their NUL, and that do not.   *)
MCValue == {<<"a">>, <<"b", "a", "b">>, <<"c", "b", "a", "c">>}
MCSources == {<<"x">>, <<"v">>, <<"v", "x", "v">>}

MCClipText == {<<"a">>, <<"a", "b">>}

(* Names of 1 to 3 parts, of which the first fits into the first buffer,   *)
(* the second into the second, and the third into none.                    *)
MCPath == {<<>>, <<"a">>, <<"a", "a">>, <<"a", "a", "a">>, <<"b">>}

MCErrorText == {<<>>, <<"f">>, <<Bad>>}

MCModeArgs == {{}, {"app"}, {"ate"}, {"trunc"}, {"app", "ate"}}
MCCreateArgs == {"create_new", "create_always", "open_always", "truncate_existing",
                 "open_existing", "open_default"}

sysvars == <<part, build, err, env_vars, mem_vars, fd_vars, fs_vars, err_vars, time_vars>>

MCInit ==
    /\ side \in {"system", "streams", "text"}
    /\ Init /\ FStreamInit /\ TextInit
    /\ side # "system" => part = "handles"
    /\ side # "streams" => \A b \in Builds : file[b] = <<>>
    /\ side # "text" => bytes = <<>>

MCNext ==
    /\ UNCHANGED side
    /\ \/ side = "system" /\ Next /\ UNCHANGED <<streamvars, textvars>>
       \/ side = "streams" /\ FStreamNext /\ UNCHANGED <<sysvars, textvars>>
       \/ side = "text" /\ TextNext /\ UNCHANGED <<sysvars, streamvars>>

MCSpec == MCInit /\ [][MCNext]_<<side, sysvars, streamvars, textvars>>

(* Without the results of the last calls, which only the action properties *)
(* look at.                                                                *)
MCView == <<side, View, kind, file, str, bytes, fpos, area, base, got>>
=============================================================================
