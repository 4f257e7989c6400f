------------------------------ MODULE Environ -------------------------------
(***************************************************************************)
(* The environment of the process (sysenv.h), used by several threads, in  *)
(* the Windows and in the POSIX build.  The Windows functions ask the      *)
(* system twice if the value does not fit into the local_buffer            *)
(* (sysstring.h), and other threads step in between.                       *)
(*                                                                         *)
(* Client rules: in the POSIX build, where POSIX wants it so, a call is    *)
(* not interrupted; Growing says whether a thread may lengthen a variable  *)
(* beyond the buffer that another one has just made for it.                *)
(***************************************************************************)
EXTENDS Integers, Sequences, FiniteSets, SequencesExt

CONSTANTS
    Missing,        \* the value of a variable that does not exist
    Var,            \* names of variables
    NoName,         \* the empty name
    Value,          \* the values given to variables, sequences
    Sources,        \* the arguments of expand_env(): characters and variables
    Thread,
    DefaultSize,    \* the size of a local_buffer
    Growing

NUL == "NUL"
Junk == "?"         \* what is beyond the end of a buffer

VARIABLES
    build,  \* the build of the program
    env,    \* the environment
    th,     \* by thread: the call that it is in the middle of
    ret     \* the last call that ended, and its result

vars == <<build, env, th, ret>>

(* local_buffer: the size, and whether it is on the heap.                  *)
LocalBuffer == [size |-> DefaultSize, heap |-> FALSE]
Reserve(b, n) == IF n > b.size THEN [size |-> n, heap |-> TRUE] ELSE b

(* A call in progress: its buffer, and the environments that there were    *)
(* since it began.                                                         *)
Idle == [pc |-> "idle"]
Asking(what, buf) == [pc |-> "again", what |-> what, buf |-> buf, seen |-> {env}]

Result(what, rc, value, seen) == [what |-> what, rc |-> rc, value |-> value, seen |-> seen]

Init ==
    /\ build \in {"windows", "posix"}
    /\ env \in [Var -> Value \cup {Missing}]
    /\ th = [t \in Thread |-> Idle]
    /\ ret = Result(<<"none">>, FALSE, <<>>, {})

-----------------------------------------------------------------------------
(* What the system returns: a string, with or without its NUL, if it fits  *)
(* into n characters, else only the size that it takes.                    *)
Answer(s, n, nul) ==
    LET size == Len(s) + 1 IN
    IF size > n THEN [size |-> size, text |-> <<>>]
    ELSE [size |-> IF nul THEN size ELSE Len(s), text |-> Append(s, NUL)]

GetVariable(v, n) ==
    IF v \notin Var \/ env[v] = Missing THEN [size |-> 0, text |-> <<>>]
    ELSE Answer(env[v], n, FALSE)

Expansion(src, e) ==
    FlattenSeq([i \in DOMAIN src |->
        IF src[i] \notin Var THEN <<src[i]>>
        ELSE IF e[src[i]] = Missing THEN <<"%", src[i], "%">> ELSE e[src[i]]])

(* assign (buf.get(), size).                                               *)
Assigned(r) == [i \in 1 .. r.size |-> IF i \in DOMAIN r.text THEN r.text[i] ELSE Junk]

(* The first and the second call of the system, and what comes of it.      *)
Ended(what, r, otherwise, seen) ==
    Result(what, r.size # 0, IF r.size = 0 THEN otherwise ELSE Assigned(r), seen)

(* Mutation of Ask: what does not fit is not asked for again.              *)
AskOnce(t, what, r, otherwise) ==
    ret' = Ended(what, r, otherwise, {env}) /\ UNCHANGED th

Ask(t, what, r, otherwise) ==
    LET b == LocalBuffer IN
    IF r.size > b.size
    THEN th' = [th EXCEPT ![t] = Asking(what, Reserve(b, r.size))] /\ UNCHANGED ret
    ELSE ret' = Ended(what, r, otherwise, {env}) /\ UNCHANGED th

GetEnv(t, v) ==
    /\ build = "windows" /\ th[t] = Idle
    /\ Ask(t, <<"get", v>>, GetVariable(v, DefaultSize), <<>>)
    /\ UNCHANGED <<build, env>>

ExpandEnv(t, src) ==
    /\ build = "windows" /\ th[t] = Idle
    /\ Ask(t, <<"expand", src>>, Answer(Expansion(src, env), DefaultSize, TRUE), src)
    /\ UNCHANGED <<build, env>>

Again(t) ==
    LET what == th[t].what
        n == th[t].buf.size
    IN  /\ th[t] # Idle
        /\ ret' = IF what[1] = "get"
                  THEN Ended(what, GetVariable(what[2], n), <<>>, th[t].seen)
                  ELSE Ended(what, Answer(Expansion(what[2], env), n, TRUE), what[2], th[t].seen)
        /\ th' = [th EXCEPT ![t] = Idle]
        /\ UNCHANGED <<build, env>>

(* get_env() of the POSIX build; wide names and values go through          *)
(* wcstombs() and mbstowcs(), which take an empty string for a failure.    *)
(* Kept is what was in the caller's string.                                *)
Kept == <<Junk>>
Found(v) == v \in Var /\ env[v] # Missing
GetPosix(v) ==
    /\ build = "posix"
    /\ ret' = Result(<<"get", v>>, Found(v), IF Found(v) THEN env[v] ELSE <<>>, {env})
    /\ UNCHANGED <<build, env, th>>

GetWide(v) ==
    /\ build = "posix"
    /\ ret' = IF v = NoName THEN Result(<<"get", v>>, FALSE, Kept, {env})
              ELSE Result(<<"get", v>>, Found(v) /\ env[v] # <<>>,
                          IF Found(v) THEN env[v] ELSE <<>>, {env})
    /\ UNCHANGED <<build, env, th>>

-----------------------------------------------------------------------------
(* The environment changes, under the threads that are between two calls.  *)
Needs(t, e) ==
    LET what == th[t].what IN
    1 + Len(IF what[1] = "get" THEN IF e[what[2]] = Missing THEN <<>> ELSE e[what[2]]
            ELSE Expansion(what[2], e))

Change(t, e, what, rc) ==
    /\ th[t] = Idle
    /\ \A u \in Thread : th[u] # Idle => Growing \/ Needs(u, e) <= th[u].buf.size
    /\ env' = e
    /\ th' = [u \in Thread |-> IF th[u] = Idle THEN Idle ELSE [th[u] EXCEPT !.seen = @ \cup {e}]]
    /\ ret' = Result(what, rc, <<>>, {})
    /\ UNCHANGED build

SetEnv(t, v, x) ==
    IF v = NoName THEN Change(t, env, <<"set">>, FALSE)
    ELSE Change(t, [env EXCEPT ![v] = x], <<"set">>, TRUE)

(* unset_env(): for a variable that does not exist, unsetenv() succeeds,   *)
(* and SetEnvironmentVariable() may fail.                                  *)
UnsetEnv(t, v) ==
    IF v = NoName THEN Change(t, env, <<"unset">>, FALSE)
    ELSE \E rc \in BOOLEAN :
            /\ ~rc => build = "windows" /\ env[v] = Missing
            /\ Change(t, [env EXCEPT ![v] = Missing], <<"unset">>, rc)

Next ==
    \/ \E v \in Var \cup {NoName} : GetPosix(v) \/ GetWide(v)
    \/ \E t \in Thread :
        \/ \E v \in Var \cup {NoName} :
              \/ GetEnv(t, v) \/ UnsetEnv(t, v)
              \/ \E x \in Value : SetEnv(t, v, x)
        \/ \E src \in Sources : ExpandEnv(t, src)
        \/ Again(t)

Spec == Init /\ [][Next]_vars

-----------------------------------------------------------------------------
TypeOK ==
    /\ build \in {"windows", "posix"}
    /\ env \in [Var -> Value \cup {Missing}]
    /\ \A t \in Thread : th[t] # Idle =>
          /\ th[t].buf.heap /\ th[t].buf.size > DefaultSize
          /\ th[t].seen \subseteq [Var -> Value \cup {Missing}]

(* get_env() returns a value that the variable had while the call went on, *)
(* to its last character and no further, and false only if there was a     *)
(* moment without the variable; "if no variable VAR exists, VALUE will be  *)
(* emptied" (sysenv.h 40-43).                                              *)
GetTells ==
    [][\A v \in Var : ret'.what = <<"get", v>> =>
         LET had == {e[v] : e \in ret'.seen} IN
         IF ret'.rc THEN ret'.value \in had \ {Missing}
         ELSE Missing \in had /\ ret'.value = <<>>]_vars

(* expand_env() expands all of its source with one environment that there  *)
(* was while the call went on, and adds nothing but a NUL at most          *)
(* (sysenv.h 173-195).                                                     *)
ExpandTells ==
    [][\A src \in Sources : ret'.what = <<"expand", src>> =>
         /\ ret'.rc
         /\ \E e \in ret'.seen :
               ret'.value \in {Expansion(src, e), Append(Expansion(src, e), NUL)}]_vars

(* "Copies SRC into DST, expanding all references to environment variables" *)
(* (sysenv.h:81-82): nothing else is in the string.                        *)
ExpandsExactly ==
    [][\A src \in Sources : ret'.what = <<"expand", src>> =>
         \E e \in ret'.seen : ret'.value = Expansion(src, e)]_vars
=============================================================================
