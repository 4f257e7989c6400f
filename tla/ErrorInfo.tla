------------------------------ MODULE ErrorInfo ------------------------------
(***************************************************************************)
(* sys::error_info, the exceptions that share one, and error_sentry        *)
(* (syserror.h).  Calls of the system fail all the time: err, the error    *)
(* code of the thread, changes under the exceptions in flight.             *)
(*                                                                         *)
(* A text is a sequence of words; in the other of the two forms, char and  *)
(* wchar_t, an ill-formed word becomes Replaced.  IllFormed says whether   *)
(* programs name objects that are ill-formed.  An exception is used by one *)
(* thread at a time: what() writes.                                        *)
(***************************************************************************)
EXTENDS Naturals, Sequences

CONSTANTS
    Code,       \* the error codes
    NoError,    \* the one among them that is 0
    Bad,        \* a word that is ill-formed in its form
    Replaced,   \* what becomes of it
    Texts,      \* the objects and messages programs give, the empty one too
    IllFormed,
    Exc,        \* exception objects
    Info,       \* what shared_ptr points to
    None        \* not there

Forms == {"char", "wchar_t"}

VARIABLES
    err,        \* the last error of the thread
    info,       \* the error_info objects
    m_info,     \* by exception: its error_info
    m_errno,    \* the error_sentry
    ret         \* the last call and what it returned

vars == <<err, info, m_info, m_errno, ret>>

(* A uni_string that is given s in a form, as the forms show it.           *)
Converted(s) == [i \in DOMAIN s |-> IF s[i] = Bad THEN Replaced ELSE s[i]]
UniString(form, s) == [f \in Forms |-> IF f = form THEN s ELSE Converted(s)]
Empty == UniString("char", <<>>)

(* set_system_message(): the message of the code, "Unknown system error"   *)
(* among them.                                                             *)
Message(code) == IF code = NoError THEN <<>> ELSE <<code>>

ErrorInfo(code, form, object, message) ==
    [code |-> code, system |-> UniString("char", Message(code)),
     custom |-> UniString(form, message), object |-> UniString(form, object),
     what |-> Empty,
     given |-> <<form, object, message>>]   \* of the model: the arguments

(* The records that there are.                                             *)
Records ==
    [code : Code, system : [Forms -> Seq(STRING)], custom : [Forms -> Seq(STRING)],
     object : [Forms -> Seq(STRING)], what : [Forms -> Seq(STRING)],
     given : Forms \X Seq(STRING) \X Seq(STRING)]

Init ==
    /\ err \in Code /\ m_errno = err
    /\ info = [i \in Info |-> None] /\ m_info = [e \in Exc |-> None]
    /\ ret = <<"none">>

-----------------------------------------------------------------------------
(* A call of the system fails, or the program sets the error code.         *)
Fail(code) ==
    /\ err' = code /\ ret' = <<"fail">>
    /\ UNCHANGED <<info, m_info, m_errno>>

(* generic_error, file_error: the constructors with a code, which the      *)
(* SYS_THROW macros use, and those that take the last error.               *)
New(e, record) ==
    /\ m_info[e] = None
    /\ \E i \in Info :
          /\ info[i] = None
          /\ info' = [info EXCEPT ![i] = record] /\ m_info' = [m_info EXCEPT ![e] = i]
    /\ UNCHANGED <<err, m_errno>>

Throw(e, form, object, message) ==
    /\ New(e, ErrorInfo(err, form, object, message))
    /\ ret' = <<"throw", e, err>>

ThrowCode(e, code, form, object) ==
    /\ New(e, ErrorInfo(code, form, object, <<>>))
    /\ ret' = <<"throw", e, code>>

(* Copies share the error_info; the last one deletes it.                   *)
Copy(e, d) ==
    /\ m_info[e] = None /\ m_info[d] # None
    /\ m_info' = [m_info EXCEPT ![e] = m_info[d]] /\ ret' = <<"copy">>
    /\ UNCHANGED <<err, info, m_errno>>

Destroy(e) ==
    LET i == m_info[e]
        last == \A d \in Exc \ {e} : m_info[d] # i
    IN  /\ i # None
        /\ m_info' = [m_info EXCEPT ![e] = None]
        /\ info' = IF last THEN [info EXCEPT ![i] = None] ELSE info
        /\ ret' = <<"destroy">>
        /\ UNCHANGED <<err, m_errno>>

Joined(s, t) == IF s = <<>> THEN t ELSE IF t = <<>> THEN s ELSE s \o <<":">> \o t

(* Mutation of make_what: the message is that of the last error.           *)
make_what_late(x, form) ==
    LET s == Joined(Joined(x.object[form], x.custom[form]), Message(err)) IN
    IF s = <<>> THEN UniString("char", <<"Unknown error">>) ELSE UniString(form, s)

(* make_what(): the object, the message of the program, that of the        *)
(* system, with colons between.                                            *)
make_what(x, form) ==
    LET s == Joined(Joined(x.object[form], x.custom[form]), x.system[form]) IN
    IF s = <<>> THEN UniString("char", <<"Unknown error">>) ELSE UniString(form, s)

(* error_info::what(), by what() and get_description().                    *)
What(e, form) ==
    LET x == info[m_info[e]]
        cached == IF x.what = Empty THEN make_what(x, form) ELSE x.what
    IN  /\ m_info[e] # None
        /\ info' = [info EXCEPT ![m_info[e]].what = cached]
        /\ ret' = <<"what", e, form, cached[form]>>
        /\ UNCHANGED <<err, m_info, m_errno>>

Parts(e, form) ==
    LET x == info[m_info[e]] IN
    /\ m_info[e] # None
    /\ ret' = <<"parts", e, form, x.code, x.object[form], x.custom[form], x.system[form]>>
    /\ UNCHANGED <<err, info, m_info, m_errno>>

SentryReset == m_errno' = err /\ ret' = <<"reset">> /\ UNCHANGED <<err, info, m_info>>
SentryTest == ret' = <<"sentry", m_errno # err>> /\ UNCHANGED <<err, info, m_info, m_errno>>

Named == {s \in Texts : IllFormed \/ \A i \in DOMAIN s : s[i] # Bad}

Next ==
    \/ \E c \in Code : Fail(c)
    \/ \E e \in Exc, form \in Forms :
          \/ \E o, m \in Named : Throw(e, form, o, m)
          \/ \E c \in Code, o \in Named : ThrowCode(e, c, form, o)
          \/ What(e, form) \/ Parts(e, form)
    \/ \E e, d \in Exc : Copy(e, d)
    \/ \E e \in Exc : Destroy(e)
    \/ SentryReset \/ SentryTest

Spec == Init /\ [][Next]_vars

-----------------------------------------------------------------------------
TypeOK ==
    /\ err \in Code /\ m_errno \in Code
    /\ \A e \in Exc : m_info[e] # None => info[m_info[e]] # None
    /\ \A i \in Info : info[i] # None => info[i].code \in Code

(* An error_info lives as long as an exception has it, and no longer.      *)
InfoShared == \A i \in Info : info[i] # None <=> \E e \in Exc : m_info[e] = i

(* The description of an exception is made of what it was thrown with and  *)
(* the message of its own code, whichever form is asked for first, in      *)
(* every copy, whatever has failed since (syserror.h 103-109, 240-265).    *)
Description(x, form) ==
    LET given == UniString(x.given[1], Joined(x.given[2], x.given[3]))
        all == Joined(given[form], Message(x.code))
    IN  IF all = <<>> THEN <<"Unknown error">> ELSE all
DescriptionTells ==
    [][\A e \in Exc, form \in Forms : What(e, form) =>
         ret'[4] = Description(info[m_info[e]], form)]_vars
=============================================================================
