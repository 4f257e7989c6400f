------------------------------- MODULE System -------------------------------
(* What the library wraps of the operating system: the environment, memory *)
(* and the clipboard of Windows, descriptors, the file system, errors, the *)
(* clock.  The build of the program and the last error are the same for    *)
(* all; otherwise they share nothing here, and part says which of them a   *)
(* behaviour is about.                                                     *)
EXTENDS Integers, Sequences

CONSTANTS
    Missing, None, Closed, NoName,
    Var, Value, Sources, Thread, EnvSize, Growing,      \* Environ
    Block, Object, Format, ClipText, Granule,           \* Clipboard
    Name, Fd, File, ConstCopy,                          \* Handle
    Path, MbLen, CwdSize, GrownSize, EmptyNames,        \* FileSys
    Code, NoError, Bad, Replaced, ErrorText, IllFormed, Exc, Info, \* ErrorInfo
    Second, MaxTime                                     \* Timer

VARIABLES
    part, build, err,
    env, th, env_ret,
    heap, m_handle, raw, data, holder, call, mem_ret, last,
    fds, handle, given, mine, rc,
    fs, dst, fs_ret,
    info, m_info, m_errno, err_ret,
    time, _start_time, elapsed_ret

env_vars == <<env, th, env_ret>>
mem_vars == <<heap, m_handle, raw, data, holder, call, mem_ret, last>>
fd_vars == <<fds, handle, given, mine, rc>>
fs_vars == <<fs, dst, fs_ret>>
err_vars == <<info, m_info, m_errno, err_ret>>
time_vars == <<time, _start_time, elapsed_ret>>

Env == INSTANCE Environ WITH DefaultSize <- EnvSize, ret <- env_ret

Clip == INSTANCE Clipboard WITH Text <- ClipText, ret <- mem_ret

Handles == INSTANCE Handle WITH raw <- mine

Files == INSTANCE FileSys WITH DefaultSize <- CwdSize, ret <- fs_ret

Errors == INSTANCE ErrorInfo WITH Texts <- ErrorText, ret <- err_ret

Clock == INSTANCE Timer WITH ret <- elapsed_ret

(* Words are strings, and names and texts made of them; what stands for    *)
(* nothing, or for a word that is ill-formed, is none of what it is in the *)
(* place of.                                                               *)
ASSUME EnvironAssumption ==
    Value \subseteq Seq(STRING) /\ Missing \notin Value /\ NoName \notin Var
    /\ EnvSize \in Nat \ {0}

(* What a source expands to is a text, too.                                *)
ASSUME ExpansionAssumption ==
    \A src \in Sources, e \in [Var -> Value \cup {Missing}] :
        Env!Expansion(src, e) \in Seq(STRING)

ASSUME ClipboardAssumption ==
    /\ None \notin Block /\ Clip!gmem \notin Object /\ Granule \in Nat \ {0}
    /\ ClipText \subseteq Seq(STRING) /\ {Clip!NUL, Clip!Junk} \subseteq STRING

ASSUME HandleAssumption == Fd \subseteq Nat /\ Closed \notin File

ASSUME FileSysAssumption ==
    /\ Path \subseteq Seq(STRING) /\ <<>> \in Path 
    /\ Files!Removed \notin Path /\ NoName \notin Path
    /\ MbLen \in Nat \ {0} /\ CwdSize \in Nat \ {0} /\ GrownSize \in Nat
    /\ \A p \in Path : \A k \in 0 .. Len(p) : SubSeq(p, 1, k) \in Path

ASSUME ErrorInfoAssumption ==
    /\ Code \subseteq STRING \ {Bad} /\ NoError = "ok" /\ NoError \in Code
    /\ {Bad, Replaced, ":", "Unknown error"} \subseteq STRING
    /\ Bad \notin {":", "Unknown error"}
    /\ ErrorText \subseteq Seq(STRING) /\ None \notin Info \cup Errors!Records

ASSUME TimerAssumption == Second \in Nat \ {0} /\ MaxTime \in Nat

-----------------------------------------------------------------------------
Init ==
    /\ part \in {"environment", "memory", "handles", "files", "errors", "clock"}
    /\ Env!Init /\ Clip!Init /\ Handles!Init /\ Files!Init /\ Errors!Init /\ Clock!Init
    /\ part # "environment" => \A v \in DOMAIN env : env[v] = Missing
    /\ part # "clock" => time = 0
    /\ part \in {"memory", "handles", "errors"} => build = "windows"

Next ==
    /\ UNCHANGED part
    /\ \/ /\ part = "environment" /\ Env!Next
          /\ UNCHANGED <<err, mem_vars, fd_vars, fs_vars, err_vars, time_vars>>
       \/ /\ part = "memory" /\ Clip!Next
          /\ UNCHANGED <<build, err, env_vars, fd_vars, fs_vars, err_vars, time_vars>>
       \/ /\ part = "handles" /\ Handles!Next
          /\ UNCHANGED <<build, err, env_vars, mem_vars, fs_vars, err_vars, time_vars>>
       \/ /\ part = "files" /\ Files!Next
          /\ UNCHANGED <<env_vars, mem_vars, fd_vars, err_vars, time_vars>>
       \/ /\ part = "errors" /\ Errors!Next
          /\ UNCHANGED <<build, env_vars, mem_vars, fd_vars, fs_vars, time_vars>>
       \/ /\ part = "clock" /\ Clock!Next
          /\ UNCHANGED <<err, env_vars, mem_vars, fd_vars, fs_vars, err_vars>>

Spec == Init /\ [][Next]_<<part, build, err, env_vars, mem_vars, fd_vars, fs_vars,
                           err_vars, time_vars>>

(* Without the results of the last calls, which only the action properties *)
(* look at; the timer compares two of its results.                         *)
View == <<part, build, err, env, th, heap, m_handle, raw, data, holder, call, last,
          fd_vars, fs, dst, info, m_info, m_errno, time_vars>>

-----------------------------------------------------------------------------
TypeOK ==
    /\ Env!TypeOK /\ Clip!TypeOK /\ Handles!TypeOK /\ Files!TypeOK
    /\ Clock!TypeOK /\ (part # "files" => Errors!TypeOK)

(* What has to be given back, a block of memory, its lock, a descriptor or *)
(* an error_info, has one owner: see Clipboard, Handle, ErrorInfo.         *)
OwnedOnce ==
    TypeOK /\ Clip!BlocksOwned /\ Clip!LocksEnd /\ Handles!HandlesOwn /\ Errors!InfoShared

(* What the system is asked in two calls, with a buffer made in between,   *)
(* is answered truly: see Environ and FileSys.                             *)
QueriesTell ==
    /\ Env!GetTells /\ Env!ExpandTells
    /\ Files!CwdTells /\ Files!CwdFits

(* See Clipboard: the text that was put there last is what comes out.      *)
GetsWhatWasSet == Clip!GetsWhatWasSet

(* An error tells what has failed: see ErrorInfo and FileSys.              *)
ErrorsTell == Errors!DescriptionTells /\ Files!NamesTell

(* See Timer.                                                              *)
ElapsedGoesOn == Clock!ElapsedGoesOn

(* What the headers promise and the code does not do: the expansion and    *)
(* nothing else, the elapsed time in both builds.  See Environ and Timer.  *)
ExpandsExactly == Env!ExpandsExactly
ElapsedTells == Clock!ElapsedTells
=============================================================================
