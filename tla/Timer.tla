------------------------------- MODULE Timer --------------------------------
(***************************************************************************)
(* sys::timer (timer.hpp) on a monotonic clock, which is looked at now and *)
(* then: in the Windows build one count, in the POSIX build seconds and    *)
(* parts of a second.  elapsed() is in parts of a second.                  *)
(***************************************************************************)
EXTENDS Integers

CONSTANTS
    Second,     \* the parts of a second
    MaxTime     \* bound: the end of the clock, in parts

VARIABLES
    build,          \* the build of the program
    time,           \* the clock
    _start_time,    \* the timer: a clock_t
    ret             \* what elapsed() returned last, -1 after restart()

vars == <<build, time, _start_time, ret>>

(* query(): QueryPerformanceCounter(), clock_gettime().                    *)
Query(t) ==
    IF build = "windows" THEN [count |-> t]
    ELSE [tv_sec |-> t \div Second, tv_nsec |-> t % Second]

Init ==
    /\ build \in {"windows", "posix"}
    /\ time \in 0 .. MaxTime
    /\ _start_time = Query(time) /\ ret = -1

Restart == _start_time' = Query(time) /\ ret' = -1 /\ UNCHANGED <<build, time>>

(* Mutation of ElapsedPosix: the parts are subtracted the other way round. *)
ElapsedCrossed(current) ==
    LET diff_nsec == current.tv_nsec - _start_time.tv_nsec
        seconds == current.tv_sec - _start_time.tv_sec
    IN  IF seconds = 0 THEN diff_nsec ELSE (1 + seconds) * Second - diff_nsec

(* The clock does not go back; the last case of elapsed() is out of reach. *)
ElapsedPosix(current) ==
    LET diff_nsec == current.tv_nsec - _start_time.tv_nsec
        seconds == current.tv_sec - _start_time.tv_sec
    IN  IF seconds = 0 THEN diff_nsec ELSE diff_nsec + (1 + seconds) * Second

elapsed ==
    IF build = "windows" THEN time - _start_time.count ELSE ElapsedPosix(Query(time))

Elapsed == ret' = elapsed /\ UNCHANGED <<build, time, _start_time>>

Tick ==
    /\ \E t \in time + 1 .. MaxTime : time' = t
    /\ UNCHANGED <<build, _start_time, ret>>

Next == Restart \/ Elapsed \/ Tick

Spec == Init /\ [][Next]_vars

-----------------------------------------------------------------------------
TypeOK ==
    /\ time \in 0 .. MaxTime /\ ret \in -1 .. MaxTime + Second
    /\ _start_time = Query(IF build = "windows" THEN _start_time.count
                           ELSE _start_time.tv_sec * Second + _start_time.tv_nsec)

Began ==
    IF build = "windows" THEN _start_time.count
    ELSE _start_time.tv_sec * Second + _start_time.tv_nsec

(* elapsed() is 0 when no time has passed (timer.hpp:106, 115), never goes *)
(* back between two restarts and never falls short of the time that has    *)
(* passed, whatever fields of the clock carry over.  In the Windows build  *)
(* it is the time that has passed.                                         *)
ElapsedGoesOn ==
    [][Elapsed =>
        /\ ret' >= ret /\ ret' >= time - Began
        /\ build = "windows" \/ time = Began => ret' = time - Began]_vars

(* "Return elapsed time in seconds" (timer.hpp:121), in both builds.       *)
ElapsedTells == [][Elapsed => ret' = time - Began]_vars
=============================================================================
