------------------------------- MODULE Handle -------------------------------
(***************************************************************************)
(* sys::generic_handle (syshandle.h): a descriptor and the duty to close   *)
(* it, which a copy takes over.  The program opens and closes descriptors  *)
(* of its own, too, and the system gives out the lowest free number again. *)
(*                                                                         *)
(* Client rules: a raw descriptor is given to one handle only, and by      *)
(* ConstCopy, whether programs copy a const or a temporary handle, which   *)
(* takes the conversion to raw_handle in place of the copy constructor.    *)
(***************************************************************************)
EXTENDS Integers, FiniteSets, FiniteSetsExt

CONSTANTS
    Name,       \* handle objects
    Fd,         \* the numbers of descriptors, without the invalid one
    File,       \* open files, each for one descriptor
    Closed,     \* in place of a file
    ConstCopy

Invalid == -1
Gone == -2      \* an object outside of its life

VARIABLES
    fds,    \* by descriptor: the file it is open on
    handle, \* by object: the descriptor it has
    given,  \* by object: the file that it was given with the descriptor
    raw,    \* descriptors in the hands of the program, with their files
    rc      \* the result of the last close()

vars == <<fds, handle, given, raw, rc>>

Init ==
    /\ fds = [d \in Fd |-> Closed] /\ raw = {}
    /\ handle = [h \in Name |-> Gone] /\ given = [h \in Name |-> Closed]
    /\ rc = FALSE

Lives(h) == handle[h] # Gone
Free == {d \in Fd : fds[d] = Closed}
Unused == File \ {fds[d] : d \in Fd}

(* close_handle(): what ::close() does to the table.                       *)
CloseHandle(d) == IF d \in Fd THEN [fds EXCEPT ![d] = Closed] ELSE fds
CanClose(d) == d \in Fd /\ fds[d] # Closed

Set(h, d, f) == handle' = [handle EXCEPT ![h] = d] /\ given' = [given EXCEPT ![h] = f]

(* The program opens a file, closes it, and hands it to objects.           *)
UserOpen ==
    /\ Free # {}
    /\ \E f \in Unused :
          /\ fds' = [fds EXCEPT ![Min(Free)] = f]
          /\ raw' = raw \cup {<<Min(Free), f>>}
    /\ UNCHANGED <<handle, given, rc>>

UserClose(r) ==
    /\ r \in raw
    /\ fds' = CloseHandle(r[1]) /\ raw' = raw \ {r}
    /\ UNCHANGED <<handle, given, rc>>

-----------------------------------------------------------------------------
(* generic_handle (handle_type), by default of the invalid handle.         *)
Construct(h) ==
    /\ ~Lives(h)
    /\ \/ Set(h, Invalid, Closed) /\ UNCHANGED raw
       \/ \E r \in raw : Set(h, r[1], r[2]) /\ raw' = raw \ {r}
    /\ UNCHANGED <<fds, rc>>

(* generic_handle (generic_handle&), by release() of the other.            *)
CopyConstruct(h, g) ==
    /\ ~Lives(h) /\ Lives(g)
    /\ handle' = [handle EXCEPT ![h] = handle[g], ![g] = Invalid]
    /\ given' = [given EXCEPT ![h] = given[g], ![g] = Closed]
    /\ UNCHANGED <<fds, raw, rc>>

(* A const handle converts to its descriptor.                              *)
CopyConst(h, g) ==
    /\ ConstCopy /\ ~Lives(h) /\ Lives(g)
    /\ Set(h, handle[g], given[g])
    /\ UNCHANGED <<fds, raw, rc>>

(* reset (new_h): nothing if it is the same descriptor.                    *)
Reset(h, r) ==
    /\ Lives(h) /\ r \in raw
    /\ fds' = IF handle[h] # r[1] THEN CloseHandle(handle[h]) ELSE fds
    /\ Set(h, r[1], r[2]) /\ raw' = raw \ {r}
    /\ UNCHANGED rc

ResetToInvalid(h) ==
    /\ Lives(h)
    /\ fds' = CloseHandle(handle[h]) /\ Set(h, Invalid, Closed)
    /\ UNCHANGED <<raw, rc>>

(* operator= (generic_handle&).                                            *)
Assign(h, g) ==
    /\ Lives(h) /\ Lives(g)
    /\ IF h = g THEN UNCHANGED <<fds, handle, given>>
       ELSE /\ fds' = IF handle[h] # handle[g] THEN CloseHandle(handle[h]) ELSE fds
            /\ handle' = [handle EXCEPT ![h] = handle[g], ![g] = Invalid]
            /\ given' = [given EXCEPT ![h] = given[g], ![g] = Closed]
    /\ UNCHANGED <<raw, rc>>

Close(h) ==
    /\ Lives(h)
    /\ rc' = CanClose(handle[h])
    /\ fds' = CloseHandle(handle[h]) /\ Set(h, Invalid, Closed)
    /\ UNCHANGED raw

(* release(): the descriptor goes back to the program.                     *)
Release(h) ==
    /\ Lives(h)
    /\ raw' = IF handle[h] \in Fd THEN raw \cup {<<handle[h], given[h]>>} ELSE raw
    /\ Set(h, Invalid, Closed)
    /\ UNCHANGED <<fds, rc>>

Destroy(h) ==
    /\ Lives(h)
    /\ fds' = CloseHandle(handle[h]) /\ Set(h, Gone, Closed)
    /\ UNCHANGED <<raw, rc>>

Next ==
    \/ UserOpen
    \/ \E r \in Fd \X File : UserClose(r)
    \/ \E h \in Name :
          \/ Construct(h) \/ ResetToInvalid(h) \/ Close(h) \/ Release(h) \/ Destroy(h)
          \/ \E g \in Name : CopyConstruct(h, g) \/ CopyConst(h, g) \/ Assign(h, g)
          \/ \E r \in Fd \X File : Reset(h, r)

Spec == Init /\ [][Next]_vars

-----------------------------------------------------------------------------
TypeOK ==
    /\ fds \in [Fd -> File \cup {Closed}]
    /\ handle \in [Name -> Fd \cup {Invalid, Gone}]
    /\ given \in [Name -> File \cup {Closed}]
    /\ raw \subseteq Fd \X File
    /\ rc \in BOOLEAN

(* A handle has the file it was given, never another that came to its      *)
(* number: every open file is in the hands of one handle or of the         *)
(* program, and is closed by that one and in its time (syshandle.h         *)
(* 84-145).                                                                *)
Holders(f) ==
    {<<"handle", h>> : h \in {h \in Name : handle[h] \in Fd /\ given[h] = f}}
    \cup {<<"program", r>> : r \in {r \in raw : r[2] = f}}
HandlesOwn ==
    /\ \A h \in Name : handle[h] \in Fd => fds[handle[h]] = given[h]
    /\ \A r \in raw : fds[r[1]] = r[2]
    /\ \A d \in Fd : fds[d] # Closed => Cardinality(Holders(fds[d])) = 1
=============================================================================
