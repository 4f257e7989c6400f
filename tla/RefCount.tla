------------------------------ MODULE RefCount ------------------------------
(***************************************************************************)
(* refcount_ptr.h: the intrusive reference-counting pointer, used by       *)
(* several threads on shared objects, with the counter operations of       *)
(* sysatomic.h as atomic steps.                                            *)
(*                                                                         *)
(* A slot is one refcount_ptr variable.  It is either a variable of the    *)
(* program (a member of Vars), or the pointer member of an object; every   *)
(* object has one such member, named by the object itself, so that a       *)
(* delete may cascade.  A slot that holds NULL is a default-constructed,   *)
(* emptied or destroyed pointer.                                           *)
(*                                                                         *)
(* Distinct slots are used by distinct threads without any lock.  One slot *)
(* is an ordinary C++ object: no thread writes it while another uses it.   *)
(***************************************************************************)
EXTENDS Integers, FiniteSets, Sequences

CONSTANTS
    Threads,    \* the threads of the process
    Objects,    \* addresses of objects derived from refcount_base
    Vars,       \* refcount_ptr variables that are not members of objects
    NULL        \* the null pointer

ASSUME SlotAssumption ==
    /\ IsFiniteSet(Objects) /\ IsFiniteSet(Vars)
    /\ Objects \cap Vars = {}
    /\ NULL \notin Objects \cup Vars

VARIABLES
    ptr,        \* refcount_ptr::ptr of every slot
    ref_count,  \* refcount_base::ref_count of every object
    alive,      \* the objects that are allocated
    op          \* the call every thread is executing

vars == <<ptr, ref_count, alive, op>>

Slots == Vars \cup Objects

(* A call in progress: dst is *this, src the argument it reads, via the    *)
(* variable through which a member slot is reached, new the value of       *)
(* share()'s parameter, dels the objects being deleted, innermost last.    *)
Idle == [kind |-> "idle", dst |-> NULL, src |-> NULL, via |-> NULL,
         new |-> NULL, dels |-> <<>>]

Ops == [kind : {"idle", "share", "move", "destroy"},
        dst : Slots \cup {NULL}, src : Slots \cup {NULL}, via : Vars \cup {NULL},
        new : Objects \cup {NULL}, dels : Seq(Objects)]

SetDels(call, dels) == [call EXCEPT !.dels = dels]

Init ==
    /\ ptr = [s \in Slots |-> NULL]
    /\ ref_count = [o \in Objects |-> 0]
    /\ alive = {}
    /\ op = [t \in Threads |-> Idle]

-----------------------------------------------------------------------------
(* Which slots a call in progress writes and reads.                        *)
Writes(t) == {op[t].dst} \cup (IF op[t].kind = "move" THEN {op[t].src} ELSE {})
Reads(t)  == {op[t].src, op[t].via}

Exclusive(s) == \A t \in Threads : s \notin Writes(t) \cup Reads(t)
Readable(s)  == \A t \in Threads : s \notin Writes(t)

(* The slot s can be named by a program: a variable, or the member of an   *)
(* object that the variable v points to and keeps alive.                   *)
Names(s, v) ==
    \/ s \in Vars /\ v = NULL
    \/ s \in Objects /\ v \in Vars /\ Readable(v) /\ ptr[v] = s

(* A call of idle thread t on *this = d with argument s; at most one of    *)
(* the two is a member slot, reached through v, a third slot.              *)
Calls(t, d, s, v) ==
    /\ op[t] = Idle
    /\ d # s /\ v # d /\ v # s
    /\ \/ Names(d, v) /\ s \in Vars
       \/ d \in Vars /\ Names(s, v)
    /\ Exclusive(d) /\ Readable(s)

(* Mutations of LastDrop: the test is forgotten, is made on the new count, *)
(* or takes the new count for the old one the other way around.            *)
LastDropUntested(old) == old # 0
LastDropOneEarly(old) == old = 2
LastDropOneLate(old) == old = 0

(* atomic_add (ptr->ref_count, -1) == 1: atomic_add returns the old value. *)
LastDrop(old) == old = 1

(* dispose(): the decrement, and delete if it was the last.  The caller    *)
(* overwrites or abandons the stale value of d, the model clears it.       *)
Dispose(t, d, call, counts) ==
    LET o == ptr[d] IN
    /\ ptr' = [ptr EXCEPT ![d] = NULL]
    /\ ref_count' = IF o = NULL THEN counts ELSE [counts EXCEPT ![o] = @ - 1]
    /\ op' = [op EXCEPT ![t] =
                SetDels(call, IF o # NULL /\ LastDrop(ref_count[o]) THEN <<o>> ELSE <<>>)]

Call(kind, d, s, v, o) ==
    [kind |-> kind, dst |-> d, src |-> s, via |-> v, new |-> o, dels |-> <<>>]

-----------------------------------------------------------------------------
(* refcount_ptr (T* p) on a new object, whose count starts at 0.           *)
Construct(t, d, o) ==
    /\ op[t] = Idle /\ d \in Vars /\ ptr[d] = NULL /\ Exclusive(d)
    /\ o \notin alive
    /\ alive' = alive \cup {o}
    /\ ref_count' = [ref_count EXCEPT ![o] = 1]
    /\ ptr' = [ptr EXCEPT ![d] = o]
    /\ UNCHANGED op

(* refcount_ptr (const refcount_ptr&), and refcount_ptr (T* p) on the      *)
(* pointer that s.get() returned.                                          *)
CopyConstruct(t, d, s, v) ==
    /\ Calls(t, d, s, v) /\ d \in Vars
    /\ ptr[d] = NULL /\ ptr[s] # NULL
    /\ ptr' = [ptr EXCEPT ![d] = ptr[s]]
    /\ ref_count' = [ref_count EXCEPT ![ptr[s]] = @ + 1]
    /\ UNCHANGED <<alive, op>>

(* Mutation of MoveConstruct: other.ptr = 0 is missing.                    *)
MoveConstructKeeping(t, d, s, v) ==
    /\ Calls(t, d, s, v) /\ d \in Vars /\ Exclusive(s)
    /\ ptr[d] = NULL /\ ptr[s] # NULL
    /\ ptr' = [ptr EXCEPT ![d] = ptr[s]]
    /\ UNCHANGED <<ref_count, alive, op>>

(* refcount_ptr (refcount_ptr&&)                                           *)
MoveConstruct(t, d, s, v) ==
    /\ Calls(t, d, s, v) /\ d \in Vars /\ Exclusive(s)
    /\ ptr[d] = NULL /\ ptr[s] # NULL
    /\ ptr' = [ptr EXCEPT ![d] = ptr[s], ![s] = NULL]
    /\ UNCHANGED <<ref_count, alive, op>>

(* swap (refcount_ptr&)                                                    *)
Swap(t, d, s, v) ==
    /\ Calls(t, d, s, v) /\ Exclusive(s)
    /\ ptr[d] # ptr[s]
    /\ ptr' = [ptr EXCEPT ![d] = ptr[s], ![s] = ptr[d]]
    /\ UNCHANGED <<ref_count, alive, op>>

(* operator= (const refcount_ptr&): share (r.ptr) up to its dispose().     *)
Share(t, d, s, v) ==
    /\ Calls(t, d, s, v)
    /\ ptr[d] # ptr[s]
    /\ Dispose(t, d, Call("share", d, s, v, ptr[s]), ref_count)
    /\ UNCHANGED alive

(* reset (new T): share() of an object nobody else knows.                  *)
ResetToNew(t, d, o) ==
    /\ op[t] = Idle /\ d \in Vars /\ Exclusive(d)
    /\ o \notin alive
    /\ alive' = alive \cup {o}
    /\ Dispose(t, d, Call("share", d, NULL, NULL, o), [ref_count EXCEPT ![o] = 0])

(* reset(): share (0).                                                     *)
ResetToNull(t, d, v) ==
    /\ op[t] = Idle /\ v # d /\ Names(d, v) /\ Exclusive(d)
    /\ ptr[d] # NULL
    /\ Dispose(t, d, Call("share", d, NULL, v, NULL), ref_count)
    /\ UNCHANGED alive

(* operator= (refcount_ptr&&) up to its dispose().                         *)
MoveAssign(t, d, s, v) ==
    /\ Calls(t, d, s, v) /\ Exclusive(s)
    /\ ptr[d] # ptr[s]
    /\ Dispose(t, d, Call("move", d, s, v, NULL), ref_count)
    /\ UNCHANGED alive

(* ~refcount_ptr() of a variable.                                          *)
Destroy(t, d) ==
    /\ op[t] = Idle /\ d \in Vars /\ Exclusive(d)
    /\ ptr[d] # NULL
    /\ Dispose(t, d, Call("destroy", d, NULL, NULL, NULL), ref_count)
    /\ UNCHANGED alive

-----------------------------------------------------------------------------
Dying(t) == op[t].dels[Len(op[t].dels)]

(* Mutation of DeleteMember: the member's count goes down, but the delete  *)
(* of what it was the last to hold is missing.                             *)
DeleteMemberOnly(t) ==
    /\ op[t].dels # <<>>
    /\ ptr[Dying(t)] # NULL
    /\ ptr' = [ptr EXCEPT ![Dying(t)] = NULL]
    /\ ref_count' = [ref_count EXCEPT ![ptr[Dying(t)]] = @ - 1]
    /\ UNCHANGED <<alive, op>>

(* delete ptr: the destructor of the object first disposes of its member,  *)
(* which may have to be deleted in turn.                                   *)
DeleteMember(t) ==
    /\ op[t].dels # <<>>
    /\ ptr[Dying(t)] # NULL
    /\ LET o == Dying(t)
           n == ptr[o]
       IN  /\ ptr' = [ptr EXCEPT ![o] = NULL]
           /\ ref_count' = [ref_count EXCEPT ![n] = @ - 1]
           /\ op' = IF LastDrop(ref_count[n])
                    THEN [op EXCEPT ![t] = SetDels(@, Append(@.dels, n))]
                    ELSE op
    /\ UNCHANGED alive

(* ... and then the memory goes back to the allocator.                     *)
FreeObject(t) ==
    /\ op[t].dels # <<>>
    /\ ptr[Dying(t)] = NULL
    /\ alive' = alive \ {Dying(t)}
    /\ op' = [op EXCEPT ![t] = SetDels(@, SubSeq(@.dels, 1, Len(@.dels) - 1))]
    /\ UNCHANGED <<ptr, ref_count>>

(* Mutation of FinishShare: the new pointer is not counted.                *)
FinishShareUncounted(t) ==
    /\ op[t].kind = "share" /\ op[t].dels = <<>>
    /\ ptr' = [ptr EXCEPT ![op[t].dst] = op[t].new]
    /\ op' = [op EXCEPT ![t] = Idle]
    /\ UNCHANGED <<ref_count, alive>>

(* The rest of share(): ptr = other; atomic_add (ptr->ref_count, 1).       *)
FinishShare(t) ==
    /\ op[t].kind = "share" /\ op[t].dels = <<>>
    /\ ptr' = [ptr EXCEPT ![op[t].dst] = op[t].new]
    /\ ref_count' = IF op[t].new = NULL THEN ref_count
                    ELSE [ref_count EXCEPT ![op[t].new] = @ + 1]
    /\ op' = [op EXCEPT ![t] = Idle]
    /\ UNCHANGED alive

(* The rest of the move assignment: ptr = r.ptr; r.ptr = 0.                *)
FinishMove(t) ==
    /\ op[t].kind = "move" /\ op[t].dels = <<>>
    /\ ptr' = [ptr EXCEPT ![op[t].dst] = ptr[op[t].src], ![op[t].src] = NULL]
    /\ op' = [op EXCEPT ![t] = Idle]
    /\ UNCHANGED <<ref_count, alive>>

FinishDestroy(t) ==
    /\ op[t].kind = "destroy" /\ op[t].dels = <<>>
    /\ op' = [op EXCEPT ![t] = Idle]
    /\ UNCHANGED <<ptr, ref_count, alive>>

Continue(t) ==
    \/ DeleteMember(t)
    \/ FreeObject(t)
    \/ FinishShare(t)
    \/ FinishMove(t)
    \/ FinishDestroy(t)

Begin(t) ==
    \/ \E d \in Vars, o \in Objects : Construct(t, d, o) \/ ResetToNew(t, d, o)
    \/ \E d \in Vars : Destroy(t, d)
    \/ \E d \in Slots, v \in Vars \cup {NULL} : ResetToNull(t, d, v)
    \/ \E d, s \in Slots, v \in Vars \cup {NULL} :
          \/ CopyConstruct(t, d, s, v)
          \/ MoveConstruct(t, d, s, v)
          \/ Swap(t, d, s, v)
          \/ Share(t, d, s, v)
          \/ MoveAssign(t, d, s, v)

Next == \E t \in Threads : Begin(t) \/ Continue(t)

(* A thread inside a call is scheduled again; no thread has to start one.  *)
Fairness == \A t \in Threads : WF_vars(Continue(t))

Spec == Init /\ [][Next]_vars
FairSpec == Spec /\ Fairness

-----------------------------------------------------------------------------
Refs(o) == {s \in Slots : ptr[s] = o}
DelSet(t) == {op[t].dels[i] : i \in 1 .. Len(op[t].dels)}

TypeOK ==
    /\ ptr \in [Slots -> Objects \cup {NULL}]
    /\ ref_count \in [Objects -> Nat]
    /\ alive \in SUBSET Objects
    /\ op \in [Threads -> Ops]

(* The counter of an allocated object is the number of pointers that hold  *)
(* it, whatever the interleaving of the increments and decrements of the   *)
(* threads that copy, move, assign and destroy these pointers.             *)
CountExact == \A o \in alive : ref_count[o] = Cardinality(Refs(o))

(* No pointer, and no pointer value that an assignment is about to store,  *)
(* outlives its object: dispose() of another thread or of the same         *)
(* assignment never deletes what a slot still holds.                       *)
NoDangling ==
    /\ \A s \in Slots : ptr[s] # NULL => ptr[s] \in alive
    /\ \A t \in Threads : op[t].new # NULL => op[t].new \in alive

(* Of the threads that race to drop the last references exactly one sees   *)
(* the old count 1: no object is being deleted twice.                      *)
NoDoubleDelete ==
    \A t, u \in Threads : \A i \in 1 .. Len(op[t].dels), j \in 1 .. Len(op[u].dels) :
        op[t].dels[i] = op[u].dels[j] => t = u /\ i = j

(* An allocated object that no pointer holds is in the hands of a thread,  *)
(* which is about to store it or is deleting it: it cannot be lost.        *)
NoOrphan ==
    \A o \in alive : Refs(o) = {} =>
        \E t \in Threads : op[t].new = o \/ o \in DelSet(t)

(* unique(), asked of a pointer that no other thread is using, is an       *)
(* answer to rely on: nobody else holds the object, nor is about to.       *)
UniqueMeansSole ==
    \A s \in Slots :
        (ptr[s] # NULL /\ Exclusive(s) /\ ref_count[ptr[s]] = 1) =>
            /\ Refs(ptr[s]) = {s}
            /\ \A t \in Threads : op[t].new # ptr[s]

(* An object whose last pointer is gone is deleted (or, when an assignment *)
(* was storing it, held again): no thread has to do anything but finish    *)
(* the call it is in.                                                      *)
Reclaimed == \A o \in Objects :
    (o \in alive /\ Refs(o) = {}) ~> (o \notin alive \/ Refs(o) # {})
=============================================================================
