----------------------------- MODULE Clipboard ------------------------------
(***************************************************************************)
(* sys::clipboard (clipboard.hpp) and the blocks of memory it passes to    *)
(* the system and gets from it (winmem.hpp).  A call of set_text(),        *)
(* set_locale() or get_text() goes step by step, each of which may fail;   *)
(* the destructors on its way out are steps, too.  Another process uses    *)
(* the clipboard when it is not open here.                                 *)
(***************************************************************************)
EXTENDS Integers, Sequences, FiniteSets, SequencesExt

CONSTANTS
    Block,      \* handles of memory
    None,       \* no handle
    Object,     \* mem::global objects of the program
    Format,     \* the formats of text, and of the locale
    Text,       \* the texts
    Granule     \* sizes of blocks are multiples of it

NUL == "NUL"
Junk == "?"
gmem == "gmem"  \* the object in set_text() and set_locale()

VARIABLES
    heap,       \* the blocks: "free" or not, their content, their locks
    m_handle,   \* by object: the block that it owns
    raw,        \* blocks the program has taken out with release()
    data,       \* by format: the block that is in the clipboard
    holder,     \* who has the clipboard open: "none", "us" or "other"
    call,       \* the call in progress
    ret,        \* the result of the last call
    last        \* by format: the text that was put there last

vars == <<heap, m_handle, raw, data, holder, call, ret, last>>

FreeBlock == [free |-> TRUE, text |-> <<>>, locks |-> 0]
Idle == [pc |-> "idle"]

Init ==
    /\ heap = [b \in Block |-> FreeBlock]
    /\ m_handle = [o \in Object \cup {gmem} |-> None]
    /\ raw = {} /\ data = [f \in Format |-> None]
    /\ holder = "none" /\ call = Idle /\ ret = <<>>
    /\ last = [f \in Format |-> None]

-----------------------------------------------------------------------------
(* GlobalAlloc(), GlobalReAlloc(): a block of n characters or a few more.  *)
Rounded(n) == Granule * ((n + Granule - 1) \div Granule)
Resized(t, n) == [i \in 1 .. Rounded(n) |-> IF i \in DOMAIN t THEN t[i] ELSE Junk]
Allocated(t, n) == [free |-> FALSE, text |-> Resized(t, n), locks |-> 0]
Freed(h, b) == [h EXCEPT ![b] = [free |-> TRUE, text |-> <<>>, locks |-> @.locks]]
Locked(h, b, k) == [h EXCEPT ![b].locks = @ + k]

(* SetClipboardData(): the system takes the block, and frees the old one.  *)
Put(h, f, b) == IF data[f] = None THEN h ELSE Freed(h, data[f])

(* The text in a block.                                                    *)
Upto(s) ==
    LET nuls == {i \in DOMAIN s : s[i] = NUL} IN
    IF nuls = {} THEN s ELSE SubSeq(s, 1, CHOOSE i \in nuls : \A j \in nuls : i <= j)

-----------------------------------------------------------------------------
(* mem::global (mem::local has the same members): the constructors,        *)
(* realloc(), release(), the destructor.                                   *)
Unclipped == UNCHANGED <<data, holder, call, last>>

Construct(o, n) ==
    /\ call = Idle /\ m_handle[o] = None
    /\ \/ /\ ret' = <<"bad_alloc">> /\ UNCHANGED <<heap, m_handle>>
       \/ /\ ret' = <<"ok">>
          /\ \E b \in Block :
                /\ heap[b].free
                /\ heap' = [heap EXCEPT ![b] = Allocated(<<>>, n)]
                /\ m_handle' = [m_handle EXCEPT ![o] = b]
    /\ UNCHANGED raw /\ Unclipped

Adopt(o, b) ==
    /\ call = Idle /\ m_handle[o] = None /\ b \in raw
    /\ m_handle' = [m_handle EXCEPT ![o] = b] /\ raw' = raw \ {b}
    /\ ret' = <<"ok">>
    /\ UNCHANGED heap /\ Unclipped

(* The block may move to another handle, or there is no memory.            *)
Realloc(o, n) ==
    LET b == m_handle[o] IN
    /\ call = Idle /\ b # None
    /\ \/ /\ ret' = <<"bad_alloc">> /\ UNCHANGED <<heap, m_handle>>
       \/ /\ ret' = <<"ok">>
          /\ \E c \in Block :
                /\ c = b \/ heap[c].free
                /\ heap' = [Freed(heap, b) EXCEPT ![c] = Allocated(heap[b].text, n)]
                /\ m_handle' = [m_handle EXCEPT ![o] = c]
    /\ UNCHANGED raw /\ Unclipped

Release(o) ==
    /\ call = Idle /\ m_handle[o] # None
    /\ raw' = raw \cup {m_handle[o]}
    /\ m_handle' = [m_handle EXCEPT ![o] = None]
    /\ ret' = <<"ok">>
    /\ UNCHANGED heap /\ Unclipped

Destroy(o) ==
    /\ call = Idle /\ m_handle[o] # None
    /\ heap' = Freed(heap, m_handle[o])
    /\ m_handle' = [m_handle EXCEPT ![o] = None]
    /\ ret' = <<"ok">>
    /\ UNCHANGED raw /\ Unclipped

-----------------------------------------------------------------------------
(* The clipboard object, clear(), and set_data() of an object o.           *)
Others == UNCHANGED <<heap, m_handle, raw, data, last>>

Open ==
    /\ call = Idle /\ holder # "us"
    /\ IF holder = "none" THEN holder' = "us" /\ ret' = <<"ok">>
       ELSE holder' = holder /\ ret' = <<"system_error">>
    /\ UNCHANGED call /\ Others

Close ==
    /\ call = Idle /\ holder = "us" /\ holder' = "none"
    /\ ret' = <<"ok">>
    /\ UNCHANGED call /\ Others

Clear ==
    /\ call = Idle /\ holder = "us"
    /\ heap' = [b \in Block |-> IF \E f \in Format : data[f] = b THEN FreeBlock ELSE heap[b]]
    /\ data' = [f \in Format |-> None] /\ last' = [f \in Format |-> None]
    /\ ret' = <<"ok">>
    /\ UNCHANGED <<m_handle, raw, holder, call>>

(* Mutation of SetClipboardData: the object is not made to release.        *)
SetClipboardDataKeeping(f, o, rc) ==
    IF rc
    THEN /\ heap' = Put(heap, f, m_handle[o])
         /\ data' = [data EXCEPT ![f] = m_handle[o]]
         /\ last' = [last EXCEPT ![f] = Upto(heap[m_handle[o]].text)]
         /\ UNCHANGED m_handle
    ELSE UNCHANGED <<heap, data, last, m_handle>>

SetClipboardData(f, o, rc) ==
    IF rc
    THEN /\ heap' = Put(heap, f, m_handle[o])
         /\ data' = [data EXCEPT ![f] = m_handle[o]]
         /\ last' = [last EXCEPT ![f] = Upto(heap[m_handle[o]].text)]
         /\ m_handle' = [m_handle EXCEPT ![o] = None]
    ELSE UNCHANGED <<heap, data, last, m_handle>>

SetData(f, o) ==
    /\ call = Idle /\ holder = "us" /\ m_handle[o] # None
    /\ \E rc \in BOOLEAN : SetClipboardData(f, o, rc) /\ ret' = <<"set", rc>>
    /\ UNCHANGED <<raw, holder, call>>

-----------------------------------------------------------------------------
(* set_text() of a text and a NUL, and set_locale() of one value.          *)
At(pc) == call.pc = pc
Goto(pc) == call' = [call EXCEPT !.pc = pc]

BeginSet(f, s) ==
    /\ call = Idle /\ holder = "us"
    /\ \/ /\ ret' = <<"bad_alloc">> /\ UNCHANGED <<heap, m_handle, call>>
       \/ \E b \in Block :
             /\ heap[b].free
             /\ heap' = [heap EXCEPT ![b] = Allocated(<<>>, Len(s))]
             /\ m_handle' = [m_handle EXCEPT ![gmem] = b]
             /\ call' = [pc |-> "lock", format |-> f, text |-> s, ptr |-> None, what |-> "set"]
             /\ ret' = <<"system_error">>
    /\ UNCHANGED <<raw, data, holder, last>>

(* mem::lock: if the lock fails, the object in set_text() is destroyed.    *)
Lock ==
    LET b == IF call.what = "set" THEN m_handle[gmem] ELSE data[call.format] IN
    /\ At("lock")
    /\ \/ /\ heap' = Locked(heap, b, 1)
          /\ call' = [call EXCEPT !.pc = "copy", !.ptr = b]
       \/ Goto("end") /\ UNCHANGED heap
    /\ UNCHANGED <<m_handle, raw, data, holder, ret, last>>

Copy ==
    /\ At("copy") /\ call.what = "set"
    /\ heap' = [heap EXCEPT ![call.ptr].text =
                  [i \in DOMAIN @ |-> IF i <= Len(call.text) THEN call.text[i] ELSE @[i]]]
    /\ Goto("transfer")
    /\ UNCHANGED <<m_handle, raw, data, holder, ret, last>>

Transfer ==
    /\ At("transfer")
    /\ \E rc \in BOOLEAN : SetClipboardData(call.format, gmem, rc) /\ ret' = <<"set", rc>>
    /\ Goto("unlock")
    /\ UNCHANGED <<raw, holder>>

(* ~lock(), then ~global().                                                *)
Unlock ==
    /\ At("unlock")
    /\ heap' = Locked(heap, call.ptr, -1)
    /\ call' = [call EXCEPT !.pc = "end", !.ptr = None]
    /\ UNCHANGED <<m_handle, raw, data, holder, ret, last>>

End ==
    /\ At("end") /\ call' = Idle
    /\ heap' = IF m_handle[gmem] # None THEN Freed(heap, m_handle[gmem]) ELSE heap
    /\ m_handle' = [m_handle EXCEPT ![gmem] = None]
    /\ UNCHANGED <<raw, data, holder, ret, last>>

(* get_text(): the block without a NUL in its last place.                  *)
BeginGet(f) ==
    /\ call = Idle /\ holder = "us"
    /\ IF data[f] = None THEN ret' = <<"get", f, FALSE, <<>>>> /\ UNCHANGED call
       ELSE /\ call' = [pc |-> "lock", format |-> f, text |-> <<>>, ptr |-> None, what |-> "get"]
            /\ ret' = <<"system_error">>
    /\ UNCHANGED <<heap, m_handle, raw, data, holder, last>>

(* Mutation of CopyOut: the last character goes, NUL or not.               *)
CopyOutShort ==
    LET s == heap[call.ptr].text IN
    /\ At("copy") /\ call.what = "get"
    /\ ret' = <<"get", call.format, TRUE, SubSeq(s, 1, Len(s) - 1)>>
    /\ Goto("unlock")
    /\ UNCHANGED <<heap, m_handle, raw, data, holder, last>>

CopyOut ==
    LET s == heap[call.ptr].text IN
    /\ At("copy") /\ call.what = "get"
    /\ ret' = <<"get", call.format, TRUE,
                IF s # <<>> /\ s[Len(s)] = NUL THEN SubSeq(s, 1, Len(s) - 1) ELSE s>>
    /\ Goto("unlock")
    /\ UNCHANGED <<heap, m_handle, raw, data, holder, last>>

-----------------------------------------------------------------------------
(* Another process opens, fills and closes the clipboard.                  *)
Other ==
    \/ /\ \/ holder = "none" /\ holder' = "other"
          \/ holder = "other" /\ holder' = "none"
       /\ UNCHANGED <<heap, m_handle, raw, data, call, ret, last>>
    \/ \E f \in Format, s \in Text, b \in Block :
          /\ holder = "other" /\ heap[b].free
          /\ heap' = [Put(heap, f, b) EXCEPT ![b] = Allocated(Append(s, NUL), Len(s) + 1)]
          /\ data' = [data EXCEPT ![f] = b]
          /\ last' = [last EXCEPT ![f] = Append(s, NUL)]
          /\ UNCHANGED <<m_handle, raw, holder, call, ret>>

Next ==
    \/ \E o \in Object :
          \/ \E n \in 1 .. 2 : Construct(o, n) \/ Realloc(o, n)
          \/ \E b \in Block : Adopt(o, b)
          \/ Release(o) \/ Destroy(o)
          \/ \E f \in Format : SetData(f, o)
    \/ Open \/ Close \/ Clear
    \/ \E f \in Format, s \in Text : BeginSet(f, Append(s, NUL)) \/ BeginSet(f, s)
    \/ \E f \in Format : BeginGet(f)
    \/ Lock \/ Copy \/ Transfer \/ Unlock \/ End \/ CopyOut
    \/ Other

Spec == Init /\ [][Next]_vars

-----------------------------------------------------------------------------
TypeOK ==
    /\ \A b \in Block : heap[b].locks \in 0 .. 1
    /\ raw \subseteq Block
    /\ \A o \in DOMAIN m_handle : m_handle[o] \in Block \cup {None}
    /\ \A f \in Format : data[f] \in Block \cup {None}

(* Every block has one owner: an object, the program that took it out, or  *)
(* the clipboard.  None is freed before or after its time, by either side, *)
(* whichever step of a call fails (clipboard.hpp 55-60, 95-101; winmem.hpp *)
(* 49-51).                                                                 *)
Owners(b) ==
    {<<"object", o>> : o \in {o \in DOMAIN m_handle : m_handle[o] = b}}
    \cup {<<"program">> : r \in raw \cap {b}}
    \cup {<<"clipboard", f>> : f \in {f \in Format : data[f] = b}}
BlocksOwned ==
    \A b \in Block : Cardinality(Owners(b)) = IF heap[b].free THEN 0 ELSE 1

(* A block is locked only inside of a call; it is not freed, nor does the  *)
(* clipboard close, while it is (winmem.hpp:147).                          *)
LocksEnd ==
    \A b \in Block : heap[b].locks > 0 => ~heap[b].free /\ holder = "us" /\ call # Idle

(* get_text() returns what was put last under the format, by set_text() or *)
(* by the other process, up to its NUL; what the system has rounded the    *)
(* block up to may follow (clipboard.hpp 104-123).                         *)
GetsWhatWasSet ==
    [][\A f \in Format : (BeginGet(f) \/ CopyOut) /\ ret'[1] = "get" /\ ret'[2] = f =>
         IF ret'[3] THEN Upto(Append(ret'[4], NUL)) = Upto(Append(last[f], NUL))
         ELSE last[f] = None]_vars
=============================================================================
