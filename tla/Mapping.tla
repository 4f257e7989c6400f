------------------------------ MODULE Mapping ------------------------------
(***************************************************************************)
(* Memory mapped files (sysmemmap.h, sysmemmap.cc, sysmmdetail.h) over the *)
(* descriptors (syshandle.h) and the address space of the process.         *)
(*                                                                         *)
(* A map_base and a view each hold a refcount_ptr to a map_impl, which     *)
(* owns a descriptor of its own.  The pages of a view belong to nobody but *)
(* the view, which has to give them back.  A map_impl lives as long as a   *)
(* pointer holds it: module RefCount shows that refcount_ptr sees to that, *)
(* here it is taken for granted.  Addresses are numbers, page 0 is never   *)
(* mapped, and the address 0 is the null pointer.                          *)
(***************************************************************************)
EXTENDS MapView, FiniteSets

CONSTANTS
    Bases,      \* map_base objects: readonly, readwrite or mapped_file
    Views,      \* map_base::view objects
    Impls,      \* addresses of map_impl objects
    NULL,       \* the null pointer, no file, no object
    Files,      \* the files
    FileSize,   \* their sizes
    Fds,        \* the descriptors the process may have, numbers
    Pages,      \* the pages of the address space, numbers from 1
    PageSize,   \* page_size()
    ObjSize,    \* sizeof (T)
    SizeArgs,   \* the sizes asked for when a map is opened, 0 for all
    Offsets,    \* the offsets of views
    Counts,     \* the sizes of views in objects, 0 for all
    SelfMove    \* may a view be moved to itself?

ASSUME MappingAssumption ==
    /\ NULL \notin Impls \cup Files
    /\ NULL \notin [fd : Fds, file : Files, size : Nat] \cup [file : Files, page : Nat]
    /\ FileSize \in [Files -> Nat] /\ SizeArgs \cup Offsets \cup Counts \subseteq Nat
    /\ Fds \subseteq Nat /\ Pages \subseteq Nat \ {0}
    /\ PageSize \in Nat \ {0} /\ ObjSize \in Nat \ {0}
    /\ SelfMove \in BOOLEAN

VARIABLES
    fds,    \* the file that every descriptor refers to, NULL if it is closed
    user,   \* the descriptors that the program opened and has not closed
    base,   \* map_base::impl
    impl,   \* every map_impl: its descriptor, size, and the file it was opened on
    view,   \* every view: map, area and msize
    vm      \* what every page of the address space maps: a file and a page of it

vars == <<fds, user, base, impl, view, vm>>

(* view(): area is null; msize is not set, and only counts with an area.   *)
NoView == [map |-> NULL, area |-> 0, msize |-> 0]

Init ==
    /\ fds = [d \in Fds |-> NULL] /\ user = {}
    /\ base = [b \in Bases |-> NULL]
    /\ impl = [i \in Impls |-> NULL]
    /\ view = [v \in Views |-> NoView]
    /\ vm = [p \in Pages |-> NULL]

-----------------------------------------------------------------------------
(* The kernel.                                                             *)

(* open() and dup() return the lowest descriptor that is free.             *)
Free(table) == {d \in Fds : table[d] = NULL}
Lowest(table) == CHOOSE d \in Free(table) : \A e \in Free(table) : d <= e
OpenAs(table, file) == [table EXCEPT ![Lowest(table)] = file]

(* The pages from the one of address area, for so many bytes.              *)
Span(area, bytes) ==
    LET first == PageOf(area, PageSize)
    IN  first .. first + PagesFor(size_align(area, bytes, PageSize), PageSize) - 1

Munmap(mem, area, bytes) == [p \in Pages |-> IF p \in Span(area, bytes) THEN NULL ELSE mem[p]]

(* Mutation of UnmapArea: the area is unmapped as if it began a page.      *)
UnmapAligned(mem, w) ==
    IF w.area = 0 THEN mem
    ELSE Munmap(mem, PageOf(w.area, PageSize) * PageSize, w.msize * ObjSize)

(* view::unmap(), and the destructor: map->unmap (area, msize*sizeof (T)). *)
UnmapArea(mem, w) == IF w.area = 0 THEN mem ELSE Munmap(mem, w.area, w.msize * ObjSize)

(* map_impl::map (offset, size): mmap() picks any free pages.              *)
MapPages(mem, file, offset, size, start) ==
    [p \in Pages |->
        IF p \in Span(start * PageSize + PageOffset(offset, PageSize), size)
        THEN [file |-> file, page |-> PageOf(offset, PageSize) + p - start]
        ELSE mem[p]]

-----------------------------------------------------------------------------
(* The new pointers b and v, after which map_impl objects that nobody      *)
(* holds any more are deleted, and their descriptors closed.               *)
Assign(b, v, m, table) ==
    LET held == {b[x] : x \in Bases} \cup {v[x].map : x \in Views}
        dead == {i \in Impls : m[i] # NULL /\ i \notin held}
    IN  /\ base' = b /\ view' = v
        /\ impl' = [i \in Impls |-> IF i \in dead THEN NULL ELSE m[i]]
        /\ fds' = [d \in Fds |-> IF \E i \in dead : m[i].fd = d THEN NULL ELSE table[d]]

AssignView(v) == Assign(base, v, impl, fds)

(* do_remap (offset, n) on a view w that is not mapped, in address space   *)
(* mem: all it may come to, unless it throws.                              *)
Remapped(w, mem, offset, n) ==
    IF w.map = NULL \/ ~InRange(impl[w.map].size, offset, ObjSize) THEN {}
    ELSE LET bytes == ByteSize(impl[w.map].size, offset, n * ObjSize)
             area(start) == start * PageSize + PageOffset(offset, PageSize)
         IN  {[view |-> [w EXCEPT !.area = area(start), !.msize = bytes \div ObjSize],
               vm |-> MapPages(mem, fds[impl[w.map].fd], offset, bytes, start)] :
                start \in {p \in Pages : \A q \in Span(area(p), bytes) : q \in Pages /\ mem[q] = NULL}}

-----------------------------------------------------------------------------
(* The program opens and closes files for its own use.                     *)
UserOpen(f) ==
    /\ Free(fds) # {}
    /\ user' = user \cup {Lowest(fds)} /\ fds' = OpenAs(fds, f)
    /\ UNCHANGED <<base, impl, view, vm>>

UserClose(d) ==
    /\ user' = user \ {d} /\ fds' = [fds EXCEPT ![d] = NULL]
    /\ UNCHANGED <<base, impl, view, vm>>

(* impl.reset (new map_impl (dup (file), size)), table holding the file.   *)
SetImpl(b, i, d, f, size, table) ==
    Assign([base EXCEPT ![b] = i], view,
           [impl EXCEPT ![i] = [fd |-> d, file |-> f,
                                size |-> IF size = 0 THEN FileSize[f] ELSE size]],
           table)

(* open (file, mode, size): throws, with no effect, if dup() fails.        *)
OpenHandle(b, i, d, size) ==
    /\ impl[i] = NULL /\ size <= FileSize[fds[d]]
    /\ Free(fds) # {}
    /\ SetImpl(b, i, Lowest(fds), fds[d], size, OpenAs(fds, fds[d]))
    /\ UNCHANGED <<user, vm>>

(* Mutation of OpenName: the temporary descriptor stays open.              *)
OpenKeeping(b, i, f, size) ==
    /\ impl[i] = NULL /\ size <= FileSize[f]
    /\ Cardinality(Free(fds)) > 1
    /\ LET table == OpenAs(fds, f)
       IN  SetImpl(b, i, Lowest(table), f, size, OpenAs(table, f))
    /\ UNCHANGED <<user, vm>>

(* open (filename, mode, size): the file is opened, its descriptor         *)
(* duplicated and closed again, which is all that happens if dup() fails.  *)
OpenName(b, i, f, size) ==
    /\ impl[i] = NULL /\ size <= FileSize[f]
    /\ Cardinality(Free(fds)) > 1
    /\ LET table == OpenAs(fds, f)
       IN  SetImpl(b, i, Lowest(table), f, size,
                   [OpenAs(table, f) EXCEPT ![Lowest(fds)] = NULL])
    /\ UNCHANGED <<user, vm>>

CloseBase(b) ==
    /\ base[b] # NULL
    /\ Assign([base EXCEPT ![b] = NULL], view, impl, fds)
    /\ UNCHANGED <<user, vm>>

CopyBase(b, c) ==
    /\ base[b] # base[c]
    /\ Assign([base EXCEPT ![b] = base[c]], view, impl, fds)
    /\ UNCHANGED <<user, vm>>

-----------------------------------------------------------------------------
(* A constructor that maps: when it throws there is no view.               *)
Construct(v, map, offset, n) ==
    /\ view[v] = NoView
    /\ \E r \in Remapped([NoView EXCEPT !.map = map], vm, offset, n) :
          vm' = r.vm /\ AssignView([view EXCEPT ![v] = r.view])
    /\ UNCHANGED user

(* view (map_base&, offset, n) and view (const view<U>&, offset, n)        *)
ViewOfBase(v, b, offset, n) == Construct(v, base[b], offset, n)
ViewOfView(v, w, offset, n) == Construct(v, view[w].map, offset, n)

(* Mutation of MoveConstruct: other.area = 0 is missing.                   *)
MoveConstructKeeping(v, w) ==
    /\ view[v] = NoView /\ view[w] # NoView
    /\ AssignView([view EXCEPT ![v] = view[w]])
    /\ UNCHANGED <<user, vm>>

(* view (view&&)                                                           *)
MoveConstruct(v, w) ==
    /\ view[v] = NoView /\ view[w] # NoView
    /\ AssignView([view EXCEPT ![v] = view[w], ![w].area = 0])
    /\ UNCHANGED <<user, vm>>

(* operator= (view&&)                                                      *)
MoveAssign(v, w) ==
    /\ view[v] # view[w] \/ SelfMove
    /\ AssignView([view EXCEPT ![v] = view[w], ![w].area = 0])
    /\ vm' = IF view[v].area = view[w].area THEN vm ELSE UnmapArea(vm, view[v])
    /\ UNCHANGED user

(* ~view()                                                                 *)
Destroy(v) ==
    /\ view[v] # NoView
    /\ AssignView([view EXCEPT ![v] = NoView])
    /\ vm' = UnmapArea(vm, view[v])
    /\ UNCHANGED user

(* unmap()                                                                 *)
Unmap(v) ==
    /\ view[v].area # 0
    /\ AssignView([view EXCEPT ![v].area = 0])
    /\ vm' = UnmapArea(vm, view[v])
    /\ UNCHANGED user

(* bind (const map_base&) and bind (const view<U>&)                        *)
Bind(v, map) ==
    /\ AssignView([view EXCEPT ![v].map = map, ![v].area = 0])
    /\ vm' = UnmapArea(vm, view[v])
    /\ UNCHANGED user

(* remap (const map_base&, offset, n) and remap (offset, n): when they     *)
(* throw, the view is bound and not mapped.                                *)
Remap(v, map, offset, n) ==
    \/ Bind(v, map)
    \/ /\ \E r \in Remapped([view[v] EXCEPT !.map = map, !.area = 0],
                           UnmapArea(vm, view[v]), offset, n) :
             vm' = r.vm /\ AssignView([view EXCEPT ![v] = r.view])
       /\ UNCHANGED user

Next ==
    \/ \E f \in Files : UserOpen(f)
    \/ \E d \in user : UserClose(d)
    \/ \E b \in Bases, i \in Impls, size \in SizeArgs :
          \/ \E d \in user : OpenHandle(b, i, d, size)
          \/ \E f \in Files : OpenName(b, i, f, size)
    \/ \E b \in Bases : CloseBase(b)
    \/ \E b, c \in Bases : CopyBase(b, c)
    \/ \E v \in Views, b \in Bases, offset \in Offsets, n \in Counts :
          ViewOfBase(v, b, offset, n)
    \/ \E v, w \in Views, offset \in Offsets, n \in Counts : ViewOfView(v, w, offset, n)
    \/ \E v, w \in Views : MoveConstruct(v, w) \/ MoveAssign(v, w)
    \/ \E v \in Views : Destroy(v) \/ Unmap(v)
    \/ \E v, w \in Views : Bind(v, view[w].map)
    \/ \E v \in Views, offset \in Offsets, n \in Counts :
          \/ Remap(v, view[v].map, offset, n)
          \/ \E b \in Bases : Remap(v, base[b], offset, n)

Spec == Init /\ [][Next]_vars

-----------------------------------------------------------------------------
TypeOK ==
    /\ fds \in [Fds -> Files \cup {NULL}] /\ user \in SUBSET Fds
    /\ base \in [Bases -> Impls \cup {NULL}]
    /\ impl \in [Impls -> [fd : Fds, file : Files, size : Nat] \cup {NULL}]
    /\ view \in [Views -> [map : Impls \cup {NULL}, area : Nat, msize : Nat]]
    /\ vm \in [Pages -> [file : Files, page : Nat] \cup {NULL}]

ViewSpan(v) ==
    IF view[v].area = 0 THEN {} ELSE Span(view[v].area, view[v].msize * ObjSize)

(* Every byte of a mapped view is in memory, and is the one of the file    *)
(* that its map was opened on, within the size of the map and in the order *)
(* of the file: no remapping, unmapping, moving or closing of other views  *)
(* and maps, and no reuse of a descriptor or a page, takes it away.        *)
ViewsIntact ==
    \A v \in Views : view[v].area # 0 =>
        /\ view[v].map # NULL /\ impl[view[v].map] # NULL
        /\ LET m     == impl[view[v].map]
               first == PageOf(view[v].area, PageSize)
               begin == vm[first].page * PageSize + PageOffset(view[v].area, PageSize)
           IN  /\ \A p \in ViewSpan(v) : vm[p] # NULL
               /\ \A p \in ViewSpan(v) :
                    vm[p] = [file |-> m.file, page |-> vm[first].page + p - first]
               /\ begin + view[v].msize * ObjSize <= m.size

(* The variables keep their types; a page of the address space stays       *)
(* mapped only as long as a view has it, and no two views have the same.   *)
PagesOwned ==
    /\ TypeOK
    /\ \A p \in Pages :
          LET owners == {v \in Views : p \in ViewSpan(v)}
          IN  Cardinality(owners) = IF vm[p] = NULL THEN 0 ELSE 1

(* The descriptor of a map is open on the file the map was opened on,      *)
(* whatever the program does to its own descriptors; and no descriptor is  *)
(* open that neither the program nor a map will close.                     *)
DescriptorsOwned ==
    \A d \in Fds :
        LET owners == {i \in Impls : impl[i] # NULL /\ impl[i].fd = d}
        IN  /\ \A i \in owners : fds[d] = impl[i].file
            /\ Cardinality(owners) + Cardinality(user \cap {d}) =
                 IF fds[d] = NULL THEN 0 ELSE 1
=============================================================================
