--------------------------- MODULE Mapping_proof ----------------------------
(***************************************************************************)
(* Views stay intact, and pages and descriptors have one owner, for any    *)
(* number of maps, views, files, descriptors and pages and any page size,  *)
(* as long as maps and offsets are whole objects (WholeObjects) and no     *)
(* view is moved to itself.                                                *)
(***************************************************************************)
EXTENDS Mapping, FiniteSetTheorems, WellFoundedInduction, TLAPS

(* A map has whole objects, and views begin at one.                        *)
WholeObjects ==
    /\ \A f \in Files : FileSize[f] % ObjSize = 0
    /\ \A n \in SizeArgs \cup Offsets : n % ObjSize = 0

Table == [Fds -> Files \cup {NULL}]
MapImpls == [Impls -> [fd : Fds, file : Files, size : Nat] \cup {NULL}]
ViewRec == [map : Impls \cup {NULL}, area : Nat, msize : Nat]
Memory == [Pages -> [file : Files, page : Nat] \cup {NULL}]

-----------------------------------------------------------------------------
(* The parts of the inductive invariant, for base b, view v, impl m, fds t *)
(* and vm mem.                                                             *)

(* Every pointer to a map_impl is to one that lives, and maps whole        *)
(* objects.                                                                *)
Held(b, v, m) ==
    /\ \A x \in Bases : b[x] # NULL => m[b[x]] # NULL
    /\ \A x \in Views : v[x].map # NULL => m[v[x].map] # NULL
    /\ \A i \in Impls : m[i] # NULL => m[i].size % ObjSize = 0

(* An open descriptor is the program's or that of one map_impl.            *)
OneOwner(m, t, u) ==
    /\ \A i, j \in Impls : m[i] # NULL /\ m[j] # NULL /\ m[i].fd = m[j].fd => i = j
    /\ \A i \in Impls : m[i] # NULL => t[m[i].fd] = m[i].file /\ m[i].fd \notin u
    /\ \A d \in Fds : t[d] # NULL => d \in u \/ \E i \in Impls : m[i] # NULL /\ m[i].fd = d
    /\ \A d \in u : t[d] # NULL

SpanOf(w) == IF w.area = 0 THEN {} ELSE Span(w.area, w.msize * ObjSize)

(* The view w is intact, and all of its pages are pages.                   *)
Intact(w, mem, m) ==
    w.area # 0 =>
        /\ w.map # NULL /\ m[w.map] # NULL /\ w.msize > 0
        /\ SpanOf(w) \subseteq Pages
        /\ LET first == PageOf(w.area, PageSize)
               begin == mem[first].page * PageSize + PageOffset(w.area, PageSize)
           IN  /\ \A p \in SpanOf(w) :
                    mem[p] = [file |-> m[w.map].file, page |-> mem[first].page + p - first]
               /\ begin + w.msize * ObjSize <= m[w.map].size

AllIntact(v, mem, m) ==
    /\ \A x \in Views : Intact(v[x], mem, m)
    /\ \A x, y \in Views : x # y => SpanOf(v[x]) \cap SpanOf(v[y]) = {}
    /\ \A p \in Pages : mem[p] # NULL <=> \E x \in Views : p \in SpanOf(v[x])

Inv ==
    /\ TypeOK
    /\ Held(base, view, impl)
    /\ OneOwner(impl, fds, user)
    /\ AllIntact(view, vm, impl)

-----------------------------------------------------------------------------
(* Arithmetic of pages and of objects.                                     *)
LEMMA Minimum ==
    ASSUME NEW S, S \subseteq Nat, S # {}
    PROVE  \E m \in S : \A n \in S : m <= n
<1>1. PICK m \in S : \A n \in S : ~ (<<n, m>> \in OpToRel(<, Nat))
  BY NatLessThanWellFounded, WFMin
<1>2. \A n \in S : <<n, m>> \in OpToRel(<, Nat) <=> n < m
  BY DEF OpToRel
<1>3. \A n \in S : ~ (n < m)
  BY <1>1, <1>2, Zenon
<1>4. \A n \in S : m <= n
  BY <1>3, SMT
<1> QED
  BY <1>4

LEMMA LowestIsFree ==
    ASSUME NEW t \in Table, Free(t) # {}
    PROVE  Lowest(t) \in Fds /\ t[Lowest(t)] = NULL
<1>1. Free(t) \subseteq Nat
  BY MappingAssumption DEF Free
<1>2. \E d \in Free(t) : \A e \in Free(t) : d <= e
  BY <1>1, Minimum
<1>3. Lowest(t) \in Free(t)
  BY <1>2 DEF Lowest
<1> QED
  BY <1>3 DEF Free

LEMMA Pageful ==
    ASSUME NEW start \in Nat, NEW at \in Nat
    PROVE  LET r == PageOffset(at, PageSize) IN
           /\ r \in Nat /\ PageOf(at, PageSize) \in Nat
           /\ at = PageOf(at, PageSize) * PageSize + r
           /\ start * PageSize + r \in Nat
           /\ PageOf(start * PageSize + r, PageSize) = start
           /\ PageOffset(start * PageSize + r, PageSize) = r
<1> DEFINE r == at % PageSize
<1>1. r \in 0 .. PageSize - 1 /\ at \div PageSize \in Nat
  BY MappingAssumption
<1>2. at = ((at \div PageSize) * PageSize) + (at % PageSize)
  BY MappingAssumption
<1> HIDE DEF r
<1>3. ((start * PageSize) + r) \div PageSize = start /\ ((start * PageSize) + r) % PageSize = r
  BY <1>1, MappingAssumption, SMTT(40)
<1>4. (start * PageSize) + r \in Nat
  BY <1>1, MappingAssumption
<1> QED
  BY <1>1, <1>2, <1>3, <1>4 DEF PageOf, PageOffset, r

(* A view that is not empty has a first page.                              *)
LEMMA FirstPage ==
    ASSUME NEW area \in Nat, NEW bytes \in Nat, bytes > 0
    PROVE  /\ PageOf(area, PageSize) \in Span(area, bytes)
           /\ \A p \in Span(area, bytes) : p \in Nat /\ p >= PageOf(area, PageSize)
<1> DEFINE x == size_align(area, bytes, PageSize)
<1>1. PageOf(area, PageSize) \in Nat /\ PageOffset(area, PageSize) \in Nat
  BY Pageful
<1>2. x \in Nat /\ x > 0
  BY <1>1 DEF size_align
<1> HIDE DEF x
<1>3. (x + PageSize - 1) \div PageSize \in Nat /\ (x + PageSize - 1) \div PageSize >= 1
  BY <1>2, MappingAssumption
<1> QED
  BY <1>1, <1>3 DEF Span, PagesFor, x

(* What is mapped of a map is there, is not empty and has whole objects.   *)
LEMMA Bytes ==
    ASSUME NEW size \in Nat, NEW offset \in Offsets, NEW n \in Counts,
           WholeObjects, size % ObjSize = 0, InRange(size, offset, ObjSize)
    PROVE  LET bytes == ByteSize(size, offset, n * ObjSize) IN
           /\ bytes \in Nat /\ bytes > 0 /\ offset + bytes <= size
           /\ bytes \div ObjSize \in Nat /\ bytes \div ObjSize > 0
           /\ (bytes \div ObjSize) * ObjSize = bytes
<1> DEFINE all == n * ObjSize
           bytes == ByteSize(size, offset, all)
<1>1. offset \in Nat /\ n \in Nat /\ ObjSize \in Nat \ {0} /\ offset % ObjSize = 0
  BY MappingAssumption DEF WholeObjects
<1>2. all \in Nat /\ all % ObjSize = 0
  BY <1>1
<1>3. size - offset \in Nat /\ size - offset >= ObjSize
  BY <1>1 DEF InRange
<1>4. (size - offset) % ObjSize = 0
  <2> DEFINE k == size \div ObjSize
             j == offset \div ObjSize
  <2>1. size = (k * ObjSize) + (size % ObjSize) /\ k \in Nat
    BY <1>1
  <2>2. offset = (j * ObjSize) + (offset % ObjSize) /\ j \in Nat
    BY <1>1
  <2> HIDE DEF k, j
  <2>3. size - offset = (k - j) * ObjSize /\ k - j \in Int
    BY <1>1, <2>1, <2>2
  <2>4. ASSUME NEW x \in Int PROVE (x * ObjSize) % ObjSize = 0
    BY <1>1
  <2> QED
    BY <2>3, <2>4
<1> HIDE DEF all
<1>5. bytes \in Nat /\ bytes > 0 /\ bytes % ObjSize = 0 /\ offset + bytes <= size
  BY <1>1, <1>2, <1>3, <1>4 DEF ByteSize
<1> HIDE DEF bytes
<1>6. bytes = ((bytes \div ObjSize) * ObjSize) + (bytes % ObjSize)
  BY <1>1, <1>5
<1>7. bytes \div ObjSize \in Nat /\ (bytes \div ObjSize) * ObjSize = bytes
  BY <1>1, <1>5, <1>6
<1>8. bytes \div ObjSize # 0
  BY <1>1, <1>5, <1>7
<1> QED
  BY <1>5, <1>7, <1>8 DEF bytes, all

-----------------------------------------------------------------------------
(* The pages: what the steps on views keep.                                *)

LEMMA SpanInNat ==
    ASSUME NEW w \in ViewRec, w.area # 0, w.msize > 0
    PROVE  /\ PageOf(w.area, PageSize) \in SpanOf(w)
           /\ \A p \in SpanOf(w) : p \in Nat /\ p >= PageOf(w.area, PageSize)
<1>1. w.msize * ObjSize \in Nat /\ w.msize * ObjSize > 0
  BY MappingAssumption DEF ViewRec
<1> QED
  BY <1>1, FirstPage DEF SpanOf, ViewRec

(* A view only depends on its own pages and its own map_impl.              *)
LEMMA SameView ==
    ASSUME NEW w \in ViewRec, NEW mem, NEW mem2, NEW m, NEW m2, Intact(w, mem, m),
           \A p \in SpanOf(w) : mem2[p] = mem[p],
           w.map # NULL => m2[w.map] = m[w.map]
    PROVE  Intact(w, mem2, m2)
<1> SUFFICES ASSUME w.area # 0 PROVE Intact(w, mem2, m2)
  BY DEF Intact
<1>1. mem2[PageOf(w.area, PageSize)] = mem[PageOf(w.area, PageSize)]
  BY SpanInNat DEF Intact
<1> QED
  BY <1>1 DEF Intact

(* Holding on to map_impl objects is all that the pages ask of them.       *)
LEMMA SameImpls ==
    ASSUME NEW v \in [Views -> ViewRec], NEW mem, NEW m, NEW m2, AllIntact(v, mem, m),
           \A x \in Views : v[x].map # NULL => m2[v[x].map] = m[v[x].map]
    PROVE  AllIntact(v, mem, m2)
<1>1. \A x \in Views : Intact(v[x], mem, m2)
  BY SameView DEF AllIntact
<1> QED
  BY <1>1 DEF AllIntact

(* Unmapping takes the pages of one view, and no others.                   *)
LEMMA UnmapOne ==
    ASSUME NEW v \in [Views -> ViewRec], NEW mem \in Memory, NEW m, AllIntact(v, mem, m),
           NEW x \in Views, NEW w \in ViewRec, w.area = 0
    PROVE  /\ UnmapArea(mem, v[x]) \in Memory
           /\ AllIntact([v EXCEPT ![x] = w], UnmapArea(mem, v[x]), m)
<1> DEFINE mem2 == UnmapArea(mem, v[x])
           v2 == [v EXCEPT ![x] = w]
<1>1. \A p \in Pages : mem2[p] = IF p \in SpanOf(v[x]) THEN NULL ELSE mem[p]
  BY DEF UnmapArea, Munmap, SpanOf
<1>2. mem2 \in Memory
  BY DEF UnmapArea, Munmap, Memory
<1>3. SpanOf(w) = {}
  BY DEF SpanOf
<1>4. ASSUME NEW y \in Views PROVE Intact(v2[y], mem2, m)
  <2>1. CASE y = x
    BY <2>1 DEF Intact
  <2>2. CASE y # x
    <3>1. Intact(v[y], mem, m) /\ SpanOf(v[y]) \cap SpanOf(v[x]) = {} /\ v2[y] = v[y]
      BY <2>2 DEF AllIntact
    <3>2. SpanOf(v[y]) \subseteq Pages
      BY <3>1 DEF Intact, SpanOf
    <3>3. \A p \in SpanOf(v[y]) : mem2[p] = mem[p]
      BY <1>1, <3>1, <3>2
    <3> QED
      BY <3>1, <3>3, SameView
  <2> QED
    BY <2>1, <2>2
<1>5. \A y \in Views : SpanOf(v2[y]) = IF y = x THEN {} ELSE SpanOf(v[y])
  BY <1>3
<1> HIDE DEF mem2, v2
<1>6. \A y, z \in Views : y # z => SpanOf(v2[y]) \cap SpanOf(v2[z]) = {}
  BY <1>5 DEF AllIntact
<1>7. \A p \in Pages : mem2[p] # NULL <=> \E y \in Views : p \in SpanOf(v2[y])
  BY <1>1, <1>5 DEF AllIntact
<1> QED
  BY <1>2, <1>4, <1>6, <1>7 DEF AllIntact, mem2, v2

(* Moving hands the pages over.                                            *)
LEMMA MoveOne ==
    ASSUME NEW v \in [Views -> ViewRec], NEW mem, NEW m, AllIntact(v, mem, m),
           NEW x \in Views, NEW y \in Views, x # y, v[x].area = 0
    PROVE  AllIntact([v EXCEPT ![x] = v[y], ![y].area = 0], mem, m)
<1> DEFINE v2 == [v EXCEPT ![x] = v[y], ![y].area = 0]
<1>1. v2[x] = v[y] /\ v2[y].area = 0 /\ \A z \in Views \ {x, y} : v2[z] = v[z]
  BY DEF ViewRec
<1> HIDE DEF v2
<1>2. SpanOf(v2[x]) = SpanOf(v[y]) /\ SpanOf(v2[y]) = {} /\ SpanOf(v[x]) = {}
  BY <1>1 DEF SpanOf
<1>3. \A z \in Views \ {x, y} : SpanOf(v2[z]) = SpanOf(v[z])
  BY <1>1
<1>4. \A z \in Views : Intact(v2[z], mem, m)
  BY <1>1 DEF AllIntact, Intact
<1>5. \A z, u \in Views : z # u => SpanOf(v2[z]) \cap SpanOf(v2[u]) = {}
  BY <1>2, <1>3 DEF AllIntact
<1>6. \A p \in Pages : mem[p] # NULL <=> \E z \in Views : p \in SpanOf(v2[z])
  BY <1>2, <1>3 DEF AllIntact
<1> QED
  BY <1>4, <1>5, <1>6 DEF AllIntact, v2

(* Mapping takes pages that nobody has, and fills them from the file of    *)
(* the map.                                                                *)
LEMMA MapOne ==
    ASSUME TypeOK, Held(base, view, impl), OneOwner(impl, fds, user), WholeObjects,
           NEW v \in [Views -> ViewRec], NEW mem \in Memory, AllIntact(v, mem, impl),
           NEW x \in Views, v[x].area = 0,
           NEW w \in ViewRec, w.area = 0, w.map # NULL => impl[w.map] # NULL,
           NEW offset \in Offsets, NEW n \in Counts,
           NEW r \in Remapped(w, mem, offset, n)
    PROVE  /\ r.view \in ViewRec /\ r.view.map = w.map /\ r.vm \in Memory
           /\ AllIntact([v EXCEPT ![x] = r.view], r.vm, impl)
<1> DEFINE i == w.map
           bytes == ByteSize(impl[i].size, offset, n * ObjSize)
           area(start) == start * PageSize + PageOffset(offset, PageSize)
           file == impl[i].file
<1>1. i # NULL /\ i \in Impls /\ InRange(impl[i].size, offset, ObjSize)
  BY DEF Remapped, ViewRec
<1>2. /\ impl[i] \in [fd : Fds, file : Files, size : Nat] /\ impl[i].size % ObjSize = 0
      /\ fds[impl[i].fd] = file /\ file \in Files /\ impl[i].size \in Nat
  BY <1>1 DEF TypeOK, Held, OneOwner
<1>3. PICK start \in Pages :
        /\ \A q \in Span(area(start), bytes) : q \in Pages /\ mem[q] = NULL
        /\ r = [view |-> [w EXCEPT !.area = area(start), !.msize = bytes \div ObjSize],
                vm |-> MapPages(mem, fds[impl[i].fd], offset, bytes, start)]
  BY <1>1 DEF Remapped
<1>4. /\ bytes \in Nat /\ bytes > 0 /\ offset + bytes <= impl[i].size
      /\ bytes \div ObjSize \in Nat /\ bytes \div ObjSize > 0
      /\ (bytes \div ObjSize) * ObjSize = bytes
  BY <1>1, <1>2, Bytes
<1> DEFINE a == area(start)
           first == PageOf(offset, PageSize)
<1>5. /\ start \in Nat /\ start > 0 /\ offset \in Nat
      /\ a \in Nat /\ first \in Nat
      /\ PageOf(a, PageSize) = start /\ PageOffset(a, PageSize) = PageOffset(offset, PageSize)
      /\ offset = first * PageSize + PageOffset(offset, PageSize)
  <2>1. start \in Nat /\ start > 0 /\ offset \in Nat
    BY MappingAssumption
  <2> QED
    BY <2>1, Pageful
<1>6. a # 0
  <2>1. PageOf(0, PageSize) = 0
    BY MappingAssumption DEF PageOf
  <2> QED
    BY <1>5, <2>1
<1> DEFINE s == Span(a, bytes)
<1>7. start \in s /\ \A p \in s : p \in Nat /\ p >= start
  BY <1>4, <1>5, FirstPage
<1> HIDE DEF bytes
<1>8. /\ r.view \in ViewRec /\ r.view.map = i /\ r.view.area = a
      /\ r.view.msize = bytes \div ObjSize
  BY <1>3, <1>4, <1>5 DEF ViewRec
<1>9. \A p \in Pages : r.vm[p] = IF p \in s THEN [file |-> file, page |-> first + p - start]
                                ELSE mem[p]
  BY <1>2, <1>3 DEF MapPages
<1>10. r.vm \in Memory
  <2>1. r.vm = [p \in Pages |-> IF p \in s THEN [file |-> file, page |-> first + p - start]
                                ELSE mem[p]]
    BY <1>2, <1>3 DEF MapPages
  <2> QED
    BY <1>2, <1>5, <1>7, <2>1 DEF Memory
<1>11. SpanOf(r.view) = s /\ s \subseteq Pages /\ \A p \in s : mem[p] = NULL
  BY <1>3, <1>4, <1>6, <1>8 DEF SpanOf
<1> HIDE DEF a, s, first, file, area, i
<1>12. Intact(r.view, r.vm, impl)
  <2>1. r.vm[start] = [file |-> file, page |-> first]
    BY <1>5, <1>7, <1>9, <1>11
  <2>2. \A p \in s : r.vm[p] = [file |-> impl[r.view.map].file,
                               page |-> r.vm[start].page + p - start]
    BY <1>8, <1>9, <1>11, <2>1 DEF file
  <2>3. r.vm[start].page * PageSize + PageOffset(a, PageSize) = offset
    BY <1>5, <2>1
  <2>4. r.view.msize > 0 /\ r.view.msize * ObjSize = bytes
    BY <1>4, <1>8
  <2>5. r.view.map # NULL /\ impl[r.view.map] # NULL
    BY <1>1, <1>8 DEF i
  <2> QED
    BY <1>4, <1>5, <1>8, <1>11, <2>2, <2>3, <2>4, <2>5 DEF Intact
<1> DEFINE v2 == [v EXCEPT ![x] = r.view]
<1>13. v2[x] = r.view /\ \A y \in Views \ {x} : v2[y] = v[y]
  OBVIOUS
<1> HIDE DEF v2
<1>14. \A y \in Views \ {x} : SpanOf(v[y]) \cap s = {} /\ SpanOf(v[y]) \subseteq Pages
  BY <1>11 DEF AllIntact, Intact, SpanOf
<1>15. ASSUME NEW y \in Views PROVE Intact(v2[y], r.vm, impl)
  <2>1. CASE y = x
    BY <1>12, <1>13, <2>1
  <2>2. CASE y # x
    <3>1. \A p \in SpanOf(v[y]) : r.vm[p] = mem[p]
      BY <1>9, <1>14, <2>2
    <3>2. Intact(v[y], mem, impl) /\ v[y] \in ViewRec
      BY DEF AllIntact
    <3> QED
      BY <1>13, <2>2, <3>1, <3>2, SameView
  <2> QED
    BY <2>1, <2>2
<1>16. \A y, z \in Views : y # z => SpanOf(v2[y]) \cap SpanOf(v2[z]) = {}
  BY <1>11, <1>13, <1>14 DEF AllIntact
<1>17. \A p \in Pages : r.vm[p] # NULL <=> \E y \in Views : p \in SpanOf(v2[y])
  <2>1. SpanOf(v[x]) = {}
    BY DEF SpanOf
  <2>2. \A p \in s : r.vm[p] # NULL
    <3> SUFFICES ASSUME NEW p \in s PROVE r.vm[p] # NULL
      OBVIOUS
    <3>1. r.vm[p] = [file |-> file, page |-> first + p - start] /\ first + p - start \in Nat
      BY <1>5, <1>7, <1>9, <1>11
    <3>2. [file |-> file, page |-> first + p - start] \in [file : Files, page : Nat]
      BY <1>2, <3>1 DEF file
    <3> QED
      BY <3>1, <3>2, MappingAssumption
  <2>3. \A p \in Pages \ s : r.vm[p] = mem[p]
    BY <1>9
  <2> QED
    BY <1>11, <1>13, <2>1, <2>2, <2>3 DEF AllIntact
<1> QED
  BY <1>8, <1>10, <1>15, <1>16, <1>17 DEF AllIntact, v2, i

-----------------------------------------------------------------------------
(* The map_impl objects and their descriptors.                             *)

(* The deletion of what nobody holds.                                      *)
LEMMA AssignKeeps ==
    ASSUME NEW b \in [Bases -> Impls \cup {NULL}], NEW v \in [Views -> ViewRec],
           NEW m \in MapImpls, NEW t \in Table, NEW u \in SUBSET Fds,
           Held(b, v, m), OneOwner(m, t, u), Assign(b, v, m, t)
    PROVE  /\ base' = b /\ view' = v /\ impl' \in MapImpls /\ fds' \in Table
           /\ Held(base', view', impl') /\ OneOwner(impl', fds', u)
           /\ \A x \in Views : v[x].map # NULL => impl'[v[x].map] = m[v[x].map]
<1> DEFINE held == {b[x] : x \in Bases} \cup {v[x].map : x \in Views}
           dead == {i \in Impls : m[i] # NULL /\ i \notin held}
<1>1. /\ base' = b /\ view' = v
      /\ impl' = [i \in Impls |-> IF i \in dead THEN NULL ELSE m[i]]
      /\ fds' = [d \in Fds |-> IF \E i \in dead : m[i].fd = d THEN NULL ELSE t[d]]
  BY DEF Assign
<1>2. /\ \A x \in Bases : b[x] # NULL => b[x] \in Impls /\ b[x] \notin dead
      /\ \A x \in Views : v[x].map # NULL => v[x].map \in Impls /\ v[x].map \notin dead
  BY DEF ViewRec
<1>3. dead \subseteq Impls /\ \A i \in dead : m[i] # NULL
  OBVIOUS
<1> HIDE DEF dead, held
<1>4. \A i \in Impls : impl'[i] # NULL => m[i] # NULL /\ impl'[i] = m[i] /\ i \notin dead
  BY <1>1
<1>5. \A i \in Impls : i \notin dead => impl'[i] = m[i]
  BY <1>1
<1>6. impl' \in MapImpls /\ fds' \in Table
  BY <1>1 DEF MapImpls, Table
<1>7. Held(b, v, impl')
  <2>1. \A x \in Bases : b[x] # NULL => impl'[b[x]] # NULL
    BY <1>2, <1>5 DEF Held
  <2>2. \A x \in Views : v[x].map # NULL => impl'[v[x].map] # NULL
    BY <1>2, <1>5 DEF Held
  <2>3. \A i \in Impls : impl'[i] # NULL => impl'[i].size % ObjSize = 0
    BY <1>4 DEF Held
  <2> QED
    BY <2>1, <2>2, <2>3 DEF Held
<1>8. OneOwner(impl', fds', u)
  <2>1. \A i, j \in Impls :
          impl'[i] # NULL /\ impl'[j] # NULL /\ impl'[i].fd = impl'[j].fd => i = j
    BY <1>4 DEF OneOwner
  <2>2. ASSUME NEW i \in Impls, impl'[i] # NULL
        PROVE  fds'[impl'[i].fd] = impl'[i].file /\ impl'[i].fd \notin u
    <3>1. impl'[i] = m[i] /\ m[i] # NULL /\ i \notin dead /\ m[i].fd \in Fds
      BY <1>4, <2>2 DEF MapImpls
    <3>2. ~ \E j \in dead : m[j].fd = m[i].fd
      BY <1>3, <3>1 DEF OneOwner
    <3> QED
      BY <1>1, <3>1, <3>2 DEF OneOwner
  <2>3. ASSUME NEW d \in Fds, fds'[d] # NULL
        PROVE  d \in u \/ \E i \in Impls : impl'[i] # NULL /\ impl'[i].fd = d
    <3>1. t[d] # NULL /\ ~ \E i \in dead : m[i].fd = d
      BY <1>1, <2>3
    <3> QED
      BY <1>5, <3>1 DEF OneOwner
  <2>4. ASSUME NEW d \in u PROVE fds'[d] # NULL
    <3>1. t[d] # NULL /\ ~ \E i \in dead : m[i].fd = d
      BY <1>3 DEF OneOwner
    <3> QED
      BY <1>1, <3>1
  <2> QED
    BY <2>1, <2>2, <2>3, <2>4 DEF OneOwner
<1> QED
  BY <1>1, <1>2, <1>5, <1>6, <1>7, <1>8

(* TypeOK, by the names of this module.                                    *)
LEMMA Types ==
    TypeOK <=> /\ fds \in Table /\ user \in SUBSET Fds
               /\ base \in [Bases -> Impls \cup {NULL}] /\ impl \in MapImpls
               /\ view \in [Views -> ViewRec] /\ vm \in Memory
BY DEF TypeOK, Table, MapImpls, ViewRec, Memory

LEMMA NextTypes ==
    TypeOK' <=> /\ fds' \in Table /\ user' \in SUBSET Fds
                /\ base' \in [Bases -> Impls \cup {NULL}] /\ impl' \in MapImpls
                /\ view' \in [Views -> ViewRec] /\ vm' \in Memory
BY DEF TypeOK, Table, MapImpls, ViewRec, Memory

(* A step that changes who holds what, with the pages in order before      *)
(* anything is deleted.                                                    *)
LEMMA AssignStep ==
    ASSUME TypeOK, NEW b \in [Bases -> Impls \cup {NULL}], NEW v \in [Views -> ViewRec],
           NEW m \in MapImpls, NEW t \in Table, Held(b, v, m), OneOwner(m, t, user),
           Assign(b, v, m, t), user' = user, vm' \in Memory, AllIntact(v, vm', m)
    PROVE  Inv'
<1>1. user \in SUBSET Fds
  BY DEF TypeOK
<1>2. /\ base' = b /\ view' = v /\ impl' \in MapImpls /\ fds' \in Table
      /\ Held(base', view', impl') /\ OneOwner(impl', fds', user)
      /\ \A x \in Views : v[x].map # NULL => impl'[v[x].map] = m[v[x].map]
  BY <1>1, AssignKeeps
<1>3. TypeOK'
  BY <1>1, <1>2, NextTypes
<1>4. AllIntact(view', vm', impl')
  BY <1>2, SameImpls
<1> QED
  BY <1>2, <1>3, <1>4 DEF Inv

-----------------------------------------------------------------------------
(* The actions.                                                            *)

LEMMA UserOpenKeeps == ASSUME Inv, NEW f \in Files, UserOpen(f) PROVE Inv'
<1> DEFINE d == Lowest(fds)
<1>1. fds \in Table
  BY Types DEF Inv
<1>2. d \in Fds /\ fds[d] = NULL
  BY <1>1, LowestIsFree DEF UserOpen
<1>3. /\ fds' = [fds EXCEPT ![d] = f] /\ user' = user \cup {d}
      /\ UNCHANGED <<base, impl, view, vm>>
  BY DEF UserOpen, OpenAs
<1> HIDE DEF d
<1>4. TypeOK'
  BY <1>2, <1>3 DEF TypeOK, Inv
<1>5. OneOwner(impl', fds', user')
  <2>1. \A i \in Impls : impl[i] # NULL => impl[i].fd \in Fds /\ impl[i].file \in Files
    BY DEF Inv, TypeOK
  <2>2. \A i \in Impls : impl[i] # NULL => impl[i].fd # d
    BY <1>2, <2>1, MappingAssumption DEF Inv, OneOwner
  <2>3. /\ fds'[d] = f /\ f # NULL /\ impl' = impl
        /\ \A e \in Fds \ {d} : fds'[e] = fds[e]
    BY <1>1, <1>2, <1>3, MappingAssumption DEF Table
  <2>4. user \subseteq Fds
    BY DEF Inv, TypeOK
  <2> QED
    BY <1>3, <2>1, <2>2, <2>3, <2>4 DEF Inv, OneOwner
<1> QED
  BY <1>3, <1>4, <1>5 DEF Inv

LEMMA UserCloseKeeps == ASSUME Inv, NEW d \in user, UserClose(d) PROVE Inv'
<1>1. fds \in Table /\ d \in Fds /\ user \subseteq Fds
  BY Types DEF Inv
<1>2. /\ fds' = [fds EXCEPT ![d] = NULL] /\ user' = user \ {d}
      /\ UNCHANGED <<base, impl, view, vm>>
  BY DEF UserClose
<1>3. TypeOK'
  BY <1>1, <1>2 DEF TypeOK, Inv
<1>4. OneOwner(impl', fds', user')
  <2>1. /\ fds'[d] = NULL /\ impl' = impl /\ \A e \in Fds \ {d} : fds'[e] = fds[e]
    BY <1>1, <1>2 DEF Table
  <2>2. \A i \in Impls : impl[i] # NULL => impl[i].fd \in Fds /\ impl[i].fd # d
    BY DEF Inv, TypeOK, OneOwner
  <2> QED
    BY <1>1, <1>2, <2>1, <2>2 DEF Inv, OneOwner
<1> QED
  BY <1>2, <1>3, <1>4 DEF Inv

(* impl.reset (new map_impl (d, ...)): d is open on f, and was free.       *)
LEMMA SetImplKeeps ==
    ASSUME Inv, NEW b \in Bases, NEW i \in Impls, impl[i] = NULL, NEW d \in Fds,
           fds[d] = NULL, NEW f \in Files, NEW size \in SizeArgs, WholeObjects,
           SetImpl(b, i, d, f, size, [fds EXCEPT ![d] = f]), UNCHANGED <<user, vm>>
    PROVE  Inv'
<1> DEFINE new == [fd |-> d, file |-> f, size |-> IF size = 0 THEN FileSize[f] ELSE size]
           m == [impl EXCEPT ![i] = new]
           b2 == [base EXCEPT ![b] = i]
           t == [fds EXCEPT ![d] = f]
<1>1. /\ fds \in Table /\ user \in SUBSET Fds /\ base \in [Bases -> Impls \cup {NULL}]
      /\ impl \in MapImpls /\ view \in [Views -> ViewRec] /\ vm \in Memory
  BY Types DEF Inv
<1>2. new \in [fd : Fds, file : Files, size : Nat] /\ new.size % ObjSize = 0
  BY MappingAssumption DEF WholeObjects
<1>3. new # NULL /\ new.fd = d /\ new.file = f
  BY <1>2, MappingAssumption
<1> HIDE DEF new
<1>4. /\ b2 \in [Bases -> Impls \cup {NULL}] /\ m \in MapImpls /\ t \in Table
  BY <1>1, <1>2 DEF MapImpls, Table
<1>5. m[i] = new /\ \A j \in Impls \ {i} : m[j] = impl[j]
  BY <1>1 DEF MapImpls
<1>6. b2[b] = i /\ \A c \in Bases \ {b} : b2[c] = base[c]
  BY <1>1
<1>7. t[d] = f /\ \A e \in Fds \ {d} : t[e] = fds[e]
  BY <1>1 DEF Table
<1>8. Assign(b2, view, m, t)
  BY DEF SetImpl, new
<1> HIDE DEF m, b2, t
<1>9. \A x \in Views : view[x].map # i /\ (view[x].map # NULL => view[x].map \in Impls)
  BY <1>1, MappingAssumption DEF Inv, Held, ViewRec
<1>10. Held(b2, view, m)
  <2>1. \A x \in Bases : b2[x] # NULL => m[b2[x]] # NULL
    BY <1>1, <1>3, <1>5, <1>6 DEF Inv, Held
  <2>2. \A x \in Views : view[x].map # NULL => m[view[x].map] # NULL
    BY <1>5, <1>9 DEF Inv, Held
  <2>3. \A j \in Impls : m[j] # NULL => m[j].size % ObjSize = 0
    BY <1>2, <1>5 DEF Inv, Held
  <2> QED
    BY <2>1, <2>2, <2>3 DEF Held
<1>11. OneOwner(m, t, user)
  <2>1. \A j \in Impls : impl[j] # NULL => impl[j].fd \in Fds /\ impl[j].file \in Files
    BY <1>1 DEF MapImpls
  <2>2. \A j \in Impls : impl[j] # NULL => impl[j].fd # d
    BY <2>1, MappingAssumption DEF Inv, OneOwner
  <2>3. d \notin user
    BY DEF Inv, OneOwner
  <2>4. f # NULL
    BY MappingAssumption
  <2> QED
    BY <1>1, <1>3, <1>5, <1>7, <2>1, <2>2, <2>3, <2>4 DEF Inv, OneOwner
<1>12. AllIntact(view, vm, m)
  <2>1. \A x \in Views : view[x].map # NULL => m[view[x].map] = impl[view[x].map]
    BY <1>5, <1>9
  <2> QED
    BY <1>1, <2>1, SameImpls DEF Inv
<1> QED
  BY <1>1, <1>4, <1>8, <1>10, <1>11, <1>12, AssignStep DEF Inv

LEMMA OpenHandleKeeps ==
    ASSUME Inv, WholeObjects, NEW b \in Bases, NEW i \in Impls, NEW size \in SizeArgs,
           NEW d \in user, OpenHandle(b, i, d, size)
    PROVE  Inv'
<1>1. fds \in Table /\ d \in Fds /\ Free(fds) # {}
  BY Types DEF Inv, OpenHandle
<1>2. fds[d] \in Files
  BY <1>1 DEF Inv, OneOwner, Table
<1>3. Lowest(fds) \in Fds /\ fds[Lowest(fds)] = NULL
  BY <1>1, LowestIsFree
<1>4. /\ SetImpl(b, i, Lowest(fds), fds[d], size, [fds EXCEPT ![Lowest(fds)] = fds[d]])
      /\ impl[i] = NULL /\ UNCHANGED <<user, vm>>
  BY DEF OpenHandle, OpenAs
<1> QED
  BY <1>2, <1>3, <1>4, SetImplKeeps

(* The temporary descriptor leaves no trace.                               *)
LEMMA OpenNameKeeps ==
    ASSUME Inv, WholeObjects, NEW b \in Bases, NEW i \in Impls, NEW size \in SizeArgs,
           NEW f \in Files, OpenName(b, i, f, size)
    PROVE  Inv'
<1> DEFINE d == Lowest(fds)
           table == OpenAs(fds, f)
           e == Lowest(table)
<1>1. fds \in Table /\ Cardinality(Free(fds)) > 1
  BY Types DEF Inv, OpenName
<1>2. Free(fds) # {}
  BY <1>1, FS_EmptySet
<1>3. d \in Fds /\ fds[d] = NULL
  BY <1>1, <1>2, LowestIsFree
<1>4. Free(fds) # {d}
  BY <1>1, FS_Singleton
<1>5. table = [fds EXCEPT ![d] = f] /\ table \in Table
  BY <1>1, <1>3 DEF OpenAs, Table
<1>6. Free(table) # {}
  <2>1. PICK c \in Free(fds) : c # d
    BY <1>2, <1>4
  <2> QED
    BY <1>1, <1>5, <2>1 DEF Free, Table
<1>7. e \in Fds /\ table[e] = NULL
  BY <1>5, <1>6, LowestIsFree
<1>8. e # d /\ fds[e] = NULL
  BY <1>1, <1>3, <1>5, <1>7, MappingAssumption DEF Table
<1>9. /\ SetImpl(b, i, e, f, size, [OpenAs(table, f) EXCEPT ![d] = NULL])
      /\ impl[i] = NULL /\ UNCHANGED <<user, vm>>
  BY DEF OpenName
<1>10. [OpenAs(table, f) EXCEPT ![d] = NULL] = [fds EXCEPT ![e] = f]
  <2>1. OpenAs(table, f) = [table EXCEPT ![e] = f]
    BY DEF OpenAs
  <2> HIDE DEF e, d, table
  <2>2. [[table EXCEPT ![e] = f] EXCEPT ![d] = NULL] = [fds EXCEPT ![e] = f]
    BY <1>1, <1>3, <1>5, <1>7, <1>8 DEF Table
  <2> QED
    BY <2>1, <2>2
<1> HIDE DEF e
<1> QED
  BY <1>7, <1>8, <1>9, <1>10, SetImplKeeps

(* close() and the copying of maps.                                        *)
LEMMA BaseKeeps ==
    ASSUME Inv, NEW b \in Bases, NEW i \in Impls \cup {NULL}, i # NULL => impl[i] # NULL,
           Assign([base EXCEPT ![b] = i], view, impl, fds), UNCHANGED <<user, vm>>
    PROVE  Inv'
<1> DEFINE b2 == [base EXCEPT ![b] = i]
<1>1. /\ fds \in Table /\ user \in SUBSET Fds /\ base \in [Bases -> Impls \cup {NULL}]
      /\ impl \in MapImpls /\ view \in [Views -> ViewRec] /\ vm \in Memory
  BY Types DEF Inv
<1>2. b2 \in [Bases -> Impls \cup {NULL}]
  BY <1>1
<1>3. Held(b2, view, impl)
  BY <1>1 DEF Inv, Held
<1> HIDE DEF b2
<1> QED
  BY <1>1, <1>2, <1>3, AssignStep DEF Inv, b2

LEMMA CopyBaseKeeps == ASSUME Inv, NEW b \in Bases, NEW c \in Bases, CopyBase(b, c) PROVE Inv'
<1>1. base[c] \in Impls \cup {NULL} /\ (base[c] # NULL => impl[base[c]] # NULL)
  BY DEF Inv, TypeOK, Held
<1> QED
  BY <1>1, BaseKeeps DEF CopyBase

LEMMA CloseBaseKeeps == ASSUME Inv, NEW b \in Bases, CloseBase(b) PROVE Inv'
BY BaseKeeps DEF CloseBase

(* A step that leaves the maps alone, but for what nobody holds then.      *)
LEMMA ViewStep ==
    ASSUME Inv, NEW v \in [Views -> ViewRec],
           \A x \in Views : v[x].map # NULL => impl[v[x].map] # NULL,
           AssignView(v), user' = user, vm' \in Memory, AllIntact(v, vm', impl)
    PROVE  Inv'
<1>1. /\ fds \in Table /\ base \in [Bases -> Impls \cup {NULL}] /\ impl \in MapImpls
  BY Types DEF Inv
<1>2. Held(base, v, impl)
  BY DEF Inv, Held
<1> QED
  BY <1>1, <1>2, AssignStep DEF Inv, AssignView

LEMMA ConstructKeeps ==
    ASSUME Inv, WholeObjects, NEW v \in Views, NEW map \in Impls \cup {NULL},
           map # NULL => impl[map] # NULL, NEW offset \in Offsets, NEW n \in Counts,
           Construct(v, map, offset, n)
    PROVE  Inv'
<1> DEFINE w == [NoView EXCEPT !.map = map]
<1>1. w \in ViewRec /\ w.area = 0 /\ w.map = map
  BY DEF NoView, ViewRec
<1>2. view \in [Views -> ViewRec] /\ vm \in Memory /\ view[v].area = 0
  BY Types DEF Inv, Construct, NoView
<1>3. PICK r \in Remapped(w, vm, offset, n) : vm' = r.vm /\ AssignView([view EXCEPT ![v] = r.view])
  BY DEF Construct
<1> HIDE DEF w
<1> DEFINE v2 == [view EXCEPT ![v] = r.view]
<1>4. /\ r.view \in ViewRec /\ r.view.map = map /\ r.vm \in Memory
      /\ AllIntact(v2, r.vm, impl)
  <2>1. w.map # NULL => impl[w.map] # NULL
    BY <1>1
  <2>2. /\ r.view \in ViewRec /\ r.view.map = w.map /\ r.vm \in Memory
        /\ AllIntact([view EXCEPT ![v] = r.view], r.vm, impl)
    BY <1>1, <1>2, <2>1, MapOne DEF Inv
  <2> QED
    BY <1>1, <2>2
<1>5. v2 \in [Views -> ViewRec] /\ \A x \in Views : v2[x].map # NULL => impl[v2[x].map] # NULL
  BY <1>2, <1>4 DEF Inv, Held
<1>6. user' = user
  BY DEF Construct
<1> HIDE DEF v2
<1> QED
  BY <1>3, <1>4, <1>5, <1>6, ViewStep DEF v2

LEMMA MoveConstructKeeps ==
    ASSUME Inv, NEW v \in Views, NEW w \in Views, MoveConstruct(v, w)
    PROVE  Inv'
<1> DEFINE v2 == [view EXCEPT ![v] = view[w], ![w].area = 0]
<1>1. view \in [Views -> ViewRec] /\ vm \in Memory
  BY Types DEF Inv
<1>2. v # w /\ view[v].area = 0 /\ AssignView(v2) /\ user' = user /\ vm' = vm
  BY DEF MoveConstruct, NoView
<1>3. AllIntact(v2, vm, impl)
  BY <1>1, <1>2, MoveOne DEF Inv
<1>4. v2 \in [Views -> ViewRec] /\ \A x \in Views : v2[x].map # NULL => impl[v2[x].map] # NULL
  BY <1>1, <1>2 DEF Inv, Held, ViewRec
<1> HIDE DEF v2
<1> QED
  BY <1>1, <1>2, <1>3, <1>4, ViewStep

(* The area of v is unmapped, then that of w is taken over.                *)
LEMMA MoveAssignKeeps ==
    ASSUME Inv, ~SelfMove, NEW v \in Views, NEW w \in Views, MoveAssign(v, w)
    PROVE  Inv'
<1> DEFINE v1 == [view EXCEPT ![v].area = 0]
           v2 == [view EXCEPT ![v] = view[w], ![w].area = 0]
           mem == UnmapArea(vm, view[v])
<1>1. view \in [Views -> ViewRec] /\ vm \in Memory
  BY Types DEF Inv
<1>2. /\ v # w /\ AssignView(v2) /\ user' = user
      /\ vm' = IF view[v].area = view[w].area THEN vm ELSE mem
  BY DEF MoveAssign
<1>3. vm' = mem
  <2>1. CASE view[v].area = view[w].area
    <3>1. view[v].area = 0
      <4>1. SUFFICES ASSUME view[v].area # 0 PROVE FALSE
        OBVIOUS
      <4>2. PageOf(view[v].area, PageSize) \in SpanOf(view[v])
        BY <1>1, <4>1, SpanInNat DEF Inv, AllIntact, Intact
      <4>3. PageOf(view[v].area, PageSize) \in SpanOf(view[w])
        BY <1>1, <2>1, <4>1, SpanInNat DEF Inv, AllIntact, Intact
      <4> QED
        BY <1>2, <4>2, <4>3 DEF Inv, AllIntact
    <3> QED
      BY <1>2, <2>1, <3>1 DEF UnmapArea
  <2> QED
    BY <1>2, <2>1
<1>4. mem \in Memory /\ AllIntact(v1, mem, impl)
  <2>1. [view[v] EXCEPT !.area = 0] \in ViewRec /\ [view[v] EXCEPT !.area = 0].area = 0
    BY <1>1 DEF ViewRec
  <2>2. v1 = [view EXCEPT ![v] = [view[v] EXCEPT !.area = 0]]
    OBVIOUS
  <2> QED
    BY <1>1, <2>1, <2>2, UnmapOne DEF Inv
<1>5. v1 \in [Views -> ViewRec] /\ v1[v].area = 0
  BY <1>1 DEF ViewRec
<1>6. v2 = [v1 EXCEPT ![v] = v1[w], ![w].area = 0]
  BY <1>1, <1>2
<1>7. v2 \in [Views -> ViewRec] /\ \A x \in Views : v2[x].map # NULL => impl[v2[x].map] # NULL
  BY <1>1, <1>2 DEF Inv, Held, ViewRec
<1> HIDE DEF v1, v2, mem
<1>8. AllIntact(v2, mem, impl)
  BY <1>2, <1>4, <1>5, <1>6, MoveOne
<1> QED
  BY <1>2, <1>3, <1>4, <1>7, <1>8, ViewStep

(* The area of v goes, and v becomes w, with no area.                      *)
LEMMA UnmapKeeps ==
    ASSUME Inv, NEW v \in Views, NEW w \in ViewRec, w.area = 0,
           w.map # NULL => impl[w.map] # NULL,
           AssignView([view EXCEPT ![v] = w]), vm' = UnmapArea(vm, view[v]), user' = user
    PROVE  Inv'
<1> DEFINE v2 == [view EXCEPT ![v] = w]
<1>1. view \in [Views -> ViewRec] /\ vm \in Memory
  BY Types DEF Inv
<1>2. vm' \in Memory /\ AllIntact(v2, vm', impl)
  BY <1>1, UnmapOne DEF Inv
<1>3. v2 \in [Views -> ViewRec] /\ \A x \in Views : v2[x].map # NULL => impl[v2[x].map] # NULL
  BY <1>1 DEF Inv, Held
<1> HIDE DEF v2
<1> QED
  BY <1>2, <1>3, ViewStep DEF v2

LEMMA DestroyKeeps == ASSUME Inv, NEW v \in Views, Destroy(v) PROVE Inv'
<1>1. NoView \in ViewRec /\ NoView.area = 0 /\ NoView.map = NULL
  BY DEF NoView, ViewRec
<1> QED
  BY <1>1, UnmapKeeps DEF Destroy

LEMMA UnmapViewKeeps == ASSUME Inv, NEW v \in Views, Unmap(v) PROVE Inv'
<1> DEFINE w == [view[v] EXCEPT !.area = 0]
<1>1. w \in ViewRec /\ w.area = 0 /\ w.map = view[v].map
  BY DEF Inv, TypeOK, ViewRec
<1>2. /\ AssignView([view EXCEPT ![v] = w]) /\ vm' = UnmapArea(vm, view[v]) /\ user' = user
  BY DEF Unmap
<1>3. w.map # NULL => impl[w.map] # NULL
  BY <1>1 DEF Inv, Held
<1> HIDE DEF w
<1> QED
  BY <1>1, <1>2, <1>3, UnmapKeeps

LEMMA BindKeeps ==
    ASSUME Inv, NEW v \in Views, NEW map \in Impls \cup {NULL}, map # NULL => impl[map] # NULL,
           Bind(v, map)
    PROVE  Inv'
<1> DEFINE w == [view[v] EXCEPT !.map = map, !.area = 0]
<1>1. w \in ViewRec /\ w.area = 0 /\ w.map = map
  BY DEF Inv, TypeOK, ViewRec
<1>2. [view EXCEPT ![v].map = map, ![v].area = 0] = [view EXCEPT ![v] = w]
  BY DEF Inv, TypeOK
<1>3. /\ AssignView([view EXCEPT ![v] = w]) /\ vm' = UnmapArea(vm, view[v]) /\ user' = user
  BY <1>2 DEF Bind
<1> HIDE DEF w
<1> QED
  BY <1>1, <1>3, UnmapKeeps

LEMMA RemapKeeps ==
    ASSUME Inv, WholeObjects, NEW v \in Views, NEW map \in Impls \cup {NULL},
           map # NULL => impl[map] # NULL, NEW offset \in Offsets, NEW n \in Counts,
           Remap(v, map, offset, n)
    PROVE  Inv'
<1> DEFINE w == [view[v] EXCEPT !.map = map, !.area = 0]
           mem == UnmapArea(vm, view[v])
           v1 == [view EXCEPT ![v] = w]
<1>1. CASE Bind(v, map)
  BY <1>1, BindKeeps
<1>2. CASE /\ \E r \in Remapped(w, mem, offset, n) :
                vm' = r.vm /\ AssignView([view EXCEPT ![v] = r.view])
           /\ user' = user
  <2>1. PICK r \in Remapped(w, mem, offset, n) :
           vm' = r.vm /\ AssignView([view EXCEPT ![v] = r.view])
    BY <1>2
  <2>2. view \in [Views -> ViewRec] /\ vm \in Memory
    BY Types DEF Inv
  <2>3. w \in ViewRec /\ w.area = 0 /\ w.map = map
    BY <2>2 DEF ViewRec
  <2> HIDE DEF w
  <2>4. mem \in Memory /\ AllIntact(v1, mem, impl)
    BY <2>2, <2>3, UnmapOne DEF Inv
  <2>5. v1 \in [Views -> ViewRec] /\ v1[v].area = 0
    BY <2>2, <2>3
  <2> DEFINE v2 == [view EXCEPT ![v] = r.view]
  <2>6. v2 = [v1 EXCEPT ![v] = r.view]
    BY <2>2
  <2> HIDE DEF mem, v1
  <2>7. /\ r.view \in ViewRec /\ r.view.map = map /\ r.vm \in Memory
        /\ AllIntact(v2, r.vm, impl)
    <3>1. w.map # NULL => impl[w.map] # NULL
      BY <2>3
    <3>2. /\ r.view \in ViewRec /\ r.view.map = w.map /\ r.vm \in Memory
          /\ AllIntact([v1 EXCEPT ![v] = r.view], r.vm, impl)
      BY <2>3, <2>4, <2>5, <3>1, MapOne DEF Inv
    <3> QED
      BY <2>3, <2>6, <3>2
  <2>8. v2 \in [Views -> ViewRec] /\ \A x \in Views : v2[x].map # NULL => impl[v2[x].map] # NULL
    BY <2>2, <2>7 DEF Inv, Held
  <2> HIDE DEF v2
  <2> QED
    BY <1>2, <2>1, <2>7, <2>8, ViewStep DEF v2
<1> QED
  BY <1>1, <1>2 DEF Remap

-----------------------------------------------------------------------------
LEMMA InitialState == Init => Inv
<1> SUFFICES ASSUME Init PROVE Inv
  OBVIOUS
<1>1. TypeOK
  BY DEF Init, TypeOK, NoView
<1>2. Held(base, view, impl) /\ OneOwner(impl, fds, user)
  BY DEF Init, NoView, Held, OneOwner
<1>3. \A x \in Views : view[x].area = 0 /\ SpanOf(view[x]) = {}
  BY DEF Init, NoView, SpanOf
<1>4. AllIntact(view, vm, impl)
  BY <1>3 DEF Init, AllIntact, Intact
<1> QED
  BY <1>1, <1>2, <1>4 DEF Inv

LEMMA StepKeeps == ASSUME Inv, WholeObjects, ~SelfMove, [Next]_vars PROVE Inv'
<1>1. /\ \A b \in Bases : /\ base[b] \in Impls \cup {NULL}
                          /\ base[b] # NULL => impl[base[b]] # NULL
      /\ \A v \in Views : /\ view[v].map \in Impls \cup {NULL}
                          /\ view[v].map # NULL => impl[view[v].map] # NULL
  BY DEF Inv, TypeOK, Held
<1>2. CASE \E f \in Files : UserOpen(f)
  BY <1>2, UserOpenKeeps
<1>3. CASE \E d \in user : UserClose(d)
  BY <1>3, UserCloseKeeps
<1>4. CASE \E b \in Bases, i \in Impls, size \in SizeArgs :
             \/ \E d \in user : OpenHandle(b, i, d, size)
             \/ \E f \in Files : OpenName(b, i, f, size)
  BY <1>4, OpenHandleKeeps, OpenNameKeeps
<1>5. CASE (\E b \in Bases : CloseBase(b)) \/ \E b, c \in Bases : CopyBase(b, c)
  BY <1>5, CloseBaseKeeps, CopyBaseKeeps
<1>6. CASE \E v \in Views, b \in Bases, offset \in Offsets, n \in Counts :
             ViewOfBase(v, b, offset, n)
  BY <1>1, <1>6, ConstructKeeps DEF ViewOfBase
<1>7. CASE \E v, w \in Views, offset \in Offsets, n \in Counts : ViewOfView(v, w, offset, n)
  <2>1. PICK v, w \in Views, offset \in Offsets, n \in Counts :
           Construct(v, view[w].map, offset, n)
    BY <1>7 DEF ViewOfView
  <2>2. view[w].map \in Impls \cup {NULL} /\ (view[w].map # NULL => impl[view[w].map] # NULL)
    BY <1>1
  <2> QED
    BY <2>1, <2>2, ConstructKeeps
<1>8. CASE \E v, w \in Views : MoveConstruct(v, w) \/ MoveAssign(v, w)
  BY <1>8, MoveConstructKeeps, MoveAssignKeeps
<1>9. CASE \E v \in Views : Destroy(v) \/ Unmap(v)
  BY <1>9, DestroyKeeps, UnmapViewKeeps
<1>10. CASE \E v, w \in Views : Bind(v, view[w].map)
  <2>1. PICK v, w \in Views : Bind(v, view[w].map)
    BY <1>10
  <2>2. view[w].map \in Impls \cup {NULL} /\ (view[w].map # NULL => impl[view[w].map] # NULL)
    BY <1>1
  <2> QED
    BY <2>1, <2>2, BindKeeps
<1>11. CASE \E v \in Views, offset \in Offsets, n \in Counts :
              \/ Remap(v, view[v].map, offset, n)
              \/ \E b \in Bases : Remap(v, base[b], offset, n)
  <2>1. PICK v \in Views, offset \in Offsets, n \in Counts :
           \/ Remap(v, view[v].map, offset, n)
           \/ \E b \in Bases : Remap(v, base[b], offset, n)
    BY <1>11
  <2>2. PICK map \in Impls \cup {NULL} :
           (map # NULL => impl[map] # NULL) /\ Remap(v, map, offset, n)
    BY <1>1, <2>1
  <2> QED
    BY <2>2, RemapKeeps
<1>12. CASE UNCHANGED vars
  BY <1>12 DEF vars, Inv, TypeOK, Held, OneOwner, AllIntact, Intact
<1> QED
  BY <1>2, <1>3, <1>4, <1>5, <1>6, <1>7, <1>8, <1>9, <1>10, <1>11, <1>12 DEF Next

THEOREM MappingInvariant == ASSUME WholeObjects, ~SelfMove PROVE Spec => []Inv
<1>1. Inv /\ [Next]_vars => Inv'
  BY StepKeeps
<1> QED
  BY <1>1, InitialState, PTL DEF Spec

(* Views stay intact: remapping, unmapping, moving and closing of other    *)
(* views and maps, the program's own use of descriptors and the reuse of   *)
(* numbers and pages never take a byte of a view away, or exchange it.     *)
THEOREM ViewsStayIntact == ASSUME WholeObjects, ~SelfMove PROVE Spec => []ViewsIntact
<1>1. Inv => ViewsIntact
  <2> SUFFICES ASSUME Inv, NEW v \in Views, view[v].area # 0
               PROVE  /\ view[v].map # NULL /\ impl[view[v].map] # NULL
                      /\ LET m     == impl[view[v].map]
                             first == PageOf(view[v].area, PageSize)
                             begin == vm[first].page * PageSize
                                        + PageOffset(view[v].area, PageSize)
                         IN  /\ \A p \in ViewSpan(v) : vm[p] # NULL
                             /\ \A p \in ViewSpan(v) :
                                  vm[p] = [file |-> m.file, page |-> vm[first].page + p - first]
                             /\ begin + view[v].msize * ObjSize <= m.size
    BY DEF ViewsIntact
  <2>1. ViewSpan(v) = SpanOf(view[v])
    BY DEF ViewSpan, SpanOf
  <2>2. Intact(view[v], vm, impl)
    BY DEF Inv, AllIntact
  <2>3. \A p \in ViewSpan(v) : vm[p] # NULL
    BY <2>1, <2>2 DEF Inv, AllIntact, Intact
  <2> QED
    BY <2>1, <2>2, <2>3 DEF Intact
<1> QED
  BY <1>1, MappingInvariant, PTL

(* Every mapped page belongs to exactly one view, and no other page is     *)
(* mapped: address space does not leak, and is not given back twice.       *)
THEOREM PagesStayOwned == ASSUME WholeObjects, ~SelfMove PROVE Spec => []PagesOwned
<1>1. Inv => PagesOwned
  <2> SUFFICES ASSUME Inv, NEW p \in Pages
               PROVE  Cardinality({v \in Views : p \in ViewSpan(v)})
                        = IF vm[p] = NULL THEN 0 ELSE 1
    BY DEF Inv, PagesOwned
  <2> DEFINE owners == {v \in Views : p \in ViewSpan(v)}
  <2>1. \A v \in Views : ViewSpan(v) = SpanOf(view[v])
    BY DEF ViewSpan, SpanOf
  <2>2. vm[p] # NULL <=> \E v \in Views : p \in SpanOf(view[v])
    BY DEF Inv, AllIntact
  <2>3. \A v, w \in owners : v = w
    BY <2>1 DEF Inv, AllIntact
  <2>4. CASE vm[p] = NULL
    <3>1. owners = {}
      BY <2>1, <2>2, <2>4
    <3> QED
      BY <2>4, <3>1, FS_EmptySet
  <2>5. CASE vm[p] # NULL
    <3>1. PICK v \in Views : p \in SpanOf(view[v])
      BY <2>2, <2>5
    <3>2. owners = {v}
      BY <2>1, <2>3, <3>1
    <3> QED
      BY <2>5, <3>2, FS_Singleton
  <2> QED
    BY <2>4, <2>5
<1> QED
  BY <1>1, MappingInvariant, PTL

(* Every open descriptor belongs to the program or to exactly one map,     *)
(* whose descriptor stays open on its file.                                *)
THEOREM DescriptorsStayOwned ==
    ASSUME WholeObjects, ~SelfMove PROVE Spec => []DescriptorsOwned
<1>1. Inv => DescriptorsOwned
  <2> SUFFICES ASSUME Inv, NEW d \in Fds
               PROVE  LET owners == {i \in Impls : impl[i] # NULL /\ impl[i].fd = d}
                      IN  /\ \A i \in owners : fds[d] = impl[i].file
                          /\ Cardinality(owners) + Cardinality(user \cap {d}) =
                               IF fds[d] = NULL THEN 0 ELSE 1
    BY DEF DescriptorsOwned
  <2> DEFINE owners == {i \in Impls : impl[i] # NULL /\ impl[i].fd = d}
  <2>1. OneOwner(impl, fds, user)
    BY DEF Inv
  <2>2. \A i \in owners : fds[d] = impl[i].file /\ impl[i].file \in Files
    BY <2>1 DEF OneOwner, Inv, TypeOK
  <2>3. \A i, j \in owners : i = j
    BY <2>1 DEF OneOwner
  <2>4. CASE d \in user
    <3>1. owners = {} /\ user \cap {d} = {d} /\ fds[d] # NULL
      BY <2>1, <2>4 DEF OneOwner
    <3>2. Cardinality(owners) = 0 /\ Cardinality(user \cap {d}) = 1
      BY <3>1, FS_EmptySet, FS_Singleton
    <3> QED
      BY <2>2, <3>1, <3>2
  <2>5. CASE d \notin user /\ owners # {}
    <3>1. PICK i \in owners : owners = {i}
      BY <2>3, <2>5
    <3>2. user \cap {d} = {} /\ fds[d] # NULL
      BY <2>2, <2>5, <3>1, MappingAssumption
    <3>3. Cardinality(owners) = 1 /\ Cardinality(user \cap {d}) = 0
      BY <3>1, <3>2, FS_EmptySet, FS_Singleton
    <3> QED
      BY <2>2, <3>2, <3>3
  <2>6. CASE d \notin user /\ owners = {}
    <3>1. user \cap {d} = {} /\ fds[d] = NULL
      BY <2>1, <2>6 DEF OneOwner
    <3>2. Cardinality(owners) = 0 /\ Cardinality(user \cap {d}) = 0
      BY <2>6, <3>1, FS_EmptySet
    <3> QED
      BY <2>2, <3>1, <3>2
  <2> QED
    BY <2>4, <2>5, <2>6
<1> QED
  BY <1>1, MappingInvariant, PTL
=============================================================================
