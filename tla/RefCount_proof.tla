--------------------------- MODULE RefCount_proof ---------------------------
(***************************************************************************)
(* The safety of RefCount, for any number of threads, objects and pointer  *)
(* variables.                                                              *)
(*                                                                         *)
(* The inductive invariant is stated of four values (the pointers, the     *)
(* counters, the allocated objects and the calls in progress), so that a   *)
(* step is an implication between two instances of it.                     *)
(***************************************************************************)
EXTENDS RefCount, FiniteSetTheorems, SequenceTheorems, TLAPS

Pointers == [Slots -> Objects \cup {NULL}]
Counters == [Objects -> Nat]

(* The slots of p that hold o, and the members of a sequence.              *)
RefsOf(p, o) == {s \in Slots : p[s] = o}
SetOf(q) == {q[i] : i \in 1 .. Len(q)}
Distinct(q) == \A i, j \in 1 .. Len(q) : q[i] = q[j] => i = j

CountOK(p, rc, a) == \A o \in a : rc[o] = Cardinality(RefsOf(p, o))
Held(p, a) == \A s \in Slots : p[s] # NULL => p[s] \in a

LEMMA RefsFinite ==
    ASSUME NEW p \in Pointers, NEW o
    PROVE  IsFiniteSet(RefsOf(p, o)) /\ Cardinality(RefsOf(p, o)) \in Nat
<1>1. IsFiniteSet(Slots)
  BY SlotAssumption, FS_Union DEF Slots
<1>2. RefsOf(p, o) \in SUBSET Slots
  BY DEF RefsOf
<1>3. IsFiniteSet(RefsOf(p, o))
  BY <1>1, <1>2, FS_Subset
<1> QED
  BY <1>3, FS_CardinalityType

(* One pointer is cleared, as dispose() does.                              *)
Cleared(p, d) == [p EXCEPT ![d] = NULL]
Dropped(p, rc, d) == IF p[d] = NULL THEN rc ELSE [rc EXCEPT ![p[d]] = @ - 1]

LEMMA ClearedRefs ==
    ASSUME NEW p \in Pointers, NEW d \in Slots
    PROVE  /\ Cleared(p, d) \in Pointers /\ Cleared(p, d)[d] = NULL
           /\ \A s \in Slots : s # d => Cleared(p, d)[s] = p[s]
           /\ \A o \in Objects : RefsOf(Cleared(p, d), o) = RefsOf(p, o) \ {d}
           /\ \A o \in Objects : o # p[d] => RefsOf(Cleared(p, d), o) = RefsOf(p, o)
BY SlotAssumption DEF Cleared, Pointers, RefsOf

LEMMA DroppedCount ==
    ASSUME NEW p \in Pointers, NEW rc \in Counters, NEW a \in SUBSET Objects,
           CountOK(p, rc, a), Held(p, a), NEW d \in Slots
    PROVE  /\ Dropped(p, rc, d) \in Counters
           /\ CountOK(Cleared(p, d), Dropped(p, rc, d), a)
           /\ Held(Cleared(p, d), a)
           /\ p[d] # NULL => (rc[p[d]] = 1 <=> RefsOf(Cleared(p, d), p[d]) = {})
<1> DEFINE x == p[d]
           p1 == Cleared(p, d)
           rc1 == Dropped(p, rc, d)
<1>1. /\ p1 \in Pointers /\ p1[d] = NULL /\ \A s \in Slots : s # d => p1[s] = p[s]
      /\ \A o \in Objects : RefsOf(p1, o) = RefsOf(p, o) \ {d}
      /\ \A o \in Objects : o # x => RefsOf(p1, o) = RefsOf(p, o)
  BY ClearedRefs
<1>2. Held(p1, a)
  BY <1>1 DEF Held
<1>3. CASE x = NULL
  <2>1. rc1 = rc
    BY <1>3 DEF Dropped
  <2>2. \A o \in a : RefsOf(p1, o) = RefsOf(p, o)
    BY <1>1, <1>3, SlotAssumption
  <2> QED
    BY <1>2, <1>3, <2>1, <2>2 DEF CountOK
<1>4. CASE x # NULL
  <2>1. x \in a /\ x \in Objects /\ d \in RefsOf(p, x)
    BY <1>4 DEF Held, RefsOf
  <2>2. /\ IsFiniteSet(RefsOf(p, x)) /\ Cardinality(RefsOf(p, x)) \in Nat
        /\ Cardinality(RefsOf(p, x)) # 0
    BY <2>1, RefsFinite, FS_EmptySet
  <2>3. /\ IsFiniteSet(RefsOf(p1, x))
        /\ Cardinality(RefsOf(p1, x)) = Cardinality(RefsOf(p, x)) - 1
    BY <1>1, <2>1, <2>2, FS_RemoveElement
  <2>4. rc[x] = Cardinality(RefsOf(p, x)) /\ rc[x] - 1 \in Nat
    BY <2>1, <2>2 DEF CountOK
  <2>5. rc1 = [rc EXCEPT ![x] = rc[x] - 1]
    BY <1>4 DEF Dropped
  <2> HIDE DEF rc1, p1, x
  <2>6. /\ rc1 \in Counters /\ rc1[x] = rc[x] - 1
        /\ \A o \in Objects : o # x => rc1[o] = rc[o]
    BY <2>1, <2>4, <2>5 DEF Counters
  <2>7. CountOK(p1, rc1, a)
    BY <1>1, <2>3, <2>4, <2>6 DEF CountOK
  <2>8. rc[x] = 1 <=> Cardinality(RefsOf(p1, x)) = 0
    BY <2>2, <2>3, <2>4
  <2>9. Cardinality(RefsOf(p1, x)) = 0 <=> RefsOf(p1, x) = {}
    BY <2>3, FS_EmptySet
  <2> QED
    BY <1>2, <2>6, <2>7, <2>8, <2>9 DEF rc1, p1, x
<1> QED
  BY <1>3, <1>4

(* A pointer that holds nothing is set to an allocated object and counted. *)
Stored(p, d, x) == [p EXCEPT ![d] = x]
Counted(rc, x) == [rc EXCEPT ![x] = @ + 1]

LEMMA StoredRefs ==
    ASSUME NEW p \in Pointers, NEW d \in Slots, p[d] = NULL, NEW x \in Objects
    PROVE  /\ Stored(p, d, x) \in Pointers /\ Stored(p, d, x)[d] = x
           /\ \A s \in Slots : s # d => Stored(p, d, x)[s] = p[s]
           /\ RefsOf(Stored(p, d, x), x) = RefsOf(p, x) \cup {d}
           /\ \A o \in Objects : o # x => RefsOf(Stored(p, d, x), o) = RefsOf(p, o)
BY SlotAssumption DEF Stored, Pointers, RefsOf

LEMMA CountedCount ==
    ASSUME NEW p \in Pointers, NEW rc \in Counters, NEW a \in SUBSET Objects,
           CountOK(p, rc, a), Held(p, a),
           NEW d \in Slots, p[d] = NULL, NEW x \in a
    PROVE  /\ Counted(rc, x) \in Counters
           /\ CountOK(Stored(p, d, x), Counted(rc, x), a)
           /\ Held(Stored(p, d, x), a)
<1> DEFINE p1 == Stored(p, d, x)
           rc1 == Counted(rc, x)
<1>1. /\ p1 \in Pointers /\ p1[d] = x /\ \A s \in Slots : s # d => p1[s] = p[s]
      /\ RefsOf(p1, x) = RefsOf(p, x) \cup {d}
      /\ \A o \in Objects : o # x => RefsOf(p1, o) = RefsOf(p, o)
  BY StoredRefs
<1>2. d \notin RefsOf(p, x) /\ x \in Objects
  BY SlotAssumption DEF RefsOf
<1>3. /\ Cardinality(RefsOf(p, x)) \in Nat
      /\ Cardinality(RefsOf(p1, x)) = Cardinality(RefsOf(p, x)) + 1
  BY <1>1, <1>2, RefsFinite, FS_AddElement
<1>4. /\ rc1 \in Counters /\ rc1[x] = rc[x] + 1
      /\ \A o \in Objects : o # x => rc1[o] = rc[o]
  BY <1>2 DEF Counters, Counted
<1> HIDE DEF p1, rc1
<1>5. Held(p1, a)
  BY <1>1 DEF Held
<1>6. CountOK(p1, rc1, a)
  BY <1>1, <1>3, <1>4 DEF CountOK
<1> QED
  BY <1>4, <1>5, <1>6 DEF p1, rc1

(* Two pointers exchange their values.                                     *)
Exchanged(p, d, s) == [p EXCEPT ![d] = p[s], ![s] = p[d]]

LEMMA ExchangedRefs ==
    ASSUME NEW p \in Pointers, NEW d \in Slots, NEW s \in Slots, d # s
    PROVE  /\ Exchanged(p, d, s) \in Pointers
           /\ Exchanged(p, d, s)[d] = p[s] /\ Exchanged(p, d, s)[s] = p[d]
           /\ \A z \in Slots \ {d, s} : Exchanged(p, d, s)[z] = p[z]
           /\ \A o \in Objects :
                 Cardinality(RefsOf(Exchanged(p, d, s), o)) = Cardinality(RefsOf(p, o))
           /\ \A o \in Objects : RefsOf(p, o) = {} <=> RefsOf(Exchanged(p, d, s), o) = {}
<1> DEFINE p1 == Exchanged(p, d, s)
<1>1. /\ p1 \in Pointers /\ p1[d] = p[s] /\ p1[s] = p[d]
      /\ \A z \in Slots \ {d, s} : p1[z] = p[z]
  BY DEF Exchanged, Pointers
<1> HIDE DEF p1
<1>2. ASSUME NEW o \in Objects
      PROVE  Cardinality(RefsOf(p1, o)) = Cardinality(RefsOf(p, o))
  <2> DEFINE R == RefsOf(p, o)
  <2>1. IsFiniteSet(R) /\ Cardinality(R) \in Nat
    BY RefsFinite
  <2>2. CASE (p[d] = o) <=> (p[s] = o)
    <3>1. RefsOf(p1, o) = R
      BY <1>1, <2>2 DEF RefsOf
    <3> QED
      BY <3>1
  <2>3. CASE p[s] = o /\ p[d] # o
    <3>1. RefsOf(p1, o) = (R \ {s}) \cup {d} /\ s \in R /\ d \notin R \ {s}
      BY <1>1, <2>3 DEF RefsOf
    <3>2. IsFiniteSet(R \ {s}) /\ Cardinality(R \ {s}) = Cardinality(R) - 1
      BY <2>1, <3>1, FS_RemoveElement
    <3>3. Cardinality((R \ {s}) \cup {d}) = Cardinality(R \ {s}) + 1
      BY <3>1, <3>2, FS_AddElement
    <3> QED
      BY <2>1, <3>1, <3>2, <3>3
  <2>4. CASE p[d] = o /\ p[s] # o
    <3>1. RefsOf(p1, o) = (R \ {d}) \cup {s} /\ d \in R /\ s \notin R \ {d}
      BY <1>1, <2>4 DEF RefsOf
    <3>2. IsFiniteSet(R \ {d}) /\ Cardinality(R \ {d}) = Cardinality(R) - 1
      BY <2>1, <3>1, FS_RemoveElement
    <3>3. Cardinality((R \ {d}) \cup {s}) = Cardinality(R \ {d}) + 1
      BY <3>1, <3>2, FS_AddElement
    <3> QED
      BY <2>1, <3>1, <3>2, <3>3
  <2> QED
    BY <2>2, <2>3, <2>4
<1>3. ASSUME NEW o \in Objects
      PROVE  RefsOf(p, o) = {} <=> RefsOf(p1, o) = {}
  BY <1>1 DEF RefsOf
<1> QED
  BY <1>1, <1>2, <1>3 DEF p1

-----------------------------------------------------------------------------
(* The inductive invariant.  A call that was started with an argument      *)
(* reads its new value from a slot nobody may write meanwhile; an object   *)
(* that reset() was given fresh is known to that call only.                *)
WritesOf(k) == {k.dst} \cup (IF k.kind = "move" THEN {k.src} ELSE {})
Used(k) == {k.dst, k.src, k.via}
Fresh(k) == k.new # NULL /\ k.src = NULL

(* The slots of a call: while it runs *this holds nothing, and a member    *)
(* slot stays reachable through the variable it was named by.              *)
ShapeOK(p, k) ==
    /\ k.kind = "idle" => k = Idle
    /\ k.kind # "idle" => k.dst \in Slots /\ p[k.dst] = NULL
    /\ k.kind = "share" /\ k.src # NULL => p[k.src] = k.new
    /\ k.kind = "move" => k.src \in Slots
    /\ k.kind # "share" => k.new = NULL
    /\ k.dst \in Objects => k.via \in Vars /\ p[k.via] = k.dst
    /\ k.src \in Objects => k.via \in Vars /\ p[k.via] = k.src
    /\ k.dst # NULL => k.dst # k.src /\ k.dst # k.via
    /\ k.src # NULL => k.src # k.via

(* The objects of a call: what it will store is allocated, what it deletes *)
(* is allocated still and held by no pointer.                              *)
HoldOK(p, a, k) ==
    /\ k.new # NULL => k.new \in a
    /\ Fresh(k) => RefsOf(p, k.new) = {}
    /\ Distinct(k.dels)
    /\ \A o \in SetOf(k.dels) : o \in a /\ RefsOf(p, o) = {} /\ o # k.new

(* What call k1 of one thread owes to call k2 of another.                  *)
Compatible(k1, k2) ==
    /\ WritesOf(k1) \cap Used(k2) \subseteq {NULL}
    /\ SetOf(k1.dels) \cap SetOf(k2.dels) = {}
    /\ Fresh(k1) => k2.new # k1.new
    /\ k1.new \notin SetOf(k2.dels)

Core(p, rc, a, c) ==
    /\ p \in Pointers /\ rc \in Counters /\ a \in SUBSET Objects /\ c \in [Threads -> Ops]
    /\ CountOK(p, rc, a) /\ Held(p, a)
    /\ \A t \in Threads : ShapeOK(p, c[t]) /\ HoldOK(p, a, c[t])
    /\ \A t, u \in Threads : t # u => Compatible(c[t], c[u])

Known(c, o) == \E t \in Threads : c[t].new = o \/ o \in SetOf(c[t].dels)
Owned(p, a, c) == \A o \in a : RefsOf(p, o) = {} => Known(c, o)

Inv == Core(ptr, ref_count, alive, op) /\ Owned(ptr, alive, op)

-----------------------------------------------------------------------------
LEMMA SetOfSeq ==
    /\ SetOf(<<>>) = {} /\ Distinct(<<>>)
    /\ \A o : SetOf(<<o>>) = {o} /\ Distinct(<<o>>)
BY DEF SetOf, Distinct

LEMMA SetOfAppend ==
    ASSUME NEW S, NEW q \in Seq(S), NEW o \in S
    PROVE  /\ Append(q, o) \in Seq(S) /\ SetOf(Append(q, o)) = SetOf(q) \cup {o}
           /\ Distinct(q) /\ o \notin SetOf(q) => Distinct(Append(q, o))
<1> DEFINE r == Append(q, o)
<1>1. /\ r \in Seq(S) /\ Len(r) = Len(q) + 1 /\ Len(q) \in Nat /\ r[Len(q) + 1] = o
      /\ \A i \in 1 .. Len(q) : r[i] = q[i]
  OBVIOUS
<1> HIDE DEF r
<1>2. SetOf(r) = SetOf(q) \cup {o}
  BY <1>1 DEF SetOf
<1>3. Distinct(q) /\ o \notin SetOf(q) => Distinct(r)
  BY <1>1 DEF SetOf, Distinct
<1> QED
  BY <1>1, <1>2, <1>3 DEF r

LEMMA SetOfFront ==
    ASSUME NEW S, NEW q \in Seq(S), q # <<>>, Distinct(q)
    PROVE  LET r == SubSeq(q, 1, Len(q) - 1) IN
           /\ r \in Seq(S) /\ SetOf(r) = SetOf(q) \ {q[Len(q)]}
           /\ Distinct(r) /\ q[Len(q)] \in SetOf(q)
<1> DEFINE r == SubSeq(q, 1, Len(q) - 1)
<1>1. Len(q) \in Nat \ {0}
  BY EmptySeq
<1>2. /\ r \in Seq(S) /\ Len(r) = Len(q) - 1
      /\ \A i \in 1 .. Len(q) - 1 : r[i] = q[i]
  <2>1. \A i \in 1 .. Len(q) - 1 : q[i] \in S
    BY <1>1
  <2> DEFINE n == Len(q) - 1
  <2>2. n \in Nat
    BY <1>1
  <2> HIDE DEF n
  <2>3. /\ SubSeq(q, 1, n) \in Seq(S)
        /\ Len(SubSeq(q, 1, n)) = IF 1 <= n THEN n - 1 + 1 ELSE 0
        /\ \A i \in 1 .. n - 1 + 1 : SubSeq(q, 1, n)[i] = q[1 + i - 1]
    BY <2>1, <2>2, SubSeqProperties DEF n
  <2>4. Len(SubSeq(q, 1, n)) = n /\ \A i \in 1 .. n : SubSeq(q, 1, n)[i] = q[i]
    BY <2>2, <2>3
  <2> QED
    BY <2>3, <2>4 DEF n
<1> HIDE DEF r
<1>3. Distinct(r)
  BY <1>1, <1>2 DEF Distinct
<1>4. q[Len(q)] \in SetOf(q)
  BY <1>1 DEF SetOf
<1>5. SetOf(r) = SetOf(q) \ {q[Len(q)]}
  BY <1>1, <1>2 DEF SetOf, Distinct
<1> QED
  BY <1>2, <1>3, <1>4, <1>5 DEF r

LEMMA SetDelsFields ==
    ASSUME NEW k \in Ops, NEW q \in Seq(Objects)
    PROVE  /\ SetDels(k, q) \in Ops /\ SetDels(k, q).dels = q
           /\ SetDels(k, q).kind = k.kind /\ SetDels(k, q).dst = k.dst
           /\ SetDels(k, q).src = k.src /\ SetDels(k, q).via = k.via
           /\ SetDels(k, q).new = k.new
BY DEF SetDels, Ops

(* A call is not disturbed by what happens to the slots it does not use.   *)
LEMMA ShapeFrame ==
    ASSUME NEW k \in Ops, NEW p \in Pointers, NEW p1 \in Pointers, ShapeOK(p, k),
           \A s \in Used(k) \ {NULL} : p1[s] = p[s]
    PROVE  ShapeOK(p1, k)
<1>1. k.dst # NULL => p1[k.dst] = p[k.dst]
  BY DEF Used
<1>2. k.src # NULL => p1[k.src] = p[k.src]
  BY DEF Used
<1>3. k.via # NULL => p1[k.via] = p[k.via]
  BY DEF Used
<1>4. NULL \notin Slots /\ NULL \notin Vars
  BY SlotAssumption DEF Slots
<1> QED
  BY <1>1, <1>2, <1>3, <1>4 DEF ShapeOK

LEMMA HoldFrame ==
    ASSUME NEW k \in Ops, NEW p, NEW p1, NEW a, NEW a1, HoldOK(p, a, k), a \subseteq Objects,
           k.new # NULL => k.new \in a1, SetOf(k.dels) \subseteq a1,
           \A o \in Objects : RefsOf(p, o) = {} /\ (o = k.new \/ o \in SetOf(k.dels))
                                 => RefsOf(p1, o) = {}
    PROVE  HoldOK(p1, a1, k)
BY DEF HoldOK, Fresh

(* Thread t goes over to call k: what has to hold of the calls of the      *)
(* other threads, and which objects are known to a call afterwards.        *)
OthersOK(p, a, c, t) == \A u \in Threads \ {t} : ShapeOK(p, c[u]) /\ HoldOK(p, a, c[u])
OthersApart(c, t) == \A u, v \in Threads \ {t} : u # v => Compatible(c[u], c[v])
Joins(k, c, t) == \A u \in Threads \ {t} : Compatible(k, c[u]) /\ Compatible(c[u], k)
KnownAfter(c1, k, c, t) ==
    \A o : Known(c1, o) <=>
              \/ k.new = o \/ o \in SetOf(k.dels)
              \/ \E u \in Threads \ {t} : c[u].new = o \/ o \in SetOf(c[u].dels)

LEMMA CoreUpdate ==
    ASSUME NEW p \in Pointers, NEW rc \in Counters, NEW a \in SUBSET Objects,
           NEW c \in [Threads -> Ops], NEW t \in Threads, NEW k \in Ops,
           CountOK(p, rc, a), Held(p, a), ShapeOK(p, k), HoldOK(p, a, k),
           OthersOK(p, a, c, t), OthersApart(c, t), Joins(k, c, t)
    PROVE  /\ Core(p, rc, a, [c EXCEPT ![t] = k])
           /\ KnownAfter([c EXCEPT ![t] = k], k, c, t)
<1> DEFINE c1 == [c EXCEPT ![t] = k]
<1>1. c1 \in [Threads -> Ops] /\ c1[t] = k /\ \A u \in Threads \ {t} : c1[u] = c[u]
  OBVIOUS
<1> HIDE DEF c1
<1>2. \A u \in Threads : ShapeOK(p, c1[u]) /\ HoldOK(p, a, c1[u])
  BY <1>1 DEF OthersOK
<1>3. \A u, v \in Threads : u # v => Compatible(c1[u], c1[v])
  <2> SUFFICES ASSUME NEW u \in Threads, NEW v \in Threads, u # v
               PROVE  Compatible(c1[u], c1[v])
    OBVIOUS
  <2>1. CASE u = t
    BY <1>1, <2>1 DEF Joins
  <2>2. CASE v = t
    BY <1>1, <2>2 DEF Joins
  <2>3. CASE u # t /\ v # t
    BY <1>1, <2>3 DEF OthersApart
  <2> QED
    BY <2>1, <2>2, <2>3
<1>4. KnownAfter(c1, k, c, t)
  BY <1>1 DEF Known, KnownAfter
<1> QED
  BY <1>1, <1>2, <1>3, <1>4 DEF Core, c1

-----------------------------------------------------------------------------
(* The steps of a call, as functions of the state.                         *)
LEMMA IdleOK ==
    /\ Idle \in Ops /\ Idle.new = NULL /\ SetOf(Idle.dels) = {} /\ Idle.dels = <<>>
    /\ \A p, a : ShapeOK(p, Idle) /\ HoldOK(p, a, Idle)
    /\ \A k \in Ops : Compatible(Idle, k) /\ Compatible(k, Idle)
<1>1. /\ Idle.kind = "idle" /\ Idle.dst = NULL /\ Idle.src = NULL /\ Idle.via = NULL
      /\ Idle.new = NULL /\ Idle.dels = <<>> /\ SetOf(Idle.dels) = {} /\ Distinct(Idle.dels)
  BY SetOfSeq DEF Idle
<1>2. NULL \notin Objects
  BY SlotAssumption
<1>3. Idle \in Ops
  <2>1. <<>> \in Seq(Objects)
    BY EmptySeq
  <2> QED
    BY <2>1 DEF Idle, Ops
<1>4. ASSUME NEW k \in Ops
      PROVE  Compatible(Idle, k) /\ Compatible(k, Idle)
  <2>1. NULL \notin SetOf(k.dels)
    BY <1>2 DEF Ops, SetOf
  <2> QED
    BY <1>1, <2>1 DEF Compatible, WritesOf, Used, Fresh
<1>5. ASSUME NEW p, NEW a
      PROVE  ShapeOK(p, Idle) /\ HoldOK(p, a, Idle)
  BY <1>1, <1>2 DEF ShapeOK, HoldOK, Fresh
<1> QED
  BY <1>1, <1>3, <1>4, <1>5

LEMMA IdleUpdate ==
    ASSUME NEW p \in Pointers, NEW rc \in Counters, NEW a \in SUBSET Objects,
           NEW c \in [Threads -> Ops], NEW t \in Threads,
           CountOK(p, rc, a), Held(p, a), OthersOK(p, a, c, t), OthersApart(c, t)
    PROVE  /\ Core(p, rc, a, [c EXCEPT ![t] = Idle])
           /\ KnownAfter([c EXCEPT ![t] = Idle], Idle, c, t)
<1>1. Idle \in Ops /\ ShapeOK(p, Idle) /\ HoldOK(p, a, Idle)
  BY IdleOK
<1>2. Joins(Idle, c, t)
  BY IdleOK DEF Joins
<1> QED
  BY <1>1, <1>2, CoreUpdate, Zenon

(* A call ends that has nothing left to store or delete.                   *)
LEMMA EndCall ==
    ASSUME NEW p, NEW rc, NEW a, NEW c, Core(p, rc, a, c), Owned(p, a, c),
           NEW t \in Threads, c[t].new = NULL, c[t].dels = <<>>
    PROVE  /\ Core(p, rc, a, [c EXCEPT ![t] = Idle])
           /\ Owned(p, a, [c EXCEPT ![t] = Idle])
<1> DEFINE c1 == [c EXCEPT ![t] = Idle]
<1>1. /\ p \in Pointers /\ rc \in Counters /\ a \in SUBSET Objects /\ c \in [Threads -> Ops]
      /\ CountOK(p, rc, a) /\ Held(p, a)
      /\ \A u \in Threads : ShapeOK(p, c[u]) /\ HoldOK(p, a, c[u])
      /\ \A u, v \in Threads : u # v => Compatible(c[u], c[v])
      /\ OthersOK(p, a, c, t) /\ OthersApart(c, t)
  BY DEF Core, OthersOK, OthersApart
<1>2. /\ Core(p, rc, a, c1)
      /\ KnownAfter(c1, Idle, c, t)
  BY <1>1, IdleUpdate, Zenon
<1> HIDE DEF c1
<1>3. ASSUME NEW o \in a, Known(c, o)
      PROVE  Known(c1, o)
  <2>1. o # NULL
    BY <1>1, SlotAssumption
  <2> QED
    BY <1>2, <1>3, <2>1, SetOfSeq DEF Known, KnownAfter
<1> QED
  BY <1>2, <1>3 DEF Owned, c1

(* A call ends by storing x, which nobody deletes or is about to store     *)
(* alone, in a slot of its own.                                            *)
LEMMA StoreStep ==
    ASSUME NEW p, NEW rc, NEW a, NEW c, Core(p, rc, a, c), NEW t \in Threads,
           NEW d \in Slots, p[d] = NULL, NEW x \in a,
           c[t].dels = <<>>, c[t].new \in {NULL, x},
           \A u \in Threads \ {t} : /\ d \notin Used(c[u]) /\ x \notin SetOf(c[u].dels)
                                    /\ Fresh(c[u]) => c[u].new # x,
           \A o \in a : RefsOf(p, o) = {} => o = x \/ Known(c, o)
    PROVE  /\ Core(Stored(p, d, x), Counted(rc, x), a, [c EXCEPT ![t] = Idle])
           /\ Owned(Stored(p, d, x), a, [c EXCEPT ![t] = Idle])
<1> DEFINE c1 == [c EXCEPT ![t] = Idle]
           p1 == Stored(p, d, x)
           rc1 == Counted(rc, x)
<1>1. /\ p \in Pointers /\ rc \in Counters /\ a \in SUBSET Objects /\ c \in [Threads -> Ops]
      /\ CountOK(p, rc, a) /\ Held(p, a)
      /\ \A u \in Threads : ShapeOK(p, c[u]) /\ HoldOK(p, a, c[u])
      /\ \A u, v \in Threads : u # v => Compatible(c[u], c[v])
      /\ OthersOK(p, a, c, t) /\ OthersApart(c, t)
  BY DEF Core, OthersOK, OthersApart
<1>2. /\ p1 \in Pointers /\ p1[d] = x /\ \A s \in Slots : s # d => p1[s] = p[s]
      /\ RefsOf(p1, x) = RefsOf(p, x) \cup {d}
      /\ \A o \in Objects : o # x => RefsOf(p1, o) = RefsOf(p, o)
  BY <1>1, StoredRefs
<1>3. rc1 \in Counters /\ CountOK(p1, rc1, a) /\ Held(p1, a)
  BY <1>1, CountedCount
<1> HIDE DEF p1, rc1
<1>4. ASSUME NEW u \in Threads \ {t}
      PROVE  ShapeOK(p1, c[u]) /\ HoldOK(p1, a, c[u])
  <2>1. \A s \in Used(c[u]) \ {NULL} : p1[s] = p[s]
    BY <1>1, <1>2 DEF Used, Ops, Slots
  <2>2. ShapeOK(p1, c[u])
    BY <1>1, <1>2, <2>1, ShapeFrame
  <2>3. HoldOK(p1, a, c[u])
    BY <1>1, <1>2 DEF HoldOK, Fresh
  <2> QED
    BY <2>2, <2>3
<1>5. /\ Core(p1, rc1, a, c1)
      /\ KnownAfter(c1, Idle, c, t)
  <2>1. OthersOK(p1, a, c, t)
    BY <1>4 DEF OthersOK
  <2> QED
    BY <1>1, <1>2, <1>3, <2>1, IdleUpdate, Zenon
<1> HIDE DEF c1
<1>6. ASSUME NEW o \in a, RefsOf(p1, o) = {}
      PROVE  Known(c1, o)
  <2>1. o # x /\ RefsOf(p, o) = {} /\ o # NULL
    BY <1>1, <1>2, <1>6, SlotAssumption
  <2>2. Known(c, o)
    BY <2>1
  <2> QED
    BY <1>5, <2>1, <2>2, SetOfSeq DEF Known, KnownAfter
<1> QED
  BY <1>5, <1>6 DEF Owned, c1, p1, rc1

(* A call ends by exchanging two slots of its own.                         *)
LEMMA ExchangeStep ==
    ASSUME NEW p, NEW rc, NEW a, NEW c, Core(p, rc, a, c), Owned(p, a, c),
           NEW t \in Threads, NEW d \in Slots, NEW s \in Slots, d # s,
           c[t].new = NULL, c[t].dels = <<>>,
           \A u \in Threads \ {t} : d \notin Used(c[u]) /\ s \notin Used(c[u])
    PROVE  /\ Core(Exchanged(p, d, s), rc, a, [c EXCEPT ![t] = Idle])
           /\ Owned(Exchanged(p, d, s), a, [c EXCEPT ![t] = Idle])
<1> DEFINE c1 == [c EXCEPT ![t] = Idle]
           p1 == Exchanged(p, d, s)
<1>1. /\ p \in Pointers /\ rc \in Counters /\ a \in SUBSET Objects /\ c \in [Threads -> Ops]
      /\ CountOK(p, rc, a) /\ Held(p, a)
      /\ \A u \in Threads : ShapeOK(p, c[u]) /\ HoldOK(p, a, c[u])
      /\ \A u, v \in Threads : u # v => Compatible(c[u], c[v])
      /\ OthersOK(p, a, c, t) /\ OthersApart(c, t)
  BY DEF Core, OthersOK, OthersApart
<1>2. /\ p1 \in Pointers /\ p1[d] = p[s] /\ p1[s] = p[d]
      /\ \A z \in Slots \ {d, s} : p1[z] = p[z]
      /\ \A o \in Objects : Cardinality(RefsOf(p1, o)) = Cardinality(RefsOf(p, o))
      /\ \A o \in Objects : RefsOf(p, o) = {} <=> RefsOf(p1, o) = {}
  BY <1>1, ExchangedRefs
<1> HIDE DEF p1
<1>3. CountOK(p1, rc, a) /\ Held(p1, a)
  BY <1>1, <1>2 DEF CountOK, Held
<1>4. ASSUME NEW u \in Threads \ {t}
      PROVE  ShapeOK(p1, c[u]) /\ HoldOK(p1, a, c[u])
  <2>1. \A z \in Used(c[u]) \ {NULL} : p1[z] = p[z]
    BY <1>1, <1>2 DEF Used, Ops, Slots
  <2>2. ShapeOK(p1, c[u])
    BY <1>1, <1>2, <2>1, ShapeFrame
  <2>3. HoldOK(p1, a, c[u])
    BY <1>1, <1>2 DEF HoldOK, Fresh
  <2> QED
    BY <2>2, <2>3
<1>5. /\ Core(p1, rc, a, c1)
      /\ KnownAfter(c1, Idle, c, t)
  <2>1. OthersOK(p1, a, c, t)
    BY <1>4 DEF OthersOK
  <2> QED
    BY <1>1, <1>2, <1>3, <2>1, IdleUpdate, Zenon
<1> HIDE DEF c1
<1>6. ASSUME NEW o \in a, RefsOf(p1, o) = {}
      PROVE  Known(c1, o)
  <2>1. RefsOf(p, o) = {} /\ o # NULL
    BY <1>1, <1>2, <1>6, SlotAssumption
  <2>2. Known(c, o)
    BY <2>1 DEF Owned
  <2> QED
    BY <1>5, <2>1, <2>2, SetOfSeq DEF Known, KnownAfter
<1> QED
  BY <1>5, <1>6 DEF Owned, c1, p1

(* Memory from the allocator is unknown to every pointer and every call.   *)
LEMMA Allocate ==
    ASSUME NEW p, NEW rc, NEW a, NEW c, Core(p, rc, a, c), NEW o \in Objects \ a
    PROVE  /\ Core(p, [rc EXCEPT ![o] = 0], a \cup {o}, c)
           /\ RefsOf(p, o) = {}
           /\ \A u \in Threads : c[u].new # o /\ o \notin SetOf(c[u].dels)
<1> DEFINE rc1 == [rc EXCEPT ![o] = 0]
           a1 == a \cup {o}
<1>1. /\ p \in Pointers /\ rc \in Counters /\ a \in SUBSET Objects /\ c \in [Threads -> Ops]
      /\ CountOK(p, rc, a) /\ Held(p, a)
      /\ \A u \in Threads : ShapeOK(p, c[u]) /\ HoldOK(p, a, c[u])
      /\ \A u, v \in Threads : u # v => Compatible(c[u], c[v])
  BY DEF Core
<1>2. RefsOf(p, o) = {} /\ o # NULL
  BY <1>1, SlotAssumption DEF RefsOf, Held
<1>3. rc1 \in Counters /\ rc1[o] = 0 /\ \A x \in Objects : x # o => rc1[x] = rc[x]
  BY <1>1 DEF Counters
<1> HIDE DEF rc1
<1>4. CountOK(p, rc1, a1)
  BY <1>1, <1>2, <1>3, FS_EmptySet DEF CountOK
<1>5. Held(p, a1)
  BY <1>1 DEF Held
<1>6. \A u \in Threads : HoldOK(p, a1, c[u])
  BY <1>1 DEF HoldOK
<1>7. \A u \in Threads : c[u].new # o /\ o \notin SetOf(c[u].dels)
  BY <1>1, <1>2 DEF HoldOK
<1> QED
  BY <1>1, <1>2, <1>3, <1>4, <1>5, <1>6, <1>7 DEF Core, rc1

(* An object that only slot d holds is nobody's argument and not deleted.  *)
LEMMA Unheld ==
    ASSUME NEW p \in Pointers, NEW a \in SUBSET Objects, NEW k \in Ops,
           ShapeOK(p, k), HoldOK(p, a, k),
           NEW d \in Slots, p[d] # NULL, d \notin Used(k), RefsOf(Cleared(p, d), p[d]) = {}
    PROVE  k.new # p[d] /\ p[d] \notin SetOf(k.dels)
<1> DEFINE x == p[d]
<1>1. x \in Objects /\ RefsOf(p, x) # {}
  BY DEF Pointers, RefsOf
<1>2. \A s \in Slots : s # d => p[s] # x
  BY ClearedRefs DEF RefsOf
<1>3. x \notin SetOf(k.dels)
  BY <1>1 DEF HoldOK
<1>4. ASSUME k.new = x
      PROVE  FALSE
  <2>1. k.new # NULL /\ k.kind = "share"
    BY <1>4 DEF ShapeOK
  <2>2. k.src # NULL
    BY <1>1, <1>4, <2>1 DEF HoldOK, Fresh
  <2>3. p[k.src] = x /\ k.src \in Slots /\ k.src # d
    BY <1>4, <2>1, <2>2 DEF ShapeOK, Used, Ops
  <2> QED
    BY <1>2, <2>3
<1> QED
  BY <1>3, <1>4

(* What a call k on *this = d must fulfil when thread t begins it.         *)
Starts(p, a, c, t, d, k) ==
    /\ k.dst = d /\ k.kind # "idle" /\ ShapeOK(Cleared(p, d), k)
    /\ k.new # NULL => k.new \in a /\ k.new # p[d]
    /\ Fresh(k) => RefsOf(p, k.new) = {}
    /\ \A u \in Threads \ {t} :
          /\ d \notin Used(c[u])
          /\ WritesOf(k) \cap Used(c[u]) \subseteq {NULL}
          /\ WritesOf(c[u]) \cap Used(k) \subseteq {NULL}
          /\ Fresh(k) => c[u].new # k.new
          /\ Fresh(c[u]) => c[u].new # k.new
          /\ k.new \notin SetOf(c[u].dels)
    /\ \A o \in a : RefsOf(p, o) = {} => o = k.new \/ Known(c, o)

(* A call begins with dispose() of *this.                                  *)
LEMMA DisposeStep ==
    ASSUME NEW p, NEW rc, NEW a, NEW c, Core(p, rc, a, c), NEW t \in Threads, c[t] = Idle,
           NEW d \in Slots, NEW k \in Ops, Starts(p, a, c, t, d, k),
           NEW q, q = (IF p[d] # NULL /\ rc[p[d]] = 1 THEN <<p[d]>> ELSE <<>>)
    PROVE  /\ Core(Cleared(p, d), Dropped(p, rc, d), a, [c EXCEPT ![t] = SetDels(k, q)])
           /\ Owned(Cleared(p, d), a, [c EXCEPT ![t] = SetDels(k, q)])
<1> DEFINE x == p[d]
           p1 == Cleared(p, d)
           rc1 == Dropped(p, rc, d)
           k1 == SetDels(k, q)
           c1 == [c EXCEPT ![t] = k1]
<1> USE DEF Starts
<1>1. /\ p \in Pointers /\ rc \in Counters /\ a \in SUBSET Objects /\ c \in [Threads -> Ops]
      /\ CountOK(p, rc, a) /\ Held(p, a)
      /\ \A u \in Threads : ShapeOK(p, c[u]) /\ HoldOK(p, a, c[u])
      /\ OthersApart(c, t)
  BY DEF Core, OthersApart
<1>2. /\ p1 \in Pointers /\ p1[d] = NULL /\ \A s \in Slots : s # d => p1[s] = p[s]
      /\ \A o \in Objects : RefsOf(p1, o) = RefsOf(p, o) \ {d}
      /\ \A o \in Objects : o # x => RefsOf(p1, o) = RefsOf(p, o)
  BY <1>1, ClearedRefs
<1>3. /\ rc1 \in Counters /\ CountOK(p1, rc1, a) /\ Held(p1, a)
      /\ x # NULL => (rc[x] = 1 <=> RefsOf(p1, x) = {})
  BY <1>1, DroppedCount
<1>4. x # NULL => x \in a /\ x \in Objects
  BY <1>1 DEF Held
<1>5. \A u \in Threads \ {t} :
          x # NULL /\ RefsOf(p1, x) = {} => c[u].new # x /\ x \notin SetOf(c[u].dels)
  BY <1>1, Unheld
<1>6. /\ q \in Seq(Objects) /\ Distinct(q)
      /\ \A o \in SetOf(q) : o = x /\ o \in a /\ RefsOf(p1, o) = {}
      /\ x # NULL /\ RefsOf(p1, x) = {} => x \in SetOf(q)
  <2>1. CASE x # NULL /\ rc[x] = 1
    <3>1. q = <<x>> /\ SetOf(<<x>>) = {x} /\ Distinct(<<x>>)
      BY <2>1, SetOfSeq
    <3> QED
      BY <1>3, <1>4, <2>1, <3>1
  <2>2. CASE ~(x # NULL /\ rc[x] = 1)
    <3>1. q = <<>> /\ SetOf(<<>>) = {} /\ Distinct(<<>>) /\ <<>> \in Seq(Objects)
      BY <2>2, SetOfSeq, EmptySeq
    <3> QED
      BY <1>3, <2>2, <3>1
  <2> QED
    BY <2>1, <2>2
<1> HIDE DEF p1, rc1
<1>7. /\ k1 \in Ops /\ k1.dels = q /\ k1.kind = k.kind /\ k1.dst = k.dst
      /\ k1.src = k.src /\ k1.via = k.via /\ k1.new = k.new
  <2>1. k \in Ops /\ q \in Seq(Objects)
    BY <1>6
  <2> HIDE DEF k1
  <2>2. k1 = SetDels(k, q)
    BY DEF k1
  <2>3. /\ SetDels(k, q) \in Ops /\ SetDels(k, q).dels = q
        /\ SetDels(k, q).kind = k.kind /\ SetDels(k, q).dst = k.dst
        /\ SetDels(k, q).src = k.src /\ SetDels(k, q).via = k.via
        /\ SetDels(k, q).new = k.new
    BY <2>1, SetDelsFields, ZenonT(30)
  <2> QED
    BY <2>2, <2>3, Zenon
<1> HIDE DEF k1
<1>8. ShapeOK(p1, k1)
  BY <1>7 DEF ShapeOK, p1
<1>9. HoldOK(p1, a, k1)
  <2>1. Fresh(k1) => RefsOf(p1, k1.new) = {}
    BY <1>1, <1>2, <1>7 DEF Fresh
  <2>2. \A o \in SetOf(q) : o # k.new
    BY <1>1, <1>4, <1>6, SlotAssumption
  <2> QED
    BY <1>6, <1>7, <2>1, <2>2 DEF HoldOK
<1>10. OthersOK(p1, a, c, t)
  <2> SUFFICES ASSUME NEW u \in Threads \ {t}
               PROVE  ShapeOK(p1, c[u]) /\ HoldOK(p1, a, c[u])
    BY DEF OthersOK
  <2>1. \A s \in Used(c[u]) \ {NULL} : p1[s] = p[s]
    BY <1>1, <1>2 DEF Used, Ops, Slots
  <2>2. ShapeOK(p1, c[u])
    BY <1>1, <1>2, <2>1, ShapeFrame
  <2>3. \A o \in Objects : RefsOf(p, o) = {} => RefsOf(p1, o) = {}
    BY <1>2
  <2>4. HoldOK(p1, a, c[u])
    BY <1>1, <2>3 DEF HoldOK, Fresh
  <2> QED
    BY <2>2, <2>4
<1>11. Joins(k1, c, t)
  <2> SUFFICES ASSUME NEW u \in Threads \ {t}
               PROVE  Compatible(k1, c[u]) /\ Compatible(c[u], k1)
    BY DEF Joins
  <2>1. WritesOf(k1) = WritesOf(k) /\ Used(k1) = Used(k) /\ (Fresh(k1) <=> Fresh(k))
    BY <1>7 DEF WritesOf, Used, Fresh
  <2>2. SetOf(q) \cap SetOf(c[u].dels) = {} /\ c[u].new \notin SetOf(q)
    <3>1. \A o \in SetOf(q) : o # NULL
      BY <1>1, <1>6, SlotAssumption
    <3> QED
      BY <1>5, <1>6, <3>1
  <2> QED
    BY <1>7, <2>1, <2>2 DEF Compatible
<1>12. Core(p1, rc1, a, c1) /\ KnownAfter(c1, k1, c, t)
  BY <1>1, <1>2, <1>3, <1>7, <1>8, <1>9, <1>10, <1>11, CoreUpdate, Zenon
<1> HIDE DEF c1
<1>13. ASSUME NEW o \in a, RefsOf(p1, o) = {}
       PROVE  Known(c1, o)
  <2>1. CASE o = x
    BY <1>1, <1>6, <1>7, <1>12, <1>13, <2>1, SlotAssumption DEF KnownAfter
  <2>2. CASE o # x
    <3>1. RefsOf(p, o) = {} /\ o # NULL
      BY <1>1, <1>2, <1>13, <2>2, SlotAssumption
    <3>2. o = k.new \/ \E u \in Threads \ {t} : c[u].new = o \/ o \in SetOf(c[u].dels)
      BY <3>1, IdleOK DEF Known
    <3> QED
      BY <1>7, <1>12, <3>2 DEF KnownAfter
  <2> QED
    BY <2>1, <2>2
<1> QED
  BY <1>12, <1>13 DEF Owned, c1, k1, p1, rc1

(* The destructor of the object being deleted disposes of its member x.    *)
LEMMA MemberStep ==
    ASSUME NEW p, NEW rc, NEW a, NEW c, Core(p, rc, a, c), Owned(p, a, c),
           NEW t \in Threads, NEW d \in SetOf(c[t].dels), p[d] # NULL,
           NEW q, q = (IF rc[p[d]] = 1 THEN Append(c[t].dels, p[d]) ELSE c[t].dels)
    PROVE  /\ Core(Cleared(p, d), Dropped(p, rc, d), a, [c EXCEPT ![t] = SetDels(c[t], q)])
           /\ Owned(Cleared(p, d), a, [c EXCEPT ![t] = SetDels(c[t], q)])
<1> DEFINE x == p[d]
           p1 == Cleared(p, d)
           rc1 == Dropped(p, rc, d)
           k == c[t]
           k1 == SetDels(k, q)
           c1 == [c EXCEPT ![t] = k1]
<1>1. /\ p \in Pointers /\ rc \in Counters /\ a \in SUBSET Objects /\ c \in [Threads -> Ops]
      /\ CountOK(p, rc, a) /\ Held(p, a)
      /\ \A u \in Threads : ShapeOK(p, c[u]) /\ HoldOK(p, a, c[u]) /\ c[u] \in Ops
      /\ \A u, v \in Threads : u # v => Compatible(c[u], c[v])
      /\ OthersApart(c, t)
  BY DEF Core, OthersApart
<1>2. d \in Objects /\ d \in Slots /\ RefsOf(p, d) = {} /\ k \in Ops /\ k.dels \in Seq(Objects)
  BY <1>1 DEF HoldOK, Slots, Ops
<1>3. /\ p1 \in Pointers /\ p1[d] = NULL /\ \A s \in Slots : s # d => p1[s] = p[s]
      /\ \A o \in Objects : RefsOf(p1, o) = RefsOf(p, o) \ {d}
      /\ \A o \in Objects : o # x => RefsOf(p1, o) = RefsOf(p, o)
      /\ \A o \in Objects : RefsOf(p, o) = {} => RefsOf(p1, o) = {}
  BY <1>1, <1>2, ClearedRefs
<1>4. /\ rc1 \in Counters /\ CountOK(p1, rc1, a) /\ Held(p1, a)
      /\ rc[x] = 1 <=> RefsOf(p1, x) = {}
  BY <1>1, <1>2, DroppedCount
<1>5. x \in a /\ x \in Objects /\ RefsOf(p, x) # {}
  BY <1>1, <1>2 DEF Held, RefsOf
(* The member of an object that nothing points to is used by no call.      *)
<1>6. \A u \in Threads : d \notin Used(c[u])
  <2> SUFFICES ASSUME NEW u \in Threads, d \in Used(c[u])
               PROVE  FALSE
    OBVIOUS
  <2>1. c[u].via = d => FALSE
    BY <1>1, <1>2, SlotAssumption DEF Ops
  <2>2. c[u].via \in Vars /\ p[c[u].via] = d
    BY <1>1, <1>2, <2>1 DEF Used, ShapeOK
  <2> QED
    BY <1>2, <2>2 DEF RefsOf, Slots
<1>7. \A u \in Threads : RefsOf(p1, x) = {} => c[u].new # x /\ x \notin SetOf(c[u].dels)
  BY <1>1, <1>2, <1>6, Unheld
<1>8. /\ q \in Seq(Objects) /\ Distinct(q)
      /\ SetOf(q) = SetOf(k.dels) \cup (IF rc[x] = 1 THEN {x} ELSE {})
  <2>1. CASE rc[x] = 1
    <3>1. x \notin SetOf(k.dels) /\ Distinct(k.dels)
      BY <1>1, <1>4, <1>7, <2>1 DEF HoldOK
    <3> HIDE DEF x, k
    <3>2. /\ Append(k.dels, x) \in Seq(Objects)
          /\ SetOf(Append(k.dels, x)) = SetOf(k.dels) \cup {x}
          /\ Distinct(Append(k.dels, x))
      BY <1>2, <1>5, <3>1, SetOfAppend
    <3> QED
      BY <2>1, <3>2 DEF x, k
  <2>2. CASE rc[x] # 1
    <3>1. q = k.dels /\ Distinct(k.dels)
      BY <1>1, <2>2 DEF HoldOK
    <3> QED
      BY <1>2, <2>2, <3>1
  <2> QED
    BY <2>1, <2>2
<1> HIDE DEF p1, rc1
<1>9. /\ k1 \in Ops /\ k1.dels = q /\ k1.kind = k.kind /\ k1.dst = k.dst
      /\ k1.src = k.src /\ k1.via = k.via /\ k1.new = k.new
  BY <1>2, <1>8, SetDelsFields, ZenonT(30)
<1>10. ASSUME NEW u \in Threads
       PROVE  ShapeOK(p1, c[u]) /\ HoldOK(p1, a, c[u])
  <2>1. \A s \in Used(c[u]) \ {NULL} : p1[s] = p[s]
    BY <1>1, <1>3, <1>6 DEF Used, Ops, Slots
  <2>2. ShapeOK(p1, c[u])
    BY <1>1, <1>3, <2>1, ShapeFrame
  <2>3. HoldOK(p1, a, c[u])
    BY <1>1, <1>3 DEF HoldOK, Fresh
  <2> QED
    BY <2>2, <2>3
<1>11. Used(k) = {k.dst, k.src, k.via} /\ d \notin Used(k) /\ ShapeOK(p1, k) /\ HoldOK(p1, a, k)
  BY <1>6, <1>10 DEF Used
<1> HIDE DEF k, k1
<1>12. ShapeOK(p1, k1)
  <2>1. k.kind # "idle"
    <3>1. k.kind = "idle" => SetOf(k.dels) = {}
      BY <1>11, IdleOK DEF ShapeOK
    <3> QED
      BY <3>1 DEF k
  <2> QED
    BY <1>9, <1>11, <2>1 DEF ShapeOK
<1>13. HoldOK(p1, a, k1)
  <2>1. k.new # x \/ rc[x] # 1
    BY <1>4, <1>7 DEF k
  <2>2. Fresh(k1) <=> Fresh(k)
    BY <1>9 DEF Fresh
  <2> QED
    BY <1>4, <1>5, <1>8, <1>9, <1>11, <2>1, <2>2 DEF HoldOK
<1>14. OthersOK(p1, a, c, t)
  BY <1>10 DEF OthersOK
<1>15. Joins(k1, c, t)
  <2> SUFFICES ASSUME NEW u \in Threads \ {t}
               PROVE  Compatible(k1, c[u]) /\ Compatible(c[u], k1)
    BY DEF Joins
  <2>1. WritesOf(k1) = WritesOf(k) /\ Used(k1) = Used(k) /\ (Fresh(k1) <=> Fresh(k))
    BY <1>9 DEF WritesOf, Used, Fresh
  <2>2. Compatible(k, c[u]) /\ Compatible(c[u], k)
    BY <1>1 DEF k
  <2>3. rc[x] = 1 => c[u].new # x /\ x \notin SetOf(c[u].dels)
    BY <1>4, <1>7
  <2> HIDE DEF x
  <2> QED
    BY <1>8, <1>9, <2>1, <2>2, <2>3 DEF Compatible
<1>16. Core(p1, rc1, a, c1) /\ KnownAfter(c1, k1, c, t)
  BY <1>1, <1>3, <1>4, <1>9, <1>12, <1>13, <1>14, <1>15, CoreUpdate, Zenon
<1> HIDE DEF c1
<1>17. ASSUME NEW o \in a, RefsOf(p1, o) = {}
       PROVE  Known(c1, o)
  <2>1. CASE o = x
    BY <1>4, <1>8, <1>9, <1>16, <1>17, <2>1 DEF KnownAfter
  <2>2. CASE o # x
    <3>1. Known(c, o)
      BY <1>1, <1>3, <1>17, <2>2 DEF Owned
    <3> QED
      BY <1>8, <1>9, <1>16, <3>1 DEF Known, KnownAfter, k
  <2> QED
    BY <2>1, <2>2
<1> QED
  BY <1>16, <1>17 DEF Owned, c1, k1, k, p1, rc1

(* ... and the object is freed.                                            *)
LEMMA FreeStep ==
    ASSUME NEW p, NEW rc, NEW a, NEW c, Core(p, rc, a, c), Owned(p, a, c),
           NEW t \in Threads, c[t].dels # <<>>,
           NEW x, x = c[t].dels[Len(c[t].dels)],
           NEW q, q = SubSeq(c[t].dels, 1, Len(c[t].dels) - 1)
    PROVE  /\ Core(p, rc, a \ {x}, [c EXCEPT ![t] = SetDels(c[t], q)])
           /\ Owned(p, a \ {x}, [c EXCEPT ![t] = SetDels(c[t], q)])
<1> DEFINE a1 == a \ {x}
           k == c[t]
           k1 == SetDels(k, q)
           c1 == [c EXCEPT ![t] = k1]
<1>1. /\ p \in Pointers /\ rc \in Counters /\ a \in SUBSET Objects /\ c \in [Threads -> Ops]
      /\ CountOK(p, rc, a) /\ Held(p, a)
      /\ \A u \in Threads : ShapeOK(p, c[u]) /\ HoldOK(p, a, c[u]) /\ c[u] \in Ops
      /\ \A u, v \in Threads : u # v => Compatible(c[u], c[v])
      /\ OthersApart(c, t)
  BY DEF Core, OthersApart
<1>2. k \in Ops /\ k.dels \in Seq(Objects) /\ Distinct(k.dels) /\ ShapeOK(p, k) /\ HoldOK(p, a, k)
  BY <1>1 DEF HoldOK, Ops
<1>3. q \in Seq(Objects) /\ SetOf(q) = SetOf(k.dels) \ {x} /\ Distinct(q) /\ x \in SetOf(k.dels)
  BY <1>2, SetOfFront
<1>4. RefsOf(p, x) = {} /\ x # k.new
  BY <1>2, <1>3 DEF HoldOK
<1>5. /\ k1 \in Ops /\ k1.dels = q /\ k1.kind = k.kind /\ k1.dst = k.dst
      /\ k1.src = k.src /\ k1.via = k.via /\ k1.new = k.new
  BY <1>2, <1>3, SetDelsFields, Zenon
<1>6. a1 \in SUBSET Objects /\ CountOK(p, rc, a1)
  BY <1>1 DEF CountOK
<1>7. Held(p, a1)
  BY <1>1, <1>4 DEF Held, RefsOf
<1>8. \A u \in Threads \ {t} : Compatible(c[u], k) /\ Compatible(k, c[u])
  BY <1>1
<1> HIDE DEF k, k1
<1>9. OthersOK(p, a1, c, t)
  <2> SUFFICES ASSUME NEW u \in Threads \ {t}
               PROVE  HoldOK(p, a1, c[u])
    BY <1>1 DEF OthersOK
  <2>1. c[u].new # x /\ x \notin SetOf(c[u].dels)
    BY <1>3, <1>8 DEF Compatible
  <2> QED
    BY <1>1, <2>1 DEF HoldOK
<1>10. ShapeOK(p, k1)
  <2>1. k.kind # "idle"
    <3>1. k.kind = "idle" => SetOf(k.dels) = {}
      BY <1>2, IdleOK DEF ShapeOK
    <3> QED
      BY <1>3, <3>1
  <2> QED
    BY <1>2, <1>5, <2>1 DEF ShapeOK
<1>11. HoldOK(p, a1, k1)
  BY <1>2, <1>3, <1>4, <1>5 DEF HoldOK, Fresh
<1>12. Joins(k1, c, t)
  <2> SUFFICES ASSUME NEW u \in Threads \ {t}
               PROVE  Compatible(k1, c[u]) /\ Compatible(c[u], k1)
    BY DEF Joins
  <2>1. WritesOf(k1) = WritesOf(k) /\ Used(k1) = Used(k) /\ (Fresh(k1) <=> Fresh(k))
    BY <1>5 DEF WritesOf, Used, Fresh
  <2> QED
    BY <1>3, <1>5, <1>8, <2>1 DEF Compatible
<1>13. Core(p, rc, a1, c1) /\ KnownAfter(c1, k1, c, t)
  BY <1>1, <1>5, <1>6, <1>7, <1>9, <1>10, <1>11, <1>12, CoreUpdate, Zenon
<1> HIDE DEF c1
<1>14. ASSUME NEW o \in a1, RefsOf(p, o) = {}
       PROVE  Known(c1, o)
  <2>1. Known(c, o) /\ o # x
    BY <1>14 DEF Owned
  <2> QED
    BY <1>3, <1>5, <1>13, <2>1 DEF Known, KnownAfter, k
<1> QED
  BY <1>13, <1>14 DEF Owned, c1, k1, k

-----------------------------------------------------------------------------
(* The actions.                                                            *)
LEMMA IdleSame ==
    ASSUME NEW c \in [Threads -> Ops], NEW t \in Threads, NEW k, c[t] = k
    PROVE  [c EXCEPT ![t] = k] = c
OBVIOUS

LEMMA GuardFacts ==
    ASSUME NEW s
    PROVE  /\ Exclusive(s) => \A u \in Threads : s \notin Used(op[u]) /\ s \notin WritesOf(op[u])
           /\ Readable(s) => \A u \in Threads : s \notin WritesOf(op[u])
BY DEF Exclusive, Readable, Writes, Reads, Used, WritesOf

LEMMA CallFacts ==
    ASSUME NEW t, NEW d \in Slots, NEW s \in Slots, NEW v \in Vars \cup {NULL}, Calls(t, d, s, v)
    PROVE  /\ op[t] = Idle /\ d # s /\ v # d /\ v # s
           /\ d \in Objects => v \in Vars /\ ptr[v] = d
           /\ s \in Objects => v \in Vars /\ ptr[v] = s
           /\ v # NULL => Readable(v)
           /\ Exclusive(d) /\ Readable(s)
BY SlotAssumption DEF Calls, Names

IsCall(k, kind, d, s, v, o) ==
    k \in Ops /\ k.kind = kind /\ k.dst = d /\ k.src = s /\ k.via = v /\ k.new = o

LEMMA CallFields ==
    ASSUME NEW kind \in {"share", "move", "destroy"}, NEW d \in Slots,
           NEW s \in Slots \cup {NULL}, NEW v \in Vars \cup {NULL}, NEW o \in Objects \cup {NULL}
    PROVE  IsCall(Call(kind, d, s, v, o), kind, d, s, v, o)
<1>1. <<>> \in Seq(Objects)
  BY EmptySeq
<1> QED
  BY <1>1 DEF Call, Ops, IsCall

(* Every call that begins with dispose(), in a state with the counters rc  *)
(* and the objects a, which are the present ones or these and a new one.   *)
LEMMA BeginInv ==
    ASSUME NEW rc, NEW a, Core(ptr, rc, a, op), NEW t \in Threads, op[t] = Idle,
           NEW kind \in {"share", "move", "destroy"}, NEW d \in Slots, Exclusive(d),
           NEW s \in Slots \cup {NULL}, NEW v \in Vars \cup {NULL},
           NEW o \in Objects \cup {NULL},
           s # NULL => s # d /\ s # v /\ Readable(s),
           v # d, v # NULL => Readable(v),
           kind = "move" => s # NULL /\ Exclusive(s),
           kind = "share" /\ s # NULL => o = ptr[s],
           kind # "share" => o = NULL,
           d \in Objects => v \in Vars /\ ptr[v] = d,
           s \in Objects => v \in Vars /\ ptr[v] = s,
           o # NULL => o \in a /\ o # ptr[d],
           o # NULL /\ s = NULL =>
               /\ RefsOf(ptr, o) = {}
               /\ \A u \in Threads : op[u].new # o /\ o \notin SetOf(op[u].dels),
           \A x \in a : RefsOf(ptr, x) = {} => x = o \/ Known(op, x),
           ptr[d] # NULL => rc[ptr[d]] = ref_count[ptr[d]],
           Dispose(t, d, Call(kind, d, s, v, o), rc), alive' = a
    PROVE  Inv'
<1> DEFINE k == Call(kind, d, s, v, o)
           q == IF ptr[d] # NULL /\ rc[ptr[d]] = 1 THEN <<ptr[d]>> ELSE <<>>
<1>1. /\ k \in Ops /\ k.kind = kind /\ k.dst = d /\ k.src = s /\ k.via = v /\ k.new = o
  <2>1. IsCall(k, kind, d, s, v, o)
    BY CallFields, Zenon
  <2> HIDE DEF k
  <2> QED
    BY <2>1 DEF IsCall
<1>2. /\ ptr' = Cleared(ptr, d) /\ ref_count' = Dropped(ptr, rc, d)
      /\ op' = [op EXCEPT ![t] = SetDels(k, q)]
  BY DEF Dispose, Cleared, Dropped, LastDrop
<1> HIDE DEF k, q
<1>3. /\ ptr \in Pointers /\ a \in SUBSET Objects /\ op \in [Threads -> Ops]
      /\ \A u \in Threads : HoldOK(ptr, a, op[u])
  BY DEF Core
<1>4. d # NULL /\ NULL \notin Slots
  BY SlotAssumption DEF Slots
<1>5. ShapeOK(Cleared(ptr, d), k)
  <2>1. /\ Cleared(ptr, d)[d] = NULL
        /\ \A z \in Slots : z # d => Cleared(ptr, d)[z] = ptr[z]
    BY <1>3, ClearedRefs
  <2>2. Vars \subseteq Slots
    BY DEF Slots
  <2> QED
    BY <1>1, <1>4, <2>1, <2>2 DEF ShapeOK
<1>6. \A u \in Threads : d \notin Used(op[u]) /\ d \notin WritesOf(op[u])
  BY GuardFacts
<1>7. \A u \in Threads : /\ s # NULL => s \notin WritesOf(op[u])
                         /\ v # NULL => v \notin WritesOf(op[u])
                         /\ kind = "move" => s \notin Used(op[u])
  BY GuardFacts
<1>8. Fresh(k) => RefsOf(ptr, k.new) = {}
  BY <1>1 DEF Fresh
(* An object that a slot holds is not fresh and not being deleted.         *)
<1>9. o # NULL => \A u \in Threads : /\ Fresh(op[u]) => op[u].new # o
                                     /\ o \notin SetOf(op[u].dels)
  <2>1. CASE o # NULL /\ s = NULL
    BY <2>1
  <2>2. CASE o # NULL /\ s # NULL
    <3>1. RefsOf(ptr, o) # {}
      BY <2>2 DEF RefsOf
    <3> QED
      BY <1>3, <3>1 DEF HoldOK
  <2> QED
    BY <2>1, <2>2
<1>10. \A u \in Threads : o = NULL => o \notin SetOf(op[u].dels)
  BY <1>3, SlotAssumption DEF HoldOK
<1>11. \A u \in Threads \ {t} :
           /\ d \notin Used(op[u])
           /\ WritesOf(k) \cap Used(op[u]) \subseteq {NULL}
           /\ WritesOf(op[u]) \cap Used(k) \subseteq {NULL}
           /\ Fresh(k) => op[u].new # k.new
           /\ Fresh(op[u]) => op[u].new # k.new
           /\ k.new \notin SetOf(op[u].dels)
  <2> SUFFICES ASSUME NEW u \in Threads \ {t}
               PROVE  /\ WritesOf(k) \cap Used(op[u]) \subseteq {NULL}
                      /\ WritesOf(op[u]) \cap Used(k) \subseteq {NULL}
                      /\ Fresh(k) => op[u].new # k.new
                      /\ Fresh(op[u]) => op[u].new # k.new
                      /\ k.new \notin SetOf(op[u].dels)
    BY <1>6
  <2>1. WritesOf(k) = {d} \cup (IF kind = "move" THEN {s} ELSE {}) /\ Used(k) = {d, s, v}
    BY <1>1 DEF WritesOf, Used
  <2>2. WritesOf(k) \cap Used(op[u]) \subseteq {NULL}
    BY <1>6, <1>7, <2>1
  <2>3. WritesOf(op[u]) \cap Used(k) \subseteq {NULL}
    BY <1>6, <1>7, <2>1
  <2>4. Fresh(k) => op[u].new # k.new
    BY <1>1 DEF Fresh
  <2>5. Fresh(op[u]) => op[u].new # k.new
    BY <1>1, <1>9 DEF Fresh
  <2>6. k.new \notin SetOf(op[u].dels)
    BY <1>1, <1>9, <1>10
  <2> QED
    BY <2>2, <2>3, <2>4, <2>5, <2>6
<1>12. /\ k.kind # "idle" /\ (k.new # NULL => k.new \in a /\ k.new # ptr[d])
       /\ \A x \in a : RefsOf(ptr, x) = {} => x = k.new \/ Known(op, x)
  BY <1>1
<1>13. q = IF ptr[d] # NULL /\ rc[ptr[d]] = 1 THEN <<ptr[d]>> ELSE <<>>
  BY DEF q
<1>14. Starts(ptr, a, op, t, d, k)
  BY <1>1, <1>5, <1>8, <1>11, <1>12 DEF Starts
<1>15. /\ Core(Cleared(ptr, d), Dropped(ptr, rc, d), a, [op EXCEPT ![t] = SetDels(k, q)])
       /\ Owned(Cleared(ptr, d), a, [op EXCEPT ![t] = SetDels(k, q)])
  BY <1>1, <1>13, <1>14, DisposeStep, Zenon
<1> QED
  BY <1>2, <1>15 DEF Inv

LEMMA InvTypes ==
    ASSUME Inv
    PROVE  /\ Core(ptr, ref_count, alive, op) /\ Owned(ptr, alive, op)
           /\ ptr \in Pointers /\ ref_count \in Counters /\ alive \in SUBSET Objects
           /\ op \in [Threads -> Ops] /\ Held(ptr, alive) /\ CountOK(ptr, ref_count, alive)
           /\ \A u \in Threads : ShapeOK(ptr, op[u]) /\ HoldOK(ptr, alive, op[u])
           /\ \A u, w \in Threads : u # w => Compatible(op[u], op[w])
           /\ NULL \notin Objects /\ NULL \notin Slots /\ NULL \notin Vars
BY SlotAssumption DEF Inv, Core, Slots

LEMMA ConstructInv ==
    ASSUME Inv, NEW t \in Threads, NEW d \in Vars, NEW o \in Objects, Construct(t, d, o)
    PROVE  Inv'
<1> DEFINE rc == [ref_count EXCEPT ![o] = 0]
           a == alive \cup {o}
<1>1. /\ op[t] = Idle /\ ptr[d] = NULL /\ Exclusive(d) /\ o \in Objects \ alive
      /\ alive' = a /\ ref_count' = [ref_count EXCEPT ![o] = 1]
      /\ ptr' = Stored(ptr, d, o) /\ op' = op
  BY DEF Construct, Stored
<1>2. /\ Core(ptr, rc, a, op) /\ RefsOf(ptr, o) = {}
      /\ \A u \in Threads : op[u].new # o /\ o \notin SetOf(op[u].dels)
  BY <1>1, InvTypes, Allocate
<1>3. ref_count' = Counted(rc, o)
  BY <1>1, InvTypes DEF Counted, Counters
<1>4. \A x \in a : RefsOf(ptr, x) = {} => x = o \/ Known(op, x)
  BY InvTypes DEF Owned
<1>5. op' = [op EXCEPT ![t] = Idle]
  BY <1>1, InvTypes, IdleSame
<1>6. /\ op[t].dels = <<>> /\ op[t].new \in {NULL, o} /\ d \in Slots /\ o \in a
  BY <1>1, IdleOK DEF Slots
<1>7. \A u \in Threads \ {t} : /\ d \notin Used(op[u]) /\ o \notin SetOf(op[u].dels)
                               /\ Fresh(op[u]) => op[u].new # o
  BY <1>1, <1>2, GuardFacts
<1> HIDE DEF rc, a
<1>8. /\ Core(Stored(ptr, d, o), Counted(rc, o), a, [op EXCEPT ![t] = Idle])
      /\ Owned(Stored(ptr, d, o), a, [op EXCEPT ![t] = Idle])
  BY <1>1, <1>2, <1>4, <1>6, <1>7, StoreStep
<1> QED
  BY <1>1, <1>3, <1>5, <1>8 DEF Inv

LEMMA CopyInv ==
    ASSUME Inv, NEW t \in Threads, NEW d \in Slots, NEW s \in Slots, NEW v \in Vars \cup {NULL},
           CopyConstruct(t, d, s, v)
    PROVE  Inv'
<1> DEFINE x == ptr[s]
<1>1. /\ Calls(t, d, s, v) /\ ptr[d] = NULL /\ x # NULL /\ x \in alive
      /\ ptr' = Stored(ptr, d, x) /\ ref_count' = Counted(ref_count, x)
      /\ alive' = alive /\ op' = op
  BY InvTypes DEF CopyConstruct, Stored, Counted, Held
<1>2. op[t] = Idle /\ Exclusive(d) /\ x \in Objects /\ RefsOf(ptr, x) # {}
  BY <1>1, CallFacts, InvTypes DEF RefsOf
<1>3. op' = [op EXCEPT ![t] = Idle]
  BY <1>1, <1>2, InvTypes, IdleSame
<1>4. /\ op[t].dels = <<>> /\ op[t].new \in {NULL, x}
  BY <1>2, IdleOK
<1>5. \A u \in Threads \ {t} : /\ d \notin Used(op[u]) /\ x \notin SetOf(op[u].dels)
                               /\ Fresh(op[u]) => op[u].new # x
  BY <1>2, GuardFacts, InvTypes DEF HoldOK
<1>6. \A y \in alive : RefsOf(ptr, y) = {} => y = x \/ Known(op, y)
  BY InvTypes DEF Owned
<1> HIDE DEF x
<1>7. /\ Core(Stored(ptr, d, x), Counted(ref_count, x), alive, [op EXCEPT ![t] = Idle])
      /\ Owned(Stored(ptr, d, x), alive, [op EXCEPT ![t] = Idle])
  BY <1>1, <1>4, <1>5, <1>6, InvTypes, StoreStep
<1> QED
  BY <1>1, <1>3, <1>7 DEF Inv

(* Moving to an empty pointer and swapping exchange two values.            *)
LEMMA ExchangeInv ==
    ASSUME Inv, NEW t \in Threads, NEW d \in Slots, NEW s \in Slots, NEW v \in Vars \cup {NULL},
           MoveConstruct(t, d, s, v) \/ Swap(t, d, s, v)
    PROVE  Inv'
<1>1. /\ Calls(t, d, s, v) /\ Exclusive(s) /\ ref_count' = ref_count
      /\ alive' = alive /\ op' = op /\ ptr' = Exchanged(ptr, d, s)
  BY DEF MoveConstruct, Swap, Exchanged
<1>2. op[t] = Idle /\ d # s /\ Exclusive(d)
  BY <1>1, CallFacts, ZenonT(30)
<1>3. op' = [op EXCEPT ![t] = Idle]
  BY <1>1, <1>2, InvTypes, IdleSame
<1>4. op[t].new = NULL /\ op[t].dels = <<>>
  BY <1>2, IdleOK
<1>5. \A u \in Threads \ {t} : d \notin Used(op[u]) /\ s \notin Used(op[u])
  BY <1>1, <1>2, GuardFacts
<1>6. /\ Core(Exchanged(ptr, d, s), ref_count, alive, [op EXCEPT ![t] = Idle])
      /\ Owned(Exchanged(ptr, d, s), alive, [op EXCEPT ![t] = Idle])
  BY <1>2, <1>4, <1>5, InvTypes, ExchangeStep
<1> QED
  BY <1>1, <1>3, <1>6 DEF Inv

LEMMA AssignInv ==
    ASSUME Inv, NEW t \in Threads, NEW d \in Slots, NEW s \in Slots, NEW v \in Vars \cup {NULL},
           Share(t, d, s, v) \/ MoveAssign(t, d, s, v)
    PROVE  Inv'
<1>1. Calls(t, d, s, v) /\ ptr[d] # ptr[s] /\ alive' = alive
  BY DEF Share, MoveAssign
<1>2. /\ op[t] = Idle /\ d # s /\ v # d /\ v # s
      /\ d \in Objects => v \in Vars /\ ptr[v] = d
      /\ s \in Objects => v \in Vars /\ ptr[v] = s
      /\ v # NULL => Readable(v)
      /\ Exclusive(d) /\ Readable(s)
  BY <1>1, CallFacts
<1>3. \A o : \A x \in alive : RefsOf(ptr, x) = {} => x = o \/ Known(op, x)
  BY InvTypes DEF Owned
<1>4. CASE Share(t, d, s, v)
  <2> DEFINE o == ptr[s]
  <2>1. Dispose(t, d, Call("share", d, s, v, o), ref_count)
    BY <1>4 DEF Share
  <2>2. o \in Objects \cup {NULL} /\ (o # NULL => o \in alive /\ o # ptr[d]) /\ s # NULL
    BY <1>1, InvTypes DEF Pointers, Held
  <2>3. o = ptr[s]
    OBVIOUS
  <2> HIDE DEF o
  <2> QED
    BY <1>1, <1>2, <1>3, <2>1, <2>2, <2>3, InvTypes, BeginInv, ZenonT(30)
<1>5. CASE MoveAssign(t, d, s, v)
  <2>1. Dispose(t, d, Call("move", d, s, v, NULL), ref_count) /\ Exclusive(s) /\ s # NULL
    BY <1>5, InvTypes DEF MoveAssign
  <2> QED
    BY <1>1, <1>2, <1>3, <2>1, InvTypes, BeginInv, ZenonT(30)
<1> QED
  BY <1>4, <1>5

LEMMA DropInv ==
    ASSUME Inv, NEW t \in Threads,
           \/ \E d \in Vars : Destroy(t, d)
           \/ \E d \in Slots, v \in Vars \cup {NULL} : ResetToNull(t, d, v)
    PROVE  Inv'
<1>1. \A o : \A x \in alive : RefsOf(ptr, x) = {} => x = o \/ Known(op, x)
  BY InvTypes DEF Owned
<1>2. ASSUME NEW d \in Vars, Destroy(t, d)
      PROVE  Inv'
  <2>1. /\ op[t] = Idle /\ Exclusive(d) /\ alive' = alive
        /\ Dispose(t, d, Call("destroy", d, NULL, NULL, NULL), ref_count)
        /\ d \in Slots /\ d \notin Objects /\ d # NULL
    BY <1>2, SlotAssumption DEF Destroy, Slots
  <2> QED
    BY <1>1, <2>1, InvTypes, BeginInv, ZenonT(30)
<1>3. ASSUME NEW d \in Slots, NEW v \in Vars \cup {NULL}, ResetToNull(t, d, v)
      PROVE  Inv'
  <2>1. /\ op[t] = Idle /\ Exclusive(d) /\ alive' = alive /\ v # d
        /\ d \in Objects => v \in Vars /\ ptr[v] = d
        /\ v # NULL => Readable(v)
        /\ Dispose(t, d, Call("share", d, NULL, v, NULL), ref_count)
    BY <1>3, SlotAssumption DEF ResetToNull, Names
  <2> QED
    <3>1. /\ Core(ptr, ref_count, alive, op) /\ NULL \notin Objects /\ d # NULL
          /\ NULL \in Slots \cup {NULL} /\ NULL \in Objects \cup {NULL}
      BY InvTypes
    <3>2. \A x \in alive : RefsOf(ptr, x) = {} => x = NULL \/ Known(op, x)
      BY <1>1
    <3> QED
      BY <2>1, <3>1, <3>2, BeginInv
<1> QED
  BY <1>2, <1>3

LEMMA ResetToNewInv ==
    ASSUME Inv, NEW t \in Threads, NEW d \in Vars, NEW o \in Objects, ResetToNew(t, d, o)
    PROVE  Inv'
<1> DEFINE rc == [ref_count EXCEPT ![o] = 0]
           a == alive \cup {o}
<1>1. /\ op[t] = Idle /\ Exclusive(d) /\ o \in Objects \ alive /\ alive' = a
      /\ Dispose(t, d, Call("share", d, NULL, NULL, o), rc)
      /\ d \in Slots /\ d \notin Objects /\ d # NULL
  BY SlotAssumption DEF ResetToNew, Slots
<1>2. /\ Core(ptr, rc, a, op) /\ RefsOf(ptr, o) = {}
      /\ \A u \in Threads : op[u].new # o /\ o \notin SetOf(op[u].dels)
  BY <1>1, InvTypes, Allocate
<1>3. \A x \in a : RefsOf(ptr, x) = {} => x = o \/ Known(op, x)
  BY InvTypes DEF Owned
<1>4. o \in a /\ o # ptr[d] /\ (ptr[d] # NULL => rc[ptr[d]] = ref_count[ptr[d]])
  BY <1>1, InvTypes DEF Held, Counters
<1> HIDE DEF rc, a
<1> QED
  BY <1>1, <1>2, <1>3, <1>4, InvTypes, BeginInv

LEMMA SetDelsSame ==
    ASSUME NEW k \in Ops
    PROVE  SetDels(k, k.dels) = k
BY DEF SetDels, Ops

LEMMA DeleteInv ==
    ASSUME Inv, NEW t \in Threads, DeleteMember(t) \/ FreeObject(t)
    PROVE  Inv'
<1> DEFINE k == op[t]
           x == Dying(t)
<1>1. /\ k \in Ops /\ k.dels \in Seq(Objects) /\ k.dels # <<>> /\ Distinct(k.dels)
  BY InvTypes DEF DeleteMember, FreeObject, Ops, HoldOK
<1>2. x = k.dels[Len(k.dels)] /\ x \in SetOf(k.dels)
  <2>1. k.dels[Len(k.dels)] \in SetOf(k.dels)
    BY <1>1, SetOfFront
  <2> QED
    BY <2>1 DEF Dying
<1>3. CASE DeleteMember(t)
  <2> DEFINE q == IF ref_count[ptr[x]] = 1 THEN Append(k.dels, ptr[x]) ELSE k.dels
  <2>1. ptr[x] # NULL /\ alive' = alive /\ ptr' = Cleared(ptr, x)
    BY <1>3 DEF DeleteMember, Cleared
  <2>2. ref_count' = Dropped(ptr, ref_count, x)
    BY <1>3, <2>1 DEF DeleteMember, Dropped
  <2>3. op' = [op EXCEPT ![t] = SetDels(op[t], q)]
    <3>1. CASE ref_count[ptr[x]] = 1
      BY <1>3, <3>1 DEF DeleteMember, LastDrop
    <3>2. CASE ref_count[ptr[x]] # 1
      <4>1. op' = op /\ q = k.dels
        BY <1>3, <3>2 DEF DeleteMember, LastDrop
      <4>2. SetDels(op[t], q) = op[t]
        BY <1>1, <4>1, SetDelsSame
      <4> HIDE DEF q
      <4> QED
        BY <4>1, <4>2, InvTypes, IdleSame
    <3> QED
      BY <3>1, <3>2
  <2>4. q = IF ref_count[ptr[x]] = 1 THEN Append(op[t].dels, ptr[x]) ELSE op[t].dels
    OBVIOUS
  <2> HIDE DEF q, x
  <2>5. /\ Core(Cleared(ptr, x), Dropped(ptr, ref_count, x), alive,
                [op EXCEPT ![t] = SetDels(op[t], q)])
        /\ Owned(Cleared(ptr, x), alive, [op EXCEPT ![t] = SetDels(op[t], q)])
    BY <1>2, <2>1, <2>4, InvTypes, MemberStep
  <2> QED
    BY <2>1, <2>2, <2>3, <2>5 DEF Inv
<1>4. CASE FreeObject(t)
  <2> DEFINE q == SubSeq(k.dels, 1, Len(k.dels) - 1)
  <2>1. /\ alive' = alive \ {x} /\ ptr' = ptr /\ ref_count' = ref_count
        /\ op' = [op EXCEPT ![t] = SetDels(op[t], q)]
    BY <1>4 DEF FreeObject
  <2>2. x = op[t].dels[Len(op[t].dels)] /\ q = SubSeq(op[t].dels, 1, Len(op[t].dels) - 1)
    BY <1>2
  <2>3. op[t].dels # <<>>
    BY <1>1
  <2> HIDE DEF q, x
  <2>4. /\ Core(ptr, ref_count, alive \ {x}, [op EXCEPT ![t] = SetDels(op[t], q)])
        /\ Owned(ptr, alive \ {x}, [op EXCEPT ![t] = SetDels(op[t], q)])
    BY <2>2, <2>3, InvTypes, FreeStep
  <2> QED
    BY <2>1, <2>4 DEF Inv
<1> QED
  BY <1>3, <1>4

LEMMA FinishInv ==
    ASSUME Inv, NEW t \in Threads, FinishShare(t) \/ FinishMove(t) \/ FinishDestroy(t)
    PROVE  Inv'
<1> DEFINE d == op[t].dst
           x == op[t].new
<1>1. /\ op[t].dels = <<>> /\ op[t].kind # "idle"
      /\ alive' = alive /\ op' = [op EXCEPT ![t] = Idle]
  BY DEF FinishShare, FinishMove, FinishDestroy
<1>2. /\ d \in Slots /\ ptr[d] = NULL /\ d # NULL
      /\ op[t].kind # "share" => x = NULL
      /\ x # NULL => x \in alive
  BY <1>1, InvTypes DEF ShapeOK, HoldOK
<1>3. \A u \in Threads \ {t} :
          /\ d \notin Used(op[u]) /\ x \notin SetOf(op[u].dels)
          /\ Fresh(op[u]) => op[u].new # x
  BY <1>2, InvTypes DEF Compatible, WritesOf
<1>4. CASE FinishShare(t) /\ x # NULL
  <2>1. ptr' = Stored(ptr, d, x) /\ ref_count' = Counted(ref_count, x)
    BY <1>4 DEF FinishShare, Stored, Counted
  <2>2. op[t].new \in {NULL, x}
    OBVIOUS
  <2>3. \A y \in alive : RefsOf(ptr, y) = {} => y = x \/ Known(op, y)
    BY InvTypes DEF Owned
  <2>4. x \in alive
    BY <1>2, <1>4
  <2> HIDE DEF d, x
  <2>5. /\ Core(Stored(ptr, d, x), Counted(ref_count, x), alive, [op EXCEPT ![t] = Idle])
        /\ Owned(Stored(ptr, d, x), alive, [op EXCEPT ![t] = Idle])
    BY <1>1, <1>2, <1>3, <2>2, <2>3, <2>4, InvTypes, StoreStep
  <2> QED
    BY <1>1, <2>1, <2>5 DEF Inv
<1>5. CASE (FinishShare(t) \/ FinishDestroy(t)) /\ x = NULL
  <2>1. ptr' = ptr /\ ref_count' = ref_count
    BY <1>2, <1>5, InvTypes DEF FinishShare, FinishDestroy, Pointers
  <2>2. /\ Core(ptr, ref_count, alive, [op EXCEPT ![t] = Idle])
        /\ Owned(ptr, alive, [op EXCEPT ![t] = Idle])
    BY <1>1, <1>5, InvTypes, EndCall
  <2> QED
    BY <1>1, <2>1, <2>2 DEF Inv
<1>6. CASE FinishMove(t)
  <2> DEFINE s == op[t].src
  <2>1. op[t].kind = "move" /\ s \in Slots /\ d # s /\ op[t].new = NULL
    BY <1>2, <1>6, InvTypes DEF FinishMove, ShapeOK
  <2>2. ptr' = Exchanged(ptr, d, s) /\ ref_count' = ref_count
    BY <1>2, <1>6 DEF FinishMove, Exchanged
  <2>3. s \in WritesOf(op[t]) /\ s # NULL
    BY <2>1, InvTypes DEF WritesOf
  <2>4. \A u \in Threads \ {t} : s \notin Used(op[u])
    BY <2>3, InvTypes DEF Compatible
  <2> HIDE DEF d, s
  <2>5. /\ Core(Exchanged(ptr, d, s), ref_count, alive, [op EXCEPT ![t] = Idle])
        /\ Owned(Exchanged(ptr, d, s), alive, [op EXCEPT ![t] = Idle])
    BY <1>1, <1>2, <1>3, <2>1, <2>4, InvTypes, ExchangeStep
  <2> QED
    BY <1>1, <2>2, <2>5 DEF Inv
<1> QED
  BY <1>2, <1>4, <1>5, <1>6 DEF FinishDestroy

-----------------------------------------------------------------------------
LEMMA InitInv == Init => Inv
<1> SUFFICES ASSUME Init
             PROVE  Inv
  OBVIOUS
<1>1. /\ ptr \in Pointers /\ ref_count \in Counters /\ alive = {}
      /\ \A s \in Slots : ptr[s] = NULL
      /\ \A t \in Threads : op[t] = Idle
  BY DEF Init, Pointers, Counters
<1>2. op \in [Threads -> Ops]
  BY IdleOK DEF Init
<1>3. CountOK(ptr, ref_count, alive) /\ Held(ptr, alive) /\ Owned(ptr, alive, op)
  BY <1>1 DEF CountOK, Held, Owned
<1>4. \A t \in Threads : ShapeOK(ptr, op[t]) /\ HoldOK(ptr, alive, op[t])
  BY <1>1, IdleOK
<1>5. \A t, u \in Threads : t # u => Compatible(op[t], op[u])
  BY <1>1, IdleOK
<1> QED
  BY <1>1, <1>2, <1>3, <1>4, <1>5 DEF Inv, Core

LEMMA NextInv == Inv /\ [Next]_vars => Inv'
<1> SUFFICES ASSUME Inv, [Next]_vars
             PROVE  Inv'
  OBVIOUS
<1>1. CASE UNCHANGED vars
  BY <1>1 DEF vars, Inv
<1>2. ASSUME NEW t \in Threads, Begin(t)
      PROVE  Inv'
  <2>1. ASSUME NEW d \in Vars, NEW o \in Objects, Construct(t, d, o) \/ ResetToNew(t, d, o)
        PROVE  Inv'
    BY <2>1, ConstructInv, ResetToNewInv
  <2>2. CASE \/ \E d \in Vars : Destroy(t, d)
             \/ \E d \in Slots, v \in Vars \cup {NULL} : ResetToNull(t, d, v)
    BY <2>2, DropInv
  <2>3. ASSUME NEW d \in Slots, NEW s \in Slots, NEW v \in Vars \cup {NULL},
               \/ CopyConstruct(t, d, s, v)
               \/ MoveConstruct(t, d, s, v)
               \/ Swap(t, d, s, v)
               \/ Share(t, d, s, v)
               \/ MoveAssign(t, d, s, v)
        PROVE  Inv'
    BY <2>3, CopyInv, ExchangeInv, AssignInv
  <2> QED
    BY <1>2, <2>1, <2>2, <2>3 DEF Begin
<1>3. ASSUME NEW t \in Threads, Continue(t)
      PROVE  Inv'
  BY <1>3, DeleteInv, FinishInv DEF Continue
<1> QED
  BY <1>1, <1>2, <1>3 DEF Next

LEMMA Safety == Spec => []Inv
BY InitInv, NextInv, PTL DEF Spec

(* The counters never leave the natural numbers, whatever the threads do:  *)
(* no decrement finds a count of 0.                                        *)
THEOREM TypeCorrect == Spec => []TypeOK
<1>1. Inv => TypeOK
  BY DEF Inv, Core, TypeOK, Pointers, Counters
<1> QED
  BY <1>1, Safety, PTL

(* The counter of every allocated object is the number of its pointers.    *)
THEOREM CountsExact == Spec => []CountExact
<1>1. Inv => CountExact
  BY DEF Inv, Core, CountOK, CountExact, RefsOf, Refs
<1> QED
  BY <1>1, Safety, PTL

(* No pointer outlives its object.                                         *)
THEOREM NeverDangling == Spec => []NoDangling
<1>1. Inv => NoDangling
  BY DEF Inv, Core, Held, HoldOK, NoDangling
<1> QED
  BY <1>1, Safety, PTL

(* No object is deleted by two threads, nor twice by one.                  *)
THEOREM NeverDoubleDelete == Spec => []NoDoubleDelete
<1>1. ASSUME Inv
      PROVE  NoDoubleDelete
  <2> SUFFICES ASSUME NEW t \in Threads, NEW u \in Threads,
                      NEW i \in 1 .. Len(op[t].dels), NEW j \in 1 .. Len(op[u].dels),
                      op[t].dels[i] = op[u].dels[j]
               PROVE  t = u /\ i = j
    BY DEF NoDoubleDelete
  <2>1. op[t].dels[i] \in SetOf(op[t].dels) /\ op[u].dels[j] \in SetOf(op[u].dels)
    BY DEF SetOf
  <2>2. t = u
    BY <1>1, <2>1, InvTypes DEF Compatible
  <2> QED
    BY <1>1, <2>2, InvTypes DEF HoldOK, Distinct
<1> QED
  BY <1>1, Safety, PTL

(* An object that no pointer holds is on its way to a pointer or to the    *)
(* allocator.                                                              *)
THEOREM NeverOrphaned == Spec => []NoOrphan
<1>1. Inv => NoOrphan
  BY DEF Inv, Owned, Known, NoOrphan, RefsOf, Refs, DelSet, SetOf
<1> QED
  BY <1>1, Safety, PTL

(* unique(), asked of an undisturbed pointer, means sole ownership.        *)
THEOREM UniqueIsSole == Spec => []UniqueMeansSole
<1>1. ASSUME Inv
      PROVE  UniqueMeansSole
  <2> SUFFICES ASSUME NEW s \in Slots, ptr[s] # NULL, Exclusive(s), ref_count[ptr[s]] = 1
               PROVE  Refs(ptr[s]) = {s} /\ \A t \in Threads : op[t].new # ptr[s]
    BY DEF UniqueMeansSole
  <2> DEFINE x == ptr[s]
  <2>1. x \in alive /\ s \in RefsOf(ptr, x) /\ ptr \in Pointers
    BY <1>1, InvTypes DEF Held, RefsOf
  <2>2. Cardinality(RefsOf(ptr, x)) = 1 /\ IsFiniteSet(RefsOf(ptr, x))
    BY <1>1, <2>1, InvTypes, RefsFinite DEF CountOK
  <2>3. RefsOf(ptr, x) = {s}
    BY <2>1, <2>2, FS_Singleton
  <2>4. Refs(x) = {s}
    BY <2>3 DEF Refs, RefsOf
  <2>5. RefsOf(Cleared(ptr, s), x) = {}
    BY <1>1, <2>1, <2>3, InvTypes, ClearedRefs
  <2>6. ASSUME NEW t \in Threads
        PROVE  op[t].new # x
    <3>1. s \notin Used(op[t])
      BY GuardFacts
    <3> QED
      BY <1>1, <2>1, <2>5, <3>1, InvTypes, Unheld
  <2> QED
    BY <2>4, <2>6
<1> QED
  BY <1>1, Safety, PTL
=============================================================================
