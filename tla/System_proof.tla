--------------------------- MODULE System_proof ---------------------------
(***************************************************************************)
(* The proofs of System.  Each part has an invariant (HandlesInv,          *)
(* ErrorsInv, ClockInv, EnvInv, FilesInv, ClipInv) with what must hold of  *)
(* it at first and after each of its steps, and lemmas of what its calls   *)
(* return; at the end they are put together.                               *)
(***************************************************************************)
EXTENDS System, FiniteSetTheorems, WellFoundedInduction, TLAPS

-----------------------------------------------------------------------------
(* The lowest free descriptor.                                             *)
LEMMA Minimum ==
    ASSUME NEW S, S \subseteq Nat, S # {}
    PROVE  Handles!Min(S) \in S
<1>1. PICK m \in S : \A n \in S : ~ (<<n, m>> \in OpToRel(<, Nat))
  BY NatLessThanWellFounded, WFMin
<1>2. \A n \in S : <<n, m>> \in OpToRel(<, Nat) <=> n < m
  BY DEF OpToRel
<1>3. \A n \in S : ~ (n < m)
  BY <1>1, <1>2, Zenon
<1>4. \A n \in S : m <= n
  BY <1>3, SMT
<1> QED
  BY <1>4 DEF Handles!Min

-----------------------------------------------------------------------------
(* Handles.  Every open file is at one descriptor, and every descriptor    *)
(* that is open with one handle or with the program; the others have what  *)
(* they were given.                                                        *)
Distinct(t) == \A d, e \in Fd : t[d] = t[e] /\ t[d] # Closed => d = e

Truthful(t, h, g, m) ==
    /\ \A x \in Name : h[x] \in Fd => g[x] \in File /\ t[h[x]] = g[x]
    /\ \A r \in m : t[r[1]] = r[2]

OneHolder(t, h, m) ==
    /\ \A x, y \in Name : h[x] \in Fd /\ h[x] = h[y] => x = y
    /\ \A x \in Name, r \in m : h[x] # r[1]
    /\ \A d \in Fd : t[d] # Closed => (\E x \in Name : h[x] = d) \/ (\E r \in m : r[1] = d)

HandlesInv ==
    /\ Handles!TypeOK
    /\ Distinct(fds) /\ Truthful(fds, handle, given, mine) /\ OneHolder(fds, handle, mine)

LEMMA HandlesInit == Handles!Init => HandlesInv
<1> SUFFICES ASSUME Handles!Init PROVE HandlesInv
  OBVIOUS
<1>1. /\ \A d \in Fd : fds[d] = Closed
      /\ \A h \in Name : handle[h] \notin Fd
      /\ mine = {}
  BY HandleAssumption DEF Handles!Init, Handles!Gone
<1>2. Handles!TypeOK
  BY DEF Handles!Init, Handles!TypeOK, Handles!Gone
<1> QED
  BY <1>1, <1>2 DEF HandlesInv, Distinct, Truthful, OneHolder

LEMMA UserOpenInv ==
    ASSUME HandlesInv, Handles!UserOpen
    PROVE  HandlesInv'
<1> DEFINE d == Handles!Min(Handles!Free)
<1>1. d \in Fd /\ fds[d] = Closed
  BY Minimum, HandleAssumption DEF Handles!UserOpen, Handles!Free
<1>2. PICK f \in Handles!Unused : fds' = [fds EXCEPT ![d] = f] /\ mine' = mine \cup {<<d, f>>}
  BY DEF Handles!UserOpen
<1>3. f \in File /\ f # Closed /\ \A e \in Fd : fds[e] # f
  BY HandleAssumption DEF Handles!Unused
<1>4. handle' = handle /\ given' = given /\ rc' = rc
  BY DEF Handles!UserOpen
<1> HIDE DEF d
<1>5. Handles!TypeOK'
  BY <1>1, <1>2, <1>3, <1>4 DEF HandlesInv, Handles!TypeOK
<1>6. Distinct(fds)'
  BY <1>1, <1>2, <1>3 DEF HandlesInv, Handles!TypeOK, Distinct
<1>7. \A r \in mine : r[1] # d
  BY <1>1, HandleAssumption DEF HandlesInv, Handles!TypeOK, Truthful
<1>8. \A x \in Name : handle[x] # d
  BY <1>1, HandleAssumption DEF HandlesInv, Handles!TypeOK, Truthful
<1>9. Truthful(fds, handle, given, mine)'
  BY <1>1, <1>2, <1>3, <1>4, <1>7, <1>8 DEF HandlesInv, Handles!TypeOK, Truthful
<1>10. OneHolder(fds, handle, mine)'
  <2>1. \A x, y \in Name : handle'[x] \in Fd /\ handle'[x] = handle'[y] => x = y
    BY <1>4 DEF HandlesInv, OneHolder
  <2>2. \A x \in Name, r \in mine' : handle'[x] # r[1]
    <3>1. \A r \in mine' : r \in mine \/ r[1] = d
      BY <1>2
    <3> QED
      BY <1>4, <1>8, <3>1 DEF HandlesInv, OneHolder
  <2>3. \A e \in Fd : fds'[e] # Closed =>
            (\E x \in Name : handle'[x] = e) \/ (\E r \in mine' : r[1] = e)
    <3> SUFFICES ASSUME NEW e \in Fd, fds'[e] # Closed
                 PROVE  (\E x \in Name : handle'[x] = e) \/ (\E r \in mine' : r[1] = e)
      OBVIOUS
    <3>1. CASE e = d
      <4>1. <<d, f>> \in mine' /\ <<d, f>>[1] = d
        BY <1>2
      <4> QED
        BY <3>1, <4>1
    <3>2. CASE e # d
      <4>1. fds[e] # Closed
        BY <1>2, <3>2 DEF HandlesInv, Handles!TypeOK
      <4> QED
        BY <1>2, <1>4, <4>1 DEF HandlesInv, OneHolder
    <3> QED
      BY <3>1, <3>2
  <2> QED
    BY <2>1, <2>2, <2>3 DEF OneHolder
<1> QED
  BY <1>5, <1>6, <1>9, <1>10 DEF HandlesInv

(* A descriptor that the program closes.                                   *)
LEMMA UserCloseInv ==
    ASSUME HandlesInv, NEW q \in mine, Handles!UserClose(q)
    PROVE  HandlesInv'
<1>1. q[1] \in Fd /\ q[2] \in File /\ q = <<q[1], q[2]>>
  BY DEF HandlesInv, Handles!TypeOK
<1>2. /\ fds' = [fds EXCEPT ![q[1]] = Closed] /\ mine' = mine \ {q}
      /\ handle' = handle /\ given' = given /\ rc' = rc
  BY <1>1 DEF Handles!UserClose, Handles!CloseHandle
<1>3. \A r \in mine' : r \in mine /\ r[1] \in Fd /\ r[1] # q[1]
  <2> SUFFICES ASSUME NEW r \in mine, r # q, r[1] = q[1]
               PROVE  FALSE
    BY <1>2 DEF HandlesInv, Handles!TypeOK
  <2>1. r = <<r[1], r[2]>> /\ r[2] = fds[r[1]] /\ q[2] = fds[q[1]]
    BY DEF HandlesInv, Handles!TypeOK, Truthful
  <2> QED
    BY <1>1, <2>1
<1>4. \A x \in Name : handle[x] # q[1]
  BY DEF HandlesInv, OneHolder
<1>5. Handles!TypeOK'
  BY <1>1, <1>2 DEF HandlesInv, Handles!TypeOK
<1>6. Distinct(fds)'
  BY <1>1, <1>2 DEF HandlesInv, Handles!TypeOK, Distinct
<1>7. Truthful(fds, handle, given, mine)'
  BY <1>1, <1>2, <1>3, <1>4 DEF HandlesInv, Handles!TypeOK, Truthful
<1>8. OneHolder(fds, handle, mine)'
  <2>1. \A e \in Fd : fds'[e] # Closed => e # q[1] /\ fds[e] # Closed
    BY <1>1, <1>2 DEF HandlesInv, Handles!TypeOK
  <2>2. \A r \in mine : r[1] # q[1] => r \in mine'
    BY <1>2
  <2> QED
    BY <1>2, <1>3, <2>1, <2>2 DEF HandlesInv, OneHolder
<1> QED
  BY <1>5, <1>6, <1>7, <1>8 DEF HandlesInv

-----------------------------------------------------------------------------
(* What the actions of a handle come to: a descriptor d is closed, or not, *)
(* and h has n and f now.                                                  *)

(* d is closed, or no descriptor is, and h, which does not have it then,   *)
(* has something that is no descriptor.                                    *)
Cleared(t, d) == [e \in Fd |-> IF e = d THEN Closed ELSE t[e]]

LEMMA Clears ==
    ASSUME Handles!TypeOK, NEW d
    PROVE  Handles!CloseHandle(d) = Cleared(fds, d)
BY DEF Handles!TypeOK, Handles!CloseHandle, Cleared

LEMMA DropInv ==
    ASSUME HandlesInv, NEW h \in Name, NEW n \in {Handles!Invalid, Handles!Gone},
           fds' = Cleared(fds, handle[h]), Handles!Set(h, n, Closed), mine' = mine,
           rc' \in BOOLEAN
    PROVE  HandlesInv'
<1>1. n \notin Fd
  BY HandleAssumption DEF Handles!Invalid, Handles!Gone
<1>2. /\ handle \in [Name -> Fd \cup {Handles!Invalid, Handles!Gone}]
      /\ given \in [Name -> File \cup {Closed}]
      /\ fds \in [Fd -> File \cup {Closed}] /\ mine \subseteq Fd \X File
  BY DEF HandlesInv, Handles!TypeOK
<1>3. /\ handle' = [handle EXCEPT ![h] = n] /\ given' = [given EXCEPT ![h] = Closed]
  BY DEF Handles!Set
<1>4. \A x \in Name : handle'[x] \in Fd => /\ x # h /\ handle'[x] = handle[x]
                                          /\ given'[x] = given[x] /\ handle[x] # handle[h]
  BY <1>1, <1>2, <1>3 DEF HandlesInv, OneHolder
<1>5. \A e \in Fd : IF e = handle[h] THEN fds'[e] = Closed ELSE fds'[e] = fds[e]
  BY DEF Cleared
<1>6. Handles!TypeOK'
  BY <1>2, <1>3 DEF Handles!TypeOK, Cleared
<1>7. Distinct(fds)'
  BY <1>5 DEF HandlesInv, Distinct
<1>8. Truthful(fds, handle, given, mine)'
  <2>1. \A r \in mine : r[1] \in Fd /\ r[1] # handle[h]
    BY <1>2 DEF HandlesInv, OneHolder
  <2> QED
    BY <1>4, <1>5, <2>1 DEF HandlesInv, Truthful
<1>9. OneHolder(fds, handle, mine)'
  <2>1. \A x \in Name, r \in mine : handle'[x] # r[1]
    BY <1>1, <1>2, <1>3 DEF HandlesInv, OneHolder
  <2>2. \A x, y \in Name : handle'[x] \in Fd /\ handle'[x] = handle'[y] => x = y
    BY <1>4 DEF HandlesInv, OneHolder
  <2>3. \A e \in Fd : fds'[e] # Closed => fds[e] # Closed /\ e # handle[h]
    BY <1>5
  <2>4. \A x \in Name : x # h => handle'[x] = handle[x]
    BY <1>2, <1>3
  <2>5. \A e \in Fd : fds'[e] # Closed =>
            (\E x \in Name : handle'[x] = e) \/ (\E r \in mine : r[1] = e)
    BY <2>3, <2>4 DEF HandlesInv, OneHolder
  <2> QED
    BY <2>1, <2>2, <2>5 DEF OneHolder
<1> QED
  BY <1>6, <1>7, <1>8, <1>9 DEF HandlesInv

(* h is given q by the program, and what it had is closed.                 *)
LEMMA TakeInv ==
    ASSUME HandlesInv, NEW h \in Name, NEW q \in mine,
           fds' = Cleared(fds, handle[h]), Handles!Set(h, q[1], q[2]), mine' = mine \ {q},
           rc' = rc
    PROVE  HandlesInv'
<1>1. /\ handle \in [Name -> Fd \cup {Handles!Invalid, Handles!Gone}]
      /\ given \in [Name -> File \cup {Closed}]
      /\ fds \in [Fd -> File \cup {Closed}] /\ mine \subseteq Fd \X File
  BY DEF HandlesInv, Handles!TypeOK
<1>2. q[1] \in Fd /\ q[2] \in File /\ fds[q[1]] = q[2] /\ q = <<q[1], q[2]>>
  BY <1>1 DEF HandlesInv, Truthful
<1>3. /\ handle' = [handle EXCEPT ![h] = q[1]] /\ given' = [given EXCEPT ![h] = q[2]]
  BY DEF Handles!Set
<1>4. \A r \in mine' : r \in mine /\ r[1] \in Fd /\ r[1] # q[1]
  <2> SUFFICES ASSUME NEW r \in mine, r # q, r[1] = q[1]
               PROVE  FALSE
    BY <1>1
  <2>1. r = <<r[1], r[2]>> /\ r[2] = fds[r[1]]
    BY <1>1 DEF HandlesInv, Truthful
  <2> QED
    BY <1>2, <2>1
<1>5. \A x \in Name : handle[x] # q[1]
  BY DEF HandlesInv, OneHolder
<1>6. \A x \in Name : x # h => handle'[x] = handle[x] /\ given'[x] = given[x]
  BY <1>1, <1>3
<1>7. handle'[h] = q[1] /\ given'[h] = q[2]
  BY <1>1, <1>3
<1>8. \A e \in Fd : IF e = handle[h] THEN fds'[e] = Closed ELSE fds'[e] = fds[e]
  BY DEF Cleared
<1>9. Handles!TypeOK'
  BY <1>1, <1>2, <1>3 DEF HandlesInv, Handles!TypeOK, Cleared
<1>10. Distinct(fds)'
  BY <1>8 DEF HandlesInv, Distinct
<1>11. Truthful(fds, handle, given, mine)'
  <2>1. \A x \in Name : handle'[x] \in Fd => given'[x] \in File /\ fds'[handle'[x]] = given'[x]
    <3> SUFFICES ASSUME NEW x \in Name, handle'[x] \in Fd
                 PROVE  given'[x] \in File /\ fds'[handle'[x]] = given'[x]
      OBVIOUS
    <3>1. CASE x = h
      BY <1>2, <1>5, <1>7, <1>8, <3>1
    <3>2. CASE x # h
      <4>1. handle[x] # handle[h]
        BY <1>6, <3>2 DEF HandlesInv, OneHolder
      <4> QED
        BY <1>6, <1>8, <3>2, <4>1 DEF HandlesInv, Truthful
    <3> QED
      BY <3>1, <3>2
  <2>2. \A r \in mine' : fds'[r[1]] = r[2]
    BY <1>4, <1>8 DEF HandlesInv, OneHolder, Truthful
  <2> QED
    BY <2>1, <2>2 DEF Truthful
<1>12. OneHolder(fds, handle, mine)'
  <2>1. \A x \in Name, r \in mine' : handle'[x] # r[1]
    BY <1>4, <1>6, <1>7 DEF HandlesInv, OneHolder
  <2>2. \A x, y \in Name : handle'[x] \in Fd /\ handle'[x] = handle'[y] => x = y
    BY <1>5, <1>6, <1>7 DEF HandlesInv, OneHolder
  <2>3. \A e \in Fd : fds'[e] # Closed => fds[e] # Closed /\ e # handle[h]
    BY <1>8
  <2>4. \A r \in mine : r = q \/ r \in mine'
    OBVIOUS
  <2>5. \A e \in Fd : fds'[e] # Closed =>
            (\E x \in Name : handle'[x] = e) \/ (\E r \in mine' : r[1] = e)
    BY <1>6, <1>7, <2>3, <2>4 DEF HandlesInv, OneHolder
  <2> QED
    BY <2>1, <2>2, <2>5 DEF OneHolder
<1> QED
  BY <1>9, <1>10, <1>11, <1>12 DEF HandlesInv

(* h takes over what g has, and what h had is closed.                      *)
LEMMA MoveInv ==
    ASSUME HandlesInv, NEW h \in Name, NEW g \in Name, h # g,
           fds' = Cleared(fds, handle[h]),
           handle' = [handle EXCEPT ![h] = handle[g], ![g] = Handles!Invalid],
           given' = [given EXCEPT ![h] = given[g], ![g] = Closed],
           handle[g] # Handles!Gone, mine' = mine, rc' = rc
    PROVE  HandlesInv'
<1>1. /\ handle \in [Name -> Fd \cup {Handles!Invalid, Handles!Gone}]
      /\ given \in [Name -> File \cup {Closed}]
      /\ fds \in [Fd -> File \cup {Closed}] /\ mine \subseteq Fd \X File
  BY DEF HandlesInv, Handles!TypeOK
<1>2. Handles!Invalid \notin Fd
  BY HandleAssumption DEF Handles!Invalid
<1>3. /\ handle'[h] = handle[g] /\ given'[h] = given[g]
      /\ handle'[g] = Handles!Invalid
  BY <1>1
<1>4. \A x \in Name : x # h /\ x # g => handle'[x] = handle[x] /\ given'[x] = given[x]
  BY <1>1
<1>5. \A x \in Name : handle'[x] \in Fd =>
          \E y \in Name : /\ y # h /\ handle'[x] = handle[y] /\ given'[x] = given[y]
                         /\ handle[y] # handle[h] /\ y = (IF x = h THEN g ELSE x)
  <2> SUFFICES ASSUME NEW x \in Name, handle'[x] \in Fd
               PROVE  LET y == IF x = h THEN g ELSE x IN
                      /\ y \in Name /\ y # h /\ handle'[x] = handle[y] /\ given'[x] = given[y]
                      /\ handle[y] # handle[h]
    OBVIOUS
  <2>1. x # g
    BY <1>2, <1>3
  <2>2. CASE x = h
    BY <1>3, <2>2 DEF HandlesInv, OneHolder
  <2>3. CASE x # h
    BY <1>4, <2>1, <2>3 DEF HandlesInv, OneHolder
  <2> QED
    BY <2>2, <2>3
<1>6. \A e \in Fd : IF e = handle[h] THEN fds'[e] = Closed ELSE fds'[e] = fds[e]
  BY DEF Cleared
<1>7. Handles!TypeOK'
  BY <1>1 DEF HandlesInv, Handles!TypeOK, Cleared
<1>8. Distinct(fds)'
  BY <1>6 DEF HandlesInv, Distinct
<1>9. Truthful(fds, handle, given, mine)'
  <2>1. \A r \in mine : r[1] \in Fd /\ r[1] # handle[h]
    BY <1>1 DEF HandlesInv, OneHolder
  <2>2. \A r \in mine : fds'[r[1]] = r[2]
    BY <1>6, <2>1 DEF HandlesInv, Truthful
  <2>3. \A x \in Name : handle'[x] \in Fd => given'[x] \in File /\ fds'[handle'[x]] = given'[x]
    <3> SUFFICES ASSUME NEW x \in Name, handle'[x] \in Fd
                 PROVE  given'[x] \in File /\ fds'[handle'[x]] = given'[x]
      OBVIOUS
    <3>1. PICK y \in Name : /\ handle'[x] = handle[y] /\ given'[x] = given[y]
                            /\ handle[y] # handle[h]
      BY <1>5
    <3> QED
      BY <1>6, <3>1 DEF HandlesInv, Truthful
  <2> QED
    BY <2>2, <2>3 DEF Truthful
<1>10. OneHolder(fds, handle, mine)'
  <2>1. \A x \in Name, r \in mine : handle'[x] # r[1]
    BY <1>1, <1>5 DEF HandlesInv, OneHolder
  <2>2. \A x, y \in Name : handle'[x] \in Fd /\ handle'[x] = handle'[y] => x = y
    <3> SUFFICES ASSUME NEW x \in Name, NEW y \in Name, handle'[x] \in Fd,
                        handle'[x] = handle'[y], x # y
                 PROVE  FALSE
      OBVIOUS
    <3> DEFINE a == IF x = h THEN g ELSE x
               b == IF y = h THEN g ELSE y
    <3>1. a \in Name /\ b \in Name /\ handle[a] \in Fd /\ handle[a] = handle[b]
      BY <1>5
    <3>2. x # g /\ y # g
      BY <1>2, <1>3
    <3>3. a # b
      BY <3>2
    <3> HIDE DEF a, b
    <3> QED
      BY <3>1, <3>3 DEF HandlesInv, OneHolder
  <2>3. \A e \in Fd : fds'[e] # Closed => fds[e] # Closed /\ e # handle[h]
    BY <1>6
  <2>4. \A e \in Fd : fds'[e] # Closed =>
            (\E x \in Name : handle'[x] = e) \/ (\E r \in mine : r[1] = e)
    <3> SUFFICES ASSUME NEW e \in Fd, fds'[e] # Closed, NEW x \in Name, handle[x] = e
                 PROVE  \E y \in Name : handle'[y] = e
      BY <2>3 DEF HandlesInv, OneHolder
    <3>1. CASE x = g
      BY <1>3, <3>1
    <3>2. CASE x # g
      BY <1>4, <2>3, <3>2
    <3> QED
      BY <3>1, <3>2
  <2> QED
    BY <2>1, <2>2, <2>4 DEF OneHolder
<1> QED
  BY <1>7, <1>8, <1>9, <1>10 DEF HandlesInv

(* The program takes the descriptor of h.                                  *)
LEMMA ReleaseInv ==
    ASSUME HandlesInv, NEW h \in Name, Handles!Release(h)
    PROVE  HandlesInv'
<1>1. /\ handle \in [Name -> Fd \cup {Handles!Invalid, Handles!Gone}]
      /\ given \in [Name -> File \cup {Closed}]
      /\ fds \in [Fd -> File \cup {Closed}] /\ mine \subseteq Fd \X File /\ rc \in BOOLEAN
  BY DEF HandlesInv, Handles!TypeOK
<1>2. /\ fds' = fds /\ rc' = rc
      /\ handle' = [handle EXCEPT ![h] = Handles!Invalid]
      /\ given' = [given EXCEPT ![h] = Closed]
  BY DEF Handles!Release, Handles!Set
<1>3. CASE handle[h] \notin Fd
  <2>1. fds' = Cleared(fds, handle[h])
    BY <1>1, <1>2, <1>3 DEF Cleared
  <2>2. mine' = mine /\ Handles!Set(h, Handles!Invalid, Closed)
    BY <1>3 DEF Handles!Release
  <2> QED
    BY <1>1, <1>2, <2>1, <2>2, DropInv
<1>4. CASE handle[h] \in Fd
  <2> DEFINE q == <<handle[h], given[h]>>
  <2>1. mine' = mine \cup {q}
    BY <1>4 DEF Handles!Release
  <2>2. q[1] = handle[h] /\ q[2] = given[h] /\ given[h] \in File /\ fds[handle[h]] = given[h]
    BY <1>4 DEF HandlesInv, Truthful
  <2>3. Handles!Invalid \notin Fd
    BY HandleAssumption DEF Handles!Invalid
  <2>4. \A x \in Name : handle'[x] \in Fd => /\ x # h /\ handle'[x] = handle[x]
                                            /\ given'[x] = given[x] /\ handle[x] # handle[h]
    BY <1>1, <1>2, <2>3 DEF HandlesInv, OneHolder
  <2>5. \A r \in mine' : r \in mine \/ r = q
    BY <2>1
  <2>6. q \in Fd \X File
    BY <1>4, <2>2
  <2> HIDE DEF q
  <2>7. Handles!TypeOK'
    BY <1>1, <1>2, <2>1, <2>6 DEF Handles!TypeOK
  <2>8. Distinct(fds)'
    BY <1>2 DEF HandlesInv, Distinct
  <2>9. Truthful(fds, handle, given, mine)'
    BY <1>2, <2>2, <2>4, <2>5 DEF HandlesInv, Truthful
  <2>10. OneHolder(fds, handle, mine)'
    <3>1. \A x \in Name, r \in mine' : handle'[x] # r[1]
      <4> SUFFICES ASSUME NEW x \in Name, NEW r \in mine', handle'[x] = r[1]
                   PROVE  FALSE
        OBVIOUS
      <4>1. r[1] \in Fd
        BY <1>1, <1>4, <2>2, <2>5
      <4> QED
        BY <2>2, <2>4, <2>5, <4>1 DEF HandlesInv, OneHolder
    <3>2. \A x, y \in Name : handle'[x] \in Fd /\ handle'[x] = handle'[y] => x = y
      BY <2>4 DEF HandlesInv, OneHolder
    <3>3. \A x \in Name : handle'[x] = handle[x] \/ handle[x] = handle[h]
      BY <1>1, <1>2
    <3>4. q \in mine' /\ mine \subseteq mine'
      BY <2>1
    <3>5. \A e \in Fd : fds'[e] # Closed =>
              (\E x \in Name : handle'[x] = e) \/ (\E r \in mine' : r[1] = e)
      <4> SUFFICES ASSUME NEW e \in Fd, fds[e] # Closed, ~\E r \in mine' : r[1] = e
                   PROVE  \E x \in Name : handle'[x] = e
        BY <1>2
      <4>1. PICK x \in Name : handle[x] = e
        BY <3>4 DEF HandlesInv, OneHolder
      <4> QED
        BY <2>2, <3>3, <3>4, <4>1
    <3> QED
      BY <3>1, <3>2, <3>5 DEF OneHolder
  <2> QED
    BY <2>7, <2>8, <2>9, <2>10 DEF HandlesInv
<1> QED
  BY <1>3, <1>4

-----------------------------------------------------------------------------
LEMMA HandlesNext ==
    ASSUME ~ConstCopy, HandlesInv, Handles!Next
    PROVE  HandlesInv'
<1>1. /\ handle \in [Name -> Fd \cup {Handles!Invalid, Handles!Gone}]
      /\ fds \in [Fd -> File \cup {Closed}] /\ Handles!TypeOK /\ rc \in BOOLEAN
  BY DEF HandlesInv, Handles!TypeOK
<1>2. Handles!Invalid \notin Fd /\ Handles!Gone \notin Fd
  BY HandleAssumption DEF Handles!Invalid, Handles!Gone
<1>3. \A n : n \notin Fd => Cleared(fds, n) = fds
  BY <1>1 DEF Cleared
<1>4. CASE Handles!UserOpen
  BY <1>4, UserOpenInv
<1>5. ASSUME NEW q \in Fd \X File, Handles!UserClose(q)
      PROVE  HandlesInv'
  <2>1. q \in mine
    BY <1>5 DEF Handles!UserClose
  <2> QED
    BY <1>5, <2>1, UserCloseInv
<1>6. ASSUME NEW h \in Name, Handles!Construct(h)
      PROVE  HandlesInv'
  <2>1. fds' = Cleared(fds, handle[h]) /\ rc' = rc
    BY <1>2, <1>3, <1>6 DEF Handles!Construct, Handles!Lives
  <2>2. CASE Handles!Set(h, Handles!Invalid, Closed) /\ mine' = mine
    BY <1>1, <2>1, <2>2, DropInv
  <2>3. CASE \E r \in mine : Handles!Set(h, r[1], r[2]) /\ mine' = mine \ {r}
    BY <2>1, <2>3, TakeInv
  <2> QED
    BY <1>6, <2>2, <2>3 DEF Handles!Construct
<1>7. ASSUME NEW h \in Name, Handles!ResetToInvalid(h)
      PROVE  HandlesInv'
  <2>1. /\ fds' = Cleared(fds, handle[h]) /\ Handles!Set(h, Handles!Invalid, Closed)
        /\ mine' = mine /\ rc' \in BOOLEAN
    BY <1>1, <1>7, Clears DEF Handles!ResetToInvalid
  <2> QED
    BY <2>1, DropInv
<1>8. ASSUME NEW h \in Name, Handles!Close(h)
      PROVE  HandlesInv'
  <2>1. /\ fds' = Cleared(fds, handle[h]) /\ Handles!Set(h, Handles!Invalid, Closed)
        /\ mine' = mine /\ rc' \in BOOLEAN
    BY <1>1, <1>8, Clears DEF Handles!Close, Handles!CanClose
  <2> QED
    BY <2>1, DropInv
<1>9. ASSUME NEW h \in Name, Handles!Release(h)
      PROVE  HandlesInv'
  BY <1>9, ReleaseInv
<1>10. ASSUME NEW h \in Name, Handles!Destroy(h)
       PROVE  HandlesInv'
  <2>1. /\ fds' = Cleared(fds, handle[h]) /\ Handles!Set(h, Handles!Gone, Closed)
        /\ mine' = mine /\ rc' \in BOOLEAN
    BY <1>1, <1>10, Clears DEF Handles!Destroy
  <2> QED
    BY <2>1, DropInv
<1>11. ASSUME NEW h \in Name, NEW g \in Name, Handles!CopyConstruct(h, g)
       PROVE  HandlesInv'
  <2>1. h # g /\ handle[h] = Handles!Gone /\ handle[g] # Handles!Gone
    BY <1>11 DEF Handles!CopyConstruct, Handles!Lives
  <2>2. fds' = Cleared(fds, handle[h])
    BY <1>2, <1>3, <1>11, <2>1 DEF Handles!CopyConstruct
  <2>3. /\ handle' = [handle EXCEPT ![h] = handle[g], ![g] = Handles!Invalid]
        /\ given' = [given EXCEPT ![h] = given[g], ![g] = Closed]
        /\ mine' = mine /\ rc' = rc
    BY <1>11 DEF Handles!CopyConstruct
  <2> QED
    BY <2>1, <2>2, <2>3, MoveInv
<1>12. ASSUME NEW h \in Name, NEW g \in Name, Handles!Assign(h, g)
       PROVE  HandlesInv'
  <2>1. CASE h = g
    <3>1. UNCHANGED <<fds, handle, given, mine, rc>>
      BY <1>12, <2>1 DEF Handles!Assign
    <3> QED
      BY <3>1 DEF HandlesInv, Handles!TypeOK, Distinct, Truthful, OneHolder
  <2>2. CASE h # g
    <3>1. /\ handle' = [handle EXCEPT ![h] = handle[g], ![g] = Handles!Invalid]
          /\ given' = [given EXCEPT ![h] = given[g], ![g] = Closed]
          /\ mine' = mine /\ rc' = rc /\ handle[g] # Handles!Gone
      BY <1>12, <2>2 DEF Handles!Assign, Handles!Lives
    <3>2. CASE handle[h] # handle[g]
      <4>1. fds' = Cleared(fds, handle[h])
        BY <1>1, <1>12, <2>2, <3>2, Clears DEF Handles!Assign
      <4> QED
        BY <2>2, <3>1, <4>1, MoveInv
    <3>3. CASE handle[h] = handle[g]
      <4>1. handle[h] \notin Fd
        BY <2>2, <3>3 DEF HandlesInv, OneHolder
      <4>2. fds' = fds
        BY <1>12, <2>2, <3>3 DEF Handles!Assign
      <4>3. fds' = Cleared(fds, handle[h])
        BY <1>3, <4>1, <4>2
      <4> QED
        BY <2>2, <3>1, <4>3, MoveInv
    <3> QED
      BY <3>2, <3>3
  <2> QED
    BY <2>1, <2>2
<1>13. ASSUME NEW h \in Name, NEW q \in Fd \X File, Handles!Reset(h, q)
       PROVE  HandlesInv'
  <2>1. q \in mine /\ handle[h] # q[1]
    BY <1>13 DEF Handles!Reset, HandlesInv, OneHolder
  <2>2. /\ fds' = Cleared(fds, handle[h]) /\ Handles!Set(h, q[1], q[2])
        /\ mine' = mine \ {q} /\ rc' = rc
    BY <1>1, <1>13, <2>1, Clears DEF Handles!Reset
  <2> QED
    BY <2>1, <2>2, TakeInv
<1> QED
  BY <1>4, <1>5, <1>6, <1>7, <1>8, <1>9, <1>10, <1>11, <1>12, <1>13
     DEF Handles!Next, Handles!CopyConst

LEMMA Counts == \A S : Handles!Cardinality(S) = Cardinality(S)
BY Zenon DEF Handles!Cardinality, Cardinality

(* One holder.                                                             *)
LEMMA HandlesInvOwns ==
    ASSUME HandlesInv
    PROVE  Handles!HandlesOwn
<1>1. \A h \in Name : handle[h] \in Fd => fds[handle[h]] = given[h]
  BY DEF HandlesInv, Truthful
<1>2. \A r \in mine : r[1] \in Fd /\ fds[r[1]] = r[2] /\ r = <<r[1], r[2]>>
  BY DEF HandlesInv, Truthful, Handles!TypeOK
<1>3. ASSUME NEW d \in Fd, fds[d] # Closed
      PROVE  Handles!Cardinality(Handles!Holders(fds[d])) = 1
  <2> DEFINE S == Handles!Holders(fds[d])
  <2>1. \A h \in Name : handle[h] \in Fd /\ given[h] = fds[d] => handle[h] = d
    BY <1>1, <1>3 DEF HandlesInv, Distinct
  <2>2. \A r \in mine : r[2] = fds[d] => r[1] = d
    BY <1>2, <1>3 DEF HandlesInv, Distinct
  <2>3. \E x : S = {x}
    <3>1. CASE \E h \in Name : handle[h] = d
      <4>1. PICK h \in Name : handle[h] = d
        BY <3>1
      <4>2. {g \in Name : handle[g] \in Fd /\ given[g] = fds[d]} = {h}
        BY <1>1, <2>1, <4>1 DEF HandlesInv, OneHolder
      <4>3. {r \in mine : r[2] = fds[d]} = {}
        BY <2>2, <4>1 DEF HandlesInv, OneHolder
      <4>4. S = {<<"handle", h>>}
        BY <4>2, <4>3 DEF Handles!Holders
      <4> QED
        BY <4>4
    <3>2. CASE ~\E h \in Name : handle[h] = d
      <4>1. PICK q \in mine : q[1] = d
        BY <1>3, <3>2 DEF HandlesInv, OneHolder
      <4>2. {g \in Name : handle[g] \in Fd /\ given[g] = fds[d]} = {}
        BY <2>1, <3>2
      <4>3. {r \in mine : r[2] = fds[d]} = {q}
        BY <1>2, <2>2, <4>1
      <4>4. S = {<<"program", q>>}
        BY <4>2, <4>3 DEF Handles!Holders
      <4> QED
        BY <4>4
    <3> QED
      BY <3>1, <3>2
  <2> QED
    BY <2>3, FS_Singleton, Counts
<1>4. \A d \in Fd : fds[d] # Closed => Handles!Cardinality(Handles!Holders(fds[d])) = 1
  BY <1>3
<1>5. \A r \in mine : fds[r[1]] = r[2]
  BY <1>2
<1> QED
  BY <1>1, <1>4, <1>5, Zenon DEF Handles!HandlesOwn

-----------------------------------------------------------------------------
(* Errors.  What there is of errors is of its types.                       *)
Text == Seq(STRING)

ErrorsInv ==
    /\ info \in [Info -> Errors!Records \cup {None}]
    /\ m_info \in [Exc -> Info \cup {None}] /\ m_errno \in Code
    /\ Errors!InfoShared

LEMMA OneWord ==
    ASSUME NEW S, NEW c \in S
    PROVE  <<c>> \in Seq(S)
OBVIOUS

LEMMA Concatenated ==
    ASSUME NEW S, NEW s \in Seq(S), NEW t \in Seq(S), NEW u \in Seq(S)
    PROVE  s \o t \o u \in Seq(S)
OBVIOUS

LEMMA FixedText == <<>> \in Text /\ <<":">> \in Text /\ <<"Unknown error">> \in Text
<1>1. ":" \in STRING /\ "Unknown error" \in STRING
  BY ErrorInfoAssumption
<1>2. <<>> \in Seq(STRING)
  OBVIOUS
<1> QED
  BY <1>1, <1>2, OneWord, Zenon DEF Text

LEMMA ConvertedText ==
    ASSUME NEW s \in Text
    PROVE  /\ Errors!Converted(s) \in Text
           /\ (\A i \in DOMAIN s : s[i] # Bad) => Errors!Converted(s) = s
<1>1. DOMAIN s = 1 .. Len(s) /\ Len(s) \in Nat /\ \A i \in DOMAIN s : s[i] \in STRING
  BY DEF Text
<1> DEFINE t == Errors!Converted(s)
<1>2. t = [i \in 1 .. Len(s) |-> IF s[i] = Bad THEN Replaced ELSE s[i]]
  BY <1>1 DEF Errors!Converted
<1>3. \A i \in 1 .. Len(s) : (IF s[i] = Bad THEN Replaced ELSE s[i]) \in STRING
  BY <1>1, ErrorInfoAssumption
<1>4. t \in Text
  BY <1>1, <1>2, <1>3 DEF Text
<1>5. ASSUME \A i \in DOMAIN s : s[i] # Bad
      PROVE  t = s
  BY <1>1, <1>5 DEF Errors!Converted, Text
<1> QED
  BY <1>4, <1>5

LEMMA UniStringText ==
    ASSUME NEW s \in Text, NEW form \in Errors!Forms
    PROVE  Errors!UniString(form, s) \in [Errors!Forms -> Text]
BY ConvertedText DEF Errors!UniString

LEMMA EmptyText == Errors!Empty \in [Errors!Forms -> Text]
<1>1. <<>> \in Text /\ "char" \in Errors!Forms
  BY FixedText DEF Errors!Forms
<1> QED
  BY <1>1, UniStringText DEF Errors!Empty

LEMMA MessageText ==
    ASSUME NEW c \in Code
    PROVE  Errors!Message(c) \in Text
<1>1. c \in STRING
  BY ErrorInfoAssumption
<1>2. <<c>> \in Text
  BY <1>1, OneWord, Zenon DEF Text
<1> QED
  BY <1>2, FixedText DEF Errors!Message

LEMMA NewRecord ==
    ASSUME NEW c \in Code, NEW form \in Errors!Forms, NEW o \in Text, NEW m \in Text
    PROVE  Errors!ErrorInfo(c, form, o, m) \in Errors!Records
<1>1. /\ Errors!UniString("char", Errors!Message(c)) \in [Errors!Forms -> Text]
      /\ Errors!UniString(form, m) \in [Errors!Forms -> Text]
      /\ Errors!UniString(form, o) \in [Errors!Forms -> Text]
      /\ Errors!Empty \in [Errors!Forms -> Text]
  BY UniStringText, MessageText, EmptyText DEF Errors!Forms
<1> QED
  BY <1>1 DEF Errors!ErrorInfo, Errors!Records, Text

LEMMA JoinedText ==
    ASSUME NEW s \in Text, NEW t \in Text
    PROVE  Errors!Joined(s, t) \in Text
<1>1. s \o <<":">> \o t \in Text
  BY FixedText, Concatenated, Zenon DEF Text
<1> QED
  BY <1>1 DEF Errors!Joined

LEMMA MakeWhatText ==
    ASSUME NEW x \in Errors!Records, NEW form \in Errors!Forms
    PROVE  Errors!make_what(x, form) \in [Errors!Forms -> Text]
<1> DEFINE s == Errors!Joined(Errors!Joined(x.object[form], x.custom[form]), x.system[form])
<1>1. x.object[form] \in Text /\ x.custom[form] \in Text /\ x.system[form] \in Text
  BY DEF Errors!Records, Text
<1>2. s \in Text
  BY <1>1, JoinedText
<1>3. <<"Unknown error">> \in Text /\ "char" \in Errors!Forms
  BY FixedText DEF Errors!Forms
<1> QED
  BY <1>2, <1>3, UniStringText DEF Errors!make_what

LEMMA ErrorsInit == Errors!Init => ErrorsInv
BY ErrorInfoAssumption DEF Errors!Init, ErrorsInv, Errors!InfoShared

LEMMA NewInv ==
    ASSUME ErrorsInv, NEW e \in Exc, NEW x \in Errors!Records, Errors!New(e, x)
    PROVE  ErrorsInv' /\ err' = err
<1>1. PICK i \in Info : /\ info[i] = None
                        /\ info' = [info EXCEPT ![i] = x] /\ m_info' = [m_info EXCEPT ![e] = i]
  BY DEF Errors!New
<1>2. m_info[e] = None /\ m_errno' = m_errno /\ err' = err /\ x # None /\ None \notin Info
  BY ErrorInfoAssumption DEF Errors!New
<1>3. \A d \in Exc : m_info[d] # i
  BY <1>1, <1>2 DEF ErrorsInv, Errors!InfoShared
<1> QED
  BY <1>1, <1>2, <1>3 DEF ErrorsInv, Errors!InfoShared

LEMMA ErrorsNext ==
    ASSUME ErrorsInv, err \in Code, Errors!Next
    PROVE  ErrorsInv' /\ err' \in Code
<1> USE DEF ErrorsInv
<1>1. None \notin Info /\ None \notin Errors!Records /\ ErrorText \subseteq Text
  BY ErrorInfoAssumption DEF Text
<1>2. ASSUME NEW c \in Code, Errors!Fail(c)
      PROVE  ErrorsInv' /\ err' \in Code
  BY <1>2 DEF Errors!Fail, Errors!InfoShared
<1>3. ASSUME NEW e \in Exc, NEW form \in Errors!Forms, NEW o \in Errors!Named,
             NEW m \in Errors!Named, Errors!Throw(e, form, o, m)
      PROVE  ErrorsInv' /\ err' \in Code
  <2>1. Errors!ErrorInfo(err, form, o, m) \in Errors!Records
    BY <1>1, NewRecord DEF Errors!Named
  <2> QED
    BY <1>3, <2>1, NewInv DEF Errors!Throw
<1>4. ASSUME NEW e \in Exc, NEW form \in Errors!Forms, NEW c \in Code,
             NEW o \in Errors!Named, Errors!ThrowCode(e, c, form, o)
      PROVE  ErrorsInv' /\ err' \in Code
  <2>1. <<>> \in Text
    BY FixedText
  <2>2. Errors!ErrorInfo(c, form, o, <<>>) \in Errors!Records
    BY <1>1, <2>1, NewRecord DEF Errors!Named
  <2> QED
    BY <1>4, <2>2, NewInv DEF Errors!ThrowCode
<1>5. ASSUME NEW e \in Exc, NEW form \in Errors!Forms, Errors!What(e, form)
      PROVE  ErrorsInv' /\ err' \in Code
  <2> DEFINE i == m_info[e]
             x == info[i]
             w == IF x.what = Errors!Empty THEN Errors!make_what(x, form) ELSE x.what
  <2>1. /\ i # None /\ err' = err /\ m_info' = m_info /\ m_errno' = m_errno
        /\ info' = [info EXCEPT ![i].what = w]
    BY <1>5 DEF Errors!What
  <2>2. i \in Info /\ x \in Errors!Records
    BY <1>1, <2>1 DEF Errors!InfoShared
  <2>3. x.what \in [Errors!Forms -> Text]
    BY <2>2 DEF Errors!Records, Text
  <2>4. w \in [Errors!Forms -> Text]
    BY <2>2, <2>3, MakeWhatText
  <2> HIDE DEF w
  <2>5. [x EXCEPT !.what = w] \in Errors!Records
    BY <2>2, <2>4 DEF Errors!Records, Text
  <2>6. info' = [info EXCEPT ![i] = [x EXCEPT !.what = w]]
    BY <2>1
  <2> HIDE DEF i, x
  <2>7. info' \in [Info -> Errors!Records \cup {None}]
    BY <2>2, <2>5, <2>6
  <2>8. \A j \in Info : info'[j] # None <=> info[j] # None
    BY <1>1, <2>2, <2>5, <2>6 DEF x
  <2> QED
    BY <2>1, <2>7, <2>8 DEF Errors!InfoShared
<1>6. ASSUME NEW e \in Exc, NEW form \in Errors!Forms, Errors!Parts(e, form)
      PROVE  ErrorsInv' /\ err' \in Code
  BY <1>6 DEF Errors!Parts, Errors!InfoShared
<1>7. ASSUME NEW e \in Exc, NEW d \in Exc, Errors!Copy(e, d)
      PROVE  ErrorsInv' /\ err' \in Code
  BY <1>1, <1>7 DEF Errors!Copy, Errors!InfoShared
<1>8. ASSUME NEW e \in Exc, Errors!Destroy(e)
      PROVE  ErrorsInv' /\ err' \in Code
  <2>1. /\ m_info[e] \in Info /\ m_info' = [m_info EXCEPT ![e] = None]
        /\ err' = err /\ m_errno' = m_errno
    BY <1>8 DEF Errors!Destroy
  <2>2. CASE \A d \in Exc \ {e} : m_info[d] # m_info[e]
    <3>1. info' = [info EXCEPT ![m_info[e]] = None]
      BY <1>8, <2>2 DEF Errors!Destroy
    <3> QED
      BY <1>1, <2>1, <2>2, <3>1 DEF Errors!InfoShared
  <2>3. CASE ~\A d \in Exc \ {e} : m_info[d] # m_info[e]
    <3>1. info' = info
      BY <1>8, <2>3 DEF Errors!Destroy
    <3> QED
      BY <1>1, <2>1, <2>3, <3>1 DEF Errors!InfoShared
  <2> QED
    BY <2>2, <2>3
<1>9. CASE Errors!SentryReset \/ Errors!SentryTest
  BY <1>9 DEF Errors!SentryReset, Errors!SentryTest, Errors!InfoShared
<1> QED
  BY <1>2, <1>3, <1>4, <1>5, <1>6, <1>7, <1>8, <1>9 DEF Errors!Next

(* If no word is ill-formed, both forms are the same, and a description    *)
(* that is kept is the one that would be made again.                       *)
Clean == {s \in Text : \A i \in DOMAIN s : s[i] # Bad}
Both(s) == [f \in Errors!Forms |-> s]

Described(o, m, c) ==
    LET all == Errors!Joined(Errors!Joined(o, m), Errors!Message(c)) IN
    IF all = <<>> THEN <<"Unknown error">> ELSE all

Truly(x) ==
    /\ x.given[2] \in Clean /\ x.given[3] \in Clean
    /\ x.system = Both(Errors!Message(x.code))
    /\ x.custom = Both(x.given[3]) /\ x.object = Both(x.given[2])
    /\ x.what \in {Errors!Empty, Both(Described(x.given[2], x.given[3], x.code))}

ErrorsTrue == \A i \in Info : info[i] # None => Truly(info[i])

LEMMA UniStringClean ==
    ASSUME NEW s \in Clean, NEW form
    PROVE  Errors!UniString(form, s) = Both(s)
<1>1. Errors!Converted(s) = s
  BY ConvertedText DEF Clean
<1> QED
  BY <1>1 DEF Errors!UniString, Both

LEMMA OneClean ==
    ASSUME NEW c, c # Bad
    PROVE  \A i \in DOMAIN <<c>> : <<c>>[i] # Bad
<1>1. DOMAIN <<c>> = 1 .. 1
  OBVIOUS
<1>2. \A i \in 1 .. 1 : i = 1
  OBVIOUS
<1>3. <<c>>[1] = c
  OBVIOUS
<1> QED
  BY <1>1, <1>2, <1>3, Zenon

LEMMA FixedClean == <<>> \in Clean /\ <<"Unknown error">> \in Clean /\ <<":">> \in Clean
<1>1. \A i \in DOMAIN <<>> : <<>>[i] # Bad
  OBVIOUS
<1>2. "Unknown error" # Bad /\ ":" # Bad
  BY ErrorInfoAssumption
<1>3. /\ \A i \in DOMAIN <<"Unknown error">> : <<"Unknown error">>[i] # Bad
      /\ \A i \in DOMAIN <<":">> : <<":">>[i] # Bad
  BY <1>2, OneClean, Zenon
<1> QED
  BY <1>1, <1>3, FixedText, Zenon DEF Clean

LEMMA MessageClean ==
    ASSUME NEW c \in Code
    PROVE  Errors!Message(c) \in Clean
<1>1. \A i \in DOMAIN <<c>> : <<c>>[i] # Bad
  BY ErrorInfoAssumption, OneClean
<1>2. CASE c = NoError
  BY <1>2, FixedClean DEF Errors!Message
<1>3. CASE c # NoError
  BY <1>1, <1>3, MessageText DEF Errors!Message, Clean
<1> QED
  BY <1>2, <1>3

LEMMA ConcatClean ==
    ASSUME NEW s \in Clean, NEW t \in Clean
    PROVE  s \o t \in Clean
<1>1. s \in Seq(STRING) /\ t \in Seq(STRING)
  BY DEF Clean, Text
<1>2. s \o t \in Seq(STRING) /\ Len(s \o t) = Len(s) + Len(t)
  BY <1>1
<1>3. ASSUME NEW i \in 1 .. Len(s) + Len(t)
      PROVE  (s \o t)[i] # Bad
  <2>1. CASE i <= Len(s)
    <3>1. (s \o t)[i] = s[i] /\ i \in DOMAIN s
      BY <1>1, <2>1
    <3> QED
      BY <3>1 DEF Clean
  <2>2. CASE i > Len(s)
    <3>1. (s \o t)[i] = t[i - Len(s)] /\ i - Len(s) \in DOMAIN t
      BY <1>1, <2>2
    <3> QED
      BY <3>1 DEF Clean
  <2> QED
    BY <1>1, <2>1, <2>2
<1>4. \A i \in DOMAIN (s \o t) : (s \o t)[i] # Bad
  <2>1. DOMAIN (s \o t) = 1 .. Len(s) + Len(t)
    BY <1>2
  <2> QED
    BY <1>3, <2>1, Zenon
<1> QED
  BY <1>2, <1>4, Zenon DEF Clean, Text

LEMMA JoinedClean ==
    ASSUME NEW s \in Clean, NEW t \in Clean
    PROVE  Errors!Joined(s, t) \in Clean
<1>1. s \o <<":">> \in Clean
  BY FixedClean, ConcatClean, Zenon
<1>2. (s \o <<":">>) \o t \in Clean
  BY <1>1, ConcatClean, Zenon
<1> QED
  BY <1>2 DEF Errors!Joined

LEMMA NewTrue ==
    ASSUME NEW c \in Code, NEW form \in Errors!Forms, NEW o \in Clean, NEW m \in Clean
    PROVE  Truly(Errors!ErrorInfo(c, form, o, m))
<1>1. /\ Errors!UniString("char", Errors!Message(c)) = Both(Errors!Message(c))
      /\ Errors!UniString(form, m) = Both(m) /\ Errors!UniString(form, o) = Both(o)
  BY UniStringClean, MessageClean
<1> QED
  BY <1>1 DEF Truly, Errors!ErrorInfo

LEMMA MakesTrue ==
    ASSUME NEW x \in Errors!Records, Truly(x), NEW form \in Errors!Forms
    PROVE  /\ Errors!make_what(x, form) = Both(Described(x.given[2], x.given[3], x.code))
           /\ Errors!Description(x, form) = Described(x.given[2], x.given[3], x.code)
<1> DEFINE o == x.given[2]
           m == x.given[3]
           c == x.code
           some == Errors!Joined(o, m)
           all == Errors!Joined(some, Errors!Message(c))
<1>1. o \in Clean /\ m \in Clean /\ c \in Code
  BY DEF Truly, Errors!Records
<1>2. some \in Clean
  BY <1>1, JoinedClean
<1>3. all \in Clean
  BY <1>1, <1>2, MessageClean, JoinedClean
<1>4. x.object[form] = o /\ x.custom[form] = m /\ x.system[form] = Errors!Message(c)
  BY DEF Truly, Both
<1>5. Errors!make_what(x, form) = Both(Described(o, m, c))
  <2>1. /\ Errors!UniString("char", <<"Unknown error">>) = Both(<<"Unknown error">>)
        /\ Errors!UniString(form, all) = Both(all)
    BY <1>3, FixedClean, UniStringClean
  <2> QED
    BY <1>4, <2>1 DEF Errors!make_what, Described
<1>6. Errors!Description(x, form) = Described(o, m, c)
  <2>1. Errors!UniString(x.given[1], some)[form] = some
    BY <1>2, UniStringClean DEF Both
  <2> QED
    BY <2>1 DEF Errors!Description, Described
<1> QED
  BY <1>5, <1>6

(* What a call of what() or get_description() returns and keeps.           *)
LEMMA WhatTrue ==
    ASSUME ErrorsInv, ErrorsTrue, NEW e \in Exc, NEW form \in Errors!Forms,
           Errors!What(e, form)
    PROVE  /\ err_ret'[4] = Errors!Description(info[m_info[e]], form)
           /\ ErrorsTrue'
<1> DEFINE i == m_info[e]
           x == info[i]
           w == IF x.what = Errors!Empty THEN Errors!make_what(x, form) ELSE x.what
           all == Described(x.given[2], x.given[3], x.code)
<1>1. /\ i # None /\ info' = [info EXCEPT ![i].what = w]
      /\ err_ret' = <<"what", e, form, w[form]>>
  BY DEF Errors!What
<1>2. i \in Info /\ x \in Errors!Records /\ x # None
  BY <1>1, ErrorInfoAssumption DEF ErrorsInv, Errors!InfoShared
<1>3. Truly(x)
  BY <1>2 DEF ErrorsTrue
<1>4. w = Both(all)
  BY <1>2, <1>3, MakesTrue DEF Truly
<1>5. Errors!Description(x, form) = all
  BY <1>2, <1>3, MakesTrue
<1>6. err_ret'[4] = all
  BY <1>1, <1>4 DEF Both
<1> HIDE DEF w
<1>7. info'[i] = [x EXCEPT !.what = w] /\ \A j \in Info : j # i => info'[j] = info[j]
  BY <1>1, <1>2 DEF ErrorsInv
<1>8. Truly([x EXCEPT !.what = w])
  <2> DEFINE y == [x EXCEPT !.what = w]
  <2>1. /\ y.what = w /\ y.given = x.given /\ y.system = x.system /\ y.code = x.code
        /\ y.custom = x.custom /\ y.object = x.object
    BY <1>2 DEF Errors!Records
  <2> HIDE DEF y
  <2> QED
    BY <1>3, <1>4, <2>1 DEF Truly, y
<1>9. ErrorsTrue'
  BY <1>7, <1>8 DEF ErrorsTrue
<1> QED
  BY <1>5, <1>6, <1>9

LEMMA ErrorsTrueNext ==
    ASSUME ~IllFormed, ErrorsInv, ErrorsTrue, err \in Code, Errors!Next
    PROVE  ErrorsTrue'
<1>1. Errors!Named \subseteq Clean /\ <<>> \in Clean
  BY FixedClean, ErrorInfoAssumption DEF Errors!Named, Clean, Text
<1>2. ASSUME NEW e \in Exc, NEW x, Truly(x), Errors!New(e, x)
      PROVE  ErrorsTrue'
  <2>1. PICK i \in Info : info' = [info EXCEPT ![i] = x]
    BY <1>2 DEF Errors!New
  <2> QED
    BY <1>2, <2>1 DEF ErrorsInv, ErrorsTrue
<1>3. ASSUME NEW e \in Exc, NEW form \in Errors!Forms, NEW o \in Errors!Named,
             NEW m \in Errors!Named, Errors!Throw(e, form, o, m)
      PROVE  ErrorsTrue'
  BY <1>1, <1>2, <1>3, NewTrue DEF Errors!Throw
<1>4. ASSUME NEW e \in Exc, NEW form \in Errors!Forms, NEW c \in Code,
             NEW o \in Errors!Named, Errors!ThrowCode(e, c, form, o)
      PROVE  ErrorsTrue'
  BY <1>1, <1>2, <1>4, NewTrue DEF Errors!ThrowCode
<1>5. ASSUME NEW e \in Exc, NEW form \in Errors!Forms, Errors!What(e, form)
      PROVE  ErrorsTrue'
  BY <1>5, WhatTrue
<1>6. ASSUME NEW e \in Exc, Errors!Destroy(e)
      PROVE  ErrorsTrue'
  <2>1. info' = info \/ info' = [info EXCEPT ![m_info[e]] = None]
    BY <1>6 DEF Errors!Destroy
  <2> QED
    BY <2>1 DEF ErrorsInv, ErrorsTrue
<1>7. CASE UNCHANGED info
  BY <1>7 DEF ErrorsTrue
<1> QED
  BY <1>3, <1>4, <1>5, <1>6, <1>7
     DEF Errors!Next, Errors!Fail, Errors!Parts, Errors!Copy, Errors!SentryReset,
         Errors!SentryTest

-----------------------------------------------------------------------------
(* The clock.  What elapsed() returns at time t, if the timer was started  *)
(* at time s, does not go back.                                            *)
Since(s, t) ==
    (t - s) + (IF build = "posix" /\ t \div Second # s \div Second THEN Second ELSE 0)

Started(s) == _start_time = Clock!Query(s) /\ elapsed_ret <= Since(s, time)

ClockInv ==
    /\ build \in {"windows", "posix"} /\ time \in 0 .. MaxTime
    /\ elapsed_ret \in -1 .. MaxTime + Second
    /\ \E s \in 0 .. time : Started(s)

LEMMA Split ==
    ASSUME NEW t \in Nat
    PROVE  /\ t \div Second \in Nat /\ t % Second \in 0 .. Second - 1
           /\ t = ((t \div Second) * Second) + (t % Second)
<1>1. t % Second \in 0 .. Second - 1 /\ t \div Second \in Nat
  BY TimerAssumption
<1>2. t = ((t \div Second) * Second) + (t % Second)
  BY TimerAssumption
<1> QED
  BY <1>1, <1>2

LEMMA LaterSecond ==
    ASSUME NEW t \in Nat, NEW u \in Nat, t <= u
    PROVE  t \div Second <= u \div Second
<1> DEFINE a == t \div Second
           b == u \div Second
           x == t % Second
           y == u % Second
<1>1. /\ a \in Nat /\ b \in Nat /\ x \in 0 .. Second - 1 /\ y \in 0 .. Second - 1
      /\ t = a * Second + x /\ u = b * Second + y
  BY Split
<1> HIDE DEF a, b, x, y
<1>2. ASSUME a >= b + 1
      PROVE  FALSE
  <2>1. PICK d \in Nat : a = b + 1 + d
    BY <1>1, <1>2
  <2>2. a * Second = b * Second + Second + d * Second
    BY <1>1, <2>1, TimerAssumption, SMTT(20)
  <2>3. d * Second \in Nat /\ b * Second \in Nat
    BY <1>1, <2>1, TimerAssumption
  <2> QED
    BY <1>1, <2>2, <2>3, TimerAssumption
<1>3. a <= b
  BY <1>1, <1>2
<1> QED
  BY <1>3 DEF a, b

LEMMA SinceGrows ==
    ASSUME NEW s \in Nat, NEW t \in Nat, NEW u \in Nat, s <= t, t <= u
    PROVE  /\ Since(s, t) \in Nat /\ Since(s, t) <= Since(s, u)
           /\ Since(s, t) \in {t - s, t - s + Second}
           /\ Since(s, t) # t - s => build = "posix" /\ Since(s, t) >= Second
<1>1. /\ s \div Second \in Nat /\ t \div Second \in Nat /\ u \div Second \in Nat
      /\ s \div Second <= t \div Second /\ t \div Second <= u \div Second
  BY Split, LaterSecond
<1>2. Second \in Nat
  BY TimerAssumption
<1> QED
  BY <1>1, <1>2 DEF Since

LEMMA BeganThen ==
    ASSUME build \in {"windows", "posix"}, NEW s \in Nat, _start_time = Clock!Query(s)
    PROVE  Clock!Began = s
<1>1. s = ((s \div Second) * Second) + (s % Second)
  BY Split
<1> QED
  BY <1>1 DEF Clock!Began, Clock!Query

LEMMA ElapsedSince ==
    ASSUME build \in {"windows", "posix"}, time \in Nat, NEW s \in Nat,
           _start_time = Clock!Query(s)
    PROVE  Clock!elapsed = Since(s, time)
<1>1. CASE build = "windows"
  BY <1>1 DEF Clock!elapsed, Clock!Query, Since
<1>2. CASE build = "posix"
  <2> DEFINE a == time \div Second
             b == s \div Second
             x == time % Second
             y == s % Second
  <2>1. /\ a \in Nat /\ b \in Nat /\ x \in Nat /\ y \in Nat /\ Second \in Nat
        /\ time = a * Second + x /\ s = b * Second + y
    BY Split, TimerAssumption
  <2>2. Clock!elapsed = IF a - b = 0 THEN x - y ELSE (x - y) + (1 + (a - b)) * Second
    BY <1>2 DEF Clock!elapsed, Clock!ElapsedPosix, Clock!Query
  <2>3. Since(s, time) = (time - s) + (IF a # b THEN Second ELSE 0)
    BY <1>2 DEF Since
  <2> HIDE DEF a, b, x, y
  <2>4. (1 + (a - b)) * Second = Second + a * Second - b * Second
    BY <2>1, SMTT(20)
  <2>5. a * Second \in Nat /\ b * Second \in Nat
    BY <2>1
  <2> QED
    BY <2>1, <2>2, <2>3, <2>4, <2>5
<1> QED
  BY <1>1, <1>2

LEMMA ClockInit == Clock!Init => ClockInv
<1> SUFFICES ASSUME Clock!Init PROVE ClockInv
  OBVIOUS
<1>1. /\ build \in {"windows", "posix"} /\ time \in 0 .. MaxTime
      /\ _start_time = Clock!Query(time) /\ elapsed_ret = -1
  BY DEF Clock!Init
<1>2. Since(time, time) \in Nat /\ time \in Nat /\ Second \in Nat /\ MaxTime \in Nat
  BY <1>1, SinceGrows, TimerAssumption
<1>3. Started(time) /\ time \in 0 .. time
  BY <1>1, <1>2 DEF Started
<1> QED
  BY <1>1, <1>2, <1>3 DEF ClockInv

LEMMA ClockNext ==
    ASSUME ClockInv, Clock!Next
    PROVE  ClockInv'
<1>1. PICK s \in 0 .. time : Started(s)
  BY DEF ClockInv
<1>2. /\ build \in {"windows", "posix"} /\ time \in 0 .. MaxTime /\ time \in Nat
      /\ s \in Nat /\ s <= time /\ Second \in Nat /\ MaxTime \in Nat
      /\ elapsed_ret \in -1 .. MaxTime + Second
  BY TimerAssumption DEF ClockInv
<1>3. CASE Clock!Restart
  <2>1. Since(time, time) \in Nat
    BY <1>2, SinceGrows
  <2>2. Started(time)' /\ build' = build /\ time' = time /\ elapsed_ret' = -1
    BY <1>3, <2>1 DEF Clock!Restart, Started, Since, Clock!Query
  <2> QED
    BY <1>2, <2>2 DEF ClockInv
<1>4. CASE Clock!Elapsed
  <2>1. /\ elapsed_ret' = Since(s, time) /\ build' = build /\ time' = time
        /\ _start_time' = _start_time
    BY <1>1, <1>2, <1>4, ElapsedSince DEF Clock!Elapsed, Started
  <2>2. Since(s, time) \in Nat /\ Since(s, time) <= MaxTime + Second
    <3>1. Since(s, time) \in Nat /\ Since(s, time) \in {time - s, time - s + Second}
      BY <1>2, SinceGrows
    <3> QED
      BY <1>2, <3>1
  <2>3. Started(s)'
    BY <1>1, <2>1, <2>2 DEF Started, Since, Clock!Query
  <2> QED
    BY <1>2, <2>1, <2>2, <2>3 DEF ClockInv
<1>5. CASE Clock!Tick
  <2>1. /\ time' \in time + 1 .. MaxTime /\ build' = build /\ _start_time' = _start_time
        /\ elapsed_ret' = elapsed_ret
    BY <1>5 DEF Clock!Tick
  <2>2. Since(s, time) \in Nat /\ Since(s, time') \in Nat /\ Since(s, time) <= Since(s, time')
    BY <1>2, <2>1, SinceGrows
  <2>3. Started(s)'
    <3>1. Since(s, time)' = Since(s, time')
      BY <2>1 DEF Since
    <3>2. Clock!Query(s)' = Clock!Query(s) /\ elapsed_ret <= Since(s, time)
      BY <1>1, <2>1 DEF Clock!Query, Started
    <3>3. _start_time' = Clock!Query(s)
      BY <1>1, <2>1 DEF Started
    <3> QED
      BY <1>2, <2>1, <2>2, <3>1, <3>2, <3>3 DEF Started
  <2> QED
    BY <1>2, <2>1, <2>3 DEF ClockInv
<1> QED
  BY <1>3, <1>4, <1>5 DEF Clock!Next

LEMMA ClockTyped ==
    ASSUME ClockInv
    PROVE  Clock!TypeOK
<1>1. PICK s \in 0 .. time : Started(s)
  BY DEF ClockInv
<1>2. s \in Nat /\ build \in {"windows", "posix"}
  BY DEF ClockInv
<1>3. Clock!Began = s /\ _start_time = Clock!Query(s)
  BY <1>1, <1>2, BeganThen DEF Started
<1> QED
  BY <1>3 DEF ClockInv, Clock!TypeOK, Clock!Began

(* A call of elapsed().                                                    *)
LEMMA ElapsedTold ==
    ASSUME ClockInv, Clock!Elapsed
    PROVE  /\ elapsed_ret' >= elapsed_ret
           /\ elapsed_ret' >= time - Clock!Began
           /\ build = "windows" \/ time = Clock!Began => elapsed_ret' = time - Clock!Began
<1>1. PICK s \in 0 .. time : Started(s)
  BY DEF ClockInv
<1>2. /\ build \in {"windows", "posix"} /\ time \in Nat /\ s \in Nat /\ s <= time
      /\ Second \in Nat /\ MaxTime \in Nat
      /\ elapsed_ret \in Int
  BY TimerAssumption DEF ClockInv
<1>3. elapsed_ret' = Since(s, time) /\ Clock!Began = s /\ elapsed_ret <= Since(s, time)
  BY <1>1, <1>2, ElapsedSince, BeganThen DEF Clock!Elapsed, Started
<1>4. /\ Since(s, time) \in Nat /\ Since(s, time) \in {time - s, time - s + Second}
      /\ Since(s, time) # time - s => build = "posix" /\ Since(s, time) >= Second
  BY <1>2, SinceGrows
<1>5. time = s => Since(s, time) = time - s
  BY <1>2 DEF Since
<1> QED
  BY <1>2, <1>3, <1>4, <1>5

-----------------------------------------------------------------------------
(* The environment.                                                        *)
Envs == [Var -> Value \cup {Missing}]

EnvInv == Env!TypeOK /\ th = [t \in Thread |-> th[t]]

LEMMA EnvInit == Env!Init => EnvInv
BY DEF Env!Init, EnvInv, Env!TypeOK

(* What Ask() does, for any answer of the system.                          *)
LEMMA Asks ==
    ASSUME EnvInv, NEW t \in Thread, NEW what, NEW r, NEW otherwise, build' = build, env' = env,
           Env!Ask(t, what, r, otherwise)
    PROVE  EnvInv'
<1>1. CASE r.size > EnvSize
  <2>1. th' = [th EXCEPT ![t] = [pc |-> "again", what |-> what,
                                 buf |-> [size |-> r.size, heap |-> TRUE], seen |-> {env}]]
    BY <1>1 DEF Env!Ask, Env!LocalBuffer, Env!Asking, Env!Reserve
  <2> QED
    BY <1>1, <2>1 DEF EnvInv, Env!TypeOK
<1>2. CASE ~(r.size > EnvSize)
  <2>1. th' = th
    BY <1>2 DEF Env!Ask, Env!LocalBuffer
  <2> QED
    BY <2>1 DEF EnvInv, Env!TypeOK
<1> QED
  BY <1>1, <1>2

LEMMA ChangeInv ==
    ASSUME EnvInv, NEW t \in Thread, NEW e \in Envs, NEW what, NEW ok, Env!Change(t, e, what, ok)
    PROVE  EnvInv'
<1>1. /\ env' = e /\ build' = build
      /\ th' = [u \in Thread |-> IF th[u] = Env!Idle THEN Env!Idle
                                ELSE [th[u] EXCEPT !.seen = @ \cup {e}]]
  BY DEF Env!Change
<1>2. ASSUME NEW u \in Thread, th'[u] # Env!Idle
      PROVE  /\ th'[u].buf.heap /\ th'[u].buf.size > EnvSize
             /\ th'[u].seen \subseteq Envs
  BY <1>1, <1>2 DEF EnvInv, Env!TypeOK, Envs
<1> QED
  BY <1>1, <1>2 DEF EnvInv, Env!TypeOK, Envs

LEMMA EnvNext ==
    ASSUME EnvInv, Env!Next
    PROVE  EnvInv'
<1>1. ASSUME NEW v \in Var \cup {NoName}, Env!GetPosix(v) \/ Env!GetWide(v)
      PROVE  EnvInv'
  BY <1>1 DEF Env!GetPosix, Env!GetWide, EnvInv, Env!TypeOK
<1>2. ASSUME NEW t \in Thread, NEW v \in Var \cup {NoName}, Env!GetEnv(t, v)
      PROVE  EnvInv'
  BY <1>2, Asks DEF Env!GetEnv
<1>3. ASSUME NEW t \in Thread, NEW v \in Var \cup {NoName}, Env!UnsetEnv(t, v)
      PROVE  EnvInv'
  <2>1. env \in Envs /\ (v # NoName => [env EXCEPT ![v] = Missing] \in Envs)
    BY DEF EnvInv, Env!TypeOK, Envs
  <2> QED
    BY <1>3, <2>1, ChangeInv DEF Env!UnsetEnv
<1>4. ASSUME NEW t \in Thread, NEW v \in Var \cup {NoName}, NEW x \in Value,
             Env!SetEnv(t, v, x)
      PROVE  EnvInv'
  <2>1. env \in Envs /\ (v # NoName => [env EXCEPT ![v] = x] \in Envs)
    BY DEF EnvInv, Env!TypeOK, Envs
  <2> QED
    BY <1>4, <2>1, ChangeInv DEF Env!SetEnv
<1>5. ASSUME NEW t \in Thread, NEW src \in Sources, Env!ExpandEnv(t, src)
      PROVE  EnvInv'
  BY <1>5, Asks DEF Env!ExpandEnv
<1>6. ASSUME NEW t \in Thread, Env!Again(t)
      PROVE  EnvInv'
  BY <1>6 DEF Env!Again, EnvInv, Env!TypeOK
<1> QED
  BY <1>1, <1>2, <1>3, <1>4, <1>5, <1>6 DEF Env!Next

(* What is asked for again, if no thread lengthens a value under another   *)
(* one: there is room for it, and the environment is one of those that     *)
(* there were.                                                             *)
Expands ==
    \A src \in Sources, e \in Envs : Env!Expansion(src, e) \in Seq(STRING)

Questions == {<<"get", v>> : v \in Var} \cup {<<"expand", src>> : src \in Sources}

(* The text that question q asks for in environment e.                     *)
Wanted(q, e) ==
    IF q[1] = "get" THEN IF e[q[2]] = Missing THEN <<>> ELSE e[q[2]]
    ELSE Env!Expansion(q[2], e)

EnvAsks ==
    \A t \in Thread : th[t] # Env!Idle =>
        /\ th[t].what \in Questions /\ env \in th[t].seen
        /\ th[t].buf.size \in Nat /\ 1 + Len(Wanted(th[t].what, env)) <= th[t].buf.size

LEMMA WantedText ==
    ASSUME Expands, NEW q \in Questions, NEW e \in Envs
    PROVE  Wanted(q, e) \in Seq(STRING) /\ Len(Wanted(q, e)) \in Nat
<1>1. CASE \E v \in Var : q = <<"get", v>>
  <2>1. PICK v \in Var : q = <<"get", v>>
    BY <1>1
  <2>2. q[1] = "get" /\ q[2] = v
    BY <2>1
  <2>3. e[v] \in Value \cup {Missing}
    BY DEF Envs
  <2>4. <<>> \in Seq(STRING)
    OBVIOUS
  <2>5. CASE e[v] = Missing
    BY <2>2, <2>4, <2>5 DEF Wanted
  <2>6. CASE e[v] # Missing
    BY <2>2, <2>3, <2>6, EnvironAssumption DEF Wanted
  <2> QED
    BY <2>5, <2>6
<1>2. CASE \E src \in Sources : q = <<"expand", src>>
  <2>1. Wanted(q, e) \in Seq(STRING)
    BY <1>2 DEF Wanted, Expands
  <2> QED
    BY <2>1
<1> QED
  BY <1>1, <1>2 DEF Questions

LEMMA Appended ==
    ASSUME NEW S, NEW s \in Seq(S), NEW c
    PROVE  /\ Len(s) \in Nat /\ s = [i \in 1 .. Len(s) |-> s[i]]
           /\ Append(s, c) = [i \in 1 .. Len(s) + 1 |-> Append(s, c)[i]]
           /\ \A i \in 1 .. Len(s) : Append(s, c)[i] = s[i]
<1>1. s \in Seq(S \cup {c}) /\ Append(s, c) \in Seq(S \cup {c}) /\ Len(s) \in Nat
  OBVIOUS
<1>2. Len(Append(s, c)) = Len(s) + 1
  OBVIOUS
<1>3. \A i \in 1 .. Len(s) : Append(s, c)[i] = s[i]
  BY <1>1
<1>4. s = [i \in 1 .. Len(s) |-> s[i]]
  OBVIOUS
<1>5. \A q \in Seq(S \cup {c}) : q = [i \in 1 .. Len(q) |-> q[i]]
  OBVIOUS
<1>6. Append(s, c) = [i \in 1 .. Len(Append(s, c)) |-> Append(s, c)[i]]
  BY <1>1, <1>5, Zenon
<1> QED
  BY <1>1, <1>2, <1>3, <1>4, <1>6

(* An answer with room for the text and its NUL, and one without.          *)
LEMMA AnswerFits ==
    ASSUME NEW s \in Seq(STRING), NEW n \in Nat, NEW nul \in BOOLEAN, 1 + Len(s) <= n
    PROVE  LET r == Env!Answer(s, n, nul) IN
           /\ r.size = IF nul THEN Len(s) + 1 ELSE Len(s)
           /\ Env!Assigned(r) = IF nul THEN Append(s, Env!NUL) ELSE s
<1> DEFINE r == Env!Answer(s, n, nul)
           t == Append(s, Env!NUL)
<1>1. r = [size |-> IF nul THEN Len(s) + 1 ELSE Len(s), text |-> t]
  BY DEF Env!Answer
<1>2. /\ Len(s) \in Nat
      /\ t = [i \in 1 .. Len(s) + 1 |-> t[i]] /\ s = [i \in 1 .. Len(s) |-> s[i]]
      /\ \A i \in 1 .. Len(s) : t[i] = s[i]
  BY Appended
<1> HIDE DEF t
<1>3. DOMAIN t = 1 .. Len(s) + 1
  BY <1>2, Zenon
<1>4. r.size = (IF nul THEN Len(s) + 1 ELSE Len(s)) /\ r.text = t
  BY <1>1
<1> HIDE DEF r
<1>5. CASE nul
  <2>1. Env!Assigned(r) = [i \in 1 .. Len(s) + 1 |-> t[i]]
    BY <1>3, <1>4, <1>5 DEF Env!Assigned
  <2>2. Env!Assigned(r) = t
    BY <1>2, <2>1, Zenon
  <2> QED
    BY <1>4, <1>5, <2>2 DEF r, t
<1>6. CASE ~nul
  <2>1. \A i \in 1 .. Len(s) : i \in DOMAIN t
    BY <1>2, <1>3
  <2>2. Env!Assigned(r) = [i \in 1 .. Len(s) |-> s[i]]
    BY <1>2, <1>4, <1>6, <2>1 DEF Env!Assigned
  <2>3. Env!Assigned(r) = s
    BY <1>2, <2>2, Zenon
  <2> QED
    BY <1>4, <1>6, <2>3 DEF r
<1> QED
  BY <1>5, <1>6

LEMMA TextFits ==
    ASSUME NEW s \in Seq(STRING), NEW n \in Nat, 1 + Len(s) <= n
    PROVE  /\ Env!Answer(s, n, FALSE).size = Len(s)
           /\ Env!Assigned(Env!Answer(s, n, FALSE)) = s
           /\ Env!Answer(s, n, TRUE).size = Len(s) + 1
           /\ Env!Assigned(Env!Answer(s, n, TRUE)) = Append(s, Env!NUL)
<1>1. /\ Env!Answer(s, n, FALSE).size = (IF FALSE THEN Len(s) + 1 ELSE Len(s))
      /\ Env!Assigned(Env!Answer(s, n, FALSE)) = (IF FALSE THEN Append(s, Env!NUL) ELSE s)
  BY AnswerFits, Zenon
<1>2. /\ Env!Answer(s, n, TRUE).size = (IF TRUE THEN Len(s) + 1 ELSE Len(s))
      /\ Env!Assigned(Env!Answer(s, n, TRUE)) = (IF TRUE THEN Append(s, Env!NUL) ELSE s)
  BY AnswerFits, Zenon
<1> QED
  BY <1>1, <1>2, Zenon

LEMMA AnswerLacks ==
    ASSUME NEW s \in Seq(STRING), NEW n \in Nat, NEW nul \in BOOLEAN, ~(1 + Len(s) <= n)
    PROVE  Env!Answer(s, n, nul).size = 1 + Len(s)
BY DEF Env!Answer

(* What the system answers to question q, with room for n characters.      *)
Reply(q, n) ==
    IF q[1] = "get" THEN Env!GetVariable(q[2], n)
    ELSE Env!Answer(Env!Expansion(q[2], env), n, TRUE)

LEMMA ReplyLacks ==
    ASSUME Expands, env \in Envs, NEW q \in Questions, NEW n \in Nat,
           n # 0, ~(1 + Len(Wanted(q, env)) <= n)
    PROVE  Reply(q, n).size = 1 + Len(Wanted(q, env))
<1>1. Wanted(q, env) \in Seq(STRING)
  BY WantedText
<1>2. CASE \E v \in Var : q = <<"get", v>>
  <2>1. PICK v \in Var : q = <<"get", v>>
    BY <1>2
  <2>2. q[1] = "get" /\ q[2] = v
    BY <2>1
  <2>3. CASE env[v] = Missing
    <3>1. Wanted(q, env) = <<>> /\ Len(<<>>) = 0
      BY <2>2, <2>3 DEF Wanted
    <3> QED
      BY <3>1
  <2>4. CASE env[v] # Missing
    <3>1. Reply(q, n) = Env!Answer(Wanted(q, env), n, FALSE)
      BY <2>2, <2>4 DEF Reply, Env!GetVariable, Wanted
    <3> QED
      BY <1>1, <3>1, AnswerLacks
  <2> QED
    BY <2>3, <2>4
<1>3. CASE \E src \in Sources : q = <<"expand", src>>
  <2>1. Reply(q, n) = Env!Answer(Wanted(q, env), n, TRUE)
    BY <1>3 DEF Reply, Wanted
  <2> QED
    BY <1>1, <2>1, AnswerLacks
<1> QED
  BY <1>2, <1>3 DEF Questions

(* The end of a call whose last question is q, when there is room.         *)
Ends(x, q, seen) ==
    /\ x.what = q /\ x.seen = seen
    /\ \A v \in Var : q = <<"get", v>> =>
          IF x.rc THEN env[v] # Missing /\ x.value = env[v]
          ELSE env[v] = Missing /\ x.value = <<>>
    /\ \A src \in Sources : q = <<"expand", src>> =>
          x.rc /\ x.value = Append(Env!Expansion(src, env), Env!NUL)

LEMMA EndedTells ==
    ASSUME Expands, <<>> \notin Value, env \in Envs, NEW q \in Questions, NEW n \in Nat,
           NEW otherwise, q[1] = "get" => otherwise = <<>>, NEW seen,
           1 + Len(Wanted(q, env)) <= n
    PROVE  Ends(Env!Ended(q, Reply(q, n), otherwise, seen), q, seen)
<1> DEFINE x == Env!Ended(q, Reply(q, n), otherwise, seen)
           r == Reply(q, n)
<1>1. /\ x.what = q /\ x.seen = seen /\ x.rc = (r.size # 0)
      /\ x.value = IF r.size = 0 THEN otherwise ELSE Env!Assigned(r)
  BY DEF Env!Ended, Env!Result
<1>2. Wanted(q, env) \in Seq(STRING) /\ Len(Wanted(q, env)) \in Nat
  BY WantedText
<1> HIDE DEF x
<1>3. ASSUME NEW v \in Var, q = <<"get", v>>
      PROVE  IF x.rc THEN env[v] # Missing /\ x.value = env[v]
             ELSE env[v] = Missing /\ x.value = <<>>
  <2>1. q[1] = "get" /\ q[2] = v
    BY <1>3
  <2>2. CASE env[v] = Missing
    <3>1. r.size = 0
      BY <2>1, <2>2 DEF Reply, Env!GetVariable
    <3> QED
      BY <1>1, <2>1, <2>2, <3>1
  <2>3. CASE env[v] # Missing
    <3>1. Wanted(q, env) = env[v] /\ env[v] \in Value
      BY <2>1, <2>3 DEF Wanted, Envs
    <3>2. r = Env!Answer(env[v], n, FALSE)
      BY <2>1, <2>3 DEF Reply, Env!GetVariable
    <3>3. r.size = Len(env[v]) /\ Env!Assigned(r) = env[v]
      <4>1. env[v] \in Seq(STRING) /\ 1 + Len(env[v]) <= n
        BY <1>2, <3>1
      <4> HIDE DEF r
      <4> QED
        BY <3>2, <4>1, TextFits, Zenon
    <3>4. Len(env[v]) # 0
      BY <1>2, <3>1
    <3> HIDE DEF r
    <3> QED
      BY <1>1, <2>3, <3>3, <3>4
  <2> QED
    BY <2>2, <2>3
<1>4. ASSUME NEW src \in Sources, q = <<"expand", src>>
      PROVE  x.rc /\ x.value = Append(Env!Expansion(src, env), Env!NUL)
  <2>1. Wanted(q, env) = Env!Expansion(src, env)
    BY <1>4 DEF Wanted
  <2>2. r = Env!Answer(Wanted(q, env), n, TRUE)
    BY <1>4, <2>1 DEF Reply
  <2>3. r.size = Len(Wanted(q, env)) + 1 /\ Env!Assigned(r) = Append(Wanted(q, env), Env!NUL)
    <3> HIDE DEF r
    <3> QED
      BY <1>2, <2>2, TextFits, Zenon
  <2> HIDE DEF r
  <2>4. Len(Wanted(q, env)) + 1 # 0
    BY <1>2
  <2> QED
    BY <1>1, <2>1, <2>3, <2>4
<1> QED
  BY <1>1, <1>3, <1>4 DEF x, Ends

(* What a call tells: of a variable, and of an expansion.                  *)
Tells(x) ==
    /\ \A v \in Var : x.what = <<"get", v>> =>
          LET had == {e[v] : e \in x.seen} IN
          IF x.rc THEN x.value \in had \ {Missing}
          ELSE Missing \in had /\ x.value = <<>>
    /\ \A src \in Sources : x.what = <<"expand", src>> =>
          /\ x.rc
          /\ \E e \in x.seen : x.value = Append(Env!Expansion(src, e), Env!NUL)

LEMMA EndTells ==
    ASSUME Expands, <<>> \notin Value, env \in Envs, NEW q \in Questions, NEW n \in Nat,
           NEW otherwise, q[1] = "get" => otherwise = <<>>, NEW seen, env \in seen,
           1 + Len(Wanted(q, env)) <= n
    PROVE  Tells(Env!Ended(q, Reply(q, n), otherwise, seen))
<1> DEFINE x == Env!Ended(q, Reply(q, n), otherwise, seen)
<1>1. Ends(x, q, seen)
  BY EndedTells
<1> HIDE DEF x
<1> USE DEF Ends
<1>2. ASSUME NEW v \in Var, x.what = <<"get", v>>
      PROVE  LET had == {e[v] : e \in x.seen} IN
             IF x.rc THEN x.value \in had \ {Missing}
             ELSE Missing \in had /\ x.value = <<>>
  <2>1. env[v] \in {e[v] : e \in x.seen}
    BY <1>1
  <2>2. IF x.rc THEN env[v] # Missing /\ x.value = env[v]
        ELSE env[v] = Missing /\ x.value = <<>>
    BY <1>1, <1>2
  <2> QED
    BY <2>1, <2>2
<1>3. ASSUME NEW src \in Sources, x.what = <<"expand", src>>
      PROVE  /\ x.rc
             /\ \E e \in x.seen : x.value = Append(Env!Expansion(src, e), Env!NUL)
  BY <1>1, <1>3
<1> QED
  BY <1>2, <1>3 DEF Tells, x

LEMMA ReplyFits ==
    ASSUME Expands, env \in Envs, NEW q \in Questions, NEW n \in Nat,
           1 + Len(Wanted(q, env)) <= n
    PROVE  Reply(q, n).size \in 0 .. n
<1>1. Wanted(q, env) \in Seq(STRING) /\ Len(Wanted(q, env)) \in Nat
  BY WantedText
<1> DEFINE w == Wanted(q, env)
<1>2. \/ Reply(q, n).size = 0
      \/ Reply(q, n).size = Env!Answer(w, n, FALSE).size
      \/ Reply(q, n).size = Env!Answer(w, n, TRUE).size
  <2>1. CASE \E v \in Var : q = <<"get", v>>
    BY <2>1 DEF Reply, Wanted, Env!GetVariable
  <2>2. CASE \E src \in Sources : q = <<"expand", src>>
    BY <2>2 DEF Reply, Wanted
  <2> QED
    BY <2>1, <2>2 DEF Questions
<1>3. /\ Env!Answer(w, n, FALSE).size = Len(w)
      /\ Env!Answer(w, n, TRUE).size = Len(w) + 1
  BY <1>1, TextFits, Zenon
<1>4. Len(w) \in Nat /\ 1 + Len(w) <= n
  BY <1>1
<1>5. Reply(q, n).size = 0 \/ Reply(q, n).size = Len(w) \/ Reply(q, n).size = Len(w) + 1
  BY <1>2, <1>3, Zenon
<1> HIDE DEF w
<1> QED
  BY <1>4, <1>5

(* What is told stays true: it is about the environments of the call.      *)
EnvTold == EnvAsks /\ Tells(env_ret)

NoQuestion == {<<"none">>, <<"set">>, <<"unset">>, <<"get", NoName>>}

LEMMA NotAsked ==
    ASSUME NEW x, x.what \in NoQuestion
    PROVE  Tells(x)
<1>1. \A v \in Var : x.what # <<"get", v>>
  BY EnvironAssumption DEF NoQuestion
<1>2. \A src \in Sources : x.what # <<"expand", src>>
  BY DEF NoQuestion
<1> QED
  BY <1>1, <1>2 DEF Tells

LEMMA AskTells ==
    ASSUME Expands, <<>> \notin Value, EnvInv, EnvTold, NEW t \in Thread, NEW q \in Questions,
           NEW otherwise, q[1] = "get" => otherwise = <<>>, env' = env,
           Env!Ask(t, q, Reply(q, EnvSize), otherwise)
    PROVE  EnvTold'
<1> DEFINE r == Reply(q, EnvSize)
<1>1. env \in Envs /\ EnvSize \in Nat /\ EnvSize # 0
  BY EnvironAssumption DEF EnvInv, Env!TypeOK, Envs
<1>2. Wanted(q, env) \in Seq(STRING) /\ Len(Wanted(q, env)) \in Nat
  BY <1>1, WantedText
<1> HIDE DEF r
<1>3. CASE 1 + Len(Wanted(q, env)) <= EnvSize
  <2>1. Tells(Env!Ended(q, r, otherwise, {env})) /\ ~(r.size > EnvSize)
    <3>1. r.size \in 0 .. EnvSize
      BY <1>1, <1>3, ReplyFits DEF r
    <3> QED
      BY <1>1, <1>3, <3>1, EndTells DEF r
  <2>2. th' = th /\ env_ret' = Env!Ended(q, r, otherwise, {env})
    BY <2>1 DEF Env!Ask, Env!LocalBuffer, r
  <2> QED
    BY <2>1, <2>2 DEF EnvTold, EnvAsks
<1>4. CASE ~(1 + Len(Wanted(q, env)) <= EnvSize)
  <2>1. r.size = 1 + Len(Wanted(q, env)) /\ r.size \in Nat /\ r.size > EnvSize
    <3>1. r.size = 1 + Len(Wanted(q, env))
      BY <1>1, <1>4, ReplyLacks DEF r
    <3> QED
      BY <1>1, <1>2, <1>4, <3>1
  <2>2. /\ th' = [th EXCEPT ![t] = [pc |-> "again", what |-> q,
                                    buf |-> [size |-> r.size, heap |-> TRUE], seen |-> {env}]]
        /\ env_ret' = env_ret
    BY <2>1 DEF Env!Ask, Env!LocalBuffer, Env!Asking, Env!Reserve, r
  <2>3. 1 + Len(Wanted(q, env)) <= r.size
    BY <1>2, <2>1
  <2> QED
    BY <2>1, <2>2, <2>3 DEF EnvTold, EnvAsks, EnvInv
<1> QED
  BY <1>3, <1>4

LEMMA ChangeTells ==
    ASSUME ~Growing, EnvInv, EnvTold, NEW t \in Thread, NEW e \in Envs,
           NEW what \in {<<"set">>, <<"unset">>}, NEW ok, Env!Change(t, e, what, ok)
    PROVE  EnvTold'
<1>1. /\ env' = e /\ env_ret' = Env!Result(what, ok, <<>>, {})
      /\ th' = [u \in Thread |-> IF th[u] = Env!Idle THEN Env!Idle
                                ELSE [th[u] EXCEPT !.seen = @ \cup {e}]]
      /\ \A u \in Thread : th[u] # Env!Idle => Env!Needs(u, e) <= th[u].buf.size
  BY DEF Env!Change
<1>2. Tells(env_ret')
  <2>1. env_ret'.what \in NoQuestion
    BY <1>1 DEF Env!Result, NoQuestion
  <2> QED
    BY <2>1, NotAsked
<1>3. ASSUME NEW u \in Thread, th'[u] # Env!Idle
      PROVE  /\ th'[u].what \in Questions /\ e \in th'[u].seen
             /\ th'[u].buf.size \in Nat /\ 1 + Len(Wanted(th'[u].what, e)) <= th'[u].buf.size
  <2>1. th[u] # Env!Idle /\ th'[u] = [th[u] EXCEPT !.seen = @ \cup {e}]
    BY <1>1, <1>3
  <2>2. /\ th[u].what \in Questions /\ th[u].buf.size \in Nat /\ env \in th[u].seen
        /\ 1 + Len(Wanted(th[u].what, e)) <= th[u].buf.size
    BY <1>1, <2>1 DEF EnvTold, EnvAsks, Env!Needs, Wanted
  <2>3. th'[u].what = th[u].what /\ th'[u].buf = th[u].buf
    BY <2>1
  <2>4. e \in th'[u].seen
    BY <2>1, <2>2
  <2> QED
    BY <2>2, <2>3, <2>4
<1> QED
  BY <1>1, <1>2, <1>3 DEF EnvTold, EnvAsks

LEMMA EnvTold0 == Env!Init => EnvTold
<1> SUFFICES ASSUME Env!Init PROVE EnvTold
  OBVIOUS
<1>1. env_ret.what \in NoQuestion
  BY DEF Env!Init, Env!Result, NoQuestion
<1>2. Tells(env_ret)
  BY <1>1, NotAsked, Zenon
<1> QED
  BY <1>2 DEF Env!Init, EnvTold, EnvAsks

LEMMA EnvTells ==
    ASSUME ~Growing, Expands, <<>> \notin Value, EnvInv, EnvTold, Env!Next
    PROVE  EnvTold'
<1>1. env \in Envs /\ EnvSize \in Nat /\ EnvSize # 0
  BY EnvironAssumption DEF EnvInv, Env!TypeOK, Envs
<1>2. ASSUME NEW v \in Var \cup {NoName}, Env!GetPosix(v) \/ Env!GetWide(v)
      PROVE  EnvTold'
  <2>1. th' = th /\ env' = env
    BY <1>2 DEF Env!GetPosix, Env!GetWide
  <2>2. CASE v = NoName
    <3>1. env_ret'.what = <<"get", NoName>>
      BY <1>2, <2>2 DEF Env!GetPosix, Env!GetWide, Env!Result
    <3>2. env_ret'.what \in NoQuestion
      BY <3>1 DEF NoQuestion
    <3>3. Tells(env_ret')
      BY <3>2, NotAsked
    <3> QED
      BY <2>1, <3>3 DEF EnvTold, EnvAsks
  <2>3. CASE v # NoName
    <3> DEFINE x == env_ret'
    <3>1. /\ x.what = <<"get", v>> /\ x.seen = {env}
          /\ IF x.rc THEN env[v] # Missing /\ x.value = env[v]
             ELSE env[v] = Missing /\ x.value = <<>>
      <4>1. v \in Var /\ v # NoName /\ (env[v] # Missing => env[v] # <<>>)
        BY <1>1, <2>3 DEF Envs
      <4>2. Env!Found(v) <=> env[v] # Missing
        BY <4>1 DEF Env!Found
      <4>3. (Env!Found(v) /\ env[v] # <<>>) = Env!Found(v)
        BY <4>1, <4>2 DEF Env!Found
      <4> DEFINE f == Env!Found(v)
                 y == IF f THEN env[v] ELSE <<>>
      <4>4. x = Env!Result(<<"get", v>>, f, y, {env})
        BY <1>2, <2>3, <4>3 DEF Env!GetPosix, Env!GetWide
      <4> HIDE DEF x, f, y
      <4>5. x.what = <<"get", v>> /\ x.seen = {env} /\ x.rc = f /\ x.value = y
        BY <4>4 DEF Env!Result
      <4> QED
        BY <4>2, <4>5 DEF f, y
    <3> HIDE DEF x
    <3>2. Tells(x)
      <4>1. \A u \in Var : <<"get", u>> = <<"get", v>> => u = v
        OBVIOUS
      <4>2. \A src \in Sources : x.what # <<"expand", src>>
        BY <3>1
      <4>3. env[v] \in {e[v] : e \in x.seen}
        BY <3>1
      <4> QED
        BY <3>1, <4>1, <4>2, <4>3 DEF Tells
    <3> QED
      BY <2>1, <3>2 DEF EnvTold, EnvAsks, x
  <2> QED
    BY <2>2, <2>3
<1>3. ASSUME NEW t \in Thread, NEW v \in Var \cup {NoName}, Env!GetEnv(t, v)
      PROVE  EnvTold'
  <2>1. Env!Ask(t, <<"get", v>>, Env!GetVariable(v, EnvSize), <<>>) /\ env' = env
    BY <1>3 DEF Env!GetEnv
  <2>2. CASE v = NoName
    <3>1. Env!GetVariable(v, EnvSize) = [size |-> 0, text |-> <<>>] /\ ~(0 > EnvSize)
      BY <1>1, <2>2, EnvironAssumption DEF Env!GetVariable
    <3>2. th' = th /\ env_ret'.what \in NoQuestion
      BY <2>1, <2>2, <3>1 DEF Env!Ask, Env!LocalBuffer, Env!Ended, Env!Result, NoQuestion
    <3>3. Tells(env_ret')
      BY <3>2, NotAsked
    <3> QED
      BY <2>1, <3>2, <3>3 DEF EnvTold, EnvAsks
  <2>3. CASE v # NoName
    <3> DEFINE q == <<"get", v>>
    <3>1. q \in Questions /\ Reply(q, EnvSize) = Env!GetVariable(v, EnvSize)
      BY <2>3 DEF Questions, Reply
    <3> QED
      BY <2>1, <3>1, AskTells
  <2> QED
    BY <2>2, <2>3
<1>4. ASSUME NEW t \in Thread, NEW src \in Sources, Env!ExpandEnv(t, src)
      PROVE  EnvTold'
  <2> DEFINE q == <<"expand", src>>
  <2>1. /\ q \in Questions /\ q[1] # "get"
        /\ Reply(q, EnvSize) = Env!Answer(Env!Expansion(src, env), EnvSize, TRUE)
    BY DEF Questions, Reply
  <2>2. Env!Ask(t, q, Reply(q, EnvSize), src) /\ env' = env
    BY <1>4, <2>1 DEF Env!ExpandEnv
  <2> HIDE DEF q
  <2> QED
    BY <2>1, <2>2, AskTells
<1>5. ASSUME NEW t \in Thread, NEW v \in Var \cup {NoName}, Env!UnsetEnv(t, v)
      PROVE  EnvTold'
  <2>1. env \in Envs /\ (v # NoName => [env EXCEPT ![v] = Missing] \in Envs)
    BY <1>1 DEF Envs
  <2> QED
    BY <1>5, <2>1, ChangeTells DEF Env!UnsetEnv
<1>6. ASSUME NEW t \in Thread, NEW v \in Var \cup {NoName}, NEW x \in Value,
             Env!SetEnv(t, v, x)
      PROVE  EnvTold'
  <2>1. env \in Envs /\ (v # NoName => [env EXCEPT ![v] = x] \in Envs)
    BY <1>1 DEF Envs
  <2> QED
    BY <1>6, <2>1, ChangeTells DEF Env!SetEnv
<1>7. ASSUME NEW t \in Thread, Env!Again(t)
      PROVE  EnvTold'
  <2> DEFINE q == th[t].what
             n == th[t].buf.size
             otherwise == IF q[1] = "get" THEN <<>> ELSE q[2]
  <2>1. /\ th[t] # Env!Idle /\ th' = [th EXCEPT ![t] = Env!Idle] /\ env' = env
        /\ env_ret' = Env!Ended(q, Reply(q, n), otherwise, th[t].seen)
    BY <1>7 DEF Env!Again, Reply
  <2>2. /\ q \in Questions /\ n \in Nat /\ env \in th[t].seen
        /\ 1 + Len(Wanted(q, env)) <= n
    BY <2>1 DEF EnvTold, EnvAsks
  <2>3. q[1] = "get" => otherwise = <<>>
    OBVIOUS
  <2> HIDE DEF q, n, otherwise
  <2>4. Tells(env_ret')
    BY <1>1, <2>1, <2>2, <2>3, EndTells
  <2>5. EnvAsks'
    BY <2>1 DEF EnvTold, EnvAsks, EnvInv
  <2> QED
    BY <2>4, <2>5 DEF EnvTold
<1> QED
  BY <1>2, <1>3, <1>4, <1>5, <1>6, <1>7 DEF Env!Next

-----------------------------------------------------------------------------
(* The file system: a tree, whose entries are in directories, and a        *)
(* current directory of it, if it was not removed.                         *)
Kinds == {"none", "file", "dir"}
Parent(p) == SubSeq(p, 1, Len(p) - 1)

GoodTree(t) ==
    /\ t \in [Path -> Kinds] /\ t[Files!Root] = "dir"
    /\ \A p \in Path \ {Files!Root} : t[p] # "none" => t[Parent(p)] = "dir"

GoodFs(b, f) ==
    /\ f \in [tree : [Path -> Kinds], cwd : Path \cup {Files!Removed}] /\ GoodTree(f.tree)
    /\ f.cwd # Files!Removed => f.tree[f.cwd] = "dir"
    /\ b = "windows" => f.cwd # Files!Removed

LEMMA RootThere == Files!Root \in Path /\ Files!Root = <<>>
BY FileSysAssumption DEF Files!Root

LEMMA Prefix ==
    ASSUME NEW S, NEW s \in Seq(S), NEW n \in Nat, n <= Len(s)
    PROVE  Len(SubSeq(s, 1, n)) = n /\ (n = 0 => SubSeq(s, 1, n) = <<>>)
OBVIOUS

LEMMA ParentThere ==
    ASSUME NEW p \in Path, p # Files!Root
    PROVE  /\ Len(p) \in Nat /\ Len(p) >= 1 /\ Parent(p) \in Path
           /\ Len(Parent(p)) = Len(p) - 1 /\ Parent(p) # p
           /\ Len(p) = 1 => Parent(p) = Files!Root
<1>1. p \in Seq(STRING) /\ p # <<>>
  BY FileSysAssumption DEF Files!Root
<1>2. Len(p) \in Nat /\ Len(p) >= 1
  BY <1>1
<1>3. Parent(p) \in Path
  BY <1>2, FileSysAssumption DEF Parent
<1>4. Len(Parent(p)) = Len(p) - 1
  <2>1. Len(p) - 1 \in Nat /\ Len(p) - 1 <= Len(p)
    BY <1>2
  <2> QED
    BY <1>1, <2>1, Prefix DEF Parent
<1>5. Parent(p) # p
  BY <1>2, <1>4
<1>6. ASSUME Len(p) = 1 PROVE Parent(p) = <<>>
  BY <1>1, <1>6 DEF Parent
<1> QED
  BY <1>2, <1>3, <1>4, <1>5, <1>6 DEF Files!Root

LEMMA StatOk ==
    ASSUME NEW t, NEW p \in Files!Names, Files!Stat(t, p) = "ok"
    PROVE  p \in Path /\ t[p] # "none"
BY DEF Files!Stat, Files!Names

LEMMA PlaceOk ==
    ASSUME NEW t, GoodTree(t), NEW p \in Files!Names, Files!Place(t, p) = "ok"
    PROVE  p \in Path /\ p # Files!Root /\ t[p] = "none" /\ t[Parent(p)] = "dir"
<1>1. /\ Files!Stat(t, p) # "ok" /\ p # NoName /\ Files!Blocked(t, p) = {} /\ p \in Path
  BY DEF Files!Place, Files!Names
<1>2. t[p] = "none" /\ p # Files!Root
  BY <1>1 DEF Files!Stat, GoodTree
<1>3. Len(p) \in Nat /\ Len(p) >= 1
  BY <1>1, <1>2, ParentThere
<1>4. CASE Len(p) = 1
  BY <1>1, <1>2, <1>4, ParentThere DEF GoodTree
<1>5. CASE Len(p) # 1
  <2>1. PICK n \in Nat : n = Len(p) - 1
    BY <1>3
  <2>2. n \in 1 .. n /\ Parent(p) = SubSeq(p, 1, n)
    BY <1>3, <1>5, <2>1 DEF Parent
  <2>3. \A k \in 1 .. n : t[SubSeq(p, 1, k)] = "dir"
    BY <1>1, <2>1 DEF Files!Blocked
  <2> QED
    BY <1>1, <1>2, <2>2, <2>3
<1> QED
  BY <1>1, <1>2, <1>4, <1>5

LEMMA AddGood ==
    ASSUME NEW t, GoodTree(t), NEW p \in Path, p # Files!Root, t[p] # "dir",
           t[Parent(p)] = "dir", NEW kind \in {"file", "dir"}
    PROVE  GoodTree([t EXCEPT ![p] = kind])
<1> DEFINE u == [t EXCEPT ![p] = kind]
<1>1. u \in [Path -> Kinds] /\ u[p] = kind /\ \A q \in Path : q # p => u[q] = t[q]
  BY DEF GoodTree, Kinds
<1> HIDE DEF u
<1>2. u[Files!Root] = "dir"
  BY <1>1, RootThere DEF GoodTree
<1>3. ASSUME NEW q \in Path \ {Files!Root}, u[q] # "none"
      PROVE  u[Parent(q)] = "dir"
  <2>1. Parent(q) \in Path /\ Parent(p) \in Path /\ Parent(p) # p
    BY <1>3, ParentThere
  <2>2. CASE q = p
    BY <1>1, <2>1, <2>2
  <2>3. CASE q # p
    <3>1. t[Parent(q)] = "dir"
      BY <1>1, <1>3, <2>3 DEF GoodTree
    <3> QED
      BY <1>1, <2>1, <3>1
  <2> QED
    BY <2>2, <2>3
<1> QED
  BY <1>1, <1>2, <1>3 DEF GoodTree, u

LEMMA RemoveGood ==
    ASSUME NEW t, GoodTree(t), NEW p \in Path, p # Files!Root,
           \A q \in Path \ {Files!Root} : Parent(q) = p => t[q] = "none"
    PROVE  GoodTree([t EXCEPT ![p] = "none"])
<1> DEFINE u == [t EXCEPT ![p] = "none"]
<1>1. u \in [Path -> Kinds] /\ u[p] = "none" /\ \A q \in Path : q # p => u[q] = t[q]
  BY DEF GoodTree, Kinds
<1> HIDE DEF u
<1>2. u[Files!Root] = "dir"
  BY <1>1, RootThere DEF GoodTree
<1>3. ASSUME NEW q \in Path \ {Files!Root}, u[q] # "none"
      PROVE  u[Parent(q)] = "dir"
  <2>1. q # p /\ t[q] # "none"
    BY <1>1, <1>3
  <2>2. t[Parent(q)] = "dir" /\ Parent(q) # p
    BY <2>1 DEF GoodTree
  <2>3. Parent(q) \in Path
    BY ParentThere
  <2> QED
    BY <1>1, <2>2, <2>3
<1> QED
  BY <1>1, <1>2, <1>3 DEF GoodTree, u

LEMMA FileIsLeaf ==
    ASSUME NEW t, GoodTree(t), NEW p \in Path, t[p] = "file"
    PROVE  \A q \in Path \ {Files!Root} : Parent(q) = p => t[q] = "none"
BY DEF GoodTree

(* The system makes and removes entries, and changes the directory.        *)
LEMMA WithFields ==
    ASSUME NEW b, NEW f, GoodFs(b, f), NEW p, NEW kind
    PROVE  LET g == Files!With(f, p, kind) IN
           g = [tree |-> [f.tree EXCEPT ![p] = kind], cwd |-> f.cwd]
BY DEF GoodFs, Files!With

LEMMA WithGood ==
    ASSUME NEW b, NEW f, GoodFs(b, f), NEW p \in Path, NEW kind \in Kinds,
           GoodTree([f.tree EXCEPT ![p] = kind]), kind = "none" => f.cwd # p,
           f.tree[p] # "dir" \/ kind # "file"
    PROVE  GoodFs(b, Files!With(f, p, kind))
<1> DEFINE u == [f.tree EXCEPT ![p] = kind]
           g == [tree |-> u, cwd |-> f.cwd]
<1>1. f.cwd \in Path \cup {Files!Removed} /\ f.tree \in [Path -> Kinds]
  BY DEF GoodFs
<1>2. u \in [Path -> Kinds] /\ GoodTree(u)
  BY DEF GoodTree
<1>3. f.cwd # Files!Removed => u[f.cwd] = "dir"
  <2>1. CASE f.cwd # p
    BY <1>1, <2>1 DEF GoodFs
  <2>2. CASE f.cwd = p
    BY <1>1, <2>2 DEF GoodFs, Kinds
  <2> QED
    BY <2>1, <2>2
<1> HIDE DEF u
<1>4. g \in [tree : [Path -> Kinds], cwd : Path \cup {Files!Removed}]
  BY <1>1, <1>2
<1>5. GoodFs(b, g)
  BY <1>2, <1>3, <1>4 DEF GoodFs
<1> QED
  BY <1>5, WithFields DEF u

LEMMA MakeGood ==
    ASSUME NEW b, NEW f, GoodFs(b, f), NEW p \in Files!Names, NEW what
    PROVE  GoodFs(b, Files!Make(what, p, f).fs)
<1>1. CASE Files!Place(f.tree, p) = "ok"
  <2> DEFINE kind == IF what = "mkdir" THEN "dir" ELSE "file"
  <2>1. /\ p \in Path /\ p # Files!Root /\ f.tree[p] = "none" /\ f.tree[Parent(p)] = "dir"
        /\ GoodTree(f.tree)
    BY <1>1, PlaceOk DEF GoodFs
  <2>2. kind \in {"file", "dir"}
    OBVIOUS
  <2>3. Files!Make(what, p, f).fs = Files!With(f, p, kind)
    BY <1>1 DEF Files!Make, Files!Done
  <2> HIDE DEF kind
  <2>4. GoodTree([f.tree EXCEPT ![p] = kind])
    BY <2>1, <2>2, AddGood
  <2> QED
    BY <2>1, <2>2, <2>3, <2>4, WithGood DEF Kinds
<1>2. CASE Files!Place(f.tree, p) # "ok"
  BY <1>2 DEF Files!Make, Files!Done, Files!Refused
<1> QED
  BY <1>1, <1>2

LEMMA RemoveDirGood ==
    ASSUME NEW b, NEW f, GoodFs(b, f), NEW p \in Path
    PROVE  GoodFs(b, Files!Remove(b, p, f).fs)
<1> DEFINE g == [f EXCEPT !.cwd = IF @ = p THEN Files!Removed ELSE @]
<1>1. CASE \/ Files!Entry(f, p) # "dir" \/ Files!HasEntries(f.tree, p) \/ p = Files!Root
           \/ (b = "windows" /\ f.cwd = p)
  BY <1>1 DEF Files!Remove, Files!Refused
<1>2. CASE /\ Files!Entry(f, p) = "dir" /\ ~Files!HasEntries(f.tree, p) /\ p # Files!Root
           /\ ~(b = "windows" /\ f.cwd = p)
  <2>1. Files!Remove(b, p, f).fs = Files!With(g, p, "none")
    BY <1>2 DEF Files!Remove, Files!Done
  <2>2. /\ g.tree = f.tree /\ g.cwd = IF f.cwd = p THEN Files!Removed ELSE f.cwd
        /\ g \in [tree : [Path -> Kinds], cwd : Path \cup {Files!Removed}]
    BY DEF GoodFs
  <2> HIDE DEF g
  <2>3. GoodFs(b, g) /\ g.cwd # p
    BY <1>2, <2>2, FileSysAssumption DEF GoodFs
  <2>4. ASSUME NEW q \in Path \ {Files!Root}, Parent(q) = p PROVE f.tree[q] = "none"
    <3>1. Len(q) = Len(p) + 1 /\ SubSeq(q, 1, Len(p)) = p
      <4>1. Len(q) \in Nat /\ Len(p) = Len(q) - 1
        BY <2>4, ParentThere
      <4> QED
        BY <2>4, <4>1 DEF Parent
    <3> QED
      BY <1>2, <3>1 DEF Files!HasEntries
  <2>5. GoodTree([f.tree EXCEPT ![p] = "none"])
    BY <1>2, <2>4, RemoveGood DEF GoodFs
  <2>6. "none" \in Kinds
    BY DEF Kinds
  <2> QED
    BY <2>1, <2>2, <2>3, <2>5, <2>6, WithGood
<1> QED
  BY <1>1, <1>2

LEMMA CallGood ==
    ASSUME NEW b, NEW f, GoodFs(b, f), NEW p \in Files!Names,
           NEW what \in {"mkdir", "create", "stat", "chdir", "unlink", "rmdir"}
    PROVE  GoodFs(b, Files!Call(b, what, p, f).fs)
<1>1. CASE what \in {"mkdir", "create"}
  BY <1>1, MakeGood DEF Files!Call
<1>2. CASE what \notin {"mkdir", "create"} /\ Files!Stat(f.tree, p) # "ok"
  BY <1>2 DEF Files!Call, Files!Refused
<1>3. CASE what \notin {"mkdir", "create"} /\ Files!Stat(f.tree, p) = "ok"
  <2>1. p \in Path /\ f.tree[p] # "none" /\ Files!Entry(f, p) = f.tree[p]
    BY <1>3, StatOk DEF Files!Entry
  <2>2. CASE what = "stat"
    BY <1>3, <2>2 DEF Files!Call, Files!Done
  <2>3. CASE what = "chdir"
    <3>1. CASE f.tree[p] = "dir"
      <4>1. Files!Call(b, what, p, f).fs = [f EXCEPT !.cwd = p]
        BY <1>3, <2>1, <2>3, <3>1 DEF Files!Call, Files!Done
      <4> DEFINE g == [f EXCEPT !.cwd = p]
      <4>2. /\ g \in [tree : [Path -> Kinds], cwd : Path \cup {Files!Removed}]
            /\ g.tree = f.tree /\ g.cwd = p
        BY <2>1 DEF GoodFs
      <4> HIDE DEF g
      <4>3. GoodFs(b, g)
        BY <2>1, <3>1, <4>2, FileSysAssumption DEF GoodFs
      <4> QED
        BY <4>1, <4>3 DEF g
    <3>2. CASE f.tree[p] # "dir"
      BY <1>3, <2>1, <2>3, <3>2 DEF Files!Call, Files!Refused
    <3> QED
      BY <3>1, <3>2
  <2>4. CASE what = "unlink"
    <3>1. CASE f.tree[p] = "file"
      <4>1. Files!Call(b, what, p, f).fs = Files!With(f, p, "none")
        BY <1>3, <2>1, <2>4, <3>1 DEF Files!Call, Files!Done
      <4>2. GoodTree(f.tree) /\ p # Files!Root /\ f.cwd # p
        <5>1. p # Files!Removed
          BY <2>1, FileSysAssumption
        <5> QED
          BY <3>1, <5>1 DEF GoodFs, GoodTree
      <4>3. GoodTree([f.tree EXCEPT ![p] = "none"])
        BY <2>1, <3>1, <4>2, FileIsLeaf, RemoveGood
      <4>4. "none" \in Kinds
        BY DEF Kinds
      <4> QED
        BY <2>1, <4>1, <4>2, <4>3, <4>4, WithGood
    <3>2. CASE f.tree[p] # "file"
      BY <1>3, <2>1, <2>4, <3>2 DEF Files!Call, Files!Refused
    <3> QED
      BY <3>1, <3>2
  <2>5. CASE what = "rmdir"
    <3>1. Files!Call(b, what, p, f) = Files!Remove(b, p, f)
      BY <1>3, <2>5 DEF Files!Call
    <3> QED
      BY <2>1, <3>1, RemoveDirGood
  <2> QED
    BY <1>3, <2>2, <2>3, <2>4, <2>5
<1> QED
  BY <1>1, <1>2, <1>3

LEMMA MovedGood ==
    ASSUME NEW b, NEW f, GoodFs(b, f), NEW p \in Path, NEW q \in Path, f.tree[p] = "file",
           q # Files!Root, f.tree[q] # "dir", f.tree[Parent(q)] = "dir"
    PROVE  GoodFs(b, Files!With(Files!With(f, p, "none"), q, "file"))
<1> DEFINE g == Files!With(f, p, "none")
           u == [f.tree EXCEPT ![p] = "none"]
<1>1. GoodTree(f.tree) /\ p # Files!Root /\ f.cwd # p
  BY FileSysAssumption DEF GoodFs, GoodTree
<1>2. GoodTree(u)
  BY <1>1, FileIsLeaf, RemoveGood
<1>3. {"none", "file"} \subseteq Kinds
  BY DEF Kinds
<1>4. GoodFs(b, g)
  BY <1>1, <1>2, <1>3, WithGood
<1>5. g.tree = u
  <2>1. g = [tree |-> u, cwd |-> f.cwd]
    BY WithFields
  <2> QED
    BY <2>1
<1>6. u[q] # "dir" /\ u[Parent(q)] = "dir"
  <2>1. Parent(q) \in Path /\ Parent(q) # p
    BY ParentThere
  <2> QED
    BY <1>1, <2>1 DEF GoodTree
<1> HIDE DEF g, u
<1>7. GoodTree([u EXCEPT ![q] = "file"])
  BY <1>2, <1>6, AddGood
<1> QED
  BY <1>3, <1>4, <1>5, <1>6, <1>7, WithGood DEF g

LEMMA RenameGood ==
    ASSUME NEW b, NEW f, GoodFs(b, f), NEW p \in Files!Names, NEW q \in Files!Names,
           Files!Entry(f, p) # "dir"
    PROVE  GoodFs(b, Files!Rename(b, p, q, f).fs)
<1> DEFINE moved == Files!With(Files!With(f, p, "none"), q, "file")
<1>1. Files!Rename(b, p, q, f).fs \in {f, moved}
  BY DEF Files!Rename, Files!Done, Files!Refused
<1>2. CASE Files!Rename(b, p, q, f).fs # f
  <2>1. /\ Files!Stat(f.tree, p) = "ok"
        /\ \/ Files!Place(f.tree, q) = "ok" \/ p = q
           \/ Files!Entry(f, q) \notin {"none", "dir"}
    BY <1>2 DEF Files!Rename, Files!Done, Files!Refused
  <2>2. GoodTree(f.tree) /\ f.tree \in [Path -> Kinds]
    BY DEF GoodFs
  <2>3. p \in Path /\ f.tree[p] = "file"
    <3>1. p \in Path /\ f.tree[p] # "none" /\ f.tree[p] # "dir"
      BY <2>1, StatOk DEF Files!Entry
    <3> QED
      BY <2>2, <3>1 DEF Kinds
  <2>4. CASE Files!Place(f.tree, q) = "ok"
    <3>1. /\ q \in Path /\ q # Files!Root /\ f.tree[q] = "none" /\ f.tree[Parent(q)] = "dir"
      BY <2>2, <2>4, PlaceOk
    <3> QED
      BY <1>1, <1>2, <2>3, <3>1, MovedGood
  <2>5. CASE p = q \/ Files!Entry(f, q) \notin {"none", "dir"}
    <3>1. q \in Path /\ f.tree[q] \notin {"none", "dir"}
      BY <2>3, <2>5, StatOk DEF Files!Entry
    <3>2. q # Files!Root /\ f.tree[Parent(q)] = "dir"
      BY <2>2, <3>1 DEF GoodTree
    <3> QED
      BY <1>1, <1>2, <2>3, <3>1, <3>2, MovedGood
  <2> QED
    BY <2>1, <2>4, <2>5
<1> QED
  BY <1>2

(* getcwd (DST) has seen the directory that is the current one, and its    *)
(* second buffer is the one of grow_buffer(), or as long as GetCurrent-    *)
(* Directory() has asked for.                                              *)
Again ==
    /\ dst = [pc |-> "again", size |-> dst.size, seen |-> dst.seen]
    /\ fs.cwd \in dst.seen
    /\ build = "posix" => dst.size = Files!Larger(CwdSize, GrownSize)
    /\ build = "windows" => \E d \in dst.seen :
                              dst.size = Files!Larger(CwdSize, Files!Chars(d) + 1)

FilesInv ==
    /\ build \in {"posix", "windows"} /\ GoodFs(build, fs)
    /\ dst # Files!Idle => Again

LEMMA FilesInit == Files!Init => FilesInv
<1> SUFFICES ASSUME Files!Init PROVE FilesInv
  OBVIOUS
<1> DEFINE t == [p \in Path |-> IF p = Files!Root THEN "dir" ELSE "none"]
<1>1. /\ build \in {"posix", "windows"} /\ fs = [tree |-> t, cwd |-> Files!Root]
      /\ dst = Files!Idle
  BY DEF Files!Init
<1>2. t \in [Path -> Kinds] /\ \A p \in Path : t[p] = IF p = Files!Root THEN "dir" ELSE "none"
  BY DEF Kinds
<1> HIDE DEF t
<1>3. GoodTree(t)
  BY <1>2, RootThere DEF GoodTree
<1>4. GoodFs(build, [tree |-> t, cwd |-> Files!Root])
  BY <1>2, <1>3, RootThere, FileSysAssumption DEF GoodFs
<1> QED
  BY <1>1, <1>4 DEF FilesInv

(* A call of the system that the program makes, or another thread.         *)
LEMMA CalledInv ==
    ASSUME FilesInv, GoodFs(build, fs'), UNCHANGED build,
           \/ dst = Files!Idle /\ dst' = dst
           \/ dst # Files!Idle /\ dst' = [dst EXCEPT !.seen = @ \cup {fs'.cwd}]
    PROVE  FilesInv'
<1>1. CASE dst = Files!Idle /\ dst' = dst
  BY <1>1 DEF FilesInv
<1>2. CASE dst # Files!Idle /\ dst' = [dst EXCEPT !.seen = @ \cup {fs'.cwd}]
  <2>1. Again
    BY <1>2 DEF FilesInv
  <2>2. /\ dst' = [pc |-> "again", size |-> dst.size, seen |-> dst.seen \cup {fs'.cwd}]
    BY <1>2, <2>1 DEF Again
  <2>3. /\ dst'.size = dst.size /\ dst'.seen = dst.seen \cup {fs'.cwd}
        /\ dst' = [pc |-> "again", size |-> dst'.size, seen |-> dst'.seen]
    BY <2>2
  <2>4. Again'
    BY <2>1, <2>3 DEF Again
  <2> QED
    BY <2>4 DEF FilesInv
<1> QED
  BY <1>1, <1>2

LEMMA FilesNext ==
    ASSUME FilesInv, Files!Next
    PROVE  FilesInv'
<1>1. GoodFs(build, fs) /\ Path \subseteq Files!Names
  BY DEF FilesInv, Files!Names
<1>2. ASSUME NEW what \in {"chdir", "mkdir", "rmdir", "unlink", "create"},
             NEW wide, NEW p \in Files!Names, Files!Do(what, wide, p)
      PROVE  FilesInv'
  <2>1. /\ dst = Files!Idle /\ UNCHANGED <<build, dst>>
        /\ fs' = Files!Call(build, what, p, fs).fs \/ fs' = fs
    BY <1>2 DEF Files!Do
  <2>2. GoodFs(build, fs')
    BY <1>1, <2>1, CallGood
  <2> QED
    BY <2>1, <2>2, CalledInv
<1>3. ASSUME NEW wide, NEW p \in Files!Names, NEW q \in Files!Names, Files!rename(wide, p, q)
      PROVE  FilesInv'
  <2>1. /\ dst = Files!Idle /\ UNCHANGED <<build, dst>> /\ Files!Entry(fs, p) # "dir"
        /\ fs' = Files!Rename(build, p, q, fs).fs \/ fs' = fs
    BY <1>3 DEF Files!rename
  <2>2. GoodFs(build, fs')
    BY <1>1, <2>1, RenameGood
  <2> QED
    BY <2>1, <2>2, CalledInv
<1>4. ASSUME NEW wide, NEW p \in Files!Names,
             Files!exists(wide, p) \/ Files!get_mod_time(wide, p) \/ Files!get_size(wide, p)
      PROVE  FilesInv'
  BY <1>1, <1>4, CalledInv DEF Files!exists, Files!get_mod_time, Files!get_size
<1>5. ASSUME NEW n, NEW wide, Files!getcwd(n, wide)
      PROVE  FilesInv'
  BY <1>1, <1>5, CalledInv DEF Files!getcwd
<1>6. ASSUME Files!GetcwdBegin
      PROVE  FilesInv'
  <2>1. UNCHANGED <<build, fs>>
    BY <1>6 DEF Files!GetcwdBegin
  <2>2. CASE build = "windows"
    <3> DEFINE n == Files!Larger(CwdSize, Files!Chars(fs.cwd) + 1)
    <3>1. dst' = [pc |-> "again", size |-> n, seen |-> {fs.cwd}]
      BY <1>6, <2>2 DEF Files!GetcwdBegin, Files!Again
    <3>2. /\ dst'.size = n /\ dst'.seen = {fs.cwd}
          /\ dst' = [pc |-> "again", size |-> dst'.size, seen |-> dst'.seen]
      BY <3>1
    <3>3. Again'
      BY <2>1, <2>2, <3>2 DEF Again
    <3> QED
      BY <2>1, <3>3 DEF FilesInv
  <2>3. CASE build # "windows" /\ Files!GetCwd(CwdSize) = "ERANGE"
    <3> DEFINE n == Files!Larger(CwdSize, GrownSize)
    <3>1. dst' = [pc |-> "again", size |-> n, seen |-> {fs.cwd}]
      BY <1>6, <2>3 DEF Files!GetcwdBegin
    <3>2. /\ dst'.size = n /\ dst'.seen = {fs.cwd}
          /\ dst' = [pc |-> "again", size |-> dst'.size, seen |-> dst'.seen]
      BY <3>1
    <3>3. Again'
      BY <2>1, <2>3, <3>2 DEF Again
    <3> QED
      BY <2>1, <3>3 DEF FilesInv
  <2>4. CASE build # "windows" /\ Files!GetCwd(CwdSize) # "ERANGE"
    BY <1>6, <2>1, <2>4 DEF Files!GetcwdBegin, Files!Ended, FilesInv
  <2> QED
    BY <2>2, <2>3, <2>4
<1>7. ASSUME Files!GetcwdAgain
      PROVE  FilesInv'
  <2>1. UNCHANGED <<build, fs>> /\ dst' = Files!Idle
    BY <1>7 DEF Files!GetcwdAgain, Files!Ended
  <2> QED
    BY <2>1 DEF FilesInv
<1>8. ASSUME NEW p \in Path, NEW what \in {"chdir", "mkdir", "rmdir"},
             Files!Other(Files!Call(build, what, p, fs).fs)
      PROVE  FilesInv'
  <2>1. GoodFs(build, Files!Call(build, what, p, fs).fs)
    BY <1>1, CallGood
  <2>2. /\ fs' = Files!Call(build, what, p, fs).fs /\ build' = build
        /\ dst # Files!Idle /\ dst' = [dst EXCEPT !.seen = @ \cup {fs'.cwd}]
    BY <1>8 DEF Files!Other
  <2> QED
    BY <2>1, <2>2, CalledInv
<1> QED
  BY <1>2, <1>3, <1>4, <1>5, <1>6, <1>7, <1>8
  DEF Files!Next, Files!chdir, Files!mkdir, Files!rmdir, Files!unlink, Files!create_file

LEMMA FilesTyped ==
    ASSUME FilesInv
    PROVE  Files!TypeOK
<1>1. /\ fs.tree \in [Path -> Kinds] /\ fs.cwd \in Path \cup {Files!Removed} /\ GoodTree(fs.tree)
      /\ fs.cwd # Files!Removed => fs.tree[fs.cwd] = "dir"
  BY DEF FilesInv, GoodFs
<1> QED
  BY <1>1 DEF FilesInv, GoodTree, Files!TypeOK, Kinds, Parent

-----------------------------------------------------------------------------
(* What the calls return of the current directory, and of a name.          *)
LEMMA LongName ==
    ASSUME NEW p \in Path
    PROVE  /\ Files!Bytes(p) \in Nat \ {0} /\ Files!Chars(p) \in Nat \ {0}
           /\ \A n \in Nat : n > Files!Chars(p) => n * MbLen > Files!Bytes(p)
<1> DEFINE L == Len(p)
           m == MbLen
<1>1. L \in Nat /\ m \in Nat \ {0} /\ (p # Files!Root => L >= 1)
  BY ParentThere, FileSysAssumption
<1> HIDE DEF L, m
<1>2. \A k \in Nat : k * m \in Nat /\ k * m >= k
  BY <1>1
<1>3. CASE p = Files!Root
  <2>1. Files!Bytes(p) = 1 /\ Files!Chars(p) = 1
    BY <1>3 DEF Files!Bytes, Files!Chars
  <2> QED
    BY <1>2, <2>1 DEF m
<1>4. CASE p # Files!Root
  <2>1. Files!Bytes(p) = L * (1 + m) /\ Files!Chars(p) = L * 2
    BY <1>4 DEF Files!Bytes, Files!Chars, L, m
  <2>2. L * (1 + m) = L + L * m /\ L * m >= L /\ L * m \in Nat
    BY <1>1, <1>2
  <2>3. ASSUME NEW n \in Nat, n > L * 2
        PROVE  n * m > L + L * m
    <3>1. PICK d \in Nat : n = L + L + 1 + d
      <4>1. n - (L + L + 1) \in Nat /\ n = L + L + 1 + (n - (L + L + 1))
        BY <1>1, <2>3
      <4> QED
        BY <4>1
    <3>2. n * m = L * m + L * m + m + d * m
      BY <1>1, <3>1
    <3>3. d * m \in Nat
      BY <1>2
    <3> QED
      BY <1>1, <2>2, <3>2, <3>3
  <2> QED
    BY <1>1, <1>4, <2>1, <2>2, <2>3 DEF m
<1> QED
  BY <1>3, <1>4

LEMMA CwdTold ==
    ASSUME FilesInv, Files!GetcwdBegin \/ Files!GetcwdAgain, dst' = Files!Idle
    PROVE  IF fs_ret'[2] THEN fs_ret'[3] \in fs_ret'[4] /\ fs_ret'[3] # Files!Removed
           ELSE /\ fs_ret'[3] = NoName
                /\ \/ Files!Removed \in fs_ret'[4]
                   \/ (build = "windows" /\ fs_ret'[4] # {fs.cwd})
                   \/ \E d \in fs_ret'[4] : build = "posix" /\ Files!Bytes(d) >= GrownSize
<1>1. /\ fs.cwd \in Path \cup {Files!Removed} /\ build \in {"posix", "windows"}
      /\ build = "windows" => fs.cwd # Files!Removed
      /\ CwdSize \in Nat \ {0} /\ GrownSize \in Nat
  BY FileSysAssumption DEF FilesInv, GoodFs
<1>2. CASE Files!GetcwdBegin
  <2>1. build = "posix" /\ Files!GetCwd(CwdSize) # "ERANGE"
    BY <1>1, <1>2 DEF Files!GetcwdBegin, Files!Again, Files!Idle
  <2>2. /\ Files!Ended(Files!GetCwd(CwdSize) = "ok", {fs.cwd})
    BY <1>2, <2>1 DEF Files!GetcwdBegin
  <2>3. Files!GetCwd(CwdSize) = IF fs.cwd = Files!Removed THEN "ENOENT" ELSE "ok"
    BY <1>1, <2>1 DEF Files!GetCwd
  <2> QED
    BY <2>2, <2>3 DEF Files!Ended
<1>3. CASE Files!GetcwdAgain
  <2>1. Again
    BY <1>3 DEF FilesInv, Files!GetcwdAgain
  <2>2. CASE build = "windows"
    <3>1. PICK d \in dst.seen : dst.size = Files!Larger(CwdSize, Files!Chars(d) + 1)
      BY <2>1, <2>2 DEF Again
    <3>2. Files!Ended(Files!Chars(fs.cwd) < dst.size, dst.seen)
      BY <1>3, <2>2 DEF Files!GetcwdAgain
    <3>3. CASE Files!Chars(fs.cwd) < dst.size
      BY <1>1, <2>1, <2>2, <3>2, <3>3 DEF Files!Ended, Again
    <3>4. CASE ~(Files!Chars(fs.cwd) < dst.size)
      <4>1. fs.cwd \in Path
        BY <1>1, <2>2
      <4>2. Files!Chars(fs.cwd) \in Nat
        BY <4>1, LongName
      <4>3. d # fs.cwd
        BY <1>1, <3>1, <3>4, <4>2 DEF Files!Larger
      <4> QED
        BY <2>2, <3>2, <3>4, <4>3 DEF Files!Ended
    <3> QED
      BY <3>3, <3>4
  <2>3. CASE build = "posix"
    <3>1. dst.size = Files!Larger(CwdSize, GrownSize)
      BY <2>1, <2>3 DEF Again
    <3>2. dst.size \in Nat \ {0} /\ dst.size >= GrownSize
      BY <1>1, <3>1 DEF Files!Larger
    <3>3. Files!Ended(Files!GetCwd(dst.size) = "ok", dst.seen)
      BY <1>3, <2>3 DEF Files!GetcwdAgain
    <3>4. CASE fs.cwd = Files!Removed
      BY <2>1, <3>3, <3>4 DEF Files!Ended, Files!GetCwd, Again
    <3>5. CASE fs.cwd # Files!Removed /\ Files!Bytes(fs.cwd) >= dst.size
      <4>1. Files!Bytes(fs.cwd) >= GrownSize
        BY <1>1, <3>2, <3>5, LongName
      <4> QED
        BY <2>1, <2>3, <3>2, <3>3, <3>5, <4>1 DEF Files!Ended, Files!GetCwd, Again
    <3>6. CASE fs.cwd # Files!Removed /\ ~(Files!Bytes(fs.cwd) >= dst.size)
      BY <2>1, <3>2, <3>3, <3>6 DEF Files!Ended, Files!GetCwd, Again
    <3> QED
      BY <3>4, <3>5, <3>6
  <2> QED
    BY <1>1, <2>2, <2>3
<1> QED
  BY <1>2, <1>3

LEMMA CwdFitted ==
    ASSUME FilesInv, NEW n \in 0 .. GrownSize, NEW wide \in BOOLEAN, Files!getcwd(n, wide)
    PROVE  fs_ret'[3] <=> /\ fs.cwd # Files!Removed
                          /\ n > IF wide THEN Files!Chars(fs.cwd) ELSE Files!Bytes(fs.cwd)
<1> DEFINE c == fs.cwd
           m == Files!Larger(n * MbLen, CwdSize)
<1>1. /\ c \in Path \cup {Files!Removed} /\ build \in {"posix", "windows"}
      /\ build = "windows" => c # Files!Removed
      /\ n \in Nat /\ MbLen \in Nat \ {0} /\ CwdSize \in Nat \ {0}
  BY FileSysAssumption DEF FilesInv, GoodFs
<1>2. ASSUME c # Files!Removed
      PROVE  /\ Files!Bytes(c) \in Nat \ {0} /\ Files!Chars(c) \in Nat \ {0}
             /\ n > Files!Chars(c) => n * MbLen > Files!Bytes(c)
  BY <1>1, <1>2, LongName
<1>3. m \in Nat \ {0} /\ m >= n * MbLen /\ n * MbLen \in Nat
  BY <1>1 DEF Files!Larger
<1>4. CASE build = "windows"
  <2>1. fs_ret'[3] = IF wide THEN Files!Chars(c) < n ELSE Files!Bytes(c) < n
    BY <1>4 DEF Files!getcwd
  <2>2. c # Files!Removed /\ Files!Bytes(c) \in Nat /\ Files!Chars(c) \in Nat
    BY <1>1, <1>2, <1>4
  <2> QED
    BY <1>1, <2>1, <2>2
<1>5. CASE build = "posix" /\ wide
  <2>1. fs_ret'[3] = (n # 0 /\ Files!GetCwd(m) = "ok" /\ Files!Chars(c) < n)
    BY <1>5 DEF Files!getcwd
  <2> HIDE DEF m
  <2>2. CASE c = Files!Removed
    BY <2>1, <2>2 DEF Files!GetCwd
  <2>3. CASE c # Files!Removed
    <3>1. Files!GetCwd(m) = IF Files!Bytes(c) >= m THEN "ERANGE" ELSE "ok"
      BY <1>3, <2>3 DEF Files!GetCwd
    <3>2. n > Files!Chars(c) => ~(Files!Bytes(c) >= m) /\ n # 0
      BY <1>1, <1>2, <1>3, <2>3
    <3> QED
      BY <1>1, <1>2, <1>5, <2>1, <2>3, <3>1, <3>2
  <2> QED
    BY <2>2, <2>3
<1>6. CASE build = "posix" /\ ~wide
  <2>1. fs_ret'[3] = (n # 0 /\ Files!GetCwd(n) = "ok")
    BY <1>6 DEF Files!getcwd
  <2>2. CASE c = Files!Removed
    BY <2>1, <2>2 DEF Files!GetCwd
  <2>3. CASE c # Files!Removed
    <3>1. Files!Bytes(c) \in Nat \ {0}
      BY <1>2, <2>3
    <3>2. n # 0 => Files!GetCwd(n) = IF Files!Bytes(c) >= n THEN "ERANGE" ELSE "ok"
      BY <2>3 DEF Files!GetCwd
    <3>3. (n # 0 /\ Files!GetCwd(n) = "ok") <=> n > Files!Bytes(c)
      BY <1>1, <3>1, <3>2
    <3> QED
      BY <1>6, <2>1, <2>3, <3>3
  <2> QED
    BY <2>2, <2>3
<1> QED
  BY <1>1, <1>4, <1>5, <1>6

LEMMA NamesTold ==
    ASSUME FilesInv, ~EmptyNames, NEW p \in Files!Names, NEW wide \in BOOLEAN
    PROVE  /\ Files!get_mod_time(wide, p) /\ fs_ret'[1] = "throw" =>
                fs_ret'[3] = Files!Stat(fs.tree, p) /\ fs_ret'[3] # "ok"
           /\ Files!exists(wide, p) =>
                (fs_ret'[3] <=> \/ Files!Entry(fs, p) # "none"
                                \/ build = "posix" /\ Files!Stat(fs.tree, p) = "ENOTDIR")
<1> DEFINE code == Files!Stat(fs.tree, p)
<1>1. code \in {"ok", "ENOENT", "ENOTDIR"} /\ build \in {"posix", "windows"}
  BY DEF Files!Stat, FilesInv
<1>2. Files!Entry(fs, p) # "none" <=> code = "ok"
  BY StatOk DEF Files!Entry
<1>3. Files!Passable(wide, p) => Files!Converts(wide, p)
  BY DEF Files!Passable, Files!Converts
<1>4. ASSUME Files!get_mod_time(wide, p), fs_ret'[1] = "throw"
      PROVE  fs_ret'[3] = code /\ fs_ret'[3] # "ok"
  BY <1>3, <1>4 DEF Files!get_mod_time, Files!Errno
<1>5. ASSUME Files!exists(wide, p)
      PROVE  fs_ret'[3] <=> code = "ok" \/ (build = "posix" /\ code = "ENOTDIR")
  <2>1. fs_ret'[3] = IF build = "windows" THEN code = "ok"
                     ELSE Files!Converts(wide, p) /\ code # "ENOENT"
    BY <1>5 DEF Files!exists
  <2>2. Files!Converts(wide, p)
    BY <1>3, <1>5 DEF Files!exists
  <2> HIDE DEF code
  <2> QED
    BY <1>1, <2>1, <2>2
<1> QED
  BY <1>2, <1>4, <1>5

-----------------------------------------------------------------------------
(* The clipboard.  What two texts say up to their NUL is the same.         *)
Same(t, u) == Clip!Upto(Append(t, Clip!NUL)) = Clip!Upto(Append(u, Clip!NUL))

LEMMA TextIs ==
    ASSUME NEW t \in Text
    PROVE  /\ Len(t) \in Nat /\ DOMAIN t = 1 .. Len(t) /\ \A i \in 1 .. Len(t) : t[i] \in STRING
           /\ Append(t, Clip!NUL) \in Text /\ Len(Append(t, Clip!NUL)) = Len(t) + 1
           /\ \A i \in 1 .. Len(t) : Append(t, Clip!NUL)[i] = t[i]
           /\ Append(t, Clip!NUL)[Len(t) + 1] = Clip!NUL
BY ClipboardAssumption DEF Text

LEMMA Part ==
    ASSUME NEW t \in Text, NEW n \in Nat, n <= Len(t)
    PROVE  /\ SubSeq(t, 1, n) \in Text /\ Len(SubSeq(t, 1, n)) = n
           /\ \A i \in 1 .. n : SubSeq(t, 1, n)[i] = t[i]
BY DEF Text

LEMMA Equal ==
    ASSUME NEW t \in Text, NEW u \in Text, Len(t) = Len(u), \A i \in 1 .. Len(t) : t[i] = u[i]
    PROVE  t = u
BY DEF Text

(* Up to the first NUL.                                                    *)
First(t, i) ==
    i \in 1 .. Len(t) /\ t[i] = Clip!NUL /\ \A j \in 1 .. i - 1 : t[j] # Clip!NUL

LEMMA FirstNul ==
    ASSUME NEW t \in Text, NEW i, First(t, i)
    PROVE  Clip!Upto(t) = SubSeq(t, 1, i)
<1> DEFINE nuls == {k \in DOMAIN t : t[k] = Clip!NUL}
<1>1. i \in nuls /\ nuls \subseteq Nat /\ i \in Nat
  BY TextIs DEF First
<1>2. \A j \in nuls : i <= j
  <2>1. ASSUME NEW j \in nuls, ~(i <= j) PROVE FALSE
    <3>1. j \in 1 .. i - 1 /\ t[j] = Clip!NUL
      BY <1>1, <2>1, TextIs
    <3> QED
      BY <3>1 DEF First
  <2> QED
    BY <2>1
<1>3. \A m \in nuls : (\A j \in nuls : m <= j) => m = i
  BY <1>1, <1>2
<1>4. (CHOOSE m \in nuls : \A j \in nuls : m <= j) = i
  BY <1>1, <1>2, <1>3
<1>5. Clip!Upto(t) = SubSeq(t, 1, CHOOSE m \in nuls : \A j \in nuls : m <= j)
  BY <1>1 DEF Clip!Upto
<1> QED
  BY <1>4, <1>5

LEMMA HasFirst ==
    ASSUME NEW t \in Text, \E k \in 1 .. Len(t) : t[k] = Clip!NUL
    PROVE  \E i : First(t, i)
<1> DEFINE nuls == {k \in 1 .. Len(t) : t[k] = Clip!NUL}
<1>1. nuls \subseteq Nat /\ nuls # {} /\ Len(t) \in Nat
  BY TextIs
<1>2. PICK m \in nuls : \A j \in nuls : ~ (<<j, m>> \in OpToRel(<, Nat))
  BY <1>1, NatLessThanWellFounded, WFMin
<1>3. \A j \in nuls : <<j, m>> \in OpToRel(<, Nat) <=> j < m
  BY <1>1 DEF OpToRel
<1>4. \A j \in nuls : ~ (j < m)
  BY <1>2, <1>3, Zenon
<1>5. ASSUME NEW j \in 1 .. m - 1, t[j] = Clip!NUL PROVE FALSE
  BY <1>1, <1>4, <1>5
<1> QED
  BY <1>5 DEF First

LEMMA NoNul ==
    ASSUME NEW t \in Text, \A k \in 1 .. Len(t) : t[k] # Clip!NUL
    PROVE  Clip!Upto(t) = t
BY TextIs DEF Clip!Upto

LEMMA SameText ==
    ASSUME NEW t \in Text, NEW u \in Text, NEW i \in Nat, First(Append(t, Clip!NUL), i),
           Len(u) >= i - 1, \A j \in 1 .. i - 1 : u[j] = t[j],
           Len(u) >= i => u[i] = Clip!NUL
    PROVE  Same(u, t)
<1> DEFINE v == Append(t, Clip!NUL)
           w == Append(u, Clip!NUL)
<1>1. /\ v \in Text /\ Len(t) \in Nat /\ Len(v) = Len(t) + 1
      /\ w \in Text /\ Len(u) \in Nat /\ Len(w) = Len(u) + 1
      /\ \A j \in 1 .. Len(t) : v[j] = t[j]
      /\ \A j \in 1 .. Len(u) : w[j] = u[j]
      /\ w[Len(u) + 1] = Clip!NUL
  BY TextIs
<1>2. i \in 1 .. Len(v) /\ v[i] = Clip!NUL /\ \A j \in 1 .. i - 1 : v[j] # Clip!NUL
  BY DEF First
<1> HIDE DEF v, w
<1>3. i >= 1 /\ i <= Len(t) + 1 /\ i <= Len(u) + 1
  BY <1>1, <1>2
<1>4. \A j \in 1 .. i - 1 : w[j] = v[j]
  BY <1>1, <1>3
<1>5. w[i] = Clip!NUL
  <2>1. CASE Len(u) >= i
    BY <1>1, <1>3, <2>1
  <2>2. CASE Len(u) = i - 1
    BY <1>1, <2>2
  <2> QED
    BY <1>1, <1>3, <2>1, <2>2
<1>6. First(w, i)
  BY <1>1, <1>2, <1>3, <1>4, <1>5 DEF First
<1>7. Clip!Upto(v) = SubSeq(v, 1, i) /\ Clip!Upto(w) = SubSeq(w, 1, i)
  BY <1>1, <1>6, FirstNul DEF v
<1>8. SubSeq(v, 1, i) = SubSeq(w, 1, i)
  <2>1. /\ SubSeq(v, 1, i) \in Text /\ Len(SubSeq(v, 1, i)) = i
        /\ \A j \in 1 .. i : SubSeq(v, 1, i)[j] = v[j]
    BY <1>1, <1>3, Part
  <2>2. /\ SubSeq(w, 1, i) \in Text /\ Len(SubSeq(w, 1, i)) = i
        /\ \A j \in 1 .. i : SubSeq(w, 1, i)[j] = w[j]
    BY <1>1, <1>3, Part
  <2>3. \A j \in 1 .. i : v[j] = w[j]
    BY <1>2, <1>3, <1>4, <1>5
  <2> QED
    BY <2>1, <2>2, <2>3, Equal
<1> QED
  BY <1>7, <1>8 DEF Same, v, w

LEMMA Ended ==
    ASSUME NEW t \in Text
    PROVE  \E i \in 1 .. Len(t) + 1 : /\ First(Append(t, Clip!NUL), i)
                                      /\ i <= Len(t) => t[i] = Clip!NUL
                                      /\ \A j \in 1 .. i - 1 : t[j] # Clip!NUL
<1> DEFINE v == Append(t, Clip!NUL)
<1>1. /\ v \in Text /\ Len(t) \in Nat /\ Len(v) = Len(t) + 1 /\ v[Len(t) + 1] = Clip!NUL
      /\ \A j \in 1 .. Len(t) : v[j] = t[j]
  BY TextIs
<1> HIDE DEF v
<1>2. PICK i : First(v, i)
  BY <1>1, HasFirst
<1> QED
  BY <1>1, <1>2 DEF First, v

(* The text without a NUL in its last place, up to a NUL, and with what    *)
(* follows it in a block.                                                  *)
LEMMA StrippedSame ==
    ASSUME NEW t \in Text
    PROVE  Same(IF t # <<>> /\ t[Len(t)] = Clip!NUL THEN SubSeq(t, 1, Len(t) - 1) ELSE t, t)
<1>1. CASE ~(t # <<>> /\ t[Len(t)] = Clip!NUL)
  BY <1>1 DEF Same
<1>2. CASE t # <<>> /\ t[Len(t)] = Clip!NUL
  <2> DEFINE u == SubSeq(t, 1, Len(t) - 1)
  <2>1. Len(t) \in Nat /\ Len(t) >= 1
    BY <1>2 DEF Text
  <2>2. u \in Text /\ Len(u) = Len(t) - 1 /\ \A j \in 1 .. Len(t) - 1 : u[j] = t[j]
    <3>1. Len(t) - 1 \in Nat /\ Len(t) - 1 <= Len(t)
      BY <2>1
    <3> QED
      BY <3>1, Part
  <2> HIDE DEF u
  <2>3. PICK i \in 1 .. Len(t) + 1 : /\ First(Append(t, Clip!NUL), i)
                                     /\ i <= Len(t) => t[i] = Clip!NUL
                                     /\ \A j \in 1 .. i - 1 : t[j] # Clip!NUL
    BY Ended
  <2>4. i <= Len(t) /\ i \in Nat
    BY <1>2, <2>1, <2>3
  <2>5. Same(u, t)
    BY <2>1, <2>2, <2>3, <2>4, SameText
  <2> QED
    BY <1>2, <2>5 DEF u
<1> QED
  BY <1>1, <1>2

LEMMA UptoSame ==
    ASSUME NEW t \in Text
    PROVE  Clip!Upto(t) \in Text /\ Same(t, Clip!Upto(t))
<1>1. CASE \A k \in 1 .. Len(t) : t[k] # Clip!NUL
  BY <1>1, NoNul DEF Same
<1>2. CASE \E k \in 1 .. Len(t) : t[k] = Clip!NUL
  <2>1. PICK i : First(t, i)
    BY <1>2, HasFirst
  <2>2. Len(t) \in Nat /\ i \in Nat /\ i <= Len(t) /\ i >= 1
    BY <2>1, TextIs DEF First
  <2> DEFINE u == SubSeq(t, 1, i)
  <2>3. u \in Text /\ Len(u) = i /\ \A j \in 1 .. i : u[j] = t[j]
    BY <2>2, Part
  <2>4. u = Clip!Upto(t)
    BY <2>1, FirstNul
  <2> HIDE DEF u
  <2>5. /\ Append(t, Clip!NUL) \in Text /\ Len(Append(t, Clip!NUL)) = Len(t) + 1
        /\ \A j \in 1 .. Len(t) : Append(t, Clip!NUL)[j] = t[j]
    BY TextIs
  <2>6. First(Append(t, Clip!NUL), i)
    BY <2>1, <2>2, <2>5 DEF First
  <2>7. u[i] = Clip!NUL
    BY <2>1, <2>2, <2>3 DEF First
  <2>8. Same(u, t)
    BY <2>2, <2>3, <2>6, <2>7, SameText
  <2> QED
    BY <2>3, <2>4, <2>8 DEF Same
<1> QED
  BY <1>1, <1>2

LEMMA RoundedUp ==
    ASSUME NEW n \in Nat
    PROVE  Clip!Rounded(n) \in Nat /\ Clip!Rounded(n) >= n
<1> DEFINE g == Granule
           x == n + g - 1
           q == x \div g
<1>1. g \in Nat \ {0} /\ x \in Nat
  BY ClipboardAssumption
<1>2. q \in Nat /\ x % g \in 0 .. g - 1 /\ x = (q * g) + (x % g)
  BY <1>1
<1> HIDE DEF q
<1>3. q * g \in Nat /\ q * g = g * q
  BY <1>1, <1>2
<1>4. g * q >= n
  BY <1>1, <1>2, <1>3
<1> QED
  BY <1>3, <1>4 DEF Clip!Rounded, q

LEMMA ResizedText ==
    ASSUME NEW t \in Text, NEW n \in Nat
    PROVE  /\ Clip!Resized(t, n) \in Text /\ Len(Clip!Resized(t, n)) >= n
           /\ \A i \in 1 .. Len(t) : i <= Len(Clip!Resized(t, n)) => Clip!Resized(t, n)[i] = t[i]
<1> DEFINE m == Clip!Rounded(n)
           u == [i \in 1 .. m |-> IF i \in DOMAIN t THEN t[i] ELSE Clip!Junk]
<1>1. m \in Nat /\ m >= n
  BY RoundedUp
<1>2. u = Clip!Resized(t, n)
  BY DEF Clip!Resized
<1>3. DOMAIN t = 1 .. Len(t) /\ Len(t) \in Nat /\ \A i \in 1 .. Len(t) : t[i] \in STRING
  BY TextIs
<1> HIDE DEF m
<1>4. u \in [1 .. m -> STRING] /\ \A i \in 1 .. m : i <= Len(t) => u[i] = t[i]
  BY <1>1, <1>3, ClipboardAssumption
<1> HIDE DEF u
<1>5. u \in Seq(STRING) /\ Len(u) = m
  BY <1>1, <1>4
<1> QED
  BY <1>1, <1>2, <1>3, <1>4, <1>5 DEF Text

LEMMA FilledSame ==
    ASSUME NEW s \in Text
    PROVE  LET t == Append(s, Clip!NUL) IN Same(Clip!Resized(t, Len(s) + 1), t)
<1> DEFINE t == Append(s, Clip!NUL)
           u == Clip!Resized(t, Len(s) + 1)
<1>1. t \in Text /\ Len(s) \in Nat /\ Len(t) = Len(s) + 1 /\ t[Len(s) + 1] = Clip!NUL
  BY TextIs
<1>2. u \in Text /\ Len(u) >= Len(s) + 1 /\ \A i \in 1 .. Len(t) : i <= Len(u) => u[i] = t[i]
  <2>1. Len(s) + 1 \in Nat
    BY <1>1
  <2> HIDE DEF t
  <2> QED
    BY <1>1, <2>1, ResizedText
<1> HIDE DEF t, u
<1>3. PICK i \in 1 .. Len(t) + 1 : /\ First(Append(t, Clip!NUL), i)
                                   /\ i <= Len(t) => t[i] = Clip!NUL
                                   /\ \A j \in 1 .. i - 1 : t[j] # Clip!NUL
  BY <1>1, Ended
<1>4. i <= Len(t) /\ i \in Nat /\ Len(u) \in Nat
  BY <1>1, <1>2, <1>3, TextIs
<1>5. /\ Len(u) >= i - 1 /\ (Len(u) >= i => u[i] = Clip!NUL)
      /\ \A j \in 1 .. i - 1 : u[j] = t[j]
  BY <1>1, <1>2, <1>3, <1>4
<1>6. Same(u, t)
  BY <1>1, <1>2, <1>3, <1>4, <1>5, SameText
<1> QED
  BY <1>6 DEF t, u

-----------------------------------------------------------------------------
(* Every block that is not free, and no other, has an owner, and one only. *)
Objects == Object \cup {Clip!gmem}
Holders(m, r, d, b) == (\E o \in Objects : m[o] = b) \/ b \in r \/ (\E f \in Format : d[f] = b)

Owned(F, m, r, d) ==
    /\ m \in [Objects -> Block \cup {None}] /\ r \subseteq Block
    /\ d \in [Format -> Block \cup {None}]
    /\ \A o, p \in Objects : m[o] \in Block /\ m[o] = m[p] => o = p
    /\ \A f, g \in Format : d[f] \in Block /\ d[f] = d[g] => f = g
    /\ \A o \in Objects : m[o] \in Block => m[o] \notin r /\ \A f \in Format : m[o] # d[f]
    /\ \A f \in Format : d[f] \notin r
    /\ \A b \in Block : b \in F <=> ~Holders(m, r, d, b)

(* An object gets a block and frees it, or its block comes from and goes   *)
(* to the program; the clipboard gets one and frees it, or frees them all. *)
LEMMA Gives ==
    ASSUME NEW F, NEW m, NEW r, NEW d, Owned(F, m, r, d), NEW o \in Objects, m[o] = None,
           NEW b \in Block, b \in F,
           NEW G, G = F \ {b}, NEW n, n = [m EXCEPT ![o] = b]
    PROVE  Owned(G, n, r, d)
<1>1. /\ n \in [Objects -> Block \cup {None}] /\ n[o] = b /\ None \notin Block
      /\ \A p \in Objects : p # o => n[p] = m[p]
  BY ClipboardAssumption DEF Owned
<1>2. ~Holders(m, r, d, b)
  BY DEF Owned
<1>3. \A p, q \in Objects : n[p] \in Block /\ n[p] = n[q] => p = q
  BY <1>1, <1>2 DEF Owned, Holders
<1>4. \A p \in Objects : n[p] \in Block =>
         n[p] \notin r /\ \A f \in Format : n[p] # d[f]
  BY <1>1, <1>2 DEF Owned, Holders
<1>5. \A c \in Block : Holders(n, r, d, c) <=> Holders(m, r, d, c) \/ c = b
  BY <1>1 DEF Holders
<1> QED
  BY <1>1, <1>3, <1>4, <1>5 DEF Owned

LEMMA Drops ==
    ASSUME NEW F, NEW m, NEW r, NEW d, Owned(F, m, r, d), NEW o \in Objects, m[o] \in Block,
           NEW G, G = F \cup {m[o]}, NEW n, n = [m EXCEPT ![o] = None]
    PROVE  Owned(G, n, r, d)
<1>1. /\ n \in [Objects -> Block \cup {None}] /\ n[o] = None /\ None \notin Block
      /\ \A p \in Objects : p # o => n[p] = m[p]
  BY ClipboardAssumption DEF Owned
<1>2. \A p, q \in Objects : n[p] \in Block /\ n[p] = n[q] => p = q
  BY <1>1 DEF Owned
<1>3. \A p \in Objects : n[p] \in Block =>
         n[p] \notin r /\ \A f \in Format : n[p] # d[f]
  BY <1>1 DEF Owned
<1>4. \A c \in Block : Holders(n, r, d, c) <=> Holders(m, r, d, c) /\ c # m[o]
  <2>1. PICK b \in Block : b = m[o]
    OBVIOUS
  <2>2. /\ \A p \in Objects : p # o => m[p] # b
        /\ b \notin r /\ \A f \in Format : d[f] # b
    BY <2>1 DEF Owned
  <2>3. ASSUME NEW c \in Block
        PROVE  (\E p \in Objects : n[p] = c) <=> (\E p \in Objects : m[p] = c) /\ c # b
    BY <1>1, <2>1, <2>2
  <2> QED
    BY <2>1, <2>2, <2>3 DEF Holders
<1> QED
  BY <1>1, <1>2, <1>3, <1>4 DEF Owned

LEMMA Adopts ==
    ASSUME NEW F, NEW m, NEW r, NEW d, Owned(F, m, r, d), NEW o \in Objects, m[o] = None,
           NEW b \in r
    PROVE  Owned(F, [m EXCEPT ![o] = b], r \ {b}, d)
<1> DEFINE n == [m EXCEPT ![o] = b]
<1>1. /\ n \in [Objects -> Block \cup {None}] /\ n[o] = b /\ None \notin Block /\ b \in Block
      /\ \A p \in Objects : p # o => n[p] = m[p]
  BY ClipboardAssumption DEF Owned
<1> HIDE DEF n
<1>2. \A p, q \in Objects : n[p] \in Block /\ n[p] = n[q] => p = q
  <2>1. \A p \in Objects : m[p] # b
    BY <1>1 DEF Owned
  <2> QED
    BY <1>1, <2>1 DEF Owned
<1>3. \A p \in Objects : n[p] \in Block =>
         n[p] \notin r \ {b} /\ \A f \in Format : n[p] # d[f]
  BY <1>1 DEF Owned
<1>4. \A c \in Block : Holders(n, r \ {b}, d, c) <=> Holders(m, r, d, c)
  BY <1>1 DEF Holders
<1> QED
  BY <1>1, <1>2, <1>3, <1>4 DEF Owned, n

LEMMA Releases ==
    ASSUME NEW F, NEW m, NEW r, NEW d, Owned(F, m, r, d), NEW o \in Objects, m[o] \in Block
    PROVE  Owned(F, [m EXCEPT ![o] = None], r \cup {m[o]}, d)
<1> DEFINE n == [m EXCEPT ![o] = None]
           b == m[o]
<1>1. /\ n \in [Objects -> Block \cup {None}] /\ n[o] = None /\ None \notin Block /\ b \in Block
      /\ \A p \in Objects : p # o => n[p] = m[p]
  BY ClipboardAssumption DEF Owned
<1>2. \A p \in Objects : p # o => m[p] # b
  BY <1>1 DEF Owned
<1>3. \A f \in Format : d[f] # b
  BY <1>1 DEF Owned
<1>4. m[o] = b
  OBVIOUS
<1> HIDE DEF n, b
<1>5. \A p, q \in Objects : n[p] \in Block /\ n[p] = n[q] => p = q
  BY <1>1 DEF Owned
<1>6. \A p \in Objects : n[p] \in Block =>
         n[p] \notin r \cup {b} /\ \A f \in Format : n[p] # d[f]
  BY <1>1, <1>2 DEF Owned
<1>7. \A c \in Block : Holders(n, r \cup {b}, d, c) <=> Holders(m, r, d, c)
  BY <1>1, <1>4 DEF Holders
<1>8. \A f \in Format : d[f] \notin r \cup {b}
  BY <1>3 DEF Owned
<1>9. Owned(F, n, r \cup {b}, d)
  BY <1>1, <1>5, <1>6, <1>7, <1>8 DEF Owned
<1> QED
  BY <1>9 DEF n, b

LEMMA DropsData ==
    ASSUME NEW F, NEW m, NEW r, NEW d, Owned(F, m, r, d), NEW f \in Format, d[f] \in Block
    PROVE  Owned(F \cup {d[f]}, m, r, [d EXCEPT ![f] = None])
<1> DEFINE e == [d EXCEPT ![f] = None]
<1>1. /\ e \in [Format -> Block \cup {None}] /\ e[f] = None /\ None \notin Block
      /\ \A g \in Format : g # f => e[g] = d[g]
  BY ClipboardAssumption DEF Owned
<1> HIDE DEF e
<1>2. \A g, h \in Format : e[g] \in Block /\ e[g] = e[h] => g = h
  BY <1>1 DEF Owned
<1>3. \A p \in Objects : m[p] \in Block =>
         m[p] \notin r /\ \A g \in Format : m[p] # e[g]
  BY <1>1 DEF Owned
<1>4. \A c \in Block : Holders(m, r, e, c) <=> Holders(m, r, d, c) /\ c # d[f]
  BY <1>1 DEF Owned, Holders
<1>5. \A g \in Format : e[g] \notin r
  BY <1>1 DEF Owned
<1> QED
  BY <1>1, <1>2, <1>3, <1>4, <1>5 DEF Owned, e

LEMMA GivesData ==
    ASSUME NEW F, NEW m, NEW r, NEW d, Owned(F, m, r, d), NEW f \in Format, d[f] = None,
           NEW b \in Block, b \in F
    PROVE  Owned(F \ {b}, m, r, [d EXCEPT ![f] = b])
<1> DEFINE e == [d EXCEPT ![f] = b]
<1>1. /\ e \in [Format -> Block \cup {None}] /\ e[f] = b /\ None \notin Block
      /\ \A g \in Format : g # f => e[g] = d[g]
  BY ClipboardAssumption DEF Owned
<1>2. ~Holders(m, r, d, b)
  BY DEF Owned
<1> HIDE DEF e
<1>3. \A g, h \in Format : e[g] \in Block /\ e[g] = e[h] => g = h
  BY <1>1, <1>2 DEF Owned, Holders
<1>4. \A p \in Objects : m[p] \in Block =>
         m[p] \notin r /\ \A g \in Format : m[p] # e[g]
  BY <1>1, <1>2 DEF Owned, Holders
<1>5. \A c \in Block : Holders(m, r, e, c) <=> Holders(m, r, d, c) \/ c = b
  BY <1>1 DEF Holders
<1>6. \A g \in Format : e[g] \notin r
  BY <1>1, <1>2 DEF Owned, Holders
<1> QED
  BY <1>1, <1>3, <1>4, <1>5, <1>6 DEF Owned, e

LEMMA ClearsData ==
    ASSUME NEW F, NEW m, NEW r, NEW d, Owned(F, m, r, d)
    PROVE  Owned(F \cup {b \in Block : \E f \in Format : d[f] = b}, m, r, [f \in Format |-> None])
<1> DEFINE e == [f \in Format |-> None]
           S == {b \in Block : \E f \in Format : d[f] = b}
<1>1. e \in [Format -> Block \cup {None}] /\ None \notin Block /\ \A f \in Format : e[f] = None
  BY ClipboardAssumption
<1> HIDE DEF e
<1>2. \A c \in Block : Holders(m, r, e, c) <=> Holders(m, r, d, c) /\ c \notin S
  BY <1>1 DEF Owned, Holders
<1>3. \A c \in Block : c \in F \cup S <=> ~Holders(m, r, e, c)
  BY <1>2 DEF Owned
<1> HIDE DEF S
<1>4. Owned(F \cup S, m, r, e)
  BY <1>1, <1>3 DEF Owned
<1> QED
  BY <1>4 DEF e, S

(* A block goes from an object to the clipboard, which frees the old one.  *)
LEMMA Passes ==
    ASSUME NEW F, F \subseteq Block, NEW m, NEW r, NEW d, Owned(F, m, r, d),
           NEW o \in Objects, NEW f \in Format, NEW b \in Block, b = m[o]
    PROVE  Owned(F \cup ({d[f]} \cap Block), [m EXCEPT ![o] = None], r, [d EXCEPT ![f] = b])
<1> DEFINE n == [m EXCEPT ![o] = None]
           e == [d EXCEPT ![f] = None]
<1>1. /\ b \in Block /\ b \notin F /\ d[f] # b /\ None \notin Block
      /\ d \in [Format -> Block \cup {None}]
  BY ClipboardAssumption DEF Owned, Holders
<1>2. Owned(F \cup {b}, n, r, d)
  BY Drops
<1>3. Owned((F \cup {b}) \cup ({d[f]} \cap Block), n, r, e)
  <2>1. CASE d[f] \in Block
    <3>1. Owned((F \cup {b}) \cup {d[f]}, n, r, e)
      BY <1>2, <2>1, DropsData
    <3>2. {d[f]} \cap Block = {d[f]}
      BY <2>1
    <3> QED
      BY <3>1, <3>2
  <2>2. CASE d[f] \notin Block
    <3>1. d[f] = None /\ e = d
      BY <1>1, <2>2
    <3>2. (F \cup {b}) \cup ({d[f]} \cap Block) = F \cup {b}
      BY <2>2
    <3> QED
      BY <1>2, <3>1, <3>2
  <2> QED
    BY <2>1, <2>2
<1>4. e[f] = None /\ [e EXCEPT ![f] = b] = [d EXCEPT ![f] = b]
  BY <1>1
<1>5. ((F \cup {b}) \cup ({d[f]} \cap Block)) \ {b} = F \cup ({d[f]} \cap Block)
  BY <1>1
<1> HIDE DEF n, e
<1>6. Owned(((F \cup {b}) \cup ({d[f]} \cap Block)) \ {b}, n, r, [e EXCEPT ![f] = b])
  BY <1>1, <1>3, <1>4, GivesData
<1> QED
  BY <1>4, <1>5, <1>6 DEF n

(* The other process puts a block, and the old one is freed.               *)
LEMMA Puts ==
    ASSUME NEW F, F \subseteq Block, NEW m, NEW r, NEW d, Owned(F, m, r, d),
           NEW b \in F, NEW f \in Format
    PROVE  Owned((F \cup ({d[f]} \cap Block)) \ {b}, m, r, [d EXCEPT ![f] = b])
<1> DEFINE e == [d EXCEPT ![f] = None]
<1>1. d \in [Format -> Block \cup {None}] /\ b \in Block
  BY DEF Owned
<1>2. Owned(F \cup ({d[f]} \cap Block), m, r, e)
  <2>1. CASE d[f] \in Block
    <3>1. {d[f]} \cap Block = {d[f]}
      BY <2>1
    <3> QED
      BY <2>1, <3>1, DropsData
  <2>2. CASE d[f] \notin Block
    <3>1. d[f] = None /\ e = d
      BY <1>1, <2>2
    <3>2. F \cup ({d[f]} \cap Block) = F
      BY <2>2
    <3> QED
      BY <3>1, <3>2
  <2> QED
    BY <2>1, <2>2
<1>3. e[f] = None /\ [e EXCEPT ![f] = b] = [d EXCEPT ![f] = b]
  BY <1>1
<1> HIDE DEF e
<1>4. Owned((F \cup ({d[f]} \cap Block)) \ {b}, m, r, [e EXCEPT ![f] = b])
  BY <1>1, <1>2, <1>3, GivesData
<1> QED
  BY <1>3, <1>4

(* One owner.                                                              *)
LEMMA ClipCounts == \A S : Clip!Cardinality(S) = Cardinality(S)
BY Zenon DEF Clip!Cardinality, Cardinality

LEMMA OneOwner ==
    ASSUME NEW F, Owned(F, m_handle, raw, data), NEW b \in Block
    PROVE  Clip!Cardinality(Clip!Owners(b)) = IF b \in F THEN 0 ELSE 1
<1> DEFINE M == {o \in DOMAIN m_handle : m_handle[o] = b}
           D == {f \in Format : data[f] = b}
           R == raw \cap {b}
<1>1. DOMAIN m_handle = Objects
  BY DEF Owned
<1>2. Clip!Owners(b) = {<<"object", o>> : o \in M} \cup {<<"program">> : r \in R}
                       \cup {<<"clipboard", f>> : f \in D}
  BY DEF Clip!Owners
<1>3. CASE b \in F
  <2>1. ~Holders(m_handle, raw, data, b)
    BY <1>3 DEF Owned
  <2>2. M = {} /\ D = {} /\ R = {}
    BY <1>1, <2>1 DEF Holders
  <2>3. Clip!Owners(b) = {}
    BY <1>2, <2>2
  <2> QED
    BY <1>3, <2>3, FS_EmptySet, ClipCounts
<1>4. CASE b \notin F
  <2>1. \E x : Clip!Owners(b) = {x}
    <3>1. Holders(m_handle, raw, data, b)
      BY <1>4 DEF Owned
    <3>2. CASE \E o \in Objects : m_handle[o] = b
      <4>1. PICK o \in Objects : m_handle[o] = b
        BY <3>2
      <4>2. M = {o} /\ D = {} /\ R = {}
        <5>1. b \notin raw /\ \A f \in Format : data[f] # b
          BY <4>1 DEF Owned
        <5>2. \A p \in Objects : m_handle[p] = b => p = o
          BY <4>1 DEF Owned
        <5> QED
          BY <1>1, <4>1, <5>1, <5>2
      <4> HIDE DEF M, D, R
      <4>3. Clip!Owners(b) = {<<"object", o>>}
        BY <1>2, <4>2
      <4> QED
        BY <4>3
    <3>3. CASE b \in raw
      <4>1. M = {} /\ D = {} /\ R = {b}
        <5>1. \A p \in Objects : m_handle[p] # b
          BY <3>3 DEF Owned
        <5>2. \A f \in Format : data[f] # b
          BY <3>3 DEF Owned
        <5> QED
          BY <1>1, <3>3, <5>1, <5>2
      <4> HIDE DEF M, D, R
      <4>2. Clip!Owners(b) = {<<"program">>}
        BY <1>2, <4>1
      <4> QED
        BY <4>2
    <3>4. CASE \E f \in Format : data[f] = b
      <4>1. PICK f \in Format : data[f] = b
        BY <3>4
      <4>2. M = {} /\ D = {f} /\ R = {}
        BY <1>1, <4>1 DEF Owned
      <4> HIDE DEF M, D, R
      <4>3. Clip!Owners(b) = {<<"clipboard", f>>}
        BY <1>2, <4>2
      <4> QED
        BY <4>3
    <3> QED
      BY <3>1, <3>2, <3>3, <3>4 DEF Holders
  <2> QED
    BY <1>4, <2>1, FS_Singleton, ClipCounts
<1> QED
  BY <1>3, <1>4

-----------------------------------------------------------------------------
(* The blocks.                                                             *)
Contents == [free : BOOLEAN, text : Text, locks : Int]
Heaps == [Block -> Contents]
FreeOf(h) == {b \in Block : h[b].free}

LEMMA ContentsAre ==
    ASSUME NEW x \in Contents
    PROVE  /\ x = [free |-> x.free, text |-> x.text, locks |-> x.locks]
           /\ x.free \in BOOLEAN /\ x.text \in Text /\ x.locks \in Int
BY DEF Contents

LEMMA ContentsMade ==
    ASSUME NEW free \in BOOLEAN, NEW t \in Text, NEW k \in Int
    PROVE  [free |-> free, text |-> t, locks |-> k] \in Contents
BY DEF Contents

LEMMA NoText == <<>> \in Text
BY DEF Text

LEMMA FreesBlock ==
    ASSUME NEW h \in Heaps, NEW b \in Block
    PROVE  LET g == Clip!Freed(h, b) IN
           /\ g \in Heaps /\ FreeOf(g) = FreeOf(h) \cup {b}
           /\ \A c \in Block : g[c].locks = h[c].locks /\ (c # b => g[c].text = h[c].text)
<1> DEFINE g == Clip!Freed(h, b)
           x == [free |-> TRUE, text |-> <<>>, locks |-> h[b].locks]
<1>1. x \in Contents /\ h[b] = [free |-> h[b].free, text |-> h[b].text, locks |-> h[b].locks]
  <2>1. h[b] \in Contents
    BY DEF Heaps
  <2>2. h[b].locks \in Int
    BY <2>1, ContentsAre
  <2>3. \A k \in Int : [free |-> TRUE, text |-> <<>>, locks |-> k] \in Contents
    BY NoText, ContentsMade
  <2> QED
    BY <2>1, <2>2, <2>3, ContentsAre
<1>2. g = [h EXCEPT ![b] = x]
  BY DEF Clip!Freed, Heaps
<1>3. x.free = TRUE /\ x.locks = h[b].locks
  OBVIOUS
<1> HIDE DEF g, x
<1>4. g \in Heaps /\ g[b] = x /\ \A c \in Block : c # b => g[c] = h[c]
  BY <1>1, <1>2 DEF Heaps
<1>5. FreeOf(g) = FreeOf(h) \cup {b}
  BY <1>3, <1>4 DEF FreeOf
<1> QED
  BY <1>3, <1>4, <1>5 DEF g

Filled(h, b, t, n) == [h EXCEPT ![b] = Clip!Allocated(t, n)]

LEMMA SetsBlock ==
    ASSUME NEW h \in Heaps, NEW b \in Block, NEW t \in Text, NEW n \in Nat
    PROVE  LET g == Filled(h, b, t, n) IN
           /\ g \in Heaps /\ FreeOf(g) = FreeOf(h) \ {b}
           /\ g[b].locks = 0 /\ g[b].text = Clip!Resized(t, n)
           /\ \A c \in Block : c # b => g[c] = h[c]
<1> DEFINE u == Clip!Resized(t, n)
           x == [free |-> FALSE, text |-> u, locks |-> 0]
           g == Filled(h, b, t, n)
<1>1. u \in Text /\ g = [h EXCEPT ![b] = x]
  BY ResizedText DEF Filled, Clip!Allocated
<1> HIDE DEF u
<1>2. x \in Contents /\ x.free = FALSE /\ x.locks = 0 /\ x.text = u
  BY <1>1 DEF Contents
<1> HIDE DEF x
<1>3. g \in Heaps /\ g[b] = x /\ \A c \in Block : c # b => g[c] = h[c]
  <2>1. h \in [Block -> Contents]
    BY DEF Heaps
  <2>2. g \in [Block -> Contents]
    BY <1>1, <1>2, <2>1
  <2> QED
    BY <1>1, <2>1, <2>2 DEF Heaps
<1> HIDE DEF g
<1>4. FreeOf(g) = FreeOf(h) \ {b}
  BY <1>2, <1>3 DEF FreeOf
<1> QED
  BY <1>2, <1>3, <1>4 DEF u, g

(* A block whose locks or text change.                                     *)
LEMMA ChangesBlock ==
    ASSUME NEW h \in Heaps, NEW b \in Block, NEW x \in Contents, x.free = h[b].free
    PROVE  LET g == [h EXCEPT ![b] = x] IN
           /\ g \in Heaps /\ FreeOf(g) = FreeOf(h)
           /\ g[b] = x /\ \A c \in Block : c # b => g[c] = h[c]
<1> DEFINE g == [h EXCEPT ![b] = x]
<1>1. g \in Heaps /\ g[b] = x /\ \A c \in Block : c # b => g[c] = h[c]
  BY DEF Heaps
<1> HIDE DEF g
<1>2. FreeOf(g) = FreeOf(h)
  BY <1>1 DEF FreeOf
<1> QED
  BY <1>1, <1>2 DEF g

LEMMA LocksBlock ==
    ASSUME NEW h \in Heaps, NEW b \in Block, NEW k \in Int
    PROVE  LET g == Clip!Locked(h, b, k) IN
           /\ g \in Heaps /\ FreeOf(g) = FreeOf(h)
           /\ g[b].locks = h[b].locks + k /\ \A c \in Block : c # b => g[c] = h[c]
           /\ \A c \in Block : g[c].text = h[c].text
<1> DEFINE x == [free |-> h[b].free, text |-> h[b].text, locks |-> h[b].locks + k]
           g == [h EXCEPT ![b] = x]
<1>1. h[b] \in Contents /\ b \in DOMAIN h
  BY DEF Heaps
<1>2. /\ h[b] = [free |-> h[b].free, text |-> h[b].text, locks |-> h[b].locks]
      /\ h[b].free \in BOOLEAN /\ h[b].text \in Text /\ h[b].locks + k \in Int
  BY <1>1, ContentsAre
<1>3. x \in Contents
  BY <1>2, ContentsMade
<1>4. x.free = h[b].free /\ x.locks = h[b].locks + k /\ x.text = h[b].text
  OBVIOUS
<1>5. Clip!Locked(h, b, k) = g
  <2>1. Clip!Locked(h, b, k) = [h EXCEPT ![b].locks = h[b].locks + k]
    BY <1>1 DEF Clip!Locked
  <2>2. [h[b] EXCEPT !.locks = h[b].locks + k] = x
    BY <1>2
  <2> QED
    BY <1>1, <2>1, <2>2
<1> HIDE DEF x
<1>6. /\ g \in Heaps /\ FreeOf(g) = FreeOf(h)
      /\ g[b] = x /\ \A c \in Block : c # b => g[c] = h[c]
  BY <1>3, <1>4, ChangesBlock
<1> HIDE DEF g
<1>7. \A c \in Block : g[c].text = h[c].text
  BY <1>4, <1>6
<1> QED
  BY <1>4, <1>5, <1>6, <1>7

LEMMA PutsBlock ==
    ASSUME NEW h \in Heaps, NEW f \in Format, NEW b, data[f] \in Block \cup {None}
    PROVE  LET g == Clip!Put(h, f, b) IN
           /\ g \in Heaps /\ FreeOf(g) = FreeOf(h) \cup ({data[f]} \cap Block)
           /\ \A c \in Block : g[c].locks = h[c].locks /\ (c # data[f] => g[c].text = h[c].text)
<1>1. CASE data[f] = None
  <2>1. Clip!Put(h, f, b) = h /\ {data[f]} \cap Block = {}
    BY <1>1, ClipboardAssumption DEF Clip!Put
  <2> QED
    BY <2>1
<1>2. CASE data[f] # None
  <2>1. /\ Clip!Put(h, f, b) = Clip!Freed(h, data[f]) /\ data[f] \in Block
        /\ {data[f]} \cap Block = {data[f]}
    BY <1>2 DEF Clip!Put
  <2> QED
    BY <2>1, FreesBlock
<1> QED
  BY <1>1, <1>2

-----------------------------------------------------------------------------
(* What is locked, and where a call has come to.                           *)
Pinned ==
    IF call # Clip!Idle /\ call.pc \in {"copy", "transfer", "unlock"} THEN {call.ptr} ELSE {}

Target == IF call.what = "set" THEN m_handle[Clip!gmem] ELSE data[call.format]

Calls ==
    [pc : {"lock", "copy", "transfer", "unlock", "end"}, format : Format, text : Text,
     ptr : Block \cup {None}, what : {"set", "get"}]

InCall ==
    /\ holder = "us" /\ call \in Calls
    /\ call.pc \in {"lock", "copy", "transfer"} => Target \in Block
    /\ call.pc \in {"copy", "transfer"} => call.ptr = Target
    /\ call.pc = "transfer" => call.what = "set"
    /\ call.pc = "unlock" => call.ptr \in Block \ FreeOf(heap)

(* What is in the clipboard under a format is the text that was put there. *)
Kept == \A f \in Format : IF data[f] = None THEN last[f] = None
                          ELSE last[f] \in Text /\ Same(heap[data[f]].text, last[f])

ClipInv ==
    /\ heap \in Heaps /\ Owned(FreeOf(heap), m_handle, raw, data)
    /\ holder \in {"none", "us", "other"}
    /\ IF call = Clip!Idle THEN m_handle[Clip!gmem] = None ELSE InCall
    /\ \A b \in Block : heap[b].locks = IF b \in Pinned THEN 1 ELSE 0
    /\ last \in [Format -> Text \cup {None}] /\ Kept

LEMMA ClipInit == Clip!Init => ClipInv
<1> SUFFICES ASSUME Clip!Init PROVE ClipInv
  OBVIOUS
<1>1. Clip!FreeBlock \in Contents /\ Clip!FreeBlock.free = TRUE /\ Clip!FreeBlock.locks = 0
  <2>1. \A k \in Int : [free |-> TRUE, text |-> <<>>, locks |-> k] \in Contents
    BY NoText, ContentsMade
  <2>2. [free |-> TRUE, text |-> <<>>, locks |-> 0] \in Contents
    BY <2>1
  <2> QED
    BY <2>2 DEF Clip!FreeBlock
<1>2. /\ heap \in Heaps /\ \A b \in Block : heap[b] = Clip!FreeBlock
      /\ m_handle \in [Objects -> Block \cup {None}] /\ \A o \in Objects : m_handle[o] = None
      /\ data \in [Format -> Block \cup {None}] /\ \A f \in Format : data[f] = None
      /\ last \in [Format -> Text \cup {None}] /\ \A f \in Format : last[f] = None
      /\ raw = {} /\ holder = "none" /\ call = Clip!Idle /\ None \notin Block
      /\ Clip!gmem \in Objects
  BY <1>1, ClipboardAssumption DEF Clip!Init, Heaps, Objects
<1>3. \A b \in Block : b \in FreeOf(heap)
  BY <1>1, <1>2 DEF FreeOf
<1>4. Owned(FreeOf(heap), m_handle, raw, data)
  BY <1>2, <1>3 DEF Owned, Holders
<1>5. \A b \in Block : heap[b].locks = 0
  BY <1>1, <1>2
<1> QED
  BY <1>2, <1>4, <1>5 DEF ClipInv, Pinned, Kept

(* What the theorems say of a state.                                       *)
LEMMA ClipTyped ==
    ASSUME ClipInv
    PROVE  Clip!TypeOK /\ Clip!BlocksOwned /\ Clip!LocksEnd
<1>1. /\ \A b \in Block : heap[b].locks \in 0 .. 1
  BY DEF ClipInv
<1>2. Clip!TypeOK
  BY <1>1 DEF ClipInv, Owned, Clip!TypeOK
<1>3. ASSUME NEW b \in Block
      PROVE  Clip!Cardinality(Clip!Owners(b)) = IF heap[b].free THEN 0 ELSE 1
  <2>1. b \in FreeOf(heap) <=> heap[b].free
    BY DEF FreeOf
  <2> QED
    BY <2>1, OneOwner DEF ClipInv
<1>4. ASSUME NEW b \in Block, heap[b].locks > 0
      PROVE  ~heap[b].free /\ holder = "us" /\ call # Clip!Idle
  <2>1. /\ b \in Pinned
    BY <1>4 DEF ClipInv
  <2>2. /\ call # Clip!Idle /\ InCall /\ b = call.ptr
        /\ call.pc \in {"copy", "transfer", "unlock"}
    BY <2>1 DEF ClipInv, Pinned
  <2>3. b \notin FreeOf(heap)
    <3>1. CASE call.pc = "unlock"
      BY <2>2, <3>1 DEF InCall
    <3>2. CASE call.pc # "unlock"
      <4>1. b = Target /\ call \in Calls
        BY <2>2, <3>2 DEF InCall
      <4>2. \/ b = m_handle[Clip!gmem] /\ Clip!gmem \in Objects
            \/ b = data[call.format] /\ call.format \in Format
        BY <4>1 DEF Target, Calls, Objects
      <4>3. Holders(m_handle, raw, data, b)
        BY <4>2 DEF Holders
      <4> QED
        BY <4>3 DEF ClipInv, Owned
    <3> QED
      BY <3>1, <3>2
  <2> QED
    BY <2>2, <2>3 DEF FreeOf, InCall
<1> QED
  BY <1>2, <1>3, <1>4 DEF Clip!BlocksOwned, Clip!LocksEnd

-----------------------------------------------------------------------------
(* The steps of mem::global and of the clipboard when no call is in        *)
(* progress.                                                               *)
LEMMA IdleStep ==
    ASSUME ClipInv, call = Clip!Idle, UNCHANGED call,
           heap' \in Heaps, Owned(FreeOf(heap'), m_handle', raw', data'),
           \A b \in Block : heap'[b].locks = heap[b].locks,
           m_handle'[Clip!gmem] = None, holder' \in {"none", "us", "other"},
           last' \in [Format -> Text \cup {None}], Kept'
    PROVE  ClipInv'
<1>1. Pinned = {} /\ Pinned' = {}
  BY DEF Pinned
<1>2. \A b \in Block : heap'[b].locks = 0
  BY <1>1 DEF ClipInv
<1> QED
  BY <1>1, <1>2 DEF ClipInv

(* What an object does leaves the clipboard as it is.                      *)
LEMMA KeptStep ==
    ASSUME ClipInv, UNCHANGED <<data, last>>,
           \A f \in Format : data[f] \in Block => heap'[data[f]].text = heap[data[f]].text
    PROVE  Kept'
BY DEF ClipInv, Kept, Owned

LEMMA ObjectStep ==
    ASSUME ClipInv, call = Clip!Idle, UNCHANGED <<data, holder, call, last>>,
           heap' \in Heaps, Owned(FreeOf(heap'), m_handle', raw', data),
           \A b \in Block : heap'[b].locks = heap[b].locks,
           NEW o \in Object, \A p \in Objects : p # o => m_handle'[p] = m_handle[p],
           \A f \in Format : data[f] \in Block => heap'[data[f]].text = heap[data[f]].text
    PROVE  ClipInv'
<1>1. Clip!gmem \in Objects /\ Clip!gmem # o
  BY ClipboardAssumption DEF Objects
<1>2. m_handle'[Clip!gmem] = None
  BY <1>1 DEF ClipInv
<1>3. Kept'
  BY KeptStep
<1> QED
  BY <1>2, <1>3, IdleStep DEF ClipInv

(* A free block is given to an object.                                     *)
LEMMA GivenBlock ==
    ASSUME ClipInv, NEW o \in Objects, m_handle[o] = None, NEW b \in Block, heap[b].free,
           NEW n \in Nat, call = Clip!Idle, heap' = [heap EXCEPT ![b] = Clip!Allocated(<<>>, n)],
           m_handle' = [m_handle EXCEPT ![o] = b]
    PROVE  /\ heap' \in Heaps /\ Owned(FreeOf(heap'), m_handle', raw, data)
           /\ \A c \in Block : heap'[c].locks = heap[c].locks
           /\ \A f \in Format : data[f] \in Block => heap'[data[f]].text = heap[data[f]].text
           /\ m_handle'[o] = b /\ \A p \in Objects : p # o => m_handle'[p] = m_handle[p]
<1>1. PICK t \in Text : heap' = Filled(heap, b, t, n)
  BY NoText DEF Filled
<1>2. heap \in Heaps /\ b \in FreeOf(heap) /\ Owned(FreeOf(heap), m_handle, raw, data)
  BY DEF ClipInv, FreeOf
<1>3. /\ heap' \in Heaps /\ FreeOf(heap') = FreeOf(heap) \ {b}
      /\ heap'[b].locks = 0 /\ \A c \in Block : c # b => heap'[c] = heap[c]
  <2> DEFINE g == Filled(heap, b, t, n)
  <2>1. /\ g \in Heaps /\ FreeOf(g) = FreeOf(heap) \ {b}
        /\ g[b].locks = 0 /\ \A c \in Block : c # b => g[c] = heap[c]
    BY <1>2, SetsBlock
  <2> QED
    BY <1>1, <2>1
<1>4. Owned(FreeOf(heap'), m_handle', raw, data)
  BY <1>2, <1>3, Gives
<1>5. \A c \in Block : heap[c].locks = 0
  BY DEF ClipInv, Pinned
<1>6. \A f \in Format : data[f] # b
  BY <1>2 DEF Owned, Holders
<1>7. m_handle \in [Objects -> Block \cup {None}]
  BY <1>2 DEF Owned
<1> QED
  BY <1>3, <1>4, <1>5, <1>6, <1>7

LEMMA ConstructInv ==
    ASSUME ClipInv, NEW o \in Object, NEW n \in 1 .. 2, Clip!Construct(o, n)
    PROVE  ClipInv'
<1>1. o \in Objects /\ n \in Nat /\ call = Clip!Idle /\ m_handle[o] = None
  BY DEF Clip!Construct, Objects
<1>2. UNCHANGED <<raw, data, holder, call, last>>
  BY DEF Clip!Construct, Clip!Unclipped
<1>3. CASE UNCHANGED <<heap, m_handle>>
  BY <1>1, <1>2, <1>3, ObjectStep DEF ClipInv
<1>4. ASSUME NEW b \in Block, heap[b].free, heap' = [heap EXCEPT ![b] = Clip!Allocated(<<>>, n)],
             m_handle' = [m_handle EXCEPT ![o] = b]
      PROVE  ClipInv'
  <2>1. /\ heap' \in Heaps /\ Owned(FreeOf(heap'), m_handle', raw, data)
        /\ \A c \in Block : heap'[c].locks = heap[c].locks
        /\ \A f \in Format : data[f] \in Block => heap'[data[f]].text = heap[data[f]].text
        /\ \A p \in Objects : p # o => m_handle'[p] = m_handle[p]
    BY <1>1, <1>4, GivenBlock
  <2> QED
    BY <1>1, <1>2, <2>1, ObjectStep
<1> QED
  BY <1>3, <1>4 DEF Clip!Construct

LEMMA AdoptInv ==
    ASSUME ClipInv, NEW o \in Object, NEW b \in Block, Clip!Adopt(o, b)
    PROVE  ClipInv'
<1>1. /\ o \in Objects /\ call = Clip!Idle /\ m_handle[o] = None /\ b \in raw
      /\ m_handle' = [m_handle EXCEPT ![o] = b] /\ raw' = raw \ {b}
      /\ UNCHANGED <<heap, data, holder, call, last>>
  BY DEF Clip!Adopt, Clip!Unclipped, Objects
<1>2. /\ heap \in Heaps /\ Owned(FreeOf(heap), m_handle, raw, data)
      /\ m_handle \in [Objects -> Block \cup {None}]
  BY DEF ClipInv, Owned
<1>3. Owned(FreeOf(heap'), m_handle', raw', data)
  BY <1>1, <1>2, Adopts
<1>4. \A p \in Objects : p # o => m_handle'[p] = m_handle[p]
  BY <1>1, <1>2
<1> QED
  BY <1>1, <1>2, <1>3, <1>4, ObjectStep

LEMMA ReleaseBlockInv ==
    ASSUME ClipInv, NEW o \in Object, Clip!Release(o)
    PROVE  ClipInv'
<1>1. /\ o \in Objects /\ call = Clip!Idle /\ m_handle[o] # None
      /\ m_handle' = [m_handle EXCEPT ![o] = None] /\ raw' = raw \cup {m_handle[o]}
      /\ UNCHANGED <<heap, data, holder, call, last>>
  BY DEF Clip!Release, Clip!Unclipped, Objects
<1>2. /\ heap \in Heaps /\ Owned(FreeOf(heap), m_handle, raw, data)
      /\ m_handle \in [Objects -> Block \cup {None}] /\ m_handle[o] \in Block
  BY <1>1 DEF ClipInv, Owned
<1>3. Owned(FreeOf(heap'), m_handle', raw', data)
  BY <1>1, <1>2, Releases
<1>4. \A p \in Objects : p # o => m_handle'[p] = m_handle[p]
  BY <1>1, <1>2
<1> QED
  BY <1>1, <1>2, <1>3, <1>4, ObjectStep

(* The block of an object is freed.                                        *)
LEMMA FreedBlock ==
    ASSUME ClipInv, NEW o \in Objects, m_handle[o] # None,
           heap' = Clip!Freed(heap, m_handle[o]), m_handle' = [m_handle EXCEPT ![o] = None]
    PROVE  /\ heap' \in Heaps /\ Owned(FreeOf(heap'), m_handle', raw, data)
           /\ \A c \in Block : heap'[c].locks = heap[c].locks
           /\ \A f \in Format : data[f] \in Block => heap'[data[f]].text = heap[data[f]].text
           /\ m_handle'[o] = None /\ \A p \in Objects : p # o => m_handle'[p] = m_handle[p]
<1>1. /\ heap \in Heaps /\ Owned(FreeOf(heap), m_handle, raw, data)
      /\ m_handle \in [Objects -> Block \cup {None}] /\ m_handle[o] \in Block
  BY DEF ClipInv, Owned
<1>2. PICK b \in Block : b = m_handle[o]
  BY <1>1
<1>3. /\ heap' \in Heaps /\ FreeOf(heap') = FreeOf(heap) \cup {b}
      /\ \A c \in Block : heap'[c].locks = heap[c].locks /\ (c # b => heap'[c].text = heap[c].text)
  BY <1>1, <1>2, FreesBlock
<1>4. Owned(FreeOf(heap'), m_handle', raw, data)
  BY <1>1, <1>2, <1>3, Drops
<1>5. \A f \in Format : data[f] # b
  BY <1>1, <1>2 DEF Owned
<1> QED
  BY <1>1, <1>3, <1>4, <1>5

LEMMA DestroyInv ==
    ASSUME ClipInv, NEW o \in Object, Clip!Destroy(o)
    PROVE  ClipInv'
<1>1. /\ o \in Objects /\ call = Clip!Idle /\ m_handle[o] # None
      /\ m_handle' = [m_handle EXCEPT ![o] = None] /\ heap' = Clip!Freed(heap, m_handle[o])
      /\ UNCHANGED <<raw, data, holder, call, last>>
  BY DEF Clip!Destroy, Clip!Unclipped, Objects
<1>2. /\ heap' \in Heaps /\ Owned(FreeOf(heap'), m_handle', raw, data)
      /\ \A c \in Block : heap'[c].locks = heap[c].locks
      /\ \A f \in Format : data[f] \in Block => heap'[data[f]].text = heap[data[f]].text
      /\ \A p \in Objects : p # o => m_handle'[p] = m_handle[p]
  BY <1>1, FreedBlock
<1> QED
  BY <1>1, <1>2, ObjectStep

(* The block of an object is freed, and the object is given one of those   *)
(* that are free then.                                                     *)
LEMMA ReallocInv ==
    ASSUME ClipInv, NEW o \in Object, NEW n \in 1 .. 2, Clip!Realloc(o, n)
    PROVE  ClipInv'
<1>1. o \in Objects /\ n \in Nat /\ call = Clip!Idle /\ m_handle[o] # None
  BY DEF Clip!Realloc, Objects
<1>2. UNCHANGED <<raw, data, holder, call, last>>
  BY DEF Clip!Realloc, Clip!Unclipped
<1>3. CASE UNCHANGED <<heap, m_handle>>
  BY <1>1, <1>2, <1>3, ObjectStep DEF ClipInv
<1>4. ASSUME NEW c \in Block, c = m_handle[o] \/ heap[c].free,
             heap' = [Clip!Freed(heap, m_handle[o]) EXCEPT ![c] =
                        Clip!Allocated(heap[m_handle[o]].text, n)],
             m_handle' = [m_handle EXCEPT ![o] = c]
      PROVE  ClipInv'
  <2>1. /\ heap \in Heaps /\ Owned(FreeOf(heap), m_handle, raw, data)
        /\ m_handle \in [Objects -> Block \cup {None}]
    BY DEF ClipInv, Owned
  <2>2. PICK b \in Block : b = m_handle[o]
    BY <1>1, <2>1
  <2> DEFINE g == Clip!Freed(heap, b)
             t == heap[b].text
             m == [m_handle EXCEPT ![o] = None]
  <2>3. /\ g \in Heaps /\ FreeOf(g) = FreeOf(heap) \cup {b}
        /\ \A d \in Block : g[d].locks = heap[d].locks /\ (d # b => g[d].text = heap[d].text)
    BY <2>1, FreesBlock
  <2>4. t \in Text
    BY <2>1, ContentsAre DEF Heaps
  <2>5. heap' = Filled(g, c, t, n)
    BY <1>4, <2>2 DEF Filled
  <2>6. Owned(FreeOf(g), m, raw, data) /\ m[o] = None
    BY <1>1, <2>1, <2>2, <2>3, Drops
  <2>7. m_handle' = [m EXCEPT ![o] = c]
    BY <1>4, <2>1
  <2>8. \A p \in Objects : p # o => m_handle'[p] = m_handle[p]
    BY <1>4, <2>1
  <2>9. c \in FreeOf(g)
    BY <1>4, <2>2, <2>3 DEF FreeOf
  <2> HIDE DEF g, t, m
  <2>10. /\ heap' \in Heaps /\ FreeOf(heap') = FreeOf(g) \ {c}
         /\ heap'[c].locks = 0 /\ \A d \in Block : d # c => heap'[d] = g[d]
    BY <1>1, <2>3, <2>4, <2>5, SetsBlock
  <2>11. Owned(FreeOf(heap'), m_handle', raw, data)
    BY <1>1, <2>6, <2>7, <2>9, <2>10, Gives
  <2>12. \A d \in Block : heap'[d].locks = heap[d].locks
    <3>1. \A d \in Block : heap[d].locks = 0
      BY <1>1 DEF ClipInv, Pinned
    <3> QED
      BY <2>3, <2>10, <3>1
  <2>13. \A f \in Format : data[f] \in Block => data[f] # b /\ data[f] # c
    BY <1>1, <2>2, <2>6, <2>9, <2>1 DEF Owned, Holders
  <2>14. \A f \in Format : data[f] \in Block => heap'[data[f]].text = heap[data[f]].text
    BY <2>3, <2>10, <2>13
  <2> QED
    BY <1>1, <1>2, <2>8, <2>10, <2>11, <2>12, <2>14, ObjectStep
<1> QED
  BY <1>3, <1>4 DEF Clip!Realloc

LEMMA HolderInv ==
    ASSUME ClipInv, Clip!Open \/ Clip!Close
    PROVE  ClipInv'
<1>1. /\ call = Clip!Idle /\ UNCHANGED <<heap, m_handle, raw, data, call, last>>
      /\ holder' \in {"none", "us", "other"}
  BY DEF Clip!Open, Clip!Close, Clip!Others, ClipInv
<1>2. Kept'
  BY <1>1 DEF ClipInv, Kept
<1> QED
  BY <1>1, <1>2, IdleStep DEF ClipInv

LEMMA ClearInv ==
    ASSUME ClipInv, Clip!Clear
    PROVE  ClipInv'
<1> DEFINE S == {b \in Block : \E f \in Format : data[f] = b}
<1>1. /\ call = Clip!Idle /\ UNCHANGED <<m_handle, raw, holder, call>>
      /\ heap' = [b \in Block |-> IF b \in S THEN Clip!FreeBlock ELSE heap[b]]
      /\ data' = [f \in Format |-> None] /\ last' = [f \in Format |-> None]
  BY DEF Clip!Clear
<1>2. heap \in Heaps /\ Owned(FreeOf(heap), m_handle, raw, data)
  BY DEF ClipInv
<1>3. Clip!FreeBlock \in Contents /\ Clip!FreeBlock.free = TRUE /\ Clip!FreeBlock.locks = 0
  <2>1. \A k \in Int : [free |-> TRUE, text |-> <<>>, locks |-> k] \in Contents
    BY NoText, ContentsMade
  <2>2. [free |-> TRUE, text |-> <<>>, locks |-> 0] \in Contents
    BY <2>1
  <2> QED
    BY <2>2 DEF Clip!FreeBlock
<1>4. Owned(FreeOf(heap) \cup S, m_handle, raw, data')
  BY <1>1, <1>2, ClearsData
<1> HIDE DEF S
<1>5. heap' \in Heaps /\ \A b \in Block : heap'[b] = IF b \in S THEN Clip!FreeBlock ELSE heap[b]
  BY <1>1, <1>2, <1>3 DEF Heaps
<1>6. FreeOf(heap') = (FreeOf(heap) \cup S) \cap Block
  BY <1>3, <1>5 DEF FreeOf
<1>7. Owned(FreeOf(heap'), m_handle', raw', data')
  BY <1>1, <1>4, <1>6 DEF Owned
<1>8. \A b \in Block : heap'[b].locks = heap[b].locks
  <2>1. \A b \in Block : heap[b].locks = 0
    BY <1>1 DEF ClipInv, Pinned
  <2> QED
    BY <1>3, <1>5, <2>1
<1>9. /\ last' \in [Format -> Text \cup {None}] /\ Kept'
  BY <1>1 DEF Kept
<1> QED
  BY <1>1, <1>5, <1>7, <1>8, <1>9, IdleStep DEF ClipInv

(* SetClipboardData() takes the block of an object; its text is the one    *)
(* under the format from then on.                                          *)
LEMMA PassedBlock ==
    ASSUME ClipInv, NEW o \in Objects, m_handle[o] \in Block, NEW f \in Format,
           NEW done \in BOOLEAN, Clip!SetClipboardData(f, o, done)
    PROVE  /\ heap' \in Heaps /\ Owned(FreeOf(heap'), m_handle', raw, data')
           /\ \A c \in Block : heap'[c].locks = heap[c].locks
           /\ m_handle[o] \notin FreeOf(heap')
           /\ m_handle'[o] \in {m_handle[o], None}
           /\ \A p \in Objects : p # o => m_handle'[p] = m_handle[p]
           /\ last' \in [Format -> Text \cup {None}] /\ Kept'
<1>1. /\ heap \in Heaps /\ Owned(FreeOf(heap), m_handle, raw, data)
      /\ m_handle \in [Objects -> Block \cup {None}] /\ data \in [Format -> Block \cup {None}]
      /\ last \in [Format -> Text \cup {None}] /\ Kept /\ None \notin Block
  BY ClipboardAssumption DEF ClipInv, Owned
<1>2. PICK b \in Block : b = m_handle[o]
  OBVIOUS
<1>3. b \notin FreeOf(heap) /\ \A g \in Format : data[g] # b
  BY <1>1, <1>2 DEF Owned, Holders
<1>4. CASE ~done
  BY <1>1, <1>2, <1>3, <1>4 DEF Clip!SetClipboardData, Kept
<1>5. CASE done
  <2>1. /\ heap' = Clip!Put(heap, f, b) /\ data' = [data EXCEPT ![f] = b]
        /\ last' = [last EXCEPT ![f] = Clip!Upto(heap[b].text)]
        /\ m_handle' = [m_handle EXCEPT ![o] = None]
    BY <1>2, <1>5 DEF Clip!SetClipboardData
  <2>2. /\ heap' \in Heaps /\ FreeOf(heap') = FreeOf(heap) \cup ({data[f]} \cap Block)
        /\ \A c \in Block : heap'[c].locks = heap[c].locks
                            /\ (c # data[f] => heap'[c].text = heap[c].text)
    BY <1>1, <2>1, PutsBlock
  <2>3. FreeOf(heap) \subseteq Block
    BY DEF FreeOf
  <2>4. Owned(FreeOf(heap'), m_handle', raw, data')
    <3>1. Owned(FreeOf(heap) \cup ({data[f]} \cap Block), [m_handle EXCEPT ![o] = None], raw,
                [data EXCEPT ![f] = b])
      BY <1>1, <1>2, <2>3, Passes
    <3> QED
      BY <2>1, <2>2, <3>1
  <2>5. heap[b].text \in Text /\ heap'[b].text = heap[b].text
    BY <1>1, <1>3, <2>2, ContentsAre DEF Heaps
  <2>6. Clip!Upto(heap[b].text) \in Text /\ Same(heap[b].text, Clip!Upto(heap[b].text))
    BY <2>5, UptoSame
  <2>7. last' \in [Format -> Text \cup {None}]
    BY <1>1, <2>1, <2>6
  <2>8. data'[f] = b /\ last'[f] = Clip!Upto(heap[b].text)
    BY <1>1, <2>1
  <2>9. ASSUME NEW g \in Format, g # f
        PROVE  IF data'[g] = None THEN last'[g] = None
               ELSE last'[g] \in Text /\ Same(heap'[data'[g]].text, last'[g])
    <3>1. data'[g] = data[g] /\ last'[g] = last[g]
      BY <1>1, <2>1, <2>9
    <3>2. data[g] \in Block => data[g] # data[f]
      BY <1>1, <2>9 DEF Owned
    <3> QED
      BY <1>1, <2>2, <3>1, <3>2 DEF Kept
  <2>10. Kept'
    BY <1>1, <2>5, <2>6, <2>8, <2>9 DEF Kept
  <2> QED
    BY <1>1, <1>2, <1>3, <2>1, <2>2, <2>4, <2>7, <2>10
<1> QED
  BY <1>4, <1>5

LEMMA SetDataInv ==
    ASSUME ClipInv, NEW o \in Object, NEW f \in Format, Clip!SetData(f, o)
    PROVE  ClipInv'
<1>1. /\ call = Clip!Idle /\ UNCHANGED <<raw, holder, call>> /\ o \in Objects /\ m_handle[o] # None
      /\ Clip!gmem \in Objects /\ Clip!gmem # o
  BY ClipboardAssumption DEF Clip!SetData, Objects
<1>2. m_handle[o] \in Block
  BY <1>1 DEF ClipInv, Owned
<1>3. PICK done \in BOOLEAN : Clip!SetClipboardData(f, o, done)
  BY DEF Clip!SetData
<1>4. /\ heap' \in Heaps /\ Owned(FreeOf(heap'), m_handle', raw, data')
      /\ \A c \in Block : heap'[c].locks = heap[c].locks
      /\ \A p \in Objects : p # o => m_handle'[p] = m_handle[p]
      /\ last' \in [Format -> Text \cup {None}] /\ Kept'
  BY <1>1, <1>2, <1>3, PassedBlock
<1>5. m_handle'[Clip!gmem] = None
  BY <1>1, <1>4 DEF ClipInv
<1> QED
  BY <1>1, <1>4, <1>5, IdleStep DEF ClipInv

(* The other process, when the clipboard is not open here.                 *)
LEMMA OtherPutInv ==
    ASSUME ClipInv, NEW f \in Format, NEW s \in ClipText, NEW b \in Block,
           holder = "other", heap[b].free,
           heap' = [Clip!Put(heap, f, b) EXCEPT ![b] =
                      Clip!Allocated(Append(s, Clip!NUL), Len(s) + 1)],
           data' = [data EXCEPT ![f] = b], last' = [last EXCEPT ![f] = Append(s, Clip!NUL)],
           UNCHANGED <<m_handle, raw, holder, call>>
    PROVE  ClipInv'
<1>1. /\ heap \in Heaps /\ Owned(FreeOf(heap), m_handle, raw, data)
      /\ data \in [Format -> Block \cup {None}] /\ None \notin Block
      /\ last \in [Format -> Text \cup {None}] /\ Kept
  BY ClipboardAssumption DEF ClipInv, Owned
<1>2. call = Clip!Idle /\ m_handle[Clip!gmem] = None
  BY DEF ClipInv, InCall
<1> DEFINE t == Append(s, Clip!NUL)
           n == Len(s) + 1
           h == Clip!Put(heap, f, b)
<1>3. s \in Text /\ t \in Text /\ n \in Nat /\ Same(Clip!Resized(t, n), t)
  <2>1. s \in Text
    BY ClipboardAssumption DEF Text
  <2> QED
    BY <2>1, TextIs, FilledSame
<1>4. /\ h \in Heaps /\ FreeOf(h) = FreeOf(heap) \cup ({data[f]} \cap Block)
      /\ \A c \in Block : h[c].locks = heap[c].locks /\ (c # data[f] => h[c].text = heap[c].text)
  BY <1>1, PutsBlock
<1>5. heap' = Filled(h, b, t, n)
  BY DEF Filled
<1>6. last' = [last EXCEPT ![f] = t]
  OBVIOUS
<1> HIDE DEF t, n, h
<1>7. /\ heap' \in Heaps /\ FreeOf(heap') = FreeOf(h) \ {b}
      /\ heap'[b].locks = 0 /\ heap'[b].text = Clip!Resized(t, n)
      /\ \A c \in Block : c # b => heap'[c] = h[c]
  <2> DEFINE g == Filled(h, b, t, n)
  <2>1. /\ g \in Heaps /\ FreeOf(g) = FreeOf(h) \ {b}
        /\ g[b].locks = 0 /\ g[b].text = Clip!Resized(t, n)
        /\ \A c \in Block : c # b => g[c] = h[c]
    BY <1>3, <1>4, SetsBlock
  <2> QED
    BY <1>5, <2>1
<1>8. Owned(FreeOf(heap'), m_handle', raw', data')
  <2>1. b \in FreeOf(heap) /\ FreeOf(heap) \subseteq Block
    BY DEF FreeOf
  <2>2. Owned((FreeOf(heap) \cup ({data[f]} \cap Block)) \ {b}, m_handle, raw,
              [data EXCEPT ![f] = b])
    BY <1>1, <2>1, Puts
  <2> QED
    BY <1>4, <1>7, <2>2
<1>9. \A c \in Block : heap'[c].locks = heap[c].locks
  <2>1. \A c \in Block : heap[c].locks = 0
    BY <1>2 DEF ClipInv, Pinned
  <2> QED
    BY <1>4, <1>7, <2>1
<1>10. last' \in [Format -> Text \cup {None}] /\ last'[f] = t /\ data'[f] = b
  BY <1>1, <1>3, <1>6
<1>11. ASSUME NEW g \in Format, g # f
       PROVE  IF data'[g] = None THEN last'[g] = None
              ELSE last'[g] \in Text /\ Same(heap'[data'[g]].text, last'[g])
  <2>1. data'[g] = data[g] /\ last'[g] = last[g]
    BY <1>1, <1>6, <1>11
  <2>2. data[g] \in Block => data[g] # data[f] /\ data[g] # b
    <3>1. b \in FreeOf(heap)
      BY DEF FreeOf
    <3> QED
      BY <1>1, <1>11, <3>1 DEF Owned, Holders
  <2>3. data[g] \in Block => heap'[data[g]].text = heap[data[g]].text
    BY <1>4, <1>7, <2>2
  <2> QED
    BY <1>1, <2>1, <2>3 DEF Kept
<1>12. Kept'
  <2>1. data'[f] # None /\ last'[f] \in Text /\ Same(heap'[data'[f]].text, last'[f])
    BY <1>1, <1>3, <1>7, <1>10
  <2> QED
    BY <1>11, <2>1 DEF Kept
<1> QED
  BY <1>2, <1>7, <1>8, <1>9, <1>10, <1>12, IdleStep DEF ClipInv

LEMMA OtherInv ==
    ASSUME ClipInv, Clip!Other
    PROVE  ClipInv'
<1>1. CASE /\ holder' \in {"none", "other"} /\ holder # "us"
           /\ UNCHANGED <<heap, m_handle, raw, data, call, last>>
  <2>1. call = Clip!Idle /\ m_handle[Clip!gmem] = None
    BY <1>1 DEF ClipInv, InCall
  <2>2. Kept'
    BY <1>1 DEF ClipInv, Kept
  <2> QED
    BY <1>1, <2>1, <2>2, IdleStep DEF ClipInv
<1> QED
  BY <1>1, OtherPutInv DEF Clip!Other

-----------------------------------------------------------------------------
(* The steps of a call.                                                    *)
LEMMA BeginSetInv ==
    ASSUME ClipInv, NEW f \in Format, NEW s \in Text, Clip!BeginSet(f, s)
    PROVE  ClipInv'
<1>1. /\ call = Clip!Idle /\ holder = "us" /\ m_handle[Clip!gmem] = None
      /\ UNCHANGED <<raw, data, holder, last>> /\ Clip!gmem \in Objects
  BY DEF Clip!BeginSet, ClipInv, Objects
<1>2. CASE UNCHANGED <<heap, m_handle, call>>
  <2>1. Kept'
    BY <1>1, <1>2 DEF ClipInv, Kept
  <2> QED
    BY <1>1, <1>2, <2>1, IdleStep DEF ClipInv
<1>3. ASSUME NEW b \in Block, heap[b].free,
             heap' = [heap EXCEPT ![b] = Clip!Allocated(<<>>, Len(s))],
             m_handle' = [m_handle EXCEPT ![Clip!gmem] = b],
             call' = [pc |-> "lock", format |-> f, text |-> s, ptr |-> None, what |-> "set"]
      PROVE  ClipInv'
  <2>1. Len(s) \in Nat
    BY TextIs
  <2>2. /\ heap' \in Heaps /\ Owned(FreeOf(heap'), m_handle', raw, data)
        /\ \A c \in Block : heap'[c].locks = heap[c].locks
        /\ \A g \in Format : data[g] \in Block => heap'[data[g]].text = heap[data[g]].text
        /\ m_handle'[Clip!gmem] = b
    BY <1>1, <1>3, <2>1, GivenBlock
  <2>3. Kept'
    BY <1>1, <2>2, KeptStep
  <2>4. /\ call' \in Calls /\ call'.pc = "lock" /\ call'.what = "set"
        /\ call' # Clip!Idle
    BY <1>3 DEF Calls, Clip!Idle
  <2>5. Target' = b
    BY <2>2, <2>4 DEF Target
  <2>6. InCall'
    BY <1>1, <2>4, <2>5 DEF InCall
  <2>7. Pinned = {} /\ Pinned' = {}
    BY <1>1, <2>4 DEF Pinned
  <2>8. \A c \in Block : heap[c].locks = 0
    BY <2>7 DEF ClipInv
  <2> QED
    BY <1>1, <2>2, <2>3, <2>4, <2>6, <2>7, <2>8 DEF ClipInv
<1> QED
  BY <1>2, <1>3 DEF Clip!BeginSet

LEMMA BeginGetInv ==
    ASSUME ClipInv, NEW f \in Format, Clip!BeginGet(f)
    PROVE  ClipInv'
<1>1. /\ call = Clip!Idle /\ holder = "us" /\ m_handle[Clip!gmem] = None
      /\ UNCHANGED <<heap, m_handle, raw, data, holder, last>>
  BY DEF Clip!BeginGet, ClipInv
<1>2. Kept'
  BY <1>1 DEF ClipInv, Kept
<1>3. CASE data[f] = None
  BY <1>1, <1>2, <1>3, IdleStep DEF ClipInv, Clip!BeginGet
<1>4. CASE data[f] # None
  <2>1. call' = [pc |-> "lock", format |-> f, text |-> <<>>, ptr |-> None, what |-> "get"]
    BY <1>4 DEF Clip!BeginGet
  <2>2. PICK t \in Text : t = <<>>
    BY NoText
  <2>3. call' = [pc |-> "lock", format |-> f, text |-> t, ptr |-> None, what |-> "get"]
    BY <2>1, <2>2
  <2>4. /\ call' \in Calls /\ call'.pc = "lock" /\ call'.what = "get" /\ call'.format = f
        /\ call' # Clip!Idle
    BY <2>3 DEF Calls, Clip!Idle
  <2>5. Target' = data[f] /\ data[f] \in Block
    BY <1>1, <1>4, <2>4 DEF Target, ClipInv, Owned
  <2>6. InCall'
    BY <1>1, <2>4, <2>5 DEF InCall
  <2>7. Pinned = {} /\ Pinned' = {}
    BY <1>1, <2>4 DEF Pinned
  <2> QED
    BY <1>1, <1>2, <2>4, <2>6, <2>7 DEF ClipInv
<1> QED
  BY <1>3, <1>4

GoneTo(pc, b) == [call EXCEPT !.pc = pc, !.ptr = b]

LEMMA GoesTo ==
    ASSUME call \in Calls, NEW pc \in {"lock", "copy", "transfer", "unlock", "end"},
           NEW b \in Block \cup {None}, call' = GoneTo(pc, b)
    PROVE  /\ call' \in Calls /\ call' # Clip!Idle /\ call'.pc = pc /\ call'.ptr = b
           /\ call'.what = call.what /\ call'.format = call.format /\ call'.text = call.text
<1>1. call = [pc |-> call.pc, format |-> call.format, text |-> call.text, ptr |-> call.ptr,
              what |-> call.what]
  BY DEF Calls
<1>2. call' = [pc |-> pc, format |-> call.format, text |-> call.text, ptr |-> b,
               what |-> call.what]
  BY <1>1 DEF GoneTo
<1>3. call.format \in Format /\ call.text \in Text /\ call.what \in {"set", "get"}
  BY DEF Calls
<1> QED
  BY <1>2, <1>3 DEF Calls, Clip!Idle

LEMMA Goes ==
    ASSUME call \in Calls, NEW pc \in {"lock", "copy", "transfer", "unlock", "end"},
           Clip!Goto(pc)
    PROVE  /\ call' \in Calls /\ call' # Clip!Idle /\ call'.pc = pc /\ call'.ptr = call.ptr
           /\ call'.what = call.what /\ call'.format = call.format /\ call'.text = call.text
<1>1. /\ call.ptr \in Block \cup {None}
      /\ call = [pc |-> call.pc, format |-> call.format, text |-> call.text, ptr |-> call.ptr,
                 what |-> call.what]
  BY DEF Calls
<1>2. call' = GoneTo(pc, call.ptr)
  BY <1>1 DEF Clip!Goto, GoneTo
<1> QED
  BY <1>1, <1>2, GoesTo

LEMMA TargetHeld ==
    ASSUME ClipInv, call \in Calls, Target \in Block
    PROVE  /\ Target \notin FreeOf(heap)
           /\ call.what = "set" => \A f \in Format : data[f] # Target
<1>1. /\ Owned(FreeOf(heap), m_handle, raw, data) /\ Clip!gmem \in Objects
      /\ call.format \in Format
  BY DEF ClipInv, Objects, Calls
<1>2. CASE call.what = "set"
  <2>1. PICK b \in Block : b = Target /\ b = m_handle[Clip!gmem]
    BY <1>2 DEF Target
  <2>2. \A f \in Format : data[f] # b
    BY <1>1, <2>1 DEF Owned
  <2>3. Holders(m_handle, raw, data, b)
    BY <1>1, <2>1 DEF Holders
  <2> QED
    BY <1>1, <2>1, <2>2, <2>3 DEF Owned
<1>3. CASE call.what # "set"
  <2>1. PICK b \in Block : b = Target /\ b = data[call.format]
    BY <1>3 DEF Target
  <2>2. Holders(m_handle, raw, data, b)
    BY <1>1, <2>1 DEF Holders
  <2> QED
    BY <1>1, <1>3, <2>1, <2>2 DEF Owned
<1> QED
  BY <1>2, <1>3

LEMMA Called ==
    ASSUME ClipInv, NEW pc \in {"lock", "copy", "transfer", "unlock", "end"}, Clip!At(pc)
    PROVE  call # Clip!Idle /\ InCall /\ call.pc = pc /\ call \in Calls /\ holder = "us"
<1>1. call # Clip!Idle /\ call.pc = pc
  BY DEF Clip!At, Clip!Idle
<1> QED
  BY <1>1 DEF ClipInv, InCall

LEMMA LockInv ==
    ASSUME ClipInv, Clip!Lock
    PROVE  ClipInv'
<1>1. /\ call # Clip!Idle /\ InCall /\ call.pc = "lock" /\ call \in Calls /\ holder = "us"
      /\ UNCHANGED <<m_handle, raw, data, holder, last>>
  BY Called DEF Clip!Lock
<1>2. /\ Target \in Block
      /\ Target = IF call.what = "set" THEN m_handle[Clip!gmem] ELSE data[call.format]
  BY <1>1 DEF InCall, Target
<1>3. heap \in Heaps /\ Pinned = {} /\ \A b \in Block : heap[b].locks = 0
  BY <1>1 DEF ClipInv, Pinned
<1>4. CASE /\ heap' = Clip!Locked(heap, Target, 1)
           /\ call' = [call EXCEPT !.pc = "copy", !.ptr = Target]
  <2>1. /\ heap' \in Heaps /\ FreeOf(heap') = FreeOf(heap)
        /\ heap'[Target].locks = 1 /\ \A c \in Block : c # Target => heap'[c] = heap[c]
        /\ \A c \in Block : heap'[c].text = heap[c].text
    BY <1>2, <1>3, <1>4, LocksBlock
  <2>2. /\ call' \in Calls /\ call' # Clip!Idle /\ call'.pc = "copy" /\ call'.ptr = Target
        /\ call'.what = call.what /\ call'.format = call.format
    <3>1. call' = GoneTo("copy", Target)
      BY <1>4 DEF GoneTo
    <3> QED
      BY <1>1, <1>2, <3>1, GoesTo
  <2>3. Target' = Target
    BY <1>1, <2>2 DEF Target
  <2>4. InCall'
    BY <1>1, <1>2, <2>2, <2>3 DEF InCall
  <2>5. Pinned' = {Target}
    BY <2>2 DEF Pinned
  <2>6. \A b \in Block : heap'[b].locks = IF b \in Pinned' THEN 1 ELSE 0
    BY <1>3, <2>1, <2>5
  <2>7. Kept'
    BY <1>1, <2>1, KeptStep
  <2> QED
    BY <1>1, <2>1, <2>2, <2>4, <2>6, <2>7 DEF ClipInv
<1>5. CASE Clip!Goto("end") /\ UNCHANGED heap
  <2>1. call' \in Calls /\ call' # Clip!Idle /\ call'.pc = "end"
    BY <1>1, <1>5, Goes
  <2>2. InCall'
    BY <1>1, <2>1 DEF InCall
  <2>3. Pinned' = {}
    BY <2>1 DEF Pinned
  <2>4. Kept'
    BY <1>1, <1>5, KeptStep
  <2> QED
    BY <1>1, <1>3, <1>5, <2>1, <2>2, <2>3, <2>4 DEF ClipInv
<1> QED
  BY <1>2, <1>4, <1>5 DEF Clip!Lock

LEMMA CopyInv ==
    ASSUME ClipInv, Clip!Copy
    PROVE  ClipInv'
<1>1. /\ call # Clip!Idle /\ InCall /\ call.pc = "copy" /\ call \in Calls /\ holder = "us"
      /\ UNCHANGED <<m_handle, raw, data, holder, last>> /\ call.what = "set"
  BY Called DEF Clip!Copy
<1>2. PICK b \in Block : b = call.ptr /\ b = Target
  BY <1>1 DEF InCall
<1>3. heap \in Heaps /\ heap[b] \in Contents /\ b \in DOMAIN heap
  BY DEF ClipInv, Heaps
<1> DEFINE s == heap[b].text
           u == [i \in DOMAIN s |-> IF i <= Len(call.text) THEN call.text[i] ELSE s[i]]
           x == [free |-> heap[b].free, text |-> u, locks |-> heap[b].locks]
<1>4. u \in Text
  <2>1. s \in Text /\ call.text \in Text
    BY <1>1, <1>3, ContentsAre DEF Calls
  <2>2. PICK n \in Nat : n = Len(s) /\ DOMAIN s = 1 .. n
    BY <2>1, TextIs
  <2>3. \A i \in 1 .. n : s[i] \in STRING
    BY <2>1, <2>2, TextIs
  <2>4. Len(call.text) \in Nat /\ \A i \in 1 .. Len(call.text) : call.text[i] \in STRING
    BY <2>1, TextIs
  <2>5. \A i \in 1 .. n : (IF i <= Len(call.text) THEN call.text[i] ELSE s[i]) \in STRING
    BY <2>3, <2>4
  <2>6. u = [i \in 1 .. n |-> IF i <= Len(call.text) THEN call.text[i] ELSE s[i]]
    BY <2>2
  <2> HIDE DEF s
  <2>7. u \in [1 .. n -> STRING]
    BY <2>5, <2>6
  <2> HIDE DEF u
  <2> QED
    BY <2>2, <2>7 DEF Text
<1>5. heap' = [heap EXCEPT ![b].text = u]
  BY <1>2, <1>3 DEF Clip!Copy
<1> HIDE DEF u
<1>6. heap[b] = [free |-> heap[b].free, text |-> heap[b].text, locks |-> heap[b].locks]
  BY <1>3, ContentsAre
<1>7. heap' = [heap EXCEPT ![b] = x]
  <2>1. [heap[b] EXCEPT !.text = u] = x
    BY <1>6
  <2> QED
    BY <1>3, <1>5, <2>1
<1>8. x \in Contents
  <2>1. heap[b].free \in BOOLEAN /\ heap[b].locks \in Int
    BY <1>3, ContentsAre
  <2> QED
    BY <1>4, <2>1, ContentsMade
<1>9. x.free = heap[b].free /\ x.locks = heap[b].locks
  OBVIOUS
<1> HIDE DEF x
<1>10. /\ heap' \in Heaps /\ FreeOf(heap') = FreeOf(heap)
       /\ heap'[b] = x /\ \A c \in Block : c # b => heap'[c] = heap[c]
  <2> DEFINE g == [heap EXCEPT ![b] = x]
  <2>1. /\ g \in Heaps /\ FreeOf(g) = FreeOf(heap)
        /\ g[b] = x /\ \A c \in Block : c # b => g[c] = heap[c]
    BY <1>3, <1>8, <1>9, ChangesBlock
  <2> QED
    BY <1>7, <2>1
<1>11. /\ call' \in Calls /\ call' # Clip!Idle /\ call'.pc = "transfer" /\ call'.ptr = b
       /\ call'.what = call.what /\ call'.format = call.format
  BY <1>1, <1>2, Goes DEF Clip!Copy
<1>12. Target' = b
  BY <1>1, <1>2, <1>11 DEF Target
<1>13. InCall'
  BY <1>1, <1>11, <1>12 DEF InCall
<1>14. Pinned' = {b} /\ Pinned = {b}
  BY <1>1, <1>2, <1>11 DEF Pinned
<1>15. \A c \in Block : heap'[c].locks = heap[c].locks
  BY <1>9, <1>10
<1>16. \A f \in Format : data[f] # b
  BY <1>1, <1>2, TargetHeld
<1>17. Kept'
  BY <1>1, <1>10, <1>16, KeptStep
<1> QED
  BY <1>1, <1>10, <1>11, <1>13, <1>14, <1>15, <1>17 DEF ClipInv

LEMMA TransferInv ==
    ASSUME ClipInv, Clip!Transfer
    PROVE  ClipInv'
<1>1. /\ call # Clip!Idle /\ InCall /\ call.pc = "transfer" /\ call \in Calls /\ holder = "us"
      /\ UNCHANGED <<raw, holder>>
  BY Called DEF Clip!Transfer
<1>2. PICK b \in Block : b = call.ptr /\ b = m_handle[Clip!gmem]
  BY <1>1 DEF InCall, Target
<1>3. Clip!gmem \in Objects /\ call.format \in Format
  BY <1>1 DEF Objects, Calls
<1>4. PICK done \in BOOLEAN : Clip!SetClipboardData(call.format, Clip!gmem, done)
  BY DEF Clip!Transfer
<1>5. /\ heap' \in Heaps /\ Owned(FreeOf(heap'), m_handle', raw, data')
      /\ \A c \in Block : heap'[c].locks = heap[c].locks
      /\ b \notin FreeOf(heap')
      /\ last' \in [Format -> Text \cup {None}] /\ Kept'
  BY <1>2, <1>3, <1>4, PassedBlock
<1>6. call' \in Calls /\ call' # Clip!Idle /\ call'.pc = "unlock" /\ call'.ptr = b
  BY <1>1, <1>2, Goes DEF Clip!Transfer
<1>7. InCall'
  BY <1>1, <1>5, <1>6 DEF InCall
<1>8. Pinned' = {b} /\ Pinned = {b}
  BY <1>1, <1>2, <1>6 DEF Pinned
<1> QED
  BY <1>1, <1>5, <1>6, <1>7, <1>8 DEF ClipInv

LEMMA CopyOutInv ==
    ASSUME ClipInv, Clip!CopyOut
    PROVE  ClipInv'
<1>1. /\ call # Clip!Idle /\ InCall /\ call.pc = "copy" /\ call \in Calls /\ holder = "us"
      /\ UNCHANGED <<heap, m_handle, raw, data, holder, last>>
  BY Called DEF Clip!CopyOut
<1>2. PICK b \in Block : b = call.ptr /\ b = Target
  BY <1>1 DEF InCall
<1>3. b \notin FreeOf(heap)
  BY <1>1, <1>2, TargetHeld
<1>4. call' \in Calls /\ call' # Clip!Idle /\ call'.pc = "unlock" /\ call'.ptr = b
  BY <1>1, <1>2, Goes DEF Clip!CopyOut
<1>5. InCall'
  BY <1>1, <1>3, <1>4 DEF InCall
<1>6. Pinned' = {b} /\ Pinned = {b}
  BY <1>1, <1>2, <1>4 DEF Pinned
<1>7. Kept'
  BY <1>1, KeptStep
<1> QED
  BY <1>1, <1>4, <1>5, <1>6, <1>7 DEF ClipInv

LEMMA UnlockInv ==
    ASSUME ClipInv, Clip!Unlock
    PROVE  ClipInv'
<1>1. /\ call # Clip!Idle /\ InCall /\ call.pc = "unlock" /\ call \in Calls /\ holder = "us"
      /\ UNCHANGED <<m_handle, raw, data, holder, last>>
  BY Called DEF Clip!Unlock
<1>2. PICK b \in Block : b = call.ptr
  BY <1>1 DEF InCall
<1>3. heap \in Heaps /\ Pinned = {b} /\ heap[b].locks = 1
  BY <1>1, <1>2 DEF ClipInv, Pinned
<1>4. /\ heap' \in Heaps /\ FreeOf(heap') = FreeOf(heap)
      /\ heap'[b].locks = 0 /\ \A c \in Block : c # b => heap'[c] = heap[c]
      /\ \A c \in Block : heap'[c].text = heap[c].text
  <2>1. PICK k \in Int : k = -1 /\ heap' = Clip!Locked(heap, b, k)
    BY <1>2 DEF Clip!Unlock
  <2>2. /\ heap' \in Heaps /\ FreeOf(heap') = FreeOf(heap)
        /\ heap'[b].locks = heap[b].locks + k /\ \A c \in Block : c # b => heap'[c] = heap[c]
        /\ \A c \in Block : heap'[c].text = heap[c].text
    <3> DEFINE g == Clip!Locked(heap, b, k)
    <3>1. /\ g \in Heaps /\ FreeOf(g) = FreeOf(heap)
          /\ g[b].locks = heap[b].locks + k /\ \A c \in Block : c # b => g[c] = heap[c]
          /\ \A c \in Block : g[c].text = heap[c].text
      BY <1>3, LocksBlock
    <3>2. heap' = g
      BY <2>1
    <3> HIDE DEF g
    <3> QED
      BY <3>1, <3>2, Zenon
  <2> QED
    BY <1>3, <2>1, <2>2
<1>5. call' \in Calls /\ call' # Clip!Idle /\ call'.pc = "end"
  <2>1. call' = GoneTo("end", None)
    BY DEF Clip!Unlock, GoneTo
  <2> QED
    BY <1>1, <2>1, GoesTo
<1>6. InCall'
  BY <1>1, <1>5 DEF InCall
<1>7. Pinned' = {}
  BY <1>5 DEF Pinned
<1>8. \A c \in Block : heap'[c].locks = 0
  BY <1>3, <1>4 DEF ClipInv
<1>9. Kept'
  BY <1>1, <1>4, KeptStep
<1> QED
  BY <1>1, <1>4, <1>5, <1>6, <1>7, <1>8, <1>9 DEF ClipInv

LEMMA EndInv ==
    ASSUME ClipInv, Clip!End
    PROVE  ClipInv'
<1>1. /\ call # Clip!Idle /\ call.pc = "end" /\ holder = "us" /\ call' = Clip!Idle
      /\ UNCHANGED <<raw, data, holder, last>> /\ Clip!gmem \in Objects
      /\ m_handle' = [m_handle EXCEPT ![Clip!gmem] = None]
  BY Called DEF Clip!End, Objects
<1>2. /\ heap \in Heaps /\ Owned(FreeOf(heap), m_handle, raw, data)
      /\ m_handle \in [Objects -> Block \cup {None}]
  BY DEF ClipInv, Owned
<1>3. /\ heap' \in Heaps /\ Owned(FreeOf(heap'), m_handle', raw, data)
      /\ \A c \in Block : heap'[c].locks = heap[c].locks
      /\ \A f \in Format : data[f] \in Block => heap'[data[f]].text = heap[data[f]].text
  <2>1. CASE m_handle[Clip!gmem] # None
    BY <1>1, <2>1, FreedBlock DEF Clip!End
  <2>2. CASE m_handle[Clip!gmem] = None
    BY <1>1, <1>2, <2>2 DEF Clip!End
  <2> QED
    BY <2>1, <2>2
<1>4. m_handle'[Clip!gmem] = None
  BY <1>1, <1>2
<1>5. Pinned = {} /\ Pinned' = {}
  BY <1>1 DEF Pinned
<1>6. Kept'
  BY <1>1, <1>3, KeptStep
<1> QED
  BY <1>1, <1>3, <1>4, <1>5, <1>6 DEF ClipInv

LEMMA ClipNext ==
    ASSUME ClipInv, Clip!Next
    PROVE  ClipInv'
<1>1. \A s \in ClipText : s \in Text /\ Append(s, Clip!NUL) \in Text
  <2>1. \A s \in ClipText : s \in Text
    BY ClipboardAssumption DEF Text
  <2> QED
    BY <2>1, TextIs
<1>2. ASSUME NEW f \in Format, NEW s \in ClipText,
             Clip!BeginSet(f, Append(s, Clip!NUL)) \/ Clip!BeginSet(f, s)
      PROVE  ClipInv'
  BY <1>1, <1>2, BeginSetInv
<1> QED
  BY <1>2, ConstructInv, ReallocInv, AdoptInv, ReleaseBlockInv, DestroyInv, SetDataInv, HolderInv,
     ClearInv, BeginGetInv, LockInv, CopyInv, TransferInv, UnlockInv, EndInv, CopyOutInv,
     OtherInv DEF Clip!Next

(* What get_text() returns.                                                *)
LEMMA GetTold ==
    ASSUME ClipInv, NEW f \in Format, Clip!BeginGet(f) \/ Clip!CopyOut,
           mem_ret'[1] = "get", mem_ret'[2] = f
    PROVE  IF mem_ret'[3] THEN Same(mem_ret'[4], last[f]) ELSE last[f] = None
<1>1. CASE Clip!BeginGet(f)
  <2>1. data[f] = None /\ mem_ret' = <<"get", f, FALSE, <<>>>>
    <3>1. CASE data[f] # None
      <4>1. mem_ret' = <<"system_error">>
        BY <1>1, <3>1 DEF Clip!BeginGet
      <4>2. mem_ret'[1] # "get"
        BY <4>1
      <4> QED
        BY <4>2
    <3>2. CASE data[f] = None
      BY <1>1, <3>2 DEF Clip!BeginGet
    <3> QED
      BY <3>1, <3>2
  <2>2. last[f] = None
    BY <2>1 DEF ClipInv, Kept
  <2> QED
    BY <2>1, <2>2
<1>2. CASE Clip!CopyOut
  <2>1. /\ call # Clip!Idle /\ InCall /\ call.pc = "copy" /\ call \in Calls /\ call.what = "get"
    BY <1>2, Called DEF Clip!CopyOut
  <2>2. PICK b \in Block : b = call.ptr /\ b = data[call.format]
    BY <2>1 DEF InCall, Target
  <2> DEFINE s == heap[b].text
             u == IF s # <<>> /\ s[Len(s)] = Clip!NUL THEN SubSeq(s, 1, Len(s) - 1) ELSE s
  <2>3. mem_ret' = <<"get", call.format, TRUE, u>>
    BY <1>2, <2>2 DEF Clip!CopyOut
  <2>4. s \in Text
    <3>1. heap[b] \in Contents
      BY DEF ClipInv, Heaps
    <3> QED
      BY <3>1, ContentsAre
  <2>5. Same(u, s)
    BY <2>4, StrippedSame
  <2> HIDE DEF s, u
  <2>6. mem_ret'[3] = TRUE /\ mem_ret'[4] = u /\ f = call.format
    BY <2>3
  <2>7. Same(s, last[f])
    BY <2>2, <2>6, ClipboardAssumption DEF ClipInv, Kept, s
  <2> QED
    BY <2>5, <2>6, <2>7 DEF Same
<1> QED
  BY <1>1, <1>2


-----------------------------------------------------------------------------
(* All parts.  One of them takes a step, and the others stay as they are.  *)
Parts ==
    /\ part # "files" => err \in Code
    /\ EnvInv /\ ClipInv /\ FilesInv /\ ErrorsInv /\ ClockInv
    /\ ~ConstCopy => HandlesInv
    /\ ~IllFormed => ErrorsTrue
    /\ ~Growing /\ <<>> \notin Value => EnvTold

LEMMA Expanded == Expands
BY ExpansionAssumption DEF Expands, Envs

LEMMA EnvStays ==
    ASSUME UNCHANGED <<build, env_vars>>
    PROVE  (EnvInv => EnvInv') /\ (EnvTold => EnvTold')
<1>1. EnvInv => EnvInv'
  BY DEF env_vars, EnvInv, Env!TypeOK
<1>2. EnvTold => EnvTold'
  BY DEF env_vars, EnvTold, EnvAsks, Tells
<1> QED
  BY <1>1, <1>2

LEMMA ClipStays ==
    ASSUME UNCHANGED mem_vars
    PROVE  ClipInv => ClipInv'
BY DEF mem_vars, ClipInv, Kept, Pinned, InCall, Target

LEMMA HandlesStay ==
    ASSUME UNCHANGED fd_vars
    PROVE  HandlesInv => HandlesInv'
BY DEF fd_vars, HandlesInv, Handles!TypeOK

LEMMA FilesStay ==
    ASSUME UNCHANGED <<build, fs_vars>>
    PROVE  FilesInv => FilesInv'
BY DEF fs_vars, FilesInv, Again

LEMMA ErrorsStay ==
    ASSUME UNCHANGED err_vars
    PROVE  (ErrorsInv => ErrorsInv') /\ (ErrorsTrue => ErrorsTrue')
BY DEF err_vars, ErrorsInv, Errors!InfoShared, ErrorsTrue

LEMMA ClockStays ==
    ASSUME UNCHANGED <<build, time_vars>>
    PROVE  ClockInv => ClockInv'
BY DEF time_vars, ClockInv, Started, Clock!Query, Since

(* No part changes the build of the program.                               *)
LEMMA BuildStays == Env!Next \/ Files!Next \/ Clock!Next => build' = build
<1>1. Env!Next => build' = build
  BY DEF Env!Next, Env!GetPosix, Env!GetWide, Env!GetEnv, Env!UnsetEnv, Env!SetEnv, Env!ExpandEnv,
         Env!Again, Env!Change
<1>2. ASSUME Files!Next PROVE build' = build
  <2>1. ASSUME NEW what, NEW wide \in BOOLEAN, NEW p \in Files!Names, Files!Do(what, wide, p)
        PROVE  build' = build
    BY <2>1 DEF Files!Do
  <2>2. ASSUME NEW p \in Files!Names, NEW wide \in BOOLEAN,
               \/ Files!chdir(wide, p) \/ Files!mkdir(wide, p) \/ Files!rmdir(wide, p)
               \/ Files!unlink(wide, p) \/ Files!create_file(wide, p)
        PROVE  build' = build
    BY <2>1, <2>2 DEF Files!chdir, Files!mkdir, Files!rmdir, Files!unlink, Files!create_file
  <2>3. ASSUME NEW p \in Files!Names, NEW wide \in BOOLEAN, NEW q \in Files!Names,
               Files!rename(wide, p, q)
        PROVE  build' = build
    BY <2>3 DEF Files!rename
  <2>4. ASSUME NEW p \in Files!Names, NEW wide \in BOOLEAN,
               Files!exists(wide, p) \/ Files!get_mod_time(wide, p) \/ Files!get_size(wide, p)
        PROVE  build' = build
    BY <2>4 DEF Files!exists, Files!get_mod_time, Files!get_size
  <2>5. ASSUME NEW n, NEW wide \in BOOLEAN, Files!getcwd(n, wide)
        PROVE  build' = build
    BY <2>5 DEF Files!getcwd
  <2>6. Files!GetcwdBegin \/ Files!GetcwdAgain => build' = build
    BY DEF Files!GetcwdBegin, Files!GetcwdAgain
  <2>7. ASSUME NEW f, Files!Other(f)
        PROVE  build' = build
    BY <2>7 DEF Files!Other
  <2> QED
    BY <1>2, <2>2, <2>3, <2>4, <2>5, <2>6, <2>7, Zenon DEF Files!Next
<1>3. Clock!Next => build' = build
  BY DEF Clock!Next, Clock!Restart, Clock!Elapsed, Clock!Tick
<1> QED
  BY <1>1, <1>2, <1>3

all_vars == <<part, build, err, env_vars, mem_vars, fd_vars, fs_vars, err_vars, time_vars>>

LEMMA PartsInit == Init => Parts
<1> SUFFICES ASSUME Init PROVE Parts
  OBVIOUS
<1>1. /\ Env!Init /\ Clip!Init /\ Handles!Init /\ Files!Init /\ Errors!Init /\ Clock!Init
  BY DEF Init
<1>2. err \in Code
  BY <1>1 DEF Errors!Init
<1>3. ErrorsTrue
  BY <1>1 DEF Errors!Init, ErrorsTrue
<1> QED
  BY <1>1, <1>2, <1>3, EnvInit, EnvTold0, ClipInit, HandlesInit, FilesInit, ErrorsInit, ClockInit
  DEF Parts

LEMMA PartsNext ==
    ASSUME Parts, [Next]_all_vars
    PROVE  Parts'
<1> USE DEF Parts
<1>1. CASE UNCHANGED all_vars
  BY <1>1, EnvStays, ClipStays, HandlesStay, FilesStay, ErrorsStay, ClockStays DEF all_vars
<1>2. CASE /\ part' = part /\ part = "environment" /\ Env!Next
           /\ UNCHANGED <<err, mem_vars, fd_vars, fs_vars, err_vars, time_vars>>
  <2>1. build' = build
    BY <1>2, BuildStays
  <2> QED
    BY <1>2, <2>1, EnvNext, EnvTells, Expanded, ClipStays, HandlesStay, FilesStay, ErrorsStay,
       ClockStays
<1>3. CASE /\ part' = part /\ part = "memory" /\ Clip!Next
           /\ UNCHANGED <<build, err, env_vars, fd_vars, fs_vars, err_vars, time_vars>>
  BY <1>3, ClipNext, EnvStays, HandlesStay, FilesStay, ErrorsStay, ClockStays
<1>4. CASE /\ part' = part /\ part = "handles" /\ Handles!Next
           /\ UNCHANGED <<build, err, env_vars, mem_vars, fs_vars, err_vars, time_vars>>
  BY <1>4, HandlesNext, EnvStays, ClipStays, FilesStay, ErrorsStay, ClockStays
<1>5. CASE /\ part' = part /\ part = "files" /\ Files!Next
           /\ UNCHANGED <<env_vars, mem_vars, fd_vars, err_vars, time_vars>>
  <2>1. build' = build
    BY <1>5, BuildStays
  <2> QED
    BY <1>5, <2>1, FilesNext, EnvStays, ClipStays, HandlesStay, ErrorsStay, ClockStays
<1>6. CASE /\ part' = part /\ part = "errors" /\ Errors!Next
           /\ UNCHANGED <<build, env_vars, mem_vars, fd_vars, fs_vars, time_vars>>
  BY <1>6, ErrorsNext, ErrorsTrueNext, EnvStays, ClipStays, HandlesStay, FilesStay, ClockStays
<1>7. CASE /\ part' = part /\ part = "clock" /\ Clock!Next
           /\ UNCHANGED <<err, env_vars, mem_vars, fd_vars, fs_vars, err_vars>>
  <2>1. build' = build
    BY <1>7, BuildStays
  <2> QED
    BY <1>7, <2>1, ClockNext, EnvStays, ClipStays, HandlesStay, FilesStay, ErrorsStay
<1> QED
  BY <1>1, <1>2, <1>3, <1>4, <1>5, <1>6, <1>7 DEF Next

(* Every part keeps its invariant: blocks, descriptors and error_infos     *)
(* have their owners, the trees of names and the calls in progress are     *)
(* whole, what has been answered was true.                                 *)
THEOREM PartsInvariant == Spec => []Parts
<1>1. Init => Parts
  BY PartsInit
<1>2. Parts /\ [Next]_all_vars => Parts'
  BY PartsNext
<1> QED
  BY <1>1, <1>2, PTL DEF Spec, all_vars


-----------------------------------------------------------------------------
(* Blocks of memory, their locks, descriptors and error_infos have one     *)
(* owner each, and no call returns with a lock left, if no const handle is *)
(* copied.                                                                 *)
THEOREM OwnersStayOne ==
    ASSUME ~ConstCopy PROVE Spec => []OwnedOnce
<1>1. Parts => OwnedOnce
  <2> SUFFICES ASSUME Parts PROVE OwnedOnce
    OBVIOUS
  <2>1. /\ EnvInv /\ ClipInv /\ FilesInv /\ ErrorsInv /\ ClockInv /\ HandlesInv
        /\ part # "files" => err \in Code
    BY DEF Parts
  <2>2. Env!TypeOK /\ Handles!TypeOK /\ Errors!InfoShared
    BY <2>1 DEF EnvInv, HandlesInv, ErrorsInv
  <2>3. part # "files" => Errors!TypeOK
    <3>1. \A i \in Info : info[i] # None => info[i].code \in Code
      BY <2>1 DEF ErrorsInv, Errors!Records
    <3>2. \A e \in Exc : m_info[e] # None => info[m_info[e]] # None
      BY <2>1 DEF ErrorsInv, Errors!InfoShared
    <3> QED
      BY <2>1, <3>1, <3>2 DEF ErrorsInv, Errors!TypeOK
  <2>4. TypeOK
    BY <2>1, <2>2, <2>3, ClipTyped, FilesTyped, ClockTyped DEF TypeOK
  <2> QED
    BY <2>1, <2>2, <2>4, ClipTyped, HandlesInvOwns DEF OwnedOnce
<1> QED
  BY <1>1, PartsInvariant, PTL

(* What get_text() returns is what was put there last under the format,    *)
(* by this program or another.                                             *)
THEOREM TextIsWhatWasSet == Spec => GetsWhatWasSet
<1>1. Parts => 
        [\A f \in Format : (Clip!BeginGet(f) \/ Clip!CopyOut) /\ mem_ret'[1] = "get"
                           /\ mem_ret'[2] = f =>
             IF mem_ret'[3]
             THEN Clip!Upto(Append(mem_ret'[4], Clip!NUL)) = Clip!Upto(Append(last[f], Clip!NUL))
             ELSE last[f] = None]_(Clip!vars)
  BY GetTold DEF Parts, Same
<1> QED
  BY <1>1, PartsInvariant, PTL DEF GetsWhatWasSet, Clip!GetsWhatWasSet

(* elapsed() does not go back, is never less than the time that has        *)
(* passed, and in the Windows build no more.                               *)
THEOREM ElapsedIsTold == Spec => ElapsedGoesOn
<1>1. Parts =>
        [Clock!Elapsed =>
            /\ elapsed_ret' >= elapsed_ret /\ elapsed_ret' >= time - Clock!Began
            /\ build = "windows" \/ time = Clock!Began => elapsed_ret' = time - Clock!Began
        ]_(Clock!vars)
  BY ElapsedTold DEF Parts
<1> QED
  BY <1>1, PartsInvariant, PTL DEF ElapsedGoesOn, Clock!ElapsedGoesOn

(* The description of an exception is that of what it was thrown with, and *)
(* an error of a name is that of the name, if names are well-formed and    *)
(* not empty.                                                              *)
THEOREM ErrorsAreTold ==
    ASSUME ~IllFormed, ~EmptyNames PROVE Spec => ErrorsTell
<1>1. Parts =>
        [\A e \in Exc, form \in Errors!Forms : Errors!What(e, form) =>
            err_ret'[4] = Errors!Description(info[m_info[e]], form)]_(Errors!vars)
  BY WhatTrue DEF Parts
<1>2. Parts =>
        [\A p \in Files!Names, wide \in BOOLEAN :
            /\ Files!get_mod_time(wide, p) /\ fs_ret'[1] = "throw" =>
                  fs_ret'[3] = Files!Stat(fs.tree, p) /\ fs_ret'[3] # "ok"
            /\ Files!exists(wide, p) =>
                  (fs_ret'[3] <=> \/ Files!Entry(fs, p) # "none"
                                  \/ build = "posix" /\ Files!Stat(fs.tree, p) = "ENOTDIR")
        ]_(Files!vars)
  BY NamesTold DEF Parts
<1> QED
  BY <1>1, <1>2, PartsInvariant, PTL
  DEF ErrorsTell, Errors!DescriptionTells, Files!NamesTell

(* get_env(), expand_env() and getcwd() answer what was so at a moment of  *)
(* the call, and to its end, if no value grows under a call, or is empty,  *)
(* which the system does not tell from none.                               *)
THEOREM QueriesAreTold ==
    ASSUME ~Growing, <<>> \notin Value PROVE Spec => QueriesTell
<1>1. Parts' =>
        [\A v \in Var : env_ret'.what = <<"get", v>> =>
            LET had == {e[v] : e \in env_ret'.seen} IN
            IF env_ret'.rc THEN env_ret'.value \in had \ {Missing}
            ELSE Missing \in had /\ env_ret'.value = <<>>]_(Env!vars)
  BY DEF Parts, EnvTold, Tells
<1>2. Parts' =>
        [\A src \in Sources : env_ret'.what = <<"expand", src>> =>
            /\ env_ret'.rc
            /\ \E e \in env_ret'.seen :
                  env_ret'.value \in {Env!Expansion(src, e),
                                      Append(Env!Expansion(src, e), Env!NUL)}]_(Env!vars)
  BY DEF Parts, EnvTold, Tells
<1>3. Parts =>
        [(Files!GetcwdBegin \/ Files!GetcwdAgain) /\ dst' = Files!Idle =>
            IF fs_ret'[2] THEN fs_ret'[3] \in fs_ret'[4] /\ fs_ret'[3] # Files!Removed
            ELSE /\ fs_ret'[3] = NoName
                 /\ \/ Files!Removed \in fs_ret'[4]
                       \/ (build = "windows" /\ fs_ret'[4] # {fs.cwd})
                    \/ \E d \in fs_ret'[4] : build = "posix" /\ Files!Bytes(d) >= GrownSize
        ]_(Files!vars)
  BY CwdTold DEF Parts
<1>4. Parts =>
        [\A n \in 0 .. GrownSize, wide \in BOOLEAN : Files!getcwd(n, wide) =>
            (fs_ret'[3] <=> fs.cwd # Files!Removed
                            /\ n > IF wide THEN Files!Chars(fs.cwd) ELSE Files!Bytes(fs.cwd))
        ]_(Files!vars)
  BY CwdFitted DEF Parts
<1>5. Spec => Env!GetTells
  BY <1>1, PartsInvariant, PTL DEF Env!GetTells
<1>6. Spec => Env!ExpandTells
  BY <1>2, PartsInvariant, PTL DEF Env!ExpandTells
<1>7. Spec => Files!CwdTells
  BY <1>3, PartsInvariant, PTL DEF Files!CwdTells
<1>8. Spec => Files!CwdFits
  BY <1>4, PartsInvariant, PTL DEF Files!CwdFits
<1> QED
  BY <1>5, <1>6, <1>7, <1>8 DEF QueriesTell
=============================================================================
