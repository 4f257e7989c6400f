------------------------------- MODULE ICase --------------------------------
(***************************************************************************)
(* Strings compared, hashed and converted without regard to case           *)
(* (icase.h), in the "C" locale and the POSIX build.  Strings are          *)
(* sequences of character codes; a std::string may have NULs inside, a     *)
(* const char* ends at the first.                                          *)
(*                                                                         *)
(* Client rule: eqchar is not used on char values below 0, for which its   *)
(* call of std::toupper is undefined.                                      *)
(***************************************************************************)
EXTENDS Integers, Sequences, SequencesExt

CONSTANTS
    Code,       \* the codes of characters, below 256
    MaxLen,     \* bound: the length of strings
    Modulus     \* 2^w for the width w of size_t

Words == UNION {[1 .. n -> Code] : n \in 0 .. MaxLen}

Upper(c) == IF c \in 97 .. 122 THEN c - 32 ELSE c
Lower(c) == IF c \in 65 .. 90 THEN c + 32 ELSE c
Up(s) == [i \in DOMAIN s |-> Upper(s[i])]
Down(s) == [i \in DOMAIN s |-> Lower(s[i])]

ASSUME CaseAssumption ==
    /\ Code \subseteq 0 .. 255 /\ \A c \in Code : {Upper(c), Lower(c)} \subseteq Code
    /\ MaxLen \in Nat /\ Modulus \in Nat \ {0}

(* A std::string passed as const char*.                                    *)
CStr(s) ==
    LET nuls == {i \in DOMAIN s : s[i] = 0} IN
    IF nuls = {} THEN s ELSE SubSeq(s, 1, (CHOOSE i \in nuls : \A j \in nuls : i <= j) - 1)

(* The loops: the places of the shorter string where they would stop.      *)
Differ(a, b) == {i \in DOMAIN a \cap DOMAIN b : a[i] # b[i]}
Precedes(a, b) ==
    \/ Differ(a, b) = {} /\ Len(a) < Len(b)
    \/ \E i \in Differ(a, b) : a[i] < b[i] /\ \A j \in Differ(a, b) : i <= j

-----------------------------------------------------------------------------
eqchar(l, r) == Upper(l) = Upper(r)

ltstr(l, r) == Precedes(Up(l), Up(r))
less(l, r) == Precedes(Up(l), Up(r))

eqstr(l, r) == Len(l) = Len(r) /\ Differ(Up(l), Up(r)) = {}
equal_to(l, r) == Len(l) = Len(r) /\ Differ(Up(l), Up(r)) = {}

(* eqstr of a std::string and a const char*.                               *)
eqstr_c(l, r) == Len(l) = Len(CStr(r)) /\ Differ(Up(l), Up(CStr(r))) = {}

(* strcasecmp() and strncasecmp() compare in lower case.                   *)
Compare(a, b) == IF Precedes(a, b) THEN -1 ELSE IF Precedes(b, a) THEN 1 ELSE 0
Firsts(s, n) == SubSeq(s, 1, IF n < Len(s) THEN n ELSE Len(s))
strcmp(l, r) == Compare(Down(CStr(l)), Down(CStr(r)))
strncmp(l, r, n) == Compare(Down(Firsts(CStr(l), n)), Down(Firsts(CStr(r), n)))

(* eqstr of two const char*.                                               *)
eqstr_cc(l, r) == strcmp(l, r) = 0

(* hash = 33*hash + c, for each c.                                         *)
Hashed(s) == FoldLeft(LAMBDA h, c : (33 * h + c) % Modulus, 5381 % Modulus, s)

(* Mutation of hash: the characters are taken as they are.                 *)
hash_plain(s) == Hashed(s)

(* hash, of a std::string and of a const char*.                            *)
hash(s) == Hashed(Up(s))

hash_c(s) == hash(CStr(s))

-----------------------------------------------------------------------------
(* Three strings of a program, which toupper() and tolower() convert.      *)
VARIABLES str

CaseInit == str \in [1 .. 3 -> Words]

toupper(i) == str' = [str EXCEPT ![i] = Up(@)]
tolower(i) == str' = [str EXCEPT ![i] = Down(@)]

CaseNext == \E i \in 1 .. 3 : toupper(i) \/ tolower(i)

CaseSpec == CaseInit /\ [][CaseNext]_str

-----------------------------------------------------------------------------
CaseTypeOK == str \in [1 .. 3 -> Words]

(* ltstr and less order strings strictly and weakly, as std::map and       *)
(* std::sort require, and strings that neither puts before the other are   *)
(* those that eqstr and equal_to take for equal.                           *)
StrictWeakOrder ==
    LET a == str[1]  b == str[2]  c == str[3] IN
    /\ ltstr(a, b) => ~ltstr(b, a)
    /\ ltstr(a, b) /\ ltstr(b, c) => ltstr(a, c)
    /\ eqstr(a, b) <=> ~ltstr(a, b) /\ ~ltstr(b, a)
    /\ eqstr(a, b) /\ ltstr(b, c) => ltstr(a, c)
    /\ less(a, b) = ltstr(a, b) /\ equal_to(a, b) = eqstr(a, b)

(* Equal strings have equal hashes, as std::unordered_map requires, and    *)
(* what takes const char* agrees with what takes std::string, on strings   *)
(* without a NUL inside.                                                   *)
EqualsAgree ==
    LET a == str[1]  b == str[2] IN
    /\ eqstr(a, b) => hash(a) = hash(b)
    /\ eqstr_c(a, b) = eqstr(a, CStr(b))
    /\ 0 \notin Range(a) \cup Range(b) =>
          /\ eqstr_cc(a, b) = eqstr(a, b) /\ eqstr_c(a, b) = eqstr(a, b)
          /\ hash_c(a) = hash(a)
          /\ \A n \in 0 .. MaxLen : (strncmp(a, b, n) = 0) = eqstr(Firsts(a, n), Firsts(b, n))
    /\ \A i \in DOMAIN a \cap DOMAIN b : eqstr(a, b) => eqchar(a[i], b[i])

(* Conversion to one case makes another string of the same class, whose    *)
(* place in a container is the same.                                       *)
CaseKeepsClass ==
    LET a == str[1]  b == str[2] IN
    eqstr(a, Up(a)) /\ eqstr(a, Down(a)) /\ ltstr(Up(a), Down(b)) = ltstr(a, b)

IcaseOrder == CaseTypeOK /\ StrictWeakOrder /\ EqualsAgree /\ CaseKeepsClass
=============================================================================
