----------------------------- MODULE MCMapping ------------------------------
(* Small instances of Mapping: two files, of a page and of two pages and a *)
(* half; a view at 3 is beyond the first and within a page of the second.  *)
EXTENDS Mapping, TLC

MCFileSize == [f \in Files |-> IF f = CHOOSE g \in Files : TRUE THEN 2 ELSE 5]

(* msize is of no interest in a view without an area.                      *)
MappedView == <<fds, user, base, impl, vm,
                [v \in Views |-> IF view[v].area = 0 THEN <<view[v].map>> ELSE <<view[v]>>]>>

ImplSymmetry == Permutations(Impls) \cup Permutations(Bases) \cup Permutations(Views)
=============================================================================
