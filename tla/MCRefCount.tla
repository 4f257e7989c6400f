----------------------------- MODULE MCRefCount -----------------------------
(* A small instance of RefCount: every thread can hold pointers to every   *)
(* object, and a delete can cascade through a chain or a cycle of two.     *)
EXTENDS RefCount
=============================================================================
