---------------------------- MODULE MCGlobalHeap ----------------------------
(***************************************************************************)
(* GlobalHeap on a table of two entries, three addresses of the game heap  *)
(* and one of the system allocator: small enough to overflow the table, to *)
(* free the first, the last and the middle entry, and to carry a pointer   *)
(* from before the heap into its life.                                     *)
(***************************************************************************)
EXTENDS GlobalHeap, TLC

(* Addresses of one allocator are interchangeable.                         *)
Symmetry == Permutations(HeapPtr)
=============================================================================
