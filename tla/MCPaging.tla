------------------------------ MODULE MCPaging ------------------------------
(***************************************************************************)
(* A small instance of Paging for TLC.                                      *)
(***************************************************************************)
EXTENDS Paging, TLC

CONSTANTS s1, s2, a, b, c

(* Cloned directories and the heap's tables are interchangeable. *)
Symmetry == Permutations(Spaces \ {Kernel}) \cup Permutations(Tables \ {BootTable})
=============================================================================
