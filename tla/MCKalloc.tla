------------------------------ MODULE MCKalloc ------------------------------
(***************************************************************************)
(* Kalloc for TLC: pages and threads are interchangeable.                  *)
(***************************************************************************)
EXTENDS Kalloc, TLC

Symmetry == Permutations(Pages) \cup Permutations(Threads)
=============================================================================
