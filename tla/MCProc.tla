------------------------------- MODULE MCProc -------------------------------
(* Small instances of Proc for TLC. *)
EXTENDS Proc, TLC

CONSTANTS c1, c2, none

TwoCPUs == {c1, c2}
Children == 2 .. NPROC

\* The harts are interchangeable.
Symm == Permutations(CPUs)
=============================================================================
