----------------------------- MODULE MCSpinlock -----------------------------
(* A small instance of Spinlock for TLC. *)
EXTENDS Spinlock, TLC

\* CPUs are interchangeable; locks are not, for they are ordered.
Symmetry == Permutations(CPUs)
=============================================================================
