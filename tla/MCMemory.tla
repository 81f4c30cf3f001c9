------------------------------ MODULE MCMemory ------------------------------
(***************************************************************************)
(* User memory for TLC, alone and with the kernel's mirror of it.          *)
(*                                                                         *)
(* Unit "user" is UserMem: three processes, which grow and shrink by whole *)
(* pages.  Unit "mirror" is KernelMap: two processes, one size that is not *)
(* aligned.  The contents of pages decide nothing there: the view leaves   *)
(* them out.                                                               *)
(***************************************************************************)
EXTENDS KernelMap, TLC

CONSTANTS p1, p2, p3, m1, m2, m3

ThreeProcs == {p1, p2, p3}
ThreePages == {m1, m2, m3}
OneVal == {7}

MirrorProcs == {p1, p2}
MirrorSizes == {0, 1, PGSIZE, 2 * PGSIZE}

VARIABLE unit    \* which of the two runs

mvars == <<unit, kvars>>

MemoryInit == unit \in {"user", "mirror"} /\ KInit

Aligned(s) == s % PGSIZE = 0

MemoryNext ==
    /\ \/ unit = "user" /\ Next /\ (\A p \in Procs : Aligned(sz'[p])) /\ UNCHANGED kpa
       \/ unit = "mirror" /\ KNext /\ alive' \subseteq MirrorProcs /\ (\A p \in Procs : sz'[p] \in MirrorSizes)
    /\ UNCHANGED unit

MemorySpec == MemoryInit /\ [][MemoryNext]_mvars

MemoryView ==
    IF unit = "user" THEN <<unit, vars, {}>>
    ELSE <<unit, <<alive, tables, ref, {}, fault, {}, panicked>>, kpa>>

\* Physical pages are interchangeable, and processes but the first.
Symm == Permutations(Pages) \cup Permutations(Procs \ {First})

\* What copyin reads of a new process or a new program is what the program
\* sees: kfork and kexec synchronise the whole kernel page table.
NewImageMirrored == [][unit = "mirror" => MirroredStart]_mvars
\* A page counts the mappings of it, a page that is shared is not writable,
\* and nothing is mapped that uvmfree would not find (UserMem).
MappingsAccounted == CountsMappings /\ SharedNotWritable /\ MappedBelowSize
=============================================================================
