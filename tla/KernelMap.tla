----------------------------- MODULE KernelMap -----------------------------
(***************************************************************************)
(* The copy of each user page table in the process's kernel page table     *)
(* (kernel/vmcopyin.c), through which copyin reads user memory: which      *)
(* operations of UserMem keep it up to date, and which leave it alone.     *)
(***************************************************************************)
EXTENDS UserMem

VARIABLE kpa    \* p->kpagetable below PLIC: physical page, or None

kvars == <<vars, kpa>>

\* Mutant: the loop starts one page late.
Synced_Late(p, upa, oldsz, newsz) ==
    [v \in VPs |-> IF v \in Visited(oldsz + PGSIZE, newsz) THEN upa[v] ELSE kpa[p][v]]
\* The kernel page table of p after copy_proc_to_kernel.
Synced(p, upa, oldsz, newsz) ==
    [v \in VPs |-> IF v \in Visited(oldsz, newsz) THEN upa[v] ELSE kpa[p][v]]

\* Process p calls copy_proc_to_kernel with its new page table.
Sync(p, oldsz) ==
    kpa' = IF panicked' # "no" THEN kpa ELSE [kpa EXCEPT ![p] = Synced(p, pa'[p], oldsz, sz'[p])]

\* userinit
KInit == Init /\ kpa = pa

KFork(p, c) == Fork(p, c) /\ Sync(c, 0)
KGrow(p, n) == Grow(p, n) /\ Sync(p, sz[p])
KShrink(p, n) == Shrink(p, n) /\ Sync(p, sz[p])
KExec(p, k) == Exec(p, k) /\ Sync(p, 0)

\* freeproc, kvmfreeproc; the next process in the slot has a new table.
KExit(p) == Exit(p) /\ kpa' = [kpa EXCEPT ![p] = NoPages]

\* The operations that do not know of the kernel page table.
KOther(p) ==
    /\ \/ CowInstall(p)
       \/ \E v \in VPs : CowFault(p, v) \/ \E x \in Vals : Store(p, v, x)
       \/ \E a \in 0 .. MaxSize - 1 : VmFault(p, a)
       \/ \E n \in 1 .. MaxSize : SbrkLazy(p, n)
    /\ UNCHANGED kpa

KNext ==
    \/ \E p \in Procs :
        \/ KOther(p) \/ KExit(p)
        \/ \E c \in Procs : KFork(p, c)
        \/ \E n \in 1 .. MaxSize : KGrow(p, n) \/ KShrink(p, n)
        \/ \E k \in 1 .. NVP : KExec(p, k)
    \/ Halted /\ UNCHANGED kpa

KSpec == KInit /\ [][KNext]_kvars

-----------------------------------------------------------------------------
\* What copyin reads at virtual page v is what the program sees there.
Mirrors(p, v) == kpa[p][v] = pa[p][v]

\* The steps that make a process or a program: it starts with an exact
\* mirror of its user page table, below its size.
MirroredStart ==
    \A p \in alive' : panicked' = "no" /\ (p \notin alive \/ \E k \in 1 .. NVP : Exec(p, k)) =>
        \A v \in VPs : v * PGSIZE < sz'[p] => Mirrors(p, v)'
=============================================================================
