------------------------------ MODULE UserMem ------------------------------
(***************************************************************************)
(* User memory: the page tables of kernel/vm.c with copy-on-write fork,    *)
(* page faults (kernel/trap.c), lazy and eager sbrk, exec and exit.        *)
(* Module KernelMap adds the per-process kernel page tables.               *)
(*                                                                         *)
(* A page table belongs to one process, which is in the kernel when it     *)
(* changes, so that processes meet only in the reference counts and the    *)
(* contents of physical pages.  A copy-on-write fault is two steps, for    *)
(* other processes may use the old page between its copy and its release.  *)
(* Out of memory, kalloc does not return (module Kalloc): it panics here.  *)
(* One byte stands for a page's contents, PGSIZE for the units of p->sz    *)
(* that a page has, so that sizes need not be page-aligned.                *)
(***************************************************************************)
EXTENDS Integers, FiniteSets, FiniteSetsExt, Functions

CONSTANTS Procs, First,   \* processes; the one that is there at the start
          Pages,          \* physical pages
          NVP,            \* virtual pages below TRAPFRAME
          PGSIZE,
          Vals,           \* what programs store
          Lazy,           \* whether programs use SBRK_LAZY
          None

ASSUME MemAssumption ==
    /\ First \in Procs /\ None \notin Pages
    /\ NVP \in Nat \ {0, 1} /\ PGSIZE \in Nat \ {0}
    /\ Lazy \in BOOLEAN

Zero == 0       \* memset(mem, 0, PGSIZE)
Freed == 1      \* memset(pa, 1, PGSIZE) in kfree
Fresh == 5      \* memset(r, 5, PGSIZE) in kalloc
ASSUME ValsAssumption == Vals \cap {Zero, Freed, Fresh} = {}

VPs == 0 .. NVP - 1
MaxSize == NVP * PGSIZE

VARIABLES alive,   \* processes that have a page table
          sz,      \* p->sz
          pa,      \* p->pagetable: physical page of each virtual page, or None
          perm,    \* its flags: "r" read-only, "w" PTE_W, "cow" PTE_COW
          ref,     \* ref.refcnt; a page with count 0 is free
          mem,     \* contents of physical pages
          fault,   \* a copy-on-write fault under way: [va, mem], or None
          want,    \* history: what each program has put into its memory
          panicked \* "no", or the reason of the panic

tables == <<sz, pa, perm>>
vars == <<alive, tables, ref, mem, fault, want, panicked>>

-----------------------------------------------------------------------------
\* PGROUNDUP(s) / PGSIZE
PageUp(s) == (s + PGSIZE - 1) \div PGSIZE
\* The virtual page of address a.
PageOf(a) == a \div PGSIZE

FreePages == {q \in Pages : ref[q] = 0}

\* What kalloc may return for the pages in V: distinct free pages.
Kalloc(V) == Injection(V, FreePages)

Mapped(p) == {v \in VPs : pa[p][v] # None}

\* The process is in user space or at the start of a system call.
Ready(p) == panicked = "no" /\ p \in alive /\ fault[p] = None

Panic(why) == panicked' = why /\ UNCHANGED <<alive, tables, ref, mem, fault, want>>

\* Mutant: the page is not cleared.
Cleared_Not == Fresh
\* memset(mem, 0, PGSIZE) after kalloc, in vmfault and uvmalloc.
Cleared == Zero

\* The counts and the contents after kfree of the pages that process p maps
\* at the virtual pages in V, and kalloc of the pages f[w], w in F, which
\* then hold x[w].
RefAfter(p, V, f, F) ==
    [q \in Pages |-> IF \E w \in F : f[w] = q THEN 1
                     ELSE ref[q] - Cardinality({v \in V : pa[p][v] = q})]
MemAfter(p, V, f, F, x) ==
    [q \in Pages |-> IF \E w \in F : f[w] = q THEN x[CHOOSE w \in F : f[w] = q]
                     ELSE IF \E v \in V : pa[p][v] = q THEN Freed ELSE mem[q]]

\* The virtual pages that copy_proc_to_kernel visits, from oldsz on in steps
\* of PGSIZE; it panics when one of them is not mapped.
Visited(oldsz, newsz) == {PageOf(a) : a \in {b \in oldsz .. newsz - 1 : (b - oldsz) % PGSIZE = 0}}

-----------------------------------------------------------------------------
NoPages == [v \in VPs |-> None]

\* The first process has executed its first program: a page of text and
\* pages of data.
Init ==
    /\ alive = {First}
    /\ \E f \in Injection(VPs, Pages) :
        /\ pa = [p \in Procs |-> IF p = First THEN f ELSE NoPages]
        /\ ref = [q \in Pages |-> IF \E v \in VPs : f[v] = q THEN 1 ELSE 0]
        /\ mem = [q \in Pages |-> IF \E v \in VPs : f[v] = q THEN Zero ELSE Freed]
    /\ perm = [p \in Procs |-> [v \in VPs |-> IF v = 0 THEN "r" ELSE "w"]]
    /\ sz = [p \in Procs |-> IF p = First THEN MaxSize ELSE 0]
    /\ fault = [p \in Procs |-> None]
    /\ want = [p \in Procs |-> [v \in VPs |-> Zero]]
    /\ panicked = "no"

\* The program, or copyout for it, writes to a writable page.
Store(p, v, x) ==
    /\ Ready(p) /\ v \in Mapped(p) /\ perm[p][v] = "w"
    /\ mem' = [mem EXCEPT ![pa[p][v]] = x]
    /\ want' = [want EXCEPT ![p][v] = x]
    /\ UNCHANGED <<alive, tables, ref, fault, panicked>>

\* usertrap, store fault on a COW page: kalloc and memmove.
CowFault(p, v) ==
    /\ Ready(p) /\ v \in Mapped(p) /\ perm[p][v] = "cow"
    /\ IF FreePages = {} THEN Panic("no memory")
       ELSE \E q \in FreePages :
            /\ ref' = [ref EXCEPT ![q] = 1]
            /\ mem' = [mem EXCEPT ![q] = mem[pa[p][v]]]
            /\ fault' = [fault EXCEPT ![p] = [va |-> v, mem |-> q]]
            /\ UNCHANGED <<alive, tables, want, panicked>>

\* usertrap installs the new page and releases the old one.
CowInstall(p) ==
    LET v == fault[p].va
        old == pa[p][v]
    IN  /\ fault[p] # None /\ panicked = "no"
        /\ pa' = [pa EXCEPT ![p][v] = fault[p].mem]
        /\ perm' = [perm EXCEPT ![p][v] = "w"]
        /\ ref' = [ref EXCEPT ![old] = @ - 1]
        /\ mem' = [mem EXCEPT ![old] = Freed]
        /\ fault' = [fault EXCEPT ![p] = None]
        /\ UNCHANGED <<alive, sz, want, panicked>>

\* vmfault, for a load, a store or copyout at address a.
VmFault(p, a) ==
    LET v == PageOf(a)
    IN  /\ Ready(p) /\ a < sz[p] /\ v \notin Mapped(p)
        /\ IF FreePages = {} THEN Panic("no memory")
           ELSE \E q \in FreePages :
                /\ pa' = [pa EXCEPT ![p][v] = q]
                /\ perm' = [perm EXCEPT ![p][v] = "w"]
                /\ ref' = [ref EXCEPT ![q] = 1]
                /\ mem' = [mem EXCEPT ![q] = Cleared]
                /\ UNCHANGED <<alive, sz, fault, want, panicked>>

-----------------------------------------------------------------------------
\* Flags of a page after uvmcopy, in both page tables.
Shared(f) == IF f = "w" THEN "cow" ELSE f

\* Mutant: uvmcopy does not count the child's mapping.
Counted_Not(V) == 0
\* kaddref: one more reference for each mapping in V.
Counted(V) == Cardinality(V)

\* kfork: uvmcopy, and copy_proc_to_kernel for the child.
Fork(p, c) ==
    LET V == {v \in Mapped(p) : v * PGSIZE < sz[p]}
        cpa == [v \in VPs |-> IF v \in V THEN pa[p][v] ELSE None]
    IN  /\ Ready(p) /\ c \notin alive
        /\ IF \E v \in Visited(0, sz[p]) : v \notin V THEN Panic("no valid user pte")
           ELSE /\ alive' = alive \cup {c}
                /\ sz' = [sz EXCEPT ![c] = sz[p]]
                /\ pa' = [pa EXCEPT ![c] = cpa]
                /\ perm' = [r \in Procs |->
                                IF r \in {p, c}
                                    THEN [v \in VPs |-> IF v \in V THEN Shared(perm[p][v]) ELSE perm[r][v]]
                                    ELSE perm[r]]
                /\ ref' = [q \in Pages |-> ref[q] + Counted({v \in V : pa[p][v] = q})]
                /\ want' = [want EXCEPT ![c] = want[p]]
                /\ UNCHANGED <<mem, fault, panicked>>

\* The test against TRAPFRAME.
Fits(s) == s <= MaxSize

\* sys_sbrk with SBRK_LAZY.
SbrkLazy(p, n) ==
    /\ Lazy /\ Ready(p)
    /\ Fits(sz[p] + n)
    /\ sz' = [sz EXCEPT ![p] = @ + n]
    /\ UNCHANGED <<alive, pa, perm, ref, mem, fault, want, panicked>>

\* growproc(n): uvmalloc, copy_proc_to_kernel.
Grow(p, n) ==
    LET newsz == sz[p] + n
        V == PageUp(sz[p]) .. PageUp(newsz) - 1
    IN  /\ Ready(p) /\ Fits(newsz)
        /\ IF Cardinality(FreePages) < Cardinality(V) THEN Panic("no memory")
           ELSE \E f \in Kalloc(V) :
                LET npa == [v \in VPs |-> IF v \in V THEN f[v] ELSE pa[p][v]]
                IN  IF \E v \in Visited(sz[p], newsz) : npa[v] = None THEN Panic("no valid user pte")
                    ELSE /\ pa' = [pa EXCEPT ![p] = npa]
                         /\ perm' = [perm EXCEPT ![p] = [v \in VPs |-> IF v \in V THEN "w" ELSE @[v]]]
                         /\ sz' = [sz EXCEPT ![p] = newsz]
                         /\ ref' = RefAfter(p, {}, f, V)
                         /\ mem' = MemAfter(p, {}, f, V, [v \in V |-> Cleared])
                         /\ UNCHANGED <<alive, fault, want, panicked>>

\* The virtual pages that uvmdealloc unmaps.
Dropped(oldsz, newsz) == PageUp(newsz) .. PageUp(oldsz) - 1

\* The page table of p without the pages in V.
Unmapped(p, V) == [pa EXCEPT ![p] = [v \in VPs |-> IF v \in V THEN None ELSE @[v]]]

\* growproc(-n): uvmdealloc.
Shrink(p, n) ==
    LET V == Dropped(sz[p], sz[p] - n) \cap Mapped(p)
    IN  /\ Ready(p) /\ n <= sz[p]
        /\ pa' = Unmapped(p, V)
        /\ ref' = RefAfter(p, V, NoPages, {})
        /\ mem' = MemAfter(p, V, NoPages, {}, NoPages)
        /\ sz' = [sz EXCEPT ![p] = @ - n]
        /\ perm' = [perm EXCEPT ![p] = [v \in VPs |-> IF v \in V THEN "w" ELSE @[v]]]
        /\ want' = [want EXCEPT ![p] = [v \in VPs |-> IF v \in V THEN Zero ELSE @[v]]]
        /\ UNCHANGED <<alive, fault, panicked>>

\* kexec of a program of k pages, one of text: the new image is complete
\* before proc_freepagetable releases the old one.
Exec(p, k) ==
    LET V == 0 .. k - 1
        old == Dropped(sz[p], 0) \cap Mapped(p)
    IN  /\ Ready(p)
        /\ IF Cardinality(FreePages) < k THEN Panic("no memory")
           ELSE \E f \in Kalloc(V) :
                LET npa == [v \in VPs |-> IF v \in V THEN f[v] ELSE None]
                IN  /\ pa' = [pa EXCEPT ![p] = npa]
                    /\ perm' = [perm EXCEPT ![p] = [v \in VPs |-> IF v = 0 THEN "r" ELSE "w"]]
                    /\ sz' = [sz EXCEPT ![p] = k * PGSIZE]
                    /\ ref' = RefAfter(p, old, f, V)
                    /\ mem' = MemAfter(p, old, f, V, [v \in V |-> Cleared])
                    /\ want' = [want EXCEPT ![p] = [v \in VPs |-> Zero]]
                    /\ panicked' = IF Mapped(p) \subseteq old THEN "no" ELSE "freewalk: leaf"
                    /\ UNCHANGED <<alive, fault>>

\* The process is gone: freeproc, proc_freepagetable, uvmfree.
Exit(p) ==
    LET V == Dropped(sz[p], 0) \cap Mapped(p)
    IN  /\ Ready(p) /\ alive # {p}
        /\ alive' = alive \ {p}
        /\ pa' = Unmapped(p, V)
        /\ sz' = [sz EXCEPT ![p] = 0]
        /\ ref' = RefAfter(p, V, NoPages, {})
        /\ mem' = MemAfter(p, V, NoPages, {}, NoPages)
        /\ perm' = [perm EXCEPT ![p] = [v \in VPs |-> IF v = 0 THEN "r" ELSE "w"]]
        /\ want' = [want EXCEPT ![p] = [v \in VPs |-> Zero]]
        /\ panicked' = IF Mapped(p) \subseteq V THEN "no" ELSE "freewalk: leaf"
        /\ UNCHANGED fault

\* panic does not return.
Halted == panicked # "no" /\ UNCHANGED vars

Next ==
    \/ \E p \in Procs :
        \/ \E v \in VPs : CowFault(p, v) \/ \E x \in Vals : Store(p, v, x)
        \/ \E a \in 0 .. MaxSize - 1 : VmFault(p, a)
        \/ \E n \in 1 .. MaxSize : SbrkLazy(p, n) \/ Grow(p, n) \/ Shrink(p, n)
        \/ \E k \in 1 .. NVP : Exec(p, k)
        \/ \E c \in Procs : Fork(p, c)
        \/ CowInstall(p) \/ Exit(p)
    \/ Halted

Spec == Init /\ [][Next]_vars

-----------------------------------------------------------------------------
\* The count of a page is the number of page tables entries that map it,
\* plus one while a copy-on-write fault prepares it: nothing is freed in
\* use, and nothing that is unused stays allocated.
CountsMappings ==
    \A q \in Pages :
        ref[q] = Cardinality({pv \in Procs \X VPs : pa[pv[1]][pv[2]] = q})
                    + Cardinality({p \in Procs : fault[p] # None /\ fault[p].mem = q})

\* A page that one process may write is mapped by nobody else: uvmcopy
\* takes the right to write from the parent too.
SharedNotWritable ==
    \A p, r \in Procs, v, w \in VPs :
        /\ pa[p][v] # None /\ perm[p][v] = "w"
        /\ pa[r][w] = pa[p][v]
        => p = r /\ v = w

\* Every mapping lies below p->sz rounded up, so that uvmfree finds it and
\* freewalk never panics ("freewalk: leaf"), whatever the sizes are.
MappedBelowSize == \A p \in Procs : \A v \in Mapped(p) : v < PageUp(sz[p])

\* A program reads what it has stored, or zeroes: never what another
\* process stored after they parted, nor what was left in a page.  (It may
\* find a page wiped, see WipedOnlyWhenFree.)
NoForeignData ==
    \A p \in alive : \A v \in Mapped(p) : mem[pa[p][v]] \in {want[p][v], Freed}

\* "ref > 0: not freed" (notes on copy-on-write): kfree leaves a page alone
\* that another page table still maps.
WipedOnlyWhenFree == \A p \in alive : \A v \in Mapped(p) : mem[pa[p][v]] # Freed
=============================================================================
