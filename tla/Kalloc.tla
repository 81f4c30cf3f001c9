------------------------------- MODULE Kalloc -------------------------------
(***************************************************************************)
(* The physical page allocator of kernel/kalloc.c: one free list and one   *)
(* spinlock per CPU, stealing from the other CPUs' lists, and the array of *)
(* reference counts that copy-on-write needs, under a lock of its own.     *)
(*                                                                         *)
(* A critical section is one step: it touches only what its spinlock       *)
(* guards.  Everything between two critical sections interleaves with the  *)
(* other kernel threads.                                                   *)
(*                                                                         *)
(* Callers keep the discipline the rest of the kernel keeps: only a page   *)
(* somebody still refers to is passed to kfree or kaddref.  refs counts    *)
(* those references (page-table entries, kernel pointers).                 *)
(***************************************************************************)
EXTENDS Integers, Sequences, FiniteSets

CONSTANTS NCPU,      \* number of CPUs
          Pages,     \* the page frames between end and PHYSTOP
          Threads,   \* kernel threads that call the allocator
          MaxRef,    \* bound: references to one page
          NoPage     \* the null pointer

ASSUME NCPUAssumption == NCPU \in Nat \ {0}
ASSUME ThreadsAssumption == IsFiniteSet(Threads)
ASSUME MaxRefAssumption == MaxRef \in Nat \ {0}
ASSUME NoPageAssumption == NoPage \notin Pages

VARIABLES freelist,  \* kmem[c].freelist, the first page of the list first
          refcnt,    \* ref.refcnt
          refs,      \* references that callers hold and have not dropped
          pc,        \* where each thread is inside kalloc or kfree
          page,      \* the local pa of kfree, or r of kalloc
          cpu,       \* the local cpu of kalloc, after push_off
          idx,       \* the local i of ksteal
          panicked   \* the kernel stopped in panic or in an unexpected fault

vars == <<freelist, refcnt, refs, pc, page, cpu, idx, panicked>>

CPUs == 0 .. NCPU - 1

\* push_off pins a thread: no other thread runs on its CPU until pop_off.
Pinned(c) == \E t \in Threads : pc[t] \in {"ksteal", "kalloc_ref"} /\ cpu[t] = c

\* kfree's test, on the count before it is decremented.
StillReferenced(cnt) == cnt - 1 > 0

\* Mutant: the page stays on its list.
Unlink_Kept(list) == list
\* kmem[c].freelist = r->next.
Unlink(list) == Tail(list)

\* The loop of ksteal has tried every other CPU.
ScanDone(i) == i >= NCPU

\* Mutant: a new page keeps the count it had.
NewCount_Kept(cnt) == cnt
\* What kalloc makes of the count of the page it returns.
NewCount(cnt) == 1

\* What kaddref makes of the count.
AddedCount(cnt) == cnt + 1

-----------------------------------------------------------------------------
\* What the loop of freerange leaves: every page counted once, and still to
\* be given to kfree.
Init ==
    /\ freelist = [c \in CPUs |-> <<>>]
    /\ refcnt = [p \in Pages |-> 1]
    /\ refs = [p \in Pages |-> 1]
    /\ pc = [t \in Threads |-> "idle"]
    /\ page = [t \in Threads |-> NoPage]
    /\ cpu = [t \in Threads |-> 0]
    /\ idx = [t \in Threads |-> 0]
    /\ panicked = FALSE

\* kfree is called: the caller gives its reference away.
KfreeCall(t, p) ==
    /\ pc[t] = "idle"
    /\ refs[p] > 0
    /\ refs' = [refs EXCEPT ![p] = @ - 1]
    /\ page' = [page EXCEPT ![t] = p]
    /\ pc' = [pc EXCEPT ![t] = "kfree_ref"]
    /\ UNCHANGED <<freelist, refcnt, cpu, idx, panicked>>

\* kfree under ref.lock: a count that is not positive is a panic, and the last
\* reference frees the page.
KfreeRef(t) ==
    LET cnt == refcnt[page[t]]
    IN  /\ pc[t] = "kfree_ref"
        /\ panicked' = (cnt <= 0)
        /\ refcnt' = IF cnt <= 0 THEN refcnt ELSE [refcnt EXCEPT ![page[t]] = cnt - 1]
        /\ pc' = [pc EXCEPT ![t] = IF StillReferenced(cnt) THEN "idle" ELSE "kfree_push"]
        /\ UNCHANGED <<freelist, refs, page, cpu, idx>>

\* kfree under kmem[c].lock, c being the CPU the thread runs on by then.
KfreePush(t, c) ==
    /\ pc[t] = "kfree_push"
    /\ ~Pinned(c)
    /\ freelist' = [freelist EXCEPT ![c] = <<page[t]>> \o @]
    /\ pc' = [pc EXCEPT ![t] = "idle"]
    /\ UNCHANGED <<refcnt, refs, page, cpu, idx, panicked>>

\* kalloc up to the release of this CPU's lock.
KallocLocal(t, c) ==
    /\ pc[t] = "idle"
    /\ ~Pinned(c)
    /\ cpu' = [cpu EXCEPT ![t] = c]
    /\ \/ /\ freelist[c] # <<>>
          /\ page' = [page EXCEPT ![t] = Head(freelist[c])]
          /\ freelist' = [freelist EXCEPT ![c] = Unlink(@)]
          /\ pc' = [pc EXCEPT ![t] = "kalloc_ref"]
          /\ UNCHANGED idx
       \/ /\ freelist[c] = <<>>
          /\ page' = [page EXCEPT ![t] = NoPage]
          /\ idx' = [idx EXCEPT ![t] = 1]
          /\ pc' = [pc EXCEPT ![t] = "ksteal"]
          /\ UNCHANGED freelist
    /\ UNCHANGED <<refcnt, refs, panicked>>

\* One round of the loop of ksteal; kalloc goes on with whatever it finds.
Ksteal(t) ==
    LET next_cpu == (cpu[t] + idx[t]) % NCPU
    IN  /\ pc[t] = "ksteal"
        /\ \/ /\ ~ScanDone(idx[t])
              /\ freelist[next_cpu] # <<>>
              /\ page' = [page EXCEPT ![t] = Head(freelist[next_cpu])]
              /\ freelist' = [freelist EXCEPT ![next_cpu] = Unlink(@)]
              /\ pc' = [pc EXCEPT ![t] = "kalloc_ref"]
              /\ UNCHANGED idx
           \/ /\ ~ScanDone(idx[t])
              /\ freelist[next_cpu] = <<>>
              /\ idx' = [idx EXCEPT ![t] = @ + 1]
              /\ UNCHANGED <<page, freelist, pc>>
           \/ /\ ScanDone(idx[t])
              /\ pc' = [pc EXCEPT ![t] = "kalloc_ref"]
              /\ UNCHANGED <<page, freelist, idx>>
        /\ UNCHANGED <<refcnt, refs, cpu, panicked>>

\* kalloc under ref.lock: the caller gets the only reference to the page.
KallocRef(t) ==
    /\ pc[t] = "kalloc_ref"
    /\ page[t] # NoPage
    /\ refcnt' = [refcnt EXCEPT ![page[t]] = NewCount(@)]
    /\ refs' = [refs EXCEPT ![page[t]] = @ + 1]
    /\ pc' = [pc EXCEPT ![t] = "idle"]
    /\ UNCHANGED <<freelist, page, cpu, idx, panicked>>

\* The same lines with r = 0: they are not under the if, so the store goes to
\* refcnt[(0 - KERNBASE) / PGSIZE], an address the kernel page table does not
\* map, and kerneltrap panics.
KallocNull(t) ==
    /\ pc[t] = "kalloc_ref"
    /\ page[t] = NoPage
    /\ panicked' = TRUE
    /\ UNCHANGED <<freelist, refcnt, refs, pc, page, cpu, idx>>

\* kaddref, called for a page that somebody refers to.
Kaddref(p) ==
    /\ refs[p] \in 1 .. MaxRef - 1
    /\ refcnt' = [refcnt EXCEPT ![p] = AddedCount(@)]
    /\ refs' = [refs EXCEPT ![p] = @ + 1]
    /\ UNCHANGED <<freelist, pc, page, cpu, idx, panicked>>

Step ==
    \/ \E t \in Threads, p \in Pages : KfreeCall(t, p)
    \/ \E t \in Threads : KfreeRef(t)
    \/ \E t \in Threads, c \in CPUs : KfreePush(t, c) \/ KallocLocal(t, c)
    \/ \E t \in Threads : Ksteal(t) \/ KallocRef(t) \/ KallocNull(t)
    \/ \E p \in Pages : Kaddref(p)

\* panic never returns.
Halted == panicked /\ UNCHANGED vars

Next == (~panicked /\ Step) \/ Halted

Spec == Init /\ [][Next]_vars

-----------------------------------------------------------------------------
(***************************************************************************)
(* Properties.                                                             *)
(***************************************************************************)
PCs == {"idle", "kfree_ref", "kfree_push", "ksteal", "kalloc_ref"}

\* Types, and the range of the scan of ksteal: i runs from 1 to NCPU.
TypeOK ==
    /\ freelist \in [CPUs -> Seq(Pages)]
    /\ refcnt \in [Pages -> Int]
    /\ refs \in [Pages -> Nat]
    /\ pc \in [Threads -> PCs]
    /\ page \in [Threads -> Pages \cup {NoPage}]
    /\ cpu \in [Threads -> CPUs]
    /\ idx \in [Threads -> 0 .. NCPU]
    /\ panicked \in BOOLEAN

\* Where a page can be: in a free list, in the hands of a thread that carries
\* it to or from a list, or out: referred to by somebody, a kfree that has not
\* dropped its reference yet included.
InList(p) == \E c \in CPUs : \E i \in 1 .. Len(freelist[c]) : freelist[c][i] = p
Carrying(t) == pc[t] \in {"kfree_push", "kalloc_ref"}
Carried(p) == \E t \in Threads : Carrying(t) /\ page[t] = p
Droppers(p) == {t \in Threads : pc[t] = "kfree_ref" /\ page[t] = p}
Out(p) == refs[p] > 0 \/ Droppers(p) # {}

\* kfree, kalloc and kaddref agree with their callers: the count of a page is
\* the number of references held plus those a kfree is about to drop.
CountsReferences ==
    \A p \in Pages : refcnt[p] = refs[p] + Cardinality(Droppers(p))

\* No list holds a page twice and no two lists share a page, although ksteal
\* takes pages from other CPUs' lists.
ListsDisjoint ==
    \A c, d \in CPUs : \A i \in 1 .. Len(freelist[c]), j \in 1 .. Len(freelist[d]) :
        freelist[c][i] = freelist[d][j] => c = d /\ i = j

\* No page is handed out twice: the lists are disjoint, two threads never carry
\* the same page, and a page is in one kind of place only.
NoDoubleUse ==
    /\ ListsDisjoint
    /\ \A t, u \in Threads :
            Carrying(t) /\ Carrying(u) /\ page[t] = page[u] /\ page[t] # NoPage => t = u
    /\ \A p \in Pages :
            /\ ~(InList(p) /\ Carried(p))
            /\ ~(InList(p) /\ Out(p))
            /\ ~(Carried(p) /\ Out(p))

\* No page is lost by kfree, kalloc or ksteal.
NoLeak == \A p \in Pages : InList(p) \/ Carried(p) \/ Out(p)

\* The panic in kfree is unreachable while callers keep their discipline: the
\* only way to stop is an allocation that finds no page.
OnlyExhaustionPanics ==
    panicked => \E t \in Threads : pc[t] = "kalloc_ref" /\ page[t] = NoPage

\* kalloc never returns a page that somebody still refers to or is still
\* dropping, and the count of a page it returns is 1.
FreshWhenAllocated ==
    [][\A p \in Pages : refs[p] = 0 /\ refs'[p] > 0
            => Droppers(p) = {} /\ refcnt[p] = 0 /\ refcnt'[p] = 1]_vars
=============================================================================
