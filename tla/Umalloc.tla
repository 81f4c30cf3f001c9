------------------------------ MODULE Umalloc -------------------------------
(***************************************************************************)
(* The user-level memory allocator (user/umalloc.c): a circular list of    *)
(* free blocks in address order, first fit, neighbours merged on free.     *)
(*                                                                         *)
(* Addresses count units of one Header.  base, the empty block that is     *)
(* always on the list, lies below the heap, at address 0.                  *)
(***************************************************************************)
EXTENDS Integers, FiniteSets

CONSTANTS Bottom,    \* where the heap starts
          Top,       \* sbrk fails beyond
          MinGrow,   \* 4096 units in the code
          MaxUnits   \* largest request, its header included

BoundsAssumption ==
    /\ Bottom \in Nat /\ Top \in Nat /\ MinGrow \in Nat /\ MaxUnits \in Nat
    /\ 1 < Bottom /\ Bottom < Top /\ 2 <= MaxUnits /\ 2 <= MinGrow

base == 0
Addresses == 0 .. Top

VARIABLES heap,   \* the list: next[a] and size[a] of a block at a, and freep
          brk,    \* the end of the process's memory
          used,   \* allocated blocks: address -> size, 0 where there is none
          gaps    \* units the program got from sbrk itself

vars == <<heap, brk, used, gaps>>

\* The first malloc makes a list of base alone.
Init ==
    /\ heap = [next |-> [a \in Addresses |-> base], size |-> [a \in Addresses |-> 0], freep |-> base]
    /\ brk = Bottom
    /\ used = [a \in Addresses |-> 0]
    /\ gaps = {}

\* The list element k steps from a.
Follow(h, a, k) ==
    LET f[j \in 0 .. k] == IF j = 0 THEN a ELSE h.next[f[j - 1]] IN f[k]

\* The first element of the list, from a on, that is in S; one is.
FirstFrom(h, a, S) ==
    LET Hit(k) == Follow(h, a, k) \in S
    IN Follow(h, a, CHOOSE k \in 0 .. Top : Hit(k) /\ \A j \in 0 .. k - 1 : ~Hit(j))

\* The list element before p.
Before(h, p) == FirstFrom(h, h.freep, {q \in Addresses : h.next[q] = p})

-----------------------------------------------------------------------------
\* free's search ends at p: bp lies behind p.
Between(h, bp, p) ==
    \/ p < bp /\ bp < h.next[p]
    \/ p >= h.next[p] /\ (bp > p \/ bp < h.next[p])

\* Mutant: no merging with the block above.
JoinsAbove_Not(bp, n, up) == FALSE
\* The block freed ends where the next free block starts.
JoinsAbove(bp, n, up) == bp + n = up

\* The free block below ends where the block freed starts.
JoinsBelow(h, bp, p) == p + h.size[p] = bp

\* free of a block of n units at bp.
Freed(h, bp, n) ==
    LET p == FirstFrom(h, h.freep, {q \in Addresses : Between(h, bp, q)})
        up == h.next[p]
        above == JoinsAbove(bp, n, up)
        bsize == IF above THEN n + h.size[up] ELSE n
        bnext == IF above THEN h.next[up] ELSE up
    IN IF JoinsBelow(h, bp, p)
       THEN [next |-> [h.next EXCEPT ![p] = bnext],
             size |-> [h.size EXCEPT ![p] = @ + bsize], freep |-> p]
       ELSE [next |-> [h.next EXCEPT ![bp] = bnext, ![p] = bp],
             size |-> [h.size EXCEPT ![bp] = bsize], freep |-> p]

\* free
Free(bp) ==
    /\ used[bp] > 0
    /\ heap' = Freed(heap, bp, used[bp])
    /\ used' = [used EXCEPT ![bp] = 0]
    /\ UNCHANGED <<brk, gaps>>

-----------------------------------------------------------------------------
OnList(h) == {Follow(h, base, k) : k \in 0 .. Top}

\* Block p is large enough.
Enough(h, p, n) == h.size[p] >= n

Fits(h, n) == {p \in OnList(h) : Enough(h, p, n)}

\* What is left of block p when its last n units are taken.
Rest(h, p, n) == h.size[p] - n

\* malloc takes n units of the first block after freep that fits.
Taken(h, n) == FirstFrom(h, h.next[h.freep], {q \in Addresses : Enough(h, q, n)})
Allocate(h, n) ==
    LET p == Taken(h, n)
        prevp == Before(h, p)
        a == p + h.size[p] - n
    IN /\ heap' = IF h.size[p] = n
                  THEN [h EXCEPT !.next[prevp] = h.next[p], !.freep = prevp]
                  ELSE [h EXCEPT !.size[p] = Rest(h, p, n), !.freep = prevp]
       /\ used' = [used EXCEPT ![a] = n]

\* morecore's request.
Grow(n) == IF n < MinGrow THEN MinGrow ELSE n

\* malloc finds a block.
Malloc(n) ==
    /\ Fits(heap, n) # {}
    /\ Allocate(heap, n)
    /\ UNCHANGED <<brk, gaps>>

\* malloc finds none and calls morecore, which may fail: malloc returns 0.
MallocGrow(n) ==
    /\ Fits(heap, n) = {}
    /\ IF brk + Grow(n) <= Top
       THEN Allocate(Freed(heap, brk, Grow(n)), n) /\ brk' = brk + Grow(n)
       ELSE UNCHANGED <<heap, used, brk>>
    /\ UNCHANGED gaps

\* The program calls sbrk itself: the heap gets a gap.
Sbrk ==
    /\ brk < Top
    /\ gaps' = gaps \cup {brk}
    /\ brk' = brk + 1
    /\ UNCHANGED <<heap, used>>

Next ==
    \/ \E a \in Addresses : Free(a)
    \/ \E n \in 2 .. MaxUnits : Malloc(n) \/ MallocGrow(n)
    \/ Sbrk

Spec == Init /\ [][Next]_vars

-----------------------------------------------------------------------------
Units(a, n) == a .. a + n - 1
FreeBlocks == OnList(heap) \ {base}

\* malloc and free keep books without loss: every unit of the heap is in
\* exactly one free block, one allocated block, or the program's own.
Tiles ==
    LET blocks == {<<a, heap.size[a]>> : a \in FreeBlocks}
                  \cup {<<a, used[a]>> : a \in {b \in Addresses : used[b] > 0}}
                  \cup {<<a, 1>> : a \in gaps}
    IN \A u \in Bottom .. brk - 1 : Cardinality({b \in blocks : u \in Units(b[1], b[2])}) = 1

\* free merges neighbours: no free block starts where another ends, so a
\* request fails for fragmentation only.
Merged == \A a, b \in FreeBlocks : a + heap.size[a] # b

\* The list stays circular and in address order, with one place where it
\* turns, and freep on it: free's and malloc's searches end.
Circular ==
    /\ heap.freep \in OnList(heap)
    /\ \A p \in OnList(heap) : heap.next[p] <= p => heap.next[p] = base
    /\ \A p \in FreeBlocks : heap.size[p] > 0
=============================================================================
