----------------------------- MODULE VirtioDisk -----------------------------
(***************************************************************************)
(* The disk driver (kernel/virtio_disk.c): the free descriptors, the rings *)
(* shared with the device, the processes in virtio_disk_rw and the         *)
(* interrupt handler.  The device is external: it takes requests in the    *)
(* order of the available ring, finishes them in any order, and raises an  *)
(* interrupt for what it has put on the used ring.                         *)
(*                                                                         *)
(* A process transfers the block of the buffer it has locked (module       *)
(* Bcache), so that the process stands for its buffer, and what is known   *)
(* of the transfer is whether the device has made it.                      *)
(***************************************************************************)
EXTENDS Integers, FiniteSets

CONSTANTS Procs,
          NUM,         \* descriptors, and entries of each ring
          IdxRange,    \* how many values an uint16 ring index has
          None

RingAssumption ==
    /\ NUM \in Nat \ {0, 1, 2}
    /\ IdxRange \in Nat /\ IdxRange % NUM = 0 /\ IdxRange > NUM

Ids == 0 .. NUM - 1

VARIABLES free,       \* disk.free: the free descriptors
          chain,      \* for the head of a chain, the set of its descriptors, else {}
          info,       \* disk.info[].b
          status,     \* disk.info[].status, 0 or 255
          avail, availidx, used, usedidx,   \* the rings and the indices in memory
          used_idx,   \* disk.used_idx
          lock,       \* vdisk_lock: a process, "intr", or None
          irq,        \* the device's interrupt line
          pc, idx, bdisk,  \* each process: place, idx[0], b->disk
          taken,      \* device: index up to which it has taken requests
          inflight,   \* device: chains it works on
          moved,      \* device: processes whose transfer it has made
          panicked

rings == <<avail, availidx, used, usedidx, used_idx>>
driver == <<free, chain, info>>
device == <<taken, inflight, moved>>
procs == <<pc, idx>>
vars == <<driver, status, rings, lock, irq, procs, bdisk, device, panicked>>

Holds(p) == lock = p /\ ~panicked

-----------------------------------------------------------------------------
\* virtio_disk_init
Init ==
    /\ free = Ids
    /\ chain = [i \in Ids |-> {}] /\ info = [i \in Ids |-> None] /\ status = [i \in Ids |-> 0]
    /\ avail = [i \in Ids |-> 0] /\ used = [i \in Ids |-> 0]
    /\ availidx = 0 /\ usedidx = 0 /\ used_idx = 0
    /\ lock = None /\ irq = FALSE
    /\ pc = [p \in Procs |-> "idle"] /\ idx = [p \in Procs |-> None]
    /\ bdisk = [p \in Procs |-> 0]
    /\ taken = 0 /\ inflight = {} /\ moved = {}
    /\ panicked = FALSE

\* virtio_disk_rw is called.
Call(p) ==
    /\ pc[p] = "idle" /\ ~panicked
    /\ pc' = [pc EXCEPT ![p] = "start"]
    /\ UNCHANGED <<driver, status, rings, lock, irq, idx, bdisk, device, panicked>>

\* acquire(&disk.vdisk_lock), also at the end of sleep.
Acquire(p) ==
    /\ pc[p] \in {"start", "woken"} /\ lock = None
    /\ lock' = p
    /\ pc' = [pc EXCEPT ![p] = IF @ = "start" THEN "alloc" ELSE "wait"]
    /\ UNCHANGED <<driver, status, rings, irq, idx, bdisk, device, panicked>>

\* alloc3_desc succeeds.
Enough == Cardinality(free) >= 3

\* free_desc's wakeup(&disk.free[0])
WokenForFree == [q \in Procs |-> IF pc[q] = "asleep_free" THEN "start" ELSE pc[q]]

\* alloc3_desc fails; free_desc gives back, with a wakeup, what it got.
\* Then p sleeps on &disk.free[0].
AllocSleep(p) ==
    /\ Holds(p) /\ pc[p] = "alloc" /\ ~Enough
    /\ lock' = None
    /\ pc' = [(IF free = {} THEN pc ELSE WokenForFree) EXCEPT ![p] = "asleep_free"]
    /\ UNCHANGED <<driver, status, rings, irq, idx, bdisk, device, panicked>>

\* The descriptors three calls of alloc_desc return; the first is the head.
Lowest3 == {i \in free : Cardinality({j \in free : j < i}) < 3}
Head == CHOOSE i \in free : \A j \in free : i <= j

\* disk.avail->idx % NUM
AvailSlot(n) == n % NUM

\* alloc3_desc succeeds: format the chain and tell the device.
Submit(p) ==
    /\ Holds(p) /\ pc[p] = "alloc" /\ Enough
    /\ free' = free \ Lowest3
    /\ chain' = [chain EXCEPT ![Head] = Lowest3]
    /\ info' = [info EXCEPT ![Head] = p]
    /\ status' = [status EXCEPT ![Head] = 255]
    /\ idx' = [idx EXCEPT ![p] = Head]
    /\ avail' = [avail EXCEPT ![AvailSlot(availidx)] = Head]
    /\ bdisk' = [bdisk EXCEPT ![p] = 1]
    /\ availidx' = (availidx + 1) % IdxRange
    /\ pc' = [pc EXCEPT ![p] = "wait"]
    /\ UNCHANGED <<used, usedidx, used_idx, lock, irq, device, panicked>>

\* Sleep until the interrupt handler clears b->disk.
WaitSleep(p) ==
    /\ Holds(p) /\ pc[p] = "wait" /\ bdisk[p] = 1
    /\ lock' = None
    /\ pc' = [pc EXCEPT ![p] = "asleep_buf"]
    /\ UNCHANGED <<driver, status, rings, irq, idx, bdisk, device, panicked>>

\* kkill makes a sleeping process runnable, whatever it sleeps for.
Kill(p) ==
    /\ pc[p] \in {"asleep_free", "asleep_buf"}
    /\ pc' = [pc EXCEPT ![p] = IF @ = "asleep_free" THEN "start" ELSE "woken"]
    /\ UNCHANGED <<driver, status, rings, lock, irq, idx, bdisk, device, panicked>>

\* Mutant: the first descriptor alone is freed.
Chained_Head(h) == {h}
\* The descriptors that free_chain visits.
Chained(h) == chain[h]

\* The loop ends: b->disk is 0.
Done(p) == bdisk[p] = 0

\* The request is done: free_chain, release.  free_desc panics for a
\* descriptor that is free.
Finish(p) ==
    LET h == idx[p]
    IN  /\ Holds(p) /\ pc[p] = "wait" /\ Done(p)
        /\ panicked' = (Chained(h) \cap free # {})
        /\ free' = free \cup Chained(h)
        /\ chain' = [chain EXCEPT ![h] = {}]
        /\ info' = [info EXCEPT ![h] = None]
        /\ pc' = [WokenForFree EXCEPT ![p] = "idle"]
        /\ idx' = [idx EXCEPT ![p] = None]
        /\ moved' = moved \ {p}
        /\ lock' = None
        /\ UNCHANGED <<status, rings, irq, bdisk, taken, inflight>>

-----------------------------------------------------------------------------
\* External, the device: it takes the next request.
Take ==
    /\ taken # availidx
    /\ inflight' = inflight \cup {avail[taken % NUM]}
    /\ taken' = (taken + 1) % IdxRange
    /\ UNCHANGED <<driver, status, rings, lock, irq, procs, bdisk, moved, panicked>>

\* External, the device: it transfers a block, reports it and interrupts.
Complete(h) ==
    /\ h \in inflight
    /\ inflight' = inflight \ {h}
    /\ moved' = moved \cup {info[h]}
    /\ status' = [status EXCEPT ![h] = 0]
    /\ used' = [used EXCEPT ![usedidx % NUM] = h]
    /\ usedidx' = (usedidx + 1) % IdxRange
    /\ irq' = TRUE
    /\ UNCHANGED <<driver, avail, availidx, used_idx, lock, procs, bdisk, taken, panicked>>

-----------------------------------------------------------------------------
\* virtio_disk_intr begins: it acquires vdisk_lock and acknowledges.
Intr ==
    /\ irq /\ lock = None /\ ~panicked
    /\ lock' = "intr"
    /\ irq' = FALSE
    /\ UNCHANGED <<driver, status, rings, procs, bdisk, device, panicked>>

\* Mutant: the sleeper is not woken.
WokenFor_Nobody(b) == pc
\* wakeup(b)
WokenFor(b) == [q \in Procs |-> IF q = b /\ pc[q] = "asleep_buf" THEN "woken" ELSE pc[q]]

\* disk.used_idx += 1, on an uint16
SeenNext(n) == (n + 1) % IdxRange

\* One round of its loop.
IntrEntry ==
    LET h == used[used_idx % NUM]
        b == info[h]
    IN  /\ lock = "intr" /\ used_idx # usedidx /\ ~panicked
        /\ IF status[h] # 0
            THEN panicked' = TRUE /\ UNCHANGED <<bdisk, pc, used_idx>>
            ELSE /\ bdisk' = [bdisk EXCEPT ![b] = 0]
                 /\ pc' = WokenFor(b)
                 /\ used_idx' = SeenNext(used_idx)
                 /\ UNCHANGED panicked
        /\ UNCHANGED <<driver, status, avail, availidx, used, usedidx, lock, irq, idx, device>>

IntrEnd ==
    /\ lock = "intr" /\ used_idx = usedidx
    /\ lock' = None
    /\ UNCHANGED <<driver, status, rings, irq, procs, bdisk, device, panicked>>

-----------------------------------------------------------------------------
Driver(p) == Acquire(p) \/ AllocSleep(p) \/ Submit(p) \/ WaitSleep(p) \/ Finish(p)

Next ==
    \/ \E p \in Procs : Call(p) \/ Driver(p) \/ Kill(p)
    \/ Take \/ \E h \in Ids : Complete(h)
    \/ Intr \/ IntrEntry \/ IntrEnd

Spec == Init /\ [][Next]_vars

\* Fairness: processes run and get vdisk_lock; the device serves what it
\* is given; the hart takes the interrupt.
FairSpec ==
    /\ Spec
    /\ \A p \in Procs : SF_vars(Driver(p))
    /\ WF_vars(Take) /\ \A h \in Ids : WF_vars(Complete(h))
    /\ SF_vars(Intr) /\ WF_vars(IntrEntry \/ IntrEnd)

-----------------------------------------------------------------------------
\* Descriptors are partitioned into the free ones and the chains of the
\* requests under way, three each: none is lost and none used twice.
DescriptorsConserved ==
    /\ \A h \in Ids : chain[h] = {} \/ (h \in chain[h] /\ Cardinality(chain[h]) = 3)
    /\ \A h \in Ids : chain[h] \cap free = {}
    /\ \A g, h \in Ids : g # h => chain[g] \cap chain[h] = {}
    /\ free \cup UNION {chain[h] : h \in Ids} = Ids

\* A process leaves virtio_disk_rw only when the device has made its own
\* transfer, whoever woke it.
TransferDone == [][\A p \in Procs : pc[p] = "wait" /\ pc'[p] = "idle" => p \in moved]_vars

\* No interrupt is lost: what is on the used ring and has not been seen has
\* an interrupt pending or the handler at work.
InterruptPending == used_idx # usedidx => irq \/ lock = "intr"

\* Every transfer ends.
TransfersEnd == \A p \in Procs : pc[p] \in {"wait", "asleep_buf"} ~> pc[p] = "idle"

\* The handler never finds a request without status ("virtio_disk_intr
\* status"), and free_desc never finds a free descriptor ("free_desc 2").
NeverPanics == ~panicked
=============================================================================
