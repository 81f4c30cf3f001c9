----------------------------- MODULE MCStorage ------------------------------
(***************************************************************************)
(* The buffer cache (Bcache) and the disk driver below it (VirtioDisk) for *)
(* TLC.  Bcache sees of the driver that a transfer is done when it         *)
(* returns, which is TransferDone here; they share no variable, so that    *)
(* each is explored with the other at rest, `unit' being the one that runs.*)
(***************************************************************************)
EXTENDS Bcache, TLC

CONSTANTS Callers,         \* processes in virtio_disk_rw
          NUM, IdxRange    \* VirtioDisk

VARIABLES unit,
          free, chain, info, status, avail, availidx, used, usedidx, used_idx, lock, irq,
          disk_pc, idx, bdisk, taken, inflight, moved, disk_panicked

driver == <<free, chain, info, status, avail, availidx, used, usedidx, used_idx, lock, irq,
            disk_pc, idx, bdisk, taken, inflight, moved, disk_panicked>>
storage == <<unit, vars, driver>>

D == INSTANCE VirtioDisk WITH Procs <- Callers, pc <- disk_pc, panicked <- disk_panicked

ASSUME D!RingAssumption

\* One state of the cache is enough for the driver to run by itself.
StorageInit ==
    /\ unit \in {"cache", "driver"} /\ Init /\ D!Init
    /\ unit # "cache" => \E v \in Vals : disk = [k \in Blocks |-> v] /\ data = [b \in Bufs |-> v]

StorageNext ==
    \/ unit = "cache" /\ Next /\ UNCHANGED <<unit, driver>>
    \/ unit = "driver" /\ D!Next /\ UNCHANGED <<unit, vars>>

StorageSpec == StorageInit /\ [][StorageNext]_storage

\* Callers, blocks and buffers are interchangeable.
Symmetry == Permutations(Callers) \cup Permutations(Blocks) \cup Permutations(Bufs)

\* Slots of a ring from index a up to index b.
Window(a, b) == {((a + i) % IdxRange) % NUM : i \in 0 .. ((b - a) % IdxRange) - 1}

\* Ring entries that have been consumed are written again before they are read.
View ==
    <<unit, vars, free, chain, info, status, availidx, usedidx, used_idx, lock, irq,
      disk_pc, idx, bdisk, taken, inflight, moved, disk_panicked,
      [i \in Window(taken, availidx) |-> avail[i]], [i \in Window(used_idx, usedidx) |-> used[i]]>>

-----------------------------------------------------------------------------
\* virtio_disk_rw returns only when the device has made the transfer; until
\* then the transfer has its three descriptors to itself, a completion that
\* has not been seen has its interrupt to come, and nothing makes the driver
\* panic (VirtioDisk).
TransfersSafe ==
    /\ D!TransferDone
    /\ [](unit = "driver" => D!DescriptorsConserved /\ D!InterruptPending /\ D!NeverPanics)
=============================================================================
