------------------------------- MODULE Bcache -------------------------------
(***************************************************************************)
(* The buffer cache (kernel/bio.c) with its LRU list, the sleep lock of    *)
(* every buffer (kernel/sleeplock.c), and the two kinds of users it has:   *)
(* log_write, which changes a buffer and pins it, and the log's commit,    *)
(* which writes a buffer and unpins it.  Each hold of bcache.lock or of a  *)
(* sleep lock's spinlock is one step; the disk is a function from blocks   *)
(* to values (module VirtioDisk has the driver).                           *)
(***************************************************************************)
EXTENDS Integers, FiniteSets, Functions

CONSTANTS Bufs, Blocks, Vals, Procs,
          LogSize,   \* blocks that the log may pin
          None

ASSUME BcacheAssumption ==
    /\ IsFiniteSet(Bufs) /\ IsFiniteSet(Procs) /\ LogSize \in Nat
    /\ None \notin Bufs \cup Blocks \cup Procs
    /\ Cardinality(Bufs) >= Cardinality(Procs) + LogSize

VARIABLES block, valid, refcnt, data,  \* struct buf
          locked,    \* b->lock: the process that holds it, or None
          lru,       \* the list from bcache.head.next on, most recent first
          disk,
          pc, buf,   \* each process: where it is, and its local b
          pinned,    \* blocks in the log
          latest,    \* history: the last value stored in each block
          panicked

cache == <<block, valid, refcnt, data>>
vars == <<cache, locked, lru, disk, pc, buf, pinned, latest, panicked>>

Holding(p) == pc[p] = "held" /\ locked[buf[p]] = p

-----------------------------------------------------------------------------
\* binit: no buffer has a block yet.
Init ==
    /\ block = [b \in Bufs |-> None] /\ valid = [b \in Bufs |-> 0]
    /\ refcnt = [b \in Bufs |-> 0]
    /\ locked = [b \in Bufs |-> None]
    /\ lru \in Bijection(1 .. Cardinality(Bufs), Bufs)
    /\ disk \in [Blocks -> Vals]
    /\ data \in {[b \in Bufs |-> v] : v \in Vals}
    /\ pc = [p \in Procs |-> "idle"] /\ buf = [p \in Procs |-> None]
    /\ pinned = {}
    /\ latest = disk
    /\ panicked = FALSE

\* Mutant: a buffer counts only once its block has been read.
Caches_Valid(b, k) == block[b] = k /\ valid[b] = 1
\* bget's test of a buffer.
Caches(b, k) == block[b] = k

\* bget finds the block in the cache.
BgetHit(p, k) ==
    \E b \in Bufs :
        /\ pc[p] = "idle" /\ ~panicked /\ Caches(b, k)
        /\ refcnt' = [refcnt EXCEPT ![b] = @ + 1]
        /\ buf' = [buf EXCEPT ![p] = b]
        /\ pc' = [pc EXCEPT ![p] = "lock"]
        /\ UNCHANGED <<block, valid, data, locked, lru, disk, pinned, latest, panicked>>

\* bget's test of an unused buffer.
Recyclable(b) == refcnt[b] = 0

\* bget recycles the least recently used buffer that is not used.
BgetMiss(p, k) ==
    LET Free == {n \in DOMAIN lru : Recyclable(lru[n])}
    IN  /\ pc[p] = "idle" /\ ~panicked /\ \A c \in Bufs : ~Caches(c, k)
        /\ IF Free = {}
            THEN panicked' = TRUE /\ UNCHANGED <<block, valid, refcnt, buf, pc>>
            ELSE \E n \in Free :
                 LET b == lru[n]
                 IN  /\ \A m \in Free : m <= n
                     /\ block' = [block EXCEPT ![b] = k]
                     /\ valid' = [valid EXCEPT ![b] = 0]
                     /\ refcnt' = [refcnt EXCEPT ![b] = 1]
                     /\ buf' = [buf EXCEPT ![p] = b]
                     /\ pc' = [pc EXCEPT ![p] = "lock"]
                     /\ UNCHANGED panicked
        /\ UNCHANGED <<data, locked, lru, disk, pinned, latest>>

\* acquiresleep: take the lock, or sleep.
Acquiresleep(p) ==
    /\ pc[p] = "lock"
    /\ IF locked[buf[p]] = None
        THEN locked' = [locked EXCEPT ![buf[p]] = p] /\ pc' = [pc EXCEPT ![p] = "locked"]
        ELSE pc' = [pc EXCEPT ![p] = "asleep"] /\ UNCHANGED locked
    /\ UNCHANGED <<cache, lru, disk, buf, pinned, latest, panicked>>

\* Mutant: bread reads the block every time.
NeedsRead_Always(b) == TRUE
\* bread's test.
NeedsRead(b) == valid[b] = 0

\* The end of bread: read the block unless the buffer is valid.
Bread(p) ==
    LET b == buf[p]
    IN  /\ pc[p] = "locked"
        /\ data' = IF NeedsRead(b) THEN [data EXCEPT ![b] = disk[block[b]]] ELSE data
        /\ valid' = [valid EXCEPT ![b] = 1]
        /\ pc' = [pc EXCEPT ![p] = "held"]
        /\ UNCHANGED <<block, refcnt, locked, lru, disk, buf, pinned, latest, panicked>>

\* bpin
Pinned(n) == n + 1

\* The file system changes a block and calls log_write, which pins it once.
LogWrite(p, v) ==
    LET b == buf[p]
        fresh == block[b] \notin pinned
    IN  /\ Holding(p) /\ (fresh => Cardinality(pinned) < LogSize)
        /\ data' = [data EXCEPT ![b] = v]
        /\ latest' = [latest EXCEPT ![block[b]] = v]
        /\ pinned' = pinned \cup {block[b]}
        /\ refcnt' = IF fresh THEN [refcnt EXCEPT ![b] = Pinned(@)] ELSE refcnt
        /\ UNCHANGED <<block, valid, locked, lru, disk, pc, buf, panicked>>

\* install_trans: bwrite, bunpin.
Install(p) ==
    LET b == buf[p]
    IN  /\ Holding(p) /\ block[b] \in pinned
        /\ disk' = [disk EXCEPT ![block[b]] = data[b]]
        /\ refcnt' = [refcnt EXCEPT ![b] = @ - 1]
        /\ pinned' = pinned \ {block[b]}
        /\ UNCHANGED <<block, valid, data, locked, lru, pc, buf, latest, panicked>>

\* wakeup(lk)
Woken(b) == [q \in Procs |-> IF pc[q] = "asleep" /\ buf[q] = b THEN "lock" ELSE pc[q]]

\* brelse: releasesleep.
Releasesleep(p) ==
    /\ Holding(p)
    /\ locked' = [locked EXCEPT ![buf[p]] = None]
    /\ pc' = [Woken(buf[p]) EXCEPT ![p] = "release"]
    /\ UNCHANGED <<cache, lru, disk, buf, pinned, latest, panicked>>

\* The list after b has moved to its front.
ToFront(b) ==
    LET n == CHOOSE m \in DOMAIN lru : lru[m] = b
    IN  [m \in DOMAIN lru |-> IF m = 1 THEN b ELSE IF m <= n THEN lru[m - 1] ELSE lru[m]]

\* b->refcnt--
Unused(n) == n - 1

\* brelse under bcache.lock: an unused buffer becomes the most recent one.
Brelse(p) ==
    LET b == buf[p]
    IN  /\ pc[p] = "release"
        /\ refcnt' = [refcnt EXCEPT ![b] = Unused(@)]
        /\ lru' = IF refcnt[b] = 1 THEN ToFront(b) ELSE lru
        /\ pc' = [pc EXCEPT ![p] = "idle"]
        /\ buf' = [buf EXCEPT ![p] = None]
        /\ UNCHANGED <<block, valid, data, locked, disk, pinned, latest, panicked>>

Next ==
    \E p \in Procs :
        \/ Acquiresleep(p) \/ Bread(p) \/ Install(p) \/ Releasesleep(p) \/ Brelse(p)
        \/ \E k \in Blocks : BgetHit(p, k) \/ BgetMiss(p, k)
        \/ \E v \in Vals : LogWrite(p, v)

Spec == Init /\ [][Next]_vars

-----------------------------------------------------------------------------
\* A block is in one buffer at most, so that the sleep lock of the buffer is
\* a lock of the block.
OneBufferPerBlock == \A b, c \in Bufs : block[b] = block[c] /\ block[b] # None => b = c

\* Every process keeps the block it asked for until it releases it: the
\* count covers the processes that hold or wait for a buffer, and its pin.
CountsUsers ==
    \A b \in Bufs : refcnt[b] = Cardinality({p \in Procs : buf[p] = b})
                                    + (IF block[b] \in pinned THEN 1 ELSE 0)

\* A read through the cache returns the last value stored, across any
\* recycling: from the buffer if it is valid, else from the disk.
ReadsLatest ==
    \A k \in Blocks :
        latest[k] = IF \E b \in Bufs : block[b] = k /\ valid[b] = 1
                        THEN data[CHOOSE b \in Bufs : block[b] = k]
                        ELSE disk[k]

\* With a buffer for every process and every block of the log, bget always
\* finds one ("bget: no buffers").
NeverOutOfBuffers == ~panicked

\* bget keeps a block in one buffer, which nobody recycles while refcnt, the
\* number of its users and pins, is not 0, and never runs out.
BuffersAccounted == OneBufferPerBlock /\ CountsUsers /\ NeverOutOfBuffers
=============================================================================
