---------------------------- MODULE BcacheProofs ----------------------------
(***************************************************************************)
(* Proofs about the buffer cache (module Bcache), for any numbers of       *)
(* buffers, blocks and processes: a block is in one buffer, a count is the *)
(* number of users and pins, bget never runs out of buffers, and a read    *)
(* through the cache returns the last value stored.                        *)
(*                                                                         *)
(* ReadsLatest is not inductive: a block of the log lives in its buffer    *)
(* only, which bget may not recycle.  That rests on the pin being counted, *)
(* which rests on a block having one buffer (BcacheInv).                   *)
(***************************************************************************)
EXTENDS Bcache, FiniteSetTheorems, TLAPS

Locked == {"locked", "held"}
Used == Locked \cup {"lock", "asleep", "release"}

TypeOK ==
    /\ block \in [Bufs -> Blocks \cup {None}] /\ valid \in [Bufs -> {0, 1}]
    /\ refcnt \in [Bufs -> Int] /\ data \in [Bufs -> Vals]
    /\ locked \in [Bufs -> Procs \cup {None}]
    /\ lru \in [1 .. Cardinality(Bufs) -> Bufs]
    /\ disk \in [Blocks -> Vals] /\ latest \in [Blocks -> Vals]
    /\ pc \in [Procs -> Used \cup {"idle"}] /\ buf \in [Procs -> Bufs \cup {None}]
    /\ pinned \subseteq Blocks /\ panicked \in BOOLEAN

\* Every buffer is on the list.
Listed == \A b \in Bufs : \E n \in 1 .. Cardinality(Bufs) : lru[n] = b

\* A process in bread or after it has a buffer, with a block; the sleep lock
\* is the process's own from acquiresleep to releasesleep.
Places ==
    /\ \A p \in Procs : pc[p] \in Used <=> buf[p] \in Bufs
    /\ \A p \in Procs : buf[p] \in Bufs => block[buf[p]] \in Blocks
    /\ \A p \in Procs : pc[p] \in Locked => locked[buf[p]] = p
    /\ \A p \in Procs : pc[p] = "held" => valid[buf[p]] = 1

\* The log pins no more than it has room for.
LogBound == IsFiniteSet(pinned) /\ Cardinality(pinned) <= LogSize

\* A block of the log is in a buffer, where the last value is; a block that
\* is not has its last value on the disk.
Coherent ==
    /\ \A k \in pinned : \E b \in Bufs : block[b] = k /\ valid[b] = 1
    /\ \A b \in Bufs : block[b] \in Blocks /\ valid[b] = 1 => data[b] = latest[block[b]]
    /\ \A k \in Blocks \ pinned : disk[k] = latest[k]

BcacheInv == TypeOK /\ Listed /\ Places /\ LogBound /\ Coherent /\ BuffersAccounted

-----------------------------------------------------------------------------
\* The processes whose buffer is b, when f is the buffer of each.
UsersOf(f, b) == {p \in Procs : f[p] = b}

\* No buffer, block or process is the null pointer.
LEMMA NoneIs == None \notin Bufs /\ None \notin Blocks /\ None \notin Procs
  BY BcacheAssumption

\* A buffer has finitely many users.
LEMMA UsersFinite ==
    ASSUME NEW f, NEW b
    PROVE  IsFiniteSet(UsersOf(f, b)) /\ Cardinality(UsersOf(f, b)) \in Nat
  BY BcacheAssumption, FS_Subset, FS_CardinalityType DEF UsersOf

\* A process that bget gives buffer b, and brelse takes it from: with it (g)
\* b has one user more than without it (f), and other buffers as many.
LEMMA UserCounts ==
    ASSUME NEW f, NEW g, NEW p \in Procs, NEW b \in Bufs, NEW c \in Bufs,
           f[p] = None, g[p] = b, \A q \in Procs \ {p} : f[q] = g[q]
    PROVE  Cardinality(UsersOf(g, c)) = Cardinality(UsersOf(f, c)) + (IF c = b THEN 1 ELSE 0)
<1>1. CASE c = b
  <2>1. UsersOf(g, c) = UsersOf(f, c) \cup {p} /\ p \notin UsersOf(f, c)
    BY <1>1, NoneIs DEF UsersOf
  <2>2. Cardinality(UsersOf(f, c) \cup {p}) = Cardinality(UsersOf(f, c)) + 1
    BY <2>1, UsersFinite, FS_AddElement
  <2> QED
    BY <1>1, <2>1, <2>2
<1>2. CASE c # b
  <2>1. UsersOf(g, c) = UsersOf(f, c)
    BY <1>2, NoneIs DEF UsersOf
  <2> QED
    BY <1>2, <2>1, UsersFinite
<1> QED
  BY <1>1, <1>2

\* A buffer that bget may recycle has no user and no pin.
LEMMA UnusedIs ==
    ASSUME BcacheInv, NEW b \in Bufs, refcnt[b] = 0
    PROVE  /\ Cardinality(UsersOf(buf, b)) = 0 /\ block[b] \notin pinned
           /\ \A q \in Procs : buf[q] # b
<1>1. refcnt[b] = Cardinality(UsersOf(buf, b)) + (IF block[b] \in pinned THEN 1 ELSE 0)
  BY DEF BcacheInv, BuffersAccounted, CountsUsers, UsersOf
<1>2. Cardinality(UsersOf(buf, b)) = 0 /\ block[b] \notin pinned
  BY <1>1, UsersFinite
<1>3. UsersOf(buf, b) = {}
  BY <1>2, UsersFinite, FS_EmptySet
<1> QED
  BY <1>2, <1>3 DEF UsersOf

\* bget, called by a process that has no buffer, always finds one: the other
\* processes and the log cannot use them all.
LEMMA OneIsFree ==
    ASSUME BcacheInv, NEW p \in Procs, pc[p] = "idle"
    PROVE  \E b \in Bufs : refcnt[b] = 0
<1> SUFFICES ASSUME \A b \in Bufs : refcnt[b] # 0 PROVE FALSE
  OBVIOUS
<1> DEFINE A == {b \in Bufs : \E q \in Procs \ {p} : buf[q] = b}
           B == {b \in Bufs : block[b] \in pinned}
<1>0. TypeOK /\ Places /\ LogBound /\ OneBufferPerBlock /\ CountsUsers
  BY DEF BcacheInv, BuffersAccounted
<1>1. buf[p] \notin Bufs
  BY <1>0 DEF Places, Used, Locked
<1>2. Bufs = A \cup B
  <2> SUFFICES ASSUME NEW b \in Bufs, b \notin B PROVE b \in A
    OBVIOUS
  <2>1. refcnt[b] = Cardinality(UsersOf(buf, b)) + 0
    BY <1>0 DEF CountsUsers, UsersOf
  <2>2. UsersOf(buf, b) # {}
    BY <2>1, FS_EmptySet
  <2>3. PICK q \in Procs : buf[q] = b
    BY <2>2 DEF UsersOf
  <2> QED
    BY <2>3, <1>1
<1>3. IsFiniteSet(A) /\ Cardinality(A) <= Cardinality(Procs) - 1
  <2> DEFINE g == [b \in A |-> CHOOSE q \in Procs \ {p} : buf[q] = b]
  <2>1. \A b \in A : g[b] \in Procs \ {p} /\ buf[g[b]] = b
    OBVIOUS
  <2>2. g \in Injection(A, Procs \ {p})
    BY <2>1 DEF Injection, IsInjective
  <2>3. IsFiniteSet(Procs \ {p}) /\ Cardinality(Procs \ {p}) = Cardinality(Procs) - 1
    BY BcacheAssumption, FS_RemoveElement
  <2> HIDE DEF A, g
  <2> QED
    BY <2>2, <2>3, FS_Injection
<1>4. IsFiniteSet(B) /\ Cardinality(B) <= LogSize
  <2> DEFINE g == [b \in B |-> block[b]]
  <2>1. \A b \in B : block[b] # None
    BY <1>0, NoneIs DEF TypeOK
  <2>2. g \in Injection(B, pinned)
    BY <1>0, <2>1 DEF Injection, IsInjective, OneBufferPerBlock
  <2>3. IsFiniteSet(pinned) /\ Cardinality(pinned) <= LogSize /\ Cardinality(pinned) \in Nat
    BY <1>0, FS_CardinalityType DEF LogBound
  <2> HIDE DEF B, g
  <2>4. IsFiniteSet(B) /\ Cardinality(B) <= Cardinality(pinned)
    BY <2>2, <2>3, FS_Injection
  <2>5. Cardinality(B) \in Nat
    BY <2>4, FS_CardinalityType
  <2> QED
    BY <2>3, <2>4, <2>5, BcacheAssumption
<1> HIDE DEF A, B
<1>5. Cardinality(A \cup B) = Cardinality(A) + Cardinality(B) - Cardinality(A \cap B)
  BY <1>3, <1>4, FS_Union
<1>6. Cardinality(A \cap B) \in Nat /\ Cardinality(A) \in Nat /\ Cardinality(B) \in Nat
  <2>1. IsFiniteSet(A \cap B)
    BY <1>3, FS_Subset
  <2> QED
    BY <2>1, <1>3, <1>4, FS_CardinalityType
<1>7. Cardinality(Procs) \in Nat /\ Cardinality(Bufs) >= Cardinality(Procs) + LogSize /\ LogSize \in Nat
  BY BcacheAssumption, FS_CardinalityType
<1> QED
  BY <1>2, <1>3, <1>4, <1>5, <1>6, <1>7

-----------------------------------------------------------------------------
\* A hit of bget adds a user to a buffer that has its block already.
LEMMA BgetHitKeeps == ASSUME BcacheInv, NEW p \in Procs, NEW k \in Blocks, BgetHit(p, k) PROVE BcacheInv'
<1>0. TypeOK /\ Listed /\ Places /\ LogBound /\ Coherent /\ BuffersAccounted
  BY DEF BcacheInv
<1>1. PICK b \in Bufs :
        /\ pc[p] = "idle" /\ block[b] = k
        /\ refcnt' = [refcnt EXCEPT ![b] = @ + 1] /\ buf' = [buf EXCEPT ![p] = b] /\ pc' = [pc EXCEPT ![p] = "lock"]
        /\ UNCHANGED <<block, valid, data, locked, lru, disk, pinned, latest, panicked>>
  BY DEF BgetHit, Caches
<1>2. TypeOK'
  BY <1>0, <1>1 DEF TypeOK, Used
<1>3. (Listed /\ LogBound /\ Coherent)'
  BY <1>0, <1>1 DEF Listed, LogBound, Coherent
<1>4. buf[p] = None
  BY <1>0, <1>1 DEF Places, TypeOK, Used, Locked
<1>5. Places'
  BY <1>0, <1>1 DEF Places, TypeOK, Used, Locked
<1>6. (OneBufferPerBlock /\ NeverOutOfBuffers)'
  BY <1>0, <1>1 DEF BuffersAccounted, OneBufferPerBlock, NeverOutOfBuffers
<1>7. CountsUsers'
  <2> SUFFICES ASSUME NEW c \in Bufs
               PROVE  refcnt'[c] = Cardinality(UsersOf(buf', c)) + (IF block[c] \in pinned THEN 1 ELSE 0)
    BY <1>1 DEF CountsUsers, UsersOf
  <2>1. Cardinality(UsersOf(buf', c)) = Cardinality(UsersOf(buf, c)) + (IF c = b THEN 1 ELSE 0)
    <3>1. buf'[p] = b /\ \A q \in Procs \ {p} : buf[q] = buf'[q]
      BY <1>0, <1>1 DEF TypeOK
    <3> QED
      BY <3>1, <1>4, UserCounts
  <2>2. refcnt[c] = Cardinality(UsersOf(buf, c)) + (IF block[c] \in pinned THEN 1 ELSE 0)
    BY <1>0 DEF BuffersAccounted, CountsUsers, UsersOf
  <2>3. refcnt'[c] = refcnt[c] + (IF c = b THEN 1 ELSE 0)
    BY <1>0, <1>1 DEF TypeOK
  <2> QED
    BY <2>1, <2>2, <2>3, UsersFinite
<1> QED
  BY <1>2, <1>3, <1>5, <1>6, <1>7 DEF BcacheInv, BuffersAccounted

\* A miss of bget finds a buffer that nobody uses and no block of the log is
\* in, and gives it a block that no other buffer has.
LEMMA BgetMissKeeps == ASSUME BcacheInv, NEW p \in Procs, NEW k \in Blocks, BgetMiss(p, k) PROVE BcacheInv'
<1>0. TypeOK /\ Listed /\ Places /\ LogBound /\ Coherent /\ BuffersAccounted
  BY DEF BcacheInv
<1>1. pc[p] = "idle" /\ \A c \in Bufs : block[c] # k
  BY DEF BgetMiss, Caches
<1>2. {n \in DOMAIN lru : refcnt[lru[n]] = 0} # {}
  <2>1. PICK b \in Bufs : refcnt[b] = 0
    BY <1>1, OneIsFree
  <2>2. PICK n \in 1 .. Cardinality(Bufs) : lru[n] = b
    BY <1>0 DEF Listed
  <2>3. n \in DOMAIN lru
    BY <1>0 DEF TypeOK
  <2> QED
    BY <2>1, <2>2, <2>3
<1>3. PICK n \in DOMAIN lru :
        /\ refcnt[lru[n]] = 0
        /\ block' = [block EXCEPT ![lru[n]] = k] /\ valid' = [valid EXCEPT ![lru[n]] = 0]
        /\ refcnt' = [refcnt EXCEPT ![lru[n]] = 1] /\ buf' = [buf EXCEPT ![p] = lru[n]]
        /\ pc' = [pc EXCEPT ![p] = "lock"]
        /\ UNCHANGED <<data, locked, lru, disk, pinned, latest, panicked>>
  BY <1>2 DEF BgetMiss, Recyclable
<1>4. PICK b \in Bufs : b = lru[n]
  BY <1>0 DEF TypeOK
<1>5. /\ refcnt[b] = 0 /\ block' = [block EXCEPT ![b] = k] /\ valid' = [valid EXCEPT ![b] = 0]
      /\ refcnt' = [refcnt EXCEPT ![b] = 1] /\ buf' = [buf EXCEPT ![p] = b] /\ pc' = [pc EXCEPT ![p] = "lock"]
      /\ UNCHANGED <<data, locked, lru, disk, pinned, latest, panicked>>
  BY <1>3, <1>4
<1> HIDE <1>3, <1>4
<1>6. TypeOK'
  BY <1>0, <1>5 DEF TypeOK, Used
<1>7. buf[p] = None
  BY <1>0, <1>1 DEF Places, TypeOK, Used, Locked
<1>8. Cardinality(UsersOf(buf, b)) = 0 /\ block[b] \notin pinned /\ \A q \in Procs : buf[q] # b
  BY <1>5, UnusedIs
<1>9. k \notin pinned
  BY <1>0, <1>1 DEF Coherent
<1>10. (Listed /\ LogBound)'
  BY <1>0, <1>5 DEF Listed, LogBound
<1>11. Places'
  BY <1>0, <1>5, <1>8 DEF Places, TypeOK, Used, Locked
<1>12. Coherent'
  BY <1>0, <1>5, <1>8 DEF Coherent, TypeOK
<1>13. (OneBufferPerBlock /\ NeverOutOfBuffers)'
  BY <1>0, <1>1, <1>5 DEF BuffersAccounted, OneBufferPerBlock, NeverOutOfBuffers, TypeOK
<1>14. CountsUsers'
  <2> SUFFICES ASSUME NEW c \in Bufs
               PROVE  refcnt'[c] = Cardinality(UsersOf(buf', c)) + (IF block'[c] \in pinned THEN 1 ELSE 0)
    BY <1>5 DEF CountsUsers, UsersOf
  <2>1. Cardinality(UsersOf(buf', c)) = Cardinality(UsersOf(buf, c)) + (IF c = b THEN 1 ELSE 0)
    <3>1. buf'[p] = b /\ \A q \in Procs \ {p} : buf[q] = buf'[q]
      BY <1>0, <1>5 DEF TypeOK
    <3> QED
      BY <3>1, <1>7, UserCounts
  <2>2. refcnt[c] = Cardinality(UsersOf(buf, c)) + (IF block[c] \in pinned THEN 1 ELSE 0)
    BY <1>0 DEF BuffersAccounted, CountsUsers, UsersOf
  <2>3. CASE c = b
    BY <2>1, <2>3, <1>0, <1>5, <1>8, <1>9 DEF TypeOK
  <2>4. CASE c # b
    BY <2>1, <2>2, <2>4, <1>0, <1>5, UsersFinite DEF TypeOK
  <2> QED
    BY <2>3, <2>4
<1> QED
  BY <1>6, <1>10, <1>11, <1>12, <1>13, <1>14 DEF BcacheInv, BuffersAccounted

\* acquiresleep takes a free lock or sleeps; no count and no data change.
LEMMA AcquiresleepKeeps == ASSUME BcacheInv, NEW p \in Procs, Acquiresleep(p) PROVE BcacheInv'
<1>0. TypeOK /\ Listed /\ Places /\ LogBound /\ Coherent /\ BuffersAccounted
  BY DEF BcacheInv
<1>1. buf[p] \in Bufs
  BY <1>0 DEF Acquiresleep, Places, Used
<1>2. TypeOK'
  BY <1>0, <1>1 DEF Acquiresleep, cache, TypeOK, Used, Locked
<1>3. (Listed /\ LogBound /\ Coherent /\ BuffersAccounted)'
  <2>1. UNCHANGED <<block, valid, refcnt, data, lru, disk, buf, pinned, latest, panicked>>
    BY DEF Acquiresleep, cache
  <2>2. (Listed /\ LogBound /\ Coherent)'
    BY <1>0, <2>1 DEF Listed, LogBound, Coherent
  <2>3. (OneBufferPerBlock /\ CountsUsers /\ NeverOutOfBuffers)'
    BY <1>0, <2>1 DEF BuffersAccounted, OneBufferPerBlock, CountsUsers, NeverOutOfBuffers
  <2> QED
    BY <2>2, <2>3 DEF BuffersAccounted
<1>4. Places'
  <2>1. \A q \in Procs : pc'[q] \in Used <=> pc[q] \in Used
    BY <1>0 DEF Acquiresleep, TypeOK, Used, Locked
  <2>2. \A q \in Procs : pc'[q] = "held" => pc[q] = "held"
    BY <1>0 DEF Acquiresleep, TypeOK
  <2>3. ASSUME NEW q \in Procs, pc'[q] \in Locked PROVE locked'[buf[q]] = q
    <3>1. CASE q = p
      BY <1>0, <1>1, <2>3, <3>1 DEF Acquiresleep, TypeOK, Locked
    <3>2. CASE q # p
      <4>1. pc[q] \in Locked /\ locked[buf[q]] = q
        BY <1>0, <2>3, <3>2 DEF Acquiresleep, Places, TypeOK
      <4>2. buf[q] \in Bufs
        BY <1>0, <4>1 DEF Places, Used
      <4>3. locked' = locked \/ (locked[buf[p]] = None /\ locked' = [locked EXCEPT ![buf[p]] = p])
        BY DEF Acquiresleep
      <4> QED
        BY <1>0, <1>1, <4>1, <4>2, <4>3, NoneIs DEF TypeOK
    <3> QED
      BY <3>1, <3>2
  <2>4. UNCHANGED <<buf, block, valid>>
    BY DEF Acquiresleep, cache
  <2> QED
    BY <1>0, <2>1, <2>2, <2>3, <2>4 DEF Places
<1> QED
  BY <1>2, <1>3, <1>4 DEF BcacheInv

\* bread reads only a block that the log has not got: the disk has its last
\* value.
LEMMA BreadKeeps == ASSUME BcacheInv, NEW p \in Procs, Bread(p) PROVE BcacheInv'
<1>0. TypeOK /\ Listed /\ Places /\ LogBound /\ Coherent /\ BuffersAccounted
  BY DEF BcacheInv
<1>1. PICK b \in Bufs : b = buf[p] /\ block[b] \in Blocks
  BY <1>0 DEF Bread, Places, Used, Locked
<1>2. /\ pc[p] = "locked"
      /\ data' = IF valid[b] = 0 THEN [data EXCEPT ![b] = disk[block[b]]] ELSE data
      /\ valid' = [valid EXCEPT ![b] = 1] /\ pc' = [pc EXCEPT ![p] = "held"]
      /\ UNCHANGED <<block, refcnt, locked, lru, disk, buf, pinned, latest, panicked>>
  BY <1>1 DEF Bread, NeedsRead
<1>3. TypeOK'
  <2>1. data' \in [Bufs -> Vals]
    BY <1>0, <1>1, <1>2 DEF TypeOK
  <2> QED
    BY <1>0, <1>2, <2>1 DEF TypeOK, Used, Locked
<1>4. (Listed /\ LogBound /\ BuffersAccounted)'
  BY <1>0, <1>2 DEF Listed, LogBound, BuffersAccounted, OneBufferPerBlock, CountsUsers, NeverOutOfBuffers
<1>5. Places'
  BY <1>0, <1>1, <1>2 DEF Places, TypeOK, Used, Locked
<1>6. Coherent'
  <2>1. valid[b] = 0 => block[b] \notin pinned
    BY <1>0, <1>1, NoneIs DEF Coherent, BuffersAccounted, OneBufferPerBlock
  <2>2. data'[b] = latest[block[b]]
    BY <1>0, <1>1, <1>2, <2>1 DEF Coherent, TypeOK
  <2>3. \A c \in Bufs \ {b} : data'[c] = data[c] /\ valid'[c] = valid[c]
    BY <1>0, <1>2 DEF TypeOK
  <2> QED
    BY <1>0, <1>2, <2>2, <2>3 DEF Coherent, TypeOK
<1> QED
  BY <1>3, <1>4, <1>5, <1>6 DEF BcacheInv

\* log_write changes a block under its sleep lock, in its only buffer, and
\* pins the buffer when the block comes to the log.
LEMMA LogWriteKeeps == ASSUME BcacheInv, NEW p \in Procs, NEW v \in Vals, LogWrite(p, v) PROVE BcacheInv'
<1>0. TypeOK /\ Listed /\ Places /\ LogBound /\ Coherent /\ BuffersAccounted
  BY DEF BcacheInv
<1>1. PICK b \in Bufs : b = buf[p] /\ block[b] \in Blocks /\ valid[b] = 1
  BY <1>0 DEF LogWrite, Holding, Places, Used, Locked
<1>2. PICK k \in Blocks : k = block[b]
  BY <1>1
<1>3. /\ k \notin pinned => Cardinality(pinned) < LogSize
      /\ data' = [data EXCEPT ![b] = v] /\ latest' = [latest EXCEPT ![k] = v]
      /\ pinned' = pinned \cup {k}
      /\ refcnt' = IF k \notin pinned THEN [refcnt EXCEPT ![b] = @ + 1] ELSE refcnt
      /\ UNCHANGED <<block, valid, locked, lru, disk, pc, buf, panicked>>
  BY <1>1, <1>2 DEF LogWrite, Pinned
<1>4. \A c \in Bufs : block[c] = k <=> c = b
  BY <1>0, <1>2, NoneIs DEF BuffersAccounted, OneBufferPerBlock
<1>5. TypeOK'
  <2>1. refcnt' \in [Bufs -> Int]
    BY <1>0, <1>3 DEF TypeOK
  <2> QED
    BY <1>0, <1>3, <2>1 DEF TypeOK
<1>6. (Listed /\ Places /\ OneBufferPerBlock /\ NeverOutOfBuffers)'
  BY <1>0, <1>3 DEF Listed, Places, BuffersAccounted, OneBufferPerBlock, NeverOutOfBuffers
<1>7. LogBound'
  <2>1. IsFiniteSet(pinned \cup {k})
        /\ Cardinality(pinned \cup {k}) = IF k \in pinned THEN Cardinality(pinned) ELSE Cardinality(pinned) + 1
    BY <1>0, FS_AddElement DEF LogBound
  <2>2. Cardinality(pinned) \in Nat /\ LogSize \in Nat
    BY <1>0, FS_CardinalityType, BcacheAssumption DEF LogBound
  <2> QED
    BY <1>0, <1>3, <2>1, <2>2 DEF LogBound
<1>8. Coherent'
  <2>1. \A j \in pinned' : \E c \in Bufs : block'[c] = j /\ valid'[c] = 1
    BY <1>0, <1>1, <1>2, <1>3 DEF Coherent
  <2>2. \A c \in Bufs : block'[c] \in Blocks /\ valid'[c] = 1 => data'[c] = latest'[block'[c]]
    BY <1>0, <1>2, <1>3, <1>4 DEF Coherent, TypeOK
  <2>3. \A j \in Blocks \ pinned' : disk'[j] = latest'[j]
    BY <1>0, <1>3 DEF Coherent, TypeOK
  <2> QED
    BY <2>1, <2>2, <2>3 DEF Coherent
<1>9. CountsUsers'
  <2> SUFFICES ASSUME NEW c \in Bufs
               PROVE  refcnt'[c] = Cardinality(UsersOf(buf, c)) + (IF block[c] \in pinned' THEN 1 ELSE 0)
    BY <1>3 DEF CountsUsers, UsersOf
  <2>1. refcnt[c] = Cardinality(UsersOf(buf, c)) + (IF block[c] \in pinned THEN 1 ELSE 0)
    BY <1>0 DEF BuffersAccounted, CountsUsers, UsersOf
  <2>2. CASE c = b
    BY <2>1, <2>2, <1>0, <1>2, <1>3, UsersFinite DEF TypeOK
  <2>3. CASE c # b
    BY <2>1, <2>3, <1>0, <1>3, <1>4 DEF TypeOK
  <2> QED
    BY <2>2, <2>3
<1> QED
  BY <1>5, <1>6, <1>7, <1>8, <1>9 DEF BcacheInv, BuffersAccounted

\* install_trans writes a block of the log to the disk and takes its pin.
LEMMA InstallKeeps == ASSUME BcacheInv, NEW p \in Procs, Install(p) PROVE BcacheInv'
<1>0. TypeOK /\ Listed /\ Places /\ LogBound /\ Coherent /\ BuffersAccounted
  BY DEF BcacheInv
<1>1. PICK b \in Bufs : b = buf[p] /\ block[b] \in Blocks /\ valid[b] = 1
  BY <1>0 DEF Install, Holding, Places, Used, Locked
<1>2. PICK k \in Blocks : k = block[b]
  BY <1>1
<1>3. /\ k \in pinned
      /\ disk' = [disk EXCEPT ![k] = data[b]] /\ refcnt' = [refcnt EXCEPT ![b] = @ - 1]
      /\ pinned' = pinned \ {k}
      /\ UNCHANGED <<block, valid, data, locked, lru, pc, buf, latest, panicked>>
  BY <1>1, <1>2 DEF Install
<1>4. \A c \in Bufs : block[c] = k <=> c = b
  BY <1>0, <1>2, NoneIs DEF BuffersAccounted, OneBufferPerBlock
<1>5. TypeOK'
  BY <1>0, <1>3 DEF TypeOK
<1>6. (Listed /\ Places /\ OneBufferPerBlock /\ NeverOutOfBuffers)'
  BY <1>0, <1>3 DEF Listed, Places, BuffersAccounted, OneBufferPerBlock, NeverOutOfBuffers
<1>7. LogBound'
  <2>1. IsFiniteSet(pinned \ {k}) /\ Cardinality(pinned \ {k}) = Cardinality(pinned) - 1
    BY <1>0, <1>3, FS_RemoveElement DEF LogBound
  <2>2. Cardinality(pinned) \in Nat /\ LogSize \in Nat
    BY <1>0, FS_CardinalityType, BcacheAssumption DEF LogBound
  <2> QED
    BY <1>0, <1>3, <2>1, <2>2 DEF LogBound
<1>8. Coherent'
  <2>1. data[b] = latest[k]
    BY <1>0, <1>1, <1>2 DEF Coherent
  <2> QED
    BY <1>0, <1>3, <2>1 DEF Coherent, TypeOK
<1>9. CountsUsers'
  <2> SUFFICES ASSUME NEW c \in Bufs
               PROVE  refcnt'[c] = Cardinality(UsersOf(buf, c)) + (IF block[c] \in pinned' THEN 1 ELSE 0)
    BY <1>3 DEF CountsUsers, UsersOf
  <2>1. refcnt[c] = Cardinality(UsersOf(buf, c)) + (IF block[c] \in pinned THEN 1 ELSE 0)
    BY <1>0 DEF BuffersAccounted, CountsUsers, UsersOf
  <2>2. CASE c = b
    BY <2>1, <2>2, <1>0, <1>2, <1>3, UsersFinite DEF TypeOK
  <2>3. CASE c # b
    BY <2>1, <2>3, <1>0, <1>3, <1>4 DEF TypeOK
  <2> QED
    BY <2>2, <2>3
<1> QED
  BY <1>5, <1>6, <1>7, <1>8, <1>9 DEF BcacheInv, BuffersAccounted

\* releasesleep frees the lock, and who sleeps on it tries again.
LEMMA ReleasesleepKeeps == ASSUME BcacheInv, NEW p \in Procs, Releasesleep(p) PROVE BcacheInv'
<1>0. TypeOK /\ Listed /\ Places /\ LogBound /\ Coherent /\ BuffersAccounted
  BY DEF BcacheInv
<1>1. buf[p] \in Bufs
  BY <1>0 DEF Releasesleep, Holding, Places, Used, Locked
<1>2. \A q \in Procs : pc'[q] = IF q = p THEN "release"
                                 ELSE IF pc[q] = "asleep" /\ buf[q] = buf[p] THEN "lock" ELSE pc[q]
  BY <1>0 DEF Releasesleep, Woken
<1>3. TypeOK'
  <2>1. pc' \in [Procs -> Used \cup {"idle"}]
    BY <1>0, <1>2 DEF Releasesleep, Woken, TypeOK, Used, Locked
  <2> QED
    BY <1>0, <1>1, <2>1 DEF Releasesleep, cache, TypeOK
<1>4. (Listed /\ LogBound /\ Coherent /\ BuffersAccounted)'
  <2>1. UNCHANGED <<block, valid, refcnt, data, lru, disk, buf, pinned, latest, panicked>>
    BY DEF Releasesleep, cache
  <2>2. (Listed /\ LogBound /\ Coherent)'
    BY <1>0, <2>1 DEF Listed, LogBound, Coherent
  <2>3. (OneBufferPerBlock /\ CountsUsers /\ NeverOutOfBuffers)'
    BY <1>0, <2>1 DEF BuffersAccounted, OneBufferPerBlock, CountsUsers, NeverOutOfBuffers
  <2> QED
    BY <2>2, <2>3 DEF BuffersAccounted
<1>5. Places'
  <2>1. \A q \in Procs : pc'[q] \in Locked => q # p /\ pc[q] = pc'[q]
    BY <1>2 DEF Locked
  <2>2. \A q \in Procs : pc'[q] \in Locked => locked'[buf[q]] = q
    BY <1>0, <1>1, <2>1 DEF Releasesleep, Holding, Places, TypeOK, Locked
  <2>3. \A q \in Procs : pc'[q] \in Used <=> pc[q] \in Used
    BY <1>0, <1>2 DEF Releasesleep, Holding, Used, Locked
  <2>4. UNCHANGED <<buf, block, valid>>
    BY DEF Releasesleep, cache
  <2> QED
    BY <1>0, <2>1, <2>2, <2>3, <2>4 DEF Places, Locked
<1> QED
  BY <1>3, <1>4, <1>5 DEF BcacheInv

\* brelse counts a user less, and may move the buffer to the front of the
\* list, which keeps every buffer.
LEMMA BrelseKeeps == ASSUME BcacheInv, NEW p \in Procs, Brelse(p) PROVE BcacheInv'
<1>0. TypeOK /\ Listed /\ Places /\ LogBound /\ Coherent /\ BuffersAccounted
  BY DEF BcacheInv
<1>1. PICK b \in Bufs : b = buf[p]
  BY <1>0 DEF Brelse, Places, Used
<1>2. /\ pc[p] = "release" /\ refcnt' = [refcnt EXCEPT ![b] = @ - 1]
      /\ lru' = ToFront(b) \/ lru' = lru
      /\ pc' = [pc EXCEPT ![p] = "idle"] /\ buf' = [buf EXCEPT ![p] = None]
      /\ UNCHANGED <<block, valid, data, locked, disk, pinned, latest, panicked>>
  BY <1>1 DEF Brelse, Unused
<1>3. lru' \in [1 .. Cardinality(Bufs) -> Bufs] /\ Listed'
  <2>1. Cardinality(Bufs) \in Nat
    BY BcacheAssumption, FS_CardinalityType
  <2>2. PICK n \in 1 .. Cardinality(Bufs) : n = CHOOSE m \in DOMAIN lru : lru[m] = b
    BY <1>0 DEF Listed, TypeOK
  <2>3. lru[n] = b
    BY <1>0, <2>2 DEF Listed, TypeOK
  <2>4. CASE lru' = ToFront(b)
    <3>1. lru' = [m \in 1 .. Cardinality(Bufs) |-> IF m = 1 THEN b ELSE IF m <= n THEN lru[m - 1] ELSE lru[m]]
      BY <1>0, <2>2, <2>4 DEF ToFront, TypeOK
    <3>2. lru' \in [1 .. Cardinality(Bufs) -> Bufs]
      BY <1>0, <2>1, <3>1 DEF TypeOK
    <3>3. ASSUME NEW c \in Bufs PROVE \E m \in 1 .. Cardinality(Bufs) : lru'[m] = c
      <4>1. PICK m \in 1 .. Cardinality(Bufs) : lru[m] = c
        BY <1>0 DEF Listed
      <4>2. CASE m = n
        BY <2>1, <2>3, <3>1, <4>1, <4>2
      <4>3. CASE m < n
        <5>1. m + 1 \in 1 .. Cardinality(Bufs) /\ m + 1 # 1 /\ m + 1 <= n /\ (m + 1) - 1 = m
          BY <2>1, <4>3
        <5> QED
          BY <3>1, <4>1, <5>1
      <4>4. CASE m > n
        BY <2>1, <3>1, <4>1, <4>4
      <4> QED
        BY <2>1, <4>2, <4>3, <4>4
    <3> QED
      BY <3>2, <3>3 DEF Listed
  <2>5. CASE lru' = lru
    BY <1>0, <2>5 DEF Listed, TypeOK
  <2> QED
    BY <1>2, <2>4, <2>5
<1>4. TypeOK'
  <2>1. pc' \in [Procs -> Used \cup {"idle"}] /\ buf' \in [Procs -> Bufs \cup {None}] /\ refcnt' \in [Bufs -> Int]
    BY <1>0, <1>2 DEF TypeOK
  <2> QED
    BY <1>0, <1>2, <1>3, <2>1 DEF TypeOK
<1>5. (LogBound /\ Coherent /\ OneBufferPerBlock /\ NeverOutOfBuffers)'
  BY <1>0, <1>2 DEF LogBound, Coherent, BuffersAccounted, OneBufferPerBlock, NeverOutOfBuffers
<1>6. Places'
  <2>1. pc'[p] = "idle" /\ buf'[p] \notin Bufs
    BY <1>0, <1>2, NoneIs DEF TypeOK
  <2>2. \A q \in Procs \ {p} : pc'[q] = pc[q] /\ buf'[q] = buf[q]
    BY <1>0, <1>2 DEF TypeOK
  <2> QED
    BY <1>0, <1>2, <2>1, <2>2 DEF Places, Used, Locked
<1>7. CountsUsers'
  <2> SUFFICES ASSUME NEW c \in Bufs
               PROVE  refcnt'[c] = Cardinality(UsersOf(buf', c)) + (IF block[c] \in pinned THEN 1 ELSE 0)
    BY <1>2 DEF CountsUsers, UsersOf
  <2>1. Cardinality(UsersOf(buf', c)) = Cardinality(UsersOf(buf, c)) - (IF c = b THEN 1 ELSE 0)
    <3>1. buf'[p] = None /\ buf[p] = b /\ \A q \in Procs \ {p} : buf'[q] = buf[q]
      BY <1>0, <1>1, <1>2 DEF TypeOK
    <3>2. Cardinality(UsersOf(buf, c)) = Cardinality(UsersOf(buf', c)) + (IF c = b THEN 1 ELSE 0)
      BY <3>1, UserCounts
    <3> QED
      BY <3>2, UsersFinite
  <2>2. refcnt[c] = Cardinality(UsersOf(buf, c)) + (IF block[c] \in pinned THEN 1 ELSE 0)
    BY <1>0 DEF BuffersAccounted, CountsUsers, UsersOf
  <2>3. refcnt'[c] = refcnt[c] - (IF c = b THEN 1 ELSE 0)
    BY <1>0, <1>2 DEF TypeOK
  <2> QED
    BY <2>1, <2>2, <2>3, UsersFinite
<1> QED
  BY <1>3, <1>4, <1>5, <1>6, <1>7 DEF BcacheInv, BuffersAccounted

-----------------------------------------------------------------------------
\* After binit the cache is empty and the disk has every last value.
LEMMA InitOK == Init => BcacheInv
<1> SUFFICES ASSUME Init PROVE BcacheInv
  OBVIOUS
<1>1. TypeOK
  <2>1. lru \in [1 .. Cardinality(Bufs) -> Bufs]
    BY DEF Init, Bijection, Injection
  <2>2. data \in [Bufs -> Vals] /\ disk \in [Blocks -> Vals] /\ latest \in [Blocks -> Vals]
    BY DEF Init
  <2>3. refcnt \in [Bufs -> Int] /\ valid \in [Bufs -> {0, 1}]
    BY DEF Init
  <2> QED
    BY <2>1, <2>2, <2>3, Zenon DEF Init, TypeOK
<1>2. Listed
  BY DEF Init, Listed, Bijection, Surjection
<1>3. Places /\ Coherent
  BY NoneIs DEF Init, Places, Coherent, Used, Locked
<1>4. LogBound
  BY BcacheAssumption, FS_EmptySet DEF Init, LogBound
<1>5. OneBufferPerBlock /\ NeverOutOfBuffers
  BY DEF Init, OneBufferPerBlock, NeverOutOfBuffers
<1>6. CountsUsers
  <2> SUFFICES ASSUME NEW b \in Bufs PROVE refcnt[b] = Cardinality(UsersOf(buf, b)) + 0
    BY DEF Init, CountsUsers, UsersOf
  <2>1. UsersOf(buf, b) = {}
    BY NoneIs DEF Init, UsersOf
  <2>2. Cardinality(UsersOf(buf, b)) = 0
    BY <2>1, FS_EmptySet, Zenon
  <2> QED
    BY <2>2 DEF Init
<1> QED
  BY <1>1, <1>2, <1>3, <1>4, <1>5, <1>6 DEF BcacheInv, BuffersAccounted

\* Every step of bio.c and of its users keeps the invariant.
LEMMA BcacheStep == BcacheInv /\ [Next]_vars => BcacheInv'
<1> SUFFICES ASSUME BcacheInv, [Next]_vars PROVE BcacheInv'
  OBVIOUS
<1>1. CASE UNCHANGED vars
  <2>1. TypeOK' /\ Listed' /\ Places'
    BY <1>1 DEF vars, cache, BcacheInv, TypeOK, Listed, Places
  <2>2. LogBound' /\ Coherent'
    BY <1>1 DEF vars, cache, BcacheInv, LogBound, Coherent
  <2>3. BuffersAccounted'
    BY <1>1 DEF vars, cache, BcacheInv, BuffersAccounted, OneBufferPerBlock, CountsUsers, NeverOutOfBuffers
  <2> QED
    BY <2>1, <2>2, <2>3 DEF BcacheInv
<1>2. CASE Next
  BY <1>2, BgetHitKeeps, BgetMissKeeps, AcquiresleepKeeps, BreadKeeps, LogWriteKeeps, InstallKeeps,
     ReleasesleepKeeps, BrelseKeeps DEF Next
<1> QED
  BY <1>1, <1>2

\* The inductive invariant holds in every reachable state.
LEMMA BcacheInvariant == Spec => []BcacheInv
  BY InitOK, BcacheStep, PTL DEF Spec

\* bget keeps a block in one buffer, counts its users and its pin, and never
\* panics for want of a buffer when there is one for each process and for
\* each block of the log.
THEOREM BuffersAreAccounted == Spec => []BuffersAccounted
<1>1. BcacheInv => BuffersAccounted
  BY DEF BcacheInv
<1> QED
  BY <1>1, BcacheInvariant, PTL

\* The cache is coherent: bread, across any recycling of buffers and any
\* installation of the log, returns what was last stored in the block.
THEOREM ReadsAreLatest == Spec => []ReadsLatest
<1>1. BcacheInv => ReadsLatest
  <2> SUFFICES ASSUME BcacheInv, NEW k \in Blocks
               PROVE  latest[k] = IF \E b \in Bufs : block[b] = k /\ valid[b] = 1
                                    THEN data[CHOOSE b \in Bufs : block[b] = k]
                                    ELSE disk[k]
    BY DEF ReadsLatest
  <2>0. TypeOK /\ Coherent /\ OneBufferPerBlock
    BY DEF BcacheInv, BuffersAccounted
  <2>1. CASE \E b \in Bufs : block[b] = k /\ valid[b] = 1
    <3>1. PICK b \in Bufs : block[b] = k /\ valid[b] = 1
      BY <2>1
    <3>2. \A c \in Bufs : block[c] = k <=> c = b
      BY <2>0, <3>1, NoneIs DEF OneBufferPerBlock
    <3>3. (CHOOSE c \in Bufs : block[c] = k) = b
      BY <3>2
    <3> QED
      BY <2>0, <2>1, <3>1, <3>3 DEF Coherent
  <2>2. CASE ~ \E b \in Bufs : block[b] = k /\ valid[b] = 1
    BY <2>0, <2>2 DEF Coherent
  <2> QED
    BY <2>1, <2>2
<1> QED
  BY <1>1, BcacheInvariant, PTL

\* Nobody's buffer is recycled: until brelse, the buffer of a process has
\* the block that bget found for it, and no other process changes the data
\* while the process has the sleep lock of a valid buffer.
BufferKept ==
    \A p \in Procs : buf[p] \in Bufs =>
        /\ block'[buf[p]] = block[buf[p]]
        /\ pc[p] = "held" /\ data'[buf[p]] # data[buf[p]] => \E v \in Vals : LogWrite(p, v)

\* A step of another process keeps the block of a buffer that p uses, and
\* the data of one that p has locked.
THEOREM BuffersAreKept == Spec => [][BufferKept]_vars
<1>1. BcacheInv /\ Next => BufferKept
  <2> SUFFICES ASSUME BcacheInv, NEW q \in Procs,
                      \/ Acquiresleep(q) \/ Bread(q) \/ Install(q) \/ Releasesleep(q) \/ Brelse(q)
                      \/ \E k \in Blocks : BgetHit(q, k) \/ BgetMiss(q, k)
                      \/ \E v \in Vals : LogWrite(q, v),
                      NEW p \in Procs, buf[p] \in Bufs
               PROVE  /\ block'[buf[p]] = block[buf[p]]
                      /\ pc[p] = "held" /\ data'[buf[p]] # data[buf[p]] => \E v \in Vals : LogWrite(p, v)
    BY DEF Next, BufferKept
  <2>0. TypeOK /\ Places
    BY DEF BcacheInv
  <2>1. CASE Acquiresleep(q) \/ Install(q) \/ Releasesleep(q) \/ Brelse(q) \/ \E k \in Blocks : BgetHit(q, k)
    BY <2>1 DEF Acquiresleep, Install, Releasesleep, Brelse, BgetHit, cache
  <2>2. ASSUME NEW k \in Blocks, BgetMiss(q, k)
        PROVE  block'[buf[p]] = block[buf[p]] /\ data' = data
    <3>1. data' = data
      BY <2>2 DEF BgetMiss
    <3>2. \A n \in DOMAIN lru : Recyclable(lru[n]) => lru[n] # buf[p]
      BY <2>0, UnusedIs DEF Recyclable, TypeOK
    <3>3. block' = block \/ \E n \in DOMAIN lru : Recyclable(lru[n]) /\ block' = [block EXCEPT ![lru[n]] = k]
      BY <2>2 DEF BgetMiss
    <3> QED
      BY <2>0, <3>1, <3>2, <3>3 DEF TypeOK
  <2>3. CASE Bread(q)
    <3>1. block' = block /\ (data' = data \/ data' = [data EXCEPT ![buf[q]] = disk[block[buf[q]]]])
      BY <2>3 DEF Bread
    <3>2. pc[p] = "held" => buf[p] # buf[q]
      BY <2>0, <2>3 DEF Bread, Places, Locked
    <3> QED
      BY <2>0, <3>1, <3>2 DEF TypeOK
  <2>4. ASSUME NEW v \in Vals, LogWrite(q, v)
        PROVE  block' = block /\ (pc[p] = "held" /\ data'[buf[p]] # data[buf[p]] => p = q)
    <3>1. block' = block /\ data' = [data EXCEPT ![buf[q]] = v] /\ pc[q] = "held"
      BY <2>4 DEF LogWrite, Holding
    <3>2. pc[p] = "held" /\ p # q => buf[p] # buf[q]
      BY <2>0, <3>1 DEF Places, Locked
    <3> QED
      BY <2>0, <3>1, <3>2 DEF TypeOK
  <2> QED
    BY <2>1, <2>2, <2>3, <2>4
<1>2. BcacheInv /\ [Next]_vars => [BufferKept]_vars
  BY <1>1
<1> QED
  BY <1>2, BcacheInvariant, PTL DEF Spec
=============================================================================
