----------------------------- MODULE FileBlocks -----------------------------
(***************************************************************************)
(* The blocks of files: balloc, bfree, bmap, itrunc, readi and writei of   *)
(* kernel/fs.c, and the loop of filewrite (kernel/file.c) that splits a    *)
(* write into transactions of the log.                                     *)
(*                                                                         *)
(* Processes write to and truncate files under the lock of the inode, and  *)
(* share the bitmap.  A round of writei's loop is a step, so that the      *)
(* rounds of processes on different files interleave.  A block is an array *)
(* of BSIZE words, read as the bytes of a file or as block numbers.        *)
(***************************************************************************)
EXTENDS Integers, FiniteSets

CONSTANTS Procs, Files, Vals, Sizes,   \* bytes a process may write at once
          NBLOCKS, NDIRECT, BSIZE, MAXOPBLOCKS, None

BlockAssumption ==
    /\ {NBLOCKS, NDIRECT, BSIZE, MAXOPBLOCKS} \subseteq Nat \ {0}
    /\ MAXOPBLOCKS >= 6
    /\ Vals \subseteq 1 .. NBLOCKS

Blocks == 1 .. NBLOCKS       \* 0 is no block
NINDIRECT == BSIZE
MAXFILE == NDIRECT + NINDIRECT
Bytes == 0 .. MAXFILE * BSIZE - 1

VARIABLES used,      \* the bitmap
          blk,       \* contents of the blocks
          addrs,     \* ip->addrs
          size,      \* ip->size
          lock,      \* who holds ip->lock
          text,      \* what was written to each byte of a file
          pc, w,     \* each process: its place and its write
          logged,    \* what it has passed to log_write in this transaction
          panicked

vars == <<used, blk, addrs, size, lock, text, pc, w, logged, panicked>>

BITMAP == 0    \* the block of the bitmap and that of the inode, in the log
INODE == -1

Zero == [i \in 0 .. BSIZE - 1 |-> 0]
LeastOf(S) == CHOOSE x \in S : \A y \in S : x <= y
Lesser(a, b) == IF a < b THEN a ELSE b

-----------------------------------------------------------------------------
\* bmap works on what it may change: the bitmap, the blocks, the addrs a of
\* the inode and the log; got is what it returns.

\* bzero
Zeroed(b, f) == Zero

\* balloc
Balloc(st) ==
    LET free == Blocks \ st.used
        b == LeastOf(free)
    IN  IF free = {} THEN [st EXCEPT !.got = 0]
        ELSE [st EXCEPT !.used = @ \cup {b}, !.blk = [@ EXCEPT ![b] = Zeroed(st.blk, b)],
                        !.log = @ \cup {BITMAP, b}, !.got = b]

\* The block at index n of ip->addrs, allocated if there is none.
Direct(st, n) ==
    IF st.a[n] # 0 THEN [st EXCEPT !.got = st.a[n]]
    ELSE LET r == Balloc(st) IN [r EXCEPT !.a = [@ EXCEPT ![n] = r.got]]

\* The block at index k of the indirect block st.got.
Indirect(st, k) ==
    LET x == st.got
        r == Balloc(st)
    IN  IF st.blk[x][k] # 0 THEN [st EXCEPT !.got = st.blk[x][k]]
        ELSE IF r.got = 0 THEN r
        ELSE [r EXCEPT !.blk = [@ EXCEPT ![x][k] = r.got], !.log = @ \cup {x}]

\* bmap
Bmap(st, bn) ==
    IF bn < NDIRECT THEN Direct(st, bn)
    ELSE LET r == Direct(st, NDIRECT)
         IN  IF r.got = 0 THEN r ELSE Indirect(r, bn - NDIRECT)

\* What bmap finds without allocating: the block of byte o, or 0.
BlockOf(f, o) ==
    LET bn == o \div BSIZE
        ind == addrs[f][NDIRECT]
    IN  IF bn < NDIRECT THEN addrs[f][bn] ELSE IF ind = 0 THEN 0 ELSE blk[ind][bn - NDIRECT]

-----------------------------------------------------------------------------
Idle == [file |-> None, off |-> 0, n |-> 0, n1 |-> 0, tot |-> 0, v |-> 0]

Init ==
    /\ used = {} /\ blk = [b \in Blocks |-> Zero]
    /\ addrs = [f \in Files |-> [i \in 0 .. NDIRECT |-> 0]]
    /\ size = [f \in Files |-> 0] /\ lock = [f \in Files |-> None]
    /\ text = [f \in Files |-> [o \in Bytes |-> 0]]
    /\ pc = [p \in Procs |-> "user"] /\ w = [p \in Procs |-> Idle]
    /\ logged = [p \in Procs |-> {}]
    /\ panicked = FALSE

Go(p, l) == pc' = [pc EXCEPT ![p] = l]

\* filewrite of n bytes v to file f, whose offset is off.
Write(p, f, off, n, v) ==
    /\ pc[p] = "user" /\ ~panicked
    /\ w' = [w EXCEPT ![p] = [Idle EXCEPT !.file = f, !.off = off, !.n = n, !.v = v]]
    /\ Go(p, "chunk")
    /\ UNCHANGED <<used, blk, addrs, size, lock, text, logged, panicked>>

\* Mutant: as many blocks as an operation may write.
MaxChunk_All == MAXOPBLOCKS * BSIZE
\* filewrite's max
MaxChunk == ((MAXOPBLOCKS - 1 - 1 - 2) \div 2) * BSIZE

\* writei's second check.
TooBig(end) == end > MAXFILE * BSIZE

\* begin_op, ilock, and writei's checks.  A failed check ends the write.
Chunk(p) ==
    LET f == w[p].file
        n1 == Lesser(w[p].n, MaxChunk)
    IN  /\ pc[p] = "chunk" /\ lock[f] = None /\ ~panicked
        /\ IF w[p].off > size[f] \/ TooBig(w[p].off + n1)
            THEN /\ Go(p, "user") /\ w' = [w EXCEPT ![p] = Idle]
                 /\ UNCHANGED lock
            ELSE /\ Go(p, "loop") /\ w' = [w EXCEPT ![p].n1 = n1, ![p].tot = 0]
                 /\ lock' = [lock EXCEPT ![f] = p]
        /\ UNCHANGED <<used, blk, addrs, size, text, logged, panicked>>

\* The bytes of block contents c, from o of the file on, that k bytes v fill.
Filled(c, o, k, v) == [i \in DOMAIN c |-> IF i \in (o % BSIZE) .. (o % BSIZE) + k - 1 THEN v ELSE c[i]]

\* A round of writei's loop.  bmap may find no block, and either_copyin may
\* fail after some of the bytes: the loop ends.
WriteBlock(p) ==
    LET f == w[p].file
        o == w[p].off + w[p].tot
        m == Lesser(w[p].n1 - w[p].tot, BSIZE - (o % BSIZE))
        st == Bmap([used |-> used, blk |-> blk, a |-> addrs[f], log |-> logged[p], got |-> 0], o \div BSIZE)
    IN  /\ pc[p] = "loop" /\ w[p].tot < w[p].n1 /\ ~panicked
        /\ used' = st.used /\ addrs' = [addrs EXCEPT ![f] = st.a]
        /\ IF st.got = 0
            THEN /\ blk' = st.blk /\ logged' = [logged EXCEPT ![p] = st.log]
                 /\ Go(p, "end")
                 /\ UNCHANGED <<text, w>>
            ELSE \E k \in 0 .. m :
                 /\ blk' = [st.blk EXCEPT ![st.got] = Filled(@, o, k, w[p].v)]
                 /\ text' = [text EXCEPT ![f] = [i \in Bytes |-> IF i \in o .. o + k - 1 THEN w[p].v ELSE @[i]]]
                 /\ logged' = [logged EXCEPT ![p] = st.log \cup {st.got}]
                 /\ IF k = m
                     THEN w' = [w EXCEPT ![p].tot = @ + m] /\ UNCHANGED pc
                     ELSE Go(p, "end") /\ UNCHANGED w
        /\ panicked' = (o \div BSIZE >= MAXFILE)   \* bmap: out of range
        /\ UNCHANGED <<size, lock>>

\* Mutant: the size is always set.
NewSize_Always(s, o) == o
\* if (off > ip->size) ip->size = off
NewSize(s, o) == IF o > s THEN o ELSE s

\* The end of writei and of a round of filewrite's loop: size, iupdate,
\* iunlock, end_op.
WriteEnd(p) ==
    LET f == w[p].file
        o == w[p].off + w[p].tot
        full == w[p].tot = w[p].n1
        left == w[p].n - w[p].tot
    IN  /\ (pc[p] = "loop" /\ full) \/ pc[p] = "end"
        /\ ~panicked
        /\ size' = [size EXCEPT ![f] = NewSize(@, o)]
        /\ text' = [text EXCEPT ![f] = [i \in Bytes |-> IF i < size[f] \/ i < o THEN @[i] ELSE 0]]
        /\ lock' = [lock EXCEPT ![f] = None]
        /\ logged' = [logged EXCEPT ![p] = {}]
        /\ IF full /\ left > 0
            THEN Go(p, "chunk") /\ w' = [w EXCEPT ![p].off = o, ![p].n = left, ![p].n1 = 0, ![p].tot = 0]
            ELSE Go(p, "user") /\ w' = [w EXCEPT ![p] = Idle]
        /\ UNCHANGED <<used, blk, addrs, panicked>>

\* Blocks that itrunc frees.
Owned(f) ==
    LET ind == addrs[f][NDIRECT]
    IN  ({addrs[f][i] : i \in 0 .. NDIRECT} \cup (IF ind = 0 THEN {} ELSE {blk[ind][k] : k \in 0 .. NINDIRECT - 1})) \ {0}

\* itrunc; bfree panics for a block that is free.
Truncate(p, f) ==
    /\ pc[p] = "user" /\ lock[f] = None /\ ~panicked
    /\ panicked' = ~(Owned(f) \subseteq used)
    /\ used' = used \ Owned(f)
    /\ addrs' = [addrs EXCEPT ![f] = [i \in 0 .. NDIRECT |-> 0]]
    /\ size' = [size EXCEPT ![f] = 0]
    /\ text' = [text EXCEPT ![f] = [o \in Bytes |-> 0]]
    /\ UNCHANGED <<blk, lock, pc, w, logged>>

Next ==
    \E p \in Procs :
        \/ \E f \in Files, n \in Sizes, v \in Vals : \E off \in {0, 1, size[f]} : Write(p, f, off, n, v)
        \/ Chunk(p) \/ WriteBlock(p) \/ WriteEnd(p)
        \/ \E f \in Files : Truncate(p, f)

Spec == Init /\ [][Next]_vars

-----------------------------------------------------------------------------
\* Places that hold a block number, for a file: indices of addrs, and of the
\* indirect block.
Places(f) == {<<0, i>> : i \in 0 .. NDIRECT} \cup {<<1, k>> : k \in IF addrs[f][NDIRECT] = 0 THEN {} ELSE 0 .. NINDIRECT - 1}
At(f, x) == IF x[1] = 0 THEN addrs[f][x[2]] ELSE blk[addrs[f][NDIRECT]][x[2]]

\* The bitmap has exactly the blocks of files, and a block has one place in
\* one file: bfree never frees a free block, and bmap stays in range.
BlocksOwned ==
    LET held == UNION {{<<f, x>> : x \in {y \in Places(f) : At(f, y) # 0}} : f \in Files}
    IN  /\ ~panicked
        /\ {At(h[1], h[2]) : h \in held} = used
        /\ Cardinality(held) = Cardinality(used)

\* A file that nobody writes reads as what was written to it: its size covers
\* the bytes written, readi finds a block for each of them, and in it the
\* last byte written there.
ReadsBack ==
    \A f \in Files : lock[f] = None => \A o \in Bytes :
        /\ o < size[f] <=> text[f][o] # 0
        /\ o < size[f] => BlockOf(f, o) # 0 /\ blk[BlockOf(f, o)][o % BSIZE] = text[f][o]

\* A transaction of filewrite logs at most MAXOPBLOCKS blocks, the inode's
\* included, which is what begin_op has reserved.
LogFits == \A p \in Procs : pc[p] \in {"loop", "end"} => Cardinality(logged[p] \cup {INODE}) <= MAXOPBLOCKS
=============================================================================
