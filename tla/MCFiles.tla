------------------------------ MODULE MCFiles -------------------------------
(***************************************************************************)
(* Files on disk for TLC: inodes and directories (Inode), and the blocks   *)
(* of files (FileBlocks).  They share no variable, so that each is         *)
(* explored with the other at rest.  Unit "flat" has files in the root,    *)
(* unit "tree" directories.  Unit "blocks" has writes of few bytes by      *)
(* processes that interleave, unit "large" writes of a whole file by one   *)
(* process at a time.                                                      *)
(***************************************************************************)
EXTENDS Inode

CONSTANTS Files, Vals, Sizes, NBLOCKS, NDIRECT, BSIZE, MAXOPBLOCKS   \* FileBlocks

VARIABLES unit, used, blk, addrs, size, lock, text, blocks_pc, w, logged, blocks_panicked

blocks == <<used, blk, addrs, size, lock, text, blocks_pc, w, logged, blocks_panicked>>
files == <<unit, vars, blocks>>

B == INSTANCE FileBlocks WITH pc <- blocks_pc, panicked <- blocks_panicked

ASSUME B!BlockAssumption

AtRoot(op, names) == [op |-> op, abs |-> TRUE, path |-> names, new |-> <<>>, type |-> "file"]
Mkdir(names) == [op |-> "mkdir", abs |-> TRUE, path |-> names, new |-> <<>>, type |-> "dir"]
LinkCall(old, new) == [op |-> "link", abs |-> TRUE, path |-> old, new |-> new, type |-> "file"]

\* Files named a and b in the root directory.
FlatCalls ==
    {AtRoot("open", <<"a">>), AtRoot("create", <<"a">>), AtRoot("unlink", <<"a">>),
     LinkCall(<<"a">>, <<"b">>), LinkCall(<<"a">>, <<"a", "b">>)}

\* One process links at a time: the other opens, creates or unlinks.
OneLink == \A p, q \in {r \in Procs : call'[r] # None} : call'[p].op = "link" /\ call'[q].op = "link" => p = q

\* A directory a, and a directory b in it or in the current directory.
TreeCalls ==
    {Mkdir(<<"a">>), Mkdir(<<"a", "b">>), AtRoot("unlink", <<"a">>), AtRoot("unlink", <<"a", "b">>),
     AtRoot("chdir", <<"a", "b">>), [Mkdir(<<"b">>) EXCEPT !.abs = FALSE]}

AllCalls == FlatCalls \cup TreeCalls

\* Small writes take two chunks of filewrite at most, from the start of a
\* file or appended to it, and start with most of the disk free; large ones
\* reach the last indirect block, and the end of the disk.
Starts(p) == blocks_pc[p] = "user" /\ blocks_pc'[p] = "chunk"
SmallWrites ==
    \A p \in Procs : Starts(p) =>
        LET x == w'[p]
        IN  x.n <= BSIZE + 1 /\ x.off \in {0, size[x.file]} /\ x.off + x.n <= 2 * BSIZE + 2 /\ Cardinality(used) <= 2
LargeWrites ==
    /\ \A p \in Procs : Starts(p) => w'[p].n > BSIZE + 1
    /\ \A p, q \in Procs : blocks_pc'[p] # "user" /\ blocks_pc'[q] # "user" => p = q

FilesInit == unit \in {"flat", "tree", "blocks", "large"} /\ Init /\ B!Init

FilesNext ==
    \/ unit = "flat" /\ Next /\ (\A p \in Procs : call'[p] \in FlatCalls \cup {None}) /\ OneLink /\ UNCHANGED <<unit, blocks>>
    \/ unit = "tree" /\ Next /\ (\A p \in Procs : call'[p] \in TreeCalls \cup {None}) /\ UNCHANGED <<unit, blocks>>
    \/ unit = "blocks" /\ B!Next /\ SmallWrites /\ UNCHANGED <<unit, vars>>
    \/ unit = "large" /\ B!Next /\ LargeWrites /\ UNCHANGED <<unit, vars>>

FilesSpec == FilesInit /\ [][FilesNext]_files

\* Processes are interchangeable, and the files they write.
Symmetry == Permutations(Procs) \cup Permutations(Files)

\* What distinguishes states: of the unit that runs, and of a block in use,
\* as balloc zeroes what free blocks contain.
View ==
    IF unit \in {"flat", "tree"} THEN <<unit, vars>>
    ELSE <<unit, used, [b \in used |-> blk[b]], addrs, size, lock, text, blocks_pc, w, logged, blocks_panicked>>

-----------------------------------------------------------------------------
\* iget, idup and iput count the pointers to an inode and the system calls
\* its names: ref and nlink are right, no name leads to a free inode, and
\* none of the panics over them is reached.  Directories may be removed while
\* another process is about to create something in them: they stay a tree.
InodesAccounted ==
    /\ CountsPointers /\ TableCoherent /\ NeverPanics
    /\ IF unit = "tree" THEN OneParent ELSE LinksCounted /\ NamesAllocated
\* Every block that balloc has marked has one place in one file, and a file
\* reads back as writei stored it, indirect blocks included (FileBlocks).
ContentsKept == unit \in {"blocks", "large"} => B!BlocksOwned /\ B!ReadsBack
\* A chunk of filewrite logs no more than the MAXOPBLOCKS blocks that begin_op
\* has reserved for it (FileBlocks).
LogFits == unit \in {"blocks", "large"} => B!LogFits
=============================================================================
