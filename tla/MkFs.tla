-------------------------------- MODULE MkFs --------------------------------
(***************************************************************************)
(* mkfs/mkfs.c, which makes the disk image that the kernel first boots     *)
(* from.  A round of iappend's loop is a step.                             *)
(*                                                                         *)
(* Disk blocks, dinodes and directory entries keep their layout, at a      *)
(* smaller size: a block holds BSIZE units, a directory entry takes two of *)
(* them (inum and name).  A unit is a tuple, the zero unit is <<>>.  Byte  *)
(* order (xint, xshort) is left out, being undone by whoever reads.        *)
(***************************************************************************)
EXTENDS Integers, Sequences, FiniteSets

CONSTANTS FSSIZE, LOGBLOCKS, NINODES, IPB, BPB, BSIZE, NDIRECT,
          Lengths,   \* how long an input file may be
          MaxFiles   \* how many there may be

SizesAssumption ==
    /\ {FSSIZE, LOGBLOCKS, NINODES, IPB, BPB, BSIZE, NDIRECT} \subseteq Nat \ {0}
    /\ BSIZE % 2 = 0 /\ Lengths \subseteq Nat

NINDIRECT == BSIZE
MAXFILE == NDIRECT + NINDIRECT
ROOTINO == 1

\* The superblock.
nbitmap == FSSIZE \div BPB + 1
ninodeblocks == NINODES \div IPB + 1
nlog == LOGBLOCKS + 1
nmeta == 2 + nlog + ninodeblocks + nbitmap
inodestart == 2 + nlog
bmapstart == 2 + nlog + ninodeblocks

VARIABLES input,       \* length of each input file
          pc, file,    \* where main is, and with which file
          pos,         \* how much of it has been read
          disk, freeinode, freeblock,
          app          \* locals of iappend: inum, din, off, units to write, where to return

vars == <<input, pc, file, pos, disk, freeinode, freeblock, app>>

ZeroBlock == [u \in 0 .. BSIZE - 1 |-> <<>>]
Dinode(type, nlink, size) == [type |-> type, nlink |-> nlink, size |-> size, addrs |-> [i \in 0 .. NDIRECT |-> 0]]
Lesser(a, b) == IF a < b THEN a ELSE b

IBLOCK(inum) == inum \div IPB + inodestart
rinode(d, inum) == d[IBLOCK(inum)][inum % IPB]
winode(d, inum, din) == [d EXCEPT ![IBLOCK(inum)] = [@ EXCEPT ![inum % IPB] = din]]

\* Unit j of input file f.
Data(f, j) == <<"data", f, j>>
\* A directory entry.
Dirent(inum, name) == <<<<"inum", inum>>, <<"name", name>>>>

\* The zeroed image.
Init ==
    /\ input \in UNION {[1 .. n -> Lengths] : n \in 0 .. MaxFiles}
    /\ pc = "root" /\ file = 0 /\ pos = 0
    /\ disk = [b \in 0 .. FSSIZE - 1 |->
                IF b \in inodestart .. bmapstart - 1 THEN [i \in 0 .. IPB - 1 |-> Dinode("none", 0, 0)]
                ELSE ZeroBlock]
    /\ freeinode = 1 /\ freeblock = nmeta
    /\ app = [inum |-> 0, din |-> Dinode("none", 0, 0), off |-> 0, units |-> <<>>, back |-> "root"]

\* iappend(inum, units), on disk d; main goes on at back.
Calls(d, inum, units, back) ==
    /\ disk' = d
    /\ app' = [inum |-> inum, din |-> rinode(d, inum), off |-> rinode(d, inum).size, units |-> units, back |-> back]
    /\ pc' = "iappend"

\* ialloc
Ialloc(type) == winode(disk, freeinode, Dinode(type, 1, 0))

-----------------------------------------------------------------------------
\* main: the root directory, with . and ..
Root ==
    /\ pc = "root"
    /\ Calls(Ialloc("dir"), freeinode, Dirent(ROOTINO, "."), "dotdot")
    /\ freeinode' = freeinode + 1
    /\ UNCHANGED <<input, file, pos, freeblock>>

Dotdot ==
    /\ pc = "dotdot"
    /\ Calls(disk, ROOTINO, Dirent(ROOTINO, ".."), "next")
    /\ UNCHANGED <<input, file, pos, freeinode, freeblock>>

\* A file: an inode, and its entry in the root.
NextFile ==
    /\ pc = "next" /\ file < Len(input)
    /\ Calls(Ialloc("file"), ROOTINO, Dirent(freeinode, file + 1), "copy")
    /\ file' = file + 1 /\ pos' = 0
    /\ freeinode' = freeinode + 1
    /\ UNCHANGED <<input, freeblock>>

\* read a block of it and append it; at its end, go on with the next.
Copy ==
    /\ pc = "copy" /\ pos < input[file]
    /\ LET cc == Lesser(BSIZE, input[file] - pos)
       IN /\ Calls(disk, freeinode - 1, [j \in 1 .. cc |-> Data(file, pos + j)], "copy")
          /\ pos' = pos + cc
    /\ UNCHANGED <<input, file, freeinode, freeblock>>

Close ==
    /\ pc = "copy" /\ pos = input[file]
    /\ pc' = "next"
    /\ UNCHANGED <<input, file, pos, disk, freeinode, freeblock, app>>

-----------------------------------------------------------------------------
\* Mutant: a block of addresses is allocated for every block it leads to.
Indirect_Fresh(din) == 0
\* The block of addresses of din, if it has one.
Indirect(din) == din.addrs[NDIRECT]

\* iappend's search for block fbn of the file: the disk, din and freeblock it
\* leaves, and the block x.
Mapped(fbn) ==
    LET din == app.din
    IN  IF fbn < NDIRECT
        THEN IF din.addrs[fbn] # 0
             THEN [disk |-> disk, din |-> din, free |-> freeblock, x |-> din.addrs[fbn]]
             ELSE [disk |-> disk, din |-> [din EXCEPT !.addrs[fbn] = freeblock], free |-> freeblock + 1,
                   x |-> freeblock]
        ELSE LET new == Indirect(din) = 0
                 ind == IF new THEN freeblock ELSE Indirect(din)
                 next == IF new THEN freeblock + 1 ELSE freeblock
                 slot == disk[ind][fbn - NDIRECT]
                 d == [din EXCEPT !.addrs[NDIRECT] = ind]
             IN  IF slot # <<>>
                 THEN [disk |-> disk, din |-> d, free |-> next, x |-> slot[2]]
                 ELSE [disk |-> [disk EXCEPT ![ind] = [@ EXCEPT ![fbn - NDIRECT] = <<"block", next>>]],
                       din |-> d, free |-> next + 1, x |-> next]

\* A round of its loop, if assert(fbn < MAXFILE) holds.  (Nothing checks that
\* the image does not outgrow FSSIZE; the inputs are such that it does not.)
AppendRound ==
    /\ pc = "iappend" /\ app.units # <<>> /\ app.off \div BSIZE < MAXFILE
    /\ LET fbn == app.off \div BSIZE
           m == Mapped(fbn)
           n1 == Lesser(Len(app.units), (fbn + 1) * BSIZE - app.off)
           at == app.off - fbn * BSIZE
       IN /\ disk' = [m.disk EXCEPT ![m.x] =
                [u \in 0 .. BSIZE - 1 |-> IF u \in at .. at + n1 - 1 THEN app.units[u - at + 1] ELSE @[u]]]
          /\ freeblock' = m.free
          /\ app' = [app EXCEPT !.din = m.din, !.off = @ + n1, !.units = SubSeq(@, n1 + 1, Len(@))]
    /\ UNCHANGED <<input, pc, file, pos, freeinode>>

Abort ==
    /\ pc = "iappend" /\ app.units # <<>> /\ app.off \div BSIZE >= MAXFILE
    /\ pc' = "abort"
    /\ UNCHANGED <<input, file, pos, disk, freeinode, freeblock, app>>

\* Its end: the size, and the inode.
Appended ==
    /\ pc = "iappend" /\ app.units = <<>>
    /\ disk' = winode(disk, app.inum, [app.din EXCEPT !.size = app.off])
    /\ pc' = app.back
    /\ UNCHANGED <<input, file, pos, freeinode, freeblock, app>>

-----------------------------------------------------------------------------
\* The bits that balloc sets.
Taken(used) == 0 .. used - 1

\* The end of main: the size of the root, in whole blocks, and the bitmap, if
\* balloc's assertion holds.
Finish ==
    /\ pc = "next" /\ file = Len(input)
    /\ LET din == rinode(disk, ROOTINO)
           d == winode(disk, ROOTINO, [din EXCEPT !.size = (@ \div BSIZE + 1) * BSIZE])
       IN disk' = IF freeblock < BPB THEN [d EXCEPT ![bmapstart] = Taken(freeblock)] ELSE d
    /\ pc' = IF freeblock < BPB THEN "done" ELSE "abort"
    /\ UNCHANGED <<input, file, pos, freeinode, freeblock, app>>

Next == Root \/ Dotdot \/ NextFile \/ Copy \/ Close \/ AppendRound \/ Abort \/ Appended \/ Finish

Spec == Init /\ [][Next]_vars

-----------------------------------------------------------------------------
\* The image as the kernel reads it: the block that addrs leads to for block
\* fbn of inode i, 0 if there is none; and all blocks that i refers to.
BlockOf(i, fbn) ==
    LET addrs == rinode(disk, i).addrs
    IN  IF fbn < NDIRECT THEN addrs[fbn]
        ELSE IF addrs[NDIRECT] = 0 \/ disk[addrs[NDIRECT]][fbn - NDIRECT] = <<>> THEN 0
        ELSE disk[addrs[NDIRECT]][fbn - NDIRECT][2]
Refs(i) == {<<i, f>> : f \in {f \in 0 .. MAXFILE - 1 : BlockOf(i, f) # 0}} \cup
           {<<i, -1>> : z \in {z \in {0} : rinode(disk, i).addrs[NDIRECT] # 0}}
RefBlock(ref) == IF ref[2] = -1 THEN rinode(disk, ref[1]).addrs[NDIRECT] ELSE BlockOf(ref[1], ref[2])
Contents(i) ==
    [u \in 0 .. rinode(disk, i).size - 1 |->
        LET b == BlockOf(i, u \div BSIZE) IN IF b = 0 THEN <<>> ELSE disk[b][u % BSIZE]]

\* The image that mkfs leaves is one the kernel can start from: no block
\* belongs to two files or to a file and the metadata, the bitmap marks the
\* blocks in use and no other, the root lists every file, and every file has
\* the contents of the input.
ImageConsistent ==
    pc = "done" =>
        LET inodes == 1 .. Len(input) + 1
            refs == UNION {Refs(i) : i \in inodes}
            root == Contents(ROOTINO)
        IN /\ \A r, s \in refs : RefBlock(r) = RefBlock(s) => r = s
           /\ {RefBlock(r) : r \in refs} = nmeta .. freeblock - 1
           /\ disk[bmapstart] = 0 .. freeblock - 1
           /\ \A f \in 1 .. Len(input) :
                /\ Contents(f + 1) = [u \in 0 .. input[f] - 1 |-> Data(f, u + 1)]
                /\ root[2 * f + 2] = <<"inum", f + 1>> /\ root[2 * f + 3] = <<"name", f>>
           /\ \A u \in DOMAIN root : u >= 2 * Len(input) + 4 => root[u] = <<>>
           /\ \A i \in 1 .. NINODES - 1 : (rinode(disk, i).type # "none") = (i \in inodes)
=============================================================================
