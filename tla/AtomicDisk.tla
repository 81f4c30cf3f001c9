----------------------------- MODULE AtomicDisk -----------------------------
(***************************************************************************)
(* What kernel/log.c promises to the file system: system calls between     *)
(* begin_op and end_op write blocks in memory, and after a crash the disk  *)
(* holds what memory held at some moment when no such call was under way.  *)
(* No call is ever half on the disk.                                       *)
(***************************************************************************)
CONSTANTS Blocks, Vals, Procs

VARIABLES mem,     \* what a read of each block returns
          disk,    \* what it would return after a crash and recovery
          active   \* processes between begin_op and end_op

avars == <<mem, disk, active>>

AInit ==
    /\ disk \in [Blocks -> Vals]
    /\ mem = disk
    /\ active = {}

ABegin(p) == active' = active \cup {p} /\ UNCHANGED <<mem, disk>>

AWrite(p, b, v) ==
    /\ p \in active
    /\ mem' = [mem EXCEPT ![b] = v]
    /\ UNCHANGED <<disk, active>>

AEnd(p) == active' = active \ {p} /\ UNCHANGED <<mem, disk>>

\* The commit of every call that has ended, none being under way.
ACommit ==
    /\ active = {}
    /\ disk' = mem
    /\ UNCHANGED <<mem, active>>

ACrash ==
    /\ mem' = disk
    /\ active' = {}
    /\ UNCHANGED disk

ANext ==
    \/ \E p \in Procs : ABegin(p) \/ AEnd(p)
    \/ \E p \in Procs, b \in Blocks, v \in Vals : AWrite(p, b, v)
    \/ ACommit
    \/ ACrash

ASpec == AInit /\ [][ANext]_avars
=============================================================================
