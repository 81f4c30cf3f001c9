----------------------------- MODULE FileTable -----------------------------
(***************************************************************************)
(* The table of open files (kernel/file.c) and the descriptors of the      *)
(* processes (kernel/sysfile.c, pipealloc in kernel/pipe.c, and what fork  *)
(* and exit do to descriptors in kernel/proc.c).                           *)
(*                                                                         *)
(* A critical section of ftable.lock is one step.  Descriptors are private *)
(* to their process, so that what a process does to its own between two    *)
(* critical sections goes with one of them.  Inodes and pipes are what is  *)
(* counted of them here: the references to an inode, the open ends of a    *)
(* pipe.                                                                   *)
(***************************************************************************)
EXTENDS Integers, FiniteSets, Sequences, TLC

CONSTANTS NPROC, NFILE, NOFILE, Inodes, Pipes, None

SizeAssumption == {NPROC, NFILE, NOFILE} \subseteq Nat \ {0}

Procs == 0 .. NPROC - 1      \* 0 is initproc
Files == 0 .. NFILE - 1
FDs == 0 .. NOFILE - 1

VARIABLES ref, file,   \* ftable: f->ref, and f->type with what it refers to
          ofile,       \* p->ofile: the open descriptors and their files
          iref,        \* references to each inode
          ends,        \* open ends of each pipe, of "r" and "w"; {} when freed
          pc, child, fdno,   \* each process: its place; the child it forks, and the loop
          hand, ip,    \* files and inode it holds in local variables
          closing,     \* files it is about to pass to fileclose
          ff,          \* fileclose's copy of the file it closes for good
          panicked

table == <<ref, file>>
local == <<child, fdno, hand, ip>>
vars == <<table, ofile, iref, ends, pc, local, closing, ff, panicked>>

Untyped == [type |-> "none", obj |-> None, end |-> None]
InodeFile(i) == [type |-> "inode", obj |-> i, end |-> None]
PipeFile(k, e) == [type |-> "pipe", obj |-> k, end |-> e]

-----------------------------------------------------------------------------
Init ==
    /\ ref = [f \in Files |-> 0] /\ file = [f \in Files |-> Untyped]
    /\ ofile = [p \in Procs |-> <<>>]
    /\ iref = [i \in Inodes |-> 0] /\ ends = [k \in Pipes |-> {}]
    /\ pc = [p \in Procs |-> IF p = 0 THEN "user" ELSE "unused"]
    /\ child = [p \in Procs |-> None] /\ fdno = [p \in Procs |-> 0]
    /\ hand = [p \in Procs |-> <<>>] /\ ip = [p \in Procs |-> None]
    /\ closing = [p \in Procs |-> <<>>] /\ ff = [p \in Procs |-> None]
    /\ panicked = FALSE

\* A process at place l, with no fileclose under way.
At(p, l) == pc[p] = l /\ closing[p] = <<>> /\ ff[p] = None /\ ~panicked

Go(p, l) == pc' = [pc EXCEPT ![p] = l]

\* filealloc: the first file without references, or None.
FreeFile ==
    IF \E f \in Files : ref[f] = 0
        THEN CHOOSE f \in Files : ref[f] = 0 /\ \A g \in Files : ref[g] = 0 => f <= g
        ELSE None

\* NOFILE, the size of p->ofile.
FdLimit == NOFILE

\* fdalloc: the first closed descriptor, or None.
Fd(open) ==
    LET closed == (0 .. FdLimit - 1) \ DOMAIN open
    IN  IF closed = {} THEN None ELSE CHOOSE d \in closed : \A e \in closed : d <= e

\* p->ofile with f at the descriptor fdalloc gives it.
Fdalloc(open, f) == (Fd(open) :> f) @@ open

Without(open, d) == [e \in DOMAIN open \ {d} |-> open[e]]

-----------------------------------------------------------------------------
\* filedup's f->ref++
Filedup(r, f) == [r EXCEPT ![f] = @ + 1]

\* What fileclose leaves in a file it closes: f->type = FD_NONE.
FreedFile(f) == Untyped

\* fileclose, under ftable.lock.
FileClose(p) ==
    LET f == closing[p][1]
    IN  /\ closing[p] # <<>> /\ ff[p] = None /\ ~panicked
        /\ closing' = [closing EXCEPT ![p] = Tail(@)]
        /\ panicked' = (ref[f] < 1)
        /\ ref' = [ref EXCEPT ![f] = @ - 1]
        /\ IF ref[f] > 1
            THEN UNCHANGED <<file, ff>>
            ELSE /\ file' = [file EXCEPT ![f] = FreedFile(f)]
                 /\ ff' = [ff EXCEPT ![p] = file[f]]
        /\ UNCHANGED <<ofile, iref, ends, pc, local>>

\* Mutant: the other end is closed.
ClosedEnd_Other(c) == IF c.end = "r" THEN "w" ELSE "r"
\* The end that pipeclose(ff.pipe, ff.writable) closes.
ClosedEnd(c) == c.end

\* The rest of fileclose: pipeclose, iput, or nothing.
CloseObject(p) ==
    LET c == ff[p]
    IN  /\ c # None /\ ~panicked
        /\ ff' = [ff EXCEPT ![p] = None]
        /\ ends' = [k \in Pipes |-> IF c.type = "pipe" /\ c.obj = k THEN ends[k] \ {ClosedEnd(c)} ELSE ends[k]]
        /\ iref' = [i \in Inodes |-> IF c.type = "inode" /\ c.obj = i THEN iref[i] - 1 ELSE iref[i]]
        /\ UNCHANGED <<table, ofile, pc, local, closing, panicked>>

-----------------------------------------------------------------------------
\* sys_open: namei or create returns an inode, with a reference.
Open(p, i) ==
    /\ At(p, "user")
    /\ ip' = [ip EXCEPT ![p] = i]
    /\ iref' = [iref EXCEPT ![i] = @ + 1]
    /\ Go(p, "open")
    /\ UNCHANGED <<table, ofile, ends, child, fdno, hand, closing, ff, panicked>>

\* sys_open: filealloc and fdalloc succeed, and the file is set up.
OpenFile(p) ==
    LET f == FreeFile
    IN  /\ At(p, "open") /\ f # None /\ Fd(ofile[p]) # None
        /\ ref' = [ref EXCEPT ![f] = 1]
        /\ file' = [file EXCEPT ![f] = InodeFile(ip[p])]
        /\ ofile' = [ofile EXCEPT ![p] = Fdalloc(@, f)]
        /\ ip' = [ip EXCEPT ![p] = None]
        /\ Go(p, "user")
        /\ UNCHANGED <<iref, ends, child, fdno, hand, closing, ff, panicked>>

\* sys_open: one of them fails; a file already allocated is closed.
OpenFails(p) ==
    LET f == FreeFile
    IN  /\ At(p, "open") /\ (f = None \/ Fd(ofile[p]) = None)
        /\ IF f = None
            THEN UNCHANGED <<ref, closing>>
            ELSE ref' = [ref EXCEPT ![f] = 1] /\ closing' = [closing EXCEPT ![p] = <<f>>]
        /\ Go(p, "openput")
        /\ UNCHANGED <<file, ofile, iref, ends, local, ff, panicked>>

\* sys_open fails: iunlockput(ip).
OpenPut(p) ==
    /\ At(p, "openput")
    /\ iref' = [iref EXCEPT ![ip[p]] = @ - 1]
    /\ ip' = [ip EXCEPT ![p] = None]
    /\ Go(p, "user")
    /\ UNCHANGED <<table, ofile, ends, child, fdno, hand, closing, ff, panicked>>

-----------------------------------------------------------------------------
\* pipealloc: one of its two calls of filealloc; when it fails, what was
\* allocated is closed.
PipeFilealloc(p) ==
    LET f == FreeFile
    IN  /\ At(p, "user") \/ At(p, "pipe1")
        /\ IF f = None
            THEN /\ closing' = [closing EXCEPT ![p] = hand[p]]
                 /\ hand' = [hand EXCEPT ![p] = <<>>]
                 /\ Go(p, "user")
                 /\ UNCHANGED ref
            ELSE /\ ref' = [ref EXCEPT ![f] = 1]
                 /\ hand' = [hand EXCEPT ![p] = Append(@, f)]
                 /\ Go(p, IF hand[p] = <<>> THEN "pipe1" ELSE "pipe2")
                 /\ UNCHANGED closing
        /\ UNCHANGED <<file, ofile, iref, ends, child, fdno, ip, ff, panicked>>

\* pipealloc: kalloc, and the files are set up; or kalloc fails.
PipeKalloc(p) ==
    /\ At(p, "pipe2")
    /\ \/ \E k \in Pipes :
            /\ ends[k] = {}
            /\ ends' = [ends EXCEPT ![k] = {"r", "w"}]
            /\ file' = [file EXCEPT ![hand[p][1]] = PipeFile(k, "r"), ![hand[p][2]] = PipeFile(k, "w")]
            /\ Go(p, "pipe3")
            /\ UNCHANGED <<hand, closing>>
       \/ /\ closing' = [closing EXCEPT ![p] = hand[p]]
          /\ hand' = [hand EXCEPT ![p] = <<>>]
          /\ Go(p, "user")
          /\ UNCHANGED <<ends, file>>
    /\ UNCHANGED <<ref, ofile, iref, child, fdno, ip, ff, panicked>>

\* sys_pipe: two descriptors and copyout; whichever fails, p->ofile is
\* put back and the files are closed.
PipeFds(p) ==
    LET one == Fdalloc(ofile[p], hand[p][1])
    IN  /\ At(p, "pipe3")
        /\ \/ /\ Fd(ofile[p]) # None /\ Fd(one) # None
              /\ ofile' = [ofile EXCEPT ![p] = Fdalloc(one, hand[p][2])]
              /\ UNCHANGED closing
           \/ closing' = [closing EXCEPT ![p] = hand[p]] /\ UNCHANGED ofile
        /\ hand' = [hand EXCEPT ![p] = <<>>]
        /\ Go(p, "user")
        /\ UNCHANGED <<table, iref, ends, child, fdno, ip, ff, panicked>>

-----------------------------------------------------------------------------
\* sys_dup
Dup(p, d) ==
    /\ At(p, "user") /\ d \in DOMAIN ofile[p] /\ Fd(ofile[p]) # None
    /\ panicked' = (ref[ofile[p][d]] < 1)
    /\ ofile' = [ofile EXCEPT ![p] = Fdalloc(@, ofile[p][d])]
    /\ ref' = Filedup(ref, ofile[p][d])
    /\ UNCHANGED <<file, iref, ends, pc, local, closing, ff>>

\* sys_close, and one round of kexit's loop.
Close(p, d) ==
    /\ d \in DOMAIN ofile[p]
    /\ At(p, "user") \/ (At(p, "exit") /\ \A e \in DOMAIN ofile[p] : d <= e)
    /\ ofile' = [ofile EXCEPT ![p] = Without(@, d)]
    /\ closing' = [closing EXCEPT ![p] = <<ofile[p][d]>>]
    /\ UNCHANGED <<table, iref, ends, pc, local, ff, panicked>>

\* sys_read, sys_write: fileread and filewrite panic for a file without type.
Use(p, d) ==
    /\ At(p, "user") /\ d \in DOMAIN ofile[p]
    /\ panicked' = (file[ofile[p][d]].type = "none")
    /\ UNCHANGED <<table, ofile, iref, ends, pc, local, closing, ff>>

\* kfork, up to the loop over the descriptors.
Fork(p, c) ==
    /\ At(p, "user") /\ pc[c] = "unused"
    /\ pc' = [pc EXCEPT ![p] = "fork", ![c] = "used"]
    /\ child' = [child EXCEPT ![p] = c]
    /\ UNCHANGED <<table, ofile, iref, ends, fdno, hand, ip, closing, ff, panicked>>

\* One round of that loop, and after the last the child is runnable.
ForkDup(p) ==
    LET d == fdno[p]
        c == child[p]
        open == d \in DOMAIN ofile[p]
    IN  /\ At(p, "fork")
        /\ IF open
            THEN /\ panicked' = (ref[ofile[p][d]] < 1)
                 /\ ref' = Filedup(ref, ofile[p][d])
                 /\ ofile' = [ofile EXCEPT ![c] = (d :> ofile[p][d]) @@ @]
            ELSE UNCHANGED <<panicked, ref, ofile>>
        /\ IF d + 1 < NOFILE
            THEN fdno' = [fdno EXCEPT ![p] = d + 1] /\ UNCHANGED <<pc, child>>
            ELSE /\ fdno' = [fdno EXCEPT ![p] = 0]
                 /\ child' = [child EXCEPT ![p] = None]
                 /\ pc' = [pc EXCEPT ![p] = "user", ![c] = "user"]
        /\ UNCHANGED <<file, iref, ends, hand, ip, closing, ff>>

\* kexit
Exit(p) ==
    /\ At(p, "user") /\ p # 0
    /\ Go(p, "exit")
    /\ UNCHANGED <<table, ofile, iref, ends, local, closing, ff, panicked>>

\* Its loop has closed every descriptor; the process becomes a zombie and is
\* reaped.
Exited(p) ==
    /\ At(p, "exit") /\ ofile[p] = <<>>
    /\ Go(p, "unused")
    /\ UNCHANGED <<table, ofile, iref, ends, local, closing, ff, panicked>>

-----------------------------------------------------------------------------
Next ==
    \E p \in Procs :
        \/ FileClose(p) \/ CloseObject(p)
        \/ \E i \in Inodes : Open(p, i)
        \/ OpenFile(p) \/ OpenFails(p) \/ OpenPut(p)
        \/ PipeFilealloc(p) \/ PipeKalloc(p) \/ PipeFds(p)
        \/ \E d \in FDs : Dup(p, d) \/ Close(p, d) \/ Use(p, d)
        \/ \E c \in Procs : Fork(p, c)
        \/ ForkDup(p) \/ Exit(p) \/ Exited(p)

Spec == Init /\ [][Next]_vars

-----------------------------------------------------------------------------
\* f->ref is the number of descriptors and local variables that hold f, at
\* every step of open, pipe, dup, close, fork and exit: filedup and fileclose
\* never panic, and neither do fileread and filewrite.
CountsHolders ==
    /\ ~panicked
    /\ \A f \in Files :
        ref[f] = Cardinality({x \in Procs \X FDs : x[2] \in DOMAIN ofile[x[1]] /\ ofile[x[1]][x[2]] = f})
               + Cardinality({x \in Procs \X (1 .. 2) : x[2] \in DOMAIN hand[x[1]] /\ hand[x[1]][x[2]] = f})
               + Cardinality({x \in Procs \X (1 .. 2) : x[2] \in DOMAIN closing[x[1]] /\ closing[x[1]][x[2]] = f})

\* How many files and pending closes are r.
Referring(r) == Cardinality({f \in Files : file[f] = r}) + Cardinality({p \in Procs : ff[p] = r})

\* An inode has one reference for each file on it, each close of one that has
\* not come to iput, and each open that has not come to filealloc: iput is
\* called once for each reference, whatever fails.
InodeReferences ==
    \A i \in Inodes :
        iref[i] = Referring(InodeFile(i)) + Cardinality({p \in Procs : ip[p] = i})

\* An end of a pipe is open while one file refers to it, and is closed once.
PipeEnds ==
    \A k \in Pipes, e \in {"r", "w"} :
        Referring(PipeFile(k, e)) = IF e \in ends[k] THEN 1 ELSE 0
=============================================================================
