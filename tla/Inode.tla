------------------------------- MODULE Inode -------------------------------
(***************************************************************************)
(* Inodes, directories and the calls that change them: the inode table and *)
(* ialloc, iget, ilock, iput, ireclaim, dirlookup, dirlink and namex of    *)
(* kernel/fs.c; link, unlink, open, mkdir and chdir of kernel/sysfile.c.   *)
(*                                                                         *)
(* A step goes from one place where another process may take or release    *)
(* a lock that matters to the next: it is a critical section of            *)
(* itable.lock, or what a process does under a sleep-lock.  An inode that  *)
(* is locked and unlocked in one step is not seen locked.  The content of  *)
(* a file is left out; the content of a directory is its entries.  Disk    *)
(* inodes are seen through the log, so that a crash between calls keeps    *)
(* them (module Log).                                                      *)
(***************************************************************************)
EXTENDS Integers, FiniteSets, Sequences, TLC

CONSTANTS Procs,
          NINODES,   \* sb.ninodes - 1, the inodes of the disk
          NINODE,    \* entries of the inode table
          Calls,     \* the system calls: [op, abs, path, new]
          Crashes,   \* whether the machine may crash
          None

\* With as many slots as inodes, iget does not panic for want of a slot.
ASSUME InodeAssumption == NINODES \in Nat \ {0} /\ NINODE \in Nat /\ NINODE >= NINODES /\ Crashes \in BOOLEAN

Inums == 1 .. NINODES
Root == 1
Slots == 1 .. NINODE

VARIABLES dinode,   \* inodes on disk: type ("free", "file" or "dir") and nlink
          ents,     \* entries of each directory: a function from names to inodes
          itable,   \* slots: inum, ref, valid, type, nlink, and who holds ip->lock
          cwd, held,              \* slots of each process: directory, open file
          pc, call, path,         \* its place, its call, what namex has left of the path
          ip, dp, name,           \* local variables
          puts, phase,            \* slots to pass to iput, and how far iput is
          panicked                \* what a panic said, or None

disk == <<dinode, ents>>
local == <<call, path, ip, dp, name>>
vars == <<disk, itable, cwd, held, pc, local, puts, phase, panicked>>

-----------------------------------------------------------------------------
\* The inode table.

\* The slot that iget(i) returns: the one of inode i, or the first free one.
SlotOf(tab, i) ==
    LET hits == {s \in Slots : tab[s].ref > 0 /\ tab[s].inum = i}
        free == {s \in Slots : tab[s].ref = 0}
    IN  IF hits # {} THEN CHOOSE s \in hits : \A r \in hits : s <= r
        ELSE CHOOSE s \in free : \A r \in free : s <= r

\* A slot recycled for inode i.
Recycled(e, i) == [e EXCEPT !.inum = i, !.ref = 1, !.valid = FALSE]

\* A slot found for its inode: ip->ref++.
Found(e) == [e EXCEPT !.ref = @ + 1]

\* The table after iget(i).
Iget(tab, i) == [tab EXCEPT ![SlotOf(tab, i)] = IF @.ref > 0 THEN Found(@) ELSE Recycled(@, i)]

\* ilock's contents of slot s: read from disk unless valid.
Loaded(s) ==
    LET i == itable[s].inum
    IN  IF itable[s].valid THEN itable[s]
        ELSE [itable[s] EXCEPT !.valid = TRUE, !.type = dinode[i].type, !.nlink = dinode[i].nlink]

\* acquiresleep(&ip->lock) can go on.
Unlocked(s) == itable[s].lock = None

\* ilock(s) goes on, and does not panic.
Ilock(s) == Unlocked(s) /\ itable[s].ref >= 1 /\ Loaded(s).type # "free"

\* iupdate after the fields of e were changed.
Iupdate(d, e) == [d EXCEPT ![e.inum] = [type |-> e.type, nlink |-> e.nlink]]

-----------------------------------------------------------------------------
\* The entries of a new directory.
DirEnts(self, parent) == (("." :> self) @@ (".." :> parent))

FreeSlot == [inum |-> Root, ref |-> 0, valid |-> FALSE, type |-> "free", nlink |-> 0, lock |-> None]

\* A fresh disk, mkfs's root directory, and every process in it.
Init ==
    /\ dinode = [i \in Inums |-> IF i = Root THEN [type |-> "dir", nlink |-> 1] ELSE [type |-> "free", nlink |-> 0]]
    /\ ents = [i \in Inums |-> IF i = Root THEN DirEnts(Root, Root) ELSE <<>>]
    /\ itable = [s \in Slots |-> IF s = 1 THEN [FreeSlot EXCEPT !.ref = Cardinality(Procs)] ELSE FreeSlot]
    /\ cwd = [p \in Procs |-> 1] /\ held = [p \in Procs |-> None]
    /\ pc = [p \in Procs |-> "user"] /\ call = [p \in Procs |-> None]
    /\ path = [p \in Procs |-> <<>>] /\ name = [p \in Procs |-> None]
    /\ ip = [p \in Procs |-> None] /\ dp = [p \in Procs |-> None]
    /\ puts = [p \in Procs |-> <<>>] /\ phase = [p \in Procs |-> "check"]
    /\ panicked = None

\* Process p at place l, with no iput to finish.
At(p, l) == pc[p] = l /\ puts[p] = <<>> /\ panicked = None
Go(p, l) == pc' = [pc EXCEPT ![p] = l]
Puts(p, q) == puts' = [puts EXCEPT ![p] = q]

\* p returns to user space, after iput of the slots in q.
Return(p, q) ==
    /\ Go(p, "user") /\ Puts(p, q)
    /\ call' = [call EXCEPT ![p] = None] /\ path' = [path EXCEPT ![p] = <<>>]
    /\ name' = [name EXCEPT ![p] = None]
    /\ ip' = [ip EXCEPT ![p] = None] /\ dp' = [dp EXCEPT ![p] = None]

-----------------------------------------------------------------------------
\* iput(s) is for the last reference to an inode without links.
Last(s) == itable[s].ref = 1 /\ itable[s].valid /\ itable[s].nlink = 0

\* Its first critical section locks such an inode, which must not make it
\* sleep with itable.lock held, and drops any other reference.
IputCheck(p) ==
    LET s == puts[p][1]
    IN  /\ puts[p] # <<>> /\ phase[p] = "check" /\ panicked = None
        /\ IF Last(s)
            THEN /\ itable' = [itable EXCEPT ![s].lock = p]
                 /\ phase' = [phase EXCEPT ![p] = "free"]
                 /\ panicked' = IF Unlocked(s) THEN None ELSE "sched locks"
                 /\ UNCHANGED puts
            ELSE /\ itable' = [itable EXCEPT ![s].ref = @ - 1]
                 /\ Puts(p, Tail(puts[p]))
                 /\ UNCHANGED <<phase, panicked>>
        /\ UNCHANGED <<disk, cwd, held, pc, local>>

\* The slot after ip->type = 0, ip->valid = 0 and releasesleep.
Freed(e) == [e EXCEPT !.type = "free", !.valid = FALSE, !.lock = None]

\* Under ip->lock: itrunc, ip->type = 0, iupdate, ip->valid = 0.
IputFree(p) ==
    LET s == puts[p][1]
    IN  /\ puts[p] # <<>> /\ phase[p] = "free" /\ panicked = None
        /\ itable' = [itable EXCEPT ![s] = Freed(@)]
        /\ dinode' = Iupdate(dinode, [itable[s] EXCEPT !.type = "free"])
        /\ ents' = [ents EXCEPT ![itable[s].inum] = <<>>]
        /\ phase' = [phase EXCEPT ![p] = "drop"]
        /\ UNCHANGED <<cwd, held, pc, local, puts, panicked>>

\* The last critical section: ip->ref--.
IputDrop(p) ==
    LET s == puts[p][1]
    IN  /\ puts[p] # <<>> /\ phase[p] = "drop" /\ panicked = None
        /\ itable' = [itable EXCEPT ![s].ref = @ - 1]
        /\ phase' = [phase EXCEPT ![p] = "check"]
        /\ Puts(p, Tail(puts[p]))
        /\ UNCHANGED <<disk, cwd, held, pc, local, panicked>>

-----------------------------------------------------------------------------
\* namex: it starts at the root or at the current directory.
Walk(p, l, abs, names) ==
    /\ path' = [path EXCEPT ![p] = names]
    /\ Go(p, l)
    /\ IF abs
        THEN /\ itable' = Iget(itable, Root)
             /\ dp' = [dp EXCEPT ![p] = SlotOf(itable, Root)]
        ELSE /\ itable' = [itable EXCEPT ![cwd[p]].ref = @ + 1]
             /\ dp' = [dp EXCEPT ![p] = cwd[p]]

Begin(p, c) ==
    /\ At(p, "user")
    /\ c.op \in {"open", "create"} => held[p] = None
    /\ call' = [call EXCEPT ![p] = c]
    /\ Walk(p, "walk", c.abs, c.path)
    /\ UNCHANGED <<disk, cwd, held, ip, name, puts, phase, panicked>>

Walking(p) == At(p, "walk") \/ At(p, "walk2")

\* namei is wanted for the first path of these calls, nameiparent otherwise.
WantsParent(p) == pc[p] = "walk2" \/ call[p].op \in {"create", "mkdir", "unlink"}

\* Where the call goes on when namex returns dp.
Continue(p) == Go(p, IF pc[p] = "walk2" THEN "link2" ELSE call[p].op)

\* namex returns 0, after iput(dp).
WalkFails(p) ==
    IF pc[p] = "walk2"
        THEN /\ Go(p, "linkbad") /\ Puts(p, <<dp[p]>>)
             /\ dp' = [dp EXCEPT ![p] = None]
             /\ UNCHANGED <<call, path, ip, name>>
        ELSE Return(p, <<dp[p]>>)

\* The path is used up.
WalkEnd(p) ==
    /\ Walking(p) /\ path[p] = <<>>
    /\ IF WantsParent(p)
        THEN WalkFails(p)
        ELSE /\ Continue(p)
             /\ ip' = [ip EXCEPT ![p] = dp[p]] /\ dp' = [dp EXCEPT ![p] = None]
             /\ UNCHANGED <<call, path, name, puts>>
    /\ UNCHANGED <<disk, itable, cwd, held, phase, panicked>>

\* One round of namex's loop, from ilock to iunlock.
WalkStep(p) ==
    LET s == dp[p]
        i == itable[s].inum
        n == path[p][1]
        table == [itable EXCEPT ![s] = Loaded(s)]
    IN  /\ Walking(p) /\ path[p] # <<>> /\ Ilock(s)
        /\ UNCHANGED <<disk, cwd, held, phase, panicked>>
        /\ \/ Loaded(s).type # "dir" /\ itable' = table /\ WalkFails(p)
           \/ /\ Loaded(s).type = "dir" /\ WantsParent(p) /\ Len(path[p]) = 1
              /\ itable' = table /\ Continue(p)
              /\ name' = [name EXCEPT ![p] = n] /\ path' = [path EXCEPT ![p] = <<>>]
              /\ UNCHANGED <<call, ip, dp, puts>>
           \/ /\ Loaded(s).type = "dir" /\ ~(WantsParent(p) /\ Len(path[p]) = 1)
              /\ n \notin DOMAIN ents[i]
              /\ itable' = table /\ WalkFails(p)
           \/ /\ Loaded(s).type = "dir" /\ ~(WantsParent(p) /\ Len(path[p]) = 1)
              /\ n \in DOMAIN ents[i]
              /\ itable' = Iget(table, ents[i][n])
              /\ dp' = [dp EXCEPT ![p] = SlotOf(table, ents[i][n])]
              /\ path' = [path EXCEPT ![p] = Tail(@)]
              /\ Puts(p, <<s>>)
              /\ UNCHANGED <<pc, call, ip, name>>

-----------------------------------------------------------------------------
\* sys_open without O_CREATE, from ilock: the file is opened, or filealloc or
\* fdalloc fails.
OpenInode(p) ==
    LET s == ip[p]
    IN  /\ At(p, "open") /\ Ilock(s)
        /\ itable' = [itable EXCEPT ![s] = Loaded(s)]
        /\ \/ held' = [held EXCEPT ![p] = s] /\ Return(p, <<>>)
           \/ UNCHANGED held /\ Return(p, <<s>>)
        /\ UNCHANGED <<disk, cwd, phase, panicked>>

\* sys_close, when the file has no other reference: fileclose's iput.
Close(p) ==
    /\ At(p, "user") /\ held[p] # None
    /\ Puts(p, <<held[p]>>)
    /\ held' = [held EXCEPT ![p] = None]
    /\ UNCHANGED <<disk, itable, cwd, pc, local, phase, panicked>>

\* sys_chdir, from ilock.
Chdir(p) ==
    LET s == ip[p]
    IN  /\ At(p, "chdir") /\ Ilock(s)
        /\ itable' = [itable EXCEPT ![s] = Loaded(s)]
        /\ IF Loaded(s).type = "dir"
            THEN cwd' = [cwd EXCEPT ![p] = s] /\ Return(p, <<cwd[p]>>)
            ELSE UNCHANGED cwd /\ Return(p, <<s>>)
        /\ UNCHANGED <<disk, held, phase, panicked>>

-----------------------------------------------------------------------------
Locked(e, p) == [e EXCEPT !.lock = p]

\* An allocated inode is found free on the disk by ialloc: the first one.
FreeInums == {i \in Inums : dinode[i].type = "free"}
Ialloc == CHOOSE i \in FreeInums : \A j \in FreeInums : i <= j

\* create, from ilock(dp) to ilock(ip) of an inode that exists or is new.
Create(p) ==
    LET s == dp[p]
        d == itable[s].inum
        found == name[p] \in DOMAIN ents[d]
        i == IF found THEN ents[d][name[p]] ELSE Ialloc
        table == [itable EXCEPT ![s] = IF found THEN Loaded(s) ELSE Locked(Loaded(s), p)]
    IN  /\ At(p, "create") \/ At(p, "mkdir")
        /\ Ilock(s)
        /\ IF found \/ FreeInums # {}
            THEN /\ itable' = Iget(table, i)
                 /\ ip' = [ip EXCEPT ![p] = SlotOf(table, i)]
                 /\ Go(p, IF found THEN "exists" ELSE "new")
                 /\ dinode' = IF found THEN dinode ELSE [dinode EXCEPT ![i] = [type |-> call[p].type, nlink |-> 0]]
                 /\ IF found THEN Puts(p, <<s>>) /\ dp' = [dp EXCEPT ![p] = None] ELSE UNCHANGED <<puts, dp>>
                 /\ UNCHANGED <<call, path, name>>
            ELSE /\ itable' = [itable EXCEPT ![s] = Loaded(s)]
                 /\ Return(p, <<s>>)
                 /\ UNCHANGED dinode
        /\ UNCHANGED <<ents, cwd, held, phase, panicked>>

\* create finds the name: it returns a file to sys_open, and nothing else.
CreateExists(p) ==
    LET s == ip[p]
    IN  /\ At(p, "exists") /\ Ilock(s)
        /\ itable' = [itable EXCEPT ![s] = Loaded(s)]
        /\ IF call[p].op = "create" /\ Loaded(s).type = "file"
            THEN held' = [held EXCEPT ![p] = s] /\ Return(p, <<>>)
            ELSE UNCHANGED held /\ Return(p, <<s>>)
        /\ UNCHANGED <<disk, cwd, phase, panicked>>

\* dp->nlink++ for the ".." of a new directory.
ParentLinks(e, type) == IF type = "dir" THEN [e EXCEPT !.nlink = @ + 1] ELSE e

\* create makes the new inode, under both locks: its link count, a
\* directory's two entries, the entry in dp and dp's link count.
CreateNew(p) ==
    LET s == ip[p]
        i == itable[s].inum
        d == itable[dp[p]].inum
        e == [Loaded(s) EXCEPT !.nlink = 1]
        parent == ParentLinks(itable[dp[p]], e.type)
    IN  /\ At(p, "new") /\ Ilock(s)
        /\ itable' = [itable EXCEPT ![s] = Locked(e, p), ![dp[p]] = Locked(parent, None)]
        /\ dinode' = Iupdate(Iupdate(dinode, e), parent)
        /\ ents' = [ents EXCEPT ![d] = (name[p] :> i) @@ @,
                                ![i] = IF e.type = "dir" THEN DirEnts(i, d) ELSE @]
        /\ Puts(p, <<dp[p]>>)
        /\ dp' = [dp EXCEPT ![p] = None]
        /\ Go(p, "created")
        /\ UNCHANGED <<cwd, held, call, path, ip, name, phase, panicked>>

\* One of its dirlinks finds no disk block: ip->nlink = 0, iunlockput(ip).
CreateFails(p) ==
    LET s == ip[p]
        e == [Loaded(s) EXCEPT !.nlink = 0]
    IN  /\ At(p, "new") /\ Ilock(s)
        /\ itable' = [itable EXCEPT ![s] = e]
        /\ dinode' = Iupdate(dinode, e)
        /\ Puts(p, <<s>>)
        /\ ip' = [ip EXCEPT ![p] = None]
        /\ Go(p, "putdp")
        /\ UNCHANGED <<ents, cwd, held, call, path, dp, name, phase, panicked>>

\* sys_open returns with the new file, sys_mkdir without.
Created(p) ==
    LET s == ip[p]
    IN  /\ At(p, "created")
        /\ itable' = [itable EXCEPT ![s].lock = None]
        /\ IF call[p].op = "create"
            THEN held' = [held EXCEPT ![p] = s] /\ Return(p, <<>>)
            ELSE UNCHANGED held /\ Return(p, <<s>>)
        /\ UNCHANGED <<disk, cwd, phase, panicked>>

\* iunlockput(dp) at the end of a failed create or unlink.
PutDp(p) ==
    /\ At(p, "putdp")
    /\ itable' = [itable EXCEPT ![dp[p]].lock = None]
    /\ Return(p, <<dp[p]>>)
    /\ UNCHANGED <<disk, cwd, held, phase, panicked>>

-----------------------------------------------------------------------------
\* sys_unlink, from ilock(dp) to ilock(ip).
Unlink(p) ==
    LET s == dp[p]
        d == itable[s].inum
        ok == name[p] \notin {".", ".."} /\ name[p] \in DOMAIN ents[d]
        table == [itable EXCEPT ![s] = Locked(Loaded(s), p)]
    IN  /\ At(p, "unlink") /\ Ilock(s)
        /\ IF ok
            THEN /\ itable' = Iget(table, ents[d][name[p]])
                 /\ ip' = [ip EXCEPT ![p] = SlotOf(table, ents[d][name[p]])]
                 /\ Go(p, "unlink2")
                 /\ UNCHANGED <<call, path, dp, name, puts>>
            ELSE itable' = [itable EXCEPT ![s] = Loaded(s)] /\ Return(p, <<s>>)
        /\ UNCHANGED <<disk, cwd, held, phase, panicked>>

\* isdirempty
IsDirEmpty(i) == DOMAIN ents[i] \subseteq {".", ".."}

\* Under dp's lock and ip's: the entry goes, or ip is a directory in use.
Unlink2(p) ==
    LET s == ip[p]
        e == Loaded(s)
        d == itable[dp[p]].inum
        isdir == e.type = "dir"
        parent == IF isdir THEN [itable[dp[p]] EXCEPT !.nlink = @ - 1] ELSE itable[dp[p]]
    IN  /\ At(p, "unlink2") /\ Ilock(s)
        /\ IF isdir /\ ~IsDirEmpty(e.inum)
            THEN /\ itable' = [itable EXCEPT ![s] = e]
                 /\ Puts(p, <<s>>) /\ ip' = [ip EXCEPT ![p] = None]
                 /\ Go(p, "putdp")
                 /\ UNCHANGED <<disk, dp>>
            ELSE /\ itable' = [itable EXCEPT ![s] = Locked(e, p), ![dp[p]] = Locked(parent, None)]
                 /\ dinode' = Iupdate(dinode, parent)
                 /\ ents' = [ents EXCEPT ![d] = [n \in DOMAIN @ \ {name[p]} |-> @[n]]]
                 /\ Puts(p, <<dp[p]>>) /\ dp' = [dp EXCEPT ![p] = None]
                 /\ Go(p, "unlink3")
                 /\ UNCHANGED ip
        /\ panicked' = IF e.nlink < 1 THEN "unlink: nlink < 1" ELSE None
        /\ UNCHANGED <<cwd, held, call, path, name, phase>>

\* ip->nlink--, iunlockput(ip)
Unlink3(p) ==
    LET s == ip[p]
        e == [itable[s] EXCEPT !.nlink = @ - 1, !.lock = None]
    IN  /\ At(p, "unlink3")
        /\ itable' = [itable EXCEPT ![s] = e]
        /\ dinode' = Iupdate(dinode, e)
        /\ Return(p, <<s>>)
        /\ UNCHANGED <<ents, cwd, held, phase, panicked>>

-----------------------------------------------------------------------------
\* sys_link adds to the link count of the old file, and looks for the place
\* of the new name.
Link(p) ==
    LET s == ip[p]
        e == [Loaded(s) EXCEPT !.nlink = @ + 1]
    IN  /\ At(p, "link") /\ Ilock(s)
        /\ IF e.type = "dir"
            THEN /\ itable' = [itable EXCEPT ![s] = Loaded(s)]
                 /\ Return(p, <<s>>)
                 /\ UNCHANGED dinode
            ELSE /\ itable' = [itable EXCEPT ![s] = e]
                 /\ dinode' = Iupdate(dinode, e)
                 /\ Go(p, "link1")
                 /\ UNCHANGED <<call, path, ip, dp, name, puts>>
        /\ UNCHANGED <<ents, cwd, held, phase, panicked>>

LinkWalk(p) ==
    /\ At(p, "link1")
    /\ Walk(p, "walk2", call[p].abs, call[p].new)
    /\ UNCHANGED <<disk, cwd, held, call, ip, name, puts, phase, panicked>>

\* dirlink makes the entry.
LinkEntry(p) ==
    LET s == dp[p]
        d == itable[s].inum
    IN  /\ At(p, "link2") /\ Ilock(s) /\ name[p] \notin DOMAIN ents[d]
        /\ itable' = [itable EXCEPT ![s] = Loaded(s)]
        /\ ents' = [ents EXCEPT ![d] = (name[p] :> itable[ip[p]].inum) @@ @]
        /\ Return(p, <<s, ip[p]>>)
        /\ UNCHANGED <<dinode, cwd, held, phase, panicked>>

\* dirlink finds no disk block, or the name taken: then it has iget and iput
\* the inode of that name before dp is unlocked.
LinkFails(p) ==
    LET s == dp[p]
        d == itable[s].inum
        table == [itable EXCEPT ![s] = Locked(Loaded(s), p)]
    IN  /\ At(p, "link2") /\ Ilock(s)
        /\ IF name[p] \in DOMAIN ents[d]
            THEN /\ itable' = Iget(table, ents[d][name[p]])
                 /\ Puts(p, <<SlotOf(table, ents[d][name[p]])>>)
            ELSE itable' = table /\ UNCHANGED puts
        /\ Go(p, "link3")
        /\ UNCHANGED <<disk, cwd, held, local, phase, panicked>>

LinkUnlock(p) ==
    /\ At(p, "link3")
    /\ itable' = [itable EXCEPT ![dp[p]].lock = None]
    /\ Puts(p, <<dp[p]>>) /\ dp' = [dp EXCEPT ![p] = None]
    /\ Go(p, "linkbad")
    /\ UNCHANGED <<disk, cwd, held, call, path, ip, name, phase, panicked>>

\* Mutant: the link is not taken back.
LinkUndone_Not(e) == e
\* ip->nlink--
LinkUndone(e) == [e EXCEPT !.nlink = @ - 1]

\* bad: the link count is taken back.
LinkBad(p) ==
    LET s == ip[p]
        e == LinkUndone(Loaded(s))
    IN  /\ At(p, "linkbad") /\ Ilock(s)
        /\ itable' = [itable EXCEPT ![s] = e]
        /\ dinode' = Iupdate(dinode, e)
        /\ Return(p, <<s>>)
        /\ UNCHANGED <<ents, cwd, held, phase, panicked>>

-----------------------------------------------------------------------------
\* The inode that p is about to ilock.
Wanted(p) == IF pc[p] \in {"open", "chdir", "exists", "new", "unlink2", "link", "linkbad"} THEN ip[p] ELSE dp[p]

\* ilock panics: no reference, or a free inode ("ilock: no type").
IlockPanics(p) ==
    /\ puts[p] = <<>> /\ panicked = None
    /\ pc[p] \notin {"user", "created", "putdp", "unlink3", "link1", "link3"}
    /\ ~(pc[p] \in {"walk", "walk2"} /\ path[p] = <<>>)
    /\ Unlocked(Wanted(p)) /\ ~Ilock(Wanted(p))
    /\ panicked' = IF itable[Wanted(p)].ref < 1 THEN "ilock" ELSE "ilock: no type"
    /\ UNCHANGED <<disk, itable, cwd, held, pc, local, puts, phase>>

\* Mutant: ireclaim misses inodes with no links.
Orphan_Linked(i) == dinode[i].type # "free" /\ dinode[i].nlink < 0
\* What ireclaim looks for.
Orphan(i) == dinode[i].type # "free" /\ dinode[i].nlink = 0

\* A crash between two calls, and fsinit: memory is lost, and ireclaim frees
\* the inodes that nothing links to.
Crash ==
    /\ Crashes /\ \A p \in Procs : At(p, "user")
    /\ dinode' = [i \in Inums |-> IF Orphan(i) THEN [dinode[i] EXCEPT !.type = "free"] ELSE dinode[i]]
    /\ ents' = [i \in Inums |-> IF Orphan(i) THEN <<>> ELSE ents[i]]
    /\ itable' = [s \in Slots |-> IF s = 1 THEN [FreeSlot EXCEPT !.ref = Cardinality(Procs)] ELSE FreeSlot]
    /\ cwd' = [p \in Procs |-> 1] /\ held' = [p \in Procs |-> None]
    /\ UNCHANGED <<pc, local, puts, phase, panicked>>

\* The machine has stopped.
Halted == panicked # None /\ UNCHANGED vars

Next ==
    \/ \E p \in Procs :
        \/ \E c \in Calls : Begin(p, c)
        \/ IputCheck(p) \/ IputFree(p) \/ IputDrop(p)
        \/ WalkEnd(p) \/ WalkStep(p) \/ OpenInode(p) \/ Close(p) \/ Chdir(p)
        \/ Create(p) \/ CreateExists(p) \/ CreateNew(p) \/ CreateFails(p) \/ Created(p) \/ PutDp(p)
        \/ Unlink(p) \/ Unlink2(p) \/ Unlink3(p)
        \/ Link(p) \/ LinkWalk(p) \/ LinkEntry(p) \/ LinkFails(p) \/ LinkUnlock(p) \/ LinkBad(p)
        \/ IlockPanics(p)
    \/ Crash \/ Halted

Spec == Init /\ [][Next]_vars

-----------------------------------------------------------------------------
\* ip->ref is the number of pointers to the slot.
CountsPointers ==
    \A s \in Slots :
        itable[s].ref = Cardinality({p \in Procs : cwd[p] = s}) + Cardinality({p \in Procs : held[p] = s})
                      + Cardinality({p \in Procs : ip[p] = s}) + Cardinality({p \in Procs : dp[p] = s})
                      + Cardinality({x \in Procs \X (1 .. 2) : x[2] \in DOMAIN puts[x[1]] /\ puts[x[1]][x[2]] = s})

\* No process is in a call.
Quiet == \A p \in Procs : pc[p] = "user" /\ puts[p] = <<>>

\* Names that lead to inode i: entries of directories, other than "." and
\* the root's "..".
NamesOf(i) ==
    {x \in (Inums \X {"..", "a", "b"}) : x[2] \in DOMAIN ents[x[1]] /\ ents[x[1]][x[2]] = i /\ x # <<Root, "..">>}

\* Between calls, nlink is the number of names of the inode (the root has
\* one more, which no unlink can take).
LinksCounted ==
    Quiet => \A i \in Inums : dinode[i].type # "free" =>
        dinode[i].nlink = Cardinality(NamesOf(i)) + IF i = Root THEN 1 ELSE 0

\* After a restart there are no orphans, whatever was open and unlinked.
ReclaimedAtBoot == [][Crash => \A i \in Inums : dinode'[i].type # "free" => dinode'[i].nlink > 0]_vars

\* Every name leads to an inode that is allocated.
NamesAllocated == \A i \in Inums : NamesOf(i) # {} => dinode[i].type # "free"

\* No panic: iput's acquiresleep never blocks, ilock never finds a free
\* inode, and unlink never finds an inode without links.
NeverPanics == panicked = None

\* An inode is in one slot, and a valid slot says what the disk says.
TableCoherent ==
    /\ \A s, r \in Slots : itable[s].ref > 0 /\ itable[r].ref > 0 /\ itable[s].inum = itable[r].inum => s = r
    /\ \A s \in Slots : itable[s].ref > 0 /\ itable[s].valid =>
            /\ itable[s].type = dinode[itable[s].inum].type
            /\ itable[s].nlink = dinode[itable[s].inum].nlink

\* A directory that has a name has one, and its ".." leads to where it is.
OneParent ==
    \A i, j \in Inums : \A n, m \in {"a", "b"} :
        LET named(k, l) == l \in DOMAIN ents[k] /\ dinode[ents[k][l]].type = "dir"
        IN  /\ named(i, n) => ents[ents[i][n]][".."] = i
            /\ named(i, n) /\ named(j, m) /\ ents[i][n] = ents[j][m] => <<i, n>> = <<j, m>>
=============================================================================
