-------------------------------- MODULE Log --------------------------------
(***************************************************************************)
(* The write-ahead log of kernel/log.c, with the part of the buffer cache  *)
(* it relies on (bpin keeps a logged block in memory until it is home) and *)
(* a disk that may lose power at any moment.                               *)
(*                                                                         *)
(* A step is one critical section of log.lock or one block written to the  *)
(* disk.  A block being written when power fails may be torn; the header   *)
(* is not, its 124 bytes lie in one sector.                                *)
(***************************************************************************)
EXTENDS Integers, Sequences, FiniteSets

CONSTANTS Blocks,       \* block numbers outside the log
          Vals,         \* contents of a block
          Procs,        \* processes that make file system calls
          Syncers,      \* those that call sys_sync
          MAXOPBLOCKS,  \* space begin_op reserves for one call
          LOGBLOCKS,    \* size of the log
          OpBlocks,     \* bound: distinct blocks a call writes
          OpWrites,     \* bound: times a call calls log_write
          NotCached,    \* the block has no buffer
          Torn,         \* contents of a block half written
          MaxOps,       \* bound: calls of each process
          MaxCrashes    \* bound: power failures

ASSUME SizesAssumption ==
    /\ MAXOPBLOCKS \in Nat \ {0} /\ LOGBLOCKS \in Nat
    /\ OpBlocks \in Nat /\ OpWrites \in Nat
    /\ MaxOps \in Nat /\ MaxCrashes \in Nat
\* A call keeps to its reservation: it logs fewer blocks than MAXOPBLOCKS, or
\* calls log_write that often at most.
ASSUME CallsAssumption == IsFiniteSet(Procs) /\ (OpBlocks < MAXOPBLOCKS \/ OpWrites <= MAXOPBLOCKS)
ASSUME ValsAssumption == Vals # {} /\ NotCached \notin Vals /\ Torn \notin Vals /\ NotCached # Torn

VARIABLES
    home, logd, head,                    \* disk: home blocks, log blocks, header
    cache, pins,                         \* buffers, and the pins of bpin
    lh, outstanding, committing, ncommit, \* struct log
    pc, tail, syncn,                     \* locals of each process
    boot, btail,                         \* recover_from_log: where it is
    panicked,
    wrote, calls, left, crashes,         \* the blocks and log_writes of a call; the bounds
    unsaved, need                        \* history: see SyncDurable

disk == <<home, logd, head>>
bufs == <<cache, pins>>
log == <<lh, outstanding, committing, ncommit>>
locals == <<pc, tail, syncn>>
recovery == <<boot, btail>>
work == <<wrote, calls, left, crashes>>
history == <<unsaved, need>>
vars == <<disk, bufs, log, locals, recovery, panicked, work, history>>

Logged == {lh[i] : i \in 1 .. Len(lh)}

\* Mutant: sys_sync sleeps on a channel of its own.
Wakeup_BeginOnly(f) == [p \in Procs |-> IF f[p] = "begin_sleep" THEN "begin" ELSE f[p]]
\* wakeup(&log): begin_op and sys_sync look again.
Wakeup(f) ==
    [p \in Procs |-> CASE f[p] = "begin_sleep" -> "begin"
                       [] f[p] = "sync_sleep" -> "sync"
                       [] OTHER -> f[p]]

\* Mutant: no space is reserved for the call that starts.
CanBegin_NoSelf(n, running, commit) == commit = 0 /\ n + running * MAXOPBLOCKS <= LOGBLOCKS
\* begin_op's test: no commit under way, and space for every running call.
CanBegin(n, running, commit) == commit = 0 /\ n + (running + 1) * MAXOPBLOCKS <= LOGBLOCKS

-----------------------------------------------------------------------------
\* A clean disk after initlog, and nothing in memory.
Init ==
    /\ home \in [Blocks -> Vals]
    /\ logd \in [1 .. LOGBLOCKS -> {Torn}]
    /\ head = <<>>
    /\ cache = [b \in Blocks |-> NotCached]
    /\ pins = [b \in Blocks |-> 0]
    /\ lh = <<>> /\ outstanding = 0 /\ committing = 0 /\ ncommit = 0
    /\ pc = [p \in Procs |-> "idle"]
    /\ tail = [p \in Procs |-> 0]
    /\ syncn = [p \in Procs |-> 0]
    /\ boot = "up" /\ btail = 0
    /\ panicked = FALSE
    /\ wrote = [p \in Procs |-> {}]
    /\ calls = [p \in Procs |-> 0]
    /\ left = [p \in Procs |-> MaxOps]
    /\ crashes = 0
    /\ unsaved = {}
    /\ need = [p \in Procs |-> {}]

\* begin_op, from its call or from its sleep to the next sleep or return.
BeginOp(p) ==
    /\ pc[p] \in {"idle", "begin"} /\ left[p] > 0
    /\ \/ /\ CanBegin(Len(lh), outstanding, committing)
          /\ outstanding' = outstanding + 1
          /\ pc' = [pc EXCEPT ![p] = "op"]
          /\ wrote' = [wrote EXCEPT ![p] = {}]
          /\ calls' = [calls EXCEPT ![p] = 0]
          /\ left' = [left EXCEPT ![p] = @ - 1]
       \/ /\ ~CanBegin(Len(lh), outstanding, committing)
          /\ pc' = [pc EXCEPT ![p] = "begin_sleep"]
          /\ UNCHANGED <<outstanding, wrote, calls, left>>
    /\ UNCHANGED <<disk, bufs, lh, committing, ncommit, tail, syncn, recovery, panicked, crashes, history>>

\* Mutant: log_write does not pin the buffer.
Pinned_Not(b) == pins
\* bpin.
Pinned(b) == [pins EXCEPT ![b] = @ + 1]

\* Log absorption: the block is in the transaction already.
Absorbed(b) == b \in Logged

\* A call changes a buffer and calls log_write.
LogWrite(p, b, v) ==
    /\ pc[p] = "op"
    /\ Cardinality(wrote[p] \cup {b}) <= OpBlocks /\ calls[p] < OpWrites
    /\ IF Len(lh) >= LOGBLOCKS \/ outstanding < 1
        THEN panicked' = TRUE /\ UNCHANGED <<bufs, lh, wrote, calls>>
        ELSE /\ cache' = [cache EXCEPT ![b] = v]
             /\ wrote' = [wrote EXCEPT ![p] = @ \cup {b}]
             /\ calls' = [calls EXCEPT ![p] = @ + 1]
             /\ lh' = IF Absorbed(b) THEN lh ELSE Append(lh, b)
             /\ pins' = IF Absorbed(b) THEN pins ELSE Pinned(b)
             /\ UNCHANGED panicked
    /\ UNCHANGED <<disk, outstanding, committing, ncommit, locals, recovery, left, crashes, history>>

\* end_op up to the release of log.lock.  The last call goes on to commit.
EndOp(p) ==
    LET last == outstanding - 1 = 0
        next == IF ~last THEN "idle" ELSE IF lh = <<>> THEN "finish" ELSE "write_log"
    IN  /\ pc[p] = "op"
        /\ outstanding' = outstanding - 1
        /\ panicked' = (committing = 1)
        /\ committing' = IF last THEN 1 ELSE committing
        /\ pc' = [(IF last THEN pc ELSE Wakeup(pc)) EXCEPT ![p] = next]
        /\ tail' = [tail EXCEPT ![p] = 0]
        /\ unsaved' = unsaved \cup {p}
        /\ UNCHANGED <<disk, bufs, lh, ncommit, syncn, recovery, work, need>>

\* write_log: one block from the cache to the log.
WriteLog(p) ==
    LET i == tail[p] + 1
    IN  /\ pc[p] = "write_log"
        /\ logd' = [logd EXCEPT ![i] = cache[lh[i]]]
        /\ tail' = [tail EXCEPT ![p] = IF i = Len(lh) THEN 0 ELSE i]
        /\ pc' = [pc EXCEPT ![p] = IF i = Len(lh) THEN "write_head" ELSE @]
        /\ UNCHANGED <<home, head, bufs, log, syncn, recovery, panicked, work, history>>

\* write_head: the point at which the transaction commits.
WriteHead(p) ==
    /\ pc[p] = "write_head"
    /\ head' = lh
    /\ pc' = [pc EXCEPT ![p] = "install"]
    /\ unsaved' = {}
    /\ need' = [q \in Procs |-> {}]
    /\ UNCHANGED <<home, logd, bufs, log, tail, syncn, recovery, panicked, work>>

\* install_trans(0): one block from the log to its home, and bunpin.
Install(p) ==
    LET i == tail[p] + 1
        b == lh[i]
    IN  /\ pc[p] = "install"
        /\ home' = [home EXCEPT ![b] = logd[i]]
        /\ cache' = [cache EXCEPT ![b] = logd[i]]
        /\ pins' = [pins EXCEPT ![b] = @ - 1]
        /\ tail' = [tail EXCEPT ![p] = IF i = Len(lh) THEN 0 ELSE i]
        /\ pc' = [pc EXCEPT ![p] = IF i = Len(lh) THEN "clear" ELSE @]
        /\ UNCHANGED <<logd, head, log, syncn, recovery, panicked, work, history>>

\* log.lh.n = 0 and the second write_head.
ClearHead(p) ==
    /\ pc[p] = "clear"
    /\ lh' = <<>>
    /\ head' = <<>>
    /\ pc' = [pc EXCEPT ![p] = "finish"]
    /\ UNCHANGED <<home, logd, bufs, outstanding, committing, ncommit, tail, syncn, recovery, panicked,
                   work, history>>

\* The end of end_op, after commit.
Finish(p) ==
    /\ pc[p] = "finish"
    /\ committing' = 0
    /\ ncommit' = ncommit + 1
    /\ pc' = [Wakeup(pc) EXCEPT ![p] = "idle"]
    /\ unsaved' = {}
    /\ need' = [q \in Procs |-> {}]
    /\ UNCHANGED <<disk, bufs, lh, outstanding, tail, syncn, recovery, panicked, work>>

\* Mutant: sys_sync is content with the commits that have happened.
SyncTarget_Now(n) == n
\* The commit sys_sync waits for.
SyncTarget(n) == n + 1

\* sys_sync is called; it returns at once when no call and no commit is running.
Sync(p) ==
    /\ pc[p] = "idle" /\ p \in Syncers
    /\ need' = [need EXCEPT ![p] = unsaved]
    /\ \/ /\ outstanding > 0 \/ committing = 1
          /\ syncn' = [syncn EXCEPT ![p] = SyncTarget(ncommit)]
          /\ pc' = [pc EXCEPT ![p] = "sync"]
       \/ /\ outstanding <= 0 /\ committing = 0
          /\ UNCHANGED <<syncn, pc>>
    /\ UNCHANGED <<disk, bufs, log, tail, recovery, panicked, work, unsaved>>

\* The loop of sys_sync.
SyncLoop(p) ==
    /\ pc[p] = "sync"
    /\ pc' = [pc EXCEPT ![p] = IF ncommit < syncn[p] THEN "sync_sleep" ELSE "idle"]
    /\ UNCHANGED <<disk, bufs, log, tail, syncn, recovery, panicked, work, history>>

\* bget recycles a buffer that nobody uses or pins.
Evict(b) ==
    /\ pins[b] = 0 /\ cache[b] # NotCached
    /\ cache' = [cache EXCEPT ![b] = NotCached]
    /\ UNCHANGED <<disk, pins, log, locals, recovery, panicked, work, history>>

-----------------------------------------------------------------------------
\* The block that is being written to the log, or to its home, if there is one.
LogTarget == {tail[p] + 1 : p \in {q \in Procs : pc[q] = "write_log"}}
HomeTarget ==
    {lh[tail[p] + 1] : p \in {q \in Procs : pc[q] = "install"}}
        \cup (IF boot = "install" THEN {lh[btail + 1]} ELSE {})

\* Power fails: memory is lost, and a block that is being written may be torn.
Crash ==
    /\ crashes < MaxCrashes
    /\ crashes' = crashes + 1
    /\ \/ UNCHANGED <<home, logd>>
       \/ \E i \in LogTarget : logd' = [logd EXCEPT ![i] = Torn] /\ UNCHANGED home
       \/ \E b \in HomeTarget : home' = [home EXCEPT ![b] = Torn] /\ UNCHANGED logd
    /\ cache' = [b \in Blocks |-> NotCached]
    /\ pins' = [b \in Blocks |-> 0]
    /\ lh' = <<>> /\ outstanding' = 0 /\ committing' = 0 /\ ncommit' = 0
    /\ pc' = [p \in Procs |-> "idle"]
    /\ tail' = [p \in Procs |-> 0]
    /\ syncn' = [p \in Procs |-> 0]
    /\ boot' = "read_head" /\ btail' = 0
    /\ unsaved' = {}
    /\ need' = [p \in Procs |-> {}]
    /\ wrote' = [p \in Procs |-> {}]
    /\ calls' = [p \in Procs |-> 0]
    /\ UNCHANGED <<head, panicked, left>>

\* read_head.
ReadHead ==
    /\ boot = "read_head"
    /\ lh' = head
    /\ boot' = IF head = <<>> THEN "clear" ELSE "install"
    /\ UNCHANGED <<disk, bufs, outstanding, committing, ncommit, locals, btail, panicked, work, history>>

\* install_trans(1): one block.
RecoverInstall ==
    LET i == btail + 1
    IN  /\ boot = "install"
        /\ home' = [home EXCEPT ![lh[i]] = logd[i]]
        /\ cache' = [cache EXCEPT ![lh[i]] = logd[i]]
        /\ btail' = i
        /\ boot' = IF i = Len(lh) THEN "clear" ELSE boot
        /\ UNCHANGED <<logd, head, pins, log, locals, panicked, work, history>>

\* The end of recover_from_log: the log is cleared.
RecoverClear ==
    /\ boot = "clear"
    /\ lh' = <<>>
    /\ head' = <<>>
    /\ boot' = "up" /\ btail' = 0
    /\ UNCHANGED <<home, logd, bufs, outstanding, committing, ncommit, locals, panicked, work, history>>

Recover == ReadHead \/ RecoverInstall \/ RecoverClear

\* The steps of commit.
Commit(p) == WriteLog(p) \/ WriteHead(p) \/ Install(p) \/ ClearHead(p) \/ Finish(p)

Run ==
    \/ \E p \in Procs : BeginOp(p) \/ EndOp(p) \/ Commit(p) \/ Sync(p) \/ SyncLoop(p)
    \/ \E p \in Procs, b \in Blocks, v \in Vals : LogWrite(p, b, v)
    \/ \E b \in Blocks : Evict(b)

\* panic never returns, and the bounded work may be done.
Rest ==
    /\ panicked \/ (boot = "up" /\ \A p \in Procs : pc[p] = "idle" /\ left[p] = 0)
    /\ UNCHANGED vars

Next ==
    \/ ~panicked /\ boot = "up" /\ Run
    \/ ~panicked /\ Recover
    \/ ~panicked /\ Crash
    \/ Rest

Spec == Init /\ [][Next]_vars

-----------------------------------------------------------------------------
(***************************************************************************)
(* Properties.                                                             *)
(***************************************************************************)

\* What the disk holds once recovery has run: the home blocks, and over them
\* the logged blocks if the header says so.
Overlay(h, l, list) ==
    [b \in Blocks |-> IF \E i \in 1 .. Len(list) : list[i] = b
                        THEN l[CHOOSE i \in 1 .. Len(list) : list[i] = b]
                        ELSE h[b]]
Recovered == Overlay(home, logd, head)

\* What bread returns.
View == [b \in Blocks |-> IF cache[b] = NotCached THEN home[b] ELSE cache[b]]

\* The log implements AtomicDisk: every state the disk could be recovered to
\* is one that memory was in when no call was under way, and recovery, itself
\* interrupted or not, leads there.  ("The logging system only commits when
\* there are no FS system calls active.")
Atomic ==
    INSTANCE AtomicDisk WITH
        mem <- IF boot = "up" THEN View ELSE Recovered,
        disk <- Recovered,
        active <- {p \in Procs : pc[p] = "op"}

CrashAtomic == Atomic!ASpec

\* log_write never finds the log full, and end_op never finds a commit under
\* way: what begin_op reserved is enough for a call of MAXOPBLOCKS log_writes.
NeverPanics == ~panicked

\* When sys_sync returns, every call that had ended when it was called is on
\* the disk.  unsaved holds the processes whose last call is not yet, need what
\* a running sys_sync has to wait for.
SyncDurable == \A p \in Procs : pc[p] \notin {"sync", "sync_sleep"} => need[p] = {}

\* Once they stop starting calls, all processes come to rest: every begin_op
\* gets its turn, every commit ends and every sys_sync returns.
Drains == <>[](\A p \in Procs : pc[p] = "idle" /\ left[p] = 0)

\* The scheduler runs every process that can run, and the disk answers.
Fairness ==
    /\ \A p \in Procs : WF_vars(boot = "up" /\ (BeginOp(p) \/ EndOp(p) \/ Commit(p) \/ SyncLoop(p)))
    /\ WF_vars(Recover)

FairSpec == Spec /\ Fairness
=============================================================================
