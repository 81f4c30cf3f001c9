-------------------------------- MODULE Proc --------------------------------
(***************************************************************************)
(* Processes: the table of kernel/proc.c, the per-CPU schedulers, fork,    *)
(* exit, wait, kill, yield and the sleep and wakeup that wait and exit     *)
(* use, with wait_lock and every p->lock.                                  *)
(*                                                                         *)
(* A step ends where a lock is released, where a lock has to be waited     *)
(* for, or where p->lock is carried through swtch to another context.      *)
(* Two visits of lock-only loops are left out because they change nothing: *)
(* the scheduler's and wakeup's look at a process that is not RUNNABLE,    *)
(* or does not sleep on the channel.                                       *)
(***************************************************************************)
EXTENDS Integers, FiniteSets

CONSTANTS CPUs,       \* cores running scheduler()
          NPROC,      \* size of proc[]
          Victims,    \* slots that kkill may be called for
          None

ASSUME SlotsAssumption == NPROC \in Nat \ {0} /\ None \notin 1 .. NPROC /\ None \notin CPUs
ASSUME VictimsAssumption == Victims \subseteq 2 .. NPROC

Slots == 1 .. NPROC
initproc == 1

VARIABLES state, chan, parent, killed,  \* struct proc
          plock,      \* p->lock: the CPU that holds it, or None
          waitlock,   \* wait_lock: the process that holds it, or None
          cproc,      \* c->proc: whose kernel stack the CPU is on
          pc,         \* where each process is in the kernel
          child,      \* the local np of kfork
          idx, kids   \* the locals pp and havekids of kwait

table == <<state, chan, parent, killed>>
locals == <<child, idx, kids>>
vars == <<table, plock, waitlock, cproc, pc, locals>>

\* Process p is the one that CPU c runs, past the release of its lock.
Running(c, p) == cproc[c] = p /\ state[p] = "RUNNING" /\ plock[p] # c

Free(p) == plock[p] = None

-----------------------------------------------------------------------------
\* userinit: the first process is ready, the others are unused.
Init ==
    /\ state = [p \in Slots |-> IF p = initproc THEN "RUNNABLE" ELSE "UNUSED"]
    /\ chan = [p \in Slots |-> None]
    /\ parent = [p \in Slots |-> None]
    /\ killed = [p \in Slots |-> FALSE]
    /\ plock = [p \in Slots |-> None]
    /\ waitlock = None
    /\ cproc = [c \in CPUs |-> None]
    /\ pc = [p \in Slots |-> "forkret"]
    /\ child = [p \in Slots |-> None]
    /\ idx = [p \in Slots |-> 1]
    /\ kids = [p \in Slots |-> FALSE]

\* scheduler, up to swtch: p->lock goes with the process.
Schedule(c, p) ==
    /\ cproc[c] = None
    /\ Free(p) /\ state[p] = "RUNNABLE"
    /\ state' = [state EXCEPT ![p] = "RUNNING"]
    /\ cproc' = [cproc EXCEPT ![c] = p]
    /\ plock' = [plock EXCEPT ![p] = c]
    /\ UNCHANGED <<chan, parent, killed, waitlock, pc, locals>>

\* The process comes back from swtch: in forkret, yield or sleep.
Resume(c, p) ==
    /\ cproc[c] = p /\ state[p] = "RUNNING" /\ plock[p] = c
    /\ plock' = [plock EXCEPT ![p] = None]
    /\ chan' = [chan EXCEPT ![p] = None]
    /\ pc' = [pc EXCEPT ![p] = IF @ = "slept" THEN "wait" ELSE "user"]
    /\ UNCHANGED <<state, parent, killed, waitlock, cproc, locals>>

\* sched has switched away from the process: the scheduler releases its lock.
SwitchOut(c, p) ==
    /\ cproc[c] = p /\ state[p] # "RUNNING"
    /\ cproc' = [cproc EXCEPT ![c] = None]
    /\ plock' = [plock EXCEPT ![p] = None]
    /\ UNCHANGED <<table, waitlock, pc, locals>>

\* Mutant: yield and sleep release p->lock before they call sched.
SchedLock_Early(c) == None
\* The holder of p->lock while sched switches away.
SchedLock(c) == c

\* yield, called for a timer interrupt in user space.
Yield(c, p) ==
    /\ Running(c, p) /\ pc[p] = "user" /\ Free(p)
    /\ state' = [state EXCEPT ![p] = "RUNNABLE"]
    /\ plock' = [plock EXCEPT ![p] = SchedLock(c)]
    /\ pc' = [pc EXCEPT ![p] = "yielded"]
    /\ UNCHANGED <<chan, parent, killed, waitlock, cproc, locals>>

-----------------------------------------------------------------------------
\* kfork up to the release of np->lock, allocproc included.
Fork(c, p, np) ==
    /\ Running(c, p) /\ pc[p] = "user" /\ ~killed[p]
    /\ state[np] = "UNUSED" /\ Free(np)
    /\ state' = [state EXCEPT ![np] = "USED"]
    /\ child' = [child EXCEPT ![p] = np]
    /\ pc' = [pc EXCEPT ![p] = "fork_parent", ![np] = "forkret"]
    /\ UNCHANGED <<chan, parent, killed, plock, waitlock, cproc, idx, kids>>

\* kfork gives up: memory is short, freeproc undoes allocproc.
ForkFails(c, p, np) ==
    /\ Running(c, p) /\ pc[p] = "user" /\ ~killed[p]
    /\ state[np] = "UNUSED" /\ Free(np)
    /\ killed' = [killed EXCEPT ![np] = FALSE]
    /\ UNCHANGED <<state, chan, parent, plock, waitlock, cproc, pc, locals>>

\* kfork under wait_lock.
ForkParent(c, p) ==
    /\ Running(c, p) /\ pc[p] = "fork_parent" /\ waitlock = None
    /\ parent' = [parent EXCEPT ![child[p]] = p]
    /\ pc' = [pc EXCEPT ![p] = "fork_run"]
    /\ UNCHANGED <<state, chan, killed, plock, waitlock, cproc, locals>>

\* kfork under np->lock again.
ForkRun(c, p) ==
    /\ Running(c, p) /\ pc[p] = "fork_run" /\ Free(child[p])
    /\ state' = [state EXCEPT ![child[p]] = "RUNNABLE"]
    /\ child' = [child EXCEPT ![p] = None]
    /\ pc' = [pc EXCEPT ![p] = "user"]
    /\ UNCHANGED <<chan, parent, killed, plock, waitlock, cproc, idx, kids>>

-----------------------------------------------------------------------------
\* Mutant: exit wakes nobody.
Woken_Nobody(p) == state
\* What wakeup(p) makes of the states; only process p sleeps on channel p.
Woken(p) == IF state[p] = "SLEEPING" /\ chan[p] = p THEN [state EXCEPT ![p] = "RUNNABLE"] ELSE state

\* kexit is called, or usertrap finds the process killed.
Exit(c, p) ==
    /\ Running(c, p) /\ pc[p] = "user" /\ p # initproc
    /\ pc' = [pc EXCEPT ![p] = "exit"]
    /\ UNCHANGED <<table, plock, waitlock, cproc, locals>>

\* Mutant: the children keep their parent.
Adopted_None(p) == parent
\* What reparent makes of the parents.
Adopted(p) == [q \in Slots |-> IF parent[q] = p THEN initproc ELSE parent[q]]

\* kexit acquires wait_lock and reparents.
ExitReparent(c, p) ==
    /\ Running(c, p) /\ pc[p] = "exit" /\ waitlock = None
    /\ waitlock' = p
    /\ parent' = Adopted(p)
    /\ pc' = [pc EXCEPT ![p] = IF \E q \in Slots : parent[q] = p THEN "exit_init" ELSE "exit_parent"]
    /\ UNCHANGED <<state, chan, killed, plock, cproc, locals>>

\* reparent's wakeup(initproc).
ExitWakeInit(c, p) ==
    /\ Running(c, p) /\ pc[p] = "exit_init" /\ Free(initproc)
    /\ state' = Woken(initproc)
    /\ pc' = [pc EXCEPT ![p] = "exit_parent"]
    /\ UNCHANGED <<chan, parent, killed, plock, waitlock, cproc, locals>>

\* kexit's wakeup(p->parent).
ExitWakeParent(c, p) ==
    /\ Running(c, p) /\ pc[p] = "exit_parent" /\ Free(parent[p])
    /\ state' = Woken(parent[p])
    /\ pc' = [pc EXCEPT ![p] = "exit_zombie"]
    /\ UNCHANGED <<chan, parent, killed, plock, waitlock, cproc, locals>>

\* The end of kexit: ZOMBIE under p->lock, wait_lock released, sched.
ExitZombie(c, p) ==
    /\ Running(c, p) /\ pc[p] = "exit_zombie" /\ Free(p)
    /\ plock' = [plock EXCEPT ![p] = SchedLock(c)]
    /\ state' = [state EXCEPT ![p] = "ZOMBIE"]
    /\ waitlock' = None
    /\ pc' = [pc EXCEPT ![p] = "zombie"]
    /\ UNCHANGED <<chan, parent, killed, cproc, locals>>

-----------------------------------------------------------------------------
\* kwait is called.
Wait(c, p) ==
    /\ Running(c, p) /\ pc[p] = "user" /\ ~killed[p]
    /\ pc' = [pc EXCEPT ![p] = "wait"]
    /\ UNCHANGED <<table, plock, waitlock, cproc, locals>>

\* kwait, or sleep on its way back, acquires wait_lock; the scan starts.
WaitLock(c, p) ==
    /\ Running(c, p) /\ pc[p] = "wait" /\ waitlock = None
    /\ waitlock' = p
    /\ idx' = [idx EXCEPT ![p] = 1]
    /\ kids' = [kids EXCEPT ![p] = FALSE]
    /\ pc' = [pc EXCEPT ![p] = "wait_scan"]
    /\ UNCHANGED <<table, plock, cproc, child>>

\* The scan has to wait for the child's lock.
MayScan(q) == Free(q)

\* Slot q holds a child of p.
IsChild(q, p) == parent[q] = p

\* The next slot of the scan.
NextSlot(i) == i + 1

\* The scan passes a slot that is not an exited child.
WaitScan(c, p) ==
    LET q == idx[p]
    IN  /\ Running(c, p) /\ pc[p] = "wait_scan" /\ q <= NPROC
        /\ IsChild(q, p) => MayScan(q) /\ state[q] # "ZOMBIE"
        /\ kids' = [kids EXCEPT ![p] = @ \/ IsChild(q, p)]
        /\ idx' = [idx EXCEPT ![p] = NextSlot(@)]
        /\ UNCHANGED <<table, plock, waitlock, cproc, pc, child>>

\* The scan finds an exited child: freeproc, and kwait returns its pid.
WaitReap(c, p) ==
    LET q == idx[p]
    IN  /\ Running(c, p) /\ pc[p] = "wait_scan" /\ q <= NPROC
        /\ IsChild(q, p) /\ MayScan(q) /\ state[q] = "ZOMBIE"
        /\ state' = [state EXCEPT ![q] = "UNUSED"]
        /\ chan' = [chan EXCEPT ![q] = None]
        /\ parent' = [parent EXCEPT ![q] = None]
        /\ killed' = [killed EXCEPT ![q] = FALSE]
        /\ waitlock' = None
        /\ pc' = [pc EXCEPT ![p] = "user"]
        /\ UNCHANGED <<plock, cproc, locals>>

\* The scan finds an exited child, but copyout fails: kwait returns -1.
WaitCopyFails(c, p) ==
    LET q == idx[p]
    IN  /\ Running(c, p) /\ pc[p] = "wait_scan" /\ q <= NPROC /\ p # initproc
        /\ IsChild(q, p) /\ MayScan(q) /\ state[q] = "ZOMBIE"
        /\ waitlock' = None
        /\ pc' = [pc EXCEPT ![p] = "user"]
        /\ UNCHANGED <<table, plock, cproc, locals>>

\* The scan is over: return without children or when killed, else sleep.
WaitKilled(c, p) ==
    /\ Running(c, p) /\ pc[p] = "wait_scan" /\ idx[p] > NPROC /\ Free(p)
    /\ IF ~kids[p] \/ killed[p]
        THEN waitlock' = None /\ pc' = [pc EXCEPT ![p] = "user"]
        ELSE UNCHANGED waitlock /\ pc' = [pc EXCEPT ![p] = "wait_sleep"]
    /\ UNCHANGED <<table, plock, cproc, locals>>

\* What sleep leaves of the condition lock.
SleepReleases(lk) == None

\* sleep(p, &wait_lock) up to sched.
WaitSleep(c, p) ==
    /\ Running(c, p) /\ pc[p] = "wait_sleep" /\ Free(p)
    /\ plock' = [plock EXCEPT ![p] = SchedLock(c)]
    /\ waitlock' = SleepReleases(waitlock)
    /\ chan' = [chan EXCEPT ![p] = p]
    /\ state' = [state EXCEPT ![p] = "SLEEPING"]
    /\ pc' = [pc EXCEPT ![p] = "slept"]
    /\ UNCHANGED <<parent, killed, cproc, locals>>

-----------------------------------------------------------------------------
\* kkill finds the pid in slot q.  An unused slot has pid 0.
Kill(c, p, q) ==
    /\ Running(c, p) /\ pc[p] = "user" /\ ~killed[p]
    /\ Free(q)
    /\ \/ q \in Victims /\ state[q] # "UNUSED"
       \/ state[q] = "UNUSED"
    /\ killed' = [killed EXCEPT ![q] = TRUE]
    /\ state' = IF state[q] = "SLEEPING" THEN [state EXCEPT ![q] = "RUNNABLE"] ELSE state
    /\ UNCHANGED <<chan, parent, plock, waitlock, cproc, pc, locals>>

\* The steps of a process once it has begun a system call.
InKernel(c, p) ==
    \/ ForkParent(c, p) \/ ForkRun(c, p)
    \/ ExitReparent(c, p) \/ ExitWakeInit(c, p) \/ ExitWakeParent(c, p) \/ ExitZombie(c, p)
    \/ WaitLock(c, p) \/ WaitScan(c, p) \/ WaitReap(c, p) \/ WaitCopyFails(c, p)
    \/ WaitKilled(c, p) \/ WaitSleep(c, p)

Next ==
    \E c \in CPUs, p \in Slots :
        \/ Schedule(c, p) \/ Resume(c, p) \/ SwitchOut(c, p) \/ Yield(c, p)
        \/ Exit(c, p) \/ Wait(c, p) \/ InKernel(c, p)
        \/ \E q \in Slots : Fork(c, p, q) \/ ForkFails(c, p, q) \/ Kill(c, p, q)

Spec == Init /\ [][Next]_vars

-----------------------------------------------------------------------------
\* Two harts are never on the same kernel stack, and a slot that wait has
\* freed has no hart on its stack: p->lock is held from the moment yield,
\* sleep or exit gives the state away until the scheduler is off the stack.
OneStack ==
    /\ \A c, d \in CPUs : cproc[c] = cproc[d] /\ cproc[c] # None => c = d
    /\ \A c \in CPUs : cproc[c] # None => state[cproc[c]] \notin {"UNUSED", "USED"}

\* The checks of sched() ("sched p->lock", "sched locks") never fail: who
\* switches away holds its own lock and no other.
SchedNeverPanics ==
    \A c \in CPUs : LET p == cproc[c]
                    IN  p # None /\ state[p] # "RUNNING" => plock[p] = c /\ waitlock # p

\* No kernel stack has two harts on it, or one and no owner, and the checks
\* of sched() before it leaves a stack never fail.
StacksSafe == OneStack /\ SchedNeverPanics

\* A parent asleep in wait has no exited child unless an exit or a wait is
\* at work under wait_lock: the wakeup of kexit is not lost.
NoLostExit ==
    waitlock = None =>
        \A p, q \in Slots : state[p] = "SLEEPING" /\ parent[q] = p => state[q] # "ZOMBIE"

\* Every process but the first has a live parent, which will find it when
\* it waits: reparent leaves nobody behind.
NobodyOrphaned ==
    \A p \in Slots \ {initproc} :
        state[p] \notin {"UNUSED", "USED"} =>
            parent[p] \in Slots /\ state[parent[p]] \notin {"UNUSED", "USED", "ZOMBIE"}
=============================================================================
