----------------------------- MODULE ProcProofs -----------------------------
(***************************************************************************)
(* Proofs about processes (module Proc), for any numbers of harts and of   *)
(* slots in the table: no kernel stack has two harts on it, the checks of  *)
(* sched() hold, no wakeup of a parent in wait is lost, and every process  *)
(* has a live parent.                                                      *)
(***************************************************************************)
EXTENDS Proc, TLAPS

ForkSteps == {"fork_parent", "fork_run"}
Reparented == {"exit_init", "exit_parent", "exit_zombie"}
LockSteps == Reparented \cup {"wait_scan", "wait_sleep"}
Active == {"user", "exit", "wait"} \cup ForkSteps \cup LockSteps
States == {"UNUSED", "USED", "RUNNABLE", "RUNNING", "SLEEPING", "ZOMBIE"}

TypeOK ==
    /\ state \in [Slots -> States] /\ chan \in [Slots -> Slots \cup {None}]
    /\ parent \in [Slots -> Slots \cup {None}] /\ killed \in [Slots -> BOOLEAN]
    /\ plock \in [Slots -> CPUs \cup {None}] /\ waitlock \in Slots \cup {None}
    /\ cproc \in [CPUs -> Slots \cup {None}]
    /\ pc \in [Slots -> Active \cup {"forkret", "yielded", "slept", "zombie"}]
    /\ child \in [Slots -> Slots \cup {None}] /\ idx \in [Slots -> Nat \ {0}] /\ kids \in [Slots -> BOOLEAN]

\* p->lock is held while a hart leaves the stack of p.
Stacks ==
    /\ \A c, d \in CPUs : cproc[c] # None /\ cproc[c] = cproc[d] => c = d
    /\ \A c \in CPUs : cproc[c] # None =>
            /\ state[cproc[c]] \notin {"UNUSED", "USED"}
            /\ state[cproc[c]] # "RUNNING" => plock[cproc[c]] = c

\* A process in the kernel runs, with its lock free; one asleep is in kwait.
Places ==
    \A p \in Slots :
        /\ pc[p] \in Active => state[p] = "RUNNING" /\ plock[p] = None
        /\ state[p] = "SLEEPING" => chan[p] = p
        /\ pc[p] \in LockSteps <=> waitlock = p

\* A child that kfork makes belongs to the fork until it is RUNNABLE.
Forks ==
    /\ \A p \in Slots : pc[p] \in ForkSteps => child[p] \in Slots /\ state[child[p]] = "USED"
    /\ \A p, r \in Slots : pc[p] \in ForkSteps /\ pc[r] \in ForkSteps /\ child[p] = child[r] => p = r
    /\ \A p \in Slots : pc[p] = "fork_run" => parent[child[p]] = p

\* The first process never exits; a process past reparent has no children.
Family ==
    /\ state[initproc] \in {"RUNNABLE", "RUNNING", "SLEEPING"}
    /\ \A p \in Slots : pc[p] \in {"exit"} \cup Reparented => p # initproc
    /\ \A p, q \in Slots : pc[p] \in Reparented => parent[q] # p
    /\ NobodyOrphaned

\* An exited child finds its parent awake, or exit is about to wake it; a
\* wait that goes to sleep has seen no exited child.
Wakeups ==
    /\ \A p, q \in Slots : state[p] = "SLEEPING" /\ parent[q] = p /\ state[q] = "ZOMBIE" =>
            p = initproc /\ \E r \in Slots : pc[r] = "exit_init"
    /\ \A q \in Slots : pc[q] = "exit_zombie" => state[parent[q]] # "SLEEPING"
    /\ \A p, q \in Slots : pc[p] = "wait_scan" /\ q < idx[p] /\ parent[q] = p => state[q] # "ZOMBIE"
    /\ \A p, q \in Slots : pc[p] = "wait_sleep" /\ parent[q] = p => state[q] # "ZOMBIE"

ProcInv == TypeOK /\ Stacks /\ Places /\ Forks /\ Family /\ Wakeups

\* A step of the specification.
Step == Next \/ UNCHANGED vars

-----------------------------------------------------------------------------
\* The first process has a slot.
LEMMA InitSlot == initproc \in Slots
  BY SlotsAssumption DEF initproc, Slots

\* No slot and no hart is the null pointer.
LEMMA NoneIs == None \notin Slots /\ None \notin CPUs
  BY SlotsAssumption DEF Slots

\* Every action keeps the fields of the process table in their ranges.
LEMMA TypeStep == ASSUME ProcInv, Step PROVE TypeOK'
<1>0. TypeOK /\ Forks /\ Family
  BY DEF ProcInv
<1> USE <1>0, NoneIs DEF Free, Running, locals, TypeOK, Active, ForkSteps, LockSteps, Reparented, States
<1>1. ASSUME NEW c \in CPUs, NEW p \in Slots, Schedule(c, p) PROVE TypeOK'
  BY <1>1 DEF Schedule
<1>2. ASSUME NEW c \in CPUs, NEW p \in Slots, Resume(c, p) PROVE TypeOK'
  BY <1>2 DEF Resume
<1>3. ASSUME NEW c \in CPUs, NEW p \in Slots, SwitchOut(c, p) PROVE TypeOK'
  BY <1>3 DEF SwitchOut, table
<1>4. ASSUME NEW c \in CPUs, NEW p \in Slots, Yield(c, p) PROVE TypeOK'
  BY <1>4 DEF Yield, SchedLock
<1>5. ASSUME NEW c \in CPUs, NEW p \in Slots, Exit(c, p) PROVE TypeOK'
  BY <1>5 DEF Exit, table
<1>6. ASSUME NEW c \in CPUs, NEW p \in Slots, Wait(c, p) PROVE TypeOK'
  BY <1>6 DEF Wait, table
<1>7. ASSUME NEW c \in CPUs, NEW p \in Slots, ForkParent(c, p) PROVE TypeOK'
  BY <1>7 DEF ForkParent
<1>8. ASSUME NEW c \in CPUs, NEW p \in Slots, ForkRun(c, p) PROVE TypeOK'
  BY <1>8 DEF ForkRun
<1>9. ASSUME NEW c \in CPUs, NEW p \in Slots, ExitReparent(c, p) PROVE TypeOK'
  BY <1>9, InitSlot DEF ExitReparent, Adopted
<1>10. ASSUME NEW c \in CPUs, NEW p \in Slots, ExitWakeInit(c, p) PROVE TypeOK'
  BY <1>10 DEF ExitWakeInit, Woken
<1>11. ASSUME NEW c \in CPUs, NEW p \in Slots, ExitWakeParent(c, p) PROVE TypeOK'
  BY <1>11 DEF ExitWakeParent, Woken
<1>12. ASSUME NEW c \in CPUs, NEW p \in Slots, ExitZombie(c, p) PROVE TypeOK'
  BY <1>12 DEF ExitZombie, SchedLock
<1>13. ASSUME NEW c \in CPUs, NEW p \in Slots, WaitLock(c, p) PROVE TypeOK'
  BY <1>13 DEF WaitLock, table
<1>14. ASSUME NEW c \in CPUs, NEW p \in Slots, WaitScan(c, p) PROVE TypeOK'
  BY <1>14 DEF WaitScan, table, IsChild, MayScan, NextSlot
<1>15. ASSUME NEW c \in CPUs, NEW p \in Slots, WaitReap(c, p) PROVE TypeOK'
  BY <1>15 DEF WaitReap, IsChild, MayScan
<1>16. ASSUME NEW c \in CPUs, NEW p \in Slots, WaitCopyFails(c, p) PROVE TypeOK'
  BY <1>16 DEF WaitCopyFails, table
<1>17. ASSUME NEW c \in CPUs, NEW p \in Slots, WaitKilled(c, p) PROVE TypeOK'
  BY <1>17 DEF WaitKilled, table
<1>18. ASSUME NEW c \in CPUs, NEW p \in Slots, WaitSleep(c, p) PROVE TypeOK'
  BY <1>18 DEF WaitSleep, SchedLock, SleepReleases
<1>19. ASSUME NEW c \in CPUs, NEW p \in Slots, NEW q \in Slots, Fork(c, p, q) PROVE TypeOK'
  BY <1>19 DEF Fork
<1>20. ASSUME NEW c \in CPUs, NEW p \in Slots, NEW q \in Slots, ForkFails(c, p, q) PROVE TypeOK'
  BY <1>20 DEF ForkFails
<1>21. ASSUME NEW c \in CPUs, NEW p \in Slots, NEW q \in Slots, Kill(c, p, q) PROVE TypeOK'
  BY <1>21 DEF Kill
<1>22. ASSUME UNCHANGED vars PROVE TypeOK'
  BY <1>22 DEF vars, table
<1> QED
  BY <1>1, <1>2, <1>3, <1>4, <1>5, <1>6, <1>7, <1>8, <1>9, <1>10, <1>11, <1>12,
     <1>13, <1>14, <1>15, <1>16, <1>17, <1>18, <1>19, <1>20, <1>21, <1>22 DEF Step, Next, InKernel

\* Whoever gives up RUNNING holds p->lock until the hart has switched: no
\* other hart takes the stack before.
LEMMA StackStep == ASSUME ProcInv, Step PROVE Stacks'
<1>0. TypeOK /\ TypeOK' /\ Stacks /\ Places /\ Forks /\ Family /\ Wakeups
  BY TypeStep DEF ProcInv
<1> USE <1>0, NoneIs DEF Free, Running, locals, table, TypeOK, Stacks
<1>1. ASSUME NEW c \in CPUs, NEW p \in Slots, Schedule(c, p) PROVE Stacks'
  BY <1>1 DEF Schedule
<1>2. ASSUME NEW c \in CPUs, NEW p \in Slots, Resume(c, p) PROVE Stacks'
  BY <1>2 DEF Resume
<1>3. ASSUME NEW c \in CPUs, NEW p \in Slots, SwitchOut(c, p) PROVE Stacks'
  BY <1>3 DEF SwitchOut
<1>4. ASSUME NEW c \in CPUs, NEW p \in Slots, Yield(c, p) PROVE Stacks'
  BY <1>4 DEF Yield, SchedLock
<1>5. ASSUME NEW c \in CPUs, NEW p \in Slots, Exit(c, p) PROVE Stacks'
  BY <1>5 DEF Exit
<1>6. ASSUME NEW c \in CPUs, NEW p \in Slots, Wait(c, p) PROVE Stacks'
  BY <1>6 DEF Wait
<1>7. ASSUME NEW c \in CPUs, NEW p \in Slots, ForkParent(c, p) PROVE Stacks'
  BY <1>7 DEF ForkParent
<1>8. ASSUME NEW c \in CPUs, NEW p \in Slots, ForkRun(c, p) PROVE Stacks'
  BY <1>8 DEF ForkRun, Forks, ForkSteps
<1>9. ASSUME NEW c \in CPUs, NEW p \in Slots, ExitReparent(c, p) PROVE Stacks'
  BY <1>9 DEF ExitReparent, Adopted
<1>10. ASSUME NEW c \in CPUs, NEW p \in Slots, ExitWakeInit(c, p) PROVE Stacks'
  BY <1>10 DEF ExitWakeInit, Woken
<1>11. ASSUME NEW c \in CPUs, NEW p \in Slots, ExitWakeParent(c, p) PROVE Stacks'
  BY <1>11 DEF ExitWakeParent, Woken
<1>12. ASSUME NEW c \in CPUs, NEW p \in Slots, ExitZombie(c, p) PROVE Stacks'
  BY <1>12 DEF ExitZombie, SchedLock
<1>13. ASSUME NEW c \in CPUs, NEW p \in Slots, WaitLock(c, p) PROVE Stacks'
  BY <1>13 DEF WaitLock
<1>14. ASSUME NEW c \in CPUs, NEW p \in Slots, WaitScan(c, p) PROVE Stacks'
  BY <1>14 DEF WaitScan, IsChild, MayScan, NextSlot
<1>15. ASSUME NEW c \in CPUs, NEW p \in Slots, WaitReap(c, p) PROVE Stacks'
  BY <1>15 DEF WaitReap, IsChild, MayScan
<1>16. ASSUME NEW c \in CPUs, NEW p \in Slots, WaitCopyFails(c, p) PROVE Stacks'
  BY <1>16 DEF WaitCopyFails
<1>17. ASSUME NEW c \in CPUs, NEW p \in Slots, WaitKilled(c, p) PROVE Stacks'
  BY <1>17 DEF WaitKilled
<1>18. ASSUME NEW c \in CPUs, NEW p \in Slots, WaitSleep(c, p) PROVE Stacks'
  BY <1>18 DEF WaitSleep, SchedLock, SleepReleases
<1>19. ASSUME NEW c \in CPUs, NEW p \in Slots, NEW q \in Slots, Fork(c, p, q) PROVE Stacks'
  BY <1>19 DEF Fork
<1>20. ASSUME NEW c \in CPUs, NEW p \in Slots, NEW q \in Slots, ForkFails(c, p, q) PROVE Stacks'
  BY <1>20 DEF ForkFails
<1>21. ASSUME NEW c \in CPUs, NEW p \in Slots, NEW q \in Slots, Kill(c, p, q) PROVE Stacks'
  BY <1>21 DEF Kill
<1>22. ASSUME UNCHANGED vars PROVE Stacks'
  BY <1>22 DEF vars
<1> QED
  BY <1>1, <1>2, <1>3, <1>4, <1>5, <1>6, <1>7, <1>8, <1>9, <1>10, <1>11, <1>12,
     <1>13, <1>14, <1>15, <1>16, <1>17, <1>18, <1>19, <1>20, <1>21, <1>22 DEF Step, Next, InKernel

\* Only the process that holds wait_lock is in the part of kexit or kwait that
\* it protects, and only a RUNNING one executes kernel code.
LEMMA PlaceStep == ASSUME ProcInv, Step PROVE Places'
<1>0. TypeOK /\ TypeOK' /\ Stacks /\ Places /\ Forks /\ Family /\ Wakeups
  BY TypeStep DEF ProcInv
<1> USE <1>0, NoneIs DEF Free, Running, locals, table, TypeOK, Active, ForkSteps, LockSteps, Reparented, Places
<1>1. ASSUME NEW c \in CPUs, NEW p \in Slots, Schedule(c, p) PROVE Places'
  BY <1>1 DEF Schedule
<1>2. ASSUME NEW c \in CPUs, NEW p \in Slots, Resume(c, p) PROVE Places'
  BY <1>2 DEF Resume
<1>3. ASSUME NEW c \in CPUs, NEW p \in Slots, SwitchOut(c, p) PROVE Places'
  BY <1>3 DEF SwitchOut
<1>4. ASSUME NEW c \in CPUs, NEW p \in Slots, Yield(c, p) PROVE Places'
  BY <1>4 DEF Yield, SchedLock
<1>5. ASSUME NEW c \in CPUs, NEW p \in Slots, Exit(c, p) PROVE Places'
  BY <1>5 DEF Exit
<1>6. ASSUME NEW c \in CPUs, NEW p \in Slots, Wait(c, p) PROVE Places'
  BY <1>6 DEF Wait
<1>7. ASSUME NEW c \in CPUs, NEW p \in Slots, ForkParent(c, p) PROVE Places'
  BY <1>7 DEF ForkParent
<1>8. ASSUME NEW c \in CPUs, NEW p \in Slots, ForkRun(c, p) PROVE Places'
  BY <1>8 DEF ForkRun, Forks
<1>9. ASSUME NEW c \in CPUs, NEW p \in Slots, ExitReparent(c, p) PROVE Places'
  BY <1>9 DEF ExitReparent, Adopted
<1>10. ASSUME NEW c \in CPUs, NEW p \in Slots, ExitWakeInit(c, p) PROVE Places'
  BY <1>10 DEF ExitWakeInit, Woken
<1>11. ASSUME NEW c \in CPUs, NEW p \in Slots, ExitWakeParent(c, p) PROVE Places'
  BY <1>11 DEF ExitWakeParent, Woken
<1>12. ASSUME NEW c \in CPUs, NEW p \in Slots, ExitZombie(c, p) PROVE Places'
  BY <1>12 DEF ExitZombie, SchedLock
<1>13. ASSUME NEW c \in CPUs, NEW p \in Slots, WaitLock(c, p) PROVE Places'
  BY <1>13 DEF WaitLock
<1>14. ASSUME NEW c \in CPUs, NEW p \in Slots, WaitScan(c, p) PROVE Places'
  BY <1>14 DEF WaitScan, IsChild, MayScan, NextSlot
<1>15. ASSUME NEW c \in CPUs, NEW p \in Slots, WaitReap(c, p) PROVE Places'
  BY <1>15 DEF WaitReap, IsChild, MayScan
<1>16. ASSUME NEW c \in CPUs, NEW p \in Slots, WaitCopyFails(c, p) PROVE Places'
  BY <1>16 DEF WaitCopyFails
<1>17. ASSUME NEW c \in CPUs, NEW p \in Slots, WaitKilled(c, p) PROVE Places'
  BY <1>17 DEF WaitKilled
<1>18. ASSUME NEW c \in CPUs, NEW p \in Slots, WaitSleep(c, p) PROVE Places'
  BY <1>18 DEF WaitSleep, SchedLock, SleepReleases
<1>19. ASSUME NEW c \in CPUs, NEW p \in Slots, NEW q \in Slots, Fork(c, p, q) PROVE Places'
  BY <1>19 DEF Fork
<1>20. ASSUME NEW c \in CPUs, NEW p \in Slots, NEW q \in Slots, ForkFails(c, p, q) PROVE Places'
  BY <1>20 DEF ForkFails
<1>21. ASSUME NEW c \in CPUs, NEW p \in Slots, NEW q \in Slots, Kill(c, p, q) PROVE Places'
  BY <1>21 DEF Kill
<1>22. ASSUME UNCHANGED vars PROVE Places'
  BY <1>22 DEF vars
<1> QED
  BY <1>1, <1>2, <1>3, <1>4, <1>5, <1>6, <1>7, <1>8, <1>9, <1>10, <1>11, <1>12,
     <1>13, <1>14, <1>15, <1>16, <1>17, <1>18, <1>19, <1>20, <1>21, <1>22 DEF Step, Next, InKernel

\* The slot that kfork took stays USED, and its own, until it is RUNNABLE.
LEMMA ForkStep == ASSUME ProcInv, Step PROVE Forks'
<1>0. TypeOK /\ TypeOK' /\ Stacks /\ Places /\ Forks /\ Family /\ Wakeups
  BY TypeStep DEF ProcInv
<1> USE <1>0, NoneIs DEF Free, Running, locals, table, TypeOK, Active, ForkSteps, LockSteps, Reparented, Forks, Places
<1>1. ASSUME NEW c \in CPUs, NEW p \in Slots, Schedule(c, p) PROVE Forks'
  BY <1>1 DEF Schedule
<1>2. ASSUME NEW c \in CPUs, NEW p \in Slots, Resume(c, p) PROVE Forks'
  BY <1>2 DEF Resume
<1>3. ASSUME NEW c \in CPUs, NEW p \in Slots, SwitchOut(c, p) PROVE Forks'
  BY <1>3 DEF SwitchOut
<1>4. ASSUME NEW c \in CPUs, NEW p \in Slots, Yield(c, p) PROVE Forks'
  BY <1>4 DEF Yield, SchedLock
<1>5. ASSUME NEW c \in CPUs, NEW p \in Slots, Exit(c, p) PROVE Forks'
  BY <1>5 DEF Exit
<1>6. ASSUME NEW c \in CPUs, NEW p \in Slots, Wait(c, p) PROVE Forks'
  BY <1>6 DEF Wait
<1>7. ASSUME NEW c \in CPUs, NEW p \in Slots, ForkParent(c, p) PROVE Forks'
  BY <1>7 DEF ForkParent
<1>8. ASSUME NEW c \in CPUs, NEW p \in Slots, ForkRun(c, p) PROVE Forks'
  BY <1>8 DEF ForkRun
<1>9. ASSUME NEW c \in CPUs, NEW p \in Slots, ExitReparent(c, p) PROVE Forks'
  BY <1>9 DEF ExitReparent, Adopted
<1>10. ASSUME NEW c \in CPUs, NEW p \in Slots, ExitWakeInit(c, p) PROVE Forks'
  BY <1>10 DEF ExitWakeInit, Woken
<1>11. ASSUME NEW c \in CPUs, NEW p \in Slots, ExitWakeParent(c, p) PROVE Forks'
  BY <1>11 DEF ExitWakeParent, Woken
<1>12. ASSUME NEW c \in CPUs, NEW p \in Slots, ExitZombie(c, p) PROVE Forks'
  BY <1>12 DEF ExitZombie, SchedLock
<1>13. ASSUME NEW c \in CPUs, NEW p \in Slots, WaitLock(c, p) PROVE Forks'
  BY <1>13 DEF WaitLock
<1>14. ASSUME NEW c \in CPUs, NEW p \in Slots, WaitScan(c, p) PROVE Forks'
  BY <1>14 DEF WaitScan, IsChild, MayScan, NextSlot
<1>15. ASSUME NEW c \in CPUs, NEW p \in Slots, WaitReap(c, p) PROVE Forks'
  BY <1>15 DEF WaitReap, IsChild, MayScan
<1>16. ASSUME NEW c \in CPUs, NEW p \in Slots, WaitCopyFails(c, p) PROVE Forks'
  BY <1>16 DEF WaitCopyFails
<1>17. ASSUME NEW c \in CPUs, NEW p \in Slots, WaitKilled(c, p) PROVE Forks'
  BY <1>17 DEF WaitKilled
<1>18. ASSUME NEW c \in CPUs, NEW p \in Slots, WaitSleep(c, p) PROVE Forks'
  BY <1>18 DEF WaitSleep, SchedLock, SleepReleases
<1>19. ASSUME NEW c \in CPUs, NEW p \in Slots, NEW q \in Slots, Fork(c, p, q) PROVE Forks'
  BY <1>19 DEF Fork
<1>20. ASSUME NEW c \in CPUs, NEW p \in Slots, NEW q \in Slots, ForkFails(c, p, q) PROVE Forks'
  BY <1>20 DEF ForkFails
<1>21. ASSUME NEW c \in CPUs, NEW p \in Slots, NEW q \in Slots, Kill(c, p, q) PROVE Forks'
  BY <1>21 DEF Kill
<1>22. ASSUME UNCHANGED vars PROVE Forks'
  BY <1>22 DEF vars
<1> QED
  BY <1>1, <1>2, <1>3, <1>4, <1>5, <1>6, <1>7, <1>8, <1>9, <1>10, <1>11, <1>12,
     <1>13, <1>14, <1>15, <1>16, <1>17, <1>18, <1>19, <1>20, <1>21, <1>22 DEF Step, Next, InKernel

\* reparent hands every child on before its parent becomes a zombie.
LEMMA FamilyStep == ASSUME ProcInv, Step PROVE Family'
<1>0. TypeOK /\ TypeOK' /\ Stacks /\ Places /\ Forks /\ Family /\ Wakeups /\ initproc \in Slots
  BY TypeStep, InitSlot DEF ProcInv
<1> USE <1>0, NoneIs DEF Free, Running, locals, table, TypeOK, Active, ForkSteps, LockSteps, Reparented, Family, NobodyOrphaned, Places
<1>1. ASSUME NEW c \in CPUs, NEW p \in Slots, Schedule(c, p) PROVE Family'
  BY <1>1 DEF Schedule
<1>2. ASSUME NEW c \in CPUs, NEW p \in Slots, Resume(c, p) PROVE Family'
  BY <1>2 DEF Resume
<1>3. ASSUME NEW c \in CPUs, NEW p \in Slots, SwitchOut(c, p) PROVE Family'
  BY <1>3 DEF SwitchOut
<1>4. ASSUME NEW c \in CPUs, NEW p \in Slots, Yield(c, p) PROVE Family'
  BY <1>4 DEF Yield, SchedLock
<1>5. ASSUME NEW c \in CPUs, NEW p \in Slots, Exit(c, p) PROVE Family'
  BY <1>5 DEF Exit
<1>6. ASSUME NEW c \in CPUs, NEW p \in Slots, Wait(c, p) PROVE Family'
  BY <1>6 DEF Wait
<1>7. ASSUME NEW c \in CPUs, NEW p \in Slots, ForkParent(c, p) PROVE Family'
  BY <1>7 DEF ForkParent, Forks
<1>8. ASSUME NEW c \in CPUs, NEW p \in Slots, ForkRun(c, p) PROVE Family'
  BY <1>8 DEF ForkRun, Forks
<1>9. ASSUME NEW c \in CPUs, NEW p \in Slots, ExitReparent(c, p) PROVE Family'
  BY <1>9 DEF ExitReparent, Adopted
<1>10. ASSUME NEW c \in CPUs, NEW p \in Slots, ExitWakeInit(c, p) PROVE Family'
  BY <1>10 DEF ExitWakeInit, Woken
<1>11. ASSUME NEW c \in CPUs, NEW p \in Slots, ExitWakeParent(c, p) PROVE Family'
  BY <1>11 DEF ExitWakeParent, Woken
<1>12. ASSUME NEW c \in CPUs, NEW p \in Slots, ExitZombie(c, p) PROVE Family'
  BY <1>12 DEF ExitZombie, SchedLock
<1>13. ASSUME NEW c \in CPUs, NEW p \in Slots, WaitLock(c, p) PROVE Family'
  BY <1>13 DEF WaitLock
<1>14. ASSUME NEW c \in CPUs, NEW p \in Slots, WaitScan(c, p) PROVE Family'
  BY <1>14 DEF WaitScan, IsChild, MayScan, NextSlot
<1>15. ASSUME NEW c \in CPUs, NEW p \in Slots, WaitReap(c, p) PROVE Family'
  BY <1>15 DEF WaitReap, IsChild, MayScan
<1>16. ASSUME NEW c \in CPUs, NEW p \in Slots, WaitCopyFails(c, p) PROVE Family'
  BY <1>16 DEF WaitCopyFails
<1>17. ASSUME NEW c \in CPUs, NEW p \in Slots, WaitKilled(c, p) PROVE Family'
  BY <1>17 DEF WaitKilled
<1>18. ASSUME NEW c \in CPUs, NEW p \in Slots, WaitSleep(c, p) PROVE Family'
  BY <1>18 DEF WaitSleep, SchedLock, SleepReleases
<1>19. ASSUME NEW c \in CPUs, NEW p \in Slots, NEW q \in Slots, Fork(c, p, q) PROVE Family'
  BY <1>19 DEF Fork
<1>20. ASSUME NEW c \in CPUs, NEW p \in Slots, NEW q \in Slots, ForkFails(c, p, q) PROVE Family'
  BY <1>20 DEF ForkFails
<1>21. ASSUME NEW c \in CPUs, NEW p \in Slots, NEW q \in Slots, Kill(c, p, q) PROVE Family'
  BY <1>21 DEF Kill
<1>22. ASSUME UNCHANGED vars PROVE Family'
  BY <1>22 DEF vars
<1> QED
  BY <1>1, <1>2, <1>3, <1>4, <1>5, <1>6, <1>7, <1>8, <1>9, <1>10, <1>11, <1>12,
     <1>13, <1>14, <1>15, <1>16, <1>17, <1>18, <1>19, <1>20, <1>21, <1>22 DEF Step, Next, InKernel

\* wait_lock makes the scan of kwait and its sleep one step to kexit.
LEMMA WakeupStep == ASSUME ProcInv, Step PROVE Wakeups'
<1>0. TypeOK /\ TypeOK' /\ Stacks /\ Places /\ Forks /\ Family /\ Wakeups /\ initproc \in Slots
  BY TypeStep, InitSlot DEF ProcInv
<1> USE <1>0, NoneIs DEF Free, Running, locals, table, TypeOK, Active, ForkSteps, LockSteps, Reparented, Wakeups, Places
<1>1. ASSUME NEW c \in CPUs, NEW p \in Slots, Schedule(c, p) PROVE Wakeups'
  BY <1>1 DEF Schedule
<1>2. ASSUME NEW c \in CPUs, NEW p \in Slots, Resume(c, p) PROVE Wakeups'
  BY <1>2 DEF Resume
<1>3. ASSUME NEW c \in CPUs, NEW p \in Slots, SwitchOut(c, p) PROVE Wakeups'
  BY <1>3 DEF SwitchOut
<1>4. ASSUME NEW c \in CPUs, NEW p \in Slots, Yield(c, p) PROVE Wakeups'
  BY <1>4 DEF Yield, SchedLock
<1>5. ASSUME NEW c \in CPUs, NEW p \in Slots, Exit(c, p) PROVE Wakeups'
  BY <1>5 DEF Exit
<1>6. ASSUME NEW c \in CPUs, NEW p \in Slots, Wait(c, p) PROVE Wakeups'
  BY <1>6 DEF Wait
<1>7. ASSUME NEW c \in CPUs, NEW p \in Slots, ForkParent(c, p) PROVE Wakeups'
  BY <1>7 DEF ForkParent, Forks
<1>8. ASSUME NEW c \in CPUs, NEW p \in Slots, ForkRun(c, p) PROVE Wakeups'
  BY <1>8 DEF ForkRun, Forks
<1>9. ASSUME NEW c \in CPUs, NEW p \in Slots, ExitReparent(c, p) PROVE Wakeups'
  BY <1>9 DEF ExitReparent, Adopted
<1>10. ASSUME NEW c \in CPUs, NEW p \in Slots, ExitWakeInit(c, p) PROVE Wakeups'
  BY <1>10 DEF ExitWakeInit, Woken
<1>11. ASSUME NEW c \in CPUs, NEW p \in Slots, ExitWakeParent(c, p) PROVE Wakeups'
  <2>1. parent[p] \in Slots /\ state[p] = "RUNNING"
    BY <1>11 DEF ExitWakeParent, Family, NobodyOrphaned
  <2> QED
    BY <1>11, <2>1 DEF ExitWakeParent, Woken
<1>12. ASSUME NEW c \in CPUs, NEW p \in Slots, ExitZombie(c, p) PROVE Wakeups'
  BY <1>12 DEF ExitZombie, SchedLock
<1>13. ASSUME NEW c \in CPUs, NEW p \in Slots, WaitLock(c, p) PROVE Wakeups'
  BY <1>13, SlotsAssumption DEF WaitLock, Slots
<1>14. ASSUME NEW c \in CPUs, NEW p \in Slots, WaitScan(c, p) PROVE Wakeups'
  BY <1>14, SlotsAssumption DEF WaitScan, IsChild, MayScan, NextSlot, Slots
<1>15. ASSUME NEW c \in CPUs, NEW p \in Slots, WaitReap(c, p) PROVE Wakeups'
  BY <1>15 DEF WaitReap, IsChild, MayScan
<1>16. ASSUME NEW c \in CPUs, NEW p \in Slots, WaitCopyFails(c, p) PROVE Wakeups'
  BY <1>16 DEF WaitCopyFails
<1>17. ASSUME NEW c \in CPUs, NEW p \in Slots, WaitKilled(c, p) PROVE Wakeups'
  BY <1>17, SlotsAssumption DEF WaitKilled, Slots
<1>18. ASSUME NEW c \in CPUs, NEW p \in Slots, WaitSleep(c, p) PROVE Wakeups'
  BY <1>18 DEF WaitSleep, SchedLock, SleepReleases
<1>19. ASSUME NEW c \in CPUs, NEW p \in Slots, NEW q \in Slots, Fork(c, p, q) PROVE Wakeups'
  BY <1>19 DEF Fork
<1>20. ASSUME NEW c \in CPUs, NEW p \in Slots, NEW q \in Slots, ForkFails(c, p, q) PROVE Wakeups'
  BY <1>20 DEF ForkFails
<1>21. ASSUME NEW c \in CPUs, NEW p \in Slots, NEW q \in Slots, Kill(c, p, q) PROVE Wakeups'
  BY <1>21 DEF Kill
<1>22. ASSUME UNCHANGED vars PROVE Wakeups'
  BY <1>22 DEF vars
<1> QED
  BY <1>1, <1>2, <1>3, <1>4, <1>5, <1>6, <1>7, <1>8, <1>9, <1>10, <1>11, <1>12,
     <1>13, <1>14, <1>15, <1>16, <1>17, <1>18, <1>19, <1>20, <1>21, <1>22 DEF Step, Next, InKernel

\* After userinit only the first process exists, and nothing is locked.
LEMMA InitOK == Init => ProcInv
<1> SUFFICES ASSUME Init PROVE ProcInv
  OBVIOUS
<1> USE InitSlot, NoneIs DEF Init, Active, ForkSteps, LockSteps, Reparented
<1>1. TypeOK
  BY DEF TypeOK, States
<1>2. Stacks /\ Places /\ Forks
  BY DEF Stacks, Places, Forks
<1>3. Family /\ Wakeups
  BY DEF Family, NobodyOrphaned, Wakeups
<1> QED
  BY <1>1, <1>2, <1>3 DEF ProcInv

\* The inductive invariant holds in every reachable state.
LEMMA ProcInvariant == Spec => []ProcInv
<1>1. ProcInv /\ [Next]_vars => ProcInv'
  BY TypeStep, StackStep, PlaceStep, ForkStep, FamilyStep, WakeupStep DEF ProcInv, Step
<1> QED
  BY <1>1, InitOK, PTL DEF Spec

\* Whatever processes fork, exit, wait, kill and yield on however many harts:
\* two harts are never on one kernel stack, none is on the stack of a slot
\* that is free, and sched()'s checks of p->lock and of other locks hold.
THEOREM KernelStacksAreSafe == Spec => []StacksSafe
<1>1. ProcInv => StacksSafe
  <2> SUFFICES ASSUME ProcInv PROVE StacksSafe
    OBVIOUS
  <2>1. OneStack
    BY DEF ProcInv, Stacks, OneStack
  <2>2. SchedNeverPanics
    BY NoneIs DEF ProcInv, TypeOK, Stacks, Places, SchedNeverPanics, Active
  <2> QED
    BY <2>1, <2>2 DEF StacksSafe
<1> QED
  BY <1>1, ProcInvariant, PTL

\* kexit's wakeups are not lost: no parent sleeps in kwait over a child that
\* has exited, once wait_lock is free.
THEOREM NoExitIsLost == Spec => []NoLostExit
<1>1. ProcInv => NoLostExit
  <2> SUFFICES ASSUME ProcInv, waitlock = None,
                      NEW p \in Slots, NEW q \in Slots, state[p] = "SLEEPING", parent[q] = p, state[q] = "ZOMBIE"
               PROVE  FALSE
    BY DEF NoLostExit
  <2>1. PICK r \in Slots : pc[r] = "exit_init"
    BY DEF ProcInv, Wakeups
  <2>2. waitlock = r
    BY <2>1 DEF ProcInv, Places, LockSteps, Reparented
  <2> QED
    BY <2>2, NoneIs
<1> QED
  BY <1>1, ProcInvariant, PTL

\* reparent leaves nobody behind: every process but the first has a parent
\* that is alive, and that can wait for it.
THEOREM EverybodyHasAParent == Spec => []NobodyOrphaned
<1>1. ProcInv => NobodyOrphaned
  BY DEF ProcInv, Family
<1> QED
  BY <1>1, ProcInvariant, PTL
=============================================================================
