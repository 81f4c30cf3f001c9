----------------------------- MODULE MCProgress -----------------------------
(***************************************************************************)
(* Liveness of the calls that sleep, for TLC: file system calls and        *)
(* sys_sync (Log), disk transfers (VirtioDisk), pipes (Pipe) and sys_pause *)
(* (Clock).  They share no variable, so that each is explored with the     *)
(* others at rest, `unit' being the one that runs.                         *)
(*                                                                         *)
(* As `unit' never changes, fairness of a disjunction of steps of several  *)
(* units is fairness of each: what is assumed is the FairSpec of each      *)
(* module.                                                                 *)
(***************************************************************************)
EXTENDS Integers, TLC

CONSTANTS p1, p2, None, NotCached, Torn

Procs == {p1, p2}

VARIABLES unit,
          home, logd, head, cache, pins, lh, outstanding, committing, ncommit, log_pc, tail, syncn,
          boot, btail, log_panicked, wrote, calls, left, crashes, unsaved, need,
          free, chain, info, status, avail, availidx, used, usedidx, used_idx, vdisk_lock, irq, disk_pc,
          idx, bdisk, taken, inflight, moved, disk_panicked,
          pi_lock, data, nread, nwrite, readopen, writeopen, pipe_pc, pipe_n, i, pipe_killed,
          ticks, tickslock, clock_pc, clock_n, ticks0, clock_killed, waited

log == <<home, logd, head, cache, pins, lh, outstanding, committing, ncommit, log_pc, tail, syncn,
         boot, btail, log_panicked, wrote, calls, left, crashes, unsaved, need>>
disk == <<free, chain, info, status, avail, availidx, used, usedidx, used_idx, vdisk_lock, irq, disk_pc,
          idx, bdisk, taken, inflight, moved, disk_panicked>>
pipe == <<pi_lock, data, nread, nwrite, readopen, writeopen, pipe_pc, pipe_n, i, pipe_killed>>
clock == <<ticks, tickslock, clock_pc, clock_n, ticks0, clock_killed, waited>>
vars == <<unit, log, disk, pipe, clock>>

L == INSTANCE Log WITH
        Blocks <- {1}, Vals <- {2}, Syncers <- Procs, MAXOPBLOCKS <- 1, LOGBLOCKS <- 1, OpBlocks <- 1,
        OpWrites <- 1, MaxOps <- 2, MaxCrashes <- 1, pc <- log_pc, panicked <- log_panicked
D == INSTANCE VirtioDisk WITH
        NUM <- 4, IdxRange <- 8, lock <- vdisk_lock, pc <- disk_pc, panicked <- disk_panicked
P == INSTANCE Pipe WITH
        Writers <- {p1}, Readers <- {p2}, Vals <- {1}, PIPESIZE <- 2, CounterRange <- 4, MaxLen <- 3,
        Killable <- {}, lock <- pi_lock, pc <- pipe_pc, n <- pipe_n, killed <- pipe_killed
C == INSTANCE Clock WITH
        TickRange <- 4, MaxPause <- 2, MaxLag <- 1, pc <- clock_pc, n <- clock_n, killed <- clock_killed

ASSUME C!RangeAssumption /\ C!NoneAssumption /\ D!RingAssumption

-----------------------------------------------------------------------------
Init ==
    /\ unit \in {"log", "disk", "pipe", "clock"}
    /\ L!Init /\ D!Init /\ P!Init /\ C!Init

\* The others rest while a unit runs.
LogRuns == unit = "log" /\ UNCHANGED <<unit, disk, pipe, clock>>
DiskRuns == unit = "disk" /\ UNCHANGED <<unit, log, pipe, clock>>
PipeRuns == unit = "pipe" /\ UNCHANGED <<unit, log, disk, clock>>
ClockRuns == unit = "clock" /\ UNCHANGED <<unit, log, disk, pipe>>

Next ==
    \/ LogRuns /\ L!Next
    \/ DiskRuns /\ D!Next
    \/ PipeRuns /\ P!Next
    \/ ClockRuns /\ C!Next

\* A process in the kernel runs, and gets the lock it spins for.
Work(p) ==
    \/ DiskRuns /\ D!Driver(p)
    \/ PipeRuns /\ P!Work(p)
    \/ ClockRuns /\ C!Work(p)

\* A hart takes an interrupt that is pending, or pending again and again.
Interrupt == (DiskRuns /\ D!Intr) \/ (ClockRuns /\ C!ClockIntr)

\* copyin and copyout do not fail for ever.
Copy(p) == PipeRuns /\ (P!ReadCopy(p) \/ P!WritePut(p, 1))

\* The steps that stay possible once they are: file system calls, which hold
\* no lock between steps; recovery; the ends of interrupts; the disk; and a
\* process that reads or writes a pipe and calls again.
Steady(p) ==
    \/ LogRuns /\ boot = "up" /\ (L!BeginOp(p) \/ L!EndOp(p) \/ L!Commit(p) \/ L!SyncLoop(p))
    \/ PipeRuns /\ \E len \in 1 .. 3 : P!Call(p, len)
Device == (LogRuns /\ L!Recover) \/ (DiskRuns /\ D!Take)

Fairness ==
    /\ \A p \in Procs : SF_vars(Work(p)) /\ SF_vars(Copy(p)) /\ WF_vars(Steady(p))
    /\ SF_vars(Interrupt) /\ WF_vars(Device)
    /\ WF_vars(DiskRuns /\ (D!IntrEntry \/ D!IntrEnd))
    /\ \A h \in 0 .. 3 : WF_vars(DiskRuns /\ D!Complete(h))

ProgressSpec == Init /\ [][Next]_vars /\ Fairness

-----------------------------------------------------------------------------
\* Once they stop starting calls, all processes come to rest: every begin_op
\* gets its turn, every commit ends and every sys_sync returns.
Drains == unit = "log" => L!Drains

\* A process that waits for its transfer in virtio_disk_rw returns from it.
TransfersEnd == D!TransfersEnd

\* Every piperead and pipewrite returns, as long as the processes at the two
\* ends go on reading and writing or close theirs.
CallsReturn == P!CallsReturn

\* sys_pause returns, and not before its ticks have passed unless the
\* process is killed, also when ticks wraps around.
PausesKept == C!PauseLongEnough /\ C!PausesEnd
=============================================================================
