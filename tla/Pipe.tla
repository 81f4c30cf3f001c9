-------------------------------- MODULE Pipe --------------------------------
(***************************************************************************)
(* A pipe (kernel/pipe.c): its ring buffer with two counters that wrap     *)
(* around, pi->lock, and the readers and writers that sleep and wake each  *)
(* other.  sleep releases pi->lock and goes to sleep in one step, as       *)
(* p->lock makes it (module Proc).  The last close of an end comes when    *)
(* nobody is in a call on that end, for a call holds its file open.        *)
(***************************************************************************)
EXTENDS Integers, Sequences

CONSTANTS Writers, Readers,
          Vals,          \* bytes
          PIPESIZE,
          CounterRange,  \* how many values an uint has
          MaxLen,        \* longest read or write
          Killable,      \* processes that may be killed
          None

ASSUME SizeAssumption ==
    /\ PIPESIZE \in Nat \ {0} /\ MaxLen \in Nat \ {0}
    /\ CounterRange \in Nat /\ CounterRange % PIPESIZE = 0 /\ CounterRange > PIPESIZE
ASSUME ProcsAssumption ==
    Writers \cap Readers = {} /\ None \notin Writers \cup Readers /\ Killable \subseteq Writers \cup Readers

Procs == Writers \cup Readers

VARIABLES lock, data, nread, nwrite, readopen, writeopen,  \* struct pipe
          pc, n, i,   \* each process: where it is, and the locals n and i
          killed      \* p->killed

ring == <<data, nread, nwrite>>
ends == <<readopen, writeopen>>
vars == <<lock, ring, ends, pc, n, i, killed>>

\* Mutant: the full test lets one byte too many in.
Full_OffByOne == nwrite = (nread + PIPESIZE + 1) % CounterRange
\* The test of pipewrite.
Full == nwrite = (nread + PIPESIZE) % CounterRange

\* The test of piperead.
Empty == nread = nwrite

\* wakeup: everyone asleep in state s goes back for the lock.
Woken(s) == [p \in Procs |-> IF pc[p] = s THEN "lock" ELSE pc[p]]

\* Process p lets go of pi->lock, after a wakeup that made npc of pc, and
\* sleeps in s, or returns; its locals are gone then.
Sleep(p, npc, s) == lock' = None /\ pc' = [npc EXCEPT ![p] = s] /\ UNCHANGED <<n, i>>
Return(p, npc) ==
    /\ lock' = None /\ pc' = [npc EXCEPT ![p] = "idle"]
    /\ n' = [n EXCEPT ![p] = 1] /\ i' = [i EXCEPT ![p] = 0]

\* Process p goes on with pi->lock held.
Go(p, s) == pc' = [pc EXCEPT ![p] = s] /\ UNCHANGED <<lock, n, i>>

-----------------------------------------------------------------------------
\* pipealloc
Init ==
    /\ lock = None
    /\ \E v \in Vals : data = [k \in 0 .. PIPESIZE - 1 |-> v]
    /\ nread = 0 /\ nwrite = 0
    /\ readopen = 1 /\ writeopen = 1
    /\ pc = [p \in Procs |-> "idle"]
    /\ n = [p \in Procs |-> 1] /\ i = [p \in Procs |-> 0]
    /\ killed = [p \in Procs |-> FALSE]

\* pipealloc again, once pipeclose has freed the page.
PipeAlloc ==
    /\ readopen = 0 /\ writeopen = 0
    /\ nread' = 0 /\ nwrite' = 0
    /\ readopen' = 1 /\ writeopen' = 1
    /\ killed' = [p \in Procs |-> FALSE]
    /\ UNCHANGED <<lock, data, pc, n, i>>

\* pipewrite or piperead is called on an open end.
Call(p, len) ==
    /\ pc[p] = "idle" /\ ~killed[p]
    /\ IF p \in Writers THEN writeopen = 1 ELSE readopen = 1
    /\ pc' = [pc EXCEPT ![p] = "lock"]
    /\ n' = [n EXCEPT ![p] = len]
    /\ i' = [i EXCEPT ![p] = 0]
    /\ UNCHANGED <<lock, ring, ends, killed>>

\* acquire(&pi->lock), at the start of the call or at the end of sleep.
Acquire(p) ==
    /\ pc[p] = "lock" /\ lock = None
    /\ lock' = p
    /\ pc' = [pc EXCEPT ![p] = "loop"]
    /\ UNCHANGED <<ring, ends, n, i, killed>>

\* The condition of both copying loops.
More(p) == i[p] < n[p]

-----------------------------------------------------------------------------
\* pipewrite's wakeup(&pi->nread) at its end.
WakeReaders == Woken("r_asleep")

\* pipewrite's loop condition, and its first test.
WriteLoop(p) ==
    /\ p \in Writers /\ pc[p] = "loop" /\ lock = p
    /\ \/ ~More(p) /\ Return(p, WakeReaders)
       \/ More(p) /\ (readopen = 0 \/ killed[p]) /\ Return(p, pc)
       \/ More(p) /\ readopen = 1 /\ ~killed[p] /\ Go(p, "put")
    /\ UNCHANGED <<ring, ends, killed>>

\* pipewrite on a full pipe.
WriteSleep(p) ==
    /\ pc[p] = "put" /\ Full
    /\ Sleep(p, Woken("r_asleep"), "w_asleep")
    /\ UNCHANGED <<ring, ends, killed>>

\* Where counter value k points to.
Slot(k) == k % PIPESIZE

\* pipewrite stores one byte.
WritePut(p, v) ==
    /\ pc[p] = "put" /\ ~Full
    /\ data' = [data EXCEPT ![Slot(nwrite)] = v]
    /\ nwrite' = (nwrite + 1) % CounterRange
    /\ i' = [i EXCEPT ![p] = @ + 1]
    /\ pc' = [pc EXCEPT ![p] = "loop"]
    /\ UNCHANGED <<lock, nread, ends, n, killed>>

\* copyin fails: what has been written stays.
WriteCopyFails(p) ==
    /\ pc[p] = "put" /\ ~Full
    /\ Return(p, WakeReaders)
    /\ UNCHANGED <<ring, ends, killed>>

-----------------------------------------------------------------------------
\* piperead's loop condition.
MustWait == Empty /\ writeopen = 1

\* piperead waits for a byte; the test of killed.
ReadLoop(p) ==
    /\ p \in Readers /\ pc[p] = "loop"
    /\ \/ MustWait /\ killed[p] /\ Return(p, pc)
       \/ MustWait /\ ~killed[p] /\ Go(p, "sleep")
       \/ ~MustWait /\ Go(p, "copy")
    /\ UNCHANGED <<ring, ends, killed>>

ReadSleep(p) ==
    /\ pc[p] = "sleep"
    /\ Sleep(p, pc, "r_asleep")
    /\ UNCHANGED <<ring, ends, killed>>

\* piperead copies one byte out.
ReadCopy(p) ==
    /\ pc[p] = "copy" /\ More(p) /\ ~Empty
    /\ nread' = (nread + 1) % CounterRange
    /\ i' = [i EXCEPT ![p] = @ + 1]
    /\ UNCHANGED <<lock, data, nwrite, ends, pc, n, killed>>

\* Mutant: piperead returns without waking the writers.
WakeWriters_Not == pc
\* piperead's wakeup(&pi->nwrite).
WakeWriters == Woken("w_asleep")

\* piperead returns: all read, nothing left, or copyout failed.
ReadDone(p) ==
    /\ pc[p] = "copy"
    /\ Return(p, WakeWriters)
    /\ UNCHANGED <<ring, ends, killed>>

-----------------------------------------------------------------------------
\* pipeclose of the write end.
CloseWrite ==
    /\ writeopen = 1 /\ lock = None /\ \A p \in Writers : pc[p] = "idle"
    /\ writeopen' = 0
    /\ pc' = Woken("r_asleep")
    /\ UNCHANGED <<lock, ring, readopen, n, i, killed>>

\* pipeclose of the read end.
CloseRead ==
    /\ readopen = 1 /\ lock = None /\ \A p \in Readers : pc[p] = "idle"
    /\ readopen' = 0
    /\ pc' = Woken("w_asleep")
    /\ UNCHANGED <<lock, ring, writeopen, n, i, killed>>

\* kkill of a process in a call.
Kill(p) ==
    /\ p \in Killable /\ pc[p] # "idle" /\ ~killed[p]
    /\ killed' = [killed EXCEPT ![p] = TRUE]
    /\ pc' = [pc EXCEPT ![p] = IF @ \in {"r_asleep", "w_asleep"} THEN "lock" ELSE @]
    /\ UNCHANGED <<lock, ring, ends, n, i>>

\* The steps within a call.
Work(p) ==
    \/ Acquire(p)
    \/ WriteLoop(p) \/ WriteSleep(p) \/ (\E v \in Vals : WritePut(p, v)) \/ WriteCopyFails(p)
    \/ ReadLoop(p) \/ ReadSleep(p) \/ ReadCopy(p) \/ ReadDone(p)

Next ==
    \/ PipeAlloc \/ CloseWrite \/ CloseRead
    \/ \E p \in Procs : (\E len \in 1 .. MaxLen : Call(p, len)) \/ Work(p) \/ Kill(p)

Spec == Init /\ [][Next]_vars

\* Fairness: a process in a call runs and gets pi->lock; the processes read
\* and write again and again, as long as their end is open, and copyin and
\* copyout do not fail for ever.
FairSpec ==
    /\ Spec
    /\ \A p \in Procs :
        /\ SF_vars(Work(p)) /\ WF_vars(\E len \in 1 .. MaxLen : Call(p, len))
        /\ SF_vars(ReadCopy(p) \/ \E v \in Vals : WritePut(p, v))

-----------------------------------------------------------------------------
\* How many bytes the pipe holds, and the bytes, oldest first.
Count == (nwrite - nread) % CounterRange
Queue == [k \in 1 .. Count |-> data[Slot(nread + k - 1)]]

Abstract == INSTANCE Fifo WITH q <- Queue, ropen <- readopen, wopen <- writeopen, Capacity <- PIPESIZE

\* pipewrite, piperead and pipeclose together implement a bounded queue.
ImplementsFifo == Abstract!FSpec

\* A read returns 0 bytes only at the end of the file: the pipe is empty
\* and its write end closed, however many readers compete for the bytes.
ZeroMeansEnd ==
    \A p \in Readers : pc[p] = "copy" /\ i[p] = 0 => ~Empty \/ writeopen = 0

\* piperead and pipewrite implement a bounded FIFO, and a read of 0 bytes
\* means the end of it, however many readers compete.
PipesCorrect == ImplementsFifo /\ []ZeroMeansEnd

\* With one reader and one writer, every read and every write returns.
CallsReturn == \A p \in Procs : pc[p] # "idle" ~> pc[p] = "idle"
=============================================================================
