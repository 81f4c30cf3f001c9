------------------------------ MODULE Spinlock ------------------------------
(***************************************************************************)
(* kernel/spinlock.c, one memory access at a time: acquire and release of  *)
(* spin locks on several CPUs, the nesting counter of push_off and         *)
(* pop_off, and device interrupts, whose handlers take locks too.          *)
(*                                                                         *)
(* The other modules treat the code between acquire and release as one     *)
(* atomic step; this module is the reason they may.                        *)
(*                                                                         *)
(* A CPU takes nested locks in increasing order, which is the caller's     *)
(* part of the bargain; locks are released in any order.                   *)
(***************************************************************************)
EXTENDS Integers, FiniteSets

CONSTANTS CPUs,
          Locks,   \* numbers: the order in which nested locks are taken
          NoCPU    \* lk->cpu = 0

ASSUME LocksAssumption == Locks \subseteq Nat /\ IsFiniteSet(Locks) /\ Locks # {}
ASSUME NoCPUAssumption == NoCPU \notin CPUs

VARIABLES locked, cpu,        \* struct spinlock
          noff, intena, sie,  \* struct cpu, and the SIE bit of sstatus
          pc, want,           \* each CPU: where it is in acquire or release of which lock
          held,               \* locks taken by acquire and not yet stored free
          saved,              \* the context an interrupt came upon
          panicked

lockvars == <<locked, cpu>>
irqvars == <<noff, intena, sie>>
vars == <<lockvars, irqvars, pc, want, held, saved, panicked>>

Goto(c, s) == pc' = [pc EXCEPT ![c] = s]

\* Some lock fills `want' where it means nothing.
NoLock == CHOOSE l \in Locks : TRUE

\* No interrupt is being handled.
Thread == [pc |-> "none", want |-> NoLock, held |-> {}]

\* Locks the running context has taken itself.
Own(c) == held[c] \ saved[c].held

-----------------------------------------------------------------------------
\* initlock of every lock; interrupts on, no push_off outstanding.
Init ==
    /\ locked = [l \in Locks |-> 0] /\ cpu = [l \in Locks |-> NoCPU]
    /\ noff = [c \in CPUs |-> 0] /\ intena = [c \in CPUs |-> 0] /\ sie = [c \in CPUs |-> 1]
    /\ pc = [c \in CPUs |-> "run"] /\ want = [c \in CPUs |-> NoLock]
    /\ held = [c \in CPUs |-> {}] /\ saved = [c \in CPUs |-> Thread]
    /\ panicked = 0

\* What rc_sstatus(SSTATUS_SIE) leaves of the SIE bits.
Masked(c) == [sie EXCEPT ![c] = 0]

\* Mutant: every push_off overwrites intena, nested ones with 0.
SavedEnable_Always(c) == [intena EXCEPT ![c] = sie[c]]
\* push_off remembers the bit when the nesting starts.
SavedEnable(c) == [intena EXCEPT ![c] = IF noff[c] = 0 THEN sie[c] ELSE @]

\* push_off counts the nesting.
Deeper(c) == [noff EXCEPT ![c] = @ + 1]

\* acquire starts: push_off.
PushOff(c, l) ==
    /\ panicked = 0 /\ pc[c] = "run" /\ \A k \in Own(c) : k < l
    /\ sie' = Masked(c) /\ intena' = SavedEnable(c) /\ noff' = Deeper(c)
    /\ want' = [want EXCEPT ![c] = l]
    /\ Goto(c, "locked?")
    /\ UNCHANGED <<lockvars, held, saved, panicked>>

\* acquire's holding(lk) reads lk->locked.
ReadLocked(c) ==
    /\ panicked = 0 /\ pc[c] = "locked?"
    /\ Goto(c, IF locked[want[c]] = 1 THEN "cpu?" ELSE "swap")
    /\ UNCHANGED <<lockvars, irqvars, want, held, saved, panicked>>

\* holding(lk) then reads lk->cpu; panic("acquire").
ReadCpu(c) ==
    /\ panicked = 0 /\ pc[c] = "cpu?"
    /\ panicked' = IF cpu[want[c]] = c THEN 1 ELSE 0
    /\ Goto(c, "swap")
    /\ UNCHANGED <<lockvars, irqvars, want, held, saved>>

\* Mutant: a test and a plain store instead of the atomic exchange.
Taken_Blindly(l) == TRUE
\* The exchange returned 0.
Taken(l) == locked[l] = 0

\* The atomic exchange that gets the lock; one that does not changes nothing.
Exchange(c) ==
    /\ panicked = 0 /\ pc[c] = "swap" /\ Taken(want[c])
    /\ locked' = [locked EXCEPT ![want[c]] = 1]
    /\ held' = [held EXCEPT ![c] = @ \cup {want[c]}]
    /\ Goto(c, "record")
    /\ UNCHANGED <<cpu, irqvars, want, saved, panicked>>

\* lk->cpu = mycpu()
Record(c) ==
    /\ panicked = 0 /\ pc[c] = "record"
    /\ cpu' = [cpu EXCEPT ![want[c]] = c]
    /\ want' = [want EXCEPT ![c] = NoLock]
    /\ Goto(c, "run")
    /\ UNCHANGED <<locked, irqvars, held, saved, panicked>>

-----------------------------------------------------------------------------
\* release: the test of holding, panic("release"), and lk->cpu = 0.
ClearCpu(c, l) ==
    /\ panicked = 0 /\ pc[c] = "run" /\ l \in Own(c)
    /\ panicked' = IF locked[l] = 1 /\ cpu[l] = c THEN 0 ELSE 1
    /\ cpu' = [cpu EXCEPT ![l] = NoCPU]
    /\ want' = [want EXCEPT ![c] = l]
    /\ Goto(c, "store")
    /\ UNCHANGED <<locked, irqvars, held, saved>>

\* The atomic store that frees the lock.
Store(c) ==
    /\ panicked = 0 /\ pc[c] = "store"
    /\ locked' = [locked EXCEPT ![want[c]] = 0]
    /\ held' = [held EXCEPT ![c] = @ \ {want[c]}]
    /\ Goto(c, "pop")
    /\ UNCHANGED <<cpu, irqvars, want, saved, panicked>>

\* pop_off turns interrupts on again.
Unmask(c) == noff[c] - 1 = 0 /\ intena[c] = 1

\* pop_off, with its two panics.
PopOff(c) ==
    /\ panicked = 0 /\ pc[c] = "pop"
    /\ panicked' = IF sie[c] = 1 \/ noff[c] < 1 THEN 1 ELSE 0
    /\ noff' = [noff EXCEPT ![c] = @ - 1]
    /\ sie' = [sie EXCEPT ![c] = IF Unmask(c) THEN 1 ELSE @]
    /\ want' = [want EXCEPT ![c] = NoLock]
    /\ Goto(c, "run")
    /\ UNCHANGED <<lockvars, intena, held, saved>>

-----------------------------------------------------------------------------
\* A device interrupts the thread: the hardware clears SIE and saves the
\* context, which kernelvec puts on the stack.
Interrupt(c) ==
    /\ panicked = 0 /\ sie[c] = 1 /\ saved[c] = Thread
    /\ saved' = [saved EXCEPT ![c] = [pc |-> pc[c], want |-> want[c], held |-> held[c]]]
    /\ sie' = [sie EXCEPT ![c] = 0]
    /\ want' = [want EXCEPT ![c] = NoLock]
    /\ Goto(c, "run")
    /\ UNCHANGED <<lockvars, noff, intena, held, panicked>>

\* The handler is done, with no lock of its own left; sret restores SIE.
Sret(c) ==
    /\ panicked = 0 /\ saved[c] # Thread /\ pc[c] = "run" /\ Own(c) = {}
    /\ saved' = [saved EXCEPT ![c] = Thread]
    /\ sie' = [sie EXCEPT ![c] = 1]
    /\ want' = [want EXCEPT ![c] = saved[c].want]
    /\ Goto(c, saved[c].pc)
    /\ UNCHANGED <<lockvars, noff, intena, held, panicked>>

Next == \E c \in CPUs :
    \/ \E l \in Locks : PushOff(c, l) \/ ClearCpu(c, l)
    \/ ReadLocked(c) \/ ReadCpu(c) \/ Exchange(c) \/ Record(c)
    \/ Store(c) \/ PopOff(c)
    \/ Interrupt(c) \/ Sret(c)

Spec == Init /\ [][Next]_vars

-----------------------------------------------------------------------------
\* Types of the locks and of each CPU's state.
TypeOK ==
    /\ locked \in [Locks -> 0 .. 1] /\ cpu \in [Locks -> CPUs \cup {NoCPU}]
    /\ noff \in [CPUs -> Nat] /\ intena \in [CPUs -> 0 .. 1] /\ sie \in [CPUs -> 0 .. 1]
    /\ pc \in [CPUs -> {"run", "locked?", "cpu?", "swap", "record", "store", "pop"}]
    /\ want \in [CPUs -> Locks]
    /\ held \in [CPUs -> SUBSET Locks]
    /\ saved \in [CPUs -> [pc : {"none", "run", "locked?", "cpu?", "swap", "record", "store", "pop"},
                           want : Locks, held : SUBSET Locks]]
    /\ panicked \in 0 .. 1

\* acquire and release exclude each other: no lock is held by two CPUs.
MutualExclusion ==
    \A c, d \in CPUs : c # d => held[c] \cap held[d] = {}

\* "disable interrupts to avoid deadlock": a CPU that spins for a lock does
\* not hold it already, as it would if an interrupt handler wanted a lock
\* of the thread it interrupted.
NoSelfDeadlock == \A c \in CPUs : pc[c] = "swap" => want[c] \notin held[c]

\* holding() reads locked and cpu one after the other, with the lock in
\* another CPU's hands; still neither acquire, release nor pop_off panics.
NeverPanics == panicked = 0

\* "push_off/pop_off are matched": outside acquire and release, interrupts
\* are on exactly in a thread that holds no lock, and off in a handler.
InterruptsMatched ==
    \A c \in CPUs : pc[c] = "run" => (sie[c] = 1 <=> (held[c] = {} /\ saved[c] = Thread))
=============================================================================
