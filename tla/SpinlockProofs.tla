--------------------------- MODULE SpinlockProofs ---------------------------
(***************************************************************************)
(* Proofs about Spinlock, for any number of CPUs and locks: mutual         *)
(* exclusion, no spinning for a lock of one's own, no false panic, and     *)
(* interrupts that match the nesting of locks.                             *)
(***************************************************************************)
EXTENDS Spinlock, TLAPS, FiniteSetTheorems

\* A push_off is outstanding for a lock not, or no longer, held.
Inflight(c) == IF pc[c] \in {"locked?", "cpu?", "swap", "pop"} THEN 1 ELSE 0

\* lk->locked is set exactly while some CPU holds the lock.
LockedIffHeld == \A l \in Locks : locked[l] = 1 <=> \E c \in CPUs : l \in held[c]

\* lk->cpu names the holder, except right after the exchange and before the store.
CpuNamesHolder ==
    \A c \in CPUs, l \in Locks :
        /\ pc[c] = "store" => cpu[want[c]] # c
        /\ cpu[l] = c => l \in held[c]
        /\ l \in held[c] => cpu[l] = c \/ (pc[c] \in {"record", "store"} /\ want[c] = l)

\* A CPU holds the lock it is at work on between the exchange and the store.
WantByPc ==
    \A c \in CPUs :
        /\ pc[c] \in {"record", "store"} => want[c] \in held[c]
        /\ pc[c] \in {"locked?", "cpu?", "swap"} => want[c] \notin held[c]

\* Interrupts come upon threads outside acquire and release that hold nothing.
SavedClean ==
    \A c \in CPUs : saved[c].held = {} /\ (saved[c] # Thread => saved[c].pc = "run")

\* noff counts the locks held and the push_off in flight.
Nesting == \A c \in CPUs : noff[c] = Cardinality(held[c]) + Inflight(c)

\* Interrupts are on in a thread at nesting level 0; intena remembers that.
Masking ==
    \A c \in CPUs :
        /\ sie[c] = 1 <=> (noff[c] = 0 /\ saved[c] = Thread)
        /\ noff[c] > 0 => (intena[c] = 1 <=> saved[c] = Thread)

IndInv ==
    /\ TypeOK /\ NeverPanics /\ MutualExclusion
    /\ LockedIffHeld /\ CpuNamesHolder /\ WantByPc /\ SavedClean /\ Nesting /\ Masking


-----------------------------------------------------------------------------
\* A set of locks is finite, so counting it makes sense.
LEMMA LockSets ==
    ASSUME NEW S \in SUBSET Locks, NEW x
    PROVE  /\ Cardinality(S) \in Nat
           /\ Cardinality(S) = 0 <=> S = {}
           /\ x \notin S => Cardinality(S \cup {x}) = Cardinality(S) + 1
           /\ x \in S => Cardinality(S \ {x}) = Cardinality(S) - 1
    BY LocksAssumption, FS_Subset, FS_CardinalityType, FS_EmptySet, FS_AddElement, FS_RemoveElement

\* There is a lock to fill `want' with.
LEMMA NoLockType == NoLock \in Locks
    BY LocksAssumption DEF NoLock

\* The state initlock leaves satisfies the invariant.
LEMMA InitIndInv == Init => IndInv
  <1> SUFFICES ASSUME Init PROVE IndInv
    OBVIOUS
  <1> USE NoLockType DEF Init
  <1>1. TypeOK /\ NeverPanics /\ MutualExclusion
    BY DEF TypeOK, NeverPanics, MutualExclusion, Thread
  <1>2. LockedIffHeld /\ CpuNamesHolder /\ WantByPc /\ SavedClean
    BY NoCPUAssumption DEF LockedIffHeld, CpuNamesHolder, WantByPc, SavedClean, Thread
  <1>3. Nesting /\ Masking
    BY FS_EmptySet DEF Nesting, Inflight, Masking
  <1> QED
    BY <1>1, <1>2, <1>3 DEF IndInv

\* push_off raises the nesting level for a lock the CPU does not hold.
LEMMA PushOffKeeps ==
    ASSUME IndInv, NEW c \in CPUs, NEW l \in Locks, PushOff(c, l)
    PROVE  IndInv'
  <1> USE NoLockType DEF IndInv, PushOff, Goto, lockvars, irqvars, Masked, SavedEnable, Deeper, Own
  <1>0. l \notin held[c]
    BY LocksAssumption DEF TypeOK, SavedClean
  <1>1. TypeOK'
    BY DEF TypeOK, Thread
  <1>2. NeverPanics'
    BY DEF TypeOK, NeverPanics, CpuNamesHolder, WantByPc, LockedIffHeld, Nesting, Inflight, Masking
  <1>3. MutualExclusion' /\ LockedIffHeld'
    BY DEF TypeOK, MutualExclusion, LockedIffHeld, WantByPc
  <1>4. CpuNamesHolder'
    BY NoCPUAssumption DEF TypeOK, CpuNamesHolder, WantByPc, MutualExclusion
  <1>5. WantByPc' /\ SavedClean'
    BY <1>0 DEF TypeOK, WantByPc, SavedClean
  <1>6. Nesting'
    <2> SUFFICES ASSUME NEW d \in CPUs PROVE noff'[d] = Cardinality(held'[d]) + Inflight(d)'
      BY DEF Nesting
    <2>1. noff[d] = Cardinality(held[d]) + Inflight(d) /\ Cardinality(held[d]) \in Nat
      BY LockSets DEF TypeOK, Nesting
    <2>2. CASE d = c
      BY <2>1, <2>2 DEF TypeOK, Inflight
    <2>3. CASE d # c
      BY <2>1, <2>3 DEF TypeOK, Inflight
    <2> QED
      BY <2>2, <2>3
  <1>7. Masking'
    BY LockSets DEF TypeOK, Masking, Nesting, Inflight
  <1> QED
    BY <1>1, <1>2, <1>3, <1>4, <1>5, <1>6, <1>7

\* Reading lk->locked changes nothing but the program counter.
LEMMA ReadLockedKeeps ==
    ASSUME IndInv, NEW c \in CPUs, ReadLocked(c)
    PROVE  IndInv'
  <1> USE NoLockType DEF IndInv, ReadLocked, Goto, lockvars, irqvars
  <1>1. TypeOK'
    BY DEF TypeOK, Thread
  <1>2. NeverPanics'
    BY DEF TypeOK, NeverPanics, CpuNamesHolder, WantByPc, LockedIffHeld, Nesting, Inflight, Masking
  <1>3. MutualExclusion' /\ LockedIffHeld'
    BY DEF TypeOK, MutualExclusion, LockedIffHeld, WantByPc
  <1>4. CpuNamesHolder'
    BY NoCPUAssumption DEF TypeOK, CpuNamesHolder, WantByPc, MutualExclusion
  <1>5. WantByPc' /\ SavedClean'
    BY DEF TypeOK, WantByPc, SavedClean
  <1>6. Nesting'
    BY LockSets DEF TypeOK, Nesting, Inflight, WantByPc
  <1>7. Masking'
    BY LockSets DEF TypeOK, Masking, Nesting, Inflight
  <1> QED
    BY <1>1, <1>2, <1>3, <1>4, <1>5, <1>6, <1>7

\* Reading lk->cpu never finds the reader, which does not hold the lock.
LEMMA ReadCpuKeeps ==
    ASSUME IndInv, NEW c \in CPUs, ReadCpu(c)
    PROVE  IndInv'
  <1> USE NoLockType DEF IndInv, ReadCpu, Goto, lockvars, irqvars
  <1>1. TypeOK'
    BY DEF TypeOK, Thread
  <1>2. NeverPanics'
    BY DEF TypeOK, NeverPanics, CpuNamesHolder, WantByPc, LockedIffHeld, Nesting, Inflight, Masking
  <1>3. MutualExclusion' /\ LockedIffHeld'
    BY DEF TypeOK, MutualExclusion, LockedIffHeld, WantByPc
  <1>4. CpuNamesHolder'
    BY NoCPUAssumption DEF TypeOK, CpuNamesHolder, WantByPc, MutualExclusion
  <1>5. WantByPc' /\ SavedClean'
    BY DEF TypeOK, WantByPc, SavedClean
  <1>6. Nesting'
    BY LockSets DEF TypeOK, Nesting, Inflight, WantByPc
  <1>7. Masking'
    BY LockSets DEF TypeOK, Masking, Nesting, Inflight
  <1> QED
    BY <1>1, <1>2, <1>3, <1>4, <1>5, <1>6, <1>7

\* The exchange gives the lock to one CPU, and only if none had it.
LEMMA ExchangeKeeps ==
    ASSUME IndInv, NEW c \in CPUs, Exchange(c)
    PROVE  IndInv'
  <1> USE NoLockType DEF IndInv, Exchange, Goto, lockvars, irqvars, Taken
  <1>0. Cardinality(held[c] \cup {want[c]}) = Cardinality(held[c]) + 1
    BY LockSets DEF TypeOK, WantByPc
  <1>1. TypeOK'
    BY DEF TypeOK, Thread
  <1>2. NeverPanics'
    BY DEF TypeOK, NeverPanics, CpuNamesHolder, WantByPc, LockedIffHeld, Nesting, Inflight, Masking
  <1>3. MutualExclusion' /\ LockedIffHeld'
    BY DEF TypeOK, MutualExclusion, LockedIffHeld, WantByPc
  <1>4. CpuNamesHolder'
    BY NoCPUAssumption DEF TypeOK, CpuNamesHolder, WantByPc, MutualExclusion
  <1>5. WantByPc' /\ SavedClean'
    BY DEF TypeOK, WantByPc, SavedClean
  <1>6. Nesting'
    <2> SUFFICES ASSUME NEW d \in CPUs PROVE noff'[d] = Cardinality(held'[d]) + Inflight(d)'
      BY DEF Nesting
    <2>1. noff[d] = Cardinality(held[d]) + Inflight(d) /\ Cardinality(held[d]) \in Nat
      BY LockSets DEF TypeOK, Nesting
    <2>2. CASE d = c
      BY <1>0, <2>1, <2>2 DEF TypeOK, Inflight
    <2>3. CASE d # c
      BY <2>1, <2>3 DEF TypeOK, Inflight
    <2> QED
      BY <2>2, <2>3
  <1>7. Masking'
    BY LockSets DEF TypeOK, Masking, Nesting, Inflight
  <1> QED
    BY <1>1, <1>2, <1>3, <1>4, <1>5, <1>6, <1>7

\* The holder enters its name.
LEMMA RecordKeeps ==
    ASSUME IndInv, NEW c \in CPUs, Record(c)
    PROVE  IndInv'
  <1> USE NoLockType DEF IndInv, Record, Goto, lockvars, irqvars
  <1>1. TypeOK'
    BY DEF TypeOK, Thread
  <1>2. NeverPanics'
    BY DEF TypeOK, NeverPanics, CpuNamesHolder, WantByPc, LockedIffHeld, Nesting, Inflight, Masking
  <1>3. MutualExclusion' /\ LockedIffHeld'
    BY DEF TypeOK, MutualExclusion, LockedIffHeld, WantByPc
  <1>4. CpuNamesHolder'
    BY NoCPUAssumption DEF TypeOK, CpuNamesHolder, WantByPc, MutualExclusion
  <1>5. WantByPc' /\ SavedClean'
    BY DEF TypeOK, WantByPc, SavedClean
  <1>6. Nesting'
    BY LockSets DEF TypeOK, Nesting, Inflight, WantByPc
  <1>7. Masking'
    BY LockSets DEF TypeOK, Masking, Nesting, Inflight
  <1> QED
    BY <1>1, <1>2, <1>3, <1>4, <1>5, <1>6, <1>7

\* release finds its own name in the lock.
LEMMA ClearCpuKeeps ==
    ASSUME IndInv, NEW c \in CPUs, NEW l \in Locks, ClearCpu(c, l)
    PROVE  IndInv'
  <1> USE NoLockType DEF IndInv, ClearCpu, Goto, lockvars, irqvars, Own
  <1>1. TypeOK'
    BY DEF TypeOK, Thread
  <1>2. NeverPanics'
    BY DEF TypeOK, NeverPanics, CpuNamesHolder, WantByPc, LockedIffHeld, Nesting, Inflight, Masking
  <1>3. MutualExclusion' /\ LockedIffHeld'
    BY DEF TypeOK, MutualExclusion, LockedIffHeld, WantByPc
  <1>4. CpuNamesHolder'
    BY NoCPUAssumption DEF TypeOK, CpuNamesHolder, WantByPc, MutualExclusion
  <1>5. WantByPc' /\ SavedClean'
    BY DEF TypeOK, WantByPc, SavedClean
  <1>6. Nesting'
    BY LockSets DEF TypeOK, Nesting, Inflight, WantByPc
  <1>7. Masking'
    BY LockSets DEF TypeOK, Masking, Nesting, Inflight
  <1> QED
    BY <1>1, <1>2, <1>3, <1>4, <1>5, <1>6, <1>7

\* The store frees a lock its CPU holds.
LEMMA StoreKeeps ==
    ASSUME IndInv, NEW c \in CPUs, Store(c)
    PROVE  IndInv'
  <1> USE NoLockType DEF IndInv, Store, Goto, lockvars, irqvars
  <1>0. Cardinality(held[c] \ {want[c]}) = Cardinality(held[c]) - 1
    BY LockSets DEF TypeOK, WantByPc
  <1>1. TypeOK'
    BY DEF TypeOK, Thread
  <1>2. NeverPanics'
    BY DEF TypeOK, NeverPanics, CpuNamesHolder, WantByPc, LockedIffHeld, Nesting, Inflight, Masking
  <1>3. MutualExclusion' /\ LockedIffHeld'
    BY DEF TypeOK, MutualExclusion, LockedIffHeld, WantByPc
  <1>4. CpuNamesHolder'
    BY NoCPUAssumption DEF TypeOK, CpuNamesHolder, WantByPc, MutualExclusion
  <1>5. WantByPc' /\ SavedClean'
    BY DEF TypeOK, WantByPc, SavedClean
  <1>6. Nesting'
    <2> SUFFICES ASSUME NEW d \in CPUs PROVE noff'[d] = Cardinality(held'[d]) + Inflight(d)'
      BY DEF Nesting
    <2>1. noff[d] = Cardinality(held[d]) + Inflight(d) /\ Cardinality(held[d]) \in Nat
      BY LockSets DEF TypeOK, Nesting
    <2>2. CASE d = c
      BY <1>0, <2>1, <2>2 DEF TypeOK, Inflight
    <2>3. CASE d # c
      BY <2>1, <2>3 DEF TypeOK, Inflight
    <2> QED
      BY <2>2, <2>3
  <1>7. Masking'
    BY LockSets DEF TypeOK, Masking, Nesting, Inflight
  <1> QED
    BY <1>1, <1>2, <1>3, <1>4, <1>5, <1>6, <1>7

\* pop_off finds interrupts off and the level positive.
LEMMA PopOffKeeps ==
    ASSUME IndInv, NEW c \in CPUs, PopOff(c)
    PROVE  IndInv'
  <1> USE NoLockType DEF IndInv, PopOff, Goto, lockvars, irqvars, Unmask
  <1>0. noff[c] = Cardinality(held[c]) + 1 /\ Cardinality(held[c]) \in Nat /\ sie[c] = 0
    <2>1. Cardinality(held[c]) \in Nat
      BY LockSets DEF TypeOK
    <2>2. noff[c] = Cardinality(held[c]) + 1
      BY DEF Nesting, Inflight
    <2> QED
      BY <2>1, <2>2 DEF TypeOK, Masking
  <1>1. TypeOK'
    BY <1>0 DEF TypeOK
  <1>2. NeverPanics'
    BY <1>0 DEF NeverPanics
  <1>3. MutualExclusion' /\ LockedIffHeld'
    BY DEF TypeOK, MutualExclusion, LockedIffHeld, WantByPc
  <1>4. CpuNamesHolder'
    BY NoCPUAssumption DEF TypeOK, CpuNamesHolder, WantByPc, MutualExclusion
  <1>5. WantByPc' /\ SavedClean'
    BY DEF TypeOK, WantByPc, SavedClean
  <1>6. Nesting'
    <2> SUFFICES ASSUME NEW d \in CPUs PROVE noff'[d] = Cardinality(held'[d]) + Inflight(d)'
      BY DEF Nesting
    <2>1. noff[d] = Cardinality(held[d]) + Inflight(d) /\ Cardinality(held[d]) \in Nat
      BY LockSets DEF TypeOK, Nesting
    <2>2. CASE d = c
      BY <1>0, <2>1, <2>2 DEF TypeOK, Inflight
    <2>3. CASE d # c
      BY <2>1, <2>3 DEF TypeOK, Inflight
    <2> QED
      BY <2>2, <2>3
  <1>7. Masking'
    BY <1>0 DEF TypeOK, Masking
  <1> QED
    BY <1>1, <1>2, <1>3, <1>4, <1>5, <1>6, <1>7

\* An interrupt comes upon a CPU that holds nothing.
LEMMA InterruptKeeps ==
    ASSUME IndInv, NEW c \in CPUs, Interrupt(c)
    PROVE  IndInv'
  <1> USE NoLockType DEF IndInv, Interrupt, Goto, lockvars, irqvars
  <1>0. pc[c] = "run" /\ held[c] = {} /\ noff[c] = 0
    <2>1. Cardinality(held[c]) \in Nat /\ (Cardinality(held[c]) = 0 <=> held[c] = {})
      BY LockSets DEF TypeOK
    <2>2. noff[c] = 0 /\ Cardinality(held[c]) = 0 /\ Inflight(c) = 0
      BY <2>1 DEF TypeOK, Nesting, Inflight, Masking
    <2> QED
      BY <2>1, <2>2 DEF TypeOK, Inflight, WantByPc
  <1>1. TypeOK'
    BY DEF TypeOK, Thread
  <1>2. NeverPanics'
    BY DEF TypeOK, NeverPanics, CpuNamesHolder, WantByPc, LockedIffHeld, Nesting, Inflight, Masking
  <1>3. MutualExclusion' /\ LockedIffHeld'
    BY DEF TypeOK, MutualExclusion, LockedIffHeld, WantByPc
  <1>4. CpuNamesHolder'
    BY <1>0 DEF TypeOK, CpuNamesHolder, WantByPc, MutualExclusion
  <1>5. WantByPc' /\ SavedClean'
    BY <1>0 DEF TypeOK, WantByPc, SavedClean
  <1>6. Nesting'
    <2> SUFFICES ASSUME NEW d \in CPUs PROVE noff'[d] = Cardinality(held'[d]) + Inflight(d)'
      BY DEF Nesting
    <2>1. noff[d] = Cardinality(held[d]) + Inflight(d) /\ Cardinality(held[d]) \in Nat
      BY LockSets DEF TypeOK, Nesting
    <2>2. CASE d = c
      BY <1>0, <2>1, <2>2 DEF TypeOK, Inflight
    <2>3. CASE d # c
      BY <2>1, <2>3 DEF TypeOK, Inflight
    <2> QED
      BY <2>2, <2>3
  <1>7. Masking'
    <2>1. saved'[c] # Thread /\ \A d \in CPUs \ {c} : saved'[d] = saved[d]
      BY <1>0 DEF TypeOK, Thread
    <2> QED
      BY <1>0, <2>1 DEF TypeOK, Masking
  <1> QED
    BY <1>1, <1>2, <1>3, <1>4, <1>5, <1>6, <1>7

\* The return from an interrupt restores a clean context.
LEMMA SretKeeps ==
    ASSUME IndInv, NEW c \in CPUs, Sret(c)
    PROVE  IndInv'
  <1> USE NoLockType DEF IndInv, Sret, Goto, lockvars, irqvars, Own
  <1>0. saved[c].pc = "run" /\ saved[c].want \in Locks /\ held[c] = {} /\ noff[c] = 0
    <2>1. saved[c].pc = "run" /\ saved[c].want \in Locks /\ held[c] = {}
      BY DEF TypeOK, SavedClean
    <2>2. Cardinality(held[c]) = 0
      BY <2>1, FS_EmptySet
    <2>3. noff[c] = Cardinality(held[c]) + 0
      BY DEF Nesting, Inflight
    <2> QED
      BY <2>1, <2>2, <2>3
  <1>1. TypeOK'
    <2>1. pc' \in [CPUs -> {"run", "locked?", "cpu?", "swap", "record", "store", "pop"}] /\ want' \in [CPUs -> Locks]
      BY <1>0 DEF TypeOK
    <2>2. saved' \in [CPUs -> [pc : {"none", "run", "locked?", "cpu?", "swap", "record", "store", "pop"},
                               want : Locks, held : SUBSET Locks]]
      BY DEF TypeOK, Thread
    <2>3. sie' \in [CPUs -> 0 .. 1]
      BY DEF TypeOK
    <2> QED
      BY <2>1, <2>2, <2>3 DEF TypeOK
  <1>2. NeverPanics'
    BY DEF TypeOK, NeverPanics, CpuNamesHolder, WantByPc, LockedIffHeld, Nesting, Inflight, Masking
  <1>3. MutualExclusion' /\ LockedIffHeld'
    BY DEF TypeOK, MutualExclusion, LockedIffHeld, WantByPc
  <1>4. CpuNamesHolder'
    BY <1>0 DEF TypeOK, CpuNamesHolder
  <1>5. WantByPc' /\ SavedClean'
    BY <1>0 DEF TypeOK, WantByPc, SavedClean, Thread
  <1>6. Nesting'
    <2> SUFFICES ASSUME NEW d \in CPUs PROVE noff'[d] = Cardinality(held'[d]) + Inflight(d)'
      BY DEF Nesting
    <2>1. noff[d] = Cardinality(held[d]) + Inflight(d) /\ Cardinality(held[d]) \in Nat
      BY LockSets DEF TypeOK, Nesting
    <2>2. CASE d = c
      BY <1>0, <2>1, <2>2 DEF TypeOK, Inflight
    <2>3. CASE d # c
      BY <2>1, <2>3 DEF TypeOK, Inflight
    <2> QED
      BY <2>2, <2>3
  <1>7. Masking'
    BY <1>0 DEF TypeOK, Masking
  <1> QED
    BY <1>1, <1>2, <1>3, <1>4, <1>5, <1>6, <1>7

-----------------------------------------------------------------------------
\* The invariant holds throughout: no instruction of acquire, release, push_off
\* or pop_off, on any CPU, and no interrupt breaks it.
THEOREM Invariance == Spec => []IndInv
  <1>1. IndInv /\ [Next]_vars => IndInv'
    <2> SUFFICES ASSUME IndInv, [Next]_vars PROVE IndInv'
      OBVIOUS
    <2>1. CASE Next
      BY <2>1, PushOffKeeps, ReadLockedKeeps, ReadCpuKeeps, ExchangeKeeps, RecordKeeps,
         ClearCpuKeeps, StoreKeeps, PopOffKeeps, InterruptKeeps, SretKeeps DEF Next
    <2>2. CASE UNCHANGED vars
      <3> USE <2>2 DEF vars, lockvars, irqvars, IndInv
      <3>1. TypeOK' /\ NeverPanics' /\ MutualExclusion'
        BY DEF TypeOK, NeverPanics, MutualExclusion
      <3>2. LockedIffHeld' /\ CpuNamesHolder' /\ WantByPc'
        BY DEF LockedIffHeld, CpuNamesHolder, WantByPc
      <3>3. SavedClean' /\ Nesting' /\ Masking'
        BY DEF SavedClean, Nesting, Inflight, Masking
      <3> QED
        BY <3>1, <3>2, <3>3
    <2> QED
      BY <2>1, <2>2
  <1> QED
    BY InitIndInv, <1>1, PTL DEF Spec

\* acquire and release exclude one another on any number of CPUs: no lock is
\* ever held by two of them.
THEOREM MutualExclusionCorrect == Spec => []MutualExclusion
  <1>1. IndInv => MutualExclusion
    BY DEF IndInv
  <1> QED
    BY <1>1, Invariance, PTL

\* A CPU never spins for a lock it holds itself, interrupt handlers included.
THEOREM NoSelfDeadlockCorrect == Spec => []NoSelfDeadlock
  <1>1. IndInv => NoSelfDeadlock
    BY DEF IndInv, NoSelfDeadlock, WantByPc
  <1> QED
    BY <1>1, Invariance, PTL

\* None of the panics of acquire, release and pop_off is ever reached, although
\* holding() reads two words of a lock that another CPU may be changing.
THEOREM NeverPanicsCorrect == Spec => []NeverPanics
  <1>1. IndInv => NeverPanics
    BY DEF IndInv
  <1> QED
    BY <1>1, Invariance, PTL

\* Outside acquire and release a CPU takes interrupts exactly when it runs a
\* thread that holds no lock.
THEOREM InterruptsMatchedCorrect == Spec => []InterruptsMatched
  <1>1. ASSUME IndInv PROVE InterruptsMatched
    <2> SUFFICES ASSUME NEW c \in CPUs, pc[c] = "run"
                 PROVE  sie[c] = 1 <=> (held[c] = {} /\ saved[c] = Thread)
      BY DEF InterruptsMatched
    <2>1. noff[c] = 0 <=> held[c] = {}
      <3>1. Cardinality(held[c]) = 0 <=> held[c] = {}
        BY <1>1, LockSets DEF IndInv, TypeOK
      <3>2. noff[c] = Cardinality(held[c]) + 0 /\ Cardinality(held[c]) \in Nat
        BY <1>1, LockSets DEF IndInv, TypeOK, Nesting, Inflight
      <3> QED
        BY <3>1, <3>2
    <2> QED
      BY <1>1, <2>1 DEF IndInv, Masking
  <1> QED
    BY <1>1, Invariance, PTL

=============================================================================
