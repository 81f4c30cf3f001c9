------------------------------- MODULE Clock --------------------------------
(***************************************************************************)
(* Clock ticks (clockintr in kernel/trap.c) and the processes that wait    *)
(* for them in sys_pause (kernel/sysproc.c).  ticks is an unsigned counter *)
(* that wraps around; tickslock guards it.                                 *)
(***************************************************************************)
EXTENDS Integers

CONSTANTS Procs,
          TickRange,  \* how many values an uint has
          MaxPause,   \* longest pause
          MaxLag,     \* most ticks for which a process whose time has come does not run
          None

RangeAssumption ==
    TickRange \in Nat /\ MaxPause \in Nat /\ MaxLag \in Nat /\ MaxPause + MaxLag < TickRange
NoneAssumption == None \notin Procs

VARIABLES ticks, tickslock,
          pc, n, ticks0,  \* each process in sys_pause, and its locals
          killed,
          waited          \* history: ticks that have passed since ticks0 was read

locals == <<n, ticks0>>
vars == <<ticks, tickslock, pc, locals, killed, waited>>

Init ==
    /\ ticks = 0 /\ tickslock = None
    /\ pc = [p \in Procs |-> "idle"]
    /\ n = [p \in Procs |-> 0] /\ ticks0 = [p \in Procs |-> 0]
    /\ killed = [p \in Procs |-> FALSE]
    /\ waited = [p \in Procs |-> 0]

Counts(p) == pc[p] \notin {"idle", "start"}

\* wakeup(&ticks)
Woken == [p \in Procs |-> IF pc[p] = "asleep" THEN "lock" ELSE pc[p]]

\* clockintr on CPU 0.  The bound MaxLag stands for a scheduler that does
\* not forget a process for 2^32 ticks.
ClockIntr ==
    /\ tickslock = None
    /\ \A p \in Procs : Counts(p) => waited[p] < n[p] + MaxLag
    /\ ticks' = (ticks + 1) % TickRange
    /\ pc' = Woken
    /\ waited' = [p \in Procs |-> IF Counts(p) THEN waited[p] + 1 ELSE waited[p]]
    /\ UNCHANGED <<tickslock, locals, killed>>

\* What sys_pause makes of its argument.
Clamped(arg) == IF arg < 0 THEN 0 ELSE arg

\* sys_pause is called; a negative argument counts as 0.
Pause(p, arg) ==
    /\ pc[p] = "idle" /\ ~killed[p]
    /\ n' = [n EXCEPT ![p] = Clamped(arg)]
    /\ pc' = [pc EXCEPT ![p] = "start"]
    /\ UNCHANGED <<ticks, tickslock, ticks0, killed, waited>>

\* acquire(&tickslock) and the first read of ticks.
Start(p) ==
    /\ pc[p] = "start" /\ tickslock = None
    /\ tickslock' = p
    /\ ticks0' = [ticks0 EXCEPT ![p] = ticks]
    /\ pc' = [pc EXCEPT ![p] = "loop"]
    /\ UNCHANGED <<ticks, n, killed, waited>>

\* acquire(&tickslock) at the end of sleep.
Acquire(p) ==
    /\ pc[p] = "lock" /\ tickslock = None
    /\ tickslock' = p
    /\ pc' = [pc EXCEPT ![p] = "loop"]
    /\ UNCHANGED <<ticks, locals, killed, waited>>

\* Mutant: the deadline is computed first, and compared with ticks.
TooEarly_Deadline(p) == ticks < (ticks0[p] + n[p]) % TickRange
\* sys_pause's loop condition, in unsigned arithmetic.
TooEarly(p) == (ticks - ticks0[p]) % TickRange < n[p]

Return(p) ==
    /\ tickslock' = None
    /\ pc' = [pc EXCEPT ![p] = "idle"]
    /\ n' = [n EXCEPT ![p] = 0] /\ ticks0' = [ticks0 EXCEPT ![p] = 0]
    /\ waited' = [waited EXCEPT ![p] = 0]

\* Time is up.
Done(p) ==
    /\ pc[p] = "loop" /\ ~TooEarly(p)
    /\ Return(p)
    /\ UNCHANGED <<ticks, killed>>

\* Too early: return if killed, else sleep.
Wait(p) ==
    /\ pc[p] = "loop" /\ TooEarly(p)
    /\ IF killed[p]
       THEN Return(p)
       ELSE pc' = [pc EXCEPT ![p] = "sleep"] /\ UNCHANGED <<tickslock, locals, waited>>
    /\ UNCHANGED <<ticks, killed>>

\* sleep(&ticks, &tickslock)
Sleep(p) ==
    /\ pc[p] = "sleep"
    /\ tickslock' = None
    /\ pc' = [pc EXCEPT ![p] = "asleep"]
    /\ UNCHANGED <<ticks, locals, killed, waited>>

\* kkill
Kill(p) ==
    /\ pc[p] # "idle" /\ ~killed[p]
    /\ killed' = [killed EXCEPT ![p] = TRUE]
    /\ pc' = [pc EXCEPT ![p] = IF @ = "asleep" THEN "lock" ELSE @]
    /\ UNCHANGED <<ticks, tickslock, locals, waited>>

Work(p) == Start(p) \/ Acquire(p) \/ Done(p) \/ Wait(p) \/ Sleep(p)

Next ==
    \/ ClockIntr
    \/ \E p \in Procs : (\E arg \in -1 .. MaxPause : Pause(p, arg)) \/ Work(p) \/ Kill(p)

Spec == Init /\ [][Next]_vars

\* Fairness: ticks come, and a process in sys_pause runs and gets tickslock.
FairSpec == Spec /\ SF_vars(ClockIntr) /\ \A p \in Procs : SF_vars(Work(p))

-----------------------------------------------------------------------------
\* A pause lasts for n ticks at least, also when ticks wraps around in
\* between, unless the process is killed.
PauseLongEnough ==
    [][\A p \in Procs : pc[p] = "loop" /\ pc'[p] = "idle" => waited[p] >= n[p] \/ killed[p]]_vars

\* Every pause ends.
PausesEnd == \A p \in Procs : pc[p] # "idle" ~> pc[p] = "idle"
=============================================================================
