------------------------------- MODULE MCUser -------------------------------
(***************************************************************************)
(* The way between user and kernel (Trap), alarms (Alarm), and programs,   *)
(* namely user-level threads (Uthread), malloc (Umalloc), the matcher of   *)
(* grep (GrepMatch), the string functions (Strings) and mkfs (MkFs), for   *)
(* TLC.  These parts share no variable, so that every behaviour of them    *)
(* together is one of each by itself: each is explored with the others at  *)
(* rest, `unit' being the one that runs.                                   *)
(***************************************************************************)
EXTENDS Integers, Sequences, FiniteSets, TLC

CONSTANTS NPROC, Harts, None,                                 \* Trap
          Main, Handler, Vals, Entry, MaxInterval,            \* Alarm
          MAX_THREAD, Points,                                 \* Uthread
          Bottom, Top, MinGrow, MaxUnits,                     \* Umalloc
          ReChars, TextChars, MaxRe, MaxText,                 \* GrepMatch
          MEMSIZE, Chars,                                     \* Strings
          FSSIZE, LOGBLOCKS, NINODES, IPB, BPB, BSIZE, NDIRECT, Lengths, MaxFiles   \* MkFs

VARIABLES unit,
          hart, cpu, frame, context, stack, lock, pstate, want,
          tf, alarm_trapframe, alarm_interval, alarm_ticks, alarm_active, interrupted,
          state, current, ctx, regs, exited, reached, passed,
          heap, brk, used, gaps,
          re, text, result,
          mem,
          input, pc, file, pos, disk, freeinode, freeblock, app

traps == <<hart, cpu, frame, context, stack, lock, pstate, want>>
alarm == <<tf, alarm_trapframe, alarm_interval, alarm_ticks, alarm_active, interrupted>>
threads == <<state, current, ctx, regs, exited, reached, passed>>
malloc == <<heap, brk, used, gaps>>
grep == <<re, text, result>>
mkfs == <<input, pc, file, pos, disk, freeinode, freeblock, app>>
vars == <<unit, traps, alarm, threads, malloc, grep, mem, mkfs>>

R == INSTANCE Trap WITH state <- pstate
A == INSTANCE Alarm
T == INSTANCE Uthread
M == INSTANCE Umalloc
G == INSTANCE GrepMatch
S == INSTANCE Strings
F == INSTANCE MkFs

ASSUME R!TrapAssumption /\ A!CodeAssumption /\ A!ValsAssumption
ASSUME T!ThreadsAssumption /\ M!BoundsAssumption /\ S!MemAssumption /\ F!SizesAssumption

Init ==
    /\ unit \in {"traps", "alarm", "threads", "malloc", "grep", "strings", "mkfs"}
    /\ unit # "threads" => regs = CHOOSE x \in Points : TRUE
    /\ unit # "mkfs" => input = <<>>
    /\ R!Init /\ A!Init /\ T!Init /\ M!Init /\ F!Init
    /\ IF unit = "grep" THEN G!Init ELSE re = <<>> /\ text = <<>> /\ result = "none"
    /\ IF unit = "strings" THEN S!Init ELSE mem = <<>>

Next ==
    \/ unit = "traps" /\ R!Next /\ UNCHANGED <<unit, alarm, threads, malloc, grep, mem, mkfs>>
    \/ unit = "alarm" /\ A!Next /\ UNCHANGED <<unit, traps, threads, malloc, grep, mem, mkfs>>
    \/ unit = "threads" /\ T!Next /\ UNCHANGED <<unit, traps, alarm, malloc, grep, mem, mkfs>>
    \/ unit = "malloc" /\ M!Next /\ UNCHANGED <<unit, traps, alarm, threads, grep, mem, mkfs>>
    \/ unit = "grep" /\ G!Try /\ UNCHANGED <<unit, traps, alarm, threads, malloc, mem, mkfs>>
    \/ unit = "mkfs" /\ F!Next /\ UNCHANGED <<unit, traps, alarm, threads, malloc, grep, mem>>

Spec == Init /\ [][Next]_vars

\* What lies in next and size off malloc's list is never read.
Lists == {<<p, heap.next[p], heap.size[p]>> : p \in M!OnList(heap)}
View ==
    IF unit = "traps" THEN <<unit, R!View>>
    ELSE <<unit, alarm, threads, Lists, heap.freep, brk, used, gaps, grep, mem, mkfs>>

-----------------------------------------------------------------------------
\* uservec, userret and the traps in between give a user program back the
\* state it had, on whatever hart it goes on (Trap).
UserStateKept == unit = "traps" => R!UserStateKept
\* kernelvec and kerneltrap resume the code they interrupted, also when its
\* process has yielded and moved to another hart meanwhile (Trap).
KernelResumes == unit = "traps" => R!KernelResumes
\* While usertrap's alarm handler runs, the saved frame is the interrupted
\* one, and sigreturn resumes the program where it was, but for a0 (Alarm).
AlarmsTransparent == [](unit = "alarm" => A!SavedContextKept) /\ A!ResumesWhereInterrupted
\* thread_switch resumes every thread with the registers it had, and
\* thread_schedule runs a waiting thread before any other runs twice (Uthread).
ThreadsKept == unit = "threads" => T!ContextsKept /\ T!BoundedWaiting
\* malloc and free keep every unit in one block, neighbours merged and
\* the free list circular and in address order (Umalloc).
HeapAccounted == unit = "malloc" => M!Tiles /\ M!Merged /\ M!Circular
\* match finds whatever the expression denotes (GrepMatch).
MatchesDenotation == unit = "grep" => G!MatchesDenotation
\* The functions of string.c and ulib.c return and store what their names
\* promise, whatever memory contains, overlapping moves included (Strings).
StringsMeetReference == unit = "strings" => S!StringsMeetReference
\* What balloc, dirlookup, namei and iget assume of the disk holds of the
\* image that mkfs makes (MkFs).
ImageConsistent == unit = "mkfs" => F!ImageConsistent
=============================================================================
