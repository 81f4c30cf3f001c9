------------------------------- MODULE Alarm --------------------------------
(***************************************************************************)
(* Periodic alarms of a user process: sigalarm and sigreturn               *)
(* (kernel/proc.c), the timer interrupt in usertrap (kernel/trap.c), and   *)
(* what syscall (kernel/syscall.c) does with a system call's result.       *)
(*                                                                         *)
(* A trap frame is the program counter, a0 and one register for all the    *)
(* others.  The user program has a main part and a handler; the handler    *)
(* ends with sigreturn, and only it calls sigreturn.                       *)
(***************************************************************************)
EXTENDS Integers

CONSTANTS Main, Handler,  \* code addresses (numbers) of the two parts
          Vals,           \* what a register holds, 0 among them
          Entry,          \* where the handler starts
          MaxInterval

CodeAssumption == Main \cap Handler = {} /\ Main # {} /\ Entry \in Handler
ValsAssumption == 0 \in Vals /\ MaxInterval \in Nat

Frames == [epc : Main \cup Handler, a0 : Vals, regs : Vals]

VARIABLES tf,                \* the registers, in p->trapframe during a trap
          alarm_trapframe,   \* where usertrap saves them
          alarm_interval, alarm_ticks, alarm_active,
          interrupted        \* history: the registers when the alarm went off

settings == <<alarm_interval, alarm_ticks>>
vars == <<tf, alarm_trapframe, settings, alarm_active, interrupted>>

\* allocproc; what the page of alarm_trapframe holds at first is never read.
Init ==
    /\ tf = [epc |-> CHOOSE a \in Main : TRUE, a0 |-> 0, regs |-> 0]
    /\ alarm_trapframe = tf
    /\ alarm_interval = 0 /\ alarm_ticks = 0 /\ alarm_active = 0
    /\ interrupted = alarm_trapframe

InHandler == tf.epc \in Handler

\* The program computes, or makes some other system call.
UserStep(f) ==
    /\ f.epc \in IF InHandler THEN Handler ELSE Main
    /\ tf' = f
    /\ UNCHANGED <<alarm_trapframe, settings, alarm_active, interrupted>>

\* usertrap counts this tick.
Counting == alarm_interval > 0 /\ alarm_active = 0

\* The address that sigalarm has stored.
alarm_handler == Entry

\* usertrap for a timer interrupt.
TimerInterrupt ==
    /\ IF Counting /\ alarm_ticks + 1 = alarm_interval
       THEN /\ alarm_active' = 1
            /\ alarm_trapframe' = tf
            /\ tf' = [tf EXCEPT !.epc = alarm_handler]
            /\ alarm_ticks' = 0
            /\ interrupted' = tf
       ELSE /\ alarm_ticks' = IF Counting THEN alarm_ticks + 1 ELSE alarm_ticks
            /\ UNCHANGED <<tf, alarm_trapframe, alarm_active, interrupted>>
    /\ UNCHANGED alarm_interval

\* sigalarm starts counting.
Ticks == 0

\* syscall stores a system call's result, here 0, in a0.
Result(frame) == [frame EXCEPT !.a0 = 0]

\* sigalarm(interval, handler), its result 0, from main part or handler.
Sigalarm(interval) ==
    /\ alarm_interval' = interval
    /\ alarm_ticks' = Ticks
    /\ tf' = Result(tf)
    /\ UNCHANGED <<alarm_trapframe, alarm_active, interrupted>>

\* Mutant: sigreturn restores nothing but the program counter.
Restored_Epc == [tf EXCEPT !.epc = alarm_trapframe.epc]
\* The registers sigreturn restores.
Restored == alarm_trapframe

\* sigreturn; its result goes into the restored frame.
Sigreturn ==
    /\ InHandler
    /\ tf' = Result(Restored)
    /\ alarm_active' = 0
    /\ UNCHANGED <<alarm_trapframe, settings, interrupted>>

Next ==
    \/ \E f \in Frames : UserStep(f)
    \/ TimerInterrupt
    \/ \E interval \in 0 .. MaxInterval : Sigalarm(interval)
    \/ Sigreturn

Spec == Init /\ [][Next]_vars

-----------------------------------------------------------------------------
\* "kernel does not allow reentrant alarm calls": while the handler runs,
\* the saved registers are those of the main part that it interrupted.
SavedContextKept ==
    /\ InHandler <=> alarm_active = 1
    /\ InHandler => alarm_trapframe = interrupted /\ interrupted.epc \in Main

\* The main part goes on where the alarm interrupted it, with the registers
\* other than a0 as they were.
ResumesWhereInterrupted ==
    [][InHandler /\ ~InHandler' =>
        tf'.epc = interrupted.epc /\ tf'.regs = interrupted.regs]_vars
=============================================================================
