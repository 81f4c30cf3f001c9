------------------------------ MODULE Uthread -------------------------------
(***************************************************************************)
(* User-level threads (user/uthread.c, user/uthread_switch.S): a table of  *)
(* threads that hand over to each other.  A thread's registers are one     *)
(* value, the point it has reached; the threads do anything in between:    *)
(* compute, create threads, yield, exit.                                   *)
(***************************************************************************)
EXTENDS Integers

CONSTANTS MAX_THREAD, Points

ThreadsAssumption == MAX_THREAD \in Nat \ {0} /\ Points # {}

Threads == 0 .. MAX_THREAD - 1

VARIABLES state,    \* FREE, RUNNING, RUNNABLE
          current,  \* current_thread
          ctx,      \* user_context of each thread
          regs,     \* the processor's registers
          exited,   \* the process has called exit
          reached,  \* history: the point each thread has got to by itself
          passed    \* history: switches since a RUNNABLE thread last ran

vars == <<state, current, ctx, regs, exited, reached, passed>>

\* thread_init
Init ==
    /\ state = [t \in Threads |-> IF t = 0 THEN "RUNNING" ELSE "FREE"]
    /\ current = 0
    /\ regs \in Points
    /\ ctx = [t \in Threads |-> regs]
    /\ reached = ctx
    /\ exited = FALSE
    /\ passed = [t \in Threads |-> 0]

\* The thread that the i-th round of thread_schedule's loop looks at.
Candidate(i) == (current + i) % MAX_THREAD

\* Mutant: the registers are saved in the context of the new thread.
Saved_InNew(old, new) == [ctx EXCEPT ![new] = regs]
\* What thread_switch(&old->user_context, &new->user_context) stores.
Saved(old, new) == [ctx EXCEPT ![old] = regs]

\* thread_schedule, called with the thread states st.
Schedule(st) ==
    LET rounds == {i \in 1 .. MAX_THREAD : st[Candidate(i)] = "RUNNABLE"}
        next == Candidate(CHOOSE i \in rounds : \A j \in rounds : i <= j)
    IN IF rounds = {}
       THEN exited' = TRUE /\ state' = st /\ UNCHANGED <<current, ctx, regs, passed>>
       ELSE IF next = current
       THEN state' = st /\ UNCHANGED <<current, ctx, regs, exited, passed>>
       ELSE /\ state' = [st EXCEPT ![next] = "RUNNING"]
            /\ current' = next
            /\ ctx' = Saved(current, next)
            /\ regs' = ctx'[next]
            /\ passed' = [t \in Threads |->
                    IF t # next /\ st[t] = "RUNNABLE" THEN passed[t] + 1 ELSE 0]
            /\ UNCHANGED exited

\* The current thread computes.
Step(x) ==
    /\ ~exited
    /\ regs' = x
    /\ reached' = [reached EXCEPT ![current] = x]
    /\ UNCHANGED <<state, current, ctx, exited, passed>>

\* thread_create's test.
Idle(t) == state[t] = "FREE"

\* The context of a new thread, with ra and sp set.
Started(start) == start

\* thread_create: the first FREE thread, which the caller knows to exist.
Create(start) ==
    /\ ~exited
    /\ \E t \in Threads :
        /\ Idle(t) /\ \A u \in 0 .. t - 1 : ~Idle(u)
        /\ state' = [state EXCEPT ![t] = "RUNNABLE"]
        /\ ctx' = [ctx EXCEPT ![t] = Started(start)]
        /\ reached' = [reached EXCEPT ![t] = start]
        /\ passed' = [passed EXCEPT ![t] = 0]
    /\ UNCHANGED <<current, regs, exited>>

\* thread_yield's assignment.
Yielded == [state EXCEPT ![current] = "RUNNABLE"]

\* thread_yield.  main() hands over with thread_schedule itself.
Yield ==
    /\ ~exited
    /\ Schedule(IF current = 0 THEN state ELSE Yielded)
    /\ UNCHANGED reached

\* A thread's last statements.
Exit ==
    /\ ~exited /\ current # 0
    /\ Schedule([state EXCEPT ![current] = "FREE"])
    /\ UNCHANGED reached

Next == (\E x \in Points : Step(x) \/ Create(x)) \/ Yield \/ Exit

Spec == Init /\ [][Next]_vars

-----------------------------------------------------------------------------
\* thread_switch: whichever threads ran in between, a thread goes on with
\* the registers it had, and waits with them in its context.
ContextsKept ==
    /\ regs = reached[current]
    /\ \A t \in Threads \ {current} : state[t] = "RUNNABLE" => ctx[t] = reached[t]

\* Round robin: a RUNNABLE thread runs before any other runs twice, as long
\* as the threads yield.
BoundedWaiting == \A t \in Threads : passed[t] < MAX_THREAD
=============================================================================
