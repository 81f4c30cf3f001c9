-------------------------------- MODULE Trap --------------------------------
(***************************************************************************)
(* The way between user and kernel: uservec and userret (trampoline.S),    *)
(* usertrap, prepare_return, kerneltrap and devintr (trap.c), kernelvec    *)
(* (kernelvec.S), and how sched, scheduler and forkret (proc.c) move a     *)
(* process from hart to hart in the middle of it (swtch.S).                *)
(*                                                                         *)
(* A hart is a record of its registers; `regs' stands for all the ones     *)
(* that are treated alike.  What a register holds is a token that tells    *)
(* whose it is.  What happens with interrupts off, on one hart and without *)
(* a lock is one step, except where the order of two writes matters.  What *)
(* system calls, page faults and alarms do is in other modules: here they  *)
(* change what the program sees, sleep, or end it.  Sleepers wait for a    *)
(* device, and any interrupt of a device wakes them.                       *)
(***************************************************************************)
EXTENDS Integers, Sequences, TLC

CONSTANTS NPROC,   \* size of proc[]
          Harts,
          None

TrapAssumption == NPROC \in Nat \ {0} /\ None \notin Harts \cup 1 .. NPROC

Procs == 1 .. NPROC

VARIABLES hart,      \* registers of each hart
          cpu,       \* struct cpu: proc, noff, intena
          frame,     \* p->trapframe
          context,   \* p->context and cpu's context, and what sched keeps on the stack
          stack,     \* what kernelvec has pushed on each kernel stack
          lock,      \* p->lock: the hart that holds it, or None
          state,     \* p->state
          want       \* history: the registers each user program should see

vars == <<hart, cpu, frame, context, stack, lock, state, want>>

\* What user program p has in its registers at point v of its code.
UserRegs(p, v) == [pc |-> <<"user", v>>, a0 |-> <<p, "a0", v>>, tp |-> <<p, "tp", v>>, regs |-> <<p, "regs", v>>]

Kernel(t) == <<"kernel", t>>     \* kernel page table of p, or the registers of a kernel thread
User(p) == <<"user", p>>         \* user page table of p

\* What uservec saves: a0 by way of sscratch, and every other register.
Saved(r) == [a0 |-> r.a0, tp |-> r.tp, regs |-> r.regs]

\* struct trapframe, struct cpu and struct context as they are at first.
Trapframe(p) ==
    Saved(UserRegs(p, 0)) @@
    [epc |-> <<"user", 0>>, kernel_satp |-> Kernel(None), kernel_sp |-> None, kernel_hartid |-> None]
Cpu == [proc |-> None, noff |-> 0, intena |-> FALSE]
Context(t) == [pc |-> <<"forkret">>, sp |-> t, regs |-> Kernel(t), intena |-> FALSE]

\* The harts are about to run scheduler for the first time; processes have
\* been made by allocproc and kfork, with whatever kernel values the
\* parent's trapframe had.
Init ==
    /\ hart = [h \in Harts |->
        [mode |-> "super", pc |-> <<"scheduler">>, satp |-> Kernel(None), stvec |-> <<"kernelvec">>,
         sie |-> FALSE, spp |-> "super", spie |-> FALSE, sepc |-> <<"start">>, scause |-> "none",
         tp |-> h, sp |-> h, a0 |-> None, regs |-> Kernel(h)]]
    /\ cpu = [h \in Harts |-> Cpu]
    /\ frame = [p \in Procs |-> Trapframe(p)]
    /\ context = [t \in Procs \cup Harts |-> Context(t)]
    /\ stack = [t \in Procs \cup Harts |-> <<>>]
    /\ lock = [p \in Procs |-> None]
    /\ state = [p \in Procs |-> "RUNNABLE"]
    /\ want = [p \in Procs |-> UserRegs(p, 0)]

-----------------------------------------------------------------------------
(***************************************************************************)
(* The hardware: a trap, and sret.                                         *)
(***************************************************************************)
Trapped(r, cause) ==
    [spp |-> r.mode, spie |-> r.sie, sepc |-> r.pc, scause |-> cause,
     mode |-> "super", sie |-> FALSE, pc |-> r.stvec] @@ r

Sret(r) == [mode |-> r.spp, sie |-> r.spie, pc |-> r.sepc] @@ r

Goes(h, r) == hart' = [hart EXCEPT ![h] = r @@ @]

myproc(h) == cpu[hart[h].tp].proc

\* The program executes instructions, which change its registers, until a
\* trap.  Interrupts reach user mode whatever sstatus says.
UserTrap(h) ==
    /\ hart[h].mode = "user"
    /\ LET p == hart[h].satp[2]
           r == UserRegs(p, 1 - hart[h].pc[2])
       IN /\ \E cause \in {"ecall", "timer", "device", "fault"} : Goes(h, Trapped(r @@ hart[h], cause))
          /\ want' = [want EXCEPT ![p] = r]
    /\ UNCHANGED <<cpu, frame, context, stack, lock, state>>

KernelInterrupt(h) ==
    /\ hart[h].mode = "super" /\ hart[h].sie
    /\ \E cause \in {"timer", "device"} : Goes(h, Trapped(hart[h], cause))
    /\ UNCHANGED <<cpu, frame, context, stack, lock, state, want>>

-----------------------------------------------------------------------------
(***************************************************************************)
(* Locks (spinlock.c) and the switch to the scheduler.                     *)
(***************************************************************************)
\* pop_off, on the hart's registers and its struct cpu c.
PopOff(c) == [c EXCEPT !.noff = @ - 1]
Enables(c, sie) == IF c.noff = 1 /\ c.intena THEN TRUE ELSE sie

\* The intena that sched puts back in the struct cpu it wakes up on, having
\* kept it on its stack.
Intena(c, kept) == kept

\* swtch: what it saves, and loads.
Switches(r, resume) == [pc |-> resume, sp |-> r.sp, regs |-> r.regs]

\* acquire(&p->lock), p->state = s, sched(): swtch saves where p is and
\* goes to the scheduler of the hart.
SwitchOut(h, p, s, resume) ==
    /\ lock[p] = None
    /\ lock' = [lock EXCEPT ![p] = h]
    /\ state' = [state EXCEPT ![p] = s]
    /\ context' = [context EXCEPT ![p] =
        [intena |-> hart[h].sie] @@ Switches(hart[h], <<"sched", resume>>)]
    /\ cpu' = [cpu EXCEPT ![h].noff = 1, ![h].intena = hart[h].sie]
    /\ Goes(h, [sie |-> FALSE] @@ Switches(context[h], context[h].pc))

\* sched returns in p, on whatever hart: release(&p->lock).
SchedReturn(h) ==
    /\ hart[h].pc[1] = "sched"
    /\ LET p == myproc(h)
           c == [cpu[h] EXCEPT !.intena = Intena(cpu[h], context[p].intena)]
       IN /\ cpu' = [cpu EXCEPT ![h] = PopOff(c)]
          /\ Goes(h, [pc |-> hart[h].pc[2], sie |-> Enables(c, hart[h].sie)])
          /\ lock' = [lock EXCEPT ![p] = None]
    /\ UNCHANGED <<frame, context, stack, state, want>>

\* A new process begins in forkret with release(&p->lock).
Forkret(h) ==
    /\ hart[h].pc = <<"forkret">>
    /\ cpu' = [cpu EXCEPT ![h] = PopOff(@)]
    /\ Goes(h, [pc |-> <<"prepare">>, sie |-> Enables(cpu[h], hart[h].sie)])
    /\ lock' = [lock EXCEPT ![myproc(h)] = None]
    /\ UNCHANGED <<frame, context, stack, state, want>>

\* scheduler: intr_on() at the top of its loop, then intr_off().
SchedulerOn(h) ==
    /\ hart[h].pc = <<"scheduler">>
    /\ Goes(h, [sie |-> TRUE, pc |-> <<"open">>])
    /\ UNCHANGED <<cpu, frame, context, stack, lock, state, want>>

SchedulerOff(h) ==
    /\ hart[h].pc = <<"open">>
    /\ Goes(h, [sie |-> FALSE, pc |-> <<"scan", 1, FALSE>>])
    /\ UNCHANGED <<cpu, frame, context, stack, lock, state, want>>

\* Its for loop looks at proc[i], and switches to it or goes on.
Scan(h) ==
    /\ hart[h].pc[1] = "scan" /\ hart[h].pc[2] <= NPROC
    /\ LET i == hart[h].pc[2]
       IN /\ lock[i] = None
          /\ IF state[i] = "RUNNABLE"
               THEN /\ lock' = [lock EXCEPT ![i] = h]
                    /\ state' = [state EXCEPT ![i] = "RUNNING"]
                    /\ cpu' = [cpu EXCEPT ![h] = [proc |-> i, noff |-> 1, intena |-> hart[h].sie]]
                    /\ context' = [context EXCEPT ![h] = Switches(hart[h], <<"switched", i>>) @@ @]
                    /\ Goes(h, [sie |-> FALSE, satp |-> Kernel(i)] @@ Switches(context[i], context[i].pc))
               ELSE /\ Goes(h, [pc |-> <<"scan", i + 1, hart[h].pc[3]>>])
                    /\ cpu' = [cpu EXCEPT ![h].intena = hart[h].sie]
                    /\ UNCHANGED <<lock, state, context>>
    /\ UNCHANGED <<frame, stack, want>>

\* The process has switched back: kvminithart, c->proc = 0, release.
SwitchedBack(h) ==
    /\ hart[h].pc[1] = "switched"
    /\ LET i == hart[h].pc[2]
       IN /\ cpu' = [cpu EXCEPT ![h] = [PopOff(@) EXCEPT !.proc = None]]
          /\ Goes(h, [satp |-> Kernel(None), pc |-> <<"scan", i + 1, TRUE>>,
                      sie |-> Enables(cpu[h], hart[h].sie)])
          /\ lock' = [lock EXCEPT ![i] = None]
    /\ UNCHANGED <<frame, context, stack, state, want>>

\* The end of the loop, with a wfi when it has found nothing to run.
ScanEnd(h) ==
    /\ hart[h].pc[1] = "scan" /\ hart[h].pc[2] = NPROC + 1
    /\ Goes(h, [pc |-> <<"scheduler">>])
    /\ UNCHANGED <<cpu, frame, context, stack, lock, state, want>>

-----------------------------------------------------------------------------
(***************************************************************************)
(* From user to kernel and back.                                           *)
(***************************************************************************)
\* uservec works on the trapframe that the user page table maps.
Uservec(h) ==
    /\ hart[h].pc = <<"uservec">> /\ hart[h].satp[1] = "user"
    /\ LET p == hart[h].satp[2]
       IN /\ frame' = [frame EXCEPT ![p] = Saved(hart[h]) @@ @]
          /\ Goes(h, [sp |-> frame[p].kernel_sp, tp |-> frame[p].kernel_hartid,
                      satp |-> frame[p].kernel_satp, pc |-> <<"usertrap">>, a0 |-> None, regs |-> Kernel(p)])
    /\ UNCHANGED <<cpu, context, stack, lock, state, want>>

\* wakeup, in the handler of a device: sleepers become runnable.
Woken == [p \in Procs |-> IF state[p] = "SLEEPING" THEN "RUNNABLE" ELSE state[p]]
CanWake == \A p \in Procs : state[p] = "SLEEPING" => lock[p] = None

\* usertrap sends traps to kernelvec and goes on at k, with user pc epc.
Enters(h, epc, sie, k) ==
    /\ hart[h].pc = <<"usertrap">>
    /\ Goes(h, [stvec |-> <<"kernelvec">>, sie |-> sie, pc |-> k])
    /\ frame' = [frame EXCEPT ![myproc(h)].epc = epc]
    /\ UNCHANGED <<cpu, context, stack, lock>>

\* Mutant: the program is resumed at its ecall.
After_Same(pc) == pc
\* The instruction after an ecall.
After(pc) == <<pc[1], 1 - pc[2]>>

UsertrapSyscall(h) ==
    /\ hart[h].scause = "ecall"
    /\ \/ Enters(h, After(hart[h].sepc), TRUE, <<"syscall">>)
       \/ Enters(h, hart[h].sepc, hart[h].sie, <<"exit">>)     \* killed
    /\ want' = [want EXCEPT ![myproc(h)].pc = <<"user", 1 - @[2]>>]
    /\ UNCHANGED state

\* clockintr, and an alarm, which sends the program to its handler.
UsertrapTimer(h) ==
    /\ hart[h].scause = "timer"
    /\ \E epc \in {hart[h].sepc, <<"user", 0>>} :
        /\ Enters(h, epc, hart[h].sie, <<"check", 2>>)
        /\ want' = IF epc = hart[h].sepc THEN want ELSE [want EXCEPT ![myproc(h)].pc = epc]
    /\ UNCHANGED state

UsertrapDevice(h) ==
    /\ hart[h].scause = "device" /\ CanWake
    /\ Enters(h, hart[h].sepc, hart[h].sie, <<"check", 1>>)
    /\ state' = Woken
    /\ UNCHANGED want

\* A page fault is repaired, and the instruction executed again, or the
\* process is killed, as for any other cause.
UsertrapFault(h) ==
    /\ hart[h].scause = "fault"
    /\ Enters(h, hart[h].sepc, hart[h].sie, <<"check", 0>>)
    /\ UNCHANGED <<state, want>>

\* syscall() returns its result in a0.
Syscall(h) ==
    /\ hart[h].pc = <<"syscall">>
    /\ LET p == myproc(h)
       IN /\ frame' = [frame EXCEPT ![p].a0 = <<p, "result">>]
          /\ want' = [want EXCEPT ![p].a0 = <<p, "result">>]
    /\ Goes(h, [pc |-> <<"check", 0>>])
    /\ UNCHANGED <<cpu, context, stack, lock, state>>

\* A system call sleeps.
SyscallSleep(h) ==
    /\ hart[h].pc = <<"syscall">>
    /\ SwitchOut(h, myproc(h), "SLEEPING", <<"syscall">>)
    /\ UNCHANGED <<frame, stack, want>>

\* The end of usertrap: a killed process exits, a timer interrupt yields.
UsertrapEnd(h) ==
    /\ hart[h].pc[1] = "check"
    /\ \/ Goes(h, [pc |-> <<"exit">>]) /\ UNCHANGED <<cpu, context, lock, state>>
       \/ hart[h].pc[2] = 2 /\ SwitchOut(h, myproc(h), "RUNNABLE", <<"prepare">>)
       \/ hart[h].pc[2] # 2 /\ Goes(h, [pc |-> <<"prepare">>]) /\ UNCHANGED <<cpu, context, lock, state>>
    /\ UNCHANGED <<frame, stack, want>>

Kexit(h) ==
    /\ hart[h].pc = <<"exit">>
    /\ SwitchOut(h, myproc(h), "ZOMBIE", <<"never">>)
    /\ UNCHANGED <<frame, stack, want>>

\* intr_off() in prepare_return.
ReturnSie(r) == FALSE

PrepareReturn(h) ==
    /\ hart[h].pc = <<"prepare">>
    /\ Goes(h, [sie |-> ReturnSie(hart[h]), pc |-> <<"vector">>])
    /\ UNCHANGED <<cpu, frame, context, stack, lock, state, want>>

PrepareVector(h) ==
    /\ hart[h].pc = <<"vector">>
    /\ Goes(h, [stvec |-> <<"uservec">>, pc |-> <<"fill">>])
    /\ UNCHANGED <<cpu, frame, context, stack, lock, state, want>>

\* What prepare_return puts in kernel_hartid.
KernelHartid(r, f) == r.tp

PrepareFrame(h) ==
    /\ hart[h].pc = <<"fill">>
    /\ LET p == myproc(h)
       IN /\ frame' = [frame EXCEPT ![p] =
                [kernel_satp |-> hart[h].satp, kernel_sp |-> p,
                 kernel_hartid |-> KernelHartid(hart[h], @)] @@ @]
          /\ Goes(h, [spp |-> "user", spie |-> TRUE, sepc |-> frame[p].epc,
                      a0 |-> User(p), pc |-> <<"userret">>])
    /\ UNCHANGED <<cpu, context, stack, lock, state, want>>

\* userret: the user page table, the registers in the trapframe it maps, sret.
Userret(h) ==
    /\ hart[h].pc = <<"userret">>
    /\ LET f == frame[hart[h].a0[2]]
       IN Goes(h, Sret([satp |-> hart[h].a0, a0 |-> f.a0, tp |-> f.tp, regs |-> f.regs] @@ hart[h]))
    /\ UNCHANGED <<cpu, frame, context, stack, lock, state, want>>

-----------------------------------------------------------------------------
(***************************************************************************)
(* Interrupts of the kernel.                                               *)
(***************************************************************************)
\* What kernelvec pushes, and sepc and sstatus in the locals of kerneltrap.
Pushed(r) == [regs |-> r.regs, sepc |-> r.sepc, spp |-> r.spp, spie |-> r.spie]

Kernelvec(h) ==
    /\ hart[h].pc = <<"kernelvec">>
    /\ stack' = [stack EXCEPT ![hart[h].sp] = Append(@, Pushed(hart[h]))]
    /\ Goes(h, [regs |-> <<"kerneltrap">>, pc |-> <<"kerneltrap">>])
    /\ UNCHANGED <<cpu, frame, context, lock, state, want>>

KerneltrapDevice(h) ==
    /\ hart[h].pc = <<"kerneltrap">> /\ hart[h].scause = "device" /\ CanWake
    /\ state' = Woken
    /\ Goes(h, [pc |-> <<"restore">>])
    /\ UNCHANGED <<cpu, frame, context, stack, lock, want>>

\* A timer interrupt of a process yields.
KerneltrapTimer(h) ==
    /\ hart[h].pc = <<"kerneltrap">> /\ hart[h].scause = "timer"
    /\ IF myproc(h) = None
         THEN Goes(h, [pc |-> <<"restore">>]) /\ UNCHANGED <<cpu, context, lock, state>>
         ELSE SwitchOut(h, myproc(h), "RUNNABLE", <<"restore">>)
    /\ UNCHANGED <<frame, stack, want>>

Frame(h) == stack[hart[h].sp][Len(stack[hart[h].sp])]

\* Mutant: sepc is left as the yield left it.
RestoredPc_Left(r, saved) == r.sepc
\* w_sepc(sepc) at the end of kerneltrap.
RestoredPc(r, saved) == saved.sepc

KerneltrapPc(h) ==
    /\ hart[h].pc = <<"restore">>
    /\ Goes(h, [sepc |-> RestoredPc(hart[h], Frame(h)), pc |-> <<"status">>])
    /\ UNCHANGED <<cpu, frame, context, stack, lock, state, want>>

\* w_sstatus(sstatus), which also turns interrupts off as they were on
\* entry, then the pops of kernelvec and sret.
KerneltrapReturn(h) ==
    /\ hart[h].pc = <<"status">>
    /\ LET saved == [f \in DOMAIN Frame(h) \ {"sepc"} |-> Frame(h)[f]]
       IN Goes(h, Sret(saved @@ hart[h]))
    /\ stack' = [stack EXCEPT ![hart[h].sp] = SubSeq(@, 1, Len(@) - 1)]
    /\ UNCHANGED <<cpu, frame, context, lock, state, want>>

-----------------------------------------------------------------------------
Next ==
    \E h \in Harts :
        \/ UserTrap(h) \/ KernelInterrupt(h)
        \/ SchedulerOn(h) \/ SchedulerOff(h) \/ Scan(h) \/ SwitchedBack(h) \/ ScanEnd(h)
        \/ SchedReturn(h) \/ Forkret(h)
        \/ Uservec(h) \/ UsertrapSyscall(h) \/ UsertrapTimer(h) \/ UsertrapDevice(h) \/ UsertrapFault(h)
        \/ Syscall(h) \/ SyscallSleep(h) \/ UsertrapEnd(h) \/ Kexit(h)
        \/ PrepareReturn(h) \/ PrepareVector(h) \/ PrepareFrame(h) \/ Userret(h)
        \/ Kernelvec(h) \/ KerneltrapDevice(h) \/ KerneltrapTimer(h) \/ KerneltrapPc(h) \/ KerneltrapReturn(h)

Spec == Init /\ [][Next]_vars

\* The state without the registers, frames and contexts that are written
\* before they are read again.
LiveHart(r) ==
    LET at == r.pc[1]
        csrs == CASE at \in {"uservec", "usertrap", "kernelvec"} -> {"spp", "spie", "sepc", "scause"}
                  [] at = "kerneltrap" -> {"spp", "scause"}
                  [] at = "status" -> {"sepc"}
                  [] at = "userret" -> {"spp", "spie", "sepc", "a0"}
                  [] at = "user" -> {"a0"}
                  [] OTHER -> {}
    IN [f \in csrs \cup {"mode", "pc", "satp", "stvec", "sie", "tp", "sp", "regs"} |-> r[f]]
OnHart(p) == \E h \in Harts : cpu[h].proc = p /\ hart[h].pc[1] \notin {"sched", "forkret", "switched"}
InUser(p) == \E h \in Harts : cpu[h].proc = p /\ (hart[h].satp = User(p) \/ hart[h].pc[1] = "userret")
LiveFrame(p) ==
    CASE state[p] = "ZOMBIE" -> <<>>
      [] InUser(p) -> <<"user", frame[p].kernel_satp, frame[p].kernel_sp, frame[p].kernel_hartid,
                        IF \E h \in Harts : hart[h].pc[1] = "userret" /\ cpu[h].proc = p THEN Saved(frame[p]) ELSE <<>>>>
      [] OTHER -> <<"kernel", Saved(frame[p]), frame[p].epc>>
View ==
    <<[h \in Harts |-> LiveHart(hart[h])],
      [h \in Harts |-> IF cpu[h].noff = 0 THEN <<cpu[h].proc>> ELSE <<cpu[h].proc, cpu[h].noff, cpu[h].intena>>],
      [p \in Procs |-> LiveFrame(p)],
      [p \in Procs |-> IF OnHart(p) \/ state[p] = "ZOMBIE" THEN <<>> ELSE <<context[p]>>],
      [h \in Harts |-> IF cpu[h].proc = None THEN <<>> ELSE <<context[h]>>],
      stack, lock, state, [p \in Procs |-> IF state[p] = "ZOMBIE" THEN <<>> ELSE <<want[p]>>]>>

-----------------------------------------------------------------------------
\* A user program finds the registers, the pc and the memory it had, with no
\* change but the result of its system call, however often it was interrupted
\* in the kernel and on whatever hart it goes on.
UserStateKept ==
    \A h \in Harts : hart[h].mode = "user" =>
        LET p == cpu[h].proc
        IN p # None /\ hart[h].satp = User(p)
           /\ \A f \in {"pc", "a0", "tp", "regs"} : hart[h][f] = want[p][f]

\* Kernel code that was interrupted, even if its process yielded and moved
\* to another hart meanwhile, goes on where it was: on its own stack, which
\* no other hart is on, with its process's kernel page table, knowing the
\* hart it is on, with the pc that was interrupted and with interrupts off
\* until sret.  No trap of the kernel goes to uservec, and none of a user
\* program to kernelvec (the panics of usertrap and kerneltrap).
KernelResumes ==
    \A h \in Harts : hart[h].mode = "super" =>
        LET r == hart[h]
            entering == r.pc[1] \in {"uservec", "usertrap"}
        IN /\ entering \/ r.pc[1] \in {"kernelvec", "kerneltrap"} => (r.spp = "user") = entering /\ ~r.sie
           /\ r.pc # <<"uservec">> =>
                /\ r.tp = h
                /\ r.sp \in {h, cpu[h].proc}
                /\ \A g \in Harts \ {h} : hart[g].mode = "super" => hart[g].sp # r.sp
                /\ r.sp \in Procs => r.satp = Kernel(r.sp)
           /\ r.pc = <<"status">> => r.sepc = Frame(h).sepc /\ ~r.sie
=============================================================================
