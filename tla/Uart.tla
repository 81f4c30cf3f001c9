-------------------------------- MODULE Uart --------------------------------
(***************************************************************************)
(* The serial port (kernel/uart.c): processes in uartwrite, which sleep    *)
(* until the transmitter is idle, uartputc_sync, which spins and takes no  *)
(* lock, and the interrupt handler uartintr.                               *)
(*                                                                         *)
(* uartputc_sync is called by the handler to echo what was typed, and by   *)
(* printk on any CPU; pr.lock admits one CPU at a time.  The device is     *)
(* external: a transmit FIFO, a receive FIFO, an interrupt that is latched *)
(* when the transmit FIFO runs empty and cleared by a read of ISR, and one *)
(* that lasts while there is input.  The PLIC runs one handler at a time.  *)
(***************************************************************************)
EXTENDS Integers, FiniteSets

CONSTANTS Procs,   \* processes that write to the console
          MaxLen,  \* longest uartwrite
          FIFO,    \* size of the transmit FIFO
          MaxRx,   \* most characters waiting to be received
          None

SizeAssumption == FIFO \in Nat /\ MaxLen \in Nat \ {0} /\ MaxRx \in Nat
NoneAssumption == None \notin Procs

VARIABLES thr, thre, rx,     \* the device: characters to send, latched interrupt, input
          tx_busy, tx_lock,  \* tx_lock's holder
          pc, left,          \* each process in uartwrite, and how much is left to send
          hpc,               \* the handler
          ppc                \* printk

device == <<thr, thre, rx>>
vars == <<device, tx_busy, tx_lock, pc, left, hpc, ppc>>

-----------------------------------------------------------------------------
\* uartinit
Init ==
    /\ thr = 0 /\ thre = 0 /\ rx = 0
    /\ tx_busy = 0 /\ tx_lock = None
    /\ pc = [p \in Procs |-> "idle"] /\ left = [p \in Procs |-> 0]
    /\ hpc = "idle" /\ ppc = "idle"

\* The device sends the oldest character.
Transmit ==
    /\ thr > 0
    /\ thr' = thr - 1
    /\ thre' = IF thr = 1 THEN 1 ELSE thre
    /\ UNCHANGED <<rx, tx_busy, tx_lock, pc, left, hpc, ppc>>

\* A character arrives.
Receive ==
    /\ rx < MaxRx
    /\ rx' = rx + 1
    /\ UNCHANGED <<thr, thre, tx_busy, tx_lock, pc, left, hpc, ppc>>

\* WriteReg(THR, c): one more to send, and the latched interrupt is cleared.
WriteTHR == thr' = thr + 1 /\ thre' = 0 /\ UNCHANGED rx

\* ReadReg(LSR) & LSR_TX_IDLE
TxIdle == thr = 0

-----------------------------------------------------------------------------
\* uartwrite is called.
Write(p, n) ==
    /\ pc[p] = "idle"
    /\ pc' = [pc EXCEPT ![p] = "lock"]
    /\ left' = [left EXCEPT ![p] = n]
    /\ UNCHANGED <<device, tx_busy, tx_lock, hpc, ppc>>

\* acquire(&tx_lock), at the start or at the end of sleep.
Acquire(p) ==
    /\ pc[p] = "lock" /\ tx_lock = None
    /\ tx_lock' = p
    /\ pc' = [pc EXCEPT ![p] = "loop"]
    /\ UNCHANGED <<device, tx_busy, left, hpc, ppc>>

\* uartwrite waits for a transmit-complete interrupt.
MustWait == tx_busy # 0

\* uartwrite sleeps, or sends one character.
Send(p) ==
    /\ pc[p] = "loop" /\ left[p] > 0
    /\ IF MustWait
       THEN /\ tx_lock' = None /\ pc' = [pc EXCEPT ![p] = "asleep"]
            /\ UNCHANGED <<device, tx_busy, left>>
       ELSE /\ WriteTHR /\ tx_busy' = 1
            /\ left' = [left EXCEPT ![p] = @ - 1]
            /\ UNCHANGED <<tx_lock, pc>>
    /\ UNCHANGED <<hpc, ppc>>

\* uartwrite returns.
Return(p) ==
    /\ pc[p] = "loop" /\ left[p] = 0
    /\ tx_lock' = None /\ pc' = [pc EXCEPT ![p] = "idle"]
    /\ UNCHANGED <<device, tx_busy, left, hpc, ppc>>

\* kkill wakes the writer, who goes on waiting.
Kill(p) ==
    /\ pc[p] = "asleep"
    /\ pc' = [pc EXCEPT ![p] = "lock"]
    /\ UNCHANGED <<device, tx_busy, tx_lock, left, hpc, ppc>>

-----------------------------------------------------------------------------
\* uartintr starts and acknowledges the interrupt.  ISR reports input
\* first, and clears the transmit interrupt only when it reports that.
IntrAck ==
    /\ hpc = "idle" /\ (thre = 1 \/ rx > 0)
    /\ thre' = IF rx > 0 THEN thre ELSE 0
    /\ hpc' = "lsr"
    /\ UNCHANGED <<thr, rx, tx_busy, tx_lock, pc, left, ppc>>

\* Mutant: uartintr serves the transmitter only when there is no input.
Complete_NoInput == TxIdle /\ rx = 0
\* uartintr's test of the transmitter.
Complete == TxIdle

\* wakeup(&tx_chan)
Woken == [p \in Procs |-> IF pc[p] = "asleep" THEN "lock" ELSE pc[p]]

\* uartintr's critical section under tx_lock, with its wakeup.
IntrTx ==
    /\ hpc = "lsr" /\ tx_lock = None
    /\ IF Complete
       THEN tx_busy' = 0 /\ pc' = Woken
       ELSE UNCHANGED <<tx_busy, pc>>
    /\ hpc' = "getc"
    /\ UNCHANGED <<device, tx_lock, left, ppc>>

\* uartgetc finds a character.
MoreInput == rx > 0

\* uartgetc in the loop of uartintr; consoleintr echoes the character.
IntrGetc ==
    /\ hpc = "getc"
    /\ rx' = IF MoreInput THEN rx - 1 ELSE rx
    /\ hpc' = IF MoreInput THEN "echo" ELSE "idle"
    /\ UNCHANGED <<thr, thre, tx_busy, tx_lock, pc, left, ppc>>

\* uartputc_sync's spinning ends.
Ready == TxIdle

\* uartputc_sync in the handler has seen the transmitter idle.
EchoWait ==
    /\ hpc = "echo" /\ Ready
    /\ hpc' = "echo_put"
    /\ UNCHANGED <<device, tx_busy, tx_lock, pc, left, ppc>>

\* uartputc_sync in the handler writes; consoleintr may echo again (the
\* three characters of a backspace, or a whole line killed) or not at all.
EchoPut ==
    /\ hpc = "echo_put"
    /\ WriteTHR
    /\ hpc' \in {"echo", "getc"}
    /\ UNCHANGED <<tx_busy, tx_lock, pc, left, ppc>>

\* consoleintr has nothing to echo.
NoEcho ==
    /\ hpc = "echo"
    /\ hpc' = "getc"
    /\ UNCHANGED <<device, tx_busy, tx_lock, pc, left, ppc>>

-----------------------------------------------------------------------------
\* printk on some CPU: uartputc_sync for one character after another.
PrintkStart ==
    /\ ppc = "idle"
    /\ ppc' = "wait"
    /\ UNCHANGED <<device, tx_busy, tx_lock, pc, left, hpc>>

PrintkWait ==
    /\ ppc = "wait" /\ Ready
    /\ ppc' = "put"
    /\ UNCHANGED <<device, tx_busy, tx_lock, pc, left, hpc>>

PrintkPut ==
    /\ ppc = "put"
    /\ WriteTHR
    /\ ppc' \in {"wait", "idle"}
    /\ UNCHANGED <<tx_busy, tx_lock, pc, left, hpc>>

-----------------------------------------------------------------------------
Handler == IntrAck \/ IntrTx \/ IntrGetc \/ EchoWait \/ EchoPut \/ NoEcho
Printk == PrintkWait \/ PrintkPut
Work(p) == Acquire(p) \/ Send(p) \/ Return(p)

Next ==
    \/ Transmit \/ Receive \/ Handler \/ PrintkStart \/ Printk
    \/ \E p \in Procs : (\E n \in 1 .. MaxLen : Write(p, n)) \/ Work(p) \/ Kill(p)

Spec == Init /\ [][Next]_vars

-----------------------------------------------------------------------------
\* uartwrite, echo and printk share the transmitter without a common lock,
\* each after a look at it that may be stale: together they never have more
\* than three characters in the FIFO, so none is overwritten.
NoOverrun == thr <= FIFO

\* While the transmitter counts as busy, either it still is, or the news
\* that it is not is on its way: no acknowledged interrupt leaves a writer
\* asleep for ever.
CompletionPending ==
    tx_busy = 1 => thr > 0 \/ thre = 1 \/ hpc = "lsr" \/ ppc = "put" \/ hpc = "echo_put"
=============================================================================
