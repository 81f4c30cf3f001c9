----------------------------- MODULE MCStreams ------------------------------
(***************************************************************************)
(* What descriptors refer to, for TLC: open files (FileTable), a pipe      *)
(* (Pipe), console input (Console) and the serial port (Uart).  They share *)
(* no variable, so that each is explored with the others at rest, `unit'   *)
(* being the one that runs.                                                *)
(***************************************************************************)
EXTENDS Pipe, TLC

CONSTANTS w1, w2, r1, r2,
          Users,                                     \* processes at the console
          Letters, INPUT_BUF_SIZE, IndexRange,       \* Console
          FIFO, MaxRx,                               \* Uart
          NPROC, NFILE, NOFILE, Inodes, Pipes        \* FileTable

TwoWriters == {w1, w2}
TwoReaders == {r1, r2}
Everybody == Writers \cup Readers

VARIABLES unit,
          cons_lock, buf, r, w, e, cons_pc, cons_n, target, cons_killed,
          thr, thre, rx, tx_busy, tx_lock, uart_pc, left, hpc, ppc,
          ref, file, ofile, iref, file_ends, file_pc, child, fdno, hand, ip, closing, ff, panicked

console == <<cons_lock, buf, r, w, e, cons_pc, cons_n, target, cons_killed>>
uart == <<thr, thre, rx, tx_busy, tx_lock, uart_pc, left, hpc, ppc>>
files == <<ref, file, ofile, iref, file_ends, file_pc, child, fdno, hand, ip, closing, ff, panicked>>
streams == <<unit, vars, console, uart, files>>

C == INSTANCE Console WITH Procs <- Users, lock <- cons_lock, pc <- cons_pc, n <- cons_n, killed <- cons_killed
U == INSTANCE Uart WITH Procs <- Users, pc <- uart_pc
F == INSTANCE FileTable WITH pc <- file_pc, ends <- file_ends

ASSUME C!SizeAssumption /\ C!NamesAssumption /\ U!SizeAssumption /\ U!NoneAssumption /\ F!SizeAssumption

StreamsInit == unit \in {"pipe", "console", "uart", "files"} /\ Init /\ C!Init /\ U!Init /\ F!Init

StreamsNext ==
    \/ unit = "pipe" /\ Next /\ UNCHANGED <<unit, console, uart, files>>
    \/ unit = "console" /\ C!Next /\ UNCHANGED <<unit, vars, uart, files>>
    \/ unit = "uart" /\ U!Next /\ UNCHANGED <<unit, vars, console, files>>
    \/ unit = "files" /\ F!Next /\ UNCHANGED <<unit, vars, console, uart>>

StreamsSpec == StreamsInit /\ [][StreamsNext]_streams

\* Writers are interchangeable, and readers, users, bytes and letters.
Symmetry ==
    Permutations(Writers) \cup Permutations(Readers) \cup Permutations(Users)
    \cup Permutations(Vals) \cup Permutations(Letters)

\* Slots of a ring that hold no byte are never read before they are written.
Typed == [k \in DOMAIN buf |-> IF (k - r) % INPUT_BUF_SIZE < C!Plus(e, -r) THEN buf[k] ELSE "lf"]
Written == {k \in DOMAIN data : (k - nread) % PIPESIZE < (nwrite - nread) % CounterRange}
View ==
    <<unit, lock, [k \in Written |-> data[k]], nread, nwrite, ends, pc, n, i, killed,
      cons_lock, Typed, r, w, e, cons_pc, cons_n, target, cons_killed, uart, files>>

-----------------------------------------------------------------------------
\* consoleintr's editing and consoleread implement input by lines (Console).
ImplementsLines == C!ImplementsLines
\* uartputc_sync and uartwrite never write past the transmit FIFO, and a busy
\* transmitter will interrupt, or has, so that tx_busy is reset (Uart).
TransmitterSafe == unit = "uart" => U!NoOverrun /\ U!CompletionPending
\* filedup and fileclose count exactly the holders of an open file; a pipe's
\* end is open, and an inode referred to, exactly while a file does (FileTable).
FilesAccounted == unit = "files" => F!CountsHolders /\ F!PipeEnds /\ F!InodeReferences
=============================================================================
