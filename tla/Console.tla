------------------------------ MODULE Console -------------------------------
(***************************************************************************)
(* Console input (kernel/console.c): the ring buffer with its three        *)
(* wrapping indices, the interrupt handler consoleintr that edits the line *)
(* being typed, and the processes in consoleread.  Echoing goes through    *)
(* uartputc_sync, which is in module Uart.                                 *)
(***************************************************************************)
EXTENDS Integers, Sequences

CONSTANTS Procs,
          Letters,         \* characters without a meaning of their own
          INPUT_BUF_SIZE,
          IndexRange,      \* how many values an uint has
          MaxLen,          \* longest read
          None

SizeAssumption ==
    /\ INPUT_BUF_SIZE \in Nat \ {0} /\ MaxLen \in Nat \ {0}
    /\ IndexRange \in Nat /\ IndexRange % INPUT_BUF_SIZE = 0 /\ IndexRange > INPUT_BUF_SIZE
NamesAssumption == None \notin Procs /\ Letters \cap {"lf", "cr", "^D", "^U", "^H", "^P"} = {}

VARIABLES lock, buf, r, w, e,      \* cons
          pc, n, target, killed    \* each process in consoleread

ring == <<buf, r, w, e>>
locals == <<n, target>>
vars == <<lock, ring, pc, locals, killed>>

Chars == Letters \cup {"lf", "^D"}               \* what buf holds
Keys == Chars \cup {"cr", "^U", "^H", "^P"}      \* what arrives; 0 is ignored, as ^P is

Slot(k) == k % INPUT_BUF_SIZE

\* Arithmetic on uint.
Plus(k, d) == (k + d) % IndexRange

-----------------------------------------------------------------------------
Init ==
    /\ lock = None /\ buf = [k \in 0 .. INPUT_BUF_SIZE - 1 |-> "lf"]
    /\ r = 0 /\ w = 0 /\ e = 0
    /\ pc = [p \in Procs |-> "idle"]
    /\ n = [p \in Procs |-> 0] /\ target = [p \in Procs |-> 0]
    /\ killed = [p \in Procs |-> FALSE]

\* There is room for a character.
Room == Plus(e, -r) < INPUT_BUF_SIZE

\* The character, stored at e, makes the line available.
Ends(c) == c \in {"lf", "^D"} \/ Plus(e + 1, -r) = INPUT_BUF_SIZE

\* wakeup(&cons.r)
Awake == [p \in Procs |-> IF pc[p] = "asleep" THEN "lock" ELSE pc[p]]

\* consoleintr stores a character.
Store(c) ==
    /\ buf' = [buf EXCEPT ![Slot(e)] = c]
    /\ e' = Plus(e, 1)
    /\ w' = IF Ends(c) THEN e' ELSE w
    /\ pc' = IF Ends(c) THEN Awake ELSE pc
    /\ UNCHANGED r

\* ^U: the indices back from e to the start of the line.
LineStart ==
    LET Back(d) == Plus(e, -d)
        d == CHOOSE d \in 0 .. INPUT_BUF_SIZE :
                /\ Back(d) = w \/ buf[Slot(Back(d + 1))] = "lf"
                /\ \A j \in 0 .. d - 1 : Back(j) # w /\ buf[Slot(Back(j + 1))] # "lf"
    IN Back(d)

\* Mutant: backspace eats into the lines already ended.
Erasable_Read == e # r
\* ^H erases only in the line being typed.
Erasable == e # w

\* consoleintr
ConsoleIntr(key) ==
    /\ lock = None
    /\ CASE key = "^U" -> e' = LineStart /\ UNCHANGED <<buf, r, w, pc>>
         [] key = "^H" -> e' = (IF Erasable THEN Plus(e, -1) ELSE e) /\ UNCHANGED <<buf, r, w, pc>>
         [] key = "^P" -> UNCHANGED <<ring, pc>>
         [] OTHER -> IF Room THEN Store(IF key = "cr" THEN "lf" ELSE key) ELSE UNCHANGED <<ring, pc>>
    /\ UNCHANGED <<lock, locals, killed>>

-----------------------------------------------------------------------------
\* consoleread is called.
Read(p, len) ==
    /\ pc[p] = "idle" /\ ~killed[p]
    /\ pc' = [pc EXCEPT ![p] = "lock"]
    /\ n' = [n EXCEPT ![p] = len] /\ target' = [target EXCEPT ![p] = len]
    /\ UNCHANGED <<lock, ring, killed>>

\* acquire(&cons.lock), at the start or at the end of sleep.
Acquire(p) ==
    /\ pc[p] = "lock" /\ lock = None
    /\ lock' = p
    /\ pc' = [pc EXCEPT ![p] = "loop"]
    /\ UNCHANGED <<ring, locals, killed>>

\* consoleread returns.
Return(p) ==
    /\ lock' = None
    /\ pc' = [pc EXCEPT ![p] = "idle"]
    /\ n' = [n EXCEPT ![p] = 0] /\ target' = [target EXCEPT ![p] = 0]

\* No line is there: give up when killed, else go to sleep.
Wait(p) ==
    /\ pc[p] = "loop" /\ r = w
    /\ IF killed[p]
       THEN Return(p)
       ELSE pc' = [pc EXCEPT ![p] = "sleep"] /\ UNCHANGED <<lock, locals>>
    /\ UNCHANGED <<ring, killed>>

\* sleep(&cons.r, &cons.lock); a kill since the test has woken nobody.
Sleep(p) ==
    /\ pc[p] = "sleep"
    /\ lock' = None
    /\ pc' = [pc EXCEPT ![p] = "asleep"]
    /\ UNCHANGED <<ring, locals, killed>>

\* ^D is kept for the next read when this one has read something.
AfterEof(p) == IF n[p] < target[p] THEN r ELSE Plus(r, 1)

\* consoleread meets ^D.
TakeEof(p) ==
    /\ pc[p] = "loop" /\ r # w /\ buf[Slot(r)] = "^D"
    /\ r' = AfterEof(p)
    /\ Return(p)
    /\ UNCHANGED <<buf, w, e, killed>>

\* The loop ends after this character.
Complete(p) == n[p] - 1 = 0 \/ buf[Slot(r)] = "lf"

\* consoleread copies one character out.
TakeChar(p) ==
    /\ pc[p] = "loop" /\ r # w /\ buf[Slot(r)] # "^D"
    /\ r' = Plus(r, 1)
    /\ IF Complete(p)
       THEN Return(p)
       ELSE n' = [n EXCEPT ![p] = @ - 1] /\ UNCHANGED <<lock, pc, target>>
    /\ UNCHANGED <<buf, w, e, killed>>

\* either_copyout fails: the character is gone.
CopyFails(p) ==
    /\ pc[p] = "loop" /\ r # w /\ buf[Slot(r)] # "^D"
    /\ r' = Plus(r, 1)
    /\ Return(p)
    /\ UNCHANGED <<buf, w, e, killed>>

\* kkill
Kill(p) ==
    /\ pc[p] # "idle" /\ ~killed[p]
    /\ killed' = [killed EXCEPT ![p] = TRUE]
    /\ pc' = [pc EXCEPT ![p] = IF @ = "asleep" THEN "lock" ELSE @]
    /\ UNCHANGED <<lock, ring, locals>>

Work(p) == Acquire(p) \/ Wait(p) \/ Sleep(p) \/ TakeEof(p) \/ TakeChar(p) \/ CopyFails(p)

Next ==
    \/ \E key \in Keys : ConsoleIntr(key)
    \/ \E p \in Procs : (\E len \in 1 .. MaxLen : Read(p, len)) \/ Work(p) \/ Kill(p)

Spec == Init /\ [][Next]_vars

-----------------------------------------------------------------------------
Text(a, b) == [k \in 1 .. Plus(b, -a) |-> buf[Slot(a + k - 1)]]

Abstract == INSTANCE LineInput WITH
    ready <- Text(r, w), edit <- Text(w, e), Enders <- {"lf", "^D"}, Capacity <- INPUT_BUF_SIZE

\* consoleintr and consoleread together implement line input: the indices
\* may wrap, but no character is lost, doubled, reordered, or erased once
\* its line has ended.
ImplementsLines == Abstract!LSpec
=============================================================================
