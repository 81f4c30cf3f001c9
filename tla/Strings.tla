------------------------------ MODULE Strings -------------------------------
(***************************************************************************)
(* kernel/string.c and the string functions of user/ulib.c, loop by loop,  *)
(* against what they should compute.                                       *)
(*                                                                         *)
(* A memory is a function on 0 .. MEMSIZE - 1, a pointer an index of it, a *)
(* string ends at the first 0.  Functions that write return the memory.    *)
(***************************************************************************)
EXTENDS Integers, Sequences, FiniteSetsExt

CONSTANTS MEMSIZE, Chars   \* other than 0

MemAssumption == MEMSIZE \in Nat \ {0} /\ Chars \subseteq Nat \ {0}

Cells == 0 .. MEMSIZE - 1

VARIABLES mem

Init == mem \in [Cells -> Chars \cup {0}]

-----------------------------------------------------------------------------
\* while (n-- > 0) *d++ = *s++;
RECURSIVE Forward(_, _, _, _)
Forward(m, d, s, n) == IF n = 0 THEN m ELSE Forward([m EXCEPT ![d] = m[s]], d + 1, s + 1, n - 1)

\* while (n-- > 0) *--d = *--s;
RECURSIVE Backward(_, _, _, _)
Backward(m, d, s, n) == IF n = 0 THEN m ELSE Backward([m EXCEPT ![d - 1] = m[s - 1]], d - 1, s - 1, n - 1)

\* Mutant: off by one in the test for an overlap.
FromTheEnd_Late(d, s, n) == s < d /\ s + n > d + 1
\* The kernel's memmove goes backwards if the end of the source overlaps.
FromTheEnd(d, s, n) == s < d /\ s + n > d

memmove(m, d, s, n) ==
    IF n = 0 THEN m ELSE IF FromTheEnd(d, s, n) THEN Backward(m, d + n, s + n, n) ELSE Forward(m, d, s, n)

\* The one of ulib.c.
ulib_memmove(m, d, s, n) == IF s > d THEN Forward(m, d, s, n) ELSE Backward(m, d + n, s + n, n)

RECURSIVE memset(_, _, _, _)
memset(m, d, c, n) == IF n = 0 THEN m ELSE memset([m EXCEPT ![d] = c], d + 1, c, n - 1)

RECURSIVE memcmp(_, _, _, _)
memcmp(m, a, b, n) ==
    IF n = 0 THEN 0 ELSE IF m[a] # m[b] THEN m[a] - m[b] ELSE memcmp(m, a + 1, b + 1, n - 1)

RECURSIVE strncmp(_, _, _, _)
strncmp(m, p, q, n) ==
    IF n > 0 /\ m[p] # 0 /\ m[p] = m[q] THEN strncmp(m, p + 1, q + 1, n - 1)
    ELSE IF n = 0 THEN 0 ELSE m[p] - m[q]

RECURSIVE strcmp(_, _, _)
strcmp(m, p, q) == IF m[p] # 0 /\ m[p] = m[q] THEN strcmp(m, p + 1, q + 1) ELSE m[p] - m[q]

\* Its two loops: copy, then fill with 0.
RECURSIVE strncpy(_, _, _, _)
strncpy(m, s, t, n) ==
    IF n <= 0 THEN m
    ELSE IF m[t] # 0 THEN strncpy([m EXCEPT ![s] = m[t]], s + 1, t + 1, n - 1)
    ELSE memset([m EXCEPT ![s] = 0], s + 1, 0, n - 1)

RECURSIVE CopyBefore(_, _, _, _)
CopyBefore(m, s, t, n) ==
    IF n - 1 > 0 THEN IF m[t] # 0 THEN CopyBefore([m EXCEPT ![s] = m[t]], s + 1, t + 1, n - 1)
                      ELSE [m EXCEPT ![s] = 0, ![s + 1] = 0]
    ELSE [m EXCEPT ![s] = 0]
safestrcpy(m, s, t, n) == IF n <= 0 THEN m ELSE CopyBefore(m, s, t, n)

RECURSIVE strcpy(_, _, _)
strcpy(m, s, t) == IF m[t] = 0 THEN [m EXCEPT ![s] = 0] ELSE strcpy([m EXCEPT ![s] = m[t]], s + 1, t + 1)

RECURSIVE strlen(_, _)
strlen(m, s) == IF m[s] = 0 THEN 0 ELSE 1 + strlen(m, s + 1)

\* -1 for a null pointer.
RECURSIVE strchr(_, _, _)
strchr(m, s, c) == IF m[s] = 0 THEN -1 ELSE IF m[s] = c THEN s ELSE strchr(m, s + 1, c)

\* gets(buf, max) from the input `in', where c is a line end: what it stores.
RECURSIVE GetsFrom(_, _, _, _)
GetsFrom(in, i, max, c) ==
    IF i + 1 < max /\ i < Len(in)
    THEN <<in[i + 1]>> \o IF in[i + 1] = c THEN <<0>> ELSE GetsFrom(in, i + 1, max, c)
    ELSE <<0>>
gets(in, max, c) == GetsFrom(in, 0, max, c)

-----------------------------------------------------------------------------
\* The cells of a range, and whether it lies in the memory.
Span(p, n) == p .. p + n - 1
Fits(p, n) == Span(p, n) \subseteq Cells

\* The string at s, if it ends.
Ends(m, s) == {e \in Cells : e >= s /\ m[e] = 0}
Text(m, s) == [i \in 1 .. Min(Ends(m, s)) - s |-> m[s + i - 1]]

\* Memory m with sequence x stored at d.
Stored(m, d, x) == [i \in Cells |-> IF i \in Span(d, Len(x)) THEN x[i - d + 1] ELSE m[i]]

\* The first place at which two sequences differ, or one more than the
\* shorter one has.
FirstDiff(x, y) == Min({i \in 1 .. Len(x) + 1 : i > Len(x) \/ i > Len(y) \/ x[i] # y[i]})

\* Both memmoves copy what was there before, however the ranges overlap, and
\* touch nothing else.
MovesRight(m) ==
    \A d, s \in Cells, n \in 0 .. MEMSIZE : Fits(d, n) /\ Fits(s, n) =>
        LET right == Stored(m, d, [i \in 1 .. n |-> m[s + i - 1]])
        IN memmove(m, d, s, n) = right /\ ulib_memmove(m, d, s, n) = right

\* The bounded copies write no further than they may, end the string where
\* they promise to, and keep as much of it as fits; comparisons agree with
\* the order of the strings, which ends before the bound or a 0.
StringsRight(m) ==
    \A p, q \in Cells : Ends(m, p) # {} /\ Ends(m, q) # {} =>
        LET x == Text(m, p)
            y == Text(m, q)
            k == FirstDiff(x, y)
            zero(z) == z \o <<0>>
        IN /\ strlen(m, p) = Len(x)
           /\ strcmp(m, p, q) = zero(x)[k] - zero(y)[k]
           /\ \A n \in 0 .. MEMSIZE :
                /\ strncmp(m, p, q, n) = IF n < k THEN 0 ELSE zero(x)[k] - zero(y)[k]
                /\ n <= Len(x) + 1 /\ n <= Len(y) + 1 =>
                    (memcmp(m, p, q, n) = 0) = (SubSeq(zero(x), 1, n) = SubSeq(zero(y), 1, n))
                /\ Fits(q, n) /\ Span(q, n) \cap Span(p, Len(x) + 1) = {} =>
                    /\ strncpy(m, q, p, n) = Stored(m, q, [i \in 1 .. n |-> IF i <= Len(x) THEN x[i] ELSE 0])
                    /\ n > 0 =>
                        LET c == safestrcpy(m, q, p, n)
                        IN /\ Ends(c, q) # {} /\ Text(c, q) = SubSeq(x, 1, Min({n - 1, Len(x)}))
                           /\ \A i \in Cells \ Span(q, n) : c[i] = m[i]
                    /\ n = Len(x) + 1 => strcpy(m, q, p) = Stored(m, q, zero(x))
           /\ \A c \in Chars :
                strchr(m, p, c) = IF c \in {x[i] : i \in DOMAIN x} THEN p + FirstDiff(x, SelectSeq(x, LAMBDA z : z # c)) - 1
                                  ELSE -1

\* gets ends its line at a line end or when the buffer is full, and leaves
\* room for the 0.
GetsRight(m) ==
    \A n \in 0 .. MEMSIZE, max \in 1 .. MEMSIZE, c \in Chars :
        LET in == [i \in 1 .. n |-> m[i - 1]]
            ends == {i \in 1 .. n : in[i] = c} \cup {n, max - 1}
        IN gets(in, max, c) = SubSeq(in, 1, Min(ends)) \o <<0>>

\* The string functions of the kernel and of user programs compute what they
\* should, for every memory and all pointers into it.
StringsMeetReference == MovesRight(mem) /\ StringsRight(mem) /\ GetsRight(mem)
=============================================================================
