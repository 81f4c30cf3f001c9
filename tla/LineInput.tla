----------------------------- MODULE LineInput ------------------------------
(***************************************************************************)
(* What the console promises its readers: the user edits a line, and only  *)
(* the last line, until it ends; characters of ended lines come out once   *)
(* each, in the order typed.                                               *)
(***************************************************************************)
EXTENDS Naturals, Sequences

CONSTANTS Chars, Enders, Capacity

VARIABLES ready,  \* characters of ended lines
          edit    \* the line being typed

lvars == <<ready, edit>>

LInit == ready = <<>> /\ edit = <<>>

\* A character is typed.  It ends the line, or the buffer is full with it,
\* or the line goes on; with a full buffer it is ignored.
Type(c) ==
    /\ Len(ready) + Len(edit) < Capacity
    /\ IF c \in Enders \/ Len(ready) + Len(edit) + 1 = Capacity
       THEN ready' = ready \o Append(edit, c) /\ edit' = <<>>
       ELSE edit' = Append(edit, c) /\ UNCHANGED ready

Erase ==
    /\ edit # <<>>
    /\ edit' = SubSeq(edit, 1, Len(edit) - 1)
    /\ UNCHANGED ready

KillLine == edit' = <<>> /\ UNCHANGED ready

Take == ready # <<>> /\ ready' = Tail(ready) /\ UNCHANGED edit

LNext == (\E c \in Chars : Type(c)) \/ Erase \/ KillLine \/ Take

LSpec == LInit /\ [][LNext]_lvars
=============================================================================
