----------------------------- MODULE GrepMatch ------------------------------
(***************************************************************************)
(* The regular expression matcher of user/grep.c, against a definition of  *)
(* what an expression means.  Strings are sequences of characters.         *)
(***************************************************************************)
EXTENDS Integers, Sequences

CONSTANTS ReChars, TextChars,  \* characters of expressions and of texts
          MaxRe, MaxText       \* longest expression and text tried

VARIABLES re, text, result

vars == <<re, text, result>>

Strings(S, n) == UNION {[1 .. k -> S] : k \in 0 .. n}

\* C strings: past the end there is a 0.
At(s, k) == IF k <= Len(s) THEN s[k] ELSE "nul"
From(s, k) == SubSeq(s, k, Len(s))

RECURSIVE matchhere(_, _), matchstar(_, _, _)

\* Mutant: `$' stands for the end wherever it is.
AtEnd_Anywhere(r) == At(r, 1) = "$"
\* `$' stands for the end of the text only at the end of the expression.
AtEnd(r) == At(r, 1) = "$" /\ At(r, 2) = "nul"

matchhere(r, t) ==
    IF r = <<>> THEN TRUE
    ELSE IF At(r, 2) = "*" THEN matchstar(r[1], From(r, 3), t)
    ELSE IF AtEnd(r) THEN t = <<>>
    ELSE /\ t # <<>>
         /\ r[1] = "." \/ r[1] = t[1]
         /\ matchhere(From(r, 2), From(t, 2))

matchstar(c, r, t) ==
    \/ matchhere(r, t)
    \/ /\ t # <<>>
       /\ t[1] = c \/ c = "."
       /\ matchstar(c, r, From(t, 2))

\* match: an expression that starts with `^' at the start of the text, any
\* other at every place, the end of the text included.
match(r, t) ==
    IF At(r, 1) = "^" THEN matchhere(From(r, 2), t)
    ELSE \E k \in 1 .. Len(t) + 1 : matchhere(r, From(t, k))

-----------------------------------------------------------------------------
Init == re \in Strings(ReChars, MaxRe) /\ text \in Strings(TextChars, MaxText) /\ result = "none"

\* grep tries the expression on a line.
Try ==
    /\ result = "none"
    /\ result' = IF match(re, text) THEN "yes" ELSE "no"
    /\ UNCHANGED <<re, text>>

Spec == Init /\ [][Try]_vars

-----------------------------------------------------------------------------
\* An expression as a list of items: a character, once or starred, or the end.
Parsed(r) ==
    LET RECURSIVE Items(_)
        Items(s) ==
            IF s = <<>> THEN <<>>
            ELSE IF Len(s) >= 2 /\ s[2] = "*" THEN <<[char |-> s[1], kind |-> "star"]>> \o Items(From(s, 3))
            ELSE IF s = <<"$">> THEN <<[char |-> "$", kind |-> "end"]>>
            ELSE <<[char |-> s[1], kind |-> "once"]>> \o Items(From(s, 2))
    IN Items(r)

\* Characters i + 1 .. j of text t are what an item stands for.
Means(item, t, i, j) ==
    CASE item.kind = "end"  -> i = Len(t) /\ j = i
      [] item.kind = "once" -> j = i + 1 /\ item.char \in {".", t[j]}
      [] item.kind = "star" -> \A k \in i + 1 .. j : item.char \in {".", t[k]}

\* The text can be cut into consecutive pieces, one for each item, with
\* something before them unless the expression is anchored.
Denotes(r, t) ==
    LET anchored == r # <<>> /\ r[1] = "^"
        items == Parsed(IF anchored THEN From(r, 2) ELSE r)
    IN \E cut \in [0 .. Len(items) -> 0 .. Len(t)] :
        /\ anchored => cut[0] = 0
        /\ \A i \in 1 .. Len(items) : cut[i - 1] <= cut[i] /\ Means(items[i], t, cut[i - 1], cut[i])

\* match finds out whether the expression denotes a part of the text: the
\* greedy recursion of matchhere and matchstar misses no way to match.
MatchesDenotation == result # "none" => (result = "yes" <=> Denotes(re, text))
=============================================================================
