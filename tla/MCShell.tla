------------------------------ MODULE MCShell -------------------------------
(***************************************************************************)
(* The shell for TLC.  Unit "parse" gives the parser every sequence of up  *)
(* to MaxTokens tokens (>> is left out, as the parser treats it like >);   *)
(* unit "run" runs some lines.                                             *)
(***************************************************************************)
EXTENDS Shell, TLC

CONSTANT MaxTokens

VARIABLES unit, toks

\* a | b    (a ; b) | c > f    a | b | c    a & ; b | c    a > f < g &
SomeLines == <<{<<"a", "|", "a">>,
                <<"(", "a", ";", "a", ")", "|", "a", ">", "a">>,
                <<"a", "|", "a", "|", "a">>,
                <<"a", "&", ";", "a", "|", "a">>,
                <<"a", ">", "a", "<", "a", "&">>,
                <<"a", "|", "&", ")">>},
               {<<"a", "|", "a">>}>>

ShellInit ==
    /\ unit \in {"parse", "run"} /\ Init
    /\ toks \in IF unit = "run" THEN {<<>>} ELSE UNION {[1 .. n -> Tokens \ {"+"}] : n \in 0 .. MaxTokens}

ShellNext == unit = "run" /\ Next /\ UNCHANGED <<unit, toks>>

svars == <<unit, toks, vars>>

\* The scheduler runs every process, and programs come to the end of their
\* input.  Nobody need type, or quit early.
ShellSpec ==
    /\ ShellInit /\ [][ShellNext]_svars
    /\ WF_svars(unit = "run" /\ ~down /\ (InitFork \/ InitWait) /\ UNCHANGED <<unit, toks>>)
    /\ \A p \in Slots : WF_svars(unit = "run" /\ ~down /\ Work(p) /\ UNCHANGED <<unit, toks>>)

\* The recursive descent of sh.c accepts exactly the lines of the grammar,
\* and nulterminate ends every word (ParsesGrammar of ShellParse).
ParserCorrect == unit = "parse" => ParsesGrammar(toks)
=============================================================================
