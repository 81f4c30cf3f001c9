----------------------------- MODULE ShellParse -----------------------------
(***************************************************************************)
(* The recursive-descent parser of user/sh.c.                              *)
(*                                                                         *)
(* A line is a sequence of the tokens that gettoken finds in it: "a" is a  *)
(* word, "+" is >>.  A word is known by its position in the line.  parse*  *)
(* are functions of a position, and return a command and the position     *)
(* after it, 0 standing for the panic that ends the child.                 *)
(***************************************************************************)
EXTENDS Integers, Sequences, SequencesExt

CONSTANT MAXARGS

Redirs == {"<", ">", "+"}
Tokens == {"a", "|", "&", ";", "(", ")"} \cup Redirs

-----------------------------------------------------------------------------
execcmd(argv) == [type |-> "EXEC", argv |-> argv]
redircmd(c, tok, file) == [type |-> "REDIR", cmd |-> c, file |-> file, mode |-> tok, fd |-> IF tok = "<" THEN 0 ELSE 1]
pipecmd(l, r) == [type |-> "PIPE", left |-> l, right |-> r]
listcmd(l, r) == [type |-> "LIST", left |-> l, right |-> r]
backcmd(c) == [type |-> "BACK", cmd |-> c]

NoCmd == execcmd(<<>>)
Panics == [cmd |-> NoCmd, at |-> 0]

Peek(s, i, toks) == i <= Len(s) /\ s[i] \in toks

\* Redirections wrap a command one after the other, the last one outermost.
Redirected(s, c, rs) == FoldLeft(LAMBDA acc, k : redircmd(acc, s[k], k + 1), c, rs)

\* parseredirs: the positions of the redirections from i on, after rs.
RECURSIVE ParseRedirs(_, _, _)
ParseRedirs(s, i, rs) ==
    IF ~Peek(s, i, Redirs) THEN [redirs |-> rs, at |-> i]
    ELSE IF ~Peek(s, i + 1, {"a"}) THEN [redirs |-> rs, at |-> 0]
    ELSE ParseRedirs(s, i + 2, Append(rs, i))

TooMany(argc) == argc >= MAXARGS

\* The loop of parseexec, with the words found so far and r, what the last
\* parseredirs has found.
RECURSIVE ParseArgs(_, _, _)
ParseArgs(s, argv, r) ==
    IF r.at = 0 THEN Panics
    ELSE IF r.at > Len(s) \/ Peek(s, r.at, {"|", ")", "&", ";"})
        THEN [cmd |-> Redirected(s, execcmd(argv), r.redirs), at |-> r.at]
    ELSE IF s[r.at] # "a" \/ TooMany(Len(argv) + 1) THEN Panics
    ELSE ParseArgs(s, Append(argv, r.at), ParseRedirs(s, r.at + 1, r.redirs))

\* Mutant: what follows the first `&' is left over.
Backgrounds_One(s, i) == IF Peek(s, i, {"&"}) THEN 1 ELSE 0
\* How often parseline's loop finds `&' from position i on.
RECURSIVE Backgrounds(_, _)
Backgrounds(s, i) == IF Peek(s, i, {"&"}) THEN 1 + Backgrounds(s, i + 1) ELSE 0

RECURSIVE InBackground(_, _)
InBackground(c, n) == IF n = 0 THEN c ELSE backcmd(InBackground(c, n - 1))

RECURSIVE ParseLine(_, _)

\* The end of parseblock, after the line and after the redirections.
BlockDone(s, c, r) == IF r.at = 0 THEN Panics ELSE [cmd |-> Redirected(s, c, r.redirs), at |-> r.at]
BlockEnd(s, line) ==
    IF line.at = 0 \/ ~Peek(s, line.at, {")"}) THEN Panics
    ELSE BlockDone(s, line.cmd, ParseRedirs(s, line.at + 1, <<>>))
ParseBlock(s, i) == BlockEnd(s, ParseLine(s, i + 1))

ParseExec(s, i) == IF Peek(s, i, {"("}) THEN ParseBlock(s, i) ELSE ParseArgs(s, <<>>, ParseRedirs(s, i, <<>>))

\* parsepipe; left and right are what parseexec and parsepipe return.
RECURSIVE ParsePipe(_, _)
PipeDone(left, right) == IF right.at = 0 THEN Panics ELSE [cmd |-> pipecmd(left.cmd, right.cmd), at |-> right.at]
PipeRest(s, left) ==
    IF left.at = 0 \/ ~Peek(s, left.at, {"|"}) THEN left ELSE PipeDone(left, ParsePipe(s, left.at + 1))
ParsePipe(s, i) == PipeRest(s, ParseExec(s, i))

\* parseline; p is what parsepipe returns, n how many `&' follow it.
ListDone(left, right) == IF right.at = 0 THEN Panics ELSE [cmd |-> listcmd(left, right.cmd), at |-> right.at]
LineRest(s, p, n) ==
    IF p.at = 0 THEN Panics
    ELSE IF ~Peek(s, p.at + n, {";"}) THEN [cmd |-> InBackground(p.cmd, n), at |-> p.at + n]
    ELSE ListDone(InBackground(p.cmd, n), ParseLine(s, p.at + n + 1))
LineAfter(s, p) == LineRest(s, p, Backgrounds(s, p.at))
ParseLine(s, i) == LineAfter(s, ParsePipe(s, i))

\* parsecmd: nothing may be left over.
Whole(s, p) == IF p.at = Len(s) + 1 THEN p ELSE Panics
ParseCmd(s) == Whole(s, ParseLine(s, 1))

FileEnd(c) == {c.file}
\* nulterminate: the words that get a NUL after them.
RECURSIVE NulTerminate(_)
NulTerminate(c) ==
    CASE c.type = "EXEC" -> ToSet(c.argv)
      [] c.type = "REDIR" -> NulTerminate(c.cmd) \cup FileEnd(c)
      [] c.type = "BACK" -> NulTerminate(c.cmd)
      [] OTHER -> NulTerminate(c.left) \cup NulTerminate(c.right)

-----------------------------------------------------------------------------
(***************************************************************************)
(* The grammar, as the set of trees of the tokens from i up to j - 1:      *)
(*   line = pipe `&'* [`;' line]        pipe = exec [`|' pipe]             *)
(*   exec = (word | redir)*  with fewer than MAXARGS words                 *)
(*        | `(' line `)' redir*                                            *)
(***************************************************************************)
Positions(i, j, Test(_)) == SelectSeq([k \in 1 .. j - i |-> i + k - 1], Test)

\* A word is a file after a redirection, and an argument otherwise.
IsFile(s, i, k) == k > i /\ s[k - 1] \in Redirs
Simple(s, i, j) ==
    /\ \A k \in i .. j - 1 : s[k] \in Redirs \cup {"a"}
    /\ \A k \in i .. j - 1 : s[k] \in Redirs => k + 1 < j /\ s[k + 1] = "a"
Args(s, i, j) == Positions(i, j, LAMBDA k : s[k] = "a" /\ ~IsFile(s, i, k))
RedirsOf(s, i, j) == Positions(i, j, LAMBDA k : s[k] \in Redirs)

RECURSIVE LineTrees(_, _, _)

ExecTrees(s, i, j) ==
    {Redirected(s, execcmd(Args(s, i, j)), RedirsOf(s, i, j)) :
        x \in {y \in {0} : Simple(s, i, j) /\ Len(Args(s, i, j)) < MAXARGS}}
    \cup UNION {{Redirected(s, c, RedirsOf(s, k + 1, j)) : c \in LineTrees(s, i + 1, k)} :
                k \in {m \in i + 1 .. j - 1 : s[i] = "(" /\ s[m] = ")" /\ Simple(s, m + 1, j) /\ Args(s, m + 1, j) = <<>>}}

RECURSIVE PipeTrees(_, _, _)
PipeTrees(s, i, j) ==
    ExecTrees(s, i, j)
    \cup UNION {{pipecmd(l, r) : l \in ExecTrees(s, i, k), r \in PipeTrees(s, k + 1, j)} :
                k \in {m \in i .. j - 1 : s[m] = "|"}}

RECURSIVE BackTrees(_, _, _)
BackTrees(s, i, j) ==
    PipeTrees(s, i, j)
    \cup IF j > i /\ s[j - 1] = "&" THEN {backcmd(c) : c \in BackTrees(s, i, j - 1)} ELSE {}

LineTrees(s, i, j) ==
    BackTrees(s, i, j)
    \cup UNION {{listcmd(l, r) : l \in BackTrees(s, i, k), r \in LineTrees(s, k + 1, j)} :
                k \in {m \in i .. j - 1 : s[m] = ";"}}

\* The parser accepts a line when the grammar gives it a tree, which is then
\* the only one, and finds that tree; and every word of the line, argument
\* or file, is terminated by nulterminate.
IsParse(s, p) ==
    /\ LineTrees(s, 1, Len(s) + 1) = IF p.at = 0 THEN {} ELSE {p.cmd}
    /\ p.at # 0 => NulTerminate(p.cmd) = {k \in DOMAIN s : s[k] = "a"}
ParsesGrammar(s) == IsParse(s, ParseCmd(s))
=============================================================================
