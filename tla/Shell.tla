------------------------------- MODULE Shell -------------------------------
(***************************************************************************)
(* The shell (user/sh.c) at work, under init (user/init.c): how runcmd     *)
(* turns the tree of a command into processes and pipes.                   *)
(*                                                                         *)
(* A step is a system call that another process can notice, with the calls *)
(* on the caller's own descriptors that follow it.  fork, pipe, open and   *)
(* exec may fail.  What the kernel does (module Proc, FileTable, Pipe) is  *)
(* abstracted: a pipe is known by the command it was made for, and a       *)
(* program reads to the end of its input and exits.                        *)
(***************************************************************************)
EXTENDS ShellParse, FiniteSets, FiniteSetsExt

CONSTANTS NPROC,     \* process slots
          NOFILE,    \* descriptors of a process
          Lines      \* what the user may type, as tokens, first, second and so on

ASSUME SizeAssumption == NPROC \in Nat /\ NOFILE \in Nat \ {0, 1, 2}

Slots == 1 .. NPROC
init == 1
FDs == 0 .. NOFILE - 1

VARIABLES state,    \* "unused", "live" or "zombie"
          parent, pc,
          fd,       \* open files of each process, see below
          cmd,      \* the command runcmd works on,
          path,     \*   and the way to it from the root of the line's tree
          job,      \* which line it belongs to
          p01,      \* the local p[] of runcmd
          typed,    \* the lines read so far, as parsecmd will find them
          failed,   \* history: lines during which fork or pipe failed
          down      \* init has exited and the kernel has panicked

procs == <<state, parent, pc, fd, cmd, path, job, p01>>
vars == <<procs, typed, failed, down>>

-----------------------------------------------------------------------------
\* Descriptors: close, and the lowest free one for open and dup.
Closed == <<"closed">>
Close(f, n) == [f EXCEPT ![n] = Closed]
Lowest(f) == Min({n \in FDs : f[n] = Closed})
Open(f, x) == [f EXCEPT ![Lowest(f)] = x]
Dup(f, n) == Open(f, f[n])

AllClosed == [n \in FDs |-> Closed]
Console == [n \in FDs |-> IF n < 3 THEN <<"console">> ELSE Closed]
File(mode) == <<mode>>
ReadEnd(j, w) == <<"read", j, w>>
WriteEnd(r) == <<"write", r[2], r[3]>>

\* Some process can still write to the pipe whose read end is r.
HasWriter(r) == \E p \in Slots, n \in FDs : fd[p][n] = WriteEnd(r)

Unused == {p \in Slots : state[p] = "unused"}
Exited(p) == {q \in Slots : state[q] = "zombie" /\ parent[q] = p}

\* exit: descriptors are closed, and init becomes the parent of the children.
Exit(p) ==
    /\ state' = [state EXCEPT ![p] = "zombie"]
    /\ parent' = [q \in Slots |-> IF parent[q] = p THEN init ELSE parent[q]]
    /\ pc' = [pc EXCEPT ![p] = "exited"]
    /\ fd' = [fd EXCEPT ![p] = AllClosed]
    /\ UNCHANGED <<cmd, path, job, p01>>

\* wait(0): some child that has exited is freed; the caller goes on at k.
Wait(p, k) ==
    \E q \in Exited(p) :
        /\ state' = [state EXCEPT ![q] = "unused"]
        /\ parent' = [parent EXCEPT ![q] = 0]
        /\ pc' = [pc EXCEPT ![p] = k, ![q] = "none"]
        /\ cmd' = [cmd EXCEPT ![q] = NoCmd]
        /\ path' = [path EXCEPT ![q] = <<>>]
        /\ job' = [job EXCEPT ![q] = 0]
        /\ p01' = [p01 EXCEPT ![q] = <<>>]
        /\ UNCHANGED fd

\* fork1: the child goes on at k with command c at way w of line j and the
\* descriptors f, the caller at pk.
Fork(p, pk, k, c, w, j, f) ==
    /\ Unused # {}
    /\ LET q == Min(Unused)
       IN  /\ state' = [state EXCEPT ![q] = "live"]
           /\ parent' = [parent EXCEPT ![q] = p]
           /\ pc' = [pc EXCEPT ![p] = pk, ![q] = k]
           /\ fd' = [fd EXCEPT ![q] = f]
           /\ cmd' = [cmd EXCEPT ![q] = c]
           /\ path' = [path EXCEPT ![q] = w]
           /\ job' = [job EXCEPT ![q] = j]
           /\ UNCHANGED p01
    /\ UNCHANGED failed

\* fork or pipe fails, and panic() exits.
Fails(p) == Exit(p) /\ failed' = failed \cup {job[p]}

-----------------------------------------------------------------------------
\* init has opened the console and is about to start a shell.
Init ==
    /\ state = [p \in Slots |-> IF p = init THEN "live" ELSE "unused"]
    /\ parent = [p \in Slots |-> 0]
    /\ pc = [p \in Slots |-> IF p = init THEN "init_fork" ELSE "none"]
    /\ fd = [p \in Slots |-> IF p = init THEN Console ELSE AllClosed]
    /\ cmd = [p \in Slots |-> NoCmd]
    /\ path = [p \in Slots |-> <<>>]
    /\ job = [p \in Slots |-> 0]
    /\ p01 = [p \in Slots |-> <<>>]
    /\ typed = <<>> /\ failed = {} /\ down = FALSE

\* init's outer loop: the shell is started.  When fork fails, init exits.
InitFork ==
    /\ pc[init] = "init_fork"
    /\ \/ Fork(init, "init_wait", "prompt", NoCmd, <<>>, 0, fd[init]) /\ UNCHANGED down
       \/ down' = TRUE /\ UNCHANGED <<procs, failed>>
    /\ UNCHANGED typed

\* init's inner loop: it starts another shell when it is the shell that exited.
InitWait ==
    /\ pc[init] = "init_wait"
    /\ \E k \in {"init_fork", "init_wait"} :
        /\ Wait(init, k)
        /\ k = "init_fork" <=> \E q \in Exited(init) : state'[q] = "unused" /\ job[q] = 0
    /\ UNCHANGED <<typed, failed, down>>

\* main: a line is read, and a child is forked for it; or input ends.
ReadLine(p, l) ==
    /\ pc[p] = "prompt"
    /\ typed' = Append(typed, ParseCmd(l))
    /\ \/ Fork(p, "shell_wait", "parse", NoCmd, <<>>, Len(typed) + 1, fd[p])
       \/ Fails(p)
    /\ UNCHANGED down
EndOfInput(p) == pc[p] = "prompt" /\ Exit(p) /\ UNCHANGED <<typed, failed, down>>
ShellWait(p) == pc[p] = "shell_wait" /\ Wait(p, "prompt") /\ UNCHANGED <<typed, failed, down>>

\* parsecmd, in the child.
Parse(p) ==
    LET t == typed[job[p]]
    IN  /\ pc[p] = "parse"
        /\ IF t.at = 0 THEN Exit(p)
           ELSE /\ pc' = [pc EXCEPT ![p] = "run"]
                /\ cmd' = [cmd EXCEPT ![p] = t.cmd]
                /\ UNCHANGED <<state, parent, fd, path, job, p01>>
        /\ UNCHANGED <<typed, failed, down>>

Runs(p, type) == pc[p] = "run" /\ cmd[p].type = type

\* runcmd, EXEC.
RunExec(p) ==
    /\ Runs(p, "EXEC")
    /\ \/ /\ cmd[p].argv # <<>>
          /\ pc' = [pc EXCEPT ![p] = "program"]
          /\ UNCHANGED <<state, parent, fd, cmd, path, job, p01>>
       \/ Exit(p)
    /\ UNCHANGED <<typed, failed, down>>

\* runcmd, REDIR: close, open.
RunRedir(p) ==
    /\ Runs(p, "REDIR")
    /\ \/ /\ fd' = [fd EXCEPT ![p] = Open(Close(@, cmd[p].fd), File(cmd[p].mode))]
          /\ cmd' = [cmd EXCEPT ![p] = @.cmd]
          /\ path' = [path EXCEPT ![p] = Append(@, "cmd")]
          /\ UNCHANGED <<state, parent, pc, job, p01>>
       \/ Exit(p)
    /\ UNCHANGED <<typed, failed, down>>

\* runcmd, LIST: the left command in a child, then the right one.
RunList(p) ==
    /\ Runs(p, "LIST")
    /\ \/ Fork(p, "list_wait", "run", cmd[p].left, Append(path[p], "left"), job[p], fd[p])
       \/ Fails(p)
    /\ UNCHANGED <<typed, down>>
ListWait(p) == pc[p] = "list_wait" /\ Wait(p, "list_right") /\ UNCHANGED <<typed, failed, down>>
RunRight(p) ==
    /\ pc[p] = "list_right"
    /\ pc' = [pc EXCEPT ![p] = "run"]
    /\ cmd' = [cmd EXCEPT ![p] = @.right]
    /\ path' = [path EXCEPT ![p] = Append(@, "right")]
    /\ UNCHANGED <<state, parent, fd, job, p01, typed, failed, down>>

\* runcmd, PIPE: pipe(p).
RunPipe(p) ==
    LET r == ReadEnd(job[p], path[p])
        f == Open(fd[p], r)
    IN  /\ Runs(p, "PIPE")
        /\ \/ /\ fd' = [fd EXCEPT ![p] = Open(f, WriteEnd(r))]
              /\ p01' = [p01 EXCEPT ![p] = <<Lowest(fd[p]), Lowest(f)>>]
              /\ pc' = [pc EXCEPT ![p] = "fork_left"]
              /\ UNCHANGED <<state, parent, cmd, path, job, failed>>
           \/ Fails(p)
        /\ UNCHANGED <<typed, down>>

\* Mutant: the child keeps the write end besides its standard output.
Wired_KeepsWrite(f, n, end, p) == Close(Dup(Close(f, n), end), p[1])
\* The descriptors of a child: end becomes n, and p[] is closed.
Wired(f, n, end, p) == Close(Close(Dup(Close(f, n), end), p[1]), p[2])

ForkLeft(p) ==
    /\ pc[p] = "fork_left"
    /\ \/ Fork(p, "fork_right", "run", cmd[p].left, Append(path[p], "left"), job[p],
               Wired(fd[p], 1, p01[p][2], p01[p]))
       \/ Fails(p)
    /\ UNCHANGED <<typed, down>>
ForkRight(p) ==
    /\ pc[p] = "fork_right"
    /\ \/ Fork(p, "close", "run", cmd[p].right, Append(path[p], "right"), job[p],
               Wired(fd[p], 0, p01[p][1], p01[p]))
       \/ Fails(p)
    /\ UNCHANGED <<typed, down>>

\* Mutant: the parent keeps p[1].
Released_NotWrite(f, p) == Close(f, p[1])
Released(f, p) == Close(Close(f, p[1]), p[2])
ClosePipe(p) ==
    /\ pc[p] = "close"
    /\ fd' = [fd EXCEPT ![p] = Released(@, p01[p])]
    /\ pc' = [pc EXCEPT ![p] = "pipe_wait"]
    /\ UNCHANGED <<state, parent, cmd, path, job, p01, typed, failed, down>>

\* Mutant: the shell does not wait for the second child.
AfterFirstWait_Done == "done"
AfterFirstWait == "pipe_wait2"
PipeWait(p) ==
    /\ \/ pc[p] = "pipe_wait" /\ Wait(p, AfterFirstWait)
       \/ pc[p] = "pipe_wait2" /\ Wait(p, "done")
    /\ UNCHANGED <<typed, failed, down>>

\* runcmd, BACK: the command in a child nobody waits for.
RunBack(p) ==
    /\ Runs(p, "BACK")
    /\ \/ Fork(p, "done", "run", cmd[p].cmd, Append(path[p], "cmd"), job[p], fd[p])
       \/ Fails(p)
    /\ UNCHANGED <<typed, down>>

\* exit(0) at the end of runcmd.
Done(p) == pc[p] = "done" /\ Exit(p) /\ UNCHANGED <<typed, failed, down>>

\* A program ends when its input ends, or before.
AtEnd(p) == fd[p][0][1] = "read" => ~HasWriter(fd[p][0])
ProgramEnds(p) == pc[p] = "program" /\ AtEnd(p) /\ Exit(p) /\ UNCHANGED <<typed, failed, down>>
ProgramQuits(p) == pc[p] = "program" /\ ~AtEnd(p) /\ Exit(p) /\ UNCHANGED <<typed, failed, down>>

Work(p) ==
    \/ ShellWait(p) \/ Parse(p) \/ RunExec(p) \/ RunRedir(p) \/ RunList(p) \/ ListWait(p) \/ RunRight(p)
    \/ RunPipe(p) \/ ForkLeft(p) \/ ForkRight(p) \/ ClosePipe(p) \/ PipeWait(p) \/ RunBack(p) \/ Done(p)
    \/ ProgramEnds(p)

Next ==
    /\ ~down
    /\ \/ InitFork \/ InitWait
       \/ \E p \in Slots :
            Work(p) \/ EndOfInput(p) \/ ProgramQuits(p) \/ (Len(typed) < Len(Lines) /\ \E l \in Lines[Len(typed) + 1] : ReadLine(p, l))

Spec == Init /\ [][Next]_vars

-----------------------------------------------------------------------------
\* The input and output that the line gives to the command at way w of its
\* tree t: those of the shell, but for redirections and pipes on the way.
RECURSIVE Standard(_, _, _, _, _)
Standard(t, w, k, j, io) ==
    IF k > Len(w) THEN io
    ELSE CASE t.type = "REDIR" -> Standard(t.cmd, w, k + 1, j, [io EXCEPT ![t.fd] = File(t.mode)])
           [] t.type = "BACK" -> Standard(t.cmd, w, k + 1, j, io)
           [] t.type = "LIST" -> Standard(t[w[k]], w, k + 1, j, io)
           [] t.type = "PIPE" ->
                LET r == ReadEnd(j, SubSeq(w, 1, k - 1))
                IN  Standard(t[w[k]], w, k + 1, j,
                             IF w[k] = "left" THEN [io EXCEPT ![1] = WriteEnd(r)] ELSE [io EXCEPT ![0] = r])

\* A program starts with the input and the output that its line gives it,
\* the console for errors, and no other descriptor: no end of a pipe leaks
\* into a program, whatever the nesting of pipes and redirections.
WiredAsWritten ==
    \A p \in Slots : pc[p] = "program" =>
        fd[p] = Standard(typed[job[p]].cmd, path[p], 1, job[p], Console)

\* Is there an `&' on the way?
RECURSIVE Background(_, _, _)
Background(t, w, k) ==
    k <= Len(w) /\ (t.type = "BACK" \/ Background(t[w[k]], w, k + 1))

\* The shell prompts again only when every process of the line it has read
\* is gone, but for those in the background; unless fork or pipe failed.
PromptWhenDone ==
    \A s, p \in Slots :
        /\ pc[s] = "prompt" /\ state[p] = "live" /\ job[p] # 0 /\ job[p] \notin failed
        => Background(typed[job[p]].cmd, path[p], 1)

\* The shell prompts again, or ends, whatever it was told to run and
\* whatever failed: no reader waits for a writer that is not there.
JobsEnd == \A p \in Slots : pc[p] = "shell_wait" ~> pc[p] # "shell_wait"
=============================================================================
