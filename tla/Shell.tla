------------------------------- MODULE Shell --------------------------------
(***************************************************************************)
(* The shell (user/sh.c) over the descriptors of its processes and the     *)
(* table of open files (kernel/file.c, kernel/sysfile.c).                  *)
(*                                                                         *)
(* Data.  A line is a sequence of tokens, without white space.  What       *)
(* runcmd does for a parsed command is a fixed list of system calls: todo  *)
(* is the list that a process still has to make, one per step.  A process  *)
(* of a filter ends when it reads the end of its input, that of another    *)
(* program when it likes; the bytes are those of module Pipe.  A file that *)
(* a redirection names can be opened or not.                               *)
(***************************************************************************)
EXTENDS Integers, Sequences, FiniteSets, SequencesExt

CONSTANTS
  NPROC, NFILE, NOFILE, MAXARGS,
  Line,              \* what may be typed: sequences of tokens
  Program, Filter,   \* the programs of /bin, and those of them that read all input
  Jobs               \* bound: processes in the background when a line is typed

Slot == 1 .. NPROC
Fd == 0 .. NOFILE - 1
Symbol == {"|", "(", ")", ";", "&", "<", ">", ">>"}

-----------------------------------------------------------------------------
(* Constructors and parser.  A result is <<command, the tokens left>>, or  *)
(* <<>> where the shell panics.                                            *)

Execcmd(argv) == [type |-> "EXEC", argv |-> argv]
Redircmd(c, file, fd) == [type |-> "REDIR", cmd |-> c, file |-> file, fd |-> fd]
Pipecmd(left, right) == [type |-> "PIPE", left |-> left, right |-> right]
Listcmd(left, right) == [type |-> "LIST", left |-> left, right |-> right]
Backcmd(c) == [type |-> "BACK", cmd |-> c]

Peek(s, toks) == s # <<>> /\ Head(s) \in toks

RECURSIVE Parseredirs(_, _), Parseargs(_, _, _), Backs(_, _), Parsepipe(_), Parseline(_)

\* The redirections at the head of s, added to rs.
Parseredirs(rs, s) ==
  IF ~Peek(s, {"<", ">", ">>"}) THEN <<rs, s>>
  ELSE IF Len(s) < 2 \/ s[2] \in Symbol THEN <<>>
  ELSE Parseredirs(Append(rs, <<s[2], IF s[1] = "<" THEN 0 ELSE 1>>), SubSeq(s, 3, Len(s)))

\* The first redirection of the text is the innermost.
Redirected(c, rs) == FoldLeft(LAMBDA d, r : Redircmd(d, r[1], r[2]), c, rs)

\* The loop of parseexec, after the redirections rs.
Parseargs(argv, rs, s) ==
  IF s = <<>> \/ Peek(s, {"|", ")", "&", ";"}) THEN <<Redirected(Execcmd(argv), rs), s>>
  ELSE IF Head(s) \in Symbol \/ Len(argv) + 1 >= MAXARGS THEN <<>>
  ELSE LET r == Parseredirs(rs, Tail(s)) IN
       IF r = <<>> THEN <<>> ELSE Parseargs(Append(argv, Head(s)), r[1], r[2])

Parseblock(s) ==
  LET l == Parseline(Tail(s))
      r == Parseredirs(<<>>, Tail(l[2]))
  IN IF l = <<>> THEN <<>>
     ELSE IF ~Peek(l[2], {")"}) THEN <<>>
     ELSE IF r = <<>> THEN <<>>
     ELSE <<Redirected(l[1], r[1]), r[2]>>

Parseexec(s) ==
  LET r == Parseredirs(<<>>, s) IN
  IF Peek(s, {"("}) THEN Parseblock(s)
  ELSE IF r = <<>> THEN <<>> ELSE Parseargs(<<>>, r[1], r[2])

\* Mutant of Parsepipe: what is left of a bar is one pipeline.
Parsepipe_Left(s) ==
  LET l == Parseexec(s)
      r == Parseexec(Tail(l[2]))
  IN IF l = <<>> THEN <<>>
     ELSE IF ~Peek(l[2], {"|"}) THEN l
     ELSE IF r = <<>> THEN <<>>
     ELSE <<Pipecmd(l[1], r[1]), r[2]>>

Parsepipe(s) ==
  LET l == Parseexec(s)
      r == Parsepipe(Tail(l[2]))
  IN IF l = <<>> THEN <<>>
     ELSE IF ~Peek(l[2], {"|"}) THEN l
     ELSE IF r = <<>> THEN <<>>
     ELSE <<Pipecmd(l[1], r[1]), r[2]>>

Backs(c, s) == IF Peek(s, {"&"}) THEN Backs(Backcmd(c), Tail(s)) ELSE <<c, s>>

Parseline(s) ==
  LET l == Parsepipe(s)
      b == Backs(l[1], l[2])
      r == Parseline(Tail(b[2]))
  IN IF l = <<>> THEN <<>>
     ELSE IF ~Peek(b[2], {";"}) THEN b
     ELSE IF r = <<>> THEN <<>>
     ELSE <<Listcmd(b[1], r[1]), r[2]>>

\* <<command>>, or <<>> for a syntax error or something left over.
Parsecmd(s) ==
  LET r == Parseline(s) IN
  IF r = <<>> THEN <<>> ELSE IF r[2] # <<>> THEN <<>> ELSE <<r[1]>>

-----------------------------------------------------------------------------
(* runcmd: the system calls for a command.  p stands for the descriptors   *)
(* of the last pipe; a fork names the calls of the child, and its kind.    *)

\* Mutant of LeftEnd: the wrong end of the pipe becomes the output.
LeftEnd_Swapped == <<<<"close", 1>>, <<"dup", 1>>, <<"closep", 1>>, <<"closep", 2>>>>

LeftEnd == <<<<"close", 1>>, <<"dup", 2>>, <<"closep", 1>>, <<"closep", 2>>>>
RightEnd == <<<<"close", 0>>, <<"dup", 1>>, <<"closep", 1>>, <<"closep", 2>>>>

\* Mutant of ParentEnds: the shell of a pipeline keeps its writing end.
ParentEnds_KeepsWriter == <<<<"closep", 1>>>>

ParentEnds == <<<<"closep", 1>>, <<"closep", 2>>>>

Waits == <<<<"wait">>, <<"wait">>>>

RECURSIVE Runcmd(_)
Runcmd(cmd) ==
  CASE cmd.type = "EXEC"  -> <<<<"exec", cmd.argv>>, <<"exit">>>>
    [] cmd.type = "REDIR" -> <<<<"close", cmd.fd>>, <<"open", cmd.file, cmd.fd>>>>
                             \o Runcmd(cmd.cmd)
    [] cmd.type = "LIST"  -> <<<<"fork", Runcmd(cmd.left), "list">>, <<"wait">>>>
                             \o Runcmd(cmd.right)
    [] cmd.type = "PIPE"  -> <<<<"pipe">>,
                               <<"fork", LeftEnd \o Runcmd(cmd.left), "left">>,
                               <<"fork", RightEnd \o Runcmd(cmd.right), "right">>>>
                             \o ParentEnds \o Waits \o <<<<"exit">>>>
    [] cmd.type = "BACK"  -> <<<<"fork", Runcmd(cmd.cmd), "back">>, <<"exit">>>>

-----------------------------------------------------------------------------
VARIABLES
  file,     \* ftable: [ref, is]
  proc,     \* [state, parent, ofile, todo, p, want, loose]; init is process 0
  sh        \* the shell of the console

vars == <<file, proc, sh>>

NoFile == [ref |-> 0, is |-> <<"none">>]
Console == <<"console">>

\* want (history): what the command says its input and output are.  loose (history):
\* nobody waits for the process: it, or the process it descends from, is in the
\* background or was left behind by a shell that panicked.
Unused == [state |-> "UNUSED", parent |-> 0, ofile |-> [n \in Fd |-> 0], todo |-> <<>>,
           p |-> <<0, 0>>, want |-> <<Console, Console>>, loose |-> FALSE]

\* getty, with the descriptors 0, 1 and 2 that init opened, has become the shell.
Started == [Unused EXCEPT !.state = "RUN", !.ofile = [n \in Fd |-> IF n < 3 THEN 1 ELSE 0],
                          !.todo = <<<<"ensure">>, <<"getcmd">>>>]

Init ==
  /\ file = [f \in 1 .. NFILE |-> IF f = 1 THEN [ref |-> 6, is |-> Console] ELSE NoFile]
  /\ proc = [q \in Slot |-> IF q = 1 THEN Started ELSE Unused]
  /\ sh = 1

Least(S) == CHOOSE x \in S : \A y \in S : x <= y

At(q, call) == proc[q].state = "RUN" /\ Head(proc[q].todo)[1] = call
Done(q) == [proc EXCEPT ![q].todo = Tail(@)]
File(q, n) == file[proc[q].ofile[n]]

FreeFiles == {f \in 1 .. NFILE : file[f].ref = 0}
FreeFds(q) == {n \in Fd : proc[q].ofile[n] = 0}

\* The table after fileclose(f); argfd refuses a descriptor that is not open.
Fileclose(f) ==
  IF f = 0 THEN file
  ELSE [file EXCEPT ![f] = IF @.ref > 1 THEN [@ EXCEPT !.ref = @ - 1] ELSE NoFile]

SysClose(q) ==
  LET c == Head(proc[q].todo)
      n == IF c[1] = "close" THEN c[2] ELSE proc[q].p[c[2]]
  IN
  /\ At(q, "close") \/ At(q, "closep")
  /\ file' = Fileclose(proc[q].ofile[n])
  /\ proc' = [Done(q) EXCEPT ![q].ofile[n] = 0]
  /\ UNCHANGED sh

\* dup(p[i]).
SysDup(q) ==
  LET f == proc[q].ofile[proc[q].p[Head(proc[q].todo)[2]]] IN
  /\ At(q, "dup")
  /\ IF f = 0 \/ FreeFds(q) = {} THEN proc' = Done(q) /\ UNCHANGED file
     ELSE /\ proc' = [Done(q) EXCEPT ![q].ofile[Least(FreeFds(q))] = f]
          /\ file' = [file EXCEPT ![f].ref = @ + 1]
  /\ UNCHANGED sh

-----------------------------------------------------------------------------
(* Processes.                                                              *)

\* exit: every descriptor is closed, and the children go to init.  After a panic of
\* the shell nobody waits for them.
Exit(q, panic) ==
  LET left(f) == Cardinality({n \in Fd : proc[q].ofile[n] = f}) IN
  /\ file' = [f \in DOMAIN file |-> IF file[f].ref > left(f)
                THEN [file[f] EXCEPT !.ref = @ - left(f)] ELSE NoFile]
  /\ proc' = [r \in Slot |->
       IF r = q THEN [Unused EXCEPT !.state = "ZOMBIE", !.parent = proc[q].parent,
                                    !.loose = proc[q].loose]
       ELSE IF proc[r].state # "UNUSED" /\ proc[r].parent = q
       THEN [proc[r] EXCEPT !.parent = 0, !.loose = @ \/ panic]
       ELSE proc[r]]
  /\ UNCHANGED sh

SysExit(q) == At(q, "exit") /\ Exit(q, FALSE)

\* The table with the two ends of a pipe on a new page.
Pipealloc(f, g) ==
  LET page == CHOOSE k \in 1 .. NFILE :
                \A h \in DOMAIN file : file[h].is \notin {<<"r", k>>, <<"w", k>>}
  IN [file EXCEPT ![f] = [ref |-> 1, is |-> <<"r", page>>],
                  ![g] = [ref |-> 1, is |-> <<"w", page>>]]

\* pipe(p): two files and two descriptors, or panic.
SysPipe(q) ==
  LET f == Least(FreeFiles)
      g == Least(FreeFiles \ {f})
      n == Least(FreeFds(q))
      m == Least(FreeFds(q) \ {n})
  IN
  /\ At(q, "pipe")
  /\ IF Cardinality(FreeFiles) < 2 \/ Cardinality(FreeFds(q)) < 2 THEN Exit(q, TRUE)
     ELSE /\ file' = Pipealloc(f, g)
          /\ proc' = [Done(q) EXCEPT ![q].ofile[n] = f, ![q].ofile[m] = g, ![q].p = <<n, m>>]
          /\ UNCHANGED sh

\* A redirection: open may fail, and then the process exits.
SysOpen(q) ==
  LET c == Head(proc[q].todo)
      f == Least(FreeFiles)
  IN
  /\ At(q, "open")
  /\ \/ Exit(q, FALSE)
     \/ /\ FreeFiles # {} /\ FreeFds(q) # {}
        /\ file' = [file EXCEPT ![f] = [ref |-> 1, is |-> <<"file", c[2]>>]]
        /\ proc' = [Done(q) EXCEPT ![q].ofile[Least(FreeFds(q))] = f,
                                   ![q].want[c[3] + 1] = <<"file", c[2]>>]
        /\ UNCHANGED sh

\* fork1.  The child has the descriptors of its parent.
Fork(q) ==
  LET c == Head(proc[q].todo)
      r == Least({s \in Slot : proc[s].state = "UNUSED"})
      pipe(i) == File(q, proc[q].p[i]).is
      child == [proc[q] EXCEPT !.parent = q, !.todo = c[2],
                  !.loose = @ \/ c[3] = "back",
                  !.want = CASE c[3] = "left"  -> <<@[1], pipe(2)>>
                             [] c[3] = "right" -> <<pipe(1), @[2]>>
                             [] OTHER -> @]
  IN
  /\ At(q, "fork")
  /\ IF \A s \in Slot : proc[s].state # "UNUSED" THEN Exit(q, TRUE)
     ELSE /\ proc' = [Done(q) EXCEPT ![r] = child]
          /\ file' = [f \in DOMAIN file |->
               [file[f] EXCEPT !.ref = @ + Cardinality({n \in Fd : proc[q].ofile[n] = f})]]
          /\ UNCHANGED sh

\* wait: for any child that has exited; -1 without children.
Wait(q) ==
  LET children == {r \in Slot : proc[r].state # "UNUSED" /\ proc[r].parent = q}
      dead == {r \in children : proc[r].state = "ZOMBIE"}
  IN
  /\ At(q, "wait")
  /\ children = {} \/ dead # {}
  /\ proc' = IF dead = {} THEN Done(q) ELSE [Done(q) EXCEPT ![Least(dead)] = Unused]
  /\ UNCHANGED <<file, sh>>

\* exec: the program runs, or the shell prints an error and exits.
Exec(q) ==
  LET argv == Head(proc[q].todo)[2] IN
  /\ At(q, "exec")
  /\ proc' = IF argv # <<>> /\ argv[1] \in Program
             THEN [proc EXCEPT ![q].todo = <<<<"prog", argv[1]>>>>] ELSE Done(q)
  /\ UNCHANGED <<file, sh>>

\* The program ends.  A filter has then seen the end of its input: of a pipe, that
\* nobody can write to it.
Prog(q) ==
  /\ At(q, "prog")
  /\ Head(proc[q].todo)[2] \in Filter /\ proc[q].ofile[0] # 0 =>
       LET is == File(q, 0).is IN
       is[1] = "r" => \A f \in DOMAIN file : file[f].is # <<"w", is[2]>>
  /\ Exit(q, FALSE)

-----------------------------------------------------------------------------
(* main of the shell.                                                      *)

\* open("/dev/console") until the descriptor is 3, which is closed again.
Ensure(q) ==
  LET n == Least(FreeFds(q))
      f == Least(FreeFiles)
  IN
  /\ At(q, "ensure")
  /\ IF FreeFiles = {} THEN proc' = Done(q) /\ UNCHANGED file
     ELSE /\ file' = [file EXCEPT ![f] = [ref |-> 1, is |-> Console]]
          /\ proc' = [proc EXCEPT ![q].ofile[n] = f,
                        ![q].todo = IF n < 3 THEN @ ELSE <<<<"close", n>>>> \o Tail(@)]
  /\ UNCHANGED sh

\* A line is read: cd is for the shell itself, a child parses and runs the others.
Getcmd(q, line) ==
  LET cmd == Parsecmd(line) IN
  /\ At(q, "getcmd")
  /\ Cardinality({r \in Slot : proc[r].loose}) + (IF "&" \in ToSet(line) THEN 1 ELSE 0) <= Jobs
  /\ proc' = [proc EXCEPT ![q].todo =
       IF Peek(line, {"cd"}) /\ Len(line) > 1 THEN @
       ELSE <<<<"fork", IF cmd = <<>> THEN <<<<"exit">>>> ELSE Runcmd(cmd[1]), "line">>,
              <<"wait">>>> \o @]
  /\ UNCHANGED <<file, sh>>

\* End of file at the prompt.
Logout(q) == At(q, "getcmd") /\ Exit(q, FALSE)

\* init reaps its children, and starts a new getty when it has reaped the shell.
InitWait(q) ==
  /\ proc[q].state = "ZOMBIE" /\ proc[q].parent = 0
  /\ proc' = [proc EXCEPT ![q] = Unused]
  /\ sh' = IF q = sh THEN 0 ELSE sh
  /\ UNCHANGED file

\* init forks a getty, whose user becomes the shell.  A fork that fails ends init, and
\* the kernel panics (Proc); here init has a slot as soon as there is one.
Login(q) ==
  /\ sh = 0
  /\ proc[q].state = "UNUSED" /\ \A r \in Slot : r < q => proc[r].state # "UNUSED"
  /\ proc' = [proc EXCEPT ![q] = Started]
  /\ file' = [file EXCEPT ![1].ref = @ + 3]
  /\ sh' = q

Step(q) ==
  \/ SysClose(q) \/ SysDup(q) \/ SysPipe(q) \/ SysOpen(q) \/ Ensure(q)
  \/ Fork(q) \/ Wait(q) \/ Exec(q) \/ Prog(q) \/ SysExit(q)

Next ==
  \E q \in Slot :
    \/ Step(q) \/ InitWait(q) \/ Login(q)
    \/ Logout(q) \/ \E line \in Line : Getcmd(q, line)

Spec == Init /\ [][Next]_vars

\* Every process is scheduled, and so is init; programs end.
Fairness == /\ \A q \in Slot : WF_vars(Step(q))
            /\ WF_vars(\E q \in Slot : InitWait(q))

FairSpec == Spec /\ Fairness

-----------------------------------------------------------------------------
(* Properties.                                                             *)

Running(q) == proc[q].state = "RUN"

\* A program that runs has the input and the output that its command line gives it:
\* those of the innermost pipe or redirection around it (runcmd).
Connected ==
  \A q \in Slot : Running(q) /\ Head(proc[q].todo)[1] = "prog" =>
    \A n \in {0, 1} : proc[q].ofile[n] # 0 /\ File(q, n).is = proc[q].want[n + 1]

\* Every line ends: the shell that waits comes back to its prompt.
CommandEnds == LET waits == sh # 0 /\ At(sh, "wait") IN waits ~> ~waits

-----------------------------------------------------------------------------
(* Commands as they are typed, to compare the parser with the grammar.     *)

\* c, in parentheses unless it is of one of the types.
Inside(c, spelt, types) == IF c.type \in types THEN spelt ELSE <<"(">> \o spelt \o <<")">>

RECURSIVE Spelt(_)
Spelt(c) ==
  CASE c.type = "EXEC"  -> c.argv
    [] c.type = "REDIR" -> Inside(c.cmd, Spelt(c.cmd), {"EXEC", "REDIR"})
                           \o <<IF c.fd = 0 THEN "<" ELSE ">", c.file>>
    [] c.type = "PIPE"  -> Inside(c.left, Spelt(c.left), {"EXEC", "REDIR"}) \o <<"|">>
                           \o Inside(c.right, Spelt(c.right), {"EXEC", "REDIR", "PIPE"})
    [] c.type = "BACK"  -> Inside(c.cmd, Spelt(c.cmd), {"EXEC", "REDIR", "PIPE", "BACK"}) \o <<"&">>
    [] c.type = "LIST"  -> Inside(c.left, Spelt(c.left), {"EXEC", "REDIR", "PIPE", "BACK"}) \o <<";">>
                           \o Spelt(c.right)

RECURSIVE Commands(_)
Commands(depth) ==
  LET C == Commands(depth - 1) IN
  {Execcmd(<<>>), Execcmd(<<"a">>)} \cup
  IF depth = 0 THEN {}
  ELSE {Redircmd(c, "x", fd) : c \in C, fd \in {0, 1}} \cup {Backcmd(c) : c \in C}
       \cup {Pipecmd(c, d) : c \in C, d \in C} \cup {Listcmd(c, d) : c \in C, d \in C}

\* Whatever command is typed at the prompt, parsecmd finds it in its spelling: the
\* operators bind as in the grammar (redirections, then |, &, ;), | and ; group to the
\* right, and parentheses override.
ParsesBack ==
  sh # 0 /\ At(sh, "getcmd") => \A c \in Commands(2) : Parsecmd(Spelt(c)) = <<c>>
=============================================================================
