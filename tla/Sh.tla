--------------------------------- MODULE Sh ---------------------------------
(***************************************************************************)
(* xv6's shell (sh.c): the parser, and runcmd, whose processes fork, wait  *)
(* and pass descriptors on.                                                *)
(*                                                                         *)
(* A line is a sequence of tokens; > stands for >> too, which does the     *)
(* same.  A process and a pipe are named by the place in the parsed        *)
(* command that they were made for.  What a process does to its own        *)
(* descriptors between two system calls that others see is one step.       *)
(***************************************************************************)
EXTENDS Integers, Sequences, FiniteSets

CONSTANTS Word,
          MAXARGS,   \* a command has fewer words
          MaxTokens  \* bound: tokens of a line

Token == Word \cup {"|", "&", ";", "(", ")", "<", ">"}

-----------------------------------------------------------------------------
(* The parser.  parseX(s) returns the command and the tokens after it.     *)

Panic == [cmd |-> [type |-> "PANIC"], rest |-> <<>>]
Got(c, s) == [cmd |-> c, rest |-> s]
Bad(r) == r.cmd.type = "PANIC"

peek(s, toks) == IF s = <<>> THEN FALSE ELSE s[1] \in toks

execcmd(argv)        == [type |-> "EXEC", argv |-> argv]
redircmd(c, fd, f)   == [type |-> "REDIR", c |-> c, fd |-> fd, file |-> f]
pipecmd(l, r)        == [type |-> "PIPE", l |-> l, r |-> r]
listcmd(l, r)        == [type |-> "LIST", l |-> l, r |-> r]
backcmd(c)           == [type |-> "BACK", c |-> c]

RECURSIVE parseline(_), backs(_, _), parsepipe(_), parseblock(_), parseredirs(_, _),
          parseargs(_, _, _)

\* The redirections after cmd; a later one is around an earlier one.
parseredirs(cmd, s) ==
  IF ~peek(s, {"<", ">"}) THEN Got(cmd, s)
  ELSE IF Len(s) = 1 THEN Panic
  ELSE IF s[2] \notin Word THEN Panic
  ELSE parseredirs(redircmd(cmd, IF s[1] = "<" THEN 0 ELSE 1, s[2]), SubSeq(s, 3, Len(s)))

\* The command with its words, which come between its redirections.
RECURSIVE Fill(_, _)
Fill(c, argv) == IF c.type = "EXEC" THEN execcmd(argv) ELSE [c EXCEPT !.c = Fill(@, argv)]

parseargs(cmd, argv, s) ==
  IF s = <<>> \/ peek(s, {"|", ")", "&", ";"}) THEN Got(Fill(cmd, argv), s)
  ELSE IF s[1] \notin Word \/ Len(argv) + 1 >= MAXARGS THEN Panic
  ELSE LET r == parseredirs(cmd, Tail(s)) IN
       IF Bad(r) THEN Panic ELSE parseargs(r.cmd, Append(argv, s[1]), r.rest)

parseblock(s) ==
  LET r == parseline(Tail(s)) IN
  IF Bad(r) THEN Panic
  ELSE IF ~peek(r.rest, {")"}) THEN Panic
  ELSE parseredirs(r.cmd, Tail(r.rest))

parseexec(s) ==
  IF peek(s, {"("}) THEN parseblock(s)
  ELSE LET r == parseredirs(execcmd(<<>>), s) IN
       IF Bad(r) THEN Panic ELSE parseargs(r.cmd, <<>>, r.rest)

parsepipe(s) ==
  LET r == parseexec(s) IN
  IF Bad(r) \/ ~peek(r.rest, {"|"}) THEN r
  ELSE LET q == parsepipe(Tail(r.rest)) IN
       IF Bad(q) THEN q ELSE Got(pipecmd(r.cmd, q.cmd), q.rest)

backs(cmd, s) == IF peek(s, {"&"}) THEN backs(backcmd(cmd), Tail(s)) ELSE Got(cmd, s)

parseline(s) ==
  LET p == parsepipe(s)  r == IF Bad(p) THEN p ELSE backs(p.cmd, p.rest) IN
  IF Bad(r) \/ ~peek(r.rest, {";"}) THEN r
  ELSE LET q == parseline(Tail(r.rest)) IN
       IF Bad(q) THEN q ELSE Got(listcmd(r.cmd, q.cmd), q.rest)

parsecmd(s) ==
  LET r == parseline(s) IN IF r.rest # <<>> THEN Panic.cmd ELSE r.cmd

-----------------------------------------------------------------------------
(* runcmd.                                                                 *)

VARIABLES
  cmd,    \* the parsed line, or Panic's
  proc    \* proc[p]: pc, the place of its command, its descriptors

vars == <<cmd, proc>>

\* The command at a place, which is the fields that lead there.
RECURSIVE At(_, _)
At(c, place) == IF place = <<>> THEN c ELSE At(c[place[1]], Tail(place))
Cmd(p) == At(cmd, proc[p].at)

Tty == <<"tty">>
Stdio == [d \in 0 .. 2 |-> Tty]
Lowest(fd) == CHOOSE d \in 0 .. 5 : d \notin DOMAIN fd /\ \A x \in 0 .. d - 1 : x \in DOMAIN fd
Opened(fd, x) == [d \in DOMAIN fd \cup {Lowest(fd)} |-> IF d \in DOMAIN fd THEN fd[d] ELSE x]
Closed(fd, D) == [d \in DOMAIN fd \ D |-> fd[d]]
Fds(fd, x) == {d \in DOMAIN fd : fd[d] = x}

\* The line, and main's child that runs it.
Lines == UNION {[1 .. n -> Token] : n \in 0 .. MaxTokens}
Init ==
  /\ cmd \in {parsecmd(line) : line \in Lines}
  /\ proc = IF cmd.type = "PANIC" THEN <<>>
            ELSE [p \in {<<>>} |-> [pc |-> "run", at |-> <<>>, fd |-> Stdio, parent |-> <<>>]]

Runs(p, type) == proc[p].pc = "run" /\ Cmd(p).type = type
Place(p, x) == Append(proc[p].at, x)
Ended(p) == proc[p].pc \in {"exited", "failed"}
Exit(f, p) == [f EXCEPT ![p].pc = "exited", ![p].fd = <<>>]
Child(p, x, fd) == [pc |-> "run", at |-> Place(p, x), fd |-> fd, parent |-> p]
WithChild(f, p, x, fd) ==
  [q \in DOMAIN f \cup {Place(p, x)} |-> IF q = Place(p, x) THEN Child(p, x, fd) ELSE f[q]]

\* A system call that fails ends the process, which leaves a child behind if
\* it is the second fork of a pipe.
Fail(p) ==
  /\ proc[p].pc \in {"run", "fork2"}
  /\ proc' = [Exit(proc, p) EXCEPT ![p].pc = "failed"]

Exec(p) ==
  /\ Runs(p, "EXEC")
  /\ proc' = IF Cmd(p).argv = <<>> THEN Exit(proc, p) ELSE [proc EXCEPT ![p].pc = "program"]

\* The program ends.
Program(p) == proc[p].pc = "program" /\ proc' = Exit(proc, p)

Redir(p) ==
  /\ Runs(p, "REDIR")
  /\ proc' = [proc EXCEPT ![p].at = Place(p, "c"),
                ![p].fd = Opened(Closed(@, {Cmd(p).fd}), <<"file", Cmd(p).file>>)]

List(p) ==
  /\ Runs(p, "LIST")
  /\ proc' = [WithChild(proc, p, "l", proc[p].fd) EXCEPT ![p].pc = "wait"]

\* A variant: the left side keeps the end that it does not read.
LeftFd_KeepRead(fd, p) ==
  Closed(Opened(Closed(fd, {1}), <<"w", p>>), Fds(fd, <<"w", p>>))

\* The descriptors of both sides of a pipe, of those of the parent.
LeftFd(fd, p) ==
  Closed(Opened(Closed(fd, {1}), <<"w", p>>), Fds(fd, <<"r", p>>) \cup Fds(fd, <<"w", p>>))
RightFd(fd, p) ==
  Closed(Opened(Closed(fd, {0}), <<"r", p>>), Fds(fd, <<"r", p>>) \cup Fds(fd, <<"w", p>>))

\* pipe and the first fork, the second one and the parent's closes.
Pipe(p) ==
  /\ Runs(p, "PIPE")
  /\ LET at == proc[p].at  fd == Opened(Opened(proc[p].fd, <<"r", at>>), <<"w", at>>) IN
     proc' = [WithChild(proc, p, "l", LeftFd(fd, at)) EXCEPT ![p].pc = "fork2", ![p].fd = fd]
Pipe2(p) ==
  /\ proc[p].pc = "fork2"
  /\ LET at == proc[p].at  fd == proc[p].fd IN
     proc' = [WithChild(proc, p, "r", RightFd(fd, at))
               EXCEPT ![p].pc = "wait", ![p].fd = Closed(fd, Fds(fd, <<"r", at>>) \cup Fds(fd, <<"w", at>>))]

Back(p) ==
  /\ Runs(p, "BACK")
  /\ proc' = Exit(WithChild(proc, p, "c", proc[p].fd), p)

\* The waits: of a list for the left side, then it runs the right one; of a
\* pipe for both.
Wait(p) ==
  /\ proc[p].pc = "wait"
  /\ \A q \in DOMAIN proc : q # p /\ proc[q].parent = p /\ q # <<>> => Ended(q)
  /\ proc' = IF Cmd(p).type = "LIST"
             THEN [proc EXCEPT ![p].pc = "run", ![p].at = Place(p, "r")]
             ELSE Exit(proc, p)

Next ==
  /\ \E p \in DOMAIN proc :
       Fail(p) \/ Exec(p) \/ Program(p) \/ Redir(p) \/ List(p) \/ Pipe(p) \/ Pipe2(p)
               \/ Back(p) \/ Wait(p)
  /\ UNCHANGED cmd

Spec == Init /\ [][Next]_vars

-----------------------------------------------------------------------------
(* Properties.                                                             *)

\* A command printed with parentheses where the grammar needs them.
RECURSIVE Line(_), Bg(_), Pipeline(_), Simple(_)
Line(c) == IF c.type = "LIST" THEN Bg(c.l) \o <<";">> \o Line(c.r) ELSE Bg(c)
Bg(c) == IF c.type = "BACK" THEN Bg(c.c) \o <<"&">> ELSE Pipeline(c)
Pipeline(c) == IF c.type = "PIPE" THEN Simple(c.l) \o <<"|">> \o Pipeline(c.r) ELSE Simple(c)
Simple(c) ==
  CASE c.type = "EXEC" -> c.argv
    [] c.type = "REDIR" -> Simple(c.c) \o <<IF c.fd = 0 THEN "<" ELSE ">", c.file>>
    [] OTHER -> <<"(">> \o Line(c) \o <<")">>

\* The descriptors 0 and 1 that the command at a place should have.
RECURSIVE Std(_, _, _)
Std(c, place, k) ==
  IF k = 0 THEN Stdio
  ELSE LET above == SubSeq(place, 1, k - 1)  fd == Std(c, place, k - 1)  x == At(c, above) IN
       CASE x.type = "REDIR" -> [fd EXCEPT ![x.fd] = <<"file", x.file>>]
         [] x.type = "PIPE"  -> IF place[k] = "l" THEN [fd EXCEPT ![1] = <<"w", above>>]
                                                   ELSE [fd EXCEPT ![0] = <<"r", above>>]
         [] OTHER -> fd

Under(q, place) == Len(q) >= Len(place) /\ SubSeq(q, 1, Len(place)) = place
InBack(c, q, n) == \E k \in n .. Len(q) - 1 : At(c, SubSeq(q, 1, k)).type = "BACK"

\* A line is parsed as the grammar says; every program runs with the three
\* descriptors that its place in the line gives it and no others, so that no
\* pipe is held open by a stranger; and the right side of a list begins when
\* all of the left side has ended, but what is in the background or was left
\* behind.
RunsAsParsed ==
  cmd.type # "PANIC" =>
    /\ DOMAIN proc = {<<>>} => parsecmd(Line(cmd)) = cmd
    /\ \A p \in DOMAIN proc :
         /\ proc[p].pc \in {"program", "wait", "run"} => proc[p].fd = Std(cmd, proc[p].at, Len(proc[p].at))
         /\ \A k \in 1 .. Len(proc[p].at) :
              LET above == SubSeq(proc[p].at, 1, k - 1) IN
              At(cmd, above).type = "LIST" /\ proc[p].at[k] = "r" =>
                \A q \in DOMAIN proc :
                  Under(proc[q].at, Append(above, "l")) /\ ~InBack(cmd, proc[q].at, k) =>
                    Ended(q) \/ \E x \in DOMAIN proc :
                                  proc[x].pc = "failed" /\ Under(proc[q].at, proc[x].at)
=============================================================================
