-------------------------------- MODULE Shell --------------------------------
(***************************************************************************)
(* The shell, user/sh.c, on top of the descriptors, pipes and processes of *)
(* module Files: main, the parser and runcmd; and two programs it runs,    *)
(* cat and echo.                                                           *)
(*                                                                         *)
(* A line is a sequence of the tokens gettoken returns: the symbols (">>"  *)
(* is "+") and words.  A command is a record with the fields of the        *)
(* structs of sh.c.                                                        *)
(***************************************************************************)
EXTENDS Files

CONSTANTS
  Lines,      \* lines that are typed: each is parsed and run
  TestLines,  \* lines that are parsed only
  MAXARGS     \* size of argv

VARIABLES line, shell

shellVars == <<line, shell>>

-----------------------------------------------------------------------------
(* The parser.  An operator takes the tokens that are left and returns the *)
(* command with the tokens after it.                                       *)

Symbols == {"<", "|", ">", "+", "&", ";", "(", ")"}

\* panic("syntax") and the like: the shell's child exits.
Syntax == [type |-> "SYNTAX"]

Parsed(c, s) == [cmd |-> c, s |-> s]

Failed(r) == r.cmd = Syntax

\* peek: the next token is one of toks.
Peek(s, toks) == s # <<>> /\ Head(s) \in toks

Exec(argv) == [type |-> "EXEC", argv |-> argv]

Redir(c, tok, name) ==
  [type |-> "REDIR", cmd |-> c, file |-> name, fd |-> IF tok = "<" THEN 0 ELSE 1,
   mode |-> CASE tok = "<" -> "read" [] tok = ">" -> "trunc" [] tok = "+" -> "write"]

PipeCmd(l, r) == [type |-> "PIPE", left |-> l, right |-> r]

ListCmd(l, r) == [type |-> "LIST", left |-> l, right |-> r]

BackCmd(c) == [type |-> "BACK", cmd |-> c]

RECURSIVE ParseLine(_), ParsePipe(_), ParseRedirs(_, _), ParseArgs(_, _, _)

\* parseredirs: the redirections that follow, each around the one before.
ParseRedirs(c, s) ==
  IF ~Peek(s, {"<", ">", "+"}) THEN Parsed(c, s)
  ELSE IF Len(s) < 2 \/ (Len(s) >= 2 /\ s[2] \in Symbols) THEN Parsed(Syntax, s)
  ELSE ParseRedirs(Redir(c, s[1], s[2]), SubSeq(s, 3, Len(s)))

\* The EXEC at the heart of a command gets one more argument.
RECURSIVE WithArg(_, _)
WithArg(c, w) ==
  IF c.type = "EXEC" THEN [c EXCEPT !.argv = Append(@, w)] ELSE [c EXCEPT !.cmd = WithArg(@, w)]

\* The loop of parseexec: words, with redirections among them.
ParseArgs(c, argc, s) ==
  IF s = <<>> \/ Peek(s, {"|", ")", "&", ";"}) THEN Parsed(c, s)
  ELSE IF Head(s) \in Symbols \/ argc + 1 >= MAXARGS THEN Parsed(Syntax, s)
  ELSE LET r == ParseRedirs(WithArg(c, Head(s)), Tail(s))
       IN  IF Failed(r) THEN r ELSE ParseArgs(r.cmd, argc + 1, r.s)

\* Mutant: the redirections after ) are forgotten.
ParseBlockBare(s) ==
  LET r == ParseLine(Tail(s))
  IN  IF Failed(r) THEN r
      ELSE IF ~Peek(r.s, {")"}) THEN Parsed(Syntax, s) ELSE Parsed(r.cmd, Tail(r.s))

\* parseblock: ( line ) and redirections.
ParseBlock(s) ==
  LET r == ParseLine(Tail(s))
  IN  IF Failed(r) THEN r
      ELSE IF ~Peek(r.s, {")"}) THEN Parsed(Syntax, s) ELSE ParseRedirs(r.cmd, Tail(r.s))

ParseExec(s) ==
  IF Peek(s, {"("}) THEN ParseBlock(s)
  ELSE LET r == ParseRedirs(Exec(<<>>), s)
       IN  IF Failed(r) THEN r ELSE ParseArgs(r.cmd, 0, r.s)

ParsePipe(s) ==
  LET left == ParseExec(s)
  IN  IF Failed(left) \/ ~Peek(left.s, {"|"}) THEN left
      ELSE LET right == ParsePipe(Tail(left.s))
           IN  IF Failed(right) THEN right
               ELSE Parsed(PipeCmd(left.cmd, right.cmd), right.s)

RECURSIVE ParseBacks(_)
ParseBacks(r) == IF Failed(r) \/ ~Peek(r.s, {"&"}) THEN r
                 ELSE ParseBacks(Parsed(BackCmd(r.cmd), Tail(r.s)))

ParseLine(s) ==
  LET left == ParseBacks(ParsePipe(s))
  IN  IF Failed(left) \/ ~Peek(left.s, {";"}) THEN left
      ELSE LET right == ParseLine(Tail(left.s))
           IN  IF Failed(right) THEN right
               ELSE Parsed(ListCmd(left.cmd, right.cmd), right.s)

\* parsecmd: nothing may be left over.  (nulterminate ends each word where the
\* token ended, which tokens do already.)
ParseCmd(s) == LET r == ParseLine(s) IN IF r.s = <<>> THEN r.cmd ELSE Syntax

\* The lines that are run, parsed.
Tree == [l \in Lines |-> ParseCmd(l)]

-----------------------------------------------------------------------------
(* runcmd: the calls a process makes to run a command.                     *)

Run(c) == << <<"run", c>> >>

LeftEnd == << <<"close", 1>>, <<"dup", P1>>, <<"close", P0>>, <<"close", P1>> >>

\* Mutant: the right side keeps the write end of its own input.
RightEndKeepsP1 == << <<"close", 0>>, <<"dup", P0>>, <<"close", P0>> >>

RightEnd == << <<"close", 0>>, <<"dup", P0>>, <<"close", P0>>, <<"close", P1>> >>

\* echo: each argument, then a blank or the end of the line.
EchoOps(argv) ==
  FlattenSeq([k \in 1..Len(argv) - 1 |->
     << <<"write", <<argv[k + 1]>>, "go on">>,
        <<"write", <<IF k + 1 < Len(argv) THEN " " ELSE "\n">>, "go on">> >>]) \o ExitOps

\* exec: cat copies descriptor 0 to 1; of another program there is no file, exec
\* fails, and the child exits too.
ExecOps(argv) ==
  CASE argv = <<>> -> ExitOps
    [] argv # <<>> /\ argv[1] = "cat" -> << <<"read">>, <<"exit">> >>
    [] argv # <<>> /\ argv[1] = "echo" -> EchoOps(argv)
    [] OTHER -> ExitOps

\* Mutant: the right side does not wait for the left.
ListOpsNoWait(c) == << <<"fork", Run(c.left)>> >> \o Run(c.right)

ListOps(c) == << <<"fork", Run(c.left)>>, <<"wait">> >> \o Run(c.right)

PipeOps(c) ==
  << <<"pipe">>, <<"fork", LeftEnd \o Run(c.left)>>, <<"fork", RightEnd \o Run(c.right)>>,
     <<"close", P0>>, <<"close", P1>>, <<"wait">>, <<"wait">>, <<"exit">> >>

RunOps(c) ==
  CASE c.type = "SYNTAX" -> ExitOps
    [] c.type = "EXEC" -> ExecOps(c.argv)
    [] c.type = "REDIR" -> << <<"close", c.fd>>, <<"open", c.file, c.mode>> >> \o Run(c.cmd)
    [] c.type = "LIST" -> ListOps(c)
    [] c.type = "PIPE" -> PipeOps(c)
    [] c.type = "BACK" -> << <<"fork", Run(c.cmd)>>, <<"exit">> >>

\* runcmd looks at the type of its command; exec replaces the program.
RunCmd(p) ==
  /\ Calls(p, "run")
  /\ proc' = Continue(proc, p, RunOps(Op(p)[2]))
  /\ UNCHANGED <<file, ofile, pipe, disk, out, faults, shellVars>>

\* main: a child runs the line and the shell waits for it.  chdir is done by the
\* shell itself.
MainOps == IF Head(line) = "cd" THEN <<>> ELSE << <<"fork", Run(Tree[line])>>, <<"wait">> >>

GetCmd(p) ==
  /\ Calls(p, "getcmd")
  /\ shell = "prompt"
  /\ shell' = "running"
  /\ proc' = Continue(proc, p, MainOps \o << <<"getcmd">> >>)
  /\ UNCHANGED <<line, file, ofile, pipe, disk, out, faults>>

\* The next getcmd finds the end of the input, and the shell exits.
GetEof(p) ==
  /\ Calls(p, "getcmd")
  /\ shell = "running"
  /\ shell' = "eof"
  /\ proc' = Continue(proc, p, ExitOps)
  /\ UNCHANGED <<line, file, ofile, pipe, disk, out, faults>>

Init ==
  \/ line \in Lines /\ shell = "prompt" /\ InitWith([FreeProc EXCEPT !.state = "run", !.ops = << <<"getcmd">> >>])
  \/ line \in TestLines /\ shell = "parse" /\ InitWith(FreeProc)

Step(p) == RunCmd(p) \/ GetCmd(p) \/ GetEof(p) \/ (Kernel(p) /\ UNCHANGED shellVars)

Next ==
  \/ \E p \in Proc : Step(p)
  \/ \E p \in Proc : Kill(p) /\ UNCHANGED shellVars

\* The scheduler runs some process while one can run.  (No process runs for
\* ever, so this is all the fairness that is needed.)
Spec == Init /\ [][Next]_<<vars, shellVars>> /\ WF_<<vars, shellVars>>(\E p \in Proc : Step(p))

-----------------------------------------------------------------------------
(* What a line means.                                                      *)

\* Position k is not inside parentheses.
Depth(s, k) == Cardinality({j \in 1..k - 1 : s[j] = "("}) - Cardinality({j \in 1..k - 1 : s[j] = ")"})

OnTop(s, tok) == {k \in DOMAIN s : s[k] = tok /\ Depth(s, k) = 0}

Before(s, k) == SubSeq(s, 1, k - 1)
After(s, k) == SubSeq(s, k + 1, Len(s))

Both(type, l, r) == IF Syntax \in {l, r} THEN Syntax ELSE [type |-> type, left |-> l, right |-> r]

RECURSIVE RefLine(_), RefBack(_), RefPipe(_), RefRedirs(_, _)

\* The grammar, by splitting: the first ; outside parentheses binds loosest,
\* then trailing &, then the first |, then redirections and words.
RefLine(s) ==
  IF OnTop(s, ";") = {} THEN RefBack(s)
  ELSE LET k == Min(OnTop(s, ";")) IN Both("LIST", RefBack(Before(s, k)), RefLine(After(s, k)))

RefBack(s) ==
  IF s = <<>> \/ Last(s) # "&" THEN RefPipe(s)
  ELSE LET c == RefBack(Front(s)) IN IF c = Syntax THEN Syntax ELSE [type |-> "BACK", cmd |-> c]

\* Redirections tok word tok word ... around a command.
RefRedirs(c, s) ==
  IF s = <<>> \/ c = Syntax THEN c
  ELSE IF Len(s) = 1 \/ s[1] \notin {"<", ">", "+"} \/ s[2] \in Symbols THEN Syntax
  ELSE RefRedirs(Redir(c, s[1], s[2]), SubSeq(s, 3, Len(s)))

\* A command without operators: the words that follow no < or > are arguments.
RefSimple(s) ==
  LET redirs == {k \in DOMAIN s : s[k] \in {"<", ">", "+"}}
      places == redirs \cup {k + 1 : k \in redirs}
      Pick(ks) == [j \in 1..Cardinality(ks) |-> s[SetToSortSeq(ks, <)[j]]]
      args == Pick(DOMAIN s \ places)
  IN  IF ToSet(args) \cap Symbols # {} \/ Len(args) >= MAXARGS \/ ~(places \subseteq DOMAIN s)
        THEN Syntax
        ELSE RefRedirs(Exec(args), Pick(places))

RefPipe(s) ==
  IF OnTop(s, "|") # {}
    THEN LET k == Min(OnTop(s, "|")) IN Both("PIPE", RefPipe(Before(s, k)), RefPipe(After(s, k)))
  ELSE IF s # <<>> /\ s[1] = "("
    THEN LET close == {k \in DOMAIN s : s[k] = ")" /\ Depth(s, k) = 1}
         IN  IF close = {} THEN Syntax
             ELSE RefRedirs(RefLine(SubSeq(s, 2, Min(close) - 1)), After(s, Min(close)))
  ELSE RefSimple(s)

\* The recursive descent of parsecmd finds, for every line, the tree the
\* grammar gives it, and refuses exactly the lines that have none.
ParseRight == shell \in {"prompt", "parse"} => ParseCmd(line) = RefLine(line)

\* What a command writes to descriptor 1, what it leaves of descriptor 0, and
\* the files after it, from what it can read and the files before it.
RECURSIVE Meaning(_, _, _)
Meaning(c, in, files) ==
  CASE c.type = "EXEC" ->
         IF c.argv # <<>> /\ c.argv[1] = "cat" THEN [out |-> in, left |-> <<>>, files |-> files]
         ELSE IF c.argv # <<>> /\ c.argv[1] = "echo"
         THEN [out |-> [k \in 1..2 * (Len(c.argv) - 1) |->
                          IF k % 2 = 1 THEN c.argv[(k + 3) \div 2]
                          ELSE IF k = 2 * (Len(c.argv) - 1) THEN "\n" ELSE " "],
               left |-> in, files |-> files]
         ELSE [out |-> <<>>, left |-> in, files |-> files]
    [] c.type = "REDIR" ->
         IF c.mode = "read"
           THEN IF files[c.file] = Absent THEN [out |-> <<>>, left |-> in, files |-> files]
                ELSE [Meaning(c.cmd, files[c.file], files) EXCEPT !.left = in]
           ELSE LET old == IF c.mode = "trunc" \/ files[c.file] = Absent THEN <<>> ELSE files[c.file]
                    m == Meaning(c.cmd, in, [files EXCEPT ![c.file] = old])
                IN  [m EXCEPT !.out = <<>>, !.files[c.file] = Overwritten(@, 0, m.out)]
    [] c.type = "LIST" ->
         LET l == Meaning(c.left, in, files)
             r == Meaning(c.right, l.left, l.files)
         IN  [r EXCEPT !.out = l.out \o @]
    [] c.type = "PIPE" ->
         LET l == Meaning(c.left, in, files)
         IN  [Meaning(c.right, l.out, l.files) EXCEPT !.left = l.left]
    [] OTHER -> [out |-> <<>>, left |-> in, files |-> files]

Shown == [l \in Lines |-> Meaning(Tree[l], <<>>, [x \in Names |-> Absent])]

InBackground == "&" \in ToSet(line)

\* However the processes of a line interleave, when the shell reads the next
\* line the console and the files show what the line means.
OutputRight ==
  (shell = "eof" /\ faults = 0 /\ Head(line) # "cd" /\ ~InBackground) =>
    out = Shown[line].out /\ disk = Shown[line].files

\* A struct file counts the descriptors that refer to it, and init's three on
\* the console; an end of a pipe is open while a struct file or a pipeclose
\* still to come stands for it; a pipe without an open end is free.
FilesExact ==
  LET Descriptors(f) == Cardinality({pd \in Proc \X Fd : ofile[pd[1]][pd[2]] = f})
      Open(i, w) == \/ \E f \in FileId : file[f].ref > 0 /\ file[f].type = "pipe" /\ file[f].of = i
                                                       /\ file[f].writable = w
                    \/ \E p \in Proc : <<i, w>> \in ToSet(proc[p].todo)
  IN  /\ \A f \in FileId : file[f].ref = Descriptors(f) + (IF f = Console THEN 3 ELSE 0)
      /\ \A i \in PipeId : /\ pipe[i].readopen = Open(i, FALSE)
                           /\ pipe[i].writeopen = Open(i, TRUE)
                           /\ pipe[i].alloc = (pipe[i].readopen \/ pipe[i].writeopen)

\* No one sleeps who has something to do: a reader sleeps on an empty pipe that
\* has a writer, a writer on a full one that has a reader, a parent while it has
\* children and none is a zombie.
SleepersBlocked ==
  \A p \in Proc : proc[p].state = "sleep" =>
    LET i == proc[p].chan[1]
        kids == {q \in Proc : proc[q].parent = p}
    IN  CASE proc[p].chan[2] = "nread" -> pipe[i].writeopen /\ Buffered(i) = 0
          [] proc[p].chan[2] = "nwrite" -> pipe[i].readopen /\ Buffered(i) = PIPESIZE
          [] proc[p].chan[2] = "wait" -> kids # {} /\ \A q \in kids : proc[q].state # "zombie"

\* Every line ends: every process of it, and the shell at the end of its input,
\* exits, also when a call fails or a process is killed on the way.
CommandEnds == <>(\A p \in Proc : proc[p].state = "unused")
=============================================================================
