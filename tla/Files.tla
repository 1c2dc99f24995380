-------------------------------- MODULE Files --------------------------------
(***************************************************************************)
(* Descriptors, struct files and pipes: kernel/file.c, kernel/pipe.c, the  *)
(* calls of kernel/sysfile.c that work on descriptors, and what fork, exit *)
(* and wait of kernel/proc.c do with them.                                 *)
(*                                                                         *)
(* A process is the list of calls it still has to make (ops); module Shell *)
(* says what the shell and its commands put there.  A call is one step, up *)
(* to the place where it sleeps; but a close that drops the last reference *)
(* to one end of a pipe leaves ftable.lock before pipeclose takes the lock *)
(* of the pipe, so what is left of it stands in todo.                      *)
(***************************************************************************)
EXTENDS Integers, Sequences, FiniteSets, SequencesExt, FiniteSetsExt

CONSTANTS
  NPROC,      \* process slots
  NOFILE,     \* descriptors of a process
  NFILE,      \* struct files
  NPipes,     \* pages kalloc has for pipes
  PIPESIZE,   \* bytes in a pipe
  Width,      \* bits of nread and nwrite; PIPESIZE divides 2^Width
  BufSize,    \* bytes a read asks for
  Names,      \* names of files
  MaxFaults   \* bound: calls that fail for lack of memory, kills (one at least)

Proc == 1..NPROC
Fd == 0..NOFILE - 1
FileId == 1..NFILE
PipeId == 1..NPipes
None == 0
Wrap(n) == n % 2^Width
Console == 1      \* the struct file of the console; init has it open for ever

VARIABLES
  file,       \* ftable
  ofile,      \* descriptors of each process
  pipe,       \* pipes
  proc,       \* processes
  disk,       \* contents of the files, by name
  out,        \* what the console shows
  faults      \* number of faults so far

vars == <<file, ofile, pipe, proc, disk, out, faults>>

FreeFile == [ref |-> 0, type |-> "none", writable |-> FALSE, of |-> None, off |-> 0]

FreePipe == [alloc |-> FALSE, readopen |-> FALSE, writeopen |-> FALSE, nread |-> 0, nwrite |-> 0,
             data |-> [k \in 0..PIPESIZE - 1 |-> ""]]

FreeProc == [state |-> "unused", chan |-> <<>>, parent |-> None, killed |-> FALSE, mid |-> FALSE,
             ops |-> <<>>, todo |-> <<>>, p |-> <<>>, n |-> 0]

\* Absent files have no contents.
Absent == <<"absent">>

\* The first process has the console as its descriptors 0, 1 and 2, as init has.
InitWith(first) ==
  /\ file = [f \in FileId |-> IF f = Console THEN [FreeFile EXCEPT !.ref = 6, !.type = "device", !.writable = TRUE]
                                             ELSE FreeFile]
  /\ ofile = [p \in Proc |-> [d \in Fd |-> IF p = 1 /\ d < 3 THEN Console ELSE None]]
  /\ pipe = [i \in PipeId |-> FreePipe]
  /\ proc = [p \in Proc |-> IF p = 1 THEN first ELSE FreeProc]
  /\ disk = [x \in Names |-> Absent]
  /\ out = <<>>
  /\ faults = 0

-----------------------------------------------------------------------------
(* Processes.                                                              *)

\* wakeup: all that sleep on the channel run again.
Wakeup(ps, chan) ==
  [p \in Proc |-> IF ps[p].state = "sleep" /\ ps[p].chan = chan
                    THEN [ps[p] EXCEPT !.state = "run", !.chan = <<>>] ELSE ps[p]]

Sleep(ps, p, chan) == [ps EXCEPT ![p].state = "sleep", ![p].chan = chan, ![p].mid = TRUE]

\* Process p is to make the call op; one that was killed makes no more calls,
\* but goes on with a call in which it slept.
Calls(p, op) ==
  /\ proc[p].state = "run"
  /\ proc[p].todo = <<>>
  /\ proc[p].ops # <<>>
  /\ Head(proc[p].ops)[1] = op
  /\ proc[p].killed => proc[p].mid

Op(p) == Head(proc[p].ops)

\* The call is done; the process goes on with ops.
Continue(ps, p, ops) == [ps EXCEPT ![p].ops = ops, ![p].mid = FALSE, ![p].n = 0]

Returns(ps, p) == Continue(ps, p, Tail(ps[p].ops))

ExitOps == << <<"exit">> >>

\* The descriptor an operand stands for: p[0] and p[1] are what pipe returned.
P0 == -1
P1 == -2
FdOf(p, x) == CASE x = P0 -> proc[p].p[1] [] x = P1 -> proc[p].p[2] [] OTHER -> x

FreeFds(p) == {d \in Fd : ofile[p][d] = None}

FreeFiles == {f \in FileId : file[f].ref = 0}

-----------------------------------------------------------------------------
(* Descriptors.                                                            *)

\* fileclose of descriptor d of p, which is free afterwards; ps are the processes otherwise.
\* A struct file that loses its last reference is free; when it was an end of a pipe, pipeclose
\* is left to do after ftable.lock.
FileClose(ps, p, d) ==
  LET f == ofile[p][d]
      last == file[f].ref = 1
  IN  /\ file' = [file EXCEPT ![f] = IF last THEN FreeFile ELSE [@ EXCEPT !.ref = @ - 1]]
      /\ ofile' = [ofile EXCEPT ![p][d] = None]
      /\ proc' = IF last /\ file[f].type = "pipe"
                   THEN [ps EXCEPT ![p].todo = << <<file[f].of, file[f].writable>> >>] ELSE ps

\* sys_close.
SysClose(p) ==
  LET d == FdOf(p, Op(p)[2])
  IN  /\ Calls(p, "close")
      /\ IF d \in FreeFds(p) THEN proc' = Returns(proc, p) /\ UNCHANGED <<file, ofile>>
                             ELSE FileClose(Returns(proc, p), p, d)
      /\ UNCHANGED <<pipe, disk, out, faults>>

\* Mutant: pipeclose wakes its own end.
OtherEndSame(i, writable) == <<i, IF writable THEN "nwrite" ELSE "nread">>

OtherEnd(i, writable) == <<i, IF writable THEN "nread" ELSE "nwrite">>

\* pipeclose: the other end is woken; the last end frees the page.
PipeClose(p) ==
  LET i == Head(proc[p].todo)[1]
      writable == Head(proc[p].todo)[2]
      closed == IF writable THEN [pipe[i] EXCEPT !.writeopen = FALSE] ELSE [pipe[i] EXCEPT !.readopen = FALSE]
  IN  /\ proc[p].state = "run"
      /\ proc[p].todo # <<>>
      /\ pipe' = [pipe EXCEPT ![i] = IF closed.readopen \/ closed.writeopen THEN closed ELSE FreePipe]
      /\ proc' = [Wakeup(proc, OtherEnd(i, writable)) EXCEPT ![p].todo = Tail(@)]
      /\ UNCHANGED <<file, ofile, disk, out, faults>>

\* sys_dup: the lowest free descriptor.
SysDup(p) ==
  LET f == ofile[p][FdOf(p, Op(p)[2])]
  IN  /\ Calls(p, "dup")
      /\ proc' = Returns(proc, p)
      /\ IF f = None \/ FreeFds(p) = {}
           THEN UNCHANGED <<file, ofile>>
           ELSE /\ ofile' = [ofile EXCEPT ![p][Min(FreeFds(p))] = f]
                /\ file' = [file EXCEPT ![f].ref = @ + 1]
      /\ UNCHANGED <<pipe, disk, out, faults>>

\* sys_open of a file by name (how the name is found is the subject of Inodes); when it fails
\* the shell's child exits.  create comes before filealloc and fdalloc, itrunc after them.
SysOpen(p) ==
  LET name == Op(p)[2]
      mode == Op(p)[3]
      f == Min(FreeFiles)
      missing == mode = "read" /\ disk[name] = Absent
  IN  /\ Calls(p, "open")
      /\ IF missing \/ FreeFiles = {} \/ FreeFds(p) = {}
           THEN /\ proc' = Continue(proc, p, ExitOps)
                /\ UNCHANGED <<file, ofile>>
           ELSE /\ proc' = Returns(proc, p)
                /\ file' = [file EXCEPT ![f] = [FreeFile EXCEPT !.ref = 1, !.type = "inode", !.of = name,
                                                               !.writable = mode # "read"]]
                /\ ofile' = [ofile EXCEPT ![p][Min(FreeFds(p))] = f]
      /\ disk' = IF \/ disk[name] = Absent /\ mode # "read"
                    \/ mode = "trunc" /\ FreeFiles # {} /\ FreeFds(p) # {}
                   THEN [disk EXCEPT ![name] = <<>>] ELSE disk
      /\ UNCHANGED <<pipe, out, faults>>

-----------------------------------------------------------------------------
(* Pipes.                                                                  *)

CanPipe(p) ==
  /\ Cardinality(FreeFiles) >= 2
  /\ \E j \in PipeId : ~pipe[j].alloc
  /\ Cardinality(FreeFds(p)) >= 2

\* sys_pipe: two struct files, a page, two descriptors.
SysPipe(p) ==
  LET rf == Min(FreeFiles)
      wf == Min(FreeFiles \ {rf})
      i == Min({j \in PipeId : ~pipe[j].alloc})
      fd0 == Min(FreeFds(p))
      fd1 == Min(FreeFds(p) \ {fd0})
      End(w) == [FreeFile EXCEPT !.ref = 1, !.type = "pipe", !.writable = w, !.of = i]
  IN  /\ Calls(p, "pipe")
      /\ CanPipe(p)
      /\ file' = [file EXCEPT ![rf] = End(FALSE), ![wf] = End(TRUE)]
      /\ pipe' = [pipe EXCEPT ![i] = [FreePipe EXCEPT !.alloc = TRUE, !.readopen = TRUE, !.writeopen = TRUE]]
      /\ ofile' = [ofile EXCEPT ![p][fd0] = rf, ![p][fd1] = wf]
      /\ proc' = [Returns(proc, p) EXCEPT ![p].p = <<fd0, fd1>>]
      /\ UNCHANGED <<disk, out, faults>>

\* pipealloc finds no struct file or no page and closes what it has, or there
\* are no descriptors and sys_pipe does: nothing is left.  The shell panics.
SysPipeFails(p) ==
  /\ Calls(p, "pipe")
  /\ CanPipe(p) => faults < MaxFaults
  /\ faults' = Min({faults + 1, MaxFaults})
  /\ proc' = Continue(proc, p, ExitOps)
  /\ UNCHANGED <<file, ofile, pipe, disk, out>>

Buffered(i) == Wrap(pipe[i].nwrite - pipe[i].nread)

\* The bytes in the ring from nread on.
Ring(i, k) == [j \in 1..k |-> pipe[i].data[Wrap(pipe[i].nread + j - 1) % PIPESIZE]]

\* pipewrite, from where it (re)starts to where it returns or sleeps: the bytes
\* that fit go into the ring; it sleeps when it is full and wakes the readers.
PipeWrite(p, i, bytes) ==
  LET n == proc[p].n
      room == PIPESIZE - Buffered(i)
      k == Min({room, Len(bytes) - n})
      full == [pipe[i] EXCEPT !.nwrite = Wrap(@ + k),
                 !.data = [x \in 0..PIPESIZE - 1 |->
                   IF \E j \in 1..k : x = Wrap(pipe[i].nwrite + j - 1) % PIPESIZE
                     THEN bytes[n + CHOOSE j \in 1..k : x = Wrap(pipe[i].nwrite + j - 1) % PIPESIZE]
                     ELSE @[x]]]
      woken == Wakeup(proc, <<i, "nread">>)
  IN  /\ pipe[i].readopen
      /\ ~proc[p].killed
      /\ pipe' = [pipe EXCEPT ![i] = full]
      /\ proc' = IF n + k = Len(bytes) THEN Returns(woken, p)
                 ELSE Sleep([woken EXCEPT ![p].n = n + k], p, <<i, "nwrite">>)

\* The bytes of a file with b written at an offset.
Overwritten(old, o, b) ==
  [k \in 1..Max({Len(old), o + Len(b)}) |-> IF k > o /\ k <= o + Len(b) THEN b[k - o] ELSE old[k]]

\* filewrite returns less than was asked for: descriptor 1 is not open for
\* writing, no one can read from the pipe any more, or the process was killed.
WriteRefused(p, f) ==
  \/ f = None
  \/ f # None /\ ~file[f].writable
  \/ f # None /\ file[f].type = "pipe" /\ (~pipe[file[f].of].readopen \/ proc[p].killed)

\* sys_write to descriptor 1.  Op(p)[3]: what the process does when it fails.
SysWrite(p) ==
  LET f == ofile[p][1]
      bytes == Op(p)[2]
  IN  /\ Calls(p, "write")
      /\ IF WriteRefused(p, f)
           THEN /\ proc' = IF Op(p)[3] = "exit" THEN Continue(proc, p, ExitOps) ELSE Returns(proc, p)
                /\ UNCHANGED <<file, pipe, disk, out>>
           ELSE CASE file[f].type = "pipe" -> PipeWrite(p, file[f].of, bytes) /\ UNCHANGED <<file, disk, out>>
                  [] file[f].type = "device" -> /\ out' = out \o bytes
                                                /\ proc' = Returns(proc, p)
                                                /\ UNCHANGED <<file, pipe, disk>>
                  [] file[f].type = "inode" -> /\ disk' = [disk EXCEPT ![file[f].of] = Overwritten(@, file[f].off, bytes)]
                                               /\ file' = [file EXCEPT ![f].off = @ + Len(bytes)]
                                               /\ proc' = Returns(proc, p)
                                               /\ UNCHANGED <<pipe, out>>
      /\ UNCHANGED <<ofile, faults>>

\* cat: what read returned is written to descriptor 1, then it reads again; an
\* empty read ends it.
GotBytes(ps, p, bytes) ==
  Continue(ps, p, IF bytes = <<>> THEN Tail(ps[p].ops)
                  ELSE << <<"write", bytes, "exit">> >> \o ps[p].ops)

\* piperead: it sleeps while the pipe is empty and has a writer; then it takes
\* what there is, up to what was asked for, and wakes the writers.
PipeRead(p, i) ==
  LET k == Min({BufSize, Buffered(i)})
  IN  IF Buffered(i) = 0 /\ pipe[i].writeopen
        THEN /\ proc' = IF proc[p].killed THEN Continue(proc, p, ExitOps) ELSE Sleep(proc, p, <<i, "nread">>)
             /\ UNCHANGED pipe
        ELSE /\ pipe' = [pipe EXCEPT ![i].nread = Wrap(@ + k)]
             /\ proc' = GotBytes(Wakeup(proc, <<i, "nwrite">>), p, Ring(i, k))

\* sys_read from descriptor 0; the console is at its end of file.
SysRead(p) ==
  LET f == ofile[p][0]
      there == disk[file[f].of]
      k == Min({BufSize, Max({0, Len(there) - file[f].off})})
  IN  /\ Calls(p, "read")
      /\ IF f = None \/ (f # None /\ file[f].writable /\ file[f].type # "device")
           THEN proc' = Continue(proc, p, ExitOps) /\ UNCHANGED <<file, pipe>>
           ELSE CASE file[f].type = "pipe" -> PipeRead(p, file[f].of) /\ UNCHANGED file
                  [] file[f].type = "device" -> proc' = GotBytes(proc, p, <<>>) /\ UNCHANGED <<file, pipe>>
                  [] file[f].type = "inode" -> /\ proc' = GotBytes(proc, p, SubSeq(there, file[f].off + 1, file[f].off + k))
                                               /\ file' = [file EXCEPT ![f].off = @ + k]
                                               /\ UNCHANGED pipe
      /\ UNCHANGED <<ofile, disk, out, faults>>

\* copyout finds no memory for the byte piperead has taken from the pipe, and
\* the byte is lost; copyin, in pipewrite, and the write is short.  Both wake
\* the other end.  (The first byte of what is copied fails.)
CopyFails(p) ==
  LET read == Op(p)[1] = "read"
      f == ofile[p][IF read THEN 0 ELSE 1]
      i == file[f].of
  IN  /\ Calls(p, "read") \/ Calls(p, "write")
      /\ faults < MaxFaults
      /\ f # None
      /\ file[f].type = "pipe"
      /\ read \/ ~proc[p].killed
      /\ file[f].writable = ~read
      /\ IF read THEN Buffered(i) > 0 ELSE pipe[i].readopen /\ Buffered(i) < PIPESIZE
      /\ pipe' = IF read THEN [pipe EXCEPT ![i].nread = Wrap(@ + 1)] ELSE pipe
      /\ proc' = IF read THEN GotBytes(Wakeup(proc, <<i, "nwrite">>), p, <<>>)
                 ELSE Continue(Wakeup(proc, <<i, "nread">>), p,
                               IF Op(p)[3] = "exit" THEN ExitOps ELSE Tail(proc[p].ops))
      /\ faults' = faults + 1
      /\ UNCHANGED <<file, ofile, disk, out>>

-----------------------------------------------------------------------------
(* fork, exit, wait, kill.                                                 *)

FreeSlots == {q \in Proc : proc[q].state = "unused"}

\* Mutant: fork copies the descriptors only.
FileDupsNone(p) == file

\* filedup for each open descriptor of p.
FileDups(p) == [f \in FileId |-> [file[f] EXCEPT !.ref = @ + Cardinality({d \in Fd : ofile[p][d] = f})]]

\* fork: the child has the same struct files, each with a reference more.
Fork(p) ==
  LET q == Min(FreeSlots)
  IN  /\ Calls(p, "fork")
      /\ FreeSlots # {}
      /\ file' = FileDups(p)
      /\ ofile' = [ofile EXCEPT ![q] = ofile[p]]
      /\ proc' = [Returns(proc, p) EXCEPT
           ![q] = [FreeProc EXCEPT !.state = "run", !.parent = p, !.ops = Op(p)[2], !.p = proc[p].p]]
      /\ UNCHANGED <<pipe, disk, out, faults>>

\* fork1 panics when fork fails: no slot, or no memory.
ForkFails(p) ==
  /\ Calls(p, "fork")
  /\ FreeSlots # {} => faults < MaxFaults
  /\ faults' = Min({faults + 1, MaxFaults})
  /\ proc' = Continue(proc, p, ExitOps)
  /\ UNCHANGED <<file, ofile, pipe, disk, out>>

\* p is in exit; a killed process exits when it is not in a call.
Exits(p) ==
  /\ proc[p].state = "run"
  /\ proc[p].todo = <<>>
  /\ Op(p)[1] = "exit" \/ (proc[p].killed /\ ~proc[p].mid)

\* exit closes every descriptor, from the lowest on.
ExitCloses(p) ==
  /\ Exits(p)
  /\ FreeFds(p) # Fd
  /\ FileClose([proc EXCEPT ![p].ops = ExitOps], p, Min(Fd \ FreeFds(p)))
  /\ UNCHANGED <<pipe, disk, out, faults>>

\* Then it gives its children to init, which waits for them, wakes its parent
\* and is a zombie until the parent waits.
ExitZombie(p) ==
  LET Orphaned(q) == IF proc[q].parent # p THEN proc[q]
                     ELSE IF proc[q].state = "zombie" THEN FreeProc
                     ELSE [proc[q] EXCEPT !.parent = None]
      mine == IF proc[p].parent = None THEN FreeProc
              ELSE [FreeProc EXCEPT !.state = "zombie", !.parent = proc[p].parent]
  IN  /\ Exits(p)
      /\ FreeFds(p) = Fd
      /\ proc' = Wakeup([q \in Proc |-> IF q = p THEN mine ELSE Orphaned(q)], <<proc[p].parent, "wait">>)
      /\ UNCHANGED <<file, ofile, pipe, disk, out, faults>>

Wait(p) ==
  LET kids == {q \in Proc : proc[q].parent = p}
      dead == {q \in kids : proc[q].state = "zombie"}
  IN  /\ Calls(p, "wait")
      /\ proc' = CASE dead # {} -> Returns([proc EXCEPT ![Min(dead)] = FreeProc], p)
                   [] dead = {} /\ (kids = {} \/ proc[p].killed) -> Returns(proc, p)
                   [] OTHER -> Sleep(proc, p, <<p, "wait">>)
      /\ UNCHANGED <<file, ofile, pipe, disk, out, faults>>

\* kill, by anyone: a sleeper is woken.
Kill(p) ==
  /\ faults < MaxFaults
  /\ proc[p].state \in {"run", "sleep"}
  /\ ~proc[p].killed
  /\ faults' = faults + 1
  /\ proc' = [proc EXCEPT ![p].killed = TRUE, ![p].state = "run", ![p].chan = <<>>]
  /\ UNCHANGED <<file, ofile, pipe, disk, out>>

\* What the kernel does for process p.
Kernel(p) ==
  \/ SysClose(p) \/ PipeClose(p) \/ SysDup(p) \/ SysOpen(p) \/ SysPipe(p) \/ SysPipeFails(p)
  \/ SysWrite(p) \/ SysRead(p) \/ CopyFails(p) \/ Fork(p) \/ ForkFails(p) \/ ExitCloses(p) \/ ExitZombie(p) \/ Wait(p)
=============================================================================
