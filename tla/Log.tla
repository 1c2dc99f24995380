-------------------------------- MODULE Log ---------------------------------
(***************************************************************************)
(* The logging layer of the file system, kernel/log.c: file system calls   *)
(* run between begin_op and end_op and write blocks with log_write; the    *)
(* last one to end commits the writes of all of them, through a redo log   *)
(* on disk; the next boot replays a log that was committed.                *)
(*                                                                         *)
(* The machine can crash between any two disk writes and during recovery.  *)
(* A block write is atomic and synchronous (virtio_disk_rw returns when    *)
(* the device has answered).                                               *)
(***************************************************************************)
EXTENDS Integers, Sequences, FiniteSets, Functions

CONSTANTS
  Proc,          \* processes that make file system calls
  Boot,          \* the thread that runs initlog at boot
  Block,         \* home blocks
  Val,           \* contents of a block; 0 at first
  MAXOPBLOCKS,   \* param.h: most blocks a call writes
  LOGSIZE,       \* param.h: reserved space for the calls, in blocks
  LogSize,       \* log.size: blocks of the on-disk log, with its header
  MaxCrashes     \* bound: power failures of a running system (not during recovery)

ASSUME LogAssumption ==
  /\ {MAXOPBLOCKS, LOGSIZE, LogSize} \subseteq Nat \ {0} /\ MaxCrashes \in Nat
  /\ Boot \notin Proc /\ 0 \in Val /\ IsFiniteSet(Proc) /\ IsFiniteSet(Block)

Thread == Proc \cup {Boot}

VARIABLES
  disk,          \* on disk: [Block -> Val], the home blocks
  logblk,        \* on disk: the data blocks of the log
  hdr,           \* on disk: the log header, as the sequence of the block numbers
  cache,         \* [Block -> Val]: what bread returns
  pinned,        \* the blocks with a bpin in force
  lh,            \* log.lh, as the sequence of the block numbers
  outstanding, committing,
  pc,            \* [Thread -> STRING]
  tail,          \* [Thread -> Nat]: loop index of write_log and install_trans, from 1
  wrote,         \* [Proc -> SUBSET Block]: blocks the current call has written
  panicked,      \* the kernel has panicked: only a reboot is possible
  crashes

media == <<disk, logblk, hdr>>
shared == <<lh, outstanding, committing>>
vars == <<disk, logblk, hdr, cache, pinned, lh, outstanding, committing, pc, tail, wrote,
          panicked, crashes>>

Init ==
  /\ disk = [b \in Block |-> 0]
  /\ logblk = [i \in 1..(LogSize - 1) |-> 0]
  /\ hdr = <<>>
  /\ cache = disk
  /\ pinned = {}
  /\ lh = <<>> /\ outstanding = 0 /\ committing = FALSE
  /\ pc = [t \in Thread |-> IF t = Boot THEN "read_head" ELSE "idle"]
  /\ tail = [t \in Thread |-> 1]
  /\ wrote = [p \in Proc |-> {}]
  /\ panicked = FALSE
  /\ crashes = 0

-----------------------------------------------------------------------------
\* Thread t goes from one step to another, its loop index starting over.
Step(t, from, to) ==
  /\ pc[t] = from /\ ~panicked
  /\ pc' = [pc EXCEPT ![t] = to]
  /\ tail' = [tail EXCEPT ![t] = 1]

\* One turn of a loop over log.lh; the last one leaves to the next step.
Turn(t, at, next) ==
  /\ pc[t] = at /\ ~panicked /\ tail[t] <= Len(lh)
  /\ IF tail[t] = Len(lh)
     THEN pc' = [pc EXCEPT ![t] = next] /\ tail' = [tail EXCEPT ![t] = 1]
     ELSE tail' = [tail EXCEPT ![t] = @ + 1] /\ UNCHANGED pc

\* wakeup(&log), by p, which goes on at "to".
WakeAll(p, to) ==
  pc' = [t \in Thread |-> IF t = p THEN to
                          ELSE IF pc[t] = "asleep" THEN "woken" ELSE pc[t]]

\* begin_op: a call does not fit in the log together with what is reserved.
NoSpace == Len(lh) + (outstanding + 1) * MAXOPBLOCKS > LOGSIZE

CanBegin(p) == pc[p] \in {"idle", "woken"} /\ pc[Boot] = "done" /\ ~panicked

\* begin_op waits for the commit, or for space.
BeginOpSleep(p) ==
  /\ CanBegin(p) /\ (committing \/ NoSpace)
  /\ pc' = [pc EXCEPT ![p] = "asleep"]
  /\ UNCHANGED <<media, cache, pinned, shared, tail, wrote, panicked, crashes>>

\* Mutant: begin_op does not look at log.committing.
BeginOpDuringCommit(p) ==
  /\ CanBegin(p) /\ ~NoSpace
  /\ outstanding' = outstanding + 1
  /\ pc' = [pc EXCEPT ![p] = "op"]
  /\ wrote' = [wrote EXCEPT ![p] = {}]
  /\ UNCHANGED <<media, cache, pinned, lh, committing, tail, panicked, crashes>>

BeginOp(p) ==
  /\ CanBegin(p) /\ ~committing /\ ~NoSpace
  /\ outstanding' = outstanding + 1
  /\ pc' = [pc EXCEPT ![p] = "op"]
  /\ wrote' = [wrote EXCEPT ![p] = {}]
  /\ UNCHANGED <<media, cache, pinned, lh, committing, tail, panicked, crashes>>

\* kill makes a sleeping process runnable; begin_op tests its condition again.
Kill(p) ==
  /\ pc[p] = "asleep" /\ ~panicked
  /\ pc' = [pc EXCEPT ![p] = "woken"]
  /\ UNCHANGED <<media, cache, pinned, shared, tail, wrote, panicked, crashes>>

LogFull == Len(lh) >= LOGSIZE \/ Len(lh) >= LogSize - 1

\* A call of p may write b: it writes at most MAXOPBLOCKS different blocks.
MayWrite(p, b) == /\ pc[p] = "op" /\ ~panicked
                  /\ Cardinality(wrote[p] \cup {b}) <= MAXOPBLOCKS

\* Mutant: log_write does not bpin the buffer.
LogWriteUnpinned(p, b, x) ==
  /\ MayWrite(p, b) /\ ~LogFull
  /\ cache' = [cache EXCEPT ![b] = x]
  /\ lh' = IF b \in Range(lh) THEN lh ELSE Append(lh, b)
  /\ wrote' = [wrote EXCEPT ![p] = @ \cup {b}]
  /\ UNCHANGED <<media, pinned, outstanding, committing, pc, tail, panicked, crashes>>

\* bread, modification, log_write (with absorption) and brelse, all under the
\* buffer's sleep lock.
LogWrite(p, b, x) ==
  /\ MayWrite(p, b) /\ ~LogFull
  /\ cache' = [cache EXCEPT ![b] = x]
  /\ lh' = IF b \in Range(lh) THEN lh ELSE Append(lh, b)
  /\ pinned' = pinned \cup {b}
  /\ wrote' = [wrote EXCEPT ![p] = @ \cup {b}]
  /\ UNCHANGED <<media, outstanding, committing, pc, tail, panicked, crashes>>

\* log_write: panic("too big a transaction").
LogWritePanics(p, b) ==
  /\ MayWrite(p, b) /\ LogFull
  /\ panicked' = TRUE
  /\ UNCHANGED <<media, cache, pinned, shared, pc, tail, wrote, crashes>>

\* end_op: the last call of the group commits, the others wake those that wait for space.
EndOp(p) ==
  /\ pc[p] = "op" /\ ~panicked
  /\ outstanding' = outstanding - 1
  /\ IF outstanding = 1
     THEN /\ committing' = TRUE
          /\ pc' = [pc EXCEPT ![p] = IF lh = <<>> THEN "finish" ELSE "write_log"]
     ELSE /\ WakeAll(p, "idle")
          /\ UNCHANGED committing
  /\ UNCHANGED <<media, cache, pinned, lh, tail, wrote, panicked, crashes>>

\* Mutant: end_op leaves log.committing set.
EndOpFinishSticks(p) ==
  /\ pc[p] = "finish" /\ ~panicked
  /\ WakeAll(p, "idle")
  /\ UNCHANGED <<media, cache, pinned, shared, tail, wrote, panicked, crashes>>

\* end_op after commit.
EndOpFinish(p) ==
  /\ pc[p] = "finish" /\ ~panicked
  /\ committing' = FALSE
  /\ WakeAll(p, "idle")
  /\ UNCHANGED <<media, cache, pinned, lh, outstanding, tail, wrote, panicked, crashes>>

-----------------------------------------------------------------------------
(* commit, and recover_from_log: one disk write is one step.               *)

\* write_log: copy a modified block from the cache to the log.
WriteLog(t) ==
  /\ Turn(t, "write_log", "write_head")
  /\ logblk' = [logblk EXCEPT ![tail[t]] = cache[lh[tail[t]]]]
  /\ UNCHANGED <<disk, hdr, cache, pinned, shared, wrote, panicked, crashes>>

\* write_head: the commit point.
WriteHead(t) ==
  /\ Step(t, "write_head", "install")
  /\ hdr' = lh
  /\ UNCHANGED <<disk, logblk, cache, pinned, shared, wrote, panicked, crashes>>

\* install_trans: copy a block from the log to its home; unpin it unless this is
\* recovery.
Install(t) ==
  LET b == lh[tail[t]]
      x == logblk[tail[t]]
  IN
  /\ Turn(t, "install", "erase")
  /\ disk' = [disk EXCEPT ![b] = x]
  /\ cache' = [cache EXCEPT ![b] = x]
  /\ pinned' = IF t = Boot THEN pinned ELSE pinned \ {b}
  /\ UNCHANGED <<logblk, hdr, shared, wrote, panicked, crashes>>

\* Mutant: recovery installs until log.lh.n is 0, which it does not reset.
EraseAgain(t) ==
  /\ Step(t, "erase", IF t # Boot THEN "finish" ELSE IF lh = <<>> THEN "done" ELSE "install")
  /\ lh' = IF t = Boot THEN lh ELSE <<>>
  /\ hdr' = <<>>
  /\ UNCHANGED <<disk, logblk, cache, pinned, outstanding, committing, wrote, panicked, crashes>>

\* log.lh.n = 0; write_head(): the log is empty again.
Erase(t) ==
  /\ Step(t, "erase", IF t = Boot THEN "done" ELSE "finish")
  /\ lh' = <<>>
  /\ hdr' = <<>>
  /\ UNCHANGED <<disk, logblk, cache, pinned, outstanding, committing, wrote, panicked, crashes>>

\* recover_from_log: read_head.
ReadHead ==
  /\ Step(Boot, "read_head", IF hdr = <<>> THEN "erase" ELSE "install")
  /\ lh' = hdr
  /\ UNCHANGED <<media, cache, pinned, outstanding, committing, wrote, panicked, crashes>>

\* bget recycles the buffer of an unpinned block; a later bread reads the disk.
Recycle(b) ==
  /\ b \notin pinned /\ ~panicked
  /\ cache' = [cache EXCEPT ![b] = disk[b]]
  /\ UNCHANGED <<media, pinned, shared, pc, tail, wrote, panicked, crashes>>

\* Power failure, or a reboot after a panic: what is not on disk is lost.
Crash ==
  /\ \/ (panicked \/ pc[Boot] # "done") /\ UNCHANGED crashes
     \/ pc[Boot] = "done" /\ ~panicked /\ crashes < MaxCrashes /\ crashes' = crashes + 1
  /\ cache' = disk
  /\ pinned' = {}
  /\ lh' = <<>> /\ outstanding' = 0 /\ committing' = FALSE
  /\ pc' = [t \in Thread |-> IF t = Boot THEN "read_head" ELSE "idle"]
  /\ tail' = [t \in Thread |-> 1]
  /\ wrote' = [p \in Proc |-> {}]
  /\ panicked' = FALSE
  /\ UNCHANGED media

Commit(t) == WriteLog(t) \/ WriteHead(t) \/ Install(t) \/ Erase(t)

Next ==
  \/ \E p \in Proc : \/ BeginOpSleep(p) \/ BeginOp(p) \/ Kill(p)
                     \/ EndOp(p) \/ EndOpFinish(p)
                     \/ \E b \in Block : LogWritePanics(p, b) \/ \E x \in Val : LogWrite(p, b, x)
  \/ \E t \in Thread : Commit(t)
  \/ ReadHead
  \/ \E b \in Block : Recycle(b)
  \/ Crash

Spec == Init /\ [][Next]_vars

\* What goes on without programs doing anything.
Background == ReadHead \/ (\E t \in Thread : Commit(t)) \/ (\E p \in Proc : EndOpFinish(p))

\* The scheduler runs a thread that is in commit or in recovery again and again (there
\* is never more than one: CommitAlone), and the disk answers every request.
LiveSpec == Spec /\ WF_vars(Background)

-----------------------------------------------------------------------------
InCommit == {"write_log", "write_head", "install", "erase", "finish"}

\* A commit runs alone: no call is inside a transaction while the log is written,
\* installed and erased without log.lock, and no second commit or recovery runs
\* ("commits when there are no FS system calls active", log.c).
CommitAlone ==
  /\ \A t, u \in Thread : pc[t] \in InCommit /\ pc[u] \in InCommit \cup {"op"} => t = u
  /\ committing <=> \E p \in Proc : pc[p] \in InCommit

\* The calls under way, each with the blocks it has written.
Written == {w \in Proc \X Block : pc[w[1]] = "op" /\ w[2] \in wrote[w[1]]}

\* The space begin_op reserves is enough: the blocks logged and those that the calls
\* under way may still write fit in LOGSIZE.
ReservedSpace ==
  Len(lh) + MAXOPBLOCKS * outstanding
    - Cardinality(Written) <= LOGSIZE

\* No wakeup is lost: a process asleep in begin_op could not be admitted now.
SleepersBlocked ==
  \A p \in Proc : pc[p] = "asleep" => committing \/ NoSpace

\* The discipline of the log, log.c: commits alone, reservations that are enough, no lost wakeup.
LogSafe == CommitAlone /\ ReservedSpace /\ SleepersBlocked

\* log_write never panics: LOGSIZE is "max data blocks in on-disk log" (param.h),
\* and a call that "might exhaust log space" waits in begin_op.
NoLogPanic == ~panicked

\* The contents the next boot will find: a committed log overrides the home blocks.
Stable ==
  [b \in Block |-> IF b \in Range(hdr) THEN logblk[CHOOSE i \in DOMAIN hdr : hdr[i] = b]
                                       ELSE disk[b]]

\* What calls see, once there can be any, and the calls under way.
Current == IF pc[Boot] = "done" THEN cache ELSE Stable

Active == {p \in Proc : pc[p] = "op"}

Atomic == INSTANCE AtomicDisk WITH stable <- Stable, current <- Current, active <- Active

\* The log implements atomic transactions: whenever the machine crashes, recovery
\* brings back the contents as of a moment at which no call was under way.
ImplementsAtomicDisk == Atomic!Spec

\* A commit ends, and with it the sleep of the processes that wait for it.
CommitEnds == committing ~> ~committing

\* Recovery ends, once the power stays on.
RecoveryEnds == <>[][~Crash]_vars => ((pc[Boot] # "done") ~> (pc[Boot] = "done"))
=============================================================================
