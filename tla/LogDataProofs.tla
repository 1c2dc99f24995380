-------------------------- MODULE LogDataProofs -----------------------------
(***************************************************************************)
(* Proofs about the logging layer (Log, of kernel/log.c): the inductive    *)
(* invariant, what the steps of a commit and of recovery do with the cache,*)
(* the log and the home blocks, and that each of them is a step of         *)
(* AtomicDisk.  LogProofs has the rest of the argument and the theorems.   *)
(*                                                                         *)
(* The inductive invariant has four parts: where the threads may be        *)
(* (Control), what the log may hold (Space), the lost wakeup               *)
(* (SleepersBlocked), and what is where (Data): which of cache, log and    *)
(* home blocks agree at which point of commit and of recovery.             *)
(***************************************************************************)
EXTENDS Log, TLAPS

Labels == {"idle", "asleep", "woken", "op", "read_head", "done"} \cup InCommit

LogType ==
  /\ disk \in [Block -> Val] /\ cache \in [Block -> Val]
  /\ logblk \in [1..(LogSize - 1) -> Val]
  /\ hdr \in Seq(Block) /\ lh \in Seq(Block)
  /\ pinned \in SUBSET Block
  /\ outstanding \in Nat /\ committing \in BOOLEAN
  /\ pc \in [Thread -> Labels]
  /\ tail \in [Thread -> Nat \ {0}]
  /\ wrote \in [Proc -> SUBSET Block]
  /\ panicked \in BOOLEAN /\ crashes \in Nat

\* Where the threads may be.  Until recovery is over no process is in the file system.
Control ==
  /\ pc[Boot] \in {"read_head", "install", "erase", "done"}
  /\ \A p \in Proc : pc[p] \notin {"read_head", "done"}
  /\ pc[Boot] # "done" => \A p \in Proc : pc[p] = "idle"
  /\ CommitAlone
  /\ outstanding = Cardinality(Active)
  /\ \A t \in Thread : pc[t] \notin {"write_log", "install"} => tail[t] = 1

Distinct(q) == \A i, j \in 1..Len(q) : q[i] = q[j] => i = j

\* The log fits on the disk and has a block once; what a call has written is in it.
Space ==
  /\ \A q \in {lh, hdr} : Len(q) <= LOGSIZE /\ Len(q) <= LogSize - 1 /\ Distinct(q)
  /\ \A p \in Proc : pc[p] = "op" =>
       wrote[p] \subseteq Range(lh) /\ Cardinality(wrote[p]) <= MAXOPBLOCKS
  /\ ReservedSpace

\* The log's first n blocks are copies of what q has for them.
Copied(q, n) == \A i \in 1..n : logblk[i] = q[lh[i]]

\* The header on disk is not empty only from the commit point to the end of the
\* installation.
Header ==
  /\ hdr # <<>> => pc[Boot] = "read_head" \/ \E t \in Thread : pc[t] \in {"install", "erase"}
  /\ \A t \in Thread : pc[t] \in {"install", "erase"} => hdr = lh

\* A block is pinned while the disk does not have its contents.
Pins ==
  /\ \A b \in Block \ pinned : cache[b] = disk[b]
  /\ pinned \subseteq Range(lh)
  /\ pc[Boot] # "done" => pinned = {}

\* A commit: the log gets the contents of the cache, then the home blocks do.
Commits(p) ==
  /\ pc[p] = "write_log" => Copied(cache, tail[p] - 1)
  /\ pc[p] \in {"write_head", "install"} => Copied(cache, Len(lh))
  /\ pc[p] = "install" => \A b \in pinned : \E i \in tail[p]..Len(lh) : b = lh[i]
  /\ pc[p] = "erase" => pinned = {}

\* An installation, of a commit or of recovery: the home blocks up to the current one are in.
Installs(t) ==
  /\ pc[t] = "install" => Copied(disk, tail[t] - 1)
  /\ pc[t] = "erase" => Copied(disk, Len(lh))

Data == Header /\ Pins /\ (\A p \in Proc : Commits(p)) /\ (\A t \in Thread : Installs(t))

LogInv == LogType /\ Control /\ Space /\ SleepersBlocked /\ Data

-----------------------------------------------------------------------------
(* The operators.                                                          *)

\* What a sequence of blocks holds, by index.
LEMMA InLog ==
  ASSUME NEW q \in Seq(Block), NEW b
  PROVE  b \in Range(q) <=> \E i \in 1..Len(q) : q[i] = b
BY DEF Range

\* log_write appends a block that is not in the log.
LEMMA AppendBlock ==
  ASSUME NEW q \in Seq(Block), NEW b \in Block
  PROVE  /\ Append(q, b) \in Seq(Block) /\ Len(Append(q, b)) = Len(q) + 1
         /\ \A i \in 1..Len(q) : Append(q, b)[i] = q[i]
         /\ Range(Append(q, b)) = Range(q) \cup {b}
         /\ Distinct(q) /\ b \notin Range(q) => Distinct(Append(q, b))
<1>1. /\ Append(q, b) \in Seq(Block) /\ Len(Append(q, b)) = Len(q) + 1
      /\ \A i \in 1..Len(q) : Append(q, b)[i] = q[i]
      /\ Append(q, b)[Len(q) + 1] = b
  OBVIOUS
<1>2. \A x : x \in Range(Append(q, b)) <=> x \in Range(q) \cup {b}
  <2> TAKE x
  <2>1. x \in Range(Append(q, b)) <=> \E i \in 1..(Len(q) + 1) : Append(q, b)[i] = x
    <3>1. Append(q, b) \in Seq(Block) /\ Len(Append(q, b)) = Len(q) + 1
      BY <1>1
    <3> QED
      BY <3>1, InLog, ZenonT(40)
  <2>2. x \in Range(q) <=> \E i \in 1..Len(q) : q[i] = x
    BY InLog
  <2> QED
    BY <1>1, <2>1, <2>2
<1>3. ASSUME Distinct(q), b \notin Range(q)
      PROVE  Distinct(Append(q, b))
  <2>1. \A i \in 1..Len(q) : q[i] # b
    BY <1>3, InLog
  <2> QED
    BY <1>1, <1>3, <2>1 DEF Distinct
<1> QED
  BY <1>1, <1>2, <1>3

\* The empty log.
LEMMA EmptyLog ==
  /\ <<>> \in Seq(Block) /\ Len(<<>>) = 0 /\ Range(<<>>) = {} /\ Distinct(<<>>)
  /\ \A q \in Seq(Block) : Len(q) = 0 => q = <<>>
BY DEF Range, Distinct

\* A constant of param.h is a positive number.
LEMMA Sizes ==
  /\ MAXOPBLOCKS \in Nat \ {0} /\ LOGSIZE \in Nat \ {0} /\ LogSize \in Nat \ {0}
  /\ Boot \in Thread /\ Proc \subseteq Thread /\ Boot \notin Proc
  /\ Thread = Proc \cup {Boot}
BY LogAssumption DEF Thread

\* A thread goes to another place.
Moves(t, to) == \A u \in Thread : pc'[u] = IF u = t THEN to ELSE pc[u]

LEMMA PcMoves ==
  ASSUME LogType, NEW t \in Thread, NEW to \in Labels, pc' = [pc EXCEPT ![t] = to]
  PROVE  pc' \in [Thread -> Labels] /\ Moves(t, to)
BY DEF LogType, Moves

\* Step, with the loop index.
LEMMA StepMoves ==
  ASSUME LogType, NEW t \in Thread, NEW from, NEW to \in Labels, Step(t, from, to)
  PROVE  /\ pc[t] = from /\ pc' \in [Thread -> Labels] /\ Moves(t, to)
         /\ tail' \in [Thread -> Nat \ {0}]
         /\ \A u \in Thread : tail'[u] = IF u = t THEN 1 ELSE tail[u]
<1>1. pc' \in [Thread -> Labels] /\ Moves(t, to)
  BY PcMoves, Zenon DEF Step
<1>2. tail' = [tail EXCEPT ![t] = 1] /\ tail \in [Thread -> Nat \ {0}]
  BY DEF Step, LogType
<1> QED
  BY <1>1, <1>2 DEF Step

\* Turn: the loop goes on, or is left.
LEMMA TurnMoves ==
  ASSUME LogType, NEW t \in Thread, NEW at, NEW next \in Labels, Turn(t, at, next)
  PROVE  /\ pc[t] = at /\ pc' \in [Thread -> Labels] /\ tail[t] \in 1..Len(lh)
         /\ tail' \in [Thread -> Nat \ {0}]
         /\ \A u \in Thread \ {t} : tail'[u] = tail[u]
         /\ \/ tail[t] = Len(lh) /\ Moves(t, next) /\ tail'[t] = 1
            \/ tail[t] < Len(lh) /\ Moves(t, at) /\ tail'[t] = tail[t] + 1
<1>0. tail \in [Thread -> Nat \ {0}] /\ pc \in [Thread -> Labels] /\ Len(lh) \in Nat
  BY DEF LogType
<1>1. pc[t] = at /\ tail[t] \in 1..Len(lh)
  BY <1>0 DEF Turn
<1>2. CASE tail[t] = Len(lh)
  <2>1. pc' \in [Thread -> Labels] /\ Moves(t, next)
    BY <1>2, PcMoves DEF Turn
  <2>2. tail' = [tail EXCEPT ![t] = 1]
    BY <1>2 DEF Turn
  <2> QED
    BY <1>0, <1>1, <1>2, <2>1, <2>2
<1>3. CASE tail[t] # Len(lh)
  <2>1. pc' = pc /\ tail' = [tail EXCEPT ![t] = @ + 1]
    BY <1>3 DEF Turn
  <2>2. Moves(t, at)
    BY <1>0, <1>1, <2>1 DEF Moves
  <2> QED
    BY <1>0, <1>1, <1>3, <2>1, <2>2
<1> QED
  BY <1>2, <1>3

\* The steps of commit and install_trans never lead to a call or to sleep.
LEMMA CommitSteps ==
  ASSUME LogType, NEW t \in Thread, WriteLog(t) \/ WriteHead(t) \/ Install(t)
  PROVE  \E to \in Labels \ {"op", "asleep", "done"} : Moves(t, to) /\ pc[t] \in InCommit
<1>l. {"write_log", "write_head", "install", "erase"} \subseteq Labels \ {"op", "asleep", "done"}
  BY DEF Labels, InCommit
<1>1. CASE WriteLog(t)
  BY <1>l, <1>1, TurnMoves, Zenon DEF WriteLog, InCommit
<1>2. CASE WriteHead(t)
  BY <1>l, <1>2, StepMoves DEF WriteHead, InCommit
<1>3. CASE Install(t)
  BY <1>l, <1>3, TurnMoves, Zenon DEF Install, InCommit
<1> QED
  BY <1>1, <1>2, <1>3

\* wakeup(&log).
LEMMA WakeMoves ==
  ASSUME LogType, NEW p \in Proc, NEW to \in Labels, WakeAll(p, to)
  PROVE  /\ pc' \in [Thread -> Labels]
         /\ \A u \in Thread : pc'[u] = IF u = p THEN to
                                        ELSE IF pc[u] = "asleep" THEN "woken" ELSE pc[u]
<1>1. "woken" \in Labels /\ \A u \in Thread : pc[u] \in Labels
  BY DEF LogType, Labels
<1> QED
  BY <1>1 DEF WakeAll

-----------------------------------------------------------------------------
(* Data.                                                                   *)

\* The steps that read or write the log and the home blocks.
Busy == {"read_head", "write_log", "write_head", "install", "erase"}

\* Who is in a commit is alone there, and no call is under way.
LEMMA Alone ==
  ASSUME Control, NEW t \in Thread, pc[t] \in InCommit
  PROVE  /\ \A u \in Thread : pc[u] \in InCommit \cup {"op"} => u = t
         /\ t \in Proc => pc[Boot] = "done"
         /\ t \notin Proc => t = Boot /\ pc[Boot] # "done" /\ \A p \in Proc : pc[p] = "idle"
BY Sizes DEF Control, CommitAlone, InCommit

\* While calls are under way, and until the commit point, the header is empty.
LEMMA NoHeader ==
  ASSUME Control, Header, NEW p \in Proc, pc[p] \in {"op", "write_log", "write_head"}
  PROVE  hdr = <<>>
<1>1. pc[Boot] = "done"
  BY DEF Control
<1>2. \A t \in Thread : pc[t] \notin {"install", "erase"}
  BY Sizes DEF Control, CommitAlone, InCommit
<1> QED
  BY <1>1, <1>2 DEF Header

\* Steps of processes outside of the log, and the start of a commit.
LEMMA SameData ==
  ASSUME Data, UNCHANGED <<media, cache, pinned, lh>>, pc'[Boot] = pc[Boot],
         \A t \in Thread : pc'[t] \in Busy \/ pc[t] \in {"install", "erase"} =>
            (pc'[t] = pc[t] /\ tail'[t] = tail[t]) \/ (pc'[t] = "write_log" /\ tail'[t] = 1 /\ pc[t] = "op")
  PROVE  Data'
<1>0. UNCHANGED <<disk, logblk, hdr>>
  BY DEF media
<1>1. \A t \in Thread : pc'[t] \in {"install", "erase"} <=> pc[t] \in {"install", "erase"}
  BY DEF Busy
<1>2. \A t \in Thread : pc'[t] \in Busy =>
        (pc'[t] = pc[t] /\ tail'[t] = tail[t]) \/ (pc'[t] = "write_log" /\ tail'[t] = 1)
  OBVIOUS
<1>3. Header'
  BY <1>0, <1>1 DEF Data, Header
<1>4. Pins'
  BY <1>0 DEF Data, Pins
<1>5. ASSUME NEW p \in Proc PROVE Commits(p)'
  <2>0. Commits(p) /\ p \in Thread
    BY Sizes DEF Data
  <2>1. CASE pc'[p] = "write_log" /\ tail'[p] = 1
    BY <2>1 DEF Commits, Copied
  <2>2. CASE pc'[p] = pc[p] /\ tail'[p] = tail[p]
    BY <1>0, <2>0, <2>2 DEF Commits, Copied
  <2>3. CASE pc'[p] \notin Busy
    BY <2>3 DEF Busy, Commits
  <2> QED
    BY <1>2, <2>0, <2>1, <2>2, <2>3
<1>6. ASSUME NEW t \in Thread PROVE Installs(t)'
  <2>0. Installs(t)
    BY DEF Data
  <2>1. CASE pc'[t] = pc[t] /\ tail'[t] = tail[t]
    BY <1>0, <2>0, <2>1 DEF Installs, Copied
  <2>2. CASE pc'[t] \notin {"install", "erase"}
    BY <2>2 DEF Installs
  <2> QED
    BY <1>2, <2>1, <2>2 DEF Busy
<1> QED
  BY <1>3, <1>4, <1>5, <1>6 DEF Data

\* Every step keeps Data: the calls.
LEMMA CallData ==
  ASSUME LogType, Control, Data, NEW p \in Proc,
         \/ BeginOpSleep(p) \/ BeginOp(p) \/ Kill(p) \/ EndOp(p) \/ EndOpFinish(p)
         \/ \E b \in Block : LogWritePanics(p, b)
  PROVE  Data'
<1> USE Sizes
<1>l. {"idle", "asleep", "woken", "op", "read_head", "done", "write_log", "write_head",
       "install", "erase", "finish"} \subseteq Labels
  BY DEF Labels, InCommit
<1>1. UNCHANGED <<media, cache, pinned, lh, tail>>
  BY DEF BeginOpSleep, BeginOp, Kill, EndOp, EndOpFinish, LogWritePanics, shared
<1>2. CASE BeginOpSleep(p) \/ BeginOp(p) \/ Kill(p)
  <2>1. PICK to \in {"asleep", "op", "woken"} : Moves(p, to)
    BY <1>2, <1>l, PcMoves DEF BeginOpSleep, BeginOp, Kill
  <2>2. pc[p] \in {"idle", "woken", "asleep"}
    BY <1>2 DEF BeginOpSleep, BeginOp, Kill, CanBegin
  <2> QED
    BY <1>1, <2>1, <2>2, SameData, Zenon DEF Moves, Busy
<1>3. CASE EndOp(p)
  <2>0. pc[p] = "op" /\ tail[p] = 1
    BY <1>3, Zenon DEF EndOp, Control
  <2>1. CASE outstanding = 1
    <3>1. PICK to \in {"finish", "write_log"} : Moves(p, to)
      BY <1>3, <1>l, <2>1, PcMoves DEF EndOp
    <3> QED
      BY <1>1, <2>0, <3>1, SameData, Zenon DEF Moves, Busy
  <2>2. CASE outstanding # 1
    <3>1. \A u \in Thread : pc'[u] = IF u = p THEN "idle"
                                     ELSE IF pc[u] = "asleep" THEN "woken" ELSE pc[u]
      BY <1>3, <1>l, <2>2, WakeMoves DEF EndOp
    <3>2. pc[Boot] # "asleep"
      BY DEF Control
    <3> QED
      BY <1>1, <2>0, <3>1, <3>2, SameData, Zenon DEF Busy
  <2> QED
    BY <2>1, <2>2
<1>4. CASE EndOpFinish(p)
  <2>1. \A u \in Thread : pc'[u] = IF u = p THEN "idle"
                                   ELSE IF pc[u] = "asleep" THEN "woken" ELSE pc[u]
    BY <1>4, <1>l, WakeMoves DEF EndOpFinish
  <2>2. pc[Boot] # "asleep" /\ pc[p] = "finish"
    BY <1>4 DEF Control, EndOpFinish
  <2> QED
    BY <1>1, <2>1, <2>2, SameData, Zenon DEF Busy
<1>5. CASE \E b \in Block : LogWritePanics(p, b)
  <2>1. pc' = pc
    BY <1>5 DEF LogWritePanics
  <2> QED
    BY <1>1, <2>1, SameData, Zenon
<1> QED
  BY <1>2, <1>3, <1>4, <1>5

\* log_write: the block is pinned and in the log.
LEMMA WriteData ==
  ASSUME LogType, Control, Data, NEW p \in Proc, NEW b \in Block, NEW x \in Val, LogWrite(p, b, x)
  PROVE  Data'
<1> USE Sizes
<1>t. lh \in Seq(Block) /\ cache \in [Block -> Val] /\ Header /\ Pins
  BY DEF LogType, Data
<1>0. /\ pc[p] = "op" /\ UNCHANGED <<disk, logblk, hdr, pc, tail>>
      /\ cache' = [cache EXCEPT ![b] = x] /\ pinned' = pinned \cup {b}
      /\ lh' = IF b \in Range(lh) THEN lh ELSE Append(lh, b)
  BY Zenon DEF LogWrite, MayWrite, media
<1>1. pc[Boot] = "done"
  BY <1>0 DEF Control
<1>2. hdr = <<>>
  BY <1>0, <1>t, NoHeader
<1>3. \A t \in Thread : pc[t] \notin Busy
  BY <1>0, <1>1 DEF Control, CommitAlone, InCommit, Busy
<1>4. Header'
  BY <1>0, <1>2, <1>3 DEF Header, Busy
<1>5. Pins'
  <2>1. Range(lh') = Range(lh) \cup {b}
    BY <1>0, <1>t, AppendBlock
  <2>2. \A c \in Block \ pinned' : cache'[c] = disk'[c]
    BY <1>0, <1>t DEF Pins
  <2> QED
    BY <1>0, <1>1, <1>t, <2>1, <2>2 DEF Pins
<1> QED
  BY <1>0, <1>3, <1>4, <1>5 DEF Data, Busy, Commits, Installs

\* write_log: one more block is in the log on disk.
LEMMA WriteLogData ==
  ASSUME LogType, Control, Space, Data, NEW p \in Thread, WriteLog(p)
  PROVE  Data'
<1> USE Sizes
<1>0. /\ pc[p] = "write_log" /\ tail[p] \in 1..Len(lh)
      /\ \/ tail[p] = Len(lh) /\ Moves(p, "write_head")
         \/ tail[p] < Len(lh) /\ Moves(p, "write_log") /\ tail'[p] = tail[p] + 1
  BY TurnMoves, Zenon DEF WriteLog, Labels, InCommit
<1>1. UNCHANGED <<disk, hdr, cache, pinned, lh>> /\ logblk' = [logblk EXCEPT ![tail[p]] = cache[lh[tail[p]]]]
  BY DEF WriteLog, shared
<1>2. p \in Proc
  BY <1>0 DEF Control
<1>t. /\ Header /\ Pins /\ Commits(p)
      /\ logblk \in [1..(LogSize - 1) -> Val] /\ Len(lh) \in Nat /\ Len(lh) <= LogSize - 1
  BY <1>2 DEF Data, LogType, Space
<1>3. pc[Boot] = "done"
  BY <1>0, <1>2 DEF Control
<1>4. hdr = <<>>
  BY <1>0, <1>2, <1>t, NoHeader
<1>5. /\ \A u \in Thread : pc'[u] \in Busy => u = p
      /\ pc'[p] \in {"write_head", "write_log"} /\ pc'[Boot] = "done"
  <2>1. \A u \in Thread \ {p} : pc[u] \notin InCommit
    BY <1>0, Alone DEF InCommit
  <2>2. \A u \in Thread : pc[u] # "read_head"
    BY <1>3 DEF Control
  <2> QED
    BY <1>0, <1>2, <1>3, <2>1, <2>2 DEF Moves, Busy, InCommit
<1>6. tail[p] \in 1..(LogSize - 1)
  BY <1>0, <1>t
<1>7. \A i \in 1..tail[p] : logblk'[i] = cache'[lh'[i]]
  <2> TAKE i \in 1..tail[p]
  <2>1. CASE i = tail[p]
    BY <1>1, <1>6, <1>t, <2>1
  <2>2. CASE i # tail[p]
    <3>1. Copied(cache, tail[p] - 1)
      BY <1>0, <1>t DEF Commits
    <3>2. i \in 1..(tail[p] - 1) /\ logblk'[i] = logblk[i]
      BY <1>1, <1>6, <1>t, <2>2
    <3> QED
      BY <1>1, <3>1, <3>2 DEF Copied
  <2> QED
    BY <2>1, <2>2
<1>8. Commits(p)'
  <2>1. CASE tail[p] = Len(lh) /\ Moves(p, "write_head")
    <3>1. Copied(cache, Len(lh))'
      BY <1>1, <1>7, <2>1 DEF Copied
    <3> QED
      BY <2>1, <3>1 DEF Commits, Moves
  <2>2. CASE Moves(p, "write_log") /\ tail'[p] = tail[p] + 1
    <3>1. tail'[p] - 1 = tail[p]
      BY <1>6, <2>2
    <3>2. Copied(cache, tail[p] - 1)'
      BY <1>7, <3>1 DEF Copied
    <3> QED
      BY <2>2, <3>2 DEF Commits, Moves
  <2> QED
    BY <1>0, <2>1, <2>2
<1>9. Installs(p)'
  BY <1>5 DEF Installs
<1>10. Header' /\ Pins'
  BY <1>1, <1>4, <1>5, <1>t DEF Header, Pins, Busy
<1> QED
  BY <1>5, <1>8, <1>9, <1>10 DEF Data, Busy, Commits, Installs

\* write_head: the commit point.
LEMMA WriteHeadData ==
  ASSUME LogType, Control, Data, NEW p \in Thread, WriteHead(p)
  PROVE  Data'
<1> USE Sizes
<1>0. pc[p] = "write_head" /\ Moves(p, "install") /\ tail'[p] = 1
  BY StepMoves DEF WriteHead, Labels, InCommit
<1>1. UNCHANGED <<disk, logblk, cache, pinned, lh>> /\ hdr' = lh
  BY DEF WriteHead, shared
<1>2. p \in Proc
  BY <1>0 DEF Control
<1>t. Pins /\ Commits(p) /\ lh \in Seq(Block)
  BY <1>2, Zenon DEF Data, LogType
<1>3. pc[Boot] = "done" /\ pc'[Boot] = "done"
  BY <1>0, <1>2 DEF Control, Moves
<1>4. (\A u \in Thread : pc'[u] \in Busy => u = p) /\ pc'[p] = "install"
  <2>1. \A u \in Thread \ {p} : pc[u] \notin InCommit
    BY <1>0, Alone DEF InCommit
  <2>2. \A u \in Thread : pc[u] # "read_head"
    BY <1>3 DEF Control
  <2> QED
    BY <1>0, <2>1, <2>2 DEF Moves, Busy, InCommit
<1>5. Commits(p)'
  <2>1. Copied(cache, Len(lh))
    BY <1>0, <1>t DEF Commits
  <2>2. Copied(cache, Len(lh))'
    BY <1>1, <2>1 DEF Copied
  <2>3. \A b \in pinned' : \E i \in tail'[p]..Len(lh') : b = lh'[i]
    BY <1>0, <1>1, <1>t, InLog DEF Pins
  <2> QED
    BY <1>4, <2>2, <2>3 DEF Commits
<1>6. Installs(p)'
  BY <1>0, <1>4 DEF Installs, Copied
<1>7. Header' /\ Pins'
  BY <1>1, <1>3, <1>4, <1>t DEF Header, Pins
<1> QED
  BY <1>4, <1>5, <1>6, <1>7 DEF Data, Busy, Commits, Installs

\* install_trans: one more home block has its contents, and loses its pin.
LEMMA InstallData ==
  ASSUME LogType, Control, Space, Data, NEW t \in Thread, Install(t)
  PROVE  Data'
<1> USE Sizes
<1>0. /\ pc[t] = "install" /\ tail[t] \in 1..Len(lh)
      /\ \/ tail[t] = Len(lh) /\ Moves(t, "erase")
         \/ tail[t] < Len(lh) /\ Moves(t, "install") /\ tail'[t] = tail[t] + 1
  BY TurnMoves, Zenon DEF Install, Labels, InCommit
<1> DEFINE b == lh[tail[t]]
           x == logblk[tail[t]]
<1>1. /\ disk' = [disk EXCEPT ![b] = x] /\ cache' = [cache EXCEPT ![b] = x]
      /\ pinned' = IF t = Boot THEN pinned ELSE pinned \ {b}
      /\ UNCHANGED <<logblk, hdr, lh>>
  BY Zenon DEF Install, shared
<1>t. /\ Header /\ Pins /\ Installs(t) /\ lh \in Seq(Block) /\ Len(lh) \in Nat
      /\ disk \in [Block -> Val] /\ cache \in [Block -> Val]
  BY DEF Data, LogType
<1>2. hdr = lh
  BY <1>0, <1>t DEF Header
<1>b. \A i \in 1..Len(lh) : lh[i] \in Block /\ (i # tail[t] => lh[i] # b)
  BY <1>0, <1>t DEF Space, Distinct
<1> HIDE DEF b, x
<1>4. (\A u \in Thread : pc'[u] \in Busy => u = t) /\ pc'[t] \in {"install", "erase"}
  <2>1. \A u \in Thread \ {t} : pc[u] \notin InCommit
    BY <1>0, Alone, Zenon DEF InCommit
  <2>2. \A u \in Thread \ {t} : pc[u] # "read_head"
    BY <1>0, Alone, Zenon DEF InCommit, Control
  <2> QED
    BY <1>0, <2>1, <2>2 DEF Moves, Busy, InCommit
<1>5. Header'
  BY <1>1, <1>2, <1>4 DEF Header
<1>6. Pins'
  <2>1. \A c \in Block \ pinned' : cache'[c] = disk'[c]
    BY <1>1, <1>t DEF Pins
  <2>2. pinned' \subseteq Range(lh')
    BY <1>1, <1>t DEF Pins
  <2>3. pc'[Boot] # "done" => pinned' = {}
    BY <1>0, <1>1, <1>t DEF Pins, Moves
  <2> QED
    BY <2>1, <2>2, <2>3 DEF Pins
<1>9. \A i \in 1..tail[t] : logblk'[i] = disk'[lh'[i]]
  <2> TAKE i \in 1..tail[t]
  <2>0. lh[i] \in Block /\ lh[tail[t]] = b /\ logblk[tail[t]] = x
    BY <1>0, <1>b, <1>t DEF b, x
  <2>1. CASE i = tail[t]
    BY <1>1, <1>t, <2>0, <2>1
  <2>2. CASE i # tail[t]
    <3>1. Copied(disk, tail[t] - 1)
      BY <1>0, <1>t DEF Installs
    <3>2. i \in 1..(tail[t] - 1) /\ lh[i] # b
      BY <1>0, <1>b, <1>t, <2>2
    <3>3. disk'[lh[i]] = disk[lh[i]]
      BY <1>1, <1>t, <2>0, <3>2
    <3> QED
      BY <1>1, <3>1, <3>2, <3>3 DEF Copied
  <2> QED
    BY <2>1, <2>2
<1>10. Installs(t)'
  <2>1. /\ pc'[t] = "install" => Copied(disk, tail[t] - 1)'
        /\ pc'[t] = "erase" => Copied(disk, Len(lh))'
    BY <1>0, <1>1, <1>9, <1>t DEF Copied, Moves
  <2> QED
    BY <2>1 DEF Installs
<1>11. ASSUME t \in Proc
       PROVE  Commits(t)'
  <2>0. Commits(t)
    BY <1>11 DEF Data
  <2>1. Copied(cache, Len(lh)) /\ pinned' = pinned \ {b}
    BY <1>0, <1>1, <1>11, <2>0 DEF Commits
  <2>2. cache' = cache
    <3>1. cache[b] = x
      BY <1>0, <2>1 DEF Copied, b, x
    <3> QED
      BY <1>1, <1>t, <3>1
  <2>3. Copied(cache, Len(lh))'
    BY <1>1, <2>1, <2>2, Zenon DEF Copied
  <2>4. \A c \in pinned' : \E i \in (tail[t] + 1)..Len(lh) : c = lh[i]
    <3> TAKE c \in pinned'
    <3>1. PICK i \in tail[t]..Len(lh) : c = lh[i]
      BY <1>0, <2>0, <2>1 DEF Commits
    <3>2. i # tail[t]
      BY <2>1, <3>1 DEF b
    <3> QED
      BY <1>0, <1>t, <3>1, <3>2
  <2>5. CASE tail[t] = Len(lh) /\ pc'[t] = "erase"
    <3>1. pinned' = {}
      BY <1>t, <2>4, <2>5
    <3> QED
      BY <2>5, <3>1 DEF Commits
  <2>6. CASE tail'[t] = tail[t] + 1 /\ pc'[t] = "install"
    BY <1>1, <2>3, <2>4, <2>6 DEF Commits
  <2> QED
    BY <1>0, <2>5, <2>6 DEF Moves
<1> QED
  BY <1>4, <1>5, <1>6, <1>10, <1>11 DEF Data, Busy, Commits, Installs

\* The log is empty again.
LEMMA EraseData ==
  ASSUME LogType, Control, Data, NEW t \in Thread, Erase(t)
  PROVE  Data'
<1> USE Sizes
<1>0. pc[t] = "erase" /\ Moves(t, IF t = Boot THEN "done" ELSE "finish")
  BY StepMoves, Zenon DEF Erase, Labels, InCommit
<1>1. UNCHANGED <<disk, logblk, cache, pinned>> /\ hdr' = <<>> /\ lh' = <<>>
  BY DEF Erase
<1>2. \A u \in Thread : pc'[u] \notin Busy
  <2>1. \A u \in Thread \ {t} : pc[u] \notin InCommit /\ pc[u] # "read_head"
    BY <1>0, Alone DEF InCommit, Control
  <2> QED
    BY <1>0, <2>1, Zenon DEF Moves, Busy, InCommit
<1>t. Pins /\ \A p \in Proc : Commits(p)
  BY DEF Data
<1>3. pinned = {}
  <2>1. CASE t \in Proc
    BY <1>0, <1>t, <2>1 DEF Commits
  <2>2. CASE t = Boot
    BY <1>0, <1>t, <2>2 DEF Pins
  <2> QED
    BY <2>1, <2>2 DEF Thread
<1>4. Header' /\ Pins'
  BY <1>1, <1>2, <1>3, <1>t DEF Header, Pins, Busy
<1> QED
  BY <1>2, <1>4 DEF Data, Busy, Commits, Installs

\* Recovery starts.
LEMMA ReadHeadData ==
  ASSUME LogType, Control, Data, ReadHead
  PROVE  Data'
<1> USE Sizes
<1>0. pc[Boot] = "read_head" /\ Moves(Boot, IF hdr = <<>> THEN "erase" ELSE "install") /\ tail'[Boot] = 1
  BY StepMoves DEF ReadHead, Labels, InCommit
<1>1. UNCHANGED <<disk, logblk, hdr, cache, pinned>> /\ lh' = hdr
  BY DEF ReadHead, media
<1>t. Pins
  BY DEF Data
<1>2. \A p \in Proc : pc'[p] = "idle"
  BY <1>0, Zenon DEF Control, Moves
<1>3. pinned = {}
  BY <1>0, <1>t DEF Pins
<1>4. pc'[Boot] \in {"install", "erase"}
  BY <1>0 DEF Moves
<1>5. Installs(Boot)'
  BY <1>0, <1>1, <1>4, EmptyLog DEF Copied, Moves, Installs
<1>6. Header' /\ Pins'
  BY <1>1, <1>3, <1>4, <1>t DEF Header, Pins
<1> QED
  BY <1>2, <1>5, <1>6 DEF Data, Commits, Installs, Thread

\* A crash: the header on disk says whether there is something to recover.
LEMMA CrashData ==
  ASSUME LogType, Crash
  PROVE  Data'
<1> USE Sizes
<1>1. /\ UNCHANGED <<disk, logblk, hdr>> /\ cache' = disk /\ pinned' = {}
      /\ \A u \in Thread : pc'[u] = IF u = Boot THEN "read_head" ELSE "idle"
  BY DEF Crash, media
<1> QED
  BY <1>1 DEF Data, Header, Pins, Commits, Installs

\* bget recycles a buffer: the disk has the same contents.
LEMMA RecycleData ==
  ASSUME LogType, Data, NEW b \in Block, Recycle(b)
  PROVE  cache' = cache /\ Data'
<1>1. cache' = cache
  BY DEF Recycle, Data, Pins, LogType
<1>2. UNCHANGED <<media, cache, pinned, lh, pc, tail>>
  BY <1>1 DEF Recycle, shared
<1> QED
  BY <1>2, SameData

\* Every step keeps Data.
LEMMA DataStep ==
  ASSUME LogType, Control, Space, Data, [Next]_vars
  PROVE  Data'
<1>1. CASE UNCHANGED vars
  <2>1. UNCHANGED <<media, cache, pinned, lh, pc, tail>>
    BY <1>1 DEF vars, media
  <2> QED
    BY <2>1, SameData
<1>2. CASE Next
  BY <1>2, CallData, WriteData, WriteLogData, WriteHeadData, InstallData, EraseData, ReadHeadData,
     CrashData, RecycleData DEF Next, Commit
<1> QED
  BY <1>1, <1>2

-----------------------------------------------------------------------------
(* Refinement.                                                             *)

\* What a boot finds on home blocks d under a log l that lists the blocks h.
Found(h, l, d) ==
  [b \in Block |-> IF b \in Range(h) THEN l[CHOOSE i \in DOMAIN h : h[i] = b] ELSE d[b]]

\* The contents after a boot, block by block.
LEMMA FoundFacts ==
  ASSUME NEW h \in Seq(Block), Distinct(h), NEW l, NEW d, NEW b \in Block
  PROVE  /\ \A i \in 1..Len(h) : h[i] = b => Found(h, l, d)[b] = l[i]
         /\ b \notin Range(h) => Found(h, l, d)[b] = d[b]
<1>1. ASSUME NEW i \in 1..Len(h), h[i] = b
      PROVE  Found(h, l, d)[b] = l[i]
  <2>1. b \in Range(h)
    BY <1>1, InLog
  <2>2. DOMAIN h = 1..Len(h)
    OBVIOUS
  <2>3. (CHOOSE j \in DOMAIN h : h[j] = b) = i
    BY <1>1, <2>2 DEF Distinct
  <2> QED
    BY <2>1, <2>3, Zenon DEF Found
<1> QED
  BY <1>1, Zenon DEF Found

\* What is on disk does not change, and neither does what a boot finds there.
LEMMA SameStable == UNCHANGED media => Stable' = Stable
BY DEF media, Stable

\* An installed log says what the home blocks say.
LEMMA InstalledStable ==
  ASSUME LogType, Space, hdr = lh, Copied(disk, Len(lh))
  PROVE  Stable = disk
<1>1. ASSUME NEW b \in Block PROVE Stable[b] = disk[b]
  <2>0. /\ \A i \in 1..Len(hdr) : hdr[i] = b => Stable[b] = logblk[i]
        /\ b \notin Range(hdr) => Stable[b] = disk[b]
    <3>1. Stable = Found(hdr, logblk, disk)
      BY DEF Stable, Found
    <3>2. hdr \in Seq(Block) /\ Distinct(hdr)
      BY DEF LogType, Space
    <3> QED
      BY <3>1, <3>2, FoundFacts
  <2>1. CASE b \in Range(hdr)
    <3>1. PICK i \in 1..Len(hdr) : hdr[i] = b
      BY <2>1, InLog DEF LogType
    <3> QED
      BY <2>0, <3>1 DEF Copied
  <2> QED
    BY <2>0, <2>1, Zenon
<1> QED
  BY <1>1 DEF Stable, LogType

\* The commit point makes what calls see stable.
LEMMA CommitStable ==
  ASSUME LogType, LogType', Space', Data, NEW p \in Proc, pc[p] = "write_head", WriteHead(p)
  PROVE  Stable' = cache
<1>0. UNCHANGED <<disk, logblk, cache, lh>> /\ hdr' = lh
  BY Zenon DEF WriteHead, shared
<1>t. Pins /\ Copied(cache, Len(lh)) /\ lh \in Seq(Block) /\ cache \in [Block -> Val]
  BY DEF Data, Commits, LogType
<1>1. ASSUME NEW b \in Block PROVE Stable'[b] = cache[b]
  <2>0. /\ \A i \in 1..Len(lh) : lh[i] = b => Stable'[b] = logblk[i]
        /\ b \notin Range(lh) => Stable'[b] = disk[b]
    <3>1. Stable' = Found(lh, logblk, disk)
      BY <1>0 DEF Stable, Found
    <3>2. lh \in Seq(Block) /\ Distinct(lh)
      BY <1>0 DEF LogType, Space
    <3> QED
      BY <3>1, <3>2, FoundFacts
  <2>1. CASE b \in Range(lh)
    <3>1. PICK i \in 1..Len(lh) : lh[i] = b
      BY <1>t, <2>1, InLog
    <3> QED
      BY <1>t, <2>0, <3>1 DEF Copied
  <2>2. CASE b \notin Range(lh)
    BY <1>t, <2>0, <2>2 DEF Pins
  <2> QED
    BY <2>1, <2>2
<1> QED
  BY <1>1, <1>t, Zenon DEF Stable

\* Every step of the log is a step of the atomic disk, or none.
LEMMA RefinementStep ==
  ASSUME LogInv, LogInv', [Next]_vars
  PROVE  [Atomic!Next]_<<Stable, Current, Active>>
<1> USE Sizes
<1>i. LogType /\ Control /\ Space /\ Data /\ LogType' /\ Control' /\ Space' /\ Data'
  BY DEF LogInv
<1>d. Header /\ Pins /\ (\A p \in Proc : Commits(p)) /\ \A t \in Thread : Installs(t)
  BY <1>i DEF Data
<1>l. {"idle", "asleep", "woken", "op", "read_head", "done", "write_log", "write_head",
       "install", "erase", "finish"} \subseteq Labels
  BY DEF Labels, InCommit
<1>s. ASSUME UNCHANGED <<media, cache>>, pc'[Boot] = pc[Boot]
      PROVE  Stable' = Stable /\ Current' = Current
  BY <1>s, SameStable DEF Current
<1>1. ASSUME NEW p \in Proc, BeginOpSleep(p) \/ Kill(p)
      PROVE  [Atomic!Next]_<<Stable, Current, Active>>
  <2>1. PICK to \in {"asleep", "woken"} : Moves(p, to)
    BY <1>1, <1>i, <1>l, PcMoves DEF BeginOpSleep, Kill
  <2>2. pc[p] # "op" /\ UNCHANGED <<media, cache>>
    BY <1>1 DEF BeginOpSleep, Kill, CanBegin
  <2>3. Active' = Active /\ pc'[Boot] = pc[Boot]
    BY <2>1, <2>2 DEF Active, Moves
  <2> QED
    BY <1>s, <2>2, <2>3
<1>2. ASSUME NEW p \in Proc, BeginOp(p)
      PROVE  [Atomic!Next]_<<Stable, Current, Active>>
  <2>1. Moves(p, "op") /\ pc[p] # "op" /\ UNCHANGED <<media, cache>>
    BY <1>2, <1>i, <1>l, PcMoves, Zenon DEF BeginOp, CanBegin
  <2>2. Active' = Active \cup {p} /\ p \notin Active /\ pc'[Boot] = pc[Boot]
    BY <2>1, Zenon DEF Active, Moves
  <2>3. Atomic!Begin(p)
    BY <1>s, <2>1, <2>2 DEF Atomic!Begin
  <2> QED
    BY <2>3 DEF Atomic!Next
<1>3. ASSUME NEW p \in Proc, EndOp(p)
      PROVE  [Atomic!Next]_<<Stable, Current, Active>>
  <2>0. pc[p] = "op" /\ UNCHANGED <<media, cache>> /\ pc[Boot] # "asleep"
    BY <1>3, <1>i, Zenon DEF EndOp, Control
  <2>1. (\A q \in Proc : pc'[q] = "op" <=> (pc[q] = "op" /\ q # p)) /\ pc'[Boot] = pc[Boot]
    <3>1. CASE outstanding = 1
      <4>1. PICK to \in {"finish", "write_log"} : Moves(p, to)
        BY <1>3, <1>i, <1>l, <3>1, PcMoves, Zenon DEF EndOp
      <4> QED
        BY <4>1 DEF Moves
    <3>2. CASE outstanding # 1
      BY <1>3, <1>i, <1>l, <2>0, <3>2, WakeMoves DEF EndOp
    <3> QED
      BY <3>1, <3>2
  <2>2. Active' = Active \ {p} /\ p \in Active
    BY <2>0, <2>1 DEF Active
  <2>3. Stable' = Stable /\ Current' = Current
    BY <1>s, <2>0, <2>1
  <2>4. Atomic!End(p)
    BY <2>2, <2>3 DEF Atomic!End
  <2> QED
    BY <2>4, Zenon DEF Atomic!Next
<1>4. ASSUME NEW p \in Proc, EndOpFinish(p)
      PROVE  [Atomic!Next]_<<Stable, Current, Active>>
  <2>1. pc[p] = "finish" /\ UNCHANGED <<media, cache>> /\ pc[Boot] # "asleep"
    BY <1>4, <1>i DEF EndOpFinish, Control
  <2>2. Active' = Active /\ pc'[Boot] = pc[Boot]
    BY <1>4, <1>i, <1>l, <2>1, WakeMoves DEF EndOpFinish, Active
  <2> QED
    BY <1>s, <2>1, <2>2, Zenon
<1>5. ASSUME NEW p \in Proc, NEW b \in Block, NEW x \in Val, LogWrite(p, b, x)
      PROVE  [Atomic!Next]_<<Stable, Current, Active>>
  <2>1. pc[p] = "op" /\ UNCHANGED <<media, pc>> /\ cache' = [cache EXCEPT ![b] = x]
    BY <1>5, Zenon DEF LogWrite, MayWrite
  <2>2. pc[Boot] = "done"
    BY <1>i, <2>1 DEF Control
  <2>3. Atomic!Write(p, b, x)
    BY <2>1, <2>2, SameStable DEF Atomic!Write, Current, Active
  <2> QED
    BY <2>3 DEF Atomic!Next
<1>6. ASSUME NEW p \in Thread, WriteLog(p)
      PROVE  [Atomic!Next]_<<Stable, Current, Active>>
  <2>1. pc[p] = "write_log" /\ UNCHANGED <<disk, hdr, cache>> /\ \E to \in Labels \ {"op"} : Moves(p, to)
    BY <1>6, <1>i, <1>l, TurnMoves, Zenon DEF WriteLog
  <2>2. p \in Proc
    BY <1>i, <2>1, Zenon DEF Control
  <2>3. hdr = <<>>
    BY <1>i, <1>d, <2>1, <2>2, NoHeader
  <2>4. Stable' = Stable
    BY <2>1, <2>3, EmptyLog, Zenon DEF Stable
  <2>5. Active' = Active /\ pc'[Boot] = pc[Boot]
    BY <2>1, <2>2 DEF Active, Moves
  <2> QED
    BY <2>1, <2>4, <2>5 DEF Current
<1>7. ASSUME NEW p \in Thread, WriteHead(p)
      PROVE  [Atomic!Next]_<<Stable, Current, Active>>
  <2>1. pc[p] = "write_head" /\ cache' = cache /\ Moves(p, "install")
    BY <1>7, <1>i, <1>l, StepMoves, Zenon DEF WriteHead
  <2>2. p \in Proc
    BY <1>i, <2>1, Zenon DEF Control
  <2>3. pc[Boot] = "done" /\ pc'[Boot] = "done"
    BY <1>i, <2>1, <2>2 DEF Control, Moves
  <2>4. Active = {}
    BY <1>i, <2>1, Alone DEF Active, InCommit
  <2>5. Active' = {}
    BY <2>1, <2>4 DEF Active, Moves
  <2>6. Stable' = cache
    BY <1>7, <1>i, <2>1, <2>2, CommitStable
  <2>7. Atomic!Commit
    BY <2>1, <2>3, <2>4, <2>5, <2>6, Zenon DEF Atomic!Commit, Current
  <2> QED
    BY <2>7 DEF Atomic!Next
<1>8. ASSUME NEW t \in Thread, Install(t)
      PROVE  [Atomic!Next]_<<Stable, Current, Active>>
  <2>1. /\ pc[t] = "install" /\ tail[t] \in 1..Len(lh)
        /\ \E to \in Labels \ {"op", "done"} : Moves(t, to)
    BY <1>8, <1>i, <1>l, TurnMoves, Zenon DEF Install
  <2>2. /\ disk' = [disk EXCEPT ![lh[tail[t]]] = logblk[tail[t]]]
        /\ cache' = [cache EXCEPT ![lh[tail[t]]] = logblk[tail[t]]]
        /\ UNCHANGED <<logblk, hdr>>
    BY <1>8, Zenon DEF Install
  <2>3. hdr = lh /\ lh \in Seq(Block)
    BY <1>i, <1>d, <2>1, Zenon DEF Header, LogType
  <2>4. \A b \in Block : b \notin Range(hdr) => disk'[b] = disk[b]
    BY <1>i, <2>1, <2>2, <2>3, InLog, Zenon DEF LogType
  <2>5. Stable' = Stable
    <3>1. \A b \in Block : IF b \in Range(hdr) THEN logblk' = logblk ELSE disk'[b] = disk[b]
      BY <2>2, <2>4
    <3> QED
      BY ONLY <2>2, <3>1 DEF Stable
  <2>6. Active' = Active
    BY <2>1 DEF Active, Moves
  <2>7. CASE t \in Proc
    <3>1. Copied(cache, Len(lh))
      BY <1>d, <2>1, <2>7, Zenon DEF Commits
    <3>2. cache' = cache
      BY <1>i, <2>1, <2>2, <3>1, SMTT(30) DEF Copied, LogType
    <3> QED
      BY <2>1, <2>5, <2>6, <2>7, <3>2, SMTT(30) DEF Current, Moves
  <2>8. CASE t = Boot
    BY <2>1, <2>5, <2>6, <2>8, Zenon DEF Current, Moves
  <2> QED
    BY <2>7, <2>8 DEF Thread
<1>9. ASSUME NEW t \in Thread, Erase(t)
      PROVE  [Atomic!Next]_<<Stable, Current, Active>>
  <2>1. pc[t] = "erase" /\ Moves(t, IF t = Boot THEN "done" ELSE "finish")
    BY <1>9, <1>i, <1>l, StepMoves DEF Erase
  <2>2. UNCHANGED <<disk, cache>> /\ hdr' = <<>>
    BY <1>9 DEF Erase
  <2>3. Stable = disk
    <3>1. hdr = lh /\ Copied(disk, Len(lh))
      BY <1>d, <2>1 DEF Header, Installs
    <3> QED
      BY <1>i, <3>1, InstalledStable, Zenon
  <2>4. Stable' = disk
    BY <1>i, <2>2, EmptyLog DEF Stable, LogType
  <2>5. Active' = Active
    BY <2>1, Zenon DEF Active, Moves
  <2>6. CASE t \in Proc
    BY <2>1, <2>2, <2>3, <2>4, <2>5, <2>6 DEF Current, Moves
  <2>7. CASE t = Boot
    <3>1. pinned = {}
      BY <1>d, <2>1, <2>7, Zenon DEF Pins
    <3>2. cache = disk
      BY <1>i, <1>d, <3>1 DEF Pins, LogType
    <3> QED
      BY <2>1, <2>2, <2>3, <2>4, <2>5, <2>7, <3>2, Zenon DEF Current, Moves
  <2> QED
    BY <2>6, <2>7 DEF Thread
<1>10. CASE ReadHead
  <2>1. /\ pc[Boot] = "read_head" /\ UNCHANGED <<media, cache>>
        /\ \E to \in Labels \ {"op", "done"} : Moves(Boot, to)
    BY <1>10, <1>i, <1>l, StepMoves DEF ReadHead
  <2>2. Active' = Active /\ pc'[Boot] # "done"
    BY <2>1 DEF Active, Moves
  <2> QED
    BY <2>1, <2>2, SameStable, Zenon DEF Current
<1>11. CASE Crash
  <2>1. /\ UNCHANGED media
        /\ \A u \in Thread : pc'[u] = IF u = Boot THEN "read_head" ELSE "idle"
    BY <1>11 DEF Crash
  <2>2. Active' = {} /\ pc'[Boot] = "read_head"
    BY <2>1 DEF Active
  <2>3. Atomic!Crash
    BY <2>1, <2>2, SameStable DEF Atomic!Crash, Current
  <2> QED
    BY <2>3 DEF Atomic!Next
<1>12. CASE \/ \E b \in Block : Recycle(b)
            \/ \E p \in Proc, b \in Block : LogWritePanics(p, b)
            \/ UNCHANGED vars
  <2>1. UNCHANGED <<media, cache, pc>>
    BY <1>12, <1>i, RecycleData DEF Recycle, LogWritePanics, vars, media
  <2> QED
    BY <1>s, <2>1, Zenon DEF Active
<1> QED
  BY <1>1, <1>2, <1>3, <1>4, <1>5, <1>6, <1>7, <1>8, <1>9, <1>10, <1>11, <1>12 DEF Next, Commit
=============================================================================
