------------------------------ MODULE BlockIO -------------------------------
(***************************************************************************)
(* The buffer cache (bio.c), its sleep locks (sleeplock.c) and the driver  *)
(* of the virtio disk (virtio_disk.c), used by processes that bread a      *)
(* block, change it, bwrite or pin it, and brelse it.                      *)
(*                                                                         *)
(* A step is a critical section of bcache.lock, of a sleep lock's spinlock *)
(* or of disk.vdisk_lock.  sleep() releases the spinlock and sleeps at     *)
(* once (ProcLife shows it), so that a process goes to sleep in the step   *)
(* that finds it must; it wakes where it slept and tests again.            *)
(*                                                                         *)
(* The rings hold descriptor numbers at idx % NUM.  The device reads the   *)
(* available ring and completes its requests in any order, so that it is a *)
(* set here; the used ring is a sequence, from the driver's index to the   *)
(* device's.                                                               *)
(***************************************************************************)
EXTENDS Integers, Sequences, FiniteSets

CONSTANTS
  Proc, Block, Val,
  Changed,       \* bound: the blocks that processes change, write and pin
  Nobody, NoBlock,
  NBUF,          \* buffers
  Sizes          \* the numbers of descriptors to check

ASSUME BlockIOAssumption ==
  /\ NBUF \in Nat \ {0} /\ IsFiniteSet(Sizes) /\ \A n \in Sizes : n \in Nat /\ n >= 3
  /\ IsFiniteSet(Proc) /\ Val # {} /\ Changed \subseteq Block
  /\ Nobody \notin Proc /\ NoBlock \notin Block

Buf == 1..NBUF

VARIABLES
  NUM,           \* descriptors: a constant of the kernel
  buf,           \* [Buf -> struct buf], the sleep lock as its owner
  lru,           \* the buffers, most recently used first
  free,          \* disk.free: the free descriptors
  req,           \* [Desc -> record]: disk.info and disk.ops of a chain's head
  avail,         \* the heads the device was given and has not completed
  used,          \* the used ring, from disk.used_idx to used->idx
  intr,          \* the device's interrupt is raised
  handler,       \* a hart is in virtio_disk_intr, holding vdisk_lock
  platter,       \* [Block -> Val]: the disk
  pinned,        \* the buffers pinned by bpin
  st,            \* [Proc -> record]: where a process is
  panicked

driver == <<NUM, free, req, avail, used, intr, handler, platter>>
vars == <<NUM, buf, lru, free, req, avail, used, intr, handler, platter, pinned, st, panicked>>

Desc == 0..(NUM - 1)

\* The heads in a ring.
Heads(ring) == {ring[k] : k \in DOMAIN ring}

NoReq == [b |-> 0, write |-> FALSE, sector |-> NoBlock, ok |-> FALSE]
Idle == [pc |-> "idle", b |-> 0, write |-> FALSE, chain |-> {}]

\* binit puts every buffer in front of the ones before it; no buffer holds a block.
Init ==
  /\ NUM \in Sizes
  /\ buf = [i \in Buf |-> [blockno |-> NoBlock, valid |-> FALSE, refcnt |-> 0, lock |-> Nobody,
                           disk |-> FALSE, data |-> CHOOSE v \in Val : TRUE]]
  /\ lru = [i \in Buf |-> NBUF + 1 - i]
  /\ free = Desc /\ req = [d \in Desc |-> NoReq]
  /\ avail = {} /\ used = <<>>
  /\ intr = FALSE /\ handler = FALSE
  /\ platter = [b \in Block |-> CHOOSE v \in Val : TRUE]
  /\ pinned = {}
  /\ st = [p \in Proc |-> Idle]
  /\ panicked = FALSE

At(p, l) == ~panicked /\ st[p].pc = l

Goto(p, l) == st' = [st EXCEPT ![p].pc = l]

\* The processes in S that sleep at `from' wake, at `to'; p goes to l.
Wakeup(p, l, S, from, to) ==
  st' = [q \in Proc |-> IF q = p THEN [st[q] EXCEPT !.pc = l]
                        ELSE IF q \in S /\ st[q].pc = from THEN [st[q] EXCEPT !.pc = to]
                        ELSE st[q]]

-----------------------------------------------------------------------------
(* bget, and acquiresleep                                                  *)

Cached(b) == {i \in Buf : buf[i].blockno = b}

\* A process that was given buffer i, and is on its way to acquiresleep.
Got(i) == [pc |-> "lock", b |-> i, write |-> FALSE, chain |-> {}]

\* The block is cached.
BgetHit(p, b) ==
  /\ At(p, "idle")
  /\ \E i \in Cached(b) :
       /\ buf' = [buf EXCEPT ![i].refcnt = @ + 1]
       /\ st' = [st EXCEPT ![p] = Got(i)]
  /\ UNCHANGED <<lru, driver, pinned, panicked>>

\* The places in the list of the buffers that nobody uses.
Unused == {n \in Buf : buf[lru[n]].refcnt = 0}

\* The least recently used of them.
Oldest == lru[CHOOSE n \in Unused : \A k \in Unused : k <= n]

\* Mutant: b->valid is not reset.
BgetRecycleValid(p, b) ==
  /\ At(p, "idle") /\ Cached(b) = {} /\ Unused # {}
  /\ buf' = [buf EXCEPT ![Oldest].blockno = b, ![Oldest].refcnt = 1]
  /\ st' = [st EXCEPT ![p] = Got(Oldest)]
  /\ UNCHANGED <<lru, driver, pinned, panicked>>

\* It is not: the buffer is used for it.
BgetRecycle(p, b) ==
  /\ At(p, "idle") /\ Cached(b) = {} /\ Unused # {}
  /\ buf' = [buf EXCEPT ![Oldest].blockno = b, ![Oldest].valid = FALSE, ![Oldest].refcnt = 1]
  /\ st' = [st EXCEPT ![p] = Got(Oldest)]
  /\ UNCHANGED <<lru, driver, pinned, panicked>>

BgetPanic(p, b) ==
  /\ At(p, "idle") /\ Cached(b) = {} /\ Unused = {}
  /\ panicked' = TRUE
  /\ UNCHANGED <<buf, lru, driver, pinned, st>>

AcquireSleeps(p) ==
  /\ At(p, "lock") /\ buf[st[p].b].lock # Nobody
  /\ Goto(p, "lock_sleep")
  /\ UNCHANGED <<buf, lru, driver, pinned, panicked>>

\* The lock is taken: bread returns, or reads the block first.
Acquiresleep(p) ==
  /\ At(p, "lock") /\ buf[st[p].b].lock = Nobody
  /\ buf' = [buf EXCEPT ![st[p].b].lock = p]
  /\ Goto(p, IF buf[st[p].b].valid THEN "hold" ELSE "desc")
  /\ UNCHANGED <<lru, driver, pinned, panicked>>

-----------------------------------------------------------------------------
(* What the holder of a buffer does with it.                               *)

MayChange(p) == buf[st[p].b].blockno \in Changed

\* Store to b->data.
Change(p, v) ==
  /\ At(p, "hold") /\ MayChange(p)
  /\ buf' = [buf EXCEPT ![st[p].b].data = v]
  /\ UNCHANGED <<lru, driver, pinned, st, panicked>>

Bwrite(p) ==
  /\ At(p, "hold") /\ MayChange(p)
  /\ st' = [st EXCEPT ![p].pc = "desc", ![p].write = TRUE]
  /\ UNCHANGED <<buf, lru, driver, pinned, panicked>>

Clean(i) == buf[i].data = platter[buf[i].blockno]

\* log_write pins a block once, and install_trans unpins it when it is written.
Bpin(p) ==
  /\ At(p, "hold") /\ MayChange(p) /\ st[p].b \notin pinned
  /\ buf' = [buf EXCEPT ![st[p].b].refcnt = @ + 1]
  /\ pinned' = pinned \cup {st[p].b}
  /\ UNCHANGED <<lru, driver, st, panicked>>

Bunpin(p) ==
  /\ At(p, "hold") /\ st[p].b \in pinned /\ Clean(st[p].b)
  /\ buf' = [buf EXCEPT ![st[p].b].refcnt = @ - 1]
  /\ pinned' = pinned \ {st[p].b}
  /\ UNCHANGED <<lru, driver, st, panicked>>

\* brelse: releasesleep, with its wakeup, then the count under bcache.lock.  A user of the cache
\* releases a block it changed only written or pinned.
Releasesleep(p) ==
  /\ At(p, "hold") /\ (Clean(st[p].b) \/ st[p].b \in pinned)
  /\ buf' = [buf EXCEPT ![st[p].b].lock = Nobody]
  /\ Wakeup(p, "release", {q \in Proc : st[q].b = st[p].b}, "lock_sleep", "lock")
  /\ UNCHANGED <<lru, driver, pinned, panicked>>

\* i in front of the list, the others in the order they were in.
MoveToFront(i) ==
  LET at == CHOOSE n \in Buf : lru[n] = i IN
  [n \in Buf |-> IF n = 1 THEN i ELSE IF n <= at THEN lru[n - 1] ELSE lru[n]]

Brelse(p) ==
  /\ At(p, "release")
  /\ buf' = [buf EXCEPT ![st[p].b].refcnt = @ - 1]
  /\ lru' = IF buf[st[p].b].refcnt = 1 THEN MoveToFront(st[p].b) ELSE lru
  /\ st' = [st EXCEPT ![p] = Idle]
  /\ UNCHANGED <<driver, pinned, panicked>>

-----------------------------------------------------------------------------
(* virtio_disk_rw                                                          *)

\* alloc_desc takes the first free descriptor.
Three == {d \in free : Cardinality({e \in free : e < d}) < 3}

\* The head of the chain.
First == CHOOSE d \in Three : \A e \in Three : d <= e

\* alloc3_desc fails: what it took it frees again, waking who waits for descriptors.
DescSleep(p) ==
  /\ At(p, "desc") /\ ~handler /\ Cardinality(free) < 3
  /\ Wakeup(p, "desc_sleep", IF free = {} THEN {} ELSE Proc, "desc_sleep", "desc")
  /\ UNCHANGED <<buf, lru, driver, pinned, panicked>>

\* The request is formatted and published, and the process waits for it.
Submit(p) ==
  /\ At(p, "desc") /\ ~handler /\ Cardinality(free) >= 3
  /\ free' = free \ Three
  /\ req' = [req EXCEPT ![First] = [b |-> st[p].b, write |-> st[p].write,
                                     sector |-> buf[st[p].b].blockno, ok |-> FALSE]]
  /\ buf' = [buf EXCEPT ![st[p].b].disk = TRUE]
  /\ avail' = avail \cup {First}
  /\ st' = [st EXCEPT ![p].pc = "io_sleep", ![p].chain = Three]
  /\ UNCHANGED <<NUM, lru, used, intr, handler, platter, pinned, panicked>>

\* Woken too early.
IoSleepAgain(p) ==
  /\ At(p, "io") /\ ~handler /\ buf[st[p].b].disk
  /\ Goto(p, "io_sleep")
  /\ UNCHANGED <<buf, lru, driver, pinned, panicked>>

\* Mutant: b->disk is not tested again after sleep.
IoDoneUnchecked(p) ==
  /\ At(p, "io") /\ ~handler
  /\ free' = free \cup st[p].chain
  /\ req' = [d \in Desc |-> IF d \in st[p].chain THEN NoReq ELSE req[d]]
  /\ buf' = [buf EXCEPT ![st[p].b].valid = TRUE]
  /\ st' = [q \in Proc |->
              IF q = p THEN [st[p] EXCEPT !.pc = "hold", !.write = FALSE, !.chain = {}]
              ELSE IF st[q].pc = "desc_sleep" THEN [st[q] EXCEPT !.pc = "desc"] ELSE st[q]]
  /\ UNCHANGED <<NUM, lru, avail, used, intr, handler, platter, pinned, panicked>>

\* free_chain, which wakes those who wait for descriptors; a read makes the buffer valid.
IoDone(p) ==
  /\ At(p, "io") /\ ~handler /\ ~buf[st[p].b].disk
  /\ free' = free \cup st[p].chain
  /\ req' = [d \in Desc |-> IF d \in st[p].chain THEN NoReq ELSE req[d]]
  /\ buf' = [buf EXCEPT ![st[p].b].valid = TRUE]
  /\ st' = [q \in Proc |->
              IF q = p THEN [st[p] EXCEPT !.pc = "hold", !.write = FALSE, !.chain = {}]
              ELSE IF st[q].pc = "desc_sleep" THEN [st[q] EXCEPT !.pc = "desc"] ELSE st[q]]
  /\ UNCHANGED <<NUM, lru, avail, used, intr, handler, platter, pinned, panicked>>

\* kill() makes a sleeping process runnable; the loops around sleep() test again.
Kill(p) ==
  /\ ~panicked
  /\ \E f \in {<<"lock_sleep", "lock">>, <<"desc_sleep", "desc">>, <<"io_sleep", "io">>} :
       st[p].pc = f[1] /\ Goto(p, f[2])
  /\ UNCHANGED <<buf, lru, driver, pinned, panicked>>

-----------------------------------------------------------------------------
(* The device completes the requests in the available ring in any order.   *)

DeviceDone(h, ok) ==
  /\ ~panicked /\ h \in avail
  /\ LET r == req[h] IN
       /\ req' = [req EXCEPT ![h].ok = ok]
       /\ platter' = IF ok /\ r.write THEN [platter EXCEPT ![r.sector] = buf[r.b].data] ELSE platter
       /\ buf' = IF ok /\ ~r.write THEN [buf EXCEPT ![r.b].data = platter[r.sector]] ELSE buf
  /\ avail' = avail \ {h}
  /\ used' = Append(used, h)
  /\ intr' = TRUE
  /\ UNCHANGED <<NUM, lru, free, handler, pinned, st, panicked>>

-----------------------------------------------------------------------------
(* virtio_disk_intr                                                        *)

\* Acknowledge the interrupt; the device may go on completing requests.
IntrEnter ==
  /\ ~panicked /\ intr /\ ~handler
  /\ handler' = TRUE
  /\ intr' = FALSE
  /\ UNCHANGED <<NUM, buf, lru, free, req, avail, used, platter, pinned, st, panicked>>

IntrOne ==
  /\ ~panicked /\ handler /\ used # <<>> /\ req[Head(used)].ok
  /\ LET i == req[Head(used)].b IN
       /\ buf' = [buf EXCEPT ![i].disk = FALSE]
       /\ Wakeup(Nobody, "", {q \in Proc : st[q].b = i}, "io_sleep", "io")
  /\ used' = Tail(used)
  /\ UNCHANGED <<NUM, lru, free, req, avail, intr, handler, platter, pinned, panicked>>

IntrPanic ==
  /\ ~panicked /\ handler /\ used # <<>> /\ ~req[Head(used)].ok
  /\ panicked' = TRUE
  /\ UNCHANGED <<buf, lru, driver, pinned, st>>

\* Mutant: an `if' in the place of the handler's `while'.
IntrExitEarly ==
  /\ ~panicked /\ handler
  /\ handler' = FALSE
  /\ UNCHANGED <<NUM, buf, lru, free, req, avail, used, intr, platter, pinned, st, panicked>>

IntrExit ==
  /\ ~panicked /\ handler /\ used = <<>>
  /\ handler' = FALSE
  /\ UNCHANGED <<NUM, buf, lru, free, req, avail, used, intr, platter, pinned, st, panicked>>

-----------------------------------------------------------------------------
\* What a process does on its own, once it is in the cache.
Kernel(p) ==
  \/ AcquireSleeps(p) \/ Acquiresleep(p) \/ Brelse(p)
  \/ DescSleep(p) \/ Submit(p) \/ IoSleepAgain(p) \/ IoDone(p)

User(p) ==
  \/ \E b \in Block : BgetHit(p, b) \/ BgetRecycle(p, b) \/ BgetPanic(p, b)
  \/ \E v \in Val : Change(p, v)
  \/ Bwrite(p) \/ Bpin(p) \/ Bunpin(p) \/ Releasesleep(p) \/ Kill(p)

Device == \E h \in avail, ok \in BOOLEAN : DeviceDone(h, ok)

Interrupt == IntrEnter \/ IntrOne \/ IntrPanic \/ IntrExit

\* panic() spins for ever.
Halted == panicked /\ UNCHANGED vars

Next == (\E p \in Proc : Kernel(p) \/ User(p)) \/ Device \/ Interrupt \/ Halted

Spec == Init /\ [][Next]_vars

\* The device completes every request, and a raised interrupt is taken and handled.
\* Of the processes nothing is assumed.
LiveSpec ==
  /\ Spec
  /\ \A n \in Sizes : \A h \in 0..(n - 1) : WF_vars(\E ok \in BOOLEAN : DeviceDone(h, ok))
  /\ WF_vars(Interrupt)

-----------------------------------------------------------------------------
\* A block is in one buffer at most, the buffers' "synchronization point for disk blocks used by
\* multiple processes": bget looks and recycles under bcache.lock.
OneBufferPerBlock == \A b \in Block : Cardinality(Cached(b)) <= 1

\* b->refcnt counts the processes between bget and brelse and the pin: a buffer is recycled
\* when no one has it, and is never lost.
RefcntExact ==
  \A i \in Buf : buf[i].refcnt = Cardinality({p \in Proc : st[p].b = i}) + (IF i \in pinned THEN 1 ELSE 0)

\* The descriptors: every one is free or in the chain of one request, and a request's chain is
\* not free while the request is in a ring, at the device, or not yet collected.
DescriptorsConserved ==
  /\ \A d \in Desc \ free : \E p \in Proc : d \in st[p].chain
  /\ \A p, q \in Proc : /\ st[p].chain \cap free = {}
                         /\ p # q => st[p].chain \cap st[q].chain = {}
  /\ \A h \in avail \cup Heads(used) :
       \E p \in Proc : h \in st[p].chain /\ req[h].b = st[p].b /\ buf[st[p].b].disk

\* Nobody sleeps on what has already happened: a process asleep on a buffer's lock finds it
\* taken, one asleep for descriptors fewer than three free, and one asleep for its request has
\* the request at the device, or in the used ring with an interrupt to come.
NoLostWakeup ==
  \A p \in Proc :
    /\ At(p, "lock_sleep") => buf[st[p].b].lock # Nobody
    /\ At(p, "desc_sleep") => Cardinality(free) < 3
    /\ At(p, "io_sleep") =>
         /\ buf[st[p].b].disk
         /\ \E h \in st[p].chain : \/ h \in avail
                                   \/ h \in Heads(used) /\ (intr \/ handler)

\* The discipline of the cache and the disk queue, bio.c, sleeplock.c and virtio_disk.c.
CacheSafe == OneBufferPerBlock /\ RefcntExact /\ DescriptorsConserved /\ NoLostWakeup

\* The disk gives back every buffer it is given (b->disk), unless the kernel panics, although
\* the interrupt is acknowledged before the used ring is read and the device goes on meanwhile.
DiskGivesBack == \A i \in Buf : buf[i].disk ~> (~buf[i].disk \/ panicked)

\* The refinement: a block's content is its valid buffer's data, or else what the disk has; its
\* owner is the process that bread gave it to.
Content ==
  [b \in Block |-> IF \E i \in Cached(b) : buf[i].valid
                   THEN buf[CHOOSE i \in Cached(b) : buf[i].valid].data ELSE platter[b]]

Owns(p, b) ==
  /\ st[p].b # 0 /\ buf[st[p].b].blockno = b
  /\ st[p].pc = "hold" \/ st[p].write

Owner == [b \in Block |-> IF \E p \in Proc : Owns(p, b) THEN CHOOSE p \in Proc : Owns(p, b) ELSE Nobody]

Store == INSTANCE BlockStore WITH content <- Content, owner <- Owner

\* The buffer cache over the virtio disk implements BlockStore: no eviction, reordering of
\* requests, interrupt race or early wakeup shows a process anything but the block's content.
ImplementsBlockStore == Store!Spec
=============================================================================
