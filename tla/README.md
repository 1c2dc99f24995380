# A verification project for the xv6 kernel with copy-on-write fork and PBS, and for the two simulations

The repository holds two systems.  `src/initial-xv6/src` is the xv6-riscv kernel with
three changes: copy-on-write fork, a priority-based scheduler (PBS) with the system call
`set_priority`, and the accounting behind `waitx`.  `src/concurrency` holds two programs
with POSIX threads: a cafe (`1.c`) and an ice cream parlour (`2.c`).  This directory
models the parts of them where the order of steps matters, checks the models with TLC on
small instances and proves the central facts about the page allocator, the spin locks, the
scheduler, the life of processes, the log, and the buffer cache with the disk driver for all
instances with TLAPS.

## The parts of the system and how they interact

| Part | Source | Shared state | Operations | Talks to |
|------|--------|--------------|------------|----------|
| page allocator | `kalloc.c` | `kmem.freelist`, `reference_count[]` | `kinit`, `kalloc`, `kfree`, the increment in `uvmcopy` | everything that owns memory |
| address spaces | `vm.c`, `trap.c`, `exec.c`, `proc.c` | page tables, shared pages | page fault, `copyout`, `uvmcopy`, `uvmalloc`, `uvmunmap`, `exec`, `sbrk` | allocator, processes |
| processes | `proc.c`, `sysproc.c`, `trap.c` | process table, `wait_lock`, `tickslock`, `ticks` | `fork`, `exit`, `wait`, `waitx`, `kill`, `sleep`, `wakeup`, `clockintr` | scheduler, all sleepers |
| scheduler | `proc.c`, `sysfile.c` | `state`, `dp`, `no_scheduled`, ... of every process | the passes of `scheduler()`, `yield`, `set_priority`, `update_time` | processes, timer |
| log | `log.c` | `log.lh`, `outstanding`, `committing`, the disk | `begin_op`, `log_write`, `end_op`, `commit`, recovery | buffer cache, file system calls |
| buffer cache | `bio.c` | buffers, LRU list | `bread`, `brelse`, `bpin` | log, inodes, disk driver |
| inodes, directories, path names | `fs.c`, `sysfile.c` | inode table, inodes and directories on disk | `ialloc`, `iget`, `ilock`, `iput`, `dirlookup`, `dirlink`, `namex`, `link`, `unlink`, `create`, `open`, `chdir` | log, buffer cache |
| file contents | `fs.c`, `file.c` | bitmap, block addresses, file offsets | `balloc`, `bmap`, `itrunc`, `readi`, `writei`, `filewrite` | log, buffer cache |
| files, descriptors, pipes | `file.c`, `sysfile.c`, `pipe.c` | file table, descriptors, rings of pipes | `open`, `dup`, `close`, `pipe`, `read`, `write` | inodes, `sleep`/`wakeup`, processes |
| shell | `user/sh.c`, with `echo.c` and `cat.c` | | `parsecmd`, `runcmd`, `main` | processes, descriptors, pipes |
| disk driver | `virtio_disk.c` | descriptor ring | `virtio_disk_rw`, `virtio_disk_intr` | buffer cache |
| console | `console.c`, `uart.c` | two ring buffers, the UART | `consoleread`, `consolewrite`, `consoleintr`, `uartputc`, `uartstart`, `uartintr` | `sleep`/`wakeup` |
| spin locks | `spinlock.c` | `locked`, `cpu`, per hart `noff` and `intena` | `acquire`, `release`, `push_off`, `pop_off` | everything |
| cafe | `concurrency/1.c` | semaphores of the baristas, `cust_done`, counters | `serve_customer` | |
| parlour | `concurrency/2.c` | semaphores of the machines, toppings, `curr_queue` | `print_machine`, `make_order`, `serve_customer` | |

Not in the table because nothing in them runs concurrently or changes shared state beyond
what the table names: start-up (`main.c`, `start.c`), the dispatch of system calls
(`syscall.c`), the interrupt controller (`plic.c`), formatting and memory functions
(`printf.c`, `string.c`), `mkfs` and the other user programs.

What makes the code hard, part by part, is listed under "hazards" in `PROJECT.json`, each
with its line and the properties that watch it.

## Modules

A step of a model is a critical section of a lock of the code, or one access outside of any
lock; what a function does between two such points belongs to the step next to it.
Interrupts, other CPUs and other threads come between steps.  Names are those of the code.
Operators introduced by the comment "Mutant:" are deliberate bugs; no specification uses
them.

| Module | Models | State | Steps |
|--------|--------|-------|-------|
| `Kalloc` | `kalloc.c` | free list (a sequence), `reference_count`, per CPU the page it is about to link; `refs`, the references the rest of the kernel has (history) | `Freerange` (boot), `KallocPop`, `KallocFail`, `IncRef` (from `uvmcopy`), `KfreeDec` and `KfreePush` (the two critical sections of `kfree`), `Forget` (a reference dropped without `kfree`) |
| `KernelProofs` (of `Kalloc` and `Spinlock`), `SchedulerProofs`, `ProcLifeProofs`, `LogDataProofs`, `LogProofs`, `BlockIODiskProofs`, `BlockIOCacheProofs`, `BlockIOProofs` | | | the theorems and the lemmas they rest on |
| `CowMemory` | `vm.c`, the fault path of `trap.c`, the memory side of `fork`, `exit`, `wait`, `sbrk`, `exec` | pages with counts and contents, two page tables per process (`exec` has both for a while), how many pages the tables themselves take | a process in the kernel has a list of the steps it still has to run, in the order of the C code; each may find memory exhausted |
| `PrivateMemory` | abstract: what fork promises | one array of values per process | store, fork, exec, exit |
| `ProcLife` | `fork`, `exit`, `wait`, `waitx`, `kill`, `sleep`, `wakeup`, `sys_sleep`, `clockintr` | process table, `wait_lock`, `tickslock`, where each process is | one per critical section |
| `Scheduler` | both `scheduler()` variants, `sched`, `yield`, `set_priority`, `update_time` | the fields PBS reads, per CPU the locals of `scheduler()` and its place in the passes | one per look at a process |
| `Log` | `log.c` | home blocks, log blocks and header on disk, the cache, `lh`, `outstanding`, `committing` | `BeginOp`, `LogWrite`, `EndOp`, the writes of a commit one by one, `Crash`, recovery |
| `AtomicDisk` | abstract: what the log promises | the blocks | whole transactions take effect at once or not at all |
| `BlockIO` | `bio.c`, `sleeplock.c`, `virtio_disk.c` | buffers with lock, count and data, LRU list, descriptors, rings, interrupt | `Bget...`, `Acquiresleep`, `Bwrite`, `Bpin`, `Bunpin`, `Releasesleep`, `Brelse`, `Submit`, `IoDone`, the handler entry by entry, the device |
| `BlockStore` | abstract: the interface at the top of `bio.c` | content and owner of each block | acquire, change, release |
| `Inodes` | the inode table, directories and path names of `fs.c`; `link`, `unlink`, `open`, `mkdir`, `mknod`, `chdir`, `close` | `dinode` and `ents`, what the disk has; `itable`; per process its current directory, open file, and the call it is in; `saved`, what a crash leaves | one per inode lock section; what a call still has to put and unlock is its list `todo`, on which `iput` runs in its own steps |
| `FileData` | the bitmap, `bmap`, `itrunc`, `readi`, `writei`; `fileread`, `filewrite` | bitmap, blocks (data, or the addresses in an indirect block), inodes in memory and on disk, offsets | `FileRead`; `filewrite` chunk by chunk and block by block; close and reopen, with and without `O_TRUNC` |
| `FileStore` | abstract: what files promise | one sequence of bytes per file | read, write a part, truncate |
| `Files` | `file.c`, `pipe.c`, the descriptor calls of `sysfile.c`; `fork`, `exit`, `wait`, `kill` as far as descriptors go | file table, descriptors, pipes with wrapping counters, processes with the calls they still make, contents of files, what the console shows | one per call or critical section; `pipeclose` after `fileclose`; a fault is a failing copy, `fork` or `pipe`, or a kill |
| `Shell` | `sh.c`, on top of `Files` | the line | the parser as operators; `runcmd` turns a command into the calls its process makes |
| `Console` | `console.c`, `uart.c` | both rings, the UART (receive and transmit FIFO), the two locks, the interrupt, per thread its place | `uartputc`, `uartstart` with the look at LSR and the write of THR apart, `consoleread` byte by byte, `uartintr` and `consoleintr` key by key |
| `Spinlock` | `spinlock.c`, and what `kerneltrap`, `sched` and `intr_on` do to the interrupt bit | the lock words, per hart `noff`, `intena`, the interrupt bit and its place in `acquire` or `release` | `acquire` and `release` store by store; interrupts, returns, switches |
| `Cafe` | `concurrency/1.c` | clock, semaphores, flags, per thread its locals and place | `serve_customer` from mutex section to mutex section |
| `Parlour` | `concurrency/2.c` | clock, machines, toppings, queue, per thread its locals and place | `print_machine`, `serve_customer`, `make_order` |

The modules `MC...` hold instances.  Some of them put several small systems side by side
(`MCMemory`: `Kalloc` and `CowMemory`; `MCProcesses`: `ProcLife` and three sizes of `Scheduler`;
`MCFileSystem`: `Inodes` and `FileData`; `MCConsole`: `Console` and `Spinlock`;
`MCSimulations`: `Cafe` and `Parlour`).  A behaviour then belongs to one of them, chosen in
the initial state, and the others stay in their initial state: each behaves as it would in a run
of its own.

How they fit together.  `Kalloc` is the allocator by itself, with arbitrary users;
`CowMemory` has the same allocator steps inside the system calls that use it.  `ProcLife`
shows that `sleep` and `wakeup` lose nothing when the lock is held at the test; `Log` and
`BlockIO` rely on it and put a process to sleep in the step that finds it must.  `Log` takes
the buffer cache as one coherent copy of every block that may lose unpinned blocks;
`BlockIO` shows that the cache and the driver below are that, as long as a block that was
changed is released written or pinned, which is what `log_write` does.  `Inodes` takes a
group of calls between two commits as what `Log` makes of it: all of it survives a crash or
none, and a commit happens when the last call of a group ends.  `FileData` is what `Inodes`
leaves out of an inode, its blocks.  `Files` takes the file system as a set of named byte
sequences, which is what `FileData` shows, and `Shell` runs on `Files`.  All of them take the
critical section of a spin lock as one step, which rests on the exclusion that `Spinlock` checks
and `KernelProofs` proves.

## Runs

All are exhaustive.  Times are for two cores.

| Run | Instance | Shows |
|-----|----------|-------|
| `memory` | 2 CPUs, 3 pages, at most 3 references; and 2 processes, 2 pages each, every page below a leaf table of its own, 11 frames | a page is free or about to be linked exactly when its count is not positive, and no page is linked twice; with memory running out at any step of fork, exec, sbrk and copyout, counts cover references and a writable page has one owner |
| `cow_private` | 2 processes, 1 page, 2 values, enough frames | counts are exact, and the kernel implements `PrivateMemory` |
| `cow_copyout_text` | a program with a text page | **violation**: copyout writes into a shared text page |
| `log_atomic` | 3 processes, 2 blocks, room for 2 calls, 1 crash of the running system, any number during recovery | implements `AtomicDisk`; commits run alone, reservations suffice, nobody sleeps without cause; every commit and every recovery ends |
| `block_io` | 2 processes, 3 blocks, 2 buffers, descriptors for one request (5) and for two (6) | implements `BlockStore`; one buffer per block, exact counts, descriptors conserved, no lost wakeup, every buffer comes back from the disk |
| `processes` | 3 slots and pids, 1 tick, kill of pids 0, 2 and 3; 2 processes with PBS and round robin, on 1 CPU with 2 ticks and on 2 CPUs; 3 processes with PBS on 1 CPU with 1 tick, so that of two tied ones the older can have the later slot | no exit and no tick is missed by a sleeper, no process has a parent that is gone, a killed process was named by its pid, or its slot by 0, since the slot was last freed; ties broken by number of runs, then age (claimed of one CPU only), no idling with work to do, round robin starves no one, no process runs on two CPUs |
| `sched_priority` | 1 CPU, PBS | **violation**: the process with the largest value is chosen |
| `file_system` | 2 processes, 3 inodes, `/d/f` a file or a directory, 3 calls (ten calls and `close`), 1 crash; and 2 files of up to 6 bytes on a disk of 4 blocks, one of them opened twice, 4 reads, writes or reopens | exact reference counts, `iput` never waits, link counts match the names at every commit and after every crash, only unused inodes are freed; blocks are owned once and never lost, and reads and writes implement `FileStore` |
| `inode_leak` | as `file_system`, without crashes | **violation**: an inode without links and references stays allocated |
| `shell` | 8 lines run on 5 processes, 5 descriptors, 4 struct files, a pipe of 2 bytes whose counters wrap at 4, 1 fault; 11,131 lines parsed | the parser finds the tree of the grammar, or refuses; the output is what the line means; every process ends; no sleeper is forgotten; file reference counts and pipe ends agree with the descriptors |
| `console` | a writer and a reader, 5 sequences of 3 keys, rings of 1 and 2 bytes, 1 fault; and 2 harts, 2 locks | complete lines are read as typed, what is written is sent in order, every write ends; locks exclude, and no interrupt comes while one is held |
| `simulations` | 3 customers, 2 baristas, two inputs; and 2 machines, one topping, four inputs of one or two customers and up to 3 ice creams | one coffee at a time, one way to leave, wasted coffees counted once, a second between things, and the cafe closes; one ice cream per working machine, one verdict per customer, no ice cream completed before its time |

### Bounds

- Two or three of everything that competes (CPUs, processes, threads) and one unit less of
  what they compete for than all of them need: frames, log space, buffers, descriptors,
  disk blocks, inodes, struct files, baristas, toppings.  Every failure branch is taken: `kalloc` fails at each place it is
  called, `alloc3_desc` fails with descriptors in hand, `begin_op` waits for space, the
  topping is used up at each of the three looks.
- `MaxRef`, `MaxPid`, `MaxTicks`, `MaxRuns`, `MaxCrashes`, `MaxCalls`, `MaxFaults`,
  `MaxConsFaults` and `MaxTime` stop counters that the code lets grow.  In `Cafe` the clock saturates: the last second stands for all later
  ones, so threads can be as late as they like.
- `Calls` and `Changed` leave out combinations, not code: the blocks that are not in
  `Changed` are read, evicted and reread only.
- `Sizes` and `Policies` put several values of one compile-time constant into one run.
- `LogAtomic.cfg` gives the log one block more than `LOGSIZE`, for the header; see below.
- `Width` and `ConsWidth` are the bits of an `unsigned int`, few enough that the counters of
  pipes and a file offset plus a length wrap around in the runs.  The rings of the console are
  used round and round, but with three keys its indices do not reach the end of an
  `unsigned int`.
- `Lines` are run, `TestLines` only parsed; one word stands for all words there.
- Contents are two values where a property compares contents, one elsewhere.

Deadlock is checked in `memory` (the allocator), `log_atomic`, `block_io`, `processes` (the life
of processes), `file_system` and `inode_leak`; the end at a bound or after a panic is a step of
its own there.  Elsewhere the model may really stop: all processes have exited (`cow_*`,
`shell`), the bound on runs is reached (`sched_priority`), no key is left to be typed
(`console`, where harts may also take two locks in opposite orders), or the day is over or a
thread hangs on its own mutex (`simulations`).

### Fairness

- `Log`: weak fairness of the process that commits, and of recovery, as long as nothing
  crashes.  Nothing of callers: they may stay inside a call for ever.
- `BlockIO`: the device completes every request and a raised interrupt is handled.  Nothing
  of the processes.
- `Scheduler`: every CPU goes on in its loop, and the timer interrupts a running process.
- `Console`: as long as a thread, the handler or the UART can go on, one of them does.
  Nothing of who types.
- `Shell`: as long as a process can go on, some process does; nothing of which.
- `Cafe`: time passes, and a thread that can go on does.

These are what a CPU out of reset, a device that answers and the pthread scheduler give.

## Proofs

`KernelProofs` proves of `Kalloc`, for every `NFrames`, every set of CPUs and every `MaxRef`:

- `TypeCorrect`: `Spec => []TypeOK`;
- `RefCounting`: `Spec => []RefCoversHeld`;
- `FreeExactlyUnreferenced`: `Spec => []FreeIffUnreferenced`;
- `DoubleFreeFreedom`: `Spec => []NoDoubleFree`.

The only assumption is `KallocAssumption` (the two numbers are positive).  The difficulty is
that `kfree` decrements under `reference_lock` and links under `kmem.lock`.  Between the two
the page is neither free nor in use.  None of the properties is inductive alone: that a page
is not linked twice needs that a page about to be linked has count zero and no holder, which
needs that counts cover holders, which needs that a free page has none.  `IInv` is their
conjunction with one more fact, `UnsweptUntouched`: pages that `freerange` has not reached
yet have count 0, are not on the list, not held and about to be linked by no CPU.

It proves of `Spinlock`, for every set of harts and every finite set of locks:

- `Exclusion`: `SpinSpec => []MutualExclusion`;
- `NoInterruptWithLock`: `SpinSpec => []InterruptSafe`;
- `PopOffSafe`: neither panic of `pop_off` is reached from `release`.

The only assumption is `SpinlockAssumption`.  `acquire` and `release` are several stores, so a
lock has an owner before `lk->cpu` says so and after it no longer does: `OwnerInv` speaks of
the owner with these in-between steps and relates it to both fields.  That interrupts stay off
depends on `pop_off` turning them on at 0 only, hence on the count: `CountInv` says that `noff`
is the number of locks the hart holds, plus one inside `acquire` or `release`.  The induction is
on `SpinInv`, the conjunction of these with the types, `StepInv` and `InterruptSafe`.

`SchedulerProofs` proves, for every set of CPUs, both policies, every natural `NPROC` and all
integer priorities (hypotheses of the theorem):

- `OneCpuPerProcess`: `Spec => []RunsOnOneCpu`.

A CPU chooses in several passes and dispatches later, when its choice may be stale; that
`scheduler()` looks at the state again with `p->lock` held is enough, if it looks at a slot of the
table.  This is `ChoiceInv`: `ind` stays inside the array the pass picks from, and `arr2` is
filled no further than the element looked at.  When `arr2[0]` is read unset the model takes any slot
or a fault, and the second look saves that case too.  `SchedInv` is `ChoiceInv` with the types and
`RunsOnOneCpu`.  (The run `processes` checks the same formula on the two-hart instance of
`Scheduler`, under a definition of its own in `MCProcesses`.)

`ProcLifeProofs` proves, under `ProcLifeAssumption` (positive table and pid bound, natural
numbers elsewhere):

- `LifeInvariant`: `Spec => []LifeInv`;
- `NoLostWakeup`: `Spec => []NoMissedWakeup`;
- `NoOrphan`: `Spec => []ParentsLive`;
- `KillsByName`: `Spec => []KilledWasNamed`, for every set of pids given to `kill`.

`exit`, `wait`, `sleep` and `kill` each take and release `wait_lock`, `tickslock` and the `p->lock`s
one at a time, so the invariant follows who is where: `LifeInv` has the types, what a process may
hold by its place (`Places`), the parents (`Families`), slots that `fork` has filled and not yet
made runnable (`Forks`), what a parent has still to look at before it may sleep (`Waits`) and a
sleeper of the clock (`Sleeps`), the uniqueness of pids (`Pids`), and `Kills`.  `NoMissedWakeup`
follows from `Places`, `Waits` and `Sleeps`.  `Kills` is where the zero matters: `kill` compares
pids without a look at the state, a free slot has pid 0, and neither `allocproc` nor `fork` clears `killed`;
so all that holds is that the slot of a killed process was named by the pid or by 0 since it was
last freed.  The comment above `kill` promises more (see `KilledByItsPid` below).

`LogDataProofs` and `LogProofs` prove, under `LogAssumption` (positive sizes, finitely many
processes and blocks, 0 a value):

- `LogDiscipline`: `Spec => []LogSafe`;
- `LogRefinement`: `Spec => ImplementsAtomicDisk`: whole groups of calls reach the disk or
  nothing of them does, whatever the number of crashes and wherever they hit.

`LogInv` is the conjunction of the types, `Control` (who may be where; nobody is in the file system
before recovery is over, the committer is alone, `outstanding` counts the calls inside), `Space`
(the log fits and holds a block once, with room for what was reserved), `SleepersBlocked` and `Data`.
`Data` carries the refinement: the header on disk is not empty only from the commit point to the
end of the installation; a block that is not pinned is the same in the cache and at home; the log
has the cache's contents as far as `write_log` got; home blocks have the log's as far as
`install_trans` got.  `LogDataProofs` has the facts on data and a lemma for each step that moves
blocks, `LogProofs` the rest and the theorems.

`BlockIODiskProofs`, `BlockIOCacheProofs` and `BlockIOProofs` prove, under `BlockIOAssumption`
(a buffer at least, three descriptors at least, finitely many processes):

- `IOInvariant`: `Spec => []IOInv`;
- `CacheDiscipline`: `Spec => []CacheSafe`;
- `CacheRefinement`: `Spec => ImplementsBlockStore`: a block has one content, whoever reads it and
  whenever its buffer is recycled, and one owner at a time.

`IOInv` is `DataInv` and `RefcntExact`.  The centre of `DataInv` is `Flights`: every request in a
ring is the request of exactly one process that waits for it, with its buffer, direction and sector,
and a buffer with `disk` set has such a process.  From it follow that a completion wakes
the right process and that a buffer never changes under a transfer.  `Chains` says that a
descriptor that is not free is in the chain of one process; `Rings` that a request is in the rings once and that a
completion not yet handled has its interrupt pending; `Blocks` that a block has one buffer.  That
`bget` recycles only buffers nobody uses (`Choices`) follows from the counts.  For the refinement,
`Content` and `Owner` are shown to change only in the steps of `BlockStore`, from the invariant
before and after the step.

Only model-checked:

- all liveness (fairness and ENABLED are out of the prover's reach).  `OrphansReaped` of `ProcLife`
  (every orphan that exits is reaped by init) holds under `LiveSpec` with `NPROC` 3, `MaxPid` 3, no
  ticks and `KillPids` {3}; it is no property of a run;
- what recursive definitions compute (induction over data is out of its reach too);
- `CowMemory` with its refinement of `PrivateMemory`, `FileData` with its refinement of
  `FileStore`, `Inodes`, `Files`, `Shell`, `Console`, `Cafe`, `Parlour`, and `TieBreak` of
  `Scheduler`.

## Where code and documents disagree

Three disagreements have runs: `cow_copyout_text`, `sched_priority` and `inode_leak`.  In the
last one `iput` frees an inode, and before it has `itable.lock` again another process has
allocated the same inode, given it up and put it with `ref` 2; the first `iput` then drops
`ref` to 0 without a look at `nlink` (`fs.c:360`), and the inode stays allocated without a name.
The following ones were met as well.  The properties that state them are in the modules with the constants
under which TLC finds a counterexample; they have no run of their own.

| Property | Instance | What happens |
|----------|----------|--------------|
| `CowMemory!CountExact` | `NFrames` 6, `NPages` 1, `OneLeaf`, `Programs` {}, `Calls` {out} | `uvmcopy` fails after counting a page: the page is never freed (`vm.c:343`, comment at `vm.c:317`) |
| `CowMemory!CopyoutWritesPrivate` | the same with `NFrames` 7 | without memory for a copy, `copyout` writes to the shared page (`vm.c:411`) |
| `Scheduler!ChoosesBeforeRunning` | PBS, 2 CPUs, `MaxRuns` 2, `MaxTicks` 1 | `arr2[0]` is read before it is set (`proc.c:596`) |
| `Scheduler!RaiseReschedules` | `LiveSpec`, `Prio` {40} | `set_priority` yields when the priority falls (`sysfile.c:113`, README.md:23) |
| `Scheduler!RbiAsDocumented` | 1 CPU, `MaxTicks` 1 | another formula than README.md:17 (`proc.c:493`) |
| `Scheduler!TieBreak` | 2 CPUs, PBS, `NPROC` 3, `Prio` {}, `MaxTicks` 0, `MaxRuns` 2 | the other CPU changes the counts between two passes, and the choice is the first of no one moment (README.md:2) |
| `ProcLife!KilledByItsPid` | `NPROC` 2, `MaxPid` 3, `MaxTicks` 0, `MaxSleep` 0, `KillPids` {0} | `kill(0)` marks an unused slot, whose next process is born killed (`proc.c:794`, comment at `proc.c:784`) |
| `ProcLife!RanWithinLifetime` | `NPROC` 2, `MaxTicks` 1 | `waitx` may report a waiting time that wrapped around (`proc.c:917`) |
| `Log!NoLogPanic` | `LogSize` = `LOGSIZE` | calls within their reservation reach the panic of `log_write`: the log's header takes one of `LOGSIZE` blocks (`log.c:219`, `mkfs.c:25`) |
| `Cafe!Told` | as in `Simulations.cfg` | a customer is told neither that they got the coffee nor that they left (`1.c:259`) |
| `Parlour!ToppingsSuffice` | as in `Simulations.cfg` | two ice creams use the last topping (`2.c:411`) |
| `Parlour!NoWaitForOthers` | as in `Simulations.cfg` | customers are served one after the other (`2.c:507`, README.md:90) |

In `Inodes` the panic of `ilock` ("no type") is a step, `LockPanic`: it is reached through the
`..` of a removed directory whose parent was removed too.

In the parlour a thread can lock the mutex it holds (`Relock`, `2.c:325` and `2.c:382`), and an
ice cream can wait for ever for the one before it (`2.c:161`).  The program then hangs, which
is why no liveness is stated for it.

## Not modelled, and why

- Devices answer as their specification says; a disk error is modelled (the kernel panics).
- Memory ordering weaker than interleaving: the kernel's locks have fences, and the accesses
  outside of locks are separate steps; the two simulations' unlocked counters are read and
  written in two steps.
- In `Inodes` the blocks of an inode (they are `FileData`'s); a directory that has to grow may
  find the disk full.  `LinkCounts` is not required once an entry was made in a removed
  directory (`buried`), which `create` and `sys_link` do not prevent.
- In `FileData`, crashes (the log is `Log`'s subject), and what a failed `either_copyin` leaves
  in a cached block that is not logged.
- In `Files`, a copy from or to user memory fails at the first byte or not at all; `filestat`
  and `getreadcount` only read.
- In `Console`, ^P and NUL; the three bytes that rub out a character are one.
- In `Shell`, `cat` has no arguments; characters, as `gettoken`'s tokens are the input.  User
  programs other than `echo` and `cat`; `umalloc.c`, `mkfs`, `ls`, `grep` and the test programs are
  sequential.
- The statistics of the cafe (waiting times), all output other than who is told what.
- In `2.c`, `machine_threads` has `num_machines` = 0 elements (line 672) and is written
  beyond its end: what that overwrites depends on the compiler's layout of the stack.
- Straight-line code and what runs before there is concurrency, see above.

## Plan

1. Proofs: `RefsExact` of `Inodes`, `CafeSafe` of `Cafe`, `CountCoversReferences` of `CowMemory`.
2. `umalloc.c`: the free list of the user-level allocator against a set of disjoint areas.
3. `Inodes` on `Log` itself instead of on what `Log` promises.
