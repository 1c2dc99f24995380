------------------------------ MODULE ProcLife ------------------------------
(***************************************************************************)
(* The life of processes, kernel/proc.c: allocproc, fork, exit, reparent,  *)
(* wait and waitx, kill, sleep and wakeup; the sleep system call and the   *)
(* clock interrupt that ends it (kernel/sysproc.c, kernel/trap.c), with    *)
(* update_time's accounting.                                               *)
(*                                                                         *)
(* Two spin locks order all this: wait_lock (parent links, and exit        *)
(* against wait) and tickslock.  p->lock only makes single steps atomic:   *)
(* a step of this model is what happens under one p->lock, or what happens *)
(* under wait_lock or tickslock without anyone else being able to see it.  *)
(* A process takes steps while it is RUNNING; it is preempted only when it *)
(* holds no spin lock.                                                     *)
(***************************************************************************)
EXTENDS Integers, FiniteSets

CONSTANTS
  NPROC,       \* process table slots
  MaxPid,      \* bound: processes created
  MaxTicks,    \* bound: clock interrupts
  MaxSleep,    \* bound: ticks a program sleeps for
  KillPids     \* the pids programs kill

ASSUME ProcLifeAssumption ==
  /\ {NPROC, MaxPid} \subseteq Nat \ {0} /\ {MaxTicks, MaxSleep} \subseteq Nat
  /\ KillPids \subseteq Nat

Slot == 1..NPROC
initproc == 1          \* initproc
Nobody == 0
ClockHand == NPROC + 1   \* the interrupt handler, as the holder of tickslock
OnTicks == NPROC + 2     \* the channel &ticks; a process's own address is its number
NotNamed == -1

VARIABLES
  state, pid, parent, chan, killed, rtime, ctime, etime,   \* struct proc
  pc,         \* [Slot -> STRING]: where the process is in the kernel
  np,         \* [Slot -> Slot]: the child fork is making
  due,        \* [Slot -> Nat]: the tick sys_sleep waits for
  nextpid, wait_lock, tickslock, ticks,
  upd,        \* next slot update_time looks at; 0 outside of clockintr
  named       \* history: the pid of the kill that found this slot since it was last freed

acct == <<rtime, ctime, etime>>
clock == <<tickslock, ticks, upd>>
vars == <<state, pid, parent, chan, killed, rtime, ctime, etime, pc, np, due, nextpid,
          wait_lock, tickslock, ticks, upd, named>>

Init ==
  /\ state = [p \in Slot |-> IF p = initproc THEN "RUNNABLE" ELSE "UNUSED"]
  /\ pid = [p \in Slot |-> IF p = initproc THEN 1 ELSE 0]
  /\ parent = [p \in Slot |-> Nobody] /\ chan = [p \in Slot |-> Nobody]
  /\ killed = [p \in Slot |-> FALSE] /\ named = [p \in Slot |-> NotNamed]
  /\ rtime = [p \in Slot |-> 0] /\ ctime = rtime /\ etime = rtime
  /\ pc = [p \in Slot |-> "user"]
  /\ np = [p \in Slot |-> initproc]
  /\ due = [p \in Slot |-> 0]
  /\ nextpid = 2
  /\ wait_lock = Nobody /\ tickslock = Nobody
  /\ ticks = 0 /\ upd = 0

-----------------------------------------------------------------------------
At(p, l) == state[p] = "RUNNING" /\ pc[p] = l

\* In user mode, and not on the way to exit(-1) because it was killed.
InUser(p) == At(p, "user") /\ ~killed[p]

Goto(p, l) == pc' = [pc EXCEPT ![p] = l]

\* wakeup(ch): all the processes asleep on ch, for the channels chs.
Wakeup(chs) ==
  state' = [q \in Slot |-> IF state[q] = "SLEEPING" /\ chan[q] \in chs THEN "RUNNABLE" ELSE state[q]]

\* The scheduler, and the timer; a process asleep tidies up p->chan when it is run.
Dispatch(p) ==
  /\ state[p] = "RUNNABLE"
  /\ state' = [state EXCEPT ![p] = "RUNNING"]
  /\ chan' = [chan EXCEPT ![p] = Nobody]
  /\ UNCHANGED <<pid, parent, killed, acct, pc, np, due, nextpid, wait_lock, clock, named>>

Preempt(p) ==
  /\ state[p] = "RUNNING" /\ p \notin {wait_lock, tickslock}
  /\ state' = [state EXCEPT ![p] = "RUNNABLE"]
  /\ UNCHANGED <<pid, parent, chan, killed, acct, pc, np, due, nextpid, wait_lock, clock, named>>

\* freeproc(c).  The times are left as they are in the code and reset by
\* allocproc; nobody reads them in between.
FreeprocWith(c, k) ==
  /\ state' = [state EXCEPT ![c] = "UNUSED"]
  /\ pid' = [pid EXCEPT ![c] = 0]
  /\ parent' = [parent EXCEPT ![c] = Nobody]
  /\ chan' = [chan EXCEPT ![c] = Nobody]
  /\ killed' = [killed EXCEPT ![c] = k]
  /\ named' = [named EXCEPT ![c] = NotNamed]
  /\ rtime' = [rtime EXCEPT ![c] = 0]
  /\ ctime' = [ctime EXCEPT ![c] = 0]
  /\ etime' = [etime EXCEPT ![c] = 0]

\* Mutant: p->killed is left as it is.
FreeprocKeepsKilled(c) == FreeprocWith(c, killed[c])

Freeproc(c) == FreeprocWith(c, FALSE)

-----------------------------------------------------------------------------
(* fork.                                                                   *)

\* The slot allocproc takes: the first UNUSED one.
FirstUnused(c) == state[c] = "UNUSED" /\ \A d \in 1..(c - 1) : state[d] # "UNUSED"

\* allocproc, and fork filling the child in, up to the release of np->lock.
ForkAlloc(p, c) ==
  /\ InUser(p) /\ nextpid <= MaxPid /\ FirstUnused(c)
  /\ state' = [state EXCEPT ![c] = "USED"]
  /\ pid' = [pid EXCEPT ![c] = nextpid]
  /\ nextpid' = nextpid + 1
  /\ rtime' = [rtime EXCEPT ![c] = 0]
  /\ etime' = [etime EXCEPT ![c] = 0]
  /\ ctime' = [ctime EXCEPT ![c] = ticks]
  /\ np' = [np EXCEPT ![p] = c]
  /\ Goto(p, "fork_parent")
  /\ UNCHANGED <<parent, chan, killed, due, wait_lock, clock, named>>

\* There is no memory for the child: the slot goes back, the pid does not.
ForkFails(p, c) ==
  /\ InUser(p) /\ nextpid <= MaxPid /\ FirstUnused(c)
  /\ Freeproc(c)
  /\ nextpid' = nextpid + 1
  /\ UNCHANGED <<pc, np, due, wait_lock, clock>>

ForkParent(p) ==
  /\ At(p, "fork_parent") /\ wait_lock = Nobody
  /\ parent' = [parent EXCEPT ![np[p]] = p]
  /\ Goto(p, "fork_run")
  /\ UNCHANGED <<state, pid, chan, killed, acct, np, due, nextpid, wait_lock, clock, named>>

ForkRun(p) ==
  /\ At(p, "fork_run")
  /\ state' = [state EXCEPT ![np[p]] = "RUNNABLE"]
  /\ np' = [np EXCEPT ![p] = initproc]
  /\ Goto(p, "user")
  /\ UNCHANGED <<pid, parent, chan, killed, acct, due, nextpid, wait_lock, clock, named>>

-----------------------------------------------------------------------------
(* exit and wait.                                                          *)

\* exit, up to and including its wakeups, with the reparenting moved to children
\* kids, lock left in wait_lock and the channels chs woken up.
ExitWith(p, kids, lock, chs) ==
  /\ At(p, "user") /\ p # initproc /\ wait_lock = Nobody
  /\ wait_lock' = lock
  /\ parent' = [c \in Slot |-> IF c \in kids THEN initproc ELSE parent[c]]
  /\ Wakeup(chs)
  /\ Goto(p, "exit")
  /\ UNCHANGED <<pid, chan, killed, acct, np, due, nextpid, clock, named>>

Children(p) == {c \in Slot : parent[c] = p}

\* Mutants: wait_lock released before ZOMBIE; children not handed on.
ExitReparentEarly(p) ==
  ExitWith(p, Children(p), Nobody, {parent[p]} \cup IF Children(p) = {} THEN {} ELSE {initproc})

ExitReparentNone(p) == ExitWith(p, {}, p, {parent[p]})

\* exit: wait_lock, reparent with its wakeup of init, and the wakeup of the parent.
\* (init may not exit: the kernel panics.)
ExitReparent(p) ==
  ExitWith(p, Children(p), p, {parent[p]} \cup IF Children(p) = {} THEN {} ELSE {initproc})

\* exit: ZOMBIE, release wait_lock, and off the CPU.
ExitZombie(p) ==
  /\ At(p, "exit")
  /\ state' = [state EXCEPT ![p] = "ZOMBIE"]
  /\ etime' = [etime EXCEPT ![p] = ticks]
  /\ wait_lock' = Nobody
  /\ UNCHANGED <<pid, parent, chan, killed, rtime, ctime, pc, np, due, nextpid, clock, named>>

\* wait or waitx: enter it.
WaitEnter(p) ==
  /\ InUser(p)
  /\ Goto(p, "wait")
  /\ UNCHANGED <<state, pid, parent, chan, killed, acct, np, due, nextpid, wait_lock, clock, named>>

\* wait's scan, under wait_lock, stops at the first zombie child; it is freed ...
FirstZombie(p, c) ==
  /\ parent[c] = p /\ state[c] = "ZOMBIE"
  /\ \A d \in 1..(c - 1) : ~(parent[d] = p /\ state[d] = "ZOMBIE")

WaitReap(p, c) ==
  /\ At(p, "wait") /\ wait_lock = Nobody /\ FirstZombie(p, c)
  /\ Freeproc(c)
  /\ pc' = [pc EXCEPT ![c] = "user", ![p] = "user"]
  /\ UNCHANGED <<np, due, nextpid, wait_lock, clock>>

\* ... unless the exit status cannot be copied out.
WaitBadAddress(p, c) ==
  /\ At(p, "wait") /\ wait_lock = Nobody /\ FirstZombie(p, c)
  /\ Goto(p, "user")
  /\ UNCHANGED <<state, pid, parent, chan, killed, acct, np, due, nextpid, wait_lock, clock, named>>

\* No zombie child: give up, or stay in the loop, with wait_lock, to go to sleep.
NoZombie(p) == \A c \in Slot : parent[c] = p => state[c] # "ZOMBIE"

WaitFails(p) ==
  /\ At(p, "wait") /\ wait_lock = Nobody /\ NoZombie(p)
  /\ (\A c \in Slot : parent[c] # p) \/ killed[p]
  /\ Goto(p, "user")
  /\ UNCHANGED <<state, pid, parent, chan, killed, acct, np, due, nextpid, wait_lock, clock, named>>

WaitAgain(p) ==
  /\ At(p, "wait") /\ wait_lock = Nobody /\ NoZombie(p)
  /\ (\E c \in Slot : parent[c] = p) /\ ~killed[p]
  /\ wait_lock' = p
  /\ Goto(p, "wait_sleep")
  /\ UNCHANGED <<state, pid, parent, chan, killed, acct, np, due, nextpid, clock, named>>

\* sleep(p, &wait_lock): under p->lock, release wait_lock and go to sleep; when it
\* runs again, p takes wait_lock and scans again.
WaitSleep(p) ==
  /\ At(p, "wait_sleep")
  /\ state' = [state EXCEPT ![p] = "SLEEPING"]
  /\ chan' = [chan EXCEPT ![p] = p]
  /\ wait_lock' = Nobody
  /\ Goto(p, "wait")
  /\ UNCHANGED <<pid, parent, killed, acct, np, due, nextpid, clock, named>>

-----------------------------------------------------------------------------
\* kill(n): the first slot whose pid is n, in whatever state it is; the free ones have
\* pid 0.
Kill(p, q) ==
  /\ InUser(p) /\ pid[q] \in KillPids /\ \A r \in 1..(q - 1) : pid[r] # pid[q]
  /\ killed' = [killed EXCEPT ![q] = TRUE]
  /\ named' = [named EXCEPT ![q] = pid[q]]
  /\ state' = IF state[q] = "SLEEPING" THEN [state EXCEPT ![q] = "RUNNABLE"] ELSE state
  /\ UNCHANGED <<pid, parent, chan, acct, pc, np, due, nextpid, wait_lock, clock>>

-----------------------------------------------------------------------------
(* sys_sleep and the clock.                                                *)

SleepEnter(p, n) ==
  /\ InUser(p) /\ tickslock = Nobody /\ ticks + n <= MaxTicks
  /\ due' = [due EXCEPT ![p] = ticks + n]
  /\ tickslock' = p
  /\ Goto(p, "tick_loop")
  /\ UNCHANGED <<state, pid, parent, chan, killed, acct, np, nextpid, wait_lock, ticks, upd, named>>

\* After a sleep p takes tickslock again.
SleepRelock(p) ==
  /\ At(p, "tick_lock") /\ tickslock = Nobody
  /\ tickslock' = p
  /\ Goto(p, "tick_loop")
  /\ UNCHANGED <<state, pid, parent, chan, killed, acct, np, due, nextpid, wait_lock, ticks, upd, named>>

\* The loop ends: time is up, or p was killed.
SleepDone(p) ==
  /\ At(p, "tick_loop") /\ (ticks >= due[p] \/ killed[p])
  /\ tickslock' = Nobody
  /\ due' = [due EXCEPT ![p] = 0]
  /\ Goto(p, "user")
  /\ UNCHANGED <<state, pid, parent, chan, killed, acct, np, nextpid, wait_lock, ticks, upd, named>>

SleepTest(p) ==
  /\ At(p, "tick_loop") /\ ticks < due[p] /\ ~killed[p]
  /\ Goto(p, "tick_sleep")
  /\ UNCHANGED <<state, pid, parent, chan, killed, acct, np, due, nextpid, wait_lock, clock, named>>

\* sleep(&ticks, &tickslock).
SleepTicks(p) ==
  /\ At(p, "tick_sleep")
  /\ state' = [state EXCEPT ![p] = "SLEEPING"]
  /\ chan' = [chan EXCEPT ![p] = OnTicks]
  /\ tickslock' = Nobody
  /\ Goto(p, "tick_lock")
  /\ UNCHANGED <<pid, parent, killed, acct, np, due, nextpid, wait_lock, ticks, upd, named>>

\* clockintr: ticks++ under tickslock, ...
ClockTick ==
  /\ upd = 0 /\ ticks < MaxTicks /\ tickslock = Nobody
  /\ tickslock' = ClockHand
  /\ ticks' = ticks + 1
  /\ upd' = 1
  /\ UNCHANGED <<state, pid, parent, chan, killed, acct, pc, np, due, nextpid, wait_lock, named>>

\* ... update_time, one process at a time, ...
UpdateTime ==
  /\ upd \in Slot
  /\ rtime' = [rtime EXCEPT ![upd] = IF state[upd] = "RUNNING" THEN @ + 1 ELSE @]
  /\ upd' = upd + 1
  /\ UNCHANGED <<state, pid, parent, chan, killed, ctime, etime, pc, np, due, nextpid, wait_lock,
                 tickslock, ticks, named>>

\* ... and wakeup(&ticks).
ClockWakeup ==
  /\ upd = NPROC + 1
  /\ Wakeup({OnTicks})
  /\ tickslock' = Nobody
  /\ upd' = 0
  /\ UNCHANGED <<pid, parent, chan, killed, acct, pc, np, due, nextpid, wait_lock, ticks, named>>

-----------------------------------------------------------------------------
Kernel(p) ==
  \/ ForkParent(p) \/ ForkRun(p) \/ ExitZombie(p)
  \/ (\E c \in Slot : WaitReap(p, c)) \/ WaitFails(p) \/ WaitAgain(p) \/ WaitSleep(p)
  \/ SleepRelock(p) \/ SleepDone(p) \/ SleepTest(p) \/ SleepTicks(p)

User(p) ==
  \/ \E c \in Slot : ForkAlloc(p, c) \/ ForkFails(p, c) \/ Kill(p, c) \/ WaitBadAddress(p, c)
  \/ ExitReparent(p)
  \/ WaitEnter(p)
  \/ \E n \in 1..MaxSleep : SleepEnter(p, n)

Interrupt == ClockTick \/ UpdateTime \/ ClockWakeup

Next ==
  \/ \E p \in Slot : Kernel(p) \/ User(p) \/ Dispatch(p) \/ Preempt(p)
  \/ Interrupt

Spec == Init /\ [][Next]_vars

\* The scheduler runs every process again and again, a spin lock is free again and
\* again, the clock keeps ticking, a killed process leaves at its next trap, and
\* init does nothing but wait (user/init.c).
LiveSpec ==
  /\ Spec
  /\ \A p \in Slot : SF_vars(Kernel(p)) /\ WF_vars(Dispatch(p))
                     /\ SF_vars(killed[p] /\ ExitReparent(p))
  /\ SF_vars(WaitEnter(initproc))
  /\ WF_vars(Interrupt)

-----------------------------------------------------------------------------
(* Properties.                                                             *)

TypeOK ==
  /\ state \in [Slot -> {"UNUSED", "USED", "SLEEPING", "RUNNABLE", "RUNNING", "ZOMBIE"}]
  /\ pid \in [Slot -> 0..MaxPid] /\ nextpid \in 2..(MaxPid + 1)
  /\ parent \in [Slot -> Slot \cup {Nobody}]
  /\ chan \in [Slot -> Slot \cup {Nobody, OnTicks}]
  /\ killed \in [Slot -> BOOLEAN] /\ named \in [Slot -> {NotNamed} \cup 0..MaxPid]
  /\ {rtime, ctime, etime} \subseteq [Slot -> 0..MaxTicks]
  /\ pc \in [Slot -> {"user", "fork_parent", "fork_run", "exit", "wait", "wait_sleep",
                      "tick_lock", "tick_loop", "tick_sleep"}]
  /\ np \in [Slot -> Slot]
  /\ due \in [Slot -> 0..MaxTicks]
  /\ wait_lock \in Slot \cup {Nobody} /\ tickslock \in Slot \cup {Nobody, ClockHand}
  /\ ticks \in 0..MaxTicks /\ upd \in 0..(NPROC + 1)

\* wait never sleeps through an exit: a process asleep in wait has a child, and none
\* of its children is a zombie (exit holds wait_lock from the wakeup of the parent to
\* ZOMBIE, and wait holds it from its scan to SLEEPING).
NoMissedExit ==
  \A p \in Slot : state[p] = "SLEEPING" /\ chan[p] = p =>
    NoZombie(p) /\ \E c \in Slot : parent[c] = p

\* sys_sleep never sleeps through the tick it waits for, except while clockintr is
\* still on its way to wakeup(&ticks).
NoMissedTick ==
  \A p \in Slot : state[p] = "SLEEPING" /\ chan[p] = OnTicks => ticks < due[p] \/ upd # 0

\* Nobody in wait, waitx or sys_sleep sleeps through what it waits for.
NoMissedWakeup == NoMissedExit /\ NoMissedTick

\* Whoever can exit has a parent to wait for it, which is neither free nor a zombie:
\* reparent hands every child on before its parent is gone.
ParentsLive ==
  \A p \in Slot \ {initproc} : state[p] \notin {"UNUSED", "USED"} =>
    parent[p] # Nobody /\ state[parent[p]] \notin {"UNUSED", "USED", "ZOMBIE"}

\* A process that is marked killed was named, by its own pid, by a kill made since its
\* slot was last freed: a mark does not pass from one process to the next through exit,
\* wait, a failed fork and a new fork.  The one exception is kill(0), which finds the
\* first free slot (proc.c:794) and marks the process that will be made there; it finds
\* no process, because every process has a pid other than 0.
KilledWasNamed ==
  \A p \in Slot : state[p] # "UNUSED" =>
    pid[p] # 0 /\ (killed[p] => named[p] \in {pid[p], 0})

\* "Kill the process with the given pid" (kernel/proc.c:784): without the exception.
KilledByItsPid ==
  \A p \in Slot : state[p] # "UNUSED" /\ killed[p] => named[p] = pid[p]

\* "How long the process ran for" (kernel/proc.h:119) is at most the time from its
\* creation to its exit, so that waitx's unsigned etime - ctime - rtime is the time it waited.
RanWithinLifetime ==
  \A p \in Slot : state[p] = "ZOMBIE" => rtime[p] <= etime[p] - ctime[p]

\* A zombie handed to init is reaped.
OrphansReaped ==
  \A p \in Slot : (state[p] = "ZOMBIE" /\ parent[p] = initproc) ~> (state[p] # "ZOMBIE")
=============================================================================
