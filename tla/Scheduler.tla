----------------------------- MODULE Scheduler ------------------------------
(***************************************************************************)
(* The process schedulers of kernel/proc.c: the priority-based one (PBS)   *)
(* and round robin (RR), with what feeds them: update_time, allocproc's    *)
(* defaults, yield, sleep, wakeup, exit, and the set_priority system call. *)
(*                                                                         *)
(* Every CPU runs scheduler() by itself.  It looks at a process only with  *)
(* p->lock held, but gives the lock back between one look and the next: a  *)
(* step is one critical section of some p->lock, and the other CPUs, and   *)
(* the interrupts, come in between.  A context switch is one step, because *)
(* p->lock is held from before the switch until after it.                  *)
(***************************************************************************)
EXTENDS Integers, Sequences

CONSTANTS
  CPU,       \* the harts
  NPROC,     \* process table slots
  Policies,  \* the SCHEDULER settings of the build: "PBS", "RR"
  Prio,      \* the static priorities programs ask for
  MaxTicks,  \* bound: timer ticks
  MaxRuns    \* bound: times one process is scheduled

Slot == 1..NPROC
NoProc == 0

VARIABLES
  state, sp, dp, runtime, stime, wtime, no_scheduled, start_time, ctime, \* struct proc
  ticks,
  policy,   \* the SCHEDULER this kernel was built with
  cproc,    \* [CPU -> Slot \cup {NoProc}]: c->proc
  s         \* [CPU -> record]: the locals of scheduler() and where it is

attr == <<sp, dp, start_time, ctime, policy>>
times == <<runtime, stime, wtime>>
vars == <<state, sp, dp, runtime, stime, wtime, no_scheduled, start_time, ctime, ticks, policy, cproc,
          s>>

\* The top of scheduler()'s outer loop.
Top == [pc |-> IF policy = "PBS" THEN "max" ELSE "rr", i |-> 1, max |-> 0, arr |-> <<>>,
        arr2 |-> <<>>, no_sched |-> 0, count |-> 0, ind |-> 1, sel |-> NoProc]

Init ==
  /\ state = [p \in Slot |-> IF p = 1 THEN "RUNNABLE" ELSE "UNUSED"]
  /\ sp = [p \in Slot |-> 50] /\ dp = [p \in Slot |-> 75]
  /\ runtime = [p \in Slot |-> 0] /\ stime = runtime /\ wtime = runtime
  /\ no_scheduled = [p \in Slot |-> 0]
  /\ start_time = [p \in Slot |-> 0] /\ ctime = start_time
  /\ ticks = 0 /\ policy \in Policies
  /\ cproc = [c \in CPU |-> NoProc]
  /\ s = [c \in CPU |-> Top]

Runnable(p) == state[p] = "RUNNABLE"

-----------------------------------------------------------------------------
(* The passes of the priority scheduler.  A loop that has reached its end  *)
(* goes to the next one in a step of its own.                              *)

At(c, l) == s[c].pc = l

Goto(c, r, l) == s' = [s EXCEPT ![c] = [r EXCEPT !.pc = l, !.i = 1]]

\* One turn of the loop, with the locals r.
Turn(c, r) == s' = [s EXCEPT ![c] = [r EXCEPT !.i = @ + 1]]

Quiet == UNCHANGED <<state, attr, times, no_scheduled, ticks, cproc>>

\* RBI, in C's integers: a negative numerator gives 0.  (p->rbi is assigned here, by
\* allocproc and by set_priority, but read only by the next statement of this pass:
\* it is not a variable of the model.)
Rbi(r, st, w) == LET a == (3 * r - st - w) * 50 IN IF a > 0 THEN a \div (r + st + w + 1) ELSE 0

Least(a, b) == IF a < b THEN a ELSE b

\* First pass: bring dp up to date and find its maximum.
MaxPass(c) ==
  LET p == s[c].i IN
  /\ At(c, "max") /\ p <= NPROC
  /\ IF Runnable(p)
     THEN /\ dp' = [dp EXCEPT ![p] = Least(sp[p] + Rbi(runtime[p], stime[p], wtime[p]), 100)]
          /\ Turn(c, [s[c] EXCEPT !.max = IF dp'[p] > @ THEN dp'[p] ELSE @])
     ELSE Turn(c, s[c]) /\ UNCHANGED dp
  /\ UNCHANGED <<state, sp, start_time, ctime, policy, times, no_scheduled, ticks, cproc>>

MaxDone(c) ==
  /\ At(c, "max") /\ s[c].i > NPROC
  /\ Goto(c, s[c], "collect")
  /\ Quiet

\* Second pass: the processes with that priority.
Collect(c) ==
  LET p == s[c].i IN
  /\ At(c, "collect") /\ p <= NPROC
  /\ Turn(c, IF Runnable(p) /\ dp[p] = s[c].max THEN [s[c] EXCEPT !.arr = Append(@, p)] ELSE s[c])
  /\ Quiet

\* arr[0]->no_scheduled is read without the lock.
CollectDone(c) ==
  /\ At(c, "collect") /\ s[c].i > NPROC
  /\ IF s[c].arr = <<>>
     THEN Goto(c, s[c], "fallback")
     ELSE Goto(c, [s[c] EXCEPT !.no_sched = no_scheduled[s[c].arr[1]]], "least")
  /\ Quiet

\* The least number of times scheduled.
LeastPass(c) ==
  LET p == s[c].arr[s[c].i] IN
  /\ At(c, "least") /\ s[c].i <= Len(s[c].arr)
  /\ Turn(c, IF Runnable(p) /\ no_scheduled[p] < s[c].no_sched
             THEN [s[c] EXCEPT !.no_sched = no_scheduled[p], !.ind = s[c].i] ELSE s[c])
  /\ Quiet

LeastDone(c) ==
  /\ At(c, "least") /\ s[c].i > Len(s[c].arr)
  /\ Goto(c, s[c], "tied")
  /\ Quiet

Tied(p, c) == Runnable(p) /\ no_scheduled[p] = s[c].no_sched

CountTied(c) ==
  LET p == s[c].arr[s[c].i] IN
  /\ At(c, "tied") /\ s[c].i <= Len(s[c].arr)
  /\ Turn(c, IF Tied(p, c) THEN [s[c] EXCEPT !.count = @ + 1] ELSE s[c])
  /\ Quiet

CountTiedDone(c) ==
  /\ At(c, "tied") /\ s[c].i > Len(s[c].arr)
  /\ CASE s[c].count = 0 -> Goto(c, Top, Top.pc)
       [] s[c].count = 1 -> Goto(c, [s[c] EXCEPT !.sel = s[c].arr[s[c].ind]], "dispatch")
       [] OTHER          -> Goto(c, s[c], "arr2")
  /\ Quiet

\* The processes still tied go to arr2.
Arr2(c) ==
  LET p == s[c].arr[s[c].i] IN
  /\ At(c, "arr2") /\ s[c].i <= Len(s[c].arr)
  /\ Turn(c, IF Tied(p, c) THEN [s[c] EXCEPT !.arr2 = Append(@, p)] ELSE s[c])
  /\ Quiet

\* arr2[0] is read whether or not arr2 got an element.  ("no_sched" is min_start from
\* here on, and "ind" is ind2.)
Arr2Done(c) ==
  /\ At(c, "arr2") /\ s[c].i > Len(s[c].arr)
  /\ IF s[c].arr2 = <<>>
     THEN Goto(c, s[c], "wild")
     ELSE Goto(c, [s[c] EXCEPT !.no_sched = start_time[s[c].arr2[1]], !.ind = 1], "first")
  /\ Quiet

\* Uninitialised arr2[0]: a pointer left on the stack by an earlier round, or
\* a bad address and a kernel page fault.
WildRead(c) ==
  /\ At(c, "wild")
  /\ \/ \E p \in Slot : Goto(c, [Top EXCEPT !.sel = p], "dispatch")
     \/ Goto(c, Top, "fault")
  /\ Quiet

\* Mutant: the comparison of the ages is the wrong way round.
FirstLatest(c) ==
  LET p == s[c].arr2[s[c].i] IN
  /\ At(c, "first") /\ s[c].i <= Len(s[c].arr2)
  /\ Turn(c, IF Runnable(p) /\ ctime[p] > s[c].no_sched
             THEN [s[c] EXCEPT !.no_sched = ctime[p], !.ind = s[c].i] ELSE s[c])
  /\ Quiet

\* The first created of those.
First(c) ==
  LET p == s[c].arr2[s[c].i] IN
  /\ At(c, "first") /\ s[c].i <= Len(s[c].arr2)
  /\ Turn(c, IF Runnable(p) /\ ctime[p] < s[c].no_sched
             THEN [s[c] EXCEPT !.no_sched = ctime[p], !.ind = s[c].i] ELSE s[c])
  /\ Quiet

FirstDone(c) ==
  /\ At(c, "first") /\ s[c].i > Len(s[c].arr2)
  /\ Goto(c, [s[c] EXCEPT !.sel = s[c].arr2[s[c].ind]], "dispatch")
  /\ Quiet

-----------------------------------------------------------------------------
(* The context switch.  r: where scheduler() goes on when p comes back.    *)

Run(c, p, r) ==
  /\ no_scheduled[p] < MaxRuns
  /\ state' = [state EXCEPT ![p] = "RUNNING"]
  /\ cproc' = [cproc EXCEPT ![c] = p]
  /\ s' = [s EXCEPT ![c] = [r EXCEPT !.sel = NoProc]]

\* PBS counts the run and forgets the recent past (but wtime).
RunPbs(c, p, r) ==
  /\ Run(c, p, r)
  /\ no_scheduled' = [no_scheduled EXCEPT ![p] = @ + 1]
  /\ stime' = [stime EXCEPT ![p] = 0]
  /\ runtime' = [runtime EXCEPT ![p] = 0]
  /\ UNCHANGED <<attr, wtime, ticks>>

\* Mutant: the process is not looked at again under its lock.
DispatchUnchecked(c) == At(c, "dispatch") /\ RunPbs(c, s[c].sel, Top)

Dispatch(c) ==
  /\ At(c, "dispatch")
  /\ IF Runnable(s[c].sel)
     THEN RunPbs(c, s[c].sel, Top)
     ELSE Goto(c, Top, Top.pc) /\ Quiet

\* Nobody had the maximum: look again for one that has it.
Fallback(c) ==
  LET p == s[c].i IN
  /\ At(c, "fallback") /\ cproc[c] = NoProc /\ p <= NPROC
  /\ IF Runnable(p) /\ dp[p] = s[c].max
     THEN RunPbs(c, p, [s[c] EXCEPT !.i = @ + 1])
     ELSE Turn(c, s[c]) /\ Quiet

\* Mutant: round robin starts over after a run.
RoundRobinRestarts(c) ==
  LET p == s[c].i IN
  /\ At(c, "rr") /\ cproc[c] = NoProc /\ p <= NPROC
  /\ IF Runnable(p)
     THEN Run(c, p, Top) /\ UNCHANGED <<attr, times, no_scheduled, ticks>>
     ELSE Turn(c, s[c]) /\ Quiet

\* Round robin: run every runnable process in turn.
RoundRobin(c) ==
  LET p == s[c].i IN
  /\ At(c, "rr") /\ cproc[c] = NoProc /\ p <= NPROC
  /\ IF Runnable(p)
     THEN Run(c, p, [s[c] EXCEPT !.i = @ + 1]) /\ UNCHANGED <<attr, times, no_scheduled, ticks>>
     ELSE Turn(c, s[c]) /\ Quiet

RoundDone(c) ==
  /\ s[c].pc \in {"fallback", "rr"} /\ cproc[c] = NoProc /\ s[c].i > NPROC
  /\ Goto(c, Top, Top.pc)
  /\ Quiet

-----------------------------------------------------------------------------
(* What the running process, and interrupts, do.                           *)

\* The process on c goes to state x and the CPU back to the scheduler (sched()).
Leave(c, x) ==
  /\ cproc[c] # NoProc
  /\ state' = [state EXCEPT ![cproc[c]] = x]
  /\ cproc' = [cproc EXCEPT ![c] = NoProc]

\* yield (timer interrupt), sleep, exit.
Yield(c) == Leave(c, "RUNNABLE") /\ UNCHANGED <<attr, times, no_scheduled, ticks, s>>
Sleep(c) == Leave(c, "SLEEPING") /\ UNCHANGED <<attr, times, no_scheduled, ticks, s>>
Exit(c) == /\ cproc[c] # 1
           /\ Leave(c, "ZOMBIE") /\ UNCHANGED <<attr, times, no_scheduled, ticks, s>>

\* wakeup, by a process or an interrupt handler.
Wakeup(p) ==
  /\ state[p] = "SLEEPING"
  /\ state' = [state EXCEPT ![p] = "RUNNABLE"]
  /\ UNCHANGED <<attr, times, no_scheduled, ticks, cproc, s>>

\* Slot p gets the values allocproc gives a process created at tick t.
Defaults(p, t) ==
  /\ sp' = [sp EXCEPT ![p] = 50] /\ dp' = [dp EXCEPT ![p] = 75]
  /\ runtime' = [runtime EXCEPT ![p] = 0] /\ stime' = [stime EXCEPT ![p] = 0]
  /\ wtime' = [wtime EXCEPT ![p] = 0] /\ no_scheduled' = [no_scheduled EXCEPT ![p] = 0]
  /\ ctime' = [ctime EXCEPT ![p] = t]

\* wait, by the process on c, frees the slot of a zombie.  (What it leaves in the slot
\* is not read before allocproc sets it again, so the model sets it now.)
Reap(c, p) ==
  /\ cproc[c] # NoProc /\ state[p] = "ZOMBIE"
  /\ state' = [state EXCEPT ![p] = "UNUSED"]
  /\ Defaults(p, 0) /\ start_time' = [start_time EXCEPT ![p] = 0]
  /\ UNCHANGED <<ticks, policy, cproc, s>>

\* fork by the process on c: allocproc, then RUNNABLE.  allocproc reads ticks twice,
\* for start_time and for ctime, with the interrupts of its hart off: if there is a
\* tick in between it is because another hart takes the timer interrupt.
Fork(c, p) ==
  /\ cproc[c] # NoProc /\ state[p] = "UNUSED" /\ \A q \in 1..(p - 1) : state[q] # "UNUSED"
  /\ state' = [state EXCEPT ![p] = "RUNNABLE"]
  /\ Defaults(p, ticks)
  /\ \E t \in {ticks} \cup {ticks - 1 : d \in CPU \ {c}} : t >= 0 /\ start_time' = [start_time EXCEPT ![p] = t]
  /\ UNCHANGED <<ticks, policy, cproc, s>>

\* clockintr: ticks and update_time.
Clock ==
  /\ ticks < MaxTicks
  /\ ticks' = ticks + 1
  /\ runtime' = [p \in Slot |-> runtime[p] + IF state[p] = "RUNNING" THEN 1 ELSE 0]
  /\ stime' = [p \in Slot |-> stime[p] + IF state[p] = "SLEEPING" THEN 1 ELSE 0]
  /\ wtime' = [p \in Slot |-> wtime[p] + IF state[p] = "RUNNABLE" THEN 1 ELSE 0]
  /\ UNCHANGED <<state, attr, no_scheduled, cproc, s>>

\* set_priority(q, n) by the process on c, which yields when new_dp > old_dp.
SetPriority(c, q, n) ==
  /\ cproc[c] # NoProc /\ state[q] # "UNUSED"
  /\ sp' = [sp EXCEPT ![q] = n]
  /\ IF Least(n + 25, 100) > dp[q] THEN Leave(c, "RUNNABLE") ELSE UNCHANGED <<state, cproc>>
  /\ UNCHANGED <<dp, start_time, ctime, policy, times, no_scheduled, ticks, s>>

\* set_priority for a pid there is not: old_dp is 0, so the caller yields.
SetPriorityUnknown(c) ==
  /\ Leave(c, "RUNNABLE")
  /\ UNCHANGED <<attr, times, no_scheduled, ticks, s>>

Idle(c) == cproc[c] = NoProc

Choose(c) ==
  Idle(c) /\ \/ MaxPass(c) \/ MaxDone(c) \/ Collect(c) \/ CollectDone(c)
             \/ LeastPass(c) \/ LeastDone(c) \/ CountTied(c) \/ CountTiedDone(c)
             \/ Arr2(c) \/ Arr2Done(c) \/ WildRead(c) \/ First(c) \/ FirstDone(c)
             \/ Dispatch(c) \/ Fallback(c) \/ RoundRobin(c) \/ RoundDone(c)

Next ==
  \/ \E c \in CPU : \/ Choose(c)
                    \/ Yield(c) \/ Sleep(c) \/ Exit(c) \/ SetPriorityUnknown(c)
                    \/ \E p \in Slot : Fork(c, p) \/ Reap(c, p) \/ \E n \in Prio : SetPriority(c, p, n)
  \/ \E p \in Slot : Wakeup(p)
  \/ Clock

Spec == Init /\ [][Next]_vars

\* A CPU without a process keeps executing scheduler().
LiveSpec == Spec /\ \A c \in CPU : WF_vars(Choose(c))

\* Besides, the timer interrupts a process that runs.
FairSpec == LiveSpec /\ \A c \in CPU : WF_vars(Yield(c))

-----------------------------------------------------------------------------
\* However stale the choice of a CPU is when it makes it, a process runs on at most
\* one CPU, and runs exactly when it is some CPU's process.
RunsOnOneCpu ==
  /\ \A c, d \in CPU : cproc[c] = cproc[d] /\ cproc[c] # NoProc => c = d
  /\ \A p \in Slot : state[p] = "RUNNING" <=> \E c \in CPU : cproc[c] = p

\* On one CPU, the process about to be dispatched is, among all the runnable processes
\* collected with the same priority, one scheduled the least often, and of those that
\* were, one that started first, although it is found in five passes with a tick or a
\* wakeup between any two of them: "we use the number of times the process has been
\* scheduled to break the tie. If the tie remains, use the start-time" (README).
TieBreak ==
  \A c \in CPU : At(c, "dispatch") =>
    LET p == s[c].sel IN
    \A q \in {s[c].arr[i] : i \in 1..Len(s[c].arr)} :
      /\ Runnable(p) /\ Runnable(q)
      /\ \/ no_scheduled[p] < no_scheduled[q]
         \/ no_scheduled[p] = no_scheduled[q] /\ start_time[p] <= start_time[q]

\* "selects the process with the highest priority for execution", where "A smaller
\* value will represent higher priority" (README).
PicksHighestPriority ==
  \A c \in CPU : At(c, "dispatch") => \A q \in Slot : Runnable(q) => dp[s[c].sel] <= dp[q]

\* scheduler() only ever runs a process it has chosen ("choose a process to run",
\* proc.c): it does not read arr2[0] before it is set.
ChoosesBeforeRunning == \A c \in CPU : ~At(c, "wild")

\* "In case the priority of the process increases(the value is lower than before),
\* then rescheduling should be done" (README): set_priority then yields.
RaiseReschedules ==
  [][\A p \in Slot : sp'[p] < sp[p] /\ state[p] # "UNUSED" => cproc' # cproc]_vars

\* The README's formula for the recent behaviour index.
ReadmeRbi(r, st, w) ==
  LET a == 3 * r - st - w * 50 IN IF a > 0 THEN a \div (r + w + st + 1) ELSE 0

\* A priority is computed by that formula.
RbiAsDocumented ==
  \A p \in Slot : Rbi(runtime[p], stime[p], wtime[p]) = ReadmeRbi(runtime[p], stime[p], wtime[p])

\* A runnable process does not wait for ever while CPUs have nothing to run (up to
\* the bound on runs).
WorkGetsCpu ==
  (\E p \in Slot : Runnable(p))
    ~> (\E c \in CPU : cproc[c] # NoProc) \/ (\E p \in Slot : no_scheduled[p] = MaxRuns)

\* Round robin starves no one: a runnable process gets to run.
EveryoneRuns == \A p \in Slot : (policy = "RR" /\ Runnable(p)) ~> state[p] = "RUNNING"
=============================================================================
