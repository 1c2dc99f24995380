--------------------------- MODULE ProcLifeProofs ---------------------------
(***************************************************************************)
(* Proofs about the process table, for every NPROC and every bound: no     *)
(* wakeup of wait or of sys_sleep is lost, every process has a live        *)
(* parent, and kill marks what it names.                                   *)
(*                                                                         *)
(* LifeInv says where a process can be in each state and which of          *)
(* wait_lock and tickslock it then holds (Places).  With the two locks,    *)
(* the parent links (Families), the child a fork is making (Forks), what   *)
(* wait has seen (Waits) and what sys_sleep has seen (Sleeps) cannot       *)
(* change between the look and the sleep.  One lemma per part shows that   *)
(* every action keeps it; the actions that leave a part alone are dealt    *)
(* with by a Steady condition on single slots.                             *)
(***************************************************************************)
EXTENDS ProcLife, TLAPS

States == {"UNUSED", "USED", "SLEEPING", "RUNNABLE", "RUNNING", "ZOMBIE"}
Labels == {"user", "fork_parent", "fork_run", "exit", "wait", "wait_sleep",
           "tick_lock", "tick_loop", "tick_sleep"}

\* The types, without the bounds of TypeOK: nothing here depends on them.
LifeType ==
  /\ state \in [Slot -> States] /\ pc \in [Slot -> Labels]
  /\ pid \in [Slot -> Nat] /\ nextpid \in Nat \ {0, 1}
  /\ parent \in [Slot -> Slot \cup {Nobody}]
  /\ chan \in [Slot -> Slot \cup {Nobody, OnTicks}]
  /\ killed \in [Slot -> BOOLEAN] /\ named \in [Slot -> Int]
  /\ np \in [Slot -> Slot] /\ due \in [Slot -> Nat]
  /\ wait_lock \in Slot \cup {Nobody} /\ tickslock \in Slot \cup {Nobody, ClockHand}
  /\ ticks \in Nat /\ upd \in 0..(NPROC + 1)

\* The states of a process that has been started and has not exited.
Alive == {"SLEEPING", "RUNNABLE", "RUNNING"}

\* Where a process may be in the kernel, by its state, and which lock it has there.
Place(p) ==
  /\ state[p] \in {"UNUSED", "USED"} => pc[p] = "user"
  /\ state[p] = "ZOMBIE" => pc[p] = "exit"
  /\ pc[p] = "exit" => state[p] \in {"RUNNING", "ZOMBIE"} /\ p # initproc
  /\ pc[p] \in {"wait_sleep", "tick_loop", "tick_sleep"} => state[p] = "RUNNING"
  /\ state[p] = "SLEEPING" =>
       (pc[p] = "wait" /\ chan[p] = p) \/ (pc[p] = "tick_lock" /\ chan[p] = OnTicks)
  /\ wait_lock = p <=> state[p] = "RUNNING" /\ pc[p] \in {"exit", "wait_sleep"}
  /\ tickslock = p <=> pc[p] \in {"tick_loop", "tick_sleep"}

Places == (\A p \in Slot : Place(p)) /\ (tickslock = ClockHand <=> upd # 0)

\* Parents: who has children is alive and not past reparent.
Family(c) ==
  /\ parent[c] # Nobody => state[parent[c]] \in Alive /\ pc[parent[c]] # "exit"
  /\ c = initproc \/ state[c] = "UNUSED" => parent[c] = Nobody
  /\ c # initproc /\ state[c] \notin {"UNUSED", "USED"} => parent[c] # Nobody

Families == state[initproc] \in Alive /\ \A c \in Slot : Family(c)

\* fork, from allocproc to RUNNABLE: the child is USED, nobody else is making it, and its
\* parent is set by the step under wait_lock.
Forking(p) == pc[p] \in {"fork_parent", "fork_run"}

Forks ==
  /\ \A p \in Slot : Forking(p) =>
       /\ state[np[p]] = "USED"
       /\ parent[np[p]] = IF pc[p] = "fork_run" THEN p ELSE Nobody
  /\ \A p, q \in Slot : Forking(p) /\ Forking(q) /\ np[p] = np[q] => p = q

\* wait: between the scan under wait_lock and the end of the sleep there is a child, and no
\* zombie among the children; exit has woken the parent.
Waiting(p) == pc[p] = "wait_sleep" \/ (state[p] = "SLEEPING" /\ pc[p] = "wait")

Exiting(p) == state[p] = "RUNNING" /\ pc[p] = "exit"

Waits ==
  /\ \A p \in Slot : Waiting(p) => NoZombie(p) /\ \E c \in Slot : parent[c] = p
  /\ \A p \in Slot : Exiting(p) => ~Waiting(parent[p])

\* sys_sleep: the test is still right while tickslock is held.
Sleeps ==
  \A p \in Slot :
    /\ pc[p] = "tick_sleep" => ticks < due[p]
    /\ state[p] = "SLEEPING" /\ pc[p] = "tick_lock" => ticks < due[p] \/ upd # 0

\* A pid is given once; the free slots, and only they, have none.
Pids ==
  /\ \A p \in Slot : pid[p] < nextpid /\ (state[p] = "UNUSED" <=> pid[p] = 0)
  /\ \A p, q \in Slot : pid[p] = pid[q] /\ pid[p] # 0 => p = q

\* kill: a killed slot was named by its pid, or by pid 0, when it was free.
Kills ==
  \A p \in Slot : killed[p] => named[p] \in {pid[p], 0}

LifeInv == LifeType /\ Places /\ Families /\ Forks /\ Waits /\ Sleeps /\ Pids /\ Kills
-----------------------------------------------------------------------------
(* The constants.                                                          *)

\* The stand-ins for null, &ticks and the interrupt handler are not slots.
LEMMA Slots ==
  /\ initproc \in Slot /\ Nobody \notin Slot /\ OnTicks \notin Slot /\ ClockHand \notin Slot
  /\ Nobody # OnTicks /\ Nobody # ClockHand
BY ProcLifeAssumption DEF Slot, initproc, Nobody, OnTicks, ClockHand

\* freeproc, slot by slot.
LEMMA Frees ==
  ASSUME LifeType, NEW c \in Slot, Freeproc(c)
  PROVE  /\ state' \in [Slot -> States] /\ pid' \in [Slot -> Nat]
         /\ parent' \in [Slot -> Slot \cup {Nobody}]
         /\ chan' \in [Slot -> Slot \cup {Nobody, OnTicks}]
         /\ killed' \in [Slot -> BOOLEAN] /\ named' \in [Slot -> Int]
         /\ \A s \in Slot : /\ state'[s] = IF s = c THEN "UNUSED" ELSE state[s]
                            /\ pid'[s] = IF s = c THEN 0 ELSE pid[s]
                            /\ parent'[s] = IF s = c THEN Nobody ELSE parent[s]
                            /\ chan'[s] = IF s = c THEN Nobody ELSE chan[s]
<1>1. /\ state' \in [Slot -> States] /\ pid' \in [Slot -> Nat]
      /\ parent' \in [Slot -> Slot \cup {Nobody}]
      /\ chan' \in [Slot -> Slot \cup {Nobody, OnTicks}]
  BY Zenon DEF LifeType, Freeproc, FreeprocWith, States
<1>2. killed' \in [Slot -> BOOLEAN]
  BY ZenonT(40) DEF LifeType, Freeproc, FreeprocWith
<1>3. named' \in [Slot -> Int]
  BY DEF LifeType, Freeproc, FreeprocWith, NotNamed
<1> QED
  BY <1>1, <1>2, <1>3 DEF LifeType, Freeproc, FreeprocWith

\* Every step keeps the types.
LEMMA TypeStep ==
  ASSUME LifeType, [Next]_vars
  PROVE  LifeType'
<1> USE Slots DEF LifeType, acct, clock
<1>l. Labels = {"user", "fork_parent", "fork_run", "exit", "wait", "wait_sleep",
           "tick_lock", "tick_loop", "tick_sleep"} /\ 
      States = {"UNUSED", "USED", "SLEEPING", "RUNNABLE", "RUNNING", "ZOMBIE"}
  BY DEF Labels, States
<1>1. ASSUME NEW p \in Slot, ForkParent(p) \/ ForkRun(p) PROVE LifeType'
  BY <1>1, <1>l DEF ForkParent, ForkRun, Goto
<1>2. ASSUME NEW p \in Slot, ExitZombie(p) \/ ExitReparent(p) PROVE LifeType'
  <2>1. CASE ExitZombie(p)
    BY <2>1, <1>l DEF ExitZombie
  <2>2. CASE ExitReparent(p)
    <3>1. state' \in [Slot -> States] /\ pc' \in [Slot -> Labels] /\ parent' \in [Slot -> Slot \cup {Nobody}]
      BY <2>2, <1>l DEF ExitReparent, ExitWith, Wakeup, Goto
    <3>2. UNCHANGED <<pid, nextpid, chan, killed, named, np, due, clock>> /\ wait_lock' = p
      BY <2>2 DEF ExitReparent, ExitWith
    <3> QED
      BY <3>1, <3>2
  <2> QED
    BY <1>2, <2>1, <2>2
<1>3. ASSUME NEW p \in Slot, WaitFails(p) \/ WaitAgain(p) \/ WaitSleep(p) \/ WaitEnter(p) PROVE LifeType'
  BY <1>3, <1>l, SMTT(30) DEF WaitFails, WaitAgain, WaitSleep, WaitEnter, Goto, At
<1>4. ASSUME NEW p \in Slot, NEW c \in Slot, WaitReap(p, c) \/ WaitBadAddress(p, c) PROVE LifeType'
  <2>1. CASE WaitReap(p, c)
    BY <2>1, <1>l, Frees DEF WaitReap
  <2>2. CASE WaitBadAddress(p, c)
    BY <2>2, <1>l DEF WaitBadAddress, Goto
  <2> QED
    BY <1>4, <2>1, <2>2
<1>5. ASSUME NEW p \in Slot, NEW c \in Slot, ForkAlloc(p, c) \/ ForkFails(p, c) PROVE LifeType'
  <2>1. CASE ForkAlloc(p, c)
    BY <2>1, <1>l DEF ForkAlloc, Goto
  <2>2. CASE ForkFails(p, c)
    BY <2>2, <1>l, Frees DEF ForkFails
  <2> QED
    BY <1>5, <2>1, <2>2
<1>k. ASSUME NEW p \in Slot, NEW c \in Slot, Kill(p, c) PROVE LifeType'
  <2>1. named' \in [Slot -> Int]
    BY <1>k DEF Kill
  <2>2. killed' \in [Slot -> BOOLEAN] /\ named' \in [Slot -> Int]
    BY <1>k, <2>1, Zenon DEF Kill
  <2> QED
    BY <1>k, <1>l, <2>2 DEF Kill
<1>6. ASSUME NEW p \in Slot, Dispatch(p) \/ Preempt(p) PROVE LifeType'
  BY <1>6, <1>l DEF Dispatch, Preempt
<1>7. ASSUME NEW p \in Slot, SleepRelock(p) \/ SleepDone(p) \/ SleepTest(p) \/ SleepTicks(p) PROVE LifeType'
  BY <1>7, <1>l DEF SleepRelock, SleepDone, SleepTest, SleepTicks, Goto, At
<1>8. ASSUME NEW p \in Slot, NEW n \in 1..MaxSleep, SleepEnter(p, n) PROVE LifeType'
  BY <1>8, <1>l DEF SleepEnter, Goto
<1>9. CASE Interrupt
  <2>1. CASE ClockTick
    BY <2>1, ProcLifeAssumption DEF ClockTick
  <2>2. CASE UpdateTime
    <3>1. /\ UNCHANGED <<state, pid, parent, chan, killed, pc, np, due, nextpid, wait_lock, tickslock, ticks, named>>
          /\ upd \in Slot /\ upd' = upd + 1
      BY <2>2 DEF UpdateTime
    <3>2. upd' \in 0..(NPROC + 1)
      BY <3>1, ProcLifeAssumption DEF Slot
    <3> QED
      BY <3>1, <3>2
  <2>3. CASE ClockWakeup
    BY <2>3, <1>l, ProcLifeAssumption DEF ClockWakeup, Wakeup
  <2> QED
    BY <1>9, <2>1, <2>2, <2>3 DEF Interrupt
<1>10. CASE UNCHANGED vars
  BY <1>10 DEF vars
<1> QED
  BY <1>1, <1>2, <1>3, <1>4, <1>5, <1>6, <1>7, <1>8, <1>9, <1>10, <1>k DEF Next, Kernel, User

-----------------------------------------------------------------------------
(* Places.                                                                 *)

\* Every system call, and the clock, keeps each process where its state and the locks say.
LEMMA PlacesStep ==
  ASSUME LifeType, Places, Forks, [Next]_vars
  PROVE  Places'
<1> USE Slots DEF clock
<1>t. /\ state \in [Slot -> States] /\ pc \in [Slot -> Labels]
      /\ chan \in [Slot -> Slot \cup {Nobody, OnTicks}] /\ np \in [Slot -> Slot]
  BY DEF LifeType
<1>p. \A p \in Slot : Place(p)
  BY DEF Places
<1>u. tickslock = ClockHand <=> upd # 0
  BY DEF Places
<1>s. SUFFICES ASSUME NEW s \in Slot PROVE Place(s)' /\ (tickslock' = ClockHand <=> upd' # 0)
  BY DEF Places
<1> DEFINE G == Place(s)' /\ (tickslock' = ClockHand <=> upd' # 0)
<1>1. ASSUME NEW p \in Slot, ForkParent(p) PROVE G
  BY <1>1, <1>p, <1>t, <1>u DEF ForkParent, Goto, At, Place
<1>2. ASSUME NEW p \in Slot, ForkRun(p) PROVE G
  <2>1. state[np[p]] = "USED"
    BY <1>2 DEF Forks, Forking, ForkRun, At
  <2> QED
    BY <1>2, <1>p, <1>t, <1>u, <2>1 DEF ForkRun, Goto, At, Place
<1>3. ASSUME NEW p \in Slot, ExitZombie(p) PROVE G
  BY <1>3, <1>p, <1>t, <1>u DEF ExitZombie, At, Place
<1>4. ASSUME NEW p \in Slot, ExitReparent(p) PROVE G
  BY <1>4, <1>p, <1>t, <1>u DEF ExitReparent, ExitWith, Wakeup, Goto, At, Place
<1>5. ASSUME NEW p \in Slot, WaitFails(p) \/ WaitAgain(p) \/ WaitEnter(p) PROVE G
  BY <1>5, <1>p, <1>t, <1>u DEF WaitFails, WaitAgain, WaitEnter, InUser, Goto, At, Place
<1>6. ASSUME NEW p \in Slot, WaitSleep(p) PROVE G
  BY <1>6, <1>p, <1>t, <1>u DEF WaitSleep, Goto, At, Place
<1>7. ASSUME NEW p \in Slot, NEW c \in Slot, WaitReap(p, c) PROVE G
  <2>1. /\ \A r \in Slot : /\ state'[r] = IF r = c THEN "UNUSED" ELSE state[r]
                           /\ pc'[r] = IF r \in {p, c} THEN "user" ELSE pc[r]
                           /\ r # c => chan'[r] = chan[r]
        /\ state[c] = "ZOMBIE" /\ At(p, "wait") /\ wait_lock = Nobody /\ UNCHANGED <<wait_lock, tickslock, upd>>
    BY <1>7, <1>t, Frees DEF WaitReap, FirstZombie
  <2> QED
    BY <2>1, <1>p, <1>u DEF Place, At
<1>8. ASSUME NEW p \in Slot, NEW c \in Slot, WaitBadAddress(p, c) PROVE G
  BY <1>8, <1>p, <1>t, <1>u DEF WaitBadAddress, Goto, At, Place
<1>9. ASSUME NEW p \in Slot, NEW c \in Slot, ForkAlloc(p, c) PROVE G
  BY <1>9, <1>p, <1>t, <1>u DEF ForkAlloc, FirstUnused, InUser, Goto, At, Place
<1>10. ASSUME NEW p \in Slot, NEW c \in Slot, ForkFails(p, c) PROVE G
  <2>1. /\ \A r \in Slot : state'[r] = state[r] /\ (r # c => chan'[r] = chan[r])
        /\ state[c] = "UNUSED" /\ UNCHANGED <<pc, wait_lock, tickslock, upd>>
    BY <1>10, Frees DEF ForkFails, FirstUnused
  <2> QED
    BY <2>1, <1>p, <1>u DEF Place
<1>11. ASSUME NEW p \in Slot, NEW c \in Slot, Kill(p, c) PROVE G
  BY <1>11, <1>p, <1>t, <1>u DEF Kill, Place
<1>12. ASSUME NEW p \in Slot, Dispatch(p) \/ Preempt(p) PROVE G
  BY <1>12, <1>p, <1>t, <1>u DEF Dispatch, Preempt, Place
<1>13. ASSUME NEW p \in Slot, SleepRelock(p) \/ SleepDone(p) \/ SleepTest(p) PROVE G
  BY <1>13, <1>p, <1>t, <1>u DEF SleepRelock, SleepDone, SleepTest, Goto, At, Place
<1>14. ASSUME NEW p \in Slot, SleepTicks(p) PROVE G
  BY <1>14, <1>p, <1>t, <1>u DEF SleepTicks, Goto, At, Place
<1>15. ASSUME NEW p \in Slot, NEW n \in 1..MaxSleep, SleepEnter(p, n) PROVE G
  BY <1>15, <1>p, <1>t, <1>u DEF SleepEnter, InUser, Goto, At, Place
<1>16. CASE ClockTick
  BY <1>16, <1>p, <1>t, <1>u DEF ClockTick, Place
<1>17. CASE UpdateTime
  <2>1. upd' # 0 /\ upd # 0
    BY <1>17, ProcLifeAssumption DEF UpdateTime, Slot
  <2> QED
    BY <1>17, <1>p, <1>u, <2>1 DEF UpdateTime, Place
<1>18. CASE ClockWakeup
  <2>1. upd # 0
    BY <1>18, ProcLifeAssumption DEF ClockWakeup
  <2> QED
    BY <1>18, <1>p, <1>t, <1>u, <2>1 DEF ClockWakeup, Wakeup, Place
<1>19. CASE UNCHANGED vars
  BY <1>19, <1>p, <1>u DEF vars, Place
<1> QED
  BY <1>1, <1>2, <1>3, <1>4, <1>5, <1>6, <1>7, <1>8, <1>9, <1>10, <1>11, <1>12, <1>13, <1>14, <1>15,
     <1>16, <1>17, <1>18, <1>19 DEF Next, Kernel, User, Interrupt

-----------------------------------------------------------------------------
(* Families.                                                               *)

\* Slot r does not stop living, get past reparent or change hands.
Steady(r) ==
  /\ state[r] \in Alive => state'[r] \in Alive /\ (pc[r] # "exit" => pc'[r] # "exit")
  /\ state[r] = "UNUSED" <=> state'[r] = "UNUSED"
  /\ state[r] = "USED" <=> state'[r] = "USED"

\* A step that is Steady at every slot keeps the parent links right.
LEMMA SameFamilies ==
  ASSUME LifeType, Families, parent' = parent, \A r \in Slot : Steady(r)
  PROVE  Families'
<1>1. ASSUME NEW c \in Slot PROVE Family(c)'
  <2>1. Family(c) /\ Steady(c) /\ parent[c] \in Slot \cup {Nobody} /\ parent'[c] = parent[c]
    BY DEF Families, LifeType
  <2>2. parent[c] # Nobody => Steady(parent[c])
    BY <2>1
  <2> QED
    BY <2>1, <2>2 DEF Family, Steady
<1>2. state'[initproc] \in Alive
  BY Slots DEF Families, Steady
<1> QED
  BY <1>1, <1>2 DEF Families

\* fork, exit (reparent) and wait (freeproc) keep the parent links right: a process that
\* begins to exit has handed its children to init under wait_lock.
LEMMA FamiliesStep ==
  ASSUME LifeType, Places, Families, Forks, [Next]_vars
  PROVE  Families'
<1> USE Slots DEF clock
<1>t. /\ state \in [Slot -> States] /\ pc \in [Slot -> Labels]
      /\ parent \in [Slot -> Slot \cup {Nobody}] /\ np \in [Slot -> Slot]
  BY DEF LifeType
<1>p. \A p \in Slot : Place(p)
  BY DEF Places
<1>f. state[initproc] \in Alive /\ \A c \in Slot : Family(c)
  BY DEF Families
<1>1. ASSUME NEW p \in Slot, ForkParent(p) PROVE Families'
  <2>1. state[np[p]] = "USED"
    BY <1>1 DEF Forks, Forking, ForkParent, At
  <2> QED
    BY <1>1, <1>t, <1>f, <2>1 DEF ForkParent, Goto, At, Families, Family, Alive
<1>2. ASSUME NEW p \in Slot, ForkRun(p) PROVE Families'
  <2>1. state[np[p]] = "USED" /\ parent[np[p]] = p /\ pc[p] = "fork_run" /\ state[p] = "RUNNING"
    BY <1>2 DEF Forks, Forking, ForkRun, At
  <2> QED
    BY <1>2, <1>t, <1>f, <2>1 DEF ForkRun, Goto, Families, Family, Alive
<1>3. ASSUME NEW p \in Slot, ExitZombie(p) PROVE Families'
  <2>1. /\ state[p] = "RUNNING" /\ pc[p] = "exit" /\ p # initproc /\ UNCHANGED <<pc, parent>>
        /\ \A r \in Slot : state'[r] = IF r = p THEN "ZOMBIE" ELSE state[r]
    BY <1>3, <1>p, <1>t DEF ExitZombie, At, Place
  <2>2. \A c \in Slot : parent[c] # p
    BY <2>1, Slots DEF Families, Family
  <2> QED
    BY <1>t, <1>f, <2>1, <2>2 DEF Families, Family, Alive
<1>4. ASSUME NEW p \in Slot, ExitReparent(p) PROVE Families'
  <2>1. /\ state[p] = "RUNNING" /\ p # initproc
        /\ \A r \in Slot : /\ parent'[r] = IF parent[r] = p THEN initproc ELSE parent[r]
                           /\ pc'[r] = IF r = p THEN "exit" ELSE pc[r]
                           /\ state'[r] = state[r] \/ (state[r] = "SLEEPING" /\ state'[r] = "RUNNABLE")
    BY <1>4, <1>t DEF ExitReparent, ExitWith, Children, Wakeup, Goto, At
  <2>2. state[initproc] \in Alive /\ pc[initproc] # "exit"
    BY <1>p DEF Families, Place
  <2> QED
    BY <1>t, <1>f, <2>1, <2>2 DEF Families, Family, Alive
<1>5. ASSUME NEW p \in Slot, WaitFails(p) \/ WaitAgain(p) \/ WaitEnter(p) \/ WaitSleep(p) PROVE Families'
  <2>1. parent' = parent /\ \A r \in Slot : Steady(r)
    BY <1>5, <1>t DEF WaitFails, WaitAgain, WaitEnter, WaitSleep, InUser, Goto, At, Alive, Steady
  <2> QED
    BY <2>1, SameFamilies, Zenon
<1>7. ASSUME NEW p \in Slot, NEW c \in Slot, WaitReap(p, c) PROVE Families'
  <2>1. /\ \A r \in Slot : /\ state'[r] = IF r = c THEN "UNUSED" ELSE state[r]
                           /\ pc'[r] = IF r \in {p, c} THEN "user" ELSE pc[r]
                           /\ parent'[r] = IF r = c THEN Nobody ELSE parent[r]
        /\ state[c] = "ZOMBIE"
    BY <1>7, <1>t, Frees DEF WaitReap, FirstZombie
  <2> QED
    BY <2>1, <1>p, <1>f, <1>t DEF Place, Families, Family, Alive
<1>8. ASSUME NEW p \in Slot, NEW c \in Slot, WaitBadAddress(p, c) PROVE Families'
  <2>1. parent' = parent /\ \A r \in Slot : Steady(r)
    BY <1>8, <1>t DEF WaitBadAddress, Goto, At, Steady
  <2> QED
    BY <2>1, SameFamilies
<1>9. ASSUME NEW p \in Slot, NEW c \in Slot, ForkAlloc(p, c) PROVE Families'
  BY <1>9, <1>f, <1>t, SMTT(30) DEF ForkAlloc, FirstUnused, InUser, Goto, At, Families, Family, Alive
<1>10. ASSUME NEW p \in Slot, NEW c \in Slot, ForkFails(p, c) PROVE Families'
  <2>1. /\ \A r \in Slot : state'[r] = state[r] /\ parent'[r] = IF r = c THEN Nobody ELSE parent[r]
        /\ state[c] = "UNUSED" /\ UNCHANGED pc
    BY <1>10, Frees DEF ForkFails, FirstUnused
  <2> QED
    BY <2>1, <1>f, <1>t DEF Families, Family, Alive
<1>11. ASSUME NEW p \in Slot, NEW c \in Slot, Kill(p, c) PROVE Families'
  <2>1. parent' = parent /\ \A r \in Slot : Steady(r)
    BY <1>11, <1>t DEF Kill, Alive, Steady
  <2> QED
    BY <2>1, SameFamilies
<1>12. ASSUME NEW p \in Slot, Dispatch(p) \/ Preempt(p) PROVE Families'
  <2>1. parent' = parent /\ \A r \in Slot : Steady(r)
    BY <1>12, <1>t DEF Dispatch, Preempt, Alive, Steady
  <2> QED
    BY <2>1, SameFamilies
<1>13. ASSUME NEW p \in Slot, SleepRelock(p) \/ SleepDone(p) \/ SleepTest(p) \/ SleepTicks(p) PROVE Families'
  <2>1. parent' = parent /\ \A r \in Slot : Steady(r)
    BY <1>13, <1>t DEF SleepRelock, SleepDone, SleepTest, SleepTicks, Goto, At, Alive, Steady
  <2> QED
    BY <2>1, SameFamilies
<1>15. ASSUME NEW p \in Slot, NEW n \in 1..MaxSleep, SleepEnter(p, n) PROVE Families'
  <2>1. parent' = parent /\ \A r \in Slot : Steady(r)
    BY <1>15, <1>t DEF SleepEnter, InUser, Goto, At, Steady
  <2> QED
    BY <2>1, SameFamilies
<1>16. CASE Interrupt
  <2>1. parent' = parent /\ \A r \in Slot : Steady(r)
    BY <1>16, <1>t DEF Interrupt, ClockTick, UpdateTime, ClockWakeup, Wakeup, Alive, Steady
  <2> QED
    BY <2>1, SameFamilies, Zenon
<1>19. CASE UNCHANGED vars
  <2>1. parent' = parent /\ \A r \in Slot : Steady(r)
    BY <1>19, <1>t DEF vars, Steady
  <2> QED
    BY <2>1, SameFamilies
<1> QED
  BY <1>1, <1>2, <1>3, <1>4, <1>5, <1>7, <1>8, <1>9, <1>10, <1>11, <1>12, <1>13, <1>15, <1>16, <1>19
  DEF Next, Kernel, User

-----------------------------------------------------------------------------
(* Forks.                                                                  *)

\* Slot r does not begin, end or go on with a fork.
SteadyFork(r) ==
  /\ pc'[r] \in {"fork_parent", "fork_run"} => pc'[r] = pc[r] /\ np'[r] = np[r]
  /\ Forking(r) => state'[np[r]] = state[np[r]] /\ parent'[np[r]] = parent[np[r]]

\* A step that is SteadyFork at every slot keeps the children in the making.
LEMMA SameForks ==
  ASSUME Forks, \A r \in Slot : SteadyFork(r)
  PROVE  Forks'
BY DEF Forks, SteadyFork, Forking

\* Nobody touches the child that fork is making: it is USED, so allocproc, wait and the
\* scheduler pass it by, and reparent does not see it before its parent is set.
LEMMA ForksStep ==
  ASSUME LifeType, Places, Families, Forks, [Next]_vars
  PROVE  Forks'
<1> USE Slots DEF clock
<1>t. /\ state \in [Slot -> States] /\ pc \in [Slot -> Labels]
      /\ parent \in [Slot -> Slot \cup {Nobody}] /\ np \in [Slot -> Slot]
  BY DEF LifeType
<1>f. \A p \in Slot : /\ Forking(p) => state[np[p]] = "USED"
                      /\ pc[p] = "fork_run" => parent[np[p]] = p
                      /\ pc[p] = "fork_parent" => parent[np[p]] = Nobody
  BY DEF Forks, Forking
<1>1. ASSUME NEW p \in Slot, ForkParent(p) PROVE Forks'
  <2>1. pc[p] = "fork_parent" /\ \A q \in Slot \ {p} : Forking(q) => np[q] # np[p]
    BY <1>1 DEF ForkParent, At, Forks, Forking
  <2> QED
    BY <1>1, <1>t, <1>f, <2>1 DEF ForkParent, Goto, Forks, Forking
<1>2. ASSUME NEW p \in Slot, ForkRun(p) PROVE Forks'
  <2>1. pc[p] = "fork_run" /\ \A q \in Slot \ {p} : Forking(q) => np[q] # np[p]
    BY <1>2 DEF ForkRun, At, Forks, Forking
  <2> QED
    BY <1>2, <1>t, <1>f, <2>1 DEF ForkRun, Goto, Forks, Forking
<1>3. ASSUME NEW p \in Slot, NEW c \in Slot, ForkAlloc(p, c) PROVE Forks'
  <2>1. state[c] = "UNUSED" /\ parent[c] = Nobody
    BY <1>3 DEF ForkAlloc, FirstUnused, Families, Family
  <2> QED
    BY <1>3, <1>t, <1>f, <2>1 DEF ForkAlloc, Goto, Forks, Forking
<1>4. ASSUME NEW p \in Slot, ExitReparent(p) PROVE Forks'
  <2>1. pc[p] = "user" /\ \A q \in Slot : Forking(q) => np[q] \notin Children(p)
    BY <1>4, <1>f DEF ExitReparent, ExitWith, At, Children, Forking
  <2>2. \A r \in Slot : SteadyFork(r)
    BY <1>4, <1>t, <1>f, <2>1, Zenon DEF ExitReparent, ExitWith, Wakeup, Goto, SteadyFork, Forking
  <2> QED
    BY <2>2, SameForks
<1>5. ASSUME NEW p \in Slot, ExitZombie(p) \/ WaitFails(p) \/ WaitAgain(p) \/ WaitEnter(p) \/ WaitSleep(p)
      PROVE  Forks'
  <2>0. /\ state[p] = "RUNNING" /\ UNCHANGED <<parent, np>>
        /\ \A r \in Slot : r # p => pc'[r] = pc[r] /\ state'[r] = state[r]
        /\ pc'[p] \notin {"fork_parent", "fork_run"}
    BY <1>5, <1>t, Zenon DEF ExitZombie, WaitFails, WaitAgain, WaitEnter, WaitSleep, InUser, Goto, At
  <2>1. \A r \in Slot : SteadyFork(r)
    BY <1>t, <1>f, <2>0 DEF SteadyFork
  <2> QED
    BY <2>1, SameForks
<1>6. ASSUME NEW p \in Slot, NEW c \in Slot, WaitReap(p, c) PROVE Forks'
  <2>1. /\ \A r \in Slot : /\ state'[r] = IF r = c THEN "UNUSED" ELSE state[r]
                           /\ pc'[r] = IF r \in {p, c} THEN "user" ELSE pc[r]
                           /\ parent'[r] = IF r = c THEN Nobody ELSE parent[r]
        /\ state[c] = "ZOMBIE" /\ np' = np
    BY <1>6, <1>t, Frees, Zenon DEF WaitReap, FirstZombie
  <2>2. \A r \in Slot : SteadyFork(r)
    BY <2>1, <1>t, <1>f DEF SteadyFork
  <2> QED
    BY <2>2, SameForks
<1>7. ASSUME NEW p \in Slot, NEW c \in Slot, ForkFails(p, c) PROVE Forks'
  <2>1. /\ \A r \in Slot : state'[r] = state[r] /\ parent'[r] = IF r = c THEN Nobody ELSE parent[r]
        /\ state[c] = "UNUSED" /\ UNCHANGED <<pc, np>>
    BY <1>7, Frees, ZenonT(40) DEF ForkFails, FirstUnused
  <2>2. \A r \in Slot : SteadyFork(r)
    BY <2>1, <1>t, <1>f, SMTT(30) DEF SteadyFork
  <2> QED
    BY <2>2, SameForks
<1>8. ASSUME NEW p \in Slot, NEW c \in Slot, WaitBadAddress(p, c) \/ Kill(p, c) PROVE Forks'
  <2>1. \A r \in Slot : SteadyFork(r)
    BY <1>8, <1>t, <1>f DEF WaitBadAddress, Kill, Goto, SteadyFork
  <2> QED
    BY <2>1, SameForks
<1>9. ASSUME NEW p \in Slot, Dispatch(p) \/ Preempt(p) PROVE Forks'
  <2>1. \A r \in Slot : SteadyFork(r)
    BY <1>9, <1>t, <1>f, ZenonT(40) DEF Dispatch, Preempt, SteadyFork
  <2> QED
    BY <2>1, SameForks
<1>10. ASSUME NEW p \in Slot, SleepRelock(p) \/ SleepDone(p) \/ SleepTest(p) \/ SleepTicks(p) PROVE Forks'
  <2>1. \A r \in Slot : SteadyFork(r)
    BY <1>10, <1>t, <1>f DEF SleepRelock, SleepDone, SleepTest, SleepTicks, Goto, At, SteadyFork
  <2> QED
    BY <2>1, SameForks
<1>11. ASSUME NEW p \in Slot, NEW n \in 1..MaxSleep, SleepEnter(p, n) PROVE Forks'
  <2>1. \A r \in Slot : SteadyFork(r)
    BY <1>11, <1>t, <1>f DEF SleepEnter, Goto, SteadyFork
  <2> QED
    BY <2>1, SameForks
<1>12. CASE Interrupt \/ UNCHANGED vars
  <2>1. \A r \in Slot : SteadyFork(r)
    BY <1>12, <1>t, <1>f, ZenonT(40) DEF Interrupt, ClockTick, UpdateTime, ClockWakeup, Wakeup, SteadyFork, vars
  <2> QED
    BY <2>1, SameForks, SMTT(30)
<1> QED
  BY <1>1, <1>2, <1>3, <1>4, <1>5, <1>6, <1>7, <1>8, <1>9, <1>10, <1>11, <1>12, Zenon DEF Next, Kernel, User

-----------------------------------------------------------------------------
(* exit and wait.                                                          *)

\* Slot r does not go to sleep in wait, die, begin to exit or change its parent.
SteadyWait(r) ==
  /\ Waiting(r)' => Waiting(r)
  /\ state'[r] = "ZOMBIE" => state[r] = "ZOMBIE"
  /\ Exiting(r)' => Exiting(r)
  /\ parent'[r] = parent[r]

\* A step that is SteadyWait at every slot does not disturb a sleeper in wait.
LEMMA SameWaits ==
  ASSUME LifeType, Places, Families, Waits, \A r \in Slot : SteadyWait(r)
  PROVE  Waits'
<1> USE Slots
<1>1. parent \in [Slot -> Slot \cup {Nobody}] /\ \A r \in Slot : Exiting(r) => parent[r] \in Slot
  BY SMTT(30) DEF LifeType, Places, Place, Families, Family, Exiting
<1>2. ASSUME NEW p \in Slot, Waiting(p)' PROVE NoZombie(p)' /\ \E c \in Slot : parent'[c] = p
  <2>1. /\ Waiting(p)
        /\ \A r \in Slot : parent'[r] = parent[r] /\ (state'[r] = "ZOMBIE" => state[r] = "ZOMBIE")
    BY <1>2 DEF SteadyWait
  <2>2. NoZombie(p) /\ \E c \in Slot : parent[c] = p
    BY <2>1 DEF Waits
  <2> QED
    BY <2>1, <2>2, Zenon DEF NoZombie
<1>3. ASSUME NEW p \in Slot, Exiting(p)' PROVE ~Waiting(parent[p])'
  <2>1. Exiting(p) /\ parent'[p] = parent[p] /\ parent[p] \in Slot
    BY <1>3, <1>1, SMTT(30) DEF SteadyWait
  <2> QED
    BY <2>1, SMTT(30) DEF SteadyWait, Waits
<1> QED
  BY <1>2, <1>3 DEF Waits

\* exit wakes up the parent, and init for the children it hands on, and becomes a ZOMBIE
\* under the same wait_lock; wait scans and goes to sleep under it.  So neither can come
\* between the two halves of the other.
LEMMA WaitsStep ==
  ASSUME LifeType, Places, Families, Forks, Waits, [Next]_vars
  PROVE  Waits'
<1> USE Slots DEF clock
<1>t. /\ state \in [Slot -> States] /\ pc \in [Slot -> Labels]
      /\ parent \in [Slot -> Slot \cup {Nobody}] /\ np \in [Slot -> Slot]
  BY DEF LifeType
<1>p. \A p \in Slot : Place(p)
  BY DEF Places
<1>e. \A r \in Slot : Exiting(r) => wait_lock = r /\ parent[r] \in Slot
  BY <1>t, <1>p, Zenon DEF Place, Families, Family, Exiting
<1>w. \A r \in Slot : Waiting(r) => NoZombie(r) /\ \E c \in Slot : parent[c] = r
  BY SMTT(30) DEF Waits
<1>1. ASSUME NEW p \in Slot, ForkParent(p) PROVE Waits'
  <2>1. parent[np[p]] = Nobody /\ np[p] \in Slot /\ ~Waiting(p)
    BY <1>1, <1>t DEF ForkParent, At, Forks, Forking, Waiting
  <2>2. \A r \in Slot : ~Exiting(r) /\ ~Exiting(r)' /\ (Waiting(r)' => Waiting(r) /\ r # p)
    BY <1>1, <1>t, <1>e, <2>1 DEF ForkParent, Goto, Exiting, Waiting
  <2>3. state' = state /\ \A r \in Slot : parent'[r] = IF r = np[p] THEN p ELSE parent[r]
    BY <1>1, <1>t, Zenon DEF ForkParent
  <2> QED
    BY <1>w, <2>1, <2>2, <2>3 DEF Waits, NoZombie
<1>2. ASSUME NEW p \in Slot, ExitReparent(p) PROVE Waits'
  <2>1. /\ At(p, "user") /\ wait_lock = Nobody /\ p # initproc
        /\ \A r \in Slot : /\ parent'[r] = IF parent[r] = p THEN initproc ELSE parent[r]
                           /\ pc'[r] = IF r = p THEN "exit" ELSE pc[r]
                           /\ state'[r] = state[r] \/ (state[r] = "SLEEPING" /\ state'[r] = "RUNNABLE")
    BY <1>2, <1>t, SMTT(30) DEF ExitReparent, ExitWith, Children, Wakeup, Goto
  <2>2. \A r \in Slot : /\ Waiting(r) => state[r] = "SLEEPING" /\ chan[r] = r
                        /\ Waiting(r)' => Waiting(r) /\ state'[r] = state[r]
    BY <1>p, <2>1, Zenon DEF Place, Waiting, At
  <2>3. parent[p] \in Slot
    <3>1. Family(p) /\ state[p] = "RUNNING" /\ parent[p] \in Slot \cup {Nobody}
      BY <1>t, <2>1, SMTT(30) DEF Families, At
    <3> QED
      BY <2>1, <3>1, Zenon DEF Family
  <2>4. \A r \in Slot : /\ state[r] = "SLEEPING" /\ chan[r] = parent[p] => state'[r] = "RUNNABLE"
                        /\ state[r] = "SLEEPING" /\ chan[r] = initproc /\ Children(p) # {} => state'[r] = "RUNNABLE"
    BY <1>2, ZenonT(40) DEF ExitReparent, ExitWith, Wakeup
  <2>5. /\ \A r \in Slot : r = parent[p] => ~Waiting(r)'
        /\ \A c \in Slot : parent[c] = p => ~Waiting(initproc)'
    <3>1. \A r \in Slot : Waiting(r)' => state'[r] # "RUNNABLE" /\ state[r] = "SLEEPING" /\ chan[r] = r
      BY <2>2
    <3>2. \A c \in Slot : parent[c] = p => Children(p) # {}
      BY Zenon DEF Children
    <3> QED
      BY <2>4, <3>1, <3>2, Zenon
  <2>6. ASSUME NEW r \in Slot, Waiting(r)' PROVE NoZombie(r)' /\ \E c \in Slot : parent'[c] = r
    <3>1. r # p /\ Waiting(r)
      BY <2>1, <2>2, <2>6, ZenonT(40) DEF Waiting, At
    <3>2. PICK c \in Slot : parent[c] = r
      BY <1>w, <3>1, Zenon
    <3>3. \A d \in Slot : parent'[d] = r => parent[d] = r
      BY <2>1, <2>5, <2>6, Zenon
    <3>4. NoZombie(r)'
      BY <1>w, <2>1, <3>1, <3>3, SMTT(30) DEF NoZombie
    <3> QED
      BY <2>1, <3>1, <3>2, <3>4, SMTT(30)
  <2>7. ASSUME NEW r \in Slot, Exiting(r)' PROVE ~Waiting(parent[r])'
    <3>1. r = p
      BY <1>e, <2>1, <2>7, Zenon DEF Exiting
    <3> QED
      BY <2>1, <2>3, <2>5, <3>1
  <2> QED
    BY <2>6, <2>7, Zenon DEF Waits
<1>3. ASSUME NEW p \in Slot, ExitZombie(p) PROVE Waits'
  <2>1. Exiting(p) /\ wait_lock = p /\ parent[p] \in Slot /\ ~Waiting(parent[p])
    BY <1>3, <1>e, ZenonT(40) DEF ExitZombie, At, Exiting, Waits
  <2>2. /\ parent' = parent
        /\ \A r \in Slot : /\ pc'[r] = pc[r]
                           /\ state'[r] = IF r = p THEN "ZOMBIE" ELSE state[r]
    BY <1>3, <1>t, SMTT(30) DEF ExitZombie
  <2>3. \A r \in Slot : ~Exiting(r)' /\ (Waiting(r)' => Waiting(r) /\ r # parent[p])
    <3>1. \A r \in Slot : Exiting(r)' => Exiting(r) /\ r # p
      BY <2>2 DEF Exiting
    <3>2. \A r \in Slot : Waiting(r)' => Waiting(r)
      BY <2>1, <2>2, Zenon DEF Exiting, Waiting
    <3> QED
      BY <1>e, <2>1, <3>1, <3>2
  <2> QED
    BY <1>w, <2>2, <2>3, SMTT(30) DEF Waits, NoZombie
<1>4. ASSUME NEW p \in Slot, WaitAgain(p) PROVE Waits'
  <2>1. \A r \in Slot : ~Exiting(r)' /\ (Waiting(r)' => Waiting(r) \/ r = p)
    BY <1>4, <1>e, <1>t, Zenon DEF WaitAgain, Goto, Exiting, Waiting
  <2> QED
    BY <1>4, <1>w, <2>1 DEF WaitAgain, Waits, NoZombie
<1>5. ASSUME NEW p \in Slot, WaitSleep(p) PROVE Waits'
  <2>1. wait_lock = p /\ pc[p] = "wait_sleep" /\ ~Exiting(p) /\ Waiting(p)
    BY <1>5, <1>p DEF WaitSleep, At, Place, Waiting, Exiting
  <2>2. /\ parent' = parent
        /\ \A r \in Slot : /\ pc'[r] = IF r = p THEN "wait" ELSE pc[r]
                           /\ state'[r] = IF r = p THEN "SLEEPING" ELSE state[r]
    BY <1>5, <1>t DEF WaitSleep, Goto
  <2>3. \A r \in Slot : ~Exiting(r)' /\ (Waiting(r)' => Waiting(r))
    BY <1>e, <2>1, <2>2, Zenon DEF Exiting, Waiting
  <2> QED
    BY <1>w, <2>2, <2>3 DEF Waits, NoZombie
<1>6. ASSUME NEW p \in Slot, NEW c \in Slot, WaitReap(p, c) PROVE Waits'
  <2>1. /\ At(p, "wait") /\ wait_lock = Nobody /\ state[c] = "ZOMBIE" /\ parent[c] = p
        /\ \A r \in Slot : /\ state'[r] = IF r = c THEN "UNUSED" ELSE state[r]
                           /\ pc'[r] = IF r \in {p, c} THEN "user" ELSE pc[r]
                           /\ parent'[r] = IF r = c THEN Nobody ELSE parent[r]
    BY <1>6, <1>t, Frees, SMTT(30) DEF WaitReap, FirstZombie
  <2>2. \A r \in Slot : ~Exiting(r)' /\ (Waiting(r)' => Waiting(r) /\ r # p)
    <3>1. \A r \in Slot : Exiting(r)' => Exiting(r)
      BY <2>1 DEF Exiting
    <3>2. \A r \in Slot : Waiting(r)' => Waiting(r) /\ r # p
      BY <2>1 DEF Waiting
    <3> QED
      BY <1>e, <2>1, <3>1, <3>2, ZenonT(40)
  <2> QED
    <3>1. ASSUME NEW r \in Slot, Waiting(r)' PROVE NoZombie(r)' /\ \E d \in Slot : parent'[d] = r
      <4>1. NoZombie(r) /\ r # p
        BY <1>w, <2>2, <3>1
      <4>2. PICK d \in Slot : parent[d] = r
        BY <1>w, <2>2, <3>1
      <4>3. parent'[d] = r
        BY <2>1, <4>1, <4>2, Zenon
      <4> QED
        BY <2>1, <4>1, <4>3 DEF NoZombie
    <3> QED
      BY <2>2, <3>1, Zenon DEF Waits
<1>7. ASSUME NEW p \in Slot, ForkRun(p) PROVE Waits'
  <2>1. /\ parent' = parent /\ np[p] \in Slot /\ pc[np[p]] = "user" /\ pc[p] = "fork_run"
        /\ \A r \in Slot : /\ pc'[r] = IF r = p THEN "user" ELSE pc[r]
                           /\ state'[r] = IF r = np[p] THEN "RUNNABLE" ELSE state[r]
    BY <1>7, <1>t, <1>p, Zenon DEF ForkRun, Goto, At, Forks, Forking, Place
  <2>2. \A r \in Slot : SteadyWait(r)
    BY <2>1 DEF SteadyWait, Waiting, Exiting
  <2> QED
    BY <2>2, SameWaits, Zenon
<1>8. ASSUME NEW p \in Slot, NEW c \in Slot, ForkAlloc(p, c) PROVE Waits'
  <2>1. \A r \in Slot : SteadyWait(r)
    BY <1>8, <1>t, Zenon DEF ForkAlloc, FirstUnused, Goto, SteadyWait, Waiting, Exiting
  <2> QED
    BY <2>1, SameWaits, Zenon
<1>9. ASSUME NEW p \in Slot, NEW c \in Slot, ForkFails(p, c) PROVE Waits'
  <2>1. /\ \A r \in Slot : state'[r] = state[r] /\ parent'[r] = IF r = c THEN Nobody ELSE parent[r]
        /\ state[c] = "UNUSED" /\ parent[c] = Nobody /\ UNCHANGED pc
    BY <1>9, Frees, SMTT(30) DEF ForkFails, FirstUnused, Families, Family
  <2>2. \A r \in Slot : SteadyWait(r)
    BY <2>1, SMTT(30) DEF SteadyWait, Waiting, Exiting
  <2> QED
    BY <2>2, SameWaits
<1>10. ASSUME NEW p \in Slot, WaitFails(p) \/ WaitEnter(p) PROVE Waits'
  <2>1. \A r \in Slot : SteadyWait(r)
    BY <1>10, <1>t, ZenonT(40) DEF WaitFails, WaitEnter, InUser, Goto, At, SteadyWait, Waiting, Exiting
  <2> QED
    BY <2>1, SameWaits
<1>11. ASSUME NEW p \in Slot, NEW c \in Slot, WaitBadAddress(p, c) \/ Kill(p, c) PROVE Waits'
  <2>1. \A r \in Slot : SteadyWait(r)
    BY <1>11, <1>t DEF WaitBadAddress, Kill, Goto, SteadyWait, Waiting, Exiting
  <2> QED
    BY <2>1, SameWaits
<1>12. ASSUME NEW p \in Slot, Dispatch(p) \/ Preempt(p) PROVE Waits'
  <2>1. \A r \in Slot : SteadyWait(r)
    BY <1>12, <1>t, <1>p, Zenon DEF Dispatch, Preempt, SteadyWait, Waiting, Exiting, Place
  <2> QED
    BY <2>1, SameWaits
<1>13. ASSUME NEW p \in Slot, SleepRelock(p) \/ SleepDone(p) \/ SleepTest(p) \/ SleepTicks(p) PROVE Waits'
  <2>1. \A r \in Slot : SteadyWait(r)
    <3>1. /\ parent' = parent /\ pc'[p] \notin {"wait", "wait_sleep", "exit"} /\ state'[p] # "ZOMBIE"
          /\ \A r \in Slot : r # p => pc'[r] = pc[r] /\ state'[r] = state[r]
      BY <1>13, <1>t DEF SleepRelock, SleepDone, SleepTest, SleepTicks, At, Goto
    <3> QED
      BY <3>1, Zenon DEF SteadyWait, Waiting, Exiting
  <2> QED
    BY <2>1, SameWaits
<1>14. ASSUME NEW p \in Slot, NEW n \in 1..MaxSleep, SleepEnter(p, n) PROVE Waits'
  <2>1. \A r \in Slot : SteadyWait(r)
    BY <1>14, <1>t DEF SleepEnter, Goto, SteadyWait, Waiting, Exiting
  <2> QED
    BY <2>1, SameWaits
<1>15. CASE Interrupt \/ UNCHANGED vars
  <2>1. \A r \in Slot : SteadyWait(r)
    BY <1>15, <1>t, ZenonT(40) DEF Interrupt, ClockTick, UpdateTime, ClockWakeup, Wakeup, SteadyWait, Waiting, Exiting, vars
  <2> QED
    BY <2>1, SameWaits, SMTT(30)
<1> QED
  BY <1>1, <1>2, <1>3, <1>4, <1>5, <1>6, <1>7, <1>8, <1>9, <1>10, <1>11, <1>12, <1>13, <1>14, <1>15
  DEF Next, Kernel, User

-----------------------------------------------------------------------------
(* sys_sleep and the clock.                                                *)

\* Slot r does not test the time, go to sleep on &ticks or change what it waits for.
SteadySleep(r) ==
  /\ pc'[r] = "tick_sleep" => pc[r] = "tick_sleep"
  /\ state'[r] = "SLEEPING" /\ pc'[r] = "tick_lock" => state[r] = "SLEEPING" /\ pc[r] = "tick_lock"
  /\ pc[r] \in {"tick_sleep", "tick_lock"} => due'[r] = due[r]

\* A step that is SteadySleep at every slot does not disturb a sleeper in sys_sleep.
LEMMA SameSleeps ==
  ASSUME Sleeps, UNCHANGED <<ticks, upd>>, \A r \in Slot : SteadySleep(r)
  PROVE  Sleeps'
BY DEF Sleeps, SteadySleep

\* clockintr cannot tick between the test of sys_sleep and its sleep: tickslock is held.
\* Its wakeup(&ticks) leaves nobody asleep on &ticks.
LEMMA SleepsStep ==
  ASSUME LifeType, Places, Forks, Sleeps, [Next]_vars
  PROVE  Sleeps'
<1> USE Slots DEF clock
<1>t. /\ state \in [Slot -> States] /\ pc \in [Slot -> Labels] /\ due \in [Slot -> Nat]
      /\ np \in [Slot -> Slot] /\ ticks \in Nat /\ upd \in 0..(NPROC + 1)
  BY Zenon DEF LifeType
<1>p. \A p \in Slot : Place(p)
  BY DEF Places
<1>1. ASSUME NEW p \in Slot, SleepTest(p) PROVE Sleeps'
  <2>1. /\ ticks < due[p] /\ UNCHANGED <<state, due, ticks, upd>>
        /\ \A r \in Slot : pc'[r] = IF r = p THEN "tick_sleep" ELSE pc[r]
    BY <1>1, <1>t DEF SleepTest, Goto
  <2> QED
    BY <2>1 DEF Sleeps
<1>2. ASSUME NEW p \in Slot, SleepTicks(p) PROVE Sleeps'
  <2>1. /\ pc[p] = "tick_sleep" /\ UNCHANGED <<due, ticks, upd>>
        /\ \A r \in Slot : /\ pc'[r] = IF r = p THEN "tick_lock" ELSE pc[r]
                           /\ state'[r] = IF r = p THEN "SLEEPING" ELSE state[r]
    BY <1>2, <1>t DEF SleepTicks, Goto, At
  <2> QED
    BY <2>1 DEF Sleeps
<1>3. CASE ClockTick
  <2>1. /\ UNCHANGED <<state, pc, due>> /\ upd' = 1
        /\ \A r \in Slot : pc[r] # "tick_sleep"
    BY <1>3, <1>p DEF ClockTick, Place
  <2> QED
    BY <2>1, SMTT(30) DEF Sleeps
<1>4. CASE UpdateTime
  BY <1>4, <1>t DEF UpdateTime, Sleeps, Slot
<1>5. CASE ClockWakeup
  <2>1. /\ UNCHANGED <<pc, due, ticks>>
        /\ \A r \in Slot : state'[r] = "SLEEPING" => state[r] = "SLEEPING" /\ chan[r] # OnTicks
    BY <1>5, Zenon DEF ClockWakeup, Wakeup
  <2>2. \A r \in Slot : state'[r] = "SLEEPING" => pc[r] # "tick_lock"
    BY <1>p, <2>1 DEF Place
  <2> QED
    BY <2>1, <2>2 DEF Sleeps
<1>6. ASSUME NEW p \in Slot, NEW n \in 1..MaxSleep, SleepEnter(p, n) PROVE Sleeps'
  <2>1. \A r \in Slot : SteadySleep(r)
    BY <1>6, <1>t DEF SleepEnter, InUser, At, Goto, SteadySleep
  <2> QED
    BY <1>6, <2>1, SameSleeps DEF SleepEnter
<1>7. ASSUME NEW p \in Slot, SleepRelock(p) \/ SleepDone(p) PROVE Sleeps'
  <2>1. \A r \in Slot : SteadySleep(r)
    <3>1. /\ state' = state /\ state[p] = "RUNNING" /\ pc'[p] \notin {"tick_sleep", "tick_lock"}
          /\ \A r \in Slot : r # p => pc'[r] = pc[r] /\ due'[r] = due[r]
      BY <1>7, <1>t, SMTT(30) DEF SleepRelock, SleepDone, At, Goto
    <3>2. pc[p] \in {"tick_sleep", "tick_lock"} => due'[p] = due[p]
      BY <1>7, <1>t, ZenonT(40) DEF SleepRelock, SleepDone, At
    <3> QED
      BY <3>1, <3>2, Zenon DEF SteadySleep
  <2> QED
    BY <1>7, <2>1, SameSleeps, Zenon DEF SleepRelock, SleepDone
<1>8. ASSUME NEW p \in Slot, Dispatch(p) \/ Preempt(p) PROVE Sleeps'
  <2>1. \A r \in Slot : SteadySleep(r)
    BY <1>8, <1>t, Zenon DEF Dispatch, Preempt, SteadySleep
  <2> QED
    BY <1>8, <2>1, SameSleeps, Zenon DEF Dispatch, Preempt
<1>9. ASSUME NEW p \in Slot, ForkParent(p) \/ ExitReparent(p) PROVE Sleeps'
  <2>1. \A r \in Slot : SteadySleep(r)
    BY <1>9, <1>t DEF ForkParent, ExitReparent, ExitWith, Wakeup, Goto, SteadySleep
  <2> QED
    BY <1>9, <2>1, SameSleeps, Zenon DEF ForkParent, ExitReparent, ExitWith
<1>10. ASSUME NEW p \in Slot, ForkRun(p) PROVE Sleeps'
  <2>1. \A r \in Slot : SteadySleep(r)
    BY <1>10, <1>t, Zenon DEF ForkRun, Goto, SteadySleep
  <2> QED
    BY <1>10, <2>1, SameSleeps, Zenon DEF ForkRun
<1>11. ASSUME NEW p \in Slot, ExitZombie(p) \/ WaitFails(p) \/ WaitAgain(p) \/ WaitEnter(p) \/ WaitSleep(p)
       PROVE  Sleeps'
  <2>1. \A r \in Slot : SteadySleep(r)
    BY <1>11, <1>t, Zenon DEF ExitZombie, WaitFails, WaitAgain, WaitEnter, WaitSleep, Goto, SteadySleep
  <2> QED
    BY <1>11, <2>1, SameSleeps, Zenon DEF ExitZombie, WaitFails, WaitAgain, WaitEnter, WaitSleep
<1>12. ASSUME NEW p \in Slot, NEW c \in Slot, WaitReap(p, c) PROVE Sleeps'
  <2>1. /\ UNCHANGED <<due, ticks, upd>>
        /\ \A r \in Slot : /\ state'[r] = IF r = c THEN "UNUSED" ELSE state[r]
                           /\ pc'[r] = IF r \in {p, c} THEN "user" ELSE pc[r]
    BY <1>12, <1>t, Frees, ZenonT(40) DEF WaitReap
  <2>2. \A r \in Slot : SteadySleep(r)
    BY <2>1, Zenon DEF SteadySleep
  <2> QED
    BY <2>1, <2>2, SameSleeps, SMTT(30)
<1>13. ASSUME NEW p \in Slot, NEW c \in Slot, ForkFails(p, c) PROVE Sleeps'
  <2>1. /\ UNCHANGED <<pc, due, ticks, upd>>
        /\ \A r \in Slot : state'[r] = IF r = c THEN "UNUSED" ELSE state[r]
    BY <1>13, Frees, Zenon DEF ForkFails
  <2>2. \A r \in Slot : SteadySleep(r)
    BY <2>1, Zenon DEF SteadySleep
  <2> QED
    BY <2>1, <2>2, SameSleeps, Zenon
<1>14. ASSUME NEW p \in Slot, NEW c \in Slot, ForkAlloc(p, c) \/ WaitBadAddress(p, c) \/ Kill(p, c) PROVE Sleeps'
  <2>1. \A r \in Slot : SteadySleep(r)
    BY <1>14, <1>t, Zenon DEF ForkAlloc, WaitBadAddress, Kill, Goto, SteadySleep
  <2> QED
    BY <1>14, <2>1, SameSleeps, Zenon DEF ForkAlloc, WaitBadAddress, Kill
<1>15. CASE UNCHANGED vars
  BY <1>15 DEF vars, Sleeps
<1> QED
  BY <1>1, <1>2, <1>3, <1>4, <1>5, <1>6, <1>7, <1>8, <1>9, <1>10, <1>11, <1>12, <1>13, <1>14, <1>15
, SMTT(30)  DEF Next, Kernel, User, Interrupt

-----------------------------------------------------------------------------
(* Pids and kill.                                                          *)

\* Slot r is neither allocated, freed nor killed.
SteadyName(r) ==
  /\ pid'[r] = pid[r] /\ killed'[r] = killed[r] /\ named'[r] = named[r]
  /\ state'[r] = "UNUSED" <=> state[r] = "UNUSED"

\* A step that is SteadyName at every slot keeps pids and kills.
LEMMA SameNames ==
  ASSUME Pids, Kills, UNCHANGED nextpid, \A r \in Slot : SteadyName(r)
  PROVE  Pids' /\ Kills'
<1>1. Pids'
  BY DEF Pids, SteadyName
<1>2. Kills'
  BY Zenon DEF Kills, SteadyName
<1> QED
  BY <1>1, <1>2, Zenon

\* freeproc gives back the pid and forgets the kill.
LEMMA FreesName ==
  ASSUME LifeType, Pids, Kills, NEW c \in Slot, Freeproc(c), nextpid' \in {nextpid, nextpid + 1}
  PROVE  Pids' /\ Kills'
<1>1. Pids'
  <2>1. \A r \in Slot : /\ state'[r] = IF r = c THEN "UNUSED" ELSE state[r]
                        /\ pid'[r] = IF r = c THEN 0 ELSE pid[r]
    BY Frees
  <2>2. pid \in [Slot -> Nat] /\ nextpid \in Nat \ {0, 1}
    BY DEF LifeType
  <2> QED
    BY <2>1, <2>2, SMTT(30) DEF Pids
<1>2. \A r \in Slot : /\ killed'[r] => killed[r] /\ r # c
                      /\ r # c => named'[r] = named[r] /\ pid'[r] = pid[r]
  <2>1. /\ pid \in [Slot -> Nat] /\ killed \in [Slot -> BOOLEAN] /\ named \in [Slot -> Int]
        /\ pid' = [pid EXCEPT ![c] = 0]
        /\ killed' = [killed EXCEPT ![c] = FALSE] /\ named' = [named EXCEPT ![c] = NotNamed]
    BY Zenon DEF LifeType, Freeproc, FreeprocWith
  <2> QED
    BY <2>1, Zenon
<1>3. Kills'
  BY <1>2, Zenon DEF Kills
<1> QED
  BY <1>1, <1>3

\* allocpid gives every pid once, and never 0; kill finds a free slot only by pid 0.
LEMMA NamesStep ==
  ASSUME LifeType, Forks, Pids, Kills, [Next]_vars
  PROVE  Pids' /\ Kills'
<1> USE Slots DEF clock
<1>t. /\ state \in [Slot -> States] /\ pid \in [Slot -> Nat] /\ np \in [Slot -> Slot]
      /\ nextpid \in Nat \ {0, 1}
  BY DEF LifeType
<1>1. ASSUME NEW p \in Slot, NEW c \in Slot, ForkAlloc(p, c) PROVE Pids' /\ Kills'
  <2>1. /\ nextpid' = nextpid + 1 /\ killed' = killed /\ named' = named
        /\ \A r \in Slot : /\ state'[r] = IF r = c THEN "USED" ELSE state[r]
                           /\ pid'[r] = IF r = c THEN nextpid ELSE pid[r]
    BY <1>1, <1>t, Zenon DEF ForkAlloc
  <2>2. Pids'
    BY <1>t, <2>1 DEF Pids
  <2>3. pid[c] = 0
    BY <1>1, Zenon DEF ForkAlloc, FirstUnused, Pids
  <2>4. Kills'
    BY <2>1, <2>3, Zenon DEF Kills
  <2> QED
    BY <2>2, <2>4, Zenon
<1>2. ASSUME NEW p \in Slot, NEW c \in Slot, WaitReap(p, c) \/ ForkFails(p, c) PROVE Pids' /\ Kills'
  BY <1>2, FreesName DEF WaitReap, ForkFails
<1>3. ASSUME NEW p \in Slot, NEW c \in Slot, Kill(p, c) PROVE Pids' /\ Kills'
  <2>1. /\ UNCHANGED <<pid, nextpid>>
        /\ \A r \in Slot : state'[r] = "UNUSED" <=> state[r] = "UNUSED"
    BY <1>3, <1>t DEF Kill
  <2>2. Pids'
    BY <2>1 DEF Pids
  <2>3. \A r \in Slot : /\ killed'[r] => r = c \/ killed[r]
                        /\ r # c => named'[r] = named[r]
                        /\ r = c => named'[r] = pid[r]
    <3>1. /\ killed' = [killed EXCEPT ![c] = TRUE]
          /\ named' = [named EXCEPT ![c] = pid[c]]
          /\ killed \in [Slot -> BOOLEAN] /\ named \in [Slot -> Int]
      BY <1>3, Zenon DEF Kill, LifeType
    <3> QED
      BY <3>1, Zenon
  <2> QED
    BY <2>1, <2>2, <2>3, Zenon DEF Kills
<1>4. ASSUME NEW p \in Slot, ForkParent(p) \/ ForkRun(p) \/ ExitZombie(p) \/ ExitReparent(p) PROVE Pids' /\ Kills'
  <2>1. /\ UNCHANGED <<pid, killed, named, nextpid>>
        /\ \A r \in Slot : state'[r] = "UNUSED" => state[r] = "UNUSED"
    BY <1>4, <1>t, ZenonT(40) DEF ForkParent, ForkRun, ExitZombie, ExitReparent, ExitWith, Wakeup
  <2>2. \A r \in Slot : state[r] = "UNUSED" => state'[r] = "UNUSED"
    <3>1. ForkRun(p) => state[np[p]] # "UNUSED"
      BY Zenon DEF ForkRun, At, Forks, Forking
    <3>2. ForkParent(p) => state' = state
      BY Zenon DEF ForkParent
    <3>3. ForkRun(p) => state' = [state EXCEPT ![np[p]] = "RUNNABLE"]
      BY Zenon DEF ForkRun
    <3>4. ExitZombie(p) => state[p] = "RUNNING" /\ state' = [state EXCEPT ![p] = "ZOMBIE"]
      BY Zenon DEF ExitZombie, At
    <3>5. ExitReparent(p) => \A r \in Slot : state[r] = "UNUSED" => state'[r] = "UNUSED"
      BY DEF ExitReparent, ExitWith, Wakeup
    <3>6. CASE ForkRun(p) \/ ExitZombie(p)
      BY <1>t, <3>1, <3>3, <3>4, <3>6
    <3> QED
      BY <1>4, <3>2, <3>5, <3>6, Zenon
  <2>3. \A r \in Slot : SteadyName(r)
    BY <2>1, <2>2, Zenon DEF SteadyName
  <2> QED
    BY <2>1, <2>3, SameNames, Zenon
<1>5. ASSUME NEW p \in Slot, NEW c \in Slot,
             WaitFails(p) \/ WaitAgain(p) \/ WaitEnter(p) \/ WaitSleep(p) \/ WaitBadAddress(p, c)
      PROVE  Pids' /\ Kills'
  <2>1. /\ UNCHANGED <<pid, killed, named, nextpid>>
        /\ \A r \in Slot : state'[r] = "UNUSED" => state[r] = "UNUSED"
    BY <1>5, <1>t, ZenonT(40) DEF WaitFails, WaitAgain, WaitEnter, WaitSleep, WaitBadAddress
  <2>2. \A r \in Slot : state[r] = "UNUSED" => state'[r] = "UNUSED"
    <3>1. WaitFails(p) \/ WaitAgain(p) \/ WaitEnter(p) \/ WaitBadAddress(p, c) => state' = state
      BY Zenon DEF WaitFails, WaitAgain, WaitEnter, WaitBadAddress
    <3>2. WaitSleep(p) => state[p] = "RUNNING" /\ state' = [state EXCEPT ![p] = "SLEEPING"]
      BY Zenon DEF WaitSleep, At
    <3>3. CASE WaitSleep(p)
      BY <1>t, <3>2, <3>3
    <3> QED
      BY <1>5, <3>1, <3>3, Zenon
  <2>3. \A r \in Slot : SteadyName(r)
    BY <2>1, <2>2, Zenon DEF SteadyName
  <2> QED
    BY <2>1, <2>3, SameNames, Zenon
<1>6. ASSUME NEW p \in Slot, Dispatch(p) \/ Preempt(p) \/ SleepRelock(p) \/ SleepDone(p) \/ SleepTest(p) \/ SleepTicks(p)
      PROVE  Pids' /\ Kills'
  <2>1. /\ UNCHANGED <<pid, killed, named, nextpid>>
        /\ \A r \in Slot : state'[r] = "UNUSED" => state[r] = "UNUSED"
    BY <1>6, <1>t, Zenon DEF Dispatch, Preempt, SleepRelock, SleepDone, SleepTest, SleepTicks
  <2>2. \A r \in Slot : state[r] = "UNUSED" => state'[r] = "UNUSED"
    <3>1. SleepRelock(p) \/ SleepDone(p) \/ SleepTest(p) => state' = state
      BY Zenon DEF SleepRelock, SleepDone, SleepTest
    <3>2. Dispatch(p) \/ Preempt(p) \/ SleepTicks(p) =>
            state[p] # "UNUSED" /\ \A r \in Slot : r # p => state'[r] = state[r]
      BY <1>t DEF Dispatch, Preempt, SleepTicks, At
    <3> QED
      BY <1>6, <3>1, <3>2, Zenon
  <2>3. \A r \in Slot : SteadyName(r)
    BY <2>1, <2>2, Zenon DEF SteadyName
  <2> QED
    BY <2>1, <2>3, SameNames, Zenon
<1>7. ASSUME NEW p \in Slot, NEW n \in 1..MaxSleep, SleepEnter(p, n) PROVE Pids' /\ Kills'
  <2>1. UNCHANGED <<pid, killed, named, nextpid, state>>
    BY <1>7 DEF SleepEnter
  <2> QED
    BY <2>1, SameNames DEF SteadyName
<1>8. CASE Interrupt \/ UNCHANGED vars
  <2>1. /\ UNCHANGED <<pid, killed, named, nextpid>>
        /\ \A r \in Slot : state'[r] = "UNUSED" <=> state[r] = "UNUSED"
    BY <1>8 DEF Interrupt, ClockTick, UpdateTime, ClockWakeup, Wakeup, vars
  <2> QED
    BY <2>1, SameNames, Zenon DEF SteadyName
<1> QED
  BY <1>1, <1>2, <1>3, <1>4, <1>5, <1>6, <1>7, <1>8, Zenon DEF Next, Kernel, User

-----------------------------------------------------------------------------
(* The invariant and what follows from it.                                 *)

\* After userinit only init exists, runnable and without a parent.
LEMMA InitLife == Init => LifeInv
<1> SUFFICES ASSUME Init PROVE LifeInv
  BY Zenon
<1> USE Slots
<1>1. LifeType
  BY ProcLifeAssumption, SMTT(30) DEF Init, LifeType, States, Labels, Slot, Nobody, NotNamed
<1>2. /\ \A p \in Slot : /\ state[p] = IF p = initproc THEN "RUNNABLE" ELSE "UNUSED"
                         /\ pid[p] = IF p = initproc THEN 1 ELSE 0
                         /\ pc[p] = "user" /\ parent[p] = Nobody
      /\ nextpid = 2 /\ wait_lock = Nobody /\ tickslock = Nobody /\ upd = 0
  BY Zenon DEF Init
<1>3. Places /\ Families
  BY <1>2, Zenon DEF Places, Place, Families, Family, Alive
<1>4. Forks /\ Sleeps
  BY <1>2, Zenon DEF Forks, Forking, Sleeps
<1>5. Waits
  BY <1>2, Zenon DEF Waits, Waiting, Exiting
<1>6. Pids
  BY <1>2 DEF Pids
<1>7. Kills
  BY Zenon DEF Init, Kills
<1> QED
  BY <1>1, <1>3, <1>4, <1>5, <1>6, <1>7 DEF LifeInv

\* Under every interleaving of the system calls, the scheduler and the clock the invariant
\* of the process table holds.
THEOREM LifeInvariant == Spec => []LifeInv
<1>1. LifeInv /\ [Next]_vars => LifeInv'
  BY TypeStep, PlacesStep, FamiliesStep, ForksStep, WaitsStep, SleepsStep, NamesStep DEF LifeInv
<1> QED
  BY <1>1, InitLife, PTL DEF Spec

\* sleep, wakeup, wait, exit and clockintr never lose a wakeup: nobody in wait sleeps with a
\* zombie child or without a child, nobody in sys_sleep sleeps past the tick it waits for.
THEOREM NoLostWakeup == Spec => []NoMissedWakeup
<1>1. LifeInv => NoMissedWakeup
  <2> SUFFICES ASSUME LifeInv PROVE NoMissedWakeup
    OBVIOUS
  <2>1. (\A p \in Slot : Place(p)) /\ Waits /\ Sleeps
    BY Zenon DEF LifeInv, Places
  <2>2. NoMissedExit
    <3>1. \A p \in Slot : state[p] = "SLEEPING" /\ chan[p] = p => Waiting(p)
      BY <2>1, Slots DEF Place, Waiting
    <3> QED
      BY <2>1, <3>1, Zenon DEF Waits, NoMissedExit
  <2>3. NoMissedTick
    <3>1. \A p \in Slot : state[p] = "SLEEPING" /\ chan[p] = OnTicks => pc[p] = "tick_lock"
      BY <2>1, Slots, Zenon DEF Place
    <3> QED
      BY <2>1, <3>1, Zenon DEF Sleeps, NoMissedTick
  <2> QED
    BY <2>2, <2>3 DEF NoMissedWakeup
<1> QED
  BY <1>1, LifeInvariant, PTL

\* exit and reparent never leave an orphan: every process but init that has run has a parent
\* that is neither free, half made nor a zombie.
THEOREM NoOrphan == Spec => []ParentsLive
<1>1. LifeInv => ParentsLive
  BY DEF LifeInv, Families, Family, Alive, ParentsLive
<1> QED
  BY <1>1, LifeInvariant, PTL

\* kill marks the process it names and no other, over every reuse of a slot by fork, exit
\* and wait, whatever pids programs kill; kill(0), the pid of the free slots, which kill
\* does not skip, marks the process that will next have the slot, and never one there is.
THEOREM KillsByName == Spec => []KilledWasNamed
<1>1. LifeInv => KilledWasNamed
  BY Zenon DEF LifeInv, Kills, Pids, KilledWasNamed
<1> QED
  BY <1>1, LifeInvariant, PTL

=============================================================================
