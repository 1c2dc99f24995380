---------------------------- MODULE MCProcesses -----------------------------
(***************************************************************************)
(* kernel/proc.c on small instances: the life of processes (ProcLife), and *)
(* the schedulers (Scheduler) on one hart with timer ticks, on one hart    *)
(* with three processes of different ages, and on two harts.  A behaviour  *)
(* is one of the four.                                                     *)
(***************************************************************************)
EXTENDS ProcLife

CONSTANTS c1, c2

VARIABLES
  part,       \* "life", "one hart", "ties" or "two harts"
  sched_state, sp, dp, runtime, stime, wtime, no_scheduled, start_time, sched_ctime, sched_ticks, policy,
  cproc, s

sched == <<sched_state, sp, dp, runtime, stime, wtime, no_scheduled, start_time, sched_ctime, sched_ticks,
           policy, cproc, s>>

One == INSTANCE Scheduler WITH
  CPU <- {c1}, NPROC <- 2, Policies <- {"PBS", "RR"}, Prio <- {70}, MaxTicks <- 2, MaxRuns <- 2,
  state <- sched_state, ctime <- sched_ctime, ticks <- sched_ticks

\* Three processes, so that two can be tied with the older one in the later slot.
Ties == INSTANCE Scheduler WITH
  CPU <- {c1}, NPROC <- 3, Policies <- {"PBS"}, Prio <- {}, MaxTicks <- 1, MaxRuns <- 2,
  state <- sched_state, ctime <- sched_ctime, ticks <- sched_ticks

Two == INSTANCE Scheduler WITH
  CPU <- {c1, c2}, NPROC <- 2, Policies <- {"PBS", "RR"}, Prio <- {70}, MaxTicks <- 0, MaxRuns <- 2,
  state <- sched_state, ctime <- sched_ctime, ticks <- sched_ticks

-----------------------------------------------------------------------------
\* The part that is not looked at stays where it is.
MCInit ==
  /\ Init
  /\ \/ part = "one hart" /\ One!Init
     \/ part = "ties" /\ Ties!Init
     \/ part = "two harts" /\ Two!Init
     \/ part = "life" /\ One!Init /\ policy = "RR"

OneHart(A) == part = "one hart" /\ A /\ UNCHANGED <<vars, part>>

\* A scheduler may stop at the bound on the times a process is scheduled; ProcLife may not.
Stopped == part # "life" /\ UNCHANGED <<vars, sched, part>>

MCNext ==
  \/ part = "life" /\ Next /\ UNCHANGED <<sched, part>>
  \/ OneHart(One!Next)
  \/ part = "ties" /\ Ties!Next /\ UNCHANGED <<vars, part>>
  \/ part = "two harts" /\ Two!Next /\ UNCHANGED <<vars, part>>
  \/ Stopped

\* The fairness of Scheduler's FairSpec, for one hart.
MCSpec ==
  /\ MCInit /\ [][MCNext]_<<vars, sched, part>>
  /\ WF_sched(OneHart(One!Choose(c1)))
  /\ WF_sched(OneHart(One!Yield(c1)))

\* On one hart PBS breaks ties by the number of runs and then by age (scheduler of proc.c): see Scheduler.
TieBreak == (part = "one hart" => One!TieBreak) /\ (part = "ties" => Ties!TieBreak)

\* On one hart round robin starves no one, and PBS does not idle while a process is runnable (scheduler
\* of proc.c): see Scheduler.
EveryoneRuns == part = "one hart" => One!WorkGetsCpu /\ One!EveryoneRuns

\* On two harts no process runs twice at once (scheduler of proc.c): see Scheduler.
RunsOnOneCpu == part = "two harts" => Two!RunsOnOneCpu
=============================================================================
