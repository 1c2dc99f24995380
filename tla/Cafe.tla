-------------------------------- MODULE Cafe --------------------------------
(***************************************************************************)
(* The cafe, concurrency/1.c: one thread per customer (serve_customer), a  *)
(* semaphore per barista, one mutex.                                       *)
(*                                                                         *)
(* A step is a critical section of the mutex, or one access to a variable  *)
(* outside of it; a thread that sleeps with the mutex held keeps it over   *)
(* two steps.  Threads may be delayed for any time.  The clock saturates:  *)
(* MaxTime stands for that second and all later ones, so every arrival     *)
(* time plus patience is to be below it.                                   *)
(***************************************************************************)
EXTENDS Integers, FiniteSets

CONSTANTS
  N, B,              \* customers, baristas
  coffee_types,      \* [coffees -> Nat]: preparation times
  Inputs,            \* what main may read: [1..N -> [coffee, arrival_time, patience_time]]
  MaxTime            \* bound: see above

Customer == 1..N
Barista == 1..B

VARIABLES
  customers,         \* what main read
  now,               \* seconds since startTime
  mutex,             \* the thread that sleeps with the mutex, or 0
  served_customers, wasted_coffees,
  cust_done, left_flags,      \* of the customers
  sem,               \* [Barista -> Nat]: barista_available
  finish_times,      \* [Barista -> Nat]
  st,                \* [Customer -> record]: a thread's locals, and where it is
  told               \* history: the <<customer, outcome>> that were printed

people == <<cust_done, left_flags, wasted_coffees, told>>
vars == <<customers, now, mutex, served_customers, wasted_coffees, cust_done,
          left_flags, sem, finish_times, st, told>>

Thread == [pc |-> "top", c |-> 0, b |-> 0, i |-> 0, until |-> 0, b_start |-> 0]

Init ==
  /\ customers \in Inputs
  /\ now = 0 /\ mutex = 0
  /\ served_customers = 0 /\ wasted_coffees = 0
  /\ cust_done = [c \in Customer |-> FALSE] /\ left_flags = cust_done
  /\ sem = [b \in Barista |-> 1]
  /\ finish_times = [b \in Barista |-> IF b <= N THEN customers[b].arrival_time ELSE 0]
  /\ st = [t \in Customer |-> Thread]
  /\ told = {}

Later(s) == IF s < MaxTime THEN s + 1 ELSE MaxTime
Free == mutex = 0

Tick ==
  /\ now < MaxTime
  /\ now' = now + 1
  /\ UNCHANGED <<customers, mutex, served_customers, people, sem, finish_times, st>>

At(t, l) == st[t].pc = l
Goto(t, l) == st' = [st EXCEPT ![t].pc = l]
me(t) == customers[st[t].c]
OutOfPatience(t) == now > me(t).arrival_time + me(t).patience_time

-----------------------------------------------------------------------------
\* The test of served_customers is outside of the mutex.
ServeLoop(t) ==
  /\ At(t, "top")
  /\ Goto(t, IF served_customers < N THEN "take" ELSE "end")
  /\ UNCHANGED <<customers, now, mutex, served_customers, people, sem, finish_times>>

Take(t) ==
  /\ At(t, "take") /\ Free
  /\ served_customers' = served_customers + 1
  /\ st' = [st EXCEPT ![t] = IF served_customers < N
                             THEN [Thread EXCEPT !.pc = "arrive", !.c = served_customers + 1]
                             ELSE [Thread EXCEPT !.pc = "end"]]
  /\ UNCHANGED <<customers, now, mutex, people, sem, finish_times>>

\* The customer arrives and orders; an invalid order ends the thread, and cust_done stays 0.
Arrive(t) ==
  /\ At(t, "arrive") /\ Free /\ now >= me(t).arrival_time
  /\ Goto(t, IF me(t).coffee \in DOMAIN coffee_types THEN "select" ELSE "end")
  /\ UNCHANGED <<customers, now, mutex, served_customers, people, sem, finish_times>>

Previous(t) == st[t].c # 1 => cust_done[st[t].c - 1]

\* sem_trywait succeeds, and the previous customer's order was begun; otherwise the semaphore is
\* posted back and the loop goes on.
Select(t, b) ==
  /\ At(t, "select") /\ Free /\ sem[b] > 0 /\ Previous(t)
  /\ sem' = [sem EXCEPT ![b] = @ - 1]
  /\ st' = [st EXCEPT ![t].pc = "chosen", ![t].b = b]
  /\ UNCHANGED <<customers, now, mutex, served_customers, people, finish_times>>

\* "leaves without their order"
Leave(t) ==
  /\ left_flags' = [left_flags EXCEPT ![st[t].c] = TRUE]
  /\ cust_done' = [cust_done EXCEPT ![st[t].c] = TRUE]
  /\ wasted_coffees' = wasted_coffees + 1
  /\ told' = told \cup {<<st[t].c, "without">>}

\* Mutant: the barista is not posted back.
LeaveEarlyKeeps(t) ==
  /\ At(t, "select") \/ At(t, "chosen")
  /\ Free /\ OutOfPatience(t) /\ ~left_flags[st[t].c]
  /\ Leave(t)
  /\ UNCHANGED sem
  /\ st' = [st EXCEPT ![t].pc = "end", ![t].b = 0]
  /\ UNCHANGED <<customers, now, mutex, served_customers, finish_times>>

\* Mutant: patience is not tested while a barista is looked for.
LeaveEarlyLate(t) ==
  /\ At(t, "chosen")
  /\ Free /\ OutOfPatience(t) /\ ~left_flags[st[t].c]
  /\ Leave(t)
  /\ sem' = IF At(t, "chosen") THEN [sem EXCEPT ![st[t].b] = @ + 1] ELSE sem
  /\ st' = [st EXCEPT ![t].pc = "end", ![t].b = 0]
  /\ UNCHANGED <<customers, now, mutex, served_customers, finish_times>>

\* Out of patience, before a barista is found or just after: the barista is posted back, and the
\* thread ends.
LeaveEarly(t) ==
  /\ At(t, "select") \/ At(t, "chosen")
  /\ Free /\ OutOfPatience(t) /\ ~left_flags[st[t].c]
  /\ Leave(t)
  /\ sem' = IF At(t, "chosen") THEN [sem EXCEPT ![st[t].b] = @ + 1] ELSE sem
  /\ st' = [st EXCEPT ![t].pc = "end", ![t].b = 0]
  /\ UNCHANGED <<customers, now, mutex, served_customers, finish_times>>

Stay(t) ==
  /\ At(t, "chosen") /\ Free /\ ~OutOfPatience(t)
  /\ Goto(t, "begin")
  /\ UNCHANGED <<customers, now, mutex, served_customers, people, sem, finish_times>>

Begins(t) ==
  /\ cust_done' = [cust_done EXCEPT ![st[t].c] = TRUE]
  /\ st' = [st EXCEPT ![t].pc = "prepare", ![t].b_start = now, ![t].i = 0]
  /\ mutex' = 0
  /\ UNCHANGED <<customers, now, served_customers, wasted_coffees, left_flags, sem,
                 finish_times, told>>

TooSoon(t) == now < me(t).arrival_time + 1 \/ now < 1 + finish_times[st[t].b]

Begin(t) == At(t, "begin") /\ Free /\ Previous(t) /\ ~TooSoon(t) /\ Begins(t)

\* sleep(1), with the mutex held.
BeginSleep(t) ==
  /\ At(t, "begin") /\ Free /\ Previous(t) /\ TooSoon(t)
  /\ mutex' = t
  /\ st' = [st EXCEPT ![t].pc = "begin_sleep", ![t].until = Later(now)]
  /\ UNCHANGED <<customers, now, served_customers, people, sem, finish_times>>

BeginWake(t) == At(t, "begin_sleep") /\ now >= st[t].until /\ Begins(t)

preparation_time(t) == coffee_types[me(t).coffee]

PrepareSleep(t) ==
  /\ At(t, "prepare") /\ st[t].i < preparation_time(t)
  /\ st' = [st EXCEPT ![t].pc = "sleep", ![t].until = Later(now)]
  /\ UNCHANGED <<customers, now, mutex, served_customers, people, sem, finish_times>>

\* A second of preparation ends: finish_times is the time, and a customer whose patience ran out
\* leaves, once.
PrepareSecond(t) ==
  /\ At(t, "sleep") /\ now >= st[t].until /\ Free
  /\ finish_times' = [finish_times EXCEPT ![st[t].b] = now]
  /\ st' = [st EXCEPT ![t].pc = "prepare", ![t].i = @ + 1]
  /\ IF OutOfPatience(t) /\ ~left_flags[st[t].c] THEN Leave(t)
     ELSE UNCHANGED <<left_flags, cust_done, wasted_coffees, told>>
  /\ UNCHANGED <<customers, now, mutex, served_customers, sem>>

\* "completes the order", at the time that is read then.
Complete(t) ==
  /\ At(t, "prepare") /\ st[t].i = preparation_time(t) /\ Free
  /\ finish_times' = [finish_times EXCEPT ![st[t].b] = now]
  /\ Goto(t, IF OutOfPatience(t) THEN "post" ELSE "collect")
  /\ UNCHANGED <<customers, now, mutex, served_customers, people, sem>>

\* "leaves with their order"
Collect(t) ==
  /\ At(t, "collect") /\ Free
  /\ cust_done' = [cust_done EXCEPT ![st[t].c] = TRUE]
  /\ told' = told \cup {<<st[t].c, "with">>}
  /\ Goto(t, "post")
  /\ UNCHANGED <<customers, now, mutex, served_customers, wasted_coffees,
                 left_flags, sem, finish_times>>

Post(t) ==
  /\ At(t, "post")
  /\ sem' = [sem EXCEPT ![st[t].b] = @ + 1]
  /\ st' = [st EXCEPT ![t] = Thread]
  /\ UNCHANGED <<customers, now, mutex, served_customers, people, finish_times>>

-----------------------------------------------------------------------------
Serve(t) ==
  \/ ServeLoop(t) \/ Take(t) \/ Arrive(t)
  \/ \E b \in Barista : Select(t, b)
  \/ LeaveEarly(t) \/ Stay(t) \/ Begin(t) \/ BeginSleep(t) \/ BeginWake(t)
  \/ PrepareSleep(t) \/ PrepareSecond(t) \/ Complete(t) \/ Collect(t) \/ Post(t)

\* main joins the threads; the program ends.
Closed == (\A t \in Customer : At(t, "end")) /\ UNCHANGED vars

Next == Tick \/ (\E t \in Customer : Serve(t)) \/ Closed

Spec == Init /\ [][Next]_vars

\* Time passes, and a thread that can go on does.
LiveSpec == Spec /\ WF_vars(Tick) /\ \A t \in Customer : WF_vars(Serve(t))

-----------------------------------------------------------------------------
\* A barista makes one coffee at a time: the semaphore is there exactly when no thread has taken
\* the barista, also on the ways out of patience.
BaristaToken ==
  \A b \in Barista : Cardinality({t \in Customer : st[t].b = b}) + sem[b] = 1

\* A customer leaves with the order or without it, not both, although the two are decided from
\* two readings of the clock.
NotBoth == \A c \in Customer : ~({<<c, "with">>, <<c, "without">>} \subseteq told)

\* wasted_coffees counts the customers who left without their order, each once.
WastedExact == wasted_coffees = Cardinality({x \in told : x[2] = "without"})

Making(t) == st[t].pc \in {"prepare", "sleep", "collect"}

\* A coffee is begun at least a second after the customer arrived and, unless it is the barista's
\* first, after the barista completed the one before ("they can start making the order of the
\* waiting customer at time t+1", README.md), by one sleep(1) for both.
OneSecondLater ==
  \A t \in Customer : Making(t) /\ st[t].b_start < MaxTime =>
    /\ st[t].b_start > me(t).arrival_time
    /\ st[t].i = 0 => \/ st[t].b_start > finish_times[st[t].b]
                      \/ finish_times[st[t].b] = customers[st[t].b].arrival_time

\* The promises of serve_customer, 1.c, to customers and baristas.
CafeSafe == BaristaToken /\ NotBoth /\ WastedExact /\ OneSecondLater

\* The cafe closes: every thread ends.  Patience is what breaks the wait for an earlier customer
\* whose order was invalid and who is never done.
CafeCloses == <>(\A t \in Customer : At(t, "end"))

\* A customer who was served or ran out of patience is told so ("If a customer's patience runs
\* out, print ... leaves without their order", README.md).
Told ==
  (\A t \in Customer : At(t, "end")) =>
    \A c \in Customer : customers[c].coffee \in DOMAIN coffee_types => \E x \in told : x[1] = c
=============================================================================
