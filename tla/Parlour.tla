------------------------------ MODULE Parlour -------------------------------
(***************************************************************************)
(* The ice cream parlour, concurrency/2.c.  Three kinds of threads: one    *)
(* per machine (print_machine), one per customer (serve_customer), and one *)
(* per ice cream ordered (make_order), which the customer's thread creates *)
(* and joins.                                                              *)
(*                                                                         *)
(* A step is a critical section of the global mutex, or one access to a    *)
(* variable outside of it.  The critical sections end where they began,    *)
(* except when a thread locks the mutex it already holds: it hangs, and    *)
(* with it every thread that needs the mutex afterwards.  Threads may be   *)
(* delayed for any time; sleep(1) waits for the next second at least, and  *)
(* sleep(0.01) is sleep(0).                                                *)
(***************************************************************************)
EXTENDS Integers, Sequences

CONSTANTS
  N,           \* number of machines
  Topping,     \* the toppings
  Menu,        \* [flavours -> Nat]: preparation times
  Inputs,      \* what main may read, see InputOK
  MaxTime      \* bound: the clock stops there

Machine == 1..N

\* An input: the capacity, the machines' hours, the customers' arrival times and orders (a
\* flavour and toppings for every ice cream), and the stock of toppings.
InputOK(r) ==
  /\ r.K \in Nat
  /\ {r.start_time, r.end_time} \subseteq [Machine -> Nat]
  /\ Len(r.arrival_time) = Len(r.order)
  /\ \A c \in DOMAIN r.order : /\ r.arrival_time[c] \in Nat
                              /\ \A i \in DOMAIN r.order[c] : r.order[c][i].toppings \subseteq Topping
  /\ r.quantity \in [Topping -> Nat]

ASSUME ParlourAssumption ==
  /\ {N, MaxTime} \subseteq Nat
  /\ Menu \in [DOMAIN Menu -> Nat]
  /\ \A r \in Inputs : InputOK(r)

Nobody == <<0, 0>>
NoMachine == 0

VARIABLES
  in,            \* what main read
  now,           \* seconds since startTime
  mutex,         \* who holds mutex for ever, or Nobody
  available, sem,             \* of the machines: the flag, the semaphore
  mpc,           \* [Machine -> STRING]: where print_machine is
  quantity,      \* of the toppings
  served_customers, curr_queue, cust_done, left,
  started, done,              \* of the orders
  cpc, cid,      \* [Customer -> ...]: where a customer's thread is, and whom it serves
  pause,         \* [Customer -> Nat]: when the thread's sleep(1) ends
  o,             \* [Order -> record]: make_order's locals, and where it is
  verdicts       \* history, [Customer -> Nat]: how often c was told how the visit ended

machines == <<available, sem, mpc>>
hall == <<served_customers, curr_queue, cust_done, left>>
threads == <<cpc, cid, pause>>
Customer == DOMAIN in.order
NC == Len(in.order)
Order == UNION {{c} \X DOMAIN in.order[c] : c \in Customer}

vars == <<in, now, mutex, available, sem, mpc, quantity, served_customers, curr_queue, cust_done,
          left, started, done, cpc, cid, pause, o, verdicts>>

\* sel is `selected', i the counter of the loop make_order is in; since is a history, when
\* the preparation began.
NotCreated == [pc |-> "none", sel |-> NoMachine, i |-> 1, any |-> FALSE, until |-> 0, since |-> 0,
               seen |-> 0, stock |-> in.quantity]

Init ==
  /\ in \in Inputs
  /\ now = 0 /\ mutex = Nobody
  /\ available = [m \in Machine |-> FALSE] /\ sem = [m \in Machine |-> 1]
  /\ mpc = [m \in Machine |-> "before"]
  /\ quantity = in.quantity
  /\ served_customers = 0 /\ curr_queue = 0
  /\ cust_done = [c \in Customer |-> FALSE] /\ left = cust_done
  /\ started = [x \in Order |-> FALSE] /\ done = started
  /\ cpc = [t \in Customer |-> "top"] /\ cid = [t \in Customer |-> 0] /\ pause = cid
  /\ o = [x \in Order |-> NotCreated]
  /\ verdicts = [c \in Customer |-> 0]

Free == mutex = Nobody

Tick ==
  /\ now < MaxTime
  /\ now' = now + 1
  /\ UNCHANGED <<in, mutex, machines, quantity, hall, started, done, threads, o, verdicts>>

-----------------------------------------------------------------------------
(* print_machine.  The thread reads the clock under the mutex.             *)

Work(m, from, at, to, a) ==
  /\ mpc[m] = from /\ now >= at /\ Free
  /\ mpc' = [mpc EXCEPT ![m] = to]
  /\ available' = [available EXCEPT ![m] = a]
  /\ UNCHANGED <<in, now, mutex, sem, quantity, hall, started, done, threads, o, verdicts>>

MachineStart(m) == Work(m, "before", in.start_time[m], "open", TRUE)

MachineStop(m) == Work(m, "open", in.end_time[m], "after", FALSE)

-----------------------------------------------------------------------------
(* serve_customer, in thread t.                                            *)

At(t, l) == cpc[t] = l

Step(t, to) == cpc' = [cpc EXCEPT ![t] = to]

\* The test of served_customers is outside of the mutex.
ServeLoop(t) ==
  /\ At(t, "top")
  /\ Step(t, IF served_customers < NC THEN "take" ELSE "end")
  /\ UNCHANGED <<in, now, mutex, machines, quantity, hall, started, done, cid, pause, o, verdicts>>

\* Take the next customer.  There is no room: the customer is gone.
TakeFull(t) ==
  /\ At(t, "take") /\ Free /\ curr_queue > in.K /\ served_customers < NC
  /\ served_customers' = served_customers + 1
  /\ curr_queue' = curr_queue - 1
  /\ cust_done' = [cust_done EXCEPT ![served_customers'] = TRUE]
  /\ left' = [left EXCEPT ![served_customers'] = TRUE]
  /\ Step(t, "end")
  /\ UNCHANGED <<in, now, mutex, machines, quantity, started, done, cid, pause, o, verdicts>>

\* Or there is.  When another thread took the last customer, the thread ends here, with
\* curr_queue counting it.
Take(t) ==
  /\ At(t, "take") /\ Free /\ (curr_queue <= in.K \/ served_customers >= NC)
  /\ served_customers' = served_customers + 1
  /\ curr_queue' = IF curr_queue > in.K THEN curr_queue - 1 ELSE curr_queue + 1
  /\ IF served_customers < NC
     THEN cid' = [cid EXCEPT ![t] = served_customers + 1] /\ Step(t, "arrive")
     ELSE Step(t, "end") /\ UNCHANGED cid
  /\ UNCHANGED <<in, now, mutex, machines, quantity, cust_done, left, started, done, pause, o, verdicts>>

Arrive(t) ==
  /\ At(t, "arrive") /\ Free /\ now >= in.arrival_time[cid[t]]
  /\ Step(t, "turn")
  /\ UNCHANGED <<in, now, mutex, machines, quantity, hall, started, done, cid, pause, o, verdicts>>

\* Wait for the previous customer to be done, then sleep(1).  orders[customer_id].left is not
\* set yet when the code tests it there: only the customer's own orders set it.
Turn(t) ==
  /\ At(t, "turn") /\ (cid[t] # 1 => cust_done[cid[t] - 1])
  /\ Step(t, "pause")
  /\ pause' = [pause EXCEPT ![t] = now + 1]
  /\ UNCHANGED <<in, now, mutex, machines, quantity, hall, started, done, cid, o, verdicts>>

CreateOrders(t) ==
  /\ At(t, "pause") /\ now >= pause[t]
  /\ o' = [x \in Order |-> IF x[1] = cid[t] THEN [o[x] EXCEPT !.pc = "prev"] ELSE o[x]]
  /\ Step(t, "join")
  /\ UNCHANGED <<in, now, mutex, machines, quantity, hall, started, done, cid, pause, verdicts>>

Mine(t) == {x \in Order : x[1] = cid[t]}

\* The order threads are joined, and not all of them made their ice cream.
JoinUnfulfilled(t) ==
  /\ At(t, "join") /\ \A x \in Mine(t) : o[x].pc = "end"
  /\ \E x \in Mine(t) : ~done[x]
  /\ Step(t, "top")
  /\ UNCHANGED <<in, now, mutex, machines, quantity, hall, started, done, cid, pause, o, verdicts>>

Collect(t) ==
  /\ At(t, "join") /\ \A x \in Mine(t) : o[x].pc = "end" /\ done[x]
  /\ Free
  /\ left' = [left EXCEPT ![cid[t]] = TRUE]
  /\ cust_done' = [cust_done EXCEPT ![cid[t]] = TRUE]
  /\ curr_queue' = curr_queue - 1
  /\ verdicts' = [verdicts EXCEPT ![cid[t]] = @ + 1]
  /\ Step(t, "top")
  /\ UNCHANGED <<in, now, mutex, machines, quantity, served_customers, started, done, cid, pause, o>>

-----------------------------------------------------------------------------
(* make_order, for the order x.                                            *)

OAt(x, l) == o[x].pc = l

OStep(x, to) == o' = [o EXCEPT ![x].pc = to]

\* Only o changes.
OnlyOrder == UNCHANGED <<in, now, mutex, machines, quantity, hall, started, done, threads, verdicts>>

prep(x) == Menu[in.order[x[1]][x[2]].flavor]

wanted(x) == in.order[x[1]][x[2]].toppings

\* Some topping of x is used up.
Short(x) == \E t \in wanted(x) : quantity[t] <= 0

\* Wait until the previous ice cream of the customer is started.
AwaitPrevious(x) ==
  /\ OAt(x, "prev") /\ (x[2] # 1 => started[<<x[1], x[2] - 1>>])
  /\ OStep(x, "look_left")
  /\ OnlyOrder

LookLeft(x) ==
  /\ OAt(x, "look_left")
  /\ OStep(x, IF left[x[1]] THEN "left" ELSE "loop")
  /\ OnlyOrder

\* The customer has left: `started == 1' assigns nothing, and curr_queue is read and written
\* without the mutex.
LeftRead(x) ==
  /\ OAt(x, "left")
  /\ o' = [o EXCEPT ![x].pc = "left_write", ![x].seen = curr_queue]
  /\ cust_done' = [cust_done EXCEPT ![x[1]] = TRUE]
  /\ UNCHANGED <<in, now, mutex, machines, quantity, served_customers, curr_queue, left, started,
                 done, threads, verdicts>>

LeftWrite(x) ==
  /\ OAt(x, "left_write")
  /\ curr_queue' = o[x].seen - 1
  /\ OStep(x, "end")
  /\ UNCHANGED <<in, now, mutex, machines, quantity, served_customers, cust_done, left, started,
                 done, threads, verdicts>>

LoopEnds(x) ==
  /\ OAt(x, "loop") /\ started[x]
  /\ OStep(x, "end")
  /\ OnlyOrder

\* Mutant: orders[].left is not tested.
LeaveAgain(x) ==
  /\ left' = [left EXCEPT ![x[1]] = TRUE]
  /\ cust_done' = [cust_done EXCEPT ![x[1]] = TRUE]
  /\ curr_queue' = curr_queue - 1
  /\ verdicts' = [verdicts EXCEPT ![x[1]] = @ + 1]

\* orders[].left is set by whoever finds that the customer cannot be served, once; cust_done
\* and curr_queue with it.
Leave(x) ==
  IF left[x[1]] THEN UNCHANGED <<left, cust_done, curr_queue, verdicts>>
  ELSE /\ left' = [left EXCEPT ![x[1]] = TRUE]
       /\ cust_done' = [cust_done EXCEPT ![x[1]] = TRUE]
       /\ curr_queue' = curr_queue - 1
       /\ verdicts' = [verdicts EXCEPT ![x[1]] = @ + 1]

\* Give the ice cream up, telling the customer unless another ice cream's thread has.
GiveUp(x) ==
  /\ Free
  /\ Leave(x)
  /\ started' = [started EXCEPT ![x] = TRUE]
  /\ OStep(x, "end")
  /\ UNCHANGED <<in, now, mutex, machines, quantity, served_customers, done, threads>>

\* Before the order: is there a machine that works, or has not stopped yet?  The flag of
\* machine i is read without the mutex, ...
Look(x) ==
  /\ OAt(x, "loop") /\ ~started[x] /\ o[x].i <= N
  /\ OStep(x, IF available[o[x].i] THEN "flavor" ELSE "clock")
  /\ OnlyOrder

\* ... then the clock under it.
LookClock(x) ==
  /\ OAt(x, "clock") /\ Free
  /\ o' = IF in.end_time[o[x].i] > now THEN [o EXCEPT ![x].pc = "flavor"]
          ELSE [o EXCEPT ![x].pc = "loop", ![x].i = @ + 1]
  /\ OnlyOrder

\* Every machine was found stopped: before a machine is looked for, or in a round of the loop
\* that looks for one.
NotServiced(x) ==
  /\ (OAt(x, "loop") /\ ~started[x]) \/ OAt(x, "select")
  /\ o[x].i > N
  /\ GiveUp(x)

\* "INVALID ORDER": nobody is told, and the order stays not started.
InvalidOrder(x) ==
  /\ OAt(x, "flavor") /\ in.order[x[1]][x[2]].flavor \notin DOMAIN Menu
  /\ OStep(x, "end")
  /\ OnlyOrder

FindFlavor(x) ==
  /\ OAt(x, "flavor") /\ in.order[x[1]][x[2]].flavor \in DOMAIN Menu
  /\ o' = [o EXCEPT ![x].pc = "toppings", ![x].i = 1]
  /\ OnlyOrder

\* The first look at the toppings, without the mutex, and the second thoughts under it.
ToppingsShort(x) ==
  /\ OAt(x, "toppings") /\ Short(x)
  /\ OStep(x, "unfulfilled")
  /\ OnlyOrder

Unfulfilled(x) == OAt(x, "unfulfilled") /\ GiveUp(x)

ToppingsLeft(x) ==
  /\ OAt(x, "toppings") /\ ~Short(x)
  /\ OStep(x, "select")
  /\ OnlyOrder

\* Machine m is free, and works long enough for x.
Fits(x, m) == sem[m] > 0 /\ available[m] /\ in.end_time[m] > now + prep(x)

\* The loop that looks for a machine.  Machine i is not for x, or another thread that looks
\* holds its semaphore for the moment.  `any' is available_count: a round that met no machine
\* that works or has not stopped yet is the last one, see NotServiced.
Skip(x) ==
  /\ OAt(x, "select") /\ o[x].i <= N /\ Free
  /\ Fits(x, o[x].i) => \E y \in Order \ {x} : OAt(y, "select")
  /\ LET i == o[x].i
         any == o[x].any \/ available[i] \/ in.end_time[i] > now
     IN o' = [o EXCEPT ![x].i = IF i = N /\ any THEN 1 ELSE i + 1, ![x].any = any /\ i < N]
  /\ OnlyOrder

\* Mutant: the result of sem_trywait is ignored.
SelectUntried(x) ==
  /\ OAt(x, "select") /\ o[x].i <= N /\ Free
  /\ LET m == o[x].i
     IN /\ available[m] /\ in.end_time[m] > now + prep(x)
        /\ sem' = [sem EXCEPT ![m] = IF @ > 0 THEN @ - 1 ELSE 0]
        /\ o' = [o EXCEPT ![x].pc = "begin", ![x].sel = m, ![x].any = FALSE]
  /\ UNCHANGED <<in, now, mutex, available, mpc, quantity, hall, started, done, threads, verdicts>>

\* sem_trywait succeeds, and the machine works long enough: otherwise it is posted back.
Select(x) ==
  /\ OAt(x, "select") /\ o[x].i <= N /\ Free
  /\ LET m == o[x].i
     IN /\ Fits(x, m)
        /\ sem' = [sem EXCEPT ![m] = @ - 1]
        /\ o' = [o EXCEPT ![x].pc = "begin", ![x].sel = m, ![x].any = FALSE]
  /\ UNCHANGED <<in, now, mutex, available, mpc, quantity, hall, started, done, threads, verdicts>>

\* Under the mutex, a topping is used up after all: the thread locks the mutex again.
Relock(x) ==
  /\ \/ OAt(x, "begin")
     \/ OAt(x, "complete") /\ available[o[x].sel]
  /\ Free /\ Short(x)
  /\ mutex' = x
  /\ OStep(x, "hung")
  /\ UNCHANGED <<in, now, machines, quantity, hall, started, done, threads, verdicts>>

Begin(x) ==
  /\ OAt(x, "begin") /\ Free /\ ~Short(x)
  /\ started' = [started EXCEPT ![x] = TRUE]
  /\ o' = [o EXCEPT ![x].pc = "prepare", ![x].i = 0, ![x].since = now]
  /\ UNCHANGED <<in, now, mutex, machines, quantity, hall, done, threads, verdicts>>

\* A second of preparation.
Sleep(x) ==
  /\ OAt(x, "prepare") /\ o[x].i < prep(x) /\ available[o[x].sel]
  /\ o' = [o EXCEPT ![x].pc = "sleep", ![x].until = now + 1]
  /\ OnlyOrder

Wake(x) ==
  /\ OAt(x, "sleep") /\ now >= o[x].until
  /\ o' = [o EXCEPT ![x].pc = "prepare", ![x].i = @ + 1]
  /\ OnlyOrder

\* The machine has stopped: its semaphore is posted, once for every second that is left.
Stopped(x) ==
  /\ OAt(x, "prepare") /\ o[x].i < prep(x) /\ ~available[o[x].sel]
  /\ sem' = [sem EXCEPT ![o[x].sel] = @ + 1]
  /\ started' = [started EXCEPT ![x] = FALSE]
  /\ o' = [o EXCEPT ![x].i = @ + 1]
  /\ UNCHANGED <<in, now, mutex, available, mpc, quantity, hall, done, threads, verdicts>>

Prepared(x) ==
  /\ OAt(x, "prepare") /\ o[x].i = prep(x)
  /\ OStep(x, "complete")
  /\ OnlyOrder

\* And posted again, before the order starts anew.
TryAgain(x) ==
  /\ OAt(x, "complete") /\ Free /\ ~available[o[x].sel]
  /\ sem' = [sem EXCEPT ![o[x].sel] = @ + 1]
  /\ started' = [started EXCEPT ![x] = FALSE]
  /\ o' = [o EXCEPT ![x].pc = "loop", ![x].sel = NoMachine, ![x].i = 1, ![x].since = 0]
  /\ UNCHANGED <<in, now, mutex, available, mpc, quantity, hall, done, threads, verdicts>>

\* Mutant: the machine is not looked at again after the preparation.
CompleteUnchecked(x) ==
  /\ OAt(x, "complete") /\ Free /\ ~Short(x)
  /\ done' = [done EXCEPT ![x] = TRUE]
  /\ OStep(x, "use")
  /\ UNCHANGED <<in, now, mutex, machines, quantity, hall, started, threads, verdicts>>

Complete(x) ==
  /\ OAt(x, "complete") /\ Free /\ available[o[x].sel] /\ ~Short(x)
  /\ done' = [done EXCEPT ![x] = TRUE]
  /\ OStep(x, "use")
  /\ UNCHANGED <<in, now, mutex, machines, quantity, hall, started, threads, verdicts>>

\* toppings[i].quantity-- reads and writes without the mutex; then the machine is posted.
UseRead(x) ==
  /\ OAt(x, "use")
  /\ o' = [o EXCEPT ![x].pc = "use_write", ![x].stock = quantity]
  /\ OnlyOrder

UseWrite(x) ==
  /\ OAt(x, "use_write")
  /\ quantity' = [t \in Topping |-> IF t \in wanted(x) THEN o[x].stock[t] - 1 ELSE quantity[t]]
  /\ sem' = [sem EXCEPT ![o[x].sel] = @ + 1]
  /\ o' = [o EXCEPT ![x].pc = "loop", ![x].sel = NoMachine, ![x].i = 1, ![x].since = 0]
  /\ UNCHANGED <<in, now, mutex, available, mpc, hall, started, done, threads, verdicts>>

-----------------------------------------------------------------------------
CustomerThread(t) ==
  \/ ServeLoop(t) \/ TakeFull(t) \/ Take(t) \/ Arrive(t) \/ Turn(t)
  \/ CreateOrders(t) \/ JoinUnfulfilled(t) \/ Collect(t)

OrderThread(x) ==
  \/ AwaitPrevious(x) \/ LookLeft(x) \/ LeftRead(x) \/ LeftWrite(x) \/ LoopEnds(x)
  \/ Look(x) \/ LookClock(x) \/ NotServiced(x) \/ InvalidOrder(x) \/ FindFlavor(x)
  \/ ToppingsShort(x) \/ Unfulfilled(x) \/ ToppingsLeft(x)
  \/ Skip(x) \/ Select(x)
  \/ Relock(x) \/ Begin(x) \/ Sleep(x) \/ Wake(x) \/ Stopped(x) \/ Prepared(x)
  \/ TryAgain(x) \/ Complete(x) \/ UseRead(x) \/ UseWrite(x)

Next ==
  \/ Tick
  \/ \E m \in Machine : MachineStart(m) \/ MachineStop(m)
  \/ \E t \in Customer : CustomerThread(t)
  \/ \E x \in Order : OrderThread(x)

Spec == Init /\ [][Next]_vars

-----------------------------------------------------------------------------
Labels == {"none", "prev", "look_left", "left", "left_write", "loop", "clock", "flavor", "toppings",
           "unfulfilled", "select", "begin", "prepare", "sleep", "complete", "use", "use_write", "hung", "end"}

\* The types; a working machine's semaphore, and an order's seconds, stay in range.
TypeOK ==
  /\ now \in 0..MaxTime /\ mutex \in Order \cup {Nobody}
  /\ available \in [Machine -> BOOLEAN] /\ sem \in [Machine -> Nat]
  /\ mpc \in [Machine -> {"before", "open", "after"}]
  /\ quantity \in [Topping -> Int]
  /\ served_customers \in Nat /\ curr_queue \in Int
  /\ {cust_done, left} \subseteq [Customer -> BOOLEAN]
  /\ {started, done} \subseteq [Order -> BOOLEAN]
  /\ cpc \in [Customer -> {"top", "take", "arrive", "turn", "pause", "join", "end"}]
  /\ cid \in [Customer -> {0} \cup Customer] /\ pause \in [Customer -> Nat]
  /\ DOMAIN o = Order
  /\ \A x \in Order :
       /\ o[x].pc \in Labels /\ o[x].sel \in Machine \cup {NoMachine}
       /\ OAt(x, "prepare") => o[x].i <= prep(x)
  /\ verdicts \in [Customer -> Nat]

\* The orders that have taken m's semaphore and have not finished with it.
Users(m) == {x \in Order : o[x].sel = m}

\* While machine m works, its semaphore is there exactly when no order uses the machine, and
\* at most one does: the extra sem_post calls of make_order's preparation loop come only after
\* the machine has stopped, and a stopped machine never works again.
MachineToken ==
  \A m \in Machine : available[m] =>
    \/ sem[m] = 1 /\ Users(m) = {}
    \/ sem[m] = 0 /\ \E x \in Order : Users(m) = {x}

\* A customer is told at most once how the visit ended, "collected", "unfulfilled order" or
\* "not serviced", although each of the customer's ice creams has a thread that may tell, and
\* the customer's own thread another.
OneVerdict == \A c \in Customer : verdicts[c] <= 1

\* An ice cream is completed only when its preparation time has passed since its machine
\* began it ("Every ice cream flavour f takes unique time t_f to prepare", README.md).  The
\* preparation loop of make_order does not sleep for the seconds in which the machine has
\* stopped: the look at the machine after the loop is what keeps those ice creams back.
PreparedInFull ==
  [][\A x \in DOMAIN o : done'[x] /\ ~done[x] => now >= o[x].since + prep(x)]_vars

\* "If a customer arrives at time t, they place the order at time t, and the order starts
\* getting prepared at time t+1" (README.md): a customer who has ordered does not wait for
\* the customer before while a machine is working and free.
NoWaitForOthers ==
  \A t \in Customer : At(t, "turn") /\ cid[t] # 1 /\ ~cust_done[cid[t] - 1] =>
    ~\E m \in Machine : available[m] /\ sem[m] > 0

\* The toppings that completed ice creams used were in stock ("A topping t is present in
\* limited quantity"), README.md.
ToppingsSuffice == \A t \in Topping : quantity[t] >= 0
=============================================================================
