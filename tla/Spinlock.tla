------------------------------ MODULE Spinlock ------------------------------
(***************************************************************************)
(* Spin locks, kernel/spinlock.c: acquire and release step by step, with   *)
(* push_off and pop_off, and what else changes the interrupt enable bit of *)
(* a hart: interrupts, intr_on and the context switch of sched.            *)
(*                                                                         *)
(* The code between acquire and release is not here: a hart may acquire    *)
(* any lock and release any lock at any time.  Module Console adds the     *)
(* steps of two device drivers.                                            *)
(***************************************************************************)
EXTENDS Integers, FiniteSets

CONSTANTS
  Hart,
  Lock

NoHart == "none"
NoLock == "none"

ASSUME SpinlockAssumption == IsFiniteSet(Lock) /\ NoHart \notin Hart

VARIABLES
  locked,   \* [Lock -> BOOLEAN]: lk->locked
  cpu,      \* [Lock -> Hart \cup {NoHart}]: lk->cpu
  noff,     \* [Hart -> Nat]: depth of push_off nesting
  intena,   \* [Hart -> BOOLEAN]: were interrupts enabled before push_off?
  ie,       \* [Hart -> BOOLEAN]: SIE in sstatus
  intrap,   \* [Hart -> BOOLEAN]: the hart is in kerneltrap
  at, lk,   \* of the harts: where one is in acquire or release, and of which lock
  held      \* history, [Hart -> SUBSET Lock]: acquire has returned, release was not called

spin == <<locked, cpu, noff, intena, ie, intrap, at, lk, held>>

Steps == {"check", "swap", "mark", "unlock", "pop"}   \* of acquire and release

SpinInit ==
  /\ locked = [l \in Lock |-> FALSE]
  /\ cpu = [l \in Lock |-> NoHart]
  /\ noff = [h \in Hart |-> 0]
  /\ intena = [h \in Hart |-> FALSE]
  /\ ie = [h \in Hart |-> FALSE]
  /\ intrap = [h \in Hart |-> FALSE]
  /\ at = [h \in Hart |-> "out"]
  /\ lk = [h \in Hart |-> NoLock]
  /\ held = [h \in Hart |-> {}]

Holding(h, l) == locked[l] /\ cpu[l] = h

PushOff(h) ==
  /\ noff' = [noff EXCEPT ![h] = @ + 1]
  /\ intena' = IF noff[h] = 0 THEN [intena EXCEPT ![h] = ie[h]] ELSE intena
  /\ ie' = [ie EXCEPT ![h] = FALSE]

At(h, step, l) == at[h] = step /\ lk[h] = l

Goto(h, step, l) ==
  /\ at' = [at EXCEPT ![h] = step]
  /\ lk' = [lk EXCEPT ![h] = l]

AcquireOff(h, l) ==
  /\ at[h] = "out"
  /\ PushOff(h)
  /\ Goto(h, "check", l)
  /\ UNCHANGED <<locked, cpu, intrap, held>>

AcquireCheck(h, l) ==
  /\ At(h, "check", l)
  /\ Goto(h, IF Holding(h, l) THEN "panic" ELSE "swap", l)
  /\ UNCHANGED <<locked, cpu, noff, intena, ie, intrap, held>>

\* The swap that finds 0; one that finds 1 changes nothing.
AcquireSwap(h, l) ==
  /\ At(h, "swap", l)
  /\ ~locked[l]
  /\ locked' = [locked EXCEPT ![l] = TRUE]
  /\ Goto(h, "mark", l)
  /\ UNCHANGED <<cpu, noff, intena, ie, intrap, held>>

AcquireMark(h, l) ==
  /\ At(h, "mark", l)
  /\ cpu' = [cpu EXCEPT ![l] = h]
  /\ held' = [held EXCEPT ![h] = @ \cup {l}]
  /\ Goto(h, "out", NoLock)
  /\ UNCHANGED <<locked, noff, intena, ie, intrap>>

\* Mutant: the lock stays the hart's.
ReleaseUnmarkKeepsCpu(h, l) ==
  /\ at[h] = "out"
  /\ IF Holding(h, l)
       THEN /\ held' = [held EXCEPT ![h] = @ \ {l}]
            /\ Goto(h, "unlock", l)
       ELSE /\ Goto(h, "panic", l)
            /\ UNCHANGED held
  /\ UNCHANGED <<locked, cpu, noff, intena, ie, intrap>>

ReleaseUnmark(h, l) ==
  /\ at[h] = "out"
  /\ IF Holding(h, l)
       THEN /\ cpu' = [cpu EXCEPT ![l] = NoHart]
            /\ held' = [held EXCEPT ![h] = @ \ {l}]
            /\ Goto(h, "unlock", l)
       ELSE /\ Goto(h, "panic", l)
            /\ UNCHANGED <<cpu, held>>
  /\ UNCHANGED <<locked, noff, intena, ie, intrap>>

ReleaseUnlock(h, l) ==
  /\ At(h, "unlock", l)
  /\ locked' = [locked EXCEPT ![l] = FALSE]
  /\ Goto(h, "pop", l)
  /\ UNCHANGED <<cpu, noff, intena, ie, intrap, held>>

\* Mutant: interrupts come back at the first pop_off.
PopOffEarly(h) ==
  /\ noff' = [noff EXCEPT ![h] = @ - 1]
  /\ ie' = IF intena[h] THEN [ie EXCEPT ![h] = TRUE] ELSE ie

PopOff(h) ==
  /\ noff' = [noff EXCEPT ![h] = @ - 1]
  /\ ie' = IF noff[h] = 1 /\ intena[h] THEN [ie EXCEPT ![h] = TRUE] ELSE ie

ReleasePop(h, l) ==
  /\ At(h, "pop", l)
  /\ IF ie[h] \/ noff[h] < 1
       THEN Goto(h, "panic", l) /\ UNCHANGED <<noff, ie>>
       ELSE PopOff(h) /\ Goto(h, "out", NoLock)
  /\ UNCHANGED <<locked, cpu, intena, intrap, held>>

-----------------------------------------------------------------------------
(* What else changes the interrupt enable bit.                             *)

\* The hart takes an interrupt in kernel code, and kerneltrap returns.
Trap(h) ==
  /\ ie[h]
  /\ at[h] = "out"
  /\ ie' = [ie EXCEPT ![h] = FALSE]
  /\ intrap' = [intrap EXCEPT ![h] = TRUE]
  /\ UNCHANGED <<locked, cpu, noff, intena, at, lk, held>>

TrapReturn(h) ==
  /\ intrap[h]
  /\ at[h] = "out"
  /\ noff[h] = 0
  /\ ie' = [ie EXCEPT ![h] = TRUE]
  /\ intrap' = [intrap EXCEPT ![h] = FALSE]
  /\ UNCHANGED <<locked, cpu, noff, intena, at, lk, held>>

\* intr_on in scheduler and usertrap, which hold no lock.
IntrOn(h) ==
  /\ at[h] = "out"
  /\ noff[h] = 0
  /\ ~intrap[h]
  /\ ie' = [ie EXCEPT ![h] = TRUE]
  /\ UNCHANGED <<locked, cpu, noff, intena, intrap, at, lk, held>>

\* sched: with p->lock only, from a thread that may be in a trap to one that
\* may be; intena is the thread's and goes with it.
Swtch(h) ==
  /\ at[h] = "out"
  /\ noff[h] = 1
  /\ ~ie[h]
  /\ \E i, t \in BOOLEAN : /\ ~(i /\ t)
                           /\ intena' = [intena EXCEPT ![h] = i]
                           /\ intrap' = [intrap EXCEPT ![h] = t]
  /\ UNCHANGED <<locked, cpu, noff, ie, at, lk, held>>

SpinNext ==
  \E h \in Hart :
    \/ \E l \in Lock : \/ AcquireOff(h, l) \/ AcquireCheck(h, l) \/ AcquireSwap(h, l) \/ AcquireMark(h, l)
                       \/ ReleaseUnmark(h, l) \/ ReleaseUnlock(h, l) \/ ReleasePop(h, l)
    \/ Trap(h) \/ TrapReturn(h) \/ IntrOn(h) \/ Swtch(h)

SpinSpec == SpinInit /\ [][SpinNext]_spin

-----------------------------------------------------------------------------
\* From the end of acquire(lk) to release(lk) no other hart is there; and outside the two, holding(lk)
\* is true of the hart that is and of no other, as the checks of acquire, release and sched need it.
MutualExclusion ==
  \A h \in Hart : \A l \in Lock :
    /\ l \in held[h] => \A g \in Hart \ {h} : l \notin held[g]
    /\ at[h] = "out" => (Holding(h, l) <=> l \in held[h])

\* A hart takes no interrupt from acquire to release: a handler that needs a lock
\* does not spin on its own hart.
InterruptSafe == \A h \in Hart : ie[h] => held[h] = {} /\ at[h] \in {"out", "panic"}
=============================================================================
