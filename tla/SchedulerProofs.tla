-------------------------- MODULE SchedulerProofs ---------------------------
(***************************************************************************)
(* A process runs on at most one CPU, for every number of CPUs and slots.  *)
(*                                                                         *)
(* scheduler() chooses with one set of locks and dispatches with another:  *)
(* by then the choice may be stale.  What saves it is the look at the      *)
(* state under p->lock, provided that what it looks at is a process at     *)
(* all.  That takes an invariant of the passes, ChoiceInv: the index that  *)
(* picks the process stays inside the array it picks from.                 *)
(***************************************************************************)
EXTENDS Scheduler, TLAPS

States == {"UNUSED", "RUNNABLE", "RUNNING", "SLEEPING", "ZOMBIE"}

Passes == {"max", "collect", "least", "tied", "arr2", "wild", "first", "dispatch", "fallback", "rr", "fault"}

Locals == [pc : Passes, i : Nat \ {0}, max : Int, arr : Seq(Slot), arr2 : Seq(Slot), no_sched : Int,
           count : Nat, ind : Nat, sel : Slot \cup {NoProc}]

AttrType ==
  /\ sp \in [Slot -> Int] /\ dp \in [Slot -> Int]
  /\ runtime \in [Slot -> Nat] /\ stime \in [Slot -> Nat] /\ wtime \in [Slot -> Nat]
  /\ no_scheduled \in [Slot -> Nat]
  /\ start_time \in [Slot -> Int] /\ ctime \in [Slot -> Int] /\ ticks \in Nat

SchedType ==
  /\ AttrType
  /\ state \in [Slot -> States]
  /\ cproc \in [CPU -> Slot \cup {NoProc}]
  /\ s \in [CPU -> Locals]

\* What a pass knows of the locals r.
ChoiceOf(r) ==
  /\ r.pc \in {"max", "collect"} => r.ind = 1
  /\ r.pc \in {"least", "tied"} => r.ind \in 1..Len(r.arr)
  /\ r.pc = "first" => r.ind \in 1..Len(r.arr2)
  /\ r.pc = "dispatch" => r.sel \in Slot

ChoiceInv == \A c \in CPU : ChoiceOf(s[c])

SchedInv == SchedType /\ ChoiceInv /\ RunsOnOneCpu

-----------------------------------------------------------------------------
(* The passes.                                                             *)

\* The top of the outer loop chooses nothing yet.
LEMMA TopChoice == Top \in Locals /\ ChoiceOf(Top) /\ Top.pc \in {"max", "rr"}
BY DEF Top, Locals, Passes, ChoiceOf, NoProc

\* The recent behaviour index is an integer: its denominator is never 0.
LEMMA RbiType ==
  ASSUME NEW r \in Nat, NEW st \in Nat, NEW w \in Nat
  PROVE  Rbi(r, st, w) \in Int
BY DEF Rbi

\* A CPU whose locals become r, if r is as its pass wants it, disturbs no other.
LEMMA LocalsStep ==
  ASSUME s \in [CPU -> Locals], ChoiceInv, NEW c \in CPU, NEW r \in Locals, ChoiceOf(r),
         s' = [s EXCEPT ![c] = r]
  PROVE  s' \in [CPU -> Locals] /\ ChoiceInv'
<1>1. \A d \in CPU : s'[d] = IF d = c THEN r ELSE s[d]
  OBVIOUS
<1>2. \A d \in CPU : ChoiceOf(s'[d])
  BY <1>1 DEF ChoiceInv
<1> QED
  BY <1>1, <1>2 DEF ChoiceInv

-----------------------------------------------------------------------------
(* What the updates of the locals leave alone.  Each update of scheduler()'s *)
(* locals has a name, so that a proof about a pass need not look inside.     *)

TurnOf(r) == [r EXCEPT !.i = @ + 1]
GotoOf(r, l) == [r EXCEPT !.pc = l, !.i = 1]
WithMax(r, m) == [r EXCEPT !.max = m]
WithArr(r, a) == [r EXCEPT !.arr = a]
WithNoSched(r, n) == [r EXCEPT !.no_sched = n]
WithBest(r, n, d) == [r EXCEPT !.no_sched = n, !.ind = d]
WithCount(r, k) == [r EXCEPT !.count = k]
WithArr2(r, a) == [r EXCEPT !.arr2 = a]
WithSel(r, x) == [r EXCEPT !.sel = x]

\* The fields ChoiceOf looks at, but for the arrays and their indices.
SamePlace(q, r) == q.pc = r.pc /\ q.i = r.i /\ q.sel = r.sel

\* The types of the locals of scheduler().
LEMMA Fields ==
  ASSUME NEW r \in Locals
  PROVE  /\ r.pc \in Passes /\ r.i \in Nat \ {0} /\ r.max \in Int /\ r.arr \in Seq(Slot)
         /\ r.arr2 \in Seq(Slot) /\ r.no_sched \in Int /\ r.count \in Nat /\ r.ind \in Nat /\ r.sel \in Slot \cup {NoProc}
BY DEF Locals

\* A turn of a loop of scheduler() moves i and nothing else.
LEMMA TurnFacts ==
  ASSUME NEW r \in Locals
  PROVE  /\ TurnOf(r) \in Locals
         /\ TurnOf(r).pc = r.pc /\ TurnOf(r).i = r.i + 1 /\ TurnOf(r).arr = r.arr
         /\ TurnOf(r).arr2 = r.arr2 /\ TurnOf(r).ind = r.ind /\ TurnOf(r).sel = r.sel
<1>1. TurnOf(r) \in Locals
  <2>1. \A j \in Nat \ {0} : [r EXCEPT !.i = j] \in Locals
    BY ZenonT(40) DEF Locals
  <2>2. r.i + 1 \in Nat \ {0}
    BY Fields
  <2> QED
    BY <2>1, <2>2, Zenon DEF TurnOf
<1>2. TurnOf(r).i = r.i + 1
  BY DEF Locals, TurnOf
<1>3. /\ TurnOf(r).pc = r.pc /\ TurnOf(r).arr = r.arr
      /\ TurnOf(r).arr2 = r.arr2 /\ TurnOf(r).ind = r.ind /\ TurnOf(r).sel = r.sel
  BY ZenonT(40) DEF Locals, TurnOf
<1> QED
  BY <1>1, <1>2, <1>3

\* The way to the next loop resets i and keeps the arrays and the index.
LEMMA GotoFacts ==
  ASSUME NEW r \in Locals, NEW l \in Passes
  PROVE  /\ GotoOf(r, l) \in Locals
         /\ GotoOf(r, l).pc = l /\ GotoOf(r, l).i = 1 /\ GotoOf(r, l).arr = r.arr
         /\ GotoOf(r, l).arr2 = r.arr2 /\ GotoOf(r, l).ind = r.ind /\ GotoOf(r, l).sel = r.sel
<1>1. GotoOf(r, l) \in Locals
  <2>1. \A j \in Nat \ {0} : [r EXCEPT !.pc = l, !.i = j] \in Locals
    BY ZenonT(40) DEF Locals
  <2>2. 1 \in Nat \ {0}
    OBVIOUS
  <2> QED
    BY <2>1, <2>2, Zenon DEF GotoOf
<1>2. GotoOf(r, l).pc = l /\ GotoOf(r, l).i = 1
  BY DEF Locals, GotoOf
<1>3. GotoOf(r, l).arr = r.arr /\ GotoOf(r, l).arr2 = r.arr2
  BY DEF Locals, GotoOf
<1>4. GotoOf(r, l).ind = r.ind /\ GotoOf(r, l).sel = r.sel
  BY DEF Locals, GotoOf
<1> QED
  BY <1>1, <1>2, <1>3, <1>4

\* A new maximum keeps the rest (first pass).
LEMMA SetMax ==
  ASSUME NEW r \in Locals, NEW m \in Int
  PROVE  /\ WithMax(r, m) \in Locals /\ SamePlace(WithMax(r, m), r)
         /\ WithMax(r, m).arr = r.arr /\ WithMax(r, m).ind = r.ind
BY ZenonT(40) DEF Locals, SamePlace, WithMax

\* A new array keeps the rest (second pass).
LEMMA SetArr ==
  ASSUME NEW r \in Locals, NEW a \in Seq(Slot)
  PROVE  /\ WithArr(r, a) \in Locals /\ SamePlace(WithArr(r, a), r)
         /\ WithArr(r, a).arr = a /\ WithArr(r, a).ind = r.ind
BY ZenonT(40) DEF Locals, SamePlace, WithArr

\* A new number of runs keeps the rest.
LEMMA SetNoSched ==
  ASSUME NEW r \in Locals, NEW n \in Int
  PROVE  /\ WithNoSched(r, n) \in Locals /\ SamePlace(WithNoSched(r, n), r)
         /\ WithNoSched(r, n).arr = r.arr /\ WithNoSched(r, n).ind = r.ind
BY ZenonT(40) DEF Locals, SamePlace, WithNoSched

\* A better candidate changes ind.
LEMMA SetBest ==
  ASSUME NEW r \in Locals, NEW n \in Int, NEW d \in Nat
  PROVE  /\ WithBest(r, n, d) \in Locals /\ SamePlace(WithBest(r, n, d), r)
         /\ WithBest(r, n, d).arr = r.arr /\ WithBest(r, n, d).arr2 = r.arr2 /\ WithBest(r, n, d).ind = d
BY ZenonT(40) DEF Locals, SamePlace, WithBest

\* A new count keeps the rest.
LEMMA SetCount ==
  ASSUME NEW r \in Locals, NEW k \in Nat
  PROVE  /\ WithCount(r, k) \in Locals /\ SamePlace(WithCount(r, k), r)
         /\ WithCount(r, k).arr = r.arr /\ WithCount(r, k).ind = r.ind
BY DEF Locals, SamePlace, WithCount

\* An element stored in arr2 keeps the rest.
LEMMA SetArr2 ==
  ASSUME NEW r \in Locals, NEW a \in Seq(Slot)
  PROVE  WithArr2(r, a) \in Locals /\ SamePlace(WithArr2(r, a), r)
BY ZenonT(40) DEF Locals, SamePlace, WithArr2

\* A chosen process changes sel only.
LEMMA SetSel ==
  ASSUME NEW r \in Locals, NEW x \in Slot \cup {NoProc}
  PROVE  /\ WithSel(r, x) \in Locals /\ WithSel(r, x).pc = r.pc /\ WithSel(r, x).i = r.i /\ WithSel(r, x).sel = x
         /\ WithSel(r, x).arr = r.arr /\ WithSel(r, x).arr2 = r.arr2 /\ WithSel(r, x).ind = r.ind
BY DEF Locals, WithSel

-----------------------------------------------------------------------------
(* The passes keep ChoiceInv.                                              *)

\* A turn of a loop with the locals q, where the loop can go on from them.
LEMMA TurnStep ==
  ASSUME s \in [CPU -> Locals], ChoiceInv, NEW c \in CPU, NEW q \in Locals,
         Turn(c, q), ChoiceOf(TurnOf(q))
  PROVE  s' \in [CPU -> Locals] /\ ChoiceInv'
<1>1. s' = [s EXCEPT ![c] = TurnOf(q)]
  BY DEF Turn, TurnOf
<1> QED
  BY <1>1, TurnFacts, LocalsStep, ZenonT(40)

\* The way to the next loop with the locals q, where the next loop can start from them.
LEMMA GotoStep ==
  ASSUME s \in [CPU -> Locals], ChoiceInv, NEW c \in CPU, NEW q \in Locals, NEW l \in Passes,
         Goto(c, q, l), ChoiceOf(GotoOf(q, l))
  PROVE  s' \in [CPU -> Locals] /\ ChoiceInv'
<1>1. s' = [s EXCEPT ![c] = GotoOf(q, l)]
  BY DEF Goto, GotoOf
<1> QED
  BY <1>1, GotoFacts, LocalsStep, ZenonT(40)

\* Back to the top of the outer loop.
LEMMA TopStep ==
  ASSUME s \in [CPU -> Locals], ChoiceInv, NEW c \in CPU, Goto(c, Top, Top.pc)
  PROVE  s' \in [CPU -> Locals] /\ ChoiceInv'
<1>1. Top \in Locals /\ Top.ind = 1 /\ Top.pc \in Passes /\ Top.pc \in {"max", "rr"}
  BY TopChoice DEF Top, Passes
<1>2. ChoiceOf(GotoOf(Top, Top.pc))
  BY <1>1, GotoFacts DEF ChoiceOf
<1> QED
  BY <1>1, <1>2, GotoStep

\* The first two passes, max and collect, start with ind at the first element.
LEMMA CollectChoice ==
  ASSUME NPROC \in Nat, SchedType, ChoiceInv, NEW c \in CPU,
         MaxPass(c) \/ MaxDone(c) \/ Collect(c) \/ CollectDone(c)
  PROVE  s' \in [CPU -> Locals] /\ ChoiceInv'
<1>0. s[c] \in Locals /\ ChoiceOf(s[c]) /\ s \in [CPU -> Locals]
  BY DEF SchedType, ChoiceInv
<1> DEFINE p == s[c].i
<1>f. /\ p \in Nat \ {0} /\ s[c].max \in Int /\ s[c].arr \in Seq(Slot)
      /\ p <= NPROC => p \in Slot
  BY <1>0, Fields DEF Slot
<1>1. CASE MaxPass(c)
  <2>1. s[c].pc = "max" /\ p \in Slot
    BY <1>f, <1>1 DEF MaxPass, At
  <2>2. CASE Runnable(p)
    <3>0. runtime[p] \in Nat /\ stime[p] \in Nat /\ wtime[p] \in Nat
      BY <2>1 DEF SchedType, AttrType
    <3>1. Rbi(runtime[p], stime[p], wtime[p]) \in Int
      BY <3>0, RbiType
    <3>2. dp' = [dp EXCEPT ![p] = Least(sp[p] + Rbi(runtime[p], stime[p], wtime[p]), 100)]
      BY <1>1, <2>2 DEF MaxPass
    <3>3. dp'[p] \in Int
      BY <2>1, <3>1, <3>2 DEF Least, SchedType, AttrType
    <3>4. PICK m \in Int : m = IF dp'[p] > s[c].max THEN dp'[p] ELSE s[c].max
      BY <1>f, <3>3
    <3>5. PICK q : q = WithMax(s[c], m) /\ Turn(c, q)
      BY <1>1, <2>2, <3>4 DEF MaxPass, WithMax
    <3>6. q \in Locals /\ SamePlace(q, s[c]) /\ q.ind = s[c].ind
      BY <1>0, <3>5, SetMax
    <3>7. ChoiceOf(TurnOf(q))
      BY <1>0, <2>1, <3>6, TurnFacts DEF ChoiceOf, SamePlace
    <3> QED
      BY <1>0, <3>5, <3>6, <3>7, TurnStep
  <2>3. CASE ~Runnable(p)
    <3>1. Turn(c, s[c])
      BY <1>1, <2>3 DEF MaxPass
    <3>2. ChoiceOf(TurnOf(s[c]))
      BY <1>0, <2>1, TurnFacts DEF ChoiceOf
    <3> QED
      BY <1>0, <3>1, <3>2, TurnStep
  <2> QED
    BY <2>2, <2>3
<1>2. CASE MaxDone(c)
  <2>1. s[c].pc = "max" /\ Goto(c, s[c], "collect") /\ "collect" \in Passes
    BY <1>2 DEF MaxDone, At, Passes
  <2>2. ChoiceOf(GotoOf(s[c], "collect"))
    BY <1>0, <2>1, GotoFacts DEF ChoiceOf
  <2> QED
    BY <1>0, <2>1, <2>2, GotoStep
<1>3. CASE Collect(c)
  <2>1. s[c].pc = "collect" /\ p \in Slot
    BY <1>f, <1>3 DEF Collect, At
  <2>2. PICK q \in Locals : Turn(c, q) /\ SamePlace(q, s[c]) /\ q.ind = s[c].ind
    <3>1. CASE Runnable(p) /\ dp[p] = s[c].max
      <4>0. Append(s[c].arr, p) \in Seq(Slot)
        BY <1>f, <2>1
      <4>1. PICK a \in Seq(Slot) : a = Append(s[c].arr, p)
        BY <4>0, Zenon
      <4>2. PICK q : q = WithArr(s[c], a) /\ Turn(c, q)
        BY <1>3, <3>1, <4>1 DEF Collect, WithArr
      <4>3. q \in Locals /\ SamePlace(q, s[c]) /\ q.ind = s[c].ind
        BY <1>0, <4>2, SetArr
      <4> QED
        BY <4>2, <4>3
    <3>2. CASE ~(Runnable(p) /\ dp[p] = s[c].max)
      BY <1>0, <1>3, <3>2 DEF Collect, SamePlace
    <3> QED
      BY <3>1, <3>2
  <2>3. ChoiceOf(TurnOf(q))
    BY <1>0, <2>1, <2>2, TurnFacts DEF ChoiceOf, SamePlace
  <2> QED
    BY <1>0, <2>2, <2>3, TurnStep
<1>4. CASE CollectDone(c)
  <2>1. s[c].pc = "collect" /\ {"fallback", "least"} \subseteq Passes
    BY <1>4 DEF CollectDone, At, Passes
  <2>2. CASE s[c].arr = <<>>
    <3>1. Goto(c, s[c], "fallback")
      BY <1>4, <2>2 DEF CollectDone
    <3>2. ChoiceOf(GotoOf(s[c], "fallback"))
      BY <1>0, <2>1, GotoFacts DEF ChoiceOf
    <3> QED
      BY <1>0, <2>1, <3>1, <3>2, GotoStep
  <2>3. CASE s[c].arr # <<>>
    <3>1. Len(s[c].arr) \in Nat \ {0} /\ s[c].arr[1] \in Slot
      BY <1>f, <2>3
    <3>2. no_scheduled[s[c].arr[1]] \in Int
      BY <3>1 DEF SchedType, AttrType
    <3>3. PICK q : q = WithNoSched(s[c], no_scheduled[s[c].arr[1]]) /\ Goto(c, q, "least")
      BY <1>4, <2>3 DEF CollectDone, WithNoSched
    <3>4. q \in Locals /\ q.arr = s[c].arr /\ q.ind = s[c].ind
      BY <1>0, <3>2, <3>3, SetNoSched
    <3>5. ChoiceOf(GotoOf(q, "least"))
      BY <1>0, <2>1, <3>1, <3>4, GotoFacts DEF ChoiceOf
    <3> QED
      BY <1>0, <2>1, <3>3, <3>4, <3>5, GotoStep
  <2> QED
    BY <2>2, <2>3
<1> QED
  BY <1>1, <1>2, <1>3, <1>4

\* The pass that looks for the least number of runs, and the count of the tied,
\* keep ind inside the array.
LEMMA LeastChoice ==
  ASSUME NPROC \in Nat, SchedType, ChoiceInv, NEW c \in CPU,
         LeastPass(c) \/ LeastDone(c) \/ CountTied(c) \/ CountTiedDone(c)
  PROVE  s' \in [CPU -> Locals] /\ ChoiceInv'
<1>0. s[c] \in Locals /\ ChoiceOf(s[c]) /\ s \in [CPU -> Locals]
  BY DEF SchedType, ChoiceInv
<1> DEFINE arr == s[c].arr
           i == s[c].i
<1>f. i \in Nat \ {0} /\ arr \in Seq(Slot) /\ s[c].count \in Nat /\ s[c].ind \in Nat
  BY <1>0, Fields
<1>g. Len(arr) \in Nat
  BY <1>f
<1>1. CASE LeastPass(c)
  <2>0. s[c].pc = "least" /\ i <= Len(arr)
    BY <1>1 DEF LeastPass, At
  <2>1. s[c].pc = "least" /\ i \in 1..Len(arr)
    BY <1>f, <1>g, <2>0
  <2>2. arr[i] \in Slot
    BY <1>f, <2>1
  <2>3. no_scheduled[arr[i]] \in Int
    BY <2>2 DEF SchedType, AttrType
  <2>4. PICK q \in Locals : Turn(c, q) /\ SamePlace(q, s[c]) /\ q.arr = arr /\ q.ind \in 1..Len(arr)
    <3>1. CASE Runnable(arr[i]) /\ no_scheduled[arr[i]] < s[c].no_sched
      <4>1. PICK q : q = WithBest(s[c], no_scheduled[arr[i]], i) /\ Turn(c, q)
        BY <1>1, <3>1, ZenonT(40) DEF LeastPass, WithBest
      <4>2. q \in Locals /\ SamePlace(q, s[c]) /\ q.arr = arr /\ q.ind = i
        BY <1>0, <1>f, <2>3, <4>1, SetBest
      <4> QED
        BY <2>1, <4>1, <4>2
    <3>2. CASE ~(Runnable(arr[i]) /\ no_scheduled[arr[i]] < s[c].no_sched)
      <4>1. Turn(c, s[c])
        BY <1>1, <3>2 DEF LeastPass
      <4>2. s[c].ind \in 1..Len(arr)
        BY <1>0, <2>1 DEF ChoiceOf
      <4> QED
        BY <1>0, <4>1, <4>2, Zenon DEF SamePlace
    <3> QED
      BY <3>1, <3>2, ZenonT(40)
  <2>5. ChoiceOf(TurnOf(q))
    BY <2>1, <2>4, TurnFacts DEF ChoiceOf, SamePlace
  <2> QED
    BY <1>0, <2>4, <2>5, TurnStep, Zenon
<1>2. CASE LeastDone(c)
  <2>1. s[c].pc = "least" /\ Goto(c, s[c], "tied") /\ "tied" \in Passes
    BY <1>2 DEF LeastDone, At, Passes
  <2>2. ChoiceOf(GotoOf(s[c], "tied"))
    BY <1>0, <2>1, GotoFacts DEF ChoiceOf
  <2> QED
    BY <1>0, <2>1, <2>2, GotoStep
<1>3. CASE CountTied(c)
  <2>1. s[c].pc = "tied"
    BY <1>3 DEF CountTied, At
  <2>2. PICK q \in Locals : Turn(c, q) /\ SamePlace(q, s[c]) /\ q.arr = arr /\ q.ind = s[c].ind
    <3>1. CASE Tied(arr[i], c)
      <4>1. PICK k \in Nat : k = s[c].count + 1
        BY <1>f
      <4>2. PICK q : q = WithCount(s[c], k) /\ Turn(c, q)
        BY <1>3, <3>1, <4>1 DEF CountTied, WithCount
      <4>3. q \in Locals /\ SamePlace(q, s[c]) /\ q.arr = arr /\ q.ind = s[c].ind
        BY <1>0, <4>2, SetCount
      <4> QED
        BY <4>2, <4>3
    <3>2. CASE ~Tied(arr[i], c)
      BY <1>0, <1>3, <3>2 DEF CountTied, SamePlace
    <3> QED
      BY <3>1, <3>2
  <2>3. ChoiceOf(TurnOf(q))
    BY <1>0, <2>1, <2>2, TurnFacts DEF ChoiceOf, SamePlace
  <2> QED
    BY <1>0, <2>2, <2>3, TurnStep
<1>4. CASE CountTiedDone(c)
  <2>1. s[c].pc = "tied" /\ {"dispatch", "arr2"} \subseteq Passes
    BY <1>4 DEF CountTiedDone, At, Passes
  <2>2. CASE s[c].count = 0
    <3>1. Goto(c, Top, Top.pc)
      BY <1>4, <2>2 DEF CountTiedDone
    <3> QED
      BY <1>0, <3>1, TopStep
  <2>3. CASE s[c].count = 1
    <3>0. s[c].ind \in 1..Len(arr)
      BY <1>0, <2>1 DEF ChoiceOf
    <3>1. arr[s[c].ind] \in Slot
      BY <1>f, <3>0
    <3>2. PICK q : q = WithSel(s[c], arr[s[c].ind]) /\ Goto(c, q, "dispatch")
      BY <1>4, <2>3 DEF CountTiedDone, WithSel
    <3>3. q \in Locals /\ q.sel \in Slot
      BY <1>0, <3>1, <3>2, SetSel
    <3>4. ChoiceOf(GotoOf(q, "dispatch"))
      BY <2>1, <3>3, GotoFacts DEF ChoiceOf
    <3> QED
      BY <1>0, <2>1, <3>2, <3>3, <3>4, GotoStep
  <2>4. CASE s[c].count # 0 /\ s[c].count # 1
    <3>1. Goto(c, s[c], "arr2")
      BY <1>4, <2>4 DEF CountTiedDone
    <3>2. ChoiceOf(GotoOf(s[c], "arr2"))
      BY <1>0, <2>1, GotoFacts DEF ChoiceOf
    <3> QED
      BY <1>0, <2>1, <3>1, <3>2, GotoStep
  <2> QED
    BY <2>2, <2>3, <2>4
<1> QED
  BY <1>1, <1>2, <1>3, <1>4

\* The last pass: the index stays inside arr2; and what is read from arr2 when it is
\* empty is some slot, or a fault.
LEMMA Arr2Choice ==
  ASSUME NPROC \in Nat, SchedType, ChoiceInv, NEW c \in CPU,
         Arr2(c) \/ Arr2Done(c) \/ WildRead(c) \/ First(c) \/ FirstDone(c)
  PROVE  s' \in [CPU -> Locals] /\ ChoiceInv'
<1>0. s[c] \in Locals /\ ChoiceOf(s[c]) /\ s \in [CPU -> Locals]
  BY DEF SchedType, ChoiceInv
<1> DEFINE arr == s[c].arr
           arr2 == s[c].arr2
           i == s[c].i
<1>f. i \in Nat \ {0} /\ arr \in Seq(Slot) /\ arr2 \in Seq(Slot) /\ s[c].ind \in Nat
  BY <1>0, Fields
<1>g. Len(arr) \in Nat /\ Len(arr2) \in Nat
  BY <1>f
<1>1. CASE Arr2(c)
  <2>0. s[c].pc = "arr2" /\ i <= Len(arr)
    BY <1>1 DEF Arr2, At
  <2>1. i \in 1..Len(arr)
    BY <1>f, <1>g, <2>0
  <2>2. arr[i] \in Slot
    BY <1>f, <2>1
  <2>3. PICK q \in Locals : Turn(c, q) /\ SamePlace(q, s[c])
    <3>1. CASE Tied(arr[i], c)
      <4>0. Append(arr2, arr[i]) \in Seq(Slot)
        BY <1>f, <2>2
      <4>1. PICK a \in Seq(Slot) : a = Append(arr2, arr[i])
        BY <4>0, Zenon
      <4>2. PICK q : q = WithArr2(s[c], a) /\ Turn(c, q)
        BY <1>1, <3>1, <4>1 DEF Arr2, WithArr2
      <4> QED
        BY <1>0, <4>2, SetArr2
    <3>2. CASE ~Tied(arr[i], c)
      BY <1>0, <1>1, <3>2 DEF Arr2, SamePlace
    <3> QED
      BY <3>1, <3>2
  <2>4. ChoiceOf(TurnOf(q))
    BY <2>0, <2>3, TurnFacts DEF ChoiceOf, SamePlace
  <2> QED
    BY <1>0, <2>3, <2>4, TurnStep
<1>2. CASE Arr2Done(c)
  <2>1. s[c].pc = "arr2" /\ {"wild", "first"} \subseteq Passes
    BY <1>2 DEF Arr2Done, At, Passes
  <2>2. CASE arr2 = <<>>
    <3>1. Goto(c, s[c], "wild")
      BY <1>2, <2>2 DEF Arr2Done
    <3>2. ChoiceOf(GotoOf(s[c], "wild"))
      BY <1>0, <2>1, GotoFacts DEF ChoiceOf
    <3> QED
      BY <1>0, <2>1, <3>1, <3>2, GotoStep
  <2>3. CASE arr2 # <<>>
    <3>1. 1 \in 1..Len(arr2) /\ arr2[1] \in Slot
      BY <1>f, <2>3
    <3>2. PICK n \in Int : n = start_time[arr2[1]]
      BY <3>1 DEF SchedType, AttrType
    <3>3. PICK q : q = WithBest(s[c], n, 1) /\ Goto(c, q, "first")
      BY <1>2, <2>3, <3>2, ZenonT(40) DEF Arr2Done, WithBest
    <3>4. 1 \in Nat
      OBVIOUS
    <3>5. q \in Locals /\ q.arr2 = arr2 /\ q.ind = 1
      BY ONLY <1>0, <3>2, <3>3, <3>4, SetBest
    <3>6. ChoiceOf(GotoOf(q, "first"))
      BY <2>1, <3>1, <3>5, GotoFacts DEF ChoiceOf
    <3> QED
      BY <1>0, <2>1, <3>3, <3>5, <3>6, GotoStep
  <2> QED
    BY <2>2, <2>3
<1>3. CASE WildRead(c)
  <2>1. {"dispatch", "fault"} \subseteq Passes /\ Top \in Locals
    BY TopChoice DEF Passes
  <2>2. ASSUME NEW p \in Slot, Goto(c, [Top EXCEPT !.sel = p], "dispatch")
        PROVE  s' \in [CPU -> Locals] /\ ChoiceInv'
    <3>1. PICK q : q = WithSel(Top, p) /\ Goto(c, q, "dispatch")
      BY <2>2 DEF WithSel
    <3>2. q \in Locals /\ q.sel \in Slot
      BY <2>1, <3>1, SetSel
    <3>3. ChoiceOf(GotoOf(q, "dispatch"))
      BY <2>1, <3>2, GotoFacts DEF ChoiceOf
    <3> QED
      BY <1>0, <2>1, <3>1, <3>2, <3>3, GotoStep
  <2>3. CASE Goto(c, Top, "fault")
    <3>1. ChoiceOf(GotoOf(Top, "fault"))
      BY <2>1, GotoFacts DEF ChoiceOf
    <3> QED
      BY <1>0, <2>1, <2>3, <3>1, GotoStep
  <2> QED
    BY <1>3, <2>2, <2>3, ZenonT(40) DEF WildRead
<1>4. CASE First(c)
  <2>0. s[c].pc = "first" /\ i <= Len(arr2)
    BY <1>4 DEF First, At
  <2>1. s[c].pc = "first" /\ i \in 1..Len(arr2)
    BY <1>f, <1>g, <2>0
  <2>2. arr2[i] \in Slot
    BY <1>f, <2>1
  <2>3. ctime[arr2[i]] \in Int
    BY <2>2 DEF SchedType, AttrType
  <2>4. PICK q \in Locals : Turn(c, q) /\ SamePlace(q, s[c]) /\ q.arr2 = arr2 /\ q.ind \in 1..Len(arr2)
    <3>1. CASE Runnable(arr2[i]) /\ ctime[arr2[i]] < s[c].no_sched
      <4>1. PICK q : q = WithBest(s[c], ctime[arr2[i]], i) /\ Turn(c, q)
        BY <1>4, <3>1, ZenonT(40) DEF First, WithBest
      <4>2. q \in Locals /\ SamePlace(q, s[c]) /\ q.arr2 = arr2 /\ q.ind = i
        BY <1>0, <1>f, <2>3, <4>1, SetBest
      <4> QED
        BY <2>1, <4>1, <4>2
    <3>2. CASE ~(Runnable(arr2[i]) /\ ctime[arr2[i]] < s[c].no_sched)
      <4>1. Turn(c, s[c])
        BY <1>4, <3>2 DEF First
      <4>2. s[c].ind \in 1..Len(arr2)
        BY <1>0, <2>1 DEF ChoiceOf
      <4> QED
        BY <1>0, <4>1, <4>2, Zenon DEF SamePlace
    <3> QED
      BY <3>1, <3>2, ZenonT(40)
  <2>5. ChoiceOf(TurnOf(q))
    BY <2>1, <2>4, TurnFacts DEF ChoiceOf, SamePlace
  <2> QED
    BY <1>0, <2>4, <2>5, TurnStep, Zenon
<1>5. CASE FirstDone(c)
  <2>1. s[c].pc = "first" /\ "dispatch" \in Passes
    BY <1>5 DEF FirstDone, At, Passes
  <2>a. s[c].ind \in 1..Len(arr2)
    BY <1>0, <2>1 DEF ChoiceOf
  <2>b. arr2[s[c].ind] \in Slot
    BY <1>f, <2>a
  <2>2. PICK x \in Slot : x = arr2[s[c].ind]
    BY <2>b
  <2>3. PICK q : q = WithSel(s[c], x) /\ Goto(c, q, "dispatch")
    BY <1>5, <2>2 DEF FirstDone, WithSel
  <2>4. q \in Locals /\ q.sel \in Slot
    BY ONLY <1>0, <2>2, <2>3, SetSel
  <2>5. ChoiceOf(GotoOf(q, "dispatch"))
    BY <2>1, <2>4, GotoFacts DEF ChoiceOf
  <2> QED
    BY <1>0, <2>1, <2>3, <2>4, <2>5, GotoStep
<1> QED
  BY <1>1, <1>2, <1>3, <1>4, <1>5

\* The context switch, and the loops that switch as they go.
LEMMA DispatchChoice ==
  ASSUME SchedType, ChoiceInv, NEW c \in CPU,
         Dispatch(c) \/ Fallback(c) \/ RoundRobin(c) \/ RoundDone(c)
  PROVE  s' \in [CPU -> Locals] /\ ChoiceInv'
<1>0. s[c] \in Locals /\ ChoiceOf(s[c]) /\ s \in [CPU -> Locals]
  BY DEF SchedType, ChoiceInv
<1>r. ASSUME NEW p, NEW r \in Locals, r.pc # "dispatch", ChoiceOf(r), Run(c, p, r)
      PROVE  s' \in [CPU -> Locals] /\ ChoiceInv'
  <2>1. s' = [s EXCEPT ![c] = WithSel(r, NoProc)]
    BY <1>r DEF Run, WithSel
  <2>2. WithSel(r, NoProc) \in Locals /\ ChoiceOf(WithSel(r, NoProc))
    BY <1>r, SetSel DEF ChoiceOf
  <2> QED
    BY <1>0, <2>1, <2>2, LocalsStep, ZenonT(40)
<1>t. Top \in Locals /\ Top.pc # "dispatch" /\ ChoiceOf(Top)
  BY TopChoice
<1>1. CASE Dispatch(c)
  BY <1>0, <1>1, <1>r, <1>t, TopStep DEF Dispatch, RunPbs
<1>2. CASE Fallback(c) \/ RoundRobin(c)
  <2>1. s[c].pc \in {"fallback", "rr"}
    BY <1>2 DEF Fallback, RoundRobin, At
  <2>2. TurnOf(s[c]) \in Locals /\ TurnOf(s[c]).pc # "dispatch" /\ ChoiceOf(TurnOf(s[c]))
    BY <1>0, <2>1, TurnFacts DEF ChoiceOf
  <2>3. Run(c, s[c].i, TurnOf(s[c])) \/ Turn(c, s[c])
    BY <1>2 DEF Fallback, RoundRobin, RunPbs, TurnOf
  <2> QED
    BY <1>0, <1>r, <2>2, <2>3, TurnStep
<1>3. CASE RoundDone(c)
  BY <1>0, <1>3, TopStep, Zenon DEF RoundDone
<1> QED
  BY <1>1, <1>2, <1>3

-----------------------------------------------------------------------------
(* Who runs.                                                               *)

Placed == state \in [Slot -> States] /\ cproc \in [CPU -> Slot \cup {NoProc}] /\ RunsOnOneCpu

\* A CPU without a process takes a runnable one.
LEMMA RunPlaced ==
  ASSUME Placed, NEW c \in CPU, NEW p \in Slot, Idle(c), Runnable(p),
         state' = [state EXCEPT ![p] = "RUNNING"], cproc' = [cproc EXCEPT ![c] = p]
  PROVE  Placed'
<1>1. state' \in [Slot -> States] /\ cproc' \in [CPU -> Slot \cup {NoProc}]
  BY DEF Placed, States
<1>2. \A d \in CPU : cproc[d] # p
  BY DEF Placed, RunsOnOneCpu, Runnable
<1>3. \A d \in CPU : cproc'[d] = IF d = c THEN p ELSE cproc[d]
  BY DEF Placed
<1>4. \A q \in Slot : state'[q] = IF q = p THEN "RUNNING" ELSE state[q]
  BY DEF Placed
<1>5. \A d, e \in CPU : cproc'[d] = cproc'[e] /\ cproc'[d] # NoProc => d = e
  BY <1>2, <1>3 DEF Placed, RunsOnOneCpu
<1>6. \A q \in Slot : state'[q] = "RUNNING" <=> \E d \in CPU : cproc'[d] = q
  <2> TAKE q \in Slot
  <2>1. q # NoProc
    BY DEF Slot, NoProc
  <2>2. CASE q = p
    BY <1>3, <1>4, <2>2
  <2>3. CASE q # p
    BY <1>3, <1>4, <2>1, <2>3 DEF Placed, RunsOnOneCpu, Idle
  <2> QED
    BY <2>2, <2>3
<1> QED
  BY <1>1, <1>5, <1>6 DEF Placed, RunsOnOneCpu

\* The process of a CPU leaves it.
LEMMA LeavePlaced ==
  ASSUME Placed, NEW c \in CPU, NEW x \in States \ {"RUNNING"}, Leave(c, x)
  PROVE  Placed'
<1>0. cproc[c] \in Slot
  BY DEF Placed, Leave
<1>1. state' \in [Slot -> States] /\ cproc' \in [CPU -> Slot \cup {NoProc}]
  BY DEF Placed, Leave
<1>2. \A d \in CPU : cproc'[d] = IF d = c THEN NoProc ELSE cproc[d]
  BY DEF Placed, Leave
<1>3. \A q \in Slot : state'[q] = IF q = cproc[c] THEN x ELSE state[q]
  BY DEF Placed, Leave
<1>4. \A d, e \in CPU : cproc'[d] = cproc'[e] /\ cproc'[d] # NoProc => d = e
  BY <1>2 DEF Placed, RunsOnOneCpu
<1>5. \A q \in Slot : state'[q] = "RUNNING" <=> \E d \in CPU : cproc'[d] = q
  <2> TAKE q \in Slot
  <2>1. q # NoProc
    BY DEF Slot, NoProc
  <2>2. CASE q = cproc[c]
    <3>1. \A d \in CPU : cproc[d] = q => d = c
      BY <2>1, <2>2 DEF Placed, RunsOnOneCpu
    <3> QED
      BY <1>2, <1>3, <2>1, <2>2, <3>1
  <2>3. CASE q # cproc[c]
    BY <1>2, <1>3, <2>1, <2>3 DEF Placed, RunsOnOneCpu
  <2> QED
    BY <2>2, <2>3
<1> QED
  BY <1>1, <1>4, <1>5 DEF Placed, RunsOnOneCpu

\* A process that does not run changes its state.
LEMMA StatePlaced ==
  ASSUME Placed, NEW p \in Slot, state[p] # "RUNNING", NEW x \in States \ {"RUNNING"},
         state' = [state EXCEPT ![p] = x], cproc' = cproc
  PROVE  Placed'
<1>1. state' \in [Slot -> States]
  BY DEF Placed
<1>2. \A q \in Slot : state'[q] = "RUNNING" <=> state[q] = "RUNNING"
  BY Zenon DEF Placed
<1> QED
  BY <1>1, <1>2 DEF Placed, RunsOnOneCpu

-----------------------------------------------------------------------------
(* All steps.                                                              *)

\* The passes that only look leave the table alone.
Looks(c) ==
  \/ MaxDone(c) \/ Collect(c) \/ CollectDone(c) \/ LeastPass(c) \/ LeastDone(c) \/ CountTied(c)
  \/ CountTiedDone(c) \/ Arr2(c) \/ Arr2Done(c) \/ WildRead(c) \/ First(c) \/ FirstDone(c) \/ RoundDone(c)

\* The passes of scheduler() that only look at processes change none.
LEMMA LooksQuiet ==
  ASSUME NEW c \in CPU, Looks(c)
  PROVE  Quiet
BY DEF Looks, MaxDone, Collect, CollectDone, LeastPass, LeastDone, CountTied, CountTiedDone, Arr2,
       Arr2Done, WildRead, First, FirstDone, RoundDone

\* What a switch to p does to the table: a runnable p, or nothing.
LEMMA SwitchPlaced ==
  ASSUME NPROC \in Nat, SchedInv, NEW c \in CPU, Idle(c), Dispatch(c) \/ Fallback(c) \/ RoundRobin(c)
  PROVE  Placed'
<1>0. Placed /\ s[c] \in Locals /\ ChoiceOf(s[c])
  BY DEF SchedInv, SchedType, ChoiceInv, Placed
<1>1. ASSUME NEW p \in Slot, NEW r, Runnable(p), Run(c, p, r)
      PROVE  Placed'
  BY <1>0, <1>1, RunPlaced, ZenonT(40) DEF Run
<1>2. ASSUME Quiet
      PROVE  Placed'
  BY <1>0, <1>2 DEF Quiet, Placed, RunsOnOneCpu
<1>3. CASE Dispatch(c)
  <2>1. s[c].sel \in Slot
    BY <1>0, <1>3 DEF Dispatch, At, ChoiceOf
  <2> QED
    BY <1>1, <1>2, <1>3, <2>1, Zenon DEF Dispatch, RunPbs
<1>4. CASE Fallback(c) \/ RoundRobin(c)
  <2>a. s[c].i \in Nat \ {0}
    BY <1>0, Fields
  <2>b. s[c].i <= NPROC
    BY <1>4 DEF Fallback, RoundRobin
  <2>0. s[c].i \in Nat \ {0} /\ s[c].i <= NPROC
    BY <2>a, <2>b
  <2>1. s[c].i \in Slot
    BY <2>0 DEF Slot
  <2> QED
    BY <1>1, <1>2, <1>4, <2>1, Zenon DEF Fallback, RoundRobin, RunPbs
<1> QED
  BY <1>3, <1>4

\* One step of scheduler() on one CPU.
LEMMA ChooseStep ==
  ASSUME NPROC \in Nat, SchedInv, NEW c \in CPU, Choose(c)
  PROVE  SchedInv'
<1>0. SchedType /\ ChoiceInv /\ Placed /\ AttrType /\ s[c] \in Locals
  BY DEF SchedInv, SchedType, Placed
<1>1. s' \in [CPU -> Locals] /\ ChoiceInv'
  BY <1>0, CollectChoice, LeastChoice, Arr2Choice, DispatchChoice DEF Choose
<1>2. CASE Looks(c)
  <2>1. AttrType' /\ Placed'
    BY <1>0, <1>2, LooksQuiet DEF Quiet, attr, times, AttrType, Placed, RunsOnOneCpu
  <2> QED
    BY <1>1, <2>1 DEF SchedInv, SchedType, Placed
<1>3. CASE MaxPass(c)
  <2>a. s[c].i \in Nat \ {0}
    BY <1>0, Fields
  <2>b. s[c].i <= NPROC
    BY <1>3 DEF MaxPass
  <2>1. s[c].i \in Nat \ {0} /\ s[c].i <= NPROC
    BY <2>a, <2>b
  <2>2. s[c].i \in Slot
    BY <2>1 DEF Slot
  <2>c. runtime[s[c].i] \in Nat /\ stime[s[c].i] \in Nat /\ wtime[s[c].i] \in Nat
    BY <1>0, <2>2 DEF AttrType
  <2>3. Rbi(runtime[s[c].i], stime[s[c].i], wtime[s[c].i]) \in Int
    BY <2>c, RbiType
  <2>d. sp[s[c].i] \in Int
    BY <1>0, <2>2 DEF AttrType
  <2>4. Least(sp[s[c].i] + Rbi(runtime[s[c].i], stime[s[c].i], wtime[s[c].i]), 100) \in Int
    BY <2>3, <2>d DEF Least
  <2>5. dp' \in [Slot -> Int]
    BY <1>0, <1>3, <2>2, <2>4 DEF MaxPass, AttrType
  <2>6. AttrType' /\ Placed'
    BY <1>0, <1>3, <2>5 DEF MaxPass, times, AttrType, Placed, RunsOnOneCpu
  <2> QED
    BY <1>1, <2>6 DEF SchedInv, SchedType, Placed
<1>4. CASE Dispatch(c) \/ Fallback(c) \/ RoundRobin(c)
  <2>1. Placed'
    BY <1>4, SwitchPlaced DEF Choose
  <2>2. AttrType'
    <3>1. CASE Quiet
      BY <1>0, <3>1 DEF Quiet, attr, times, AttrType
    <3>2. ASSUME NEW p, NEW r, RunPbs(c, p, r)
          PROVE  AttrType'
      <4>0. \A q \in Slot : no_scheduled'[q] \in Nat
        <5> TAKE q \in Slot
        <5>1. no_scheduled[q] \in Nat
          BY <1>0 DEF AttrType
        <5>2. no_scheduled'[q] = IF q = p THEN no_scheduled[p] + 1 ELSE no_scheduled[q]
          BY <1>0, <3>2 DEF RunPbs, AttrType
        <5> QED
          BY <5>1, <5>2
      <4>1. no_scheduled' \in [Slot -> Nat]
        BY <1>0, <3>2, <4>0, ZenonT(40) DEF RunPbs, AttrType
      <4>2. stime' \in [Slot -> Nat] /\ runtime' \in [Slot -> Nat]
        BY <1>0, <3>2, ZenonT(40) DEF RunPbs, AttrType
      <4> QED
        BY <1>0, <3>2, <4>1, <4>2 DEF RunPbs, attr, AttrType
    <3>3. CASE UNCHANGED <<attr, times, no_scheduled, ticks>>
      BY <1>0, <3>3 DEF attr, times, AttrType
    <3> QED
      BY <1>4, <3>1, <3>2, <3>3 DEF Dispatch, Fallback, RoundRobin
  <2> QED
    BY <1>1, <2>1, <2>2 DEF SchedInv, SchedType, Placed
<1> QED
  BY <1>2, <1>3, <1>4 DEF Choose, Looks

\* One step of a process or an interrupt: s stays as it is.
LEMMA ProcessStep ==
  ASSUME NPROC \in Nat, Prio \subseteq Int, SchedInv, Next, ~\E c \in CPU : Choose(c)
  PROVE  SchedInv'
<1>0. SchedType /\ ChoiceInv /\ Placed /\ AttrType
  BY DEF SchedInv, SchedType, Placed
<1>s. ASSUME s' = s, Placed', AttrType'
      PROVE  SchedInv'
  BY <1>0, <1>s DEF SchedInv, SchedType, ChoiceInv, Placed
<1>x. {"UNUSED", "RUNNABLE", "SLEEPING", "ZOMBIE"} \subseteq States \ {"RUNNING"}
  BY DEF States
<1>1. ASSUME NEW c \in CPU, Yield(c) \/ Sleep(c) \/ Exit(c) \/ SetPriorityUnknown(c)
      PROVE  SchedInv'
  <2>1. Placed'
    BY <1>0, <1>1, <1>x, LeavePlaced DEF Yield, Sleep, Exit, SetPriorityUnknown
  <2>a. UNCHANGED <<attr, times, no_scheduled, ticks, s>>
    BY <1>1 DEF Yield, Sleep, Exit, SetPriorityUnknown
  <2>2. AttrType' /\ s' = s
    BY <1>0, <2>a DEF attr, times, AttrType
  <2> QED
    BY <1>s, <2>1, <2>2
<1>2. ASSUME NEW c \in CPU, NEW p \in Slot, Fork(c, p)
      PROVE  SchedInv'
  <2>1. Placed'
    BY <1>0, <1>2, <1>x, StatePlaced, ZenonT(40) DEF Fork
  <2>2. AttrType' /\ s' = s
    BY <1>0, <1>2 DEF Fork, Defaults, AttrType
  <2> QED
    BY <1>s, <2>1, <2>2
<1>3. ASSUME NEW c \in CPU, NEW p \in Slot, NEW n \in Prio, SetPriority(c, p, n)
      PROVE  SchedInv'
  <2>1. Leave(c, "RUNNABLE") \/ UNCHANGED <<state, cproc>>
    BY <1>3 DEF SetPriority
  <2>a. ASSUME Leave(c, "RUNNABLE") PROVE Placed'
    BY <1>0, <1>x, <2>a, LeavePlaced
  <2>b. ASSUME UNCHANGED <<state, cproc>> PROVE Placed'
    BY <1>0, <2>b DEF Placed, RunsOnOneCpu
  <2>2. Placed'
    BY <2>1, <2>a, <2>b
  <2>3. AttrType' /\ s' = s
    BY <1>0, <1>3 DEF SetPriority, times, AttrType
  <2> QED
    BY <1>s, <2>2, <2>3
<1>4. ASSUME NEW p \in Slot, Wakeup(p)
      PROVE  SchedInv'
  <2>1. Placed'
    BY <1>0, <1>4, <1>x, StatePlaced, ZenonT(40) DEF Wakeup
  <2>2. AttrType' /\ s' = s
    BY <1>0, <1>4 DEF Wakeup, attr, times, AttrType
  <2> QED
    BY <1>s, <2>1, <2>2
<1>5. ASSUME NEW c \in CPU, NEW p \in Slot, Reap(c, p)
      PROVE  SchedInv'
  <2>1. Placed'
    BY <1>0, <1>5, <1>x, StatePlaced, ZenonT(40) DEF Reap
  <2>2. AttrType' /\ s' = s
    BY <1>0, <1>5 DEF Reap, Defaults, AttrType
  <2> QED
    BY <1>s, <2>1, <2>2
<1>6. CASE Clock
  <2>1. AttrType' /\ s' = s
    BY <1>0, <1>6 DEF Clock, attr, AttrType
  <2>2. Placed'
    BY <1>0, <1>6 DEF Clock, Placed, RunsOnOneCpu
  <2> QED
    BY <1>s, <2>1, <2>2
<1> QED
  BY <1>1, <1>2, <1>3, <1>4, <1>5, <1>6 DEF Next

\* The kernel starts with no process on a CPU.
LEMMA InitSched ==
  ASSUME NPROC \in Nat, Init
  PROVE  SchedInv
<1>1. AttrType /\ state \in [Slot -> States] /\ cproc \in [CPU -> Slot \cup {NoProc}]
  BY DEF Init, AttrType, States
<1>2. s \in [CPU -> Locals] /\ ChoiceInv
  BY TopChoice DEF Init, ChoiceInv
<1>3. RunsOnOneCpu
  BY DEF Init, RunsOnOneCpu, Slot, NoProc
<1> QED
  BY <1>1, <1>2, <1>3 DEF SchedInv, SchedType

\* However many CPUs run scheduler() (proc.c) at once, with either policy, and however
\* stale the choice one of them makes, no process runs on two of them, and a process is
\* RUNNING exactly when some CPU has it as c->proc.
THEOREM OneCpuPerProcess ==
  ASSUME NPROC \in Nat, Prio \subseteq Int
  PROVE  Spec => []RunsOnOneCpu
<1>1. Init => SchedInv
  BY InitSched
<1>2. SchedInv /\ [Next]_vars => SchedInv'
  <2> SUFFICES ASSUME SchedInv, [Next]_vars
               PROVE  SchedInv'
    OBVIOUS
  <2>1. CASE \E c \in CPU : Choose(c)
    BY <2>1, ChooseStep
  <2>2. CASE Next /\ ~\E c \in CPU : Choose(c)
    BY <2>2, ProcessStep
  <2>3. CASE UNCHANGED vars
    BY <2>3 DEF vars, SchedInv, SchedType, AttrType, ChoiceInv, RunsOnOneCpu
  <2> QED
    BY <2>1, <2>2, <2>3
<1>3. SchedInv => RunsOnOneCpu
  BY DEF SchedInv
<1> QED
  BY <1>1, <1>2, <1>3, PTL DEF Spec
=============================================================================
