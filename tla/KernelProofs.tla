---------------------------- MODULE KernelProofs ----------------------------
(***************************************************************************)
(* Proofs about the two layers that every other part of the kernel stands  *)
(* on.  They share no state.                                               *)
(*                                                                         *)
(* The page allocator (Kalloc, of kernel/kalloc.c), for any number of      *)
(* pages and CPUs: the invariant is IInv.                                  *)
(*                                                                         *)
(* Spin locks (Spinlock, of kernel/spinlock.c), for any harts and any      *)
(* finite set of locks: mutual exclusion, and that interrupts are off      *)
(* while a lock is held.  Neither is inductive.  What is, SpinInv: noff is *)
(* the number of locks the hart holds, and one for the acquire or release  *)
(* it is in; cpu names the hart that holds the lock; and between the swap  *)
(* and the store of cpu, or the clearing of cpu and that of locked, the    *)
(* lock is owned although no one holds it.                                 *)
(***************************************************************************)
EXTENDS Kalloc, Spinlock, TLAPS

-----------------------------------------------------------------------------
(* The page allocator                                                      *)

\* Pages freerange() has not reached are untouched: count 0, not linked, not held.
UnsweptUntouched ==
  \A f \in Frame : f >= boot =>
    /\ reference_count[f] = 0 /\ refs[f] = 0
    /\ ~OnList(f) /\ ~BeingPushed(f)

\* The inductive invariant: the three safety properties support each other, and
\* during boot they rest on the pages still to be swept being untouched.
IInv ==
  /\ TypeOK
  /\ RefCoversHeld
  /\ FreeIffUnreferenced
  /\ NoDoubleFree
  /\ UnsweptUntouched

\* Linking page f at the head of the list (kfree, r->next = kmem.freelist) adds f
\* and shifts the others by one.
LEMMA PushFront ==
  ASSUME NEW f \in Frame, NEW s \in Seq(Frame)
  PROVE  /\ <<f>> \o s \in Seq(Frame)
         /\ Len(<<f>> \o s) = Len(s) + 1
         /\ (<<f>> \o s)[1] = f
         /\ \A i \in 1..Len(s) : (<<f>> \o s)[i + 1] = s[i]
         /\ \A i \in 1..(Len(s) + 1) : i = 1 \/ (<<f>> \o s)[i] = s[i - 1]
  OBVIOUS

\* After a push the list holds f and what it held before.
LEMMA PushMembers ==
  ASSUME NEW f \in Frame, NEW s \in Seq(Frame), NEW g
  PROVE  (\E i \in 1..Len(<<f>> \o s) : (<<f>> \o s)[i] = g)
           <=> (g = f \/ \E i \in 1..Len(s) : s[i] = g)
<1> DEFINE t == <<f>> \o s
<1>1. /\ Len(t) = Len(s) + 1 /\ Len(s) \in Nat /\ t[1] = f
      /\ \A i \in 1..Len(s) : t[i + 1] = s[i]
      /\ \A i \in 1..(Len(s) + 1) : i = 1 \/ t[i] = s[i - 1]
  BY PushFront
<1> HIDE DEF t
<1>2. ASSUME NEW i \in 1..Len(t), t[i] = g PROVE g = f \/ \E j \in 1..Len(s) : s[j] = g
  <2>1. CASE i = 1
    BY <1>1, <1>2, <2>1
  <2>2. CASE i # 1
    <3>1. i - 1 \in 1..Len(s) /\ s[i - 1] = g
      BY <1>1, <1>2, <2>2
    <3> QED BY <3>1
  <2> QED BY <2>1, <2>2
<1>3. ASSUME g = f PROVE \E i \in 1..Len(t) : t[i] = g
  <2>1. 1 \in 1..Len(t)
    BY <1>1
  <2> QED BY <1>1, <1>3, <2>1
<1>4. ASSUME NEW j \in 1..Len(s), s[j] = g PROVE \E i \in 1..Len(t) : t[i] = g
  <2>1. j + 1 \in 1..Len(t) /\ t[j + 1] = g
    BY <1>1, <1>4
  <2> QED BY <2>1
<1> QED
  BY <1>2, <1>3, <1>4 DEF t

\* So freerange() and kfree() add the page they link, and no other, to the list.
LEMMA PushOnList ==
  ASSUME freelist \in Seq(Frame), NEW x \in Frame, freelist' = <<x>> \o freelist
  PROVE  \A g \in Frame : OnList(g)' <=> g = x \/ OnList(g)
<1> TAKE g \in Frame
<1>1. PICK t : t = <<x>> \o freelist
  OBVIOUS
<1>2. (\E i \in 1..Len(t) : t[i] = g) <=> (g = x \/ \E i \in 1..Len(freelist) : freelist[i] = g)
  BY <1>1, PushMembers
<1>3. freelist' = t
  BY <1>1
<1> QED
  BY ONLY <1>2, <1>3, Zenon DEF OnList

\* Pushing a page that is not on the list keeps its entries distinct.
LEMMA PushDistinct ==
  ASSUME NEW f \in Frame, NEW s \in Seq(Frame),
         \A i \in 1..Len(s) : s[i] # f,
         \A i, j \in 1..Len(s) : s[i] = s[j] => i = j
  PROVE  \A i, j \in 1..Len(<<f>> \o s) : (<<f>> \o s)[i] = (<<f>> \o s)[j] => i = j
<1> DEFINE t == <<f>> \o s
<1>1. /\ Len(t) = Len(s) + 1 /\ Len(s) \in Nat /\ t[1] = f
      /\ \A i \in 1..(Len(s) + 1) : i = 1 \/ t[i] = s[i - 1]
  BY PushFront
<1> HIDE DEF t
<1>2. ASSUME NEW i \in 1..Len(t), NEW j \in 1..Len(t), t[i] = t[j] PROVE i = j
  <2>1. CASE i = 1 /\ j = 1
    BY <2>1
  <2>2. CASE i = 1 /\ j # 1
    <3>1. j - 1 \in 1..Len(s) /\ s[j - 1] = f
      BY <1>1, <1>2, <2>2
    <3> QED BY <3>1
  <2>3. CASE i # 1 /\ j = 1
    <3>1. i - 1 \in 1..Len(s) /\ s[i - 1] = f
      BY <1>1, <1>2, <2>3
    <3> QED BY <3>1
  <2>4. CASE i # 1 /\ j # 1
    <3>1. /\ i - 1 \in 1..Len(s) /\ j - 1 \in 1..Len(s)
          /\ s[i - 1] = s[j - 1]
      BY <1>1, <1>2, <2>4
    <3>2. i - 1 = j - 1
      BY <3>1
    <3> QED BY <3>2
  <2> QED BY <2>1, <2>2, <2>3, <2>4
<1> QED
  BY <1>2 DEF t

\* Unlinking the head of the list (kalloc, kmem.freelist = r->next) keeps the rest.
LEMMA PopFront ==
  ASSUME NEW s \in Seq(Frame), s # <<>>
  PROVE  /\ Head(s) \in Frame /\ Head(s) = s[1]
         /\ Tail(s) \in Seq(Frame)
         /\ Len(s) \in Nat /\ Len(s) >= 1
         /\ Len(Tail(s)) = Len(s) - 1
         /\ \A i \in 1..(Len(s) - 1) : Tail(s)[i] = s[i + 1]
  OBVIOUS

\* Initially nothing is linked, counted or held.
LEMMA InitIInv == Init => IInv
  BY KallocAssumption DEF Init, IInv, TypeOK, RefCoversHeld, FreeIffUnreferenced,
     NoDoubleFree, UnsweptUntouched, OnList, BeingPushed, Frame, NoFrame

\* freerange() links the next page once.
LEMMA FreerangeIInv == IInv /\ Freerange => IInv'
<1> SUFFICES ASSUME IInv, Freerange PROVE IInv'
  OBVIOUS
<1> USE DEF IInv, TypeOK, Frame, NoFrame
<1>1. boot \in Frame /\ boot \in Nat /\ NFrames \in Nat
  BY KallocAssumption DEF Freerange, Booted
<1>2. /\ freelist' = <<boot>> \o freelist
      /\ reference_count' = [reference_count EXCEPT ![boot] = @ - 1]
      /\ boot' = boot + 1 /\ pushing' = pushing /\ refs' = refs
  BY DEF Freerange
<1>3. \A f \in Frame : OnList(f)' <=> f = boot \/ OnList(f)
  <2>1. freelist \in Seq(Frame)
    OBVIOUS
  <2> QED
    BY ONLY <1>1, <1>2, <2>1, PushOnList, ZenonT(40)
<1>4. \A f \in Frame : BeingPushed(f)' <=> BeingPushed(f)
  BY <1>2 DEF BeingPushed
<1>5. TypeOK'
  BY <1>1, <1>2, PushFront
<1>6. RefCoversHeld'
  BY <1>1, <1>2 DEF RefCoversHeld, UnsweptUntouched
<1>7. FreeIffUnreferenced'
  BY <1>1, <1>2, <1>3, <1>4 DEF FreeIffUnreferenced, UnsweptUntouched
<1>8. UnsweptUntouched'
  BY <1>1, <1>2, <1>3, <1>4 DEF UnsweptUntouched
<1>9. NoDoubleFree'
  <2>1. ~OnList(boot) /\ ~BeingPushed(boot)
    BY <1>1 DEF UnsweptUntouched
  <2>2. \A i, j \in 1..Len(freelist') : freelist'[i] = freelist'[j] => i = j
    BY <1>1, <1>2, <2>1, PushDistinct, ZenonT(40) DEF NoDoubleFree, OnList
  <2>3. \A c \in CPU : pushing'[c] # NoFrame => ~OnList(pushing[c])'
    BY <1>2, <1>3, <2>1 DEF NoDoubleFree, BeingPushed
  <2>4. QED
    BY <1>2, <2>2, <2>3 DEF NoDoubleFree
<1> QED
  BY <1>5, <1>6, <1>7, <1>8, <1>9

\* kalloc() takes an unreferenced page off the list and counts its only reference.
LEMMA KallocPopIInv ==
  ASSUME NEW c \in CPU PROVE IInv /\ KallocPop(c) => IInv'
<1> SUFFICES ASSUME IInv, KallocPop(c) PROVE IInv'
  OBVIOUS
<1> USE DEF IInv, TypeOK, Frame, NoFrame
<1> DEFINE r == Head(freelist)
<1>1. /\ freelist # <<>> /\ freelist' = Tail(freelist)
      /\ reference_count' = [reference_count EXCEPT ![r] = 1]
      /\ refs' = [refs EXCEPT ![r] = 1]
      /\ boot' = boot /\ pushing' = pushing
      /\ boot = NFrames + 1
  BY DEF KallocPop, Booted
<1>2. /\ r \in Frame /\ OnList(r) /\ r < boot
  <2>1. r \in Frame /\ r = freelist[1] /\ 1 \in 1..Len(freelist)
    BY <1>1, PopFront
  <2>2. OnList(r)
    BY <2>1 DEF OnList
  <2>3. \A n \in Frame : n < NFrames + 1
    BY KallocAssumption
  <2>4. r < boot
    <3> HIDE DEF r, IInv, Frame
    <3> QED BY <1>1, <2>1, <2>3
  <2>5. QED
    BY <2>1, <2>2, <2>4
<1>3. \A f \in Frame : OnList(f)' <=> f # r /\ OnList(f)
  <2>1. ASSUME NEW f \in Frame, OnList(f)' PROVE f # r /\ OnList(f)
    <3>1. PICK i \in 1..(Len(freelist) - 1) : freelist[i + 1] = f
      BY <1>1, <2>1, PopFront DEF OnList
    <3>2. i + 1 \in 1..Len(freelist) /\ i + 1 # 1 /\ 1 \in 1..Len(freelist)
      BY <1>1, PopFront
    <3>3. QED
      BY <1>1, <3>1, <3>2, PopFront DEF OnList, NoDoubleFree
  <2>2. ASSUME NEW f \in Frame, f # r, OnList(f) PROVE OnList(f)'
    <3>1. PICK i \in 1..Len(freelist) : freelist[i] = f
      BY <2>2 DEF OnList
    <3>2. i # 1 /\ i - 1 \in 1..(Len(freelist) - 1) /\ (i - 1) + 1 = i
      BY <1>1, <2>2, <3>1, PopFront
    <3>3. i - 1 \in 1..Len(Tail(freelist)) /\ Tail(freelist)[i - 1] = f
      BY <1>1, <3>1, <3>2, PopFront
    <3>4. QED
      BY <1>1, <3>3, ZenonT(40) DEF OnList
  <2>3. QED
    BY <2>1, <2>2
<1>4. \A f \in Frame : BeingPushed(f)' <=> BeingPushed(f)
  BY <1>1 DEF BeingPushed
<1>5. ~BeingPushed(r)
  BY <1>2 DEF BeingPushed, NoDoubleFree
<1>6. TypeOK'
  BY <1>1, <1>2, PopFront
<1>7. RefCoversHeld'
  BY <1>1, <1>2 DEF RefCoversHeld
<1>8. FreeIffUnreferenced'
  BY <1>1, <1>2, <1>3, <1>4, <1>5 DEF FreeIffUnreferenced
<1>9. UnsweptUntouched'
  BY <1>1, KallocAssumption DEF UnsweptUntouched
<1>10. NoDoubleFree'
  <2>1. \A i, j \in 1..Len(freelist') : freelist'[i] = freelist'[j] => i = j
    <3>1. ASSUME NEW i \in 1..(Len(freelist) - 1), NEW j \in 1..(Len(freelist) - 1),
                 freelist[i + 1] = freelist[j + 1]
          PROVE  i = j
      <4>1. i + 1 \in 1..Len(freelist) /\ j + 1 \in 1..Len(freelist)
        BY <1>1, PopFront
      <4>2. i + 1 = j + 1
        BY <3>1, <4>1 DEF NoDoubleFree
      <4>3. QED
        BY <4>2
    <3>2. QED
      BY <1>1, <3>1, PopFront
  <2>2. \A d \in CPU : pushing'[d] # NoFrame => ~OnList(pushing[d])'
    BY <1>1, <1>3 DEF NoDoubleFree
  <2>3. QED
    BY <1>1, <2>1, <2>2 DEF NoDoubleFree
<1> QED
  BY <1>6, <1>7, <1>8, <1>9, <1>10

\* uvmcopy() counts one more reference to a page that is already referenced.
LEMMA IncRefIInv ==
  ASSUME NEW f \in Frame PROVE IInv /\ IncRef(f) => IInv'
<1> SUFFICES ASSUME IInv, IncRef(f) PROVE IInv'
  OBVIOUS
<1> USE DEF IInv, TypeOK, Frame, NoFrame
<1>1. \A g \in Frame : (OnList(g)' <=> OnList(g)) /\ (BeingPushed(g)' <=> BeingPushed(g))
  BY DEF IncRef, OnList, BeingPushed
<1>2. NoDoubleFree'
  BY DEF IncRef, NoDoubleFree, OnList
<1>3. TypeOK'
  BY DEF IncRef
<1>4. RefCoversHeld'
  BY DEF IncRef, RefCoversHeld
<1>5. FreeIffUnreferenced'
  BY <1>1 DEF IncRef, FreeIffUnreferenced, RefCoversHeld
<1>6. UnsweptUntouched'
  BY <1>1 DEF IncRef, UnsweptUntouched
<1> QED
  BY <1>2, <1>3, <1>4, <1>5, <1>6

\* kfree()'s first half: only the CPU that drops the last reference goes on to
\* link the page.
LEMMA KfreeDecIInv ==
  ASSUME NEW c \in CPU, NEW f \in Frame PROVE IInv /\ KfreeDec(c, f) => IInv'
<1> SUFFICES ASSUME IInv, KfreeDec(c, f) PROVE IInv'
  OBVIOUS
<1> USE DEF IInv, TypeOK, Frame, NoFrame
<1>1. /\ pushing[c] = NoFrame /\ refs[f] > 0
      /\ reference_count' = [reference_count EXCEPT ![f] = @ - 1]
      /\ refs' = [refs EXCEPT ![f] = @ - 1]
      /\ freelist' = freelist /\ boot' = boot
      /\ pushing' = IF reference_count[f] - 1 > 0 THEN pushing
                                                ELSE [pushing EXCEPT ![c] = f]
  BY DEF KfreeDec
<1>2. /\ f < boot /\ reference_count[f] >= refs[f] /\ reference_count[f] > 0
      /\ ~OnList(f) /\ ~BeingPushed(f)
  BY <1>1 DEF RefCoversHeld, UnsweptUntouched, FreeIffUnreferenced
<1>3. \A g \in Frame : OnList(g)' <=> OnList(g)
  BY <1>1 DEF OnList
<1>4. TypeOK' /\ RefCoversHeld'
  <2>1. TypeOK'
    BY <1>1, <1>2
  <2>2. RefCoversHeld'
    BY <1>1, <1>2 DEF RefCoversHeld
  <2>3. QED
    BY <2>1, <2>2
<1>5. CASE reference_count[f] - 1 > 0
  <2>1. \A g \in Frame : BeingPushed(g)' <=> BeingPushed(g)
    BY <1>1, <1>5 DEF BeingPushed
  <2>2. FreeIffUnreferenced' /\ UnsweptUntouched'
    BY <1>1, <1>2, <1>3, <1>5, <2>1 DEF FreeIffUnreferenced, UnsweptUntouched
  <2>3. NoDoubleFree'
    BY <1>1, <1>5 DEF NoDoubleFree, OnList
  <2>4. QED
    BY <1>4, <2>2, <2>3
<1>6. CASE ~(reference_count[f] - 1 > 0)
  <2>1. pushing' = [pushing EXCEPT ![c] = f]
    BY <1>1, <1>6
  <2>2. \A g \in Frame : BeingPushed(g)' <=> g = f \/ BeingPushed(g)
    BY <1>1, <2>1 DEF BeingPushed
  <2>3. FreeIffUnreferenced' /\ UnsweptUntouched'
    <3>1. FreeIffUnreferenced'
      BY <1>1, <1>2, <1>3, <1>6, <2>2, SMTT(30) DEF FreeIffUnreferenced
    <3>2. UnsweptUntouched'
      BY <1>1, <1>2, <1>3, <2>2, SMTT(30) DEF UnsweptUntouched
    <3> QED
      BY <3>1, <3>2
  <2>4. NoDoubleFree'
    BY <1>1, <1>2, <1>3, <2>1 DEF NoDoubleFree, BeingPushed
  <2>5. QED
    BY <1>4, <2>3, <2>4
<1> QED
  BY <1>5, <1>6

\* kfree()'s second half: the page it links is not on the list yet.
LEMMA KfreePushIInv ==
  ASSUME NEW c \in CPU PROVE IInv /\ KfreePush(c) => IInv'
<1> SUFFICES ASSUME IInv, KfreePush(c) PROVE IInv'
  OBVIOUS
<1> USE DEF IInv, TypeOK, Frame, NoFrame
<1> DEFINE f == pushing[c]
<1>1. /\ f \in Frame /\ BeingPushed(f)
      /\ freelist' = <<f>> \o freelist
      /\ pushing' = [pushing EXCEPT ![c] = NoFrame]
      /\ reference_count' = reference_count /\ boot' = boot /\ refs' = refs
  BY DEF KfreePush, BeingPushed
<1>2. ~OnList(f)
  BY <1>1 DEF NoDoubleFree
<1>3. \A g \in Frame : OnList(g)' <=> g = f \/ OnList(g)
  <2>1. freelist \in Seq(Frame)
    OBVIOUS
  <2> QED
    BY ONLY <1>1, <2>1, PushOnList
<1>4. \A g \in Frame : BeingPushed(g)' <=> g # f /\ BeingPushed(g)
  BY <1>1 DEF BeingPushed, NoDoubleFree
<1>5. TypeOK'
  BY <1>1, PushFront
<1>6. RefCoversHeld'
  BY <1>1 DEF RefCoversHeld
<1>7. FreeIffUnreferenced' /\ UnsweptUntouched'
  BY <1>1, <1>3, <1>4 DEF FreeIffUnreferenced, UnsweptUntouched
<1>8. NoDoubleFree'
  <2>1. \A i, j \in 1..Len(freelist') : freelist'[i] = freelist'[j] => i = j
    BY <1>1, <1>2, PushDistinct, ZenonT(40) DEF NoDoubleFree, OnList
  <2>2. \A d \in CPU : pushing'[d] # NoFrame => ~OnList(pushing[d])'
    BY <1>1, <1>3 DEF NoDoubleFree
  <2>3. QED
    BY <1>1, <2>1, <2>2 DEF NoDoubleFree
<1> QED
  BY <1>5, <1>6, <1>7, <1>8

\* A reference uvmcopy() loses lowers only the number of references held.
LEMMA ForgetIInv ==
  ASSUME NEW f \in Frame PROVE IInv /\ Forget(f) => IInv'
<1> SUFFICES ASSUME IInv, Forget(f) PROVE IInv'
  OBVIOUS
<1> USE DEF IInv, TypeOK, Frame, NoFrame
<1>1. \A g \in Frame : (OnList(g)' <=> OnList(g)) /\ (BeingPushed(g)' <=> BeingPushed(g))
  BY DEF Forget, OnList, BeingPushed
<1>2. NoDoubleFree'
  BY DEF Forget, NoDoubleFree, OnList
<1>3. TypeOK'
  BY DEF Forget
<1>4. RefCoversHeld'
  BY DEF Forget, RefCoversHeld
<1>5. FreeIffUnreferenced'
  BY <1>1 DEF Forget, FreeIffUnreferenced, RefCoversHeld
<1>6. UnsweptUntouched'
  BY <1>1 DEF Forget, UnsweptUntouched
<1> QED
  BY <1>2, <1>3, <1>4, <1>5, <1>6

\* Every step of the allocator preserves the inductive invariant.
LEMMA NextIInv == IInv /\ [Next]_vars => IInv'
<1>1. IInv /\ UNCHANGED vars => IInv'
  BY DEF vars, IInv, TypeOK, RefCoversHeld, FreeIffUnreferenced, NoDoubleFree,
     UnsweptUntouched, OnList, BeingPushed
<1>2. ASSUME NEW c \in CPU PROVE IInv /\ KallocFail(c) => IInv'
  BY <1>1 DEF KallocFail
<1> QED
  BY <1>1, <1>2, FreerangeIInv, KallocPopIInv, IncRefIInv, KfreeDecIInv, KfreePushIInv,
     ForgetIInv DEF Next

\* The types of the allocator's state (kmem, reference_count, kfree's locals).
THEOREM TypeCorrect == Spec => []TypeOK
<1>1. IInv => TypeOK
  BY DEF IInv
<1> QED
  BY InitIInv, NextIInv, <1>1, PTL DEF Spec

\* The reference count of a page covers its references: kfree() never releases a
\* page that a page table or a handler still refers to.
THEOREM RefCounting == Spec => []RefCoversHeld
<1>1. IInv => RefCoversHeld
  BY DEF IInv
<1> QED
  BY InitIInv, NextIInv, <1>1, PTL DEF Spec

\* A page is on the free list, or on its way there, exactly when its count is not
\* positive: kalloc() hands out only unreferenced pages and kfree() loses none.
THEOREM FreeExactlyUnreferenced == Spec => []FreeIffUnreferenced
<1>1. IInv => FreeIffUnreferenced
  BY DEF IInv
<1> QED
  BY InitIInv, NextIInv, <1>1, PTL DEF Spec

\* kfree() never links a page twice, however CPUs interleave its two halves.
THEOREM DoubleFreeFreedom == Spec => []NoDoubleFree
<1>1. IInv => NoDoubleFree
  BY DEF IInv
<1> QED
  BY InitIInv, NextIInv, <1>1, PTL DEF Spec

-----------------------------------------------------------------------------
(* Spin locks                                                              *)

INSTANCE FiniteSetTheorems

SpinType ==
  /\ locked \in [Lock -> BOOLEAN]
  /\ cpu \in [Lock -> Hart \cup {NoHart}]
  /\ noff \in [Hart -> Nat]
  /\ intena \in [Hart -> BOOLEAN]
  /\ ie \in [Hart -> BOOLEAN]
  /\ intrap \in [Hart -> BOOLEAN]
  /\ at \in [Hart -> Steps \cup {"out", "panic"}]
  /\ lk \in [Hart -> Lock \cup {NoLock}]
  /\ held \in [Hart -> SUBSET Lock]

\* Between the swap and the store of cpu, or of the release.
Transit(h, l) == at[h] \in {"mark", "unlock"} /\ lk[h] = l

Owns(h, l) == l \in held[h] \/ Transit(h, l)

\* One owner, and what the fields of the lock say of it.
OwnerInv ==
  \A h \in Hart : \A l \in Lock :
    /\ Owns(h, l) => locked[l] /\ \A g \in Hart : Owns(g, l) => g = h
    /\ Transit(h, l) => l \notin held[h]
    /\ cpu[l] = h <=> l \in held[h]

StepInv == \A h \in Hart : at[h] \in Steps => lk[h] \in Lock

\* push_off and pop_off are matched.
CountInv ==
  \A h \in Hart : at[h] # "panic" => noff[h] = Cardinality(held[h]) + (IF at[h] \in Steps THEN 1 ELSE 0)

SpinInv == SpinType /\ OwnerInv /\ StepInv /\ CountInv /\ InterruptSafe

-----------------------------------------------------------------------------
\* The locks of a hart are finitely many, and no lock is held when their number
\* is 0.
LEMMA HeldCount ==
  ASSUME SpinType, NEW h \in Hart
  PROVE  /\ IsFiniteSet(held[h])
         /\ Cardinality(held[h]) \in Nat
         /\ Cardinality(held[h]) = 0 => held[h] = {}
<1>1. IsFiniteSet(held[h])
  BY SpinlockAssumption, FS_Subset DEF SpinType
<1> QED
  BY <1>1, FS_CardinalityType, FS_EmptySet

\* A lock more: mark of acquire.
LEMMA CountMark ==
  ASSUME SpinType, NEW h \in Hart, NEW l \in Lock, l \notin held[h]
  PROVE  Cardinality(held[h] \cup {l}) = Cardinality(held[h]) + 1
BY HeldCount, FS_AddElement, ZenonT(40)

\* A lock less: the start of release.
LEMMA CountUnmark ==
  ASSUME SpinType, NEW h \in Hart, NEW l \in held[h]
  PROVE  Cardinality(held[h] \ {l}) = Cardinality(held[h]) - 1
BY HeldCount, FS_RemoveElement, ZenonT(40)

\* The kernel starts with all locks free and interrupts off.
LEMMA InitInv == SpinInit => SpinInv
<1> SUFFICES ASSUME SpinInit PROVE SpinInv
  OBVIOUS
<1>1. SpinType
  BY DEF SpinInit, SpinType
<1>2. OwnerInv /\ StepInv /\ InterruptSafe
  BY SpinlockAssumption DEF SpinInit, OwnerInv, StepInv, InterruptSafe, Owns, Transit, Steps
<1>3. CountInv
  BY FS_EmptySet DEF SpinInit, CountInv, Steps
<1> QED
  BY <1>1, <1>2, <1>3 DEF SpinInv

\* Every step keeps the types.
LEMMA TypeStep == SpinType /\ [SpinNext]_spin => SpinType'
<1> SUFFICES ASSUME SpinType, [SpinNext]_spin PROVE SpinType'
  OBVIOUS
<1> USE DEF SpinType
<1>1. ASSUME NEW h \in Hart, NEW l \in Lock, AcquireOff(h, l) PROVE SpinType'
  BY <1>1 DEF AcquireOff, PushOff, Goto, Steps
<1>2. ASSUME NEW h \in Hart, NEW l \in Lock, AcquireCheck(h, l) PROVE SpinType'
  BY <1>2 DEF AcquireCheck, Goto, Steps
<1>3. ASSUME NEW h \in Hart, NEW l \in Lock, AcquireSwap(h, l) PROVE SpinType'
  BY <1>3 DEF AcquireSwap, Goto, Steps
<1>4. ASSUME NEW h \in Hart, NEW l \in Lock, AcquireMark(h, l) PROVE SpinType'
  BY <1>4 DEF AcquireMark, Goto, Steps
<1>5. ASSUME NEW h \in Hart, NEW l \in Lock, ReleaseUnmark(h, l) PROVE SpinType'
  BY <1>5 DEF ReleaseUnmark, Goto, Steps
<1>6. ASSUME NEW h \in Hart, NEW l \in Lock, ReleaseUnlock(h, l) PROVE SpinType'
  BY <1>6 DEF ReleaseUnlock, Goto, Steps
<1>7. ASSUME NEW h \in Hart, NEW l \in Lock, ReleasePop(h, l) PROVE SpinType'
  <2>1. noff' \in [Hart -> Nat]
    BY <1>7 DEF ReleasePop, PopOff
  <2>2. ie' \in [Hart -> BOOLEAN]
    BY <1>7, ZenonT(40) DEF ReleasePop, PopOff
  <2> QED
    BY <1>7, <2>1, <2>2 DEF ReleasePop, Goto, Steps
<1>8. ASSUME NEW h \in Hart, Trap(h) \/ TrapReturn(h) \/ IntrOn(h) \/ Swtch(h) PROVE SpinType'
  BY <1>8, ZenonT(40) DEF Trap, TrapReturn, IntrOn, Swtch
<1>9. CASE UNCHANGED spin
  BY <1>9 DEF spin
<1> QED
  BY <1>1, <1>2, <1>3, <1>4, <1>5, <1>6, <1>7, <1>8, <1>9 DEF SpinNext

\* A hart in acquire or release is there with a lock.
LEMMA StepStep == SpinInv /\ SpinType' /\ [SpinNext]_spin => StepInv'
<1> SUFFICES ASSUME SpinType, StepInv, [SpinNext]_spin PROVE StepInv'
  BY DEF SpinInv
<1> USE DEF StepInv, SpinType, Steps
<1>1. ASSUME NEW h \in Hart, NEW l \in Lock, AcquireOff(h, l) \/ AcquireCheck(h, l) PROVE StepInv'
  BY <1>1 DEF AcquireOff, AcquireCheck, Goto
<1>2. ASSUME NEW h \in Hart, NEW l \in Lock, AcquireSwap(h, l) \/ AcquireMark(h, l) PROVE StepInv'
  BY <1>2 DEF AcquireSwap, AcquireMark, Goto
<1>3. ASSUME NEW h \in Hart, NEW l \in Lock, ReleaseUnmark(h, l) PROVE StepInv'
  BY <1>3 DEF ReleaseUnmark, Goto
<1>4. ASSUME NEW h \in Hart, NEW l \in Lock, ReleaseUnlock(h, l) \/ ReleasePop(h, l) PROVE StepInv'
  BY <1>4 DEF ReleaseUnlock, ReleasePop, Goto
<1>5. ASSUME NEW h \in Hart, Trap(h) \/ TrapReturn(h) \/ IntrOn(h) \/ Swtch(h) PROVE StepInv'
  BY <1>5 DEF Trap, TrapReturn, IntrOn, Swtch
<1>6. CASE UNCHANGED spin
  BY <1>6 DEF spin
<1> QED
  BY <1>1, <1>2, <1>3, <1>4, <1>5, <1>6 DEF SpinNext

\* Locks that a step does not touch keep their owner.
LEMMA OwnerFrame ==
  ASSUME SpinInv, UNCHANGED <<locked, cpu, held>>,
         \A h \in Hart, l \in Lock : Transit(h, l)' <=> Transit(h, l)
  PROVE  OwnerInv'
BY DEF SpinInv, OwnerInv, Owns

\* The steps of acquire and release hand the lock from the swap to the last store.
LEMMA OwnerStep == SpinInv /\ SpinType' /\ [SpinNext]_spin => OwnerInv'
<1> SUFFICES ASSUME SpinInv, SpinType', [SpinNext]_spin PROVE OwnerInv'
  OBVIOUS
<1> USE DEF SpinInv, SpinType
<1>1. ASSUME NEW h \in Hart, NEW l \in Lock, AcquireOff(h, l) PROVE OwnerInv'
  BY <1>1, OwnerFrame DEF AcquireOff, Goto, Transit
<1>2. ASSUME NEW h \in Hart, NEW l \in Lock, AcquireCheck(h, l) PROVE OwnerInv'
  BY <1>2, OwnerFrame DEF AcquireCheck, At, Goto, Transit
<1>3. ASSUME NEW h \in Hart, NEW l \in Lock, AcquireSwap(h, l) PROVE OwnerInv'
  <2>1. \A g \in Hart : ~Owns(g, l)
    BY <1>3 DEF AcquireSwap, OwnerInv
  <2>2. UNCHANGED <<cpu, held>> /\ \A m \in Lock : locked'[m] = (m = l \/ locked[m])
    BY <1>3, ZenonT(40) DEF AcquireSwap
  <2>3. \A g \in Hart, m \in Lock : Transit(g, m)' <=> (Transit(g, m) \/ (g = h /\ m = l))
    BY <1>3 DEF AcquireSwap, At, Goto, Transit
  <2> QED
    BY <2>1, <2>2, <2>3 DEF OwnerInv, Owns
<1>4. ASSUME NEW h \in Hart, NEW l \in Lock, AcquireMark(h, l) PROVE OwnerInv'
  <2>1. Transit(h, l) /\ l \notin held[h] /\ \A g \in Hart : g # h => ~Owns(g, l)
    BY <1>4 DEF AcquireMark, At, OwnerInv, Transit, Owns
  <2>2. /\ UNCHANGED locked
        /\ \A m \in Lock : cpu'[m] = IF m = l THEN h ELSE cpu[m]
        /\ \A g \in Hart, m \in Lock : m \in held'[g] <=> (m \in held[g] \/ (g = h /\ m = l))
        /\ \A g \in Hart, m \in Lock : Transit(g, m)' <=> (Transit(g, m) /\ g # h)
    BY <1>4 DEF AcquireMark, At, Goto, Transit
  <2> QED
    BY <2>1, <2>2 DEF OwnerInv, Owns, Transit
<1>5. ASSUME NEW h \in Hart, NEW l \in Lock, ReleaseUnmark(h, l) PROVE OwnerInv'
  <2>1. CASE ~Holding(h, l)
    BY <1>5, <2>1, OwnerFrame DEF ReleaseUnmark, Goto, Transit
  <2>2. CASE Holding(h, l)
    <3>1. l \in held[h] /\ \A g \in Hart : g # h => ~Owns(g, l)
      BY <2>2 DEF Holding, OwnerInv, Owns
    <3>2. /\ UNCHANGED locked
          /\ \A m \in Lock : cpu'[m] = IF m = l THEN NoHart ELSE cpu[m]
          /\ \A g \in Hart, m \in Lock : m \in held'[g] <=> (m \in held[g] /\ ~(g = h /\ m = l))
          /\ \A g \in Hart, m \in Lock : Transit(g, m)' <=> (Transit(g, m) \/ (g = h /\ m = l))
      BY <1>5, <2>2 DEF ReleaseUnmark, Goto, Transit
    <3> QED
      BY <3>1, <3>2, SpinlockAssumption DEF OwnerInv, Owns
  <2> QED
    BY <2>1, <2>2
<1>6. ASSUME NEW h \in Hart, NEW l \in Lock, ReleaseUnlock(h, l) PROVE OwnerInv'
  <2>1. Transit(h, l) /\ l \notin held[h] /\ \A g \in Hart : g # h => ~Owns(g, l)
    BY <1>6 DEF ReleaseUnlock, At, OwnerInv, Transit, Owns
  <2>2. /\ UNCHANGED <<cpu, held>>
        /\ \A m \in Lock : locked'[m] = (m # l /\ locked[m])
        /\ \A g \in Hart, m \in Lock : Transit(g, m)' <=> (Transit(g, m) /\ g # h)
    BY <1>6, ZenonT(40) DEF ReleaseUnlock, At, Goto, Transit
  <2> QED
    BY <2>1, <2>2 DEF OwnerInv, Owns, Transit
<1>7. ASSUME NEW h \in Hart, NEW l \in Lock, ReleasePop(h, l) PROVE OwnerInv'
  BY <1>7, OwnerFrame DEF ReleasePop, At, Goto, Transit
<1>8. ASSUME NEW h \in Hart, Trap(h) \/ TrapReturn(h) \/ IntrOn(h) \/ Swtch(h) PROVE OwnerInv'
  BY <1>8, OwnerFrame DEF Trap, TrapReturn, IntrOn, Swtch, Transit
<1>9. CASE UNCHANGED spin
  BY <1>9, OwnerFrame DEF spin, Transit
<1> QED
  BY <1>1, <1>2, <1>3, <1>4, <1>5, <1>6, <1>7, <1>8, <1>9 DEF SpinNext

\* noff counts the locks: every push_off of an acquire meets the pop_off of its
\* release.
LEMMA CountStep == SpinInv /\ SpinType' /\ [SpinNext]_spin => CountInv'
<1> SUFFICES ASSUME SpinInv, SpinType', [SpinNext]_spin PROVE CountInv'
  OBVIOUS
<1> USE DEF SpinInv
<1>0. \A g \in Hart : Cardinality(held[g]) \in Nat
  BY HeldCount
<1>1. ASSUME NEW h \in Hart, NEW l \in Lock, AcquireOff(h, l) PROVE CountInv'
  BY <1>0, <1>1 DEF SpinType, CountInv, AcquireOff, PushOff, Goto, Steps
<1>2. ASSUME NEW h \in Hart, NEW l \in Lock, AcquireCheck(h, l) PROVE CountInv'
  BY <1>0, <1>2 DEF SpinType, CountInv, AcquireCheck, At, Goto, Steps
<1>3. ASSUME NEW h \in Hart, NEW l \in Lock, AcquireSwap(h, l) PROVE CountInv'
  BY <1>0, <1>3 DEF SpinType, CountInv, AcquireSwap, At, Goto, Steps
<1>4. ASSUME NEW h \in Hart, NEW l \in Lock, AcquireMark(h, l) PROVE CountInv'
  <2>1. Cardinality(held[h] \cup {l}) = Cardinality(held[h]) + 1
    BY <1>4, CountMark DEF AcquireMark, At, OwnerInv, Transit
  <2>2. /\ held' = [held EXCEPT ![h] = @ \cup {l}] /\ noff' = noff
        /\ at[h] = "mark" /\ at' = [at EXCEPT ![h] = "out"]
    BY <1>4 DEF AcquireMark, At, Goto
  <2>3. Cardinality(held'[h]) = Cardinality(held[h]) + 1
    BY <2>1, <2>2 DEF SpinType
  <2>4. \A g \in Hart \ {h} : held'[g] = held[g] /\ at'[g] = at[g]
    BY <2>2 DEF SpinType
  <2> QED
    BY <1>0, <2>2, <2>3, <2>4, SMTT(30) DEF SpinType, CountInv, Steps
<1>5. ASSUME NEW h \in Hart, NEW l \in Lock, ReleaseUnmark(h, l) PROVE CountInv'
  <2>1. CASE ~Holding(h, l)
    BY <1>0, <1>5, <2>1 DEF SpinType, CountInv, ReleaseUnmark, Goto, Steps
  <2>2. CASE Holding(h, l)
    <3>1. l \in held[h]
      BY <2>2 DEF Holding, OwnerInv
    <3>2. Cardinality(held[h] \ {l}) = Cardinality(held[h]) - 1
      BY <3>1, CountUnmark
    <3> QED
      <4>1. /\ held' = [held EXCEPT ![h] = @ \ {l}] /\ noff' = noff
            /\ at[h] = "out" /\ at' = [at EXCEPT ![h] = "unlock"]
        BY <1>5, <2>2 DEF ReleaseUnmark, Goto
      <4>2. Cardinality(held'[h]) = Cardinality(held[h]) - 1
        BY <3>2, <4>1 DEF SpinType
      <4>3. \A g \in Hart \ {h} : held'[g] = held[g] /\ at'[g] = at[g]
        BY <4>1 DEF SpinType
      <4> QED
        BY <1>0, <4>1, <4>2, <4>3 DEF SpinType, CountInv, Steps
  <2> QED
    BY <2>1, <2>2
<1>6. ASSUME NEW h \in Hart, NEW l \in Lock, ReleaseUnlock(h, l) PROVE CountInv'
  BY <1>0, <1>6 DEF SpinType, CountInv, ReleaseUnlock, At, Goto, Steps
<1>7. ASSUME NEW h \in Hart, NEW l \in Lock, ReleasePop(h, l) PROVE CountInv'
  BY <1>0, <1>7 DEF SpinType, CountInv, ReleasePop, PopOff, At, Goto, Steps
<1>8. ASSUME NEW h \in Hart, Trap(h) \/ TrapReturn(h) \/ IntrOn(h) \/ Swtch(h) PROVE CountInv'
  BY <1>0, <1>8 DEF SpinType, CountInv, Trap, TrapReturn, IntrOn, Swtch
<1>9. CASE UNCHANGED spin
  BY <1>9 DEF CountInv, spin
<1> QED
  BY <1>1, <1>2, <1>3, <1>4, <1>5, <1>6, <1>7, <1>8, <1>9 DEF SpinNext

\* Interrupts are enabled only where noff is 0, and then no lock is held.
LEMMA InterruptStep == SpinInv /\ SpinType' /\ [SpinNext]_spin => InterruptSafe'
<1> SUFFICES ASSUME SpinInv, SpinType', [SpinNext]_spin PROVE InterruptSafe'
  OBVIOUS
<1> USE DEF SpinInv
<1>1. ASSUME NEW h \in Hart, NEW l \in Lock, AcquireOff(h, l) PROVE InterruptSafe'
  BY <1>1 DEF SpinType, InterruptSafe, AcquireOff, PushOff, Goto
<1>2. ASSUME NEW h \in Hart, NEW l \in Lock,
             AcquireCheck(h, l) \/ AcquireSwap(h, l) \/ AcquireMark(h, l) \/ ReleaseUnlock(h, l)
      PROVE  InterruptSafe'
  BY <1>2 DEF SpinType, InterruptSafe, AcquireCheck, AcquireSwap, AcquireMark, ReleaseUnlock, At, Goto
<1>3. ASSUME NEW h \in Hart, NEW l \in Lock, ReleaseUnmark(h, l) PROVE InterruptSafe'
  BY <1>3 DEF SpinType, InterruptSafe, ReleaseUnmark, Holding, OwnerInv, Goto
<1>4. ASSUME NEW h \in Hart, NEW l \in Lock, ReleasePop(h, l) PROVE InterruptSafe'
  <2>1. noff[h] = Cardinality(held[h]) + 1 /\ ~ie[h]
    BY <1>4 DEF ReleasePop, At, CountInv, Steps, InterruptSafe
  <2>2. noff[h] = 1 => held[h] = {}
    BY <2>1, HeldCount
  <2> QED
    BY <1>4, <2>1, <2>2 DEF SpinType, InterruptSafe, ReleasePop, PopOff, At, Goto
<1>5. ASSUME NEW h \in Hart, TrapReturn(h) \/ IntrOn(h) PROVE InterruptSafe'
  <2>0. at[h] = "out" /\ noff[h] = 0
    BY <1>5 DEF TrapReturn, IntrOn
  <2>1. Cardinality(held[h]) \in Nat /\ (Cardinality(held[h]) = 0 => held[h] = {})
    BY HeldCount
  <2>2. held[h] = {}
    BY <2>0, <2>1 DEF CountInv, Steps
  <2> QED
    BY <1>5, <2>2, SMTT(30) DEF SpinType, InterruptSafe, TrapReturn, IntrOn
<1>6. ASSUME NEW h \in Hart, Trap(h) \/ Swtch(h) PROVE InterruptSafe'
  BY <1>6 DEF SpinType, InterruptSafe, Trap, Swtch
<1>7. CASE UNCHANGED spin
  BY <1>7 DEF InterruptSafe, spin
<1> QED
  BY <1>1, <1>2, <1>3, <1>4, <1>5, <1>6, <1>7 DEF SpinNext

\* The invariant is inductive.
LEMMA NextInv == SpinInv /\ [SpinNext]_spin => SpinInv'
<1>1. SpinInv /\ [SpinNext]_spin => SpinType'
  BY TypeStep DEF SpinInv
<1> QED
  BY <1>1, StepStep, OwnerStep, CountStep, InterruptStep DEF SpinInv

\* The invariant holds throughout.
LEMMA Invariance == SpinSpec => []SpinInv
BY InitInv, NextInv, PTL DEF SpinSpec

\* acquire and release of spinlock.c exclude: two harts never are between them
\* with one lock, and holding() is right whatever the other harts do.
THEOREM Exclusion == SpinSpec => []MutualExclusion
<1>1. SpinInv => MutualExclusion
  BY DEF SpinInv, SpinType, OwnerInv, Owns, MutualExclusion, Holding
<1> QED
  BY <1>1, Invariance, PTL

\* With push_off and pop_off nested as acquire and release are, and intena
\* switched as sched does, a hart takes no interrupt while it holds a lock.
THEOREM NoInterruptWithLock == SpinSpec => []InterruptSafe
<1>1. SpinInv => InterruptSafe
  BY DEF SpinInv
<1> QED
  BY <1>1, Invariance, PTL

\* pop_off of a release never panics: interrupts are off and noff is not 0.
THEOREM PopOffSafe == SpinSpec => [](\A h \in Hart : at[h] = "pop" => ~ie[h] /\ noff[h] >= 1)
<1>1. SpinInv => \A h \in Hart : at[h] = "pop" => ~ie[h] /\ noff[h] >= 1
  <2> SUFFICES ASSUME SpinInv, NEW h \in Hart, at[h] = "pop" PROVE ~ie[h] /\ noff[h] >= 1
    BY SMTT(30)
  <2>1. Cardinality(held[h]) \in Nat
    BY HeldCount DEF SpinInv
  <2>2. noff[h] = Cardinality(held[h]) + 1
    BY DEF SpinInv, CountInv, Steps
  <2>3. ~ie[h]
    BY DEF SpinInv, InterruptSafe
  <2> QED
    BY <2>1, <2>2, <2>3
<1> QED
  BY <1>1, Invariance, PTL
=============================================================================
