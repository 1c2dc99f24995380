------------------------------- MODULE Kalloc -------------------------------
(***************************************************************************)
(* The physical page allocator of the kernel (kernel/kalloc.c) with the    *)
(* reference counts that copy-on-write fork added to it.                   *)
(*                                                                         *)
(* kmem.freelist is a LIFO list; reference_count[pa] is decremented by     *)
(* kfree, which returns the page to the list when the count reaches zero.  *)
(* kfree takes two locks one after the other (reference_lock, then         *)
(* kmem.lock), so it is two steps, and CPUs interleave between them.       *)
(*                                                                         *)
(* "refs" is a history variable: how many pointers (page-table entries,    *)
(* pages in a handler's hands) the rest of the kernel has to each page.    *)
(* The allocator never reads it.                                           *)
(***************************************************************************)
EXTENDS Integers, Sequences

CONSTANTS
  NFrames,   \* number of pages between end and PHYSTOP
  CPU,       \* the harts
  MaxRef     \* bound: most references one page can have (NPROC in the kernel)

ASSUME KallocAssumption ==
  /\ NFrames \in Nat \ {0}
  /\ MaxRef \in Nat \ {0}

Frame == 1..NFrames

NoFrame == 0

VARIABLES
  freelist,        \* kmem.freelist, head first
  reference_count, \* reference_count[], per page
  pushing,         \* per CPU: the page a kfree dropped to zero and has not yet linked
  boot,            \* next page freerange() will free; NFrames + 1 once kinit is done
  refs             \* history: references the kernel holds to each page

vars == <<freelist, reference_count, pushing, boot, refs>>

Booted == boot = NFrames + 1

\* kinit: all static counters are zero and the list is empty.
Init ==
  /\ freelist = <<>>
  /\ reference_count = [f \in Frame |-> 0]
  /\ pushing = [c \in CPU |-> NoFrame]
  /\ boot = 1
  /\ refs = [f \in Frame |-> 0]

\* freerange: kfree() of every page, on one CPU before the others start.  The
\* count goes from 0 to -1, which is not > 0, so the page is linked.
Freerange ==
  /\ ~Booted
  /\ reference_count' = [reference_count EXCEPT ![boot] = @ - 1]
  /\ freelist' = <<boot>> \o freelist
  /\ boot' = boot + 1
  /\ UNCHANGED <<pushing, refs>>

\* kalloc: pop the list and set the count, in one critical section of kmem.lock.
KallocPop(c) ==
  /\ Booted /\ pushing[c] = NoFrame
  /\ freelist # <<>>
  /\ freelist' = Tail(freelist)
  /\ reference_count' = [reference_count EXCEPT ![Head(freelist)] = 1]
  /\ refs' = [refs EXCEPT ![Head(freelist)] = 1]
  /\ UNCHANGED <<pushing, boot>>

\* kalloc on an empty list returns 0 and changes nothing.
KallocFail(c) ==
  /\ Booted /\ pushing[c] = NoFrame
  /\ freelist = <<>>
  /\ UNCHANGED vars

\* uvmcopy: one more page-table entry refers to page f.
IncRef(f) ==
  /\ refs[f] > 0 /\ reference_count[f] < MaxRef
  /\ reference_count' = [reference_count EXCEPT ![f] = @ + 1]
  /\ refs' = [refs EXCEPT ![f] = @ + 1]
  /\ UNCHANGED <<freelist, pushing, boot>>

\* Mutants: kfree compares with the wrong number, and keeps a page whose last
\* reference is gone or links one that has a reference left.
KfreeDecThreshold(c, f, n) ==
  /\ pushing[c] = NoFrame
  /\ refs[f] > 0
  /\ reference_count' = [reference_count EXCEPT ![f] = @ - 1]
  /\ refs' = [refs EXCEPT ![f] = @ - 1]
  /\ pushing' = IF reference_count'[f] > n THEN pushing
                                           ELSE [pushing EXCEPT ![c] = f]
  /\ UNCHANGED <<freelist, boot>>

KfreeDecKeeps(c, f) == KfreeDecThreshold(c, f, -1)

KfreeDecEarly(c, f) == KfreeDecThreshold(c, f, 1)

\* kfree, first critical section: give up one reference to f under
\* reference_lock; the page is to be linked only if none is left.
KfreeDec(c, f) ==
  /\ pushing[c] = NoFrame
  /\ refs[f] > 0
  /\ reference_count' = [reference_count EXCEPT ![f] = @ - 1]
  /\ refs' = [refs EXCEPT ![f] = @ - 1]
  /\ pushing' = IF reference_count'[f] > 0 THEN pushing
                                           ELSE [pushing EXCEPT ![c] = f]
  /\ UNCHANGED <<freelist, boot>>

\* kfree, second critical section: link the page under kmem.lock.
KfreePush(c) ==
  /\ pushing[c] # NoFrame
  /\ freelist' = <<pushing[c]>> \o freelist
  /\ pushing' = [pushing EXCEPT ![c] = NoFrame]
  /\ UNCHANGED <<reference_count, boot, refs>>

\* uvmcopy's error path: the reference just counted for the child is never
\* entered in a page table and never given back (the parent's entry remains).
Forget(f) ==
  /\ refs[f] > 1
  /\ refs' = [refs EXCEPT ![f] = @ - 1]
  /\ UNCHANGED <<freelist, reference_count, pushing, boot>>

Next ==
  \/ Freerange
  \/ \E c \in CPU : KallocPop(c) \/ KallocFail(c) \/ KfreePush(c)
  \/ \E c \in CPU, f \in Frame : KfreeDec(c, f)
  \/ \E f \in Frame : IncRef(f) \/ Forget(f)

Spec == Init /\ [][Next]_vars

-----------------------------------------------------------------------------
OnList(f) == \E i \in 1..Len(freelist) : freelist[i] = f

BeingPushed(f) == \E c \in CPU : pushing[c] = f

\* Types.  A page that was never allocated has count -1 (see freerange).
TypeOK ==
  /\ freelist \in Seq(Frame)
  /\ reference_count \in [Frame -> Int]
  /\ pushing \in [CPU -> Frame \cup {NoFrame}]
  /\ boot \in 1..(NFrames + 1)
  /\ refs \in [Frame -> Nat]

\* No page that something in the kernel still refers to has a reference count
\* that could let kfree release it: the count covers the references.
RefCoversHeld ==
  \A f \in Frame : refs[f] = 0 \/ refs[f] <= reference_count[f]

\* A page is allocatable, or about to be, exactly when its count says that it is
\* unreferenced: kalloc never hands out a page in use, and kfree never loses one.
FreeIffUnreferenced ==
  \A f \in Frame : f < boot => ((OnList(f) \/ BeingPushed(f)) <=> reference_count[f] <= 0)

\* No page is linked twice, nor linked while another kfree is about to link it:
\* two CPUs that drop the last two references do not both free the page.
NoDoubleFree ==
  /\ \A i, j \in 1..Len(freelist) : freelist[i] = freelist[j] => i = j
  /\ \A c \in CPU : pushing[c] # NoFrame => ~OnList(pushing[c])
  /\ \A c, d \in CPU : pushing[c] = pushing[d] /\ pushing[c] # NoFrame => c = d
=============================================================================
