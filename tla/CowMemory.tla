----------------------------- MODULE CowMemory ------------------------------
(***************************************************************************)
(* User address spaces with copy-on-write fork: kernel/vm.c, the store     *)
(* page-fault path of kernel/trap.c, the memory side of fork, exit, wait   *)
(* and sbrk in kernel/proc.c, and exec in kernel/exec.c.                   *)
(*                                                                         *)
(* Processes run in parallel on several CPUs.  What they share is the      *)
(* allocator (kmem.freelist, reference_count) and the contents of pages    *)
(* that fork made shared; a page table is touched only by the process it   *)
(* belongs to, by the fork that builds it or by the wait that frees it.    *)
(* One step is therefore one critical section of the allocator or one      *)
(* access to a page, with the private work next to it.                     *)
(*                                                                         *)
(* A process inside the kernel has the list of the steps it still has to   *)
(* run ("todo"): the calls of the C code, in order.  An empty list means   *)
(* that the process is in user mode.                                       *)
(***************************************************************************)
EXTENDS Integers, Sequences, FiniteSets, FiniteSetsExt

CONSTANTS
  NFrames,    \* physical pages between end and PHYSTOP
  NProc,      \* process table slots (NPROC in param.h)
  NPages,     \* bound: most user pages of an address space
  Path,       \* [Page -> set]: the page-table pages below the root that walk visits
              \* on the way to a page (a level-1 table, and a leaf for every 512 pages)
  TopTables,  \* page-table pages proc_pagetable allocates (3: root, trampoline's two)
  Val,        \* contents of a page, as far as programs tell them apart; 0 is all zeroes
  Programs,   \* the executables: the kind of each page, in address order
  Calls,      \* bound: the system calls programs make, of sbrk and out (see User)
  MaxRef      \* bound: most references to one page (an int in the code)

ASSUME CowAssumption ==
  /\ {NFrames, NProc, NPages, TopTables, MaxRef} \subseteq Nat \ {0}
  /\ \A v \in 0..(NPages - 1) : Path[v] \subseteq Int
  /\ 0 \in Val /\ Calls \subseteq {"sbrk", "out"}
  /\ \A g \in Programs : g \in Seq({"text", "data", "guard"}) /\ Len(g) \in 1..NPages

Frame == 1..NFrames
Slot == 1..NProc
Page == 0..(NPages - 1)
Space == Slot \X {0, 1}     \* a process has two page tables while it runs exec
Init1 == 1                  \* initproc
NoFrame == 0
Nobody == 0
Junk == -1                  \* what kfree and kalloc fill a page with

VARIABLES
  freelist,          \* the pages not used as user pages: those on kmem.freelist, and
                     \* those that hold page tables and trapframes
  nfree,             \* how many pages are on kmem.freelist
  reference_count,   \* reference_count[] of the user pages
  mem,               \* contents of each user page
  pt,       \* [Space -> [Page -> PTE]]: the leaf page-table entries
  low,      \* [Space -> set]: which page-table pages below the root are present
  tabs,     \* [Space -> Nat]: how many pages the page table itself is made of
  cur,      \* [Slot -> {0, 1}]: which of its two page tables p->pagetable is
  tf,       \* [Slot -> {0, 1}]: whether p->trapframe is a page
  sz,       \* [Slot -> Nat]: p->sz, in pages
  pstate,   \* [Slot -> STRING]: UNUSED, USED, ALIVE (any of the running states) or ZOMBIE
  killed, parent, wait_lock,
  k         \* [Slot -> record]: the process's activity in the kernel

alloc == <<freelist, nfree, reference_count>>
table == <<pt, low, tabs>>
procs == <<cur, tf, sz, pstate, killed, parent, wait_lock>>
vars == <<freelist, nfree, reference_count, mem, pt, low, tabs, cur, tf, sz, pstate, killed,
          parent, wait_lock, k>>

NoPte == [v |-> FALSE, pa |-> NoFrame, w |-> FALSE, u |-> FALSE, rsw |-> FALSE]

UserMode == [todo |-> <<>>, as |-> <<1, 0>>, i |-> 0, lo |-> 0, lim |-> 0, hand |-> NoFrame,
             old |-> NoFrame, val |-> 0, child |-> 1, prog |-> <<>>]

-----------------------------------------------------------------------------
At(p, s) == k[p].todo # <<>> /\ Head(k[p].todo) = s

Rest(p) == Tail(k[p].todo)

\* Process p goes on with steps t, with the locals of r.
Goto(p, r, t) ==
  k' = [k EXCEPT ![p] = IF t = <<>> THEN UserMode ELSE [r EXCEPT !.todo = t]]

Mine(p) == <<p, cur[p]>>

\* p is in user mode and may execute an instruction or enter the kernel.
InUser(p) == pstate[p] = "ALIVE" /\ k[p].todo = <<>> /\ ~killed[p]

\* kalloc of a user page f: unlink it and set its count, under kmem.lock.  Free
\* pages are interchangeable: which one is taken makes no difference.
Kalloc(f) ==
  /\ nfree > 0 /\ f = Min(freelist)
  /\ freelist' = freelist \ {f}
  /\ nfree' = nfree - 1
  /\ reference_count' = [reference_count EXCEPT ![f] = 1]

\* kalloc of n pages for a page table or a trapframe.  Such a page belongs to one
\* process and has count 1 until it is freed: these pages are counted (tabs, tf)
\* and not told apart.
KallocKernel(n) ==
  /\ nfree >= n
  /\ nfree' = nfree - n
  /\ UNCHANGED <<freelist, reference_count>>

\* kfree of n such pages: the caller's own, so the others only see that there are
\* more free pages, and this is one step.
KfreeKernel(n) ==
  /\ nfree' = nfree + n
  /\ UNCHANGED <<freelist, reference_count>>

\* kalloc returns 0.
KallocFails == nfree = 0 /\ UNCHANGED alloc

\* kfree(pa), under reference_lock: drop one reference; only if the count is not
\* positive any more does p go on to link the page.  r, t: p's locals and next steps.
Kfree(p, pa, r, t) ==
  /\ reference_count' = [reference_count EXCEPT ![pa] = @ - 1]
  /\ Goto(p, [r EXCEPT !.old = pa], IF reference_count'[pa] > 0 THEN t ELSE <<"push">> \o t)
  /\ UNCHANGED <<freelist, nfree>>

KfreeDec(p) ==
  /\ At(p, "dec")
  /\ Kfree(p, k[p].old, k[p], Rest(p))
  /\ UNCHANGED <<mem, table, procs>>

\* kfree: fill the page with junk and link it under kmem.lock.
KfreePush(p) ==
  /\ At(p, "push")
  /\ mem' = [mem EXCEPT ![k[p].old] = Junk]
  /\ freelist' = freelist \cup {k[p].old}
  /\ nfree' = nfree + 1
  /\ Goto(p, k[p], Rest(p))
  /\ UNCHANGED <<reference_count, table, procs>>

\* Page-table pages walk(.., alloc = 1) has still to allocate on the way to page v.
MissingTables(a, v) == Path[v] \ low[a]

\* walk allocates the next missing page-table page.
WalkAlloc(p) ==
  LET a == k[p].as IN
  /\ KallocKernel(1)
  /\ low' = [low EXCEPT ![a] = @ \cup {Min(MissingTables(a, k[p].i))}]
  /\ tabs' = [tabs EXCEPT ![a] = @ + 1]
  /\ UNCHANGED <<mem, pt, procs, k>>

-----------------------------------------------------------------------------
(* Stores by the program, and the page fault they may cause.               *)

Writable(pte) == pte.v /\ pte.u /\ pte.w

UserStore(p, v, x) ==
  /\ InUser(p) /\ Writable(pt[Mine(p)][v])
  /\ mem' = [mem EXCEPT ![pt[Mine(p)][v].pa] = x]
  /\ UNCHANGED <<alloc, table, procs, k>>

\* The checks of usertrap (scause 15) and cowtest_h before they allocate.
CowFaultOk(p, v) ==
  LET pte == pt[Mine(p)][v] IN v < sz[p] /\ pte.rsw /\ pte.u /\ pte.v

\* Mutant: cowtest_h does not give up its reference to the shared page.
StoreFaultNoKfree(p, v) ==
  /\ InUser(p) /\ ~Writable(pt[Mine(p)][v]) /\ CowFaultOk(p, v)
  /\ \E f \in Frame :
       /\ Kalloc(f)
       /\ Goto(p, [UserMode EXCEPT !.as = Mine(p), !.i = v, !.hand = f],
               <<"cow_copy", "cow_set">>)
  /\ UNCHANGED <<mem, table, procs>>

StoreFault(p, v) ==
  /\ InUser(p) /\ ~Writable(pt[Mine(p)][v]) /\ CowFaultOk(p, v)
  /\ \E f \in Frame :
       /\ Kalloc(f)
       /\ Goto(p, [UserMode EXCEPT !.as = Mine(p), !.i = v, !.hand = f],
               <<"cow_copy", "dec", "cow_set">>)
  /\ UNCHANGED <<mem, table, procs>>

\* The fault is not on a copy-on-write page, or there is no memory: p is killed
\* (usertrap then calls exit(-1), see Exit).
StoreFaultKills(p, v) ==
  /\ InUser(p) /\ ~Writable(pt[Mine(p)][v])
  /\ ~CowFaultOk(p, v) \/ nfree = 0
  /\ killed' = [killed EXCEPT ![p] = TRUE]
  /\ UNCHANGED <<alloc, mem, table, cur, tf, sz, pstate, parent, wait_lock, k>>

\* Mutant: the new page is entered without the memmove.
CowCopyNothing(p) ==
  /\ At(p, "cow_copy")
  /\ Goto(p, [k[p] EXCEPT !.old = pt[k[p].as][k[p].i].pa], Rest(p))
  /\ UNCHANGED <<alloc, mem, table, procs>>

\* cowtest_h and copyout: copy the shared page to the new one.
CowCopy(p) ==
  LET pa == pt[k[p].as][k[p].i].pa IN
  /\ At(p, "cow_copy")
  /\ mem' = [mem EXCEPT ![k[p].hand] = mem[pa]]
  /\ Goto(p, [k[p] EXCEPT !.old = pa], Rest(p))
  /\ UNCHANGED <<alloc, table, procs>>

\* cowtest_h and copyout: enter the new page, writable and private.
CowSet(p) ==
  /\ At(p, "cow_set")
  /\ pt' = [pt EXCEPT ![k[p].as][k[p].i] =
              [@ EXCEPT !.pa = k[p].hand, !.w = TRUE, !.rsw = FALSE]]
  /\ Goto(p, [k[p] EXCEPT !.hand = NoFrame, !.old = NoFrame], Rest(p))
  /\ UNCHANGED <<alloc, mem, low, tabs, procs>>

-----------------------------------------------------------------------------
(* copyout: the kernel writes x into page v of the caller, on behalf of a  *)
(* system call; then the caller goes on with steps t.                      *)

Copyout(p, v, x, r, t) ==
  LET pte == pt[Mine(p)][v]
      r0 == [r EXCEPT !.as = Mine(p), !.i = v, !.val = x]
  IN
  /\ pte.v /\ pte.u                           \* else walkaddr fails: return -1
  /\ \/ /\ pte.rsw /\ v < sz[p]
        /\ \E f \in Frame :
             /\ Kalloc(f)
             /\ Goto(p, [r0 EXCEPT !.hand = f],
                     <<"cow_copy", "dec", "cow_set", "out_write">> \o t)
        /\ UNCHANGED killed
     \/ /\ pte.rsw /\ v < sz[p]
        /\ KallocFails
        /\ killed' = [killed EXCEPT ![p] = TRUE]
        /\ Goto(p, r0, <<"out_write">> \o t)
     \/ /\ ~(pte.rsw /\ v < sz[p])
        /\ Goto(p, r0, <<"out_write">> \o t)
        /\ UNCHANGED <<alloc, killed>>

\* A system call that returns data in user memory (read, fstat, pipe, ...).
SyscallOut(p, v, x) ==
  /\ InUser(p)
  /\ Copyout(p, v, x, UserMode, <<>>)
  /\ UNCHANGED <<mem, table, cur, tf, sz, pstate, parent, wait_lock>>

\* copyout's memmove.
OutWrite(p) ==
  /\ At(p, "out_write")
  /\ mem' = [mem EXCEPT ![pt[k[p].as][k[p].i].pa] = k[p].val]
  /\ Goto(p, k[p], Rest(p))
  /\ UNCHANGED <<alloc, table, procs>>

-----------------------------------------------------------------------------
(* Releasing memory: uvmunmap with do_free, freewalk, freeproc.            *)

\* uvmunmap of pages i .. lim - 1: kfree the page and clear the entry.  No one but p
\* uses this page table, so the two are one step for the others.
Unmap(p) ==
  LET r == k[p] IN
  /\ At(p, "unmap") /\ r.i < r.lim
  /\ Kfree(p, pt[r.as][r.i].pa, [r EXCEPT !.i = @ + 1], r.todo)
  /\ pt' = [pt EXCEPT ![r.as][r.i] = NoPte]
  /\ UNCHANGED <<mem, low, tabs, procs>>

UnmapDone(p) ==
  /\ At(p, "unmap") /\ k[p].i = k[p].lim
  /\ Goto(p, [k[p] EXCEPT !.i = 0, !.lim = 0, !.old = NoFrame], Rest(p))
  /\ UNCHANGED <<alloc, mem, table, procs>>

\* freewalk: kfree the pages of the page table itself.
Freewalk(p) ==
  LET a == k[p].as IN
  /\ At(p, "freewalk")
  /\ KfreeKernel(tabs[a])
  /\ tabs' = [tabs EXCEPT ![a] = 0]
  /\ low' = [low EXCEPT ![a] = {}]
  /\ Goto(p, k[p], Rest(p))
  /\ UNCHANGED <<mem, pt, procs>>

\* freeproc: kfree the trapframe page of the slot being released.
FreeTrapframe(p) ==
  /\ At(p, "free_tf")
  /\ KfreeKernel(1)
  /\ tf' = [tf EXCEPT ![k[p].child] = 0]
  /\ Goto(p, k[p], Rest(p))
  /\ UNCHANGED <<mem, table, cur, sz, pstate, killed, parent, wait_lock>>

\* freeproc: the slot is free; wait releases its locks.
FreeSlot(p) ==
  LET c == k[p].child IN
  /\ At(p, "free_slot")
  /\ sz' = [sz EXCEPT ![c] = 0]
  /\ pstate' = [pstate EXCEPT ![c] = "UNUSED"]
  /\ killed' = [killed EXCEPT ![c] = FALSE]
  /\ parent' = [parent EXCEPT ![c] = Nobody]
  /\ wait_lock' = IF wait_lock = p THEN Nobody ELSE wait_lock
  /\ Goto(p, k[p], Rest(p))
  /\ UNCHANGED <<alloc, mem, table, cur, tf>>

-----------------------------------------------------------------------------
(* fork: allocproc, uvmcopy, and making the child runnable.                *)

Fork(p) ==
  LET free == {c \in Slot : pstate[c] = "UNUSED"}
      c == Min(free)
  IN
  /\ InUser(p) /\ free # {}                   \* else allocproc returns 0
  /\ pstate' = [pstate EXCEPT ![c] = "USED"]
  /\ Goto(p, [UserMode EXCEPT !.as = Mine(c), !.lim = sz[p], !.child = c],
          <<"alloc_tf", "alloc_top", "uvmcopy">>)
  /\ UNCHANGED <<alloc, mem, table, cur, tf, sz, killed, parent, wait_lock>>

\* allocproc: the trapframe page; freeproc if there is none.
AllocTrapframe(p) ==
  /\ At(p, "alloc_tf")
  /\ \/ /\ KallocKernel(1)
        /\ tf' = [tf EXCEPT ![k[p].child] = 1]
        /\ Goto(p, k[p], Rest(p))
     \/ /\ KallocFails
        /\ Goto(p, k[p], <<"free_slot">>)
        /\ UNCHANGED tf
  /\ UNCHANGED <<mem, table, cur, sz, pstate, killed, parent, wait_lock>>

ForExec(p) == k[p].as[1] = p

\* proc_pagetable: the root, then the tables of trampoline and trapframe; if one cannot be
\* had uvmfree frees those before it, and fork goes on to freeproc.
AllocTop(p) ==
  LET a == k[p].as IN
  /\ At(p, "alloc_top")
  /\ \/ /\ KallocKernel(1)
        /\ tabs' = [tabs EXCEPT ![a] = @ + 1]
        /\ Goto(p, k[p], IF tabs'[a] = TopTables THEN Rest(p) ELSE k[p].todo)
     \/ /\ KallocFails
        /\ Goto(p, k[p], <<"freewalk">> \o IF ForExec(p) THEN <<>> ELSE <<"free_tf", "free_slot">>)
        /\ UNCHANGED tabs
  /\ UNCHANGED <<mem, pt, low, procs>>

\* Mutants: uvmcopy leaves the parent's entry writable; uvmcopy does not count the
\* child's reference.
UvmcopyShareWritable(p) ==
  LET pte == pt[Mine(p)][k[p].i] IN
  /\ At(p, "uvmcopy") /\ k[p].i < k[p].lim
  /\ reference_count[pte.pa] < MaxRef
  /\ reference_count' = [reference_count EXCEPT ![pte.pa] = @ + 1]
  /\ Goto(p, k[p], <<"uvmcopy_map">> \o k[p].todo)
  /\ UNCHANGED <<freelist, nfree, mem, table, procs>>

UvmcopyShareUncounted(p) ==
  LET pte == pt[Mine(p)][k[p].i] IN
  /\ At(p, "uvmcopy") /\ k[p].i < k[p].lim
  /\ pt' = [pt EXCEPT ![Mine(p)][k[p].i] = [@ EXCEPT !.w = FALSE, !.rsw = @ \/ pte.w]]
  /\ Goto(p, k[p], <<"uvmcopy_map">> \o k[p].todo)
  /\ UNCHANGED <<alloc, mem, low, tabs, procs>>

\* uvmcopy, page i: write-protect the parent's entry, count the child's reference.
UvmcopyShare(p) ==
  LET pte == pt[Mine(p)][k[p].i] IN
  /\ At(p, "uvmcopy") /\ k[p].i < k[p].lim
  /\ reference_count[pte.pa] < MaxRef
  /\ pt' = [pt EXCEPT ![Mine(p)][k[p].i] =
              [@ EXCEPT !.w = FALSE, !.rsw = @ \/ pte.w]]
  /\ reference_count' = [reference_count EXCEPT ![pte.pa] = @ + 1]
  /\ Goto(p, k[p], <<"uvmcopy_map">> \o k[p].todo)
  /\ UNCHANGED <<freelist, nfree, mem, low, tabs, procs>>

\* uvmcopy, page i: mappages into the child; on failure unmap the pages before i
\* and free the child.
UvmcopyMap(p) ==
  LET a == k[p].as IN
  /\ At(p, "uvmcopy_map")
  /\ \/ /\ MissingTables(a, k[p].i) = {}
        /\ pt' = [pt EXCEPT ![a][k[p].i] = pt[Mine(p)][k[p].i]]
        /\ Goto(p, [k[p] EXCEPT !.i = @ + 1], Rest(p))
        /\ UNCHANGED <<alloc, mem, low, tabs, procs>>
     \/ /\ MissingTables(a, k[p].i) # {}
        /\ WalkAlloc(p)
     \/ /\ MissingTables(a, k[p].i) # {}
        /\ KallocFails
        /\ Goto(p, [k[p] EXCEPT !.i = 0, !.lim = k[p].i],
                <<"unmap", "free_tf", "freewalk", "free_slot">>)
        /\ UNCHANGED <<mem, table, procs>>

\* fork: after uvmcopy the child gets its size, its parent and becomes runnable.
ForkEnd(p) ==
  LET c == k[p].child IN
  /\ At(p, "uvmcopy") /\ k[p].i = k[p].lim /\ wait_lock = Nobody
  /\ sz' = [sz EXCEPT ![c] = sz[p]]
  /\ parent' = [parent EXCEPT ![c] = p]
  /\ pstate' = [pstate EXCEPT ![c] = "ALIVE"]
  /\ Goto(p, k[p], <<>>)
  /\ UNCHANGED <<alloc, mem, table, cur, tf, killed, wait_lock>>

-----------------------------------------------------------------------------
(* sbrk (growproc) and exec, both on top of uvmalloc.                      *)

SbrkGrow(p, n) ==
  /\ InUser(p) /\ sz[p] + n <= NPages
  /\ Goto(p, [UserMode EXCEPT !.as = Mine(p), !.i = sz[p], !.lo = sz[p], !.lim = sz[p] + n],
          <<"uvmalloc", "grow_end">>)
  /\ UNCHANGED <<alloc, mem, table, procs>>

SbrkShrink(p, n) ==
  /\ InUser(p) /\ n <= sz[p]
  /\ Goto(p, [UserMode EXCEPT !.as = Mine(p), !.i = sz[p] - n, !.lo = sz[p] - n, !.lim = sz[p]],
          <<"unmap", "shrink_end">>)
  /\ UNCHANGED <<alloc, mem, table, procs>>

\* What uvmalloc's caller does when it returns 0: uvmdealloc has unmapped the
\* pages it added; exec then frees the whole new page table.
UvmallocFailed(p) == IF ForExec(p) /\ k[p].as # Mine(p) THEN <<"unmap", "freewalk">>
                                                       ELSE <<"unmap">>

\* uvmalloc, page i: the page, filled with zeroes.
UvmallocPage(p) ==
  /\ At(p, "uvmalloc") /\ k[p].i < k[p].lim
  /\ \/ \E f \in Frame :
          /\ Kalloc(f)
          /\ mem' = [mem EXCEPT ![f] = 0]
          /\ Goto(p, [k[p] EXCEPT !.hand = f], <<"uvmalloc_map">> \o k[p].todo)
     \/ /\ KallocFails
        /\ Goto(p, [k[p] EXCEPT !.i = k[p].lo, !.lim = k[p].i], UvmallocFailed(p))
        /\ UNCHANGED mem
  /\ UNCHANGED <<table, procs>>

\* The permissions of a page: exec maps text without PTE_W (flags2perm) and takes
\* PTE_U from the stack guard (uvmclear); sbrk's pages are data.
Perm(kind) == [v |-> TRUE, w |-> kind # "text", u |-> kind # "guard", rsw |-> FALSE]

PageKind(p) == IF k[p].prog = <<>> THEN "data" ELSE k[p].prog[k[p].i + 1]

\* uvmalloc, page i: mappages; on failure kfree the page and unmap those before it.
UvmallocMap(p) ==
  LET a == k[p].as
      perm == Perm(PageKind(p))
  IN
  /\ At(p, "uvmalloc_map")
  /\ \/ /\ MissingTables(a, k[p].i) = {}
        /\ pt' = [pt EXCEPT ![a][k[p].i] = [v |-> perm.v, pa |-> k[p].hand, w |-> perm.w,
                                            u |-> perm.u, rsw |-> perm.rsw]]
        /\ Goto(p, [k[p] EXCEPT !.i = @ + 1, !.hand = NoFrame], Rest(p))
        /\ UNCHANGED <<alloc, mem, low, tabs, procs>>
     \/ /\ MissingTables(a, k[p].i) # {}
        /\ WalkAlloc(p)
     \/ /\ MissingTables(a, k[p].i) # {}
        /\ KallocFails
        /\ Goto(p, [k[p] EXCEPT !.i = k[p].lo, !.lim = k[p].i, !.old = k[p].hand, !.hand = NoFrame],
                <<"dec">> \o UvmallocFailed(p))
        /\ UNCHANGED <<mem, table, procs>>

\* growproc: p->sz = sz, after uvmalloc or uvmdealloc.
SbrkEnd(p) ==
  /\ \/ /\ k[p].todo = <<"uvmalloc", "grow_end">> /\ k[p].i = k[p].lim
        /\ sz' = [sz EXCEPT ![p] = k[p].lim]
     \/ /\ At(p, "shrink_end")
        /\ sz' = [sz EXCEPT ![p] = k[p].lo]
  /\ Goto(p, k[p], <<>>)
  /\ UNCHANGED <<alloc, mem, table, cur, tf, pstate, killed, parent, wait_lock>>

Exec(p, prog) ==
  /\ InUser(p)
  /\ Goto(p, [UserMode EXCEPT !.as = <<p, 1 - cur[p]>>, !.lim = Len(prog), !.prog = prog],
          <<"alloc_top", "uvmalloc", "exec_end">>)
  /\ UNCHANGED <<alloc, mem, table, procs>>

\* exec goes to bad, between the pages of two segments or at the end: a header that cannot be
\* read, a segment that cannot be loaded, or arguments that do not fit on the stack.  It frees
\* what it has built.  (One uvmalloc makes the guard page and the stack above it.)
ExecBad(p) ==
  /\ k[p].todo = <<"uvmalloc", "exec_end">>
  /\ k[p].i \in 1..k[p].lim - 1 => k[p].prog[k[p].i] \notin {PageKind(p), "guard"}
  /\ Goto(p, [k[p] EXCEPT !.i = 0, !.lim = k[p].i], <<"unmap", "freewalk">>)
  /\ UNCHANGED <<alloc, mem, table, procs>>

\* exec commits to the new image and frees the old page table.
ExecEnd(p) ==
  /\ k[p].todo = <<"uvmalloc", "exec_end">> /\ k[p].i = k[p].lim
  /\ cur' = [cur EXCEPT ![p] = 1 - @]
  /\ sz' = [sz EXCEPT ![p] = k[p].lim]
  /\ Goto(p, [k[p] EXCEPT !.as = Mine(p), !.i = 0, !.lim = sz[p]], <<"unmap", "freewalk">>)
  /\ UNCHANGED <<alloc, mem, table, tf, pstate, killed, parent, wait_lock>>

-----------------------------------------------------------------------------
(* exit and wait.                                                          *)

\* exit (init may not: the kernel panics).  The children go to init.
Exit(p) ==
  /\ pstate[p] = "ALIVE" /\ k[p].todo = <<>> /\ p # Init1
  /\ wait_lock = Nobody
  /\ parent' = [c \in Slot |-> IF parent[c] = p THEN Init1 ELSE parent[c]]
  /\ pstate' = [pstate EXCEPT ![p] = "ZOMBIE"]
  /\ UNCHANGED <<alloc, mem, table, cur, tf, sz, killed, wait_lock, k>>

\* wait finds zombie child c; with an address it copies out the exit status x first.
Wait(p, c) ==
  /\ InUser(p) /\ wait_lock = Nobody
  /\ parent[c] = p /\ pstate[c] = "ZOMBIE"
  /\ wait_lock' = p
  /\ \/ /\ Goto(p, [UserMode EXCEPT !.child = c], <<"freeproc">>)
        /\ UNCHANGED <<alloc, killed>>
     \/ \E v \in Page, x \in Val :
          Copyout(p, v, x, [UserMode EXCEPT !.child = c], <<"freeproc">>)
  /\ UNCHANGED <<mem, table, cur, tf, sz, pstate, parent>>

\* wait: freeproc(child).
Freeproc(p) ==
  LET c == k[p].child IN
  /\ At(p, "freeproc")
  /\ Goto(p, [k[p] EXCEPT !.as = Mine(c), !.i = 0, !.lim = sz[c], !.hand = NoFrame],
          <<"free_tf", "unmap", "freewalk", "free_slot">>)
  /\ UNCHANGED <<alloc, mem, table, procs>>

-----------------------------------------------------------------------------
(* The state userinit leaves: initproc with one page of code and data.     *)

Init ==
  /\ freelist = Frame \ {1}
  /\ nfree = NFrames - (1 + TopTables + Cardinality(Path[0]) + 1)
  /\ reference_count = [f \in Frame |-> IF f = 1 THEN 1 ELSE 0]
  /\ mem = [f \in Frame |-> IF f = 1 THEN 0 ELSE Junk]
  /\ pt = [a \in Space |-> [v \in Page |->
            IF a = <<Init1, 0>> /\ v = 0
            THEN [v |-> TRUE, pa |-> 1, w |-> TRUE, u |-> TRUE, rsw |-> FALSE]
            ELSE NoPte]]
  /\ low = [a \in Space |-> IF a = <<Init1, 0>> THEN Path[0] ELSE {}]
  /\ tabs = [a \in Space |-> IF a = <<Init1, 0>> THEN TopTables + Cardinality(Path[0]) ELSE 0]
  /\ cur = [p \in Slot |-> 0]
  /\ tf = [p \in Slot |-> IF p = Init1 THEN 1 ELSE 0]
  /\ sz = [p \in Slot |-> IF p = Init1 THEN 1 ELSE 0]
  /\ pstate = [p \in Slot |-> IF p = Init1 THEN "ALIVE" ELSE "UNUSED"]
  /\ killed = [p \in Slot |-> FALSE]
  /\ parent = [p \in Slot |-> Nobody]
  /\ wait_lock = Nobody
  /\ k = [p \in Slot |-> UserMode]

User(p) ==
  \/ \E v \in Page : StoreFault(p, v) \/ StoreFaultKills(p, v)
  \/ \E v \in Page, x \in Val : UserStore(p, v, x)
  \/ "out" \in Calls /\ \E v \in Page, x \in Val : SyscallOut(p, v, x)
  \/ "sbrk" \in Calls /\ \E n \in 1..NPages : SbrkGrow(p, n) \/ SbrkShrink(p, n)
  \/ \E g \in Programs : Exec(p, g)
  \/ Fork(p)
  \/ Exit(p)
  \/ \E c \in Slot : Wait(p, c)

Kernel(p) ==
  \/ KfreeDec(p) \/ KfreePush(p)
  \/ CowCopy(p) \/ CowSet(p) \/ OutWrite(p)
  \/ Unmap(p) \/ UnmapDone(p) \/ Freewalk(p)
  \/ FreeTrapframe(p) \/ FreeSlot(p) \/ Freeproc(p)
  \/ AllocTrapframe(p) \/ AllocTop(p)
  \/ UvmcopyShare(p) \/ UvmcopyMap(p) \/ ForkEnd(p)
  \/ UvmallocPage(p) \/ UvmallocMap(p) \/ SbrkEnd(p) \/ ExecBad(p) \/ ExecEnd(p)

Next == \E p \in Slot : User(p) \/ Kernel(p)

Spec == Init /\ [][Next]_vars

-----------------------------------------------------------------------------
(* Properties.                                                             *)

Head1(p) == IF k[p].todo = <<>> THEN "user" ELSE Head(k[p].todo)

\* Entries still in the table although the kernel thread about to rewrite them has
\* already given up its reference.
Dropped ==
  {<<k[p].as, k[p].i>> : p \in {q \in Slot : /\ Head1(q) \in {"push", "cow_set"}
                                           /\ k[q].i < NPages
                                           /\ k[q].old = pt[k[q].as][k[q].i].pa}}

\* The entries in force.
Entries == {e \in Space \X Page : pt[e[1]][e[2]].v} \ Dropped

\* Kernel threads that hold a reference to f that is in no page table: a new page
\* not yet mapped, uvmcopy's count for the child, a new page being given back.
Holders(f) ==
  {p \in Slot : \/ k[p].hand = f
                \/ Head1(p) = "uvmcopy_map" /\ pt[Mine(p)][k[p].i].pa = f
                \/ Head1(p) = "dec" /\ k[p].todo[2] = "unmap" /\ k[p].old = f}

\* How many references there are to each page.
References ==
  LET entries == Entries IN
  [f \in Frame |-> Cardinality({e \in entries : pt[e[1]][e[2]].pa = f})
                     + Cardinality(Holders(f))]

\* The reference count of a user page covers the page-table entries and kernel
\* threads that refer to it, so that kfree cannot release a page in use, whatever
\* faults, forks, exits and failed allocations are going on at the same time.
CountCoversReferences ==
  LET refs == References IN
  \A f \in Frame : refs[f] <= reference_count[f] /\ (f \in freelist => refs[f] = 0)

\* The reference count is exact: no page is lost ("frees any allocated pages on
\* failure", uvmcopy's comment).
CountExact == reference_count = References

\* A page that some entry maps writable has no other reference: a store through
\* that entry changes the memory of one process only.
WritableIsPrivate ==
  LET refs == References IN
  \A e \in Entries : pt[e[1]][e[2]].w => refs[pt[e[1]][e[2]].pa] = 1

\* copyout never writes into a page that another process maps ("the modifications
\* will be done on the copy of pages by that process", README).
CopyoutWritesPrivate ==
  \A p \in Slot : Head1(p) = "out_write" => References[pt[k[p].as][k[p].i].pa] = 1

\* The memory process p sees, for the abstract specification.
None == -2

View(p, v) ==
  LET pte == pt[Mine(p)][v]
      copied == k[p].hand # NoFrame /\ k[p].i = v /\ k[p].as = Mine(p)
                  /\ Head1(p) \in {"dec", "push", "cow_set"}
  IN IF pstate[p] # "ALIVE" \/ ~pte.v THEN None
     ELSE IF copied THEN mem[k[p].hand]
     ELSE mem[pte.pa]

Private == INSTANCE PrivateMemory
  WITH Proc <- Slot, image <- [p \in Slot |-> [v \in Page |-> View(p, v)]]

\* Copy-on-write fork implements private memories: sharing pages is invisible.
ImplementsPrivateMemory == Private!Spec
=============================================================================
