------------------------------ MODULE MCMemory ------------------------------
(***************************************************************************)
(* Memory on small instances: the allocator by itself (Kalloc), and the    *)
(* address spaces of two processes that run out of it (CowMemory).  A      *)
(* behaviour is one of the one or of the other.                            *)
(***************************************************************************)
EXTENDS Kalloc

VARIABLES
  part,       \* "allocator" or "processes"
  pages, nfree, counts, mem, pt, low, tabs, cur, tf, sz, pstate, killed, parent, wait_lock, k

cow == <<pages, nfree, counts, mem, pt, low, tabs, cur, tf, sz, pstate, killed, parent, wait_lock, k>>

\* Every page needs a leaf table of its own, so that fork can fail at every page; what exec builds is cut to
\* two pages at a time, text and stack or guard and stack.
Cow == INSTANCE CowMemory WITH
  NFrames <- 11, NProc <- 2, NPages <- 2, Path <- [v \in 0..1 |-> {v}], TopTables <- 2, Val <- {0},
  Programs <- {<<"text", "data">>, <<"guard", "data">>}, Calls <- {"sbrk", "out"}, MaxRef <- 3,
  freelist <- pages, reference_count <- counts

-----------------------------------------------------------------------------
\* The part that is not looked at stays where it is.
MCInit == Init /\ Cow!Init /\ part \in {"allocator", "processes"}

\* The processes may all exit or stop at the bound on references; the allocator may not stop.
Stopped == part = "processes" /\ UNCHANGED <<vars, cow, part>>

MCNext ==
  \/ part = "allocator" /\ Next /\ UNCHANGED <<cow, part>>
  \/ part = "processes" /\ Cow!Next /\ UNCHANGED <<vars, part>>
  \/ Stopped

MCSpec == MCInit /\ [][MCNext]_<<vars, cow, part>>

\* The reference count of a page covers the references to it, whatever fork, exec, sbrk, exit and page
\* faults (vm.c, trap.c) do at the same time and whichever allocation fails: see CowMemory.
CountCoversReferences == Cow!CountCoversReferences

\* A page mapped writable has no other reference (uvmcopy of vm.c, usertrap of trap.c): see CowMemory.
WritableIsPrivate == Cow!WritableIsPrivate
=============================================================================
