--------------------------- MODULE PrivateMemory ----------------------------
(***************************************************************************)
(* What fork promises (README, "Copy on Write Fork"): every process has a  *)
(* memory of its own.  A step changes the memory of one process only, and  *)
(* a new process starts with a copy of its parent's.                       *)
(***************************************************************************)
EXTENDS Integers

CONSTANTS
  Proc,   \* processes
  Page,   \* user pages
  Val,    \* contents of a page; 0 is all zeroes
  None    \* not mapped

VARIABLE image   \* [Proc -> [Page -> Val \cup {None}]]

Empty == [v \in Page |-> None]

Init == \E p \in Proc, v \in Page :
  image = [q \in Proc |-> [u \in Page |-> IF q = p /\ u = v THEN 0 ELSE None]]

\* A store instruction or a system call of p writes x to its page v.
Store(p, v, x) ==
  /\ image[p][v] # None
  /\ image' = [image EXCEPT ![p][v] = x]

\* sbrk gives p a zeroed page or takes a page away.
AddPage(p, v) ==
  /\ image[p][v] = None
  /\ image' = [image EXCEPT ![p][v] = 0]

DropPage(p, v) ==
  /\ image[p][v] # None
  /\ image' = [image EXCEPT ![p][v] = None]

\* fork: c starts with what p has.
Fork(p, c) ==
  /\ image[c] = Empty
  /\ image' = [image EXCEPT ![c] = image[p]]

\* exec: a fresh image.
Exec(p) ==
  \E pages \in SUBSET Page :
    image' = [image EXCEPT ![p] = [v \in Page |-> IF v \in pages THEN 0 ELSE None]]

Exit(p) == image' = [image EXCEPT ![p] = Empty]

Next ==
  \E p \in Proc :
    \/ \E v \in Page : AddPage(p, v) \/ DropPage(p, v) \/ \E x \in Val : Store(p, v, x)
    \/ \E c \in Proc : Fork(p, c)
    \/ Exec(p)
    \/ Exit(p)

Spec == Init /\ [][Next]_image
=============================================================================
