----------------------------- MODULE BlockStore -----------------------------
(***************************************************************************)
(* What the buffer cache promises (the interface at the top of bio.c): a   *)
(* block has one content, whoever reads it; one process at a time uses it; *)
(* and only that process changes it.                                       *)
(***************************************************************************)
CONSTANTS Proc, Block, Val, Nobody

VARIABLES content, owner

Init == content \in [Block -> Val] /\ owner = [b \in Block |-> Nobody]

\* bread returns.
Acquire(p, b) ==
  /\ owner[b] = Nobody
  /\ owner' = [owner EXCEPT ![b] = p]
  /\ UNCHANGED content

\* The owner stores to b->data.
Change(p, b, v) ==
  /\ owner[b] = p
  /\ content' = [content EXCEPT ![b] = v]
  /\ UNCHANGED owner

\* brelse.
Release(p, b) ==
  /\ owner[b] = p
  /\ owner' = [owner EXCEPT ![b] = Nobody]
  /\ UNCHANGED content

Next == \E p \in Proc, b \in Block : Acquire(p, b) \/ Release(p, b) \/ \E v \in Val : Change(p, b, v)

Spec == Init /\ [][Next]_<<content, owner>>
=============================================================================
