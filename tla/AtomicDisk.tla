----------------------------- MODULE AtomicDisk -----------------------------
(***************************************************************************)
(* What the logging layer promises (kernel/log.c, opening comment): file   *)
(* system calls read and write the current contents of the blocks; now and *)
(* then, when no call is under way, all of the current contents become     *)
(* stable at once; a crash takes the disk back to the stable contents.  So *)
(* a crash never leaves a part of a call's writes, nor a call without one  *)
(* that it could have seen.                                                *)
(***************************************************************************)
CONSTANTS
  Proc,    \* processes
  Block,   \* home blocks
  Val      \* contents of a block

VARIABLES
  stable,    \* [Block -> Val]: what the next boot finds
  current,   \* [Block -> Val]: what system calls see
  active     \* the processes inside a file system call

Init == /\ stable \in [Block -> Val]
        /\ current = stable
        /\ active = {}

Begin(p) == /\ p \notin active
            /\ active' = active \cup {p}
            /\ UNCHANGED <<stable, current>>

Write(p, b, x) == /\ p \in active
                  /\ current' = [current EXCEPT ![b] = x]
                  /\ UNCHANGED <<stable, active>>

End(p) == /\ p \in active
          /\ active' = active \ {p}
          /\ UNCHANGED <<stable, current>>

Commit == /\ active = {}
          /\ stable' = current
          /\ UNCHANGED <<current, active>>

Crash == /\ current' = stable
         /\ active' = {}
         /\ UNCHANGED stable

Next == \/ \E p \in Proc : Begin(p) \/ End(p) \/ \E b \in Block, x \in Val : Write(p, b, x)
        \/ Commit
        \/ Crash

Spec == Init /\ [][Next]_<<stable, current, active>>
=============================================================================
