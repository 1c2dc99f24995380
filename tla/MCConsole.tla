----------------------------- MODULE MCConsole ------------------------------
(***************************************************************************)
(* The console, and the locks it takes, on small instances.  Module        *)
(* Console takes a critical section for one step: what the locks must      *)
(* promise for that is checked beside it, in module Spinlock.  A behaviour *)
(* is one of the one or of the other.                                      *)
(***************************************************************************)
EXTENDS Console, Spinlock, TLC

CONSTANTS p1, p2

VARIABLE part      \* "console" or "locks"

\* A writer, and a reader that reads a line in two calls.
MCPrograms == { p1 :> << <<"write", <<"a", "b">> >> >> @@ p2 :> << <<"read", 2>>, <<"read", 1>> >> }

\* Lines that fill the buffer, are erased in part or whole, and end in all ways.
Line1 == <<"x", "x", "x">>

MCTyped == { Line1, <<"x", "\r", "^H">>, <<"\r", "x", "^U">>, <<"x", "^D", "^D">>, <<"x", "x", "^U">> }

-----------------------------------------------------------------------------
\* The part that is not looked at stays where it is.
MCInit ==
  /\ ConsInit /\ SpinInit
  /\ part \in {"console", "locks"}
  /\ part = "locks" => typed = Line1

InConsole == part = "console" /\ ConsStep /\ UNCHANGED <<spin, part>>

MCNext ==
  \/ part = "console" /\ ConsNext /\ UNCHANGED <<spin, part>>
  \/ part = "locks" /\ SpinNext /\ UNCHANGED <<console, part>>

\* The fairness of ConsSpec, for the console.
MCSpec == MCInit /\ [][MCNext]_<<console, spin, part>> /\ WF_console(InConsole)
=============================================================================
