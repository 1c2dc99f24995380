---------------------------- MODULE MCCowMemory -----------------------------
(***************************************************************************)
(* Small instances of CowMemory: the shape of the page tables and the      *)
(* programs there are to exec.                                             *)
(***************************************************************************)
EXTENDS CowMemory

\* All user pages are below one leaf table, as in a small process.
OneLeaf == [v \in Page |-> {0}]

\* What exec builds: text, then the guard page below the stack, then the stack.
TextGuardStack == {<<"text", "guard", "data">>}

\* The part of a program that two processes can both write after a fork.
DataOnly == {<<"data">>}
=============================================================================
