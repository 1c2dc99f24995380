------------------------------ MODULE MCInodes ------------------------------
(* Inodes on a disk of three or four inodes: the root directory, /d, /d/f.    *)
EXTENDS Inodes, TLC

Symmetry == Permutations(Proc)

Call(op, path) == [op |-> op, path |-> path, new |-> <<>>]

D == <<"/", "d">>
F == <<"/", "d", "/", "f">>

\* The file system with root, the directory /d (inode 2) and /d/f (inode 3), a
\* file or a directory; the other inodes are free.
Image(type) ==
  [dinode |-> [i \in Inum |-> CASE i = 1 -> [type |-> "dir", nlink |-> 2]
                                [] i = 2 -> [type |-> "dir", nlink |-> IF type = "dir" THEN 2 ELSE 1]
                                [] i = 3 -> [type |-> type, nlink |-> 1]
                                [] OTHER -> [type |-> "none", nlink |-> 0]],
   ents |-> [i \in Inum |-> CASE i = 1 -> DotEntries(1, 1) \o <<Entry("d", 2)>>
                              [] i = 2 -> DotEntries(2, 1) \o <<Entry("f", 3)>>
                              [] i = 3 /\ type = "dir" -> DotEntries(3, 2)
                              [] OTHER -> <<>>]]

MCImages == {Image("file"), Image("dir")}

MCCalls ==
  { Call("mkdir", F), Call("mknod", F), Call("create", F), Call("create", <<"f">>), Call("unlink", D),
    Call("unlink", F), Call("openw", <<"..">>), Call("chdir", <<"/">>),
    [op |-> "link", path |-> F, new |-> <<"/", "/", "f">>], [op |-> "link", path |-> F, new |-> D] }
=============================================================================
