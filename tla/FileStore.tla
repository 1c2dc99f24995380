------------------------------ MODULE FileStore ------------------------------
(***************************************************************************)
(* What reading and writing promise to a program: a file is a sequence of  *)
(* bytes, an open file has an offset, and files do not disturb each other. *)
(***************************************************************************)
EXTENDS Integers, Sequences

CONSTANTS
  File,      \* files
  Handle,    \* open files
  FileOf,    \* the file each open file is on
  ByteOf,    \* the byte that is written through each open file
  MaxSize    \* the largest size of a file

VARIABLES
  content,   \* the bytes of each file
  off,       \* the offset of each open file
  got        \* what the last read returned

vars == <<content, off, got>>

Larger(a, b) == IF a > b THEN a ELSE b
Smaller(a, b) == IF a < b THEN a ELSE b

Init ==
  /\ content = [f \in File |-> <<>>]
  /\ off = [h \in Handle |-> 0]
  /\ got = <<>>

\* A write on its way changes bytes the file has already, from the offset on.
Overwrite(h) ==
  LET f == FileOf[h]
  IN  /\ UNCHANGED <<off, got>>
      /\ DOMAIN content'[f] = DOMAIN content[f]
      /\ \A k \in DOMAIN content[f] :
           content'[f][k] = content[f][k] \/ (k > off[h] /\ content'[f][k] = ByteOf[h])
      /\ \A g \in File \ {f} : content'[g] = content[g]

\* A write of n bytes at the offset ends: the file has those bytes there, and is as it was
\* before and after them.
EndWrite(h, n) ==
  LET f == FileOf[h]
      old == content[f]
  IN  /\ off' = [off EXCEPT ![h] = @ + n]
      /\ off[h] <= Len(old)
      /\ content' = [content EXCEPT ![f] =
           [k \in 1..Larger(Len(old), off[h] + n) |-> IF k > off[h] /\ k <= off[h] + n THEN ByteOf[h] ELSE old[k]]]
      /\ UNCHANGED got

\* A read returns the bytes from the offset on, up to the end of the file.
Read(h, n) ==
  LET c == content[FileOf[h]]
  IN  /\ UNCHANGED content
      /\ got' = SubSeq(c, off[h] + 1, Smaller(Len(c), off[h] + n))
      /\ off' = [off EXCEPT ![h] = @ + Len(got')]

\* open starts at the beginning; with O_TRUNC it empties the file first.
Open(h, trunc) ==
  /\ content' = IF trunc THEN [content EXCEPT ![FileOf[h]] = <<>>] ELSE content
  /\ off' = [off EXCEPT ![h] = 0]
  /\ UNCHANGED got

Next ==
  \/ \E h \in Handle : Overwrite(h)
  \/ \E h \in Handle, n \in 0..MaxSize : EndWrite(h, n)
  \/ \E h \in Handle, n \in 0..MaxSize : Read(h, n)
  \/ \E h \in Handle, trunc \in BOOLEAN : Open(h, trunc)

Spec == Init /\ [][Next]_vars
=============================================================================
