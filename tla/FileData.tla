------------------------------ MODULE FileData ------------------------------
(***************************************************************************)
(* The blocks of a file: balloc, bfree, bmap, itrunc, readi and writei of  *)
(* kernel/fs.c, called by fileread and filewrite of kernel/file.c and, for *)
(* O_TRUNC, by sys_open.                                                   *)
(*                                                                         *)
(* A block is BSIZE cells; a cell holds a byte or, in an indirect block, a *)
(* block number, so that a block used for both at once would show.  A step *)
(* is what a call does with one block: two processes take blocks from and  *)
(* give blocks back to one bitmap in any order.                            *)
(***************************************************************************)
EXTENDS Integers, Sequences, FiniteSets, FiniteSetsExt

CONSTANTS
  Proc,      \* processes
  Nobody,    \* no process
  File,      \* inodes
  Handle,    \* struct files
  FileOf,    \* the inode each struct file is on
  ByteOf,    \* the byte that is written through each struct file, not 0
  NBlocks,   \* data blocks on the disk
  BSIZE,     \* cells in a block
  NDIRECT,   \* block numbers in an inode
  MaxChunk,  \* "max" of filewrite: bytes written in one transaction
  Width,     \* bits of an unsigned int
  Counts,    \* byte counts of read and write calls
  MaxCalls   \* bound: calls

NINDIRECT == BSIZE
MAXFILE == NDIRECT + NINDIRECT
Block == 1..NBlocks
None == 0
Wrap(n) == n % 2^Width

VARIABLES
  used,      \* the bitmap: blocks in use
  cell,      \* the blocks
  inode,     \* addrs and size of each inode in memory
  dinode,    \* and on disk
  lock,      \* who holds the lock of each inode
  off,       \* f->off of each struct file
  st,        \* what each process is doing
  got,       \* what the last read returned
  calls      \* number of calls made

blocks == <<used, cell>>
vars == <<used, cell, inode, dinode, lock, off, st, got, calls>>

Idle == [pc |-> "idle"]

EmptyInode == [addrs |-> [k \in 0..NDIRECT |-> None], size |-> 0]

Zeroed == [k \in 0..BSIZE - 1 |-> 0]

Init ==
  /\ used = {}
  /\ cell = [b \in Block |-> Zeroed]
  /\ inode = [f \in File |-> EmptyInode]
  /\ dinode = inode
  /\ lock = [f \in File |-> Nobody]
  /\ off = [h \in Handle |-> 0]
  /\ st = [p \in Proc |-> Idle]
  /\ got = <<>>
  /\ calls = 0

-----------------------------------------------------------------------------
(* Blocks.  disk is a record [used, cell, ip]: the bitmap, the blocks and    *)
(* the inode at work.                                                      *)

\* balloc takes the first free block and zeroes it; None when there is none.
FirstFree(u) == IF Block \subseteq u THEN None ELSE Min(Block \ u)

\* Mutant: balloc does not zero the block.
BallocDirty(disk) ==
  LET b == FirstFree(disk.used)
  IN  IF b = None THEN disk ELSE [disk EXCEPT !.used = @ \cup {b}]

Balloc(disk) ==
  LET b == FirstFree(disk.used)
  IN  IF b = None THEN disk ELSE [disk EXCEPT !.used = @ \cup {b}, !.cell[b] = Zeroed]

\* bmap for the first NDIRECT blocks: allocate the block unless there is one.
BmapDirect(disk, bn) ==
  IF disk.ip.addrs[bn] # None
    THEN disk
    ELSE [Balloc(disk) EXCEPT !.ip.addrs[bn] = FirstFree(disk.used)]

\* bmap for the others: the indirect block, then the block its entry names.
BmapIndirect(disk, bn) ==
  LET d == BmapDirect(disk, NDIRECT)
      table == d.ip.addrs[NDIRECT]
  IN  IF table = None \/ d.cell[table][bn - NDIRECT] # None
        THEN d
        ELSE LET b == FirstFree(d.used)
             IN  IF b = None THEN d ELSE [Balloc(d) EXCEPT !.cell[table][bn - NDIRECT] = b]

Bmap(disk, bn) == IF bn < NDIRECT THEN BmapDirect(disk, bn) ELSE BmapIndirect(disk, bn)

\* The block bmap returns, once it has run; None if the disk was full.
BlockAt(disk, bn) ==
  IF bn < NDIRECT
    THEN disk.ip.addrs[bn]
    ELSE LET table == disk.ip.addrs[NDIRECT]
         IN  IF table = None THEN None ELSE disk.cell[table][bn - NDIRECT]

Disk(f) == [used |-> used, cell |-> cell, ip |-> inode[f]]

\* The byte at an offset below the size of the file.
ByteAt(f, o) == cell[BlockAt(Disk(f), o \div BSIZE)][o % BSIZE]

-----------------------------------------------------------------------------
(* fileread.                                                               *)

\* readi: how many bytes there are to read, with the arithmetic of an uint.
ReadCount(size, o, n) ==
  CASE o > size \/ Wrap(o + n) < o -> 0
    [] o <= size /\ Wrap(o + n) >= o -> IF Wrap(o + n) > size THEN size - o ELSE n

\* ilock, readi, f->off += r, iunlock.  (A failing either_copyout makes r -1: nothing changes.)
FileRead(p, h, n) ==
  LET f == FileOf[h]
      r == ReadCount(inode[f].size, off[h], n)
  IN  /\ st[p].pc = "idle"
      /\ calls < MaxCalls
      /\ lock[f] = Nobody
      /\ got' = [k \in 1..r |-> ByteAt(f, off[h] + k - 1)]
      /\ off' = [off EXCEPT ![h] = @ + r]
      /\ calls' = calls + 1
      /\ UNCHANGED <<blocks, inode, dinode, lock, st>>

-----------------------------------------------------------------------------
(* filewrite.                                                              *)

\* filewrite of n bytes, in chunks of at most MaxChunk.
FileWrite(p, h, n) ==
  /\ st[p].pc = "idle"
  /\ calls < MaxCalls
  /\ st' = [st EXCEPT ![p] = [pc |-> "chunk", h |-> h, left |-> n]]
  /\ calls' = calls + 1
  /\ UNCHANGED <<blocks, inode, dinode, lock, off, got>>

ChunkSize(p) == Min({st[p].left, MaxChunk})

\* ilock and the checks of writei, which returns -1 with nothing written.
WriteiRefused(p) ==
  LET s == st[p]
      f == FileOf[s.h]
      o == off[s.h]
  IN  /\ s.pc = "chunk"
      /\ lock[f] = Nobody
      /\ o > inode[f].size \/ Wrap(o + ChunkSize(p)) < o \/ o + ChunkSize(p) > MAXFILE * BSIZE
      /\ st' = [st EXCEPT ![p] = Idle]
      /\ UNCHANGED <<blocks, inode, dinode, lock, off, got, calls>>

WriteiStart(p) ==
  LET s == st[p]
      f == FileOf[s.h]
      o == off[s.h]
  IN  /\ s.pc = "chunk"
      /\ lock[f] = Nobody
      /\ o <= inode[f].size
      /\ Wrap(o + ChunkSize(p)) >= o
      /\ o + ChunkSize(p) <= MAXFILE * BSIZE
      /\ lock' = [lock EXCEPT ![f] = p]
      /\ st' = [st EXCEPT ![p] = [pc |-> "block", h |-> s.h, left |-> s.left,
                                  n |-> ChunkSize(p), tot |-> 0]]
      /\ UNCHANGED <<blocks, inode, dinode, off, got, calls>>

\* One turn of the loop of writei: bmap, and the bytes that go in that block.
\* either_copyin may fail with some of them copied, which ends the loop.
WriteiBlock(p) ==
  LET s == st[p]
      f == FileOf[s.h]
      o == off[s.h] + s.tot
      disk == Bmap(Disk(f), o \div BSIZE)
      b == BlockAt(disk, o \div BSIZE)
      m == Min({s.n - s.tot, BSIZE - (o % BSIZE)})
      Copied(j) == [disk.cell EXCEPT ![b] = [k \in DOMAIN @ |->
                      IF k \in (o % BSIZE)..((o % BSIZE) + j - 1) THEN ByteOf[s.h] ELSE @[k]]]
  IN  /\ s.pc = "block"
      /\ used' = disk.used
      /\ inode' = [inode EXCEPT ![f] = disk.ip]
      /\ \/ /\ b = None
            /\ cell' = disk.cell
            /\ st' = [st EXCEPT ![p].pc = "iupdate"]
         \/ /\ b # None
            /\ \E j \in 0..m - 1 : cell' = Copied(j)
            /\ st' = [st EXCEPT ![p].pc = "iupdate"]
         \/ /\ b # None
            /\ cell' = Copied(m)
            /\ st' = [st EXCEPT ![p].tot = @ + m, ![p].pc = IF s.tot + m < s.n THEN "block" ELSE "iupdate"]
      /\ UNCHANGED <<dinode, lock, off, got, calls>>

\* Mutant: writei calls iupdate only when the size has changed.
WriteiEndIfLonger(p) ==
  LET s == st[p]
      f == FileOf[s.h]
      o == off[s.h] + s.tot
      left == s.left - s.tot
  IN  /\ s.pc = "iupdate"
      /\ inode' = [inode EXCEPT ![f].size = IF o > @ THEN o ELSE @]
      /\ dinode' = IF o > inode[f].size THEN [dinode EXCEPT ![f] = inode'[f]] ELSE dinode
      /\ off' = [off EXCEPT ![s.h] = o]
      /\ lock' = [lock EXCEPT ![f] = Nobody]
      /\ st' = [st EXCEPT ![p] = IF s.tot = s.n /\ left > 0
                                   THEN [pc |-> "chunk", h |-> s.h, left |-> left]
                                   ELSE Idle]
      /\ UNCHANGED <<blocks, got, calls>>

\* The rest of writei, and of the turn of filewrite: the size, iupdate, f->off,
\* iunlock; a short write ends the call.
WriteiEnd(p) ==
  LET s == st[p]
      f == FileOf[s.h]
      o == off[s.h] + s.tot
      left == s.left - s.tot
  IN  /\ s.pc = "iupdate"
      /\ inode' = [inode EXCEPT ![f].size = IF o > @ THEN o ELSE @]
      /\ dinode' = [dinode EXCEPT ![f] = inode'[f]]
      /\ off' = [off EXCEPT ![s.h] = o]
      /\ lock' = [lock EXCEPT ![f] = Nobody]
      /\ st' = [st EXCEPT ![p] = IF s.tot = s.n /\ left > 0
                                   THEN [pc |-> "chunk", h |-> s.h, left |-> left]
                                   ELSE Idle]
      /\ UNCHANGED <<blocks, got, calls>>

-----------------------------------------------------------------------------
(* The last close of a file and the next open of it.                       *)

\* The last descriptor of a struct file is closed and the file opened again.  If
\* no other struct file is on the inode, its entry of the inode table has been
\* recycled and ilock reads it from the disk; with O_TRUNC the lock is kept for
\* itrunc.
Reopen(p, h, trunc) ==
  LET f == FileOf[h]
  IN  /\ st[p].pc = "idle"
      /\ calls < MaxCalls
      /\ lock[f] = Nobody
      /\ \A q \in Proc : st[q].pc # "idle" => st[q].h # h
      /\ inode' = [inode EXCEPT ![f] = IF \E i \in Handle \ {h} : FileOf[i] = f THEN @ ELSE dinode[f]]
      /\ off' = [off EXCEPT ![h] = 0]
      /\ lock' = IF trunc THEN [lock EXCEPT ![f] = p] ELSE lock
      /\ st' = IF trunc THEN [st EXCEPT ![p] = [pc |-> "trunc", h |-> h]] ELSE st
      /\ calls' = calls + 1
      /\ UNCHANGED <<blocks, dinode, got>>

\* itrunc: bfree of the direct blocks.
TruncDirect(p) ==
  LET f == FileOf[st[p].h]
  IN  /\ st[p].pc = "trunc"
      /\ used' = used \ {inode[f].addrs[k] : k \in 0..NDIRECT - 1}
      /\ inode' = [inode EXCEPT ![f].addrs = [k \in DOMAIN @ |-> IF k < NDIRECT THEN None ELSE @[k]]]
      /\ st' = [st EXCEPT ![p].pc = "trunc_indirect"]
      /\ UNCHANGED <<cell, dinode, lock, off, got, calls>>

\* The blocks the indirect block names, read from it.
Listed(f) == {cell[inode[f].addrs[NDIRECT]][k] : k \in 0..NINDIRECT - 1} \ {None}

\* bfree of each of them, then of the indirect block; size = 0, iupdate, iunlock.
TruncIndirect(p) ==
  LET f == FileOf[st[p].h]
      table == inode[f].addrs[NDIRECT]
  IN  /\ st[p].pc = "trunc_indirect"
      /\ used' = IF table = None THEN used ELSE used \ (Listed(f) \cup {table})
      /\ inode' = [inode EXCEPT ![f] = EmptyInode]
      /\ dinode' = [dinode EXCEPT ![f] = EmptyInode]
      /\ lock' = [lock EXCEPT ![f] = Nobody]
      /\ st' = [st EXCEPT ![p] = Idle]
      /\ UNCHANGED <<cell, off, got, calls>>

Quiet == \A p \in Proc : st[p].pc = "idle"

Done == calls = MaxCalls /\ Quiet /\ UNCHANGED vars

Next ==
  \/ \E p \in Proc :
       \/ \E h \in Handle, n \in Counts : FileRead(p, h, n)
       \/ \E h \in Handle, n \in Counts : n < 2^(Width - 1) /\ FileWrite(p, h, n)
       \/ WriteiRefused(p) \/ WriteiStart(p) \/ WriteiBlock(p) \/ WriteiEnd(p)
       \/ \E h \in Handle, trunc \in BOOLEAN : Reopen(p, h, trunc)
       \/ TruncDirect(p) \/ TruncIndirect(p)
  \/ Done

Spec == Init /\ [][Next]_vars

-----------------------------------------------------------------------------
(* Properties.                                                             *)

\* The places that name a block: where[f, k] for the addresses of an inode and
\* the entries of its indirect block.
Places(ino) ==
  LET direct == {<<f, k>> : f \in File, k \in 0..NDIRECT}
      listed == {<<f, NDIRECT + 1 + k>> : f \in {g \in File : ino[g].addrs[NDIRECT] # None}, k \in 0..NINDIRECT - 1}
  IN  direct \cup listed

Named(ino, w) ==
  IF w[2] <= NDIRECT THEN ino[w[1]].addrs[w[2]]
                     ELSE cell[ino[w[1]].addrs[NDIRECT]][w[2] - NDIRECT - 1]

\* Every byte below the size of a file is in a block.
NoHoles ==
  \A f \in File : lock[f] = Nobody =>
    \A o \in 0..inode[f].size - 1 : BlockAt(Disk(f), o \div BSIZE) # None

\* No two places name the same block, so a write to one file cannot reach
\* another; every block named is marked in the bitmap; and between calls every
\* block marked there is named, by the inode on disk too: balloc failing half
\* way, a failed copy or a recycled inode loses none.  And no file has holes, so
\* the bmap in readi never allocates a block outside a transaction.
BlocksOwned ==
  LET Owned(ino) == {Named(ino, w) : w \in Places(ino)} \ {None}
  IN  /\ \A w1, w2 \in Places(inode) :
           (w1 # w2 /\ Named(inode, w1) # None) => Named(inode, w1) # Named(inode, w2)
      /\ \A f \in File : (\A p \in Proc : lock[f] = p => st[p].pc # "trunc_indirect")
           => {Named(inode, w) : w \in {x \in Places(inode) : x[1] = f}} \subseteq used \cup {None}
      /\ Quiet => Owned(dinode) = used
      /\ NoHoles

\* The bytes of a file; a file that is being truncated has none.
Content ==
  [f \in File |->
     IF lock[f] # Nobody /\ st[lock[f]].pc \in {"trunc", "trunc_indirect"}
       THEN <<>>
       ELSE [k \in 1..inode[f].size |-> ByteAt(f, k - 1)]]

Abstract == INSTANCE FileStore WITH content <- Content, MaxSize <- MAXFILE * BSIZE

\* Reading and writing through blocks, indirect blocks and chunks is reading
\* and writing a sequence of bytes: no read returns a byte that was not written
\* at that place of that file, and no file changes but the one written.
ImplementsFileStore == Abstract!Spec
=============================================================================
