---------------------------- MODULE MCFileSystem ----------------------------
(***************************************************************************)
(* The two halves of the file system on small instances: inodes,           *)
(* directories and path names (Inodes), and the blocks of files            *)
(* (FileData).  A behaviour is one of the one or of the other.             *)
(***************************************************************************)
EXTENDS MCInodes

CONSTANTS f1, f2, h1

VARIABLES
  part,       \* "inodes" or "data"
  used, cell, inode, data_dinode, lock, off, data_st, got, data_calls

data == <<used, cell, inode, data_dinode, lock, off, data_st, got, data_calls>>

\* Two files, f1 opened twice (f1, h1) and f2 once, on a disk too small for both.
Data == INSTANCE FileData WITH
  File <- {f1, f2}, Handle <- {f1, f2, h1},
  FileOf <- f1 :> f1 @@ f2 :> f2 @@ h1 :> f1, ByteOf <- f1 :> 1 @@ f2 :> 2 @@ h1 :> 3,
  NBlocks <- 4, BSIZE <- 2, NDIRECT <- 1, MaxChunk <- 2, Width <- 4, Counts <- {3, 15}, MaxCalls <- 4,
  dinode <- data_dinode, st <- data_st, calls <- data_calls

-----------------------------------------------------------------------------
\* The half that is not looked at stays where it is.
MCInit ==
  /\ Init /\ Data!Init
  /\ \/ part = "inodes"
     \/ part = "data" /\ dinode = Image("file").dinode /\ cwd = [p \in Proc |-> ROOTINO]

MCNext ==
  \/ part = "inodes" /\ Next /\ UNCHANGED <<data, part>>
  \/ part = "data" /\ Data!Next /\ UNCHANGED <<vars, part>>

MCSpec == MCInit /\ [][MCNext]_<<vars, data, part>>

\* The blocks of the files are disjoint, marked in the bitmap and not lost (balloc, bmap, itrunc and
\* writei of fs.c), and no file has holes: see FileData.
BlocksOwned == Data!BlocksOwned

\* fileread and filewrite read and write a sequence of bytes: see FileData.
ImplementsFileStore == Data!ImplementsFileStore
=============================================================================
