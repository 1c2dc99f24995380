------------------------------- MODULE Inodes -------------------------------
(***************************************************************************)
(* Inodes, directories and path names: kernel/fs.c and the system calls of *)
(* kernel/sysfile.c that change them.                                      *)
(*                                                                         *)
(* An inode is on disk (dinode, with the entries of a directory in ents)   *)
(* and, while something points to it, in the inode table (itable).  A step *)
(* is what a call does from one ilock to the next, or one critical section *)
(* of itable.lock.  "todo" holds the iput calls a process still has to     *)
(* make, and the inode lock it gives up after them: iput is four steps     *)
(* when it frees the inode on disk.                                        *)
(*                                                                         *)
(* Blocks are the subject of FileData; here a directory that has to grow   *)
(* may find the disk full.  The log (module Log) makes a group of calls    *)
(* atomic: after a crash the disk is as it was when no call was under way. *)
(***************************************************************************)
EXTENDS Integers, Sequences, FiniteSets, SequencesExt, FiniteSetsExt

CONSTANTS
  Proc,       \* processes
  Nobody,     \* no process
  NInode,     \* inodes on disk (sb.ninodes - 1)
  NINODE,     \* entries of the inode table
  Images,     \* file systems to start from: records [dinode, ents]
  Calls,      \* the calls processes make: records [op, path, new]
  MaxCalls,   \* bound: calls made in all
  MaxCrashes  \* bound: crashes

Inum == 1..NInode
None == 0          \* inum 0, a null pointer
ROOTINO == 1

VARIABLES
  dinode,     \* on disk: type and nlink of each inode
  ents,       \* on disk: the entries of each directory, with free ones (inum 0)
  itable,     \* the inode table: ref, lock, valid and the copy of type and nlink
  cwd,        \* current directory of each process
  ofile,      \* the file each process has open (NOFILE is 1)
  st,         \* what each process is doing
  saved,      \* what a crash leaves of dinode and ents
  buried,     \* history: a directory without links has been given an entry
  panicked,   \* the kernel has panicked
  calls,      \* number of calls made
  crashes     \* number of crashes

disk == <<dinode, ents>>
files == <<cwd, ofile>>
rest == <<saved, buried, panicked, calls, crashes>>
vars == <<dinode, ents, itable, cwd, ofile, st, saved, buried, panicked, calls, crashes>>

Idle == [pc |-> "idle", op |-> "", path |-> <<>>, parent |-> FALSE, new |-> <<>>, name |-> "",
         ip |-> None, dp |-> None, old |-> None, todo |-> <<>>]

Entry(n, i) == [name |-> n, inum |-> i]

FreeEntry == Entry("", None)

Unused == [ref |-> 0, lock |-> Nobody, valid |-> FALSE, type |-> "none", nlink |-> 0]

\* The inode table when process p has current directory c[p] and nothing else
\* is in use.
Table(c) == [i \in Inum |-> [Unused EXCEPT !.ref = Cardinality({p \in Proc : c[p] = i})]]

Init ==
  /\ \E m \in Images :
       /\ dinode = m.dinode
       /\ ents = m.ents
       /\ cwd \in [Proc -> {i \in Inum : m.dinode[i].type = "dir"}]
  /\ itable = Table(cwd)
  /\ ofile = [p \in Proc |-> None]
  /\ st = [p \in Proc |-> Idle]
  /\ saved = disk
  /\ buried = FALSE
  /\ panicked = FALSE
  /\ calls = 0
  /\ crashes = 0

-----------------------------------------------------------------------------
(* The inode table.                                                        *)

\* Mutant: iget returns the entry it finds without counting the reference.
GetUncounted(t, i) == [t EXCEPT ![i].ref = IF @ = 0 THEN 1 ELSE @, ![i].valid = @ /\ t[i].ref > 0]

\* iget (of an inode in the table or not) and idup.
Get(t, i) == [t EXCEPT ![i].ref = @ + 1, ![i].valid = @ /\ t[i].ref > 0]

\* iget finds every entry of the table taken: panic("iget: no inodes").
GetOrPanic(t, i) ==
  /\ itable' = Get(t, i)
  /\ panicked' = (Cardinality({j \in Inum : itable'[j].ref > 0}) > NINODE)
  /\ UNCHANGED <<saved, buried, crashes>>

Unlocked(i) == itable[i].lock = Nobody

\* ilock: the entry is read from disk unless it is valid.
Locked(t, i, p) ==
  [t EXCEPT ![i].lock = p,
            ![i].valid = TRUE,
            ![i].type = IF t[i].valid THEN @ ELSE dinode[i].type,
            ![i].nlink = IF t[i].valid THEN @ ELSE dinode[i].nlink]

Release(t, i) == [t EXCEPT ![i].lock = Nobody]

\* iupdate, after a change of nlink.
WithLinks(t, i, n) == [t EXCEPT ![i].nlink = n]

Written(d, t, i) == [d EXCEPT ![i] = [type |-> t[i].type, nlink |-> t[i].nlink]]

At(p, l) == st[p].pc = l /\ st[p].todo = <<>> /\ ~panicked

\* ilock finds an inode that is free on disk: panic("ilock: no type").
NoType(i) == ~itable[i].valid /\ dinode[i].type = "none"

CanLock(i) == Unlocked(i) /\ ~NoType(i)

Put(i) == <<"put", i>>
Unlock(i) == <<"unlock", i>>

\* A call on its way out: what it still has to put and unlock before end_op.
Ending(todo) == [Idle EXCEPT !.pc = "end", !.todo = todo]

Ends(p, todo) == st' = [st EXCEPT ![p] = Ending(todo)]

-----------------------------------------------------------------------------
(* Directories.                                                            *)

\* dirlookup: the inode an entry of the directory names, or None.
DirLookup(es, n) ==
  LET k == SelectInSeq(es, LAMBDA e : e.inum # None /\ e.name = n)
  IN  IF k = 0 THEN None ELSE es[k].inum

\* dirlink, once no entry has the name: the first free entry is taken, or the
\* directory grows.
DirLink(es, n, i) ==
  LET k == SelectInSeq(es, LAMBDA e : e.inum = None)
  IN  IF k = 0 THEN Append(es, Entry(n, i)) ELSE [es EXCEPT ![k] = Entry(n, i)]

HasFreeEntry(es) == \E k \in DOMAIN es : es[k].inum = None

\* The entry sys_unlink overwrites with zeros.
DirClear(es, n) == [k \in DOMAIN es |-> IF es[k].name = n THEN FreeEntry ELSE es[k]]

\* All but the first two entries, . and .., are free.
IsDirEmpty(es) == \A k \in 3..Len(es) : es[k].inum = None

-----------------------------------------------------------------------------
(* iput.  "todo" starts with the call; its later steps replace it there.   *)

Todo(p, kind) == ~panicked /\ st[p].todo # <<>> /\ Head(st[p].todo)[1] = kind

TodoInode(p) == Head(st[p].todo)[2]

Done(p) == st' = [st EXCEPT ![p].todo = Tail(@)]

Becomes(p, kind) == st' = [st EXCEPT ![p].todo[1] = <<kind, @[2]>>]

\* Mutant: iput does not look at ref.
MustFreeUnlinked(i) == itable[i].valid /\ itable[i].nlink = 0

\* ref = 1, valid and no links: the last reference frees the inode on disk.
MustFree(i) == itable[i].ref = 1 /\ itable[i].valid /\ itable[i].nlink = 0

\* iput drops one of several references, or one to an inode that has links.
PutRef(p) ==
  /\ Todo(p, "put")
  /\ LET i == TodoInode(p)
     IN  /\ ~MustFree(i)
         /\ itable' = [itable EXCEPT ![i].ref = @ - 1]
  /\ Done(p)
  /\ UNCHANGED <<disk, files, rest>>

\* iput takes the lock of an inode it has to free, before it lets go of
\* itable.lock.
PutLast(p) ==
  /\ Todo(p, "put")
  /\ LET i == TodoInode(p)
     IN  /\ MustFree(i)
         /\ Unlocked(i)
         /\ itable' = Locked(itable, i, p)
  /\ Becomes(p, "free")
  /\ UNCHANGED <<disk, files, rest>>

\* itrunc, type = 0 and iupdate: from here ialloc may hand the inode out.
PutFree(p) ==
  /\ Todo(p, "free")
  /\ LET i == TodoInode(p)
     IN  /\ itable' = [itable EXCEPT ![i].type = "none"]
         /\ dinode' = Written(dinode, itable', i)
         /\ ents' = [ents EXCEPT ![i] = <<>>]
  /\ Becomes(p, "clear")
  /\ UNCHANGED <<files, rest>>

\* valid = 0 and releasesleep.
PutClear(p) ==
  /\ Todo(p, "clear")
  /\ itable' = [itable EXCEPT ![TodoInode(p)].valid = FALSE, ![TodoInode(p)].lock = Nobody]
  /\ Becomes(p, "drop")
  /\ UNCHANGED <<disk, files, rest>>

\* itable.lock again, and ref--.
PutDrop(p) ==
  /\ Todo(p, "drop")
  /\ itable' = [itable EXCEPT ![TodoInode(p)].ref = @ - 1]
  /\ Done(p)
  /\ UNCHANGED <<disk, files, rest>>

\* iunlock of an inode that a call keeps locked across an iput.
TodoUnlock(p) ==
  /\ Todo(p, "unlock")
  /\ itable' = Release(itable, TodoInode(p))
  /\ Done(p)
  /\ UNCHANGED <<disk, files, rest>>

-----------------------------------------------------------------------------
(* Path names.                                                             *)

\* What a call does with the inode namex returns.
AfterLookup(s) ==
  CASE s.op = "link" -> IF s.old = None THEN "link_ip" ELSE "link_dp"
    [] s.op = "unlink" -> "unlink_dp"
    [] s.op \in {"create", "mkdir", "mknod"} -> "create_dp"
    [] s.op \in {"open", "openw"} -> "open_ip"
    [] s.op = "chdir" -> "chdir_ip"

\* What it does when namex returns 0.
AfterFailure(s) == IF s.old = None THEN "end" ELSE "link_bad"

\* A path is a sequence of slashes and names.  skipelem: the next name and what
\* follows it, without the slashes around it.
SkipSlashes(path) ==
  LET k == SelectInSeq(path, LAMBDA c : c # "/")
  IN  IF k = 0 THEN <<>> ELSE SubSeq(path, k, Len(path))

Elem(path) == Head(SkipSlashes(path))

SkipElem(path) == SkipSlashes(Tail(SkipSlashes(path)))

NoElem(path) == SkipSlashes(path) = <<>>

\* The directory namex starts from: iget of the root, idup of cwd.
StartOf(p, path) == IF path # <<>> /\ Head(path) = "/" THEN ROOTINO ELSE cwd[p]

\* nameiparent stops one level early.
LastElem(s) == s.parent /\ SkipElem(s.path) = <<>>

\* A call that takes a path: begin_op and the first iget of namex.
Begin(p) ==
  /\ At(p, "idle")
  /\ calls < MaxCalls
  /\ calls' = calls + 1
  /\ \E c \in Calls :
       LET i == StartOf(p, c.path)
       IN  /\ GetOrPanic(itable, i)
           /\ st' = [st EXCEPT ![p] =
                [Idle EXCEPT !.pc = "walk", !.op = c.op, !.ip = i, !.path = c.path, !.new = c.new,
                             !.parent = c.op \in {"unlink", "create", "mkdir", "mknod"}]]
  /\ UNCHANGED <<disk, files>>

\* A path without names: namei returns where it starts, nameiparent fails.
WalkEmpty(p) ==
  LET s == st[p]
  IN  /\ At(p, "walk")
      /\ NoElem(s.path)
      /\ st' = [st EXCEPT ![p] =
           IF s.parent THEN [s EXCEPT !.pc = AfterFailure(s), !.ip = None, !.path = <<>>,
                                      !.todo = <<Put(s.ip)>>]
                       ELSE [s EXCEPT !.pc = AfterLookup(s), !.path = <<>>]]
      /\ UNCHANGED <<disk, itable, files, rest>>

\* The last directory, for nameiparent: iunlock and return it with the name.
WalkParent(p) ==
  LET s == st[p]
      t == Locked(itable, s.ip, p)
  IN  /\ At(p, "walk")
      /\ ~NoElem(s.path)
      /\ LastElem(s)
      /\ CanLock(s.ip)
      /\ t[s.ip].type = "dir"
      /\ itable' = Release(t, s.ip)
      /\ st' = [st EXCEPT ![p].pc = AfterLookup(s), ![p].name = Elem(s.path), ![p].path = <<>>,
                          ![p].ip = None, ![p].dp = s.ip]
      /\ UNCHANGED <<disk, files, rest>>

\* Mutant: namex unlocks the directory it fails in, without putting it.
WalkFailUnlock(p) ==
  LET s == st[p]
      t == Locked(itable, s.ip, p)
  IN  /\ At(p, "walk")
      /\ ~NoElem(s.path)
      /\ CanLock(s.ip)
      /\ \/ t[s.ip].type # "dir"
         \/ ~LastElem(s) /\ DirLookup(ents[s.ip], Elem(s.path)) = None
      /\ itable' = Release(t, s.ip)
      /\ st' = [st EXCEPT ![p].pc = AfterFailure(s), ![p].ip = None, ![p].path = <<>>]
      /\ UNCHANGED <<disk, files, rest>>

\* Not a directory, or no entry of that name: iunlockput and return 0.
WalkFail(p) ==
  LET s == st[p]
      t == Locked(itable, s.ip, p)
  IN  /\ At(p, "walk")
      /\ ~NoElem(s.path)
      /\ CanLock(s.ip)
      /\ \/ t[s.ip].type # "dir"
         \/ ~LastElem(s) /\ DirLookup(ents[s.ip], Elem(s.path)) = None
      /\ itable' = Release(t, s.ip)
      /\ st' = [st EXCEPT ![p].pc = AfterFailure(s), ![p].ip = None, ![p].path = <<>>,
                          ![p].todo = <<Put(s.ip)>>]
      /\ UNCHANGED <<disk, files, rest>>

\* dirlookup finds the next inode: iget it, iunlockput the directory; return it
\* if the path ends here.
WalkDown(p) ==
  LET s == st[p]
      t == Locked(itable, s.ip, p)
      next == DirLookup(ents[s.ip], Elem(s.path))
  IN  /\ At(p, "walk")
      /\ ~NoElem(s.path)
      /\ ~LastElem(s)
      /\ CanLock(s.ip)
      /\ t[s.ip].type = "dir"
      /\ next # None
      /\ GetOrPanic(Release(t, s.ip), next)
      /\ st' = [st EXCEPT ![p].path = SkipElem(@), ![p].ip = next, ![p].todo = <<Put(s.ip)>>,
                          ![p].pc = IF SkipElem(s.path) = <<>> THEN AfterLookup(s) ELSE "walk"]
      /\ UNCHANGED <<disk, files, calls>>

-----------------------------------------------------------------------------
(* sys_link.                                                               *)

\* The old name: no directories; one more link, and on to the new name.
LinkIp(p) ==
  LET i == st[p].ip
      t == Locked(itable, i, p)
      dir == t[i].type = "dir"
      start == StartOf(p, st[p].new)
  IN  /\ At(p, "link_ip")
      /\ CanLock(i)
      /\ IF dir
           THEN /\ itable' = Release(t, i)
                /\ Ends(p, <<Put(i)>>)
                /\ UNCHANGED <<dinode, rest>>
           ELSE /\ GetOrPanic(Release(WithLinks(t, i, t[i].nlink + 1), i), start)
                /\ dinode' = Written(dinode, itable', i)
                /\ st' = [st EXCEPT ![p].pc = "walk", ![p].old = i, ![p].ip = start, ![p].parent = TRUE,
                                    ![p].path = st[p].new, ![p].new = <<>>]
                /\ UNCHANGED calls
      /\ UNCHANGED <<ents, files>>

\* The new name is taken: dirlink gets and puts the inode it finds, with dp
\* locked, and fails.
LinkExists(p) ==
  LET s == st[p]
      found == DirLookup(ents[s.dp], s.name)
  IN  /\ At(p, "link_dp")
      /\ CanLock(s.dp)
      /\ found # None
      /\ GetOrPanic(Locked(itable, s.dp, p), found)
      /\ st' = [st EXCEPT ![p].pc = "link_bad", ![p].dp = None,
                          ![p].todo = <<Put(found), Unlock(s.dp), Put(s.dp)>>]
      /\ UNCHANGED <<disk, files, calls>>

\* dirlink writes the entry, or the directory cannot grow.
LinkEntry(p) ==
  LET s == st[p]
      t == Locked(itable, s.dp, p)
  IN  /\ At(p, "link_dp")
      /\ CanLock(s.dp)
      /\ DirLookup(ents[s.dp], s.name) = None
      /\ itable' = Release(t, s.dp)
      /\ \/ /\ ents' = [ents EXCEPT ![s.dp] = DirLink(@, s.name, s.old)]
            /\ buried' = (buried \/ t[s.dp].nlink = 0)
            /\ Ends(p, <<Put(s.dp), Put(s.old)>>)
         \/ /\ ~HasFreeEntry(ents[s.dp])
            /\ st' = [st EXCEPT ![p].pc = "link_bad", ![p].dp = None, ![p].todo = <<Put(s.dp)>>]
            /\ UNCHANGED <<ents, buried>>
      /\ UNCHANGED <<dinode, files, saved, panicked, calls, crashes>>

\* bad: the link counted in advance is taken back.
LinkBad(p) ==
  LET i == st[p].old
      t == Locked(itable, i, p)
  IN  /\ At(p, "link_bad")
      /\ CanLock(i)
      /\ itable' = Release(WithLinks(t, i, t[i].nlink - 1), i)
      /\ dinode' = Written(dinode, itable', i)
      /\ Ends(p, <<Put(i)>>)
      /\ UNCHANGED <<ents, files, rest>>

-----------------------------------------------------------------------------
(* sys_unlink.                                                             *)

\* . and .. and names that do not exist are refused.
UnlinkNoName(p) ==
  LET s == st[p]
  IN  /\ At(p, "unlink_dp")
      /\ CanLock(s.dp)
      /\ s.name \in {".", ".."} \/ DirLookup(ents[s.dp], s.name) = None
      /\ itable' = Release(Locked(itable, s.dp, p), s.dp)
      /\ Ends(p, <<Put(s.dp)>>)
      /\ UNCHANGED <<disk, files, rest>>

\* dirlookup gets the inode; dp stays locked.
UnlinkName(p) ==
  LET s == st[p]
      i == DirLookup(ents[s.dp], s.name)
  IN  /\ At(p, "unlink_dp")
      /\ CanLock(s.dp)
      /\ s.name \notin {".", ".."}
      /\ i # None
      /\ GetOrPanic(Locked(itable, s.dp, p), i)
      /\ st' = [st EXCEPT ![p].pc = "unlink_ip", ![p].ip = i]
      /\ UNCHANGED <<disk, files, calls>>

\* With ip locked too: a directory must be empty; then the entry goes, and
\* with a directory the link its .. is to dp; dp is unlocked and put.
UnlinkEntry(p) ==
  LET s == st[p]
      t == Locked(itable, s.ip, p)
      dir == t[s.ip].type = "dir"
      u == Release(IF dir THEN WithLinks(t, s.dp, t[s.dp].nlink - 1) ELSE t, s.dp)
  IN  /\ At(p, "unlink_ip")
      /\ CanLock(s.ip)
      /\ t[s.ip].nlink >= 1
      /\ IF dir /\ ~IsDirEmpty(ents[s.ip])
           THEN /\ itable' = Release(t, s.ip)
                /\ Ends(p, <<Put(s.ip), Unlock(s.dp), Put(s.dp)>>)
                /\ UNCHANGED disk
           ELSE /\ itable' = u
                /\ dinode' = Written(dinode, u, s.dp)
                /\ ents' = [ents EXCEPT ![s.dp] = DirClear(@, s.name)]
                /\ st' = [st EXCEPT ![p] = [Idle EXCEPT !.pc = "unlink_done", !.ip = s.ip,
                                                                !.todo = <<Put(s.dp)>>]]
      /\ UNCHANGED <<files, rest>>

\* Last, the count of the inode itself.
UnlinkDone(p) ==
  LET i == st[p].ip
  IN  /\ At(p, "unlink_done")
      /\ itable' = Release(WithLinks(itable, i, itable[i].nlink - 1), i)
      /\ dinode' = Written(dinode, itable', i)
      /\ Ends(p, <<Put(i)>>)
      /\ UNCHANGED <<ents, files, rest>>

-----------------------------------------------------------------------------
(* create, for open with O_CREATE, mkdir and mknod.                        *)

TypeFor(op) == CASE op = "create" -> "file" [] op = "mkdir" -> "dir" [] op = "mknod" -> "dev"

\* The name exists: iunlockput(dp), and look at what it names.
CreateFound(p) ==
  LET s == st[p]
      i == DirLookup(ents[s.dp], s.name)
  IN  /\ At(p, "create_dp")
      /\ CanLock(s.dp)
      /\ i # None
      /\ GetOrPanic(Release(Locked(itable, s.dp, p), s.dp), i)
      /\ st' = [st EXCEPT ![p].pc = "create_old", ![p].ip = i, ![p].dp = None, ![p].todo = <<Put(s.dp)>>]
      /\ UNCHANGED <<disk, files, calls>>

\* Only a file is opened; mkdir and mknod fail.
CreateOld(p) ==
  LET s == st[p]
      t == Locked(itable, s.ip, p)
  IN  /\ At(p, "create_old")
      /\ CanLock(s.ip)
      /\ IF s.op = "create" /\ t[s.ip].type \in {"file", "dev"}
           THEN /\ itable' = t
                /\ st' = [st EXCEPT ![p] = [Idle EXCEPT !.pc = "opened", !.ip = s.ip]]
           ELSE /\ itable' = Release(t, s.ip)
                /\ Ends(p, <<Put(s.ip)>>)
      /\ UNCHANGED <<disk, files, rest>>

\* ialloc marks an inode that is free on disk.  The scan looks at one inode at
\* a time, so another process may free a lower one behind it: any free one.
CreateAlloc(p) ==
  LET s == st[p]
      free == {i \in Inum : dinode[i].type = "none"}
  IN  /\ At(p, "create_dp")
      /\ CanLock(s.dp)
      /\ DirLookup(ents[s.dp], s.name) = None
      /\ \/ \E i \in free :
              /\ itable' = Locked(itable, s.dp, p)
              /\ dinode' = [dinode EXCEPT ![i] = [type |-> TypeFor(s.op), nlink |-> 0]]
              /\ st' = [st EXCEPT ![p].pc = "create_get", ![p].new = i]
         \/ /\ free = {}
            /\ itable' = Release(Locked(itable, s.dp, p), s.dp)
            /\ Ends(p, <<Put(s.dp)>>)
            /\ UNCHANGED dinode
      /\ UNCHANGED <<ents, files, rest>>

\* ialloc ends with iget: an inode that was just freed may still have its entry.
CreateGet(p) ==
  /\ At(p, "create_get")
  /\ GetOrPanic(itable, st[p].new)
  /\ st' = [st EXCEPT ![p].pc = "create_new", ![p].ip = st[p].new, ![p].new = <<>>]
  /\ UNCHANGED <<disk, files, calls>>

\* The entries of a new directory.
DotEntries(i, d) == <<Entry(".", i), Entry("..", d)>>

\* The new inode gets one link and, a directory, its . and ..; its parent gets
\* an entry and the link of ..; iunlockput(dp).
CreateNew(p) ==
  LET s == st[p]
      i == s.ip
      dir == s.op = "mkdir"
      t == WithLinks(Locked(itable, i, p), i, 1)
      u == Release(IF dir THEN WithLinks(t, s.dp, t[s.dp].nlink + 1) ELSE t, s.dp)
  IN  /\ At(p, "create_new")
      /\ CanLock(i)
      /\ itable' = u
      /\ dinode' = Written(Written(dinode, u, i), u, s.dp)
      /\ ents' = [ents EXCEPT ![i] = IF dir THEN DotEntries(i, s.dp) ELSE @,
                              ![s.dp] = DirLink(@, s.name, i)]
      /\ buried' = (buried \/ t[s.dp].nlink = 0)
      /\ st' = [st EXCEPT ![p] =
           IF s.op = "create"
             THEN [Idle EXCEPT !.pc = "opened", !.ip = i, !.todo = <<Put(s.dp)>>]
             ELSE Ending(<<Put(s.dp), Unlock(i), Put(i)>>)]
      /\ UNCHANGED <<files, saved, panicked, calls, crashes>>

\* fail: no block for the new directory, or for a larger parent.  The inode
\* loses its link, so iunlockput(ip) frees it, with dp still locked.
CreateFail(p) ==
  LET s == st[p]
      i == s.ip
      dir == s.op = "mkdir"
      t == WithLinks(Locked(itable, i, p), i, 0)
  IN  /\ At(p, "create_new")
      /\ CanLock(i)
      /\ dir \/ ~HasFreeEntry(ents[s.dp])
      /\ itable' = Release(t, i)
      /\ dinode' = Written(dinode, t, i)
      /\ \E n \in IF ~dir THEN {0} ELSE IF HasFreeEntry(ents[s.dp]) THEN {0} ELSE {0, 2} :
           ents' = [ents EXCEPT ![i] = SubSeq(DotEntries(i, s.dp), 1, n)]
      /\ Ends(p, <<Put(i), Unlock(s.dp), Put(s.dp)>>)
      /\ UNCHANGED <<files, rest>>

-----------------------------------------------------------------------------
(* open, chdir, close.                                                     *)

\* open without O_CREATE: a directory is opened only for reading.
OpenIp(p) ==
  LET s == st[p]
      t == Locked(itable, s.ip, p)
  IN  /\ At(p, "open_ip")
      /\ CanLock(s.ip)
      /\ IF t[s.ip].type = "dir" /\ s.op = "openw"
           THEN /\ itable' = Release(t, s.ip)
                /\ Ends(p, <<Put(s.ip)>>)
           ELSE /\ itable' = t
                /\ st' = [st EXCEPT ![p] = [Idle EXCEPT !.pc = "opened", !.ip = s.ip]]
      /\ UNCHANGED <<disk, files, rest>>

\* filealloc and fdalloc: the file takes over the reference; or the inode is put: there is no
\* file or descriptor, or it is a device whose major number, which is not modelled, is out of
\* range.
Opened(p) ==
  LET i == st[p].ip
  IN  /\ At(p, "opened")
      /\ itable' = Release(itable, i)
      /\ \/ /\ ofile[p] = None
            /\ ofile' = [ofile EXCEPT ![p] = i]
            /\ Ends(p, <<>>)
         \/ /\ ofile[p] # None \/ itable[i].type = "dev"
            /\ Ends(p, <<Put(i)>>)
            /\ UNCHANGED ofile
      /\ UNCHANGED <<disk, cwd, rest>>

\* sys_chdir: the directory is unlocked before the old one is put.
ChdirIp(p) ==
  LET s == st[p]
      t == Locked(itable, s.ip, p)
  IN  /\ At(p, "chdir_ip")
      /\ CanLock(s.ip)
      /\ itable' = Release(t, s.ip)
      /\ st' = [st EXCEPT ![p] =
           IF t[s.ip].type # "dir" THEN Ending(<<Put(s.ip)>>)
                                   ELSE [Idle EXCEPT !.pc = "chdir_set", !.ip = s.ip, !.todo = <<Put(cwd[p])>>]]
      /\ UNCHANGED <<disk, files, rest>>

\* The code sets cwd right after end_op.  No other process reads it and a crash loses it, so
\* setting it right before is the same.
ChdirSet(p) ==
  /\ At(p, "chdir_set")
  /\ cwd' = [cwd EXCEPT ![p] = st[p].ip]
  /\ Ends(p, <<>>)
  /\ UNCHANGED <<disk, itable, ofile, rest>>

\* fileclose of the last reference to an open file: iput in a transaction.
Close(p) ==
  /\ At(p, "idle")
  /\ ofile[p] # None
  /\ calls < MaxCalls
  /\ calls' = calls + 1
  /\ ofile' = [ofile EXCEPT ![p] = None]
  /\ Ends(p, <<Put(ofile[p])>>)
  /\ UNCHANGED <<disk, itable, cwd, saved, buried, panicked, crashes>>

\* Mutant: end_op commits although other calls are under way.
EndCommits(p) ==
  /\ At(p, "end")
  /\ st' = [st EXCEPT ![p] = Idle]
  /\ saved' = disk
  /\ UNCHANGED <<disk, itable, files, buried, panicked, calls, crashes>>

\* end_op: the last call of a group commits what the group did.
End(p) ==
  /\ At(p, "end")
  /\ st' = [st EXCEPT ![p] = Idle]
  /\ saved' = IF \A q \in Proc \ {p} : st[q].pc = "idle" THEN disk ELSE saved
  /\ UNCHANGED <<disk, itable, files, buried, panicked, calls, crashes>>

\* The inode a process has to lock next, or None.
Wants(p) ==
  LET s == st[p]
  IN  CASE s.todo # <<>> \/ (s.pc = "walk" /\ NoElem(s.path)) -> None
        [] s.pc \in {"walk", "link_ip", "unlink_ip", "create_old", "create_new", "open_ip", "chdir_ip"} -> s.ip
        [] s.pc \in {"link_dp", "unlink_dp", "create_dp"} -> s.dp
        [] s.pc = "link_bad" -> s.old
        [] OTHER -> None

\* The panics of ilock, and of sys_unlink for an inode without links.
LockPanic(p) ==
  LET i == Wants(p)
      noLinks == st[p].pc = "unlink_ip" /\ Locked(itable, i, p)[i].nlink < 1
  IN  /\ ~panicked
      /\ i # None
      /\ Unlocked(i)
      /\ NoType(i) \/ noLinks
      /\ panicked' = TRUE
      /\ UNCHANGED <<disk, itable, files, st, saved, buried, calls, crashes>>

\* A crash, or a restart after a panic: memory is lost, recovery leaves the
\* disk as the last commit left it, every process starts in the root directory.
Crash ==
  /\ crashes < MaxCrashes
  /\ dinode' = saved[1]
  /\ ents' = saved[2]
  /\ cwd' = [p \in Proc |-> ROOTINO]
  /\ itable' = Table(cwd')
  /\ ofile' = [p \in Proc |-> None]
  /\ st' = [p \in Proc |-> Idle]
  /\ panicked' = FALSE
  /\ crashes' = crashes + 1
  /\ UNCHANGED <<saved, buried, calls>>

\* The kernel has panicked, or the processes have made their calls.
Halted == (panicked \/ (calls = MaxCalls /\ \A p \in Proc : st[p].pc = "idle")) /\ UNCHANGED vars

Iput(p) == PutRef(p) \/ PutLast(p) \/ PutFree(p) \/ PutClear(p) \/ PutDrop(p) \/ TodoUnlock(p)

Namex(p) == Begin(p) \/ WalkEmpty(p) \/ WalkParent(p) \/ WalkFail(p) \/ WalkDown(p)

Link(p) == LinkIp(p) \/ LinkExists(p) \/ LinkEntry(p) \/ LinkBad(p)

Unlink(p) == UnlinkNoName(p) \/ UnlinkName(p) \/ UnlinkEntry(p) \/ UnlinkDone(p)

Create(p) == \/ CreateFound(p) \/ CreateOld(p) \/ CreateAlloc(p)
             \/ CreateGet(p) \/ CreateNew(p) \/ CreateFail(p)

Open(p) == OpenIp(p) \/ Opened(p) \/ ChdirIp(p) \/ ChdirSet(p) \/ Close(p)

Next ==
  \/ \E p \in Proc : Iput(p) \/ Namex(p) \/ Link(p) \/ Unlink(p) \/ Create(p) \/ Open(p) \/ End(p) \/ LockPanic(p)
  \/ Crash
  \/ Halted

Spec == Init /\ [][Next]_vars

-----------------------------------------------------------------------------
(* Properties.                                                             *)

\* The pointers to inode i a process holds: its current directory, its open
\* file, the local variables of the call it is in and the iputs it owes.
Pointers(p, i) ==
  LET s == st[p]
      One(b) == IF b THEN 1 ELSE 0
  IN  One(s.ip = i) + One(s.dp = i) + One(s.old = i) + One(ofile[p] = i)
      + One(cwd[p] = i /\ s.pc # "chdir_set")
      + Cardinality({k \in DOMAIN s.todo : s.todo[k][1] # "unlock" /\ s.todo[k][2] = i})

\* ip->ref counts exactly the pointers to the inode, at every step of every
\* call, on all its error paths: none is leaked, none is dropped twice.
RefsExact ==
  \A i \in Inum : itable[i].ref = MapThenSumSet(LAMBDA p : Pointers(p, i), Proc)

\* iput's comment: "ip->ref == 1 means no other process can have ip locked, so
\* this acquiresleep() won't block" -- with itable.lock held it must not.
PutNeverBlocks ==
  \A p \in Proc : (Todo(p, "put") /\ MustFree(TodoInode(p))) => Unlocked(TodoInode(p))

Quiet == \A p \in Proc : st[p].pc = "idle"

\* The entries of directories that name inode i, by directory and position.
EntriesOf(i) ==
  {e \in UNION {{d} \X DOMAIN ents[d] : d \in {j \in Inum : dinode[j].type = "dir"}} :
     ents[e[1]][e[2]].inum = i}

NamesOf(i) == {e \in EntriesOf(i) : ents[e[1]][e[2]].name \notin {".", ".."}}

\* The entries that count as links: its names, and the .. of directories in it,
\* unless they have been removed.
LinksTo(i) ==
  NamesOf(i) \cup {e \in EntriesOf(i) : ents[e[1]][e[2]].name = ".." /\ dinode[e[1]].nlink > 0}

\* Whenever no call is under way, after a crash too, the link count of every
\* inode is the number of names it has, and no name is without an inode.  (An
\* entry made in a directory that has been removed breaks the counts: create
\* and sys_link do not look at dp->nlink.)
LinkCounts ==
  (Quiet /\ ~buried) =>
    \A i \in Inum :
      /\ dinode[i].nlink = Cardinality(LinksTo(i))
      /\ LinksTo(i) # {} => dinode[i].type # "none"

\* An inode is never freed on disk while a process has it open or as its
\* current directory, or while it has a name.
FreedUnused ==
  [][ \A i \in Inum :
        (dinode[i].type # "none" /\ dinode'[i].type = "none" /\ crashes' = crashes) =>
          /\ i \notin {ofile[p] : p \in Proc}
          /\ \A p \in Proc : cwd[p] = i => st[p].pc = "chdir_set"
          /\ NamesOf(i) = {} ]_vars

\* The comment of iput: "If that was the last reference and the inode has no
\* links to it, free the inode (and its content) on disk."
LastReferenceFrees ==
  Quiet => \A i \in Inum : (dinode[i].type # "none" /\ dinode[i].nlink = 0) => itable[i].ref > 0
=============================================================================
