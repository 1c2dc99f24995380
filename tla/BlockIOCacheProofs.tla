------------------------ MODULE BlockIOCacheProofs --------------------------
(***************************************************************************)
(* The steps of the buffer cache and of the sleep locks (kernel/bio.c,      *)
(* kernel/sleeplock.c) keep the invariant of BlockIODiskProofs.  Then what  *)
(* the interface of the cache shows of a block, its content and its owner,  *)
(* and which changes of the state show.                                     *)
(***************************************************************************)
EXTENDS BlockIODiskProofs

-----------------------------------------------------------------------------
(* The steps that only go to sleep, wake up or look at the interrupt       *)

\* Process q goes to sleep where it must, or wakes up, or stays.
Dozes(q) ==
  \/ st'[q].pc = st[q].pc
  \/ st[q].pc = "lock" /\ st'[q].pc = "lock_sleep" /\ buf[st[q].b].lock # Nobody
  \/ st[q].pc = "desc" /\ st'[q].pc = "desc_sleep" /\ Cardinality(free) < 3
  \/ st[q].pc = "io" /\ st'[q].pc = "io_sleep" /\ buf[st[q].b].disk
  \/ st[q].pc = "lock_sleep" /\ st'[q].pc = "lock"
  \/ st[q].pc = "desc_sleep" /\ st'[q].pc = "desc"
  \/ st[q].pc = "io_sleep" /\ st'[q].pc = "io"

\* No data, no count and no ring changes, and no interrupt is forgotten.
Quiet ==
  /\ UNCHANGED <<NUM, buf, lru, pinned, free, req, avail, used, platter>>
  /\ st' \in [Proc -> StType] /\ KeepHeld /\ KeepWrite /\ KeepChain
  /\ \A q \in Proc : Dozes(q)
  /\ used # <<>> /\ (intr \/ handler) => intr' \/ handler'

\* A process moves to label l.
LEMMA GotoEffect ==
  ASSUME CacheType, NEW p \in Proc, NEW l \in Labels, Goto(p, l)
  PROVE  /\ st' \in [Proc -> StType] /\ KeepHeld /\ KeepWrite /\ KeepChain
         /\ st'[p].pc = l /\ \A q \in Proc : q # p => st'[q].pc = st[q].pc
BY DEF CacheType, StType, Goto, KeepHeld, KeepWrite, KeepChain

\* wakeup.
LEMMA WakeEffect ==
  ASSUME CacheType, NEW p, NEW l, NEW S, NEW from, NEW to \in Labels, p \in Proc => l \in Labels,
         Wakeup(p, l, S, from, to)
  PROVE  /\ st' \in [Proc -> StType] /\ KeepHeld /\ KeepWrite /\ KeepChain
         /\ \A q \in Proc : st'[q].pc = IF q = p THEN l
                                        ELSE IF q \in S /\ st[q].pc = from THEN to ELSE st[q].pc
<1>1. ASSUME NEW q \in Proc
      PROVE  /\ st'[q] \in StType
             /\ st'[q].b = st[q].b /\ st'[q].write = st[q].write /\ st'[q].chain = st[q].chain
             /\ st'[q].pc = IF q = p THEN l ELSE IF q \in S /\ st[q].pc = from THEN to ELSE st[q].pc
  BY SMTT(30) DEF CacheType, StType, Wakeup
<1>2. st' \in [Proc -> StType]
  BY <1>1 DEF Wakeup
<1> QED
  BY <1>1, <1>2 DEF KeepHeld, KeepWrite, KeepChain

\* The sleeps, kill and the panic of bget are quiet.
LEMMA QuietSteps ==
  ASSUME CacheType, NEW p \in Proc,
         \/ \E b \in Block : BgetPanic(p, b)
         \/ AcquireSleeps(p) \/ DescSleep(p) \/ IoSleepAgain(p) \/ Kill(p)
  PROVE  Quiet
<1> USE DEF driver
<1>1. CASE AcquireSleeps(p)
  BY <1>1, GotoEffect DEF AcquireSleeps, At, Labels, Quiet, Dozes
<1>2. CASE IoSleepAgain(p)
  BY <1>2, GotoEffect DEF IoSleepAgain, At, Labels, Quiet, Dozes
<1>3. CASE DescSleep(p)
  <2>1. PICK S : Wakeup(p, "desc_sleep", S, "desc_sleep", "desc")
    BY <1>3 DEF DescSleep
  <2>2. /\ st' \in [Proc -> StType] /\ KeepHeld /\ KeepWrite /\ KeepChain
        /\ \A q \in Proc : st'[q].pc = IF q = p THEN "desc_sleep"
                                       ELSE IF q \in S /\ st[q].pc = "desc_sleep" THEN "desc" ELSE st[q].pc
    BY <2>1, WakeEffect DEF Labels
  <2> QED
    BY <1>3, <2>2 DEF DescSleep, At, Quiet, Dozes
<1>4. CASE Kill(p)
  <2>1. PICK f \in {<<"lock_sleep", "lock">>, <<"desc_sleep", "desc">>, <<"io_sleep", "io">>} :
          st[p].pc = f[1] /\ Goto(p, f[2])
    BY <1>4 DEF Kill
  <2>2. f[2] \in Labels
    BY DEF Labels
  <2> QED
    BY <1>4, <2>1, <2>2, GotoEffect DEF Kill, Quiet, Dozes
<1>5. CASE \E b \in Block : BgetPanic(p, b)
  BY <1>5 DEF BgetPanic, Quiet, Dozes, KeepHeld, KeepWrite, KeepChain, CacheType
<1> QED
  BY <1>1, <1>2, <1>3, <1>4, <1>5

\* So are the start and the end of virtio_disk_intr, its panic and a stuttering step.
LEMMA QuietIdle ==
  ASSUME CacheType, IntrEnter \/ IntrPanic \/ IntrExit \/ UNCHANGED vars
  PROVE  Quiet
<1>1. UNCHANGED <<NUM, buf, lru, pinned, free, req, avail, used, platter, st>>
  BY DEF IntrEnter, IntrPanic, IntrExit, vars, driver
<1>2. used # <<>> /\ (intr \/ handler) => intr' \/ handler'
  BY DEF IntrEnter, IntrPanic, IntrExit, vars, driver
<1> QED
  BY <1>1, <1>2 DEF Quiet, Dozes, KeepHeld, KeepWrite, KeepChain, CacheType

\* A step that only goes to sleep or wakes up keeps the invariant.
LEMMA QuietInv ==
  ASSUME DataInv, Quiet
  PROVE  DataInv'
<1> USE DEF DataInv
<1>1. CacheType' /\ DiskType'
  BY Zenon DEF Quiet, CacheType, DiskType, BufType, Desc, ReqType, StType, Buf
<1>2. Places'
  <2> SUFFICES ASSUME NEW q \in Proc
               PROVE  Place(q)'
    BY DEF Places
  <2>1. SamePlace(q)
    BY DEF Quiet, Dozes, KeepHeld, KeepWrite, KeepChain, SamePlace, Locked, InIO
  <2> QED
    BY <2>1, PlaceKept DEF Places
<1>3. KeepBlockno /\ KeepValid /\ KeepRefcnt /\ KeepLock /\ KeepDisk /\ KeepData
  BY DEF Quiet, KeepBlockno, KeepValid, KeepRefcnt, KeepLock, KeepDisk, KeepData
<1>4. Blocks' /\ Chains'
  BY <1>3, BlocksKept, ChainsKept DEF Quiet
<1>5. Rings'
  BY DEF Rings, Quiet
<1>6. SameIO
  BY DEF SameIO, Quiet, Dozes, KeepHeld, KeepWrite, KeepChain, InIO
<1>7. Flights' /\ Datas'
  <2>1. \A i \in Buf : buf'[i].valid /\ i \notin pinned' /\ buf'[i].lock = Nobody => Clean(i)'
    BY DEF Quiet, Datas, Clean
  <2>2. \A q \in Proc : st[q].pc \in InIO => buf'[st[q].b].data = buf[st[q].b].data
    BY DEF Quiet
  <2> QED
    BY <1>3, <1>6, <2>1, <2>2, FlightsKept, DatasKept DEF Quiet
<1>8. Sleeps'
  BY DEF Sleeps, Quiet, Dozes, KeepHeld
<1>9. Listed'
  BY DEF Listed, Quiet, Buf
<1> QED
  BY <1>1, <1>2, <1>4, <1>5, <1>7, <1>8, <1>9

-----------------------------------------------------------------------------
(* bget and acquiresleep                                                   *)

\* A buffer with b->refcnt = 0 is nobody's, and is not pinned, locked or at the disk.
LEMMA Unheld ==
  ASSUME DataInv, Choices, NEW i \in Buf, buf[i].refcnt = 0
  PROVE  /\ i \notin pinned /\ buf[i].lock = Nobody /\ ~buf[i].disk
         /\ \A q \in Proc : st[q].b # i
<1>1. i \notin pinned /\ \A q \in Proc : st[q].b # i
  BY DEF Choices
<1>2. buf[i].lock \in Proc \cup {Nobody} /\ buf[i].lock \notin Proc
  BY <1>1 DEF DataInv, CacheType, BufType, Places, Place
<1> QED
  BY <1>1, <1>2 DEF DataInv, Flights

\* bget finds the block.
LEMMA HitEffect ==
  ASSUME CacheType, NEW p \in Proc, NEW b \in Block, BgetHit(p, b)
  PROVE  /\ st[p].pc = "idle" /\ UNCHANGED <<NUM, lru, pinned, free, req, avail, used, intr, handler, platter>>
         /\ buf' \in [Buf -> BufType] /\ st' \in [Proc -> StType]
         /\ KeepBlockno /\ KeepValid /\ KeepLock /\ KeepDisk /\ KeepData
         /\ \E i \in Buf : /\ buf[i].blockno = b
                           /\ \A j \in Buf : buf'[j].refcnt = IF j = i THEN buf[j].refcnt + 1 ELSE buf[j].refcnt
                           /\ \A q \in Proc : st'[q] = IF q = p THEN Got(i) ELSE st[q]
<1>1. PICK i \in Buf : /\ buf[i].blockno = b
                       /\ buf' = [buf EXCEPT ![i].refcnt = @ + 1]
                       /\ st' = [st EXCEPT ![p] = Got(i)]
  BY Zenon DEF BgetHit, Cached
<1>2. /\ KeepBlockno /\ KeepValid /\ KeepLock /\ KeepDisk /\ KeepData
      /\ buf' \in [Buf -> BufType]
      /\ \A j \in Buf : buf'[j].refcnt = IF j = i THEN buf[j].refcnt + 1 ELSE buf[j].refcnt
  BY <1>1 DEF CacheType, BufType, KeepBlockno, KeepValid, KeepLock, KeepDisk, KeepData
<1>3. /\ st' \in [Proc -> StType]
      /\ \A q \in Proc : st'[q] = IF q = p THEN Got(i) ELSE st[q]
  BY <1>1, BlockIOAssumption DEF CacheType, StType, Labels, Got, Buf
<1> QED
  BY <1>1, <1>2, <1>3 DEF BgetHit, At, driver

\* bget finds the block.
LEMMA HitInv ==
  ASSUME DataInv, NEW p \in Proc, NEW b \in Block, BgetHit(p, b)
  PROVE  DataInv'
<1> USE DEF DataInv
<1>1. /\ st[p].pc = "idle" /\ UNCHANGED <<NUM, lru, pinned, free, req, avail, used, intr, handler, platter>>
      /\ buf' \in [Buf -> BufType] /\ st' \in [Proc -> StType]
      /\ KeepBlockno /\ KeepValid /\ KeepLock /\ KeepDisk /\ KeepData
  BY HitEffect
<1>2. PICK i \in Buf : /\ buf[i].blockno = b
                       /\ \A j \in Buf : buf'[j].refcnt = IF j = i THEN buf[j].refcnt + 1 ELSE buf[j].refcnt
                       /\ \A q \in Proc : st'[q] = IF q = p THEN Got(i) ELSE st[q]
  BY HitEffect
<1>3. CacheType' /\ DiskType'
  BY <1>1, CacheTypeKept, DiskTypeKept, SMTT(30) DEF CacheType
<1>4. /\ st[p].b = 0 /\ st[p].chain = {} /\ st'[p].pc = "lock" /\ st'[p].b = i /\ st'[p].chain = {} /\ ~st'[p].write
      /\ \A q \in Proc : q # p => st'[q] = st[q]
  BY <1>1, <1>2 DEF Places, Place, Got, InIO
<1>5. Places'
  <2>1. ASSUME NEW q \in Proc, q # p
        PROVE  Place(q)'
    BY <1>1, <1>4, <2>1, PlaceKept DEF SamePlace, KeepBlockno, KeepValid, KeepLock, Places
  <2>2. Place(p)'
    <3>1. \A j \in Buf : buf'[j].lock # p
      BY <1>1 DEF Places, Place, KeepLock, Locked
    <3>2. buf'[i].blockno \in Block /\ i # 0
      BY <1>1, <1>2 DEF KeepBlockno, Buf
    <3> QED
      BY <1>4, <3>1, <3>2 DEF Place, Locked
  <2> QED
    BY <2>1, <2>2, Zenon DEF Places
<1>6. Blocks'
  BY <1>1, BlocksKept
<1>7. Chains' /\ Rings' /\ Listed'
  <2>1. KeepChain
    BY <1>4, Zenon DEF KeepChain
  <2> QED
    BY <1>1, <2>1, ChainsKept DEF Rings, Listed, Buf
<1>8. Flights' /\ Datas'
  <2>1. SameIO
    BY <1>1, <1>4, Held DEF SameIO, InIO, KeepBlockno
  <2>2. \A j \in Buf : buf'[j].valid /\ j \notin pinned' /\ buf'[j].lock = Nobody => Clean(j)'
    BY <1>1 DEF Datas, Clean, KeepValid, KeepLock, KeepData, KeepBlockno
  <2>3. \A q \in Proc : st[q].pc \in InIO => buf'[st[q].b].data = buf[st[q].b].data
    BY <1>1, Held, Zenon DEF KeepData, InIO
  <2> QED
    BY <1>1, <2>1, <2>2, <2>3, FlightsKept, DatasKept, Zenon
<1>9. Sleeps'
  BY <1>1, <1>4, Held DEF Sleeps, KeepLock
<1> QED
  BY <1>3, <1>5, <1>6, <1>7, <1>8, <1>9

\* bget takes a buffer that nobody has.
LEMMA RecycleEffect ==
  ASSUME CacheType, NEW p \in Proc, NEW b \in Block, BgetRecycle(p, b), NEW i \in Buf, i = Oldest
  PROVE  /\ st[p].pc = "idle" /\ UNCHANGED <<NUM, lru, pinned, free, req, avail, used, intr, handler, platter>>
         /\ buf' \in [Buf -> BufType] /\ st' \in [Proc -> StType]
         /\ KeepLock /\ KeepDisk /\ KeepData
         /\ ~buf'[i].valid /\ \A j \in Buf : buf[j].blockno # b
         /\ \A j \in Buf : /\ buf'[j].blockno = IF j = i THEN b ELSE buf[j].blockno
                           /\ j # i => buf'[j].valid = buf[j].valid
                           /\ buf'[j].refcnt = IF j = i THEN 1 ELSE buf[j].refcnt
         /\ \A q \in Proc : st'[q] = IF q = p THEN Got(i) ELSE st[q]
<1>1. /\ buf' = [buf EXCEPT ![i].blockno = b, ![i].valid = FALSE, ![i].refcnt = 1]
      /\ st' = [st EXCEPT ![p] = Got(i)]
  BY DEF BgetRecycle
<1>2. /\ KeepLock /\ KeepDisk /\ KeepData
      /\ buf' \in [Buf -> BufType] /\ ~buf'[i].valid
      /\ \A j \in Buf : /\ buf'[j].blockno = IF j = i THEN b ELSE buf[j].blockno
                        /\ j # i => buf'[j].valid = buf[j].valid
                        /\ buf'[j].refcnt = IF j = i THEN 1 ELSE buf[j].refcnt
  <2>1. PICK b1 : b1 = [buf EXCEPT ![i].blockno = b]
    BY Zenon
  <2>2. PICK b2 : b2 = [b1 EXCEPT ![i].valid = FALSE]
    BY Zenon
  <2>t. b1 \in [Buf -> BufType]
    BY <2>1, SMTT(30) DEF CacheType, BufType
  <2>3. \A j \in Buf : /\ b1[j].blockno = IF j = i THEN b ELSE buf[j].blockno
                       /\ b1[j].valid = buf[j].valid /\ b1[j].refcnt = buf[j].refcnt
                       /\ b1[j].lock = buf[j].lock /\ b1[j].disk = buf[j].disk /\ b1[j].data = buf[j].data
    BY <2>1 DEF CacheType, BufType
  <2>4. /\ b2 \in [Buf -> BufType] /\ ~b2[i].valid
        /\ \A j \in Buf : /\ j # i => b2[j].valid = b1[j].valid
                          /\ b2[j].blockno = b1[j].blockno /\ b2[j].refcnt = b1[j].refcnt
                          /\ b2[j].lock = b1[j].lock /\ b2[j].disk = b1[j].disk /\ b2[j].data = b1[j].data
    BY <2>2, <2>t, ZenonT(40) DEF BufType
  <2>5. buf' = [b2 EXCEPT ![i].refcnt = 1]
    BY <1>1, <2>1, <2>2
  <2>6. /\ buf' \in [Buf -> BufType]
        /\ \A j \in Buf : /\ buf'[j].refcnt = IF j = i THEN 1 ELSE b2[j].refcnt
                          /\ buf'[j].blockno = b2[j].blockno /\ buf'[j].valid = b2[j].valid
                          /\ buf'[j].lock = b2[j].lock /\ buf'[j].disk = b2[j].disk /\ buf'[j].data = b2[j].data
    BY <2>4, <2>5 DEF BufType
  <2> QED
    BY <2>3, <2>4, <2>6 DEF KeepLock, KeepDisk, KeepData
<1>3. /\ st' \in [Proc -> StType]
      /\ \A q \in Proc : st'[q] = IF q = p THEN Got(i) ELSE st[q]
  BY <1>1, BlockIOAssumption DEF CacheType, StType, Labels, Got, Buf
<1> QED
  BY <1>1, <1>2, <1>3, Zenon DEF BgetRecycle, Cached, At, driver

\* bget recycles a buffer.
LEMMA RecycleInv ==
  ASSUME DataInv, Choices, NEW p \in Proc, NEW b \in Block, BgetRecycle(p, b)
  PROVE  DataInv'
<1> USE DEF DataInv
<1>0. PICK i \in Buf : i = Oldest /\ buf[i].refcnt = 0
  BY DEF BgetRecycle, Choices
<1>1. /\ st[p].pc = "idle" /\ UNCHANGED <<NUM, lru, pinned, free, req, avail, used, intr, handler, platter>>
      /\ buf' \in [Buf -> BufType] /\ st' \in [Proc -> StType]
      /\ KeepLock /\ KeepDisk /\ KeepData
  BY <1>0, RecycleEffect
<1>2. /\ ~buf'[i].valid /\ \A j \in Buf : buf[j].blockno # b
      /\ \A j \in Buf : /\ buf'[j].blockno = IF j = i THEN b ELSE buf[j].blockno
                        /\ j # i => buf'[j].valid = buf[j].valid
                        /\ buf'[j].refcnt = IF j = i THEN 1 ELSE buf[j].refcnt
      /\ \A q \in Proc : st'[q] = IF q = p THEN Got(i) ELSE st[q]
  BY <1>0, RecycleEffect
<1>3. CacheType' /\ DiskType'
  BY <1>1, CacheTypeKept, DiskTypeKept, Zenon DEF CacheType
<1>4. /\ st[p].b = 0 /\ st[p].chain = {} /\ st'[p].pc = "lock" /\ st'[p].b = i /\ st'[p].chain = {} /\ ~st'[p].write
      /\ \A q \in Proc : q # p => st'[q] = st[q]
  BY <1>1, <1>2 DEF Places, Place, Got, InIO
<1>u. \A q \in Proc : st[q].b # i
  BY <1>0, Unheld
<1>5. Places'
  <2>1. ASSUME NEW q \in Proc, q # p
        PROVE  Place(q)'
    BY <1>1, <1>2, <1>4, <1>u, <2>1, PlaceKept, Zenon DEF SamePlace, KeepLock, Places
  <2>2. Place(p)'
    <3>1. \A j \in Buf : buf'[j].lock # p
      BY <1>1 DEF Places, Place, KeepLock, Locked
    <3>2. buf'[i].blockno \in Block /\ i # 0
      BY <1>2 DEF Buf
    <3> QED
      BY <1>4, <3>1, <3>2, Zenon DEF Place, Locked
  <2> QED
    BY <2>1, <2>2, Zenon DEF Places
<1>6. Blocks'
  BY <1>2 DEF Blocks, Buf
<1>7. Chains' /\ Rings' /\ Listed'
  <2>1. KeepChain
    BY <1>4, Zenon DEF KeepChain
  <2> QED
    BY <1>1, <2>1, ChainsKept DEF Rings, Listed, Buf
<1>8. Flights' /\ Datas'
  <2>1. SameIO
    BY <1>1, <1>2, <1>4, <1>u, Held, Zenon DEF SameIO, InIO
  <2>2. \A j \in Buf : buf'[j].valid /\ j \notin pinned' /\ buf'[j].lock = Nobody => Clean(j)'
    BY <1>1, <1>2, SMTT(30) DEF Datas, Clean, KeepLock, KeepData
  <2>3. \A q \in Proc : st[q].pc \in InIO => buf'[st[q].b].data = buf[st[q].b].data
    BY <1>1, Held, Zenon DEF KeepData, InIO
  <2> QED
    BY <1>1, <2>1, <2>2, <2>3, FlightsKept, DatasKept, Zenon
<1>9. Sleeps'
  BY <1>1, <1>4, Held DEF Sleeps, KeepLock
<1> QED
  BY <1>3, <1>5, <1>6, <1>7, <1>8, <1>9

\* acquiresleep takes the lock.
LEMMA AcquireEffect ==
  ASSUME CacheType, Places, NEW p \in Proc, Acquiresleep(p), NEW i, i = st[p].b
  PROVE  /\ i \in Buf /\ st[p].pc = "lock" /\ buf[i].lock = Nobody
         /\ UNCHANGED <<NUM, lru, pinned, free, req, avail, used, intr, handler, platter>>
         /\ buf' \in [Buf -> BufType] /\ st' \in [Proc -> StType]
         /\ KeepBlockno /\ KeepValid /\ KeepRefcnt /\ KeepDisk /\ KeepData
         /\ KeepHeld /\ KeepWrite /\ KeepChain
         /\ \A j \in Buf : buf'[j].lock = IF j = i THEN p ELSE buf[j].lock
         /\ \A q \in Proc : q # p => st'[q].pc = st[q].pc
         /\ st'[p].pc = IF buf[i].valid THEN "hold" ELSE "desc"
<1>1. i \in Buf /\ st[p].pc = "lock" /\ buf[i].lock = Nobody
  BY Held DEF Acquiresleep, At
<1>2. /\ buf' = [buf EXCEPT ![i].lock = p]
      /\ st' = [st EXCEPT ![p].pc = IF buf[i].valid THEN "hold" ELSE "desc"]
  BY DEF Acquiresleep, Goto
<1>3. /\ buf' \in [Buf -> BufType] /\ KeepBlockno /\ KeepValid /\ KeepRefcnt /\ KeepDisk /\ KeepData
      /\ \A j \in Buf : buf'[j].lock = IF j = i THEN p ELSE buf[j].lock
  BY <1>1, <1>2 DEF CacheType, BufType, KeepBlockno, KeepValid, KeepRefcnt, KeepDisk, KeepData
<1>4. /\ st' \in [Proc -> StType] /\ KeepHeld /\ KeepWrite /\ KeepChain
      /\ \A q \in Proc : q # p => st'[q].pc = st[q].pc
      /\ st'[p].pc = IF buf[i].valid THEN "hold" ELSE "desc"
  BY <1>2 DEF CacheType, StType, Labels, KeepHeld, KeepWrite, KeepChain
<1> QED
  BY <1>1, <1>3, <1>4 DEF Acquiresleep, driver

\* acquiresleep takes the lock.
LEMMA AcquireInv ==
  ASSUME DataInv, NEW p \in Proc, Acquiresleep(p)
  PROVE  DataInv'
<1> USE DEF DataInv
<1>0. PICK i : i = st[p].b
  OBVIOUS
<1>1. /\ i \in Buf /\ st[p].pc = "lock" /\ buf[i].lock = Nobody
      /\ UNCHANGED <<NUM, lru, pinned, free, req, avail, used, intr, handler, platter>>
      /\ buf' \in [Buf -> BufType] /\ st' \in [Proc -> StType]
      /\ KeepBlockno /\ KeepValid /\ KeepRefcnt /\ KeepDisk /\ KeepData
      /\ KeepHeld /\ KeepWrite /\ KeepChain
  BY <1>0, AcquireEffect
<1>2. /\ \A j \in Buf : buf'[j].lock = IF j = i THEN p ELSE buf[j].lock
      /\ \A q \in Proc : q # p => st'[q].pc = st[q].pc
      /\ st'[p].pc = IF buf[i].valid THEN "hold" ELSE "desc"
  BY <1>0, AcquireEffect
<1>3. CacheType' /\ DiskType'
  BY <1>1, CacheTypeKept, DiskTypeKept, Zenon DEF CacheType
<1>4. /\ ~st[p].write /\ st[p].chain = {} /\ \A j \in Buf : buf[j].lock # p
  BY <1>1 DEF Places, Place, InIO, Locked
<1>5. Places'
  <2>1. ASSUME NEW q \in Proc, q # p
        PROVE  Place(q)'
    <3>1. \A j \in Buf : buf'[j].lock = q <=> buf[j].lock = q
      BY <1>1, <1>2, <2>1, BlockIOAssumption
    <3> QED
      BY <1>1, <1>2, <2>1, <3>1, PlaceKept
, Zenon      DEF SamePlace, KeepBlockno, KeepValid, KeepHeld, KeepWrite, KeepChain, Places
  <2>2. Place(p)'
    <3>1. /\ st'[p].b = i /\ ~st'[p].write /\ st'[p].chain = {} /\ i # 0
          /\ st'[p].pc \in Locked /\ st'[p].pc \notin InIO /\ st'[p].pc # "idle"
      BY <1>0, <1>1, <1>2, <1>4, SMTT(30) DEF KeepHeld, KeepWrite, KeepChain, Buf, Locked, InIO
    <3>2. buf'[i].blockno \in Block /\ (buf'[i].valid <=> st'[p].pc = "hold")
      BY <1>0, <1>1, <1>2, Held, Zenon DEF KeepBlockno, KeepValid
    <3>3. \A j \in Buf : buf'[j].lock = p <=> j = i
      BY <1>2, <1>4, Zenon
    <3> QED
      BY <3>1, <3>2, <3>3, Zenon DEF Place, Buf
  <2> QED
    BY <2>1, <2>2, Zenon DEF Places
<1>6. Blocks' /\ Chains'
  BY <1>1, BlocksKept, ChainsKept, Zenon
<1>7. Rings' /\ Listed'
  BY <1>1 DEF Rings, Listed, Buf
<1>8. Flights' /\ Datas'
  <2>1. SameIO
    BY <1>1, <1>2, Held, ZenonT(40) DEF SameIO, InIO, KeepBlockno, KeepHeld, KeepWrite, KeepChain
  <2>2. \A j \in Buf : buf'[j].valid /\ j \notin pinned' /\ buf'[j].lock = Nobody => Clean(j)'
    BY <1>1, <1>2, BlockIOAssumption, SMTT(30) DEF Datas, Clean, KeepValid, KeepData, KeepBlockno
  <2>3. \A q \in Proc : st[q].pc \in InIO => buf'[st[q].b].data = buf[st[q].b].data
    BY <1>1, Held, Zenon DEF KeepData, InIO
  <2> QED
    BY <1>1, <2>1, <2>2, <2>3, FlightsKept, DatasKept, Zenon
<1>9. Sleeps'
  BY <1>1, <1>2, Held, BlockIOAssumption DEF Sleeps, KeepHeld
<1> QED
  BY <1>3, <1>5, <1>6, <1>7, <1>8, <1>9

-----------------------------------------------------------------------------
(* What the holder of a buffer does with it                                *)

\* The holder of a buffer stores to it.
LEMMA ChangeEffect ==
  ASSUME CacheType, Places, NEW p \in Proc, NEW v \in Val, Change(p, v), NEW i, i = st[p].b
  PROVE  /\ i \in Buf /\ st[p].pc = "hold"
         /\ UNCHANGED <<NUM, lru, pinned, st, free, req, avail, used, intr, handler, platter>>
         /\ buf' \in [Buf -> BufType]
         /\ KeepBlockno /\ KeepValid /\ KeepRefcnt /\ KeepLock /\ KeepDisk
         /\ \A j \in Buf : buf'[j].data = IF j = i THEN v ELSE buf[j].data
<1>1. i \in Buf /\ st[p].pc = "hold" /\ buf' = [buf EXCEPT ![i].data = v]
  BY Held DEF Change, At
<1>2. /\ buf' \in [Buf -> BufType] /\ KeepBlockno /\ KeepValid /\ KeepRefcnt /\ KeepLock /\ KeepDisk
      /\ \A j \in Buf : buf'[j].data = IF j = i THEN v ELSE buf[j].data
  BY <1>1 DEF CacheType, BufType, KeepBlockno, KeepValid, KeepRefcnt, KeepLock, KeepDisk
<1> QED
  BY <1>1, <1>2 DEF Change, driver

\* The holder stores to the buffer.
LEMMA ChangeInv ==
  ASSUME DataInv, NEW p \in Proc, NEW v \in Val, Change(p, v)
  PROVE  DataInv'
<1> USE DEF DataInv
<1>0. PICK i : i = st[p].b
  BY Zenon
<1>1. /\ i \in Buf /\ st[p].pc = "hold"
      /\ UNCHANGED <<NUM, lru, pinned, st, free, req, avail, used, intr, handler, platter>>
      /\ buf' \in [Buf -> BufType]
      /\ KeepBlockno /\ KeepValid /\ KeepRefcnt /\ KeepLock /\ KeepDisk
      /\ \A j \in Buf : buf'[j].data = IF j = i THEN v ELSE buf[j].data
  BY <1>0, ChangeEffect
<1>2. KeepHeld /\ KeepWrite /\ KeepChain
  BY <1>1 DEF KeepHeld, KeepWrite, KeepChain
<1>3. CacheType' /\ DiskType'
  BY <1>1, CacheTypeKept, DiskTypeKept, Zenon DEF CacheType
<1>4. Places'
  BY <1>1, PlaceKept, Zenon DEF SamePlace, KeepBlockno, KeepValid, KeepLock, Places
<1>5. Blocks' /\ Chains'
  BY <1>1, <1>2, BlocksKept, ChainsKept
<1>6. Rings' /\ Listed'
  BY <1>1, Zenon DEF Rings, Listed, Buf
<1>7. buf[i].lock = p
  BY <1>0, <1>1, Zenon DEF Places, Place, Locked
<1>8. Flights' /\ Datas'
  <2>1. SameIO
    BY <1>1, Held, Zenon DEF SameIO, InIO, KeepBlockno
  <2>2. \A j \in Buf : buf'[j].valid /\ j \notin pinned' /\ buf'[j].lock = Nobody => Clean(j)'
    BY <1>1, <1>7, BlockIOAssumption DEF Datas, Clean, KeepValid, KeepLock, KeepBlockno
  <2>3. \A q \in Proc : st[q].pc \in InIO => buf'[st[q].b].data = buf[st[q].b].data
    BY <1>0, <1>1, Held, OneHolder, ZenonT(40) DEF InIO, Locked
  <2> QED
    BY <1>1, <2>1, <2>2, <2>3, FlightsKept, DatasKept, Zenon
<1>9. Sleeps'
  BY <1>1, Held DEF Sleeps, KeepLock
<1> QED
  BY <1>3, <1>4, <1>5, <1>6, <1>8, <1>9

\* bwrite.
LEMMA WriteEffect ==
  ASSUME CacheType, NEW p \in Proc, Bwrite(p)
  PROVE  /\ st[p].pc = "hold"
         /\ UNCHANGED <<NUM, buf, lru, pinned, free, req, avail, used, intr, handler, platter>>
         /\ st' \in [Proc -> StType] /\ KeepHeld /\ KeepChain
         /\ \A q \in Proc : q # p => st'[q] = st[q]
         /\ st'[p].pc = "desc" /\ st'[p].write = TRUE
<1>1. st[p].pc = "hold" /\ st' = [st EXCEPT ![p].pc = "desc", ![p].write = TRUE]
  BY DEF Bwrite, At
<1>2. PICK s : s = [st EXCEPT ![p].pc = "desc"]
  BY Zenon
<1>3. s \in [Proc -> StType] /\ st' = [s EXCEPT ![p].write = TRUE]
  BY <1>1, <1>2 DEF CacheType, StType, Labels
<1>4. \A q \in Proc : /\ s[q].b = st[q].b /\ s[q].chain = st[q].chain
                      /\ q # p => s[q] = st[q]
                      /\ s[p].pc = "desc"
  BY <1>2 DEF CacheType, StType, Labels
<1>5. /\ st' \in [Proc -> StType]
      /\ \A q \in Proc : /\ st'[q].b = s[q].b /\ st'[q].chain = s[q].chain
                         /\ q # p => st'[q] = s[q]
      /\ st'[p].pc = s[p].pc /\ st'[p].write = TRUE
  BY <1>3, Zenon DEF StType
<1> QED
  BY <1>1, <1>4, <1>5 DEF Bwrite, driver, KeepHeld, KeepChain

\* bwrite: the holder goes to the disk.
LEMMA WriteInv ==
  ASSUME DataInv, NEW p \in Proc, Bwrite(p)
  PROVE  DataInv'
<1> USE DEF DataInv
<1>1. /\ st[p].pc = "hold"
      /\ UNCHANGED <<NUM, buf, lru, pinned, free, req, avail, used, intr, handler, platter>>
      /\ st' \in [Proc -> StType] /\ KeepHeld /\ KeepChain
      /\ \A q \in Proc : q # p => st'[q] = st[q]
      /\ st'[p].pc = "desc" /\ st'[p].write = TRUE
  BY WriteEffect, Zenon
<1>2. KeepBlockno /\ KeepValid /\ KeepRefcnt /\ KeepLock /\ KeepDisk /\ KeepData
  BY <1>1 DEF KeepBlockno, KeepValid, KeepRefcnt, KeepLock, KeepDisk, KeepData
<1>3. CacheType' /\ DiskType'
  BY <1>1, CacheTypeKept, DiskTypeKept, Zenon DEF CacheType
<1>4. Places'
  <2>1. ASSUME NEW q \in Proc, q # p
        PROVE  Place(q)'
    BY <1>1, <2>1, PlaceKept, Zenon DEF SamePlace, Places
  <2>2. Place(p)'
    BY <1>1, SMTT(30) DEF Places, Place, KeepHeld, KeepChain, Locked, InIO
  <2> QED
    BY <2>1, <2>2 DEF Places
<1>5. Blocks' /\ Chains'
  BY <1>1, <1>2, BlocksKept, ChainsKept
<1>6. Rings' /\ Listed'
  BY <1>1, Zenon DEF Rings, Listed, Buf
<1>7. Flights' /\ Datas'
  <2>1. SameIO
    BY <1>1, Zenon DEF SameIO, InIO
  <2>2. \A j \in Buf : buf'[j].valid /\ j \notin pinned' /\ buf'[j].lock = Nobody => Clean(j)'
    BY <1>1, Zenon DEF Datas, Clean
  <2> QED
    BY <1>1, <1>2, <2>1, <2>2, FlightsKept, DatasKept, Zenon
<1>8. Sleeps'
  BY <1>1, ZenonT(40) DEF Sleeps, KeepHeld
<1> QED
  BY <1>3, <1>4, <1>5, <1>6, <1>7, <1>8, SMTT(30)

\* bpin and bunpin.
LEMMA PinEffect ==
  ASSUME CacheType, Places, NEW p \in Proc, Bpin(p) \/ Bunpin(p), NEW i, i = st[p].b
  PROVE  /\ i \in Buf /\ st[p].pc = "hold"
         /\ UNCHANGED <<NUM, lru, st, free, req, avail, used, intr, handler, platter>>
         /\ buf' \in [Buf -> BufType]
         /\ KeepBlockno /\ KeepValid /\ KeepLock /\ KeepDisk /\ KeepData
         /\ \A j \in Buf : j # i => buf'[j].refcnt = buf[j].refcnt
         /\ \/ i \notin pinned /\ pinned' = pinned \cup {i} /\ buf'[i].refcnt = buf[i].refcnt + 1
            \/ i \in pinned /\ pinned' = pinned \ {i} /\ buf'[i].refcnt = buf[i].refcnt - 1 /\ Clean(i)
<1>1. i \in Buf /\ st[p].pc = "hold"
  BY Held, SMTT(30) DEF Bpin, Bunpin, At
<1>2. CASE Bpin(p)
  <2>1. i \notin pinned /\ pinned' = pinned \cup {i} /\ buf' = [buf EXCEPT ![i].refcnt = @ + 1]
    BY <1>2 DEF Bpin
  <2>2. /\ buf' \in [Buf -> BufType] /\ KeepBlockno /\ KeepValid /\ KeepLock /\ KeepDisk /\ KeepData
        /\ \A j \in Buf : j # i => buf'[j].refcnt = buf[j].refcnt
        /\ buf'[i].refcnt = buf[i].refcnt + 1
    BY <1>1, <2>1, SMTT(30) DEF CacheType, BufType, KeepBlockno, KeepValid, KeepLock, KeepDisk, KeepData
  <2> QED
    BY <1>1, <1>2, <2>1, <2>2 DEF Bpin, driver
<1>3. CASE Bunpin(p)
  <2>1. i \in pinned /\ pinned' = pinned \ {i} /\ buf' = [buf EXCEPT ![i].refcnt = @ - 1] /\ Clean(i)
    BY <1>3 DEF Bunpin
  <2>2. /\ buf' \in [Buf -> BufType] /\ KeepBlockno /\ KeepValid /\ KeepLock /\ KeepDisk /\ KeepData
        /\ \A j \in Buf : j # i => buf'[j].refcnt = buf[j].refcnt
        /\ buf'[i].refcnt = buf[i].refcnt - 1
    BY <1>1, <2>1 DEF CacheType, BufType, KeepBlockno, KeepValid, KeepLock, KeepDisk, KeepData
  <2> QED
    BY <1>1, <1>3, <2>1, <2>2 DEF Bunpin, driver
<1> QED
  BY <1>2, <1>3

\* bpin and bunpin.
LEMMA PinInv ==
  ASSUME DataInv, NEW p \in Proc, Bpin(p) \/ Bunpin(p)
  PROVE  DataInv'
<1> USE DEF DataInv
<1>0. PICK i : i = st[p].b
  BY Zenon
<1>1. /\ i \in Buf /\ st[p].pc = "hold"
      /\ UNCHANGED <<NUM, lru, st, free, req, avail, used, intr, handler, platter>>
      /\ buf' \in [Buf -> BufType]
      /\ KeepBlockno /\ KeepValid /\ KeepLock /\ KeepDisk /\ KeepData
  BY <1>0, PinEffect, Zenon
<1>2. /\ \A j \in Buf : j # i => buf'[j].refcnt = buf[j].refcnt
      /\ \/ i \notin pinned /\ pinned' = pinned \cup {i} /\ buf'[i].refcnt = buf[i].refcnt + 1
         \/ i \in pinned /\ pinned' = pinned \ {i} /\ buf'[i].refcnt = buf[i].refcnt - 1
  BY <1>0, PinEffect
<1>k. KeepHeld /\ KeepWrite /\ KeepChain
  BY <1>1 DEF KeepHeld, KeepWrite, KeepChain
<1>3. CacheType' /\ DiskType'
  <2>1. pinned' \subseteq Buf
    BY <1>1, <1>2, ZenonT(40) DEF CacheType
  <2> QED
    BY <1>1, <2>1, CacheTypeKept, DiskTypeKept DEF CacheType
<1>4. Places'
  BY <1>1, PlaceKept, SMTT(30) DEF SamePlace, KeepBlockno, KeepValid, KeepLock, Places
<1>5. Blocks' /\ Chains'
  BY <1>1, <1>k, BlocksKept, ChainsKept
<1>7. Rings' /\ Listed'
  BY <1>1, Zenon DEF Rings, Listed, Buf
<1>l. buf[i].lock = p
  BY <1>0, <1>1 DEF Places, Place, Locked
<1>8. Flights' /\ Datas'
  <2>1. SameIO
    BY <1>1, Held, Zenon DEF SameIO, InIO, KeepBlockno
  <2>2. \A j \in Buf : buf'[j].valid /\ j \notin pinned' /\ buf'[j].lock = Nobody => Clean(j)'
    BY <1>1, <1>2, <1>l, BlockIOAssumption, ZenonT(40) DEF Datas, Clean, KeepValid, KeepLock, KeepBlockno, KeepData
  <2>3. \A q \in Proc : st[q].pc \in InIO => buf'[st[q].b].data = buf[st[q].b].data
    BY <1>1, Held, Zenon DEF KeepData, InIO
  <2> QED
    BY <1>1, <2>1, <2>2, <2>3, FlightsKept, DatasKept, Zenon
<1>9. Sleeps'
  BY <1>1, Held DEF Sleeps, KeepLock
<1> QED
  BY <1>3, <1>4, <1>5, <1>7, <1>8, <1>9

-----------------------------------------------------------------------------
(* brelse                                                                  *)

\* releasesleep.
LEMMA ReleaseEffect ==
  ASSUME CacheType, Places, NEW p \in Proc, Releasesleep(p), NEW i, i = st[p].b
  PROVE  /\ i \in Buf /\ st[p].pc = "hold" /\ (Clean(i) \/ i \in pinned)
         /\ UNCHANGED <<NUM, lru, pinned, free, req, avail, used, intr, handler, platter>>
         /\ buf' \in [Buf -> BufType] /\ st' \in [Proc -> StType]
         /\ KeepBlockno /\ KeepValid /\ KeepRefcnt /\ KeepDisk /\ KeepData
         /\ KeepHeld /\ KeepWrite /\ KeepChain
         /\ \A j \in Buf : buf'[j].lock = IF j = i THEN Nobody ELSE buf[j].lock
         /\ \A q \in Proc : st'[q].pc = IF q = p THEN "release"
                                        ELSE IF st[q].b = i /\ st[q].pc = "lock_sleep" THEN "lock" ELSE st[q].pc
<1>1. i \in Buf /\ st[p].pc = "hold" /\ (Clean(i) \/ i \in pinned) /\ buf' = [buf EXCEPT ![i].lock = Nobody]
  BY Held DEF Releasesleep, At
<1>2. /\ buf' \in [Buf -> BufType] /\ KeepBlockno /\ KeepValid /\ KeepRefcnt /\ KeepDisk /\ KeepData
      /\ \A j \in Buf : buf'[j].lock = IF j = i THEN Nobody ELSE buf[j].lock
  BY <1>1 DEF CacheType, BufType, KeepBlockno, KeepValid, KeepRefcnt, KeepDisk, KeepData
<1>3. Wakeup(p, "release", {q \in Proc : st[q].b = i}, "lock_sleep", "lock")
  BY Zenon DEF Releasesleep
<1>4. /\ st' \in [Proc -> StType] /\ KeepHeld /\ KeepWrite /\ KeepChain
      /\ \A q \in Proc : st'[q].pc = IF q = p THEN "release"
                                     ELSE IF q \in {r \in Proc : st[r].b = i} /\ st[q].pc = "lock_sleep"
                                          THEN "lock" ELSE st[q].pc
  BY <1>3, WakeEffect, SMTT(30) DEF Labels
<1> QED
  BY <1>1, <1>2, <1>4 DEF Releasesleep, driver

\* releasesleep gives the lock back, and wakes who waits for it.
LEMMA ReleaseInv ==
  ASSUME DataInv, NEW p \in Proc, Releasesleep(p)
  PROVE  DataInv'
<1> USE DEF DataInv
<1>0. PICK i : i = st[p].b
  BY SMTT(30)
<1>1. /\ i \in Buf /\ st[p].pc = "hold" /\ (Clean(i) \/ i \in pinned)
      /\ UNCHANGED <<NUM, lru, pinned, free, req, avail, used, intr, handler, platter>>
      /\ buf' \in [Buf -> BufType] /\ st' \in [Proc -> StType]
      /\ KeepBlockno /\ KeepValid /\ KeepRefcnt /\ KeepDisk /\ KeepData
      /\ KeepHeld /\ KeepWrite /\ KeepChain
  BY <1>0, ReleaseEffect, Zenon
<1>2. /\ \A j \in Buf : buf'[j].lock = IF j = i THEN Nobody ELSE buf[j].lock
      /\ \A q \in Proc : st'[q].pc = IF q = p THEN "release"
                                     ELSE IF st[q].b = i /\ st[q].pc = "lock_sleep" THEN "lock" ELSE st[q].pc
  BY <1>0, ReleaseEffect
<1>3. CacheType' /\ DiskType'
  BY <1>1, CacheTypeKept, DiskTypeKept DEF CacheType
<1>4. ~st[p].write /\ st[p].chain = {} /\ \A j \in Buf : buf[j].lock = p <=> j = i
  BY <1>0, <1>1, Zenon DEF Places, Place, InIO, Locked
<1>5. Places'
  <2>1. ASSUME NEW q \in Proc, q # p
        PROVE  Place(q)'
    <3>1. \A j \in Buf : buf'[j].lock = q <=> buf[j].lock = q
      BY <1>2, <1>4, <2>1, BlockIOAssumption, Zenon
    <3>2. /\ st'[q].pc = "idle" <=> st[q].pc = "idle"
          /\ st'[q].pc = "hold" <=> st[q].pc = "hold"
          /\ st'[q].pc \in Locked <=> st[q].pc \in Locked
          /\ st'[q].pc \in InIO <=> st[q].pc \in InIO
      BY <1>2, <2>1, Zenon DEF Locked, InIO
    <3> QED
      BY <1>1, <3>1, <3>2, PlaceKept
, Zenon      DEF SamePlace, KeepBlockno, KeepValid, KeepHeld, KeepWrite, KeepChain, Places
  <2>2. Place(p)'
    <3>1. /\ st'[p].b = i /\ ~st'[p].write /\ st'[p].chain = {} /\ i # 0
          /\ st'[p].pc \notin Locked /\ st'[p].pc # "idle"
      <4>1. st'[p].b = i /\ ~st'[p].write /\ st'[p].chain = {}
        BY <1>0, <1>1, <1>4, Zenon DEF KeepHeld, KeepWrite, KeepChain
      <4>2. i # 0 /\ st'[p].pc = "release"
        BY <1>1, <1>2 DEF Buf
      <4> QED
        BY <4>1, <4>2 DEF Locked
    <3>2. buf'[i].blockno \in Block
      BY <1>0, <1>1, Held, Zenon DEF KeepBlockno
    <3>3. \A j \in Buf : buf'[j].lock # p
      BY <1>2, <1>4, BlockIOAssumption, Zenon
    <3> QED
      BY <3>1, <3>2, <3>3 DEF Place, Buf
  <2> QED
    BY <2>1, <2>2, SMTT(30) DEF Places
<1>6. Blocks' /\ Chains'
  BY <1>1, BlocksKept, ChainsKept, Zenon
<1>7. Rings' /\ Listed'
  BY <1>1, Zenon DEF Rings, Listed, Buf
<1>8. Flights' /\ Datas'
  <2>1. SameIO
    BY <1>1, <1>2, Held DEF SameIO, InIO, KeepBlockno, KeepHeld, KeepWrite, KeepChain
  <2>2. \A j \in Buf : buf'[j].valid /\ j \notin pinned' /\ buf'[j].lock = Nobody => Clean(j)'
    BY <1>1, <1>2, ZenonT(40) DEF Datas, Clean, KeepValid, KeepData, KeepBlockno
  <2>3. \A q \in Proc : st[q].pc \in InIO => buf'[st[q].b].data = buf[st[q].b].data
    BY <1>1, Held, Zenon DEF KeepData, InIO
  <2> QED
    BY <1>1, <2>1, <2>2, <2>3, FlightsKept, DatasKept, ZenonT(40)
<1>9. Sleeps'
  <2>1. ASSUME NEW q \in Proc, st'[q].pc = "lock_sleep"
        PROVE  buf'[st'[q].b].lock # Nobody
    <3>1. st[q].pc = "lock_sleep" /\ st[q].b # i
      BY <1>2, <2>1
    <3>2. st[q].b \in Buf
      BY <3>1, Held, Zenon
    <3> QED
      BY <1>1, <1>2, <3>1, <3>2, Zenon DEF Sleeps, KeepHeld
  <2>2. ASSUME NEW q \in Proc, st'[q].pc = "desc_sleep"
        PROVE  Cardinality(free') < 3
    BY <1>1, <1>2, <2>2 DEF Sleeps
  <2> QED
    BY <2>1, <2>2 DEF Sleeps
<1> QED
  BY <1>3, <1>5, <1>6, <1>7, <1>8, <1>9, SMTT(30)

\* i goes to the front of the list: no buffer is lost.
LEMMA FrontListed ==
  ASSUME CacheType, Listed, NEW i \in Buf
  PROVE  MoveToFront(i) \in [Buf -> Buf] /\ \A j \in Buf : \E n \in Buf : MoveToFront(i)[n] = j
<1>1. PICK at \in Buf : at = (CHOOSE n \in Buf : lru[n] = i) /\ lru[at] = i
  BY DEF Listed
<1>2. \A n \in Buf : MoveToFront(i)[n] = IF n = 1 THEN i ELSE IF n <= at THEN lru[n - 1] ELSE lru[n]
  BY <1>1 DEF MoveToFront
<1>3. NBUF \in Nat /\ NBUF > 0
  BY BlockIOAssumption
<1>4. MoveToFront(i) \in [Buf -> Buf]
  <2>1. MoveToFront(i) = [n \in Buf |-> IF n = 1 THEN i ELSE IF n <= at THEN lru[n - 1] ELSE lru[n]]
    BY <1>1 DEF MoveToFront
  <2>2. \A n \in Buf : n # 1 => n - 1 \in Buf
    BY <1>3 DEF Buf
  <2>3. \A n \in Buf : (IF n = 1 THEN i ELSE IF n <= at THEN lru[n - 1] ELSE lru[n]) \in Buf
    BY <2>2 DEF CacheType
  <2> QED
    BY <2>1, <2>3
<1>5. ASSUME NEW j \in Buf
      PROVE  \E n \in Buf : MoveToFront(i)[n] = j
  <2>1. PICK n \in Buf : lru[n] = j
    BY DEF Listed
  <2>2. CASE n = at
    BY <1>1, <1>2, <1>3, <2>1, <2>2 DEF Buf
  <2>3. CASE n < at
    <3>1. n + 1 \in Buf /\ n + 1 # 1 /\ n + 1 <= at /\ (n + 1) - 1 = n
      BY <1>3, <2>3 DEF Buf
    <3> QED
      BY <1>2, <2>1, <3>1
  <2>4. CASE n > at
    <3>1. n # 1 /\ ~(n <= at)
      BY <1>3, <2>4, SMTT(30) DEF Buf
    <3> QED
      BY <1>2, <2>1, <3>1
  <2> QED
    BY <1>3, <2>2, <2>3, <2>4 DEF Buf
<1> QED
  BY <1>4, <1>5

\* The second half of brelse.
LEMMA BrelseEffect ==
  ASSUME CacheType, Places, NEW p \in Proc, Brelse(p), NEW i, i = st[p].b
  PROVE  /\ i \in Buf /\ st[p].pc = "release"
         /\ UNCHANGED <<NUM, pinned, free, req, avail, used, intr, handler, platter>>
         /\ buf' \in [Buf -> BufType] /\ st' \in [Proc -> StType]
         /\ lru' = lru \/ lru' = MoveToFront(i)
         /\ KeepBlockno /\ KeepValid /\ KeepLock /\ KeepDisk /\ KeepData
         /\ \A j \in Buf : buf'[j].refcnt = IF j = i THEN buf[j].refcnt - 1 ELSE buf[j].refcnt
         /\ \A q \in Proc : st'[q] = IF q = p THEN Idle ELSE st[q]
<1>1. i \in Buf /\ st[p].pc = "release" /\ buf' = [buf EXCEPT ![i].refcnt = @ - 1] /\ st' = [st EXCEPT ![p] = Idle]
  BY Held DEF Brelse, At
<1>2. /\ buf' \in [Buf -> BufType] /\ KeepBlockno /\ KeepValid /\ KeepLock /\ KeepDisk /\ KeepData
      /\ \A j \in Buf : buf'[j].refcnt = IF j = i THEN buf[j].refcnt - 1 ELSE buf[j].refcnt
  BY <1>1 DEF CacheType, BufType, KeepBlockno, KeepValid, KeepLock, KeepDisk, KeepData
<1>3. st' \in [Proc -> StType] /\ \A q \in Proc : st'[q] = IF q = p THEN Idle ELSE st[q]
  BY <1>1, BlockIOAssumption DEF CacheType, StType, Labels, Idle
<1>4. lru' = lru \/ lru' = MoveToFront(i)
  BY DEF Brelse
<1> QED
  BY <1>1, <1>2, <1>3, <1>4 DEF Brelse, driver

\* The second half of brelse.
LEMMA BrelseInv ==
  ASSUME DataInv, NEW p \in Proc, Brelse(p)
  PROVE  DataInv'
<1> USE DEF DataInv
<1>0. PICK i : i = st[p].b
  BY SMTT(30)
<1>1. /\ i \in Buf /\ st[p].pc = "release"
      /\ UNCHANGED <<NUM, pinned, free, req, avail, used, intr, handler, platter>>
      /\ buf' \in [Buf -> BufType] /\ st' \in [Proc -> StType]
      /\ lru' = lru \/ lru' = MoveToFront(i)
      /\ KeepBlockno /\ KeepValid /\ KeepLock /\ KeepDisk /\ KeepData
  BY <1>0, BrelseEffect, Zenon
<1>2. /\ \A j \in Buf : buf'[j].refcnt = IF j = i THEN buf[j].refcnt - 1 ELSE buf[j].refcnt
      /\ \A q \in Proc : st'[q] = IF q = p THEN Idle ELSE st[q]
  BY <1>0, BrelseEffect
<1>m. lru' \in [Buf -> Buf] /\ Listed'
  <2>1. CASE lru' = lru
    BY <2>1 DEF Listed, CacheType, Buf
  <2>2. CASE lru' = MoveToFront(i)
    <3>1. lru' \in [Buf -> Buf] /\ \A j \in Buf : \E n \in Buf : lru'[n] = j
      BY <1>1, <2>2, FrontListed, Zenon
    <3> QED
      BY <3>1, Zenon DEF Listed, Buf
  <2> QED
    BY <1>1, <2>1, <2>2
<1>3. CacheType' /\ DiskType'
  BY <1>1, <1>m, CacheTypeKept, DiskTypeKept, Zenon DEF CacheType
<1>4. /\ st[p].chain = {} /\ st'[p].pc = "idle" /\ st'[p].b = 0 /\ st'[p].chain = {} /\ ~st'[p].write
      /\ \A q \in Proc : q # p => st'[q] = st[q]
  <2>1. st[p].chain = {}
    BY <1>1, Zenon DEF Places, Place, InIO
  <2> QED
    BY <1>2, <2>1 DEF Idle
<1>5. Places'
  <2>1. ASSUME NEW q \in Proc, q # p
        PROVE  Place(q)'
    BY <1>1, <1>4, <2>1, PlaceKept, Zenon DEF SamePlace, KeepBlockno, KeepValid, KeepLock, Places
  <2>2. Place(p)'
    <3>1. \A j \in Buf : buf'[j].lock # p
      BY <1>1, SMTT(30) DEF Places, Place, KeepLock, Locked
    <3> QED
      BY <1>4, <3>1, SMTT(30) DEF Place, Locked, Buf
  <2> QED
    BY <2>1, <2>2, SMTT(30) DEF Places
<1>6. Blocks'
  BY <1>1, BlocksKept
<1>7. Chains' /\ Rings'
  <2>1. KeepChain
    BY <1>4, Zenon DEF KeepChain
  <2> QED
    BY <1>1, <2>1, ChainsKept, Zenon DEF Rings
<1>8. Flights' /\ Datas'
  <2>1. SameIO
    BY <1>1, <1>4, Held, ZenonT(40) DEF SameIO, InIO, KeepBlockno
  <2>2. \A j \in Buf : buf'[j].valid /\ j \notin pinned' /\ buf'[j].lock = Nobody => Clean(j)'
    BY <1>1 DEF Datas, Clean, KeepValid, KeepLock, KeepData, KeepBlockno
  <2>3. \A q \in Proc : st[q].pc \in InIO => buf'[st[q].b].data = buf[st[q].b].data
    BY <1>1, Held, Zenon DEF KeepData, InIO
  <2> QED
    BY <1>1, <2>1, <2>2, <2>3, FlightsKept, DatasKept, Zenon
<1>9. Sleeps'
  BY <1>1, <1>4, Held, Zenon DEF Sleeps, KeepLock
<1> QED
  BY <1>m, <1>3, <1>5, <1>6, <1>7, <1>8, <1>9, Zenon

-----------------------------------------------------------------------------
(* All the steps                                                           *)

\* binit and virtio_disk_init establish the invariant.
LEMMA InitData == Init => DataInv
<1> SUFFICES ASSUME Init
             PROVE  DataInv
  OBVIOUS
<1> USE BlockIOAssumption
<1>0. PICK v \in Val : v = CHOOSE w \in Val : TRUE
  OBVIOUS
<1>1. /\ NUM \in Nat /\ NUM >= 3 /\ free = Desc /\ avail = {} /\ used = <<>> /\ pinned = {}
      /\ buf \in [Buf -> BufType] /\ lru \in [Buf -> Buf] /\ st \in [Proc -> StType]
      /\ req \in [Desc -> ReqType] /\ platter \in [Block -> Val]
  <2>1. NUM \in Nat /\ NUM >= 3 /\ free = Desc /\ avail = {} /\ used = <<>> /\ pinned = {}
    BY Zenon DEF Init
  <2>2. buf \in [Buf -> BufType]
    BY <1>0 DEF Init, BufType
  <2>3. lru \in [Buf -> Buf]
    BY SMTT(30) DEF Init, Buf
  <2>4. st \in [Proc -> StType]
    BY SMTT(30) DEF Init, StType, Idle, Labels
  <2>5. req \in [Desc -> ReqType] /\ platter \in [Block -> Val]
    BY <1>0, SMTT(30) DEF Init, ReqType, NoReq
  <2> QED
    BY <2>1, <2>2, <2>3, <2>4, <2>5
<1>2. /\ \A i \in Buf : /\ buf[i].blockno = NoBlock /\ ~buf[i].valid /\ buf[i].refcnt = 0
                        /\ buf[i].lock = Nobody /\ ~buf[i].disk
      /\ \A p \in Proc : st[p].pc = "idle" /\ st[p].b = 0 /\ ~st[p].write /\ st[p].chain = {}
      /\ \A n \in Buf : lru[n] = NBUF + 1 - n
  BY DEF Init, Idle
<1>3. CacheType /\ DiskType
  BY <1>1, SMTT(30) DEF CacheType, DiskType
<1>4. Places /\ Blocks /\ Chains /\ Sleeps
  <2>1. Places
    BY <1>2 DEF Places, Place, Locked, Buf
  <2> QED
    BY <1>1, <1>2, <2>1, Zenon DEF Blocks, Chains, Sleeps
<1>6. Pending = {} /\ Heads(used) = {}
  BY <1>1, SMTT(30) DEF Pending, Heads
<1>7. Rings /\ Flights /\ Datas
  BY <1>1, <1>2, <1>6 DEF Rings, Flights, Datas, Completed, InIO
<1>8. Listed
  <2> SUFFICES ASSUME NEW i \in Buf
               PROVE  \E n \in Buf : lru[n] = i
    BY DEF Listed
  <2>1. NBUF + 1 - i \in Buf /\ NBUF + 1 - (NBUF + 1 - i) = i
    BY DEF Buf
  <2> QED
    BY <1>2, <2>1, Zenon
<1> QED
  BY <1>3, <1>4, <1>7, <1>8 DEF DataInv

\* Every step keeps the invariant, given what bget and alloc3_desc find.
LEMMA NextData == DataInv /\ Choices /\ [Next]_vars => DataInv'
<1> SUFFICES ASSUME DataInv, Choices, [Next]_vars
             PROVE  DataInv'
  OBVIOUS
<1>0. CacheType
  BY DEF DataInv
<1>1. ASSUME NEW p \in Proc, Kernel(p)
      PROVE  DataInv'
  BY <1>0, <1>1, AcquireInv, BrelseInv, SubmitInv, DoneInv, QuietSteps, QuietInv DEF Kernel
<1>2. ASSUME NEW p \in Proc, User(p)
      PROVE  DataInv'
  BY <1>0, <1>2, HitInv, RecycleInv, ChangeInv, WriteInv, PinInv, ReleaseInv, QuietSteps, QuietInv, Zenon DEF User
<1>3. CASE Device
  BY <1>3, DeviceInv DEF Device
<1>4. CASE IntrEnter \/ IntrPanic \/ IntrExit \/ UNCHANGED vars
  BY <1>0, <1>4, QuietIdle, QuietInv
<1>5. CASE IntrOne
  BY <1>5, IntrInv, Zenon
<1> QED
  BY <1>1, <1>2, <1>3, <1>4, <1>5 DEF Next, Interrupt, Halted

-----------------------------------------------------------------------------
(* What content and what owner a block shows                               *)

\* What content and owner a block shows.
Shown ==
  /\ Content \in [Block -> Val] /\ Owner \in [Block -> Proc \cup {Nobody}]
  /\ \A i \in Buf : buf[i].blockno \in Block /\ buf[i].valid => Content[buf[i].blockno] = buf[i].data
  /\ \A b \in Block : (\A i \in Buf : buf[i].blockno = b => ~buf[i].valid) => Content[b] = platter[b]
  /\ \A b \in Block, p \in Proc : Owns(p, b) => Owner[b] = p
  /\ \A b \in Block : (\A p \in Proc : ~Owns(p, b)) => Owner[b] = Nobody

\* A process that owns a block has the lock of the block's buffer.
LEMMA OwnerLocks ==
  ASSUME DataInv, NEW b \in Block, NEW i \in Buf, buf[i].blockno = b, NEW p \in Proc, Owns(p, b)
  PROVE  st[p].b = i /\ st[p].pc \in Locked /\ buf[i].lock = p
<1>1. st[p].b \in Buf /\ buf[st[p].b].blockno = b
  BY SMTT(30) DEF Owns, DataInv, CacheType, StType, Buf
<1>2. st[p].b = i
  BY <1>1, Zenon DEF DataInv, Blocks
<1>3. st[p].pc \in Locked
  BY DEF Owns, DataInv, Places, Place, Locked
<1> QED
  BY <1>2, <1>3 DEF DataInv, Places, Place

\* A block has one owner, who has the lock of its buffer.
LEMMA OneOwner ==
  ASSUME DataInv, NEW b \in Block, NEW p \in Proc, NEW q \in Proc, Owns(p, b), Owns(q, b)
  PROVE  p = q
<1>1. PICK i \in Buf : i = st[p].b /\ buf[i].blockno = b
  BY SMTT(30) DEF Owns, DataInv, CacheType, StType, Buf
<1> QED
  BY <1>1, OwnerLocks

\* In every state of the invariant a block shows the content and the owner it should.
LEMMA ShownInv == DataInv => Shown
<1> SUFFICES ASSUME DataInv
             PROVE  Shown
  BY SMTT(30)
<1>1. ASSUME NEW i \in Buf, buf[i].blockno \in Block, buf[i].valid
      PROVE  Content[buf[i].blockno] = buf[i].data
  <2>1. PICK b \in Block : b = buf[i].blockno
    BY <1>1
  <2>2. Cached(b) = {i}
    BY <2>1 DEF Cached, DataInv, Blocks
  <2>3. (CHOOSE j \in Cached(b) : buf[j].valid) = i
    BY <1>1, <2>2
  <2> QED
    BY <1>1, <2>1, <2>2, <2>3 DEF Content
<1>2. ASSUME NEW b \in Block, \A i \in Buf : buf[i].blockno = b => ~buf[i].valid
      PROVE  Content[b] = platter[b]
  BY <1>2 DEF Content, Cached
<1>3. Content \in [Block -> Val]
  <2>1. \A b \in Block : Content[b] \in Val
    BY <1>1, <1>2 DEF DataInv, CacheType, BufType, DiskType
  <2> QED
    BY <2>1 DEF Content
<1>4. ASSUME NEW b \in Block, NEW p \in Proc, Owns(p, b)
      PROVE  Owner[b] = p
  <2>1. (CHOOSE q \in Proc : Owns(q, b)) = p
    BY <1>4, OneOwner
  <2> QED
    BY <1>4, <2>1 DEF Owner
<1>5. ASSUME NEW b \in Block, \A p \in Proc : ~Owns(p, b)
      PROVE  Owner[b] = Nobody
  BY <1>5 DEF Owner
<1>6. Owner \in [Block -> Proc \cup {Nobody}]
  <2>1. \A b \in Block : Owner[b] \in Proc \cup {Nobody}
    BY <1>4, <1>5, Zenon
  <2> QED
    BY <2>1 DEF Owner
<1> QED
  BY <1>1, <1>2, <1>3, <1>4, <1>5, <1>6, Zenon DEF Shown

\* What the refinement needs of a state.
View == DataInv /\ Choices /\ Shown

\* Content changes with the disk and with what valid buffers hold only.
LEMMA ContentSame ==
  ASSUME View, View', platter' = platter, KeepBlockno, KeepValid, KeepData
  PROVE  Content' = Content
<1>1. ASSUME NEW b \in Block
      PROVE  Content'[b] = Content[b]
  <2>1. CASE \E i \in Buf : buf[i].blockno = b /\ buf[i].valid
    BY <2>1, SMTT(30) DEF View, Shown, KeepBlockno, KeepValid, KeepData, Buf
  <2>2. CASE \A i \in Buf : buf[i].blockno = b => ~buf[i].valid
    BY <2>2, Zenon DEF View, Shown, KeepBlockno, KeepValid, Buf
  <2> QED
    BY <2>1, <2>2, Zenon
<1> QED
  BY <1>1 DEF View, Shown

\* Owner is the same when everyone owns the same blocks.
LEMMA OwnerSame ==
  ASSUME View, View', \A p \in Proc, b \in Block : Owns(p, b)' <=> Owns(p, b)
  PROVE  Owner' = Owner
<1>1. ASSUME NEW b \in Block
      PROVE  Owner'[b] = Owner[b]
  BY Zenon DEF View, Shown
<1> QED
  BY <1>1, SMTT(30) DEF View, Shown

\* A block without an owner gets one.
LEMMA OwnerSet ==
  ASSUME View, View', NEW b \in Block, NEW p \in Proc, Owns(p, b)',
         \A q \in Proc, c \in Block : c # b => (Owns(q, c)' <=> Owns(q, c))
  PROVE  Owner' = [Owner EXCEPT ![b] = p]
<1>1. ASSUME NEW c \in Block, c # b
      PROVE  Owner'[c] = Owner[c]
  BY <1>1, Zenon DEF View, Shown
<1>2. Owner'[b] = p
  BY Zenon DEF View, Shown
<1> QED
  BY <1>1, <1>2, Zenon DEF View, Shown

\* A block loses its owner.
LEMMA OwnerCleared ==
  ASSUME View, View', NEW b \in Block, \A q \in Proc : ~Owns(q, b)',
         \A q \in Proc, c \in Block : c # b => (Owns(q, c)' <=> Owns(q, c))
  PROVE  Owner' = [Owner EXCEPT ![b] = Nobody]
<1>1. ASSUME NEW c \in Block, c # b
      PROVE  Owner'[c] = Owner[c]
  BY <1>1, Zenon DEF View, Shown
<1>2. Owner'[b] = Nobody
  BY DEF View, Shown
<1> QED
  BY <1>1, <1>2, Zenon DEF View, Shown

\* What a process owns depends on its buffer, the buffer's block and its place.
LEMMA OwnsSame ==
  ASSUME CacheType, NEW q \in Proc, st'[q].b = st[q].b,
         st[q].b \in Buf => buf'[st[q].b].blockno = buf[st[q].b].blockno,
         (st'[q].pc = "hold" \/ st'[q].write) <=> (st[q].pc = "hold" \/ st[q].write)
  PROVE  \A b \in Block : Owns(q, b)' <=> Owns(q, b)
<1>1. st[q].b # 0 => st[q].b \in Buf
  BY DEF CacheType, StType, Buf
<1> QED
  BY <1>1, Zenon DEF Owns

\* A quiet step shows nothing.
LEMMA QuietView ==
  ASSUME View, View', Quiet
  PROVE  UNCHANGED <<Content, Owner>>
<1>1. Content' = Content
  BY ContentSame, Zenon DEF Quiet, KeepBlockno, KeepValid, KeepData
<1>2. ASSUME NEW q \in Proc
      PROVE  \A b \in Block : Owns(q, b)' <=> Owns(q, b)
  <2>1. (st'[q].pc = "hold" \/ st'[q].write) <=> (st[q].pc = "hold" \/ st[q].write)
    BY DEF Quiet, Dozes, KeepWrite
  <2> QED
    BY <2>1, OwnsSame, Zenon DEF Quiet, KeepHeld, View, DataInv
<1> QED
  BY <1>1, <1>2, OwnerSame

=============================================================================
