--------------------------- MODULE BlockIOProofs ----------------------------
(***************************************************************************)
(* Proofs about BlockIO, for every number of processes, blocks, buffers     *)
(* and descriptors: CacheSafe always holds, and the buffer cache on top of  *)
(* the virtio disk implements BlockStore.                                   *)
(*                                                                          *)
(* The invariant is DataInv of BlockIODiskProofs with RefcntExact.  Here    *)
(* are the refinement, step by step, then the counts (of the processes at   *)
(* a buffer and of the free descriptors), what bget and alloc3_desc find    *)
(* by them, and the theorems.                                               *)
(***************************************************************************)
EXTENDS BlockIOCacheProofs

\* The inductive invariant.
IOInv == DataInv /\ RefcntExact

-----------------------------------------------------------------------------
(* BlockStore, step by step                                                *)

\* A recycled buffer's block has been written: its content is the disk's.
LEMMA BgetView ==
  ASSUME View, View', NEW p \in Proc, NEW b \in Block, BgetHit(p, b) \/ BgetRecycle(p, b)
  PROVE  UNCHANGED <<Content, Owner>>
<1>1. CacheType /\ Places /\ DataInv /\ Choices
  BY DEF View, DataInv
<1>2. CASE BgetHit(p, b)
  <2>1. /\ st[p].pc = "idle" /\ platter' = platter /\ KeepBlockno /\ KeepValid /\ KeepData
    BY <1>1, <1>2, HitEffect
  <2>2. PICK i \in Buf : \A q \in Proc : st'[q] = IF q = p THEN Got(i) ELSE st[q]
    BY <1>1, <1>2, HitEffect
  <2>3. ASSUME NEW q \in Proc, q # p
        PROVE  \A c \in Block : Owns(q, c)' <=> Owns(q, c)
    BY <1>1, <2>1, <2>2, <2>3, OwnsSame DEF KeepBlockno
  <2>4. \A c \in Block : ~Owns(p, c)' /\ ~Owns(p, c)
    BY <1>1, <2>1, <2>2 DEF Owns, Got, Places, Place
  <2> QED
    BY <2>1, <2>3, <2>4, ContentSame, OwnerSame
<1>3. CASE BgetRecycle(p, b)
  <2>0. PICK i \in Buf : i = Oldest /\ buf[i].refcnt = 0
    BY <1>1, <1>3 DEF BgetRecycle, Choices
  <2>1. /\ st[p].pc = "idle" /\ platter' = platter /\ KeepData
        /\ ~buf'[i].valid /\ \A j \in Buf : buf[j].blockno # b
        /\ \A j \in Buf : /\ buf'[j].blockno = IF j = i THEN b ELSE buf[j].blockno
                          /\ j # i => buf'[j].valid = buf[j].valid
        /\ \A q \in Proc : st'[q] = IF q = p THEN Got(i) ELSE st[q]
    BY <1>1, <1>3, <2>0, RecycleEffect
  <2>2. i \notin pinned /\ buf[i].lock = Nobody /\ \A q \in Proc : st[q].b # i
    BY <1>1, <2>0, Unheld
  <2>3. ASSUME NEW q \in Proc, q # p
        PROVE  \A c \in Block : Owns(q, c)' <=> Owns(q, c)
    BY <1>1, <2>1, <2>2, <2>3, OwnsSame, Zenon
  <2>4. \A c \in Block : ~Owns(p, c)' /\ ~Owns(p, c)
    BY <1>1, <2>1 DEF Owns, Got, Places, Place
  <2>5. ASSUME NEW c \in Block
        PROVE  Content'[c] = Content[c]
    <3>1. CASE \E j \in Buf : j # i /\ buf[j].blockno = c /\ buf[j].valid
      BY <2>1, <3>1 DEF View, Shown, KeepData, Buf
    <3>2. CASE buf[i].blockno = c /\ buf[i].valid
      <4>1. \A j \in Buf : buf[j].blockno = c => j = i
        BY <1>1, <3>2 DEF DataInv, Blocks
      <4>2. \A j \in Buf : buf'[j].blockno = c => ~buf'[j].valid
        BY <2>1, <4>1
      <4>3. Content'[c] = platter'[c]
        BY <4>2 DEF View, Shown, Buf
      <4>4. Content[c] = buf[i].data
        BY <3>2 DEF View, Shown
      <4>5. Clean(i)
        BY <1>1, <2>2, <3>2, Zenon DEF DataInv, Datas
      <4> QED
        BY <2>1, <3>2, <4>3, <4>4, <4>5, Zenon DEF Clean
    <3>3. CASE \A j \in Buf : buf[j].blockno = c => ~buf[j].valid
      <4>1. \A j \in Buf : buf'[j].blockno = c => ~buf'[j].valid
        BY <2>1, <3>3
      <4> QED
        BY <2>1, <3>3, <4>1 DEF View, Shown, Buf
    <3> QED
      BY <3>1, <3>2, <3>3, Zenon
  <2>6. Content' = Content
    BY <2>5 DEF View, Shown
  <2> QED
    BY <2>3, <2>4, <2>6, OwnerSame
<1> QED
  BY <1>2, <1>3

\* The steps that touch neither what a block shows nor who has it.
LEMMA PlainView ==
  ASSUME View, View', NEW p \in Proc, Bwrite(p) \/ Bpin(p) \/ Bunpin(p) \/ Brelse(p) \/ Submit(p)
  PROVE  UNCHANGED <<Content, Owner>>
<1>1. CacheType /\ DiskType /\ Places /\ Choices
  BY DEF View, DataInv
<1>2. platter' = platter /\ KeepBlockno /\ KeepValid /\ KeepData
  <2>1. CASE Bwrite(p)
    BY <1>1, <2>1, WriteEffect, Zenon DEF KeepBlockno, KeepValid, KeepData
  <2>2. CASE Bpin(p) \/ Bunpin(p)
    BY <1>1, <2>2, PinEffect, Zenon
  <2>3. CASE Brelse(p)
    BY <1>1, <2>3, BrelseEffect
  <2>4. CASE Submit(p)
    BY <1>1, <2>4, SubmitEffect
  <2> QED
    BY <2>1, <2>2, <2>3, <2>4
<1>3. ASSUME NEW q \in Proc
      PROVE  \A b \in Block : Owns(q, b)' <=> Owns(q, b)
  <2>1. CASE Bwrite(p)
    <3>1. /\ st[p].pc = "hold" /\ KeepHeld /\ (q # p => st'[q] = st[q]) /\ st'[p].write = TRUE
      BY <1>1, <2>1, WriteEffect, Zenon
    <3> QED
      BY <1>1, <1>2, <3>1, OwnsSame DEF KeepHeld, KeepBlockno
  <2>2. CASE Bpin(p) \/ Bunpin(p)
    <3>1. st' = st
      BY <1>1, <2>2, PinEffect
    <3> QED
      BY <1>1, <1>2, <3>1, OwnsSame DEF KeepBlockno
  <2>3. CASE Brelse(p)
    <3>1. st[p].pc = "release" /\ st'[q] = IF q = p THEN Idle ELSE st[q]
      BY <1>1, <2>3, BrelseEffect, Zenon
    <3>2. CASE q = p
      BY <1>1, <3>1, <3>2 DEF Owns, Idle, Places, Place, Locked
    <3>3. CASE q # p
      BY <1>1, <1>2, <3>1, <3>3, OwnsSame DEF KeepBlockno
    <3> QED
      BY <3>2, <3>3
  <2>4. CASE Submit(p)
    <3>1. /\ st[p].pc = "desc" /\ KeepHeld /\ KeepWrite /\ (q # p => st'[q] = st[q]) /\ st'[p].pc = "io_sleep"
      BY <1>1, <2>4, SubmitEffect
    <3> QED
      BY <1>1, <1>2, <3>1, OwnsSame, Zenon DEF KeepHeld, KeepWrite, KeepBlockno
  <2> QED
    BY <2>1, <2>2, <2>3, <2>4
<1> QED
  BY <1>2, <1>3, ContentSame, OwnerSame

\* The device reads into a buffer that is not valid, and writes what a valid one has.
LEMMA DeviceView ==
  ASSUME View, View', NEW h \in avail, NEW ok \in BOOLEAN, DeviceDone(h, ok)
  PROVE  UNCHANGED <<Content, Owner>>
<1>1. CacheType /\ DiskType /\ Places /\ DataInv
  BY Zenon DEF View, DataInv
<1>2. PICK p \in Proc : /\ Serves(h, p) /\ st[p].b \in Buf /\ buf[st[p].b].blockno \in Block
                        /\ st[p].pc \in Locked
  BY <1>1, Served DEF Pending
<1>3. PICK i \in Buf : i = req[h].b /\ i = st[p].b /\ req[h].sector = buf[i].blockno /\ req[h].sector \in Block
  BY <1>2, Zenon DEF Serves
<1>4. buf[i].valid <=> req[h].write
  BY <1>1, <1>2, <1>3 DEF Serves, InIO, Places, Place
<1>5. /\ st' = st /\ KeepBlockno /\ KeepValid
      /\ \A j \in Buf : j # i \/ req[h].write \/ ~ok => buf'[j].data = buf[j].data
      /\ \A b \in Block : b # req[h].sector \/ ~req[h].write \/ ~ok => platter'[b] = platter[b]
  BY <1>1, <1>3, DeviceEffect, ZenonT(40)
<1>6. ASSUME NEW b \in Block
      PROVE  Content'[b] = Content[b]
  <2>1. CASE \E j \in Buf : buf[j].blockno = b /\ buf[j].valid
    <3>1. PICK j \in Buf : buf[j].blockno = b /\ buf[j].valid
      BY <2>1
    <3>2. buf'[j].data = buf[j].data
      BY <1>4, <1>5, <3>1
    <3>3. buf'[j].blockno = b /\ buf'[j].valid
      BY <1>5, <3>1 DEF KeepBlockno, KeepValid
    <3> QED
      BY <3>1, <3>2, <3>3, ZenonT(40) DEF View, Shown, Buf
  <2>2. CASE \A j \in Buf : buf[j].blockno = b => ~buf[j].valid
    <3>1. platter'[b] = platter[b]
      BY <1>3, <1>4, <1>5, <2>2
    <3>2. \A j \in Buf : buf'[j].blockno = b => ~buf'[j].valid
      BY <1>5, <2>2, Zenon DEF KeepBlockno, KeepValid
    <3> QED
      BY <2>2, <3>1, <3>2, Zenon DEF View, Shown, Buf
  <2> QED
    BY <2>1, <2>2
<1>7. Content' = Content
  BY <1>6, SMTT(30) DEF View, Shown
<1>8. \A q \in Proc, b \in Block : Owns(q, b)' <=> Owns(q, b)
  BY <1>1, <1>5, OwnsSame, Zenon DEF KeepBlockno
<1> QED
  BY <1>7, <1>8, OwnerSame

\* virtio_disk_intr changes nothing the interface shows.
LEMMA IntrView ==
  ASSUME View, View', IntrOne
  PROVE  UNCHANGED <<Content, Owner>>
<1>1. CacheType /\ DiskType /\ DataInv
  BY DEF View, DataInv
<1>2. Head(used) \in Pending
  <2>1. used \in Seq(Desc) /\ used # <<>>
    BY <1>1, Zenon DEF DiskType, IntrOne
  <2>2. Head(used) = used[1] /\ 1 \in DOMAIN used
    BY <2>1
  <2> QED
    BY <2>2 DEF Pending, Heads
<1>3. PICK i \in Buf : i = req[Head(used)].b
  BY <1>1, <1>2, Served, Zenon DEF Serves
<1>4. /\ platter' = platter /\ KeepBlockno /\ KeepValid /\ KeepData /\ KeepHeld /\ KeepWrite
      /\ \A q \in Proc : st'[q].pc = IF st[q].b = i /\ st[q].pc = "io_sleep" THEN "io" ELSE st[q].pc
  BY <1>1, <1>3, IntrEffect, Zenon
<1>5. ASSUME NEW q \in Proc
      PROVE  \A b \in Block : Owns(q, b)' <=> Owns(q, b)
  <2>1. (st'[q].pc = "hold" \/ st'[q].write) <=> (st[q].pc = "hold" \/ st[q].write)
    BY <1>4 DEF KeepWrite
  <2> QED
    BY <1>1, <1>4, <2>1, OwnsSame, Zenon DEF KeepHeld, KeepBlockno
<1> QED
  BY <1>4, <1>5, ContentSame, OwnerSame

\* bread returns a cached block, or goes on to read it.
LEMMA AcquireView ==
  ASSUME View, View', NEW p \in Proc, Acquiresleep(p)
  PROVE  UNCHANGED <<Content, Owner>> \/ \E b \in Block : Store!Acquire(p, b)
<1>1. CacheType /\ Places /\ DataInv
  BY Zenon DEF View, DataInv
<1>2. PICK i \in Buf : i = st[p].b /\ buf[i].blockno \in Block /\ st[p].pc = "lock"
  BY <1>1, AcquireEffect, Held
<1>3. /\ buf[i].lock = Nobody /\ platter' = platter
      /\ KeepBlockno /\ KeepValid /\ KeepData /\ KeepHeld /\ KeepWrite
      /\ \A q \in Proc : q # p => st'[q].pc = st[q].pc
      /\ st'[p].pc = IF buf[i].valid THEN "hold" ELSE "desc"
  BY <1>1, <1>2, AcquireEffect, Zenon
<1>4. Content' = Content
  BY <1>3, ContentSame, Zenon
<1>5. ASSUME NEW q \in Proc, q # p \/ ~buf[i].valid
      PROVE  \A b \in Block : Owns(q, b)' <=> Owns(q, b)
  <2>1. (st'[q].pc = "hold" \/ st'[q].write) <=> (st[q].pc = "hold" \/ st[q].write)
    BY <1>2, <1>3, <1>5 DEF KeepWrite
  <2> QED
    BY <1>1, <1>3, <2>1, OwnsSame, Zenon DEF KeepHeld, KeepBlockno
<1>6. CASE ~buf[i].valid
  BY <1>4, <1>5, <1>6, OwnerSame
<1>7. CASE buf[i].valid
  <2>1. PICK b \in Block : b = buf[i].blockno
    BY <1>2, Zenon
  <2>2. \A q \in Proc : ~Owns(q, b)
    BY <1>1, <1>3, <2>1, OwnerLocks, BlockIOAssumption, SMTT(30)
  <2>3. Owner[b] = Nobody
    BY <2>2, Zenon DEF View, Shown
  <2>4. Owns(p, b)'
    BY <1>2, <1>3, <1>7, <2>1, SMTT(30) DEF Owns, KeepHeld, KeepBlockno, Buf
  <2>5. \A c \in Block : c # b => ~Owns(p, c) /\ ~Owns(p, c)'
    BY <1>2, <1>3, <2>1 DEF Owns, KeepHeld, KeepBlockno
  <2>6. Owner' = [Owner EXCEPT ![b] = p]
    BY <1>5, <2>4, <2>5, OwnerSet
  <2> QED
    BY <1>4, <2>3, <2>6, Zenon DEF Store!Acquire
<1> QED
  BY <1>6, <1>7

\* The owner of a block changes it.
LEMMA ChangeView ==
  ASSUME View, View', NEW p \in Proc, NEW v \in Val, Change(p, v)
  PROVE  \E b \in Block : Store!Change(p, b, v)
<1>1. CacheType /\ Places /\ DataInv
  BY Zenon DEF View, DataInv
<1>2. PICK i \in Buf : i = st[p].b /\ buf[i].blockno \in Block /\ st[p].pc = "hold"
  BY <1>1, ChangeEffect, Held
<1>3. /\ st' = st /\ platter' = platter /\ KeepBlockno /\ KeepValid
      /\ \A j \in Buf : buf'[j].data = IF j = i THEN v ELSE buf[j].data
  BY <1>1, <1>2, ChangeEffect
<1>4. PICK b \in Block : b = buf[i].blockno
  BY <1>2, Zenon
<1>5. buf[i].valid
  BY <1>1, <1>2, Zenon DEF Places, Place, Locked
<1>6. Owner[b] = p
  <2>1. Owns(p, b)
    BY <1>2, <1>4, SMTT(30) DEF Owns, Buf
  <2> QED
    BY <2>1 DEF View, Shown
<1>7. \A q \in Proc, c \in Block : Owns(q, c)' <=> Owns(q, c)
  BY <1>1, <1>3, OwnsSame, Zenon DEF KeepBlockno
<1>8. Content'[b] = v
  <2>1. buf'[i].blockno = b /\ buf'[i].valid /\ buf'[i].data = v
    BY <1>3, <1>4, <1>5, Zenon DEF KeepBlockno, KeepValid
  <2> QED
    BY <2>1, Zenon DEF View, Shown, Buf
<1>9. ASSUME NEW c \in Block, c # b
      PROVE  Content'[c] = Content[c]
  <2>1. CASE \E j \in Buf : buf[j].blockno = c /\ buf[j].valid
    <3>1. PICK j \in Buf : buf[j].blockno = c /\ buf[j].valid
      BY <2>1, Zenon
    <3>2. buf'[j].blockno = c /\ buf'[j].valid /\ buf'[j].data = buf[j].data
      BY <1>3, <1>4, <1>9, <3>1, Zenon DEF KeepBlockno, KeepValid
    <3> QED
      BY <3>1, <3>2 DEF View, Shown, Buf
  <2>2. CASE \A j \in Buf : buf[j].blockno = c => ~buf[j].valid
    BY <1>3, <2>2, Zenon DEF View, Shown, KeepBlockno, KeepValid, Buf
  <2> QED
    BY <2>1, <2>2, Zenon
<1>10. Content' = [Content EXCEPT ![b] = v]
  BY <1>8, <1>9 DEF View, Shown
<1>11. Owner' = Owner
  BY <1>7, OwnerSame
<1> QED
  BY <1>6, <1>10, <1>11, Zenon DEF Store!Change

\* brelse gives the block up.
LEMMA ReleaseView ==
  ASSUME View, View', NEW p \in Proc, Releasesleep(p)
  PROVE  \E b \in Block : Store!Release(p, b)
<1>1. CacheType /\ Places /\ DataInv
  BY DEF View, DataInv
<1>2. PICK i \in Buf : i = st[p].b /\ buf[i].blockno \in Block /\ st[p].pc = "hold"
  BY <1>1, ReleaseEffect, Held, ZenonT(40)
<1>3. /\ platter' = platter /\ KeepBlockno /\ KeepValid /\ KeepData /\ KeepHeld /\ KeepWrite
      /\ \A q \in Proc : st'[q].pc = IF q = p THEN "release"
                                     ELSE IF st[q].b = i /\ st[q].pc = "lock_sleep" THEN "lock" ELSE st[q].pc
  BY <1>1, <1>2, ReleaseEffect, ZenonT(40)
<1>4. Content' = Content
  BY <1>3, ContentSame, Zenon
<1>5. PICK b \in Block : b = buf[i].blockno
  BY <1>2
<1>6. Owns(p, b)
  BY <1>2, <1>5, SMTT(30) DEF Owns, Buf
<1>7. Owner[b] = p
  BY <1>6, Zenon DEF View, Shown
<1>8. ASSUME NEW q \in Proc, q # p
      PROVE  \A c \in Block : Owns(q, c)' <=> Owns(q, c)
  <2>1. (st'[q].pc = "hold" \/ st'[q].write) <=> (st[q].pc = "hold" \/ st[q].write)
    BY <1>3, <1>8, Zenon DEF KeepWrite
  <2> QED
    BY <1>1, <1>3, <2>1, OwnsSame DEF KeepHeld, KeepBlockno
<1>9. \A c \in Block : ~Owns(p, c)'
  <2>1. ~st[p].write
    BY <1>1, <1>2 DEF Places, Place
  <2> QED
    BY <1>3, <2>1, Zenon DEF Owns, KeepWrite
<1>10. \A q \in Proc : ~Owns(q, b)'
  BY <1>1, <1>6, <1>8, <1>9, OneOwner, Zenon
<1>11. \A c \in Block : c # b => ~Owns(p, c)
  BY <1>2, <1>5 DEF Owns
<1>12. Owner' = [Owner EXCEPT ![b] = Nobody]
  BY <1>8, <1>9, <1>10, <1>11, OwnerCleared, Zenon
<1> QED
  BY <1>4, <1>7, <1>12, Zenon DEF Store!Release

\* A read that is complete shows what the disk has; a write that is complete shows nothing new.
LEMMA DoneView ==
  ASSUME View, View', NEW p \in Proc, IoDone(p)
  PROVE  UNCHANGED <<Content, Owner>> \/ \E b \in Block : Store!Acquire(p, b)
<1>1. CacheType /\ DiskType /\ Places /\ DataInv
  BY Zenon DEF View, DataInv
<1>2. PICK i \in Buf : i = st[p].b /\ buf[i].blockno \in Block /\ st[p].pc = "io" /\ ~buf[i].disk
  BY <1>1, DoneEffect, Held, SMTT(30)
<1>3. /\ platter' = platter /\ KeepBlockno /\ KeepData /\ KeepHeld
      /\ buf'[i].valid /\ \A j \in Buf : j # i => buf'[j].valid = buf[j].valid
      /\ \A q \in Proc : q # p => /\ st'[q].write = st[q].write
                                  /\ st'[q].pc = IF st[q].pc = "desc_sleep" THEN "desc" ELSE st[q].pc
      /\ st'[p].pc = "hold"
  BY <1>1, <1>2, DoneEffect
<1>4. PICK b \in Block : b = buf[i].blockno
  BY <1>2, Zenon
<1>5. ASSUME NEW q \in Proc, q # p
      PROVE  \A c \in Block : Owns(q, c)' <=> Owns(q, c)
  <2>1. (st'[q].pc = "hold" \/ st'[q].write) <=> (st[q].pc = "hold" \/ st[q].write)
    BY <1>3, <1>5, Zenon
  <2> QED
    BY <1>1, <1>3, <2>1, OwnsSame, Zenon DEF KeepHeld, KeepBlockno
<1>6. Clean(i)
  BY <1>1, <1>2 DEF DataInv, Datas, Completed, InIO
<1>7. ASSUME NEW c \in Block
      PROVE  Content'[c] = Content[c]
  <2>1. CASE c = b
    <3>1. buf'[i].blockno = b /\ buf'[i].data = buf[i].data /\ buf'[i].valid
      BY <1>3, <1>4, Zenon DEF KeepBlockno, KeepData
    <3>2. Content'[b] = buf[i].data
      BY <3>1, Zenon DEF View, Shown, Buf
    <3>3. CASE buf[i].valid
      BY <1>4, <2>1, <3>2, <3>3 DEF View, Shown
    <3>4. CASE ~buf[i].valid
      <4>1. \A j \in Buf : buf[j].blockno = b => ~buf[j].valid
        BY <1>1, <1>4, <3>4, Zenon DEF DataInv, Blocks
      <4>2. Content[b] = platter[b]
        BY <4>1, Zenon DEF View, Shown
      <4> QED
        BY <1>4, <1>6, <2>1, <3>2, <4>2 DEF Clean
    <3> QED
      BY <3>3, <3>4
  <2>2. CASE c # b /\ \E j \in Buf : buf[j].blockno = c /\ buf[j].valid
    <3>1. PICK j \in Buf : buf[j].blockno = c /\ buf[j].valid
      BY <2>2, Zenon
    <3>2. buf'[j].blockno = c /\ buf'[j].valid /\ buf'[j].data = buf[j].data
      BY <1>3, <1>4, <2>2, <3>1, Zenon DEF KeepBlockno, KeepData
    <3> QED
      BY <3>1, <3>2 DEF View, Shown, Buf
  <2>3. CASE c # b /\ \A j \in Buf : buf[j].blockno = c => ~buf[j].valid
    <3>1. \A j \in Buf : buf'[j].blockno = c => ~buf'[j].valid
      BY <1>3, <1>4, <2>3, Zenon DEF KeepBlockno
    <3> QED
      BY <1>3, <2>3, <3>1, Zenon DEF View, Shown, Buf
  <2> QED
    BY <2>1, <2>2, <2>3
<1>8. Content' = Content
  BY <1>7 DEF View, Shown
<1>9. CASE st[p].write
  <2>1. (st'[p].pc = "hold" \/ st'[p].write) <=> (st[p].pc = "hold" \/ st[p].write)
    BY <1>3, <1>9, Zenon
  <2>2. \A c \in Block : Owns(p, c)' <=> Owns(p, c)
    BY <1>1, <1>3, <2>1, OwnsSame DEF KeepHeld, KeepBlockno
  <2> QED
    BY <1>5, <1>8, <2>2, OwnerSame
<1>10. CASE ~st[p].write
  <2>1. \A c \in Block : ~Owns(p, c)
    BY <1>2, <1>10 DEF Owns
  <2>2. \A q \in Proc : ~Owns(q, b)
    <3>1. buf[i].lock = p
      BY <1>1, <1>2, Zenon DEF Places, Place, Locked
    <3> QED
      BY <1>1, <1>4, <2>1, <3>1, OwnerLocks, SMTT(30)
  <2>3. Owner[b] = Nobody
    BY <2>2, SMTT(30) DEF View, Shown
  <2>4. Owns(p, b)'
    BY <1>2, <1>3, <1>4, SMTT(30) DEF Owns, KeepHeld, KeepBlockno, Buf
  <2>5. \A c \in Block : c # b => ~Owns(p, c)'
    BY <1>2, <1>3, <1>4 DEF Owns, KeepHeld, KeepBlockno
  <2>6. Owner' = [Owner EXCEPT ![b] = p]
    BY <1>5, <2>1, <2>4, <2>5, OwnerSet, SMTT(30)
  <2> QED
    BY <1>8, <2>3, <2>6, Zenon DEF Store!Acquire
<1> QED
  BY <1>9, <1>10

\* Every step of the cache and the driver is a step of BlockStore, or shows nothing.
LEMMA RefinementStep == View /\ View' /\ [Next]_vars => [Store!Next]_<<Content, Owner>>
<1> SUFFICES ASSUME View, View', [Next]_vars
             PROVE  Store!Next \/ UNCHANGED <<Content, Owner>>
  OBVIOUS
<1>0. CacheType
  BY DEF View, DataInv
<1>1. ASSUME NEW p \in Proc, Kernel(p)
      PROVE  Store!Next \/ UNCHANGED <<Content, Owner>>
  <2>1. CASE AcquireSleeps(p) \/ DescSleep(p) \/ IoSleepAgain(p)
    BY <1>0, <2>1, QuietSteps, QuietView
  <2>2. CASE Acquiresleep(p)
    BY <2>2, AcquireView DEF Store!Next
  <2>3. CASE Brelse(p) \/ Submit(p)
    BY <2>3, PlainView, Zenon
  <2>4. CASE IoDone(p)
    BY <2>4, DoneView, SMTT(30) DEF Store!Next
  <2> QED
    BY <1>1, <2>1, <2>2, <2>3, <2>4, SMTT(30) DEF Kernel
<1>2. ASSUME NEW p \in Proc, User(p)
      PROVE  Store!Next \/ UNCHANGED <<Content, Owner>>
  <2>1. CASE \E b \in Block : BgetHit(p, b) \/ BgetRecycle(p, b)
    BY <2>1, BgetView
  <2>2. CASE (\E b \in Block : BgetPanic(p, b)) \/ Kill(p)
    BY <1>0, <2>2, QuietSteps, QuietView
  <2>3. CASE \E v \in Val : Change(p, v)
    BY <2>3, ChangeView DEF Store!Next
  <2>4. CASE Bwrite(p) \/ Bpin(p) \/ Bunpin(p)
    BY <2>4, PlainView
  <2>5. CASE Releasesleep(p)
    BY <2>5, ReleaseView DEF Store!Next
  <2> QED
    BY <1>2, <2>1, <2>2, <2>3, <2>4, <2>5, Zenon DEF User
<1>3. CASE Device
  BY <1>3, DeviceView DEF Device
<1>4. CASE IntrEnter \/ IntrPanic \/ IntrExit \/ UNCHANGED vars
  BY <1>0, <1>4, QuietIdle, QuietView
<1>5. CASE IntrOne
  BY <1>5, IntrView
<1> QED
  BY <1>1, <1>2, <1>3, <1>4, <1>5 DEF Next, Interrupt, Halted

-----------------------------------------------------------------------------
(* The counts                                                              *)

INSTANCE FiniteSetTheorems


\* A set of naturals has a smallest element: alloc_desc's loop ends at one.
LEMMA Smallest ==
  ASSUME NEW T, T \subseteq Nat, T # {}
  PROVE  \E x \in T : \A y \in T : x <= y
<1>1. PICK x \in T : \A y \in T : ~(<<y, x>> \in OpToRel(<, Nat))
  BY NatLessThanWellFounded, WFMin, Zenon
<1>2. ASSUME NEW y \in T, y < x PROVE FALSE
  <2>1. <<y, x>> \in {ss \in Nat \X Nat : ss[1] < ss[2]}
    BY <1>2
  <2> QED
    BY <1>1, <2>1, Zenon DEF OpToRel
<1>3. \A y \in T : x \in Int /\ y \in Int /\ ~(y < x)
  BY <1>2, SMTT(30)
<1> QED
  BY <1>3

\* bget's scan of the list from its end finds a buffer that nobody has, if there is one.
LEMMA OldestUnused ==
  ASSUME CacheType, Unused # {}
  PROVE  Oldest \in Buf /\ buf[Oldest].refcnt = 0
<1>1. \E n \in Unused : \A k \in Unused : k <= n
  <2> DEFINE T == {NBUF - n : n \in Unused}
  <2>1. T \subseteq Nat /\ T # {}
    BY BlockIOAssumption DEF Unused, Buf
  <2>2. PICK x \in T : \A y \in T : x <= y
    BY <2>1, Smallest, Zenon
  <2>3. PICK n \in Unused : x = NBUF - n
    BY <2>2
  <2>4. \A k \in Unused : NBUF - n <= NBUF - k
    BY <2>2, <2>3, Zenon
  <2>5. \A k \in Unused : k \in Int
    BY DEF Unused, Buf
  <2> QED
    BY <2>3, <2>4, <2>5, BlockIOAssumption, SMTT(30)
<1>2. PICK n \in Unused : Oldest = lru[n]
  BY <1>1, Zenon DEF Oldest
<1> QED
  BY <1>2, Zenon DEF Unused, CacheType

\* alloc3_desc's first descriptor was free.
LEMMA FirstFree ==
  ASSUME CacheType, DiskType, Cardinality(free) >= 3
  PROVE  First \in Three /\ Three \subseteq free
<1>1. free \subseteq Nat /\ free # {}
  <2>1. free \subseteq Nat
    BY DEF CacheType, DiskType, Desc
  <2>2. free # {}
    BY FS_EmptySet
  <2> QED
    BY <2>1, <2>2, Zenon
<1>2. PICK m \in free : \A e \in free : m <= e
  BY <1>1, Smallest, Zenon
<1>3. {e \in free : e < m} = {}
  <2>1. \A e \in free : e \in Nat /\ m \in Nat /\ m <= e
    BY <1>1, <1>2, Zenon
  <2>2. \A e \in free : ~(e < m)
    BY <2>1
  <2> QED
    BY <2>2
<1>4. m \in Three
  BY <1>3, FS_EmptySet, SMTT(30) DEF Three
<1>5. Three \subseteq Nat /\ Three # {}
  BY <1>1, <1>4, Zenon DEF Three
<1>6. \E d \in Three : \A e \in Three : d <= e
  BY <1>5, Smallest, Zenon
<1> QED
  BY <1>6, Zenon DEF First, Three

\* The free descriptors are finitely many: alloc3_desc finds three or fewer.
LEMMA FreeFinite ==
  ASSUME CacheType, DiskType
  PROVE  IsFiniteSet(free) /\ Cardinality(free) \in Nat
<1>1. IsFiniteSet(Desc)
  BY FS_Interval, SMTT(30) DEF Desc, CacheType
<1>2. IsFiniteSet(free)
  BY <1>1, FS_Subset, Zenon DEF DiskType
<1> QED
  BY <1>2, FS_CardinalityType, Zenon

\* A buffer with b->refcnt = 0 is not pinned, and no process is between bget and brelse with it.
LEMMA NobodyHas ==
  ASSUME RefcntExact, NEW i \in Buf, buf[i].refcnt = 0
  PROVE  i \notin pinned /\ \A q \in Proc : st[q].b # i
<1>1. IsFiniteSet({p \in Proc : st[p].b = i})
  BY FS_Subset, BlockIOAssumption, Zenon
<1>2. Cardinality({p \in Proc : st[p].b = i}) \in Nat
  BY <1>1, FS_CardinalityType, Zenon
<1>3. 0 = Cardinality({p \in Proc : st[p].b = i}) + (IF i \in pinned THEN 1 ELSE 0)
  BY DEF RefcntExact
<1>4. i \notin pinned /\ Cardinality({p \in Proc : st[p].b = i}) = 0
  BY <1>2, <1>3, SMTT(30)
<1> QED
  BY <1>1, <1>4, FS_EmptySet, Zenon

\* The invariant has what DataInv's steps need of the counts (bget, alloc3_desc).
LEMMA ChoicesInv == IOInv => Choices
<1> SUFFICES ASSUME IOInv
             PROVE  Choices
  OBVIOUS
<1>1. CacheType /\ DiskType /\ RefcntExact
  BY DEF IOInv, DataInv
<1>2. Unused # {} => Oldest \in Buf /\ buf[Oldest].refcnt = 0
  BY <1>1, OldestUnused, Zenon
<1>3. Cardinality(free) \in Nat /\ (Cardinality(free) >= 3 => First \in Three /\ Three \subseteq free)
  BY <1>1, FreeFinite, FirstFree, Zenon
<1> QED
  BY <1>1, <1>2, <1>3, NobodyHas, Zenon DEF Choices

-----------------------------------------------------------------------------
(* b->refcnt                                                               *)

\* A step that neither brings a process to a buffer or away from it nor counts keeps the counts
\* exact (all but bget, brelse, bpin and bunpin).
LEMMA RefcntKept ==
  ASSUME RefcntExact, KeepRefcnt, KeepHeld, pinned' = pinned
  PROVE  RefcntExact'
<1> SUFFICES ASSUME NEW i \in Buf
             PROVE  buf'[i].refcnt = Cardinality({p \in Proc : st'[p].b = i}) + (IF i \in pinned' THEN 1 ELSE 0)
  BY DEF RefcntExact, Buf
<1>1. {p \in Proc : st'[p].b = i} = {p \in Proc : st[p].b = i}
  BY DEF KeepHeld
<1> QED
  BY <1>1, Zenon DEF RefcntExact, KeepRefcnt

\* A process comes to buffer i, and b->refcnt follows (bget).
LEMMA CountUp ==
  ASSUME CacheType, RefcntExact, NEW p \in Proc, NEW i \in Buf, st[p].b # i, pinned' = pinned,
         \A q \in Proc : q # p => st'[q].b = st[q].b,
         st'[p].b = i, st[p].b = 0,
         \A j \in Buf : buf'[j].refcnt = IF j = i THEN buf[j].refcnt + 1 ELSE buf[j].refcnt
  PROVE  RefcntExact'
<1> SUFFICES ASSUME NEW j \in Buf
             PROVE  buf'[j].refcnt = Cardinality({q \in Proc : st'[q].b = j}) + (IF j \in pinned' THEN 1 ELSE 0)
  BY DEF RefcntExact, Buf
<1>1. IsFiniteSet({q \in Proc : st[q].b = j})
  BY FS_Subset, BlockIOAssumption, Zenon
<1>2. Cardinality({q \in Proc : st[q].b = j}) \in Nat
  BY <1>1, FS_CardinalityType, ZenonT(40)
<1>3. CASE j = i
  <2>1. {q \in Proc : st'[q].b = j} = {q \in Proc : st[q].b = j} \cup {p}
    BY <1>3
  <2>2. Cardinality({q \in Proc : st'[q].b = j}) = Cardinality({q \in Proc : st[q].b = j}) + 1
    <3>1. p \notin {q \in Proc : st[q].b = j}
      BY <1>3
    <3> QED
      BY <1>1, <2>1, <3>1, FS_AddElement, ZenonT(40)
  <2> QED
    BY <1>2, <1>3, <2>2, SMTT(30) DEF RefcntExact
<1>4. CASE j # i
  <2>1. {q \in Proc : st'[q].b = j} = {q \in Proc : st[q].b = j}
    BY <1>4, SMTT(30) DEF Buf
  <2> QED
    BY <1>4, <2>1, Zenon DEF RefcntExact
<1> QED
  BY <1>3, <1>4, Zenon

\* A process leaves buffer i, and b->refcnt follows (brelse).
LEMMA CountDown ==
  ASSUME CacheType, RefcntExact, NEW p \in Proc, NEW i \in Buf, st[p].b = i, pinned' = pinned,
         \A q \in Proc : q # p => st'[q].b = st[q].b,
         st'[p].b = 0,
         \A j \in Buf : buf'[j].refcnt = IF j = i THEN buf[j].refcnt - 1 ELSE buf[j].refcnt
  PROVE  RefcntExact'
<1> SUFFICES ASSUME NEW j \in Buf
             PROVE  buf'[j].refcnt = Cardinality({q \in Proc : st'[q].b = j}) + (IF j \in pinned' THEN 1 ELSE 0)
  BY Zenon DEF RefcntExact, Buf
<1>1. IsFiniteSet({q \in Proc : st[q].b = j})
  BY FS_Subset, BlockIOAssumption, Zenon
<1>2. Cardinality({q \in Proc : st[q].b = j}) \in Nat
  BY <1>1, FS_CardinalityType, Zenon
<1>3. CASE j = i
  <2>1. {q \in Proc : st'[q].b = j} = {q \in Proc : st[q].b = j} \ {p}
    BY <1>3 DEF Buf
  <2>2. Cardinality({q \in Proc : st'[q].b = j}) = Cardinality({q \in Proc : st[q].b = j}) - 1
    <3>1. p \in {q \in Proc : st[q].b = j}
      BY <1>3, ZenonT(40)
    <3> QED
      BY <1>1, <2>1, <3>1, FS_RemoveElement, ZenonT(40)
  <2> QED
    BY <1>2, <1>3, <2>2, SMTT(30) DEF RefcntExact
<1>4. CASE j # i
  <2>1. {q \in Proc : st'[q].b = j} = {q \in Proc : st[q].b = j}
    BY <1>4, SMTT(30) DEF Buf
  <2> QED
    BY <1>4, <2>1, Zenon DEF RefcntExact
<1> QED
  BY <1>3, <1>4, Zenon

\* bpin and bunpin count the pin.
LEMMA PinCount ==
  ASSUME CacheType, Places, RefcntExact, NEW p \in Proc, Bpin(p) \/ Bunpin(p)
  PROVE  RefcntExact'
<1>0. PICK i : i = st[p].b
  OBVIOUS
<1>1. st' = st
  BY <1>0, PinEffect, Zenon
<1>2. /\ \A j \in Buf : j # i => buf'[j].refcnt = buf[j].refcnt
      /\ \/ i \notin pinned /\ pinned' = pinned \cup {i} /\ buf'[i].refcnt = buf[i].refcnt + 1
         \/ i \in pinned /\ pinned' = pinned \ {i} /\ buf'[i].refcnt = buf[i].refcnt - 1
  BY <1>0, PinEffect, ZenonT(40)
<1> SUFFICES ASSUME NEW j \in Buf
             PROVE  buf'[j].refcnt = Cardinality({q \in Proc : st[q].b = j}) + (IF j \in pinned' THEN 1 ELSE 0)
  BY <1>1 DEF RefcntExact, Buf
<1>3. Cardinality({q \in Proc : st[q].b = j}) \in Nat
  BY FS_Subset, FS_CardinalityType, BlockIOAssumption, Zenon
<1>4. CASE j = i
  <2> DEFINE c == Cardinality({q \in Proc : st[q].b = j})
  <2>1. buf[j].refcnt = c + (IF j \in pinned THEN 1 ELSE 0)
    BY Zenon DEF RefcntExact
  <2>2. CASE j \notin pinned
    <3>1. j \in pinned' /\ buf'[j].refcnt = buf[j].refcnt + 1 /\ buf[j].refcnt = c + 0
      BY <1>2, <1>4, <2>1, <2>2, ZenonT(40)
    <3> QED
      BY <1>3, <3>1, SMTT(30)
  <2>3. CASE j \in pinned
    <3>1. j \notin pinned' /\ buf'[j].refcnt = buf[j].refcnt - 1 /\ buf[j].refcnt = c + 1
      BY <1>2, <1>4, <2>1, <2>3, Zenon
    <3> QED
      BY <1>3, <3>1, SMTT(30)
  <2> QED
    BY <2>2, <2>3, Zenon
<1>5. CASE j # i
  <2>1. j \in pinned' <=> j \in pinned
    BY <1>2, <1>5, Zenon
  <2> QED
    BY <1>2, <1>5, <2>1, ZenonT(40) DEF RefcntExact
<1> QED
  BY <1>4, <1>5, Zenon

\* bget counts the process that finds the block cached.
LEMMA HitCount ==
  ASSUME CacheType, Places, RefcntExact, NEW p \in Proc, NEW b \in Block, BgetHit(p, b)
  PROVE  RefcntExact'
<1>1. st[p].pc = "idle" /\ pinned' = pinned
  BY HitEffect, ZenonT(40)
<1>2. PICK i \in Buf : /\ buf[i].blockno = b
                       /\ \A j \in Buf : buf'[j].refcnt = IF j = i THEN buf[j].refcnt + 1 ELSE buf[j].refcnt
                       /\ \A q \in Proc : st'[q] = IF q = p THEN Got(i) ELSE st[q]
  BY HitEffect, ZenonT(40)
<1>3. st[p].b = 0 /\ st'[p].b = i /\ i # 0 /\ \A q \in Proc : q # p => st'[q].b = st[q].b
  BY <1>1, <1>2, SMTT(30) DEF Places, Place, Got, Buf
<1> QED
  BY <1>1, <1>2, <1>3, CountUp, Zenon

\* bget counts the process it recycles a buffer for: b->refcnt is 1.
LEMMA RecycleCount ==
  ASSUME CacheType, Places, Choices, RefcntExact, NEW p \in Proc, NEW b \in Block, BgetRecycle(p, b)
  PROVE  RefcntExact'
<1>0. PICK i \in Buf : i = Oldest /\ buf[i].refcnt = 0
  BY Zenon DEF BgetRecycle, Choices
<1>1. st[p].pc = "idle" /\ pinned' = pinned
  BY <1>0, RecycleEffect, ZenonT(40)
<1>2. /\ ~buf'[i].valid /\ \A j \in Buf : buf[j].blockno # b
      /\ \A j \in Buf : /\ buf'[j].blockno = IF j = i THEN b ELSE buf[j].blockno
                        /\ j # i => buf'[j].valid = buf[j].valid
                        /\ buf'[j].refcnt = IF j = i THEN 1 ELSE buf[j].refcnt
      /\ \A q \in Proc : st'[q] = IF q = p THEN Got(i) ELSE st[q]
  BY <1>0, RecycleEffect, SMTT(30)
<1>3. st[p].b = 0 /\ st'[p].b = i /\ i # 0 /\ \A q \in Proc : q # p => st'[q].b = st[q].b
  BY <1>1, <1>2, SMTT(30) DEF Places, Place, Got, Buf
<1>4. \A j \in Buf : buf'[j].refcnt = IF j = i THEN buf[j].refcnt + 1 ELSE buf[j].refcnt
  BY <1>0, <1>2, SMTT(30)
<1> QED
  BY <1>1, <1>3, <1>4, CountUp, ZenonT(40)

\* brelse counts the process away.
LEMMA BrelseCount ==
  ASSUME CacheType, Places, RefcntExact, NEW p \in Proc, Brelse(p)
  PROVE  RefcntExact'
<1>0. PICK i : i = st[p].b
  BY Zenon
<1>1. i \in Buf /\ pinned' = pinned
  BY <1>0, BrelseEffect, Zenon
<1>2. /\ \A j \in Buf : buf'[j].refcnt = IF j = i THEN buf[j].refcnt - 1 ELSE buf[j].refcnt
      /\ \A q \in Proc : st'[q] = IF q = p THEN Idle ELSE st[q]
  BY <1>0, BrelseEffect, SMTT(30)
<1>3. st'[p].b = 0 /\ \A q \in Proc : q # p => st'[q].b = st[q].b
  BY <1>2 DEF Idle
<1> QED
  BY <1>0, <1>1, <1>2, <1>3, CountDown, Zenon

\* The counts stay exact under every step.
LEMMA NextCount == IOInv /\ [Next]_vars => RefcntExact'
<1> SUFFICES ASSUME IOInv, [Next]_vars
             PROVE  RefcntExact'
  OBVIOUS
<1>0. CacheType /\ DiskType /\ Places /\ Choices /\ RefcntExact
  BY ChoicesInv, Zenon DEF IOInv, DataInv
<1>q. ASSUME Quiet
      PROVE  RefcntExact'
  BY <1>0, <1>q, RefcntKept, Zenon DEF Quiet, KeepRefcnt
<1>1. ASSUME NEW p \in Proc, Kernel(p)
      PROVE  RefcntExact'
  <2>0. PICK i, h : i = st[p].b /\ h = First
    OBVIOUS
  <2>1. CASE AcquireSleeps(p) \/ DescSleep(p) \/ IoSleepAgain(p)
    BY <1>0, <1>q, <2>1, QuietSteps, ZenonT(40)
  <2>2. CASE Acquiresleep(p)
    BY <1>0, <2>0, <2>2, AcquireEffect, RefcntKept, Zenon
  <2>3. CASE Brelse(p)
    BY <1>0, <2>3, BrelseCount, Zenon
  <2>4. CASE Submit(p)
    BY <1>0, <2>0, <2>4, SubmitEffect, RefcntKept, Zenon
  <2>5. CASE IoDone(p)
    BY <1>0, <2>0, <2>5, DoneEffect, RefcntKept, ZenonT(40)
  <2> QED
    BY <1>1, <2>1, <2>2, <2>3, <2>4, <2>5, ZenonT(40) DEF Kernel
<1>2. ASSUME NEW p \in Proc, User(p)
      PROVE  RefcntExact'
  <2>0. PICK i : i = st[p].b
    BY Zenon
  <2>1. CASE \E b \in Block : BgetHit(p, b) \/ BgetRecycle(p, b)
    BY <1>0, <2>1, HitCount, RecycleCount, Zenon
  <2>2. CASE (\E b \in Block : BgetPanic(p, b)) \/ Kill(p)
    BY <1>0, <1>q, <2>2, QuietSteps, ZenonT(40)
  <2>3. CASE \E v \in Val : Change(p, v)
    BY <1>0, <2>0, <2>3, ChangeEffect, RefcntKept, Zenon DEF KeepHeld
  <2>4. CASE Bwrite(p)
    BY <1>0, <2>0, <2>4, WriteEffect, RefcntKept, ZenonT(40) DEF KeepRefcnt
  <2>5. CASE Bpin(p) \/ Bunpin(p)
    BY <1>0, <2>5, PinCount, Zenon
  <2>6. CASE Releasesleep(p)
    BY <1>0, <2>0, <2>6, ReleaseEffect, RefcntKept, Zenon
  <2> QED
    BY <1>2, <2>1, <2>2, <2>3, <2>4, <2>5, <2>6, ZenonT(40) DEF User
<1>3. CASE Device
  <2>1. PICK h \in avail, ok \in BOOLEAN : DeviceDone(h, ok)
    BY <1>3, Zenon DEF Device
  <2>2. KeepRefcnt
    BY <1>0, <2>1, Zenon DEF DeviceDone, CacheType, BufType, KeepRefcnt
  <2>3. KeepHeld /\ pinned' = pinned
    BY <2>1 DEF DeviceDone, KeepHeld
  <2> QED
    BY <1>0, <2>2, <2>3, RefcntKept, Zenon
<1>4. CASE IntrEnter \/ IntrPanic \/ IntrExit \/ UNCHANGED vars
  BY <1>0, <1>q, <1>4, QuietIdle, Zenon
<1>5. CASE IntrOne
  <2>1. PICK i : i = req[Head(used)].b
    BY Zenon
  <2>2. /\ buf' = [buf EXCEPT ![i].disk = FALSE] /\ pinned' = pinned
        /\ Wakeup(Nobody, "", {q \in Proc : st[q].b = i}, "io_sleep", "io")
    BY <1>5, <2>1, Zenon DEF IntrOne
  <2>3. KeepRefcnt
    BY <1>0, <2>2, Zenon DEF CacheType, BufType, KeepRefcnt
  <2>4. KeepHeld
    BY <1>0, <2>2, ZenonT(40) DEF Wakeup, KeepHeld, CacheType, StType
  <2> QED
    BY <1>0, <2>2, <2>3, <2>4, RefcntKept, ZenonT(40)
<1> QED
  BY <1>1, <1>2, <1>3, <1>4, <1>5, Zenon DEF Next, Interrupt, Halted

\* No process has a buffer at boot, and no buffer is counted.
LEMMA InitCount == Init => RefcntExact
<1> SUFFICES ASSUME Init, NEW i \in Buf
             PROVE  buf[i].refcnt = Cardinality({p \in Proc : st[p].b = i}) + (IF i \in pinned THEN 1 ELSE 0)
  BY Zenon DEF RefcntExact
<1>1. {p \in Proc : st[p].b = i} = {}
  BY DEF Init, Idle, Buf
<1>2. Cardinality({p \in Proc : st[p].b = i}) = 0
  BY <1>1, FS_EmptySet, Zenon
<1> QED
  BY <1>2, SMTT(30) DEF Init

\* The inductive invariant of the buffer cache and the disk driver.
THEOREM IOInvariant == Spec => []IOInv
<1>1. Init => IOInv
  BY InitData, InitCount, Zenon DEF IOInv
<1>2. IOInv /\ [Next]_vars => IOInv'
  BY NextData, NextCount, ChoicesInv, Zenon DEF IOInv
<1> QED
  BY <1>1, <1>2, PTL DEF Spec

-----------------------------------------------------------------------------
(* The properties                                                          *)

\* The invariant implies what the run block_io checks.
LEMMA SafeInv == IOInv => CacheSafe
<1> SUFFICES ASSUME IOInv
             PROVE  CacheSafe
  BY SMTT(30)
<1> USE DEF IOInv, DataInv
<1>1. OneBufferPerBlock
  <2> SUFFICES ASSUME NEW b \in Block
               PROVE  Cardinality(Cached(b)) <= 1
    BY DEF OneBufferPerBlock
  <2>1. CASE Cached(b) = {}
    BY <2>1, FS_EmptySet, SMTT(30)
  <2>2. CASE Cached(b) # {}
    <3>1. PICK i \in Cached(b) : TRUE
      BY <2>2
    <3>2. Cached(b) = {i}
      BY <3>1 DEF Cached, Blocks
    <3> QED
      BY <3>2, FS_Singleton, SMTT(30)
  <2> QED
    BY <2>1, <2>2, Zenon
<1>2. DescriptorsConserved
  <2>1. \A h \in avail \cup Heads(used) :
          \E p \in Proc : h \in st[p].chain /\ req[h].b = st[p].b /\ buf[st[p].b].disk
    BY Zenon DEF Flights, Pending, Serves
  <2> QED
    BY <2>1, Zenon DEF DescriptorsConserved, Chains
<1>3. NoLostWakeup
  <2>1. ASSUME NEW p \in Proc, st[p].pc = "io_sleep"
        PROVE  /\ buf[st[p].b].disk
               /\ \E h \in st[p].chain : h \in avail \/ (h \in Heads(used) /\ (intr \/ handler))
    <3>1. buf[st[p].b].disk /\ \E h \in Pending : Serves(h, p)
      BY <2>1, Zenon DEF Flights, InIO
    <3>2. PICK h \in Pending : h \in st[p].chain
      BY <3>1 DEF Serves
    <3>3. h \in Heads(used) => used # <<>>
      BY DEF Heads
    <3> QED
      BY <3>1, <3>2, <3>3, Zenon DEF Pending, Rings
  <2> QED
    BY <2>1, Zenon DEF NoLostWakeup, At, Sleeps
<1> QED
  BY <1>1, <1>2, <1>3, Zenon DEF CacheSafe

\* The cache and the disk queue keep their discipline (bio.c, sleeplock.c, virtio_disk.c): one
\* buffer per block, exact b->refcnt, no descriptor lost or used twice, no wakeup lost.
THEOREM CacheDiscipline == Spec => []CacheSafe
BY IOInvariant, SafeInv, PTL

\* The buffer cache over the virtio disk implements BlockStore (the interface at the top of
\* bio.c): a block has one content, whoever reads it and whenever its buffer is recycled, one
\* process at a time has it, and only that process changes it.
THEOREM CacheRefinement == Spec => ImplementsBlockStore
<1>1. Init => Store!Init
  <2> SUFFICES ASSUME Init
               PROVE  Store!Init
    OBVIOUS
  <2>1. Shown
    BY InitData, ShownInv, Zenon
  <2>2. \A p \in Proc, b \in Block : ~Owns(p, b)
    BY Zenon DEF Init, Idle, Owns
  <2>3. Owner = [b \in Block |-> Nobody]
    BY <2>1, <2>2, Zenon DEF Shown
  <2> QED
    BY <2>1, <2>3, Zenon DEF Shown, Store!Init
<1>2. View /\ View' /\ [Next]_vars => [Store!Next]_<<Content, Owner>>
  BY RefinementStep
<1>3. IOInv => View
  BY ChoicesInv, ShownInv DEF View, IOInv
<1> QED
  BY <1>1, <1>2, <1>3, IOInvariant, PTL DEF Spec, Store!Spec, ImplementsBlockStore

=============================================================================
