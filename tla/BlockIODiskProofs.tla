------------------------- MODULE BlockIODiskProofs ---------------------------
(***************************************************************************)
(* The invariant behind the theorems of BlockIOProofs, and the proofs that  *)
(* the disk driver keeps it: virtio_disk_rw, virtio_disk_intr and the       *)
(* device (kernel/virtio_disk.c).  The central part is Flights: a request   *)
(* in a ring is of one process, which waits for it with the lock of its     *)
(* buffer, and whose descriptors, buffer and block are the request's.       *)
(***************************************************************************)
EXTENDS BlockIO, TLAPS

\* Where a process can be.
Labels == {"idle", "lock", "lock_sleep", "hold", "desc", "desc_sleep", "io", "io_sleep", "release"}

\* Where a process has the lock of its buffer, and where it has a request.
Locked == {"hold", "desc", "desc_sleep", "io", "io_sleep"}
InIO == {"io", "io_sleep"}

\* The types of struct buf, of a request and of a process.
BufType == [blockno : Block \cup {NoBlock}, valid : BOOLEAN, refcnt : Int, lock : Proc \cup {Nobody},
            disk : BOOLEAN, data : Val]
ReqType == [b : 0..NBUF, write : BOOLEAN, sector : Block \cup {NoBlock}, ok : BOOLEAN]
StType == [pc : Labels, b : 0..NBUF, write : BOOLEAN, chain : SUBSET Desc]

\* The types of the cache and of the processes.
CacheType ==
  /\ NUM \in Nat /\ NUM >= 3
  /\ buf \in [Buf -> BufType] /\ lru \in [Buf -> Buf] /\ pinned \subseteq Buf
  /\ st \in [Proc -> StType]

\* The types of the driver's and the device's state.
DiskType ==
  /\ free \subseteq Desc /\ avail \subseteq Desc /\ used \in Seq(Desc)
  /\ req \in [Desc -> ReqType] /\ platter \in [Block -> Val]

\* What a process has, by where it is.
Place(p) ==
  /\ st[p].pc = "idle" <=> st[p].b = 0
  /\ st[p].b \in Buf => buf[st[p].b].blockno \in Block
  /\ st[p].write => st[p].pc \in Locked \ {"hold"}
  /\ st[p].pc \notin InIO => st[p].chain = {}
  /\ st[p].pc \in Locked => (buf[st[p].b].valid <=> st[p].pc = "hold" \/ st[p].write)
  /\ \A i \in Buf : buf[i].lock = p <=> st[p].b = i /\ st[p].pc \in Locked

Places == \A p \in Proc : Place(p)

\* A block has one buffer; a valid buffer has a block.
Blocks ==
  /\ \A i, j \in Buf : buf[i].blockno = buf[j].blockno /\ buf[i].blockno \in Block => i = j
  /\ \A i \in Buf : buf[i].valid => buf[i].blockno \in Block

\* A descriptor that is not free is in the chain of one process.
Chains ==
  /\ \A d \in Desc \ free : \E p \in Proc : d \in st[p].chain
  /\ \A p \in Proc : st[p].chain \cap free = {}
  /\ \A p, q \in Proc : p # q => st[p].chain \cap st[q].chain = {}

\* The requests in the rings, by the heads of their chains.
Pending == avail \cup Heads(used)

\* h is the request of p.
Serves(h, p) ==
  /\ st[p].pc \in InIO /\ h \in st[p].chain
  /\ req[h].b = st[p].b /\ buf[st[p].b].disk
  /\ req[h].write = st[p].write /\ req[h].sector = buf[st[p].b].blockno

\* The rings hold a request once; a buffer has one request; who waits has one.
Rings ==
  /\ \A k, l \in 1..Len(used) : used[k] = used[l] => k = l
  /\ avail \cap Heads(used) = {}
  /\ used # <<>> => intr \/ handler

\* Requests and the processes that wait for them, b->disk included.
Flights ==
  /\ \A h \in Pending : \E p \in Proc : Serves(h, p)
  /\ \A h, g \in Pending : req[h].b = req[g].b => h = g
  /\ \A p \in Proc : /\ st[p].pc = "io_sleep" => buf[st[p].b].disk
                     /\ st[p].pc \in InIO /\ buf[st[p].b].disk => \E h \in Pending : Serves(h, p)
  /\ \A i \in Buf : buf[i].disk => \E p \in Proc : st[p].b = i /\ st[p].pc \in InIO

\* Who sleeps on a lock or on descriptors has a reason to.
Sleeps ==
  \A p \in Proc : /\ st[p].pc = "lock_sleep" => buf[st[p].b].lock # Nobody
                  /\ st[p].pc = "desc_sleep" => Cardinality(free) < 3

\* The request of p is complete, and successful.
Completed(p) ==
  /\ st[p].pc \in InIO
  /\ ~buf[st[p].b].disk \/ \E h \in Heads(used) : h \in st[p].chain /\ req[h].ok

\* A buffer that may be recycled, or whose request is complete, agrees with the disk.
Datas ==
  /\ \A i \in Buf : buf[i].valid /\ i \notin pinned /\ buf[i].lock = Nobody => Clean(i)
  /\ \A p \in Proc : Completed(p) => Clean(st[p].b)

\* The list has all the buffers.
Listed == \A i \in Buf : \E n \in Buf : lru[n] = i

\* The invariant, but for the counts.
DataInv == CacheType /\ DiskType /\ Places /\ Blocks /\ Chains /\ Rings /\ Flights /\ Sleeps /\ Datas /\ Listed

\* What follows from the counts: a buffer with b->refcnt = 0 is nobody's, bget's scan of the list
\* finds one if there is one, and alloc3_desc finds three descriptors if there are three.
Choices ==
  /\ \A i \in Buf : buf[i].refcnt = 0 => i \notin pinned /\ \A q \in Proc : st[q].b # i
  /\ Unused # {} => Oldest \in Buf /\ buf[Oldest].refcnt = 0
  /\ Cardinality(free) \in Nat
  /\ Cardinality(free) >= 3 => First \in Three /\ Three \subseteq free

-----------------------------------------------------------------------------
(* What a step keeps                                                       *)

\* Fields of the buffers.
KeepBlockno == \A i \in Buf : buf'[i].blockno = buf[i].blockno
KeepValid == \A i \in Buf : buf'[i].valid = buf[i].valid
KeepRefcnt == \A i \in Buf : buf'[i].refcnt = buf[i].refcnt
KeepLock == \A i \in Buf : buf'[i].lock = buf[i].lock
KeepDisk == \A i \in Buf : buf'[i].disk = buf[i].disk
KeepData == \A i \in Buf : buf'[i].data = buf[i].data

\* Which buffer the processes have, and their requests.
KeepHeld == \A p \in Proc : st'[p].b = st[p].b
KeepWrite == \A p \in Proc : st'[p].write = st[p].write
KeepChain == \A p \in Proc : st'[p].chain = st[p].chain

\* A process that is not idle has a buffer.
LEMMA Held ==
  ASSUME CacheType, Places, NEW p \in Proc, st[p].pc # "idle"
  PROVE  st[p].b \in Buf /\ buf[st[p].b].blockno \in Block
BY BlockIOAssumption, SMTT(30) DEF CacheType, StType, Places, Place, Buf

\* Blocks speaks of the buffers' block numbers and valid bits only.
LEMMA BlocksKept ==
  ASSUME CacheType, Blocks, KeepBlockno, KeepValid
  PROVE  Blocks'
BY DEF Blocks, KeepBlockno, KeepValid, Buf

\* Chains speaks of the chains and of the free descriptors only.
LEMMA ChainsKept ==
  ASSUME Chains, KeepChain, UNCHANGED <<NUM, free>>
  PROVE  Chains'
BY DEF Chains, KeepChain, Desc

\* The processes with a request are the same, with the same requests, of the same buffers.
SameIO ==
  \A q \in Proc :
    /\ st'[q].pc \in InIO <=> st[q].pc \in InIO
    /\ st[q].pc \in InIO => /\ st'[q].b = st[q].b /\ st'[q].write = st[q].write /\ st'[q].chain = st[q].chain
                            /\ buf'[st[q].b].blockno = buf[st[q].b].blockno
    /\ st'[q].pc = "io_sleep" => st[q].pc = "io_sleep" \/ buf[st[q].b].disk

\* Requests stay as they are when neither the rings nor the waiting processes change.
LEMMA FlightsKept ==
  ASSUME CacheType, Places, Flights, SameIO, KeepDisk, UNCHANGED <<avail, used, req>>
  PROVE  Flights'
<1>1. ASSUME NEW q \in Proc, st[q].pc \in InIO
      PROVE  /\ st[q].b \in Buf /\ st'[q].pc \in InIO /\ st'[q].b = st[q].b
             /\ buf'[st[q].b].disk = buf[st[q].b].disk
             /\ \A h : Serves(h, q) <=> Serves(h, q)'
  <2>1. st[q].b \in Buf
    BY <1>1, Held DEF InIO
  <2> QED
    BY <1>1, <2>1 DEF SameIO, KeepDisk, Serves
<1>2. Pending' = Pending
  BY DEF Pending
<1>3. \A h \in Pending' : \E p \in Proc : Serves(h, p)'
  BY <1>1, <1>2 DEF Flights, Serves
<1>4. \A h, g \in Pending' : req'[h].b = req'[g].b => h = g
  BY <1>2 DEF Flights
<1>5. ASSUME NEW q \in Proc, st'[q].pc \in InIO
      PROVE  /\ st'[q].pc = "io_sleep" => buf'[st'[q].b].disk
             /\ buf'[st'[q].b].disk => \E h \in Pending' : Serves(h, q)'
  <2>1. st[q].pc \in InIO
    BY <1>5 DEF SameIO
  <2> QED
    BY <1>1, <1>2, <2>1 DEF Flights, SameIO
<1>6. \A i \in Buf : buf'[i].disk => \E p \in Proc : st'[p].b = i /\ st'[p].pc \in InIO
  BY <1>1 DEF Flights, KeepDisk
<1> QED
  BY <1>3, <1>4, <1>5, <1>6 DEF Flights, InIO, Buf

\* Every buffer that nobody uses is clean, and no completed request's buffer changes.
LEMMA DatasKept ==
  ASSUME CacheType, Places, Datas, SameIO, KeepDisk, UNCHANGED <<used, req, platter>>,
         \A i \in Buf : buf'[i].valid /\ i \notin pinned' /\ buf'[i].lock = Nobody => Clean(i)',
         \A q \in Proc : st[q].pc \in InIO => buf'[st[q].b].data = buf[st[q].b].data
  PROVE  Datas'
<1>1. ASSUME NEW q \in Proc, Completed(q)'
      PROVE  Clean(st[q].b)' /\ st'[q].b = st[q].b
  <2>1. st[q].pc \in InIO /\ st[q].b \in Buf /\ st'[q].b = st[q].b /\ st'[q].chain = st[q].chain
    BY <1>1, Held DEF SameIO, Completed, InIO
  <2>2. Completed(q)
    BY <1>1, <2>1 DEF Completed, KeepDisk
  <2> QED
    BY <2>1, <2>2 DEF Datas, Clean, SameIO
<1> QED
  BY <1>1 DEF Datas, Clean, Buf

\* The types of the cache follow from those of its parts.
LEMMA CacheTypeKept ==
  ASSUME CacheType, NUM' = NUM, buf' \in [Buf -> BufType], st' \in [Proc -> StType],
         lru' \in [Buf -> Buf], pinned' \subseteq Buf
  PROVE  CacheType'
BY DEF CacheType, StType, BufType, Desc, Buf

\* A step that leaves the driver and the device alone keeps their types.
LEMMA DiskTypeKept ==
  ASSUME DiskType, UNCHANGED <<NUM, free, avail, used, req, platter>>
  PROVE  DiskType'
BY DEF DiskType, ReqType, Desc

\* What Place says of process q is as before.
SamePlace(q) ==
  /\ st'[q].b = st[q].b /\ st'[q].write = st[q].write /\ st'[q].chain = st[q].chain
  /\ st'[q].pc = "idle" <=> st[q].pc = "idle"
  /\ st'[q].pc = "hold" <=> st[q].pc = "hold"
  /\ st'[q].pc \in Locked <=> st[q].pc \in Locked
  /\ st'[q].pc \in InIO <=> st[q].pc \in InIO
  /\ st[q].b \in Buf => buf'[st[q].b].blockno = buf[st[q].b].blockno
  /\ st[q].b \in Buf /\ st[q].pc \in Locked => buf'[st[q].b].valid = buf[st[q].b].valid
  /\ \A j \in Buf : buf'[j].lock = q <=> buf[j].lock = q

\* Then Place stays true.
LEMMA PlaceKept ==
  ASSUME CacheType, NEW q \in Proc, Place(q), SamePlace(q)
  PROVE  Place(q)'
<1>1. st[q].pc \in Locked => st[q].b \in Buf
  BY DEF CacheType, StType, Place, Locked, Buf
<1> QED
  BY <1>1 DEF Place, SamePlace, Buf

\* The lock of a buffer has one holder.
LEMMA OneHolder ==
  ASSUME CacheType, Places, NEW p \in Proc, NEW q \in Proc, st[p].pc \in Locked, st[q].pc \in Locked,
         st[p].b = st[q].b
  PROVE  p = q
<1>1. st[p].b \in Buf
  BY Held DEF Locked
<1> QED
  BY <1>1 DEF Places, Place

\* A request in a ring is of a process that waits for it, with its buffer's lock.
LEMMA Served ==
  ASSUME DataInv, NEW h \in Pending
  PROVE  /\ h \in Desc /\ h \notin free
         /\ \E p \in Proc : /\ Serves(h, p) /\ st[p].b \in Buf /\ buf[st[p].b].blockno \in Block
                            /\ st[p].pc \in Locked
<1>1. PICK p \in Proc : Serves(h, p)
  BY DEF DataInv, Flights
<1>2. st[p].b \in Buf /\ buf[st[p].b].blockno \in Block /\ st[p].pc \in Locked
  BY <1>1, Held DEF DataInv, Serves, InIO, Locked
<1>3. h \in st[p].chain /\ st[p].chain \subseteq Desc
  BY <1>1 DEF Serves, DataInv, CacheType, StType
<1> QED
  BY <1>1, <1>2, <1>3 DEF DataInv, Chains

-----------------------------------------------------------------------------
(* virtio_disk_rw                                                          *)

\* virtio_disk_rw publishes a request.
LEMMA SubmitEffect ==
  ASSUME CacheType, DiskType, Places, Choices, NEW p \in Proc, Submit(p), NEW i, i = st[p].b, NEW h, h = First
  PROVE  /\ i \in Buf /\ st[p].pc = "desc" /\ h \in Three /\ Three \subseteq free
         /\ UNCHANGED <<NUM, lru, pinned, used, intr, handler, platter>>
         /\ free' = free \ Three /\ avail' = avail \cup {h}
         /\ buf' \in [Buf -> BufType] /\ st' \in [Proc -> StType] /\ req' \in [Desc -> ReqType]
         /\ KeepBlockno /\ KeepValid /\ KeepRefcnt /\ KeepLock /\ KeepData /\ KeepHeld /\ KeepWrite
         /\ buf'[i].disk /\ \A j \in Buf : j # i => buf'[j].disk = buf[j].disk
         /\ \A q \in Proc : q # p => st'[q] = st[q]
         /\ st'[p].pc = "io_sleep" /\ st'[p].chain = Three
         /\ \A d \in Desc : d # h => req'[d] = req[d]
         /\ req'[h].b = i /\ req'[h].write = st[p].write /\ req'[h].sector = buf[i].blockno /\ ~req'[h].ok
<1>1. /\ i \in Buf /\ st[p].pc = "desc" /\ h \in Three /\ Three \subseteq free
      /\ free \subseteq Desc /\ buf[i].blockno \in Block
  BY Held DEF Submit, At, DiskType, Choices
<1>2. /\ buf' = [buf EXCEPT ![i].disk = TRUE]
      /\ st' = [st EXCEPT ![p].pc = "io_sleep", ![p].chain = Three]
      /\ req' = [req EXCEPT ![h] = [b |-> i, write |-> st[p].write, sector |-> buf[i].blockno, ok |-> FALSE]]
  BY DEF Submit
<1>3. /\ buf' \in [Buf -> BufType] /\ KeepBlockno /\ KeepValid /\ KeepRefcnt /\ KeepLock /\ KeepData
      /\ buf'[i].disk /\ \A j \in Buf : j # i => buf'[j].disk = buf[j].disk
  <2>1. i \in Buf /\ buf \in [Buf -> BufType] /\ buf' = [buf EXCEPT ![i].disk = TRUE]
    BY <1>1, <1>2 DEF CacheType
  <2>2. buf' \in [Buf -> BufType]
    BY <2>1, ZenonT(40) DEF BufType
  <2>3. KeepBlockno /\ KeepValid /\ KeepRefcnt /\ KeepLock /\ KeepData
    BY <2>1 DEF BufType, KeepBlockno, KeepValid, KeepRefcnt, KeepLock, KeepData
  <2>4. buf'[i].disk /\ \A j \in Buf : j # i => buf'[j].disk = buf[j].disk
    BY <2>1 DEF BufType
  <2> QED
    BY <2>2, <2>3, <2>4
<1>4. /\ st' \in [Proc -> StType] /\ KeepHeld /\ KeepWrite
      /\ \A q \in Proc : q # p => st'[q] = st[q]
      /\ st'[p].pc = "io_sleep" /\ st'[p].chain = Three
  <2>1. PICK s : s = [st EXCEPT ![p].pc = "io_sleep"]
    BY Zenon
  <2>2. s \in [Proc -> StType]
    BY <2>1 DEF CacheType, StType, Labels
  <2>3. /\ \A q \in Proc : s[q].b = st[q].b /\ s[q].write = st[q].write /\ (q # p => s[q] = st[q])
        /\ s[p].pc = "io_sleep"
    BY <2>1 DEF CacheType, StType
  <2>4. st' = [s EXCEPT ![p].chain = Three]
    BY <1>2, <2>1
  <2>5. /\ st' \in [Proc -> StType]
        /\ \A q \in Proc : st'[q].b = s[q].b /\ st'[q].write = s[q].write /\ (q # p => st'[q] = s[q])
        /\ st'[p].pc = s[p].pc /\ st'[p].chain = Three
    BY <1>1, <2>2, <2>4 DEF StType
  <2> QED
    BY <2>3, <2>5 DEF KeepHeld, KeepWrite
<1>5. h \in Desc /\ i \in 0..NBUF
  BY <1>1, BlockIOAssumption DEF Buf
<1>6. st[p].write \in BOOLEAN
  BY DEF CacheType, StType
<1>7. req' \in [Desc -> ReqType]
  BY <1>1, <1>2, <1>5, <1>6 DEF DiskType, ReqType
<1>8. /\ \A d \in Desc : d # h => req'[d] = req[d]
      /\ req'[h].b = i /\ req'[h].write = st[p].write /\ req'[h].sector = buf[i].blockno /\ ~req'[h].ok
  BY <1>2, <1>5 DEF DiskType
<1> QED
  BY <1>1, <1>3, <1>4, <1>7, <1>8 DEF Submit

\* virtio_disk_rw publishes a request.
LEMMA SubmitInv ==
  ASSUME DataInv, Choices, NEW p \in Proc, Submit(p)
  PROVE  DataInv'
<1> USE DEF DataInv
<1>0. PICK i, h : i = st[p].b /\ h = First
  OBVIOUS
<1>1. /\ i \in Buf /\ st[p].pc = "desc" /\ h \in Three /\ Three \subseteq free
      /\ UNCHANGED <<NUM, lru, pinned, used, intr, handler, platter>>
      /\ free' = free \ Three /\ avail' = avail \cup {h}
      /\ buf' \in [Buf -> BufType] /\ st' \in [Proc -> StType] /\ req' \in [Desc -> ReqType]
  BY <1>0, SubmitEffect
<1>2. /\ KeepBlockno /\ KeepValid /\ KeepRefcnt /\ KeepLock /\ KeepData /\ KeepHeld /\ KeepWrite
      /\ buf'[i].disk /\ \A j \in Buf : j # i => buf'[j].disk = buf[j].disk
  BY <1>0, SubmitEffect
<1>3. /\ \A q \in Proc : q # p => st'[q] = st[q]
      /\ st'[p].pc = "io_sleep" /\ st'[p].chain = Three
  BY <1>0, SubmitEffect
<1>4. /\ \A d \in Desc : d # h => req'[d] = req[d]
      /\ req'[h].b = i /\ req'[h].write = st[p].write /\ req'[h].sector = buf[i].blockno /\ ~req'[h].ok
  BY <1>0, SubmitEffect
<1>5. CacheType' /\ DiskType'
  <2>1. free' \subseteq Desc /\ avail' \subseteq Desc /\ h \in Desc
    BY <1>1 DEF DiskType
  <2> QED
    BY <1>1, <2>1, CacheTypeKept, Zenon DEF CacheType, DiskType, Desc, ReqType
<1>6. Places'
  <2>1. ASSUME NEW q \in Proc, q # p
        PROVE  Place(q)'
    BY <1>2, <1>3, <2>1, PlaceKept, Zenon DEF SamePlace, Places, KeepBlockno, KeepValid, KeepLock
  <2>2. Place(p)'
    <3>1. Place(p) /\ st'[p].b = i /\ st'[p].write = st[p].write /\ st'[p].pc = "io_sleep" /\ st[p].pc = "desc"
      BY <1>0, <1>1, <1>2, <1>3 DEF Places, KeepHeld, KeepWrite
    <3> QED
      BY <1>0, <1>1, <1>2, <3>1, SMTT(30) DEF Place, KeepBlockno, KeepValid, KeepLock, Locked, InIO, Buf
  <2> QED
    BY <2>1, <2>2 DEF Places
<1>7. Blocks' /\ Listed'
  BY <1>1, <1>2, BlocksKept, Zenon DEF Listed, Buf
<1>8. st[p].chain = {} /\ \A q \in Proc : st[q].chain \cap Three = {}
  BY <1>1 DEF Places, Place, InIO, Chains
<1>9. Chains'
  <2>1. \A d \in Desc \ free' : \E q \in Proc : d \in st'[q].chain
    BY <1>1, <1>3, <1>8 DEF Chains
  <2>2. \A q \in Proc : st'[q].chain \cap free' = {}
    BY <1>1, <1>3 DEF Chains
  <2>3. \A q, r \in Proc : q # r => st'[q].chain \cap st'[r].chain = {}
    BY <1>3, <1>8 DEF Chains
  <2> QED
    BY <1>1, <2>1, <2>2, <2>3, Zenon DEF Chains, Desc
<1>10. h \notin Pending /\ \A g \in Three : g \notin Pending
  BY <1>1, Served
<1>11. Rings'
  BY <1>1, <1>10, Zenon DEF Rings, Pending
<1>12. ASSUME NEW q \in Proc, st[q].pc \in Locked, q # p
       PROVE  st[q].b \in Buf /\ st[q].b # i /\ buf'[st[q].b].disk = buf[st[q].b].disk
  BY <1>0, <1>1, <1>2, <1>12, OneHolder, Held, Zenon DEF Locked
<1>13. ASSUME NEW g \in Pending
       PROVE  g # h /\ req'[g] = req[g] /\ req[g].b # i
  <2>1. g # h /\ g \in Desc
    BY <1>10, Served
  <2>2. PICK q \in Proc : Serves(g, q) /\ st[q].pc \in Locked
    BY Served
  <2>3. q # p /\ req[g].b = st[q].b
    BY <1>1, <2>2, Zenon DEF Serves, InIO
  <2> QED
    BY <1>4, <1>12, <2>1, <2>2, <2>3
<1>14. ASSUME NEW g \in Pending, NEW q \in Proc, Serves(g, q)
       PROVE  Serves(g, q)'
  <2>1. q # p /\ st[q].pc \in Locked
    BY <1>1, <1>14, Zenon DEF Serves, InIO, Locked
  <2> QED
    BY <1>2, <1>3, <1>12, <1>13, <1>14, <2>1 DEF Serves, KeepBlockno
<1>15. Serves(h, p)'
  BY <1>0, <1>1, <1>2, <1>3, <1>4, SMTT(30) DEF Serves, KeepHeld, KeepWrite, KeepBlockno, InIO
<1>16. Pending' = Pending \cup {h}
  BY <1>1, Zenon DEF Pending
<1>17. Flights'
  <2>1. \A g \in Pending' : \E q \in Proc : Serves(g, q)'
    BY <1>14, <1>15, <1>16 DEF Flights
  <2>2. \A f, g \in Pending' : req'[f].b = req'[g].b => f = g
    BY <1>4, <1>13, <1>16 DEF Flights
  <2>3. ASSUME NEW q \in Proc
        PROVE  /\ st'[q].pc = "io_sleep" => buf'[st'[q].b].disk
               /\ st'[q].pc \in InIO /\ buf'[st'[q].b].disk => \E g \in Pending' : Serves(g, q)'
    <3>1. CASE q = p
      BY <1>0, <1>2, <1>15, <1>16, <3>1, Zenon DEF KeepHeld
    <3>2. CASE q # p
      <4>1. st'[q] = st[q] /\ (st[q].pc \in InIO => buf'[st[q].b].disk = buf[st[q].b].disk)
        BY <1>3, <1>12, <3>2 DEF InIO, Locked
      <4>2. st[q].pc = "io_sleep" => st[q].pc \in InIO
        BY DEF InIO
      <4> QED
        BY <1>14, <1>16, <4>1, <4>2, Zenon DEF Flights
    <3> QED
      BY <3>1, <3>2
  <2>4. ASSUME NEW j \in Buf, buf'[j].disk
        PROVE  \E q \in Proc : st'[q].b = j /\ st'[q].pc \in InIO
    <3>1. CASE j = i
      BY <1>0, <1>2, <1>3, <3>1, Zenon DEF KeepHeld, InIO
    <3>2. CASE j # i
      <4>1. PICK q \in Proc : st[q].b = j /\ st[q].pc \in InIO
        BY <1>2, <2>4, <3>2, Zenon DEF Flights
      <4>2. q # p
        BY <1>1, <4>1, Zenon DEF InIO
      <4> QED
        BY <1>3, <4>1, <4>2, Zenon
    <3> QED
      BY <3>1, <3>2, Zenon
  <2> QED
    BY <2>1, <2>2, <2>3, <2>4, Zenon DEF Flights, Buf
<1>18. Sleeps'
  <2>1. \A q \in Proc : st[q].pc # "desc_sleep"
    BY SMTT(30) DEF Sleeps, Submit, Choices
  <2> QED
    BY <1>2, <1>3, <2>1, Held DEF Sleeps, KeepLock, KeepHeld
<1>19. Datas'
  <2>1. \A j \in Buf : Clean(j)' <=> Clean(j)
    BY <1>1, <1>2 DEF Clean, KeepData, KeepBlockno
  <2>2. \A j \in Buf : buf'[j].valid /\ j \notin pinned' /\ buf'[j].lock = Nobody => Clean(j)'
    BY <1>1, <1>2, <2>1, Zenon DEF Datas, KeepValid, KeepLock
  <2>3. ASSUME NEW q \in Proc, Completed(q)'
        PROVE  Clean(st[q].b)' /\ st'[q].b = st[q].b
    <3>1. q # p
      BY <1>0, <1>1, <1>2, <1>3, <1>10, <2>3, Zenon DEF Completed, Pending, KeepHeld
    <3>2. st[q].pc \in InIO /\ st[q].pc \in Locked /\ st'[q] = st[q]
      BY <1>3, <2>3, <3>1, Zenon DEF Completed, InIO, Locked
    <3>3. Completed(q)
      BY <1>1, <1>12, <1>13, <2>3, <3>1, <3>2 DEF Completed, Pending
    <3> QED
      BY <1>12, <2>1, <3>1, <3>2, <3>3, Zenon DEF Datas
  <2> QED
    BY <2>2, <2>3, Zenon DEF Datas, Clean, Buf
<1> QED
  BY <1>5, <1>6, <1>7, <1>9, <1>11, <1>17, <1>18, <1>19

\* The end of virtio_disk_rw.
LEMMA DoneEffect ==
  ASSUME CacheType, DiskType, Places, NEW p \in Proc, IoDone(p), NEW i, i = st[p].b
  PROVE  /\ i \in Buf /\ st[p].pc = "io" /\ ~buf[i].disk
         /\ UNCHANGED <<NUM, lru, pinned, avail, used, intr, handler, platter>>
         /\ free' = free \cup st[p].chain
         /\ buf' \in [Buf -> BufType] /\ st' \in [Proc -> StType] /\ req' \in [Desc -> ReqType]
         /\ KeepBlockno /\ KeepRefcnt /\ KeepLock /\ KeepDisk /\ KeepData /\ KeepHeld
         /\ buf'[i].valid /\ \A j \in Buf : j # i => buf'[j].valid = buf[j].valid
         /\ \A q \in Proc : q # p => /\ st'[q].write = st[q].write /\ st'[q].chain = st[q].chain
                                     /\ st'[q].pc = IF st[q].pc = "desc_sleep" THEN "desc" ELSE st[q].pc
         /\ st'[p].pc = "hold" /\ st'[p].chain = {} /\ ~st'[p].write
         /\ \A d \in Desc : d \notin st[p].chain => req'[d] = req[d]
<1>1. i \in Buf /\ st[p].pc = "io" /\ ~buf[i].disk
  BY Held DEF IoDone, At
<1>2. buf' = [buf EXCEPT ![i].valid = TRUE] /\ req' = [d \in Desc |-> IF d \in st[p].chain THEN NoReq ELSE req[d]]
  BY DEF IoDone
<1>3. /\ buf' \in [Buf -> BufType] /\ KeepBlockno /\ KeepRefcnt /\ KeepLock /\ KeepDisk /\ KeepData
      /\ buf'[i].valid /\ \A j \in Buf : j # i => buf'[j].valid = buf[j].valid
  <2>1. i \in Buf /\ buf \in [Buf -> BufType] /\ buf' = [buf EXCEPT ![i].valid = TRUE]
    BY <1>1, <1>2 DEF CacheType
  <2>2. buf' \in [Buf -> BufType]
    BY <2>1, ZenonT(40) DEF BufType
  <2>3. KeepBlockno /\ KeepRefcnt /\ KeepLock /\ KeepDisk /\ KeepData
    BY <2>1 DEF BufType, KeepBlockno, KeepRefcnt, KeepLock, KeepDisk, KeepData
  <2>4. buf'[i].valid /\ \A j \in Buf : j # i => buf'[j].valid = buf[j].valid
    BY <2>1 DEF BufType
  <2> QED
    BY <2>2, <2>3, <2>4
<1>4. ASSUME NEW q \in Proc, q # p
      PROVE  /\ st'[q] \in StType /\ st'[q].b = st[q].b
             /\ st'[q].write = st[q].write /\ st'[q].chain = st[q].chain
             /\ st'[q].pc = IF st[q].pc = "desc_sleep" THEN "desc" ELSE st[q].pc
  <2>1. st'[q] = IF st[q].pc = "desc_sleep" THEN [st[q] EXCEPT !.pc = "desc"] ELSE st[q]
    BY <1>4 DEF IoDone
  <2> QED
    BY <2>1 DEF CacheType, StType, Labels
<1>5. st'[p] \in StType /\ st'[p].b = i /\ st'[p].pc = "hold" /\ st'[p].chain = {} /\ ~st'[p].write
  <2>1. PICK s : s = [st[p] EXCEPT !.pc = "hold"]
    BY Zenon
  <2>2. PICK r : r = [s EXCEPT !.write = FALSE]
    BY Zenon
  <2>3. s \in StType /\ s.pc = "hold" /\ s.b = i
    BY <2>1, Zenon DEF CacheType, StType, Labels
  <2>4. r \in StType /\ r.pc = "hold" /\ r.b = i /\ ~r.write
    BY <2>2, <2>3, Zenon DEF StType
  <2>5. st'[p] = [r EXCEPT !.chain = {}]
    BY <2>1, <2>2 DEF IoDone
  <2> QED
    BY <2>4, <2>5 DEF StType
<1>6. st' \in [Proc -> StType] /\ KeepHeld
  BY <1>4, <1>5 DEF IoDone, KeepHeld
<1>7. req' \in [Desc -> ReqType]
  <2>1. NoReq \in ReqType
    BY BlockIOAssumption DEF NoReq, ReqType
  <2> QED
    BY <1>2, <2>1 DEF DiskType
<1>8. \A d \in Desc : d \notin st[p].chain => req'[d] = req[d]
  BY <1>2
<1> QED
  BY <1>1, <1>3, <1>4, <1>5, <1>6, <1>7, <1>8, Zenon DEF IoDone

\* The end of virtio_disk_rw: the request is over.
LEMMA DoneInv ==
  ASSUME DataInv, NEW p \in Proc, IoDone(p)
  PROVE  DataInv'
<1> USE DEF DataInv
<1>0. PICK i : i = st[p].b
  BY Zenon
<1>1. /\ i \in Buf /\ st[p].pc = "io" /\ ~buf[i].disk
      /\ UNCHANGED <<NUM, lru, pinned, avail, used, intr, handler, platter>>
      /\ free' = free \cup st[p].chain
      /\ buf' \in [Buf -> BufType] /\ st' \in [Proc -> StType] /\ req' \in [Desc -> ReqType]
  BY <1>0, DoneEffect, Zenon
<1>2. /\ KeepBlockno /\ KeepRefcnt /\ KeepLock /\ KeepDisk /\ KeepData /\ KeepHeld
      /\ buf'[i].valid /\ \A j \in Buf : j # i => buf'[j].valid = buf[j].valid
  BY <1>0, DoneEffect, SMTT(30)
<1>3. /\ \A q \in Proc : q # p => /\ st'[q].write = st[q].write /\ st'[q].chain = st[q].chain
                                  /\ st'[q].pc = IF st[q].pc = "desc_sleep" THEN "desc" ELSE st[q].pc
      /\ st'[p].pc = "hold" /\ st'[p].chain = {} /\ ~st'[p].write
      /\ \A d \in Desc : d \notin st[p].chain => req'[d] = req[d]
  BY <1>0, DoneEffect
<1>4. CacheType' /\ DiskType'
  <2>1. free' \subseteq Desc
    BY <1>1, Zenon DEF DiskType, CacheType, StType
  <2> QED
    BY <1>1, <2>1, CacheTypeKept, Zenon DEF CacheType, DiskType, Desc, ReqType
<1>5. ASSUME NEW q \in Proc, st[q].pc \in Locked, q # p
      PROVE  st[q].b \in Buf /\ st[q].b # i
  BY <1>0, <1>1, <1>5, OneHolder, Held DEF Locked
<1>6. Places'
  <2>1. ASSUME NEW q \in Proc, q # p
        PROVE  Place(q)'
    <3>1. /\ st'[q].pc = "idle" <=> st[q].pc = "idle"
          /\ st'[q].pc = "hold" <=> st[q].pc = "hold"
          /\ st'[q].pc \in Locked <=> st[q].pc \in Locked
          /\ st'[q].pc \in InIO <=> st[q].pc \in InIO
      BY <1>3, <2>1, Zenon DEF Locked, InIO
    <3>2. SamePlace(q)
      BY <1>2, <1>3, <1>5, <2>1, <3>1, ZenonT(40) DEF SamePlace, KeepBlockno, KeepLock, KeepHeld
    <3> QED
      BY <3>2, PlaceKept DEF Places
  <2>2. Place(p)'
    <3>1. Place(p) /\ st'[p].b = i /\ st'[p].pc = "hold" /\ st[p].pc = "io"
      BY <1>0, <1>1, <1>2, <1>3, Zenon DEF Places, KeepHeld
    <3> QED
      BY <1>0, <1>1, <1>2, <1>3, <3>1, SMTT(30) DEF Place, KeepBlockno, KeepLock, Locked, InIO, Buf
  <2> QED
    BY <2>1, <2>2 DEF Places
<1>7. Blocks'
  <2>1. buf[i].blockno \in Block
    BY <1>0, <1>1, Held
  <2> QED
    BY <1>2, <2>1, Zenon DEF Blocks, KeepBlockno, Buf
<1>8. Rings' /\ Listed'
  BY <1>1, <1>2, Zenon DEF Rings, Listed, Buf
<1>9. Chains'
  <2>1. \A d \in Desc \ free' : \E q \in Proc : d \in st'[q].chain
    BY <1>1, <1>3, Zenon DEF Chains
  <2>2. \A q \in Proc : st'[q].chain \cap free' = {}
    BY <1>1, <1>3 DEF Chains
  <2>3. \A q, r \in Proc : q # r => st'[q].chain \cap st'[r].chain = {}
    BY <1>3, Zenon DEF Chains
  <2> QED
    BY <1>1, <2>1, <2>2, <2>3, Zenon DEF Chains, Desc
<1>10. Pending' = Pending
  BY <1>1 DEF Pending
<1>11. ASSUME NEW g \in Pending
       PROVE  g \notin st[p].chain /\ req'[g] = req[g]
  <2>1. PICK q \in Proc : Serves(g, q) /\ g \in Desc
    BY Served, Zenon
  <2>2. q # p
    BY <1>0, <1>1, <2>1, Zenon DEF Serves
  <2>3. g \notin st[p].chain
    BY <2>1, <2>2 DEF Serves, Chains
  <2> QED
    BY <1>3, <2>1, <2>3
<1>12. ASSUME NEW q \in Proc, q # p
       PROVE  st'[q].pc \in InIO <=> st[q].pc \in InIO
  BY <1>3, <1>12, Zenon DEF InIO
<1>13. ASSUME NEW g \in Pending, NEW q \in Proc, Serves(g, q)
       PROVE  Serves(g, q)' /\ q # p
  <2>1. q # p /\ st[q].pc \in Locked /\ st[q].pc \in InIO
    BY <1>0, <1>1, <1>13 DEF Serves, InIO, Locked
  <2>2. st'[q].b = st[q].b /\ st[q].b \in Buf
    BY <1>2, <1>5, <2>1, Zenon DEF KeepHeld
  <2> QED
    BY <1>2, <1>3, <1>11, <1>12, <1>13, <2>1, <2>2, ZenonT(40) DEF Serves, KeepBlockno, KeepDisk
<1>14. Flights'
  <2>1. \A g \in Pending' : \E q \in Proc : Serves(g, q)'
    BY <1>10, <1>13 DEF Flights
  <2>2. \A f, g \in Pending' : req'[f].b = req'[g].b => f = g
    BY <1>10, <1>11, SMTT(30) DEF Flights
  <2>3. ASSUME NEW q \in Proc, st'[q].pc \in InIO
        PROVE  /\ st'[q].pc = "io_sleep" => buf'[st'[q].b].disk
               /\ buf'[st'[q].b].disk => \E g \in Pending' : Serves(g, q)'
    <3>1. q # p
      BY <1>3, <2>3 DEF InIO
    <3>2. st[q].pc \in InIO /\ st[q].pc \in Locked /\ st'[q].pc = st[q].pc
      BY <1>3, <1>12, <2>3, <3>1 DEF InIO, Locked
    <3>3. st'[q].b = st[q].b /\ buf'[st[q].b].disk = buf[st[q].b].disk
      BY <1>2, <1>5, <3>1, <3>2 DEF KeepHeld, KeepDisk
    <3> QED
      BY <1>10, <1>13, <3>2, <3>3, Zenon DEF Flights
  <2>4. ASSUME NEW j \in Buf, buf'[j].disk
        PROVE  \E q \in Proc : st'[q].b = j /\ st'[q].pc \in InIO
    <3>1. PICK q \in Proc : st[q].b = j /\ st[q].pc \in InIO
      BY <1>2, <2>4, Zenon DEF Flights, KeepDisk
    <3>2. q # p
      BY <1>0, <1>1, <1>2, <2>4, <3>1 DEF KeepDisk
    <3> QED
      BY <1>2, <1>12, <3>1, <3>2, Zenon DEF KeepHeld
  <2>5. \A q \in Proc : st'[q].pc = "io_sleep" => st'[q].pc \in InIO
    BY Zenon DEF InIO
  <2> QED
    BY <2>1, <2>2, <2>3, <2>4, <2>5, Zenon DEF Flights, Buf
<1>15. Sleeps'
  <2>1. \A q \in Proc : st'[q].pc # "desc_sleep"
    BY <1>3
  <2>2. ASSUME NEW q \in Proc, st'[q].pc = "lock_sleep"
        PROVE  buf'[st'[q].b].lock # Nobody
    <3>1. st[q].pc = "lock_sleep"
      BY <1>3, <2>2, Zenon
    <3> QED
      BY <1>2, <3>1, Held DEF Sleeps, KeepLock, KeepHeld
  <2> QED
    BY <2>1, <2>2 DEF Sleeps
<1>16. Datas'
  <2>1. \A j \in Buf : Clean(j)' <=> Clean(j)
    BY <1>1, <1>2, Zenon DEF Clean, KeepData, KeepBlockno
  <2>2. buf[i].lock = p
    BY <1>0, <1>1 DEF Places, Place, Locked
  <2>3. \A j \in Buf : buf'[j].valid /\ j \notin pinned' /\ buf'[j].lock = Nobody => Clean(j)'
    BY <1>1, <1>2, <2>1, <2>2, BlockIOAssumption, Zenon DEF Datas, KeepLock
  <2>4. ASSUME NEW q \in Proc, Completed(q)'
        PROVE  Clean(st[q].b)' /\ st'[q].b = st[q].b
    <3>1. q # p
      BY <1>3, <2>4, Zenon DEF Completed, InIO
    <3>2. st[q].pc \in InIO /\ st[q].pc \in Locked /\ st'[q].b = st[q].b /\ st'[q].chain = st[q].chain
      BY <1>2, <1>3, <1>12, <2>4, <3>1, ZenonT(40) DEF Completed, InIO, Locked, KeepHeld
    <3>3. Completed(q)
      BY <1>1, <1>2, <1>5, <1>11, <2>4, <3>1, <3>2, Zenon DEF Completed, Pending, KeepDisk
    <3> QED
      BY <1>5, <2>1, <3>1, <3>2, <3>3 DEF Datas
  <2> QED
    BY <2>3, <2>4, Zenon DEF Datas, Clean, Buf
<1> QED
  BY <1>4, <1>6, <1>7, <1>8, <1>9, <1>14, <1>15, <1>16

-----------------------------------------------------------------------------
(* The device, and virtio_disk_intr                                        *)

\* The heads of a ring after the device has added one.
LEMMA HeadsAppend ==
  ASSUME NEW D, NEW s \in Seq(D), NEW h \in D
  PROVE  Append(s, h) \in Seq(D) /\ Heads(Append(s, h)) = Heads(s) \cup {h}
<1>1. /\ Append(s, h) \in Seq(D) /\ Len(Append(s, h)) = Len(s) + 1 /\ Len(s) \in Nat
      /\ DOMAIN s = 1..Len(s) /\ DOMAIN Append(s, h) = 1..(Len(s) + 1)
      /\ \A k \in 1..Len(s) : Append(s, h)[k] = s[k]
      /\ Append(s, h)[Len(s) + 1] = h
  OBVIOUS
<1>2. \A x : x \in Heads(Append(s, h)) => x \in Heads(s) \cup {h}
  BY <1>1 DEF Heads
<1>3. \A x : x \in Heads(s) => x \in Heads(Append(s, h))
  BY <1>1 DEF Heads
<1>4. h \in Heads(Append(s, h))
  BY <1>1, SMTT(30) DEF Heads
<1> QED
  BY <1>1, <1>2, <1>3, <1>4, Zenon

\* The device completes a request for buffer i.
LEMMA DeviceEffect ==
  ASSUME CacheType, DiskType, NEW h \in avail, NEW ok \in BOOLEAN, DeviceDone(h, ok),
         NEW i \in Buf, i = req[h].b, req[h].sector \in Block
  PROVE  /\ UNCHANGED <<NUM, lru, free, handler, pinned, st>> /\ intr'
         /\ avail' = avail \ {h} /\ used' = Append(used, h)
         /\ buf' \in [Buf -> BufType] /\ req' \in [Desc -> ReqType] /\ platter' \in [Block -> Val]
         /\ KeepBlockno /\ KeepValid /\ KeepRefcnt /\ KeepLock /\ KeepDisk
         /\ \A d \in Desc : /\ req'[d].b = req[d].b /\ req'[d].write = req[d].write /\ req'[d].sector = req[d].sector
                            /\ d # h => req'[d].ok = req[d].ok
         /\ req'[h].ok = ok
         /\ \A j \in Buf : j # i \/ req[h].write \/ ~ok => buf'[j].data = buf[j].data
         /\ \A b \in Block : b # req[h].sector \/ ~req[h].write \/ ~ok => platter'[b] = platter[b]
         /\ ok => buf'[i].data = platter'[req[h].sector]
<1>1. h \in Desc
  BY DEF DiskType
<1>2. /\ req' = [req EXCEPT ![h].ok = ok]
      /\ platter' = IF ok /\ req[h].write THEN [platter EXCEPT ![req[h].sector] = buf[i].data] ELSE platter
      /\ buf' = IF ok /\ ~req[h].write THEN [buf EXCEPT ![i].data = platter[req[h].sector]] ELSE buf
  BY DEF DeviceDone
<1>3. /\ req' \in [Desc -> ReqType]
      /\ \A d \in Desc : /\ req'[d].b = req[d].b /\ req'[d].write = req[d].write /\ req'[d].sector = req[d].sector
                         /\ d # h => req'[d].ok = req[d].ok
      /\ req'[h].ok = ok
  BY <1>1, <1>2, Zenon DEF DiskType, ReqType
<1>4. buf[i].data \in Val /\ platter[req[h].sector] \in Val
  BY DEF CacheType, DiskType, BufType
<1>5. /\ buf' \in [Buf -> BufType] /\ KeepBlockno /\ KeepValid /\ KeepRefcnt /\ KeepLock /\ KeepDisk
      /\ \A j \in Buf : j # i \/ req[h].write \/ ~ok => buf'[j].data = buf[j].data
      /\ ok /\ ~req[h].write => buf'[i].data = platter[req[h].sector]
  BY <1>2, <1>4, SMTT(30) DEF CacheType, BufType, KeepBlockno, KeepValid, KeepRefcnt, KeepLock, KeepDisk
<1>6. /\ platter' \in [Block -> Val]
      /\ \A b \in Block : b # req[h].sector \/ ~req[h].write \/ ~ok => platter'[b] = platter[b]
      /\ ok /\ req[h].write => platter'[req[h].sector] = buf[i].data
  BY <1>2, <1>4, Zenon DEF DiskType
<1>7. ok => buf'[i].data = platter'[req[h].sector]
  BY <1>5, <1>6
<1> QED
  BY <1>3, <1>5, <1>6, <1>7 DEF DeviceDone

\* The device completes a request.
LEMMA DeviceInv ==
  ASSUME DataInv, NEW h \in avail, NEW ok \in BOOLEAN, DeviceDone(h, ok)
  PROVE  DataInv'
<1> USE DEF DataInv
<1>p. h \in Pending
  BY DEF Pending
<1>0. PICK p \in Proc : /\ Serves(h, p) /\ st[p].b \in Buf /\ buf[st[p].b].blockno \in Block
                        /\ st[p].pc \in Locked
  BY <1>p, Served, Zenon
<1>i. PICK i \in Buf : i = req[h].b /\ i = st[p].b /\ req[h].sector = buf[i].blockno /\ req[h].sector \in Block
                       /\ buf[i].disk
  BY <1>0 DEF Serves
<1>e. /\ UNCHANGED <<NUM, lru, free, handler, pinned, st>> /\ intr'
      /\ avail' = avail \ {h} /\ used' = Append(used, h)
      /\ buf' \in [Buf -> BufType] /\ req' \in [Desc -> ReqType] /\ platter' \in [Block -> Val]
      /\ KeepBlockno /\ KeepValid /\ KeepRefcnt /\ KeepLock /\ KeepDisk
      /\ \A d \in Desc : /\ req'[d].b = req[d].b /\ req'[d].write = req[d].write /\ req'[d].sector = req[d].sector
                         /\ d # h => req'[d].ok = req[d].ok
      /\ req'[h].ok = ok
      /\ \A j \in Buf : j # i \/ req[h].write \/ ~ok => buf'[j].data = buf[j].data
      /\ \A b \in Block : b # req[h].sector \/ ~req[h].write \/ ~ok => platter'[b] = platter[b]
      /\ ok => buf'[i].data = platter'[req[h].sector]
  <2> HIDE DEF DataInv
  <2>1. CacheType /\ DiskType
    BY DEF DataInv
  <2> QED
    BY <1>i, <2>1, DeviceEffect, Zenon
<1>1. /\ UNCHANGED <<NUM, lru, free, handler, pinned, st>> /\ intr'
      /\ avail' = avail \ {h} /\ used' = Append(used, h)
      /\ buf' \in [Buf -> BufType] /\ req' \in [Desc -> ReqType] /\ platter' \in [Block -> Val]
      /\ KeepBlockno /\ KeepValid /\ KeepRefcnt /\ KeepLock /\ KeepDisk
  BY <1>e
<1>2. /\ \A d \in Desc : /\ req'[d].b = req[d].b /\ req'[d].write = req[d].write /\ req'[d].sector = req[d].sector
                         /\ d # h => req'[d].ok = req[d].ok
      /\ req'[h].ok = ok
      /\ \A j \in Buf : j # i \/ req[h].write \/ ~ok => buf'[j].data = buf[j].data
      /\ \A b \in Block : b # req[h].sector \/ ~req[h].write \/ ~ok => platter'[b] = platter[b]
      /\ ok => buf'[i].data = platter'[req[h].sector]
  BY <1>e, Zenon
<1>3. h \in Desc /\ used' \in Seq(Desc) /\ Heads(used') = Heads(used) \cup {h}
  BY <1>1, HeadsAppend DEF DiskType
<1>4. CacheType' /\ DiskType'
  <2>1. avail' \subseteq Desc
    BY <1>1 DEF DiskType
  <2> QED
    BY <1>1, <1>3, <2>1, CacheTypeKept, Zenon DEF CacheType, DiskType, Desc, ReqType
<1>5. KeepHeld /\ KeepWrite /\ KeepChain
  BY <1>1, Zenon DEF KeepHeld, KeepWrite, KeepChain
<1>6. Places'
  BY <1>1, PlaceKept DEF SamePlace, Places, KeepBlockno, KeepValid, KeepLock
<1>7. Blocks' /\ Chains' /\ Listed'
  BY <1>1, <1>5, BlocksKept, ChainsKept DEF Listed, Buf
<1>8. Rings'
  <2>1. h \notin Heads(used)
    BY DEF Rings
  <2>2. \A k, l \in 1..Len(used') : used'[k] = used'[l] => k = l
    <3>1. /\ Len(used) \in Nat /\ Len(used') = Len(used) + 1 /\ used'[Len(used) + 1] = h
          /\ DOMAIN used = 1..Len(used) /\ \A k \in 1..Len(used) : used'[k] = used[k]
      BY <1>1, <1>3 DEF DiskType
    <3>2. \A k \in 1..Len(used) : used'[k] # h
      BY <2>1, <3>1 DEF Heads
    <3>3. \A k \in 1..Len(used') : k # Len(used) + 1 => k \in 1..Len(used)
      BY <3>1
    <3> QED
      BY <3>1, <3>2, <3>3 DEF Rings
  <2>3. avail' \cap Heads(used') = {}
    BY <1>1, <1>3 DEF Rings
  <2> QED
    BY <1>1, <2>2, <2>3 DEF Rings
<1>9. Pending' = Pending
  BY <1>1, <1>3, Zenon DEF Pending
<1>10. ASSUME NEW g \in Pending, NEW q \in Proc, Serves(g, q)
       PROVE  Serves(g, q)'
  <2>1. g \in Desc /\ st[q].b \in Buf
    BY <1>10, Served, Held DEF Serves, InIO
  <2> QED
    BY <1>1, <1>2, <1>10, <2>1, Zenon DEF Serves, KeepBlockno, KeepDisk
<1>11. Flights'
  <2>1. \A g \in Pending' : \E q \in Proc : Serves(g, q)'
    BY <1>9, <1>10, Zenon DEF Flights
  <2>2. \A f, g \in Pending' : req'[f].b = req'[g].b => f = g
    <3>1. \A g \in Pending : req'[g].b = req[g].b
      BY <1>2, Served, Zenon
    <3> QED
      BY <1>9, <3>1, SMTT(30) DEF Flights
  <2>3. ASSUME NEW q \in Proc, st[q].pc \in InIO
        PROVE  /\ st[q].pc = "io_sleep" => buf'[st[q].b].disk
               /\ buf'[st[q].b].disk => \E g \in Pending' : Serves(g, q)'
    <3>1. buf'[st[q].b].disk = buf[st[q].b].disk
      BY <1>1, <2>3, Held DEF InIO, KeepDisk
    <3> QED
      BY <1>9, <1>10, <2>3, <3>1, Zenon DEF Flights
  <2>4. \A j \in Buf : buf'[j].disk => \E q \in Proc : st[q].b = j /\ st[q].pc \in InIO
    BY <1>1, Zenon DEF Flights, KeepDisk
  <2>5. \A q \in Proc : st[q].pc = "io_sleep" => st[q].pc \in InIO
    BY DEF InIO
  <2> QED
    BY <1>1, <2>1, <2>2, <2>3, <2>4, <2>5, Zenon DEF Flights, Buf
<1>12. Sleeps'
  BY <1>1, Held, Zenon DEF Sleeps, KeepLock
<1>13. ASSUME NEW j \in Buf, j # i, buf[j].blockno \in Block
       PROVE  Clean(j)' <=> Clean(j)
  <2>1. buf[j].blockno # req[h].sector
    BY <1>i, <1>13 DEF Blocks
  <2> QED
    BY <1>1, <1>2, <1>13, <2>1, Zenon DEF Clean, KeepBlockno
<1>14. Datas'
  <2>1. buf[i].lock = p
    BY <1>0, <1>i, ZenonT(40) DEF Places, Place
  <2>2. ASSUME NEW j \in Buf, buf'[j].valid, j \notin pinned', buf'[j].lock = Nobody
        PROVE  Clean(j)'
    <3>1. buf[j].valid /\ j \notin pinned /\ buf[j].lock = Nobody /\ j # i /\ buf[j].blockno \in Block
      BY <1>1, <2>1, <2>2, BlockIOAssumption DEF KeepValid, KeepLock, Blocks
    <3> QED
      BY <1>13, <3>1, Zenon DEF Datas
  <2>3. ASSUME NEW q \in Proc, Completed(q)'
        PROVE  Clean(st[q].b)'
    <3>1. st[q].pc \in InIO /\ st[q].b \in Buf /\ buf[st[q].b].blockno \in Block /\ st[q].pc \in Locked
      BY <1>1, <2>3, Held DEF Completed, InIO, Locked
    <3>2. CASE q = p
      <4>1. buf'[st[q].b].disk
        BY <1>1, <1>i, <3>2, Zenon DEF KeepDisk
      <4>2. PICK g \in Heads(used') : g \in st[p].chain /\ req'[g].ok
        BY <1>1, <2>3, <3>2, <4>1, Zenon DEF Completed
      <4>3. g \in Pending
        BY <1>3, <1>p, <4>2, Zenon DEF Pending
      <4>4. PICK r \in Proc : Serves(g, r)
        BY <4>3, Zenon DEF Flights
      <4>5. r = p
        BY <4>2, <4>4, Zenon DEF Serves, Chains
      <4>6. g = h
        <5>1. req[g].b = req[h].b
          BY <1>i, <4>4, <4>5 DEF Serves
        <5> QED
          BY <1>p, <4>3, <5>1, Zenon DEF Flights
      <4> QED
        BY <1>1, <1>2, <1>i, <3>2, <4>2, <4>6, ZenonT(40) DEF Clean, KeepBlockno
    <3>3. CASE q # p
      <4>1. st[q].b # i
        BY <1>0, <1>i, <3>1, <3>3, OneHolder, Zenon
      <4>2. h \notin st[q].chain
        BY <1>0, <3>3, ZenonT(40) DEF Serves, Chains
      <4>3. \A g \in Heads(used) : g \in Desc /\ (g # h => req'[g].ok = req[g].ok)
        BY <1>2, Served, ZenonT(40) DEF Pending
      <4>4. Completed(q)
        BY <1>1, <1>3, <2>3, <3>1, <4>2, <4>3, Zenon DEF Completed, KeepDisk
      <4>5. Clean(st[q].b)
        BY <4>4 DEF Datas
      <4>6. PICK j \in Buf : j = st[q].b
        BY <3>1, ZenonT(40)
      <4>7. Clean(j)'
        BY <1>13, <3>1, <4>1, <4>5, <4>6
      <4> QED
        BY <1>1, <4>6, <4>7, Zenon DEF Clean
    <3> QED
      BY <3>2, <3>3, Zenon
  <2> QED
    BY <1>1, <2>2, <2>3, Zenon DEF Datas, Clean, Buf
<1> QED
  BY <1>4, <1>6, <1>7, <1>8, <1>11, <1>12, <1>14

\* The heads of a ring after virtio_disk_intr has consumed the first.
LEMMA HeadsTail ==
  ASSUME NEW D, NEW s \in Seq(D), s # <<>>, \A k, l \in 1..Len(s) : s[k] = s[l] => k = l
  PROVE  /\ Tail(s) \in Seq(D) /\ Head(s) \in Heads(s) /\ Heads(Tail(s)) = Heads(s) \ {Head(s)}
         /\ \A k, l \in 1..Len(Tail(s)) : Tail(s)[k] = Tail(s)[l] => k = l
<1>1. /\ Len(s) \in Nat /\ Len(s) > 0 /\ Head(s) = s[1] /\ DOMAIN s = 1..Len(s)
      /\ Tail(s) \in Seq(D) /\ Len(Tail(s)) = Len(s) - 1 /\ DOMAIN Tail(s) = 1..(Len(s) - 1)
      /\ \A k \in 1..(Len(s) - 1) : Tail(s)[k] = s[k + 1]
  OBVIOUS
<1>2. \A k \in 1..(Len(s) - 1) : k + 1 \in 1..Len(s) /\ k + 1 # 1
  BY <1>1, SMTT(30)
<1>3. \A x : x \in Heads(Tail(s)) => x \in Heads(s) \ {Head(s)}
  BY <1>1, <1>2 DEF Heads
<1>4. ASSUME NEW x \in Heads(s), x # Head(s)
      PROVE  x \in Heads(Tail(s))
  <2>1. PICK k \in 1..Len(s) : x = s[k]
    BY <1>1 DEF Heads
  <2>2. k - 1 \in 1..(Len(s) - 1) /\ (k - 1) + 1 = k
    BY <1>1, <1>4, <2>1
  <2>3. PICK m : m = k - 1 /\ m \in DOMAIN Tail(s) /\ Tail(s)[m] = x
    BY <1>1, <2>1, <2>2, Zenon
  <2> QED
    BY <2>3, Zenon DEF Heads
<1>5. \A k, l \in 1..Len(Tail(s)) : Tail(s)[k] = Tail(s)[l] => k = l
  BY <1>1, <1>2
<1>6. Head(s) \in Heads(s)
  BY <1>1 DEF Heads
<1> QED
  BY <1>1, <1>3, <1>4, <1>5, <1>6, Zenon

\* b->disk is cleared, and who waits for buffer i wakes.
LEMMA CollectEffect ==
  ASSUME CacheType, NEW i \in Buf, buf' = [buf EXCEPT ![i].disk = FALSE],
         Wakeup(Nobody, "", {q \in Proc : st[q].b = i}, "io_sleep", "io")
  PROVE  /\ buf' \in [Buf -> BufType] /\ st' \in [Proc -> StType]
         /\ KeepBlockno /\ KeepValid /\ KeepRefcnt /\ KeepLock /\ KeepData /\ KeepHeld /\ KeepWrite /\ KeepChain
         /\ ~buf'[i].disk /\ \A j \in Buf : j # i => buf'[j].disk = buf[j].disk
         /\ \A q \in Proc : st'[q].pc = IF st[q].b = i /\ st[q].pc = "io_sleep" THEN "io" ELSE st[q].pc
<1>1. "io" \in Labels /\ (Nobody \in Proc => "" \in Labels)
  BY BlockIOAssumption, Zenon DEF Labels
<1>2. buf \in [Buf -> BufType]
  BY Zenon DEF CacheType
<1>3. buf' \in [Buf -> BufType]
  BY <1>2, Zenon DEF BufType
<1>4. KeepBlockno /\ KeepValid /\ KeepRefcnt /\ KeepLock /\ KeepData
  BY <1>2, Zenon DEF BufType, KeepBlockno, KeepValid, KeepRefcnt, KeepLock, KeepData
<1>5. ~buf'[i].disk /\ \A j \in Buf : j # i => buf'[j].disk = buf[j].disk
  BY <1>2, Zenon DEF BufType
<1>6. ASSUME NEW q \in Proc
      PROVE  /\ st'[q] \in StType
             /\ st'[q].b = st[q].b /\ st'[q].write = st[q].write /\ st'[q].chain = st[q].chain
             /\ st'[q].pc = IF st[q].b = i /\ st[q].pc = "io_sleep" THEN "io" ELSE st[q].pc
  <2>1. st[q] \in StType /\ q # Nobody
    BY BlockIOAssumption, Zenon DEF CacheType
  <2>2. st'[q] = IF st[q].b = i /\ st[q].pc = "io_sleep" THEN [st[q] EXCEPT !.pc = "io"] ELSE st[q]
    BY <2>1, Zenon DEF Wakeup
  <2> QED
    BY <1>1, <2>1, <2>2, Zenon DEF StType
<1>7. st' \in [Proc -> StType]
  BY <1>6, Zenon DEF Wakeup
<1> QED
  BY <1>3, <1>4, <1>5, <1>6, <1>7, Zenon DEF KeepHeld, KeepWrite, KeepChain

\* virtio_disk_intr handles a completion, for buffer i.
LEMMA IntrEffect ==
  ASSUME CacheType, IntrOne, NEW i \in Buf, i = req[Head(used)].b
  PROVE  /\ UNCHANGED <<NUM, lru, free, req, avail, intr, handler, platter, pinned>>
         /\ handler /\ used # <<>> /\ req[Head(used)].ok /\ used' = Tail(used)
         /\ buf' \in [Buf -> BufType] /\ st' \in [Proc -> StType]
         /\ KeepBlockno /\ KeepValid /\ KeepRefcnt /\ KeepLock /\ KeepData /\ KeepHeld /\ KeepWrite /\ KeepChain
         /\ ~buf'[i].disk /\ \A j \in Buf : j # i => buf'[j].disk = buf[j].disk
         /\ \A q \in Proc : st'[q].pc = IF st[q].b = i /\ st[q].pc = "io_sleep" THEN "io" ELSE st[q].pc
<1>1. buf' = [buf EXCEPT ![i].disk = FALSE] /\ Wakeup(Nobody, "", {q \in Proc : st[q].b = i}, "io_sleep", "io")
  BY Zenon DEF IntrOne
<1>2. /\ UNCHANGED <<NUM, lru, free, req, avail, intr, handler, platter, pinned>>
      /\ handler /\ used # <<>> /\ req[Head(used)].ok /\ used' = Tail(used)
  BY Zenon DEF IntrOne
<1> QED
  BY <1>1, <1>2, CollectEffect, Zenon

\* virtio_disk_intr handles a completion.
LEMMA IntrInv ==
  ASSUME DataInv, IntrOne
  PROVE  DataInv'
<1> USE DEF DataInv
<1>u. used \in Seq(Desc) /\ used # <<>>
  BY Zenon DEF IntrOne, DiskType
<1>t. /\ Tail(used) \in Seq(Desc) /\ Head(used) \in Heads(used) /\ Heads(Tail(used)) = Heads(used) \ {Head(used)}
      /\ \A k, l \in 1..Len(Tail(used)) : Tail(used)[k] = Tail(used)[l] => k = l
  <2> HIDE DEF DataInv
  <2>1. \A k, l \in 1..Len(used) : used[k] = used[l] => k = l
    BY DEF DataInv, Rings
  <2> QED
    BY <1>u, <2>1, HeadsTail, Zenon
<1>h. PICK h : h = Head(used) /\ h \in Pending
  BY <1>t DEF Pending
<1>0. PICK p \in Proc : Serves(h, p) /\ st[p].b \in Buf /\ st[p].pc \in Locked
  BY <1>h, Served, Zenon
<1>i. PICK i \in Buf : i = req[h].b /\ i = st[p].b
  BY <1>0, Zenon DEF Serves
<1>1. /\ UNCHANGED <<NUM, lru, free, req, avail, intr, handler, platter, pinned>>
      /\ handler /\ req[h].ok /\ used' = Tail(used)
      /\ buf' \in [Buf -> BufType] /\ st' \in [Proc -> StType]
      /\ KeepBlockno /\ KeepValid /\ KeepRefcnt /\ KeepLock /\ KeepData /\ KeepHeld /\ KeepWrite /\ KeepChain
  BY <1>h, <1>i, IntrEffect, Zenon
<1>2. /\ ~buf'[i].disk /\ \A j \in Buf : j # i => buf'[j].disk = buf[j].disk
      /\ \A q \in Proc : st'[q].pc = IF st[q].b = i /\ st[q].pc = "io_sleep" THEN "io" ELSE st[q].pc
  BY <1>h, <1>i, IntrEffect
<1>3. Heads(used') = Heads(used) \ {h} /\ h \in Heads(used) /\ h \notin avail
  BY <1>1, <1>t, <1>h, Zenon DEF Rings
<1>4. CacheType' /\ DiskType'
  BY <1>1, <1>t, CacheTypeKept, Zenon DEF CacheType, DiskType, Desc, ReqType
<1>5. \A q \in Proc : /\ st'[q].pc = "idle" <=> st[q].pc = "idle"
                      /\ st'[q].pc = "hold" <=> st[q].pc = "hold"
                      /\ st'[q].pc \in Locked <=> st[q].pc \in Locked
                      /\ st'[q].pc \in InIO <=> st[q].pc \in InIO
  BY <1>2 DEF Locked, InIO
<1>6. Places'
  BY <1>1, <1>5, PlaceKept, Zenon DEF SamePlace, Places, KeepBlockno, KeepValid, KeepLock, KeepHeld, KeepWrite, KeepChain
<1>7. Blocks' /\ Chains' /\ Listed'
  BY <1>1, BlocksKept, ChainsKept, Zenon DEF Listed, Buf
<1>8. Rings'
  BY <1>1, <1>t, <1>3, Zenon DEF Rings
<1>9. Pending' = Pending \ {h}
  BY <1>1, <1>3 DEF Pending
<1>10. ASSUME NEW g \in Pending, g # h, NEW q \in Proc, Serves(g, q)
       PROVE  Serves(g, q)' /\ st[q].b # i
  <2>1. req[g].b # i /\ req[g].b = st[q].b
    <3>1. req[g].b = st[q].b
      BY <1>10, Zenon DEF Serves
    <3>2. req[g].b # req[h].b
      BY <1>h, <1>10, Zenon DEF Flights
    <3> QED
      BY <1>i, <3>1, <3>2
  <2>2. st[q].b \in Buf
    BY <1>10, Held DEF Serves, InIO
  <2> QED
    BY <1>1, <1>2, <1>5, <1>10, <2>1, <2>2, ZenonT(40) DEF Serves, KeepBlockno, KeepHeld, KeepWrite, KeepChain
<1>11. Flights'
  <2>1. \A g \in Pending' : \E q \in Proc : Serves(g, q)'
    BY <1>9, <1>10, Zenon DEF Flights
  <2>2. \A f, g \in Pending' : req'[f].b = req'[g].b => f = g
    BY <1>1, <1>9, Zenon DEF Flights
  <2>3. ASSUME NEW q \in Proc, st'[q].pc \in InIO
        PROVE  /\ st'[q].pc = "io_sleep" => buf'[st'[q].b].disk
               /\ buf'[st'[q].b].disk => \E g \in Pending' : Serves(g, q)'
    <3>1. st[q].pc \in InIO /\ st[q].b \in Buf /\ st'[q].b = st[q].b
      BY <1>1, <1>5, <2>3, Held, Zenon DEF InIO, KeepHeld
    <3>2. CASE st[q].b = i
      BY <1>2, <3>1, <3>2, Zenon
    <3>3. CASE st[q].b # i
      <4>1. buf'[st[q].b].disk = buf[st[q].b].disk /\ st'[q].pc = st[q].pc
        BY <1>2, <3>1, <3>3
      <4>2. ASSUME buf[st[q].b].disk
            PROVE  \E g \in Pending' : Serves(g, q)'
        <5>1. PICK g \in Pending : Serves(g, q)
          BY <3>1, <4>2 DEF Flights
        <5>2. g # h
          BY <1>i, <3>3, <5>1, Zenon DEF Serves
        <5> QED
          BY <1>9, <1>10, <5>1, <5>2, Zenon
      <4> QED
        BY <3>1, <4>1, <4>2, Zenon DEF Flights
    <3> QED
      BY <3>2, <3>3, Zenon
  <2>4. \A j \in Buf : buf'[j].disk => \E q \in Proc : st'[q].b = j /\ st'[q].pc \in InIO
    <3> SUFFICES ASSUME NEW j \in Buf, buf'[j].disk
                 PROVE  \E q \in Proc : st'[q].b = j /\ st'[q].pc \in InIO
      OBVIOUS
    <3>1. buf[j].disk
      BY <1>2, Zenon
    <3>2. PICK q \in Proc : st[q].b = j /\ st[q].pc \in InIO
      BY <3>1, Zenon DEF Flights
    <3> QED
      BY <1>1, <1>5, <3>2, Zenon DEF KeepHeld
  <2>5. \A q \in Proc : st'[q].pc = "io_sleep" => st'[q].pc \in InIO
    BY Zenon DEF InIO
  <2> QED
    BY <2>1, <2>2, <2>3, <2>4, <2>5, Zenon DEF Flights, Buf
<1>12. Sleeps'
  <2>1. \A q \in Proc : /\ st'[q].pc = "lock_sleep" => st[q].pc = "lock_sleep"
                        /\ st'[q].pc = "desc_sleep" => st[q].pc = "desc_sleep"
    BY <1>2
  <2> QED
    BY <1>1, <2>1, Held, ZenonT(40) DEF Sleeps, KeepLock, KeepHeld
<1>13. Datas'
  <2>1. \A j \in Buf : Clean(j)' <=> Clean(j)
    BY <1>1, Zenon DEF Clean, KeepData, KeepBlockno
  <2>2. \A j \in Buf : buf'[j].valid /\ j \notin pinned' /\ buf'[j].lock = Nobody => Clean(j)'
    BY <1>1, <2>1, Zenon DEF Datas, KeepValid, KeepLock
  <2>3. ASSUME NEW q \in Proc, Completed(q)'
        PROVE  Clean(st[q].b)' /\ st'[q].b = st[q].b
    <3>1. /\ st[q].pc \in InIO /\ st[q].pc \in Locked /\ st[q].b \in Buf
          /\ st'[q].b = st[q].b /\ st'[q].chain = st[q].chain
      BY <1>1, <1>5, <2>3, Held, Zenon DEF Completed, InIO, Locked, KeepHeld, KeepChain
    <3>2. Completed(q)
      <4>1. CASE q = p
        BY <1>0, <1>1, <1>3, <3>1, <4>1, Zenon DEF Completed, Serves
      <4>2. CASE q # p
        <5>1. st[q].b # i
          BY <1>0, <1>i, <3>1, <4>2, OneHolder
        <5> QED
          BY <1>1, <1>2, <1>3, <2>3, <3>1, <5>1, Zenon DEF Completed
      <4> QED
        BY <4>1, <4>2
    <3> QED
      BY <2>1, <3>1, <3>2 DEF Datas
  <2> QED
    BY <2>2, <2>3, Zenon DEF Datas, Clean, Buf
<1> QED
  BY <1>4, <1>6, <1>7, <1>8, <1>11, <1>12, <1>13

=============================================================================
