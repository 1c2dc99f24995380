----------------------------- MODULE LogProofs ------------------------------
(***************************************************************************)
(* Proofs about the logging layer (Log, of kernel/log.c), for every number *)
(* of processes, blocks and contents, every size of the log and any number *)
(* of crashes: a commit runs alone, the reservations of begin_op suffice,  *)
(* no sleeper is forgotten, and the log implements AtomicDisk.  The        *)
(* invariant is LogInv of LogDataProofs, which also proves what concerns   *)
(* the data; here are the control, the space in the log and the sleepers,  *)
(* which count the calls under way.                                        *)
(***************************************************************************)
EXTENDS LogDataProofs, FiniteSetTheorems

\* A call that ends was counted.
LEMMA EndCounts ==
  ASSUME LogType, Control, NEW p \in Proc, pc[p] = "op"
  PROVE  outstanding >= 1 /\ (outstanding = 1 => Active = {p})
<1>1. IsFiniteSet(Active) /\ p \in Active
  BY LogAssumption, FS_Subset DEF Active
<1> QED
  BY <1>1, FS_EmptySet, FS_Singleton, FS_CardinalityType DEF Control

-----------------------------------------------------------------------------
(* Types.                                                                  *)

\* Every step keeps the types.
LEMMA TypeStep ==
  ASSUME LogType, Control, Space, [Next]_vars
  PROVE  LogType'
<1> USE Sizes DEF LogType
<1>l. {"idle", "asleep", "woken", "op", "read_head", "done", "write_log", "write_head",
       "install", "erase", "finish"} \subseteq Labels
  BY DEF Labels, InCommit
<1>1. ASSUME NEW p \in Proc, BeginOpSleep(p) \/ BeginOp(p) \/ Kill(p)
      PROVE  LogType'
  <2>1. pc' \in [Thread -> Labels]
    BY <1>1, <1>l, PcMoves, Zenon DEF BeginOpSleep, BeginOp, Kill
  <2>2. CASE BeginOp(p)
    BY <2>1, <2>2 DEF BeginOp, media
  <2>3. CASE BeginOpSleep(p) \/ Kill(p)
    BY <2>1, <2>3 DEF BeginOpSleep, Kill, media, shared
  <2> QED
    BY <1>1, <2>2, <2>3, Zenon
<1>2. ASSUME NEW p \in Proc, EndOp(p)
      PROVE  LogType'
  <2>1. outstanding' \in Nat
    BY <1>2, EndCounts DEF EndOp
  <2>2. pc' \in [Thread -> Labels] /\ committing' \in BOOLEAN
    BY <1>2, <1>l, PcMoves, WakeMoves, Zenon DEF EndOp
  <2> QED
    BY <1>2, <2>1, <2>2 DEF EndOp, media
<1>3. ASSUME NEW p \in Proc, EndOpFinish(p)
      PROVE  LogType'
  <2>1. pc' \in [Thread -> Labels]
    BY <1>3, <1>l, WakeMoves, Zenon DEF EndOpFinish
  <2> QED
    BY <1>3, <2>1, Zenon DEF EndOpFinish, media
<1>4. ASSUME NEW p \in Proc, NEW b \in Block, LogWritePanics(p, b)
      PROVE  LogType'
  BY <1>4 DEF LogWritePanics, media, shared
<1>5. ASSUME NEW p \in Proc, NEW b \in Block, NEW x \in Val, LogWrite(p, b, x)
      PROVE  LogType'
  <2>1. lh' \in Seq(Block)
    BY <1>5, AppendBlock DEF LogWrite
  <2> QED
    BY <1>5, <2>1 DEF LogWrite, media
<1>6. ASSUME NEW t \in Thread, WriteLog(t)
      PROVE  LogType'
  <2>1. tail[t] \in 1..Len(lh) /\ pc' \in [Thread -> Labels] /\ tail' \in [Thread -> Nat \ {0}]
    BY <1>6, <1>l, TurnMoves, Zenon DEF WriteLog
  <2>2. cache[lh[tail[t]]] \in Val
    BY <2>1
  <2> QED
    BY <1>6, <2>1, <2>2, Zenon DEF WriteLog, shared
<1>7. ASSUME NEW t \in Thread, WriteHead(t)
      PROVE  LogType'
  <2>1. pc' \in [Thread -> Labels] /\ tail' \in [Thread -> Nat \ {0}]
    BY <1>7, <1>l, StepMoves, Zenon DEF WriteHead
  <2> QED
    BY <1>7, <2>1 DEF WriteHead, shared
<1>8. ASSUME NEW t \in Thread, Install(t)
      PROVE  LogType'
  <2>1. tail[t] \in 1..Len(lh) /\ pc' \in [Thread -> Labels] /\ tail' \in [Thread -> Nat \ {0}]
    BY <1>8, <1>l, TurnMoves DEF Install
  <2>2. logblk[tail[t]] \in Val /\ lh[tail[t]] \in Block
    BY <2>1 DEF Space
  <2> QED
    BY <1>8, <2>1, <2>2 DEF Install, shared
<1>9. ASSUME NEW t \in Thread, Erase(t)
      PROVE  LogType'
  <2>1. pc' \in [Thread -> Labels] /\ tail' \in [Thread -> Nat \ {0}]
    BY <1>9, <1>l, StepMoves, Zenon DEF Erase
  <2> QED
    BY <1>9, <2>1, EmptyLog DEF Erase
<1>10. CASE ReadHead
  <2>1. pc' \in [Thread -> Labels] /\ tail' \in [Thread -> Nat \ {0}]
    BY <1>10, <1>l, StepMoves DEF ReadHead
  <2> QED
    BY <1>10, <2>1 DEF ReadHead, media
<1>11. ASSUME NEW b \in Block, Recycle(b)
       PROVE  LogType'
  BY <1>11 DEF Recycle, media, shared
<1>12. CASE Crash
  <2>1. pc' \in [Thread -> Labels] /\ tail' \in [Thread -> Nat \ {0}]
    BY <1>12, <1>l DEF Crash
  <2>2. crashes' \in Nat
    BY <1>12 DEF Crash
  <2> QED
    BY <1>12, <2>1, <2>2, EmptyLog, Zenon DEF Crash, media
<1>13. CASE UNCHANGED vars
  BY <1>13 DEF vars
<1> QED
  BY <1>1, <1>2, <1>3, <1>4, <1>5, <1>6, <1>7, <1>8, <1>9, <1>10, <1>11, <1>12, <1>13, Zenon
  DEF Next, Commit

-----------------------------------------------------------------------------
(* Control.                                                                *)

\* A commit, or recovery, goes on from one step to another.
LEMMA CommitMoves ==
  ASSUME LogType, Control, NEW t \in Thread, NEW to \in InCommit, Moves(t, to),
         pc[t] \in InCommit, t = Boot => to \in {"install", "erase"},
         UNCHANGED <<outstanding, committing>>,
         \A u \in Thread : u # t \/ to \notin {"write_log", "install"} => tail'[u] = IF u = t THEN 1 ELSE tail[u]
  PROVE  Control'
<1> USE Sizes
<1>1. \A u \in Thread : pc[u] \in InCommit \cup {"op"} => u = t
  BY DEF Control, CommitAlone
<1>2. "op" \notin InCommit
  BY DEF InCommit
<1>3. \A u \in Thread : pc'[u] \in InCommit \cup {"op"} => u = t
  BY <1>1, <1>2 DEF Moves
<1>4. Active' = {} /\ Active = {}
  BY <1>1, <1>2 DEF Moves, Active
<1>5. pc'[Boot] \in {"read_head", "install", "erase", "done"}
  BY DEF Moves, Control
<1>6. \A p \in Proc : pc'[p] \notin {"read_head", "done"}
  BY DEF Moves, Control, InCommit
<1>7. pc'[Boot] # "done" => \A p \in Proc : pc'[p] = "idle"
  <2>1. CASE t = Boot
    <3>1. pc[Boot] # "done"
      BY <2>1 DEF InCommit
    <3> QED
      BY <2>1, <3>1 DEF Moves, Control
  <2>2. CASE t # Boot
    <3>1. pc[t] # "idle" /\ t \in Proc
      BY <2>2 DEF InCommit
    <3> QED
      BY <2>2, <3>1 DEF Moves, Control
  <2> QED
    BY <2>1, <2>2
<1>8. CommitAlone'
  <2>1. \A u, v \in Thread : pc'[u] \in InCommit /\ pc'[v] \in InCommit \cup {"op"} => u = v
    BY <1>3
  <2>2. committing <=> \E p \in Proc : pc[p] \in InCommit
    BY DEF Control, CommitAlone
  <2>3. (\E p \in Proc : pc[p] \in InCommit) <=> (\E p \in Proc : pc'[p] \in InCommit)
    BY DEF Moves
  <2> QED
    BY <2>1, <2>2, <2>3 DEF CommitAlone
<1>9. outstanding' = Cardinality(Active')
  BY <1>4 DEF Control
<1>10. \A u \in Thread : pc'[u] \notin {"write_log", "install"} => tail'[u] = 1
  BY DEF Moves, Control
<1> QED
  BY <1>5, <1>6, <1>7, <1>8, <1>9, <1>10 DEF Control

\* A process outside of the file system goes to another place outside, or falls asleep.
LEMMA OutsideMoves ==
  ASSUME LogType, Control, NEW p \in Proc, NEW to \in {"idle", "asleep", "woken"}, Moves(p, to),
         pc[p] \in {"idle", "asleep", "woken"}, pc[Boot] = "done",
         UNCHANGED <<outstanding, committing, tail>>
  PROVE  Control'
<1> USE Sizes
<1>1. Active' = Active
  BY DEF Active, Moves
<1>2. \A u \in Thread : pc'[u] \in InCommit \cup {"op"} <=> pc[u] \in InCommit \cup {"op"}
  BY DEF Moves, InCommit
<1>3. \A u \in Thread : pc'[u] \in InCommit <=> pc[u] \in InCommit
  BY DEF Moves, InCommit
<1>4. CommitAlone'
  BY <1>2, <1>3 DEF CommitAlone, Control
<1> QED
  BY <1>1, <1>4 DEF Moves, Control

\* Every step keeps Control.
LEMMA ControlStep ==
  ASSUME LogType, Control, Space, [Next]_vars
  PROVE  Control'
<1> USE Sizes
<1>l. {"idle", "asleep", "woken", "op", "read_head", "done", "write_log", "write_head",
       "install", "erase", "finish"} \subseteq Labels
  BY DEF Labels, InCommit
<1>1. ASSUME NEW p \in Proc, BeginOpSleep(p) \/ Kill(p)
      PROVE  Control'
  <2>1. PICK to \in {"asleep", "woken"} : Moves(p, to)
    BY <1>1, <1>l, PcMoves DEF BeginOpSleep, Kill
  <2>2. pc[p] \in {"idle", "asleep", "woken"} /\ UNCHANGED <<outstanding, committing, tail>>
    BY <1>1 DEF BeginOpSleep, Kill, CanBegin, shared
  <2>3. pc[Boot] = "done"
    BY <1>1 DEF BeginOpSleep, Kill, CanBegin, Control
  <2> QED
    BY <2>1, <2>2, <2>3, OutsideMoves
<1>2. ASSUME NEW p \in Proc, BeginOp(p)
      PROVE  Control'
  <2>1. Moves(p, "op") /\ pc[p] \in {"idle", "woken"} /\ pc[Boot] = "done" /\ ~committing
    BY <1>2, <1>l, PcMoves, Zenon DEF BeginOp, CanBegin
  <2>2. Active' = Active \cup {p} /\ p \notin Active
    BY <2>1 DEF Active, Moves
  <2>3. outstanding' = Cardinality(Active')
    <3>1. IsFiniteSet(Active)
      BY LogAssumption, FS_Subset DEF Active
    <3>2. Cardinality(Active \cup {p}) = Cardinality(Active) + 1
      BY <2>2, <3>1, FS_AddElement, Zenon
    <3> QED
      BY <1>2, <2>2, <3>2 DEF BeginOp, Control
  <2>4. \A u \in Thread : pc'[u] \notin InCommit
    BY <2>1 DEF Control, CommitAlone, Moves, InCommit
  <2>5. CommitAlone'
    BY <1>2, <2>1, <2>4 DEF CommitAlone, BeginOp
  <2> QED
    BY <1>2, <2>1, <2>3, <2>5 DEF Moves, Control, BeginOp
<1>3. ASSUME NEW p \in Proc, EndOp(p)
      PROVE  Control'
  <2>0. pc[p] = "op" /\ outstanding' = outstanding - 1 /\ tail' = tail /\ pc[Boot] = "done"
    BY <1>3 DEF EndOp, Control
  <2>n. \A u \in Thread : pc[u] \notin InCommit
    BY <2>0 DEF Control, CommitAlone, InCommit
  <2>f. IsFiniteSet(Active) /\ p \in Active
    BY <2>0, LogAssumption, FS_Subset DEF Active
  <2>c. Active' = Active \ {p} => outstanding' = Cardinality(Active')
    BY <2>0, <2>f, FS_RemoveElement, Zenon DEF Control
  <2>1. CASE outstanding = 1
    <3>1. PICK to \in {"finish", "write_log"} : Moves(p, to)
      BY <1>3, <1>l, <2>1, PcMoves DEF EndOp
    <3>2. Active' = Active \ {p}
      BY <3>1 DEF Active, Moves
    <3>3. Active = {p}
      BY <2>0, <2>1, EndCounts
    <3>4. \A u \in Thread : pc'[u] \in InCommit \cup {"op"} => u = p
      BY <2>0, <2>n, <3>1, <3>3 DEF Moves, Active
    <3>5. pc'[p] \in InCommit /\ committing'
      BY <1>3, <2>1, <3>1 DEF EndOp, Moves, InCommit
    <3>6. CommitAlone'
      BY <3>4, <3>5 DEF CommitAlone
    <3>7. \A u \in Thread : pc'[u] \notin {"write_log", "install"} => tail'[u] = 1
      BY <2>0, <3>1 DEF Control, Moves
    <3> QED
      BY <2>0, <2>c, <3>1, <3>2, <3>6, <3>7, SMTT(30) DEF Control, Moves
  <2>2. CASE outstanding # 1
    <3>1. \A u \in Thread : pc'[u] = IF u = p THEN "idle"
                                     ELSE IF pc[u] = "asleep" THEN "woken" ELSE pc[u]
      BY <1>3, <1>l, <2>2, WakeMoves DEF EndOp
    <3>2. Active' = Active \ {p}
      BY <3>1 DEF Active
    <3>3. \A u \in Thread : pc'[u] \notin InCommit
      BY <2>n, <3>1 DEF InCommit
    <3>4. CommitAlone'
      BY <1>3, <2>2, <2>n, <3>3, Zenon DEF CommitAlone, EndOp, Control
    <3> QED
      BY <2>0, <2>c, <3>1, <3>2, <3>4, Zenon DEF Control
  <2> QED
    BY <2>1, <2>2, Zenon
<1>4. ASSUME NEW p \in Proc, EndOpFinish(p)
      PROVE  Control'
  <2>1. \A u \in Thread : pc'[u] = IF u = p THEN "idle"
                                   ELSE IF pc[u] = "asleep" THEN "woken" ELSE pc[u]
    BY <1>4, <1>l, WakeMoves DEF EndOpFinish
  <2>2. pc[p] \in InCommit /\ pc[p] = "finish" /\ committing' = FALSE /\ UNCHANGED <<outstanding, tail>>
    BY <1>4 DEF EndOpFinish, InCommit
  <2>3. \A u \in Thread : pc'[u] \notin InCommit
    BY <2>1, <2>2 DEF Control, CommitAlone, InCommit
  <2>4. Active' = Active
    BY <2>1, <2>2 DEF Active
  <2>5. CommitAlone'
    BY <2>2, <2>3 DEF CommitAlone
  <2>6. pc[Boot] = "done"
    BY <2>2 DEF Control
  <2> QED
    BY <2>1, <2>2, <2>4, <2>5, <2>6 DEF Control
<1>5. ASSUME UNCHANGED <<pc, tail, outstanding, committing>>
      PROVE  Control'
  BY <1>5 DEF Control, CommitAlone, Active
<1>6. ASSUME NEW t \in Thread, WriteLog(t)
      PROVE  Control'
  <2>1. /\ pc[t] = "write_log" /\ \A u \in Thread \ {t} : tail'[u] = tail[u]
        /\ \/ Moves(t, "write_head") /\ tail'[t] = 1
           \/ Moves(t, "write_log")
    BY <1>6, <1>l, TurnMoves DEF WriteLog
  <2>2. UNCHANGED <<outstanding, committing>> /\ {"write_head", "write_log"} \subseteq InCommit
    BY <1>6 DEF WriteLog, shared, InCommit
  <2>3. t # Boot
    BY <2>1 DEF Control
  <2>4. CASE Moves(t, "write_head") /\ tail'[t] = 1
    BY <2>1, <2>2, <2>3, <2>4, CommitMoves
  <2>5. CASE Moves(t, "write_log")
    BY <2>1, <2>2, <2>3, <2>5, CommitMoves
  <2> QED
    BY <2>1, <2>4, <2>5
<1>7. ASSUME NEW t \in Thread, WriteHead(t)
      PROVE  Control'
  <2>1. pc[t] = "write_head" /\ Moves(t, "install") /\ \A u \in Thread \ {t} : tail'[u] = tail[u]
    BY <1>7, <1>l, StepMoves DEF WriteHead
  <2>2. UNCHANGED <<outstanding, committing>> /\ {"write_head", "install"} \subseteq InCommit
    BY <1>7 DEF WriteHead, shared, InCommit
  <2> QED
    BY <2>1, <2>2, CommitMoves
<1>8. ASSUME NEW t \in Thread, Install(t)
      PROVE  Control'
  <2>1. /\ pc[t] = "install" /\ \A u \in Thread \ {t} : tail'[u] = tail[u]
        /\ \/ Moves(t, "erase") /\ tail'[t] = 1
           \/ Moves(t, "install")
    BY <1>8, <1>l, TurnMoves DEF Install
  <2>2. UNCHANGED <<outstanding, committing>> /\ {"erase", "install"} \subseteq InCommit
    BY <1>8 DEF Install, shared, InCommit
  <2>3. CASE Moves(t, "erase") /\ tail'[t] = 1
    BY <2>1, <2>2, <2>3, CommitMoves
  <2>4. CASE Moves(t, "install")
    BY <2>1, <2>2, <2>4, CommitMoves
  <2> QED
    BY <2>1, <2>3, <2>4, Zenon
<1>9. ASSUME NEW t \in Proc, Erase(t)
      PROVE  Control'
  <2>1. /\ pc[t] = "erase" /\ Moves(t, "finish")
        /\ \A u \in Thread : tail'[u] = IF u = t THEN 1 ELSE tail[u]
    BY <1>9, <1>l, StepMoves DEF Erase
  <2>2. UNCHANGED <<outstanding, committing>> /\ {"erase", "finish"} \subseteq InCommit
    BY <1>9 DEF Erase, InCommit
  <2> QED
    BY <2>1, <2>2, CommitMoves
<1>10. ASSUME Erase(Boot) \/ ReadHead
       PROVE  Control'
  <2>1. PICK to \in {"done", "erase", "install"} : Moves(Boot, to)
    BY <1>10, <1>l, StepMoves DEF Erase, ReadHead
  <2>2. pc[Boot] # "done" /\ UNCHANGED <<outstanding, committing>>
    BY <1>10 DEF Erase, ReadHead, Step
  <2>3. \A u \in Thread : tail'[u] = IF u = Boot THEN 1 ELSE tail[u]
    BY <1>10, <1>l, StepMoves DEF Erase, ReadHead
  <2>4. \A p \in Proc : pc'[p] = "idle" /\ pc[p] = "idle"
    BY <2>1, <2>2 DEF Control, Moves
  <2>5. Active' = Active
    BY <2>4 DEF Active
  <2>6. CommitAlone'
    BY <2>1, <2>2, <2>4, Zenon DEF CommitAlone, Control, InCommit
  <2> QED
    BY <2>1, <2>2, <2>3, <2>4, <2>5, <2>6, Zenon DEF Control, Moves
<1>11. CASE Crash
  <2>1. /\ \A u \in Thread : pc'[u] = (IF u = Boot THEN "read_head" ELSE "idle") /\ tail'[u] = 1
        /\ outstanding' = 0 /\ committing' = FALSE
    BY <1>11 DEF Crash
  <2>2. Active' = {}
    BY <2>1 DEF Active
  <2>3. CommitAlone'
    BY <2>1, Zenon DEF CommitAlone, InCommit
  <2> QED
    BY <2>1, <2>2, <2>3, FS_EmptySet, Zenon DEF Control
<1>12. CASE \/ \E b \in Block : Recycle(b)
            \/ \E p \in Proc, b \in Block : LogWritePanics(p, b) \/ \E x \in Val : LogWrite(p, b, x)
            \/ UNCHANGED vars
  BY <1>12, <1>5 DEF Recycle, LogWritePanics, LogWrite, shared, vars
<1> QED
  BY <1>1, <1>2, <1>3, <1>4, <1>6, <1>7, <1>8, <1>9, <1>10, <1>11, <1>12, Zenon DEF Next, Commit, Thread

-----------------------------------------------------------------------------
(* Space.                                                                  *)

\* What the calls under way have written can be counted.
LEMMA WrittenFinite ==
  /\ IsFiniteSet(Written) /\ Cardinality(Written) \in Nat
  /\ IsFiniteSet(Written') /\ Cardinality(Written') \in Nat
<1>1. IsFiniteSet(Proc \X Block)
  BY LogAssumption, FS_Product
<1>2. Written \subseteq Proc \X Block /\ Written' \subseteq Proc \X Block
  BY DEF Written
<1>3. IsFiniteSet(Written) /\ IsFiniteSet(Written')
  BY <1>1, <1>2, FS_Subset
<1> QED
  BY <1>3, FS_CardinalityType

\* The reservations still fit when what they stand for has not grown.
LEMMA FewerReserved ==
  ASSUME Len(lh) \in Nat, outstanding \in Nat, Len(lh') \in Nat, outstanding' \in Nat, ReservedSpace,
         Len(lh') + MAXOPBLOCKS * outstanding' - Cardinality(Written')
           <= Len(lh) + MAXOPBLOCKS * outstanding - Cardinality(Written)
  PROVE  ReservedSpace'
<1>1. outstanding \in Nat /\ outstanding' \in Nat /\ MAXOPBLOCKS \in Nat
  BY Sizes
<1>2. PICK m \in Int : m = MAXOPBLOCKS * outstanding
  BY ONLY <1>1
<1>3. PICK n \in Int : n = MAXOPBLOCKS * outstanding'
  <2>1. MAXOPBLOCKS * outstanding' \in Int
    BY ONLY <1>1
  <2> QED
    BY ONLY <2>1, Zenon
<1>4. /\ Cardinality(Written) \in Nat /\ Cardinality(Written') \in Nat
      /\ Len(lh) \in Nat /\ Len(lh') \in Nat /\ LOGSIZE \in Nat
  BY WrittenFinite, Sizes
<1>5. Len(lh) + m - Cardinality(Written) <= LOGSIZE
  BY <1>2 DEF ReservedSpace
<1>6. Len(lh') + n - Cardinality(Written') <= Len(lh) + m - Cardinality(Written)
  BY <1>2, <1>3
<1>7. Len(lh') + n - Cardinality(Written') <= LOGSIZE
  BY ONLY <1>4, <1>5, <1>6, m \in Int, n \in Int, SMTT(30)
<1> QED
  BY <1>3, <1>7 DEF ReservedSpace

\* Nothing is written, and the same calls are under way.
LEMMA SameSpace ==
  ASSUME Space, UNCHANGED <<lh, wrote, outstanding>>, hdr' \in {hdr, lh}, Active' = Active
  PROVE  Space'
<1>1. \A p \in Proc : pc'[p] = "op" <=> pc[p] = "op"
  BY DEF Active
<1>2. Written' = Written
  BY <1>1 DEF Written
<1> QED
  BY <1>1, <1>2 DEF Space, ReservedSpace

\* No call is under way.
LEMMA NoCallSpace ==
  ASSUME LogType, Space, Active' = {}, outstanding' = 0, lh' \in {<<>>, hdr}, hdr' \in {<<>>, hdr}
  PROVE  Space'
<1>1. \A p \in Proc : pc'[p] # "op"
  BY DEF Active
<1>2. Written' = {}
  BY <1>1 DEF Written
<1>3. \A q \in {lh', hdr'} : Len(q) <= LOGSIZE /\ Len(q) <= LogSize - 1 /\ Distinct(q)
  BY Sizes, EmptyLog DEF Space
<1>4. Len(lh') \in Nat
  BY EmptyLog DEF LogType
<1>5. ReservedSpace'
  BY <1>2, <1>3, <1>4, Sizes, FS_EmptySet, SMTT(30) DEF ReservedSpace
<1> QED
  BY <1>1, <1>3, <1>5 DEF Space

\* Every step keeps Space.
LEMMA SpaceStep ==
  ASSUME LogType, Control, Space, LogType', Control', [Next]_vars
  PROVE  Space'
<1> USE Sizes
<1>t. /\ Len(lh) \in Nat /\ outstanding \in Nat /\ Len(lh') \in Nat /\ outstanding' \in Nat
      /\ ReservedSpace
  BY SMTT(30) DEF LogType, Space
<1>l. {"idle", "asleep", "woken", "op", "read_head", "done", "write_log", "write_head",
       "install", "erase", "finish"} \subseteq Labels
  BY DEF Labels, InCommit
<1>1. ASSUME NEW p \in Proc, BeginOpSleep(p) \/ Kill(p)
      PROVE  Space'
  <2>1. PICK to \in {"asleep", "woken"} : Moves(p, to)
    BY <1>1, <1>l, PcMoves DEF BeginOpSleep, Kill
  <2>2. pc[p] # "op" /\ UNCHANGED <<lh, hdr, wrote, outstanding>>
    BY <1>1 DEF BeginOpSleep, Kill, CanBegin, shared, media
  <2>3. Active' = Active
    BY <2>1, <2>2 DEF Active, Moves
  <2> QED
    BY <2>2, <2>3, SameSpace
<1>2. ASSUME NEW p \in Proc, BeginOp(p)
      PROVE  Space'
  <2>1. Moves(p, "op") /\ pc[p] # "op" /\ ~NoSpace /\ UNCHANGED <<lh, hdr>>
    BY <1>2, <1>l, PcMoves, Zenon DEF BeginOp, CanBegin, media
  <2>2. outstanding' = outstanding + 1 /\ \A q \in Proc : wrote'[q] = IF q = p THEN {} ELSE wrote[q]
    BY <1>2, Zenon DEF BeginOp, LogType
  <2>3. \A w \in Proc \X Block : w \in Written' <=> w \in Written
    BY <2>1, <2>2 DEF Written, Moves
  <2>4. Written' = Written
    BY <2>3 DEF Written
  <2>5. Len(lh) + (outstanding + 1) * MAXOPBLOCKS <= LOGSIZE
    BY <2>1 DEF NoSpace, LogType
  <2>6. ReservedSpace'
    <3>1. PICK m \in Int : m = MAXOPBLOCKS * (outstanding + 1) /\ m = (outstanding + 1) * MAXOPBLOCKS
      BY DEF LogType
    <3> QED
      BY <2>1, <2>2, <2>4, <2>5, <3>1, WrittenFinite, SMTT(30) DEF ReservedSpace, LogType
  <2>7. \A q \in Proc : pc'[q] = "op" =>
          wrote'[q] \subseteq Range(lh') /\ Cardinality(wrote'[q]) <= MAXOPBLOCKS
    BY <2>1, <2>2, FS_EmptySet, SMTT(30) DEF Moves, Space
  <2> QED
    BY <2>1, <2>6, <2>7 DEF Space
<1>3. ASSUME NEW p \in Proc, EndOp(p)
      PROVE  Space'
  <2>0. pc[p] = "op" /\ outstanding' = outstanding - 1 /\ UNCHANGED <<lh, hdr, wrote>>
    BY <1>3 DEF EndOp, media
  <2>1. \A q \in Proc : pc'[q] = "op" <=> (pc[q] = "op" /\ q # p)
    <3>1. CASE outstanding = 1
      <4>1. PICK to \in {"finish", "write_log"} : Moves(p, to)
        BY <1>3, <1>l, <3>1, PcMoves, Zenon DEF EndOp
      <4> QED
        BY <4>1 DEF Moves
    <3>2. CASE outstanding # 1
      BY <1>3, <1>l, <3>2, WakeMoves, SMTT(30) DEF EndOp
    <3> QED
      BY <3>1, <3>2
  <2>2. Written' = Written \ ({p} \X wrote[p]) /\ {p} \X wrote[p] \subseteq Written
    <3>1. \A w \in Proc \X Block : w \in {p} \X wrote[p] <=> w[1] = p /\ w[2] \in wrote[p]
      BY DEF LogType
    <3>2. {p} \X wrote[p] \subseteq Proc \X Block
      BY DEF LogType
    <3> QED
      BY <2>0, <2>1, <3>1, <3>2, Zenon DEF Written
  <2>3. Cardinality({p} \X wrote[p]) = Cardinality(wrote[p]) /\ Cardinality(wrote[p]) \in Nat
    <3>1. IsFiniteSet(wrote[p]) /\ Cardinality(wrote[p]) \in Nat
      BY LogAssumption, FS_Subset, FS_CardinalityType DEF LogType
    <3>2. IsFiniteSet({p}) /\ Cardinality({p}) = 1
      BY FS_Singleton
    <3>3. Cardinality({p} \X wrote[p]) = Cardinality({p}) * Cardinality(wrote[p])
      BY <3>1, <3>2, FS_Product
    <3> QED
      BY <3>1, <3>2, <3>3, SMTT(30)
  <2>4. Cardinality(Written') = Cardinality(Written) - Cardinality(wrote[p])
    <3>1. Written \cap ({p} \X wrote[p]) = {p} \X wrote[p]
      BY <2>2
    <3>2. Cardinality(Written \ ({p} \X wrote[p])) = Cardinality(Written) - Cardinality(Written \cap ({p} \X wrote[p]))
      BY WrittenFinite, FS_Difference, Zenon
    <3> QED
      BY <2>2, <2>3, <3>1, <3>2, Zenon
  <2>5. Cardinality(wrote[p]) <= MAXOPBLOCKS
    BY <2>0 DEF Space
  <2>6. ReservedSpace'
    <3>0. MAXOPBLOCKS * (outstanding - 1) = MAXOPBLOCKS * outstanding - MAXOPBLOCKS
      BY <1>t
    <3>1. MAXOPBLOCKS * outstanding' = MAXOPBLOCKS * outstanding - MAXOPBLOCKS
      BY <2>0, <3>0
    <3>2. MAXOPBLOCKS * outstanding \in Int /\ Len(lh) \in Nat /\ Len(lh') = Len(lh)
      BY <1>t, <2>0
    <3>3. Len(lh') + MAXOPBLOCKS * outstanding' - Cardinality(Written')
            <= Len(lh) + MAXOPBLOCKS * outstanding - Cardinality(Written)
      BY <2>3, <2>4, <2>5, <3>1, <3>2, WrittenFinite, SMTT(30)
    <3> QED
      BY <1>t, <3>3, FewerReserved
  <2> QED
    BY <2>0, <2>1, <2>6 DEF Space
<1>4. ASSUME NEW p \in Proc, EndOpFinish(p)
      PROVE  Space'
  <2>1. pc[p] = "finish" /\ UNCHANGED <<lh, hdr, wrote, outstanding>>
    BY <1>4 DEF EndOpFinish, media
  <2>2. Active' = Active
    BY <1>4, <1>l, <2>1, WakeMoves DEF EndOpFinish, Active
  <2> QED
    BY <2>1, <2>2, SameSpace
<1>5. ASSUME NEW p \in Proc, NEW b \in Block, NEW x \in Val, LogWrite(p, b, x)
      PROVE  Space'
  <2>0. /\ pc[p] = "op" /\ ~LogFull /\ Cardinality(wrote[p] \cup {b}) <= MAXOPBLOCKS
        /\ UNCHANGED <<hdr, outstanding, pc>>
        /\ \A q \in Proc : wrote'[q] = IF q = p THEN wrote[p] \cup {b} ELSE wrote[q]
        /\ lh' = IF b \in Range(lh) THEN lh ELSE Append(lh, b)
    BY <1>5, Zenon DEF LogWrite, MayWrite, media, LogType
  <2>1. Written' = Written \cup {<<p, b>>}
    <3>1. \A w \in Proc \X Block : w \in Written' <=> w \in Written \/ w = <<p, b>>
      BY <2>0 DEF Written
    <3> QED
      BY <3>1, Zenon DEF Written
  <2>2. <<p, b>> \in Written <=> b \in wrote[p]
    BY <2>0 DEF Written
  <2>3. Cardinality(Written') = IF b \in wrote[p] THEN Cardinality(Written) ELSE Cardinality(Written) + 1
    BY <2>1, <2>2, WrittenFinite, FS_AddElement
  <2>4. CASE b \in Range(lh)
    <3>1. ReservedSpace'
      <4>1. MAXOPBLOCKS * outstanding \in Int /\ Len(lh) \in Nat
        BY <1>t, SMTT(30)
      <4>2. Len(lh') + MAXOPBLOCKS * outstanding' - Cardinality(Written')
              <= Len(lh) + MAXOPBLOCKS * outstanding - Cardinality(Written)
        BY <2>0, <2>3, <2>4, <4>1, WrittenFinite
      <4> QED
        BY <1>t, <4>2, FewerReserved
    <3> QED
      BY <2>0, <2>4, <3>1, Zenon DEF Space
  <2>5. CASE b \notin Range(lh)
    <3>1. /\ Len(lh') = Len(lh) + 1 /\ Range(lh') = Range(lh) \cup {b} /\ Distinct(lh')
      BY <2>0, <2>5, AppendBlock, ZenonT(40) DEF Space, LogType
    <3>2. b \notin wrote[p]
      BY <2>0, <2>5, Zenon DEF Space
    <3>3. ReservedSpace'
      <4>1. MAXOPBLOCKS * outstanding \in Int /\ Len(lh) \in Nat
        BY <1>t
      <4>2. Len(lh') + MAXOPBLOCKS * outstanding' - Cardinality(Written')
              <= Len(lh) + MAXOPBLOCKS * outstanding - Cardinality(Written)
        BY <2>0, <2>3, <3>1, <3>2, <4>1, WrittenFinite, SMTT(30)
      <4> QED
        BY <1>t, <4>2, FewerReserved
    <3>4. Len(lh') <= LOGSIZE /\ Len(lh') <= LogSize - 1
      BY <1>t, <2>0, <3>1 DEF LogFull
    <3> QED
      BY <2>0, <3>1, <3>3, <3>4, Zenon DEF Space
  <2> QED
    BY <2>4, <2>5, Zenon
<1>6. ASSUME NEW t \in Thread, WriteLog(t) \/ WriteHead(t) \/ Install(t)
      PROVE  Space'
  <2>1. UNCHANGED <<lh, wrote, outstanding>> /\ hdr' \in {hdr, lh}
    BY <1>6 DEF WriteLog, WriteHead, Install, shared
  <2>2. PICK to \in Labels \ {"op", "asleep", "done"} : Moves(t, to) /\ pc[t] \in InCommit
    BY <1>6, CommitSteps, Zenon
  <2>3. Active' = Active
    BY <2>2 DEF Active, Moves, InCommit
  <2> QED
    BY <2>1, <2>3, SameSpace, Zenon
<1>7. ASSUME NEW t \in Thread, Erase(t) \/ (t = Boot /\ ReadHead)
      PROVE  Space'
  <2>1. /\ lh' \in {<<>>, hdr} /\ hdr' \in {<<>>, hdr} /\ outstanding' = outstanding
        /\ pc[t] \in InCommit \/ pc[Boot] # "done"
    BY <1>7, Zenon DEF Erase, ReadHead, Step, media, InCommit
  <2>2. PICK to \in Labels \ {"op"} : Moves(t, to)
    BY <1>7, <1>l, StepMoves, SMTT(30) DEF Erase, ReadHead
  <2>3. Active = {}
    BY <2>1, Zenon DEF Active, Control, CommitAlone, InCommit
  <2>4. Active' = {}
    BY <2>2, <2>3, Zenon DEF Active, Moves
  <2>5. outstanding = 0
    BY <2>3, FS_EmptySet DEF Control
  <2> QED
    BY <2>1, <2>4, <2>5, NoCallSpace, Zenon
<1>8. CASE Crash
  <2>1. lh' = <<>> /\ hdr' = hdr /\ outstanding' = 0 /\ \A p \in Proc : pc'[p] = "idle"
    BY <1>8 DEF Crash, media
  <2>2. Active' = {}
    BY <2>1 DEF Active
  <2> QED
    BY <2>1, <2>2, NoCallSpace
<1>9. CASE \/ \E b \in Block : Recycle(b)
           \/ \E p \in Proc, b \in Block : LogWritePanics(p, b)
           \/ UNCHANGED vars
  <2>1. UNCHANGED <<lh, hdr, wrote, outstanding, pc>>
    BY <1>9 DEF Recycle, LogWritePanics, media, shared, vars
  <2> QED
    BY <2>1, SameSpace, Zenon DEF Active
<1> QED
  BY <1>1, <1>2, <1>3, <1>4, <1>5, <1>6, <1>7, <1>8, <1>9, Zenon DEF Next, Commit

-----------------------------------------------------------------------------
(* The sleepers.                                                           *)

\* Who finds no space finds none when the log is longer or more calls are under way.
LEMMA NoSpaceStays ==
  ASSUME Len(lh) \in Nat, outstanding \in Nat, Len(lh') \in Nat, NoSpace, Len(lh') >= Len(lh),
         outstanding' \in {outstanding, outstanding + 1}
  PROVE  NoSpace'
<1>1. (outstanding + 1) * MAXOPBLOCKS \in Int
  BY Sizes
<1>2. (outstanding + 1 + 1) * MAXOPBLOCKS = (outstanding + 1) * MAXOPBLOCKS + MAXOPBLOCKS
  BY Sizes
<1>3. (outstanding' + 1) * MAXOPBLOCKS \in Int
      /\ (outstanding' + 1) * MAXOPBLOCKS >= (outstanding + 1) * MAXOPBLOCKS
  <2>1. CASE outstanding' = outstanding
    BY <1>1, <2>1
  <2>2. CASE outstanding' = outstanding + 1
    BY <1>1, <1>2, <2>2, Sizes
  <2> QED
    BY <2>1, <2>2
<1>4. PICK m \in Int : m = (outstanding + 1) * MAXOPBLOCKS
  BY <1>1
<1>5. PICK n \in Int : n = (outstanding' + 1) * MAXOPBLOCKS /\ n >= m
  BY <1>3, <1>4
<1>6. Len(lh) + m > LOGSIZE
  BY <1>4 DEF NoSpace
<1>7. n \in Int /\ m \in Int /\ n >= m /\ Len(lh) \in Nat /\ Len(lh') \in Nat /\ Len(lh') >= Len(lh)
  BY <1>4, <1>5
<1>8. Len(lh') + n > LOGSIZE
  BY ONLY <1>6, <1>7, Sizes, SMTT(30)
<1> QED
  BY <1>5, <1>8 DEF NoSpace

\* Every step keeps SleepersBlocked.
LEMMA SleepStep ==
  ASSUME LogType, Control, SleepersBlocked, LogType', [Next]_vars
  PROVE  SleepersBlocked'
<1> USE Sizes
<1>t. Len(lh) \in Nat /\ outstanding \in Nat /\ Len(lh') \in Nat
  BY DEF LogType
<1>l. {"idle", "asleep", "woken", "op", "read_head", "done", "write_log", "write_head",
       "install", "erase", "finish"} \subseteq Labels
  BY DEF Labels, InCommit
<1>0. ASSUME \A p \in Proc : pc'[p] # "asleep"
      PROVE  SleepersBlocked'
  BY <1>0 DEF SleepersBlocked
<1>s. ASSUME \A p \in Proc : pc'[p] = "asleep" => pc[p] = "asleep" \/ committing \/ NoSpace,
             Len(lh') >= Len(lh), outstanding' \in {outstanding, outstanding + 1},
             committing' = committing
      PROVE  SleepersBlocked'
  BY <1>s, <1>t, NoSpaceStays, Zenon DEF SleepersBlocked
<1>1. ASSUME NEW p \in Proc, BeginOpSleep(p)
      PROVE  SleepersBlocked'
  BY <1>1, <1>l, <1>t, <1>s, PcMoves, SMTT(30) DEF BeginOpSleep, shared, Moves
<1>2. ASSUME NEW p \in Proc, BeginOp(p) \/ Kill(p)
      PROVE  SleepersBlocked'
  <2>1. PICK to \in {"op", "woken"} : Moves(p, to)
    BY <1>2, <1>l, PcMoves, Zenon DEF BeginOp, Kill
  <2>2. lh' = lh /\ outstanding' \in {outstanding, outstanding + 1} /\ committing' = committing
    BY <1>2 DEF BeginOp, Kill, shared
  <2> QED
    BY <1>t, <1>s, <2>1, <2>2, SMTT(30) DEF Moves
<1>3. ASSUME NEW p \in Proc, EndOp(p)
      PROVE  SleepersBlocked'
  <2>1. CASE outstanding = 1
    BY <1>3, <2>1 DEF EndOp, SleepersBlocked
  <2>2. CASE outstanding # 1
    BY <1>0, <1>3, <1>l, <2>2, WakeMoves, Zenon DEF EndOp
  <2> QED
    BY <2>1, <2>2
<1>4. ASSUME NEW p \in Proc, EndOpFinish(p)
      PROVE  SleepersBlocked'
  BY <1>0, <1>4, <1>l, WakeMoves, Zenon DEF EndOpFinish
<1>5. ASSUME NEW p \in Proc, NEW b \in Block, NEW x \in Val, LogWrite(p, b, x)
      PROVE  SleepersBlocked'
  <2>0. lh \in Seq(Block) /\ (lh' = lh \/ lh' = Append(lh, b))
    BY <1>5 DEF LogWrite, LogType
  <2>1. Len(lh') >= Len(lh)
    BY <1>t, <2>0, AppendBlock
  <2> QED
    BY <1>5, <1>s, <2>1, Zenon DEF LogWrite
<1>6. ASSUME NEW t \in Thread, WriteLog(t) \/ WriteHead(t) \/ Install(t)
      PROVE  SleepersBlocked'
  <2>1. PICK to \in Labels \ {"op", "asleep", "done"} : Moves(t, to)
    BY <1>6, CommitSteps, Zenon
  <2>2. UNCHANGED <<lh, outstanding, committing>>
    BY <1>6 DEF WriteLog, WriteHead, Install, shared
  <2> QED
    BY <1>t, <1>s, <2>1, <2>2, SMTT(30) DEF Moves
<1>7. ASSUME NEW t \in Proc, Erase(t)
      PROVE  SleepersBlocked'
  <2>1. committing /\ committing' = committing
    BY <1>7 DEF Erase, Step, Control, CommitAlone, InCommit
  <2> QED
    BY <2>1, Zenon DEF SleepersBlocked
<1>8. ASSUME Erase(Boot) \/ ReadHead
      PROVE  SleepersBlocked'
  <2>1. \E to : Moves(Boot, to)
    BY <1>8, <1>l, StepMoves, Zenon DEF Erase, ReadHead
  <2>2. \A p \in Proc : pc[p] = "idle"
    BY <1>8 DEF Erase, ReadHead, Step, Control
  <2> QED
    BY <1>0, <2>1, <2>2 DEF Moves
<1>9. CASE Crash
  BY <1>0, <1>9 DEF Crash
<1>10. CASE \/ \E b \in Block : Recycle(b)
            \/ \E p \in Proc, b \in Block : LogWritePanics(p, b)
            \/ UNCHANGED vars
  <2>1. UNCHANGED <<lh, outstanding, committing, pc>>
    BY <1>10 DEF Recycle, LogWritePanics, shared, vars
  <2> QED
    BY <1>t, <1>s, <2>1, SMTT(30)
<1> QED
  BY <1>1, <1>2, <1>3, <1>4, <1>5, <1>6, <1>7, <1>8, <1>9, <1>10, Zenon DEF Next, Commit, Thread

-----------------------------------------------------------------------------
\* The machine starts with an empty log.
LEMMA InitLog == Init => LogInv
<1> SUFFICES ASSUME Init PROVE LogInv
  OBVIOUS
<1> USE Sizes DEF Init
<1>0. pc \in [Thread -> Labels] /\ tail \in [Thread -> Nat \ {0}]
  BY DEF Labels
<1>1. LogType
  BY <1>0, LogAssumption, EmptyLog, Zenon DEF LogType
<1>2. Active = {} /\ Written = {}
  BY DEF Active, Written
<1>3. CommitAlone
  BY DEF CommitAlone, InCommit
<1>4. Control
  BY <1>2, <1>3, FS_EmptySet, Zenon DEF Control
<1>5. ReservedSpace
  BY <1>2, FS_EmptySet, EmptyLog DEF ReservedSpace
<1>6. Space
  BY <1>5, EmptyLog DEF Space
<1>7. SleepersBlocked
  BY Zenon DEF SleepersBlocked
<1>8. Data
  BY EmptyLog DEF Data, Header, Pins, Commits, Installs
<1> QED
  BY <1>1, <1>4, <1>6, <1>7, <1>8 DEF LogInv

\* The invariant holds throughout.
LEMMA LogInvariant == Spec => []LogInv
<1>1. ASSUME LogInv, [Next]_vars PROVE LogInv'
  <2>1. LogType' /\ Control'
    BY <1>1, TypeStep, ControlStep DEF LogInv
  <2>2. Space' /\ SleepersBlocked' /\ Data'
    BY <1>1, <2>1, SpaceStep, SleepStep, DataStep DEF LogInv
  <2> QED
    BY <2>1, <2>2 DEF LogInv
<1> QED
  BY <1>1, InitLog, PTL DEF Spec

\* The discipline of the log (log.c): a commit runs while no call is under way and alone
\* ("commits when there are no FS system calls active"), what begin_op reserves is enough for
\* every call, and a process asleep in begin_op could not be admitted.
THEOREM LogDiscipline == Spec => []LogSafe
<1>1. LogInv => LogSafe
  BY Zenon DEF LogInv, Control, Space, LogSafe
<1> QED
  BY <1>1, LogInvariant, PTL

\* The log implements atomic transactions (log.c, opening comment): however many processes
\* write, whenever the machine crashes, also during recovery, what a boot finds on disk is what
\* the calls had written at a moment at which none was under way.
THEOREM LogRefinement == Spec => ImplementsAtomicDisk
<1>1. Init => Atomic!Init
  <2> SUFFICES ASSUME Init PROVE Atomic!Init
    OBVIOUS
  <2>1. Stable = [b \in Block |-> 0]
    BY EmptyLog DEF Init, Stable
  <2> QED
    BY <2>1, LogAssumption, Sizes DEF Init, Atomic!Init, Current, Active
<1>2. LogInv /\ LogInv' /\ [Next]_vars => [Atomic!Next]_<<Stable, Current, Active>>
  BY RefinementStep
<1> QED
  BY <1>1, <1>2, LogInvariant, PTL DEF Spec, Atomic!Spec, ImplementsAtomicDisk
=============================================================================

